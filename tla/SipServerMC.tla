---------------------------- MODULE SipServerMC ----------------------------
(***************************************************************************)
(* SipServer for TLC: two calls of one INVITE, so that a packet of it that *)
(* comes after the 200 opens the second one.                               *)
(***************************************************************************)
EXTENDS SipServer

=============================================================================
