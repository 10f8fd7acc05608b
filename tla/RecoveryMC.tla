----------------------------- MODULE RecoveryMC -----------------------------
(***************************************************************************)
(* Recovery for TLC: a call of two legs, one of the H.323 proxy, and a     *)
(* fork that lost, over three starts of the program.                       *)
(***************************************************************************)
EXTENDS Recovery

=============================================================================
