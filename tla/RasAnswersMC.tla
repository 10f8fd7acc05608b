---------------------------- MODULE RasAnswersMC ----------------------------
(***************************************************************************)
(* RasAnswers for TLC: a few sequence numbers, so that they begin again.   *)
(***************************************************************************)
EXTENDS RasAnswers

=============================================================================
