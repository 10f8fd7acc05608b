------------------------------ MODULE AnswerCallMC ------------------------------
(* Instance of AnswerCall for TLC: a call with one fork or with two.       *)
EXTENDS AnswerCall

CONSTANTS fa, fb

TwoForks    == {fa, fb}
OneOrBoth   == {{fa}, {fa, fb}}
ChoicesEach == [f \in TwoForks |-> 2]
=============================================================================
