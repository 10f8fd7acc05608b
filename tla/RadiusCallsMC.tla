----------------------------- MODULE RadiusCallsMC -----------------------------
(* Instance of RadiusCalls for TLC: a telephone call beside a session or a *)
(* call-back by SMS.  Card A has one line and is charged to its customer   *)
(* and its dealer; B has any number of lines and is charged itself.        *)
EXTENDS RadiusCalls, TLC

CONSTANTS x, y, A, B

TwoCalls   == {x, y}
TwoCards   == {A, B}
Named      == x :> {A} @@ y :> {A, B}
LinesOf    == A :> 1 @@ B :> 0
ChargedTo  == A :> {"dealer", "customer"} @@ B :> {"card"}
WithStart  == {x}
EachKind   == {x :> "phone" @@ y :> k : k \in {"framed", "sms"}}
OneOrTwo   == {1, 2}
=============================================================================
