------------------------------ MODULE LimitedPool ------------------------------
(***************************************************************************)
(* What a counter with a limit promises its clients: those inside never    *)
(* outnumber the limit, nobody is inside twice, nobody leaves who is not   *)
(* inside.  A limit of 0 means there is none.                              *)
(***************************************************************************)
EXTENDS Integers, FiniteSets

CONSTANTS Clients, Limit

VARIABLE inUse

Init == inUse = {}

\* Two clients may enter together (the legs of a call-back): x = y otherwise.
Enter(x, y) ==
  /\ {x, y} \cap inUse = {}
  /\ inUse' = inUse \cup {x, y}
  /\ Limit = 0 \/ Cardinality(inUse') <= Limit

Leave(x) == inUse' = inUse \ {x}

Next ==
  \/ \E x \in inUse : Leave(x)
  \/ \E x, y \in Clients : Enter(x, y)

Spec == Init /\ [][Next]_inUse
=============================================================================
