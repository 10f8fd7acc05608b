\* The server side of an INVITE, with packets lost, repeated and late, and any
\* answer failing to be sent.  It stops when the calls are over.
SPECIFICATION Spec
CHECK_DEADLOCK FALSE

CONSTANTS
  MaxLegs = 2
  NoLeg = NoLeg

INVARIANTS
  TypeOK
  HandlersAlive
  LegsReachable
  EndedAtBothEnds
  StaysUp
