\* What sip2.cxx says of a terminated transaction, "checkTimeout in terminated
\* state", is not so: one stays in the map, and the transport thread with it.
SPECIFICATION Spec
CHECK_DEADLOCK FALSE

CONSTANTS
  MaxLegs = 1
  NoLeg = NoLeg

INVARIANTS
  NoneTerminated
