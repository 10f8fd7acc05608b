\* Two calls of one card, and one of another card, with one slot and with two.
SPECIFICATION Spec
CONSTANTS
  x = x
  y = y
  A = A
  B = B
  Calls <- TwoCalls
  NoCard = NoCard
  Cards <- TwoCards
  CardsOf <- Named
  Lines <- LinesOf
  Balances <- ChargedTo
  HasStart <- WithStart
  Kinds <- EachKind
  Limits <- OneOrTwo
INVARIANTS
  TypeOK
  LocksMatchCalls
  LocksHaveCalls
  EndedCallsErased
  EatersDetached
  SlotsMatchCalls
CHECK_DEADLOCK FALSE
