\* A late start or interim record of the IP leg and an entry that waits.
SPECIFICATION Spec
CONSTANTS
  x = x
  y = y
  A = A
  B = B
  Calls <- TwoCalls
  NoCard = NoCard
  Cards <- TwoCards
  CardsOf <- Named
  Lines <- LinesOf
  Balances <- ChargedTo
  HasStart <- WithStart
  Kinds <- EachKind
  Limits <- OneOrTwo
PROPERTY TelephonyErasesWaiting
CHECK_DEADLOCK FALSE
