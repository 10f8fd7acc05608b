\* Two calls on the same card, and the code of the other card applied to it.
SPECIFICATION FairSpec
CONSTANTS
  h1 = h1  h2 = h2  r1 = r1
  k1 = k1  k2 = k2  u1 = u1  d1 = d1
  None = None
  Calls <- CardsCalls
  Cards = {k1, k2}
  Customers = {u1}
  Dealers = {}
  Credit = {}
  Kind <- CardsKind
  Payer <- CardsPayer
  CustomerOf <- CardsCustomer
  Charge <- CardsCharge
  TrafficCosts = {}
  Codes <- CardsCodes
  MaxSecs = 2
  InitialMoney <- CardsMoney
INVARIANTS
  CardMemoryExact
PROPERTIES
  ImplementsBilling
  StoppedCallsSettle
