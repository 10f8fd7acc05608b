\* A call begins on the money of a card whose code has been applied.
SPECIFICATION Spec
CONSTANTS
  h1 = h1  h2 = h2  r1 = r1
  k1 = k1  k2 = k2  u1 = u1  d1 = d1
  None = None
  Calls <- CardsCalls
  Cards = {k1, k2}
  Customers = {u1}
  Dealers = {}
  Credit = {}
  Kind <- CardsKind
  Payer <- CodePayer
  CustomerOf <- CardsCustomer
  Charge <- CodeCharge
  TrafficCosts = {}
  Codes <- CardsCodes
  MaxSecs = 2
  InitialMoney <- CardsMoney
PROPERTIES
  AppliedCardIsSpent
