\* A call and a traffic session on the same customer, and reloads.
SPECIFICATION Spec
CONSTANTS
  h1 = h1  h2 = h2  r1 = r1
  k1 = k1  k2 = k2  u1 = u1  d1 = d1
  None = None
  Calls <- PeersCalls
  Cards = {k1}
  Customers = {u1}
  Dealers = {d1}
  Credit = {}
  Kind <- PeersKind
  Payer <- PeersPayer
  CustomerOf <- PeersCustomer
  Charge <- PeersCharge
  TrafficCosts = {0, 2}
  Codes = {}
  MaxSecs = 2
  InitialMoney <- PeersMoney
INVARIANTS
  TypeOK
  UsedIsSum
  SpoolsHaveEaters
  NeverBelowLedger
