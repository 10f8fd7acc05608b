SPECIFICATION FairSpec
CONSTANTS
  c1 = c1  c2 = c2  c3 = c3  i1 = i1  p1 = p1  p2 = p2  a1 = a1  a2 = a2
  NoCard = NoCard  CardDest = CardDest
  Calls = {c1, c2, c3}
  InPeers = {i1}
  OutPeers = {p1, p2}
  Cards = {}
  MaxForks = 2
  TotalCallsLimit = 2
  GwCallsLimit = 1
  Kind <- PeerKind
  Source <- PeerSource
  Routes <- PeerRoutes
  Forks <- PeerForks
  OutCard <- NoOutCards
  Proto <- PeerProto
  InLimit <- PeerInLimit
  OutLimit <- PeerOutLimit
  RouteLimit <- PeerRouteLimit
  Lines <- PeerLines
INVARIANTS
  PeersConserved
  LimitsRespected
PROPERTIES
  DrainsWhenQuiet
  ShutdownDrains
  ImplementsSlotPool
  ImplementsOutPools
