SPECIFICATION Spec
CONSTANTS
  c1 = c1  c2 = c2  c3 = c3  i1 = i1  p1 = p1  p2 = p2  a1 = a1  a2 = a2
  NoCard = NoCard  CardDest = CardDest
  Calls = {c1, c2, c3}
  InPeers = {i1}
  OutPeers = {p1}
  Cards = {a1, a2}
  MaxForks = 2
  TotalCallsLimit = 3
  GwCallsLimit = 1
  Kind <- CardKind
  Source <- CardSource
  Forks <- CardForks
  OutCard <- CardOutCard
  Proto <- CardProto
  Routes <- CardRoutes
  InLimit <- CardInLimit
  OutLimit <- CardOutLimit
  RouteLimit <- CardRouteLimit
  Lines <- CardLines
INVARIANTS
  TypeOK
  SlotsConserved
  CardLinesRespected
  GwLimitRespected
CHECK_DEADLOCK FALSE
