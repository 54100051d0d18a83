SPECIFICATION Spec
CONSTANTS
  nodeA = nodeA
  nodeB = nodeB
  nodeC = nodeC
  ann = ann
  bob = bob
  term1 = term1
  term2 = term2
  Node = {nodeA, nodeB}
  Player = {ann}
  Home <- MCHome
  Game <- MCGame
  Snapshot <- MCSnapshot
  Caller <- MCCaller
  Clash <- MCClash
  Session = {term1, term2}
  MaxTravels = 2
  MaxCalls = 3
  MaxFaults = 1
SYMMETRY Terminals
INVARIANTS
  TravelInv
  CanLoginWhereLocated
  ImportsNeedFaults
PROPERTIES
  HubSpec
