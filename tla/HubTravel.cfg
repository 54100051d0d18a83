SPECIFICATION HubSpec
CONSTANTS
  a = a
  b = b
  c = c
  p = p
  q = q
  Node = {a, b, c}
  Player = {p, q}
  Home <- MCHome
  Game <- MCGame
  Snapshot = {snap}
  Caller = {syncer}
  MaxTravels = 3
  MaxCalls = 2
INVARIANTS
  OnePendingPerPlayer
  PendingIsLocated
PROPERTIES
  MovesOnlyByArrival
