SPECIFICATION HubSpec
CONSTANTS
  a = a
  b = b
  c = c
  p = p
  q = q
  Node = {a, b}
  Player = {p}
  Home <- MCHome
  Game <- MCGame
  Snapshot = {snap}
  Caller = {syncer}
  MaxTravels = 2
  MaxCalls = 1
INVARIANTS
  OnePendingAfterRetry
