SPECIFICATION FairSpec
CONSTANTS
  a = a
  b = b
  debt = debt
  Node <- MCNode
  Obligation = {debt}
  Event <- MCEvent
  Handlers <- MCHandlers
  MaxSeq = 2
  MaxFaults = 1
  PullLimit = 1
PROPERTIES
  EveryEventArrives
