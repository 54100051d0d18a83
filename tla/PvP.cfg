SPECIFICATION FairSpec
CONSTANTS
  near = near
  far = far
  pia = pia
  quin = quin
  rob = rob
  sam = sam
  Node = {near, far}
  Player = {pia, quin, rob, sam}
  Home <- MCHome
  Quarry <- MCQuarry
  Tested <- MCTested
  MaxAttacks = 2
  VictimCap = 1
  MaxFaults = 1
  Carried = 1
  Legacy = {1}
INVARIANTS QueueInv CreditedOncePerFault GoodsConserved
PROPERTIES CooldownHolds
  AttackReturns
CHECK_DEADLOCK FALSE
