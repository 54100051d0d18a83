SPECIFICATION Spec
CONSTANTS
  phone = phone
  laptop = laptop
  Session = {phone, laptop}
  MaxHP = 3
  MainActions = 2
  Attacks = 1
  RestsPerDay = 1
  Bestiary <- MCBestiary
  Defense = 2
  MaxDepth = 2
  MaxDay = 2
  MaxIndex = 2
  MaxMoves = 4
  MaxFaults = 1
SYMMETRY MCSymmetry
INVARIANTS
  NeverStoredDead
  TurnInv
  RestsHold
  MenuIsSaved
PROPERTIES
  DeathEndsTheDay
  DepthIsKept
CHECK_DEADLOCK FALSE
