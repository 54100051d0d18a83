SPECIFICATION FairSpec
CONSTANTS
  home = home
  office = office
  Conn = {home, office}
  Chan = {1, 2, 3}
  Owner <- MCOwner
  MaxSessions = 1
  MaxFaults = 1
INVARIANTS
  SlotInv
  CleanShutdown
PROPERTIES
  SlotsComeBack
CHECK_DEADLOCK FALSE
