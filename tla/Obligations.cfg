SPECIFICATION FairSpec
CONSTANTS
  home = home
  abroad = abroad
  salt = salt
  wire = wire
  Node = {home, abroad}
  Start = home
  Session = {1}
  Goods <- MCGoods
  Weight <- MCWeight
  Prices = {3}
  MaxDebts = 2
  MaxGoods = 2
  MaxMoves = 1
  MaxFaults = 2
INVARIANTS
  IdInv
  ConsumeIsTight
  CreatedFirst
  ResolutionWins
  BooksBalance
PROPERTIES
  ResolutionSpreads
CHECK_DEADLOCK FALSE
