SPECIFICATION FairSpec
CONSTANTS
    east = east
    west = west
    ada = ada
    Node = {east, west}
    Player = {ada}
    Home <- HomeOf
    NoRow = NoRow
    MaxKey = 3
    MaxToken = 2
    MaxChanges = 1
    MaxOps = 1
    MaxFaults = 1
INVARIANTS KeyInv RosterInv
PROPERTIES RosterConverges
