SPECIFICATION Spec
CONSTANTS
  a = a
  b = b
  debt = debt
  Node <- MCNode
  Obligation = {debt}
  Event <- MCEvent
  Handlers <- MCHandlers
  MaxSeq = 2
  MaxFaults = 2
  PullLimit = 1
INVARIANTS
  IndInv
  PushedIsInFeed
  NoGapBelowCursor
  AppliedInSourceOrder
  HandlerRerunNeedsFault
PROPERTIES
  CursorsNeverRegress
  ResolvedStaysResolved
  ImplementsReplicatedLog
