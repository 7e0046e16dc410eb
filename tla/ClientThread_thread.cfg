SPECIFICATION Spec
CONSTANTS
  k1 = k1
  k2 = k2
  Key = {k1}
  NoKey = NoKey
  Earlier = 1
  StartOpen = FALSE
  PageSize = 2
  BackfillSize = 1
  Handlers = 2
  OpensAtOnce = 2
  OlderAtOnce = 1
  MayLeave = TRUE
  MayFail = TRUE
  MaxSeq = 2
  MaxDrops = 1
INVARIANTS
  ShownOnce
  LosesNothing
  NothingStuck
\* The user and the peer may stop.
CHECK_DEADLOCK FALSE
