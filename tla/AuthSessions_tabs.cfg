SPECIFICATION Spec
CONSTANTS
  Tab = {t1, t2}
  Call = {c1, c2}
  Nobody = Nobody
  MaxPairs = 3
  MaxCodes = 2
  MaxFaults = 1
SYMMETRY Symmetry
INVARIANTS
  UsedOnce
  StoredIsLive
  NothingLeftBehind
  WaitersAreOwed
PROPERTY
  KeepsSession
\* The pairs run out, so the system comes to rest.
CHECK_DEADLOCK FALSE
