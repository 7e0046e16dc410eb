SPECIFICATION FairSpec
CONSTANTS
  r1 = r1
  r2 = r2
  w1 = w1
  w2 = w2
  k1 = k1
  Session = {r1}
  Sweeper = {w1, w2}
  Key = {k1}
  NoKey = NoKey
  Timer = {0, 1}
  MaxTime = 2
  MaxSeq = 3
INVARIANTS
  QuotesExist
PROPERTIES
  PurgesLapsedOnly
  LapsedGoAway
