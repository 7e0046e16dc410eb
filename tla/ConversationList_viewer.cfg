SPECIFICATION Spec
CONSTANTS
  Start = {v1, p1}
  ByViewer = {v1}
  NoRow = NoRow
  MaxSeq = 2
  MaxDrops = 1
INVARIANTS
  TypeOK
  OneChat
  
\* Messages, starts and drops run out, so the system comes to rest.
CHECK_DEADLOCK FALSE
