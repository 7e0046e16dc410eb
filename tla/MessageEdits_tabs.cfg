SPECIFICATION FairSpec
CONSTANTS
  ann = ann
  Tab = {t1, t2}
  User = {ann}
  Owner <- AllOfAuthor
  Author = ann
  Emoji = {e1}
  Call = {p1, p2}
  Reader = {t1}
  MaxEdits = 2
  MaxDrops = 1
INVARIANTS
  OneOfEach
  EveryoneAgrees
PROPERTY
  DeletionReachesAll
\* Edits and drops run out, so the system comes to rest.
CHECK_DEADLOCK FALSE
