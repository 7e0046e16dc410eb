SPECIFICATION FairSpec
CONSTANTS
  n1 = n1
  n2 = n2
  ann = ann
  c1 = c1
  c2 = c2
  Node = {n1, n2}
  User = {ann}
  Socket = {c1, c2}
  Owner <- OneUser
  Homes <- Sticky
  MaxFaults = 1
INVARIANTS
  SubscribedWhileHeld
  EveryDevice
  SetsFollow
PROPERTY
  MirrorsAgree
\* Sockets are used once, and nodes may stop.
CHECK_DEADLOCK FALSE
