SPECIFICATION PresenceFairSpec
CONSTANTS
  ann = ann
  bob = bob
  ann1 = ann1
  ann2 = ann2
  bob1 = bob1
  User = {ann, bob}
  Socket = {ann1, ann2, bob1}
  Owner <- TwoTabs
  HandshakeMayFail = TRUE
INVARIANTS
  RegisteredWhileOpen
  OfflineOwed
PROPERTY
  GhostsGo
\* Each socket is used once, so the system comes to rest.
CHECK_DEADLOCK FALSE
