SPECIFICATION FairSpec
CONSTANTS
  ann = ann
  bob = bob
  tab1 = tab1
  tab2 = tab2
  phone = phone
  User = {ann, bob}
  Session = {tab1, tab2, phone}
  Owner <- TwoTabs
  Key = {k1}
  NoKey = NoKey
  Nobody = Nobody
  Named = {1}
  MaxSeq = 2
INVARIANTS
  GapFree
  OncePerKey
  AckedIsStored
  ReadWithinLog
  ReadIsDelivered
  OwnMessagesRead
PROPERTIES
  MarksAdvance
  ImplementsLog
  RequestsFinish
