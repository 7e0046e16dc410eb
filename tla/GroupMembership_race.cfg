SPECIFICATION Spec
CONSTANTS
  ann = ann
  bob = bob
  cat = cat
  r1 = r1
  r2 = r2
  User = {ann, bob}
  Creator = ann
  Session = {r1, r2}
  MaxSeq = 3
  MaxJoins = 2
SYMMETRY Requests
PROPERTIES
  KeepsAdmin
  MembersOnlyPost
  PushedToMembers
  CleanSlate
\* Requests stop at the bounds, and an empty group is the end of it.
CHECK_DEADLOCK FALSE
