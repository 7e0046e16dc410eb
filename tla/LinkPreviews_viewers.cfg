SPECIFICATION LinksSpec
CONSTANTS
  Request = {r1, r2}
  Url = {u1, u2, u3, inner}
  Public = {u1, u2, u3}
  NoUrl = NoUrl
  MAX_REDIRECTS = 1
  Ttl = 2
  MaxEntries = 2
INVARIANTS
  CacheBounded
  HopsChecked
PROPERTY
  FetchesOnce
SYMMETRY Symmetry
