SPECIFICATION Spec
CONSTANTS
  e1 = e1
  e2 = e2
  e3 = e3
  Element = {e1, e2, e3}
  ZeroUid = ZeroUid
  CacheSize = 2
  MaxMatches = 2
INVARIANT IdsAreUnique
