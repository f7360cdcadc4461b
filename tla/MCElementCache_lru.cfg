SPECIFICATION Spec
CONSTANTS
  e1 = e1
  e2 = e2
  e3 = e3
  e4 = e4
  Element = {e1, e2, e3, e4}
  ZeroUid = ZeroUid
  CacheSize = 3
  MaxMatches = 3
SYMMETRY ElementSymmetry
INVARIANTS
  TypeOK
  KeptWhileRecent
  AnswerAndParentAreUsable
PROPERTY ImplementsRecentEntries
