CONSTANTS
  h1 = h1  h2 = h2
  Prefix <- Nested
  Hop = {h1, h2}
  NULL = NULL
  RouteNB = 3
  MaxChanges = 2
SPECIFICATION FairSpec
INVARIANTS TypeOK TreeOK KernelMirrors LearnedInTree
PROPERTIES KernelFollows Withdrawn
