CONSTANTS
  h1 = h1  h2 = h2
  Prefix <- ThreeHosts
  Hop = {h1}
  NULL = NULL
  RouteNB = 3
  MaxChanges = 1
SPECIFICATION Spec
INVARIANT LearnedInTree
