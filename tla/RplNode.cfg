CONSTANTS
  n1 = n1  n2 = n2  mine = mine  other = other  third = third
  Nbr = {n1, n2}
  DagId = {mine, other, third}
  MyDag = mine
  Preference <- SamePreference
  Rank = {1, 11}
  Version = {240}
  Config = {"same"}
  Stale = {FALSE}
  Increase = 5
  MaxRankInc = 7
  MaxParents = 2
  NULL = NULL
SPECIFICATION Spec
SYMMETRY Symmetric
INVARIANTS RankAboveParent RankBounded RouteToParent ParentReachable
