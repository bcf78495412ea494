CONSTANTS
  n1 = n1  n2 = n2  mine = mine  other = other  third = third
  Nbr = {n1, n2}
  DagId = {mine, other}
  MyDag = mine
  Preference <- SamePreference
  Rank = {1, 11}
  Version = {240, 241}
  Config = {"same", "unknown objective"}
  Stale = {TRUE}
  Increase = 5
  MaxRankInc = 7
  MaxParents = 1
  NULL = NULL
SPECIFICATION Spec
SYMMETRY Symmetric
INVARIANTS TypeOK ParentsOK OneDag RankNeedsParent RootAloneStays
