CONSTANTS
  n1 = n1  n2 = n2  mine = mine  other = other  third = third
  Nbr = {n1}
  DagId = {mine, other}
  MyDag = mine
  Preference <- SamePreference
  Rank = {1, 6}
  Version = {240}
  Config = {"same"}
  Stale = {FALSE}
  Increase = 5
  MaxRankInc = 7
  MaxParents = 2
  NULL = NULL
SPECIFICATION Spec
INVARIANT RootStays
