CONSTANTS
  n1 = n1  n2 = n2
  Prefix <- Nested
  AddrLen = 4
  Octet = 2
  Nbr = {n1, n2}
  RouteNB = 5
  SizeRange = 3
  Lifetime = {1}
  Expiration = 2
  NULL = NULL
SPECIFICATION FairSpec
INVARIANT TypeOK
PROPERTIES HopFollowsDao Expires AnnouncesRouted
