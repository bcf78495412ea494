CONSTANTS
  p1 = p1  p2 = p2  p3 = p3  e1 = e1
  Proc = {p1, p2, p3}
  NULL = NULL
  Ev = {e1}
  NUMEVENTS = 2
  NumWidth = 4
  BootSeq <- Boot3
  MainPolled = p1
  Exiting = {}
  Starting = {}
  MaxOps = 1
SPECIFICATION FairSpec
INVARIANT TypeOK
PROPERTIES QueueSpec PollServed PassEnds
