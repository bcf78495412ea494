CONSTANTS
  p1 = p1  p2 = p2  p3 = p3  e1 = e1
  Proc = {p1, p2, p3}
  NULL = NULL
  Ev = {e1}
  NUMEVENTS = 1
  NumWidth = 4
  BootSeq <- Boot2
  MainPolled = p1
  Exiting = {p2}
  Starting = {p3}
  MaxOps = 1
SPECIFICATION Spec
INVARIANTS KernelOK BroadcastExact
