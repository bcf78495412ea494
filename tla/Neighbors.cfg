SPECIFICATION FairSpec
CONSTANTS
  Nbr = {a, b}
  RplNbr = {a}
  RouterNbr = {a}
  Self = self
  Far = far
  Multicast = multicast
  Unset = unset
  Sender = sender
  NbrNB = 2
  DefrtNB = 1
  Block = {k}
  MaxMulticast = 2
  MaxUnicast = 1
  RplInfinite = FALSE
  NULL = null
INVARIANTS TypeOK PacketsKept ToNextHop
PROPERTIES SolicitsSent Drains
