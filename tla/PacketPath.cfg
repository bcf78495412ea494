SPECIFICATION FairSpec
CONSTANTS
  AddrNB = 3
  NumEvents = 2
  MaxDad = 2
  MaxRs = 2
  NULL = null
INVARIANTS TypeOK BufferSound
PROPERTY Ready
