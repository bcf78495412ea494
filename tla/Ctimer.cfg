CONSTANTS
  tick = tick  dio = dio  dao = dao
  Timer = {tick, dio, dao}
  Periodic = tick
  Period = 2
  Interval = {0, 1}
  Other = Other
  NUMEVENTS = 3
  MaxLate = 2
SPECIFICATION FairSpec
INVARIANTS TypeOK NotForgotten OneTick
PROPERTY Expires
