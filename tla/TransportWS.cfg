CONSTANTS
  Ids = {i1, i2}
  MaxTasks = 2
  NoTask = NoTask
SPECIFICATION FairSpec
INVARIANTS NothingLeftAtClose NoSilentEnd
PROPERTIES SilentAfterVerdict LoopGoesOn
CHECK_DEADLOCK FALSE
