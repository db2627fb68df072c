SPECIFICATION MCSpec
CONSTANTS
  NLibs = 2
  Interval = {2}
  PollLimit = 1
  MaxWrites = 2
  MaxPushes = 2
  MaxData = 1
INVARIANTS TypeOK NoLostWrite NoLostEvent SlotExclusive  FreedAfterQuit
