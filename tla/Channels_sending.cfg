SPECIFICATION MCFairSpec
CONSTANTS
  NLibs = 2
  Interval = {}
  PollLimit = 1
  MaxWrites = 1
  MaxPushes = 2
  MaxData = 0
PROPERTIES
  SendingEnds
