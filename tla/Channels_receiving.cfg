SPECIFICATION MCFairSpec
CONSTANTS
  NLibs = 1
  Interval = {1}
  PollLimit = 1
  MaxWrites = 1
  MaxPushes = 2
  MaxData = 2
PROPERTY MessagesAreRead
INVARIANT NoLostMessage
