SPECIFICATION DevicesSpec
CONSTANTS
  p1 = p1  p2 = p2
  Kind <- MCKind  MaxReq = 2
  MaxSerial = 4  MaxOutstanding = 2
  Names <- MCNames  MaxFiles = 2  Disposition = {"open", "create"}
  Chunk = 10  Ids = {1, 2}  Listening = {"tsmf"}  ChannelNames = {"tsmf", "other"}
  Writer = {p1, p2}  SentSizes = {3}  Sizes = {3, 12}  MaxCreates = 2  MaxSent = 2  MaxWritten = 2
  Streams = {"audio", "video"}  AUDIO_TOLERANCE = 0  Latencies = {2}  Budgets <- MCBudgets
  Packet = 2  Kinds = {"alsa", "pulse"}  MaxReads = 3  MaxOpens = 3
  Parts = {"rdpdr", "serial", "disk", "drdynvc", "media", "audin"}
INVARIANTS
  RequestsAreSafe  ChannelsAreSafe  RecordingIsSafe
PROPERTIES
  ChangesAreAsked
CHECK_DEADLOCK FALSE
