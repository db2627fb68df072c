SPECIFICATION LiveSpec
CONSTANTS
  p1 = p1  p2 = p2  p3 = p3
  Setters = {p1, p2, p3}
  Address <- MCAddress  Data <- MCData
  MaxChannels = 1  MaxHops = 1  MaxResizes = 0  MaxExtras = 0
  Places <- MCPlaces  MaxServer = 1  MaxUser = 1  MaxTold = 1
  Kind <- MCKind  MaxReq = 2
  MaxSerial = 3  MaxOutstanding = 2
  Streams = {"audio", "video"}  AUDIO_TOLERANCE = 0  Latencies = {2}  Budgets <- MCBudgets
  Offers <- MCOffers  Supported = {"pcm", "adpcm"}  Delay = 1  MaxWaves = 2  MaxTime = 2
  Plugins = {"rdpsnd", "tsmf", "audin"}  MaxPlays = 2  Size = 3  MaxRoom = 2
  Formats = {"text", "png"}  MaxCopies = 2  MaxRequests = 2
  MaxOwners = 2  MaxAsks = 1
  Parts = {"waitobj", "list", "nego", "connection", "rail", "rdpdr", "serial", "media", "rdpsnd", "pulse", "copy", "paste"}
INVARIANTS
   SoundIsSafe OfferedIsCurrent
PROPERTIES
  AtomicFlag ListIsASequence 
CHECK_DEADLOCK FALSE
