SPECIFICATION SessionSpec
CONSTANTS
  MaxChannels = 2  MaxHops = 1  MaxResizes = 1  MaxExtras = 1
  KeyUses = 2  MaxPackets = 5
  Buffer = 5  History <- MCHistory  MaxPacketsSent = 3
  Entries = 2  MaxObjects = 4  Texts <- MCTexts
  Width = 2  Height = 2  Orders <- MCOrders
  Keys = {"ctrl", "alt", "enter", "pause", "caps"}  MaxKeys = 3  MaxFocus = 1  MaxLag = 2
  Places <- MCPlaces  MaxServer = 2  MaxUser = 2  MaxTold = 2
  Parts = {"connection", "nego", "keys", "mppc", "caches", "paint", "input", "rail"}
INVARIANTS
   KeysAgree StoresAgree PaintIsShown 
CHECK_DEADLOCK FALSE
