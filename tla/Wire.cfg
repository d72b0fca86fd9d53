SPECIFICATION Spec
CONSTANTS
  Vars <- Requests
  KeyVar <- Key  MacVar <- Mac  QueryVar <- Query  KillKey <- Twelve  Queries <- ShortQueries  PeerTables <- Tables
  Address <- Six
  Payloads <- ClientPayloads  TapPayloads <- DevicePayloads
  Mask <- MaskKey
  ChunkSizes <- Chunks
  MaxFrames = 2  IntHalf = 16  JsonRoom = 24
INVARIANTS TapGetsFrames PeerGetsFrames NothingLeft AddressAnnounced KillNamed ListDecodes
CHECK_DEADLOCK FALSE
