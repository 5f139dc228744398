SPECIFICATION CiphersSpec
CONSTANTS
  STREAM = 2
  COUNTERS = 4
  Starts <- MCStarts
  DataLens <- MCDataLens
  MaxUsed = 6
  MACBLOCK = 4
  SliceLens <- MCSliceLens
  MaxMessage = 19
  BLOCK = 2
  GCM_COUNTERS = 5
  CTR_COUNTERS = 3
  Nonces <- MCNonces
  Aads <- MCAads
  Plaintexts <- MCPlaintexts
  Rooms <- MCRooms
  MaxSent = 2
  InitialCounters <- MCInitialCounters
  ModeTexts <- MCModeTexts
  ModeRooms <- MCModeRooms
INVARIANTS NoBlockTwice TagOfMessage BuffersKept KeystreamOnce ReadsBack
PROPERTIES ImplementsIdeal
