SPECIFICATION CurvesSpec
CONSTANTS
  BLOCK = 8
  LENFIELD = 2
  LENBYTES = 1
  ChunkLens <- MCChunkLens
  MaxMessage = 36
INVARIANTS
  ReducesModL
CHECK_DEADLOCK FALSE
