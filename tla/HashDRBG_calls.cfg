SPECIFICATION RngSpec
CONSTANTS
  Platforms = {"getrandom", "getentropy", "rtlgenrandom", "none"}
  Lengths = {0, 1, 5, 6, 8, 9}
  Errnos <- MCErrnos
  CHUNK = 3
  MaxSecure = 8
  MaxDrawn = 10
  MIN_ENTROPY = 2
  OUTLEN = 2
  RESEED_INTERVAL = 2
  MAX_BYTES_PER_REQUEST = 4
  MAX_LENGTH = 6
  Seeds <- MCSeeds
  Extras <- MCExtras
  Requests <- MCRequests
  MaxChanges = 3
INVARIANTS OkMeansFilled SeedLifetime NoBlockTwice SeedsFresh
PROPERTIES FillEnds FailureChangesNothing CallReturns
