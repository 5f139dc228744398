SPECIFICATION Spec
CONSTANTS
  Q = 193
  LAYERS = 2
  WORD = 4096
  QINV = 3905
  SHIFT = 18
  V = 1358
  ZETAS <- MCZetas
  F_INVNTT = 28
  F_MONT = 112
  FIELD = 256
  WINDOWS <- MCWindows
  K = 2
  ETA1 = 3
  ETA2 = 2
  DU = 7
  DV = 4
  Stream <- MCStream
  Bits <- MCPrf
  Seeds <- MCSeeds
  Zs <- MCZs
  Messages <- MCMessages
INVARIANTS DecapsAgrees RejectsChanged
