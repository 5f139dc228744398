SPECIFICATION Spec
CONSTANTS
  Q = 193
  N = 4
  WORD = 512
  ROOT = 9
  D = 5
  GAMMA1 = 8
  GAMMA2 = 24
  OMEGA = 2
  K = 2
  L = 2
  ETA = 1
  TAU = 2
  BETA = 2
  MAX_ITER = 3
  NONCES = 8
  MaxCtx = 1
  MaxPrime = 4
  Rhos = {0, 1, 2}
  BadRhos = {0}
  ExpandA <- MCExpandA
  Secrets <- MCSecrets
  MaskPolys <- MCMaskPolys
  BallStream <- MCBallStream
  Requests <- MCRequests
INVARIANTS
  SignedVerifies AcceptsOnlySigned NoncesFresh ProductIsNegacyclic
