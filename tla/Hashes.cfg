SPECIFICATION HashesSpec
CONSTANTS
  HALF = 4
  MAXOUT = 64
  OutLens <- MCOutLens
  RATE = 6
  LANE = 2
  DOMAINS <- MCDomains
  FixedLens <- MCFixedLens
  XofLens <- MCXofLens
  SpongeLens <- MCSpongeLens
  SpongeMax = 20
  BLOCK = 4
  MAXHASH = 2
  COUNT = 8
  HashLens <- MCHashLens
  KeyLens <- MCKeyLens
  Blake2Lens <- MCBlake2Lens
  Blake2Max = 18
  BLOCK_LEN = 4
  WORD = 2
  BLOCKS = 2
  DEPTH = 3
  TREE_MAXOUT = 12
  TreeOutLens <- MCTreeOutLens
  TreeLens <- MCTreeLens
  TreeMax = 67
INVARIANTS DigestOfMessage RootIsTree OutputIsStream OutputIsChain
PROPERTIES CallsReturn
