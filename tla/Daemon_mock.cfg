SPECIFICATION FairSpec
CONSTANTS
  Seeds <- MCSeeds
  Requests <- MCRequests
  MaxSends = 3
  MockBorrow = TRUE
  CallerOwned = TRUE
  NoFrame = NoFrame
  Zero = Zero
  Junk = Junk
  s1 = s1
  s2 = s2
  a = a
  b = b
INVARIANTS TypeOK OneFate
PROPERTIES ReplyReadable ImplementsService EventuallyAnswered
