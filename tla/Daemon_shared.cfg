SPECIFICATION Spec
CONSTANTS
  Seeds <- MCSeeds
  Requests <- MCRequests
  MaxSends = 3
  MockBorrow = FALSE
  CallerOwned = FALSE
  NoFrame = NoFrame
  Zero = Zero
  Junk = Junk
  s1 = s1
  s2 = s2
  a = a
  b = b
INVARIANTS NoResidue SwallowsOnlyPipelined
PROPERTIES ImplementsService
