SPECIFICATION Spec
CONSTANTS
  a = a
  b = b
  c = c
  d = d
  Pairs <- MCPairs
  Readers = {}
  InitialPairs <- MCInitialPairs
  Removable = {}
  Pps <- MCPps
  NumPPS = 1
  NoPair = NoPair
  Impls = {"pure"}
  Announced <- MCPairs
  MaxPending = 2
INVARIANT ActiveIsRanked
