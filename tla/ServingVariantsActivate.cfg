SPECIFICATION FairSpec
CONSTANTS
  a = a
  b = b
  c = c
  d = d
  Pairs <- MCPairs
  Readers = {}
  InitialPairs <- MCInitialPairs
  Removable <- MCPairs
  Pps <- MCPps
  NumPPS = 1
  NoPair = NoPair
  Impls = {"cgo"}
  Announced <- MCPairs
  MaxPending = 2
PROPERTY ActivateOnlyWarming
