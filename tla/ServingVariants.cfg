SPECIFICATION FairSpec
CONSTANTS
  a = a
  b = b
  c = c
  d = d
  Pairs <- MCPairs
  Readers = {r1}
  InitialPairs <- MCInitialPairs
  Removable <- OnlyB
  Pps <- MCPpsBeyond
  NumPPS = 1
  NoPair = NoPair
  Impls <- AllImpls
  Announced <- BAndD
  MaxPending = 2
INVARIANTS ServedNotQueued UnmovedOwnRow ServedHasRow
PROPERTY WarmupCompletes
CHECK_DEADLOCK FALSE
