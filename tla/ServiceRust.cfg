SPECIFICATION ServiceFairSpec
CONSTANTS
  o1 = o1
  t1 = t1
  x = x
  y = y
  Orders = {o1}
  Tpids = {t1}
  Tags <- MCTags
  ScoreMin = 0
  ScoreMax = 1
  TTL = 0
  MaxNow = 2
  Events <- MCEvents
  Diffs <- MCDiffs
  Deactivatable = {o1}
  Pairs <- MCPairs
  Readers = {r1}
  InitialPairs <- MCInitialPairs
  Announced <- MCAnnounced
  Asked <- MCAsked
  Removable <- MCRemovable
  Pps <- MCPps
  NumPPS = 1
  NoPair = NoPair
INVARIANTS NoStrandedWarmup MatrixCoversPairs SameBuffer UnmovedOwnRow
PROPERTIES LifecycleImplemented WarmupCompletes GoneNotReturned SettledReturned
