SPECIFICATION FrozenSpec
CONSTANTS
  o1 = o1
  o2 = o2
  t1 = t1
  b1 = b1
  b2 = b2
  Orders <- MCOrders
  Tpids <- MCTpids
  Tags <- MCTags
  TTL = 1
  ScoreMin <- MCScoreMin
  ScoreMax = 2
  MaxNow = 3
  Events <- MCEvents
  Diffs <- MCDiffs
  Deactivatable <- MCDeactivatable
INVARIANT SnapshotKeepsLive
PROPERTIES OnlyLiveRanked BookWhenFresh
