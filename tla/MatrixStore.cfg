SPECIFICATION Spec
CONSTANTS
  o1 = o1
  o2 = o2
  t1 = t1
  b1 = b1
  Orders <- MCOrders
  Tpids <- MCTpids
  Tags <- MCTags
  TTL = 1
  ScoreMin <- MCScoreMin
  ScoreMax = 1
  NumPPS = 2
  MaxNow = 3
  Events <- MCEvents
  Diffs <- MCDiffs
  Deactivatable <- MCDeactivatable
  NewPairs <- MCNewPairs
INVARIANTS RowsAgree DeadLeaveNothing TypeOK
PROPERTIES EligibleFirst RustKeepsBook
