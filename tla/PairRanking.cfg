SPECIFICATION Spec
CONSTANTS
  t1 = t1
  Impls <- AllImpls
  Orders = {1, 2, 3}
  Events <- MCEvents
  Tpids = {t1}
  ScoreMin <- LowestScore
  ScoreMax = 12
  Contribs = {0, 15}
  Unit = 2
  TopK = 2
  Threshold = 10
  Cutoff = 1
  Half = 4
  MaxTime = 2
  MaxUpdates = 4
INVARIANTS ListsAgree DriftBounded RankingHonest ThrowsOnRepeats
PROPERTY UrgentStays
CHECK_DEADLOCK FALSE
