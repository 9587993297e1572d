SPECIFICATION FairCowSpec
CONSTANTS
  Keys = {k1, k2}
  Writers = {w1, w2}
  Nobody = Nobody
  Locked = TRUE
  Guarded = TRUE
PROPERTIES AtomicMap CallsReturn
