SPECIFICATION FairSelectSpec
CONSTANTS
  Lengths = {0, 1, 2, 3, 4, 5, 6}
  Limit = 3
  Values = {0, 1, 2}
INVARIANT ListIsTopK
PROPERTIES SearchDescends Terminates
