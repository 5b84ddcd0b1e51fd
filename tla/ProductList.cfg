CONSTANTS
  Ids = {1, 2, 3}
  MaxLimit = 2
  MaxCount = 1
  NoCursor = NoCursor
SPECIFICATION FairSpec
INVARIANT SteadyListedOnce
PROPERTY ListingEnds
CHECK_DEADLOCK FALSE
