SPECIFICATION FairSpec
CONSTANTS
  Tasks = {t1, t2}
  MaxPublished = 2
  Laws = {"delayed", "prompt"}
  RateLimited = TRUE
INVARIANT WritersApart
PROPERTIES OwnedIsLeftAlone NobodyStarves
CHECK_DEADLOCK FALSE
