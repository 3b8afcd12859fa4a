\* Up to five items, a window of two frames, and pages of one result.
SPECIFICATION FairSpec
CONSTANTS
  MaxItems = 5
  Window = 2
  PageSize = 1
INVARIANTS TypeOK OkMeansComplete FailsOnlyDisturbed
PROPERTY CallEnds
\* The call ends.
CHECK_DEADLOCK FALSE
