\* 2-3, run twice.
SPECIFICATION FairSpec
CONSTANTS
  MaxRuns = 2
  MaxPolls = 1
  Tests <- EventTest
PROPERTY EventRunEnds
CHECK_DEADLOCK FALSE
