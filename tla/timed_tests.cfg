\* Every test, three runs, two polls on their way: late polls and stray timeouts.
SPECIFICATION FairSpec
CONSTANTS
  MaxRuns = 3
  MaxPolls = 2
  Tests <- AllTests
INVARIANTS TypeOK SidebarAgrees NeverStuck OnlyPollsLinger
PROPERTY RunEnds
CHECK_DEADLOCK FALSE
