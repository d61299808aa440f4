\* Four runs, two polls on their way; an answer lost or the tab closed, another session.
SPECIFICATION FairSpec
CONSTANTS
  MaxRuns = 4
  MaxPolls = 2
  MaxUpsets = 1
  MaxSessions = 1
INVARIANTS TypeOK DownIsTemporary OneRestart LoadingIsWatched
PROPERTIES MasterReturns RunEnds
CHECK_DEADLOCK FALSE
