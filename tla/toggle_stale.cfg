\* 3-1, run twice.
SPECIFICATION Spec
CONSTANTS
  MaxRuns = 2
  MaxPolls = 1
  Tests <- ToggleTest
PROPERTY ReportFollowsCommand
CHECK_DEADLOCK FALSE
