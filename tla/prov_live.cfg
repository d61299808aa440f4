\* Two testers in two browsers, nothing fails: what every session gets.
SPECIFICATION FairSpec
CONSTANTS
  t1 = t1
  t2 = t2
  t3 = t3
  b1 = b1
  b2 = b2
  Tabs = {t1, t2}
  Profiles = {b1, b2}
  ProfileOf <- OwnProfiles
  n1 = n1
  n2 = n2
  n3 = n3
  PlantNos = {n1, n2}
  ControlNo = n1
  NoNumber = NoNumber
  Recorded = {n2}
  MaxSubmits = 2
  MaxReloads = 1
  MaxFaults = 0
INVARIANTS AnswerComes RolledBack
PROPERTIES SubmitResolves RollbackReleases SessionTelemetry
CHECK_DEADLOCK FALSE
