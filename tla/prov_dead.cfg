\* One tester, one page: does the loading mark always go away?
SPECIFICATION Spec
CONSTANTS
  t1 = t1
  t2 = t2
  t3 = t3
  b1 = b1
  b2 = b2
  Tabs = {t1}
  Profiles = {b1}
  ProfileOf <- SoleProfile
  n1 = n1
  n2 = n2
  n3 = n3
  PlantNos = {n1, n2}
  ControlNo = n1
  NoNumber = NoNumber
  Recorded = {}
  MaxSubmits = 2
  MaxReloads = 1
  MaxFaults = 1
INVARIANT LoadingMeansRunning
CHECK_DEADLOCK FALSE
