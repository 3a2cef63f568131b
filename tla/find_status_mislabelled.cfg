SPECIFICATION HistorySpec
CONSTANTS
  web = web  cfg = cfg  o1 = o1  o2 = o2
  m1 = m1  m1v2 = m1v2  m2 = m2
  None = None
  Components <- MCComponents
  Objects <- MCObjects
  Manifests <- MCManifests
  ObjectOf <- MCObjectOf
  Specs <- OwnObjects
  Foreign <- NoForeign
  Outcomes = {}
  HealthTimer = TRUE
  MaxPlans = 1
  MaxGeneration = 2
  MaxFaults = 0
  MaxCrashes = 0
  MaxLosses = 0
INVARIANTS ObservedIsReflected
CHECK_DEADLOCK FALSE
