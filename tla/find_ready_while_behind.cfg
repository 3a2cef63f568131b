SPECIFICATION ToolSpec
CONSTANTS
  web = web  cfg = cfg  o1 = o1  o2 = o2
  m1 = m1  m1v2 = m1v2  m2 = m2  m1bare = m1bare
  None = None
  a = a
  Callers = {a}
  Requests <- MCRequests
  Placed <- MCPlaced
  Components <- MCComponents
  Objects <- MCObjects
  Manifests <- BareManifests
  ObjectOf <- BareObjectOf
  Specs <- AllSpecs
  Foreign <- NoForeign
  Outcomes = {"ready"}
  HealthTimer = TRUE
  MaxPlans = 1
  MaxGeneration = 2
  MaxFaults = 0
  MaxCrashes = 0
  MaxLosses = 0
PROPERTIES ReadyIsNotBehind
CHECK_DEADLOCK FALSE
