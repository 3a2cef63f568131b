SPECIFICATION HealthSpec
CONSTANTS
  web = web  cfg = cfg  o1 = o1  o2 = o2  o3 = o3
  m1 = m1  m2 = m2  m3 = m3  other = other
  None = None
  Components <- MCComponents
  Objects <- MCObjects
  Manifests <- MCManifests
  ObjectOf <- MCObjectOf
  KindOf <- MCKindOf
  Specs <- MCSpecs
  Foreign <- MCForeign
  NamePrefixed <- MCNamePrefixed
  Outcomes = {}
  HealthTimer = TRUE
  MaxPlans = 1
  MaxGeneration = 2
  MaxFaults = 1
  MaxCrashes = 0
  MaxLosses = 0
  Replicas = 1
  BackoffLimit = 0
  RestartThreshold = 2
  DiagnosticLimit = 3
  OtherTargets = {other}
PROPERTIES FailureEscalates CrashLoopEscalates AlarmsClear EscalationReaches
CHECK_DEADLOCK FALSE
