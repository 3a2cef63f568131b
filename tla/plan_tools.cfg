SPECIFICATION ToolSpec
CONSTANTS
  web = web  cfg = cfg  o1 = o1  o2 = o2
  m1 = m1  m1v2 = m1v2  m2 = m2  m1bare = m1bare
  None = None
  a = a  b = b
  Callers = {a,b}
  Requests <- MCRequests
  Placed <- MCPlaced
  Components <- MCComponents
  Objects <- MCObjects
  Manifests <- BareManifests
  ObjectOf <- BareObjectOf
  Specs <- AllSpecs
  Foreign <- NoForeign
  Outcomes = {}
  HealthTimer = FALSE
  MaxPlans = 1
  MaxGeneration = 3
  MaxFaults = 1
  MaxCrashes = 0
  MaxLosses = 0
INVARIANTS GateHolds
PROPERTIES OperatorSpec EditIsLocal PollingIsSound
SYMMETRY CallerSymmetry
CHECK_DEADLOCK FALSE
