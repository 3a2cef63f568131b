SPECIFICATION FairHistorySpec
CONSTANTS
  web = web  cfg = cfg  o1 = o1  o2 = o2
  m1 = m1  m1v2 = m1v2  m2 = m2
  None = None
  Components <- MCComponents
  Objects <- MCObjects
  Manifests <- MCManifests
  ObjectOf <- MCObjectOf
  Specs <- MovingSpecs
  Foreign <- NoForeign
  Outcomes = {}
  HealthTimer = TRUE
  MaxPlans = 2
  MaxGeneration = 2
  MaxFaults = 1
  MaxCrashes = 1
  MaxLosses = 1
INVARIANTS TypeOK StatusIsOneSpec HInv PrunedUnlessOvertaken ReportedUntilSwept
PROPERTIES ObservedNeverRegresses TreeSpec PrunedBeforeForgotten Converges CascadeCompletes
CHECK_DEADLOCK FALSE
