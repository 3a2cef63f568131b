SPECIFICATION RunSpec
CONSTANTS
  t1 = t1  t2 = t2  f = f  g = g  outside = outside  homeless = homeless  x = x  y = y
  None = None
  Threads <- MCThreads
  Paths <- MCPaths
  Outside = outside
  Homeless = homeless
  Lines <- MCLines
  Config <- MCBothPasted
  LocalCluster = TRUE
  Messages <- MCMessages
  SkillTools <- MCSkillTools
  Initial <- MCInitial
  Window = 1
  MaxReadLines = 2
  MaxMessages <- MCMaxMessages
INVARIANT ReachesOnlyItsOwn
CHECK_DEADLOCK FALSE
