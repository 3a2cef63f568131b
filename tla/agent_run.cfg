SPECIFICATION RunSpec
CONSTANTS
  t1 = t1  t2 = t2  f = f  g = g  outside = outside  homeless = homeless  x = x  y = y
  None = None
  Threads <- MCThreads
  Paths <- MCPaths
  Outside = outside
  Homeless = homeless
  Lines <- MCLines
  Config <- MCConfig
  LocalCluster = TRUE
  Messages <- MCMessages
  SkillTools <- MCSkillTools
  Initial <- MCInitial
  Window = 1
  MaxReadLines = 2
  MaxMessages <- MCMaxMessages
INVARIANTS RunTypeOK PictureIsTrue SkillsHold NamesStayApart PagesAddUp
PROPERTIES StepsEnd
CHECK_DEADLOCK FALSE
