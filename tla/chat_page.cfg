SPECIFICATION PageSpec
CONSTANTS
  a = a  b = b
  None = None
  Threads = {a, b}
  Indexes = {0, 1}
  Scripts <- MCScripts
  Earlier <- MCEarlier
  Limit <- MCLimit
  MaxWire = 1
INVARIANTS LiveMatchesHistory TodosShown ActiveIsListed
PROPERTIES AnswersMeetQuestion RefetchSeesCommit QuestionShown
CHECK_DEADLOCK FALSE
