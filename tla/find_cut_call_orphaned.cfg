SPECIFICATION Spec
CONSTANTS
  None = None
  Kinds = {"text"}
  MaxTurns = 1
  MaxMessages = 5
  MaxFaults = 0
  MaxLeaves = 0
INVARIANTS CutCallsAnswered
CHECK_DEADLOCK FALSE
