SPECIFICATION FairSpec
CONSTANTS
  None = None
  Kinds = {"text", "answers"}
  MaxTurns = 3
  MaxMessages = 8
  MaxFaults = 1
  MaxLeaves = 1
INVARIANTS StreamTypeOK CallsAnswered
PROPERTIES EarlierTurnsKept QuestionNotSkipped CompletedIsAnswered InterruptStops
CHECK_DEADLOCK FALSE
