SPECIFICATION Spec
CONSTANTS
  TurnCount = 2
  ThreadIsNamed = TRUE
  Outcomes = {"completed", "failed"}
INVARIANT OwnCompletion
CHECK_DEADLOCK FALSE
