SPECIFICATION Spec
CONSTANTS
  TurnCount = 2
  ThreadIsNamed = TRUE
  Outcomes = {"completed", "failed"}
INVARIANT OneCodexTurn
CHECK_DEADLOCK FALSE
