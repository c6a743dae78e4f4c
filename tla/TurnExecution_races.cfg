SPECIFICATION FairSpec
CONSTANTS
  TurnCount = 2
  ThreadIsNamed = FALSE
  Outcomes = {"completed"}
INVARIANTS
  TypeOK
  ClosedOnce
  LeftClosed
PROPERTY ExecutionsEnd
CHECK_DEADLOCK FALSE
