SPECIFICATION FairSpec
CONSTANTS
  Threads = {t1, t2}
  Turns = {u1, u2}
  Keys = {}
  Callers = {c1}
  WorkerLimit = 1
  MaxQueued = 1
  MaxLate = 1
  NoTurn = NoTurn
  NoKey = NoKey
  NoCall = NoCall
  NoThread = NoThread
INVARIANTS
  TypeOK
  
  SettledBeforeHandOver
PROPERTIES
  AcceptedTurnsSettle
  ShutdownEnds
