SPECIFICATION Spec
CONSTANTS
  Threads = {t1}
  Turns = {u1, u2}
  Keys = {}
  Callers = {c1}
  WorkerLimit = 1
  MaxQueued = 1
  MaxLate = 0
  NoTurn = NoTurn
  NoKey = NoKey
  NoCall = NoCall
  NoThread = NoThread
PROPERTY DrainKeepsItsTime
