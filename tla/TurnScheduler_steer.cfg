SPECIFICATION Spec
CONSTANTS
  Threads = {t1}
  Turns = {u1, u2}
  Keys = {k1}
  Callers = {c1}
  WorkerLimit = 1
  MaxQueued = 1
  MaxLate = 1
  NoTurn = NoTurn
  NoKey = NoKey
  NoCall = NoCall
  NoThread = NoThread
INVARIANT KeyedInputDeliveredOnce
