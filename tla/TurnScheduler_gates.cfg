SPECIFICATION Spec
CONSTANTS
  Threads = {t1, t2}
  Turns = {u1, u2, u3}
  Keys = {k1}
  Callers = {c1, c2}
  WorkerLimit = 1
  MaxQueued = 2
  MaxLate = 0
  NoTurn = NoTurn
  NoKey = NoKey
  NoCall = NoCall
  NoThread = NoThread
SYMMETRY Symmetry
INVARIANTS
  OneTurnPerThread
  NoStrandedQueue
  OutstandingExact
  OneTurnPerKey
PROPERTY ImplementsThreadQueue
