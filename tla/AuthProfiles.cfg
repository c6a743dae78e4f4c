SPECIFICATION Spec
CONSTANTS
  Sessions = {s1, s2}
  Threads = {t1}
  Turns = {u1}
  NoSession = NoSession
  MaxInstances = 2
  MaxCredentials = 2
SYMMETRY Symmetry
INVARIANTS TypeOK TurnsRunOnTheirAccount  AuthenticatedWasLoggedIn
