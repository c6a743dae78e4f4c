SPECIFICATION Spec
CONSTANTS
  Ids = {b1}
  Contents = {d1, d2}
  IdOf <- MCIdOf
  Hosted = {d1}
  Uploaders = {p1, p2}
  Turns = {t1}
  Walks <- MCWalks
  MaxFiles = 2
  MaxDirectories = 2
  MaxDepth = 2
  MaxFileBytes = 2
  MaxTotalBytes = 3
  MaxRemounts = 2
  Nothing = Nothing
SYMMETRY Symmetry
INVARIANTS
  TypeOK
  OverlaysBelongToTurns
  
  RunsWholeBundles
CHECK_DEADLOCK FALSE
