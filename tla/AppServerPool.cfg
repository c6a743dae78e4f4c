SPECIFICATION Spec
CONSTANTS
  Users = {w1, w2}
  Profiles = {p1, p2}
  Variants = {v1, v2}
  Children = {c1, c2, c3}
  Limit = 1
  HostedProfile = p2
  HostedVariant = v1
  Hosted <- MCHosted
  Sweeper = Sweeper
  Admin = Admin
  Main = Main
  NoChild = NoChild
  NoKey = NoKey
  NoGate = NoGate
SYMMETRY Symmetry
INVARIANTS
  TypeOK
  WithinLimit
  NoOrphan
  LeasesExact
  OneCreationPerKey
  ClosedStaysEmpty
PROPERTY HeldIsKept
CHECK_DEADLOCK FALSE
