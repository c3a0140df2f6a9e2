SPECIFICATION Spec
CONSTANTS
  t1 = t1 t2 = t2 c1 = c1 c2 = c2 e1 = e1 e2 = e2
  Tabs = {t1, t2}
  NoTab = NoTab
  Callers = {c1, c2}
  Home <- OneEach
  Exchanges = {e1, e2}
  Sessions = 2
  MaxToken = 3
  HasLocks = TRUE
SYMMETRY Alike
INVARIANTS
  TypeOK
  NobodyWaitsInVain
  RefreshableUnlessLost
PROPERTIES
  SignsOutOnlyTheDead
CHECK_DEADLOCK FALSE
