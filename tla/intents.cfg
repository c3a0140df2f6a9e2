SPECIFICATION LiveSpec
CONSTANTS
  s1 = s1 s2 = s2 c1 = c1 c2 = c2 w1 = w1 w2 = w2 g1 = g1 r1 = r1 watcher = watcher
  Settlements = {s1, s2}
  NoSettlement = NoSettlement
  Watcher = watcher
  Cancellers = {c1, c2}
  Expirers = {w1, w2}
  Getters = {g1}
  Resolvers = {r1}
  Free = Free
  InitialStatus = {"pending", "review"}
INVARIANTS
  TypeOK
  MatchedIsFinal
PROPERTIES
  KeepsLifecycle
  HoldExcludesCancel
  DueIsClosed
