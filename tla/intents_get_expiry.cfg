SPECIFICATION Spec
CONSTANTS
  s1 = s1 s2 = s2 c1 = c1 c2 = c2 w1 = w1 w2 = w2 g1 = g1 r1 = r1 watcher = watcher
  Settlements = {s1}
  NoSettlement = NoSettlement
  Watcher = watcher
  Cancellers = {}
  Expirers = {}
  Getters = {g1}
  Resolvers = {}
  Free = Free
  InitialStatus = {"pending"}
PROPERTIES
  HoldExcludesExpiry
