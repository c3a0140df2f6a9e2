SPECIFICATION Spec
CONSTANTS
  d1 = d1 d2 = d2 w1 = w1 w2 = w2 p1 = p1
  Deliveries = {d1, d2}
  Workers = {w1, w2}
  Producers = {p1}
  Free = Free
  MaxRetries = 3
  DisableAfter = 2
SYMMETRY Interchangeable
INVARIANTS
  TypeOK
  EndsForCause
  CountsEveryGiveUp
PROPERTIES
  EndsForGood
  DisabledByRun
