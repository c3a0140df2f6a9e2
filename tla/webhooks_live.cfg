SPECIFICATION LiveSpec
CONSTANTS
  d1 = d1 d2 = d2 w1 = w1 w2 = w2 p1 = p1
  Deliveries = {d1}
  Workers = {w1, w2}
  Producers = {p1}
  Free = Free
  MaxRetries = 4
  DisableAfter = 2
PROPERTIES
  EveryDeliveryEnds
