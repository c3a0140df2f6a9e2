SPECIFICATION Spec
CONSTANTS
  q1 = q1 q2 = q2 a1 = a1 a2 = a2 p1 = p1 p2 = p2
  Requests = {q1}
  MayForget = FALSE
  Accounts = {p1, p2}
  NoAccount = NoAccount
  Attempts = {a1, a2}
  NoAttempt = NoAttempt
  LossyNode = FALSE
  Families = {"tron"}
  Width <- OneFetch
INVARIANTS
  OffersNoSecondTransfer
CHECK_DEADLOCK FALSE
