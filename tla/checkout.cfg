SPECIFICATION LiveSpec
CONSTANTS
  q1 = q1 q2 = q2 a1 = a1 a2 = a2 p1 = p1 p2 = p2
  Requests = {q1, q2}
  MayForget = TRUE
  Accounts = {p1, p2}
  NoAccount = NoAccount
  Attempts = {a1, a2}
  NoAttempt = NoAttempt
  LossyNode = TRUE
  Families = {"evm", "tron", "none"}
  Width <- OneWithPayer
INVARIANTS
  TypeOK
  PollIsAlive
  PaidIsTheBackendsWord
  SuccessIsReal
  PaymentIsOnScreen
  TransferIsOnScreen
PROPERTIES
  DropsOnlyForForgottenSignature
  BroadcastsForTheAccountShown
  PaymentIsReported
CHECK_DEADLOCK FALSE
