SPECIFICATION Spec
CONSTANTS
  l1 = l1 l2 = l2 t1 = t1 t2 = t2 i1 = i1 i2 = i2
  Logs = {l1, l2}
  Txs = {t1, t2}
  Intents = {i1, i2}
  NoIntent = NoIntent
  NoTx = NoTx
  TxOf <- TwoTxs
  IntentOf <- OneInvoice
  AmountKey <- SameAmount
  Valid = {l1, l2}
  Legacy = {i1}
  Modes = {"tag", "depth"}
  Confirmations = 1
  PendingWindow = 1
  FinalWindow = 2
  Noise = TRUE
  MaxHeight = 2
  MaxForks = 1
SYMMETRY Exchange
INVARIANTS
  TypeOK
  PaidIsBacked
  UnpaidIsRetracted
  TagFinalIsNotStranded
PROPERTIES
  KeepsPromise
  FinalReversalIsGenuine
