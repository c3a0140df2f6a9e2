SPECIFICATION LiveSpec
CONSTANTS
  l1 = l1 l2 = l2 t1 = t1 t2 = t2 i1 = i1 i2 = i2
  Logs = {l1, l2}
  Txs = {t1, t2}
  Intents = {i1, i2}
  NoIntent = NoIntent
  NoTx = NoTx
  TxOf <- OneTx
  IntentOf <- OneInvoice
  AmountKey <- SameAmount
  Valid = {l1}
  Legacy = {}
  Modes = {"tag"}
  Confirmations = 1
  PendingWindow = 2
  FinalWindow = 2
  Noise = FALSE
  MaxHeight = 2
  MaxForks = 1
PROPERTIES
  PaidIsAnnounced
  FinalizedPaymentSettles
