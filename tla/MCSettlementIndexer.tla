------------------------ MODULE MCSettlementIndexer ------------------------
(***************************************************************************)
(* Small instances of SettlementIndexer.                                   *)
(***************************************************************************)
EXTENDS SettlementIndexer, TLC

CONSTANTS l1, l2, t1, t2, i1, i2

\* Two payments in two transactions, both naming the invoice i1.
TwoTxs     == [l \in Logs |-> IF l = l1 THEN t1 ELSE t2]
OneInvoice == [l \in Logs |-> i1]

\* Two logs of one transaction: the second one names the invoice only by name
\* (it is left out of Valid), as a stranger's event in a batch would.
OneTx      == [l \in Logs |-> t1]

\* Exchanging both payments at once leaves the instance as it is.
Exchange == {l1 :> l2 @@ l2 :> l1 @@ t1 :> t2 @@ t2 :> t1}

\* Every intent asks for the same amount.
SameAmount == [i \in Intents |-> 0]
=============================================================================
