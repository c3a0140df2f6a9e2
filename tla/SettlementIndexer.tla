-------------------------- MODULE SettlementIndexer --------------------------
(***************************************************************************)
(* The EVM payment indexer (services/payment_indexer.py) on one chain: it  *)
(* ingests router events as settlement rows, finalizes a row once its      *)
(* block is final and still canonical, and reverses a row whose block      *)
(* stayed off the canonical chain for a whole evidence window.             *)
(*                                                                         *)
(* The chain is the environment: blocks are mined, reorganised above the   *)
(* finalized height, and finalized.  A block hash is the pair of a height  *)
(* and the number of the fork that produced it, so a hash that left the    *)
(* canonical chain never returns.  The watcher runs one tick at a time:    *)
(* it reads the heads, ingests the logs getLogs returns, sweeps the        *)
(* unfired webhooks, and then examines the selected rows one by one.       *)
(* Intents are closed concurrently by the merchant and the expiry task.    *)
(***************************************************************************)
EXTENDS Integers, FiniteSets

CONSTANTS
  Logs,           \* PaymentMade / SplitPaymentMade logs, keyed (chain, tx, logIndex)
  Txs,            \* transactions
  Intents,        \* payment intents (invoices)
  TxOf,           \* the transaction each log belongs to
  IntentOf,       \* the intent whose onchain_invoice_id the log names, or NoIntent
  Valid,          \* logs whose merchant, token and amount match their intent
  AmountKey,      \* the (merchant, env, chain, currency, amount) of each intent
  Legacy,         \* intents the retired matcher may have left in review
  NoIntent, NoTx,
  Modes,          \* subset of {"tag", "depth"}: settings.indexer_use_finalized_tag
  Confirmations,  \* settings.indexer_confirmations
  PendingWindow,  \* REORG_EVIDENCE_TICKS
  FinalWindow,    \* FINAL_REORG_EVIDENCE_TICKS
  Noise,          \* may a provider give false reorg evidence?
  MaxHeight,      \* bound: blocks on the chain
  MaxForks        \* bound: reorganisations

ASSUME ConstantsOK ==
  /\ TxOf \in [Logs -> Txs]
  /\ IntentOf \in [Logs -> Intents \cup {NoIntent}]
  /\ Valid \subseteq Logs
  /\ Legacy \subseteq Intents
  /\ NoIntent \notin Intents /\ NoTx \notin Txs
  /\ Modes \subseteq {"tag", "depth"} /\ Modes # {}
  /\ Confirmations \in Nat
  /\ PendingWindow \in Nat \ {0} /\ FinalWindow \in Nat \ {0}
  /\ Noise \in BOOLEAN
  /\ MaxHeight \in Nat /\ MaxForks \in Nat

VARIABLES
  head, finalized,     \* the tip and the true finalized height
  forks,               \* reorganisations so far
  ver,                 \* ver[h]: the fork that owns the canonical block at h
  at,                  \* at[l]: the height of l on the canonical chain, 0 if absent
  status,              \* status of the row of each log, "none" before ingest
  rowH, rowV,          \* the stored block_number and block_hash of each row
  fired, revFired,     \* webhook_fired_at / reversal_fired_at are set
  phase,               \* where the tick is: "ingest", or "rows" (idle once todo is empty)
  finalHead, ratchet,  \* heads read at the start of the tick; -1 is None
  todo,                \* rows selected by the reconcile and not examined yet
  evidence,            \* _REORG_SUSPECTS: consecutive evidence ticks of each row
  honest,              \* some answer of the current evidence streak was true
  istatus, matched,    \* status and matched_tx_hash of each intent
  told,                \* webhook events recorded for each intent's merchant
  revLost,             \* intents whose payment.reversed dispatch raised
  mode                 \* the finality mode the process was configured with

chainVars   == <<head, finalized, forks, ver, at>>
rowVars     == <<status, rowH, rowV, fired, revFired>>
watchVars   == <<phase, finalHead, ratchet, todo>>
suspectVars == <<evidence, honest>>
intentVars  == <<istatus, matched, told, revLost>>
vars == <<chainVars, rowVars, watchVars, suspectVars, intentVars, mode>>

Heights        == 1..MaxHeight
RowStatus      == {"none", "pending", "final", "reorged", "rejected"}
IntentStatus   == {"absent", "pending", "paid", "completed", "expired",
                   "cancelled", "review", "refunded"}
Payable        == {"pending", "expired", "review"}
Events         == {"completed", "reversed"}

TypeOK ==
  /\ head \in 0..MaxHeight /\ finalized \in 0..head /\ forks \in 0..MaxForks
  /\ ver \in [Heights -> 0..forks] /\ at \in [Logs -> 0..head]
  /\ status \in [Logs -> RowStatus]
  /\ rowH \in [Logs -> 0..head] /\ rowV \in [Logs -> 0..forks]
  /\ fired \in [Logs -> BOOLEAN] /\ revFired \in [Logs -> BOOLEAN]
  /\ phase \in {"ingest", "rows"} /\ todo \subseteq Logs
  /\ finalHead \in Int /\ finalHead =< head /\ ratchet \in -1..finalized
  /\ evidence \in [Logs -> Nat] /\ honest \in [Logs -> BOOLEAN]
  /\ istatus \in [Intents -> IntentStatus]
  /\ matched \in [Intents -> Txs \cup {NoTx}]
  /\ told \in [Intents -> SUBSET Events] /\ revLost \subseteq Intents
  /\ mode \in Modes

Init ==
  /\ head = 0 /\ finalized = 0 /\ forks = 0
  /\ ver = [h \in Heights |-> 0] /\ at = [l \in Logs |-> 0]
  /\ status = [l \in Logs |-> "none"]
  /\ rowH = [l \in Logs |-> 0] /\ rowV = [l \in Logs |-> 0]
  /\ fired = [l \in Logs |-> FALSE] /\ revFired = [l \in Logs |-> FALSE]
  /\ phase = "rows" /\ todo = {} /\ finalHead = -1 /\ ratchet = -1
  /\ evidence = [l \in Logs |-> 0] /\ honest = [l \in Logs |-> FALSE]
  /\ istatus \in {f \in [Intents -> {"absent", "review"}] :
                     \A i \in Intents \ Legacy : f[i] = "absent"}
  /\ matched = [i \in Intents |-> NoTx]
  /\ told = [i \in Intents |-> {}] /\ revLost = {}
  /\ mode \in Modes

-----------------------------------------------------------------------------
(* The chain.                                                              *)

\* A transaction is mined whole, and names only invoices that were created.
Mine(S) ==
  /\ head < MaxHeight
  /\ \A l \in S : /\ at[l] = 0
                  /\ IntentOf[l] # NoIntent => istatus[IntentOf[l]] # "absent"
                  /\ \A k \in Logs : TxOf[k] = TxOf[l] => k \in S
  /\ head' = head + 1
  /\ at' = [l \in Logs |-> IF l \in S THEN head + 1 ELSE at[l]]
  /\ UNCHANGED <<finalized, forks, ver, rowVars, watchVars, suspectVars, intentVars, mode>>

\* Blocks from h up are replaced; their transactions are dropped or included again.
Reorg(h) ==
  /\ finalized < h /\ h =< head /\ forks < MaxForks
  /\ forks' = forks + 1
  /\ ver' = [k \in Heights |-> IF k >= h THEN forks + 1 ELSE ver[k]]
  /\ \E land \in [Txs -> {0} \cup h..head] :
       at' = [l \in Logs |-> IF at[l] >= h THEN land[TxOf[l]] ELSE at[l]]
  /\ UNCHANGED <<head, finalized, rowVars, watchVars, suspectVars, intentVars, mode>>

AdvanceFinality(h) ==
  /\ finalized < h /\ h =< head
  /\ finalized' = h
  /\ UNCHANGED <<head, forks, ver, at, rowVars, watchVars, suspectVars, intentVars, mode>>

-----------------------------------------------------------------------------
(* Intents, as the merchant and the expiry task change them.               *)

Hold(i) == \E l \in Logs : IntentOf[l] = i /\ status[l] \in {"pending", "final"}

\* Another pending intent with the same amount: uq_intent_pending_amount.
PendingTwin(i) == \E j \in Intents \ {i} : AmountKey[j] = AmountKey[i] /\ istatus[j] = "pending"

SetStatus(i, s) ==
  /\ istatus' = [istatus EXCEPT ![i] = s]
  /\ UNCHANGED <<matched, told, revLost, chainVars, rowVars, watchVars, suspectVars, mode>>

Create(i)  == istatus[i] = "absent"  /\ ~PendingTwin(i) /\ SetStatus(i, "pending")
Expire(i)  == istatus[i] = "pending" /\ ~Hold(i) /\ SetStatus(i, "expired")
Cancel(i)  == istatus[i] = "pending" /\ ~Hold(i) /\ SetStatus(i, "cancelled")
Resolve(i) == /\ istatus[i] = "review"
              /\ SetStatus(i, "completed") \/ SetStatus(i, "refunded")

-----------------------------------------------------------------------------
(* The watcher's tick.                                                     *)

\* Faulty: silently falls back to depth when the tag is unavailable (F-10).
GateHeadFallback(tag) == IF mode = "tag" /\ tag # -1 THEN tag ELSE head - Confirmations

\* Faulty: counts confirmations beyond the tip.
GateHeadBeyond(tag) == IF mode = "tag" THEN tag ELSE head + Confirmations

\* _finalized_head: the block the paid gate treats as final, or None (-1).
GateHead(tag) == IF mode = "tag" THEN tag ELSE head - Confirmations

\* Reads the heads.  `tag' is the answer to the finalized-tag query: None (-1)
\* in an outage, possibly behind the truth when the provider lags.
TickBegin(tag) ==
  /\ phase = "rows" /\ todo = {}
  /\ finalHead' = GateHead(tag)
  /\ ratchet' = IF tag > ratchet THEN tag ELSE ratchet
  /\ phase' = "ingest"
  /\ UNCHANGED <<todo, chainVars, rowVars, suspectVars, intentVars, mode>>

Mismatch(l) == IntentOf[l] # NoIntent /\ l \notin Valid

\* Faulty: tells a duplicate by its height instead of its block hash.
IngestByHeight(l) ==
  /\ phase = "ingest" /\ at[l] # 0
  /\ status[l] # "none" => rowH[l] # at[l]
  /\ status[l] # "final"
  /\ status' = [status EXCEPT ![l] = IF Mismatch(l) THEN "rejected" ELSE "pending"]
  /\ rowH' = [rowH EXCEPT ![l] = at[l]]
  /\ rowV' = [rowV EXCEPT ![l] = ver[at[l]]]
  /\ UNCHANGED <<fired, revFired, chainVars, watchVars, suspectVars, intentVars, mode>>

\* A log in the scanned window.  A row already stored for the same block is a
\* duplicate, and a final row seen in another block is left alone.
Ingest(l) ==
  /\ phase = "ingest" /\ at[l] # 0
  /\ status[l] # "none" => rowH[l] # at[l] \/ rowV[l] # ver[at[l]]
  /\ status[l] # "final"
  /\ status' = [status EXCEPT ![l] = IF Mismatch(l) THEN "rejected" ELSE "pending"]
  /\ rowH' = [rowH EXCEPT ![l] = at[l]]
  /\ rowV' = [rowV EXCEPT ![l] = ver[at[l]]]
  /\ UNCHANGED <<fired, revFired, chainVars, watchVars, suspectVars, intentVars, mode>>

\* Faulty: the sweep visits only rows the finalize gate would still revisit.
UnfiredAboveTerminal == {l \in Logs : /\ status[l] = "final" /\ ~fired[l] /\ ~revFired[l]
                                      /\ IntentOf[l] # NoIntent
                                      /\ istatus[IntentOf[l]] = "paid"
                                      /\ matched[IntentOf[l]] = TxOf[l]
                                      /\ rowH[l] > ratchet}

\* Final rows that paid their intent and whose payment.completed never went out.
Unfired == {l \in Logs : /\ status[l] = "final" /\ ~fired[l] /\ ~revFired[l]
                         /\ IntentOf[l] # NoIntent
                         /\ istatus[IntentOf[l]] = "paid"
                         /\ matched[IntentOf[l]] = TxOf[l]}

Selected == {l \in Logs : \/ status[l] = "pending"
                          \/ status[l] = "final" /\ rowH[l] > ratchet}

\* The sweep and the selection.  `sent' are the sweep's dispatches that did not raise.
BeginReconcile(sent) ==
  /\ phase = "ingest"
  /\ fired' = [l \in Logs |-> fired[l] \/ l \in sent]
  /\ told' = [i \in Intents |-> told[i] \cup {e \in {"completed"} : \E l \in sent : IntentOf[l] = i}]
  /\ todo' = Selected
  /\ phase' = "rows"
  /\ UNCHANGED <<status, rowH, rowV, revFired, istatus, matched, revLost, finalHead, ratchet,
                 chainVars, suspectVars, mode>>

-----------------------------------------------------------------------------
(* One selected row of the reconcile.                                      *)

Canonical(l) == rowV[l] = ver[rowH[l]]
Gone(l)      == ~Canonical(l) /\ at[l] = 0
Window(l)    == IF status[l] = "final" THEN FinalWindow ELSE PendingWindow

Examine(l) == phase = "rows" /\ l \in todo /\ todo' = todo \ {l}

\* Faulty: a good answer does not reset the evidence.
KeepSuspicion(l) == l \in Logs /\ UNCHANGED suspectVars

ClearSuspicion(l) ==
  /\ evidence' = [evidence EXCEPT ![l] = 0]
  /\ honest' = [honest EXCEPT ![l] = FALSE]

\* An unanswered query, a canonical row with nothing to do, or a transaction
\* alive in another block.
KeepRow(l) ==
  /\ Examine(l) /\ ClearSuspicion(l)
  /\ UNCHANGED <<phase, finalHead, ratchet, chainVars, rowVars, intentVars, mode>>

\* _finalize_settlement: `ok' is whether the dispatch of payment.completed returned.
FinalizeRow(l, ok) ==
  LET i      == IntentOf[l]
      closed == i = NoIntent \/ istatus[i] \notin Payable
      pays   == ~closed /\ l \in Valid
  IN
  /\ Examine(l) /\ ClearSuspicion(l)
  /\ Canonical(l) /\ status[l] = "pending" /\ rowH[l] =< finalHead
  /\ status' = [status EXCEPT ![l] = IF closed \/ pays THEN "final" ELSE "rejected"]
  /\ IF pays
       THEN /\ istatus' = [istatus EXCEPT ![i] = "paid"]
            /\ matched' = [matched EXCEPT ![i] = TxOf[l]]
            /\ fired' = [fired EXCEPT ![l] = @ \/ ok]
            /\ told' = [told EXCEPT ![i] = @ \cup {e \in {"completed"} : ok /\ ~fired[l]}]
       ELSE UNCHANGED <<istatus, matched, fired, told>>
  /\ UNCHANGED <<rowH, rowV, revFired, revLost, phase, finalHead, ratchet, chainVars, mode>>

\* Faulty: counts an unanswered query as evidence.
ReportedOutage(l, truth) == l \in Logs /\ truth

\* What a tick may report as reorg evidence (hash differs and no receipt): the
\* truth, or a false answer, though never for the whole of a window.
Reported(l, truth) == IF truth THEN Gone(l) ELSE Noise

SuspectReorg(l, truth) ==
  /\ Examine(l) /\ Reported(l, truth)
  /\ evidence[l] + 1 < Window(l)
  /\ evidence' = [evidence EXCEPT ![l] = @ + 1]
  /\ honest' = [honest EXCEPT ![l] = @ \/ truth]
  /\ UNCHANGED <<phase, finalHead, ratchet, chainVars, rowVars, intentVars, mode>>

Confirmed(l, truth) ==
  /\ Reported(l, truth) /\ (truth \/ honest[l])
  /\ evidence[l] + 1 >= Window(l)

\* Faulty: un-pays the intent whichever settlement paid it.
UnpaysAny(l) == IntentOf[l] # NoIntent /\ matched[IntentOf[l]] # NoTx

\* Faulty: un-pays only an intent whose merchant was told.
UnpaysTold(l) == IntentOf[l] # NoIntent /\ matched[IntentOf[l]] = TxOf[l] /\ fired[l]

\* The settlement is the one that marked its intent paid.
Unpays(l) == IntentOf[l] # NoIntent /\ matched[IntentOf[l]] = TxOf[l]

\* Faulty: the claim forgets webhook_fired_at.
TellsAnyone(l) == IntentOf[l] # NoIntent /\ ~revFired[l]

\* The claim on reversal_fired_at: the merchant was told paid, and not yet reversed.
Tells(l) == IntentOf[l] # NoIntent /\ fired[l] /\ ~revFired[l]

\* _reverse_settlement: `ok' is whether the dispatch of payment.reversed returned.
ReverseRow(l, truth, ok) ==
  LET i == IntentOf[l] IN
  /\ Examine(l) /\ Confirmed(l, truth) /\ ClearSuspicion(l)
  /\ Unpays(l) => ~PendingTwin(i)
  /\ status' = [status EXCEPT ![l] = "reorged"]
  /\ istatus' = [j \in Intents |-> IF j = i /\ Unpays(l) THEN "pending" ELSE istatus[j]]
  /\ matched' = [j \in Intents |-> IF j = i /\ Unpays(l) THEN NoTx ELSE matched[j]]
  /\ revFired' = [revFired EXCEPT ![l] = @ \/ (Tells(l) /\ ok)]
  /\ told' = [j \in Intents |-> told[j] \cup {e \in {"reversed"} : j = i /\ Tells(l) /\ ok}]
  /\ revLost' = revLost \cup {j \in Intents : j = i /\ Tells(l) /\ ~ok}
  /\ UNCHANGED <<rowH, rowV, fired, phase, finalHead, ratchet, chainVars, mode>>

\* Un-paying would make two identical pending intents: the unique index raises
\* and the transaction rolls back, but the popped evidence stays popped.
ReverseConflict(l, truth) ==
  /\ phase = "rows" /\ l \in todo /\ todo' = {}
  /\ Confirmed(l, truth) /\ ClearSuspicion(l)
  /\ Unpays(l) /\ PendingTwin(IntentOf[l])
  /\ UNCHANGED <<phase, finalHead, ratchet, chainVars, rowVars, intentVars, mode>>

\* A tick that raises, in getLogs or in a query of the reconcile, is given up.
TickFails ==
  /\ phase = "ingest" \/ todo # {}
  /\ phase' = "rows" /\ todo' = {}
  /\ UNCHANGED <<finalHead, ratchet, chainVars, rowVars, suspectVars, intentVars, mode>>

\* The process restarts: the tick is abandoned and the watcher's memory is lost.
Restart ==
  /\ phase' = "rows" /\ todo' = {} /\ finalHead' = -1 /\ ratchet' = -1
  /\ evidence' = [l \in Logs |-> 0] /\ honest' = [l \in Logs |-> FALSE]
  /\ UNCHANGED <<chainVars, rowVars, intentVars, mode>>

-----------------------------------------------------------------------------
ChainStep ==
  \/ \E S \in SUBSET Logs : Mine(S)
  \/ \E h \in Heights : Reorg(h)
  \/ \E h \in Heights : AdvanceFinality(h)

IntentStep == \E i \in Intents : Create(i) \/ Expire(i) \/ Cancel(i) \/ Resolve(i)

RowStep(l) ==
  \/ Ingest(l)
  \/ KeepRow(l)
  \/ \E ok \in BOOLEAN : FinalizeRow(l, ok)
  \/ \E truth \in BOOLEAN : SuspectReorg(l, truth)
  \/ \E truth, ok \in BOOLEAN : ReverseRow(l, truth, ok)
  \/ \E truth \in BOOLEAN : ReverseConflict(l, truth)

WatcherStep ==
  \/ \E tag \in -1..finalized : TickBegin(tag)
  \/ \E sent \in SUBSET Unfired : BeginReconcile(sent)
  \/ \E l \in Logs : RowStep(l)
  \/ TickFails
  \/ Restart

Next == ChainStep \/ IntentStep \/ WatcherStep

Spec == Init /\ [][Next]_vars

-----------------------------------------------------------------------------
(* Safety.                                                                 *)

\* A paid intent is backed by a valid final settlement of the transaction it
\* was matched to, and an intent that is not paid is matched to none
\* (_finalize_settlement and _reverse_settlement change both sides together).
PaidIsBacked ==
  \A i \in Intents :
    IF istatus[i] = "paid"
      THEN \E l \in Valid : /\ IntentOf[l] = i /\ TxOf[l] = matched[i]
                            /\ status[l] = "final"
      ELSE matched[i] = NoTx

\* No transaction pays one invoice twice.  The router emits one log per call, so
\* only a payer's own batching contract breaks this, and the indexer, which
\* compares transactions and not rows, relies on it for UnpaidIsRetracted.
OnePaymentPerTx ==
  \A l, k \in Valid : IntentOf[l] = IntentOf[k] /\ IntentOf[l] # NoIntent /\ TxOf[l] = TxOf[k]
                       => l = k

\* A merchant told payment.completed whose intent is no longer paid was told
\* payment.reversed, unless that one dispatch raised.
UnpaidIsRetracted ==
  \A i \in Intents :
    istatus[i] # "paid" /\ "completed" \in told[i] => "reversed" \in told[i] \/ i \in revLost

\* payment.reversed never reaches a merchant who was not told payment.completed.  Part
\* of KeepsPromise, but it holds whatever the payments are.
RetractsOnlyWhatWasTold ==
  \A i \in Intents : "reversed" \in told[i] => "completed" \in told[i]

\* The F-4 order invariant: a valid canonical row stamped final never leaves
\* its intent waiting for a payment, because final rows are not revisited.
FinalIsNotStranded ==
  \A l \in Valid : status[l] = "final" /\ Canonical(l) /\ IntentOf[l] # NoIntent
                     => istatus[IntentOf[l]] \notin Payable

\* F-4 in tag mode, where paid means finalized.
TagFinalIsNotStranded == mode = "tag" => FinalIsNotStranded

\* A final row is reversed only when its block really left the chain, however
\* a provider misreports for less than an evidence window (B-2, F-1).
FinalReversalIsGenuine ==
  [][\A l \in Logs : status[l] = "final" /\ status'[l] = "reorged" => ~Canonical(l)]_vars

\* The same for every row: no window of false answers reverses a payment.
ReversalIsGenuine ==
  [][\A l \in Logs : status'[l] = "reorged" /\ status[l] # "reorged" => ~Canonical(l)]_vars

\* Once the chain has truly finalized the block of a final row, the row is
\* terminal, whatever the mode, the tag outages, the restarts and the noise: what
\* FinalReversalIsGenuine comes to, since finalized blocks stay.
FinalizedIsForever ==
  [][\A l \in Logs : status[l] = "final" /\ Canonical(l) /\ rowH[l] =< finalized
                       => status'[l] = "final"]_vars

-----------------------------------------------------------------------------
(* The watcher implements the promise made to the merchant.                *)

StateOf(i) ==
  CASE istatus[i] = "absent"  -> "absent"
    [] istatus[i] \in Payable -> "open"
    [] istatus[i] = "paid"    -> "paid"
    [] OTHER                  -> "closed"

Promise == INSTANCE PaymentPromise WITH state <- [i \in Intents |-> StateOf(i)], lost <- revLost

\* Whatever the chain, the providers and the restarts do, the merchant sees
\* an invoice that keeps the promise of PaymentPromise.
KeepsPromise == Promise!Spec

-----------------------------------------------------------------------------
(* Liveness.  The poll loop never stops for good: a failed tick and a      *)
(* restarted process begin again.  Again and again the finalized tag is    *)
(* answered, a tick that has it gets as far as the reconcile with its      *)
(* dispatches sent, and a row is reached before the tick fails.            *)
(*                                                                         *)
(* A log is offered to Ingest again and again only while its block is not  *)
(* final: a tick scans from min(cursor, floor) + 1, and an exception while *)
(* one log is ingested is swallowed and the cursor goes on, so that a log  *)
(* which no scan took in before its block was final is never seen again.   *)
(* That ticks reach the tail is TailIsRescanned in IndexerCursor, with its *)
(* conditions: a tail no longer than a window, below HEAD_SAFETY_MARGIN.   *)

Fairness ==
  /\ SF_vars(TickBegin(finalized))
  /\ SF_vars(finalHead = finalized /\ BeginReconcile(Unfired))
  /\ WF_vars(TickFails \/ \E sent \in SUBSET Unfired : BeginReconcile(sent))
  /\ \A l \in Logs : /\ SF_vars(at[l] > finalized /\ Ingest(l))
                     /\ SF_vars(\E ok \in BOOLEAN : FinalizeRow(l, ok))
                     /\ WF_vars(RowStep(l) /\ l \in todo)

LiveSpec == Spec /\ Fairness

\* A paid merchant is eventually told (the unfired-webhook sweep), unless the
\* payment is taken back first.
PaidIsAnnounced ==
  \A i \in Intents : istatus[i] = "paid" ~> istatus[i] # "paid" \/ "completed" \in told[i]

\* The row of the log was taken in from the block the log is in now.
InPlace(l) == status[l] # "none" /\ rowH[l] = at[l] /\ rowV[l] = ver[at[l]]

\* The pending row of a payment waits for the block of the payment to be final.
AwaitsFinality(l) == status[l] = "pending" /\ InPlace(l) /\ at[l] > finalized

\* The block became final before any scan took the payment in from it.
Missed(l) == ~InPlace(l) /\ at[l] =< finalized

\* A valid payment on the chain never leaves its invoice waiting: it is taken in from
\* the block it is in now, again after each reorganisation, and once that block is
\* final the invoice is no longer open.  Only a reorganisation that drops the payment
\* excuses it, and a log that no scan took in while its block was not final: an
\* exception while it was ingested is swallowed, and the cursor goes on.
FinalizedPaymentSettles ==
  \A l \in Valid : at[l] # 0 /\ istatus[IntentOf[l]] \in Payable
                     ~> \/ istatus[IntentOf[l]] \notin Payable
                        \/ at[l] = 0
                        \/ AwaitsFinality(l)
                        \/ Missed(l)
=============================================================================
