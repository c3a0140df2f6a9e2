----------------------- MODULE SettlementIndexer_proofs -----------------------
(***************************************************************************)
(* Proofs about the payment indexer, for every set of logs, transactions   *)
(* and intents, every window, and either finality mode.                    *)
(***************************************************************************)
EXTENDS SettlementIndexer, TLAPS

USE DEF chainVars, rowVars, watchVars, suspectVars, intentVars

-----------------------------------------------------------------------------
(* Type correctness.                                                       *)

\* Every variable keeps its type: in particular a row never stores a block
\* above the tip or of a fork that has not happened yet.
LEMMA InitTypeOK == ASSUME ConstantsOK, Init PROVE TypeOK
BY DEF ConstantsOK, Init, TypeOK, RowStatus, IntentStatus, Heights, Events

LEMMA ChainTypeOK == ASSUME ConstantsOK, TypeOK, ChainStep PROVE TypeOK'
<1>1. ASSUME NEW S \in SUBSET Logs, Mine(S) PROVE TypeOK'
  <2>1. head' \in 0..MaxHeight /\ head < head' /\ at' \in [Logs -> 0..head']
    BY <1>1 DEF TypeOK, Mine, ConstantsOK
  <2>. QED BY <1>1, <2>1 DEF TypeOK, Mine, ConstantsOK
<1>2. ASSUME NEW h \in Heights, Reorg(h) PROVE TypeOK'
  <2>1. forks' \in 0..MaxForks /\ forks' = forks + 1
    BY <1>2 DEF TypeOK, Reorg, ConstantsOK
  <2>2. ver' \in [Heights -> 0..forks']
    BY <1>2, <2>1 DEF TypeOK, Reorg, ConstantsOK
  <2>3. at' \in [Logs -> 0..head]
    <3>1. PICK land \in [Txs -> {0} \cup h..head] :
            at' = [l \in Logs |-> IF at[l] >= h THEN land[TxOf[l]] ELSE at[l]]
      BY <1>2 DEF Reorg
    <3>2. \A t \in Txs : land[t] \in 0..head
      BY <3>1 DEF TypeOK, Heights, ConstantsOK
    <3>. QED BY <3>1, <3>2 DEF TypeOK, ConstantsOK
  <2>. QED BY <1>2, <2>1, <2>2, <2>3 DEF TypeOK, Reorg
<1>3. ASSUME NEW h \in Heights, AdvanceFinality(h) PROVE TypeOK'
  BY <1>3 DEF TypeOK, AdvanceFinality, Heights, ConstantsOK
<1>. QED BY <1>1, <1>2, <1>3 DEF ChainStep

LEMMA IntentTypeOK == ASSUME ConstantsOK, TypeOK, IntentStep PROVE TypeOK'
<1>1. ASSUME NEW i \in Intents, NEW s \in IntentStatus, SetStatus(i, s) PROVE TypeOK'
  BY <1>1 DEF TypeOK, SetStatus
<1>2. {"pending", "expired", "cancelled", "completed", "refunded"} \subseteq IntentStatus
  BY DEF IntentStatus
<1>. QED BY <1>1, <1>2 DEF IntentStep, Create, Expire, Cancel, Resolve

LEMMA WatcherTypeOK == ASSUME ConstantsOK, TypeOK, WatcherStep PROVE TypeOK'
<1>1. ASSUME NEW tag \in -1..finalized, TickBegin(tag) PROVE TypeOK'
  BY <1>1 DEF TypeOK, TickBegin, GateHead, ConstantsOK
<1>2. ASSUME NEW sent \in SUBSET Unfired, BeginReconcile(sent) PROVE TypeOK'
  BY <1>2 DEF TypeOK, BeginReconcile, Selected, Unfired, Events
<1>3. ASSUME NEW l \in Logs, Ingest(l) PROVE TypeOK'
  <2>1. at[l] \in Heights
    BY <1>3 DEF TypeOK, Ingest, Heights, ConstantsOK
  <2>2. ver[at[l]] \in 0..forks
    BY <2>1 DEF TypeOK
  <2>. QED BY <1>3, <2>2 DEF TypeOK, Ingest, RowStatus
<1>4. ASSUME NEW l \in Logs, KeepRow(l) PROVE TypeOK'
  BY <1>4 DEF TypeOK, KeepRow, Examine, ClearSuspicion
<1>5. ASSUME NEW l \in Logs, NEW ok \in BOOLEAN, FinalizeRow(l, ok) PROVE TypeOK'
  <2>. DEFINE i == IntentOf[l]
  <2>1. CASE i \in Intents
    <3>1. TxOf[l] \in Txs
      BY DEF ConstantsOK
    <3>. QED BY <1>5, <2>1, <3>1
           DEF TypeOK, FinalizeRow, Examine, ClearSuspicion, RowStatus, IntentStatus, Events
  <2>2. CASE i = NoIntent
    BY <1>5, <2>2 DEF TypeOK, FinalizeRow, Examine, ClearSuspicion, RowStatus
  <2>. QED BY <2>1, <2>2 DEF ConstantsOK
<1>6. ASSUME NEW l \in Logs, NEW truth \in BOOLEAN, SuspectReorg(l, truth) PROVE TypeOK'
  BY <1>6 DEF TypeOK, SuspectReorg, Examine
<1>7. ASSUME NEW l \in Logs, NEW truth \in BOOLEAN, NEW ok \in BOOLEAN, ReverseRow(l, truth, ok)
      PROVE TypeOK'
  BY <1>7 DEF TypeOK, ReverseRow, Examine, ClearSuspicion, RowStatus, IntentStatus, Events, Tells
<1>8. ASSUME NEW l \in Logs, NEW truth \in BOOLEAN, ReverseConflict(l, truth) PROVE TypeOK'
  BY <1>8 DEF TypeOK, ReverseConflict, ClearSuspicion
<1>9. CASE Restart
  BY <1>9 DEF TypeOK, Restart
<1>10. CASE TickFails
  BY <1>10 DEF TypeOK, TickFails
<1>. QED BY <1>1, <1>2, <1>3, <1>4, <1>5, <1>6, <1>7, <1>8, <1>9, <1>10
     DEF WatcherStep, RowStep

LEMMA NextTypeOK == ASSUME ConstantsOK, TypeOK, [Next]_vars PROVE TypeOK'
<1>1. CASE UNCHANGED vars
  BY <1>1 DEF TypeOK, vars
<1>. QED BY <1>1, ChainTypeOK, IntentTypeOK, WatcherTypeOK DEF Next

\* The type invariant of the indexer, for every value of the constants.
THEOREM TypeCorrect == Spec => []TypeOK
<1>1. Init => TypeOK
  BY InitTypeOK, ConstantsOK
<1>2. TypeOK /\ [Next]_vars => TypeOK'
  BY NextTypeOK, ConstantsOK
<1>. QED BY <1>1, <1>2, PTL DEF Spec

-----------------------------------------------------------------------------
(* A paid intent is backed by a settlement.                                *)

\* Steps that touch neither a row's status nor an intent keep the backing.
LEMMA BackingUntouched ==
  ASSUME PaidIsBacked, UNCHANGED <<status, istatus, matched>> PROVE PaidIsBacked'
BY DEF PaidIsBacked

LEMMA IntentKeepsBacking ==
  ASSUME ConstantsOK, TypeOK, PaidIsBacked, IntentStep PROVE PaidIsBacked'
<1>1. PICK i \in Intents : Create(i) \/ Expire(i) \/ Cancel(i) \/ Resolve(i)
  BY DEF IntentStep
<1>2. /\ istatus[i] # "paid" /\ UNCHANGED <<matched, status>>
      /\ \E s \in IntentStatus \ {"paid"} : istatus' = [istatus EXCEPT ![i] = s]
  BY <1>1 DEF Create, Expire, Cancel, Resolve, SetStatus, IntentStatus
<1>3. \A j \in Intents : istatus'[j] = "paid" <=> istatus[j] = "paid"
  BY <1>2 DEF TypeOK
<1>. QED BY <1>2, <1>3 DEF PaidIsBacked

\* Ingest never touches a final row, so it removes no backing.
LEMMA IngestKeepsBacking ==
  ASSUME ConstantsOK, TypeOK, PaidIsBacked, NEW l \in Logs, Ingest(l) PROVE PaidIsBacked'
<1>1. \A k \in Logs : status[k] = "final" => status'[k] = "final"
  BY DEF Ingest, TypeOK
<1>. QED BY <1>1 DEF PaidIsBacked, Ingest, ConstantsOK

LEMMA FinalizeKeepsBacking ==
  ASSUME ConstantsOK, TypeOK, PaidIsBacked, NEW l \in Logs, NEW ok \in BOOLEAN,
         FinalizeRow(l, ok)
  PROVE  PaidIsBacked'
<1>1. \A k \in Logs : status[k] = "final" => status'[k] = "final"
  BY DEF FinalizeRow, TypeOK
<1>. DEFINE i == IntentOf[l]
<1>2. CASE i # NoIntent /\ istatus[i] \in Payable /\ l \in Valid
  <2>1. i \in Intents /\ TxOf[l] \in Txs
    BY <1>2 DEF ConstantsOK
  <2>2. /\ status'[l] = "final"
        /\ istatus' = [istatus EXCEPT ![i] = "paid"]
        /\ matched' = [matched EXCEPT ![i] = TxOf[l]]
    BY <1>2 DEF FinalizeRow, TypeOK
  <2>3. ASSUME NEW j \in Intents
        PROVE  IF istatus'[j] = "paid"
                 THEN \E k \in Valid : IntentOf[k] = j /\ TxOf[k] = matched'[j] /\ status'[k] = "final"
                 ELSE matched'[j] = NoTx
    <3>1. CASE j = i
      BY <3>1, <2>1, <2>2, <1>2 DEF TypeOK
    <3>2. CASE j # i
      BY <3>2, <2>1, <2>2, <1>1 DEF PaidIsBacked, TypeOK, ConstantsOK
    <3>. QED BY <3>1, <3>2
  <2>. QED BY <2>3 DEF PaidIsBacked
<1>3. CASE ~(i # NoIntent /\ istatus[i] \in Payable /\ l \in Valid)
  <2>1. UNCHANGED <<istatus, matched>>
    BY <1>3 DEF FinalizeRow
  <2>. QED BY <2>1, <1>1 DEF PaidIsBacked, ConstantsOK
<1>. QED BY <1>2, <1>3

\* A reversed row either backs its intent, which it un-pays, or backs none.
LEMMA ReverseKeepsBacking ==
  ASSUME ConstantsOK, TypeOK, PaidIsBacked, NEW l \in Logs, NEW truth \in BOOLEAN,
         NEW ok \in BOOLEAN, ReverseRow(l, truth, ok)
  PROVE  PaidIsBacked'
<1>1. \A k \in Logs : status[k] = "final" /\ k # l => status'[k] = "final"
  BY DEF ReverseRow, TypeOK
<1>2. ASSUME NEW j \in Intents
      PROVE  IF istatus'[j] = "paid"
               THEN \E k \in Valid : IntentOf[k] = j /\ TxOf[k] = matched'[j] /\ status'[k] = "final"
               ELSE matched'[j] = NoTx
  <2>1. CASE j = IntentOf[l] /\ Unpays(l)
    BY <2>1 DEF ReverseRow
  <2>2. CASE ~(j = IntentOf[l] /\ Unpays(l))
    <3>1. istatus'[j] = istatus[j] /\ matched'[j] = matched[j]
      BY <2>2 DEF ReverseRow
    <3>2. ASSUME istatus[j] = "paid"
          PROVE  \E k \in Valid : IntentOf[k] = j /\ TxOf[k] = matched[j] /\ status'[k] = "final"
      <4>1. PICK k \in Valid : IntentOf[k] = j /\ TxOf[k] = matched[j] /\ status[k] = "final"
        BY <3>2 DEF PaidIsBacked
      <4>2. k # l
        BY <4>1, <2>2 DEF Unpays, ConstantsOK
      <4>. QED BY <4>1, <4>2, <1>1 DEF ConstantsOK
    <3>. QED BY <3>1, <3>2 DEF PaidIsBacked
  <2>. QED BY <2>1, <2>2
<1>. QED BY <1>2 DEF PaidIsBacked

LEMMA NextKeepsBacking ==
  ASSUME ConstantsOK, TypeOK, PaidIsBacked, [Next]_vars PROVE PaidIsBacked'
<1>1. CASE UNCHANGED vars
  BY <1>1, BackingUntouched DEF vars
<1>2. CASE ChainStep
  BY <1>2, BackingUntouched DEF ChainStep, Mine, Reorg, AdvanceFinality
<1>3. CASE IntentStep
  BY <1>3, IntentKeepsBacking
<1>4. CASE Restart \/ TickFails \/ (\E tag \in -1..finalized : TickBegin(tag))
                   \/ (\E sent \in SUBSET Unfired : BeginReconcile(sent))
  BY <1>4, BackingUntouched DEF Restart, TickFails, TickBegin, BeginReconcile
<1>5. CASE \E l \in Logs : RowStep(l)
  <2>1. PICK l \in Logs : RowStep(l)
    BY <1>5
  <2>2. CASE Ingest(l)
    BY <2>2, IngestKeepsBacking
  <2>3. CASE \E ok \in BOOLEAN : FinalizeRow(l, ok)
    BY <2>3, FinalizeKeepsBacking
  <2>4. CASE \E truth, ok \in BOOLEAN : ReverseRow(l, truth, ok)
    BY <2>4, ReverseKeepsBacking
  <2>5. CASE KeepRow(l) \/ (\E truth \in BOOLEAN : SuspectReorg(l, truth))
                        \/ (\E truth \in BOOLEAN : ReverseConflict(l, truth))
    BY <2>5, BackingUntouched DEF KeepRow, SuspectReorg, ReverseConflict
  <2>. QED BY <2>1, <2>2, <2>3, <2>4, <2>5 DEF RowStep
<1>. QED BY <1>1, <1>2, <1>3, <1>4, <1>5 DEF Next, WatcherStep

\* In every reachable state a paid intent has a valid final settlement of the
\* transaction it was matched to, and an intent that is not paid has no match.
THEOREM PaidStaysBacked == Spec => []PaidIsBacked
<1>1. Init => PaidIsBacked
  BY ConstantsOK DEF Init, PaidIsBacked
<1>2. TypeOK /\ PaidIsBacked /\ [Next]_vars => PaidIsBacked'
  BY NextKeepsBacking, ConstantsOK
<1>. QED BY <1>1, <1>2, TypeCorrect, PTL DEF Spec

-----------------------------------------------------------------------------
(* The rows a reconcile still has to examine are pending or final: nothing *)
(* is ingested before it has examined them.                                *)

TodoIsLive == /\ phase = "ingest" => todo = {}
              /\ \A l \in todo : status[l] \in {"pending", "final"}

LEMMA NextTodoIsLive == ASSUME ConstantsOK, TypeOK, TodoIsLive, [Next]_vars PROVE TodoIsLive'
<1>1. CASE UNCHANGED vars
  BY <1>1 DEF TodoIsLive, vars
<1>2. CASE ChainStep
  BY <1>2 DEF TodoIsLive, ChainStep, Mine, Reorg, AdvanceFinality
<1>3. CASE IntentStep
  BY <1>3 DEF TodoIsLive, IntentStep, Create, Expire, Cancel, Resolve, SetStatus
<1>4. CASE WatcherStep
  <2>1. CASE \E tag \in -1..finalized : TickBegin(tag)
    BY <2>1 DEF TodoIsLive, TickBegin
  <2>2. CASE \E sent \in SUBSET Unfired : BeginReconcile(sent)
    BY <2>2 DEF TodoIsLive, BeginReconcile, Selected
  <2>3. ASSUME NEW l \in Logs, RowStep(l) PROVE TodoIsLive'
    <3>1. CASE Ingest(l)
      BY <3>1 DEF TodoIsLive, Ingest, TypeOK
    <3>2. CASE KeepRow(l)
      BY <3>2 DEF TodoIsLive, KeepRow, Examine
    <3>3. CASE \E ok \in BOOLEAN : FinalizeRow(l, ok)
      BY <3>3 DEF TodoIsLive, FinalizeRow, Examine, TypeOK
    <3>4. CASE \E truth \in BOOLEAN : SuspectReorg(l, truth)
      BY <3>4 DEF TodoIsLive, SuspectReorg, Examine
    <3>5. CASE \E truth, ok \in BOOLEAN : ReverseRow(l, truth, ok)
      BY <3>5 DEF TodoIsLive, ReverseRow, Examine, TypeOK
    <3>6. CASE \E truth \in BOOLEAN : ReverseConflict(l, truth)
      BY <3>6 DEF TodoIsLive, ReverseConflict
    <3>. QED BY <2>3, <3>1, <3>2, <3>3, <3>4, <3>5, <3>6 DEF RowStep
  <2>4. CASE Restart \/ TickFails
    BY <2>4 DEF TodoIsLive, Restart, TickFails
  <2>. QED BY <1>4, <2>1, <2>2, <2>3, <2>4 DEF WatcherStep
<1>. QED BY <1>1, <1>2, <1>3, <1>4 DEF Next

LEMMA TodoStaysLive == Spec => []TodoIsLive
<1>1. Init => TodoIsLive
  BY DEF Init, TodoIsLive
<1>2. TypeOK /\ TodoIsLive /\ [Next]_vars => TodoIsLive'
  BY NextTodoIsLive, ConstantsOK
<1>. QED BY <1>1, <1>2, TypeCorrect, PTL DEF Spec

-----------------------------------------------------------------------------
(* Only a payment whose block left the chain is taken back.                *)

\* A stored row has a block, and a true piece of evidence about a final row
\* stays true: no reorganisation brings an old block hash back.
RowHasBlock     == \A l \in Logs : status[l] # "none" => rowH[l] \in Heights
EvidenceIsTrue  == \A l \in Logs : status[l] = "final" /\ honest[l] => ~Canonical(l)
EvidenceInv     == RowHasBlock /\ EvidenceIsTrue

LEMMA EvidenceUntouched ==
  ASSUME EvidenceInv, UNCHANGED <<status, rowH, rowV, ver, honest>> PROVE EvidenceInv'
BY DEF EvidenceInv, RowHasBlock, EvidenceIsTrue, Canonical

LEMMA ReorgKeepsEvidence ==
  ASSUME ConstantsOK, TypeOK, EvidenceInv, NEW h \in Heights, Reorg(h) PROVE EvidenceInv'
<1>1. RowHasBlock'
  BY DEF EvidenceInv, RowHasBlock, Reorg
<1>2. ASSUME NEW l \in Logs, status[l] = "final", honest[l] PROVE rowV[l] # ver'[rowH[l]]
  <2>1. rowH[l] \in Heights /\ rowV[l] # ver[rowH[l]]
    BY <1>2 DEF EvidenceInv, RowHasBlock, EvidenceIsTrue, Canonical
  <2>2. ver'[rowH[l]] \in {forks + 1, ver[rowH[l]]}
    BY <2>1 DEF Reorg
  <2>3. rowV[l] \in 0..forks /\ forks \in Nat
    BY DEF TypeOK, ConstantsOK
  <2>. QED BY <2>1, <2>2, <2>3
<1>. QED BY <1>1, <1>2 DEF EvidenceInv, EvidenceIsTrue, Canonical, Reorg

LEMMA IngestKeepsEvidence ==
  ASSUME ConstantsOK, TypeOK, EvidenceInv, NEW l \in Logs, Ingest(l) PROVE EvidenceInv'
<1>1. at[l] \in Heights
  BY DEF Ingest, TypeOK, Heights, ConstantsOK
<1>2. RowHasBlock'
  BY <1>1 DEF EvidenceInv, RowHasBlock, Ingest, TypeOK, Heights
<1>3. status'[l] # "final"
  BY DEF Ingest, TypeOK
<1>4. \A k \in Logs \ {l} : UNCHANGED <<status[k], rowH[k], rowV[k]>>
  BY DEF Ingest, TypeOK
<1>. QED BY <1>2, <1>3, <1>4 DEF EvidenceInv, EvidenceIsTrue, Canonical, Ingest

\* A row examined with a definite answer starts the next streak from nothing.
LEMMA ClearedKeepsEvidence ==
  ASSUME ConstantsOK, TypeOK, EvidenceInv, NEW l \in Logs, ClearSuspicion(l), status[l] # "none",
         UNCHANGED <<rowH, rowV, ver>>, \A k \in Logs \ {l} : status'[k] = status[k]
  PROVE  EvidenceInv'
<1>1. ~honest'[l] /\ \A k \in Logs \ {l} : honest'[k] = honest[k]
  BY DEF ClearSuspicion, TypeOK
<1>. QED BY <1>1 DEF EvidenceInv, RowHasBlock, EvidenceIsTrue, Canonical

LEMMA SuspectKeepsEvidence ==
  ASSUME ConstantsOK, TypeOK, EvidenceInv, NEW l \in Logs, NEW truth \in BOOLEAN,
         SuspectReorg(l, truth)
  PROVE  EvidenceInv'
<1>1. RowHasBlock'
  BY DEF EvidenceInv, RowHasBlock, SuspectReorg
<1>2. ASSUME NEW k \in Logs, status[k] = "final", honest'[k] PROVE ~Canonical(k)
  <2>1. CASE honest[k]
    BY <2>1, <1>2 DEF EvidenceInv, EvidenceIsTrue
  <2>2. CASE ~honest[k]
    <3>1. k = l /\ truth
      BY <2>2, <1>2 DEF SuspectReorg, TypeOK
    <3>. QED BY <3>1 DEF SuspectReorg, Reported, Gone
  <2>. QED BY <2>1, <2>2
<1>. QED BY <1>1, <1>2 DEF EvidenceInv, EvidenceIsTrue, Canonical, SuspectReorg

LEMMA NextKeepsEvidence ==
  ASSUME ConstantsOK, TypeOK, TodoIsLive, EvidenceInv, [Next]_vars PROVE EvidenceInv'
<1>1. CASE UNCHANGED vars
  BY <1>1, EvidenceUntouched DEF vars
<1>2. CASE ChainStep
  BY <1>2, EvidenceUntouched, ReorgKeepsEvidence DEF ChainStep, Mine, AdvanceFinality
<1>3. CASE IntentStep
  BY <1>3, EvidenceUntouched DEF IntentStep, Create, Expire, Cancel, Resolve, SetStatus
<1>4. CASE TickFails \/ (\E tag \in -1..finalized : TickBegin(tag))
                   \/ (\E sent \in SUBSET Unfired : BeginReconcile(sent))
  BY <1>4, EvidenceUntouched DEF TickFails, TickBegin, BeginReconcile
<1>5. CASE \E l \in Logs : RowStep(l)
  <2>1. PICK l \in Logs : RowStep(l)
    BY <1>5
  <2>2. CASE Ingest(l)
    BY <2>2, IngestKeepsEvidence
  <2>3. CASE KeepRow(l)
    BY <2>3, ClearedKeepsEvidence DEF KeepRow, Examine, TodoIsLive
  <2>4. CASE \E ok \in BOOLEAN : FinalizeRow(l, ok)
    BY <2>4, ClearedKeepsEvidence DEF FinalizeRow, TypeOK
  <2>5. CASE \E truth \in BOOLEAN : SuspectReorg(l, truth)
    BY <2>5, SuspectKeepsEvidence
  <2>6. CASE \E truth, ok \in BOOLEAN : ReverseRow(l, truth, ok)
    BY <2>6, ClearedKeepsEvidence DEF ReverseRow, Examine, TodoIsLive, TypeOK
  <2>7. CASE \E truth \in BOOLEAN : ReverseConflict(l, truth)
    BY <2>7, ClearedKeepsEvidence DEF ReverseConflict, TodoIsLive
  <2>. QED BY <2>1, <2>2, <2>3, <2>4, <2>5, <2>6, <2>7 DEF RowStep
<1>6. CASE Restart
  BY <1>6 DEF EvidenceInv, RowHasBlock, EvidenceIsTrue, Canonical, Restart
<1>. QED BY <1>1, <1>2, <1>3, <1>4, <1>5, <1>6 DEF Next, WatcherStep

LEMMA EvidenceHolds == Spec => []EvidenceInv
<1>1. Init => EvidenceInv
  BY DEF Init, EvidenceInv, RowHasBlock, EvidenceIsTrue
<1>2. TypeOK /\ TodoIsLive /\ EvidenceInv /\ [Next]_vars => EvidenceInv'
  BY NextKeepsEvidence, ConstantsOK
<1>. QED BY <1>1, <1>2, TypeCorrect, TodoStaysLive, PTL DEF Spec

\* A final row leaves that status only by a reversal on confirmed evidence.
LEMMA FinalLeavesByReversal ==
  ASSUME ConstantsOK, TypeOK, EvidenceInv, [Next]_vars,
         NEW l \in Logs, status[l] = "final", status'[l] # "final"
  PROVE  status'[l] = "reorged" /\ ~Canonical(l)
<1>1. ASSUME NEW k \in Logs, NEW truth \in BOOLEAN, NEW ok \in BOOLEAN,
             ReverseRow(k, truth, ok)
      PROVE  status'[l] = "reorged" /\ ~Canonical(l)
  <2>1. k = l /\ status'[l] = "reorged"
    BY <1>1 DEF ReverseRow, TypeOK
  <2>2. truth \/ honest[l]
    BY <1>1, <2>1 DEF ReverseRow, Confirmed
  <2>3. truth => ~Canonical(l)
    BY <1>1, <2>1 DEF ReverseRow, Confirmed, Reported, Gone
  <2>. QED BY <2>1, <2>2, <2>3 DEF EvidenceInv, EvidenceIsTrue
<1>2. ASSUME NEW k \in Logs, RowStep(k) PROVE status'[l] = "reorged" /\ ~Canonical(l)
  <2>1. ~Ingest(k)
    BY DEF Ingest, TypeOK
  <2>2. ~(\E ok \in BOOLEAN : FinalizeRow(k, ok))
    BY DEF FinalizeRow, TypeOK
  <2>3. ~KeepRow(k) /\ ~(\E truth \in BOOLEAN : SuspectReorg(k, truth) \/ ReverseConflict(k, truth))
    BY DEF KeepRow, SuspectReorg, ReverseConflict
  <2>. QED BY <1>1, <1>2, <2>1, <2>2, <2>3 DEF RowStep
<1>3. ~UNCHANGED vars /\ ~ChainStep /\ ~IntentStep
  BY DEF vars, ChainStep, Mine, Reorg, AdvanceFinality, IntentStep, Create, Expire, Cancel,
         Resolve, SetStatus
<1>4. ~Restart /\ ~TickFails /\ ~(\E tag \in -1..finalized : TickBegin(tag))
                           /\ ~(\E sent \in SUBSET Unfired : BeginReconcile(sent))
  BY DEF Restart, TickFails, TickBegin, BeginReconcile
<1>. QED BY <1>2, <1>3, <1>4 DEF Next, WatcherStep

\* A final payment is reversed only when its block really left the chain,
\* for every length of the two evidence windows.
THEOREM FinalReversalsAreGenuine == Spec => FinalReversalIsGenuine
<1>. DEFINE Genuine == \A l \in Logs : status[l] = "final" /\ status'[l] = "reorged" => ~Canonical(l)
<1>1. TypeOK /\ EvidenceInv /\ [Next]_vars => [Genuine]_vars
  BY FinalLeavesByReversal, ConstantsOK
<1>. QED BY <1>1, TypeCorrect, EvidenceHolds, PTL DEF Spec, FinalReversalIsGenuine

\* A final row whose block the chain finalized stays final in either mode,
\* through tag outages, restarts and misreporting providers.
THEOREM FinalizedRowsAreForever == Spec => FinalizedIsForever
<1>. DEFINE Forever == \A l \in Logs : status[l] = "final" /\ Canonical(l) /\ rowH[l] =< finalized
                                         => status'[l] = "final"
<1>1. TypeOK /\ EvidenceInv /\ [Next]_vars => [Forever]_vars
  BY FinalLeavesByReversal, ConstantsOK
<1>. QED BY <1>1, TypeCorrect, EvidenceHolds, PTL DEF Spec, FinalizedIsForever

-----------------------------------------------------------------------------
(* What the merchant is told.                                              *)

\* The claims on a row record announcements that were really made.
ClaimsAreTold ==
  \A l \in Logs : IntentOf[l] # NoIntent =>
    /\ fired[l] => "completed" \in told[IntentOf[l]]
    /\ revFired[l] => {"completed", "reversed"} \subseteq told[IntentOf[l]]

\* Only a matching log becomes a pending or final row of an intent.
LiveIsValid ==
  \A l \in Logs : status[l] \in {"pending", "final"} /\ IntentOf[l] # NoIntent => l \in Valid

\* An announcement not yet retracted belongs to the payment that stands.
StandsAnnounced(i) ==
  "completed" \in told[i] /\ "reversed" \notin told[i] /\ i \notin revLost
    => /\ istatus[i] = "paid"
       /\ \A l \in Valid : IntentOf[l] = i /\ TxOf[l] = matched[i] => fired[l] /\ ~revFired[l]

AnnouncedInv == ClaimsAreTold /\ LiveIsValid /\ \A i \in Intents : StandsAnnounced(i)

LEMMA AnnouncedUntouched ==
  ASSUME AnnouncedInv, UNCHANGED <<status, fired, revFired, intentVars>> PROVE AnnouncedInv'
BY DEF AnnouncedInv, ClaimsAreTold, LiveIsValid, StandsAnnounced

LEMMA IntentKeepsAnnounced ==
  ASSUME ConstantsOK, TypeOK, AnnouncedInv, IntentStep PROVE AnnouncedInv'
<1>1. PICK i \in Intents : Create(i) \/ Expire(i) \/ Cancel(i) \/ Resolve(i)
  BY DEF IntentStep
<1>2. /\ istatus[i] # "paid"
      /\ UNCHANGED <<matched, told, revLost, status, fired, revFired>>
      /\ \A j \in Intents \ {i} : istatus'[j] = istatus[j]
  BY <1>1 DEF Create, Expire, Cancel, Resolve, SetStatus, TypeOK
<1>. QED BY <1>2 DEF AnnouncedInv, ClaimsAreTold, LiveIsValid, StandsAnnounced

LEMMA IngestKeepsAnnounced ==
  ASSUME ConstantsOK, TypeOK, AnnouncedInv, NEW l \in Logs, Ingest(l) PROVE AnnouncedInv'
<1>1. UNCHANGED <<fired, revFired, intentVars>>
  BY DEF Ingest
<1>2. LiveIsValid'
  BY DEF AnnouncedInv, LiveIsValid, Ingest, Mismatch, TypeOK
<1>. QED BY <1>1, <1>2 DEF AnnouncedInv, ClaimsAreTold, StandsAnnounced

LEMMA SweepKeepsAnnounced ==
  ASSUME ConstantsOK, OnePaymentPerTx, TypeOK, AnnouncedInv,
         NEW sent \in SUBSET Unfired, BeginReconcile(sent)
  PROVE  AnnouncedInv'
<1>1. /\ UNCHANGED <<status, revFired, istatus, matched, revLost>>
      /\ \A l \in Logs : fired'[l] = (fired[l] \/ l \in sent)
      /\ \A i \in Intents : told'[i] = told[i] \cup {e \in {"completed"} : \E l \in sent : IntentOf[l] = i}
  BY DEF BeginReconcile
<1>2. ClaimsAreTold'
  BY <1>1 DEF AnnouncedInv, ClaimsAreTold, ConstantsOK
<1>3. ASSUME NEW i \in Intents PROVE StandsAnnounced(i)'
  <2>1. CASE "completed" \in told[i]
    <3>1. told[i] \subseteq told'[i]
      BY <1>1
    <3>2. \A k \in Valid : fired[k] => fired'[k]
      BY <1>1 DEF ConstantsOK
    <3>3. StandsAnnounced(i)
      BY DEF AnnouncedInv
    <3>. QED BY <1>1, <2>1, <3>1, <3>2, <3>3 DEF StandsAnnounced
  <2>2. CASE "completed" \notin told[i] /\ \E l \in sent : IntentOf[l] = i
    <3>1. PICK l \in sent : IntentOf[l] = i
      BY <2>2
    <3>2. /\ l \in Logs /\ status[l] = "final" /\ ~revFired[l]
          /\ istatus[i] = "paid" /\ matched[i] = TxOf[l] /\ i # NoIntent
      BY <3>1 DEF Unfired, ConstantsOK
    <3>3. l \in Valid
      BY <3>1, <3>2 DEF AnnouncedInv, LiveIsValid
    <3>4. \A k \in Valid : IntentOf[k] = i /\ TxOf[k] = matched[i] => k = l
      BY <3>1, <3>2, <3>3 DEF OnePaymentPerTx
    <3>. QED BY <1>1, <3>1, <3>2, <3>4 DEF StandsAnnounced
  <2>3. CASE "completed" \notin told[i] /\ ~\E l \in sent : IntentOf[l] = i
    BY <2>3, <1>1 DEF StandsAnnounced
  <2>. QED BY <2>1, <2>2, <2>3
<1>. QED BY <1>1, <1>2, <1>3 DEF AnnouncedInv, LiveIsValid

LEMMA FinalizeKeepsAnnounced ==
  ASSUME ConstantsOK, OnePaymentPerTx, TypeOK, AnnouncedInv, NEW l \in Logs, NEW ok \in BOOLEAN,
         FinalizeRow(l, ok)
  PROVE  AnnouncedInv'
<1>. DEFINE i == IntentOf[l]
<1>1. /\ UNCHANGED <<revFired, revLost>> /\ status[l] = "pending"
      /\ \A k \in Logs \ {l} : status'[k] = status[k]
  BY DEF FinalizeRow, TypeOK
<1>2. LiveIsValid'
  BY <1>1 DEF AnnouncedInv, LiveIsValid
<1>3. CASE i # NoIntent /\ istatus[i] \in Payable /\ l \in Valid
  <2>1. i \in Intents /\ istatus[i] # "paid"
    BY <1>3 DEF ConstantsOK, Payable
  <2>2. /\ istatus' = [istatus EXCEPT ![i] = "paid"]
        /\ matched' = [matched EXCEPT ![i] = TxOf[l]]
        /\ fired' = [fired EXCEPT ![l] = @ \/ ok]
        /\ told' = [told EXCEPT ![i] = @ \cup {e \in {"completed"} : ok /\ ~fired[l]}]
    BY <1>3 DEF FinalizeRow
  <2>3. \A j \in Intents : told[j] \subseteq told'[j]
    BY <2>1, <2>2 DEF TypeOK
  <2>4. ok /\ ~fired[l] => "completed" \in told'[i]
    BY <2>1, <2>2 DEF TypeOK
  <2>5. \A k \in Logs : fired'[k] => fired[k] \/ (k = l /\ ok)
    BY <2>2 DEF TypeOK
  <2>6. ClaimsAreTold'
    BY <1>1, <2>3, <2>4, <2>5 DEF AnnouncedInv, ClaimsAreTold, ConstantsOK
  <2>7. ASSUME NEW j \in Intents \ {i} PROVE StandsAnnounced(j)'
    <3>1. UNCHANGED <<istatus[j], matched[j], told[j]>>
      BY <2>1, <2>2 DEF TypeOK
    <3>2. \A k \in Valid : IntentOf[k] = j => fired'[k] = fired[k]
      BY <2>2 DEF TypeOK, ConstantsOK
    <3>. QED BY <3>1, <3>2, <1>1 DEF AnnouncedInv, StandsAnnounced
  <2>8. ASSUME "completed" \in told'[i], "reversed" \notin told'[i], i \notin revLost
        PROVE  /\ istatus'[i] = "paid"
               /\ \A k \in Valid : IntentOf[k] = i /\ TxOf[k] = matched'[i] => fired'[k] /\ ~revFired'[k]
    <3>1. istatus'[i] = "paid" /\ matched'[i] = TxOf[l]
      BY <2>1, <2>2 DEF TypeOK
    <3>2. "completed" \notin told[i]
      BY <2>1, <2>3, <2>8 DEF AnnouncedInv, StandsAnnounced
    <3>3. fired'[l] /\ ~revFired[l]
      <4>1. ok /\ ~fired[l]
        BY <2>1, <2>2, <2>8, <3>2 DEF TypeOK
      <4>2. fired'[l]
        BY <2>2, <4>1 DEF TypeOK
      <4>3. ~revFired[l]
        BY <1>3, <3>2 DEF AnnouncedInv, ClaimsAreTold
      <4>. QED BY <4>2, <4>3
    <3>4. \A k \in Valid : IntentOf[k] = i /\ TxOf[k] = TxOf[l] => k = l
      BY <1>3 DEF OnePaymentPerTx
    <3>. QED BY <1>1, <3>1, <3>3, <3>4
  <2>. QED BY <1>1, <1>2, <2>6, <2>7, <2>8 DEF AnnouncedInv, StandsAnnounced
<1>4. CASE ~(i # NoIntent /\ istatus[i] \in Payable /\ l \in Valid)
  <2>1. UNCHANGED <<istatus, matched, fired, told>>
    BY <1>4 DEF FinalizeRow
  <2>. QED BY <1>1, <1>2, <2>1 DEF AnnouncedInv, ClaimsAreTold, StandsAnnounced
<1>. QED BY <1>3, <1>4

LEMMA ReverseKeepsAnnounced ==
  ASSUME ConstantsOK, TypeOK, TodoIsLive, AnnouncedInv, NEW l \in Logs, NEW truth \in BOOLEAN,
         NEW ok \in BOOLEAN, ReverseRow(l, truth, ok)
  PROVE  AnnouncedInv'
<1>. DEFINE i == IntentOf[l]
<1>1. i # NoIntent => l \in Valid
  BY DEF ReverseRow, Examine, TodoIsLive, AnnouncedInv, LiveIsValid
<1>2. /\ fired' = fired
      /\ \A k \in Logs : revFired'[k] = (revFired[k] \/ (k = l /\ Tells(l) /\ ok))
      /\ \A k \in Logs : status'[k] = IF k = l THEN "reorged" ELSE status[k]
  BY DEF ReverseRow, TypeOK
<1>3. \A j \in Intents :
        /\ told'[j] = told[j] \cup {e \in {"reversed"} : j = i /\ Tells(l) /\ ok}
        /\ j \in revLost' <=> j \in revLost \/ (j = i /\ Tells(l) /\ ~ok)
        /\ ~(j = i /\ Unpays(l)) => UNCHANGED <<istatus[j], matched[j]>>
  BY DEF ReverseRow
<1>4. LiveIsValid'
  BY <1>2 DEF AnnouncedInv, LiveIsValid
<1>5. ClaimsAreTold'
  <2>1. ASSUME NEW k \in Logs, IntentOf[k] # NoIntent
        PROVE  /\ fired[k] => "completed" \in told'[IntentOf[k]]
               /\ revFired'[k] => {"completed", "reversed"} \subseteq told'[IntentOf[k]]
    <3>1. IntentOf[k] \in Intents
      BY <2>1 DEF ConstantsOK
    <3>2. told[IntentOf[k]] \subseteq told'[IntentOf[k]]
      BY <3>1, <1>3
    <3>3. CASE k = l /\ Tells(l) /\ ok
      <4>1. "reversed" \in told'[IntentOf[k]]
        BY <3>1, <3>3, <1>3
      <4>2. fired[k]
        BY <3>3 DEF Tells
      <4>. QED BY <4>1, <4>2, <3>2, <2>1 DEF AnnouncedInv, ClaimsAreTold
    <3>4. CASE ~(k = l /\ Tells(l) /\ ok)
      <4>1. revFired'[k] = revFired[k]
        BY <3>4, <1>2 DEF TypeOK
      <4>. QED BY <4>1, <3>2, <2>1 DEF AnnouncedInv, ClaimsAreTold
    <3>. QED BY <3>3, <3>4
  <2>. QED BY <2>1, <1>2 DEF ClaimsAreTold
<1>6. ASSUME NEW j \in Intents PROVE StandsAnnounced(j)'
  <2>1. CASE j = i /\ Unpays(l)
    <3>1. ~("completed" \in told'[j] /\ "reversed" \notin told'[j] /\ j \notin revLost')
      BY <2>1, <1>1, <1>3 DEF AnnouncedInv, StandsAnnounced, Unpays, Tells, ConstantsOK
    <3>. QED BY <3>1 DEF StandsAnnounced
  <2>2. CASE ~(j = i /\ Unpays(l))
    <3>1. UNCHANGED <<istatus[j], matched[j]>>
      BY <2>2, <1>3
    <3>2. \A k \in Valid : IntentOf[k] = j /\ TxOf[k] = matched[j] => revFired'[k] = revFired[k]
      BY <2>2, <1>2 DEF Unpays, ConstantsOK, TypeOK
    <3>. QED BY <3>1, <3>2, <1>2, <1>3 DEF AnnouncedInv, StandsAnnounced
  <2>. QED BY <2>1, <2>2
<1>. QED BY <1>4, <1>5, <1>6 DEF AnnouncedInv

LEMMA NextKeepsAnnounced ==
  ASSUME ConstantsOK, OnePaymentPerTx, TypeOK, TodoIsLive, AnnouncedInv, [Next]_vars
  PROVE  AnnouncedInv'
<1>1. CASE UNCHANGED vars \/ ChainStep \/ Restart \/ TickFails \/ (\E tag \in -1..finalized : TickBegin(tag))
  BY <1>1, AnnouncedUntouched
     DEF vars, ChainStep, Mine, Reorg, AdvanceFinality, Restart, TickFails, TickBegin
<1>2. CASE IntentStep
  BY <1>2, IntentKeepsAnnounced
<1>3. CASE \E sent \in SUBSET Unfired : BeginReconcile(sent)
  BY <1>3, SweepKeepsAnnounced
<1>4. CASE \E l \in Logs : RowStep(l)
  <2>1. PICK l \in Logs : RowStep(l)
    BY <1>4
  <2>2. CASE Ingest(l)
    BY <2>2, IngestKeepsAnnounced
  <2>3. CASE \E ok \in BOOLEAN : FinalizeRow(l, ok)
    BY <2>3, FinalizeKeepsAnnounced
  <2>4. CASE \E truth, ok \in BOOLEAN : ReverseRow(l, truth, ok)
    BY <2>4, ReverseKeepsAnnounced
  <2>5. CASE KeepRow(l) \/ (\E truth \in BOOLEAN : SuspectReorg(l, truth))
                        \/ (\E truth \in BOOLEAN : ReverseConflict(l, truth))
    BY <2>5, AnnouncedUntouched DEF KeepRow, SuspectReorg, ReverseConflict
  <2>. QED BY <2>1, <2>2, <2>3, <2>4, <2>5 DEF RowStep
<1>. QED BY <1>1, <1>2, <1>3, <1>4 DEF Next, WatcherStep

LEMMA AnnouncedHolds == ASSUME OnePaymentPerTx PROVE Spec => []AnnouncedInv
<1>1. Init => AnnouncedInv
  BY DEF Init, AnnouncedInv, ClaimsAreTold, LiveIsValid, StandsAnnounced
<1>2. TypeOK /\ TodoIsLive /\ AnnouncedInv /\ [Next]_vars => AnnouncedInv'
  BY NextKeepsAnnounced, ConstantsOK, OnePaymentPerTx
<1>. QED BY <1>1, <1>2, TypeCorrect, TodoStaysLive, PTL DEF Spec

\* When no transaction pays one invoice twice, a merchant who was told
\* payment.completed and whose invoice is no longer paid was told
\* payment.reversed, or that one dispatch raised.
THEOREM UnpaidPaymentsAreRetracted == ASSUME OnePaymentPerTx PROVE Spec => []UnpaidIsRetracted
<1>1. AnnouncedInv => UnpaidIsRetracted
  BY DEF AnnouncedInv, StandsAnnounced, UnpaidIsRetracted
<1>. QED BY <1>1, AnnouncedHolds, OnePaymentPerTx, PTL
=============================================================================
