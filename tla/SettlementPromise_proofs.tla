------------------------ MODULE SettlementPromise_proofs ------------------------
(***************************************************************************)
(* More about the payment indexer, on top of SettlementIndexer_proofs: what *)
(* it retracts, what it never strands when it waits for the finalized tag,  *)
(* and that it keeps PaymentPromise.                                        *)
(***************************************************************************)
EXTENDS SettlementIndexer_proofs

USE DEF chainVars, rowVars, watchVars, suspectVars, intentVars

-----------------------------------------------------------------------------
(* A retraction follows an announcement.                                   *)

ClaimInv == ClaimsAreTold /\ RetractsOnlyWhatWasTold

LEMMA ClaimsUntouched ==
  ASSUME ClaimInv, UNCHANGED <<fired, revFired, told>> PROVE ClaimInv'
BY DEF ClaimInv, ClaimsAreTold, RetractsOnlyWhatWasTold

LEMMA SweepKeepsClaims ==
  ASSUME ConstantsOK, TypeOK, ClaimInv, NEW sent \in SUBSET Unfired, BeginReconcile(sent)
  PROVE  ClaimInv'
<1>1. /\ revFired' = revFired
      /\ \A l \in Logs : fired'[l] = (fired[l] \/ l \in sent)
      /\ \A i \in Intents : told'[i] = told[i] \cup {e \in {"completed"} : \E l \in sent : IntentOf[l] = i}
  BY DEF BeginReconcile
<1>2. ClaimsAreTold'
  BY <1>1 DEF ClaimInv, ClaimsAreTold, ConstantsOK
<1>3. RetractsOnlyWhatWasTold'
  BY <1>1 DEF ClaimInv, RetractsOnlyWhatWasTold
<1>. QED BY <1>2, <1>3 DEF ClaimInv

LEMMA FinalizeKeepsClaims ==
  ASSUME ConstantsOK, TypeOK, ClaimInv, NEW l \in Logs, NEW ok \in BOOLEAN, FinalizeRow(l, ok)
  PROVE  ClaimInv'
<1>. DEFINE i == IntentOf[l]
<1>1. CASE i # NoIntent /\ istatus[i] \in Payable /\ l \in Valid
  <2>1. i \in Intents
    BY <1>1 DEF ConstantsOK
  <2>2. /\ revFired' = revFired
        /\ fired' = [fired EXCEPT ![l] = @ \/ ok]
        /\ told' = [told EXCEPT ![i] = @ \cup {e \in {"completed"} : ok /\ ~fired[l]}]
    BY <1>1 DEF FinalizeRow
  <2>3. \A j \in Intents : told[j] \subseteq told'[j] /\ told'[j] \subseteq told[j] \cup {"completed"}
    BY <2>1, <2>2 DEF TypeOK
  <2>4. ok /\ ~fired[l] => "completed" \in told'[i]
    BY <2>1, <2>2 DEF TypeOK
  <2>5. \A k \in Logs : fired'[k] => fired[k] \/ (k = l /\ ok)
    BY <2>2 DEF TypeOK
  <2>6. ClaimsAreTold'
    BY <2>2, <2>3, <2>4, <2>5 DEF ClaimInv, ClaimsAreTold, ConstantsOK
  <2>7. RetractsOnlyWhatWasTold'
    BY <2>3 DEF ClaimInv, RetractsOnlyWhatWasTold
  <2>. QED BY <2>6, <2>7 DEF ClaimInv
<1>2. CASE ~(i # NoIntent /\ istatus[i] \in Payable /\ l \in Valid)
  <2>1. UNCHANGED <<fired, revFired, told>>
    BY <1>2 DEF FinalizeRow
  <2>. QED BY <2>1, ClaimsUntouched
<1>. QED BY <1>1, <1>2

\* The claim on a reversal is taken only where the announcement's claim stands.
LEMMA ReverseKeepsClaims ==
  ASSUME ConstantsOK, TypeOK, ClaimInv, NEW l \in Logs, NEW truth \in BOOLEAN,
         NEW ok \in BOOLEAN, ReverseRow(l, truth, ok)
  PROVE  ClaimInv'
<1>. DEFINE i == IntentOf[l]
<1>1. /\ fired' = fired
      /\ \A k \in Logs : revFired'[k] = (revFired[k] \/ (k = l /\ Tells(l) /\ ok))
  BY DEF ReverseRow, TypeOK
<1>2. \A j \in Intents : told'[j] = told[j] \cup {e \in {"reversed"} : j = i /\ Tells(l) /\ ok}
  BY DEF ReverseRow
<1>3. Tells(l) => i \in Intents /\ "completed" \in told[i]
  BY DEF Tells, ClaimInv, ClaimsAreTold, ConstantsOK
<1>4. RetractsOnlyWhatWasTold'
  BY <1>2, <1>3 DEF ClaimInv, RetractsOnlyWhatWasTold
<1>5. ASSUME NEW k \in Logs, IntentOf[k] # NoIntent
      PROVE  /\ fired[k] => "completed" \in told'[IntentOf[k]]
             /\ revFired'[k] => {"completed", "reversed"} \subseteq told'[IntentOf[k]]
  <2>1. IntentOf[k] \in Intents
    BY <1>5 DEF ConstantsOK
  <2>2. told[IntentOf[k]] \subseteq told'[IntentOf[k]]
    BY <2>1, <1>2
  <2>3. CASE k = l /\ Tells(l) /\ ok
    BY <2>3, <2>1, <2>2, <1>2, <1>3
  <2>4. CASE ~(k = l /\ Tells(l) /\ ok)
    <3>1. revFired'[k] => revFired[k]
      BY <2>4, <1>1
    <3>. QED BY <3>1, <2>2, <1>5 DEF ClaimInv, ClaimsAreTold
  <2>. QED BY <2>3, <2>4
<1>. QED BY <1>1, <1>4, <1>5 DEF ClaimInv, ClaimsAreTold

LEMMA NextKeepsClaims == ASSUME ConstantsOK, TypeOK, ClaimInv, [Next]_vars PROVE ClaimInv'
<1>1. CASE UNCHANGED vars \/ ChainStep \/ IntentStep \/ Restart \/ TickFails
             \/ (\E tag \in -1..finalized : TickBegin(tag))
  BY <1>1, ClaimsUntouched
     DEF vars, ChainStep, Mine, Reorg, AdvanceFinality, IntentStep, Create, Expire, Cancel,
         Resolve, SetStatus, Restart, TickFails, TickBegin
<1>2. CASE \E sent \in SUBSET Unfired : BeginReconcile(sent)
  BY <1>2, SweepKeepsClaims
<1>3. CASE \E l \in Logs : RowStep(l)
  <2>1. PICK l \in Logs : RowStep(l)
    BY <1>3
  <2>2. CASE \E ok \in BOOLEAN : FinalizeRow(l, ok)
    BY <2>2, FinalizeKeepsClaims
  <2>3. CASE \E truth, ok \in BOOLEAN : ReverseRow(l, truth, ok)
    BY <2>3, ReverseKeepsClaims
  <2>4. CASE Ingest(l) \/ KeepRow(l) \/ (\E truth \in BOOLEAN : SuspectReorg(l, truth))
               \/ (\E truth \in BOOLEAN : ReverseConflict(l, truth))
    BY <2>4, ClaimsUntouched DEF Ingest, KeepRow, SuspectReorg, ReverseConflict
  <2>. QED BY <2>1, <2>2, <2>3, <2>4 DEF RowStep
<1>. QED BY <1>1, <1>2, <1>3 DEF Next, WatcherStep

LEMMA ClaimsHold == Spec => []ClaimInv
<1>1. Init => ClaimInv
  BY DEF Init, ClaimInv, ClaimsAreTold, RetractsOnlyWhatWasTold
<1>2. TypeOK /\ ClaimInv /\ [Next]_vars => ClaimInv'
  BY NextKeepsClaims, ConstantsOK
<1>. QED BY <1>1, <1>2, TypeCorrect, PTL DEF Spec

\* payment.reversed never reaches a merchant who was not told payment.completed,
\* whatever a transaction contains and however dispatches fail.
THEOREM RetractionsFollowAnnouncements == Spec => []RetractsOnlyWhatWasTold
<1>1. ClaimInv => RetractsOnlyWhatWasTold
  BY DEF ClaimInv
<1>. QED BY <1>1, ClaimsHold, PTL

-----------------------------------------------------------------------------
(* Nothing on record is about an invoice that does not exist yet.          *)

OnRecord ==
  \A l \in Logs : IntentOf[l] # NoIntent /\ (at[l] # 0 \/ status[l] # "none")
                    => istatus[IntentOf[l]] # "absent"

LEMMA RecordUntouched ==
  ASSUME OnRecord, UNCHANGED <<at, status, istatus>> PROVE OnRecord'
BY DEF OnRecord

LEMMA ChainKeepsRecord == ASSUME ConstantsOK, TypeOK, OnRecord, ChainStep PROVE OnRecord'
<1>1. ASSUME NEW S \in SUBSET Logs, Mine(S) PROVE OnRecord'
  BY <1>1 DEF OnRecord, Mine
<1>2. ASSUME NEW h \in Heights, Reorg(h) PROVE OnRecord'
  <2>1. ASSUME NEW l \in Logs, at'[l] # 0 PROVE at[l] # 0
    <3>1. at[l] >= h \/ at'[l] = at[l]
      BY <1>2 DEF Reorg
    <3>2. h \in Int /\ h > 0 /\ at[l] \in Int
      BY DEF Heights, TypeOK, ConstantsOK
    <3>. QED BY <2>1, <3>1, <3>2
  <2>. QED BY <1>2, <2>1 DEF OnRecord, Reorg
<1>3. ASSUME NEW h \in Heights, AdvanceFinality(h) PROVE OnRecord'
  BY <1>3 DEF OnRecord, AdvanceFinality
<1>. QED BY <1>1, <1>2, <1>3 DEF ChainStep

LEMMA NextKeepsRecord ==
  ASSUME ConstantsOK, TypeOK, TodoIsLive, OnRecord, [Next]_vars PROVE OnRecord'
<1>1. CASE UNCHANGED vars \/ Restart \/ TickFails \/ (\E tag \in -1..finalized : TickBegin(tag))
             \/ (\E sent \in SUBSET Unfired : BeginReconcile(sent))
  BY <1>1, RecordUntouched DEF vars, Restart, TickFails, TickBegin, BeginReconcile
<1>2. CASE IntentStep
  <2>1. PICK i \in Intents : Create(i) \/ Expire(i) \/ Cancel(i) \/ Resolve(i)
    BY <1>2 DEF IntentStep
  <2>2. istatus'[i] # "absent" /\ \A j \in Intents \ {i} : istatus'[j] = istatus[j]
    BY <2>1 DEF Create, Expire, Cancel, Resolve, SetStatus, TypeOK
  <2>3. UNCHANGED <<at, status>>
    BY <2>1 DEF Create, Expire, Cancel, Resolve, SetStatus
  <2>. QED BY <2>2, <2>3 DEF OnRecord, ConstantsOK
<1>3. CASE \E l \in Logs : RowStep(l)
  <2>1. PICK l \in Logs : RowStep(l)
    BY <1>3
  <2>2. CASE Ingest(l)
    BY <2>2 DEF Ingest, OnRecord, TypeOK
  <2>3. ASSUME NEW ok \in BOOLEAN, FinalizeRow(l, ok) PROVE OnRecord'
    <3>1. \A j \in Intents : istatus'[j] = istatus[j] \/ istatus'[j] = "paid"
      BY <2>3 DEF FinalizeRow, TypeOK
    <3>2. at' = at /\ status[l] # "none" /\ \A k \in Logs \ {l} : status'[k] = status[k]
      BY <2>3 DEF FinalizeRow, TypeOK
    <3>. QED BY <3>1, <3>2 DEF OnRecord, ConstantsOK
  <2>4. ASSUME NEW truth \in BOOLEAN, NEW ok \in BOOLEAN, ReverseRow(l, truth, ok)
        PROVE  OnRecord'
    <3>1. \A j \in Intents : istatus'[j] = istatus[j] \/ istatus'[j] = "pending"
      BY <2>4 DEF ReverseRow
    <3>2. at' = at /\ status[l] # "none" /\ \A k \in Logs \ {l} : status'[k] = status[k]
      BY <2>4 DEF ReverseRow, Examine, TodoIsLive, TypeOK
    <3>. QED BY <3>1, <3>2 DEF OnRecord, ConstantsOK
  <2>5. CASE KeepRow(l) \/ (\E truth \in BOOLEAN : SuspectReorg(l, truth))
               \/ (\E truth \in BOOLEAN : ReverseConflict(l, truth))
    BY <2>5, RecordUntouched DEF KeepRow, SuspectReorg, ReverseConflict
  <2>. QED BY <2>1, <2>2, <2>3, <2>4, <2>5 DEF RowStep
<1>. QED BY <1>1, <1>2, <1>3, ChainKeepsRecord DEF Next, WatcherStep

LEMMA RecordHolds == Spec => []OnRecord
<1>1. Init => OnRecord
  BY DEF Init, OnRecord
<1>2. TypeOK /\ TodoIsLive /\ OnRecord /\ [Next]_vars => OnRecord'
  BY NextKeepsRecord, ConstantsOK
<1>. QED BY <1>1, <1>2, TypeCorrect, TodoStaysLive, PTL DEF Spec

-----------------------------------------------------------------------------
(* With the finalized tag a row is final only at or below the height that   *)
(* the chain has finalized, where no block is replaced any more.            *)

TagGate ==
  mode = "tag" =>
    /\ finalHead =< finalized
    /\ \A l \in Logs : status[l] = "final" => rowH[l] =< finalized /\ Canonical(l)

LEMMA GateUntouched ==
  ASSUME TagGate, UNCHANGED <<mode, finalHead, finalized, status, rowH, rowV, ver>>
  PROVE  TagGate'
BY DEF TagGate, Canonical

LEMMA ChainKeepsGate ==
  ASSUME ConstantsOK, TypeOK, RowHasBlock, TagGate, ChainStep PROVE TagGate'
<1>1. ASSUME NEW S \in SUBSET Logs, Mine(S) PROVE TagGate'
  BY <1>1, GateUntouched DEF Mine
<1>2. ASSUME NEW h \in Heights, Reorg(h) PROVE TagGate'
  <2>1. UNCHANGED <<mode, finalHead, finalized, status, rowH, rowV>> /\ finalized < h
    BY <1>2 DEF Reorg
  <2>2. ASSUME NEW l \in Logs, status[l] = "final", rowH[l] =< finalized
        PROVE  ver'[rowH[l]] = ver[rowH[l]]
    <3>1. rowH[l] \in Heights /\ rowH[l] \in Int /\ h \in Int /\ finalized \in Int
      BY <2>2 DEF RowHasBlock, Heights, TypeOK, ConstantsOK
    <3>2. ~(rowH[l] >= h)
      BY <2>1, <2>2, <3>1
    <3>. QED BY <1>2, <3>1, <3>2 DEF Reorg
  <2>. QED BY <2>1, <2>2 DEF TagGate, Canonical
<1>3. ASSUME NEW h \in Heights, AdvanceFinality(h) PROVE TagGate'
  <2>1. \A n \in Int : n =< finalized => n =< finalized'
    BY <1>3 DEF AdvanceFinality, Heights, TypeOK, ConstantsOK
  <2>2. finalHead \in Int /\ \A l \in Logs : rowH[l] \in Int
    BY DEF TypeOK
  <2>. QED BY <1>3, <2>1, <2>2 DEF TagGate, Canonical, AdvanceFinality
<1>. QED BY <1>1, <1>2, <1>3 DEF ChainStep

LEMMA NextKeepsGate ==
  ASSUME ConstantsOK, TypeOK, EvidenceInv, TagGate, [Next]_vars PROVE TagGate'
<1>1. CASE UNCHANGED vars \/ IntentStep \/ TickFails \/ (\E sent \in SUBSET Unfired : BeginReconcile(sent))
  BY <1>1, GateUntouched
     DEF vars, IntentStep, Create, Expire, Cancel, Resolve, SetStatus, TickFails, BeginReconcile
<1>2. CASE ChainStep
  BY <1>2, ChainKeepsGate DEF EvidenceInv
<1>3. CASE (\E tag \in -1..finalized : TickBegin(tag)) \/ Restart
  <2>1. UNCHANGED <<mode, finalized, status, rowH, rowV, ver>>
    BY <1>3 DEF TickBegin, Restart
  <2>2. mode = "tag" => finalHead' =< finalized
    BY <1>3 DEF TickBegin, GateHead, Restart, TypeOK, ConstantsOK
  <2>. QED BY <2>1, <2>2 DEF TagGate, Canonical
<1>4. CASE \E l \in Logs : RowStep(l)
  <2>1. PICK l \in Logs : RowStep(l)
    BY <1>4
  <2>2. CASE Ingest(l)
    <3>1. status'[l] # "final" /\ \A k \in Logs \ {l} : UNCHANGED <<status[k], rowH[k], rowV[k]>>
      BY <2>2 DEF Ingest, TypeOK
    <3>. QED BY <2>2, <3>1 DEF Ingest, TagGate, Canonical
  <2>3. ASSUME NEW ok \in BOOLEAN, FinalizeRow(l, ok) PROVE TagGate'
    <3>1. UNCHANGED <<mode, finalHead, finalized, rowH, rowV, ver>>
      BY <2>3 DEF FinalizeRow
    <3>2. Canonical(l) /\ rowH[l] =< finalHead /\ \A k \in Logs \ {l} : status'[k] = status[k]
      BY <2>3 DEF FinalizeRow, TypeOK
    <3>3. rowH[l] \in Int /\ finalHead \in Int /\ finalized \in Int
      BY DEF TypeOK, ConstantsOK
    <3>. QED BY <3>1, <3>2, <3>3 DEF TagGate, Canonical
  <2>4. ASSUME NEW truth \in BOOLEAN, NEW ok \in BOOLEAN, ReverseRow(l, truth, ok)
        PROVE  TagGate'
    <3>1. UNCHANGED <<mode, finalHead, finalized, rowH, rowV, ver>>
      BY <2>4 DEF ReverseRow
    <3>2. \A k \in Logs : status'[k] = "final" => status[k] = "final"
      BY <2>4 DEF ReverseRow, TypeOK
    <3>. QED BY <3>1, <3>2 DEF TagGate, Canonical
  <2>5. CASE KeepRow(l) \/ (\E truth \in BOOLEAN : SuspectReorg(l, truth))
               \/ (\E truth \in BOOLEAN : ReverseConflict(l, truth))
    BY <2>5, GateUntouched DEF KeepRow, SuspectReorg, ReverseConflict
  <2>. QED BY <2>1, <2>2, <2>3, <2>4, <2>5 DEF RowStep
<1>. QED BY <1>1, <1>2, <1>3, <1>4 DEF Next, WatcherStep

LEMMA GateHolds == Spec => []TagGate
<1>1. Init => TagGate
  BY DEF Init, TagGate
<1>2. TypeOK /\ EvidenceInv /\ TagGate /\ [Next]_vars => TagGate'
  BY NextKeepsGate, ConstantsOK
<1>. QED BY <1>1, <1>2, TypeCorrect, EvidenceHolds, PTL DEF Spec

-----------------------------------------------------------------------------
(* A final row never leaves its invoice waiting.                           *)

TagSettles ==
  mode = "tag" =>
    \A l \in Valid : status[l] = "final" /\ IntentOf[l] # NoIntent
                       => istatus[IntentOf[l]] \notin Payable

LEMMA SettlesUntouched ==
  ASSUME TagSettles, UNCHANGED <<mode, status, istatus>> PROVE TagSettles'
BY DEF TagSettles

LEMMA IntentKeepsSettles ==
  ASSUME ConstantsOK, TypeOK, OnRecord, TagSettles, IntentStep PROVE TagSettles'
<1>1. PICK i \in Intents : Create(i) \/ Expire(i) \/ Cancel(i) \/ Resolve(i)
  BY DEF IntentStep
<1>2. UNCHANGED <<mode, status>> /\ \A j \in Intents \ {i} : istatus'[j] = istatus[j]
  BY <1>1 DEF Create, Expire, Cancel, Resolve, SetStatus, TypeOK
<1>3. istatus[i] = "absent" \/ istatus[i] \in Payable
  BY <1>1 DEF Create, Expire, Cancel, Resolve, Payable
<1>4. ASSUME mode = "tag", NEW l \in Valid, status[l] = "final", IntentOf[l] # NoIntent
      PROVE  IntentOf[l] # i
  BY <1>3, <1>4 DEF OnRecord, TagSettles, ConstantsOK
<1>. QED BY <1>2, <1>4 DEF TagSettles, ConstantsOK

LEMMA FinalizeKeepsSettles ==
  ASSUME ConstantsOK, TypeOK, TagSettles, NEW l \in Logs, NEW ok \in BOOLEAN, FinalizeRow(l, ok)
  PROVE  TagSettles'
<1>. DEFINE i == IntentOf[l]
<1>1. mode' = mode /\ \A k \in Logs \ {l} : status'[k] = status[k]
  BY DEF FinalizeRow, TypeOK
<1>2. \A j \in Intents : istatus'[j] = istatus[j] \/ istatus'[j] = "paid"
  BY DEF FinalizeRow, TypeOK
<1>3. "paid" \notin Payable
  BY DEF Payable
<1>4. ASSUME i # NoIntent, l \in Valid PROVE istatus'[i] \notin Payable
  <2>1. i \in Intents
    BY <1>4 DEF ConstantsOK
  <2>2. CASE istatus[i] \in Payable
    BY <2>1, <2>2, <1>3, <1>4 DEF FinalizeRow, TypeOK
  <2>3. CASE istatus[i] \notin Payable
    BY <2>1, <2>3, <1>2, <1>3
  <2>. QED BY <2>2, <2>3
<1>5. ASSUME mode = "tag", NEW k \in Valid, k # l, status[k] = "final", IntentOf[k] # NoIntent
      PROVE  istatus'[IntentOf[k]] \notin Payable
  <2>1. IntentOf[k] \in Intents /\ istatus[IntentOf[k]] \notin Payable
    BY <1>5 DEF TagSettles, ConstantsOK
  <2>. QED BY <2>1, <1>2, <1>3
<1>. QED BY <1>1, <1>4, <1>5 DEF TagSettles, ConstantsOK

\* The row that un-pays an invoice is the one that paid it, and that row is final:
\* with the tag it cannot be reversed.
LEMMA ReverseKeepsSettles ==
  ASSUME ConstantsOK, OnePaymentPerTx, TypeOK, TodoIsLive, PaidIsBacked, EvidenceInv,
         LiveIsValid, TagGate, TagSettles, [Next]_vars,
         NEW l \in Logs, NEW truth \in BOOLEAN, NEW ok \in BOOLEAN, ReverseRow(l, truth, ok)
  PROVE  TagSettles'
<1>. DEFINE i == IntentOf[l]
<1>1. status[l] \in {"pending", "final"} /\ status'[l] = "reorged"
  BY DEF ReverseRow, Examine, TodoIsLive, TypeOK
<1>2. mode' = mode /\ \A k \in Logs : status'[k] = "final" => status[k] = "final"
  BY DEF ReverseRow, TypeOK
<1>3. ASSUME mode = "tag" PROVE ~Unpays(l)
  <2>. SUFFICES ASSUME Unpays(l) PROVE FALSE
    OBVIOUS
  <2>1. i \in Intents /\ matched[i] = TxOf[l] /\ matched[i] # NoTx /\ l \in Valid
    BY <1>1 DEF Unpays, LiveIsValid, ConstantsOK
  <2>2. PICK k \in Valid : IntentOf[k] = i /\ TxOf[k] = matched[i] /\ status[k] = "final"
    BY <2>1 DEF PaidIsBacked
  <2>3. k = l
    BY <2>1, <2>2 DEF OnePaymentPerTx, ConstantsOK
  <2>4. ~Canonical(l)
    BY <1>1, <2>2, <2>3, FinalLeavesByReversal
  <2>. QED BY <1>3, <2>2, <2>3, <2>4 DEF TagGate
<1>4. ASSUME mode = "tag" PROVE \A j \in Intents : istatus'[j] = istatus[j]
  BY <1>3, <1>4 DEF ReverseRow
<1>. QED BY <1>2, <1>4 DEF TagSettles, ConstantsOK

LEMMA NextKeepsSettles ==
  ASSUME ConstantsOK, OnePaymentPerTx, TypeOK, TodoIsLive, PaidIsBacked, EvidenceInv,
         LiveIsValid, OnRecord, TagGate, TagSettles, [Next]_vars
  PROVE  TagSettles'
<1>1. CASE UNCHANGED vars \/ ChainStep \/ Restart \/ TickFails
             \/ (\E tag \in -1..finalized : TickBegin(tag))
             \/ (\E sent \in SUBSET Unfired : BeginReconcile(sent))
  BY <1>1, SettlesUntouched
     DEF vars, ChainStep, Mine, Reorg, AdvanceFinality, Restart, TickFails, TickBegin, BeginReconcile
<1>2. CASE IntentStep
  BY <1>2, IntentKeepsSettles
<1>3. CASE \E l \in Logs : RowStep(l)
  <2>1. PICK l \in Logs : RowStep(l)
    BY <1>3
  <2>2. CASE Ingest(l)
    <3>1. UNCHANGED <<mode, istatus>> /\ \A k \in Logs : status'[k] = "final" => status[k] = "final"
      BY <2>2 DEF Ingest, TypeOK
    <3>. QED BY <3>1 DEF TagSettles, ConstantsOK
  <2>3. CASE \E ok \in BOOLEAN : FinalizeRow(l, ok)
    BY <2>3, FinalizeKeepsSettles
  <2>4. CASE \E truth, ok \in BOOLEAN : ReverseRow(l, truth, ok)
    BY <2>4, ReverseKeepsSettles
  <2>5. CASE KeepRow(l) \/ (\E truth \in BOOLEAN : SuspectReorg(l, truth))
               \/ (\E truth \in BOOLEAN : ReverseConflict(l, truth))
    BY <2>5, SettlesUntouched DEF KeepRow, SuspectReorg, ReverseConflict
  <2>. QED BY <2>1, <2>2, <2>3, <2>4, <2>5 DEF RowStep
<1>. QED BY <1>1, <1>2, <1>3 DEF Next, WatcherStep

\* With the finalized tag, and when no transaction pays one invoice twice, a valid
\* canonical payment that is stamped final never leaves its invoice waiting: the
\* terminal no-op on a second settlement is right, because the first one stays.
THEOREM TagFinalsAreNeverStranded ==
  ASSUME OnePaymentPerTx PROVE Spec => []TagFinalIsNotStranded
<1>1. Init => TagSettles
  BY ConstantsOK DEF Init, TagSettles, ConstantsOK
<1>2. TypeOK /\ TodoIsLive /\ PaidIsBacked /\ EvidenceInv /\ AnnouncedInv
        /\ OnRecord /\ TagGate /\ TagSettles /\ [Next]_vars => TagSettles'
  BY NextKeepsSettles, ConstantsOK, OnePaymentPerTx DEF AnnouncedInv
<1>3. TagSettles => TagFinalIsNotStranded
  BY DEF TagSettles, TagFinalIsNotStranded, FinalIsNotStranded
<1>. QED BY <1>1, <1>2, <1>3, TypeCorrect, TodoStaysLive, PaidStaysBacked, EvidenceHolds,
           AnnouncedHolds, OnePaymentPerTx, RecordHolds, GateHolds, PTL DEF Spec

-----------------------------------------------------------------------------
(* The watcher keeps PaymentPromise.                                       *)

\* An announcement whose payment does not stand any more was retracted, or the
\* retraction was lost; and only a valid payment is announced.
EarnedClaims ==
  \A l \in Logs : IntentOf[l] # NoIntent /\ fired[l] =>
    /\ l \in Valid
    /\ ~revFired[l] /\ matched[IntentOf[l]] # TxOf[l] => IntentOf[l] \in revLost

LEMMA EarnedUntouched ==
  ASSUME EarnedClaims, UNCHANGED <<fired, revFired, matched, revLost>> PROVE EarnedClaims'
BY DEF EarnedClaims

LEMMA SweepKeepsEarned ==
  ASSUME ConstantsOK, LiveIsValid, EarnedClaims, NEW sent \in SUBSET Unfired, BeginReconcile(sent)
  PROVE  EarnedClaims'
<1>1. UNCHANGED <<revFired, matched, revLost>> /\ \A l \in Logs : fired'[l] = (fired[l] \/ l \in sent)
  BY DEF BeginReconcile
<1>2. \A l \in sent : /\ l \in Logs /\ l \in Valid
                      /\ matched[IntentOf[l]] = TxOf[l]
  BY DEF Unfired, LiveIsValid
<1>. QED BY <1>1, <1>2 DEF EarnedClaims

LEMMA FinalizeKeepsEarned ==
  ASSUME ConstantsOK, TypeOK, PaidIsBacked, EarnedClaims, NEW l \in Logs, NEW ok \in BOOLEAN,
         FinalizeRow(l, ok)
  PROVE  EarnedClaims'
<1>. DEFINE i == IntentOf[l]
<1>1. CASE i # NoIntent /\ istatus[i] \in Payable /\ l \in Valid
  <2>1. i \in Intents /\ matched[i] = NoTx
    BY <1>1 DEF PaidIsBacked, ConstantsOK, Payable
  <2>2. /\ UNCHANGED <<revFired, revLost>>
        /\ matched' = [matched EXCEPT ![i] = TxOf[l]]
        /\ fired' = [fired EXCEPT ![l] = @ \/ ok]
    BY <1>1 DEF FinalizeRow
  <2>3. ASSUME NEW k \in Logs, k # l, IntentOf[k] # NoIntent, fired'[k]
        PROVE  /\ k \in Valid
               /\ ~revFired'[k] /\ matched'[IntentOf[k]] # TxOf[k] => IntentOf[k] \in revLost'
    <3>1. fired[k] /\ IntentOf[k] \in Intents /\ TxOf[k] # NoTx
      BY <2>2, <2>3 DEF TypeOK, ConstantsOK
    <3>2. CASE IntentOf[k] = i
      BY <2>1, <2>2, <3>1, <3>2 DEF EarnedClaims
    <3>3. CASE IntentOf[k] # i
      BY <2>2, <3>1, <3>3 DEF EarnedClaims, TypeOK
    <3>. QED BY <3>2, <3>3
  <2>4. matched'[i] = TxOf[l]
    BY <2>1, <2>2 DEF TypeOK
  <2>. QED BY <1>1, <2>3, <2>4 DEF EarnedClaims
<1>2. CASE ~(i # NoIntent /\ istatus[i] \in Payable /\ l \in Valid)
  <2>1. UNCHANGED <<fired, revFired, matched, revLost>>
    BY <1>2 DEF FinalizeRow
  <2>. QED BY <2>1, EarnedUntouched
<1>. QED BY <1>1, <1>2

LEMMA ReverseKeepsEarned ==
  ASSUME ConstantsOK, OnePaymentPerTx, TypeOK, TodoIsLive, LiveIsValid, EarnedClaims,
         NEW l \in Logs, NEW truth \in BOOLEAN, NEW ok \in BOOLEAN, ReverseRow(l, truth, ok)
  PROVE  EarnedClaims'
<1>. DEFINE i == IntentOf[l]
<1>1. i # NoIntent => l \in Valid
  BY DEF ReverseRow, Examine, TodoIsLive, LiveIsValid
<1>2. /\ fired' = fired
      /\ \A k \in Logs : revFired'[k] = (revFired[k] \/ (k = l /\ Tells(l) /\ ok))
  BY DEF ReverseRow, TypeOK
<1>3. \A j \in Intents :
        /\ j \in revLost' <=> j \in revLost \/ (j = i /\ Tells(l) /\ ~ok)
        /\ ~(j = i /\ Unpays(l)) => matched'[j] = matched[j]
  BY DEF ReverseRow
<1>4. ASSUME NEW k \in Logs, IntentOf[k] # NoIntent, fired[k], ~revFired'[k],
             matched'[IntentOf[k]] # TxOf[k]
      PROVE  IntentOf[k] \in revLost'
  <2>1. IntentOf[k] \in Intents /\ k \in Valid /\ ~revFired[k]
    BY <1>2, <1>4 DEF EarnedClaims, ConstantsOK
  <2>2. CASE matched[IntentOf[k]] # TxOf[k]
    BY <1>3, <1>4, <2>1, <2>2 DEF EarnedClaims
  <2>3. CASE matched[IntentOf[k]] = TxOf[k]
    <3>1. IntentOf[k] = i /\ TxOf[l] = TxOf[k] /\ i # NoIntent
      BY <1>3, <1>4, <2>1, <2>3 DEF Unpays
    <3>2. k = l
      BY <1>1, <2>1, <3>1 DEF OnePaymentPerTx
    <3>. QED BY <1>2, <1>3, <1>4, <2>1, <3>1, <3>2 DEF Tells
  <2>. QED BY <2>2, <2>3
<1>. QED BY <1>2, <1>4 DEF EarnedClaims

LEMMA NextKeepsEarned ==
  ASSUME ConstantsOK, OnePaymentPerTx, TypeOK, TodoIsLive, PaidIsBacked, LiveIsValid,
         EarnedClaims, [Next]_vars
  PROVE  EarnedClaims'
<1>1. CASE UNCHANGED vars \/ ChainStep \/ IntentStep \/ Restart \/ TickFails
             \/ (\E tag \in -1..finalized : TickBegin(tag))
  BY <1>1, EarnedUntouched
     DEF vars, ChainStep, Mine, Reorg, AdvanceFinality, IntentStep, Create, Expire, Cancel,
         Resolve, SetStatus, Restart, TickFails, TickBegin
<1>2. CASE \E sent \in SUBSET Unfired : BeginReconcile(sent)
  BY <1>2, SweepKeepsEarned
<1>3. CASE \E l \in Logs : RowStep(l)
  <2>1. PICK l \in Logs : RowStep(l)
    BY <1>3
  <2>2. CASE \E ok \in BOOLEAN : FinalizeRow(l, ok)
    BY <2>2, FinalizeKeepsEarned
  <2>3. CASE \E truth, ok \in BOOLEAN : ReverseRow(l, truth, ok)
    BY <2>3, ReverseKeepsEarned
  <2>4. CASE Ingest(l) \/ KeepRow(l) \/ (\E truth \in BOOLEAN : SuspectReorg(l, truth))
               \/ (\E truth \in BOOLEAN : ReverseConflict(l, truth))
    BY <2>4, EarnedUntouched DEF Ingest, KeepRow, SuspectReorg, ReverseConflict
  <2>. QED BY <2>1, <2>2, <2>3, <2>4 DEF RowStep
<1>. QED BY <1>1, <1>2, <1>3 DEF Next, WatcherStep

LEMMA EarnedHolds == ASSUME OnePaymentPerTx PROVE Spec => []EarnedClaims
<1>1. Init => EarnedClaims
  BY DEF Init, EarnedClaims
<1>2. TypeOK /\ TodoIsLive /\ PaidIsBacked /\ AnnouncedInv /\ EarnedClaims /\ [Next]_vars
        => EarnedClaims'
  BY NextKeepsEarned, ConstantsOK, OnePaymentPerTx DEF AnnouncedInv
<1>. QED BY <1>1, <1>2, TypeCorrect, TodoStaysLive, PaidStaysBacked, AnnouncedHolds,
           OnePaymentPerTx, PTL DEF Spec

\* What each status is to the payer.
LEMMA StateCases ==
  ASSUME NEW i \in Intents
  PROVE  /\ istatus[i] = "absent" => StateOf(i) = "absent"
         /\ istatus[i] \in Payable => StateOf(i) = "open"
         /\ istatus[i] = "paid" => StateOf(i) = "paid"
         /\ istatus[i] \in {"completed", "cancelled", "refunded"} => StateOf(i) = "closed"
BY DEF StateOf, Payable

LEMMA StateCasesNext ==
  ASSUME NEW i \in Intents
  PROVE  /\ istatus'[i] \in Payable => StateOf(i)' = "open"
         /\ istatus'[i] = "paid" => StateOf(i)' = "paid"
         /\ istatus'[i] \in {"completed", "cancelled", "refunded"} => StateOf(i)' = "closed"
         /\ istatus'[i] = istatus[i] => StateOf(i)' = StateOf(i)
BY DEF StateOf, Payable

\* A step that leaves the statuses of the other invoices alone moves one of them.
LEMMA OneMoves ==
  ASSUME NEW i \in Intents, \A j \in Intents \ {i} : istatus'[j] = istatus[j]
  PROVE  [j \in Intents |-> StateOf(j)]' = [[j \in Intents |-> StateOf(j)] EXCEPT ![i] = StateOf(i)']
BY StateCasesNext

LEMMA PromiseUntouched ==
  ASSUME \A j \in Intents : istatus'[j] = istatus[j], UNCHANGED <<told, revLost>>
  PROVE  UNCHANGED Promise!vars
BY StateCasesNext DEF Promise!vars

LEMMA IntentRefines ==
  ASSUME ConstantsOK, TypeOK, IntentStep
  PROVE  Promise!Next \/ UNCHANGED Promise!vars
<1>1. PICK i \in Intents : Create(i) \/ Expire(i) \/ Cancel(i) \/ Resolve(i)
  BY DEF IntentStep
<1>2. UNCHANGED <<told, revLost>> /\ \A j \in Intents \ {i} : istatus'[j] = istatus[j]
  BY <1>1 DEF Create, Expire, Cancel, Resolve, SetStatus, TypeOK
<1>3. CASE Create(i)
  <2>1. StateOf(i) = "absent" /\ StateOf(i)' = "open"
    BY <1>3, StateCases, StateCasesNext DEF Create, SetStatus, TypeOK, Payable
  <2>2. Promise!Open(i)
    BY <1>2, <2>1, OneMoves DEF Promise!Open
  <2>. QED BY <2>2 DEF Promise!Next
<1>4. CASE Cancel(i) \/ Resolve(i)
  <2>1. StateOf(i) = "open" /\ StateOf(i)' = "closed"
    BY <1>4, StateCases, StateCasesNext DEF Cancel, Resolve, SetStatus, TypeOK, Payable
  <2>2. Promise!Close(i)
    BY <1>2, <2>1, OneMoves DEF Promise!Close
  <2>. QED BY <2>2 DEF Promise!Next
<1>5. CASE Expire(i)
  <2>1. StateOf(i) = "open" /\ StateOf(i)' = "open"
    BY <1>5, StateCases, StateCasesNext DEF Expire, SetStatus, TypeOK, Payable
  <2>2. \A j \in Intents : StateOf(j)' = StateOf(j)
    BY <1>2, <2>1, StateCasesNext
  <2>. QED BY <1>2, <2>2 DEF Promise!vars
<1>. QED BY <1>1, <1>3, <1>4, <1>5

LEMMA SweepRefines ==
  ASSUME ConstantsOK, TypeOK, NEW sent \in SUBSET Unfired, BeginReconcile(sent)
  PROVE  Promise!Next \/ UNCHANGED Promise!vars
<1>. DEFINE S == {i \in Intents : \E l \in sent : IntentOf[l] = i}
<1>1. \A i \in S : StateOf(i) = "paid"
  BY StateCases DEF Unfired
<1>2. told' = [i \in Intents |-> IF i \in S THEN told[i] \cup {"completed"} ELSE told[i]]
  BY DEF BeginReconcile
<1>3. UNCHANGED <<istatus, revLost>>
  BY DEF BeginReconcile
<1>4. [j \in Intents |-> StateOf(j)]' = [j \in Intents |-> StateOf(j)]
  BY <1>3, StateCasesNext
<1>5. Promise!Announce(S)
  BY <1>1, <1>2, <1>3, <1>4 DEF Promise!Announce
<1>. QED BY <1>5 DEF Promise!Next

LEMMA FinalizeRefines ==
  ASSUME ConstantsOK, TypeOK, NEW l \in Logs, NEW ok \in BOOLEAN, FinalizeRow(l, ok)
  PROVE  Promise!Next \/ UNCHANGED Promise!vars
<1>. DEFINE i == IntentOf[l]
<1>1. CASE i # NoIntent /\ istatus[i] \in Payable /\ l \in Valid
  <2>1. i \in Intents
    BY <1>1 DEF ConstantsOK
  <2>2. /\ istatus' = [istatus EXCEPT ![i] = "paid"]
        /\ told' = [told EXCEPT ![i] = @ \cup {e \in {"completed"} : ok /\ ~fired[l]}]
        /\ revLost' = revLost
    BY <1>1 DEF FinalizeRow
  <2>3. StateOf(i) = "open" /\ StateOf(i)' = "paid"
    BY <1>1, <2>1, <2>2, StateCases, StateCasesNext DEF TypeOK
  <2>4. [j \in Intents |-> StateOf(j)]' = [[j \in Intents |-> StateOf(j)] EXCEPT ![i] = "paid"]
    BY <2>1, <2>2, <2>3, OneMoves DEF TypeOK
  <2>5. told' \in {told, [told EXCEPT ![i] = @ \cup {"completed"}]}
    <3>1. CASE ok /\ ~fired[l]
      <4>1. {e \in {"completed"} : ok /\ ~fired[l]} = {"completed"}
        BY <3>1
      <4>. QED BY <2>2, <4>1
    <3>2. CASE ~(ok /\ ~fired[l])
      <4>1. {e \in {"completed"} : ok /\ ~fired[l]} = {}
        BY <3>2
      <4>2. told' = told
        BY <2>1, <2>2, <4>1 DEF TypeOK
      <4>. QED BY <4>2
    <3>. QED BY <3>1, <3>2
  <2>6. Promise!Pay(i)
    BY <2>1, <2>2, <2>3, <2>4, <2>5 DEF Promise!Pay
  <2>. QED BY <2>1, <2>6 DEF Promise!Next
<1>2. CASE ~(i # NoIntent /\ istatus[i] \in Payable /\ l \in Valid)
  <2>1. UNCHANGED <<istatus, told, revLost>>
    BY <1>2 DEF FinalizeRow
  <2>. QED BY <2>1, PromiseUntouched
<1>. QED BY <1>1, <1>2

\* Taking the payment back retracts its announcement in the same step, unless the
\* dispatch raises; a row that stands for no payment any more has a lost one to make
\* up for, or nothing to say.
LEMMA ReverseRefines ==
  ASSUME ConstantsOK, TypeOK, TodoIsLive, PaidIsBacked, AnnouncedInv, EarnedClaims,
         NEW l \in Logs, NEW truth \in BOOLEAN, NEW ok \in BOOLEAN, ReverseRow(l, truth, ok)
  PROVE  Promise!Next \/ UNCHANGED Promise!vars
<1>. DEFINE i == IntentOf[l]
<1>1. CASE ~Tells(l) /\ ~Unpays(l)
  <2>1. UNCHANGED <<told, revLost>> /\ \A j \in Intents : istatus'[j] = istatus[j]
    BY <1>1 DEF ReverseRow, TypeOK
  <2>. QED BY <2>1, PromiseUntouched
<1>2. CASE Tells(l) \/ Unpays(l)
  <2>1. i \in Intents /\ i # NoIntent /\ TxOf[l] # NoTx /\ l \in Valid
    BY <1>2 DEF Tells, Unpays, ConstantsOK, ReverseRow, Examine, TodoIsLive, AnnouncedInv, LiveIsValid
  <2>2. Tells(l) => "completed" \in told[i] /\ fired[l] /\ ~revFired[l]
    BY <2>1 DEF Tells, AnnouncedInv, ClaimsAreTold
  <2>3. ASSUME Tells(l), ok
        PROVE  told' = [told EXCEPT ![i] = @ \cup {"reversed"}] /\ revLost' = revLost
    <3>1. \A j \in Intents : told'[j] = IF j = i THEN told[j] \cup {"reversed"} ELSE told[j]
      BY <2>3 DEF ReverseRow
    <3>2. revLost' = revLost \cup {j \in Intents : j = i /\ Tells(l) /\ ~ok}
      BY DEF ReverseRow
    <3>3. told' \in [Intents -> SUBSET Events]
      BY <2>1, <3>1 DEF ReverseRow, TypeOK, Events
    <3>. QED BY <2>1, <2>3, <3>1, <3>2, <3>3 DEF TypeOK
  <2>4. Tells(l) /\ ~ok => told' = told /\ revLost' = revLost \cup {i}
    BY <2>1 DEF ReverseRow, TypeOK
  <2>5. ~Tells(l) => UNCHANGED <<told, revLost>>
    BY DEF ReverseRow, TypeOK
  <2>6. CASE Unpays(l)
    <3>1. istatus[i] = "paid" /\ matched[i] = TxOf[l]
      BY <2>1, <2>6 DEF Unpays, PaidIsBacked
    <3>2. istatus'[i] = "pending" /\ \A j \in Intents \ {i} : istatus'[j] = istatus[j]
      BY <2>1, <2>6 DEF ReverseRow
    <3>3. StateOf(i) = "paid" /\ StateOf(i)' = "open"
      BY <2>1, <3>1, <3>2, StateCases, StateCasesNext DEF Payable
    <3>4. [j \in Intents |-> StateOf(j)]' = [[j \in Intents |-> StateOf(j)] EXCEPT ![i] = "open"]
      BY <2>1, <3>2, <3>3, OneMoves
    <3>5. \/ "completed" \notin told[i] /\ UNCHANGED <<told, revLost>>
          \/ "completed" \in told[i] /\ told' = [told EXCEPT ![i] = @ \cup {"reversed"}]
                                     /\ UNCHANGED revLost
          \/ "completed" \in told[i] /\ revLost' = revLost \cup {i} /\ UNCHANGED told
          \/ "reversed" \in told[i] /\ UNCHANGED <<told, revLost>>
      <4>1. CASE Tells(l)
        BY <4>1, <2>2, <2>3, <2>4
      <4>2. CASE ~Tells(l)
        <5>1. ~fired[l] \/ "reversed" \in told[i]
          BY <4>2, <2>1 DEF Tells, AnnouncedInv, ClaimsAreTold
        <5>2. "completed" \in told[i] /\ "reversed" \notin told[i] => i \in revLost
          BY <5>1, <2>1, <3>1 DEF AnnouncedInv, StandsAnnounced
        <5>. QED BY <4>2, <2>5, <5>2
      <4>. QED BY <4>1, <4>2
    <3>6. Promise!Retract(i)
      BY <2>1, <3>3, <3>4, <3>5 DEF Promise!Retract
    <3>. QED BY <2>1, <3>6 DEF Promise!Next
  <2>7. CASE ~Unpays(l)
    <3>1. Tells(l) /\ matched[i] # TxOf[l]
      BY <1>2, <2>1, <2>7 DEF Unpays
    <3>2. i \in revLost
      BY <2>1, <2>2, <3>1 DEF EarnedClaims
    <3>3. \A j \in Intents : istatus'[j] = istatus[j]
      BY <2>7 DEF ReverseRow
    <3>4. CASE ok
      <4>1. [j \in Intents |-> StateOf(j)]' = [j \in Intents |-> StateOf(j)]
        BY <3>3, StateCasesNext
      <4>2. Promise!RetractLate(i)
        BY <2>1, <2>3, <3>1, <3>2, <3>4, <4>1 DEF Promise!RetractLate
      <4>. QED BY <2>1, <4>2 DEF Promise!Next
    <3>5. CASE ~ok
      <4>1. UNCHANGED <<told, revLost>>
        BY <2>4, <3>1, <3>2, <3>5
      <4>. QED BY <3>3, <4>1, PromiseUntouched
    <3>. QED BY <3>4, <3>5
  <2>. QED BY <2>6, <2>7
<1>. QED BY <1>1, <1>2

LEMMA NextRefines ==
  ASSUME ConstantsOK, TypeOK, TodoIsLive, PaidIsBacked, AnnouncedInv, EarnedClaims, [Next]_vars
  PROVE  Promise!Next \/ UNCHANGED Promise!vars
<1>1. CASE UNCHANGED vars \/ ChainStep \/ Restart \/ TickFails
             \/ (\E tag \in -1..finalized : TickBegin(tag))
  <2>1. UNCHANGED <<istatus, told, revLost>>
    BY <1>1 DEF vars, ChainStep, Mine, Reorg, AdvanceFinality, Restart, TickFails, TickBegin
  <2>. QED BY <2>1, PromiseUntouched
<1>2. CASE IntentStep
  BY <1>2, IntentRefines
<1>3. CASE \E sent \in SUBSET Unfired : BeginReconcile(sent)
  BY <1>3, SweepRefines
<1>4. CASE \E l \in Logs : RowStep(l)
  <2>1. PICK l \in Logs : RowStep(l)
    BY <1>4
  <2>2. CASE \E ok \in BOOLEAN : FinalizeRow(l, ok)
    BY <2>2, FinalizeRefines
  <2>3. CASE \E truth, ok \in BOOLEAN : ReverseRow(l, truth, ok)
    BY <2>3, ReverseRefines
  <2>4. CASE Ingest(l) \/ KeepRow(l) \/ (\E truth \in BOOLEAN : SuspectReorg(l, truth))
               \/ (\E truth \in BOOLEAN : ReverseConflict(l, truth))
    <3>1. UNCHANGED <<istatus, told, revLost>>
      BY <2>4 DEF Ingest, KeepRow, SuspectReorg, ReverseConflict
    <3>. QED BY <3>1, PromiseUntouched
  <2>. QED BY <2>1, <2>2, <2>3, <2>4 DEF RowStep
<1>. QED BY <1>1, <1>2, <1>3, <1>4 DEF Next, WatcherStep

\* When no transaction pays one invoice twice, every step of the indexer is a step
\* of PaymentPromise or invisible to the merchant.
THEOREM IndexerKeepsPromise == ASSUME OnePaymentPerTx PROVE Spec => KeepsPromise
<1>1. Init => Promise!Init
  <2>. SUFFICES ASSUME Init PROVE Promise!Init
    OBVIOUS
  <2>1. \A i \in Intents : StateOf(i) \in {"absent", "open"}
    BY StateCases DEF Init, Payable
  <2>. QED BY <2>1 DEF Init, Promise!Init
<1>2. TypeOK /\ TodoIsLive /\ PaidIsBacked /\ AnnouncedInv /\ EarnedClaims /\ [Next]_vars
        => [Promise!Next]_(Promise!vars)
  BY NextRefines, ConstantsOK
<1>. QED BY <1>1, <1>2, TypeCorrect, TodoStaysLive, PaidStaysBacked, AnnouncedHolds,
           EarnedHolds, OnePaymentPerTx, PTL DEF Spec, KeepsPromise, Promise!Spec
=============================================================================
