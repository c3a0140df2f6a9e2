----------------------- MODULE WebhookDelivery_proofs -----------------------
(***************************************************************************)
(* Proofs about WebhookDelivery, for every set of deliveries, workers and   *)
(* producers, every retry limit and every threshold.                       *)
(***************************************************************************)
EXTENDS WebhookDelivery, FiniteSetTheorems, TLAPS

-----------------------------------------------------------------------------
(* Types.                                                                  *)

LEMMA InitTypeOK == ASSUME ConstantsOK, Init PROVE TypeOK
<1>. USE DEF ConstantsOK, Init, Row, Status, Ended, Endpoint, Answers
<1>. QED BY DEF TypeOK

LEMMA WriteRowTypeOK ==
  ASSUME ConstantsOK, TypeOK, NEW a \in Actors, NEW d \in Deliveries,
         NEW s \in Status, NEW n \in 0..MaxRetries, s = "pending" => n < MaxRetries,
         WriteRow(a, d, s, n)
  PROVE  /\ holder' \in [Deliveries -> Actors \cup {Free}]
         /\ rowNow' \in [Deliveries -> Row]
         /\ \A e \in Deliveries :
              /\ holder'[e] = Free => rowNow'[e] = rowNow[e] /\ holder[e] = Free
              /\ rowNow'[e].status = "pending" => rowNow'[e].retries < MaxRetries
BY DEF WriteRow, TypeOK, ConstantsOK, Row

LEMMA WriteEndpointTypeOK ==
  ASSUME ConstantsOK, TypeOK, NEW a \in Actors, NEW d \in Deliveries,
         NoteFailure(a, d) \/ NoteSuccess(a) \/ LeaveEndpoint
  PROVE  /\ endHolder' \in Actors \cup {Free}
         /\ endNow' \in Endpoint /\ sees' \in [Actors -> SUBSET BOOLEAN]
         /\ endHolder' = Free => endNow' = endNow /\ endHolder = Free
<1>1. ASSUME NEW on \in BOOLEAN, NEW n \in Nat, NEW b \in SUBSET (Actors \X Deliveries),
             WriteEndpoint(a, on, n, b)
      PROVE  endHolder' = a /\ endNow' \in Endpoint /\ sees' \in [Actors -> SUBSET BOOLEAN]
  BY <1>1 DEF WriteEndpoint, TypeOK, Endpoint
<1>2. a # Free
  BY DEF ConstantsOK
<1>3. endNow.active \in BOOLEAN /\ endNow.fails \in Nat /\ endNow.blame \in SUBSET (Actors \X Deliveries)
  BY DEF TypeOK, Endpoint
<1>4. CASE NoteFailure(a, d)
  <2>. DEFINE n == endNow.fails + 1
  <2>1. (endNow.active /\ n < DisableAfter) \in BOOLEAN /\ n \in Nat
        /\ endNow.blame \cup {<<a, d>>} \in SUBSET (Actors \X Deliveries)
    BY <1>3
  <2>2. WriteEndpoint(a, endNow.active /\ n < DisableAfter, n, endNow.blame \cup {<<a, d>>})
    BY <1>4 DEF NoteFailure
  <2>. HIDE DEF n
  <2>. QED BY <1>1, <1>2, <2>1, <2>2
<1>5. CASE NoteSuccess(a)
  BY <1>1, <1>2, <1>3, <1>5 DEF NoteSuccess, LeaveEndpoint, TypeOK
<1>6. CASE LeaveEndpoint
  BY <1>6 DEF LeaveEndpoint, TypeOK
<1>. QED BY <1>4, <1>5, <1>6

LEMMA PickUpTypeOK ==
  ASSUME ConstantsOK, TypeOK,
         \/ \E p \in Producers, d \in Deliveries : Produce(p, d)
         \/ \E w \in Workers, due \in SUBSET Deliveries : Select(w, due)
         \/ \E w \in Workers, d \in Deliveries : Visit(w, d) \/ Abandon(w, d)
  PROVE  TypeOK'
<1>. USE DEF past, Actors
<1>1. ASSUME NEW p \in Producers, NEW d \in Deliveries, Produce(p, d) PROVE TypeOK'
  <2>1. WriteRow(p, d, "pending", 0) /\ "pending" \in Status /\ 0 \in 0..MaxRetries /\ 0 < MaxRetries
    BY <1>1 DEF Produce, Status, ConstantsOK
  <2>2. /\ holder' \in [Deliveries -> Actors \cup {Free}] /\ rowNow' \in [Deliveries -> Row]
        /\ \A e \in Deliveries :
             /\ holder'[e] = Free => rowNow'[e] = rowNow[e] /\ holder[e] = Free
             /\ rowNow'[e].status = "pending" => rowNow'[e].retries < MaxRetries
    BY <2>1, WriteRowTypeOK
  <2>. QED BY <1>1, <2>2 DEF Produce, TypeOK
<1>2. ASSUME NEW w \in Workers, NEW due \in SUBSET Deliveries, Select(w, due) PROVE TypeOK'
  <2>1. [d \in Deliveries |-> IF d \in due THEN row[d].retries ELSE 0]
          \in [Deliveries -> 0..(MaxRetries - 1)]
    BY <1>2 DEF Select, TypeOK, Row, ConstantsOK
  <2>. QED BY <1>2, <2>1 DEF Select, TypeOK
<1>3. ASSUME NEW w \in Workers, NEW d \in Deliveries, Visit(w, d) PROVE TypeOK'
  BY <1>3 DEF Visit, Loads, TypeOK
<1>4. ASSUME NEW w \in Workers, NEW d \in Deliveries, Abandon(w, d) PROVE TypeOK'
  <2>1. WriteRow(w, d, "failed", rowNow[d].retries) /\ "failed" \in Status
        /\ rowNow[d].retries \in 0..MaxRetries
    BY <1>4 DEF Abandon, Status, Ended, TypeOK, Row
  <2>2. /\ holder' \in [Deliveries -> Actors \cup {Free}] /\ rowNow' \in [Deliveries -> Row]
        /\ \A e \in Deliveries :
             /\ holder'[e] = Free => rowNow'[e] = rowNow[e] /\ holder[e] = Free
             /\ rowNow'[e].status = "pending" => rowNow'[e].retries < MaxRetries
    BY <2>1, WriteRowTypeOK
  <2>. QED BY <1>4, <2>2 DEF Abandon, Loads, TypeOK
<1>. QED BY <1>1, <1>2, <1>3, <1>4

\* What the record of an answer writes into the delivery's row: a success, one
\* more attempt, the last attempt, or that the endpoint must not be contacted.
LEMMA RecordedRow ==
  ASSUME ConstantsOK, TypeOK, NEW a \in Actors, Record(a)
  PROVE  \E s \in Status, n \in 0..MaxRetries :
           /\ WriteRow(a, cur[a], s, n)
           /\ \/ s = "delivered" /\ n = rowNow[cur[a]].retries /\ answer[a] = "ok"
              \/ /\ s = rowNow[cur[a]].status /\ n = Attempts(a) /\ n < MaxRetries
                 /\ answer[a] \in {"transient", "gone"}
              \/ /\ s = "failed" /\ n = Attempts(a) /\ n = MaxRetries
                 /\ answer[a] \in {"transient", "gone"}
              \/ s = "failed" /\ n = rowNow[cur[a]].retries /\ answer[a] = "blocked"
<1>1. pc[a] = "answered" /\ cur[a] \in Deliveries
  BY DEF Record, Delivered, Retry, GiveUp, Blocked, Recorded, TypeOK
<1>2. Attempts(a) \in 1..MaxRetries
  BY <1>1 DEF Attempts, TypeOK, ConstantsOK
<1>3. rowNow[cur[a]].status \in Status /\ rowNow[cur[a]].retries \in 0..MaxRetries
  BY <1>1 DEF TypeOK, Row
<1>4. "delivered" \in Status /\ "failed" \in Status
  BY DEF Status, Ended
<1>5. CASE Delivered(a)
  BY <1>3, <1>4, <1>5 DEF Delivered
<1>6. CASE Retry(a)
  BY <1>2, <1>3, <1>6 DEF Retry
<1>7. CASE GiveUp(a)
  <2>1. Attempts(a) = MaxRetries
    BY <1>2, <1>7 DEF GiveUp, ConstantsOK
  <2>. QED BY <1>2, <1>4, <1>7, <2>1 DEF GiveUp
<1>8. CASE Blocked(a)
  BY <1>3, <1>4, <1>8 DEF Blocked
<1>. QED BY <1>5, <1>6, <1>7, <1>8 DEF Record

LEMMA RecordTypeOK == ASSUME ConstantsOK, TypeOK, NEW a \in Actors, Record(a) PROVE TypeOK'
<1>1. pc[a] = "answered" /\ cur[a] \in Deliveries /\ Recorded(a)
  BY DEF Record, Delivered, Retry, GiveUp, Blocked, Recorded, TypeOK
<1>2. NoteFailure(a, cur[a]) \/ NoteSuccess(a) \/ LeaveEndpoint
  BY DEF Record, Delivered, Retry, GiveUp, Blocked
<1>3. /\ endHolder' \in Actors \cup {Free}
      /\ endNow' \in Endpoint /\ sees' \in [Actors -> SUBSET BOOLEAN]
      /\ endHolder' = Free => endNow' = endNow /\ endHolder = Free
  BY <1>1, <1>2, WriteEndpointTypeOK
<1>4. PICK s \in Status, n \in 0..MaxRetries :
        WriteRow(a, cur[a], s, n) /\ (s = "pending" => n < MaxRetries)
  BY RecordedRow
<1>5. /\ holder' \in [Deliveries -> Actors \cup {Free}] /\ rowNow' \in [Deliveries -> Row]
      /\ \A e \in Deliveries :
           /\ holder'[e] = Free => rowNow'[e] = rowNow[e] /\ holder[e] = Free
           /\ rowNow'[e].status = "pending" => rowNow'[e].retries < MaxRetries
  BY <1>1, <1>4, WriteRowTypeOK
<1>. QED BY <1>1, <1>3, <1>5 DEF Recorded, TypeOK, past

LEMMA EndTypeOK ==
  ASSUME ConstantsOK, TypeOK, NEW a \in Actors, Commit(a) \/ Rollback(a) PROVE TypeOK'
<1>1. /\ pc' \in [Actors -> {"idle", "open", "posting", "answered"}]
      /\ batch' \in [Actors -> SUBSET Deliveries] /\ cur' \in [Actors -> Deliveries \cup {Free}]
      /\ saw' \in [Actors -> [Deliveries -> 0..(MaxRetries - 1)]]
      /\ sees' \in [Actors -> SUBSET BOOLEAN] /\ answer' \in [Actors -> Answers]
      /\ \A b \in Actors : pc'[b] \in {"posting", "answered"} => cur'[b] \in Deliveries
  <2>1. Close(a)
    BY DEF Commit, Rollback
  <2>2. [d \in Deliveries |-> 0] \in [Deliveries -> 0..(MaxRetries - 1)]
    BY DEF ConstantsOK
  <2>3. saw' \in [Actors -> [Deliveries -> 0..(MaxRetries - 1)]]
    BY <2>1, <2>2 DEF Close, TypeOK
  <2>. QED BY <2>1, <2>3 DEF Close, TypeOK, Answers
<1>2. /\ holder' \in [Deliveries -> Actors \cup {Free}] /\ endHolder' \in Actors \cup {Free}
      /\ \A d \in Deliveries : holder'[d] = Free => holder[d] \in {Free, a}
      /\ endHolder' = Free => endHolder \in {Free, a}
      /\ UNCHANGED <<asked, tries, got, excused>>
  BY DEF Commit, Rollback, Close, TypeOK, ConstantsOK, past
<1>3. CASE Commit(a)
  <2>1. /\ row' = [d \in Deliveries |-> IF holder[d] = a THEN rowNow[d] ELSE row[d]]
        /\ rowNow' = rowNow /\ endNow' = endNow
        /\ end' = IF endHolder = a THEN endNow ELSE end
    BY <1>3 DEF Commit, EndpointFor
  <2>. QED BY <1>1, <1>2, <2>1 DEF TypeOK
<1>4. CASE Rollback(a)
  <2>1. /\ rowNow' = [d \in Deliveries |-> IF holder[d] = a THEN row[d] ELSE rowNow[d]]
        /\ row' = row /\ end' = end
        /\ endNow' = IF endHolder = a THEN end ELSE endNow
    BY <1>4 DEF Rollback
  <2>. QED BY <1>1, <1>2, <2>1 DEF TypeOK
<1>. QED BY <1>3, <1>4

LEMMA NextTypeOK == ASSUME ConstantsOK, TypeOK, [Next]_vars PROVE TypeOK'
<1>1. ASSUME NEW a \in Actors, NEW o \in Answers, Post(a, o) PROVE TypeOK'
  <2>1. cur[a] \in Deliveries
    BY <1>1 DEF Post, TypeOK
  <2>2. tries' \in [Deliveries -> Nat]
    <3>1. tries' = tries \/ tries' = [tries EXCEPT ![cur[a]] = IF @ < MaxRetries THEN @ + 1 ELSE @]
      BY <1>1 DEF Post
    <3>. QED BY <2>1, <3>1 DEF TypeOK
  <2>3. /\ got' \subseteq Deliveries /\ excused' \subseteq Deliveries
        /\ pc' \in [Actors -> {"idle", "open", "posting", "answered"}] /\ answer' \in [Actors -> Answers]
    BY <1>1, <2>1 DEF Post, TypeOK
  <2>. QED BY <1>1, <2>1, <2>2, <2>3 DEF Post, TypeOK
<1>2. CASE EnableRead
  BY <1>2 DEF EnableRead, TypeOK, txn, past
<1>3. CASE EnableWrite
  <2>1. end' \in Endpoint
    BY <1>3 DEF EnableWrite, TypeOK, Endpoint
  <2>. QED BY <1>3, <2>1 DEF EnableWrite, TypeOK, txn, past
<1>4. CASE UNCHANGED vars
  BY <1>4 DEF vars, txn, past, TypeOK
<1>. QED BY <1>1, <1>2, <1>3, <1>4, PickUpTypeOK, RecordTypeOK, EndTypeOK DEF Next, Record

\* The type invariant: an uncommitted version exists only under the row lock,
\* and a pending delivery has attempts left.
THEOREM TypeCorrect == Spec => []TypeOK
<1>1. Init => TypeOK
  BY InitTypeOK, ConstantsOK
<1>2. TypeOK /\ [Next]_vars => TypeOK'
  BY NextTypeOK, ConstantsOK
<1>. QED BY <1>1, <1>2, PTL DEF Spec

-----------------------------------------------------------------------------
(* A delivery ends for a cause.                                            *)

\* The cause of a version of a row, and that it counts no attempt not made.
Cause(d, r) ==
  /\ r.retries <= tries[d]
  /\ r.status = "delivered" => d \in got
  /\ r.status = "failed" => tries[d] >= MaxRetries \/ d \in excused

\* What a session knows of its delivery is true of the world.
AttemptInv ==
  /\ \A d \in Deliveries : Cause(d, row[d]) /\ Cause(d, rowNow[d])
  /\ \A a \in Actors, d \in Deliveries : saw[a][d] <= tries[d]
  /\ \A a \in Actors : pc[a] = "answered" =>
       /\ answer[a] \in {"transient", "gone"} => Attempts(a) <= tries[cur[a]]
       /\ answer[a] = "ok" => cur[a] \in got
       /\ answer[a] = "blocked" => cur[a] \in excused

LEMMA RecordKeepsAttempts ==
  ASSUME ConstantsOK, TypeOK, AttemptInv, NEW a \in Actors, Record(a) PROVE AttemptInv'
<1>. USE DEF past
<1>1. pc[a] = "answered" /\ cur[a] \in Deliveries /\ Recorded(a)
  BY DEF Record, Delivered, Retry, GiveUp, Blocked, Recorded, TypeOK
<1>2. PICK s \in Status, n \in 0..MaxRetries :
        /\ WriteRow(a, cur[a], s, n)
        /\ \/ s = "delivered" /\ n = rowNow[cur[a]].retries /\ answer[a] = "ok"
           \/ /\ s = rowNow[cur[a]].status /\ n = Attempts(a) /\ n < MaxRetries
              /\ answer[a] \in {"transient", "gone"}
           \/ /\ s = "failed" /\ n = Attempts(a) /\ n = MaxRetries
              /\ answer[a] \in {"transient", "gone"}
           \/ s = "failed" /\ n = rowNow[cur[a]].retries /\ answer[a] = "blocked"
  BY RecordedRow
<1>3. Cause(cur[a], [status |-> s, retries |-> n])
  <2>1. Cause(cur[a], rowNow[cur[a]]) /\ tries[cur[a]] \in Nat
    BY <1>1 DEF AttemptInv, TypeOK
  <2>. QED BY <1>1, <1>2, <2>1 DEF AttemptInv, Cause, ConstantsOK
<1>4. \A d \in Deliveries : Cause(d, rowNow'[d])
  BY <1>1, <1>2, <1>3 DEF WriteRow, AttemptInv, TypeOK
<1>5. UNCHANGED <<row, cur, saw, answer, tries, got, excused>>
  BY <1>1 DEF Recorded
<1>6. \A b \in Actors : pc'[b] = "answered" => pc[b] = "answered"
  BY <1>1 DEF Recorded, TypeOK
<1>. QED BY <1>4, <1>5, <1>6 DEF AttemptInv, Cause, Attempts

LEMMA NextKeepsAttempts == ASSUME ConstantsOK, TypeOK, AttemptInv, [Next]_vars PROVE AttemptInv'
<1>. USE DEF past, Actors
<1>1. ASSUME NEW p \in Producers, NEW d \in Deliveries, Produce(p, d) PROVE AttemptInv'
  BY <1>1 DEF Produce, WriteRow, AttemptInv, Cause, Attempts, TypeOK
<1>2. ASSUME NEW w \in Workers, NEW due \in SUBSET Deliveries, Select(w, due) PROVE AttemptInv'
  BY <1>2 DEF Select, AttemptInv, Cause, Attempts, TypeOK
<1>3. ASSUME NEW w \in Workers, NEW d \in Deliveries, Visit(w, d) PROVE AttemptInv'
  BY <1>3 DEF Visit, AttemptInv, Cause, Attempts, TypeOK
<1>4. ASSUME NEW w \in Workers, NEW d \in Deliveries, Abandon(w, d) PROVE AttemptInv'
  BY <1>4 DEF Abandon, WriteRow, AttemptInv, Cause, Attempts, TypeOK
<1>5. ASSUME NEW a \in Actors, NEW o \in Answers, Post(a, o) PROVE AttemptInv'
  <2>1. cur[a] \in Deliveries /\ saw[a][cur[a]] \in 0..(MaxRetries - 1)
    BY <1>5 DEF Post, TypeOK
  <2>2. \A d \in Deliveries : tries[d] <= tries'[d] /\ tries[d] \in Nat /\ tries'[d] \in Nat
    BY <1>5, <2>1 DEF Post, TypeOK
  <2>3. got \subseteq got' /\ excused \subseteq excused' /\ UNCHANGED <<row, rowNow, saw, cur>>
    BY <1>5 DEF Post
  <2>4. \A d \in Deliveries, r \in Row : Cause(d, r) => Cause(d, r)'
    BY <2>2, <2>3 DEF Cause, Row, ConstantsOK
  <2>5. o \in {"transient", "gone"} => saw[a][cur[a]] + 1 <= tries'[cur[a]]
    BY <1>5, <2>1 DEF Post, TypeOK, AttemptInv, ConstantsOK
  <2>6. (o = "ok" => cur[a] \in got') /\ (o = "blocked" => cur[a] \in excused')
    BY <1>5 DEF Post
  <2>7. \A b \in Actors : pc'[b] = "answered" /\ b # a => pc[b] = "answered" /\ answer'[b] = answer[b]
    BY <1>5 DEF Post, TypeOK
  <2>8. ASSUME NEW b \in Actors, pc'[b] = "answered"
        PROVE  /\ answer'[b] \in {"transient", "gone"} => Attempts(b)' <= tries'[cur'[b]]
               /\ answer'[b] = "ok" => cur'[b] \in got'
               /\ answer'[b] = "blocked" => cur'[b] \in excused'
    <3>1. CASE b = a
      BY <1>5, <2>3, <2>5, <2>6, <3>1 DEF Post, Attempts, TypeOK
    <3>2. CASE b # a
      <4>1. cur[b] \in Deliveries /\ pc[b] = "answered" /\ answer'[b] = answer[b]
        BY <2>7, <2>8, <3>2 DEF TypeOK
      <4>2. Attempts(b) \in Nat /\ Attempts(b)' = Attempts(b)
        BY <2>3, <4>1 DEF Attempts, TypeOK, ConstantsOK
      <4>. QED BY <2>2, <2>3, <4>1, <4>2 DEF AttemptInv
    <3>. QED BY <3>1, <3>2
  <2>9. \A d \in Deliveries : Cause(d, row[d])' /\ Cause(d, rowNow[d])'
    BY <2>3, <2>4 DEF AttemptInv, TypeOK, Cause
  <2>10. \A b \in Actors, d \in Deliveries : saw'[b][d] <= tries'[d]
    <3>1. \A b \in Actors, d \in Deliveries : saw[b][d] \in 0..(MaxRetries - 1)
      BY DEF TypeOK
    <3>. QED BY <2>2, <2>3, <3>1 DEF AttemptInv, ConstantsOK
  <2>. QED BY <2>8, <2>9, <2>10 DEF AttemptInv
<1>6. ASSUME NEW a \in Actors, Commit(a) \/ Rollback(a) PROVE AttemptInv'
  <2>1. /\ \A d \in Deliveries : row'[d] \in {row[d], rowNow[d]} /\ rowNow'[d] \in {row[d], rowNow[d]}
        /\ UNCHANGED <<tries, got, excused>>
    BY <1>6 DEF Commit, Rollback, Close, TypeOK
  <2>2. /\ \A b \in Actors : pc'[b] = "answered" => b # a /\ pc[b] = "answered"
        /\ \A b \in Actors : b # a => cur'[b] = cur[b] /\ saw'[b] = saw[b] /\ answer'[b] = answer[b]
        /\ \A d \in Deliveries : saw'[a][d] = 0
    BY <1>6 DEF Commit, Rollback, Close, TypeOK
  <2>3. \A d \in Deliveries : 0 <= tries[d]
    BY DEF TypeOK
  <2>4. \A d \in Deliveries : Cause(d, row[d])' /\ Cause(d, rowNow[d])'
    BY <2>1 DEF AttemptInv, Cause
  <2>. QED BY <2>1, <2>2, <2>3, <2>4 DEF AttemptInv, Attempts
<1>7. CASE EnableRead \/ EnableWrite \/ UNCHANGED vars
  BY <1>7 DEF EnableRead, EnableWrite, vars, txn, AttemptInv, Cause, Attempts
<1>. QED BY <1>1, <1>2, <1>3, <1>4, <1>5, <1>6, <1>7, RecordKeepsAttempts DEF Next, Record

LEMMA AttemptsHold == Spec => []AttemptInv
<1>1. Init => AttemptInv
  <2>. SUFFICES ASSUME Init PROVE AttemptInv
    OBVIOUS
  <2>1. \A d \in Deliveries : Cause(d, row[d]) /\ Cause(d, rowNow[d])
    BY DEF Init, Cause
  <2>. QED BY <2>1 DEF Init, AttemptInv
<1>2. TypeOK /\ AttemptInv /\ [Next]_vars => AttemptInv'
  BY NextKeepsAttempts, ConstantsOK
<1>. QED BY <1>1, <1>2, TypeCorrect, PTL DEF Spec

\* A delivered event was received, and one is given up only after MaxRetries
\* POSTs or because the endpoint must not be contacted, however many workers
\* overwrite each other's count.
THEOREM DeliveriesEndForCause == Spec => []EndsForCause
<1>1. AttemptInv => EndsForCause
  BY DEF AttemptInv, Cause, EndsForCause
<1>. QED BY <1>1, AttemptsHold, PTL

-----------------------------------------------------------------------------
(* A delivery that ended stays ended.                                      *)

\* No transaction holds a version that would take the end back.
EndedInv == \A d \in Deliveries : row[d].status \in Ended => rowNow[d].status \in Ended

LEMMA RecordKeepsEnded ==
  ASSUME ConstantsOK, TypeOK, EndedInv, NEW a \in Actors, Record(a)
  PROVE  EndedInv' /\ row' = row
<1>1. pc[a] = "answered" /\ cur[a] \in Deliveries /\ Recorded(a)
  BY DEF Record, Delivered, Retry, GiveUp, Blocked, Recorded, TypeOK
<1>2. PICK s \in Status, n \in 0..MaxRetries :
        WriteRow(a, cur[a], s, n) /\ (s \in Ended \/ s = rowNow[cur[a]].status)
  BY RecordedRow DEF Ended
<1>. QED BY <1>1, <1>2 DEF Recorded, WriteRow, EndedInv, TypeOK

LEMMA NextKeepsEnded ==
  ASSUME ConstantsOK, TypeOK, EndedInv, [Next]_vars
  PROVE  /\ EndedInv'
         /\ \A d \in Deliveries : row[d].status \in Ended => row'[d].status \in Ended
<1>. USE DEF Actors, past
<1>1. ASSUME NEW p \in Producers, NEW d \in Deliveries, Produce(p, d)
      PROVE  EndedInv' /\ row' = row
  BY <1>1 DEF Produce, WriteRow, EndedInv, TypeOK, Ended
<1>2. ASSUME NEW w \in Workers, NEW d \in Deliveries, Abandon(w, d)
      PROVE  EndedInv' /\ row' = row
  BY <1>2 DEF Abandon, WriteRow, EndedInv, TypeOK, Ended
<1>3. ASSUME NEW a \in Actors, Commit(a) \/ Rollback(a)
      PROVE  EndedInv' /\ \A d \in Deliveries : row'[d] \in {row[d], rowNow[d]}
  <2>1. CASE Commit(a)
    <3>1. /\ row' = [d \in Deliveries |-> IF holder[d] = a THEN rowNow[d] ELSE row[d]]
          /\ rowNow' = rowNow
      BY <2>1 DEF Commit
    <3>. QED BY <3>1 DEF EndedInv
  <2>2. CASE Rollback(a)
    <3>1. /\ rowNow' = [d \in Deliveries |-> IF holder[d] = a THEN row[d] ELSE rowNow[d]]
          /\ row' = row
      BY <2>2 DEF Rollback
    <3>. QED BY <3>1 DEF EndedInv
  <2>. QED BY <1>3, <2>1, <2>2
<1>4. CASE UNCHANGED <<row, rowNow>>
  BY <1>4 DEF EndedInv
<1>5. ASSUME NEW w \in Workers, NEW due \in SUBSET Deliveries, NEW d \in Deliveries,
             Select(w, due) \/ Visit(w, d)
      PROVE  UNCHANGED <<row, rowNow>>
  BY <1>5 DEF Select, Visit
<1>6. ASSUME NEW a \in Actors, NEW o \in Answers, Post(a, o) PROVE UNCHANGED <<row, rowNow>>
  BY <1>6 DEF Post
<1>7. CASE EnableRead \/ EnableWrite \/ UNCHANGED vars
  BY <1>7, <1>4 DEF EnableRead, EnableWrite, vars
<1>. QED BY <1>1, <1>2, <1>3, <1>4, <1>5, <1>6, <1>7, RecordKeepsEnded DEF Next, Record, EndedInv

\* A worker that read a delivery before it ended does not bring it back.
THEOREM DeliveriesEndForGood == Spec => EndsForGood
<1>1. Init => EndedInv
  BY DEF Init, EndedInv
<1>2. TypeOK /\ EndedInv /\ [Next]_vars => EndedInv'
  BY NextKeepsEnded, ConstantsOK
<1>3. TypeOK /\ EndedInv /\ [Next]_vars =>
        [\A d \in Deliveries : row[d].status \in Ended => row'[d].status \in Ended]_row
  BY NextKeepsEnded, ConstantsOK
<1>. QED BY <1>1, <1>2, <1>3, TypeCorrect, PTL DEF Spec, EndsForGood

-----------------------------------------------------------------------------
(* The count that disables the endpoint.                                   *)

\* A transaction is at work on a delivery, or will be.
Working(a, d) == d \in batch[a] \/ (pc[a] \in {"posting", "answered"} /\ cur[a] = d)

\* Transactions visit a delivery once, and an idle one holds nothing.
WorkInv ==
  /\ \A a \in Actors : pc[a] \in {"posting", "answered"} => cur[a] \notin batch[a]
  /\ \A p \in Producers : batch[p] = {}
  /\ \A d \in Deliveries : holder[d] \in Actors => pc[holder[d]] # "idle"

\* A give-up that is counted belongs to a delivery that ended, at least in the
\* version of the transaction that counts it.
BlameInv ==
  /\ \A x \in end.blame : row[x[2]].status \in Ended
  /\ \A x \in endNow.blame :
       \/ row[x[2]].status \in Ended
       \/ holder[x[2]] = x[1] /\ endHolder = x[1] /\ rowNow[x[2]].status \in Ended

\* Nobody works on what it has been blamed for.
FreshInv == \A a \in Actors, d \in Deliveries : Working(a, d) => <<a, d>> \notin end.blame \cup endNow.blame

\* Both versions of the count are right.
CountInv ==
  /\ IsFiniteSet(end.blame) /\ end.fails = Cardinality(end.blame)
  /\ IsFiniteSet(endNow.blame) /\ endNow.fails = Cardinality(endNow.blame)

LEMMA NextKeepsWork == ASSUME ConstantsOK, TypeOK, WorkInv, [Next]_vars PROVE WorkInv'
<1>. USE DEF Actors, WorkInv, TypeOK, ConstantsOK
<1>1. ASSUME NEW p \in Producers, NEW d \in Deliveries, Produce(p, d) PROVE WorkInv'
  BY <1>1 DEF Produce, WriteRow
<1>2. ASSUME NEW w \in Workers, NEW due \in SUBSET Deliveries, Select(w, due) PROVE WorkInv'
  BY <1>2 DEF Select
<1>3. ASSUME NEW w \in Workers, NEW d \in Deliveries, Visit(w, d) PROVE WorkInv'
  BY <1>3 DEF Visit
<1>4. ASSUME NEW w \in Workers, NEW d \in Deliveries, Abandon(w, d) PROVE WorkInv'
  BY <1>4 DEF Abandon, WriteRow
<1>5. ASSUME NEW a \in Actors, NEW o \in Answers, Post(a, o) PROVE WorkInv'
  BY <1>5 DEF Post
<1>6. ASSUME NEW a \in Actors, Record(a) PROVE WorkInv'
  <2>1. Recorded(a) /\ \E s \in Status, n \in 0..MaxRetries : WriteRow(a, cur[a], s, n)
    BY <1>6, RecordedRow DEF Record, Delivered, Retry, GiveUp, Blocked
  <2>. QED BY <2>1 DEF Recorded, WriteRow
<1>7. ASSUME NEW a \in Actors, Commit(a) \/ Rollback(a) PROVE WorkInv'
  <2>1. Close(a)
    BY <1>7 DEF Commit, Rollback
  <2>2. \A b \in Actors : /\ pc'[b] = IF b = a THEN "idle" ELSE pc[b]
                          /\ batch'[b] = IF b = a THEN {} ELSE batch[b]
                          /\ b # a => cur'[b] = cur[b]
    BY <2>1 DEF Close
  <2>3. \A d \in Deliveries : holder'[d] = IF holder[d] = a THEN Free ELSE holder[d]
    BY <2>1 DEF Close
  <2>. QED BY <2>2, <2>3
<1>8. CASE EnableRead \/ EnableWrite \/ UNCHANGED vars
  BY <1>8 DEF EnableRead, EnableWrite, vars, txn
<1>. QED BY <1>1, <1>2, <1>3, <1>4, <1>5, <1>6, <1>7, <1>8 DEF Next, Record

\* A worker selects, and a producer creates, only what it was not blamed for.
LEMMA PickUpIsFresh ==
  ASSUME ConstantsOK, TypeOK, WorkInv, BlameInv, NEW a \in Actors, NEW d \in Deliveries,
         row[d].status \notin Ended, pc[a] = "idle" \/ holder[d] = Free
  PROVE  <<a, d>> \notin end.blame \cup endNow.blame
BY DEF ConstantsOK, TypeOK, WorkInv, BlameInv

\* What is written while nothing is counted keeps the blame in place.
LEMMA RowsKeepBlame ==
  ASSUME TypeOK, BlameInv, UNCHANGED <<row, end, endNow, endHolder>>,
         \A d \in Deliveries : \/ holder'[d] = holder[d] /\ rowNow'[d] = rowNow[d]
                               \/ /\ rowNow[d].status \in Ended => rowNow'[d].status \in Ended
                                  /\ holder[d] \in Actors => holder'[d] = holder[d]
  PROVE  BlameInv'
<1>1. ASSUME NEW x \in endNow.blame
      PROVE  \/ row'[x[2]].status \in Ended
             \/ holder'[x[2]] = x[1] /\ endHolder' = x[1] /\ rowNow'[x[2]].status \in Ended
  <2>1. x \in Actors \X Deliveries
    BY DEF TypeOK, Endpoint
  <2>2. x[1] \in Actors /\ x[2] \in Deliveries
    BY <2>1
  <2>. QED BY <2>2 DEF BlameInv
<1>. QED BY <1>1 DEF BlameInv

LEMMA PickUpKeepsBlame ==
  ASSUME ConstantsOK, TypeOK, WorkInv, BlameInv, FreshInv,
         \/ \E p \in Producers, d \in Deliveries : Produce(p, d)
         \/ \E w \in Workers, due \in SUBSET Deliveries : Select(w, due)
         \/ \E w \in Workers, d \in Deliveries : Visit(w, d) \/ Abandon(w, d)
  PROVE  BlameInv' /\ FreshInv' /\ UNCHANGED <<row, end, endNow, endHolder>>
<1>. USE DEF Actors
<1>1. ASSUME NEW p \in Producers, NEW d \in Deliveries, Produce(p, d)
      PROVE  BlameInv' /\ FreshInv' /\ UNCHANGED <<row, end, endNow, endHolder>>
  <2>1. BlameInv' /\ UNCHANGED <<row, end, endNow, endHolder>>
    <3>1. UNCHANGED <<row, end, endNow, endHolder>>
      BY <1>1 DEF Produce
    <3>2. holder[d] \notin Actors /\ rowNow[d].status \notin Ended
      BY <1>1 DEF Produce, TypeOK, ConstantsOK, Ended
    <3>3. \A e \in Deliveries : e # d => holder'[e] = holder[e] /\ rowNow'[e] = rowNow[e]
      BY <1>1 DEF Produce, WriteRow, TypeOK
    <3>. QED BY <3>1, <3>2, <3>3, RowsKeepBlame
  <2>2. <<p, d>> \notin end.blame \cup endNow.blame
    BY <1>1, PickUpIsFresh DEF Produce, Ended
  <2>3. \A a \in Actors, e \in Deliveries : Working(a, e)' => Working(a, e) \/ (a = p /\ e = d)
    BY <1>1 DEF Produce, Working, TypeOK
  <2>. QED BY <2>1, <2>2, <2>3 DEF FreshInv
<1>2. ASSUME NEW w \in Workers, NEW due \in SUBSET Deliveries, Select(w, due)
      PROVE  BlameInv' /\ FreshInv' /\ UNCHANGED <<row, end, endNow, endHolder>>
  <2>1. BlameInv' /\ UNCHANGED <<row, end, endNow, endHolder>>
    BY <1>2, RowsKeepBlame DEF Select
  <2>2. \A d \in due : <<w, d>> \notin end.blame \cup endNow.blame
    BY <1>2, PickUpIsFresh DEF Select, Ended
  <2>3. \A a \in Actors, e \in Deliveries : Working(a, e)' => Working(a, e) \/ (a = w /\ e \in due)
    BY <1>2 DEF Select, Working, TypeOK
  <2>. QED BY <2>1, <2>2, <2>3 DEF FreshInv
<1>3. ASSUME NEW w \in Workers, NEW d \in Deliveries, Visit(w, d)
      PROVE  BlameInv' /\ FreshInv' /\ UNCHANGED <<row, end, endNow, endHolder>>
  <2>1. BlameInv' /\ UNCHANGED <<row, end, endNow, endHolder>>
    BY <1>3, RowsKeepBlame DEF Visit
  <2>2. \A a \in Actors, e \in Deliveries : Working(a, e)' => Working(a, e)
    BY <1>3 DEF Visit, Working, TypeOK
  <2>. QED BY <2>1, <2>2 DEF FreshInv
<1>4. ASSUME NEW w \in Workers, NEW d \in Deliveries, Abandon(w, d)
      PROVE  BlameInv' /\ FreshInv' /\ UNCHANGED <<row, end, endNow, endHolder>>
  <2>1. BlameInv' /\ UNCHANGED <<row, end, endNow, endHolder>>
    BY <1>4, RowsKeepBlame DEF Abandon, WriteRow, TypeOK, ConstantsOK, Ended
  <2>2. \A a \in Actors, e \in Deliveries : Working(a, e)' => Working(a, e)
    BY <1>4 DEF Abandon, Working, TypeOK
  <2>. QED BY <2>1, <2>2 DEF FreshInv
<1>. QED BY <1>1, <1>2, <1>3, <1>4

\* The endpoint as a record leaves it: as it was, cleared, or with one give-up
\* more, of a delivery whose end it wrote, that may switch it off.
LEMMA RecordedEndpoint ==
  ASSUME ConstantsOK, TypeOK, NEW a \in Actors, Record(a)
  PROVE  \/ UNCHANGED <<endNow, endHolder, sees>>
         \/ /\ endHolder \in {Free, a} /\ endHolder' = a
            /\ endNow'.fails = 0 /\ endNow'.blame = {} /\ endNow'.active = endNow.active
         \/ /\ endHolder \in {Free, a} /\ endHolder' = a
            /\ endNow'.fails = endNow.fails + 1
            /\ \/ endNow'.active = endNow.active /\ sees'[a] = {endNow.active}
               \/ ~endNow'.active /\ sees'[a] = {FALSE} /\ endNow'.fails >= DisableAfter
            /\ endNow'.blame = endNow.blame \cup {<<a, cur[a]>>}
            /\ holder'[cur[a]] = a /\ rowNow'[cur[a]].status = "failed"
<1>1. pc[a] = "answered" /\ cur[a] \in Deliveries
  BY DEF Record, Delivered, Retry, GiveUp, Blocked, Recorded, TypeOK
<1>2. CASE Delivered(a)
  <2>1. LeaveEndpoint \/ WriteEndpoint(a, endNow.active, 0, {})
    BY <1>2 DEF Delivered, NoteSuccess
  <2>2. CASE LeaveEndpoint
    BY <2>2 DEF LeaveEndpoint
  <2>3. CASE WriteEndpoint(a, endNow.active, 0, {})
    <3>1. /\ endHolder \in {Free, a} /\ endHolder' = a
          /\ endNow' = [active |-> endNow.active, fails |-> 0, blame |-> {}]
      BY <2>3 DEF WriteEndpoint
    <3>. QED BY <3>1
  <2>. QED BY <2>1, <2>2, <2>3
<1>3. CASE Retry(a)
  BY <1>3 DEF Retry, LeaveEndpoint
<1>4. ASSUME NoteFailure(a, cur[a])
      PROVE  /\ endHolder \in {Free, a} /\ endHolder' = a
             /\ endNow'.fails = endNow.fails + 1
             /\ \/ endNow'.active = endNow.active /\ sees'[a] = {endNow.active}
                \/ ~endNow'.active /\ sees'[a] = {FALSE} /\ endNow'.fails >= DisableAfter
             /\ endNow'.blame = endNow.blame \cup {<<a, cur[a]>>}
  <2>1. ASSUME NEW on \in BOOLEAN, NEW m, NEW b, WriteEndpoint(a, on, m, b)
        PROVE  /\ endHolder \in {Free, a} /\ endHolder' = a
               /\ endNow'.fails = m /\ endNow'.blame = b
               /\ endNow'.active = on /\ sees'[a] = {on}
    BY <2>1 DEF WriteEndpoint, TypeOK
  <2>2. endNow.active \in BOOLEAN /\ endNow.fails \in Nat
    BY DEF TypeOK, Endpoint
  <2>3. CASE endNow.fails + 1 < DisableAfter
    <3>1. PICK on \in BOOLEAN : on = endNow.active
      BY <2>2
    <3>2. (endNow.active /\ endNow.fails + 1 < DisableAfter) = on
      BY <2>2, <2>3, <3>1
    <3>3. WriteEndpoint(a, on, endNow.fails + 1, endNow.blame \cup {<<a, cur[a]>>})
      BY <1>4, <3>2 DEF NoteFailure
    <3>. QED BY <2>1, <3>1, <3>3
  <2>4. CASE ~(endNow.fails + 1 < DisableAfter)
    <3>1. WriteEndpoint(a, FALSE, endNow.fails + 1, endNow.blame \cup {<<a, cur[a]>>})
      <4>1. (endNow.active /\ endNow.fails + 1 < DisableAfter) = FALSE
        BY <2>4
      <4>. QED BY <1>4, <4>1 DEF NoteFailure
    <3>2. /\ endHolder \in {Free, a} /\ endHolder' = a /\ endNow'.fails = endNow.fails + 1
          /\ endNow'.blame = endNow.blame \cup {<<a, cur[a]>>}
          /\ endNow'.active = FALSE /\ sees'[a] = {FALSE}
      BY <2>1, <3>1
    <3>3. endNow.fails + 1 >= DisableAfter
      BY <2>2, <2>4 DEF ConstantsOK
    <3>4. ~endNow'.active /\ sees'[a] = {FALSE}
      BY <3>2
    <3>. QED BY <3>2, <3>3, <3>4
  <2>. QED BY <2>3, <2>4
<1>5. CASE GiveUp(a)
  BY <1>1, <1>4, <1>5 DEF GiveUp, LeaveEndpoint, WriteRow, TypeOK
<1>6. CASE Blocked(a)
  BY <1>1, <1>4, <1>6 DEF Blocked, WriteRow, TypeOK
<1>. QED BY <1>2, <1>3, <1>5, <1>6 DEF Record

LEMMA RecordKeepsBlame ==
  ASSUME ConstantsOK, TypeOK, WorkInv, BlameInv, FreshInv, CountInv, NEW a \in Actors, Record(a)
  PROVE  BlameInv' /\ FreshInv' /\ CountInv'
<1>1. pc[a] = "answered" /\ cur[a] \in Deliveries /\ Recorded(a)
  BY DEF Record, Delivered, Retry, GiveUp, Blocked, Recorded, TypeOK
<1>2. PICK s \in Status, n \in 0..MaxRetries :
        WriteRow(a, cur[a], s, n) /\ (s \in Ended \/ s = rowNow[cur[a]].status)
  BY RecordedRow DEF Ended
<1>3. /\ UNCHANGED <<row, end>>
      /\ \A d \in Deliveries :
           \/ holder'[d] = holder[d] /\ rowNow'[d] = rowNow[d]
           \/ /\ rowNow[d].status \in Ended => rowNow'[d].status \in Ended
              /\ holder[d] \in Actors => holder'[d] = holder[d]
  BY <1>1, <1>2 DEF Recorded, WriteRow, TypeOK, ConstantsOK
<1>4. \A b \in Actors, d \in Deliveries : Working(b, d)' => Working(b, d) /\ <<b, d>> # <<a, cur[a]>>
  BY <1>1 DEF Recorded, Working, TypeOK, WorkInv
<1>5. CASE UNCHANGED <<endNow, endHolder>>
  BY <1>3, <1>4, <1>5, RowsKeepBlame DEF FreshInv, CountInv
<1>6. ASSUME endNow'.fails = 0, endNow'.blame = {} PROVE BlameInv' /\ FreshInv' /\ CountInv'
  BY <1>3, <1>4, <1>6, FS_EmptySet DEF BlameInv, FreshInv, CountInv
<1>7. ASSUME endHolder \in {Free, a}, endHolder' = a,
             endNow'.fails = endNow.fails + 1,
             endNow'.blame = endNow.blame \cup {<<a, cur[a]>>},
             holder'[cur[a]] = a, rowNow'[cur[a]].status = "failed"
      PROVE  BlameInv' /\ FreshInv' /\ CountInv'
  <2>1. <<a, cur[a]>> \notin endNow.blame
    BY <1>1 DEF FreshInv, Working
  <2>2. CountInv'
    <3>1. IsFiniteSet(endNow.blame) /\ endNow.fails = Cardinality(endNow.blame)
      BY DEF CountInv
    <3>2. /\ IsFiniteSet(endNow.blame \cup {<<a, cur[a]>>})
          /\ Cardinality(endNow.blame \cup {<<a, cur[a]>>}) = Cardinality(endNow.blame) + 1
      BY <2>1, <3>1, FS_AddElement
    <3>. QED BY <1>3, <1>7, <3>1, <3>2 DEF CountInv
  <2>3. FreshInv'
    BY <1>3, <1>4, <1>7 DEF FreshInv
  <2>4. \A x \in endNow.blame : x[2] \in Deliveries /\ x[1] \in Actors
    <3>1. endNow.blame \subseteq Actors \X Deliveries
      BY DEF TypeOK, Endpoint
    <3>. QED BY <3>1
  <2>5. ASSUME NEW x \in endNow.blame
        PROVE  \/ row'[x[2]].status \in Ended
               \/ holder'[x[2]] = x[1] /\ endHolder' = x[1] /\ rowNow'[x[2]].status \in Ended
    <3>1. CASE endHolder = Free
      BY <1>3, <2>5, <3>1 DEF BlameInv, TypeOK
    <3>2. CASE endHolder = a
      <4>1. \/ row[x[2]].status \in Ended
            \/ holder[x[2]] = x[1] /\ x[1] = a /\ rowNow[x[2]].status \in Ended
        BY <2>5, <3>2 DEF BlameInv
      <4>2. x[2] \in Deliveries
        BY <2>4, <2>5
      <4>. QED BY <1>3, <1>7, <4>1, <4>2
    <3>. QED BY <1>7, <3>1, <3>2
  <2>6. BlameInv'
    BY <1>3, <1>7, <2>5 DEF BlameInv, Ended
  <2>. QED BY <2>2, <2>3, <2>6
<1>. QED BY <1>5, <1>6, <1>7, RecordedEndpoint

LEMMA EndKeepsBlame ==
  ASSUME ConstantsOK, TypeOK, EndedInv, BlameInv, FreshInv, CountInv,
         NEW a \in Actors, Commit(a) \/ Rollback(a)
  PROVE  BlameInv' /\ FreshInv' /\ CountInv'
<1>1. \A b \in Actors, d \in Deliveries : Working(b, d)' => Working(b, d)
  BY DEF Commit, Rollback, Close, Working, TypeOK
<1>2. /\ \A d \in Deliveries : holder'[d] = IF holder[d] = a THEN Free ELSE holder[d]
      /\ endHolder' = IF endHolder = a THEN Free ELSE endHolder
  BY DEF Commit, Rollback, Close
<1>3. \A x \in end.blame \cup endNow.blame : x[1] \in Actors /\ x[2] \in Deliveries
  <2>1. end.blame \cup endNow.blame \subseteq Actors \X Deliveries
    BY DEF TypeOK, Endpoint
  <2>. QED BY <2>1
<1>4. CASE Commit(a)
  <2>1. /\ \A d \in Deliveries : row'[d] = IF holder[d] = a THEN rowNow[d] ELSE row[d]
        /\ rowNow' = rowNow /\ endNow' = endNow
        /\ end' = IF endHolder = a THEN endNow ELSE end
    BY <1>4 DEF Commit, EndpointFor
  <2>2. \A d \in Deliveries : row[d].status \in Ended => row'[d].status \in Ended
    BY <2>1 DEF EndedInv
  <2>3. ASSUME NEW x \in endNow.blame
        PROVE  \/ row'[x[2]].status \in Ended
               \/ /\ holder'[x[2]] = x[1] /\ endHolder' = x[1] /\ x[1] # a
                  /\ endHolder # a /\ rowNow'[x[2]].status \in Ended
    <3>1. x[1] \in Actors /\ x[2] \in Deliveries
      BY <1>3, <2>3
    <3>. QED BY <1>2, <2>1, <2>2, <2>3, <3>1 DEF BlameInv
  <2>4. \A x \in end'.blame : row'[x[2]].status \in Ended
    BY <1>3, <2>1, <2>2, <2>3 DEF BlameInv
  <2>5. BlameInv'
    BY <2>1, <2>3, <2>4 DEF BlameInv
  <2>. QED BY <1>1, <2>1, <2>5 DEF FreshInv, CountInv
<1>5. CASE Rollback(a)
  <2>1. /\ \A d \in Deliveries : rowNow'[d] = IF holder[d] = a THEN row[d] ELSE rowNow[d]
        /\ row' = row /\ end' = end
        /\ endNow' = IF endHolder = a THEN end ELSE endNow
    BY <1>5 DEF Rollback
  <2>2. ASSUME NEW x \in endNow'.blame
        PROVE  \/ row'[x[2]].status \in Ended
               \/ holder'[x[2]] = x[1] /\ endHolder' = x[1] /\ rowNow'[x[2]].status \in Ended
    <3>1. CASE endHolder = a
      BY <2>1, <2>2, <3>1 DEF BlameInv
    <3>2. CASE endHolder # a
      <4>1. x \in endNow.blame /\ x[1] \in Actors /\ x[2] \in Deliveries
        BY <1>3, <2>1, <2>2, <3>2
      <4>. QED BY <1>2, <2>1, <3>2, <4>1 DEF BlameInv
    <3>. QED BY <3>1, <3>2
  <2>3. BlameInv'
    BY <2>1, <2>2 DEF BlameInv
  <2>. QED BY <1>1, <2>1, <2>3 DEF FreshInv, CountInv
<1>. QED BY <1>4, <1>5

LEMMA EnableKeepsBlame ==
  ASSUME ConstantsOK, TypeOK, BlameInv, FreshInv, CountInv, EnableWrite
  PROVE  BlameInv' /\ FreshInv' /\ CountInv'
<1>1. end = endNow /\ end' = endNow' /\ UNCHANGED <<row, rowNow, holder, endHolder, pc, batch, cur>>
  BY DEF EnableWrite, TypeOK, txn
<1>2. \/ end'.fails = 0 /\ end'.blame = {}
      \/ end'.fails = end.fails /\ end'.blame = end.blame
  BY DEF EnableWrite
<1>3. \A b \in Actors, d \in Deliveries : Working(b, d)' <=> Working(b, d)
  BY <1>1 DEF Working
<1>4. CASE end'.fails = 0 /\ end'.blame = {}
  BY <1>1, <1>4, FS_EmptySet DEF BlameInv, FreshInv, CountInv
<1>5. CASE end'.fails = end.fails /\ end'.blame = end.blame
  <2>1. BlameInv'
    BY <1>1, <1>5 DEF BlameInv
  <2>. QED BY <1>1, <1>3, <1>5, <2>1 DEF FreshInv, CountInv
<1>. QED BY <1>2, <1>4, <1>5

LEMMA NextKeepsBlame ==
  ASSUME ConstantsOK, TypeOK, EndedInv, WorkInv, BlameInv, FreshInv, CountInv, [Next]_vars
  PROVE  BlameInv' /\ FreshInv' /\ CountInv'
<1>1. CASE \/ \E p \in Producers, d \in Deliveries : Produce(p, d)
           \/ \E w \in Workers, due \in SUBSET Deliveries : Select(w, due)
           \/ \E w \in Workers, d \in Deliveries : Visit(w, d) \/ Abandon(w, d)
  <2>1. BlameInv' /\ FreshInv' /\ UNCHANGED <<row, end, endNow, endHolder>>
    BY <1>1, PickUpKeepsBlame
  <2>. QED BY <2>1 DEF CountInv
<1>2. ASSUME NEW a \in Actors, NEW o \in Answers, Post(a, o)
      PROVE  BlameInv' /\ FreshInv' /\ CountInv'
  <2>1. \A b \in Actors, d \in Deliveries : Working(b, d)' => Working(b, d)
    BY <1>2 DEF Post, Working, TypeOK
  <2>. QED BY <1>2, <2>1 DEF Post, BlameInv, FreshInv, CountInv
<1>3. CASE EnableRead \/ UNCHANGED vars
  BY <1>3 DEF EnableRead, vars, txn, BlameInv, FreshInv, CountInv, Working
<1>. QED BY <1>1, <1>2, <1>3, RecordKeepsBlame, EndKeepsBlame, EnableKeepsBlame DEF Next, Record

LEMMA BlameHolds == Spec => [](EndedInv /\ WorkInv /\ BlameInv /\ FreshInv /\ CountInv)
<1>. DEFINE Inv == EndedInv /\ WorkInv /\ BlameInv /\ FreshInv /\ CountInv
<1>1. ConstantsOK /\ Init => Inv
  <2>. SUFFICES ASSUME ConstantsOK, Init PROVE Inv
    OBVIOUS
  <2>1. EndedInv /\ WorkInv
    BY DEF Init, EndedInv, WorkInv, ConstantsOK, Actors
  <2>2. BlameInv /\ FreshInv /\ CountInv
    BY FS_EmptySet DEF Init, BlameInv, FreshInv, CountInv
  <2>. QED BY <2>1, <2>2
<1>2. TypeOK /\ Inv /\ [Next]_vars => Inv'
  BY NextKeepsEnded, NextKeepsWork, NextKeepsBlame, ConstantsOK
<1>. QED BY <1>1, <1>2, TypeCorrect, ConstantsOK, PTL DEF Spec

\* The failure count of the endpoint is the number of give-ups since its slate
\* was cleared: none is lost between workers, rollbacks and re-enabling.
THEOREM GiveUpsCounted == Spec => []CountsEveryGiveUp
<1>1. CountInv => CountsEveryGiveUp
  BY DEF CountInv, CountsEveryGiveUp
<1>. QED BY <1>1, BlameHolds, PTL

-----------------------------------------------------------------------------
(* An endpoint is switched off by a run of give-ups.                       *)

\* A transaction that switched the endpoint off has a run of give-ups to show
\* for it, knows that it did, and attempts nothing more that could end the run.
RunInv ==
  end.active /\ ~endNow.active =>
    /\ Cardinality(endNow.blame) >= DisableAfter
    /\ endHolder \in Actors /\ pc[endHolder] = "open" /\ sees[endHolder] = {FALSE}

LEMMA RecordKeepsRun ==
  ASSUME ConstantsOK, TypeOK, RunInv, CountInv', NEW a \in Actors, Record(a) PROVE RunInv'
<1>1. pc[a] = "answered" /\ Recorded(a)
  BY DEF Record, Delivered, Retry, GiveUp, Blocked, Recorded
<1>2. end' = end /\ pc'[a] = "open" /\ \A b \in Actors : b # a => pc'[b] = pc[b]
  BY <1>1 DEF Recorded, TypeOK
<1>3. CASE UNCHANGED <<endNow, endHolder, sees>>
  BY <1>1, <1>2, <1>3 DEF RunInv
<1>4. ASSUME endHolder \in {Free, a}, endNow'.active = endNow.active PROVE RunInv'
  <2>1. ~(end.active /\ ~endNow.active)
    BY <1>1, <1>4 DEF RunInv, ConstantsOK
  <2>. QED BY <1>2, <1>4, <2>1 DEF RunInv
<1>5. ASSUME endHolder' = a, sees'[a] = {FALSE}, endNow'.fails >= DisableAfter PROVE RunInv'
  BY <1>2, <1>5 DEF RunInv, CountInv
<1>. QED BY <1>3, <1>4, <1>5, RecordedEndpoint

LEMMA PickUpKeepsRun ==
  ASSUME ConstantsOK, TypeOK, RunInv,
         \/ \E p \in Producers, d \in Deliveries : Produce(p, d)
         \/ \E w \in Workers, due \in SUBSET Deliveries : Select(w, due)
         \/ \E w \in Workers, d \in Deliveries : Visit(w, d) \/ Abandon(w, d)
  PROVE  RunInv'
<1>. USE DEF Actors
<1>1. ASSUME NEW p \in Producers, NEW d \in Deliveries, Produce(p, d) PROVE RunInv'
  <2>1. end.active /\ ~endNow.active => endHolder # p
    BY <1>1 DEF Produce, EndpointFor
  <2>. QED BY <1>1, <2>1 DEF Produce, RunInv, TypeOK
<1>2. ASSUME NEW w \in Workers, NEW due \in SUBSET Deliveries, Select(w, due) PROVE RunInv'
  BY <1>2 DEF Select, RunInv, TypeOK
<1>3. ASSUME NEW w \in Workers, NEW d \in Deliveries, Visit(w, d) PROVE RunInv'
  <2>1. end.active /\ ~endNow.active => endHolder # w
    BY <1>3 DEF Visit, Loads, EndpointFor, RunInv
  <2>. QED BY <1>3, <2>1 DEF Visit, Loads, RunInv, TypeOK
<1>4. ASSUME NEW w \in Workers, NEW d \in Deliveries, Abandon(w, d) PROVE RunInv'
  BY <1>4 DEF Abandon, Loads, EndpointFor, RunInv, TypeOK
<1>. QED BY <1>1, <1>2, <1>3, <1>4

LEMMA EndKeepsRun ==
  ASSUME ConstantsOK, TypeOK, RunInv, NEW a \in Actors, Commit(a) \/ Rollback(a)
  PROVE  RunInv' /\ (end.active /\ ~end'.active => Cardinality(end'.blame) >= DisableAfter)
<1>1. /\ endHolder' = IF endHolder = a THEN Free ELSE endHolder
      /\ \A b \in Actors : b # a => pc'[b] = pc[b] /\ sees'[b] = sees[b]
  BY DEF Commit, Rollback, Close, TypeOK
<1>2. CASE endHolder = a
  <2>1. /\ end' = endNow'
        /\ end' = end \/ end' = endNow
    BY <1>2 DEF Commit, Rollback, EndpointFor
  <2>. QED BY <2>1 DEF RunInv
<1>3. CASE endHolder # a
  <2>1. UNCHANGED <<end, endNow>>
    BY <1>3 DEF Commit, Rollback, EndpointFor
  <2>. QED BY <1>1, <1>3, <2>1 DEF RunInv
<1>. QED BY <1>2, <1>3

LEMMA NextKeepsRun ==
  ASSUME ConstantsOK, TypeOK, RunInv, CountInv', [Next]_vars
  PROVE  RunInv' /\ (end.active /\ ~end'.active => Cardinality(end'.blame) >= DisableAfter)
<1>. USE DEF Actors
<1>1. CASE \/ \E p \in Producers, d \in Deliveries : Produce(p, d)
           \/ \E w \in Workers, due \in SUBSET Deliveries : Select(w, due)
           \/ \E w \in Workers, d \in Deliveries : Visit(w, d) \/ Abandon(w, d)
  <2>1. end' = end
    BY <1>1 DEF Produce, Select, Visit, Abandon
  <2>. QED BY <1>1, <2>1, PickUpKeepsRun
<1>2. ASSUME NEW a \in Actors, NEW o \in Answers, Post(a, o) PROVE RunInv' /\ end' = end
  BY <1>2 DEF Post, RunInv, TypeOK
<1>3. ASSUME NEW a \in Actors, Record(a) PROVE RunInv' /\ end' = end
  BY <1>3, RecordKeepsRun DEF Record, Delivered, Retry, GiveUp, Blocked, Recorded
<1>4. CASE EnableWrite
  <2>1. end' = endNow' /\ (end.active => end'.active)
    BY <1>4 DEF EnableWrite
  <2>. QED BY <2>1 DEF RunInv
<1>5. CASE EnableRead \/ UNCHANGED vars
  BY <1>5 DEF EnableRead, vars, txn, RunInv
<1>. QED BY <1>1, <1>2, <1>3, <1>4, <1>5, EndKeepsRun DEF Next, Record

\* An endpoint is switched off only with DisableAfter give-ups counted since its
\* last success and its last re-enabling.
THEOREM DisabledByARun == Spec => DisabledByRun
<1>1. Init => RunInv
  BY DEF Init, RunInv
<1>2. TypeOK /\ RunInv /\ CountInv' /\ [Next]_vars => RunInv'
  BY NextKeepsRun, ConstantsOK
<1>3. TypeOK /\ RunInv /\ CountInv' /\ [Next]_vars =>
        [end.active /\ ~end'.active => Cardinality(end'.blame) >= DisableAfter]_end
  BY NextKeepsRun, ConstantsOK
<1>. QED BY <1>1, <1>2, <1>3, TypeCorrect, BlameHolds, PTL DEF Spec, DisabledByRun
=============================================================================
