-------------------------- MODULE WebhookDelivery --------------------------
(***************************************************************************)
(* The deliveries of a merchant's events to one endpoint, and the health    *)
(* of that endpoint.  Producers (send_webhook) create a delivery and try it *)
(* at once inside their own transaction; workers (the delivery task, whose  *)
(* runs overlap) select batches of pending deliveries without claiming them.*)
(*                                                                         *)
(* A row is a pair of versions: `row' and `end' are committed, `rowNow' and *)
(* `endNow' are the newest, written by the transaction that holds the row   *)
(* lock.  Backoff is time passing: a pending row may be due at any time.    *)
(***************************************************************************)
EXTENDS Naturals, FiniteSets

CONSTANTS
  Deliveries,    \* idempotency keys (intent, event) of the endpoint
  Workers,       \* concurrent runs of process_webhook_deliveries
  Producers,     \* concurrent transactions that call send_webhook
  Free,          \* nobody holds the lock
  MaxRetries,    \* MAX_RETRIES
  DisableAfter   \* DISABLE_AFTER_PERMANENT_FAILURES

Actors == Workers \cup Producers

ASSUME ConstantsOK ==
  /\ Workers \cap Producers = {}
  /\ Free \notin Actors
  /\ MaxRetries \in Nat \ {0} /\ DisableAfter \in Nat \ {0}

VARIABLES
  row, rowNow, holder,     \* webhook_deliveries, and who holds each row's lock
  end, endNow, endHolder,  \* merchant_webhooks, and who holds its lock
  pc, batch, cur,          \* where a transaction is, what it still has to do, its delivery
  saw, sees,               \* what its session has loaded: retries; is_active, {} if not yet
  answer,                  \* how its attempt ended
  asked,                   \* columns a request to re-enable is about to write
  tries, got, excused      \* history: POSTs made, 2xx answered, given up without a POST

txn  == <<pc, batch, cur, saw, sees, answer>>
past == <<tries, got, excused>>
vars == <<row, rowNow, holder, end, endNow, endHolder, txn, asked, past>>

Ended   == {"delivered", "failed"}
Status  == {"none", "pending"} \cup Ended
Row     == [status : Status, retries : 0..MaxRetries]
Answers == {"ok", "transient", "gone", "blocked"}

\* blame: history, the counted give-ups (by whom, of what) since the slate was cleared.
Endpoint == [active : BOOLEAN, fails : Nat, blame : SUBSET (Actors \X Deliveries)]

\* Types, that only a locked row has an uncommitted version, and that a pending
\* delivery has attempts left.
TypeOK ==
  /\ row \in [Deliveries -> Row] /\ rowNow \in [Deliveries -> Row]
  /\ holder \in [Deliveries -> Actors \cup {Free}]
  /\ end \in Endpoint /\ endNow \in Endpoint /\ endHolder \in Actors \cup {Free}
  /\ pc \in [Actors -> {"idle", "open", "posting", "answered"}]
  /\ batch \in [Actors -> SUBSET Deliveries]
  /\ cur \in [Actors -> Deliveries \cup {Free}]
  /\ saw \in [Actors -> [Deliveries -> 0..(MaxRetries - 1)]]
  /\ sees \in [Actors -> SUBSET BOOLEAN] /\ answer \in [Actors -> Answers]
  /\ asked \subseteq {"is_active", "fails"}
  /\ tries \in [Deliveries -> Nat] /\ got \subseteq Deliveries /\ excused \subseteq Deliveries
  /\ \A d \in Deliveries :
       /\ holder[d] = Free => rowNow[d] = row[d]
       /\ \A r \in {row[d], rowNow[d]} : r.status = "pending" => r.retries < MaxRetries
  /\ endHolder = Free => endNow = end
  /\ \A a \in Actors : pc[a] \in {"posting", "answered"} => cur[a] \in Deliveries

Init ==
  /\ row = [d \in Deliveries |-> [status |-> "none", retries |-> 0]] /\ rowNow = row
  /\ holder = [d \in Deliveries |-> Free]
  /\ end = [active |-> TRUE, fails |-> 0, blame |-> {}] /\ endNow = end /\ endHolder = Free
  /\ pc = [a \in Actors |-> "idle"] /\ batch = [a \in Actors |-> {}]
  /\ cur = [a \in Actors |-> Free] /\ saw = [a \in Actors |-> [d \in Deliveries |-> 0]]
  /\ sees = [a \in Actors |-> {}] /\ answer = [a \in Actors |-> "ok"]
  /\ asked = {}
  /\ tries = [d \in Deliveries |-> 0] /\ got = {} /\ excused = {}

\* The endpoint as a statement of `a' reads it.
EndpointFor(a) == IF endHolder = a THEN endNow ELSE end

-----------------------------------------------------------------------------
(* Writes.  Each waits for the row lock and keeps it to the end.            *)

\* Faulty: writes outside of the transaction.
WriteUnlocked(a, d, status, retries) ==
  /\ holder[d] \in {Free, a} /\ UNCHANGED holder
  /\ rowNow' = [rowNow EXCEPT ![d] = [status |-> status, retries |-> retries]]

\* The ORM writes the changed columns of a delivery, by primary key.
WriteRow(a, d, status, retries) ==
  /\ holder[d] \in {Free, a} /\ holder' = [holder EXCEPT ![d] = a]
  /\ rowNow' = [rowNow EXCEPT ![d] = [status |-> status, retries |-> retries]]

WriteEndpoint(a, active, fails, blame) ==
  /\ endHolder \in {Free, a} /\ endHolder' = a
  /\ endNow' = [active |-> active, fails |-> fails, blame |-> blame]
  /\ sees' = [sees EXCEPT ![a] = {active}]

LeaveEndpoint == UNCHANGED <<endHolder, endNow, sees>>

\* Faulty: counts from the value it read, without waiting for the lock.
NoteFromRead(a, d) ==
  LET n == EndpointFor(a).fails + 1
  IN  /\ endHolder' = a
      /\ endNow' = [active |-> endNow.active /\ n < DisableAfter, fails |-> n,
                    blame |-> endNow.blame \cup {<<a, d>>}]
      /\ sees' = [sees EXCEPT ![a] = {endNow'.active}]

\* _note_permanent_failure: one atomic increment, and the claim that disables.
NoteFailure(a, d) ==
  LET n == endNow.fails + 1
  IN  WriteEndpoint(a, endNow.active /\ n < DisableAfter, n, endNow.blame \cup {<<a, d>>})

\* Faulty: a success leaves the count.
ForgetSuccess(a) ==
  \/ EndpointFor(a).fails = 0 /\ LeaveEndpoint
  \/ /\ EndpointFor(a).fails # 0
     /\ WriteEndpoint(a, endNow.active, endNow.fails, {})

\* _note_delivery_success: an UPDATE that matches only a count that is not 0.
NoteSuccess(a) ==
  \/ EndpointFor(a).fails = 0 /\ LeaveEndpoint
  \/ /\ EndpointFor(a).fails # 0
     /\ WriteEndpoint(a, endNow.active, 0, {})

-----------------------------------------------------------------------------
(* Producers and workers pick up deliveries.                               *)

\* send_webhook: a new row under the unique key, if the endpoint is active.
Produce(p, d) ==
  /\ pc[p] \in {"idle", "open"} /\ row[d].status = "none" /\ holder[d] = Free
  /\ EndpointFor(p).active
  /\ WriteRow(p, d, "pending", 0)
  /\ pc' = [pc EXCEPT ![p] = "posting"] /\ cur' = [cur EXCEPT ![p] = d]
  /\ UNCHANGED <<row, end, endNow, endHolder, batch, saw, sees, answer, asked, past>>

\* process_pending_deliveries selects what is pending and due.
Select(w, due) ==
  /\ pc[w] = "idle" /\ due # {} /\ \A d \in due : row[d].status = "pending"
  /\ pc' = [pc EXCEPT ![w] = "open"] /\ batch' = [batch EXCEPT ![w] = due]
  /\ saw' = [saw EXCEPT ![w] = [d \in Deliveries |-> IF d \in due THEN row[d].retries ELSE 0]]
  /\ UNCHANGED <<row, rowNow, holder, end, endNow, endHolder, cur, sees, answer, asked, past>>

\* The endpoint is read for each delivery, but a row that is still in the session,
\* loaded for an earlier one, stays as it was loaded.
Loads(w, active) ==
  /\ active \in sees[w] \cup {EndpointFor(w).active}
  /\ sees' = [sees EXCEPT ![w] = {active}]

Visit(w, d) ==
  /\ pc[w] = "open" /\ d \in batch[w]
  /\ Loads(w, TRUE)
  /\ pc' = [pc EXCEPT ![w] = "posting"] /\ cur' = [cur EXCEPT ![w] = d]
  /\ batch' = [batch EXCEPT ![w] = @ \ {d}]
  /\ UNCHANGED <<row, rowNow, holder, end, endNow, endHolder, saw, answer, asked, past>>

\* "Webhook not found or inactive".
Abandon(w, d) ==
  /\ pc[w] = "open" /\ d \in batch[w]
  /\ Loads(w, FALSE)
  /\ WriteRow(w, d, "failed", rowNow[d].retries)
  /\ batch' = [batch EXCEPT ![w] = @ \ {d}] /\ excused' = excused \cup {d}
  /\ UNCHANGED <<row, end, endNow, endHolder, pc, cur, saw, answer, asked, tries, got>>

-----------------------------------------------------------------------------
(* _attempt_delivery.                                                      *)

\* The egress check and the POST.  A transient failure may have been received.
Post(a, o) ==
  /\ pc[a] = "posting"
  /\ pc' = [pc EXCEPT ![a] = "answered"] /\ answer' = [answer EXCEPT ![a] = o]
  /\ IF o = "blocked"
       THEN excused' = excused \cup {cur[a]} /\ UNCHANGED tries
       ELSE /\ tries' = [tries EXCEPT ![cur[a]] = IF @ < MaxRetries THEN @ + 1 ELSE @]
            /\ UNCHANGED excused
  /\ got' = IF o = "ok" THEN got \cup {cur[a]} ELSE got
  /\ UNCHANGED <<row, rowNow, holder, end, endNow, endHolder, batch, cur, saw, sees, asked>>

Recorded(a) ==
  /\ pc[a] = "answered" /\ pc' = [pc EXCEPT ![a] = "open"]
  /\ UNCHANGED <<row, end, batch, cur, saw, answer, asked, past>>

Attempts(a) == saw[a][cur[a]] + 1

Delivered(a) ==
  /\ answer[a] = "ok" /\ Recorded(a)
  /\ WriteRow(a, cur[a], "delivered", rowNow[cur[a]].retries)
  /\ NoteSuccess(a)

\* Faulty: writes the whole row as the session knows it.
RetryWholeRow(a) ==
  /\ answer[a] \in {"transient", "gone"} /\ Attempts(a) < MaxRetries /\ Recorded(a)
  /\ WriteRow(a, cur[a], "pending", Attempts(a))
  /\ LeaveEndpoint

\* Faulty: a retry is not counted.
RetryUncounted(a) ==
  /\ answer[a] \in {"transient", "gone"} /\ Attempts(a) < MaxRetries /\ Recorded(a)
  /\ WriteRow(a, cur[a], rowNow[cur[a]].status, rowNow[cur[a]].retries)
  /\ LeaveEndpoint

\* Only the columns that changed are written, so a status is never taken back.
Retry(a) ==
  /\ answer[a] \in {"transient", "gone"} /\ Attempts(a) < MaxRetries /\ Recorded(a)
  /\ WriteRow(a, cur[a], rowNow[cur[a]].status, Attempts(a))
  /\ LeaveEndpoint

\* Faulty: one attempt too few.
GiveUpEarly(a) ==
  /\ answer[a] \in {"transient", "gone"} /\ Attempts(a) + 1 >= MaxRetries /\ Recorded(a)
  /\ WriteRow(a, cur[a], "failed", Attempts(a))
  /\ IF answer[a] = "gone" THEN NoteFailure(a, cur[a]) ELSE LeaveEndpoint

\* The last attempt decides whether the endpoint is to blame.
GiveUp(a) ==
  /\ answer[a] \in {"transient", "gone"} /\ Attempts(a) >= MaxRetries /\ Recorded(a)
  /\ WriteRow(a, cur[a], "failed", Attempts(a))
  /\ IF answer[a] = "gone" THEN NoteFailure(a, cur[a]) ELSE LeaveEndpoint

Blocked(a) ==
  /\ answer[a] = "blocked" /\ Recorded(a)
  /\ WriteRow(a, cur[a], "failed", rowNow[cur[a]].retries)
  /\ NoteFailure(a, cur[a])

Record(a) == Delivered(a) \/ Retry(a) \/ GiveUp(a) \/ Blocked(a)

-----------------------------------------------------------------------------
(* The end of a transaction.                                               *)

Close(a) ==
  /\ pc' = [pc EXCEPT ![a] = "idle"] /\ batch' = [batch EXCEPT ![a] = {}]
  /\ cur' = [cur EXCEPT ![a] = Free] /\ saw' = [saw EXCEPT ![a] = [d \in Deliveries |-> 0]]
  /\ sees' = [sees EXCEPT ![a] = {}] /\ answer' = [answer EXCEPT ![a] = "ok"]
  /\ holder' = [d \in Deliveries |-> IF holder[d] = a THEN Free ELSE holder[d]]
  /\ endHolder' = IF endHolder = a THEN Free ELSE endHolder
  /\ UNCHANGED <<asked, past>>

Commit(a) ==
  /\ pc[a] = "open" /\ batch[a] = {} /\ Close(a)
  /\ row' = [d \in Deliveries |-> IF holder[d] = a THEN rowNow[d] ELSE row[d]]
  /\ end' = EndpointFor(a)
  /\ UNCHANGED <<rowNow, endNow>>

\* An error, a deadlock, a lost worker; what was posted stays posted.
Rollback(a) ==
  /\ pc[a] # "idle" /\ Close(a)
  /\ rowNow' = [d \in Deliveries |-> IF holder[d] = a THEN row[d] ELSE rowNow[d]]
  /\ endNow' = IF endHolder = a THEN end ELSE endNow
  /\ UNCHANGED <<row, end>>

-----------------------------------------------------------------------------
(* enable_org_webhook: read without a lock; the ORM writes what differs.    *)

EnableRead ==
  /\ asked' = (IF end.active THEN {} ELSE {"is_active"})
              \cup (IF end.fails = 0 THEN {} ELSE {"fails"})
  /\ UNCHANGED <<row, rowNow, holder, end, endNow, endHolder, txn, past>>

EnableWrite ==
  /\ asked # {} /\ endHolder = Free /\ asked' = {}
  /\ end' = [active |-> end.active \/ "is_active" \in asked,
             fails  |-> IF "fails" \in asked THEN 0 ELSE end.fails,
             blame  |-> IF "fails" \in asked THEN {} ELSE end.blame]
  /\ endNow' = end'
  /\ UNCHANGED <<row, rowNow, holder, endHolder, txn, past>>

Next ==
  \/ \E p \in Producers, d \in Deliveries : Produce(p, d)
  \/ \E w \in Workers : \/ \E due \in SUBSET Deliveries : Select(w, due)
                        \/ \E d \in Deliveries : Visit(w, d) \/ Abandon(w, d)
  \/ \E a \in Actors : \/ \E o \in Answers : Post(a, o)
                       \/ Delivered(a) \/ Retry(a) \/ GiveUp(a) \/ Blocked(a)
                       \/ Commit(a) \/ Rollback(a)
  \/ EnableRead \/ EnableWrite

Spec == Init /\ [][Next]_vars

-----------------------------------------------------------------------------
(* Properties.                                                             *)

\* A delivery ends for a cause: delivered, because the endpoint answered 2xx;
\* failed, after MaxRetries POSTs, or because it must not be contacted.  Two
\* workers may lose each other's increments, never the attempts.
EndsForCause ==
  \A d \in Deliveries :
    /\ row[d].status = "delivered" => d \in got
    /\ row[d].status = "failed" => tries[d] >= MaxRetries \/ d \in excused

\* A delivery that ended is not taken up again by a worker that read it earlier.
EndsForGood ==
  [][\A d \in Deliveries : row[d].status \in Ended => row'[d].status \in Ended]_row

\* No counted give-up is lost between workers, rollbacks and re-enabling.
CountsEveryGiveUp == end.fails = Cardinality(end.blame)

\* An endpoint is switched off only by a run of DisableAfter give-ups, with
\* no success and no re-enabling in between.
DisabledByRun ==
  [][end.active /\ ~end'.active => Cardinality(end'.blame) >= DisableAfter]_end

\* Every step is taken in time, and a statement that waits for ever is rolled
\* back.  The task runs every 15 s: a delivery that is due is selected again and
\* again, and outages do not hit every attempt of it at the same place.
Fairness ==
  /\ \A a \in Actors : /\ WF_vars(\E o \in Answers : Post(a, o))
                       /\ WF_vars(Record(a))
                       /\ WF_vars(pc[a] = "answered" /\ Rollback(a))
                       /\ WF_vars(Commit(a))
  /\ \A w \in Workers : WF_vars(\E d \in Deliveries : Visit(w, d) \/ Abandon(w, d))
  /\ \A d \in Deliveries :
       /\ SF_vars(\E w \in Workers, due \in SUBSET Deliveries : d \in due /\ Select(w, due))
       /\ SF_vars(\E w \in Workers : Visit(w, d) \/ Abandon(w, d))
       /\ SF_vars(\E w \in Workers, o \in Answers : cur[w] = d /\ Post(w, o))
       /\ SF_vars(\E w \in Workers : cur[w] = d /\ Record(w))
       /\ SF_vars(\E w \in Workers : holder[d] = w /\ Commit(w))

LiveSpec == Spec /\ Fairness

\* A delivery on record is delivered or given up in the end, although a slow
\* worker may write an old retry count over a newer one.
EveryDeliveryEnds ==
  \A d \in Deliveries : row[d].status = "pending" ~> row[d].status \in Ended
=============================================================================
