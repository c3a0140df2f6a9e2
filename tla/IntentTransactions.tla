------------------------- MODULE IntentTransactions -------------------------
(***************************************************************************)
(* The database transactions that write one payment intent, statement by   *)
(* statement, at Postgres READ COMMITTED: a SELECT sees what is committed, *)
(* SELECT FOR UPDATE and UPDATE wait for the row lock, and an UPDATE that   *)
(* waited checks its WHERE clause again only on the row it waited for.     *)
(*                                                                         *)
(* The writers are the indexer (ingest and reconcile, one transaction at a *)
(* time), cancel (API key and session routes), the expiry task, the        *)
(* auto-expiry of GET and the resolution of a review.  `status', `matched' *)
(* and `row' hold what is committed; what a transaction has written and    *)
(* not committed is in its place `pc'.                                     *)
(***************************************************************************)
EXTENDS Naturals, FiniteSets

CONSTANTS
  Settlements,    \* valid payments of the intent, as rows of payment_settlements
  NoSettlement,
  Watcher,        \* the indexer of the intent's chain
  Cancellers,     \* concurrent cancel requests
  Expirers,       \* concurrent runs of expire_pending_intents
  Getters,        \* concurrent GET requests
  Resolvers,      \* concurrent resolve requests
  Free,           \* nobody holds the row lock
  InitialStatus   \* "pending", and "review" where the retired matcher left one

Actors == {Watcher} \cup Cancellers \cup Expirers \cup Getters \cup Resolvers

ASSUME ConstantsOK ==
  /\ NoSettlement \notin Settlements
  /\ Watcher \notin Cancellers \cup Expirers \cup Getters \cup Resolvers
  /\ Cancellers \cap (Expirers \cup Getters \cup Resolvers) = {}
  /\ Expirers \cap (Getters \cup Resolvers) = {}
  /\ Getters \cap Resolvers = {}
  /\ Free \notin Actors
  /\ InitialStatus \subseteq {"pending", "review"}

VARIABLES
  status, matched,  \* the intent row: status, matched_tx_hash
  due,              \* expires_at has passed
  row,              \* status of each settlement row
  lock,             \* the transaction that holds the lock of the intent row
  pc,               \* where each transaction is
  job, seen,        \* the settlement the watcher works on, the status it read
  lost              \* history: GET or resolve wrote over a status it had not read

vars == <<status, matched, due, row, lock, pc, job, seen, lost>>

IntentStatus == {"pending", "paid", "expired", "cancelled", "review", "completed", "refunded"}
Payable      == {"pending", "expired", "review"}
RowStatus    == {"none", "pending", "final", "reorged"}

\* Places after the statement that takes the row lock.
Locking == {"ingesting", "paying", "unpaying", "locked", "cleared", "claimed"}
Places  == Locking \cup {"idle", "finalizing", "reversing", "waiting", "read", "checked"}

\* Types, and that a transaction holds the lock from its locking statement to its end.
TypeOK ==
  /\ status \in IntentStatus /\ matched \in Settlements \cup {NoSettlement}
  /\ due \in BOOLEAN /\ row \in [Settlements -> RowStatus]
  /\ lock \in Actors \cup {Free} /\ pc \in [Actors -> Places]
  /\ job \in Settlements \cup {NoSettlement} /\ seen \in IntentStatus /\ lost \in BOOLEAN
  /\ \A a \in Actors : lock = a <=> pc[a] \in Locking

Init ==
  /\ status \in InitialStatus /\ matched = NoSettlement /\ due = FALSE
  /\ row = [s \in Settlements |-> "none"]
  /\ lock = Free /\ pc = [a \in Actors |-> "idle"]
  /\ job = NoSettlement /\ seen = "pending" /\ lost = FALSE

\* settlement_hold_exists: an observed payment wins over the timer and the merchant.
Hold == \E s \in Settlements : row[s] \in {"pending", "final"}

Go(a, from, to) == pc[a] = from /\ pc' = [pc EXCEPT ![a] = to]
Take(a)         == lock = Free /\ lock' = a
Release         == lock' = Free

-----------------------------------------------------------------------------
(* The indexer.                                                            *)

\* _record_settlement takes the intent's lock before it writes the row.
IngestLock(s) ==
  /\ Go(Watcher, "idle", "ingesting") /\ Take(Watcher)
  /\ row[s] # "final" /\ job' = s
  /\ UNCHANGED <<status, matched, due, row, seen, lost>>

IngestCommit ==
  /\ Go(Watcher, "ingesting", "idle") /\ Release
  /\ row' = [row EXCEPT ![job] = "pending"]
  /\ UNCHANGED <<status, matched, due, job, seen, lost>>

\* _finalize_settlement reads the intent without a lock ...
FinalizeRead(s) ==
  /\ Go(Watcher, "idle", "finalizing")
  /\ row[s] = "pending" /\ job' = s /\ seen' = status
  /\ UNCHANGED <<status, matched, due, row, lock, lost>>

\* ... stamps the row of an intent already handled ...
FinalizeNoop ==
  /\ Go(Watcher, "finalizing", "idle") /\ seen \notin Payable
  /\ row' = [row EXCEPT ![job] = "final"]
  /\ UNCHANGED <<status, matched, due, lock, job, seen, lost>>

\* ... and otherwise writes paid by primary key, over whatever is there by then.
FinalizeFlush ==
  /\ Go(Watcher, "finalizing", "paying") /\ seen \in Payable /\ Take(Watcher)
  /\ UNCHANGED <<status, matched, due, row, job, seen, lost>>

FinalizeCommit ==
  /\ Go(Watcher, "paying", "idle") /\ Release
  /\ status' = "paid" /\ matched' = job
  /\ row' = [row EXCEPT ![job] = "final"]
  /\ UNCHANGED <<due, job, seen, lost>>

\* _reverse_settlement un-pays only the intent this settlement paid.
ReverseRead(s) ==
  /\ row[s] \in {"pending", "final"} /\ matched = s
  /\ Go(Watcher, "idle", "reversing") /\ job' = s
  /\ UNCHANGED <<status, matched, due, row, lock, seen, lost>>

ReverseUnmatched(s) ==
  /\ pc[Watcher] = "idle" /\ row[s] \in {"pending", "final"} /\ matched # s
  /\ row' = [row EXCEPT ![s] = "reorged"]
  /\ UNCHANGED <<status, matched, due, lock, pc, job, seen, lost>>

ReverseFlush ==
  /\ Go(Watcher, "reversing", "unpaying") /\ Take(Watcher)
  /\ UNCHANGED <<status, matched, due, row, job, seen, lost>>

\* Faulty: leaves the match on the intent.
ReverseKeepsMatch ==
  /\ Go(Watcher, "unpaying", "idle") /\ Release
  /\ status' = "pending"
  /\ row' = [row EXCEPT ![job] = "reorged"]
  /\ UNCHANGED <<matched, due, job, seen, lost>>

ReverseCommit ==
  /\ Go(Watcher, "unpaying", "idle") /\ Release
  /\ status' = "pending" /\ matched' = NoSettlement
  /\ row' = [row EXCEPT ![job] = "reorged"]
  /\ UNCHANGED <<due, job, seen, lost>>

-----------------------------------------------------------------------------
(* Cancel: SELECT FOR UPDATE, the hold check, the write.                   *)

\* Faulty: reads without FOR UPDATE.
CancelUnlocked(c) ==
  /\ Go(c, "idle", "locked") /\ status = "pending"
  /\ UNCHANGED <<status, matched, due, row, lock, job, seen, lost>>

CancelLock(c) ==
  /\ Go(c, "idle", "locked") /\ Take(c) /\ status = "pending"
  /\ UNCHANGED <<status, matched, due, row, job, seen, lost>>

\* Faulty: answers 409 with the transaction left open.
CancelLeaks(c) ==
  /\ Go(c, "locked", "idle") /\ Hold
  /\ UNCHANGED <<status, matched, due, row, lock, job, seen, lost>>

\* 409 SETTLEMENT_IN_FLIGHT ends the session and with it the transaction.
CancelRefused(c) ==
  /\ Go(c, "locked", "idle") /\ Hold /\ Release
  /\ UNCHANGED <<status, matched, due, row, job, seen, lost>>

CancelCleared(c) ==
  /\ Go(c, "locked", "cleared") /\ ~Hold
  /\ UNCHANGED <<status, matched, due, row, lock, job, seen, lost>>

CancelCommit(c) ==
  /\ Go(c, "cleared", "idle") /\ Release
  /\ status' = "cancelled"
  /\ UNCHANGED <<matched, due, row, job, seen, lost>>

-----------------------------------------------------------------------------
(* The expiry task: one UPDATE that claims the intent.                     *)

\* The statement starts: its WHERE clause holds in its snapshot.
ClaimStart(w) ==
  /\ Go(w, "idle", "waiting") /\ due /\ status = "pending" /\ ~Hold
  /\ UNCHANGED <<status, matched, due, row, lock, job, seen, lost>>

\* Faulty: an UPDATE by primary key, with the checks left to the SELECT.
ClaimByKey(w) ==
  /\ Go(w, "waiting", "claimed") /\ Take(w)
  /\ UNCHANGED <<status, matched, due, row, job, seen, lost>>

\* It gets the row.  The status is checked again on the row as it is now, the
\* hold is not: the subquery keeps the statement's snapshot.
ClaimLock(w) ==
  /\ Go(w, "waiting", "claimed") /\ Take(w) /\ status = "pending"
  /\ UNCHANGED <<status, matched, due, row, job, seen, lost>>

\* rowcount 0: somebody else closed the intent.
ClaimLost(w) ==
  /\ Go(w, "waiting", "idle") /\ lock = Free /\ status # "pending"
  /\ UNCHANGED <<status, matched, due, row, lock, job, seen, lost>>

ClaimCommit(w) ==
  /\ Go(w, "claimed", "idle") /\ Release
  /\ status' = "expired"
  /\ UNCHANGED <<matched, due, row, job, seen, lost>>

-----------------------------------------------------------------------------
(* GET /payment-intent: auto-expiry of an intent read without a lock.      *)

GetRead(g) ==
  /\ Go(g, "idle", "read") /\ due /\ status = "pending"
  /\ UNCHANGED <<status, matched, due, row, lock, job, seen, lost>>

GetCheck(g) ==
  /\ pc[g] = "read"
  /\ pc' = [pc EXCEPT ![g] = IF Hold THEN "idle" ELSE "checked"]
  /\ UNCHANGED <<status, matched, due, row, lock, job, seen, lost>>

\* The ORM writes expired by primary key, whatever became of the status it read.
GetCommit(g) ==
  /\ Go(g, "checked", "idle") /\ lock = Free
  /\ status' = "expired"
  /\ lost' = (lost \/ status \notin {"pending", "expired"})
  /\ UNCHANGED <<matched, due, row, lock, job, seen>>

-----------------------------------------------------------------------------
(* Resolve: read without a lock, written by primary key.                   *)

ResolveRead(r) ==
  /\ Go(r, "idle", "read") /\ status = "review"
  /\ UNCHANGED <<status, matched, due, row, lock, job, seen, lost>>

\* The review may be over, or the watcher may have read it to pay the intent.
ResolveCommit(r) ==
  /\ Go(r, "read", "idle") /\ lock = Free
  /\ status' \in {"completed", "refunded"}
  /\ lost' = (lost \/ status # "review" \/ (pc[Watcher] = "finalizing" /\ seen \in Payable))
  /\ UNCHANGED <<matched, due, row, lock, job, seen>>

-----------------------------------------------------------------------------
\* Any transaction may be rolled back: an error, a lost connection, a restart.
Rollback(a) ==
  /\ pc[a] # "idle"
  /\ pc' = [pc EXCEPT ![a] = "idle"]
  /\ lock' = IF lock = a THEN Free ELSE lock
  /\ UNCHANGED <<status, matched, due, row, job, seen, lost>>

ExpiryPasses ==
  /\ ~due /\ due' = TRUE
  /\ UNCHANGED <<status, matched, row, lock, pc, job, seen, lost>>

WatcherStep ==
  \/ \E s \in Settlements : \/ IngestLock(s) \/ FinalizeRead(s)
                            \/ ReverseRead(s) \/ ReverseUnmatched(s)
  \/ IngestCommit
  \/ FinalizeNoop \/ FinalizeFlush \/ FinalizeCommit
  \/ ReverseFlush \/ ReverseCommit

CancelStep(c)  == CancelLock(c) \/ CancelRefused(c) \/ CancelCleared(c) \/ CancelCommit(c)
ExpireStep(w)  == ClaimStart(w) \/ ClaimLock(w) \/ ClaimLost(w) \/ ClaimCommit(w)
GetStep(g)     == GetRead(g) \/ GetCheck(g) \/ GetCommit(g)
ResolveStep(r) == ResolveRead(r) \/ ResolveCommit(r)

Next ==
  \/ WatcherStep
  \/ \E c \in Cancellers : CancelStep(c)
  \/ \E w \in Expirers : ExpireStep(w)
  \/ \E g \in Getters : GetStep(g)
  \/ \E r \in Resolvers : ResolveStep(r)
  \/ \E a \in Actors : Rollback(a)
  \/ ExpiryPasses

Spec == Init /\ [][Next]_vars

-----------------------------------------------------------------------------
(* Properties.                                                             *)

\* F-5: an intent with an observed payment is never cancelled.  The lock that
\* ingest and cancel both take is what makes the hold check and the write one.
HoldExcludesCancel ==
  [][status' = "cancelled" /\ status # "cancelled" => ~Hold]_vars

\* B-1, as its comment has it: an intent with an observed payment never expires.
HoldExcludesExpiry ==
  [][status' = "expired" /\ status # "expired" => ~Hold]_vars

\* The intent is matched to a settlement only while that settlement is final.
MatchedIsFinal == matched # NoSettlement => row[matched] = "final"

\* Every committed change of the intent is a step of its life cycle, until GET or
\* resolve, which write without a lock, overwrite a status they have not read.
Lifecycle == INSTANCE IntentLifecycle
KeepsLifecycle == Lifecycle!Init /\ [][Lifecycle!Next \/ lost']_(Lifecycle!vars)

\* A transaction that has begun goes on, row locks are granted in turn, and the
\* expiry task, which runs every minute, is not rolled back every time: neither
\* while another transaction makes it wait, nor before it commits.
Fairness ==
  /\ WF_vars(WatcherStep /\ pc[Watcher] # "idle")
  /\ \A c \in Cancellers : WF_vars(CancelStep(c) /\ pc[c] # "idle")
  /\ \A w \in Expirers : /\ WF_vars(ExpireStep(w))
                         /\ SF_vars(pc[w] = "waiting" /\ lock # Free /\ lock' = Free /\ Next)
                         /\ SF_vars(ClaimLock(w))
                         /\ SF_vars(ClaimCommit(w))

LiveSpec == Spec /\ Fairness

\* A pending intent whose time is over does not stay so: it is closed, unless a
\* payment is observed.
DueIsClosed == due /\ status = "pending" /\ ~Hold ~> status # "pending" \/ Hold
=============================================================================
