---------------------- MODULE IntentTransactions_proofs ----------------------
(***************************************************************************)
(* Proofs about IntentTransactions, for any number of settlements and of   *)
(* concurrent requests.                                                    *)
(***************************************************************************)
EXTENDS IntentTransactions, TLAPS

-----------------------------------------------------------------------------
(* Types and the row lock.                                                 *)

LEMMA InitTypeOK == ASSUME ConstantsOK, Init PROVE TypeOK
  BY DEF ConstantsOK, Init, TypeOK, IntentStatus, RowStatus, Places, Locking, Actors

LEMMA WatcherTypeOK == ASSUME ConstantsOK, TypeOK, WatcherStep PROVE TypeOK'
<1>. USE DEF TypeOK, IntentStatus, RowStatus, Places, Locking, Go, Take, Release
<1>0. Watcher \in Actors /\ Free \notin Actors
  BY DEF ConstantsOK, Actors
<1>1. ASSUME NEW s \in Settlements, IngestLock(s) PROVE TypeOK'
  BY <1>0, <1>1 DEF IngestLock
<1>2. ASSUME NEW s \in Settlements, FinalizeRead(s) PROVE TypeOK'
  BY <1>0, <1>2 DEF FinalizeRead
<1>3. ASSUME NEW s \in Settlements, ReverseRead(s) PROVE TypeOK'
  BY <1>0, <1>3 DEF ReverseRead
<1>4. ASSUME NEW s \in Settlements, ReverseUnmatched(s) PROVE TypeOK'
  BY <1>0, <1>4 DEF ReverseUnmatched
<1>5. CASE IngestCommit
  BY <1>0, <1>5 DEF IngestCommit
<1>6. CASE FinalizeNoop
  BY <1>0, <1>6 DEF FinalizeNoop
<1>7. CASE FinalizeFlush
  BY <1>0, <1>7 DEF FinalizeFlush
<1>8. CASE FinalizeCommit
  BY <1>0, <1>8 DEF FinalizeCommit
<1>9. CASE ReverseFlush
  BY <1>0, <1>9 DEF ReverseFlush
<1>10. CASE ReverseCommit
  BY <1>0, <1>10 DEF ReverseCommit
<1>. QED BY <1>1, <1>2, <1>3, <1>4, <1>5, <1>6, <1>7, <1>8, <1>9, <1>10 DEF WatcherStep

LEMMA RequestTypeOK ==
  ASSUME ConstantsOK, TypeOK,
         \/ \E c \in Cancellers : CancelStep(c)
         \/ \E w \in Expirers : ExpireStep(w)
         \/ \E g \in Getters : GetStep(g)
         \/ \E r \in Resolvers : ResolveStep(r)
  PROVE TypeOK'
<1>. USE DEF TypeOK, IntentStatus, RowStatus, Places, Locking, Go, Take, Release
<1>0. /\ Cancellers \cup Expirers \cup Getters \cup Resolvers \subseteq Actors
      /\ Free \notin Actors
  BY DEF ConstantsOK, Actors
<1>1. ASSUME NEW c \in Cancellers, CancelStep(c) PROVE TypeOK'
  <2>1. CASE CancelLock(c)
    BY <1>0, <2>1 DEF CancelLock
  <2>2. CASE CancelRefused(c)
    BY <1>0, <2>2 DEF CancelRefused
  <2>3. CASE CancelCleared(c)
    BY <1>0, <2>3 DEF CancelCleared
  <2>4. CASE CancelCommit(c)
    BY <1>0, <2>4 DEF CancelCommit
  <2>. QED BY <1>1, <2>1, <2>2, <2>3, <2>4 DEF CancelStep
<1>2. ASSUME NEW w \in Expirers, ExpireStep(w) PROVE TypeOK'
  <2>1. CASE ClaimStart(w)
    BY <1>0, <2>1 DEF ClaimStart
  <2>2. CASE ClaimLock(w)
    BY <1>0, <2>2 DEF ClaimLock
  <2>3. CASE ClaimLost(w)
    BY <1>0, <2>3 DEF ClaimLost
  <2>4. CASE ClaimCommit(w)
    BY <1>0, <2>4 DEF ClaimCommit
  <2>. QED BY <1>2, <2>1, <2>2, <2>3, <2>4 DEF ExpireStep
<1>3. ASSUME NEW g \in Getters, GetStep(g) PROVE TypeOK'
  <2>1. lost' \in BOOLEAN
    BY <1>3, Zenon DEF GetStep, GetRead, GetCheck, GetCommit
  <2>2. CASE GetRead(g)
    BY <1>0, <2>1, <2>2 DEF GetRead
  <2>3. CASE GetCheck(g)
    BY <1>0, <2>1, <2>3 DEF GetCheck
  <2>4. CASE GetCommit(g)
    BY <1>0, <2>1, <2>4 DEF GetCommit
  <2>. QED BY <1>3, <2>2, <2>3, <2>4 DEF GetStep
<1>4. ASSUME NEW r \in Resolvers, ResolveStep(r) PROVE TypeOK'
  <2>1. lost' \in BOOLEAN
    BY <1>4, Zenon DEF ResolveStep, ResolveRead, ResolveCommit
  <2>2. CASE ResolveRead(r)
    BY <1>0, <2>1, <2>2 DEF ResolveRead
  <2>3. CASE ResolveCommit(r)
    BY <1>0, <2>1, <2>3 DEF ResolveCommit
  <2>. QED BY <1>4, <2>2, <2>3 DEF ResolveStep
<1>. QED BY <1>1, <1>2, <1>3, <1>4

LEMMA NextTypeOK == ASSUME ConstantsOK, TypeOK, [Next]_vars PROVE TypeOK'
<1>1. ASSUME NEW a \in Actors, Rollback(a) PROVE TypeOK'
  BY <1>1 DEF Rollback, TypeOK, ConstantsOK, Places, Locking
<1>2. CASE ExpiryPasses
  BY <1>2 DEF ExpiryPasses, TypeOK
<1>3. CASE UNCHANGED vars
  BY <1>3 DEF vars, TypeOK
<1>. QED BY <1>1, <1>2, <1>3, WatcherTypeOK, RequestTypeOK DEF Next

\* The type invariant, which includes that a transaction holds the row lock
\* exactly from its locking statement to its end.
THEOREM TypeCorrect == Spec => []TypeOK
<1>1. Init => TypeOK
  BY InitTypeOK, ConstantsOK
<1>2. TypeOK /\ [Next]_vars => TypeOK'
  BY NextTypeOK, ConstantsOK
<1>. QED BY <1>1, <1>2, PTL DEF Spec

\* One transaction holds the lock.
LEMMA OneHolder ==
  ASSUME TypeOK, NEW a \in Actors, NEW b \in Actors,
         pc[a] \in Locking, pc[b] \in Locking
  PROVE a = b
  BY DEF TypeOK

-----------------------------------------------------------------------------
(* What the watcher is working on.                                         *)

\* Nobody else touches a settlement row: what the watcher read of it stands.
JobInv ==
  /\ MatchedIsFinal
  /\ pc[Watcher] # "idle" => job \in Settlements
  /\ pc[Watcher] = "ingesting" => row[job] # "final"
  /\ pc[Watcher] \in {"finalizing", "paying"} => row[job] = "pending"
  /\ pc[Watcher] \in {"reversing", "unpaying"} => matched = job

LEMMA JobUntouched ==
  ASSUME JobInv, UNCHANGED <<matched, row, job>>, pc'[Watcher] \in {pc[Watcher], "idle"}
  PROVE  JobInv'
  BY DEF JobInv, MatchedIsFinal

LEMMA WatcherKeepsJob ==
  ASSUME ConstantsOK, TypeOK, JobInv, WatcherStep PROVE JobInv'
<1>. USE DEF JobInv, MatchedIsFinal, TypeOK, Go, ConstantsOK, Actors
<1>1. ASSUME NEW s \in Settlements, IngestLock(s) PROVE JobInv'
  BY <1>1 DEF IngestLock
<1>2. ASSUME NEW s \in Settlements, FinalizeRead(s) PROVE JobInv'
  BY <1>2 DEF FinalizeRead
<1>3. ASSUME NEW s \in Settlements, ReverseRead(s) PROVE JobInv'
  BY <1>3 DEF ReverseRead
<1>4. ASSUME NEW s \in Settlements, ReverseUnmatched(s) PROVE JobInv'
  BY <1>4 DEF ReverseUnmatched
<1>5. CASE IngestCommit
  BY <1>5 DEF IngestCommit
<1>6. CASE FinalizeNoop
  BY <1>6 DEF FinalizeNoop
<1>7. CASE FinalizeFlush
  BY <1>7 DEF FinalizeFlush
<1>8. CASE FinalizeCommit
  BY <1>8 DEF FinalizeCommit
<1>9. CASE ReverseFlush
  BY <1>9 DEF ReverseFlush
<1>10. CASE ReverseCommit
  BY <1>10 DEF ReverseCommit
<1>. QED BY <1>1, <1>2, <1>3, <1>4, <1>5, <1>6, <1>7, <1>8, <1>9, <1>10 DEF WatcherStep

\* The requests change neither the settlements nor the watcher.
LEMMA RequestsSpareJob ==
  ASSUME ConstantsOK, TypeOK,
         \/ \E c \in Cancellers : CancelStep(c)
         \/ \E w \in Expirers : ExpireStep(w)
         \/ \E g \in Getters : GetStep(g)
         \/ \E r \in Resolvers : ResolveStep(r)
  PROVE  UNCHANGED <<matched, row, job, seen>> /\ pc'[Watcher] = pc[Watcher]
<1>. USE DEF ConstantsOK, TypeOK, Actors, Go
<1>1. ASSUME NEW c \in Cancellers, CancelStep(c)
      PROVE  UNCHANGED <<matched, row, job, seen>> /\ pc'[Watcher] = pc[Watcher]
  BY <1>1 DEF CancelStep, CancelLock, CancelRefused, CancelCleared, CancelCommit
<1>2. ASSUME NEW w \in Expirers, ExpireStep(w)
      PROVE  UNCHANGED <<matched, row, job, seen>> /\ pc'[Watcher] = pc[Watcher]
  BY <1>2 DEF ExpireStep, ClaimStart, ClaimLock, ClaimLost, ClaimCommit
<1>3. ASSUME NEW g \in Getters, GetStep(g)
      PROVE  UNCHANGED <<matched, row, job, seen>> /\ pc'[Watcher] = pc[Watcher]
  BY <1>3 DEF GetStep, GetRead, GetCheck, GetCommit
<1>4. ASSUME NEW r \in Resolvers, ResolveStep(r)
      PROVE  UNCHANGED <<matched, row, job, seen>> /\ pc'[Watcher] = pc[Watcher]
  BY <1>4 DEF ResolveStep, ResolveRead, ResolveCommit
<1>. QED BY <1>1, <1>2, <1>3, <1>4

LEMMA NextKeepsJob == ASSUME ConstantsOK, TypeOK, JobInv, [Next]_vars PROVE JobInv'
<1>1. ASSUME NEW a \in Actors, Rollback(a) PROVE JobInv'
  <2>1. pc'[Watcher] \in {pc[Watcher], "idle"}
    BY <1>1 DEF Rollback, TypeOK, Actors
  <2>. QED BY <1>1, <2>1, JobUntouched DEF Rollback
<1>2. CASE ExpiryPasses \/ UNCHANGED vars
  BY <1>2, JobUntouched DEF ExpiryPasses, vars
<1>. QED BY <1>1, <1>2, WatcherKeepsJob, RequestsSpareJob, JobUntouched DEF Next

LEMMA JobHolds == Spec => []JobInv
<1>1. Init => JobInv
  BY DEF Init, JobInv, MatchedIsFinal, Actors
<1>2. TypeOK /\ JobInv /\ [Next]_vars => JobInv'
  BY NextKeepsJob, ConstantsOK
<1>. QED BY <1>1, <1>2, TypeCorrect, PTL DEF Spec

\* The settlement an intent is matched to is final, whatever GET and resolve
\* write over the status.
THEOREM MatchedStaysFinal == Spec => []MatchedIsFinal
<1>1. JobInv => MatchedIsFinal
  BY DEF JobInv
<1>. QED BY <1>1, JobHolds, PTL

-----------------------------------------------------------------------------
(* A payment that was observed is never cancelled.                         *)

\* What the hold check of a cancel found stands until the cancel commits.
CancelInv == \A c \in Cancellers : pc[c] = "cleared" => ~Hold

LEMMA CancelUntouched ==
  ASSUME CancelInv, Hold' => Hold,
         \A c \in Cancellers : pc'[c] = "cleared" => pc[c] = "cleared"
  PROVE  CancelInv'
  BY DEF CancelInv

LEMMA WatcherKeepsCancel ==
  ASSUME ConstantsOK, TypeOK, JobInv, CancelInv, WatcherStep PROVE CancelInv'
<1>. USE DEF TypeOK, Go, ConstantsOK, Actors
<1>1. \A c \in Cancellers : pc'[c] = pc[c]
  BY DEF WatcherStep, IngestLock, FinalizeRead, ReverseRead, ReverseUnmatched, IngestCommit,
         FinalizeNoop, FinalizeFlush, FinalizeCommit, ReverseFlush, ReverseCommit
<1>2. CASE IngestCommit
  <2>1. lock = Watcher
    BY <1>2 DEF IngestCommit, Locking
  <2>2. \A c \in Cancellers : pc[c] # "cleared"
    BY <2>1 DEF Locking
  <2>. QED BY <1>1, <2>2 DEF CancelInv
<1>3. ASSUME ~IngestCommit PROVE Hold' => Hold
  <2>. USE DEF Hold, JobInv
  <2>1. ASSUME NEW s \in Settlements, IngestLock(s) \/ FinalizeRead(s) \/ ReverseRead(s)
        PROVE  Hold' => Hold
    BY <2>1 DEF IngestLock, FinalizeRead, ReverseRead
  <2>2. ASSUME NEW s \in Settlements, ReverseUnmatched(s) PROVE Hold' => Hold
    BY <2>2 DEF ReverseUnmatched
  <2>3. CASE FinalizeNoop
    BY <2>3 DEF FinalizeNoop
  <2>4. CASE FinalizeCommit
    BY <2>4 DEF FinalizeCommit
  <2>5. CASE ReverseCommit
    BY <2>5 DEF ReverseCommit
  <2>6. CASE FinalizeFlush \/ ReverseFlush
    BY <2>6 DEF FinalizeFlush, ReverseFlush
  <2>. QED BY <1>3, <2>1, <2>2, <2>3, <2>4, <2>5, <2>6 DEF WatcherStep
<1>. QED BY <1>1, <1>2, <1>3, CancelUntouched

LEMMA RequestsKeepCancel ==
  ASSUME ConstantsOK, TypeOK, CancelInv,
         \/ \E c \in Cancellers : CancelStep(c)
         \/ \E w \in Expirers : ExpireStep(w)
         \/ \E g \in Getters : GetStep(g)
         \/ \E r \in Resolvers : ResolveStep(r)
  PROVE  CancelInv'
<1>. USE DEF TypeOK, ConstantsOK, Actors, Go
<1>1. Hold' = Hold
  BY RequestsSpareJob DEF Hold
<1>2. ASSUME NEW c \in Cancellers, CancelStep(c) PROVE CancelInv'
  <2>1. CASE CancelCleared(c)
    BY <1>1, <2>1 DEF CancelCleared, CancelInv
  <2>2. CASE ~CancelCleared(c)
    <3>1. \A d \in Cancellers : pc'[d] = "cleared" => pc[d] = "cleared"
      BY <1>2, <2>2 DEF CancelStep, CancelLock, CancelRefused, CancelCommit
    <3>. QED BY <1>1, <3>1, CancelUntouched
  <2>. QED BY <2>1, <2>2
<1>3. ASSUME NEW w \in Expirers, ExpireStep(w) PROVE CancelInv'
  <2>1. \A d \in Cancellers : pc'[d] = pc[d]
    BY <1>3 DEF ExpireStep, ClaimStart, ClaimLock, ClaimLost, ClaimCommit
  <2>. QED BY <1>1, <2>1, CancelUntouched
<1>4. ASSUME NEW g \in Getters, GetStep(g) PROVE CancelInv'
  <2>1. \A d \in Cancellers : pc'[d] = pc[d]
    BY <1>4 DEF GetStep, GetRead, GetCheck, GetCommit
  <2>. QED BY <1>1, <2>1, CancelUntouched
<1>5. ASSUME NEW r \in Resolvers, ResolveStep(r) PROVE CancelInv'
  <2>1. \A d \in Cancellers : pc'[d] = pc[d]
    BY <1>5 DEF ResolveStep, ResolveRead, ResolveCommit
  <2>. QED BY <1>1, <2>1, CancelUntouched
<1>. QED BY <1>2, <1>3, <1>4, <1>5

LEMMA CancelHolds == Spec => []CancelInv
<1>1. Init => CancelInv
  BY DEF Init, CancelInv, Actors
<1>2. TypeOK /\ JobInv /\ CancelInv /\ [Next]_vars => CancelInv'
  <2>. SUFFICES ASSUME TypeOK, JobInv, CancelInv, [Next]_vars PROVE CancelInv'
    OBVIOUS
  <2>1. ASSUME NEW a \in Actors, Rollback(a) PROVE CancelInv'
    BY <2>1 DEF Rollback, CancelInv, Hold, TypeOK, Actors
  <2>2. CASE ExpiryPasses \/ UNCHANGED vars
    BY <2>2 DEF ExpiryPasses, vars, CancelInv, Hold
  <2>. QED BY <2>1, <2>2, WatcherKeepsCancel, RequestsKeepCancel, ConstantsOK DEF Next
<1>. QED BY <1>1, <1>2, TypeCorrect, JobHolds, PTL DEF Spec

\* Only the commit of a cancel writes cancelled.
LEMMA OnlyCancelCancels ==
  ASSUME [Next]_vars, status' = "cancelled", status # "cancelled"
  PROVE  \E c \in Cancellers : CancelCommit(c)
<1>1. ~WatcherStep
  BY DEF WatcherStep, IngestLock, FinalizeRead, ReverseRead, ReverseUnmatched, IngestCommit,
         FinalizeNoop, FinalizeFlush, FinalizeCommit, ReverseFlush, ReverseCommit
<1>2. \A w \in Expirers : ~ExpireStep(w)
  BY DEF ExpireStep, ClaimStart, ClaimLock, ClaimLost, ClaimCommit
<1>3. \A g \in Getters : ~GetStep(g)
  BY DEF GetStep, GetRead, GetCheck, GetCommit
<1>4. \A r \in Resolvers : ~ResolveStep(r)
  BY DEF ResolveStep, ResolveRead, ResolveCommit
<1>5. ~(\E a \in Actors : Rollback(a)) /\ ~ExpiryPasses /\ ~UNCHANGED vars
  BY DEF Rollback, ExpiryPasses, vars
<1>6. \A c \in Cancellers : CancelStep(c) => CancelCommit(c)
  BY DEF CancelStep, CancelLock, CancelRefused, CancelCleared
<1>. QED BY <1>1, <1>2, <1>3, <1>4, <1>5, <1>6 DEF Next

\* An intent with an observed payment is never cancelled, whatever the number
\* of concurrent requests and settlements (F-5).
THEOREM HeldIsNeverCancelled == Spec => HoldExcludesCancel
<1>. DEFINE Excludes == status' = "cancelled" /\ status # "cancelled" => ~Hold
<1>1. CancelInv /\ [Next]_vars => [Excludes]_vars
  BY OnlyCancelCancels DEF CancelInv, CancelCommit, Go
<1>. QED BY <1>1, CancelHolds, PTL DEF Spec, HoldExcludesCancel

-----------------------------------------------------------------------------
(* The transactions keep the life cycle until a status is overwritten unread. *)

\* What each transaction has read of the status, or found under the lock, stands.
Reads ==
  /\ \A c \in Cancellers : pc[c] \in {"locked", "cleared"} => status = "pending"
  /\ \A w \in Expirers : pc[w] = "claimed" => status = "pending"
  /\ matched # NoSettlement => status = "paid"
  /\ pc[Watcher] = "paying" => status \in Payable
  /\ pc[Watcher] = "finalizing" /\ seen \in Payable => status \in Payable

StatusInv == ~lost => Reads

LEMMA WatcherKeepsStatus ==
  ASSUME ConstantsOK, TypeOK, JobInv, Reads, WatcherStep PROVE Reads'
<1>. USE DEF TypeOK, Reads, Go, Take, ConstantsOK, Actors
<1>1. \A a \in Cancellers \cup Expirers : pc'[a] = pc[a]
  BY DEF WatcherStep, IngestLock, FinalizeRead, ReverseRead, ReverseUnmatched, IngestCommit,
         FinalizeNoop, FinalizeFlush, FinalizeCommit, ReverseFlush, ReverseCommit
<1>2. ASSUME FinalizeCommit \/ ReverseCommit
      PROVE  \A a \in Cancellers \cup Expirers : pc[a] \notin Locking
  <2>1. pc[Watcher] \in Locking
    BY <1>2 DEF FinalizeCommit, ReverseCommit, Locking
  <2>. QED BY <2>1, OneHolder
<1>3. CASE FinalizeCommit
  <2>1. \A a \in Cancellers \cup Expirers : pc'[a] \notin Locking
    BY <1>1, <1>2, <1>3
  <2>. QED BY <1>3, <2>1 DEF FinalizeCommit, Locking
<1>4. CASE ReverseCommit
  BY <1>1, <1>4 DEF ReverseCommit
<1>5. ASSUME NEW s \in Settlements, FinalizeRead(s) PROVE Reads'
  BY <1>1, <1>5 DEF FinalizeRead
<1>6. CASE FinalizeFlush
  BY <1>1, <1>6 DEF FinalizeFlush
<1>7. ASSUME \/ \E s \in Settlements : IngestLock(s) \/ ReverseRead(s) \/ ReverseUnmatched(s)
             \/ IngestCommit \/ FinalizeNoop \/ ReverseFlush
      PROVE  Reads'
  BY <1>1, <1>7 DEF IngestLock, ReverseRead, ReverseUnmatched, IngestCommit, FinalizeNoop,
                    ReverseFlush
<1>. QED BY <1>3, <1>4, <1>5, <1>6, <1>7 DEF WatcherStep

LEMMA RequestsKeepStatus ==
  ASSUME ConstantsOK, TypeOK, JobInv, CancelInv, Reads,
         \/ \E c \in Cancellers : CancelStep(c)
         \/ \E w \in Expirers : ExpireStep(w)
         \/ \E g \in Getters : GetStep(g)
         \/ \E r \in Resolvers : ResolveStep(r)
  PROVE  StatusInv'
<1>. USE DEF TypeOK, Go, Take, ConstantsOK, Actors
<1>1. UNCHANGED <<matched, row, job, seen>> /\ pc'[Watcher] = pc[Watcher]
  BY RequestsSpareJob
<1>2. ASSUME NEW c \in Cancellers, CancelStep(c) PROVE Reads'
  <2>1. CASE CancelCommit(c)
    <3>1. pc[c] \in Locking /\ status = "pending"
      BY <2>1 DEF CancelCommit, Locking, Reads
    <3>2. \A a \in Actors : pc'[a] \in Locking => FALSE
      BY <2>1, <3>1, OneHolder DEF CancelCommit, Locking
    <3>3. pc[Watcher] = "finalizing" => FALSE
      BY <2>1 DEF CancelCommit, CancelInv, Hold, JobInv
    <3>. QED BY <1>1, <3>1, <3>2, <3>3 DEF Reads, Locking
  <2>2. CASE CancelLock(c)
    BY <1>1, <2>2 DEF CancelLock, Reads
  <2>3. CASE CancelRefused(c) \/ CancelCleared(c)
    BY <1>1, <2>3 DEF CancelRefused, CancelCleared, Reads
  <2>. QED BY <1>2, <2>1, <2>2, <2>3 DEF CancelStep
<1>3. ASSUME NEW w \in Expirers, ExpireStep(w) PROVE Reads'
  <2>1. CASE ClaimCommit(w)
    <3>1. pc[w] \in Locking /\ status = "pending"
      BY <2>1 DEF ClaimCommit, Locking, Reads
    <3>2. \A a \in Actors : pc'[a] \in Locking => FALSE
      BY <2>1, <3>1, OneHolder DEF ClaimCommit, Locking
    <3>. QED BY <1>1, <2>1, <3>1, <3>2 DEF ClaimCommit, Reads, Locking, Payable
  <2>2. CASE ClaimLock(w)
    BY <1>1, <2>2 DEF ClaimLock, Reads
  <2>3. CASE ClaimStart(w) \/ ClaimLost(w)
    BY <1>1, <2>3 DEF ClaimStart, ClaimLost, Reads
  <2>. QED BY <1>3, <2>1, <2>2, <2>3 DEF ExpireStep
<1>4. ASSUME NEW g \in Getters, GetStep(g) PROVE StatusInv'
  <2>1. CASE GetCommit(g)
    <3>1. \A a \in Actors : pc'[a] \in Locking => FALSE
      BY <2>1 DEF GetCommit, Locking
    <3>2. SUFFICES ASSUME status \in {"pending", "expired"} PROVE Reads'
      BY <2>1 DEF GetCommit, StatusInv
    <3>3. status' = "expired" /\ matched = NoSettlement
      BY <2>1, <3>2 DEF GetCommit, Reads
    <3>. QED BY <1>1, <3>1, <3>3 DEF Reads, Locking, Payable
  <2>2. CASE GetRead(g)
    BY <1>1, <2>2 DEF GetRead, Reads, StatusInv
  <2>3. CASE GetCheck(g)
    BY <1>1, <2>3 DEF GetCheck, Reads, StatusInv
  <2>. QED BY <1>4, <2>1, <2>2, <2>3 DEF GetStep
<1>5. ASSUME NEW r \in Resolvers, ResolveStep(r) PROVE StatusInv'
  <2>1. CASE ResolveCommit(r)
    <3>1. \A a \in Actors : pc'[a] \in Locking => FALSE
      BY <2>1 DEF ResolveCommit, Locking
    <3>2. SUFFICES ASSUME status = "review", ~(pc[Watcher] = "finalizing" /\ seen \in Payable)
                   PROVE  Reads'
      BY <2>1 DEF ResolveCommit, StatusInv
    <3>3. matched = NoSettlement
      BY <3>2 DEF Reads
    <3>. QED BY <1>1, <3>1, <3>2, <3>3 DEF Reads, Locking
  <2>2. CASE ResolveRead(r)
    BY <1>1, <2>2 DEF ResolveRead, Reads, StatusInv
  <2>. QED BY <1>5, <2>1, <2>2 DEF ResolveStep
<1>. QED BY <1>2, <1>3, <1>4, <1>5 DEF StatusInv

\* lost is never taken back.
LEMMA LostStays == ASSUME [Next]_vars, TypeOK, ~lost' PROVE ~lost
<1>1. WatcherStep => lost' = lost
  BY DEF WatcherStep, IngestLock, FinalizeRead, ReverseRead, ReverseUnmatched, IngestCommit,
         FinalizeNoop, FinalizeFlush, FinalizeCommit, ReverseFlush, ReverseCommit
<1>2. ASSUME NEW c \in Cancellers, CancelStep(c) PROVE lost' = lost
  BY <1>2 DEF CancelStep, CancelLock, CancelRefused, CancelCleared, CancelCommit
<1>3. ASSUME NEW w \in Expirers, ExpireStep(w) PROVE lost' = lost
  BY <1>3 DEF ExpireStep, ClaimStart, ClaimLock, ClaimLost, ClaimCommit
<1>4. ASSUME NEW g \in Getters, GetStep(g) PROVE lost => lost'
  BY <1>4 DEF GetStep, GetRead, GetCheck, GetCommit
<1>5. ASSUME NEW r \in Resolvers, ResolveStep(r) PROVE lost => lost'
  BY <1>5 DEF ResolveStep, ResolveRead, ResolveCommit
<1>6. (\E a \in Actors : Rollback(a)) \/ ExpiryPasses \/ UNCHANGED vars => lost' = lost
  BY DEF Rollback, ExpiryPasses, vars
<1>. QED BY <1>1, <1>2, <1>3, <1>4, <1>5, <1>6 DEF Next

LEMMA StatusHolds == Spec => []StatusInv
<1>1. Init => StatusInv
  BY DEF Init, StatusInv, Reads, Actors
<1>2. TypeOK /\ JobInv /\ CancelInv /\ StatusInv /\ [Next]_vars => StatusInv'
  <2>. SUFFICES ASSUME TypeOK, JobInv, CancelInv, StatusInv, [Next]_vars, ~lost'
                PROVE  StatusInv'
    BY DEF StatusInv
  <2>0. Reads
    BY LostStays DEF StatusInv
  <2>1. ASSUME NEW a \in Actors, Rollback(a) PROVE StatusInv'
    BY <2>0, <2>1 DEF Rollback, StatusInv, Reads, TypeOK, Actors
  <2>2. CASE ExpiryPasses \/ UNCHANGED vars
    BY <2>0, <2>2 DEF ExpiryPasses, vars, StatusInv, Reads
  <2>3. CASE WatcherStep
    BY <2>0, <2>3, WatcherKeepsStatus, ConstantsOK DEF StatusInv
  <2>. QED BY <2>0, <2>1, <2>2, <2>3, RequestsKeepStatus, ConstantsOK DEF Next
<1>. QED BY <1>1, <1>2, TypeCorrect, JobHolds, CancelHolds, PTL DEF Spec

\* A watcher's step is a payment, the reversal of one, or not the intent's concern.
LEMMA WatcherRefines ==
  ASSUME ConstantsOK, TypeOK, JobInv, Reads, WatcherStep
  PROVE  Lifecycle!Next \/ UNCHANGED Lifecycle!vars
<1>. USE DEF Lifecycle!Next, Lifecycle!vars, Go, TypeOK, Actors
<1>1. CASE FinalizeCommit
  <2>1. job \in Settlements /\ status \in Payable
    BY <1>1 DEF FinalizeCommit, JobInv, Reads
  <2>. QED BY <1>1, <2>1 DEF FinalizeCommit, Lifecycle!Pay, Payable
<1>2. CASE ReverseCommit
  <2>1. matched = job /\ job \in Settlements
    BY <1>2 DEF ReverseCommit, JobInv
  <2>2. status = "paid"
    BY <2>1 DEF Reads, ConstantsOK
  <2>. QED BY <1>2, <2>2 DEF ReverseCommit, Lifecycle!Unpay
<1>. QED BY <1>1, <1>2 DEF WatcherStep, IngestLock, FinalizeRead, ReverseRead, ReverseUnmatched,
       IngestCommit, FinalizeNoop, FinalizeFlush, ReverseFlush

\* A request closes a pending intent, resolves a review, leaves the intent alone,
\* or overwrites what it has not read.
LEMMA RequestsRefine ==
  ASSUME TypeOK, Reads,
         \/ \E c \in Cancellers : CancelStep(c)
         \/ \E w \in Expirers : ExpireStep(w)
         \/ \E g \in Getters : GetStep(g)
         \/ \E r \in Resolvers : ResolveStep(r)
  PROVE  Lifecycle!Next \/ lost' \/ UNCHANGED Lifecycle!vars
<1>. USE DEF Lifecycle!Next, Lifecycle!Close, Lifecycle!vars, Go, Reads
<1>1. ASSUME NEW c \in Cancellers, CancelStep(c)
      PROVE  Lifecycle!Next \/ UNCHANGED Lifecycle!vars
  BY <1>1 DEF CancelStep, CancelLock, CancelRefused, CancelCleared, CancelCommit
<1>2. ASSUME NEW w \in Expirers, ExpireStep(w)
      PROVE  Lifecycle!Next \/ UNCHANGED Lifecycle!vars
  BY <1>2 DEF ExpireStep, ClaimStart, ClaimLock, ClaimLost, ClaimCommit
<1>3. ASSUME NEW g \in Getters, GetStep(g)
      PROVE  Lifecycle!Next \/ lost' \/ UNCHANGED Lifecycle!vars
  BY <1>3 DEF GetStep, GetRead, GetCheck, GetCommit
<1>4. ASSUME NEW r \in Resolvers, ResolveStep(r)
      PROVE  Lifecycle!Next \/ lost' \/ UNCHANGED Lifecycle!vars
  BY <1>4 DEF ResolveStep, ResolveRead, ResolveCommit
<1>. QED BY <1>1, <1>2, <1>3, <1>4

\* Every committed change of the status is a step of IntentLifecycle, for any number
\* of concurrent requests, until GET or resolve, which write without the lock,
\* overwrite a status they have not read: no other stale read is ever written back.
THEOREM TransactionsKeepLifecycle == Spec => KeepsLifecycle
<1>. DEFINE Lawful == Lifecycle!Next \/ lost'
<1>1. Init => Lifecycle!Init
  BY ConstantsOK DEF Init, Lifecycle!Init, ConstantsOK
<1>2. TypeOK /\ JobInv /\ StatusInv /\ [Next]_vars => [Lawful]_(Lifecycle!vars)
  <2>. SUFFICES ASSUME TypeOK, JobInv, StatusInv, [Next]_vars, ~lost'
                PROVE  Lifecycle!Next \/ lost' \/ UNCHANGED Lifecycle!vars
    OBVIOUS
  <2>1. Reads
    BY LostStays DEF StatusInv
  <2>2. CASE (\E a \in Actors : Rollback(a)) \/ ExpiryPasses \/ UNCHANGED vars
    BY <2>2 DEF Rollback, ExpiryPasses, vars, Lifecycle!vars
  <2>. QED BY <2>1, <2>2, WatcherRefines, RequestsRefine, ConstantsOK DEF Next
<1>. QED BY <1>1, <1>2, TypeCorrect, JobHolds, StatusHolds, PTL
        DEF Spec, KeepsLifecycle
=============================================================================
