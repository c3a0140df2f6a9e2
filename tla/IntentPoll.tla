----------------------------- MODULE IntentPoll -----------------------------
(***************************************************************************)
(* The poll of the hosted checkout (lib/web3/usePaymentIntent.ts): what the *)
(* payer's page knows of its intent, and how it comes to know it.  A tick   *)
(* opens a fetch and nothing ever aborts one, so answers are served and     *)
(* arrive in any order; one timer carries the poll on.                      *)
(***************************************************************************)
CONSTANT Requests        \* the fetches that may be open at once (a bound)

VARIABLES
  status,      \* the intent as the backend has it; "absent" when it has none
  phase,       \* the page: loading, not_found, unreachable, or the status shown
  backendPaid, \* the state of that name: a paid status was read
  mode,        \* modeRef: initial, watch, sync or stopped
  timer,       \* timerRef is set
  windowOver,  \* the initial fetch has been failing for its whole window
  requests     \* each open fetch: sent, or the status it was served with

pageVars == <<phase, backendPaid, mode, timer, windowOver, requests>>
pollVars == <<status, pageVars>>

\* "review" stands for every status settled from the payer's side that is not
\* a paid one (review, refunded, partial, overpaid); "expired" for a dead one.
Statuses == {"pending", "completed", "review", "expired"}
Phases   == {"loading", "not_found", "unreachable"} \cup Statuses
Modes    == {"initial", "watch", "sync", "stopped"}
Answers  == Statuses \cup {"absent"}

PollTypeOK ==
  /\ status \in Answers /\ phase \in Phases
  /\ mode \in Modes
  /\ backendPaid \in BOOLEAN /\ timer \in BOOLEAN /\ windowOver \in BOOLEAN
  /\ requests \in [Requests -> Answers \cup {"free", "sent"}]

PollInit ==
  /\ status \in Answers
  /\ phase = "loading" /\ mode = "initial"
  /\ backendPaid = FALSE /\ timer = FALSE /\ windowOver = FALSE
  /\ \E first \in Requests :
       requests = [r \in Requests |-> IF r = first THEN "sent" ELSE "free"]

\* A faulty variant: any status that is neither pending nor dead.
PaidOrSettled(answer) == answer \in {"completed", "review"}

\* PAID_STATES: the statuses that stand for a paid intent.
Paid(answer) == answer = "completed"

Idle     == {r \in Requests : requests[r] = "free"}
Send(r)  == requests' = [requests EXCEPT ![r] = "sent"]
Close(r) == requests' = [requests EXCEPT ![r] = "free"]

-----------------------------------------------------------------------------
\* schedule and scheduleIn: nothing is scheduled once the poll is stopped, and
\* a timer that was set stays set.
Schedule == timer' = (timer \/ mode' # "stopped")

TimerFires ==
  /\ timer /\ timer' = FALSE
  /\ \/ mode = "stopped" /\ UNCHANGED requests
     \/ mode # "stopped" /\ \E r \in Idle : Send(r)
  /\ UNCHANGED <<status, phase, backendPaid, mode, windowOver>>

\* The backend reads the intent for an open fetch.
Serve(r) ==
  /\ requests[r] = "sent"
  /\ requests' = [requests EXCEPT ![r] = status]
  /\ UNCHANGED <<status, phase, backendPaid, mode, timer, windowOver>>

\* A 404 is final; any other answer is shown whatever was shown before it, and
\* decides by the mode of the moment whether the poll goes on.
Arrive(r) ==
  /\ requests[r] \in Answers
  /\ Close(r)
  /\ \/ /\ requests[r] = "absent"
        /\ phase' = "not_found" /\ mode' = "stopped"
        /\ UNCHANGED <<backendPaid, timer>>
     \/ /\ requests[r] \in Statuses
        /\ phase' = requests[r]
        /\ backendPaid' = (backendPaid \/ Paid(requests[r]))
        /\ mode' = IF Paid(requests[r]) THEN "stopped"
                   ELSE IF mode \in {"initial", "watch"}
                     THEN IF requests[r] = "pending" THEN "watch" ELSE "stopped"
                     ELSE mode
        /\ Schedule
  /\ windowOver' = (windowOver /\ mode' = "initial")
  /\ UNCHANGED status

\* A faulty variant: after the first answer a failed fetch schedules nothing.
FailWithoutRetry(r) ==
  /\ requests[r] # "free"
  /\ Close(r)
  /\ timer' = (timer \/ (mode = "initial" /\ ~windowOver))
  /\ UNCHANGED <<status, phase, backendPaid, mode, windowOver>>

\* No usable answer (a refusal by the limiter, a 5xx, a lost connection): only
\* the initial fetch gives up, and only after its window.
Fail(r) ==
  /\ requests[r] # "free"
  /\ Close(r)
  /\ \/ /\ mode = "initial" /\ windowOver
        /\ mode' = "stopped" /\ timer' = FALSE /\ phase' = "unreachable"
     \/ /\ ~(mode = "initial" /\ windowOver)
        /\ UNCHANGED <<mode, phase>> /\ Schedule
  /\ windowOver' = (windowOver /\ mode' = "initial")
  /\ UNCHANGED <<status, backendPaid>>

WindowEnds ==
  /\ mode = "initial" /\ ~windowOver /\ windowOver' = TRUE
  /\ UNCHANGED <<status, phase, backendPaid, mode, timer, requests>>

-----------------------------------------------------------------------------
\* What the rest of the page asks of the poll.

\* refresh(): the retry button, the return of the network or of the tab, and
\* the local clock reaching the expiry of the intent.
Refresh ==
  /\ mode' = (IF mode = "stopped" THEN "watch" ELSE mode)
  /\ timer' = FALSE
  /\ \E r \in Idle : Send(r)
  /\ UNCHANGED <<status, phase, backendPaid, windowOver>>

Resume == phase = "unreachable" /\ Refresh

\* A faulty variant: the poll is woken, and stays in its mode.
StartWatching == mode' = (IF mode = "stopped" THEN "watch" ELSE mode) /\ Schedule

\* startSyncPolling(): the payer's own transfer is on its way or mined.
StartSync == mode' = "sync" /\ Schedule

-----------------------------------------------------------------------------
\* The backend, as a payer sees it: IntentLifecycle without the reversal of a
\* paid intent, which comes after the page has stopped asking.
BackendMoves ==
  /\ \/ status = "pending" /\ status' \in {"expired", "completed", "review"}
     \/ status = "expired" /\ status' \in {"completed", "review"}
     \/ status = "review"  /\ status' = "completed"
  /\ UNCHANGED pageVars

Poll(r) == Serve(r) \/ Arrive(r) \/ Fail(r)

PollNext == TimerFires \/ WindowEnds \/ Resume \/ \E r \in Requests : Poll(r)

-----------------------------------------------------------------------------
(***************************************************************************)
(* As long as the poll is not stopped it is alive: a fetch is open or the   *)
(* timer is set, whatever failed, was throttled or was asked for again, so  *)
(* "a transient error must not kill the poll" (usePaymentIntent.ts:172).    *)
(***************************************************************************)
PollIsAlive ==
  mode # "stopped" => timer \/ \E r \in Requests : requests[r] # "free"

(***************************************************************************)
(* "Paid" is only ever the backend's word: backendPaid stands for an answer *)
(* the backend gave, and while the payer's own transfer is being followed   *)
(* nothing short of that answer ends the poll.                              *)
(***************************************************************************)
PaidIsTheBackendsWord ==
  backendPaid => status = "completed"

(***************************************************************************)
(* "ready(intent): while status === 'pending' a steady watch poll catches   *)
(* paid-elsewhere / expiry flips" (usePaymentIntent.ts:19-21).              *)
(***************************************************************************)
PendingIsWatched == phase = "pending" => mode # "stopped"
=============================================================================
