------------------------- MODULE HostedCheckout_proofs -------------------------
(***************************************************************************)
(* Proofs about the hosted checkout: the poll, what the payer sees of a     *)
(* payment on a router chain, and what of a transfer on TRON.  They hold for *)
(* any number of open fetches, accounts and attempts.                      *)
(***************************************************************************)
EXTENDS HostedCheckout, TLAPS

USE DEF pageVars, pollVars, wallet, proposed, outcome, evmVars, tronVars

-----------------------------------------------------------------------------
(* The poll.                                                               *)

\* What a step of the page may do to the poll.
PollStep ==
  \/ PollNext
  \/ BackendMoves
  \/ Refresh
  \/ StartSync /\ UNCHANGED <<status, phase, backendPaid, windowOver, requests>>
  \/ UNCHANGED pollVars

LEMMA EvmStepsOfThePoll == ASSUME EvmNext PROVE PollStep
<1>1. CASE ReadReceipt
  BY <1>1 DEF ReadReceipt, PollStep
<1>2. CASE Connect \/ WalletChanges \/ SwitchNetwork \/ ReadsSettle \/ RetryReads
           \/ Approve \/ AnswerApprove \/ ApproveMined
  BY <1>2 DEF Connect, WalletChanges, SwitchNetwork, ReadsSettle, RetryReads, Approve,
              AnswerApprove, ApproveMined, PollStep
<1>3. CASE Pay \/ AnswerSign \/ AnswerPay \/ PaymentMined \/ ReceiptStalls
           \/ Retry \/ UseDifferentWallet \/ AnswerForgotten \/ SignForgotten
  BY <1>3 DEF Pay, AnswerSign, AnswerPay, PaymentMined, ReceiptStalls, Retry,
              UseDifferentWallet, AnswerForgotten, SignForgotten, PollStep
<1> QED BY <1>1, <1>2, <1>3 DEF EvmNext

LEMMA TronStepsOfThePoll == ASSUME TronNext PROVE PollStep
<1>1. CASE IdentityChanges \/ TronRetry \/ WatchReceipt
  BY <1>1 DEF IdentityChanges, TronRetry, WatchReceipt, PollStep
<1>2. ASSUME NEW a \in Attempts, TronPay(a) PROVE PollStep
  BY <1>2 DEF TronPay, PollStep
<1>3. ASSUME NEW a \in Attempts, Broadcast(a) PROVE PollStep
  BY <1>3 DEF Broadcast, PollStep
<1>4. ASSUME NEW a \in Attempts,
             Abandon(a) \/ Throw(a) \/ CheckIntent(a) \/ AskToSign(a) \/ Signed(a)
             \/ Rebuild(a) \/ OrphanEnds(a) \/ Mine(a)
      PROVE  PollStep
  BY <1>4 DEF Abandon, Throw, CheckIntent, AskToSign, Signed, Rebuild, OrphanEnds, Mine, PollStep
<1> QED BY <1>1, <1>2, <1>3, <1>4 DEF TronNext, Attempt

LEMMA StepsOfThePoll == ASSUME [Next]_vars PROVE PollStep
<1>1. CASE UNCHANGED vars
  BY <1>1 DEF vars, PollStep
<1>2. CASE PagePoll \/ Backend \/ LocalExpiry
  BY <1>2 DEF PagePoll, Backend, LocalExpiry, PollStep
<1>3. CASE EvmFlow \/ TronFlow
  BY <1>3, EvmStepsOfThePoll, TronStepsOfThePoll DEF EvmFlow, TronFlow
<1> QED BY <1>1, <1>2, <1>3 DEF Next

\* What a fetch was served with, a paid intent or none at all, stays the truth, and
\* once a status is shown one is always shown.
PollFacts ==
  /\ \A r \in Requests : requests[r] = "absent" => status = "absent"
  /\ \A r \in Requests : requests[r] = "completed" => status = "completed"
  /\ \A r \in Requests : requests[r] \in Statuses => status # "absent"
  /\ backendPaid => status = "completed"
  /\ phase \in Statuses => mode # "initial" /\ status # "absent"

PollInv == PollTypeOK /\ PollFacts /\ PollIsAlive

LEMMA SendKeeps ==
  ASSUME PollTypeOK, PollFacts, NEW r \in Requests, Send(r)
  PROVE  /\ requests' \in [Requests -> Answers \cup {"free", "sent"}]
         /\ requests'[r] # "free"
         /\ \A q \in Requests : requests'[q] = "sent" \/ requests'[q] = requests[q]
BY DEF Send, PollTypeOK

LEMMA CloseKeeps ==
  ASSUME PollTypeOK, PollFacts, NEW r \in Requests, Close(r)
  PROVE  /\ requests' \in [Requests -> Answers \cup {"free", "sent"}]
         /\ \A q \in Requests : requests'[q] = "free" \/ requests'[q] = requests[q]
BY DEF Close, PollTypeOK

LEMMA StepKeepsPoll == ASSUME PollInv, PollStep PROVE PollInv'
<1> USE DEF PollInv
<1>1. CASE TimerFires
  <2>1. CASE mode = "stopped" /\ UNCHANGED requests
    BY <1>1, <2>1 DEF TimerFires, PollTypeOK, PollFacts, PollIsAlive
  <2>2. ASSUME mode # "stopped", NEW r \in Idle, Send(r) PROVE PollInv'
    <3>1. r \in Requests
      BY <2>2 DEF Idle
    <3>2. PollTypeOK' /\ PollIsAlive'
      BY <1>1, <2>2, <3>1, SendKeeps DEF TimerFires, PollTypeOK, PollIsAlive
    <3>3. PollFacts'
      BY <1>1, <2>2, <3>1, SendKeeps DEF TimerFires, PollFacts, Statuses
    <3> QED BY <3>2, <3>3
  <2> QED BY <1>1, <2>1, <2>2 DEF TimerFires
<1>2. CASE Refresh
  <2>1. PICK r \in Idle : Send(r)
    BY <1>2 DEF Refresh
  <2>2. r \in Requests
    BY <2>1 DEF Idle
  <2>3. PollTypeOK' /\ PollIsAlive'
    BY <1>2, <2>1, <2>2, SendKeeps DEF Refresh, PollTypeOK, PollIsAlive, Modes
  <2>4. PollFacts'
    BY <1>2, <2>1, <2>2, SendKeeps DEF Refresh, PollFacts, Statuses
  <2> QED BY <2>3, <2>4
<1>3. CASE WindowEnds
  BY <1>3 DEF WindowEnds, PollTypeOK, PollFacts, PollIsAlive
<1>4. ASSUME NEW r \in Requests, Serve(r) PROVE PollInv'
  <2>1. requests' \in [Requests -> Answers \cup {"free", "sent"}]
    BY <1>4 DEF Serve, PollTypeOK
  <2>2. requests'[r] = status /\ status # "free"
    BY <1>4 DEF Serve, PollTypeOK, Answers, Statuses
  <2>3. \A q \in Requests \ {r} : requests'[q] = requests[q]
    BY <1>4 DEF Serve, PollTypeOK
  <2>4. PollTypeOK' /\ PollIsAlive'
    BY <1>4, <2>1, <2>2, <2>3 DEF Serve, PollTypeOK, PollIsAlive
  <2>5. PollFacts'
    BY <1>4, <2>1, <2>2, <2>3 DEF Serve, PollFacts, Statuses
  <2> QED BY <2>4, <2>5
<1>5. ASSUME NEW r \in Requests, Arrive(r) PROVE PollInv'
  <2>1. Close(r) /\ UNCHANGED status
    BY <1>5 DEF Arrive
  <2>2. PollTypeOK'
    BY <1>5, <2>1, CloseKeeps DEF Arrive, PollTypeOK, Phases, Modes, Schedule, Paid
  <2>3. PollFacts'
    <3>1. CASE requests[r] = "absent"
      BY <1>5, <2>1, <3>1, CloseKeeps DEF Arrive, PollFacts, Statuses
    <3>2. CASE requests[r] \in Statuses
      <4>1. status # "absent" /\ mode' # "initial"
        BY <1>5, <3>2 DEF Arrive, PollFacts, PollTypeOK, Statuses, Modes
      <4>2. phase' = requests[r] /\ requests[r] # "absent"
        BY <1>5, <3>2 DEF Arrive, Statuses
      <4>3. backendPaid' => status = "completed"
        BY <1>5, <3>2 DEF Arrive, PollFacts, Statuses, Paid
      <4> QED BY <2>1, <4>1, <4>2, <4>3, CloseKeeps DEF PollFacts, Statuses
    <3> QED BY <1>5, <3>1, <3>2 DEF Arrive
  <2>4. PollIsAlive'
    BY <1>5 DEF Arrive, PollIsAlive, Schedule
  <2> QED BY <2>2, <2>3, <2>4
<1>6. ASSUME NEW r \in Requests, Fail(r) PROVE PollInv'
  <2>1. Close(r) /\ UNCHANGED <<status, backendPaid>>
    BY <1>6 DEF Fail
  <2>2. PollTypeOK'
    BY <1>6, <2>1, CloseKeeps DEF Fail, PollTypeOK, Phases, Modes, Schedule
  <2>3. PollFacts'
    BY <1>6, <2>1, CloseKeeps DEF Fail, PollFacts, Statuses
  <2>4. PollIsAlive'
    BY <1>6 DEF Fail, PollIsAlive, Schedule
  <2> QED BY <2>2, <2>3, <2>4
<1>7. CASE BackendMoves
  BY <1>7 DEF BackendMoves, PollTypeOK, PollFacts, PollIsAlive, Answers, Statuses
<1>8. CASE StartSync /\ UNCHANGED <<status, phase, backendPaid, windowOver, requests>>
  BY <1>8 DEF StartSync, Schedule, PollTypeOK, PollFacts, PollIsAlive, Modes
<1>9. CASE UNCHANGED pollVars
  BY <1>9 DEF PollTypeOK, PollFacts, PollIsAlive
<1> QED BY <1>1, <1>2, <1>3, <1>4, <1>5, <1>6, <1>7, <1>8, <1>9
        DEF PollStep, PollNext, Poll, Resume

LEMMA MountedStays == ASSUME PollInv, PollStep, Mounted PROVE Mounted'
<1> USE DEF PollInv, Mounted
<1>1. ASSUME NEW r \in Requests, Poll(r) PROVE phase' \in Statuses
  BY <1>1 DEF Poll, Serve, Arrive, Fail, PollFacts, Statuses
<1>2. CASE TimerFires \/ Resume \/ WindowEnds \/ Refresh \/ BackendMoves
  BY <1>2 DEF TimerFires, Resume, WindowEnds, Refresh, BackendMoves
<1> QED BY <1>1, <1>2 DEF PollStep, PollNext

LEMMA InitPoll == ASSUME Init PROVE PollInv
<1>1. PollTypeOK
  BY DEF Init, PollInit, PollTypeOK, Phases, Modes
<1>2. PollFacts
  BY DEF Init, PollInit, PollFacts, Statuses
<1>3. PollIsAlive
  BY DEF Init, PollInit, PollIsAlive
<1> QED BY <1>1, <1>2, <1>3 DEF PollInv

LEMMA PollInvariant == Spec => []PollInv
<1>1. PollInv /\ [Next]_vars => PollInv'
  BY StepsOfThePoll, StepKeepsPoll
<1> QED BY <1>1, InitPoll, PTL DEF Spec

(***************************************************************************)
(* The poll of the page never dies unnoticed: with any number of fetches    *)
(* open, whichever of them fail and whatever the wallets do, it is stopped,  *)
(* or a fetch or the timer will carry it on.                                *)
(***************************************************************************)
THEOREM PollStaysAlive == Spec => []PollIsAlive
<1>1. PollInv => PollIsAlive
  BY DEF PollInv
<1> QED BY <1>1, PollInvariant, PTL

(***************************************************************************)
(* The page takes an intent for paid only if the backend has it completed:  *)
(* no answer that was overtaken, refused or lost says so.                    *)
(***************************************************************************)
THEOREM PaidIsBackendsWord == Spec => []PaidIsTheBackendsWord
<1>1. PollInv => PaidIsTheBackendsWord
  BY DEF PollInv, PollFacts, PaidIsTheBackendsWord
<1> QED BY <1>1, PollInvariant, PTL

-----------------------------------------------------------------------------
(* A payment on a router chain.                                            *)

\* The receipt is that of the payment the page knows, and a wallet is asked for
\* anything only once the intent is shown.
EvmFacts ==
  /\ payment # "sent" => fate = "none" /\ receipt = "none"
  /\ payment = "sent" => fate # "none"
  /\ receipt # "none" => receipt = fate
  /\ signing = "prompt" => payment = "idle"
  /\ payment # "idle" \/ signing # "idle" \/ forgotten # "none" => Mounted

EvmInv == EvmTypeOK /\ EvmFacts

SentViews  == {"failed", "success", "syncing", "confirmation_unknown", "tx_pending"}

LEMMA SentIsShown ==
  ASSUME EvmInv, payment = "sent" PROVE View = Outcome /\ View \in SentViews
<1>1. Step = Outcome /\ PaymentInFlight /\ Mounted
  BY DEF Step, PaymentInFlight, EvmInv, EvmFacts
<1> QED BY <1>1 DEF View, Mounted, Outcome, SentViews

\* The views that belong to a step, so to an intent that is shown.
Offered == {"connect", "wrong_network", "chain_unreachable", "needs_approve", "ready",
            "ready_to_pay", "rejected", "approving", "paying", "wallet_chain_unsupported"}

LEMMA OfferedFacts ==
  ASSUME PollTypeOK, EvmInv, View \in Offered PROVE Mounted /\ payment # "sent"
<1>1. Mounted
  BY DEF View, Mounted, Offered, PollTypeOK, Phases
<1>2. payment # "sent"
  BY SentIsShown DEF Offered, SentViews
<1> QED BY <1>1, <1>2

LEMMA ResetFacts ==
  ASSUME EvmInv, Reset, payment # "sent", Mounted', UNCHANGED outcome,
         forgotten' \in {"none", "sign", "pay", "stray"}
  PROVE  EvmFacts'
BY DEF EvmInv, EvmFacts, Reset

LEMMA EvmStepKeeps == ASSUME PollInv, EvmInv, EvmNext PROVE EvmInv'
<1> USE DEF PollInv
<1>m. Mounted => Mounted'
  BY EvmStepsOfThePoll, MountedStays
<1>1. CASE Connect \/ WalletChanges \/ SwitchNetwork \/ ReadsSettle \/ RetryReads
  BY <1>m, <1>1 DEF Connect, WalletChanges, SwitchNetwork, ReadsSettle, RetryReads,
                    EvmInv, EvmTypeOK, EvmFacts
<1>2. CASE Approve \/ AnswerApprove \/ ApproveMined
  BY <1>m, <1>2 DEF Approve, AnswerApprove, ApproveMined, EvmInv, EvmTypeOK, EvmFacts
<1>3. CASE Pay
  <2>1. Mounted /\ payment # "sent" /\ signing # "prompt"
    <3>1. Mounted /\ payment # "sent"
      BY <1>3, OfferedFacts DEF Pay, Offered
    <3>2. Step \in {"ready", "ready_to_pay"}
      BY <1>3, <3>1 DEF Pay, View, Mounted, Statuses
    <3> QED BY <3>1, <3>2 DEF Step
  <2>2. EvmTypeOK'
    BY <1>3 DEF Pay, EvmInv, EvmTypeOK, Errors
  <2>3. EvmFacts'
    BY <1>m, <1>3, <2>1 DEF Pay, EvmInv, EvmFacts
  <2> QED BY <2>2, <2>3 DEF EvmInv
<1>4. CASE AnswerSign
  BY <1>m, <1>4 DEF AnswerSign, EvmInv, EvmTypeOK, EvmFacts, Errors
<1>5. CASE AnswerPay
  BY <1>m, <1>5 DEF AnswerPay, EvmInv, EvmTypeOK, EvmFacts, Errors
<1>6. CASE PaymentMined \/ ReceiptStalls \/ AnswerForgotten
  BY <1>m, <1>6 DEF PaymentMined, ReceiptStalls, AnswerForgotten, EvmInv, EvmTypeOK, EvmFacts
<1>7. CASE ReadReceipt
  <2>1. EvmTypeOK'
    <3>1. receipt' = fate /\ fate \in {"ok", "reverted"}
      BY <1>7 DEF ReadReceipt
    <3>2. UNCHANGED <<route, wallet, reads, allowed, proposed, fate, forgotten>>
      BY <1>7 DEF ReadReceipt
    <3>3. unread' \in BOOLEAN
      BY <1>7 DEF ReadReceipt
    <3> QED BY <3>1, <3>2, <3>3 DEF EvmInv, EvmTypeOK
  <2>2. EvmFacts'
    BY <1>m, <1>7 DEF ReadReceipt, EvmInv, EvmFacts
  <2> QED BY <2>1, <2>2 DEF EvmInv
<1>8. CASE Retry
  <2>1. Mounted /\ payment # "sent"
    BY <1>8, OfferedFacts DEF Retry, Offered
  <2>2. EvmTypeOK'
    <3>1. approval' = "idle" /\ signing' = "idle" /\ payment' = "idle" /\ switchRefused' = FALSE
      BY <1>8 DEF Retry, Reset
    <3>2. UNCHANGED <<route, connected, onChain, reads, allowed, outcome, forgotten>>
      BY <1>8 DEF Retry
    <3>3. switchRefused' \in BOOLEAN /\ connected' \in BOOLEAN /\ onChain' \in BOOLEAN
      BY <3>1, <3>2, Zenon DEF EvmInv, EvmTypeOK
    <3>4. allowed' \in BOOLEAN /\ unread' \in BOOLEAN
      BY <3>2, Zenon DEF EvmInv, EvmTypeOK
    <3> QED BY <3>1, <3>2, <3>3, <3>4 DEF EvmInv, EvmTypeOK
  <2> QED BY <1>m, <1>8, <2>1, <2>2, ResetFacts DEF Retry, EvmInv, EvmTypeOK
<1>9. CASE UseDifferentWallet
  <2>1. Mounted /\ payment # "sent"
    BY <1>9, OfferedFacts DEF UseDifferentWallet, Offered
  <2>2. EvmTypeOK'
    <3>1. approval' = "idle" /\ signing' = "idle" /\ payment' = "idle" /\ switchRefused' = FALSE
      BY <1>9 DEF UseDifferentWallet, Reset
    <3>2. /\ UNCHANGED <<route, reads, allowed, outcome>>
          /\ connected' = FALSE /\ onChain' = FALSE
          /\ forgotten' \in {"sign", "pay", forgotten}
      BY <1>9 DEF UseDifferentWallet, LivePrompt
    <3> QED BY <3>1, <3>2 DEF EvmInv, EvmTypeOK, Errors
  <2> QED BY <1>m, <1>9, <2>1, <2>2, ResetFacts DEF UseDifferentWallet, EvmInv, EvmTypeOK
<1>10. CASE SignForgotten
  BY <1>m, <1>10 DEF SignForgotten, EvmInv, EvmTypeOK, EvmFacts, Errors
<1> QED BY <1>1, <1>2, <1>3, <1>4, <1>5, <1>6, <1>7, <1>8, <1>9, <1>10 DEF EvmNext

PageInv == PollInv /\ EvmInv

LEMMA PageInvariant == Spec => []PageInv
<1>1. Init => PageInv
  <2> SUFFICES ASSUME Init PROVE PageInv
    OBVIOUS
  <2>1. EvmInv
    BY DEF Init, EvmInit, EvmInv, EvmTypeOK, EvmFacts
  <2> QED BY <2>1, InitPoll DEF PageInv
<1>2. PageInv /\ [Next]_vars => PageInv'
  <2> SUFFICES ASSUME PageInv, [Next]_vars PROVE EvmInv'
    BY StepsOfThePoll, StepKeepsPoll DEF PageInv
  <2> USE DEF PageInv
  <2>1. CASE EvmFlow
    BY <2>1, EvmStepKeeps DEF EvmFlow
  <2>2. CASE UNCHANGED evmVars
    <3>1. Mounted => Mounted'
      BY StepsOfThePoll, MountedStays
    <3> QED BY <2>2, <3>1 DEF EvmInv, EvmTypeOK, EvmFacts
  <2> QED BY <2>1, <2>2 DEF Next, PagePoll, Backend, LocalExpiry, TronFlow, vars
<1> QED BY <1>1, <1>2, PTL DEF Spec

(***************************************************************************)
(* "Success" is a receipt of the page's own transaction and the backend's    *)
(* word together.                                                          *)
(***************************************************************************)
THEOREM SuccessIsGenuine == Spec => []SuccessIsReal
<1>1. ASSUME PageInv PROVE SuccessIsReal
  <2> SUFFICES ASSUME View = "success" PROVE fate = "ok" /\ status = "completed"
    BY DEF SuccessIsReal
  <2>1. Step = "success"
    BY <1>1 DEF PageInv, PollInv, PollTypeOK, Phases, Statuses, View
  <2>2. payment = "sent" /\ receipt = "ok" /\ backendPaid
    BY <2>1 DEF Step, Outcome, Ready
  <2> QED BY <1>1, <2>2 DEF PageInv, PollInv, PollFacts, EvmInv, EvmFacts
<1> QED BY <1>1, PageInvariant, PTL

(***************************************************************************)
(* A payment that is out stays on the payer's screen until the chain has     *)
(* decided, whatever the intent, the wallet and the node do.                 *)
(***************************************************************************)
THEOREM PaymentStaysOnScreen == Spec => []PaymentIsOnScreen
<1>1. ASSUME PageInv PROVE PaymentIsOnScreen
  <2> SUFFICES ASSUME fate \in {"pending", "ok"}
               PROVE  View \in {"tx_pending", "confirmation_unknown", "syncing", "success"}
    BY DEF PaymentIsOnScreen
  <2>1. payment = "sent" /\ receipt # "reverted"
    BY <1>1 DEF PageInv, EvmInv, EvmFacts
  <2>2. View = Outcome
    BY <1>1, <2>1, SentIsShown DEF PageInv
  <2> QED BY <2>1, <2>2 DEF Outcome
<1> QED BY <1>1, PageInvariant, PTL

(***************************************************************************)
(* No control of the page and no step of a wallet gives up the hash of a     *)
(* payment, except the permit signature left open in another wallet.         *)
(***************************************************************************)
THEOREM HashIsKept == Spec => DropsOnlyForForgottenSignature
<1>1. ASSUME PageInv, [Next]_vars, payment = "sent"
      PROVE  payment' = "sent" \/ forgotten = "sign"
  <2>1. View \notin Offered
    BY <1>1, OfferedFacts DEF PageInv, PollInv
  <2>2. CASE UNCHANGED evmVars
    BY <1>1, <2>2
  <2>3. ASSUME EvmNext PROVE payment' = "sent" \/ forgotten = "sign"
    <3>1. CASE Pay \/ Retry \/ UseDifferentWallet
      BY <2>1, <3>1 DEF Pay, Retry, UseDifferentWallet, Offered
    <3>2. CASE AnswerSign \/ AnswerPay
      BY <1>1, <3>2 DEF AnswerSign, AnswerPay, PageInv, EvmInv, EvmFacts
    <3>3. CASE SignForgotten
      BY <3>3 DEF SignForgotten
    <3>4. CASE Connect \/ WalletChanges \/ SwitchNetwork \/ ReadsSettle \/ RetryReads
               \/ Approve \/ AnswerApprove \/ ApproveMined
      BY <1>1, <3>4 DEF Connect, WalletChanges, SwitchNetwork, ReadsSettle, RetryReads,
                       Approve, AnswerApprove, ApproveMined
    <3>5. CASE PaymentMined \/ ReceiptStalls \/ ReadReceipt \/ AnswerForgotten
      BY <1>1, <3>5 DEF PaymentMined, ReceiptStalls, ReadReceipt, AnswerForgotten
    <3> QED BY <2>3, <3>1, <3>2, <3>3, <3>4, <3>5 DEF EvmNext
  <2> QED BY <1>1, <2>2, <2>3
          DEF Next, PagePoll, Backend, LocalExpiry, EvmFlow, TronFlow, vars
<1>2. PageInv /\ [Next]_vars =>
        [payment = "sent" => payment' = "sent" \/ forgotten = "sign"]_<<pollVars, evmVars>>
  BY <1>1
<1> QED BY <1>2, PageInvariant, PTL DEF Spec, DropsOnlyForForgottenSignature
-----------------------------------------------------------------------------
(* On TRON: a transfer stays in sight, and is built for the account the     *)
(* panel shows.                                                            *)

Runs == [at : Awaits, stale : BOOLEAN, rebuilt : BOOLEAN, payer : Accounts \cup {NoAccount}]

TronTypes ==
  /\ account \in Accounts \cup {NoAccount}
  /\ panel \in Panels
  /\ shown \in Attempts \cup {NoAttempt}
  /\ attempts \in [Attempts -> Runs]
  /\ transfers \in [Attempts -> {"none", "out", "landed", "reverted"}]
  /\ slipped \in BOOLEAN

\* Field by field: an attempt that awaits nothing has been cleared.
AtRest ==
  \A a \in Attempts : attempts[a].at \in {"none", "orphan"} =>
    /\ attempts[a].stale = FALSE /\ attempts[a].rebuilt = FALSE
    /\ attempts[a].payer = NoAccount

ShowsATransfer == panel = "processing" => shown \in Attempts /\ transfers[shown] # "none"

LEMMA MoveOf ==
  ASSUME NEW r \in Runs, NEW s \in Awaits
  PROVE  [r EXCEPT !.at = s] =
           [at |-> s, stale |-> r.stale, rebuilt |-> r.rebuilt, payer |-> r.payer]
BY DEF Runs

LEMMA RestIsRun ==
  /\ Resting \in Runs
  /\ Resting.at = "none" /\ Resting.stale = FALSE /\ Resting.rebuilt = FALSE
  /\ Resting.payer = NoAccount
BY DEF Resting, Runs, Awaits

LEMMA RestOf ==
  ASSUME NEW r \in Runs
  PROVE  r = [Resting EXCEPT !.at = r.at] <=>
           r.stale = FALSE /\ r.rebuilt = FALSE /\ r.payer = NoAccount
<1>1. r.at \in Awaits
  BY DEF Runs
<1>2. [Resting EXCEPT !.at = r.at] =
        [at |-> r.at, stale |-> FALSE, rebuilt |-> FALSE, payer |-> NoAccount]
  BY <1>1, RestIsRun, MoveOf
<1>3. r = [at |-> r.at, stale |-> r.stale, rebuilt |-> r.rebuilt, payer |-> r.payer]
  BY DEF Runs
<1>4. r = [Resting EXCEPT !.at = r.at]
        => r.stale = FALSE /\ r.rebuilt = FALSE /\ r.payer = NoAccount
  BY <1>2
<1>5. r.stale = FALSE /\ r.rebuilt = FALSE /\ r.payer = NoAccount
        => r = [Resting EXCEPT !.at = r.at]
  BY <1>2, <1>3
<1> QED BY <1>4, <1>5

LEMMA TronTypeParts == TronTypeOK <=> TronTypes /\ AtRest /\ ShowsATransfer
<1>1. TronTypeOK => TronTypes /\ ShowsATransfer
  BY DEF TronTypeOK, TronTypes, ShowsATransfer, Runs
<1>2. ASSUME TronTypes, NEW a \in Attempts
      PROVE  attempts[a] = [Resting EXCEPT !.at = attempts[a].at] <=>
               /\ attempts[a].stale = FALSE /\ attempts[a].rebuilt = FALSE
               /\ attempts[a].payer = NoAccount
  <2>1. attempts[a] \in Runs
    BY <1>2 DEF TronTypes
  <2> QED BY <2>1, RestOf
<1>3. ASSUME TronTypes
      PROVE  AtRest <=> \A a \in Attempts : attempts[a].at \in {"none", "orphan"} =>
                          attempts[a] = [Resting EXCEPT !.at = attempts[a].at]
  BY <1>2, <1>3 DEF AtRest
<1> QED BY <1>1, <1>3 DEF TronTypeOK, TronTypes, ShowsATransfer, Runs

\* An attempt that has not been overtaken by another identity.
Live(a) == Open(a) /\ ~Stale(a)

\* The panel of a live attempt, by where it awaits.
Fits(a) ==
  \/ attempts[a].at = "intent" /\ panel = "preflight"
  \/ attempts[a].at = "node" /\ panel \in {"preflight", "signature_expired"}
  \/ attempts[a].at = "wallet" /\ panel = "awaiting_signature"
  \/ attempts[a].at = "broadcast" /\ panel = "broadcasting"

InSight(a) ==
  transfers[a] # "none" =>
    /\ Shown /\ shown = a
    /\ panel \in Processing \/ (panel = "failed_on_chain" /\ transfers[a] = "reverted")

BuiltFor(a) ==
  Live(a) /\ attempts[a].at # "broadcast" /\ ~attempts[a].rebuilt =>
    attempts[a].payer = account

\* Until it slips: a transfer is the one that is shown, the panel shows the one
\* live attempt there is, and that one is for the account of the panel.
Sight ==
  /\ \A a \in Attempts : InSight(a)
  /\ \A a \in Attempts : Live(a) => Fits(a)
  /\ \A a, b \in Attempts : Live(a) /\ Live(b) => a = b
  /\ \A a \in Attempts : BuiltFor(a)

\* An attempt lives as long as its panel; one that was left at the node slipped.
Homes ==
  /\ \A a \in Attempts : Open(a) => Shown
  /\ \A a \in Attempts : attempts[a].at = "orphan" => slipped

TronInv == TronTypes /\ AtRest /\ ShowsATransfer /\ Homes /\ (~slipped => Sight)

-----------------------------------------------------------------------------
(* What the steps of an attempt do, attempt by attempt.                     *)

LEMMA AtMoves ==
  ASSUME TronTypes, NEW a \in Attempts, NEW s \in Awaits, At(a, s)
  PROVE  /\ attempts' \in [Attempts -> Runs]
         /\ attempts'[a].at = s /\ attempts'[a].stale = attempts[a].stale
         /\ attempts'[a].rebuilt = attempts[a].rebuilt
         /\ attempts'[a].payer = attempts[a].payer
         /\ \A b \in Attempts \ {a} : attempts'[b] = attempts[b]
BY DEF At, TronTypes, Runs

LEMMA EndsRest ==
  ASSUME TronTypes, NEW a \in Attempts, End(a)
  PROVE  /\ attempts' \in [Attempts -> Runs]
         /\ attempts'[a] = Resting /\ attempts'[a].at = "none"
         /\ \A b \in Attempts \ {a} : attempts'[b] = attempts[b]
BY RestIsRun DEF End, TronTypes

LEMMA GoesOut ==
  ASSUME TronTypes, NEW a \in Attempts,
         transfers' \in {transfers, [transfers EXCEPT ![a] = "out"]}
  PROVE  /\ transfers' \in [Attempts -> {"none", "out", "landed", "reverted"}]
         /\ \A b \in Attempts : transfers[b] # "none" => transfers'[b] # "none"
         /\ \A b \in Attempts \ {a} : transfers'[b] = transfers[b]
BY DEF TronTypes

\* The attempt at rest stays so when only another one, or no field of it, moves.
LEMMA RestStays ==
  ASSUME AtRest, NEW a \in Attempts,
         \A b \in Attempts \ {a} : attempts'[b] = attempts[b],
         attempts'[a].at \notin {"none", "orphan"} \/ attempts'[a] = Resting,
         TronTypes
  PROVE  AtRest'
BY RestIsRun DEF AtRest

LEMMA LiveFacts ==
  ASSUME TronInv, ~slipped, NEW a \in Attempts, Live(a)
  PROVE  /\ Shown /\ Fits(a)
         /\ \A b \in Attempts : transfers[b] = "none"
         /\ \A b \in Attempts \ {a} : ~Live(b)
BY DEF TronInv, Sight, Homes, Live, Fits, InSight, Processing

\* Nothing is out and nothing is under way.
LEMMA QuietSight ==
  ASSUME \A b \in Attempts : ~Live(b)', \A b \in Attempts : transfers'[b] = "none"
  PROVE  Sight'
BY DEF Sight, InSight, BuiltFor

\* Nothing is out, and one attempt is under way.
LEMMA MovedSight ==
  ASSUME NEW a \in Attempts, \A b \in Attempts \ {a} : ~Live(b)',
         \A b \in Attempts : transfers'[b] = "none", Fits(a)', BuiltFor(a)'
  PROVE  Sight'
BY DEF Sight, InSight, BuiltFor

-----------------------------------------------------------------------------
(* One lemma per action.  None of them changes what is shown of the intent.  *)

LEMMA IdentityKeeps == ASSUME TronInv, IdentityChanges PROVE TronInv'
<1> USE DEF TronInv, IdentityChanges
<1>1. CASE panel \notin Invalidates
  <2>1. TronTypes' /\ AtRest' /\ ShowsATransfer' /\ Homes'
    BY <1>1 DEF TronTypes, AtRest, ShowsATransfer, Homes, Open, Shown
  <2>2. ASSUME ~slipped PROVE Sight'
    <3>1. \A a \in Attempts : Live(a) => attempts[a].at = "broadcast"
      BY <1>1, <2>2 DEF Sight, Fits, Invalidates
    <3> QED BY <1>1, <2>2, <3>1 DEF Sight, InSight, BuiltFor, Live, Fits, Open, Stale, Shown
  <2> QED BY <2>1, <2>2
<1>2. CASE panel \in Invalidates
  <2>1. attempts' = [a \in Attempts |-> [attempts[a] EXCEPT !.stale = Open(a)]]
    BY <1>2
  <2>2. ASSUME NEW a \in Attempts
        PROVE  /\ attempts'[a] \in Runs /\ attempts'[a].at = attempts[a].at
               /\ attempts'[a].stale = Open(a)
               /\ attempts'[a].rebuilt = attempts[a].rebuilt
               /\ attempts'[a].payer = attempts[a].payer
    BY <2>1 DEF TronTypes, Runs, Open
  <2>3. panel' \in {"idle", "connected"}
    BY <1>2
  <2>4. TronTypes'
    BY <2>1, <2>2, <2>3 DEF TronTypes, Panels
  <2>5. AtRest' /\ ShowsATransfer' /\ Homes'
    BY <2>2, <2>3 DEF AtRest, ShowsATransfer, Homes, Open, Shown
  <2>6. ASSUME ~slipped PROVE Sight'
    <3>1. \A a \in Attempts : transfers[a] = "none"
      BY <1>2, <2>6 DEF Sight, InSight, Processing, Invalidates
    <3>2. \A a \in Attempts : ~Live(a)'
      BY <2>2 DEF Live, Open, Stale
    <3> QED BY <3>1, <3>2, QuietSight
  <2> QED BY <2>4, <2>5, <2>6
<1> QED BY <1>1, <1>2

LEMMA TronPayKeeps ==
  ASSUME TronInv, NEW a \in Attempts, TronPay(a) PROVE TronInv'
<1> USE DEF TronInv, TronPay
<1>1. /\ attempts' \in [Attempts -> Runs]
      /\ attempts'[a].at = "intent" /\ attempts'[a].payer = account
      /\ \A b \in Attempts \ {a} : attempts'[b] = attempts[b]
  BY DEF TronTypes, Runs, Awaits
<1>2. TronTypes'
  BY <1>1 DEF TronTypes, Panels, Busy
<1>3. AtRest' /\ ShowsATransfer' /\ Homes'
  BY <1>1, RestStays DEF AtRest, ShowsATransfer, Homes, Open, Shown
<1>4. ASSUME ~slipped PROVE Sight'
  <2>1. \A b \in Attempts : ~Live(b) /\ transfers[b] = "none"
    BY <1>4 DEF Sight, Fits, InSight, Processing
  <2>2. \A b \in Attempts \ {a} : ~Live(b)'
    BY <1>1, <2>1 DEF Live, Open, Stale
  <2>3. Fits(a)' /\ BuiltFor(a)'
    BY <1>1 DEF Fits, BuiltFor
  <2> QED BY <2>1, <2>2, <2>3, MovedSight
<1> QED BY <1>2, <1>3, <1>4

LEMMA TronRetryKeeps == ASSUME TronInv, TronRetry PROVE TronInv'
<1> USE DEF TronInv, TronRetry
<1>1. TronTypes' /\ AtRest' /\ ShowsATransfer' /\ Homes'
  BY DEF TronTypes, Panels, AtRest, ShowsATransfer, Homes, Open, Shown
<1>2. ASSUME ~slipped PROVE Sight'
  <2>1. \A b \in Attempts : ~Live(b) /\ transfers[b] = "none"
    BY <1>2 DEF Sight, Fits, InSight, Processing
  <2> QED BY <2>1, QuietSight DEF Live, Open, Stale
<1> QED BY <1>1, <1>2

\* An attempt ends: it is cleared, and no other one moves.
LEMMA EndKeeps ==
  ASSUME TronInv, NEW a \in Attempts, Open(a), End(a), UNCHANGED <<phase, account, shown>>,
         transfers' \in {transfers, [transfers EXCEPT ![a] = "out"]},
         panel' \in Panels \ {"processing"}, slipped' \in BOOLEAN, slipped => slipped'
  PROVE  /\ TronTypes' /\ AtRest' /\ ShowsATransfer' /\ Homes'
         /\ \A b \in Attempts : ~slipped /\ Live(a) => ~Live(b)'
<1> USE DEF TronInv
<1>1. TronTypes'
  BY EndsRest, GoesOut DEF TronTypes
<1>2. AtRest' /\ ShowsATransfer'
  BY EndsRest, RestStays DEF ShowsATransfer
<1>3. Homes'
  BY EndsRest DEF Homes, Open, Shown
<1>4. ASSUME NEW b \in Attempts, ~slipped, Live(a) PROVE ~Live(b)'
  BY <1>4, EndsRest, LiveFacts DEF Live, Open, Stale
<1> QED BY <1>1, <1>2, <1>3, <1>4

LEMMA AbandonKeeps ==
  ASSUME TronInv, NEW a \in Attempts, Abandon(a) PROVE TronInv'
<1>1. /\ Open(a) /\ Stale(a) /\ End(a) /\ Slip(a) /\ panel' = "connected"
      /\ UNCHANGED <<phase, account, shown>>
      /\ transfers' \in {transfers, [transfers EXCEPT ![a] = "out"]}
  BY DEF Abandon
<1>2. slipped' = TRUE
  BY <1>1 DEF Slip
<1>3. TronTypes' /\ AtRest' /\ ShowsATransfer' /\ Homes'
  BY <1>1, <1>2, EndKeeps DEF Panels
<1> QED BY <1>2, <1>3 DEF TronInv

LEMMA ThrowKeeps ==
  ASSUME TronInv, NEW a \in Attempts, Throw(a) PROVE TronInv'
<1>1. /\ Open(a) /\ End(a) /\ panel' \in {"retryable", "failed"}
      /\ UNCHANGED <<phase, account, shown>>
  BY DEF Throw
<1>2. CASE slipped' = TRUE /\ transfers' \in {transfers, [transfers EXCEPT ![a] = "out"]}
  <2>1. TronTypes' /\ AtRest' /\ ShowsATransfer' /\ Homes'
    BY <1>1, <1>2, EndKeeps DEF Panels
  <2> QED BY <1>2, <2>1 DEF TronInv
<1>3. CASE ~Stale(a) /\ slipped' = slipped /\ UNCHANGED transfers
  <2>1. /\ TronTypes' /\ AtRest' /\ ShowsATransfer' /\ Homes'
        /\ \A b \in Attempts : ~slipped /\ Live(a) => ~Live(b)'
    BY <1>1, <1>3, EndKeeps DEF Panels, TronInv, TronTypes
  <2>2. ASSUME ~slipped PROVE Sight'
    BY <1>1, <1>3, <2>1, <2>2, LiveFacts, QuietSight DEF Live
  <2> QED BY <1>3, <2>1, <2>2 DEF TronInv
<1>4. slipped \in BOOLEAN
  BY DEF TronInv, TronTypes
<1>5. CASE Slip(a) /\ UNCHANGED transfers
  <2>1. CASE Stale(a)
    BY <1>2, <1>5, <2>1 DEF Slip
  <2>2. CASE ~Stale(a)
    BY <1>3, <1>4, <1>5, <2>2 DEF Slip
  <2> QED BY <2>1, <2>2
<1> QED BY <1>2, <1>5 DEF Throw, Out

LEMMA CheckIntentKeeps ==
  ASSUME TronInv, NEW a \in Attempts, CheckIntent(a) PROVE TronInv'
<1>1. /\ attempts[a].at = "intent" /\ ~Stale(a)
      /\ UNCHANGED <<phase, account, shown, transfers, slipped>>
  BY DEF CheckIntent
<1>2. Open(a) /\ Live(a)
  BY <1>1 DEF Open, Live
<1>3. CASE At(a, "node") /\ UNCHANGED panel
  <2>1. /\ attempts' \in [Attempts -> Runs]
        /\ attempts'[a].at = "node" /\ attempts'[a].stale = attempts[a].stale
        /\ attempts'[a].rebuilt = attempts[a].rebuilt
        /\ attempts'[a].payer = attempts[a].payer
        /\ \A b \in Attempts \ {a} : attempts'[b] = attempts[b]
    BY <1>3, AtMoves DEF TronInv, Awaits
  <2>2. TronTypes' /\ AtRest' /\ ShowsATransfer' /\ Homes'
    BY <1>1, <1>2, <1>3, <2>1, RestStays DEF TronInv, TronTypes, ShowsATransfer, Homes, Open, Shown
  <2>3. ASSUME ~slipped PROVE Sight'
    <3>1. /\ Fits(a) /\ BuiltFor(a) /\ \A b \in Attempts : transfers[b] = "none"
          /\ \A b \in Attempts \ {a} : ~Live(b)
      BY <1>2, <2>3, LiveFacts DEF TronInv, Sight
    <3>2. \A b \in Attempts \ {a} : ~Live(b)'
      BY <2>1, <3>1 DEF Live, Open, Stale
    <3>3. Fits(a)' /\ BuiltFor(a)'
      BY <1>1, <1>2, <1>3, <2>1, <3>1 DEF Fits, BuiltFor
    <3> QED BY <1>1, <3>1, <3>2, <3>3, MovedSight
  <2> QED BY <1>1, <2>2, <2>3 DEF TronInv
<1>4. CASE End(a) /\ panel' \in {"expired", "already_paid"}
  <2>1. /\ TronTypes' /\ AtRest' /\ ShowsATransfer' /\ Homes'
        /\ \A b \in Attempts : ~slipped /\ Live(a) => ~Live(b)'
    BY <1>1, <1>2, <1>4, EndKeeps DEF Panels, TronInv, TronTypes
  <2>2. ASSUME ~slipped PROVE Sight'
    BY <1>1, <1>2, <2>1, <2>2, LiveFacts, QuietSight
  <2> QED BY <1>1, <2>1, <2>2 DEF TronInv
<1> QED BY <1>3, <1>4 DEF CheckIntent

\* An attempt goes on, to another await and the panel that goes with it.
LEMMA MoveKeeps ==
  ASSUME TronInv, NEW a \in Attempts, Live(a), NEW s \in {"node", "wallet", "broadcast"},
         /\ attempts' \in [Attempts -> Runs] /\ attempts'[a].at = s
         /\ attempts'[a].payer = attempts[a].payer
         /\ \A b \in Attempts \ {a} : attempts'[b] = attempts[b],
         attempts'[a].rebuilt = attempts[a].rebuilt \/ attempts'[a].rebuilt = TRUE,
         attempts[a].at = "broadcast" => attempts'[a].rebuilt = TRUE,
         Fits(a)', panel' \in Panels \ {"processing"},
         UNCHANGED <<phase, account, shown, transfers, slipped>>
  PROVE  TronInv'
<1>1. TronTypes' /\ ShowsATransfer'
  BY DEF TronInv, TronTypes, ShowsATransfer
<1>2. AtRest' /\ Homes'
  BY RestStays DEF TronInv, Homes, Open, Shown, Live
<1>3. ASSUME ~slipped PROVE Sight'
  <2>1. /\ BuiltFor(a) /\ \A b \in Attempts : transfers[b] = "none"
        /\ \A b \in Attempts \ {a} : ~Live(b)
    BY <1>3, LiveFacts DEF TronInv, Sight
  <2>2. \A b \in Attempts \ {a} : ~Live(b)'
    BY <2>1 DEF Live, Open, Stale
  <2>3. BuiltFor(a)'
    BY <2>1 DEF BuiltFor
  <2> QED BY <2>1, <2>2, <2>3, MovedSight
<1> QED BY <1>1, <1>2, <1>3 DEF TronInv

LEMMA AskToSignKeeps ==
  ASSUME TronInv, NEW a \in Attempts, AskToSign(a) PROVE TronInv'
<1>1. /\ attempts[a].at = "node" /\ Live(a) /\ At(a, "wallet") /\ panel' = "awaiting_signature"
      /\ UNCHANGED <<phase, account, shown, transfers, slipped>>
  BY DEF AskToSign, Live, Open
<1>2. "wallet" \in Awaits /\ panel' \in Panels \ {"processing"}
  BY <1>1 DEF Awaits, Panels, Busy
<1>3. Fits(a)'
  BY <1>1, <1>2, AtMoves DEF Fits, TronInv
<1> QED BY <1>1, <1>2, <1>3, AtMoves, MoveKeeps DEF TronInv

LEMMA SignedKeeps ==
  ASSUME TronInv, NEW a \in Attempts, Signed(a) PROVE TronInv'
<1>1. /\ attempts[a].at = "wallet" /\ Live(a) /\ At(a, "broadcast") /\ panel' = "broadcasting"
      /\ UNCHANGED <<phase, account, shown, transfers, slipped>>
  BY DEF Signed, Live, Open
<1>2. "broadcast" \in Awaits /\ panel' \in Panels \ {"processing"}
  BY <1>1 DEF Awaits, Panels, Busy
<1>3. Fits(a)'
  BY <1>1, <1>2, AtMoves DEF Fits, TronInv
<1> QED BY <1>1, <1>2, <1>3, AtMoves, MoveKeeps DEF TronInv

LEMMA RebuildKeeps ==
  ASSUME TronInv, NEW a \in Attempts, Rebuild(a) PROVE TronInv'
<1>1. /\ attempts[a].at = "broadcast" /\ Live(a) /\ panel' = "signature_expired"
      /\ attempts' = [attempts EXCEPT ![a].at = "node", ![a].rebuilt = TRUE]
      /\ UNCHANGED <<phase, account, shown, transfers, slipped>>
  BY DEF Rebuild, Live, Open
<1>2. panel' \in Panels \ {"processing"}
  BY <1>1 DEF Panels, Busy
<1>3. /\ attempts' \in [Attempts -> Runs] /\ attempts'[a].at = "node"
      /\ attempts'[a].rebuilt = TRUE /\ attempts'[a].payer = attempts[a].payer
      /\ \A b \in Attempts \ {a} : attempts'[b] = attempts[b]
  BY <1>1 DEF TronInv, TronTypes, Runs, Awaits
<1>4. Fits(a)'
  BY <1>1, <1>3 DEF Fits
<1> QED BY <1>1, <1>2, <1>3, <1>4, MoveKeeps

LEMMA BroadcastKeeps ==
  ASSUME TronInv, NEW a \in Attempts, Broadcast(a) PROVE TronInv'
<1>1. /\ attempts[a].at = "broadcast" /\ Live(a) /\ Open(a) /\ End(a)
      /\ transfers' = [transfers EXCEPT ![a] = "out"]
      /\ panel' = "processing" /\ shown' = a
      /\ UNCHANGED <<phase, account, slipped>>
  BY DEF Broadcast, Live, Open, Out
<1>2. transfers'[a] = "out" /\ \A b \in Attempts \ {a} : transfers'[b] = transfers[b]
  BY <1>1 DEF TronInv, TronTypes
<1>3. TronTypes' /\ ShowsATransfer'
  BY <1>1, <1>2, EndsRest, GoesOut DEF TronInv, TronTypes, ShowsATransfer, Panels, Processing
<1>4. AtRest' /\ Homes'
  BY <1>1, EndsRest, RestStays DEF TronInv, Homes, Open, Shown
<1>5. ASSUME ~slipped PROVE Sight'
  <2>1. /\ Shown /\ \A b \in Attempts : transfers[b] = "none"
        /\ \A b \in Attempts \ {a} : ~Live(b)
    BY <1>1, <1>5, LiveFacts
  <2>2. \A b \in Attempts : ~Live(b)'
    BY <1>1, <2>1, EndsRest DEF TronInv, Live, Open, Stale
  <2>3. \A b \in Attempts : InSight(b)'
    BY <1>1, <1>2, <2>1 DEF InSight, Shown, Processing
  <2> QED BY <2>2, <2>3 DEF Sight, BuiltFor
<1> QED BY <1>1, <1>3, <1>4, <1>5 DEF TronInv

LEMMA OrphanEndsKeeps ==
  ASSUME TronInv, NEW a \in Attempts, OrphanEnds(a) PROVE TronInv'
<1>1. /\ attempts[a].at = "orphan" /\ End(a)
      /\ transfers' \in {transfers, [transfers EXCEPT ![a] = "out"]}
      /\ UNCHANGED <<phase, account, panel, shown, slipped>>
  BY DEF OrphanEnds
<1>2. slipped
  BY <1>1 DEF TronInv, Homes
<1>3. TronTypes' /\ ShowsATransfer'
  BY <1>1, EndsRest, GoesOut DEF TronInv, TronTypes, ShowsATransfer
<1>4. AtRest' /\ Homes'
  BY <1>1, EndsRest, RestStays DEF TronInv, Homes, Open, Shown
<1> QED BY <1>1, <1>2, <1>3, <1>4 DEF TronInv

LEMMA MineKeeps ==
  ASSUME TronInv, NEW a \in Attempts, Mine(a) PROVE TronInv'
<1>1. PICK f \in {"landed", "reverted"} : transfers' = [transfers EXCEPT ![a] = f]
  BY DEF Mine
<1>2. transfers[a] = "out" /\ UNCHANGED <<phase, account, panel, shown, attempts, slipped>>
  BY DEF Mine
<1>3. /\ transfers' \in [Attempts -> {"none", "out", "landed", "reverted"}]
      /\ transfers'[a] = f /\ \A b \in Attempts \ {a} : transfers'[b] = transfers[b]
  BY <1>1 DEF TronInv, TronTypes
<1>4. TronTypes' /\ AtRest' /\ ShowsATransfer' /\ Homes'
  BY <1>2, <1>3 DEF TronInv, TronTypes, AtRest, ShowsATransfer, Homes, Open, Shown
<1>5. ASSUME Sight PROVE Sight'
  BY <1>2, <1>3, <1>5 DEF Sight, InSight, BuiltFor, Live, Fits, Open, Stale, Shown
<1> QED BY <1>2, <1>4, <1>5 DEF TronInv

LEMMA WatchReceiptKeeps == ASSUME TronInv, WatchReceipt PROVE TronInv'
<1>1. /\ panel = "processing" /\ shown \in Attempts /\ transfers[shown] # "none"
      /\ UNCHANGED <<phase, account, shown, attempts, transfers, slipped>>
  BY DEF WatchReceipt, TronInv, ShowsATransfer
<1>2. \/ transfers[shown] \in {"out", "landed"} /\ panel' \in {"timeout", "included"}
      \/ transfers[shown] = "reverted" /\ panel' = "failed_on_chain"
  BY <1>1 DEF WatchReceipt, TronInv, TronTypes
<1>3. TronTypes' /\ AtRest' /\ ShowsATransfer' /\ Homes'
  BY <1>1, <1>2 DEF TronInv, TronTypes, AtRest, ShowsATransfer, Homes, Open, Shown, Panels, Processing
<1>4. ASSUME Sight PROVE Sight'
  <2>1. \A b \in Attempts : ~Live(b)
    BY <1>1, <1>4 DEF Sight, Fits
  <2>2. \A b \in Attempts : ~Live(b)'
    BY <1>1, <2>1 DEF Live, Open, Stale
  <2>3. \A b \in Attempts : InSight(b)'
    BY <1>1, <1>2, <1>4 DEF Sight, InSight, Shown, Processing
  <2> QED BY <2>2, <2>3 DEF Sight, BuiltFor
<1> QED BY <1>1, <1>3, <1>4 DEF TronInv

\* A step of the poll, with what it does to the panel.
LEMMA PanelKeeps == ASSUME TronInv, Panel PROVE TronInv'
<1>1. CASE phase' # "pending" /\ Shown
  <2>1. /\ account' = NoAccount /\ panel' = "idle" /\ shown' = NoAttempt /\ UNCHANGED transfers
        /\ attempts' = [a \in Attempts |->
             IF attempts[a].at \in {"broadcast", "orphan"}
               THEN [Resting EXCEPT !.at = "orphan"] ELSE Resting]
        /\ slipped' = (slipped \/ \E a \in Attempts :
                         attempts[a].at = "broadcast" \/ transfers[a] # "none")
    BY <1>1 DEF Panel
  <2>2. [Resting EXCEPT !.at = "orphan"] =
          [at |-> "orphan", stale |-> FALSE, rebuilt |-> FALSE, payer |-> NoAccount]
    BY RestIsRun, MoveOf DEF Awaits
  <2>3. ASSUME NEW a \in Attempts
        PROVE  /\ attempts'[a] \in Runs /\ attempts'[a].at \in {"none", "orphan"}
               /\ attempts'[a].stale = FALSE /\ attempts'[a].rebuilt = FALSE
               /\ attempts'[a].payer = NoAccount
               /\ attempts'[a].at = "orphan" => attempts[a].at \in {"broadcast", "orphan"}
    BY <2>1, <2>2, RestIsRun DEF Runs, Awaits
  <2>4. TronTypes' /\ AtRest' /\ ShowsATransfer'
    BY <2>1, <2>3 DEF TronInv, TronTypes, AtRest, ShowsATransfer, Panels
  <2>5. Homes'
    BY <2>1, <2>3 DEF TronInv, Homes, Open
  <2>6. ASSUME ~slipped' PROVE Sight'
    <3>1. \A b \in Attempts : ~Live(b)'
      BY <2>3 DEF Live, Open
    <3>2. \A b \in Attempts : transfers'[b] = "none"
      BY <2>1, <2>6
    <3> QED BY <3>1, <3>2, QuietSight
  <2> QED BY <2>4, <2>5, <2>6 DEF TronInv
<1>2. CASE ~(phase' # "pending" /\ Shown)
  <2>1. /\ UNCHANGED <<account, shown, attempts, slipped, transfers>>
        /\ panel' = IF phase' = "pending" /\ ~Shown /\ backendPaid THEN "paid" ELSE panel
    BY <1>2 DEF Panel
  <2>2. TronTypes' /\ AtRest' /\ ShowsATransfer' /\ Homes'
    BY <1>2, <2>1 DEF TronInv, TronTypes, AtRest, ShowsATransfer, Homes, Open, Shown, Panels
  <2>3. ASSUME Sight PROVE Sight'
    <3>1. CASE Shown
      BY <1>2, <2>1, <2>3, <3>1 DEF Sight, InSight, BuiltFor, Live, Fits, Open, Stale, Shown
    <3>2. CASE ~Shown
      <4>1. \A b \in Attempts : ~Live(b)' /\ transfers'[b] = "none"
        BY <2>1, <2>3, <3>2 DEF TronInv, Homes, Sight, InSight, Live, Open, Stale
      <4> QED BY <4>1, QuietSight
    <3> QED BY <3>1, <3>2
  <2> QED BY <2>1, <2>2, <2>3 DEF TronInv
<1> QED BY <1>1, <1>2

-----------------------------------------------------------------------------
(* The page.                                                               *)

\* The TRON flow only moves on the page of an intent that is paid on TRON.
TronPageInv == TronInv /\ (family # "tron" => \A a \in Attempts :
                 ~Open(a) /\ attempts[a].at # "orphan" /\ transfers[a] = "none")

LEMMA TronStepKeeps == ASSUME TronInv, TronNext PROVE TronInv'
<1>1. ASSUME NEW a \in Attempts, Attempt(a) PROVE TronInv'
  BY <1>1, AbandonKeeps, ThrowKeeps, CheckIntentKeeps, AskToSignKeeps, SignedKeeps,
     RebuildKeeps, BroadcastKeeps, OrphanEndsKeeps, MineKeeps DEF Attempt
<1> QED BY <1>1, IdentityKeeps, TronRetryKeeps, WatchReceiptKeeps, TronPayKeeps DEF TronNext

LEMMA TronStayKeeps ==
  ASSUME TronInv, UNCHANGED tronVars,
         UNCHANGED phase \/ \A a \in Attempts : ~Open(a) /\ transfers[a] = "none"
  PROVE  TronInv'
<1>1. TronTypes' /\ AtRest' /\ ShowsATransfer' /\ Homes'
  BY DEF TronInv, TronTypes, AtRest, ShowsATransfer, Homes, Open, Shown
<1>2. ASSUME Sight PROVE Sight'
  <2>1. CASE UNCHANGED phase
    BY <1>2, <2>1 DEF Sight, InSight, BuiltFor, Live, Fits, Open, Stale, Shown
  <2>2. CASE \A a \in Attempts : ~Open(a) /\ transfers[a] = "none"
    <3>1. \A a \in Attempts : ~Live(a)' /\ transfers'[a] = "none"
      BY <2>2 DEF Live, Open
    <3> QED BY <3>1, QuietSight
  <2> QED BY <2>1, <2>2
<1> QED BY <1>1, <1>2 DEF TronInv

LEMMA TronPageInvariant == Spec => []TronPageInv
<1>1. ASSUME Init PROVE TronPageInv
  <2>1. /\ account = NoAccount /\ panel = "idle" /\ shown = NoAttempt /\ slipped = FALSE
        /\ attempts = [a \in Attempts |-> Resting] /\ transfers = [a \in Attempts |-> "none"]
    BY <1>1 DEF Init, TronInit
  <2>2. TronTypes /\ ShowsATransfer
    BY <2>1, RestIsRun DEF TronTypes, ShowsATransfer, Panels
  <2>3. AtRest /\ Homes
    BY <2>1, RestIsRun DEF AtRest, Homes, Open
  <2>4. Sight
    BY <2>1, RestIsRun DEF Sight, InSight, BuiltFor, Live, Open
  <2> QED BY <2>1, <2>2, <2>3, <2>4, RestIsRun DEF TronPageInv, TronInv, Open
<1>2. ASSUME TronPageInv, [Next]_vars PROVE TronPageInv'
  <2> USE DEF TronPageInv
  <2>1. CASE PagePoll
    <3>1. CASE family = "tron"
      BY <1>2, <2>1, <3>1, PanelKeeps DEF PagePoll
    <3>2. CASE family # "tron"
      <4>1. TronInv'
        BY <1>2, <2>1, <3>2, TronStayKeeps DEF PagePoll
      <4> QED BY <1>2, <2>1, <3>2, <4>1 DEF PagePoll, Open
    <3> QED BY <3>1, <3>2
  <2>2. CASE TronFlow
    BY <1>2, <2>2, TronStepKeeps DEF TronFlow
  <2>3. CASE Backend \/ LocalExpiry \/ EvmFlow \/ UNCHANGED vars
    <3>1. UNCHANGED <<tronVars, family>>
      BY <2>3 DEF Backend, LocalExpiry, EvmFlow, vars
    <3>2. UNCHANGED phase
      <4>1. CASE EvmFlow
        BY <4>1 DEF EvmFlow, EvmNext, Connect, WalletChanges, SwitchNetwork, ReadsSettle,
           RetryReads, Approve, AnswerApprove, ApproveMined, Pay, AnswerSign, AnswerPay,
           PaymentMined, ReceiptStalls, ReadReceipt, Retry, UseDifferentWallet,
           AnswerForgotten, SignForgotten
      <4> QED BY <2>3, <4>1 DEF Backend, BackendMoves, LocalExpiry, Refresh, vars
    <3>3. TronInv'
      BY <1>2, <3>1, <3>2, TronStayKeeps
    <3> QED BY <1>2, <3>1, <3>3 DEF Open
  <2> QED BY <1>2, <2>1, <2>2, <2>3 DEF Next
<1> QED BY <1>1, <1>2, PTL DEF Spec

(***************************************************************************)
(* The types of the whole page: poll, wallets, attempts and transfers.       *)
(***************************************************************************)
THEOREM TypeCorrect == Spec => []TypeOK
<1> DEFINE Flows == family \in {"evm", "tron", "none"} /\ expiryTold \in BOOLEAN
<1>1. Spec => []Flows
  <2>1. Init => Flows
    BY FamiliesAssumption DEF Init
  <2>2. Flows /\ [Next]_vars => Flows'
    BY DEF Next, PagePoll, Backend, LocalExpiry, EvmFlow, TronFlow, vars
  <2> QED BY <2>1, <2>2, PTL DEF Spec
<1>2. PageInv /\ TronPageInv /\ Flows => TypeOK
  BY TronTypeParts DEF PageInv, PollInv, EvmInv, TronPageInv, TronInv, TypeOK
<1> QED BY <1>1, <1>2, PageInvariant, TronPageInvariant, PTL

(***************************************************************************)
(* A transfer that was broadcast stays on the payer's screen whenever a      *)
(* wallet is connected, unless a stale attempt ended late, a node's answer   *)
(* was lost or the panel was taken down.                                     *)
(***************************************************************************)
THEOREM TransfersStayOnScreen == Spec => []TransferIsOnScreen
<1>1. TronPageInv => TransferIsOnScreen
  BY DEF TronPageInv, TronInv, Sight, InSight, TransferIsOnScreen, Screen
<1> QED BY <1>1, TronPageInvariant, PTL

(***************************************************************************)
(* What goes to the node was built for the account the panel shows.         *)
(***************************************************************************)
THEOREM BroadcastsAreForTheAccount == Spec => BroadcastsForTheAccountShown
<1> DEFINE Built == \A a \in Attempts :
             attempts[a].at # "broadcast" /\ attempts'[a].at = "broadcast" =>
               attempts[a].payer = account \/ attempts[a].rebuilt \/ slipped
<1>1. ASSUME TronPageInv, [Next]_vars PROVE Built
  <2> USE DEF TronPageInv
  <2>1. CASE UNCHANGED attempts
    BY <2>1
  <2>2. CASE Panel
    <3>1. ASSUME NEW a \in Attempts, attempts'[a].at = "broadcast"
          PROVE  attempts[a].at = "broadcast"
      <4>1. [Resting EXCEPT !.at = "orphan"].at = "orphan"
        BY RestIsRun, MoveOf DEF Awaits
      <4> QED BY <2>2, <3>1, <4>1, RestIsRun DEF Panel
    <3> QED BY <3>1
  <2>3. CASE IdentityChanges
    <3>1. ASSUME NEW a \in Attempts PROVE attempts'[a].at = attempts[a].at
      BY <1>1, <2>3 DEF IdentityChanges, TronInv, TronTypes, Runs
    <3> QED BY <3>1
  <2>4. ASSUME NEW a \in Attempts, TronPay(a) \/ Attempt(a) PROVE Built
    <3>1. ASSUME NEW b \in Attempts \ {a} PROVE attempts'[b] = attempts[b]
      BY <1>1, <2>4, <3>1 DEF TronPay, Attempt, Abandon, Throw, CheckIntent, AskToSign, Signed,
         Rebuild, Broadcast, OrphanEnds, Mine, At, End, TronInv, TronTypes
    <3>2. CASE Signed(a)
      <4>1. slipped \/ BuiltFor(a)
        BY <1>1 DEF TronInv, Sight
      <4>2. Live(a) /\ attempts[a].at # "broadcast"
        BY <3>2 DEF Signed, Live, Open
      <4> QED BY <3>1, <4>1, <4>2 DEF BuiltFor
    <3>3. CASE ~Signed(a)
      <4>1. attempts'[a].at # "broadcast" \/ attempts'[a] = attempts[a]
        BY <1>1, <2>4, <3>3, RestIsRun DEF TronPay, Attempt, Abandon, Throw, CheckIntent,
           AskToSign, Rebuild, Broadcast, OrphanEnds, Mine, At, End, TronInv, TronTypes, Runs
      <4> QED BY <3>1, <4>1
    <3> QED BY <3>2, <3>3
  <2>5. CASE TronRetry \/ WatchReceipt
    BY <2>1, <2>5 DEF TronRetry, WatchReceipt
  <2> QED BY <1>1, <2>1, <2>2, <2>3, <2>4, <2>5
          DEF Next, PagePoll, Backend, LocalExpiry, EvmFlow, TronFlow, TronNext, vars
<1>2. TronPageInv /\ [Next]_vars => [Built]_<<pollVars, tronVars>>
  BY <1>1
<1> QED BY <1>2, TronPageInvariant, PTL DEF Spec, BroadcastsForTheAccountShown
=============================================================================
