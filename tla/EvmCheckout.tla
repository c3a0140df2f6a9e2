----------------------------- MODULE EvmCheckout -----------------------------
(***************************************************************************)
(* The wallet flow of the hosted checkout on a router chain                 *)
(* (lib/web3/useHostedCheckout.ts, checkoutState.ts and the components that *)
(* render its steps), next to the poll of the intent.  The wallet, the      *)
(* chain and the payer are the environment; every control of the page is    *)
(* guarded by the view that offers it.                                      *)
(***************************************************************************)
EXTENDS IntentPoll

CONSTANT MayForget    \* the payer may leave a wallet whose prompt is still open

VARIABLES
  route,         \* native, permit, or allowance (approve and pay)
  connected,     \* a wallet is connected
  onChain,       \* ... which is on the chain of the invoice
  switchRefused, \* the wallet said that it does not know this chain
  reads,         \* fee, balance and permit data: failed, ok, or not enough to pay
  allowed,       \* the allowance last read covers the total
  approval,      \* the approve mutation, then its transaction
  signing,       \* the permit signature
  payment,       \* the pay mutation; "sent" once the page has its hash
  fate,          \* what the chain did with that transaction
  receipt,       \* what the page has read of it
  unread,        \* its receipt errored or has been awaited for too long
  forgotten      \* a prompt that is open in a wallet and nowhere else, or
                 \* stray: a payment is out whose hash the page does not have

proposed == <<approval, signing, payment>>
outcome  == <<fate, receipt, unread>>
wallet   == <<connected, onChain, switchRefused>>
evmVars  == <<route, wallet, reads, allowed, proposed, outcome, forgotten>>

\* Why a request to the wallet failed: the payer declined, the transport did,
\* the wallet does not know the chain, or anything else.
Errors  == {"rejected", "transient", "refused", "fatal"}

EvmTypeOK ==
  /\ route \in {"native", "permit", "allowance"}
  /\ connected \in BOOLEAN /\ onChain \in BOOLEAN /\ switchRefused \in BOOLEAN
  /\ reads \in {"wanting", "ok", "failed"} /\ allowed \in BOOLEAN
  /\ approval \in {"idle", "prompt", "sent", "confirmed"} \cup Errors
  /\ signing \in {"idle", "prompt"} \cup Errors
  /\ payment \in {"idle", "prompt", "sent"} \cup Errors
  /\ fate \in {"none", "pending", "ok", "reverted"}
  /\ receipt \in {"none", "ok", "reverted"}
  /\ unread \in BOOLEAN
  /\ forgotten \in {"none", "sign", "pay", "stray"}

EvmInit ==
  /\ route \in {"native", "permit", "allowance"}
  /\ connected = FALSE /\ onChain = FALSE /\ switchRefused = FALSE
  /\ reads = "wanting" /\ allowed = FALSE
  /\ approval = "idle" /\ signing = "idle" /\ payment = "idle"
  /\ fate = "none" /\ receipt = "none" /\ unread = FALSE
  /\ forgotten = "none"

-----------------------------------------------------------------------------
\* deriveCheckoutStep: the first line that applies decides.
TxError ==
  IF approval \in Errors THEN approval
  ELSE IF payment \in Errors THEN payment
  ELSE IF signing \in Errors THEN signing ELSE "none"

ChainRefused == connected /\ ((switchRefused /\ ~onChain) \/ TxError = "refused")

\* A faulty variant: the receipt alone is success.
OutcomeByReceipt ==
  IF receipt = "reverted" THEN "failed"
  ELSE IF receipt = "ok" THEN "success"
  ELSE IF unread THEN "confirmation_unknown" ELSE "tx_pending"

Outcome ==
  IF receipt = "reverted" THEN "failed"
  ELSE IF receipt = "ok" THEN IF backendPaid THEN "success" ELSE "syncing"
  ELSE IF unread THEN "confirmation_unknown" ELSE "tx_pending"

Ready ==
  IF reads = "failed" THEN "chain_unreachable"
  ELSE IF reads = "wanting" THEN "quoting"
  ELSE IF route = "allowance" /\ ~allowed THEN "needs_approve"
  ELSE IF approval = "confirmed" THEN "ready_to_pay" ELSE "ready"

Step ==
  IF payment = "sent" THEN Outcome
  ELSE IF ChainRefused THEN "wallet_chain_unsupported"
  ELSE IF TxError = "transient" THEN "chain_unreachable"
  ELSE IF TxError \in {"fatal", "refused"} THEN "failed"
  ELSE IF "prompt" \in {payment, signing} THEN "paying"
  ELSE IF approval = "prompt" THEN "approving"
  ELSE IF TxError = "rejected" THEN "rejected"
  ELSE IF approval = "sent" THEN "approve_pending"
  ELSE IF ~connected THEN "connect"
  ELSE IF ~onChain THEN "wrong_network"
  ELSE Ready

\* What the payer sees: the outcome of a payment of this page comes before the
\* status of the intent, and the status before the wallet.
\* (and a faulty variant: only while the wallet is asked)
OnlyPaying == Step = "paying"

PaymentInFlight == payment = "sent" \/ Step = "paying"

View ==
  IF phase \notin Statuses THEN phase
  ELSE IF Step = "success" \/ PaymentInFlight \/ phase = "pending" THEN Step
  ELSE IF phase = "expired" THEN "expired" ELSE "already_paid"

Mounted == phase \in Statuses

-----------------------------------------------------------------------------
\* The payer and the wallet, before anything is asked of the wallet.
Connect ==
  /\ View = "connect"
  /\ connected' = TRUE /\ onChain' \in BOOLEAN
  /\ UNCHANGED <<pollVars, route, switchRefused, reads, allowed, proposed,
                 outcome, forgotten>>

\* The wallet's own disconnect (also the one of the ConnectButton, which
\* resets nothing) and its change of network.
WalletChanges ==
  /\ connected
  /\ \/ connected' = FALSE /\ onChain' = FALSE
     \/ onChain' = ~onChain /\ UNCHANGED connected
  /\ UNCHANGED <<pollVars, route, switchRefused, reads, allowed, proposed,
                 outcome, forgotten>>

SwitchNetwork ==
  /\ View = "wrong_network"
  /\ \/ onChain' = TRUE /\ switchRefused' = FALSE
     \/ onChain' = FALSE /\ switchRefused' = TRUE
  /\ UNCHANGED <<pollVars, route, connected, reads, allowed, proposed, outcome,
                 forgotten>>

\* The chain reads answer, at first or again, and a node may answer anything
\* (only where Ready looks at it: elsewhere it makes no difference yet).
ReadsSettle ==
  /\ Mounted /\ Step = Ready
  /\ reads' \in {"wanting", "ok", "failed"}
  /\ IF route = "allowance" THEN allowed' \in BOOLEAN ELSE UNCHANGED allowed
  /\ UNCHANGED <<pollVars, route, wallet, proposed, outcome, forgotten>>

\* The control of chain_unreachable asks the reads again, and only the reads.
RetryReads ==
  /\ View = "chain_unreachable" /\ reads = "failed"
  /\ reads' = "wanting"
  /\ UNCHANGED <<pollVars, route, wallet, allowed, proposed, outcome,
                 forgotten>>

-----------------------------------------------------------------------------
\* The approval.
Approve ==
  /\ View = "needs_approve"
  /\ approval' = "prompt"
  /\ UNCHANGED <<pollVars, route, wallet, reads, allowed, signing, payment,
                 outcome, forgotten>>

AnswerApprove ==
  /\ approval = "prompt"
  /\ approval' \in {"sent"} \cup Errors
  /\ UNCHANGED <<pollVars, route, wallet, reads, allowed, signing, payment,
                 outcome, forgotten>>

\* Its receipt starts a read of the allowance, from a node that may be behind.
\* (A reverted approval changes nothing that the page looks at.)
ApproveMined ==
  /\ approval = "sent" /\ approval' = "confirmed"
  /\ allowed' \in BOOLEAN
  /\ UNCHANGED <<pollVars, route, wallet, reads, signing, payment, outcome,
                 forgotten>>

-----------------------------------------------------------------------------
\* The payment.
Pay ==
  /\ View \in {"ready", "ready_to_pay"}
  /\ IF route = "permit"
       THEN signing' = "prompt" /\ payment' = "idle"
       ELSE payment' = "prompt" /\ UNCHANGED signing
  /\ UNCHANGED <<pollVars, route, wallet, reads, allowed, approval, outcome,
                 forgotten>>

AnswerSign ==
  /\ signing = "prompt"
  /\ \/ signing' = "idle" /\ payment' = "prompt"
     \/ signing' \in Errors /\ UNCHANGED payment
  /\ UNCHANGED <<pollVars, route, wallet, reads, allowed, approval, outcome,
                 forgotten>>

AnswerPay ==
  /\ payment = "prompt"
  /\ \/ payment' = "sent" /\ fate' = "pending"
     \/ payment' \in Errors /\ UNCHANGED fate
  /\ UNCHANGED <<pollVars, route, wallet, reads, allowed, approval, signing,
                 receipt, unread, forgotten>>

PaymentMined ==
  /\ fate = "pending" /\ fate' \in {"ok", "reverted"}
  /\ UNCHANGED <<pollVars, route, wallet, reads, allowed, proposed, receipt,
                 unread, forgotten>>

ReceiptStalls ==
  /\ payment = "sent" /\ receipt = "none" /\ ~unread /\ unread' = TRUE
  /\ UNCHANGED <<pollVars, route, wallet, reads, allowed, proposed, fate,
                 receipt, forgotten>>

\* The receipt is read, and a successful one hands over to the sync polling.
ReadReceipt ==
  /\ payment = "sent" /\ receipt = "none" /\ fate \in {"ok", "reverted"}
  /\ receipt' = fate
  /\ unread' = FALSE
  /\ IF fate = "ok" THEN StartSync ELSE UNCHANGED <<mode, timer>>
  /\ UNCHANGED <<status, phase, backendPaid, windowOver, requests,
                 route, wallet, reads, allowed, proposed, fate, forgotten>>

-----------------------------------------------------------------------------
\* Waiting, giving up on a wallet, starting over.
Reset ==
  /\ approval' = "idle" /\ signing' = "idle" /\ payment' = "idle"
  /\ switchRefused' = FALSE

\* A faulty variant: also when the receipt cannot be read.
RetryUnread ==
  /\ View \in {"rejected", "confirmation_unknown"}
  /\ Reset
  /\ UNCHANGED <<pollVars, route, connected, onChain, reads, allowed, outcome,
                 forgotten>>

Retry ==
  /\ View = "rejected"
  /\ Reset
  /\ UNCHANGED <<pollVars, route, connected, onChain, reads, allowed, outcome,
                 forgotten>>

CanSwitchWallet == approval \notin {"sent", "confirmed"} /\ payment # "sent"

\* A reset does not close the prompt: it only stops the page from hearing of
\* it.  (An approval that is confirmed unseen changes nothing on the page.)
LivePrompt ==
  IF payment = "prompt" THEN "pay"
  ELSE IF signing = "prompt" THEN "sign" ELSE forgotten

\* Offered once a prompt has been open for WALLET_SILENT_AFTER_MS (here: at any
\* moment), or to a wallet that refuses the chain.
UseDifferentWallet ==
  /\ \/ View \in {"approving", "paying"}
     \/ View = "wallet_chain_unsupported"
  /\ CanSwitchWallet
  /\ LivePrompt # forgotten => MayForget /\ forgotten = "none"
  /\ Reset
  /\ connected' = FALSE /\ onChain' = FALSE
  /\ forgotten' = LivePrompt
  /\ UNCHANGED <<pollVars, route, reads, allowed, outcome>>

\* The forgotten prompt is answered after all, with a refusal or with a payment
\* that goes out unseen.
AnswerForgotten ==
  /\ forgotten \in {"sign", "pay"}
  /\ \/ forgotten' = "none"
     \/ forgotten = "pay" /\ forgotten' = "stray"
  /\ UNCHANGED <<pollVars, route, wallet, reads, allowed, proposed, outcome>>

\* A forgotten signature lets the pay() that awaits it go on and replace the pay
\* mutation, whatever the payer has done since.  (Bound: it comes while nothing
\* is asked of a wallet, at the latest when the next payment is out.)
SignForgotten ==
  /\ forgotten = "sign"
  /\ signing = "idle" /\ payment \in {"idle", "sent"}
  /\ approval \in {"idle", "sent", "confirmed"}
  /\ payment' = IF connected THEN "prompt" ELSE "fatal"
  /\ forgotten' = IF payment = "sent" THEN "stray" ELSE "none"
  /\ fate' = "none" /\ receipt' = "none" /\ unread' = FALSE
  /\ UNCHANGED <<pollVars, route, wallet, reads, allowed, approval, signing>>

-----------------------------------------------------------------------------
EvmNext ==
  \/ Connect \/ WalletChanges \/ SwitchNetwork \/ ReadsSettle \/ RetryReads
  \/ Approve \/ AnswerApprove \/ ApproveMined
  \/ Pay \/ AnswerSign \/ AnswerPay
  \/ PaymentMined \/ ReceiptStalls \/ ReadReceipt
  \/ Retry \/ UseDifferentWallet \/ AnswerForgotten \/ SignForgotten
-----------------------------------------------------------------------------
(***************************************************************************)
(* "Success" is a receipt of this page's own transaction and the backend's  *)
(* word together, although receipt, poll and wallet move independently.     *)
(***************************************************************************)
SuccessIsReal ==
  View = "success" => fate = "ok" /\ status = "completed"

(***************************************************************************)
(* "A transaction that was SENT but cannot be read is UNKNOWN, never failed" *)
(* (checkoutState.ts:18), and neither the status of the intent, an error, a *)
(* disconnect nor a change of network takes a payment that is out off the   *)
(* screen.                                                                  *)
(***************************************************************************)
PaymentIsOnScreen ==
  fate \in {"pending", "ok"} =>
    View \in {"tx_pending", "confirmation_unknown", "syncing", "success"}

(***************************************************************************)
(* "A transaction in flight must never be abandoned by a UI affordance"      *)
(* (useHostedCheckout.ts:561): the hash of a payment is given up in one way  *)
(* only, by a permit signature that was left open in another wallet.         *)
(***************************************************************************)
DropsOnlyForForgottenSignature ==
  [][payment = "sent" => payment' = "sent" \/ forgotten = "sign"]_<<pollVars, evmVars>>
=============================================================================
