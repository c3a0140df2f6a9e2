--------------------------- MODULE HostedCheckout ---------------------------
(***************************************************************************)
(* The page /pay/[intentId] (HostedCheckout.tsx): one poll of one intent,   *)
(* and the flow its chain calls for: the wallet flow of a router chain, the *)
(* TRON flow, or none as long as the intent cannot be paid here.            *)
(***************************************************************************)
EXTENDS EvmCheckout, TronCheckout

CONSTANTS
  Families,   \* the flows of the instance
  Width       \* per flow, the fetches that may be open at once (a bound)

ASSUME FamiliesAssumption == Families \subseteq {"evm", "tron", "none"}

VARIABLES
  family,     \* payFlowFor(intent), or none without an on-chain block
  expiryTold  \* expiryNotifiedRef: the local clock has asked for a refresh

vars == <<pollVars, evmVars, tronVars, family, expiryTold>>

TypeOK ==
  /\ PollTypeOK /\ EvmTypeOK /\ TronTypeOK
  /\ family \in {"evm", "tron", "none"} /\ expiryTold \in BOOLEAN

Init ==
  /\ family \in Families /\ expiryTold = FALSE
  /\ PollInit /\ \A r \in Requests \ Width[family] : requests[r] = "free"
  /\ TronInit
  /\ EvmInit /\ (family # "evm" => route = "native")

\* A step of the poll, and of whatever is rendered from it.
PagePoll ==
  /\ PollNext
  /\ IF family = "tron" THEN Panel ELSE UNCHANGED tronVars
  /\ UNCHANGED <<evmVars, family, expiryTold>>

Backend == BackendMoves /\ UNCHANGED <<evmVars, tronVars, family, expiryTold>>

\* The countdown reaches the expiry of the intent: ask the backend, once.
LocalExpiry ==
  /\ family # "none" /\ Mounted
  /\ ~expiryTold /\ expiryTold' = TRUE
  /\ Refresh
  /\ UNCHANGED <<evmVars, tronVars, family>>

EvmFlow  == family = "evm"  /\ EvmNext  /\ UNCHANGED <<tronVars, family, expiryTold>>
TronFlow == family = "tron" /\ TronNext /\ UNCHANGED <<evmVars, family, expiryTold>>

InWidth == \A r \in Requests \ Width[family] : requests'[r] = "free"

Next == (PagePoll \/ Backend \/ LocalExpiry \/ EvmFlow \/ TronFlow) /\ InWidth

Spec == Init /\ [][Next]_vars

\* A timer fires, a receipt that can be read is read, and a backend that is
\* asked again and again answers some of the time.
Fairness ==
  /\ WF_vars(TimerFires /\ PagePoll /\ InWidth)
  /\ WF_vars(ReadReceipt /\ EvmFlow)
  /\ SF_vars((\E r \in Requests : Serve(r)) /\ PagePoll)
  /\ SF_vars((\E r \in Requests : Arrive(r)) /\ PagePoll)

LiveSpec == Spec /\ Fairness

-----------------------------------------------------------------------------
\* The payer's own payment is out and the page follows it; the page has said so.
Followed ==
  \/ family = "evm"  /\ fate = "ok"
  \/ family = "tron" /\ panel \in Processing
Told ==
  \/ family = "evm"  /\ View = "success"
  \/ family = "tron" /\ backendPaid

(***************************************************************************)
(* "startSyncPolling(): ... switches to the quick sync backoff until the     *)
(* backend reflects the payment, then stops" (usePaymentIntent.ts:22): once  *)
(* the backend has the intent completed, a payment that the page follows is  *)
(* reported, through failed, throttled and late answers, an expiry that      *)
(* comes first and wallets that come and go.                                *)
(***************************************************************************)
PaymentIsReported ==
  Followed /\ status = "completed" ~> Told \/ ~Followed
=============================================================================
