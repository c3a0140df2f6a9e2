---------------------------- MODULE TronCheckout ----------------------------
(***************************************************************************)
(* The wallet flow of the hosted checkout on TRON (lib/web3/tron/           *)
(* useTronPayment.ts, TronPayPanel, TronWalletProvider), next to the poll   *)
(* of the intent.  pay() is one long attempt: it asks, builds, has the      *)
(* wallet sign and broadcasts, and looks after every await whether it has   *)
(* become stale.  The panel, its wallet session and its attempts live as    *)
(* long as the page shows the intent as pending.                            *)
(***************************************************************************)
EXTENDS IntentPoll, FiniteSets

CONSTANTS
  Accounts, NoAccount,  \* the accounts of the payer's wallets
  Attempts, NoAttempt,  \* the runs of pay() that may be open at once (a bound)
  LossyNode             \* a node may accept a transfer and its answer be lost

VARIABLES
  account,    \* wallet.address
  panel,      \* the kind of TronPayStatus, with the inclusion of processing
              \* and the class of a failure spelled out
  shown,      \* the attempt whose txid the panel has
  attempts,   \* each run of pay(): where it awaits, and what it captured
  transfers,  \* what became of the transfer of each attempt
  slipped     \* history: a transfer may be out of the panel's sight (see Slip)

tronVars == <<account, panel, shown, attempts, transfers, slipped>>

Busy       == {"preflight", "awaiting_signature", "signature_expired", "broadcasting"}
Processing == {"processing", "included", "timeout"}
Panels     == Busy \cup Processing \cup
  {"idle", "connected", "retryable", "failed", "failed_on_chain", "paid",
   "expired", "already_paid"}

\* Where an attempt waits: for the intent; for the node, up to the built
\* transaction; for the wallet; for the broadcast; an orphan has lost its panel.
Awaits  == {"none", "intent", "node", "wallet", "broadcast", "orphan"}
Resting == [at |-> "none", stale |-> FALSE, rebuilt |-> FALSE, payer |-> NoAccount]

TronTypeOK ==
  /\ account \in Accounts \cup {NoAccount}
  /\ panel \in Panels
  /\ shown \in Attempts \cup {NoAttempt}
  /\ attempts \in [Attempts -> [at : Awaits, stale : BOOLEAN, rebuilt : BOOLEAN,
                                payer : Accounts \cup {NoAccount}]]
  /\ transfers \in [Attempts -> {"none", "out", "landed", "reverted"}]
  /\ slipped \in BOOLEAN
  /\ \A a \in Attempts : attempts[a].at \in {"none", "orphan"} =>
       attempts[a] = [Resting EXCEPT !.at = attempts[a].at]
  /\ panel = "processing" => shown \in Attempts /\ transfers[shown] # "none"

TronInit ==
  /\ account = NoAccount /\ panel = "idle" /\ shown = NoAttempt
  /\ attempts = [a \in Attempts |-> Resting]
  /\ transfers = [a \in Attempts |-> "none"]
  /\ slipped = FALSE

Shown == phase = "pending"      \* the panel is mounted

At(a, s)  == attempts' = [attempts EXCEPT ![a].at = s]
LeaveStale(a) == At(a, "none")     \* a faulty variant of End
End(a)    == attempts' = [attempts EXCEPT ![a] = Resting]
Out(a)    == transfers' = [transfers EXCEPT ![a] = "out"]
Open(a)   == attempts[a].at \notin {"none", "orphan"}
Stale(a)  == attempts[a].stale

-----------------------------------------------------------------------------
\* INVALIDATES: the panels that an identity change tears down.
\* (A faulty variant: all of them.)
InvalidatesAll == Panels

Invalidates == {"idle", "connected", "preflight", "awaiting_signature", "signature_expired"}

\* The identity changes: another account, none, or another chain of the same
\* one.  The generation counter makes every open attempt stale.
IdentityChanges ==
  /\ Shown
  /\ account' \in Accounts \cup {NoAccount}
  /\ IF panel \in Invalidates
       THEN /\ attempts' = [a \in Attempts |->
                              [attempts[a] EXCEPT !.stale = Open(a)]]
            /\ panel' = IF account' = NoAccount THEN "idle" ELSE "connected"
       ELSE UNCHANGED <<attempts, panel>>      \* kept, behind the connect prompt or not
  /\ UNCHANGED <<pollVars, shown, transfers, slipped>>

Fresh == {a \in Attempts : attempts[a] = Resting /\ transfers[a] = "none"}

\* The Pay button.
TronPay(a) ==
  /\ Shown /\ account # NoAccount /\ panel \in {"idle", "connected"}
  /\ a \in Fresh /\ a = CHOOSE b \in Fresh : TRUE
  /\ attempts' = [attempts EXCEPT ![a] =
       [at |-> "intent", stale |-> FALSE, rebuilt |-> FALSE, payer |-> account]]
  /\ panel' = "preflight"
  /\ UNCHANGED <<pollVars, account, shown, transfers, slipped>>

\* reset(), offered for the reasons in RETRYABLE.
TronRetry ==
  /\ Shown /\ account # NoAccount /\ panel = "retryable"
  /\ panel' = "connected"
  /\ UNCHANGED <<pollVars, account, shown, attempts, transfers, slipped>>

-----------------------------------------------------------------------------
\* How an attempt ends.  A stale one that resumes gives the panel back to a
\* payer who may be using it for a newer attempt, and one whose await throws
\* fails without asking whether it is stale.
Slip(a) == slipped' = (slipped \/ Stale(a))

Abandon(a) ==
  /\ Open(a) /\ Stale(a)
  /\ panel' = "connected"
  /\ End(a) /\ Slip(a)
  /\ IF attempts[a].at = "broadcast"
       THEN transfers' \in {transfers, [transfers EXCEPT ![a] = "out"]}
       ELSE UNCHANGED transfers
  /\ UNCHANGED <<pollVars, account, shown>>

Throw(a) ==
  /\ Open(a)
  /\ panel' \in {"retryable", "failed"}
  /\ End(a)
  /\ \/ Slip(a) /\ UNCHANGED transfers
     \/ /\ attempts[a].at = "broadcast" /\ panel' = "retryable"
        /\ LossyNode /\ Out(a) /\ slipped' = TRUE
  /\ UNCHANGED <<pollVars, account, shown>>

\* The intent, asked for directly.  An answer that names a status other than
\* pending ends the attempt; an error answer names none, and passes for pending.
CheckIntent(a) ==
  /\ attempts[a].at = "intent" /\ ~Stale(a)
  /\ \/ At(a, "node") /\ UNCHANGED panel
     \/ /\ status # "pending" /\ End(a)
        /\ panel' = IF status = "expired" THEN "expired" ELSE "already_paid"
     \/ End(a) /\ panel' = "expired"      \* by the payer's own clock
  /\ UNCHANGED <<pollVars, account, shown, transfers, slipped>>

\* Network, balance, energy and fees are covered, the transaction is built anew
\* and goes to the wallet (their refusals are among the outcomes of Throw).
AskToSign(a) ==
  /\ attempts[a].at = "node" /\ ~Stale(a)
  /\ At(a, "wallet") /\ panel' = "awaiting_signature"
  /\ UNCHANGED <<pollVars, account, shown, transfers, slipped>>

\* A faulty variant: no guard after the wallet answers.
SignedUnguarded(a) ==
  /\ attempts[a].at = "wallet"
  /\ At(a, "broadcast") /\ panel' = "broadcasting"
  /\ UNCHANGED <<pollVars, account, shown, transfers, slipped>>

Signed(a) ==
  /\ attempts[a].at = "wallet" /\ ~Stale(a)
  /\ At(a, "broadcast") /\ panel' = "broadcasting"
  /\ UNCHANGED <<pollVars, account, shown, transfers, slipped>>

\* The node refuses a transaction whose window has closed: rebuilt once.
Rebuild(a) ==
  /\ attempts[a].at = "broadcast" /\ ~Stale(a) /\ ~attempts[a].rebuilt
  /\ attempts' = [attempts EXCEPT ![a].at = "node", ![a].rebuilt = TRUE]
  /\ panel' = "signature_expired"
  /\ UNCHANGED <<pollVars, account, shown, transfers, slipped>>

\* The node has the transfer (a duplicate counts): show it, speed up the poll.
Broadcast(a) ==
  /\ attempts[a].at = "broadcast" /\ ~Stale(a)
  /\ Out(a) /\ End(a)
  /\ panel' = "processing" /\ shown' = a
  /\ StartSync
  /\ UNCHANGED <<status, phase, backendPaid, windowOver, requests, account, slipped>>

\* An attempt whose panel is gone: what the node was given may still go out.
OrphanEnds(a) ==
  /\ attempts[a].at = "orphan"
  /\ transfers' \in {transfers, [transfers EXCEPT ![a] = "out"]}
  /\ End(a)
  /\ UNCHANGED <<pollVars, account, panel, shown, slipped>>

-----------------------------------------------------------------------------
\* The chain, and the receipt watch on the transfer that is shown.
Mine(a) ==
  /\ transfers[a] = "out"
  /\ \E fate \in {"landed", "reverted"} : transfers' = [transfers EXCEPT ![a] = fate]
  /\ UNCHANGED <<pollVars, account, panel, shown, attempts, slipped>>

WatchReceipt ==
  /\ panel = "processing"
  /\ panel' = CASE transfers[shown] = "out"      -> "timeout"
                [] transfers[shown] = "landed"   -> "included"
                [] transfers[shown] = "reverted" -> "failed_on_chain"
  /\ UNCHANGED <<pollVars, account, shown, attempts, transfers, slipped>>

\* What a step of the poll does to the panel: an intent that is shown as anything
\* but pending takes it down, wallet session, attempts and all; a panel that
\* comes back starts afresh and asks backendPaid.
Panel ==
  /\ IF phase' # "pending" /\ Shown
       THEN /\ account' = NoAccount /\ panel' = "idle" /\ shown' = NoAttempt
            /\ attempts' = [a \in Attempts |->
                 IF attempts[a].at \in {"broadcast", "orphan"}
                   THEN [Resting EXCEPT !.at = "orphan"] ELSE Resting]
            /\ slipped' = (slipped \/ \E a \in Attempts :
                             attempts[a].at = "broadcast" \/ transfers[a] # "none")
     ELSE /\ panel' = IF phase' = "pending" /\ ~Shown /\ backendPaid THEN "paid" ELSE panel
          /\ UNCHANGED <<account, shown, attempts, slipped>>
  /\ UNCHANGED transfers

Attempt(a) ==
  \/ Abandon(a) \/ Throw(a) \/ CheckIntent(a) \/ AskToSign(a) \/ Signed(a)
  \/ Rebuild(a) \/ Broadcast(a) \/ OrphanEnds(a) \/ Mine(a)

TronNext ==
  \/ IdentityChanges \/ TronRetry \/ WatchReceipt
  \/ \E a \in Attempts : TronPay(a) \/ Attempt(a)
-----------------------------------------------------------------------------
\* What TronPayPanel renders: without a wallet its connect prompt, whatever the
\* state of the payment; else the state.
Screen == IF account = NoAccount THEN "connect" ELSE panel
Offers == Shown /\ Screen \in {"idle", "connected", "retryable"}

(***************************************************************************)
(* A transfer that was broadcast is on the payer's screen, which offers      *)
(* neither Pay nor Retry and reports a failure only if the chain does.  A    *)
(* payer without a wallet sees the connect prompt in its place, and finds    *)
(* the transfer again behind it with the next wallet, whichever that is.     *)
(* For good it is lost from sight in three ways (slipped): a stale attempt   *)
(* ends late, the node's answer is lost, or the panel is taken down.         *)
(***************************************************************************)
TransferIsOnScreen ==
  \A a \in Attempts :
    transfers[a] # "none" /\ Shown /\ ~slipped =>
      \/ Screen \in Processing
      \/ Screen = "failed_on_chain" /\ transfers[a] = "reverted"
      \/ Screen = "connect"

(***************************************************************************)
(* What goes to the node was built for the account the panel shows: "a       *)
(* generation counter ... makes an in-flight attempt abandon itself rather   *)
(* than finish against a stale payer" (useTronPayment.ts:30-32).  A rebuild  *)
(* is excepted: a switch during the first broadcast invalidates nothing, and *)
(* the second transaction is built for the first payer again.                *)
(***************************************************************************)
BroadcastsForTheAccountShown ==
  [][\A a \in Attempts :
       attempts[a].at # "broadcast" /\ attempts'[a].at = "broadcast" =>
         attempts[a].payer = account \/ attempts[a].rebuilt \/ slipped]_<<pollVars, tronVars>>

(***************************************************************************)
(* The same without the exception of a stale attempt: as long as no answer   *)
(* of a node is lost and the panel stays up, Pay is never offered while a    *)
(* transfer is out: an attempt whose payer changed is to "abandon itself     *)
(* rather than finish" (useTronPayment.ts:31-32), and "anything already      *)
(* signed or broadcast is left alone" (214).                                 *)
(***************************************************************************)
OffersNoSecondTransfer ==
  Offers => \A a \in Attempts : transfers[a] = "none"
=============================================================================
