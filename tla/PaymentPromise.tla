--------------------------- MODULE PaymentPromise ---------------------------
(***************************************************************************)
(* What the payment indexer promises a merchant about each invoice:        *)
(* an invoice is open until it is paid or closed, closing is for ever,     *)
(* payment.completed is announced only for a paid invoice, and a payment   *)
(* taken back after the announcement is retracted with payment.reversed,   *)
(* at once or, when that one dispatch was lost, later or never.            *)
(***************************************************************************)
CONSTANT Intents

VARIABLES
  state,   \* what each invoice is to its payer
  told,    \* webhook events announced to its merchant
  lost     \* invoices with a payment.reversed dispatch that was lost

vars == <<state, told, lost>>

Init ==
  /\ state \in [Intents -> {"absent", "open"}]
  /\ told = [i \in Intents |-> {}]
  /\ lost = {}

Open(i) ==
  /\ state[i] = "absent"
  /\ state' = [state EXCEPT ![i] = "open"]
  /\ UNCHANGED <<told, lost>>

Close(i) ==
  /\ state[i] = "open"
  /\ state' = [state EXCEPT ![i] = "closed"]
  /\ UNCHANGED <<told, lost>>

\* The payment is final, and announced at once unless the dispatch fails.
Pay(i) ==
  /\ state[i] = "open"
  /\ state' = [state EXCEPT ![i] = "paid"]
  /\ told' \in {told, [told EXCEPT ![i] = @ \cup {"completed"}]}
  /\ UNCHANGED lost

\* Announcements that failed are made later, several in one go.
Announce(S) ==
  /\ \A i \in S : state[i] = "paid"
  /\ told' = [i \in Intents |-> IF i \in S THEN told[i] \cup {"completed"} ELSE told[i]]
  /\ UNCHANGED <<state, lost>>

Retract(i) ==
  /\ state[i] = "paid"
  /\ state' = [state EXCEPT ![i] = "open"]
  /\ \/ "completed" \notin told[i] /\ UNCHANGED <<told, lost>>
     \/ "completed" \in told[i] /\ told' = [told EXCEPT ![i] = @ \cup {"reversed"}]
                                /\ UNCHANGED lost
     \/ "completed" \in told[i] /\ lost' = lost \cup {i} /\ UNCHANGED told
     \/ "reversed" \in told[i] /\ UNCHANGED <<told, lost>>

\* The retraction of a payment whose dispatch was lost is dispatched again.
RetractLate(i) ==
  /\ i \in lost
  /\ told' = [told EXCEPT ![i] = @ \cup {"reversed"}]
  /\ UNCHANGED <<state, lost>>

Next ==
  \/ \E i \in Intents : Open(i) \/ Close(i) \/ Pay(i) \/ Retract(i) \/ RetractLate(i)
  \/ \E S \in SUBSET Intents : Announce(S)

Spec == Init /\ [][Next]_vars
=============================================================================
