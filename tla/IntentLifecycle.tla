--------------------------- MODULE IntentLifecycle ---------------------------
(***************************************************************************)
(* The life of one payment intent as its merchant may rely on it: a        *)
(* pending intent expires, is cancelled, or is paid; an expired one can    *)
(* still be paid by money already on the chain; only the reversal of the   *)
(* settlement that paid it takes it back to pending; review is resolved    *)
(* by the merchant or by a valid payment; everything else is for ever.     *)
(***************************************************************************)
CONSTANTS Settlements, NoSettlement

VARIABLES
  status,   \* the status of the intent
  matched   \* the settlement that paid it

vars == <<status, matched>>

Init == status \in {"pending", "review"} /\ matched = NoSettlement

Close ==
  /\ \/ status = "pending" /\ status' \in {"expired", "cancelled"}
     \/ status = "review"  /\ status' \in {"completed", "refunded"}
  /\ UNCHANGED matched

Pay(s) ==
  /\ status \in {"pending", "expired", "review"}
  /\ status' = "paid" /\ matched' = s

Unpay ==
  /\ status = "paid"
  /\ status' = "pending" /\ matched' = NoSettlement

Next == Close \/ Unpay \/ \E s \in Settlements : Pay(s)

Spec == Init /\ [][Next]_vars
=============================================================================
