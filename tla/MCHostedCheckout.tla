-------------------------- MODULE MCHostedCheckout --------------------------
(***************************************************************************)
(* Small instances of HostedCheckout.                                      *)
(***************************************************************************)
EXTENDS HostedCheckout, TLC

CONSTANTS q1, q2, a1, a2, p1, p2

\* A page whose payer does nothing leaves room for a second open fetch.
OneWithPayer ==
  [f \in {"evm", "tron", "none"} |-> IF f = "none" THEN {q1, q2} ELSE {q1}]
OneFetch == [f \in {"evm", "tron", "none"} |-> {q1}]
=============================================================================
