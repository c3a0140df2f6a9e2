------------------------ MODULE MCIntentTransactions ------------------------
(***************************************************************************)
(* Small instances of IntentTransactions.                                  *)
(***************************************************************************)
EXTENDS IntentTransactions, TLC

CONSTANTS s1, s2, c1, c2, w1, w2, g1, r1, watcher
=============================================================================
