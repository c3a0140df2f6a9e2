------------------------- MODULE MCWebhookDelivery -------------------------
(***************************************************************************)
(* Small instances of WebhookDelivery.                                     *)
(***************************************************************************)
EXTENDS WebhookDelivery, TLC

CONSTANTS d1, d2, w1, w2, p1

Interchangeable == Permutations({d1, d2}) \cup Permutations({w1, w2})
=============================================================================
