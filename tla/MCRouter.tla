------------------------------- MODULE MCRouter -------------------------------
(***************************************************************************)
(* Small instances of Router: a word of about 60000, so that products with *)
(* basis points overflow at amounts of 7 and more.                         *)
(***************************************************************************)
EXTENDS Router, TLC

MCShareLists ==
  { <<5000, 5000>>, <<3333, 3333, 3334>>, <<1, 9999>>, <<9999, 1>>, <<1667, 1667, 1667, 4999>>,
    [j \in 1..20 |-> 500],
    <<>>, <<10000>>, <<0, 10000>>, <<5000, 4999>>, <<5001, 5000>>, <<65535, 1>>,
    [j \in 1..21 |-> 1] }

Fees(base, threshold, surcharge, on) ==
  [baseFee |-> base, threshold |-> threshold, surcharge |-> surcharge, enabled |-> on]

MCFeeConfigs ==
  { Fees(1, 0, 0, TRUE), Fees(1, 5, 2, TRUE), Fees(0, 5, 59996, TRUE), Fees(1, 5, 2, FALSE) }
=============================================================================
