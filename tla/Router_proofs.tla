---------------------------- MODULE Router_proofs ----------------------------
(***************************************************************************)
(* Proofs about Router, for every word size, every list of shares and every *)
(* configuration of the owner.  First what the recursive function SumTo     *)
(* computes, then what one share loses by rounding down, then the invariant *)
(* of a call, with one lemma per action, and what follows from it.          *)
(***************************************************************************)
EXTENDS Router, FiniteSetTheorems, TLAPS

-----------------------------------------------------------------------------
(* Induction over the natural numbers, by the pigeonhole principle: for an   *)
(* m outside S, successor maps the elements of S below m one to one into    *)
(* themselves, and never to 0.                                              *)

LEMMA SetInduction ==
  ASSUME NEW S, 0 \in S, \A n \in Nat : n \in S => n + 1 \in S
  PROVE  Nat \subseteq S
<1>. SUFFICES ASSUME NEW m \in Nat, m \notin S PROVE FALSE
  OBVIOUS
<1>. DEFINE T    == (0..m) \cap S
            U    == T \ {0}
            next == [k \in T |-> k + 1]
<1>1. IsFiniteSet(T) /\ 0 \in T
  <2>1. IsFiniteSet(0..m)
    BY FS_Interval
  <2>. QED BY <2>1, FS_Subset
<1>2. IsFiniteSet(U) /\ Cardinality(U) < Cardinality(T)
  <2>1. IsFiniteSet(U) /\ Cardinality(U) = Cardinality(T) - 1
    BY <1>1, FS_RemoveElement
  <2>. QED BY <1>1, <2>1, FS_CardinalityType
<1>3. next \in [T -> U]
  OBVIOUS
<1>. HIDE DEF U
<1>4. \E x, y \in T : x # y /\ next[x] = next[y]
  <2>. HIDE DEF next, T
  <2>. QED BY <1>1, <1>2, <1>3, FS_PigeonHole
<1>. QED BY <1>4

-----------------------------------------------------------------------------
(* Sums.                                                                   *)

IsSum(S, f, n) == S = [k \in 0..n |-> IF k = 0 THEN 0 ELSE S[k-1] + f[k]]

\* The recursion of SumTo has a solution.
LEMMA SumExists == ASSUME NEW f, NEW n \in Nat PROVE \E S : IsSum(S, f, n)
<1>. DEFINE Has == {m \in Nat : \E S : IsSum(S, f, m)}
<1>1. 0 \in Has
  <2>1. IsSum([k \in 0..0 |-> 0], f, 0)
    BY DEF IsSum
  <2>. QED BY <2>1
<1>2. ASSUME NEW m \in Nat, m \in Has PROVE m + 1 \in Has
  <2>1. PICK S : IsSum(S, f, m)
    BY <1>2
  <2>. DEFINE T == [k \in 0..(m+1) |-> IF k =< m THEN S[k] ELSE S[m] + f[m+1]]
  <2>2. \A k \in 0..m : S[k] = IF k = 0 THEN 0 ELSE S[k-1] + f[k]
    BY <2>1 DEF IsSum
  <2>3. \A k \in 0..(m+1) : T[k] = IF k = 0 THEN 0 ELSE T[k-1] + f[k]
    BY <2>2
  <2>4. IsSum(T, f, m+1)
    BY <2>3 DEF IsSum
  <2>. QED BY <2>4
<1>. HIDE DEF Has
<1>3. n \in Has
  BY <1>1, <1>2, SetInduction
<1>. QED BY <1>3 DEF Has

\* Two solutions agree as far as their terms do.
LEMMA SumAgrees ==
  ASSUME NEW f, NEW g, NEW S, NEW T, NEW m \in Nat, NEW n \in Nat, m =< n,
         IsSum(S, f, m), IsSum(T, g, n), \A k \in 1..m : f[k] = g[k]
  PROVE  S[m] = T[m]
<1>. DEFINE Same == {k \in Nat : k =< m => S[k] = T[k]}
<1>1. /\ \A k \in 0..m : S[k] = IF k = 0 THEN 0 ELSE S[k-1] + f[k]
      /\ \A k \in 0..n : T[k] = IF k = 0 THEN 0 ELSE T[k-1] + g[k]
  BY DEF IsSum
<1>2. 0 \in Same
  BY <1>1
<1>3. ASSUME NEW k \in Nat, k \in Same PROVE k + 1 \in Same
  BY <1>1, <1>3
<1>. HIDE DEF Same
<1>4. m \in Same
  BY <1>2, <1>3, SetInduction
<1>. QED BY <1>4 DEF Same

LEMMA SumIsSum ==
  ASSUME NEW f, NEW n \in Nat
  PROVE  \E S : IsSum(S, f, n) /\ SumTo(f, n) = S[n]
<1>. DEFINE S == CHOOSE S : S = [k \in 0..n |-> IF k = 0 THEN 0 ELSE S[k-1] + f[k]]
<1>1. SumTo(f, n) = S[n]
  BY DEF SumTo
<1>2. IsSum(S, f, n)
  BY SumExists DEF IsSum
<1>. QED BY <1>1, <1>2

LEMMA SumSame ==
  ASSUME NEW f, NEW g, NEW n \in Nat, \A k \in 1..n : f[k] = g[k]
  PROVE  SumTo(f, n) = SumTo(g, n)
BY SumIsSum, SumAgrees

LEMMA SumZero == ASSUME NEW f PROVE SumTo(f, 0) = 0
BY SumIsSum DEF IsSum

LEMMA SumStep ==
  ASSUME NEW f, NEW n \in Nat
  PROVE  SumTo(f, n+1) = SumTo(f, n) + f[n+1]
<1>1. PICK S : IsSum(S, f, n) /\ SumTo(f, n) = S[n]
  BY SumIsSum
<1>2. PICK T : IsSum(T, f, n+1) /\ SumTo(f, n+1) = T[n+1]
  BY SumIsSum
<1>3. S[n] = T[n]
  BY <1>1, <1>2, SumAgrees
<1>4. T[n+1] = T[n] + f[n+1]
  BY <1>2 DEF IsSum
<1>. QED BY <1>1, <1>2, <1>3, <1>4

LEMMA SumType ==
  ASSUME NEW f, NEW n \in Nat, \A k \in 1..n : f[k] \in Nat
  PROVE  SumTo(f, n) \in Nat
<1>. DEFINE Typed == {m \in Nat : m =< n => SumTo(f, m) \in Nat}
<1>1. 0 \in Typed
  BY SumZero
<1>2. ASSUME NEW m \in Nat, m \in Typed PROVE m + 1 \in Typed
  BY <1>2, SumStep
<1>. HIDE DEF Typed
<1>3. n \in Typed
  BY <1>1, <1>2, SetInduction
<1>. QED BY <1>3 DEF Typed

\* Partial sums of natural numbers grow.
LEMMA SumGrows ==
  ASSUME NEW f, NEW n \in Nat, NEW m \in 0..n, \A k \in 1..n : f[k] \in Nat
  PROVE  SumTo(f, m) =< SumTo(f, n)
<1>. DEFINE Above == {k \in Nat : m =< k /\ k =< n => SumTo(f, m) =< SumTo(f, k)}
<1>0. \A k \in 0..n : SumTo(f, k) \in Nat
  BY SumType
<1>1. 0 \in Above
  BY <1>0
<1>2. ASSUME NEW k \in Nat, k \in Above PROVE k + 1 \in Above
  <2>1. SUFFICES ASSUME m =< k + 1, k + 1 =< n PROVE SumTo(f, m) =< SumTo(f, k+1)
    OBVIOUS
  <2>2. CASE m = k + 1
    BY <1>0, <2>1, <2>2
  <2>3. CASE m =< k
    BY <1>0, <1>2, <2>1, <2>3, SumStep
  <2>. QED BY <2>1, <2>2, <2>3
<1>. HIDE DEF Above
<1>3. n \in Above
  BY <1>1, <1>2, SetInduction
<1>. QED BY <1>3 DEF Above

\* What is added to the first term is added to the sum.
LEMMA SumOfFirst ==
  ASSUME NEW f, NEW g, NEW d \in Nat, NEW n \in Nat \ {0},
         \A k \in 1..n : f[k] \in Nat,
         g[1] = f[1] + d, \A k \in 2..n : g[k] = f[k]
  PROVE  SumTo(g, n) = SumTo(f, n) + d
<1>. DEFINE Shifted == {k \in Nat : k + 1 =< n => SumTo(g, k+1) = SumTo(f, k+1) + d}
<1>0. \A k \in 0..n : SumTo(f, k) \in Nat
  BY SumType
<1>1. 0 \in Shifted
  <2>1. SumTo(g, 0+1) = 0 + g[1] /\ SumTo(f, 0+1) = 0 + f[1]
    BY SumStep, SumZero
  <2>. QED BY <2>1
<1>2. ASSUME NEW k \in Nat, k \in Shifted PROVE k + 1 \in Shifted
  <2>1. SUFFICES ASSUME k + 2 =< n PROVE SumTo(g, k+2) = SumTo(f, k+2) + d
    OBVIOUS
  <2>2. SumTo(g, (k+1)+1) = SumTo(g, k+1) + g[k+2] /\ SumTo(f, (k+1)+1) = SumTo(f, k+1) + f[k+2]
    BY SumStep
  <2>3. SumTo(g, k+1) = SumTo(f, k+1) + d /\ g[k+2] = f[k+2]
    BY <1>2, <2>1
  <2>4. SumTo(f, k+1) \in Nat /\ f[k+2] \in Nat
    BY <1>0, <2>1
  <2>. QED BY <2>2, <2>3, <2>4
<1>. HIDE DEF Shifted
<1>3. n - 1 \in Shifted
  BY <1>1, <1>2, SetInduction
<1>. QED BY <1>3 DEF Shifted

-----------------------------------------------------------------------------
(* One share.                                                              *)

LEMMA FloorBounds ==
  ASSUME NEW p \in Nat
  PROVE  /\ p \div BPS_DENOMINATOR \in Nat
         /\ (p \div BPS_DENOMINATOR) * BPS_DENOMINATOR =< p
         /\ p =< (p \div BPS_DENOMINATOR) * BPS_DENOMINATOR + (BPS_DENOMINATOR - 1)
BY DEF BPS_DENOMINATOR

LEMMA ProductType == ASSUME NEW a \in Nat, NEW b \in Nat PROVE a * b \in Nat
OBVIOUS

LEMMA ProductStep ==
  ASSUME NEW a \in Nat, NEW b \in Nat, NEW c \in Nat
  PROVE  a * (b + c) = a * b + a * c
OBVIOUS

LEMMA ProductGrows ==
  ASSUME NEW a \in Nat, NEW b \in Nat, NEW c \in Nat, b =< c
  PROVE  b * a =< c * a
<1>1. c - b \in Nat /\ (c - b) * a \in Nat
  OBVIOUS
<1>2. c * a = b * a + (c - b) * a
  OBVIOUS
<1>. QED BY <1>1, <1>2

LEMMA ShareBounds ==
  ASSUME NEW total \in Nat, NEW bps \in Nat
  PROVE  /\ Share(total, bps) \in Nat
         /\ Share(total, bps) * BPS_DENOMINATOR =< total * bps
         /\ total * bps =< Share(total, bps) * BPS_DENOMINATOR + (BPS_DENOMINATOR - 1)
<1>1. total * bps \in Nat
  BY ProductType
<1>. QED BY <1>1, FloorBounds DEF Share

-----------------------------------------------------------------------------
(* The inductive invariant.                                                *)

\* In the loop of _computeAmounts: the sums are those of the legs so far, and what is
\* allocated is what the shares so far come to, less than one unit per leg below it.
Computing ==
  pc = "computing" =>
    /\ kind = "split" /\ fee = 0 /\ sent = 0
    /\ held = (IF asset = "native" THEN amount ELSE 0)
    /\ i \in 1..(Len(shares) + 1) /\ Len(legs) = i - 1
    /\ i > 1 => amount # 0 /\ Len(shares) \in 2..MAX_RECIPIENTS
    /\ \A j \in 1..(i-1) : legs[j] = Share(amount, shares[j]) /\ shares[j] # 0
    /\ bpsSum = SumTo(shares, i-1) /\ allocated = SumTo(legs, i-1)
    /\ allocated * BPS_DENOMINATOR =< amount * bpsSum
    /\ amount * bpsSum =< allocated * BPS_DENOMINATOR + (i-1) * (BPS_DENOMINATOR - 1)
    /\ allocated * BPS_DENOMINATOR =< (i-1) * MaxUint

\* While the legs are paid: they come to the amount and the fee, and what has left the
\* contract is what the paid ones come to.
Paying ==
  pc = "paying" =>
    /\ amount + fee \in Uint
    /\ Len(legs) >= 1 /\ i \in 1..(Len(legs) + 1)
    /\ SumTo(legs, Len(legs)) = amount + fee
    /\ sent = SumTo(legs, i-1)
    /\ held = (IF asset = "native" THEN (amount + fee) - sent ELSE 0)
    /\ kind = "fee" => legs[1] = offer.amount /\ fee =< offer.fee

FrameInv ==
  StorageOK /\ CallOK /\ Computing /\ Paying /\ (pc = "idle" => held = 0) /\ MirrorAgrees

USE DEF vars, frame

\* A call is not affected by what the owner configures.
LEMMA OwnerKeepsFrame ==
  ASSUME FrameInv, StorageOK', UNCHANGED <<kind, offer, pc, frame>>
  PROVE  FrameInv'
<1>0. /\ kind' = kind /\ offer' = offer /\ pc' = pc /\ asset' = asset /\ amount' = amount
      /\ fee' = fee /\ shares' = shares /\ legs' = legs /\ i' = i /\ bpsSum' = bpsSum
      /\ allocated' = allocated /\ held' = held /\ sent' = sent
  OBVIOUS
<1>1. CallOK'
  BY <1>0, Zenon DEF FrameInv, CallOK
<1>2. Computing'
  BY <1>0, Zenon DEF FrameInv, Computing
<1>3. Paying'
  BY <1>0, Zenon DEF FrameInv, Paying
<1>4. MirrorAgrees' /\ (pc = "idle" => held = 0)'
  BY <1>0, Zenon DEF FrameInv, MirrorAgrees
<1>. QED BY <1>1, <1>2, <1>3, <1>4 DEF FrameInv

LEMMA UintIsNat == 0 \in Uint /\ \A x \in Uint : x \in Nat /\ x =< MaxUint
BY WordOK DEF Uint

LEMMA NatIsUint == \A x \in Nat : x =< MaxUint => x \in Uint
BY WordOK DEF Uint

LEMMA FeelessType == ASSUME NEW on \in BOOLEAN PROVE Feeless(on) \in FeeConfig
<1>1. 0 \in Uint
  BY UintIsNat
<1>. QED BY <1>1, Zenon DEF Feeless, FeeConfig

LEMMA InitFrame == ASSUME Init PROVE FrameInv
<1>1. config \in [Assets -> FeeConfig] /\ paused \in BOOLEAN
  <2>1. \A t \in Assets : Feeless(t = "native") \in FeeConfig
    BY FeelessType, Zenon
  <2>. QED BY <2>1, Zenon DEF Init
<1>2. offer \in [asset : Assets, amount : Uint, fee : Uint]
  BY UintIsNat, Zenon DEF Init, Assets
<1>3. saved \in [Assets -> FeeConfig] \X BOOLEAN
  BY <1>1, Zenon DEF Init
<1>4. StorageOK
  BY <1>1, <1>2, <1>3, Zenon DEF Init, StorageOK
<1>5. CallOK
  BY UintIsNat DEF Init, CallOK, Assets
<1>6. Computing /\ Paying /\ (pc = "idle" => held = 0) /\ MirrorAgrees
  BY Zenon DEF Init, Computing, Paying, MirrorAgrees
<1>. QED BY <1>4, <1>5, <1>6 DEF FrameInv

LEMMA QuoteType ==
  ASSUME NEW c \in FeeConfig, NEW a PROVE QuoteFee(c, a) \in Nat
<1>1. c.baseFee \in Uint /\ c.surcharge \in Uint
  BY Zenon DEF FeeConfig
<1>2. c.baseFee \in Nat /\ c.surcharge \in Nat
  BY <1>1, UintIsNat
<1>3. ASSUME NEW x \in Nat, NEW y \in Nat, NEW p \in BOOLEAN
      PROVE  x + (IF p THEN y ELSE 0) \in Nat
  OBVIOUS
<1>. QED BY <1>2, <1>3, Zenon DEF QuoteFee

\* A single transfer, or a transfer and a fee, come to the sum of the two.
LEMMA SumOfOne == ASSUME NEW a \in Nat PROVE SumTo(<<a>>, 1) = a
<1>1. SumTo(<<a>>, 0+1) = SumTo(<<a>>, 0) + <<a>>[0+1]
  BY SumStep
<1>. QED BY <1>1, SumZero

LEMMA SumOfTwo ==
  ASSUME NEW a \in Nat, NEW b \in Nat PROVE SumTo(<<a, b>>, 2) = a + b
<1>1. SumTo(<<a, b>>, 0+1) = SumTo(<<a, b>>, 0) + <<a, b>>[0+1]
  BY SumStep
<1>2. SumTo(<<a, b>>, 1+1) = SumTo(<<a, b>>, 1) + <<a, b>>[1+1]
  BY SumStep
<1>. QED BY <1>1, <1>2, SumZero

\* What a call begins with.
LEMMA EnterFrame ==
  ASSUME StorageOK, CallOK, NEW t \in Assets, NEW a \in Uint, NEW f \in Uint, a + f \in Uint,
         Enter(t, a, f)
  PROVE  /\ StorageOK'
         /\ asset' \in Assets /\ amount' \in Uint /\ fee' \in Uint /\ held' \in Uint
         /\ sent' \in Uint /\ i' \in Nat \ {0}
<1>1. saved' \in [Assets -> FeeConfig] \X BOOLEAN
  BY Zenon DEF StorageOK, Enter
<1>2. StorageOK'
  BY <1>1, Zenon DEF StorageOK, Enter
<1>3. held' \in Uint
  BY UintIsNat, Zenon DEF Enter
<1>. QED BY <1>2, <1>3, UintIsNat DEF Enter

\* A call that pays its legs at once has the invariant if they come to its total.
LEMMA EnterPaying ==
  ASSUME StorageOK, CallOK, NEW t \in Assets, NEW a \in Uint, NEW f \in Uint, a + f \in Uint,
         Enter(t, a, f), pc' = "paying", UNCHANGED <<shares, bpsSum, allocated>>,
         legs' \in Seq(Uint), Len(legs') >= 1, SumTo(legs', Len(legs')) = a + f,
         kind # "split", kind = "fee" => legs'[1] = offer.amount /\ f =< offer.fee
  PROVE  FrameInv'
<1>0. /\ shares' = shares /\ bpsSum' = bpsSum /\ allocated' = allocated
      /\ shares \in Seq(Uint16) /\ bpsSum \in Nat /\ allocated \in Uint
  BY Zenon DEF CallOK
<1>1. CallOK' /\ StorageOK'
  <2>1. /\ StorageOK'
        /\ asset' \in Assets /\ amount' \in Uint /\ fee' \in Uint /\ held' \in Uint
        /\ sent' \in Uint /\ i' \in Nat \ {0}
    BY EnterFrame, Zenon
  <2>. QED BY <1>0, <2>1, Zenon DEF CallOK
<1>2. amount' = a /\ fee' = f /\ i' = 1 /\ sent' = 0 /\ asset' = t /\ kind' = kind
      /\ offer' = offer /\ held' = (IF t = "native" THEN a + f ELSE 0)
  BY DEF Enter
<1>3. sent' = SumTo(legs', i'-1)
  BY <1>2, SumZero
<1>4. held' = (IF asset' = "native" THEN (amount' + fee') - sent' ELSE 0)
  BY <1>2, UintIsNat
<1>5. Paying'
  BY <1>2, <1>3, <1>4 DEF Paying
<1>6. Computing' /\ (pc = "idle" => held = 0)' /\ MirrorAgrees'
  BY <1>2 DEF Computing, MirrorAgrees
<1>. QED BY <1>1, <1>5, <1>6, Zenon DEF FrameInv

LEMMA PayFeeKeepsFrame ==
  ASSUME FrameInv, PayFee PROVE FrameInv'
<1>. DEFINE t == offer.asset
            a == offer.amount
            f == QuoteFee(config[t], a)
<1>1. t \in Assets /\ a \in Uint
  BY Zenon DEF FrameInv, StorageOK
<1>2. f \in Nat
  <2>1. config[t] \in FeeConfig
    BY <1>1, Zenon DEF FrameInv, StorageOK
  <2>. QED BY <2>1, QuoteType
<1>3. /\ Enter(t, a, f) /\ pc' = "paying" /\ kind = "fee" /\ f =< offer.fee /\ a + f \in Uint
      /\ legs' = IF f = 0 THEN <<a>> ELSE <<a, f>>
      /\ UNCHANGED <<shares, bpsSum, allocated>>
  BY Zenon DEF PayFee
<1>. HIDE DEF f, a, t
<1>4. f \in Uint /\ a \in Nat
  BY <1>1, <1>2, <1>3, WordOK DEF Uint
<1>5. legs' \in Seq(Uint) /\ Len(legs') >= 1 /\ legs'[1] = a
  BY <1>1, <1>3, <1>4
<1>6. SumTo(legs', Len(legs')) = a + f
  BY <1>2, <1>3, <1>4, SumOfOne, SumOfTwo
<1>. QED BY <1>1, <1>3, <1>4, <1>5, <1>6, EnterPaying DEF FrameInv, a

LEMMA PayPlainKeepsFrame ==
  ASSUME FrameInv, NEW t \in Assets, NEW a \in Uint, PayPlain(t, a)
  PROVE  FrameInv'
<1>1. a \in Nat /\ 0 \in Uint /\ a + 0 = a
  BY UintIsNat
<1>2. /\ Enter(t, a, 0) /\ pc' = "paying" /\ kind = "plain" /\ legs' = <<a>>
      /\ UNCHANGED <<shares, bpsSum, allocated>>
  BY DEF PayPlain
<1>3. SumTo(legs', Len(legs')) = a + 0
  BY <1>1, <1>2, SumOfOne
<1>. QED BY <1>1, <1>2, <1>3, EnterPaying DEF FrameInv

LEMMA PaySplitKeepsFrame ==
  ASSUME FrameInv, NEW t \in Assets, NEW a \in Uint, NEW s \in Seq(Uint16), PaySplit(t, a, s)
  PROVE  FrameInv'
<1>1. a \in Nat /\ 0 \in Uint /\ a + 0 = a /\ a * 0 = 0
  <2>1. a \in Nat /\ 0 \in Uint
    BY UintIsNat
  <2>. QED BY <2>1
<1>2. /\ kind' = "split" /\ pc' = "computing" /\ shares' = s /\ legs' = <<>>
      /\ bpsSum' = 0 /\ allocated' = 0 /\ asset' = t /\ amount' = a /\ fee' = 0
      /\ i' = 1 /\ sent' = 0 /\ held' = (IF t = "native" THEN a + 0 ELSE 0)
  BY DEF PaySplit, Enter
<1>3. StorageOK' /\ CallOK'
  <2>1. /\ StorageOK'
        /\ asset' \in Assets /\ amount' \in Uint /\ fee' \in Uint /\ held' \in Uint
        /\ sent' \in Uint /\ i' \in Nat \ {0}
    BY <1>1, EnterFrame DEF FrameInv, PaySplit
  <2>2. shares' \in Seq(Uint16) /\ legs' \in Seq(Uint) /\ bpsSum' \in Nat /\ allocated' \in Uint
    BY <1>1, <1>2
  <2>. QED BY <1>2, <2>1, <2>2, Zenon DEF CallOK
<1>4. Computing'
  <2>1. SumTo(shares', 0) = 0 /\ SumTo(legs', 0) = 0
    BY SumZero
  <2>. QED BY <1>1, <1>2, <2>1, WordOK DEF Computing, BPS_DENOMINATOR
<1>. QED BY <1>2, <1>3, <1>4 DEF FrameInv, Paying, MirrorAgrees

LEMMA BpsIsNat == BPS_DENOMINATOR \in Nat \ {0} /\ \A x \in Uint16 : x \in Nat
BY DEF BPS_DENOMINATOR, Uint16

\* The parts of the invariant that a step of the loop starts from.
LEMMA InLoop ==
  ASSUME FrameInv, pc = "computing"
  PROVE  /\ MaxUint \in Nat /\ amount \in Nat /\ bpsSum \in Nat /\ allocated \in Nat
         /\ shares \in Seq(Uint16) /\ Len(shares) \in Nat /\ \A j \in 1..Len(shares) : shares[j] \in Nat
         /\ legs \in Seq(Uint) /\ \A j \in 1..Len(legs) : legs[j] \in Nat
         /\ i \in 1..(Len(shares) + 1) /\ Len(legs) = i - 1 /\ i - 1 \in Nat
<1>1. /\ amount \in Uint /\ bpsSum \in Nat /\ allocated \in Uint
      /\ shares \in Seq(Uint16) /\ legs \in Seq(Uint)
  BY Zenon DEF FrameInv, CallOK
<1>2. amount \in Nat /\ allocated \in Nat /\ MaxUint \in Nat
  BY <1>1, UintIsNat, WordOK
<1>3. i \in 1..(Len(shares) + 1) /\ Len(legs) = i - 1
  BY Zenon DEF FrameInv, Computing
<1>4. Len(shares) \in Nat /\ \A j \in 1..Len(shares) : shares[j] \in Uint16
  BY <1>1
<1>5. \A j \in 1..Len(legs) : legs[j] \in Uint
  BY <1>1
<1>6. i - 1 \in Nat
  BY <1>3, <1>4
<1>. QED BY <1>1, <1>2, <1>3, <1>4, <1>5, <1>6, BpsIsNat, UintIsNat, Zenon

LEMMA Linear ==
  ASSUME NEW x \in Nat, NEW y \in Nat, NEW floorX \in Nat, NEW floorY \in Nat,
         NEW lostX \in Nat, NEW lostY \in Nat, NEW maxX \in Nat, NEW maxY \in Nat,
         floorX =< x, x =< floorX + lostX, floorX =< maxX,
         floorY =< y, y =< floorY + lostY, y =< maxY
  PROVE  /\ floorX + floorY =< x + y
         /\ x + y =< floorX + floorY + (lostX + lostY)
         /\ floorX + floorY =< maxX + maxY
OBVIOUS

\* What the next share adds keeps the sum of the rounded shares close to the share of
\* the sum.
LEMMA RoundingStep ==
  ASSUME NEW a \in Nat, NEW b \in Nat, NEW s \in Nat, NEW m \in Nat, NEW d \in Nat \ {0},
         NEW all \in Nat, NEW k \in Nat, NEW here \in Nat,
         here * d =< a * b, a * b =< here * d + (d - 1), a * b =< m,
         all * d =< a * s, a * s =< all * d + k * (d - 1), all * d =< k * m
  PROVE  /\ (all + here) * d =< a * (s + b)
         /\ a * (s + b) =< (all + here) * d + (k+1) * (d - 1)
         /\ (all + here) * d =< (k+1) * m
<1>1. a * (s + b) = a * s + a * b
  BY ProductStep
<1>2. (all + here) * d = all * d + here * d
  OBVIOUS
<1>3. (k+1) * m = k * m + m
  OBVIOUS
<1>4. (k+1) * (d - 1) = k * (d - 1) + (d - 1)
  <2>1. d - 1 \in Nat
    OBVIOUS
  <2>. QED BY <2>1
<1>5. /\ a * s \in Nat /\ a * b \in Nat /\ all * d \in Nat /\ here * d \in Nat
      /\ k * m \in Nat /\ d - 1 \in Nat /\ k * (d - 1) \in Nat
  <2>1. d - 1 \in Nat
    OBVIOUS
  <2>. QED BY <2>1, ProductType
<1>6. /\ all * d + here * d =< a * s + a * b
      /\ a * s + a * b =< all * d + here * d + (k * (d - 1) + (d - 1))
      /\ all * d + here * d =< k * m + m
  <2>. DEFINE x == a * s      y == a * b     floorX == all * d      floorY == here * d
              maxX == k * m   e == d - 1     lostX == k * (d - 1)
  <2>1. /\ x \in Nat /\ y \in Nat /\ floorX \in Nat /\ floorY \in Nat /\ maxX \in Nat
        /\ lostX \in Nat /\ e \in Nat
        /\ floorX =< x /\ x =< floorX + lostX /\ floorX =< maxX
        /\ floorY =< y /\ y =< floorY + e /\ y =< m
    BY <1>5, Zenon
  <2>. HIDE DEF x, y, floorX, floorY, maxX, lostX, e
  <2>2. /\ floorX + floorY =< x + y
        /\ x + y =< floorX + floorY + (lostX + e)
        /\ floorX + floorY =< maxX + m
    BY <2>1, Linear
  <2>. QED BY <2>2, Zenon DEF x, y, floorX, floorY, maxX, lostX, e
<1>. QED BY <1>1, <1>2, <1>3, <1>4, <1>6, Zenon

\* At most 20 shares of at most a word each come to less than a word.
LEMMA AllocatedFits ==
  ASSUME NEW all \in Nat, NEW k \in 0..20, NEW m \in Nat, all * BPS_DENOMINATOR =< k * m
  PROVE  all =< m
<1>1. k * m =< 20 * m
  BY ProductGrows
<1>2. k * m \in Nat /\ all * BPS_DENOMINATOR = 10000 * all
  BY ProductType DEF BPS_DENOMINATOR
<1>3. 10000 * all =< 20 * m
  <2>1. \A x, y, z \in Nat : x =< y /\ y =< z => x =< z
    OBVIOUS
  <2>. QED BY <1>1, <1>2, <2>1
<1>. QED BY <1>3

\* One turn of the loop.
LEMMA ComputeLegKeepsFrame ==
  ASSUME FrameInv, ComputeLeg PROVE FrameInv'
<1>. DEFINE b    == shares[i]
            here == Share(amount, b)
<1>0. pc = "computing" /\ i =< Len(shares) /\ amount # 0 /\ Len(shares) \in 2..MAX_RECIPIENTS
      /\ b # 0
  BY DEF ComputeLeg, Acceptable
<1>P. amount * b =< MaxUint
  BY DEF ComputeLeg, Acceptable
<1>L. /\ MaxUint \in Nat /\ amount \in Nat /\ bpsSum \in Nat /\ allocated \in Nat
      /\ Len(shares) \in Nat /\ \A j \in 1..Len(shares) : shares[j] \in Nat
      /\ legs \in Seq(Uint) /\ \A j \in 1..Len(legs) : legs[j] \in Nat
      /\ i \in 1..(Len(shares) + 1) /\ Len(legs) = i - 1 /\ i - 1 \in Nat
  BY <1>0, InLoop, Zenon
<1>1. b \in Nat /\ i \in 1..Len(shares) /\ Len(shares) =< 20
  <2>1. i \in 1..Len(shares)
    BY <1>0, <1>L
  <2>2. shares[i] \in Nat
    BY <1>L, <2>1
  <2>3. \A n \in 2..MAX_RECIPIENTS : n =< 20
    BY DEF MAX_RECIPIENTS
  <2>. QED BY <1>0, <2>1, <2>2, <2>3, Zenon
<1>2. /\ here \in Nat /\ here * BPS_DENOMINATOR =< amount * b
      /\ amount * b =< here * BPS_DENOMINATOR + (BPS_DENOMINATOR - 1)
  BY <1>0, <1>1, <1>L, ShareBounds
<1>3. /\ legs' = Append(legs, here) /\ i' = i + 1 /\ allocated' = allocated + here
      /\ bpsSum' = bpsSum + b /\ pc' = "computing"
      /\ UNCHANGED <<kind, config, paused, offer, asset, amount, fee, shares, held, sent, saved>>
  BY DEF ComputeLeg
<1>4. /\ i > 1 => amount # 0 /\ Len(shares) \in 2..MAX_RECIPIENTS
      /\ \A j \in 1..(i-1) : legs[j] = Share(amount, shares[j]) /\ shares[j] # 0
      /\ bpsSum = SumTo(shares, i-1) /\ allocated = SumTo(legs, i-1)
      /\ allocated * BPS_DENOMINATOR =< amount * bpsSum
      /\ amount * bpsSum =< allocated * BPS_DENOMINATOR + (i-1) * (BPS_DENOMINATOR - 1)
      /\ allocated * BPS_DENOMINATOR =< (i-1) * MaxUint
      /\ kind = "split" /\ fee = 0 /\ sent = 0 /\ held = (IF asset = "native" THEN amount ELSE 0)
  BY <1>0, Zenon DEF FrameInv, Computing
<1>. HIDE DEF here, b
<1>5. /\ legs' \in Seq(Nat) /\ Len(legs') = i /\ legs'[i] = here
      /\ \A j \in 1..(i-1) : legs'[j] = legs[j]
  <2>0. \A x \in Uint : x \in Nat
    BY UintIsNat, Zenon
  <2>1. legs \in Seq(Nat) /\ Len(legs) = i - 1 /\ i \in Nat
    BY <1>L, <2>0
  <2>. QED BY <1>2, <1>3, <2>1
<1>6. bpsSum' = SumTo(shares', i'-1) /\ allocated' = SumTo(legs', i'-1)
  <2>1. SumTo(shares, (i-1)+1) = SumTo(shares, i-1) + shares[(i-1)+1]
    BY <1>L, SumStep
  <2>2. SumTo(legs', (i-1)+1) = SumTo(legs', i-1) + legs'[(i-1)+1]
    BY <1>L, SumStep
  <2>3. SumTo(legs', i-1) = SumTo(legs, i-1)
    BY <1>0, <1>5, <1>L, SumSame
  <2>4. (i-1)+1 = i /\ i' - 1 = i
    BY <1>1, <1>3
  <2>. QED BY <1>3, <1>4, <1>5, <2>1, <2>2, <2>3, <2>4, Zenon DEF b
<1>7. /\ allocated' * BPS_DENOMINATOR =< amount' * bpsSum'
      /\ amount' * bpsSum' =< allocated' * BPS_DENOMINATOR + (i'-1) * (BPS_DENOMINATOR - 1)
      /\ allocated' * BPS_DENOMINATOR =< (i'-1) * MaxUint
  <2>1. i' - 1 = (i-1)+1
    BY <1>1, <1>3
  <2>2. /\ (allocated + here) * BPS_DENOMINATOR =< amount * (bpsSum + b)
        /\ amount * (bpsSum + b)
             =< (allocated + here) * BPS_DENOMINATOR + ((i-1)+1) * (BPS_DENOMINATOR - 1)
        /\ (allocated + here) * BPS_DENOMINATOR =< ((i-1)+1) * MaxUint
    <3>. DEFINE k == i - 1
    <3>1. /\ amount \in Nat /\ b \in Nat /\ bpsSum \in Nat /\ MaxUint \in Nat
          /\ BPS_DENOMINATOR \in Nat \ {0} /\ allocated \in Nat /\ k \in Nat /\ here \in Nat
      BY <1>1, <1>2, <1>L, BpsIsNat, Zenon
    <3>2. /\ here * BPS_DENOMINATOR =< amount * b
          /\ amount * b =< here * BPS_DENOMINATOR + (BPS_DENOMINATOR - 1)
          /\ amount * b =< MaxUint
          /\ allocated * BPS_DENOMINATOR =< amount * bpsSum
          /\ amount * bpsSum =< allocated * BPS_DENOMINATOR + k * (BPS_DENOMINATOR - 1)
          /\ allocated * BPS_DENOMINATOR =< k * MaxUint
      BY <1>P, <1>2, <1>4, Zenon
    <3>. HIDE DEF k
    <3>3. /\ (allocated + here) * BPS_DENOMINATOR =< amount * (bpsSum + b)
          /\ amount * (bpsSum + b)
               =< (allocated + here) * BPS_DENOMINATOR + (k+1) * (BPS_DENOMINATOR - 1)
          /\ (allocated + here) * BPS_DENOMINATOR =< (k+1) * MaxUint
      BY <3>1, <3>2, RoundingStep
    <3>. QED BY <3>3, Zenon DEF k
  <2>. QED BY <1>3, <2>1, <2>2, Zenon
<1>8. allocated' \in Uint /\ here \in Uint
  <2>0. here \in Nat
    BY <1>2
  <2>1. i' - 1 \in 0..20 /\ allocated' \in Nat /\ here =< allocated'
    <3>1. i \in 0..20 /\ i' - 1 = i
      <4>1. i' = i + 1 /\ i \in 1..Len(shares) /\ Len(shares) =< 20 /\ Len(shares) \in Nat
        BY <1>1, <1>3, <1>L, Zenon
      <4>2. \A n \in Nat : n =< 20 => \A k \in 1..n : k \in 0..20 /\ (k+1) - 1 = k
        OBVIOUS
      <4>. QED BY <4>1, <4>2, Zenon
    <3>2. allocated + here \in Nat /\ here =< allocated + here
      BY <2>0, <1>L
    <3>. QED BY <3>1, <3>2, <1>3
  <2>2. allocated' =< MaxUint
    BY <1>7, <2>1, WordOK, AllocatedFits
  <2>. QED BY <1>2, <2>1, <2>2, WordOK DEF Uint
<1>9. \A j \in 1..(i'-1) : legs'[j] = Share(amount', shares'[j]) /\ shares'[j] # 0
  <2>1. i' - 1 = i /\ amount' = amount /\ shares' = shares
    BY <1>1, <1>3
  <2>2. \A j \in 1..i : j = i \/ j \in 1..(i-1)
    BY <1>L
  <2>. QED BY <1>0, <1>4, <1>5, <2>1, <2>2, Zenon DEF here, b
<1>10. StorageOK' /\ CallOK'
  <2>1. StorageOK'
    BY <1>3, Zenon DEF FrameInv, StorageOK
  <2>2. legs' \in Seq(Uint) /\ i' \in Nat \ {0} /\ bpsSum' \in Nat
    BY <1>0, <1>1, <1>3, <1>8, <1>L
  <2>. QED BY <1>3, <1>8, <2>1, <2>2, Zenon DEF FrameInv, CallOK
<1>11. Computing'
  <2>1. i' \in 1..(Len(shares') + 1) /\ Len(legs') = i' - 1
    BY <1>0, <1>1, <1>3, <1>5, <1>L
  <2>. QED BY <1>0, <1>3, <1>4, <1>6, <1>7, <1>9, <2>1, Zenon DEF Computing
<1>. QED BY <1>3, <1>10, <1>11, Zenon DEF FrameInv, Paying, MirrorAgrees

\* No term exceeds the sum.
LEMMA TermFits ==
  ASSUME NEW f, NEW n \in Nat, NEW k \in 1..n, \A j \in 1..n : f[j] \in Nat
  PROVE  f[k] =< SumTo(f, n)
<1>1. k - 1 \in Nat /\ (k-1)+1 = k /\ k \in 0..n /\ k \in Nat /\ k - 1 \in 0..n /\ f[k] \in Nat
  OBVIOUS
<1>2. SumTo(f, k) = SumTo(f, k-1) + f[k]
  BY <1>1, SumStep
<1>3. SumTo(f, k-1) \in Nat
  BY <1>1, SumType
<1>4. SumTo(f, k) =< SumTo(f, n) /\ SumTo(f, n) \in Nat
  BY <1>1, SumGrows, SumType
<1>. QED BY <1>1, <1>2, <1>3, <1>4

\* What rounding loses is less than one unit per share.
LEMMA DustIsSmall ==
  ASSUME NEW a \in Nat, NEW all \in Nat, NEW n \in Nat \ {0}, all =< a,
         a * BPS_DENOMINATOR =< all * BPS_DENOMINATOR + n * (BPS_DENOMINATOR - 1)
  PROVE  a - all \in 0..(n-1)
<1>1. a * 10000 =< all * 10000 + n * 9999
  BY DEF BPS_DENOMINATOR
<1>. QED BY <1>1

LEMMA SeqOfNat ==
  ASSUME NEW f \in Seq(Nat) PROVE Len(f) \in Nat /\ \A j \in 1..Len(f) : f[j] \in Nat
OBVIOUS

\* The amounts of the loop, corrected by the remainder, are those of the backend.
LEMMA LegsAreMirrored ==
  ASSUME NEW s \in Seq(Nat), NEW f \in Seq(Nat), NEW a \in Nat, Len(f) = Len(s), Len(s) >= 1,
         \A j \in 1..Len(s) : f[j] = Share(a, s[j])
  PROVE  [f EXCEPT ![1] = @ + (a - SumTo(f, Len(s)))] = ComputeSplitAmounts(a, s)
<1>. DEFINE floors == [j \in DOMAIN s |-> (a * s[j]) \div BPS_DENOMINATOR]
<1>1. f = floors
  <2>1. DOMAIN s = 1..Len(s) /\ f = [j \in 1..Len(s) |-> f[j]]
    OBVIOUS
  <2>2. \A j \in 1..Len(s) : f[j] = (a * s[j]) \div BPS_DENOMINATOR
    BY Zenon DEF Share
  <2>. QED BY <2>1, <2>2, Zenon
<1>2. f[1] \in Nat /\ SumTo(f, Len(s)) \in Nat
  <2>1. Len(f) \in Nat /\ \A j \in 1..Len(f) : f[j] \in Nat
    BY SeqOfNat, Zenon
  <2>2. 1 \in 1..Len(f)
    BY <2>1
  <2>. QED BY <2>1, <2>2, SumType
<1>. HIDE DEF floors
<1>3. f[1] + (a - SumTo(f, Len(s))) = f[1] + a - SumTo(f, Len(s))
  BY <1>2
<1>4. ComputeSplitAmounts(a, s) = [floors EXCEPT ![1] = floors[1] + a - SumTo(floors, Len(s))]
  BY Zenon DEF ComputeSplitAmounts, floors
<1>5. [f EXCEPT ![1] = @ + (a - SumTo(f, Len(s)))] = [f EXCEPT ![1] = f[1] + (a - SumTo(f, Len(s)))]
  OBVIOUS
<1>. QED BY <1>1, <1>3, <1>4, <1>5, Zenon

\* The end of the loop.
LEMMA ComputedKeepsFrame ==
  ASSUME FrameInv, Computed PROVE FrameInv'
<1>. DEFINE n == Len(shares)
            d == amount - allocated
<1>1. /\ pc = "computing" /\ i > n /\ amount # 0 /\ n \in 2..MAX_RECIPIENTS
      /\ bpsSum = BPS_DENOMINATOR /\ allocated =< amount
  <2>1. pc = "computing" /\ i > n
    BY Zenon DEF Computed
  <2>2. i \in Nat /\ n \in Nat
    <3>1. i \in 1..(n+1) /\ n \in Nat
      BY <2>1, InLoop, Zenon
    <3>. QED BY <3>1
  <2>3. ~(i =< n)
    BY <2>1, <2>2
  <2>. QED BY <2>1, <2>3, Zenon DEF Computed, Acceptable
<1>2. /\ MaxUint \in Nat /\ amount \in Nat /\ bpsSum \in Nat /\ allocated \in Nat
      /\ shares \in Seq(Uint16) /\ n \in Nat /\ \A j \in 1..n : shares[j] \in Nat
      /\ legs \in Seq(Uint) /\ \A j \in 1..Len(legs) : legs[j] \in Nat
      /\ i \in 1..(n + 1) /\ Len(legs) = i - 1 /\ i - 1 \in Nat
  BY <1>1, InLoop, Zenon
<1>3. i - 1 = n
  BY <1>1, <1>2
<1>4. /\ \A j \in 1..n : legs[j] = Share(amount, shares[j]) /\ shares[j] # 0
      /\ bpsSum = SumTo(shares, n) /\ allocated = SumTo(legs, n)
      /\ amount * bpsSum =< allocated * BPS_DENOMINATOR + n * (BPS_DENOMINATOR - 1)
      /\ kind = "split" /\ fee = 0 /\ sent = 0 /\ held = (IF asset = "native" THEN amount ELSE 0)
  BY <1>1, <1>3, Zenon DEF FrameInv, Computing
<1>5. /\ legs' = [legs EXCEPT ![1] = @ + d] /\ pc' = "paying" /\ i' = 1
      /\ UNCHANGED <<kind, config, paused, offer, asset, amount, fee, shares, bpsSum, allocated,
                     held, sent, saved>>
  BY Zenon DEF Computed
<1>6. d \in 0..(n-1) /\ n \in Nat \ {0}
  <2>1. n \in Nat \ {0}
    BY <1>1, <1>2
  <2>2. amount * BPS_DENOMINATOR =< allocated * BPS_DENOMINATOR + n * (BPS_DENOMINATOR - 1)
    BY <1>1, <1>4, Zenon
  <2>. QED BY <1>1, <1>2, <2>1, <2>2, DustIsSmall
<1>7. legs \in Seq(Nat) /\ Len(legs) = n
  <2>1. \A x \in Uint : x \in Nat
    BY UintIsNat, Zenon
  <2>. QED BY <1>2, <1>3, <2>1
<1>8. d \in Nat /\ n >= 1
  BY <1>6
<1>9. /\ legs' \in Seq(Nat) /\ Len(legs') = n /\ legs'[1] = legs[1] + d
      /\ \A j \in 2..n : legs'[j] = legs[j]
  <2>. HIDE DEF d, n
  <2>. QED BY <1>5, <1>7, <1>8
<1>10. SumTo(legs', n) = amount
  <2>1. SumTo(legs', n) = SumTo(legs, n) + d
    <3>1. \A j \in 1..n : legs[j] \in Nat
      BY <1>2, <1>3, Zenon
    <3>. HIDE DEF n, d
    <3>. QED BY <1>6, <1>8, <1>9, <3>1, SumOfFirst
  <2>2. allocated + d = amount
    BY <1>2
  <2>. QED BY <1>4, <2>1, <2>2, Zenon
<1>11. legs' \in Seq(Uint)
  <2>1. \A j \in 1..n : legs'[j] \in Nat
    BY <1>9
  <2>2. \A j \in 1..n : legs'[j] =< amount
    BY <1>2, <1>10, <2>1, TermFits
  <2>3. amount =< MaxUint
    BY UintIsNat, Zenon DEF FrameInv, CallOK
  <2>4. \A j \in 1..n : legs'[j] \in Uint
    BY <1>2, <2>1, <2>2, <2>3 DEF Uint
  <2>. HIDE DEF n
  <2>. QED BY <1>9, <2>4
<1>12. StorageOK' /\ CallOK'
  <2>1. StorageOK'
    BY <1>5, Zenon DEF FrameInv, StorageOK
  <2>2. i' \in Nat \ {0}
    BY <1>5
  <2>. QED BY <1>5, <1>11, <2>1, <2>2, Zenon DEF FrameInv, CallOK
<1>13. Paying'
  <2>1. amount' + fee' = amount /\ amount \in Uint /\ amount - 0 = amount
    <3>1. amount + 0 = amount /\ amount - 0 = amount
      BY <1>2
    <3>. QED BY <1>4, <1>5, <3>1, Zenon DEF FrameInv, CallOK
  <2>2. sent' = SumTo(legs', i'-1)
    BY <1>4, <1>5, SumZero
  <2>3. held' = (IF asset' = "native" THEN (amount' + fee') - sent' ELSE 0)
    <3>1. sent' = 0 /\ asset' = asset /\ held' = held
      BY <1>4, <1>5, Zenon
    <3>2. (amount' + fee') - sent' = amount
      <4>1. amount' = amount /\ fee' = 0 /\ amount \in Nat
        BY <1>2, <1>4, <1>5, Zenon
      <4>. QED BY <3>1, <4>1
    <3>. QED BY <1>4, <3>1, <3>2, Zenon
  <2>4. Len(legs') >= 1 /\ i' \in 1..(Len(legs') + 1)
    BY <1>5, <1>8, <1>9, <1>2
  <2>5. SumTo(legs', Len(legs')) = amount' + fee'
    BY <1>9, <1>10, <2>1, Zenon
  <2>6. kind' # "fee"
    BY <1>4, <1>5
  <2>. QED BY <2>1, <2>2, <2>3, <2>4, <2>5, <2>6, Zenon DEF Paying
<1>14. MirrorAgrees'
  <2>1. ValidSplit(amount, shares)
    <3>1. amount > 0 /\ \A j \in 1..n : shares[j] > 0
      <4>1. \A x \in Nat : x # 0 => x > 0
        OBVIOUS
      <4>. QED BY <1>1, <1>2, <1>4, <4>1, Zenon
    <3>2. DOMAIN shares = 1..n
      BY <1>2
    <3>. QED BY <1>1, <1>4, <3>1, <3>2, Zenon DEF ValidSplit
  <2>2. legs' = ComputeSplitAmounts(amount, shares)
    <3>1. shares \in Seq(Nat)
      BY <1>2, BpsIsNat
    <3>2. legs' = [legs EXCEPT ![1] = @ + (amount - SumTo(legs, n))]
      BY <1>4, <1>5, Zenon
    <3>. QED BY <1>2, <1>4, <1>7, <1>8, <3>1, <3>2, LegsAreMirrored, Zenon
  <2>3. legs'[1] - Share(amount, shares[1]) \in 0..(n-1)
    <3>1. 1 \in 1..n /\ legs[1] \in Nat
      BY <1>2, <1>3, <1>8
    <3>2. legs[1] = Share(amount, shares[1])
      BY <1>4, <3>1, Zenon
    <3>3. legs'[1] = legs[1] + d /\ d \in 0..(n-1) /\ n - 1 \in Nat
      BY <1>6, <1>9
    <3>. HIDE DEF d, n
    <3>4. legs'[1] - legs[1] = d
      BY <3>1, <3>3
    <3>5. legs'[1] - legs[1] \in 0..(n-1)
      BY <3>3, <3>4, Zenon
    <3>. QED BY <3>2, <3>5, Zenon
  <2>4. amount' = amount /\ shares' = shares
    BY <1>5, Zenon
  <2>. QED BY <2>1, <2>2, <2>3, <2>4, Zenon DEF MirrorAgrees
<1>. QED BY <1>5, <1>12, <1>13, <1>14, Zenon DEF FrameInv, Computing

\* The parts of the invariant that a step of the payment starts from.
LEMMA InPayment ==
  ASSUME FrameInv, pc = "paying"
  PROVE  /\ amount \in Nat /\ fee \in Nat /\ MaxUint \in Nat /\ legs \in Seq(Uint)
         /\ Len(legs) \in Nat /\ \A j \in 1..Len(legs) : legs[j] \in Nat
         /\ i \in 1..(Len(legs) + 1) /\ Len(legs) >= 1
         /\ amount + fee \in Nat /\ amount + fee =< MaxUint
         /\ SumTo(legs, Len(legs)) = amount + fee /\ sent = SumTo(legs, i-1)
         /\ held = (IF asset = "native" THEN (amount + fee) - sent ELSE 0)
         /\ kind = "fee" => legs[1] = offer.amount /\ fee =< offer.fee
<1>1. amount \in Uint /\ fee \in Uint /\ legs \in Seq(Uint)
  BY Zenon DEF FrameInv, CallOK
<1>2. amount \in Nat /\ fee \in Nat /\ MaxUint \in Nat
  BY <1>1, UintIsNat, WordOK, Zenon
<1>3. Len(legs) \in Nat /\ \A j \in 1..Len(legs) : legs[j] \in Uint
  BY <1>1
<1>4. /\ amount + fee \in Uint /\ Len(legs) >= 1 /\ i \in 1..(Len(legs) + 1)
      /\ SumTo(legs, Len(legs)) = amount + fee /\ sent = SumTo(legs, i-1)
      /\ held = (IF asset = "native" THEN (amount + fee) - sent ELSE 0)
      /\ kind = "fee" => legs[1] = offer.amount /\ fee =< offer.fee
  BY Zenon DEF FrameInv, Paying
<1>5. amount + fee \in Nat /\ amount + fee =< MaxUint
  BY <1>4, UintIsNat, Zenon
<1>. QED BY <1>1, <1>2, <1>3, <1>4, <1>5, UintIsNat, Zenon

\* A leg is paid.
LEMMA PayLegKeepsFrame ==
  ASSUME FrameInv, PayLeg PROVE FrameInv'
<1>. DEFINE n == Len(legs)
            leg == legs[i]
            total == amount + fee
<1>1. /\ pc = "paying" /\ i =< n /\ sent' = sent + leg /\ i' = i + 1
      /\ held' = (IF asset = "native" THEN held - leg ELSE held)
      /\ UNCHANGED <<kind, config, paused, offer, pc, asset, amount, fee, shares, legs, bpsSum,
                     allocated, saved>>
  BY Zenon DEF PayLeg
<1>2. /\ amount \in Nat /\ fee \in Nat /\ MaxUint \in Nat /\ legs \in Seq(Uint)
      /\ n \in Nat /\ \A j \in 1..n : legs[j] \in Nat
      /\ i \in 1..(n + 1) /\ n >= 1 /\ total \in Nat /\ total =< MaxUint
      /\ SumTo(legs, n) = total /\ sent = SumTo(legs, i-1)
      /\ held = (IF asset = "native" THEN total - sent ELSE 0)
      /\ kind = "fee" => legs[1] = offer.amount /\ fee =< offer.fee
  BY <1>1, InPayment, Zenon
<1>3. i \in 1..n /\ i - 1 \in 0..n /\ i \in 0..n /\ i - 1 \in Nat /\ (i-1)+1 = i
  <2>1. i =< n /\ n \in Nat /\ i \in 1..(n + 1)
    BY <1>1, <1>2, Zenon
  <2>. HIDE DEF n
  <2>. QED BY <2>1
<1>4. leg \in Nat /\ sent \in Nat
  <2>1. SumTo(legs, i-1) \in Nat
    <3>1. \A j \in 1..(i-1) : legs[j] \in Nat
      <4>1. \A j \in 1..(i-1) : j \in 1..n
        BY <1>2, <1>3
      <4>. QED BY <1>2, <4>1, Zenon
    <3>. QED BY <1>3, <3>1, SumType, Zenon
  <2>. QED BY <1>2, <1>3, <2>1, Zenon
<1>5. sent' = SumTo(legs, i) /\ SumTo(legs, i) =< total
  <2>1. SumTo(legs, (i-1)+1) = SumTo(legs, i-1) + legs[(i-1)+1]
    BY <1>3, SumStep, Zenon
  <2>2. SumTo(legs, i) =< SumTo(legs, n)
    BY <1>2, <1>3, SumGrows, Zenon
  <2>. QED BY <1>1, <1>2, <1>3, <2>1, <2>2, Zenon
<1>. HIDE DEF leg, total
<1>6. sent' \in Nat /\ sent' =< total /\ total - sent' \in Nat /\ total - sent' =< MaxUint
      /\ total - sent - leg = total - sent'
  <2>1. sent' = sent + leg /\ sent' =< total /\ total \in Nat /\ total =< MaxUint /\ MaxUint \in Nat
    BY <1>1, <1>2, <1>5, Zenon
  <2>. QED BY <1>4, <2>1
<1>7. held' = (IF asset = "native" THEN total - sent' ELSE 0)
  <2>1. CASE asset = "native"
    <3>1. held' = held - leg /\ held = total - sent
      BY <1>1, <1>2, <2>1, Zenon
    <3>2. held' = total - sent'
      BY <1>6, <3>1
    <3>. QED BY <2>1, <3>2, Zenon
  <2>2. CASE asset # "native"
    BY <1>1, <1>2, <2>2, Zenon
  <2>. QED BY <2>1, <2>2, Zenon
<1>8. sent' \in Uint /\ held' \in Uint
  <2>1. sent' =< MaxUint /\ 0 \in Uint
    BY <1>2, <1>6, UintIsNat
  <2>2. sent' \in Uint /\ total - sent' \in Uint
    BY <1>6, <2>1, NatIsUint, Zenon
  <2>. QED BY <1>7, <2>1, <2>2, Zenon
<1>9. StorageOK' /\ CallOK'
  <2>1. StorageOK'
    BY <1>1, Zenon DEF FrameInv, StorageOK
  <2>2. i' \in Nat \ {0}
    BY <1>1, <1>3
  <2>. QED BY <1>1, <1>8, <2>1, <2>2, Zenon DEF FrameInv, CallOK
<1>10. Paying'
  <2>1. i' - 1 = i /\ i' \in 1..(Len(legs') + 1)
    <3>1. i' = i + 1 /\ legs' = legs /\ i \in 1..n /\ n \in Nat
      BY <1>1, <1>2, <1>3, Zenon
    <3>2. i' \in 1..(n+1) /\ i' - 1 = i
      <4>. HIDE DEF n
      <4>. QED BY <3>1
    <3>. QED BY <3>1, <3>2, Zenon
  <2>2. amount + fee \in Uint
    BY <1>1, Zenon DEF FrameInv, Paying
  <2>3. SumTo(legs', Len(legs')) = amount' + fee' /\ sent' = SumTo(legs', i' - 1)
    BY <1>1, <1>2, <1>5, <2>1, Zenon DEF total
  <2>4. held' = (IF asset' = "native" THEN (amount' + fee') - sent' ELSE 0)
    BY <1>1, <1>7, Zenon DEF total
  <2>5. Len(legs') >= 1 /\ (kind' = "fee" => legs'[1] = offer'.amount /\ fee' =< offer'.fee)
    BY <1>1, <1>2, Zenon
  <2>6. amount' + fee' \in Uint
    BY <1>1, <2>2, Zenon
  <2>. QED BY <2>1, <2>3, <2>4, <2>5, <2>6, Zenon DEF Paying
<1>11. MirrorAgrees'
  BY <1>1, Zenon DEF FrameInv, MirrorAgrees
<1>. QED BY <1>1, <1>9, <1>10, <1>11, Zenon DEF FrameInv, Computing

\* A call that has paid all its legs holds nothing.
LEMMA ReturnKeepsFrame ==
  ASSUME FrameInv, Return PROVE FrameInv'
<1>1. /\ pc = "paying" /\ i > Len(legs) /\ pc' = "idle"
      /\ UNCHANGED <<kind, config, paused, offer, frame>>
  BY Zenon DEF Return
<1>2. /\ kind' = kind /\ config' = config /\ paused' = paused /\ offer' = offer /\ asset' = asset
      /\ amount' = amount /\ fee' = fee /\ shares' = shares /\ legs' = legs /\ i' = i
      /\ bpsSum' = bpsSum /\ allocated' = allocated /\ held' = held /\ sent' = sent /\ saved' = saved
  BY <1>1
<1>3. i - 1 = Len(legs) /\ amount + fee \in Nat
  <2>1. Len(legs) \in Nat /\ i \in 1..(Len(legs) + 1) /\ amount + fee \in Nat
    BY <1>1, InPayment, Zenon
  <2>. QED BY <1>1, <2>1
<1>4. sent = amount + fee
  BY <1>1, <1>3, InPayment, Zenon
<1>5. held = 0
  <2>1. CASE asset = "native"
    <3>. DEFINE total == amount + fee
    <3>1. held = total - sent /\ sent = total /\ total \in Nat
      BY <1>1, <1>3, <1>4, <2>1, InPayment, Zenon
    <3>. HIDE DEF total
    <3>. QED BY <3>1
  <2>2. CASE asset # "native"
    BY <1>1, <2>2, InPayment, Zenon
  <2>. QED BY <2>1, <2>2, Zenon
<1>6. StorageOK' /\ CallOK'
  BY <1>1, <1>2, Zenon DEF FrameInv, StorageOK, CallOK
<1>. QED BY <1>1, <1>2, <1>5, <1>6, Zenon DEF FrameInv, Computing, Paying, MirrorAgrees

\* A call that is rolled back holds nothing.
LEMMA RolledBackKeepsFrame ==
  ASSUME FrameInv, RolledBack PROVE FrameInv'
<1>1. saved[1] \in [Assets -> FeeConfig] /\ saved[2] \in BOOLEAN
  <2>1. saved \in [Assets -> FeeConfig] \X BOOLEAN
    BY Zenon DEF FrameInv, StorageOK
  <2>. QED BY <2>1, Zenon
<1>2. StorageOK'
  BY <1>1, Zenon DEF FrameInv, StorageOK, RolledBack
<1>3. CallOK'
  BY UintIsNat, Zenon DEF FrameInv, CallOK, RolledBack
<1>. QED BY <1>2, <1>3, Zenon DEF FrameInv, Computing, Paying, MirrorAgrees, RolledBack

LEMMA SetFeeConfigKeepsFrame ==
  ASSUME FrameInv, NEW t \in Assets, NEW c \in FeeConfig, SetFeeConfig(t, c)
  PROVE  FrameInv'
<1>1. StorageOK'
  <2>1. config' \in [Assets -> FeeConfig]
    BY Zenon DEF FrameInv, StorageOK, SetFeeConfig
  <2>. QED BY <2>1, Zenon DEF FrameInv, StorageOK, SetFeeConfig, frame
<1>. QED BY <1>1, OwnerKeepsFrame, Zenon DEF SetFeeConfig

LEMMA SetPausedKeepsFrame ==
  ASSUME FrameInv, SetPaused PROVE FrameInv'
<1>1. StorageOK'
  <2>1. paused' \in BOOLEAN
    BY Zenon DEF SetPaused
  <2>. QED BY <2>1, Zenon DEF FrameInv, StorageOK, SetPaused, frame
<1>. QED BY <1>1, OwnerKeepsFrame, Zenon DEF SetPaused

LEMMA QuoteKeepsFrame ==
  ASSUME FrameInv, NEW t \in Assets, NEW a \in Uint, Quote(t, a)
  PROVE  FrameInv'
<1>1. offer' \in [asset : Assets, amount : Uint, fee : Uint]
  BY Zenon DEF Quote
<1>2. /\ kind' = kind /\ config' = config /\ paused' = paused /\ pc = "idle" /\ pc' = pc
      /\ asset' = asset
      /\ amount' = amount /\ fee' = fee /\ shares' = shares /\ legs' = legs /\ i' = i
      /\ bpsSum' = bpsSum /\ allocated' = allocated /\ held' = held /\ sent' = sent /\ saved' = saved
  BY DEF Quote
<1>3. StorageOK' /\ CallOK'
  BY <1>1, <1>2, Zenon DEF FrameInv, StorageOK, CallOK
<1>. QED BY <1>2, <1>3, Zenon DEF FrameInv, Computing, Paying, MirrorAgrees

LEMMA StutterKeepsFrame ==
  ASSUME FrameInv, UNCHANGED vars PROVE FrameInv'
<1>1. StorageOK'
  BY Zenon DEF FrameInv, StorageOK, vars
<1>2. UNCHANGED <<kind, offer, pc, frame>>
  BY Zenon DEF vars
<1>. QED BY <1>1, <1>2, OwnerKeepsFrame, Zenon

LEMMA NextKeepsFrame ==
  ASSUME FrameInv, [Next]_vars PROVE FrameInv'
<1>. Amounts \subseteq Uint /\ ShareLists \subseteq Seq(Uint16) /\ FeeConfigs \subseteq FeeConfig
  BY InputsOK, Zenon
<1>1. ASSUME NEW t \in Assets, NEW a \in Amounts, Quote(t, a) \/ PayPlain(t, a) PROVE FrameInv'
  BY <1>1, QuoteKeepsFrame, PayPlainKeepsFrame, Zenon
<1>2. ASSUME NEW t \in Assets, NEW a \in Amounts, NEW s \in ShareLists, PaySplit(t, a, s)
      PROVE  FrameInv'
  BY <1>2, PaySplitKeepsFrame, Zenon
<1>3. ASSUME NEW t \in Assets, NEW c \in FeeConfigs, SetFeeConfig(t, c) PROVE FrameInv'
  BY <1>3, SetFeeConfigKeepsFrame, Zenon
<1>4. CASE PayFee
  BY <1>4, PayFeeKeepsFrame, Zenon
<1>5. CASE ComputeLeg
  BY <1>5, ComputeLegKeepsFrame, Zenon
<1>6. CASE Computed
  BY <1>6, ComputedKeepsFrame, Zenon
<1>7. CASE PayLeg
  BY <1>7, PayLegKeepsFrame, Zenon
<1>8. CASE Return
  BY <1>8, ReturnKeepsFrame, Zenon
<1>9. CASE Refuse \/ Revert
  BY <1>9, RolledBackKeepsFrame, Zenon DEF Refuse, Revert
<1>10. CASE SetPaused
  BY <1>10, SetPausedKeepsFrame, Zenon
<1>11. CASE UNCHANGED vars
  BY <1>11, StutterKeepsFrame, Zenon
<1>. QED
  BY <1>1, <1>2, <1>3, <1>4, <1>5, <1>6, <1>7, <1>8, <1>9, <1>10, <1>11, Zenon DEF Next

LEMMA FrameIsInvariant == Spec => []FrameInv
<1>1. Init => FrameInv
  BY InitFrame
<1>2. FrameInv /\ [Next]_vars => FrameInv'
  BY NextKeepsFrame
<1>. QED BY <1>1, <1>2, PTL DEF Spec

-----------------------------------------------------------------------------
(* What follows from it.                                                   *)

\* The contracts' storage and calls are well typed: no sum of a call leaves the word
\* (the checked arithmetic of PayLeg and of the second leg of _computeAmounts never
\* panics), and what a contract holds of a call never falls below zero.
THEOREM TypeCorrect == Spec => []TypeOK
<1>1. FrameInv => TypeOK
  BY Zenon DEF FrameInv, TypeOK
<1>. QED BY <1>1, FrameIsInvariant, PTL

LEMMA FramePaysExactly == ASSUME FrameInv PROVE PaysExactly
<1>1. ASSUME pc = "paying", i > Len(legs) PROVE sent = amount + fee
  <2>1. Len(legs) \in Nat /\ i \in 1..(Len(legs) + 1)
    BY <1>1, InPayment, Zenon
  <2>2. i - 1 = Len(legs)
    BY <1>1, <2>1
  <2>. QED BY <1>1, <2>2, InPayment, Zenon
<1>2. ASSUME pc = "paying", kind = "fee" PROVE legs[1] = offer.amount /\ fee =< offer.fee
  BY <1>2, InPayment, Zenon
<1>. QED BY <1>1, <1>2, Zenon DEF FrameInv, PaysExactly

\* Conservation: every call of a payment contract passes on exactly what was paid in,
\* never more than the payer was quoted, and keeps nothing of it, whatever the owner
\* configures meanwhile and whichever leg fails.
THEOREM CallsPayExactly == Spec => []PaysExactly
BY FramePaysExactly, FrameIsInvariant, PTL

\* The split that the contract pays is the split that the backend computes: the floors,
\* and the dust, less than one unit per recipient, to the first.
THEOREM SplitsAgreeWithMirror == Spec => []MirrorAgrees
<1>1. FrameInv => MirrorAgrees
  BY Zenon DEF FrameInv
<1>. QED BY <1>1, FrameIsInvariant, PTL

LEMMA NoOverdraw ==
  ASSUME NEW a \in Nat, NEW all \in Nat, all * BPS_DENOMINATOR =< a * BPS_DENOMINATOR
  PROVE  all =< a
BY DEF BPS_DENOMINATOR

\* A split that the backend accepts passes the checks of the contract, unless a product
\* overflows.
LEMMA ValidIsAcceptable ==
  ASSUME FrameInv, pc = "computing", ValidSplit(amount, shares),
         \A j \in DOMAIN shares : ~(amount * shares[j] > MaxUint)
  PROVE  Acceptable
<1>. DEFINE n == Len(shares)
<1>1. /\ MaxUint \in Nat /\ amount \in Nat /\ bpsSum \in Nat /\ allocated \in Nat
      /\ shares \in Seq(Uint16) /\ n \in Nat /\ \A j \in 1..n : shares[j] \in Nat
      /\ legs \in Seq(Uint) /\ \A j \in 1..Len(legs) : legs[j] \in Nat
      /\ i \in 1..(n + 1) /\ Len(legs) = i - 1 /\ i - 1 \in Nat
  BY InLoop, Zenon
<1>2. DOMAIN shares = 1..n
  BY <1>1
<1>3. /\ amount > 0 /\ n \in 2..MAX_RECIPIENTS /\ \A j \in 1..n : shares[j] > 0
      /\ SumTo(shares, n) = BPS_DENOMINATOR
  BY <1>2, Zenon DEF ValidSplit
<1>4. amount # 0 /\ n \in 2..MAX_RECIPIENTS
  <2>1. \A x \in Nat : x > 0 => x # 0
    OBVIOUS
  <2>. QED BY <1>1, <1>3, <2>1, Zenon
<1>5. CASE i =< n
  <2>1. i \in 1..n
    <3>1. i \in 1..(n+1) /\ n \in Nat
      BY <1>1, Zenon
    <3>. HIDE DEF n
    <3>. QED BY <1>5, <3>1
  <2>2. shares[i] # 0
    <3>1. \A x \in Nat : x > 0 => x # 0
      OBVIOUS
    <3>. QED BY <1>1, <1>3, <2>1, <3>1, Zenon
  <2>3. amount * shares[i] =< MaxUint
    <3>1. \A x, y \in Nat : ~(x > y) => x =< y
      OBVIOUS
    <3>2. amount * shares[i] \in Nat
      BY <1>1, <2>1, ProductType, Zenon
    <3>. QED BY <1>1, <1>2, <2>1, <3>1, <3>2, Zenon
  <2>. QED BY <1>4, <1>5, <2>2, <2>3, Zenon DEF Acceptable
<1>6. CASE ~(i =< n)
  <2>1. i - 1 = n
    <3>1. i \in 1..(n+1) /\ n \in Nat
      BY <1>1, Zenon
    <3>. HIDE DEF n
    <3>. QED BY <1>6, <3>1
  <2>2. bpsSum = BPS_DENOMINATOR
    BY <1>3, <2>1, Zenon DEF FrameInv, Computing
  <2>3. allocated * BPS_DENOMINATOR =< amount * BPS_DENOMINATOR
    BY <2>2, Zenon DEF FrameInv, Computing
  <2>4. allocated =< amount
    BY <1>1, <2>3, NoOverdraw, Zenon
  <2>. QED BY <1>4, <1>6, <2>2, <2>4, Zenon DEF Acceptable
<1>. QED BY <1>5, <1>6, Zenon

\* A step of the loop that ends the call is a refusal.
LEMMA OnlyRefuseEnds ==
  ASSUME pc = "computing", pc' = "idle", [Next]_vars PROVE ~Acceptable
<1>1. ASSUME NEW t, NEW a, Quote(t, a) \/ PayPlain(t, a) PROVE FALSE
  BY <1>1, Zenon DEF Quote, PayPlain, Enter
<1>2. ASSUME NEW t, NEW a, NEW s, PaySplit(t, a, s) PROVE FALSE
  BY <1>2, Zenon DEF PaySplit
<1>3. ASSUME NEW t, NEW c, SetFeeConfig(t, c) PROVE FALSE
  BY <1>3, Zenon DEF SetFeeConfig
<1>4. ~PayFee
  BY Zenon DEF PayFee
<1>5. ~ComputeLeg /\ ~Computed /\ ~PayLeg /\ ~Return /\ ~Revert
  BY Zenon DEF ComputeLeg, Computed, PayLeg, Return, Revert
<1>6. ~SetPaused /\ ~UNCHANGED vars
  BY Zenon DEF SetPaused, vars
<1>. QED BY <1>1, <1>2, <1>3, <1>4, <1>5, <1>6, Zenon DEF Next, Refuse

\* RSendsSplitRouter refuses no split that the backend's split_math accepts, unless the
\* amount times a share overflows the word.
THEOREM SplitsRefuseOnlyInvalid == Spec => RefusesOnlyTheInvalid
<1>1. FrameInv /\ [Next]_vars =>
        [pc = "computing" /\ pc' = "idle" =>
           \/ ~ValidSplit(amount, shares)
           \/ \E j \in DOMAIN shares : amount * shares[j] > MaxUint]_vars
  BY ValidIsAcceptable, OnlyRefuseEnds, Zenon
<1>. QED BY <1>1, FrameIsInvariant, PTL DEF Spec, RefusesOnlyTheInvalid
=============================================================================
