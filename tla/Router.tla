-------------------------------- MODULE Router --------------------------------
(***************************************************************************)
(* The three payment contracts: RSendsRouter (kind "fee": a merchant and a  *)
(* fee, with an owner), RSendsRouterV2 ("plain": one transfer, no owner)    *)
(* and RSendsSplitRouter ("split": up to 20 recipients by basis points).    *)
(*                                                                         *)
(* A call is a frame: it is entered, computes its legs, pays them one by    *)
(* one, and returns or is rolled back as a whole.  While a leg is paid the  *)
(* recipient's code runs: it may re-enter (nonReentrant refuses every       *)
(* payment while pc # "idle") and it may be the owner, who has no such      *)
(* guard.  Between two calls the world goes on: what a payer was quoted and *)
(* what is configured when the payment is mined need not agree.             *)
(***************************************************************************)
EXTENDS Integers, Sequences

CONSTANTS
  MaxUint,      \* 2^256 - 1: arithmetic beyond it panics
  Amounts,      \* amounts payers ask for
  ShareLists,   \* lists of basis points payers send, well-formed or not
  FeeConfigs    \* what the owner may configure: baseFee, threshold, surcharge, enabled

BPS_DENOMINATOR == 10000
MAX_RECIPIENTS  == 20
Assets          == {"token", "native"}
Uint            == 0..MaxUint
Uint16          == 0..65535
FeeConfig       == [baseFee : Uint, threshold : Uint, surcharge : Uint, enabled : BOOLEAN]
Feeless(on)     == [baseFee |-> 0, threshold |-> 0, surcharge |-> 0, enabled |-> on]

ASSUME WordOK == MaxUint \in Nat

ASSUME InputsOK ==
  /\ Amounts \subseteq Uint
  /\ ShareLists \subseteq Seq(Uint16)
  /\ FeeConfigs \subseteq FeeConfig

VARIABLES
  kind,               \* which contract this is
  config, paused,     \* feeConfig per asset, Pausable
  offer,              \* what the payer was quoted: asset, amount, fee
  pc,                 \* "idle", "computing" the legs, "paying" them
  asset, amount, fee, \* the call: what is paid in, how much, the fee on top
  shares,             \* the call: sharesBps
  legs,               \* the amounts to transfer, in order
  i,                  \* the loop variable of either loop, from 1
  bpsSum, allocated,  \* the sums of _computeAmounts
  held,               \* native money of this call the contract still has
  sent,               \* history: what the legs paid so far come to
  saved               \* config and paused when the call began

frame == <<asset, amount, fee, shares, legs, i, bpsSum, allocated, held, sent, saved>>
vars  == <<kind, config, paused, offer, pc, frame>>

\* f[1] + ... + f[n]
SumTo(f, n) ==
  LET Sum[k \in 0..n] == IF k = 0 THEN 0 ELSE Sum[k-1] + f[k]
  IN  Sum[n]

\* Faulty: rounds up.
ShareUp(total, bps) == (total * bps + BPS_DENOMINATOR - 1) \div BPS_DENOMINATOR

Share(total, bps) == (total * bps) \div BPS_DENOMINATOR

QuoteFee(c, a) == c.baseFee + (IF c.threshold # 0 /\ a >= c.threshold THEN c.surcharge ELSE 0)

\* compute_split_amounts, the indexer's and the checkout's copy of the split: what it
\* rejects, and what it answers otherwise.
ValidSplit(total, bps) ==
  /\ total > 0 /\ Len(bps) \in 2..MAX_RECIPIENTS
  /\ \A j \in DOMAIN bps : bps[j] > 0
  /\ SumTo(bps, Len(bps)) = BPS_DENOMINATOR

ComputeSplitAmounts(total, bps) ==
  LET floors == [j \in DOMAIN bps |-> (total * bps[j]) \div BPS_DENOMINATOR]
  IN  [floors EXCEPT ![1] = @ + total - SumTo(floors, Len(bps))]

Init ==
  /\ kind \in {"fee", "plain", "split"}
  /\ config = [t \in Assets |-> Feeless(t = "native")] /\ paused = FALSE
  /\ offer = [asset |-> "token", amount |-> 0, fee |-> 0]
  /\ pc = "idle" /\ asset = "token" /\ amount = 0 /\ fee = 0 /\ shares = <<>>
  /\ legs = <<>> /\ i = 1 /\ bpsSum = 0 /\ allocated = 0 /\ held = 0 /\ sent = 0
  /\ saved = <<config, paused>>

-----------------------------------------------------------------------------
\* A call begins: msg.value, which must be exact, is with the contract.
Enter(t, a, f) ==
  /\ pc = "idle"
  /\ asset' = t /\ amount' = a /\ fee' = f
  /\ i' = 1 /\ sent' = 0 /\ held' = IF t = "native" THEN a + f ELSE 0
  /\ saved' = <<config, paused>>
  /\ UNCHANGED <<kind, config, paused, offer>>

\* build_onchain_payment: the live quote becomes the ceiling maxFee.
Quote(t, a) ==
  /\ pc = "idle" /\ kind = "fee"
  /\ QuoteFee(config[t], a) \in Uint
  /\ offer' = [asset |-> t, amount |-> a, fee |-> QuoteFee(config[t], a)]
  /\ UNCHANGED <<kind, config, paused, pc, frame>>

\* RSendsRouter.pay, payWithPermit, payNative: the fee is quoted again.  Amount and fee
\* fit a word together: as msg.value, as the value of the permit, or as what a payer has.
PayFee ==
  LET t == offer.asset
      f == QuoteFee(config[t], offer.amount)
  IN  /\ kind = "fee" /\ ~paused
      /\ offer.amount # 0 /\ config[t].enabled
      /\ f =< offer.fee /\ offer.amount + f \in Uint
      /\ t = "native" => f = offer.fee   \* msg.value is the total of the quote
      /\ Enter(t, offer.amount, f)
      /\ pc' = "paying"
      /\ legs' = IF f = 0 THEN <<offer.amount>> ELSE <<offer.amount, f>>
      /\ UNCHANGED <<shares, bpsSum, allocated>>

\* RSendsRouterV2.pay, payWithPermit, payNative.
PayPlain(t, a) ==
  /\ kind = "plain" /\ a # 0
  /\ Enter(t, a, 0)
  /\ pc' = "paying" /\ legs' = <<a>>
  /\ UNCHANGED <<shares, bpsSum, allocated>>

\* RSendsSplitRouter.paySplit, paySplitWithPermit, paySplitNative.
PaySplit(t, a, s) ==
  /\ kind = "split"
  /\ Enter(t, a, 0)
  /\ pc' = "computing" /\ shares' = s
  /\ legs' = <<>> /\ bpsSum' = 0 /\ allocated' = 0

-----------------------------------------------------------------------------
(* _computeAmounts.                                                        *)

\* The checks at the head of the loop, in it, and after it.
Acceptable ==
  /\ amount # 0 /\ Len(shares) \in 2..MAX_RECIPIENTS
  /\ IF i =< Len(shares)
     THEN shares[i] # 0 /\ amount * shares[i] =< MaxUint
     ELSE bpsSum = BPS_DENOMINATOR /\ allocated =< amount

ComputeLeg ==
  /\ pc = "computing" /\ Acceptable /\ i =< Len(shares)
  /\ bpsSum' = bpsSum + shares[i]
  /\ legs' = Append(legs, Share(amount, shares[i]))
  /\ allocated' = allocated + Share(amount, shares[i])
  /\ i' = i + 1
  /\ UNCHANGED <<kind, config, paused, offer, pc, asset, amount, fee, shares, held, sent, saved>>

\* Faulty: the remainder goes to the last recipient.
ComputedToLast ==
  /\ pc = "computing" /\ Acceptable /\ i > Len(shares)
  /\ legs' = [legs EXCEPT ![Len(shares)] = @ + (amount - allocated)]
  /\ pc' = "paying" /\ i' = 1
  /\ UNCHANGED <<kind, config, paused, offer, asset, amount, fee, shares, bpsSum, allocated,
                 held, sent, saved>>

\* The remainder goes to the first recipient.
Computed ==
  /\ pc = "computing" /\ Acceptable /\ i > Len(shares)
  /\ legs' = [legs EXCEPT ![1] = @ + (amount - allocated)]
  /\ pc' = "paying" /\ i' = 1
  /\ UNCHANGED <<kind, config, paused, offer, asset, amount, fee, shares, bpsSum, allocated,
                 held, sent, saved>>

-----------------------------------------------------------------------------
(* The legs and the end of the call.                                       *)

\* Faulty: looks the fee up again for its leg, after the merchant's callback.
PayLegQuotesAgain ==
  LET leg == IF i = 2 /\ kind = "fee" THEN QuoteFee(config[asset], amount) ELSE legs[i]
  IN  /\ pc = "paying" /\ i =< Len(legs)
      /\ sent' = sent + leg
      /\ held' = IF asset = "native" THEN held - leg ELSE held
      /\ i' = i + 1
      /\ UNCHANGED <<kind, config, paused, offer, pc, asset, amount, fee, shares, legs, bpsSum,
                     allocated, saved>>

\* safeTransferFrom out of the payer's balance, or a call with value out of the
\* contract's.
PayLeg ==
  /\ pc = "paying" /\ i =< Len(legs)
  /\ sent' = sent + legs[i]
  /\ held' = IF asset = "native" THEN held - legs[i] ELSE held
  /\ i' = i + 1
  /\ UNCHANGED <<kind, config, paused, offer, pc, asset, amount, fee, shares, legs, bpsSum,
                 allocated, saved>>

Return ==
  /\ pc = "paying" /\ i > Len(legs)
  /\ pc' = "idle"
  /\ UNCHANGED <<kind, config, paused, offer, frame>>

\* The transaction is undone, with what the owner did in a callback.
RolledBack ==
  /\ pc' = "idle" /\ held' = 0 /\ sent' = 0
  /\ config' = saved[1] /\ paused' = saved[2]
  /\ UNCHANGED <<kind, offer, asset, amount, fee, shares, legs, i, bpsSum, allocated, saved>>

\* A check of _computeAmounts fails, or its arithmetic panics.
Refuse == pc = "computing" /\ ~Acceptable /\ RolledBack

\* A recipient refuses its leg, the payer has not the means, the gas is used up.
Revert == pc = "paying" /\ RolledBack

\* setFeeConfig, between calls or in the callback of a leg.
SetFeeConfig(t, c) ==
  /\ kind = "fee"
  /\ config' = [config EXCEPT ![t] = c]
  /\ UNCHANGED <<kind, paused, offer, pc, frame>>

SetPaused ==
  /\ kind = "fee"
  /\ paused' = ~paused
  /\ UNCHANGED <<kind, config, offer, pc, frame>>

Next ==
  \/ \E t \in Assets, a \in Amounts : Quote(t, a) \/ PayPlain(t, a)
  \/ PayFee
  \/ \E t \in Assets, a \in Amounts, s \in ShareLists : PaySplit(t, a, s)
  \/ ComputeLeg \/ Computed \/ PayLeg \/ Return \/ Refuse \/ Revert
  \/ \E t \in Assets, c \in FeeConfigs : SetFeeConfig(t, c)
  \/ SetPaused

Spec == Init /\ [][Next]_vars

-----------------------------------------------------------------------------
(* Properties.                                                             *)

\* The contract's storage and the payer's quote.
StorageOK ==
  /\ kind \in {"fee", "plain", "split"}
  /\ config \in [Assets -> FeeConfig] /\ paused \in BOOLEAN
  /\ saved \in [Assets -> FeeConfig] \X BOOLEAN
  /\ offer \in [asset : Assets, amount : Uint, fee : Uint]

\* The call.
CallOK ==
  /\ pc \in {"idle", "computing", "paying"}
  /\ asset \in Assets /\ amount \in Uint /\ fee \in Uint
  /\ shares \in Seq(Uint16) /\ legs \in Seq(Uint) /\ i \in Nat \ {0}
  /\ bpsSum \in Nat /\ allocated \in Uint /\ held \in Uint /\ sent \in Uint

\* Types: no sum of the call leaves the word, and none falls below zero.
TypeOK == StorageOK /\ CallOK

\* Conservation: a call whose legs are paid has passed on exactly the amount and the
\* fee, never more than the payer was quoted whatever the owner configured since, and
\* no contract ever keeps a unit of it.
PaysExactly ==
  /\ pc = "paying" /\ i > Len(legs) => sent = amount + fee
  /\ pc = "paying" /\ kind = "fee" => legs[1] = offer.amount /\ fee =< offer.fee
  /\ pc = "idle" => held = 0

\* The legs the contract pays are those the backend computes from the same total and
\* shares, and the first recipient's differs from its share by less than one unit per
\* recipient: the indexer takes no honest split for a forgery.
MirrorAgrees ==
  kind = "split" /\ pc = "paying" =>
    /\ ValidSplit(amount, shares)
    /\ legs = ComputeSplitAmounts(amount, shares)
    /\ legs[1] - Share(amount, shares[1]) \in 0..(Len(shares) - 1)

\* The contract refuses no split that the backend accepts, unless it overflows.
RefusesOnlyTheInvalid ==
  [][pc = "computing" /\ pc' = "idle" =>
       \/ ~ValidSplit(amount, shares)
       \/ \E j \in DOMAIN shares : amount * shares[j] > MaxUint]_vars
=============================================================================
