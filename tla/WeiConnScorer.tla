---------------------------- MODULE WeiConnScorer ----------------------------
(***************************************************************************)
(* The C5 scoring kernel (wei_conn_scorer.c) as operators. Its doubles are *)
(* fixed-point integers in which 1.0 is PerMille: a normalised metric, a   *)
(* reduced and a weighted value, a loss rate and the channel weight are    *)
(* per mille, a contribution is a product of two of them. Rounding down is *)
(* monotone, as the floating-point operations are. Counters are unsigned   *)
(* and wrap.                                                               *)
(***************************************************************************)
EXTENDS Integers

CONSTANTS ChanWeight,   \* per-mille sigmoid(B0 + B1 * u) of LINK_QTY_B0 and _B1,
                        \* by utilisation percent u
          Wrap          \* 2^32, where a uint32_t wraps

PerMille == 1000        \* 1.0
Scale == 100            \* CSCORE_SCALE_MAX; CSCORE_SCALE_MIN is 0

ASSUME WeightAssumption ==
    \A u \in DOMAIN ChanWeight : u \in 0 .. 100 /\ ChanWeight[u] \in 0 .. PerMille

ASSUME WidthAssumption == Wrap \in Nat \ {0}

(* cscore_normalize_metric: a clamped min-max map; no span, no value. *)
Normalize(value, lo, hi) ==
    IF hi - lo <= 0 THEN 0
    ELSE LET unit == ((value - lo) * PerMille) \div (hi - lo)
         IN  IF unit < 0 THEN 0 ELSE IF unit > PerMille THEN PerMille ELSE unit

(* cscore_rms_reduce over three contributions. *)
RmsReduce(contrib) ==
    LET mean == (contrib[1] + contrib[2] + contrib[3]) \div 3
    IN  IF mean < 0 THEN 0
        ELSE CHOOSE k \in 0 .. PerMille : k * k <= mean /\ mean < (k + 1) * (k + 1)

(* cscore_chanutil_weight *)
ChanutilWeight(reduced, util) == (reduced * ChanWeight[util]) \div PerMille

(* cscore_standardize: onto the scale, and clamped to it. *)
Standardize(weighted) ==
    LET scaled == (weighted * Scale) \div PerMille
    IN  IF scaled < 0 THEN 0 ELSE IF scaled > Scale THEN Scale ELSE scaled

(* A loss term that is rewarded like the signal metrics. *)
ContributionsAllReward(norm) ==
    <<norm[1] * norm[1], norm[2] * norm[2], norm[3] * norm[3]>>

(* SNR and PHY rate count by their square, loss by what its square leaves. *)
Contributions(norm) ==
    <<norm[1] * norm[1], norm[2] * norm[2], PerMille * PerMille - norm[3] * norm[3]>>

(* The stages in the order both callers run them. *)
Pipeline(norm, util) ==
    Standardize(ChanutilWeight(RmsReduce(Contributions(norm)), util))

(* Errors among all frames; the sum is unsigned and of the counters' width. *)
LossRate(frames, errs) ==
    LET total == (frames + errs) % Wrap
    IN  IF total = 0 THEN 0 ELSE (errs * PerMille) \div total

(* wei_conn_scorer_score of an active record with status OK: fixed domains *)
(* and the loss rate of the cumulative counters.                           *)
KernelScore(snr, phy, frames, errs, util) ==
    Pipeline(<<Normalize(snr, 0, 40), Normalize(phy, 0, 866),
               Normalize(LossRate(frames, errs), 0, PerMille)>>, util)
==============================================================================
