------------------------------ MODULE WeiScore ------------------------------
(***************************************************************************)
(* What wei_infer_score_client (wei_infer.c) computes for one client: the  *)
(* packet-error and PHY windows, the running normalisation bands, the C5   *)
(* pipeline over them, the reported loss and the metric blamed for a       *)
(* degradation. WeiInfer takes the resulting score as any value of its     *)
(* range; this module is about the value.                                  *)
(*                                                                         *)
(* The sender's counters are cumulative and 32 bits wide: they wrap, and   *)
(* they restart when the station associates anew. PHY rates are in Mbps.   *)
(***************************************************************************)
EXTENDS WeiConnScorer, Sequences, FiniteSets, FiniteSetsExt

CONSTANTS Samples,      \* what a tick can bring: [snr, phy, df, de, util, restart],
                        \* with df frames and de errors since the last active one
          StartCounts,  \* [frames, errs] the counters can stand at
          PerrWindow,   \* WEI_INFER_PERR_WINDOW
          PhyWindow,    \* WEI_INFER_PHY_WINDOW
          TputVarBand,  \* weid_wire_default_policy.tput_var_band
          MaxSamples    \* bound: samples of one admission

(* A window never carries as many frames as a counter can tell apart. *)
ASSUME CounterAssumption ==
    \A s \in Samples : s.df \in Nat /\ s.de \in Nat
                       /\ (PerrWindow - 1) * (s.df + s.de) < Wrap

ASSUME WindowAssumption == PerrWindow \in Nat \ {0, 1} /\ PhyWindow \in Nat \ {0}

(* Counters are unsigned; a utilisation is one the channel weight covers. *)
ASSUME SampleAssumption ==
    /\ StartCounts \subseteq [frames : 0 .. Wrap - 1, errs : 0 .. Wrap - 1]
    /\ \A s \in Samples : /\ s.snr \in Int /\ s.phy \in Nat
                           /\ s.util \in DOMAIN ChanWeight
                           /\ s.restart \in BOOLEAN

VARIABLES ctr,      \* the sender's counters
          perr,     \* perr_frames and perr_errs with head and fill
          phy,      \* phy_window with head and fill
          band,     \* norm_band: SNR, PHY, loss
          out,      \* the score before damping, pkt_err_pct, dominant
          hist      \* ghost: what each sample since the admission brought, and
                    \* what all of them together have up to it

scoreVars == <<ctr, perr, phy, band, out, hist>>

EmptyRing(size, zero) == [buf |-> [k \in 0 .. size - 1 |-> zero], head |-> 0, fill |-> 0]

NoBand == [lo |-> 0, hi |-> 0, primed |-> FALSE]

NoCount == [frames |-> 0, errs |-> 0]

(* wei_infer_perr_push, wei_infer_phy_push *)
Push(ring, size, v) ==
    [buf |-> [ring.buf EXCEPT ![ring.head] = v],
     head |-> (ring.head + 1) % size,
     fill |-> IF ring.fill < size THEN ring.fill + 1 ELSE size]

Newest(ring) == ring.buf[(ring.head + PerrWindow - 1) % PerrWindow]

(* The first place, also once the ring has wrapped. *)
OldestFirstPlace(ring) == ring.buf[0]

Oldest(ring) == ring.buf[IF ring.fill < PerrWindow THEN 0 ELSE ring.head]

Delta(new, old) == IF new >= old THEN new - old ELSE 0

(* wei_infer_perr_rate, per mille: each counter's delta is taken, and held *)
(* at zero, on its own.                                                    *)
PerrRate(ring) ==
    LET d_frames == Delta(Newest(ring).frames, Oldest(ring).frames)
        d_errs == Delta(Newest(ring).errs, Oldest(ring).errs)
    IN  IF ring.fill < 2 THEN 0 ELSE LossRate(d_frames, d_errs)

(* The first n places of a window, added up. *)
SumFirst(buf, n) ==
    LET sum[k \in 0 .. n] == IF k = 0 THEN 0 ELSE sum[k - 1] + buf[k - 1]
    IN  sum[n]

(* wei_infer_phy_mean *)
PhyMean(ring) == SumFirst(ring.buf, ring.fill) \div ring.fill

(* wei_infer_phy_instability: the window's variance in (Mbps)^2. *)
Spread(ring) ==
    LET n == ring.fill
        sum == SumFirst(ring.buf, n)
        squares == SumFirst([k \in DOMAIN ring.buf |-> ring.buf[k] * ring.buf[k]], n)
    IN  IF n < 2 THEN 0 ELSE (n * squares - sum * sum) \div (n * n)

(* A band that starts at zero instead of at its first sample. *)
BandWidenUnprimed(b, v) ==
    [lo |-> Min({b.lo, v}), hi |-> Max({b.hi, v}), primed |-> TRUE]

(* wei_infer_band_widen *)
BandWiden(b, v) ==
    IF b.primed THEN [b EXCEPT !.lo = Min({@, v}), !.hi = Max({@, v})]
    ELSE [lo |-> v, hi |-> v, primed |-> TRUE]

(* The tick's loss in percent, as the report carries it: rounded, 0-100. *)
PktErrPct(rate) == IF rate >= PerMille THEN 100 ELSE (rate + 5) \div 10

(* An attribution that forgets that a high SNR is good. *)
BadnessUninverted(bands, s, rate) ==
    <<Normalize(s.snr, bands[1].lo, bands[1].hi),
      PerMille - Normalize(s.phy, bands[2].lo, bands[2].hi),
      Normalize(rate, bands[3].lo, bands[3].hi),
      (s.util * PerMille) \div 100>>

(* wei_infer_attribute: how far each metric is in its bad direction; the   *)
(* first of the worst is blamed. SNR, PHY, loss, channel utilisation.      *)
Badness(bands, s, rate) ==
    <<PerMille - Normalize(s.snr, bands[1].lo, bands[1].hi),
      PerMille - Normalize(s.phy, bands[2].lo, bands[2].hi),
      Normalize(rate, bands[3].lo, bands[3].hi),
      (s.util * PerMille) \div 100>>

Attribute(bad) ==
    CHOOSE m \in 1 .. 4 : /\ \A k \in 1 .. 4 : bad[k] <= bad[m]
                          /\ \A k \in 1 .. m - 1 : bad[k] < bad[m]

-----------------------------------------------------------------------------
NoBands == <<NoBand, NoBand, NoBand>>

NoResult == [score |-> 0, pkt_err_pct |-> 0, dominant |-> 0]

ScoreInit ==
    /\ ctr \in StartCounts
    /\ perr = EmptyRing(PerrWindow, NoCount) /\ phy = EmptyRing(PhyWindow, 0)
    /\ band = NoBands /\ out = NoResult /\ hist = <<>>

Advanced(c, s) ==
    IF s.restart THEN [frames |-> s.df, errs |-> s.de]
    ELSE [frames |-> (c.frames + s.df) % Wrap, errs |-> (c.errs + s.de) % Wrap]

NoTotal == [frames |-> 0, errs |-> 0, phy |-> 0]

(* Ghost: all that the samples of a history brought, and one more. *)
TotalOf(h) == IF h = <<>> THEN NoTotal ELSE h[Len(h)].total

Added(t, s) == [frames |-> t.frames + s.df, errs |-> t.errs + s.de, phy |-> t.phy + s.phy]

(* A counter that stands lower than it did, by a restart or by its width. *)
WentBack(c, s) ==
    s.restart \/ c.frames + s.df >= Wrap \/ c.errs + s.de >= Wrap

(* An active record's tick: push, rate, widen, normalise over the widened  *)
(* bands, reduce, weight, standardise, and attribute a degraded verdict. A *)
(* PHY spike degrades it; so do, "sustained", an excursion that has closed *)
(* and the latency alarm (WeiInfer). A gated tick leaves all alone.        *)
ScoreClient(s, sustained) ==
    /\ Len(hist) < MaxSamples
    /\ ctr' = Advanced(ctr, s)
    /\ perr' = Push(perr, PerrWindow, ctr')
    /\ phy' = Push(phy, PhyWindow, s.phy)
    /\ LET value == <<s.snr, PhyMean(phy'), PerrRate(perr')>>
           norm == [k \in 1 .. 3 |-> Normalize(value[k], band'[k].lo, band'[k].hi)]
       IN  /\ band' = [k \in 1 .. 3 |-> BandWiden(band[k], value[k])]
           /\ out' = [score |-> Pipeline(norm, s.util),
                      pkt_err_pct |-> PktErrPct(value[3]),
                      dominant |-> IF Spread(phy') > TputVarBand \/ sustained
                                   THEN Attribute(Badness(band', s, value[3])) ELSE 0]
    /\ hist' = Append(hist, [sample |-> s, back |-> WentBack(ctr, s), ctr |-> ctr',
                             rate |-> PerrRate(perr'),
                             total |-> Added(TotalOf(hist), s)])

(* The station is reaped; its next admission finds the state zeroed and    *)
(* its counters anywhere. The old result is not read before the next one   *)
(* is written.                                                             *)
Readmit ==
    /\ hist # <<>>
    /\ ctr' \in StartCounts
    /\ perr' = EmptyRing(PerrWindow, NoCount) /\ phy' = EmptyRing(PhyWindow, 0)
    /\ band' = NoBands /\ out' = NoResult /\ hist' = <<>>

ScoreNext ==
    \/ \E s \in Samples, sustained \in BOOLEAN : ScoreClient(s, sustained)
    \/ Readmit

ScoreSpec == ScoreInit /\ [][ScoreNext]_scoreVars
-----------------------------------------------------------------------------
(* The oldest of the last n samples up to the k-th of the admission. *)
First(n, k) == Max({1, k - n + 1})

(* The loss rate is that of the frames and errors sent since the oldest    *)
(* sample in the window, however often the ring has wrapped, unless a      *)
(* counter went back in between: after a restart the two deltas are held   *)
(* at zero one by one, and errors can be left over no frames. The rate     *)
(* lies between nothing and everything even then.                          *)
RateIsWindowLoss ==
    LET n == Len(hist)
        old == First(PerrWindow, n)
        df == hist[n].total.frames - hist[old].total.frames
        de == hist[n].total.errs - hist[old].total.errs
    IN  /\ PerrRate(perr) \in 0 .. PerMille /\ out.pkt_err_pct \in 0 .. 100
        /\ hist # <<>> /\ ~(\E k \in old + 1 .. n : hist[k].back) =>
               PerrRate(perr) = IF df + de = 0 THEN 0 ELSE (de * PerMille) \div (df + de)

(* The mean of the PHY rates in the window at the k-th sample of h. *)
MeanAt(h, k) ==
    LET old == First(PhyWindow, k)
        before == IF old = 1 THEN 0 ELSE h[old - 1].total.phy
    IN  (h[k].total.phy - before) \div (k - old + 1)

(* The band of every metric is exactly the range of what it has shown      *)
(* since the admission: the SNR itself, the mean of the PHY rates in the   *)
(* window at each sample, and the loss rate.                               *)
BandsAreHistory ==
    LET all == 1 .. Len(hist)
        covers(b, seen) == b = [lo |-> Min(seen), hi |-> Max(seen), primed |-> TRUE]
    IN  hist # <<>> =>
            /\ covers(band[1], {hist[k].sample.snr : k \in all})
            /\ covers(band[2], {MeanAt(hist, k) : k \in all})
            /\ covers(band[3], {hist[k].rate : k \in all})

(* The stateless kernel's score, "higher = better": a record no worse in   *)
(* SNR, PHY rate and errors scores no lower on the same channel, as long   *)
(* as the sum of its cumulative counters is within their width. Past it    *)
(* the sum wraps, and the one at which it reaches zero scores as lossless. *)
HigherIsBetter ==
    hist # <<>> /\ ctr.frames + ctr.errs < Wrap =>
        LET s == hist[Len(hist)].sample
            score == KernelScore(s.snr, s.phy, ctr.frames, ctr.errs, s.util)
        IN  \A t \in Samples, e \in 0 .. ctr.errs :
                t.snr >= s.snr /\ t.phy >= s.phy =>
                    KernelScore(t.snr, t.phy, ctr.frames, e, s.util) >= score

(* wei_infer_attribute ranks each metric "by how far it sits in its        *)
(* degrading direction -- low for the reward metrics", high for the other  *)
(* two: SNR or PHY rate is blamed while it stands below the best this      *)
(* client has shown, loss while above the least, the channel while in use. *)
(* SNR, the first, is blamed as well when no metric is off at all. The     *)
(* exception is a band without a span, which normalises to 0: a reward     *)
(* metric that never changed counts as the worst there is.                 *)
BlamedMetricIsLow ==
    hist # <<>> =>
        LET last == hist[Len(hist)]
        IN  /\ out.dominant = 1 =>
                   \/ last.sample.snr < band[1].hi
                   \/ band[1].lo = band[1].hi
                   \/ /\ last.sample.util = 0 /\ last.sample.phy >= band[2].hi
                      /\ last.rate = band[3].lo
            /\ out.dominant = 2 =>
                   last.sample.phy < band[2].hi \/ band[2].lo = band[2].hi
            /\ out.dominant = 3 => last.rate > band[3].lo
            /\ out.dominant = 4 => last.sample.util > 0
=============================================================================
