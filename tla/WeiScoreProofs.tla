--------------------------- MODULE WeiScoreProofs ---------------------------
(***************************************************************************)
(* What a client's score is computed from is what its samples brought: the *)
(* loss rate is the window's, the mean its PHY rates', a band the range of *)
(* all seen, and the metric blamed is one that is off. The kernel itself   *)
(* is monotone, stage by stage. Where a proof goes by induction over data  *)
(* it looks at the least case that fails.                                  *)
(***************************************************************************)
EXTENDS WeiScore, TLAPS, WellFoundedInduction

LEMMA Scales == PerMille = 1000 /\ Scale = 100 /\ PerMille \in Nat
BY DEF PerMille, Scale

LEMMA One == PerMille \in Nat
BY Scales

LEMMA ProductMonotone ==
    ASSUME NEW a \in Nat, NEW b \in Nat, NEW s \in Nat, a <= b
    PROVE  a * s \in Nat /\ b * s \in Nat /\ a * s <= b * s
<1>1. b - a \in Nat
  OBVIOUS
<1>2. b * s = a * s + (b - a) * s /\ (b - a) * s \in Nat /\ a * s \in Nat
  BY <1>1, Z3
<1>3. QED
  BY <1>2

Sq(x) == x * x

LEMMA SquareMonotone ==
    ASSUME NEW a \in Nat, NEW b \in Nat, a <= b
    PROVE  Sq(a) \in Nat /\ Sq(b) \in Nat /\ Sq(a) <= Sq(b)
<1>1. a * a \in Nat /\ a * a <= b * a
  BY ProductMonotone
<1>2. b * a = a * b
  BY Z3
<1>3. a * b \in Nat /\ b * b \in Nat /\ a * b <= b * b
  BY ProductMonotone
<1>4. QED
  BY <1>1, <1>2, <1>3 DEF Sq

LEMMA SquareRange == ASSUME NEW x \in 0 .. PerMille PROVE Sq(x) \in 0 .. Sq(PerMille)
<1>1. x \in Nat /\ PerMille \in Nat /\ x <= PerMille
  BY Scales
<1>2. Sq(x) \in Nat /\ Sq(PerMille) \in Nat /\ Sq(x) <= Sq(PerMille)
  BY <1>1, SquareMonotone
<1>3. QED
  BY <1>2

LEMMA SquareNext == ASSUME NEW n \in Nat PROVE Sq(n) \in Nat /\ Sq(n) < Sq(n + 1)
<1>1. (n + 1) * (n + 1) = n * n + 2 * n + 1 /\ n * n \in Nat
  BY Z3
<1>2. QED
  BY <1>1 DEF Sq

LEMMA DivMod ==
    ASSUME NEW a \in Nat, NEW s \in Nat \ {0}
    PROVE  /\ a \div s \in Nat /\ a % s \in 0 .. s - 1
           /\ a = (a \div s) * s + (a % s)
BY Z3

Quotient(q, a, s) == q \in Nat /\ q * s \in Nat /\ q * s <= a /\ a < (q + 1) * s

LEMMA QuotientIs ==
    ASSUME NEW a \in Nat, NEW s \in Nat \ {0}
    PROVE  Quotient(a \div s, a, s)
<1> DEFINE q == a \div s
           r == a % s
<1>1. q \in Nat /\ r \in 0 .. s - 1 /\ a = q * s + r
  BY DivMod
<1> HIDE DEF q, r
<1>2. q * s \in Nat /\ (q + 1) * s = q * s + s
  BY <1>1, ProductMonotone, Z3
<1> DEFINE y == q * s
<1>3. y \in Nat /\ a = y + r /\ (q + 1) * s = y + s
  BY <1>1, <1>2
<1> HIDE DEF y
<1>4. y <= a /\ a < (q + 1) * s
  BY <1>1, <1>3
<1>5. QED
  BY <1>1, <1>2, <1>4 DEF Quotient, y, q

(* The loss rate of counters whose sum does not wrap. *)
Loss(frames, errs) ==
    IF frames + errs = 0 THEN 0 ELSE (errs * PerMille) \div (frames + errs)

LEMMA LossUnwrapped ==
    ASSUME NEW frames \in Nat, NEW errs \in Nat, frames + errs < Wrap
    PROVE  LossRate(frames, errs) = Loss(frames, errs)
<1> DEFINE n == frames + errs
<1>1. n \in Nat /\ n < Wrap
  OBVIOUS
<1> HIDE DEF n
<1>2. n % Wrap = n
  BY <1>1, WidthAssumption
<1>3. QED
  BY <1>2, Zenon DEF LossRate, Loss, n

(* More errors over the same frames are a higher loss rate. *)
LEMMA LossMonotone ==
    ASSUME NEW frames \in Nat, NEW e \in Nat, NEW errs \in Nat, e <= errs
    PROVE  /\ Loss(frames, e) \in Nat /\ Loss(frames, errs) \in Nat
           /\ Loss(frames, e) <= Loss(frames, errs)
<1> USE Scales
<1> DEFINE d == frames + e
           n == frames + errs
           p == (e * 1000) \div d
           q == (errs * 1000) \div n
<1>1. d \in Nat /\ n \in Nat /\ d <= n /\ n = d + (errs - e) /\ errs - e \in Nat
  OBVIOUS
<1>2. CASE d = 0
  <2>1. Loss(frames, e) = 0
    BY <1>2 DEF Loss
  <2>2. Loss(frames, errs) \in Nat
    <3>1. n # 0 => q \in Nat
      BY <1>1, DivMod
    <3>2. QED
      BY <3>1 DEF Loss
  <2>3. QED
    BY <2>1, <2>2
<1>3. CASE d # 0
  <2>1. /\ p \in Nat /\ p * d <= e * 1000
        /\ q \in Nat /\ errs * 1000 < (q + 1) * n
    <3> DEFINE x == e * 1000
               y == errs * 1000
    <3>1. x \in Nat /\ y \in Nat /\ d \in Nat \ {0} /\ n \in Nat \ {0}
      BY <1>1, <1>3
    <3>2. p = x \div d /\ q = y \div n
      OBVIOUS
    <3> HIDE DEF p, q, d, n, x, y
    <3>3. Quotient(x \div d, x, d)
      BY <3>1, QuotientIs
    <3>4. Quotient(y \div n, y, n)
      BY <3>1, QuotientIs
    <3>5. Quotient(p, x, d) /\ Quotient(q, y, n)
      BY <3>2, <3>3, <3>4, Zenon
    <3>6. QED
      BY <3>5 DEF Quotient, x, y
  <2>2. p <= 1000
    <3> HIDE DEF p, q
    <3>1. 1001 <= p => 1001 * d <= p * d
      BY <1>1, <2>1, ProductMonotone
    <3>2. e * 1000 < 1001 * d
      BY <1>3
    <3>3. p * d \in Nat
      BY <1>1, <2>1, ProductMonotone
    <3> HIDE DEF d
    <3>4. QED
      BY <1>1, <2>1, <3>1, <3>2, <3>3
  <2>3. p * n <= errs * 1000
    <3> DEFINE x == errs - e
    <3>1. x \in Nat /\ n = d + x /\ e * 1000 + x * 1000 = errs * 1000
      BY <1>1
    <3> HIDE DEF p, q, x, d, n
    <3>2. p * n = p * d + p * x
      BY <1>1, <2>1, <3>1, Z3
    <3>3. p * x <= 1000 * x /\ p * x \in Nat /\ p * d \in Nat
      BY <1>1, <2>1, <2>2, <3>1, ProductMonotone
    <3>4. 1000 * x = x * 1000
      BY <3>1
    <3>5. QED
      BY <2>1, <3>1, <3>2, <3>3, <3>4
  <2>4. p <= q
    <3> HIDE DEF p, q, d, n
    <3>1. q + 1 <= p => (q + 1) * n <= p * n
      BY <1>1, <2>1, ProductMonotone
    <3>2. p * n \in Nat /\ (q + 1) * n \in Nat
      BY <1>1, <2>1, ProductMonotone
    <3>3. QED
      BY <2>1, <2>3, <3>1, <3>2
  <2>5. Loss(frames, e) = p /\ Loss(frames, errs) = q
    BY <1>1, <1>3 DEF Loss
  <2> HIDE DEF p, q
  <2>6. QED
    BY <2>1, <2>4, <2>5
<1>4. QED
  BY <1>2, <1>3

LEMMA NormalizeSnr ==
    ASSUME NEW a \in Int, NEW b \in Int, a <= b
    PROVE  /\ Normalize(a, 0, 40) \in 0 .. PerMille /\ Normalize(b, 0, 40) \in 0 .. PerMille
           /\ Normalize(a, 0, 40) <= Normalize(b, 0, 40)
BY Scales, Z3 DEF Normalize

LEMMA NormalizePhy ==
    ASSUME NEW a \in Int, NEW b \in Int, a <= b
    PROVE  /\ Normalize(a, 0, 866) \in 0 .. PerMille /\ Normalize(b, 0, 866) \in 0 .. PerMille
           /\ Normalize(a, 0, 866) <= Normalize(b, 0, 866)
BY Scales, Z3 DEF Normalize

LEMMA NormalizeLoss ==
    ASSUME NEW a \in Int, NEW b \in Int, a <= b
    PROVE  /\ Normalize(a, 0, 1000) \in 0 .. PerMille /\ Normalize(b, 0, 1000) \in 0 .. PerMille
           /\ Normalize(a, 0, 1000) <= Normalize(b, 0, 1000)
BY Scales, Z3 DEF Normalize

(* The integer root of a mean on the scale exists and is monotone. *)
IsRoot(k, mean) == Sq(k) <= mean /\ mean < Sq(k + 1)

LEMMA RootExists ==
    ASSUME NEW mean \in 0 .. Sq(PerMille)
    PROVE  \E k \in 0 .. PerMille : IsRoot(k, mean)
<1> DEFINE F == {k \in Nat : mean < Sq(k + 1)}
<1>8. /\ Sq(0) = 0 /\ PerMille \in Nat /\ Sq(PerMille) < Sq(PerMille + 1)
      /\ \A k \in Nat : Sq(k) \in Nat
  <2>1. Sq(0) = 0
    BY DEF Sq
  <2>2. QED
    BY <2>1, SquareNext, Scales
<1>0. \A k \in F : k \in Nat /\ mean < Sq(k + 1)
  OBVIOUS
<1>1. PerMille \in F /\ F \subseteq Nat /\ F # {}
  <2>1. mean \in Nat /\ mean < Sq(PerMille + 1)
    BY <1>8, SquareNext
  <2>2. QED
    BY <1>8, <2>1
<1>9. \A k \in Nat : mean < Sq(k + 1) => k \in F
  OBVIOUS
<1> HIDE DEF F
<1>2. PICK k \in F : \A j \in F : ~(<<j, k>> \in OpToRel(<, Nat))
  BY <1>1, NatLessThanWellFounded, WFMin
<1>3. \A j \in F : ~(j < k)
  BY <1>1, <1>2 DEF OpToRel
<1>4. k \in Nat /\ mean < Sq(k + 1)
  BY <1>0, <1>2
<1>5. k <= PerMille
  BY <1>1, <1>3, <1>4, <1>8
<1>6. Sq(k) <= mean
  <2>1. CASE k = 0
    BY <1>8, <2>1
  <2>2. CASE k # 0
    <3>1. k - 1 \in Nat /\ k - 1 < k /\ (k - 1) + 1 = k
      BY <1>4, <2>2
    <3>2. k - 1 \notin F
      BY <1>3, <3>1
    <3>3. ~(mean < Sq(k))
      BY <1>9, <3>1, <3>2
    <3>4. Sq(k) \in Nat
      BY <1>4, <1>8
    <3>5. QED
      BY <3>3, <3>4
  <2>3. QED
    BY <2>1, <2>2
<1>7. QED
  BY <1>4, <1>5, <1>6, <1>8 DEF IsRoot

LEMMA RootMonotone ==
    ASSUME NEW x \in 0 .. Sq(PerMille), NEW y \in 0 .. Sq(PerMille), x <= y,
           NEW a \in 0 .. PerMille, NEW b \in 0 .. PerMille, IsRoot(a, x), IsRoot(b, y)
    PROVE  a <= b
<1>0. a \in Nat /\ b \in Nat /\ x \in Nat /\ y \in Nat
  BY Scales, SquareNext
<1>1. b + 1 <= a => Sq(b + 1) <= Sq(a)
  BY <1>0, SquareMonotone
<1>2. Sq(a) \in Nat /\ Sq(b + 1) \in Nat
  BY <1>0, SquareNext
<1>3. Sq(a) <= x /\ y < Sq(b + 1)
  BY DEF IsRoot
<1>4. ~(b + 1 <= a)
  BY <1>0, <1>1, <1>2, <1>3
<1>5. QED
  BY <1>0, <1>4

(* The pipeline over three normalised metrics: SNR and PHY reward, loss     *)
(* counts against.                                                         *)
LEMMA ReduceMonotone ==
    ASSUME NEW s1 \in 0 .. PerMille, NEW s2 \in 0 .. PerMille, NEW s3 \in 0 .. PerMille,
           NEW t1 \in 0 .. PerMille, NEW t2 \in 0 .. PerMille, NEW t3 \in 0 .. PerMille,
           s1 <= t1, s2 <= t2, t3 <= s3,
           NEW r, r = RmsReduce(Contributions(<<s1, s2, s3>>)),
           NEW q, q = RmsReduce(Contributions(<<t1, t2, t3>>))
    PROVE  r \in 0 .. PerMille /\ q \in 0 .. PerMille /\ r <= q
<1> DEFINE mean(x, y, z) == (Sq(x) + Sq(y) + (Sq(PerMille) - Sq(z))) \div 3
<1>1. ASSUME NEW x \in 0 .. PerMille, NEW y \in 0 .. PerMille, NEW z \in 0 .. PerMille,
             NEW root, root = RmsReduce(Contributions(<<x, y, z>>))
      PROVE  /\ mean(x, y, z) \in 0 .. Sq(PerMille)
             /\ root \in 0 .. PerMille /\ IsRoot(root, mean(x, y, z))
  <2>1. Sq(x) \in 0 .. Sq(PerMille) /\ Sq(y) \in 0 .. Sq(PerMille) /\ Sq(z) \in 0 .. Sq(PerMille)
    BY SquareRange
  <2> DEFINE m == mean(x, y, z)
  <2>2. m \in 0 .. Sq(PerMille)
    BY <2>1, SquareNext, Scales
  <2>3. root = IF m < 0 THEN 0
               ELSE CHOOSE k \in 0 .. PerMille : k * k <= m /\ m < (k + 1) * (k + 1)
    BY <1>1 DEF RmsReduce, Contributions, Sq
  <2> HIDE DEF m
  <2>4. root = CHOOSE k \in 0 .. PerMille : IsRoot(k, m)
    <3>1. ~(m < 0)
      BY <2>2
    <3>2. QED
      BY <2>3, <3>1, Zenon DEF IsRoot, Sq
  <2>5. root \in 0 .. PerMille /\ IsRoot(root, m)
    <3>1. \E k \in 0 .. PerMille : IsRoot(k, m)
      BY <2>2, RootExists
    <3>2. QED
      BY <2>4, <3>1, Zenon
  <2>6. QED
    BY <2>2, <2>5 DEF m
<1>2. mean(s1, s2, s3) <= mean(t1, t2, t3)
  <2>1. Sq(s1) <= Sq(t1) /\ Sq(s2) <= Sq(t2) /\ Sq(t3) <= Sq(s3)
    BY SquareMonotone, One
  <2>2. /\ Sq(s1) \in 0 .. Sq(PerMille) /\ Sq(s2) \in 0 .. Sq(PerMille) /\ Sq(s3) \in 0 .. Sq(PerMille)
        /\ Sq(t1) \in 0 .. Sq(PerMille) /\ Sq(t2) \in 0 .. Sq(PerMille) /\ Sq(t3) \in 0 .. Sq(PerMille)
    BY SquareRange
  <2>3. QED
    BY <2>1, <2>2, SquareNext, Scales
<1>3. /\ mean(s1, s2, s3) \in 0 .. Sq(PerMille) /\ r \in 0 .. PerMille
      /\ IsRoot(r, mean(s1, s2, s3))
  BY <1>1
<1>4. /\ mean(t1, t2, t3) \in 0 .. Sq(PerMille) /\ q \in 0 .. PerMille
      /\ IsRoot(q, mean(t1, t2, t3))
  BY <1>1
<1> HIDE DEF mean
<1>5. r <= q
  BY <1>2, <1>3, <1>4, RootMonotone
<1>6. QED
  BY <1>3, <1>4, <1>5

LEMMA WeightMonotone ==
    ASSUME NEW a \in 0 .. PerMille, NEW b \in 0 .. PerMille, a <= b,
           NEW u \in DOMAIN ChanWeight
    PROVE  Standardize(ChanutilWeight(a, u)) <= Standardize(ChanutilWeight(b, u))
<1> DEFINE w == ChanWeight[u]
<1>1. w \in Nat
  <2>1. w \in 0 .. PerMille
    BY WeightAssumption
  <2>2. QED
    BY <2>1, One
<1> HIDE DEF w
<1> DEFINE x == a * w
           y == b * w
<1>2. x \in Nat /\ y \in Nat /\ x <= y
  BY <1>1, ProductMonotone
<1>3. ChanutilWeight(a, u) = x \div 1000 /\ ChanutilWeight(b, u) = y \div 1000
  BY Scales DEF ChanutilWeight, w
<1> HIDE DEF x, y
<1>4. x \div 1000 \in Nat /\ y \div 1000 \in Nat /\ x \div 1000 <= y \div 1000
  BY <1>2
<1> DEFINE p == x \div 1000
           q == y \div 1000
<1>5. p \in Nat /\ q \in Nat /\ p <= q
  BY <1>4
<1> HIDE DEF p, q
<1>6. Standardize(p) <= Standardize(q)
  BY <1>5, Scales, Z3 DEF Standardize
<1>7. QED
  BY <1>3, <1>6 DEF p, q

LEMMA KernelMonotone ==
    ASSUME NEW snr \in Int, NEW rate \in Int, NEW frames \in Nat, NEW errs \in Nat,
           NEW snr2 \in Int, NEW rate2 \in Int, NEW errs2 \in Nat,
           snr <= snr2, rate <= rate2, errs2 <= errs, frames + errs < Wrap,
           NEW u \in DOMAIN ChanWeight
    PROVE  KernelScore(snr2, rate2, frames, errs2, u)
               >= KernelScore(snr, rate, frames, errs, u)
<1> DEFINE norm(s, p, e) == <<Normalize(s, 0, 40), Normalize(p, 0, 866),
                              Normalize(Loss(frames, e), 0, PerMille)>>
           r(s, p, e) == RmsReduce(Contributions(norm(s, p, e)))
<1>1. /\ Loss(frames, errs2) \in Int /\ Loss(frames, errs) \in Int
      /\ Loss(frames, errs2) <= Loss(frames, errs)
  BY LossMonotone
<1>2. /\ r(snr, rate, errs) \in 0 .. PerMille /\ r(snr2, rate2, errs2) \in 0 .. PerMille
      /\ r(snr, rate, errs) <= r(snr2, rate2, errs2)
  <2> DEFINE s1 == Normalize(snr, 0, 40)
             s2 == Normalize(rate, 0, 866)
             s3 == Normalize(Loss(frames, errs), 0, PerMille)
             t1 == Normalize(snr2, 0, 40)
             t2 == Normalize(rate2, 0, 866)
             t3 == Normalize(Loss(frames, errs2), 0, PerMille)
  <2>1. s1 \in 0 .. PerMille /\ t1 \in 0 .. PerMille /\ s1 <= t1
    BY NormalizeSnr
  <2>2. s2 \in 0 .. PerMille /\ t2 \in 0 .. PerMille /\ s2 <= t2
    BY NormalizePhy
  <2>3. s3 \in 0 .. PerMille /\ t3 \in 0 .. PerMille /\ t3 <= s3
    <3>1. PerMille = 1000
      BY Scales
    <3> DEFINE a == Loss(frames, errs2)
               b == Loss(frames, errs)
    <3>2. a \in Int /\ b \in Int /\ a <= b
      BY <1>1
    <3> HIDE DEF a, b
    <3>3. /\ Normalize(a, 0, 1000) \in 0 .. PerMille /\ Normalize(b, 0, 1000) \in 0 .. PerMille
          /\ Normalize(a, 0, 1000) <= Normalize(b, 0, 1000)
      BY <3>2, NormalizeLoss
    <3>4. s3 = Normalize(b, 0, 1000) /\ t3 = Normalize(a, 0, 1000)
      BY <3>1, Zenon DEF a, b
    <3> HIDE DEF s3, t3
    <3>5. QED
      BY <3>3, <3>4
  <2>4. /\ r(snr, rate, errs) = RmsReduce(Contributions(<<s1, s2, s3>>))
        /\ r(snr2, rate2, errs2) = RmsReduce(Contributions(<<t1, t2, t3>>))
    OBVIOUS
  <2> HIDE DEF s1, s2, s3, t1, t2, t3, r, norm
  <2>5. QED
    BY <2>1, <2>2, <2>3, <2>4, ReduceMonotone
<1>3. /\ KernelScore(snr, rate, frames, errs, u)
             = Standardize(ChanutilWeight(r(snr, rate, errs), u))
      /\ KernelScore(snr2, rate2, frames, errs2, u)
             = Standardize(ChanutilWeight(r(snr2, rate2, errs2), u))
  <2>1. frames + errs2 < Wrap
    BY WidthAssumption
  <2>2. /\ LossRate(frames, errs) = Loss(frames, errs)
        /\ LossRate(frames, errs2) = Loss(frames, errs2)
    BY <2>1, LossUnwrapped
  <2> DEFINE raw(v, p, e) == <<Normalize(v, 0, 40), Normalize(p, 0, 866),
                               Normalize(LossRate(frames, e), 0, PerMille)>>
  <2>3. /\ raw(snr, rate, errs) = norm(snr, rate, errs)
        /\ raw(snr2, rate2, errs2) = norm(snr2, rate2, errs2)
    BY <2>2
  <2>4. \A v, p, e : KernelScore(v, p, frames, e, u) =
            Standardize(ChanutilWeight(RmsReduce(Contributions(raw(v, p, e))), u))
    BY Zenon DEF KernelScore, Pipeline
  <2> HIDE DEF raw, norm
  <2>5. QED
    BY <2>3, <2>4, Zenon
<1> HIDE DEF r
<1> DEFINE x == Standardize(ChanutilWeight(r(snr, rate, errs), u))
           y == Standardize(ChanutilWeight(r(snr2, rate2, errs2), u))
<1>4. x <= y
  BY <1>2, WeightMonotone
<1>5. QED
  <2> HIDE DEF x, y
  <2>1. QED
    BY <1>3, <1>4 DEF x, y

-----------------------------------------------------------------------------
(* Induction over data: a property of numbers that fails has a least       *)
(* number for which it fails.                                              *)
LEMMA Least ==
    ASSUME NEW D \in SUBSET Nat, D # {}
    PROVE  \E d \in D : \A e \in D : d <= e
<1>1. PICK d \in D : \A e \in D : ~(<<e, d>> \in OpToRel(<, Nat))
  BY NatLessThanWellFounded, WFMin
<1>2. ASSUME NEW e \in D PROVE d <= e
  <2>1. e \in Nat /\ d \in Nat
    OBVIOUS
  <2>2. ~(e < d)
    BY <1>1, <2>1 DEF OpToRel
  <2>3. QED
    BY <2>1, <2>2
<1>3. QED
  BY <1>2

(* g adds f up, place by place. *)
AddsUp(g, f, n) == /\ g \in [0 .. n -> Int] /\ g[0] = 0
                   /\ \A k \in 0 .. n - 1 : g[k + 1] = g[k] + f[k]

LEMMA SumExists ==
    ASSUME NEW N \in Nat, NEW f \in [0 .. N - 1 -> Int]
    PROVE  \E g : AddsUp(g, f, N)
<1> DEFINE P(m) == \E g : AddsUp(g, f, m)
           D == {m \in Nat : m <= N /\ ~P(m)}
<1>1. SUFFICES ASSUME D # {} PROVE FALSE
  <2>1. N \in Nat /\ N <= N
    OBVIOUS
  <2> HIDE DEF P
  <2>2. D = {} => P(N)
    BY <2>1
  <2>3. QED
    BY <2>2, Zenon DEF P
<1>2. PICK m \in D : \A e \in D : m <= e
  <2>1. D \in SUBSET Nat
    OBVIOUS
  <2> HIDE DEF D
  <2>2. QED
    BY <1>1, <2>1, Least
<1>3. m \in Nat /\ m <= N /\ ~P(m)
  BY <1>2
<1>4. CASE m = 0
  <2>1. AddsUp([k \in 0 .. m |-> 0], f, m)
    BY <1>4 DEF AddsUp
  <2>2. QED
    BY <1>3, <2>1
<1>5. CASE m # 0
  <2>1. m - 1 \in Nat /\ m - 1 <= N /\ ~(m <= m - 1)
    BY <1>3, <1>5
  <2>2. m - 1 \notin D
    BY <1>2, <2>1
  <2>3. P(m - 1)
    BY <2>1, <2>2
  <2>4. PICK g : AddsUp(g, f, m - 1)
    BY <2>3
  <2> DEFINE h == [k \in 0 .. m |-> IF k = m THEN g[m - 1] + f[m - 1] ELSE g[k]]
  <2>5. g \in [0 .. m - 1 -> Int] /\ g[0] = 0 /\ \A k \in 0 .. m - 2 : g[k + 1] = g[k] + f[k]
    BY <1>3, <1>5, <2>4 DEF AddsUp
  <2>6. h \in [0 .. m -> Int] /\ h[0] = 0
    BY <1>3, <1>5, <2>5
  <2>7. ASSUME NEW k \in 0 .. m - 1 PROVE h[k + 1] = h[k] + f[k]
    <3>1. CASE k = m - 1
      BY <1>3, <1>5, <3>1
    <3>2. CASE k # m - 1
      <4>1. k \in 0 .. m - 2 /\ k + 1 \in 0 .. m /\ k \in 0 .. m /\ k + 1 # m /\ k # m
        BY <1>3, <1>5, <3>2
      <4>2. h[k + 1] = g[k + 1] /\ h[k] = g[k]
        BY <4>1
      <4>3. QED
        BY <2>5, <4>1, <4>2
    <3>3. QED
      BY <3>1, <3>2
  <2>8. AddsUp(h, f, m)
    BY <2>6, <2>7 DEF AddsUp
  <2>9. QED
    BY <1>3, <2>8
<1>6. QED
  BY <1>4, <1>5

LEMMA SumIs ==
    ASSUME NEW n \in Nat, NEW f, NEW g, AddsUp(g, f, n)
    PROVE  SumFirst(f, n) = g[n]
<1> DEFINE Rec(s) == [k \in 0 .. n |-> IF k = 0 THEN 0 ELSE s[k - 1] + f[k - 1]]
           sum == CHOOSE s : s = Rec(s)
<1>1. g = Rec(g)
  <2>1. \A k \in 0 .. n : g[k] = IF k = 0 THEN 0 ELSE g[k - 1] + f[k - 1]
    <3> SUFFICES ASSUME NEW k \in 0 .. n, k # 0 PROVE g[k] = g[k - 1] + f[k - 1]
      BY DEF AddsUp
    <3>1. k - 1 \in 0 .. n - 1 /\ (k - 1) + 1 = k
      OBVIOUS
    <3>2. QED
      BY <3>1 DEF AddsUp
  <2>2. QED
    BY <2>1 DEF AddsUp
<1>2. sum = Rec(sum)
  <2> HIDE DEF Rec
  <2>1. QED
    BY <1>1, Zenon
<1>3. SumFirst(f, n) = sum[n]
  BY Zenon DEF SumFirst
<1> HIDE DEF sum
<1>4. \A k \in 0 .. n : sum[k] = IF k = 0 THEN 0 ELSE sum[k - 1] + f[k - 1]
  BY <1>2
<1> DEFINE D == {k \in Nat : k <= n /\ sum[k] # g[k]}
<1>5. CASE D = {}
  BY <1>3, <1>5
<1>6. CASE D # {}
  <2>1. PICK k \in D : \A e \in D : k <= e
    <3>1. D \in SUBSET Nat
      OBVIOUS
    <3> HIDE DEF D
    <3>2. QED
      BY <1>6, <3>1, Least
  <2>2. k \in 0 .. n /\ sum[k] # g[k]
    BY <2>1
  <2>3. k # 0
    BY <1>4, <2>2 DEF AddsUp
  <2>4. k - 1 \in Nat /\ k - 1 <= n /\ ~(k <= k - 1) /\ k - 1 \in 0 .. n - 1
        /\ (k - 1) + 1 = k
    BY <2>2, <2>3
  <2>5. sum[k - 1] = g[k - 1]
    BY <2>1, <2>4
  <2>6. sum[k] = sum[k - 1] + f[k - 1]
    BY <1>4, <2>2, <2>3
  <2>7. g[k] = g[k - 1] + f[k - 1]
    BY <2>4 DEF AddsUp
  <2>8. QED
    BY <2>2, <2>5, <2>6, <2>7
<1>7. QED
  BY <1>5, <1>6

(* The loop's invariant: one more place adds its value. *)
LEMMA SumSteps ==
    ASSUME NEW N \in Nat, NEW f \in [0 .. N - 1 -> Int]
    PROVE  /\ SumFirst(f, 0) = 0
           /\ \A n \in 0 .. N : SumFirst(f, n) \in Int
           /\ \A n \in 0 .. N - 1 : SumFirst(f, n + 1) = SumFirst(f, n) + f[n]
<1>1. PICK g : AddsUp(g, f, N)
  BY SumExists
<1>2. ASSUME NEW n \in 0 .. N PROVE SumFirst(f, n) = g[n]
  <2> DEFINE h == [k \in 0 .. n |-> g[k]]
  <2>1. AddsUp(h, f, n)
    BY <1>1 DEF AddsUp
  <2>2. n \in Nat /\ h[n] = g[n]
    OBVIOUS
  <2> HIDE DEF h
  <2>3. QED
    BY <2>1, <2>2, SumIs
<1>3. /\ 0 \in 0 .. N /\ \A n \in 0 .. N - 1 : n \in 0 .. N /\ n + 1 \in 0 .. N
  OBVIOUS
<1>4. QED
  BY <1>1, <1>2, <1>3 DEF AddsUp

(* Replacing one value replaces it in the sum. *)
LEMMA SumReplaced ==
    ASSUME NEW N \in Nat, NEW f \in [0 .. N - 1 -> Int],
           NEW p \in 0 .. N - 1, NEW v \in Int, NEW n \in 0 .. N
    PROVE  SumFirst([f EXCEPT ![p] = v], n)
               = SumFirst(f, n) + (IF p < n THEN v - f[p] ELSE 0)
<1> DEFINE f2 == [f EXCEPT ![p] = v]
           s(m) == SumFirst(f, m)
           t(m) == SumFirst(f2, m)
           P(m) == t(m) = s(m) + (IF p < m THEN v - f[p] ELSE 0)
           D == {m \in Nat : m <= N /\ ~P(m)}
<1>1. f2 \in [0 .. N - 1 -> Int]
  OBVIOUS
<1>2. /\ s(0) = 0 /\ \A m \in 0 .. N : s(m) \in Int
      /\ \A m \in 0 .. N - 1 : s(m + 1) = s(m) + f[m]
  BY SumSteps
<1>3. /\ t(0) = 0 /\ \A m \in 0 .. N : t(m) \in Int
      /\ \A m \in 0 .. N - 1 : t(m + 1) = t(m) + f2[m]
  <2> HIDE DEF f2
  <2>1. QED
    BY <1>1, SumSteps
<1>4. \A m \in 0 .. N - 1 : f2[m] = IF m = p THEN v ELSE f[m]
  OBVIOUS
<1> HIDE DEF s, t, f2
<1>5. CASE D = {}
  <2>1. P(n)
    <3>1. n \in Nat /\ n <= N
      OBVIOUS
    <3>2. n \notin D
      <4> HIDE DEF D
      <4>1. QED
        BY <1>5, Zenon
    <3> HIDE DEF P
    <3>3. QED
      BY <3>1, <3>2, Zenon
  <2>2. QED
    BY <2>1 DEF s, t, f2
<1>6. CASE D # {}
  <2>1. PICK m \in D : \A e \in D : m <= e
    <3>1. D \in SUBSET Nat
      OBVIOUS
    <3> HIDE DEF D
    <3>2. QED
      BY <1>6, <3>1, Least
  <2>2. m \in Nat /\ m <= N /\ ~P(m)
    BY <2>1
  <2>3. m # 0
    BY <1>2, <1>3, <2>2
  <2>4. m - 1 \in Nat /\ m - 1 <= N /\ ~(m <= m - 1) /\ m - 1 \in 0 .. N - 1
        /\ (m - 1) + 1 = m
    BY <2>2, <2>3
  <2>5. P(m - 1)
    BY <2>1, <2>4
  <2>6. s(m) = s(m - 1) + f[m - 1] /\ t(m) = t(m - 1) + f2[m - 1]
    BY <1>2, <1>3, <2>4
  <2>7. s(m - 1) \in Int /\ t(m - 1) \in Int /\ f[m - 1] \in Int /\ f[p] \in Int
    <3>1. m - 1 \in 0 .. N
      BY <2>4
    <3>2. QED
      BY <1>2, <1>3, <2>4, <3>1
  <2>8. P(m)
    BY <1>4, <2>2, <2>4, <2>5, <2>6, <2>7
  <2>9. QED
    BY <2>2, <2>8
<1>7. QED
  BY <1>5, <1>6
-----------------------------------------------------------------------------
(* Rings. *)
LEMMA ModIs ==
    ASSUME NEW q \in Int, NEW b \in Nat \ {0}, NEW r \in 0 .. b - 1
    PROVE  (q * b + r) % b = r
BY Z3

LEMMA ModSmall ==
    ASSUME NEW b \in Nat \ {0}, NEW r \in 0 .. b - 1
    PROVE  r % b = r
BY Z3

(* Places of a ring up to a whole turn away. *)
LEMMA ModTurn ==
    ASSUME NEW n \in Nat, NEW b \in Nat \ {0}, NEW d \in 0 .. b
    PROVE  /\ n % b \in 0 .. b - 1
           /\ (n + d) % b = IF (n % b) + d < b THEN (n % b) + d ELSE (n % b) + d - b
<1> DEFINE q == n \div b
           r == n % b
<1>1. q \in Nat /\ r \in 0 .. b - 1 /\ n = q * b + r
  BY DivMod
<1> HIDE DEF q, r
<1>2. q * b \in Int /\ (q + 1) * b = q * b + b /\ (q + 1) \in Int
  BY <1>1, Z3
<1>3. CASE r + d < b
  <2>1. r + d \in 0 .. b - 1 /\ n + d = q * b + (r + d)
    BY <1>1, <1>2, <1>3
  <2>2. QED
    BY <1>1, <1>3, <2>1, ModIs DEF r
<1>4. CASE ~(r + d < b)
  <2>1. r + d - b \in 0 .. b - 1 /\ n + d = (q + 1) * b + (r + d - b)
    BY <1>1, <1>2, <1>4
  <2>2. (n + d) % b = r + d - b
    BY <1>1, <1>2, <2>1, ModIs
  <2>3. QED
    BY <1>1, <1>4, <2>2 DEF r
<1>5. QED
  BY <1>3, <1>4

(* After n values a ring holds the last of them, each at its place. *)
RingOf(ring, size, f, n) ==
    /\ ring.head = n % size
    /\ ring.fill = IF n < size THEN n ELSE size
    /\ \A k \in 1 .. n : n - size < k => ring.buf[(k - 1) % size] = f[k]

LEMMA RingEmpty ==
    ASSUME NEW size \in Nat \ {0}, NEW zero, NEW f
    PROVE  RingOf(EmptyRing(size, zero), size, f, 0)
BY DEF RingOf, EmptyRing

LEMMA RingPush ==
    ASSUME NEW size \in Nat \ {0}, NEW n \in Nat, NEW T, NEW v, NEW f, NEW g,
           NEW ring, ring.buf \in [0 .. size - 1 -> T], RingOf(ring, size, f, n),
           \A k \in 1 .. n : g[k] = f[k], g[n + 1] = v
    PROVE  RingOf(Push(ring, size, v), size, g, n + 1)
<1> DEFINE new == Push(ring, size, v)
           r == n % size
<1>1. r \in 0 .. size - 1 /\ (n + 1) % size = IF r + 1 < size THEN r + 1 ELSE 0
  <2>1. 1 \in 0 .. size
    OBVIOUS
  <2>2. r \in 0 .. size - 1
        /\ (n + 1) % size = IF r + 1 < size THEN r + 1 ELSE r + 1 - size
    BY <2>1, ModTurn
  <2> HIDE DEF r
  <2>3. QED
    BY <2>2
<1>2. /\ new.buf = [ring.buf EXCEPT ![r] = v] /\ new.head = (r + 1) % size
      /\ new.fill = IF ring.fill < size THEN ring.fill + 1 ELSE size
  BY DEF Push, RingOf
<1> HIDE DEF new, r
<1>3. (r + 1) % size = (n + 1) % size
  <2>1. CASE r + 1 < size
    <3>1. r + 1 \in 0 .. size - 1
      BY <1>1, <2>1
    <3>2. (r + 1) % size = r + 1
      BY <3>1, ModSmall
    <3>3. QED
      BY <1>1, <2>1, <3>2
  <2>2. CASE ~(r + 1 < size)
    <3>1. r + 1 = size /\ size % size = 0
      BY <1>1, <2>2
    <3>2. QED
      BY <1>1, <2>2, <3>1
  <2>3. QED
    BY <2>1, <2>2
<1>4. new.fill = IF n + 1 < size THEN n + 1 ELSE size
  BY <1>2 DEF RingOf
<1>5. ASSUME NEW k \in 1 .. n + 1, n + 1 - size < k
      PROVE  new.buf[(k - 1) % size] = g[k]
  <2>1. CASE k = n + 1
    <3>1. (k - 1) % size = r
      BY <2>1 DEF r
    <3>2. QED
      BY <1>1, <1>2, <2>1, <3>1
  <2>2. CASE k # n + 1
    <3> DEFINE c == k - 1
               d == n - c
               x == c % size
    <3>1. c \in Nat /\ d \in 1 .. size - 1 /\ n = c + d /\ d \in 0 .. size
          /\ k \in 1 .. n /\ n - size < k
      BY <1>5, <2>2
    <3>2. x \in 0 .. size - 1 /\ (c + d) % size = IF x + d < size THEN x + d ELSE x + d - size
      <4> HIDE DEF c, d
      <4>1. QED
        BY <3>1, ModTurn
    <3>3. r = (c + d) % size
      BY <3>1 DEF r
    <3> HIDE DEF c, d, x
    <3>4. x # r
      BY <3>1, <3>2, <3>3
    <3>5. new.buf[x] = ring.buf[x]
      BY <1>1, <1>2, <3>2, <3>4
    <3>6. ring.buf[x] = f[k]
      BY <3>1 DEF RingOf, x, c
    <3>7. QED
      BY <3>1, <3>5, <3>6 DEF x, c
  <2>3. QED
    BY <2>1, <2>2
<1>6. QED
  BY <1>2, <1>3, <1>4, <1>5 DEF RingOf, new

(* The oldest sample of a window, without the maximum. *)
LEMMA FirstIs ==
    ASSUME NEW w \in Nat \ {0}, NEW k \in Nat \ {0}
    PROVE  First(w, k) = IF k < w THEN 1 ELSE k - w + 1
<1> DEFINE m == k - w + 1
           S == {1, m}
           x == IF k < w THEN 1 ELSE m
<1>1. m \in Int /\ x \in S /\ \A y \in S : x >= y
  OBVIOUS
<1>2. \A z \in S : (\A y \in S : z >= y) => z = x
  BY <1>1
<1>3. First(w, k) = CHOOSE z \in S : \A y \in S : z >= y
  BY DEF First, Max
<1> HIDE DEF S, m, x
<1>4. First(w, k) = x
  BY <1>1, <1>2, <1>3
<1>5. QED
  BY <1>4 DEF x, m

(* What the two ends of the packet-error ring are. *)
LEMMA RingEnds ==
    ASSUME NEW n \in Nat \ {0}, NEW f, NEW ring, RingOf(ring, PerrWindow, f, n)
    PROVE  Newest(ring) = f[n] /\ Oldest(ring) = f[First(PerrWindow, n)]
<1> DEFINE W == PerrWindow
           r == n % W
           p == (n - 1) % W
<1>0. W \in Nat \ {0, 1}
  BY WindowAssumption
<1>1. /\ p \in 0 .. W - 1 /\ r = IF p + 1 < W THEN p + 1 ELSE 0
  <2>1. n - 1 \in Nat /\ 1 \in 0 .. W /\ (n - 1) + 1 = n /\ W \in Nat \ {0}
    BY <1>0
  <2>2. p \in 0 .. W - 1 /\ ((n - 1) + 1) % W = IF p + 1 < W THEN p + 1 ELSE p + 1 - W
    BY <2>1, ModTurn
  <2>3. r = IF p + 1 < W THEN p + 1 ELSE p + 1 - W
    BY <2>1, <2>2
  <2> HIDE DEF p, r, W
  <2>4. QED
    BY <1>0, <2>2, <2>3
<1>2. (r + W - 1) % W = p
  <2> HIDE DEF p, r
  <2>1. CASE p + 1 < W
    <3>1. r + W - 1 = p + W /\ p \in Nat /\ W \in 0 .. W /\ W \in Nat \ {0}
      BY <1>0, <1>1, <2>1
    <3>2. /\ p % W \in 0 .. W - 1
          /\ (p + W) % W = IF (p % W) + W < W THEN (p % W) + W ELSE (p % W) + W - W
      BY <3>1, ModTurn
    <3>3. p % W = p
      BY <1>0, <1>1
    <3> HIDE DEF W
    <3>4. QED
      BY <1>0, <1>1, <3>1, <3>2, <3>3
  <2>2. CASE ~(p + 1 < W)
    <3>1. r = 0 /\ p = W - 1
      BY <1>0, <1>1, <2>2
    <3>2. QED
      BY <1>0, <3>1
  <2>3. QED
    BY <2>1, <2>2
<1>3. Newest(ring) = f[n]
  <2>1. Newest(ring) = ring.buf[p]
    BY <1>2 DEF Newest, RingOf
  <2>2. QED
    BY <1>0, <2>1 DEF RingOf
<1>4. Oldest(ring) = f[First(W, n)]
  <2>0. First(W, n) = IF n < W THEN 1 ELSE n - W + 1
    BY <1>0, FirstIs
  <2>1. CASE n < W
    <3>1. ring.fill < W /\ Oldest(ring) = ring.buf[0]
      BY <2>1 DEF Oldest, RingOf
    <3>2. (1 - 1) % W = 0 /\ 1 \in 1 .. n /\ n - W < 1
      BY <1>0, <2>1
    <3>3. QED
      BY <2>0, <2>1, <3>1, <3>2 DEF RingOf
  <2>2. CASE ~(n < W)
    <3> DEFINE k == n - W + 1
    <3>1. Oldest(ring) = ring.buf[r]
      BY <1>0, <2>2 DEF Oldest, RingOf
    <3>2. k \in 1 .. n /\ n - W < k /\ k - 1 \in Nat /\ (k - 1) + W = n
      BY <1>0, <2>2
    <3>3. (k - 1) % W = r
      <4> DEFINE c == k - 1
                 y == c % W
      <4>1. c \in Nat /\ c + W = n /\ W \in 0 .. W /\ W \in Nat \ {0}
        BY <1>0, <3>2
      <4> HIDE DEF c
      <4>2. y \in 0 .. W - 1 /\ (c + W) % W = IF y + W < W THEN y + W ELSE y + W - W
        BY <4>1, ModTurn
      <4>3. r = (c + W) % W
        BY <4>1
      <4> HIDE DEF y, r, W
      <4>4. y = r
        BY <1>0, <4>2, <4>3
      <4>5. QED
        BY <4>4 DEF y, c
    <3>4. QED
      BY <2>0, <2>2, <3>1, <3>2, <3>3 DEF RingOf
  <2>3. QED
    BY <2>1, <2>2
<1>5. QED
  BY <1>3, <1>4
-----------------------------------------------------------------------------
(* The history: samples, the counters they left behind and their totals.   *)
Counter == [frames : Nat, errs : Nat]

Total == [frames : Nat, errs : Nat, phy : Nat]

Entry(Rate) == [sample : Samples, back : BOOLEAN, ctr : Counter, rate : Rate,
                total : Total]

LEMMA ModRange ==
    ASSUME NEW a \in Int, NEW b \in Nat \ {0}
    PROVE  a % b \in 0 .. b - 1
OBVIOUS

LEMMA SampleFacts ==
    ASSUME NEW s \in Samples
    PROVE  /\ s.df \in Nat /\ s.de \in Nat /\ s.phy \in Nat /\ s.snr \in Int
           /\ s.restart \in BOOLEAN
BY CounterAssumption, SampleAssumption

(* No counter gains more than was sent, and one that did not go back gains *)
(* exactly that.                                                           *)
LEMMA AdvancedFacts ==
    ASSUME NEW c \in Counter, NEW s \in Samples
    PROVE  /\ Advanced(c, s) \in Counter
           /\ Advanced(c, s).frames <= c.frames + s.df
           /\ Advanced(c, s).errs <= c.errs + s.de
           /\ ~WentBack(c, s) => /\ Advanced(c, s).frames = c.frames + s.df
                                 /\ Advanced(c, s).errs = c.errs + s.de
<1>1. /\ c.frames \in Nat /\ c.errs \in Nat /\ s.df \in Nat /\ s.de \in Nat
      /\ Wrap \in Nat \ {0}
  BY SampleFacts, WidthAssumption DEF Counter
<1>2. \A m \in Nat : m % Wrap \in Nat /\ m % Wrap <= m /\ (m < Wrap => m % Wrap = m)
  <2> SUFFICES ASSUME NEW m \in Nat
               PROVE  m % Wrap \in Nat /\ m % Wrap <= m /\ (m < Wrap => m % Wrap = m)
    OBVIOUS
  <2> DEFINE w == Wrap
             q == m \div w
             r == m % w
  <2>1. w \in Nat \ {0} /\ q \in Nat /\ r \in 0 .. w - 1 /\ m = q * w + r
    BY <1>1, DivMod
  <2>2. m < w => r = m
    BY <1>1
  <2> HIDE DEF w, q, r
  <2>3. q * w \in Nat
    BY <2>1, ProductMonotone
  <2> DEFINE y == q * w
  <2>4. y \in Nat /\ m = y + r
    BY <2>1, <2>3
  <2> HIDE DEF y
  <2>5. r \in Nat /\ r <= m
    BY <2>1, <2>4
  <2>6. QED
    BY <2>2, <2>5 DEF r, w
<1> DEFINE f == (c.frames + s.df) % Wrap
           g == (c.errs + s.de) % Wrap
<1>3. /\ f \in Nat /\ f <= c.frames + s.df /\ (c.frames + s.df < Wrap => f = c.frames + s.df)
      /\ g \in Nat /\ g <= c.errs + s.de /\ (c.errs + s.de < Wrap => g = c.errs + s.de)
  <2>1. c.frames + s.df \in Nat /\ c.errs + s.de \in Nat
    BY <1>1
  <2>2. QED
    BY <1>2, <2>1, Zenon
<1> HIDE DEF f, g
<1>4. CASE s.restart
  <2>1. Advanced(c, s) = [frames |-> s.df, errs |-> s.de]
    BY <1>4 DEF Advanced
  <2>2. QED
    BY <1>1, <1>4, <2>1 DEF Counter, WentBack
<1>5. CASE ~s.restart
  <2>1. Advanced(c, s) = [frames |-> f, errs |-> g]
    BY <1>5 DEF Advanced, f, g
  <2>2. ~WentBack(c, s) => c.frames + s.df < Wrap /\ c.errs + s.de < Wrap
    BY <1>1 DEF WentBack
  <2>3. QED
    BY <1>1, <1>3, <2>1, <2>2 DEF Counter
<1>6. QED
  BY <1>4, <1>5

LEMMA AppendFacts ==
    ASSUME NEW S, NEW h \in Seq(S), NEW e \in S
    PROVE  /\ Append(h, e) \in Seq(S) /\ Len(Append(h, e)) = Len(h) + 1
           /\ Len(h) \in Nat /\ Append(h, e)[Len(h) + 1] = e
           /\ \A k \in 1 .. Len(h) : Append(h, e)[k] = h[k]
           /\ \A k \in 1 .. Len(h) : h[k] \in S
OBVIOUS

LEMMA TotalFacts ==
    ASSUME NEW Rate, NEW h \in Seq(Entry(Rate)), NEW s \in Samples
    PROVE  /\ TotalOf(h) \in Total /\ Added(TotalOf(h), s) \in Total
           /\ Added(TotalOf(h), s).frames = TotalOf(h).frames + s.df
           /\ Added(TotalOf(h), s).errs = TotalOf(h).errs + s.de
           /\ Added(TotalOf(h), s).phy = TotalOf(h).phy + s.phy
<1>1. TotalOf(h) \in Total
  <2>1. CASE h = <<>>
    BY <2>1 DEF TotalOf, NoTotal, Total
  <2>2. CASE h # <<>>
    <3>1. h[Len(h)] \in Entry(Rate)
      BY <2>2
    <3>2. QED
      BY <2>2, <3>1 DEF TotalOf, Entry
  <2>3. QED
    BY <2>1, <2>2
<1> DEFINE t == TotalOf(h)
<1>2. t.frames \in Nat /\ t.errs \in Nat /\ t.phy \in Nat
  BY <1>1 DEF Total
<1> HIDE DEF t
<1>3. Added(t, s) \in Total
  <2>1. s.df \in Nat /\ s.de \in Nat /\ s.phy \in Nat
    BY SampleFacts
  <2>2. \A a \in Nat, b \in Nat : a + b \in Nat
    OBVIOUS
  <2>3. t.frames + s.df \in Nat /\ t.errs + s.de \in Nat /\ t.phy + s.phy \in Nat
    BY <1>2, <2>1, <2>2, Zenon
  <2>4. QED
    BY <2>3, Zenon DEF Added, Total
<1>4. QED
  BY <1>1, <1>3 DEF Added, t

(* What was sent since the j-th sample. *)
SentF(h, j) == h[Len(h)].total.frames - h[j].total.frames
SentE(h, j) == h[Len(h)].total.errs - h[j].total.errs

WindowMax == PerrWindow - 1

(* A counter moves by no more than was sent, exactly by that if straight.  *)
Moved(new, old, sent, straight) ==
    sent \in Nat /\ new - old <= sent /\ (straight => new - old = sent)

LEMMA MovedOn ==
    ASSUME NEW old \in Nat, NEW mid \in Nat, NEW new \in Nat, NEW sent, NEW d \in Nat,
           NEW straight, NEW here, NEW all, all => straight /\ here,
           Moved(mid, old, sent, straight), new <= mid + d, here => new = mid + d
    PROVE  Moved(new, old, sent + d, all)
BY DEF Moved

(* How the counters moved since the j-th sample. *)
Straight(h, j) == \A k \in j + 1 .. Len(h) : ~h[k].back

GainsAt(h, j) ==
    /\ Moved(h[Len(h)].ctr.frames, h[j].ctr.frames, SentF(h, j), Straight(h, j))
    /\ Moved(h[Len(h)].ctr.errs, h[j].ctr.errs, SentE(h, j), Straight(h, j))
    /\ WindowMax * (SentF(h, j) + SentE(h, j)) <= (Len(h) - j) * (Wrap - 1)

Gains(h) == \A j \in 1 .. Len(h) : GainsAt(h, j)

Brings(e, h, c, s) ==
    /\ e.sample = s /\ e.back = WentBack(c, s) /\ e.ctr = Advanced(c, s)
    /\ e.total = Added(TotalOf(h), s)

(* What is added to a total is added to what was sent since. *)
LEMMA SentGrows ==
    ASSUME NEW total \in Nat, NEW then \in Nat, NEW d \in Nat
    PROVE  (total + d) - then = (total - then) + d
OBVIOUS

LEMMA GainsGrow ==
    ASSUME NEW Rate, NEW h \in Seq(Entry(Rate)), NEW e \in Entry(Rate),
           NEW c \in Counter, NEW s \in Samples, h # <<>> => c = h[Len(h)].ctr,
           Gains(h), Brings(e, h, c, s)
    PROVE  Gains(Append(h, e))
<1> DEFINE n == Len(h)
           g == Append(h, e)
<1>1. /\ n \in Nat /\ Len(g) = n + 1 /\ g[n + 1] = e
      /\ \A k \in 1 .. n : g[k] = h[k] /\ h[k] \in Entry(Rate)
  BY AppendFacts
<1>2. /\ s.df \in Nat /\ s.de \in Nat /\ Wrap \in Nat \ {0} /\ WindowMax \in Nat
      /\ WindowMax * (s.df + s.de) <= Wrap - 1 /\ WindowMax * (s.df + s.de) \in Nat
  <2>1. /\ s.df \in Nat /\ s.de \in Nat /\ Wrap \in Nat \ {0} /\ WindowMax \in Nat
    BY SampleFacts, WidthAssumption, WindowAssumption DEF WindowMax
  <2>2. WindowMax * (s.df + s.de) < Wrap
    BY CounterAssumption DEF WindowMax
  <2> DEFINE x == s.df + s.de
  <2>3. x \in Nat
    BY <2>1
  <2> HIDE DEF x
  <2>4. WindowMax * x \in Nat
    BY <2>1, <2>3, ProductMonotone
  <2> DEFINE y == WindowMax * x
  <2>5. y \in Nat /\ y < Wrap
    BY <2>2, <2>4 DEF x
  <2> HIDE DEF y
  <2>6. y <= Wrap - 1
    BY <2>1, <2>5
  <2>7. QED
    BY <2>1, <2>5, <2>6 DEF x, y
<1>3. /\ e.ctr \in Counter /\ e.ctr.frames <= c.frames + s.df /\ e.ctr.errs <= c.errs + s.de
      /\ ~e.back => e.ctr.frames = c.frames + s.df /\ e.ctr.errs = c.errs + s.de
  BY AdvancedFacts DEF Brings
<1>4. c.frames \in Nat /\ c.errs \in Nat /\ e.ctr.frames \in Nat /\ e.ctr.errs \in Nat
  BY <1>3 DEF Counter
<1>5. /\ e.total.frames = TotalOf(h).frames + s.df /\ e.total.errs = TotalOf(h).errs + s.de
      /\ e.total.frames \in Nat /\ e.total.errs \in Nat
      /\ TotalOf(h).frames \in Nat /\ TotalOf(h).errs \in Nat
  BY TotalFacts DEF Brings, Total
<1> HIDE DEF n, g
<1>6. SUFFICES ASSUME NEW j \in 1 .. n + 1 PROVE GainsAt(g, j)
  BY <1>1 DEF Gains, g
<1>7. CASE j = n + 1
  <2>1. SentF(g, j) = 0 /\ SentE(g, j) = 0
    BY <1>1, <1>5, <1>7 DEF SentF, SentE
  <2>2. WindowMax * (0 + 0) = 0 /\ Len(g) - j = 0 /\ 0 * (Wrap - 1) = 0
    BY <1>1, <1>2, <1>7
  <2>3. QED
    BY <1>1, <1>4, <1>7, <2>1, <2>2 DEF GainsAt, Moved
<1>8. CASE j # n + 1
  <2>1. j \in 1 .. n /\ n \in 1 .. n /\ h # <<>>
    BY <1>1, <1>8 DEF n
  <2>2. c = h[n].ctr /\ TotalOf(h) = h[n].total
    BY <2>1 DEF TotalOf, n
  <2>3. GainsAt(h, j) /\ g[j] = h[j] /\ h[j] \in Entry(Rate)
    BY <1>1, <2>1 DEF Gains, n
  <2>4. h[j].total.frames \in Nat /\ h[j].total.errs \in Nat /\ h[j].ctr.frames \in Nat
        /\ h[j].ctr.errs \in Nat
    BY <2>3 DEF Entry, Total, Counter
  <2> DEFINE f == SentF(h, j)
             q == SentE(h, j)
             straight == Straight(h, j)
             all == Straight(g, j)
  <2>5. /\ Moved(c.frames, h[j].ctr.frames, f, straight)
        /\ Moved(c.errs, h[j].ctr.errs, q, straight)
        /\ WindowMax * (f + q) <= (n - j) * (Wrap - 1)
    BY <2>2, <2>3 DEF GainsAt, n
  <2>6. f \in Nat /\ q \in Nat
    BY <2>5 DEF Moved
  <2>7. SentF(g, j) = f + s.df /\ SentE(g, j) = q + s.de
    <3>1. f = h[n].total.frames - h[j].total.frames /\ q = h[n].total.errs - h[j].total.errs
      BY DEF SentF, SentE, n
    <3>2. /\ SentF(g, j) = e.total.frames - h[j].total.frames
          /\ SentE(g, j) = e.total.errs - h[j].total.errs
      BY <1>1, <2>3 DEF SentF, SentE
    <3> DEFINE tf == TotalOf(h).frames
               te == TotalOf(h).errs
               hf == h[j].total.frames
               he == h[j].total.errs
    <3>3. /\ SentF(g, j) = (tf + s.df) - hf /\ SentE(g, j) = (te + s.de) - he
          /\ f = tf - hf /\ q = te - he
      BY <1>5, <2>2, <3>1, <3>2
    <3>4. tf \in Nat /\ te \in Nat /\ hf \in Nat /\ he \in Nat /\ s.df \in Nat /\ s.de \in Nat
      BY <1>2, <1>5, <2>4
    <3> HIDE DEF tf, te, hf, he, f, q
    <3>5. (tf + s.df) - hf = (tf - hf) + s.df
      BY <3>4, SentGrows
    <3>6. (te + s.de) - he = (te - he) + s.de
      BY <3>4, SentGrows
    <3>7. QED
      BY <3>3, <3>5, <3>6, Zenon
  <2>8. all => straight /\ ~e.back
    <3> SUFFICES ASSUME all PROVE straight /\ ~e.back
      OBVIOUS
    <3>0. \A k \in j + 1 .. n + 1 : ~g[k].back
      BY <1>1 DEF Straight
    <3>1. ~e.back
      <4>1. n + 1 \in j + 1 .. n + 1
        BY <1>1, <2>1
      <4>2. QED
        BY <1>1, <3>0, <4>1
    <3>2. straight
      <4> SUFFICES ASSUME NEW k \in j + 1 .. n PROVE ~h[k].back
        BY DEF Straight, n
      <4>1. k \in 1 .. n /\ k \in j + 1 .. n + 1
        BY <1>1, <2>1
      <4>2. QED
        BY <1>1, <3>0, <4>1
    <3>3. QED
      BY <3>1, <3>2
  <2> HIDE DEF f, q, straight, all
  <2>9. /\ Moved(e.ctr.frames, h[j].ctr.frames, f + s.df, all)
        /\ Moved(e.ctr.errs, h[j].ctr.errs, q + s.de, all)
    <3> DEFINE a0 == h[j].ctr.frames
               a1 == c.frames
               a2 == e.ctr.frames
               b0 == h[j].ctr.errs
               b1 == c.errs
               b2 == e.ctr.errs
               here == ~e.back
    <3>1. /\ a0 \in Nat /\ a1 \in Nat /\ a2 \in Nat /\ b0 \in Nat /\ b1 \in Nat /\ b2 \in Nat
          /\ Moved(a1, a0, f, straight) /\ Moved(b1, b0, q, straight)
          /\ a2 <= a1 + s.df /\ b2 <= b1 + s.de /\ (all => straight /\ here)
          /\ (here => a2 = a1 + s.df) /\ (here => b2 = b1 + s.de)
      BY <1>3, <1>4, <2>4, <2>5, <2>8
    <3> HIDE DEF a0, a1, a2, b0, b1, b2, here
    <3>2. Moved(a2, a0, f + s.df, all)
      BY <1>2, <3>1, MovedOn
    <3>3. Moved(b2, b0, q + s.de, all)
      BY <1>2, <3>1, MovedOn
    <3>4. QED
      BY <3>2, <3>3 DEF a0, a2, b0, b2
  <2>10. WindowMax * ((f + s.df) + (q + s.de)) <= (n + 1 - j) * (Wrap - 1)
    <3> DEFINE x == f + q
               y == s.df + s.de
               a == n - j
               b == Wrap - 1
    <3>1. x \in Nat /\ y \in Nat /\ a \in Nat /\ b \in Nat
      BY <1>1, <1>2, <2>1, <2>6
    <3>2. WindowMax * x <= a * b
      BY <2>5
    <3>3. WindowMax * y <= b /\ (f + s.df) + (q + s.de) = x + y /\ n + 1 - j = a + 1
      BY <1>1, <1>2, <2>1, <2>6
    <3> HIDE DEF x, y, a, b
    <3>4. WindowMax * (x + y) = WindowMax * x + WindowMax * y /\ (a + 1) * b = a * b + b
      BY <1>2, <3>1, Z3
    <3>5. WindowMax * x \in Nat /\ WindowMax * y \in Nat /\ a * b \in Nat
      BY <1>2, <3>1, ProductMonotone
    <3>6. WindowMax * (x + y) <= (a + 1) * b
      BY <3>1, <3>2, <3>3, <3>4, <3>5
    <3>7. QED
      BY <3>3, <3>6 DEF b
  <2>11. QED
    BY <1>1, <2>3, <2>7, <2>9, <2>10 DEF GainsAt, all
<1>9. QED
  BY <1>7, <1>8
-----------------------------------------------------------------------------
(* The loss rate. *)
LEMMA LossRange ==
    ASSUME NEW frames \in Nat, NEW errs \in Nat
    PROVE  Loss(frames, errs) \in 0 .. PerMille
<1> DEFINE t == frames + errs
           a == errs * PerMille
           q == a \div t
           r == a % t
<1>1. t \in Nat /\ errs <= t /\ PerMille \in Nat
  BY One
<1>2. CASE t = 0
  BY <1>1, <1>2 DEF Loss
<1>3. CASE t # 0
  <2>1. a \in Nat /\ t * PerMille \in Nat /\ a <= t * PerMille
    BY <1>1, ProductMonotone
  <2>2. Loss(frames, errs) = q
    BY <1>3 DEF Loss
  <2>3. q \in Nat /\ r \in 0 .. t - 1 /\ a = q * t + r
    <3> HIDE DEF a, t
    <3>1. QED
      BY <1>1, <1>3, <2>1, DivMod
  <2> HIDE DEF a, q, r, t
  <2>4. ~(PerMille + 1 <= q)
    <3> SUFFICES ASSUME PerMille + 1 <= q PROVE FALSE
      OBVIOUS
    <3>0. PerMille + 1 \in Nat
      BY <1>1
    <3> DEFINE p == PerMille + 1
               x == p * t
               y == q * t
               z == t * PerMille
    <3>1. x \in Nat /\ y \in Nat /\ x <= y
      <4> HIDE DEF p
      <4>1. p \in Nat /\ p <= q
        BY <3>0 DEF p
      <4>2. QED
        BY <1>1, <2>3, <4>1, ProductMonotone
    <3>2. x = z + t
      <4> DEFINE m == PerMille
      <4>1. m \in Nat
        BY <1>1
      <4> HIDE DEF m
      <4>2. (m + 1) * t = t * m + t
        BY <1>1, <4>1, Z3
      <4>3. QED
        BY <4>2 DEF m
    <3>3. a <= z /\ a = y + r /\ z \in Nat
      BY <2>1, <2>3
    <3> HIDE DEF x, y, z, p
    <3>4. QED
      BY <1>1, <1>3, <2>1, <2>3, <3>1, <3>2, <3>3
  <2> DEFINE m == PerMille
  <2>5. m \in Nat /\ ~(m + 1 <= q)
    BY <1>1, <2>4
  <2> HIDE DEF m
  <2>6. q \in 0 .. m
    BY <2>3, <2>5
  <2>7. QED
    BY <2>2, <2>6 DEF m
<1>4. QED
  BY <1>2, <1>3

(* The counters a history went through. *)
Ctrs(h) == [k \in 1 .. Len(h) |-> h[k].ctr]

LEMMA OldestPlace ==
    ASSUME NEW w \in Nat \ {0}, NEW n \in Nat \ {0}
    PROVE  First(w, n) \in 1 .. n /\ n - First(w, n) \in Nat /\ n - First(w, n) <= w - 1
BY FirstIs

(* The window's deltas are within a counter's width, and are what was sent *)
(* unless a counter went back.                                             *)
LEMMA DeltaFacts ==
    ASSUME NEW new \in Nat, NEW old \in Nat, NEW sent, NEW straight,
           Moved(new, old, sent, straight)
    PROVE  /\ Delta(new, old) \in Nat /\ Delta(new, old) <= sent /\ sent \in Nat
           /\ straight => Delta(new, old) = sent
BY DEF Delta, Moved

LEMMA WithinWidth ==
    ASSUME NEW x \in Nat, NEW m \in Nat \ {0}, NEW d \in Nat, d <= m, NEW b \in Nat,
           m * x <= d * b
    PROVE  x <= b
<1>1. d * b \in Nat /\ m * b \in Nat /\ d * b <= m * b
  BY ProductMonotone
<1>2. m * x \in Nat
  BY ProductMonotone
<1>3. SUFFICES ASSUME b + 1 <= x PROVE FALSE
  OBVIOUS
<1>4. (b + 1) * m <= x * m /\ (b + 1) \in Nat /\ (b + 1) * m \in Nat /\ x * m \in Nat
  BY <1>3, ProductMonotone
<1>5. (b + 1) * m = m * b + m /\ x * m = m * x
  BY Z3
<1>6. QED
  BY <1>1, <1>2, <1>4, <1>5

LEMMA RateOf ==
    ASSUME NEW Rate, NEW h \in Seq(Entry(Rate)), h # <<>>, Gains(h),
           NEW ring, RingOf(ring, PerrWindow, Ctrs(h), Len(h)),
           NEW j, j = First(PerrWindow, Len(h))
    PROVE  /\ PerrRate(ring) \in 0 .. PerMille
           /\ Straight(h, j) => PerrRate(ring) = Loss(SentF(h, j), SentE(h, j))
<1> DEFINE n == Len(h)
           W == PerrWindow
           nf == h[n].ctr.frames
           ne == h[n].ctr.errs
           of == h[j].ctr.frames
           oe == h[j].ctr.errs
           sf == SentF(h, j)
           se == SentE(h, j)
           df == Delta(nf, of)
           de == Delta(ne, oe)
           straight == Straight(h, j)
<1>1. n \in Nat \ {0} /\ W \in Nat \ {0, 1} /\ \A k \in 1 .. n : h[k] \in Entry(Rate)
  BY WindowAssumption
<1>2. j \in 1 .. n /\ n - j \in Nat /\ n - j <= W - 1 /\ n \in 1 .. n
  <2>1. W \in Nat \ {0}
    BY <1>1
  <2> HIDE DEF W, n
  <2>2. QED
    BY <1>1, <2>1, OldestPlace DEF W, n
<1>3. Newest(ring) = h[n].ctr /\ Oldest(ring) = h[j].ctr
  <2>1. Newest(ring) = Ctrs(h)[n] /\ Oldest(ring) = Ctrs(h)[j]
    BY <1>1, RingEnds
  <2>2. QED
    BY <1>2, <2>1 DEF Ctrs
<1>4. nf \in Nat /\ ne \in Nat /\ of \in Nat /\ oe \in Nat
  <2>1. h[n] \in Entry(Rate) /\ h[j] \in Entry(Rate)
    BY <1>1, <1>2
  <2>2. QED
    BY <2>1 DEF Entry, Counter
<1>5. GainsAt(h, j)
  BY <1>2 DEF Gains
<1>6. /\ Moved(nf, of, sf, straight) /\ Moved(ne, oe, se, straight)
      /\ WindowMax * (sf + se) <= (n - j) * (Wrap - 1)
  BY <1>5 DEF GainsAt
<1>7. /\ df \in Nat /\ df <= sf /\ sf \in Nat /\ (straight => df = sf)
      /\ de \in Nat /\ de <= se /\ se \in Nat /\ (straight => de = se)
  <2> HIDE DEF nf, ne, of, oe, sf, se, straight
  <2>1. QED
    BY <1>4, <1>6, DeltaFacts
<1>8. PerrRate(ring) = IF ring.fill < 2 THEN 0 ELSE LossRate(df, de)
  BY <1>3 DEF PerrRate
<1>9. df + de < Wrap
  <2> DEFINE x == sf + se
             b == Wrap - 1
             m == WindowMax
             d == n - j
  <2>1. x \in Nat /\ b \in Nat /\ m \in Nat \ {0} /\ d \in Nat /\ d <= m /\ m * x <= d * b
    <3>1. b \in Nat /\ m \in Nat \ {0} /\ d \in Nat /\ d <= m
      BY <1>1, <1>2, WidthAssumption DEF WindowMax
    <3>2. m * x <= d * b
      BY <1>6
    <3>3. x \in Nat
      <4> HIDE DEF sf, se
      <4>1. QED
        BY <1>7
    <3>4. QED
      BY <3>1, <3>2, <3>3
  <2> HIDE DEF x, b, m, d
  <2>2. x <= b
    BY <2>1, WithinWidth
  <2> HIDE DEF sf, se, df, de
  <2>3. QED
    BY <1>7, <2>1, <2>2, WidthAssumption DEF x, b
<1>10. LossRate(df, de) = Loss(df, de) /\ Loss(df, de) \in 0 .. PerMille
  <2> HIDE DEF df, de
  <2>1. QED
    BY <1>7, <1>9, LossUnwrapped, LossRange
<1>11. CASE ring.fill < 2
  <2>1. n = 1 /\ j = 1
    <3>1. n < 2
      BY <1>1, <1>11 DEF RingOf
    <3>2. n = 1
      <4>1. n \in Nat \ {0}
        BY <1>1
      <4> HIDE DEF n
      <4>2. QED
        BY <3>1, <4>1
    <3>3. QED
      BY <1>2, <3>2
  <2>2. sf = 0 /\ se = 0
    <3>1. h[n] \in Entry(Rate)
      BY <1>1, <1>2
    <3>2. h[n].total.frames \in Nat /\ h[n].total.errs \in Nat
      BY <3>1 DEF Entry, Total
    <3>3. QED
      BY <2>1, <3>2 DEF SentF, SentE
  <2>3. Loss(0, 0) = 0
    BY DEF Loss
  <2>4. 0 \in 0 .. PerMille
    BY One
  <2>5. QED
    BY <1>8, <1>11, <2>2, <2>3, <2>4
<1>12. CASE ~(ring.fill < 2)
  BY <1>7, <1>8, <1>10, <1>12
<1>13. QED
  BY <1>11, <1>12
-----------------------------------------------------------------------------
(* The mean of the PHY window. *)
PhyUpTo(h, k) == IF k = 0 THEN 0 ELSE h[k].total.phy

Phys(h) == [k \in 1 .. Len(h) |-> h[k].sample.phy]

PhyChain(h) == \A k \in 1 .. Len(h) : h[k].total.phy = PhyUpTo(h, k - 1) + h[k].sample.phy

PhyOf(ring, h) ==
    /\ ring.buf \in [0 .. PhyWindow - 1 -> Nat]
    /\ RingOf(ring, PhyWindow, Phys(h), Len(h))
    /\ SumFirst(ring.buf, ring.fill) = PhyUpTo(h, Len(h)) - PhyUpTo(h, Len(h) - ring.fill)

LEMMA PhyUpToKept ==
    ASSUME NEW Rate, NEW h \in Seq(Entry(Rate)), NEW e \in Entry(Rate), NEW k \in 0 .. Len(h)
    PROVE  PhyUpTo(Append(h, e), k) = PhyUpTo(h, k) /\ PhyUpTo(h, k) \in Nat
<1>1. CASE k = 0
  BY <1>1 DEF PhyUpTo
<1>2. CASE k # 0
  <2>1. k \in 1 .. Len(h)
    BY <1>2
  <2>2. Append(h, e)[k] = h[k] /\ h[k] \in Entry(Rate)
    BY <2>1, AppendFacts
  <2>3. h[k].total.phy \in Nat
    BY <2>2 DEF Entry, Total
  <2>4. QED
    BY <1>2, <2>2, <2>3 DEF PhyUpTo
<1>3. QED
  BY <1>1, <1>2

LEMMA PhyUpToLast ==
    ASSUME NEW Rate, NEW h \in Seq(Entry(Rate)), NEW e \in Entry(Rate),
           NEW c, NEW s \in Samples, Brings(e, h, c, s)
    PROVE  PhyUpTo(Append(h, e), Len(h) + 1) = PhyUpTo(h, Len(h)) + s.phy
<1>1. PhyUpTo(Append(h, e), Len(h) + 1) = e.total.phy
  <2>1. Len(h) \in Nat /\ Append(h, e)[Len(h) + 1] = e
    BY AppendFacts
  <2>2. Len(h) + 1 # 0
    BY <2>1
  <2>3. QED
    BY <2>1, <2>2 DEF PhyUpTo
<1>2. e.total.phy = TotalOf(h).phy + s.phy
  BY TotalFacts DEF Brings
<1>3. TotalOf(h).phy = PhyUpTo(h, Len(h))
  <2>1. CASE h = <<>>
    BY <2>1 DEF TotalOf, NoTotal, PhyUpTo
  <2>2. CASE h # <<>>
    <3>1. Len(h) # 0
      BY <2>2
    <3>2. QED
      BY <2>2, <3>1 DEF TotalOf, PhyUpTo
  <2>3. QED
    BY <2>1, <2>2
<1>4. QED
  BY <1>1, <1>2, <1>3

LEMMA PhyChainGrow ==
    ASSUME NEW Rate, NEW h \in Seq(Entry(Rate)), NEW e \in Entry(Rate),
           NEW c, NEW s \in Samples, Brings(e, h, c, s), PhyChain(h)
    PROVE  PhyChain(Append(h, e))
<1> DEFINE n == Len(h)
           g == Append(h, e)
<1>1. /\ n \in Nat /\ Len(g) = n + 1 /\ g[n + 1] = e
      /\ \A k \in 1 .. n : g[k] = h[k]
  BY AppendFacts
<1>2. \A k \in 0 .. n : PhyUpTo(g, k) = PhyUpTo(h, k)
  BY PhyUpToKept
<1>3. PhyUpTo(g, n + 1) = PhyUpTo(h, n) + s.phy
  BY PhyUpToLast
<1> HIDE DEF n, g
<1>4. SUFFICES ASSUME NEW k \in 1 .. n + 1
               PROVE  g[k].total.phy = PhyUpTo(g, k - 1) + g[k].sample.phy
  BY <1>1 DEF PhyChain, g
<1>5. CASE k = n + 1
  <2>1. k - 1 = n /\ n \in 0 .. n /\ k # 0
    BY <1>1, <1>5
  <2>2. g[k].total.phy = PhyUpTo(g, n + 1) /\ g[k].sample = s
    BY <1>1, <1>5, <2>1 DEF PhyUpTo, Brings
  <2>3. QED
    BY <1>2, <1>3, <2>1, <2>2
<1>6. CASE k # n + 1
  <2>1. k \in 1 .. n /\ k - 1 \in 0 .. n
    BY <1>1, <1>6
  <2>2. h[k].total.phy = PhyUpTo(h, k - 1) + h[k].sample.phy
    BY <2>1 DEF PhyChain, n
  <2>3. QED
    BY <1>1, <1>2, <2>1, <2>2
<1>7. QED
  BY <1>5, <1>6

(* A whole turn back is the same place. *)
LEMMA WholeTurn ==
    ASSUME NEW w \in Nat \ {0}, NEW n \in Nat, w <= n
    PROVE  n - w \in Nat /\ (n - w) % w = n % w /\ n % w \in 0 .. w - 1
<1> DEFINE c == n - w
           y == c % w
           r == n % w
<1>1. c \in Nat /\ c + w = n /\ w \in 0 .. w
  OBVIOUS
<1> HIDE DEF c
<1>2. y \in 0 .. w - 1 /\ (c + w) % w = IF y + w < w THEN y + w ELSE y + w - w
  BY <1>1, ModTurn
<1>3. r = (c + w) % w /\ r \in 0 .. w - 1
  BY <1>1
<1> HIDE DEF y, r
<1>4. y = r
  BY <1>2, <1>3
<1>5. QED
  BY <1>1, <1>3, <1>4 DEF y, c, r

LEMMA PhyOfGrow ==
    ASSUME NEW Rate, NEW h \in Seq(Entry(Rate)), NEW e \in Entry(Rate),
           NEW c, NEW s \in Samples, Brings(e, h, c, s), PhyChain(h),
           NEW ring, PhyOf(ring, h)
    PROVE  PhyOf(Push(ring, PhyWindow, s.phy), Append(h, e))
<1> DEFINE n == Len(h)
           g == Append(h, e)
           N == PhyWindow
           v == s.phy
           f == ring.buf
           p == n % N
           f2 == [f EXCEPT ![p] = v]
           new == Push(ring, N, v)
           T(k) == PhyUpTo(h, k)
           T2(k) == PhyUpTo(g, k)
<1>1. /\ n \in Nat /\ Len(g) = n + 1 /\ g[n + 1] = e
      /\ \A k \in 1 .. n : g[k] = h[k]
  BY AppendFacts
<1>2. \A k \in 0 .. n : T2(k) = T(k) /\ T(k) \in Nat
  BY PhyUpToKept
<1>3. T2(n + 1) = T(n) + v
  BY PhyUpToLast
<1>4. /\ N \in Nat \ {0} /\ v \in Nat /\ f \in [0 .. N - 1 -> Nat]
      /\ RingOf(ring, N, Phys(h), n) /\ SumFirst(f, ring.fill) = T(n) - T(n - ring.fill)
  BY SampleFacts, WindowAssumption DEF PhyOf
<1>5. RingOf(new, N, Phys(g), n + 1)
  <2>1. \A k \in 1 .. n : Phys(g)[k] = Phys(h)[k]
    <3> SUFFICES ASSUME NEW k \in 1 .. n PROVE Phys(g)[k] = Phys(h)[k]
      OBVIOUS
    <3>1. k \in 1 .. Len(g) /\ g[k] = h[k]
      BY <1>1
    <3> HIDE DEF g
    <3>2. QED
      BY <3>1 DEF Phys
  <2>2. Phys(g)[n + 1] = v
    <3>1. n + 1 \in 1 .. Len(g)
      BY <1>1
    <3> HIDE DEF g
    <3>2. QED
      BY <1>1, <3>1 DEF Phys, Brings
  <2> HIDE DEF n, g, N, v, f
  <2>3. QED
    BY <1>1, <1>4, <2>1, <2>2, RingPush DEF f
<1>6. /\ p \in 0 .. N - 1 /\ ring.head = p /\ ring.fill = (IF n < N THEN n ELSE N)
  <2>1. p \in 0 .. N - 1
    <3> HIDE DEF N, n
    <3>1. QED
      BY <1>1, <1>4, ModRange
  <2>2. QED
    BY <1>4, <2>1 DEF RingOf
<1>7. new.buf = f2 /\ new.fill = (IF n + 1 < N THEN n + 1 ELSE N)
  BY <1>5, <1>6 DEF RingOf, Push
<1>8. f2 \in [0 .. N - 1 -> Nat] /\ f \in [0 .. N - 1 -> Int] /\ f[p] \in Nat
  BY <1>4, <1>6
<1> HIDE DEF n, g, N, v, f, p, T, T2, new
<1>9. \A m \in 0 .. N : SumFirst(f2, m) = SumFirst(f, m) + (IF p < m THEN v - f[p] ELSE 0)
  <2>1. v \in Int /\ N \in Nat
    BY <1>4
  <2> SUFFICES ASSUME NEW m \in 0 .. N
               PROVE  SumFirst(f2, m) = SumFirst(f, m) + (IF p < m THEN v - f[p] ELSE 0)
    OBVIOUS
  <2>2. f \in [0 .. N - 1 -> Int] /\ p \in 0 .. N - 1
    BY <1>6, <1>8
  <2>3. QED
    BY <2>1, <2>2, SumReplaced, Zenon
<1>10. /\ \A m \in 0 .. N : SumFirst(f, m) \in Int
       /\ \A m \in 0 .. N - 1 : SumFirst(f, m + 1) = SumFirst(f, m) + f[m]
  <2>1. N \in Nat
    BY <1>4
  <2>2. QED
    BY <1>8, <2>1, SumSteps
<1> HIDE DEF f2
<1>11. SumFirst(f2, new.fill) = T2(n + 1) - T2((n + 1) - new.fill)
  <2>1. CASE n < N
    <3>1. p = n
      <4>0. n \in Nat /\ N \in Nat \ {0}
        BY <1>1, <1>4
      <4>1. n % N = n
        BY <2>1, <4>0
      <4>2. QED
        BY <4>1 DEF p
    <3>2. new.fill = n + 1 /\ ring.fill = n /\ n + 1 \in 0 .. N /\ n \in 0 .. N - 1
          /\ n \in 0 .. N /\ p < n + 1 /\ n - n = 0 /\ (n + 1) - (n + 1) = 0
          /\ 0 \in 0 .. n /\ n \in 0 .. n
      BY <1>1, <1>4, <1>6, <1>7, <2>1, <3>1
    <3> DEFINE x == SumFirst(f, n)
               y == f[p]
    <3>3. SumFirst(f2, n + 1) = (x + y) + (v - y) /\ x = T(n) - T(0)
      BY <1>4, <1>9, <1>10, <3>1, <3>2
    <3>4. x \in Int /\ y \in Nat
      BY <1>8, <1>10, <3>2
    <3>5. T2(0) = T(0) /\ T(0) \in Nat /\ T(n) \in Nat
      BY <1>2, <3>2
    <3> DEFINE a == T(n)
               b == T(0)
    <3>6. a \in Nat /\ b \in Nat /\ x = a - b /\ T2(n + 1) = a + v /\ T2(0) = b
      BY <1>3, <3>3, <3>5
    <3> HIDE DEF x, y, a, b
    <3>7. (x + y) + (v - y) = (a + v) - b
      BY <1>4, <3>4, <3>6
    <3>8. QED
      BY <3>2, <3>3, <3>6, <3>7
  <2>2. CASE ~(n < N)
    <3> DEFINE k == n - N + 1
    <3>1. k \in 1 .. n /\ k \in 0 .. n /\ n - N < k /\ k - 1 = n - N /\ k - 1 \in 0 .. n
          /\ (n + 1) - N = k /\ n \in 0 .. n /\ N \in 0 .. N
      BY <1>1, <1>4, <2>2
    <3>2. (k - 1) % N = p
      <4>1. N <= n
        BY <1>1, <1>4, <2>2
      <4>2. QED
        BY <1>1, <1>4, <3>1, <4>1, WholeTurn DEF p
    <3>3. new.fill = N /\ ring.fill = N /\ p < N
      BY <1>1, <1>4, <1>6, <1>7, <2>2
    <3> HIDE DEF k
    <3>4. f[p] = h[k].sample.phy
      <4>1. f[p] = Phys(h)[k]
        BY <1>4, <3>1, <3>2 DEF RingOf, f
      <4>2. QED
        BY <3>1, <4>1 DEF Phys, n
    <3>5. T(k) = T(k - 1) + f[p]
      <4>1. h[k].total.phy = PhyUpTo(h, k - 1) + h[k].sample.phy
        BY <3>1 DEF PhyChain, n
      <4>2. PhyUpTo(h, k) = h[k].total.phy
        BY <3>1 DEF PhyUpTo
      <4>3. QED
        BY <3>4, <4>1, <4>2 DEF T
    <3> DEFINE x == SumFirst(f, N)
               y == f[p]
               a == T(n)
               b == T(k - 1)
    <3>6. SumFirst(f2, N) = x + (v - y) /\ x = a - b
      BY <1>4, <1>9, <3>1, <3>3
    <3>7. /\ T2(n + 1) = a + v /\ T2(k) = b + y /\ a \in Nat /\ b \in Nat /\ y \in Nat
      BY <1>2, <1>3, <1>8, <3>1, <3>5
    <3> HIDE DEF x, y, a, b
    <3>8. (a - b) + (v - y) = (a + v) - (b + y)
      BY <1>4, <3>7
    <3>9. QED
      BY <3>1, <3>3, <3>6, <3>7, <3>8
  <2>3. QED
    BY <2>1, <2>2
<1>12. /\ new.buf \in [0 .. PhyWindow - 1 -> Nat] /\ RingOf(new, PhyWindow, Phys(g), Len(g))
       /\ SumFirst(new.buf, new.fill) = PhyUpTo(g, Len(g)) - PhyUpTo(g, Len(g) - new.fill)
  <2>1. new.buf = f2 /\ Len(g) = n + 1
    BY <1>1, <1>7
  <2>2. new.buf \in [0 .. PhyWindow - 1 -> Nat]
    BY <1>8, <2>1 DEF N
  <2>3. RingOf(new, PhyWindow, Phys(g), Len(g))
    BY <1>5, <2>1 DEF N
  <2>4. SumFirst(new.buf, new.fill) = PhyUpTo(g, Len(g)) - PhyUpTo(g, Len(g) - new.fill)
    BY <1>11, <2>1, Zenon DEF T2
  <2>5. QED
    BY <2>2, <2>3, <2>4
<1>13. PhyOf(new, g)
  BY <1>12 DEF PhyOf
<1>14. QED
  BY <1>13 DEF new, g, N, v

(* The mean at every sample of a history is a number, and stays what it is. *)
LEMMA MeanFacts ==
    ASSUME NEW Rate, NEW h \in Seq(Entry(Rate)), NEW e \in Entry(Rate), NEW k \in 1 .. Len(h)
    PROVE  MeanAt(h, k) \in Int /\ MeanAt(Append(h, e), k) = MeanAt(h, k)
<1> DEFINE g == Append(h, e)
           old == First(PhyWindow, k)
           before == IF old = 1 THEN 0 ELSE h[old - 1].total.phy
           beforeG == IF old = 1 THEN 0 ELSE g[old - 1].total.phy
           d == k - old + 1
<1>1. k \in Nat \ {0} /\ PhyWindow \in Nat \ {0} /\ Len(h) \in Nat
  BY WindowAssumption
<1>2. old \in 1 .. k /\ k - old \in Nat
  BY <1>1, OldestPlace
<1> HIDE DEF old
<1>3. d \in Nat \ {0}
  BY <1>1, <1>2
<1>4. g[k] = h[k] /\ h[k].total.phy \in Nat
  <2>1. g[k] = h[k] /\ h[k] \in Entry(Rate)
    BY AppendFacts
  <2>2. QED
    BY <2>1 DEF Entry, Total
<1>5. beforeG = before /\ before \in Nat
  <2>1. CASE old = 1
    BY <2>1
  <2>2. CASE old # 1
    <3>1. old - 1 \in 1 .. Len(h)
      BY <1>1, <1>2, <2>2
    <3>2. g[old - 1] = h[old - 1] /\ h[old - 1] \in Entry(Rate)
      BY <3>1, AppendFacts
    <3>3. h[old - 1].total.phy \in Nat
      BY <3>2 DEF Entry, Total
    <3>4. QED
      BY <2>2, <3>2, <3>3
  <2>3. QED
    BY <2>1, <2>2
<1>6. /\ MeanAt(h, k) = (h[k].total.phy - before) \div d
      /\ MeanAt(g, k) = (g[k].total.phy - beforeG) \div d
  BY DEF MeanAt, old
<1> DEFINE t == h[k].total.phy
<1> HIDE DEF before, beforeG, d, t, g
<1>7. (t - before) \div d \in Int
  <2>1. t - before \in Int
    BY <1>4, <1>5 DEF t
  <2>2. QED
    BY <1>3, <2>1
<1>8. QED
  BY <1>4, <1>5, <1>6, <1>7 DEF t, g

LEMMA MeanOf ==
    ASSUME NEW Rate, NEW h \in Seq(Entry(Rate)), h # <<>>, NEW ring, PhyOf(ring, h)
    PROVE  PhyMean(ring) = MeanAt(h, Len(h))
<1> DEFINE n == Len(h)
           N == PhyWindow
           old == First(N, n)
           before == IF old = 1 THEN 0 ELSE h[old - 1].total.phy
<1>1. n \in Nat \ {0} /\ N \in Nat \ {0}
  BY WindowAssumption
<1>2. old = IF n < N THEN 1 ELSE n - N + 1
  <2> HIDE DEF N, n
  <2>1. QED
    BY <1>1, FirstIs
<1>3. /\ SumFirst(ring.buf, ring.fill) = PhyUpTo(h, n) - PhyUpTo(h, n - ring.fill)
      /\ ring.fill = IF n < N THEN n ELSE N
  BY DEF PhyOf, RingOf
<1> DEFINE fill == ring.fill
<1>4. n - old + 1 = fill /\ n - fill = old - 1 /\ (old = 1 <=> old - 1 = 0)
  <2>1. fill = IF n < N THEN n ELSE N
    BY <1>3
  <2> HIDE DEF fill, n, N, old
  <2>2. QED
    BY <1>1, <1>2, <2>1
<1> HIDE DEF old
<1>5. PhyUpTo(h, n) = h[n].total.phy
  BY <1>1 DEF PhyUpTo
<1>6. PhyUpTo(h, n - fill) = before
  <2>1. PhyUpTo(h, old - 1) = before
    BY <1>4, Zenon DEF PhyUpTo
  <2>2. QED
    BY <1>4, <2>1
<1>7. MeanAt(h, n) = (h[n].total.phy - before) \div (n - old + 1)
  BY DEF MeanAt, old
<1> HIDE DEF before, n
<1>8. QED
  BY <1>3, <1>4, <1>5, <1>6, <1>7, Zenon DEF PhyMean, n
-----------------------------------------------------------------------------
(* The bands. *)
LEMMA MinIs ==
    ASSUME NEW S \in SUBSET Int, NEW x \in S, \A y \in S : x <= y
    PROVE  Min(S) = x
<1>1. \A z \in S : (\A y \in S : z <= y) => z = x
  OBVIOUS
<1>2. QED
  BY <1>1 DEF Min

LEMMA MaxIs ==
    ASSUME NEW S \in SUBSET Int, NEW x \in S, \A y \in S : x >= y
    PROVE  Max(S) = x
<1>1. \A z \in S : (\A y \in S : z >= y) => z = x
  OBVIOUS
<1>2. QED
  BY <1>1 DEF Max

Covers(b, seen) ==
    /\ seen \in SUBSET Int /\ b.lo \in seen /\ b.hi \in seen
    /\ \A y \in seen : b.lo <= y /\ b.hi >= y
    /\ b = [lo |-> b.lo, hi |-> b.hi, primed |-> TRUE]

BandOf(b, f, n) == IF n = 0 THEN b = NoBand ELSE Covers(b, {f[k] : k \in 1 .. n})

LEMMA CoversIs ==
    ASSUME NEW b, NEW seen, Covers(b, seen)
    PROVE  b = [lo |-> Min(seen), hi |-> Max(seen), primed |-> TRUE]
<1>1. Min(seen) = b.lo
  BY MinIs DEF Covers
<1>2. Max(seen) = b.hi
  BY MaxIs DEF Covers
<1>3. QED
  BY <1>1, <1>2 DEF Covers

LEMMA PairEnds ==
    ASSUME NEW a \in Int, NEW v \in Int
    PROVE  /\ Min({a, v}) = IF a <= v THEN a ELSE v
           /\ Max({a, v}) = IF a >= v THEN a ELSE v
<1> DEFINE S == {a, v}
           lo == IF a <= v THEN a ELSE v
           hi == IF a >= v THEN a ELSE v
<1>1. S \in SUBSET Int /\ lo \in S /\ hi \in S /\ \A y \in S : lo <= y /\ hi >= y
  OBVIOUS
<1> HIDE DEF S, lo, hi
<1>2. Min(S) = lo /\ Max(S) = hi
  BY <1>1, MinIs, MaxIs
<1>3. QED
  BY <1>2 DEF S, lo, hi

LEMMA BandGrow ==
    ASSUME NEW b, NEW f, NEW g, NEW n \in Nat, NEW v \in Int, BandOf(b, f, n),
           \A k \in 1 .. n : g[k] = f[k], g[n + 1] = v
    PROVE  /\ BandOf(BandWiden(b, v), g, n + 1)
           /\ Covers(BandWiden(b, v), {g[k] : k \in 1 .. n + 1})
<1> DEFINE old == {f[k] : k \in 1 .. n}
           seen == {g[k] : k \in 1 .. n + 1}
           w == BandWiden(b, v)
<1>1. SUFFICES Covers(w, seen)
  BY DEF BandOf
<1>2. v \in seen /\ \A y \in seen : y \in old \/ y = v
  OBVIOUS
<1>3. \A y \in old : y \in seen
  OBVIOUS
<1>4. CASE n = 0
  <2>1. old = {}
    BY <1>4
  <2>2. w = [lo |-> v, hi |-> v, primed |-> TRUE]
    BY <1>4 DEF BandOf, BandWiden, NoBand
  <2> HIDE DEF old, seen, w
  <2>3. QED
    BY <1>2, <2>1, <2>2 DEF Covers
<1>5. CASE n # 0
  <2>1. Covers(b, old)
    BY <1>5 DEF BandOf
  <2> DEFINE lo == b.lo
             hi == b.hi
  <2>2. /\ old \in SUBSET Int /\ lo \in old /\ hi \in old
        /\ \A y \in old : lo <= y /\ hi >= y
        /\ b = [lo |-> lo, hi |-> hi, primed |-> TRUE]
    BY <2>1 DEF Covers
  <2> DEFINE lo2 == IF lo <= v THEN lo ELSE v
             hi2 == IF hi >= v THEN hi ELSE v
  <2>3. w = [lo |-> lo2, hi |-> hi2, primed |-> TRUE]
    <3>1. Min({lo, v}) = lo2 /\ Max({hi, v}) = hi2
      BY <2>2, PairEnds
    <3> HIDE DEF lo2, hi2
    <3>2. b.primed = TRUE
      BY <2>2
    <3>3. w = [b EXCEPT !.lo = Min({lo, v}), !.hi = Max({hi, v})]
      BY <3>2 DEF BandWiden
    <3> HIDE DEF lo, hi, w
    <3>4. QED
      BY <2>2, <3>1, <3>3
  <2> HIDE DEF old, seen, w, lo, hi
  <2>4. lo \in Int /\ hi \in Int
    BY <2>2
  <2>5. lo2 \in seen /\ hi2 \in seen
    BY <1>2, <1>3, <2>2
  <2>6. \A y \in seen : y \in Int /\ lo2 <= y /\ hi2 >= y
    BY <1>2, <2>2, <2>4
  <2> HIDE DEF lo2, hi2
  <2>7. QED
    BY <2>3, <2>5, <2>6 DEF Covers
<1>6. QED
  BY <1>4, <1>5
-----------------------------------------------------------------------------
(* The blame. *)
LEMMA DivInt ==
    ASSUME NEW a \in Int, NEW d \in Nat \ {0}
    PROVE  /\ a \div d \in Int /\ a % d \in 0 .. d - 1
           /\ a = (a \div d) * d + (a % d)
BY Z3

(* A quotient at and around the ends of the scale. *)
LEMMA UnitFacts ==
    ASSUME NEW x \in Int, NEW d \in Nat \ {0}
    PROVE  /\ (x * 1000) \div d \in Int
           /\ x >= d <=> (x * 1000) \div d >= 1000
           /\ x <= 0 => (x * 1000) \div d <= 0
           /\ x >= 1 /\ d <= 1000 => (x * 1000) \div d >= 1
<1> DEFINE a == x * 1000
           q == a \div d
           r == a % d
<1>1. q \in Int /\ r \in 0 .. d - 1 /\ a = q * d + r
  <2>1. a \in Int
    OBVIOUS
  <2> HIDE DEF a
  <2>2. QED
    BY <2>1, DivInt
<1> HIDE DEF q, r
<1>2. x * 1000 = q * d + r /\ r \in Int /\ 0 <= r /\ r < d
  BY <1>1
<1>3. x >= d => q >= 1000
  BY <1>1, <1>2, Z3
<1>4. q >= 1000 => x >= d
  BY <1>1, <1>2, Z3
<1>5. x <= 0 => q <= 0
  BY <1>1, <1>2, Z3
<1>6. x >= 1 /\ d <= 1000 => q >= 1
  BY <1>1, <1>2, Z3
<1>7. QED
  BY <1>1, <1>3, <1>4, <1>5, <1>6 DEF q

(* A normalised value is full exactly at the top of a band with a span,    *)
(* and nothing at the bottom; in a band of the loss rate, only there.      *)
Placed(norm, v, lo, hi) ==
    /\ norm \in Int /\ 0 <= norm /\ norm <= 1000
    /\ lo < hi /\ v >= hi => norm = 1000
    /\ norm = 1000 => lo < hi /\ v >= hi
    /\ v <= lo => norm = 0
    /\ norm = 0 /\ lo <= v /\ v <= hi /\ hi - lo <= 1000 => v = lo

LEMMA NormalizeFacts ==
    ASSUME NEW v \in Int, NEW lo \in Int, NEW hi \in Int,
           NEW norm, norm = Normalize(v, lo, hi)
    PROVE  Placed(norm, v, lo, hi)
<1> USE DEF Placed
<1> DEFINE d == hi - lo
           x == v - lo
           unit == (x * 1000) \div d
<1>1. d \in Int /\ x \in Int /\ (lo < hi <=> d > 0) /\ (v >= hi <=> x >= d)
      /\ (v <= lo <=> x <= 0) /\ (v = lo <=> x = 0)
  OBVIOUS
<1>2. norm = IF d <= 0 THEN 0 ELSE IF unit < 0 THEN 0 ELSE IF unit > 1000 THEN 1000 ELSE unit
  BY Scales DEF Normalize
<1>3. CASE d <= 0
  BY <1>1, <1>2, <1>3
<1>4. CASE d > 0
  <2>1. /\ unit \in Int /\ (x >= d <=> unit >= 1000) /\ (x <= 0 => unit <= 0)
        /\ (x >= 1 /\ d <= 1000 => unit >= 1)
    <3> HIDE DEF x, d
    <3>1. d \in Nat \ {0}
      BY <1>1, <1>4
    <3>2. QED
      BY <1>1, <3>1, UnitFacts
  <2> HIDE DEF unit
  <2>2. /\ norm \in Int /\ 0 <= norm /\ norm <= 1000 /\ (x >= d => norm = 1000)
        /\ (norm = 1000 => x >= d) /\ (x <= 0 => norm = 0)
        /\ (norm = 0 /\ d <= 1000 => x <= 0)
    <3> HIDE DEF x, d
    <3>1. QED
      BY <1>1, <1>2, <1>4, <2>1
  <2>3. QED
    BY <1>1, <1>4, <2>2
<1>5. QED
  BY <1>1, <1>3, <1>4

(* The worst metric exists, and so does the first of the worst. *)
LEMMA AttributeFacts ==
    ASSUME NEW bad, bad[1] \in Int, bad[2] \in Int, bad[3] \in Int, bad[4] \in Int
    PROVE  /\ Attribute(bad) \in 1 .. 4
           /\ \A k \in 1 .. 4 : bad[k] <= bad[Attribute(bad)]
           /\ \A k \in 1 .. Attribute(bad) - 1 : bad[k] < bad[Attribute(bad)]
<1> DEFINE Worst(m) == /\ \A k \in 1 .. 4 : bad[k] <= bad[m]
                       /\ \A k \in 1 .. m - 1 : bad[k] < bad[m]
<1>1. \E m \in 1 .. 4 : Worst(m)
  <2>1. /\ 1 .. 4 = {1, 2, 3, 4} /\ 1 .. 0 = {} /\ 1 .. 1 = {1} /\ 1 .. 2 = {1, 2}
        /\ 1 .. 3 = {1, 2, 3} /\ 1 - 1 = 0 /\ 2 - 1 = 1 /\ 3 - 1 = 2 /\ 4 - 1 = 3
    OBVIOUS
  <2> DEFINE a == bad[1]
             b == bad[2]
             c == bad[3]
             d == bad[4]
  <2>2. /\ Worst(1) <=> b <= a /\ c <= a /\ d <= a /\ a <= a
        /\ Worst(2) <=> a < b /\ c <= b /\ d <= b /\ b <= b /\ a <= b
        /\ Worst(3) <=> a < c /\ b < c /\ d <= c /\ a <= c /\ b <= c /\ c <= c
        /\ Worst(4) <=> a < d /\ b < d /\ c < d /\ a <= d /\ b <= d /\ c <= d /\ d <= d
    BY <2>1, Zenon
  <2>3. a \in Int /\ b \in Int /\ c \in Int /\ d \in Int
    OBVIOUS
  <2> HIDE DEF a, b, c, d, Worst
  <2>4. Worst(1) \/ Worst(2) \/ Worst(3) \/ Worst(4)
    BY <2>2, <2>3
  <2>5. 1 \in 1 .. 4 /\ 2 \in 1 .. 4 /\ 3 \in 1 .. 4 /\ 4 \in 1 .. 4
    OBVIOUS
  <2>6. QED
    BY <2>4, <2>5, Zenon
<1>2. Attribute(bad) = CHOOSE m \in 1 .. 4 : Worst(m)
  BY DEF Attribute
<1> HIDE DEF Worst
<1>3. Attribute(bad) \in 1 .. 4 /\ Worst(Attribute(bad))
  BY <1>1, <1>2, Zenon
<1>4. QED
  BY <1>3 DEF Worst

Deserved(m, bands, s, rate) ==
    /\ m = 1 => \/ s.snr < bands[1].hi
                \/ bands[1].lo = bands[1].hi
                \/ s.util = 0 /\ s.phy >= bands[2].hi /\ rate = bands[3].lo
    /\ m = 2 => s.phy < bands[2].hi \/ bands[2].lo = bands[2].hi
    /\ m = 3 => rate > bands[3].lo
    /\ m = 4 => s.util > 0

Spanned(bands, rate) ==
    /\ \A k \in 1 .. 3 : bands[k].lo \in Int /\ bands[k].hi \in Int
    /\ bands[3].lo <= rate /\ rate <= bands[3].hi /\ bands[3].hi - bands[3].lo <= 1000
    /\ bands[1].lo <= bands[1].hi /\ bands[2].lo <= bands[2].hi

LEMMA BlameFacts ==
    ASSUME NEW bands, NEW s \in Samples, NEW rate \in Int, Spanned(bands, rate),
           NEW m, m = Attribute(Badness(bands, s, rate))
    PROVE  Deserved(m, bands, s, rate)
<1> USE DEF Deserved, Spanned
<1> DEFINE lo1 == bands[1].lo
           hi1 == bands[1].hi
           lo2 == bands[2].lo
           hi2 == bands[2].hi
           lo3 == bands[3].lo
           hi3 == bands[3].hi
           n1 == Normalize(s.snr, lo1, hi1)
           n2 == Normalize(s.phy, lo2, hi2)
           n3 == Normalize(rate, lo3, hi3)
           u == (s.util * 1000) \div 100
           bad == Badness(bands, s, rate)
<1>1. /\ s.snr \in Int /\ s.phy \in Int /\ s.util \in Int /\ 0 <= s.util /\ s.util <= 100
      /\ lo1 \in Int /\ hi1 \in Int /\ lo2 \in Int /\ hi2 \in Int /\ lo3 \in Int /\ hi3 \in Int
  BY SampleFacts, SampleAssumption, WeightAssumption
<1>2. bad = <<1000 - n1, 1000 - n2, n3, u>>
  BY Scales DEF Badness
<1>3. u \in Int /\ (u <= 0 => s.util = 0) /\ (u > 0 => s.util > 0)
  BY <1>1
<1> DEFINE snr == s.snr
           rate2 == s.phy
<1>0. snr \in Int /\ rate2 \in Int /\ n1 = Normalize(snr, lo1, hi1) /\ n2 = Normalize(rate2, lo2, hi2)
      /\ n3 = Normalize(rate, lo3, hi3)
  BY <1>1
<1> HIDE DEF lo1, lo2, lo3, hi1, hi2, hi3, u, snr, rate2, n1, n2, n3
<1>4. /\ n1 \in Int /\ 0 <= n1 /\ n1 <= 1000 /\ (lo1 < hi1 /\ snr >= hi1 => n1 = 1000)
  <2>1. Placed(n1, snr, lo1, hi1)
    BY <1>0, <1>1, NormalizeFacts
  <2>2. QED
    BY <2>1 DEF Placed
<1>5. /\ n2 \in Int /\ 0 <= n2 /\ n2 <= 1000 /\ (lo2 < hi2 /\ rate2 >= hi2 => n2 = 1000)
      /\ (n2 = 1000 => rate2 >= hi2)
  <2>1. Placed(n2, rate2, lo2, hi2)
    BY <1>0, <1>1, NormalizeFacts
  <2>2. QED
    BY <2>1 DEF Placed
<1>6. /\ n3 \in Int /\ 0 <= n3 /\ (rate <= lo3 => n3 = 0)
      /\ (n3 = 0 /\ lo3 <= rate /\ rate <= hi3 /\ hi3 - lo3 <= 1000 => rate = lo3)
  <2>1. Placed(n3, rate, lo3, hi3)
    BY <1>0, <1>1, NormalizeFacts
  <2>2. QED
    BY <2>1 DEF Placed
<1>7. /\ lo3 <= rate /\ rate <= hi3 /\ hi3 - lo3 <= 1000 /\ lo1 <= hi1 /\ lo2 <= hi2
  BY DEF lo1, lo2, lo3, hi1, hi2, hi3
<1> HIDE DEF bad
<1>8. bad[1] = 1000 - n1 /\ bad[2] = 1000 - n2 /\ bad[3] = n3 /\ bad[4] = u
  BY <1>2
<1>9. bad[1] \in Int /\ bad[2] \in Int /\ bad[3] \in Int /\ bad[4] \in Int
  BY <1>3, <1>4, <1>5, <1>6, <1>8
<1>10. /\ m \in 1 .. 4 /\ \A k \in 1 .. 4 : bad[k] <= bad[m]
       /\ \A k \in 1 .. m - 1 : bad[k] < bad[m]
  BY <1>9, AttributeFacts DEF bad
<1>11. m = 1 => \/ s.snr < hi1 \/ lo1 = hi1
                \/ s.util = 0 /\ s.phy >= hi2 /\ rate = lo3
  <2> SUFFICES ASSUME m = 1, ~(s.snr < hi1), lo1 # hi1
               PROVE  s.util = 0 /\ s.phy >= hi2 /\ rate = lo3
    OBVIOUS
  <2>1. n1 = 1000
    BY <1>1, <1>4, <1>7 DEF snr
  <2>2. bad[2] <= bad[1] /\ bad[3] <= bad[1] /\ bad[4] <= bad[1]
    BY <1>10
  <2>3. 1000 - n2 <= 0 /\ n3 <= 0 /\ u <= 0
    BY <1>8, <2>1, <2>2
  <2>4. n2 = 1000 /\ n3 = 0
    BY <1>5, <1>6, <2>3
  <2>5. QED
    BY <1>3, <1>5, <1>6, <1>7, <2>3, <2>4 DEF rate2
<1>12. m = 2 => s.phy < hi2 \/ lo2 = hi2
  <2> SUFFICES ASSUME m = 2, ~(s.phy < hi2), lo2 # hi2 PROVE FALSE
    OBVIOUS
  <2>1. n2 = 1000
    BY <1>1, <1>5, <1>7 DEF rate2
  <2>2. bad[1] < bad[2]
    BY <1>10
  <2>3. QED
    BY <1>4, <1>8, <2>1, <2>2
<1>13. m = 3 => rate > lo3
  <2> SUFFICES ASSUME m = 3, ~(rate > lo3) PROVE FALSE
    OBVIOUS
  <2>1. n3 = 0
    BY <1>1, <1>6
  <2>2. bad[1] < bad[3]
    BY <1>10
  <2>3. QED
    BY <1>4, <1>8, <2>1, <2>2
<1>14. m = 4 => s.util > 0
  <2> SUFFICES ASSUME m = 4 PROVE s.util > 0
    OBVIOUS
  <2>1. bad[1] < bad[4]
    BY <1>10
  <2>2. QED
    BY <1>3, <1>4, <1>8, <2>1
<1>15. QED
  BY <1>11, <1>12, <1>13, <1>14 DEF lo1, lo2, lo3, hi1, hi2, hi3
-----------------------------------------------------------------------------
(* The invariant: the counters stand where the last sample left them, the  *)
(* rings hold the last of the history, the bands all of it.                *)
Snrs(h) == [k \in 1 .. Len(h) |-> h[k].sample.snr]
Means(h) == [k \in 1 .. Len(h) |-> MeanAt(h, k)]
Rates(h) == [k \in 1 .. Len(h) |-> h[k].rate]

CounterInv ==
    /\ ctr \in Counter /\ hist \in Seq(Entry(0 .. PerMille))
    /\ hist # <<>> => ctr = hist[Len(hist)].ctr

WindowInv ==
    /\ perr.buf \in [0 .. PerrWindow - 1 -> Counter]
    /\ RingOf(perr, PerrWindow, Ctrs(hist), Len(hist))
    /\ Gains(hist)

MeanInv == PhyChain(hist) /\ PhyOf(phy, hist)

BandsOver(b, h) ==
    /\ BandOf(b[1], Snrs(h), Len(h))
    /\ BandOf(b[2], Means(h), Len(h))
    /\ BandOf(b[3], Rates(h), Len(h))

BandInv == BandsOver(band, hist)

ResultInv == out.pkt_err_pct \in 0 .. 100 /\ BlamedMetricIsLow

ScoreInv == CounterInv /\ WindowInv /\ MeanInv /\ BandInv /\ ResultInv

(* Nothing remembered: a fresh admission. *)
Fresh ==
    /\ ctr \in StartCounts
    /\ perr = EmptyRing(PerrWindow, NoCount) /\ phy = EmptyRing(PhyWindow, 0)
    /\ band = NoBands /\ out = NoResult /\ hist = <<>>

LEMMA FreshInv == Fresh => ScoreInv
<1> SUFFICES ASSUME Fresh PROVE ScoreInv
  OBVIOUS
<1>1. /\ hist = <<>> /\ Len(hist) = 0 /\ PerrWindow \in Nat \ {0} /\ PhyWindow \in Nat \ {0}
  BY WindowAssumption DEF Fresh
<1>2. CounterInv
  <2>1. ctr \in Counter
    BY SampleAssumption, WidthAssumption DEF Fresh, Counter
  <2>2. QED
    BY <1>1, <2>1 DEF CounterInv
<1>3. WindowInv
  <2>1. RingOf(perr, PerrWindow, Ctrs(hist), 0)
    BY <1>1, RingEmpty DEF Fresh
  <2>2. perr.buf = [k \in 0 .. PerrWindow - 1 |-> NoCount]
    BY DEF Fresh, EmptyRing
  <2>3. NoCount \in Counter
    BY DEF NoCount, Counter
  <2>4. Gains(hist)
    BY <1>1 DEF Gains
  <2>5. QED
    BY <1>1, <2>1, <2>2, <2>3, <2>4 DEF WindowInv
<1>4. MeanInv
  <2>1. RingOf(phy, PhyWindow, Phys(hist), 0)
    BY <1>1, RingEmpty DEF Fresh
  <2>2. phy.buf = [k \in 0 .. PhyWindow - 1 |-> 0] /\ phy.fill = 0
    BY DEF Fresh, EmptyRing
  <2>3. phy.buf \in [0 .. PhyWindow - 1 -> Nat] /\ phy.buf \in [0 .. PhyWindow - 1 -> Int]
    BY <2>2
  <2>4. SumFirst(phy.buf, 0) = 0
    <3>1. PhyWindow \in Nat
      BY <1>1
    <3>2. QED
      BY <2>3, <3>1, SumSteps
  <2>5. PhyUpTo(hist, 0) = 0
    BY DEF PhyUpTo
  <2>6. PhyChain(hist)
    BY <1>1 DEF PhyChain
  <2>7. PhyOf(phy, hist)
    BY <1>1, <2>1, <2>2, <2>3, <2>4, <2>5 DEF PhyOf
  <2>8. QED
    BY <2>6, <2>7 DEF MeanInv
<1>5. BandInv
  BY <1>1 DEF BandInv, BandsOver, BandOf, Fresh, NoBands
<1>6. ResultInv
  BY <1>1 DEF ResultInv, BlamedMetricIsLow, Fresh, NoResult
<1>7. QED
  BY <1>2, <1>3, <1>4, <1>5, <1>6 DEF ScoreInv

LEMMA SeqWider ==
    ASSUME NEW A, NEW B, A \subseteq B, NEW h \in Seq(A)
    PROVE  h \in Seq(B)
OBVIOUS

(* What a sample does to the counters and to the packet-error window. *)
LEMMA SampleWindow ==
    ASSUME CounterInv, WindowInv, NEW s \in Samples, NEW sustained, ScoreClient(s, sustained)
    PROVE  /\ CounterInv' /\ WindowInv' /\ PerrRate(perr') \in 0 .. PerMille
           /\ \E e \in Entry(0 .. PerMille) :
                  /\ hist' = Append(hist, e) /\ Brings(e, hist, ctr, s)
                  /\ e.rate = PerrRate(perr')
<1> DEFINE rate == PerrRate(perr')
           R == 0 .. PerMille
           Wide == R \cup {rate}
           total == Added(TotalOf(hist), s)
           e == [sample |-> s, back |-> WentBack(ctr, s), ctr |-> ctr',
                 rate |-> rate, total |-> total]
           n == Len(hist)
<1>1. /\ ctr' = Advanced(ctr, s) /\ perr' = Push(perr, PerrWindow, ctr')
      /\ hist' = Append(hist, e)
  BY DEF ScoreClient
<1>2. ctr \in Counter /\ hist \in Seq(Entry(R)) /\ (hist # <<>> => ctr = hist[n].ctr)
  BY DEF CounterInv
<1>3. ctr' \in Counter
  BY <1>1, <1>2, AdvancedFacts
<1>4. WentBack(ctr, s) \in BOOLEAN
  BY SampleFacts DEF WentBack
<1>5. total \in Total
  <2> HIDE DEF R
  <2>1. QED
    BY <1>2, TotalFacts
<1> HIDE DEF rate, total, R
<1>6. e \in Entry(Wide)
  <2>1. rate \in Wide
    OBVIOUS
  <2> HIDE DEF Wide
  <2>2. QED
    BY <1>3, <1>4, <1>5, <2>1, Zenon DEF Entry
<1>7. hist \in Seq(Entry(Wide))
  <2>1. Entry(R) \subseteq Entry(Wide)
    <3>1. R \subseteq Wide
      OBVIOUS
    <3> HIDE DEF Wide
    <3>2. QED
      BY <3>1 DEF Entry
  <2> HIDE DEF Wide
  <2>2. QED
    BY <1>2, <2>1, SeqWider
<1>8. Brings(e, hist, ctr, s)
  BY <1>1 DEF Brings, total
<1> HIDE DEF e, Wide
<1>9. Gains(hist')
  BY <1>1, <1>2, <1>6, <1>7, <1>8, GainsGrow DEF n, WindowInv
<1>10. /\ n \in Nat /\ Len(hist') = n + 1 /\ hist'[n + 1] = e
       /\ \A k \in 1 .. n : hist'[k] = hist[k]
  BY <1>1, <1>6, <1>7, AppendFacts DEF n
<1>11. e.ctr = ctr' /\ e.rate = rate
  BY DEF e
<1>12. RingOf(perr', PerrWindow, Ctrs(hist'), Len(hist'))
  <2>1. \A k \in 1 .. n : Ctrs(hist')[k] = Ctrs(hist)[k]
    <3> SUFFICES ASSUME NEW k \in 1 .. n PROVE Ctrs(hist')[k] = Ctrs(hist)[k]
      OBVIOUS
    <3>1. k \in 1 .. Len(hist')
      BY <1>10
    <3>2. QED
      BY <1>10, <3>1 DEF Ctrs, n
  <2>2. Ctrs(hist')[n + 1] = ctr'
    <3>1. n + 1 \in 1 .. Len(hist')
      BY <1>10
    <3>2. QED
      BY <1>10, <1>11, <3>1 DEF Ctrs
  <2>3. /\ PerrWindow \in Nat \ {0} /\ perr.buf \in [0 .. PerrWindow - 1 -> Counter]
        /\ RingOf(perr, PerrWindow, Ctrs(hist), n)
    BY WindowAssumption DEF WindowInv, n
  <2>4. RingOf(Push(perr, PerrWindow, ctr'), PerrWindow, Ctrs(hist'), n + 1)
    BY <1>10, <2>1, <2>2, <2>3, RingPush
  <2>5. QED
    BY <1>1, <1>10, <2>4
<1>13. perr'.buf \in [0 .. PerrWindow - 1 -> Counter]
  <2>1. perr.buf \in [0 .. PerrWindow - 1 -> Counter]
    BY DEF WindowInv
  <2>2. perr'.buf = [perr.buf EXCEPT ![perr.head] = ctr']
    BY <1>1 DEF Push
  <2>3. QED
    BY <1>3, <2>1, <2>2
<1>14. rate \in R
  <2>1. hist' \in Seq(Entry(Wide)) /\ hist' # <<>>
    <3>1. hist' \in Seq(Entry(Wide))
      BY <1>1, <1>6, <1>7, AppendFacts
    <3>2. QED
      BY <1>10, <3>1
  <2>2. QED
    BY <1>9, <1>12, <2>1, RateOf DEF rate, R
<1>15. e \in Entry(R)
  BY <1>3, <1>4, <1>5, <1>14, Zenon DEF Entry, e
<1>16. hist' \in Seq(Entry(R))
  BY <1>1, <1>2, <1>15, AppendFacts
<1>17. CounterInv'
  <2>1. hist'[Len(hist')].ctr = ctr'
    BY <1>10, <1>11
  <2>2. QED
    BY <1>3, <1>16, <2>1 DEF CounterInv, R
<1>18. WindowInv'
  BY <1>9, <1>12, <1>13 DEF WindowInv
<1>19. QED
  BY <1>1, <1>8, <1>11, <1>14, <1>15, <1>17, <1>18 DEF rate, R

LEMMA SampleMeans ==
    ASSUME CounterInv, MeanInv, NEW s \in Samples, NEW sustained, ScoreClient(s, sustained),
           NEW e \in Entry(0 .. PerMille), hist' = Append(hist, e), Brings(e, hist, ctr, s)
    PROVE  /\ MeanInv' /\ PhyMean(phy') = MeanAt(hist', Len(hist) + 1)
           /\ PhyMean(phy') \in Int
<1> DEFINE R == 0 .. PerMille
           n == Len(hist)
<1>1. hist \in Seq(Entry(R)) /\ e \in Entry(R) /\ phy' = Push(phy, PhyWindow, s.phy)
  BY DEF CounterInv, ScoreClient
<1> HIDE DEF R
<1>2. PhyChain(hist') /\ PhyOf(phy', hist')
  BY <1>1, PhyChainGrow, PhyOfGrow DEF MeanInv
<1>3. n \in Nat /\ Len(hist') = n + 1 /\ hist' \in Seq(Entry(R))
  BY <1>1, AppendFacts DEF n
<1>4. hist' # <<>> /\ n + 1 \in 1 .. Len(hist')
  <2> HIDE DEF n
  <2>1. QED
    BY <1>3
<1>5. PhyMean(phy') = MeanAt(hist', Len(hist'))
  BY <1>2, <1>3, <1>4, MeanOf
<1>6. MeanAt(hist', n + 1) \in Int
  BY <1>1, <1>3, <1>4, MeanFacts
<1>7. QED
  BY <1>2, <1>3, <1>5, <1>6 DEF MeanInv

(* What the three bands are after a sample. *)
LEMMA SampleBands ==
    ASSUME CounterInv, BandInv, NEW s \in Samples, NEW sustained, ScoreClient(s, sustained),
           NEW e \in Entry(0 .. PerMille), hist' = Append(hist, e), Brings(e, hist, ctr, s),
           e.rate = PerrRate(perr'), PhyMean(phy') = MeanAt(hist', Len(hist) + 1),
           PhyMean(phy') \in Int
    PROVE  BandInv'
<1> DEFINE R == 0 .. PerMille
           n == Len(hist)
<1>1. /\ hist \in Seq(Entry(R)) /\ e \in Entry(R) /\ n \in Nat /\ Len(hist') = n + 1
      /\ hist'[n + 1] = e /\ \A k \in 1 .. n : hist'[k] = hist[k]
  BY AppendFacts DEF CounterInv
<1>2. e.sample = s /\ s.snr \in Int /\ e.rate \in Int
  <2>1. e.rate \in 0 .. PerMille
    BY DEF Entry
  <2>2. e.rate \in Int
    BY <2>1, One
  <2>3. QED
    BY <2>2, SampleFacts DEF Brings
<1>3. /\ band'[1] = BandWiden(band[1], s.snr)
      /\ band'[2] = BandWiden(band[2], PhyMean(phy'))
      /\ band'[3] = BandWiden(band[3], e.rate)
  <2> DEFINE value == <<s.snr, PhyMean(phy'), PerrRate(perr')>>
  <2>1. band' = [k \in 1 .. 3 |-> BandWiden(band[k], value[k])]
    BY DEF ScoreClient
  <2>2. value[1] = s.snr /\ value[2] = PhyMean(phy') /\ value[3] = e.rate
    OBVIOUS
  <2> HIDE DEF value
  <2>3. 1 \in 1 .. 3 /\ 2 \in 1 .. 3 /\ 3 \in 1 .. 3
    OBVIOUS
  <2>4. QED
    BY <2>1, <2>2, <2>3, Zenon
<1> HIDE DEF R
<1>4. BandOf(band'[1], Snrs(hist'), n + 1)
  <2>1. \A k \in 1 .. n : Snrs(hist')[k] = Snrs(hist)[k]
    <3> SUFFICES ASSUME NEW k \in 1 .. n PROVE Snrs(hist')[k] = Snrs(hist)[k]
      OBVIOUS
    <3>1. k \in 1 .. Len(hist')
      BY <1>1
    <3>2. QED
      BY <1>1, <3>1 DEF Snrs
  <2>2. Snrs(hist')[n + 1] = s.snr
    <3>1. n + 1 \in 1 .. Len(hist')
      BY <1>1
    <3>2. QED
      BY <1>1, <1>2, <3>1 DEF Snrs
  <2>3. BandOf(band[1], Snrs(hist), n)
    BY DEF BandInv, BandsOver
  <2> DEFINE v == s.snr
  <2>4. n \in Nat /\ v \in Int /\ Snrs(hist')[n + 1] = v
    BY <1>1, <1>2, <2>2
  <2> HIDE DEF n, v
  <2>5. BandOf(BandWiden(band[1], v), Snrs(hist'), n + 1)
    BY <2>1, <2>3, <2>4, BandGrow
  <2>6. QED
    BY <1>3, <2>5 DEF v
<1>5. BandOf(band'[2], Means(hist'), n + 1)
  <2>1. \A k \in 1 .. n : Means(hist')[k] = Means(hist)[k]
    <3> SUFFICES ASSUME NEW k \in 1 .. n PROVE Means(hist')[k] = Means(hist)[k]
      OBVIOUS
    <3>1. k \in 1 .. Len(hist') /\ k \in 1 .. Len(hist)
      BY <1>1
    <3>2. MeanAt(hist', k) = MeanAt(hist, k)
      BY <1>1, <3>1, MeanFacts
    <3>3. QED
      BY <3>1, <3>2 DEF Means
  <2>2. Means(hist')[n + 1] = PhyMean(phy')
    <3>1. n + 1 \in 1 .. Len(hist')
      BY <1>1
    <3>2. QED
      BY <3>1 DEF Means
  <2>3. BandOf(band[2], Means(hist), n)
    BY DEF BandInv, BandsOver
  <2> DEFINE v == PhyMean(phy')
  <2>4. n \in Nat /\ v \in Int /\ Means(hist')[n + 1] = v
    BY <1>1, <1>2, <2>2
  <2> HIDE DEF n, v
  <2>5. BandOf(BandWiden(band[2], v), Means(hist'), n + 1)
    BY <2>1, <2>3, <2>4, BandGrow
  <2>6. QED
    BY <1>3, <2>5 DEF v
<1>6. BandOf(band'[3], Rates(hist'), n + 1)
  <2>1. \A k \in 1 .. n : Rates(hist')[k] = Rates(hist)[k]
    <3> SUFFICES ASSUME NEW k \in 1 .. n PROVE Rates(hist')[k] = Rates(hist)[k]
      OBVIOUS
    <3>1. k \in 1 .. Len(hist')
      BY <1>1
    <3>2. QED
      BY <1>1, <3>1 DEF Rates
  <2>2. Rates(hist')[n + 1] = e.rate
    <3>1. n + 1 \in 1 .. Len(hist')
      BY <1>1
    <3>2. QED
      BY <1>1, <3>1 DEF Rates
  <2>3. BandOf(band[3], Rates(hist), n)
    BY DEF BandInv, BandsOver
  <2> DEFINE v == e.rate
  <2>4. n \in Nat /\ v \in Int /\ Rates(hist')[n + 1] = v
    BY <1>1, <1>2, <2>2
  <2> HIDE DEF n, v
  <2>5. BandOf(BandWiden(band[3], v), Rates(hist'), n + 1)
    BY <2>1, <2>3, <2>4, BandGrow
  <2>6. QED
    BY <1>3, <2>5 DEF v
<1>7. QED
  BY <1>1, <1>4, <1>5, <1>6 DEF BandInv, BandsOver

(* What the bands say of a history that is not empty. *)
LEMMA BandsCover ==
    ASSUME NEW h \in Seq(Entry(0 .. PerMille)), h # <<>>, NEW b, BandsOver(b, h)
    PROVE  /\ Len(h) \in 1 .. Len(h) /\ h[Len(h)] \in Entry(0 .. PerMille)
           /\ Covers(b[1], {h[k].sample.snr : k \in 1 .. Len(h)})
           /\ Covers(b[2], {MeanAt(h, k) : k \in 1 .. Len(h)})
           /\ Covers(b[3], {h[k].rate : k \in 1 .. Len(h)})
<1> DEFINE n == Len(h)
<1>1. n \in Nat \ {0} /\ n \in 1 .. n /\ h[n] \in Entry(0 .. PerMille)
  OBVIOUS
<1>2. /\ Covers(b[1], {Snrs(h)[k] : k \in 1 .. n})
      /\ Covers(b[2], {Means(h)[k] : k \in 1 .. n})
      /\ Covers(b[3], {Rates(h)[k] : k \in 1 .. n})
  BY <1>1 DEF BandsOver, BandOf
<1>3. /\ {Snrs(h)[k] : k \in 1 .. n} = {h[k].sample.snr : k \in 1 .. n}
      /\ {Means(h)[k] : k \in 1 .. n} = {MeanAt(h, k) : k \in 1 .. n}
      /\ {Rates(h)[k] : k \in 1 .. n} = {h[k].rate : k \in 1 .. n}
  BY DEF Snrs, Means, Rates
<1>4. QED
  BY <1>1, <1>2, <1>3

(* The blame of the newest sample. *)
LEMMA BlameHolds ==
    ASSUME NEW h \in Seq(Entry(0 .. PerMille)), h # <<>>, NEW b, BandsOver(b, h),
           NEW s \in Samples, NEW rate, h[Len(h)].sample = s, h[Len(h)].rate = rate,
           NEW m, m = 0 \/ m = Attribute(Badness(b, s, rate))
    PROVE  Deserved(m, b, s, rate)
<1> DEFINE n == Len(h)
           seen1 == {h[k].sample.snr : k \in 1 .. n}
           seen2 == {MeanAt(h, k) : k \in 1 .. n}
           seen3 == {h[k].rate : k \in 1 .. n}
<1>1. /\ n \in 1 .. n /\ h[n] \in Entry(0 .. PerMille)
      /\ Covers(b[1], seen1) /\ Covers(b[2], seen2) /\ Covers(b[3], seen3)
  BY BandsCover
<1>2. rate \in seen3 /\ \A y \in seen3 : y \in 0 .. PerMille
  <2>1. \A k \in 1 .. n : h[k] \in Entry(0 .. PerMille)
    OBVIOUS
  <2>2. \A k \in 1 .. n : h[k].rate \in 0 .. PerMille
    BY <2>1 DEF Entry
  <2>3. QED
    BY <1>1, <2>2
<1> HIDE DEF seen1, seen2, seen3, n
<1>3. /\ b[1].lo \in Int /\ b[1].hi \in Int /\ b[1].lo <= b[1].hi
      /\ b[2].lo \in Int /\ b[2].hi \in Int /\ b[2].lo <= b[2].hi
  BY <1>1 DEF Covers
<1>4. /\ b[3].lo \in Int /\ b[3].hi \in Int /\ b[3].lo <= rate
      /\ rate <= b[3].hi /\ rate \in Int
      /\ b[3].lo \in 0 .. PerMille /\ b[3].hi \in 0 .. PerMille
  BY <1>1, <1>2 DEF Covers
<1>5. b[3].hi - b[3].lo <= 1000
  <2> DEFINE lo == b[3].lo
             hi == b[3].hi
  <2>1. PerMille = 1000 /\ lo \in 0 .. PerMille /\ hi \in 0 .. PerMille
    BY <1>4, Scales
  <2> HIDE DEF lo, hi
  <2>2. hi - lo <= 1000
    BY <2>1
  <2>3. QED
    BY <2>2 DEF lo, hi
<1>6. \A k \in 1 .. 3 : b[k].lo \in Int /\ b[k].hi \in Int
  BY <1>3, <1>4
<1>7. CASE m = 0
  BY <1>7 DEF Deserved
<1>8. CASE m = Attribute(Badness(b, s, rate))
  <2>1. Spanned(b, rate) /\ rate \in Int
    BY <1>3, <1>4, <1>5, <1>6 DEF Spanned
  <2>2. QED
    BY <1>8, <2>1, BlameFacts
<1>9. QED
  BY <1>7, <1>8

LEMMA SampleResult ==
    ASSUME CounterInv', BandInv', NEW s \in Samples, NEW sustained,
           ScoreClient(s, sustained), NEW e,
           hist' # <<>>, hist'[Len(hist')] = e, e.sample = s, e.rate = PerrRate(perr'),
           PerrRate(perr') \in 0 .. PerMille
    PROVE  ResultInv'
<1> DEFINE rate == PerrRate(perr')
           m == out'.dominant
<1>1. /\ out'.pkt_err_pct = PktErrPct(rate)
      /\ m = 0 \/ m = Attribute(Badness(band', s, rate))
  BY DEF ScoreClient
<1> HIDE DEF rate, m
<1>2. out'.pkt_err_pct \in 0 .. 100
  <2>1. rate \in 0 .. 1000
    BY Scales DEF rate
  <2>2. PktErrPct(rate) = IF rate >= 1000 THEN 100 ELSE (rate + 5) \div 10
    BY Scales DEF PktErrPct
  <2>3. QED
    BY <1>1, <2>1, <2>2
<1>3. Deserved(m, band', s, rate)
  <2>1. /\ hist' \in Seq(Entry(0 .. PerMille)) /\ BandsOver(band', hist')
        /\ hist'[Len(hist')].sample = s /\ hist'[Len(hist')].rate = rate
    BY DEF CounterInv, BandInv, rate
  <2>2. QED
    BY <1>1, <2>1, BlameHolds
<1>4. BlamedMetricIsLow'
  <2>1. hist'[Len(hist')].sample = s /\ hist'[Len(hist')].rate = rate
    BY DEF rate
  <2>2. QED
    BY <1>3, <2>1 DEF BlamedMetricIsLow, Deserved, m
<1>5. QED
  BY <1>2, <1>4 DEF ResultInv
-----------------------------------------------------------------------------
LEMMA ScoreInitInv == ScoreInit => ScoreInv
BY FreshInv DEF ScoreInit, Fresh

LEMMA ScoreNextInv == ScoreInv /\ [ScoreNext]_scoreVars => ScoreInv'
<1> SUFFICES ASSUME ScoreInv, [ScoreNext]_scoreVars PROVE ScoreInv'
  OBVIOUS
<1> USE DEF ScoreInv
<1>1. CASE UNCHANGED scoreVars
  BY <1>1 DEF scoreVars, CounterInv, WindowInv, MeanInv, BandInv, ResultInv, BlamedMetricIsLow
<1>2. ASSUME NEW s \in Samples, NEW sustained, ScoreClient(s, sustained)
      PROVE  ScoreInv'
  <2>1. CounterInv' /\ WindowInv' /\ PerrRate(perr') \in 0 .. PerMille
    BY <1>2, SampleWindow
  <2>2. PICK e \in Entry(0 .. PerMille) :
            /\ hist' = Append(hist, e) /\ Brings(e, hist, ctr, s) /\ e.rate = PerrRate(perr')
    BY <1>2, SampleWindow
  <2>3. /\ MeanInv' /\ PhyMean(phy') = MeanAt(hist', Len(hist) + 1)
        /\ PhyMean(phy') \in Int
    BY <1>2, <2>2, SampleMeans
  <2>4. BandInv'
    BY <1>2, <2>2, <2>3, SampleBands
  <2>5. hist' # <<>> /\ hist'[Len(hist')] = e /\ e.sample = s
    <3>1. hist \in Seq(Entry(0 .. PerMille))
      BY DEF CounterInv
    <3>2. QED
      BY <2>2, <3>1 DEF Brings
  <2>6. ResultInv'
    BY <1>2, <2>1, <2>2, <2>4, <2>5, SampleResult
  <2>7. QED
    BY <2>1, <2>3, <2>4, <2>6
<1>3. CASE Readmit
  <2>1. Fresh'
    BY <1>3 DEF Readmit, Fresh
  <2>2. Fresh' => ScoreInv'
    BY FreshInv, PTL
  <2>3. QED
    BY <2>1, <2>2
<1>4. QED
  BY <1>1, <1>2, <1>3 DEF ScoreNext

LEMMA ScoreInvariant == ScoreSpec => []ScoreInv
BY ScoreInitInv, ScoreNextInv, PTL DEF ScoreSpec

(* The reported loss is that of the window's samples, however often the    *)
(* ring and the counters have wrapped, and a rate always.                  *)
THEOREM RateIsTheWindows == ScoreSpec => []RateIsWindowLoss
<1>1. ScoreInv => RateIsWindowLoss
  <2> SUFFICES ASSUME ScoreInv PROVE RateIsWindowLoss
    OBVIOUS
  <2> DEFINE n == Len(hist)
             old == First(PerrWindow, n)
             df == hist[n].total.frames - hist[old].total.frames
             de == hist[n].total.errs - hist[old].total.errs
  <2>1. /\ hist \in Seq(Entry(0 .. PerMille)) /\ Gains(hist)
        /\ RingOf(perr, PerrWindow, Ctrs(hist), n) /\ out.pkt_err_pct \in 0 .. 100
    BY DEF ScoreInv, CounterInv, WindowInv, ResultInv
  <2>2. CASE hist = <<>>
    <3>1. perr.fill < 2
      BY <2>1, <2>2, WindowAssumption DEF RingOf
    <3>2. PerrRate(perr) = 0 /\ 0 \in 0 .. PerMille
      BY <3>1, One DEF PerrRate
    <3>3. QED
      BY <2>1, <2>2, <3>2 DEF RateIsWindowLoss
  <2>3. CASE hist # <<>>
    <3>1. /\ PerrRate(perr) \in 0 .. PerMille
          /\ Straight(hist, old) => PerrRate(perr) = Loss(SentF(hist, old), SentE(hist, old))
      BY <2>1, <2>3, RateOf
    <3>2. ~(\E k \in old + 1 .. n : hist[k].back) => Straight(hist, old)
      BY DEF Straight
    <3>3. SentF(hist, old) = df /\ SentE(hist, old) = de
      BY DEF SentF, SentE
    <3>4. Loss(df, de) = IF df + de = 0 THEN 0 ELSE (de * PerMille) \div (df + de)
      BY Zenon DEF Loss
    <3> HIDE DEF df, de, old, n
    <3>5. ~(\E k \in old + 1 .. n : hist[k].back) =>
              PerrRate(perr) = IF df + de = 0 THEN 0 ELSE (de * PerMille) \div (df + de)
      BY <3>1, <3>2, <3>3, <3>4, Zenon
    <3>6. QED
      BY <2>1, <3>1, <3>5, Zenon DEF RateIsWindowLoss, df, de, old, n
  <2>4. QED
    BY <2>2, <2>3
<1>2. QED
  BY ScoreInvariant, <1>1, PTL

(* Every band is the range of all its client has shown since it was        *)
(* admitted, and nothing before that.                                      *)
THEOREM BandsKeepHistory == ScoreSpec => []BandsAreHistory
<1>1. ScoreInv => BandsAreHistory
  <2> SUFFICES ASSUME ScoreInv, hist # <<>> PROVE BandsAreHistory
    BY DEF BandsAreHistory
  <2>1. hist \in Seq(Entry(0 .. PerMille)) /\ BandsOver(band, hist)
    BY DEF ScoreInv, CounterInv, BandInv
  <2>2. /\ Covers(band[1], {hist[k].sample.snr : k \in 1 .. Len(hist)})
        /\ Covers(band[2], {MeanAt(hist, k) : k \in 1 .. Len(hist)})
        /\ Covers(band[3], {hist[k].rate : k \in 1 .. Len(hist)})
    BY <2>1, BandsCover
  <2> DEFINE seen1 == {hist[k].sample.snr : k \in 1 .. Len(hist)}
             seen2 == {MeanAt(hist, k) : k \in 1 .. Len(hist)}
             seen3 == {hist[k].rate : k \in 1 .. Len(hist)}
  <2>3. /\ band[1] = [lo |-> Min(seen1), hi |-> Max(seen1), primed |-> TRUE]
        /\ band[2] = [lo |-> Min(seen2), hi |-> Max(seen2), primed |-> TRUE]
        /\ band[3] = [lo |-> Min(seen3), hi |-> Max(seen3), primed |-> TRUE]
    BY <2>2, CoversIs
  <2>4. QED
    BY <2>3 DEF BandsAreHistory
<1>2. QED
  BY ScoreInvariant, <1>1, PTL

(* No metric is blamed for a degradation while it is at its best, but for  *)
(* the cases the property names.                                           *)
THEOREM BlameIsDeserved == ScoreSpec => []BlamedMetricIsLow
<1>1. ScoreInv => BlamedMetricIsLow
  BY DEF ScoreInv, ResultInv
<1>2. QED
  BY ScoreInvariant, <1>1, PTL

(* A record no worse in SNR, PHY rate and errors scores no lower, for all  *)
(* counters whose sum fits their width and every channel utilisation.      *)
THEOREM KernelIsMonotone == ScoreSpec => []HigherIsBetter
<1>1. ScoreInv => HigherIsBetter
  <2> SUFFICES ASSUME ScoreInv, hist # <<>>, ctr.frames + ctr.errs < Wrap,
                      NEW t \in Samples, NEW e \in 0 .. ctr.errs,
                      t.snr >= hist[Len(hist)].sample.snr,
                      t.phy >= hist[Len(hist)].sample.phy
               PROVE  LET s == hist[Len(hist)].sample
                      IN  KernelScore(t.snr, t.phy, ctr.frames, e, s.util)
                              >= KernelScore(s.snr, s.phy, ctr.frames, ctr.errs, s.util)
    BY DEF HigherIsBetter
  <2> DEFINE s == hist[Len(hist)].sample
  <2>1. s \in Samples
    <3>1. hist[Len(hist)] \in Entry(0 .. PerMille)
      BY DEF ScoreInv, CounterInv
    <3>2. QED
      BY <3>1 DEF Entry
  <2>2. ctr.frames \in Nat /\ ctr.errs \in Nat
    BY DEF ScoreInv, CounterInv, Counter
  <2>3. s.snr <= t.snr /\ s.phy <= t.phy
    BY <2>1, SampleAssumption
  <2> HIDE DEF s
  <2>4. /\ s.snr \in Int /\ s.phy \in Int /\ s.util \in DOMAIN ChanWeight
        /\ t.snr \in Int /\ t.phy \in Int
    BY <2>1, SampleAssumption
  <2>5. e \in Nat /\ e <= ctr.errs
    BY <2>2
  <2>6. KernelScore(t.snr, t.phy, ctr.frames, e, s.util)
            >= KernelScore(s.snr, s.phy, ctr.frames, ctr.errs, s.util)
    BY <2>2, <2>3, <2>4, <2>5, KernelMonotone
  <2>7. QED
    BY <2>6 DEF s
<1>2. QED
  BY ScoreInvariant, <1>1, PTL
=============================================================================
