------------------------- MODULE MotionEngineProofs -------------------------
(***************************************************************************)
(* The motion engine for every tuning, unit, number of axes and length of  *)
(* run.  An axis is Sound when its books balance and its impulses go one    *)
(* way; pushing, sampling and cancelling keep it so, since only whole       *)
(* units are promised, so that cancelling and settling have nothing to      *)
(* round.  OnCurve, that no impulse is ahead of its curve until the         *)
(* settings change, is what NoBacklash needs besides: the curve never       *)
(* falls (ProgressMonotone).                                                *)
(***************************************************************************)
EXTENDS MotionEngine, WellFoundedInduction, TLAPS

\* A set of naturals has a least member.
LEMMA Least ==
  ASSUME NEW T \in SUBSET Nat, T # {}
  PROVE  \E x \in T : \A y \in T : x <= y
<1> DEFINE R == OpToRel(<, Nat)
<1>1. IsWellFoundedOn(R, Nat)
  BY NatLessThanWellFounded
<1>2. \A x, y \in Nat : x < y => <<x, y>> \in R
  BY DEF OpToRel
<1> HIDE DEF R
<1>3. PICK x \in T : \A y \in T : ~ (<<y, x>> \in R)
  BY <1>1, WFMin
<1>4. \A y \in T : ~ (y < x)
  BY <1>2, <1>3, Zenon
<1> HIDE <1>2, <1>3
<1>5. QED
  BY <1>4

\* Induction, over a set instead of a predicate: a set of naturals that holds 0 and
\* the successor of each of its members holds every natural.
LEMMA Induction ==
  ASSUME NEW S, 0 \in S, \A n \in Nat : n \in S => n + 1 \in S
  PROVE  Nat \subseteq S
<1>1. SUFFICES ASSUME Nat \ S # {} PROVE FALSE
  OBVIOUS
<1>2. PICK x \in Nat \ S : \A y \in Nat \ S : x <= y
  BY <1>1, Least
<1>3. x - 1 \in S
  BY <1>2
<1>4. QED
  BY <1>2, <1>3

-----------------------------------------------------------------------------
(* What a loop adds up.                                                   *)

\* What a running sum over the first n numbers of v is.
RunningSum(v, n, sum) ==
  /\ sum \in [0 .. n -> Int] /\ sum[0] = 0
  /\ \A k \in 1 .. n : sum[k] = sum[k - 1] + v[k]

\* There is one, and only one.
LEMMA RunningSumExists ==
  ASSUME NEW v \in Seq(Int)
  PROVE  \E sum : RunningSum(v, Len(v), sum)
<1> DEFINE S == {n \in Nat : n <= Len(v) => \E sum : RunningSum(v, n, sum)}
<1>1. 0 \in S
  <2>1. RunningSum(v, 0, [k \in 0 .. 0 |-> 0])
    BY DEF RunningSum
  <2>2. QED
    BY <2>1
<1>2. ASSUME NEW n \in Nat, n \in S PROVE n + 1 \in S
  <2>1. SUFFICES ASSUME n + 1 <= Len(v) PROVE \E sum : RunningSum(v, n + 1, sum)
    OBVIOUS
  <2>2. PICK sum : RunningSum(v, n, sum)
    BY <1>2, <2>1
  <2>3. v[n + 1] \in Int
    BY <2>1
  <2> DEFINE next == [k \in 0 .. n + 1 |-> IF k = n + 1 THEN sum[n] + v[n + 1] ELSE sum[k]]
  <2>4. next \in [0 .. n + 1 -> Int] /\ next[0] = 0
    BY <2>2, <2>3 DEF RunningSum
  <2>a. \A k \in 1 .. n + 1 : next[k] = next[k - 1] + v[k]
    BY <2>2, <2>3 DEF RunningSum
  <2>b. RunningSum(v, n + 1, next)
    BY <2>4, <2>a DEF RunningSum
  <2>5. QED
    BY <2>b
<1> HIDE DEF S
<1>3. Nat \subseteq S
  BY <1>1, <1>2, Induction
<1>4. Len(v) \in S
  BY <1>3
<1>5. QED
  BY <1>4 DEF S

LEMMA RunningSumUnique ==
  ASSUME NEW v \in Seq(Int), NEW s, NEW t, RunningSum(v, Len(v), s), RunningSum(v, Len(v), t)
  PROVE  s = t
<1> DEFINE S == {n \in Nat : n <= Len(v) => s[n] = t[n]}
<1>1. 0 \in S
  BY DEF RunningSum
<1>2. ASSUME NEW n \in Nat, n \in S PROVE n + 1 \in S
  BY <1>2 DEF RunningSum
<1> HIDE DEF S
<1>3. Nat \subseteq S
  BY <1>1, <1>2, Induction
<1>4. \A n \in 0 .. Len(v) : s[n] = t[n]
  BY <1>3 DEF S
<1>5. QED
  BY <1>4 DEF RunningSum

\* Total is the last running sum, for every sequence.
LEMMA TotalIs ==
  ASSUME NEW v \in Seq(Int), NEW s, RunningSum(v, Len(v), s)
  PROVE  Total(v) = s[Len(v)]
<1> DEFINE Eq(f) == f = [n \in 0 .. Len(v) |-> IF n = 0 THEN 0 ELSE f[n - 1] + v[n]]
           sum == CHOOSE f : Eq(f)
<1>1. Eq(s)
  BY DEF RunningSum
<1>2. Eq(sum)
  BY <1>1
<1>3. sum = s
  <2> DEFINE S == {n \in Nat : n <= Len(v) => sum[n] = s[n]}
  <2> HIDE DEF sum
  <2>1. 0 \in S
    BY <1>2 DEF RunningSum
  <2>2. ASSUME NEW n \in Nat, n \in S PROVE n + 1 \in S
    BY <1>2, <2>2 DEF RunningSum
  <2> HIDE DEF S
  <2>3. Nat \subseteq S
    BY <2>1, <2>2, Induction
  <2>4. \A n \in 0 .. Len(v) : sum[n] = s[n]
    BY <2>3 DEF S
  <2>5. QED
    BY <1>2, <2>4 DEF RunningSum
<1>4. Total(v) = sum[Len(v)]
  BY DEF Total
<1>5. QED
  BY <1>3, <1>4

LEMMA TotalSums ==
  ASSUME NEW v \in Seq(Int)
  PROVE  \E sum : RunningSum(v, Len(v), sum) /\ Total(v) = sum[Len(v)]
BY RunningSumExists, TotalIs

LEMMA TotalInt ==
  ASSUME NEW v \in Seq(Int)
  PROVE  Total(v) \in Int
<1>1. PICK sum : RunningSum(v, Len(v), sum) /\ Total(v) = sum[Len(v)]
  BY TotalSums
<1>2. QED
  BY <1>1 DEF RunningSum

\* Nothing adds up to 0, and one more number adds itself.
LEMMA TotalEmpty ==
  ASSUME NEW v \in Seq(Int), Len(v) = 0
  PROVE  Total(v) = 0
<1>1. PICK sum : RunningSum(v, Len(v), sum) /\ Total(v) = sum[Len(v)]
  BY TotalSums
<1>2. QED
  BY <1>1 DEF RunningSum

LEMMA TotalAppend ==
  ASSUME NEW v \in Seq(Int), NEW w \in Seq(Int), Len(w) = Len(v) + 1,
         \A k \in 1 .. Len(v) : w[k] = v[k]
  PROVE  Total(w) = Total(v) + w[Len(w)]
<1>1. PICK s : RunningSum(w, Len(w), s) /\ Total(w) = s[Len(w)]
  BY TotalSums
<1> DEFINE t == [k \in 0 .. Len(v) |-> s[k]]
<1>2. RunningSum(v, Len(v), t)
  BY <1>1 DEF RunningSum
<1> HIDE DEF t
<1>3. Total(v) = t[Len(v)]
  BY <1>2, TotalIs
<1>4. t[Len(v)] = s[Len(v)]
  BY DEF t
<1>5. QED
  BY <1>1, <1>3, <1>4 DEF RunningSum

\* A prefix of zeros adds nothing.
LEMMA TotalSuffix ==
  ASSUME NEW v \in Seq(Int), NEW w \in Seq(Int), NEW m \in 0 .. Len(v),
         Len(w) = Len(v) - m,
         \A k \in 1 .. m : v[k] = 0, \A k \in 1 .. Len(w) : w[k] = v[k + m]
  PROVE  Total(w) = Total(v)
<1>1. PICK s : RunningSum(v, Len(v), s) /\ Total(v) = s[Len(v)]
  BY TotalSums
<1>2. s[m] = 0
  <2> DEFINE S == {n \in Nat : n <= m => s[n] = 0}
  <2>1. 0 \in S
    BY <1>1 DEF RunningSum
  <2>2. ASSUME NEW n \in Nat, n \in S PROVE n + 1 \in S
    BY <1>1, <2>2 DEF RunningSum
  <2> HIDE DEF S
  <2>3. Nat \subseteq S
    BY <2>1, <2>2, Induction
  <2>4. m \in S
    BY <2>3
  <2>5. QED
    BY <2>4 DEF S
<1> DEFINE t == [k \in 0 .. Len(w) |-> s[k + m]]
<1>3. t \in [0 .. Len(w) -> Int] /\ t[0] = 0
  BY <1>1, <1>2 DEF RunningSum
<1>4. \A k \in 1 .. Len(w) : t[k] = t[k - 1] + w[k]
  <2>1. TAKE k \in 1 .. Len(w)
  <2>2. s[k + m] = s[(k - 1) + m] + v[k + m]
    BY <1>1 DEF RunningSum
  <2>3. QED
    BY <2>2
<1>5. t[Len(w)] = s[Len(v)]
  OBVIOUS
<1>6. RunningSum(w, Len(w), t)
  BY <1>3, <1>4 DEF RunningSum
<1> HIDE DEF t
<1>7. Total(w) = t[Len(w)]
  BY <1>6, TotalIs
<1>8. QED
  BY <1>1, <1>5, <1>7

\* Larger numbers have a larger total.
LEMMA TotalMonotone ==
  ASSUME NEW v \in Seq(Int), NEW w \in Seq(Int), Len(w) = Len(v),
         \A k \in 1 .. Len(v) : v[k] <= w[k]
  PROVE  Total(v) <= Total(w)
<1>1. PICK s : RunningSum(v, Len(v), s) /\ Total(v) = s[Len(v)]
  BY TotalSums
<1>2. PICK t : RunningSum(w, Len(w), t) /\ Total(w) = t[Len(w)]
  BY TotalSums
<1> DEFINE S == {n \in Nat : n <= Len(v) => s[n] <= t[n]}
<1>3. 0 \in S
  BY <1>1, <1>2 DEF RunningSum
<1>4. ASSUME NEW n \in Nat, n \in S PROVE n + 1 \in S
  <2>1. SUFFICES ASSUME n + 1 <= Len(v) PROVE s[n + 1] <= t[n + 1]
    OBVIOUS
  <2>2. s[n] <= t[n] /\ s[n] \in Int /\ t[n] \in Int
    BY <1>1, <1>2, <1>4, <2>1 DEF RunningSum
  <2>3. s[n + 1] = s[n] + v[n + 1] /\ t[n + 1] = t[n] + w[n + 1]
    BY <1>1, <1>2, <2>1 DEF RunningSum
  <2>4. v[n + 1] <= w[n + 1] /\ v[n + 1] \in Int /\ w[n + 1] \in Int
    BY <2>1
  <2>5. QED
    BY <2>2, <2>3, <2>4
<1> HIDE DEF S
<1>5. Nat \subseteq S
  BY <1>3, <1>4, Induction
<1>6. Len(v) \in S
  BY <1>5
<1>7. QED
  BY <1>1, <1>2, <1>6 DEF S

-----------------------------------------------------------------------------
(* Quotients.                                                              *)

\* Division rounds down, is exact on a multiple, and grows with the fraction.
LEMMA QuotientBounds ==
  ASSUME NEW n \in Nat, NEW d \in Nat \ {0}
  PROVE  /\ n \div d \in Nat
         /\ (n \div d) * d <= n
         /\ n < (n \div d) * d + d
OBVIOUS

LEMMA QuotientExact ==
  ASSUME NEW k \in Nat, NEW r \in Nat, NEW d \in Nat \ {0}, r < d
  PROVE  (k * d + r) \div d = k
OBVIOUS

LEMMA QuotientMonotone ==
  ASSUME NEW a \in Nat, NEW b \in Nat, NEW d \in Nat \ {0}, NEW e \in Nat \ {0}, a * e <= b * d
  PROVE a \div d <= b \div e
OBVIOUS

\* Rounding keeps a whole number of units, and never turns a sign.
LEMMA RoundedExact ==
  ASSUME NEW k \in Int, NEW d \in Nat \ {0}
  PROVE  RoundedQuotient(k * d, d) = k
<1>1. CASE k >= 0
  <2>1. k * d >= 0 /\ k * d \in Nat /\ (k # 0 => k * d > 0)
    BY <1>1
  <2>2. 2 * (k * d) + d = k * (2 * d) + d
    BY <1>1
  <2>3. (2 * (k * d) + d) \div (2 * d) = k
    BY <2>2, <1>1, QuotientExact
  <2>4. QED
    BY <2>1, <2>3 DEF RoundedQuotient, Sign, Magnitude
<1>2. CASE k < 0
  <2>1. -(k * d) = (-k) * d /\ (-k) * d > 0 /\ k * d < 0 /\ k * d \in Int
    BY <1>2
  <2>2. 2 * (-(k * d)) + d = (-k) * (2 * d) + d
    BY <1>2
  <2>3. (2 * (-(k * d)) + d) \div (2 * d) = -k
    BY <2>2, <1>2, QuotientExact
  <2>4. QED
    BY <2>1, <2>3 DEF RoundedQuotient, Sign, Magnitude
<1>3. QED
  BY <1>1, <1>2

LEMMA RoundedSign ==
  ASSUME NEW n \in Int, NEW d \in Nat \ {0}
  PROVE  /\ RoundedQuotient(n, d) \in Int
         /\ RoundedQuotient(n, d) # 0 => Sign(RoundedQuotient(n, d)) = Sign(n)
<1> DEFINE q == (2 * Magnitude(n) + d) \div (2 * d)
<1>1. 2 * Magnitude(n) + d \in Nat /\ 2 * d \in Nat \ {0}
  BY DEF Magnitude
<1>2. q \in Nat
  BY <1>1, QuotientBounds
<1>3. RoundedQuotient(n, d) = Sign(n) * q
  BY DEF RoundedQuotient
<1> HIDE DEF q
<1>4. QED
  BY <1>2, <1>3 DEF Sign

\* What is left when the whole units are taken is less than one unit, and less
\* than one unit the other way gives none that way.
LEMMA WholeRest ==
  ASSUME NEW n \in Int, NEW d \in Nat \ {0}
  PROVE  /\ WholeQuotient(n, d) \in Int
         /\ n - WholeQuotient(n, d) * d \in Int
         /\ Magnitude(n - WholeQuotient(n, d) * d) < d
         /\ n > -d => WholeQuotient(n, d) >= 0
         /\ n < d => WholeQuotient(n, d) <= 0
<1>1. CASE n >= 0
  <2> DEFINE q == n \div d
  <2>1. q \in Nat /\ q * d <= n /\ n < q * d + d
    BY <1>1, QuotientBounds
  <2>2. WholeQuotient(n, d) = q
    <3>1. CASE n = 0
      BY <3>1, QuotientExact DEF WholeQuotient, Sign, Magnitude
    <3>2. CASE n > 0
      BY <3>2, <2>1 DEF WholeQuotient, Sign, Magnitude
    <3>3. QED
      BY <1>1, <3>1, <3>2
  <2>3. n < d => q = 0
    BY <1>1, QuotientExact
  <2> HIDE DEF q
  <2>4. QED
    BY <1>1, <2>1, <2>2, <2>3 DEF Magnitude
<1>2. CASE n < 0
  <2> DEFINE q == (-n) \div d
  <2>1. q \in Nat /\ q * d <= -n /\ -n < q * d + d
    BY <1>2, QuotientBounds
  <2>2. WholeQuotient(n, d) = -q
    BY <1>2, <2>1 DEF WholeQuotient, Sign, Magnitude
  <2>3. -n < d => q = 0
    BY <1>2, QuotientExact
  <2>4. (-q) * d = -(q * d)
    BY <2>1
  <2> HIDE DEF q
  <2>5. QED
    BY <1>2, <2>1, <2>2, <2>3, <2>4 DEF Magnitude
<1>3. QED
  BY <1>1, <1>2
LEMMA ProductNat ==
  ASSUME NEW a \in Nat, NEW b \in Nat
  PROVE  a * b \in Nat /\ (a # 0 /\ b # 0 => a * b # 0)
OBVIOUS

-----------------------------------------------------------------------------
(* The curve.                                                              *)

Fifth(q) == q * q * q * q * q

\* The warped time p / q is a fraction of at most one, and it grows with the time.
LEMMA WarpMonotone ==
  ASSUME NEW h \in Nat \ {0}, NEW k \in Nat \ {0}, NEW d \in Nat \ {0},
         NEW t \in 0 .. d, NEW u \in 0 .. d, t <= u
  PROVE  /\ h * t \in Nat /\ k * d + (h - k) * t \in Nat \ {0}
         /\ h * t <= k * d + (h - k) * t
         /\ (h * t) * (k * d + (h - k) * u) <= (h * u) * (k * d + (h - k) * t)
<1>1. h * t \in Nat /\ k * (d - t) \in Nat /\ h * u \in Nat
  BY ProductNat
<1>2. k * d + (h - k) * t = k * (d - t) + h * t
  OBVIOUS
<1>3. t < d => k * (d - t) # 0
  BY ProductNat
<1>4. t = d => h * t # 0
  BY ProductNat
<1>5. (h * u) * (k * d + (h - k) * t) - (h * t) * (k * d + (h - k) * u) = (h * k) * (d * (u - t))
  OBVIOUS
<1>6. (h * k) * (d * (u - t)) \in Nat
  BY ProductNat
<1>7. k * d + (h - k) * u \in Int /\ k * d + (h - k) * t \in Int
  OBVIOUS
<1>8. (h * u) * (k * d + (h - k) * t) \in Int /\ (h * t) * (k * d + (h - k) * u) \in Int
  BY <1>7, <1>1
<1>9. (h * t) * (k * d + (h - k) * u) <= (h * u) * (k * d + (h - k) * t)
  BY <1>5, <1>6, <1>8
<1>10. QED
  BY <1>1, <1>2, <1>3, <1>4, <1>9

LEMMA SmoothstepNat ==
  ASSUME NEW p \in Nat, NEW q \in Nat, p <= q
  PROVE  Smoothstep(p, q) \in Nat
<1> DEFINE r == q - p
<1>1. r \in Nat /\ q = p + r
  OBVIOUS
<1> HIDE DEF r
<1>2. 6 * p * p - 15 * p * q + 10 * q * q = p * p + 5 * (p * r) + 10 * (r * r)
  BY <1>1
<1>3. p * p \in Nat /\ p * r \in Nat /\ r * r \in Nat /\ p * p * p \in Nat
  BY <1>1, ProductNat
<1>4. p * p + 5 * (p * r) + 10 * (r * r) \in Nat
  BY <1>3
<1>5. QED
  BY <1>2, <1>3, <1>4, ProductNat DEF Smoothstep

\* A common denominator.
LEMMA SmoothstepScale ==
  ASSUME NEW p \in Nat, NEW q \in Nat, NEW m \in Nat
  PROVE  Smoothstep(p, q) * Fifth(m) = Smoothstep(p * m, q * m)
<1> DEFINE b == 6 * p * p - 15 * p * q + 10 * q * q
<1>1. 6 * (p * m) * (p * m) - 15 * (p * m) * (q * m) + 10 * (q * m) * (q * m) = b * (m * m)
  OBVIOUS
<1>2. (p * m) * (p * m) * (p * m) = (p * p * p) * (m * m * m)
  OBVIOUS
<1>3. b \in Int
  OBVIOUS
<1> HIDE DEF b
<1>4. ((p * p * p) * b) * (m * m * m * m * m) = ((p * p * p) * (m * m * m)) * (b * (m * m))
  BY <1>3
<1>5. QED
  BY <1>1, <1>2, <1>4 DEF Smoothstep, Fifth, b

LEMMA SmoothstepGrows ==
  ASSUME NEW a \in Nat, NEW b \in Nat, NEW c \in Nat, a <= b, b <= c
  PROVE  Smoothstep(a, c) <= Smoothstep(b, c)
<1> DEFINE d == b - a
           e == c - b
<1>1. d \in Nat /\ e \in Nat /\ b = a + d /\ c = a + d + e
  OBVIOUS
<1> HIDE DEF d, e
<1>2. Smoothstep(a, c) \in Int /\ Smoothstep(b, c) \in Int
  BY DEF Smoothstep
<1>3. Smoothstep(b, c) - Smoothstep(a, c) =
        10 * (a * a * d * d * d) + 30 * (a * a * d * d * e) + 30 * (a * a * d * e * e)
        + 5 * (a * d * d * d * d) + 20 * (a * d * d * d * e) + 30 * (a * d * d * e * e)
        + d * d * d * d * d + 5 * (d * d * d * d * e) + 10 * (d * d * d * e * e)
  BY <1>1 DEF Smoothstep
<1>4. /\ a * a * d * d * d \in Nat /\ a * a * d * d * e \in Nat /\ a * a * d * e * e \in Nat
      /\ a * d * d * d * d \in Nat /\ a * d * d * d * e \in Nat /\ a * d * d * e * e \in Nat
      /\ d * d * d * d * d \in Nat /\ d * d * d * d * e \in Nat /\ d * d * d * e * e \in Nat
  BY <1>1, ProductNat
<1>5. QED
  BY <1>2, <1>3, <1>4

LEMMA SmoothstepMonotone ==
  ASSUME NEW p \in Nat, NEW q \in Nat \ {0}, NEW r \in Nat, NEW s \in Nat \ {0},
         p <= q, r <= s, p * s <= r * q
  PROVE  Smoothstep(p, q) * Fifth(s) <= Smoothstep(r, s) * Fifth(q)
<1>1. p * s \in Nat /\ r * q \in Nat /\ q * s \in Nat /\ q * s = s * q
  OBVIOUS
<1>2. r * q <= s * q
  OBVIOUS
<1>3. Smoothstep(p * s, q * s) <= Smoothstep(r * q, s * q)
  BY <1>1, <1>2, SmoothstepGrows
<1>4. QED
  BY <1>3, SmoothstepScale

LEMMA ClampRatioType ==
  ASSUME NEW ratio, ratio.head \in Nat \ {0}, ratio.tail \in Nat \ {0}
  PROVE  ClampRatio(ratio).head \in Nat \ {0} /\ ClampRatio(ratio).tail \in Nat \ {0}
BY DEF ClampRatio

\* What EvaluateProgress returns is between nothing and the whole impulse, grows
\* with the time and is the whole impulse once its duration is over.
LEMMA ProgressMonotone ==
  ASSUME NEW e \in Int, NEW f \in Int, e <= f, NEW d \in Nat \ {0}, NEW easing \in BOOLEAN,
         NEW ratio, ratio.head \in Nat \ {0}, ratio.tail \in Nat \ {0}
  PROVE  /\ EvaluateProgress(e, d, ratio, easing) \in Nat
         /\ EvaluateProgress(e, d, ratio, easing) <= EvaluateProgress(f, d, ratio, easing)
         /\ e >= d => EvaluateProgress(e, d, ratio, easing) = Unit
<1> DEFINE t == UnitTime(e, d)
           u == UnitTime(f, d)
           h == ClampRatio(ratio).head
           k == ClampRatio(ratio).tail
           p == h * t
           q == k * d + (h - k) * t
           r == h * u
           s == k * d + (h - k) * u
<1>1. t \in 0 .. d /\ u \in 0 .. d /\ t <= u /\ (e >= d => t = d)
  BY DEF UnitTime, Clamp
<1>2. h \in Nat \ {0} /\ k \in Nat \ {0}
  BY ClampRatioType
<1>u. Unit \in Nat \ {0}
  BY UnitAssumption
<1>3. CASE easing
  <2>1. EvaluateProgress(e, d, ratio, easing) = (Unit * Smoothstep(p, q)) \div Fifth(q)
    BY <1>3 DEF EvaluateProgress, Fifth
  <2>2. EvaluateProgress(f, d, ratio, easing) = (Unit * Smoothstep(r, s)) \div Fifth(s)
    BY <1>3 DEF EvaluateProgress, Fifth
  <2> HIDE DEF h, k, t, u
  <2>3. /\ p \in Nat /\ q \in Nat \ {0} /\ p <= q
        /\ r \in Nat /\ s \in Nat \ {0} /\ r <= s /\ p * s <= r * q
    BY <1>1, <1>2, WarpMonotone
  <2>4. t = d => p = q
    BY <1>1, <1>2
  <2> HIDE DEF p, q, r, s
  <2>5. /\ Smoothstep(p, q) \in Nat /\ Smoothstep(r, s) \in Nat
        /\ Smoothstep(p, q) * Fifth(s) <= Smoothstep(r, s) * Fifth(q)
    BY <2>3, SmoothstepNat, SmoothstepMonotone
  <2>6. Fifth(q) \in Nat \ {0} /\ Fifth(s) \in Nat \ {0}
    BY <2>3, ProductNat DEF Fifth
  <2>7. p = q => Unit * Smoothstep(p, q) = Unit * Fifth(q) + 0
    BY <2>3, <1>u DEF Smoothstep, Fifth
  <2> DEFINE a == Smoothstep(p, q)
             b == Smoothstep(r, s)
             m == Fifth(q)
             n == Fifth(s)
  <2> HIDE DEF a, b, m, n
  <2>8. a \in Nat /\ b \in Nat /\ m \in Nat \ {0} /\ n \in Nat \ {0} /\ a * n <= b * m
    BY <2>5, <2>6 DEF a, b, m, n
  <2>9. /\ Unit * a \in Nat /\ Unit * b \in Nat
        /\ (Unit * a) * n <= (Unit * b) * m
    <3>1. Unit * (a * n) <= Unit * (b * m)
      BY <2>8, <1>u
    <3>2. QED
      BY <3>1, <2>8, <1>u
  <2>10. (Unit * a) \div m \in Nat /\ (Unit * a) \div m <= (Unit * b) \div n
    BY <2>8, <2>9, QuotientBounds, QuotientMonotone
  <2>11. p = q => (Unit * a) \div m = Unit
    <3>1. p = q => Unit * a = Unit * m + 0
      BY <2>7 DEF a, m
    <3>2. (Unit * m + 0) \div m = Unit
      BY <2>8, <1>u, QuotientExact
    <3>3. QED
      BY <3>1, <3>2, <2>8, <1>u
  <2>12. QED
    BY <2>1, <2>2, <2>4, <2>10, <2>11, <1>1 DEF a, b, m, n
<1>4. CASE ~easing
  <2>1. EvaluateProgress(e, d, ratio, easing) = (Unit * t) \div d
    BY <1>4 DEF EvaluateProgress
  <2>2. EvaluateProgress(f, d, ratio, easing) = (Unit * u) \div d
    BY <1>4 DEF EvaluateProgress
  <2> HIDE DEF t, u
  <2>3. Unit * t \in Nat /\ Unit * u \in Nat /\ Unit * t * d <= Unit * u * d
    BY <1>1, <1>u
  <2>4. (Unit * t) \div d \in Nat /\ (Unit * t) \div d <= (Unit * u) \div d
    BY <2>3, QuotientBounds, QuotientMonotone
  <2>5. (Unit * d + 0) \div d = Unit
    BY <1>u, QuotientExact
  <2>6. t = d => (Unit * t) \div d = Unit
    BY <2>5, <1>u
  <2>7. QED
    BY <2>1, <2>2, <2>4, <2>6, <1>1
<1>5. QED
  BY <1>3, <1>4

-----------------------------------------------------------------------------
(* Impulses.                                                               *)

\* What an impulse, and each of a sequence of them, still has to scroll.
Debt(i) == i.total * Unit - i.position

Debts(impulses) == [i \in DOMAIN impulses |-> Debt(impulses[i])]

LEMMA ImpulseType ==
  ASSUME NEW i \in Impulse
  PROVE  /\ i.start \in Nat /\ i.duration \in Nat \ {0} /\ i.total \in Int \ {0} /\ i.position \in Int
         /\ i.total * Unit \in Int /\ Debt(i) \in Int
BY UnitAssumption DEF Impulse, Debt

LEMMA DebtsType ==
  ASSUME NEW impulses \in Seq(Impulse)
  PROVE  /\ Debts(impulses) \in Seq(Int) /\ Len(Debts(impulses)) = Len(impulses)
         /\ \A i \in 1 .. Len(impulses) : Debts(impulses)[i] = Debt(impulses[i])
         /\ Unscrolled(impulses) = Total(Debts(impulses))
         /\ Unscrolled(impulses) \in Int
<1>1. \A i \in 1 .. Len(impulses) : Debt(impulses[i]) \in Int
  <2>1. \A i \in 1 .. Len(impulses) : impulses[i] \in Impulse
    OBVIOUS
  <2>2. QED
    BY <2>1, ImpulseType
<1>2. Debts(impulses) \in Seq(Int) /\ Len(Debts(impulses)) = Len(impulses)
  BY <1>1 DEF Debts
<1>3. Unscrolled(impulses) = Total(Debts(impulses))
  BY DEF Unscrolled, Debts, Debt
<1>4. Total(Debts(impulses)) \in Int
  BY <1>2, TotalInt
<1>5. \A i \in 1 .. Len(impulses) : Debts(impulses)[i] = Debt(impulses[i])
  BY DEF Debts
<1>6. QED
  BY <1>2, <1>3, <1>4, <1>5

LEMMA UnscrolledNone == Unscrolled(<<>>) = 0
<1>1. <<>> \in Seq(Impulse) /\ Len(<<>>) = 0
  OBVIOUS
<1>2. QED
  BY <1>1, DebtsType, TotalEmpty

LEMMA UnscrolledAppend ==
  ASSUME NEW impulses \in Seq(Impulse), NEW i \in Impulse
  PROVE  /\ Append(impulses, i) \in Seq(Impulse)
         /\ Unscrolled(Append(impulses, i)) = Unscrolled(impulses) + Debt(i)
<1> DEFINE more == Append(impulses, i)
<1>1. /\ more \in Seq(Impulse) /\ Len(more) = Len(impulses) + 1 /\ more[Len(more)] = i
      /\ \A k \in 1 .. Len(impulses) : more[k] = impulses[k]
  OBVIOUS
<1> HIDE DEF more
<1>a. /\ Debts(more) \in Seq(Int) /\ Debts(impulses) \in Seq(Int)
      /\ Len(Debts(more)) = Len(more) /\ Len(Debts(impulses)) = Len(impulses)
      /\ \A k \in 1 .. Len(more) : Debts(more)[k] = Debt(more[k])
      /\ \A k \in 1 .. Len(impulses) : Debts(impulses)[k] = Debt(impulses[k])
  BY <1>1, DebtsType
<1>b. Len(impulses) \in Nat
  OBVIOUS
<1>2. /\ Len(Debts(more)) = Len(Debts(impulses)) + 1
      /\ \A k \in 1 .. Len(Debts(impulses)) : Debts(more)[k] = Debts(impulses)[k]
      /\ Debts(more)[Len(Debts(more))] = Debt(i)
  BY <1>1, <1>a, <1>b
<1>3. Total(Debts(more)) = Total(Debts(impulses)) + Debts(more)[Len(Debts(more))]
  BY <1>a, <1>2, TotalAppend
<1>4. Unscrolled(more) = Total(Debts(more)) /\ Unscrolled(impulses) = Total(Debts(impulses))
  BY <1>1, DebtsType
<1>5. QED
  BY <1>1, <1>2, <1>3, <1>4 DEF more

\* Scrolling every impulse forward leaves less to scroll.
LEMMA UnscrolledMonotone ==
  ASSUME NEW old \in Seq(Impulse), NEW new \in Seq(Impulse), Len(new) = Len(old),
         \A k \in 1 .. Len(old) : /\ new[k].total = old[k].total
                                  /\ old[k].position <= new[k].position
  PROVE  Unscrolled(new) <= Unscrolled(old)
<1>1. \A k \in 1 .. Len(old) : Debt(new[k]) <= Debt(old[k])
  <2>1. TAKE k \in 1 .. Len(old)
  <2>2. old[k] \in Impulse /\ new[k] \in Impulse
    OBVIOUS
  <2>3. old[k].total * Unit \in Int /\ old[k].position \in Int /\ new[k].position \in Int
    BY <2>2, ImpulseType
  <2>4. QED
    BY <2>3 DEF Debt
<1>2. \A k \in 1 .. Len(Debts(new)) : Debts(new)[k] <= Debts(old)[k]
  BY <1>1, DebtsType
<1>3. QED
  BY <1>2, DebtsType, TotalMonotone

-----------------------------------------------------------------------------
\* The least of a set of naturals.
LEMMA MinLeast ==
  ASSUME NEW T \in SUBSET Nat, T # {}
  PROVE  Min(T) \in T /\ \A y \in T : Min(T) <= y
<1>1. \E x \in T : \A y \in T : x <= y
  BY Least
<1>2. QED
  BY <1>1 DEF Min

LEMMA PendingDrops ==
  ASSUME NEW impulses \in Seq(Impulse), NEW time
  PROVE  \E m \in 0 .. Len(impulses) :
           /\ Pending(impulses, time) \in Seq(Impulse)
           /\ Len(Pending(impulses, time)) = Len(impulses) - m
           /\ \A k \in 1 .. Len(impulses) - m : Pending(impulses, time)[k] = impulses[k + m]
           /\ \A k \in 1 .. m : Ended(impulses[k], time)
           /\ m < Len(impulses) => ~ Ended(impulses[m + 1], time)
<1> DEFINE running == {i \in DOMAIN impulses : ~ Ended(impulses[i], time)}
<1>1. CASE running = {}
  <2>1. Pending(impulses, time) = <<>>
    BY <1>1 DEF Pending
  <2>2. \A k \in 1 .. Len(impulses) : Ended(impulses[k], time)
    BY <1>1
  <2>3. QED
    BY <2>1, <2>2
<1>2. CASE running # {}
  <2> DEFINE f == Min(running)
  <2>1. running \in SUBSET Nat
    OBVIOUS
  <2>2. f \in running /\ \A i \in running : f <= i
    BY <1>2, <2>1, MinLeast
  <2>3. Pending(impulses, time) = SubSeq(impulses, f, Len(impulses))
    BY <1>2 DEF Pending
  <2> DEFINE m == f - 1
  <2>4. m \in 0 .. Len(impulses) /\ f = m + 1 /\ f \in 1 .. Len(impulses)
    BY <2>2
  <2>5. \A k \in 1 .. m : Ended(impulses[k], time)
    <3>1. TAKE k \in 1 .. m
    <3>2. k \in DOMAIN impulses /\ ~ (f <= k)
      BY <2>4
    <3>3. k \notin running
      BY <2>2, <3>2
    <3>4. QED
      BY <3>2, <3>3, Zenon
  <2>6. ~ Ended(impulses[m + 1], time)
    BY <2>2, <2>4
  <2> HIDE DEF f, running
  <2>7. /\ Pending(impulses, time) \in Seq(Impulse)
        /\ Len(Pending(impulses, time)) = Len(impulses) - m
        /\ \A k \in 1 .. Len(impulses) - m : Pending(impulses, time)[k] = impulses[k + m]
    BY <2>3, <2>4
  <2> HIDE DEF m
  <2>8. QED
    BY <2>4, <2>5, <2>6, <2>7
<1>3. QED
  BY <1>1, <1>2

LEMMA UnscrolledPending ==
  ASSUME NEW impulses \in Seq(Impulse), NEW time,
         \A k \in 1 .. Len(impulses) : Ended(impulses[k], time) => Debt(impulses[k]) = 0
  PROVE  Unscrolled(Pending(impulses, time)) = Unscrolled(impulses)
<1> DEFINE rest == Pending(impulses, time)
<1>1. PICK m \in 0 .. Len(impulses) :
           /\ rest \in Seq(Impulse)
           /\ Len(rest) = Len(impulses) - m
           /\ \A k \in 1 .. Len(impulses) - m : rest[k] = impulses[k + m]
           /\ \A k \in 1 .. m : Ended(impulses[k], time)
  BY PendingDrops
<1> HIDE DEF rest
<1>3. \A k \in 1 .. m : Debts(impulses)[k] = 0
  <2>1. TAKE k \in 1 .. m
  <2>2. k \in 1 .. Len(impulses) /\ Ended(impulses[k], time)
    BY <1>1
  <2>3. Debts(impulses)[k] = Debt(impulses[k])
    BY <2>2, DebtsType
  <2>4. QED
    BY <2>2, <2>3
<1>4. Len(Debts(rest)) = Len(Debts(impulses)) - m
  BY <1>1, DebtsType
<1>5. \A k \in 1 .. Len(Debts(rest)) : Debts(rest)[k] = Debts(impulses)[k + m]
  <2>1. TAKE k \in 1 .. Len(Debts(rest))
  <2>2. k \in 1 .. Len(impulses) - m /\ k + m \in 1 .. Len(impulses) /\ k \in 1 .. Len(rest)
    BY <1>1, DebtsType
  <2>3. Debts(rest)[k] = Debt(rest[k]) /\ Debts(impulses)[k + m] = Debt(impulses[k + m])
    BY <1>1, <2>2, DebtsType
  <2>4. QED
    BY <1>1, <2>2, <2>3
<1>6. Total(Debts(rest)) = Total(Debts(impulses))
  BY <1>1, <1>3, <1>4, <1>5, DebtsType, TotalSuffix
<1>7. QED
  BY <1>1, <1>6, DebtsType DEF rest

-----------------------------------------------------------------------------
(* One axis.                                                               *)

\* What holds of each axis between two operations.
Sound(s) ==
  /\ s \in AxisState
  /\ s.acceleration >= 100 /\ Magnitude(s.fractional) < Unit
  /\ Unit * s.accepted = Unit * (s.emitted + s.cancelled) + s.fractional + Unscrolled(s.impulses)
  /\ s.impulses = <<>> => s.fractional = 0
  /\ \A i \in DOMAIN s.impulses : Sign(s.impulses[i].total) = s.direction

LEMMA AxisType ==
  ASSUME NEW s \in AxisState
  PROVE  /\ s.impulses \in Seq(Impulse) /\ s.fractional \in Int /\ s.lastInput \in Nat \cup {-1}
         /\ s.acceleration \in Nat /\ s.direction \in {-1, 0, 1} /\ s.accepted \in Int
         /\ s.emitted \in Int /\ s.cancelled \in Int
         /\ Unit * s.accepted \in Int /\ Unit * s.emitted \in Int /\ Unit * s.cancelled \in Int
         /\ Unit * (s.emitted + s.cancelled) = Unit * s.emitted + Unit * s.cancelled
         /\ Unscrolled(s.impulses) \in Int
<1>1. /\ s.impulses \in Seq(Impulse) /\ s.fractional \in Int /\ s.lastInput \in Nat \cup {-1}
      /\ s.acceleration \in Nat /\ s.direction \in {-1, 0, 1} /\ s.accepted \in Int
      /\ s.emitted \in Int /\ s.cancelled \in Int
  BY DEF AxisState
<1>2. Unscrolled(s.impulses) \in Int
  BY <1>1, DebtsType
<1>3. QED
  BY <1>1, <1>2, UnitAssumption

\* The fields of a cancelled axis.
LEMMA CancelledIs ==
  ASSUME NEW s \in AxisState, NEW w \in Int, w = RoundedQuotient(Outstanding(s), Unit)
  PROVE  /\ Cancelled(s) \in AxisState
         /\ Cancelled(s).impulses = <<>> /\ Cancelled(s).fractional = 0 /\ Cancelled(s).direction = 0
         /\ Cancelled(s).cancelled = s.cancelled + w
         /\ Cancelled(s).accepted = s.accepted /\ Cancelled(s).emitted = s.emitted
         /\ Cancelled(s).acceleration = s.acceleration /\ Cancelled(s).lastInput = s.lastInput
<1>1. Cancelled(s) = [s EXCEPT !.cancelled = s.cancelled + w,
                               !.impulses = <<>>, !.fractional = 0, !.direction = 0]
  BY DEF Cancelled
<1> DEFINE c == [impulses |-> <<>>, fractional |-> 0, lastInput |-> s.lastInput,
                 acceleration |-> s.acceleration, direction |-> 0, accepted |-> s.accepted,
                 emitted |-> s.emitted, cancelled |-> s.cancelled + w]
<1>2. Cancelled(s) = c
  BY <1>1 DEF AxisState
<1>3. c \in AxisState
  <2>1. <<>> \in Seq(Impulse)
    OBVIOUS
  <2>2. QED
    BY <2>1, AxisType DEF AxisState
<1>4. QED
  BY <1>2, <1>3

\* Writing off what is outstanding writes off whole units: the books say so.
LEMMA CancelledSound ==
  ASSUME NEW s, Sound(s)
  PROVE  /\ Sound(Cancelled(s))
         /\ Cancelled(s).impulses = <<>> /\ Cancelled(s).direction = 0
<1> DEFINE w == s.accepted - s.emitted - s.cancelled
<1>1. s \in AxisState
  BY DEF Sound
<1>u. Unit \in Nat \ {0}
  BY UnitAssumption
<1>2. w \in Int /\ Outstanding(s) = w * Unit
  <2>1. Outstanding(s) = Unit * s.accepted - (Unit * s.emitted + Unit * s.cancelled)
    BY <1>1, AxisType DEF Sound, Outstanding
  <2>2. s.accepted \in Int /\ s.emitted \in Int /\ s.cancelled \in Int
    BY <1>1, AxisType
  <2>3. QED
    BY <2>1, <2>2, <1>u
<1> HIDE DEF w
<1>3. RoundedQuotient(Outstanding(s), Unit) = w
  BY <1>2, <1>u, RoundedExact
<1> DEFINE c == Cancelled(s)
<1>4. /\ c \in AxisState
      /\ c.impulses = <<>> /\ c.fractional = 0 /\ c.direction = 0
      /\ c.cancelled = s.cancelled + w
      /\ c.accepted = s.accepted /\ c.emitted = s.emitted /\ c.acceleration = s.acceleration
  BY <1>1, <1>2, <1>3, CancelledIs
<1> HIDE DEF c
<1>5. c.accepted = c.emitted + c.cancelled
  BY <1>1, <1>4, AxisType DEF w
<1>6. Unscrolled(c.impulses) = 0
  BY <1>4, UnscrolledNone
<1>7. Magnitude(c.fractional) < Unit
  BY <1>4, <1>u DEF Magnitude
<1>8. c.acceleration >= 100 /\ DOMAIN c.impulses = {}
  BY <1>4 DEF Sound
<1>9. Unit * c.accepted \in Int
  BY <1>4, AxisType
<1>10. Sound(c)
  BY <1>4, <1>5, <1>6, <1>7, <1>8, <1>9 DEF Sound
<1>11. QED
  BY <1>4, <1>10 DEF c

-----------------------------------------------------------------------------
LEMMA TuningType ==
  ASSUME tuning \in Tuning
  PROVE  /\ tuning.duration \in Nat \ {0} /\ tuning.scale \in Nat \ {0} /\ tuning.scaleOf \in Nat \ {0}
         /\ tuning.ratio.head \in Nat \ {0} /\ tuning.ratio.tail \in Nat \ {0}
         /\ tuning.easing \in BOOLEAN
         /\ tuning.window \in Nat /\ tuning.fastest \in Nat /\ tuning.fastest >= 100
BY TuningAssumption

\* The acceleration never falls below one.
LEMMA AccelerationType ==
  ASSUME tuning \in Tuning, NEW s, s.lastInput \in Int, s.acceleration \in Nat, s.acceleration >= 100,
         NEW time \in Nat
  PROVE  NextAcceleration(s, time) \in Nat /\ NextAcceleration(s, time) >= 100
<1> DEFINE window == tuning.window
           elapsed == IF time > s.lastInput THEN time - s.lastInput ELSE 0
           gain == (75 * (window - elapsed)) \div window
           faster == s.acceleration + (IF gain > 15 THEN gain ELSE 15)
<1>1. CASE s.lastInput < 0 \/ window <= 0 \/ elapsed > window
  BY <1>1 DEF NextAcceleration
<1>2. CASE ~(s.lastInput < 0 \/ window <= 0 \/ elapsed > window)
  <2>1. window \in Nat \ {0} /\ 75 * (window - elapsed) \in Nat
    BY <1>2, TuningType
  <2>2. gain \in Nat
    BY <2>1, QuotientBounds
  <2>3. NextAcceleration(s, time) = IF faster > tuning.fastest THEN tuning.fastest ELSE faster
    BY <1>2 DEF NextAcceleration
  <2> HIDE DEF gain
  <2>4. QED
    BY <2>2, <2>3, TuningType
<1>3. QED
  BY <1>1, <1>2

\* An impulse is never empty and goes the way of its delta.
LEMMA TotalDeltaSign ==
  ASSUME tuning \in Tuning, NEW delta \in Int \ {0}, NEW acceleration \in Nat, acceleration >= 100
  PROVE  TotalDelta(delta, acceleration) \in Int \ {0} /\ Sign(TotalDelta(delta, acceleration)) = Sign(delta)
<1> DEFINE n == delta * tuning.scale * acceleration
           d == 100 * tuning.scaleOf
<1>1. n \in Int /\ d \in Nat \ {0}
  BY TuningType
<1>2. Sign(n) = Sign(delta)
  <2>1. tuning.scale * acceleration \in Nat \ {0}
    BY TuningType
  <2>2. n = delta * (tuning.scale * acceleration)
    BY TuningType
  <2>3. QED
    BY <2>1, <2>2 DEF Sign
<1>3. TotalDelta(delta, acceleration) =
        IF RoundedQuotient(n, d) = 0 THEN Sign(delta) ELSE RoundedQuotient(n, d)
  BY DEF TotalDelta
<1> HIDE DEF n, d
<1>4. RoundedQuotient(n, d) \in Int /\ (RoundedQuotient(n, d) # 0 => Sign(RoundedQuotient(n, d)) = Sign(n))
  BY <1>1, RoundedSign
<1>5. QED
  BY <1>2, <1>3, <1>4 DEF Sign

\* A reversal leaves nothing of the old direction behind.
LEMMA TurnedSound ==
  ASSUME NEW s, Sound(s), NEW direction \in {-1, 1}
  PROVE  /\ Sound(Turned(s, direction))
         /\ \A i \in DOMAIN Turned(s, direction).impulses :
              Sign(Turned(s, direction).impulses[i].total) = direction
<1>0. s \in AxisState
  BY DEF Sound
<1>1. CASE s.direction # 0 /\ s.direction # direction /\ s.impulses # <<>>
  <2> DEFINE c == Cancelled(s)
             t == [c EXCEPT !.acceleration = 100, !.lastInput = -1]
  <2>1. Turned(s, direction) = t
    BY <1>1 DEF Turned
  <2>2. Sound(c) /\ c.impulses = <<>>
    BY CancelledSound
  <2> HIDE DEF c
  <2>3. /\ t \in AxisState /\ t.impulses = c.impulses /\ t.acceleration = 100
        /\ t.fractional = c.fractional /\ t.accepted = c.accepted /\ t.emitted = c.emitted
        /\ t.cancelled = c.cancelled /\ t.direction = c.direction
    BY <2>2 DEF Sound, AxisState
  <2> HIDE DEF t
  <2>4. Sound(t)
    BY <2>2, <2>3 DEF Sound
  <2>5. QED
    BY <2>1, <2>2, <2>3, <2>4
<1>2. CASE ~(s.direction # 0 /\ s.direction # direction /\ s.impulses # <<>>)
  <2>1. Turned(s, direction) = s
    BY <1>2 DEF Turned
  <2>2. ASSUME NEW i \in DOMAIN s.impulses PROVE Sign(s.impulses[i].total) = direction
    <3>1. s.impulses # <<>> /\ Sign(s.impulses[i].total) = s.direction
      BY <2>2, <1>0, AxisType DEF Sound
    <3>2. s.impulses[i] \in Impulse
      BY <1>0, <2>2, AxisType
    <3>3. s.direction # 0
      BY <3>1, <3>2, ImpulseType DEF Sign
    <3>4. QED
      BY <1>2, <3>1, <3>3
  <2>3. QED
    BY <2>1, <2>2
<1>3. QED
  BY <1>1, <1>2

\* The fields of an axis a wheel event was pushed to.
LEMMA PushedSound ==
  ASSUME tuning \in Tuning, NEW s, Sound(s), NEW delta \in Int \ {0}, NEW time \in Nat
  PROVE  /\ Sound(Pushed(s, delta, time))
         /\ \A i \in DOMAIN Pushed(s, delta, time).impulses :
              \/ Pushed(s, delta, time).impulses[i].position = 0
              \/ i \in DOMAIN s.impulses /\ Pushed(s, delta, time).impulses[i] = s.impulses[i]
<1> DEFINE direction == Sign(delta)
           old == Turned(s, direction)
           turned == [old EXCEPT !.direction = direction]
           acceleration == NextAcceleration(turned, time)
           total == TotalDelta(delta, acceleration)
           i == [start |-> time, duration |-> tuning.duration, total |-> total, position |-> 0]
           p == Pushed(s, delta, time)
<1>1. direction \in {-1, 1}
  BY DEF Sign
<1>2. Sound(old) /\ \A k \in DOMAIN old.impulses : Sign(old.impulses[k].total) = direction
  BY <1>1, TurnedSound
<1>3. old.impulses = <<>> \/ old.impulses = s.impulses
  <2>1. CASE s.direction # 0 /\ s.direction # direction /\ s.impulses # <<>>
    <3>1. Cancelled(s).impulses = <<>> /\ Cancelled(s) \in AxisState
      BY CancelledSound DEF Sound
    <3>2. old = [Cancelled(s) EXCEPT !.acceleration = 100, !.lastInput = -1]
      BY <2>1 DEF Turned
    <3>3. QED
      BY <3>1, <3>2 DEF AxisState
  <2>2. CASE ~(s.direction # 0 /\ s.direction # direction /\ s.impulses # <<>>)
    BY <2>2 DEF Turned
  <2>3. QED
    BY <2>1, <2>2
<1> HIDE DEF direction, old
<1>4. old \in AxisState
  BY <1>2 DEF Sound
<1>5. /\ turned.lastInput = old.lastInput /\ turned.acceleration = old.acceleration
      /\ turned.impulses = old.impulses /\ turned.accepted = old.accepted
      /\ turned = [impulses |-> old.impulses, fractional |-> old.fractional,
                   lastInput |-> old.lastInput, acceleration |-> old.acceleration,
                   direction |-> direction, accepted |-> old.accepted,
                   emitted |-> old.emitted, cancelled |-> old.cancelled]
  BY <1>4 DEF AxisState
<1>6. p = [turned EXCEPT !.acceleration = acceleration,
                         !.impulses = Append(@, i),
                         !.accepted = @ + total,
                         !.lastInput = time]
  BY DEF Pushed, direction, old
<1> HIDE DEF turned
<1>7. acceleration \in Nat /\ acceleration >= 100
  <2>1. turned.lastInput \in Int /\ turned.acceleration \in Nat /\ turned.acceleration >= 100
    BY <1>2, <1>4, <1>5, AxisType DEF Sound
  <2>2. QED
    BY <2>1, AccelerationType
<1> HIDE DEF acceleration
<1>8. total \in Int \ {0} /\ Sign(total) = direction
  BY <1>7, TotalDeltaSign DEF direction
<1> HIDE DEF total
<1>9. i \in Impulse /\ i.position = 0 /\ i.total = total
  BY <1>8, TuningType DEF Impulse
<1> HIDE DEF i
<1> DEFINE queue == Append(old.impulses, i)
<1>10. p = [impulses |-> queue, fractional |-> old.fractional,
            lastInput |-> time, acceleration |-> acceleration,
            direction |-> direction, accepted |-> old.accepted + total,
            emitted |-> old.emitted, cancelled |-> old.cancelled]
  BY <1>5, <1>6
<1>11. /\ queue \in Seq(Impulse) /\ Unscrolled(queue) = Unscrolled(old.impulses) + Debt(i)
       /\ Len(queue) = Len(old.impulses) + 1 /\ queue # <<>>
       /\ \A k \in DOMAIN queue : \/ k = Len(queue) /\ queue[k] = i
                                  \/ k \in DOMAIN old.impulses /\ queue[k] = old.impulses[k]
  <2>1. old.impulses \in Seq(Impulse)
    BY <1>4, AxisType
  <2>2. QED
    BY <2>1, <1>9, UnscrolledAppend
<1>12. Debt(i) = Unit * total
  BY <1>8, <1>9, UnitAssumption DEF Debt
<1> HIDE DEF queue, p
<1>13. p \in AxisState
  <2>1. /\ old.fractional \in Int /\ old.accepted + total \in Int
        /\ old.emitted \in Int /\ old.cancelled \in Int /\ direction \in {-1, 0, 1}
        /\ time \in Nat \cup {-1}
    BY <1>1, <1>4, <1>8, AxisType
  <2>2. QED
    BY <2>1, <1>7, <1>10, <1>11 DEF AxisState
<1>14. Unit * p.accepted = Unit * (p.emitted + p.cancelled) + p.fractional + Unscrolled(p.impulses)
  <2>1. Unit * (old.accepted + total) = Unit * old.accepted + Unit * total
    BY <1>4, <1>8, AxisType, UnitAssumption
  <2>2. Unit * total \in Int
    BY <1>8, UnitAssumption
  <2>3. Unit * old.accepted = Unit * (old.emitted + old.cancelled) + old.fractional + Unscrolled(old.impulses)
    BY <1>2 DEF Sound
  <2>4. QED
    BY <2>1, <2>2, <2>3, <1>4, <1>10, <1>11, <1>12, AxisType
<1>15. ASSUME NEW k \in DOMAIN p.impulses PROVE Sign(p.impulses[k].total) = p.direction
  BY <1>2, <1>8, <1>9, <1>10, <1>11
<1>16. Magnitude(p.fractional) < Unit
  BY <1>2, <1>10 DEF Sound
<1>17. Sound(p)
  BY <1>7, <1>10, <1>11, <1>13, <1>14, <1>15, <1>16 DEF Sound
<1>18. ASSUME NEW k \in DOMAIN p.impulses
       PROVE  \/ p.impulses[k].position = 0
              \/ k \in DOMAIN s.impulses /\ p.impulses[k] = s.impulses[k]
  <2>1. CASE p.impulses[k] = i
    BY <2>1, <1>9
  <2>2. CASE k \in DOMAIN old.impulses /\ p.impulses[k] = old.impulses[k]
    BY <2>2, <1>3
  <2>3. QED
    BY <2>1, <2>2, <1>10, <1>11
<1>19. QED
  BY <1>17, <1>18 DEF p

-----------------------------------------------------------------------------
\* The parts of SampleAxis.
Scrolled(s, time) == [i \in DOMAIN s.impulses |-> Advanced(s.impulses[i], time)]
Available(s, time) == s.fractional + Unscrolled(s.impulses) - Unscrolled(Scrolled(s, time))
Whole(s, time) == WholeQuotient(Available(s, time), Unit)
Rest(s, time) == Available(s, time) - Whole(s, time) * Unit

\* The impulse is not ahead of the curve at this time.
NotAhead(i, time) ==
  LET reached == Advanced(i, time).position
  IN  IF i.total > 0 THEN i.position <= reached ELSE reached <= i.position

\* The curve under the tuning in force.
LEMMA TunedProgress ==
  ASSUME tuning \in Tuning, NEW i \in Impulse, NEW time \in Nat, NEW later \in Nat, time <= later
  PROVE  LET e == EvaluateProgress(time - i.start, i.duration, tuning.ratio, tuning.easing)
             f == EvaluateProgress(later - i.start, i.duration, tuning.ratio, tuning.easing)
         IN  /\ e \in Nat /\ f \in Nat /\ e <= f
             /\ Ended(i, time) => e = Unit
<1>1. /\ time - i.start \in Int /\ later - i.start \in Int /\ i.duration \in Nat \ {0}
      /\ time - i.start <= later - i.start
      /\ Ended(i, time) => time - i.start >= i.duration
  BY ImpulseType DEF Ended
<1>2. /\ tuning.ratio.head \in Nat \ {0} /\ tuning.ratio.tail \in Nat \ {0}
      /\ tuning.easing \in BOOLEAN
  BY TuningType
<1> DEFINE x == time - i.start
           y == later - i.start
           d == i.duration
           ratio == tuning.ratio
           easing == tuning.easing
<1>3. /\ x \in Int /\ y \in Int /\ d \in Nat \ {0} /\ x <= y
      /\ ratio.head \in Nat \ {0} /\ ratio.tail \in Nat \ {0} /\ easing \in BOOLEAN
  BY <1>1, <1>2
<1> HIDE DEF x, y, d, ratio, easing
<1>4. /\ EvaluateProgress(x, d, ratio, easing) \in Nat
      /\ EvaluateProgress(x, d, ratio, easing) <= EvaluateProgress(y, d, ratio, easing)
      /\ x >= d => EvaluateProgress(x, d, ratio, easing) = Unit
  BY <1>3, ProgressMonotone
<1>5. y <= y
  BY <1>3
<1>6. EvaluateProgress(y, d, ratio, easing) \in Nat
  BY <1>3, <1>5, ProgressMonotone
<1>7. QED
  BY <1>1, <1>4, <1>6 DEF x, y, d, ratio, easing

LEMMA AdvancedIs ==
  ASSUME tuning \in Tuning, NEW i \in Impulse, NEW time \in Nat
  PROVE  /\ Advanced(i, time) \in Impulse
         /\ Advanced(i, time).start = i.start /\ Advanced(i, time).duration = i.duration
         /\ Advanced(i, time).total = i.total
         /\ Advanced(i, time).position = i.total *
              EvaluateProgress(time - i.start, i.duration, tuning.ratio, tuning.easing)
         /\ Ended(Advanced(i, time), time) = Ended(i, time)
         /\ Ended(i, time) => Debt(Advanced(i, time)) = 0
<1> DEFINE e == EvaluateProgress(time - i.start, i.duration, tuning.ratio, tuning.easing)
<1>1. time <= time
  OBVIOUS
<1>2. e \in Nat /\ (Ended(i, time) => e = Unit)
  BY <1>1, TunedProgress
<1> HIDE DEF e
<1>3. i.total * e \in Int
  BY <1>2, ImpulseType
<1>4. Advanced(i, time) = [start |-> i.start, duration |-> i.duration, total |-> i.total,
                           position |-> i.total * e]
  BY DEF Advanced, Impulse, e
<1>5. Advanced(i, time) \in Impulse
  BY <1>3, <1>4, ImpulseType DEF Impulse
<1>7. Ended(i, time) => Debt(Advanced(i, time)) = 0
  BY <1>2, <1>4, ImpulseType DEF Debt
<1>8. QED
  BY <1>4, <1>5, <1>7 DEF Ended, e

\* A later time never takes an impulse back.
LEMMA AdvancedMonotone ==
  ASSUME tuning \in Tuning, NEW i \in Impulse, NEW time \in Nat, NEW later \in Nat, time <= later,
         NotAhead(i, time)
  PROVE  NotAhead(i, later)
<1> DEFINE e == EvaluateProgress(time - i.start, i.duration, tuning.ratio, tuning.easing)
           f == EvaluateProgress(later - i.start, i.duration, tuning.ratio, tuning.easing)
<1>2. e \in Nat /\ f \in Nat /\ e <= f
  BY TunedProgress
<1>3. Advanced(i, time).position = i.total * e /\ Advanced(i, later).position = i.total * f
  BY AdvancedIs
<1> HIDE DEF e, f
<1>4. i.total > 0 => i.total * e <= i.total * f
  BY <1>2, ImpulseType
<1>5. ~(i.total > 0) => i.total * f <= i.total * e
  BY <1>2, ImpulseType
<1>6. i.total * e \in Int /\ i.total * f \in Int /\ i.position \in Int
  BY <1>2, ImpulseType
<1>7. QED
  BY <1>3, <1>4, <1>5, <1>6 DEF NotAhead

\* A fresh impulse and one just moved are not ahead.
LEMMA FreshNotAhead ==
  ASSUME tuning \in Tuning, NEW i \in Impulse, i.position = 0, NEW time \in Nat
  PROVE  NotAhead(i, time)
<1> DEFINE e == EvaluateProgress(time - i.start, i.duration, tuning.ratio, tuning.easing)
<1>1. time <= time
  OBVIOUS
<1>2. e \in Nat
  BY <1>1, TunedProgress
<1>3. Advanced(i, time).position = i.total * e
  BY AdvancedIs
<1> HIDE DEF e
<1>4. QED
  BY <1>2, <1>3, ImpulseType DEF NotAhead

LEMMA AdvancedNotAhead ==
  ASSUME tuning \in Tuning, NEW i \in Impulse, NEW time \in Nat
  PROVE  NotAhead(Advanced(i, time), time)
<1> DEFINE j == Advanced(i, time)
<1>1. j \in Impulse /\ j.start = i.start /\ j.duration = i.duration /\ j.total = i.total
  BY AdvancedIs
<1>2. j.position = i.total * EvaluateProgress(time - i.start, i.duration, tuning.ratio, tuning.easing)
  BY AdvancedIs
<1> HIDE DEF j
<1>3. Advanced(j, time).position = j.position
  BY <1>1, <1>2, AdvancedIs
<1>4. j.position \in Int
  BY <1>1, ImpulseType
<1>5. QED
  BY <1>3, <1>4 DEF NotAhead, j

LEMMA ScrolledType ==
  ASSUME tuning \in Tuning, NEW s \in AxisState, NEW time \in Nat
  PROVE  /\ Scrolled(s, time) \in Seq(Impulse) /\ Len(Scrolled(s, time)) = Len(s.impulses)
         /\ \A k \in 1 .. Len(s.impulses) :
              /\ s.impulses[k] \in Impulse
              /\ Scrolled(s, time)[k] = Advanced(s.impulses[k], time)
         /\ Unscrolled(Pending(Scrolled(s, time), time)) = Unscrolled(Scrolled(s, time))
         /\ Available(s, time) \in Int
<1>1. s.impulses \in Seq(Impulse) /\ s.fractional \in Int /\ Unscrolled(s.impulses) \in Int
  BY AxisType
<1>2. \A k \in 1 .. Len(s.impulses) : s.impulses[k] \in Impulse
  BY <1>1
<1>3. \A k \in 1 .. Len(s.impulses) : Advanced(s.impulses[k], time) \in Impulse
  BY <1>2, AdvancedIs
<1> DEFINE moved == Scrolled(s, time)
<1>4. moved = [k \in 1 .. Len(s.impulses) |-> Advanced(s.impulses[k], time)]
  BY <1>1 DEF Scrolled
<1> HIDE DEF moved
<1>5. moved \in Seq(Impulse) /\ Len(moved) = Len(s.impulses)
  BY <1>1, <1>3, <1>4
<1>6. ASSUME NEW k \in 1 .. Len(moved), Ended(moved[k], time) PROVE Debt(moved[k]) = 0
  <2>1. moved[k] = Advanced(s.impulses[k], time) /\ s.impulses[k] \in Impulse
    BY <1>2, <1>4, <1>5
  <2>2. QED
    BY <1>6, <2>1, AdvancedIs
<1>7. Unscrolled(Pending(moved, time)) = Unscrolled(moved)
  BY <1>5, <1>6, UnscrolledPending
<1>8. Unscrolled(moved) \in Int
  BY <1>5, DebtsType
<1>9. s.fractional + Unscrolled(s.impulses) - Unscrolled(moved) \in Int
  BY <1>1, <1>8
<1>10. QED
  BY <1>2, <1>4, <1>5, <1>7, <1>9 DEF moved, Available

\* What a sample does to an axis: when the last impulse leaves nothing is left to
\* round, since whole units were promised.
LEMMA SampledIs ==
  ASSUME tuning \in Tuning, NEW s, Sound(s), NEW time \in Nat
  PROVE  /\ SampledAxis(s, time) =
              [s EXCEPT !.impulses = Pending(Scrolled(s, time), time),
                        !.fractional = Rest(s, time),
                        !.emitted = s.emitted + Whole(s, time)]
         /\ Whole(s, time) \in Int /\ Rest(s, time) \in Int
         /\ Magnitude(Rest(s, time)) < Unit
         /\ Pending(Scrolled(s, time), time) = <<>> => Rest(s, time) = 0
<1> DEFINE pending == Pending(Scrolled(s, time), time)
           owed == s.accepted - s.emitted - s.cancelled
<1>0. s \in AxisState
  BY DEF Sound
<1>u. Unit \in Nat \ {0}
  BY UnitAssumption
<1>1. Available(s, time) \in Int /\ Unscrolled(pending) = Unscrolled(Scrolled(s, time))
  BY <1>0, ScrolledType
<1>2. Whole(s, time) \in Int /\ Rest(s, time) \in Int /\ Magnitude(Rest(s, time)) < Unit
  BY <1>1, <1>u, WholeRest DEF Whole, Rest
<1>3. ASSUME pending = <<>> PROVE Rest(s, time) = 0
  <2>1. Unscrolled(Scrolled(s, time)) = 0
    BY <1>1, <1>3, UnscrolledNone
  <2>2. /\ owed \in Int
        /\ Unit * owed = Unit * s.accepted - (Unit * s.emitted + Unit * s.cancelled)
    <3>1. s.accepted \in Int /\ s.emitted \in Int /\ s.cancelled \in Int
      BY <1>0, AxisType
    <3>2. QED
      BY <3>1, <1>u
  <2>3. Available(s, time) = Unit * owed
    <3>1. Unit * s.accepted = Unit * s.emitted + Unit * s.cancelled + s.fractional + Unscrolled(s.impulses)
      BY <1>0, AxisType DEF Sound
    <3>2. /\ Unit * s.emitted \in Int /\ Unit * s.cancelled \in Int
          /\ s.fractional \in Int /\ Unscrolled(s.impulses) \in Int
      BY <1>0, AxisType
    <3>3. Available(s, time) = s.fractional + Unscrolled(s.impulses) - 0
      BY <2>1 DEF Available
    <3>4. QED
      BY <2>2, <3>1, <3>2, <3>3
  <2> DEFINE k == owed - Whole(s, time)
  <2>4. k \in Int
    BY <2>2, <1>2
  <2>5. Rest(s, time) = Unit * k
    BY <2>2, <2>3, <1>2, <1>u DEF Rest
  <2> HIDE DEF k
  <2>6. k > 0 => Unit * k >= Unit
    BY <2>4, <1>u
  <2>7. k < 0 => Unit * k <= -Unit
    BY <2>4, <1>u
  <2>8. k = 0
    BY <2>4, <2>5, <2>6, <2>7, <1>2, <1>u DEF Magnitude
  <2>9. QED
    BY <2>5, <2>8, <1>u
<1>4. RoundedQuotient(0, Unit) = 0
  <2>1. RoundedQuotient(0 * Unit, Unit) = 0 /\ 0 * Unit = 0
    BY <1>u, RoundedExact
  <2>2. QED
    BY <2>1
<1>5. SampledAxis(s, time) =
        [s EXCEPT !.impulses = pending,
                  !.fractional = IF pending = <<>> THEN 0 ELSE Rest(s, time),
                  !.emitted = @ + Whole(s, time)
                     + (IF pending = <<>> THEN RoundedQuotient(Rest(s, time), Unit) ELSE 0)]
  BY DEF SampledAxis, Scrolled, Available, Whole, Rest
<1>6. SampledAxis(s, time) =
        [s EXCEPT !.impulses = pending, !.fractional = Rest(s, time),
                  !.emitted = s.emitted + Whole(s, time)]
  <2> HIDE DEF pending
  <2>1. (IF pending = <<>> THEN 0 ELSE Rest(s, time)) = Rest(s, time)
    BY <1>3
  <2>2. (IF pending = <<>> THEN RoundedQuotient(Rest(s, time), Unit) ELSE 0) = 0
    BY <1>3, <1>4
  <2>3. s.emitted + Whole(s, time) + 0 = s.emitted + Whole(s, time)
    BY <1>0, <1>2, AxisType
  <2>4. QED
    BY <1>5, <2>1, <2>2, <2>3
<1>7. QED
  BY <1>2, <1>3, <1>6

LEMMA SampledSound ==
  ASSUME tuning \in Tuning, NEW s, Sound(s), NEW time \in Nat
  PROVE  /\ Sound(SampledAxis(s, time))
         /\ SampledAxis(s, time).impulses = Pending(Scrolled(s, time), time)
         /\ SampledAxis(s, time).emitted - s.emitted = Whole(s, time)
         /\ \A i \in DOMAIN SampledAxis(s, time).impulses :
              /\ SampledAxis(s, time).impulses[i] \in Impulse
              /\ NotAhead(SampledAxis(s, time).impulses[i], time)
<1> DEFINE moved == Scrolled(s, time)
           pending == Pending(moved, time)
           whole == Whole(s, time)
           rest == Rest(s, time)
           t == SampledAxis(s, time)
<1>0. s \in AxisState
  BY DEF Sound
<1>u. Unit \in Nat \ {0}
  BY UnitAssumption
<1>1. /\ t = [s EXCEPT !.impulses = pending, !.fractional = rest, !.emitted = s.emitted + whole]
      /\ whole \in Int /\ rest \in Int /\ Magnitude(rest) < Unit
      /\ pending = <<>> => rest = 0
  BY SampledIs
<1>2. /\ moved \in Seq(Impulse) /\ Len(moved) = Len(s.impulses)
      /\ Unscrolled(pending) = Unscrolled(moved)
      /\ \A k \in 1 .. Len(s.impulses) :
           s.impulses[k] \in Impulse /\ moved[k] = Advanced(s.impulses[k], time)
  BY <1>0, ScrolledType
<1> HIDE DEF moved
<1>3. PICK m \in 0 .. Len(moved) :
        /\ pending \in Seq(Impulse) /\ Len(pending) = Len(moved) - m
        /\ \A k \in 1 .. Len(moved) - m : pending[k] = moved[k + m]
  BY <1>2, PendingDrops
<1>4. rest = (s.fractional + Unscrolled(s.impulses) - Unscrolled(moved)) - whole * Unit
  BY DEF Rest, Available, moved
<1> HIDE DEF pending, whole, rest
<1>5. t = [impulses |-> pending, fractional |-> rest, lastInput |-> s.lastInput,
           acceleration |-> s.acceleration, direction |-> s.direction, accepted |-> s.accepted,
           emitted |-> s.emitted + whole, cancelled |-> s.cancelled]
  BY <1>0, <1>1 DEF AxisState
<1> HIDE DEF t
<1>6. s.emitted + whole \in Int
  BY <1>0, <1>1, AxisType
<1>7. t \in AxisState
  BY <1>0, <1>1, <1>3, <1>5, <1>6, AxisType DEF AxisState
<1>8. Unit * t.accepted = Unit * (t.emitted + t.cancelled) + t.fractional + Unscrolled(t.impulses)
  <2>1. Unit * (t.emitted + t.cancelled) = Unit * s.emitted + whole * Unit + Unit * s.cancelled
    <3>1. s.emitted \in Int /\ s.cancelled \in Int /\ whole \in Int
      BY <1>0, <1>1, AxisType
    <3>2. t.emitted = s.emitted + whole /\ t.cancelled = s.cancelled
      BY <1>5
    <3>3. Unit * (s.emitted + whole + s.cancelled)
            = Unit * s.emitted + whole * Unit + Unit * s.cancelled
      BY <3>1, <1>u
    <3>4. QED
      BY <3>2, <3>3
  <2>2. whole * Unit \in Int /\ Unscrolled(moved) \in Int
    BY <1>1, <1>2, <1>u, DebtsType
  <2>3. Unit * s.accepted = Unit * s.emitted + Unit * s.cancelled + s.fractional + Unscrolled(s.impulses)
    BY <1>0, AxisType DEF Sound
  <2>4. /\ t.accepted = s.accepted /\ t.fractional = rest /\ t.impulses = pending
    BY <1>5
  <2>5. /\ Unit * s.emitted \in Int /\ Unit * s.cancelled \in Int
        /\ s.fractional \in Int /\ Unscrolled(s.impulses) \in Int
    BY <1>0, AxisType
  <2>6. Unscrolled(t.impulses) = Unscrolled(moved)
    BY <2>4, <1>2
  <2>7. t.fractional + Unscrolled(t.impulses) = s.fractional + Unscrolled(s.impulses) - whole * Unit
    BY <2>2, <2>4, <2>5, <2>6, <1>4
  <2>8. t.fractional \in Int /\ Unscrolled(t.impulses) \in Int
    BY <2>2, <2>4, <2>6, <1>1
  <2>9. Unit * t.accepted = Unit * s.accepted
    BY <2>4
  <2> DEFINE accepted == Unit * s.accepted
             emitted == Unit * s.emitted
             cancelled == Unit * s.cancelled
             now == Unit * (t.emitted + t.cancelled)
             added == whole * Unit
             owed == Unscrolled(s.impulses)
             left == Unscrolled(t.impulses)
  <2>10. /\ now = emitted + added + cancelled
         /\ accepted = emitted + cancelled + s.fractional + owed
         /\ t.fractional + left = s.fractional + owed - added
         /\ emitted \in Int /\ cancelled \in Int /\ added \in Int /\ owed \in Int
         /\ left \in Int /\ s.fractional \in Int /\ t.fractional \in Int
    BY <2>1, <2>2, <2>3, <2>5, <2>7, <2>8
  <2> HIDE DEF accepted, emitted, cancelled, now, added, owed, left
  <2>11. accepted = now + t.fractional + left
    BY <2>10
  <2>12. QED
    BY <2>9, <2>11 DEF accepted, now, left
<1>9. ASSUME NEW k \in DOMAIN t.impulses
      PROVE  /\ Sign(t.impulses[k].total) = t.direction
             /\ t.impulses[k] \in Impulse /\ NotAhead(t.impulses[k], time)
  <2>1. k \in 1 .. Len(moved) - m /\ k + m \in 1 .. Len(s.impulses)
    <3>1. k \in 1 .. Len(pending)
      BY <1>3, <1>5, <1>9
    <3>2. m \in 0 .. Len(moved) /\ Len(moved) \in Nat /\ Len(pending) = Len(moved) - m
      BY <1>2, <1>3
    <3>3. Len(moved) = Len(s.impulses)
      BY <1>2
    <3>4. QED
      BY <3>1, <3>2, <3>3
  <2>2. /\ t.impulses[k] = Advanced(s.impulses[k + m], time)
        /\ s.impulses[k + m] \in Impulse
    BY <2>1, <1>2, <1>3, <1>5
  <2>3. /\ t.impulses[k].total = s.impulses[k + m].total
        /\ t.impulses[k] \in Impulse /\ NotAhead(t.impulses[k], time)
    <3> DEFINE i == s.impulses[k + m]
    <3>1. i \in Impulse /\ t.impulses[k] = Advanced(i, time)
      BY <2>2
    <3> HIDE DEF i
    <3>2. Advanced(i, time).total = i.total /\ Advanced(i, time) \in Impulse
      BY <3>1, AdvancedIs
    <3>3. NotAhead(Advanced(i, time), time)
      BY <3>1, AdvancedNotAhead
    <3>4. QED
      BY <3>1, <3>2, <3>3 DEF i
  <2>4. k + m \in DOMAIN s.impulses
    BY <1>0, <2>1, AxisType
  <2>5. Sign(s.impulses[k + m].total) = s.direction
    BY <2>4 DEF Sound
  <2>6. QED
    BY <2>3, <2>5, <1>5
<1>10. Sound(t)
  BY <1>1, <1>5, <1>7, <1>8, <1>9 DEF Sound
<1>11. t.emitted - s.emitted = whole
  BY <1>0, <1>1, <1>5, AxisType
<1>12. QED
  BY <1>5, <1>9, <1>10, <1>11 DEF t, pending, moved, whole

\* While no impulse is ahead of its curve a sample emits nothing against the momentum.
LEMMA SampledForward ==
  ASSUME tuning \in Tuning, NEW s, Sound(s), NEW time \in Nat,
         \A i \in DOMAIN s.impulses : NotAhead(s.impulses[i], time)
  PROVE  Sign(Whole(s, time)) \in {0, s.direction}
<1>0. s \in AxisState /\ Magnitude(s.fractional) < Unit
  BY DEF Sound
<1>u. Unit \in Nat \ {0}
  BY UnitAssumption
<1> DEFINE moved == Scrolled(s, time)
<1>1. /\ moved \in Seq(Impulse) /\ Len(moved) = Len(s.impulses)
      /\ \A k \in 1 .. Len(s.impulses) :
           s.impulses[k] \in Impulse /\ moved[k] = Advanced(s.impulses[k], time)
  BY <1>0, ScrolledType
<1>2. /\ Available(s, time) = s.fractional + (Unscrolled(s.impulses) - Unscrolled(moved))
      /\ Unscrolled(s.impulses) \in Int /\ Unscrolled(moved) \in Int
      /\ s.impulses \in Seq(Impulse) /\ s.fractional \in Int /\ s.direction \in {-1, 0, 1}
  BY <1>0, <1>1, AxisType, DebtsType DEF Available
<1> HIDE DEF moved
<1>3. ASSUME NEW k \in 1 .. Len(s.impulses)
      PROVE  /\ s.impulses[k].total \in Int \ {0} /\ Sign(s.impulses[k].total) = s.direction
             /\ moved[k].total = s.impulses[k].total
             /\ s.impulses[k].position \in Int /\ moved[k].position \in Int
             /\ s.impulses[k].total > 0 => s.impulses[k].position <= moved[k].position
             /\ ~(s.impulses[k].total > 0) => moved[k].position <= s.impulses[k].position
  <2>1. k \in DOMAIN s.impulses
    BY <1>2
  <2>2. /\ Sign(s.impulses[k].total) = s.direction /\ NotAhead(s.impulses[k], time)
        /\ s.impulses[k] \in Impulse /\ moved[k] = Advanced(s.impulses[k], time)
    BY <2>1, <1>1 DEF Sound
  <2>3. moved[k] \in Impulse /\ moved[k].total = s.impulses[k].total
    BY <2>2, AdvancedIs
  <2>4. QED
    BY <2>2, <2>3, ImpulseType DEF NotAhead
<1>4. /\ Available(s, time) \in Int
      /\ Available(s, time) > -Unit => Whole(s, time) >= 0
      /\ Available(s, time) < Unit => Whole(s, time) <= 0
      /\ Whole(s, time) \in Int
  <2>1. Available(s, time) \in Int
    BY <1>2
  <2>2. QED
    BY <2>1, <1>u, WholeRest DEF Whole
<1>5. CASE s.direction = 1
  <2>1. \A k \in 1 .. Len(s.impulses) : /\ moved[k].total = s.impulses[k].total
                                        /\ s.impulses[k].position <= moved[k].position
    BY <1>3, <1>5 DEF Sign
  <2>2. Unscrolled(moved) <= Unscrolled(s.impulses)
    BY <2>1, <1>1, <1>2, UnscrolledMonotone
  <2>3. Available(s, time) > -Unit
    BY <2>2, <1>0, <1>2, <1>u DEF Magnitude
  <2>4. QED
    BY <2>3, <1>4, <1>5 DEF Sign
<1>6. CASE s.direction = -1
  <2>1. \A k \in 1 .. Len(moved) : /\ s.impulses[k].total = moved[k].total
                                   /\ moved[k].position <= s.impulses[k].position
    BY <1>1, <1>3, <1>6 DEF Sign
  <2>2. Unscrolled(s.impulses) <= Unscrolled(moved)
    BY <2>1, <1>1, <1>2, UnscrolledMonotone
  <2>3. Available(s, time) < Unit
    BY <2>2, <1>0, <1>2, <1>u DEF Magnitude
  <2>4. QED
    BY <2>3, <1>4, <1>6 DEF Sign
<1>7. CASE s.direction = 0
  <2>1. Len(s.impulses) = 0
    <3>1. ASSUME Len(s.impulses) # 0 PROVE FALSE
      <4>1. 1 \in 1 .. Len(s.impulses)
        BY <1>2, <3>1
      <4>2. QED
        BY <4>1, <1>3, <1>7 DEF Sign
    <3>2. QED
      BY <3>1
  <2>2. s.impulses = <<>> /\ moved = <<>>
    BY <2>1, <1>1, <1>2
  <2>3. s.fractional = 0
    BY <2>2 DEF Sound
  <2>4. Available(s, time) = 0
    BY <2>2, <2>3, <1>2
  <2>5. QED
    BY <2>4, <1>4, <1>u DEF Sign
<1>8. QED
  BY <1>2, <1>5, <1>6, <1>7

-----------------------------------------------------------------------------
(* The inductive invariant.                                                *)

\* Until the settings change, no impulse is ahead of where its curve put it last.
OnCurve ==
  ~retuned => \A a \in Axis : \A i \in DOMAIN axes[a].impulses : NotAhead(axes[a].impulses[i], sampled)

IInv == TypeOK /\ Conserved /\ IdleSettled /\ OneDirection /\ OnCurve

\* The four invariants say of every axis that it is sound.
LEMMA SoundAxes ==
  /\ TypeOK /\ Conserved /\ IdleSettled /\ OneDirection =>
       \A a \in Axis : Sound(axes[a])
  /\ axes \in [Axis -> AxisState] /\ (\A a \in Axis : Sound(axes[a])) =>
       /\ \A a \in Axis : axes[a].acceleration >= 100 /\ Magnitude(axes[a].fractional) < Unit
       /\ Conserved /\ IdleSettled /\ OneDirection
<1>1. ASSUME TypeOK, Conserved, IdleSettled, OneDirection, NEW a \in Axis PROVE Sound(axes[a])
  BY <1>1 DEF TypeOK, Conserved, IdleSettled, OneDirection, Sound
<1>2. ASSUME axes \in [Axis -> AxisState], \A a \in Axis : Sound(axes[a])
      PROVE  /\ \A a \in Axis : axes[a].acceleration >= 100 /\ Magnitude(axes[a].fractional) < Unit
             /\ Conserved /\ IdleSettled /\ OneDirection
  <2>1. Conserved /\ OneDirection
    BY <1>2 DEF Conserved, OneDirection, Sound
  <2>2. ASSUME NEW a \in Axis, axes[a].impulses = <<>>
        PROVE  axes[a].fractional = 0 /\ axes[a].accepted = axes[a].emitted + axes[a].cancelled
    <3>1. axes[a].fractional = 0 /\ Unscrolled(axes[a].impulses) = 0 /\ axes[a] \in AxisState
      BY <1>2, <2>2, UnscrolledNone DEF Sound
    <3>2. Unit * axes[a].accepted = Unit * (axes[a].emitted + axes[a].cancelled) + 0 + 0
      BY <1>2, <3>1 DEF Sound
    <3>3. /\ axes[a].accepted \in Int /\ axes[a].emitted \in Int /\ axes[a].cancelled \in Int
      BY <3>1, AxisType
    <3> DEFINE x == axes[a].accepted
               y == axes[a].emitted + axes[a].cancelled
    <3>4. x \in Int /\ y \in Int /\ Unit * x = Unit * y
      BY <3>2, <3>3, UnitAssumption
    <3> HIDE DEF x, y
    <3>5. x = y
      BY <3>4, UnitAssumption
    <3>6. QED
      BY <3>1, <3>5 DEF x, y
  <2>3. QED
    BY <1>2, <2>1, <2>2 DEF IdleSettled, Sound
<1>3. QED
  BY <1>1, <1>2

LEMMA InitIInv == Init => IInv
<1> SUFFICES ASSUME Init PROVE IInv
  OBVIOUS
<1>1. Idle.impulses = <<>> /\ Idle \in AxisState
  <2>1. <<>> \in Seq(Impulse)
    OBVIOUS
  <2>2. QED
    BY <2>1 DEF Idle, AxisState
<1>2. Sound(Idle)
  <2>1. Unscrolled(Idle.impulses) = 0 /\ DOMAIN Idle.impulses = {}
    BY <1>1, UnscrolledNone
  <2>2. QED
    BY <1>1, <2>1, UnitAssumption DEF Sound, Idle, Magnitude
<1>3. axes \in [Axis -> AxisState] /\ \A a \in Axis : axes[a] = Idle
  BY <1>1 DEF Init
<1>4. \A a \in Axis : Sound(axes[a])
  BY <1>2, <1>3
<1>5. Conserved /\ IdleSettled /\ OneDirection
  BY <1>3, <1>4, SoundAxes
<1>6. TypeOK
  BY <1>3, <1>4, SoundAxes, BoundAssumption DEF Init, TypeOK
<1>7. OnCurve
  BY <1>1, <1>3 DEF OnCurve
<1>8. QED
  BY <1>5, <1>6, <1>7 DEF IInv

LEMMA StepIInv ==
  ASSUME axes' \in [Axis -> AxisState], \A a \in Axis : Sound(axes'[a]),
         tuning' \in Tuning, clock' \in 0 .. MaxTime, sampled' \in 0 .. clock',
         frame' \in [Axis -> Int], OnCurve'
  PROVE  IInv'
<1>1. /\ (\A a \in Axis : axes[a].acceleration >= 100 /\ Magnitude(axes[a].fractional) < Unit)'
      /\ Conserved' /\ IdleSettled' /\ OneDirection'
  <2>1. (axes \in [Axis -> AxisState] /\ (\A a \in Axis : Sound(axes[a])) =>
           /\ \A a \in Axis : axes[a].acceleration >= 100 /\ Magnitude(axes[a].fractional) < Unit
           /\ Conserved /\ IdleSettled /\ OneDirection)'
    BY SoundAxes, PTL
  <2>2. (axes \in [Axis -> AxisState] /\ (\A a \in Axis : Sound(axes[a])))'
    BY DEF Sound
  <2>3. QED
    BY <2>1, <2>2
<1>2. TypeOK'
  BY <1>1 DEF TypeOK
<1>3. QED
  BY <1>1, <1>2 DEF IInv

\* What one sample does, for every axis.
LEMMA SampleAxes ==
  ASSUME IInv, NEW time \in sampled .. clock, Sample(time)
  PROVE  /\ time \in Nat /\ tuning \in Tuning
         /\ \A a \in Axis :
              /\ Sound(axes[a]) /\ Sound(axes'[a])
              /\ axes'[a].impulses = Pending(Scrolled(axes[a], time), time)
              /\ frame'[a] = Whole(axes[a], time)
              /\ \A i \in DOMAIN axes'[a].impulses :
                   /\ axes'[a].impulses[i] \in Impulse
                   /\ NotAhead(axes'[a].impulses[i], time)
<1>1. time \in Nat /\ tuning \in Tuning /\ \A a \in Axis : Sound(axes[a])
  BY SoundAxes DEF IInv, TypeOK
<1>2. ASSUME NEW a \in Axis
      PROVE  /\ Sound(axes[a]) /\ Sound(axes'[a])
             /\ axes'[a].impulses = Pending(Scrolled(axes[a], time), time)
             /\ frame'[a] = Whole(axes[a], time)
             /\ \A i \in DOMAIN axes'[a].impulses :
                  /\ axes'[a].impulses[i] \in Impulse
                  /\ NotAhead(axes'[a].impulses[i], time)
  <2> DEFINE s == axes[a]
             t == axes'[a]
  <2>1. Sound(s) /\ t = SampledAxis(s, time) /\ frame'[a] = t.emitted - s.emitted
    BY <1>1 DEF Sample
  <2> HIDE DEF s, t
  <2>2. QED
    BY <1>1, <2>1, SampledSound DEF s, t
<1>3. QED
  BY <1>1, <1>2

LEMMA NextIInv == IInv /\ [Next]_vars => IInv'
<1> SUFFICES ASSUME IInv, [Next]_vars PROVE IInv'
  OBVIOUS
<1>t. /\ tuning \in Tuning /\ clock \in 0 .. MaxTime /\ sampled \in 0 .. clock
      /\ axes \in [Axis -> AxisState] /\ frame \in [Axis -> Int]
      /\ \A a \in Axis : Sound(axes[a])
      /\ \A a \in Axis : axes[a].impulses \in Seq(Impulse)
  BY SoundAxes, AxisType DEF IInv, TypeOK
<1>b. clock \in Nat /\ sampled \in Nat
  BY <1>t, BoundAssumption
<1>c. OnCurve
  BY DEF IInv
<1>1. ASSUME NEW a \in Axis, NEW delta \in Delta, NEW time \in {clock - 1, clock} \cap Nat,
             Push(a, delta, time)
      PROVE  IInv'
  <2> DEFINE s == axes[a]
             p == Pushed(s, delta, time)
  <2>1. /\ axes' = [axes EXCEPT ![a] = p]
        /\ UNCHANGED <<tuning, clock, sampled, frame, retuned>>
    BY <1>1 DEF Push
  <2>2. /\ Sound(p)
        /\ \A i \in DOMAIN p.impulses :
             p.impulses[i].position = 0 \/ (i \in DOMAIN s.impulses /\ p.impulses[i] = s.impulses[i])
    <3>1. Sound(s) /\ delta \in Int \ {0} /\ time \in Nat
      BY <1>t, DeltaAssumption
    <3> HIDE DEF s
    <3>2. QED
      BY <1>t, <3>1, PushedSound
  <2> HIDE DEF p
  <2>3. p \in AxisState
    BY <2>2 DEF Sound
  <2>4. axes' \in [Axis -> AxisState] /\ \A b \in Axis : axes'[b] = IF b = a THEN p ELSE axes[b]
    BY <1>t, <2>1, <2>3
  <2>5. \A b \in Axis : Sound(axes'[b])
    BY <1>t, <2>2, <2>4
  <2>6. OnCurve'
    <3>1. SUFFICES ASSUME ~retuned', NEW b \in Axis, NEW i \in DOMAIN axes'[b].impulses
                   PROVE  NotAhead(axes'[b].impulses[i], sampled)
      BY <2>1 DEF OnCurve, NotAhead, Advanced
    <3>2. CASE b = a /\ p.impulses[i].position = 0
      <4>1. axes'[b] = p /\ p.impulses \in Seq(Impulse)
        BY <2>3, <2>4, <3>2, AxisType
      <4>2. p.impulses[i] \in Impulse
        BY <3>1, <4>1
      <4>3. QED
        BY <1>t, <1>b, <3>2, <4>1, <4>2, FreshNotAhead
    <3>3. CASE i \in DOMAIN axes[b].impulses /\ axes'[b].impulses[i] = axes[b].impulses[i]
      BY <1>c, <2>1, <3>1, <3>3 DEF OnCurve
    <3>4. QED
      BY <2>2, <2>4, <3>1, <3>2, <3>3
  <2>7. QED
    BY <1>t, <2>1, <2>4, <2>5, <2>6, StepIInv
<1>2. ASSUME NEW time \in sampled .. clock, Sample(time) PROVE IInv'
  <2>1. /\ time \in Nat
        /\ \A a \in Axis :
              /\ Sound(axes'[a]) /\ frame'[a] = Whole(axes[a], time)
              /\ \A i \in DOMAIN axes'[a].impulses : NotAhead(axes'[a].impulses[i], time)
    BY <1>2, SampleAxes
  <2>2. /\ axes' = [a \in Axis |-> SampledAxis(axes[a], time)]
        /\ frame' = [a \in Axis |-> axes'[a].emitted - axes[a].emitted]
        /\ sampled' = time /\ UNCHANGED <<tuning, clock>>
    BY <1>2 DEF Sample
  <2>3. axes' \in [Axis -> AxisState]
    BY <2>1, <2>2 DEF Sound
  <2>4. \A a \in Axis : axes'[a].emitted - axes[a].emitted \in Int
    BY <1>t, <2>3, AxisType
  <2>5. frame' \in [Axis -> Int]
    BY <2>2, <2>4
  <2>6. OnCurve'
    BY <2>1, <2>2 DEF OnCurve, NotAhead, Advanced
  <2>7. sampled' \in 0 .. clock'
    BY <1>2, <1>b, <2>2
  <2>8. QED
    BY <1>t, <2>1, <2>2, <2>3, <2>5, <2>6, <2>7, StepIInv
<1>3. CASE Reset
  <2>1. axes' = [a \in Axis |-> Cancelled(axes[a])] /\ UNCHANGED <<tuning, clock, sampled, frame, retuned>>
    BY <1>3 DEF Reset
  <2>2. \A a \in Axis : Sound(axes'[a]) /\ axes'[a].impulses = <<>>
    BY <1>t, <2>1, CancelledSound
  <2>3. axes' \in [Axis -> AxisState]
    BY <2>1, <2>2 DEF Sound
  <2>4. OnCurve'
    BY <2>2 DEF OnCurve
  <2>5. QED
    BY <1>t, <2>1, <2>2, <2>3, <2>4, StepIInv
<1>4. ASSUME NEW t \in Tuning, SetSettings(t) PROVE IInv'
  <2>1. tuning' = t /\ retuned' = (retuned \/ t # tuning) /\ UNCHANGED <<axes, clock, sampled, frame>>
    BY <1>4 DEF SetSettings
  <2>2. OnCurve'
    <3>1. CASE t = tuning
      BY <1>c, <2>1, <3>1 DEF OnCurve, NotAhead, Advanced
    <3>2. CASE t # tuning
      BY <2>1, <3>2 DEF OnCurve
    <3>3. QED
      BY <3>1, <3>2
  <2>3. QED
    BY <1>t, <2>1, <2>2, StepIInv
<1>5. CASE TimePasses
  <2>1. clock < MaxTime /\ clock' = clock + 1 /\ UNCHANGED <<axes, tuning, sampled, frame, retuned>>
    BY <1>5 DEF TimePasses
  <2>2. OnCurve'
    BY <1>c, <2>1 DEF OnCurve, NotAhead, Advanced
  <2>3. clock' \in 0 .. MaxTime /\ sampled' \in 0 .. clock'
    BY <1>t, <1>b, <2>1, BoundAssumption
  <2>4. QED
    BY <1>t, <2>1, <2>2, <2>3, StepIInv
<1>6. CASE UNCHANGED vars
  BY <1>6, <1>t, <1>c, StepIInv DEF vars, OnCurve, NotAhead, Advanced
<1>7. QED
  BY <1>1, <1>2, <1>3, <1>4, <1>5, <1>6 DEF Next

LEMMA Invariance == Spec => []IInv
<1>1. QED
  BY InitIInv, NextIInv, PTL DEF Spec

\* The types hold, whatever is pushed, sampled, reset or set: accelerations stay at
\* one or more and a kept remainder below one unit.
THEOREM TypeCorrect == Spec => []TypeOK
<1>1. IInv => TypeOK
  BY DEF IInv
<1>2. QED
  BY <1>1, Invariance, PTL

\* What the wheel was promised is emitted, written off, kept or still ahead, through
\* any sequence of overlapping impulses, reversals, resets and changes of settings.
THEOREM BooksBalance == Spec => []Conserved
<1>1. IInv => Conserved
  BY DEF IInv
<1>2. QED
  BY <1>1, Invariance, PTL

\* An axis without impulses has no remainder and has accounted for all it accepted.
THEOREM RestOwesNothing == Spec => []IdleSettled
<1>1. IInv => IdleSettled
  BY DEF IInv
<1>2. QED
  BY <1>1, Invariance, PTL

\* The impulses of an axis all go its direction.
THEOREM NoCrossMomentum == Spec => []OneDirection
<1>1. IInv => OneDirection
  BY DEF IInv
<1>2. QED
  BY <1>1, Invariance, PTL

\* The whole queue is looked at: nothing that ended stays behind one still running.
THEOREM SamplesSettle == Spec => SettlesOnTime
<1> DEFINE Settles == \A time \in sampled .. clock : Sample(time) =>
              \A a \in Axis : (\A i \in DOMAIN axes[a].impulses : Ended(axes[a].impulses[i], time))
                                => axes'[a].impulses = <<>>
<1>1. IInv /\ [Next]_vars => [Settles]_vars
  <2>1. SUFFICES ASSUME IInv, NEW time \in sampled .. clock, Sample(time), NEW a \in Axis,
                        \A i \in DOMAIN axes[a].impulses : Ended(axes[a].impulses[i], time)
                 PROVE  axes'[a].impulses = <<>>
    OBVIOUS
  <2>2. /\ time \in Nat /\ tuning \in Tuning /\ Sound(axes[a])
        /\ axes'[a].impulses = Pending(Scrolled(axes[a], time), time)
    BY <2>1, SampleAxes
  <2> DEFINE s == axes[a]
             moved == Scrolled(s, time)
  <2>3. s \in AxisState /\ s.impulses \in Seq(Impulse)
    BY <2>2, AxisType DEF Sound
  <2>4. /\ moved \in Seq(Impulse) /\ Len(moved) = Len(s.impulses)
        /\ \A k \in 1 .. Len(s.impulses) :
             s.impulses[k] \in Impulse /\ moved[k] = Advanced(s.impulses[k], time)
    BY <2>2, <2>3, ScrolledType
  <2>5. \A k \in DOMAIN moved : Ended(moved[k], time)
    <3>1. TAKE k \in DOMAIN moved
    <3>2. k \in DOMAIN s.impulses /\ s.impulses[k] \in Impulse /\ moved[k] = Advanced(s.impulses[k], time)
      BY <2>3, <2>4
    <3>3. QED
      BY <2>1, <2>2, <3>2, AdvancedIs
  <2> HIDE DEF moved
  <2>6. {k \in DOMAIN moved : ~ Ended(moved[k], time)} = {}
    BY <2>5
  <2>7. Pending(moved, time) = <<>>
    BY <2>6 DEF Pending
  <2>8. QED
    BY <2>2, <2>7 DEF moved
<1>2. QED
  BY <1>1, Invariance, PTL DEF Spec, SettlesOnTime

\* A frame never goes against the momentum while the settings stay: every curve
\* only grows, and the remainder is less than a unit.
THEOREM FramesGoForward == Spec => NoBacklash
<1> DEFINE Forward == \A time \in sampled .. clock : Sample(time) /\ ~retuned =>
              \A a \in Axis : Sign(frame'[a]) \in {0, axes[a].direction}
<1>1. IInv /\ [Next]_vars => [Forward]_vars
  <2>1. SUFFICES ASSUME IInv, NEW time \in sampled .. clock, Sample(time), ~retuned, NEW a \in Axis
                 PROVE  Sign(frame'[a]) \in {0, axes[a].direction}
    OBVIOUS
  <2>2. /\ time \in Nat /\ tuning \in Tuning /\ Sound(axes[a])
        /\ frame'[a] = Whole(axes[a], time)
    BY <2>1, SampleAxes
  <2> DEFINE s == axes[a]
  <2>3. s.impulses \in Seq(Impulse) /\ sampled \in Nat /\ sampled <= time
    <3>1. clock \in 0 .. MaxTime /\ sampled \in 0 .. clock
      BY <2>1 DEF IInv, TypeOK
    <3>2. QED
      BY <2>1, <2>2, <3>1, AxisType, BoundAssumption DEF Sound
  <2>4. \A i \in DOMAIN s.impulses : NotAhead(s.impulses[i], time)
    <3>1. TAKE i \in DOMAIN s.impulses
    <3>2. s.impulses[i] \in Impulse /\ NotAhead(s.impulses[i], sampled)
      BY <2>1, <2>3 DEF IInv, OnCurve
    <3>3. QED
      BY <2>2, <2>3, <3>2, AdvancedMonotone
  <2>5. QED
    BY <2>2, <2>4, SampledForward
<1>2. QED
  BY <1>1, Invariance, PTL DEF Spec, NoBacklash
=============================================================================
