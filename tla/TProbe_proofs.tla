----------------------------- MODULE TProbe_proofs -----------------------------
(***************************************************************************)
(* Proofs about a probe and its reports, for every set of readings whose   *)
(* differences a histogram can record, every set of batch sizes and of     *)
(* calibration floors, and any number of scopes.                           *)
(*                                                                         *)
(* Four arguments meet here.  Bags: a step adds its record to the bag of   *)
(* open records and to the bag of all ended ones, and a report moves the   *)
(* cost of each record into the histogram (Measures).  Division: a rounded *)
(* cost is the only value whose interval holds the exact one.  Buckets:    *)
(* they do not overlap, and one that is wider than 1 is at most a 1024th   *)
(* of any value in it (BucketIs).  Order: the mid-ranks of a histogram     *)
(* increase with its values, so that each band is an interval and what     *)
(* lies below it is a prefix (BandsOrdered, InsideIs); this part holds of  *)
(* every histogram, and of a report because what is on show is always the  *)
(* rendering of one (ShownRendered).                                       *)
(***************************************************************************)
EXTENDS TProbe, Sums_proofs

USE ReadingsAssumption, BoundAssumption

-----------------------------------------------------------------------------
(* Division *)

\* The quotient is the only number whose multiples enclose the dividend.
LEMMA DivEncloses ==
    ASSUME NEW n \in Nat, NEW b \in Nat \ {0}
    PROVE  /\ n \div b \in Nat
           /\ (n \div b) * b <= n /\ n < (n \div b) * b + b
OBVIOUS

LEMMA DivUnique ==
    ASSUME NEW n \in Nat, NEW b \in Nat \ {0}, NEW q \in Nat, q * b <= n, n < q * b + b
    PROVE  n \div b = q
OBVIOUS

\* Rounding is to the nearest, half up.
LEMMA RoundIs ==
    ASSUME NEW n \in Nat, NEW d \in Nat \ {0}
    PROVE  /\ Round(n, d) \in Nat
           /\ 2 * d * Round(n, d) <= 2 * n + d /\ 2 * n < 2 * d * Round(n, d) + d
<1> DEFINE m == 2 * n + d
           c == 2 * d
<1>1. m \in Nat /\ c \in Nat \ {0}
  OBVIOUS
<1> HIDE DEF m, c
<1>2. m \div c \in Nat /\ (m \div c) * c <= m /\ m < (m \div c) * c + c
  BY <1>1, DivEncloses
<1>3. Round(n, d) = m \div c
  BY DEF Round, m, c
<1> QED
  BY <1>2, <1>3 DEF m, c

\* The line through two floors in order passes through both, up to rounding.
LEMMA FitFits ==
    ASSUME NEW low \in Nat, NEW high \in Nat
    PROVE  Fits(low, high, calibrate(low, high))
<1> DEFINE L == max(high - low, 0)
           X == max(low * 9900 - 100 * L, 0)
           F == Round(X, 9900)
           fit == [framing_ticks |-> F, loop_per_iter_ticks |-> L]
           P == Round(F * 9900 + L * 100, 990000)
           Q == Round(F * 9900 + L * 10000, 99000000)
<1>1. /\ L \in Nat /\ (high >= low => L = high - low) /\ (high < low => L = 0)
  BY DEF max
<1> HIDE DEF L
<1>2. /\ X \in Nat /\ (low * 9900 >= 100 * L => X = low * 9900 - 100 * L)
      /\ (low * 9900 < 100 * L => X = 0)
  BY <1>1 DEF max
<1> HIDE DEF X
<1>3. F \in Nat /\ 19800 * F <= 2 * X + 9900 /\ 2 * X < 19800 * F + 9900
  BY <1>2 DEF Round
<1> HIDE DEF F
<1>4. /\ P \in Nat
      /\ 1980000 * P <= 2 * (F * 9900 + L * 100) + 990000
      /\ 2 * (F * 9900 + L * 100) < 1980000 * P + 990000
  BY <1>1, <1>3 DEF Round
<1>5. /\ Q \in Nat
      /\ 198000000 * Q <= 2 * (F * 9900 + L * 10000) + 99000000
      /\ 2 * (F * 9900 + L * 10000) < 198000000 * Q + 99000000
  BY <1>1, <1>3 DEF Round
<1> HIDE DEF P, Q
<1>6. calibrate(low, high) = fit
  BY DEF calibrate, N_LOW, SPREAD, N_HIGH, L, X, F
<1>7. fit.framing_ticks = F /\ fit.loop_per_iter_ticks = L
  OBVIOUS
<1> HIDE DEF fit
<1>8. /\ Error(fit, N_LOW, low) = 2 * (100 * P - low)
      /\ Error(fit, N_HIGH, high) = 2 * (10000 * Q - high)
  BY <1>7 DEF Error, per_event_ticks, max, N_LOW, N_HIGH, SPREAD, P, Q
<1>9. 2 * (100 * P - low) >= -100 - 1 /\ 2 * (10000 * Q - high) >= -10000 - 1
  BY <1>1, <1>2, <1>3, <1>4, <1>5
<1>10. low <= high /\ low * 10000 >= high * 100 =>
         2 * (100 * P - low) <= 100 + 1 /\ 2 * (10000 * Q - high) <= 10000 + 1
  BY <1>1, <1>2, <1>3, <1>4, <1>5
<1> QED
  BY <1>6, <1>8, <1>9, <1>10 DEF Fits, N_LOW, N_HIGH

\* The correction of a calibration reproduces both floors it was fitted to,
\* and takes off no less than was measured when no line fits them.
THEOREM FitIsReproduced == Spec => []FitReproduces
<1> DEFINE I == raw \in Raws /\ ovh = calibrate(raw.low, raw.high)
<1>1. Init => I
  BY DEF Init
<1>2. I /\ [Next]_vars => I'
  BY DEF Next, vars, start, end_batch, clear, report
<1>3. I => FitReproduces
  BY FitFits DEF FitReproduces
<1> QED
  BY <1>1, <1>2, <1>3, PTL DEF Spec

-----------------------------------------------------------------------------
(* Extremes *)

LEMMA MinIs ==
    ASSUME NEW S \in SUBSET Nat, S # {}
    PROVE  Min(S) \in S /\ \A y \in S : Min(S) <= y
<1>1. \E x \in S : \A y \in S : x <= y
  BY Least
<1> QED
  BY <1>1 DEF Min

LEMMA MaxIs ==
    ASSUME NEW S \in SUBSET Nat, IsFiniteSet(S), S # {}
    PROVE  Max(S) \in S /\ \A y \in S : Max(S) >= y
<1> DEFINE G == {s \in SUBSET S : s # {} => \E x \in s : \A y \in s : x >= y}
<1>1. ASSUME NEW s \in SUBSET S, \A t \in SUBSET s : t # s => t \in G PROVE s \in G
  <2> SUFFICES ASSUME s # {} PROVE \E x \in s : \A y \in s : x >= y
    OBVIOUS
  <2>1. PICK z \in s : s \ {z} \in G
    <3>1. PICK z \in s : TRUE
      OBVIOUS
    <3>2. s \ {z} \in SUBSET s /\ s \ {z} # s
      OBVIOUS
    <3>3. s \ {z} \in G
      BY <1>1, <3>2
    <3> QED
      BY <3>3
  <2>2. CASE s = {z}
    BY <2>2
  <2>3. CASE s # {z}
    <3>1. PICK x \in s \ {z} : \A y \in s \ {z} : x >= y
      BY <2>1, <2>3
    <3>2. x \in Nat /\ z \in Nat
      OBVIOUS
    <3>3. x >= z \/ (z >= x /\ \A y \in s : z >= y)
      BY <3>1, <3>2
    <3> QED
      BY <3>1, <3>2, <3>3
  <2> QED
    BY <2>2, <2>3
<1>2. SUBSET S \subseteq G
  <2> HIDE DEF G
  <2> QED
    BY <1>1, SubsetInduction
<1>3. \E x \in S : \A y \in S : x >= y
  BY <1>2
<1> QED
  BY <1>3 DEF Max

-----------------------------------------------------------------------------
(* The buckets of a histogram *)

\* The widths are these powers of two.
LEMMA PowersAre ==
    /\ 2 ^ 0 = 1 /\ 2 ^ 1 = 2 /\ 2 ^ 2 = 4 /\ 2 ^ 3 = 8 /\ 2 ^ 4 = 16
    /\ 2 ^ 5 = 32 /\ 2 ^ 6 = 64 /\ 2 ^ 7 = 128 /\ 2 ^ 8 = 256 /\ 2 ^ 9 = 512
    /\ 2 ^ 10 = 1024 /\ 2 ^ 11 = 2048 /\ 2 ^ 12 = 4096 /\ 2 ^ 13 = 8192
    /\ 2 ^ 14 = 16384 /\ 2 ^ 15 = 32768 /\ 2 ^ 16 = 65536 /\ 2 ^ 17 = 131072
    /\ 2 ^ 18 = 262144 /\ 2 ^ 19 = 524288 /\ 2 ^ 20 = 1048576
    /\ 2 ^ 21 = 2097152 /\ 2 ^ 22 = 4194304 /\ 2 ^ 23 = 8388608
    /\ 2 ^ 24 = 16777216 /\ 2 ^ 25 = 33554432 /\ 2 ^ 26 = 67108864
    /\ 2 ^ 27 = 134217728 /\ 2 ^ 28 = 268435456 /\ 2 ^ 29 = 536870912
OBVIOUS

Powers == {1, 2, 4, 8, 16, 32, 64, 128, 256, 512, 1024, 2048, 4096, 8192,
           16384, 32768, 65536, 131072, 262144, 524288, 1048576, 2097152,
           4194304, 8388608, 16777216, 33554432, 67108864, 134217728,
           268435456, 536870912}

LEMMA WidthsAre == Widths = Powers
<1> DEFINE f == [k \in 0 .. 29 |-> 2 ^ k]
<1>1. /\ f[0] = 1 /\ f[1] = 2 /\ f[2] = 4 /\ f[3] = 8 /\ f[4] = 16 /\ f[5] = 32
      /\ f[6] = 64 /\ f[7] = 128 /\ f[8] = 256 /\ f[9] = 512 /\ f[10] = 1024
      /\ f[11] = 2048 /\ f[12] = 4096 /\ f[13] = 8192 /\ f[14] = 16384
      /\ f[15] = 32768 /\ f[16] = 65536 /\ f[17] = 131072 /\ f[18] = 262144
      /\ f[19] = 524288 /\ f[20] = 1048576 /\ f[21] = 2097152 /\ f[22] = 4194304
      /\ f[23] = 8388608 /\ f[24] = 16777216 /\ f[25] = 33554432
      /\ f[26] = 67108864 /\ f[27] = 134217728 /\ f[28] = 268435456
      /\ f[29] = 536870912
  BY PowersAre
<1>2. Widths = {f[k] : k \in 0 .. 29}
  BY DEF Widths, MaxExponent
<1> HIDE DEF f
<1>3. \A k \in 0 .. 29 : f[k] \in Powers
  BY <1>1 DEF Powers
<1>4. \A w \in Powers : \E k \in 0 .. 29 : w = f[k]
  BY <1>1 DEF Powers
<1> QED
  BY <1>2, <1>3, <1>4

\* A width is at least twice any smaller one, and 1 or twice another one.
LEMMA WidthsDouble ==
    /\ Widths \subseteq Nat \ {0} /\ 2 ^ MaxExponent \in Widths
    /\ \A w \in Widths : w <= 2 ^ MaxExponent
    /\ \A u, w \in Widths : u < w => 2 * u <= w
    /\ \A w \in Widths : w = 1 \/ \E u \in Widths : w = 2 * u
<1>1. 2 ^ MaxExponent = 536870912
  BY PowersAre DEF MaxExponent
<1>2. \A u, w \in Widths : u < w => 2 * u <= w
  BY WidthsAre DEF Powers
<1>3. \A w \in Widths : w = 1 \/ \E u \in Widths : w = 2 * u
  BY WidthsAre DEF Powers
<1> QED
  BY <1>1, <1>2, <1>3, WidthsAre DEF Powers

\* The w values from low on are a bucket, whichever of them it is found by;
\* its width is 1 or at most a 1024th of any of them.
IsBucket(low, w) ==
    /\ w = 1 \/ 1024 * w <= low
    /\ \A x \in Nat : low <= x /\ x <= low + w - 1 =>
          /\ Recordable(x)
          /\ equivalent_range(x) = w /\ lowest_equivalent(x) = low
          /\ highest_equivalent(x) = low + w - 1
          /\ median_equivalent(x) = low + w \div 2

\* Every value is in a bucket.
LEMMA BucketIs ==
    ASSUME NEW v \in Nat, Recordable(v)
    PROVE  \E w \in Nat \ {0}, low \in Nat :
              low <= v /\ v <= low + w - 1 /\ IsBucket(low, w)
<1> DEFINE Above(x) == {u \in Widths : x \div 2048 < u}
           w == equivalent_range(v)
           q == v \div w
           low == q * w
<1>1. w \in Above(v) /\ \A u \in Above(v) : w <= u
  <2>1. 2 ^ MaxExponent \in Above(v)
    BY WidthsDouble DEF Recordable
  <2>2. Above(v) \in SUBSET Nat
    <3> SUFFICES ASSUME NEW u \in Above(v) PROVE u \in Nat
      OBVIOUS
    <3>1. u \in Widths
      OBVIOUS
    <3> QED
      BY <3>1, WidthsDouble
  <2>3. w = Min(Above(v))
    BY DEF equivalent_range
  <2> HIDE DEF w, Above
  <2> QED
    BY <2>1, <2>2, <2>3, MinIs
<1> HIDE DEF w
<1>2. w \in Nat \ {0} /\ w <= 2 ^ MaxExponent /\ v < 2048 * w
  <2>1. w \in Widths /\ v \div 2048 < w
    BY <1>1
  <2> QED
    BY <2>1, WidthsDouble
<1>3. w = 1 \/ 1024 * w <= v
  <2> SUFFICES ASSUME w # 1 PROVE 1024 * w <= v
    OBVIOUS
  <2>1. PICK u \in Widths : w = 2 * u
    BY <1>1, WidthsDouble
  <2>2. u \in Nat /\ u > 0
    BY <2>1, WidthsDouble
  <2>3. ~ (v \div 2048 < u)
    BY <1>1, <2>1, <2>2
  <2> QED
    BY <2>1, <2>2, <2>3
<1>4. q \in Nat /\ low \in Nat /\ low <= v /\ v <= low + w - 1
  <2>1. q \in Nat /\ low <= v /\ v < low + w
    BY <1>2, DivEncloses
  <2>2. low \in Nat
    BY <1>2, <2>1
  <2> HIDE DEF low
  <2> QED
    BY <1>2, <2>1, <2>2
<1> HIDE DEF q
<1>5. q <= 2047 /\ (w = 1 \/ 1024 <= q)
  <2>1. ASSUME q >= 2048 PROVE FALSE
    <3>1. q * w >= 2048 * w
      BY <1>2, <1>4, <2>1
    <3> HIDE DEF low
    <3> QED
      BY <1>2, <1>4, <3>1 DEF low
  <2>2. ASSUME q <= 1023 PROVE w = 1
    <3>1. q * w <= 1023 * w
      BY <1>2, <1>4, <2>2
    <3>2. low <= 1023 * w
      BY <3>1
    <3> HIDE DEF low
    <3> QED
      BY <1>2, <1>3, <1>4, <3>2
  <2> QED
    BY <1>4, <2>1, <2>2
<1>6. low + w <= 2048 * w /\ (w = 1 \/ 1024 * w <= low)
  <2>1. q * w <= 2047 * w
    BY <1>2, <1>4, <1>5
  <2>2. w = 1 \/ 1024 * w <= q * w
    BY <1>2, <1>4, <1>5
  <2> QED
    BY <1>2, <1>4, <2>1, <2>2
<1>7. ASSUME NEW x \in Nat, low <= x, x <= low + w - 1
      PROVE  /\ Recordable(x)
             /\ equivalent_range(x) = w /\ lowest_equivalent(x) = low
             /\ highest_equivalent(x) = low + w - 1
             /\ median_equivalent(x) = low + w \div 2
  <2>1. x \div w = q
    <3>1. q * w <= x /\ x < q * w + w
      <4> HIDE DEF low
      <4>1. low <= x /\ x < low + w
        BY <1>2, <1>4, <1>7
      <4> QED
        BY <4>1 DEF low
    <3> QED
      BY <1>2, <1>4, <3>1, DivUnique
  <2>2. x - (x % w) = low
    <3>1. x = (x \div w) * w + (x % w) /\ x % w \in Nat
      BY <1>2
    <3>2. x = low + (x % w)
      BY <2>1, <3>1
    <3> HIDE DEF low
    <3> QED
      BY <1>4, <3>1, <3>2
  <2> HIDE DEF low
  <2>3. \A u \in Widths : x \div 2048 < u <=> w <= u
    <3> SUFFICES ASSUME NEW u \in Widths PROVE x \div 2048 < u <=> w <= u
      OBVIOUS
    <3>1. u \in Nat /\ w \in Widths
      BY <1>1, WidthsDouble
    <3>2. ASSUME w <= u PROVE x \div 2048 < u
      BY <1>2, <1>4, <1>6, <1>7, <3>1, <3>2
    <3>3. ASSUME u < w PROVE ~ (x \div 2048 < u)
      <4>1. 2 * u <= w
        BY <3>1, <3>3, WidthsDouble
      <4>2. w # 1 \/ u = 0
        BY <3>1, <3>3
      <4>3. u # 0
        BY WidthsDouble
      <4>4. 2048 * u <= x
        BY <1>2, <1>4, <1>6, <1>7, <3>1, <4>1, <4>2, <4>3
      <4> QED
        BY <3>1, <4>4
    <3> QED
      BY <1>2, <3>1, <3>2, <3>3
  <2>4. equivalent_range(x) = w
    <3>1. w \in Above(x) /\ \A u \in Above(x) : w <= u
      BY <1>1, <2>3
    <3>2. Above(x) \in SUBSET Nat /\ equivalent_range(x) = Min(Above(x))
      BY WidthsDouble DEF equivalent_range
    <3> HIDE DEF Above
    <3>3. Min(Above(x)) \in Above(x) /\ Min(Above(x)) <= w
      BY <3>1, <3>2, MinIs
    <3> QED
      BY <1>2, <3>1, <3>2, <3>3
  <2>5. Recordable(x)
    <3> DEFINE t == 2 ^ MaxExponent
    <3>1. t \in Widths /\ w <= t
      BY <1>2, WidthsDouble
    <3> HIDE DEF t
    <3>2. x \div 2048 < t
      BY <2>3, <3>1
    <3> QED
      BY <3>2 DEF Recordable, t
  <2>6. lowest_equivalent(x) = low
    BY <2>2, <2>4 DEF lowest_equivalent
  <2> QED
    BY <2>4, <2>5, <2>6 DEF highest_equivalent, median_equivalent
<1> HIDE DEF low
<1> QED
  BY <1>2, <1>4, <1>6, <1>7 DEF IsBucket

\* The value that stands for a sample in the mean is off by at most one part
\* in 2048, and not above the highest one of its bucket.
LEMMA MedianIs ==
    ASSUME NEW v \in Nat, Recordable(v)
    PROVE  /\ median_equivalent(v) \in Nat
           /\ 2047 * v <= 2048 * median_equivalent(v)
           /\ 2048 * median_equivalent(v) <= 2049 * v
           /\ v = highest_equivalent(v) => median_equivalent(v) <= v
           /\ median_equivalent(highest_equivalent(v)) = median_equivalent(v)
<1>1. PICK w \in Nat \ {0}, low \in Nat :
              low <= v /\ v <= low + w - 1 /\ IsBucket(low, w)
  BY BucketIs
<1>2. w \div 2 \in Nat /\ 2 * (w \div 2) <= w /\ w <= 2 * (w \div 2) + 1
  OBVIOUS
<1>3. /\ highest_equivalent(v) = low + w - 1 /\ median_equivalent(v) = low + w \div 2
      /\ w = 1 \/ 1024 * w <= low
  BY <1>1 DEF IsBucket
<1>4. median_equivalent(highest_equivalent(v)) = low + w \div 2
  <2>1. low + w - 1 \in Nat /\ low <= low + w - 1
    BY <1>1
  <2> QED
    BY <1>1, <1>3, <2>1 DEF IsBucket
<1> QED
  BY <1>1, <1>2, <1>3, <1>4

\* The values that hist.mean() sums up.
Medians(h) == [v \in DOMAIN h |-> median_equivalent(v) * h[v]]

LEMMA ScaledProduct ==
    ASSUME NEW x \in Nat, NEW y \in Nat, NEW k \in Nat, NEW a \in Nat, NEW b \in Nat,
           a * x <= b * y
    PROVE  x * k \in Nat /\ a * (x * k) <= b * (y * k)
<1>1. \A i, j \in Nat : i <= j => i * k <= j * k
  OBVIOUS
<1>2. a * x \in Nat /\ b * y \in Nat /\ x * k \in Nat
  OBVIOUS
<1>3. (a * x) * k <= (b * y) * k
  BY <1>1, <1>2
<1>4. (a * x) * k = a * (x * k) /\ (b * y) * k = b * (y * k)
  OBVIOUS
<1> QED
  BY <1>2, <1>3, <1>4

\* What a scope may cost, and the highest values of the buckets of that.
Costs == {v \in 1 .. max(1, Max(Ticks)) : Recordable(v)}
Buckets == {highest_equivalent(v) : v \in Costs}

LEMMA LongestIs == max(1, Max(Ticks)) \in Nat \ {0}
<1>1. Max(Ticks) \in Nat
  BY MaxIs
<1> QED
  BY <1>1 DEF max

LEMMA BucketsAre ==
    ASSUME NEW h \in Buckets
    PROVE  /\ h \in Nat \ {0} /\ Recordable(h) /\ h = highest_equivalent(h)
           /\ lowest_equivalent(h) \in 1 .. max(1, Max(Ticks))
           /\ \A x \in Costs :
                 highest_equivalent(x) = h <=> lowest_equivalent(h) <= x /\ x <= h
<1>1. PICK v \in Costs : h = highest_equivalent(v)
  BY DEF Buckets
<1>2. Costs \subseteq Nat \ {0} /\ \A x \in Costs : Recordable(x) /\ x <= max(1, Max(Ticks))
  <2> DEFINE top == max(1, Max(Ticks))
  <2>1. top \in Nat /\ Costs = {x \in 1 .. top : Recordable(x)}
    BY LongestIs DEF Costs
  <2> HIDE DEF top
  <2>2. Costs \subseteq Nat \ {0} /\ \A x \in Costs : Recordable(x) /\ x <= top
    BY <2>1
  <2> QED
    BY <2>2 DEF top
<1>3. PICK w \in Nat \ {0}, low \in Nat :
              low <= v /\ v <= low + w - 1 /\ IsBucket(low, w)
  BY <1>1, <1>2, BucketIs
<1>4. v \in Nat \ {0} /\ v <= max(1, Max(Ticks))
  BY <1>1, <1>2
<1>5. h = low + w - 1 /\ low >= 1
  BY <1>1, <1>3, <1>4 DEF IsBucket
<1>6. /\ h \in Nat \ {0} /\ Recordable(h) /\ h = highest_equivalent(h)
      /\ lowest_equivalent(h) = low
  BY <1>3, <1>5 DEF IsBucket
<1>7. low \in 1 .. max(1, Max(Ticks))
  BY <1>3, <1>4, <1>5, LongestIs
<1>8. ASSUME NEW x \in Costs PROVE highest_equivalent(x) = h <=> low <= x /\ x <= h
  <2>1. x \in Nat /\ Recordable(x)
    BY <1>2
  <2>2. ASSUME low <= x, x <= h PROVE highest_equivalent(x) = h
    BY <1>3, <1>5, <2>1, <2>2 DEF IsBucket
  <2>3. ASSUME highest_equivalent(x) = h PROVE low <= x /\ x <= h
    <3>1. PICK u \in Nat \ {0}, first \in Nat :
              first <= x /\ x <= first + u - 1 /\ IsBucket(first, u)
      BY <2>1, BucketIs
    <3>2. h = first + u - 1
      BY <2>1, <2>3, <3>1 DEF IsBucket
    <3>3. lowest_equivalent(h) = first
      BY <1>6, <3>1, <3>2 DEF IsBucket
    <3> QED
      BY <1>6, <3>1, <3>2, <3>3
  <2> QED
    BY <2>2, <2>3
<1> QED
  BY <1>6, <1>7, <1>8

-----------------------------------------------------------------------------
(* Bags with finitely many elements *)

Bag(b) == IsABag(b) /\ IsFiniteSet(DOMAIN b)

Copies(b, x) == IF x \in DOMAIN b THEN b[x] ELSE 0

LEMMA EmptyBagIs ==
    Bag(EmptyBag) /\ DOMAIN EmptyBag = {} /\ Samples(EmptyBag) = 0
    /\ \A x : Copies(EmptyBag, x) = 0
<1>1. DOMAIN EmptyBag = {}
  BY DEF EmptyBag, SetToBag
<1>2. IsABag(EmptyBag)
  BY DEF EmptyBag, SetToBag, IsABag
<1>3. Samples(EmptyBag) = 0
  BY <1>1, SumEmpty DEF Samples, SumFunction
<1> QED
  BY <1>1, <1>2, <1>3, FS_EmptySet DEF Bag, Copies

LEMMA BagCopies ==
    ASSUME NEW b, Bag(b)
    PROVE  (\A x : Copies(b, x) \in Nat) /\ (\A x \in DOMAIN b : b[x] \in Nat \ {0})
BY DEF Bag, IsABag, Copies

LEMMA BagExtend ==
    ASSUME NEW b, Bag(b), NEW T, IsFiniteSet(T), DOMAIN b \subseteq T
    PROVE  SumFunctionOnSet([x \in T |-> Copies(b, x)], T) = Samples(b)
<1> DEFINE g == [x \in T |-> Copies(b, x)]
<1>1. \A x \in DOMAIN b : b[x] \in Int /\ g[x] = b[x]
  BY BagCopies DEF Copies
<1>2. \A x \in T \ DOMAIN b : g[x] = 0
  BY DEF Copies
<1> HIDE DEF g
<1>3. SumFunctionOnSet(g, T) = SumFunctionOnSet(b, DOMAIN b)
  BY <1>1, <1>2, SumWithin
<1> QED
  BY <1>3 DEF g, Samples, SumFunction

LEMMA SamplesNat ==
    ASSUME NEW b, Bag(b)
    PROVE  Samples(b) \in Nat /\ (DOMAIN b # {} => Samples(b) > 0)
<1>1. IsFiniteSet(DOMAIN b) /\ \A x \in DOMAIN b : b[x] \in Nat /\ b[x] > 0
  BY BagCopies DEF Bag
<1>2. SumFunctionOnSet(b, DOMAIN b) \in Nat
  BY <1>1, SumNat
<1>3. ASSUME NEW x \in DOMAIN b PROVE SumFunctionOnSet(b, DOMAIN b) > 0
  <2>1. SumFunctionOnSet(b, {x}) = b[x] /\ b[x] \in Nat /\ b[x] > 0
    BY <1>1, SumOne
  <2>2. SumFunctionOnSet(b, {x}) <= SumFunctionOnSet(b, DOMAIN b)
    BY <1>1, SumPart
  <2> QED
    BY <1>2, <2>1, <2>2
<1> QED
  BY <1>2, <1>3 DEF Samples, SumFunction

LEMMA BagUnionIs ==
    ASSUME NEW a, Bag(a), NEW b, Bag(b)
    PROVE  /\ Bag(a (+) b) /\ DOMAIN (a (+) b) = DOMAIN a \cup DOMAIN b
           /\ \A x : Copies(a (+) b, x) = Copies(a, x) + Copies(b, x)
           /\ Samples(a (+) b) = Samples(a) + Samples(b)
<1> DEFINE u == a (+) b
           T == DOMAIN a \cup DOMAIN b
           f == [x \in T |-> Copies(a, x)]
           g == [x \in T |-> Copies(b, x)]
           h == [x \in T |-> Copies(u, x)]
<1>1. IsFiniteSet(T)
  BY FS_Union DEF Bag
<1>2. DOMAIN u = T /\ \A x \in T : u[x] = Copies(a, x) + Copies(b, x)
  BY DEF (+), Copies
<1>3. \A x \in T : u[x] \in Nat /\ u[x] > 0
  BY <1>2, BagCopies DEF Copies
<1>4. u \in [DOMAIN u -> {n \in Nat : n > 0}]
  <2>1. u = [x \in DOMAIN u |-> u[x]]
    BY <1>2 DEF (+)
  <2> HIDE DEF u
  <2> QED
    BY <1>2, <1>3, <2>1
<1>5. Bag(u)
  BY <1>1, <1>2, <1>4 DEF Bag, IsABag
<1>6. \A x : Copies(u, x) = Copies(a, x) + Copies(b, x)
  <2> SUFFICES ASSUME NEW x PROVE Copies(u, x) = Copies(a, x) + Copies(b, x)
    OBVIOUS
  <2>1. CASE x \in T
    BY <1>2, <2>1 DEF Copies
  <2>2. CASE x \notin T
    BY <1>2, <2>2 DEF Copies
  <2> QED
    BY <2>1, <2>2
<1>7. \A x \in T : f[x] \in Int /\ g[x] \in Int /\ h[x] = f[x] + g[x]
  BY <1>6, BagCopies
<1>8. /\ SumFunctionOnSet(f, T) = Samples(a) /\ SumFunctionOnSet(g, T) = Samples(b)
      /\ SumFunctionOnSet(h, T) = Samples(u)
  BY <1>1, <1>2, <1>5, BagExtend
<1>9. SumFunctionOnSet(h, T) = SumFunctionOnSet(f, T) + SumFunctionOnSet(g, T)
  <2> HIDE DEF f, g, h, T
  <2> QED
    BY <1>1, <1>7, SumAdd
<1> QED
  BY <1>2, <1>5, <1>6, <1>8, <1>9

-----------------------------------------------------------------------------
(* The costs of records *)

LEMMA RecordIs ==
    ASSUME NEW r \in Record
    PROVE  /\ delta(r) \in Nat /\ batch(r) \in Nat \ {0}
           /\ delta(r) <= max(1, Max(Ticks)) /\ Recordable(delta(r))
<1> DEFINE s == r.start_tsc
           e == r.end_tsc
           top == Max(Ticks)
<1>1. s \in Ticks /\ e \in Ticks /\ r.batch \in Nat
  BY DEF Record
<1>2. top \in Nat /\ e <= top /\ s \in Nat /\ e \in Nat
  BY <1>1, MaxIs
<1>3. delta(r) = max(e - s, 0) /\ batch(r) = max(r.batch, 1)
  BY DEF delta, batch
<1>4. Recordable(e - s) /\ Recordable(s - s)
  BY <1>1, RecordableAssumption
<1> HIDE DEF s, e, top
<1>5. delta(r) \in Nat /\ delta(r) <= max(1, top)
  BY <1>2, <1>3 DEF max
<1>6. batch(r) \in Nat \ {0}
  BY <1>1, <1>3 DEF max
<1>7. delta(r) = e - s \/ delta(r) = s - s
  BY <1>2, <1>3 DEF max
<1>8. Recordable(delta(r))
  BY <1>4, <1>7
<1> QED
  BY <1>5, <1>6, <1>8 DEF top

LEMMA SmallerIsRecordable ==
    ASSUME NEW v \in Nat, NEW w \in Nat, w <= v \/ w = 1, Recordable(v)
    PROVE  Recordable(w)
<1> DEFINE t == 2 ^ MaxExponent
<1>1. t \in Widths /\ v \div 2048 < t
  <2>1. t \in Widths
    BY WidthsDouble
  <2>2. v \div 2048 < t
    BY DEF Recordable
  <2> QED
    BY <2>1, <2>2
<1> HIDE DEF t
<1>2. w \div 2048 < t
  BY <1>1, WidthsDouble
<1> QED
  BY <1>2 DEF Recordable, t

\* The cost of a record is the nearest to its share of the scope, and at
\* most the whole of it.
LEMMA CostIs ==
    ASSUME NEW r \in Record
    PROVE  /\ per_event(r) \in Costs
           /\ \A v \in Nat \ {0} :
                 per_event(r) = v <=> /\ 2 * delta(r) < (2 * v + 1) * batch(r)
                                      /\ v = 1 \/ 2 * delta(r) >= (2 * v - 1) * batch(r)
<1> DEFINE d == delta(r)
           b == batch(r)
           h == b \div 2
           m == d + h
           q == m \div b
           top == max(1, Max(Ticks))
<1>1. d \in Nat /\ b \in Nat \ {0} /\ top \in Nat \ {0} /\ d <= top
  <2>1. Max(Ticks) \in Nat
    BY MaxIs
  <2> QED
    BY <2>1, RecordIs DEF max
<1>2. per_event(r) = max(q, 1)
  BY DEF per_event
<1> HIDE DEF d, b, top
<1>3. h \in Nat /\ 2 * h <= b /\ b < 2 * h + 2
  BY <1>1
<1> HIDE DEF h
<1>4. m \in Nat
  BY <1>1, <1>3
<1>5. q \in Nat /\ q * b <= d + h /\ d + h < q * b + b
  <2> HIDE DEF m
  <2>1. m \div b \in Nat /\ (m \div b) * b <= m /\ m < (m \div b) * b + b
    BY <1>1, <1>4, DivEncloses
  <2> QED
    BY <2>1 DEF m
<1> HIDE DEF q
<1>6. per_event(r) \in Nat \ {0} /\ (q >= 1 => per_event(r) = q) /\ (q = 0 => per_event(r) = 1)
  BY <1>2, <1>5 DEF max
<1>7. q <= d
  <2>1. CASE q = 0
    BY <1>1, <2>1
  <2>2. CASE q >= 1 /\ b = 1
    <3>1. h = 0 /\ q * 1 = q
      BY <1>3, <1>5, <2>2
    <3> QED
      BY <1>1, <1>5, <2>2, <3>1
  <2>3. CASE q >= 1 /\ b >= 2
    <3>1. SUFFICES ASSUME q >= d + 1, d \in Nat, q \in Nat PROVE FALSE
      BY <1>1, <1>5
    <3>2. q * b >= (d + 1) * b
      BY <1>1, <3>1
    <3>3. (d + 1) * b >= 2 * (d + 1) + (b - 2)
      BY <1>1, <2>3
    <3>4. q * b \in Int /\ (d + 1) * b \in Int
      BY <1>1, <3>1
    <3> DEFINE x == q * b
               y == (d + 1) * b
    <3> HIDE DEF x, y
    <3>5. x >= y /\ y >= 2 * (d + 1) + (b - 2) /\ x <= d + h /\ x \in Int /\ y \in Int
      BY <1>5, <3>2, <3>3, <3>4 DEF x, y
    <3> QED
      BY <1>1, <1>3, <3>5
  <2> QED
    BY <1>1, <1>5, <2>1, <2>2, <2>3
<1>8. ASSUME NEW v \in Nat \ {0}, per_event(r) = v
      PROVE  2 * d < (2 * v + 1) * b /\ (v = 1 \/ 2 * d >= (2 * v - 1) * b)
  <2>1. v * b \in Nat /\ (2 * v + 1) * b = 2 * (v * b) + b /\ (2 * v - 1) * b = 2 * (v * b) - b
    BY <1>1
  <2>2. CASE q >= 1
    <3>1. q = v
      BY <1>6, <1>8, <2>2
    <3>2. v * b <= d + h /\ d + h < v * b + b
      BY <1>5, <3>1
    <3> DEFINE x == v * b
    <3> HIDE DEF x
    <3>3. x <= d + h /\ d + h < x + b /\ x \in Nat
      BY <2>1, <3>2 DEF x
    <3>4. 2 * d < 2 * x + b /\ 2 * d >= 2 * x - b
      BY <1>1, <1>3, <3>3
    <3> QED
      BY <2>1, <3>4 DEF x
  <2>3. CASE q = 0
    <3>1. v = 1 /\ d + h < b
      BY <1>1, <1>5, <1>6, <1>8, <2>3
    <3>2. (2 * v + 1) * b = 3 * b
      BY <1>1, <3>1
    <3>3. 2 * d < 3 * b
      BY <1>1, <1>3, <3>1
    <3> QED
      BY <3>1, <3>2, <3>3
  <2> QED
    BY <1>5, <2>2, <2>3
<1>9. ASSUME NEW v \in Nat \ {0}, 2 * d < (2 * v + 1) * b, v = 1 \/ 2 * d >= (2 * v - 1) * b
      PROVE  per_event(r) = v
  <2> DEFINE x == v * b
  <2>1. x \in Nat /\ (2 * v + 1) * b = 2 * x + b /\ (2 * v - 1) * b = 2 * x - b
    BY <1>1
  <2>2. CASE d + h >= x
    <3> HIDE DEF x
    <3>1. x <= d + h /\ d + h < x + b
      BY <1>1, <1>3, <1>9, <2>1, <2>2
    <3>2. m \div b = v
      <4> HIDE DEF m
      <4>1. v * b <= m /\ m < v * b + b
        BY <3>1 DEF x, m
      <4> QED
        BY <1>1, <1>4, <4>1, DivUnique
    <3> QED
      BY <1>6, <3>2 DEF q
  <2>3. CASE d + h < x
    <3> HIDE DEF x
    <3>1. v = 1
      BY <1>1, <1>3, <1>9, <2>1, <2>3
    <3>2. x = b
      BY <1>1, <3>1 DEF x
    <3>3. m \div b = 0
      <4> HIDE DEF m
      <4>1. 0 * b <= m /\ m < 0 * b + b
        BY <1>1, <1>4, <2>3, <3>2 DEF m
      <4> QED
        BY <1>1, <1>4, <4>1, DivUnique
    <3> QED
      BY <1>6, <3>1, <3>3 DEF q
  <2> QED
    BY <1>1, <1>3, <2>1, <2>2, <2>3
<1>10. per_event(r) \in 1 .. top
  BY <1>1, <1>5, <1>6, <1>7
<1>11. Recordable(per_event(r))
  <2>1. per_event(r) \in Nat /\ (per_event(r) <= d \/ per_event(r) = 1)
    BY <1>1, <1>5, <1>6, <1>7
  <2>2. Recordable(d)
    BY RecordIs DEF d
  <2> QED
    BY <1>1, <2>1, <2>2, SmallerIsRecordable
<1>12. per_event(r) \in Costs
  BY <1>10, <1>11 DEF Costs, top
<1> QED
  BY <1>8, <1>9, <1>12 DEF d, b

\* A cost is between two values if the exact one is, to the nearest.
LEMMA CostBetween ==
    ASSUME NEW r \in Record, NEW low \in Nat \ {0}, NEW high \in Nat \ {0}
    PROVE  (low <= per_event(r) /\ per_event(r) <= high)
             <=> /\ 2 * delta(r) < (2 * high + 1) * batch(r)
                 /\ low = 1 \/ 2 * delta(r) >= (2 * low - 1) * batch(r)
<1> DEFINE d == 2 * delta(r)
           b == batch(r)
           p == per_event(r)
<1>1. d \in Nat /\ b \in Nat \ {0}
  BY RecordIs
<1>2. p \in Nat \ {0}
  <2>1. \A t \in Nat : 1 .. t \subseteq Nat \ {0}
    OBVIOUS
  <2> QED
    BY <2>1, CostIs, LongestIs DEF Costs
<1>3. d < (2 * p + 1) * b /\ (p = 1 \/ d >= (2 * p - 1) * b)
  BY <1>2, CostIs
<1> HIDE DEF d, b, p
<1>4. \A x, y \in Int : x <= y => x * b <= y * b /\ x * b \in Int /\ y * b \in Int
  BY <1>1
<1>5. ASSUME low <= p, p <= high
      PROVE  d < (2 * high + 1) * b /\ (low = 1 \/ d >= (2 * low - 1) * b)
  <2>1. 2 * p + 1 <= 2 * high + 1 /\ 2 * low - 1 <= 2 * p - 1
    BY <1>2, <1>5
  <2>2. (2 * p + 1) * b <= (2 * high + 1) * b /\ (2 * low - 1) * b <= (2 * p - 1) * b
    BY <1>2, <1>4, <2>1
  <2>3. p = 1 => low = 1
    BY <1>2, <1>5
  <2> QED
    BY <1>1, <1>2, <1>3, <1>4, <2>1, <2>2, <2>3
<1>6. ASSUME p > high PROVE ~ (d < (2 * high + 1) * b)
  <2>1. 2 * high + 1 <= 2 * p - 1 /\ p # 1
    BY <1>2, <1>6
  <2>2. (2 * high + 1) * b <= (2 * p - 1) * b
    BY <1>2, <1>4, <2>1
  <2> QED
    BY <1>1, <1>2, <1>3, <1>4, <2>1, <2>2
<1>7. ASSUME p < low PROVE low # 1 /\ ~ (d >= (2 * low - 1) * b)
  <2>1. 2 * p + 1 <= 2 * low - 1 /\ low # 1
    BY <1>2, <1>7
  <2>2. (2 * p + 1) * b <= (2 * low - 1) * b
    BY <1>2, <1>4, <2>1
  <2> QED
    BY <1>1, <1>2, <1>3, <1>4, <2>1, <2>2
<1>8. (low <= p /\ p <= high)
        <=> d < (2 * high + 1) * b /\ (low = 1 \/ d >= (2 * low - 1) * b)
  BY <1>2, <1>5, <1>6, <1>7
<1> QED
  BY <1>8 DEF d, b, p

\* The histogram of the costs of records: a sample for every record.
LEMMA CostsAre ==
    ASSUME NEW rs, Bag(rs), DOMAIN rs \subseteq Record
    PROVE  /\ Bag(costs(rs)) /\ DOMAIN costs(rs) = {bucket(r) : r \in DOMAIN rs}
           /\ DOMAIN costs(rs) \subseteq Buckets
           /\ \A v : Copies(costs(rs), v) =
                       SumFunctionOnSet(rs, {r \in DOMAIN rs : bucket(r) = v})
           /\ Samples(costs(rs)) = Samples(rs)
<1> DEFINE D == DOMAIN rs
           V == {bucket(r) : r \in D}
           key == [r \in D |-> bucket(r)]
           Of(v) == {r \in D : bucket(r) = v}
           c == [v \in V |-> SumFunctionOnSet(rs, Of(v))]
<1>1. IsFiniteSet(D) /\ D \subseteq Record /\ \A r \in D : rs[r] \in Nat /\ rs[r] > 0
  BY BagCopies DEF Bag
<1>2. costs(rs) = c
  BY DEF costs
<1>3. V \subseteq Buckets
  BY <1>1, CostIs DEF Buckets, bucket
<1>4. IsFiniteSet(V)
  <2>1. key \in Surjection(D, V)
    BY DEF Surjection
  <2> HIDE DEF key, V, D
  <2> QED
    BY <1>1, <2>1, FS_Surjection
<1>5. ASSUME NEW v \in V PROVE c[v] \in {n \in Nat : n > 0}
  <2>1. PICK r \in Of(v) : TRUE
    OBVIOUS
  <2>2. IsFiniteSet(Of(v)) /\ (\A x \in Of(v) : rs[x] \in Nat) /\ rs[r] > 0 /\ rs[r] \in Nat
    BY <1>1, FS_Subset
  <2> HIDE DEF Of
  <2>3. SumFunctionOnSet(rs, {r}) = rs[r]
    BY <2>2, SumOne
  <2>4. /\ SumFunctionOnSet(rs, Of(v)) \in Nat
        /\ SumFunctionOnSet(rs, {r}) <= SumFunctionOnSet(rs, Of(v))
    BY <2>1, <2>2, SumPart
  <2> QED
    BY <2>2, <2>3, <2>4
<1>6. Bag(c)
  <2> HIDE DEF V, Of
  <2>1. c \in [V -> {n \in Nat : n > 0}] /\ DOMAIN c = V
    BY <1>5
  <2> HIDE DEF c
  <2> QED
    BY <1>4, <2>1 DEF Bag, IsABag
<1>7. \A v : Copies(c, v) = SumFunctionOnSet(rs, Of(v))
  <2> SUFFICES ASSUME NEW v, v \notin V PROVE SumFunctionOnSet(rs, Of(v)) = 0
    BY DEF Copies
  <2>1. Of(v) = {}
    OBVIOUS
  <2> QED
    BY <2>1, SumEmpty
<1>8. SumFunctionOnSet(c, V) = SumFunctionOnSet(rs, D)
  <2>1. \A r \in D : key[r] \in V
    OBVIOUS
  <2>2. \A v \in V : c[v] = SumFunctionOnSet(rs, Fibre(key, D, v))
    <3> SUFFICES ASSUME NEW v \in V PROVE Of(v) = Fibre(key, D, v)
      OBVIOUS
    <3> QED
      BY DEF Fibre
  <2>3. \A r \in D : rs[r] \in Int
    BY <1>1
  <2> HIDE DEF V, c, key, D
  <2> QED
    BY <1>1, <1>4, <2>1, <2>2, <2>3, SumFibres
<1>9. Samples(c) = Samples(rs)
  BY <1>8 DEF Samples, SumFunction
<1>10. DOMAIN c = V
  OBVIOUS
<1> QED
  BY <1>2, <1>3, <1>6, <1>7, <1>9, <1>10

-----------------------------------------------------------------------------
(* Every scope is measured once *)

\* The scopes whose records were drained.
Drained(rs, es) == [r \in DOMAIN es |-> es[r] - Copies(rs, r)]
Costing(es, v) == {r \in DOMAIN es : bucket(r) = v}

\* What HistogramIsMeasured says of records rs, of the scopes es that ended
\* and of a histogram h, for the values that h does not hold as well.
Measures(rs, es, h) ==
    /\ rs \sqsubseteq es
    /\ Samples(h) + Samples(rs) = Samples(es)
    /\ \A v : Copies(h, v) = SumFunctionOnSet(Drained(rs, es), Costing(es, v))

LEMMA NothingMeasured == Measures(EmptyBag, EmptyBag, EmptyBag)
<1>1. \A v : Costing(EmptyBag, v) = {}
  BY EmptyBagIs DEF Costing
<1>2. EmptyBag \sqsubseteq EmptyBag
  BY EmptyBagIs DEF \sqsubseteq
<1> QED
  <2>1. Samples(EmptyBag) + Samples(EmptyBag) = Samples(EmptyBag)
    BY EmptyBagIs
  <2>2. ASSUME NEW v
        PROVE  Copies(EmptyBag, v) =
                 SumFunctionOnSet(Drained(EmptyBag, EmptyBag), Costing(EmptyBag, v))
    <3>1. Copies(EmptyBag, v) = 0 /\ Costing(EmptyBag, v) = {}
      BY <1>1, EmptyBagIs
    <3>2. SumFunctionOnSet(Drained(EmptyBag, EmptyBag), {}) = 0
      BY SumEmpty
    <3> QED
      BY <3>1, <3>2
  <2> QED
    BY <1>2, <2>1, <2>2 DEF Measures

\* k equal records.
Equal(x, k) == [r \in {x} |-> k]

LEMMA AddBag ==
    ASSUME NEW x, NEW k \in Nat \ {0}
    PROVE  Bag(Equal(x, k)) /\ DOMAIN Equal(x, k) = {x} /\ Samples(Equal(x, k)) = k
<1> DEFINE b == Equal(x, k)
<1>1. DOMAIN b = {x} /\ b[x] = k
  BY DEF Equal
<1>2. IsABag(b)
  BY DEF IsABag, Equal
<1> HIDE DEF b
<1>3. Bag(b)
  <2>1. IsFiniteSet({x})
    BY FS_Singleton
  <2> QED
    BY <1>1, <1>2, <2>1 DEF Bag
<1>4. Samples(b) = k
  BY <1>1, SumOne DEF Samples, SumFunction
<1> QED
  BY <1>1, <1>3, <1>4 DEF b

\* A scope that ends is waiting for a report, and nothing else changes.
LEMMA EndMeasures ==
    ASSUME NEW rs, NEW es, NEW h, Bag(rs), Bag(es), Bag(h), Measures(rs, es, h),
           NEW x, NEW k \in Nat \ {0}
    PROVE  Measures(rs (+) Equal(x, k), es (+) Equal(x, k), h)
<1> DEFINE new == Equal(x, k)
           rn == rs (+) new
           en == es (+) new
<1>1. Bag(new) /\ Samples(new) = k /\ DOMAIN new = {x}
  BY AddBag
<1>2. \A r : Copies(new, r) = IF r = x THEN k ELSE 0
  BY DEF Copies, Equal
<1> HIDE DEF new
<1>3. /\ Bag(rn) /\ DOMAIN rn = DOMAIN rs \cup {x}
      /\ Bag(en) /\ DOMAIN en = DOMAIN es \cup {x}
      /\ \A r : /\ Copies(rn, r) = Copies(rs, r) + Copies(new, r)
                /\ Copies(en, r) = Copies(es, r) + Copies(new, r)
      /\ Samples(rn) = Samples(rs) + k /\ Samples(en) = Samples(es) + k
  BY <1>1, BagUnionIs
<1> HIDE DEF rn, en
<1>4. DOMAIN rs \subseteq DOMAIN es /\ \A r \in DOMAIN rs : rs[r] <= es[r]
  BY DEF Measures, \sqsubseteq
<1>5. \A r : Copies(rs, r) <= Copies(es, r) /\ Copies(rs, r) \in Nat /\ Copies(es, r) \in Nat
  BY <1>4, BagCopies DEF Copies
<1>6. rn \sqsubseteq en
  <2>1. DOMAIN rn \subseteq DOMAIN en
    BY <1>3, <1>4
  <2>2. \A r \in DOMAIN rn : Copies(rn, r) <= Copies(en, r)
    BY <1>2, <1>3, <1>5
  <2> QED
    BY <2>1, <2>2 DEF \sqsubseteq, Copies
<1>7. Samples(h) + Samples(rn) = Samples(en)
  BY <1>3, SamplesNat DEF Measures
<1>8. ASSUME NEW v
      PROVE  Copies(h, v) = SumFunctionOnSet(Drained(rn, en), Costing(en, v))
  <2> DEFINE f == Drained(rs, es)
             g == Drained(rn, en)
             A == Costing(es, v)
             S == Costing(en, v)
  <2>1. IsFiniteSet(S) /\ A \in SUBSET S /\ S \ A \subseteq {x} \ DOMAIN es
    BY <1>3, FS_Subset DEF Bag, Costing
  <2>2. \A r \in DOMAIN es : es[r] = Copies(es, r) /\ es[r] \in Nat
    BY BagCopies DEF Copies
  <2>3. \A r \in DOMAIN en : en[r] = Copies(es, r) + Copies(new, r)
    BY <1>3 DEF Copies
  <2>4. \A r \in A : f[r] \in Int /\ g[r] = f[r]
    <3> SUFFICES ASSUME NEW r \in A PROVE f[r] \in Int /\ g[r] = f[r]
      OBVIOUS
    <3>1. r \in DOMAIN es /\ r \in DOMAIN en
      BY <1>3 DEF Costing
    <3>2. f[r] = Copies(es, r) - Copies(rs, r)
      BY <2>2, <3>1 DEF Drained
    <3>3. g[r] = (Copies(es, r) + Copies(new, r)) - (Copies(rs, r) + Copies(new, r))
      <4>1. g[r] = en[r] - Copies(rn, r)
        BY <3>1 DEF Drained
      <4>2. en[r] = Copies(es, r) + Copies(new, r) /\ Copies(rn, r) = Copies(rs, r) + Copies(new, r)
        BY <1>3, <2>3, <3>1
      <4> QED
        BY <4>1, <4>2
    <3>4. Copies(es, r) \in Nat /\ Copies(rs, r) \in Nat /\ Copies(new, r) \in Nat
      BY <1>2, <1>5
    <3> QED
      BY <3>2, <3>3, <3>4
  <2>5. \A r \in S \ A : g[r] = 0
    <3> SUFFICES ASSUME NEW r \in S \ A PROVE g[r] = 0
      OBVIOUS
    <3>1. r = x /\ r \notin DOMAIN es /\ r \in DOMAIN en
      BY <1>3, <2>1
    <3>2. Copies(es, r) = 0 /\ Copies(rs, r) = 0 /\ Copies(new, r) = k
      BY <1>2, <1>4, <3>1 DEF Copies
    <3>3. g[r] = (Copies(es, r) + Copies(new, r)) - (Copies(rs, r) + Copies(new, r))
      <4>1. g[r] = en[r] - Copies(rn, r)
        BY <3>1 DEF Drained
      <4>2. en[r] = Copies(es, r) + Copies(new, r) /\ Copies(rn, r) = Copies(rs, r) + Copies(new, r)
        BY <1>3, <2>3, <3>1
      <4> QED
        BY <4>1, <4>2
    <3> QED
      BY <3>2, <3>3
  <2>6. Copies(h, v) = SumFunctionOnSet(f, A)
    BY DEF Measures
  <2> HIDE DEF f, g, A, S
  <2>7. SumFunctionOnSet(g, S) = SumFunctionOnSet(f, A)
    BY <2>1, <2>4, <2>5, SumWithin
  <2> QED
    BY <2>6, <2>7 DEF g, S
<1> QED
  BY <1>6, <1>7, <1>8 DEF Measures, rn, en, new

\* A report moves the waiting records into the histogram.
LEMMA ReportMeasures ==
    ASSUME NEW rs, NEW es, NEW h, Bag(rs), Bag(es), Bag(h), DOMAIN rs \subseteq Record,
           Measures(rs, es, h)
    PROVE  Measures(EmptyBag, es, h (+) costs(rs))
<1> DEFINE c == costs(rs)
           all == h (+) c
<1>1. /\ Bag(c) /\ Samples(c) = Samples(rs)
      /\ \A v : Copies(c, v) = SumFunctionOnSet(rs, {r \in DOMAIN rs : bucket(r) = v})
  BY CostsAre
<1> HIDE DEF c
<1>2. /\ Bag(all) /\ Samples(all) = Samples(h) + Samples(rs)
      /\ \A v : Copies(all, v) = Copies(h, v) + Copies(c, v)
  BY <1>1, BagUnionIs
<1> HIDE DEF all
<1>3. DOMAIN rs \subseteq DOMAIN es
  BY DEF Measures, \sqsubseteq
<1>4. EmptyBag \sqsubseteq es
  BY EmptyBagIs DEF \sqsubseteq
<1>5. Samples(all) + Samples(EmptyBag) = Samples(es)
  BY <1>2, EmptyBagIs, SamplesNat DEF Measures
<1>6. ASSUME NEW v
      PROVE  Copies(all, v) = SumFunctionOnSet(Drained(EmptyBag, es), Costing(es, v))
  <2> DEFINE S == Costing(es, v)
             A == {r \in DOMAIN rs : bucket(r) = v}
             f == Drained(rs, es)
             g == [r \in S |-> Copies(rs, r)]
             e == Drained(EmptyBag, es)
  <2>1. IsFiniteSet(S) /\ A \in SUBSET S /\ S \subseteq DOMAIN es
        /\ \A r \in S \ A : r \notin DOMAIN rs
    BY <1>3, FS_Subset DEF Bag, Costing
  <2>2. \A r : Copies(rs, r) \in Nat /\ Copies(EmptyBag, r) = 0
    BY BagCopies, EmptyBagIs
  <2>3. \A r \in DOMAIN es : es[r] \in Nat
    BY BagCopies
  <2>4. \A r \in S : f[r] \in Int /\ g[r] \in Int /\ e[r] = f[r] + g[r]
    <3> SUFFICES ASSUME NEW r \in S PROVE f[r] \in Int /\ g[r] \in Int /\ e[r] = f[r] + g[r]
      OBVIOUS
    <3>1. r \in DOMAIN es
      BY <2>1
    <3>2. /\ f[r] = es[r] - Copies(rs, r) /\ g[r] = Copies(rs, r)
          /\ e[r] = es[r] - Copies(EmptyBag, r)
      BY <3>1 DEF Drained
    <3> QED
      BY <2>2, <2>3, <3>1, <3>2
  <2>5. /\ \A r \in A : rs[r] \in Int /\ g[r] = rs[r]
        /\ \A r \in S \ A : g[r] = 0
    BY <2>1, BagCopies DEF Copies
  <2>6. Copies(h, v) = SumFunctionOnSet(f, S) /\ Copies(c, v) = SumFunctionOnSet(rs, A)
    BY <1>1 DEF Measures
  <2> HIDE DEF S, A, f, g, e
  <2>7. SumFunctionOnSet(e, S) = SumFunctionOnSet(f, S) + SumFunctionOnSet(g, S)
    BY <2>1, <2>4, SumAdd
  <2>8. SumFunctionOnSet(g, S) = SumFunctionOnSet(rs, A)
    BY <2>1, <2>5, SumWithin
  <2>9. Copies(all, v) = SumFunctionOnSet(e, S)
    BY <1>2, <2>6, <2>7, <2>8
  <2> QED
    BY <2>9 DEF e, S
<1> QED
  BY <1>4, <1>5, <1>6 DEF Measures, all, c

-----------------------------------------------------------------------------
(* The inductive invariant *)

Typed ==
    /\ scopes \subseteq Ticks /\ ends \in 0 .. MaxEnds
    /\ Bag(records) /\ DOMAIN records \subseteq Record
    /\ Bag(ended) /\ DOMAIN ended \subseteq Record
    /\ Bag(hist) /\ DOMAIN hist \subseteq Buckets
    /\ raw \in Raws /\ ovh = calibrate(raw.low, raw.high)

\* What is on show is the rendering of a histogram of samples, to which the
\* records drained for it were added, with the correction of these.
ShownRendered ==
    shown # None =>
        /\ Bag(shown.drained) /\ DOMAIN shown.drained \subseteq Record
        /\ Bag(shown.hist) /\ DOMAIN shown.hist # {}
        /\ DOMAIN shown.hist \subseteq Buckets
        /\ \E earlier : Bag(earlier) /\ shown.hist = earlier (+) costs(shown.drained)
        /\ shown.table = render(shown.hist, IF shown.correction = None THEN 0 ELSE shown.correction)
        /\ shown.correction # None => /\ shown.drained # EmptyBag
                                      /\ shown.correction = correction(shown.drained)

IInv == Typed /\ Measures(records, ended, hist) /\ ShownRendered

LEMMA EmptyDomain == ASSUME NEW b, Bag(b), DOMAIN b = {} PROVE b = EmptyBag
BY DEF Bag, IsABag, EmptyBag, SetToBag

LEMMA InitInv == Init => IInv
<1> SUFFICES ASSUME Init PROVE IInv
  OBVIOUS
<1>1. Typed
  BY EmptyBagIs DEF Init, Typed
<1>2. Measures(records, ended, hist)
  BY NothingMeasured DEF Init
<1>3. ShownRendered
  BY DEF Init, ShownRendered
<1> QED
  BY <1>1, <1>2, <1>3 DEF IInv

LEMMA StartKeeps == ASSUME IInv, NEW tsc \in Ticks, start(tsc) PROVE IInv'
<1>1. Typed'
  BY DEF IInv, Typed, start
<1>2. Measures(records, ended, hist)'
  BY DEF IInv, start
<1>3. ShownRendered'
  BY DEF start, ShownRendered
<1> QED
  BY <1>1, <1>2, <1>3 DEF IInv

LEMMA ClearKeeps == ASSUME IInv, clear PROVE IInv'
<1>1. Typed'
  BY EmptyBagIs DEF IInv, Typed, clear
<1>2. Measures(records, ended, hist)'
  BY NothingMeasured DEF clear
<1>3. ShownRendered'
  BY DEF clear, ShownRendered
<1> QED
  BY <1>1, <1>2, <1>3 DEF IInv

LEMMA EndKeeps ==
    ASSUME IInv, NEW s \in scopes, NEW tsc \in Ticks, NEW n \in Batches, NEW k \in Times,
           end_batch(s, tsc, n, k)
    PROVE  IInv'
<1> DEFINE x == [start_tsc |-> s, end_tsc |-> tsc, batch |-> n]
           new == Equal(x, k)
<1>1. x \in Record /\ k \in Nat \ {0}
  BY DEF IInv, Typed, Record
<1>2. /\ ends < MaxEnds /\ records' = records (+) new /\ ended' = ended (+) new
      /\ ends' = ends + 1 /\ shown' = None
      /\ scopes' = scopes /\ hist' = hist /\ raw' = raw /\ ovh' = ovh
  BY DEF end_batch, Equal
<1>3. Bag(new) /\ DOMAIN new = {x}
  BY <1>1, AddBag
<1>4. Measures(records, ended, hist)'
  <2>1. Measures(records (+) new, ended (+) new, hist)
    <3>1. Bag(records) /\ Bag(ended) /\ Bag(hist) /\ Measures(records, ended, hist)
      BY DEF IInv, Typed
    <3> HIDE DEF x
    <3> QED
      BY <1>1, <3>1, EndMeasures
  <2> HIDE DEF new
  <2> QED
    BY <1>2, <2>1
<1> HIDE DEF x, new
<1>5. /\ Bag(records') /\ DOMAIN records' = DOMAIN records \cup {x}
      /\ Bag(ended') /\ DOMAIN ended' = DOMAIN ended \cup {x}
  BY <1>2, <1>3, BagUnionIs DEF IInv, Typed
<1>6. Typed'
  <2>1. ends' \in 0 .. MaxEnds
    BY <1>2 DEF IInv, Typed
  <2>2. DOMAIN records' \subseteq Record /\ DOMAIN ended' \subseteq Record
    BY <1>1, <1>5 DEF IInv, Typed
  <2> QED
    BY <1>2, <1>5, <2>1, <2>2 DEF IInv, Typed, Record
<1>7. ShownRendered'
  BY <1>2 DEF ShownRendered
<1> QED
  BY <1>4, <1>6, <1>7 DEF IInv

LEMMA ReportKeeps == ASSUME IInv, NEW given \in BOOLEAN, report(given) PROVE IInv'
<1> DEFINE corr == IF given /\ records # EmptyBag THEN correction(records) ELSE None
           all == hist (+) costs(records)
           page == [drained |-> records, hist |-> all, correction |-> corr,
                    table |-> render(all, IF corr = None THEN 0 ELSE corr)]
<1>1. /\ hist' = all /\ records' = EmptyBag
      /\ shown' = IF all = EmptyBag THEN None ELSE page
      /\ scopes' = scopes /\ raw' = raw /\ ovh' = ovh /\ ended' = ended /\ ends' = ends
  BY DEF report
<1>2. Bag(all) /\ DOMAIN all \subseteq Buckets
  <2>1. Bag(costs(records)) /\ DOMAIN costs(records) \subseteq Buckets
    BY CostsAre DEF IInv, Typed
  <2>2. Bag(hist) /\ DOMAIN hist \subseteq Buckets
    BY DEF IInv, Typed
  <2>3. Bag(hist (+) costs(records))
        /\ DOMAIN (hist (+) costs(records)) = DOMAIN hist \cup DOMAIN costs(records)
    BY <2>1, <2>2, BagUnionIs
  <2> QED
    BY <2>1, <2>2, <2>3
<1>3. Measures(records, ended, hist)'
  BY <1>1, ReportMeasures DEF IInv, Typed
<1>4. Typed'
  BY <1>1, <1>2, EmptyBagIs DEF IInv, Typed, Record
<1>5. ShownRendered'
  <2> SUFFICES ASSUME shown' # None PROVE ShownRendered'
    BY DEF ShownRendered
  <2>1. all # EmptyBag /\ shown' = page
    BY <1>1
  <2>2. DOMAIN all # {}
    BY <1>2, <2>1, EmptyDomain
  <2>3. Bag(records) /\ DOMAIN records \subseteq Record
    BY DEF IInv, Typed
  <2>4. corr # None => records # EmptyBag /\ corr = correction(records)
    OBVIOUS
  <2>5. Bag(hist) /\ all = hist (+) costs(records)
    BY DEF IInv, Typed
  <2> HIDE DEF corr, all
  <2>6. /\ shown'.drained = records /\ shown'.hist = all /\ shown'.correction = corr
        /\ shown'.table = render(all, IF corr = None THEN 0 ELSE corr)
    BY <2>1
  <2>7. \E earlier : Bag(earlier) /\ shown'.hist = earlier (+) costs(shown'.drained)
    BY <2>5, <2>6
  <2> QED
    BY <1>1, <1>2, <2>2, <2>3, <2>4, <2>6, <2>7 DEF ShownRendered, correction, Record
<1> QED
  BY <1>3, <1>4, <1>5 DEF IInv

\* IInv is inductive: every operation of the probe keeps the histogram, the
\* open records and the report on show in step with the scopes that ended.
THEOREM Inductive == Spec => []IInv
<1>1. ASSUME IInv, [Next]_vars PROVE IInv'
  <2>1. CASE \E tsc \in Ticks : start(tsc)
    BY <1>1, <2>1, StartKeeps
  <2>2. CASE \E s \in scopes, tsc \in Ticks, n \in Batches, k \in Times : end_batch(s, tsc, n, k)
    BY <1>1, <2>2, EndKeeps
  <2>3. CASE clear
    BY <1>1, <2>3, ClearKeeps
  <2>4. CASE \E given \in BOOLEAN : report(given)
    BY <1>1, <2>4, ReportKeeps
  <2>5. CASE UNCHANGED vars
    <3>1. Typed' /\ ShownRendered'
      BY <1>1, <2>5 DEF vars, IInv, Typed, ShownRendered, correction, Record
    <3>2. Measures(records, ended, hist)'
      BY <1>1, <2>5 DEF vars, IInv
    <3> QED
      BY <3>1, <3>2 DEF IInv
  <2> QED
    BY <1>1, <2>1, <2>2, <2>3, <2>4, <2>5 DEF Next
<1> QED
  BY <1>1, InitInv, PTL DEF Spec

\* A fitted overhead stays within the floors it was fitted to.
LEMMA FitWithin ==
    ASSUME NEW low \in Nat, NEW high \in Nat
    PROVE  /\ calibrate(low, high).framing_ticks \in 0 .. low
           /\ calibrate(low, high).loop_per_iter_ticks \in 0 .. high
<1> DEFINE L == max(high - low, 0)
           X == max(low * 9900 - 100 * L, 0)
           F == Round(X, 9900)
<1>1. L \in Nat /\ L <= high
  BY DEF max
<1> HIDE DEF L
<1>2. X \in Nat /\ X <= low * 9900
  BY <1>1 DEF max
<1> HIDE DEF X
<1>3. F \in Nat /\ F <= low
  BY <1>2 DEF Round
<1>4. calibrate(low, high) = [framing_ticks |-> F, loop_per_iter_ticks |-> L]
  BY DEF calibrate, N_LOW, SPREAD, N_HIGH, L, X
<1> HIDE DEF F
<1> QED
  BY <1>1, <1>3, <1>4

\* Records keep readings and batch sizes that were given, a histogram holds
\* buckets of costs between 1 and the longest scope, and the overhead stays
\* within the measured floors.
THEOREM TypeCorrect == Spec => []TypeOK
<1>1. IInv => TypeOK
  <2> SUFFICES ASSUME IInv PROVE TypeOK
    OBVIOUS
  <2>1. raw.low \in Nat /\ raw.high \in Nat
    BY DEF IInv, Typed
  <2>2. ovh.framing_ticks \in 0 .. raw.low /\ ovh.loop_per_iter_ticks \in 0 .. raw.high
    BY <2>1, FitWithin DEF IInv, Typed
  <2>3. \A v \in DOMAIN hist : /\ v = highest_equivalent(v)
                               /\ lowest_equivalent(v) \in 1 .. max(1, Max(Ticks))
    BY BucketsAre DEF IInv, Typed
  <2> QED
    BY <2>2, <2>3 DEF IInv, Typed, TypeOK, Bag
<1> QED
  BY <1>1, Inductive, PTL

\* However scopes, reports and clears follow one another, the histogram holds
\* in every bucket as many samples as scopes have ended with a cost in it
\* since the last clear and been reported, and no scope is in it twice or in
\* neither the histogram nor the records.
THEOREM ScopesAreMeasured == Spec => []HistogramIsMeasured
<1>1. IInv => HistogramIsMeasured
  <2> SUFFICES ASSUME IInv PROVE HistogramIsMeasured
    OBVIOUS
  <2> DEFINE CostIn(r, low, high) == /\ 2 * delta(r) < (2 * high + 1) * batch(r)
                                     /\ low = 1 \/ 2 * delta(r) >= (2 * low - 1) * batch(r)
             drained == [r \in DOMAIN ended |->
                           IF r \in DOMAIN records THEN ended[r] - records[r] ELSE ended[r]]
  <2>1. records \sqsubseteq ended /\ Samples(hist) + Samples(records) = Samples(ended)
    BY DEF IInv, Measures
  <2>2. ASSUME NEW v \in DOMAIN hist
        PROVE  hist[v] = SumFunctionOnSet(drained,
                           {r \in DOMAIN ended : CostIn(r, lowest_equivalent(v), v)})
    <3>1. hist[v] = SumFunctionOnSet(Drained(records, ended), Costing(ended, v))
      BY DEF IInv, Measures, Copies
    <3>2. \A r \in DOMAIN ended : ended[r] \in Nat
      BY BagCopies DEF IInv, Typed
    <3>3. \A r \in DOMAIN ended : Drained(records, ended)[r] = drained[r]
      BY <3>2 DEF Drained, Copies
    <3>4. Drained(records, ended) = drained
      BY <3>3 DEF Drained
    <3> DEFINE low == lowest_equivalent(v)
    <3>5. /\ v \in Nat \ {0} /\ low \in Nat \ {0}
          /\ \A x \in Costs : highest_equivalent(x) = v <=> low <= x /\ x <= v
      <4>1. v \in Buckets
        BY DEF IInv, Typed
      <4>2. \A t \in Nat : 1 .. t \subseteq Nat \ {0}
        OBVIOUS
      <4> QED
        BY <4>1, <4>2, BucketsAre, LongestIs
    <3> HIDE DEF low
    <3>6. \A r \in DOMAIN ended : bucket(r) = v <=> CostIn(r, low, v)
      <4> SUFFICES ASSUME NEW r \in DOMAIN ended PROVE bucket(r) = v <=> CostIn(r, low, v)
        OBVIOUS
      <4>1. r \in Record
        BY DEF IInv, Typed
      <4>2. bucket(r) = v <=> low <= per_event(r) /\ per_event(r) <= v
        BY <3>5, <4>1, CostIs DEF bucket
      <4> QED
        BY <3>5, <4>1, <4>2, CostBetween
    <3>7. Costing(ended, v) = {r \in DOMAIN ended : CostIn(r, low, v)}
      BY <3>6 DEF Costing
    <3> QED
      BY <3>1, <3>4, <3>7 DEF low
  <2> QED
    BY <2>1, <2>2 DEF HistogramIsMeasured
<1> QED
  BY <1>1, Inductive, PTL

\* A whole number of ticks from each of n samples takes off no more than is
\* owed, and less than a tick per sample too little.
LEMMA AverageIs ==
    ASSUME NEW owed \in Nat, NEW n \in Nat \ {0}
    PROVE  (owed \div n) * n \in owed - n + 1 .. owed
<1> DEFINE x == (owed \div n) * n
<1>1. owed \div n \in Nat /\ x <= owed /\ owed < x + n
  BY DivEncloses
<1>2. x \in Int
  BY <1>1
<1> HIDE DEF x
<1>3. x \in owed - n + 1 .. owed
  BY <1>1, <1>2
<1> QED
  BY <1>3 DEF x

LEMMA PerEventNat ==
    ASSUME Typed, NEW n \in Nat \ {0}
    PROVE  per_event_ticks(ovh, n) \in Nat
<1> DEFINE F == ovh.framing_ticks
           L == ovh.loop_per_iter_ticks
<1>1. F \in Nat /\ L \in Nat
  <2>1. raw.low \in Nat /\ raw.high \in Nat
    BY DEF Typed
  <2>2. F \in 0 .. raw.low /\ L \in 0 .. raw.high
    BY <2>1, FitWithin DEF Typed
  <2> QED
    BY <2>1, <2>2
<1>2. per_event_ticks(ovh, n) = Round(F * 9900 + L * n, 9900 * n)
  BY DEF per_event_ticks, max, SPREAD, N_HIGH, N_LOW
<1> HIDE DEF F, L
<1>3. F * 9900 + L * n \in Nat /\ 9900 * n \in Nat \ {0}
  <2>1. L * n \in Nat
    BY <1>1
  <2> QED
    BY <1>1, <2>1
<1> QED
  BY <1>2, <1>3, RoundIs

\* What the records drained for a report cost, against the sum of the mean
\* row if the histogram holds nothing else.
Spent(rs) == SumFunction([r \in DOMAIN rs |-> per_event(r) * rs[r]])

LEMMA SpentIs ==
    ASSUME NEW rs, Bag(rs), DOMAIN rs \subseteq Record, NEW earlier, Bag(earlier),
           NEW h, h = earlier (+) costs(rs), Samples(rs) = Samples(h)
    PROVE  /\ Spent(rs) \in Nat /\ SumFunction(Medians(h)) \in Nat
           /\ 2047 * Spent(rs) <= 2048 * SumFunction(Medians(h))
           /\ 2048 * SumFunction(Medians(h)) <= 2049 * Spent(rs)
<1> DEFINE D == DOMAIN rs
           V == {bucket(r) : r \in D}
           c == costs(rs)
           key == [r \in D |-> bucket(r)]
           Of(v) == {r \in D : bucket(r) = v}
           f == [r \in D |-> median_equivalent(bucket(r)) * rs[r]]
           g == [r \in D |-> per_event(r) * rs[r]]
           F == Medians(h)
<1>1. IsFiniteSet(D) /\ D \subseteq Record /\ \A r \in D : rs[r] \in Nat
  BY BagCopies DEF Bag
<1>2. /\ Bag(c) /\ DOMAIN c = V /\ Samples(c) = Samples(rs)
      /\ \A v : Copies(c, v) = SumFunctionOnSet(rs, Of(v))
  BY CostsAre
<1>3. DOMAIN h = V /\ \A v \in V : h[v] = SumFunctionOnSet(rs, Of(v))
  <2> HIDE DEF V, c, Of
  <2>1. /\ Bag(h) /\ DOMAIN h = DOMAIN earlier \cup V
        /\ \A v : Copies(h, v) = Copies(earlier, v) + Copies(c, v)
        /\ Samples(h) = Samples(earlier) + Samples(c)
    <3>1. h = earlier (+) c
      BY DEF c
    <3>2. /\ Bag(earlier (+) c) /\ DOMAIN (earlier (+) c) = DOMAIN earlier \cup DOMAIN c
          /\ \A v : Copies(earlier (+) c, v) = Copies(earlier, v) + Copies(c, v)
          /\ Samples(earlier (+) c) = Samples(earlier) + Samples(c)
      BY <1>2, BagUnionIs
    <3> QED
      BY <1>2, <3>1, <3>2
  <2>2. DOMAIN earlier = {}
    <3>1. Samples(c) \in Nat /\ Samples(earlier) \in Nat
      BY <1>2, SamplesNat
    <3>2. Samples(earlier) = 0
      BY <1>2, <2>1, <3>1
    <3>3. ASSUME DOMAIN earlier # {} PROVE FALSE
      <4>1. Samples(earlier) > 0
        BY <3>3, SamplesNat
      <4> QED
        BY <3>2, <4>1
    <3> QED
      BY <3>3
  <2>3. \A v : Copies(c, v) \in Nat /\ Copies(earlier, v) = 0
    BY <1>2, <2>2, BagCopies DEF Copies
  <2>4. \A v \in V : h[v] = Copies(c, v)
    BY <2>1, <2>3 DEF Copies
  <2> QED
    BY <1>2, <2>1, <2>2, <2>4
<1>4. IsFiniteSet(V)
  BY <1>2 DEF Bag
<1>5. ASSUME NEW r \in D
      PROVE  /\ median_equivalent(bucket(r)) \in Nat /\ f[r] \in Nat /\ g[r] \in Nat
             /\ 2047 * g[r] <= 2048 * f[r] /\ 2048 * f[r] <= 2049 * g[r]
  <2> DEFINE p == per_event(r)
             m == median_equivalent(bucket(r))
             k == rs[r]
  <2>1. p \in Nat /\ Recordable(p)
    <3>1. \A t \in Nat : 1 .. t \subseteq Nat
      OBVIOUS
    <3>2. p \in Costs
      BY <1>1, CostIs
    <3> QED
      BY <3>1, <3>2, LongestIs DEF Costs
  <2>2. m \in Nat /\ 2047 * p <= 2048 * m /\ 2048 * m <= 2049 * p
    BY <2>1, MedianIs DEF bucket
  <2>3. k \in Nat /\ f[r] = m * k /\ g[r] = p * k
    BY <1>1
  <2> HIDE DEF p, m, k, f, g
  <2>4. /\ m * k \in Nat /\ p * k \in Nat
        /\ 2047 * (p * k) <= 2048 * (m * k) /\ 2048 * (m * k) <= 2049 * (p * k)
    BY <2>1, <2>2, <2>3, ScaledProduct
  <2> QED
    BY <2>2, <2>3, <2>4 DEF m
<1>6. ASSUME NEW v \in V
      PROVE  F[v] = SumFunctionOnSet(f, Fibre(key, D, v))
  <2> DEFINE m == median_equivalent(v)
  <2>1. Of(v) = Fibre(key, D, v) /\ IsFiniteSet(Of(v))
    BY <1>1, FS_Subset DEF Fibre
  <2>2. m \in Nat
    BY <1>5
  <2>3. \A r \in Of(v) : rs[r] \in Int /\ f[r] = m * rs[r]
    BY <1>1
  <2>4. F[v] = m * SumFunctionOnSet(rs, Of(v))
    BY <1>3 DEF Medians
  <2> HIDE DEF f, F, m, Of
  <2>5. SumFunctionOnSet(f, Of(v)) = m * SumFunctionOnSet(rs, Of(v))
    BY <2>1, <2>2, <2>3, SumTimes
  <2> QED
    BY <2>1, <2>4, <2>5
<1>7. \A r \in D : key[r] \in V
  OBVIOUS
<1>8. DOMAIN F = V /\ DOMAIN g = D /\ Spent(rs) = SumFunction(g)
  BY <1>3 DEF Medians, Spent
<1> HIDE DEF D, V, c, key, Of, f, g, F
<1>9. SumFunctionOnSet(F, V) = SumFunctionOnSet(f, D)
  BY <1>1, <1>4, <1>5, <1>6, <1>7, SumFibres
<1>10. /\ 2047 * SumFunctionOnSet(g, D) <= 2048 * SumFunctionOnSet(f, D)
       /\ 2048 * SumFunctionOnSet(f, D) <= 2049 * SumFunctionOnSet(g, D)
  <2>1. \A r \in D : /\ g[r] \in Int /\ f[r] \in Int
                     /\ 2047 * g[r] <= 2048 * f[r] /\ 2048 * f[r] <= 2049 * g[r]
    BY <1>5
  <2> QED
    BY <1>1, <2>1, SumScaled
<1>11. SumFunctionOnSet(f, D) \in Nat /\ SumFunctionOnSet(g, D) \in Nat
  BY <1>1, <1>5, SumNat
<1>12. Spent(rs) = SumFunctionOnSet(g, D) /\ SumFunction(F) = SumFunctionOnSet(f, D)
  BY <1>8, <1>9 DEF SumFunction
<1> QED
  BY <1>10, <1>11, <1>12 DEF F

\* When a report has drained every sample it shows, its adjusted mean takes
\* off the overhead of each sample at its own batch size, to within a tick
\* for the average and one part in 2048 of the mean for the buckets.
THEOREM OwnCostIsTakenOff == Spec => []AdjustedByOwnCost
<1>1. IInv => AdjustedByOwnCost
  <2> SUFFICES ASSUME IInv, shown # None, shown.correction # None,
                      Samples(shown.drained) = Samples(shown.hist)
               PROVE  LET owed == SumFunction([r \in DOMAIN shown.drained |->
                                     per_event_ticks(ovh, batch(r)) * shown.drained[r]])
                          spent == Spent(shown.drained)
                          blur == spent \div 2048
                          cells == shown.table.mean
                      IN IF cells.adj = 0 THEN spent <= owed + blur
                         ELSE spent - cells.adj \in owed - cells.count + 1 - blur .. owed + blur
    BY DEF AdjustedByOwnCost, Spent
  <2> DEFINE D == DOMAIN shown.drained
             own == [r \in D |-> per_event_ticks(ovh, batch(r)) * shown.drained[r]]
             owed == SumFunction(own)
             spent == Spent(shown.drained)
             blur == spent \div 2048
             cells == shown.table.mean
             sum == SumFunction(Medians(shown.hist))
             n == Samples(shown.drained)
             c == shown.correction
             off == c * n
  <2>1. /\ Bag(shown.drained) /\ D \subseteq Record
        /\ \E earlier : Bag(earlier) /\ shown.hist = earlier (+) costs(shown.drained)
        /\ shown.table = render(shown.hist, c)
        /\ shown.drained # EmptyBag /\ c = correction(shown.drained)
    BY DEF IInv, ShownRendered
  <2>2. owed \in Nat
    <3>1. IsFiniteSet(D) /\ DOMAIN own = D
      BY <2>1 DEF Bag
    <3>2. \A r \in D : own[r] \in Nat
      <4> SUFFICES ASSUME NEW r \in D PROVE own[r] \in Nat
        OBVIOUS
      <4>1. batch(r) \in Nat \ {0} /\ shown.drained[r] \in Nat
        BY <2>1, RecordIs, BagCopies
      <4>2. per_event_ticks(ovh, batch(r)) \in Nat
        BY <4>1, PerEventNat DEF IInv
      <4>3. own[r] = per_event_ticks(ovh, batch(r)) * shown.drained[r]
        OBVIOUS
      <4> HIDE DEF own
      <4> QED
        BY <4>1, <4>2, <4>3
    <3> HIDE DEF own
    <3> QED
      BY <3>1, <3>2, SumNat DEF SumFunction
  <2>3. n \in Nat \ {0}
    <3>1. D # {}
      BY <2>1, EmptyDomain
    <3> QED
      BY <2>1, <3>1, SamplesNat
  <2>4. c = owed \div n
    BY <2>1 DEF correction
  <2>5. cells = [count |-> n, sum |-> sum, adj |-> IF sum >= off THEN sum - off ELSE 0]
    BY <2>1 DEF render, Mean, Cells, adjusted, Medians
  <2>6. spent \in Nat /\ sum \in Nat /\ 2047 * spent <= 2048 * sum /\ 2048 * sum <= 2049 * spent
    <3>1. PICK earlier : Bag(earlier) /\ shown.hist = earlier (+) costs(shown.drained)
      BY <2>1
    <3> QED
      BY <2>1, <3>1, SpentIs
  <2> HIDE DEF own, owed, spent, n, sum, c, D
  <2>7. blur \in Nat /\ spent <= sum + blur /\ sum <= spent + blur
    BY <2>6
  <2> HIDE DEF blur
  <2>8. off \in owed - n + 1 .. owed
    BY <2>2, <2>3, <2>4, AverageIs
  <2>9. off \in Int /\ owed - n + 1 <= off /\ off <= owed
    BY <2>2, <2>3, <2>8
  <2> HIDE DEF off, cells
  <2>10. IF cells.adj = 0 THEN spent <= owed + blur
         ELSE spent - cells.adj \in owed - cells.count + 1 - blur .. owed + blur
    <3>1. cells.count = n /\ cells.sum = sum /\ cells.adj = IF sum >= off THEN sum - off ELSE 0
      BY <2>5
    <3>2. cells.adj = 0 => spent <= owed + blur
      BY <2>2, <2>6, <2>7, <2>9, <3>1
    <3>3. cells.adj # 0 => spent - cells.adj \in owed - n + 1 - blur .. owed + blur
      <4>1. cells.adj # 0 => cells.adj = sum - off
        BY <3>1
      <4> QED
        BY <2>2, <2>3, <2>6, <2>7, <2>9, <4>1
    <3> QED
      BY <3>1, <3>2, <3>3
  <2> QED
    BY <2>10 DEF cells, blur, spent, owed, own, D
<1> QED
  BY <1>1, Inductive, PTL

-----------------------------------------------------------------------------
(* The bands of a histogram *)

\* A histogram with a sample.
Hist(h) == Bag(h) /\ DOMAIN h \subseteq Nat /\ DOMAIN h # {}

LEMMA HistIs ==
    ASSUME NEW h, Hist(h)
    PROVE  /\ IsFiniteSet(DOMAIN h) /\ DOMAIN h \subseteq Nat
           /\ \A v \in DOMAIN h : h[v] \in Nat /\ h[v] > 0
           /\ Samples(h) \in Nat /\ Samples(h) > 0
           /\ Samples(h) = SumFunctionOnSet(h, DOMAIN h)
BY BagCopies, SamplesNat DEF Hist, Bag, Samples, SumFunction

\* The samples up to a value come before those of any larger value.
LEMMA BelowIs ==
    ASSUME NEW h, Hist(h), NEW v \in DOMAIN h
    PROVE  /\ Below(h, v) \in Nat /\ Below(h, v) + h[v] <= Samples(h)
           /\ \A w \in DOMAIN h : v < w => Below(h, v) + h[v] <= Below(h, w)
           /\ Below(h, v) + h[v] = SumFunctionOnSet(h, {w \in DOMAIN h : w <= v})
<1> DEFINE D == DOMAIN h
           A == {w \in D : w < v}
           U == {w \in D : w <= v}
<1>1. /\ IsFiniteSet(D) /\ D \subseteq Nat /\ v \in D /\ Samples(h) = SumFunctionOnSet(h, D)
      /\ \A w \in D : h[w] \in Nat
  BY HistIs
<1>2. A \in SUBSET D /\ U \in SUBSET D /\ IsFiniteSet(A) /\ IsFiniteSet(U) /\ v \in U /\ U \ {v} = A
  BY <1>1, FS_Subset
<1>3. Below(h, v) = SumFunctionOnSet(h, A)
  BY DEF Below
<1>4. ASSUME NEW w \in D, v < w
      PROVE  SumFunctionOnSet(h, U) <= Below(h, w)
  <2> DEFINE W == {u \in D : u < w}
  <2>1. U \in SUBSET W /\ IsFiniteSet(W) /\ \A u \in W : h[u] \in Nat
    BY <1>1, <1>4, FS_Subset
  <2> HIDE DEF W, U
  <2>2. SumFunctionOnSet(h, U) <= SumFunctionOnSet(h, W)
    BY <2>1, SumPart
  <2> QED
    BY <2>2 DEF Below, W
<1> HIDE DEF A, U, D
<1>5. SumFunctionOnSet(h, A) \in Nat /\ SumFunctionOnSet(h, U) <= SumFunctionOnSet(h, D)
  BY <1>1, <1>2, SumPart
<1>6. SumFunctionOnSet(h, U) = h[v] + SumFunctionOnSet(h, A) /\ h[v] \in Nat
  <2>1. \A u \in U : h[u] \in Int
    <3> SUFFICES ASSUME NEW u \in U PROVE h[u] \in Int
      OBVIOUS
    <3>1. u \in D
      BY <1>2
    <3>2. h[u] \in Nat
      BY <1>1, <3>1
    <3> QED
      BY <3>2
  <2>2. SumFunctionOnSet(h, U) = h[v] + SumFunctionOnSet(h, U \ {v})
    BY <1>2, <2>1, SumRemove
  <2> QED
    BY <1>1, <1>2, <2>2
<1>7. SumFunctionOnSet(h, U) = Below(h, v) + h[v] /\ Below(h, v) \in Nat
  BY <1>3, <1>5, <1>6
<1> QED
  BY <1>1, <1>4, <1>5, <1>7 DEF D, U

LEMMA BoundariesAre ==
    /\ n_bands = 12 /\ BOUNDARY_PCTS[12] = 99 /\ BOUNDARY_PCTS[13] = 100
    /\ \A i \in 1 .. 12 : BOUNDARY_PCTS[i + 1] \in Nat /\ BOUNDARY_PCTS[i + 1] <= 100
    /\ \A i, j \in 1 .. 12 : i <= j => BOUNDARY_PCTS[i + 1] <= BOUNDARY_PCTS[j + 1]
<1>1. n_bands = 12
  BY DEF n_bands, BOUNDARY_PCTS
<1>2. /\ BOUNDARY_PCTS[2] = 1 /\ BOUNDARY_PCTS[3] = 10 /\ BOUNDARY_PCTS[4] = 20
      /\ BOUNDARY_PCTS[5] = 30 /\ BOUNDARY_PCTS[6] = 40 /\ BOUNDARY_PCTS[7] = 50
      /\ BOUNDARY_PCTS[8] = 60 /\ BOUNDARY_PCTS[9] = 70 /\ BOUNDARY_PCTS[10] = 80
      /\ BOUNDARY_PCTS[11] = 90 /\ BOUNDARY_PCTS[12] = 99 /\ BOUNDARY_PCTS[13] = 100
  BY DEF BOUNDARY_PCTS
<1>3. \A i \in 1 .. 12 : BOUNDARY_PCTS[i + 1] \in Nat /\ BOUNDARY_PCTS[i + 1] <= 100
  <2> SUFFICES ASSUME NEW i \in 1 .. 12
               PROVE  BOUNDARY_PCTS[i + 1] \in Nat /\ BOUNDARY_PCTS[i + 1] <= 100
    OBVIOUS
  <2>1. i + 1 \in {2, 3, 4, 5, 6, 7, 8, 9, 10, 11, 12, 13}
    OBVIOUS
  <2> QED
    BY <1>2, <2>1
<1>4. \A i \in 1 .. 11 : BOUNDARY_PCTS[i + 1] <= BOUNDARY_PCTS[i + 2]
  <2> SUFFICES ASSUME NEW i \in 1 .. 11 PROVE BOUNDARY_PCTS[i + 1] <= BOUNDARY_PCTS[i + 2]
    OBVIOUS
  <2>1. \/ i = 1 \/ i = 2 \/ i = 3 \/ i = 4 \/ i = 5 \/ i = 6
        \/ i = 7 \/ i = 8 \/ i = 9 \/ i = 10 \/ i = 11
    OBVIOUS
  <2> QED
    BY <1>2, <2>1
<1>5. \A i, j \in 1 .. 12 : i <= j => BOUNDARY_PCTS[i + 1] <= BOUNDARY_PCTS[j + 1]
  <2> SUFFICES ASSUME NEW i \in 1 .. 12, NEW j \in 1 .. 12, i <= j
               PROVE  BOUNDARY_PCTS[i + 1] <= BOUNDARY_PCTS[j + 1]
    OBVIOUS
  <2>1. /\ i + 1 \in {2, 3, 4, 5, 6, 7, 8, 9, 10, 11, 12, 13}
        /\ j + 1 \in {2, 3, 4, 5, 6, 7, 8, 9, 10, 11, 12, 13}
        /\ i + 1 <= j + 1 /\ i + 1 \in Int /\ j + 1 \in Int
    OBVIOUS
  <2> DEFINE x == i + 1
             y == j + 1
  <2> HIDE DEF x, y
  <2>2. BOUNDARY_PCTS[x] <= BOUNDARY_PCTS[y]
    BY <1>2, <2>1 DEF x, y
  <2> QED
    BY <2>2 DEF x, y
<1> QED
  BY <1>1, <1>2, <1>3, <1>5

\* A value is in the bands up to the i-th exactly if its mid-rank is below
\* the upper boundary of that band.
LEMMA BandIs ==
    ASSUME NEW h, Hist(h), NEW v \in DOMAIN h
    PROVE  /\ band(h, v) \in 1 .. 12
           /\ \A i \in 1 .. 12 :
                 band(h, v) <= i <=> 100 * (2 * Below(h, v) + h[v])
                                       < 2 * (BOUNDARY_PCTS[i + 1] * Samples(h))
<1> DEFINE m == Twice_mid_rank(h, v)
           S == Samples(h)
           above == {i \in 1 .. n_bands : 100 * m < BOUNDARY_PCTS[i + 1] * 2 * S}
           P(i) == BOUNDARY_PCTS[i + 1]
<1>1. /\ Below(h, v) \in Nat /\ h[v] \in Nat /\ h[v] > 0
      /\ S \in Nat /\ Below(h, v) + h[v] <= S
  BY HistIs, BelowIs
<1>2. m = 2 * Below(h, v) + h[v]
  BY DEF Twice_mid_rank
<1>3. m \in Nat /\ m < 2 * S
  BY <1>1, <1>2
<1> HIDE DEF m, S
<1>4. \A i \in 1 .. 12 : P(i) \in Nat /\ P(i) * S \in Nat /\ P(i) * 2 * S = 2 * (P(i) * S)
  BY <1>1, BoundariesAre
<1>5. \A i \in 1 .. 12 : i \in above <=> 100 * m < 2 * (P(i) * S)
  BY <1>4, BoundariesAre
<1>6. 12 \in above
  <2>1. P(12) = 100
    BY BoundariesAre
  <2>2. 100 * m < 2 * (100 * S)
    BY <1>1, <1>3
  <2> HIDE DEF above
  <2> QED
    BY <1>5, <2>1, <2>2
<1>7. above \subseteq 1 .. 12 /\ band(h, v) = Min(above)
  <2>1. above \subseteq 1 .. 12
    BY BoundariesAre
  <2>2. band(h, v) = IF above = {} THEN n_bands ELSE Min(above)
    BY DEF band, m, S
  <2> QED
    BY <1>6, <2>1, <2>2
<1> HIDE DEF above
<1>8. band(h, v) \in above /\ \A i \in above : band(h, v) <= i
  <2>1. above \in SUBSET Nat /\ above # {}
    BY <1>6, <1>7
  <2> QED
    BY <1>7, <2>1, MinIs
<1>9. ASSUME NEW i \in 1 .. 12, band(h, v) <= i PROVE 100 * m < 2 * (P(i) * S)
  <2> DEFINE b == band(h, v)
  <2>1. b \in 1 .. 12 /\ 100 * m < 2 * (P(b) * S) /\ b <= i
    BY <1>5, <1>7, <1>8, <1>9
  <2>2. P(b) <= P(i)
    BY <2>1, BoundariesAre
  <2>3. P(b) * S <= P(i) * S
    <3>1. \A x, y, z \in Nat : x <= y => x * z <= y * z
      OBVIOUS
    <3> QED
      BY <1>1, <1>4, <2>1, <2>2, <3>1
  <2> HIDE DEF b, P
  <2> QED
    BY <1>3, <1>4, <2>1, <2>3
<1> QED
  BY <1>2, <1>5, <1>7, <1>8, <1>9 DEF S

\* Larger values are in no earlier bands.
LEMMA BandsOrdered ==
    ASSUME NEW h, Hist(h), NEW v \in DOMAIN h, NEW w \in DOMAIN h, band(h, v) < band(h, w)
    PROVE  v < w
<1> DEFINE i == band(h, v)
           p == BOUNDARY_PCTS[i + 1] * Samples(h)
<1>1. v \in Nat /\ w \in Nat /\ i \in 1 .. 12 /\ band(h, w) \in 1 .. 12 /\ i < band(h, w)
  BY HistIs, BandIs
<1>2. 100 * (2 * Below(h, v) + h[v]) < 2 * p
  BY <1>1, BandIs
<1>3. ~ (100 * (2 * Below(h, w) + h[w]) < 2 * p)
  BY <1>1, BandIs
<1>4. p \in Int
  BY <1>1, HistIs, BoundariesAre
<1>5. /\ Below(h, v) \in Nat /\ h[v] \in Nat /\ h[v] > 0
      /\ Below(h, w) \in Nat /\ h[w] \in Nat /\ h[w] > 0
  BY HistIs, BelowIs
<1>6. ASSUME w < v PROVE FALSE
  <2>1. Below(h, w) + h[w] <= Below(h, v)
    BY <1>6, BelowIs
  <2> HIDE DEF p
  <2> QED
    BY <1>2, <1>3, <1>4, <1>5, <2>1
<1>7. v # w
  BY <1>1
<1> QED
  BY <1>1, <1>6, <1>7

\* The values in the bands up to the i-th.
Inside(h, i) == {v \in DOMAIN h : band(h, v) <= i}

\* These are the values below the first one that is in a later band, and
\* those up to the last one that is not.
LEMMA InsideIs ==
    ASSUME NEW h, Hist(h), NEW i \in 1 .. 12
    PROVE  /\ Inside(h, i) # {} =>
                LET m == Max(Inside(h, i))
                IN /\ m \in DOMAIN h /\ band(h, m) <= i
                   /\ SumFunctionOnSet(h, Inside(h, i)) = Below(h, m) + h[m]
           /\ DOMAIN h \ Inside(h, i) # {} =>
                LET m == Min(DOMAIN h \ Inside(h, i))
                IN /\ m \in DOMAIN h /\ ~ (band(h, m) <= i)
                   /\ SumFunctionOnSet(h, Inside(h, i)) = Below(h, m)
<1> DEFINE I == Inside(h, i)
           O == DOMAIN h \ I
<1>1. /\ I \in SUBSET DOMAIN h /\ (\A v \in I : band(h, v) <= i)
      /\ \A v \in O : v \in DOMAIN h /\ ~ (band(h, v) <= i)
  BY DEF Inside
<1>2. IsFiniteSet(I) /\ I \in SUBSET Nat /\ O \in SUBSET Nat
  BY <1>1, HistIs, FS_Subset
<1>3. \A v \in DOMAIN h : band(h, v) \in Int
  BY BandIs
<1>4. \A v \in I, w \in O : v < w
  <2> SUFFICES ASSUME NEW v \in I, NEW w \in O PROVE v < w
    OBVIOUS
  <2>1. v \in DOMAIN h /\ w \in DOMAIN h /\ band(h, v) < band(h, w)
    BY <1>1, <1>3
  <2> QED
    BY <2>1, BandsOrdered
<1>5. \A v \in DOMAIN h : v \in I \/ v \in O
  OBVIOUS
<1> HIDE DEF I, O
<1>6. ASSUME I # {}
      PROVE  LET m == Max(I) IN /\ m \in DOMAIN h /\ band(h, m) <= i
                                /\ SumFunctionOnSet(h, I) = Below(h, m) + h[m]
  <2> DEFINE m == Max(I)
  <2>1. m \in I /\ \A y \in I : m >= y
    BY <1>2, <1>6, MaxIs
  <2> HIDE DEF m
  <2>2. m \in DOMAIN h
    BY <1>1, <2>1
  <2>3. I = {w \in DOMAIN h : w <= m}
    <3>1. \A w \in O : ~ (w <= m)
      BY <1>2, <1>4, <2>1
    <3>2. \A w \in I : w <= m
      BY <1>2, <2>1
    <3> QED
      BY <1>1, <1>5, <3>1, <3>2
  <2> QED
    BY <1>1, <2>1, <2>2, <2>3, BelowIs DEF m
<1>7. ASSUME O # {}
      PROVE  LET m == Min(O) IN /\ m \in DOMAIN h /\ ~ (band(h, m) <= i)
                                /\ SumFunctionOnSet(h, I) = Below(h, m)
  <2> DEFINE m == Min(O)
  <2>1. m \in O /\ \A y \in O : m <= y
    BY <1>2, <1>7, MinIs
  <2> HIDE DEF m
  <2>2. I = {w \in DOMAIN h : w < m}
    <3>1. \A w \in I : w < m
      BY <1>4, <2>1
    <3>2. \A w \in O : ~ (w < m)
      BY <1>2, <2>1
    <3> QED
      BY <1>1, <1>5, <3>1, <3>2
  <2>3. SumFunctionOnSet(h, I) = Below(h, m)
    BY <2>2 DEF Below
  <2> QED
    BY <1>1, <2>1, <2>3 DEF m
<1> QED
  BY <1>6, <1>7 DEF I, O

-----------------------------------------------------------------------------
(* The rendered table *)

\* The values in the i-th band.
Within(h, i) == {v \in DOMAIN h : band(h, v) = i}

LEMMA RenderIs ==
    ASSUME NEW h, NEW c
    PROVE  /\ \A v \in DOMAIN h : render(h, c).bands[v] = band(h, v)
           /\ DOMAIN render(h, c).bands = DOMAIN h
           /\ \A i \in 1 .. 12 :
                 LET row == render(h, c).rows[i]
                 IN /\ row.cells.count = SumFunctionOnSet(h, Within(h, i))
                    /\ row.cells.sum = Total(h, Within(h, i))
                    /\ Within(h, i) # {} => /\ row.span.first = Min(Within(h, i))
                                            /\ row.span.last = Max(Within(h, i))
           /\ render(h, c).mean.sum = SumFunction(Medians(h))
           /\ render(h, c).trim.count = SumFunctionOnSet(h, trimmed(render(h, c).bands))
<1> DEFINE bands == [v \in DOMAIN h |-> band(h, v)]
           rows == [i \in 1 .. n_bands |-> Row(h, {v \in DOMAIN h : bands[v] = i}, c)]
           page == [bands |-> bands, rows |-> rows, mean |-> Mean(h, c),
                    trim |-> Means(h, trimmed(bands), c)]
<1>1. render(h, c) = page
  BY DEF render
<1>2. /\ page.bands = bands /\ page.rows = rows /\ page.mean = Mean(h, c)
      /\ page.trim = Means(h, trimmed(bands), c)
  OBVIOUS
<1>3. /\ \A vs : /\ Means(h, vs, c).count = SumFunctionOnSet(h, vs)
                 /\ Means(h, vs, c).sum = Total(h, vs)
      /\ Mean(h, c).sum = SumFunction(Medians(h))
  BY DEF Means, Mean, Medians, Cells
<1>4. \A vs : /\ Row(h, vs, c).cells = Means(h, vs, c)
              /\ vs # {} => /\ Row(h, vs, c).span.first = Min(vs)
                            /\ Row(h, vs, c).span.last = Max(vs)
  BY DEF Row
<1>5. \A i \in 1 .. 12 : rows[i] = Row(h, Within(h, i), c)
  <2> SUFFICES ASSUME NEW i \in 1 .. 12 PROVE rows[i] = Row(h, Within(h, i), c)
    OBVIOUS
  <2>1. {v \in DOMAIN h : bands[v] = i} = Within(h, i)
    BY DEF Within
  <2>2. rows[i] = Row(h, {v \in DOMAIN h : bands[v] = i}, c)
    BY BoundariesAre
  <2> QED
    BY <2>1, <2>2
<1>6. DOMAIN bands = DOMAIN h /\ \A v \in DOMAIN h : bands[v] = band(h, v)
  OBVIOUS
<1> HIDE DEF bands, rows, page
<1> QED
  BY <1>1, <1>2, <1>3, <1>4, <1>5, <1>6

\* What is summed over the values of a histogram may be summed band by band.
LEMMA ByBand ==
    ASSUME NEW h, Hist(h), NEW f, \A v \in DOMAIN h : f[v] \in Int, NEW n \in 1 .. 12,
           NEW F, \A i \in 1 .. n : F[i] = SumFunctionOnSet(f, Within(h, i))
    PROVE  SumFunctionOnSet(F, 1 .. n) = SumFunctionOnSet(f, Inside(h, n))
<1> DEFINE S == Inside(h, n)
           I == 1 .. n
           key == [v \in DOMAIN h |-> band(h, v)]
<1>1. IsFiniteSet(I)
  <2>1. n \in Int /\ 1 \in Int
    OBVIOUS
  <2> QED
    BY <2>1, FS_Interval
<1>2. S \subseteq DOMAIN h /\ IsFiniteSet(S)
  BY HistIs, FS_Subset DEF Inside
<1>3. \A v \in S : key[v] \in I
  <2> SUFFICES ASSUME NEW v \in S PROVE key[v] \in I
    OBVIOUS
  <2>1. v \in DOMAIN h /\ band(h, v) <= n
    BY DEF Inside
  <2>2. band(h, v) \in 1 .. 12
    BY <2>1, BandIs
  <2> QED
    BY <2>1, <2>2
<1>4. \A i \in I : Within(h, i) = Fibre(key, S, i)
  <2> SUFFICES ASSUME NEW i \in I PROVE Within(h, i) = Fibre(key, S, i)
    OBVIOUS
  <2>1. i \in Int /\ i <= n
    OBVIOUS
  <2> QED
    BY <2>1 DEF Within, Fibre, Inside
<1>5. \A i \in I : F[i] = SumFunctionOnSet(f, Fibre(key, S, i))
  BY <1>4
<1>6. \A v \in S : f[v] \in Int
  BY <1>2
<1> HIDE DEF I, S, key
<1>7. SumFunctionOnSet(F, I) = SumFunctionOnSet(f, S)
  BY <1>1, <1>2, <1>3, <1>5, <1>6, SumFibres
<1> QED
  BY <1>7 DEF I, S

LEMMA AllInside == ASSUME NEW h, Hist(h) PROVE Inside(h, 12) = DOMAIN h
<1>1. \A v \in DOMAIN h : band(h, v) <= 12
  BY BandIs
<1> QED
  BY <1>1 DEF Inside

\* The bands of any histogram partition its samples in order.
LEMMA RenderPartitions ==
    ASSUME NEW h, Hist(h), DOMAIN h \subseteq Buckets, NEW c
    PROVE  PartitionOf(h, render(h, c))
<1> DEFINE table == render(h, c)
           counts == [i \in 1 .. n_bands |-> CountIn(table, i)]
           sums == [i \in 1 .. n_bands |-> table.rows[i].cells.sum]
           f == [v \in DOMAIN h |-> v * h[v]]
<1>1. \A i \in 1 .. 12 : /\ table.rows[i].cells.count = SumFunctionOnSet(h, Within(h, i))
                         /\ table.rows[i].cells.sum = SumFunctionOnSet(f, Within(h, i))
                         /\ Within(h, i) # {} => /\ table.rows[i].span.first = Min(Within(h, i))
                                                 /\ table.rows[i].span.last = Max(Within(h, i))
  BY RenderIs DEF Total
<1>2. table.mean.sum = SumFunctionOnSet(Medians(h), DOMAIN h)
  BY RenderIs DEF SumFunction, Medians
<1> HIDE DEF table
<1>3. SumFunction(counts) = Samples(h)
  <2>1. DOMAIN counts = 1 .. 12 /\ \A i \in 1 .. 12 : counts[i] = SumFunctionOnSet(h, Within(h, i))
    BY <1>1, BoundariesAre DEF CountIn
  <2>2. \A v \in DOMAIN h : h[v] \in Int
    BY HistIs
  <2> HIDE DEF counts
  <2>3. SumFunctionOnSet(counts, 1 .. 12) = SumFunctionOnSet(h, Inside(h, 12))
    BY <2>1, <2>2, ByBand
  <2> QED
    BY <2>1, <2>3, AllInside, HistIs DEF SumFunction
<1>4. SumFunction(sums) = SumFunctionOnSet(f, DOMAIN h)
  <2>1. DOMAIN sums = 1 .. 12 /\ \A i \in 1 .. 12 : sums[i] = SumFunctionOnSet(f, Within(h, i))
    BY <1>1, BoundariesAre
  <2>2. \A v \in DOMAIN h : f[v] \in Int
    <3>1. \A v \in DOMAIN h : v \in Int /\ h[v] \in Int
      BY HistIs
    <3> QED
      BY <3>1
  <2> HIDE DEF sums, f
  <2>3. SumFunctionOnSet(sums, 1 .. 12) = SumFunctionOnSet(f, Inside(h, 12))
    BY <2>1, <2>2, ByBand
  <2> QED
    BY <2>1, <2>3, AllInside DEF SumFunction
<1>5. SumFunction(sums) - table.mean.sum \in 0 .. SumFunction(sums) \div 2048
  <2> DEFINE g == Medians(h)
             D == DOMAIN h
  <2>1. IsFiniteSet(D)
    BY HistIs
  <2>2. \A v \in D : /\ f[v] \in Nat /\ g[v] \in Int
                     /\ 2047 * f[v] <= 2048 * g[v] /\ 1 * g[v] <= 1 * f[v]
    <3> SUFFICES ASSUME NEW v \in D
                 PROVE  /\ f[v] \in Nat /\ g[v] \in Int
                        /\ 2047 * f[v] <= 2048 * g[v] /\ 1 * g[v] <= 1 * f[v]
      OBVIOUS
    <3> DEFINE m == median_equivalent(v)
               k == h[v]
    <3>1. /\ v \in Nat /\ m \in Nat /\ 2047 * v <= 2048 * m /\ m <= v
      BY BucketsAre, MedianIs
    <3>2. k \in Nat /\ f[v] = v * k /\ g[v] = m * k
      BY HistIs DEF Medians
    <3> HIDE DEF m, k, f, g
    <3> QED
      BY <3>1, <3>2, ScaledProduct
  <2> HIDE DEF f, g, D
  <2>3. \A v \in D : f[v] \in Int /\ g[v] \in Int /\ 2047 * f[v] <= 2048 * g[v]
    BY <2>2
  <2>4. \A v \in D : g[v] \in Int /\ f[v] \in Int /\ 1 * g[v] <= 1 * f[v]
    BY <2>2
  <2>5. /\ 2047 * SumFunctionOnSet(f, D) <= 2048 * SumFunctionOnSet(g, D)
        /\ 1 * SumFunctionOnSet(g, D) <= 1 * SumFunctionOnSet(f, D)
    BY <2>1, <2>3, <2>4, SumScaled
  <2>6. SumFunctionOnSet(f, D) \in Nat /\ SumFunctionOnSet(g, D) \in Int
    BY <2>1, <2>2, SumNat, SumInt
  <2>7. SumFunctionOnSet(f, D) - SumFunctionOnSet(g, D) \in 0 .. SumFunctionOnSet(f, D) \div 2048
    BY <2>5, <2>6
  <2> QED
    BY <1>2, <1>4, <2>7 DEF D, g
<1>6. ASSUME NEW i \in 1 .. 12, NEW j \in 1 .. 12, CountIn(table, i) > 0, CountIn(table, j) > 0, i < j
      PROVE  table.rows[i].span.last < table.rows[j].span.first
  <2>1. Within(h, i) # {} /\ Within(h, j) # {}
    <3>1. /\ CountIn(table, i) = SumFunctionOnSet(h, Within(h, i))
          /\ CountIn(table, j) = SumFunctionOnSet(h, Within(h, j))
      BY <1>1 DEF CountIn
    <3>2. CountIn(table, i) # 0 /\ CountIn(table, j) # 0
      BY <1>6
    <3> QED
      BY <3>1, <3>2, SumEmpty
  <2> DEFINE A == Within(h, i)
             B == Within(h, j)
  <2>2. IsFiniteSet(A) /\ A \in SUBSET Nat /\ B \in SUBSET Nat
    BY HistIs, FS_Subset DEF Within
  <2>3. \A v \in A, w \in B : v < w
    <3> SUFFICES ASSUME NEW v \in A, NEW w \in B PROVE v < w
      OBVIOUS
    <3>1. v \in DOMAIN h /\ w \in DOMAIN h /\ band(h, v) < band(h, w)
      BY <1>6 DEF Within
    <3> QED
      BY <3>1, BandsOrdered
  <2> HIDE DEF A, B
  <2>4. Max(A) \in A /\ Min(B) \in B
    BY <2>1, <2>2, MaxIs, MinIs DEF A, B
  <2>5. Max(A) < Min(B)
    BY <2>3, <2>4
  <2> QED
    BY <1>1, <2>1, <2>5 DEF A, B
<1>7. PartitionOf(h, table) <=>
         /\ SumFunction(counts) = Samples(h)
         /\ SumFunction(sums) - table.mean.sum \in 0 .. SumFunction(sums) \div 2048
         /\ \A i, j \in {k \in 1 .. n_bands : CountIn(table, k) > 0} :
               i < j => table.rows[i].span.last < table.rows[j].span.first
  BY DEF PartitionOf
<1>8. n_bands = 12
  BY BoundariesAre
<1> HIDE DEF counts, sums, f
<1> QED
  BY <1>3, <1>5, <1>6, <1>7, <1>8 DEF table

\* The bands of any histogram end where their percentiles are.
LEMMA RenderTracks ==
    ASSUME NEW h, Hist(h), NEW c
    PROVE  PercentilesOf(h, render(h, c))
<1> DEFINE table == render(h, c)
           S == Samples(h)
<1> SUFFICES ASSUME NEW i \in 1 .. 12
             PROVE  LET held == SumFunctionOnSet([k \in 1 .. n_bands |-> CountIn(table, k)], 1 .. i)
                        off == 200 * held - 2 * BOUNDARY_PCTS[i + 1] * Samples(h)
                        inside == {v \in DOMAIN h : table.bands[v] <= i}
                    IN /\ off > 0 => off <= 100 * h[Max(inside)]
                       /\ off < 0 => -off <= 100 * h[Min(DOMAIN h \ inside)]
  BY BoundariesAre DEF PercentilesOf
<1> DEFINE counts == [k \in 1 .. n_bands |-> CountIn(table, k)]
           held == SumFunctionOnSet(counts, 1 .. i)
           p == BOUNDARY_PCTS[i + 1]
           ps == p * S
           off == 200 * held - 2 * p * S
           I == Inside(h, i)
           O == DOMAIN h \ I
<1>1. {v \in DOMAIN h : table.bands[v] <= i} = I
  BY RenderIs DEF Inside
<1>2. held = SumFunctionOnSet(h, I)
  <2>1. \A k \in 1 .. i : counts[k] = SumFunctionOnSet(h, Within(h, k))
    <3> SUFFICES ASSUME NEW k \in 1 .. i PROVE counts[k] = SumFunctionOnSet(h, Within(h, k))
      OBVIOUS
    <3>1. k \in 1 .. 12 /\ n_bands = 12
      BY BoundariesAre
    <3>2. counts[k] = table.rows[k].cells.count
      BY <3>1 DEF CountIn
    <3> QED
      BY <3>1, <3>2, RenderIs
  <2>2. \A v \in DOMAIN h : h[v] \in Int
    BY HistIs
  <2> HIDE DEF counts, I
  <2> QED
    BY <2>1, <2>2, ByBand DEF I
<1>3. S \in Nat /\ S > 0 /\ p \in Nat /\ p <= 100
  BY HistIs, BoundariesAre
<1>4. ps \in Nat /\ ps <= 100 * S
  <2>1. \A x, y, z \in Nat : x <= y => x * z <= y * z
    OBVIOUS
  <2> QED
    BY <1>3, <2>1
<1>5. off = 200 * held - 2 * ps
  <2>1. \A x, y \in Nat : 2 * x * y = 2 * (x * y)
    OBVIOUS
  <2> QED
    BY <1>3, <2>1
<1>6. I \in SUBSET DOMAIN h
  BY DEF Inside
<1>7. held \in Nat
  BY <1>2, <1>6, HistIs, SumPart
<1> HIDE DEF held, ps, S, table
<1>8. ASSUME off > 0 PROVE off <= 100 * h[Max(I)]
  <2> DEFINE m == Max(I)
  <2>1. I # {}
    <3>1. held # 0
      BY <1>4, <1>5, <1>7, <1>8
    <3> QED
      BY <1>2, <3>1, SumEmpty
  <2>2. m \in DOMAIN h /\ band(h, m) <= i /\ held = Below(h, m) + h[m]
    BY <1>2, <2>1, InsideIs
  <2> HIDE DEF m, I
  <2>3. 100 * (2 * Below(h, m) + h[m]) < 2 * ps
    BY <2>2, BandIs DEF ps, S
  <2>4. Below(h, m) \in Nat /\ h[m] \in Nat
    BY <2>2, BelowIs, HistIs
  <2>5. off <= 100 * h[m]
    BY <1>4, <1>5, <2>2, <2>3, <2>4
  <2> QED
    BY <2>5 DEF m
<1>9. ASSUME off < 0 PROVE -off <= 100 * h[Min(O)]
  <2> DEFINE m == Min(O)
  <2>1. O # {}
    <3>1. ASSUME O = {} PROVE FALSE
      <4>1. I = DOMAIN h
        BY <1>6, <3>1
      <4>2. held = S
        BY <1>2, <4>1, HistIs DEF S
      <4> QED
        BY <1>3, <1>4, <1>5, <1>9, <4>2
    <3> QED
      BY <3>1
  <2>2. m \in DOMAIN h /\ ~ (band(h, m) <= i) /\ held = Below(h, m)
    BY <1>2, <2>1, InsideIs
  <2> HIDE DEF m, I
  <2>3. ~ (100 * (2 * Below(h, m) + h[m]) < 2 * ps)
    BY <2>2, BandIs DEF ps, S
  <2>4. Below(h, m) \in Nat /\ h[m] \in Nat
    BY <2>2, BelowIs, HistIs
  <2>5. -off <= 100 * h[m]
    BY <1>4, <1>5, <2>2, <2>3, <2>4
  <2> QED
    BY <2>5 DEF m
<1> HIDE DEF off, I
<1>10. /\ off > 0 => off <= 100 * h[Max(I)]
       /\ off < 0 => -off <= 100 * h[Min(DOMAIN h \ I)]
  BY <1>8, <1>9
<1> QED
  BY <1>1, <1>10 DEF off, held, S

\* "mean min-p99" of any histogram leaves out the largest values only, and
\* at most two percent of the samples.
LEMMA RenderTrims ==
    ASSUME NEW h, Hist(h), NEW c
    PROVE  TrimOf(h, render(h, c))
<1> DEFINE kept == trimmed(render(h, c).bands)
           count == render(h, c).trim.count
           S == Samples(h)
           I == Inside(h, 11)
           O == DOMAIN h \ I
<1>1. kept = I
  <2>1. \A v \in DOMAIN h : band(h, v) \in 1 .. 12
    BY BandIs
  <2>2. \A v \in DOMAIN h : band(h, v) < 12 <=> band(h, v) <= 11
    BY <2>1
  <2> DEFINE bands == render(h, c).bands
  <2>3. DOMAIN bands = DOMAIN h /\ \A v \in DOMAIN h : bands[v] = band(h, v)
    BY RenderIs
  <2> HIDE DEF bands
  <2>4. trimmed(bands) = {v \in DOMAIN bands : bands[v] < 12}
    BY BoundariesAre DEF trimmed
  <2>5. trimmed(bands) = I
    BY <2>2, <2>3, <2>4 DEF Inside
  <2> QED
    BY <2>5 DEF bands
<1>2. count = SumFunctionOnSet(h, I)
  <2>1. count = SumFunctionOnSet(h, kept)
    BY RenderIs
  <2> QED
    BY <1>1, <2>1
<1> HIDE DEF kept, count
<1>3. \A v \in kept, w \in DOMAIN h \ kept : v < w
  <2> SUFFICES ASSUME NEW v \in I, NEW w \in O PROVE v < w
    BY <1>1
  <2>1. v \in DOMAIN h /\ w \in DOMAIN h /\ band(h, v) <= 11 /\ ~ (band(h, w) <= 11)
    BY DEF Inside
  <2>2. band(h, v) \in 1 .. 12 /\ band(h, w) \in 1 .. 12
    BY <2>1, BandIs
  <2>3. band(h, v) < band(h, w)
    BY <2>1, <2>2
  <2> QED
    BY <2>1, <2>3, BandsOrdered
<1>4. S \in Nat
  BY HistIs
<1> HIDE DEF S
<1>5. 100 * (S - count) <= 2 * S
  <2>1. CASE O = {}
    <3>1. I = DOMAIN h
      BY <2>1 DEF Inside
    <3>2. count = S
      BY <1>2, <3>1, HistIs DEF S
    <3> QED
      BY <1>4, <3>2
  <2>2. CASE O # {}
    <3> DEFINE m == Min(O)
    <3>1. m \in DOMAIN h /\ ~ (band(h, m) <= 11) /\ count = Below(h, m)
      <4> DEFINE i == 11
      <4>1. i \in 1 .. 12
        OBVIOUS
      <4>2. O = DOMAIN h \ Inside(h, i) /\ count = SumFunctionOnSet(h, Inside(h, i))
        BY <1>2
      <4> HIDE DEF i, O
      <4>3. m \in DOMAIN h /\ ~ (band(h, m) <= i) /\ count = Below(h, m)
        BY <2>2, <4>1, <4>2, InsideIs
      <4> QED
        BY <4>3 DEF i
    <3> HIDE DEF m
    <3>2. ~ (100 * (2 * Below(h, m) + h[m]) < 2 * (99 * S))
      <4>1. ~ (100 * (2 * Below(h, m) + h[m]) < 2 * (BOUNDARY_PCTS[11 + 1] * S))
        BY <3>1, BandIs DEF S
      <4>2. BOUNDARY_PCTS[11 + 1] = 99
        BY BoundariesAre
      <4> QED
        BY <4>1, <4>2
    <3>3. Below(h, m) \in Nat /\ h[m] \in Nat /\ Below(h, m) + h[m] <= S
      BY <3>1, BelowIs, HistIs DEF S
    <3> QED
      BY <1>4, <3>1, <3>2, <3>3
  <2> QED
    BY <2>1, <2>2
<1> QED
  BY <1>3, <1>5 DEF TrimOf, kept, count, S

LEMMA BucketsInNat == Buckets \subseteq Nat
BY BucketsAre

LEMMA ShownHist ==
    ASSUME IInv, shown # None
    PROVE  /\ Hist(shown.hist) /\ DOMAIN shown.hist \subseteq Buckets
           /\ \E c : shown.table = render(shown.hist, c)
BY BucketsInNat DEF IInv, ShownRendered, Hist

\* The bands of a report cut its samples, in the order of their values, into
\* pieces that do not overlap and are together the whole histogram.
THEOREM BandsArePartition == Spec => []BandsPartition
<1>1. IInv => BandsPartition
  BY ShownHist, RenderPartitions DEF BandsPartition
<1> QED
  BY <1>1, Inductive, PTL

\* The bands of a report end where their percentiles are, as closely as the
\* equal samples next to a boundary allow.
THEOREM BandsAreAtPercentiles == Spec => []BandsTrackPercentiles
<1>1. IInv => BandsTrackPercentiles
  BY ShownHist, RenderTracks DEF BandsTrackPercentiles
<1> QED
  BY <1>1, Inductive, PTL

\* "mean min-p99" of a report cuts the upper tail only, and at most two
\* percent of the samples.
THEOREM TrimIsAtMostTwoPercent == Spec => []TrimIsRobust
<1>1. IInv => TrimIsRobust
  BY ShownHist, RenderTrims DEF TrimIsRobust
<1> QED
  BY <1>1, Inductive, PTL

=============================================================================
