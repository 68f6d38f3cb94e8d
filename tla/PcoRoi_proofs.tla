--------------------------- MODULE PcoRoi_proofs ---------------------------
(* What checkRoi answers, proved for every regular description, binning and *)
(* request.                                                                 *)
EXTENDS PcoRoi, WellFoundedInduction, TLAPS

----------------------------------------------------------------------------
(* Arithmetic of multiples.                                                 *)

LEMMA Multiple ==
    ASSUME NEW k \in Int, NEW s \in Nat \ {0} PROVE (k * s) % s = 0
  BY SMT

LEMMA Division ==
    ASSUME NEW n \in Nat, NEW s \in Nat, s > 0
    PROVE  n = s * (n \div s) + (n % s) /\ n % s \in 0 .. s - 1 /\ n \div s \in Nat
  BY SMT

LEMMA Commutes == ASSUME NEW i \in Int, NEW j \in Int PROVE i * j = j * i
  BY SMT

LEMMA Quotient ==
    ASSUME NEW n \in Nat, NEW s \in Nat \ {0}
    PROVE  \E q \in Nat, t \in Nat : n % s = t /\ t < s /\ n = q * s + t
  <1>1. s \in Nat /\ s > 0 /\ s \in Int
    OBVIOUS
  <1> DEFINE q == n \div s
             t == n % s
  <1>2. n = s * q + t /\ t \in 0 .. s - 1 /\ q \in Nat
    BY <1>1, Division
  <1>3. n % s = t
    OBVIOUS
  <1> HIDE DEF q, t
  <1>4. s * q = q * s
    BY <1>1, <1>2, Commutes
  <1>5. n = q * s + t /\ t < s /\ t \in Nat
    BY <1>1, <1>2, <1>4
  <1> QED
    BY <1>2, <1>3, <1>5

LEMMA WholeQuotient ==
    ASSUME NEW n \in Nat, NEW s \in Nat \ {0}, n % s = 0 PROVE \E q \in Nat : n = q * s
  <1>1. PICK q \in Nat, t \in Nat : n % s = t /\ t < s /\ n = q * s + t
    BY Quotient
  <1>2. t = 0 /\ n = q * s
    BY <1>1
  <1> QED
    BY <1>2

LEMMA SumOfMultiples ==
    ASSUME NEW n \in Nat, NEW m \in Nat, NEW s \in Nat \ {0}, n % s = 0, m % s = 0
    PROVE  (n + m) % s = 0 /\ (n - m) % s = 0
  <1>1. PICK i \in Nat : n = i * s
    BY WholeQuotient
  <1>2. PICK j \in Nat : m = j * s
    BY WholeQuotient
  <1>3. n + m = (i + j) * s /\ n - m = (i - j) * s
    BY <1>1, <1>2
  <1>4. ((i + j) * s) % s = 0 /\ ((i - j) * s) % s = 0
    BY Multiple
  <1> QED
    BY <1>3, <1>4

(* Between a number and the next multiple of s above it there is no         *)
(* multiple.                                                                *)
LEMMA NextMultiple ==
    ASSUME NEW n \in Nat, NEW m \in Nat, NEW s \in Nat \ {0}, n <= m, m % s = 0, n % s # 0
    PROVE  n + s - (n % s) <= m /\ (n + s - (n % s)) % s = 0
  <1>1. PICK i \in Nat, t \in Nat : n % s = t /\ t < s /\ n = i * s + t
    BY Quotient
  <1>2. PICK j \in Nat : m = j * s
    BY WholeQuotient
  <1>3. t > 0
    BY <1>1
  <1>4. i * s < j * s
    BY <1>1, <1>2, <1>3
  <1>5. i < j
    <2> SUFFICES ASSUME j <= i PROVE FALSE
      OBVIOUS
    <2>1. PICK e \in Nat : i = j + e
      OBVIOUS
    <2>2. i * s = j * s + e * s /\ e * s >= 0
      BY <2>1
    <2> QED
      BY <1>4, <2>2
  <1>6. PICK e \in Nat : j = i + 1 + e
    BY <1>5
  <1>7. j * s = (i + 1) * s + e * s /\ e * s \in Nat
    BY <1>6
  <1>8. n + s - t = (i + 1) * s
    BY <1>1
  <1>9. ((i + 1) * s) % s = 0
    BY Multiple
  <1>10. (i + 1) * s <= m
    BY <1>2, <1>7
  <1> QED
    BY <1>1, <1>8, <1>9, <1>10

(* Rounding down to a multiple.                                             *)
LEMMA PreviousMultiple ==
    ASSUME NEW n \in Nat, NEW s \in Nat \ {0}
    PROVE  n % s \in 0 .. s - 1 /\ n - (n % s) \in 0 .. n /\ (n - (n % s)) % s = 0
  <1>1. PICK i \in Nat, t \in Nat : n % s = t /\ t < s /\ n = i * s + t
    BY Quotient
  <1>2. n - t = i * s
    BY <1>1
  <1>3. i * s \in Nat /\ (i * s) % s = 0
    BY Multiple
  <1>4. t \in 0 .. s - 1 /\ n - t \in 0 .. n /\ (n - t) % s = 0
    BY <1>1, <1>2, <1>3
  <1> QED
    BY <1>1, <1>4

----------------------------------------------------------------------------
(* The stages of _fixValidRoi, on a request within the sensor.              *)

Numbers(l) == l.max \in Nat \ {0} /\ l.steps \in Nat \ {0} /\ l.min \in Nat \ {0}
Interval(r) == r \in [lo : Nat, hi : Nat]
On(r, l) == Interval(r) /\ 1 <= r.lo /\ r.lo <= r.hi /\ r.hi <= l.max
Stepped(r, l) == (r.lo - 1) % l.steps = 0 /\ r.hi % l.steps = 0
Within(r, q) == q.lo <= r.lo /\ r.hi <= q.hi

LEMMA RangedIsSame ==
    ASSUME NEW r, NEW l, Numbers(l), On(r, l) PROVE Ordered(InRange(r, l)) = r
  <1>1. AtLeast1(r.lo) = r.lo /\ Less(r.hi, l.max) = r.hi
    BY DEF Numbers, On, Interval, AtLeast1, Less
  <1>2. InRange(r, l) = r
    BY <1>1 DEF InRange, On, Interval
  <1> QED
    BY <1>2 DEF Ordered, On, Interval

LEMMA AlignedIsStepped ==
    ASSUME NEW r, NEW l, Numbers(l), Regular(l), On(r, l)
    PROVE  LET a == AlignedToSteps(r, l) IN On(a, l) /\ Stepped(a, l) /\ Within(r, a)
  <1> DEFINE a == AlignedToSteps(r, l)
             s == l.steps
             down == (r.lo - 1) % s
             up == r.hi + s - (r.hi % s)
  <1>1. /\ r.lo \in Nat /\ r.lo - 1 \in Nat /\ r.hi \in Nat /\ 1 <= r.lo
        /\ r.lo <= r.hi /\ r.hi <= l.max /\ l.max \in Nat
    BY DEF On, Interval, Numbers
  <1>2. s \in Nat \ {0}
    BY DEF Numbers
  <1>3. down \in 0 .. s - 1 /\ (r.lo - 1) - down \in 0 .. r.lo - 1 /\ ((r.lo - 1) - down) % s = 0
    BY <1>1, <1>2, PreviousMultiple, Zenon
  <1>4. r.hi % s # 0 => up <= l.max /\ up % s = 0
    BY <1>1, <1>2, NextMultiple DEF Regular
  <1>5. up \in Nat /\ r.hi <= up
    <2> DEFINE t == r.hi % s
    <2>1. t \in 0 .. s - 1
      BY <1>1, <1>2, PreviousMultiple, Zenon
    <2> HIDE DEF t
    <2>2. r.hi + s - t \in Nat /\ r.hi <= r.hi + s - t
      BY <1>1, <1>2, <2>1
    <2> QED
      BY <2>2 DEF t
  <1>6. a = [lo |-> r.lo - down, hi |-> IF r.hi % s = 0 THEN r.hi ELSE up]
    BY DEF AlignedToSteps
  <1> HIDE DEF a, down, up
  <1>7. r.lo - down \in Nat /\ 1 <= r.lo - down /\ r.lo - down <= r.lo
    BY <1>1, <1>3
  <1>8. (r.lo - down) - 1 = (r.lo - 1) - down
    BY <1>1, <1>3
  <1>9. a.lo = r.lo - down /\ (a.lo - 1) % s = 0
    BY <1>3, <1>6, <1>8
  <1>10. a.hi \in Nat /\ r.hi <= a.hi /\ a.hi <= l.max /\ a.hi % s = 0
    BY <1>1, <1>4, <1>5, <1>6
  <1>11. a \in [lo : Nat, hi : Nat]
    BY <1>6, <1>7, <1>9, <1>10
  <1>12. 1 <= a.lo /\ a.lo <= r.lo /\ a.lo <= a.hi
    BY <1>1, <1>7, <1>9, <1>10, <1>11
  <1>13. On(a, l)
    BY <1>10, <1>11, <1>12 DEF On, Interval
  <1>14. Stepped(a, l)
    BY <1>9, <1>10 DEF Stepped
  <1> QED
    BY <1>10, <1>12, <1>13, <1>14 DEF Within, a

LEMMA GrownIsLarge ==
    ASSUME NEW r, NEW l, Numbers(l), Regular(l), On(r, l), Stepped(r, l)
    PROVE  LET g == Grown(r, l)
           IN  On(g, l) /\ Stepped(g, l) /\ Within(r, g) /\ Size(g) >= l.min
  <1> DEFINE g == Grown(r, l)
             diff == l.min - Size(r)
  <1>1. /\ r.lo \in Nat /\ r.hi \in Nat /\ r = [lo |-> r.lo, hi |-> r.hi]
        /\ l.steps \in Nat \ {0} /\ l.min \in Nat /\ l.max \in Nat
    BY DEF On, Interval, Numbers
  <1>2. l.min % l.steps = 0 /\ 2 * l.min <= l.max
    BY DEF Regular
  <1>3. r.lo - 1 \in Nat /\ (r.lo - 1) % l.steps = 0 /\ r.hi % l.steps = 0
    BY <1>1 DEF On, Stepped
  <1>4. diff = l.min + (r.lo - 1) - r.hi
    BY <1>1 DEF Size
  <1>5. CASE Size(r) >= l.min
    BY <1>1, <1>5 DEF Grown, Within, Size
  <1>6. CASE Size(r) < l.min /\ r.lo >= 1 + diff
    <2>1. g = [lo |-> r.lo - diff, hi |-> r.hi]
      BY <1>1, <1>6 DEF Grown, Size
    <2>2. r.lo - diff - 1 = r.hi - l.min
      BY <1>1, <1>4
    <2>3. (r.hi - l.min) % l.steps = 0
      BY <1>1, <1>2, <1>3, SumOfMultiples
    <2>4. r.lo - diff \in Nat /\ 1 <= r.lo - diff /\ r.lo - diff <= r.lo /\ r.hi - (r.lo - diff) + 1 >= l.min
      BY <1>1, <1>4, <1>6 DEF Size
    <2> DEFINE lo == r.lo - diff
    <2>5. g = [lo |-> lo, hi |-> r.hi] /\ (lo - 1) % l.steps = 0
      BY <2>1, <2>2, <2>3
    <2>6. lo \in Nat /\ 1 <= lo /\ lo <= r.lo /\ r.hi - lo + 1 >= l.min
      BY <2>4
    <2> HIDE DEF g, lo
    <2>7. g.lo = lo /\ g.hi = r.hi /\ g \in [lo : Nat, hi : Nat]
      BY <1>1, <2>5, <2>6
    <2>8. 1 <= r.lo /\ r.lo <= r.hi /\ r.hi <= l.max
      BY DEF On
    <2>9. On(g, l) /\ Within(r, g)
      BY <1>1, <2>6, <2>7, <2>8 DEF On, Interval, Within
    <2>10. Stepped(g, l)
      BY <1>3, <2>5, <2>7 DEF Stepped
    <2>11. Size(g) >= l.min
      BY <2>6, <2>7 DEF Size
    <2> QED
      BY <2>9, <2>10, <2>11 DEF g
  <1>7. CASE Size(r) < l.min /\ r.lo < 1 + diff
    <2>1. g = [lo |-> r.lo, hi |-> r.hi + diff]
      BY <1>1, <1>7, <1>4 DEF Grown, Size
    <2>2. r.hi + diff = l.min + (r.lo - 1)
      BY <1>1, <1>4
    <2>3. (l.min + (r.lo - 1)) % l.steps = 0
      BY <1>1, <1>2, <1>3, SumOfMultiples
    <2>4. /\ r.hi + diff \in Nat /\ r.hi <= r.hi + diff /\ r.lo <= r.hi + diff
          /\ r.hi + diff <= l.max /\ (r.hi + diff) - r.lo + 1 >= l.min
      BY <1>1, <1>2, <1>3, <1>4, <1>7 DEF Size, On
    <2> DEFINE hi == r.hi + diff
    <2>5. g = [lo |-> r.lo, hi |-> hi] /\ hi % l.steps = 0
      BY <2>1, <2>2, <2>3
    <2>6. hi \in Nat /\ r.hi <= hi /\ r.lo <= hi /\ hi <= l.max /\ hi - r.lo + 1 >= l.min
      BY <2>4
    <2> HIDE DEF g, hi
    <2>7. g.lo = r.lo /\ g.hi = hi /\ g \in [lo : Nat, hi : Nat]
      BY <1>1, <2>5, <2>6
    <2>8. 1 <= r.lo
      BY DEF On
    <2>9. On(g, l) /\ Within(r, g)
      BY <1>1, <2>6, <2>7, <2>8 DEF On, Interval, Within
    <2>10. Stepped(g, l)
      BY <1>3, <2>5, <2>7 DEF Stepped
    <2>11. Size(g) >= l.min
      BY <2>6, <2>7 DEF Size
    <2> QED
      BY <2>9, <2>10, <2>11 DEF g
  <1>8. Size(r) \in Int /\ diff \in Int
    BY <1>1, <1>4 DEF Size
  <1> QED
    BY <1>1, <1>5, <1>6, <1>7, <1>8

LEMMA NoWrap == ASSUME NEW n \in Nat, NEW m \in Nat, n < m PROVE n % m = n
  BY SMT

LEMMA MirroredIsSymmetric ==
    ASSUME NEW r, NEW l, NEW sym \in BOOLEAN, Numbers(l), Regular(l), On(r, l), Stepped(r, l),
           Size(r) >= l.min, DWordMod \in Nat, 2 * l.max < DWordMod
    PROVE  LET m == Mirrored(r, l, sym) IN Valid(m, l, sym) /\ Within(r, m) /\ Interval(m)
  <1> DEFINE m == Mirrored(r, l, sym)
             diff0 == r.lo - 1
             diff1 == l.max - r.hi
  <1>1. /\ r.lo \in Nat /\ r.hi \in Nat /\ r = [lo |-> r.lo, hi |-> r.hi]
        /\ l.steps \in Nat \ {0} /\ l.min \in Nat /\ l.max \in Nat
        /\ 1 <= r.lo /\ r.lo <= r.hi /\ r.hi <= l.max
    BY DEF On, Interval, Numbers
  <1>2. diff0 \in Nat /\ diff1 \in Nat /\ diff0 <= l.max /\ diff1 <= l.max
    BY <1>1
  <1>3. /\ diff0 % l.steps = 0 /\ r.hi % l.steps = 0 /\ l.max % l.steps = 0
    BY DEF Stepped, Regular
  <1>4. Minus(l.max, r.hi) = diff1
    BY <1>1, <1>2, NoWrap DEF Minus
  <1>5. diff1 % l.steps = 0
    BY <1>1, <1>3, SumOfMultiples
  <1>6. CASE ~sym \/ diff0 = diff1
    <2>1. m = r
      BY <1>4, <1>6 DEF Mirrored
    <2> QED
      BY <1>1, <1>6, <2>1 DEF Valid, Within, Stepped, Interval
  <1>7. CASE sym /\ diff0 > diff1
    <2>1. r.lo - (diff0 - diff1) = diff1 + 1
      BY <1>1
    <2>2. Minus(r.lo, diff0 - diff1) = diff1 + 1
      <3>1. diff1 + 1 \in Nat /\ diff1 + 1 < DWordMod
        BY <1>1, <1>2
      <3>2. (diff1 + 1) % DWordMod = diff1 + 1
        BY <3>1, NoWrap
      <3> QED
        BY <2>1, <3>2 DEF Minus
    <2>3. m = [lo |-> diff1 + 1, hi |-> r.hi]
      BY <1>1, <1>2, <1>4, <1>7, <2>2 DEF Mirrored
    <2>4. (diff1 + 1) - 1 = diff1 /\ diff1 + 1 <= r.lo
      BY <1>1, <1>2, <1>7
    <2> QED
      BY <1>1, <1>2, <1>3, <1>5, <2>3, <2>4 DEF Valid, Within, Size, Interval
  <1>8. CASE sym /\ diff0 < diff1
    <2>1. r.hi + diff1 - diff0 = l.max - diff0 /\ r.hi + diff1 = l.max
      BY <1>1
    <2>2. Minus(r.hi + diff1, diff0) = l.max - diff0
      <3>1. l.max - diff0 \in Nat /\ l.max - diff0 < DWordMod
        BY <1>1, <1>2
      <3>2. (l.max - diff0) % DWordMod = l.max - diff0
        BY <3>1, NoWrap
      <3> QED
        BY <2>1, <3>2 DEF Minus
    <2>3. m = [lo |-> r.lo, hi |-> l.max - diff0]
      BY <1>1, <1>2, <1>4, <1>8, <2>2 DEF Mirrored
    <2>4. (l.max - diff0) % l.steps = 0
      BY <1>1, <1>2, <1>3, SumOfMultiples
    <2>5. r.hi <= l.max - diff0 /\ l.max - (l.max - diff0) = diff0
      BY <1>1, <1>2, <1>8
    <2> QED
      BY <1>1, <1>2, <1>3, <2>3, <2>4, <2>5 DEF Valid, Within, Size, Interval
  <1> QED
    BY <1>2, <1>6, <1>7, <1>8

(* The four stages together.                                                *)
LEMMA FixedIsCorrect ==
    ASSUME NEW r, NEW l, NEW sym \in BOOLEAN, Numbers(l), Regular(l), On(r, l),
           DWordMod \in Nat, 2 * l.max < DWordMod
    PROVE  LET f == FixValidRoi(r, l, sym) IN Valid(f, l, sym) /\ Within(r, f)
  <1> DEFINE a == AlignedToSteps(r, l)
             g == Grown(a, l)
             f == Mirrored(g, l, sym)
  <1>1. On(a, l) /\ Stepped(a, l) /\ Within(r, a)
    BY AlignedIsStepped
  <1>2. On(g, l) /\ Stepped(g, l) /\ Within(a, g) /\ Size(g) >= l.min
    BY <1>1, GrownIsLarge
  <1>3. Valid(f, l, sym) /\ Within(g, f) /\ Interval(f)
    BY <1>2, MirroredIsSymmetric
  <1>4. FixValidRoi(r, l, sym) = f
    BY RangedIsSame DEF FixValidRoi
  <1> HIDE DEF a, g, f
  <1>5. /\ r.lo \in Nat /\ r.hi \in Nat /\ a.lo \in Nat /\ a.hi \in Nat
        /\ g.lo \in Nat /\ g.hi \in Nat /\ f.lo \in Nat /\ f.hi \in Nat
    BY <1>1, <1>2, <1>3 DEF On, Interval
  <1> QED
    BY <1>1, <1>2, <1>3, <1>4, <1>5 DEF Within

----------------------------------------------------------------------------
(* The state: binnings and answers.                                         *)

LEMMA HasMaximum ==
    ASSUME NEW n \in Nat, NEW S \in SUBSET (0 .. n), S # {}
    PROVE  Max(S) \in S
  <1> DEFINE T == {n - x : x \in S}
             R == OpToRel(<, Nat)
  <1>1. T \subseteq Nat /\ T # {}
    <2>1. \A x \in S : n - x \in Nat
      <3> TAKE x \in S
      <3>1. x \in 0 .. n
        OBVIOUS
      <3> QED
        BY <3>1
    <2> QED
      BY <2>1
  <1>2. PICK t \in T : \A u \in T : ~ (<<u, t>> \in R)
    BY <1>1, NatLessThanWellFounded, WFMin
  <1>3. PICK m \in S : t = n - m
    OBVIOUS
  <1>4. \A x \in S : m >= x
    <2> TAKE x \in S
    <2>1. n - x \in T /\ n - x \in Nat /\ t \in Nat
      BY <1>1
    <2>2. ~ (<<n - x, t>> \in R)
      BY <1>2, <2>1
    <2>3. ~ (n - x < t)
      BY <2>1, <2>2 DEF OpToRel
    <2> QED
      BY <1>3, <2>3
  <1> QED
    BY <1>4 DEF Max

LEMMA FitIsABinning ==
    ASSUME NEW d \in Descs, NEW b \in Int PROVE BinningFit(d, b) \in HwBins(d)
  <1>1. d.binMax \in Nat /\ 1 <= d.binMax
    BY DescsAssumption
  <1>2. Binnings(d) \subseteq 1 .. d.binMax /\ 1 \in Binnings(d)
    BY <1>1 DEF Binnings
  <1>3. CASE b < 1
    BY <1>2, <1>3 DEF BinningFit, HwBins
  <1>4. CASE b >= d.binMax
    BY <1>1, <1>4 DEF BinningFit, HwBins
  <1>5. CASE b >= 1 /\ b < d.binMax
    <2> DEFINE S == {c \in Binnings(d) : c <= b}
    <2>1. S \in SUBSET (0 .. d.binMax) /\ S # {}
      BY <1>1, <1>2, <1>5
    <2>2. Max(S) \in S
      BY <1>1, <2>1, HasMaximum
    <2>3. BinningFit(d, b) = Max(S)
      BY <1>1, <1>5 DEF BinningFit
    <2> QED
      BY <2>2, <2>3 DEF HwBins
  <1> QED
    BY <1>1, <1>3, <1>4, <1>5

(* What holds of the state: the binning is one the camera has, and LIMA's   *)
(* answer is checkRoi's, in the present binning.                            *)
AnswerInv ==
    /\ desc \in Descs /\ bin \in HwBins(desc)
    /\ checked # NotChecked =>
          /\ checked.req \in Requests(desc, bin) /\ checked.sym \in BOOLEAN
          /\ checked.fixed = FixValidRoi(checked.req, Limits, checked.sym)

LEMMA AnswerInvHolds == Spec => []AnswerInv
  <1>1. Init => AnswerInv
    BY DescsAssumption DEF Init, AnswerInv, HwBins, Binnings
  <1>2. AnswerInv /\ [Next]_vars => AnswerInv'
    <2> SUFFICES ASSUME AnswerInv, [Next]_vars PROVE AnswerInv'
      OBVIOUS
    <2> USE DEF AnswerInv, camera, Limits
    <2>1. CASE SetBin
      <3>1. PICK b \in BinRequests : bin' \in {bin, BinningFit(desc, b)}
        BY <2>1 DEF SetBin
      <3>2. bin' \in HwBins(desc)
        BY <3>1, FitIsABinning, BinAssumption
      <3> QED
        BY <2>1, <3>2 DEF SetBin
    <2>2. CASE SetAdc
      BY <2>2 DEF SetAdc
    <2>3. CASE CheckRoi
      <3>1. PICK r \in Requests(desc, bin) :
                checked' = [req |-> r, fixed |-> CheckValidRoi(r), sym |-> Symmetric]
        BY <2>3 DEF CheckRoi
      <3>2. checked'.req = r /\ checked'.sym = Symmetric /\ checked'.fixed = CheckValidRoi(r)
        BY <3>1
      <3>3. Symmetric \in BOOLEAN
        BY DEF Symmetric
      <3> QED
        BY <2>3, <3>2, <3>3 DEF CheckRoi, CheckValidRoi
    <2>4. CASE SetRoi
      BY <2>4 DEF SetRoi
    <2>5. CASE SetMaxRoi
      BY <2>5 DEF SetMaxRoi
    <2>6. CASE UNCHANGED vars
      BY <2>6 DEF vars
    <2> QED
      BY <2>1, <2>2, <2>3, <2>4, <2>5, <2>6 DEF Next
  <1> QED
    BY <1>1, <1>2, PTL DEF Spec

(* The limits of a regular camera, in every binning.                        *)
LEMMA LimitsOfRegular ==
    ASSUME NEW d \in Descs, NEW b \in HwBins(d), d.steps > 0
    PROVE  Numbers(Binned(d, b)) /\ 2 * Binned(d, b).max < DWordMod
  <1> DEFINE q == d.max \div b
  <1>1. d.max \in Nat \ {0} /\ d.steps \in Nat /\ d.min \in Nat /\ b \in 1 .. d.max
    BY DescsAssumption DEF HwBins, Binnings
  <1>2. b \in Nat /\ b > 0
    BY <1>1
  <1>3. d.max = b * q + (d.max % b) /\ d.max % b \in 0 .. b - 1 /\ q \in Nat
    BY <1>1, <1>2, Division
  <1>4. d.steps \div b \in Nat /\ d.min \div b \in Nat
    BY <1>1, <1>2, Division
  <1>5. q > 0 /\ q <= d.max
    <2> DEFINE t == d.max % b
    <2>1. d.max = b * q + t /\ t \in 0 .. b - 1
      BY <1>3
    <2> HIDE DEF q, t
    <2>2. CASE q = 0
      BY <1>1, <1>2, <2>1, <2>2
    <2>3. CASE q > 0
      <3>1. PICK c \in Nat : b = c + 1
        BY <1>2
      <3>2. b * q = c * q + q /\ c * q >= 0
        BY <1>3, <3>1
      <3> QED
        BY <1>1, <1>3, <2>1, <2>3, <3>2
    <2> QED
      BY <1>3, <2>2, <2>3
  <1>6. 2 * d.max < DWordMod /\ DWordMod \in Nat
    BY WordAssumption
  <1>7. /\ Binned(d, b).max = q /\ Binned(d, b).steps = AtLeast1(d.steps \div b)
        /\ Binned(d, b).min = AtLeast1(d.min \div b)
    BY <1>1 DEF Binned
  <1> HIDE DEF q
  <1>8. 2 * q < DWordMod
    BY <1>1, <1>3, <1>5, <1>6
  <1>9. AtLeast1(d.steps \div b) \in Nat \ {0} /\ AtLeast1(d.min \div b) \in Nat \ {0}
    BY <1>4 DEF AtLeast1
  <1> QED
    BY <1>3, <1>5, <1>7, <1>8, <1>9 DEF Numbers

LEMMA AnswersHaveLimits ==
    ASSUME AnswerInv, Answered
    PROVE  /\ Regular(Limits) /\ Numbers(Limits) /\ 2 * Limits.max < DWordMod /\ DWordMod \in Nat
           /\ On(checked.req, Limits) /\ checked.sym \in BOOLEAN
           /\ checked.fixed = FixValidRoi(checked.req, Limits, checked.sym)
           /\ \A r \in Requests(desc, bin) : Interval(r)
  <1> DEFINE q == desc.max \div bin
  <1>1. /\ desc \in Descs /\ bin \in HwBins(desc) /\ desc.steps > 0 /\ Regular(Limits)
        /\ checked.req \in Requests(desc, bin) /\ checked.sym \in BOOLEAN
        /\ checked.fixed = FixValidRoi(checked.req, Limits, checked.sym)
    BY DEF AnswerInv, Answered, RegularCamera, Limits
  <1>2. Numbers(Limits) /\ 2 * Limits.max < DWordMod /\ DWordMod \in Nat
    BY <1>1, LimitsOfRegular, WordAssumption DEF Limits
  <1>3. Limits.max = q /\ q \in Nat
    BY <1>2 DEF Limits, Binned, Numbers
  <1>4. \A r \in Requests(desc, bin) : r \in [lo : 1 .. q, hi : 1 .. q] /\ r.lo <= r.hi
    BY DEF Requests
  <1> HIDE DEF q
  <1>5. \A r \in Requests(desc, bin) : r \in [lo : Nat, hi : Nat] /\ 1 <= r.lo /\ r.hi <= q
    BY <1>3, <1>4
  <1>6. \A r \in Requests(desc, bin) : On(r, Limits)
    BY <1>3, <1>4, <1>5 DEF On, Interval
  <1> QED
    BY <1>1, <1>2, <1>6 DEF On

LEMMA AnswersAreCorrect ==
    ASSUME AnswerInv, Answered
    PROVE  Valid(checked.fixed, Limits, checked.sym) /\ Within(checked.req, checked.fixed)
  BY AnswersHaveLimits, FixedIsCorrect

(* checkRoi answers with a ROI the camera takes (_fixValidRoi), whatever    *)
(* the regular description, the binning and the number of ADCs.             *)
THEOREM AnswersAreValid == Spec => []FixedIsValid
  <1>1. AnswerInv => FixedIsValid
    BY AnswersAreCorrect DEF FixedIsValid
  <1> QED
    BY <1>1, AnswerInvHolds, PTL

(* checkRoi never leaves out a pixel that was asked for (_fixValidRoi only  *)
(* ever moves an end outwards).                                             *)
THEOREM AnswersCover == Spec => []FixedCovers
  <1>1. AnswerInv => FixedCovers
    BY AnswersAreCorrect DEF FixedCovers, Within
  <1> QED
    BY <1>1, AnswerInvHolds, PTL

----------------------------------------------------------------------------
(* The answer is the smallest: the aligned request lies in every valid ROI  *)
(* around the request, growing ends exactly at the minimum size, and        *)
(* mirroring moves one end only.                                            *)

LEMMA MultipleBelow ==
    ASSUME NEW n \in Nat, NEW m \in Nat, NEW s \in Nat \ {0}, m <= n, m % s = 0
    PROVE  m <= n - (n % s)
  <1>1. PICK i \in Nat, t \in Nat : n % s = t /\ t < s /\ n = i * s + t
    BY Quotient
  <1>2. PICK j \in Nat : m = j * s
    BY WholeQuotient
  <1>3. j <= i
    <2> SUFFICES ASSUME i < j PROVE FALSE
      OBVIOUS
    <2>1. PICK e \in Nat : j = i + 1 + e
      OBVIOUS
    <2>2. j * s = i * s + s + e * s /\ e * s >= 0
      BY <2>1
    <2> QED
      BY <1>1, <1>2, <2>2
  <1>4. PICK e \in Nat : i = j + e
    BY <1>3
  <1>5. i * s = j * s + e * s /\ e * s >= 0
    BY <1>4
  <1> QED
    BY <1>1, <1>2, <1>5

LEMMA AlignedIsLeast ==
    ASSUME NEW r, NEW q, NEW l, Numbers(l), On(r, l), On(q, l), Stepped(q, l), Within(r, q)
    PROVE  Within(AlignedToSteps(r, l), q)
  <1> DEFINE s == l.steps
             down == (r.lo - 1) % s
             up == r.hi + s - (r.hi % s)
  <1>1. /\ r.lo \in Nat /\ r.lo - 1 \in Nat /\ r.hi \in Nat /\ q.lo \in Nat /\ q.lo - 1 \in Nat
        /\ q.hi \in Nat /\ q.lo <= r.lo /\ r.hi <= q.hi /\ s \in Nat \ {0}
    BY DEF On, Interval, Numbers, Within
  <1>2. (q.lo - 1) % s = 0 /\ q.hi % s = 0
    BY DEF Stepped
  <1>3. q.lo - 1 <= (r.lo - 1) - down
    BY <1>1, <1>2, MultipleBelow
  <1>4. r.hi % s # 0 => up <= q.hi
    BY <1>1, <1>2, NextMultiple
  <1>5. down \in 0 .. s - 1
    BY <1>1, PreviousMultiple, Zenon
  <1>6. AlignedToSteps(r, l) = [lo |-> r.lo - down, hi |-> IF r.hi % s = 0 THEN r.hi ELSE up]
    BY DEF AlignedToSteps
  <1> HIDE DEF down, up, s
  <1>7. down \in Nat /\ q.lo <= r.lo - down
    BY <1>1, <1>3, <1>5
  <1> QED
    BY <1>1, <1>4, <1>6, <1>7 DEF Within

LEMMA GrownToMinimum ==
    ASSUME NEW r, NEW l, Numbers(l), Interval(r), Size(r) < l.min
    PROVE  Size(Grown(r, l)) = l.min
  BY DEF Numbers, Interval, Grown, Size

LEMMA MirroredMovesOneEnd ==
    ASSUME NEW r, NEW l, NEW sym \in BOOLEAN, Interval(r)
    PROVE  LET m == Mirrored(r, l, sym)
           IN  (m.lo = r.lo \/ m.hi = r.hi) /\ (~sym => m = r)
  BY DEF Mirrored, Interval

LEMMA FixedIsLeast ==
    ASSUME NEW r, NEW l, NEW sym \in BOOLEAN, Numbers(l), Regular(l), On(r, l),
           DWordMod \in Nat, 2 * l.max < DWordMod,
           sym => Size(AlignedToSteps(r, l)) >= l.min,
           NEW q, Interval(q), Valid(q, l, sym), Within(r, q)
    PROVE  Size(FixValidRoi(r, l, sym)) <= Size(q)
  <1> DEFINE a == AlignedToSteps(r, l)
             g == Grown(a, l)
             f == Mirrored(g, l, sym)
  <1>1. On(a, l) /\ Stepped(a, l)
    BY AlignedIsStepped
  <1>2. On(g, l) /\ Stepped(g, l) /\ Size(g) >= l.min
    BY <1>1, GrownIsLarge
  <1>3. Valid(f, l, sym) /\ Interval(f)
    BY <1>2, MirroredIsSymmetric
  <1>4. (f.lo = g.lo \/ f.hi = g.hi) /\ (~sym => f = g)
    BY <1>2, MirroredMovesOneEnd DEF On
  <1>5. FixValidRoi(r, l, sym) = f
    BY RangedIsSame DEF FixValidRoi
  <1>6. On(q, l) /\ Stepped(q, l)
    BY DEF Valid, On, Stepped
  <1>7. Within(a, q)
    BY <1>6, AlignedIsLeast
  <1>8. Size(a) < l.min => Size(g) = l.min
    BY <1>1, GrownToMinimum DEF On
  <1>9. Size(a) >= l.min => g = a
    BY DEF Grown
  <1>10. sym => Size(a) >= l.min
    OBVIOUS
  <1> HIDE DEF a, g, f
  <1>11. /\ a.lo \in Nat /\ a.hi \in Nat /\ q.lo \in Nat /\ q.hi \in Nat
         /\ f.lo \in Nat /\ f.hi \in Nat /\ l.min \in Nat /\ l.max \in Nat
    BY <1>1, <1>3 DEF On, Interval, Numbers
  <1>12. CASE ~sym
    BY <1>4, <1>5, <1>7, <1>8, <1>9, <1>11, <1>12 DEF Within, Valid, Size
  <1>13. CASE sym
    <2>1. f.lo - 1 = l.max - f.hi /\ q.lo - 1 = l.max - q.hi
      BY <1>3, <1>13 DEF Valid
    <2>2. f.lo = a.lo \/ f.hi = a.hi
      BY <1>4, <1>9, <1>10, <1>13
    <2>3. q.lo <= f.lo /\ f.hi <= q.hi
      BY <1>7, <1>11, <2>1, <2>2 DEF Within
    <2> QED
      BY <1>5, <1>11, <2>3 DEF Size
  <1> QED
    BY <1>12, <1>13

(* Of the ROIs the camera takes, checkRoi answers with the smallest around  *)
(* the request, unless a symmetrical one had to grow first (_fixValidRoi).  *)
THEOREM AnswersAreSmallest == Spec => []FixedIsSmallest
  <1>1. AnswerInv => FixedIsSmallest
    <2> SUFFICES ASSUME AnswerInv, Answered,
                        checked.sym => Size(AlignedToSteps(checked.req, Limits)) >= Limits.min,
                        NEW r \in Requests(desc, bin), Valid(r, Limits, checked.sym),
                        r.lo <= checked.req.lo, checked.req.hi <= r.hi
                 PROVE  Size(checked.fixed) <= Size(r)
      BY DEF FixedIsSmallest
    <2>1. /\ Regular(Limits) /\ Numbers(Limits) /\ 2 * Limits.max < DWordMod /\ DWordMod \in Nat
          /\ On(checked.req, Limits) /\ checked.sym \in BOOLEAN
          /\ checked.fixed = FixValidRoi(checked.req, Limits, checked.sym)
          /\ \A q \in Requests(desc, bin) : Interval(q)
      BY AnswersHaveLimits
    <2> QED
      BY <2>1, FixedIsLeast DEF Within
  <1> QED
    BY <1>1, AnswerInvHolds, PTL

----------------------------------------------------------------------------
(* What setRoi makes of an answer.  The ADCs may have changed in between.    *)
AnswerTaken ==
    SetRoi /\ Answered =>
        /\ Valid(roi', Limits, Symmetric) /\ Within(checked.req, roi')
        /\ (Symmetric => checked.sym) => roi' = checked.fixed

(* A ROI the camera takes is not corrected any more.                         *)
LEMMA ValidIsFixed ==
    ASSUME NEW r, NEW l, NEW sym \in BOOLEAN, NEW was \in BOOLEAN, sym => was,
           Numbers(l), On(r, l), Valid(r, l, was), DWordMod \in Nat, 2 * l.max < DWordMod
    PROVE  FixValidRoi(r, l, sym) = r
  <1>1. /\ r.lo \in Nat \ {0} /\ r.hi \in Nat /\ l.max \in Nat /\ r.hi <= l.max /\ l.min \in Nat
        /\ r = [lo |-> r.lo, hi |-> r.hi]
    BY DEF On, Interval, Numbers
  <1>2. Ordered(InRange(r, l)) = r
    BY RangedIsSame
  <1>3. AlignedToSteps(r, l) = r
    BY <1>1 DEF Valid, AlignedToSteps
  <1>4. Grown(r, l) = r
    BY DEF Valid, Grown
  <1>5. Mirrored(r, l, sym) = r
    <2>1. CASE ~sym
      BY <2>1 DEF Mirrored
    <2>2. CASE sym
      <3>1. r.lo - 1 = l.max - r.hi
        BY <2>2 DEF Valid
      <3>2. l.max - r.hi \in Nat /\ l.max - r.hi < DWordMod
        BY <1>1
      <3>3. Minus(l.max, r.hi) = l.max - r.hi
        BY <3>2, NoWrap DEF Minus
      <3> QED
        BY <3>1, <3>3 DEF Mirrored
    <2> QED
      BY <2>1, <2>2
  <1> QED
    BY <1>2, <1>3, <1>4, <1>5 DEF FixValidRoi

(* The answer is a ROI of whole pixels.                                      *)
LEMMA FixedIsInterval ==
    ASSUME NEW r, NEW l, NEW sym \in BOOLEAN, Numbers(l), Regular(l), On(r, l),
           DWordMod \in Nat, 2 * l.max < DWordMod
    PROVE  On(FixValidRoi(r, l, sym), l)
  <1> DEFINE a == AlignedToSteps(r, l)
             g == Grown(a, l)
             f == Mirrored(g, l, sym)
  <1>1. On(a, l) /\ Stepped(a, l)
    BY AlignedIsStepped
  <1>2. On(g, l) /\ Stepped(g, l) /\ Size(g) >= l.min
    BY <1>1, GrownIsLarge
  <1>3. Valid(f, l, sym) /\ Interval(f)
    BY <1>2, MirroredIsSymmetric
  <1>4. FixValidRoi(r, l, sym) = f
    BY RangedIsSame DEF FixValidRoi
  <1> HIDE DEF a, g, f
  <1> QED
    BY <1>3, <1>4 DEF Valid, On

(* The ROI set covers the request and is one the camera takes, also when the *)
(* number of ADCs was changed since checkRoi; it is the very answer of       *)
(* checkRoi unless the camera needs symmetry since then (RoiCtrlObj::setRoi  *)
(* corrects the answer a second time).                                       *)
THEOREM AnswerIsTaken == Spec => [][AnswerTaken]_vars
  <1>1. AnswerInv => AnswerTaken
    <2> SUFFICES ASSUME AnswerInv, SetRoi, Answered
                 PROVE  /\ Valid(roi', Limits, Symmetric) /\ Within(checked.req, roi')
                        /\ (Symmetric => checked.sym) => roi' = checked.fixed
      BY DEF AnswerTaken
    <2> DEFINE l == Limits
               f == checked.fixed
               again == FixValidRoi(f, l, Symmetric)
    <2>1. /\ Regular(l) /\ Numbers(l) /\ 2 * l.max < DWordMod /\ DWordMod \in Nat
          /\ On(checked.req, l) /\ checked.sym \in BOOLEAN /\ Symmetric \in BOOLEAN
          /\ f = FixValidRoi(checked.req, l, checked.sym)
      BY AnswersHaveLimits DEF Symmetric
    <2>2. On(f, l) /\ Valid(f, l, checked.sym) /\ Within(checked.req, f)
      BY <2>1, FixedIsCorrect, FixedIsInterval
    <2>3. On(again, l) /\ Valid(again, l, Symmetric) /\ Within(f, again)
      BY <2>1, <2>2, FixedIsCorrect, FixedIsInterval
    <2>4. roi' = again
      BY <2>3 DEF SetRoi, CheckValidRoi, Limits
    <2>5. (Symmetric => checked.sym) => again = f
      BY <2>1, <2>2, ValidIsFixed
    <2> HIDE DEF again, f, l
    <2>6. Within(checked.req, again)
      BY <2>1, <2>2, <2>3 DEF Within, On, Interval
    <2> QED
      BY <2>3, <2>4, <2>5, <2>6 DEF l, f
  <1> QED
    BY <1>1, AnswerInvHolds, PTL

----------------------------------------------------------------------------
(* Whatever the description, the fixing deals in numbers.                   *)

Ends(r) == r \in [lo : Int, hi : Int]

LEMMA Remainder == ASSUME NEW n \in Int, NEW s \in Nat \ {0} PROVE n % s \in Int
  BY SMT

LEMMA SettingsAreNumbers ==
    ASSUME NEW d \in Descs, NEW b \in HwBins(d)
    PROVE  /\ d.max \div b \in Nat /\ Binned(d, b).max = d.max \div b
           /\ Binned(d, b).steps \in Nat \ {0} /\ Binned(d, b).min \in Nat
  <1>1. d.max \in Nat \ {0} /\ d.steps \in Nat /\ d.min \in Nat /\ b \in Nat /\ b > 0
    BY DescsAssumption DEF HwBins, Binnings
  <1>2. d.max \div b \in Nat /\ d.steps \div b \in Nat /\ d.min \div b \in Nat
    BY <1>1, Division
  <1> QED
    BY <1>1, <1>2 DEF Binned, AtLeast1

LEMMA MinusIsNumber ==
    ASSUME DWordMod \in Nat \ {0}, NEW m \in Int, NEW n \in Int PROVE Minus(m, n) \in Int
  <1>1. m - n \in Int
    OBVIOUS
  <1> QED
    BY <1>1, Remainder DEF Minus

LEMMA FixedHasEnds ==
    ASSUME NEW r, Ends(r), NEW l, l.max \in Nat, l.steps \in Nat \ {0}, l.min \in Nat,
           DWordMod \in Nat \ {0}, NEW sym \in BOOLEAN
    PROVE  Ends(FixValidRoi(r, l, sym))
  <1> DEFINE ranged == Ordered(InRange(r, l))
             aligned == AlignedToSteps(ranged, l)
             grown == Grown(aligned, l)
  <1>1. Ends(ranged)
    BY DEF Ends, Ordered, InRange, AtLeast1, Less
  <1>2. Ends(aligned)
    <2> HIDE DEF ranged
    <2>1. (ranged.lo - 1) % l.steps \in Int /\ ranged.hi % l.steps \in Int
      BY <1>1, Remainder DEF Ends
    <2> QED
      BY <1>1, <2>1 DEF Ends, AlignedToSteps
  <1>3. Ends(grown)
    <2> HIDE DEF aligned
    <2> QED
      BY <1>2 DEF Ends, Grown, Size
  <1>4. Ends(Mirrored(grown, l, sym))
    <2> HIDE DEF grown
    <2>1. grown.lo \in Int /\ grown.hi \in Int /\ l.max \in Int
      BY <1>3 DEF Ends
    <2>2. Minus(l.max, grown.hi) \in Int
      BY <2>1, MinusIsNumber
    <2>3. /\ Minus(grown.lo, grown.lo - 1 - Minus(l.max, grown.hi)) \in Int
          /\ Minus(grown.hi + Minus(l.max, grown.hi), grown.lo - 1) \in Int
      <3> DEFINE diff == Minus(l.max, grown.hi)
      <3> HIDE DEF diff
      <3>1. diff \in Int
        BY <2>2 DEF diff
      <3>2. grown.lo - 1 - diff \in Int /\ grown.hi + diff \in Int /\ grown.lo - 1 \in Int
        BY <2>1, <3>1
      <3>3. Minus(grown.lo, grown.lo - 1 - diff) \in Int /\ Minus(grown.hi + diff, grown.lo - 1) \in Int
        BY <2>1, <3>2, MinusIsNumber
      <3> QED
        BY <3>3 DEF diff
    <2> QED
      BY <1>3, <2>1, <2>2, <2>3 DEF Ends, Mirrored
  <1> QED
    BY <1>4 DEF FixValidRoi

(* Every setting of the ROI and the binning stays in its domain, whatever   *)
(* the description (RoiCtrlObj::setRoi, BinCtrlObj::setBin).                *)
THEOREM TypeCorrect == Spec => []TypeOK
  <1>1. Init => TypeOK
    BY DescsAssumption DEF Init, TypeOK, HwBins, Binnings, NotChecked
  <1>2. AnswerInv /\ TypeOK /\ [Next]_vars => TypeOK'
    <2> SUFFICES ASSUME AnswerInv, TypeOK, [Next]_vars PROVE TypeOK'
      OBVIOUS
    <2>1. CASE SetBin
      <3>1. PICK b \in BinRequests : bin' \in {bin, BinningFit(desc, b)}
        BY <2>1 DEF SetBin
      <3>2. bin' \in HwBins(desc)
        BY <3>1, FitIsABinning, BinAssumption DEF AnswerInv
      <3> QED
        BY <2>1, <3>2 DEF SetBin, TypeOK, NotChecked, camera
    <2>2. CASE SetAdc
      BY <2>2 DEF SetAdc, TypeOK, camera
    <2>3. CASE CheckRoi
      <3>1. PICK r \in Requests(desc, bin) :
                checked' = [req |-> r, fixed |-> CheckValidRoi(r), sym |-> Symmetric]
        BY <2>3 DEF CheckRoi
      <3>2. checked'.sym \in BOOLEAN
        BY <3>1 DEF Symmetric
      <3> QED
        BY <2>3, <3>2 DEF CheckRoi, TypeOK, camera
    <2>4. CASE SetRoi
      <3> DEFINE again == CheckValidRoi(checked.fixed)
      <3>1. /\ desc \in Descs /\ bin \in HwBins(desc) /\ checked.req \in Requests(desc, bin)
            /\ checked.fixed = FixValidRoi(checked.req, Limits, checked.sym)
            /\ checked.sym \in BOOLEAN
        BY <2>4 DEF SetRoi, AnswerInv
      <3>2. /\ Limits.max \in Nat /\ Limits.steps \in Nat \ {0} /\ Limits.min \in Nat
            /\ desc.max \div bin \in Nat /\ DWordMod \in Nat \ {0}
        BY <3>1, SettingsAreNumbers, WordAssumption, DescsAssumption DEF Limits
      <3>3. Ends(checked.req)
        BY <3>1, <3>2 DEF Requests, Ends
      <3>4. Ends(checked.fixed)
        BY <3>1, <3>2, <3>3, FixedHasEnds
      <3>5. Ends(again)
        <4>1. Symmetric \in BOOLEAN
          BY DEF Symmetric
        <4> QED
          BY <3>2, <3>4, <4>1, FixedHasEnds DEF CheckValidRoi, Limits
      <3> HIDE DEF again
      <3>6. roi' = (IF Valid(again, Limits, Symmetric) THEN again ELSE roi)
        BY <2>4 DEF SetRoi, again, Limits
      <3>7. Valid(again, Limits, Symmetric) =>
                DOMAIN again = {"lo", "hi"} /\ again.lo \in Nat /\ again.hi \in Nat
        BY <3>5 DEF Valid, Ends
      <3>8. DOMAIN roi' = {"lo", "hi"} /\ roi'.lo \in Nat /\ roi'.hi \in Nat
        BY <3>6, <3>7 DEF TypeOK
      <3> QED
        BY <2>4, <3>8 DEF SetRoi, TypeOK, NotChecked, camera
    <2>5. CASE SetMaxRoi
      <3>1. desc.max \div bin \in Nat
        BY SettingsAreNumbers DEF AnswerInv
      <3> QED
        BY <2>5, <3>1 DEF SetMaxRoi, TypeOK, NotChecked, camera
    <2>6. CASE UNCHANGED vars
      BY <2>6 DEF vars, TypeOK, camera
    <2> QED
      BY <2>1, <2>2, <2>3, <2>4, <2>5, <2>6 DEF Next
  <1> QED
    BY <1>1, <1>2, AnswerInvHolds, PTL DEF Spec
=============================================================================
