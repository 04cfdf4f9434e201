------------------------------ MODULE VisionProofs ------------------------------
(***************************************************************************)
(* Proofs about VisionInput for images of every size and all model         *)
(* configurations: the arithmetic of sizes, of resampling and of pooling.  *)
(***************************************************************************)
EXTENDS VisionInput, FiniteSetTheorems, TLAPS

\* ---- arithmetic -----------------------------------------------------------------

LEMMA TimesMonotone ==
  ASSUME NEW a \in Nat, NEW b \in Nat, NEW c \in Nat, NEW d \in Nat, a <= b, c <= d
  PROVE  a * c <= b * d /\ a * c \in Nat /\ b * d \in Nat
<1>1. a * c <= b * c
  OBVIOUS
<1>2. b * c <= b * d
  OBVIOUS
<1> QED
  BY <1>1, <1>2

LEMMA TimesCancels ==
  ASSUME NEW a \in Nat, NEW b \in Nat, NEW c \in Nat \ {0}, a * c <= b * c
  PROVE  a <= b
  OBVIOUS

LEMMA SquareCancels ==
  ASSUME NEW a \in Nat, NEW b \in Nat, a * a <= b * b
  PROVE  a <= b
  OBVIOUS

LEMMA Regrouped ==
  ASSUME NEW x \in Nat, NEW y \in Nat, NEW w \in Nat, NEW h \in Nat
  PROVE  (x * x * h) * (y * y * w) = ((x * y) * (x * y)) * (w * h)
  OBVIOUS

LEMMA DivMod ==
  ASSUME NEW q \in Nat, NEW b \in Nat \ {0}, NEW r \in 0 .. b - 1
  PROVE  (q * b + r) \div b = q /\ (q * b + r) % b = r
  OBVIOUS

LEMMA ExactDiv ==
  ASSUME NEW q \in Nat, NEW b \in Nat \ {0}
  PROVE  (q * b) \div b = q /\ (q * b) % b = 0
  OBVIOUS

LEMMA Quotient ==
  ASSUME NEW a \in Nat, NEW b \in Nat \ {0}
  PROVE  /\ a = (a \div b) * b + (a % b)
         /\ a \div b \in Nat /\ a % b \in 0 .. b - 1
  OBVIOUS

\* The sides x and y that an area p leaves an image of w by h.
LEMMA SidesBelow ==
  ASSUME NEW x \in Nat, NEW y \in Nat, NEW w \in Nat \ {0}, NEW h \in Nat \ {0},
         NEW p \in Nat, x * x * h <= w * p, y * y * w <= h * p
  PROVE  x * y <= p
<1>1. (x * x * h) * (y * y * w) <= (w * p) * (h * p)
  BY TimesMonotone
<1>2. (x * x * h) * (y * y * w) = ((x * y) * (x * y)) * (w * h)
  BY Regrouped
<1>3. (w * p) * (h * p) = (p * p) * (w * h)
  OBVIOUS
<1>4. w * h \in Nat \ {0} /\ x * y \in Nat /\ (x * y) * (x * y) \in Nat /\ p * p \in Nat
  OBVIOUS
<1>5. (x * y) * (x * y) <= p * p
  BY <1>1, <1>2, <1>3, <1>4, TimesCancels
<1> QED
  BY <1>4, <1>5, SquareCancels

LEMMA SidesAbove ==
  ASSUME NEW x \in Nat, NEW y \in Nat, NEW w \in Nat \ {0}, NEW h \in Nat \ {0},
         NEW p \in Nat, w * p <= x * x * h, h * p <= y * y * w
  PROVE  p <= x * y
<1>1. (w * p) * (h * p) <= (x * x * h) * (y * y * w)
  BY TimesMonotone
<1>2. (x * x * h) * (y * y * w) = ((x * y) * (x * y)) * (w * h)
  BY Regrouped
<1>3. (w * p) * (h * p) = (p * p) * (w * h)
  OBVIOUS
<1>4. w * h \in Nat \ {0} /\ x * y \in Nat /\ (x * y) * (x * y) \in Nat /\ p * p \in Nat
  OBVIOUS
<1>5. p * p <= (x * y) * (x * y)
  BY <1>1, <1>2, <1>3, <1>4, TimesCancels
<1> QED
  BY <1>4, <1>5, SquareCancels

\* Every inhabited set of numbers has a least one.
LEMMA LeastNumber ==
  ASSUME NEW T \in SUBSET Nat, T # {}
  PROVE  \E m \in T : \A n \in T : m <= n
<1> DEFINE Below(n) == 1 .. n
           intervals == {Below(n) : n \in T}
<1>1. intervals \subseteq FiniteSubsetsOf(Nat) /\ intervals # {}
  <2>1. ASSUME NEW n \in T PROVE IsFiniteSet(Below(n)) /\ Below(n) \in SUBSET Nat
    BY FS_Interval
  <2> QED
    BY <2>1 DEF FiniteSubsetsOf
<1>2. PICK B \in intervals : \A C \in intervals : <<C, B>> \notin StrictSubsetOrdering(Nat)
  <2> HIDE DEF intervals
  <2> QED
    BY <1>1, FS_StrictSubsetOrderingWellFounded, WFMin
<1>3. PICK m \in T : B = Below(m)
  OBVIOUS
<1>4. ASSUME NEW n \in T, n < m PROVE FALSE
  <2>1. <<Below(n), Below(m)>> \in (SUBSET Nat) \X (SUBSET Nat)
    OBVIOUS
  <2>2. Below(n) \subseteq Below(m) /\ m \in Below(m) /\ m \notin Below(n)
    BY <1>4
  <2>3. <<Below(n), Below(m)>> \in StrictSubsetOrdering(Nat)
    BY <2>1, <2>2 DEF StrictSubsetOrdering
  <2> QED
    BY <1>2, <1>3, <2>3
<1> QED
  BY <1>4

\* ---- constants ------------------------------------------------------------------

LEMMA Config ==
  /\ PatchSize \in Nat \ {0} /\ MergeSize \in Nat \ {0} /\ Align \in Nat \ {0}
  /\ MinPixels \in Nat \ {0} /\ MaxPixels \in Nat \ {0} /\ TableSize \in Nat \ {0}
  /\ 4 * MinPixels <= MaxPixels /\ MaxPixels <= TableSize * PatchSize * Align
<1>1. PatchSize \in Nat \ {0} /\ MergeSize \in Nat \ {0}
      /\ MinPixels \in Nat \ {0} /\ MaxPixels \in Nat \ {0} /\ TableSize \in Nat \ {0}
      /\ 4 * MinPixels <= MaxPixels
  BY VisionAssumption
<1>2. Align \in Nat \ {0}
  BY <1>1 DEF Align
<1> QED
  BY <1>1, <1>2, TableAssumption

LEMMA Sides ==
  ASSUME NEW s \in Sizes
  PROVE  /\ s[1] \in Nat \ {0} /\ s[2] \in Nat \ {0}
         /\ s[Index["width"]] = s[1] /\ s[Index["height"]] = s[2]
         /\ Other(s, "width") = s[2] /\ Other(s, "height") = s[1]
         /\ \A d \in Directions : /\ s[Index[d]] \in Nat \ {0}
                                  /\ Other(s, d) \in Nat \ {0}
  BY DEF Sizes, Index, Other, Directions

\* ---- target_size ----------------------------------------------------------------

\* floor_factor and ceil_factor look for the whole number of units below a root.
LEMMA WholeFactorFound ==
  ASSUME NEW s \in Sizes, NEW d \in Directions, NEW pixels \in Nat \ {0}
  PROVE  /\ WholeFactor(s, d, pixels) \in Nat
         /\ SideBelow(WholeFactor(s, d, pixels), s, d, pixels)
         /\ ~SideBelow(WholeFactor(s, d, pixels) + 1, s, d, pixels)
<1> DEFINE a == Align
           o == Other(s, d)
           m == s[Index[d]] * pixels
           Fits(k) == k * a * k * a * o <= m
           T == {k \in Nat : ~Fits(k + 1)}
<1>1. a \in Nat \ {0} /\ o \in Nat \ {0} /\ m \in Nat \ {0}
  <2>1. s[Index[d]] \in Nat \ {0} /\ o \in Nat \ {0}
    BY Sides
  <2> QED
    BY <2>1, Config
<1>2. \A k : SideBelow(k, s, d, pixels) <=> Fits(k)
  BY DEF SideBelow
<1>3. WholeFactor(s, d, pixels) = CHOOSE k \in 0 .. m : Fits(k) /\ ~Fits(k + 1)
  BY DEF WholeFactor, SideBelow
<1> HIDE DEF a, o, m
<1>4. m \in T
  <2>1. (m + 1) * a * (m + 1) * a * o >= m + 1
    <3>1. 1 <= (m + 1) * a * a * o
      BY <1>1
    <3>2. (m + 1) * 1 <= (m + 1) * ((m + 1) * a * a * o)
      BY <1>1, <3>1, TimesMonotone
    <3> QED
      BY <1>1, <3>2
  <2> QED
    BY <1>1, <2>1
<1>5. PICK k \in T : \A n \in T : k <= n
  <2> HIDE DEF T
  <2>1. T \in SUBSET Nat
    BY DEF T
  <2> QED
    BY <1>4, <2>1, LeastNumber
<1>6. Fits(k)
  <2>1. CASE k = 0
    BY <1>1, <2>1
  <2>2. CASE k # 0
    <3>1. k - 1 \in Nat /\ k - 1 \notin T
      BY <1>5, <2>2
    <3> QED
      BY <3>1
  <2> QED
    BY <2>1, <2>2
<1>7. \E n \in 0 .. m : Fits(n) /\ ~Fits(n + 1)
  <2>1. k \in 0 .. m
    BY <1>1, <1>4, <1>5
  <2> QED
    BY <1>5, <1>6, <2>1
<1> QED
  <2> HIDE DEF Fits, T
  <2> DEFINE f == WholeFactor(s, d, pixels)
  <2>1. f \in 0 .. m /\ Fits(f) /\ ~Fits(f + 1)
    BY <1>3, <1>7
  <2>2. f \in Nat
    BY <1>1, <2>1
  <2> QED
    BY <1>2, <2>1, <2>2

LEMMA UnitsMonotone ==
  ASSUME NEW j \in Nat, NEW k \in Nat, NEW a \in Nat, NEW o \in Nat, j <= k
  PROVE  j * a * j * a * o <= k * a * k * a * o
<1>1. j * a <= k * a /\ j * a \in Nat /\ k * a \in Nat
  BY TimesMonotone
<1>2. (j * a) * (j * a) <= (k * a) * (k * a)
      /\ (j * a) * (j * a) \in Nat /\ (k * a) * (k * a) \in Nat
  BY <1>1, TimesMonotone
<1>3. ((j * a) * (j * a)) * o <= ((k * a) * (k * a)) * o
  BY <1>2, TimesMonotone
<1> QED
  BY <1>3

\* Twice the floor covers the side it was taken from, and the floor itself fits if one
\* unit does.
LEMMA FloorFacts ==
  ASSUME NEW s \in Sizes, NEW d \in Directions, NEW pixels \in Nat \ {0}
  PROVE  LET f == FloorFactor(s, d, pixels)
             o == Other(s, d)
             m == s[Index[d]] * pixels
         IN /\ f \in Nat \ {0}
            /\ m <= (2 * f) * Align * (2 * f) * Align * o
            /\ Align * Align * o <= m => f * Align * f * Align * o <= m
<1> DEFINE f == FloorFactor(s, d, pixels)
           o == Other(s, d)
           m == s[Index[d]] * pixels
           k == WholeFactor(s, d, pixels)
           exact == k * Align * k * Align * o = m
           less == exact /\ d \in drift
<1>1. Align \in Nat \ {0} /\ o \in Nat \ {0} /\ m \in Nat \ {0}
  <2>1. s[Index[d]] \in Nat \ {0} /\ o \in Nat \ {0}
    BY Sides
  <2> QED
    BY <2>1, Config
<1>2. k \in Nat /\ k * Align * k * Align * o <= m
      /\ ~((k + 1) * Align * (k + 1) * Align * o <= m)
  BY WholeFactorFound DEF SideBelow
<1>3. f = AtLeastOne(IF less THEN k - 1 ELSE k)
  BY DEF FloorFactor, SideExactly
<1> HIDE DEF f, o, m, k
<1>4. /\ f \in Nat \ {0} /\ f <= (IF k = 0 THEN 1 ELSE k)
      /\ less => k <= 2 * f
      /\ ~less => k + 1 <= 2 * f
  <2> HIDE DEF less
  <2> QED
    BY <1>2, <1>3 DEF AtLeastOne
<1>5. m <= (2 * f) * Align * (2 * f) * Align * o
  <2>1. CASE less
    <3>1. k * Align * k * Align * o <= (2 * f) * Align * (2 * f) * Align * o
      BY <1>1, <1>2, <1>4, <2>1, UnitsMonotone
    <3> QED
      BY <2>1, <3>1
  <2>2. CASE ~less
    <3>1. (k + 1) * Align * (k + 1) * Align * o <= (2 * f) * Align * (2 * f) * Align * o
      BY <1>1, <1>2, <1>4, <2>2, UnitsMonotone
    <3> QED
      BY <1>1, <1>2, <1>4, <3>1
  <2> QED
    BY <2>1, <2>2
<1>6. ASSUME Align * Align * o <= m PROVE f * Align * f * Align * o <= m
  <2>1. CASE k = 0
    <3>1. f = 1
      BY <1>4, <2>1
    <3> QED
      BY <1>1, <1>6, <3>1
  <2>2. CASE k # 0
    <3>1. f <= k
      BY <1>4, <2>2
    <3>2. f * Align * f * Align * o <= k * Align * k * Align * o
      BY <1>1, <1>2, <1>4, <3>1, UnitsMonotone
    <3> QED
      BY <1>1, <1>2, <1>4, <3>2
  <2> QED
    BY <2>1, <2>2
<1> QED
  BY <1>4, <1>5, <1>6 DEF f, o, m

\* The ceiling covers the side, and one unit less fits.
LEMMA CeilFacts ==
  ASSUME NEW s \in Sizes, NEW d \in Directions, NEW pixels \in Nat \ {0}
  PROVE  LET c == CeilFactor(s, d, pixels)
             o == Other(s, d)
             m == s[Index[d]] * pixels
         IN /\ c \in Nat \ {0}
            /\ m <= c * Align * c * Align * o
            /\ (c - 1) * Align * (c - 1) * Align * o <= m
<1> DEFINE c == CeilFactor(s, d, pixels)
           o == Other(s, d)
           m == s[Index[d]] * pixels
           k == WholeFactor(s, d, pixels)
           exact == k * Align * k * Align * o = m
           same == exact /\ d \notin drift
<1>1. Align \in Nat \ {0} /\ o \in Nat \ {0} /\ m \in Nat \ {0}
  <2>1. s[Index[d]] \in Nat \ {0} /\ o \in Nat \ {0}
    BY Sides
  <2> QED
    BY <2>1, Config
<1>2. k \in Nat /\ k * Align * k * Align * o <= m
      /\ ~((k + 1) * Align * (k + 1) * Align * o <= m)
  BY WholeFactorFound DEF SideBelow
<1>3. c = IF same THEN k ELSE k + 1
  BY DEF CeilFactor, SideExactly
<1> HIDE DEF c, o, m, k
<1>4. CASE same
  <2>1. c = k /\ k * Align * k * Align * o = m
    BY <1>3, <1>4
  <2>2. k # 0
    BY <1>1, <2>1
  <2>3. (k - 1) * Align * (k - 1) * Align * o <= k * Align * k * Align * o
    BY <1>1, <1>2, <2>2, UnitsMonotone
  <2> QED
    BY <1>1, <1>2, <2>1, <2>2, <2>3 DEF c, o, m
<1>5. CASE ~same
  <2>1. c = k + 1 /\ c - 1 = k
    BY <1>2, <1>3, <1>5
  <2>2. m <= (k + 1) * Align * (k + 1) * Align * o
    BY <1>1, <1>2
  <2> QED
    BY <1>2, <2>1, <2>2 DEF c, o, m
<1> QED
  BY <1>4, <1>5

\* The area that one direction leaves to the other, in the code's formulas.
LEMMA AreaBelow ==
  ASSUME NEW s \in Sizes, NEW p \in Nat, NEW u \in Nat, NEW v \in Nat,
         u * Align * u * Align * s[2] <= s[1] * p, v * Align * v * Align * s[1] <= s[2] * p
  PROVE  (u * Align) * (v * Align) <= p
<1>1. Align \in Nat /\ s[1] \in Nat \ {0} /\ s[2] \in Nat \ {0}
  BY Config, Sides
<1>2. u * Align \in Nat /\ v * Align \in Nat
  BY <1>1
<1>3. (u * Align) * (u * Align) * s[2] <= s[1] * p
      /\ (v * Align) * (v * Align) * s[1] <= s[2] * p
  BY <1>1
<1> QED
  BY <1>1, <1>2, <1>3, SidesBelow

LEMMA AreaAbove ==
  ASSUME NEW s \in Sizes, NEW p \in Nat, NEW u \in Nat, NEW v \in Nat,
         s[1] * p <= u * Align * u * Align * s[2], s[2] * p <= v * Align * v * Align * s[1]
  PROVE  p <= (u * Align) * (v * Align)
<1>1. Align \in Nat /\ s[1] \in Nat \ {0} /\ s[2] \in Nat \ {0}
  BY Config, Sides
<1>2. u * Align \in Nat /\ v * Align \in Nat
  BY <1>1
<1>3. s[1] * p <= (u * Align) * (u * Align) * s[2]
      /\ s[2] * p <= (v * Align) * (v * Align) * s[1]
  BY <1>1
<1> QED
  BY <1>1, <1>2, <1>3, SidesAbove

LEMMA RoundedUnits ==
  ASSUME NEW s \in Sizes
  PROVE  Rounded(s) \in [Directions -> Nat \ {0}]
<1>1. ASSUME NEW d \in Directions PROVE RoundFactor(s[Index[d]]) \in Nat \ {0}
  <2>1. s[Index[d]] \in Nat /\ Align \in Nat \ {0}
    BY Sides, Config
  <2>2. 2 * s[Index[d]] + Align \in Nat /\ 2 * Align \in Nat \ {0}
    BY <2>1
  <2>3. (2 * s[Index[d]] + Align) \div (2 * Align) \in Nat
    BY <2>2, Quotient
  <2> QED
    BY <2>3 DEF RoundFactor, AtLeastOne
<1> QED
  BY <1>1 DEF Rounded

\* An image one unit wide: the other side is bounded by the proportion it may have.
LEMMA StripBelow ==
  ASSUME NEW n \in Nat, NEW w \in Nat \ {0}, NEW h \in Nat \ {0},
         n * Align * n * Align * w <= h * MinPixels, h * Align * Align <= w * MaxPixels
  PROVE  (2 * n * Align) * Align <= MaxPixels
<1> DEFINE a == Align
           y == n * a
           p == MinPixels
           q == MaxPixels
<1>1. a \in Nat \ {0} /\ p \in Nat /\ q \in Nat /\ 4 * p <= q
  BY Config
<1>2. (y * y) * w <= h * p /\ h * (a * a) <= w * q
  BY <1>1
<1>3. y \in Nat /\ y * y \in Nat /\ a * a \in Nat
  BY <1>1
<1> HIDE DEF a, y, p, q
<1>4. ((y * y) * w) * (a * a) <= (h * p) * (a * a)
  <2>1. (y * y) * w \in Nat /\ h * p \in Nat
    BY <1>1, <1>3
  <2> QED
    BY <1>2, <1>3, <2>1, TimesMonotone
<1>5. (h * (a * a)) * p <= (w * q) * p
  <2>1. h * (a * a) \in Nat /\ w * q \in Nat
    BY <1>1, <1>3
  <2> QED
    BY <1>1, <1>2, <2>1, TimesMonotone
<1>6. ((y * a) * (y * a)) * w <= (q * p) * w
  <2>1. ((y * y) * w) * (a * a) = ((y * a) * (y * a)) * w
    BY <1>1, <1>3
  <2>2. (h * p) * (a * a) = (h * (a * a)) * p /\ (w * q) * p = (q * p) * w
    BY <1>1
  <2>3. ((y * a) * (y * a)) * w \in Nat /\ (h * (a * a)) * p \in Nat /\ (q * p) * w \in Nat
    BY <1>1, <1>3
  <2> QED
    BY <1>4, <1>5, <2>1, <2>2, <2>3
<1>7. (y * a) * (y * a) <= q * p
  <2>1. (y * a) * (y * a) \in Nat /\ q * p \in Nat
    BY <1>1, <1>3
  <2> QED
    BY <1>6, <2>1, TimesCancels
<1>8. (2 * (y * a)) * (2 * (y * a)) <= q * q
  <2>1. q * (4 * p) <= q * q
    BY <1>1, TimesMonotone
  <2>2. (2 * (y * a)) * (2 * (y * a)) = 4 * ((y * a) * (y * a)) /\ q * (4 * p) = 4 * (q * p)
    BY <1>1, <1>3
  <2>3. (y * a) * (y * a) \in Nat /\ q * p \in Nat /\ q * q \in Nat
    BY <1>1, <1>3
  <2> QED
    BY <1>7, <2>1, <2>2, <2>3
<1>9. 2 * (y * a) <= q
  <2>1. 2 * (y * a) \in Nat
    BY <1>1, <1>3
  <2> QED
    BY <1>1, <1>8, <2>1, SquareCancels
<1>10. (2 * n * a) * a = 2 * (y * a)
  BY <1>1 DEF y
<1> QED
  BY <1>9, <1>10 DEF a, q

\* The size that target_size chooses keeps both limits, the upper one unless a side is
\* held up to the alignment.
LEMMA UnitsFacts ==
  ASSUME NEW s \in Sizes
  PROVE  LET u == Units(s).width
             v == Units(s).height
         IN /\ u \in Nat \ {0} /\ v \in Nat \ {0}
            /\ MinPixels <= (u * Align) * (v * Align)
            /\ Ordinary(s) => (u * Align) * (v * Align) <= MaxPixels
<1> DEFINE u == Units(s).width
           v == Units(s).height
           w == s[1]
           h == s[2]
           rw == Rounded(s)["width"]
           rh == Rounded(s)["height"]
<1>1. /\ w \in Nat \ {0} /\ h \in Nat \ {0} /\ Align \in Nat \ {0}
      /\ MinPixels \in Nat \ {0} /\ MaxPixels \in Nat \ {0} /\ 4 * MinPixels <= MaxPixels
  BY Sides, Config
<1>2. /\ s[Index["width"]] = w /\ s[Index["height"]] = h
      /\ Other(s, "width") = h /\ Other(s, "height") = w
  BY Sides
<1>3. "width" \in Directions /\ "height" \in Directions
  BY DEF Directions
<1>4. rw \in Nat \ {0} /\ rh \in Nat \ {0} /\ Area(Rounded(s)) = rw * Align * rh * Align
  BY <1>3, RoundedUnits DEF Area
<1>5. Ordinary(s) => h * Align * Align <= w * MaxPixels /\ w * Align * Align <= h * MaxPixels
  BY <1>2, <1>3 DEF Ordinary
<1>6. CASE Area(Rounded(s)) > MaxPixels
  <2>1. u = FloorFactor(s, "width", MaxPixels) /\ v = FloorFactor(s, "height", MaxPixels)
    BY <1>3, <1>6 DEF Units
  <2>2. /\ u \in Nat \ {0} /\ w * MaxPixels <= (2 * u) * Align * (2 * u) * Align * h
        /\ Align * Align * h <= w * MaxPixels => u * Align * u * Align * h <= w * MaxPixels
    BY <1>1, <1>2, <1>3, <2>1, FloorFacts
  <2>3. /\ v \in Nat \ {0} /\ h * MaxPixels <= (2 * v) * Align * (2 * v) * Align * w
        /\ Align * Align * w <= h * MaxPixels => v * Align * v * Align * w <= h * MaxPixels
    BY <1>1, <1>2, <1>3, <2>1, FloorFacts
  <2> HIDE DEF u, v
  <2>4. MaxPixels <= ((2 * u) * Align) * ((2 * v) * Align)
    <3>1. 2 * u \in Nat /\ 2 * v \in Nat
      BY <2>2, <2>3
    <3> QED
      BY <1>1, <2>2, <2>3, <3>1, AreaAbove
  <2>5. MinPixels <= (u * Align) * (v * Align)
    <3>1. ((2 * u) * Align) * ((2 * v) * Align) = 4 * ((u * Align) * (v * Align))
          /\ (u * Align) * (v * Align) \in Nat
      BY <1>1, <2>2, <2>3
    <3> QED
      BY <1>1, <2>4, <3>1
  <2>6. ASSUME Ordinary(s) PROVE (u * Align) * (v * Align) <= MaxPixels
    <3>1. Align * Align * h = h * Align * Align /\ Align * Align * w = w * Align * Align
      BY <1>1
    <3>2. u * Align * u * Align * h <= w * MaxPixels
          /\ v * Align * v * Align * w <= h * MaxPixels
      BY <1>5, <2>2, <2>3, <2>6, <3>1
    <3> QED
      BY <1>1, <2>2, <2>3, <3>2, AreaBelow
  <2> QED
    BY <2>2, <2>3, <2>5, <2>6 DEF u, v
<1>7. CASE ~(Area(Rounded(s)) > MaxPixels) /\ Area(Rounded(s)) < MinPixels
  <2>1. u = CeilFactor(s, "width", MinPixels) /\ v = CeilFactor(s, "height", MinPixels)
    BY <1>3, <1>7 DEF Units
  <2>2. /\ u \in Nat \ {0} /\ w * MinPixels <= u * Align * u * Align * h
        /\ (u - 1) * Align * (u - 1) * Align * h <= w * MinPixels
    BY <1>1, <1>2, <1>3, <2>1, CeilFacts
  <2>3. /\ v \in Nat \ {0} /\ h * MinPixels <= v * Align * v * Align * w
        /\ (v - 1) * Align * (v - 1) * Align * w <= h * MinPixels
    BY <1>1, <1>2, <1>3, <2>1, CeilFacts
  <2> HIDE DEF u, v
  <2>4. MinPixels <= (u * Align) * (v * Align)
    BY <1>1, <2>2, <2>3, AreaAbove
  <2>5. ASSUME Ordinary(s) PROVE (u * Align) * (v * Align) <= MaxPixels
    <3>1. u - 1 \in Nat /\ v - 1 \in Nat
      BY <2>2, <2>3
    <3>2. CASE u = 1 /\ v = 1
      <4>1. Align * Align <= rw * Align * rh * Align
        <5>1. 1 * Align <= rw * Align /\ 1 * Align <= rh * Align
              /\ rw * Align \in Nat /\ rh * Align \in Nat
          BY <1>1, <1>4, TimesMonotone
        <5>2. Align * Align <= (rw * Align) * (rh * Align)
          BY <1>1, <5>1, TimesMonotone
        <5> QED
          BY <1>1, <1>4, <5>2
      <4>2. rw * Align * rh * Align < MinPixels
        BY <1>4, <1>7
      <4>3. rw * Align * rh * Align \in Nat /\ Align * Align \in Nat
        BY <1>1, <1>4
      <4> QED
        BY <1>1, <3>2, <4>1, <4>2, <4>3
    <3>3. CASE u = 1 /\ v # 1
      <4>1. (2 * (v - 1) * Align) * Align <= MaxPixels
        BY <1>1, <1>5, <2>3, <2>5, <3>1, StripBelow
      <4>2. v <= 2 * (v - 1)
        BY <2>3, <3>3
      <4>3. v * (Align * Align) <= (2 * (v - 1)) * (Align * Align)
        BY <1>1, <2>3, <3>1, <4>2, TimesMonotone
      <4>4. /\ (u * Align) * (v * Align) = v * (Align * Align)
            /\ (2 * (v - 1) * Align) * Align = (2 * (v - 1)) * (Align * Align)
            /\ v * (Align * Align) \in Nat /\ (2 * (v - 1)) * (Align * Align) \in Nat
        BY <1>1, <2>3, <3>1, <3>3
      <4> QED
        BY <1>1, <4>1, <4>3, <4>4
    <3>4. CASE u # 1 /\ v = 1
      <4>1. (2 * (u - 1) * Align) * Align <= MaxPixels
        BY <1>1, <1>5, <2>2, <2>5, <3>1, StripBelow
      <4>2. u <= 2 * (u - 1)
        BY <2>2, <3>4
      <4>3. u * (Align * Align) <= (2 * (u - 1)) * (Align * Align)
        BY <1>1, <2>2, <3>1, <4>2, TimesMonotone
      <4>4. /\ (u * Align) * (v * Align) = u * (Align * Align)
            /\ (2 * (u - 1) * Align) * Align = (2 * (u - 1)) * (Align * Align)
            /\ u * (Align * Align) \in Nat /\ (2 * (u - 1)) * (Align * Align) \in Nat
        BY <1>1, <2>2, <3>1, <3>4
      <4> QED
        BY <1>1, <4>1, <4>3, <4>4
    <3>5. CASE u # 1 /\ v # 1
      <4>1. ((u - 1) * Align) * ((v - 1) * Align) <= MinPixels
        BY <1>1, <2>2, <2>3, <3>1, AreaBelow
      <4>2. u * Align <= 2 * ((u - 1) * Align) /\ v * Align <= 2 * ((v - 1) * Align)
            /\ u * Align \in Nat /\ v * Align \in Nat
            /\ (u - 1) * Align \in Nat /\ (v - 1) * Align \in Nat
        <5>1. u <= 2 * (u - 1) /\ v <= 2 * (v - 1)
          BY <2>2, <2>3, <3>5
        <5>2. u * Align <= (2 * (u - 1)) * Align /\ v * Align <= (2 * (v - 1)) * Align
          BY <1>1, <2>2, <2>3, <3>1, <5>1, TimesMonotone
        <5> QED
          BY <1>1, <2>2, <2>3, <3>1, <5>2
      <4>3. (u * Align) * (v * Align)
              <= (2 * ((u - 1) * Align)) * (2 * ((v - 1) * Align))
        BY <4>2, TimesMonotone
      <4>4. (2 * ((u - 1) * Align)) * (2 * ((v - 1) * Align))
              = 4 * (((u - 1) * Align) * ((v - 1) * Align))
            /\ ((u - 1) * Align) * ((v - 1) * Align) \in Nat
            /\ (u * Align) * (v * Align) \in Nat
        BY <4>2
      <4> QED
        BY <1>1, <4>1, <4>3, <4>4
    <3> QED
      BY <3>2, <3>3, <3>4, <3>5
  <2> QED
    BY <2>2, <2>3, <2>4, <2>5 DEF u, v
<1>8. CASE ~(Area(Rounded(s)) > MaxPixels) /\ ~(Area(Rounded(s)) < MinPixels)
  <2>1. u = rw /\ v = rh
    BY <1>8 DEF Units
  <2>2. rw * Align * rh * Align \in Nat
        /\ rw * Align * rh * Align = (rw * Align) * (rh * Align)
    BY <1>1, <1>4
  <2> QED
    BY <1>1, <1>4, <1>8, <2>1, <2>2
<1> QED
  BY <1>6, <1>7, <1>8

\* ---- patches and tokens ---------------------------------------------------------

\* A size of u by v units has its patches and its tokens without remainder.
LEMMA AlignedSize ==
  ASSUME NEW u \in Nat \ {0}, NEW v \in Nat \ {0}, NEW t, t = <<u * Align, v * Align>>
  PROVE  /\ t \in Sizes /\ t # Unreadable
         /\ t[1] = u * Align /\ t[2] = v * Align
         /\ PatchesX(t) = u * MergeSize /\ PatchesY(t) = v * MergeSize
         /\ ~Misaligned(t)
         /\ PatchesX(t) \div MergeSize = u /\ PatchesY(t) \div MergeSize = v
         /\ t[1] \div Align = u
         /\ TokenCount(t) = u * v
<1>1. PatchSize \in Nat \ {0} /\ MergeSize \in Nat \ {0} /\ Align \in Nat \ {0}
  BY Config
<1>2. t[1] = u * Align /\ t[2] = v * Align
  OBVIOUS
<1>3. t[1] \in Nat \ {0} /\ t[2] \in Nat \ {0}
  BY <1>1, <1>2
<1>4. t \in Sizes
  BY <1>2, <1>3 DEF Sizes
<1>5. t # Unreadable
  BY <1>3 DEF Unreadable
<1>6. /\ t[1] = (u * MergeSize) * PatchSize /\ t[2] = (v * MergeSize) * PatchSize
      /\ u * MergeSize \in Nat /\ v * MergeSize \in Nat
  BY <1>1, <1>2 DEF Align
<1>7. /\ t[1] \div PatchSize = u * MergeSize /\ t[1] % PatchSize = 0
      /\ t[2] \div PatchSize = v * MergeSize /\ t[2] % PatchSize = 0
  <2>1. /\ ((u * MergeSize) * PatchSize) \div PatchSize = u * MergeSize
        /\ ((u * MergeSize) * PatchSize) % PatchSize = 0
    BY <1>1, <1>6, ExactDiv
  <2>2. /\ ((v * MergeSize) * PatchSize) \div PatchSize = v * MergeSize
        /\ ((v * MergeSize) * PatchSize) % PatchSize = 0
    BY <1>1, <1>6, ExactDiv
  <2> QED
    BY <1>6, <2>1, <2>2
<1>8. /\ (u * MergeSize) \div MergeSize = u /\ (u * MergeSize) % MergeSize = 0
      /\ (v * MergeSize) \div MergeSize = v /\ (v * MergeSize) % MergeSize = 0
  BY <1>1, ExactDiv
<1>9. t[1] \div Align = u
  BY <1>1, <1>2, ExactDiv
<1>10. PatchesX(t) = u * MergeSize /\ PatchesY(t) = v * MergeSize
  BY <1>7 DEF PatchesX, PatchesY
<1> QED
  BY <1>2, <1>4, <1>5, <1>7, <1>8, <1>9, <1>10 DEF Misaligned, TokenCount

LEMMA TargetFacts ==
  ASSUME NEW s \in Sizes
  PROVE  LET t == TargetSize(s)
             u == Units(s).width
             v == Units(s).height
         IN /\ u \in Nat \ {0} /\ v \in Nat \ {0} /\ t = <<u * Align, v * Align>>
            /\ t \in Sizes /\ t # Unreadable
            /\ t[1] = u * Align /\ t[2] = v * Align
            /\ PatchesX(t) = u * MergeSize /\ PatchesY(t) = v * MergeSize
            /\ ~Misaligned(t)
            /\ PatchesX(t) \div MergeSize = u
            /\ t[1] \div Align = u
            /\ TokenCount(t) = u * v
<1> DEFINE u == Units(s).width
           v == Units(s).height
<1>1. u \in Nat \ {0} /\ v \in Nat \ {0}
  BY UnitsFacts
<1>2. TargetSize(s) = <<u * Align, v * Align>>
  BY DEF TargetSize
<1> HIDE DEF u, v
<1> QED
  BY <1>1, <1>2, AlignedSize DEF u, v

\* The rows of the position table that a patch reads are its column and its row.
LEMMA PositionOf ==
  ASSUME NEW t, PatchesX(t) \in Nat \ {0},
         NEW a \in 0 .. PatchesX(t) - 1, NEW b \in Nat
  PROVE  Position(t, PatchAt(t, a, b)) = <<a, b>>
<1>1. (b * PatchesX(t) + a) \div PatchesX(t) = b /\ (b * PatchesX(t) + a) % PatchesX(t) = a
  BY DivMod
<1> QED
  BY <1>1 DEF Position, PatchAt

\* What TokensPoolOwnSquare says of one token.
PoolsSquare(t, token, columns) ==
  LET x == MergeSize * (token % columns)
      y == MergeSize * (token \div columns)
  IN {Position(t, i) : i \in PooledPatches(t, token)}
       = (x .. x + MergeSize - 1) \X (y .. y + MergeSize - 1)

LEMMA SquarePooled ==
  ASSUME NEW t, NEW u \in Nat \ {0}, NEW v \in Nat \ {0},
         PatchesX(t) = u * MergeSize, PatchesX(t) \div MergeSize = u,
         NEW token \in 0 .. u * v - 1
  PROVE  PoolsSquare(t, token, u)
<1> DEFINE m == MergeSize
           cx == token % u
           cy == token \div u
           x == m * cx
           y == m * cy
           pooled == {PatchAt(t, cx * m + i, cy * m + j) : i, j \in 0 .. m - 1}
<1>1. m \in Nat \ {0}
  BY Config
<1>2. token \in Nat /\ u * v \in Nat
  OBVIOUS
<1>3. cx \in 0 .. u - 1 /\ cy \in Nat
  BY <1>2, Quotient
<1> HIDE DEF cx, cy, m
<1>4. x \in Nat /\ y \in Nat /\ cx * m = x /\ cy * m = y
  BY <1>1, <1>3
<1>5. x + m <= u * m
  <2>1. cx + 1 <= u /\ cx + 1 \in Nat
    BY <1>3
  <2>2. (cx + 1) * m <= u * m
    BY <1>1, <2>1, TimesMonotone
  <2>3. (cx + 1) * m = x + m
    BY <1>1, <1>3
  <2> QED
    BY <2>2, <2>3
<1>6. PooledPatches(t, token) = pooled
  BY DEF PooledPatches, m, cx, cy
<1>7. PatchesX(t) = u * m /\ u * m \in Nat \ {0}
  BY <1>1 DEF m
<1> HIDE DEF x, y
<1>8. ASSUME NEW i \in 0 .. m - 1, NEW j \in 0 .. m - 1
      PROVE  Position(t, PatchAt(t, cx * m + i, cy * m + j)) = <<x + i, y + j>>
  <2>1. x + i \in 0 .. PatchesX(t) - 1 /\ y + j \in Nat
    BY <1>1, <1>4, <1>5, <1>7
  <2>2. cx * m + i = x + i /\ cy * m + j = y + j
    BY <1>4
  <2> QED
    BY <1>7, <2>1, <2>2, PositionOf
<1>9. {Position(t, p) : p \in pooled} = {<<x + i, y + j>> : i, j \in 0 .. m - 1}
  BY <1>8
<1>10. {<<x + i, y + j>> : i, j \in 0 .. m - 1} = (x .. x + m - 1) \X (y .. y + m - 1)
  <2>1. ASSUME NEW i \in 0 .. m - 1, NEW j \in 0 .. m - 1
        PROVE  <<x + i, y + j>> \in (x .. x + m - 1) \X (y .. y + m - 1)
    <3>1. x + i \in x .. x + m - 1 /\ y + j \in y .. y + m - 1
      BY <1>1, <1>4
    <3> QED
      BY <3>1
  <2>2. ASSUME NEW a \in x .. x + m - 1, NEW b \in y .. y + m - 1
        PROVE  <<a, b>> \in {<<x + i, y + j>> : i, j \in 0 .. m - 1}
    <3>1. a - x \in 0 .. m - 1 /\ b - y \in 0 .. m - 1 /\ a = x + (a - x) /\ b = y + (b - y)
      BY <1>1, <1>4
    <3> QED
      BY <3>1
  <2> QED
    BY <2>1, <2>2
<1> QED
  BY <1>6, <1>9, <1>10 DEF PoolsSquare, x, y, cx, cy, m

LEMMA TokensPooled ==
  ASSUME NEW s \in Sizes, NEW token \in 0 .. TokenCount(TargetSize(s)) - 1
  PROVE  PoolsSquare(TargetSize(s), token, TargetSize(s)[1] \div Align)
<1> DEFINE t == TargetSize(s)
           u == Units(s).width
           v == Units(s).height
<1>1. /\ u \in Nat \ {0} /\ v \in Nat \ {0}
      /\ PatchesX(t) = u * MergeSize /\ PatchesX(t) \div MergeSize = u
      /\ t[1] \div Align = u /\ TokenCount(t) = u * v
  BY TargetFacts
<1>2. token \in 0 .. u * v - 1
  BY <1>1
<1> HIDE DEF t, u, v
<1>3. PoolsSquare(t, token, u)
  BY <1>1, <1>2, SquarePooled
<1> QED
  BY <1>1, <1>3 DEF t

\* No patch of an image that is not too narrow reads past the position table.
LEMMA PositionsInTable ==
  ASSUME NEW s \in Sizes, Ordinary(s),
         NEW i \in 0 .. PatchesX(TargetSize(s)) * PatchesY(TargetSize(s)) - 1
  PROVE  Position(TargetSize(s), i)[1] < TableSize /\ Position(TargetSize(s), i)[2] < TableSize
<1> DEFINE t == TargetSize(s)
           u == Units(s).width
           v == Units(s).height
           m == MergeSize
           p == PatchSize
           a == Align
           px == PatchesX(t)
           py == PatchesY(t)
<1>1. /\ u \in Nat \ {0} /\ v \in Nat \ {0} /\ px = u * m /\ py = v * m
  BY TargetFacts
<1>2. (u * a) * (v * a) <= MaxPixels
  BY UnitsFacts
<1>3. /\ m \in Nat \ {0} /\ p \in Nat \ {0} /\ a \in Nat \ {0} /\ a = p * m
      /\ MaxPixels <= TableSize * p * a /\ MaxPixels \in Nat /\ TableSize \in Nat
  BY Config DEF Align
<1>4. Position(t, i) = <<i % px, i \div px>>
  BY DEF Position
<1>5. i \in 0 .. px * py - 1
  OBVIOUS
<1> HIDE DEF t, u, v, m, p, a, px, py
<1>6. px \in Nat \ {0} /\ py \in Nat \ {0} /\ i \in Nat
  BY <1>1, <1>3, <1>5
<1>7. px <= TableSize
  <2>1. (u * a) * (1 * a) <= (u * a) * (v * a)
    <3>1. u * a \in Nat /\ 1 * a \in Nat /\ v * a \in Nat /\ 1 * a <= v * a
      BY <1>1, <1>3, TimesMonotone
    <3> QED
      BY <3>1, TimesMonotone
  <2>2. (u * a) * (1 * a) = px * (p * a)
    BY <1>1, <1>3
  <2>3. TableSize * p * a = TableSize * (p * a) /\ p * a \in Nat \ {0}
        /\ px * (p * a) \in Nat /\ TableSize * (p * a) \in Nat /\ (u * a) * (v * a) \in Nat
    BY <1>1, <1>3, <1>6
  <2>4. px * (p * a) <= TableSize * (p * a)
    BY <1>2, <1>3, <2>1, <2>2, <2>3
  <2> QED
    BY <1>3, <1>6, <2>3, <2>4, TimesCancels
<1>8. py <= TableSize
  <2>1. (1 * a) * (v * a) <= (u * a) * (v * a)
    <3>1. u * a \in Nat /\ 1 * a \in Nat /\ v * a \in Nat /\ 1 * a <= u * a
      BY <1>1, <1>3, TimesMonotone
    <3> QED
      BY <3>1, TimesMonotone
  <2>2. (1 * a) * (v * a) = py * (p * a)
    BY <1>1, <1>3
  <2>3. TableSize * p * a = TableSize * (p * a) /\ p * a \in Nat \ {0}
        /\ py * (p * a) \in Nat /\ TableSize * (p * a) \in Nat /\ (u * a) * (v * a) \in Nat
    BY <1>1, <1>3, <1>6
  <2>4. py * (p * a) <= TableSize * (p * a)
    BY <1>2, <1>3, <2>1, <2>2, <2>3
  <2> QED
    BY <1>3, <1>6, <2>3, <2>4, TimesCancels
<1>9. i % px < px /\ i \div px < py /\ i % px \in Nat /\ i \div px \in Nat
  <2>1. i = (i \div px) * px + (i % px) /\ i \div px \in Nat /\ i % px \in 0 .. px - 1
    BY <1>6, Quotient
  <2> DEFINE q == i \div px
             r == i % px
  <2>2. i = q * px + r /\ q \in Nat /\ r \in 0 .. px - 1
    BY <2>1
  <2> HIDE DEF q, r
  <2>3. q < py
    <3>1. SUFFICES ASSUME py <= q PROVE FALSE
      BY <1>6, <2>2
    <3>2. py * px <= q * px
      BY <1>6, <2>2, <3>1, TimesMonotone
    <3>3. px * py = py * px /\ q * px \in Nat /\ py * px \in Nat
      BY <1>6, <2>2
    <3> QED
      BY <1>5, <2>2, <3>2, <3>3
  <2> QED
    BY <1>6, <2>2, <2>3 DEF q, r
<1>10. i % px < TableSize /\ i \div px < TableSize
  <2> DEFINE q == i \div px
             r == i % px
  <2>1. r < px /\ q < py /\ r \in Nat /\ q \in Nat
    BY <1>9
  <2> HIDE DEF q, r
  <2>2. r < TableSize /\ q < TableSize
    BY <1>3, <1>6, <1>7, <1>8, <2>1
  <2> QED
    BY <2>2 DEF q, r
<1> QED
  BY <1>4, <1>10 DEF t
\* ---- resampling -----------------------------------------------------------------

LEMMA FloorBounds ==
  ASSUME NEW a \in Int, NEW b \in Nat \ {0}
  PROVE  a \div b \in Int /\ (a \div b) * b <= a /\ a < (a \div b + 1) * b
  OBVIOUS

LEMMA FloorAtLeast ==
  ASSUME NEW a \in Int, NEW b \in Nat \ {0}, NEW k \in Int, k * b <= a
  PROVE  k <= a \div b
  OBVIOUS

LEMMA FloorLess ==
  ASSUME NEW a \in Int, NEW b \in Nat \ {0}, NEW k \in Int, a < k * b
  PROVE  a \div b < k
  OBVIOUS

LEMMA SupportReaches ==
  ASSUME NEW in \in Nat \ {0}, NEW out \in Nat \ {0}
  PROVE  Support(in, out) \in Nat /\ Support(in, out) >= 4 * in /\ Support(in, out) >= 4 * out
  BY DEF Support, Bigger

\* The window of an output pixel, by the bounds that bicubic_axis computes before it
\* clips them.
Centre(in, o) == (2 * o + 1) * in
Low(in, out, o) == (Centre(in, o) - Support(in, out) + out) \div (2 * out)
High(in, out, o) == (Centre(in, o) + Support(in, out) + out) \div (2 * out)

\* A bound that is a whole number may have come out one less.
LEMMA WindowShape ==
  ASSUME NEW in, NEW out, NEW o, NEW window \in Windows(in, out, o)
  PROVE  \E low \in {Low(in, out, o), Low(in, out, o) - 1},
            high \in {High(in, out, o), High(in, out, o) - 1} :
           window = (IF low < 0 THEN 0 ELSE low) .. (IF high > in THEN in ELSE high) - 1
  BY DEF Windows, Cut, Low, High, Centre

LEMMA WindowsExist ==
  ASSUME NEW in \in Nat \ {0}, NEW out \in Nat \ {0}, NEW o \in 0 .. out - 1
  PROVE  \E window : window \in Windows(in, out, o)
<1>1. ASSUME NEW n \in Int PROVE n \div (2 * out) \in Cut(n, out)
  <2>1. 2 * out \in Nat \ {0}
    OBVIOUS
  <2>2. n \div (2 * out) \in Int /\ n < (n \div (2 * out) + 1) * (2 * out)
    BY <2>1, FloorBounds
  <2>3. (n \div (2 * out) + 1) * (2 * out) \in Int
    BY <2>1, <2>2
  <2> DEFINE k == n \div (2 * out)
  <2>4. n <= (k + 1) * (2 * out)
    BY <2>2, <2>3
  <2>5. k \in {k, k - 1}
    OBVIOUS
  <2>6. Cut(n, out) = {j \in {k, k - 1} : n <= (j + 1) * (2 * out)}
    BY DEF Cut
  <2> HIDE DEF k
  <2>7. k \in Cut(n, out)
    BY <2>4, <2>5, <2>6
  <2> QED
    BY <2>7 DEF k
<1> DEFINE n == Centre(in, o) - Support(in, out) + out
           m == Centre(in, o) + Support(in, out) + out
<1>2. n \in Int /\ m \in Int
  BY SupportReaches DEF Centre
<1>3. PICK low : low \in Cut(n, out)
  BY <1>1, <1>2
<1>4. PICK high : high \in Cut(m, out)
  BY <1>1, <1>2
<1>5. (IF low < 0 THEN 0 ELSE low) .. (IF high > in THEN in ELSE high) - 1
        \in Windows(in, out, o)
  BY <1>3, <1>4 DEF Windows, Centre
<1> QED
  BY <1>5

LEMMA BoundsType ==
  ASSUME NEW in \in Nat \ {0}, NEW out \in Nat \ {0}, NEW o \in 0 .. out - 1
  PROVE  Low(in, out, o) \in Int /\ High(in, out, o) \in Int
<1>1. Centre(in, o) - Support(in, out) + out \in Int
      /\ Centre(in, o) + Support(in, out) + out \in Int /\ 2 * out \in Nat \ {0}
  BY SupportReaches DEF Centre
<1> QED
  BY <1>1, FloorBounds DEF Low, High

LEMMA WindowBounds ==
  ASSUME NEW in \in Nat \ {0}, NEW out \in Nat \ {0}, NEW o \in 0 .. out - 1,
         NEW window \in Windows(in, out, o)
  PROVE  /\ window \subseteq 0 .. in - 1
         /\ \A x \in 0 .. in - 1 :
              Low(in, out, o) <= x /\ x < High(in, out, o) - 1 => x \in window
<1> DEFINE L == Low(in, out, o)
           H == High(in, out, o)
<1>1. L \in Int /\ H \in Int
  BY BoundsType
<1>2. PICK low \in {L, L - 1}, high \in {H, H - 1} :
        window = (IF low < 0 THEN 0 ELSE low) .. (IF high > in THEN in ELSE high) - 1
  BY WindowShape
<1> HIDE DEF L, H
<1>3. low \in Int /\ high \in Int /\ low <= L /\ H - 1 <= high
  BY <1>1, <1>2
<1>4. \A x \in 0 .. in - 1 : L <= x /\ x < H - 1 => x \in window
  BY <1>1, <1>2, <1>3
<1>5. window \subseteq 0 .. in - 1
  BY <1>2, <1>3
<1> QED
  BY <1>4, <1>5 DEF L, H

\* It is not empty after the clipping, and has no more pixels than there are weights.
LEMMA WindowFits ==
  ASSUME NEW in \in Nat \ {0}, NEW out \in Nat \ {0}, NEW o \in 0 .. out - 1,
         NEW window \in Windows(in, out, o)
  PROVE  Cardinality(window) \in 1 .. KernelSize(in, out)
<1> DEFINE S == Support(in, out)
           c == Centre(in, o)
           D == 2 * out
           k == (S + 2 * out - 1) \div (2 * out)
           low == Low(in, out, o)
           high == High(in, out, o)
<1>1. S \in Nat /\ S >= 4 * in /\ S >= 4 * out
  BY SupportReaches
<1>2. c \in Nat /\ c + in <= in * D
  <2>1. (2 * o + 2) * in <= D * in
    <3>1. 2 * o + 2 \in Nat /\ D \in Nat /\ 2 * o + 2 <= D
      OBVIOUS
    <3> QED
      BY <3>1, TimesMonotone
  <2>2. c = 2 * (o * in) + in /\ (2 * o + 2) * in = 2 * (o * in) + 2 * in /\ D * in = in * D
        /\ o * in \in Nat
    BY DEF Centre
  <2> QED
    BY <2>1, <2>2
<1>3. D \in Nat \ {0} /\ D = 2 * out
  OBVIOUS
<1>4. low = (c - S + out) \div D /\ high = (c + S + out) \div D
  BY DEF Low, High
<1>5. KernelSize(in, out) = 2 * k + 1
  BY DEF KernelSize
<1>6. PICK from \in {low, low - 1}, to \in {high, high - 1} :
        window = (IF from < 0 THEN 0 ELSE from) .. (IF to > in THEN in ELSE to) - 1
  BY WindowShape
<1>7. k = (S + D - 1) \div D
  OBVIOUS
<1> HIDE DEF S, c, D, k, low, high
<1>8. low \in Int /\ low * D <= c - S + out /\ c - S + out < (low + 1) * D
  <2>1. c - S + out \in Int /\ D \in Nat \ {0}
    BY <1>1, <1>2, <1>3
  <2> QED
    BY ONLY <1>4, <2>1, FloorBounds
<1>9. high \in Int
  <2>1. c + S + out \in Int /\ D \in Nat \ {0}
    BY <1>1, <1>2, <1>3
  <2> QED
    BY ONLY <1>4, <2>1, FloorBounds
<1>10. k \in Int /\ S <= k * D
  <2>1. S + D - 1 \in Int
    BY <1>1, <1>3
  <2>2. k \in Int /\ S + D - 1 < (k + 1) * D
    BY <1>3, <1>7, <2>1, FloorBounds
  <2>3. (k + 1) * D = k * D + D /\ k * D \in Int
    BY <1>3, <2>2
  <2> QED
    BY <1>1, <1>3, <2>2, <2>3
<1>11. low < in
  <2>1. c - S + out < in * D
    <3>1. in * D \in Nat
      BY <1>3
    <3> QED
      BY <1>1, <1>2, <1>3, <3>1
  <2>2. c - S + out \in Int
    BY <1>1, <1>2
  <2> QED
    BY <1>3, <1>4, <2>1, <2>2, FloorLess
<1>12. 2 <= high
  <2>1. 2 * D <= c + S + out /\ c + S + out \in Int
    BY <1>1, <1>2, <1>3
  <2> QED
    BY <1>3, <1>4, <2>1, FloorAtLeast
<1>13. low + 2 <= high
  <2>1. (low + 2) * D = low * D + 2 * D /\ low * D \in Int
    BY <1>3, <1>8
  <2>2. (low + 2) * D <= c + S + out
    BY <1>1, <1>2, <1>3, <1>8, <2>1
  <2>3. low + 2 \in Int /\ c + S + out \in Int
    BY <1>1, <1>2, <1>8
  <2> QED
    BY <1>3, <1>4, <2>2, <2>3, FloorAtLeast
<1>14. high < low + 1 + 2 * k
  <2>1. (low + 1 + 2 * k) * D = (low + 1) * D + 2 * (k * D)
        /\ (low + 1) * D \in Int /\ k * D \in Int
    BY <1>3, <1>8, <1>10
  <2>2. c + S + out < (low + 1 + 2 * k) * D
    BY <1>1, <1>2, <1>8, <1>10, <2>1
  <2>3. low + 1 + 2 * k \in Int /\ c + S + out \in Int
    BY <1>1, <1>2, <1>8, <1>10
  <2> QED
    BY <1>3, <1>4, <2>2, <2>3, FloorLess
<1> DEFINE first == IF from < 0 THEN 0 ELSE from
           end == IF to > in THEN in ELSE to
<1>15. first \in Int /\ end \in Int /\ first <= end - 1 /\ end - first <= 2 * k + 1
  <2>1. /\ from \in Int /\ to \in Int /\ from < in /\ 1 <= to /\ from + 1 <= to
        /\ to <= from + 1 + 2 * k
    BY <1>6, <1>8, <1>9, <1>10, <1>11, <1>12, <1>13, <1>14
  <2> QED
    BY <1>10, <2>1
<1>16. window = first .. end - 1
  BY <1>6
<1> HIDE DEF first, end
<1>17. Cardinality(first .. end - 1) = end - first
  <2>1. end - 1 \in Int /\ (end - 1) - first + 1 = end - first
    BY <1>15
  <2>2. Cardinality(first .. end - 1) = (end - 1) - first + 1
    BY <1>15, <2>1, FS_Interval
  <2> QED
    BY <2>1, <2>2
<1>18. end - first \in Int /\ end - first >= 1
  BY <1>15
<1> QED
  BY <1>5, <1>10, <1>15, <1>17, <1>18, <1>16

\* Every pixel is seen: by the output pixel that its middle falls into.
LEMMA WindowsCover ==
  ASSUME NEW in \in Nat \ {0}, NEW out \in Nat \ {0}, NEW x \in 0 .. in - 1
  PROVE  \E o \in 0 .. out - 1 : \A window \in Windows(in, out, o) : x \in window
<1> DEFINE o == ((2 * x + 1) * out) \div (2 * in)
           S == Support(in, out)
           D == 2 * out
           p == (2 * x + 1) * out
           c == Centre(in, o)
<1>1. S \in Nat /\ S >= 4 * in /\ S >= 4 * out /\ D \in Nat \ {0} /\ D = 2 * out
  BY SupportReaches
<1>2. p \in Nat /\ 2 * in \in Nat \ {0} /\ o = p \div (2 * in)
  OBVIOUS
<1>3. p + out = (x + 1) * D
  OBVIOUS
<1>4. p < out * (2 * in)
  <2>1. (2 * x + 2) * out <= (2 * in) * out
    <3>1. 2 * x + 2 \in Nat /\ 2 * in \in Nat /\ 2 * x + 2 <= 2 * in
      OBVIOUS
    <3> QED
      BY <3>1, TimesMonotone
  <2>2. (2 * x + 2) * out = p + out /\ (2 * in) * out = out * (2 * in) /\ (2 * in) * out \in Nat
    OBVIOUS
  <2> QED
    BY <1>2, <2>1, <2>2
<1> HIDE DEF p, o
<1>5. o \in Int /\ o * (2 * in) <= p /\ p < (o + 1) * (2 * in)
  <2>1. p \in Int
    BY <1>2
  <2> QED
    BY ONLY <1>2, <2>1, FloorBounds
<1>6. o \in 0 .. out - 1
  <2>1. 0 <= o
    BY <1>2, FloorAtLeast
  <2>2. o < out
    BY <1>2, <1>4, FloorLess
  <2> QED
    BY <1>5, <2>1, <2>2
<1>7. c \in Int /\ c = o * (2 * in) + in /\ c = (o + 1) * (2 * in) - in
  BY <1>6 DEF Centre
<1>8. Low(in, out, o) = (c - S + out) \div D /\ High(in, out, o) = (c + S + out) \div D
  BY DEF Low, High
<1> HIDE DEF c, S, D
<1>9. Low(in, out, o) < x + 1
  <2>1. c - S + out < (x + 1) * D
    <3>1. c <= p + in
      BY <1>2, <1>5, <1>7
    <3> QED
      BY <1>1, <1>2, <1>3, <1>7, <3>1
  <2>2. c - S + out \in Int /\ x + 1 \in Int
    BY <1>1, <1>7
  <2> QED
    BY ONLY <1>1, <1>8, <2>1, <2>2, FloorLess
<1>10. x + 2 <= High(in, out, o)
  <2>1. (x + 2) * D <= c + S + out
    <3>1. p - in <= c
      BY <1>2, <1>5, <1>7
    <3>2. (x + 2) * D = p + out + D
      BY <1>1, <1>3
    <3> QED
      BY <1>1, <1>2, <1>7, <3>1, <3>2
  <2>2. c + S + out \in Int /\ x + 2 \in Int
    BY <1>1, <1>7
  <2> QED
    BY ONLY <1>1, <1>8, <2>1, <2>2, FloorAtLeast
<1>11. ASSUME NEW window \in Windows(in, out, o) PROVE x \in window
  <2>1. Low(in, out, o) \in Int /\ High(in, out, o) \in Int
    BY <1>6, BoundsType
  <2>2. Low(in, out, o) <= x /\ x < High(in, out, o) - 1
    BY <1>9, <1>10, <2>1
  <2> QED
    BY <1>6, <2>2, WindowBounds
<1> QED
  BY <1>6, <1>11

LEMMA CopiedFits ==
  ASSUME NEW in \in Nat \ {0}, NEW out \in Nat \ {0}
  PROVE  1 \in 1 .. KernelSize(in, out)
<1>1. Support(in, out) + 2 * out - 1 \in Int /\ 2 * out \in Nat \ {0}
      /\ 0 * (2 * out) <= Support(in, out) + 2 * out - 1
  BY SupportReaches
<1>2. (Support(in, out) + 2 * out - 1) \div (2 * out) \in Int
      /\ 0 <= (Support(in, out) + 2 * out - 1) \div (2 * out)
  BY <1>1, FloorBounds, FloorAtLeast
<1> QED
  BY <1>2 DEF KernelSize

LEMMA Resampled ==
  ASSUME NEW s \in Sizes, NEW t \in Sizes, NEW d \in Directions
  PROVE  LET in == s[Index[d]]
             out == t[Index[d]]
         IN /\ \A o \in 0 .. out - 1 : \A window \in Looked(s, t, d, o) :
                 /\ window \subseteq 0 .. in - 1
                 /\ Cardinality(window) \in 1 .. KernelSize(in, out)
            /\ UNION {InEach(Looked(s, t, d, o)) : o \in 0 .. out - 1} = 0 .. in - 1
<1> DEFINE in == s[Index[d]]
           out == t[Index[d]]
<1>1. in \in Nat \ {0} /\ out \in Nat \ {0}
  BY Sides
<1>2. s = t => in = out
  OBVIOUS
<1>3. \A o : Looked(s, t, d, o) = IF s = t THEN {{o}} ELSE Windows(in, out, o)
  BY DEF Looked
<1> HIDE DEF in, out
<1>4. ASSUME NEW o \in 0 .. out - 1, NEW window \in Looked(s, t, d, o)
      PROVE  window \subseteq 0 .. in - 1 /\ Cardinality(window) \in 1 .. KernelSize(in, out)
  <2>1. CASE s = t
    <3>1. window = {o}
      BY <1>3, <2>1
    <3>2. Cardinality(window) = 1
      BY <3>1, FS_Singleton
    <3> QED
      BY <1>1, <1>2, <2>1, <3>1, <3>2, CopiedFits
  <2>2. CASE s # t
    <3>1. window \in Windows(in, out, o)
      BY <1>3, <2>2
    <3> QED
      BY <1>1, <3>1, WindowFits, WindowBounds
  <2> QED
    BY <2>1, <2>2
<1>5. ASSUME NEW x \in 0 .. in - 1
      PROVE  \E o \in 0 .. out - 1 : \A window \in Looked(s, t, d, o) : x \in window
  <2>1. CASE s = t
    BY <1>2, <1>3, <2>1
  <2>2. CASE s # t
    BY <1>1, <1>3, <2>2, WindowsCover
  <2> QED
    BY <2>1, <2>2
<1>6. ASSUME NEW o \in 0 .. out - 1
      PROVE  \E window : window \in Looked(s, t, d, o)
  <2>1. CASE s = t
    BY <1>3, <2>1
  <2>2. CASE s # t
    BY <1>1, <1>3, <2>2, WindowsExist
  <2> QED
    BY <2>1, <2>2
<1>7. UNION {InEach(Looked(s, t, d, o)) : o \in 0 .. out - 1} = 0 .. in - 1
  <2>1. ASSUME NEW o \in 0 .. out - 1, NEW x \in InEach(Looked(s, t, d, o))
        PROVE  x \in 0 .. in - 1
    BY <1>4, <2>1 DEF InEach
  <2>2. ASSUME NEW o \in 0 .. out - 1, NEW x,
               \A window \in Looked(s, t, d, o) : x \in window
        PROVE  x \in InEach(Looked(s, t, d, o))
    BY <1>6, <2>2 DEF InEach
  <2> QED
    BY <1>5, <2>1, <2>2
<1> QED
  BY <1>4, <1>7 DEF in, out

\* ---- the call -------------------------------------------------------------------

\* The factors depend on the state by the drift alone, which never changes.
LEMMA TargetStays ==
  ASSUME UNCHANGED drift, NEW s
  PROVE  TargetSize(s)' = TargetSize(s)
<1>1. ASSUME NEW d, NEW pixels
      PROVE  /\ FloorFactor(s, d, pixels)' = FloorFactor(s, d, pixels)
             /\ CeilFactor(s, d, pixels)' = CeilFactor(s, d, pixels)
  BY DEF FloorFactor, CeilFactor
<1>2. Units(s)' = Units(s)
  BY <1>1 DEF Units
<1> QED
  BY <1>2 DEF TargetSize

Graph == {"build", "probe", "allocate", "compute", "keep", "returned"}
Probed == {"allocate", "compute", "keep", "returned"}

\* A prepared image has the size that target_size chooses for what was decoded.
SizeInv ==
  /\ image \in Images
  /\ size = Unreadable \/ (image.decoded # Unreadable /\ size = TargetSize(image.decoded))

\* The estimate is of the header, which an encoded image must agree with to be prepared.
EstimateInv ==
  /\ pc \in Graph \cup {"decode"} /\ ~from_file =>
       estimate = TokenCount(TargetSize(image.header))
  /\ pc \in Graph => size = TargetSize(image.decoded)
  /\ pc \in Graph /\ ~from_file => image.decoded = image.header
  /\ pc \in Probed /\ path = "flash" => flash
  /\ pc = "returned" => tokens = TokenCount(size)
LEMMA ImageFacts ==
  ASSUME SizeInv
  PROVE  /\ image.header \in Sizes \cup {Unreadable}
         /\ image.decoded \in Sizes \cup {Unreadable}
         /\ Prepared => /\ image.decoded \in Sizes
                        /\ size = TargetSize(image.decoded)
  BY ImagesAssumption DEF SizeInv, Prepared

LEMMA SizeInvInductive ==
  ASSUME SizeInv, [Next]_vars
  PROVE  SizeInv'
<1>1. UNCHANGED input
  BY DEF Next, vars, input, Inspect, DecodeFile, DecodeEncoded, BuildFlash, ProbeFlash,
         Allocate, Compute, Keep, Finished
<1>2. \A s : TargetSize(s)' = TargetSize(s)
  BY <1>1, TargetStays DEF input
<1>3. \/ UNCHANGED size
      \/ image.decoded # Unreadable /\ size' = TargetSize(image.decoded)
  BY DEF Next, vars, Inspect, DecodeFile, DecodeEncoded, Preprocess, BuildFlash,
         ProbeFlash, Allocate, Compute, Keep, Finished
<1>4. image' = image
  BY <1>1 DEF input
<1>5. TargetSize(image.decoded)' = TargetSize(image.decoded)
  <2> DEFINE s == image.decoded
  <2>1. UNCHANGED s
    BY <1>4
  <2> QED
    BY <1>1, <1>4, TargetStays DEF input
<1> QED
  BY <1>3, <1>4, <1>5 DEF SizeInv
LEMMA EstimateInvInductive ==
  ASSUME EstimateInv, [Next]_vars
  PROVE  EstimateInv'
<1>1. UNCHANGED <<image, from_file, drift, flash>>
  BY DEF Next, vars, input, Inspect, DecodeFile, DecodeEncoded, BuildFlash, ProbeFlash,
         Allocate, Compute, Keep, Finished
<1>2. TargetSize(image.header)' = TargetSize(image.header)
  <2> DEFINE s == image.header
  <2>1. UNCHANGED s
    BY <1>1
  <2> QED
    BY <1>1, TargetStays
<1>3. TargetSize(image.decoded)' = TargetSize(image.decoded)
  <2> DEFINE s == image.decoded
  <2>1. UNCHANGED s
    BY <1>1
  <2> QED
    BY <1>1, TargetStays
<1>4. CASE Inspect
  BY <1>1, <1>2, <1>4 DEF EstimateInv, Inspect, Fail, Graph, Probed
<1>5. CASE DecodeFile
  BY <1>1, <1>3, <1>5 DEF EstimateInv, DecodeFile, Preprocess, Fail, Graph, Probed
<1>6. CASE DecodeEncoded
  BY <1>1, <1>2, <1>3, <1>6
     DEF EstimateInv, DecodeEncoded, Changed, Preprocess, Fail, Graph, Probed
<1>7. CASE BuildFlash
  BY <1>1, <1>2, <1>3, <1>7 DEF EstimateInv, BuildFlash, Fail, Graph, Probed
<1>8. CASE ProbeFlash
  BY <1>1, <1>2, <1>3, <1>8 DEF EstimateInv, ProbeFlash, Fail, Graph, Probed
<1>9. CASE Allocate
  BY <1>1, <1>2, <1>3, <1>9 DEF EstimateInv, Allocate, Fail, Graph, Probed
<1>10. CASE Compute
  BY <1>1, <1>2, <1>3, <1>10 DEF EstimateInv, Compute, Fail, Graph, Probed
<1>11. CASE Keep
  BY <1>1, <1>2, <1>3, <1>11 DEF EstimateInv, Keep, Fail, Graph, Probed
<1>12. CASE Finished \/ UNCHANGED vars
  BY <1>1, <1>2, <1>3, <1>12 DEF EstimateInv, Finished, vars
<1> QED
  BY <1>4, <1>5, <1>6, <1>7, <1>8, <1>9, <1>10, <1>11, <1>12 DEF Next

LEMMA SizeHolds == Spec => []SizeInv
<1>1. Init => SizeInv
  BY DEF Init, SizeInv
<1>2. SizeInv /\ [Next]_vars => SizeInv'
  BY SizeInvInductive
<1> QED
  BY <1>1, <1>2, PTL DEF Spec

LEMMA EstimateInvHolds == Spec => []EstimateInv
<1>1. Init => EstimateInv
  BY DEF Init, EstimateInv, Graph, Probed
<1>2. EstimateInv /\ [Next]_vars => EstimateInv'
  BY EstimateInvInductive
<1> QED
  BY <1>1, <1>2, PTL DEF Spec

\* ---- theorems -------------------------------------------------------------------

\* target_size rounds with doubles, clamps one side and lets the other follow: whatever the
\* image, the result is divisible into patches and tokens, has the pixels of the smallest
\* budget, and of the largest one and the position table's rows unless it is a thin strip.
THEOREM SizeIsAllowed == Spec => []SizeWithinLimits
<1>1. SizeInv => SizeWithinLimits
  <2> SUFFICES ASSUME SizeInv, Prepared PROVE SizeWithinLimits
    BY DEF SizeWithinLimits
  <2> DEFINE s == image.decoded
             u == Units(s).width
             v == Units(s).height
  <2>1. s \in Sizes /\ size = TargetSize(s)
    BY ImageFacts
  <2>2. /\ u \in Nat \ {0} /\ v \in Nat \ {0} /\ ~Misaligned(size)
        /\ size[1] = u * Align /\ size[2] = v * Align
    BY <2>1, TargetFacts
  <2>3. /\ MinPixels <= (u * Align) * (v * Align)
        /\ Ordinary(s) => (u * Align) * (v * Align) <= MaxPixels
    BY <2>1, UnitsFacts
  <2>4. ASSUME Ordinary(s), NEW i \in 0 .. PatchesX(size) * PatchesY(size) - 1
        PROVE  Position(size, i)[1] < TableSize /\ Position(size, i)[2] < TableSize
    BY <2>1, <2>4, PositionsInTable
  <2>5. size[1] * size[2] = (u * Align) * (v * Align) /\ (u * Align) * (v * Align) \in Nat
        /\ MinPixels \in Nat
    BY <2>2, Config
  <2> HIDE DEF u, v
  <2>6. size[1] * size[2] >= MinPixels
    BY <2>3, <2>5
  <2>7. Ordinary(s) => size[1] * size[2] <= MaxPixels
    BY <2>3, <2>5
  <2> QED
    BY <2>2, <2>4, <2>6, <2>7 DEF SizeWithinLimits
<1> QED
  BY <1>1, SizeHolds, PTL

\* bicubic_axis: the clipped windows hold at least one pixel and no more than there are
\* weights for, and together they are the whole side of the image, however much it is
\* shrunk or stretched.
THEOREM NoPixelIsMissed == Spec => []ResamplingCoversImage
<1>1. SizeInv => ResamplingCoversImage
  <2> SUFFICES ASSUME SizeInv, Prepared PROVE ResamplingCoversImage
    BY DEF ResamplingCoversImage
  <2>1. image.decoded \in Sizes /\ size = TargetSize(image.decoded)
    BY ImageFacts
  <2>2. size \in Sizes
    BY <2>1, TargetFacts
  <2> QED
    BY <2>1, <2>2, Resampled DEF ResamplingCoversImage
<1> QED
  BY <1>1, SizeHolds, PTL

\* encode: pooling and the position rows number the patches the same way, so that token k
\* stands for the k-th square of the image.
THEOREM TokensAreSquares == Spec => []TokensPoolOwnSquare
<1>1. SizeInv => TokensPoolOwnSquare
  <2> SUFFICES ASSUME SizeInv, Prepared PROVE TokensPoolOwnSquare
    BY DEF TokensPoolOwnSquare
  <2>1. image.decoded \in Sizes /\ size = TargetSize(image.decoded)
    BY ImageFacts
  <2>2. \A token \in 0 .. TokenCount(size) - 1 : PoolsSquare(size, token, size[1] \div Align)
    BY <2>1, TokensPooled
  <2> QED
    BY <2>2 DEF TokensPoolOwnSquare, PoolsSquare
<1> QED
  BY <1>1, SizeHolds, PTL

\* load_encoded and encode: a result has as many tokens as the budgets were checked with,
\* and flash attention runs only on a backend that has it.
THEOREM EstimateIsKept == Spec => []EstimateHolds
<1>1. EstimateInv => EstimateHolds
  BY DEF EstimateInv, EstimateHolds, Graph, Probed
<1> QED
  BY <1>1, EstimateInvHolds, PTL
================================================================================
