-------------------------- MODULE CheckedMathProofs --------------------------
(***************************************************************************)
(* What the run `math` checks for 7-bit words holds for words of any size  *)
(* and any scales.                                                         *)
(***************************************************************************)
EXTENDS CheckedMath, ReserveLogicProofs, NaturalsInduction, WellFoundedInduction

\* The walk stays within the machine's words.
InRange == x \in Uint256 /\ y \in Uint256

\* A word that needs no wrapping is not wrapped.
LEMMA WrapSmall ==
    ASSUME NEW n \in Nat, n <= UINT256_MAX
    PROVE  wrap(n) = n
  BY WidthAssumption DEF wrap

\* The guard of a multiplication, a <= (max - half) / b, is the same as
\* a * b + half <= max: truncating the division loses nothing.
LEMMA MulGuard ==
    ASSUME NEW a \in Nat, NEW b \in Nat \ {0}, NEW k \in Nat
    PROVE  a <= k \div b <=> a * b <= k
  <1> DEFINE q == k \div b
  <1>1. q \in Nat /\ b * q <= k /\ k < b * (q + 1)
    BY DivBounds
  <1> HIDE DEF q
  <1>2. a <= q => a * b <= k
    <2>1. a <= q => a * b <= q * b
      BY <1>1, MulMono
    <2>2. q * b = b * q
      BY <1>1
    <2> QED BY <1>1, <2>1, <2>2
  <1>3. a > q => a * b > k
    <2>1. a > q => (q + 1) * b <= a * b
      BY <1>1, MulMono
    <2>2. (q + 1) * b = b * (q + 1)
      BY <1>1
    <2> QED BY <1>1, <2>1, <2>2
  <1> QED BY <1>1, <1>2, <1>3 DEF q

\* wadMul, rayMul and percentMul have this shape.
LEMMA MulExact ==
    ASSUME NEW a \in Nat, NEW b \in Nat, NEW half \in Nat, NEW unit \in Nat \ {0},
           half < unit, half <= UINT256_MAX
    PROVE  mulHalfUp(a, b, half, unit) = exactOr((a * b + half) \div unit, a * b + half)
  <1>1. CASE a = 0 \/ b = 0
    <2>1. a * b = 0
      BY <1>1
    <2>2. half \div unit = 0
      BY DivUnique
    <2> QED BY <1>1, <2>1, <2>2 DEF mulHalfUp, exactOr
  <1>2. CASE a # 0 /\ b # 0
    <2> DEFINE p == a * b
    <2>1. p \in Nat
      OBVIOUS
    <2>2. UINT256_MAX - half \in Nat
      BY WidthAssumption
    <2>3. a <= (UINT256_MAX - half) \div b <=> p <= UINT256_MAX - half
      BY <1>2, <2>2, MulGuard
    <2>4. mulHalfUp(a, b, half, unit)
            = IF p <= UINT256_MAX - half THEN wrap(wrap(p) + half) \div unit ELSE Revert
      BY <1>2, <2>3 DEF mulHalfUp
    <2> HIDE DEF p
    <2>5. p <= UINT256_MAX - half => wrap(p) = p /\ wrap(p + half) = p + half
      BY <2>1, <2>2, WrapSmall, WidthAssumption
    <2>6. p <= UINT256_MAX - half <=> p + half <= UINT256_MAX
      BY <2>1, WidthAssumption
    <2>7. mulHalfUp(a, b, half, unit)
            = IF p + half <= UINT256_MAX THEN (p + half) \div unit ELSE Revert
      BY <2>4, <2>5, <2>6
    <2> QED BY <2>7 DEF exactOr, p
  <1> QED BY <1>1, <1>2

\* wadDiv, rayDiv and percentDiv have this shape.
LEMMA DivExact ==
    ASSUME NEW a \in Nat, NEW b \in Nat \ {0}, NEW unit \in Nat \ {0}, b <= UINT256_MAX
    PROVE  divHalfUp(a, b, unit)
             = exactOr((a * unit + (b \div 2)) \div b, a * unit + (b \div 2))
  <1> DEFINE p == a * unit
             h == b \div 2
  <1>1. p \in Nat /\ h \in Nat /\ UINT256_MAX - h \in Nat
    BY WidthAssumption
  <1>2. a <= (UINT256_MAX - h) \div unit <=> p <= UINT256_MAX - h
    BY <1>1, MulGuard
  <1>3. divHalfUp(a, b, unit)
          = IF p <= UINT256_MAX - h THEN wrap(wrap(p) + h) \div b ELSE Revert
    BY <1>2 DEF divHalfUp
  <1> HIDE DEF p, h
  <1>4. p <= UINT256_MAX - h => wrap(p) = p /\ wrap(p + h) = p + h
    BY <1>1, WrapSmall, WidthAssumption
  <1>5. p <= UINT256_MAX - h <=> p + h <= UINT256_MAX
    BY <1>1, WidthAssumption
  <1>6. divHalfUp(a, b, unit) = IF p + h <= UINT256_MAX THEN (p + h) \div b ELSE Revert
    BY <1>3, <1>4, <1>5
  <1> QED BY <1>6 DEF exactOr, p, h

\* rayToWad detects the overflow of an addition by comparing the wrapped sum
\* with one of its terms.
LEMMA RayToWadExact ==
    ASSUME NEW a \in Uint256
    PROVE  rayToWadChecked(a) = exactOr(rayToWad(a), a + (WAD_RAY_RATIO \div 2))
  <1> DEFINE h == WAD_RAY_RATIO \div 2
  <1>1. h \in Nat /\ h <= UINT256_MAX /\ a \in Nat /\ a <= UINT256_MAX
    BY RatioAssumption, WidthAssumption DEF Uint256
  <1>2. rayToWadChecked(a)
          = IF wrap(h + a) >= h THEN wrap(h + a) \div WAD_RAY_RATIO ELSE Revert
    BY DEF rayToWadChecked
  <1>3. rayToWad(a) = (h + a) \div WAD_RAY_RATIO
    <2>1. a + h = h + a
      BY <1>1
    <2> QED BY <2>1 DEF rayToWad
  <1> HIDE DEF h
  <1>4. CASE h + a <= UINT256_MAX
    <2>1. wrap(h + a) = h + a
      BY <1>1, <1>4, WrapSmall
    <2>2. h + a >= h /\ a + h <= UINT256_MAX
      BY <1>1, <1>4
    <2> QED BY <1>2, <1>3, <2>1, <2>2 DEF exactOr, h
  <1>5. CASE ~(h + a <= UINT256_MAX)
    <2>1. wrap(h + a) = h + a - (UINT256_MAX + 1)
      BY <1>1, <1>5, WidthAssumption DEF wrap
    <2>2. ~(wrap(h + a) >= h) /\ ~(a + h <= UINT256_MAX)
      BY <1>1, <1>5, <2>1, WidthAssumption
    <2> QED BY <1>2, <2>2 DEF exactOr, h
  <1> QED BY <1>4, <1>5

\* wadToRay detects the overflow of a multiplication by dividing the wrapped
\* product again.
LEMMA WadToRayExact ==
    ASSUME NEW a \in Uint256
    PROVE  wadToRayChecked(a) = exactOr(wadToRay(a), a * WAD_RAY_RATIO)
  <1> DEFINE p == a * WAD_RAY_RATIO
             w == wrap(p)
  <1>1. a \in Nat /\ p \in Nat /\ WAD_RAY_RATIO \in Nat \ {0}
    BY RatioAssumption, WidthAssumption DEF Uint256
  <1>2. w \in Nat /\ w <= UINT256_MAX
    <2> HIDE DEF p
    <2> QED BY <1>1, WidthAssumption DEF wrap
  <1>3. wadToRayChecked(a) = IF w \div WAD_RAY_RATIO = a THEN w ELSE Revert
    BY DEF wadToRayChecked
  <1>4. CASE p <= UINT256_MAX
    <2>1. w = p
      BY <1>1, <1>4, WrapSmall
    <2>2. p \div WAD_RAY_RATIO = a
      <3>1. WAD_RAY_RATIO * a <= p /\ p < WAD_RAY_RATIO * (a + 1)
        BY <1>1
      <3> QED BY <1>1, <3>1, DivUnique
    <2> QED BY <1>3, <1>4, <2>1, <2>2 DEF exactOr, wadToRay
  <1>5. CASE ~(p <= UINT256_MAX)
    <2>1. w \div WAD_RAY_RATIO = a => WAD_RAY_RATIO * a <= w
      BY <1>1, <1>2, DivBounds
    <2>2. WAD_RAY_RATIO * a = p
      BY <1>1
    <2> HIDE DEF w, p
    <2>3. w \div WAD_RAY_RATIO # a
      BY <1>1, <1>2, <1>5, <2>1, <2>2, WidthAssumption
    <2> QED BY <1>3, <1>5, <2>3 DEF exactOr, p
  <1> QED BY <1>4, <1>5

\* The arguments of every call are words of the machine.
LEMMA AlwaysInRange == Spec => []InRange
  <1>1. Init => InRange
    BY WidthAssumption DEF Init, InRange, Uint256
  <1>2. InRange /\ [Next]_<<x, y>> => InRange'
    BY WidthAssumption DEF InRange, Uint256, Next, StepX, StepY
  <1> QED BY <1>1, <1>2, PTL DEF Spec

\* For words of any size and any scales, the requires of WadRayMath and
\* PercentageMath revert exactly when an intermediate value would wrap, and
\* otherwise the exact value is returned.
THEOREM GuardsAreExact == Spec => []GuardsExact
  <1>1. InRange => GuardsExact
    <2> SUFFICES ASSUME InRange PROVE GuardsExact
      OBVIOUS
    <2>1. x \in Nat /\ y \in Nat /\ y <= UINT256_MAX /\ x \in Uint256
      BY WidthAssumption DEF InRange, Uint256
    <2>2. /\ RAY \in Nat \ {0} /\ halfRAY \in Nat /\ halfRAY < RAY
          /\ WAD \in Nat \ {0} /\ halfWAD \in Nat /\ halfWAD < WAD
          /\ PERCENTAGE_FACTOR \in Nat \ {0}
          /\ HALF_PERCENT \in Nat /\ HALF_PERCENT < PERCENTAGE_FACTOR
      BY RayAssumption, WadAssumption, PercentageAssumption, HalfRay DEF halfWAD, HALF_PERCENT
    <2>3. mulHalfUp(x, y, halfRAY, RAY) = exactOr(rayMul(x, y), x * y + halfRAY)
      BY <2>1, <2>2, MulExact, WidthAssumption DEF rayMul
    <2>4. mulHalfUp(x, y, halfWAD, WAD) = exactOr(wadMul(x, y), x * y + halfWAD)
      BY <2>1, <2>2, MulExact, WidthAssumption DEF wadMul
    <2>5. mulHalfUp(x, y, HALF_PERCENT, PERCENTAGE_FACTOR)
            = exactOr(percentMul(x, y), x * y + HALF_PERCENT)
      BY <2>1, <2>2, MulExact, WidthAssumption DEF percentMul
    <2>6. ASSUME y # 0
          PROVE  /\ divHalfUp(x, y, RAY) = exactOr(rayDiv(x, y), x * RAY + (y \div 2))
                 /\ divHalfUp(x, y, WAD) = exactOr(wadDiv(x, y), x * WAD + (y \div 2))
                 /\ divHalfUp(x, y, PERCENTAGE_FACTOR)
                      = exactOr(percentDiv(x, y), x * PERCENTAGE_FACTOR + (y \div 2))
      BY <2>1, <2>2, <2>6, DivExact DEF rayDiv, wadDiv, percentDiv
    <2>7. /\ rayToWadChecked(x) = exactOr(rayToWad(x), x + (WAD_RAY_RATIO \div 2))
          /\ wadToRayChecked(x) = exactOr(wadToRay(x), x * WAD_RAY_RATIO)
      BY <2>1, RayToWadExact, WadToRayExact
    <2> QED BY <2>3, <2>4, <2>5, <2>6, <2>7 DEF GuardsExact
  <1> QED BY <1>1, AlwaysInRange, PTL

\* For every scaled balance and every index of at least one RAY, reading the
\* balance and scaling it back (VariableDebtToken.balanceOf, then burn) is exact.
THEOREM ScaledBalanceAlwaysSurvives == Spec => []ScaledBalanceSurvives
  <1>1. InRange => ScaledBalanceSurvives
    <2> SUFFICES ASSUME InRange PROVE ScaledBalanceSurvives
      OBVIOUS
    <2>1. x \in Nat /\ RAY + y \in Nat /\ RAY + y >= RAY
      BY WidthAssumption, RayAssumption DEF InRange, Uint256
    <2> QED BY <2>1, ScaledRoundTrip DEF ScaledBalanceSurvives
  <1> QED BY <1>1, AlwaysInRange, PTL

\* A quotient of a numerator with half the divisor added is the nearest integer,
\* also when the divisor is odd and its half is rounded down.
LEMMA NearestQuotient ==
    ASSUME NEW n \in Nat, NEW d \in Nat \ {0}, NEW h \in Nat,
           2 * h = d \/ 2 * h = d - 1
    PROVE  isHalfUp((n + h) \div d, n, d)
  <1> DEFINE q == (n + h) \div d
             p == q * d
  <1>1. q \in Nat /\ d * q <= n + h /\ n + h < d * (q + 1)
    BY DivBounds
  <1> HIDE DEF q
  <1>2. p \in Nat /\ d * q = p /\ d * (q + 1) = p + d /\ 2 * q * d = 2 * p
    BY <1>1
  <1> HIDE DEF p
  <1>3. 2 * p - d <= 2 * n /\ 2 * n < 2 * p + d
    BY <1>1, <1>2
  <1>4. isHalfUp(q, n, d)
    BY <1>2, <1>3 DEF isHalfUp
  <1> QED BY <1>4 DEF q

\* Half a divisor, rounded down, is half of it or half of one less.
LEMMA HalfOf ==
    ASSUME NEW d \in Nat
    PROVE  d \div 2 \in Nat /\ (2 * (d \div 2) = d \/ 2 * (d \div 2) = d - 1)
  OBVIOUS

\* For every pair of arguments and all scales, the operations of WadRayMath and
\* PercentageMath return the integer nearest to the real product or quotient, the
\* upper one of two ("rounding half up").
THEOREM AlwaysRoundsHalfUp == Spec => []RoundsHalfUp
  <1>1. InRange => RoundsHalfUp
    <2> SUFFICES ASSUME InRange PROVE RoundsHalfUp
      OBVIOUS
    <2> DEFINE p == x * y
    <2>1. x \in Nat /\ y \in Nat /\ p \in Nat
      BY WidthAssumption DEF InRange, Uint256
    <2>2. /\ RAY \in Nat \ {0} /\ halfRAY \in Nat /\ 2 * halfRAY = RAY
          /\ WAD \in Nat \ {0} /\ halfWAD \in Nat
          /\ PERCENTAGE_FACTOR \in Nat \ {0} /\ HALF_PERCENT \in Nat
      BY RayAssumption, WadAssumption, PercentageAssumption, HalfRay DEF halfWAD, HALF_PERCENT
    <2>3. isHalfUp((p + halfRAY) \div RAY, p, RAY)
      <3> HIDE DEF p
      <3> QED BY <2>1, <2>2, NearestQuotient
    <2>4. 2 * halfWAD = WAD => isHalfUp((p + halfWAD) \div WAD, p, WAD)
      <3> HIDE DEF p
      <3> QED BY <2>1, <2>2, NearestQuotient
    <2>5. 2 * HALF_PERCENT = PERCENTAGE_FACTOR
            => isHalfUp((p + HALF_PERCENT) \div PERCENTAGE_FACTOR, p, PERCENTAGE_FACTOR)
      <3> HIDE DEF p
      <3> QED BY <2>1, <2>2, NearestQuotient
    <2>6. ASSUME y # 0, NEW scale \in Nat
          PROVE  isHalfUp((x * scale + (y \div 2)) \div y, x * scale, y)
      <3> DEFINE n == x * scale
                 h == y \div 2
      <3>1. n \in Nat /\ y \in Nat \ {0} /\ h \in Nat /\ (2 * h = y \/ 2 * h = y - 1)
        BY <2>1, <2>6, HalfOf
      <3> HIDE DEF n, h
      <3>2. isHalfUp((n + h) \div y, n, y)
        BY <3>1, NearestQuotient
      <3> QED BY <3>2 DEF n, h
    <2>7. /\ isHalfUp(rayMul(x, y), x * y, RAY)
          /\ 2 * halfWAD = WAD => isHalfUp(wadMul(x, y), x * y, WAD)
          /\ 2 * HALF_PERCENT = PERCENTAGE_FACTOR
               => isHalfUp(percentMul(x, y), x * y, PERCENTAGE_FACTOR)
      BY <2>3, <2>4, <2>5 DEF rayMul, wadMul, percentMul
    <2>8. y # 0 => /\ isHalfUp(rayDiv(x, y), x * RAY, y)
                   /\ isHalfUp(wadDiv(x, y), x * WAD, y)
                   /\ isHalfUp(percentDiv(x, y), x * PERCENTAGE_FACTOR, y)
      BY <2>2, <2>6 DEF rayDiv, wadDiv, percentDiv
    <2> QED BY <2>7, <2>8 DEF RoundsHalfUp
  <1> QED BY <1>1, AlwaysInRange, PTL


-------------------------------------------------------------------------------
(***************************************************************************)
(* Compounded interest and the exact power.  The power is a recursive      *)
(* function; that it exists, and what is shown of its values, is an        *)
(* induction over 0..n, carried out on the least number that fails.        *)
(***************************************************************************)

\* A nonempty set of numbers has a least one.
LEMMA LeastNumber ==
    ASSUME NEW T, T \subseteq Nat, T # {}
    PROVE  \E n \in T : \A m \in T : n <= m
  <1> DEFINE Less == {p \in Nat \X Nat : p[1] < p[2]}
  <1>1. IsWellFoundedOn(Less, Nat)
    BY NatLessThanWellFounded, Zenon DEF OpToRel
  <1>2. PICK n \in T : \A m \in T : ~ (<<m, n>> \in Less)
    <2> HIDE DEF Less
    <2> QED BY <1>1, WFMin
  <1>3. ASSUME NEW m \in T
        PROVE  n <= m
    <2>1. n \in Nat /\ m \in Nat /\ <<m, n>> \in Nat \X Nat
      OBVIOUS
    <2>2. ~ (<<m, n>>[1] < <<m, n>>[2])
      BY <1>2, <2>1
    <2> QED BY <2>1, <2>2
  <1> QED BY <1>3

\* The first n powers of b.
ArePowers(p, b, n) ==
    /\ p \in [0..n -> Nat]
    /\ p[0] = 1
    /\ \A k \in 1..n : p[k] = b * p[k - 1]

Powers(b, n) == CHOOSE p : p = [k \in 0..n |-> IF k = 0 THEN 1 ELSE b * p[k - 1]]

LEMMA PowersExist ==
    ASSUME NEW b \in Nat, NEW n \in Nat
    PROVE  \E p : ArePowers(p, b, n)
  <1> DEFINE Bad == {k \in Nat : ~ \E p : ArePowers(p, b, k)}
  <1>1. CASE Bad # {}
    <2>1. PICK k \in Bad : \A m \in Bad : k <= m
      <3>1. Bad \subseteq Nat
        OBVIOUS
      <3> HIDE DEF Bad
      <3> QED BY <1>1, <3>1, LeastNumber
    <2>2. CASE k = 0
      <3>1. ArePowers([i \in 0..0 |-> 1], b, 0)
        BY DEF ArePowers
      <3> QED BY <2>2, <3>1
    <2>3. CASE k # 0
      <3>1. k - 1 \in Nat /\ k \in Nat /\ k - 1 \notin Bad
        BY <2>1, <2>3
      <3>2. PICK p : ArePowers(p, b, k - 1)
        BY <3>1
      <3> DEFINE q == [i \in 0..k |-> IF i = k THEN b * p[k - 1] ELSE p[i]]
      <3>3. p[k - 1] \in Nat /\ \A i \in 0..(k - 1) : p[i] \in Nat
        BY <3>1, <3>2 DEF ArePowers
      <3>4. q \in [0..k -> Nat]
        BY <3>1, <3>3
      <3>5. q[0] = 1
        BY <3>1, <3>2, <2>3 DEF ArePowers
      <3>6. ASSUME NEW i \in 1..k
            PROVE  q[i] = b * q[i - 1]
        <4>1. i - 1 \in 0..k /\ i - 1 # k /\ q[i - 1] = p[i - 1]
          BY <3>1
        <4>2. CASE i = k
          BY <3>1, <4>1, <4>2
        <4>3. CASE i # k
          <5>1. i \in 1..(k - 1)
            BY <3>1, <4>3
          <5> QED BY <3>2, <4>1, <4>3, <5>1 DEF ArePowers
        <4> QED BY <4>2, <4>3
      <3> HIDE DEF q
      <3>7. ArePowers(q, b, k)
        BY <3>4, <3>5, <3>6 DEF ArePowers
      <3> QED BY <3>7
    <2> QED BY <2>2, <2>3
  <1>2. CASE Bad = {}
    BY <1>2
  <1> QED BY <1>1, <1>2

LEMMA PowersAre ==
    ASSUME NEW b \in Nat, NEW n \in Nat
    PROVE  ArePowers(Powers(b, n), b, n) /\ power(b, n) = Powers(b, n)[n]
  <1> DEFINE Is(p) == p = [k \in 0..n |-> IF k = 0 THEN 1 ELSE b * p[k - 1]]
             p == Powers(b, n)
  <1>1. Is(p)
    <2>1. PICK q : ArePowers(q, b, n)
      BY PowersExist
    <2>2. Is(q)
      BY <2>1 DEF ArePowers
    <2> QED BY <2>2 DEF Powers
  <1>2. power(b, n) = p[n]
    BY DEF power, Powers
  <1> HIDE DEF p
  <1>3. p[0] = 1 /\ \A k \in 1..n : p[k] = b * p[k - 1]
    BY <1>1
  <1>4. \A k \in 0..n : p[k] \in Nat
    <2> DEFINE Bad == {k \in 0..n : p[k] \notin Nat}
    <2>1. CASE Bad # {}
      <3>1. PICK k \in Bad : \A m \in Bad : k <= m
        <4>1. Bad \subseteq Nat
          OBVIOUS
        <4> HIDE DEF Bad
        <4> QED BY <2>1, <4>1, LeastNumber
      <3>2. k # 0
        BY <1>3, <3>1
      <3>3. k \in 1..n /\ k - 1 \in 0..n /\ k - 1 \notin Bad
        BY <3>1, <3>2
      <3>4. p[k - 1] \in Nat
        BY <3>3
      <3>5. b * p[k - 1] \in Nat
        BY <3>4
      <3> QED BY <1>3, <3>1, <3>3, <3>5
    <2> QED BY <2>1
  <1>5. p = [k \in 0..n |-> p[k]]
    BY <1>1
  <1>6. p \in [0..n -> Nat]
    BY <1>4, <1>5
  <1> QED BY <1>2, <1>3, <1>6 DEF ArePowers, p

\* Six R^3 times the first four terms of (1 + x/R)^y.
Terms(R, x1, n) ==
    6 * (R * R * R) + 6 * (R * R) * x1 * n + 3 * R * (n * (n - 1)) * (x1 * x1)
      + n * (n - 1) * (n - 2) * (x1 * x1 * x1)

LEMMA TermsAreInt ==
    ASSUME NEW R \in Nat, NEW x1 \in Nat, NEW n \in Nat
    PROVE  Terms(R, x1, n) \in Int
  BY DEF Terms

\* One more period multiplies the exact power by R + x, and the terms by no more.
LEMMA TermsGrow ==
    ASSUME NEW R \in Nat, NEW a \in Nat, NEW n \in Nat
    PROVE  /\ Terms(R, a, n) \in Int
           /\ R * Terms(R, a, n + 1) <= (R + a) * Terms(R, a, n)
  <1> DEFINE t == n * (n - 1) * (n - 2)
  <1>1. t \in Nat
    <2>1. CASE n <= 2
      <3>1. n \in {0, 1, 2}
        BY <2>1
      <3> QED BY <3>1
    <2>2. CASE n > 2
      <3>1. n - 1 \in Nat /\ n - 2 \in Nat
        BY <2>2
      <3> QED BY <3>1
    <2> QED BY <2>1, <2>2
  <1>2. Terms(R, a, n) \in Int
    BY DEF Terms
  <1>3. (R + a) * Terms(R, a, n) - R * Terms(R, a, n + 1) = t * (a * a * a * a)
    BY DEF Terms
  <1>4. t * (a * a * a * a) \in Nat
    <2>1. a * a * a * a \in Nat
      OBVIOUS
    <2> HIDE DEF t
    <2> QED BY <1>1, <2>1
  <1>5. (R + a) * Terms(R, a, n) \in Int /\ R * Terms(R, a, n + 1) \in Int
    BY DEF Terms
  <1> HIDE DEF t
  <1> QED BY <1>2, <1>3, <1>4, <1>5

\* The arithmetic of one period: a factor that grows no faster keeps the bound.
LEMMA PowerStep ==
    ASSUME NEW R \in Nat, NEW b \in Nat, NEW c \in Nat, NEW r \in Nat, NEW p \in Nat,
           NEW t \in Int, NEW u \in Int, r * t <= c * p, R * u <= b * t
    PROVE  (R * r) * u <= c * (b * p)
  <1>1. ASSUME NEW k \in Nat, NEW v \in Int, NEW w \in Int, v <= w
        PROVE  k * v <= k * w
    <2>1. PICK e \in Nat : w = v + e
      <3>1. w - v \in Nat /\ w = v + (w - v)
        BY <1>1
      <3> QED BY <3>1
    <2>2. k * w = k * v + k * e /\ k * e \in Nat /\ k * v \in Int
      BY <2>1
    <2> QED BY <2>2
  <1>2. R * u \in Int /\ b * t \in Int /\ r * t \in Int /\ c * p \in Int
    OBVIOUS
  <1>3. r * (R * u) <= r * (b * t)
    BY <1>1, <1>2
  <1>4. b * (r * t) <= b * (c * p)
    BY <1>1, <1>2
  <1>5. /\ r * (R * u) = (R * r) * u /\ r * (b * t) = b * (r * t)
        /\ b * (c * p) = c * (b * p)
    OBVIOUS
  <1>6. (R * r) * u \in Int /\ b * (r * t) \in Int /\ c * (b * p) \in Int
    OBVIOUS
  <1> QED BY <1>3, <1>4, <1>5, <1>6

\* The second term of the binomial, scaled: the half a unit its rayMul may add is
\* covered by the rounding r of CompoundingUndercharges.
LEMMA SecondTermRounds ==
    ASSUME NEW R \in Nat, NEW a \in Nat, NEW t \in Nat, NEW b \in Nat, NEW s \in Nat,
           NEW r \in Nat, 2 * s <= t * b, 2 * b * R <= 2 * (a * a) + R, t <= 4 * r
    PROVE  12 * (R * R) * s - 12 * (R * R) * r <= 6 * R * t * (a * a)
  <1> DEFINE k1 == 6 * (R * R)
             k2 == 3 * R * t
             k3 == 3 * (R * R)
  <1>1. k1 \in Nat /\ k2 \in Nat /\ k3 \in Nat
    OBVIOUS
  <1>2. (2 * s) * k1 <= (t * b) * k1
    <2> HIDE DEF k1
    <2>1. 2 * s \in Nat /\ t * b \in Nat
      OBVIOUS
    <2> QED BY <1>1, <2>1, MulMono
  <1>3. (2 * b * R) * k2 <= (2 * (a * a) + R) * k2
    <2> HIDE DEF k2
    <2>1. 2 * b * R \in Nat /\ 2 * (a * a) + R \in Nat
      OBVIOUS
    <2> QED BY <1>1, <2>1, MulMono
  <1>4. t * k3 <= (4 * r) * k3
    <2> HIDE DEF k3
    <2>1. 4 * r \in Nat
      OBVIOUS
    <2> QED BY <1>1, <2>1, MulMono
  <1> DEFINE S == 12 * (R * R) * s
             P == 12 * (R * R) * r
             Q == 6 * R * t * (a * a)
             M == 6 * (R * R) * (t * b)
             H == 3 * (R * R) * t
  <1>5. (2 * s) * k1 = S /\ (t * b) * k1 = M /\ (2 * b * R) * k2 = M
    OBVIOUS
  <1>6. (2 * (a * a) + R) * k2 = Q + H /\ t * k3 = H /\ (4 * r) * k3 = P
    OBVIOUS
  <1>7. S \in Int /\ P \in Int /\ Q \in Int /\ M \in Int /\ H \in Int
    OBVIOUS
  <1>8. S <= M /\ M <= Q + H /\ H <= P
    BY <1>2, <1>3, <1>4, <1>5, <1>6
  <1>9. S - P <= Q
    <2> HIDE DEF S, P, Q, M, H
    <2> QED BY <1>7, <1>8
  <1> QED BY <1>9

\* The third term, whose two rayMul both round.
LEMMA ThirdTermRounds ==
    ASSUME NEW R \in Nat, NEW a \in Nat, NEW t \in Nat, NEW b \in Nat, NEW b3 \in Nat,
           NEW s \in Nat, NEW r \in Nat,
           6 * s <= t * b3, 2 * b * R <= 2 * (a * a) + R, 2 * b3 * R <= 2 * b * a + R,
           t * (R + a) <= 12 * R * r
    PROVE  12 * (R * R) * s - 12 * (R * R) * r <= 2 * t * (a * a * a)
  <1> DEFINE k1 == 2 * (R * R)
             k2 == R * t
             k3 == t * a
  <1>1. k1 \in Nat /\ k2 \in Nat /\ k3 \in Nat
    OBVIOUS
  <1>2. (6 * s) * k1 <= (t * b3) * k1
    <2> HIDE DEF k1
    <2>1. 6 * s \in Nat /\ t * b3 \in Nat
      OBVIOUS
    <2> QED BY <1>1, <2>1, MulMono
  <1>3. (2 * b3 * R) * k2 <= (2 * b * a + R) * k2
    <2> HIDE DEF k2
    <2>1. 2 * b3 * R \in Nat /\ 2 * b * a + R \in Nat
      OBVIOUS
    <2> QED BY <1>1, <2>1, MulMono
  <1>4. (2 * b * R) * k3 <= (2 * (a * a) + R) * k3
    <2> HIDE DEF k3
    <2>1. 2 * b * R \in Nat /\ 2 * (a * a) + R \in Nat
      OBVIOUS
    <2> QED BY <1>1, <2>1, MulMono
  <1>5. (t * (R + a)) * R <= (12 * R * r) * R
    <2>1. t * (R + a) \in Nat /\ 12 * R * r \in Nat
      OBVIOUS
    <2> DEFINE u == t * (R + a)
               v == 12 * R * r
    <2> HIDE DEF u, v
    <2>2. u * R <= v * R
      BY <2>1, MulMono DEF u, v
    <2> QED BY <2>2 DEF u, v
  <1> DEFINE S == 12 * (R * R) * s
             P == 12 * (R * R) * r
             Q == 2 * t * (a * a * a)
             M == 2 * (R * R) * (t * b3)
             K == 2 * R * t * b * a
             G == R * t * a
             H == t * (R * R)
  <1>6. (6 * s) * k1 = S /\ (t * b3) * k1 = M /\ (2 * b3 * R) * k2 = M
    OBVIOUS
  <1>7. (2 * b * a + R) * k2 = K + H /\ (2 * b * R) * k3 = K
    OBVIOUS
  <1>8. (2 * (a * a) + R) * k3 = Q + G /\ (t * (R + a)) * R = H + G /\ (12 * R * r) * R = P
    OBVIOUS
  <1>9. /\ S \in Int /\ P \in Int /\ Q \in Int /\ M \in Int
        /\ K \in Int /\ G \in Int /\ H \in Int
    OBVIOUS
  <1>10. S <= M /\ M <= K + H /\ K <= Q + G /\ H + G <= P
    BY <1>2, <1>3, <1>4, <1>5, <1>6, <1>7, <1>8
  <1>11. S - P <= Q
    <2> HIDE DEF S, P, Q, M, K, G, H
    <2> QED BY <1>9, <1>10
  <1> QED BY <1>11

\* Twice what rayMul returns is at most half a unit above the exact product.
LEMMA RayMulAbove ==
    ASSUME NEW a \in Nat, NEW b \in Nat
    PROVE  rayMul(a, b) \in Nat /\ 2 * rayMul(a, b) * RAY <= 2 * (a * b) + RAY
  <1> DEFINE q == rayMul(a, b)
             p == a * b
             z == q * RAY
  <1>1. q \in Nat /\ p \in Nat /\ z \in Nat /\ z <= p + halfRAY
    <2>1. q \in Nat
      BY RayMulNat
    <2>2. z <= p + halfRAY
      BY RayMulBounds
    <2> HIDE DEF q
    <2> QED BY <2>1, <2>2, RayAssumption
  <1>2. 2 * q * RAY = 2 * z
    <2> HIDE DEF q
    <2> QED BY <1>1, RayAssumption
  <1>3. 2 * z <= 2 * p + RAY
    <2> HIDE DEF z, p
    <2> QED BY <1>1, HalfRay, RayAssumption
  <1> QED BY <1>1, <1>2, <1>3

\* The first terms of (R + a)^n never exceed the whole power.
LEMMA TermsBelowPower ==
    ASSUME NEW R \in Nat, NEW a \in Nat, NEW n \in Nat
    PROVE  /\ power(R, n) \in Nat /\ power(R + a, n) \in Nat
           /\ power(R, n) * Terms(R, a, n) <= 6 * (R * R * R) * power(R + a, n)
  <1> DEFINE r == Powers(R, n)
             p == Powers(R + a, n)
             c == 6 * (R * R * R)
             Bad == {k \in 0..n : ~ (r[k] * Terms(R, a, k) <= c * p[k])}
  <1>1. R + a \in Nat /\ c \in Nat
    OBVIOUS
  <1>2. ArePowers(r, R, n) /\ power(R, n) = r[n]
    BY PowersAre
  <1>3. ArePowers(p, R + a, n) /\ power(R + a, n) = p[n]
    BY <1>1, PowersAre
  <1> HIDE DEF r, p
  <1>4. \A k \in 0..n : r[k] \in Nat /\ p[k] \in Nat
    BY <1>2, <1>3 DEF ArePowers
  <1>5. ASSUME Bad # {}
        PROVE  FALSE
    <2>1. PICK k \in Bad : \A m \in Bad : k <= m
      <3>1. Bad \subseteq Nat
        OBVIOUS
      <3> HIDE DEF Bad
      <3> QED BY <1>5, <3>1, LeastNumber
    <2>2. CASE k = 0
      <3>1. r[0] = 1 /\ p[0] = 1
        BY <1>2, <1>3 DEF ArePowers
      <3>2. Terms(R, a, 0) = c
        BY DEF Terms
      <3>3. 1 * c <= c * 1
        <4> HIDE DEF c
        <4> QED BY <1>1
      <3>4. 0 \notin Bad
        BY <3>1, <3>2, <3>3
      <3> QED BY <2>1, <2>2, <3>4
    <2>3. CASE k # 0
      <3> DEFINE j == k - 1
      <3>1. j \in Nat /\ k = j + 1 /\ j \in 0..n /\ j \notin Bad /\ k \in 1..n
        BY <2>1, <2>3
      <3> HIDE DEF j
      <3>2. r[j] \in Nat /\ p[j] \in Nat /\ r[j] * Terms(R, a, j) <= c * p[j]
        BY <1>4, <3>1
      <3>3. r[k] = R * r[j] /\ p[k] = (R + a) * p[j]
        BY <1>2, <1>3, <3>1 DEF ArePowers, j
      <3>4. Terms(R, a, j) \in Int /\ Terms(R, a, k) \in Int
        BY <3>1, TermsAreInt
      <3>5. R * Terms(R, a, k) <= (R + a) * Terms(R, a, j)
        <4>1. \A m \in Nat : R * Terms(R, a, m + 1) <= (R + a) * Terms(R, a, m)
          BY TermsGrow
        <4> QED BY <3>1, <4>1
      <3>6. (R * r[j]) * Terms(R, a, k) <= c * ((R + a) * p[j])
        <4> HIDE DEF c
        <4> QED BY <1>1, <3>2, <3>4, <3>5, PowerStep
      <3>7. r[k] * Terms(R, a, k) <= c * p[k]
        BY <3>3, <3>6
      <3> QED BY <2>1, <3>7
    <2> QED BY <2>2, <2>3
  <1>6. r[n] * Terms(R, a, n) <= c * p[n]
    BY <1>5
  <1> QED BY <1>2, <1>3, <1>4, <1>6

\* n(n - 1)(n - 2) is never negative, and the code, which takes 0 for n - 2 when
\* n is not above 2, computes the same product.
LEMMA FallingProducts ==
    ASSUME NEW n \in Nat \ {0}
    PROVE  /\ n * (n - 1) \in Nat /\ n * (n - 1) * (n - 2) \in Nat
           /\ n * (n - 1) * (IF n > 2 THEN n - 2 ELSE 0) = n * (n - 1) * (n - 2)
  <1>1. CASE n <= 2
    <2>1. n \in {1, 2}
      BY <1>1
    <2> QED BY <2>1
  <1>2. CASE n > 2
    <2>1. n - 1 \in Nat /\ n - 2 \in Nat
      BY <1>2
    <2>2. n * (n - 1) \in Nat
      BY <2>1
    <2>3. n * (n - 1) * (n - 2) \in Nat
      BY <2>1, <2>2
    <2> QED BY <1>2, <2>2, <2>3
  <1> QED BY <1>1, <1>2

\* A term of the binomial, as the code computes it, twice or six times over.
LEMMA TruncatedTerm ==
    ASSUME NEW n \in Nat, NEW d \in Nat \ {0}
    PROVE  n \div d \in Nat /\ d * (n \div d) <= n /\ n <= d * ((n \div d) + 1)
  <1>1. /\ n \div d \in Nat /\ d * (n \div d) <= n /\ n < d * ((n \div d) + 1)
    BY DivBounds
  <1> DEFINE q == n \div d
  <1> HIDE DEF q
  <1>2. q \in Nat /\ d * (q + 1) \in Nat /\ n < d * (q + 1)
    BY <1>1 DEF q
  <1>3. n <= d * (q + 1)
    BY <1>2
  <1> QED BY <1>1, <1>3 DEF q

\* The scaled sum of the rounded terms is within the scaled sum of the exact ones.
LEMMA ScaledSum ==
    ASSUME NEW R \in Nat, NEW a \in Nat, NEW n \in Nat,
           NEW t2 \in Nat, NEW t3 \in Nat, t2 = n * (n - 1), t3 = n * (n - 1) * (n - 2),
           NEW s2 \in Nat, NEW s3 \in Nat, NEW r2 \in Nat, NEW r3 \in Nat,
           12 * (R * R) * s2 - 12 * (R * R) * r2 <= 6 * R * t2 * (a * a),
           12 * (R * R) * s3 - 12 * (R * R) * r3 <= 2 * t3 * (a * a * a)
    PROVE  12 * (R * R) * ((R + a * n + s2 + s3) - (r2 + r3)) <= 2 * Terms(R, a, n)
  <1> DEFINE k == 12 * (R * R)
             A == 12 * (R * R * R) + 12 * (R * R) * a * n
             B == 6 * R * t2 * (a * a)
             D == 2 * t3 * (a * a * a)
             S2 == k * s2
             S3 == k * s3
             P2 == k * r2
             P3 == k * r3
  <1>1. Terms(R, a, n)
          = 6 * (R * R * R) + 6 * (R * R) * a * n + 3 * R * t2 * (a * a) + t3 * (a * a * a)
    BY DEF Terms
  <1>2. 2 * Terms(R, a, n) = A + B + D
    BY <1>1
  <1>3. k * ((R + a * n + s2 + s3) - (r2 + r3)) = A + S2 + S3 - P2 - P3
    OBVIOUS
  <1>4. /\ A \in Int /\ B \in Int /\ D \in Int
        /\ S2 \in Int /\ S3 \in Int /\ P2 \in Int /\ P3 \in Int
    OBVIOUS
  <1>5. S2 - P2 <= B /\ S3 - P3 <= D
    OBVIOUS
  <1>6. A + S2 + S3 - P2 - P3 <= A + B + D
    <2> HIDE DEF A, B, D, S2, S3, P2, P3
    <2> QED BY <1>4, <1>5
  <1> QED BY <1>2, <1>3, <1>6

\* From the scaled terms back to the power itself.
LEMMA Unscaled ==
    ASSUME NEW R \in Nat \ {0}, NEW d \in Int, NEW t \in Int, NEW r \in Nat, NEW p \in Nat,
           12 * (R * R) * d <= 2 * t, r * t <= 6 * (R * R * R) * p
    PROVE  d * r <= R * p
  <1> DEFINE k == 12 * (R * R)
             u == k * d
             v == 2 * t
             f == d * r
             g == R * p
  <1>1. R * R \in Nat \ {0}
    OBVIOUS
  <1>2. k \in Nat \ {0} /\ u \in Int /\ v \in Int /\ f \in Int /\ g \in Int /\ u <= v
    <2> DEFINE w == R * R
    <2> HIDE DEF w
    <2>1. 12 * w \in Nat \ {0}
      BY <1>1 DEF w
    <2> QED BY <2>1 DEF w
  <1>3. r * u <= r * v
    <2> HIDE DEF u, v
    <2>1. PICK e \in Nat : v = u + e
      <3>1. v - u \in Nat /\ v = u + (v - u)
        BY <1>2
      <3> QED BY <3>1
    <2>2. r * v = r * u + r * e /\ r * e \in Nat /\ r * u \in Int
      BY <1>2, <2>1
    <2> QED BY <2>2
  <1>4. r * u = k * f /\ r * v = 2 * (r * t) /\ 2 * (6 * (R * R * R) * p) = k * g
    OBVIOUS
  <1>5. 2 * (r * t) <= 2 * (6 * (R * R * R) * p)
    <2> DEFINE h == r * t
               j == 6 * (R * R * R) * p
    <2>1. h \in Int /\ j \in Int /\ h <= j
      OBVIOUS
    <2> HIDE DEF h, j
    <2>2. 2 * h <= 2 * j
      BY <2>1
    <2> QED BY <2>2 DEF h, j
  <1>6. k * f <= k * g
    <2>1. r * u \in Int /\ r * v \in Int /\ k * g \in Int
      OBVIOUS
    <2> QED BY <1>3, <1>4, <1>5, <2>1
  <1> HIDE DEF k, f, g
  <1>7. ~ (g < f)
    <2>1. g < f => k * g < k * f
      <3>1. ASSUME g < f
            PROVE  k * g < k * f
        <4>1. PICK e \in Nat : f = g + 1 + e
          <5>1. f - g - 1 \in Nat /\ f = g + 1 + (f - g - 1)
            BY <1>2, <3>1
          <5> QED BY <5>1
        <4>2. k * f = k * g + k + k * e /\ k * e \in Nat /\ k * g \in Int
          BY <1>2, <4>1
        <4> QED BY <1>2, <4>2
      <3> QED BY <3>1
    <2>2. k * g \in Int /\ k * f \in Int
      BY <1>2
    <2> QED BY <1>6, <2>1, <2>2
  <1>8. f <= g
    BY <1>2, <1>7
  <1> QED BY <1>8 DEF f, g

\* MathUtils.calculateCompoundedInterest against the exact power, for one rate a
\* second and one number of seconds.
LEMMA Undercharges ==
    ASSUME NEW a \in Nat, NEW n \in Nat \ {0}
    PROVE  LET compounded == calculateCompoundedInterest(a * SECONDS_PER_YEAR, 0, n)
               rounding   == (n * (n - 1)) \div 4 + 1
                             + (n * (n - 1) * (n - 2) * (RAY + a)) \div (12 * RAY) + 1
           IN  /\ (compounded - rounding) * power(RAY, n) <= RAY * exactPower(a, n)
               /\ compounded >= RAY + a * n
  <1> DEFINE t2 == n * (n - 1)
             t3 == n * (n - 1) * (n - 2)
             m  == IF n > 2 THEN n - 2 ELSE 0
             b2 == rayMul(a, a)
             b3 == rayMul(b2, a)
             s2 == (t2 * b2) \div 2
             s3 == (t3 * b3) \div 6
             q2 == t2 \div 4
             u3 == t3 * (RAY + a)
             q3 == u3 \div (12 * RAY)
             C  == calculateCompoundedInterest(a * SECONDS_PER_YEAR, 0, n)
             rounding == q2 + 1 + q3 + 1
  <1>1. RAY \in Nat \ {0} /\ 12 * RAY \in Nat \ {0}
    BY RayAssumption
  <1>2. t2 \in Nat /\ t3 \in Nat /\ n * (n - 1) * m = t3
    BY FallingProducts
  <1>3. (a * SECONDS_PER_YEAR) \div SECONDS_PER_YEAR = a
    <2>1. /\ a * SECONDS_PER_YEAR \in Nat
          /\ SECONDS_PER_YEAR * a <= a * SECONDS_PER_YEAR
          /\ a * SECONDS_PER_YEAR < SECONDS_PER_YEAR * (a + 1)
      BY YearAssumption
    <2> QED BY <2>1, DivUnique, YearAssumption
  <1>4. C = RAY + a * n + s2 + s3
    <2>1. n - 0 = n /\ n # 0
      OBVIOUS
    <2>2. C = RAY + a * n + ((n * (n - 1) * b2) \div 2)
                + ((n * (n - 1) * m * b3) \div 6)
      BY <1>3, <2>1 DEF calculateCompoundedInterest
    <2> QED BY <1>2, <2>2
  <1>5. b2 \in Nat /\ 2 * b2 * RAY <= 2 * (a * a) + RAY
    BY RayMulAbove
  <1>6. b3 \in Nat /\ 2 * b3 * RAY <= 2 * b2 * a + RAY
    <2> HIDE DEF b2
    <2>1. b3 \in Nat /\ 2 * b3 * RAY <= 2 * (b2 * a) + RAY
      BY <1>5, RayMulAbove
    <2>2. 2 * (b2 * a) = 2 * b2 * a
      BY <1>5
    <2> QED BY <2>1, <2>2
  <1> HIDE DEF C, b2, b3, t2, t3
  <1>7. s2 \in Nat /\ 2 * s2 <= t2 * b2
    <2>1. t2 * b2 \in Nat
      BY <1>2, <1>5
    <2> QED BY <2>1, TruncatedTerm
  <1>8. s3 \in Nat /\ 6 * s3 <= t3 * b3
    <2>1. t3 * b3 \in Nat
      BY <1>2, <1>6
    <2> QED BY <2>1, TruncatedTerm
  <1>9. q2 \in Nat /\ t2 <= 4 * (q2 + 1)
    BY <1>2, TruncatedTerm
  <1>10. u3 \in Nat
    BY <1>1, <1>2
  <1> HIDE DEF u3
  <1>11. q3 \in Nat /\ u3 <= 12 * RAY * (q3 + 1)
    BY <1>1, <1>10, TruncatedTerm
  <1> HIDE DEF s2, s3, q2, q3
  <1> DEFINE r2 == q2 + 1
             r3 == q3 + 1
  <1>12. r2 \in Nat /\ r3 \in Nat /\ t2 <= 4 * r2 /\ t3 * (RAY + a) <= 12 * RAY * r3
    BY <1>9, <1>11 DEF u3
  <1> HIDE DEF r2, r3
  <1>13. 12 * (RAY * RAY) * s2 - 12 * (RAY * RAY) * r2 <= 6 * RAY * t2 * (a * a)
    BY <1>1, <1>2, <1>5, <1>7, <1>12, SecondTermRounds
  <1>14. 12 * (RAY * RAY) * s3 - 12 * (RAY * RAY) * r3 <= 2 * t3 * (a * a * a)
    BY <1>1, <1>2, <1>5, <1>6, <1>8, <1>12, ThirdTermRounds
  <1>15. 12 * (RAY * RAY) * ((RAY + a * n + s2 + s3) - (r2 + r3)) <= 2 * Terms(RAY, a, n)
    <2>1. t2 = n * (n - 1) /\ t3 = n * (n - 1) * (n - 2)
      BY DEF t2, t3
    <2> QED BY <1>1, <1>2, <1>7, <1>8, <1>12, <1>13, <1>14, <2>1, ScaledSum
  <1>16. rounding = r2 + r3
    BY <1>9, <1>11 DEF r2, r3
  <1> DEFINE r == power(RAY, n)
             p == power(RAY + a, n)
             d == C - rounding
  <1>17. /\ r \in Nat /\ p \in Nat /\ Terms(RAY, a, n) \in Int
         /\ r * Terms(RAY, a, n) <= 6 * (RAY * RAY * RAY) * p
    BY <1>1, TermsBelowPower, TermsAreInt
  <1>18. a * n \in Nat
    OBVIOUS
  <1>19. d \in Int /\ 12 * (RAY * RAY) * d <= 2 * Terms(RAY, a, n)
    <2>1. d \in Int
      BY <1>1, <1>4, <1>7, <1>8, <1>12, <1>16, <1>18
    <2> QED BY <1>4, <1>15, <1>16, <2>1
  <1> HIDE DEF d, r, p, rounding
  <1>20. d * r <= RAY * p
    BY <1>1, <1>17, <1>19, Unscaled
  <1>21. C >= RAY + a * n
    <2> DEFINE z == a * n
    <2> HIDE DEF z
    <2>1. RAY + z + s2 + s3 >= RAY + z
      BY <1>1, <1>7, <1>8, <1>18 DEF z
    <2> QED BY <1>4, <2>1 DEF z
  <1> QED BY <1>20, <1>21 DEF d, r, p, rounding, C, q2, q3, u3, t2, t3, exactPower

\* For every rate and every number of seconds, compounded interest is at most the
\* exact power, but for what its two rayMul add by rounding up, and at least simple
\* interest (MathUtils.calculateCompoundedInterest and its comment).
THEOREM AlwaysUndercharges == Spec => []CompoundingUndercharges
  <1>1. InRange => CompoundingUndercharges
    <2> SUFFICES ASSUME InRange, y > 0 PROVE CompoundingUndercharges
      BY DEF CompoundingUndercharges
    <2>1. x \in Nat /\ y \in Nat \ {0}
      BY WidthAssumption DEF InRange, Uint256
    <2> QED BY <2>1, Undercharges DEF CompoundingUndercharges
  <1> QED BY <1>1, AlwaysInRange, PTL
===============================================================================
