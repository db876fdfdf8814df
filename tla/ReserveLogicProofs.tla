-------------------------- MODULE ReserveLogicProofs --------------------------
(***************************************************************************)
(* Every function of a reserve keeps it sound: well typed, its indexes at  *)
(* least one RAY, its clocks ordered, its token supplies the sums of the   *)
(* balances.  One lemma per function, each with the parts of the reserve   *)
(* the function leaves alone.                                              *)
(***************************************************************************)
EXTENDS ReserveLogic, Functions, FiniteSetTheorems, TLAPS

(***************************************************************************)
(* Facts about the fixed-point operators, for every scale.  The lemmas on  *)
(* \div isolate the nonlinear arithmetic; everything above them is linear. *)
(***************************************************************************)
\* Integer division truncates: Solidity's `/` on unsigned operands.
LEMMA DivBounds ==
    ASSUME NEW n \in Nat, NEW d \in Nat \ {0}
    PROVE  /\ n \div d \in Nat
           /\ d * (n \div d) <= n
           /\ n < d * ((n \div d) + 1)
  OBVIOUS

\* Truncating division never reverses an order.
LEMMA DivMono ==
    ASSUME NEW m \in Nat, NEW n \in Nat, NEW d \in Nat \ {0}, m <= n
    PROVE  m \div d <= n \div d
  OBVIOUS

\* The quotient is the only number between the two bounds of DivBounds.
LEMMA DivUnique ==
    ASSUME NEW n \in Nat, NEW d \in Nat \ {0}, NEW q \in Nat,
           d * q <= n, n < d * (q + 1)
    PROVE  n \div d = q
  <1> DEFINE r == n \div d
  <1>1. r \in Nat /\ d * r <= n /\ n < d * (r + 1)
    BY DivBounds
  <1> HIDE DEF r
  <1>2. d * r < d * (q + 1) /\ d * q < d * (r + 1)
    BY <1>1
  <1>3. ASSUME NEW x \in Nat, NEW y \in Nat, d * x < d * y
        PROVE  x < y
    <2>1. x >= y => d * x >= d * y
      OBVIOUS
    <2> QED BY <2>1, <1>3
  <1>4. r < q + 1 /\ q < r + 1
    BY <1>1, <1>2, <1>3
  <1> QED BY <1>1, <1>4 DEF r

\* Nonnegative products and their order.
LEMMA MulMono ==
    ASSUME NEW a \in Nat, NEW b \in Nat, NEW c \in Nat, a <= b
    PROVE  a * c \in Nat /\ b * c \in Nat /\ a * c <= b * c /\ c * a <= c * b
  OBVIOUS

\* A smaller product by the same positive number has a smaller factor.
LEMMA CancelLess ==
    ASSUME NEW k \in Nat \ {0}, NEW a \in Int, NEW b \in Int, k * a < k * b
    PROVE  a < b
  <1>1. a >= b => k * a >= k * b
    <2>1. ASSUME a >= b
          PROVE  k * a >= k * b
      <3>1. PICK e \in Nat : a = b + e
        <4>1. a - b \in Nat /\ a = b + (a - b)
          BY <2>1
        <4> QED BY <4>1
      <3>2. k * a = k * b + k * e /\ k * e \in Nat
        BY <3>1
      <3> QED BY <3>2
    <2> QED BY <2>1
  <1> QED BY <1>1

\* Half a RAY is exact, so rayMul rounds to the nearest unit.
LEMMA HalfRay == halfRAY \in Nat /\ 2 * halfRAY = RAY /\ halfRAY < RAY
  BY RayAssumption DEF halfRAY

\* WadRayMath.rayMul returns a natural number, 0 for a zero operand.
LEMMA RayMulNat ==
    ASSUME NEW a \in Nat, NEW b \in Nat
    PROVE  rayMul(a, b) \in Nat
  <1>1. a * b + halfRAY \in Nat
    BY HalfRay
  <1> QED BY <1>1, DivBounds, RayAssumption DEF rayMul

\* WadRayMath.rayDiv, past its require(b != 0), returns a natural number.
LEMMA RayDivNat ==
    ASSUME NEW a \in Nat, NEW b \in Nat \ {0}
    PROVE  rayDiv(a, b) \in Nat
  <1>1. a * RAY + (b \div 2) \in Nat
    BY RayAssumption
  <1> QED BY <1>1, DivBounds DEF rayDiv

\* PercentageMath.percentMul returns a natural number.
LEMMA PercentMulNat ==
    ASSUME NEW a \in Nat, NEW b \in Nat
    PROVE  percentMul(a, b) \in Nat
  <1>1. a * b + HALF_PERCENT \in Nat
    BY PercentageAssumption DEF HALF_PERCENT
  <1> QED BY <1>1, DivBounds, PercentageAssumption DEF percentMul

\* WadRayMath.wadToRay returns a natural number, and 0 only for 0.
LEMMA WadToRayNat ==
    ASSUME NEW a \in Nat
    PROVE  wadToRay(a) \in Nat /\ (a # 0 => wadToRay(a) # 0)
  BY RatioAssumption DEF wadToRay

\* rayMul never reverses the order of its operands: a larger index never makes
\* a scaled balance worth less.
THEOREM RayMulMonotone ==
    ASSUME NEW a \in Nat, NEW b \in Nat, NEW c \in Nat, a <= b
    PROVE  rayMul(a, c) <= rayMul(b, c) /\ rayMul(c, a) <= rayMul(c, b)
  <1>1. /\ a * c + halfRAY \in Nat /\ b * c + halfRAY \in Nat
        /\ a * c + halfRAY <= b * c + halfRAY
        /\ c * a = a * c /\ c * b = b * c
    BY MulMono, HalfRay
  <1>2. (a * c + halfRAY) \div RAY <= (b * c + halfRAY) \div RAY
    BY <1>1, DivMono, RayAssumption
  <1> QED BY <1>1, <1>2 DEF rayMul

\* rayDiv never reverses the order of the amounts being scaled down.
LEMMA RayDivMonotone ==
    ASSUME NEW a \in Nat, NEW b \in Nat, NEW c \in Nat \ {0}, a <= b
    PROVE  rayDiv(a, c) <= rayDiv(b, c)
  <1>1. /\ a * RAY + (c \div 2) \in Nat /\ b * RAY + (c \div 2) \in Nat
        /\ a * RAY + (c \div 2) <= b * RAY + (c \div 2)
    BY MulMono, RayAssumption, DivBounds
  <1> QED BY <1>1, DivMono DEF rayDiv

\* Multiplying by at least one RAY never shrinks: what makes an index grow when
\* ReserveLogic._updateIndexes multiplies it by an accrued interest.
THEOREM RayMulGrows ==
    ASSUME NEW x \in Nat, NEW i \in Nat, x >= RAY
    PROVE  rayMul(x, i) >= i /\ rayMul(i, x) >= i
  <1>1. /\ x * i \in Nat /\ i * x = x * i /\ RAY * i \in Nat /\ RAY * i <= x * i
    BY MulMono, RayAssumption
  <1>2. (RAY * i) \div RAY = i
    <2>1. RAY * i < RAY * (i + 1)
      BY RayAssumption
    <2> QED BY <1>1, <2>1, DivUnique, RayAssumption
  <1>3. (RAY * i) \div RAY <= (x * i + halfRAY) \div RAY
    BY <1>1, HalfRay, DivMono, RayAssumption
  <1> QED BY <1>1, <1>2, <1>3 DEF rayMul

\* One RAY is neutral: a balance read at an index of 1.0 is the scaled balance.
LEMMA RayMulOne ==
    ASSUME NEW s \in Nat
    PROVE  rayMul(s, RAY) = s
  <1>1. s * RAY + halfRAY \in Nat /\ RAY * s <= s * RAY + halfRAY
    BY HalfRay, RayAssumption
  <1>2. s * RAY + halfRAY < RAY * (s + 1)
    BY HalfRay, RayAssumption
  <1> QED BY <1>1, <1>2, DivUnique, RayAssumption DEF rayMul

\* The round trip every full repayment takes: a debt of s scaled units is read
\* as rayMul(s, i) and burned as rayDiv(that, i).  With an index of at least one
\* RAY nothing is left over and nothing too much is burned, at any scale.
THEOREM ScaledRoundTrip ==
    ASSUME NEW s \in Nat, NEW i \in Nat, i >= RAY
    PROVE  rayDiv(rayMul(s, i), i) = s
  <1> DEFINE v == rayMul(s, i)
             h == i \div 2
             si == s * i
             vr == v * RAY
  <1>0. i \in Nat \ {0} /\ si \in Nat /\ RAY \in Nat \ {0}
    BY RayAssumption
  <1>1. v \in Nat /\ vr \in Nat
    BY RayMulNat, RayAssumption
  <1>2. vr <= si + halfRAY /\ si + halfRAY < vr + RAY
    <2>1. si + halfRAY \in Nat
      BY <1>0, HalfRay
    <2>2. RAY * ((si + halfRAY) \div RAY) <= si + halfRAY
          /\ si + halfRAY < RAY * (((si + halfRAY) \div RAY) + 1)
      BY <2>1, <1>0, DivBounds
    <2>3. v = (si + halfRAY) \div RAY
      BY DEF rayMul
    <2>4. RAY * v = vr /\ RAY * (v + 1) = vr + RAY
      BY <1>1, <1>0
    <2> HIDE DEF v, vr, si
    <2> QED BY <2>2, <2>3, <2>4
  <1>3. h \in Nat /\ halfRAY <= h /\ 2 * h <= i /\ i <= 2 * h + 1
    BY RayAssumption DEF halfRAY
  <1>4. i * s = si /\ i * (s + 1) = si + i
    BY <1>0
  <1>5. CASE i = RAY
    <2>1. v = s
      BY <1>5, RayMulOne
    <2>2. vr = si
      BY <2>1, <1>5
    <2>3. i * s <= vr + h /\ vr + h < i * (s + 1) /\ vr + h \in Nat
      <3> HIDE DEF v, vr, si, h
      <3> QED BY <2>2, <1>0, <1>1, <1>3, <1>4
    <2> QED BY <2>3, <1>0, DivUnique DEF rayDiv
  <1>6. CASE i # RAY
    <2>1. i * s <= vr + h /\ vr + h < i * (s + 1) /\ vr + h \in Nat
      <3> HIDE DEF v, vr, si, h
      <3> QED BY <1>0, <1>1, <1>2, <1>3, <1>4, <1>6, HalfRay
    <2> QED BY <2>1, <1>0, DivUnique DEF rayDiv
  <1> QED BY <1>5, <1>6

\* MathUtils.calculateLinearInterest is at least one RAY for a time that is not
\* in the past.
LEMMA LinearInterestGrows ==
    ASSUME NEW rate \in Nat, NEW l \in Nat, NEW t \in Nat, l <= t
    PROVE  /\ calculateLinearInterest(rate, l, t) \in Nat
           /\ calculateLinearInterest(rate, l, t) >= RAY
  <1>1. rate * (t - l) \in Nat
    OBVIOUS
  <1>2. (rate * (t - l)) \div SECONDS_PER_YEAR \in Nat
    BY <1>1, DivBounds, YearAssumption
  <1> QED BY <1>2, RayAssumption DEF calculateLinearInterest

\* MathUtils.calculateCompoundedInterest likewise.
LEMMA CompoundedInterestGrows ==
    ASSUME NEW rate \in Nat, NEW l \in Nat, NEW t \in Nat, l <= t
    PROVE  /\ calculateCompoundedInterest(rate, l, t) \in Nat
           /\ calculateCompoundedInterest(rate, l, t) >= RAY
  <1> DEFINE e == t - l
             p == rate \div SECONDS_PER_YEAR
             two == rayMul(p, p)
             three == rayMul(two, p)
             m == IF e > 2 THEN e - 2 ELSE 0
  <1>1. e \in Nat /\ m \in Nat
    OBVIOUS
  <1>2. p \in Nat
    BY DivBounds, YearAssumption
  <1>3. two \in Nat /\ three \in Nat
    BY <1>2, RayMulNat
  <1>4. CASE e = 0
    BY <1>4, RayAssumption DEF calculateCompoundedInterest
  <1>5. CASE e # 0
    <2> DEFINE x == e * (e - 1) * two
               y == e * (e - 1) * m * three
    <2> HIDE DEF e, p, two, three, m
    <2>1. e - 1 \in Nat
      BY <1>1, <1>5
    <2>2. e * (e - 1) \in Nat
      BY <1>1, <2>1
    <2>3. x \in Nat
      BY <2>2, <1>3
    <2>4. e * (e - 1) * m \in Nat
      BY <2>2, <1>1
    <2>5. y \in Nat
      BY <2>4, <1>3
    <2>6. x \div 2 \in Nat /\ y \div 6 \in Nat
      BY <2>3, <2>5, DivBounds
    <2>7. p * e \in Nat
      BY <1>1, <1>2
    <2>8. calculateCompoundedInterest(rate, l, t)
            = RAY + p * e + (x \div 2) + (y \div 6)
      BY <1>5 DEF calculateCompoundedInterest, e, p, two, three, m
    <2> HIDE DEF x, y
    <2> QED BY <2>6, <2>7, <2>8, RayAssumption
  <1> QED BY <1>4, <1>5

\* Two products of ordered factors.
LEMMA MulMono2 ==
    ASSUME NEW a \in Nat, NEW b \in Nat, NEW c \in Nat, NEW d \in Nat, a <= b, c <= d
    PROVE  a * c \in Nat /\ b * d \in Nat /\ a * c <= b * d
  <1>1. a * c \in Nat /\ b * c \in Nat /\ a * c <= b * c
    BY MulMono
  <1>2. b * d \in Nat /\ b * c <= b * d
    BY MulMono
  <1> QED BY <1>1, <1>2

\* Compounded interest only grows with time: debt never shrinks by waiting.
THEOREM CompoundedInterestMonotone ==
    ASSUME NEW rate \in Nat, NEW l \in Nat, NEW t1 \in Nat, NEW t2 \in Nat,
           l <= t1, t1 <= t2
    PROVE  calculateCompoundedInterest(rate, l, t1) <= calculateCompoundedInterest(rate, l, t2)
  <1> DEFINE e1 == t1 - l
             e2 == t2 - l
             m1 == IF e1 > 2 THEN e1 - 2 ELSE 0
             m2 == IF e2 > 2 THEN e2 - 2 ELSE 0
             p == rate \div SECONDS_PER_YEAR
             two == rayMul(p, p)
             three == rayMul(two, p)
  <1>1. /\ e1 \in Nat /\ e2 \in Nat /\ e1 <= e2
        /\ m1 \in Nat /\ m2 \in Nat /\ m1 <= m2
    OBVIOUS
  <1>2. p \in Nat
    BY DivBounds, YearAssumption
  <1>3. two \in Nat /\ three \in Nat
    BY <1>2, RayMulNat
  <1>4. CASE e1 = 0
    <2>1. calculateCompoundedInterest(rate, l, t1) = RAY
      BY <1>4 DEF calculateCompoundedInterest
    <2> QED BY <2>1, CompoundedInterestGrows
  <1>5. CASE e1 # 0
    <2> DEFINE a1 == e1 * (e1 - 1)
               a2 == e2 * (e2 - 1)
               b1 == a1 * m1
               b2 == a2 * m2
               x1 == a1 * two
               x2 == a2 * two
               y1 == b1 * three
               y2 == b2 * three
    <2>1. calculateCompoundedInterest(rate, l, t1)
            = RAY + p * e1 + (x1 \div 2) + (y1 \div 6)
      BY <1>5 DEF calculateCompoundedInterest
    <2>2. calculateCompoundedInterest(rate, l, t2)
            = RAY + p * e2 + (x2 \div 2) + (y2 \div 6)
      BY <1>1, <1>5 DEF calculateCompoundedInterest
    <2> HIDE DEF e1, e2, m1, m2, p, two, three
    <2>3. e1 - 1 \in Nat /\ e2 - 1 \in Nat /\ e1 - 1 <= e2 - 1
      BY <1>1, <1>5
    <2>4. a1 \in Nat /\ a2 \in Nat /\ a1 <= a2
      BY <1>1, <2>3, MulMono2
    <2> HIDE DEF a1, a2
    <2>5. b1 \in Nat /\ b2 \in Nat /\ b1 <= b2
      BY <1>1, <2>4, MulMono2
    <2>6. x1 \in Nat /\ x2 \in Nat /\ x1 <= x2
      BY <1>3, <2>4, MulMono
    <2> HIDE DEF b1, b2
    <2>7. y1 \in Nat /\ y2 \in Nat /\ y1 <= y2
      BY <1>3, <2>5, MulMono
    <2> HIDE DEF x1, x2, y1, y2
    <2>8. x1 \div 2 <= x2 \div 2 /\ x1 \div 2 \in Nat /\ x2 \div 2 \in Nat
      BY <2>6, DivMono, DivBounds
    <2>9. y1 \div 6 <= y2 \div 6 /\ y1 \div 6 \in Nat /\ y2 \div 6 \in Nat
      BY <2>7, DivMono, DivBounds
    <2>10. p * e1 <= p * e2 /\ p * e1 \in Nat /\ p * e2 \in Nat
      BY <1>1, <1>2, MulMono2
    <2> QED BY <2>1, <2>2, <2>8, <2>9, <2>10, RayAssumption
  <1> QED BY <1>4, <1>5

-------------------------------------------------------------------------------
(***************************************************************************)
(* How far a mint or a burn of a scaled token is from the amount it is     *)
(* for: the amount is divided by the index and rounded, the balance is     *)
(* multiplied by it and rounded again.                                     *)
(***************************************************************************)
\* The quotients below, multiplied back.
LEMMA RayMulBounds ==
    ASSUME NEW a \in Nat, NEW b \in Nat
    PROVE  /\ rayMul(a, b) * RAY <= a * b + halfRAY
           /\ a * b + halfRAY < rayMul(a, b) * RAY + RAY
  <1> DEFINE n == a * b + halfRAY
             q == n \div RAY
  <1>1. n \in Nat /\ RAY \in Nat \ {0}
    BY HalfRay, RayAssumption
  <1>2. q \in Nat /\ RAY * q <= n /\ n < RAY * (q + 1)
    BY <1>1, DivBounds
  <1> HIDE DEF n, q
  <1>3. RAY * q = q * RAY /\ RAY * (q + 1) = q * RAY + RAY
    BY <1>1, <1>2
  <1>4. q * RAY <= n /\ n < q * RAY + RAY
    BY <1>2, <1>3
  <1> QED BY <1>4 DEF n, q, rayMul

LEMMA RayDivBounds ==
    ASSUME NEW a \in Nat, NEW b \in Nat \ {0}
    PROVE  /\ rayDiv(a, b) * b <= a * RAY + b \div 2
           /\ a * RAY + b \div 2 < rayDiv(a, b) * b + b
  <1> DEFINE n == a * RAY + b \div 2
             q == n \div b
  <1>1. n \in Nat
    BY RayAssumption
  <1>2. q \in Nat /\ b * q <= n /\ n < b * (q + 1)
    BY <1>1, DivBounds
  <1> HIDE DEF n, q
  <1>3. b * q = q * b /\ b * (q + 1) = q * b + b
    BY <1>2
  <1>4. q * b <= n /\ n < q * b + b
    BY <1>2, <1>3
  <1> QED BY <1>4 DEF n, q, rayDiv

\* A multiple of RAY below one RAY is not positive.
LEMMA BelowOneRay ==
    ASSUME NEW z \in Int, z * RAY < RAY
    PROVE  z <= 0
  <1>1. RAY \in Nat \ {0}
    BY RayAssumption
  <1>2. z >= 1 => z * RAY >= RAY
    BY <1>1
  <1> QED BY <1>1, <1>2

\* A mint of x at the index i raises the balance of a holder of e scaled units by x,
\* up to one scaled unit and a rounding unit.
LEMMA MintRounds ==
    ASSUME NEW e \in Nat, NEW x \in Nat, NEW i \in Nat \ {0}
    PROVE  /\ rayMul(e + rayDiv(x, i), i) - rayMul(e, i) - x <= rayMul(1, i) + 1
           /\ x - (rayMul(e + rayDiv(x, i), i) - rayMul(e, i)) <= rayMul(1, i) + 1
  <1> DEFINE s == rayDiv(x, i)
             q0 == rayMul(e, i)
             q1 == rayMul(e + s, i)
             b == rayMul(1, i)
             k == i \div 2
             up == q1 - q0 - x - (b + 1)
             down == x - (q1 - q0) - (b + 1)
  <1>1. /\ s \in Nat /\ q0 \in Nat /\ q1 \in Nat /\ b \in Nat
        /\ RAY \in Nat \ {0} /\ halfRAY \in Nat /\ e + s \in Nat
    <2>1. s \in Nat
      BY RayDivNat
    <2> HIDE DEF s
    <2>2. e + s \in Nat
      BY <2>1
    <2>3. q0 \in Nat /\ q1 \in Nat /\ b \in Nat
      BY <2>2, RayMulNat
    <2> QED BY <2>1, <2>2, <2>3, HalfRay, RayAssumption
  <1>2. /\ q0 * RAY <= e * i + halfRAY /\ e * i + halfRAY < q0 * RAY + RAY
        /\ q1 * RAY <= (e + s) * i + halfRAY /\ (e + s) * i + halfRAY < q1 * RAY + RAY
        /\ b * RAY <= 1 * i + halfRAY /\ 1 * i + halfRAY < b * RAY + RAY
    <2> HIDE DEF s
    <2>1. q0 * RAY <= e * i + halfRAY /\ e * i + halfRAY < q0 * RAY + RAY
      BY RayMulBounds
    <2>2. q1 * RAY <= (e + s) * i + halfRAY /\ (e + s) * i + halfRAY < q1 * RAY + RAY
      BY <1>1, RayMulBounds
    <2>3. b * RAY <= 1 * i + halfRAY /\ 1 * i + halfRAY < b * RAY + RAY
      BY RayMulBounds
    <2> QED BY <2>1, <2>2, <2>3
  <1>3. s * i <= x * RAY + k /\ x * RAY + k < s * i + i
    BY RayDivBounds
  <1>4. k \in Nat /\ 2 * k <= i /\ i <= 2 * k + 1
    OBVIOUS
  <1> HIDE DEF s, q0, q1, b, k
  <1>5. (e + s) * i = e * i + s * i
    BY <1>1
  <1>6. /\ up \in Int /\ up * RAY = q1 * RAY - q0 * RAY - x * RAY - b * RAY - RAY
        /\ down \in Int /\ down * RAY = x * RAY - q1 * RAY + q0 * RAY - b * RAY - RAY
    BY <1>1
  <1>7. PICK ei \in Nat, si \in Nat, xr \in Nat, r0 \in Nat, r1 \in Nat, rb \in Nat :
          /\ ei = e * i /\ si = s * i /\ xr = x * RAY
          /\ r0 = q0 * RAY /\ r1 = q1 * RAY /\ rb = b * RAY
    BY <1>1
  <1> HIDE DEF up, down
  <1>8. up * RAY < RAY /\ down * RAY < RAY
    BY <1>1, <1>2, <1>3, <1>4, <1>5, <1>6, <1>7
  <1>9. up <= 0 /\ down <= 0
    BY <1>6, <1>8, BelowOneRay
  <1>10. q1 - q0 - x <= b + 1 /\ x - (q1 - q0) <= b + 1
    BY <1>1, <1>9 DEF up, down
  <1> QED BY <1>10 DEF s, q0, q1, b

\* A burn, from a holder of e scaled units.
LEMMA BurnRounds ==
    ASSUME NEW e \in Nat, NEW x \in Nat, NEW i \in Nat \ {0}, rayDiv(x, i) <= e
    PROVE  /\ rayMul(e, i) - rayMul(e - rayDiv(x, i), i) - x <= rayMul(1, i) + 1
           /\ x - (rayMul(e, i) - rayMul(e - rayDiv(x, i), i)) <= rayMul(1, i) + 1
  <1> DEFINE s == rayDiv(x, i)
             rest == e - s
  <1>1. s \in Nat
    BY RayDivNat
  <1>2. rest \in Nat /\ rest + s = e
    BY <1>1
  <1> HIDE DEF rest
  <1>3. /\ rayMul(rest + s, i) - rayMul(rest, i) - x <= rayMul(1, i) + 1
        /\ x - (rayMul(rest + s, i) - rayMul(rest, i)) <= rayMul(1, i) + 1
    BY <1>2, MintRounds
  <1> QED BY <1>2, <1>3 DEF rest

\* s scaled units that move from a holder of e to a holder of f are worth the same to
\* both, up to a rounding unit.
LEMMA MoveRounds ==
    ASSUME NEW e \in Nat, NEW f \in Nat, NEW s \in Nat, NEW i \in Nat, s <= e
    PROVE  /\ (rayMul(e - s, i) - rayMul(e, i)) + (rayMul(f + s, i) - rayMul(f, i)) <= 1
           /\ (rayMul(e, i) - rayMul(e - s, i)) + (rayMul(f, i) - rayMul(f + s, i)) <= 1
  <1> DEFINE e0 == rayMul(e, i)
             e1 == rayMul(e - s, i)
             f0 == rayMul(f, i)
             f1 == rayMul(f + s, i)
             up == (e1 - e0) + (f1 - f0) - 1
             down == (e0 - e1) + (f0 - f1) - 1
  <1>1. /\ e - s \in Nat /\ f + s \in Nat
        /\ e0 \in Nat /\ e1 \in Nat /\ f0 \in Nat /\ f1 \in Nat
        /\ RAY \in Nat \ {0} /\ halfRAY \in Nat
    <2>1. e - s \in Nat /\ f + s \in Nat
      OBVIOUS
    <2>2. e0 \in Nat /\ e1 \in Nat /\ f0 \in Nat /\ f1 \in Nat
      BY <2>1, RayMulNat
    <2> QED BY <2>1, <2>2, HalfRay, RayAssumption
  <1>2. /\ e0 * RAY <= e * i + halfRAY /\ e * i + halfRAY < e0 * RAY + RAY
        /\ e1 * RAY <= (e - s) * i + halfRAY /\ (e - s) * i + halfRAY < e1 * RAY + RAY
        /\ f0 * RAY <= f * i + halfRAY /\ f * i + halfRAY < f0 * RAY + RAY
        /\ f1 * RAY <= (f + s) * i + halfRAY /\ (f + s) * i + halfRAY < f1 * RAY + RAY
    BY <1>1, RayMulBounds
  <1> HIDE DEF e0, e1, f0, f1
  <1>3. (e - s) * i = e * i - s * i /\ (f + s) * i = f * i + s * i
    OBVIOUS
  <1>4. /\ up \in Int /\ up * RAY = e1 * RAY - e0 * RAY + f1 * RAY - f0 * RAY - RAY
        /\ down \in Int /\ down * RAY = e0 * RAY - e1 * RAY + f0 * RAY - f1 * RAY - RAY
    BY <1>1
  <1>5. PICK ei \in Nat, fi \in Nat, si \in Nat, r0 \in Nat, r1 \in Nat,
             t0 \in Nat, t1 \in Nat :
          /\ ei = e * i /\ fi = f * i /\ si = s * i
          /\ r0 = e0 * RAY /\ r1 = e1 * RAY /\ t0 = f0 * RAY /\ t1 = f1 * RAY
    BY <1>1
  <1> HIDE DEF up, down
  <1>6. up * RAY < RAY /\ down * RAY < RAY
    BY <1>1, <1>2, <1>3, <1>4, <1>5
  <1>7. up <= 0 /\ down <= 0
    BY <1>4, <1>6, BelowOneRay
  <1>8. (e1 - e0) + (f1 - f0) <= 1 /\ (e0 - e1) + (f0 - f1) <= 1
    BY <1>1, <1>7 DEF up, down
  <1> QED BY <1>8 DEF e0, e1, f0, f1

-------------------------------------------------------------------------------
(***************************************************************************)
(* The reserve.                                                            *)
(***************************************************************************)

\* Of the elToken and the variable debt token, totalSupply is the sum of the
\* balances.
SuppliesSummed(m) ==
    m.elSupply = SumFunction(m.el) /\ m.varSupply = SumFunction(m.varDebt)

\* What every function of a reserve may rely on and must restore.
Sound(m, t) ==
    m \in Market /\ IndexesStarted(m) /\ ClocksOrdered(m, t) /\ SuppliesSummed(m)

\* Fields of m1 and m2 that describe debts are the same.
SameDebt(m1, m2) ==
    /\ m2.varSupply = m1.varSupply /\ m2.varDebt = m1.varDebt
    /\ m2.stSupply = m1.stSupply /\ m2.stAvgRate = m1.stAvgRate
    /\ m2.stTimestamp = m1.stTimestamp
    /\ m2.stDebt = m1.stDebt /\ m2.stRate = m1.stRate /\ m2.stTime = m1.stTime

SameIndexes(m1, m2) ==
    /\ m2.liquidityIndex = m1.liquidityIndex
    /\ m2.variableBorrowIndex = m1.variableBorrowIndex
    /\ m2.lastUpdateTimestamp = m1.lastUpdateTimestamp

\* A change to elTokens, treasury or cash: sound, and nothing owed changes.
ElFrame(m, r, t) == Sound(r, t) /\ SameDebt(m, r) /\ SameIndexes(m, r)

\* A change to variable debt.
VarFrame(m, r, t) ==
    /\ Sound(r, t) /\ SameIndexes(m, r) /\ r.cash = m.cash
    /\ r.stDebt = m.stDebt /\ r.stRate = m.stRate /\ r.stTime = m.stTime

\* A change to stable debt.
StFrame(m, r, t) ==
    /\ Sound(r, t) /\ SameIndexes(m, r) /\ r.cash = m.cash
    /\ r.varDebt = m.varDebt /\ r.varSupply = m.varSupply

-------------------------------------------------------------------------------
(***************************************************************************)
(* The sum of a function over its finite domain, as the module Functions   *)
(* computes it: by recursion over the subsets of the domain.  The          *)
(* recursion has a solution, and changing one value changes the sum by as  *)
(* much.  Induction is over the finite subsets: of those for which a claim *)
(* fails, one with the fewest elements.                                    *)
(***************************************************************************)
\* The element the recursion takes out of a set.
Chosen(s) == CHOOSE x \in s : TRUE

\* What the recursion says of the subset s.
Adds(f, g, s) == g[s] = IF s = {} THEN 0 ELSE f[Chosen(s)] + g[s \ {Chosen(s)}]

\* The recursive function behind SumFunction.
PartialSums(f, S) ==
    CHOOSE g : g = [s \in SUBSET S |->
                      IF s = {} THEN 0 ELSE f[Chosen(s)] + g[s \ {Chosen(s)}]]

\* SumFunction is the last of the partial sums.
LEMMA SumIsPartialSum ==
    ASSUME NEW S, NEW f, S = DOMAIN f
    PROVE  SumFunction(f) = PartialSums(f, S)[S]
  BY DEF SumFunction, SumFunctionOnSet, FoldFunctionOnSet, MapThenFoldSet, PartialSums, Chosen

\* A family of subsets of a finite set has a least member.
LEMMA LeastSubset ==
    ASSUME NEW S, IsFiniteSet(S), NEW T, T \subseteq SUBSET S, T # {}
    PROVE  \E s \in T : \A r \in T : r \subseteq s => r = s
  <1>1. T \subseteq FiniteSubsetsOf(S)
    BY FS_FiniteSubsetsOfFinite
  <1>2. IsWellFoundedOn(StrictSubsetOrdering(S), FiniteSubsetsOf(S))
    BY FS_StrictSubsetOrderingWellFounded
  <1>3. PICK s \in T : \A r \in T : ~ (<<r, s>> \in StrictSubsetOrdering(S))
    BY <1>1, <1>2, WFMin
  <1> QED BY <1>3 DEF StrictSubsetOrdering

\* A solution of the recursion on a family of subsets that is closed under subsets.
Family(F, S) == F \subseteq SUBSET S /\ \A s \in F : SUBSET s \subseteq F

Solves(f, g, F) == g \in [F -> Int] /\ \A s \in F : Adds(f, g, s)

\* The element taken out was in the set.
LEMMA ChosenElement ==
    ASSUME NEW s, s # {}
    PROVE  Chosen(s) \in s
  BY DEF Chosen

\* One more subset can be added to a family that has all its strict subsets.
LEMMA SolveOneMore ==
    ASSUME NEW S, NEW f \in [S -> Int], NEW F, Family(F, S), NEW g, Solves(f, g, F),
           NEW s \in SUBSET S, s \notin F, (SUBSET s) \ {s} \subseteq F
    PROVE  Family(F \cup {s}, S) /\ \E h : Solves(f, h, F \cup {s})
  <1> DEFINE c == Chosen(s)
             v == IF s = {} THEN 0 ELSE f[c] + g[s \ {c}]
             h == [r \in F \cup {s} |-> IF r = s THEN v ELSE g[r]]
  <1>1. Family(F \cup {s}, S)
    BY DEF Family
  <1>2. v \in Int
    <2>1. CASE s = {}
      BY <2>1
    <2>2. CASE s # {}
      <3>1. c \in s
        BY <2>2, ChosenElement
      <3>2. s \ {c} \in F
        BY <3>1
      <3> QED BY <2>2, <3>1, <3>2 DEF Solves
    <2> QED BY <2>1, <2>2
  <1>3. h \in [F \cup {s} -> Int]
    BY <1>2 DEF Solves
  <1>4. ASSUME NEW r \in F \cup {s}
        PROVE  Adds(f, h, r)
    <2>1. r # {} => Chosen(r) \in r
      BY ChosenElement
    <2>2. CASE r = s
      <3>1. s # {} => s \ {c} \in F /\ s \ {c} # s
        BY <2>1, <2>2
      <3> QED BY <2>2, <3>1 DEF Adds
    <2>3. CASE r # s
      <3>1. r \in F /\ Adds(f, g, r)
        BY <2>3 DEF Solves
      <3>2. r # {} => r \ {Chosen(r)} \in F /\ r \ {Chosen(r)} # s
        <4>1. r \ {Chosen(r)} \in SUBSET r
          OBVIOUS
        <4> QED BY <3>1, <4>1 DEF Family
      <3>3. h[r] = g[r] /\ (r # {} => h[r \ {Chosen(r)}] = g[r \ {Chosen(r)}])
        BY <2>3, <3>1, <3>2
      <3> QED BY <3>1, <3>3 DEF Adds
    <2> QED BY <2>2, <2>3
  <1> QED BY <1>1, <1>3, <1>4 DEF Solves

\* So the recursion has a solution: of the families that have one, take one that
\* misses least; the least subset it misses could be added.
LEMMA SolutionExists ==
    ASSUME NEW S, IsFiniteSet(S), NEW f \in [S -> Int]
    PROVE  \E g : Solves(f, g, SUBSET S)
  <1> DEFINE Rest(D) == (SUBSET S) \ D
             Missing == {D \in SUBSET (SUBSET S) :
                           Family(Rest(D), S) /\ \E g : Solves(f, g, Rest(D))}
  <1>1. IsFiniteSet(SUBSET S)
    BY FS_SUBSET
  <1>2. SUBSET S \in Missing
    <2>1. Solves(f, [x \in {} |-> 0], {})
      BY DEF Solves
    <2>2. Rest(SUBSET S) = {} /\ Family({}, S)
      BY DEF Family
    <2> HIDE DEF Rest
    <2> QED BY <2>1, <2>2
  <1>3. PICK D \in Missing : \A C \in Missing : C \subseteq D => C = D
    <2>1. Missing \subseteq SUBSET (SUBSET S) /\ Missing # {}
      BY <1>2
    <2> HIDE DEF Missing
    <2> QED BY <1>1, <2>1, LeastSubset
  <1>4. PICK g : Solves(f, g, Rest(D))
    OBVIOUS
  <1>5. CASE D # {}
    <2>1. PICK s \in D : \A r \in D : r \subseteq s => r = s
      BY <1>5, LeastSubset
    <2>2. s \in SUBSET S /\ s \notin Rest(D) /\ (SUBSET s) \ {s} \subseteq Rest(D)
      BY <2>1
    <2>3. Rest(D) \cup {s} = Rest(D \ {s})
      BY <2>2
    <2>4. Family(Rest(D), S)
      OBVIOUS
    <2> HIDE DEF Rest
    <2>5. Family(Rest(D) \cup {s}, S) /\ \E h : Solves(f, h, Rest(D) \cup {s})
      BY <1>4, <2>2, <2>4, SolveOneMore
    <2>6. D \ {s} \in Missing
      BY <2>3, <2>5
    <2> QED BY <1>3, <2>1, <2>6
  <1>6. CASE D = {}
    <2>1. Rest(D) = SUBSET S
      BY <1>6
    <2> QED BY <1>4, <2>1
  <1> QED BY <1>5, <1>6

\* The partial sums are that solution: there is no other.
LEMMA PartialSumsSolve ==
    ASSUME NEW S, IsFiniteSet(S), NEW f \in [S -> Int]
    PROVE  Solves(f, PartialSums(f, S), SUBSET S)
  <1> DEFINE Is(g) == g = [s \in SUBSET S |->
                             IF s = {} THEN 0 ELSE f[Chosen(s)] + g[s \ {Chosen(s)}]]
  <1>1. PICK g : Solves(f, g, SUBSET S)
    BY SolutionExists
  <1>2. Is(g)
    BY <1>1 DEF Solves, Adds
  <1>3. Is(PartialSums(f, S))
    BY <1>2 DEF PartialSums
  <1> DEFINE p == PartialSums(f, S)
  <1> HIDE DEF p
  <1>4. \A s \in SUBSET S : Adds(f, p, s)
    BY <1>3 DEF p, Adds
  <1>5. \A s \in SUBSET S : p[s] = g[s]
    <2> DEFINE Bad == {s \in SUBSET S : p[s] # g[s]}
    <2>1. CASE Bad # {}
      <3>1. PICK s \in Bad : \A r \in Bad : r \subseteq s => r = s
        <4>1. Bad \subseteq SUBSET S
          OBVIOUS
        <4> HIDE DEF Bad
        <4> QED BY <2>1, <4>1, LeastSubset
      <3>2. CASE s = {}
        BY <1>1, <1>4, <3>2 DEF Solves, Adds
      <3>3. CASE s # {}
        <4>1. Chosen(s) \in s
          BY <3>3, ChosenElement
        <4>2. s \ {Chosen(s)} \notin Bad /\ s \ {Chosen(s)} \in SUBSET S
          BY <3>1, <4>1
        <4>3. p[s \ {Chosen(s)}] = g[s \ {Chosen(s)}]
          BY <4>2
        <4> QED BY <1>1, <1>4, <3>1, <3>3, <4>3 DEF Solves, Adds
      <3> QED BY <3>2, <3>3
    <2> QED BY <2>1
  <1>6. p = [s \in SUBSET S |-> p[s]]
    BY <1>3 DEF p
  <1>7. p \in [SUBSET S -> Int]
    BY <1>1, <1>5, <1>6 DEF Solves
  <1> QED BY <1>4, <1>7 DEF p, Solves

\* A sum of integers is one.
LEMMA SumInt ==
    ASSUME NEW S, IsFiniteSet(S), NEW f \in [S -> Int]
    PROVE  SumFunction(f) \in Int
  <1> DEFINE p == PartialSums(f, S)
  <1>1. SumFunction(f) = p[S]
    BY SumIsPartialSum
  <1>2. p \in [SUBSET S -> Int]
    BY PartialSumsSolve DEF Solves
  <1> HIDE DEF p
  <1> QED BY <1>1, <1>2

\* A sum of natural numbers is one.
LEMMA SumNat ==
    ASSUME NEW S, IsFiniteSet(S), NEW f \in [S -> Nat]
    PROVE  SumFunction(f) \in Nat
  <1> DEFINE p == PartialSums(f, S)
             Bad == {s \in SUBSET S : p[s] \notin Nat}
  <1>1. f \in [S -> Int] /\ S = DOMAIN f
    OBVIOUS
  <1> HIDE DEF p
  <1>2. Solves(f, p, SUBSET S)
    BY <1>1, PartialSumsSolve DEF p
  <1>3. CASE Bad # {}
    <2>1. PICK s \in Bad : \A r \in Bad : r \subseteq s => r = s
      <3>1. Bad \subseteq SUBSET S
        OBVIOUS
      <3> HIDE DEF Bad
      <3> QED BY <1>3, <3>1, LeastSubset
    <2>2. s # {}
      <3>1. s = {} => p[s] = 0
        BY <1>2, <2>1 DEF Solves, Adds
      <3> QED BY <2>1, <3>1
    <2>3. Chosen(s) \in s
      BY <2>2, ChosenElement
    <2>4. s \ {Chosen(s)} \notin Bad /\ s \ {Chosen(s)} \in SUBSET S /\ Chosen(s) \in S
      BY <2>1, <2>3
    <2>5. p[s \ {Chosen(s)}] \in Nat /\ f[Chosen(s)] \in Nat
      BY <2>4
    <2> QED BY <1>2, <2>1, <2>2, <2>5 DEF Solves, Adds
  <1>4. CASE Bad = {}
    <2>1. p[S] \in Nat
      BY <1>4
    <2> QED BY <1>1, <2>1, SumIsPartialSum DEF p
  <1> QED BY <1>3, <1>4

\* No balances, no supply (the tokens as initialize leaves them).
LEMMA SumOfZeros ==
    ASSUME NEW S, IsFiniteSet(S)
    PROVE  SumFunction([x \in S |-> 0]) = 0
  <1> DEFINE f == [x \in S |-> 0]
             p == PartialSums(f, S)
             Bad == {s \in SUBSET S : p[s] # 0}
  <1>1. f \in [S -> Int] /\ S = DOMAIN f
    OBVIOUS
  <1> HIDE DEF p
  <1>2. Solves(f, p, SUBSET S)
    BY <1>1, PartialSumsSolve DEF p
  <1>3. CASE Bad # {}
    <2>1. PICK s \in Bad : \A r \in Bad : r \subseteq s => r = s
      <3>1. Bad \subseteq SUBSET S
        OBVIOUS
      <3> HIDE DEF Bad
      <3> QED BY <1>3, <3>1, LeastSubset
    <2>2. s # {}
      BY <1>2, <2>1 DEF Solves, Adds
    <2>3. Chosen(s) \in s
      BY <2>2, ChosenElement
    <2>4. s \ {Chosen(s)} \notin Bad /\ s \ {Chosen(s)} \in SUBSET S /\ Chosen(s) \in S
      BY <2>1, <2>3
    <2>5. p[s \ {Chosen(s)}] = 0 /\ f[Chosen(s)] = 0
      BY <2>4
    <2> QED BY <1>2, <2>1, <2>2, <2>5 DEF Solves, Adds
  <1>4. CASE Bad = {}
    <2>1. p[S] = 0
      BY <1>4
    <2> QED BY <1>1, <2>1, SumIsPartialSum DEF p
  <1> QED BY <1>3, <1>4

\* Changing one value changes the sum by as much (each mint and burn).
LEMMA SumChange ==
    ASSUME NEW S, IsFiniteSet(S), NEW f \in [S -> Int], NEW g \in [S -> Int], NEW x \in S,
           \A y \in S \ {x} : g[y] = f[y]
    PROVE  SumFunction(g) = SumFunction(f) + (g[x] - f[x])
  <1> DEFINE p == PartialSums(f, S)
             q == PartialSums(g, S)
             Change(s) == IF x \in s THEN g[x] - f[x] ELSE 0
             Bad == {s \in SUBSET S : q[s] # p[s] + Change(s)}
  <1>1. S = DOMAIN f /\ S = DOMAIN g
    OBVIOUS
  <1> HIDE DEF p, q
  <1>2. Solves(f, p, SUBSET S) /\ Solves(g, q, SUBSET S)
    BY PartialSumsSolve DEF p, q
  <1>3. CASE Bad # {}
    <2>1. PICK s \in Bad : \A r \in Bad : r \subseteq s => r = s
      <3>1. Bad \subseteq SUBSET S
        OBVIOUS
      <3> HIDE DEF Bad
      <3> QED BY <1>3, <3>1, LeastSubset
    <2>2. CASE s = {}
      <3>1. p[s] = 0 /\ q[s] = 0 /\ Change(s) = 0
        BY <1>2, <2>1, <2>2 DEF Solves, Adds
      <3> QED BY <2>1, <3>1
    <2>3. CASE s # {}
      <3> DEFINE c == Chosen(s)
                 r == s \ {c}
      <3>1. c \in s
        BY <2>3, ChosenElement
      <3>2. r \notin Bad /\ r \in SUBSET S /\ c \in S
        BY <2>1, <3>1
      <3>3. p[s] = f[c] + p[r] /\ q[s] = g[c] + q[r] /\ p[r] \in Int /\ q[r] \in Int
        BY <1>2, <2>1, <2>3, <3>2 DEF Solves, Adds
      <3>4. q[r] = p[r] + Change(r)
        BY <3>2
      <3>5. CASE c = x
        BY <2>1, <3>1, <3>2, <3>3, <3>4, <3>5
      <3>6. CASE c # x
        <4>1. Change(r) = Change(s) /\ g[c] = f[c] /\ Change(s) \in Int
          BY <3>2, <3>6
        <4> HIDE DEF r, c, Change
        <4> QED BY <2>1, <3>2, <3>3, <3>4, <4>1
      <3> QED BY <3>5, <3>6
    <2> QED BY <2>2, <2>3
  <1>4. CASE Bad = {}
    <2>1. q[S] = p[S] + (g[x] - f[x])
      BY <1>4
    <2> QED BY <1>1, <2>1, SumIsPartialSum DEF p, q
  <1> QED BY <1>3, <1>4

\* No balance is above the supply.
LEMMA PartBelowSum ==
    ASSUME NEW S, IsFiniteSet(S), NEW f \in [S -> Nat], NEW x \in S
    PROVE  f[x] <= SumFunction(f)
  <1> DEFINE g == [f EXCEPT ![x] = 0]
  <1>1. g \in [S -> Nat] /\ g[x] = 0 /\ \A y \in S \ {x} : f[y] = g[y]
    OBVIOUS
  <1> HIDE DEF g
  <1>2. SumFunction(f) = SumFunction(g) + (f[x] - g[x])
    BY <1>1, SumChange
  <1>3. SumFunction(g) \in Nat
    BY <1>1, SumNat
  <1> QED BY <1>1, <1>2, <1>3

-------------------------------------------------------------------------------
\* There are finitely many accounts.
LEMMA AccountsFinite == IsFiniteSet(Accounts)
  BY UsersAssumption, FS_AddElement DEF Accounts

\* Adding to one balance, or taking away from it, changes the sum by as much.
LEMMA SumStep ==
    ASSUME NEW S, IsFiniteSet(S), NEW f \in [S -> Nat], NEW g \in [S -> Nat], NEW x \in S,
           NEW k \in Int, g[x] = f[x] + k, \A y \in S \ {x} : g[y] = f[y]
    PROVE  SumFunction(g) = SumFunction(f) + k /\ SumFunction(f) \in Nat
  <1>1. SumFunction(g) = SumFunction(f) + (g[x] - f[x])
    BY SumChange
  <1>2. SumFunction(f) \in Nat /\ g[x] - f[x] = k
    BY SumNat
  <1> QED BY <1>1, <1>2

\* A reserve starts sound (ReserveLogic.init).
LEMMA InitMarketSound ==
    ASSUME NEW t \in Nat
    PROVE  Sound(InitMarket, t)
  <1>1. InitMarket \in Market /\ IndexesStarted(InitMarket) /\ ClocksOrdered(InitMarket, t)
    BY RayAssumption DEF InitMarket, Market, IndexesStarted, ClocksOrdered
  <1>2. SumFunction([u \in Accounts |-> 0]) = 0 /\ SumFunction([u \in Users |-> 0]) = 0
    BY AccountsFinite, UsersAssumption, SumOfZeros
  <1>3. SuppliesSummed(InitMarket)
    BY <1>2 DEF SuppliesSummed, InitMarket
  <1> QED BY <1>1, <1>3 DEF Sound

(***************************************************************************)
(* The three kinds of change: to the elToken and the cash, to the variable *)
(* debt, to the stable debt.                                               *)
(***************************************************************************)

\* ELToken balances and cash can take any values of their types, if the supply
\* is still the sum.
LEMMA ElChange ==
    ASSUME NEW t \in Nat, NEW m, Sound(m, t),
           NEW f \in [Accounts -> Nat], NEW n \in Nat, NEW c \in Nat, n = SumFunction(f)
    PROVE  ElFrame(m, [m EXCEPT !.el = f, !.elSupply = n, !.cash = c], t)
  <1> DEFINE r == [m EXCEPT !.el = f, !.elSupply = n, !.cash = c]
  <1>1. m \in Market
    BY DEF Sound
  <1>2. r \in Market
    BY <1>1 DEF Market
  <1>3. SameDebt(m, r) /\ SameIndexes(m, r) /\ r.el = f /\ r.elSupply = n
    BY <1>1 DEF Market, SameDebt, SameIndexes
  <1> HIDE DEF r
  <1>4. SuppliesSummed(r)
    BY <1>3 DEF Sound, SuppliesSummed, SameDebt
  <1>5. Sound(r, t)
    BY <1>2, <1>3, <1>4 DEF Sound, IndexesStarted, ClocksOrdered, SameIndexes, SameDebt
  <1> QED BY <1>3, <1>5 DEF r, ElFrame

\* So can the balances of the variable debt.
LEMMA VarChange ==
    ASSUME NEW t \in Nat, NEW m, Sound(m, t),
           NEW f \in [Users -> Nat], NEW n \in Nat, n = SumFunction(f)
    PROVE  VarFrame(m, [m EXCEPT !.varDebt = f, !.varSupply = n], t)
  <1> DEFINE r == [m EXCEPT !.varDebt = f, !.varSupply = n]
  <1>1. m \in Market
    BY DEF Sound
  <1>2. r \in Market
    BY <1>1 DEF Market
  <1>3. /\ SameIndexes(m, r) /\ r.varDebt = f /\ r.varSupply = n /\ r.cash = m.cash
        /\ r.el = m.el /\ r.elSupply = m.elSupply
        /\ r.stTimestamp = m.stTimestamp
        /\ r.stDebt = m.stDebt /\ r.stRate = m.stRate /\ r.stTime = m.stTime
    BY <1>1 DEF Market, SameIndexes
  <1> HIDE DEF r
  <1>4. Sound(r, t)
    BY <1>2, <1>3 DEF Sound, SuppliesSummed, IndexesStarted, ClocksOrdered, SameIndexes
  <1> QED BY <1>3, <1>4 DEF r, VarFrame

\* Stable debt changes only in a call that has updated the reserve before, so
\* its clocks can be set to the present.
LEMMA StChange ==
    ASSUME NEW t \in Nat, NEW m, Sound(m, t), m.lastUpdateTimestamp = t,
           NEW n \in Nat, NEW avg \in Nat,
           NEW debt \in [Users -> Nat], NEW rate \in [Users -> Nat],
           NEW time \in [Users -> Nat], \A u \in Users : time[u] <= t
    PROVE  StFrame(m, [m EXCEPT !.stSupply = n, !.stAvgRate = avg, !.stTimestamp = t,
                                !.stDebt = debt, !.stRate = rate, !.stTime = time], t)
  <1> DEFINE r == [m EXCEPT !.stSupply = n, !.stAvgRate = avg, !.stTimestamp = t,
                            !.stDebt = debt, !.stRate = rate, !.stTime = time]
  <1>1. m \in Market
    BY DEF Sound
  <1>2. r \in Market
    BY <1>1 DEF Market
  <1>3. /\ SameIndexes(m, r) /\ r.varDebt = m.varDebt /\ r.varSupply = m.varSupply
        /\ r.cash = m.cash /\ r.stDebt = debt
        /\ r.el = m.el /\ r.elSupply = m.elSupply
        /\ r.stTimestamp = t /\ r.stTime = time
    BY <1>1 DEF Market, SameIndexes
  <1> HIDE DEF r
  <1>4. Sound(r, t)
    BY <1>2, <1>3 DEF Sound, SuppliesSummed, IndexesStarted, ClocksOrdered, SameIndexes
  <1> QED BY <1>3, <1>4 DEF r, StFrame

-------------------------------------------------------------------------------
\* ELToken.mint.
LEMMA ElMintSound ==
    ASSUME NEW t \in Nat, NEW m, Sound(m, t), NEW u \in Users, NEW amount \in Nat
    PROVE  ElFrame(m, elMint(m, u, amount), t) /\ elMint(m, u, amount).cash = m.cash
  <1> DEFINE k == rayDiv(amount, m.liquidityIndex)
             f == [m.el EXCEPT ![u] = @ + k]
             n == m.elSupply + k
             c == m.cash
             r == [m EXCEPT !.el = f, !.elSupply = n, !.cash = c]
  <1>1. m \in Market /\ m.liquidityIndex \in Nat \ {0}
    BY RayAssumption DEF Sound, Market, IndexesStarted
  <1>2. k \in Nat
    BY <1>1, RayDivNat
  <1>3. elMint(m, u, amount) = r
    BY <1>1 DEF elMint, Market
  <1>4. f \in [Accounts -> Nat] /\ n \in Nat /\ c \in Nat
    <2> HIDE DEF k
    <2> QED BY <1>1, <1>2 DEF Market, Accounts
  <1>5. r.cash = m.cash
    BY <1>1 DEF Market
  <1>6. n = SumFunction(f)
    <2>1. u \in Accounts /\ m.el \in [Accounts -> Nat] /\ m.elSupply = SumFunction(m.el)
      BY <1>1 DEF Sound, SuppliesSummed, Market, Accounts
    <2> HIDE DEF k
    <2>2. /\ f \in [Accounts -> Nat] /\ f[u] = m.el[u] + k /\ k \in Int
          /\ \A v \in Accounts \ {u} : f[v] = m.el[v]
      BY <1>2, <2>1
    <2> HIDE DEF f
    <2>3. SumFunction(f) = SumFunction(m.el) + k /\ SumFunction(m.el) \in Nat
      BY <2>1, <2>2, AccountsFinite, SumStep
    <2> QED BY <1>2, <2>1, <2>3
  <1> HIDE DEF f, n, c
  <1>7. ElFrame(m, r, t)
    BY <1>4, <1>6, ElChange
  <1> HIDE DEF r
  <1> QED BY <1>3, <1>5, <1>7

\* ELToken.burn; the underlying leaves with it.
LEMMA ElBurnSound ==
    ASSUME NEW t \in Nat, NEW m, Sound(m, t), NEW u \in Users, NEW amount \in Nat,
           canBurnEl(m, u, amount)
    PROVE  ElFrame(m, elBurn(m, u, amount), t)
  <1> DEFINE k == rayDiv(amount, m.liquidityIndex)
             f == [m.el EXCEPT ![u] = @ - k]
             n == m.elSupply - k
             c == m.cash - amount
             r == [m EXCEPT !.el = f, !.elSupply = n, !.cash = c]
  <1>1. m \in Market /\ m.liquidityIndex \in Nat \ {0}
    BY RayAssumption DEF Sound, Market, IndexesStarted
  <1>2. k \in Nat /\ k <= m.el[u] /\ k <= m.elSupply /\ amount <= m.cash
    BY <1>1, RayDivNat DEF canBurnEl
  <1>3. elBurn(m, u, amount) = r
    BY <1>1 DEF elBurn, Market
  <1>4. f \in [Accounts -> Nat] /\ n \in Nat /\ c \in Nat
    <2> HIDE DEF k
    <2> QED BY <1>1, <1>2 DEF Market, Accounts
  <1>5. n = SumFunction(f)
    <2>1. u \in Accounts /\ m.el \in [Accounts -> Nat] /\ m.elSupply = SumFunction(m.el)
      BY <1>1 DEF Sound, SuppliesSummed, Market, Accounts
    <2> HIDE DEF k
    <2>2. /\ f \in [Accounts -> Nat] /\ f[u] = m.el[u] + (-k) /\ (-k) \in Int
          /\ \A v \in Accounts \ {u} : f[v] = m.el[v]
      BY <1>2, <2>1
    <2> HIDE DEF f
    <2>3. SumFunction(f) = SumFunction(m.el) + (-k) /\ SumFunction(m.el) \in Nat
      BY <2>1, <2>2, AccountsFinite, SumStep
    <2> QED BY <1>2, <2>1, <2>3
  <1> HIDE DEF f, n, c
  <1>6. ElFrame(m, r, t)
    BY <1>4, <1>5, ElChange
  <1> HIDE DEF r
  <1> QED BY <1>3, <1>6

\* ELToken.mintToTreasury.
LEMMA MintToTreasurySound ==
    ASSUME NEW t \in Nat, NEW m, Sound(m, t), NEW amount \in Nat, NEW index \in Nat \ {0}
    PROVE  /\ ElFrame(m, mintToTreasury(m, amount, index), t)
           /\ mintToTreasury(m, amount, index).cash = m.cash
  <1> DEFINE k == rayDiv(amount, index)
             f == [m.el EXCEPT ![Treasury] = @ + k]
             n == m.elSupply + k
             c == m.cash
             r == [m EXCEPT !.el = f, !.elSupply = n, !.cash = c]
  <1>1. m \in Market
    BY DEF Sound
  <1>2. k \in Nat
    BY RayDivNat
  <1>3. mintToTreasury(m, amount, index) = r
    BY <1>1 DEF mintToTreasury, Market
  <1>4. f \in [Accounts -> Nat] /\ n \in Nat /\ c \in Nat
    <2> HIDE DEF k
    <2> QED BY <1>1, <1>2 DEF Market, Accounts
  <1>5. r.cash = m.cash
    BY <1>1 DEF Market
  <1>6. n = SumFunction(f)
    <2>1. Treasury \in Accounts /\ m.el \in [Accounts -> Nat] /\ m.elSupply = SumFunction(m.el)
      BY <1>1 DEF Sound, SuppliesSummed, Market, Accounts
    <2> HIDE DEF k
    <2>2. /\ f \in [Accounts -> Nat] /\ f[Treasury] = m.el[Treasury] + k /\ k \in Int
          /\ \A v \in Accounts \ {Treasury} : f[v] = m.el[v]
      BY <1>2, <2>1
    <2> HIDE DEF f
    <2>3. SumFunction(f) = SumFunction(m.el) + k /\ SumFunction(m.el) \in Nat
      BY <2>1, <2>2, AccountsFinite, SumStep
    <2> QED BY <1>2, <2>1, <2>3
  <1> HIDE DEF f, n, c
  <1>7. ElFrame(m, r, t)
    BY <1>4, <1>6, ElChange
  <1> HIDE DEF r
  <1> QED BY <1>3, <1>5, <1>7

\* The view indexes are at least the stored ones.
LEMMA ViewIndexesGrow ==
    ASSUME NEW t \in Nat, NEW m, Sound(m, t)
    PROVE  /\ getNormalizedIncome(m, t) \in Nat /\ getNormalizedIncome(m, t) >= m.liquidityIndex
           /\ getNormalizedDebt(m, t) \in Nat /\ getNormalizedDebt(m, t) >= m.variableBorrowIndex
  <1> DEFINE l == m.lastUpdateTimestamp
             i == calculateLinearInterest(m.currentLiquidityRate, l, t)
             d == calculateCompoundedInterest(m.currentVariableBorrowRate, l, t)
  <1>1. /\ m.liquidityIndex \in Nat /\ m.variableBorrowIndex \in Nat
        /\ m.currentLiquidityRate \in Nat /\ m.currentVariableBorrowRate \in Nat
        /\ l \in Nat /\ l <= t
    BY DEF Sound, Market, ClocksOrdered
  <1>2. i \in Nat /\ i >= RAY
    BY <1>1, LinearInterestGrows
  <1>3. d \in Nat /\ d >= RAY
    BY <1>1, CompoundedInterestGrows
  <1> HIDE DEF i, d
  <1>4. rayMul(i, m.liquidityIndex) \in Nat /\ rayMul(i, m.liquidityIndex) >= m.liquidityIndex
    BY <1>1, <1>2, RayMulNat, RayMulGrows
  <1>5. /\ rayMul(d, m.variableBorrowIndex) \in Nat
        /\ rayMul(d, m.variableBorrowIndex) >= m.variableBorrowIndex
    BY <1>1, <1>3, RayMulNat, RayMulGrows
  <1> QED BY <1>1, <1>4, <1>5 DEF getNormalizedIncome, getNormalizedDebt, i, d

\* ELToken._transfer.
LEMMA ElTransferSound ==
    ASSUME NEW t \in Nat, NEW m, Sound(m, t), NEW from \in Users, NEW to \in Users,
           NEW amount \in Nat, canTransferEl(m, from, amount, t)
    PROVE  /\ ElFrame(m, elTransfer(m, from, to, amount, t), t)
           /\ elTransfer(m, from, to, amount, t).cash = m.cash
  <1> DEFINE k == rayDiv(amount, getNormalizedIncome(m, t))
             g == [m.el EXCEPT ![from] = @ - k]
             f == [g EXCEPT ![to] = @ + k]
             n == m.elSupply
             c == m.cash
             r == [m EXCEPT !.el = f, !.elSupply = n, !.cash = c]
  <1>1. m \in Market
    BY DEF Sound
  <1>2. getNormalizedIncome(m, t) \in Nat \ {0}
    BY ViewIndexesGrow, RayAssumption DEF Sound, IndexesStarted, Market
  <1>3. k \in Nat /\ k <= m.el[from]
    BY <1>2, RayDivNat DEF canTransferEl
  <1>4. elTransfer(m, from, to, amount, t) = r
    BY <1>1 DEF elTransfer, Market
  <1>5. f \in [Accounts -> Nat] /\ n \in Nat /\ c \in Nat
    <2> HIDE DEF k
    <2>1. g \in [Accounts -> Nat]
      BY <1>1, <1>3 DEF Market, Accounts
    <2> HIDE DEF g
    <2> QED BY <2>1, <1>1, <1>3 DEF Market, Accounts
  <1>6. r.cash = m.cash
    BY <1>1 DEF Market
  <1>7. n = SumFunction(f)
    <2>1. /\ from \in Accounts /\ to \in Accounts /\ m.el \in [Accounts -> Nat]
          /\ m.elSupply = SumFunction(m.el)
      BY <1>1 DEF Sound, SuppliesSummed, Market, Accounts
    <2> HIDE DEF k
    <2>2. /\ g \in [Accounts -> Nat] /\ g[from] = m.el[from] + (-k) /\ -k \in Int
          /\ \A v \in Accounts \ {from} : g[v] = m.el[v]
      BY <1>3, <2>1
    <2> HIDE DEF g
    <2>3. /\ f \in [Accounts -> Nat] /\ f[to] = g[to] + k /\ k \in Int
          /\ \A v \in Accounts \ {to} : f[v] = g[v]
      BY <1>3, <2>1, <2>2
    <2> HIDE DEF f
    <2>4. SumFunction(g) = SumFunction(m.el) + (-k) /\ SumFunction(m.el) \in Nat
      BY <2>1, <2>2, AccountsFinite, SumStep
    <2>5. SumFunction(f) = SumFunction(g) + k
      BY <2>1, <2>2, <2>3, AccountsFinite, SumStep
    <2> QED BY <1>3, <2>1, <2>4, <2>5
  <1> HIDE DEF f, n, c
  <1>8. ElFrame(m, r, t)
    BY <1>5, <1>7, ElChange
  <1> HIDE DEF r
  <1> QED BY <1>4, <1>6, <1>8

-------------------------------------------------------------------------------
\* VariableDebtToken.mint, at any index that is not zero.
LEMMA VarMintSound ==
    ASSUME NEW t \in Nat, NEW m, Sound(m, t), NEW u \in Users,
           NEW amount \in Nat, NEW index \in Nat, canMintVar(amount, index)
    PROVE  /\ VarFrame(m, varMint(m, u, amount, index), t)
           /\ \A v \in Users \ {u} : varMint(m, u, amount, index).varDebt[v] = m.varDebt[v]
  <1> DEFINE k == rayDiv(amount, index)
             f == [m.varDebt EXCEPT ![u] = @ + k]
             n == m.varSupply + k
             r == [m EXCEPT !.varDebt = f, !.varSupply = n]
  <1>1. m \in Market
    BY DEF Sound
  <1>2. k \in Nat
    BY RayDivNat DEF canMintVar
  <1>3. varMint(m, u, amount, index) = r
    BY <1>1 DEF varMint, Market
  <1>4. f \in [Users -> Nat] /\ n \in Nat
    <2> HIDE DEF k
    <2> QED BY <1>1, <1>2 DEF Market
  <1>5. \A v \in Users \ {u} : f[v] = m.varDebt[v]
    BY <1>1 DEF Market
  <1>6. n = SumFunction(f)
    <2>1. u \in Users /\ m.varDebt \in [Users -> Nat] /\ m.varSupply = SumFunction(m.varDebt)
      BY <1>1 DEF Sound, SuppliesSummed, Market
    <2> HIDE DEF k
    <2>2. /\ f \in [Users -> Nat] /\ f[u] = m.varDebt[u] + k /\ k \in Int
          /\ \A v \in Users \ {u} : f[v] = m.varDebt[v]
      BY <1>2, <2>1
    <2> HIDE DEF f
    <2>3. SumFunction(f) = SumFunction(m.varDebt) + k /\ SumFunction(m.varDebt) \in Nat
      BY <2>1, <2>2, UsersAssumption, SumStep
    <2> QED BY <1>2, <2>1, <2>3
  <1> HIDE DEF f, n
  <1>7. VarFrame(m, r, t)
    BY <1>4, <1>6, VarChange
  <1>8. r.varDebt = f
    BY <1>1 DEF Market
  <1> HIDE DEF r
  <1> QED BY <1>3, <1>5, <1>7, <1>8

\* VariableDebtToken.burn: u owes less by the scaled amount, others the same.
LEMMA VarBurnSound ==
    ASSUME NEW t \in Nat, NEW m, Sound(m, t), NEW u \in Users,
           NEW amount \in Nat, canBurnVar(m, u, amount)
    PROVE  /\ VarFrame(m, varBurn(m, u, amount), t)
           /\ varBurn(m, u, amount).varDebt[u]
                = m.varDebt[u] - rayDiv(amount, m.variableBorrowIndex)
           /\ rayDiv(amount, m.variableBorrowIndex) \in 0..m.varDebt[u]
           /\ \A v \in Users \ {u} : varBurn(m, u, amount).varDebt[v] = m.varDebt[v]
  <1> DEFINE k == rayDiv(amount, m.variableBorrowIndex)
             f == [m.varDebt EXCEPT ![u] = @ - k]
             n == m.varSupply - k
             r == [m EXCEPT !.varDebt = f, !.varSupply = n]
  <1>1. m \in Market /\ m.variableBorrowIndex \in Nat \ {0}
    BY RayAssumption DEF Sound, Market, IndexesStarted
  <1>2. k \in Nat /\ k <= m.varDebt[u] /\ k <= m.varSupply
    BY <1>1, RayDivNat DEF canBurnVar
  <1>3. varBurn(m, u, amount) = r
    BY <1>1 DEF varBurn, Market
  <1>4. f \in [Users -> Nat] /\ n \in Nat
    <2> HIDE DEF k
    <2> QED BY <1>1, <1>2 DEF Market
  <1>5. f[u] = m.varDebt[u] - k /\ \A v \in Users \ {u} : f[v] = m.varDebt[v]
    BY <1>1 DEF Market
  <1>6. n = SumFunction(f)
    <2>1. u \in Users /\ m.varDebt \in [Users -> Nat] /\ m.varSupply = SumFunction(m.varDebt)
      BY <1>1 DEF Sound, SuppliesSummed, Market
    <2> HIDE DEF k
    <2>2. /\ f \in [Users -> Nat] /\ f[u] = m.varDebt[u] + (-k) /\ (-k) \in Int
          /\ \A v \in Users \ {u} : f[v] = m.varDebt[v]
      BY <1>2, <2>1
    <2> HIDE DEF f
    <2>3. SumFunction(f) = SumFunction(m.varDebt) + (-k) /\ SumFunction(m.varDebt) \in Nat
      BY <2>1, <2>2, UsersAssumption, SumStep
    <2> QED BY <1>2, <2>1, <2>3
  <1> HIDE DEF f, n
  <1>7. VarFrame(m, r, t)
    BY <1>4, <1>6, VarChange
  <1>8. r.varDebt = f
    BY <1>1 DEF Market
  <1>9. k \in 0..m.varDebt[u]
    <2> HIDE DEF k
    <2> QED BY <1>1, <1>2 DEF Market
  <1> HIDE DEF r
  <1> QED BY <1>3, <1>5, <1>7, <1>8, <1>9
-------------------------------------------------------------------------------
\* The averages of StableDebtToken are natural numbers when they divide by
\* something.
LEMMA WeightedRateNat ==
    ASSUME NEW r1 \in Nat, NEW w1 \in Nat, NEW r2 \in Nat, NEW w2 \in Nat, w1 + w2 # 0
    PROVE  weightedRate(r1, w1, r2, w2) \in Nat
  <1>1. wadToRay(w1) \in Nat /\ wadToRay(w2) \in Nat /\ wadToRay(w1 + w2) \in Nat \ {0}
    BY WadToRayNat
  <1>2. rayMul(r1, wadToRay(w1)) \in Nat /\ rayMul(r2, wadToRay(w2)) \in Nat
    BY <1>1, RayMulNat
  <1> QED BY <1>1, <1>2, RayDivNat DEF weightedRate

\* A stable balance, with the interest since it was last touched, and the sum of
\* all of them.
LEMMA StBalanceNat ==
    ASSUME NEW t \in Nat, NEW m, Sound(m, t)
    PROVE  /\ stTotalSupply(m, t) \in Nat
           /\ \A u \in Users : stBalanceOf(m, u, t) \in Nat
           /\ \A u \in Users : m.stDebt[u] = 0 => stBalanceOf(m, u, t) = 0
  <1>1. /\ m.stSupply \in Nat /\ m.stAvgRate \in Nat /\ m.stTimestamp \in Nat
        /\ m.stTimestamp <= t
    BY DEF Sound, Market, ClocksOrdered
  <1>2. calculateCompoundedInterest(m.stAvgRate, m.stTimestamp, t) \in Nat
    BY <1>1, CompoundedInterestGrows
  <1>3. stTotalSupply(m, t) \in Nat
    BY <1>1, <1>2, RayMulNat DEF stTotalSupply
  <1>4. ASSUME NEW u \in Users
        PROVE  stBalanceOf(m, u, t) \in Nat
    <2>1. /\ m.stDebt[u] \in Nat /\ m.stRate[u] \in Nat /\ m.stTime[u] \in Nat
          /\ m.stTime[u] <= t
      BY DEF Sound, Market, ClocksOrdered
    <2>2. calculateCompoundedInterest(m.stRate[u], m.stTime[u], t) \in Nat
      BY <2>1, CompoundedInterestGrows
    <2> QED BY <2>1, <2>2, RayMulNat DEF stBalanceOf
  <1>5. \A u \in Users : m.stDebt[u] = 0 => stBalanceOf(m, u, t) = 0
    BY DEF stBalanceOf
  <1> QED BY <1>3, <1>4, <1>5

\* StableDebtToken.mint, in a reserve that was updated in the same call.
LEMMA StMintSound ==
    ASSUME NEW t \in Nat, NEW m, Sound(m, t), m.lastUpdateTimestamp = t, NEW u \in Users,
           NEW amount \in Nat, NEW rate \in Nat, canMintSt(m, u, amount, t)
    PROVE  /\ StFrame(m, stMint(m, u, amount, rate, t), t)
           /\ \A v \in Users \ {u} : stMint(m, u, amount, rate, t).stDebt[v] = m.stDebt[v]
  <1> DEFINE b == stBalanceOf(m, u, t)
             s == stTotalSupply(m, t)
             w == weightedRate(m.stRate[u], b, rate, amount)
             n == s + amount
             avg == weightedRate(m.stAvgRate, s, rate, amount)
             d == b + amount
             debts == [m.stDebt EXCEPT ![u] = d]
             rates == [m.stRate EXCEPT ![u] = w]
             times == [m.stTime EXCEPT ![u] = t]
             r == [m EXCEPT !.stSupply = n, !.stAvgRate = avg, !.stTimestamp = t,
                            !.stDebt = debts, !.stRate = rates, !.stTime = times]
  <1>1. m \in Market
    BY DEF Sound
  <1>2. b \in Nat /\ s \in Nat /\ b + amount # 0 /\ s + amount # 0
    BY StBalanceNat DEF canMintSt
  <1>3. stMint(m, u, amount, rate, t) = r
    BY <1>1 DEF stMint, Market
  <1> HIDE DEF b, s
  <1>4. m.stRate[u] \in Nat /\ m.stAvgRate \in Nat
    BY <1>1 DEF Market
  <1>5. w \in Nat /\ avg \in Nat /\ n \in Nat /\ d \in Nat
    <2>1. w \in Nat
      BY <1>2, <1>4, WeightedRateNat
    <2>2. avg \in Nat
      BY <1>2, <1>4, WeightedRateNat
    <2> QED BY <2>1, <2>2, <1>2
  <1> HIDE DEF w, avg, n, d
  <1>6. debts \in [Users -> Nat] /\ rates \in [Users -> Nat] /\ times \in [Users -> Nat]
    BY <1>1, <1>5 DEF Market
  <1>7. \A v \in Users : times[v] <= t
    BY <1>1 DEF Sound, Market, ClocksOrdered
  <1>8. \A v \in Users \ {u} : debts[v] = m.stDebt[v]
    BY <1>1 DEF Market
  <1> HIDE DEF debts, rates, times
  <1>9. StFrame(m, r, t)
    BY <1>5, <1>6, <1>7, StChange
  <1>10. r.stDebt = debts
    BY <1>1 DEF Market
  <1> HIDE DEF r
  <1> QED BY <1>3, <1>8, <1>9, <1>10

\* StableDebtToken.burn: u owes what is left, others the same.
LEMMA StBurnSound ==
    ASSUME NEW t \in Nat, NEW m, Sound(m, t), m.lastUpdateTimestamp = t, NEW u \in Users,
           NEW amount \in Nat, canBurnSt(m, u, amount, t)
    PROVE  /\ StFrame(m, stBurn(m, u, amount, t), t)
           /\ stBurn(m, u, amount, t).stDebt[u] = stBalanceOf(m, u, t) - amount
           /\ \A v \in Users \ {u} : stBurn(m, u, amount, t).stDebt[v] = m.stDebt[v]
  <1> DEFINE b == stBalanceOf(m, u, t)
             s == stTotalSupply(m, t)
             first == rayMul(m.stAvgRate, wadToRay(s))
             second == rayMul(m.stRate[u], wadToRay(amount))
             exhausted == s <= amount \/ second >= first
             n == IF exhausted THEN 0 ELSE s - amount
             avg == IF exhausted THEN 0 ELSE rayDiv(first - second, wadToRay(s - amount))
             d == b - amount
             debts == [m.stDebt EXCEPT ![u] = d]
             rates == [m.stRate EXCEPT ![u] = IF amount = b THEN 0 ELSE @]
             times == [m.stTime EXCEPT ![u] = IF amount = b THEN 0 ELSE t]
             r == [m EXCEPT !.stSupply = n, !.stAvgRate = avg, !.stTimestamp = t,
                            !.stDebt = debts, !.stRate = rates, !.stTime = times]
  <1>1. m \in Market
    BY DEF Sound
  <1>2. b \in Nat /\ s \in Nat /\ amount <= b
    BY StBalanceNat DEF canBurnSt
  <1>3. stBurn(m, u, amount, t) = r
    BY <1>1 DEF stBurn, Market
  <1> HIDE DEF b, s
  <1>4. m.stRate[u] \in Nat /\ m.stAvgRate \in Nat
    BY <1>1 DEF Market
  <1>5. first \in Nat /\ second \in Nat
    BY <1>2, <1>4, WadToRayNat, RayMulNat
  <1> HIDE DEF first, second
  <1>6. n \in Nat /\ d \in Nat
    BY <1>2, <1>5
  <1>7. avg \in Nat
    <2>1. CASE exhausted
      BY <2>1
    <2>2. CASE ~exhausted
      <3>1. first - second \in Nat /\ s - amount \in Nat /\ s - amount # 0
        BY <1>2, <1>5, <2>2
      <3>2. wadToRay(s - amount) \in Nat \ {0}
        BY <3>1, WadToRayNat
      <3>3. rayDiv(first - second, wadToRay(s - amount)) \in Nat
        BY <3>1, <3>2, RayDivNat
      <3> QED BY <3>3, <2>2
    <2> QED BY <2>1, <2>2
  <1> HIDE DEF n, avg, d
  <1>8. debts \in [Users -> Nat] /\ rates \in [Users -> Nat] /\ times \in [Users -> Nat]
    BY <1>1, <1>6 DEF Market
  <1>9. \A v \in Users : times[v] <= t
    BY <1>1 DEF Sound, Market, ClocksOrdered
  <1>10. debts[u] = d /\ \A v \in Users \ {u} : debts[v] = m.stDebt[v]
    BY <1>1 DEF Market
  <1> HIDE DEF debts, rates, times
  <1>11. StFrame(m, r, t)
    BY <1>6, <1>7, <1>8, <1>9, StChange
  <1>12. r.stDebt = debts
    BY <1>1 DEF Market
  <1> HIDE DEF r
  <1>13. d = stBalanceOf(m, u, t) - amount
    BY DEF d, b
  <1> QED BY <1>3, <1>10, <1>11, <1>12, <1>13
-------------------------------------------------------------------------------
\* No index falls and the clock does not go back.
IndexesGrow(m1, m2) ==
    /\ m2.liquidityIndex >= m1.liquidityIndex
    /\ m2.variableBorrowIndex >= m1.variableBorrowIndex
    /\ m2.lastUpdateTimestamp >= m1.lastUpdateTimestamp

\* What updateState makes of a reserve: it is up to date, its debts are what they
\* were, and its variable index is at most what the view reported before.
UpdateFrame(m, r, t) ==
    /\ Sound(r, t) /\ SameDebt(m, r) /\ IndexesGrow(m, r)
    /\ r.lastUpdateTimestamp = t /\ r.cash = m.cash
    /\ r.variableBorrowIndex <= getNormalizedDebt(m, t)

\* Setting the indexes and the clock.
LEMMA IndexChange ==
    ASSUME NEW t \in Nat, NEW m, Sound(m, t), NEW i \in Nat, NEW d \in Nat,
           i >= m.liquidityIndex, d >= m.variableBorrowIndex, d <= getNormalizedDebt(m, t)
    PROVE  UpdateFrame(m, [m EXCEPT !.liquidityIndex = i, !.variableBorrowIndex = d,
                                    !.lastUpdateTimestamp = t], t)
  <1> DEFINE r == [m EXCEPT !.liquidityIndex = i, !.variableBorrowIndex = d,
                            !.lastUpdateTimestamp = t]
  <1>1. m \in Market
    BY DEF Sound
  <1>2. r \in Market
    BY <1>1 DEF Market
  <1>3. /\ SameDebt(m, r) /\ r.cash = m.cash /\ r.el = m.el /\ r.elSupply = m.elSupply
        /\ r.liquidityIndex = i /\ r.variableBorrowIndex = d /\ r.lastUpdateTimestamp = t
    BY <1>1 DEF Market, SameDebt
  <1> HIDE DEF r
  <1>4. IndexesGrow(m, r)
    BY <1>3 DEF Sound, ClocksOrdered, IndexesGrow
  <1>5. IndexesStarted(r)
    BY <1>1, <1>3, RayAssumption DEF Sound, IndexesStarted, Market
  <1>6. ClocksOrdered(r, t)
    <2>1. /\ m.stTimestamp \in Nat /\ m.stTimestamp <= m.lastUpdateTimestamp
          /\ m.lastUpdateTimestamp \in Nat /\ m.lastUpdateTimestamp <= t
          /\ \A u \in Users : m.stTime[u] \in Nat /\ m.stTime[u] <= m.lastUpdateTimestamp
      BY <1>1 DEF Sound, ClocksOrdered, Market
    <2> QED BY <2>1, <1>3 DEF ClocksOrdered, SameDebt
  <1>7. SuppliesSummed(r)
    BY <1>3 DEF Sound, SuppliesSummed, SameDebt
  <1>8. UpdateFrame(m, r, t)
    BY <1>2, <1>3, <1>4, <1>5, <1>6, <1>7 DEF UpdateFrame, Sound
  <1> QED BY <1>8 DEF r

\* ReserveLogic._updateIndexes, with the elTokens it mints.
LEMMA UpdateIndexesSound ==
    ASSUME NEW t \in Nat, NEW m, Sound(m, t)
    PROVE  UpdateFrame(m, updateIndexes(m, t), t)
  <1> DEFINE l == m.lastUpdateTimestamp
             income == calculateLinearInterest(m.currentLiquidityRate, l, t)
             comp == calculateCompoundedInterest(m.currentVariableBorrowRate, l, t)
             accrues == m.currentLiquidityRate > 0
             i == IF accrues THEN rayMul(income, m.liquidityIndex) ELSE m.liquidityIndex
             d == IF accrues /\ m.varSupply # 0
                  THEN rayMul(comp, m.variableBorrowIndex) ELSE m.variableBorrowIndex
             minted == IF i # m.liquidityIndex
                       THEN mintToTreasury(m, income - RAY, m.liquidityIndex) ELSE m
             r == [minted EXCEPT !.liquidityIndex = i, !.variableBorrowIndex = d,
                                 !.lastUpdateTimestamp = t]
  <1>1. /\ m \in Market
        /\ m.liquidityIndex \in Nat \ {0} /\ m.variableBorrowIndex \in Nat
        /\ m.currentLiquidityRate \in Nat /\ m.currentVariableBorrowRate \in Nat
        /\ l \in Nat /\ l <= t
    BY RayAssumption DEF Sound, Market, ClocksOrdered, IndexesStarted
  <1>2. income \in Nat /\ income >= RAY
    BY <1>1, LinearInterestGrows
  <1>3. comp \in Nat /\ comp >= RAY
    BY <1>1, CompoundedInterestGrows
  <1>4. l = t => comp = RAY
    BY DEF calculateCompoundedInterest
  <1>5. updateIndexes(m, t) = r
    BY DEF updateIndexes
  <1>6. getNormalizedDebt(m, t) = IF l = t THEN m.variableBorrowIndex
                                   ELSE rayMul(comp, m.variableBorrowIndex)
    BY DEF getNormalizedDebt
  <1> HIDE DEF income, comp
  <1>7. i \in Nat /\ i >= m.liquidityIndex
    <2>1. /\ rayMul(income, m.liquidityIndex) \in Nat
          /\ rayMul(income, m.liquidityIndex) >= m.liquidityIndex
      BY <1>1, <1>2, RayMulNat, RayMulGrows
    <2> QED BY <2>1, <1>1
  <1>8. /\ rayMul(comp, m.variableBorrowIndex) \in Nat
        /\ rayMul(comp, m.variableBorrowIndex) >= m.variableBorrowIndex
    BY <1>1, <1>3, RayMulNat, RayMulGrows
  <1>9. l = t => rayMul(comp, m.variableBorrowIndex) = m.variableBorrowIndex
    <2>1. rayMul(RAY, m.variableBorrowIndex) = rayMul(m.variableBorrowIndex, RAY)
      BY <1>1, RayAssumption DEF rayMul
    <2> QED BY <2>1, <1>1, <1>4, RayMulOne
  <1>10. d \in Nat /\ d >= m.variableBorrowIndex /\ d <= getNormalizedDebt(m, t)
    BY <1>1, <1>6, <1>8, <1>9
  <1> HIDE DEF i, d
  <1>11. Sound(minted, t) /\ SameDebt(m, minted) /\ SameIndexes(m, minted) /\ minted.cash = m.cash
    <2>1. CASE i # m.liquidityIndex
      <3>1. income - RAY \in Nat
        BY <1>2, RayAssumption
      <3>2. /\ ElFrame(m, mintToTreasury(m, income - RAY, m.liquidityIndex), t)
            /\ mintToTreasury(m, income - RAY, m.liquidityIndex).cash = m.cash
        BY <3>1, <1>1, MintToTreasurySound
      <3> QED BY <2>1, <3>2 DEF ElFrame
    <2>2. CASE i = m.liquidityIndex
      BY <2>2 DEF SameDebt, SameIndexes
    <2> QED BY <2>1, <2>2
  <1>12. /\ minted.currentVariableBorrowRate = m.currentVariableBorrowRate
    BY <1>1 DEF mintToTreasury, Market
  <1> HIDE DEF minted
  <1>13. getNormalizedDebt(minted, t) = getNormalizedDebt(m, t)
    BY <1>11, <1>12 DEF getNormalizedDebt, SameIndexes
  <1>14. i >= minted.liquidityIndex /\ d >= minted.variableBorrowIndex
    BY <1>7, <1>10, <1>11 DEF SameIndexes
  <1>15. UpdateFrame(minted, r, t)
    BY <1>7, <1>10, <1>11, <1>13, <1>14, IndexChange
  <1> HIDE DEF r
  <1>16. UpdateFrame(m, r, t)
    BY <1>11, <1>13, <1>15 DEF UpdateFrame, SameDebt, SameIndexes, IndexesGrow
  <1> QED BY <1>5, <1>16

\* The interest _mintToTreasury takes its part of is a whole number.
LEMMA AccruedInt ==
    ASSUME NEW t \in Nat, NEW m, Sound(m, t), NEW i \in Nat
    PROVE  totalDebtAccrued(m, i, t) \in Int
  <1>1. /\ m.varSupply \in Nat /\ m.variableBorrowIndex \in Nat /\ m.stSupply \in Nat
        /\ m.stAvgRate \in Nat /\ m.stTimestamp \in Nat /\ m.lastUpdateTimestamp \in Nat
        /\ m.stTimestamp <= m.lastUpdateTimestamp
    BY DEF Sound, Market, ClocksOrdered
  <1>2. rayMul(m.varSupply, i) \in Nat /\ rayMul(m.varSupply, m.variableBorrowIndex) \in Nat
    BY <1>1, RayMulNat
  <1>3. calculateCompoundedInterest(m.stAvgRate, m.stTimestamp, m.lastUpdateTimestamp) \in Nat
    BY <1>1, CompoundedInterestGrows
  <1>4. rayMul(m.stSupply, calculateCompoundedInterest(m.stAvgRate, m.stTimestamp,
                                                       m.lastUpdateTimestamp)) \in Nat
    BY <1>1, <1>3, RayMulNat
  <1>5. stTotalSupply(m, t) \in Nat
    BY StBalanceNat
  <1> HIDE DEF Sound
  <1> QED BY <1>2, <1>4, <1>5 DEF totalDebtAccrued

\* ReserveLogic.updateState, when it does not revert.
LEMMA UpdateStateSound ==
    ASSUME NEW t \in Nat, NEW m, Sound(m, t), NEW c \in Config, canUpdateState(m, c, t)
    PROVE  UpdateFrame(m, updateState(m, c, t), t)
  <1> DEFINE n == updateIndexes(m, t)
             accrued == totalDebtAccrued(m, n.variableBorrowIndex, t)
             toTreasury == percentMul(accrued, c.reserveFactor)
             r == mintToTreasury(n, toTreasury, n.liquidityIndex)
  <1>1. UpdateFrame(m, n, t)
    BY UpdateIndexesSound
  <1>2. Sound(n, t) /\ n.liquidityIndex \in Nat \ {0} /\ n.variableBorrowIndex \in Nat
    BY <1>1, RayAssumption DEF UpdateFrame, Sound, Market, IndexesStarted
  <1>3. CASE c.reserveFactor = 0
    BY <1>1, <1>3 DEF updateState
  <1>4. CASE c.reserveFactor # 0
    <2>1. accrued \in Int
      BY <1>2, AccruedInt
    <2>2. accrued >= 0
      BY <1>4 DEF canUpdateState
    <2>3. c.reserveFactor \in Nat
      BY DEF Config
    <2>4. updateState(m, c, t) = r
      BY <1>4 DEF updateState
    <2> HIDE DEF accrued
    <2>5. toTreasury \in Nat
      <3>1. accrued \in Nat
        BY <2>1, <2>2
      <3> QED BY <2>3, <3>1, PercentMulNat
    <2> HIDE DEF toTreasury, n
    <2>6. ElFrame(n, r, t) /\ r.cash = n.cash
      BY <1>2, <2>5, MintToTreasurySound
    <2> HIDE DEF r
    <2>7. UpdateFrame(m, r, t)
      BY <1>1, <2>6 DEF UpdateFrame, ElFrame, SameDebt, SameIndexes, IndexesGrow
    <2> QED BY <2>4, <2>7
  <1> QED BY <1>3, <1>4

-------------------------------------------------------------------------------
\* Utilization is a share: at most one RAY.
LEMMA UtilizationBounded ==
    ASSUME NEW available \in Nat, NEW debt \in Nat
    PROVE  utilizationRate(available, debt) \in 0..RAY
  <1>1. CASE debt = 0
    BY <1>1, RayAssumption DEF utilizationRate
  <1>2. CASE debt # 0
    <2> DEFINE s == available + debt
    <2>1. s \in Nat \ {0} /\ debt <= s
      BY <1>2
    <2> HIDE DEF s
    <2>2. rayDiv(debt, s) \in Nat /\ rayDiv(debt, s) <= rayDiv(s, s)
      BY <2>1, RayDivNat, RayDivMonotone
    <2>3. rayDiv(s, s) = RAY
      <3>1. s \div 2 \in Nat /\ s \div 2 < s
        BY <2>1
      <3>2. s * RAY \in Nat /\ s * (RAY + 1) = s * RAY + s
        BY <2>1, RayAssumption
      <3>3. s * RAY <= s * RAY + (s \div 2) /\ s * RAY + (s \div 2) < s * (RAY + 1)
        BY <3>1, <3>2, <2>1
      <3> QED BY <3>1, <3>2, <3>3, <2>1, DivUnique, RayAssumption DEF rayDiv
    <2>4. utilizationRate(available, debt) = rayDiv(debt, s)
      BY <1>2 DEF utilizationRate, s
    <2> QED BY <2>2, <2>3, <2>4, RayAssumption
  <1> QED BY <1>1, <1>2

\* Both curves of the strategy return natural numbers.
LEMMA CurvesNat ==
    ASSUME NEW s \in Strategy, NEW u \in 0..RAY
    PROVE  variableBorrowRate(s, u) \in Nat /\ stableBorrowRate(s, u) \in Nat
  <1>1. /\ s.optimal \in 1..RAY /\ s.base \in Nat /\ s.marketBorrowRate \in Nat
        /\ s.variableSlope1 \in Nat /\ s.variableSlope2 \in Nat
        /\ s.stableSlope1 \in Nat /\ s.stableSlope2 \in Nat
    BY DEF Strategy
  <1>2. u \in Nat /\ s.optimal \in Nat \ {0}
    BY <1>1, RayAssumption
  <1>3. CASE u > s.optimal
    <2>1. u - s.optimal \in Nat /\ RAY - s.optimal \in Nat \ {0}
      BY <1>1, <1>3, RayAssumption
    <2>2. excessUtilizationRateRatio(s, u) \in Nat
      BY <2>1, RayDivNat DEF excessUtilizationRateRatio
    <2>3. /\ rayMul(s.variableSlope2, excessUtilizationRateRatio(s, u)) \in Nat
          /\ rayMul(s.stableSlope2, excessUtilizationRateRatio(s, u)) \in Nat
      BY <1>1, <2>2, RayMulNat
    <2> QED BY <1>1, <1>3, <2>3 DEF variableBorrowRate, stableBorrowRate
  <1>4. CASE ~(u > s.optimal)
    <2>1. rayDiv(u, s.optimal) \in Nat /\ rayMul(u, s.variableSlope1) \in Nat
      BY <1>1, <1>2, RayDivNat, RayMulNat
    <2>2. /\ rayMul(s.stableSlope1, rayDiv(u, s.optimal)) \in Nat
          /\ rayDiv(rayMul(u, s.variableSlope1), s.optimal) \in Nat
      BY <1>1, <1>2, <2>1, RayDivNat, RayMulNat
    <2> QED BY <1>1, <1>4, <2>2 DEF variableBorrowRate, stableBorrowRate
  <1> QED BY <1>3, <1>4

\* The average borrow rate is a natural number.
LEMMA OverallRateNat ==
    ASSUME NEW sd \in Nat, NEW vd \in Nat, NEW rate \in Nat, NEW avg \in Nat
    PROVE  getOverallBorrowRate(sd, vd, rate, avg) \in Nat
  <1>1. CASE sd + vd = 0
    BY <1>1 DEF getOverallBorrowRate
  <1>2. CASE sd + vd # 0
    <2>1. wadToRay(sd) \in Nat /\ wadToRay(vd) \in Nat /\ wadToRay(sd + vd) \in Nat \ {0}
      BY <1>2, WadToRayNat
    <2>2. rayMul(wadToRay(vd), rate) \in Nat /\ rayMul(wadToRay(sd), avg) \in Nat
      BY <2>1, RayMulNat
    <2> QED BY <1>2, <2>1, <2>2, RayDivNat DEF getOverallBorrowRate
  <1> QED BY <1>1, <1>2

\* DefaultReserveInterestRateStrategy.calculateInterestRates.
LEMMA RatesNat ==
    ASSUME NEW s \in Strategy, NEW available \in Nat, NEW sd \in Nat, NEW vd \in Nat,
           NEW avg \in Nat, NEW factor \in 0..PERCENTAGE_FACTOR
    PROVE  calculateInterestRates(s, available, sd, vd, avg, factor)
             \in [liquidity: Nat, stable: Nat, variable: Nat]
  <1> DEFINE u == utilizationRate(available, sd + vd)
             v == variableBorrowRate(s, u)
             overall == getOverallBorrowRate(sd, vd, v, avg)
  <1>1. u \in 0..RAY
    <2>1. sd + vd \in Nat
      OBVIOUS
    <2> QED BY <2>1, UtilizationBounded
  <1> HIDE DEF u
  <1>2. v \in Nat /\ stableBorrowRate(s, u) \in Nat
    BY <1>1, CurvesNat
  <1> HIDE DEF v
  <1>3. overall \in Nat
    BY <1>2, OverallRateNat
  <1> HIDE DEF overall
  <1>4. rayMul(overall, u) \in Nat /\ PERCENTAGE_FACTOR - factor \in Nat
    BY <1>1, <1>3, RayMulNat, RayAssumption, PercentageAssumption
  <1>5. percentMul(rayMul(overall, u), PERCENTAGE_FACTOR - factor) \in Nat
    BY <1>4, PercentMulNat
  <1> QED BY <1>2, <1>5 DEF calculateInterestRates, u, v, overall

\* ReserveLogic.updateInterestRates changes the three rates only.
LEMMA UpdateRatesSound ==
    ASSUME NEW t \in Nat, NEW m, Sound(m, t), NEW c \in Config,
           NEW added \in Nat, NEW taken \in Nat, canUpdateInterestRates(m, c, added, taken)
    PROVE  /\ ElFrame(m, updateInterestRates(m, c, t, added, taken), t)
           /\ updateInterestRates(m, c, t, added, taken).cash = m.cash
           /\ updateInterestRates(m, c, t, added, taken).el = m.el
           /\ updateInterestRates(m, c, t, added, taken).elSupply = m.elSupply
  <1> DEFINE available == m.cash + added - taken
             sd == stTotalSupply(m, t)
             vd == rayMul(m.varSupply, m.variableBorrowIndex)
             rates == calculateInterestRates(c.strategy, available, sd, vd, m.stAvgRate,
                                             c.reserveFactor)
             r == [m EXCEPT !.currentLiquidityRate      = rates.liquidity,
                            !.currentStableBorrowRate   = rates.stable,
                            !.currentVariableBorrowRate = rates.variable]
  <1>1. m \in Market
    BY DEF Sound
  <1>2. available \in Nat
    BY <1>1 DEF Market, canUpdateInterestRates
  <1>3. sd \in Nat
    BY StBalanceNat
  <1>4. vd \in Nat
    BY <1>1, RayMulNat DEF Market
  <1>5. m.stAvgRate \in Nat /\ c.strategy \in Strategy /\ c.reserveFactor \in 0..PERCENTAGE_FACTOR
    BY <1>1, PercentageAssumption DEF Market, Config, canUpdateInterestRates
  <1>6. updateInterestRates(m, c, t, added, taken) = r
    BY DEF updateInterestRates
  <1> HIDE DEF available, sd, vd
  <1>7. rates \in [liquidity: Nat, stable: Nat, variable: Nat]
    BY <1>2, <1>3, <1>4, <1>5, RatesNat
  <1> HIDE DEF rates
  <1>8. r \in Market
    BY <1>1, <1>7 DEF Market
  <1>9. SameDebt(m, r) /\ SameIndexes(m, r) /\ r.cash = m.cash /\ r.el = m.el
        /\ r.elSupply = m.elSupply
    BY <1>1 DEF Market, SameDebt, SameIndexes
  <1> HIDE DEF r
  <1>10. ElFrame(m, r, t)
    BY <1>8, <1>9 DEF ElFrame, Sound, SuppliesSummed, IndexesStarted, ClocksOrdered,
                      SameIndexes, SameDebt
  <1> QED BY <1>6, <1>9, <1>10
-------------------------------------------------------------------------------
\* The underlying entering or leaving, and nothing else.
LEMMA CashChange ==
    ASSUME NEW t \in Nat, NEW m, Sound(m, t), NEW c \in Nat
    PROVE  ElFrame(m, [m EXCEPT !.cash = c], t)
  <1> DEFINE r == [m EXCEPT !.cash = c]
  <1>1. m \in Market
    BY DEF Sound
  <1>2. r \in Market
    BY <1>1 DEF Market
  <1>3. SameDebt(m, r) /\ SameIndexes(m, r) /\ r.el = m.el /\ r.elSupply = m.elSupply
    BY <1>1 DEF Market, SameDebt, SameIndexes
  <1> HIDE DEF r
  <1>4. ElFrame(m, r, t)
    BY <1>2, <1>3 DEF ElFrame, Sound, SuppliesSummed, IndexesStarted, ClocksOrdered,
                      SameIndexes, SameDebt
  <1> QED BY <1>4 DEF r

\* A balance reads as zero only if there is no debt at all.
LEMMA NoHiddenDebt ==
    ASSUME NEW t \in Nat, NEW m, Sound(m, t), NEW u \in Users
    PROVE  /\ varBalanceOf(m, u, t) \in Nat /\ (varBalanceOf(m, u, t) = 0 => m.varDebt[u] = 0)
           /\ stBalanceOf(m, u, t) \in Nat /\ (stBalanceOf(m, u, t) = 0 => m.stDebt[u] = 0)
  <1> DEFINE i == getNormalizedDebt(m, t)
             x == calculateCompoundedInterest(m.stRate[u], m.stTime[u], t)
  <1>1. /\ m.varDebt[u] \in Nat /\ m.stDebt[u] \in Nat /\ m.stRate[u] \in Nat
        /\ m.stTime[u] \in Nat /\ m.stTime[u] <= t
        /\ m.variableBorrowIndex \in Nat /\ m.variableBorrowIndex >= RAY
    BY DEF Sound, Market, ClocksOrdered, IndexesStarted
  <1>2. i \in Nat /\ i >= RAY
    BY <1>1, ViewIndexesGrow, RayAssumption
  <1>3. x \in Nat /\ x >= RAY
    BY <1>1, CompoundedInterestGrows
  <1> HIDE DEF i, x
  <1>4. rayMul(m.varDebt[u], i) \in Nat /\ rayMul(m.varDebt[u], i) >= m.varDebt[u]
    BY <1>1, <1>2, RayMulNat, RayMulGrows
  <1>5. rayMul(m.stDebt[u], x) \in Nat /\ rayMul(m.stDebt[u], x) >= m.stDebt[u]
    BY <1>1, <1>3, RayMulNat, RayMulGrows
  <1> QED BY <1>1, <1>4, <1>5 DEF varBalanceOf, stBalanceOf, i, x

\* Burning the variable balance the view reported leaves nothing, whatever the
\* reserve was updated from.
LEMMA BurnAllVar ==
    ASSUME NEW t \in Nat, NEW m, NEW r, Sound(m, t), UpdateFrame(m, r, t), NEW u \in Users,
           canBurnVar(r, u, varBalanceOf(m, u, t))
    PROVE  varBurn(r, u, varBalanceOf(m, u, t)).varDebt[u] = 0
  <1> DEFINE v == varBalanceOf(m, u, t)
             i == r.variableBorrowIndex
             s == m.varDebt[u]
             w == getNormalizedDebt(m, t)
  <1>1. Sound(r, t) /\ r.varDebt[u] = s /\ i <= w /\ v = rayMul(s, w)
    BY DEF UpdateFrame, SameDebt, varBalanceOf
  <1>2. s \in Nat /\ i \in Nat \ {0} /\ i >= RAY /\ w \in Nat
    BY <1>1, ViewIndexesGrow, RayAssumption DEF Sound, Market, IndexesStarted
  <1>3. v \in Nat
    BY <1>1, <1>2, RayMulNat
  <1>4. canBurnVar(r, u, v)
    OBVIOUS
  <1>5. /\ varBurn(r, u, v).varDebt[u] = s - rayDiv(v, i)
        /\ rayDiv(v, i) \in 0..s
    BY <1>1, <1>3, <1>4, VarBurnSound
  <1> HIDE DEF v, i, s, w
  <1>6. rayMul(s, i) \in Nat /\ rayMul(s, i) <= v
    BY <1>1, <1>2, RayMulNat, RayMulMonotone
  <1>7. rayDiv(rayMul(s, i), i) <= rayDiv(v, i)
    BY <1>2, <1>3, <1>6, RayDivMonotone
  <1>8. rayDiv(rayMul(s, i), i) = s
    BY <1>2, ScaledRoundTrip
  <1>9. varBurn(r, u, v).varDebt[u] = 0
    BY <1>2, <1>5, <1>7, <1>8
  <1> QED BY <1>9 DEF v

\* The interest accrued since the last update is never negative, so the
\* subtractions of _mintToTreasury do not revert.
LEMMA AccruedNat ==
    ASSUME NEW t \in Nat, NEW m, Sound(m, t)
    PROVE  totalDebtAccrued(m, updateIndexes(m, t).variableBorrowIndex, t) >= 0
  <1> DEFINE i == updateIndexes(m, t).variableBorrowIndex
             old == m.variableBorrowIndex
             x1 == calculateCompoundedInterest(m.stAvgRate, m.stTimestamp, m.lastUpdateTimestamp)
             x2 == calculateCompoundedInterest(m.stAvgRate, m.stTimestamp, t)
  <1>1. /\ m.varSupply \in Nat /\ old \in Nat /\ m.stSupply \in Nat
        /\ m.stAvgRate \in Nat /\ m.stTimestamp \in Nat /\ m.lastUpdateTimestamp \in Nat
        /\ m.stTimestamp <= m.lastUpdateTimestamp /\ m.lastUpdateTimestamp <= t
    BY DEF Sound, Market, ClocksOrdered
  <1>2. i \in Nat /\ old <= i
    BY UpdateIndexesSound DEF UpdateFrame, Sound, Market, IndexesGrow
  <1>3. x1 \in Nat /\ x2 \in Nat /\ x1 <= x2
    <2>1. m.stTimestamp <= t
      BY <1>1
    <2>2. x1 \in Nat
      BY <1>1, CompoundedInterestGrows
    <2>3. x2 \in Nat
      BY <1>1, <2>1, CompoundedInterestGrows
    <2>4. x1 <= x2
      BY <1>1, CompoundedInterestMonotone
    <2> QED BY <2>2, <2>3, <2>4
  <1>4. stTotalSupply(m, t) = IF m.stSupply = 0 THEN 0 ELSE rayMul(m.stSupply, x2)
    BY DEF stTotalSupply
  <1>5. totalDebtAccrued(m, i, t) =
          rayMul(m.varSupply, i) + stTotalSupply(m, t)
            - rayMul(m.varSupply, old) - rayMul(m.stSupply, x1)
    BY DEF totalDebtAccrued
  <1> HIDE DEF i, x1, x2
  <1>6. /\ rayMul(m.varSupply, i) \in Nat /\ rayMul(m.varSupply, old) \in Nat
        /\ rayMul(m.varSupply, old) <= rayMul(m.varSupply, i)
    BY <1>1, <1>2, RayMulNat, RayMulMonotone
  <1>7. rayMul(m.stSupply, x1) \in Nat /\ rayMul(m.stSupply, x2) \in Nat
    BY <1>1, <1>3, RayMulNat
  <1>8. rayMul(m.stSupply, x1) <= rayMul(m.stSupply, x2)
    BY <1>1, <1>3, RayMulMonotone
  <1>9. m.stSupply = 0 => rayMul(m.stSupply, x1) = 0
    <2>1. halfRAY \div RAY = 0 /\ 0 * x1 = 0
      BY <1>3, HalfRay, RayAssumption
    <2> QED BY <2>1, HalfRay DEF rayMul
  <1>10. totalDebtAccrued(m, i, t) >= 0
    BY <1>4, <1>5, <1>6, <1>7, <1>8, <1>9
  <1> QED BY <1>10 DEF i

-------------------------------------------------------------------------------
(***************************************************************************)
(* Whose elTokens move.  These facts need no more of a reserve than that   *)
(* it has an elToken balance for each account, and no guard.               *)
(***************************************************************************)
HasBalances(m) == "el" \in DOMAIN m /\ Accounts \subseteq DOMAIN m.el

\* The elTokens of the users in S are where they were; only the treasury's and those
\* of other users may have moved.
Untouched(m, r, S) == HasBalances(r) /\ \A u \in S : r.el[u] = m.el[u]

\* A reserve has a balance for each account.
LEMMA MarketHasBalances ==
    ASSUME NEW m \in Market
    PROVE  HasBalances(m)
  BY DEF HasBalances, Market

\* Moving the treasury's balance.
LEMMA TreasuryUntouched ==
    ASSUME NEW m, HasBalances(m), NEW amount, NEW index
    PROVE  Untouched(m, mintToTreasury(m, amount, index), Users)
  <1> DEFINE k == rayDiv(amount, index)
             f == [m.el EXCEPT ![Treasury] = @ + k]
  <1>1. DOMAIN f = DOMAIN m.el /\ \A u \in Users : f[u] = m.el[u]
    BY TreasuryAssumption DEF HasBalances, Accounts
  <1> HIDE DEF f
  <1>2. mintToTreasury(m, amount, index) = [m EXCEPT !.el = f, !.elSupply = @ + k]
    BY DEF mintToTreasury, f
  <1> HIDE DEF k
  <1> QED BY <1>1, <1>2 DEF HasBalances, Untouched

\* Accruing interest takes nothing from a user.
LEMMA UpdateStateUntouched ==
    ASSUME NEW m, HasBalances(m), NEW c, NEW t
    PROVE  Untouched(m, updateState(m, c, t), Users)
  <1> DEFINE n == updateIndexes(m, t)
  <1>1. Untouched(m, n, Users)
    <2> DEFINE income == calculateLinearInterest(m.currentLiquidityRate,
                                                 m.lastUpdateTimestamp, t)
               r == mintToTreasury(m, income - RAY, m.liquidityIndex)
    <2>1. \E b \in {m, r} : \E x, y :
             n = [b EXCEPT !.liquidityIndex = x, !.variableBorrowIndex = y,
                           !.lastUpdateTimestamp = t]
      BY DEF updateIndexes
    <2>2. Untouched(m, r, Users)
      BY TreasuryUntouched
    <2> HIDE DEF n, r
    <2>3. \A b \in {m, r} : Untouched(m, b, Users)
      BY <2>2 DEF Untouched
    <2> QED BY <2>1, <2>3 DEF HasBalances, Untouched
  <1> HIDE DEF n
  <1>2. updateState(m, c, t) = n \/ \E x, y : updateState(m, c, t) = mintToTreasury(n, x, y)
    BY DEF updateState, n
  <1>3. \A x, y : Untouched(n, mintToTreasury(n, x, y), Users)
    BY <1>1, TreasuryUntouched DEF Untouched
  <1> QED BY <1>1, <1>2, <1>3 DEF Untouched

\* Nor do the interest rates, the cash or a debt token.
LEMMA RatesUntouched ==
    ASSUME NEW m, HasBalances(m), NEW c, NEW t, NEW x, NEW y
    PROVE  Untouched(m, updateInterestRates(m, c, t, x, y), Users)
  BY DEF updateInterestRates, HasBalances, Untouched

LEMMA CashUntouched ==
    ASSUME NEW m, HasBalances(m), NEW c
    PROVE  Untouched(m, [m EXCEPT !.cash = c], Users)
  BY DEF HasBalances, Untouched

LEMMA DebtTokensUntouched ==
    ASSUME NEW m, HasBalances(m), NEW u, NEW amount, NEW x, NEW t
    PROVE  /\ Untouched(m, varMint(m, u, amount, x), Users)
           /\ Untouched(m, varBurn(m, u, amount), Users)
           /\ Untouched(m, stMint(m, u, amount, x, t), Users)
           /\ Untouched(m, stBurn(m, u, amount, t), Users)
  BY DEF varMint, varBurn, stMint, stBurn, HasBalances, Untouched

\* A mint, a burn or a transfer of elTokens touches the named users only.
LEMMA ElTokenUntouched ==
    ASSUME NEW m, HasBalances(m), NEW u, NEW v, NEW amount, NEW t
    PROVE  /\ Untouched(m, elMint(m, u, amount), Users \ {u})
           /\ Untouched(m, elBurn(m, u, amount), Users \ {u})
           /\ Untouched(m, elTransfer(m, u, v, amount, t), Users \ {u, v})
  <1>1. Untouched(m, elMint(m, u, amount), Users \ {u})
    BY DEF elMint, HasBalances, Untouched
  <1>2. Untouched(m, elBurn(m, u, amount), Users \ {u})
    BY DEF elBurn, HasBalances, Untouched
  <1>3. Untouched(m, elTransfer(m, u, v, amount, t), Users \ {u, v})
    <2> DEFINE k == rayDiv(amount, getNormalizedIncome(m, t))
               g == [m.el EXCEPT ![u] = @ - k]
               f == [g EXCEPT ![v] = @ + k]
    <2>1. DOMAIN f = DOMAIN m.el /\ \A w \in Users \ {u, v} : f[w] = m.el[w]
      BY DEF HasBalances, Accounts
    <2> HIDE DEF f
    <2>2. elTransfer(m, u, v, amount, t) = [m EXCEPT !.el = f]
      BY DEF elTransfer, f
    <2> QED BY <2>1, <2>2 DEF HasBalances, Untouched
  <1> QED BY <1>1, <1>2, <1>3

\* A transfer of an amount takes from its sender only.
LEMMA TransferTakesFromSender ==
    ASSUME NEW t \in Nat, NEW m, Sound(m, t), NEW from \in Users, NEW to \in Users,
           NEW amount \in Nat
    PROVE  \A w \in Users \ {from} : elTransfer(m, from, to, amount, t).el[w] >= m.el[w]
  <1> DEFINE k == rayDiv(amount, getNormalizedIncome(m, t))
             g == [m.el EXCEPT ![from] = @ - k]
             f == [g EXCEPT ![to] = @ + k]
  <1>1. m \in Market /\ m.el \in [Accounts -> Nat] /\ Users \subseteq Accounts
    BY DEF Sound, Market, Accounts
  <1>2. getNormalizedIncome(m, t) \in Nat \ {0}
    BY ViewIndexesGrow, RayAssumption DEF Sound, IndexesStarted, Market
  <1>3. k \in Nat
    BY <1>2, RayDivNat
  <1>4. elTransfer(m, from, to, amount, t).el = f
    BY <1>1 DEF elTransfer, Market
  <1> HIDE DEF k
  <1>5. DOMAIN g = Accounts /\ \A w \in Users \ {from} : g[w] = m.el[w]
    BY <1>1
  <1> HIDE DEF g
  <1>6. \A w \in Users \ {from} : f[w] = IF w = to THEN m.el[w] + k ELSE m.el[w]
    BY <1>1, <1>5
  <1> HIDE DEF f
  <1>7. \A w \in Users \ {from} : f[w] >= m.el[w]
    BY <1>1, <1>3, <1>6
  <1> QED BY <1>4, <1>7

\* No change, one change after another, and what is left of a reserve after one.
LEMMA UntouchedTrans ==
    ASSUME NEW m1, NEW m2, NEW m3, NEW S,
           Untouched(m1, m2, S), Untouched(m2, m3, S)
    PROVE  Untouched(m1, m3, S)
  BY DEF Untouched

LEMMA UntouchedSame ==
    ASSUME NEW m, HasBalances(m), NEW S
    PROVE  Untouched(m, m, S)
  BY DEF Untouched

LEMMA UntouchedHas ==
    ASSUME NEW m, NEW r, NEW S, Untouched(m, r, S), NEW R \in SUBSET S
    PROVE  HasBalances(r) /\ Untouched(m, r, R)
  BY DEF Untouched

-------------------------------------------------------------------------------
(***************************************************************************)
(* The balance a variable debt token shows, and the one updateState stores.*)
(* The view compounds the variable rate whenever time has passed; the code *)
(* of _updateIndexes compounds it only if the reserve earns something      *)
(* (currentLiquidityRate > 0).  They agree when a reserve that earns       *)
(* nothing charges nothing either.                                         *)
(***************************************************************************)
ChargesWhatItEarns(m, t) ==
    m.currentLiquidityRate = 0 /\ m.varSupply # 0
      => calculateCompoundedInterest(m.currentVariableBorrowRate, m.lastUpdateTimestamp, t) = RAY

\* updateState stores the variable debt that was shown before it.
LEMMA ShownDebtIsStored ==
    ASSUME NEW t \in Nat, NEW m, Sound(m, t), NEW c \in Config, canUpdateState(m, c, t),
           NEW u \in Users, ChargesWhatItEarns(m, t)
    PROVE  varBalanceOf(updateState(m, c, t), u, t) = varBalanceOf(m, u, t)
  <1> DEFINE l == m.lastUpdateTimestamp
             comp == calculateCompoundedInterest(m.currentVariableBorrowRate, l, t)
             n == updateIndexes(m, t)
             stored == n.variableBorrowIndex
             r == updateState(m, c, t)
             g == getNormalizedDebt(m, t)
  <1>1. /\ m \in Market /\ l \in Nat /\ l <= t /\ m.varSupply \in Nat /\ m.varDebt[u] \in Nat
        /\ m.variableBorrowIndex \in Nat /\ m.currentLiquidityRate \in Nat
    BY DEF Sound, Market, ClocksOrdered
  <1>2. UpdateFrame(m, r, t)
    BY UpdateStateSound
  <1>3. r.varDebt = m.varDebt /\ r.lastUpdateTimestamp = t
    BY <1>2 DEF UpdateFrame, SameDebt
  <1>4. r.variableBorrowIndex = stored
    <2>1. n \in Market
      BY UpdateIndexesSound DEF UpdateFrame, Sound
    <2> HIDE DEF n
    <2>2. \A amount, index : mintToTreasury(n, amount, index).variableBorrowIndex
                               = n.variableBorrowIndex
      BY <2>1 DEF mintToTreasury, Market
    <2> QED BY <2>2 DEF updateState, n
  <1>5. stored = IF m.currentLiquidityRate > 0 /\ m.varSupply # 0
                 THEN rayMul(comp, m.variableBorrowIndex)
                 ELSE m.variableBorrowIndex
    <2> DEFINE income == calculateLinearInterest(m.currentLiquidityRate, l, t)
               i == IF m.currentLiquidityRate > 0 THEN rayMul(income, m.liquidityIndex)
                    ELSE m.liquidityIndex
               minted == IF i # m.liquidityIndex
                         THEN mintToTreasury(m, income - RAY, m.liquidityIndex) ELSE m
    <2>1. \A amount, index : DOMAIN mintToTreasury(m, amount, index) = DOMAIN m
      BY <1>1 DEF mintToTreasury, Market
    <2>2. DOMAIN minted = DOMAIN m
      BY <2>1
    <2>3. "variableBorrowIndex" \in DOMAIN m
      BY <1>1 DEF Market
    <2> HIDE DEF i
    <2> QED BY <2>2, <2>3 DEF updateIndexes, i
  <1>6. varBalanceOf(r, u, t) = rayMul(m.varDebt[u], stored)
    BY <1>3, <1>4 DEF varBalanceOf, getNormalizedDebt
  <1>7. rayMul(RAY, m.variableBorrowIndex) = m.variableBorrowIndex
    <2>1. rayMul(RAY, m.variableBorrowIndex) = rayMul(m.variableBorrowIndex, RAY)
      BY <1>1, RayAssumption DEF rayMul
    <2> QED BY <2>1, <1>1, RayMulOne
  <1>8. /\ varBalanceOf(m, u, t) = rayMul(m.varDebt[u], g)
        /\ g = IF l = t THEN m.variableBorrowIndex ELSE rayMul(comp, m.variableBorrowIndex)
    BY DEF varBalanceOf, getNormalizedDebt
  <1>9. l = t => comp = RAY
    BY DEF calculateCompoundedInterest
  <1>10. m.varSupply # 0 /\ m.currentLiquidityRate = 0 => comp = RAY
    BY DEF ChargesWhatItEarns
  <1>11. g \in Nat /\ stored \in Nat
    <2>1. g \in Nat
      BY <1>1, ViewIndexesGrow
    <2>2. n \in Market
      BY UpdateIndexesSound DEF UpdateFrame, Sound
    <2> HIDE DEF n, g
    <2> QED BY <2>1, <2>2 DEF Market
  <1> HIDE DEF comp, r, stored, g
  <1>12. CASE m.varSupply = 0
    <2>1. m.varDebt[u] = 0
      <3> DEFINE debts == m.varDebt
      <3>1. debts \in [Users -> Nat] /\ SumFunction(debts) = 0
        BY <1>1, <1>12 DEF Sound, SuppliesSummed, Market
      <3> HIDE DEF debts
      <3>2. debts[u] <= 0 /\ debts[u] \in Nat
        BY <3>1, UsersAssumption, PartBelowSum
      <3> QED BY <3>2 DEF debts
    <2>2. \A x \in Nat : rayMul(0, x) = 0
      BY HalfRay, RayAssumption DEF rayMul
    <2> QED BY <1>6, <1>8, <1>11, <2>1, <2>2 DEF r
  <1>13. CASE m.varSupply # 0
    <2>1. stored = g
      BY <1>1, <1>5, <1>7, <1>8, <1>9, <1>10, <1>13
    <2> QED BY <2>1, <1>6, <1>8 DEF r
  <1> QED BY <1>12, <1>13

\* The income index a transfer of elTokens uses is the one updateState stores.
LEMMA ShownIncomeIsStored ==
    ASSUME NEW t \in Nat, NEW m, Sound(m, t), NEW c \in Config
    PROVE  updateState(m, c, t).liquidityIndex = getNormalizedIncome(m, t)
  <1> DEFINE l == m.lastUpdateTimestamp
             rate == m.currentLiquidityRate
             income == calculateLinearInterest(rate, l, t)
             n == updateIndexes(m, t)
             stored == IF rate > 0 THEN rayMul(income, m.liquidityIndex) ELSE m.liquidityIndex
  <1>1. m \in Market /\ l \in Nat /\ rate \in Nat /\ m.liquidityIndex \in Nat
    BY DEF Sound, Market
  <1>2. updateState(m, c, t).liquidityIndex = n.liquidityIndex
    <2>1. n \in Market
      BY UpdateIndexesSound DEF UpdateFrame, Sound
    <2> HIDE DEF n
    <2>2. \A amount, index : mintToTreasury(n, amount, index).liquidityIndex = n.liquidityIndex
      BY <2>1 DEF mintToTreasury, Market
    <2> QED BY <2>2 DEF updateState, n
  <1>3. n.liquidityIndex = stored
    <2> DEFINE minted == IF stored # m.liquidityIndex
                         THEN mintToTreasury(m, income - RAY, m.liquidityIndex) ELSE m
    <2>1. \A amount, index : DOMAIN mintToTreasury(m, amount, index) = DOMAIN m
      BY <1>1 DEF mintToTreasury, Market
    <2>2. DOMAIN minted = DOMAIN m
      BY <2>1
    <2>3. "liquidityIndex" \in DOMAIN m
      BY <1>1 DEF Market
    <2> HIDE DEF stored
    <2> QED BY <2>2, <2>3 DEF updateIndexes, stored
  <1>4. rayMul(RAY, m.liquidityIndex) = m.liquidityIndex
    <2>1. rayMul(RAY, m.liquidityIndex) = rayMul(m.liquidityIndex, RAY)
      BY <1>1, RayAssumption DEF rayMul
    <2> QED BY <2>1, <1>1, RayMulOne
  <1>5. rate = 0 \/ l = t => income = RAY
    <2>1. rate = 0 \/ l = t => rate * (t - l) = 0
      BY <1>1
    <2>2. 0 \div SECONDS_PER_YEAR = 0
      BY YearAssumption
    <2> QED BY <2>1, <2>2, RayAssumption DEF calculateLinearInterest
  <1> HIDE DEF income
  <1>6. stored = IF l = t THEN m.liquidityIndex ELSE rayMul(income, m.liquidityIndex)
    BY <1>1, <1>4, <1>5
  <1> QED BY <1>2, <1>3, <1>6 DEF getNormalizedIncome, income

-------------------------------------------------------------------------------
(***************************************************************************)
(* What the users own of a reserve: the claims of their elTokens less      *)
(* their debts.  updateState and updateInterestRates leave it alone, each  *)
(* token moves it by the amount it is called with, up to rounding.         *)
(***************************************************************************)
claim(m, u, t) == rayMul(m.el[u], getNormalizedIncome(m, t)) - userDebt(m, u, t)

Claims(m, t) == SumFunction([u \in Users |-> claim(m, u, t)])

\* From m to r the claims move by x, give or take d.
Shifts(m, r, t, x, d) ==
    Claims(r, t) - Claims(m, t) - x <= d /\ x - (Claims(r, t) - Claims(m, t)) <= d

\* From m to r the debt of u goes down by x, give or take d.
Pays(m, r, u, t, x, d) ==
    /\ userDebt(m, u, t) - userDebt(r, u, t) - x <= d
    /\ x - (userDebt(m, u, t) - userDebt(r, u, t)) <= d

\* Sums add up.
LEMMA SumAdds ==
    ASSUME NEW S, IsFiniteSet(S), NEW f \in [S -> Int], NEW g \in [S -> Int]
    PROVE  SumFunction([x \in S |-> f[x] + g[x]]) = SumFunction(f) + SumFunction(g)
  <1> DEFINE h == [x \in S |-> f[x] + g[x]]
             p == PartialSums(f, S)
             q == PartialSums(g, S)
             r == PartialSums(h, S)
             Bad == {s \in SUBSET S : r[s] # p[s] + q[s]}
  <1>1. /\ S = DOMAIN f /\ S = DOMAIN g /\ S = DOMAIN h /\ h \in [S -> Int]
        /\ \A x \in S : h[x] = f[x] + g[x]
    OBVIOUS
  <1> HIDE DEF h, p, q, r
  <1>2. Solves(f, p, SUBSET S) /\ Solves(g, q, SUBSET S) /\ Solves(h, r, SUBSET S)
    BY <1>1, PartialSumsSolve DEF p, q, r
  <1>3. CASE Bad # {}
    <2>1. PICK s \in Bad : \A z \in Bad : z \subseteq s => z = s
      <3>1. Bad \subseteq SUBSET S
        OBVIOUS
      <3> HIDE DEF Bad
      <3> QED BY <1>3, <3>1, LeastSubset
    <2>2. CASE s = {}
      <3>1. p[s] = 0 /\ q[s] = 0 /\ r[s] = 0
        BY <1>2, <2>1, <2>2 DEF Solves, Adds
      <3> QED BY <2>1, <3>1
    <2>3. CASE s # {}
      <3> DEFINE c == Chosen(s)
                 z == s \ {c}
      <3>1. c \in s
        BY <2>3, ChosenElement
      <3>2. z \notin Bad /\ z \in SUBSET S /\ c \in S
        BY <2>1, <3>1
      <3>3. /\ p[s] = f[c] + p[z] /\ q[s] = g[c] + q[z] /\ r[s] = h[c] + r[z]
            /\ p[z] \in Int /\ q[z] \in Int /\ r[z] \in Int
        BY <1>2, <2>1, <2>3, <3>2 DEF Solves, Adds
      <3>4. r[z] = p[z] + q[z] /\ h[c] = f[c] + g[c]
        BY <1>1, <3>2
      <3> HIDE DEF z, c
      <3> QED BY <2>1, <3>2, <3>3, <3>4
    <2> QED BY <2>2, <2>3
  <1>4. CASE Bad = {}
    <2>1. r[S] = p[S] + q[S]
      BY <1>4
    <2> QED BY <1>1, <2>1, SumIsPartialSum DEF p, q, r, h
  <1> QED BY <1>3, <1>4

\* A claim is a number, negative for who owes more than the elTokens are worth.
LEMMA ClaimsInt ==
    ASSUME NEW t \in Nat, NEW m, Sound(m, t)
    PROVE  /\ [u \in Users |-> claim(m, u, t)] \in [Users -> Int]
           /\ Claims(m, t) \in Int
  <1> DEFINE f == [u \in Users |-> claim(m, u, t)]
  <1>1. ASSUME NEW u \in Users
        PROVE  claim(m, u, t) \in Int
    <2>1. m.el[u] \in Nat
      BY DEF Sound, Market, Accounts
    <2>2. rayMul(m.el[u], getNormalizedIncome(m, t)) \in Nat
      BY <2>1, ViewIndexesGrow, RayMulNat
    <2>3. varBalanceOf(m, u, t) \in Nat /\ stBalanceOf(m, u, t) \in Nat
      BY NoHiddenDebt
    <2> QED BY <2>2, <2>3 DEF claim, userDebt
  <1>2. f \in [Users -> Int]
    BY <1>1
  <1> HIDE DEF f
  <1>3. SumFunction(f) \in Int
    BY <1>2, UsersAssumption, SumInt
  <1> QED BY <1>2, <1>3 DEF f, Claims

\* If no claim moves, neither does their sum.
LEMMA SameClaims ==
    ASSUME NEW t, NEW m, NEW r, \A u \in Users : claim(r, u, t) = claim(m, u, t)
    PROVE  Claims(r, t) = Claims(m, t)
  BY DEF Claims

\* If one claim moves by about x, so does the sum.
LEMMA OneShift ==
    ASSUME NEW t \in Nat, NEW m, NEW r, Sound(m, t), Sound(r, t), NEW u \in Users,
           \A v \in Users \ {u} : claim(r, v, t) = claim(m, v, t),
           NEW x \in Int, NEW d \in Int,
           claim(r, u, t) - claim(m, u, t) - x <= d,
           x - (claim(r, u, t) - claim(m, u, t)) <= d
    PROVE  Shifts(m, r, t, x, d)
  <1> DEFINE f == [v \in Users |-> claim(m, v, t)]
             g == [v \in Users |-> claim(r, v, t)]
  <1>1. f \in [Users -> Int] /\ g \in [Users -> Int] /\ Claims(m, t) \in Int
    BY ClaimsInt
  <1>2. /\ \A v \in Users \ {u} : g[v] = f[v]
        /\ g[u] = claim(r, u, t) /\ f[u] = claim(m, u, t)
    OBVIOUS
  <1>3. Claims(m, t) = SumFunction(f) /\ Claims(r, t) = SumFunction(g)
    BY DEF Claims
  <1> HIDE DEF f, g
  <1>4. SumFunction(g) = SumFunction(f) + (g[u] - f[u])
    BY <1>1, <1>2, UsersAssumption, SumChange
  <1>5. g[u] \in Int /\ f[u] \in Int
    BY <1>1
  <1> QED BY <1>1, <1>2, <1>3, <1>4, <1>5 DEF Shifts

\* One shift after another.
LEMMA ShiftsAdd ==
    ASSUME NEW t \in Nat, NEW m, NEW r, NEW s, Sound(m, t), Sound(r, t), Sound(s, t),
           NEW x \in Int, NEW y \in Int, NEW d \in Int, NEW e \in Int,
           Shifts(m, r, t, x, d), Shifts(r, s, t, y, e)
    PROVE  Shifts(m, s, t, x + y, d + e)
  <1>1. Claims(m, t) \in Int /\ Claims(r, t) \in Int /\ Claims(s, t) \in Int
    BY ClaimsInt
  <1> QED BY <1>1 DEF Shifts

\* Settling the interest moves no claim: the views reported it before.
LEMMA UpdateKeepsClaims ==
    ASSUME NEW t \in Nat, NEW m, Sound(m, t), NEW c \in Config, canUpdateState(m, c, t),
           ChargesWhatItEarns(m, t)
    PROVE  Claims(updateState(m, c, t), t) = Claims(m, t)
  <1> DEFINE r == updateState(m, c, t)
  <1>1. UpdateFrame(m, r, t)
    BY UpdateStateSound
  <1>2. r.liquidityIndex = getNormalizedIncome(m, t)
    BY ShownIncomeIsStored
  <1>3. \A u \in Users : r.el[u] = m.el[u]
    <2>1. HasBalances(m)
      BY MarketHasBalances DEF Sound
    <2> QED BY <2>1, UpdateStateUntouched DEF Untouched
  <1>4. \A u \in Users : varBalanceOf(r, u, t) = varBalanceOf(m, u, t)
    BY ShownDebtIsStored
  <1> HIDE DEF r
  <1>5. getNormalizedIncome(r, t) = getNormalizedIncome(m, t)
    BY <1>1, <1>2 DEF UpdateFrame, getNormalizedIncome
  <1>6. \A u \in Users : stBalanceOf(r, u, t) = stBalanceOf(m, u, t)
    BY <1>1 DEF UpdateFrame, SameDebt, stBalanceOf
  <1>7. \A u \in Users : claim(r, u, t) = claim(m, u, t)
    BY <1>3, <1>4, <1>5, <1>6 DEF claim, userDebt
  <1> QED BY <1>7, SameClaims DEF r

\* Neither do new rates or a payment of cash, for a reserve that is up to date.
LEMMA FrameKeepsClaims ==
    ASSUME NEW t, NEW m, NEW r, m.lastUpdateTimestamp = t,
           SameDebt(m, r), SameIndexes(m, r), \A u \in Users : r.el[u] = m.el[u]
    PROVE  Claims(r, t) = Claims(m, t)
  <1>1. \A u \in Users : claim(r, u, t) = claim(m, u, t)
    BY DEF SameDebt, SameIndexes, claim, userDebt, getNormalizedIncome, varBalanceOf,
           getNormalizedDebt, stBalanceOf
  <1> QED BY <1>1, SameClaims

\* Cash that comes or goes.
LEMMA CashKeepsClaims ==
    ASSUME NEW t \in Nat, NEW m, Sound(m, t), m.lastUpdateTimestamp = t, NEW c
    PROVE  Claims([m EXCEPT !.cash = c], t) = Claims(m, t)
  <1> DEFINE r == [m EXCEPT !.cash = c]
  <1>1. m \in Market
    BY DEF Sound
  <1>2. SameDebt(m, r) /\ SameIndexes(m, r) /\ r.el = m.el
    BY <1>1 DEF Market, SameDebt, SameIndexes
  <1> HIDE DEF r
  <1>3. Claims(r, t) = Claims(m, t)
    BY <1>2, FrameKeepsClaims
  <1> QED BY <1>3 DEF r

\* updateInterestRates
LEMMA RatesKeepClaims ==
    ASSUME NEW t \in Nat, NEW m, Sound(m, t), m.lastUpdateTimestamp = t, NEW c \in Config,
           NEW added \in Nat, NEW taken \in Nat, canUpdateInterestRates(m, c, added, taken)
    PROVE  Claims(updateInterestRates(m, c, t, added, taken), t) = Claims(m, t)
  <1> DEFINE r == updateInterestRates(m, c, t, added, taken)
  <1>1. ElFrame(m, r, t) /\ r.el = m.el
    BY UpdateRatesSound
  <1> HIDE DEF r
  <1>2. Claims(r, t) = Claims(m, t)
    BY <1>1, FrameKeepsClaims DEF ElFrame
  <1> QED BY <1>2 DEF r

\* What one scaled unit is worth.
LEMMA UnitNat ==
    ASSUME NEW i \in Nat \ {0}
    PROVE  rayMul(1, i) \in Nat /\ rayMul(1, i) + 1 \in Int
  <1>1. 1 \in Nat /\ i \in Nat
    OBVIOUS
  <1>2. rayMul(1, i) \in Nat
    BY <1>1, RayMulNat
  <1> QED BY <1>2

\* ELToken.mint: the claim of u rises by the amount.
LEMMA ElMintShifts ==
    ASSUME NEW t \in Nat, NEW m, Sound(m, t), m.lastUpdateTimestamp = t, NEW u \in Users,
           NEW amount \in Nat
    PROVE  Shifts(m, elMint(m, u, amount), t, amount, rayMul(1, m.liquidityIndex) + 1)
  <1> DEFINE i == m.liquidityIndex
             k == rayDiv(amount, i)
             r == elMint(m, u, amount)
             e == m.el[u]
             d == rayMul(1, i) + 1
  <1>1. m \in Market /\ i \in Nat \ {0} /\ e \in Nat
    BY RayAssumption DEF Sound, Market, IndexesStarted, Accounts
  <1>2. ElFrame(m, r, t)
    BY ElMintSound
  <1>3. r.el[u] = e + k /\ \A v \in Users \ {u} : r.el[v] = m.el[v]
    BY <1>1 DEF elMint, Market, Accounts
  <1>4. k \in Nat
    BY <1>1, RayDivNat
  <1> HIDE DEF r
  <1>5. getNormalizedIncome(r, t) = i /\ getNormalizedIncome(m, t) = i
    BY <1>2 DEF ElFrame, SameIndexes, getNormalizedIncome
  <1>6. \A v \in Users : userDebt(r, v, t) = userDebt(m, v, t) /\ userDebt(m, v, t) \in Int
    <2>1. \A v \in Users : userDebt(r, v, t) = userDebt(m, v, t)
      BY <1>2 DEF ElFrame, SameIndexes, SameDebt, userDebt, varBalanceOf, getNormalizedDebt,
                  stBalanceOf
    <2>2. \A v \in Users : userDebt(m, v, t) \in Int
      BY NoHiddenDebt DEF userDebt
    <2> QED BY <2>1, <2>2
  <1>7. \A v \in Users \ {u} : claim(r, v, t) = claim(m, v, t)
    BY <1>3, <1>5, <1>6 DEF claim
  <1>8. /\ claim(r, u, t) - claim(m, u, t) = rayMul(e + k, i) - rayMul(e, i)
        /\ rayMul(e + k, i) - rayMul(e, i) \in Int
    <2>1. rayMul(e + k, i) \in Nat /\ rayMul(e, i) \in Nat
      <3> HIDE DEF k, e, i
      <3>1. e + k \in Nat
        BY <1>1, <1>4
      <3> QED BY <1>1, <3>1, RayMulNat
    <2>2. /\ claim(r, u, t) = rayMul(e + k, i) - userDebt(m, u, t)
          /\ claim(m, u, t) = rayMul(e, i) - userDebt(m, u, t)
      BY <1>3, <1>5, <1>6 DEF claim
    <2> HIDE DEF k, e, i
    <2> QED BY <1>6, <2>1, <2>2
  <1>9. /\ rayMul(e + k, i) - rayMul(e, i) - amount <= d
        /\ amount - (rayMul(e + k, i) - rayMul(e, i)) <= d
    BY <1>1, MintRounds
  <1>10. d \in Int
    BY <1>1, UnitNat
  <1>11. Sound(r, t)
    BY <1>2 DEF ElFrame
  <1> HIDE DEF d, k, e, i
  <1>12. Shifts(m, r, t, amount, d)
    BY <1>7, <1>8, <1>9, <1>10, <1>11, OneShift
  <1> QED BY <1>12 DEF d, r, i

\* ELToken.burn: it falls by the amount.
LEMMA ElBurnShifts ==
    ASSUME NEW t \in Nat, NEW m, Sound(m, t), m.lastUpdateTimestamp = t, NEW u \in Users,
           NEW amount \in Nat, canBurnEl(m, u, amount)
    PROVE  Shifts(m, elBurn(m, u, amount), t, -amount, rayMul(1, m.liquidityIndex) + 1)
  <1> DEFINE i == m.liquidityIndex
             k == rayDiv(amount, i)
             r == elBurn(m, u, amount)
             e == m.el[u]
             d == rayMul(1, i) + 1
  <1>1. m \in Market /\ i \in Nat \ {0} /\ e \in Nat
    BY RayAssumption DEF Sound, Market, IndexesStarted, Accounts
  <1>2. ElFrame(m, r, t)
    BY ElBurnSound
  <1>3. r.el[u] = e - k /\ \A v \in Users \ {u} : r.el[v] = m.el[v]
    BY <1>1 DEF elBurn, Market, Accounts
  <1>4. k \in Nat /\ k <= e
    BY <1>1, RayDivNat DEF canBurnEl
  <1> HIDE DEF r
  <1>5. getNormalizedIncome(r, t) = i /\ getNormalizedIncome(m, t) = i
    BY <1>2 DEF ElFrame, SameIndexes, getNormalizedIncome
  <1>6. \A v \in Users : userDebt(r, v, t) = userDebt(m, v, t) /\ userDebt(m, v, t) \in Int
    <2>1. \A v \in Users : userDebt(r, v, t) = userDebt(m, v, t)
      BY <1>2 DEF ElFrame, SameIndexes, SameDebt, userDebt, varBalanceOf, getNormalizedDebt,
                  stBalanceOf
    <2>2. \A v \in Users : userDebt(m, v, t) \in Int
      BY NoHiddenDebt DEF userDebt
    <2> QED BY <2>1, <2>2
  <1>7. \A v \in Users \ {u} : claim(r, v, t) = claim(m, v, t)
    BY <1>3, <1>5, <1>6 DEF claim
  <1>8. /\ claim(r, u, t) - claim(m, u, t) = rayMul(e - k, i) - rayMul(e, i)
        /\ rayMul(e - k, i) \in Nat /\ rayMul(e, i) \in Nat
    <2>1. rayMul(e - k, i) \in Nat /\ rayMul(e, i) \in Nat
      <3> HIDE DEF k, e, i
      <3>1. e - k \in Nat
        BY <1>1, <1>4
      <3> QED BY <1>1, <3>1, RayMulNat
    <2>2. /\ claim(r, u, t) = rayMul(e - k, i) - userDebt(m, u, t)
          /\ claim(m, u, t) = rayMul(e, i) - userDebt(m, u, t)
      BY <1>3, <1>5, <1>6 DEF claim
    <2> HIDE DEF k, e, i
    <2> QED BY <1>6, <2>1, <2>2
  <1>9. /\ rayMul(e, i) - rayMul(e - k, i) - amount <= d
        /\ amount - (rayMul(e, i) - rayMul(e - k, i)) <= d
    BY <1>1, <1>4, BurnRounds
  <1>10. d \in Int
    BY <1>1, UnitNat
  <1>11. Sound(r, t)
    BY <1>2 DEF ElFrame
  <1> HIDE DEF d, k, e, i
  <1>12. /\ claim(r, u, t) - claim(m, u, t) - (-amount) <= d
         /\ (-amount) - (claim(r, u, t) - claim(m, u, t)) <= d
         /\ -amount \in Int
    BY <1>8, <1>9, <1>10
  <1>13. Shifts(m, r, t, -amount, d)
    BY <1>7, <1>10, <1>11, <1>12, OneShift
  <1> QED BY <1>13 DEF d, r, i

\* A debt of u that moves takes as much from the claims.
LEMMA DebtShifts ==
    ASSUME NEW t \in Nat, NEW m, NEW r, Sound(m, t), Sound(r, t), m.lastUpdateTimestamp = t,
           SameIndexes(m, r), \A v \in Users : r.el[v] = m.el[v], NEW u \in Users,
           \A v \in Users \ {u} : userDebt(r, v, t) = userDebt(m, v, t),
           NEW x \in Int, NEW d \in Int,
           userDebt(m, u, t) - userDebt(r, u, t) - x <= d,
           x - (userDebt(m, u, t) - userDebt(r, u, t)) <= d
    PROVE  Shifts(m, r, t, x, d)
  <1> DEFINE w(v) == rayMul(m.el[v], getNormalizedIncome(m, t))
  <1>1. \A v \in Users : claim(m, v, t) = w(v) - userDebt(m, v, t)
    BY DEF claim
  <1>2. \A v \in Users : claim(r, v, t) = w(v) - userDebt(r, v, t)
    BY DEF claim, SameIndexes, getNormalizedIncome
  <1>3. \A v \in Users : w(v) \in Nat
    <2>1. \A v \in Users : m.el[v] \in Nat
      BY DEF Sound, Market, Accounts
    <2> QED BY <2>1, ViewIndexesGrow, RayMulNat
  <1>4. userDebt(m, u, t) \in Int /\ userDebt(r, u, t) \in Int
    BY NoHiddenDebt DEF userDebt
  <1> HIDE DEF w
  <1>5. \A v \in Users \ {u} : claim(r, v, t) = claim(m, v, t)
    BY <1>1, <1>2
  <1>6. claim(r, u, t) - claim(m, u, t) = userDebt(m, u, t) - userDebt(r, u, t)
    BY <1>1, <1>2, <1>3, <1>4
  <1> QED BY <1>5, <1>6, OneShift

\* VariableDebtToken.mint, at the variable index.
LEMMA VarMintShifts ==
    ASSUME NEW t \in Nat, NEW m, Sound(m, t), m.lastUpdateTimestamp = t, NEW u \in Users,
           NEW amount \in Nat, canMintVar(amount, m.variableBorrowIndex)
    PROVE  Shifts(m, varMint(m, u, amount, m.variableBorrowIndex), t, -amount,
                  rayMul(1, m.variableBorrowIndex) + 1)
  <1> DEFINE i == m.variableBorrowIndex
             k == rayDiv(amount, i)
             r == varMint(m, u, amount, i)
             e == m.varDebt[u]
             d == rayMul(1, i) + 1
             b == stBalanceOf(m, u, t)
  <1>1. m \in Market /\ i \in Nat \ {0} /\ e \in Nat
    BY RayAssumption DEF Sound, Market, IndexesStarted
  <1>2. VarFrame(m, r, t) /\ \A v \in Users \ {u} : r.varDebt[v] = m.varDebt[v]
    BY <1>1, VarMintSound
  <1>3. r.varDebt[u] = e + k /\ \A v \in Users : r.el[v] = m.el[v]
    BY <1>1 DEF varMint, Market
  <1>4. k \in Nat
    BY <1>1, RayDivNat
  <1> HIDE DEF r
  <1>5. getNormalizedDebt(r, t) = i /\ getNormalizedDebt(m, t) = i
    BY <1>2 DEF VarFrame, SameIndexes, getNormalizedDebt
  <1>6. \A v \in Users : stBalanceOf(r, v, t) = stBalanceOf(m, v, t)
    BY <1>2 DEF VarFrame, stBalanceOf
  <1>7. \A v \in Users \ {u} : userDebt(r, v, t) = userDebt(m, v, t)
    BY <1>2, <1>5, <1>6 DEF userDebt, varBalanceOf
  <1>8. userDebt(r, u, t) = b + rayMul(e + k, i) /\ userDebt(m, u, t) = b + rayMul(e, i)
    BY <1>3, <1>5, <1>6 DEF userDebt, varBalanceOf
  <1>9. b \in Nat /\ rayMul(e + k, i) \in Nat /\ rayMul(e, i) \in Nat
    <2>1. e + k \in Nat /\ b \in Nat
      BY <1>1, <1>4, StBalanceNat
    <2> HIDE DEF e, k, i, b
    <2> QED BY <1>1, <2>1, RayMulNat
  <1>10. /\ rayMul(e + k, i) - rayMul(e, i) - amount <= d
         /\ amount - (rayMul(e + k, i) - rayMul(e, i)) <= d
    BY <1>1, MintRounds
  <1>11. d \in Int /\ -amount \in Int
    BY <1>1, UnitNat
  <1>12. Sound(r, t) /\ SameIndexes(m, r)
    BY <1>2 DEF VarFrame
  <1> HIDE DEF d, k, e, i, b
  <1>13. /\ userDebt(m, u, t) - userDebt(r, u, t) - (-amount) <= d
         /\ (-amount) - (userDebt(m, u, t) - userDebt(r, u, t)) <= d
    BY <1>8, <1>9, <1>10, <1>11
  <1>14. Shifts(m, r, t, -amount, d)
    BY <1>3, <1>7, <1>11, <1>12, <1>13, DebtShifts
  <1> QED BY <1>14 DEF d, r, i

\* VariableDebtToken.burn takes the amount off the debt of its user, up to one scaled unit.
LEMMA VarBurnPays ==
    ASSUME NEW t \in Nat, NEW m, Sound(m, t), m.lastUpdateTimestamp = t, NEW u \in Users,
           NEW amount \in Nat, canBurnVar(m, u, amount), NEW r, r = varBurn(m, u, amount)
    PROVE  /\ Pays(m, r, u, t, amount, rayMul(1, m.variableBorrowIndex) + 1)
           /\ Sound(r, t) /\ SameIndexes(m, r) /\ r.el = m.el
           /\ \A v \in Users \ {u} : userDebt(r, v, t) = userDebt(m, v, t)
  <1> DEFINE i == m.variableBorrowIndex
             k == rayDiv(amount, i)
             e == m.varDebt[u]
             d == rayMul(1, i) + 1
             b == stBalanceOf(m, u, t)
  <1>1. m \in Market /\ i \in Nat \ {0} /\ e \in Nat
    BY RayAssumption DEF Sound, Market, IndexesStarted
  <1>2. /\ VarFrame(m, r, t) /\ r.varDebt[u] = e - k /\ k \in 0..e
        /\ \A v \in Users \ {u} : r.varDebt[v] = m.varDebt[v]
    BY VarBurnSound
  <1>3. r.el = m.el
    BY <1>1 DEF varBurn, Market
  <1>4. k \in Nat /\ k <= e
    BY <1>1, <1>2
  <1>5. getNormalizedDebt(r, t) = i /\ getNormalizedDebt(m, t) = i
    BY <1>2 DEF VarFrame, SameIndexes, getNormalizedDebt
  <1>6. \A v \in Users : stBalanceOf(r, v, t) = stBalanceOf(m, v, t)
    BY <1>2 DEF VarFrame, stBalanceOf
  <1>7. \A v \in Users \ {u} : userDebt(r, v, t) = userDebt(m, v, t)
    BY <1>2, <1>5, <1>6 DEF userDebt, varBalanceOf
  <1>8. userDebt(r, u, t) = b + rayMul(e - k, i) /\ userDebt(m, u, t) = b + rayMul(e, i)
    BY <1>2, <1>5, <1>6 DEF userDebt, varBalanceOf
  <1>9. b \in Nat /\ rayMul(e - k, i) \in Nat /\ rayMul(e, i) \in Nat
    <2>1. e - k \in Nat /\ b \in Nat
      BY <1>1, <1>4, StBalanceNat
    <2> HIDE DEF e, k, i, b
    <2> QED BY <1>1, <2>1, RayMulNat
  <1>10. /\ rayMul(e, i) - rayMul(e - k, i) - amount <= d
         /\ amount - (rayMul(e, i) - rayMul(e - k, i)) <= d
    BY <1>1, <1>4, BurnRounds
  <1>11. d \in Int
    BY <1>1, UnitNat
  <1>12. Sound(r, t) /\ SameIndexes(m, r)
    BY <1>2 DEF VarFrame
  <1> HIDE DEF d, k, e, i, b
  <1>13. Pays(m, r, u, t, amount, d)
    BY <1>8, <1>9, <1>10, <1>11 DEF Pays
  <1> QED BY <1>3, <1>7, <1>12, <1>13 DEF d, i

\* VariableDebtToken.burn
LEMMA VarBurnShifts ==
    ASSUME NEW t \in Nat, NEW m, Sound(m, t), m.lastUpdateTimestamp = t, NEW u \in Users,
           NEW amount \in Nat, canBurnVar(m, u, amount)
    PROVE  Shifts(m, varBurn(m, u, amount), t, amount, rayMul(1, m.variableBorrowIndex) + 1)
  <1> DEFINE r == varBurn(m, u, amount)
             d == rayMul(1, m.variableBorrowIndex) + 1
  <1>1. d \in Int
    <2>1. m.variableBorrowIndex \in Nat \ {0}
      BY RayAssumption DEF Sound, Market, IndexesStarted
    <2> QED BY <2>1, UnitNat
  <1>2. /\ Pays(m, r, u, t, amount, d) /\ Sound(r, t) /\ SameIndexes(m, r) /\ r.el = m.el
        /\ \A v \in Users \ {u} : userDebt(r, v, t) = userDebt(m, v, t)
    BY VarBurnPays
  <1> HIDE DEF r, d
  <1>3. Shifts(m, r, t, amount, d)
    BY <1>1, <1>2, DebtShifts DEF Pays
  <1> QED BY <1>3 DEF r, d

\* A stable balance touched now is its principal.
LEMMA FreshStable ==
    ASSUME NEW t \in Nat, NEW r, NEW u \in Users, r.stDebt[u] \in Nat,
           r.stDebt[u] # 0 => r.stTime[u] = t
    PROVE  stBalanceOf(r, u, t) = r.stDebt[u]
  <1> DEFINE n == r.stDebt[u]
             comp == calculateCompoundedInterest(r.stRate[u], r.stTime[u], t)
  <1>1. CASE n # 0
    <2>1. t - t = 0
      OBVIOUS
    <2>2. comp = RAY
      BY <1>1, <2>1 DEF calculateCompoundedInterest
    <2> HIDE DEF comp
    <2>3. rayMul(n, comp) = n
      BY <2>2, RayMulOne
    <2> QED BY <1>1, <2>3 DEF stBalanceOf, comp
  <1>2. CASE n = 0
    BY <1>2 DEF stBalanceOf
  <1> QED BY <1>1, <1>2

\* Stable debt of u that moves by n, to the last unit.
LEMMA StablePays ==
    ASSUME NEW t \in Nat, NEW m, NEW r, Sound(m, t), m.lastUpdateTimestamp = t,
           StFrame(m, r, t), NEW u \in Users,
           r.stDebt[u] # 0 => r.stTime[u] = t,
           NEW n \in Int, r.stDebt[u] = stBalanceOf(m, u, t) - n
    PROVE  userDebt(m, u, t) - userDebt(r, u, t) = n
  <1>1. Sound(r, t) /\ SameIndexes(m, r) /\ r.varDebt = m.varDebt
    BY DEF StFrame
  <1>2. varBalanceOf(r, u, t) = varBalanceOf(m, u, t)
    BY <1>1 DEF SameIndexes, varBalanceOf, getNormalizedDebt
  <1>3. stBalanceOf(m, u, t) \in Nat /\ varBalanceOf(m, u, t) \in Nat
    BY NoHiddenDebt
  <1>4. stBalanceOf(r, u, t) = r.stDebt[u]
    <2>1. r.stDebt[u] \in Nat
      BY <1>1 DEF Sound, Market
    <2> QED BY <2>1, FreshStable
  <1> QED BY <1>2, <1>3, <1>4 DEF userDebt

LEMMA StableShifts ==
    ASSUME NEW t \in Nat, NEW m, NEW r, Sound(m, t), m.lastUpdateTimestamp = t,
           StFrame(m, r, t), \A v \in Users : r.el[v] = m.el[v], NEW u \in Users,
           \A v \in Users \ {u} : r.stDebt[v] = m.stDebt[v] /\ r.stRate[v] = m.stRate[v]
                                    /\ r.stTime[v] = m.stTime[v],
           r.stDebt[u] # 0 => r.stTime[u] = t,
           NEW n \in Int, r.stDebt[u] = stBalanceOf(m, u, t) - n
    PROVE  Shifts(m, r, t, n, 0)
  <1>1. Sound(r, t) /\ SameIndexes(m, r) /\ r.varDebt = m.varDebt
    BY DEF StFrame
  <1>2. \A v \in Users : varBalanceOf(r, v, t) = varBalanceOf(m, v, t)
    BY <1>1 DEF SameIndexes, varBalanceOf, getNormalizedDebt
  <1>3. \A v \in Users \ {u} : userDebt(r, v, t) = userDebt(m, v, t)
    BY <1>2 DEF userDebt, stBalanceOf
  <1>4. userDebt(m, u, t) - userDebt(r, u, t) = n
    BY StablePays
  <1>5. /\ userDebt(m, u, t) - userDebt(r, u, t) - n <= 0
        /\ n - (userDebt(m, u, t) - userDebt(r, u, t)) <= 0
    BY <1>4
  <1> QED BY <1>1, <1>3, <1>5, DebtShifts

\* StableDebtToken.mint
LEMMA StMintShifts ==
    ASSUME NEW t \in Nat, NEW m, Sound(m, t), m.lastUpdateTimestamp = t, NEW u \in Users,
           NEW amount \in Nat, NEW rate \in Nat, canMintSt(m, u, amount, t)
    PROVE  Shifts(m, stMint(m, u, amount, rate, t), t, -amount, 0)
  <1> DEFINE r == stMint(m, u, amount, rate, t)
             b == stBalanceOf(m, u, t)
  <1>1. StFrame(m, r, t)
    BY StMintSound
  <1>2. m \in Market
    BY DEF Sound
  <1>3. r.el = m.el /\ r.stDebt[u] = b + amount /\ r.stTime[u] = t
    BY <1>2 DEF stMint, Market
  <1>4. \A v \in Users \ {u} : r.stDebt[v] = m.stDebt[v] /\ r.stRate[v] = m.stRate[v]
                                 /\ r.stTime[v] = m.stTime[v]
    BY <1>2 DEF stMint, Market
  <1>5. b \in Nat
    BY StBalanceNat
  <1> HIDE DEF r, b
  <1>6. -amount \in Int /\ r.stDebt[u] = b - (-amount)
    BY <1>3, <1>5
  <1>7. Shifts(m, r, t, -amount, 0)
    BY <1>1, <1>3, <1>4, <1>6, StableShifts DEF b
  <1> QED BY <1>7 DEF r

\* StableDebtToken.burn
LEMMA StBurnShifts ==
    ASSUME NEW t \in Nat, NEW m, Sound(m, t), m.lastUpdateTimestamp = t, NEW u \in Users,
           NEW amount \in Nat, canBurnSt(m, u, amount, t)
    PROVE  Shifts(m, stBurn(m, u, amount, t), t, amount, 0)
  <1> DEFINE r == stBurn(m, u, amount, t)
             b == stBalanceOf(m, u, t)
  <1>1. StFrame(m, r, t) /\ r.stDebt[u] = b - amount
    BY StBurnSound
  <1>2. m \in Market
    BY DEF Sound
  <1>3. r.el = m.el /\ r.stTime[u] = IF amount = b THEN 0 ELSE t
    BY <1>2 DEF stBurn, Market
  <1>4. \A v \in Users \ {u} : r.stDebt[v] = m.stDebt[v] /\ r.stRate[v] = m.stRate[v]
                                 /\ r.stTime[v] = m.stTime[v]
    BY <1>2 DEF stBurn, Market
  <1>5. b \in Nat
    BY StBalanceNat
  <1> HIDE DEF r, b
  <1>6. r.stDebt[u] # 0 => r.stTime[u] = t
    BY <1>1, <1>3, <1>5
  <1>7. Shifts(m, r, t, amount, 0)
    BY <1>1, <1>3, <1>4, <1>6, StableShifts DEF b
  <1> QED BY <1>7 DEF r

\* ELToken._transfer, at the view index: what one gets is what the other gives.
LEMMA TransferShifts ==
    ASSUME NEW t \in Nat, NEW m, Sound(m, t), NEW from \in Users, NEW to \in Users,
           NEW amount \in Nat, canTransferEl(m, from, amount, t)
    PROVE  Shifts(m, elTransfer(m, from, to, amount, t), t, 0, 1)
  <1> DEFINE i == getNormalizedIncome(m, t)
             k == rayDiv(amount, i)
             r == elTransfer(m, from, to, amount, t)
             f == [v \in Users |-> claim(m, v, t)]
             g == [v \in Users |-> claim(r, v, t)]
             h == [f EXCEPT ![from] = g[from]]
  <1>1. m \in Market /\ Users \subseteq Accounts /\ m.el \in [Accounts -> Nat]
    BY DEF Sound, Market, Accounts
  <1>2. i \in Nat \ {0}
    BY ViewIndexesGrow, RayAssumption DEF Sound, Market, IndexesStarted
  <1>3. k \in Nat /\ k <= m.el[from]
    BY <1>2, RayDivNat DEF canTransferEl
  <1>4. ElFrame(m, r, t)
    BY ElTransferSound
  <1>5. /\ \A v \in Users \ {from, to} : r.el[v] = m.el[v]
        /\ from = to => r.el[from] = m.el[from] - k + k
        /\ from # to => r.el[from] = m.el[from] - k /\ r.el[to] = m.el[to] + k
    BY <1>1 DEF elTransfer, Market
  <1>6. getNormalizedIncome(r, t) = i
    <2>1. r.currentLiquidityRate = m.currentLiquidityRate
      BY <1>1 DEF elTransfer, Market
    <2> HIDE DEF r
    <2> QED BY <1>4, <2>1 DEF ElFrame, SameIndexes, getNormalizedIncome
  <1>7. \A v \in Users : userDebt(r, v, t) = userDebt(m, v, t) /\ userDebt(m, v, t) \in Int
    <2>1. r.currentVariableBorrowRate = m.currentVariableBorrowRate
      BY <1>1 DEF elTransfer, Market
    <2> HIDE DEF r
    <2>2. \A v \in Users : userDebt(r, v, t) = userDebt(m, v, t)
      BY <1>4, <2>1 DEF ElFrame, SameIndexes, SameDebt, userDebt, varBalanceOf,
                        getNormalizedDebt, stBalanceOf
    <2>3. \A v \in Users : userDebt(m, v, t) \in Int
      BY NoHiddenDebt DEF userDebt
    <2> QED BY <2>2, <2>3
  <1> HIDE DEF r, k, i
  <1>8. \A v \in Users : claim(r, v, t) = rayMul(r.el[v], i) - userDebt(m, v, t)
    BY <1>6, <1>7 DEF claim
  <1>9. \A v \in Users : claim(m, v, t) = rayMul(m.el[v], i) - userDebt(m, v, t)
    BY DEF claim, i
  <1>10. CASE from = to
    <2>1. m.el[from] - k + k = m.el[from]
      BY <1>1, <1>3
    <2>2. \A v \in Users : r.el[v] = m.el[v]
      BY <1>5, <1>10, <2>1
    <2>3. Claims(r, t) = Claims(m, t)
      BY <1>8, <1>9, <2>2, SameClaims
    <2>4. Claims(m, t) \in Int
      BY ClaimsInt
    <2>5. Shifts(m, r, t, 0, 1)
      BY <2>3, <2>4 DEF Shifts
    <2> QED BY <2>5 DEF r
  <1>11. CASE from # to
    <2>1. f \in [Users -> Int] /\ g \in [Users -> Int] /\ Claims(m, t) \in Int
      BY <1>4, ClaimsInt DEF ElFrame
    <2>2. Claims(m, t) = SumFunction(f) /\ Claims(r, t) = SumFunction(g)
      BY DEF Claims
    <2>3. \A v \in Users \ {from, to} : g[v] = f[v]
      BY <1>5, <1>8, <1>9
    <2>4. /\ g[from] = rayMul(m.el[from] - k, i) - userDebt(m, from, t)
          /\ f[from] = rayMul(m.el[from], i) - userDebt(m, from, t)
          /\ g[to] = rayMul(m.el[to] + k, i) - userDebt(m, to, t)
          /\ f[to] = rayMul(m.el[to], i) - userDebt(m, to, t)
      BY <1>5, <1>8, <1>9, <1>11
    <2> HIDE DEF f, g
    <2>5. /\ h \in [Users -> Int] /\ h[from] = g[from] /\ h[to] = f[to]
          /\ \A v \in Users \ {from} : h[v] = f[v]
          /\ \A v \in Users \ {to} : g[v] = h[v]
      BY <1>11, <2>1, <2>3
    <2> HIDE DEF h
    <2>6. SumFunction(h) = SumFunction(f) + (h[from] - f[from])
      BY <2>1, <2>5, UsersAssumption, SumChange
    <2>7. SumFunction(g) = SumFunction(h) + (g[to] - h[to])
      BY <2>1, <2>5, UsersAssumption, SumChange
    <2>8. PICK e \in Nat, n \in Nat : e = m.el[from] /\ n = m.el[to]
      BY <1>1
    <2>9. /\ (rayMul(e - k, i) - rayMul(e, i)) + (rayMul(n + k, i) - rayMul(n, i)) <= 1
          /\ (rayMul(e, i) - rayMul(e - k, i)) + (rayMul(n, i) - rayMul(n + k, i)) <= 1
      BY <1>2, <1>3, <2>8, MoveRounds
    <2>10. /\ rayMul(e - k, i) \in Nat /\ rayMul(e, i) \in Nat
           /\ rayMul(n + k, i) \in Nat /\ rayMul(n, i) \in Nat
      <3>1. e - k \in Nat /\ n + k \in Nat
        BY <1>3, <2>8
      <3> QED BY <1>2, <3>1, RayMulNat
    <2>11. userDebt(m, from, t) \in Int /\ userDebt(m, to, t) \in Int
      BY <1>7
    <2>12. /\ f[from] \in Int /\ g[from] \in Int /\ f[to] \in Int /\ g[to] \in Int
           /\ SumFunction(f) \in Int /\ SumFunction(h) \in Int
      BY <2>1, <2>5, UsersAssumption, SumInt
    <2>13. SumFunction(g) - SumFunction(f) = (g[from] - f[from]) + (g[to] - f[to])
      BY <2>5, <2>6, <2>7, <2>12
    <2>14. g[from] - f[from] = rayMul(e - k, i) - rayMul(e, i)
      BY <2>4, <2>8, <2>10, <2>11
    <2>15. g[to] - f[to] = rayMul(n + k, i) - rayMul(n, i)
      BY <2>4, <2>8, <2>10, <2>11
    <2>16. SumFunction(g) - SumFunction(f) <= 1 /\ SumFunction(f) - SumFunction(g) <= 1
      <3>1. PICK p \in Int, q \in Int : /\ p = rayMul(e - k, i) - rayMul(e, i)
                                        /\ q = rayMul(n + k, i) - rayMul(n, i)
        BY <2>10
      <3>2. p + q <= 1 /\ (-p) + (-q) <= 1
        BY <2>9, <2>10, <3>1
      <3>3. SumFunction(g) - SumFunction(f) = p + q
        BY <2>13, <2>14, <2>15, <3>1
      <3>4. SumFunction(g) \in Int
        BY <2>1, UsersAssumption, SumInt
      <3> QED BY <2>12, <3>2, <3>3, <3>4
    <2>17. Claims(r, t) \in Int
      BY <1>4, ClaimsInt DEF ElFrame
    <2>18. Shifts(m, r, t, 0, 1)
      BY <2>1, <2>2, <2>16, <2>17 DEF Shifts
    <2> QED BY <2>18 DEF r
  <1> QED BY <1>10, <1>11
===============================================================================
