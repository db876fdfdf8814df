----------------------------- MODULE CheckedMath -----------------------------
(***************************************************************************)
(* The same libraries as WadRayMath, with the machine they run on: every   *)
(* + and * wraps modulo UINT256_MAX + 1, and the requires decide when a    *)
(* call reverts.  The state is just the pair of arguments under test; a    *)
(* behaviour walks over all of them.                                       *)
(***************************************************************************)
EXTENDS WadRayMath

CONSTANTS UINT256_MAX,    \* type(uint256).max
          MAX_RATE,       \* bounds of the interest formulas under test:
          MAX_PERIODS     \* the powers of the reference grow quickly

ASSUME WidthAssumption ==
    /\ UINT256_MAX \in Nat
    /\ halfRAY <= UINT256_MAX /\ halfWAD <= UINT256_MAX
    /\ HALF_PERCENT <= UINT256_MAX /\ (WAD_RAY_RATIO \div 2) <= UINT256_MAX
ASSUME WalkAssumption == MAX_RATE \in Nat /\ MAX_PERIODS \in Nat

VARIABLES x, y            \* the arguments

Uint256 == 0..UINT256_MAX
Revert == -1

wrap(n) == n % (UINT256_MAX + 1)

\* The shape of wadMul, rayMul and percentMul: multiply, add half a unit, divide.
mulHalfUp_noHalf(a, b, half, unit) ==
    IF a = 0 \/ b = 0 THEN 0
    ELSE IF a <= UINT256_MAX \div b
         THEN wrap(wrap(a * b) + half) \div unit
         ELSE Revert
mulHalfUp(a, b, half, unit) ==
    IF a = 0 \/ b = 0 THEN 0
    ELSE IF a <= (UINT256_MAX - half) \div b
         THEN wrap(wrap(a * b) + half) \div unit
         ELSE Revert

\* The shape of wadDiv, rayDiv and percentDiv.
divHalfUp(a, b, unit) ==
    IF b = 0 THEN Revert
    ELSE IF a <= (UINT256_MAX - (b \div 2)) \div unit
         THEN wrap(wrap(a * unit) + (b \div 2)) \div b
         ELSE Revert

rayToWadChecked(a) ==
    LET halfRatio == WAD_RAY_RATIO \div 2
        result    == wrap(halfRatio + a)
    IN  IF result >= halfRatio THEN result \div WAD_RAY_RATIO ELSE Revert

wadToRayChecked(a) ==
    LET result == wrap(a * WAD_RAY_RATIO)
    IN  IF result \div WAD_RAY_RATIO = a THEN result ELSE Revert

-------------------------------------------------------------------------------
Init == x = 0 /\ y = 0

StepX == x < UINT256_MAX /\ x' = x + 1 /\ y' = y
StepY == y < UINT256_MAX /\ y' = y + 1 /\ x' = x
Next == StepX \/ StepY

Spec == Init /\ [][Next]_<<x, y>>

-------------------------------------------------------------------------------
\* A value that needs no more than 256 bits is returned, any other reverts.
exactOr(exact, largest) == IF largest <= UINT256_MAX THEN exact ELSE Revert

\* The requires of WadRayMath and PercentageMath are exact: a call reverts
\* precisely when an intermediate value does not fit, and otherwise returns the
\* value of unbounded arithmetic.  The divisions inside the requires round, the
\* two conversions test the wrapped result: neither may be off by one.
GuardsExact ==
    /\ mulHalfUp(x, y, halfRAY, RAY) = exactOr(rayMul(x, y), x * y + halfRAY)
    /\ mulHalfUp(x, y, halfWAD, WAD) = exactOr(wadMul(x, y), x * y + halfWAD)
    /\ mulHalfUp(x, y, HALF_PERCENT, PERCENTAGE_FACTOR)
         = exactOr(percentMul(x, y), x * y + HALF_PERCENT)
    /\ y # 0 =>
         /\ divHalfUp(x, y, RAY) = exactOr(rayDiv(x, y), x * RAY + (y \div 2))
         /\ divHalfUp(x, y, WAD) = exactOr(wadDiv(x, y), x * WAD + (y \div 2))
         /\ divHalfUp(x, y, PERCENTAGE_FACTOR)
              = exactOr(percentDiv(x, y), x * PERCENTAGE_FACTOR + (y \div 2))
    /\ rayToWadChecked(x) = exactOr(rayToWad(x), x + (WAD_RAY_RATIO \div 2))
    /\ wadToRayChecked(x) = exactOr(wadToRay(x), x * WAD_RAY_RATIO)

\* r is a nearest integer to n/d, the upper one of two: "rounding half up".
isHalfUp(r, n, d) == 2 * r * d - d <= 2 * n /\ 2 * n < 2 * r * d + d

\* Each operation returns the nearest integer to the real product or quotient,
\* also for odd divisors, whose half is itself rounded down.
RoundsHalfUp ==
    /\ isHalfUp(rayMul(x, y), x * y, RAY)
    /\ 2 * halfWAD = WAD => isHalfUp(wadMul(x, y), x * y, WAD)
    /\ 2 * HALF_PERCENT = PERCENTAGE_FACTOR
         => isHalfUp(percentMul(x, y), x * y, PERCENTAGE_FACTOR)
    /\ y # 0 => /\ isHalfUp(rayDiv(x, y), x * RAY, y)
                /\ isHalfUp(wadDiv(x, y), x * WAD, y)
                /\ isHalfUp(percentDiv(x, y), x * PERCENTAGE_FACTOR, y)

\* Reading a scaled balance and scaling it back loses nothing once the index is
\* at least one RAY: what makes "repay everything" clear a debt in
\* VariableDebtToken.burn.  x is the scaled balance, RAY + y the index.
ScaledBalanceSurvives == rayDiv(rayMul(x, RAY + y), RAY + y) = x

power(base, n) ==
    LET powers[k \in 0..n] == IF k = 0 THEN 1 ELSE base * powers[k - 1]
    IN  powers[n]

\* (1 + rate)^periods with one period a second, times RAY^periods.
exactPower(rate, periods) == power(RAY + rate, periods)

\* The three-term binomial of calculateCompoundedInterest undercharges: apart
\* from what the two rayMul may add by rounding up, it is below the exact power
\* (MathUtils: "slightly underpays liquidity providers and undercharges borrowers"),
\* and it never falls below simple interest.
CompoundingUndercharges ==
    x <= MAX_RATE /\ y <= MAX_PERIODS /\ y > 0 =>
        LET compounded == calculateCompoundedInterest(x * SECONDS_PER_YEAR, 0, y)
            rounding   == (y * (y - 1)) \div 4 + 1
                          + (y * (y - 1) * (y - 2) * (RAY + x)) \div (12 * RAY) + 1
        IN  /\ (compounded - rounding) * power(RAY, y) <= RAY * exactPower(x, y)
            /\ compounded >= RAY + x * y
==============================================================================
