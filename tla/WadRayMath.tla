------------------------------ MODULE WadRayMath ------------------------------
(***************************************************************************)
(* Fixed-point arithmetic of the protocol: WadRayMath.sol,                 *)
(* PercentageMath.sol and MathUtils.sol as operators on natural numbers.   *)
(*                                                                         *)
(* The scales (1e27, 1e18, 1e4, 365 days) are constants, so the lemmas     *)
(* hold for the deployed values and TLC can run with small ones.  An       *)
(* operator is the value of the Solidity function when none of its         *)
(* requires fails; the requires themselves are in CheckedMath.             *)
(***************************************************************************)
EXTENDS Integers

CONSTANTS RAY,                \* 10^27
          WAD,                \* 10^18
          WAD_RAY_RATIO,      \* 10^9
          PERCENTAGE_FACTOR,  \* 10^4
          SECONDS_PER_YEAR

ASSUME RayAssumption ==
    /\ RAY \in Nat \ {0}
    /\ 2 * (RAY \div 2) = RAY            \* RAY is even
ASSUME WadAssumption == WAD \in Nat \ {0}
ASSUME RatioAssumption == WAD_RAY_RATIO \in Nat \ {0}
ASSUME PercentageAssumption == PERCENTAGE_FACTOR \in Nat \ {0}
ASSUME YearAssumption == SECONDS_PER_YEAR \in Nat \ {0}

halfRAY == RAY \div 2
halfWAD == WAD \div 2
HALF_PERCENT == PERCENTAGE_FACTOR \div 2

(***************************************************************************)
(* The early return for a zero operand is subsumed: half a unit divided by *)
(* the unit is 0.                                                          *)
(***************************************************************************)
rayMul(a, b) == (a * b + halfRAY) \div RAY
rayDiv_down(a, b) == (a * RAY) \div b    \* mutant: rounds down
rayDiv(a, b) == (a * RAY + (b \div 2)) \div b
wadMul(a, b) == (a * b + halfWAD) \div WAD
wadDiv(a, b) == (a * WAD + (b \div 2)) \div b
wadToRay(a) == a * WAD_RAY_RATIO
rayToWad(a) == (a + (WAD_RAY_RATIO \div 2)) \div WAD_RAY_RATIO

percentMul(value, percentage) ==
    (value * percentage + HALF_PERCENT) \div PERCENTAGE_FACTOR
percentDiv(value, percentage) ==
    (value * PERCENTAGE_FACTOR + (percentage \div 2)) \div percentage

(***************************************************************************)
(* Interest accrued from lastUpdate to t, both at least one RAY.           *)
(***************************************************************************)
calculateLinearInterest(rate, lastUpdate, t) ==
    ((rate * (t - lastUpdate)) \div SECONDS_PER_YEAR) + RAY

\* mutant: the second binomial coefficient is not halved
calculateCompoundedInterest_double(rate, lastUpdate, t) ==
    LET exp  == t - lastUpdate
        perSecond == rate \div SECONDS_PER_YEAR
    IN  RAY + perSecond * exp + exp * (exp - 1) * rayMul(perSecond, perSecond)

calculateCompoundedInterest(rate, lastUpdate, t) ==
    LET exp            == t - lastUpdate
        expMinusOne    == exp - 1
        expMinusTwo    == IF exp > 2 THEN exp - 2 ELSE 0
        ratePerSecond  == rate \div SECONDS_PER_YEAR
        basePowerTwo   == rayMul(ratePerSecond, ratePerSecond)
        basePowerThree == rayMul(basePowerTwo, ratePerSecond)
        secondTerm     == (exp * expMinusOne * basePowerTwo) \div 2
        thirdTerm      == (exp * expMinusOne * expMinusTwo * basePowerThree) \div 6
    IN  IF exp = 0 THEN RAY
                   ELSE RAY + ratePerSecond * exp + secondTerm + thirdTerm
===============================================================================
