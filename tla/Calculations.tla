---------------------------- MODULE Calculations ----------------------------
(***************************************************************************)
(* The test suite's own model of the protocol: utils/calculations.ts on    *)
(* the arithmetic of utils/math.ts.  From what a reserve and a user looked *)
(* like before a call it computes what they must look like after it, field *)
(* by field, without going through tokens and clocks.  It is a second      *)
(* definition of what each pool call promises.                             *)
(*                                                                         *)
(* before and user are the records getReserveData and getUserData return   *)
(* (module ExpectedData); c is the entry of reservesParams that the code   *)
(* looks up by symbol; t the timestamp of the transaction.  BigNumbers are *)
(* fractions: with a whole number of RAY per second every intermediate     *)
(* value is whole, except the user's stable rate.                          *)
(***************************************************************************)
EXTENDS WadRayMath

CONSTANT MAX_UINT_AMOUNT    \* the amount that stands for "everything"

\* BigNumber.decimalPlaces(0, ROUND_DOWN) of n / d: towards zero.
truncated(n, d) ==
    IF (n >= 0) = (d > 0)
    THEN (IF n >= 0 THEN n ELSE -n) \div (IF d > 0 THEN d ELSE -d)
    ELSE -((IF n >= 0 THEN n ELSE -n) \div (IF d > 0 THEN d ELSE -d))

\* The BigNumber methods; the operands may be negative here.
bnRayMul(a, b) == truncated(a * b + halfRAY, RAY)
bnRayDiv(a, b) == truncated(a * RAY + truncated(b, 2), b)

-------------------------------------------------------------------------------
\* Interest

linearInterest(rate, t, lastUpdate) ==
    (rate * (t - lastUpdate)) \div SECONDS_PER_YEAR + RAY

compoundedInterest(rate, t, lastUpdate) ==
    LET n     == t - lastUpdate
        r1    == rate \div SECONDS_PER_YEAR
        r2    == bnRayMul(r1, r1)
        r3    == bnRayMul(r2, r1)
        three == IF n > 2 THEN n - 2 ELSE 0
    IN  IF n = 0 THEN RAY
        ELSE RAY + r1 * n + (n * (n - 1) * r2) \div 2 + (n * (n - 1) * three * r3) \div 6

calcExpectedReserveNormalizedIncome(reserve, t) ==
    IF reserve.liquidityRate = 0
    THEN reserve.liquidityIndex
    ELSE bnRayMul(linearInterest(reserve.liquidityRate, t, reserve.lastUpdateTimestamp),
                  reserve.liquidityIndex)

calcExpectedReserveNormalizedDebt(rate, index, lastUpdate, t) ==
    IF rate = 0 THEN index ELSE bnRayMul(compoundedInterest(rate, t, lastUpdate), index)

calcExpectedLiquidityIndex(reserve, t) ==
    IF reserve.utilizationRate = 0
    THEN reserve.liquidityIndex
    ELSE bnRayMul(linearInterest(reserve.liquidityRate, t, reserve.lastUpdateTimestamp),
                  reserve.liquidityIndex)

calcExpectedVariableBorrowIndex(reserve, t) ==
    IF reserve.totalVariableDebt = 0
    THEN reserve.variableBorrowIndex
    ELSE bnRayMul(compoundedInterest(reserve.variableBorrowRate, t, reserve.lastUpdateTimestamp),
                  reserve.variableBorrowIndex)

-------------------------------------------------------------------------------
\* Balances

calcExpectedScaledLTokenBalance(user, index, added, taken) ==
    user.scaledLTokenBalance + bnRayDiv(added, index) - bnRayDiv(taken, index)

calcExpectedLTokenBalance(reserve, user, t) ==
    bnRayMul(user.scaledLTokenBalance, calcExpectedReserveNormalizedIncome(reserve, t))

calcExpectedVariableDebtTokenBalance(reserve, user, t) ==
    bnRayMul(user.scaledVariableDebt,
             calcExpectedReserveNormalizedDebt(reserve.variableBorrowRate,
                                               reserve.variableBorrowIndex,
                                               reserve.lastUpdateTimestamp, t))

calcExpectedStableDebtTokenBalance(principal, rate, lastUpdated, t) ==
    IF rate = 0 \/ t = lastUpdated \/ lastUpdated = 0
    THEN principal
    ELSE bnRayMul(principal, compoundedInterest(rate, t, lastUpdated))

userStableDebt(user, t) ==
    calcExpectedStableDebtTokenBalance(user.principalStableDebt, user.stableBorrowRate,
                                       user.stableRateLastUpdated, t)

calcExpectedTotalStableDebt(principal, rate, lastUpdated, t) ==
    bnRayMul(compoundedInterest(rate, t, lastUpdated), principal)

reserveStableDebt(reserve, t) ==
    calcExpectedTotalStableDebt(reserve.principalStableDebt, reserve.averageStableBorrowRate,
                                reserve.totalStableDebtLastUpdated, t)

calcExpectedTotalVariableDebt(reserve, index) == bnRayMul(reserve.scaledVariableDebt, index)

-------------------------------------------------------------------------------
\* Rates

calcExpectedAverageStableBorrowRate(avgBefore, totalBefore, changed, rate) ==
    IF totalBefore + changed = 0
    THEN 0
    ELSE truncated(avgBefore * totalBefore + rate * changed, totalBefore + changed)

\* The total is taken as a ray already, the change is converted to one.
calcExpectedAverageStableBorrowRateRebalance(avgBefore, totalBefore, changed, rate) ==
    LET total == totalBefore + wadToRay(changed)
    IN  IF total = 0
        THEN 0
        ELSE bnRayDiv(bnRayMul(avgBefore, totalBefore) + bnRayMul(rate, wadToRay(changed)), total)

\* Here the code keeps the fraction, and this its whole part, as the comparison does; the
\* debt of the block read after the loan moves by less than the tolerance for it.
calcExpectedUserStableRate(balanceBefore, rateBefore, amount, rateNew) ==
    (balanceBefore * rateBefore + amount * rateNew) \div (balanceBefore + amount)

calcExpectedUtilizationRate(stable, variable, liquidity) ==
    IF stable = 0 /\ variable = 0 THEN 0 ELSE bnRayDiv(stable + variable, liquidity)

calcExpectedOverallBorrowRate(stable, variable, variableRate, averageStableRate) ==
    IF stable + variable = 0
    THEN 0
    ELSE bnRayDiv(bnRayMul(wadToRay(variable), variableRate)
                    + bnRayMul(wadToRay(stable), averageStableRate),
                  wadToRay(stable + variable))

calcExpectedInterestRates(c, marketStableRate, utilization, stable, variable, averageStableRate) ==
    LET s      == c.strategy
        above  == utilization > s.optimal
        excess == bnRayDiv(utilization - s.optimal, RAY - s.optimal)
        used   == bnRayDiv(utilization, s.optimal)
        variableRate == IF above
                        THEN s.base + s.variableSlope1 + bnRayMul(s.variableSlope2, excess)
                        ELSE s.base + bnRayMul(used, s.variableSlope1)
        overall == calcExpectedOverallBorrowRate(stable, variable, variableRate, averageStableRate)
    IN  [liquidity |-> percentMul(bnRayMul(overall, utilization),
                                  PERCENTAGE_FACTOR - c.reserveFactor),
         stable    |-> IF above
                       THEN marketStableRate + s.stableSlope1 + bnRayMul(s.stableSlope2, excess)
                       ELSE marketStableRate + bnRayMul(s.stableSlope1, used),
         variable  |-> variableRate]
=============================================================================
