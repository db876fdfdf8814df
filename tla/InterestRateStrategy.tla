------------------------- MODULE InterestRateStrategy -------------------------
(***************************************************************************)
(* DefaultReserveInterestRateStrategy.sol: the two-slope interest rate     *)
(* curve.  A strategy is a record of its immutable parameters together     *)
(* with marketBorrowRate, the base stable rate that the lending rate       *)
(* oracle quotes for the reserve.                                          *)
(***************************************************************************)
EXTENDS WadRayMath

Strategy == [optimal: 1..RAY, base: Nat, variableSlope1: Nat, variableSlope2: Nat,
             stableSlope1: Nat, stableSlope2: Nat, marketBorrowRate: Nat]

getMaxVariableBorrowRate(s) == s.base + s.variableSlope1 + s.variableSlope2

utilizationRate(availableLiquidity, totalDebt) ==
    IF totalDebt = 0 THEN 0 ELSE rayDiv(totalDebt, availableLiquidity + totalDebt)

\* Share of the excess utilization that is in use, in ray.
excessUtilizationRateRatio(s, utilization) ==
    rayDiv(utilization - s.optimal, RAY - s.optimal)

stableBorrowRate(s, utilization) ==
    IF utilization > s.optimal
    THEN s.marketBorrowRate + s.stableSlope1
           + rayMul(s.stableSlope2, excessUtilizationRateRatio(s, utilization))
    ELSE s.marketBorrowRate
           + rayMul(s.stableSlope1, rayDiv(utilization, s.optimal))

variableBorrowRate(s, utilization) ==
    IF utilization > s.optimal
    THEN s.base + s.variableSlope1
           + rayMul(s.variableSlope2, excessUtilizationRateRatio(s, utilization))
    ELSE s.base
           + rayDiv(rayMul(utilization, s.variableSlope1), s.optimal)

\* _getOverallBorrowRate: average of the two rates weighted by the two debts.
getOverallBorrowRate(totalStableDebt, totalVariableDebt, variableRate, avgStableRate) ==
    IF totalStableDebt + totalVariableDebt = 0
    THEN 0
    ELSE rayDiv(rayMul(wadToRay(totalVariableDebt), variableRate)
                  + rayMul(wadToRay(totalStableDebt), avgStableRate),
                wadToRay(totalStableDebt + totalVariableDebt))

(***************************************************************************)
(* calculateInterestRates.  PERCENTAGE_FACTOR.sub(reserveFactor) reverts   *)
(* for a reserve factor above 100%; callers guard against it.              *)
(***************************************************************************)
calculateInterestRates(s, available, stableDebt, variableDebt, avgStableRate, reserveFactor) ==
    LET utilization == utilizationRate(available, stableDebt + variableDebt)
        variable    == variableBorrowRate(s, utilization)
        overall     == getOverallBorrowRate(stableDebt, variableDebt, variable, avgStableRate)
    IN  [liquidity |-> percentMul(rayMul(overall, utilization),
                                  PERCENTAGE_FACTOR - reserveFactor),
         stable    |-> stableBorrowRate(s, utilization),
         variable  |-> variable]
===============================================================================
