---------------------------- MODULE ExpectedData ----------------------------
(***************************************************************************)
(* utils/calculations.ts, second half: the reserve and the user the test   *)
(* suite expects after each call of the pool.  Fields that a function does *)
(* not assign are either accessory data, which is never compared, or taken *)
(* over from the record before.                                            *)
(***************************************************************************)
EXTENDS Calculations

\* Both indexes brought up to the transaction.
withIndexes(before, t) ==
    [before EXCEPT !.liquidityIndex = calcExpectedLiquidityIndex(before, t),
                   !.variableBorrowIndex = calcExpectedVariableBorrowIndex(before, t)]

\* The rates at the given debts and liquidity.
withRates(c, r, utilization, stable, variable) ==
    LET rates == calcExpectedInterestRates(c, r.marketStableRate, utilization, stable, variable,
                                           r.averageStableBorrowRate)
    IN  [r EXCEPT !.liquidityRate = rates.liquidity,
                  !.stableBorrowRate = rates.stable,
                  !.variableBorrowRate = rates.variable]

\* Utilization and rates from the totals of r, the end of most functions.
withUtilization(c, r) ==
    LET utilization == calcExpectedUtilizationRate(r.totalStableDebt, r.totalVariableDebt,
                                                   r.totalLiquidity)
    IN  withRates(c, [r EXCEPT !.utilizationRate = utilization],
                  utilization, r.totalStableDebt, r.totalVariableDebt)

withTotalLiquidity(r) ==
    [r EXCEPT !.totalLiquidity =
        r.availableLiquidity + r.totalStableDebt + r.totalVariableDebt]

-------------------------------------------------------------------------------
\* The reserve

calcExpectedReserveDataAfterDeposit(c, amount, before, t) ==
    LET r == withIndexes(before, t)
    IN  withUtilization(c,
          [r EXCEPT !.totalLiquidity = @ + amount,
                    !.availableLiquidity = @ + amount,
                    !.totalStableDebt = reserveStableDebt(before, t),
                    !.totalVariableDebt = calcExpectedTotalVariableDebt(before,
                                                                        r.variableBorrowIndex)])

calcExpectedReserveDataAfterWithdraw(c, amount, before, user, t) ==
    LET r     == withIndexes(before, t)
        taken == IF amount = MAX_UINT_AMOUNT
                 THEN calcExpectedLTokenBalance(before, user, t) ELSE amount
    IN  withUtilization(c, withTotalLiquidity(
          [r EXCEPT !.availableLiquidity = @ - taken,
                    !.totalStableDebt = reserveStableDebt(before, t),
                    !.totalVariableDebt = bnRayMul(before.scaledVariableDebt,
                                                   r.variableBorrowIndex)]))

\* A loan: the rates are those of the transaction at t, the totals those of the
\* block read at u, up to which the loan has earned interest already.
calcExpectedReserveDataAfterBorrow(c, amount, mode, before, t, u) ==
    LET r        == withIndexes(before, t)
        isStable == mode = "STABLE"
        untilTx  == reserveStableDebt(before, t)
        stableAfterTx ==
            IF isStable
            THEN untilTx + amount
            ELSE calcExpectedStableDebtTokenBalance(before.principalStableDebt,
                   before.averageStableBorrowRate, before.totalStableDebtLastUpdated, t)
        scaled   == IF isStable THEN before.scaledVariableDebt
                    ELSE before.scaledVariableDebt + bnRayDiv(amount, r.variableBorrowIndex)
        variableAfterTx == bnRayMul(scaled, r.variableBorrowIndex)
        lent     == [r EXCEPT
                       !.availableLiquidity = @ - amount,
                       !.scaledVariableDebt = scaled,
                       !.principalStableDebt = IF isStable THEN untilTx + amount ELSE @,
                       !.averageStableBorrowRate =
                          IF isStable
                          THEN calcExpectedAverageStableBorrowRate(@, untilTx, amount,
                                                                   before.stableBorrowRate)
                          ELSE @]
        rated    == withRates(c, lent,
                      calcExpectedUtilizationRate(stableAfterTx, variableAfterTx,
                        lent.availableLiquidity + stableAfterTx + variableAfterTx),
                      stableAfterTx, variableAfterTx)
        read     == withTotalLiquidity(
                      [rated EXCEPT
                         !.totalStableDebt =
                            IF isStable
                            THEN calcExpectedTotalStableDebt(rated.principalStableDebt,
                                                             rated.averageStableBorrowRate, t, u)
                            ELSE reserveStableDebt(before, u),
                         !.totalVariableDebt =
                            bnRayMul(scaled, calcExpectedReserveNormalizedDebt(
                                       rated.variableBorrowRate, rated.variableBorrowIndex, t, u))])
    IN  [read EXCEPT !.lastUpdateTimestamp = t,
                     !.utilizationRate =
                        calcExpectedUtilizationRate(read.totalStableDebt, read.totalVariableDebt,
                                                    read.totalLiquidity)]

\* What "everything" means for a repayment.
repaidAmount(amount, mode, before, user, t) ==
    IF amount # MAX_UINT_AMOUNT THEN amount
    ELSE IF mode = "STABLE" THEN userStableDebt(user, t)
    ELSE calcExpectedVariableDebtTokenBalance(before, user, t)

\* Totals and users accumulate apart: a total that would fall below zero, or
\* whose average rate would, is erased.
calcExpectedReserveDataAfterRepay(c, amount, mode, before, user, t) ==
    LET r        == withIndexes(before, t)
        repaid   == repaidAmount(amount, mode, before, user, t)
        debt     == reserveStableDebt(before, t)
        average  == calcExpectedAverageStableBorrowRate(before.averageStableBorrowRate, debt,
                                                        -repaid, user.stableBorrowRate)
        erased   == debt - repaid < 0 \/ average < 0
        scaled   == before.scaledVariableDebt - bnRayDiv(repaid, r.variableBorrowIndex)
        settled  ==
            IF mode = "STABLE"
            THEN [r EXCEPT !.principalStableDebt = IF erased THEN 0 ELSE debt - repaid,
                           !.totalStableDebt = IF erased THEN 0 ELSE debt - repaid,
                           !.averageStableBorrowRate = IF erased THEN 0 ELSE average,
                           !.totalVariableDebt = bnRayMul(before.scaledVariableDebt,
                                                          r.variableBorrowIndex)]
            ELSE [r EXCEPT !.scaledVariableDebt = scaled,
                           !.totalVariableDebt = bnRayMul(scaled, r.variableBorrowIndex)]
    IN  [withUtilization(c, withTotalLiquidity([settled EXCEPT !.availableLiquidity = @ + repaid]))
           EXCEPT !.lastUpdateTimestamp = t]

\* mode is the mode the debt is in; it leaves in the other one.
calcExpectedReserveDataAfterSwapRateMode(c, before, user, mode, t) ==
    LET r            == withIndexes(before, t)
        index        == r.variableBorrowIndex
        variableDebt == calcExpectedVariableDebtTokenBalance(before, user, t)
        stableDebt   == userStableDebt(user, t)
        untilTx      == reserveStableDebt(before, t)
        toVariable   == mode = "STABLE"
        stable       == IF toVariable THEN untilTx - stableDebt ELSE untilTx + variableDebt
        scaled       == IF toVariable
                        THEN before.scaledVariableDebt + bnRayDiv(stableDebt, index)
                        ELSE before.scaledVariableDebt - bnRayDiv(variableDebt, index)
    IN  withUtilization(c, withTotalLiquidity(
          [r EXCEPT !.scaledVariableDebt = scaled,
                    !.totalVariableDebt = bnRayMul(scaled, index),
                    !.principalStableDebt = stable,
                    !.totalStableDebt = stable,
                    !.averageStableBorrowRate =
                       IF toVariable
                       THEN calcExpectedAverageStableBorrowRate(@, stable + stableDebt, -stableDebt,
                                                                user.stableBorrowRate)
                       ELSE calcExpectedAverageStableBorrowRate(@, before.totalStableDebt,
                                                                variableDebt,
                                                                before.stableBorrowRate)]))

\* The old loan is taken out of the average, then put back at the new rate.
calcExpectedReserveDataAfterStableRateRebalance(c, before, user, t) ==
    LET r         == withIndexes(before, t)
        debt      == userStableDebt(user, t)
        total     == reserveStableDebt(before, t)
        avgBefore == calcExpectedAverageStableBorrowRateRebalance(
                       before.averageStableBorrowRate, total, -debt, user.stableBorrowRate)
    IN  withUtilization(c, withTotalLiquidity(
          [r EXCEPT !.totalVariableDebt = bnRayMul(before.scaledVariableDebt,
                                                   r.variableBorrowIndex),
                    !.principalStableDebt = total,
                    !.totalStableDebt = total,
                    !.averageStableBorrowRate =
                       calcExpectedAverageStableBorrowRateRebalance(
                         avgBefore, total - debt, debt, before.stableBorrowRate)]))

-------------------------------------------------------------------------------
\* The user.  after is the reserve expected after the call.

calcExpectedUserDataAfterDeposit(amount, before, after, user, t) ==
    [user EXCEPT
       !.currentStableDebt = userStableDebt(user, t),
       !.currentVariableDebt = calcExpectedVariableDebtTokenBalance(before, user, t),
       \* the second assignment of the chain is the one that stays
       !.principalStableDebt = calcExpectedVariableDebtTokenBalance(before, user, t),
       !.liquidityRate = after.liquidityRate,
       !.scaledLTokenBalance =
          calcExpectedScaledLTokenBalance(user, after.liquidityIndex, amount, 0),
       !.currentLTokenBalance = calcExpectedLTokenBalance(before, user, t) + amount,
       !.usageAsCollateralEnabled = user.currentLTokenBalance = 0 \/ @,
       !.walletBalance = @ - amount]

calcExpectedUserDataAfterWithdraw(amount, before, after, user, t) ==
    LET balance == calcExpectedLTokenBalance(before, user, t)
        taken   == IF amount = MAX_UINT_AMOUNT THEN balance ELSE amount
    IN  [user EXCEPT
           !.scaledLTokenBalance =
              calcExpectedScaledLTokenBalance(user, after.liquidityIndex, 0, taken),
           !.currentLTokenBalance = balance - taken,
           !.currentStableDebt = userStableDebt(user, t),
           !.currentVariableDebt = calcExpectedVariableDebtTokenBalance(before, user, t),
           !.liquidityRate = after.liquidityRate,
           !.usageAsCollateralEnabled =
              user.currentLTokenBalance = 0 \/ (balance - taken # 0 /\ @),
           !.walletBalance = @ + taken]

calcExpectedUserDataAfterBorrow(amount, mode, before, after, user, t, u) ==
    LET untilTx  == userStableDebt(user, t)
        borrowed ==
            IF mode = "STABLE"
            THEN LET rate == calcExpectedUserStableRate(untilTx, user.stableBorrowRate, amount,
                                                        before.stableBorrowRate)
                 IN  [user EXCEPT
                        !.principalStableDebt = untilTx + amount,
                        !.stableRateLastUpdated = t,
                        !.stableBorrowRate = rate,
                        !.currentStableDebt =
                           calcExpectedStableDebtTokenBalance(untilTx + amount, rate, t, u)]
            ELSE [user EXCEPT
                    \* the reserve's scaled debt, not the user's
                    !.scaledVariableDebt = before.scaledVariableDebt
                                             + bnRayDiv(amount, after.variableBorrowIndex),
                    !.currentStableDebt = userStableDebt(user, u)]
    IN  [borrowed EXCEPT
           !.currentVariableDebt = calcExpectedVariableDebtTokenBalance(after, borrowed, u),
           !.liquidityRate = after.liquidityRate,
           !.currentLTokenBalance = calcExpectedLTokenBalance(after, user, u),
           !.walletBalance = @ + amount]

calcExpectedUserDataAfterRepay(amount, mode, before, after, user, own, t, u) ==
    LET repaid     == repaidAmount(amount, mode, before, user, u)
        stableDebt == userStableDebt(user, u)
        left       == stableDebt - repaid
        scaled     == user.scaledVariableDebt - bnRayDiv(repaid, after.variableBorrowIndex)
        settled    ==
            IF mode = "STABLE"
            THEN [user EXCEPT
                    !.currentVariableDebt = calcExpectedVariableDebtTokenBalance(before, user, u),
                    !.principalStableDebt = left,
                    !.currentStableDebt = left,
                    !.stableBorrowRate = IF left = 0 THEN 0 ELSE @,
                    !.stableRateLastUpdated = IF left = 0 THEN 0 ELSE t]
            ELSE [user EXCEPT
                    \* balance and principal change places
                    !.currentStableDebt = user.principalStableDebt,
                    !.principalStableDebt = stableDebt,
                    !.scaledVariableDebt = scaled,
                    !.currentVariableDebt = bnRayMul(scaled, after.variableBorrowIndex)]
    IN  [settled EXCEPT
           !.liquidityRate = after.liquidityRate,
           !.currentLTokenBalance = calcExpectedLTokenBalance(before, user, t),
           !.walletBalance = IF own THEN @ - repaid ELSE @]

calcExpectedUserDataAfterSwapRateMode(before, after, user, mode, t) ==
    LET stableDebt   == userStableDebt(user, t)
        variableDebt == calcExpectedVariableDebtTokenBalance(before, user, t)
        scaled       == user.scaledVariableDebt + bnRayDiv(stableDebt, after.variableBorrowIndex)
        swapped      ==
            IF mode = "STABLE"
            THEN [user EXCEPT
                    !.currentStableDebt = 0, !.principalStableDebt = 0,
                    !.stableBorrowRate = 0, !.stableRateLastUpdated = 0,
                    !.scaledVariableDebt = scaled,
                    !.currentVariableDebt = bnRayMul(scaled, after.variableBorrowIndex)]
            ELSE [user EXCEPT
                    !.currentStableDebt = @ + variableDebt,
                    !.principalStableDebt = user.currentStableDebt + variableDebt,
                    !.stableBorrowRate =
                       calcExpectedUserStableRate(stableDebt, @, variableDebt,
                                                  before.stableBorrowRate),
                    !.stableRateLastUpdated = t,
                    !.currentVariableDebt = 0, !.scaledVariableDebt = 0]
    IN  [swapped EXCEPT
           !.currentLTokenBalance = calcExpectedLTokenBalance(before, user, t),
           !.liquidityRate = after.liquidityRate]

calcExpectedUserDataAfterSetUseAsCollateral(useAsCollateral, user) ==
    [user EXCEPT !.usageAsCollateralEnabled = useAsCollateral]

calcExpectedUserDataAfterStableRateRebalance(before, after, user, t) ==
    [user EXCEPT
       !.principalStableDebt = userStableDebt(user, t),
       !.currentStableDebt = userStableDebt(user, t),
       !.currentVariableDebt = calcExpectedVariableDebtTokenBalance(before, user, t),
       !.stableRateLastUpdated = t,
       !.stableBorrowRate = after.averageStableBorrowRate,
       !.liquidityRate = after.liquidityRate,
       !.currentLTokenBalance = calcExpectedLTokenBalance(before, user, t)]
=============================================================================
