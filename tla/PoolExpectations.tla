-------------------------- MODULE PoolExpectations --------------------------
(***************************************************************************)
(* The pool compared with the test suite's expectations: helpers/utils/    *)
(* helpers.ts reads a reserve and a user through the data provider before  *)
(* and after a call, helpers/actions.ts makes the call, and compares what  *)
(* it reads with what ExpectedData computes.  Each property here is one    *)
(* function of actions.ts with expectedResult 'success', for every state   *)
(* and every argument the instance reaches instead of one scripted story.  *)
(* The data before is read in the block of the call.                       *)
(***************************************************************************)
EXTENDS LendingPool, ExpectedData

CONSTANT ALMOST             \* how far apart two numbers may be: 3 in the code

getReserveData(m, c, t) ==
    LET stable    == stTotalSupply(m, t)
        variable  == varTotalSupply(m, t)
        liquidity == m.cash + stable + variable
    IN  [totalLiquidity             |-> liquidity,
         utilizationRate            |-> IF liquidity = 0 THEN 0
                                        ELSE rayDiv(stable + variable, liquidity),
         availableLiquidity         |-> m.cash,
         totalStableDebt            |-> stable,
         totalVariableDebt          |-> variable,
         liquidityRate              |-> m.currentLiquidityRate,
         variableBorrowRate         |-> m.currentVariableBorrowRate,
         stableBorrowRate           |-> m.currentStableBorrowRate,
         averageStableBorrowRate    |-> m.stAvgRate,
         liquidityIndex             |-> m.liquidityIndex,
         variableBorrowIndex        |-> m.variableBorrowIndex,
         lastUpdateTimestamp        |-> m.lastUpdateTimestamp,
         totalStableDebtLastUpdated |-> m.stTimestamp,
         principalStableDebt        |-> m.stSupply,
         scaledVariableDebt         |-> m.varSupply,
         marketStableRate           |-> c.strategy.marketBorrowRate]

\* currentLTokenBalance is what ELToken.balanceOf answers.
getUserData(m, flags, balance, u, a, t) ==
    [scaledLTokenBalance      |-> m.el[u],
     currentLTokenBalance     |-> m.el[u],
     currentStableDebt        |-> stBalanceOf(m, u, t),
     currentVariableDebt      |-> varBalanceOf(m, u, t),
     principalStableDebt      |-> m.stDebt[u],
     scaledVariableDebt       |-> m.varDebt[u],
     stableBorrowRate         |-> m.stRate[u],
     liquidityRate            |-> m.currentLiquidityRate,
     usageAsCollateralEnabled |-> a \in flags.collateral,
     stableRateLastUpdated    |-> m.stTime[u],
     walletBalance            |-> balance]

\* getContractsData: u's position, the wallet of sender, in the block at t.
reserveAt(a, t) == getReserveData(market[a], config[a], t)
userAt(u, sender, a, t) ==
    getUserData(market[a], usersConfig[u], wallet[sender][a], u, a, t)

ReserveKeys ==
    {"totalLiquidity", "utilizationRate", "availableLiquidity", "totalStableDebt",
     "totalVariableDebt", "liquidityRate", "variableBorrowRate", "stableBorrowRate",
     "averageStableBorrowRate", "liquidityIndex", "variableBorrowIndex",
     "principalStableDebt", "scaledVariableDebt"}
UserKeys ==
    {"scaledLTokenBalance", "currentLTokenBalance", "currentStableDebt", "currentVariableDebt",
     "principalStableDebt", "scaledVariableDebt", "stableBorrowRate", "liquidityRate",
     "stableRateLastUpdated", "walletBalance"}

almostEqual(x, y) == x - y <= ALMOST /\ y - x <= ALMOST

\* almostEqualOrEqual on some of the keys; the accessory ones are skipped there too.
almostEqualOrEqual(actual, expected, keys) ==
    \A key \in keys : almostEqual(actual[key], expected[key])

\* expectEqual on both records; s is the block in which the data after is read.
reserveAsExpected(a, s, expected, keys) ==
    almostEqualOrEqual(getReserveData(market'[a], config[a], s), expected, keys)
userAsExpected(u, sender, a, s, expected, keys) ==
    LET actual == getUserData(market'[a], usersConfig'[u], wallet'[sender][a], u, a, s)
    IN  /\ almostEqualOrEqual(actual, expected, keys)
        /\ actual.usageAsCollateralEnabled = expected.usageAsCollateralEnabled

-------------------------------------------------------------------------------
(***************************************************************************)
(* Properties.  Left out of the comparison, each for a reason the README   *)
(* gives: currentLTokenBalance (see BalanceEarnsInterest), the principal   *)
(* after a deposit (see DepositKeepsPrincipal), and the two stable debts   *)
(* after a variable repayment, which the expectation confuses.             *)
(***************************************************************************)
ComparedUserKeys == UserKeys \ {"currentLTokenBalance"}

\* A deposit, also on behalf of another and into a reserve with both kinds of
\* debt, leaves the reserve and the user as calculations.ts says: interest up to
\* now in both indexes and all debts, rates for the larger liquidity, the
\* collateral flag on a first deposit.
DepositAsExpected ==
    \A u, v \in Users, a \in Assets, amount \in Amounts :
       deposit(u, a, amount, v) =>
         LET before == reserveAt(a, now)
             user   == userAt(v, u, a, now)
             after  == calcExpectedReserveDataAfterDeposit(config[a], amount, before, now)
         IN  /\ reserveAsExpected(a, now, after, ReserveKeys)
             /\ userAsExpected(v, u, a, now,
                  calcExpectedUserDataAfterDeposit(amount, before, after, user, now),
                  ComparedUserKeys \ {"principalStableDebt"})

\* The same for a withdrawal: what leaves the reserve raises its rates.  Taking as
\* much as ELToken.balanceOf answers is the subject of WithdrawAllEmpties: that
\* is the scaled balance, and the pool takes it for the whole claim.
WithdrawAsExpected ==
    \A u \in Users, a \in Assets, amount \in Amounts :
       withdraw(u, a, amount, u) /\ amount < market[a].el[u] =>
         LET before == reserveAt(a, now)
             user   == userAt(u, u, a, now)
             after  == calcExpectedReserveDataAfterWithdraw(config[a], amount, before, user, now)
         IN  /\ reserveAsExpected(a, now, after, ReserveKeys)
             /\ userAsExpected(u, u, a, now,
                  calcExpectedUserDataAfterWithdraw(amount, before, after, user, now),
                  ComparedUserKeys)

\* The same for a loan in either mode, read in the block of the loan or in any
\* later one (timeTravel): the weighted stable rates of user and reserve, and the
\* interest of the periods since.
BorrowAsExpected ==
    \A u, v \in Users, a \in Assets, amount \in Amounts, mode \in Modes :
       borrow(u, a, amount, mode, v) =>
         LET before == reserveAt(a, now)
             user   == userAt(v, u, a, now)
         IN  \A s \in now..MAX_TIME :
               LET after == calcExpectedReserveDataAfterBorrow(config[a], amount, mode, before,
                                                               now, s)
               IN  /\ reserveAsExpected(a, s, after, ReserveKeys)
                   /\ userAsExpected(v, u, a, s,
                        calcExpectedUserDataAfterBorrow(amount, mode, before, after, user, now, s),
                        ComparedUserKeys)

\* The same for a repayment of everything or of at most the debt; the totals of
\* the stable debt are erased when the two ways of accruing them disagree.
RepayAsExpected ==
    \A u, v \in Users, a \in Assets, amount \in Amounts, mode \in Modes :
       /\ repay(u, a, amount, mode, v)
       /\ amount = MAX_UINT_AMOUNT \/ amount <= debtOfMode(market[a], v, mode, now)
       => LET before == reserveAt(a, now)
              user   == userAt(v, v, a, now)
              after  == calcExpectedReserveDataAfterRepay(config[a], amount, mode, before, user,
                                                          now)
              stable == {"currentStableDebt", "principalStableDebt"}
          IN  /\ reserveAsExpected(a, now, after, ReserveKeys)
              /\ userAsExpected(v, v, a, now,
                   calcExpectedUserDataAfterRepay(amount, mode, before, after, user, u = v,
                                                  now, now),
                   IF mode = "STABLE" THEN ComparedUserKeys
                                      ELSE ComparedUserKeys \ stable)

\* The same for a change of mode, which burns one debt, mints the other and
\* re-weighs two averages.
SwapAsExpected ==
    \A u \in Users, a \in Assets, mode \in Modes :
       swapBorrowRateMode(u, a, mode) =>
         LET before == reserveAt(a, now)
             user   == userAt(u, u, a, now)
             after  == calcExpectedReserveDataAfterSwapRateMode(config[a], before, user, mode, now)
         IN  /\ reserveAsExpected(a, now, after, ReserveKeys)
             /\ userAsExpected(u, u, a, now,
                  calcExpectedUserDataAfterSwapRateMode(before, after, user, mode, now),
                  ComparedUserKeys)

\* The same for a rebalancing: the debt stays, the rates follow.
RebalanceAsExpected ==
    \A u \in Users, a \in Assets :
       rebalanceStableBorrowRate(a, u) =>
         LET before == reserveAt(a, now)
             user   == userAt(u, u, a, now)
             after  == calcExpectedReserveDataAfterStableRateRebalance(config[a], before, user,
                                                                       now)
         IN  /\ reserveAsExpected(a, now, after, ReserveKeys)
             /\ userAsExpected(u, u, a, now,
                  calcExpectedUserDataAfterStableRateRebalance(before, after, user, now),
                  ComparedUserKeys)

\* The choice to use a deposit as collateral changes that flag and nothing else of
\* what the user reads.
SetUseAsCollateralAsExpected ==
    \A u \in Users, a \in Assets, useAsCollateral \in BOOLEAN :
       setUserUseReserveAsCollateral(u, a, useAsCollateral) =>
         userAsExpected(u, u, a, now,
           calcExpectedUserDataAfterSetUseAsCollateral(useAsCollateral, userAt(u, u, a, now)),
           UserKeys)

\* A reserve and its supplier after a deposit, a choice of collateral or a withdrawal
\* are what the test suite expects (actions.ts:193, 267, 551).
SuppliesAsExpected ==
    [][DepositAsExpected /\ SetUseAsCollateralAsExpected /\ WithdrawAsExpected]_vars

\* The same for a borrower who takes a loan or repays one (actions.ts:390, 493).
LoansAsExpected == [][BorrowAsExpected /\ RepayAsExpected]_vars

\* The same for the two calls that move a debt between rates (actions.ts:618, 681).
RatesAsExpected == [][SwapAsExpected /\ RebalanceAsExpected]_vars

\* The elToken balance a depositor reads includes the interest earned so far
\* (the test suite expects the scaled balance times the normalized income).
BalanceEarnsInterest ==
    [][\A u, v \in Users, a \in Assets, amount \in Amounts :
         deposit(u, a, amount, v) =>
           almostEqual(getUserData(market'[a], usersConfig'[v], 0, v, a, now).currentLTokenBalance,
                       calcExpectedLTokenBalance(reserveAt(a, now), userAt(v, u, a, now), now)
                         + amount)]_vars

\* A deposit leaves the stable principal of the user alone, whatever variable
\* debt there is (the expectation after a deposit compares it).
DepositKeepsPrincipal ==
    [][\A u, v \in Users, a \in Assets, amount \in Amounts :
         deposit(u, a, amount, v) =>
           LET before == reserveAt(a, now)
               after  == calcExpectedReserveDataAfterDeposit(config[a], amount, before, now)
               user   == userAt(v, u, a, now)
           IN  almostEqual(market'[a].stDebt[v],
                 calcExpectedUserDataAfterDeposit(amount, before, after, user, now)
                   .principalStableDebt)]_vars
=============================================================================
