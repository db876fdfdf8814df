----------------------------- MODULE ReserveLogic -----------------------------
(***************************************************************************)
(* One reserve of the pool: ReserveLogic.sol and the three token contracts *)
(* that hold its balances (ELToken, VariableDebtToken, StableDebtToken).   *)
(*                                                                         *)
(* A market is a record: the accounting fields of DataTypes.ReserveData,   *)
(* the underlying held by the elToken contract (cash) and the storage of   *)
(* the three tokens.  Each function of the contracts that changes a market *)
(* is an operator from a market to a market.  A function that can revert   *)
(* has a predicate can...; a pool action takes its step only if every      *)
(* function it calls can.  Reverting undoes everything, so checking first  *)
(* and changing afterwards is the same.                                    *)
(*                                                                         *)
(* t is block.timestamp, c the configuration of the reserve.  Events and   *)
(* the incentives controller (a notification that returns nothing) are     *)
(* left out.  uint256 overflow is excluded by the size of the amounts;     *)
(* the uint128 fields are checked as in the code.                          *)
(***************************************************************************)
EXTENDS InterestRateStrategy, FiniteSets

CONSTANTS Users,        \* accounts that call the protocol
          Treasury,     \* the account elTokens are minted to as protocol income
          UINT128_MAX   \* type(uint128).max

ASSUME UsersAssumption == IsFiniteSet(Users)
ASSUME TreasuryAssumption == Treasury \notin Users
ASSUME Uint128Assumption == UINT128_MAX \in Nat /\ RAY <= UINT128_MAX

Accounts == Users \cup {Treasury}

Market ==
    [liquidityIndex: Nat, variableBorrowIndex: Nat,
     currentLiquidityRate: Nat, currentVariableBorrowRate: Nat,
     currentStableBorrowRate: Nat, lastUpdateTimestamp: Nat,
     cash: Nat,                                  \* underlying.balanceOf(elToken)
     elSupply: Nat, el: [Accounts -> Nat],       \* ELToken, scaled
     varSupply: Nat, varDebt: [Users -> Nat],    \* VariableDebtToken, scaled
     stSupply: Nat, stAvgRate: Nat, stTimestamp: Nat,   \* StableDebtToken totals
     stDebt: [Users -> Nat], stRate: [Users -> Nat], stTime: [Users -> Nat]]

Config ==
    [active: BOOLEAN, frozen: BOOLEAN, borrowing: BOOLEAN, stable: BOOLEAN,
     ltv: Nat, threshold: Nat, bonus: Nat, reserveFactor: Nat,
     unit: Nat \ {0},                            \* 10 ** decimals
     strategy: Strategy]

\* A reserve just after init().  lastUpdateTimestamp is left at zero by the code.
InitMarket ==
    [liquidityIndex |-> RAY, variableBorrowIndex |-> RAY,
     currentLiquidityRate |-> 0, currentVariableBorrowRate |-> 0,
     currentStableBorrowRate |-> 0, lastUpdateTimestamp |-> 0,
     cash |-> 0,
     elSupply |-> 0, el |-> [u \in Accounts |-> 0],
     varSupply |-> 0, varDebt |-> [u \in Users |-> 0],
     stSupply |-> 0, stAvgRate |-> 0, stTimestamp |-> 0,
     stDebt |-> [u \in Users |-> 0], stRate |-> [u \in Users |-> 0],
     stTime |-> [u \in Users |-> 0]]

\* The requires `<= type(uint128).max` on the fields stored as uint128.
fitsUint128(m) ==
    /\ m.liquidityIndex <= UINT128_MAX
    /\ m.variableBorrowIndex <= UINT128_MAX
    /\ m.currentLiquidityRate <= UINT128_MAX
    /\ m.currentVariableBorrowRate <= UINT128_MAX
    /\ m.currentStableBorrowRate <= UINT128_MAX
    /\ \A u \in Users : m.stRate[u] <= UINT128_MAX

\* The clocks of a reserve are ordered: no stable debt was touched after the last
\* updateState, and that was not in the future.
ClocksOrdered(m, t) ==
    /\ m.lastUpdateTimestamp <= t
    /\ m.stTimestamp <= m.lastUpdateTimestamp
    /\ \A u \in Users : m.stTime[u] <= m.lastUpdateTimestamp

\* Interest has only been added to the indexes since init().
IndexesStarted(m) == m.liquidityIndex >= RAY /\ m.variableBorrowIndex >= RAY

-------------------------------------------------------------------------------
(***************************************************************************)
(* Views.                                                                  *)
(***************************************************************************)
getNormalizedIncome(m, t) ==
    IF m.lastUpdateTimestamp = t
    THEN m.liquidityIndex
    ELSE rayMul(calculateLinearInterest(m.currentLiquidityRate, m.lastUpdateTimestamp, t),
                m.liquidityIndex)

getNormalizedDebt(m, t) ==
    IF m.lastUpdateTimestamp = t
    THEN m.variableBorrowIndex
    ELSE rayMul(calculateCompoundedInterest(m.currentVariableBorrowRate,
                                            m.lastUpdateTimestamp, t),
                m.variableBorrowIndex)

\* VariableDebtToken.balanceOf and totalSupply
varBalanceOf(m, u, t) == rayMul(m.varDebt[u], getNormalizedDebt(m, t))
varTotalSupply(m, t) == rayMul(m.varSupply, getNormalizedDebt(m, t))

\* StableDebtToken.balanceOf and _calcTotalSupply(_avgStableRate)
stBalanceOf(m, u, t) ==
    IF m.stDebt[u] = 0
    THEN 0
    ELSE rayMul(m.stDebt[u], calculateCompoundedInterest(m.stRate[u], m.stTime[u], t))

stTotalSupply(m, t) ==
    IF m.stSupply = 0
    THEN 0
    ELSE rayMul(m.stSupply, calculateCompoundedInterest(m.stAvgRate, m.stTimestamp, t))

\* Helpers.getUserCurrentDebt, summed
userDebt(m, u, t) == stBalanceOf(m, u, t) + varBalanceOf(m, u, t)

-------------------------------------------------------------------------------
(***************************************************************************)
(* ELToken.  balanceOf is not overridden in this fork: it is the scaled    *)
(* balance m.el[u].                                                        *)
(***************************************************************************)
canMintEl(m, amount) == rayDiv(amount, m.liquidityIndex) # 0

elMint(m, u, amount) ==
    LET amountScaled == rayDiv(amount, m.liquidityIndex)
    IN  [m EXCEPT !.el[u] = @ + amountScaled, !.elSupply = @ + amountScaled]

canBurnEl(m, u, amount) ==
    LET amountScaled == rayDiv(amount, m.liquidityIndex)
    IN  /\ amountScaled # 0
        /\ amountScaled <= m.el[u]
        /\ amountScaled <= m.elSupply
        /\ amount <= m.cash                      \* safeTransfer of the underlying

\* mutant: the amount is not divided by the index
elBurn_unscaled(m, u, amount) ==
    [m EXCEPT !.el[u] = @ - amount, !.elSupply = @ - amount, !.cash = @ - amount]

elBurn(m, u, amount) ==
    LET amountScaled == rayDiv(amount, m.liquidityIndex)
    IN  [m EXCEPT !.el[u] = @ - amountScaled, !.elSupply = @ - amountScaled,
                  !.cash = @ - amount]

\* mutant: the total supply is forgotten
mintToTreasury_balanceOnly(m, amount, index) ==
    [m EXCEPT !.el[Treasury] = @ + rayDiv(amount, index)]

\* No rounding check here; an amount of zero scales to zero.
mintToTreasury(m, amount, index) ==
    LET amountScaled == rayDiv(amount, index)
    IN  [m EXCEPT !.el[Treasury] = @ + amountScaled, !.elSupply = @ + amountScaled]

\* ELToken._transfer: the scaled balances move at the view index.
canTransferEl(m, from, amount, t) ==
    rayDiv(amount, getNormalizedIncome(m, t)) <= m.el[from]

\* mutant: both balances are read before either is written
elTransfer_stale(m, from, to, amount, t) ==
    LET amountScaled == rayDiv(amount, getNormalizedIncome(m, t))
    IN  [m EXCEPT !.el = [@ EXCEPT ![from] = m.el[from] - amountScaled,
                                   ![to] = m.el[to] + amountScaled]]

elTransfer(m, from, to, amount, t) ==
    LET amountScaled == rayDiv(amount, getNormalizedIncome(m, t))
        taken        == [m.el EXCEPT ![from] = @ - amountScaled]
    IN  [m EXCEPT !.el = [taken EXCEPT ![to] = @ + amountScaled]]

-------------------------------------------------------------------------------
(***************************************************************************)
(* VariableDebtToken.  The index is an argument: revision 2 of the pool    *)
(* passes something else than the variable borrow index in one place.      *)
(***************************************************************************)
canMintVar(amount, index) == index # 0 /\ rayDiv(amount, index) # 0

varMint(m, u, amount, index) ==
    LET amountScaled == rayDiv(amount, index)
    IN  [m EXCEPT !.varDebt[u] = @ + amountScaled, !.varSupply = @ + amountScaled]

\* mutant: a position cannot be closed
canBurnVar_strict(m, u, amount) ==
    LET amountScaled == rayDiv(amount, m.variableBorrowIndex)
    IN  amountScaled # 0 /\ amountScaled < m.varDebt[u]

canBurnVar(m, u, amount) ==
    LET amountScaled == rayDiv(amount, m.variableBorrowIndex)
    IN  /\ amountScaled # 0
        /\ amountScaled <= m.varDebt[u]
        /\ amountScaled <= m.varSupply

\* mutant: the amount is not divided by the index
varBurn_unscaled(m, u, amount) ==
    [m EXCEPT !.varDebt[u] = @ - amount, !.varSupply = @ - amount]
\* mutant: the scaled amount is rounded down
varBurn_down(m, u, amount) ==
    LET amountScaled == (amount * RAY) \div m.variableBorrowIndex
    IN  [m EXCEPT !.varDebt[u] = @ - amountScaled, !.varSupply = @ - amountScaled]

varBurn(m, u, amount) ==
    LET amountScaled == rayDiv(amount, m.variableBorrowIndex)
    IN  [m EXCEPT !.varDebt[u] = @ - amountScaled, !.varSupply = @ - amountScaled]

-------------------------------------------------------------------------------
(***************************************************************************)
(* StableDebtToken.  Interest is capitalised into the principal whenever a *)
(* position is touched.                                                    *)
(***************************************************************************)

\* mutant: both rates weigh the same
weightedRate_equal(rate1, weight1, rate2, weight2) == (rate1 + rate2) \div 2

\* The weighted average of two rates, weights in wad.
weightedRate(rate1, weight1, rate2, weight2) ==
    rayDiv(rayMul(rate1, wadToRay(weight1)) + rayMul(rate2, wadToRay(weight2)),
           wadToRay(weight1 + weight2))

\* both averages divide by the balance they are the average of
canMintSt(m, u, amount, t) ==
    stBalanceOf(m, u, t) + amount # 0 /\ stTotalSupply(m, t) + amount # 0

stMint(m, u, amount, rate, t) ==
    LET currentBalance == stBalanceOf(m, u, t)
        previousSupply == stTotalSupply(m, t)
    IN  [m EXCEPT !.stSupply    = previousSupply + amount,
                  !.stAvgRate   = weightedRate(m.stAvgRate, previousSupply, rate, amount),
                  !.stTimestamp = t,
                  !.stDebt[u]   = currentBalance + amount,
                  !.stRate[u]   = weightedRate(m.stRate[u], currentBalance, rate, amount),
                  !.stTime[u]   = t]

\* mutant: only principal, not accrued interest, can be burnt
canBurnSt_principal(m, u, amount, t) == amount <= m.stDebt[u]

canBurnSt(m, u, amount, t) == amount <= stBalanceOf(m, u, t)

\* mutant: the accrued interest is not added to the principal
stBurn_principal(m, u, amount, t) ==
    [m EXCEPT !.stSupply = 0, !.stAvgRate = 0, !.stTimestamp = t,
              !.stDebt[u] = @ - amount, !.stTime[u] = t]

stBurn(m, u, amount, t) ==
    LET currentBalance == stBalanceOf(m, u, t)
        previousSupply == stTotalSupply(m, t)
        firstTerm      == rayMul(m.stAvgRate, wadToRay(previousSupply))
        secondTerm     == rayMul(m.stRate[u], wadToRay(amount))
        \* totals and users accrue separately; the code resets the totals when
        \* this repayment exhausts either of them
        exhausted      == previousSupply <= amount \/ secondTerm >= firstTerm
        full           == amount = currentBalance
    IN  [m EXCEPT !.stSupply    = IF exhausted THEN 0 ELSE previousSupply - amount,
                  !.stAvgRate   = IF exhausted THEN 0
                                  ELSE rayDiv(firstTerm - secondTerm,
                                              wadToRay(previousSupply - amount)),
                  !.stTimestamp = t,
                  !.stDebt[u]   = currentBalance - amount,
                  !.stRate[u]   = IF full THEN 0 ELSE @,
                  !.stTime[u]   = IF full THEN 0 ELSE t]

-------------------------------------------------------------------------------
(***************************************************************************)
(* ReserveLogic.updateState = _updateIndexes, then _mintToTreasury.        *)
(***************************************************************************)
\* mutant: the interest replaces the index instead of multiplying it
updateIndexes_replace(m, t) ==
    [m EXCEPT !.liquidityIndex = calculateLinearInterest(m.currentLiquidityRate,
                                                         m.lastUpdateTimestamp, t),
              !.lastUpdateTimestamp = t]
\* mutant: nothing to accrue, nothing to record
updateIndexes_idle(m, t) ==
    IF m.currentLiquidityRate = 0
    THEN m
    ELSE [m EXCEPT !.liquidityIndex = rayMul(calculateLinearInterest(m.currentLiquidityRate,
                                               m.lastUpdateTimestamp, t), @),
                   !.lastUpdateTimestamp = t]

updateIndexes(m, t) ==
    LET income    == calculateLinearInterest(m.currentLiquidityRate, m.lastUpdateTimestamp, t)
        accrues   == m.currentLiquidityRate > 0
        newIncome == IF accrues THEN rayMul(income, m.liquidityIndex) ELSE m.liquidityIndex
        newDebt   == IF accrues /\ m.varSupply # 0
                     THEN rayMul(calculateCompoundedInterest(m.currentVariableBorrowRate,
                                                             m.lastUpdateTimestamp, t),
                                 m.variableBorrowIndex)
                     ELSE m.variableBorrowIndex
        \* the accrued interest ratio itself, a ray number, is minted as an
        \* amount of tokens at the old index
        minted    == IF newIncome # m.liquidityIndex
                     THEN mintToTreasury(m, income - RAY, m.liquidityIndex)
                     ELSE m
    IN  [minted EXCEPT !.liquidityIndex      = newIncome,
                       !.variableBorrowIndex = newDebt,
                       !.lastUpdateTimestamp = t]

\* Interest the borrowers of m owe since its last update, given the updated
\* variable index; the code computes it with two SafeMath subtractions.
totalDebtAccrued(m, newVariableBorrowIndex, t) ==
    rayMul(m.varSupply, newVariableBorrowIndex) + stTotalSupply(m, t)
      - rayMul(m.varSupply, m.variableBorrowIndex)
      - rayMul(m.stSupply, calculateCompoundedInterest(m.stAvgRate, m.stTimestamp,
                                                       m.lastUpdateTimestamp))

canUpdateState(m, c, t) ==
    c.reserveFactor # 0 =>
        /\ m.stTimestamp <= m.lastUpdateTimestamp
        /\ totalDebtAccrued(m, updateIndexes(m, t).variableBorrowIndex, t) >= 0

updateState(m, c, t) ==
    LET indexed == updateIndexes(m, t)
        accrued == totalDebtAccrued(m, indexed.variableBorrowIndex, t)
    IN  IF c.reserveFactor = 0
        THEN indexed
        ELSE mintToTreasury(indexed, percentMul(accrued, c.reserveFactor),
                            indexed.liquidityIndex)

(***************************************************************************)
(* ReserveLogic.updateInterestRates.  It runs before the underlying moves, *)
(* so the amounts about to enter or leave are passed explicitly.           *)
(***************************************************************************)
canUpdateInterestRates(m, c, added, taken) ==
    /\ taken <= m.cash + added
    /\ c.reserveFactor <= PERCENTAGE_FACTOR

\* mutant: what is about to leave still counts as available
updateInterestRates_early(m, c, t, added, taken) ==
    LET rates == calculateInterestRates(c.strategy, m.cash + added, stTotalSupply(m, t),
                                        rayMul(m.varSupply, m.variableBorrowIndex),
                                        m.stAvgRate, c.reserveFactor)
    IN  [m EXCEPT !.currentLiquidityRate      = rates.liquidity,
                  !.currentStableBorrowRate   = rates.stable,
                  !.currentVariableBorrowRate = rates.variable]

updateInterestRates(m, c, t, added, taken) ==
    LET rates == calculateInterestRates(c.strategy, m.cash + added - taken,
                                        stTotalSupply(m, t),
                                        rayMul(m.varSupply, m.variableBorrowIndex),
                                        m.stAvgRate, c.reserveFactor)
    IN  [m EXCEPT !.currentLiquidityRate      = rates.liquidity,
                  !.currentStableBorrowRate   = rates.stable,
                  !.currentVariableBorrowRate = rates.variable]
===============================================================================
