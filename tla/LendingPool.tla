------------------------------ MODULE LendingPool ------------------------------
(***************************************************************************)
(* The lending pool: LendingPool.sol (revision 2), LendingPoolTmp.sol      *)
(* (revision 3) and LendingPoolV4.sol (revision 4) with the libraries they *)
(* call, LendingPoolCollateralManager.sol, and the two token entry points  *)
(* that reach the pool (ELToken.transfer, DebtTokenBase.approveDelegation).*)
(*                                                                         *)
(* Every external call is one action: a transaction is atomic, and a call  *)
(* whose requires fail leaves no trace.  The actors are users calling in   *)
(* any order, time, and the price oracle.                                  *)
(***************************************************************************)
EXTENDS ReserveLogic, Functions

CONSTANTS Assets,           \* the initialised reserves
          Amounts,          \* amounts users ask for; may contain UINT256_MAX
          Prices,           \* prices the oracle may quote for each asset
          Calls,            \* for each operation the <<caller, other party, asset>>
                            \* it is called with
          UINT256_MAX,      \* type(uint256).max, the "everything" argument
          MAX_TIME,         \* bound on block.timestamp
          BorrowModes,      \* rate modes users ask for
          Delegations,      \* <<delegator, delegatee, asset, mode>> users may approve
          REVISION,         \* POOL_REVISION of the implementation: 2, 3 or 4
          InitialConfig,    \* configuration of each reserve
          InitialWallet,    \* underlying each user owns before the first call
          InitialPrice,
          MAX_STABLE_RATE_BORROW_SIZE_PERCENT,
          LIQUIDATION_CLOSE_FACTOR_PERCENT,
          REBALANCE_UP_LIQUIDITY_RATE_THRESHOLD,
          REBALANCE_UP_USAGE_RATIO_THRESHOLD

Operations == {"deposit", "withdraw", "borrow", "repay", "swap", "rebalance",
               "useAsCollateral", "transfer", "liquidation"}

ASSUME BoundsAssumption ==
    /\ IsFiniteSet(Assets)
    /\ Amounts \subseteq Nat
    /\ Prices \in [Assets -> SUBSET (Nat \ {0})]
    /\ Calls \in [Operations -> SUBSET (Users \X Users \X Assets)]
    /\ UINT256_MAX \in Nat
    /\ MAX_TIME \in Nat
    /\ BorrowModes \subseteq {"STABLE", "VARIABLE"}
    /\ Delegations \subseteq Users \X Users \X Assets \X {"STABLE", "VARIABLE"}
ASSUME InitialAssumption ==
    /\ InitialConfig \in [Assets -> Config]
    /\ InitialWallet \in [Users -> [Assets -> Nat]]
    /\ InitialPrice \in [Assets -> Nat \ {0}]
ASSUME ParameterAssumption ==
    /\ MAX_STABLE_RATE_BORROW_SIZE_PERCENT \in Nat
    /\ LIQUIDATION_CLOSE_FACTOR_PERCENT \in 0..PERCENTAGE_FACTOR
    /\ REBALANCE_UP_LIQUIDITY_RATE_THRESHOLD \in Nat
    /\ REBALANCE_UP_USAGE_RATIO_THRESHOLD \in Nat

VARIABLES now,              \* block.timestamp
          paused,           \* LendingPoolStorage._paused
          price,            \* what the price oracle answers
          config,           \* _reserves[a].configuration and strategy
          market,           \* the rest of _reserves[a] and its three tokens
          usersConfig,      \* _usersConfig as two sets of reserves per user
          wallet,           \* underlying balances of the users
          borrowAllowance   \* credit delegation of the two debt tokens

vars == <<now, paused, price, config, market, usersConfig, wallet, borrowAllowance>>

Modes == {"STABLE", "VARIABLE"}

UserConfig == [collateral: SUBSET Assets, borrowing: SUBSET Assets]

\* The state has its type: no balance, index or allowance goes below zero.
TypeOK ==
    /\ now \in Nat
    /\ paused \in BOOLEAN
    /\ price \in [Assets -> Nat \ {0}]
    /\ config \in [Assets -> Config]
    /\ market \in [Assets -> Market]
    /\ usersConfig \in [Users -> UserConfig]
    /\ wallet \in [Users -> [Assets -> Nat]]
    /\ borrowAllowance \in [Modes -> [Assets -> [Users -> [Users -> Nat]]]]

Init ==
    /\ now = 1
    /\ paused = FALSE
    /\ price = InitialPrice
    /\ config = InitialConfig
    /\ market = [a \in Assets |-> InitMarket]
    /\ usersConfig = [u \in Users |-> [collateral |-> {}, borrowing |-> {}]]
    /\ wallet = InitialWallet
    /\ borrowAllowance =
         [mode \in Modes |-> [a \in Assets |-> [u \in Users |-> [v \in Users |-> 0]]]]

-------------------------------------------------------------------------------
(***************************************************************************)
(* UserConfiguration: the two bits a user has for each reserve.            *)
(***************************************************************************)
setUsingAsCollateral(configs, u, a, flag) ==
    [configs EXCEPT ![u].collateral = IF flag THEN @ \cup {a} ELSE @ \ {a}]

setBorrowing(configs, u, a, flag) ==
    [configs EXCEPT ![u].borrowing = IF flag THEN @ \cup {a} ELSE @ \ {a}]

-------------------------------------------------------------------------------
(***************************************************************************)
(* GenericLogic: a user's position valued in the oracle's currency.  The   *)
(* operators take the markets and flags they read, because a transfer is   *)
(* validated on the balances after it.                                     *)
(***************************************************************************)
valueInETH(a, amount) == (price[a] * amount) \div config[a].unit

countsAsCollateral(flags, a) == config[a].threshold # 0 /\ a \in flags.collateral

collateralETH(mkt, u, a) == valueInETH(a, mkt[a].el[u])

calculateUserAccountData(mkt, flags, u) ==
    LET counted    == {a \in Assets : countsAsCollateral(flags, a)}
        collateral == SumFunction([a \in counted |-> collateralETH(mkt, u, a)])
        average(weight) ==
            IF collateral > 0
            THEN SumFunction([a \in counted |-> collateralETH(mkt, u, a) * weight[a]])
                   \div collateral
            ELSE 0
    IN  [collateral |-> collateral,
         debt       |-> SumFunction([a \in flags.borrowing |->
                                       valueInETH(a, userDebt(mkt[a], u, now))]),
         ltv        |-> average([a \in counted |-> config[a].ltv]),
         threshold  |-> average([a \in counted |-> config[a].threshold])]

calculateHealthFactorFromBalances(collateral, debt, threshold) ==
    IF debt = 0 THEN UINT256_MAX ELSE wadDiv(percentMul(collateral, threshold), debt)

healthFactor(mkt, flags, u) ==
    LET data == calculateUserAccountData(mkt, flags, u)
    IN  calculateHealthFactorFromBalances(data.collateral, data.debt, data.threshold)

HEALTH_FACTOR_LIQUIDATION_THRESHOLD == WAD

balanceDecreaseAllowed(u, a, amount) ==
    LET flags      == usersConfig[u]
        data       == calculateUserAccountData(market, flags, u)
        decrease   == valueInETH(a, amount)
        after      == data.collateral - decrease
        thresholdAfter ==
            (data.collateral * data.threshold - decrease * config[a].threshold) \div after
    IN  \/ flags.borrowing = {}
        \/ a \notin flags.collateral
        \/ config[a].threshold = 0
        \/ data.debt = 0
        \/ /\ after > 0
           /\ data.collateral * data.threshold >= decrease * config[a].threshold
           /\ calculateHealthFactorFromBalances(after, data.debt, thresholdAfter)
                >= HEALTH_FACTOR_LIQUIDATION_THRESHOLD

-------------------------------------------------------------------------------
(***************************************************************************)
(* ValidationLogic.                                                        *)
(***************************************************************************)
validateDeposit(a, amount) ==
    amount # 0 /\ config[a].active /\ ~config[a].frozen

validateWithdraw(u, a, amount) ==
    /\ amount # 0
    /\ amount <= market[a].el[u]
    /\ config[a].active
    /\ balanceDecreaseAllowed(u, a, amount)

\* A stable loan must not be covered by a deposit of the same currency.
notSameCurrency(u, a, debt) ==
    \/ a \notin usersConfig[u].collateral
    \/ config[a].ltv = 0
    \/ debt > market[a].el[u]

\* mutant: the new debt is not counted
validateBorrow_before(a, onBehalfOf, amount, mode) ==
    LET data == calculateUserAccountData(market, usersConfig[onBehalfOf], onBehalfOf)
    IN  /\ config[a].borrowing /\ amount # 0
        /\ data.collateral > 0 /\ data.ltv # 0
        /\ percentDiv(data.debt, data.ltv) <= data.collateral

validateBorrow(a, onBehalfOf, amount, mode) ==
    LET data == calculateUserAccountData(market, usersConfig[onBehalfOf], onBehalfOf)
    IN  /\ config[a].active /\ ~config[a].frozen
        /\ amount # 0
        /\ config[a].borrowing
        /\ data.collateral > 0
        /\ calculateHealthFactorFromBalances(data.collateral, data.debt, data.threshold)
             > HEALTH_FACTOR_LIQUIDATION_THRESHOLD
        /\ data.ltv # 0
        /\ percentDiv(data.debt + valueInETH(a, amount), data.ltv) <= data.collateral
        /\ mode = "STABLE" =>
             /\ config[a].stable
             /\ notSameCurrency(onBehalfOf, a,
                                amount + stBalanceOf(market[a], onBehalfOf, now))
             /\ amount <= percentMul(market[a].cash, MAX_STABLE_RATE_BORROW_SIZE_PERCENT)

debtOfMode(m, u, mode, t) ==
    IF mode = "STABLE" THEN stBalanceOf(m, u, t) ELSE varBalanceOf(m, u, t)

validateRepay(u, a, amount, mode, onBehalfOf) ==
    /\ config[a].active
    /\ amount > 0
    /\ debtOfMode(market[a], onBehalfOf, mode, now) > 0
    /\ amount # UINT256_MAX \/ u = onBehalfOf

\* rateMode is read as the mode the debt is in now.
validateSwapRateMode(u, a, rateMode) ==
    /\ config[a].active /\ ~config[a].frozen
    /\ debtOfMode(market[a], u, rateMode, now) > 0
    /\ rateMode = "VARIABLE" =>
         /\ config[a].stable
         /\ notSameCurrency(u, a, userDebt(market[a], u, now))

validateRebalanceStableBorrowRate(a) ==
    LET m         == market[a]
        totalDebt == stTotalSupply(m, now) + varTotalSupply(m, now)
        usage     == IF totalDebt = 0 THEN 0
                     ELSE rayDiv(wadToRay(totalDebt), wadToRay(m.cash) + wadToRay(totalDebt))
    IN  /\ config[a].active
        /\ usage >= REBALANCE_UP_USAGE_RATIO_THRESHOLD
        /\ m.currentLiquidityRate
             <= percentMul(getMaxVariableBorrowRate(config[a].strategy),
                           REBALANCE_UP_LIQUIDITY_RATE_THRESHOLD)

\* mutant: collateral in use can be switched off
validateSetUseReserveAsCollateral_free(u, a, useAsCollateral) == market[a].el[u] > 0

validateSetUseReserveAsCollateral(u, a, useAsCollateral) ==
    /\ market[a].el[u] > 0
    /\ useAsCollateral \/ balanceDecreaseAllowed(u, a, market[a].el[u])

\* mutant: the health factor is not looked at
validateLiquidationCall_any(collateralAsset, debtAsset, user) ==
    /\ countsAsCollateral(usersConfig[user], collateralAsset)
    /\ userDebt(market[debtAsset], user, now) # 0

validateLiquidationCall(collateralAsset, debtAsset, user) ==
    /\ config[collateralAsset].active /\ config[debtAsset].active
    /\ healthFactor(market, usersConfig[user], user) < HEALTH_FACTOR_LIQUIDATION_THRESHOLD
    /\ countsAsCollateral(usersConfig[user], collateralAsset)
    /\ userDebt(market[debtAsset], user, now) # 0

-------------------------------------------------------------------------------
(***************************************************************************)
(* Actions.  m1, m2, ... are the successive contents of a reserve within   *)
(* one call, in the order of the code.                                     *)
(***************************************************************************)
deposit(u, a, amount, onBehalfOf) ==
    LET m  == market[a]
        m1 == updateState(m, config[a], now)
        m2 == updateInterestRates(m1, config[a], now, amount, 0)
        m3 == elMint([m2 EXCEPT !.cash = @ + amount], onBehalfOf, amount)
    IN  /\ ~paused
        /\ validateDeposit(a, amount)
        /\ canUpdateState(m, config[a], now)
        /\ canUpdateInterestRates(m1, config[a], amount, 0)
        /\ wallet[u][a] >= amount
        /\ canMintEl(m1, amount)
        /\ fitsUint128(m3)
        /\ market' = [market EXCEPT ![a] = m3]
        /\ wallet' = [wallet EXCEPT ![u][a] = @ - amount]
        /\ usersConfig' = IF m.el[onBehalfOf] = 0
                          THEN setUsingAsCollateral(usersConfig, onBehalfOf, a, TRUE)
                          ELSE usersConfig
        /\ UNCHANGED <<now, paused, price, config, borrowAllowance>>

withdraw(u, a, amount, to) ==
    LET m       == market[a]
        balance == m.el[u]
        toWithdraw == IF amount = UINT256_MAX THEN balance ELSE amount
        m1 == updateState(m, config[a], now)
        m2 == updateInterestRates(m1, config[a], now, 0, toWithdraw)
        m3 == elBurn(m2, u, toWithdraw)
    IN  /\ ~paused
        /\ validateWithdraw(u, a, toWithdraw)
        /\ canUpdateState(m, config[a], now)
        /\ canUpdateInterestRates(m1, config[a], 0, toWithdraw)
        /\ canBurnEl(m1, u, toWithdraw)
        /\ fitsUint128(m3)
        /\ market' = [market EXCEPT ![a] = m3]
        /\ wallet' = [wallet EXCEPT ![to][a] = @ + toWithdraw]
        /\ usersConfig' = IF toWithdraw = balance
                          THEN setUsingAsCollateral(usersConfig, u, a, FALSE)
                          ELSE usersConfig
        /\ UNCHANGED <<now, paused, price, config, borrowAllowance>>

\* The mint of either debt token, at the terms the reserve offers now.
mintDebt(m, onBehalfOf, amount, mode, t) ==
    IF mode = "STABLE"
    THEN stMint(m, onBehalfOf, amount, m.currentStableBorrowRate, t)
    ELSE varMint(m, onBehalfOf, amount, m.variableBorrowIndex)

canMintDebt(m, onBehalfOf, amount, mode, t) ==
    IF mode = "STABLE"
    THEN canMintSt(m, onBehalfOf, amount, t)
    ELSE canMintVar(amount, m.variableBorrowIndex)

burnDebt(m, user, amount, mode, t) ==
    IF mode = "STABLE" THEN stBurn(m, user, amount, t) ELSE varBurn(m, user, amount)

canBurnDebt(m, user, amount, mode, t) ==
    IF mode = "STABLE" THEN canBurnSt(m, user, amount, t) ELSE canBurnVar(m, user, amount)

\* What the mint reports as the first borrowing of the user in this mode.
isFirstBorrowing(m, u, mode, t) ==
    IF mode = "STABLE" THEN stBalanceOf(m, u, t) = 0 ELSE m.varDebt[u] = 0

\* mutant: any loan is covered
canDecreaseBorrowAllowance_any(a, mode, delegator, delegatee, amount) == TRUE

\* DebtTokenBase._decreaseBorrowAllowance, when another borrows on one's credit
canDecreaseBorrowAllowance(a, mode, delegator, delegatee, amount) ==
    delegator # delegatee => amount <= borrowAllowance[mode][a][delegator][delegatee]

\* borrow, through _executeBorrow with releaseUnderlying = true
borrow(u, a, amount, mode, onBehalfOf) ==
    LET m  == market[a]
        m1 == updateState(m, config[a], now)
        m2 == mintDebt(m1, onBehalfOf, amount, mode, now)
        m3 == updateInterestRates(m2, config[a], now, 0, amount)
        m4 == [m3 EXCEPT !.cash = @ - amount]
    IN  /\ ~paused
        /\ validateBorrow(a, onBehalfOf, amount, mode)
        /\ canUpdateState(m, config[a], now)
        /\ canDecreaseBorrowAllowance(a, mode, onBehalfOf, u, amount)
        /\ canMintDebt(m1, onBehalfOf, amount, mode, now)
        /\ canUpdateInterestRates(m2, config[a], 0, amount)
        /\ fitsUint128(m4)
        /\ market' = [market EXCEPT ![a] = m4]
        /\ wallet' = [wallet EXCEPT ![u][a] = @ + amount]
        /\ usersConfig' = IF isFirstBorrowing(m1, onBehalfOf, mode, now)
                          THEN setBorrowing(usersConfig, onBehalfOf, a, TRUE)
                          ELSE usersConfig
        /\ borrowAllowance' = IF u # onBehalfOf
                              THEN [borrowAllowance EXCEPT ![mode][a][onBehalfOf][u] = @ - amount]
                              ELSE borrowAllowance
        /\ UNCHANGED <<now, paused, price, config>>

\* What the pool burns: the amount asked for, at most the debt.
paybackAmount(u, a, amount, mode) ==
    LET debt == debtOfMode(market[a], u, mode, now)
    IN  IF amount < debt THEN amount ELSE debt

\* The reserve after the interest is settled and payback is burnt.
repaid(a, payback, mode, onBehalfOf) ==
    burnDebt(updateState(market[a], config[a], now), onBehalfOf, payback, mode, now)

canRepay(u, a, amount, mode, onBehalfOf) ==
    LET payback == paybackAmount(onBehalfOf, a, amount, mode)
        m1 == updateState(market[a], config[a], now)
        m2 == repaid(a, payback, mode, onBehalfOf)
    IN  /\ ~paused
        /\ validateRepay(u, a, amount, mode, onBehalfOf)
        /\ canUpdateState(market[a], config[a], now)
        /\ canBurnDebt(m1, onBehalfOf, payback, mode, now)
        /\ canUpdateInterestRates(m2, config[a], payback, 0)
        /\ wallet[u][a] >= payback
        /\ fitsUint128(updateInterestRates(m2, config[a], now, payback, 0))

\* mutant: the payment is compared with the scaled balance
repaysEverything_scaled(u, a, payback) == market[a].varDebt[u] <= payback
\* mutant: the payment clears one of the two debts
repaysEverything_either(u, a, payback) ==
    \/ stBalanceOf(market[a], u, now) = payback
    \/ varBalanceOf(market[a], u, now) = payback

repaysEverything(u, a, payback) == userDebt(market[a], u, now) - payback = 0

repay(u, a, amount, mode, onBehalfOf) ==
    LET payback == paybackAmount(onBehalfOf, a, amount, mode)
        m1 == repaid(a, payback, mode, onBehalfOf)
        m2 == updateInterestRates(m1, config[a], now, payback, 0)
    IN  /\ canRepay(u, a, amount, mode, onBehalfOf)
        /\ market' = [market EXCEPT ![a] = [m2 EXCEPT !.cash = @ + payback]]
        /\ wallet' = [wallet EXCEPT ![u][a] = @ - payback]
        /\ usersConfig' = IF repaysEverything(onBehalfOf, a, payback)
                          THEN setBorrowing(usersConfig, onBehalfOf, a, FALSE)
                          ELSE usersConfig
        /\ UNCHANGED <<now, paused, price, config, borrowAllowance>>

otherMode(mode) == IF mode = "STABLE" THEN "VARIABLE" ELSE "STABLE"

swapBorrowRateMode(u, a, rateMode) ==
    LET m    == market[a]
        debt == debtOfMode(m, u, rateMode, now)
        m1 == updateState(m, config[a], now)
        m2 == burnDebt(m1, u, debt, rateMode, now)
        m3 == mintDebt(m2, u, debt, otherMode(rateMode), now)
        m4 == updateInterestRates(m3, config[a], now, 0, 0)
    IN  /\ ~paused
        /\ validateSwapRateMode(u, a, rateMode)
        /\ canUpdateState(m, config[a], now)
        /\ canBurnDebt(m1, u, debt, rateMode, now)
        /\ canMintDebt(m2, u, debt, otherMode(rateMode), now)
        /\ canUpdateInterestRates(m3, config[a], 0, 0)
        /\ fitsUint128(m4)
        /\ market' = [market EXCEPT ![a] = m4]
        /\ UNCHANGED <<now, paused, price, config, usersConfig, wallet, borrowAllowance>>

(***************************************************************************)
(* rebalanceStableBorrowRate.  Revisions 3 and 4 give the debt back at the *)
(* current stable rate; revision 2 gives it back as variable debt scaled   *)
(* by the current variable borrow RATE.                                    *)
(***************************************************************************)
\* mutant: the debt is given back at the variable rate
rebalanced_variable(m, user, debt, t) ==
    varMint(m, user, debt, m.variableBorrowIndex)

rebalanced(m, user, debt, t) ==
    IF REVISION = 2
    THEN varMint(m, user, debt, m.currentVariableBorrowRate)
    ELSE stMint(m, user, debt, m.currentStableBorrowRate, t)

canRebalance(m, user, debt, t) ==
    IF REVISION = 2
    THEN canMintVar(debt, m.currentVariableBorrowRate)
    ELSE canMintSt(m, user, debt, t)

rebalanceStableBorrowRate(a, user) ==
    LET m    == market[a]
        debt == stBalanceOf(m, user, now)
        m1 == updateState(m, config[a], now)
        m2 == stBurn(m1, user, debt, now)
        m3 == rebalanced(m2, user, debt, now)
        m4 == updateInterestRates(m3, config[a], now, 0, 0)
    IN  /\ ~paused
        /\ validateRebalanceStableBorrowRate(a)
        /\ canUpdateState(m, config[a], now)
        /\ canBurnSt(m1, user, debt, now)
        /\ canRebalance(m2, user, debt, now)
        /\ canUpdateInterestRates(m3, config[a], 0, 0)
        /\ fitsUint128(m4)
        /\ market' = [market EXCEPT ![a] = m4]
        /\ UNCHANGED <<now, paused, price, config, usersConfig, wallet, borrowAllowance>>

setUserUseReserveAsCollateral(u, a, useAsCollateral) ==
    /\ ~paused
    /\ validateSetUseReserveAsCollateral(u, a, useAsCollateral)
    /\ usersConfig' = setUsingAsCollateral(usersConfig, u, a, useAsCollateral)
    /\ UNCHANGED <<now, paused, price, config, market, wallet, borrowAllowance>>

(***************************************************************************)
(* ELToken.transfer and the pool's finalizeTransfer: the health factor is  *)
(* computed on the balances after the move, with the flags before it.      *)
(***************************************************************************)
transfer(from, to, a, amount) ==
    LET m     == market[a]
        index == getNormalizedIncome(m, now)
        fromBalanceBefore == rayMul(m.el[from], index)
        toBalanceBefore   == rayMul(m.el[to], index)
        moved == [market EXCEPT ![a] = elTransfer(m, from, to, amount, now)]
        left  == IF from # to /\ fromBalanceBefore - amount = 0
                 THEN setUsingAsCollateral(usersConfig, from, a, FALSE)
                 ELSE usersConfig
    IN  /\ ~paused
        /\ canTransferEl(m, from, amount, now)
        /\ healthFactor(moved, usersConfig[from], from) >= HEALTH_FACTOR_LIQUIDATION_THRESHOLD
        /\ from # to => amount <= fromBalanceBefore
        /\ market' = moved
        /\ usersConfig' = IF from # to /\ toBalanceBefore = 0 /\ amount # 0
                          THEN setUsingAsCollateral(left, to, a, TRUE)
                          ELSE left
        /\ UNCHANGED <<now, paused, price, config, wallet, borrowAllowance>>

approveDelegation(u, delegatee, a, mode, amount) ==
    /\ borrowAllowance' = [borrowAllowance EXCEPT ![mode][a][u][delegatee] = amount]
    /\ UNCHANGED <<now, paused, price, config, market, usersConfig, wallet>>

-------------------------------------------------------------------------------
(***************************************************************************)
(* LendingPoolCollateralManager.  Error codes returned to the pool make it *)
(* revert, so they are guards like the requires.                           *)
(***************************************************************************)

\* The collateral seized for debtToCover, and the debt that much collateral pays.
calculateAvailableCollateralToLiquidate(collateralAsset, debtAsset, debtToCover, balance) ==
    LET cUnit == config[collateralAsset].unit
        dUnit == config[debtAsset].unit
        bonus == config[collateralAsset].bonus
        most  == percentMul(price[debtAsset] * debtToCover * cUnit, bonus)
                   \div (price[collateralAsset] * dUnit)
    IN  IF most > balance
        THEN [collateral |-> balance,
              debt |-> percentDiv((price[collateralAsset] * balance * dUnit)
                                    \div (price[debtAsset] * cUnit), bonus)]
        ELSE [collateral |-> most, debt |-> debtToCover]

\* mutant: the stable part is not reduced by the variable part
liquidateDebt_both(m, user, variableDebt, actual, t) ==
    IF variableDebt >= actual
    THEN varBurn(m, user, actual)
    ELSE stBurn(IF variableDebt > 0 THEN varBurn(m, user, variableDebt) ELSE m, user, actual, t)

\* Variable debt is paid first, stable debt with what is left.
liquidateDebt(m, user, variableDebt, actual, t) ==
    IF variableDebt >= actual
    THEN varBurn(m, user, actual)
    ELSE stBurn(IF variableDebt > 0 THEN varBurn(m, user, variableDebt) ELSE m,
                user, actual - variableDebt, t)

canLiquidateDebt(m, user, variableDebt, actual, t) ==
    IF variableDebt >= actual
    THEN canBurnVar(m, user, actual)
    ELSE /\ variableDebt > 0 => canBurnVar(m, user, variableDebt)
         /\ canBurnSt(m, user, actual - variableDebt, t)

\* mutant: no close factor
liquidationAmounts_all(collateralAsset, debtAsset, user, debtToCover) ==
    LET owed   == userDebt(market[debtAsset], user, now)
        wanted == IF debtToCover > owed THEN owed ELSE debtToCover
        avail  == calculateAvailableCollateralToLiquidate(
                    collateralAsset, debtAsset, wanted, market[collateralAsset].el[user])
    IN  [collateral |-> avail.collateral,
         debt       |-> IF avail.debt < wanted THEN avail.debt ELSE wanted]

\* The amounts of one liquidation: debt covered and collateral seized.
liquidationAmounts(collateralAsset, debtAsset, user, debtToCover) ==
    LET maxDebt == percentMul(userDebt(market[debtAsset], user, now),
                              LIQUIDATION_CLOSE_FACTOR_PERCENT)
        wanted  == IF debtToCover > maxDebt THEN maxDebt ELSE debtToCover
        avail   == calculateAvailableCollateralToLiquidate(
                     collateralAsset, debtAsset, wanted, market[collateralAsset].el[user])
    IN  [collateral |-> avail.collateral,
         debt       |-> IF avail.debt < wanted THEN avail.debt ELSE wanted]

liquidationCall(liquidator, collateralAsset, debtAsset, user, debtToCover, receiveLToken) ==
    LET amounts  == liquidationAmounts(collateralAsset, debtAsset, user, debtToCover)
        seized   == amounts.collateral
        actual   == amounts.debt
        varOwed  == varBalanceOf(market[debtAsset], user, now)
        cConfig  == config[collateralAsset]
        dConfig  == config[debtAsset]
        \* the debt reserve
        d1 == updateState(market[debtAsset], dConfig, now)
        d2 == liquidateDebt(d1, user, varOwed, actual, now)
        d3 == updateInterestRates(d2, dConfig, now, actual, 0)
        afterDebt == [market EXCEPT ![debtAsset] = d3]
        \* the collateral reserve, which may be the same
        c0 == afterDebt[collateralAsset]
        c1 == updateState(c0, cConfig, now)
        c2 == updateInterestRates(c1, cConfig, now, 0, seized)
        c3 == IF receiveLToken
              THEN elTransfer(c0, user, liquidator, seized, now)
              ELSE elBurn(c2, user, seized)
        afterSeizure == [afterDebt EXCEPT ![collateralAsset] = c3]
        received == IF receiveLToken
                    THEN wallet
                    ELSE [wallet EXCEPT ![liquidator][collateralAsset] = @ + seized]
        entered  == IF receiveLToken /\ c0.el[liquidator] = 0
                    THEN setUsingAsCollateral(usersConfig, liquidator, collateralAsset, TRUE)
                    ELSE usersConfig
    IN  /\ ~paused
        /\ validateLiquidationCall(collateralAsset, debtAsset, user)
        /\ canUpdateState(market[debtAsset], dConfig, now)
        /\ canLiquidateDebt(d1, user, varOwed, actual, now)
        /\ canUpdateInterestRates(d2, dConfig, actual, 0)
        /\ fitsUint128(d3)
        /\ receiveLToken => canTransferEl(c0, user, seized, now)
        /\ ~receiveLToken => /\ market[collateralAsset].cash >= seized
                             /\ canUpdateState(c0, cConfig, now)
                             /\ canUpdateInterestRates(c1, cConfig, 0, seized)
                             /\ canBurnEl(c1, user, seized)
                             /\ fitsUint128(c3)
        /\ received[liquidator][debtAsset] >= actual
        /\ market' = [afterSeizure EXCEPT ![debtAsset].cash = @ + actual]
        /\ wallet' = [received EXCEPT ![liquidator][debtAsset] = @ - actual]
        /\ usersConfig' = IF seized = market[collateralAsset].el[user]
                          THEN setUsingAsCollateral(entered, user, collateralAsset, FALSE)
                          ELSE entered
        /\ UNCHANGED <<now, paused, price, config, borrowAllowance>>

-------------------------------------------------------------------------------
(***************************************************************************)
(* The environment: a block is mined, the oracle quotes a new price.       *)
(***************************************************************************)
Tick ==
    /\ now < MAX_TIME
    /\ now' = now + 1
    /\ UNCHANGED <<paused, price, config, market, usersConfig, wallet, borrowAllowance>>

SetPrice(a, p) ==
    /\ price' = [price EXCEPT ![a] = p]
    /\ UNCHANGED <<now, paused, config, market, usersConfig, wallet, borrowAllowance>>

\* The calls of one operation that some accounts make.
CallsOf(accounts, op) == {c \in Calls[op] : c[1] \in accounts}

Deposits(accounts) ==
    \E c \in CallsOf(accounts, "deposit"), amount \in Amounts : deposit(c[1], c[3], amount, c[2])
Withdrawals(accounts) ==
    \E c \in CallsOf(accounts, "withdraw"), amount \in Amounts :
        withdraw(c[1], c[3], amount, c[2])
Transfers(accounts) ==
    \E c \in CallsOf(accounts, "transfer"), amount \in Amounts :
        transfer(c[1], c[2], c[3], amount)
Borrowings(accounts) ==
    \E c \in CallsOf(accounts, "borrow"), amount \in Amounts, mode \in BorrowModes :
        borrow(c[1], c[3], amount, mode, c[2])
Repayments(accounts) ==
    \E c \in CallsOf(accounts, "repay"), amount \in Amounts, mode \in BorrowModes :
        repay(c[1], c[3], amount, mode, c[2])
Swaps(accounts) ==
    \E c \in CallsOf(accounts, "swap"), mode \in BorrowModes :
        swapBorrowRateMode(c[1], c[3], mode)
Rebalances(accounts) ==
    \E c \in CallsOf(accounts, "rebalance") : rebalanceStableBorrowRate(c[3], c[2])
CollateralChoices(accounts) ==
    \E c \in CallsOf(accounts, "useAsCollateral"), flag \in BOOLEAN :
        setUserUseReserveAsCollateral(c[1], c[3], flag)
Liquidations(accounts) ==
    \E c \in CallsOf(accounts, "liquidation"), debtAsset \in Assets, amount \in Amounts,
       receiveLToken \in BOOLEAN :
        liquidationCall(c[1], c[3], debtAsset, c[2], amount, receiveLToken)
Delegatings(accounts) ==
    \E d \in Delegations, amount \in Amounts :
        d[1] \in accounts /\ approveDelegation(d[1], d[2], d[3], d[4], amount)
Quotes ==
    \E a \in Assets : \E p \in Prices[a] : SetPrice(a, p)

\* Everything an account can ask of the pool and its tokens.
UserCalls(accounts) ==
    \/ Deposits(accounts) \/ Withdrawals(accounts) \/ Transfers(accounts)
    \/ Borrowings(accounts) \/ Repayments(accounts) \/ Swaps(accounts)
    \/ Rebalances(accounts) \/ CollateralChoices(accounts) \/ Liquidations(accounts)
    \/ Delegatings(accounts)

Next == UserCalls(Users) \/ Tick \/ Quotes

Spec == Init /\ [][Next]_vars

-------------------------------------------------------------------------------
(***************************************************************************)
(* Properties.                                                             *)
(***************************************************************************)

\* Whoever owes anything is flagged as a borrower of that reserve.  The health
\* factor and the liquidation engine only look at flagged reserves, so a debt
\* without its flag is a debt nobody can ever collect (setBorrowing in
\* _executeBorrow and repay; no other call touches the flag).
DebtIsFlagged ==
    \A u \in Users, a \in Assets :
        market[a].varDebt[u] # 0 \/ market[a].stDebt[u] # 0
            => a \in usersConfig[u].borrowing

\* Every operation on a reserve starts with updateState, whose subtractions
\* (block.timestamp.sub, and the two of _mintToTreasury) revert when negative.
\* They never are: no history of calls makes a reserve revert for good.
AccrualNeverReverts ==
    \A a \in Assets :
        /\ ClocksOrdered(market[a], now)
        /\ totalDebtAccrued(market[a], updateIndexes(market[a], now).variableBorrowIndex, now) >= 0

\* Token supplies are the sums of the balances, through every mint, burn,
\* transfer, treasury mint and liquidation (the stable debt token keeps an
\* approximation instead, see StableDebtToken.burn).
SuppliesAreSums ==
    \A a \in Assets :
        /\ market[a].elSupply = SumFunction(market[a].el)
        /\ market[a].varSupply = SumFunction(market[a].varDebt)

\* Interest is never taken back: neither index of a reserve falls, and
\* no call moves a reserve's clock backwards.
IndexesNeverFall ==
    [][\A a \in Assets :
         /\ market'[a].liquidityIndex >= market[a].liquidityIndex
         /\ market'[a].variableBorrowIndex >= market[a].variableBorrowIndex
         /\ market'[a].lastUpdateTimestamp >= market[a].lastUpdateTimestamp]_vars

\* A debt of the largest unsigned integer means "all of it": after such a
\* repayment nothing of that kind of debt is left, not even a rounding unit.
RepayAllClears ==
    [][\A u \in Users, a \in Assets, mode \in Modes :
         repay(u, a, UINT256_MAX, mode, u)
            => debtOfMode(market'[a], u, mode, now') = 0]_vars

\* Nobody but its owner takes an elToken away from a healthy account.
HealthyIsUntouchable ==
    [][\A u \in Users, a \in Assets :
         /\ market'[a].el[u] < market[a].el[u]
         /\ healthFactor(market, usersConfig[u], u) >= HEALTH_FACTOR_LIQUIDATION_THRESHOLD
         => \E v \in Users, amount \in Amounts :
              withdraw(u, a, amount, v) \/ transfer(u, v, a, amount)]_vars

healthy(u) == healthFactor(market, usersConfig[u], u) >= HEALTH_FACTOR_LIQUIDATION_THRESHOLD

\* What rounding can add to the valuation of u's debts within one call: minting
\* rounds to a scaled unit, reading rounds again.
roundingOfDebt(u) ==
    SumFunction([a \in usersConfig[u].borrowing |->
                   valueInETH(a, rayMul(1, market[a].variableBorrowIndex) + 1) + 1])

healthyUpToRounding(u) ==
    LET data == calculateUserAccountData(market, usersConfig[u], u)
    IN  percentMul(data.collateral, data.threshold) + roundingOfDebt(u) >= data.debt

\* A call alone never makes a healthy account liquidatable: not the account's own
\* withdrawals, transfers, loans, swaps or collateral choices (each validated
\* against prices and interest it reads at the start), not a delegatee's loan and
\* not what others do to the reserve.  Only time, prices and governance can, and the
\* rebalancing of revision 2, which multiplies a debt (RebalanceKeepsDebt).
CallsKeepHealth ==
    [][/\ now' = now /\ price' = price /\ config' = config
       /\ ~(REVISION = 2 /\ Rebalances(Users))
       => \A u \in Users :
            usersConfig'[u].borrowing # {} /\ healthy(u) => healthyUpToRounding(u)']_vars

\* What a user has in and out of a reserve: the underlying, the claim of the
\* elTokens at the income index, less the debt.
wealth(u, a) ==
    wallet[u][a] + rayMul(market[a].el[u], getNormalizedIncome(market[a], now))
      - userDebt(market[a], u, now)

usersWealth(a) == SumFunction([u \in Users |-> wealth(u, a)])

\* One scaled unit of each token and the rounding of the reads.
roundingOfWealth(m) == rayMul(1, m.liquidityIndex) + rayMul(1, m.variableBorrowIndex) + 2

\* No call creates or destroys value: whoever pays, borrows, swaps, transfers or
\* liquidates, the wealth of all users in a reserve is the same after it, up to
\* rounding.  In particular settling the interest in updateState agrees with the
\* views that reported it before.
WealthConserved ==
    [][now' = now =>
         \A a \in Assets :
            /\ usersWealth(a)' - usersWealth(a) <= roundingOfWealth(market'[a])
            /\ usersWealth(a) - usersWealth(a)' <= roundingOfWealth(market'[a])]_vars

\* A borrower who has the money can repay everything ("Send the value
\* type(uint256).max in order to repay the whole debt"): no history of calls
\* leaves a debt that the burn of the debt token refuses.
RepayAllPossible ==
    \A u \in Users, a \in Assets, mode \in Modes :
        /\ ~paused /\ config[a].active
        /\ debtOfMode(market[a], u, mode, now) > 0
        /\ wallet[u][a] >= debtOfMode(market[a], u, mode, now)
        => canRepay(u, a, UINT256_MAX, mode, u)

\* A rebalancing gives the user the current stable rate on the same stable debt;
\* nothing of it is lost, and none of it moves to the variable rate.
RebalanceKeepsDebt ==
    [][\A u \in Users, a \in Assets :
         rebalanceStableBorrowRate(a, u) =>
           /\ stBalanceOf(market'[a], u, now) = stBalanceOf(market[a], u, now)
           /\ varBalanceOf(market'[a], u, now) = varBalanceOf(market[a], u, now)]_vars

\* Withdrawing the largest unsigned integer takes the whole elToken balance
\* ("Send the value type(uint256).max in order to withdraw the whole elToken
\* balance").
WithdrawAllEmpties ==
    [][\A u, v \in Users, a \in Assets :
         withdraw(u, a, UINT256_MAX, v) => market'[a].el[u] = 0]_vars

\* The treasury earns the reserve factor's part of the interest and nothing else
\* ("Mints part of the repaid interest to the reserve treasury as a function of
\* the reserveFactor for the specific asset").
NoIncomeWithoutFactor ==
    \A a \in Assets : config[a].reserveFactor = 0 => market[a].el[Treasury] = 0

\* After a swap the debt is in the mode that was asked for ("The rate mode that
\* the user wants to swap to").
SwapReachesMode ==
    [][\A u \in Users, a \in Assets, mode \in Modes :
         swapBorrowRateMode(u, a, mode) => debtOfMode(market'[a], u, mode, now) > 0]_vars

\* A liquidation covers at most the close factor of the debt and takes collateral
\* worth at most what was paid plus the bonus, up to one scaled unit of each asset and
\* the roundings of the divisions, also when the collateral runs out or both are the
\* same reserve.
LiquidationIsBounded ==
    [][\A call \in Calls["liquidation"], d \in Assets, amount \in Amounts,
          receiveLToken \in BOOLEAN :
         /\ <<market[d].varDebt, market[d].stDebt>>' # <<market[d].varDebt, market[d].stDebt>>
         /\ liquidationCall(call[1], call[3], d, call[2], amount, receiveLToken)
         =>
           LET u     == call[2]
               c     == call[3]
               index == getNormalizedIncome(market'[c], now)
               owed  == userDebt(market[d], u, now)
               paid  == owed - userDebt(market'[d], u, now)
               lost  == rayMul(market[c].el[u] - market'[c].el[u], index)
               unit  == rayMul(1, market'[d].variableBorrowIndex) + 1
           IN  /\ paid <= percentMul(owed, LIQUIDATION_CLOSE_FACTOR_PERCENT) + unit
               /\ valueInETH(c, lost) <=
                    percentMul(valueInETH(d, paid + unit + 1) + 1, config[c].bonus)
                      + valueInETH(d, 1) + valueInETH(c, rayMul(1, index) + 1) + 2]_vars
===============================================================================
