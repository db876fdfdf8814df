--------------------------- MODULE PoolConfigurator ---------------------------
(***************************************************************************)
(* LendingPoolConfigurator.sol: what the pool administrator and the        *)
(* emergency administrator change while the pool is in use.  Each call     *)
(* replaces some fields of a reserve's configuration; nobody's balances    *)
(* are looked at, except through _checkNoLiquidity.                        *)
(***************************************************************************)
EXTENDS LendingPool

CONSTANTS Collaterals,      \* [ltv, threshold, bonus] the administrator may choose
          ReserveFactors,   \* reserve factors the administrator may choose
          Strategies        \* interest rate strategies that are deployed

ASSUME ChoicesAssumption ==
    /\ Collaterals \subseteq [ltv: Nat, threshold: Nat, bonus: Nat]
    /\ ReserveFactors \subseteq Nat
    /\ Strategies \subseteq Strategy

configure(a, c) ==
    /\ config' = [config EXCEPT ![a] = c]
    /\ UNCHANGED <<now, paused, price, market, usersConfig, wallet, borrowAllowance>>

\* mutant: an empty elToken contract is enough
checkNoLiquidity_cash(a) == market[a].cash = 0

\* _checkNoLiquidity
checkNoLiquidity(a) == market[a].cash = 0 /\ market[a].currentLiquidityRate = 0

enableBorrowingOnReserve(a, stable) ==
    configure(a, [config[a] EXCEPT !.borrowing = TRUE, !.stable = stable])
disableBorrowingOnReserve(a) == configure(a, [config[a] EXCEPT !.borrowing = FALSE])

configureReserveAsCollateral(a, ltv, threshold, bonus) ==
    /\ ltv <= threshold
    /\ \/ /\ threshold # 0
          /\ bonus > PERCENTAGE_FACTOR
          /\ percentMul(threshold, bonus) <= PERCENTAGE_FACTOR
       \/ threshold = 0 /\ bonus = 0 /\ checkNoLiquidity(a)
    /\ configure(a, [config[a] EXCEPT !.ltv = ltv, !.threshold = threshold, !.bonus = bonus])

setReserveStableRate(a, enabled) == configure(a, [config[a] EXCEPT !.stable = enabled])

activateReserve(a) == configure(a, [config[a] EXCEPT !.active = TRUE])
deactivateReserve(a) == checkNoLiquidity(a) /\ configure(a, [config[a] EXCEPT !.active = FALSE])

setReserveFreezing(a, frozen) == configure(a, [config[a] EXCEPT !.frozen = frozen])

setReserveFactor(a, factor) == configure(a, [config[a] EXCEPT !.reserveFactor = factor])

setReserveInterestRateStrategyAddress(a, strategy) ==
    configure(a, [config[a] EXCEPT !.strategy = strategy])

setPoolPause(val) ==
    /\ paused' = val
    /\ UNCHANGED <<now, price, config, market, usersConfig, wallet, borrowAllowance>>

Administration ==
    \/ \E a \in Assets :
         \/ \E stable \in BOOLEAN : enableBorrowingOnReserve(a, stable)
         \/ disableBorrowingOnReserve(a)
         \/ \E c \in Collaterals :
              configureReserveAsCollateral(a, c.ltv, c.threshold, c.bonus)
         \/ \E enabled \in BOOLEAN : setReserveStableRate(a, enabled)
         \/ activateReserve(a)
         \/ deactivateReserve(a)
         \/ \E frozen \in BOOLEAN : setReserveFreezing(a, frozen)
         \/ \E factor \in ReserveFactors : setReserveFactor(a, factor)
         \/ \E strategy \in Strategies : setReserveInterestRateStrategyAddress(a, strategy)
    \/ \E val \in BOOLEAN : setPoolPause(val)

-------------------------------------------------------------------------------
\* A reserve is switched off, as a whole or as collateral, only when nobody owes
\* anything to it: a debt in an inactive reserve could be neither repaid nor
\* liquidated, and elTokens that stop counting would leave loans uncovered
\* (_checkNoLiquidity infers this from no cash and a liquidity rate of zero, as
\* they were after the last call on the reserve).
OffMeansEmpty ==
    [][\A a \in Assets :
         \/ config[a].active /\ ~config'[a].active
         \/ config[a].threshold # 0 /\ config'[a].threshold = 0
         => \A u \in Users : userDebt(market[a], u, now) = 0]_vars
===============================================================================
