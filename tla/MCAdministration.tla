--------------------------- MODULE MCAdministration ---------------------------
(***************************************************************************)
(* A pool in use while its administrators change it, with flash loans and  *)
(* the ether gateway.  u1 puts up A and borrows W, directly, through the   *)
(* gateway or by keeping a flash loan; u2 lends W, may liquidate or        *)
(* rebalance u1, and may send W to the gateway.  Either receives flash     *)
(* loans, within which it makes the calls it makes otherwise.              *)
(***************************************************************************)
EXTENDS AdministeredPool

CONSTANTS u1, u2, g, e, A, W,
          MAX_CALLS,       \* bound on the calls of users, receivers and administrators
          MAX_CHANGES      \* bound on the administrators' among them

VARIABLES calls, changes

mcVars == <<txVars, calls, changes>>

\* The reserve after u deposits amount in it at time 1.
Deposited(m, c, u, amount) ==
    LET m1 == updateInterestRates(updateState(m, c, 1), c, 1, amount, 0)
    IN  elMint([m1 EXCEPT !.cash = @ + amount], u, amount)

\* The first calls have been u1's deposit of A and u2's deposit of W.
MCInit ==
    /\ now = 1 /\ paused = FALSE /\ price = InitialPrice /\ config = InitialConfig
    /\ market = [a \in Assets |-> IF a = A THEN Deposited(InitMarket, config[A], u1, 40)
                                            ELSE Deposited(InitMarket, config[W], u2, 80)]
    /\ usersConfig = [u \in Users |->
                        [collateral |-> IF u = u1 THEN {A} ELSE IF u = u2 THEN {W} ELSE {},
                         borrowing |-> {}]]
    /\ wallet = InitialWallet
    /\ borrowAllowance =
         [mode \in Modes |-> [a \in Assets |-> [u \in Users |-> [v \in Users |-> 0]]]]
    /\ ether = InitialEther /\ tx = NoCall
    /\ calls = 0 /\ changes = 0

Counted == calls < MAX_CALLS /\ calls' = calls + 1

Starts ==
    /\ Counted
    /\ PoolCalls \/ FlashLoans \/ EtherCalls \/ Recoveries
    /\ UNCHANGED changes

\* Interest and prices matter once there is a debt, and only to the calls still to come.
Passes ==
    /\ tx = NoCall
    /\ calls < MAX_CALLS /\ \E u \in Users : usersConfig[u].borrowing # {}
    /\ (Tick \/ Quotes)
    /\ UNCHANGED <<ether, tx, calls, changes>>

\* A change to the configuration between two calls.  The stable rate is switched on
\* one reserve only, the one that has no loans.
Changes ==
    /\ tx = NoCall
    /\ Counted
    /\ changes < MAX_CHANGES /\ changes' = changes + 1
    /\ Administration
    /\ <<config, paused>>' # <<config, paused>> /\ config'[W].stable = config[W].stable
    /\ UNCHANGED <<ether, tx>>

MCNext ==
    \/ Starts
    \/ Continues /\ UNCHANGED <<calls, changes>>
    \/ Changes \/ Passes

MCSpec == MCInit /\ [][MCNext]_mcVars

\* Revisions 3 and 4 collect flash loans in elTokens.
CollectingSpec ==
    MCInit /\ [][MCNext \/ (collectELTokens /\ UNCHANGED <<calls, changes>>)]_mcVars

MCStrategy == [optimal |-> 50, base |-> 10, variableSlope1 |-> 20, variableSlope2 |-> 40,
               stableSlope1 |-> 20, stableSlope2 |-> 40, marketBorrowRate |-> 15]
MCConfig == [a \in Assets |->
               [active |-> TRUE, frozen |-> FALSE, borrowing |-> a = W, stable |-> a = W,
                ltv |-> 50, threshold |-> 80, bonus |-> 110, reserveFactor |-> 10,
                unit |-> 1, strategy |-> MCStrategy]]
MCPrices == [a \in Assets |-> IF a = A THEN {1, 2} ELSE {1}]
MCPrice == [a \in Assets |-> IF a = A THEN 2 ELSE 1]
MCWallet == [u \in Users |-> [a \in Assets |->
               IF <<u, a>> \in {<<u1, A>>, <<u2, W>>} THEN 40 ELSE 0]]
MCEther == [u \in Users |-> IF u = u1 THEN 40 ELSE 0]
MCCalls ==
    [op \in Operations |->
       CASE op = "deposit" -> {<<u2, u2, W>>, <<u2, g, W>>}
         [] op = "withdraw" -> {<<u1, u1, A>>, <<u2, u2, W>>, <<u2, g, W>>}
         [] op = "borrow" -> {<<u1, u1, W>>, <<u2, u2, W>>}
         [] op = "repay" -> {<<u1, u1, W>>, <<u2, u1, W>>}
         [] op = "liquidation" -> {<<u2, u1, A>>, <<u2, u1, W>>}
         [] op = "transfer" -> {<<u2, u1, W>>}
         [] op = "rebalance" -> {<<u2, u1, W>>}
         [] op = "swap" -> {<<u1, u1, W>>}
         [] op = "useAsCollateral" -> {<<u1, u1, A>>, <<u2, u2, W>>}]
MCDelegations == {<<u1, g, W, "VARIABLE">>, <<u2, u1, W, "VARIABLE">>}
MCEtherParties == {<<u1, u1>>, <<u1, u2>>, <<u1, g>>}
MCLoans == {<<u1, u1, W, u1>>, <<u1, u2, W, u2>>}
MCCollaterals == {[ltv |-> 0, threshold |-> 0, bonus |-> 0],
                  [ltv |-> 40, threshold |-> 40, bonus |-> 110]}
MCFactors == {50}
FullFactors == {PERCENTAGE_FACTOR}
MCStrategies == {[MCStrategy EXCEPT !.base = 0]}
===============================================================================
