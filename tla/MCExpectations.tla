--------------------------- MODULE MCExpectations ---------------------------
(***************************************************************************)
(* Instances for the comparison of the pool with the test suite's          *)
(* expectations.  Prices stand still: no expectation depends on them.      *)
(***************************************************************************)
EXTENDS MCLendingPool, PoolExpectations

\* u1 borrows B against A in either mode; u2 lends B and takes some of it back.
ExpectedCalls ==
    [op \in Operations |->
       CASE op = "deposit" -> {<<u1, u1, A>>, <<u2, u2, B>>}
         [] op = "withdraw" -> {<<u2, u2, B>>}
         [] op = "useAsCollateral" -> {<<u1, u1, A>>}
         [] op \in {"borrow", "repay", "swap", "rebalance"} -> {<<u1, u1, B>>}
         [] OTHER -> {}]
ExpectedPrices == [a \in Assets |-> {StablePrice[a]}]

\* One reserve that is both collateral and debt.
CreditConfig == [a \in Assets |-> [MCReserve EXCEPT !.ltv = 70, !.threshold = 75]]
CreditPrices == [a \in Assets |-> {1}]
CreditPrice == [a \in Assets |-> 1]
CreditWallet == [u \in Users |-> [a \in Assets |-> 100]]

\* Two borrowers of one reserve, each against an own deposit in it; a borrower may
\* deposit again.
TwoBorrowersCalls ==
    [op \in Operations |->
       CASE op \in {"deposit", "borrow"} -> {<<u1, u1, A>>, <<u2, u2, A>>}
         [] OTHER -> {}]
=============================================================================
