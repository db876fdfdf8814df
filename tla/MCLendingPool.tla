---------------------------- MODULE MCLendingPool ----------------------------
(***************************************************************************)
(* Instances of the pool for TLC.  The number of user calls in a behaviour *)
(* is bounded; time and prices move freely within their own bounds.        *)
(***************************************************************************)
EXTENDS LendingPool

CONSTANTS u1, u2, A, B,
          MAX_CALLS        \* bound on the number of user calls in a behaviour

VARIABLE calls             \* user calls so far

MCInit == Init /\ calls = 0
Counted == calls < MAX_CALLS /\ calls' = calls + 1
MCNext ==
    \/ UserCalls(Users) /\ Counted
    \/ Tick /\ UNCHANGED calls
    \/ Quotes /\ UNCHANGED calls
MCSpec == MCInit /\ [][MCNext]_<<vars, calls>>

MCStrategy == [optimal |-> 50, base |-> 10, variableSlope1 |-> 20, variableSlope2 |-> 40,
               stableSlope1 |-> 20, stableSlope2 |-> 40, marketBorrowRate |-> 15]
MCReserve == [active |-> TRUE, frozen |-> FALSE, borrowing |-> TRUE, stable |-> TRUE,
              ltv |-> 50, threshold |-> 80, bonus |-> 110, reserveFactor |-> 10,
              unit |-> 1, strategy |-> MCStrategy]

(***************************************************************************)
(* u1 puts up A and borrows B, which u2 lends; u2 may liquidate u1, or     *)
(* borrow on its credit.                                                   *)
(***************************************************************************)
MCConfig == [a \in Assets |-> [MCReserve EXCEPT !.borrowing = (a = B)]]
MCPrices == [a \in Assets |-> IF a = A THEN {1, 2} ELSE {1}]
MCPrice == [a \in Assets |-> IF a = A THEN 2 ELSE 1]
MCWallet == [u \in Users |-> [a \in Assets |-> IF (u = u1) = (a = A) THEN 100 ELSE 0]]
MCCalls ==
    [op \in Operations |->
       CASE op \in {"deposit", "withdraw"} -> {<<u1, u1, A>>, <<u2, u2, B>>}
         [] op = "borrow" -> {<<u1, u1, B>>, <<u2, u1, B>>}
         [] op \in {"repay", "swap", "rebalance"} -> {<<u1, u1, B>>}
         [] op = "useAsCollateral" -> {<<u1, u1, A>>}
         [] op = "transfer" -> {<<u1, u2, A>>}
         [] op = "liquidation" -> {<<u2, u1, A>>}]

\* u1 may let u2 borrow on its credit.
MCDelegations == {<<u1, u2, B, "VARIABLE">>}

\* The reserve factor at either end of what setReserveFactor accepts as a percentage.
NoFactorConfig == [a \in Assets |-> [MCConfig[a] EXCEPT !.reserveFactor = 0]]
FullFactorConfig == [a \in Assets |-> [MCConfig[a] EXCEPT !.reserveFactor = PERCENTAGE_FACTOR]]

(***************************************************************************)
(* Stable debt: a price of 4 lets one deposit carry a loan in each mode,   *)
(* and half of the income goes to the protocol, so that a fully used       *)
(* reserve can still pay depositors little enough to be rebalanced.        *)
(***************************************************************************)
StableConfig == [a \in Assets |-> [MCReserve EXCEPT !.borrowing = (a = B), !.reserveFactor = 50]]
StablePrices == [a \in Assets |-> IF a = A THEN {2, 4} ELSE {1}]
StablePrice == [a \in Assets |-> IF a = A THEN 4 ELSE 1]
StableWallet == [u \in Users |-> [a \in Assets |-> IF (u = u1) = (a = A) THEN 50 ELSE 25]]
StableCalls ==
    [op \in Operations |->
       CASE op = "deposit" -> {<<u1, u1, A>>, <<u2, u2, B>>}
         [] op = "withdraw" -> {<<u1, u1, A>>}
         [] op \in {"borrow", "repay", "swap", "rebalance"} -> {<<u1, u1, B>>}
         [] op = "liquidation" -> {<<u2, u1, A>>}
         [] OTHER -> {}]
==============================================================================
