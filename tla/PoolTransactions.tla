--------------------------- MODULE PoolTransactions ---------------------------
(***************************************************************************)
(* Transactions in which the pool and other contracts call each other: a   *)
(* flash loan, which runs its receiver's code between lending and          *)
(* collecting (LendingPool.flashLoan), and the gateway that deposits,      *)
(* withdraws, borrows and repays native ether for a user (WETHGateway).    *)
(*                                                                         *)
(* Such a call is several steps; tx is the call in progress.  Until it is  *)
(* over nobody else acts, time stands still and the only calls are those   *)
(* the transaction itself makes.  A step that cannot be taken reverts the  *)
(* transaction: the behaviour ends there, and no call ever sees what it    *)
(* had done.  Allowances for the gateway and for the pool are given.       *)
(***************************************************************************)
EXTENDS LendingPool

CONSTANTS WETH,                     \* the reserve that wraps ether
          Gateway,                  \* the WETHGateway
          ELTokenContract,          \* the account of the elToken contract itself
          InitialEther,             \* ether each user owns before the first call
          Loans,                    \* <<caller, receiver, asset, on behalf of>> of flash loans
          EtherParties,             \* <<caller, other party>> of the gateway's functions
          FLASHLOAN_PREMIUM_TOTAL,  \* _flashLoanPremiumTotal
          PREMIUM_UNIT              \* the 10000 it is divided by

ASSUME GatewayAssumption ==
    /\ WETH \in Assets /\ Gateway \in Users
    /\ EtherParties \subseteq (Users \ {Gateway}) \X Users
\* The gateway is a contract: it calls the pool only from its own functions, approves no
\* delegation and has no executeOperation.  Others may name it as they like.
ASSUME GatewayCallsNobody ==
    /\ \A op \in Operations : \A c \in Calls[op] : c[1] # Gateway
    /\ \A d \in Delegations : d[1] # Gateway
    /\ \A l \in Loans : l[1] # Gateway /\ l[2] # Gateway
ASSUME CollectorAssumption == REVISION # 2 => ELTokenContract \in Users
ASSUME EtherAssumption == InitialEther \in [Users -> Nat]
ASSUME LoansAssumption == Loans \subseteq Users \X Users \X Assets \X Users
ASSUME PremiumAssumption == FLASHLOAN_PREMIUM_TOTAL \in Nat /\ PREMIUM_UNIT \in Nat \ {0}

VARIABLES ether,    \* native balances
          tx        \* the call in progress

txVars == <<vars, ether, tx>>

NoCall == [call |-> "none"]

Transaction ==
    {NoCall}
    \cup [call: {"flashLoan"}, user: Users, receiver: Users, asset: Assets, amount: Nat,
          mode: {"NONE"} \cup Modes, onBehalfOf: Users]
    \cup [call: {"collectELTokens"}, receiver: Users, asset: Assets, amount: Nat]
    \cup [call: {"depositETH"}, amount: Nat, onBehalfOf: Users]
    \cup [call: {"withdrawETH", "unwrap"}, amount: Nat, to: Users]
    \cup [call: {"repayETH"}, amount: Nat, mode: Modes, onBehalfOf: Users]

\* The type of the state, also in the middle of a transaction.
TransactionsTypeOK == TypeOK /\ ether \in [Users -> Nat] /\ tx \in Transaction

InitTransactions == Init /\ ether = InitialEther /\ tx = NoCall

-------------------------------------------------------------------------------
(***************************************************************************)
(* flashLoan, for one asset; the receiver takes no second flash loan.      *)
(***************************************************************************)
premium(amount) == (amount * FLASHLOAN_PREMIUM_TOTAL) \div PREMIUM_UNIT

flashLoan(u, receiver, a, amount, mode, onBehalfOf) ==
    /\ tx = NoCall
    /\ ~paused
    /\ amount <= market[a].cash
    /\ market' = [market EXCEPT ![a].cash = @ - amount]
    /\ wallet' = [wallet EXCEPT ![receiver][a] = @ + amount]
    /\ tx' = [call |-> "flashLoan", user |-> u, receiver |-> receiver, asset |-> a,
              amount |-> amount, mode |-> mode, onBehalfOf |-> onBehalfOf]
    /\ UNCHANGED <<now, paused, price, config, usersConfig, borrowAllowance, ether>>

\* Who may call the pool and its tokens now: everybody between two transactions, and
\* within a flash loan its receiver, any number of times (executeOperation).  Only another
\* flash loan and the gateway, themselves transactions of this module, are out of its reach.
callers ==
    IF tx = NoCall THEN Users ELSE IF tx.call = "flashLoan" THEN {tx.receiver} ELSE {}

PoolCalls == UserCalls(callers) /\ UNCHANGED <<ether, tx>>

\* mutant: the premium is shared among the cash, which the loan has emptied
cumulateToLiquidityIndex_cash(m, amount) ==
    [m EXCEPT !.liquidityIndex =
        rayMul(rayDiv(wadToRay(amount), wadToRay(m.cash + 1)) + RAY, @)]

\* The total supply of the elToken is scaled in this fork.
cumulateToLiquidityIndex(m, amount) ==
    [m EXCEPT !.liquidityIndex =
        rayMul(rayDiv(wadToRay(amount), wadToRay(m.elSupply)) + RAY, @)]

(***************************************************************************)
(* The end of a loan in mode NONE.  Revision 2 takes the underlying back;  *)
(* revisions 3 and 4 then ask the receiver for elTokens instead.           *)
(***************************************************************************)
collectFlashLoan ==
    /\ tx.call = "flashLoan" /\ tx.mode = "NONE"
    /\ LET a    == tx.asset
           owed == tx.amount + premium(tx.amount)
           m1   == updateState(market[a], config[a], now)
           m2   == cumulateToLiquidityIndex(m1, premium(tx.amount))
           m3   == updateInterestRates(m2, config[a], now, owed, 0)
       IN  /\ canUpdateState(market[a], config[a], now)
           /\ m1.elSupply # 0
           /\ canUpdateInterestRates(m2, config[a], owed, 0)
           /\ fitsUint128(m3)
           /\ IF REVISION = 2
              THEN /\ wallet[tx.receiver][a] >= owed
                   /\ market' = [market EXCEPT ![a] = [m3 EXCEPT !.cash = @ + owed]]
                   /\ wallet' = [wallet EXCEPT ![tx.receiver][a] = @ - owed]
                   /\ tx' = NoCall
              ELSE /\ market' = [market EXCEPT ![a] = m3]
                   /\ tx' = [call |-> "collectELTokens", receiver |-> tx.receiver, asset |-> a,
                             amount |-> tx.amount]
                   /\ UNCHANGED wallet
    /\ UNCHANGED <<now, paused, price, config, usersConfig, borrowAllowance, ether>>

collectELTokens ==
    /\ tx.call = "collectELTokens"
    /\ transfer(tx.receiver, ELTokenContract, tx.asset, tx.amount + premium(tx.amount))
    /\ tx' = NoCall
    /\ UNCHANGED ether

\* The end of a loan that is kept: _executeBorrow with releaseUnderlying = false.
keepFlashLoan ==
    /\ tx.call = "flashLoan" /\ tx.mode # "NONE"
    /\ LET a  == tx.asset
           m1 == updateState(market[a], config[a], now)
           m2 == mintDebt(m1, tx.onBehalfOf, tx.amount, tx.mode, now)
           m3 == updateInterestRates(m2, config[a], now, 0, 0)
       IN  /\ validateBorrow(a, tx.onBehalfOf, tx.amount, tx.mode)
           /\ canUpdateState(market[a], config[a], now)
           /\ canDecreaseBorrowAllowance(a, tx.mode, tx.onBehalfOf, tx.user, tx.amount)
           /\ canMintDebt(m1, tx.onBehalfOf, tx.amount, tx.mode, now)
           /\ canUpdateInterestRates(m2, config[a], 0, 0)
           /\ fitsUint128(m3)
           /\ market' = [market EXCEPT ![a] = m3]
           /\ usersConfig' = IF isFirstBorrowing(m1, tx.onBehalfOf, tx.mode, now)
                             THEN setBorrowing(usersConfig, tx.onBehalfOf, a, TRUE)
                             ELSE usersConfig
           /\ borrowAllowance' =
                IF tx.user # tx.onBehalfOf
                THEN [borrowAllowance EXCEPT ![tx.mode][a][tx.onBehalfOf][tx.user] = @ - tx.amount]
                ELSE borrowAllowance
    /\ tx' = NoCall
    /\ UNCHANGED <<now, paused, price, config, wallet, ether>>

-------------------------------------------------------------------------------
(***************************************************************************)
(* WETHGateway.  Wrapping and unwrapping are one for one.                  *)
(***************************************************************************)
wrap(u, value) ==
    /\ ether[u] >= value
    /\ ether' = [ether EXCEPT ![u] = @ - value]
    /\ wallet' = [wallet EXCEPT ![Gateway][WETH] = @ + value]
    /\ UNCHANGED <<now, paused, price, config, market, usersConfig, borrowAllowance>>

depositETH(u, value, onBehalfOf) ==
    /\ tx = NoCall
    /\ wrap(u, value)
    /\ tx' = [call |-> "depositETH", amount |-> value, onBehalfOf |-> onBehalfOf]

depositWrapped ==
    /\ tx.call = "depositETH"
    /\ deposit(Gateway, WETH, tx.amount, tx.onBehalfOf)
    /\ tx' = NoCall
    /\ UNCHANGED ether

withdrawETH(u, amount, to) ==
    LET amountToWithdraw == IF amount = UINT256_MAX THEN market[WETH].el[u] ELSE amount
    IN  /\ tx = NoCall
        /\ transfer(u, Gateway, WETH, amountToWithdraw)
        /\ tx' = [call |-> "withdrawETH", amount |-> amountToWithdraw, to |-> to]
        /\ UNCHANGED ether

withdrawWrapped ==
    /\ tx.call = "withdrawETH"
    /\ withdraw(Gateway, WETH, tx.amount, Gateway)
    /\ tx' = [call |-> "unwrap", amount |-> tx.amount, to |-> tx.to]
    /\ UNCHANGED ether

\* WETH.withdraw and _safeTransferETH; receive() takes ether from WETH only.
unwrap ==
    /\ tx.call = "unwrap"
    /\ tx.to # Gateway
    /\ wallet[Gateway][WETH] >= tx.amount
    /\ wallet' = [wallet EXCEPT ![Gateway][WETH] = @ - tx.amount]
    /\ ether' = [ether EXCEPT ![tx.to] = @ + tx.amount]
    /\ tx' = NoCall
    /\ UNCHANGED <<now, paused, price, config, market, usersConfig, borrowAllowance>>

borrowETH(u, amount, mode) ==
    /\ tx = NoCall
    /\ borrow(Gateway, WETH, amount, mode, u)
    /\ tx' = [call |-> "unwrap", amount |-> amount, to |-> u]
    /\ UNCHANGED ether

\* mutant: all that was sent is wrapped
repayETH_all(u, value, amount, mode, onBehalfOf) ==
    /\ tx = NoCall
    /\ value >= debtOfMode(market[WETH], onBehalfOf, mode, now)
    /\ wrap(u, value)
    /\ tx' = [call |-> "repayETH", amount |-> value, mode |-> mode, onBehalfOf |-> onBehalfOf]

\* Only the payback is wrapped, the rest of the value is refunded at the end; but
\* the pool is asked to take the whole value.
repayETH(u, value, amount, mode, onBehalfOf) ==
    LET debt    == debtOfMode(market[WETH], onBehalfOf, mode, now)
        payback == IF amount < debt THEN amount ELSE debt
    IN  /\ tx = NoCall
        /\ value >= payback /\ ether[u] >= value
        /\ wrap(u, payback)
        /\ tx' = [call |-> "repayETH", amount |-> value, mode |-> mode, onBehalfOf |-> onBehalfOf]

repayWrapped ==
    /\ tx.call = "repayETH"
    /\ repay(Gateway, WETH, tx.amount, tx.mode, tx.onBehalfOf)
    /\ tx' = NoCall
    /\ UNCHANGED ether

-------------------------------------------------------------------------------
\* emergencyTokenTransfer: the owner recovers underlying or elTokens that were sent to
\* the gateway.
emergencyTokenTransfer(a, to, amount) ==
    /\ tx = NoCall
    /\ \/ transfer(Gateway, to, a, amount)
       \/ /\ wallet[Gateway][a] >= amount
          /\ wallet' = [[wallet EXCEPT ![Gateway][a] = @ - amount] EXCEPT ![to][a] = @ + amount]
          /\ UNCHANGED <<now, paused, price, config, market, usersConfig, borrowAllowance>>
    /\ UNCHANGED <<ether, tx>>

-------------------------------------------------------------------------------
FlashLoans ==
    \E l \in Loans, amount \in Amounts, mode \in {"NONE"} \cup BorrowModes :
        flashLoan(l[1], l[2], l[3], amount, mode, l[4])
EtherCalls ==
    \E p \in EtherParties, amount \in Amounts :
        \/ depositETH(p[1], amount, p[2])
        \/ withdrawETH(p[1], amount, p[2])
        \/ \E mode \in BorrowModes :
             \/ borrowETH(p[1], amount, mode)
             \/ \E value \in Amounts : repayETH(p[1], value, amount, mode, p[2])
Recoveries ==
    \E a \in Assets, to \in Users, amount \in Amounts : emergencyTokenTransfer(a, to, amount)

\* The steps of a transaction after its first one, but for the receiver's own and
\* for collectELTokens, which only revisions 3 and 4 reach.
Continues ==
    \/ collectFlashLoan \/ keepFlashLoan
    \/ depositWrapped \/ withdrawWrapped \/ unwrap \/ repayWrapped

-------------------------------------------------------------------------------
(***************************************************************************)
(* Properties.                                                             *)
(***************************************************************************)

\* What a reserve has or is owed, less what its depositors and the treasury claim.
coverage(m) ==
    m.cash + SumFunction([u \in Users |-> userDebt(m, u, now)])
      - rayMul(m.elSupply, getNormalizedIncome(m, now))

\* The last step of a flash loan leaves the reserve covered as well as it was before
\* the step, on top of the amount: that is back, or is somebody's debt, and the premium
\* pays for what cumulateToLiquidityIndex promised the depositors.  That is the premium
\* times the income index, because totalSupply is scaled.  The step reads whatever
\* reserve the receiver's calls have left.
FlashLoansAreBacked ==
    [][tx.call \in {"flashLoan", "collectELTokens"} /\ tx' = NoCall =>
         LET a        == tx.asset
             settled  == updateState(market[a], config[a], now)
             promised == rayMul(premium(tx.amount), settled.liquidityIndex)
             paid     == IF tx.call = "flashLoan" /\ tx.mode # "NONE"
                         THEN promised ELSE premium(tx.amount)
         IN  coverage(market'[a]) + roundingOfWealth(market'[a])
               >= coverage(settled) + tx.amount + paid - promised]_txVars

\* What a call of the gateway in progress carries: the wrapped ether, and the elTokens
\* to be redeemed, that its next step takes out again.
carriedEther ==
    IF tx.call \in {"depositETH", "unwrap"} THEN tx.amount
    ELSE IF tx.call = "repayETH" THEN paybackAmount(tx.onBehalfOf, WETH, tx.amount, tx.mode)
    ELSE 0
carriedELTokens ==
    IF tx.call = "withdrawETH" THEN rayDiv(tx.amount, getNormalizedIncome(market[WETH], now)) ELSE 0

gatewayActs == tx.call \in {"depositETH", "withdrawETH", "unwrap", "repayETH"}

\* The gateway is left with nothing of what its users move through it: no step of its
\* calls adds to the wrapped ether or the elTokens it holds besides what the call
\* carries, or leaves a debt in its name (every call moves the same amount in and out
\* through two or three contracts).  What others sent to it may be there, and may be
\* used up by repayETH; a depositETH for the gateway itself is such a gift.
GatewayKeepsNothing ==
    [][gatewayActs \/ gatewayActs' =>
         /\ (wallet[Gateway][WETH] - carriedEther)' <= wallet[Gateway][WETH] - carriedEther
         /\ \/ (market[WETH].el[Gateway] - carriedELTokens)'
                  <= market[WETH].el[Gateway] - carriedELTokens
            \/ tx.call = "depositETH" /\ tx.onBehalfOf = Gateway
         /\ userDebt(market[WETH], Gateway, now)' = 0]_txVars

\* A withdrawal of ether whose elTokens arrived goes through if the reserve has the
\* cash ("withdraws the WETH _reserves of msg.sender").
EtherComesOut ==
    tx.call = "withdrawETH" /\ tx.amount > 0 /\ market[WETH].cash >= tx.amount
        => ENABLED withdrawWrapped
===============================================================================
