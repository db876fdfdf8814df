--------------------------- MODULE LendingPoolProofs ---------------------------
(***************************************************************************)
(* Theorems about the pool: for every set of users, reserves and amounts,  *)
(* every strategy, configuration and revision.                             *)
(*                                                                         *)
(* The inductive invariant is IInv: the state is well typed, every reserve *)
(* is Sound (see ReserveLogicProofs) and every debt is flagged.  One lemma *)
(* per call shows that the call preserves it and lowers no index.          *)
(*                                                                         *)
(* The second part is about the same pool when it is called in the middle  *)
(* of flash loans and through the gateway, and reconfigured between        *)
(* transactions: the steps that are pool calls cite the lemmas of the      *)
(* first.                                                                  *)
(***************************************************************************)
EXTENDS AdministeredPool, ReserveLogicProofs

IInv ==
    /\ TypeOK
    /\ \A a \in Assets : Sound(market[a], now)
    /\ DebtIsFlagged

\* No reserve goes back: its indexes and its clock.
IndexesStep == \A a \in Assets : IndexesGrow(market[a], market'[a])

\* Every reserve of mkt2 is sound and has gone no further back than in mkt1.
MarketsGo(mkt1, mkt2, t) ==
    /\ mkt2 \in [Assets -> Market]
    /\ \A a \in Assets : Sound(mkt2[a], t) /\ IndexesGrow(mkt1[a], mkt2[a])

\* Who owes nothing in one of the modes does not begin to.
OwesNoMore(m1, m2) ==
    \A u \in Users : /\ m1.varDebt[u] = 0 => m2.varDebt[u] = 0
                     /\ m1.stDebt[u] = 0 => m2.stDebt[u] = 0

\* The same for all but one.
OthersOweNoMore(m1, m2, u) ==
    \A v \in Users \ {u} : /\ m1.varDebt[v] = 0 => m2.varDebt[v] = 0
                           /\ m1.stDebt[v] = 0 => m2.stDebt[v] = 0

FlagsOnlyRise == \A u \in Users : usersConfig[u].borrowing \subseteq usersConfig'[u].borrowing

-------------------------------------------------------------------------------
(***************************************************************************)
(* Combining steps of reserves.                                            *)
(***************************************************************************)

\* IndexesGrow is transitive.
LEMMA GrowTrans ==
    ASSUME NEW m1 \in Market, NEW m2 \in Market, NEW m3 \in Market,
           IndexesGrow(m1, m2), IndexesGrow(m2, m3)
    PROVE  IndexesGrow(m1, m3)
  BY DEF IndexesGrow, Market

\* Equal indexes have not fallen.
LEMMA SameGrow ==
    ASSUME NEW m1 \in Market, NEW m2, SameIndexes(m1, m2)
    PROVE  IndexesGrow(m1, m2)
  BY DEF IndexesGrow, SameIndexes, Market

\* Replacing one reserve by a later one.
LEMMA OneMarket ==
    ASSUME NEW t, NEW mkt1 \in [Assets -> Market], NEW mkt2,
           MarketsGo(mkt1, mkt2, t), NEW a \in Assets, NEW r,
           Sound(r, t), IndexesGrow(mkt2[a], r)
    PROVE  MarketsGo(mkt1, [mkt2 EXCEPT ![a] = r], t)
  <1> DEFINE n == [mkt2 EXCEPT ![a] = r]
  <1>1. mkt2 \in [Assets -> Market] /\ r \in Market
    BY DEF MarketsGo, Sound
  <1>2. n \in [Assets -> Market] /\ n[a] = r /\ \A b \in Assets \ {a} : n[b] = mkt2[b]
    BY <1>1
  <1> HIDE DEF n
  <1>3. IndexesGrow(mkt1[a], mkt2[a])
    BY DEF MarketsGo
  <1>4. IndexesGrow(mkt1[a], r)
    BY <1>1, <1>3, GrowTrans
  <1>5. ASSUME NEW b \in Assets
        PROVE  Sound(n[b], t) /\ IndexesGrow(mkt1[b], n[b])
    <2>1. CASE b = a
      BY <2>1, <1>2, <1>4
    <2>2. CASE b # a
      BY <2>2, <1>2 DEF MarketsGo
    <2> QED BY <2>1, <2>2
  <1>6. MarketsGo(mkt1, n, t)
    BY <1>2, <1>5 DEF MarketsGo
  <1> QED BY <1>6 DEF n

\* Where every call starts.
LEMMA MarketsStart ==
    ASSUME IInv
    PROVE  market \in [Assets -> Market] /\ MarketsGo(market, market, now) /\ now \in Nat
  <1>1. market \in [Assets -> Market] /\ now \in Nat
    BY DEF IInv, TypeOK
  <1>2. \A a \in Assets : market[a] \in Market
    BY <1>1
  <1>3. \A a \in Assets : SameIndexes(market[a], market[a])
    BY DEF SameIndexes
  <1>4. \A a \in Assets : IndexesGrow(market[a], market[a])
    BY <1>2, <1>3, SameGrow
  <1> QED BY <1>1, <1>4 DEF MarketsGo, IInv

\* A call that changes one reserve.
LEMMA ChangeOne ==
    ASSUME IInv, NEW a \in Assets, NEW r, Sound(r, now), IndexesGrow(market[a], r)
    PROVE  MarketsGo(market, [market EXCEPT ![a] = r], now)
  BY MarketsStart, OneMarket

\* A call that gives nobody a debt and clears no flag keeps debts flagged.
LEMMA FlagsKept ==
    ASSUME IInv, FlagsOnlyRise, \A a \in Assets : OwesNoMore(market[a], market'[a])
    PROVE  DebtIsFlagged'
  BY DEF IInv, DebtIsFlagged, FlagsOnlyRise, OwesNoMore

\* Changing one reserve so that nobody owes more.
LEMMA OwesNoMoreOne ==
    ASSUME IInv, NEW a \in Assets, NEW r, market' = [market EXCEPT ![a] = r],
           OwesNoMore(market[a], r)
    PROVE  \A b \in Assets : OwesNoMore(market[b], market'[b])
  <1>1. market \in [Assets -> Market]
    BY MarketsStart
  <1>2. market'[a] = r /\ \A b \in Assets \ {a} : market'[b] = market[b]
    BY <1>1
  <1>3. \A b \in Assets \ {a} : OwesNoMore(market[b], market'[b])
    BY <1>2 DEF OwesNoMore
  <1> QED BY <1>2, <1>3

\* Same debts, nobody owes more.
LEMMA SameOwes ==
    ASSUME NEW m1, NEW m2, SameDebt(m1, m2)
    PROVE  OwesNoMore(m1, m2)
  BY DEF SameDebt, OwesNoMore

\* UserConfiguration: a collateral flag is typed and says nothing of debts.
LEMMA CollateralFlag ==
    ASSUME NEW c \in [Users -> UserConfig], NEW u \in Users, NEW a \in Assets, NEW f \in BOOLEAN
    PROVE  /\ setUsingAsCollateral(c, u, a, f) \in [Users -> UserConfig]
           /\ \A v \in Users : setUsingAsCollateral(c, u, a, f)[v].borrowing = c[v].borrowing
  BY DEF setUsingAsCollateral, UserConfig

\* At most one collateral flag changes.
LEMMA CollateralFlagStep ==
    ASSUME IInv, NEW u \in Users, NEW a \in Assets, NEW f \in BOOLEAN,
           usersConfig' \in {usersConfig, setUsingAsCollateral(usersConfig, u, a, f)}
    PROVE  usersConfig' \in [Users -> UserConfig] /\ FlagsOnlyRise
  <1>1. usersConfig \in [Users -> UserConfig]
    BY DEF IInv, TypeOK
  <1> QED BY <1>1, CollateralFlag DEF FlagsOnlyRise

\* Moving underlying in or out of a wallet.
LEMMA WalletChange ==
    ASSUME NEW w \in [Users -> [Assets -> Nat]], NEW u \in Users, NEW a \in Assets, NEW n \in Nat
    PROVE  /\ [w EXCEPT ![u][a] = @ + n] \in [Users -> [Assets -> Nat]]
           /\ w[u][a] >= n => [w EXCEPT ![u][a] = @ - n] \in [Users -> [Assets -> Nat]]
  OBVIOUS

-------------------------------------------------------------------------------
(***************************************************************************)
(* One lemma per call.                                                     *)
(***************************************************************************)
\* The conclusion of each of them.
Preserved == IInv' /\ IndexesStep

\* What remains to be shown of a call.
LEMMA Preserving ==
    ASSUME IInv, MarketsGo(market, market', now), now' \in Nat, now' = now,
           price' \in [Assets -> Nat \ {0}],
           UNCHANGED <<paused, config>>,
           usersConfig' \in [Users -> UserConfig],
           wallet' \in [Users -> [Assets -> Nat]],
           borrowAllowance' \in [Modes -> [Assets -> [Users -> [Users -> Nat]]]],
           DebtIsFlagged'
    PROVE  Preserved
  <1>1. paused' \in BOOLEAN /\ config' \in [Assets -> Config]
    BY DEF IInv, TypeOK
  <1>2. market' \in [Assets -> Market] /\ \A a \in Assets : Sound(market'[a], now')
    BY DEF MarketsGo
  <1>3. TypeOK'
    BY <1>1, <1>2 DEF TypeOK
  <1>4. IInv'
    BY <1>2, <1>3 DEF IInv
  <1>5. IndexesStep
    BY DEF MarketsGo, IndexesStep
  <1> QED BY <1>4, <1>5 DEF Preserved

\* LendingPool.deposit
LEMMA DepositStep ==
    ASSUME IInv, NEW u \in Users, NEW a \in Assets, NEW amount \in Nat,
           NEW onBehalfOf \in Users, deposit(u, a, amount, onBehalfOf)
    PROVE  Preserved
  <1> DEFINE m  == market[a]
             m1 == updateState(m, config[a], now)
             m2 == updateInterestRates(m1, config[a], now, amount, 0)
             m3 == [m2 EXCEPT !.cash = @ + amount]
             m4 == elMint(m3, onBehalfOf, amount)
  <1>1. /\ now \in Nat /\ Sound(m, now) /\ config[a] \in Config
        /\ usersConfig \in [Users -> UserConfig] /\ wallet \in [Users -> [Assets -> Nat]]
    BY DEF IInv, TypeOK
  <1>2. UpdateFrame(m, m1, now)
    BY <1>1, UpdateStateSound DEF deposit
  <1>3. ElFrame(m1, m2, now)
    BY <1>1, <1>2, UpdateRatesSound DEF deposit, UpdateFrame
  <1>4. m2.cash + amount \in Nat
    BY <1>3 DEF ElFrame, Sound, Market
  <1>5. ElFrame(m2, m3, now)
    BY <1>1, <1>3, <1>4, CashChange DEF ElFrame
  <1>6. ElFrame(m3, m4, now)
    BY <1>1, <1>5, ElMintSound DEF ElFrame
  <1>7. market' = [market EXCEPT ![a] = m4]
    BY DEF deposit
  <1> HIDE DEF m1, m2, m3, m4
  <1>8. Sound(m4, now) /\ IndexesGrow(m, m4) /\ SameDebt(m, m4)
    BY <1>2, <1>3, <1>5, <1>6 DEF UpdateFrame, ElFrame, SameDebt, SameIndexes, IndexesGrow
  <1>9. MarketsGo(market, market', now)
    BY <1>7, <1>8, ChangeOne
  <1>10. usersConfig' \in [Users -> UserConfig] /\ FlagsOnlyRise
    <2>1. usersConfig' \in {usersConfig, setUsingAsCollateral(usersConfig, onBehalfOf, a, TRUE)}
      BY DEF deposit
    <2> QED BY <2>1, CollateralFlagStep
  <1>11. wallet' \in [Users -> [Assets -> Nat]]
    BY <1>1, WalletChange DEF deposit
  <1>12. DebtIsFlagged'
    BY <1>7, <1>8, <1>10, SameOwes, OwesNoMoreOne, FlagsKept
  <1> QED BY <1>1, <1>9, <1>10, <1>11, <1>12, Preserving DEF deposit, IInv, TypeOK

\* LendingPool.withdraw
LEMMA WithdrawStep ==
    ASSUME IInv, NEW u \in Users, NEW a \in Assets, NEW amount \in Nat,
           NEW to \in Users, withdraw(u, a, amount, to)
    PROVE  Preserved
  <1> DEFINE m  == market[a]
             n  == IF amount = UINT256_MAX THEN m.el[u] ELSE amount
             m1 == updateState(m, config[a], now)
             m2 == updateInterestRates(m1, config[a], now, 0, n)
             m3 == elBurn(m2, u, n)
  <1>1. /\ now \in Nat /\ Sound(m, now) /\ config[a] \in Config
        /\ wallet \in [Users -> [Assets -> Nat]]
    BY DEF IInv, TypeOK
  <1>2. n \in Nat
    BY <1>1 DEF Sound, Market, Accounts
  <1>3. /\ canUpdateState(m, config[a], now) /\ canUpdateInterestRates(m1, config[a], 0, n)
        /\ canBurnEl(m1, u, n) /\ market' = [market EXCEPT ![a] = m3]
        /\ wallet' = [wallet EXCEPT ![to][a] = @ + n]
        /\ usersConfig' \in {usersConfig, setUsingAsCollateral(usersConfig, u, a, FALSE)}
        /\ UNCHANGED <<now, paused, price, config, borrowAllowance>>
    BY DEF withdraw
  <1> HIDE DEF n
  <1>4. UpdateFrame(m, m1, now)
    BY <1>1, <1>3, UpdateStateSound
  <1> HIDE DEF m1
  <1>5. /\ ElFrame(m1, m2, now)
        /\ m2.cash = m1.cash /\ m2.el = m1.el /\ m2.elSupply = m1.elSupply
    BY <1>1, <1>2, <1>3, <1>4, UpdateRatesSound DEF UpdateFrame
  <1> HIDE DEF m2
  <1>6. canBurnEl(m2, u, n)
    BY <1>3, <1>5 DEF canBurnEl, ElFrame, SameIndexes
  <1>7. ElFrame(m2, m3, now)
    BY <1>1, <1>2, <1>5, <1>6, ElBurnSound DEF ElFrame
  <1> HIDE DEF m3
  <1>8. Sound(m3, now) /\ IndexesGrow(m, m3) /\ SameDebt(m, m3)
    BY <1>4, <1>5, <1>7 DEF UpdateFrame, ElFrame, SameDebt, SameIndexes, IndexesGrow
  <1>9. MarketsGo(market, market', now)
    BY <1>3, <1>8, ChangeOne
  <1>10. usersConfig' \in [Users -> UserConfig] /\ FlagsOnlyRise
    BY <1>3, CollateralFlagStep
  <1>11. wallet' \in [Users -> [Assets -> Nat]]
    BY <1>1, <1>2, <1>3, WalletChange
  <1>12. DebtIsFlagged'
    BY <1>3, <1>8, <1>10, SameOwes, OwesNoMoreOne, FlagsKept
  <1> QED BY <1>1, <1>3, <1>9, <1>10, <1>11, <1>12, Preserving DEF IInv, TypeOK

\* ELToken.transfer
LEMMA TransferStep ==
    ASSUME IInv, NEW from \in Users, NEW to \in Users, NEW a \in Assets, NEW amount \in Nat,
           transfer(from, to, a, amount)
    PROVE  Preserved
  <1> DEFINE m  == market[a]
             r  == elTransfer(m, from, to, amount, now)
             left == setUsingAsCollateral(usersConfig, from, a, FALSE)
  <1>1. /\ now \in Nat /\ Sound(m, now) /\ usersConfig \in [Users -> UserConfig]
    BY DEF IInv, TypeOK
  <1>2. /\ canTransferEl(m, from, amount, now) /\ market' = [market EXCEPT ![a] = r]
        /\ usersConfig' \in {usersConfig, left,
                             setUsingAsCollateral(usersConfig, to, a, TRUE),
                             setUsingAsCollateral(left, to, a, TRUE)}
        /\ UNCHANGED <<now, paused, price, config, wallet, borrowAllowance>>
    BY DEF transfer
  <1>3. ElFrame(m, r, now)
    BY <1>1, <1>2, ElTransferSound
  <1> HIDE DEF r
  <1>4. Sound(r, now) /\ IndexesGrow(m, r) /\ SameDebt(m, r)
    BY <1>1, <1>3, SameGrow DEF ElFrame, Sound
  <1>5. MarketsGo(market, market', now)
    BY <1>2, <1>4, ChangeOne
  <1>6. usersConfig' \in [Users -> UserConfig] /\ FlagsOnlyRise
    <2>1. /\ left \in [Users -> UserConfig]
          /\ \A v \in Users : left[v].borrowing = usersConfig[v].borrowing
      BY <1>1, CollateralFlag
    <2> HIDE DEF left
    <2>2. /\ setUsingAsCollateral(usersConfig, to, a, TRUE) \in [Users -> UserConfig]
          /\ \A v \in Users : setUsingAsCollateral(usersConfig, to, a, TRUE)[v].borrowing
                                = usersConfig[v].borrowing
      BY <1>1, CollateralFlag
    <2>3. /\ setUsingAsCollateral(left, to, a, TRUE) \in [Users -> UserConfig]
          /\ \A v \in Users : setUsingAsCollateral(left, to, a, TRUE)[v].borrowing
                                = left[v].borrowing
      BY <2>1, CollateralFlag
    <2> QED BY <1>1, <1>2, <2>1, <2>2, <2>3 DEF FlagsOnlyRise
  <1>7. DebtIsFlagged'
    BY <1>2, <1>4, <1>6, SameOwes, OwesNoMoreOne, FlagsKept
  <1> QED BY <1>1, <1>2, <1>5, <1>6, <1>7, Preserving DEF IInv, TypeOK

\* LendingPool.setUserUseReserveAsCollateral
LEMMA UseAsCollateralStep ==
    ASSUME IInv, NEW u \in Users, NEW a \in Assets, NEW f \in BOOLEAN,
           setUserUseReserveAsCollateral(u, a, f)
    PROVE  Preserved
  <1>1. /\ usersConfig' = setUsingAsCollateral(usersConfig, u, a, f)
        /\ UNCHANGED <<now, paused, price, config, market, wallet, borrowAllowance>>
    BY DEF setUserUseReserveAsCollateral
  <1>2. usersConfig' \in [Users -> UserConfig] /\ FlagsOnlyRise
    BY <1>1, CollateralFlagStep
  <1>3. MarketsGo(market, market', now)
    BY <1>1, MarketsStart
  <1>4. DebtIsFlagged'
    BY <1>1, <1>2, FlagsKept DEF OwesNoMore
  <1> QED BY <1>1, <1>2, <1>3, <1>4, Preserving DEF IInv, TypeOK

\* DebtTokenBase.approveDelegation
LEMMA ApproveDelegationStep ==
    ASSUME IInv, NEW u \in Users, NEW v \in Users, NEW a \in Assets, NEW mode \in Modes,
           NEW amount \in Nat, approveDelegation(u, v, a, mode, amount)
    PROVE  Preserved
  <1>1. /\ borrowAllowance' = [borrowAllowance EXCEPT ![mode][a][u][v] = amount]
        /\ UNCHANGED <<now, paused, price, config, market, usersConfig, wallet>>
    BY DEF approveDelegation
  <1>2. borrowAllowance' \in [Modes -> [Assets -> [Users -> [Users -> Nat]]]]
    BY <1>1 DEF IInv, TypeOK
  <1>3. MarketsGo(market, market', now)
    BY <1>1, MarketsStart
  <1>4. DebtIsFlagged'
    BY <1>1, FlagsKept DEF OwesNoMore, FlagsOnlyRise
  <1> QED BY <1>1, <1>2, <1>3, <1>4, Preserving DEF IInv, TypeOK

\* A new block.
LEMMA TickStep ==
    ASSUME IInv, Tick
    PROVE  Preserved
  <1>1. /\ now' = now + 1
        /\ UNCHANGED <<paused, price, config, market, usersConfig, wallet, borrowAllowance>>
    BY DEF Tick
  <1>2. now \in Nat /\ market \in [Assets -> Market]
    BY DEF IInv, TypeOK
  <1>3. \A a \in Assets : Sound(market'[a], now')
    <2>1. TAKE a \in Assets
    <2>2. Sound(market[a], now)
      BY DEF IInv
    <2> QED BY <1>1, <1>2, <2>2 DEF Sound, ClocksOrdered, Market
  <1>4. TypeOK' /\ DebtIsFlagged'
    BY <1>1 DEF IInv, TypeOK, DebtIsFlagged
  <1>5. IndexesStep
    BY <1>1, MarketsStart DEF IndexesStep, MarketsGo
  <1> QED BY <1>3, <1>4, <1>5 DEF Preserved, IInv

\* A new price.
LEMMA SetPriceStep ==
    ASSUME IInv, NEW a \in Assets, NEW p \in Nat \ {0}, SetPrice(a, p)
    PROVE  Preserved
  <1>1. /\ price' = [price EXCEPT ![a] = p]
        /\ UNCHANGED <<now, paused, config, market, usersConfig, wallet, borrowAllowance>>
    BY DEF SetPrice
  <1>2. price' \in [Assets -> Nat \ {0}]
    BY <1>1 DEF IInv, TypeOK
  <1>3. MarketsGo(market, market', now)
    BY <1>1, MarketsStart
  <1>4. DebtIsFlagged'
    BY <1>1, FlagsKept DEF OwesNoMore, FlagsOnlyRise
  <1> QED BY <1>1, <1>2, <1>3, <1>4, Preserving DEF IInv, TypeOK
-------------------------------------------------------------------------------
(***************************************************************************)
(* Calls that change debts.                                                *)
(***************************************************************************)
\* A mint or a burn of debt within one call.
DebtFrame(m, r, t) == Sound(r, t) /\ SameIndexes(m, r) /\ r.cash = m.cash

\* The mint of either debt token gives a debt to one user only.
LEMMA MintDebtSound ==
    ASSUME NEW t \in Nat, NEW m, Sound(m, t), m.lastUpdateTimestamp = t, NEW u \in Users,
           NEW amount \in Nat, NEW mode \in Modes, canMintDebt(m, u, amount, mode, t)
    PROVE  /\ DebtFrame(m, mintDebt(m, u, amount, mode, t), t)
           /\ OthersOweNoMore(m, mintDebt(m, u, amount, mode, t), u)
  <1>1. m.currentStableBorrowRate \in Nat /\ m.variableBorrowIndex \in Nat
    BY DEF Sound, Market
  <1>2. CASE mode = "STABLE"
    <2> DEFINE r == stMint(m, u, amount, m.currentStableBorrowRate, t)
    <2>1. mintDebt(m, u, amount, mode, t) = r /\ canMintSt(m, u, amount, t)
      BY <1>2 DEF mintDebt, canMintDebt
    <2>2. StFrame(m, r, t) /\ \A v \in Users \ {u} : r.stDebt[v] = m.stDebt[v]
      BY <1>1, <2>1, StMintSound
    <2> HIDE DEF r
    <2> QED BY <2>1, <2>2 DEF StFrame, DebtFrame, OthersOweNoMore
  <1>3. CASE mode = "VARIABLE"
    <2> DEFINE r == varMint(m, u, amount, m.variableBorrowIndex)
    <2>1. mintDebt(m, u, amount, mode, t) = r /\ canMintVar(amount, m.variableBorrowIndex)
      BY <1>3 DEF mintDebt, canMintDebt
    <2>2. VarFrame(m, r, t) /\ \A v \in Users \ {u} : r.varDebt[v] = m.varDebt[v]
      BY <1>1, <2>1, VarMintSound
    <2> HIDE DEF r
    <2> QED BY <2>1, <2>2 DEF VarFrame, DebtFrame, OthersOweNoMore
  <1> QED BY <1>2, <1>3 DEF Modes

\* A burn of stable debt gives nobody a debt.
LEMMA StBurnOwes ==
    ASSUME NEW t \in Nat, NEW m, Sound(m, t), m.lastUpdateTimestamp = t, NEW u \in Users,
           NEW amount \in Nat, canBurnSt(m, u, amount, t)
    PROVE  /\ DebtFrame(m, stBurn(m, u, amount, t), t)
           /\ OwesNoMore(m, stBurn(m, u, amount, t))
           /\ stBurn(m, u, amount, t).varDebt = m.varDebt
  <1> DEFINE r == stBurn(m, u, amount, t)
  <1>1. /\ StFrame(m, r, t)
        /\ r.stDebt[u] = stBalanceOf(m, u, t) - amount
        /\ \A v \in Users \ {u} : r.stDebt[v] = m.stDebt[v]
    BY StBurnSound
  <1>2. m.stDebt[u] = 0 => stBalanceOf(m, u, t) = 0
    BY StBalanceNat
  <1>3. stBalanceOf(m, u, t) \in Nat /\ amount <= stBalanceOf(m, u, t)
    BY StBalanceNat DEF canBurnSt
  <1> HIDE DEF r
  <1>4. m.stDebt[u] = 0 => r.stDebt[u] = 0
    BY <1>1, <1>2, <1>3
  <1>5. DebtFrame(m, r, t) /\ OwesNoMore(m, r) /\ r.varDebt = m.varDebt
    BY <1>1, <1>4 DEF StFrame, DebtFrame, OwesNoMore
  <1> QED BY <1>5 DEF r

\* Nor does a burn of variable debt.
LEMMA VarBurnOwes ==
    ASSUME NEW t \in Nat, NEW m, Sound(m, t), NEW u \in Users,
           NEW amount \in Nat, canBurnVar(m, u, amount)
    PROVE  /\ DebtFrame(m, varBurn(m, u, amount), t)
           /\ OwesNoMore(m, varBurn(m, u, amount))
           /\ varBurn(m, u, amount).stDebt = m.stDebt
  <1> DEFINE r == varBurn(m, u, amount)
             k == rayDiv(amount, m.variableBorrowIndex)
  <1>1. /\ VarFrame(m, r, t)
        /\ r.varDebt[u] = m.varDebt[u] - k
        /\ k \in 0..m.varDebt[u]
        /\ \A v \in Users \ {u} : r.varDebt[v] = m.varDebt[v]
    BY VarBurnSound
  <1> HIDE DEF r, k
  <1>2. m.varDebt[u] = 0 => r.varDebt[u] = 0
    <2>1. m.varDebt[u] \in Nat
      BY DEF Sound, Market
    <2>2. m.varDebt[u] = 0 => k = 0
      BY <1>1, <2>1
    <2>3. m.varDebt[u] = 0 => r.varDebt[u] = 0 - 0
      BY <1>1, <2>2
    <2> QED BY <2>3
  <1>3. DebtFrame(m, r, t) /\ OwesNoMore(m, r) /\ r.stDebt = m.stDebt
    BY <1>1, <1>2 DEF VarFrame, DebtFrame, OwesNoMore
  <1> QED BY <1>3 DEF r

\* The burn of either debt token.
LEMMA BurnDebtSound ==
    ASSUME NEW t \in Nat, NEW m, Sound(m, t), m.lastUpdateTimestamp = t, NEW u \in Users,
           NEW amount \in Nat, NEW mode \in Modes, canBurnDebt(m, u, amount, mode, t)
    PROVE  /\ DebtFrame(m, burnDebt(m, u, amount, mode, t), t)
           /\ OwesNoMore(m, burnDebt(m, u, amount, mode, t))
  <1>1. CASE mode = "STABLE"
    <2>1. canBurnSt(m, u, amount, t) /\ burnDebt(m, u, amount, mode, t) = stBurn(m, u, amount, t)
      BY <1>1 DEF burnDebt, canBurnDebt
    <2> QED BY <2>1, StBurnOwes
  <1>2. CASE mode = "VARIABLE"
    <2>1. canBurnVar(m, u, amount) /\ burnDebt(m, u, amount, mode, t) = varBurn(m, u, amount)
      BY <1>2 DEF burnDebt, canBurnDebt
    <2> QED BY <2>1, VarBurnOwes
  <1> QED BY <1>1, <1>2 DEF Modes

\* A call that gives a debt to one user, who is flagged after it.
LEMMA FlaggedOne ==
    ASSUME IInv, NEW a \in Assets, NEW r, market' = [market EXCEPT ![a] = r], NEW u \in Users,
           OthersOweNoMore(market[a], r, u), FlagsOnlyRise, a \in usersConfig'[u].borrowing
    PROVE  DebtIsFlagged'
  <1>1. market'[a] = r /\ \A b \in Assets \ {a} : market'[b] = market[b]
    BY MarketsStart
  <1>2. ASSUME NEW v \in Users, NEW b \in Assets,
               market'[b].varDebt[v] # 0 \/ market'[b].stDebt[v] # 0
        PROVE  b \in usersConfig'[v].borrowing
    <2>1. CASE b = a /\ v = u
      BY <2>1
    <2>2. CASE b = a /\ v # u
      <3>1. market[a].varDebt[v] # 0 \/ market[a].stDebt[v] # 0
        BY <1>1, <1>2, <2>2 DEF OthersOweNoMore
      <3> QED BY <2>2, <3>1 DEF IInv, DebtIsFlagged, FlagsOnlyRise
    <2>3. CASE b # a
      <3>1. market[b].varDebt[v] # 0 \/ market[b].stDebt[v] # 0
        BY <1>1, <1>2, <2>3
      <3> QED BY <3>1 DEF IInv, DebtIsFlagged, FlagsOnlyRise
    <2> QED BY <2>1, <2>2, <2>3
  <1> QED BY <1>2 DEF DebtIsFlagged

\* LendingPool.borrow
LEMMA BorrowStep ==
    ASSUME IInv, NEW u \in Users, NEW a \in Assets, NEW amount \in Nat, NEW mode \in Modes,
           NEW onBehalfOf \in Users, borrow(u, a, amount, mode, onBehalfOf)
    PROVE  Preserved
  <1> DEFINE m  == market[a]
             m1 == updateState(m, config[a], now)
             m2 == mintDebt(m1, onBehalfOf, amount, mode, now)
             m3 == updateInterestRates(m2, config[a], now, 0, amount)
             m4 == [m3 EXCEPT !.cash = @ - amount]
             first == isFirstBorrowing(m1, onBehalfOf, mode, now)
  <1>1. /\ now \in Nat /\ Sound(m, now) /\ config[a] \in Config
        /\ usersConfig \in [Users -> UserConfig] /\ wallet \in [Users -> [Assets -> Nat]]
        /\ borrowAllowance \in [Modes -> [Assets -> [Users -> [Users -> Nat]]]]
    BY DEF IInv, TypeOK
  <1>2. /\ canUpdateState(m, config[a], now)
        /\ canDecreaseBorrowAllowance(a, mode, onBehalfOf, u, amount)
        /\ canMintDebt(m1, onBehalfOf, amount, mode, now)
        /\ canUpdateInterestRates(m2, config[a], 0, amount)
        /\ market' = [market EXCEPT ![a] = m4]
        /\ wallet' = [wallet EXCEPT ![u][a] = @ + amount]
        /\ usersConfig' = IF first THEN setBorrowing(usersConfig, onBehalfOf, a, TRUE)
                                   ELSE usersConfig
        /\ borrowAllowance' = IF u # onBehalfOf
                              THEN [borrowAllowance EXCEPT ![mode][a][onBehalfOf][u] = @ - amount]
                              ELSE borrowAllowance
        /\ UNCHANGED <<now, paused, price, config>>
    BY DEF borrow
  <1>3. UpdateFrame(m, m1, now)
    BY <1>1, <1>2, UpdateStateSound
  <1> HIDE DEF m1
  <1>4. DebtFrame(m1, m2, now) /\ OthersOweNoMore(m1, m2, onBehalfOf)
    BY <1>1, <1>2, <1>3, MintDebtSound DEF UpdateFrame
  <1> HIDE DEF m2
  <1>5. ElFrame(m2, m3, now) /\ m3.cash = m2.cash
    <2>1. Sound(m2, now)
      BY <1>4 DEF DebtFrame
    <2>2. canUpdateInterestRates(m2, config[a], 0, amount) /\ 0 \in Nat
      BY <1>2
    <2> QED BY <1>1, <2>1, <2>2, UpdateRatesSound
  <1> HIDE DEF m3
  <1>6. m3.cash - amount \in Nat
    <2>1. m2.cash \in Nat
      BY <1>4 DEF DebtFrame, Sound, Market
    <2> QED BY <1>2, <1>5, <2>1 DEF canUpdateInterestRates
  <1>7. ElFrame(m3, m4, now)
    BY <1>1, <1>5, <1>6, CashChange DEF ElFrame
  <1> HIDE DEF m4
  <1>8. Sound(m4, now) /\ IndexesGrow(m, m4)
    BY <1>3, <1>4, <1>5, <1>7 DEF UpdateFrame, DebtFrame, ElFrame, SameIndexes, IndexesGrow
  <1>9. OthersOweNoMore(m, m4, onBehalfOf)
    BY <1>3, <1>4, <1>5, <1>7 DEF UpdateFrame, ElFrame, SameDebt, OthersOweNoMore
  <1>10. MarketsGo(market, market', now)
    BY <1>2, <1>8, ChangeOne
  <1>11. /\ usersConfig' \in [Users -> UserConfig] /\ FlagsOnlyRise
         /\ a \in usersConfig'[onBehalfOf].borrowing
    <2>1. CASE first
      <3>1. usersConfig' = setBorrowing(usersConfig, onBehalfOf, a, TRUE)
        BY <1>2, <2>1
      <3>2. /\ usersConfig' \in [Users -> UserConfig]
            /\ \A v \in Users \ {onBehalfOf} : usersConfig'[v] = usersConfig[v]
            /\ usersConfig'[onBehalfOf].borrowing = usersConfig[onBehalfOf].borrowing \cup {a}
        BY <1>1, <3>1 DEF setBorrowing, UserConfig
      <3>3. ASSUME NEW v \in Users
            PROVE  usersConfig[v].borrowing \subseteq usersConfig'[v].borrowing
        BY <3>2
      <3> QED BY <3>2, <3>3 DEF FlagsOnlyRise
    <2>2. CASE ~first
      <3>1. m1.varDebt[onBehalfOf] # 0 \/ m1.stDebt[onBehalfOf] # 0
        BY <1>1, <1>3, <2>2, StBalanceNat DEF isFirstBorrowing, UpdateFrame
      <3>2. m.varDebt[onBehalfOf] # 0 \/ m.stDebt[onBehalfOf] # 0
        BY <1>3, <3>1 DEF UpdateFrame, SameDebt
      <3> QED BY <1>1, <1>2, <2>2, <3>2 DEF IInv, DebtIsFlagged, FlagsOnlyRise
    <2> QED BY <2>1, <2>2
  <1>12. wallet' \in [Users -> [Assets -> Nat]]
    BY <1>1, <1>2, WalletChange
  <1>13. borrowAllowance' \in [Modes -> [Assets -> [Users -> [Users -> Nat]]]]
    BY <1>1, <1>2 DEF canDecreaseBorrowAllowance
  <1>14. DebtIsFlagged'
    BY <1>2, <1>9, <1>11, FlaggedOne
  <1> QED BY <1>1, <1>2, <1>10, <1>11, <1>12, <1>13, <1>14, Preserving DEF IInv, TypeOK

\* Without a scaled balance there is no variable debt.
LEMMA NothingBorrowed ==
    ASSUME NEW t \in Nat, NEW m, Sound(m, t), NEW u \in Users, m.varDebt[u] = 0
    PROVE  varBalanceOf(m, u, t) = 0
  <1> DEFINE i == getNormalizedDebt(m, t)
  <1>1. i \in Nat
    BY ViewIndexesGrow
  <1> HIDE DEF i
  <1>2. rayMul(0, i) = 0
    <2>1. 0 * i = 0 /\ halfRAY \div RAY = 0
      BY <1>1, HalfRay, RayAssumption
    <2> QED BY <2>1, HalfRay DEF rayMul
  <1> QED BY <1>2 DEF varBalanceOf, i

\* What is owed in a mode is a number, and zero if nothing was ever lent in it.
LEMMA DebtOfModeNat ==
    ASSUME NEW t \in Nat, NEW m, Sound(m, t), NEW u \in Users, NEW mode \in Modes
    PROVE  /\ debtOfMode(m, u, mode, t) \in Nat
           /\ debtOfMode(m, u, mode, t) > 0 => m.varDebt[u] # 0 \/ m.stDebt[u] # 0
  <1>1. stBalanceOf(m, u, t) \in Nat /\ (m.stDebt[u] = 0 => stBalanceOf(m, u, t) = 0)
    BY StBalanceNat
  <1>2. varBalanceOf(m, u, t) \in Nat
    BY NoHiddenDebt
  <1>3. m.varDebt[u] = 0 => varBalanceOf(m, u, t) = 0
    BY NothingBorrowed
  <1> QED BY <1>1, <1>2, <1>3 DEF debtOfMode

\* LendingPool.repay: a flag is cleared only if nothing is left of either debt.
LEMMA RepayLeavesNothing ==
    ASSUME IInv, NEW a \in Assets, NEW u \in Users, NEW amount \in Nat, NEW mode \in Modes,
           NEW payback, payback = paybackAmount(u, a, amount, mode),
           NEW m1, UpdateFrame(market[a], m1, now), canBurnDebt(m1, u, payback, mode, now),
           NEW m2, m2 = burnDebt(m1, u, payback, mode, now),
           userDebt(market[a], u, now) - payback = 0
    PROVE  m2.varDebt[u] = 0 /\ m2.stDebt[u] = 0
  <1> DEFINE m == market[a]
             st == stBalanceOf(m, u, now)
             var == varBalanceOf(m, u, now)
  <1>1. now \in Nat /\ Sound(m, now)
    BY DEF IInv, TypeOK
  <1>2. /\ st \in Nat /\ (st = 0 => m.stDebt[u] = 0)
        /\ var \in Nat /\ (var = 0 => m.varDebt[u] = 0)
    BY <1>1, NoHiddenDebt
  <1>3. /\ Sound(m1, now) /\ m1.lastUpdateTimestamp = now /\ SameDebt(m, m1)
    BY DEF UpdateFrame
  <1>4. stBalanceOf(m1, u, now) = st
    BY <1>3 DEF SameDebt, stBalanceOf
  <1>5. CASE mode = "STABLE"
    <2>1. payback = (IF amount < st THEN amount ELSE st) /\ st + var - payback = 0
      <3>1. debtOfMode(m, u, mode, now) = st
        BY <1>5 DEF debtOfMode
      <3>2. payback = (IF amount < st THEN amount ELSE st)
        BY <3>1 DEF paybackAmount
      <3>3. st + var - payback = 0
        <4>1. userDebt(market[a], u, now) = st + var
          BY DEF userDebt
        <4>2. userDebt(market[a], u, now) - payback = 0
          OBVIOUS
        <4>3. payback \in Nat
          BY <1>2, <3>2
        <4> HIDE DEF st, var
        <4> QED BY <1>2, <4>1, <4>2, <4>3
      <3> QED BY <3>2, <3>3
    <2>2. payback = st /\ var = 0 /\ payback \in Nat
      BY <1>2, <2>1
    <2>3. m2 = stBurn(m1, u, payback, now) /\ canBurnSt(m1, u, payback, now)
      BY <1>5 DEF burnDebt, canBurnDebt
    <2> HIDE DEF st, var
    <2>4. m2.stDebt[u] = st - payback
      BY <1>1, <1>3, <1>4, <2>2, <2>3, StBurnSound
    <2>5. m2.varDebt = m1.varDebt
      BY <1>1, <1>3, <2>2, <2>3, StBurnOwes
    <2> QED BY <1>2, <1>3, <2>2, <2>4, <2>5 DEF SameDebt
  <1>6. CASE mode = "VARIABLE"
    <2>1. payback = (IF amount < var THEN amount ELSE var) /\ st + var - payback = 0
      <3>1. debtOfMode(m, u, mode, now) = var
        BY <1>6 DEF debtOfMode
      <3>2. payback = (IF amount < var THEN amount ELSE var)
        BY <3>1 DEF paybackAmount
      <3>3. st + var - payback = 0
        <4>1. userDebt(market[a], u, now) = st + var
          BY DEF userDebt
        <4>2. userDebt(market[a], u, now) - payback = 0
          OBVIOUS
        <4>3. payback \in Nat
          BY <1>2, <3>2
        <4> HIDE DEF st, var
        <4> QED BY <1>2, <4>1, <4>2, <4>3
      <3> QED BY <3>2, <3>3
    <2>2. payback = var /\ st = 0 /\ payback \in Nat
      BY <1>2, <2>1
    <2>3. m2 = varBurn(m1, u, payback) /\ canBurnVar(m1, u, payback)
      BY <1>6 DEF burnDebt, canBurnDebt
    <2>4. m2.varDebt[u] = 0
      BY <1>1, <2>2, <2>3, BurnAllVar
    <2>5. m2.stDebt = m1.stDebt
      BY <1>1, <1>3, <2>2, <2>3, VarBurnOwes
    <2> HIDE DEF st, var
    <2> QED BY <1>2, <1>3, <2>2, <2>4, <2>5 DEF SameDebt
  <1> QED BY <1>5, <1>6 DEF Modes

\* LendingPool.repay
LEMMA RepayStep ==
    ASSUME IInv, NEW u \in Users, NEW a \in Assets, NEW amount \in Nat, NEW mode \in Modes,
           NEW onBehalfOf \in Users, repay(u, a, amount, mode, onBehalfOf)
    PROVE  Preserved
  <1> DEFINE m  == market[a]
             n  == paybackAmount(onBehalfOf, a, amount, mode)
             m1 == updateState(m, config[a], now)
             m2 == burnDebt(m1, onBehalfOf, n, mode, now)
             m3 == updateInterestRates(m2, config[a], now, n, 0)
             m4 == [m3 EXCEPT !.cash = @ + n]
             all == repaysEverything(onBehalfOf, a, n)
  <1>1. /\ now \in Nat /\ Sound(m, now) /\ config[a] \in Config
        /\ usersConfig \in [Users -> UserConfig] /\ wallet \in [Users -> [Assets -> Nat]]
    BY DEF IInv, TypeOK
  <1>2. /\ canUpdateState(m, config[a], now)
        /\ canBurnDebt(m1, onBehalfOf, n, mode, now)
        /\ canUpdateInterestRates(m2, config[a], n, 0)
        /\ wallet[u][a] >= n
        /\ market' = [market EXCEPT ![a] = m4]
        /\ wallet' = [wallet EXCEPT ![u][a] = @ - n]
        /\ usersConfig' = IF all THEN setBorrowing(usersConfig, onBehalfOf, a, FALSE)
                                 ELSE usersConfig
        /\ UNCHANGED <<now, paused, price, config, borrowAllowance>>
    BY DEF repay, canRepay, repaid
  <1>3. n \in Nat
    <2>1. debtOfMode(m, onBehalfOf, mode, now) \in Nat
      BY <1>1, DebtOfModeNat
    <2> QED BY <2>1 DEF paybackAmount
  <1>4. UpdateFrame(m, m1, now)
    BY <1>1, <1>2, UpdateStateSound
  <1> HIDE DEF m1
  <1>5. all => m2.varDebt[onBehalfOf] = 0 /\ m2.stDebt[onBehalfOf] = 0
    <2>1. n = paybackAmount(onBehalfOf, a, amount, mode)
      OBVIOUS
    <2> HIDE DEF n
    <2>2. all => userDebt(m, onBehalfOf, now) - n = 0
      BY DEF repaysEverything
    <2> QED BY <1>2, <1>4, <2>1, <2>2, RepayLeavesNothing
  <1> HIDE DEF n
  <1>6. DebtFrame(m1, m2, now) /\ OwesNoMore(m1, m2)
    BY <1>1, <1>2, <1>3, <1>4, BurnDebtSound DEF UpdateFrame
  <1> HIDE DEF m2
  <1>7. ElFrame(m2, m3, now)
    <2>1. Sound(m2, now)
      BY <1>6 DEF DebtFrame
    <2>2. canUpdateInterestRates(m2, config[a], n, 0) /\ 0 \in Nat
      BY <1>2
    <2> QED BY <1>1, <1>3, <2>1, <2>2, UpdateRatesSound
  <1> HIDE DEF m3
  <1>8. m3.cash + n \in Nat
    BY <1>3, <1>7 DEF ElFrame, Sound, Market
  <1>9. ElFrame(m3, m4, now)
    BY <1>1, <1>7, <1>8, CashChange DEF ElFrame
  <1> HIDE DEF m4
  <1>10. Sound(m4, now) /\ IndexesGrow(m, m4)
    BY <1>4, <1>6, <1>7, <1>9 DEF UpdateFrame, DebtFrame, ElFrame, SameIndexes, IndexesGrow
  <1>11. OwesNoMore(m, m4)
    BY <1>4, <1>6, <1>7, <1>9 DEF UpdateFrame, ElFrame, SameDebt, OwesNoMore
  <1>12. all => m4.varDebt[onBehalfOf] = 0 /\ m4.stDebt[onBehalfOf] = 0
    BY <1>5, <1>7, <1>9 DEF ElFrame, SameDebt
  <1>13. MarketsGo(market, market', now)
    BY <1>2, <1>10, ChangeOne
  <1>14. usersConfig' \in [Users -> UserConfig]
    BY <1>1, <1>2 DEF setBorrowing, UserConfig
  <1>15. wallet' \in [Users -> [Assets -> Nat]]
    BY <1>1, <1>2, <1>3, WalletChange
  <1>16. DebtIsFlagged'
    <2>1. CASE all
      <3>1. /\ \A v \in Users \ {onBehalfOf} : usersConfig'[v] = usersConfig[v]
            /\ usersConfig'[onBehalfOf].borrowing = usersConfig[onBehalfOf].borrowing \ {a}
        BY <1>1, <1>2, <2>1 DEF setBorrowing, UserConfig
      <3>2. market'[a] = m4 /\ \A b \in Assets \ {a} : market'[b] = market[b]
        BY <1>2, MarketsStart
      <3>3. ASSUME NEW v \in Users, NEW b \in Assets,
                   market'[b].varDebt[v] # 0 \/ market'[b].stDebt[v] # 0
            PROVE  b \in usersConfig'[v].borrowing
        <4>1. market[b].varDebt[v] # 0 \/ market[b].stDebt[v] # 0
          BY <1>11, <3>2, <3>3 DEF OwesNoMore
        <4>2. b \in usersConfig[v].borrowing
          BY <4>1 DEF IInv, DebtIsFlagged
        <4>3. b # a \/ v # onBehalfOf
          BY <1>12, <2>1, <3>2, <3>3
        <4> QED BY <3>1, <4>2, <4>3
      <3> QED BY <3>3 DEF DebtIsFlagged
    <2>2. CASE ~all
      BY <1>2, <1>11, <2>2, OwesNoMoreOne, FlagsKept DEF FlagsOnlyRise
    <2> QED BY <2>1, <2>2
  <1> QED BY <1>1, <1>2, <1>13, <1>14, <1>15, <1>16, Preserving DEF IInv, TypeOK

\* Burning and minting the debt of u in one call, then the rates: what swapping and
\* rebalancing have in common.
LEMMA ConvertDebt ==
    ASSUME IInv, NEW a \in Assets, NEW u \in Users,
           NEW m1, UpdateFrame(market[a], m1, now),
           NEW m2, DebtFrame(m1, m2, now), OwesNoMore(m1, m2),
           NEW m3, DebtFrame(m2, m3, now), OthersOweNoMore(m2, m3, u),
           canUpdateInterestRates(m3, config[a], 0, 0),
           market' = [market EXCEPT ![a] = updateInterestRates(m3, config[a], now, 0, 0)],
           market[a].varDebt[u] # 0 \/ market[a].stDebt[u] # 0,
           UNCHANGED <<now, paused, price, config, usersConfig, wallet, borrowAllowance>>
    PROVE  Preserved
  <1> DEFINE m  == market[a]
             m4 == updateInterestRates(m3, config[a], now, 0, 0)
  <1>1. now \in Nat /\ config[a] \in Config
    BY DEF IInv, TypeOK
  <1>2. ElFrame(m3, m4, now)
    <2>1. Sound(m3, now) /\ 0 \in Nat
      BY DEF DebtFrame
    <2> QED BY <1>1, <2>1, UpdateRatesSound
  <1>3. market' = [market EXCEPT ![a] = m4]
    OBVIOUS
  <1> HIDE DEF m4
  <1>4. Sound(m4, now) /\ IndexesGrow(m, m4)
    BY <1>2 DEF UpdateFrame, DebtFrame, ElFrame, SameIndexes, IndexesGrow
  <1>5. OthersOweNoMore(m, m4, u)
    BY <1>2 DEF UpdateFrame, ElFrame, SameDebt, OwesNoMore, OthersOweNoMore
  <1>6. MarketsGo(market, market', now)
    <2>1. MarketsGo(market, [market EXCEPT ![a] = m4], now)
      BY <1>4, ChangeOne
    <2> QED BY <1>3, <2>1
  <1>7. FlagsOnlyRise /\ a \in usersConfig'[u].borrowing
    BY DEF FlagsOnlyRise, IInv, DebtIsFlagged
  <1>8. DebtIsFlagged'
    BY <1>3, <1>5, <1>7, FlaggedOne
  <1> QED BY <1>1, <1>6, <1>8, Preserving DEF IInv, TypeOK

\* LendingPool.swapBorrowRateMode
LEMMA SwapStep ==
    ASSUME IInv, NEW u \in Users, NEW a \in Assets, NEW mode \in Modes,
           swapBorrowRateMode(u, a, mode)
    PROVE  Preserved
  <1> DEFINE m  == market[a]
             n  == debtOfMode(m, u, mode, now)
             m1 == updateState(m, config[a], now)
             m2 == burnDebt(m1, u, n, mode, now)
             m3 == mintDebt(m2, u, n, otherMode(mode), now)
  <1>1. now \in Nat /\ Sound(m, now) /\ config[a] \in Config
    BY DEF IInv, TypeOK
  <1>2. /\ n > 0 /\ canUpdateState(m, config[a], now)
        /\ canBurnDebt(m1, u, n, mode, now)
        /\ canMintDebt(m2, u, n, otherMode(mode), now)
        /\ canUpdateInterestRates(m3, config[a], 0, 0)
        /\ market' = [market EXCEPT ![a] = updateInterestRates(m3, config[a], now, 0, 0)]
        /\ UNCHANGED <<now, paused, price, config, usersConfig, wallet, borrowAllowance>>
    BY DEF swapBorrowRateMode, validateSwapRateMode
  <1>3. n \in Nat /\ (m.varDebt[u] # 0 \/ m.stDebt[u] # 0)
    BY <1>1, <1>2, DebtOfModeNat
  <1> HIDE DEF n
  <1>4. UpdateFrame(m, m1, now)
    BY <1>1, <1>2, UpdateStateSound
  <1> HIDE DEF m1
  <1>5. DebtFrame(m1, m2, now) /\ OwesNoMore(m1, m2)
    BY <1>1, <1>2, <1>3, <1>4, BurnDebtSound DEF UpdateFrame
  <1> HIDE DEF m2
  <1>6. Sound(m2, now) /\ m2.lastUpdateTimestamp = now /\ otherMode(mode) \in Modes
    BY <1>4, <1>5 DEF UpdateFrame, DebtFrame, SameIndexes, otherMode, Modes
  <1>7. DebtFrame(m2, m3, now) /\ OthersOweNoMore(m2, m3, u)
    BY <1>1, <1>2, <1>3, <1>6, MintDebtSound
  <1> HIDE DEF m3
  <1> QED BY <1>2, <1>3, <1>4, <1>5, <1>7, ConvertDebt

\* LendingPool.rebalanceStableBorrowRate, of any revision: a user without a stable
\* debt cannot be rebalanced, for nothing can be minted.
LEMMA RebalanceStep ==
    ASSUME IInv, NEW a \in Assets, NEW u \in Users, rebalanceStableBorrowRate(a, u)
    PROVE  Preserved
  <1> DEFINE m  == market[a]
             n  == stBalanceOf(m, u, now)
             m1 == updateState(m, config[a], now)
             m2 == stBurn(m1, u, n, now)
             m3 == rebalanced(m2, u, n, now)
  <1>1. now \in Nat /\ Sound(m, now) /\ config[a] \in Config
    BY DEF IInv, TypeOK
  <1>2. /\ canUpdateState(m, config[a], now)
        /\ canBurnSt(m1, u, n, now)
        /\ canRebalance(m2, u, n, now)
        /\ canUpdateInterestRates(m3, config[a], 0, 0)
        /\ market' = [market EXCEPT ![a] = updateInterestRates(m3, config[a], now, 0, 0)]
        /\ UNCHANGED <<now, paused, price, config, usersConfig, wallet, borrowAllowance>>
    BY DEF rebalanceStableBorrowRate
  <1>3. n \in Nat /\ (m.stDebt[u] = 0 => n = 0)
    BY <1>1, StBalanceNat
  <1>4. UpdateFrame(m, m1, now)
    BY <1>1, <1>2, UpdateStateSound
  <1>5. stBalanceOf(m1, u, now) = n
    <2> HIDE DEF m1
    <2> QED BY <1>4 DEF UpdateFrame, SameDebt, stBalanceOf
  <1> HIDE DEF m1, n
  <1>6. /\ Sound(m1, now) /\ m1.lastUpdateTimestamp = now
    BY <1>4 DEF UpdateFrame
  <1>7. DebtFrame(m1, m2, now) /\ OwesNoMore(m1, m2)
    BY <1>1, <1>2, <1>3, <1>6, StBurnOwes
  <1>8. m2.stDebt[u] = n - n
    BY <1>1, <1>2, <1>3, <1>5, <1>6, StBurnSound
  <1> HIDE DEF m2
  <1>9. Sound(m2, now) /\ m2.lastUpdateTimestamp = now
    BY <1>6, <1>7 DEF DebtFrame, SameIndexes
  <1>10. m2.currentStableBorrowRate \in Nat /\ m2.currentVariableBorrowRate \in Nat
    BY <1>9 DEF Sound, Market
  <1>11. n # 0 /\ DebtFrame(m2, m3, now) /\ OthersOweNoMore(m2, m3, u)
    <2>1. CASE REVISION = 2
      <3> DEFINE i == m2.currentVariableBorrowRate
      <3>1. m3 = varMint(m2, u, n, i) /\ canMintVar(n, i)
        BY <1>2, <2>1 DEF rebalanced, canRebalance
      <3>2. VarFrame(m2, m3, now) /\ \A v \in Users \ {u} : m3.varDebt[v] = m2.varDebt[v]
        BY <1>1, <1>3, <1>9, <1>10, <3>1, VarMintSound
      <3>3. n # 0
        <4>1. SUFFICES ASSUME n = 0 PROVE FALSE
          OBVIOUS
        <4>2. i \in Nat /\ i # 0 /\ rayDiv(0, i) # 0
          BY <1>10, <3>1, <4>1 DEF canMintVar
        <4> HIDE DEF i
        <4>3. i \div 2 \in Nat /\ i \div 2 < i
          BY <4>2
        <4>4. (i \div 2) \div i = 0
          <5>1. i * 0 <= i \div 2 /\ i \div 2 < i * (0 + 1)
            BY <4>2, <4>3
          <5> QED BY <4>2, <4>3, <5>1, DivUnique
        <4>5. rayDiv(0, i) = 0
          <5>1. 0 * RAY + (i \div 2) = i \div 2
            BY <4>3, RayAssumption
          <5> QED BY <4>4, <5>1 DEF rayDiv
        <4> QED BY <4>2, <4>5
      <3> HIDE DEF m3
      <3> QED BY <3>2, <3>3 DEF VarFrame, DebtFrame, OthersOweNoMore
    <2>2. CASE REVISION # 2
      <3>1. /\ m3 = stMint(m2, u, n, m2.currentStableBorrowRate, now)
            /\ canMintSt(m2, u, n, now)
        BY <1>2, <2>2 DEF rebalanced, canRebalance
      <3>2. StFrame(m2, m3, now) /\ \A v \in Users \ {u} : m3.stDebt[v] = m2.stDebt[v]
        BY <1>1, <1>3, <1>9, <1>10, <3>1, StMintSound
      <3>3. n # 0
        <4>1. m2.stDebt[u] = 0
          BY <1>3, <1>8
        <4>2. stBalanceOf(m2, u, now) = 0
          BY <4>1 DEF stBalanceOf
        <4>3. stBalanceOf(m2, u, now) + n # 0
          BY <3>1 DEF canMintSt
        <4> QED BY <1>3, <4>2, <4>3
      <3> HIDE DEF m3
      <3> QED BY <3>2, <3>3 DEF StFrame, DebtFrame, OthersOweNoMore
    <2> QED BY <2>1, <2>2
  <1> HIDE DEF m3
  <1>12. m.varDebt[u] # 0 \/ m.stDebt[u] # 0
    BY <1>3, <1>11
  <1> QED BY <1>2, <1>4, <1>7, <1>11, <1>12, ConvertDebt

-------------------------------------------------------------------------------
(***************************************************************************)
(* Liquidation.                                                            *)
(***************************************************************************)

\* PercentageMath.percentDiv returns a natural number.
LEMMA PercentDivNat ==
    ASSUME NEW x \in Nat, NEW p \in Nat \ {0}
    PROVE  percentDiv(x, p) \in Nat
  <1>1. x * PERCENTAGE_FACTOR + (p \div 2) \in Nat
    BY PercentageAssumption
  <1> QED BY <1>1, DivBounds DEF percentDiv

\* A quotient of products of natural numbers is one.
LEMMA QuotientNat ==
    ASSUME NEW n \in Nat, NEW x \in Nat \ {0}, NEW y \in Nat \ {0}
    PROVE  n \div (x * y) \in Nat
  <1>1. x * y \in Nat \ {0}
    OBVIOUS
  <1> QED BY <1>1, DivBounds

\* A percentage of nothing is nothing.
LEMMA NoPercent ==
    ASSUME NEW x \in Nat
    PROVE  percentMul(x, 0) = 0
  <1>1. HALF_PERCENT \in Nat /\ HALF_PERCENT < PERCENTAGE_FACTOR
    BY PercentageAssumption DEF HALF_PERCENT
  <1>2. x * 0 + HALF_PERCENT = HALF_PERCENT
    BY <1>1
  <1>3. HALF_PERCENT \div PERCENTAGE_FACTOR = 0
    BY <1>1, PercentageAssumption
  <1> QED BY <1>2, <1>3 DEF percentMul

\* The collateral manager computes natural numbers.
LEMMA LiquidationAmountsNat ==
    ASSUME IInv, NEW c \in Assets, NEW d \in Assets, NEW user \in Users,
           NEW amount \in Nat
    PROVE  /\ liquidationAmounts(c, d, user, amount).collateral \in Nat
           /\ liquidationAmounts(c, d, user, amount).debt \in Nat
  <1> DEFINE owed    == userDebt(market[d], user, now)
             maxDebt == percentMul(owed, LIQUIDATION_CLOSE_FACTOR_PERCENT)
             wanted  == IF amount > maxDebt THEN maxDebt ELSE amount
             balance == market[c].el[user]
             bonus   == config[c].bonus
             most    == percentMul(price[d] * wanted * config[c].unit, bonus)
                          \div (price[c] * config[d].unit)
             less    == percentDiv((price[c] * balance * config[d].unit)
                                     \div (price[d] * config[c].unit), bonus)
             avail   == calculateAvailableCollateralToLiquidate(c, d, wanted, balance)
  <1>1. /\ now \in Nat /\ Sound(market[c], now) /\ Sound(market[d], now)
        /\ price[c] \in Nat \ {0} /\ price[d] \in Nat \ {0}
        /\ config[c].unit \in Nat \ {0} /\ config[d].unit \in Nat \ {0}
        /\ bonus \in Nat
    BY DEF IInv, TypeOK, Config
  <1>2. owed \in Nat
    <2>1. stBalanceOf(market[d], user, now) \in Nat /\ varBalanceOf(market[d], user, now) \in Nat
      BY <1>1, NoHiddenDebt
    <2> QED BY <2>1 DEF userDebt
  <1> HIDE DEF owed
  <1>3. maxDebt \in Nat
    BY <1>2, PercentMulNat, ParameterAssumption, PercentageAssumption
  <1> HIDE DEF maxDebt
  <1>4. wanted \in Nat
    BY <1>3
  <1>5. balance \in Nat
    BY <1>1 DEF Sound, Market, Accounts
  <1> HIDE DEF wanted, balance
  <1>6. most \in Nat
    <2>1. price[d] * wanted \in Nat
      BY <1>1, <1>4
    <2>2. price[d] * wanted * config[c].unit \in Nat
      BY <1>1, <2>1
    <2>3. percentMul(price[d] * wanted * config[c].unit, bonus) \in Nat
      BY <1>1, <2>2, PercentMulNat
    <2> QED BY <1>1, <2>3, QuotientNat
  <1>7. bonus # 0 => less \in Nat
    <2> HAVE bonus # 0
    <2>1. price[c] * balance \in Nat
      BY <1>1, <1>5
    <2>2. price[c] * balance * config[d].unit \in Nat
      BY <1>1, <2>1
    <2>3. (price[c] * balance * config[d].unit) \div (price[d] * config[c].unit) \in Nat
      BY <1>1, <2>2, QuotientNat
    <2> QED BY <1>1, <2>3, PercentDivNat
  <1>8. bonus = 0 => ~(most > balance)
    <2> HAVE bonus = 0
    <2>1. price[d] * wanted * config[c].unit \in Nat
      <3>1. price[d] * wanted \in Nat
        BY <1>1, <1>4
      <3> QED BY <1>1, <3>1
    <2>2. percentMul(price[d] * wanted * config[c].unit, bonus) = 0
      BY <2>1, NoPercent
    <2>3. price[c] * config[d].unit \in Nat \ {0}
      BY <1>1
    <2>4. most = 0
      BY <2>2, <2>3
    <2> QED BY <1>5, <2>4
  <1>9. avail = IF most > balance THEN [collateral |-> balance, debt |-> less]
                                  ELSE [collateral |-> most, debt |-> wanted]
    BY DEF calculateAvailableCollateralToLiquidate
  <1>10. liquidationAmounts(c, d, user, amount) =
          [collateral |-> avail.collateral,
           debt |-> IF avail.debt < wanted THEN avail.debt ELSE wanted]
    BY DEF liquidationAmounts, owed, maxDebt, wanted, balance
  <1> HIDE DEF most, less
  <1>11. avail.collateral \in Nat /\ avail.debt \in Nat
    BY <1>4, <1>5, <1>6, <1>7, <1>8, <1>9
  <1> HIDE DEF avail
  <1> QED BY <1>4, <1>10, <1>11

\* Burning the debts of a liquidated user, variable first.
LEMMA LiquidateDebtSound ==
    ASSUME NEW t \in Nat, NEW m, Sound(m, t), m.lastUpdateTimestamp = t, NEW u \in Users,
           NEW owed \in Nat, NEW n \in Nat, canLiquidateDebt(m, u, owed, n, t)
    PROVE  /\ DebtFrame(m, liquidateDebt(m, u, owed, n, t), t)
           /\ OwesNoMore(m, liquidateDebt(m, u, owed, n, t))
  <1>1. CASE owed >= n
    BY <1>1, VarBurnOwes DEF liquidateDebt, canLiquidateDebt
  <1>2. CASE ~(owed >= n)
    <2> DEFINE b == IF owed > 0 THEN varBurn(m, u, owed) ELSE m
               r == stBurn(b, u, n - owed, t)
    <2>1. /\ liquidateDebt(m, u, owed, n, t) = r /\ n - owed \in Nat
          /\ owed > 0 => canBurnVar(m, u, owed)
          /\ canBurnSt(m, u, n - owed, t)
      BY <1>2 DEF liquidateDebt, canLiquidateDebt
    <2>2. DebtFrame(m, b, t) /\ OwesNoMore(m, b)
          /\ b.stDebt = m.stDebt /\ b.stRate = m.stRate /\ b.stTime = m.stTime
      <3>1. CASE owed > 0
        BY <2>1, <3>1, VarBurnOwes, VarBurnSound DEF VarFrame
      <3>2. CASE ~(owed > 0)
        BY <3>2 DEF DebtFrame, OwesNoMore, SameIndexes
      <3> QED BY <3>1, <3>2
    <2> HIDE DEF b
    <2>3. canBurnSt(b, u, n - owed, t)
      BY <2>1, <2>2 DEF canBurnSt, stBalanceOf
    <2>4. Sound(b, t) /\ b.lastUpdateTimestamp = t
      BY <2>2 DEF DebtFrame, SameIndexes
    <2>5. DebtFrame(b, r, t) /\ OwesNoMore(b, r)
      BY <2>1, <2>3, <2>4, StBurnOwes
    <2> HIDE DEF r
    <2>6. DebtFrame(m, r, t) /\ OwesNoMore(m, r)
      BY <2>2, <2>5 DEF DebtFrame, SameIndexes, OwesNoMore
    <2> QED BY <2>1, <2>6
  <1> QED BY <1>1, <1>2

\* Replacing one reserve so that nobody owes more.
LEMMA OwesReplace ==
    ASSUME NEW mkt1 \in [Assets -> Market], NEW mkt2 \in [Assets -> Market],
           \A b \in Assets : OwesNoMore(mkt1[b], mkt2[b]),
           NEW a \in Assets, NEW r, OwesNoMore(mkt2[a], r)
    PROVE  \A b \in Assets : OwesNoMore(mkt1[b], [mkt2 EXCEPT ![a] = r][b])
  <1> DEFINE n == [mkt2 EXCEPT ![a] = r]
  <1>1. n[a] = r /\ \A b \in Assets \ {a} : n[b] = mkt2[b]
    OBVIOUS
  <1> HIDE DEF n
  <1>2. OwesNoMore(mkt1[a], r)
    BY DEF OwesNoMore
  <1>3. \A b \in Assets : OwesNoMore(mkt1[b], n[b])
    <2>1. TAKE b \in Assets
    <2>2. CASE b = a
      BY <1>1, <1>2, <2>2
    <2>3. CASE b # a
      BY <1>1, <2>3
    <2> QED BY <2>2, <2>3
  <1> QED BY <1>3 DEF n

\* The debt side of LendingPool.liquidationCall, before the collateral moves.
LEMMA LiquidatedDebt ==
    ASSUME IInv, NEW l \in Users, NEW c \in Assets, NEW d \in Assets, NEW user \in Users,
           NEW amount \in Nat, NEW receiveLToken,
           liquidationCall(l, c, d, user, amount, receiveLToken)
    PROVE  LET amounts == liquidationAmounts(c, d, user, amount)
               d1 == updateState(market[d], config[d], now)
               d2 == liquidateDebt(d1, user, varBalanceOf(market[d], user, now),
                                   amounts.debt, now)
               d3 == updateInterestRates(d2, config[d], now, amounts.debt, 0)
           IN  /\ amounts.collateral \in Nat /\ amounts.debt \in Nat
               /\ Sound(d3, now) /\ IndexesGrow(market[d], d3) /\ OwesNoMore(market[d], d3)
  <1> DEFINE amounts == liquidationAmounts(c, d, user, amount)
             actual == amounts.debt
             owed == varBalanceOf(market[d], user, now)
             d1 == updateState(market[d], config[d], now)
             d2 == liquidateDebt(d1, user, owed, actual, now)
             d3 == updateInterestRates(d2, config[d], now, actual, 0)
  <1>1. now \in Nat /\ config[d] \in Config /\ Sound(market[d], now)
    BY DEF IInv, TypeOK
  <1>2. /\ canUpdateState(market[d], config[d], now)
        /\ canLiquidateDebt(d1, user, owed, actual, now)
        /\ canUpdateInterestRates(d2, config[d], actual, 0)
    BY DEF liquidationCall
  <1>3. amounts.collateral \in Nat /\ actual \in Nat
    BY <1>2, LiquidationAmountsNat
  <1> HIDE DEF amounts, actual
  <1>4. owed \in Nat
    BY <1>1, NoHiddenDebt
  <1> HIDE DEF owed
  <1>5. UpdateFrame(market[d], d1, now)
    BY <1>1, <1>2, UpdateStateSound
  <1> HIDE DEF d1
  <1>6. DebtFrame(d1, d2, now) /\ OwesNoMore(d1, d2)
    BY <1>1, <1>2, <1>3, <1>4, <1>5, LiquidateDebtSound DEF UpdateFrame
  <1> HIDE DEF d2
  <1>7. ElFrame(d2, d3, now)
    <2>1. Sound(d2, now)
      BY <1>6 DEF DebtFrame
    <2>2. canUpdateInterestRates(d2, config[d], actual, 0) /\ 0 \in Nat
      BY <1>2
    <2> QED BY <1>1, <1>3, <2>1, <2>2, UpdateRatesSound
  <1> HIDE DEF d3
  <1>8. Sound(d3, now) /\ IndexesGrow(market[d], d3)
    BY <1>5, <1>6, <1>7 DEF UpdateFrame, DebtFrame, ElFrame, SameIndexes, IndexesGrow
  <1>9. OwesNoMore(market[d], d3)
    BY <1>5, <1>6, <1>7 DEF UpdateFrame, ElFrame, SameDebt, OwesNoMore
  <1> QED BY <1>3, <1>8, <1>9 DEF d3, d2, d1, owed, actual, amounts

\* LendingPool.liquidationCall, also when both reserves are the same.
LEMMA LiquidationStep ==
    ASSUME IInv, NEW l \in Users, NEW c \in Assets, NEW d \in Assets, NEW user \in Users,
           NEW amount \in Nat, NEW receiveLToken,
           liquidationCall(l, c, d, user, amount, receiveLToken)
    PROVE  Preserved
  <1> DEFINE amounts == liquidationAmounts(c, d, user, amount)
             seized == amounts.collateral
             actual == amounts.debt
             owed == varBalanceOf(market[d], user, now)
             d1 == updateState(market[d], config[d], now)
             d2 == liquidateDebt(d1, user, owed, actual, now)
             d3 == updateInterestRates(d2, config[d], now, actual, 0)
             mkt1 == [market EXCEPT ![d] = d3]
             c0 == mkt1[c]
             c1 == updateState(c0, config[c], now)
             c2 == updateInterestRates(c1, config[c], now, 0, seized)
             c3 == IF receiveLToken THEN elTransfer(c0, user, l, seized, now)
                                    ELSE elBurn(c2, user, seized)
             mkt2 == [mkt1 EXCEPT ![c] = c3]
             paid == [mkt2[d] EXCEPT !.cash = @ + actual]
             received == IF receiveLToken THEN wallet
                         ELSE [wallet EXCEPT ![l][c] = @ + seized]
             raised == setUsingAsCollateral(usersConfig, l, c, TRUE)
  <1>1. /\ now \in Nat /\ config[c] \in Config /\ config[d] \in Config
        /\ \A a \in Assets : Sound(market[a], now)
        /\ market \in [Assets -> Market]
        /\ usersConfig \in [Users -> UserConfig] /\ wallet \in [Users -> [Assets -> Nat]]
    BY DEF IInv, TypeOK
  <1>2. /\ canUpdateState(market[d], config[d], now)
        /\ canLiquidateDebt(d1, user, owed, actual, now)
        /\ canUpdateInterestRates(d2, config[d], actual, 0)
        /\ receiveLToken => canTransferEl(c0, user, seized, now)
        /\ ~receiveLToken => /\ canUpdateState(c0, config[c], now)
                             /\ canUpdateInterestRates(c1, config[c], 0, seized)
                             /\ canBurnEl(c1, user, seized)
        /\ received[l][d] >= actual
        /\ market' = [mkt2 EXCEPT ![d].cash = @ + actual]
        /\ wallet' = [received EXCEPT ![l][d] = @ - actual]
        /\ usersConfig' \in {usersConfig, raised,
                             setUsingAsCollateral(usersConfig, user, c, FALSE),
                             setUsingAsCollateral(raised, user, c, FALSE)}
        /\ UNCHANGED <<now, paused, price, config, borrowAllowance>>
    BY DEF liquidationCall
  <1>3. seized \in Nat /\ actual \in Nat
    BY LiquidatedDebt
  \* the debt reserve
  <1>4. Sound(d3, now) /\ IndexesGrow(market[d], d3) /\ OwesNoMore(market[d], d3)
    BY LiquidatedDebt
  <1> HIDE DEF amounts, seized, actual, owed, d1, d2, d3
  <1>5. MarketsGo(market, mkt1, now)
    BY <1>4, ChangeOne
  <1>6. \A b \in Assets : OwesNoMore(market[b], market[b])
    BY DEF OwesNoMore
  <1>7. \A b \in Assets : OwesNoMore(market[b], mkt1[b])
    BY <1>1, <1>4, <1>6, OwesReplace
  <1> HIDE DEF mkt1
  \* the collateral reserve
  <1>8. Sound(c0, now) /\ mkt1 \in [Assets -> Market]
    BY <1>5 DEF MarketsGo
  <1>9. Sound(c3, now) /\ IndexesGrow(c0, c3) /\ OwesNoMore(c0, c3)
    <2>1. CASE receiveLToken
      <3>1. ElFrame(c0, c3, now)
        BY <1>1, <1>2, <1>3, <1>8, <2>1, ElTransferSound
      <3> HIDE DEF c3
      <3>2. IndexesGrow(c0, c3)
        BY <1>8, <3>1, SameGrow DEF ElFrame, Sound
      <3> QED BY <3>1, <3>2, SameOwes DEF ElFrame
    <2>2. CASE ~receiveLToken
      <3>1. UpdateFrame(c0, c1, now)
        BY <1>1, <1>2, <1>8, <2>2, UpdateStateSound
      <3>2. canUpdateInterestRates(c1, config[c], 0, seized) /\ canBurnEl(c1, user, seized)
        BY <1>2, <2>2
      <3> HIDE DEF c0, c1
      <3>3. /\ ElFrame(c1, c2, now)
            /\ c2.cash = c1.cash /\ c2.el = c1.el /\ c2.elSupply = c1.elSupply
        <4>1. Sound(c1, now) /\ 0 \in Nat
          BY <3>1 DEF UpdateFrame
        <4> QED BY <1>1, <1>3, <3>2, <4>1, UpdateRatesSound
      <3> HIDE DEF c2
      <3>4. canBurnEl(c2, user, seized) /\ Sound(c2, now)
        BY <3>2, <3>3 DEF canBurnEl, ElFrame, SameIndexes
      <3>5. c3 = elBurn(c2, user, seized)
        BY <2>2
      <3>6. ElFrame(c2, c3, now)
        BY <1>1, <1>3, <3>4, <3>5, ElBurnSound
      <3> HIDE DEF c3
      <3>7. Sound(c3, now) /\ IndexesGrow(c0, c3) /\ SameDebt(c0, c3)
        BY <3>1, <3>3, <3>6 DEF UpdateFrame, ElFrame, SameDebt, SameIndexes, IndexesGrow
      <3> QED BY <3>7, SameOwes
    <2> QED BY <2>1, <2>2
  <1> HIDE DEF c3
  <1>10. MarketsGo(market, mkt2, now)
    BY <1>1, <1>5, <1>9, OneMarket
  <1>11. \A b \in Assets : OwesNoMore(market[b], mkt2[b])
    BY <1>1, <1>7, <1>8, <1>9, OwesReplace
  <1> HIDE DEF mkt2
  \* the payment
  <1>12. Sound(mkt2[d], now) /\ mkt2 \in [Assets -> Market]
    BY <1>10 DEF MarketsGo
  <1>13. ElFrame(mkt2[d], paid, now)
    <2>1. mkt2[d].cash + actual \in Nat
      BY <1>3, <1>12 DEF Market
    <2> QED BY <1>1, <1>12, <2>1, CashChange
  <1>14. market' = [mkt2 EXCEPT ![d] = paid]
    BY <1>2
  <1> HIDE DEF paid
  <1>15. Sound(paid, now) /\ IndexesGrow(mkt2[d], paid) /\ OwesNoMore(mkt2[d], paid)
    BY <1>12, <1>13, SameGrow, SameOwes DEF ElFrame
  <1>16. MarketsGo(market, market', now)
    BY <1>1, <1>10, <1>14, <1>15, OneMarket
  <1>17. \A b \in Assets : OwesNoMore(market[b], market'[b])
    BY <1>1, <1>11, <1>12, <1>14, <1>15, OwesReplace
  \* flags and wallets
  <1>18. usersConfig' \in [Users -> UserConfig] /\ FlagsOnlyRise
    <2>1. /\ raised \in [Users -> UserConfig]
          /\ \A v \in Users : raised[v].borrowing = usersConfig[v].borrowing
      BY <1>1, CollateralFlag
    <2> HIDE DEF raised
    <2>2. /\ setUsingAsCollateral(usersConfig, user, c, FALSE) \in [Users -> UserConfig]
          /\ \A v \in Users : setUsingAsCollateral(usersConfig, user, c, FALSE)[v].borrowing
                                = usersConfig[v].borrowing
      BY <1>1, CollateralFlag
    <2>3. /\ setUsingAsCollateral(raised, user, c, FALSE) \in [Users -> UserConfig]
          /\ \A v \in Users : setUsingAsCollateral(raised, user, c, FALSE)[v].borrowing
                                = raised[v].borrowing
      BY <2>1, CollateralFlag
    <2> QED BY <1>1, <1>2, <2>1, <2>2, <2>3 DEF FlagsOnlyRise
  <1>19. wallet' \in [Users -> [Assets -> Nat]]
    <2>1. received \in [Users -> [Assets -> Nat]]
      BY <1>1, <1>3, WalletChange
    <2> HIDE DEF received
    <2> QED BY <1>2, <1>3, <2>1, WalletChange
  <1>20. DebtIsFlagged'
    BY <1>17, <1>18, FlagsKept
  <1> QED BY <1>1, <1>2, <1>16, <1>18, <1>19, <1>20, Preserving DEF IInv, TypeOK

-------------------------------------------------------------------------------
(***************************************************************************)
(* The invariant, and what follows from it.                                *)
(***************************************************************************)

\* A pool that was just deployed.
LEMMA InitIInv == Init => IInv
  <1> SUFFICES ASSUME Init PROVE IInv
    OBVIOUS
  <1>1. now \in Nat /\ now = 1
    BY DEF Init
  <1>2. Sound(InitMarket, now)
    BY <1>1, InitMarketSound
  <1>3. \A a \in Assets : market[a] = InitMarket
    BY DEF Init
  <1>4. market \in [Assets -> Market]
    <2>1. InitMarket \in Market
      BY <1>2 DEF Sound
    <2> QED BY <2>1 DEF Init
  <1>5. usersConfig \in [Users -> UserConfig]
    BY DEF Init, UserConfig
  <1>6. borrowAllowance \in [Modes -> [Assets -> [Users -> [Users -> Nat]]]]
    BY DEF Init
  <1>7. TypeOK
    BY <1>1, <1>4, <1>5, <1>6, InitialAssumption DEF TypeOK, Init
  <1>8. DebtIsFlagged
    <2>1. \A u \in Users : InitMarket.varDebt[u] = 0 /\ InitMarket.stDebt[u] = 0
      BY DEF InitMarket
    <2> QED BY <1>3, <2>1 DEF DebtIsFlagged
  <1> QED BY <1>2, <1>3, <1>7, <1>8 DEF IInv

\* Every step keeps the invariant and lowers no index.
LEMMA NextPreserves == IInv /\ [Next]_vars => Preserved
  <1> SUFFICES ASSUME IInv, [Next]_vars PROVE Preserved
    OBVIOUS
  <1> USE BoundsAssumption
  <1>0. Amounts \subseteq Nat /\ BorrowModes \subseteq Modes
    BY DEF Modes
  <1>c. ASSUME NEW op \in Operations, NEW x \in Calls[op]
        PROVE  x[1] \in Users /\ x[2] \in Users /\ x[3] \in Assets
    OBVIOUS
  <1>1. CASE Deposits(Users)
    <2>1. PICK x \in Calls["deposit"], n \in Amounts : deposit(x[1], x[3], n, x[2])
      BY <1>1 DEF Deposits, CallsOf
    <2>2. x[1] \in Users /\ x[2] \in Users /\ x[3] \in Assets
      BY <1>c DEF Operations
    <2> QED BY <1>0, <2>1, <2>2, DepositStep
  <1>2. CASE Withdrawals(Users)
    <2>1. PICK x \in Calls["withdraw"], n \in Amounts : withdraw(x[1], x[3], n, x[2])
      BY <1>2 DEF Withdrawals, CallsOf
    <2>2. x[1] \in Users /\ x[2] \in Users /\ x[3] \in Assets
      BY <1>c DEF Operations
    <2> QED BY <1>0, <2>1, <2>2, WithdrawStep
  <1>3. CASE Transfers(Users)
    <2>1. PICK x \in Calls["transfer"], n \in Amounts : transfer(x[1], x[2], x[3], n)
      BY <1>3 DEF Transfers, CallsOf
    <2>2. x[1] \in Users /\ x[2] \in Users /\ x[3] \in Assets
      BY <1>c DEF Operations
    <2> QED BY <1>0, <2>1, <2>2, TransferStep
  <1>4. CASE Borrowings(Users)
    <2>1. PICK x \in Calls["borrow"], n \in Amounts, mode \in BorrowModes :
            borrow(x[1], x[3], n, mode, x[2])
      BY <1>4 DEF Borrowings, CallsOf
    <2>2. x[1] \in Users /\ x[2] \in Users /\ x[3] \in Assets
      BY <1>c DEF Operations
    <2> QED BY <1>0, <2>1, <2>2, BorrowStep
  <1>5. CASE Repayments(Users)
    <2>1. PICK x \in Calls["repay"], n \in Amounts, mode \in BorrowModes :
            repay(x[1], x[3], n, mode, x[2])
      BY <1>5 DEF Repayments, CallsOf
    <2>2. x[1] \in Users /\ x[2] \in Users /\ x[3] \in Assets
      BY <1>c DEF Operations
    <2> QED BY <1>0, <2>1, <2>2, RepayStep
  <1>6. CASE Swaps(Users)
    <2>1. PICK x \in Calls["swap"], mode \in BorrowModes : swapBorrowRateMode(x[1], x[3], mode)
      BY <1>6 DEF Swaps, CallsOf
    <2>2. x[1] \in Users /\ x[3] \in Assets
      BY <1>c DEF Operations
    <2> QED BY <1>0, <2>1, <2>2, SwapStep
  <1>7. CASE Rebalances(Users)
    <2>1. PICK x \in Calls["rebalance"] : rebalanceStableBorrowRate(x[3], x[2])
      BY <1>7 DEF Rebalances, CallsOf
    <2>2. x[2] \in Users /\ x[3] \in Assets
      BY <1>c DEF Operations
    <2> QED BY <2>1, <2>2, RebalanceStep
  <1>8. CASE CollateralChoices(Users)
    <2>1. PICK x \in Calls["useAsCollateral"], f \in BOOLEAN :
            setUserUseReserveAsCollateral(x[1], x[3], f)
      BY <1>8 DEF CollateralChoices, CallsOf
    <2>2. x[1] \in Users /\ x[3] \in Assets
      BY <1>c DEF Operations
    <2> QED BY <2>1, <2>2, UseAsCollateralStep
  <1>9. CASE Liquidations(Users)
    <2>1. PICK x \in Calls["liquidation"], d \in Assets, n \in Amounts, f \in BOOLEAN :
            liquidationCall(x[1], x[3], d, x[2], n, f)
      BY <1>9 DEF Liquidations, CallsOf
    <2>2. x[1] \in Users /\ x[2] \in Users /\ x[3] \in Assets
      BY <1>c DEF Operations
    <2> QED BY <1>0, <2>1, <2>2, LiquidationStep
  <1>10. CASE Delegatings(Users)
    <2>1. PICK x \in Delegations, n \in Amounts : approveDelegation(x[1], x[2], x[3], x[4], n)
      BY <1>10 DEF Delegatings, CallsOf
    <2>2. x[1] \in Users /\ x[2] \in Users /\ x[3] \in Assets /\ x[4] \in Modes
      BY DEF Modes
    <2> QED BY <1>0, <2>1, <2>2, ApproveDelegationStep
  <1>11. CASE Tick
    BY <1>11, TickStep
  <1>12. CASE Quotes
    <2>1. PICK a \in Assets : \E p \in Prices[a] : SetPrice(a, p)
      BY <1>12 DEF Quotes
    <2>2. PICK p \in Prices[a] : SetPrice(a, p)
      BY <2>1
    <2>3. p \in Nat \ {0}
      OBVIOUS
    <2> QED BY <2>2, <2>3, SetPriceStep
  <1>13. CASE UNCHANGED vars
    <2>1. UNCHANGED <<now, paused, price, config, market, usersConfig, wallet, borrowAllowance>>
      BY <1>13 DEF vars
    <2>2. IInv'
      BY <2>1 DEF IInv, TypeOK, DebtIsFlagged
    <2>3. IndexesStep
      BY <2>1, MarketsStart DEF IndexesStep, MarketsGo
    <2> QED BY <2>2, <2>3 DEF Preserved
  <1> QED BY <1>1, <1>2, <1>3, <1>4, <1>5, <1>6, <1>7, <1>8, <1>9, <1>10, <1>11,
             <1>12, <1>13 DEF Next, UserCalls

\* The inductive invariant holds in every reachable state.
THEOREM Invariant == Spec => []IInv
  <1>1. IInv /\ [Next]_vars => IInv'
    BY NextPreserves DEF Preserved
  <1> QED BY InitIInv, <1>1, PTL DEF Spec

\* Type correctness: no call of any history takes a balance, supply, index,
\* rate, wallet or allowance below zero.
THEOREM TypeCorrect == Spec => []TypeOK
  <1>1. IInv => TypeOK
    BY DEF IInv
  <1> QED BY Invariant, <1>1, PTL

\* Whoever owes anything is flagged as a borrower of that reserve, so that the
\* health factor and the liquidation engine see the debt.
THEOREM EveryDebtIsFlagged == Spec => []DebtIsFlagged
  <1>1. IInv => DebtIsFlagged
    BY DEF IInv
  <1> QED BY Invariant, <1>1, PTL

\* The supply of elTokens and of variable debt tokens is the sum of the balances
\* after any history of mints, burns, transfers, treasury mints and liquidations,
\* however many users there are.
THEOREM SuppliesStaySums == Spec => []SuppliesAreSums
  <1>1. IInv => SuppliesAreSums
    BY DEF IInv, Sound, SuppliesSummed, SuppliesAreSums
  <1> QED BY Invariant, <1>1, PTL

\* The subtractions of updateState never revert: no history of calls bricks a
\* reserve.
THEOREM UpdateNeverReverts == Spec => []AccrualNeverReverts
  <1>1. IInv => AccrualNeverReverts
    <2> SUFFICES ASSUME IInv, NEW a \in Assets
                 PROVE  /\ ClocksOrdered(market[a], now)
                        /\ totalDebtAccrued(market[a],
                             updateIndexes(market[a], now).variableBorrowIndex, now) >= 0
      BY DEF AccrualNeverReverts
    <2>1. Sound(market[a], now) /\ now \in Nat
      BY DEF IInv, TypeOK
    <2> QED BY <2>1, AccruedNat DEF Sound
  <1> QED BY Invariant, <1>1, PTL

\* Interest is never taken back: no step of the pool lowers an index or turns a
\* reserve's clock back.
THEOREM IndexesOnlyRise == Spec => IndexesNeverFall
  <1> DEFINE Rise == \A a \in Assets :
                       /\ market'[a].liquidityIndex >= market[a].liquidityIndex
                       /\ market'[a].variableBorrowIndex >= market[a].variableBorrowIndex
                       /\ market'[a].lastUpdateTimestamp >= market[a].lastUpdateTimestamp
  <1>1. IInv /\ [Next]_vars => [Rise]_vars
    BY NextPreserves DEF Preserved, IndexesStep, IndexesGrow
  <1>2. IndexesNeverFall <=> [][Rise]_vars
    BY DEF IndexesNeverFall
  <1> HIDE DEF Rise
  <1> QED BY Invariant, <1>1, <1>2, PTL DEF Spec

-------------------------------------------------------------------------------
(***************************************************************************)
(* The largest unsigned integer as an amount.                              *)
(***************************************************************************)
\* balanceOf answers in a uint256: what is owed fits one.  (A debt beyond it would
\* make every read of it revert.)
DebtsFitUint256 ==
    \A u \in Users, a \in Assets, mode \in Modes :
        debtOfMode(market[a], u, mode, now) <= UINT256_MAX

\* Burning exactly what the view reports as owed leaves nothing, though the burn
\* takes place after the interest is settled and at the new index.
LEMMA BurnWhatIsOwed ==
    ASSUME NEW t \in Nat, NEW m, NEW m1, Sound(m, t), UpdateFrame(m, m1, t),
           NEW u \in Users, NEW mode \in Modes,
           NEW d, d = debtOfMode(m, u, mode, t), canBurnDebt(m1, u, d, mode, t)
    PROVE  LET m2 == burnDebt(m1, u, d, mode, t)
           IN  IF mode = "STABLE" THEN m2.stDebt[u] = 0 ELSE m2.varDebt[u] = 0
  <1> DEFINE m2 == burnDebt(m1, u, d, mode, t)
  <1>1. Sound(m1, t) /\ m1.lastUpdateTimestamp = t /\ SameDebt(m, m1) /\ d \in Nat
    BY DebtOfModeNat DEF UpdateFrame
  <1>2. CASE mode = "STABLE"
    <2>1. d = stBalanceOf(m1, u, t)
      BY <1>1, <1>2 DEF debtOfMode, SameDebt, stBalanceOf
    <2>2. m2 = stBurn(m1, u, d, t) /\ canBurnSt(m1, u, d, t)
      BY <1>2 DEF burnDebt, canBurnDebt
    <2> HIDE DEF m2
    <2>3. m2.stDebt[u] = d - d
      BY <1>1, <2>1, <2>2, StBurnSound
    <2> QED BY <1>1, <1>2, <2>3 DEF m2
  <1>3. CASE mode = "VARIABLE"
    <2>1. d = varBalanceOf(m, u, t)
      BY <1>3 DEF debtOfMode
    <2>2. m2 = varBurn(m1, u, d) /\ canBurnVar(m1, u, d)
      BY <1>3 DEF burnDebt, canBurnDebt
    <2> HIDE DEF m2
    <2>3. m2.varDebt[u] = 0
      BY <2>1, <2>2, BurnAllVar
    <2> QED BY <1>3, <2>3 DEF m2
  <1> QED BY <1>2, <1>3 DEF Modes

\* LendingPool.repay with type(uint256).max
LEMMA RepayAllStep ==
    ASSUME IInv, NEW u \in Users, NEW a \in Assets, NEW mode \in Modes,
           debtOfMode(market[a], u, mode, now) <= UINT256_MAX,
           repay(u, a, UINT256_MAX, mode, u)
    PROVE  debtOfMode(market'[a], u, mode, now') = 0
  <1> DEFINE m  == market[a]
             d  == debtOfMode(m, u, mode, now)
             n  == paybackAmount(u, a, UINT256_MAX, mode)
             m1 == updateState(m, config[a], now)
             m2 == burnDebt(m1, u, n, mode, now)
             m3 == updateInterestRates(m2, config[a], now, n, 0)
             m4 == [m3 EXCEPT !.cash = @ + n]
  <1>1. /\ now \in Nat /\ Sound(m, now) /\ config[a] \in Config /\ UINT256_MAX \in Nat
        /\ market \in [Assets -> Market]
    BY BoundsAssumption DEF IInv, TypeOK
  <1>2. /\ canUpdateState(m, config[a], now)
        /\ canBurnDebt(m1, u, n, mode, now)
        /\ canUpdateInterestRates(m2, config[a], n, 0)
        /\ market' = [market EXCEPT ![a] = m4]
        /\ now' = now
    BY DEF repay, canRepay, repaid
  <1>3. d \in Nat
    BY <1>1, DebtOfModeNat
  <1>4. n = d
    BY <1>1, <1>3 DEF paybackAmount
  <1>5. UpdateFrame(m, m1, now)
    BY <1>1, <1>2, UpdateStateSound
  <1> HIDE DEF n, m1
  <1>6. IF mode = "STABLE" THEN m2.stDebt[u] = 0 ELSE m2.varDebt[u] = 0
    BY <1>1, <1>2, <1>4, <1>5, BurnWhatIsOwed
  <1>7. Sound(m2, now)
    BY <1>1, <1>2, <1>3, <1>4, <1>5, BurnDebtSound DEF UpdateFrame, DebtFrame
  <1> HIDE DEF m2
  <1>8. ElFrame(m2, m3, now)
    BY <1>1, <1>2, <1>3, <1>4, <1>7, UpdateRatesSound
  <1> HIDE DEF m3
  <1>9. m3.cash + n \in Nat
    BY <1>3, <1>4, <1>8 DEF ElFrame, Sound, Market
  <1>10. ElFrame(m3, m4, now)
    BY <1>1, <1>8, <1>9, CashChange DEF ElFrame
  <1> HIDE DEF m4, d
  <1>11. Sound(m4, now) /\ m4.stDebt = m2.stDebt /\ m4.varDebt = m2.varDebt
    BY <1>8, <1>10 DEF ElFrame, SameDebt
  <1>12. market'[a] = m4
    BY <1>1, <1>2
  <1>13. CASE mode = "STABLE"
    BY <1>2, <1>6, <1>11, <1>12, <1>13 DEF debtOfMode, stBalanceOf
  <1>14. CASE mode = "VARIABLE"
    <2>1. varBalanceOf(m4, u, now) = 0
      BY <1>1, <1>6, <1>11, <1>14, NothingBorrowed
    <2> QED BY <1>2, <1>12, <1>14, <2>1 DEF debtOfMode
  <1> QED BY <1>13, <1>14 DEF Modes

\* A step that repays everything of a kind of debt leaves none of it.
AllRepaid ==
    \A u \in Users, a \in Assets, mode \in Modes :
       repay(u, a, UINT256_MAX, mode, u) => debtOfMode(market'[a], u, mode, now') = 0

LEMMA AllRepaidStep == IInv /\ DebtsFitUint256 => AllRepaid
  BY RepayAllStep DEF DebtsFitUint256, AllRepaid

LEMMA AllRepaidSteps == RepayAllClears <=> [][AllRepaid]_vars
  BY DEF RepayAllClears, AllRepaid

\* "Send the value type(uint256).max in order to repay the whole debt": whatever the
\* index, the rate and the time since the last update, such a repayment leaves
\* nothing of that kind of debt.
THEOREM RepayingAllClears == Spec /\ []DebtsFitUint256 => RepayAllClears
  <1>1. IInv /\ DebtsFitUint256 => [AllRepaid]_vars
    BY AllRepaidStep
  <1> QED BY Invariant, <1>1, AllRepaidSteps, PTL

-------------------------------------------------------------------------------
(***************************************************************************)
(* A rebalancing moves no debt.  The stable part is given back to the last *)
(* unit; the variable part is the one shown before, provided the reserve   *)
(* charges only what it earns (ReserveLogicProofs): updateState leaves the *)
(* variable index alone when the liquidity rate is zero, whatever the view *)
(* compounds meanwhile, as with a reserve factor of 100 %.                 *)
(***************************************************************************)
EarnsWhatItCharges == \A a \in Assets : ChargesWhatItEarns(market[a], now)

\* A reserve updated now shows the debt it stores.
LEMMA FreshView ==
    ASSUME NEW m, NEW r, NEW u \in Users, m.lastUpdateTimestamp = now,
           SameIndexes(m, r), r.varDebt = m.varDebt
    PROVE  varBalanceOf(r, u, now) = varBalanceOf(m, u, now)
  BY DEF SameIndexes, varBalanceOf, getNormalizedDebt

\* LendingPool.rebalanceStableBorrowRate, as the revisions 3 and 4 give back the debt.
LEMMA RebalanceKeeps ==
    ASSUME IInv, REVISION # 2, NEW a \in Assets, NEW u \in Users,
           rebalanceStableBorrowRate(a, u)
    PROVE  /\ stBalanceOf(market'[a], u, now) = stBalanceOf(market[a], u, now)
           /\ ChargesWhatItEarns(market[a], now)
                => varBalanceOf(market'[a], u, now) = varBalanceOf(market[a], u, now)
  <1> DEFINE m  == market[a]
             n  == stBalanceOf(m, u, now)
             m1 == updateState(m, config[a], now)
             m2 == stBurn(m1, u, n, now)
             m3 == stMint(m2, u, n, m2.currentStableBorrowRate, now)
             m4 == updateInterestRates(m3, config[a], now, 0, 0)
  <1>1. /\ now \in Nat /\ Sound(m, now) /\ config[a] \in Config
        /\ market \in [Assets -> Market]
    BY DEF IInv, TypeOK
  <1>2. /\ canUpdateState(m, config[a], now)
        /\ canBurnSt(m1, u, n, now)
        /\ canMintSt(m2, u, n, now)
        /\ canUpdateInterestRates(m3, config[a], 0, 0)
        /\ market' = [market EXCEPT ![a] = m4]
    BY REVISION # 2 DEF rebalanceStableBorrowRate, rebalanced, canRebalance
  <1>3. n \in Nat
    BY <1>1, StBalanceNat
  <1>4. UpdateFrame(m, m1, now)
    BY <1>1, <1>2, UpdateStateSound
  <1>5. ChargesWhatItEarns(m, now) => varBalanceOf(m1, u, now) = varBalanceOf(m, u, now)
    BY <1>1, <1>2, ShownDebtIsStored
  <1>6. stBalanceOf(m1, u, now) = n
    <2> HIDE DEF m1
    <2> QED BY <1>4 DEF UpdateFrame, SameDebt, stBalanceOf
  <1> HIDE DEF m1, n
  <1>7. Sound(m1, now) /\ m1.lastUpdateTimestamp = now
    BY <1>4 DEF UpdateFrame
  <1>8. StFrame(m1, m2, now) /\ m2.stDebt[u] = 0
    <2>1. n - n = 0
      BY <1>3
    <2> QED BY <1>1, <1>2, <1>3, <1>6, <1>7, <2>1, StBurnSound
  <1> HIDE DEF m2
  <1>9. /\ Sound(m2, now) /\ m2.lastUpdateTimestamp = now
        /\ m2 \in Market /\ m2.currentStableBorrowRate \in Nat
    BY <1>7, <1>8 DEF StFrame, SameIndexes, Sound, Market
  <1>10. StFrame(m2, m3, now)
    BY <1>1, <1>2, <1>3, <1>9, StMintSound
  <1>11. m3.stDebt[u] = n /\ m3.stTime[u] = now /\ m3.stRate[u] \in Nat
    <2>1. stBalanceOf(m2, u, now) = 0
      BY <1>8 DEF stBalanceOf
    <2>2. m3.stDebt[u] = stBalanceOf(m2, u, now) + n /\ m3.stTime[u] = now
      BY <1>9 DEF stMint, Market
    <2>3. m3 \in Market
      BY <1>10 DEF StFrame, Sound
    <2> HIDE DEF m3
    <2> QED BY <1>3, <2>1, <2>2, <2>3 DEF Market
  <1> HIDE DEF m3
  <1>12. Sound(m3, now) /\ m3.lastUpdateTimestamp = now
    BY <1>9, <1>10 DEF StFrame, SameIndexes
  <1>13. ElFrame(m3, m4, now)
    BY <1>1, <1>2, <1>12, UpdateRatesSound
  <1> HIDE DEF m4
  <1>14. market'[a] = m4
    BY <1>1, <1>2
  <1>15. stBalanceOf(m4, u, now) = n
    <2> DEFINE rate == m3.stRate[u]
               comp == calculateCompoundedInterest(rate, now, now)
    <2>1. m4.stDebt[u] = n /\ m4.stTime[u] = now /\ m4.stRate[u] = rate
      BY <1>11, <1>13 DEF ElFrame, SameDebt
    <2>2. comp = RAY
      <3>1. now - now = 0
        BY <1>1
      <3> QED BY <3>1 DEF calculateCompoundedInterest
    <2> HIDE DEF comp
    <2>3. rayMul(n, comp) = n
      BY <1>3, <2>2, RayMulOne
    <2> QED BY <2>1, <2>3 DEF stBalanceOf, comp
  <1>16. varBalanceOf(m4, u, now) = varBalanceOf(m1, u, now)
    <2>1. varBalanceOf(m2, u, now) = varBalanceOf(m1, u, now)
      BY <1>7, <1>8, FreshView DEF StFrame
    <2>2. varBalanceOf(m3, u, now) = varBalanceOf(m2, u, now)
      BY <1>9, <1>10, FreshView DEF StFrame
    <2>3. varBalanceOf(m4, u, now) = varBalanceOf(m3, u, now)
      BY <1>12, <1>13, FreshView DEF ElFrame, SameDebt
    <2> QED BY <2>1, <2>2, <2>3
  <1> QED BY <1>5, <1>14, <1>15, <1>16 DEF n

\* A step that rebalances a loan leaves both debts as they were.
RebalancedOnly ==
    \A u \in Users, a \in Assets :
       rebalanceStableBorrowRate(a, u) =>
         /\ stBalanceOf(market'[a], u, now) = stBalanceOf(market[a], u, now)
         /\ varBalanceOf(market'[a], u, now) = varBalanceOf(market[a], u, now)

LEMMA RebalancedStep ==
    ASSUME REVISION # 2
    PROVE  IInv /\ EarnsWhatItCharges => RebalancedOnly
  BY REVISION # 2, RebalanceKeeps DEF EarnsWhatItCharges, RebalancedOnly

LEMMA RebalancedSteps == RebalanceKeepsDebt <=> [][RebalancedOnly]_vars
  BY DEF RebalanceKeepsDebt, RebalancedOnly

\* In the pool of the revisions 3 and 4, a rebalancing gives the user the current
\* stable rate on the same debt: none of it is lost, and none of it moves to the
\* variable rate.  Revision 2 gives the debt back as variable debt.
THEOREM RebalancingKeepsDebt ==
    ASSUME REVISION # 2
    PROVE  Spec /\ []EarnsWhatItCharges => RebalanceKeepsDebt
  <1>1. IInv /\ EarnsWhatItCharges => [RebalancedOnly]_vars
    BY REVISION # 2, RebalancedStep
  <1> QED BY Invariant, <1>1, RebalancedSteps, PTL

-------------------------------------------------------------------------------
(***************************************************************************)
(* Who may take elTokens away from whom.                                   *)
(***************************************************************************)
\* Only these users lose elTokens, in these reserves.
LosesOnly(S) ==
    \A w \in Users, b \in Assets : market'[b].el[w] < market[b].el[w] => <<w, b>> \in S

\* Only these users' elTokens move at all.
MovesOnly(S) == \A w \in Users \ S, b \in Assets : market'[b].el[w] = market[b].el[w]

\* A call that changes one reserve and touches the balances of the users outside S
\* takes elTokens from users in S only.
LEMMA OneReserveLoses ==
    ASSUME IInv, NEW a \in Assets, NEW r, market' = [market EXCEPT ![a] = r],
           NEW S, Untouched(market[a], r, Users \ S)
    PROVE  \A w \in Users, b \in Assets :
              market'[b].el[w] # market[b].el[w] => w \in S /\ b = a
  <1>1. market'[a] = r /\ \A b \in Assets \ {a} : market'[b] = market[b]
    BY MarketsStart
  <1> QED BY <1>1 DEF Untouched

\* The balances of a typed pool are numbers.
LEMMA BalancesNat ==
    ASSUME IInv
    PROVE  \A w \in Users, b \in Assets : market[b].el[w] \in Nat
  BY DEF IInv, TypeOK, Market, Accounts

LEMMA BalancesPrimed ==
    ASSUME IInv'
    PROVE  \A w \in Users, b \in Assets : market'[b].el[w] \in Nat
  BY DEF IInv, TypeOK, Market, Accounts

\* Settling the interest, changing a debt token, setting the rates and moving cash:
\* what every call does to a reserve besides elTokens.
LEMMA DebtCallUntouched ==
    ASSUME IInv, NEW a \in Assets, NEW m2, NEW x, NEW y, NEW z,
           Untouched(updateState(market[a], config[a], now), m2, Users)
    PROVE  /\ Untouched(market[a], updateInterestRates(m2, config[a], now, x, y), Users)
           /\ Untouched(market[a], [updateInterestRates(m2, config[a], now, x, y)
                                      EXCEPT !.cash = z], Users)
  <1> DEFINE m1 == updateState(market[a], config[a], now)
             m3 == updateInterestRates(m2, config[a], now, x, y)
  <1>1. HasBalances(market[a])
    BY MarketsStart, MarketHasBalances
  <1>2. Untouched(market[a], m1, Users)
    BY <1>1, UpdateStateUntouched
  <1> HIDE DEF m1
  <1>3. Untouched(market[a], m2, Users)
    BY <1>2 DEF Untouched, m1
  <1>4. Untouched(m2, m3, Users)
    BY <1>3, RatesUntouched DEF Untouched
  <1> HIDE DEF m3
  <1>5. Untouched(market[a], m3, Users)
    BY <1>3, <1>4 DEF Untouched
  <1>6. Untouched(m3, [m3 EXCEPT !.cash = z], Users)
    BY <1>4, CashUntouched DEF Untouched
  <1> QED BY <1>5, <1>6 DEF Untouched, m3

\* Either debt token, minted or burnt, and a liquidation's burns.
LEMMA DebtUntouched ==
    ASSUME NEW m, HasBalances(m), NEW u, NEW amount, NEW mode, NEW t, NEW owed, NEW x
    PROVE  /\ Untouched(m, mintDebt(m, u, amount, mode, t), Users)
           /\ Untouched(m, burnDebt(m, u, amount, mode, t), Users)
           /\ Untouched(m, liquidateDebt(m, u, owed, amount, t), Users)
           /\ Untouched(m, rebalanced(m, u, amount, t), Users)
  <1>1. /\ Untouched(m, mintDebt(m, u, amount, mode, t), Users)
        /\ Untouched(m, burnDebt(m, u, amount, mode, t), Users)
        /\ Untouched(m, rebalanced(m, u, amount, t), Users)
    BY DebtTokensUntouched DEF mintDebt, burnDebt, rebalanced
  <1>2. Untouched(m, liquidateDebt(m, u, owed, amount, t), Users)
    <2> DEFINE b == IF owed > 0 THEN varBurn(m, u, owed) ELSE m
    <2>1. Untouched(m, b, Users)
      BY DebtTokensUntouched, UntouchedSame
    <2> HIDE DEF b
    <2>2. Untouched(b, stBurn(b, u, amount - owed, t), Users)
      <3>1. HasBalances(b)
        BY <2>1, UntouchedHas
      <3> QED BY <3>1, DebtTokensUntouched
    <2>3. liquidateDebt(m, u, owed, amount, t)
            \in {varBurn(m, u, amount), stBurn(b, u, amount - owed, t)}
      BY DEF liquidateDebt, b
    <2>4. Untouched(m, stBurn(b, u, amount - owed, t), Users)
      BY <2>1, <2>2, UntouchedTrans
    <2> QED BY <2>3, <2>4, DebtTokensUntouched
  <1> QED BY <1>1, <1>2

\* LendingPool.borrow, repay, swapBorrowRateMode and rebalanceStableBorrowRate take no
\* elToken from anybody.
LEMMA DebtCallsTakeNothing ==
    ASSUME IInv, NEW u, NEW a \in Assets, NEW amount, NEW mode, NEW v,
           \/ borrow(u, a, amount, mode, v) \/ repay(u, a, amount, mode, v)
           \/ swapBorrowRateMode(u, a, mode) \/ rebalanceStableBorrowRate(a, v)
    PROVE  LosesOnly({}) /\ MovesOnly({})
  <1> DEFINE m  == market[a]
             m1 == updateState(m, config[a], now)
  <1>1. HasBalances(m1)
    BY MarketsStart, MarketHasBalances, UpdateStateUntouched DEF Untouched
  <1>2. \E r : market' = [market EXCEPT ![a] = r] /\ Untouched(m, r, Users)
    <2>1. CASE borrow(u, a, amount, mode, v)
      <3> DEFINE m2 == mintDebt(m1, v, amount, mode, now)
                 m3 == updateInterestRates(m2, config[a], now, 0, amount)
      <3>1. market' = [market EXCEPT ![a] = [m3 EXCEPT !.cash = m3.cash - amount]]
        BY <2>1 DEF borrow
      <3>2. Untouched(m1, m2, Users)
        BY <1>1, DebtUntouched
      <3> QED BY <3>1, <3>2, DebtCallUntouched
    <2>2. CASE repay(u, a, amount, mode, v)
      <3> DEFINE n  == paybackAmount(v, a, amount, mode)
                 m2 == burnDebt(m1, v, n, mode, now)
                 m3 == updateInterestRates(m2, config[a], now, n, 0)
      <3>1. market' = [market EXCEPT ![a] = [m3 EXCEPT !.cash = m3.cash + n]]
        BY <2>2 DEF repay, repaid
      <3>2. Untouched(m1, m2, Users)
        BY <1>1, DebtUntouched
      <3> QED BY <3>1, <3>2, DebtCallUntouched
    <2>3. CASE swapBorrowRateMode(u, a, mode)
      <3> DEFINE n  == debtOfMode(m, u, mode, now)
                 m2 == burnDebt(m1, u, n, mode, now)
                 m3 == mintDebt(m2, u, n, otherMode(mode), now)
      <3>1. market' = [market EXCEPT ![a] = updateInterestRates(m3, config[a], now, 0, 0)]
        BY <2>3 DEF swapBorrowRateMode
      <3>2. Untouched(m1, m2, Users)
        BY <1>1, DebtUntouched
      <3> HIDE DEF m2
      <3>3. Untouched(m2, m3, Users)
        <4>1. HasBalances(m2)
          BY <3>2, UntouchedHas
        <4> QED BY <4>1, DebtUntouched
      <3> HIDE DEF m1, m3
      <3>4. Untouched(m1, m3, Users)
        BY <3>2, <3>3, UntouchedTrans
      <3> QED BY <3>1, <3>4, DebtCallUntouched DEF m1
    <2>4. CASE rebalanceStableBorrowRate(a, v)
      <3> DEFINE n  == stBalanceOf(m, v, now)
                 m2 == stBurn(m1, v, n, now)
                 m3 == rebalanced(m2, v, n, now)
      <3>1. market' = [market EXCEPT ![a] = updateInterestRates(m3, config[a], now, 0, 0)]
        BY <2>4 DEF rebalanceStableBorrowRate
      <3>2. Untouched(m1, m2, Users)
        BY <1>1, DebtTokensUntouched
      <3> HIDE DEF m2
      <3>3. Untouched(m2, m3, Users)
        <4>1. HasBalances(m2)
          BY <3>2, UntouchedHas
        <4> QED BY <4>1, DebtUntouched
      <3> HIDE DEF m1, m3
      <3>4. Untouched(m1, m3, Users)
        BY <3>2, <3>3, UntouchedTrans
      <3> QED BY <3>1, <3>4, DebtCallUntouched DEF m1
    <2> QED BY <2>1, <2>2, <2>3, <2>4
  <1>3. PICK r : market' = [market EXCEPT ![a] = r] /\ Untouched(m, r, Users \ {})
    BY <1>2
  <1>4. \A w \in Users, b \in Assets : market'[b].el[w] = market[b].el[w]
    <2> DEFINE None == {}
    <2>1. market' = [market EXCEPT ![a] = r] /\ Untouched(market[a], r, Users \ None)
      BY <1>3
    <2>2. None = {}
      OBVIOUS
    <2> HIDE DEF None, m
    <2>3. \A w \in Users, b \in Assets :
             market'[b].el[w] # market[b].el[w] => w \in None /\ b = a
      BY <2>1, OneReserveLoses
    <2> QED BY <2>2, <2>3
  <1> QED BY <1>4, BalancesNat DEF LosesOnly, MovesOnly

\* LendingPool.deposit takes no elToken from anybody: it gives some to one user.
LEMMA DepositTakesNothing ==
    ASSUME IInv, NEW u \in Users, NEW a \in Assets, NEW amount \in Nat, NEW v \in Users,
           deposit(u, a, amount, v)
    PROVE  LosesOnly({}) /\ MovesOnly({v})
  <1> DEFINE m  == market[a]
             m1 == updateState(m, config[a], now)
             m2 == updateInterestRates(m1, config[a], now, amount, 0)
             m3 == [m2 EXCEPT !.cash = @ + amount]
             m4 == elMint(m3, v, amount)
  <1>1. /\ now \in Nat /\ Sound(m, now) /\ config[a] \in Config
        /\ canUpdateState(m, config[a], now)
        /\ canUpdateInterestRates(m1, config[a], amount, 0)
        /\ market' = [market EXCEPT ![a] = m4]
    BY DEF IInv, TypeOK, deposit
  <1>2. UpdateFrame(m, m1, now)
    BY <1>1, UpdateStateSound
  <1> HIDE DEF m1
  <1>3. ElFrame(m1, m2, now)
    BY <1>1, <1>2, UpdateRatesSound DEF UpdateFrame
  <1>4. Untouched(m, m3, Users) /\ HasBalances(m3)
    <2>1. HasBalances(m)
      BY MarketsStart, MarketHasBalances
    <2>2. Untouched(m, m1, Users)
      BY <2>1, UpdateStateUntouched DEF m1
    <2>3. HasBalances(m1)
      BY <2>2, UntouchedHas
    <2>4. Untouched(m1, m1, Users)
      BY <2>3, UntouchedSame
    <2>5. Untouched(m, m3, Users)
      BY <2>4, DebtCallUntouched DEF m1
    <2> HIDE DEF m3
    <2> QED BY <2>5, UntouchedHas
  <1> HIDE DEF m2
  <1>5. m2.cash + amount \in Nat
    BY <1>3 DEF ElFrame, Sound, Market
  <1>6. ElFrame(m2, m3, now)
    BY <1>1, <1>3, <1>5, CashChange DEF ElFrame
  <1> HIDE DEF m3
  <1>7. m4.el[v] >= m3.el[v]
    <2> DEFINE k == rayDiv(amount, m3.liquidityIndex)
    <2>1. m3 \in Market /\ m3.liquidityIndex \in Nat \ {0}
      BY <1>6, RayAssumption DEF ElFrame, Sound, IndexesStarted, Market
    <2>2. k \in Nat
      BY <2>1, RayDivNat
    <2>3. m4.el[v] = m3.el[v] + k /\ m3.el[v] \in Nat
      BY <2>1 DEF elMint, Market, Accounts
    <2> HIDE DEF m4, k
    <2> QED BY <2>2, <2>3
  <1>8. Untouched(m, m4, Users \ {v})
    <2>1. Untouched(m3, m4, Users \ {v})
      BY <1>4, ElTokenUntouched
    <2>2. Untouched(m, m3, Users \ {v})
      BY <1>4, UntouchedHas
    <2> QED BY <2>1, <2>2, UntouchedTrans
  <1> HIDE DEF m4
  <1>9. \A w \in Users, b \in Assets :
           market'[b].el[w] # market[b].el[w] => w \in {v} /\ b = a
    <2> DEFINE Own == {v}
    <2>1. /\ market' = [market EXCEPT ![a] = m4]
          /\ Untouched(market[a], m4, Users \ Own)
      BY <1>1, <1>8
    <2>2. Own = {v}
      OBVIOUS
    <2> HIDE DEF Own, m
    <2>3. \A w \in Users, b \in Assets :
             market'[b].el[w] # market[b].el[w] => w \in Own /\ b = a
      BY <2>1, OneReserveLoses
    <2> QED BY <2>2, <2>3
  <1>10. market'[a].el[v] >= market[a].el[v]
    <2>1. market'[a] = m4
      BY <1>1, MarketsStart
    <2>2. m3.el[v] = m.el[v]
      BY <1>4 DEF Untouched
    <2> QED BY <1>7, <2>1, <2>2
  <1>11. \A w \in Users, b \in Assets : market'[b].el[w] >= market[b].el[w]
    BY <1>9, <1>10, BalancesNat
  <1>12. \A w \in Users, b \in Assets : market'[b].el[w] \in Nat
    BY DepositStep, BalancesPrimed DEF Preserved
  <1> QED BY <1>9, <1>11, <1>12, BalancesNat DEF LosesOnly, MovesOnly

\* LendingPool.withdraw takes elTokens from its caller only.
LEMMA WithdrawTakesOwn ==
    ASSUME IInv, NEW u \in Users, NEW a \in Assets, NEW amount, NEW to,
           withdraw(u, a, amount, to)
    PROVE  LosesOnly({<<u, a>>}) /\ MovesOnly({u})
  <1> DEFINE m  == market[a]
             n  == IF amount = UINT256_MAX THEN m.el[u] ELSE amount
             m1 == updateState(m, config[a], now)
             m2 == updateInterestRates(m1, config[a], now, 0, n)
             m3 == elBurn(m2, u, n)
  <1>1. market' = [market EXCEPT ![a] = m3]
    BY DEF withdraw
  <1> HIDE DEF n
  <1>2. Untouched(m, m2, Users) /\ HasBalances(m2)
    <2>1. HasBalances(m)
      BY MarketsStart, MarketHasBalances
    <2>2. Untouched(m, m1, Users)
      BY <2>1, UpdateStateUntouched
    <2> HIDE DEF m1
    <2>3. HasBalances(m1)
      BY <2>2, UntouchedHas
    <2>4. Untouched(m1, m1, Users)
      BY <2>3, UntouchedSame
    <2>5. Untouched(m, m2, Users)
      BY <2>4, DebtCallUntouched DEF m1
    <2> HIDE DEF m2
    <2> QED BY <2>5, UntouchedHas
  <1> HIDE DEF m2
  <1>3. Untouched(m, m3, Users \ {u})
    <2>1. Untouched(m2, m3, Users \ {u})
      BY <1>2, ElTokenUntouched
    <2>2. Untouched(m, m2, Users \ {u})
      BY <1>2, UntouchedHas
    <2> QED BY <2>1, <2>2, UntouchedTrans
  <1> HIDE DEF m3
  <1>4. \A w \in Users, b \in Assets :
           market'[b].el[w] # market[b].el[w] => w \in {u} /\ b = a
    <2> DEFINE Own == {u}
    <2>1. /\ market' = [market EXCEPT ![a] = m3]
          /\ Untouched(market[a], m3, Users \ Own)
      BY <1>1, <1>3
    <2>2. Own = {u}
      OBVIOUS
    <2> HIDE DEF Own, m
    <2>3. \A w \in Users, b \in Assets :
             market'[b].el[w] # market[b].el[w] => w \in Own /\ b = a
      BY <2>1, OneReserveLoses
    <2> QED BY <2>2, <2>3
  <1> QED BY <1>4, BalancesNat DEF LosesOnly, MovesOnly

\* ELToken.transfer takes elTokens from its sender only.
LEMMA TransferTakesOwn ==
    ASSUME IInv, NEW from \in Users, NEW to \in Users, NEW a \in Assets, NEW amount \in Nat,
           transfer(from, to, a, amount)
    PROVE  LosesOnly({<<from, a>>}) /\ MovesOnly({from, to})
  <1> DEFINE m == market[a]
             r == elTransfer(m, from, to, amount, now)
  <1>1. /\ now \in Nat /\ Sound(m, now) /\ market \in [Assets -> Market]
        /\ market' = [market EXCEPT ![a] = r]
    BY DEF IInv, TypeOK, transfer
  <1>2. \A w \in Users \ {from} : r.el[w] >= m.el[w]
    BY <1>1, TransferTakesFromSender
  <1>3. Untouched(m, r, Users \ {from, to})
    BY <1>1, MarketHasBalances, ElTokenUntouched DEF Sound
  <1> HIDE DEF r
  <1>4. market'[a] = r /\ \A b \in Assets \ {a} : market'[b] = market[b]
    BY <1>1
  <1>5. \A w \in Users, b \in Assets : market'[b].el[w] \in Nat
    BY TransferStep, BalancesPrimed DEF Preserved
  <1>6. ASSUME NEW w \in Users, NEW b \in Assets, <<w, b>> # <<from, a>>
        PROVE  market'[b].el[w] >= market[b].el[w]
    <2>1. CASE b = a
      BY <1>2, <1>4, <1>6, <2>1
    <2>2. CASE b # a
      BY <1>4, <2>2, BalancesNat
    <2> QED BY <2>1, <2>2
  <1>7. MovesOnly({from, to})
    BY <1>3, <1>4 DEF MovesOnly, Untouched
  <1> QED BY <1>5, <1>6, <1>7, BalancesNat DEF LosesOnly

\* LendingPool.liquidationCall takes elTokens from the liquidated user only.
LEMMA LiquidationTakesFromUser ==
    ASSUME IInv, NEW l \in Users, NEW c \in Assets, NEW d \in Assets, NEW user \in Users,
           NEW amount \in Nat, NEW receiveLToken,
           liquidationCall(l, c, d, user, amount, receiveLToken)
    PROVE  LosesOnly({<<user, c>>}) /\ MovesOnly({user, l})
  <1> DEFINE amounts == liquidationAmounts(c, d, user, amount)
             seized == amounts.collateral
             actual == amounts.debt
             owed == varBalanceOf(market[d], user, now)
             d1 == updateState(market[d], config[d], now)
             d2 == liquidateDebt(d1, user, owed, actual, now)
             d3 == updateInterestRates(d2, config[d], now, actual, 0)
             mkt1 == [market EXCEPT ![d] = d3]
             c0 == mkt1[c]
             c1 == updateState(c0, config[c], now)
             c2 == updateInterestRates(c1, config[c], now, 0, seized)
             c3 == IF receiveLToken THEN elTransfer(c0, user, l, seized, now)
                                    ELSE elBurn(c2, user, seized)
             mkt2 == [mkt1 EXCEPT ![c] = c3]
  <1>1. /\ now \in Nat /\ market \in [Assets -> Market]
        /\ \A a \in Assets : Sound(market[a], now)
    BY DEF IInv, TypeOK
  <1>2. market' = [mkt2 EXCEPT ![d] = [mkt2[d] EXCEPT !.cash = @ + actual]]
    BY DEF liquidationCall
  <1>3. Sound(d3, now) /\ seized \in Nat
    BY LiquidatedDebt
  <1> HIDE DEF amounts, seized, actual, owed
  <1>4. Untouched(market[d], d3, Users)
    <2>1. HasBalances(market[d])
      BY <1>1, MarketHasBalances
    <2>2. Untouched(market[d], d1, Users)
      BY <2>1, UpdateStateUntouched
    <2> HIDE DEF d1
    <2>3. HasBalances(d1)
      BY <2>2, UntouchedHas
    <2>4. Untouched(d1, d2, Users)
      BY <2>3, DebtUntouched
    <2> HIDE DEF d2
    <2> QED BY <2>4, DebtCallUntouched DEF d1
  <1> HIDE DEF d3
  <1>5. /\ mkt1 \in [Assets -> Market] /\ Sound(c0, now)
        /\ \A a \in Assets : Untouched(market[a], mkt1[a], Users)
    <2>1. mkt1[d] = d3 /\ \A b \in Assets \ {d} : mkt1[b] = market[b]
      BY <1>1
    <2>2. mkt1 \in [Assets -> Market]
      BY <1>1, <1>3 DEF Sound
    <2>3. \A a \in Assets : Untouched(market[a], market[a], Users)
      BY <1>1, MarketHasBalances, UntouchedSame
    <2> HIDE DEF mkt1
    <2> QED BY <1>1, <1>3, <1>4, <2>1, <2>2, <2>3
  <1> HIDE DEF mkt1
  <1>6. /\ HasBalances(c3)
        /\ \A w \in Users \ {user} : c3.el[w] >= c0.el[w]
        /\ \A w \in Users \ {user, l} : c3.el[w] = c0.el[w]
    <2>1. HasBalances(c0) /\ \A w \in Users : c0.el[w] \in Nat
      BY <1>5, MarketHasBalances DEF Market, Accounts
    <2>2. CASE receiveLToken
      <3>1. \A w \in Users \ {user} : c3.el[w] >= c0.el[w]
        BY <1>1, <1>3, <1>5, <2>2, TransferTakesFromSender
      <3>2. Untouched(c0, c3, Users \ {user, l})
        BY <2>1, <2>2, ElTokenUntouched
      <3> HIDE DEF c3
      <3> QED BY <3>1, <3>2 DEF Untouched
    <2>3. CASE ~receiveLToken
      <3> HIDE DEF c0
      <3>1. Untouched(c0, c1, Users)
        BY <2>1, UpdateStateUntouched
      <3> HIDE DEF c1
      <3>2. Untouched(c1, c2, Users)
        <4>1. HasBalances(c1)
          BY <3>1, UntouchedHas
        <4> QED BY <4>1, RatesUntouched
      <3> HIDE DEF c2
      <3>3. Untouched(c2, c3, Users \ {user})
        <4>1. HasBalances(c2)
          BY <3>2, UntouchedHas
        <4>2. c3 = elBurn(c2, user, seized)
          BY <2>3
        <4>3. Untouched(c2, elBurn(c2, user, seized), Users \ {user})
          BY <4>1, ElTokenUntouched
        <4> HIDE DEF c3
        <4> QED BY <4>2, <4>3
      <3> HIDE DEF c3
      <3>4. Untouched(c0, c2, Users \ {user})
        <4>1. Untouched(c0, c2, Users)
          BY <3>1, <3>2, UntouchedTrans
        <4> QED BY <4>1, UntouchedHas
      <3>5. Untouched(c0, c3, Users \ {user})
        BY <3>3, <3>4, UntouchedTrans
      <3> QED BY <2>1, <3>5 DEF Untouched
    <2> QED BY <2>2, <2>3
  <1> HIDE DEF c3
  <1>7. \A w \in Users, b \in Assets :
           market'[b].el[w] = IF b = c THEN c3.el[w] ELSE market[b].el[w]
    <2>1. mkt2[c] = c3 /\ DOMAIN mkt2 = Assets /\ \A a \in Assets \ {c} : mkt2[a] = mkt1[a]
      BY <1>5
    <2>2. \A w \in Users, b \in Assets :
             mkt2[b].el[w] = IF b = c THEN c3.el[w] ELSE market[b].el[w]
      BY <1>5, <2>1 DEF Untouched
    <2>3. HasBalances(mkt2[d])
      <3>1. \A a \in Assets : HasBalances(mkt1[a])
        BY <1>5, UntouchedHas
      <3> QED BY <1>6, <2>1, <3>1
    <2> HIDE DEF mkt2
    <2>4. \A w \in Users, b \in Assets : market'[b].el[w] = mkt2[b].el[w]
      <3> DEFINE paid == [mkt2[d] EXCEPT !.cash = mkt2[d].cash + actual]
      <3>1. Untouched(mkt2[d], paid, Users)
        BY <2>3, CashUntouched
      <3>2. market' = [mkt2 EXCEPT ![d] = paid]
        BY <1>2
      <3> HIDE DEF paid
      <3> QED BY <2>1, <3>1, <3>2 DEF Untouched
    <2> QED BY <2>2, <2>4
  <1>8. \A w \in Users : c0.el[w] = market[c].el[w]
    BY <1>5 DEF Untouched
  <1> HIDE DEF c0, mkt2
  <1>9. \A w \in Users, b \in Assets :
           <<w, b>> # <<user, c>> => market'[b].el[w] >= market[b].el[w]
    BY <1>6, <1>7, <1>8, BalancesNat
  <1>10. MovesOnly({user, l})
    BY <1>6, <1>7, <1>8 DEF MovesOnly
  <1>11. \A w \in Users, b \in Assets : market'[b].el[w] \in Nat
    BY LiquidationStep, BalancesPrimed DEF Preserved
  <1> QED BY <1>9, <1>10, <1>11, BalancesNat DEF LosesOnly

\* A valuation in the oracle's currency is a number.
LEMMA ValueNat ==
    ASSUME IInv, NEW a \in Assets, NEW n \in Nat
    PROVE  valueInETH(a, n) \in Nat
  <1>1. price[a] \in Nat /\ config[a].unit \in Nat \ {0}
    BY DEF IInv, TypeOK, Config
  <1>2. price[a] * n \in Nat
    BY <1>1
  <1> QED BY <1>1, <1>2, DivBounds DEF valueInETH

\* WadRayMath.wadDiv, past its require(b != 0), returns a natural number.
LEMMA WadDivNat ==
    ASSUME NEW x \in Nat, NEW y \in Nat \ {0}
    PROVE  wadDiv(x, y) \in Nat
  <1>1. x * WAD + (y \div 2) \in Nat
    BY WadAssumption
  <1> QED BY <1>1, DivBounds DEF wadDiv

\* GenericLogic.calculateUserAccountData and the health factor give numbers.
LEMMA HealthFactorNat ==
    ASSUME IInv, NEW u \in Users
    PROVE  healthFactor(market, usersConfig[u], u) \in Nat
  <1> DEFINE flags      == usersConfig[u]
             counted    == {a \in Assets : countsAsCollateral(flags, a)}
             value      == [a \in counted |-> collateralETH(market, u, a)]
             weighted   == [a \in counted |->
                              collateralETH(market, u, a)
                                * [b \in counted |-> config[b].threshold][a]]
             owed       == [a \in flags.borrowing |-> valueInETH(a, userDebt(market[a], u, now))]
             collateral == SumFunction(value)
             debt       == SumFunction(owed)
             threshold  == IF collateral > 0 THEN SumFunction(weighted) \div collateral ELSE 0
  <1>1. /\ now \in Nat /\ flags \in UserConfig
        /\ \A a \in Assets : Sound(market[a], now) /\ config[a].threshold \in Nat
    BY DEF IInv, TypeOK, Config
  <1>2. /\ counted \subseteq Assets /\ IsFiniteSet(counted)
        /\ flags.borrowing \subseteq Assets /\ IsFiniteSet(flags.borrowing)
    BY <1>1, BoundsAssumption, FS_Subset DEF UserConfig
  <1> HIDE DEF counted
  <1>3. \A a \in Assets : collateralETH(market, u, a) \in Nat
    BY BalancesNat, ValueNat DEF collateralETH
  <1>4. collateral \in Nat
    <2>1. value \in [counted -> Nat]
      BY <1>2, <1>3
    <2> HIDE DEF value
    <2> QED BY <1>2, <2>1, SumNat
  <1>5. SumFunction(weighted) \in Nat
    <2>1. weighted \in [counted -> Nat]
      <3>1. ASSUME NEW a \in counted
            PROVE  collateralETH(market, u, a) * config[a].threshold \in Nat
        BY <1>1, <1>2, <1>3
      <3> QED BY <3>1
    <2> HIDE DEF weighted
    <2> QED BY <1>2, <2>1, SumNat
  <1>6. debt \in Nat
    <2>1. owed \in [flags.borrowing -> Nat]
      <3>1. ASSUME NEW a \in flags.borrowing
            PROVE  valueInETH(a, userDebt(market[a], u, now)) \in Nat
        <4>1. a \in Assets
          BY <1>2
        <4>2. /\ stBalanceOf(market[a], u, now) \in Nat
              /\ varBalanceOf(market[a], u, now) \in Nat
          BY <1>1, <4>1, NoHiddenDebt
        <4> QED BY <4>1, <4>2, ValueNat DEF userDebt
      <3> QED BY <3>1
    <2> HIDE DEF owed
    <2> QED BY <1>2, <2>1, SumNat
  <1> HIDE DEF value, weighted, owed
  <1>7. healthFactor(market, flags, u)
          = calculateHealthFactorFromBalances(collateral, debt, threshold)
    BY DEF healthFactor, calculateUserAccountData, counted, value, weighted, owed
  <1> HIDE DEF collateral, debt
  <1>8. threshold \in Nat
    BY <1>4, <1>5, DivBounds
  <1> HIDE DEF threshold
  <1>9. debt # 0 => wadDiv(percentMul(collateral, threshold), debt) \in Nat
    BY <1>4, <1>6, <1>8, PercentMulNat, WadDivNat
  <1> QED BY <1>7, <1>9, BoundsAssumption DEF calculateHealthFactorFromBalances

\* What may be done to the elTokens of a healthy account.
OwnersOnly ==
    \A u \in Users, a \in Assets :
        /\ market'[a].el[u] < market[a].el[u]
        /\ healthFactor(market, usersConfig[u], u) >= HEALTH_FACTOR_LIQUIDATION_THRESHOLD
        => \E v \in Users, amount \in Amounts :
             withdraw(u, a, amount, v) \/ transfer(u, v, a, amount)

\* Every step of the pool takes elTokens of healthy accounts for their owners only.
LEMMA OwnersOnlyStep ==
    ASSUME IInv, Next
    PROVE  OwnersOnly
  <1>1. LosesOnly({}) => OwnersOnly
    BY DEF LosesOnly, OwnersOnly
  <1>2. \A op \in Operations : Calls[op] \subseteq Users \X Users \X Assets
    BY BoundsAssumption
  <1>3. Amounts \subseteq Nat /\ BorrowModes \subseteq Modes
    BY BoundsAssumption DEF Modes
  <1>4. CASE Deposits(Users)
    <2>1. PICK x \in Users, y \in Users, a \in Assets, amount \in Amounts :
              deposit(x, a, amount, y)
      BY <1>2, <1>4 DEF Deposits, Operations, CallsOf
    <2> QED BY <1>1, <1>3, <2>1, DepositTakesNothing
  <1>5. CASE Withdrawals(Users)
    <2>1. PICK x \in Users, y \in Users, a \in Assets, amount \in Amounts :
              withdraw(x, a, amount, y)
      BY <1>2, <1>5 DEF Withdrawals, Operations, CallsOf
    <2>2. LosesOnly({<<x, a>>})
      BY <2>1, WithdrawTakesOwn
    <2> QED BY <2>1, <2>2 DEF LosesOnly, OwnersOnly
  <1>6. CASE Transfers(Users)
    <2>1. PICK x \in Users, y \in Users, a \in Assets, amount \in Amounts :
              transfer(x, y, a, amount)
      BY <1>2, <1>6 DEF Transfers, Operations, CallsOf
    <2>2. LosesOnly({<<x, a>>})
      BY <1>3, <2>1, TransferTakesOwn
    <2> QED BY <2>1, <2>2 DEF LosesOnly, OwnersOnly
  <1>7. CASE Borrowings(Users) \/ Repayments(Users) \/ Swaps(Users) \/ Rebalances(Users)
    <2>1. \E u \in Users, v \in Users, a \in Assets : \E amount, mode :
             \/ borrow(u, a, amount, mode, v) \/ repay(u, a, amount, mode, v)
             \/ swapBorrowRateMode(u, a, mode) \/ rebalanceStableBorrowRate(a, v)
      BY <1>2, <1>7 DEF Borrowings, Repayments, Swaps, Rebalances, Operations, CallsOf
    <2> QED BY <1>1, <2>1, DebtCallsTakeNothing
  <1>8. CASE Liquidations(Users)
    <2>1. PICK l \in Users, user \in Users, c \in Assets, d \in Assets, amount \in Amounts,
               f \in BOOLEAN : liquidationCall(l, c, d, user, amount, f)
      BY <1>2, <1>8 DEF Liquidations, Operations, CallsOf
    <2>2. LosesOnly({<<user, c>>})
      BY <1>3, <2>1, LiquidationTakesFromUser
    <2>3. healthFactor(market, usersConfig[user], user) < HEALTH_FACTOR_LIQUIDATION_THRESHOLD
      BY <2>1 DEF liquidationCall, validateLiquidationCall
    <2>4. /\ healthFactor(market, usersConfig[user], user) \in Nat
          /\ HEALTH_FACTOR_LIQUIDATION_THRESHOLD \in Nat
      BY HealthFactorNat, WadAssumption DEF HEALTH_FACTOR_LIQUIDATION_THRESHOLD
    <2> QED BY <2>2, <2>3, <2>4 DEF LosesOnly, OwnersOnly
  <1>9. CASE CollateralChoices(Users) \/ Delegatings(Users) \/ Tick \/ Quotes
    <2>1. market' = market
      BY <1>9 DEF CollateralChoices, setUserUseReserveAsCollateral, Delegatings, CallsOf,
                  approveDelegation, Tick, Quotes, SetPrice
    <2>2. LosesOnly({})
      BY <2>1, BalancesNat DEF LosesOnly
    <2> QED BY <1>1, <2>2
  <1> QED BY <1>4, <1>5, <1>6, <1>7, <1>8, <1>9 DEF Next, UserCalls

\* Nobody but its owner takes an elToken away from a healthy account: not a
\* liquidator, not a borrower, not the treasury's share of the interest, whatever
\* the reserves, the prices and the amounts.
THEOREM HealthyAreUntouched == Spec => HealthyIsUntouchable
  <1>1. IInv /\ [Next]_vars => [OwnersOnly]_vars
    BY OwnersOnlyStep
  <1>2. HealthyIsUntouchable <=> [][OwnersOnly]_vars
    BY DEF HealthyIsUntouchable, OwnersOnly
  <1> QED BY Invariant, <1>1, <1>2, PTL DEF Spec


-------------------------------------------------------------------------------
(***************************************************************************)
(* A borrower with the money can repay everything.  Besides the hypotheses *)
(* above: the reserve factor is a percentage (setReserveFactor stores what *)
(* the administrator asks for, and updateInterestRates reverts above       *)
(* 100 %), and the indexes and rates the repayment writes fit the uint128  *)
(* they are stored in.                                                     *)
(***************************************************************************)
FactorsArePercentages == \A a \in Assets : config[a].reserveFactor <= PERCENTAGE_FACTOR

\* What updateInterestRates stores after a repayment of the whole debt fits its fields.
RepaymentsFitUint128 ==
    \A u \in Users, a \in Assets, mode \in Modes :
        LET debt == debtOfMode(market[a], u, mode, now)
        IN  debt > 0 =>
              fitsUint128(updateInterestRates(repaid(a, debt, mode, u), config[a], now, debt, 0))

\* The burn of either debt token accepts what the view reports as owed.
LEMMA BurnAcceptsTheDebt ==
    ASSUME NEW t \in Nat, NEW m, Sound(m, t), NEW c \in Config, canUpdateState(m, c, t),
           ChargesWhatItEarns(m, t), NEW u \in Users, NEW mode \in Modes,
           debtOfMode(m, u, mode, t) > 0
    PROVE  canBurnDebt(updateState(m, c, t), u, debtOfMode(m, u, mode, t), mode, t)
  <1> DEFINE m1 == updateState(m, c, t)
             d  == debtOfMode(m, u, mode, t)
             i  == m1.variableBorrowIndex
             s  == m1.varDebt[u]
  <1>1. UpdateFrame(m, m1, t)
    BY UpdateStateSound
  <1>2. Sound(m1, t) /\ SameDebt(m, m1) /\ m1.lastUpdateTimestamp = t
    BY <1>1 DEF UpdateFrame
  <1>3. d \in Nat /\ d > 0
    BY DebtOfModeNat
  <1>4. varBalanceOf(m1, u, t) = varBalanceOf(m, u, t)
    BY ShownDebtIsStored
  <1> HIDE DEF m1
  <1>5. CASE mode = "STABLE"
    <2>1. d = stBalanceOf(m1, u, t)
      BY <1>2, <1>5 DEF debtOfMode, SameDebt, stBalanceOf
    <2>2. canBurnSt(m1, u, d, t)
      BY <1>3, <2>1 DEF canBurnSt
    <2> QED BY <1>5, <2>2 DEF canBurnDebt, m1
  <1>6. CASE mode = "VARIABLE"
    <2>1. d = rayMul(s, i)
      BY <1>2, <1>4, <1>6 DEF debtOfMode, varBalanceOf, getNormalizedDebt
    <2>2. s \in Nat /\ i \in Nat \ {0} /\ i >= RAY
      BY <1>2, RayAssumption DEF Sound, Market, IndexesStarted
    <2>3. s <= m1.varSupply
      <3> DEFINE debts == m1.varDebt
      <3>1. debts \in [Users -> Nat] /\ m1.varSupply = SumFunction(debts)
        BY <1>2 DEF Sound, Market, SuppliesSummed
      <3> HIDE DEF debts
      <3>2. debts[u] <= SumFunction(debts)
        BY <3>1, UsersAssumption, PartBelowSum
      <3> QED BY <3>1, <3>2 DEF debts
    <2>4. s # 0
      BY <1>2, <1>3, <1>4, <1>6, NothingBorrowed DEF debtOfMode
    <2> HIDE DEF s, i, d
    <2>5. rayDiv(d, i) = s
      BY <2>1, <2>2, ScaledRoundTrip
    <2>6. rayDiv(d, i) # 0 /\ rayDiv(d, i) <= s /\ rayDiv(d, i) <= m1.varSupply
      BY <2>2, <2>3, <2>4, <2>5
    <2>7. canBurnVar(m1, u, d)
      BY <2>6 DEF canBurnVar, s, i
    <2> QED BY <1>6, <2>7 DEF canBurnDebt, m1, d
  <1> QED BY <1>5, <1>6 DEF Modes

\* LendingPool.repay with type(uint256).max does not revert.
LEMMA RepayAllAccepted ==
    ASSUME IInv, FactorsArePercentages, DebtsFitUint256, EarnsWhatItCharges,
           RepaymentsFitUint128,
           NEW u \in Users, NEW a \in Assets, NEW mode \in Modes,
           ~paused, config[a].active,
           debtOfMode(market[a], u, mode, now) > 0,
           wallet[u][a] >= debtOfMode(market[a], u, mode, now)
    PROVE  canRepay(u, a, UINT256_MAX, mode, u)
  <1> DEFINE m  == market[a]
             d  == debtOfMode(m, u, mode, now)
             n  == paybackAmount(u, a, UINT256_MAX, mode)
             m1 == updateState(m, config[a], now)
             m2 == repaid(a, d, mode, u)
  <1>1. /\ now \in Nat /\ Sound(m, now) /\ config[a] \in Config /\ UINT256_MAX \in Nat
        /\ ChargesWhatItEarns(m, now)
    BY BoundsAssumption DEF IInv, TypeOK, EarnsWhatItCharges
  <1>2. d \in Nat /\ d > 0 /\ d <= UINT256_MAX
    BY <1>1, DebtOfModeNat DEF DebtsFitUint256
  <1>3. n = d
    BY <1>1, <1>2 DEF paybackAmount
  <1>4. canUpdateState(m, config[a], now)
    BY <1>1, AccruedNat DEF canUpdateState, Sound, ClocksOrdered
  <1>5. canBurnDebt(m1, u, d, mode, now)
    BY <1>1, <1>2, <1>4, BurnAcceptsTheDebt
  <1>6. UpdateFrame(m, m1, now)
    BY <1>1, <1>4, UpdateStateSound
  <1>7. m2 = burnDebt(m1, u, d, mode, now)
    BY DEF repaid
  <1> HIDE DEF m1, m2
  <1>8. Sound(m1, now) /\ m1.lastUpdateTimestamp = now
    BY <1>6 DEF UpdateFrame
  <1>9. Sound(m2, now)
    BY <1>1, <1>2, <1>5, <1>7, <1>8, BurnDebtSound DEF DebtFrame
  <1>10. canUpdateInterestRates(m2, config[a], d, 0)
    <2>1. m2.cash \in Nat
      BY <1>9 DEF Sound, Market
    <2>2. 0 <= m2.cash + d
      BY <1>2, <2>1
    <2> QED BY <2>2 DEF canUpdateInterestRates, FactorsArePercentages
  <1>11. fitsUint128(updateInterestRates(m2, config[a], now, d, 0))
    BY <1>2 DEF RepaymentsFitUint128, m2
  <1>12. validateRepay(u, a, UINT256_MAX, mode, u)
    BY <1>1, <1>2 DEF validateRepay
  <1> HIDE DEF n, d
  <1> QED BY <1>3, <1>4, <1>5, <1>10, <1>11, <1>12 DEF canRepay, n, m1, m2, d

\* A liquidation leaves the configuration alone.
LEMMA LiquidationKeepsConfig ==
    ASSUME NEW l \in Users, NEW c \in Assets, NEW d \in Assets, NEW user \in Users,
           NEW amount, NEW receiveLToken,
           liquidationCall(l, c, d, user, amount, receiveLToken)
    PROVE  config' = config
  <1>1. UNCHANGED <<now, paused, price, config, borrowAllowance>>
    BY DEF liquidationCall
  <1> QED BY <1>1

\* "Send the value type(uint256).max in order to repay the whole debt" can always be
\* followed by who has the money: no history of calls leaves a debt that the burn of
\* its token, the accrual of the reserve or the new rates refuse.
THEOREM RepayingAllIsPossible ==
    ASSUME \A a \in Assets : InitialConfig[a].reserveFactor <= PERCENTAGE_FACTOR
    PROVE  Spec /\ []DebtsFitUint256 /\ []EarnsWhatItCharges /\ []RepaymentsFitUint128
             => []RepayAllPossible
  <1>1. Init => FactorsArePercentages
    BY DEF Init, FactorsArePercentages
  <1>2. FactorsArePercentages /\ [Next]_vars => FactorsArePercentages'
    <2>1. ASSUME [Next]_vars PROVE config' = config
      <3>1. Deposits(Users) => config' = config
        BY DEF Deposits, deposit, CallsOf
      <3>2. Withdrawals(Users) => config' = config
        BY DEF Withdrawals, withdraw, CallsOf
      <3>3. Transfers(Users) => config' = config
        BY DEF Transfers, transfer, CallsOf
      <3>4. Borrowings(Users) => config' = config
        BY DEF Borrowings, borrow, CallsOf
      <3>5. Repayments(Users) => config' = config
        BY DEF Repayments, repay, CallsOf
      <3>6. Swaps(Users) => config' = config
        BY DEF Swaps, swapBorrowRateMode, CallsOf
      <3>7. Rebalances(Users) => config' = config
        BY DEF Rebalances, rebalanceStableBorrowRate, CallsOf
      <3>8. CollateralChoices(Users) => config' = config
        BY DEF CollateralChoices, setUserUseReserveAsCollateral, CallsOf
      <3>9. Liquidations(Users) => config' = config
        <4>1. \A call \in Calls["liquidation"] : call[1] \in Users /\ call[2] \in Users
                                                  /\ call[3] \in Assets
          BY BoundsAssumption DEF Operations
        <4> QED BY <4>1, LiquidationKeepsConfig DEF Liquidations, CallsOf
      <3>10. Delegatings(Users) => config' = config
        BY DEF Delegatings, approveDelegation, CallsOf
      <3>11. Quotes => config' = config
        BY DEF Quotes, SetPrice
      <3>12. Tick \/ UNCHANGED vars => config' = config
        BY DEF Tick, vars
      <3> QED BY <2>1, <3>1, <3>2, <3>3, <3>4, <3>5, <3>6, <3>7, <3>8, <3>9,
             <3>10, <3>11, <3>12 DEF Next, UserCalls
    <2> QED BY <2>1 DEF FactorsArePercentages
  <1>3. IInv /\ FactorsArePercentages /\ DebtsFitUint256 /\ EarnsWhatItCharges
          /\ RepaymentsFitUint128 => RepayAllPossible
    BY RepayAllAccepted DEF RepayAllPossible
  <1> QED BY Invariant, <1>1, <1>2, <1>3, PTL DEF Spec

-------------------------------------------------------------------------------
(***************************************************************************)
(* No call creates or destroys value.  The wealth of the users in a        *)
(* reserve is the underlying in their wallets and their claims on it       *)
(* (ReserveLogicProofs); each call moves as much from one to the other, up *)
(* to the rounding of at most one mint or burn of each token.              *)
(***************************************************************************)
\* The underlying of one reserve that the users own.
Purses(w, a) == SumFunction([u \in Users |-> w[u][a]])

WealthNear(a) ==
    /\ usersWealth(a)' - usersWealth(a) <= roundingOfWealth(market'[a])
    /\ usersWealth(a) - usersWealth(a)' <= roundingOfWealth(market'[a])

\* Wealth is wallets and claims.
LEMMA WealthSplits ==
    ASSUME NEW t \in Nat, NEW m, Sound(m, t), NEW w \in [Users -> [Assets -> Nat]],
           NEW a \in Assets
    PROVE  /\ Purses(w, a) \in Int
           /\ SumFunction([u \in Users |->
                 w[u][a] + rayMul(m.el[u], getNormalizedIncome(m, t)) - userDebt(m, u, t)])
                = Purses(w, a) + Claims(m, t)
  <1> DEFINE f == [u \in Users |-> w[u][a]]
             g == [u \in Users |-> claim(m, u, t)]
             h == [u \in Users |->
                     w[u][a] + rayMul(m.el[u], getNormalizedIncome(m, t)) - userDebt(m, u, t)]
             s == [u \in Users |-> f[u] + g[u]]
  <1>1. f \in [Users -> Int] /\ g \in [Users -> Int]
    BY ClaimsInt
  <1>2. ASSUME NEW u \in Users
        PROVE  w[u][a] + rayMul(m.el[u], getNormalizedIncome(m, t)) - userDebt(m, u, t)
                 = f[u] + g[u]
    <2> DEFINE e == rayMul(m.el[u], getNormalizedIncome(m, t))
    <2>1. e \in Nat
      <3>1. m.el[u] \in Nat
        BY DEF Sound, Market, Accounts
      <3> QED BY <3>1, ViewIndexesGrow, RayMulNat
    <2>2. userDebt(m, u, t) \in Int
      BY NoHiddenDebt DEF userDebt
    <2>3. f[u] = w[u][a] /\ g[u] = e - userDebt(m, u, t) /\ w[u][a] \in Nat
      BY DEF claim
    <2> HIDE DEF e, f, g
    <2>4. w[u][a] + e - userDebt(m, u, t) = f[u] + g[u]
      BY <2>1, <2>2, <2>3
    <2> QED BY <2>4 DEF e
  <1>3. h = s
    BY <1>2
  <1>4. Purses(w, a) = SumFunction(f) /\ Claims(m, t) = SumFunction(g)
    BY DEF Purses, Claims
  <1> HIDE DEF f, g, h
  <1>5. SumFunction(s) = SumFunction(f) + SumFunction(g)
    BY <1>1, UsersAssumption, SumAdds
  <1>6. SumFunction(f) \in Int
    BY <1>1, UsersAssumption, SumInt
  <1> QED BY <1>3, <1>4, <1>5, <1>6 DEF h

\* A call that moves x from the wallets to the claims.
LEMMA Conserving ==
    ASSUME IInv, IInv', now' = now, NEW a \in Assets, NEW x \in Int, NEW d \in Int,
           Shifts(market[a], market'[a], now, x, d),
           Purses(wallet', a) = Purses(wallet, a) - x,
           d <= roundingOfWealth(market'[a]), roundingOfWealth(market'[a]) \in Int
    PROVE  WealthNear(a)
  <1>1. /\ now \in Nat /\ Sound(market[a], now) /\ Sound(market'[a], now)
        /\ wallet \in [Users -> [Assets -> Nat]] /\ wallet' \in [Users -> [Assets -> Nat]]
    BY DEF IInv, TypeOK
  <1>2. /\ Purses(wallet, a) \in Int
        /\ usersWealth(a) = Purses(wallet, a) + Claims(market[a], now)
    BY <1>1, WealthSplits DEF usersWealth, wealth
  <1>3. usersWealth(a)' = Purses(wallet', a) + Claims(market'[a], now)
    BY <1>1, WealthSplits DEF usersWealth, wealth
  <1>4. Claims(market[a], now) \in Int /\ Claims(market'[a], now) \in Int
    BY <1>1, ClaimsInt
  <1>5. PICK k \in Int : k = roundingOfWealth(market'[a])
    OBVIOUS
  <1>6. /\ usersWealth(a)' - usersWealth(a) <= k
        /\ usersWealth(a) - usersWealth(a)' <= k
    BY <1>2, <1>3, <1>4, <1>5 DEF Shifts
  <1> QED BY <1>5, <1>6 DEF WealthNear

\* The rounding of the tokens' operations, at indexes that only grew since.
LEMMA Roundings ==
    ASSUME NEW t \in Nat, NEW m, NEW r, Sound(m, t), Sound(r, t), IndexesGrow(m, r)
    PROVE  /\ rayMul(1, m.liquidityIndex) + 1 \in Int
           /\ rayMul(1, m.variableBorrowIndex) + 1 \in Int
           /\ roundingOfWealth(r) \in Int
           /\ (rayMul(1, m.variableBorrowIndex) + 1) + (rayMul(1, m.liquidityIndex) + 1)
                <= roundingOfWealth(r)
           /\ rayMul(1, m.liquidityIndex) + 1 <= roundingOfWealth(r)
           /\ rayMul(1, m.variableBorrowIndex) + 1 <= roundingOfWealth(r)
           /\ 1 <= roundingOfWealth(r)
           /\ (rayMul(1, m.variableBorrowIndex) + 1) + 1 <= roundingOfWealth(r)
  <1> DEFINE i0 == m.liquidityIndex
             i1 == r.liquidityIndex
             v0 == m.variableBorrowIndex
             v1 == r.variableBorrowIndex
  <1>1. /\ i0 \in Nat \ {0} /\ i1 \in Nat \ {0} /\ v0 \in Nat \ {0} /\ v1 \in Nat \ {0}
        /\ i0 <= i1 /\ v0 <= v1
    BY RayAssumption DEF Sound, Market, IndexesStarted, IndexesGrow
  <1>2. roundingOfWealth(r) = rayMul(1, i1) + rayMul(1, v1) + 2
    BY DEF roundingOfWealth
  <1> HIDE DEF i0, i1, v0, v1
  <1>3. /\ rayMul(1, i0) \in Nat /\ rayMul(1, i1) \in Nat
        /\ rayMul(1, v0) \in Nat /\ rayMul(1, v1) \in Nat
    BY <1>1, UnitNat
  <1>4. rayMul(1, i0) <= rayMul(1, i1) /\ rayMul(1, v0) <= rayMul(1, v1)
    <2>1. 1 \in Nat
      OBVIOUS
    <2> QED BY <1>1, <2>1, RayMulMonotone
  <1>5. PICK p0 \in Nat, p1 \in Nat, q0 \in Nat, q1 \in Nat :
          /\ p0 = rayMul(1, i0) /\ p1 = rayMul(1, i1)
          /\ q0 = rayMul(1, v0) /\ q1 = rayMul(1, v1)
    BY <1>3
  <1>6. /\ p0 + 1 \in Int /\ q0 + 1 \in Int /\ roundingOfWealth(r) \in Int
        /\ (q0 + 1) + (p0 + 1) <= roundingOfWealth(r)
        /\ p0 + 1 <= roundingOfWealth(r) /\ q0 + 1 <= roundingOfWealth(r)
        /\ 1 <= roundingOfWealth(r) /\ (q0 + 1) + 1 <= roundingOfWealth(r)
    BY <1>2, <1>4, <1>5
  <1> QED BY <1>5, <1>6 DEF i0, v0

\* Underlying that moves in or out of one wallet.
Paid(w, r, u, a, k) ==
    /\ r \in [Users -> [Assets -> Nat]] /\ r[u][a] = w[u][a] + k
    /\ \A v \in Users \ {u} : r[v][a] = w[v][a]
    /\ \A v \in Users, b \in Assets \ {a} : r[v][b] = w[v][b]

LEMMA PaidOut ==
    ASSUME NEW w \in [Users -> [Assets -> Nat]], NEW u \in Users, NEW a \in Assets,
           NEW n \in Nat, NEW r, r = [w EXCEPT ![u][a] = @ + n]
    PROVE  Paid(w, r, u, a, n)
  BY DEF Paid

LEMMA PaidIn ==
    ASSUME NEW w \in [Users -> [Assets -> Nat]], NEW u \in Users, NEW a \in Assets,
           NEW n \in Nat, w[u][a] >= n, NEW r, r = [w EXCEPT ![u][a] = @ - n]
    PROVE  Paid(w, r, u, a, -n)
  BY DEF Paid

LEMMA PursesMove ==
    ASSUME NEW w \in [Users -> [Assets -> Nat]], NEW u \in Users, NEW a \in Assets,
           NEW k \in Int, NEW r, Paid(w, r, u, a, k)
    PROVE  /\ Purses(r, a) = Purses(w, a) + k
           /\ \A b \in Assets \ {a} : Purses(r, b) = Purses(w, b)
  <1> DEFINE f == [v \in Users |-> w[v][a]]
             g == [v \in Users |-> r[v][a]]
  <1>1. f \in [Users -> Nat] /\ g \in [Users -> Nat]
    BY DEF Paid
  <1>2. g[u] = f[u] + k /\ \A v \in Users \ {u} : g[v] = f[v]
    BY DEF Paid
  <1>3. Purses(w, a) = SumFunction(f) /\ Purses(r, a) = SumFunction(g)
    BY DEF Purses
  <1> HIDE DEF f, g
  <1>4. SumFunction(g) = SumFunction(f) + (g[u] - f[u])
    <2>1. f \in [Users -> Int] /\ g \in [Users -> Int]
      BY <1>1
    <2>2. \A v \in Users \ {u} : g[v] = f[v]
      BY <1>2
    <2> QED BY <2>1, <2>2, UsersAssumption, SumChange
  <1>5. g[u] - f[u] = k
    <2>1. f[u] \in Nat
      BY <1>1
    <2> QED BY <1>2, <2>1
  <1>6. \A b \in Assets \ {a} : Purses(r, b) = Purses(w, b)
    BY DEF Paid, Purses
  <1> QED BY <1>3, <1>4, <1>5, <1>6

\* A call that changes one reserve.
LEMMA OneReserveConserves ==
    ASSUME IInv, IInv', now' = now, NEW a \in Assets, NEW r,
           market' = [market EXCEPT ![a] = r], NEW k \in Int, NEW d \in Int,
           Shifts(market[a], r, now, -k, d), d <= roundingOfWealth(r),
           NEW u \in Users, Paid(wallet, wallet', u, a, k)
    PROVE  \A b \in Assets : WealthNear(b)
  <1>1. market'[a] = r /\ \A b \in Assets \ {a} : market'[b] = market[b]
    BY MarketsStart
  <1>2. /\ now \in Nat /\ \A b \in Assets : Sound(market'[b], now) /\ Sound(market[b], now)
        /\ wallet \in [Users -> [Assets -> Nat]]
    BY DEF IInv, TypeOK
  <1>3. \A b \in Assets : roundingOfWealth(market'[b]) \in Int /\ 0 <= roundingOfWealth(market'[b])
    <2>1. TAKE b \in Assets
    <2>2. PICK m : m = market'[b]
      OBVIOUS
    <2>3. m.liquidityIndex \in Nat
      BY <1>2, <2>2 DEF Sound, Market
    <2>4. IndexesGrow(m, m)
      BY <1>2, <2>2 DEF Sound, Market, IndexesGrow
    <2>5. roundingOfWealth(m) \in Int /\ 1 <= roundingOfWealth(m)
      BY <1>2, <2>2, <2>4, Roundings
    <2> QED BY <2>2, <2>5
  <1>4. /\ Purses(wallet', a) = Purses(wallet, a) + k
        /\ \A b \in Assets \ {a} : Purses(wallet', b) = Purses(wallet, b)
    BY <1>2, PursesMove
  <1>5. WealthNear(a)
    <2> DEFINE x == -k
    <2>1. x \in Int /\ roundingOfWealth(market'[a]) \in Int
      BY <1>3
    <2>2. Purses(wallet', a) = Purses(wallet, a) - x
      <3>1. Purses(wallet, a) \in Int
        BY <1>2, WealthSplits
      <3> QED BY <1>4, <3>1
    <2>3. Shifts(market[a], market'[a], now, x, d) /\ d <= roundingOfWealth(market'[a])
      BY <1>1
    <2> HIDE DEF x
    <2> QED BY <2>1, <2>2, <2>3, Conserving
  <1>6. ASSUME NEW b \in Assets \ {a}
        PROVE  WealthNear(b)
    <2>1. Claims(market[b], now) \in Int
      BY <1>2, ClaimsInt
    <2>2. Shifts(market[b], market'[b], now, 0, 0)
      BY <1>1, <2>1 DEF Shifts
    <2>3. Purses(wallet', b) = Purses(wallet, b) - 0
      <3>1. Purses(wallet, b) \in Int
        <4>1. b \in Assets /\ Sound(market[b], now)
          BY <1>2
        <4> QED BY <1>2, <4>1, WealthSplits
      <3> QED BY <1>4, <3>1
    <2> QED BY <1>3, <2>2, <2>3, Conserving
  <1> QED BY <1>5, <1>6

\* The mint of either debt token, the burn of either, and of both in a liquidation.
LEMMA MintDebtShifts ==
    ASSUME NEW t \in Nat, NEW m, Sound(m, t), m.lastUpdateTimestamp = t, NEW u \in Users,
           NEW amount \in Nat, NEW mode \in Modes, canMintDebt(m, u, amount, mode, t)
    PROVE  Shifts(m, mintDebt(m, u, amount, mode, t), t, -amount,
                  rayMul(1, m.variableBorrowIndex) + 1)
  <1> DEFINE r == mintDebt(m, u, amount, mode, t)
             d == rayMul(1, m.variableBorrowIndex) + 1
  <1>1. m.currentStableBorrowRate \in Nat /\ m.variableBorrowIndex \in Nat \ {0}
    BY RayAssumption DEF Sound, Market, IndexesStarted
  <1>2. CASE mode = "STABLE"
    <2>1. Shifts(m, r, t, -amount, 0)
      BY <1>1, <1>2, StMintShifts DEF mintDebt, canMintDebt
    <2>2. d \in Int /\ 0 <= d
      BY <1>1, UnitNat
    <2>3. Claims(m, t) \in Int /\ Claims(r, t) \in Int /\ -amount \in Int
      BY MintDebtSound, ClaimsInt DEF DebtFrame
    <2> HIDE DEF r, d
    <2>4. Shifts(m, r, t, -amount, d)
      BY <2>1, <2>2, <2>3 DEF Shifts
    <2> QED BY <2>4 DEF r, d
  <1>3. CASE mode = "VARIABLE"
    BY <1>3, VarMintShifts DEF mintDebt, canMintDebt
  <1> QED BY <1>2, <1>3 DEF Modes

LEMMA BurnDebtShifts ==
    ASSUME NEW t \in Nat, NEW m, Sound(m, t), m.lastUpdateTimestamp = t, NEW u \in Users,
           NEW amount \in Nat, NEW mode \in Modes, canBurnDebt(m, u, amount, mode, t)
    PROVE  Shifts(m, burnDebt(m, u, amount, mode, t), t, amount,
                  rayMul(1, m.variableBorrowIndex) + 1)
  <1> DEFINE r == burnDebt(m, u, amount, mode, t)
             d == rayMul(1, m.variableBorrowIndex) + 1
  <1>1. m.variableBorrowIndex \in Nat \ {0}
    BY RayAssumption DEF Sound, Market, IndexesStarted
  <1>2. CASE mode = "STABLE"
    <2>1. Shifts(m, r, t, amount, 0)
      BY <1>2, StBurnShifts DEF burnDebt, canBurnDebt
    <2>2. d \in Int /\ 0 <= d
      BY <1>1, UnitNat
    <2>3. Claims(m, t) \in Int /\ Claims(r, t) \in Int
      BY BurnDebtSound, ClaimsInt DEF DebtFrame
    <2> HIDE DEF r, d
    <2>4. Shifts(m, r, t, amount, d)
      BY <2>1, <2>2, <2>3 DEF Shifts
    <2> QED BY <2>4 DEF r, d
  <1>3. CASE mode = "VARIABLE"
    BY <1>3, VarBurnShifts DEF burnDebt, canBurnDebt
  <1> QED BY <1>2, <1>3 DEF Modes

LEMMA LiquidateDebtShifts ==
    ASSUME NEW t \in Nat, NEW m, Sound(m, t), m.lastUpdateTimestamp = t, NEW u \in Users,
           NEW owed \in Nat, NEW n \in Nat, canLiquidateDebt(m, u, owed, n, t)
    PROVE  Shifts(m, liquidateDebt(m, u, owed, n, t), t, n,
                  rayMul(1, m.variableBorrowIndex) + 1)
  <1> DEFINE d == rayMul(1, m.variableBorrowIndex) + 1
  <1>1. d \in Int /\ 0 <= d
    <2>1. m.variableBorrowIndex \in Nat \ {0}
      BY RayAssumption DEF Sound, Market, IndexesStarted
    <2> QED BY <2>1, UnitNat
  <1>2. CASE owed >= n
    BY <1>2, VarBurnShifts DEF liquidateDebt, canLiquidateDebt
  <1>3. CASE ~(owed >= n)
    <2> DEFINE b == IF owed > 0 THEN varBurn(m, u, owed) ELSE m
               k == n - owed
               r == stBurn(b, u, k, t)
    <2>1. /\ liquidateDebt(m, u, owed, n, t) = r /\ k \in Nat
          /\ owed > 0 => canBurnVar(m, u, owed)
          /\ canBurnSt(m, u, k, t)
      BY <1>3 DEF liquidateDebt, canLiquidateDebt
    <2>2. /\ Sound(b, t) /\ SameIndexes(m, b) /\ Shifts(m, b, t, owed, d)
          /\ b.stDebt = m.stDebt /\ b.stRate = m.stRate /\ b.stTime = m.stTime
      <3>1. CASE owed > 0
        BY <2>1, <3>1, VarBurnShifts, VarBurnSound DEF VarFrame
      <3>2. CASE ~(owed > 0)
        <4>1. b = m /\ owed = 0 /\ Claims(m, t) \in Int
          BY <3>2, ClaimsInt
        <4> HIDE DEF b, d
        <4> QED BY <1>1, <4>1 DEF SameIndexes, Shifts
      <3> QED BY <3>1, <3>2
    <2> HIDE DEF b, k
    <2>3. canBurnSt(b, u, k, t) /\ b.lastUpdateTimestamp = t
      BY <2>1, <2>2 DEF canBurnSt, stBalanceOf, SameIndexes
    <2>4. Shifts(b, r, t, k, 0)
      BY <2>1, <2>2, <2>3, StBurnShifts
    <2>5. Sound(r, t)
      BY <2>1, <2>2, <2>3, StBurnSound DEF StFrame
    <2> HIDE DEF r, d
    <2>6. Shifts(m, r, t, owed + k, d + 0)
      BY <1>1, <2>1, <2>2, <2>4, <2>5, ShiftsAdd
    <2>7. owed + k = n /\ d + 0 = d
      BY <1>1 DEF k
    <2> QED BY <2>1, <2>6, <2>7 DEF d
  <1> QED BY <1>2, <1>3

\* What the calls have in common: interest settled first, rates set last, cash moved.
LEMMA SettledKeeps ==
    ASSUME NEW t \in Nat, NEW m, Sound(m, t), NEW c \in Config, canUpdateState(m, c, t),
           ChargesWhatItEarns(m, t), NEW r, r = updateState(m, c, t)
    PROVE  /\ Sound(r, t) /\ r.lastUpdateTimestamp = t /\ IndexesGrow(m, r)
           /\ Claims(r, t) = Claims(m, t) /\ SameDebt(m, r)
  BY UpdateStateSound, UpdateKeepsClaims DEF UpdateFrame

LEMMA RatedKeeps ==
    ASSUME NEW t \in Nat, NEW m, Sound(m, t), m.lastUpdateTimestamp = t, NEW c \in Config,
           NEW added \in Nat, NEW taken \in Nat, canUpdateInterestRates(m, c, added, taken),
           NEW r, r = updateInterestRates(m, c, t, added, taken)
    PROVE  /\ Sound(r, t) /\ r.lastUpdateTimestamp = t /\ IndexesGrow(m, r) /\ SameIndexes(m, r)
           /\ Claims(r, t) = Claims(m, t) /\ SameDebt(m, r)
           /\ r.cash = m.cash /\ r.el = m.el /\ r.elSupply = m.elSupply
  <1>1. /\ ElFrame(m, r, t) /\ r.cash = m.cash /\ r.el = m.el /\ r.elSupply = m.elSupply
    BY UpdateRatesSound
  <1>2. Claims(r, t) = Claims(m, t)
    BY RatesKeepClaims
  <1>3. IndexesGrow(m, r)
    BY <1>1, SameGrow DEF ElFrame, Sound
  <1> QED BY <1>1, <1>2, <1>3 DEF ElFrame, SameIndexes

LEMMA CashKeeps ==
    ASSUME NEW t \in Nat, NEW m, Sound(m, t), m.lastUpdateTimestamp = t, NEW c \in Nat,
           NEW r, r = [m EXCEPT !.cash = c]
    PROVE  /\ Sound(r, t) /\ r.lastUpdateTimestamp = t /\ IndexesGrow(m, r) /\ SameIndexes(m, r)
           /\ Claims(r, t) = Claims(m, t)
  <1>1. ElFrame(m, r, t)
    BY CashChange
  <1>2. Claims(r, t) = Claims(m, t)
    BY CashKeepsClaims
  <1>3. IndexesGrow(m, r)
    BY <1>1, SameGrow DEF ElFrame, Sound
  <1> QED BY <1>1, <1>2, <1>3 DEF ElFrame, SameIndexes

\* LendingPool.deposit: from the wallet of who pays to the elTokens of who is paid for.
LEMMA DepositConserves ==
    ASSUME IInv, IInv', EarnsWhatItCharges, NEW u \in Users, NEW a \in Assets,
           NEW amount \in Nat, NEW onBehalfOf \in Users, deposit(u, a, amount, onBehalfOf)
    PROVE  \A b \in Assets : WealthNear(b)
  <1> DEFINE m  == market[a]
             n  == amount
             k  == -n
             m1 == updateState(m, config[a], now)
             m2 == updateInterestRates(m1, config[a], now, n, 0)
             m3 == [m2 EXCEPT !.cash = @ + n]
             m4 == elMint(m3, onBehalfOf, n)
             d  == rayMul(1, m3.liquidityIndex) + 1
  <1>1. /\ now \in Nat /\ Sound(m, now) /\ config[a] \in Config /\ ChargesWhatItEarns(m, now)
        /\ wallet \in [Users -> [Assets -> Nat]] /\ 0 \in Nat /\ n \in Nat
        /\ k \in Int /\ -k = n
    BY DEF IInv, TypeOK, EarnsWhatItCharges
  <1>2. /\ canUpdateState(m, config[a], now)
        /\ canUpdateInterestRates(m1, config[a], n, 0)
        /\ wallet[u][a] >= n
        /\ market' = [market EXCEPT ![a] = m4]
        /\ wallet' = [wallet EXCEPT ![u][a] = @ - n]
        /\ now' = now
    BY DEF deposit
  <1>3. Paid(wallet, wallet', u, a, k)
    BY <1>1, <1>2, PaidIn
  <1> HIDE DEF n, k
  <1>4. Sound(m1, now) /\ m1.lastUpdateTimestamp = now /\ Claims(m1, now) = Claims(m, now)
    BY <1>1, <1>2, SettledKeeps
  <1> HIDE DEF m1
  <1>5. Sound(m2, now) /\ m2.lastUpdateTimestamp = now /\ Claims(m2, now) = Claims(m1, now)
    <2> DEFINE z == 0
    <2>1. z \in Nat /\ n \in Nat /\ now \in Nat /\ config[a] \in Config
      BY <1>1
    <2>2. canUpdateInterestRates(m1, config[a], n, z)
      BY <1>2
    <2>3. m2 = updateInterestRates(m1, config[a], now, n, z)
      OBVIOUS
    <2> HIDE DEF z, m2
    <2> QED BY <2>1, <2>2, <2>3, <1>4, RatedKeeps
  <1> HIDE DEF m2
  <1>6. m2.cash + n \in Nat
    BY <1>1, <1>5 DEF Sound, Market
  <1>7. Sound(m3, now) /\ m3.lastUpdateTimestamp = now /\ Claims(m3, now) = Claims(m2, now)
    BY <1>1, <1>5, <1>6, CashKeeps
  <1> HIDE DEF m3
  <1>8. ElFrame(m3, m4, now) /\ Shifts(m3, m4, now, n, d)
    BY <1>1, <1>7, ElMintSound, ElMintShifts
  <1> HIDE DEF m4
  <1>9. Sound(m4, now) /\ IndexesGrow(m3, m4)
    BY <1>7, <1>8, SameGrow DEF ElFrame, Sound
  <1>10. d \in Int /\ d <= roundingOfWealth(m4)
    BY <1>1, <1>7, <1>9, Roundings
  <1> HIDE DEF d
  <1>11. Shifts(m, m4, now, -k, d)
    BY <1>1, <1>4, <1>5, <1>7, <1>8 DEF Shifts
  <1> QED BY <1>1, <1>2, <1>3, <1>10, <1>11, OneReserveConserves

\* LendingPool.withdraw: from the elTokens to a wallet.
LEMMA WithdrawConserves ==
    ASSUME IInv, IInv', EarnsWhatItCharges, NEW u \in Users, NEW a \in Assets,
           NEW amount \in Nat, NEW to \in Users, withdraw(u, a, amount, to)
    PROVE  \A b \in Assets : WealthNear(b)
  <1> DEFINE m  == market[a]
             n  == IF amount = UINT256_MAX THEN m.el[u] ELSE amount
             m1 == updateState(m, config[a], now)
             m2 == updateInterestRates(m1, config[a], now, 0, n)
             m3 == elBurn(m2, u, n)
             d  == rayMul(1, m2.liquidityIndex) + 1
  <1>1. /\ now \in Nat /\ Sound(m, now) /\ config[a] \in Config /\ ChargesWhatItEarns(m, now)
        /\ wallet \in [Users -> [Assets -> Nat]] /\ 0 \in Nat
    BY DEF IInv, TypeOK, EarnsWhatItCharges
  <1>2. /\ canUpdateState(m, config[a], now) /\ canUpdateInterestRates(m1, config[a], 0, n)
        /\ canBurnEl(m1, u, n) /\ market' = [market EXCEPT ![a] = m3]
        /\ wallet' = [wallet EXCEPT ![to][a] = @ + n]
        /\ now' = now
    BY DEF withdraw
  <1>3. n \in Nat
    BY <1>1 DEF Sound, Market, Accounts
  <1> HIDE DEF n
  <1>4. Sound(m1, now) /\ m1.lastUpdateTimestamp = now /\ Claims(m1, now) = Claims(m, now)
    BY <1>1, <1>2, SettledKeeps
  <1> HIDE DEF m1
  <1>5. /\ Sound(m2, now) /\ m2.lastUpdateTimestamp = now /\ Claims(m2, now) = Claims(m1, now)
        /\ SameIndexes(m1, m2) /\ m2.cash = m1.cash /\ m2.el = m1.el
        /\ m2.elSupply = m1.elSupply
    BY <1>1, <1>2, <1>3, <1>4, RatedKeeps
  <1> HIDE DEF m2
  <1>6. canBurnEl(m2, u, n)
    BY <1>2, <1>5 DEF SameIndexes, canBurnEl
  <1>7. ElFrame(m2, m3, now) /\ Shifts(m2, m3, now, -n, d)
    BY <1>1, <1>3, <1>5, <1>6, ElBurnSound, ElBurnShifts
  <1> HIDE DEF m3
  <1>8. Sound(m3, now) /\ IndexesGrow(m2, m3)
    BY <1>5, <1>7, SameGrow DEF ElFrame, Sound
  <1>9. d \in Int /\ d <= roundingOfWealth(m3) /\ n \in Int
    BY <1>1, <1>3, <1>5, <1>8, Roundings
  <1> HIDE DEF d
  <1>10. Shifts(m, m3, now, -n, d)
    BY <1>4, <1>5, <1>7 DEF Shifts
  <1>11. Paid(wallet, wallet', to, a, n)
    BY <1>1, <1>2, <1>3, PaidOut
  <1> QED BY <1>1, <1>2, <1>9, <1>10, <1>11, OneReserveConserves


\* LendingPool.borrow: debt for underlying.
LEMMA BorrowConserves ==
    ASSUME IInv, IInv', EarnsWhatItCharges, NEW u \in Users, NEW a \in Assets,
           NEW amount \in Nat, NEW mode \in Modes, NEW onBehalfOf \in Users,
           borrow(u, a, amount, mode, onBehalfOf)
    PROVE  \A b \in Assets : WealthNear(b)
  <1> DEFINE m  == market[a]
             n  == amount
             z  == 0
             m1 == updateState(m, config[a], now)
             m2 == mintDebt(m1, onBehalfOf, n, mode, now)
             m3 == updateInterestRates(m2, config[a], now, z, n)
             c  == m3.cash - n
             m4 == [m3 EXCEPT !.cash = c]
             d  == rayMul(1, m1.variableBorrowIndex) + 1
  <1>1. /\ now \in Nat /\ Sound(m, now) /\ config[a] \in Config /\ ChargesWhatItEarns(m, now)
        /\ wallet \in [Users -> [Assets -> Nat]] /\ z \in Nat /\ n \in Nat /\ n \in Int
    BY DEF IInv, TypeOK, EarnsWhatItCharges
  <1>2. /\ canUpdateState(m, config[a], now) /\ canMintDebt(m1, onBehalfOf, n, mode, now)
        /\ canUpdateInterestRates(m2, config[a], z, n)
        /\ market' = [market EXCEPT ![a] = m4]
        /\ wallet' = [wallet EXCEPT ![u][a] = @ + n]
        /\ now' = now
    BY DEF borrow
  <1> HIDE DEF n, z
  <1>3. Paid(wallet, wallet', u, a, n)
    BY <1>1, <1>2, PaidOut
  <1>4. Sound(m1, now) /\ m1.lastUpdateTimestamp = now /\ Claims(m1, now) = Claims(m, now)
    BY <1>1, <1>2, SettledKeeps
  <1> HIDE DEF m1
  <1>5. DebtFrame(m1, m2, now) /\ Shifts(m1, m2, now, -n, d)
    BY <1>1, <1>2, <1>4, MintDebtSound, MintDebtShifts
  <1> HIDE DEF m2
  <1>6. Sound(m2, now) /\ m2.lastUpdateTimestamp = now /\ SameIndexes(m1, m2)
    BY <1>4, <1>5 DEF DebtFrame, SameIndexes
  <1>7. /\ Sound(m3, now) /\ m3.lastUpdateTimestamp = now /\ Claims(m3, now) = Claims(m2, now)
        /\ SameIndexes(m2, m3)
    BY <1>1, <1>2, <1>6, RatedKeeps
  <1>8. c \in Nat
    <2>1. n <= m2.cash /\ m2.cash \in Nat
      BY <1>2, <1>6 DEF canUpdateInterestRates, Sound, Market, z
    <2>2. m3.cash = m2.cash
      BY <1>1, <1>2, <1>6, RatedKeeps
    <2> HIDE DEF m3
    <2> QED BY <1>1, <2>1, <2>2
  <1> HIDE DEF m3, c
  <1>9. /\ Sound(m4, now) /\ Claims(m4, now) = Claims(m3, now) /\ SameIndexes(m3, m4)
    BY <1>1, <1>7, <1>8, CashKeeps
  <1> HIDE DEF m4
  <1>10. IndexesGrow(m1, m4)
    <2>1. SameIndexes(m1, m4) /\ m1 \in Market
      BY <1>4, <1>6, <1>7, <1>9 DEF SameIndexes, Sound
    <2> QED BY <2>1, SameGrow
  <1>11. d \in Int /\ d <= roundingOfWealth(m4)
    BY <1>1, <1>4, <1>9, <1>10, Roundings
  <1> HIDE DEF d
  <1>12. Shifts(m, m4, now, -n, d)
    BY <1>4, <1>5, <1>7, <1>9 DEF Shifts
  <1> QED BY <1>1, <1>2, <1>3, <1>11, <1>12, OneReserveConserves

\* LendingPool.repay: underlying for debt.
LEMMA RepayConserves ==
    ASSUME IInv, IInv', EarnsWhatItCharges, NEW u \in Users, NEW a \in Assets,
           NEW amount \in Nat, NEW mode \in Modes, NEW onBehalfOf \in Users,
           repay(u, a, amount, mode, onBehalfOf)
    PROVE  \A b \in Assets : WealthNear(b)
  <1> DEFINE m  == market[a]
             n  == paybackAmount(onBehalfOf, a, amount, mode)
             z  == 0
             k  == -n
             m1 == updateState(m, config[a], now)
             m2 == burnDebt(m1, onBehalfOf, n, mode, now)
             m3 == updateInterestRates(m2, config[a], now, n, z)
             c  == m3.cash + n
             m4 == [m3 EXCEPT !.cash = c]
             d  == rayMul(1, m1.variableBorrowIndex) + 1
  <1>1. /\ now \in Nat /\ Sound(m, now) /\ config[a] \in Config /\ ChargesWhatItEarns(m, now)
        /\ wallet \in [Users -> [Assets -> Nat]] /\ z \in Nat
    BY DEF IInv, TypeOK, EarnsWhatItCharges
  <1>2. /\ canUpdateState(m, config[a], now) /\ canBurnDebt(m1, onBehalfOf, n, mode, now)
        /\ canUpdateInterestRates(m2, config[a], n, z)
        /\ wallet[u][a] >= n
        /\ market' = [market EXCEPT ![a] = m4]
        /\ wallet' = [wallet EXCEPT ![u][a] = @ - n]
        /\ now' = now
    BY DEF repay, canRepay, repaid
  <1>3. n \in Nat
    BY <1>1, DebtOfModeNat DEF paybackAmount
  <1> HIDE DEF n, z
  <1>4. k \in Int /\ -k = n /\ Paid(wallet, wallet', u, a, k)
    <2>1. k \in Int /\ -k = n
      BY <1>3
    <2>2. wallet' = [wallet EXCEPT ![u][a] = @ - n] /\ wallet[u][a] >= n
      BY <1>2
    <2>3. Paid(wallet, wallet', u, a, k)
      BY <1>1, <1>3, <2>2, PaidIn
    <2> QED BY <2>1, <2>3
  <1> HIDE DEF k
  <1>5. Sound(m1, now) /\ m1.lastUpdateTimestamp = now /\ Claims(m1, now) = Claims(m, now)
    BY <1>1, <1>2, SettledKeeps
  <1> HIDE DEF m1
  <1>6. DebtFrame(m1, m2, now) /\ Shifts(m1, m2, now, n, d)
    BY <1>1, <1>2, <1>3, <1>5, BurnDebtSound, BurnDebtShifts
  <1> HIDE DEF m2
  <1>7. Sound(m2, now) /\ m2.lastUpdateTimestamp = now /\ SameIndexes(m1, m2)
    BY <1>5, <1>6 DEF DebtFrame, SameIndexes
  <1>8. /\ Sound(m3, now) /\ m3.lastUpdateTimestamp = now /\ Claims(m3, now) = Claims(m2, now)
        /\ SameIndexes(m2, m3)
    BY <1>1, <1>2, <1>3, <1>7, RatedKeeps
  <1> HIDE DEF m3
  <1>9. c \in Nat
    BY <1>3, <1>8 DEF Sound, Market
  <1> HIDE DEF c
  <1>10. /\ Sound(m4, now) /\ Claims(m4, now) = Claims(m3, now) /\ SameIndexes(m3, m4)
    BY <1>1, <1>8, <1>9, CashKeeps
  <1>11. market' = [market EXCEPT ![a] = m4]
    BY <1>2
  <1> HIDE DEF m4
  <1>12. IndexesGrow(m1, m4)
    <2>1. SameIndexes(m1, m4) /\ m1 \in Market
      BY <1>5, <1>7, <1>8, <1>10 DEF SameIndexes, Sound
    <2> QED BY <2>1, SameGrow
  <1>13. d \in Int /\ d <= roundingOfWealth(m4)
    BY <1>1, <1>5, <1>10, <1>12, Roundings
  <1> HIDE DEF d
  <1>14. Shifts(m, m4, now, -k, d)
    BY <1>4, <1>5, <1>6, <1>8, <1>10 DEF Shifts
  <1>15. now' = now
    BY <1>2
  <1> QED BY <1>1, <1>4, <1>11, <1>13, <1>14, <1>15, OneReserveConserves

\* A call that moves no underlying.
LEMMA InsideConserves ==
    ASSUME IInv, IInv', now' = now, wallet' = wallet, NEW a \in Assets, NEW r,
           market' = [market EXCEPT ![a] = r], NEW z, z = 0, NEW d \in Int,
           Shifts(market[a], r, now, z, d), d <= roundingOfWealth(r), NEW u \in Users
    PROVE  \A b \in Assets : WealthNear(b)
  <1>1. z \in Int /\ -z = z
    <2>1. \A i, j \in Int : i + j = 0 => -i = j
      OBVIOUS
    <2>2. z \in Int /\ z + z = 0
      OBVIOUS
    <2> QED BY <2>1, <2>2
  <1>2. wallet \in [Users -> [Assets -> Nat]]
    BY DEF IInv, TypeOK
  <1>3. Paid(wallet, wallet', u, a, z)
    BY <1>2 DEF Paid
  <1>4. Shifts(market[a], r, now, -z, d)
    BY <1>1
  <1> QED BY <1>1, <1>3, <1>4, OneReserveConserves

\* ELToken.transfer: from one user to another.
LEMMA TransferConserves ==
    ASSUME IInv, IInv', NEW from \in Users, NEW to \in Users, NEW a \in Assets,
           NEW amount \in Nat, transfer(from, to, a, amount)
    PROVE  \A b \in Assets : WealthNear(b)
  <1> DEFINE m  == market[a]
             m1 == elTransfer(m, from, to, amount, now)
             z  == 0
             d  == 1
  <1>1. now \in Nat /\ Sound(m, now) /\ z = 0 /\ d \in Int
    BY DEF IInv, TypeOK
  <1>2. /\ canTransferEl(m, from, amount, now) /\ market' = [market EXCEPT ![a] = m1]
        /\ wallet' = wallet /\ now' = now
    BY DEF transfer
  <1>3. Shifts(m, m1, now, z, d)
    BY <1>1, <1>2, TransferShifts
  <1>4. Sound(m1, now) /\ IndexesGrow(m, m1)
    BY <1>1, <1>2, ElTransferSound, SameGrow DEF ElFrame, Sound
  <1> HIDE DEF m1
  <1>5. d <= roundingOfWealth(m1)
    BY <1>1, <1>4, Roundings
  <1> HIDE DEF z, d
  <1> QED BY <1>1, <1>2, <1>3, <1>5, InsideConserves

\* The debt of one mode given back in the other.
LEMMA SwapDebtShifts ==
    ASSUME NEW t \in Nat, NEW m, Sound(m, t), m.lastUpdateTimestamp = t, NEW u \in Users,
           NEW n \in Nat, NEW mode \in Modes, canBurnDebt(m, u, n, mode, t),
           NEW b, b = burnDebt(m, u, n, mode, t), canMintDebt(b, u, n, otherMode(mode), t),
           NEW r, r = mintDebt(b, u, n, otherMode(mode), t), NEW z, z = 0
    PROVE  /\ Sound(r, t) /\ SameIndexes(m, r)
           /\ Shifts(m, r, t, z, rayMul(1, m.variableBorrowIndex) + 1)
  <1> DEFINE d == rayMul(1, m.variableBorrowIndex) + 1
             x == -n
  <1>1. otherMode(mode) \in Modes
    BY DEF otherMode, Modes
  <1>2. Sound(b, t) /\ SameIndexes(m, b) /\ b.lastUpdateTimestamp = t
    BY BurnDebtSound DEF DebtFrame, SameIndexes
  <1>3. Sound(r, t) /\ SameIndexes(b, r)
    BY <1>1, <1>2, MintDebtSound DEF DebtFrame
  <1>4. SameIndexes(m, r) /\ rayMul(1, b.variableBorrowIndex) + 1 = d
    BY <1>2, <1>3 DEF SameIndexes
  <1>5. /\ b.currentStableBorrowRate \in Nat /\ d \in Int /\ z \in Int
        /\ n \in Int /\ x \in Int /\ n + x = z
    <2>1. m.variableBorrowIndex \in Nat \ {0}
      BY RayAssumption DEF Sound, Market, IndexesStarted
    <2>2. d \in Int
      BY <2>1, UnitNat
    <2>3. b.currentStableBorrowRate \in Nat
      BY <1>2 DEF Sound, Market
    <2> HIDE DEF d
    <2> QED BY <2>2, <2>3
  <1>6. d + z = d /\ z + d = d
    <2> HIDE DEF d
    <2> QED BY <1>5
  <1>7. CASE mode = "STABLE"
    <2>1. Shifts(m, b, t, n, 0)
      BY <1>7, StBurnShifts DEF burnDebt, canBurnDebt
    <2>2. Shifts(b, r, t, -n, rayMul(1, b.variableBorrowIndex) + 1)
      BY <1>2, <1>7, VarMintShifts DEF mintDebt, canMintDebt, otherMode
    <2>3. Shifts(m, b, t, n, z) /\ Shifts(b, r, t, x, d)
      BY <1>4, <2>1, <2>2
    <2> HIDE DEF d, x
    <2>4. Shifts(m, r, t, n + x, z + d)
      BY <1>2, <1>3, <1>5, <2>3, ShiftsAdd
    <2> QED BY <1>3, <1>4, <1>5, <1>6, <2>4 DEF d
  <1>8. CASE mode = "VARIABLE"
    <2>1. Shifts(m, b, t, n, d)
      BY <1>8, VarBurnShifts DEF burnDebt, canBurnDebt
    <2>2. Shifts(b, r, t, -n, 0)
      BY <1>2, <1>5, <1>8, StMintShifts DEF mintDebt, canMintDebt, otherMode
    <2>3. Shifts(b, r, t, x, z)
      BY <2>2
    <2> HIDE DEF d, x
    <2>4. Shifts(m, r, t, n + x, d + z)
      BY <1>2, <1>3, <1>5, <2>1, <2>3, ShiftsAdd
    <2> QED BY <1>3, <1>4, <1>5, <1>6, <2>4 DEF d
  <1> QED BY <1>7, <1>8 DEF Modes

\* LendingPool.swapBorrowRateMode.
LEMMA SwapConserves ==
    ASSUME IInv, IInv', EarnsWhatItCharges, NEW u \in Users, NEW a \in Assets,
           NEW mode \in Modes, swapBorrowRateMode(u, a, mode)
    PROVE  \A b \in Assets : WealthNear(b)
  <1> DEFINE m  == market[a]
             n  == debtOfMode(m, u, mode, now)
             z  == 0
             m1 == updateState(m, config[a], now)
             m2 == burnDebt(m1, u, n, mode, now)
             m3 == mintDebt(m2, u, n, otherMode(mode), now)
             m4 == updateInterestRates(m3, config[a], now, z, z)
             d  == rayMul(1, m1.variableBorrowIndex) + 1
  <1>1. /\ now \in Nat /\ Sound(m, now) /\ config[a] \in Config /\ ChargesWhatItEarns(m, now)
        /\ z \in Nat /\ z = 0
    BY DEF IInv, TypeOK, EarnsWhatItCharges
  <1>2. /\ canUpdateState(m, config[a], now) /\ canBurnDebt(m1, u, n, mode, now)
        /\ canMintDebt(m2, u, n, otherMode(mode), now)
        /\ canUpdateInterestRates(m3, config[a], z, z)
        /\ market' = [market EXCEPT ![a] = m4]
        /\ wallet' = wallet /\ now' = now
    BY DEF swapBorrowRateMode
  <1>3. n \in Nat
    BY <1>1, DebtOfModeNat
  <1> HIDE DEF n, z
  <1>4. Sound(m1, now) /\ m1.lastUpdateTimestamp = now /\ Claims(m1, now) = Claims(m, now)
    BY <1>1, <1>2, SettledKeeps
  <1> HIDE DEF m1
  <1>5. Sound(m3, now) /\ SameIndexes(m1, m3) /\ Shifts(m1, m3, now, z, d)
    BY <1>1, <1>2, <1>3, <1>4, SwapDebtShifts
  <1> HIDE DEF m3
  <1>6. m3.lastUpdateTimestamp = now
    BY <1>4, <1>5 DEF SameIndexes
  <1>7. Sound(m4, now) /\ Claims(m4, now) = Claims(m3, now) /\ SameIndexes(m3, m4)
    BY <1>1, <1>2, <1>5, <1>6, RatedKeeps
  <1> HIDE DEF m4
  <1>8. IndexesGrow(m1, m4)
    <2>1. SameIndexes(m1, m4) /\ m1 \in Market
      BY <1>4, <1>5, <1>7 DEF SameIndexes, Sound
    <2> QED BY <2>1, SameGrow
  <1>9. d \in Int /\ d <= roundingOfWealth(m4)
    BY <1>1, <1>4, <1>7, <1>8, Roundings
  <1> HIDE DEF d
  <1>10. Shifts(m, m4, now, z, d)
    BY <1>4, <1>5, <1>7 DEF Shifts
  <1> QED BY <1>1, <1>2, <1>9, <1>10, InsideConserves


\* LendingPool.rebalanceStableBorrowRate, as the revisions 3 and 4 give back the debt.
LEMMA RebalanceConserves ==
    ASSUME IInv, IInv', EarnsWhatItCharges, REVISION # 2, NEW u \in Users, NEW a \in Assets,
           rebalanceStableBorrowRate(a, u)
    PROVE  \A b \in Assets : WealthNear(b)
  <1> DEFINE m  == market[a]
             n  == stBalanceOf(m, u, now)
             x  == -n
             z  == 0
             m1 == updateState(m, config[a], now)
             m2 == stBurn(m1, u, n, now)
             m3 == stMint(m2, u, n, m2.currentStableBorrowRate, now)
             m4 == updateInterestRates(m3, config[a], now, z, z)
  <1>1. /\ now \in Nat /\ Sound(m, now) /\ config[a] \in Config /\ ChargesWhatItEarns(m, now)
        /\ z \in Nat /\ z = 0
    BY DEF IInv, TypeOK, EarnsWhatItCharges
  <1>2. /\ canUpdateState(m, config[a], now) /\ canBurnSt(m1, u, n, now)
        /\ canMintSt(m2, u, n, now)
        /\ canUpdateInterestRates(m3, config[a], z, z)
        /\ market' = [market EXCEPT ![a] = m4]
        /\ wallet' = wallet /\ now' = now
    BY DEF rebalanceStableBorrowRate, rebalanced, canRebalance
  <1>3. n \in Nat
    <2>1. "STABLE" \in Modes /\ n = debtOfMode(m, u, "STABLE", now)
      BY DEF Modes, debtOfMode
    <2> QED BY <1>1, <2>1, DebtOfModeNat
  <1> HIDE DEF n, z
  <1>4. Sound(m1, now) /\ m1.lastUpdateTimestamp = now /\ Claims(m1, now) = Claims(m, now)
    BY <1>1, <1>2, SettledKeeps
  <1> HIDE DEF m1
  <1>5. StFrame(m1, m2, now) /\ Shifts(m1, m2, now, n, z)
    BY <1>1, <1>2, <1>3, <1>4, StBurnSound, StBurnShifts
  <1> HIDE DEF m2
  <1>6. Sound(m2, now) /\ m2.lastUpdateTimestamp = now /\ m2.currentStableBorrowRate \in Nat
    BY <1>4, <1>5 DEF StFrame, SameIndexes, Sound, Market
  <1>7. StFrame(m2, m3, now) /\ Shifts(m2, m3, now, x, z)
    BY <1>1, <1>2, <1>3, <1>6, StMintSound, StMintShifts
  <1> HIDE DEF m3
  <1>8. Sound(m3, now) /\ m3.lastUpdateTimestamp = now /\ SameIndexes(m1, m3)
    BY <1>4, <1>5, <1>7 DEF StFrame, SameIndexes
  <1>9. n \in Int /\ x \in Int /\ z \in Int /\ n + x = z /\ z + z = z
    BY <1>1, <1>3
  <1> HIDE DEF x
  <1>10. Shifts(m1, m3, now, z, z)
    <2>1. Shifts(m1, m3, now, n + x, z + z)
      BY <1>1, <1>4, <1>5, <1>6, <1>7, <1>8, <1>9, ShiftsAdd
    <2> QED BY <1>9, <2>1
  <1>11. Sound(m4, now) /\ Claims(m4, now) = Claims(m3, now) /\ SameIndexes(m3, m4)
    BY <1>1, <1>2, <1>8, RatedKeeps
  <1> HIDE DEF m4
  <1>12. z <= roundingOfWealth(m4)
    <2>1. SameIndexes(m4, m4) /\ m4 \in Market
      BY <1>11 DEF SameIndexes, Sound
    <2>2. roundingOfWealth(m4) \in Int /\ 1 <= roundingOfWealth(m4)
      BY <1>1, <1>11, <2>1, SameGrow, Roundings
    <2> QED BY <1>1, <2>2
  <1>13. Shifts(m, m4, now, z, z)
    BY <1>4, <1>10, <1>11 DEF Shifts
  <1> QED BY <1>1, <1>2, <1>9, <1>12, <1>13, InsideConserves


\* The two parts of a liquidation, and the units they round by.
elUnit(m) == rayMul(1, m.liquidityIndex) + 1

varUnit(m) == rayMul(1, m.variableBorrowIndex) + 1

LEMMA UnitsGrow ==
    ASSUME NEW t \in Nat, NEW m, NEW r, Sound(m, t), Sound(r, t), IndexesGrow(m, r)
    PROVE  /\ elUnit(m) \in Int /\ elUnit(r) \in Int /\ elUnit(m) <= elUnit(r) /\ 1 <= elUnit(r)
           /\ varUnit(m) \in Int /\ varUnit(r) \in Int /\ varUnit(m) <= varUnit(r)
           /\ roundingOfWealth(r) \in Int
           /\ varUnit(r) + elUnit(r) <= roundingOfWealth(r)
           /\ varUnit(r) <= roundingOfWealth(r) /\ elUnit(r) <= roundingOfWealth(r)
  <1> DEFINE i0 == m.liquidityIndex
             i1 == r.liquidityIndex
             v0 == m.variableBorrowIndex
             v1 == r.variableBorrowIndex
  <1>1. /\ i0 \in Nat \ {0} /\ i1 \in Nat \ {0} /\ v0 \in Nat \ {0} /\ v1 \in Nat \ {0}
        /\ i0 <= i1 /\ v0 <= v1
    BY RayAssumption DEF Sound, Market, IndexesStarted, IndexesGrow
  <1>2. /\ roundingOfWealth(r) = rayMul(1, i1) + rayMul(1, v1) + 2
        /\ elUnit(m) = rayMul(1, i0) + 1 /\ elUnit(r) = rayMul(1, i1) + 1
        /\ varUnit(m) = rayMul(1, v0) + 1 /\ varUnit(r) = rayMul(1, v1) + 1
    BY DEF roundingOfWealth, elUnit, varUnit
  <1> HIDE DEF i0, i1, v0, v1
  <1>3. /\ rayMul(1, i0) \in Nat /\ rayMul(1, i1) \in Nat
        /\ rayMul(1, v0) \in Nat /\ rayMul(1, v1) \in Nat
    BY <1>1, UnitNat
  <1>4. rayMul(1, i0) <= rayMul(1, i1) /\ rayMul(1, v0) <= rayMul(1, v1)
    <2>1. 1 \in Nat
      OBVIOUS
    <2> QED BY <1>1, <2>1, RayMulMonotone
  <1>5. PICK p0 \in Nat, p1 \in Nat, q0 \in Nat, q1 \in Nat :
          /\ p0 = rayMul(1, i0) /\ p1 = rayMul(1, i1)
          /\ q0 = rayMul(1, v0) /\ q1 = rayMul(1, v1)
    BY <1>3
  <1> QED BY <1>2, <1>4, <1>5

LEMMA ShiftsWiden ==
    ASSUME NEW t \in Nat, NEW m, NEW r, Sound(m, t), Sound(r, t), NEW x \in Int,
           NEW d \in Int, NEW e \in Int, d <= e, Shifts(m, r, t, x, d)
    PROVE  Shifts(m, r, t, x, e)
  <1>1. Claims(m, t) \in Int /\ Claims(r, t) \in Int
    BY ClaimsInt
  <1> QED BY <1>1 DEF Shifts

\* A reserve that is up to date charges no interest.
LEMMA FreshCharges ==
    ASSUME NEW t \in Nat, NEW m, m.lastUpdateTimestamp = t
    PROVE  ChargesWhatItEarns(m, t)
  <1>1. \A rate : calculateCompoundedInterest(rate, t, t) = RAY
    BY DEF calculateCompoundedInterest
  <1> QED BY <1>1 DEF ChargesWhatItEarns

\* The debt that is liquidated.
LEMMA CoveredShifts ==
    ASSUME NEW t \in Nat, NEW m, Sound(m, t), NEW c \in Config, canUpdateState(m, c, t),
           ChargesWhatItEarns(m, t), NEW u \in Users, NEW owed \in Nat, NEW n \in Nat,
           NEW m1, m1 = updateState(m, c, t), canLiquidateDebt(m1, u, owed, n, t),
           NEW m2, m2 = liquidateDebt(m1, u, owed, n, t), NEW z \in Nat,
           canUpdateInterestRates(m2, c, n, z),
           NEW r, r = updateInterestRates(m2, c, t, n, z)
    PROVE  /\ Sound(r, t) /\ r.lastUpdateTimestamp = t /\ Shifts(m, r, t, n, varUnit(r))
  <1>1. Sound(m1, t) /\ m1.lastUpdateTimestamp = t /\ Claims(m1, t) = Claims(m, t)
    BY SettledKeeps
  <1>2. DebtFrame(m1, m2, t) /\ Shifts(m1, m2, t, n, rayMul(1, m1.variableBorrowIndex) + 1)
    BY <1>1, LiquidateDebtSound, LiquidateDebtShifts
  <1>3. Sound(m2, t) /\ m2.lastUpdateTimestamp = t /\ SameIndexes(m1, m2)
    BY <1>1, <1>2 DEF DebtFrame, SameIndexes
  <1>4. /\ Sound(r, t) /\ r.lastUpdateTimestamp = t /\ Claims(r, t) = Claims(m2, t)
        /\ SameIndexes(m2, r)
    BY <1>3, RatedKeeps
  <1>5. rayMul(1, m1.variableBorrowIndex) + 1 = varUnit(r)
    BY <1>3, <1>4 DEF SameIndexes, varUnit
  <1> QED BY <1>1, <1>2, <1>4, <1>5 DEF Shifts

\* The collateral that is paid out or handed over.
LEMMA BurntShifts ==
    ASSUME NEW t \in Nat, NEW m, Sound(m, t), NEW c \in Config, canUpdateState(m, c, t),
           ChargesWhatItEarns(m, t), NEW u \in Users, NEW n \in Nat, NEW z \in Nat,
           NEW m1, m1 = updateState(m, c, t), canUpdateInterestRates(m1, c, z, n),
           NEW m2, m2 = updateInterestRates(m1, c, t, z, n), canBurnEl(m1, u, n),
           NEW r, r = elBurn(m2, u, n)
    PROVE  Sound(r, t) /\ IndexesGrow(m, r) /\ Shifts(m, r, t, -n, elUnit(r))
  <1>1. /\ Sound(m1, t) /\ m1.lastUpdateTimestamp = t /\ Claims(m1, t) = Claims(m, t)
        /\ IndexesGrow(m, m1)
    BY SettledKeeps
  <1>2. /\ Sound(m2, t) /\ m2.lastUpdateTimestamp = t /\ Claims(m2, t) = Claims(m1, t)
        /\ SameIndexes(m1, m2) /\ m2.cash = m1.cash /\ m2.el = m1.el
        /\ m2.elSupply = m1.elSupply
    BY <1>1, RatedKeeps
  <1>3. canBurnEl(m2, u, n)
    BY <1>2 DEF SameIndexes, canBurnEl
  <1>4. ElFrame(m2, r, t) /\ Shifts(m2, r, t, -n, rayMul(1, m2.liquidityIndex) + 1)
    BY <1>2, <1>3, ElBurnSound, ElBurnShifts
  <1>5. rayMul(1, m2.liquidityIndex) + 1 = elUnit(r)
    BY <1>4 DEF ElFrame, SameIndexes, elUnit
  <1>6. IndexesGrow(m, r)
    BY <1>1, <1>2, <1>4 DEF ElFrame, SameIndexes, IndexesGrow
  <1> QED BY <1>1, <1>2, <1>4, <1>5, <1>6 DEF Shifts, ElFrame

LEMMA HandedShifts ==
    ASSUME NEW t \in Nat, NEW m, Sound(m, t), NEW from \in Users, NEW to \in Users,
           NEW n \in Nat, canTransferEl(m, from, n, t), NEW r, r = elTransfer(m, from, to, n, t)
    PROVE  Sound(r, t) /\ IndexesGrow(m, r) /\ Shifts(m, r, t, 0, elUnit(r))
  <1>1. ElFrame(m, r, t) /\ Shifts(m, r, t, 0, 1)
    BY ElTransferSound, TransferShifts
  <1>2. Sound(r, t) /\ IndexesGrow(m, r)
    BY <1>1, SameGrow DEF ElFrame, Sound
  <1>3. elUnit(r) \in Int /\ 1 <= elUnit(r)
    BY <1>2, UnitsGrow
  <1>4. Shifts(m, r, t, 0, elUnit(r))
    BY <1>1, <1>2, <1>3, ShiftsWiden
  <1> QED BY <1>2, <1>4


\* A reserve that is up to date stays so.
LEMMA ClockKept ==
    ASSUME NEW t \in Nat, NEW m, NEW r, Sound(r, t), IndexesGrow(m, r),
           m.lastUpdateTimestamp = t
    PROVE  r.lastUpdateTimestamp = t
  BY DEF Sound, Market, ClocksOrdered, IndexesGrow

\* Two shifts and two payments, in two reserves or in one.
LEMMA PartsConserve ==
    ASSUME IInv, IInv', now' = now, NEW l \in Users, NEW c \in Assets, NEW d \in Assets,
           NEW n \in Nat, NEW q \in Nat, NEW d3, NEW c0, NEW c3,
           Sound(d3, now), d3.lastUpdateTimestamp = now,
           Shifts(market[d], d3, now, n, varUnit(d3)),
           Sound(c3, now), IndexesGrow(c0, c3), Shifts(c0, c3, now, -q, elUnit(c3)),
           NEW received \in [Users -> [Assets -> Nat]],
           Paid(wallet, received, l, c, q), Paid(received, wallet', l, d, -n),
           c # d => /\ market'[d] = [d3 EXCEPT !.cash = @ + n]
                    /\ market'[c] = c3 /\ c0 = market[c],
           c = d => market'[d] = [c3 EXCEPT !.cash = @ + n] /\ c0 = d3,
           \A b \in Assets \ {c, d} : market'[b] = market[b]
    PROVE  \A b \in Assets : WealthNear(b)
  <1> DEFINE x == n
             y == -q
             kn == -n
  <1>1. /\ now \in Nat /\ \A b \in Assets : Sound(market[b], now) /\ Sound(market'[b], now)
        /\ wallet \in [Users -> [Assets -> Nat]]
    BY DEF IInv, TypeOK
  <1>2. x \in Int /\ y \in Int /\ kn \in Int /\ q \in Int
    OBVIOUS
  <1>3. \A b \in Assets : Purses(wallet, b) \in Int
    BY <1>1, WealthSplits
  <1>4. /\ Purses(received, c) = Purses(wallet, c) + q
        /\ \A b \in Assets \ {c} : Purses(received, b) = Purses(wallet, b)
    BY <1>1, <1>2, PursesMove
  <1>5. /\ Purses(wallet', d) = Purses(received, d) + kn
        /\ \A b \in Assets \ {d} : Purses(wallet', b) = Purses(received, b)
    <2>1. Paid(received, wallet', l, d, kn)
      OBVIOUS
    <2> HIDE DEF kn
    <2> QED BY <1>2, <2>1, PursesMove
  <1>6. /\ c # d => /\ Purses(wallet', d) = Purses(wallet, d) - x
                    /\ Purses(wallet', c) = Purses(wallet, c) - y
        /\ c = d => Purses(wallet', d) = Purses(wallet, d) - (x + y)
        /\ \A b \in Assets \ {c, d} : Purses(wallet', b) = Purses(wallet, b) - 0
    BY <1>3, <1>4, <1>5
  <1>7. /\ x = n /\ Shifts(market[d], d3, now, x, varUnit(d3))
        /\ Shifts(c0, c3, now, y, elUnit(c3))
    OBVIOUS
  <1> HIDE DEF x, y, kn
  \* reserves neither of them
  <1>8. ASSUME NEW b \in Assets \ {c, d}
        PROVE  WealthNear(b)
    <2>1. Claims(market[b], now) \in Int /\ market'[b] = market[b]
      BY <1>1, ClaimsInt
    <2> DEFINE z == 0
    <2>2. /\ Shifts(market[b], market'[b], now, z, z) /\ z \in Int
          /\ Purses(wallet', b) = Purses(wallet, b) - z
      BY <1>6, <2>1 DEF Shifts
    <2>3. roundingOfWealth(market'[b]) \in Int /\ z <= roundingOfWealth(market'[b])
      <3> DEFINE m == market'[b]
      <3>1. Sound(m, now) /\ SameIndexes(m, m) /\ m \in Market
        BY <1>1 DEF SameIndexes, Sound
      <3> HIDE DEF m
      <3>2. roundingOfWealth(m) \in Int /\ 1 <= roundingOfWealth(m)
        BY <1>1, <3>1, SameGrow, Roundings
      <3> QED BY <3>2 DEF m
    <2> HIDE DEF z
    <2> QED BY <2>2, <2>3, Conserving
  \* the collateral reserve alone
  <1>9. ASSUME c # d
        PROVE  WealthNear(c)
    <2> DEFINE e == elUnit(c3)
    <2>1. market'[c] = c3 /\ c0 = market[c] /\ Purses(wallet', c) = Purses(wallet, c) - y
      BY <1>6, <1>9
    <2>2. e \in Int /\ e <= roundingOfWealth(c3) /\ roundingOfWealth(c3) \in Int
      <3>1. SameIndexes(c3, c3) /\ c3 \in Market
        BY DEF SameIndexes, Sound
      <3> QED BY <1>1, <3>1, SameGrow, UnitsGrow
    <2>3. Shifts(market[c], market'[c], now, y, e)
      BY <1>7, <2>1
    <2> HIDE DEF e
    <2> QED BY <1>2, <2>1, <2>2, <2>3, Conserving
  \* the debt reserve alone
  <1>10. ASSUME c # d
         PROVE  WealthNear(d)
    <2> DEFINE e == varUnit(d3)
               r == market'[d]
               k == d3.cash + x
    <2>1. r = [d3 EXCEPT !.cash = k] /\ Purses(wallet', d) = Purses(wallet, d) - x
      BY <1>6, <1>7, <1>10
    <2>2. k \in Nat
      BY <1>7 DEF Sound, Market
    <2> HIDE DEF k, r
    <2>3. /\ Sound(r, now) /\ IndexesGrow(d3, r) /\ SameIndexes(d3, r)
          /\ Claims(r, now) = Claims(d3, now)
      BY <1>1, <2>1, <2>2, CashKeeps
    <2>4. e \in Int /\ e <= roundingOfWealth(r) /\ roundingOfWealth(r) \in Int
      <3>1. varUnit(d3) = varUnit(r)
        BY <2>3 DEF SameIndexes, varUnit
      <3> QED BY <1>1, <2>3, <3>1, UnitsGrow
    <2>5. Shifts(market[d], r, now, x, e)
      BY <1>7, <2>3 DEF Shifts
    <2> HIDE DEF e
    <2> QED BY <1>2, <2>1, <2>4, <2>5, Conserving DEF r
  \* both in one reserve
  <1>11. ASSUME c = d
         PROVE  WealthNear(d)
    <2> DEFINE v == varUnit(d3)
               e == elUnit(c3)
               w == varUnit(c3)
               r == market'[d]
               k == c3.cash + x
               s == x + y
               f == v + e
    <2>1. r = [c3 EXCEPT !.cash = k] /\ c0 = d3 /\ Purses(wallet', d) = Purses(wallet, d) - s
      BY <1>6, <1>7, <1>11
    <2>2. k \in Nat
      BY <1>7 DEF Sound, Market
    <2> HIDE DEF k, r
    <2>3. /\ Sound(r, now) /\ SameIndexes(c3, r) /\ Claims(r, now) = Claims(c3, now)
      <3>1. c3.lastUpdateTimestamp = now
        BY <1>1, <2>1, ClockKept
      <3> QED BY <1>1, <2>1, <2>2, <3>1, CashKeeps
    <2>4. f \in Int /\ f <= roundingOfWealth(r) /\ roundingOfWealth(r) \in Int
      <3>1. /\ v \in Int /\ v <= w /\ w \in Int /\ e \in Int
            /\ w + e <= roundingOfWealth(c3) /\ roundingOfWealth(c3) \in Int
        BY <1>1, <2>1, UnitsGrow
      <3>2. roundingOfWealth(r) = roundingOfWealth(c3)
        BY <2>3 DEF SameIndexes, roundingOfWealth
      <3> HIDE DEF v, e, w
      <3> QED BY <3>1, <3>2
    <2>5. v \in Int /\ e \in Int
      BY <1>1, <2>1, UnitsGrow
    <2> HIDE DEF v, e
    <2>6. Shifts(market[d], d3, now, x, v) /\ Shifts(d3, c3, now, y, e)
      BY <1>7, <2>1 DEF v, e
    <2>7. Shifts(market[d], c3, now, s, f)
      BY <1>1, <1>2, <2>5, <2>6, ShiftsAdd
    <2>8. Shifts(market[d], r, now, s, f) /\ s \in Int
      BY <1>2, <2>3, <2>7 DEF Shifts
    <2> HIDE DEF s, f
    <2> QED BY <2>1, <2>4, <2>8, Conserving DEF r
  <1> QED BY <1>8, <1>9, <1>10, <1>11


\* LendingPool.liquidationCall, also when both reserves are the same.
LEMMA LiquidationConserves ==
    ASSUME IInv, IInv', EarnsWhatItCharges, NEW l \in Users, NEW c \in Assets, NEW d \in Assets,
           NEW user \in Users, NEW amount \in Nat, NEW receiveLToken,
           liquidationCall(l, c, d, user, amount, receiveLToken)
    PROVE  \A b \in Assets : WealthNear(b)
  <1> DEFINE amounts == liquidationAmounts(c, d, user, amount)
             seized == amounts.collateral
             n == amounts.debt
             owed == varBalanceOf(market[d], user, now)
             z == 0
             d1 == updateState(market[d], config[d], now)
             d2 == liquidateDebt(d1, user, owed, n, now)
             d3 == updateInterestRates(d2, config[d], now, n, z)
             mkt1 == [market EXCEPT ![d] = d3]
             c0 == mkt1[c]
             c1 == updateState(c0, config[c], now)
             c2 == updateInterestRates(c1, config[c], now, z, seized)
             c3 == IF receiveLToken THEN elTransfer(c0, user, l, seized, now)
                                    ELSE elBurn(c2, user, seized)
             mkt2 == [mkt1 EXCEPT ![c] = c3]
             q == IF receiveLToken THEN 0 ELSE seized
             received == IF receiveLToken THEN wallet
                         ELSE [wallet EXCEPT ![l][c] = @ + seized]
  <1>1. /\ now \in Nat /\ config[c] \in Config /\ config[d] \in Config /\ z \in Nat
        /\ \A a \in Assets : Sound(market[a], now) /\ ChargesWhatItEarns(market[a], now)
        /\ market \in [Assets -> Market] /\ wallet \in [Users -> [Assets -> Nat]]
    BY DEF IInv, TypeOK, EarnsWhatItCharges
  <1>2. /\ canUpdateState(market[d], config[d], now)
        /\ canLiquidateDebt(d1, user, owed, n, now)
        /\ canUpdateInterestRates(d2, config[d], n, z)
        /\ receiveLToken => canTransferEl(c0, user, seized, now)
        /\ ~receiveLToken => /\ canUpdateState(c0, config[c], now)
                             /\ canUpdateInterestRates(c1, config[c], z, seized)
                             /\ canBurnEl(c1, user, seized)
        /\ received[l][d] >= n
        /\ market' = [mkt2 EXCEPT ![d].cash = @ + n]
        /\ wallet' = [received EXCEPT ![l][d] = @ - n]
        /\ now' = now
    BY DEF liquidationCall
  <1>3. seized \in Nat /\ n \in Nat
    BY LiquidatedDebt
  <1>4. owed \in Nat
    BY <1>1, NoHiddenDebt
  <1> HIDE DEF amounts, seized, n, owed, z
  \* the debt reserve
  <1>5. /\ Sound(d3, now) /\ d3.lastUpdateTimestamp = now
        /\ Shifts(market[d], d3, now, n, varUnit(d3))
    BY <1>1, <1>2, <1>3, <1>4, CoveredShifts
  <1> HIDE DEF d1, d2, d3
  \* the collateral reserve
  <1>6. Sound(c0, now) /\ ChargesWhatItEarns(c0, now) /\ mkt1 \in [Assets -> Market]
    <2>1. c0 = IF c = d THEN d3 ELSE market[c]
      BY <1>1
    <2>2. ChargesWhatItEarns(d3, now)
      BY <1>1, <1>5, FreshCharges
    <2>3. mkt1 \in [Assets -> Market]
      BY <1>1, <1>5 DEF Sound
    <2> QED BY <1>1, <1>5, <2>1, <2>2, <2>3
  <1> HIDE DEF c0
  <1>7. /\ q \in Nat /\ Sound(c3, now) /\ IndexesGrow(c0, c3)
        /\ Shifts(c0, c3, now, -q, elUnit(c3))
    <2>1. CASE receiveLToken
      <3>1. q = 0 /\ c3 = elTransfer(c0, user, l, seized, now)
        BY <2>1
      <3>2. -q = 0
        <4>1. \A i, j \in Int : i + j = 0 => -i = j
          OBVIOUS
        <4>2. q \in Int /\ q + q = 0
          BY <3>1
        <4> HIDE DEF q
        <4> QED BY <3>1, <4>1, <4>2
      <3>3. canTransferEl(c0, user, seized, now)
        BY <1>2, <2>1
      <3> HIDE DEF c3, q
      <3>4. /\ Sound(c3, now) /\ IndexesGrow(c0, c3)
            /\ Shifts(c0, c3, now, 0, elUnit(c3))
        BY <1>1, <1>3, <1>6, <3>1, <3>3, HandedShifts
      <3> QED BY <3>1, <3>2, <3>4
    <2>2. CASE ~receiveLToken
      <3>1. q = seized /\ c3 = elBurn(c2, user, seized)
        BY <2>2
      <3>2. /\ canUpdateState(c0, config[c], now)
            /\ canUpdateInterestRates(c1, config[c], z, seized)
            /\ canBurnEl(c1, user, seized)
        BY <1>2, <2>2
      <3> HIDE DEF c3, q
      <3> QED BY <1>1, <1>3, <1>6, <3>1, <3>2, BurntShifts
    <2> QED BY <2>1, <2>2
  \* the wallet of the liquidator
  <1>8. Paid(wallet, received, l, c, q) /\ received \in [Users -> [Assets -> Nat]]
    <2>1. CASE receiveLToken
      <3>1. received = wallet /\ q = 0
        BY <2>1
      <3> HIDE DEF received, q
      <3> QED BY <1>1, <3>1 DEF Paid
    <2>2. CASE ~receiveLToken
      <3>1. received = [wallet EXCEPT ![l][c] = @ + seized] /\ q = seized
        BY <2>2
      <3> HIDE DEF received, q
      <3>2. Paid(wallet, received, l, c, q)
        BY <1>1, <1>3, <3>1, PaidOut
      <3> QED BY <3>2 DEF Paid
    <2> QED BY <2>1, <2>2
  <1> HIDE DEF received, c3, q
  <1>9. Paid(received, wallet', l, d, -n)
    BY <1>2, <1>3, <1>8, PaidIn
  \* the markets
  <1>10. /\ c # d => /\ market'[d] = [d3 EXCEPT !.cash = @ + n]
                     /\ market'[c] = c3 /\ c0 = market[c]
         /\ c = d => /\ market'[d] = [c3 EXCEPT !.cash = @ + n] /\ c0 = d3
         /\ \A b \in Assets \ {c, d} : market'[b] = market[b]
    BY <1>1, <1>2 DEF c0
  <1> QED BY <1>1, <1>2, <1>3, <1>5, <1>6, <1>7, <1>8, <1>9, <1>10, PartsConserve


\* A call that leaves the reserves and the wallets alone.
LEMMA UnmovedConserves ==
    ASSUME IInv, IInv', now' = now, market' = market, wallet' = wallet
    PROVE  \A b \in Assets : WealthNear(b)
  <1>1. now \in Nat /\ wallet \in [Users -> [Assets -> Nat]]
    BY DEF IInv, TypeOK
  <1>2. TAKE b \in Assets
  <1> DEFINE m == market[b]
             z == 0
  <1>3. Sound(m, now) /\ market'[b] = m
    BY DEF IInv
  <1>4. Claims(m, now) \in Int /\ Purses(wallet, b) \in Int
    BY <1>1, <1>3, ClaimsInt, WealthSplits
  <1>5. Shifts(m, m, now, z, z) /\ Purses(wallet', b) = Purses(wallet, b) - z /\ z \in Int
    BY <1>4 DEF Shifts
  <1>6. roundingOfWealth(m) \in Int /\ z <= roundingOfWealth(m)
    <2>1. SameIndexes(m, m) /\ m \in Market
      BY <1>3 DEF SameIndexes, Sound
    <2> HIDE DEF m
    <2>2. roundingOfWealth(m) \in Int /\ 1 <= roundingOfWealth(m)
      BY <1>1, <1>3, <2>1, SameGrow, Roundings
    <2> QED BY <2>2
  <1> HIDE DEF z
  <1> QED BY <1>3, <1>5, <1>6, Conserving

LEMMA StepConserves ==
    ASSUME REVISION # 2, IInv, IInv', EarnsWhatItCharges, [Next]_vars, now' = now
    PROVE  \A b \in Assets : WealthNear(b)
  <1>1. \A op \in Operations : Calls[op] \subseteq Users \X Users \X Assets
    BY BoundsAssumption
  <1>2. Amounts \subseteq Nat /\ BorrowModes \subseteq Modes
    BY BoundsAssumption DEF Modes
  <1>3. CASE Deposits(Users)
    <2>1. PICK x \in Users, y \in Users, a \in Assets, amount \in Amounts :
              deposit(x, a, amount, y)
      BY <1>1, <1>3 DEF Deposits, Operations, CallsOf
    <2> QED BY <1>2, <2>1, DepositConserves
  <1>4. CASE Withdrawals(Users)
    <2>1. PICK x \in Users, y \in Users, a \in Assets, amount \in Amounts :
              withdraw(x, a, amount, y)
      BY <1>1, <1>4 DEF Withdrawals, Operations, CallsOf
    <2> QED BY <1>2, <2>1, WithdrawConserves
  <1>5. CASE Transfers(Users)
    <2>1. PICK x \in Users, y \in Users, a \in Assets, amount \in Amounts :
              transfer(x, y, a, amount)
      BY <1>1, <1>5 DEF Transfers, Operations, CallsOf
    <2> QED BY <1>2, <2>1, TransferConserves
  <1>6. CASE Borrowings(Users)
    <2>1. PICK x \in Users, y \in Users, a \in Assets, amount \in Amounts, mode \in BorrowModes :
              borrow(x, a, amount, mode, y)
      BY <1>1, <1>6 DEF Borrowings, Operations, CallsOf
    <2> QED BY <1>2, <2>1, BorrowConserves
  <1>7. CASE Repayments(Users)
    <2>1. PICK x \in Users, y \in Users, a \in Assets, amount \in Amounts, mode \in BorrowModes :
              repay(x, a, amount, mode, y)
      BY <1>1, <1>7 DEF Repayments, Operations, CallsOf
    <2> QED BY <1>2, <2>1, RepayConserves
  <1>8. CASE Swaps(Users)
    <2>1. PICK x \in Users, a \in Assets, mode \in BorrowModes : swapBorrowRateMode(x, a, mode)
      BY <1>1, <1>8 DEF Swaps, Operations, CallsOf
    <2> QED BY <1>2, <2>1, SwapConserves
  <1>9. CASE Rebalances(Users)
    <2>1. PICK x \in Users, a \in Assets : rebalanceStableBorrowRate(a, x)
      BY <1>1, <1>9 DEF Rebalances, Operations, CallsOf
    <2> QED BY <2>1, RebalanceConserves
  <1>10. CASE Liquidations(Users)
    <2>1. PICK l \in Users, user \in Users, c \in Assets, d \in Assets, amount \in Amounts,
               f \in BOOLEAN : liquidationCall(l, c, d, user, amount, f)
      BY <1>1, <1>10 DEF Liquidations, Operations, CallsOf
    <2> QED BY <1>2, <2>1, LiquidationConserves
  <1>11. CASE CollateralChoices(Users) \/ Delegatings(Users) \/ Tick \/ Quotes \/ UNCHANGED vars
    <2>1. market' = market /\ wallet' = wallet
      BY <1>11 DEF CollateralChoices, setUserUseReserveAsCollateral, Delegatings, CallsOf,
                   approveDelegation, Tick, Quotes, SetPrice, vars
    <2> QED BY <2>1, UnmovedConserves
  <1> QED BY <1>3, <1>4, <1>5, <1>6, <1>7, <1>8, <1>9, <1>10, <1>11 DEF Next, UserCalls

\* No call creates or destroys value: whoever deposits, withdraws, transfers,
\* borrows, repays, swaps, rebalances or liquidates, the underlying and the claims
\* of all users in each reserve are worth the same after the call, up to the
\* rounding of one mint or burn of each token.  Revision 2 is left out: its
\* rebalancing scales the debt it gives back by a rate.
THEOREM WealthIsConserved ==
    ASSUME REVISION # 2
    PROVE  Spec /\ []EarnsWhatItCharges => WealthConserved
  <1> DEFINE Conserves ==
               now' = now =>
                 \A a \in Assets :
                    /\ usersWealth(a)' - usersWealth(a) <= roundingOfWealth(market'[a])
                    /\ usersWealth(a) - usersWealth(a)' <= roundingOfWealth(market'[a])
  <1>1. IInv /\ EarnsWhatItCharges /\ [Next]_vars => Conserves
    <2> SUFFICES ASSUME IInv, EarnsWhatItCharges, [Next]_vars, now' = now
                 PROVE  \A a \in Assets : WealthNear(a)
      BY DEF WealthNear
    <2>1. IInv'
      BY NextPreserves DEF Preserved
    <2> QED BY REVISION # 2, <2>1, StepConserves
  <1>2. WealthConserved <=> [][Conserves]_vars
    BY DEF WealthConserved
  <1> HIDE DEF Conserves
  <1>3. IInv /\ EarnsWhatItCharges /\ [Next]_vars => [Conserves]_vars
    BY <1>1
  <1> QED BY Invariant, <1>2, <1>3, PTL DEF Spec


-------------------------------------------------------------------------------
(***************************************************************************)
(* What a liquidation is worth.  The values of the two assets are compared *)
(* as quotients, with every product named: xy is what both are multiplied  *)
(* by, and each quotient is the product it came from, less a remainder.    *)
(***************************************************************************)

\* PercentageMath.percentMul and percentDiv, multiplied back.
LEMMA PercentMulBounds ==
    ASSUME NEW v \in Nat, NEW b \in Nat
    PROVE  /\ PERCENTAGE_FACTOR * percentMul(v, b) <= v * b + HALF_PERCENT
           /\ v * b + HALF_PERCENT < PERCENTAGE_FACTOR * (percentMul(v, b) + 1)
           /\ HALF_PERCENT \in Nat /\ percentMul(v, b) \in Nat
  <1>1. HALF_PERCENT \in Nat
    BY PercentageAssumption DEF HALF_PERCENT
  <1>2. v * b + HALF_PERCENT \in Nat
    BY <1>1
  <1> QED BY <1>1, <1>2, PercentageAssumption, DivBounds DEF percentMul

LEMMA PercentDivBounds ==
    ASSUME NEW v \in Nat, NEW b \in Nat \ {0}
    PROVE  v * PERCENTAGE_FACTOR <= b * (percentDiv(v, b) + 1)
  <1> DEFINE n == v * PERCENTAGE_FACTOR + (b \div 2)
             k == n \div b
  <1>1. n \in Nat /\ b \div 2 \in Nat /\ v * PERCENTAGE_FACTOR \in Nat
    BY PercentageAssumption
  <1>2. n < b * (k + 1)
    BY <1>1, DivBounds
  <1>3. v * PERCENTAGE_FACTOR <= n
    BY <1>1
  <1>4. k \in Nat
    BY <1>1, DivBounds
  <1> HIDE DEF n, k
  <1>5. b * (k + 1) \in Nat
    BY <1>4
  <1>6. v * PERCENTAGE_FACTOR <= b * (k + 1)
    BY <1>1, <1>2, <1>3, <1>5
  <1> QED BY <1>6 DEF n, k, percentDiv

\* The excess J of the collateral's value over its rounding is below G, the debt's
\* value with the bonus: the collateral was computed from the debt.
LEMMA SeizedForDebt ==
    ASSUME NEW p \in Nat, NEW q \in Nat, NEW x \in Nat \ {0}, NEW y \in Nat \ {0},
           NEW B \in Nat, NEW F \in Nat \ {0}, NEW H \in Nat,
           NEW seized \in Nat, NEW want \in Nat, NEW M \in Nat, NEW V \in Nat, NEW G \in Nat,
           NEW J \in Int,
           F * M <= q * want * x * B + H,
           p * y * seized <= M,
           q * want <= y * (V + 1),
           (V + 1) * B + H < F * (G + 1),
           x * J <= p * seized
    PROVE  J <= G
  <1> DEFINE k == y * F
             e == x * y
             w == q * want
             b == (V + 1) * B
  <1>1. /\ k \in Nat \ {0} /\ e \in Nat \ {0} /\ w \in Nat /\ b \in Nat
        /\ F * e \in Nat \ {0}
    OBVIOUS
  <1>2. (F * e) * J <= F * M
    <2>1. (F * e) * J = k * (x * J)
      OBVIOUS
    <2>2. k * (p * seized) = F * (p * y * seized)
      OBVIOUS
    <2>3. x * J \in Int /\ p * seized \in Int /\ p * y * seized \in Nat
      OBVIOUS
    <2> HIDE DEF k
    <2>4. k * (x * J) <= k * (p * seized)
      <3>1. \A i, j \in Int : i <= j => k * i <= k * j
        <4> SUFFICES ASSUME NEW i \in Int, NEW j \in Int, i <= j
                     PROVE  k * i <= k * j
          OBVIOUS
        <4>1. j - i \in Nat
          OBVIOUS
        <4>2. k * (j - i) \in Nat /\ k * j = k * i + k * (j - i)
          BY <1>1, <4>1
        <4> QED BY <1>1, <4>2
      <3> QED BY <2>3, <3>1
    <2>5. F * (p * y * seized) <= F * M
      BY <2>3, MulMono
    <2> QED BY <2>1, <2>2, <2>3, <2>4, <2>5, <1>1
  <1>3. q * want * x * B <= e * b
    <2>1. q * want * x * B = (x * B) * w /\ e * b = (x * B) * (y * (V + 1))
      OBVIOUS
    <2>2. x * B \in Nat /\ y * (V + 1) \in Nat
      OBVIOUS
    <2>3. w <= y * (V + 1)
      OBVIOUS
    <2> HIDE DEF w
    <2>4. (x * B) * w <= (x * B) * (y * (V + 1))
      BY <1>1, <2>2, <2>3, MulMono
    <2> QED BY <2>1, <2>4
  <1>4. e * b + H < e * (F * (G + 1))
    <2>1. b + H + 1 <= F * (G + 1)
      OBVIOUS
    <2>2. b + H + 1 \in Nat /\ F * (G + 1) \in Nat
      BY <1>1
    <2> HIDE DEF b, e
    <2>3. e * (b + H + 1) <= e * (F * (G + 1))
      BY <1>1, <2>1, <2>2, MulMono
    <2>4. e * (b + H + 1) = e * b + e * (H + 1)
      BY <1>1
    <2>5. H < e * (H + 1)
      <3>1. 1 * (H + 1) <= e * (H + 1)
        BY <1>1, MulMono2
      <3> QED BY <1>1, <3>1
    <2>6. e * b \in Nat /\ e * (H + 1) \in Nat
      BY <1>1
    <2> QED BY <1>1, <2>2, <2>3, <2>4, <2>5, <2>6
  <1>5. (F * e) * J < (F * e) * (G + 1)
    <2>1. e * (F * (G + 1)) = (F * e) * (G + 1)
      BY <1>1
    <2>2. /\ q * want * x * B \in Nat /\ e * b \in Nat /\ F * M \in Nat
          /\ (F * e) * J \in Int /\ (F * e) * (G + 1) \in Int
      BY <1>1
    <2> HIDE DEF e, b
    <2> QED BY <1>2, <1>3, <1>4, <2>1, <2>2
  <1> HIDE DEF e
  <1>6. J < G + 1
    BY <1>1, <1>5, CancelLess
  <1> QED BY <1>6


\* The same when all the collateral is taken and the debt is computed from it, T up to
\* the roundings of two divisions.
LEMMA DebtForSeized ==
    ASSUME NEW p \in Nat, NEW q \in Nat, NEW x \in Nat \ {0}, NEW y \in Nat \ {0},
           NEW B \in Nat, NEW F \in Nat \ {0}, NEW H \in Nat,
           NEW seized \in Nat, NEW R \in Nat, NEW W \in Nat, NEW V \in Nat, NEW D \in Nat,
           NEW G \in Nat, NEW J \in Int,
           p * seized * y <= q * x * (R + 1),
           R * F <= B * W,
           q * W <= y * (V + 1),
           q <= y * (D + 1),
           (V + 1) * B + H < F * (G + 1),
           x * J <= p * seized
    PROVE  J <= G + D + 1
  <1> DEFINE k == y * F
             e == x * y
             b == (V + 1) * B
             g == F * (D + 1)
  <1>1. /\ k \in Nat \ {0} /\ e \in Nat \ {0} /\ b \in Nat /\ F * e \in Nat \ {0}
        /\ g \in Nat
    OBVIOUS
  <1>2. (F * e) * J <= F * (q * x * (R + 1))
    <2>1. (F * e) * J = k * (x * J)
      OBVIOUS
    <2>2. k * (p * seized) = F * (p * seized * y)
      OBVIOUS
    <2>3. /\ x * J \in Int /\ p * seized \in Int /\ p * seized * y \in Nat
          /\ q * x * (R + 1) \in Nat
      OBVIOUS
    <2> HIDE DEF k
    <2>4. k * (x * J) <= k * (p * seized)
      <3>1. \A i, j \in Int : i <= j => k * i <= k * j
        <4> SUFFICES ASSUME NEW i \in Int, NEW j \in Int, i <= j
                     PROVE  k * i <= k * j
          OBVIOUS
        <4>1. j - i \in Nat
          OBVIOUS
        <4>2. k * (j - i) \in Nat /\ k * j = k * i + k * (j - i)
          BY <1>1, <4>1
        <4> QED BY <1>1, <4>2
      <3> QED BY <2>3, <3>1
    <2>5. F * (p * seized * y) <= F * (q * x * (R + 1))
      BY <2>3, MulMono
    <2> QED BY <2>1, <2>2, <2>3, <2>4, <2>5, <1>1
  <1>3. F * (q * x * (R + 1)) <= e * b + e * g
    <2>1. F * (q * x * (R + 1)) = (q * x) * (R * F) + (x * F) * q
      OBVIOUS
    <2>2. /\ q * x \in Nat /\ R * F \in Nat /\ B * W \in Nat /\ x * F \in Nat /\ x * B \in Nat
          /\ q * W \in Nat /\ y * (V + 1) \in Nat /\ y * (D + 1) \in Nat
      OBVIOUS
    <2>3. (q * x) * (R * F) <= (q * x) * (B * W)
      BY <2>2, MulMono
    <2>4. (x * F) * q <= (x * F) * (y * (D + 1))
      BY <2>2, MulMono
    <2>5. (x * B) * (q * W) <= (x * B) * (y * (V + 1))
      BY <2>2, MulMono
    <2>6. (q * x) * (B * W) = (x * B) * (q * W)
      OBVIOUS
    <2>7. (x * B) * (y * (V + 1)) = e * b
      OBVIOUS
    <2>8. (x * F) * (y * (D + 1)) = e * g
      OBVIOUS
    <2>9. /\ (q * x) * (R * F) \in Nat /\ (x * F) * q \in Nat /\ (q * x) * (B * W) \in Nat
          /\ e * b \in Nat /\ e * g \in Nat
      OBVIOUS
    <2> QED BY <2>1, <2>3, <2>4, <2>5, <2>6, <2>7, <2>8, <2>9
  <1>4. e * b + e * g < e * (F * (G + D + 2))
    <2>1. b + g + 1 <= F * (G + D + 2)
      <3>1. F * (G + D + 2) = F * (G + 1) + g
        OBVIOUS
      <3>2. F * (G + 1) \in Nat
        OBVIOUS
      <3> QED BY <1>1, <3>1, <3>2
    <2>2. b + g + 1 \in Nat /\ F * (G + D + 2) \in Nat
      BY <1>1
    <2> HIDE DEF b, e, g
    <2>3. e * (b + g + 1) <= e * (F * (G + D + 2))
      BY <1>1, <2>1, <2>2, MulMono
    <2>4. e * (b + g + 1) = e * b + e * g + e
      BY <1>1
    <2>5. e * b \in Nat /\ e * g \in Nat /\ e * (F * (G + D + 2)) \in Nat
      BY <1>1, <2>2
    <2> QED BY <1>1, <2>3, <2>4, <2>5
  <1>5. (F * e) * J < (F * e) * (G + D + 2)
    <2>1. e * (F * (G + D + 2)) = (F * e) * (G + D + 2)
      BY <1>1
    <2>2. /\ F * (q * x * (R + 1)) \in Nat /\ e * b \in Nat /\ e * g \in Nat
          /\ (F * e) * J \in Int /\ (F * e) * (G + D + 2) \in Int
      BY <1>1
    <2> HIDE DEF e, b, g
    <2> QED BY <1>2, <1>3, <1>4, <2>1, <2>2
  <1> HIDE DEF e
  <1>6. J < G + D + 2
    BY <1>1, <1>5, CancelLess
  <1> QED BY <1>6

\* The collateral that a liquidation takes, give or take k, is worth no more than the
\* debt it pays, with the bonus and the roundings; W is that debt rounded up.
LEMMA SeizedIsWorth ==
    ASSUME IInv, NEW c \in Assets, NEW d \in Assets, NEW user \in Users, NEW amount \in Nat,
           NEW W \in Nat, NEW k \in Nat, NEW lost \in Nat,
           liquidationAmounts(c, d, user, amount).debt + 1 <= W,
           lost <= liquidationAmounts(c, d, user, amount).collateral + k
    PROVE  valueInETH(c, lost) <=
             percentMul(valueInETH(d, W) + 1, config[c].bonus)
               + valueInETH(d, 1) + valueInETH(c, k) + 2
  <1> DEFINE owed    == userDebt(market[d], user, now)
             maxDebt == percentMul(owed, LIQUIDATION_CLOSE_FACTOR_PERCENT)
             wanted  == IF amount > maxDebt THEN maxDebt ELSE amount
             bal     == market[c].el[user]
             B == config[c].bonus
             F == PERCENTAGE_FACTOR
             H == HALF_PERCENT
             p == price[c]
             q == price[d]
             x == config[c].unit
             y == config[d].unit
             M == percentMul(q * wanted * x, B)
             most == M \div (p * y)
             R == (p * bal * y) \div (q * x)
             T == percentDiv(R, B)
             seized == liquidationAmounts(c, d, user, amount).collateral
             actual == liquidationAmounts(c, d, user, amount).debt
             V == valueInETH(d, W)
             G == percentMul(V + 1, B)
             D == valueInETH(d, 1)
             K == valueInETH(c, k)
             L == valueInETH(c, lost)
             J == L - K - 1
  <1>1. /\ p \in Nat \ {0} /\ q \in Nat \ {0} /\ x \in Nat \ {0} /\ y \in Nat \ {0}
        /\ B \in Nat /\ F \in Nat \ {0} /\ H \in Nat
        /\ now \in Nat /\ Sound(market[c], now) /\ Sound(market[d], now)
    BY PercentageAssumption, PercentMulBounds DEF IInv, TypeOK, Config
  <1>2. seized \in Nat /\ actual \in Nat
    BY LiquidationAmountsNat
  <1>3. wanted \in Nat
    <2>1. owed \in Nat
      BY <1>1, NoHiddenDebt DEF userDebt
    <2> HIDE DEF owed
    <2>2. maxDebt \in Nat
      <3>1. LIQUIDATION_CLOSE_FACTOR_PERCENT \in Nat
        BY ParameterAssumption, PercentageAssumption
      <3> QED BY <2>1, <3>1, PercentMulNat
    <2> HIDE DEF maxDebt
    <2> QED BY <2>2
  <1>4. bal \in Nat
    BY <1>1 DEF Sound, Market, Accounts
  \* the four values
  <1>5. \A z \in Nat, n \in Nat \ {0} : z \div n \in Nat /\ n * (z \div n) <= z /\ z < n * ((z \div n) + 1)
    BY DivBounds
  <1>6. /\ V \in Nat /\ q * W <= y * (V + 1)
        /\ D \in Nat /\ q <= y * (D + 1)
        /\ K \in Nat /\ p * k <= x * (K + 1)
        /\ L \in Nat /\ x * L <= p * lost
    <2>1. V = (q * W) \div y /\ D = (q * 1) \div y /\ K = (p * k) \div x /\ L = (p * lost) \div x
      BY DEF valueInETH
    <2>2. q * W \in Nat /\ q * 1 \in Nat /\ q * 1 = q /\ p * k \in Nat /\ p * lost \in Nat
      BY <1>1
    <2>3. V \in Nat /\ q * W < y * (V + 1)
      BY <1>1, <1>5, <2>1, <2>2
    <2>4. D \in Nat /\ q < y * (D + 1)
      BY <1>1, <1>5, <2>1, <2>2
    <2>5. K \in Nat /\ p * k < x * (K + 1)
      BY <1>1, <1>5, <2>1, <2>2
    <2>6. L \in Nat /\ x * L <= p * lost
      BY <1>1, <1>5, <2>1, <2>2
    <2>7. y * (V + 1) \in Nat /\ y * (D + 1) \in Nat /\ x * (K + 1) \in Nat
      BY <1>1, <2>3, <2>4, <2>5
    <2> HIDE DEF p, q, x, y, V, D, K, L
    <2> QED BY <1>1, <2>2, <2>3, <2>4, <2>5, <2>6, <2>7
  <1>7. G \in Nat /\ (V + 1) * B + H < F * (G + 1)
    <2>1. V + 1 \in Nat
      BY <1>6
    <2> HIDE DEF V, B
    <2> QED BY <1>1, <2>1, PercentMulBounds
  <1>8. M \in Nat /\ F * M <= q * wanted * x * B + H
    <2>1. q * wanted * x \in Nat
      BY <1>1, <1>3
    <2> HIDE DEF wanted, q, x, B
    <2> QED BY <1>1, <2>1, PercentMulBounds
  <1>9. most \in Nat /\ p * y * most <= M
    <2>1. p * y \in Nat \ {0}
      BY <1>1
    <2> HIDE DEF p, y, M
    <2> QED BY <1>5, <1>8, <2>1
  <1>10. R \in Nat /\ p * bal * y <= q * x * (R + 1)
    <2>1. q * x \in Nat \ {0} /\ p * bal * y \in Nat
      BY <1>1, <1>4
    <2> HIDE DEF p, q, x, y, bal
    <2>2. R \in Nat /\ p * bal * y < q * x * (R + 1)
      BY <1>5, <2>1
    <2>3. q * x * (R + 1) \in Nat
      BY <2>1, <2>2
    <2> HIDE DEF R
    <2> QED BY <2>1, <2>2, <2>3
  <1>11. B # 0 => T \in Nat /\ R * F <= B * (T + 1)
    <2> HAVE B # 0
    <2> HIDE DEF R, B
    <2> QED BY <1>1, <1>10, PercentDivNat, PercentDivBounds
  <1>12. \/ seized <= most /\ actual = wanted
         \/ seized = bal /\ actual = T /\ B # 0
    <2> DEFINE avail == calculateAvailableCollateralToLiquidate(c, d, wanted, bal)
    <2>1. avail = IF most > bal THEN [collateral |-> bal, debt |-> T]
                                ELSE [collateral |-> most, debt |-> wanted]
      BY DEF calculateAvailableCollateralToLiquidate
    <2>2. /\ seized = avail.collateral
          /\ actual = IF avail.debt < wanted THEN avail.debt ELSE wanted
      BY DEF liquidationAmounts
    <2>3. CASE B # 0
      <3> HIDE DEF avail, most, bal, T, wanted, seized, actual, B
      <3> QED BY <1>3, <1>4, <1>9, <1>11, <2>1, <2>2, <2>3
    <2>4. CASE B = 0
      <3>1. M = 0
        <4>1. q * wanted * x \in Nat
          BY <1>1, <1>3
        <4> HIDE DEF q, wanted, x, B
        <4> QED BY <2>4, <4>1, NoPercent
      <3>2. p * y \in Nat \ {0}
        BY <1>1
      <3> HIDE DEF avail, bal, T, wanted, seized, actual, M, p, y
      <3>3. most = 0
        BY <3>1, <3>2
      <3> HIDE DEF most
      <3> QED BY <1>3, <1>4, <2>1, <2>2, <3>3
    <2> QED BY <2>3, <2>4
  <1> HIDE DEF V, D, K, L, G, M, most, R, T, B, F, H, p, q, x, y, bal, wanted, seized, actual
  <1>13. J \in Int /\ x * J <= p * seized
    <2>1. p * lost <= p * seized + p * k
      <3>1. seized + k \in Nat /\ lost <= seized + k
        BY <1>2 DEF seized
      <3>2. p * lost <= p * (seized + k)
        BY <1>1, <3>1, MulMono
      <3>3. p * (seized + k) = p * seized + p * k
        BY <1>1, <1>2
      <3> QED BY <3>2, <3>3
    <2>2. J \in Int /\ x * J = x * L - x * (K + 1)
      BY <1>1, <1>6
    <2>3. /\ p * lost \in Nat /\ p * seized \in Nat /\ p * k \in Nat /\ x * L \in Nat
          /\ x * (K + 1) \in Nat
      BY <1>1, <1>2, <1>6
    <2> QED BY <1>6, <2>1, <2>2, <2>3
  <1>14. actual + 1 <= W
    BY DEF actual
  <1>15. CASE seized <= most /\ actual = wanted
    <2>1. p * y * seized <= M
      <3>1. p * y \in Nat
        BY <1>1
      <3>2. (p * y) * seized <= (p * y) * most
        BY <1>2, <1>9, <1>15, <3>1, MulMono
      <3>3. (p * y) * seized \in Nat /\ (p * y) * most \in Nat
        BY <1>2, <1>9, <3>1
      <3> QED BY <1>8, <1>9, <3>2, <3>3
    <2>2. q * wanted <= y * (V + 1)
      <3>1. wanted <= W
        BY <1>3, <1>14, <1>15
      <3>2. q * wanted <= q * W
        BY <1>1, <1>3, <3>1, MulMono
      <3>3. q * wanted \in Nat /\ q * W \in Nat /\ y * (V + 1) \in Nat
        BY <1>1, <1>3, <1>6
      <3> QED BY <1>6, <3>2, <3>3
    <2> HIDE DEF J
    <2>3. J <= G
      BY <1>1, <1>2, <1>3, <1>6, <1>7, <1>8, <1>13, <2>1, <2>2, SeizedForDebt
    <2> QED BY <1>6, <1>7, <2>3 DEF J, L, G, V, B, D, K
  <1>16. CASE seized = bal /\ actual = T /\ B # 0
    <2>1. R * F <= B * W
      <3>1. B * (T + 1) <= B * W
        BY <1>1, <1>11, <1>14, <1>16, MulMono
      <3>2. R * F \in Nat /\ B * (T + 1) \in Nat /\ B * W \in Nat
        BY <1>1, <1>10, <1>11, <1>16
      <3> QED BY <1>11, <1>16, <3>1, <3>2
    <2>2. p * seized * y <= q * x * (R + 1)
      BY <1>10, <1>16
    <2> HIDE DEF J
    <2>3. J <= G + D + 1
      BY <1>1, <1>2, <1>6, <1>7, <1>10, <1>13, <2>1, <2>2, DebtForSeized
    <2> QED BY <1>6, <1>7, <2>3 DEF J, L, G, V, B, D, K
  <1> QED BY <1>12, <1>15, <1>16


-------------------------------------------------------------------------------
(***************************************************************************)
(* What a liquidation pays and takes, for the liquidated user: the debt    *)
(* goes down by what is covered (Pays, ReserveLogicProofs) and the         *)
(* elTokens by what is seized, each up to one scaled unit.                 *)
(***************************************************************************)

\* The elTokens of u that are gone, read at the income index afterwards, are worth n.
Takes(m, r, u, t, n) ==
    LET index == getNormalizedIncome(r, t)
    IN  /\ index \in Nat
        /\ rayMul(m.el[u] - r.el[u], index) \in Nat
        /\ rayMul(m.el[u] - r.el[u], index) <= n + rayMul(1, index) + 1

LEMMA TakenRounds ==
    ASSUME NEW n \in Nat, NEW i \in Nat \ {0}
    PROVE  /\ rayMul(rayDiv(n, i), i) \in Nat /\ rayMul(rayDiv(n, i), i) <= n + rayMul(1, i) + 1
           /\ rayMul(0, i) \in Nat /\ rayMul(0, i) <= n + rayMul(1, i) + 1
  <1> DEFINE z == 0
             s == rayDiv(n, i)
  <1>1. z \in Nat /\ s \in Nat
    BY RayDivNat
  <1>2. rayMul(z, i) = 0
    BY HalfRay, RayAssumption DEF rayMul
  <1>3. z = 0 /\ z + s = s
    BY <1>1
  <1> HIDE DEF z
  <1>4. rayMul(z + s, i) - rayMul(z, i) - n <= rayMul(1, i) + 1
    BY <1>1, MintRounds
  <1> HIDE DEF s
  <1>5. rayMul(s, i) \in Nat /\ rayMul(1, i) \in Nat
    BY <1>1, RayMulNat, UnitNat
  <1>6. rayMul(s, i) - 0 - n <= rayMul(1, i) + 1
    BY <1>2, <1>3, <1>4
  <1> QED BY <1>2, <1>3, <1>5, <1>6 DEF s

\* A reserve whose debts and clock stay shows the same debt.
LEMMA SameShownDebt ==
    ASSUME NEW t, NEW m, NEW r, SameDebt(m, r), SameIndexes(m, r), m.lastUpdateTimestamp = t,
           NEW u \in Users
    PROVE  userDebt(r, u, t) = userDebt(m, u, t)
  BY DEF SameDebt, SameIndexes, userDebt, stBalanceOf, varBalanceOf, getNormalizedDebt

\* updateState and the rates leave the debt of a user as it was shown.
LEMMA SettledDebt ==
    ASSUME NEW t \in Nat, NEW m, Sound(m, t), NEW c \in Config, canUpdateState(m, c, t),
           ChargesWhatItEarns(m, t), NEW u \in Users
    PROVE  userDebt(updateState(m, c, t), u, t) = userDebt(m, u, t)
  <1>1. varBalanceOf(updateState(m, c, t), u, t) = varBalanceOf(m, u, t)
    BY ShownDebtIsStored
  <1>2. SameDebt(m, updateState(m, c, t))
    BY UpdateStateSound DEF UpdateFrame
  <1> QED BY <1>1, <1>2 DEF SameDebt, userDebt, stBalanceOf

\* LendingPoolCollateralManager burns the variable debt first.
LEMMA LiquidateDebtPays ==
    ASSUME NEW t \in Nat, NEW m, Sound(m, t), m.lastUpdateTimestamp = t, NEW u \in Users,
           NEW owed \in Nat, NEW n \in Nat, canLiquidateDebt(m, u, owed, n, t),
           NEW r, r = liquidateDebt(m, u, owed, n, t)
    PROVE  Pays(m, r, u, t, n, rayMul(1, m.variableBorrowIndex) + 1)
  <1> DEFINE d == rayMul(1, m.variableBorrowIndex) + 1
  <1>1. d \in Int /\ 0 <= d
    <2>1. m.variableBorrowIndex \in Nat \ {0}
      BY RayAssumption DEF Sound, Market, IndexesStarted
    <2> QED BY <2>1, UnitNat
  <1>2. CASE owed >= n
    BY <1>2, VarBurnPays DEF liquidateDebt, canLiquidateDebt
  <1>3. CASE ~(owed >= n)
    <2> DEFINE b == IF owed > 0 THEN varBurn(m, u, owed) ELSE m
               k == n - owed
    <2>1. /\ r = stBurn(b, u, k, t) /\ k \in Nat
          /\ owed > 0 => canBurnVar(m, u, owed)
          /\ canBurnSt(m, u, k, t)
      BY <1>3 DEF liquidateDebt, canLiquidateDebt
    <2>2. userDebt(m, u, t) \in Int
      BY NoHiddenDebt DEF userDebt
    <2>3. /\ Sound(b, t) /\ SameIndexes(m, b) /\ Pays(m, b, u, t, owed, d)
          /\ b.stDebt = m.stDebt /\ b.stRate = m.stRate /\ b.stTime = m.stTime
      <3>1. CASE owed > 0
        BY <2>1, <3>1, VarBurnPays, VarBurnSound DEF VarFrame
      <3>2. CASE ~(owed > 0)
        <4>1. b = m /\ owed = 0
          BY <3>2
        <4> HIDE DEF b, d
        <4> QED BY <1>1, <2>2, <4>1 DEF SameIndexes, Pays
      <3> QED BY <3>1, <3>2
    <2> HIDE DEF b, k
    <2>4. canBurnSt(b, u, k, t) /\ b.lastUpdateTimestamp = t
      BY <2>1, <2>3 DEF canBurnSt, stBalanceOf, SameIndexes
    <2>5. StFrame(b, r, t) /\ r.stDebt[u] = stBalanceOf(b, u, t) - k
      BY <2>1, <2>3, <2>4, StBurnSound
    <2>6. r.stDebt[u] # 0 => r.stTime[u] = t
      <3>1. r.stTime[u] = IF k = stBalanceOf(b, u, t) THEN 0 ELSE t
        BY <2>1, <2>3 DEF stBurn, Sound, Market
      <3>2. stBalanceOf(b, u, t) \in Nat
        BY <2>3, StBalanceNat
      <3> QED BY <2>1, <2>5, <3>1, <3>2
    <2>7. userDebt(b, u, t) - userDebt(r, u, t) = k
      BY <2>1, <2>3, <2>4, <2>5, <2>6, StablePays
    <2>8. userDebt(b, u, t) \in Int /\ userDebt(r, u, t) \in Int
      BY <2>3, <2>5, NoHiddenDebt DEF userDebt, StFrame
    <2> HIDE DEF d
    <2>9. Pays(m, r, u, t, n, d)
      BY <1>1, <2>1, <2>2, <2>3, <2>7, <2>8 DEF Pays, k
    <2> QED BY <2>9 DEF d
  <1> QED BY <1>2, <1>3

\* The debt reserve of a liquidation.
LEMMA CoveredPays ==
    ASSUME NEW t \in Nat, NEW m, Sound(m, t), NEW c \in Config, canUpdateState(m, c, t),
           ChargesWhatItEarns(m, t), NEW u \in Users, NEW owed \in Nat, NEW n \in Nat,
           NEW m1, m1 = updateState(m, c, t), canLiquidateDebt(m1, u, owed, n, t),
           NEW m2, m2 = liquidateDebt(m1, u, owed, n, t), NEW z \in Nat,
           canUpdateInterestRates(m2, c, n, z),
           NEW r, r = updateInterestRates(m2, c, t, n, z)
    PROVE  /\ Sound(r, t) /\ r.lastUpdateTimestamp = t
           /\ Pays(m, r, u, t, n, varUnit(r))
           /\ \A v \in Users : r.el[v] = m.el[v]
  <1>1. /\ Sound(m1, t) /\ m1.lastUpdateTimestamp = t
        /\ userDebt(m1, u, t) = userDebt(m, u, t)
    BY SettledKeeps, SettledDebt
  <1>2. DebtFrame(m1, m2, t) /\ Pays(m1, m2, u, t, n, rayMul(1, m1.variableBorrowIndex) + 1)
    BY <1>1, LiquidateDebtSound, LiquidateDebtPays
  <1>3. Sound(m2, t) /\ m2.lastUpdateTimestamp = t /\ SameIndexes(m1, m2)
    BY <1>1, <1>2 DEF DebtFrame, SameIndexes
  <1>4. /\ Sound(r, t) /\ r.lastUpdateTimestamp = t /\ SameDebt(m2, r)
        /\ SameIndexes(m2, r) /\ r.el = m2.el
    BY <1>3, RatedKeeps
  <1>5. userDebt(r, u, t) = userDebt(m2, u, t)
    BY <1>3, <1>4, SameShownDebt
  <1>6. rayMul(1, m1.variableBorrowIndex) + 1 = varUnit(r)
    BY <1>3, <1>4 DEF SameIndexes, varUnit
  <1>7. Untouched(m, m1, Users)
    BY MarketHasBalances, UpdateStateUntouched DEF Sound
  <1>8. Untouched(m1, m2, Users)
    BY <1>7, DebtUntouched, UntouchedHas
  <1> QED BY <1>1, <1>2, <1>4, <1>5, <1>6, <1>7, <1>8 DEF Pays, Untouched

\* The collateral that is paid out or handed over.
LEMMA BurntTakes ==
    ASSUME NEW t \in Nat, NEW m, Sound(m, t), NEW c \in Config, canUpdateState(m, c, t),
           ChargesWhatItEarns(m, t), NEW u \in Users, NEW n \in Nat, NEW z \in Nat,
           NEW m1, m1 = updateState(m, c, t), canUpdateInterestRates(m1, c, z, n),
           NEW m2, m2 = updateInterestRates(m1, c, t, z, n), canBurnEl(m1, u, n),
           NEW r, r = elBurn(m2, u, n)
    PROVE  /\ Takes(m, r, u, t, n) /\ Sound(r, t) /\ IndexesGrow(m, r)
           /\ userDebt(r, u, t) = userDebt(m, u, t)
  <1>1. /\ Sound(m1, t) /\ m1.lastUpdateTimestamp = t /\ IndexesGrow(m, m1)
        /\ userDebt(m1, u, t) = userDebt(m, u, t)
    BY SettledKeeps, SettledDebt
  <1>2. /\ Sound(m2, t) /\ m2.lastUpdateTimestamp = t /\ SameDebt(m1, m2)
        /\ SameIndexes(m1, m2) /\ m2.cash = m1.cash /\ m2.el = m1.el
        /\ m2.elSupply = m1.elSupply
    BY <1>1, RatedKeeps
  <1>3. canBurnEl(m2, u, n)
    BY <1>2 DEF SameIndexes, canBurnEl
  <1>4. ElFrame(m2, r, t)
    BY <1>2, <1>3, ElBurnSound
  <1>5. /\ Sound(r, t) /\ IndexesGrow(m, r) /\ r.lastUpdateTimestamp = t
        /\ r.liquidityIndex = m2.liquidityIndex
    BY <1>1, <1>2, <1>4 DEF ElFrame, SameIndexes, IndexesGrow
  <1>6. userDebt(r, u, t) = userDebt(m, u, t)
    <2>1. userDebt(m2, u, t) = userDebt(m1, u, t)
      BY <1>1, <1>2, SameShownDebt
    <2>2. userDebt(r, u, t) = userDebt(m2, u, t)
      BY <1>2, <1>4, SameShownDebt DEF ElFrame
    <2> QED BY <1>1, <2>1, <2>2
  <1> DEFINE i == m2.liquidityIndex
             e == m.el[u]
             s == rayDiv(n, i)
  <1>7. i \in Nat \ {0} /\ e \in Nat /\ s \in Nat
    <2>1. i \in Nat \ {0} /\ e \in Nat
      BY <1>2, RayAssumption DEF Sound, Market, IndexesStarted, Accounts
    <2> QED BY <2>1, RayDivNat
  <1>8. m2.el[u] = e
    <2>1. Untouched(m, m1, Users)
      BY MarketHasBalances, UpdateStateUntouched DEF Sound
    <2> QED BY <1>2, <2>1 DEF Untouched
  <1>9. r.el[u] = e - s
    <2>1. "el" \in DOMAIN m2 /\ u \in DOMAIN m2.el
      BY <1>2 DEF Sound, Market, Accounts
    <2>2. r.el[u] = m2.el[u] - s
      BY <2>1 DEF elBurn
    <2> QED BY <1>8, <2>2
  <1>10. getNormalizedIncome(r, t) = i
    BY <1>5 DEF getNormalizedIncome
  <1>11. rayMul(s, i) \in Nat /\ rayMul(s, i) <= n + rayMul(1, i) + 1
    BY <1>7, TakenRounds
  <1> HIDE DEF i, e, s
  <1>12. m.el[u] - r.el[u] = s
    BY <1>7, <1>9 DEF e
  <1>13. Takes(m, r, u, t, n)
    BY <1>7, <1>10, <1>11, <1>12 DEF Takes
  <1> QED BY <1>5, <1>6, <1>13

LEMMA HandedTakes ==
    ASSUME NEW t \in Nat, NEW m, Sound(m, t), NEW from \in Users, NEW to \in Users,
           NEW n \in Nat, canTransferEl(m, from, n, t), NEW r, r = elTransfer(m, from, to, n, t)
    PROVE  /\ Takes(m, r, from, t, n) /\ Sound(r, t) /\ IndexesGrow(m, r)
           /\ userDebt(r, from, t) = userDebt(m, from, t)
  <1> DEFINE i == getNormalizedIncome(m, t)
             e == m.el[from]
             s == rayDiv(n, i)
             g == [m.el EXCEPT ![from] = @ - s]
             f == [g EXCEPT ![to] = @ + s]
  <1>1. m \in Market /\ m.el \in [Accounts -> Nat] /\ from \in Accounts /\ to \in Accounts
    BY DEF Sound, Market, Accounts
  <1>2. i \in Nat \ {0} /\ e \in Nat /\ s \in Nat
    <2>1. i \in Nat \ {0} /\ e \in Nat
      BY <1>1, ViewIndexesGrow, RayAssumption DEF Sound, IndexesStarted, Market
    <2> QED BY <2>1, RayDivNat
  <1>3. Sound(r, t) /\ IndexesGrow(m, r)
    BY ElTransferSound, SameGrow DEF ElFrame, Sound
  <1>4. r = [m EXCEPT !.el = f]
    BY DEF elTransfer
  <1>5. f[from] = IF to = from THEN e ELSE e - s
    <2>1. g \in [Accounts -> Int] /\ g[from] = e - s
      BY <1>1, <1>2
    <2> HIDE DEF g
    <2>2. f[from] = IF to = from THEN e - s + s ELSE e - s
      BY <1>1, <2>1
    <2> QED BY <1>2, <2>2
  <1> HIDE DEF f
  <1>6. /\ r.el[from] = IF to = from THEN e ELSE e - s
        /\ getNormalizedIncome(r, t) = i
        /\ userDebt(r, from, t) = userDebt(m, from, t)
    BY <1>1, <1>4, <1>5
       DEF Market, getNormalizedIncome, userDebt, stBalanceOf, varBalanceOf, getNormalizedDebt
  <1>7. /\ rayMul(s, i) \in Nat /\ rayMul(s, i) <= n + rayMul(1, i) + 1
        /\ rayMul(0, i) \in Nat /\ rayMul(0, i) <= n + rayMul(1, i) + 1
    BY <1>2, TakenRounds
  <1> HIDE DEF i, e, s
  <1>8. m.el[from] - r.el[from] \in {s, 0}
    BY <1>2, <1>6 DEF e
  <1>9. Takes(m, r, from, t, n)
    <2>1. \A x \in {s, 0} : rayMul(x, i) \in Nat /\ rayMul(x, i) <= n + rayMul(1, i) + 1
      BY <1>7
    <2> QED BY <1>2, <1>6, <1>8, <2>1 DEF Takes
  <1> QED BY <1>3, <1>6, <1>9


\* At most the close factor of the debt is covered.
LEMMA CoversAtMost ==
    ASSUME IInv, NEW c \in Assets, NEW d \in Assets, NEW user \in Users, NEW amount \in Nat
    PROVE  /\ percentMul(userDebt(market[d], user, now), LIQUIDATION_CLOSE_FACTOR_PERCENT) \in Nat
           /\ liquidationAmounts(c, d, user, amount).debt
                <= percentMul(userDebt(market[d], user, now), LIQUIDATION_CLOSE_FACTOR_PERCENT)
  <1> DEFINE owed    == userDebt(market[d], user, now)
             maxDebt == percentMul(owed, LIQUIDATION_CLOSE_FACTOR_PERCENT)
             wanted  == IF amount > maxDebt THEN maxDebt ELSE amount
             avail   == calculateAvailableCollateralToLiquidate(c, d, wanted,
                                                                market[c].el[user])
             actual  == liquidationAmounts(c, d, user, amount).debt
  <1>1. owed \in Nat
    BY NoHiddenDebt DEF userDebt, IInv, TypeOK
  <1>2. LIQUIDATION_CLOSE_FACTOR_PERCENT \in Nat
    BY ParameterAssumption, PercentageAssumption
  <1>3. actual \in Nat
    BY LiquidationAmountsNat
  <1>4. actual = IF avail.debt < wanted THEN avail.debt ELSE wanted
    BY DEF liquidationAmounts
  <1> HIDE DEF owed, actual, avail
  <1>5. maxDebt \in Nat
    BY <1>1, <1>2, PercentMulNat
  <1> HIDE DEF maxDebt
  <1>6. wanted \in Nat /\ wanted <= maxDebt
    BY <1>5
  <1> HIDE DEF wanted
  <1>7. actual <= maxDebt
    <2>1. CASE avail.debt < wanted
      <3>1. actual < wanted
        BY <1>4, <2>1
      <3> QED BY <1>3, <1>5, <1>6, <3>1
    <2>2. CASE ~(avail.debt < wanted)
      BY <1>4, <1>6, <2>2
    <2> QED BY <2>1, <2>2
  <1> QED BY <1>5, <1>7 DEF maxDebt, owed, actual

\* What LiquidationIsBounded says of one liquidation.
PaysForWhatItTakes(c, d, u) ==
    LET index == getNormalizedIncome(market'[c], now)
        owed  == userDebt(market[d], u, now)
        paid  == owed - userDebt(market'[d], u, now)
        lost  == rayMul(market[c].el[u] - market'[c].el[u], index)
        unit  == rayMul(1, market'[d].variableBorrowIndex) + 1
    IN  /\ paid <= percentMul(owed, LIQUIDATION_CLOSE_FACTOR_PERCENT) + unit
        /\ valueInETH(c, lost) <=
             percentMul(valueInETH(d, paid + unit + 1) + 1, config[c].bonus)
               + valueInETH(d, 1) + valueInETH(c, rayMul(1, index) + 1) + 2

\* A debt that is paid and collateral that is taken, of those amounts.
LEMMA PaidForTaken ==
    ASSUME IInv, NEW c \in Assets, NEW d \in Assets, NEW u \in Users, NEW amount \in Nat,
           NEW n, n = liquidationAmounts(c, d, u, amount).debt,
           Sound(market'[d], now), Sound(market'[c], now),
           Pays(market[d], market'[d], u, now, n, varUnit(market'[d])),
           Takes(market[c], market'[c], u, now, liquidationAmounts(c, d, u, amount).collateral)
    PROVE  PaysForWhatItTakes(c, d, u)
  <1> DEFINE index == getNormalizedIncome(market'[c], now)
             owed  == userDebt(market[d], u, now)
             paid  == owed - userDebt(market'[d], u, now)
             lost  == rayMul(market[c].el[u] - market'[c].el[u], index)
             unit  == varUnit(market'[d])
             most  == percentMul(owed, LIQUIDATION_CLOSE_FACTOR_PERCENT)
             W == paid + unit + 1
             k == rayMul(1, index) + 1
             seized == liquidationAmounts(c, d, u, amount).collateral
  <1>1. n \in Nat /\ seized \in Nat
    BY LiquidationAmountsNat
  <1>2. most \in Nat /\ n <= most
    BY CoversAtMost
  <1>3. paid \in Int
    <2>1. owed \in Nat
      BY NoHiddenDebt DEF userDebt, IInv, TypeOK
    <2>2. userDebt(market'[d], u, now) \in Nat
      BY NoHiddenDebt DEF userDebt, IInv, TypeOK
    <2> QED BY <2>1, <2>2
  <1>4. unit \in Nat
    <2>1. market'[d].variableBorrowIndex \in Nat \ {0}
      BY RayAssumption DEF Sound, Market, IndexesStarted
    <2> QED BY <2>1, UnitNat DEF varUnit
  <1>5. paid - n <= unit /\ n - paid <= unit
    BY DEF Pays
  <1>6. lost \in Nat /\ lost <= seized + k /\ k \in Nat
    <2>1. index \in Nat /\ lost \in Nat /\ lost <= seized + rayMul(1, index) + 1
      BY DEF Takes
    <2> HIDE DEF index, lost, seized
    <2>2. rayMul(1, index) \in Nat
      BY <2>1, RayMulNat
    <2> QED BY <1>1, <2>1, <2>2
  <1> HIDE DEF most, paid, unit, lost, k, seized
  <1>7. W \in Nat /\ n + 1 <= W /\ paid <= most + unit
    BY <1>1, <1>2, <1>3, <1>4, <1>5
  <1> HIDE DEF W
  <1>8. valueInETH(c, lost) <= percentMul(valueInETH(d, W) + 1, config[c].bonus)
                                 + valueInETH(d, 1) + valueInETH(c, k) + 2
    BY <1>6, <1>7, SeizedIsWorth DEF seized
  <1> QED BY <1>7, <1>8 DEF PaysForWhatItTakes, W, most, paid, unit, lost, k, owed, varUnit

\* LendingPool.liquidationCall, also when both reserves are the same.
LEMMA LiquidationPays ==
    ASSUME IInv, EarnsWhatItCharges, NEW l \in Users, NEW c \in Assets, NEW d \in Assets,
           NEW user \in Users, NEW amount \in Nat, NEW receiveLToken,
           liquidationCall(l, c, d, user, amount, receiveLToken)
    PROVE  PaysForWhatItTakes(c, d, user)
  <1> DEFINE amounts == liquidationAmounts(c, d, user, amount)
             seized == amounts.collateral
             n == amounts.debt
             owed == varBalanceOf(market[d], user, now)
             z == 0
             d1 == updateState(market[d], config[d], now)
             d2 == liquidateDebt(d1, user, owed, n, now)
             d3 == updateInterestRates(d2, config[d], now, n, z)
             mkt1 == [market EXCEPT ![d] = d3]
             c0 == mkt1[c]
             c1 == updateState(c0, config[c], now)
             c2 == updateInterestRates(c1, config[c], now, z, seized)
             c3 == IF receiveLToken THEN elTransfer(c0, user, l, seized, now)
                                    ELSE elBurn(c2, user, seized)
             mkt2 == [mkt1 EXCEPT ![c] = c3]
  <1>1. /\ now \in Nat /\ config[c] \in Config /\ config[d] \in Config /\ z \in Nat
        /\ \A a \in Assets : Sound(market[a], now) /\ ChargesWhatItEarns(market[a], now)
        /\ market \in [Assets -> Market]
    BY DEF IInv, TypeOK, EarnsWhatItCharges
  <1>2. /\ canUpdateState(market[d], config[d], now)
        /\ canLiquidateDebt(d1, user, owed, n, now)
        /\ canUpdateInterestRates(d2, config[d], n, z)
        /\ receiveLToken => canTransferEl(c0, user, seized, now)
        /\ ~receiveLToken => /\ canUpdateState(c0, config[c], now)
                             /\ canUpdateInterestRates(c1, config[c], z, seized)
                             /\ canBurnEl(c1, user, seized)
        /\ market' = [mkt2 EXCEPT ![d].cash = @ + n]
    BY DEF liquidationCall
  <1>3. seized \in Nat /\ n \in Nat
    BY LiquidatedDebt
  <1>4. owed \in Nat
    BY <1>1, NoHiddenDebt
  <1> HIDE DEF amounts, seized, n, owed, z
  \* the debt reserve
  <1>5. /\ Sound(d3, now) /\ d3.lastUpdateTimestamp = now
        /\ Pays(market[d], d3, user, now, n, varUnit(d3))
        /\ d3.el[user] = market[d].el[user]
    BY <1>1, <1>2, <1>3, <1>4, CoveredPays
  <1> HIDE DEF d1, d2, d3
  \* the collateral reserve
  <1>6. Sound(c0, now) /\ ChargesWhatItEarns(c0, now) /\ mkt1 \in [Assets -> Market]
    <2>1. c0 = IF c = d THEN d3 ELSE market[c]
      BY <1>1
    <2>2. ChargesWhatItEarns(d3, now)
      BY <1>1, <1>5, FreshCharges
    <2>3. mkt1 \in [Assets -> Market]
      BY <1>1, <1>5 DEF Sound
    <2> QED BY <1>1, <1>5, <2>1, <2>2, <2>3
  <1> HIDE DEF c0
  <1>7. /\ Takes(c0, c3, user, now, seized) /\ Sound(c3, now) /\ IndexesGrow(c0, c3)
        /\ userDebt(c3, user, now) = userDebt(c0, user, now)
    <2>1. CASE receiveLToken
      <3>1. c3 = elTransfer(c0, user, l, seized, now) /\ canTransferEl(c0, user, seized, now)
        BY <1>2, <2>1
      <3> HIDE DEF c3
      <3> QED BY <1>1, <1>3, <1>6, <3>1, HandedTakes
    <2>2. CASE ~receiveLToken
      <3>1. /\ c3 = elBurn(c2, user, seized)
            /\ canUpdateState(c0, config[c], now)
            /\ canUpdateInterestRates(c1, config[c], z, seized)
            /\ canBurnEl(c1, user, seized)
        BY <1>2, <2>2
      <3> HIDE DEF c3
      <3> QED BY <1>1, <1>3, <1>6, <3>1, BurntTakes
    <2> QED BY <2>1, <2>2
  <1> HIDE DEF c3
  \* the markets
  <1>8. /\ c # d => /\ market'[d] = [d3 EXCEPT !.cash = @ + n]
                    /\ market'[c] = c3 /\ c0 = market[c]
        /\ c = d => /\ market'[d] = [c3 EXCEPT !.cash = @ + n] /\ c0 = d3
    BY <1>1, <1>2 DEF c0
  <1>9. ASSUME NEW m, Sound(m, now), NEW r, r = [m EXCEPT !.cash = @ + n]
        PROVE  /\ Sound(r, now) /\ SameIndexes(m, r) /\ r.el = m.el
               /\ userDebt(r, user, now) = userDebt(m, user, now)
               /\ getNormalizedIncome(r, now) = getNormalizedIncome(m, now)
    <2>1. m.cash + n \in Nat /\ m \in Market
      BY <1>3, <1>9 DEF Sound, Market
    <2>2. Sound(r, now) /\ SameIndexes(m, r)
      BY <1>1, <1>9, <2>1, CashChange DEF ElFrame
    <2> QED BY <1>9, <2>1, <2>2
            DEF Market, getNormalizedIncome, userDebt, stBalanceOf, varBalanceOf, getNormalizedDebt
  <1>10. /\ Pays(market[d], market'[d], user, now, n, varUnit(market'[d]))
         /\ Takes(market[c], market'[c], user, now, seized)
         /\ Sound(market'[d], now) /\ Sound(market'[c], now)
    <2>1. CASE c # d
      <3>1. /\ Sound(market'[d], now) /\ SameIndexes(d3, market'[d])
            /\ userDebt(market'[d], user, now) = userDebt(d3, user, now)
        BY <1>5, <1>8, <1>9, <2>1
      <3>2. varUnit(market'[d]) = varUnit(d3)
        BY <3>1 DEF varUnit, SameIndexes
      <3> QED BY <1>5, <1>7, <1>8, <2>1, <3>1, <3>2 DEF Pays
    <2>2. CASE c = d
      <3>1. /\ Sound(market'[d], now) /\ SameIndexes(c3, market'[d]) /\ market'[d].el = c3.el
            /\ userDebt(market'[d], user, now) = userDebt(c3, user, now)
            /\ getNormalizedIncome(market'[d], now) = getNormalizedIncome(c3, now)
        BY <1>7, <1>8, <1>9, <2>2
      <3>2. /\ varUnit(d3) <= varUnit(market'[d]) /\ varUnit(d3) \in Int
            /\ varUnit(market'[d]) \in Int
        <4>1. IndexesGrow(d3, market'[d])
          BY <1>7, <1>8, <2>2, <3>1 DEF IndexesGrow, SameIndexes
        <4> QED BY <1>1, <1>5, <3>1, <4>1, UnitsGrow
      <3>3. userDebt(market'[d], user, now) = userDebt(d3, user, now)
        BY <1>7, <1>8, <2>2, <3>1
      <3>4. userDebt(d3, user, now) \in Int /\ userDebt(market[d], user, now) \in Int
        BY <1>1, <1>5, NoHiddenDebt DEF userDebt
      <3>5. Pays(market[d], market'[d], user, now, n, varUnit(market'[d]))
        BY <1>3, <1>5, <3>2, <3>3, <3>4 DEF Pays
      <3>6. Takes(market[c], market'[c], user, now, seized)
        BY <1>5, <1>7, <1>8, <2>2, <3>1 DEF Takes
      <3> QED BY <2>2, <3>1, <3>5, <3>6
    <2> QED BY <2>1, <2>2
  <1> HIDE DEF c1, c2, mkt1, mkt2
  <1>11. n = liquidationAmounts(c, d, user, amount).debt
         /\ seized = liquidationAmounts(c, d, user, amount).collateral
    BY DEF n, seized, amounts
  <1> QED BY <1>2, <1>10, <1>11, PaidForTaken

\* Every liquidation that a step may be.
LiquidationsPay ==
    \A call \in Calls["liquidation"], d \in Assets, amount \in Amounts, receiveLToken \in BOOLEAN :
      /\ <<market[d].varDebt, market[d].stDebt>>' # <<market[d].varDebt, market[d].stDebt>>
      /\ liquidationCall(call[1], call[3], d, call[2], amount, receiveLToken)
      => PaysForWhatItTakes(call[3], d, call[2])

LEMMA LiquidationBounds == LiquidationIsBounded <=> [][LiquidationsPay]_vars
  BY DEF LiquidationIsBounded, LiquidationsPay, PaysForWhatItTakes

LEMMA LiquidationSteps == IInv /\ EarnsWhatItCharges => [LiquidationsPay]_vars
  <1>1. IInv /\ EarnsWhatItCharges => LiquidationsPay
    <2> SUFFICES ASSUME IInv, EarnsWhatItCharges, NEW call \in Calls["liquidation"],
                        NEW d \in Assets, NEW amount \in Amounts,
                        NEW receiveLToken \in BOOLEAN,
                        liquidationCall(call[1], call[3], d, call[2], amount, receiveLToken)
                 PROVE  PaysForWhatItTakes(call[3], d, call[2])
      BY DEF LiquidationsPay
    <2>1. call \in Users \X Users \X Assets /\ amount \in Nat
      BY BoundsAssumption DEF Operations
    <2>2. call[1] \in Users /\ call[2] \in Users /\ call[3] \in Assets
      BY <2>1
    <2> QED BY <2>1, <2>2, LiquidationPays
  <1> QED BY <1>1

\* The liquidator "receives a proportionally amount of the `collateralAsset` plus a
\* bonus" (LendingPool.sol:417): no liquidation pays more than the close factor of the
\* debt or takes collateral worth more than what is paid with the bonus, up to rounding,
\* for all reserves, prices and amounts, in two reserves or within one.
THEOREM LiquidationsAreBounded == Spec /\ []EarnsWhatItCharges => LiquidationIsBounded
  BY Invariant, LiquidationBounds, LiquidationSteps, PTL

-------------------------------------------------------------------------------
(***************************************************************************)
(* The pool in transactions, administered.  The inductive invariant adds   *)
(* the type of the call in progress to IInv.                               *)
(***************************************************************************)

\* A call in progress and native balances of their types; only revisions 3 and 4
\* collect elTokens.
TxTypeOK == ether \in [Users -> Nat] /\ tx \in Transaction
CollectsWhenItMay == tx.call = "collectELTokens" => REVISION # 2

UInv == IInv /\ TxTypeOK /\ CollectsWhenItMay

\* What every step is shown to do.
Kept == UInv' /\ IndexesStep

-------------------------------------------------------------------------------
\* The premium is an amount.
LEMMA PremiumNat ==
    ASSUME NEW n \in Nat
    PROVE  premium(n) \in Nat
  <1>1. n * FLASHLOAN_PREMIUM_TOTAL \in Nat
    BY PremiumAssumption
  <1> QED BY <1>1, PremiumAssumption, DivBounds DEF premium

\* What each kind of call carries.
LEMMA CallFields ==
    ASSUME tx \in Transaction
    PROVE  /\ tx.call = "flashLoan" =>
                /\ tx.user \in Users /\ tx.receiver \in Users /\ tx.asset \in Assets
                /\ tx.amount \in Nat /\ tx.mode \in {"NONE"} \cup Modes
                /\ tx.onBehalfOf \in Users
           /\ tx.call = "collectELTokens" =>
                tx.receiver \in Users /\ tx.asset \in Assets /\ tx.amount \in Nat
           /\ tx.call = "depositETH" => tx.amount \in Nat /\ tx.onBehalfOf \in Users
           /\ tx.call \in {"withdrawETH", "unwrap"} => tx.amount \in Nat /\ tx.to \in Users
           /\ tx.call = "repayETH" =>
                tx.amount \in Nat /\ tx.mode \in Modes /\ tx.onBehalfOf \in Users
  BY DEF Transaction, NoCall

\* Adding a share of the supply raises the income index and touches no debt.
LEMMA CumulateSound ==
    ASSUME NEW t \in Nat, NEW m, Sound(m, t), NEW n \in Nat, m.elSupply # 0
    PROVE  LET r == cumulateToLiquidityIndex(m, n)
           IN  /\ Sound(r, t) /\ SameDebt(m, r) /\ IndexesGrow(m, r) /\ r.cash = m.cash
               /\ r.lastUpdateTimestamp = m.lastUpdateTimestamp
  <1> DEFINE x == rayDiv(wadToRay(n), wadToRay(m.elSupply)) + RAY
             i == rayMul(x, m.liquidityIndex)
             r == [m EXCEPT !.liquidityIndex = i]
  <1>1. m \in Market /\ m.liquidityIndex \in Nat /\ m.elSupply \in Nat \ {0}
    BY DEF Sound, Market
  <1>2. wadToRay(n) \in Nat /\ wadToRay(m.elSupply) \in Nat \ {0}
    BY <1>1, WadToRayNat
  <1>3. rayDiv(wadToRay(n), wadToRay(m.elSupply)) \in Nat
    BY <1>2, RayDivNat
  <1>4. x \in Nat /\ x >= RAY
    BY <1>3, RayAssumption
  <1> HIDE DEF x
  <1>5. i \in Nat /\ i >= m.liquidityIndex
    BY <1>1, <1>4, RayMulGrows, RayMulNat
  <1> HIDE DEF i
  <1>6. r \in Market
    BY <1>1, <1>5 DEF Market
  <1>7. SameDebt(m, r) /\ IndexesGrow(m, r) /\ r.cash = m.cash
        /\ r.lastUpdateTimestamp = m.lastUpdateTimestamp
    BY <1>1, <1>5 DEF SameDebt, IndexesGrow, Market
  <1>8. IndexesStarted(r) /\ ClocksOrdered(r, t)
    BY <1>1, <1>5, RayAssumption DEF IndexesStarted, ClocksOrdered, Sound, Market
  <1>9. SuppliesSummed(r)
    BY <1>1 DEF Sound, SuppliesSummed, Market
  <1>10. r = cumulateToLiquidityIndex(m, n)
    BY DEF cumulateToLiquidityIndex, r, i, x
  <1> QED BY <1>6, <1>7, <1>8, <1>9, <1>10 DEF Sound

-------------------------------------------------------------------------------
(***************************************************************************)
(* What the premium of a flash loan promises the depositors: the income    *)
(* index rises by the premium's share of the supply.                       *)
(***************************************************************************)

\* A common factor of both sides.
LEMMA CancelFactor ==
    ASSUME NEW a \in Nat, NEW b \in Nat, NEW w \in Nat \ {0}, w * a <= w * b
    PROVE  a <= b
  <1>1. a >= b + 1 => w * a >= w * (b + 1)
    OBVIOUS
  <1>2. w * (b + 1) = w * b + w
    OBVIOUS
  <1> QED BY <1>1, <1>2

\* The share, rounded to the nearest: the supply gets the premium back up to half
\* a unit of the index for each unit of the supply.
LEMMA ShareRounds ==
    ASSUME NEW p \in Nat, NEW s \in Nat \ {0}, NEW k,
           k = rayDiv(wadToRay(p), wadToRay(s))
    PROVE  k \in Nat /\ 2 * (s * k) <= 2 * (p * RAY) + s
  <1> DEFINE w == WAD_RAY_RATIO
             a == wadToRay(p)
             b == wadToRay(s)
             h == b \div 2
             n == a * RAY + h
  <1>1. w \in Nat \ {0} /\ RAY \in Nat \ {0}
    BY RatioAssumption, RayAssumption
  <1>2. a \in Nat /\ b \in Nat \ {0} /\ a = p * w /\ b = s * w
    BY WadToRayNat DEF wadToRay
  <1>3. h \in Nat /\ 2 * h <= b
    BY <1>2
  <1> HIDE DEF w, a, b, h
  <1>4. n \in Nat /\ k = n \div b
    BY <1>1, <1>2, <1>3 DEF rayDiv, a, b, h
  <1> HIDE DEF n
  <1>5. k \in Nat /\ b * k <= n
    BY <1>2, <1>4, DivBounds
  <1>6. 2 * (b * k) <= 2 * (a * RAY) + b
    BY <1>1, <1>2, <1>3, <1>5 DEF n
  <1>7. b * k = w * (s * k) /\ a * RAY = w * (p * RAY) /\ b = w * s
    BY <1>1, <1>2, <1>5
  <1>8. PICK x \in Nat, y \in Nat : x = s * k /\ y = p * RAY
    BY <1>1, <1>5
  <1>9. w * (2 * x) <= w * (2 * y + s)
    <2>1. 2 * (w * x) <= 2 * (w * y) + w * s
      BY <1>6, <1>7, <1>8
    <2>2. w * (2 * x) = 2 * (w * x) /\ w * (2 * y + s) = 2 * (w * y) + w * s
      BY <1>1, <1>8
    <2> QED BY <2>1, <2>2
  <1>10. 2 * x <= 2 * y + s
    <2>1. 2 * x \in Nat /\ 2 * y + s \in Nat
      BY <1>8
    <2> QED BY <1>1, <1>9, <2>1, CancelFactor
  <1> QED BY <1>5, <1>8, <1>10

\* Twice what rayMul returns, without the division.
LEMMA TwiceRayMul ==
    ASSUME NEW a \in Nat, NEW b \in Nat
    PROVE  /\ 2 * (rayMul(a, b) * RAY) <= 2 * (a * b) + RAY
           /\ 2 * (a * b) < 2 * (rayMul(a, b) * RAY) + RAY
  <1> DEFINE v == rayMul(a, b) * RAY
             c == a * b
  <1>1. v \in Nat /\ c \in Nat /\ RAY \in Nat
    BY RayMulNat, RayAssumption
  <1>2. v <= c + halfRAY /\ c + halfRAY < v + RAY
    BY RayMulBounds
  <1> HIDE DEF v, c
  <1>3. 2 * v <= 2 * c + RAY /\ 2 * c < 2 * v + RAY
    BY <1>1, <1>2, HalfRay
  <1> QED BY <1>3 DEF v, c

\* The same multiplied by one more RAY.
LEMMA TwiceRayMulRay ==
    ASSUME NEW a \in Nat, NEW b \in Nat, NEW rr, rr = RAY * RAY
    PROVE  /\ 2 * (rayMul(a, b) * rr) <= 2 * ((a * b) * RAY) + rr
           /\ 2 * ((a * b) * RAY) < 2 * (rayMul(a, b) * rr) + rr
  <1> DEFINE v == rayMul(a, b)
             c == a * b
  <1>1. v \in Nat /\ c \in Nat /\ RAY \in Nat \ {0} /\ rr \in Nat
    BY RayMulNat, RayAssumption
  <1>2. 2 * (v * RAY) <= 2 * c + RAY /\ 2 * c < 2 * (v * RAY) + RAY
    BY TwiceRayMul
  <1> HIDE DEF v, c
  <1>3. PICK x \in Nat : x = v * RAY
    BY <1>1
  <1>4. /\ (2 * x) * RAY <= (2 * c + RAY) * RAY
        /\ (2 * c + 1) * RAY <= (2 * x + RAY) * RAY
    <2>1. /\ 2 * x \in Nat /\ 2 * c + RAY \in Nat /\ 2 * c + 1 \in Nat /\ 2 * x + RAY \in Nat
          /\ 2 * x <= 2 * c + RAY /\ 2 * c + 1 <= 2 * x + RAY
      BY <1>1, <1>2, <1>3
    <2> QED BY <1>1, <2>1, MulMono
  <1>5. x * RAY = v * rr
    BY <1>1, <1>3
  <1>6. /\ (2 * x) * RAY = 2 * (x * RAY) /\ (2 * c + RAY) * RAY = 2 * (c * RAY) + rr
        /\ (2 * c + 1) * RAY = 2 * (c * RAY) + RAY
        /\ (2 * x + RAY) * RAY = 2 * (x * RAY) + rr
    BY <1>1, <1>3
  <1>7. c * RAY \in Nat /\ x * RAY \in Nat
    BY <1>1, <1>3
  <1>8. 2 * (v * rr) <= 2 * (c * RAY) + rr /\ 2 * (c * RAY) < 2 * (v * rr) + rr
    BY <1>1, <1>4, <1>5, <1>6, <1>7
  <1> QED BY <1>8 DEF v, c

\* cumulateToLiquidityIndex: what the elTokens are worth rises by no more than the
\* premium is worth at the old index, up to a scaled unit and three.  The supply
\* may be up to two RAY: beyond that, half a unit of the index is worth more.
LEMMA PremiumRounds ==
    ASSUME NEW p \in Nat, NEW s \in Nat \ {0}, s <= 2 * RAY, NEW i \in Nat \ {0}, NEW j,
           j = rayMul(rayDiv(wadToRay(p), wadToRay(s)) + RAY, i)
    PROVE  rayMul(s, j) <= rayMul(s, i) + rayMul(p, i) + rayMul(1, j) + 2
  <1> DEFINE k  == rayDiv(wadToRay(p), wadToRay(s))
             x  == k + RAY
             rr == RAY * RAY
             v1 == rayMul(s, j)
             v2 == rayMul(s, i)
             v3 == rayMul(p, i)
             v4 == rayMul(1, j)
             si == s * i
             pi == p * i
             sk == s * k
             sj == s * j
  <1>1. RAY \in Nat \ {0} /\ rr \in Nat \ {0} /\ 1 \in Nat
    BY RayAssumption
  <1>2. k \in Nat /\ 2 * sk <= 2 * (p * RAY) + s
    BY ShareRounds
  <1> HIDE DEF k
  <1>3. x \in Nat /\ x >= RAY
    BY <1>1, <1>2
  <1>4. j = rayMul(x, i)
    BY DEF k
  <1> HIDE DEF x
  <1>5. j \in Nat /\ j >= i /\ 2 * (j * RAY) <= 2 * (x * i) + RAY
    BY <1>3, <1>4, RayMulNat, RayMulGrows, TwiceRayMul
  <1>6. /\ v1 \in Nat /\ v2 \in Nat /\ v3 \in Nat /\ v4 \in Nat
        /\ si \in Nat /\ pi \in Nat /\ sk \in Nat /\ sj \in Nat
    <2>1. si \in Nat /\ pi \in Nat /\ sk \in Nat /\ sj \in Nat
      BY <1>2, <1>5
    <2> QED BY <1>1, <1>5, <2>1, RayMulNat
  <1>7. /\ 2 * (v1 * rr) <= 2 * (sj * RAY) + rr
        /\ 2 * (si * RAY) < 2 * (v2 * rr) + rr
        /\ 2 * (pi * RAY) < 2 * (v3 * rr) + rr
    BY <1>5, TwiceRayMulRay
  <1>8. 2 * (j * RAY) < 2 * (v4 * rr) + rr
    <2>1. 2 * ((1 * j) * RAY) < 2 * (v4 * rr) + rr
      BY <1>1, <1>5, TwiceRayMulRay
    <2>2. 1 * j = j
      BY <1>5
    <2> QED BY <2>1, <2>2
  <1> HIDE DEF v1, v2, v3, v4, rr
  <1>9. 2 * (sj * RAY) <= 2 * (sk * i) + 2 * (si * RAY) + s * RAY
    <2>1. PICK c \in Nat, d \in Nat : c = k * i /\ d = RAY * i
      BY <1>1, <1>2
    <2>2. x * i = c + d
      BY <1>1, <1>2, <2>1 DEF x
    <2>3. PICK e \in Nat : e = j * RAY
      BY <1>1, <1>5
    <2>4. s * (2 * e) <= s * (2 * (c + d) + RAY)
      <3>1. 2 * e \in Nat /\ 2 * (c + d) + RAY \in Nat /\ 2 * e <= 2 * (c + d) + RAY
        BY <1>1, <1>5, <2>1, <2>2, <2>3
      <3> QED BY <3>1, MulMono
    <2>5. /\ s * (2 * e) = 2 * (s * e)
          /\ s * (2 * (c + d) + RAY) = 2 * (s * c) + 2 * (s * d) + s * RAY
      BY <1>1, <2>1, <2>3
    <2>6. s * e = sj * RAY /\ s * c = sk * i /\ s * d = si * RAY
      BY <1>1, <1>2, <1>5, <2>1, <2>3
    <2> QED BY <2>4, <2>5, <2>6
  <1>10. 2 * (sk * i) <= 2 * (pi * RAY) + si
    <2>1. PICK c \in Nat : c = p * RAY
      BY <1>1
    <2> HIDE DEF sk
    <2>2. (2 * sk) * i <= (2 * c + s) * i
      <3>1. 2 * sk \in Nat /\ 2 * c + s \in Nat /\ 2 * sk <= 2 * c + s
        BY <1>2, <1>6, <2>1
      <3> QED BY <3>1, MulMono
    <2>3. (2 * sk) * i = 2 * (sk * i) /\ (2 * c + s) * i = 2 * (c * i) + si
      BY <1>6, <2>1
    <2>4. c * i = pi * RAY
      BY <1>1, <2>1
    <2> QED BY <2>2, <2>3, <2>4
  <1>11. si <= 2 * (j * RAY)
    <2>1. s * i <= (2 * RAY) * j
      BY <1>1, <1>5, MulMono2
    <2>2. (2 * RAY) * j = 2 * (j * RAY)
      BY <1>1, <1>5
    <2> QED BY <2>1, <2>2
  <1>12. s * RAY <= 2 * rr
    <2>1. s * RAY <= (2 * RAY) * RAY
      BY <1>1, MulMono
    <2>2. (2 * RAY) * RAY = 2 * rr
      BY <1>1 DEF rr
    <2> QED BY <2>1, <2>2
  <1>13. PICK sjr \in Nat, sir \in Nat, pir \in Nat, ski \in Nat, jr \in Nat, sr \in Nat :
           /\ sjr = sj * RAY /\ sir = si * RAY /\ pir = pi * RAY /\ ski = sk * i
           /\ jr = j * RAY /\ sr = s * RAY
    <2> HIDE DEF sj, si, pi, sk
    <2>1. /\ sj * RAY \in Nat /\ si * RAY \in Nat /\ pi * RAY \in Nat /\ sk * i \in Nat
          /\ j * RAY \in Nat /\ s * RAY \in Nat
      BY <1>1, <1>5, <1>6
    <2> QED BY <2>1
  <1>14. PICK a \in Nat, b \in Nat, c \in Nat, d \in Nat :
           a = v1 * rr /\ b = v2 * rr /\ c = v3 * rr /\ d = v4 * rr
    BY <1>1, <1>6
  <1> HIDE DEF sj, si, pi, sk
  <1>15. 2 * a < 2 * b + 2 * c + 2 * d + 6 * rr
    BY <1>1, <1>6, <1>7, <1>8, <1>9, <1>10, <1>11, <1>12, <1>13, <1>14
  <1>16. v1 < v2 + v3 + v4 + 3
    <2> DEFINE z == v2 + v3 + v4 + 3
    <2>1. z \in Nat /\ z * rr = b + c + d + 3 * rr
      BY <1>1, <1>6, <1>14
    <2> HIDE DEF z
    <2>2. z <= v1 => z * rr <= v1 * rr
      BY <1>1, <1>6, <2>1, MulMono
    <2>3. ~(z <= v1)
      BY <1>1, <1>14, <1>15, <2>1, <2>2
    <2> QED BY <1>6, <2>1, <2>3 DEF z
  <1>17. v1 <= v2 + v3 + v4 + 2
    BY <1>6, <1>16
  <1> QED BY <1>17 DEF v1, v2, v3, v4

-------------------------------------------------------------------------------
(***************************************************************************)
(* Steps that move no balance of the pool.                                 *)
(***************************************************************************)

\* A step that changes wallets or the configuration only.
LEMMA MarketsUntouched ==
    ASSUME IInv, UNCHANGED <<now, price, market, usersConfig, borrowAllowance>>,
           paused' \in BOOLEAN, config' \in [Assets -> Config],
           wallet' \in [Users -> [Assets -> Nat]]
    PROVE  Preserved
  <1>1. TypeOK'
    BY DEF IInv, TypeOK
  <1>2. DebtIsFlagged' /\ \A a \in Assets : Sound(market'[a], now')
    BY DEF IInv, DebtIsFlagged
  <1>3. IndexesStep
    BY MarketsStart DEF IndexesStep, MarketsGo
  <1> QED BY <1>1, <1>2, <1>3 DEF Preserved, IInv

\* LendingPoolConfigurator: every value the administrators may choose is a configuration.
LEMMA ConfigureStep ==
    ASSUME IInv, NEW a \in Assets, NEW c \in Config, configure(a, c)
    PROVE  Preserved
  <1>1. config \in [Assets -> Config] /\ paused \in BOOLEAN
        /\ wallet \in [Users -> [Assets -> Nat]]
    BY DEF IInv, TypeOK
  <1>2. config' \in [Assets -> Config]
    BY <1>1 DEF configure
  <1> QED BY <1>1, <1>2, MarketsUntouched DEF configure

LEMMA AdministrationStep ==
    ASSUME IInv, Administration
    PROVE  Preserved
  <1>1. CASE \E val \in BOOLEAN : setPoolPause(val)
    <2>1. config \in [Assets -> Config] /\ wallet \in [Users -> [Assets -> Nat]]
      BY DEF IInv, TypeOK
    <2>2. PICK val \in BOOLEAN : setPoolPause(val)
      BY <1>1
    <2> QED BY <2>1, <2>2, MarketsUntouched DEF setPoolPause
  <1>2. SUFFICES ASSUME NEW a \in Assets,
               \/ \E stable \in BOOLEAN : enableBorrowingOnReserve(a, stable)
               \/ disableBorrowingOnReserve(a)
               \/ \E c \in Collaterals :
                     configureReserveAsCollateral(a, c.ltv, c.threshold, c.bonus)
               \/ \E enabled \in BOOLEAN : setReserveStableRate(a, enabled)
               \/ activateReserve(a)
               \/ deactivateReserve(a)
               \/ \E frozen \in BOOLEAN : setReserveFreezing(a, frozen)
               \/ \E factor \in ReserveFactors : setReserveFactor(a, factor)
               \/ \E strategy \in Strategies :
                     setReserveInterestRateStrategyAddress(a, strategy)
        PROVE  Preserved
    BY <1>1 DEF Administration
  <1> DEFINE c == config[a]
  <1>3. c \in Config
    BY DEF IInv, TypeOK
  <1> HIDE DEF c
  <1>4. CASE \E stable \in BOOLEAN : enableBorrowingOnReserve(a, stable)
    <2>1. PICK stable \in BOOLEAN : enableBorrowingOnReserve(a, stable)
      BY <1>4
    <2>2. [c EXCEPT !.borrowing = TRUE, !.stable = stable] \in Config
      BY <1>3 DEF Config
    <2> QED BY <2>1, <2>2, ConfigureStep DEF enableBorrowingOnReserve, c
  <1>5. CASE disableBorrowingOnReserve(a)
    <2>1. [c EXCEPT !.borrowing = FALSE] \in Config
      BY <1>3 DEF Config
    <2> QED BY <1>5, <2>1, ConfigureStep DEF disableBorrowingOnReserve, c
  <1>6. CASE \E v \in Collaterals : configureReserveAsCollateral(a, v.ltv, v.threshold, v.bonus)
    <2>1. PICK v \in Collaterals : configureReserveAsCollateral(a, v.ltv, v.threshold, v.bonus)
      BY <1>6
    <2>2. v.ltv \in Nat /\ v.threshold \in Nat /\ v.bonus \in Nat
      BY ChoicesAssumption
    <2>3. [c EXCEPT !.ltv = v.ltv, !.threshold = v.threshold,
                       !.bonus = v.bonus] \in Config
      BY <1>3, <2>2 DEF Config
    <2> QED BY <2>1, <2>3, ConfigureStep DEF configureReserveAsCollateral, c
  <1>7. CASE \E enabled \in BOOLEAN : setReserveStableRate(a, enabled)
    <2>1. PICK enabled \in BOOLEAN : setReserveStableRate(a, enabled)
      BY <1>7
    <2>2. [c EXCEPT !.stable = enabled] \in Config
      BY <1>3 DEF Config
    <2> QED BY <2>1, <2>2, ConfigureStep DEF setReserveStableRate, c
  <1>8. CASE activateReserve(a)
    <2>1. [c EXCEPT !.active = TRUE] \in Config
      BY <1>3 DEF Config
    <2> QED BY <1>8, <2>1, ConfigureStep DEF activateReserve, c
  <1>9. CASE deactivateReserve(a)
    <2>1. [c EXCEPT !.active = FALSE] \in Config
      BY <1>3 DEF Config
    <2> QED BY <1>9, <2>1, ConfigureStep DEF deactivateReserve, c
  <1>10. CASE \E frozen \in BOOLEAN : setReserveFreezing(a, frozen)
    <2>1. PICK frozen \in BOOLEAN : setReserveFreezing(a, frozen)
      BY <1>10
    <2>2. [c EXCEPT !.frozen = frozen] \in Config
      BY <1>3 DEF Config
    <2> QED BY <2>1, <2>2, ConfigureStep DEF setReserveFreezing, c
  <1>11. CASE \E factor \in ReserveFactors : setReserveFactor(a, factor)
    <2>1. PICK factor \in ReserveFactors : setReserveFactor(a, factor)
      BY <1>11
    <2>2. [c EXCEPT !.reserveFactor = factor] \in Config
      BY <1>3, ChoicesAssumption DEF Config
    <2> QED BY <2>1, <2>2, ConfigureStep DEF setReserveFactor, c
  <1>12. CASE \E strategy \in Strategies : setReserveInterestRateStrategyAddress(a, strategy)
    <2>1. PICK strategy \in Strategies : setReserveInterestRateStrategyAddress(a, strategy)
      BY <1>12
    <2>2. [c EXCEPT !.strategy = strategy] \in Config
      BY <1>3, ChoicesAssumption DEF Config
    <2> QED BY <2>1, <2>2, ConfigureStep DEF setReserveInterestRateStrategyAddress, c
  <1> QED BY <1>2, <1>4, <1>5, <1>6, <1>7, <1>8, <1>9, <1>10, <1>11, <1>12
-------------------------------------------------------------------------------
(***************************************************************************)
(* Flash loans.                                                            *)
(***************************************************************************)

\* Lending: the cash moves into the receiver's wallet.
LEMMA FlashLoanStep ==
    ASSUME IInv, NEW u \in Users, NEW receiver \in Users, NEW a \in Assets, NEW amount \in Nat,
           NEW mode, NEW onBehalfOf, flashLoan(u, receiver, a, amount, mode, onBehalfOf)
    PROVE  Preserved
  <1> DEFINE m == market[a]
             r == [m EXCEPT !.cash = m.cash - amount]
  <1>1. /\ now \in Nat /\ Sound(m, now) /\ usersConfig \in [Users -> UserConfig]
        /\ wallet \in [Users -> [Assets -> Nat]]
    BY DEF IInv, TypeOK
  <1>2. /\ amount <= m.cash /\ market' = [market EXCEPT ![a] = r]
        /\ wallet' = [wallet EXCEPT ![receiver][a] = @ + amount]
        /\ UNCHANGED <<now, paused, price, config, usersConfig, borrowAllowance>>
    BY DEF flashLoan
  <1>3. m.cash - amount \in Nat
    BY <1>1, <1>2 DEF Sound, Market
  <1>4. ElFrame(m, r, now)
    BY <1>1, <1>3, CashChange
  <1> HIDE DEF r
  <1>5. Sound(r, now) /\ IndexesGrow(m, r) /\ SameDebt(m, r)
    BY <1>1, <1>4, SameGrow DEF ElFrame, Sound
  <1>6. MarketsGo(market, market', now)
    BY <1>2, <1>5, ChangeOne
  <1>7. wallet' \in [Users -> [Assets -> Nat]]
    BY <1>1, <1>2, WalletChange
  <1>8. DebtIsFlagged'
    BY <1>2, <1>5, SameOwes, OwesNoMoreOne, FlagsKept DEF FlagsOnlyRise
  <1> QED BY <1>1, <1>2, <1>6, <1>7, <1>8, Preserving DEF IInv, TypeOK

\* Collecting: the premium raises the income index, and no debt changes.
LEMMA CollectFlashLoanStep ==
    ASSUME IInv, tx \in Transaction, collectFlashLoan
    PROVE  Preserved
  <1> DEFINE a    == tx.asset
             fee  == premium(tx.amount)
             owed == tx.amount + fee
             m    == market[a]
             m1   == updateState(m, config[a], now)
             m2   == cumulateToLiquidityIndex(m1, fee)
             m3   == updateInterestRates(m2, config[a], now, owed, 0)
             m4   == [m3 EXCEPT !.cash = @ + owed]
  <1>0. /\ a \in Assets /\ tx.amount \in Nat /\ tx.receiver \in Users
    BY CallFields DEF collectFlashLoan
  <1>1. /\ now \in Nat /\ Sound(m, now) /\ config[a] \in Config
        /\ usersConfig \in [Users -> UserConfig]
        /\ wallet \in [Users -> [Assets -> Nat]]
    BY <1>0 DEF IInv, TypeOK
  <1>2. /\ canUpdateState(m, config[a], now) /\ m1.elSupply # 0
        /\ canUpdateInterestRates(m2, config[a], owed, 0)
        /\ \/ /\ wallet[tx.receiver][a] >= owed
              /\ market' = [market EXCEPT ![a] = m4]
              /\ wallet' = [wallet EXCEPT ![tx.receiver][a] = @ - owed]
           \/ market' = [market EXCEPT ![a] = m3] /\ wallet' = wallet
        /\ UNCHANGED <<now, paused, price, config, usersConfig, borrowAllowance>>
    BY DEF collectFlashLoan
  <1>3. fee \in Nat /\ owed \in Nat
    BY <1>0, PremiumNat
  <1> HIDE DEF a, fee, owed
  <1>4. UpdateFrame(m, m1, now)
    BY <1>1, <1>2, UpdateStateSound
  <1> HIDE DEF m1
  <1>5. Sound(m2, now) /\ SameDebt(m1, m2) /\ IndexesGrow(m1, m2) /\ m2.cash = m1.cash
    BY <1>1, <1>2, <1>3, <1>4, CumulateSound DEF UpdateFrame
  <1> HIDE DEF m2
  <1>6. ElFrame(m2, m3, now)
    BY <1>1, <1>2, <1>3, <1>5, UpdateRatesSound
  <1> HIDE DEF m3
  <1>7. m3.cash + owed \in Nat
    BY <1>3, <1>6 DEF ElFrame, Sound, Market
  <1>8. ElFrame(m3, m4, now)
    BY <1>1, <1>6, <1>7, CashChange DEF ElFrame
  <1> HIDE DEF m4
  <1>9. /\ Sound(m3, now) /\ IndexesGrow(m, m3) /\ SameDebt(m, m3)
        /\ Sound(m4, now) /\ IndexesGrow(m, m4) /\ SameDebt(m, m4)
    <2>1. m \in Market /\ m1 \in Market /\ m2 \in Market
      BY <1>1, <1>4, <1>5 DEF UpdateFrame, Sound
    <2>2. IndexesGrow(m, m2)
      BY <1>4, <1>5, <2>1, GrowTrans DEF UpdateFrame
    <2> QED BY <1>4, <1>5, <1>6, <1>8, <2>2 DEF UpdateFrame, ElFrame, SameDebt,
                                               SameIndexes, IndexesGrow
  <1>10. PICK r : /\ market' = [market EXCEPT ![a] = r]
                  /\ Sound(r, now) /\ IndexesGrow(m, r) /\ SameDebt(m, r)
    BY <1>2, <1>9
  <1>11. MarketsGo(market, market', now)
    BY <1>0, <1>10, ChangeOne DEF a
  <1>12. wallet' \in [Users -> [Assets -> Nat]]
    <2>1. CASE wallet' = wallet
      BY <1>1, <2>1
    <2>2. CASE /\ wallet[tx.receiver][a] >= owed
               /\ wallet' = [wallet EXCEPT ![tx.receiver][a] = @ - owed]
      <3>1. [wallet EXCEPT ![tx.receiver][a] = @ - owed] \in [Users -> [Assets -> Nat]]
        BY <1>0, <1>1, <1>3, <2>2, WalletChange DEF a
      <3> QED BY <2>2, <3>1
    <2> QED BY <1>2, <2>1, <2>2
  <1>13. DebtIsFlagged'
    BY <1>0, <1>2, <1>10, SameOwes, OwesNoMoreOne, FlagsKept DEF FlagsOnlyRise
  <1> QED BY <1>1, <1>2, <1>11, <1>12, <1>13, Preserving DEF IInv, TypeOK

\* Keeping: a borrow whose underlying has left already.
LEMMA KeepFlashLoanStep ==
    ASSUME IInv, tx \in Transaction, keepFlashLoan
    PROVE  Preserved
  <1> DEFINE a == tx.asset
             u == tx.user
             onBehalfOf == tx.onBehalfOf
             mode == tx.mode
             amount == tx.amount
             m  == market[a]
             m1 == updateState(m, config[a], now)
             m2 == mintDebt(m1, onBehalfOf, amount, mode, now)
             m3 == updateInterestRates(m2, config[a], now, 0, 0)
             first == isFirstBorrowing(m1, onBehalfOf, mode, now)
  <1>0. /\ a \in Assets /\ amount \in Nat /\ u \in Users /\ onBehalfOf \in Users
        /\ mode \in Modes
    BY CallFields DEF keepFlashLoan
  <1>1. /\ now \in Nat /\ Sound(m, now) /\ config[a] \in Config
        /\ usersConfig \in [Users -> UserConfig]
        /\ borrowAllowance \in [Modes -> [Assets -> [Users -> [Users -> Nat]]]]
    BY <1>0 DEF IInv, TypeOK
  <1>2. /\ canUpdateState(m, config[a], now)
        /\ canDecreaseBorrowAllowance(a, mode, onBehalfOf, u, amount)
        /\ canMintDebt(m1, onBehalfOf, amount, mode, now)
        /\ canUpdateInterestRates(m2, config[a], 0, 0)
        /\ market' = [market EXCEPT ![a] = m3]
        /\ usersConfig' = IF first THEN setBorrowing(usersConfig, onBehalfOf, a, TRUE)
                                   ELSE usersConfig
        /\ borrowAllowance' = IF u # onBehalfOf
                              THEN [borrowAllowance EXCEPT ![mode][a][onBehalfOf][u] = @ - amount]
                              ELSE borrowAllowance
        /\ UNCHANGED <<now, paused, price, config, wallet>>
    BY DEF keepFlashLoan
  <1> HIDE DEF a, u, onBehalfOf, mode, amount
  <1>3. UpdateFrame(m, m1, now)
    BY <1>1, <1>2, UpdateStateSound
  <1> HIDE DEF m1
  <1>4. DebtFrame(m1, m2, now) /\ OthersOweNoMore(m1, m2, onBehalfOf)
    BY <1>0, <1>1, <1>2, <1>3, MintDebtSound DEF UpdateFrame
  <1> HIDE DEF m2
  <1>5. ElFrame(m2, m3, now)
    <2>1. Sound(m2, now)
      BY <1>4 DEF DebtFrame
    <2> QED BY <1>1, <1>2, <2>1, UpdateRatesSound
  <1> HIDE DEF m3
  <1>6. Sound(m3, now) /\ IndexesGrow(m, m3)
    BY <1>3, <1>4, <1>5 DEF UpdateFrame, DebtFrame, ElFrame, SameIndexes, IndexesGrow
  <1>7. OthersOweNoMore(m, m3, onBehalfOf)
    BY <1>3, <1>4, <1>5 DEF UpdateFrame, ElFrame, SameDebt, OthersOweNoMore
  <1>8. MarketsGo(market, market', now)
    BY <1>0, <1>2, <1>6, ChangeOne
  <1>9. /\ usersConfig' \in [Users -> UserConfig] /\ FlagsOnlyRise
        /\ a \in usersConfig'[onBehalfOf].borrowing
    <2>1. CASE first
      <3>1. usersConfig' = setBorrowing(usersConfig, onBehalfOf, a, TRUE)
        BY <1>2, <2>1
      <3>2. /\ usersConfig' \in [Users -> UserConfig]
            /\ \A v \in Users \ {onBehalfOf} : usersConfig'[v] = usersConfig[v]
            /\ usersConfig'[onBehalfOf].borrowing = usersConfig[onBehalfOf].borrowing \cup {a}
        BY <1>0, <1>1, <3>1 DEF setBorrowing, UserConfig
      <3> QED BY <1>0, <3>2 DEF FlagsOnlyRise
    <2>2. CASE ~first
      <3>1. m1.varDebt[onBehalfOf] # 0 \/ m1.stDebt[onBehalfOf] # 0
        BY <1>0, <1>1, <1>3, <2>2, StBalanceNat DEF isFirstBorrowing, UpdateFrame
      <3>2. m.varDebt[onBehalfOf] # 0 \/ m.stDebt[onBehalfOf] # 0
        BY <1>3, <3>1 DEF UpdateFrame, SameDebt
      <3> QED BY <1>0, <1>1, <1>2, <2>2, <3>2 DEF IInv, DebtIsFlagged, FlagsOnlyRise
    <2> QED BY <2>1, <2>2
  <1>10. borrowAllowance' \in [Modes -> [Assets -> [Users -> [Users -> Nat]]]]
    BY <1>0, <1>1, <1>2 DEF canDecreaseBorrowAllowance
  <1>11. DebtIsFlagged'
    BY <1>0, <1>2, <1>7, <1>9, FlaggedOne
  <1> QED BY <1>1, <1>2, <1>8, <1>9, <1>10, <1>11, Preserving DEF IInv, TypeOK
-------------------------------------------------------------------------------
(***************************************************************************)
(* The gateway: calls of the pool, and ether wrapped and unwrapped.        *)
(***************************************************************************)

\* Wrapping takes no more ether than there is.
LEMMA WrapStep ==
    ASSUME IInv, TxTypeOK, NEW u \in Users, NEW value \in Nat, wrap(u, value)
    PROVE  Preserved /\ ether' \in [Users -> Nat]
  <1>1. /\ wallet \in [Users -> [Assets -> Nat]] /\ config \in [Assets -> Config]
        /\ paused \in BOOLEAN /\ Gateway \in Users /\ WETH \in Assets
    BY GatewayAssumption DEF IInv, TypeOK
  <1>2. /\ ether[u] >= value /\ ether' = [ether EXCEPT ![u] = @ - value]
        /\ wallet' = [wallet EXCEPT ![Gateway][WETH] = @ + value]
        /\ UNCHANGED <<now, paused, price, config, market, usersConfig, borrowAllowance>>
    BY DEF wrap
  <1>3. wallet' \in [Users -> [Assets -> Nat]]
    BY <1>1, <1>2, WalletChange
  <1>4. ether' \in [Users -> Nat]
    BY <1>2 DEF TxTypeOK
  <1> QED BY <1>1, <1>2, <1>3, <1>4, MarketsUntouched

\* Unwrapping pays out of the gateway's wrapped ether.
LEMMA UnwrapStep ==
    ASSUME IInv, TxTypeOK, unwrap
    PROVE  Preserved /\ TxTypeOK'
  <1>1. /\ wallet \in [Users -> [Assets -> Nat]] /\ config \in [Assets -> Config]
        /\ paused \in BOOLEAN /\ Gateway \in Users /\ WETH \in Assets
    BY GatewayAssumption DEF IInv, TypeOK
  <1>2. /\ wallet[Gateway][WETH] >= tx.amount
        /\ wallet' = [wallet EXCEPT ![Gateway][WETH] = @ - tx.amount]
        /\ ether' = [ether EXCEPT ![tx.to] = @ + tx.amount]
        /\ tx' = NoCall
        /\ UNCHANGED <<now, paused, price, config, market, usersConfig, borrowAllowance>>
    BY DEF unwrap
  <1>3. tx.amount \in Nat /\ tx.to \in Users
    BY CallFields DEF unwrap, TxTypeOK
  <1>4. wallet' \in [Users -> [Assets -> Nat]]
    BY <1>1, <1>2, <1>3, WalletChange
  <1>5. TxTypeOK'
    BY <1>2, <1>3 DEF TxTypeOK, Transaction
  <1> QED BY <1>1, <1>2, <1>4, <1>5, MarketsUntouched

\* What the calls of the gateway record of themselves has its type.
LEMMA CallsTyped ==
    ASSUME NEW amount \in Nat, NEW u \in Users
    PROVE  /\ [call |-> "depositETH", amount |-> amount, onBehalfOf |-> u] \in Transaction
           /\ [call |-> "withdrawETH", amount |-> amount, to |-> u] \in Transaction
           /\ [call |-> "unwrap", amount |-> amount, to |-> u] \in Transaction
           /\ \A mode \in Modes : [call |-> "repayETH", amount |-> amount, mode |-> mode,
                                   onBehalfOf |-> u] \in Transaction
  BY DEF Transaction

\* The first steps of the gateway's calls.
LEMMA EtherStep ==
    ASSUME IInv, TxTypeOK, EtherCalls
    PROVE  Preserved /\ TxTypeOK'
  <1>1. PICK p \in EtherParties, amount \in Amounts :
          \/ depositETH(p[1], amount, p[2])
          \/ withdrawETH(p[1], amount, p[2])
          \/ \E mode \in BorrowModes : borrowETH(p[1], amount, mode)
          \/ \E mode \in BorrowModes, value \in Amounts :
               repayETH(p[1], value, amount, mode, p[2])
    BY DEF EtherCalls
  <1> DEFINE u == p[1]
             v == p[2]
  <1>2. /\ u \in Users /\ v \in Users /\ amount \in Nat /\ Gateway \in Users /\ WETH \in Assets
        /\ BorrowModes \subseteq Modes /\ Amounts \subseteq Nat
    BY GatewayAssumption, BoundsAssumption DEF Modes
  <1>3. now \in Nat /\ market[WETH] \in Market /\ Sound(market[WETH], now)
    BY <1>2 DEF IInv, TypeOK
  <1>4. \/ depositETH(u, amount, v)
        \/ withdrawETH(u, amount, v)
        \/ \E mode \in BorrowModes : borrowETH(u, amount, mode)
        \/ \E mode \in BorrowModes, value \in Amounts : repayETH(u, value, amount, mode, v)
    BY <1>1
  <1> HIDE DEF u, v
  <1>5. CASE depositETH(u, amount, v)
    <2>1. /\ wrap(u, amount)
          /\ tx' = [call |-> "depositETH", amount |-> amount, onBehalfOf |-> v]
      BY <1>5 DEF depositETH
    <2> QED BY <1>2, <2>1, WrapStep, CallsTyped DEF TxTypeOK
  <1>6. CASE withdrawETH(u, amount, v)
    <2> DEFINE n == IF amount = UINT256_MAX THEN market[WETH].el[u] ELSE amount
    <2>1. n \in Nat
      BY <1>2, <1>3 DEF Market, Accounts
    <2>2. /\ transfer(u, Gateway, WETH, n)
          /\ tx' = [call |-> "withdrawETH", amount |-> n, to |-> v] /\ ether' = ether
      BY <1>6 DEF withdrawETH
    <2> HIDE DEF n
    <2>3. tx' \in Transaction
      BY <1>2, <2>1, <2>2, CallsTyped
    <2> QED BY <1>2, <2>1, <2>2, <2>3, TransferStep DEF TxTypeOK
  <1>7. ASSUME NEW mode \in BorrowModes, borrowETH(u, amount, mode)
        PROVE  Preserved /\ TxTypeOK'
    <2>1. mode \in Modes /\ borrow(Gateway, WETH, amount, mode, u)
      BY <1>2, <1>7 DEF borrowETH
    <2> QED BY <1>2, <1>7, <2>1, BorrowStep, CallsTyped DEF borrowETH, TxTypeOK
  <1>8. ASSUME NEW mode \in BorrowModes, NEW value \in Amounts,
               repayETH(u, value, amount, mode, v)
        PROVE  Preserved /\ TxTypeOK'
    <2> DEFINE debt == debtOfMode(market[WETH], v, mode, now)
               payback == IF amount < debt THEN amount ELSE debt
    <2>1. mode \in Modes /\ value \in Nat
      BY <1>2
    <2>2. payback \in Nat
      BY <1>2, <1>3, <2>1, DebtOfModeNat
    <2>3. /\ wrap(u, payback)
          /\ tx' = [call |-> "repayETH", amount |-> value, mode |-> mode, onBehalfOf |-> v]
      BY <1>8 DEF repayETH
    <2> HIDE DEF payback
    <2> QED BY <1>2, <2>1, <2>2, <2>3, WrapStep, CallsTyped DEF TxTypeOK
  <1> QED BY <1>4, <1>5, <1>6, <1>7, <1>8

\* What the owner of the gateway recovers for who sent it there.
LEMMA RecoveryStep ==
    ASSUME IInv, Recoveries
    PROVE  Preserved /\ UNCHANGED <<ether, tx>>
  <1>1. PICK a \in Assets, to \in Users, amount \in Amounts :
          emergencyTokenTransfer(a, to, amount)
    BY DEF Recoveries
  <1>2. /\ amount \in Nat /\ Gateway \in Users /\ wallet \in [Users -> [Assets -> Nat]]
        /\ config \in [Assets -> Config] /\ paused \in BOOLEAN
    BY BoundsAssumption, GatewayAssumption DEF IInv, TypeOK
  <1>3. UNCHANGED <<ether, tx>>
    BY <1>1 DEF emergencyTokenTransfer
  <1>4. CASE transfer(Gateway, to, a, amount)
    BY <1>2, <1>3, <1>4, TransferStep
  <1>5. CASE ~transfer(Gateway, to, a, amount)
    <2> DEFINE w == [wallet EXCEPT ![Gateway][a] = @ - amount]
    <2>1. /\ wallet[Gateway][a] >= amount
          /\ wallet' = [w EXCEPT ![to][a] = @ + amount]
          /\ UNCHANGED <<now, paused, price, config, market, usersConfig, borrowAllowance>>
      BY <1>1, <1>5 DEF emergencyTokenTransfer
    <2>2. w \in [Users -> [Assets -> Nat]]
      BY <1>2, <2>1, WalletChange
    <2> HIDE DEF w
    <2>3. wallet' \in [Users -> [Assets -> Nat]]
      BY <1>2, <2>1, <2>2, WalletChange
    <2> QED BY <1>2, <1>3, <2>1, <2>3, MarketsUntouched
  <1> QED BY <1>4, <1>5
-------------------------------------------------------------------------------
(***************************************************************************)
(* All the steps together.                                                 *)
(***************************************************************************)

\* No call in progress.
LEMMA NoCallTyped == NoCall \in Transaction /\ NoCall.call = "none"
  BY DEF Transaction, NoCall

\* The first step of a flash loan.
LEMMA FlashLoansStep ==
    ASSUME UInv, FlashLoans
    PROVE  Kept
  <1>1. PICK l \in Loans, amount \in Amounts, mode \in {"NONE"} \cup BorrowModes :
          flashLoan(l[1], l[2], l[3], amount, mode, l[4])
    BY DEF FlashLoans
  <1>2. /\ l[1] \in Users /\ l[2] \in Users /\ l[3] \in Assets /\ l[4] \in Users
        /\ amount \in Nat /\ mode \in {"NONE"} \cup Modes
    BY LoansAssumption, BoundsAssumption DEF Modes
  <1>3. Preserved
    BY <1>1, <1>2, FlashLoanStep DEF UInv
  <1>4. /\ tx' = [call |-> "flashLoan", user |-> l[1], receiver |-> l[2], asset |-> l[3],
                  amount |-> amount, mode |-> mode, onBehalfOf |-> l[4]]
        /\ ether' = ether
    BY <1>1 DEF flashLoan
  <1>5. tx' \in Transaction /\ tx'.call = "flashLoan"
    BY <1>2, <1>4 DEF Transaction
  <1> QED BY <1>3, <1>4, <1>5 DEF Kept, UInv, TxTypeOK, CollectsWhenItMay, Preserved

\* Who may call the pool in the middle of a transaction may do it between two.
LEMMA CallersCall ==
    ASSUME UInv, PoolCalls
    PROVE  UserCalls(Users) /\ UNCHANGED <<ether, tx>>
  <1>1. callers \subseteq Users
    BY CallFields DEF callers, UInv, TxTypeOK
  <1>2. \A op : CallsOf(callers, op) \subseteq CallsOf(Users, op)
    BY <1>1 DEF CallsOf
  <1>3. UserCalls(callers) /\ UNCHANGED <<ether, tx>>
    BY DEF PoolCalls
  <1>4. Deposits(callers) => Deposits(Users)
    BY <1>2 DEF Deposits
  <1>5. Withdrawals(callers) => Withdrawals(Users)
    BY <1>2 DEF Withdrawals
  <1>6. Transfers(callers) => Transfers(Users)
    BY <1>2 DEF Transfers
  <1>7. Borrowings(callers) => Borrowings(Users)
    BY <1>2 DEF Borrowings
  <1>8. Repayments(callers) => Repayments(Users)
    BY <1>2 DEF Repayments
  <1>9. Swaps(callers) => Swaps(Users)
    BY <1>2 DEF Swaps
  <1>10. Rebalances(callers) => Rebalances(Users)
    BY <1>2 DEF Rebalances
  <1>11. CollateralChoices(callers) => CollateralChoices(Users)
    BY <1>2 DEF CollateralChoices
  <1>12. Liquidations(callers) => Liquidations(Users)
    BY <1>2 DEF Liquidations
  <1>13. Delegatings(callers) => Delegatings(Users)
    BY <1>1 DEF Delegatings
  <1> QED BY <1>3, <1>4, <1>5, <1>6, <1>7, <1>8, <1>9, <1>10, <1>11, <1>12, <1>13
          DEF UserCalls

\* The elTokens that revisions 3 and 4 ask for.
LEMMA CollectStep ==
    ASSUME UInv, collectELTokens
    PROVE  Kept
  <1>1. /\ tx.receiver \in Users /\ tx.asset \in Assets /\ tx.amount \in Nat
        /\ ELTokenContract \in Users
    BY CallFields, CollectorAssumption DEF UInv, TxTypeOK, CollectsWhenItMay, collectELTokens
  <1>2. tx.amount + premium(tx.amount) \in Nat
    BY <1>1, PremiumNat
  <1>3. /\ transfer(tx.receiver, ELTokenContract, tx.asset, tx.amount + premium(tx.amount))
        /\ tx' = NoCall /\ ether' = ether
    BY DEF collectELTokens
  <1>4. Preserved
    BY <1>1, <1>2, <1>3, TransferStep DEF UInv
  <1> QED BY <1>3, <1>4, NoCallTyped DEF Kept, UInv, TxTypeOK, CollectsWhenItMay, Preserved

\* The other steps of a call in progress.
LEMMA ContinueStep ==
    ASSUME UInv, Continues
    PROVE  Kept
  <1>1. /\ Gateway \in Users /\ WETH \in Assets /\ tx \in Transaction /\ IInv
        /\ ether \in [Users -> Nat]
    BY GatewayAssumption DEF UInv, TxTypeOK
  <1>2. CASE collectFlashLoan
    <2>1. /\ ether' = ether
          /\ \/ tx' = NoCall
             \/ /\ REVISION # 2
                /\ tx' = [call |-> "collectELTokens", receiver |-> tx.receiver,
                          asset |-> tx.asset, amount |-> tx.amount]
      BY <1>2 DEF collectFlashLoan
    <2>2. tx.receiver \in Users /\ tx.asset \in Assets /\ tx.amount \in Nat
      BY <1>1, <1>2, CallFields DEF collectFlashLoan
    <2>3. tx' \in Transaction /\ (tx'.call = "collectELTokens" => REVISION # 2)
      <3>1. CASE tx' = NoCall
        BY <3>1, NoCallTyped
      <3>2. CASE tx' = [call |-> "collectELTokens", receiver |-> tx.receiver,
                        asset |-> tx.asset, amount |-> tx.amount] /\ REVISION # 2
        BY <2>2, <3>2 DEF Transaction
      <3> QED BY <2>1, <3>1, <3>2
    <2> QED BY <1>1, <1>2, <2>1, <2>3, CollectFlashLoanStep
            DEF Kept, UInv, TxTypeOK, CollectsWhenItMay, Preserved
  <1>3. CASE keepFlashLoan
    <2>1. tx' = NoCall /\ ether' = ether
      BY <1>3 DEF keepFlashLoan
    <2> QED BY <1>1, <1>3, <2>1, KeepFlashLoanStep, NoCallTyped
            DEF Kept, UInv, TxTypeOK, CollectsWhenItMay, Preserved
  <1>4. CASE depositWrapped
    <2>1. tx.amount \in Nat /\ tx.onBehalfOf \in Users
      BY <1>1, <1>4, CallFields DEF depositWrapped
    <2>2. deposit(Gateway, WETH, tx.amount, tx.onBehalfOf) /\ tx' = NoCall /\ ether' = ether
      BY <1>4 DEF depositWrapped
    <2> QED BY <1>1, <2>1, <2>2, DepositStep, NoCallTyped
            DEF Kept, UInv, TxTypeOK, CollectsWhenItMay, Preserved
  <1>5. CASE withdrawWrapped
    <2>1. tx.amount \in Nat /\ tx.to \in Users
      BY <1>1, <1>5, CallFields DEF withdrawWrapped
    <2>2. /\ withdraw(Gateway, WETH, tx.amount, Gateway) /\ ether' = ether
          /\ tx' = [call |-> "unwrap", amount |-> tx.amount, to |-> tx.to]
      BY <1>5 DEF withdrawWrapped
    <2>3. tx' \in Transaction /\ tx'.call = "unwrap"
      BY <2>1, <2>2, CallsTyped
    <2> QED BY <1>1, <2>1, <2>2, <2>3, WithdrawStep
            DEF Kept, UInv, TxTypeOK, CollectsWhenItMay, Preserved
  <1>6. CASE unwrap
    <2>1. tx' = NoCall
      BY <1>6 DEF unwrap
    <2> QED BY <1>1, <1>6, <2>1, UnwrapStep, NoCallTyped
            DEF Kept, UInv, TxTypeOK, CollectsWhenItMay, Preserved
  <1>7. CASE repayWrapped
    <2>1. tx.amount \in Nat /\ tx.mode \in Modes /\ tx.onBehalfOf \in Users
      BY <1>1, <1>7, CallFields DEF repayWrapped
    <2>2. /\ repay(Gateway, WETH, tx.amount, tx.mode, tx.onBehalfOf)
          /\ tx' = NoCall /\ ether' = ether
      BY <1>7 DEF repayWrapped
    <2> QED BY <1>1, <2>1, <2>2, RepayStep, NoCallTyped
            DEF Kept, UInv, TxTypeOK, CollectsWhenItMay, Preserved
  <1> QED BY <1>2, <1>3, <1>4, <1>5, <1>6, <1>7 DEF Continues

\* Every step of the administered pool keeps the invariant and lowers no index.
LEMMA AdministeredPreserves == UInv /\ [AdministeredNext]_txVars => Kept
  <1> SUFFICES ASSUME UInv, [AdministeredNext]_txVars PROVE Kept
    OBVIOUS
  <1>1. CASE \/ (Tick \/ Quotes \/ Administration) /\ UNCHANGED <<ether, tx>>
             \/ PoolCalls \/ Recoveries
    <2>1. (Next \/ Administration \/ Recoveries) /\ UNCHANGED <<ether, tx>>
      BY <1>1, CallersCall, RecoveryStep DEF Next, UInv
    <2>2. Preserved
      BY <2>1, NextPreserves, AdministrationStep, RecoveryStep DEF UInv
    <2> QED BY <2>1, <2>2 DEF Kept, UInv, TxTypeOK, CollectsWhenItMay, Preserved
  <1>2. CASE EtherCalls
    <2>1. Preserved /\ TxTypeOK'
      BY <1>2, EtherStep DEF UInv
    <2>2. tx'.call # "collectELTokens"
      BY <1>2 DEF EtherCalls, depositETH, withdrawETH, borrowETH, repayETH
    <2> QED BY <2>1, <2>2 DEF Kept, UInv, CollectsWhenItMay, Preserved
  <1>3. CASE UNCHANGED txVars
    <2>1. UNCHANGED <<ether, tx>> /\ UNCHANGED vars
      BY <1>3 DEF txVars
    <2>2. Preserved
      BY <2>1, NextPreserves DEF UInv
    <2> QED BY <2>1, <2>2 DEF Kept, UInv, TxTypeOK, CollectsWhenItMay, Preserved
  <1> QED BY <1>1, <1>2, <1>3, FlashLoansStep, CollectStep, ContinueStep
          DEF AdministeredNext

\* The invariant in every state, also in the middle of a transaction.
THEOREM AdministeredInvariant == AdministeredSpec => []UInv
  <1>1. InitTransactions => UInv
    BY InitIInv, EtherAssumption, NoCallTyped
    DEF InitTransactions, UInv, TxTypeOK, CollectsWhenItMay
  <1>2. UInv /\ [AdministeredNext]_txVars => UInv'
    BY AdministeredPreserves DEF Kept
  <1> QED BY <1>1, <1>2, PTL DEF AdministeredSpec

\* No call, no flash loan, no use of the gateway and no change of configuration
\* takes a balance, an index or an allowance below zero.
THEOREM AdministeredTypeCorrect == AdministeredSpec => []TransactionsTypeOK
  <1>1. UInv => TransactionsTypeOK
    BY DEF UInv, IInv, TxTypeOK, TransactionsTypeOK
  <1> QED BY AdministeredInvariant, <1>1, PTL

\* A debt is flagged whoever administers the pool, a debt kept from a flash loan too.
THEOREM AdministeredDebtIsFlagged == AdministeredSpec => []DebtIsFlagged
  <1>1. UInv => DebtIsFlagged
    BY DEF UInv, IInv
  <1> QED BY AdministeredInvariant, <1>1, PTL

\* The supplies stay the sums of the balances through flash loans, the gateway and
\* every change of configuration.
THEOREM AdministeredSuppliesStaySums == AdministeredSpec => []SuppliesAreSums
  <1>1. UInv => SuppliesAreSums
    BY DEF UInv, IInv, Sound, SuppliesSummed, SuppliesAreSums
  <1> QED BY AdministeredInvariant, <1>1, PTL

\* Neither a new reserve factor or strategy nor the premium of a flash loan makes
\* updateState revert for good.
THEOREM AdministeredUpdateNeverReverts == AdministeredSpec => []AccrualNeverReverts
  <1>1. UInv => AccrualNeverReverts
    <2> SUFFICES ASSUME UInv, NEW a \in Assets
                 PROVE  /\ ClocksOrdered(market[a], now)
                        /\ totalDebtAccrued(market[a],
                             updateIndexes(market[a], now).variableBorrowIndex, now) >= 0
      BY DEF AccrualNeverReverts
    <2>1. Sound(market[a], now) /\ now \in Nat
      BY DEF UInv, IInv, TypeOK
    <2> QED BY <2>1, AccruedNat DEF Sound
  <1> QED BY AdministeredInvariant, <1>1, PTL

\* Interest is never taken back, whatever the administrators change and whoever
\* takes a flash loan.
THEOREM AdministeredIndexesOnlyRise == AdministeredSpec => IndexesNeverFall
  <1> DEFINE Rise == \A a \in Assets :
                       /\ market'[a].liquidityIndex >= market[a].liquidityIndex
                       /\ market'[a].variableBorrowIndex >= market[a].variableBorrowIndex
                       /\ market'[a].lastUpdateTimestamp >= market[a].lastUpdateTimestamp
  <1>1. UInv /\ [AdministeredNext]_txVars => [Rise]_vars
    BY AdministeredPreserves DEF Kept, IndexesStep, IndexesGrow
  <1>2. IndexesNeverFall <=> [][Rise]_vars
    BY DEF IndexesNeverFall
  <1> HIDE DEF Rise
  <1> QED BY AdministeredInvariant, <1>1, <1>2, PTL DEF AdministeredSpec

-------------------------------------------------------------------------------
(***************************************************************************)
(* The gateway keeps nothing.  Nobody can borrow in its name: whoever does *)
(* not call himself needs a credit delegation, and it approves none.       *)
(***************************************************************************)
\* Nobody may borrow on the credit of g.
Undelegated(g) ==
    \A mode \in Modes, a \in Assets, u \in Users : borrowAllowance[mode][a][g][u] = 0

\* A step that lets nobody borrow in the name of g.
LendsNothing(g) ==
    usersConfig'[g].borrowing \subseteq usersConfig[g].borrowing /\ Undelegated(g)'

\* Collateral flags say nothing of debts.
LEMMA CollateralFlags ==
    ASSUME NEW f \in [Users -> UserConfig], NEW u \in Users, NEW a \in Assets,
           NEW flag \in BOOLEAN
    PROVE  /\ setUsingAsCollateral(f, u, a, flag) \in [Users -> UserConfig]
           /\ \A g \in Users : setUsingAsCollateral(f, u, a, flag)[g].borrowing = f[g].borrowing
  BY DEF setUsingAsCollateral, UserConfig

\* setBorrowing is about one user.
LEMMA BorrowingFlags ==
    ASSUME IInv, NEW g \in Users, NEW u \in Users, NEW a \in Assets
    PROVE  /\ setBorrowing(usersConfig, u, a, FALSE)[g].borrowing \subseteq usersConfig[g].borrowing
           /\ u # g => setBorrowing(usersConfig, u, a, TRUE)[g] = usersConfig[g]
  BY DEF setBorrowing, UserConfig, IInv, TypeOK

\* Calls that move collateral flags only.
LEMMA CollateralCallsLendNothing ==
    ASSUME IInv, NEW g \in Users, Undelegated(g),
           \/ \E u \in Users, v \in Users, a \in Assets : \E amount :
                \/ deposit(u, a, amount, v) \/ withdraw(u, a, amount, v)
                \/ transfer(u, v, a, amount)
           \/ \E u \in Users, a \in Assets, flag \in BOOLEAN :
                setUserUseReserveAsCollateral(u, a, flag)
           \/ \E l \in Users, c \in Assets, d \in Assets, u \in Users : \E amount, f :
                liquidationCall(l, c, d, u, amount, f)
    PROVE  LendsNothing(g)
  <1>1. usersConfig \in [Users -> UserConfig]
    BY DEF IInv, TypeOK
  <1> DEFINE Flags(u, v, a, x, y) ==
               {usersConfig, setUsingAsCollateral(usersConfig, u, a, x),
                setUsingAsCollateral(usersConfig, v, a, y),
                setUsingAsCollateral(setUsingAsCollateral(usersConfig, u, a, x), v, a, y)}
  <1>2. /\ \E u \in Users, v \in Users, a \in Assets, x \in BOOLEAN, y \in BOOLEAN :
             usersConfig' \in Flags(u, v, a, x, y)
        /\ borrowAllowance' = borrowAllowance
    <2>1. CASE \E u \in Users, v \in Users, a \in Assets : \E amount :
                 \/ deposit(u, a, amount, v) \/ withdraw(u, a, amount, v)
                 \/ transfer(u, v, a, amount)
      <3>1. PICK u \in Users, v \in Users, a \in Assets : \E amount :
                 \/ deposit(u, a, amount, v) \/ withdraw(u, a, amount, v)
                 \/ transfer(u, v, a, amount)
        BY <2>1
      <3>2. PICK amount : \/ deposit(u, a, amount, v) \/ withdraw(u, a, amount, v)
                          \/ transfer(u, v, a, amount)
        BY <3>1
      <3>3. usersConfig' \in Flags(u, v, a, FALSE, TRUE) /\ borrowAllowance' = borrowAllowance
        <4>1. CASE deposit(u, a, amount, v)
          BY <4>1 DEF deposit
        <4>2. CASE withdraw(u, a, amount, v)
          BY <4>2 DEF withdraw
        <4>3. CASE transfer(u, v, a, amount)
          BY <4>3 DEF transfer
        <4> QED BY <3>2, <4>1, <4>2, <4>3
      <3> HIDE DEF Flags
      <3> QED BY <3>3
    <2>2. CASE \E u \in Users, a \in Assets, flag \in BOOLEAN :
                 setUserUseReserveAsCollateral(u, a, flag)
      <3>1. PICK u \in Users, a \in Assets, flag \in BOOLEAN :
                 setUserUseReserveAsCollateral(u, a, flag)
        BY <2>2
      <3>2. usersConfig' \in Flags(u, u, a, flag, flag) /\ borrowAllowance' = borrowAllowance
        BY <3>1 DEF setUserUseReserveAsCollateral
      <3> HIDE DEF Flags
      <3> QED BY <3>2
    <2>3. CASE \E l \in Users, c \in Assets, d \in Assets, u \in Users : \E amount, f :
                 liquidationCall(l, c, d, u, amount, f)
      <3>1. PICK l \in Users, c \in Assets, d \in Assets, u \in Users : \E amount, f :
                 liquidationCall(l, c, d, u, amount, f)
        BY <2>3
      <3>2. PICK amount, f : liquidationCall(l, c, d, u, amount, f)
        BY <3>1
      <3>3. LET on   == setUsingAsCollateral(usersConfig, l, c, TRUE)
                off  == setUsingAsCollateral(usersConfig, u, c, FALSE)
                both == setUsingAsCollateral(on, u, c, FALSE)
            IN  /\ usersConfig' \in {usersConfig, on, off, both}
                /\ borrowAllowance' = borrowAllowance
        BY <3>2 DEF liquidationCall
      <3>4. usersConfig' \in Flags(l, u, c, TRUE, FALSE) /\ borrowAllowance' = borrowAllowance
        BY <3>3
      <3> HIDE DEF Flags
      <3> QED BY <3>4
    <2> QED BY <2>1, <2>2, <2>3
  <1>3. PICK u \in Users, v \in Users, a \in Assets, x \in BOOLEAN, y \in BOOLEAN :
          usersConfig' \in Flags(u, v, a, x, y)
    BY <1>2
  <1>4. usersConfig'[g].borrowing = usersConfig[g].borrowing
    <2> DEFINE one == setUsingAsCollateral(usersConfig, u, a, x)
    <2>1. one \in [Users -> UserConfig] /\ one[g].borrowing = usersConfig[g].borrowing
      BY <1>1, CollateralFlags
    <2> HIDE DEF one
    <2>2. setUsingAsCollateral(one, v, a, y)[g].borrowing = one[g].borrowing
      BY <2>1, CollateralFlags
    <2>3. setUsingAsCollateral(usersConfig, v, a, y)[g].borrowing = usersConfig[g].borrowing
      BY <1>1, CollateralFlags
    <2> QED BY <1>3, <2>1, <2>2, <2>3 DEF one
  <1> QED BY <1>2, <1>4 DEF LendsNothing, Undelegated

\* Borrowing for another takes the allowance, whatever the amount.
LEMMA AllowanceTaken ==
    ASSUME IInv, NEW g \in Users, Undelegated(g), NEW u \in Users, NEW v \in Users,
           NEW a \in Assets, NEW n \in Nat, n # 0, NEW mode \in Modes, ~(u = g /\ v = g),
           canDecreaseBorrowAllowance(a, mode, v, u, n),
           usersConfig' \in {usersConfig, setBorrowing(usersConfig, v, a, TRUE)},
           borrowAllowance' = IF u # v
                              THEN [borrowAllowance EXCEPT ![mode][a][v][u] = @ - n]
                              ELSE borrowAllowance
    PROVE  LendsNothing(g)
  <1>1. v # g
    <2> SUFFICES ASSUME v = g PROVE FALSE
      OBVIOUS
    <2>1. n <= borrowAllowance[mode][a][g][u]
      BY DEF canDecreaseBorrowAllowance
    <2>2. borrowAllowance[mode][a][g][u] = 0
      BY DEF Undelegated
    <2> QED BY <2>1, <2>2
  <1>2. usersConfig'[g] = usersConfig[g]
    BY <1>1, BorrowingFlags
  <1>3. \A m \in Modes, b \in Assets : borrowAllowance'[m][b][g] = borrowAllowance[m][b][g]
    BY <1>1 DEF IInv, TypeOK
  <1> QED BY <1>2, <1>3 DEF LendsNothing, Undelegated

LEMMA BorrowLendsNothing ==
    ASSUME IInv, NEW g \in Users, Undelegated(g), NEW u \in Users, NEW v \in Users,
           NEW a \in Assets, NEW n \in Nat, NEW mode \in Modes, ~(u = g /\ v = g),
           borrow(u, a, n, mode, v)
    PROVE  LendsNothing(g)
  <1>1. /\ n # 0 /\ canDecreaseBorrowAllowance(a, mode, v, u, n)
        /\ usersConfig' \in {usersConfig, setBorrowing(usersConfig, v, a, TRUE)}
        /\ borrowAllowance' = IF u # v
                              THEN [borrowAllowance EXCEPT ![mode][a][v][u] = @ - n]
                              ELSE borrowAllowance
    BY DEF borrow, validateBorrow
  <1> QED BY <1>1, AllowanceTaken

LEMMA RepayLendsNothing ==
    ASSUME IInv, NEW g \in Users, Undelegated(g), NEW u \in Users, NEW v \in Users,
           NEW a \in Assets, NEW n, NEW mode, repay(u, a, n, mode, v)
    PROVE  LendsNothing(g)
  <1>1. /\ usersConfig' \in {usersConfig, setBorrowing(usersConfig, v, a, FALSE)}
        /\ borrowAllowance' = borrowAllowance
    BY DEF repay
  <1> QED BY <1>1, BorrowingFlags DEF LendsNothing, Undelegated

\* No user, receiver of a flash loan, oracle or administrator borrows in the name of
\* an account that makes no call and delegates no credit.
LEMMA NextLendsNothing ==
    ASSUME IInv, NEW g \in Users, Undelegated(g), Next \/ Administration,
           \A op \in Operations : \A c \in Calls[op] : c[1] # g,
           \A d \in Delegations : d[1] # g
    PROVE  LendsNothing(g)
  <1>1. \A op \in Operations : \A c \in Calls[op] :
           c[1] \in Users \ {g} /\ c[2] \in Users /\ c[3] \in Assets
    BY BoundsAssumption
  <1>2. Amounts \subseteq Nat /\ BorrowModes \subseteq Modes
    BY BoundsAssumption DEF Modes
  <1>3. CASE \/ Deposits(Users) \/ Withdrawals(Users) \/ Transfers(Users)
             \/ CollateralChoices(Users) \/ Liquidations(Users)
    <2>1. \/ \E u \in Users, v \in Users, a \in Assets : \E amount :
               \/ deposit(u, a, amount, v) \/ withdraw(u, a, amount, v)
               \/ transfer(u, v, a, amount)
          \/ \E u \in Users, a \in Assets, flag \in BOOLEAN :
               setUserUseReserveAsCollateral(u, a, flag)
          \/ \E l \in Users, c \in Assets, d \in Assets, u \in Users : \E amount, f :
               liquidationCall(l, c, d, u, amount, f)
      <3>1. CASE Deposits(Users)
        BY <1>1, <3>1 DEF Deposits, CallsOf, Operations
      <3>2. CASE Withdrawals(Users)
        BY <1>1, <3>2 DEF Withdrawals, CallsOf, Operations
      <3>3. CASE Transfers(Users)
        BY <1>1, <3>3 DEF Transfers, CallsOf, Operations
      <3>4. CASE CollateralChoices(Users)
        BY <1>1, <3>4 DEF CollateralChoices, CallsOf, Operations
      <3>5. CASE Liquidations(Users)
        BY <1>1, <3>5 DEF Liquidations, CallsOf, Operations
      <3> QED BY <1>3, <3>1, <3>2, <3>3, <3>4, <3>5
    <2> QED BY <2>1, CollateralCallsLendNothing
  <1>4. CASE Borrowings(Users)
    <2>1. PICK x \in Users \ {g}, y \in Users, a \in Assets, amount \in Amounts,
               mode \in BorrowModes : borrow(x, a, amount, mode, y)
      BY <1>1, <1>4 DEF Borrowings, Operations, CallsOf
    <2> QED BY <1>2, <2>1, BorrowLendsNothing
  <1>5. CASE Repayments(Users)
    <2>1. PICK x \in Users, y \in Users, a \in Assets, amount \in Amounts,
               mode \in BorrowModes : repay(x, a, amount, mode, y)
      BY <1>1, <1>5 DEF Repayments, Operations, CallsOf
    <2> QED BY <2>1, RepayLendsNothing
  <1>6. CASE Delegatings(Users)
    <2>1. PICK d \in Delegations, amount \in Amounts :
             approveDelegation(d[1], d[2], d[3], d[4], amount)
      BY <1>6 DEF Delegatings
    <2>2. /\ borrowAllowance' = [borrowAllowance EXCEPT ![d[4]][d[3]][d[1]][d[2]] = amount]
          /\ usersConfig' = usersConfig
      BY <2>1 DEF approveDelegation
    <2>3. \A m \in Modes, b \in Assets : borrowAllowance'[m][b][g] = borrowAllowance[m][b][g]
      BY <2>2 DEF IInv, TypeOK
    <2> QED BY <2>2, <2>3 DEF LendsNothing, Undelegated
  <1>7. CASE \/ Swaps(Users) \/ Rebalances(Users) \/ Tick \/ Quotes \/ Administration
    <2>1. UNCHANGED <<usersConfig, borrowAllowance>>
      <3>1. Swaps(Users) \/ Rebalances(Users) => UNCHANGED <<usersConfig, borrowAllowance>>
        BY DEF Swaps, Rebalances, swapBorrowRateMode, rebalanceStableBorrowRate
      <3> QED BY <1>7, <3>1 DEF Tick, Quotes, SetPrice, Administration,
            configure, enableBorrowingOnReserve, disableBorrowingOnReserve,
            configureReserveAsCollateral, setReserveStableRate, activateReserve,
            deactivateReserve, setReserveFreezing, setReserveFactor,
            setReserveInterestRateStrategyAddress, setPoolPause
    <2> QED BY <2>1 DEF LendsNothing, Undelegated
  <1> QED BY <1>3, <1>4, <1>5, <1>6, <1>7 DEF Next, UserCalls

\* Nobody's wrapped ether is the amount that stands for "everything".
EtherFitsUint256 == \A u \in Users : market[WETH].el[u] < UINT256_MAX

\* The gateway owes nothing and nobody can make it owe; what withdrawETH redeems is
\* the amount it names.
OwesNothing ==
    /\ usersConfig[Gateway].borrowing = {}
    /\ Undelegated(Gateway)
    /\ tx.call = "flashLoan" => tx.user # Gateway
    /\ tx.call = "withdrawETH" => tx.amount # UINT256_MAX

GInv == UInv /\ OwesNothing

\* A step of the gateway leaves no more with it than what its call carries on.
AddsNothing ==
    /\ (wallet[Gateway][WETH] - carriedEther)' <= wallet[Gateway][WETH] - carriedEther
    /\ \/ (market[WETH].el[Gateway] - carriedELTokens)'
            <= market[WETH].el[Gateway] - carriedELTokens
       \/ tx.call = "depositETH" /\ tx.onBehalfOf = Gateway

\* Where the gateway stands.
LEMMA GatewayStarts ==
    ASSUME UInv
    PROVE  /\ Gateway \in Users /\ WETH \in Assets /\ now \in Nat
           /\ wallet \in [Users -> [Assets -> Nat]] /\ wallet[Gateway][WETH] \in Nat
           /\ usersConfig \in [Users -> UserConfig] /\ config[WETH] \in Config
           /\ market[WETH] \in Market /\ Sound(market[WETH], now)
           /\ market[WETH].el[Gateway] \in Nat
           /\ IInv /\ tx \in Transaction
  <1>1. Gateway \in Users /\ WETH \in Assets
    BY GatewayAssumption
  <1>2. IInv /\ TypeOK /\ tx \in Transaction
    BY DEF UInv, IInv, TxTypeOK
  <1>3. market[WETH] \in Market /\ Sound(market[WETH], now) /\ config[WETH] \in Config
        /\ wallet[Gateway][WETH] \in Nat
    BY <1>1, <1>2 DEF IInv, TypeOK
  <1>4. market[WETH].el[Gateway] \in Nat
    BY <1>1, <1>3 DEF Market, Accounts
  <1> QED BY <1>1, <1>2, <1>3, <1>4 DEF TypeOK

\* A flag that is down means no debt.
LEMMA OwesZero == GInv => userDebt(market[WETH], Gateway, now) = 0
  <1> SUFFICES ASSUME GInv PROVE userDebt(market[WETH], Gateway, now) = 0
    OBVIOUS
  <1> DEFINE m == market[WETH]
  <1>1. Gateway \in Users /\ WETH \in Assets /\ now \in Nat /\ Sound(m, now)
    BY GatewayStarts DEF GInv
  <1>2. m.stDebt[Gateway] = 0 /\ m.varDebt[Gateway] = 0
    BY <1>1 DEF GInv, OwesNothing, UInv, IInv, DebtIsFlagged
  <1>3. getNormalizedDebt(m, now) \in Nat
    BY <1>1, ViewIndexesGrow DEF Sound
  <1>4. \A x \in Nat : rayMul(0, x) = 0
    BY HalfRay, RayAssumption DEF rayMul
  <1> HIDE DEF m
  <1>5. stBalanceOf(m, Gateway, now) = 0 /\ varBalanceOf(m, Gateway, now) = 0
    BY <1>2, <1>3, <1>4 DEF stBalanceOf, varBalanceOf
  <1> QED BY <1>5 DEF userDebt, m

\* depositETH's deposit takes the wrapped ether out.
LEMMA GatewayDeposits ==
    ASSUME UInv, NEW v \in Users, NEW n \in Nat, deposit(Gateway, WETH, n, v)
    PROVE  /\ wallet'[Gateway][WETH] = wallet[Gateway][WETH] - n
           /\ v # Gateway => market'[WETH].el[Gateway] = market[WETH].el[Gateway]
  <1>1. /\ Gateway \in Users /\ WETH \in Assets /\ IInv
        /\ wallet \in [Users -> [Assets -> Nat]]
    BY GatewayStarts
  <1>2. wallet' = [wallet EXCEPT ![Gateway][WETH] = @ - n]
    BY DEF deposit
  <1>3. wallet'[Gateway][WETH] = wallet[Gateway][WETH] - n
    BY <1>1, <1>2
  <1>4. MovesOnly({v})
    BY <1>1, DepositTakesNothing
  <1> QED BY <1>1, <1>3, <1>4 DEF MovesOnly

\* withdrawETH's withdrawal burns exactly the elTokens its transfer brought: the two
\* scale the amount by the same index.
LEMMA GatewayWithdraws ==
    ASSUME UInv, NEW n \in Nat, n # UINT256_MAX, withdraw(Gateway, WETH, n, Gateway)
    PROVE  /\ wallet'[Gateway][WETH] = wallet[Gateway][WETH] + n
           /\ market'[WETH].el[Gateway]
                = market[WETH].el[Gateway] - rayDiv(n, getNormalizedIncome(market[WETH], now))
  <1> DEFINE m  == market[WETH]
             m1 == updateState(m, config[WETH], now)
             m2 == updateInterestRates(m1, config[WETH], now, 0, n)
             m3 == elBurn(m2, Gateway, n)
  <1>1. /\ Gateway \in Users /\ WETH \in Assets /\ now \in Nat
        /\ wallet \in [Users -> [Assets -> Nat]]
        /\ config[WETH] \in Config /\ Sound(m, now) /\ m.el[Gateway] \in Nat
    BY GatewayStarts
  <1>2. /\ canUpdateState(m, config[WETH], now)
        /\ canUpdateInterestRates(m1, config[WETH], 0, n)
        /\ market' = [market EXCEPT ![WETH] = m3]
        /\ wallet' = [wallet EXCEPT ![Gateway][WETH] = @ + n]
    BY DEF withdraw
  <1>3. wallet'[Gateway][WETH] = wallet[Gateway][WETH] + n
    BY <1>1, <1>2
  <1>5. m1.liquidityIndex = getNormalizedIncome(m, now)
    BY <1>1, ShownIncomeIsStored
  <1>6. Sound(m1, now) /\ m1.el[Gateway] = m.el[Gateway]
    <2>1. UpdateFrame(m, m1, now)
      BY <1>1, <1>2, UpdateStateSound
    <2>2. HasBalances(m)
      BY <1>1, MarketHasBalances DEF Sound
    <2>3. Untouched(m, m1, Users)
      BY <2>2, UpdateStateUntouched
    <2> QED BY <1>1, <2>1, <2>3 DEF UpdateFrame, Untouched
  <1> HIDE DEF m1
  <1>7. m2 \in Market /\ m2.el = m1.el /\ m2.liquidityIndex = m1.liquidityIndex
    <2>1. Sound(m2, now)
      BY <1>1, <1>2, <1>6, UpdateRatesSound DEF ElFrame
    <2>2. m1 \in Market
      BY <1>6 DEF Sound
    <2> QED BY <2>1, <2>2 DEF Sound, updateInterestRates, Market
  <1> HIDE DEF m2
  <1>8. m3.el[Gateway] = m2.el[Gateway] - rayDiv(n, m2.liquidityIndex)
    BY <1>1, <1>7 DEF elBurn, Market, Accounts
  <1>9. m3.el[Gateway] = m.el[Gateway] - rayDiv(n, getNormalizedIncome(m, now))
    BY <1>5, <1>6, <1>7, <1>8
  <1> HIDE DEF m3
  <1>10. market'[WETH] = m3
    BY <1>1, <1>2, MarketsStart DEF UInv
  <1> QED BY <1>3, <1>9, <1>10

\* Borrowing for a user and repaying for one: the gateway's elTokens stay.
LEMMA GatewayBorrows ==
    ASSUME UInv, NEW v \in Users, NEW n \in Nat, NEW mode \in Modes,
           borrow(Gateway, WETH, n, mode, v)
    PROVE  /\ wallet'[Gateway][WETH] = wallet[Gateway][WETH] + n
           /\ market'[WETH].el[Gateway] = market[WETH].el[Gateway]
  <1>1. /\ Gateway \in Users /\ WETH \in Assets /\ IInv
        /\ wallet \in [Users -> [Assets -> Nat]]
    BY GatewayStarts
  <1>2. wallet' = [wallet EXCEPT ![Gateway][WETH] = @ + n]
    BY DEF borrow
  <1>3. wallet'[Gateway][WETH] = wallet[Gateway][WETH] + n
    BY <1>1, <1>2
  <1>4. MovesOnly({})
    BY <1>1, DebtCallsTakeNothing
  <1> QED BY <1>1, <1>3, <1>4 DEF MovesOnly

LEMMA GatewayRepays ==
    ASSUME UInv, NEW v \in Users, NEW n \in Nat, NEW mode \in Modes,
           repay(Gateway, WETH, n, mode, v)
    PROVE  /\ wallet'[Gateway][WETH] = wallet[Gateway][WETH] - paybackAmount(v, WETH, n, mode)
           /\ market'[WETH].el[Gateway] = market[WETH].el[Gateway]
  <1> DEFINE payback == paybackAmount(v, WETH, n, mode)
  <1>1. /\ Gateway \in Users /\ WETH \in Assets /\ IInv
        /\ wallet \in [Users -> [Assets -> Nat]]
    BY GatewayStarts
  <1>2. wallet' = [wallet EXCEPT ![Gateway][WETH] = @ - payback]
    BY DEF repay
  <1> HIDE DEF payback
  <1>3. wallet'[Gateway][WETH] = wallet[Gateway][WETH] - payback
    BY <1>1, <1>2
  <1>4. MovesOnly({})
    BY <1>1, DebtCallsTakeNothing
  <1> QED BY <1>1, <1>3, <1>4 DEF MovesOnly, payback

\* The elTokens a withdrawETH brings.
LEMMA GatewayReceives ==
    ASSUME UInv, NEW u \in Users \ {Gateway}, NEW n \in Nat, transfer(u, Gateway, WETH, n)
    PROVE  /\ market'[WETH].el[Gateway]
                = market[WETH].el[Gateway] + rayDiv(n, getNormalizedIncome(market[WETH], now))
           /\ getNormalizedIncome(market'[WETH], now') = getNormalizedIncome(market[WETH], now)
           /\ wallet' = wallet
  <1> DEFINE m == market[WETH]
             k == rayDiv(n, getNormalizedIncome(m, now))
             taken == [m.el EXCEPT ![u] = @ - k]
  <1>1. /\ Gateway \in Users /\ WETH \in Assets /\ IInv /\ m \in Market
    BY GatewayStarts
  <1>2. /\ market' = [market EXCEPT ![WETH] = elTransfer(m, u, Gateway, n, now)]
        /\ now' = now /\ wallet' = wallet
    BY DEF transfer
  <1>3. market'[WETH] = elTransfer(m, u, Gateway, n, now)
    BY <1>1, <1>2, MarketsStart
  <1>4. m.el \in [Accounts -> Nat] /\ "el" \in DOMAIN m
    BY <1>1 DEF Market
  <1>5. Gateway \in Accounts /\ u # Gateway
    BY <1>1 DEF Accounts
  <1>6. market'[WETH].el = [taken EXCEPT ![Gateway] = @ + k]
    BY <1>3, <1>4 DEF elTransfer
  <1>7. getNormalizedIncome(market'[WETH], now') = getNormalizedIncome(m, now)
    BY <1>1, <1>2, <1>3 DEF elTransfer, getNormalizedIncome, Market
  <1> HIDE DEF k
  <1>8. DOMAIN taken = Accounts /\ taken[Gateway] = m.el[Gateway]
    BY <1>4, <1>5
  <1> HIDE DEF taken
  <1>9. market'[WETH].el[Gateway] = m.el[Gateway] + k
    BY <1>5, <1>6, <1>8
  <1> QED BY <1>2, <1>7, <1>9 DEF k

\* A gateway function begins between two transactions.
LEMMA IdleCarriesNothing ==
    ASSUME tx = NoCall
    PROVE  carriedEther = 0 /\ carriedELTokens = 0
  BY NoCallTyped DEF carriedEther, carriedELTokens

LEMMA IdleCarriesNothingNext ==
    ASSUME tx' = NoCall
    PROVE  carriedEther' = 0 /\ carriedELTokens' = 0
  BY NoCallTyped DEF carriedEther, carriedELTokens

\* The amounts redeemed by the gateway are numbers.
LEMMA RedeemedNat ==
    ASSUME UInv, NEW n \in Nat
    PROVE  rayDiv(n, getNormalizedIncome(market[WETH], now)) \in Nat
  <1>1. getNormalizedIncome(market[WETH], now) \in Nat \ {0}
    BY GatewayStarts, ViewIndexesGrow, RayAssumption DEF Sound, IndexesStarted, Market
  <1> QED BY <1>1, RayDivNat

\* The first steps of the gateway's calls bring what the next ones take out.
LEMMA EtherCallsKeep ==
    ASSUME GInv, EtherFitsUint256, EtherCalls
    PROVE  OwesNothing' /\ AddsNothing
  <1> DEFINE held  == wallet[Gateway][WETH]
             owned == market[WETH].el[Gateway]
  <1>1. PICK p \in EtherParties, amount \in Amounts :
          \/ depositETH(p[1], amount, p[2])
          \/ withdrawETH(p[1], amount, p[2])
          \/ \E mode \in BorrowModes : borrowETH(p[1], amount, mode)
          \/ \E mode \in BorrowModes, value \in Amounts :
               repayETH(p[1], value, amount, mode, p[2])
    BY DEF EtherCalls
  <1>2. PICK u \in Users \ {Gateway}, v \in Users :
          \/ depositETH(u, amount, v)
          \/ withdrawETH(u, amount, v)
          \/ \E mode \in BorrowModes : borrowETH(u, amount, mode)
          \/ \E mode \in BorrowModes, value \in Amounts : repayETH(u, value, amount, mode, v)
    <2>1. p[1] \in Users \ {Gateway} /\ p[2] \in Users
      BY GatewayAssumption
    <2> QED BY <1>1, <2>1
  <1>3. amount \in Nat /\ Amounts \subseteq Nat /\ BorrowModes \subseteq Modes
    BY BoundsAssumption DEF Modes
  <1>4. /\ Gateway \in Users /\ WETH \in Assets /\ now \in Nat /\ held \in Nat
        /\ wallet \in [Users -> [Assets -> Nat]] /\ owned \in Nat
        /\ Sound(market[WETH], now) /\ IInv /\ UInv
    BY GatewayStarts DEF GInv
  <1>5. tx = NoCall
    BY <1>2 DEF depositETH, withdrawETH, borrowETH, repayETH
  <1>6. usersConfig[Gateway].borrowing = {} /\ Undelegated(Gateway)
    BY DEF GInv, OwesNothing
  <1>7. carriedEther = 0 /\ carriedELTokens = 0
    BY <1>5, IdleCarriesNothing
  <1>8. ASSUME NEW n \in Nat, wrap(u, n)
        PROVE  /\ wallet'[Gateway][WETH] = held + n /\ market' = market /\ now' = now
               /\ usersConfig' = usersConfig /\ borrowAllowance' = borrowAllowance
    <2>1. wallet' = [wallet EXCEPT ![Gateway][WETH] = @ + n]
      BY <1>8 DEF wrap
    <2>2. wallet'[Gateway][WETH] = held + n
      BY <1>4, <2>1
    <2> QED BY <1>8, <2>2 DEF wrap
  <1>9. ASSUME NEW e \in Nat, NEW o \in Nat, NEW g, wallet'[Gateway][WETH] = held + g,
               market'[WETH].el[Gateway] = owned + o,
               carriedEther' = e, carriedELTokens' = o, g \in Nat, g <= e
        PROVE  AddsNothing
    BY <1>4, <1>7, <1>9 DEF AddsNothing
  <1>10. CASE depositETH(u, amount, v)
    <2>1. /\ wrap(u, amount)
          /\ tx' = [call |-> "depositETH", amount |-> amount, onBehalfOf |-> v]
      BY <1>10 DEF depositETH
    <2>2. /\ wallet'[Gateway][WETH] = held + amount /\ market' = market
          /\ usersConfig' = usersConfig /\ borrowAllowance' = borrowAllowance
      BY <1>3, <1>8, <2>1
    <2>3. carriedEther' = amount /\ carriedELTokens' = 0
      BY <2>1 DEF carriedEther, carriedELTokens
    <2>4. market'[WETH].el[Gateway] = owned + 0
      BY <1>4, <2>2
    <2>5. AddsNothing
      BY <1>3, <1>9, <2>2, <2>3, <2>4
    <2> QED BY <1>6, <2>1, <2>2, <2>5 DEF OwesNothing, Undelegated
  <1>11. CASE withdrawETH(u, amount, v)
    <2> DEFINE n == IF amount = UINT256_MAX THEN market[WETH].el[u] ELSE amount
               k == rayDiv(n, getNormalizedIncome(market[WETH], now))
    <2>1. /\ transfer(u, Gateway, WETH, n)
          /\ tx' = [call |-> "withdrawETH", amount |-> n, to |-> v]
      BY <1>11 DEF withdrawETH
    <2>2. n \in Nat /\ n # UINT256_MAX
      <3>1. market[WETH].el[u] \in Nat /\ market[WETH].el[u] < UINT256_MAX
        BY <1>4, BalancesNat DEF EtherFitsUint256
      <3> QED BY <1>3, <3>1, BoundsAssumption
    <2> HIDE DEF n
    <2>3. /\ market'[WETH].el[Gateway] = owned + k
          /\ getNormalizedIncome(market'[WETH], now') = getNormalizedIncome(market[WETH], now)
          /\ wallet' = wallet
      BY <1>4, <2>1, <2>2, GatewayReceives
    <2>4. tx'.call = "withdrawETH" /\ tx'.amount = n
      BY <2>1
    <2>5. carriedEther' = 0
      BY <2>4 DEF carriedEther
    <2>6. carriedELTokens' = k
      BY <2>3, <2>4 DEF carriedELTokens
    <2>7. k \in Nat
      BY <1>4, <2>2, RedeemedNat
    <2> HIDE DEF k
    <2>8. wallet'[Gateway][WETH] = held + 0
      BY <1>4, <2>3
    <2>9. AddsNothing
      BY <1>9, <2>3, <2>5, <2>6, <2>7, <2>8
    <2>10. LendsNothing(Gateway)
      BY <1>4, <1>6, <2>1, CollateralCallsLendNothing
    <2> QED BY <1>6, <2>2, <2>4, <2>9, <2>10 DEF OwesNothing, LendsNothing
  <1>12. ASSUME NEW mode \in BorrowModes, borrowETH(u, amount, mode)
         PROVE  OwesNothing' /\ AddsNothing
    <2>1. /\ borrow(Gateway, WETH, amount, mode, u) /\ mode \in Modes
          /\ tx' = [call |-> "unwrap", amount |-> amount, to |-> u]
      BY <1>3, <1>12 DEF borrowETH
    <2>2. /\ wallet'[Gateway][WETH] = held + amount
          /\ market'[WETH].el[Gateway] = owned
      BY <1>3, <1>4, <2>1, GatewayBorrows
    <2>3. carriedEther' = amount /\ carriedELTokens' = 0
      BY <2>1 DEF carriedEther, carriedELTokens
    <2>4. market'[WETH].el[Gateway] = owned + 0
      BY <1>4, <2>2
    <2>5. AddsNothing
      BY <1>3, <1>9, <2>2, <2>3, <2>4
    <2>6. LendsNothing(Gateway)
      BY <1>3, <1>4, <1>6, <2>1, BorrowLendsNothing
    <2> QED BY <1>6, <2>1, <2>5, <2>6 DEF OwesNothing, LendsNothing
  <1>13. ASSUME NEW mode \in BorrowModes, NEW value \in Amounts,
                repayETH(u, value, amount, mode, v)
         PROVE  OwesNothing' /\ AddsNothing
    <2> DEFINE debt == debtOfMode(market[WETH], v, mode, now)
               payback == IF amount < debt THEN amount ELSE debt
               taken == IF value < debt THEN value ELSE debt
    <2>1. mode \in Modes /\ value \in Nat /\ debt \in Nat
      BY <1>3, <1>4, DebtOfModeNat
    <2>2. /\ wrap(u, payback) /\ value >= payback
          /\ tx' = [call |-> "repayETH", amount |-> value, mode |-> mode, onBehalfOf |-> v]
      BY <1>13 DEF repayETH
    <2>3. payback \in Nat
      <3> HIDE DEF debt
      <3> QED BY <1>3, <2>1
    <2>4. /\ wallet'[Gateway][WETH] = held + payback /\ market' = market /\ now' = now
          /\ usersConfig' = usersConfig /\ borrowAllowance' = borrowAllowance
      <3> HIDE DEF payback
      <3> QED BY <1>8, <2>2, <2>3
    <2>5. /\ tx'.call = "repayETH" /\ tx'.amount = value /\ tx'.mode = mode
          /\ tx'.onBehalfOf = v
      BY <2>2
    <2>6. carriedEther' = taken /\ carriedELTokens' = 0
      BY <2>4, <2>5 DEF carriedEther, carriedELTokens, paybackAmount
    <2> HIDE DEF debt
    <2>7. payback <= taken /\ taken \in Nat
      BY <1>3, <2>1, <2>2
    <2>8. market'[WETH].el[Gateway] = owned + 0
      BY <1>4, <2>4
    <2> HIDE DEF payback, taken
    <2>9. AddsNothing
      BY <1>9, <2>3, <2>4, <2>6, <2>7, <2>8
    <2> QED BY <1>6, <2>4, <2>5, <2>9 DEF OwesNothing, Undelegated
  <1> QED BY <1>2, <1>10, <1>11, <1>12, <1>13

\* The later steps take it out again.
LEMMA GatewayContinues ==
    ASSUME GInv, depositWrapped \/ withdrawWrapped \/ unwrap \/ repayWrapped
    PROVE  OwesNothing' /\ AddsNothing
  <1> DEFINE held  == wallet[Gateway][WETH]
             owned == market[WETH].el[Gateway]
  <1>1. /\ Gateway \in Users /\ WETH \in Assets /\ held \in Nat /\ owned \in Nat
        /\ tx \in Transaction /\ IInv /\ UInv /\ wallet \in [Users -> [Assets -> Nat]]
        /\ now \in Nat /\ Sound(market[WETH], now)
    BY GatewayStarts DEF GInv
  <1>2. usersConfig[Gateway].borrowing = {} /\ Undelegated(Gateway)
    BY DEF GInv, OwesNothing
  <1>3. CASE depositWrapped
    <2>1. /\ tx.call = "depositETH" /\ tx' = NoCall
          /\ deposit(Gateway, WETH, tx.amount, tx.onBehalfOf)
      BY <1>3 DEF depositWrapped
    <2>2. tx.onBehalfOf \in Users /\ tx.amount \in Nat
      BY <1>1, <2>1, CallFields
    <2>3. /\ wallet'[Gateway][WETH] = held - tx.amount
          /\ tx.onBehalfOf # Gateway => market'[WETH].el[Gateway] = owned
      BY <1>1, <2>1, <2>2, GatewayDeposits
    <2>4. carriedEther = tx.amount /\ carriedELTokens = 0
      BY <2>1 DEF carriedEther, carriedELTokens
    <2>5. carriedEther' = 0 /\ carriedELTokens' = 0
      BY <2>1, IdleCarriesNothingNext
    <2>6. AddsNothing
      BY <1>1, <2>1, <2>2, <2>3, <2>4, <2>5 DEF AddsNothing
    <2>7. LendsNothing(Gateway)
      BY <1>1, <1>2, <2>1, <2>2, CollateralCallsLendNothing
    <2> QED BY <1>2, <2>1, <2>6, <2>7, NoCallTyped DEF OwesNothing, LendsNothing
  <1>4. CASE withdrawWrapped
    <2> DEFINE k == rayDiv(tx.amount, getNormalizedIncome(market[WETH], now))
    <2>1. /\ tx.call = "withdrawETH" /\ withdraw(Gateway, WETH, tx.amount, Gateway)
          /\ tx' = [call |-> "unwrap", amount |-> tx.amount, to |-> tx.to]
      BY <1>4 DEF withdrawWrapped
    <2>2. tx.amount \in Nat /\ tx.amount # UINT256_MAX
      BY <1>1, <2>1, CallFields DEF GInv, OwesNothing
    <2>3. /\ wallet'[Gateway][WETH] = held + tx.amount
          /\ market'[WETH].el[Gateway] = owned - k
      BY <1>1, <2>1, <2>2, GatewayWithdraws
    <2>4. carriedEther = 0 /\ carriedELTokens = k
      BY <2>1 DEF carriedEther, carriedELTokens
    <2>5. k \in Nat
      BY <1>1, <2>2, RedeemedNat
    <2> HIDE DEF k
    <2>6. tx'.call = "unwrap" /\ tx'.amount = tx.amount
      BY <2>1
    <2>7. carriedEther' = tx.amount /\ carriedELTokens' = 0
      BY <2>6 DEF carriedEther, carriedELTokens
    <2>8. AddsNothing
      BY <1>1, <2>2, <2>3, <2>4, <2>5, <2>7 DEF AddsNothing
    <2>9. LendsNothing(Gateway)
      BY <1>1, <1>2, <2>1, CollateralCallsLendNothing
    <2> QED BY <1>2, <2>6, <2>8, <2>9 DEF OwesNothing, LendsNothing
  <1>5. CASE unwrap
    <2>1. /\ tx.call = "unwrap" /\ tx' = NoCall
          /\ wallet' = [wallet EXCEPT ![Gateway][WETH] = @ - tx.amount]
          /\ UNCHANGED <<market, usersConfig, borrowAllowance>>
      BY <1>5 DEF unwrap
    <2>2. tx.amount \in Nat
      BY <1>1, <2>1, CallFields
    <2>3. wallet'[Gateway][WETH] = held - tx.amount /\ market'[WETH].el[Gateway] = owned
      BY <1>1, <2>1
    <2>4. carriedEther = tx.amount /\ carriedELTokens = 0
      BY <2>1 DEF carriedEther, carriedELTokens
    <2>5. carriedEther' = 0 /\ carriedELTokens' = 0
      BY <2>1, IdleCarriesNothingNext
    <2>6. AddsNothing
      BY <1>1, <2>2, <2>3, <2>4, <2>5 DEF AddsNothing
    <2> QED BY <1>2, <2>1, <2>6, NoCallTyped DEF OwesNothing, Undelegated
  <1>6. CASE repayWrapped
    <2> DEFINE n == paybackAmount(tx.onBehalfOf, WETH, tx.amount, tx.mode)
    <2>1. /\ tx.call = "repayETH" /\ tx' = NoCall
          /\ repay(Gateway, WETH, tx.amount, tx.mode, tx.onBehalfOf)
      BY <1>6 DEF repayWrapped
    <2>2. tx.amount \in Nat /\ tx.mode \in Modes /\ tx.onBehalfOf \in Users
      BY <1>1, <2>1, CallFields
    <2>3. n \in Nat
      BY <1>1, <2>2, DebtOfModeNat DEF paybackAmount
    <2>4. wallet'[Gateway][WETH] = held - n /\ market'[WETH].el[Gateway] = owned
      BY <1>1, <2>1, <2>2, GatewayRepays
    <2>5. carriedEther = n /\ carriedELTokens = 0
      BY <2>1 DEF carriedEther, carriedELTokens
    <2> HIDE DEF n
    <2>6. carriedEther' = 0 /\ carriedELTokens' = 0
      BY <2>1, IdleCarriesNothingNext
    <2>7. AddsNothing
      BY <1>1, <2>3, <2>4, <2>5, <2>6 DEF AddsNothing
    <2>8. LendsNothing(Gateway)
      BY <1>1, <1>2, <2>1, <2>2, RepayLendsNothing
    <2> QED BY <1>2, <2>1, <2>7, <2>8, NoCallTyped DEF OwesNothing, LendsNothing
  <1> QED BY <1>3, <1>4, <1>5, <1>6

\* The other steps: no function of the gateway is in progress before or after them.
LEMMA OthersLendNothing ==
    ASSUME GInv,
           \/ tx = NoCall /\ (Tick \/ Quotes \/ Administration) /\ UNCHANGED <<ether, tx>>
           \/ PoolCalls \/ FlashLoans \/ Recoveries
           \/ collectFlashLoan \/ keepFlashLoan \/ collectELTokens
    PROVE  OwesNothing' /\ ~gatewayActs /\ ~gatewayActs'
  <1>1. /\ Gateway \in Users /\ IInv /\ UInv /\ tx \in Transaction
    BY GatewayStarts DEF GInv
  <1>2. /\ usersConfig[Gateway].borrowing = {} /\ Undelegated(Gateway)
        /\ tx.call = "flashLoan" => tx.user # Gateway
    BY DEF GInv, OwesNothing
  <1>3. ASSUME LendsNothing(Gateway)
        PROVE  usersConfig'[Gateway].borrowing = {} /\ Undelegated(Gateway)'
    BY <1>2, <1>3 DEF LendsNothing
  <1>4. CASE tx = NoCall /\ (Tick \/ Quotes \/ Administration) /\ UNCHANGED <<ether, tx>>
    <2>1. LendsNothing(Gateway)
      BY <1>1, <1>2, <1>4, NextLendsNothing, GatewayCallsNobody DEF Next
    <2> QED BY <1>3, <1>4, <2>1, NoCallTyped DEF OwesNothing, gatewayActs
  <1>5. CASE PoolCalls
    <2>1. UserCalls(callers) /\ UserCalls(Users) /\ tx' = tx
      BY <1>1, <1>5, CallersCall DEF PoolCalls
    <2>2. LendsNothing(Gateway)
      BY <1>1, <1>2, <2>1, NextLendsNothing, GatewayCallsNobody DEF Next
    <2>3. callers # {}
      <3> SUFFICES ASSUME callers = {} PROVE FALSE
        OBVIOUS
      <3>1. UserCalls({})
        BY <2>1
      <3>2. \A op : CallsOf({}, op) = {}
        BY DEF CallsOf
      <3> QED BY <3>1, <3>2 DEF UserCalls, Deposits, Withdrawals, Transfers, Borrowings,
              Repayments, Swaps, Rebalances, CollateralChoices, Liquidations, Delegatings
    <2>4. tx.call = "none" \/ tx.call = "flashLoan"
      BY <2>3, NoCallTyped DEF callers
    <2> QED BY <1>2, <1>3, <2>1, <2>2, <2>4 DEF OwesNothing, gatewayActs
  <1>6. CASE FlashLoans
    <2>1. PICK l \in Loans, amount \in Amounts, mode \in {"NONE"} \cup BorrowModes :
            flashLoan(l[1], l[2], l[3], amount, mode, l[4])
      BY <1>6 DEF FlashLoans
    <2>2. /\ tx = NoCall /\ UNCHANGED <<usersConfig, borrowAllowance>>
          /\ tx' = [call |-> "flashLoan", user |-> l[1], receiver |-> l[2], asset |-> l[3],
                    amount |-> amount, mode |-> mode, onBehalfOf |-> l[4]]
      BY <2>1 DEF flashLoan
    <2>3. tx.call = "none" /\ tx'.call = "flashLoan" /\ tx'.user # Gateway
      BY <2>2, NoCallTyped, GatewayCallsNobody
    <2> QED BY <1>2, <2>2, <2>3 DEF OwesNothing, Undelegated, gatewayActs
  <1>7. CASE Recoveries
    <2>1. PICK a \in Assets, to \in Users, amount \in Amounts :
            emergencyTokenTransfer(a, to, amount)
      BY <1>7 DEF Recoveries
    <2>2. tx = NoCall /\ tx' = tx
      BY <2>1 DEF emergencyTokenTransfer
    <2>3. LendsNothing(Gateway)
      <3>1. CASE transfer(Gateway, to, a, amount)
        BY <1>1, <1>2, <3>1, CollateralCallsLendNothing
      <3>2. CASE ~transfer(Gateway, to, a, amount)
        BY <1>2, <2>1, <3>2 DEF emergencyTokenTransfer, LendsNothing, Undelegated
      <3> QED BY <3>1, <3>2
    <2> QED BY <1>3, <2>2, <2>3, NoCallTyped DEF OwesNothing, gatewayActs
  <1>8. CASE collectFlashLoan
    <2>1. /\ tx.call = "flashLoan" /\ UNCHANGED <<usersConfig, borrowAllowance>>
          /\ \/ tx' = NoCall
             \/ tx' = [call |-> "collectELTokens", receiver |-> tx.receiver,
                       asset |-> tx.asset, amount |-> tx.amount]
      BY <1>8 DEF collectFlashLoan
    <2>2. tx'.call \in {"none", "collectELTokens"}
      BY <2>1, NoCallTyped
    <2> QED BY <1>2, <2>1, <2>2 DEF OwesNothing, Undelegated, gatewayActs
  <1>9. CASE keepFlashLoan
    <2> DEFINE v == tx.onBehalfOf
               a == tx.asset
    <2>1. /\ tx.call = "flashLoan" /\ tx' = NoCall
          /\ v \in Users /\ tx.user \in Users /\ a \in Assets /\ tx.amount \in Nat
          /\ tx.mode \in Modes
      BY <1>1, <1>9, CallFields DEF keepFlashLoan
    <2>2. /\ tx.amount # 0 /\ canDecreaseBorrowAllowance(a, tx.mode, v, tx.user, tx.amount)
          /\ usersConfig' \in {usersConfig, setBorrowing(usersConfig, v, a, TRUE)}
          /\ borrowAllowance' = IF tx.user # v
                                THEN [borrowAllowance EXCEPT ![tx.mode][a][v][tx.user] = @ - tx.amount]
                                ELSE borrowAllowance
      BY <1>9 DEF keepFlashLoan, validateBorrow
    <2>3. tx.user # Gateway
      BY <1>2, <2>1
    <2> HIDE DEF v, a
    <2>4. LendsNothing(Gateway)
      BY <1>1, <1>2, <2>1, <2>2, <2>3, AllowanceTaken
    <2> QED BY <1>3, <2>1, <2>4, NoCallTyped DEF OwesNothing, gatewayActs
  <1>10. CASE collectELTokens
    <2>1. /\ tx.call = "collectELTokens" /\ tx' = NoCall
          /\ transfer(tx.receiver, ELTokenContract, tx.asset, tx.amount + premium(tx.amount))
      BY <1>10 DEF collectELTokens
    <2>2. tx.receiver \in Users /\ ELTokenContract \in Users /\ tx.asset \in Assets
      BY <1>1, <2>1, CallFields, CollectorAssumption DEF UInv, CollectsWhenItMay
    <2>3. LendsNothing(Gateway)
      BY <1>1, <1>2, <2>1, <2>2, CollateralCallsLendNothing
    <2> QED BY <1>3, <2>1, <2>3, NoCallTyped DEF OwesNothing, gatewayActs
  <1> QED BY <1>4, <1>5, <1>6, <1>7, <1>8, <1>9, <1>10

\* Every step of the administered pool.
LEMMA GatewayStep ==
    ASSUME GInv, EtherFitsUint256, [AdministeredNext]_txVars
    PROVE  GInv' /\ [gatewayActs \/ gatewayActs' => AddsNothing]_txVars
  <1>1. UInv'
    BY AdministeredPreserves DEF GInv, Kept
  <1>2. CASE EtherCalls
    BY <1>1, <1>2, EtherCallsKeep DEF GInv
  <1>3. CASE depositWrapped \/ withdrawWrapped \/ unwrap \/ repayWrapped
    BY <1>1, <1>3, GatewayContinues DEF GInv
  <1>4. CASE \/ tx = NoCall /\ (Tick \/ Quotes \/ Administration) /\ UNCHANGED <<ether, tx>>
             \/ PoolCalls \/ FlashLoans \/ Recoveries
             \/ collectFlashLoan \/ keepFlashLoan \/ collectELTokens
    BY <1>1, <1>4, OthersLendNothing DEF GInv
  <1>5. CASE UNCHANGED txVars
    <2>1. UNCHANGED <<usersConfig, borrowAllowance, tx>>
      BY <1>5 DEF txVars, vars
    <2>2. OwesNothing'
      BY <2>1 DEF GInv, OwesNothing, Undelegated
    <2> QED BY <1>1, <1>5, <2>2 DEF GInv
  <1> QED BY <1>2, <1>3, <1>4, <1>5 DEF AdministeredNext, Continues

\* Whatever users, receivers of flash loans and administrators do, and whatever anybody
\* sends to the gateway or deposits for it: its own functions leave nothing of what
\* they move with it, and it never owes.  That it calls the pool only from them, and
\* approves no delegation, is GatewayCallsNobody.
THEOREM GatewayEmpties == AdministeredSpec /\ []EtherFitsUint256 => GatewayKeepsNothing
  <1> DEFINE Owes == userDebt(market[WETH], Gateway, now) # 0
             Acts == gatewayActs \/ gatewayActs'
             Keeps ==
               /\ (wallet[Gateway][WETH] - carriedEther)' <= wallet[Gateway][WETH] - carriedEther
               /\ \/ (market[WETH].el[Gateway] - carriedELTokens)'
                       <= market[WETH].el[Gateway] - carriedELTokens
                  \/ tx.call = "depositETH" /\ tx.onBehalfOf = Gateway
               /\ userDebt(market[WETH], Gateway, now)' = 0
  <1>1. InitTransactions => GInv
    <2> SUFFICES ASSUME InitTransactions PROVE GInv
      OBVIOUS
    <2>1. UInv
      BY InitIInv, EtherAssumption, NoCallTyped
         DEF InitTransactions, UInv, TxTypeOK, CollectsWhenItMay
    <2>2. usersConfig[Gateway].borrowing = {} /\ Undelegated(Gateway) /\ tx = NoCall
      BY GatewayAssumption DEF InitTransactions, Init, Undelegated
    <2> QED BY <2>1, <2>2, NoCallTyped DEF GInv, OwesNothing
  <1>2. GInv /\ EtherFitsUint256 /\ [AdministeredNext]_txVars
          => GInv' /\ [Acts => AddsNothing]_txVars
    BY GatewayStep
  <1>3. GInv => ~Owes
    BY OwesZero
  <1>4. [Acts => AddsNothing]_txVars /\ ~Owes' => [Acts => Keeps]_txVars
    BY DEF AddsNothing
  <1>5. GatewayKeepsNothing <=> [][Acts => Keeps]_txVars
    BY DEF GatewayKeepsNothing
  <1> HIDE DEF Acts, Keeps, Owes
  <1> QED BY <1>1, <1>2, <1>3, <1>4, <1>5, PTL DEF AdministeredSpec

-------------------------------------------------------------------------------
(***************************************************************************)
(* Flash loans.  A reserve is covered by its cash and by what is owed to   *)
(* it; the debts move against the claims (Shifts), since no elToken moves. *)
(***************************************************************************)
Debts(m, t) == SumFunction([u \in Users |-> userDebt(m, u, t)])

\* At most two RAY of scaled elTokens: the income index is one number, and beyond
\* that half of its last unit is more than the rounding of an operation.
SuppliesBelowRays == \A a \in Assets : market[a].elSupply <= 2 * RAY

\* What is owed is a number, and worth the elTokens less the claims.
LEMMA ClaimsSplit ==
    ASSUME NEW t \in Nat, NEW m, Sound(m, t)
    PROVE  /\ Debts(m, t) \in Int
           /\ SumFunction([u \in Users |-> rayMul(m.el[u], getNormalizedIncome(m, t))])
                = Claims(m, t) + Debts(m, t)
  <1> DEFINE f == [u \in Users |-> claim(m, u, t)]
             g == [u \in Users |-> userDebt(m, u, t)]
             h == [u \in Users |-> rayMul(m.el[u], getNormalizedIncome(m, t))]
             s == [u \in Users |-> f[u] + g[u]]
  <1>1. f \in [Users -> Int] /\ g \in [Users -> Int]
    <2>1. \A u \in Users : userDebt(m, u, t) \in Int
      BY NoHiddenDebt DEF userDebt
    <2> QED BY <2>1, ClaimsInt
  <1>2. ASSUME NEW u \in Users
        PROVE  h[u] = f[u] + g[u]
    <2> DEFINE e == rayMul(m.el[u], getNormalizedIncome(m, t))
               d == userDebt(m, u, t)
    <2>1. e \in Nat
      <3>1. m.el[u] \in Nat
        BY DEF Sound, Market, Accounts
      <3> QED BY <3>1, ViewIndexesGrow, RayMulNat
    <2>2. d \in Int
      BY NoHiddenDebt DEF userDebt
    <2>3. h[u] = e /\ f[u] = e - d /\ g[u] = d
      BY DEF claim
    <2> HIDE DEF e, d, f, g, h
    <2> QED BY <2>1, <2>2, <2>3
  <1>3. h = s
    BY <1>2
  <1>4. Claims(m, t) = SumFunction(f) /\ Debts(m, t) = SumFunction(g)
    BY DEF Claims, Debts
  <1> HIDE DEF f, g, h
  <1>5. SumFunction(s) = SumFunction(f) + SumFunction(g)
    BY <1>1, UsersAssumption, SumAdds
  <1>6. SumFunction(g) \in Int
    BY <1>1, UsersAssumption, SumInt
  <1> QED BY <1>3, <1>4, <1>5, <1>6 DEF h

\* Where no elToken moves, the debts rise by what the claims fall.
LEMMA DebtsMirror ==
    ASSUME NEW t \in Nat, NEW m, NEW r, Sound(m, t), Sound(r, t),
           \A u \in Users : r.el[u] = m.el[u],
           getNormalizedIncome(r, t) = getNormalizedIncome(m, t)
    PROVE  /\ Debts(m, t) \in Int /\ Debts(r, t) \in Int
           /\ Debts(r, t) - Debts(m, t) = Claims(m, t) - Claims(r, t)
  <1> DEFINE f == [u \in Users |-> rayMul(m.el[u], getNormalizedIncome(m, t))]
             g == [u \in Users |-> rayMul(r.el[u], getNormalizedIncome(r, t))]
  <1>1. SumFunction(f) = Claims(m, t) + Debts(m, t) /\ Debts(m, t) \in Int
    BY ClaimsSplit
  <1>2. SumFunction(g) = Claims(r, t) + Debts(r, t) /\ Debts(r, t) \in Int
    BY ClaimsSplit
  <1>3. f = g
    OBVIOUS
  <1>4. Claims(m, t) \in Int /\ Claims(r, t) \in Int
    BY ClaimsInt
  <1> HIDE DEF f, g
  <1> QED BY <1>1, <1>2, <1>3, <1>4

\* What the property says of the step, for the reserve and the amount.
Backed(a, n, paid, promised) ==
    LET settled == updateState(market[a], config[a], now)
    IN  coverage(market'[a]) + roundingOfWealth(market'[a])
          >= coverage(settled) + n + paid - promised

\* A loan that is kept is somebody's debt now.
LEMMA KeptIsBacked ==
    ASSUME UInv, UInv', keepFlashLoan, NEW x \in Int
    PROVE  Backed(tx.asset, tx.amount, x, x)
  <1> DEFINE a == tx.asset
             u == tx.onBehalfOf
             mode == tx.mode
             n == tx.amount
             z == 0
             m  == market[a]
             m1 == updateState(m, config[a], now)
             m2 == mintDebt(m1, u, n, mode, now)
             m3 == updateInterestRates(m2, config[a], now, z, z)
             d  == rayMul(1, m1.variableBorrowIndex) + 1
  <1>1. /\ a \in Assets /\ n \in Nat /\ u \in Users /\ mode \in Modes
        /\ z \in Nat
    BY CallFields DEF keepFlashLoan, UInv, TxTypeOK
  <1>2. now \in Nat /\ Sound(m, now) /\ config[a] \in Config /\ market \in [Assets -> Market]
    BY <1>1 DEF UInv, IInv, TypeOK
  <1>3. /\ canUpdateState(m, config[a], now) /\ canMintDebt(m1, u, n, mode, now)
        /\ canUpdateInterestRates(m2, config[a], z, z)
        /\ market' = [market EXCEPT ![a] = m3]
    BY DEF keepFlashLoan
  <1>4. market'[a] = m3
    BY <1>1, <1>2, <1>3
  <1> HIDE DEF a, u, mode, n, z
  <1>5. Sound(m1, now) /\ m1.lastUpdateTimestamp = now
    BY <1>2, <1>3, UpdateStateSound DEF UpdateFrame
  <1> HIDE DEF m1
  <1>6. DebtFrame(m1, m2, now) /\ Shifts(m1, m2, now, -n, d)
    BY <1>1, <1>2, <1>3, <1>5, MintDebtSound, MintDebtShifts
  <1>7. m2.el = m1.el /\ m2.elSupply = m1.elSupply
    BY <1>1, <1>5 DEF Sound, Market, Modes, mintDebt, varMint, stMint
  <1> HIDE DEF m2
  <1>8. Sound(m2, now) /\ m2.lastUpdateTimestamp = now /\ SameIndexes(m1, m2)
    BY <1>5, <1>6 DEF DebtFrame, SameIndexes
  <1>9. /\ Sound(m3, now) /\ m3.lastUpdateTimestamp = now /\ Claims(m3, now) = Claims(m2, now)
        /\ SameIndexes(m2, m3) /\ m3.cash = m2.cash /\ m3.el = m2.el /\ m3.elSupply = m2.elSupply
    BY <1>1, <1>2, <1>3, <1>8, RatedKeeps
  <1> HIDE DEF m3
  <1>10. getNormalizedIncome(m3, now) = getNormalizedIncome(m1, now)
    BY <1>5, <1>8, <1>9 DEF SameIndexes, getNormalizedIncome
  <1>11. /\ Debts(m1, now) \in Int /\ Debts(m3, now) \in Int
         /\ Debts(m3, now) - Debts(m1, now) = Claims(m1, now) - Claims(m3, now)
    BY <1>2, <1>5, <1>7, <1>9, <1>10, DebtsMirror
  <1>12. d \in Int /\ d <= roundingOfWealth(m3) /\ roundingOfWealth(m3) \in Int
    <2>1. IndexesGrow(m1, m3)
      <3>1. SameIndexes(m1, m3) /\ m1 \in Market
        BY <1>5, <1>8, <1>9 DEF SameIndexes, Sound
      <3> QED BY <3>1, SameGrow
    <2> QED BY <1>2, <1>5, <1>9, <2>1, Roundings
  <1>13. Claims(m1, now) \in Int /\ Claims(m3, now) \in Int
    BY <1>2, <1>5, <1>9, ClaimsInt
  <1> HIDE DEF d
  <1>14. Debts(m3, now) >= Debts(m1, now) + n - d
    BY <1>1, <1>6, <1>9, <1>11, <1>12, <1>13 DEF Shifts
  <1>15. PICK c \in Nat, w \in Nat :
           /\ c = m1.cash /\ w = rayMul(m1.elSupply, getNormalizedIncome(m1, now))
    <2>1. m1.cash \in Nat /\ m1.elSupply \in Nat
      BY <1>5 DEF Sound, Market
    <2> QED BY <1>2, <1>5, <2>1, ViewIndexesGrow, RayMulNat
  <1>16. coverage(m1) = c + Debts(m1, now) - w /\ coverage(m3) = c + Debts(m3, now) - w
    BY <1>7, <1>8, <1>9, <1>6, <1>10, <1>15 DEF coverage, Debts, DebtFrame
  <1>17. coverage(m3) + roundingOfWealth(m3) >= coverage(m1) + n + x - x
    BY <1>1, <1>11, <1>12, <1>14, <1>15, <1>16
  <1> QED BY <1>4, <1>17 DEF Backed, m1, m, a, n


\* cumulateToLiquidityIndex changes the income index only.
LEMMA CumulateFrame ==
    ASSUME NEW m \in Market, NEW n \in Nat
    PROVE  LET r == cumulateToLiquidityIndex(m, n)
           IN  /\ r.liquidityIndex
                    = rayMul(rayDiv(wadToRay(n), wadToRay(m.elSupply)) + RAY, m.liquidityIndex)
               /\ r.variableBorrowIndex = m.variableBorrowIndex
               /\ r.el = m.el /\ r.elSupply = m.elSupply /\ r.varDebt = m.varDebt
  <1> DEFINE i == rayMul(rayDiv(wadToRay(n), wadToRay(m.elSupply)) + RAY, m.liquidityIndex)
             r == [m EXCEPT !.liquidityIndex = i]
  <1>1. r = cumulateToLiquidityIndex(m, n)
    BY DEF cumulateToLiquidityIndex
  <1> HIDE DEF i
  <1>2. /\ r.liquidityIndex = i /\ r.variableBorrowIndex = m.variableBorrowIndex
        /\ r.el = m.el /\ r.elSupply = m.elSupply /\ r.varDebt = m.varDebt
    BY DEF Market
  <1> HIDE DEF r
  <1> QED BY <1>1, <1>2 DEF i

\* A reserve that is up to date and gets cash: what it is covered by.
LEMMA UpToDateCoverage ==
    ASSUME now \in Nat, NEW m, Sound(m, now), m.lastUpdateTimestamp = now,
           NEW r, Sound(r, now), r.lastUpdateTimestamp = now, SameDebt(m, r),
           r.variableBorrowIndex = m.variableBorrowIndex, r.elSupply = m.elSupply
    PROVE  /\ coverage(m) = m.cash + Debts(m, now) - rayMul(m.elSupply, m.liquidityIndex)
           /\ coverage(r) = r.cash + Debts(m, now) - rayMul(m.elSupply, r.liquidityIndex)
  <1>1. \A u \in Users : userDebt(r, u, now) = userDebt(m, u, now)
    BY DEF SameDebt, userDebt, varBalanceOf, getNormalizedDebt, stBalanceOf
  <1>2. Debts(r, now) = Debts(m, now)
    BY <1>1 DEF Debts
  <1>3. /\ getNormalizedIncome(m, now) = m.liquidityIndex
        /\ getNormalizedIncome(r, now) = r.liquidityIndex
    BY DEF getNormalizedIncome
  <1> QED BY <1>2, <1>3 DEF coverage, Debts

\* A loan that is paid back, with its premium.
LEMMA RepaidIsBacked ==
    ASSUME UInv, UInv', SuppliesBelowRays', REVISION = 2, collectFlashLoan
    PROVE  LET settled == updateState(market[tx.asset], config[tx.asset], now)
           IN  Backed(tx.asset, tx.amount, premium(tx.amount),
                      rayMul(premium(tx.amount), settled.liquidityIndex))
  <1> DEFINE a    == tx.asset
             n    == tx.amount
             fee  == premium(n)
             owed == n + fee
             z    == 0
             m    == market[a]
             m1   == updateState(m, config[a], now)
             m2   == cumulateToLiquidityIndex(m1, fee)
             m3   == updateInterestRates(m2, config[a], now, owed, z)
             m4   == [m3 EXCEPT !.cash = @ + owed]
             s    == m1.elSupply
             i    == m1.liquidityIndex
             j    == m2.liquidityIndex
             v    == rayMul(1, m1.variableBorrowIndex)
  <1>1. a \in Assets /\ n \in Nat /\ z \in Nat
    BY CallFields DEF collectFlashLoan, UInv, TxTypeOK
  <1>2. now \in Nat /\ Sound(m, now) /\ config[a] \in Config /\ market \in [Assets -> Market]
    BY <1>1 DEF UInv, IInv, TypeOK
  <1>3. /\ canUpdateState(m, config[a], now) /\ s # 0
        /\ canUpdateInterestRates(m2, config[a], owed, z)
        /\ market' = [market EXCEPT ![a] = m4]
    BY REVISION = 2 DEF collectFlashLoan
  <1>4. market'[a] = m4
    BY <1>1, <1>2, <1>3
  <1>5. fee \in Nat /\ owed \in Nat /\ owed = n + fee
    BY <1>1, PremiumNat
  <1>6. m4.elSupply <= 2 * RAY
    BY <1>1, <1>4 DEF SuppliesBelowRays
  <1> HIDE DEF a, n, fee, owed, z
  <1>7. Sound(m1, now) /\ m1.lastUpdateTimestamp = now
    BY <1>2, <1>3, UpdateStateSound DEF UpdateFrame
  <1> HIDE DEF m1
  <1>8. /\ Sound(m2, now) /\ SameDebt(m1, m2) /\ m2.cash = m1.cash
        /\ m2.lastUpdateTimestamp = now
    BY <1>2, <1>3, <1>5, <1>7, CumulateSound DEF s
  <1>9. /\ j = rayMul(rayDiv(wadToRay(fee), wadToRay(s)) + RAY, i)
        /\ m2.variableBorrowIndex = m1.variableBorrowIndex /\ m2.elSupply = s
    BY <1>5, <1>7, CumulateFrame DEF Sound
  <1> HIDE DEF m2
  <1>10. /\ Sound(m3, now) /\ m3.lastUpdateTimestamp = now /\ SameIndexes(m2, m3)
         /\ SameDebt(m2, m3) /\ m3.cash = m2.cash /\ m3.elSupply = m2.elSupply
    BY <1>1, <1>2, <1>3, <1>5, <1>8, RatedKeeps
  <1> HIDE DEF m3
  <1>11. /\ m4.cash = m1.cash + owed /\ m4.elSupply = s /\ SameDebt(m1, m4)
         /\ m4.liquidityIndex = j /\ m4.variableBorrowIndex = m1.variableBorrowIndex
         /\ m4.lastUpdateTimestamp = now /\ Sound(m4, now)
    <2>1. m3.cash + owed \in Nat /\ m3 \in Market
      BY <1>5, <1>10 DEF Sound, Market
    <2>2. ElFrame(m3, m4, now)
      BY <1>2, <1>10, <2>1, CashChange
    <2>3. m4.cash = m3.cash + owed /\ m4.elSupply = m3.elSupply
      BY <2>1 DEF Market
    <2> HIDE DEF m4
    <2> QED BY <1>8, <1>9, <1>10, <2>2, <2>3 DEF ElFrame, SameIndexes, SameDebt
  <1> HIDE DEF m4
  <1>12. /\ coverage(m1) = m1.cash + Debts(m1, now) - rayMul(s, i)
         /\ coverage(m4) = m1.cash + owed + Debts(m1, now) - rayMul(s, j)
    BY <1>2, <1>7, <1>11, UpToDateCoverage DEF s, i
  <1>13. /\ s \in Nat \ {0} /\ s <= 2 * RAY /\ i \in Nat \ {0} /\ i >= RAY
         /\ m1.cash \in Nat /\ m1.variableBorrowIndex \in Nat
         /\ m1.variableBorrowIndex >= RAY
    BY <1>3, <1>6, <1>7, <1>11, RayAssumption DEF Sound, Market, IndexesStarted
  <1>14. Debts(m1, now) \in Int
    BY <1>2, <1>7, ClaimsSplit
  <1>15. v \in Nat /\ v >= 1
    <2>1. 1 \in Nat
      OBVIOUS
    <2>2. rayMul(1, RAY) <= v
      BY <1>13, <2>1, RayMulMonotone, RayAssumption
    <2>3. rayMul(1, RAY) = 1
      BY <2>1, RayMulOne
    <2>4. v \in Nat
      BY <1>13, <2>1, RayMulNat
    <2> QED BY <2>2, <2>3, <2>4
  <1>16. roundingOfWealth(m4) = rayMul(1, j) + v + 2
    BY <1>11 DEF roundingOfWealth
  <1> HIDE DEF s, i, j, v
  <1>17. rayMul(s, j) <= rayMul(s, i) + rayMul(fee, i) + rayMul(1, j) + 2
    BY <1>5, <1>9, <1>13, PremiumRounds
  <1>18. /\ rayMul(s, i) \in Nat /\ rayMul(fee, i) \in Nat /\ rayMul(s, j) \in Nat
         /\ rayMul(1, j) \in Nat
    <2>1. j \in Nat
      BY <1>8 DEF Sound, Market, j
    <2> QED BY <1>5, <1>13, <2>1, RayMulNat
  <1>19. PICK e \in Nat : e = m1.cash
    BY <1>13
  <1>20. coverage(m4) + roundingOfWealth(m4) >= coverage(m1) + n + fee - rayMul(fee, i)
    BY <1>1, <1>5, <1>12, <1>14, <1>15, <1>16, <1>17, <1>18, <1>19
  <1> QED BY <1>4, <1>20 DEF Backed, m1, m, a, n, fee, i

\* No other step ends a flash loan: the receiver's calls leave it open, revision 2
\* collects no elTokens, and everything else waits for it.
LEMMA LoanEnds ==
    ASSUME UInv, AdministeredNext, REVISION = 2,
           tx.call \in {"flashLoan", "collectELTokens"}, tx' = NoCall
    PROVE  /\ tx.call = "flashLoan"
           /\ (collectFlashLoan /\ tx.mode = "NONE") \/ (keepFlashLoan /\ tx.mode # "NONE")
  <1>1. tx.call = "flashLoan"
    BY DEF UInv, CollectsWhenItMay
  <1>2. tx # NoCall
    BY <1>1, NoCallTyped
  <1>3. ~FlashLoans /\ ~EtherCalls
    BY <1>2 DEF FlashLoans, EtherCalls, flashLoan, depositETH, withdrawETH, borrowETH, repayETH
  <1>4. ~PoolCalls /\ ~Recoveries /\ ~collectELTokens
    <2>1. PoolCalls => tx' = tx
      BY DEF PoolCalls
    <2>2. Recoveries => tx' = tx
      BY DEF Recoveries, emergencyTokenTransfer
    <2>3. ~collectELTokens
      BY <1>1 DEF collectELTokens
    <2> QED BY <1>2, <2>1, <2>2, <2>3
  <1>5. ~depositWrapped /\ ~withdrawWrapped /\ ~unwrap /\ ~repayWrapped
    BY <1>1 DEF depositWrapped, withdrawWrapped, unwrap, repayWrapped
  <1>6. collectFlashLoan \/ keepFlashLoan
    BY <1>2, <1>3, <1>4, <1>5 DEF AdministeredNext, Continues
  <1> QED BY <1>1, <1>6 DEF collectFlashLoan, keepFlashLoan

\* In whatever state the receiver's calls (any that a user can make, in any number) and
\* earlier changes of configuration left the reserve: the last step of a flash loan
\* leaves it covered as well as it found it, the amount being back or somebody's debt.
\* The receiver's own calls are the same steps of LendingPool that an account takes
\* between transactions, and nothing is said of them here.  Revisions 3 and 4 ask for
\* elTokens instead of the underlying, and there it is false.
THEOREM FlashLoansStayBacked ==
    ASSUME REVISION = 2
    PROVE  AdministeredSpec /\ []SuppliesBelowRays => FlashLoansAreBacked
  <1> DEFINE Covers ==
               tx.call \in {"flashLoan", "collectELTokens"} /\ tx' = NoCall =>
                 LET a        == tx.asset
                     settled  == updateState(market[a], config[a], now)
                     promised == rayMul(premium(tx.amount), settled.liquidityIndex)
                     paid     == IF tx.call = "flashLoan" /\ tx.mode # "NONE"
                                 THEN promised ELSE premium(tx.amount)
                 IN  coverage(market'[a]) + roundingOfWealth(market'[a])
                       >= coverage(settled) + tx.amount + paid - promised
  <1>1. UInv /\ SuppliesBelowRays' /\ [AdministeredNext]_txVars => [Covers]_txVars
    <2> SUFFICES ASSUME UInv, SuppliesBelowRays', AdministeredNext,
                        tx.call \in {"flashLoan", "collectELTokens"}, tx' = NoCall
                 PROVE  Covers
      OBVIOUS
    <2> DEFINE settled == updateState(market[tx.asset], config[tx.asset], now)
               fee == premium(tx.amount)
               promised == rayMul(fee, settled.liquidityIndex)
    <2>1. UInv'
      BY AdministeredPreserves DEF Kept
    <2>2. CASE collectFlashLoan /\ tx.mode = "NONE"
      <3>1. Backed(tx.asset, tx.amount, fee, promised)
        BY REVISION = 2, <2>1, <2>2, RepaidIsBacked
      <3> QED BY <2>2, <3>1 DEF Backed
    <2>3. CASE keepFlashLoan /\ tx.mode # "NONE"
      <3>1. promised \in Int
        <4>1. tx.asset \in Assets /\ tx.amount \in Nat
          BY <2>3, CallFields DEF keepFlashLoan, UInv, TxTypeOK
        <4>2. fee \in Nat
          BY <4>1, PremiumNat
        <4>3. Sound(settled, now)
          BY <2>3, <4>1, UpdateStateSound DEF keepFlashLoan, UpdateFrame, UInv, IInv, TypeOK
        <4>4. settled.liquidityIndex \in Nat
          BY <4>3 DEF Sound, Market
        <4> HIDE DEF settled, fee, promised
        <4>5. \A p \in Nat, i \in Nat : rayMul(p, i) \in Nat
          BY RayMulNat
        <4>6. rayMul(fee, settled.liquidityIndex) \in Nat
          BY <4>2, <4>4, <4>5, Zenon
        <4> QED BY <4>6 DEF promised
      <3>2. Backed(tx.asset, tx.amount, promised, promised)
        BY <2>1, <2>3, <3>1, KeptIsBacked
      <3>3. tx.call = "flashLoan"
        BY <2>3 DEF keepFlashLoan
      <3> QED BY <2>3, <3>2, <3>3 DEF Backed
    <2> QED BY REVISION = 2, <2>2, <2>3, LoanEnds
  <1>2. FlashLoansAreBacked <=> [][Covers]_txVars
    BY DEF FlashLoansAreBacked
  <1> HIDE DEF Covers
  <1> QED BY AdministeredInvariant, <1>1, <1>2, PTL DEF AdministeredSpec


\* A liquidation in the administered pool, also one that the receiver of a flash loan
\* makes in the middle of it and whatever bonus and strategy were set before, pays at
\* most the close factor and takes collateral worth at most that with the bonus.
THEOREM AdministeredLiquidationsAreBounded ==
    AdministeredSpec /\ []EarnsWhatItCharges => LiquidationIsBounded
  <1>1. UInv => IInv
    BY DEF UInv
  <1> QED BY AdministeredInvariant, <1>1, LiquidationBounds, LiquidationSteps, PTL

\* A repayment of everything also clears the debt when the pool is called through the
\* gateway and reconfigured between transactions.
THEOREM AdministeredRepayingAllClears ==
    AdministeredSpec /\ []DebtsFitUint256 => RepayAllClears
  <1>1. UInv /\ DebtsFitUint256 => [AllRepaid]_vars
    BY AllRepaidStep DEF UInv
  <1> QED BY AdministeredInvariant, <1>1, AllRepaidSteps, PTL

\* The same for a rebalancing, which moves no debt, in the revisions 3 and 4.
THEOREM AdministeredRebalancingKeepsDebt ==
    ASSUME REVISION # 2
    PROVE  AdministeredSpec /\ []EarnsWhatItCharges => RebalanceKeepsDebt
  <1>1. UInv /\ EarnsWhatItCharges => [RebalancedOnly]_vars
    BY REVISION # 2, RebalancedStep DEF UInv
  <1> QED BY AdministeredInvariant, <1>1, RebalancedSteps, PTL
===============================================================================
