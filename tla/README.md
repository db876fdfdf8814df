# Electrolend in TLA+

A formal model of Electrolend: the lending pool contracts in `src/contracts` (a fork of
Aave v2), the web interface in `src/electrolend-ui`, the deployment code in
`src/helpers`, `src/tasks` and `src/scripts`, and the expectations of the test suite in
`src/test-suites`. The modules are translated from the Solidity and TypeScript sources.
TLC checks them on small instances, and the TLA+ proof system (TLAPS) proves the core
results about the contracts for every value of the parameters.

## 1. Inventory

### 1.1 Parts and their state

| part | source | state | operations |
|---|---|---|---|
| fixed-point math | `contracts/protocol/libraries/math` | none | ray, wad and percentage products and quotients, linear and compounded interest |
| rate strategy | `DefaultReserveInterestRateStrategy.sol` | immutable slopes | `calculateInterestRates` |
| reserve accounting | `libraries/logic/ReserveLogic.sol` | per reserve: two indexes, three rates, a clock, configuration, token addresses | `init`, `updateState`, `updateInterestRates`, `cumulateToLiquidityIndex` |
| tokens | `protocol/tokenization` | scaled balances and supplies; per user stable rate and clock; borrow allowances | `mint`, `burn`, `mintToTreasury`, `transfer`, `approveDelegation` |
| pool | `LendingPool.sol` (revision 2), `LendingPoolTmp.sol` (3), `LendingPoolV4.sol` (4) | `_reserves`, `_usersConfig`, `_reservesList`, `_paused` | `deposit`, `withdraw`, `borrow`, `repay`, `swapBorrowRateMode`, `rebalanceStableBorrowRate`, `setUserUseReserveAsCollateral`, `liquidationCall`, `flashLoan`, `finalizeTransfer`, the configurator's setters |
| risk checks | `GenericLogic`, `ValidationLogic`, `UserConfiguration`, `Helpers` | two bits per user and reserve | account data, health factor, one validation per call |
| liquidation | `LendingPoolCollateralManager.sol` | runs by delegatecall on the pool's state | `liquidationCall` |
| configurator | `LendingPoolConfigurator.sol` | none of its own | reserve initialisation, collateral and factor setters, freeze, activate, pause |
| addresses, proxies | `protocol/configuration`, `libraries/electrolend-upgradeability` | ids, implementations, revision | set, upgrade, initialise once |
| price oracle | `misc/ElectroOracle.sol`, `SimplePriceFeed*.sol` | prices, sources, updaters, timestamps | `getAssetPrice`, price updates, staleness fallback |
| WETH gateway | `misc/WETHGateway.sol` | none that should last | wraps deposit, withdraw, borrow and repay |
| wallet connection | `electrolend-ui/src/context/WalletContext.tsx`, `utils/web3.ts` | address, chain, balance, account information, a saved address | connect, disconnect, the wallet's events |
| token actions | `electrolend-ui/src/utils/lendingService.ts` | none; the chain's | approve, deposit, withdraw, borrow, repay |
| dialogs and pages | `electrolend-ui/src/app/app` | what is open, typed, loaded, running | open, close, confirm, load positions and markets |
| deployment library | `helpers/`, `tasks/full` | a JSON file of addresses; the chain | deploy, save, wait, configure through helper contracts |
| deployment scripts | `scripts/` | the account's nonce; JSON files | send, retry, wait, announce an address |
| test harness | `test-suites/test-palmy/helpers` (`helpers/misc-utils.ts` imports it by a later name, `test-electrolend`, which is not in the repository) | none | what a call must do to a reserve and a user, and the comparison |

How they interact. In the contracts a user's transaction enters the pool (or a token,
which calls the pool's `finalizeTransfer`); the pool validates against the oracle's prices
and the user's two flag bits, settles the reserve's interest (`updateState`), calls a token
to mint or burn, recomputes the rates, and moves the underlying. A transaction is atomic:
whatever reverts leaves no trace. So the concurrency there is that of whole calls (owners,
delegatees, liquidators, the oracle, the clock and administrators act in any order on
shared reserves) and of a flash loan's receiver, which runs in the middle of a call.

The interface runs in one JavaScript thread per page, but everything after an `await` runs
in a later step: wallet events, answers of the chain and clicks interleave there. The
deployment code is sequential too, and shares the account, the node's pool of pending
transactions and a JSON file with whatever else uses them; its processes die half-way.

### 1.2 What is hard here

* **Interest is settled lazily, in three clocks.** Views extrapolate from the last
  update. `updateState` settles the indexes; each stable debt has its own clock; and
  the total stable debt has a third. The code subtracts amounts computed at
  different clocks with SafeMath, so an inversion would make a reserve revert for good.
* **Debts are scaled and rounded twice.** "Repay everything" reads `scaled * index`
  and burns `amount / index`. The two roundings have to cancel exactly.
* **Flags are kept apart from balances.** The health factor sees only reserves whose
  borrowing bit is set. The bit is set on first borrowings and cleared on values read
  before the burn.
* **Two parties, two reserves, one call.** A liquidation touches up to two reserves,
  which may be the same one, in an order that matters.
* **Others act between an owner's calls**: delegatees borrow on the owner's credit, third
  parties deposit and repay for the owner, liquidators wait for a price, administrators
  change thresholds, factors and strategies.
* **A flash loan's receiver acts inside a call**, between the moment the cash is gone and
  the moment it is collected.
* **Arithmetic limits**: the overflow guards divide before comparing, halves of odd
  divisors round, compounding is a truncated binomial.
* **Answers arrive late.** Balances, positions and maxima are read without being awaited
  or cancelled, and are written by whatever answer comes last.
* **The wallet changes under the page.** Account and chain change while `connectWallet` or
  a token action is waiting; each call of an action asks the wallet for its signer again.
* **Transactions race for nonces.** Scripts on one account read the nonce, retry with other
  prices, and replace each other's transactions; receipts get lost.
* **Rights are lent to helper contracts** during a deployment, and a process that dies in
  between leaves them there.

`PROJECT.json` lists every hazard at its line, with the property that covers it or the
reason why none does.

### 1.3 What makes each part correct

* math: the guards revert exactly on overflow, results are nearest integers, a scaled
  balance survives the round trip, compounding is between simple interest and the power;
* reserve: indexes only rise, clocks stay ordered, accrual never reverts, settling changes
  nobody's balance;
* tokens: supplies are the sums of balances, nothing goes below zero;
* pool: every debt is flagged, value is conserved by every call, a call never makes a
  healthy account liquidatable, everything owed can be repaid to the last unit, and each
  call does what the test suite's own calculation says;
* liquidation: only unhealthy accounts lose collateral, at most the close factor is paid
  and at most the bonus gained;
* flash loans: whatever the receiver does, the reserve is covered as well as before;
* gateway: nothing of a user's stays with it;
* configurator: nothing is switched off under a debt;
* wallet connection: a reload reconnects the address in use, a connected page is on the
  testnet, no loading flag stays up;
* token actions: the pool pulls what was typed, success is reported of what was done, every
  action ends, one at a time;
* deployment: what is announced and saved is on the chain, a right that is lent comes back, a
  deployment that reports success is complete, every script ends.

## 2. Modules

| module | models | correspondence |
|---|---|---|
| `WadRayMath` | `WadRayMath.sol`, `PercentageMath.sol`, `MathUtils.sol` | one operator per function, exact arithmetic; RAY, WAD, ... are constants |
| `CheckedMath` | the same functions in 256-bit words | products wrap (`% 2^w`), the `require`s are modelled literally, a reverting call returns `Revert`; two words walk through all pairs of arguments |
| `InterestRateStrategy` | the two-slope curve | one operator per branch of `calculateInterestRates` |
| `ReserveLogic` | `ReserveLogic.sol` and the three tokens | a `Market` record per reserve; each mutating function an operator from market to market, each function that may revert a predicate `can...` |
| `LendingPool` | the three pool revisions, validations, liquidation, delegation | eight variables (below), one action per external call |
| `PoolTransactions` | `flashLoan` with its receiver, `WETHGateway.sol` | extends `LendingPool` by native balances and `tx`, the call in progress: one action per contract that has its turn; `callers` says whose calls of the pool and its tokens are possible |
| `PoolConfigurator` | the setters of `LendingPoolConfigurator.sol` | one action per setter, on the pool's `config` and `paused` |
| `AdministeredPool` | the composition of the three | users and administrators act between transactions, only the transaction's own contracts inside one |
| `Calculations`, `ExpectedData` | `utils/calculations.ts`, `utils/math.ts` | one operator per function, BigNumber arithmetic as fractions |
| `PoolExpectations` | `utils/helpers.ts`, `actions.ts` | reads the pool's state as the harness does and compares each call with `ExpectedData` |
| `WalletContext` | `WalletContext.tsx`, the connection part of `web3.ts`, the Dashboard's positions | a step per `await`; calls in flight are part of the state |
| `LendingService` | `lendingService.ts` | a job per page, a step per `await`; the node and the lending contract are external |
| `ActionModal` | the dialogs of `app/page.tsx` and `markets/page.tsx` | what the dialog shows, its loads in flight and the actions running |
| `RegistryScripts` | the scripts that deploy the registry | a script is a record (what it sends, prices, retries, what it waits for), read by one set of steps |
| `LentRights` | an abstract specification | what a deployer expects of a routine that lends a right to a helper contract |
| `MarketDeployment` | `contracts-deployments.ts`, `init-helpers.ts`, `oracles-helpers.ts`, the `full` tasks, the oracle setup script | a call is a sequence of steps (create, save, wait, send, look up, read); implements `LentRights` twice |
| `MCLendingPool`, `MCAdministration`, `MCExpectations`, `MCWallet`, `MCLendingService`, `MCRegistryScripts`, `MCMarketDeployment` | instances for TLC | values of the constants, bounds, symmetry |
| `ReserveLogicProofs`, `CheckedMathProofs`, `LendingPoolProofs`, `LendingServiceProofs`, `WalletContextProofs`, `ActionModalProofs`, `RegistryScriptsProofs`, `MarketDeploymentProofs` | theorems | section 5 |

### 2.1 The contracts

State of `LendingPool`: `now` (block.timestamp), `paused`, `price` (the oracle's
answers), `config` and `market` (together `_reserves` and the tokens' storage),
`usersConfig` (`_usersConfig`, the two bits as two sets), `wallet` (underlying held by
users), `borrowAllowance` (of the two debt tokens).

Actions: `deposit`, `withdraw`, `borrow`, `repay`, `swapBorrowRateMode`,
`rebalanceStableBorrowRate`, `setUserUseReserveAsCollateral`, `liquidationCall`,
`transfer` (with `finalizeTransfer`), `approveDelegation`, and the environment's `Tick`
and `SetPrice`. Within an action `m1, m2, ...` are the successive contents of a reserve
in the order of the code. Since a revert undoes everything, all `can...` guards are
conjuncts in front of the changes.

`PoolTransactions` breaks a call up where another contract gets its turn: the flash loan
hands the amount out, then the receiver may make every call of `LendingPool` (`UserCalls` of
`callers`: the ten actions above, borrowing, swapping, rebalancing, transfers and delegation
included), any number of times, and the loan ends by collecting the amount or by leaving a debt. Two
things its arbitrary code could do are left out, because they are themselves transactions of this module: a second
flash loan and a call of the gateway. The gateway's four calls are two or three steps each. Anybody may name the
gateway as the other party of a call; `emergencyTokenTransfer` is the owner's action that takes out what
was sent to it. While `tx` is not `NoCall` nobody else
acts. A step that cannot be taken is a revert, at which the behaviour ends: the model never
continues from the middle of a transaction that failed.

Abstractions. Events, the incentives controller (a notification) and addresses are left
out. The underlying is a well-behaved ERC-20, and allowances for the pool and the gateway
are given. The oracle's price is any value, never zero. In the reserves' arithmetic, uint256
overflow is excluded by the size of amounts (the guards themselves are the subject of
`CheckedMath`), while the `uint128` checks of the reserve's fields are kept. The reserve list is
fixed: reserves are initialised before the first call. The differences between pool
revisions that reach the modelled calls are selected by the constant `REVISION`. A flash
loan is of one asset, without a second one inside it; the refund of `repayETH` is netted.

`ELToken.balanceOf` is not overridden in this fork, so it is the *scaled* balance, and
`totalSupply` is the scaled supply. The model follows the code: withdrawal limits,
collateral values, the collateral manager's `maxCollateral` and the premium that
`cumulateToLiquidityIndex` distributes all read them.

### 2.2 The test suite's expectations

`ExpectedData` computes from a reserve and a user before a call what they must be after it,
without tokens and clocks. `PoolExpectations` states for each call that the pool does
the same, field by field, in every state of the instance instead of one scripted story. What the
harness does not compare or gets wrong is left out by name: accessory fields that
no function assigns; `currentLTokenBalance`, which the suite expects to include interest
(`BalanceEarnsInterest`); the stable principal after a deposit
(`DepositKeepsPrincipal`); stable debts after a variable repayment and repayments above
the debt, which the harness does not cap; withdrawals of the whole `balanceOf`. The data
before is read in the block of the call, since the harness extrapolates no view.

### 2.3 The interface

A value read from the chain is represented by the account (or asset) it was read for, which
is all the properties tell apart. `connectWallet` is one call in flight with a program
counter; `updateBalance`, `fetchUserPositions` and `loadMaxAmount`, which nobody awaits or
cancels, are sets of calls in flight. The wallet is external: it changes account and chain
at any time and delivers its events later, in order. In `LendingService` the node mines the
transactions of an account in order, and may fail any read and lose any receipt.

### 2.4 The deployment

A contract's address follows from its deployer and a nonce, so an address *is* a nonce in both
deployment modules. The node keeps one pending transaction per nonce and takes a dearer one
in its place. `MarketDeployment` has the chain (what code is at which nonce, what the market's
contracts know), the JSON file `db`, the call in progress, and an operator who makes the calls in
their order and repeats some; `Die` ends the process in any step, `Lose` drops the pending
transactions. Calls to an address without code succeed and do nothing, as on the EVM.

The library is modelled as called with well-typed arguments. Many of its callers are not in
that state at this commit, and are therefore not modelled:
`tasks/full/1` passes `verify` as the initial owner, 2 and 3 fail on the helper's arguments or on names
that no longer exist, 4 and 5 are registered under other names than their callers use; the
`dev` tasks, `initializations`, `migrations` and `__setup.spec.ts` import functions that were renamed;
`deploy-electrolend-testnet.js` and its `-quick` variant stop at
`getContractFactory('ValidationLogic')`, whose library is not among the linked ones.

## 3. Runs

All on 2 workers.

| run | question | distinct states, time |
|---|---|---|
| `math` | do guards, rounding, round trip and compounding hold for all pairs of 7-bit words? | 16384, seconds |
| `pool_variable` | a borrower, a lender who may borrow on the other's credit, a falling price, variable rate | 5672, ~15 s |
| `pool_stable` | both rate modes, swaps, rebalancing, liquidation | 15216, ~75 s |
| `administration` | flash loans whose receiver makes calls of its own, the gateway, also as the other party of others' calls, liquidation, and an administrator's change between any two transactions | 28380, ~60 s |
| `expected` | does each call do what the test suite's calculation says? | seconds |
| `wallet` | two accounts, two undelivered events, every interleaving with `connectWallet` and the unawaited reads | ~50 s |
| `wallet_live` | one account: do all loading flags come down? | ~20 s |
| `actions` | two pages of one wallet, accounts switched at will, failed reads, lost receipts | ~55 s |
| `modal` | the Markets dialog, closed and reopened while an action runs | ~30 s |
| `registry` | two scripts on one account, racing for nonces | 201338, ~45 s |
| `deployment` | the deployment library, a death, a repetition and a loss | ~50 s |
| `withdraw_all` | a statement of a comment that the code does not satisfy (section 6) | seconds |

Properties of the passing runs, and what each is about:

* `GuardsExact`, `RoundsHalfUp`, `ScaledBalanceSurvives`, `CompoundingUndercharges`: the
  fixed-point libraries.
* `DebtIsFlagged`: no debt without its borrowing bit, so none escapes the health factor.
* `SuppliesAreSums`: elToken and variable debt supplies are sums of balances. The stable
  debt token's total is an approximation by design (`StableDebtToken.burn` says so) and
  is not claimed.
* `AccrualNeverReverts`: no history makes `updateState` revert for good.
* `RepayAllPossible`, `RepayAllClears`: whoever has the money can repay a debt in full,
  and then nothing of it is left.
* `IndexesNeverFall`: no step lowers an index or a clock.
* `WealthConserved`: no call creates or destroys value beyond one rounding unit of each
  token. A user's wealth in a reserve is underlying + claim - debt, read through the
  views, so this also says that settling interest agrees with what the views showed.
* `HealthyIsUntouchable`: a healthy account loses elTokens only by its own withdrawals
  and transfers.
* `CallsKeepHealth`: no call makes a healthy account unhealthy (up to the rounding of one
  scaled unit per debt); only time, prices and governance can. In `administration` this
  includes every step of flash loans, of their receivers and of the gateway. Revision 2's rebalancing is
  excepted: it scales the debt it gives back by a rate (`RebalanceRevision2.cfg`).
* `RebalanceKeepsDebt`: revisions 3 and 4 give back exactly the stable debt they burn.
* `LiquidationIsBounded`: close factor and bonus bound every liquidation, up to one scaled unit of each
  token and the rounding of the divisions, also when the collateral is short, both sides are the same reserve, thresholds were just changed, or
  the liquidator is the receiver of a flash loan.
* `TransactionsTypeOK`: nothing goes below zero, also in the middle of a transaction: no
  balance, supply, credit allowance or native balance.
* `FlashLoansAreBacked`: the last step of a flash loan leaves the reserve covered as well as it was before
  that step, on top of the amount, and the premium pays for what the depositors' index was raised by (the premium
  *times the income index*, because `totalSupply` is scaled). It is the step that collects or keeps; the
  reserve it finds is whatever the receiver's calls, all of `LendingPool`'s, have left.
* `GatewayKeepsNothing`: no step of the gateway's calls adds to the wrapped ether or elTokens it holds
  besides what the call in progress carries, or leaves a debt in its name. What others have sent to the gateway may lie
  there, and `repayETH`, which asks the pool to take the whole value, may use it up.
* `OffMeansEmpty`: a reserve is deactivated, or removed as collateral, only when nobody owes
  it anything, which `_checkNoLiquidity` infers from no cash and a liquidity rate of zero.
* `SuppliesAsExpected`, `LoansAsExpected`, `RatesAsExpected`: the pool agrees with the test suite's
  calculation within its own tolerance of three units.
* `TypeOK` (of the wallet and of the token actions), `SavedIsAddress`, `ConnectedOnTestnet`,
  `SpinnersEnd`: the wallet connection.
* `PullsWhatWasAsked`: no deposit or repayment takes another amount than the one typed,
  although amounts are formatted with 18 decimals when `decimals()` cannot be read: an approval of
  the typed amount is always in the way.
* `SuccessMeansDone`, `ActionsEnd`, `OneAtATime`, `DialogUsableAgain`: an action reported as
  done was executed once; every action ends; a page never runs two.
* `ConfirmedIsDeployed`, `ExpectedWhenAlone`, `RunsEnd`: what a waiting script saves is on the
  chain; an announced address is right when the script had the account to itself; every
  script ends, unless it waits and the node forgot a transaction without which its own cannot be mined. The
  "quick" script waits too, although it says that it "does not wait for confirmations to avoid getting stuck"
  (`deploy-electrolend-testnet-quick.js:199`): its third step is a call on the registry object that `deploy` has just returned, and
  ethers sends such a call only after `_deployed()`. So it hangs after that transaction was forgotten and dies
  when another one took its nonce; without `resolve` in `stranded`, `RunsEnd` is violated.
* `DoneMeansReady`: when `full:initialize-lending-pool` ends without an error, the market is
  complete, whatever died or was repeated before (unless the JSON file names an address that
  got no code).
* `AdminComesBack`, `OracleComesBack`: the pool administrator's role and the ownership of the
  rate oracle are lent as `LentRights` says: an abstract specification with fairness, which
  `MarketDeployment` implements under two refinement mappings. It is excused from returning a
  right after a death in between or a forgotten transaction.

`ActionModal`, `RegistryScripts` and `MarketDeployment` also define a `TypeOK` for the reader; no
run spends a check on it.

### 3.1 Bounds

| bound | value | why it is enough |
|---|---|---|
| users, reserves | 2 users, 1 or 2 reserves; the gateway is a third account | a position and its counterparty; collateral and debt in different reserves or the same one |
| `MAX_CALLS` | 5 or 6 calls; 3 in `administration`, which starts after both users' deposits; there the calls of a receiver and the administrators' count too | the longest scenario (deposit, deposit, borrow, borrow in the other mode, swap or rebalance, repay or liquidate) fits |
| `MAX_CHANGES` | 1, before one of the calls | each property is about one change between calls |
| `MAX_TIME` | 2 or 3; in `administration` time and prices move once there is a debt | interest accrues once between calls (variable) or in two different gaps, which separates the stable clocks |
| `Amounts` | one or two sizes and `UINT256_MAX` | one size that can be lent twice, "everything"; 9999 exceeds every balance |
| `RAY` = 100, `WAD` = 50, `WAD_RAY_RATIO` = 2, `PERCENTAGE_FACTOR` = 100, `SECONDS_PER_YEAR` = 1 | | small enough for rounding to happen in nearly every operation, much more often than at 1e27; rates of 10 to 70 % per period move the indexes at once |
| `WAD_RAY_RATIO` = 100 in `expected` | | health factors have no remainder to round there, and the tolerance `ALMOST` = 3 absorbs what the coarse RAY rounds, as the code's 3 does at 1e27 |
| `UINT128_MAX` = 500 | | above every index reached; the guards remain in the model |
| `Prices` | two for the collateral, one for the debt | healthy and liquidatable |
| `Calls`, `Delegations`, `Loans` | `<<caller, party, asset>>` per operation | the roles of the instance; a role that would only mirror another is not enumerated |
| `EVENT_LIMIT` | 2 | two account changes, or one of each kind, on their way at once |
| `MAX_ACTIONS`, `Asks`, `UNIT`, `FALLBACK` | 1 per page, {1, 2}, 1, 3 | two pages race; the fallback unit asks for more than any proper amount, or is the token's own unit (`FallbackAssumption`), as 10^18 does with 6 and with 18 decimals |
| `MAX_FETCHES` | 2 | the load of the mount and one after an action overlap |
| `MAX_LOSSES`, `MAX_DEATHS`, `MAX_REPEATS` | 1 each | any single fault at any step, then a repetition of a call |

`LoansAsExpected` is compared with one borrower: with two, the harness expects the wrong variable debt of the
second (see below). The harness keeps the fraction of a user's new stable rate, the model its whole part, as the comparison does.
`administration` is at revision 2, the only one whose flash loan takes the underlying back.

Calls are bounded in the MC modules by a counter (`Counted`), time by `MAX_TIME` in
`Tick`; these runs end when both are used up, hence `CHECK_DEADLOCK FALSE`: a chain on
which nobody calls anything is legal. The same goes for operators who have run their
scripts. In `math` the walk stops at the largest word. The interface's runs check for
deadlock: a page can always be clicked. Together the passing runs fire every disjunct of
their next-state relations.

### 3.2 Fairness

* **Contracts**: none, and no liveness is claimed. A call happens only if somebody sends it.
  What one would want to say ("a debt can always be repaid") is possibility, and is stated
  as the invariant `RepayAllPossible` over the guards of the call.
* **`WalletContext`**: `WF` on `Mount`, `Deliver`, `ConnectStep`, `updateBalance`, `fetchUserPositions`
  and `handleActionConfirm`. The browser runs a page it has loaded, delivers events, and
  settles every promise one way or the other, the wallet's prompts included.
* **`LendingService`**: `WF` on `Mine` and on each page's `Step`. The chain mines, and the awaits return.
* **`ActionModal`**: `WF` on `loadMaxAmount`, `ActionEnds` (from `LendingService`'s `ActionsEnd`) and
  `fetchMarketData`.
* **`RegistryScripts`, `MarketDeployment`**: `WF` on `Mine` and on the steps of a running script. The
  chain mines what it has not forgotten, and a process that was not killed runs on.
* **`LentRights`**: `WF` on doing all the jobs and on returning the right, for a routine that is alive.

Clicks, prompts, account changes, failures, starting a script and operators' calls are never forced.

### 3.3 Further configurations

Not runs of the project, but kept beside it: each shows with TLC's counterexample what a comment or a
reader would expect and the code does not do. In the five `...Comments.cfg` files every property is
violated; take one out to see the next.

| configuration | property | what happens |
|---|---|---|
| `TreasuryIncome.cfg` | `NoIncomeWithoutFactor` | `_updateIndexes` mints the accrued ratio itself to the treasury whatever the reserve factor (`ReserveLogic.sol:268`, `:364`) |
| `RepayAllFactor.cfg` | `RepayAllPossible` | with a factor of 100 % the index stands still while balances grow; a full repayment reverts (`LendingPoolV4.sol:229`, `ReserveLogic.sol:352`). The passing runs have a smaller factor |
| `RebalanceRevision2.cfg` | `RebalanceKeepsDebt` | revision 2 gives stable debt back as variable debt, scaled by a rate (`LendingPool.sol:343`, `:371`) |
| `SwapMode.cfg` | `SwapReachesMode` | `rateMode` is the mode to swap from, not to (`LendingPoolV4.sol:296`, `:315`) |
| `FlashLoanRevision4.cfg` | `FlashLoansAreBacked` | revisions 3 and 4 ask the receiver for elTokens instead of the underlying that was lent (`LendingPoolV4.sol:532`) |
| `GatewayWithdraw.cfg` | `EtherComesOut` | `withdrawETH` transfers elTokens for an amount, receives fewer scaled tokens, and redeems the amount (`WETHGateway.sol:69`) |
| `FullFactorOff.cfg` | `OffMeansEmpty` | a reserve factor of 100 % makes the liquidity rate zero, so a reserve that is lent out looks unused to `_checkNoLiquidity` |
| `ExpectedComments.cfg` | `LoansAsExpected` | a second variable borrower is expected to owe the whole reserve's scaled debt: the expectation starts from `reserveDataBeforeAction` instead of the user's data (`calculations.ts:634`) |
| | `BalanceEarnsInterest`, `DepositKeepsPrincipal` | `balanceOf` is scaled; the harness expects another principal after a deposit |
| `WalletComments.cfg` | `DisconnectSticks` | a `connectWallet` in flight connects the page after the user has disconnected (`WalletContext.tsx:110`) |
| | `SavedWasConnected` | an account change saves the address also on a page that was never connected (`WalletContext.tsx:116`) |
| | `AccountInfoIsYours` | after an account change during `connectWallet` the page shows one account and loads the information of another |
| | `LateAnswersAreDropped` | the answer for an earlier account arrives last and stays |
| | `ConnectLoadsAccountInfo` | `connectWallet` calls the `refreshAccountInfo` of a render that was not connected, which returns at once |
| `ActionsComments.cfg` | `AmountInTokenUnits`, `ApprovedBeforehand` | a failed `decimals()` changes the unit of what is sent; another account may be asked for the second call than for the first |
| `ModalComments.cfg` | `MaxIsOfThisDialog`, `DialogMatchesTable` | the maximum of an earlier opening arrives last; an open dialog keeps the market data of its opening |
| `RegistryExpected.cfg` | `ExpectedIsDeployed` | two scripts announce the same address; the repository's `deployments/nowait-deployment.json` and `registry-deployment.json` have the same expected address and nonce 1711 with two transactions |
| `DeploymentComments.cfg` | `SetupConnects` | a fresh oracle answers `getAdapter()` with the zero address, which the setup script takes for an adapter that is there |
| | `DoneIsReady` | after a forgotten transaction the saved address has no code, every call on it succeeds, and the deployment reports success |
| `DeploymentRepeat.cfg` | `RepeatReturnsAdmin` | repeating `configureReservesByHelper` after a death finds nothing to configure and does not give the admin role back |

## 4. Mutants

Each property of each passing run is paired in `PROJECT.json` with a plausible bug in a
mapped definition (`..._stale`, `..._before`, `..._strict`, and so on, defined before
the original) that makes TLC find it violated, for instance a borrowing flag cleared on a scaled balance,
an index that is replaced instead of multiplied, a liquidation without close factor, a premium
shared among the cash, or a helper that keeps the admin role.

## 5. Theorems

Checked by TLAPS with SMT (Z3), Zenon and, for the temporal steps, LS4. No statement is
left without a proof. The assumptions are the named `ASSUME`s of the modules: `RAY` is positive and even,
the other scales positive, the treasury is not a user, strategies and
configurations are well typed (`optimal` in `1..RAY`, `unit` positive), the close factor at
most 100 %; users are finitely many at any time, and so are reserves (the pool's limit is 128); the gateway
and, in revisions 3 and 4, the elToken contract are accounts, and the gateway is a contract that itself calls the pool only from
its own functions, approves no delegation and has no `executeOperation` (`GatewayCallsNobody`; others may name
it as they like); loans and the administrators' choices are well typed; the fallback for unreadable decimals is the
token's unit or too large for any amount; the bound on undelivered events is a number; the dialog's
"no action" is not an action; a market has reserves, and no rate strategy is saved under the name of one of the
market's own contracts. All of them hold
for the deployed constants, and TLC evaluates them on every run. There is no assumption on the number of
users, reserves, calls, pages, accounts, events, scripts, repetitions or deaths, and none on the revision except where the table
names it.

| theorem | states | besides the assumptions |
|---|---|---|
| **`LendingPoolProofs`**, the pool alone | | |
| `TypeCorrect` | `Spec => []TypeOK` | |
| `EveryDebtIsFlagged` | `Spec => []DebtIsFlagged` | |
| `SuppliesStaySums` | `Spec => []SuppliesAreSums` | |
| `UpdateNeverReverts` | `Spec => []AccrualNeverReverts` | |
| `IndexesOnlyRise` | `Spec => IndexesNeverFall` | |
| `HealthyAreUntouched` | `Spec => HealthyIsUntouchable` | |
| `RepayingAllClears` | `=> RepayAllClears` | H1 |
| `RepayingAllIsPossible` | `=> []RepayAllPossible` | H1, H2, H3, factors at most 100 % |
| `RebalancingKeepsDebt` | `=> RebalanceKeepsDebt` | H2, `REVISION # 2` |
| `WealthIsConserved` | `=> WealthConserved` | H2, `REVISION # 2` |
| `LiquidationsAreBounded` | `=> LiquidationIsBounded` | H2 |
| **`LendingPoolProofs`**, the administered pool | | |
| `AdministeredTypeCorrect`, `AdministeredDebtIsFlagged`, `AdministeredSuppliesStaySums`, `AdministeredUpdateNeverReverts` | the same invariants of `AdministeredSpec`: `TransactionsTypeOK`, `DebtIsFlagged`, `SuppliesAreSums`, `AccrualNeverReverts` | |
| `AdministeredIndexesOnlyRise` | `AdministeredSpec => IndexesNeverFall` | |
| `AdministeredRepayingAllClears` | `=> RepayAllClears` | H1 |
| `AdministeredRebalancingKeepsDebt` | `=> RebalanceKeepsDebt` | H2, `REVISION # 2` |
| `AdministeredLiquidationsAreBounded` | `=> LiquidationIsBounded` | H2 |
| `GatewayEmpties` | `=> GatewayKeepsNothing` | H4 |
| `FlashLoansStayBacked` | `=> FlashLoansAreBacked` | H5, `REVISION = 2` |
| **`CheckedMathProofs`** | | |
| `GuardsAreExact`, `AlwaysRoundsHalfUp`, `ScaledBalanceAlwaysSurvives` | `GuardsExact`, `RoundsHalfUp`, `ScaledBalanceSurvives` are invariants, for words of any width | |
| `AlwaysUndercharges` | `CompoundingUndercharges` is an invariant, for every `RAY`, rate and period within the bounds | |
| **`ReserveLogicProofs`** | | |
| `ScaledRoundTrip` | `rayDiv(rayMul(s, i), i) = s` for every `i >= RAY` | |
| `CompoundedInterestMonotone` | compounded interest does not decrease with time | |
| `RayMulMonotone`, `RayMulGrows` | order and growth of products | |
| **`LendingServiceProofs`** | | |
| `TypeCorrect`, `PullsTheTyped`, `SuccessIsDone` | `TypeOK`, `PullsWhatWasAsked`, `SuccessMeansDone` are invariants | |
| **`WalletContextProofs`** | | |
| `TypeCorrect`, `SavesWhatItShows`, `ConnectsOnTestnet` | `TypeOK`, `SavedIsAddress`, `ConnectedOnTestnet` are invariants | |
| **`ActionModalProofs`** | | |
| `TypeCorrect`, `OnlyOneRuns` | `TypeOK`, `OneAtATime` are invariants | |
| **`RegistryScriptsProofs`** | | |
| `TypeCorrect`, `ConfirmsTheDeployed`, `AloneExpectsRight` | `TypeOK`, `ConfirmedIsDeployed`, `ExpectedWhenAlone` are invariants | |
| **`MarketDeploymentProofs`** | | |
| `CallsAreOrderly` | `Spec => []IInv` | |
| `InitializedIsReady` | `Spec => [](losses = 0 => DoneMeansReady)` | |
| `AdminIsLent`, `OracleIsLent` | the safety part of `LentRights` under the two refinement mappings: `Spec => AdminRights!Init /\ [][AdminRights!Next]_(AdminRights!vars)` and the same of `OracleRights` | |

The hypotheses. H1 to H5 are state predicates; a theorem with one says `Spec /\ []H => ...`, so what it
promises holds for as long as the hypothesis does.

* **H1** `DebtsFitUint256`: a debt is at most `type(uint256).max`. The views that report debts
  return a `uint256`; beyond it every read would revert.
* **H2** `EarnsWhatItCharges`: a reserve whose stored liquidity rate is zero, and which has variable debt,
  does not compound that debt before its next update. `_updateIndexes` compounds only
  if the liquidity rate is positive, while the views always do. The two come apart with a factor of
  100 %, or when the liquidity rate of a barely used reserve rounds to zero; then what was shown as owed is
  never charged, and the theorems with H2 are not about that. TLC checked that H2
  is an invariant of the instance of `pool_stable`, and `RepayAllFactor.cfg` shows what happens without it.
* **H3** `RepaymentsFitUint128`: the rates after a full repayment fit the fields they are
  stored in. This is the one guard of `canRepay` that is assumed; the others are derived.
* **H4** `EtherFitsUint256`: no balance of wrapped ether reaches `type(uint256).max`, the amount that
  stands for "everything".
* **H5** `SuppliesBelowRays`: a reserve has at most `2 * RAY` scaled elTokens. The premium raises the liquidity
  index by a quotient that is rounded to one RAY; with more elTokens than that, half of the index's last unit
  is worth more than the rounding of two transfers, and a premium can be credited that was not paid. For a token of
  18 decimals the limit is two thousand million tokens, so it is a restriction that a large market could leave.
* The factor of at most 100 % is one the setters of the model may break, as
  `setReserveFactor` checks only the width of the field; `LendingPool` by itself has no setters.
* Revision 2 scales a rebalanced debt by a rate, see `RebalanceRevision2.cfg`.

### 5.1 The pool

`TypeOK` alone is not inductive: that `updateState` yields
natural numbers needs the reserve's clocks in order (else the gap between
two times is negative), that tokens can divide by an index needs the index to be at least
one RAY, that the treasury's share is not negative needs interest to be monotone, and that a burn leaves
a supply of at least zero needs supplies to be sums. Hence

    IInv == TypeOK /\ (\A a \in Assets : Sound(market[a], now)) /\ DebtIsFlagged
    Sound(m, t) == m \in Market /\ IndexesStarted(m) /\ ClocksOrdered(m, t) /\ SuppliesSummed(m)

`ReserveLogicProofs` has one lemma per function of a reserve: it preserves `Sound`,
and it frames what the function leaves alone (debts, indexes, cash). The frames come in
four kinds: `ElFrame` (elTokens, rates, cash), `VarFrame`, `StFrame` and `UpdateFrame`,
the last of which also says that the settled variable index is at most what the view
reported. `LendingPoolProofs` composes them, one lemma per call (`DepositStep`, ...,
`LiquidationStep`), into `IInv /\ [Next]_vars => IInv'`.

Sums over the users. `SumFunction` of the community module `Functions` is a fold, a recursion over subsets. The induction
theorems of the library cannot be instantiated here, but their premise can be used directly: `WFMin`,
with `FS_StrictSubsetOrderingWellFounded`, gives a smallest subset for which a claim fails, and the rest is one
step. `ReserveLogicProofs` shows in this way that the recursion has a solution (`PartialSums`, `Solves`),
then `SumChange` (changing one value changes the sum by as much), `SumAdds` and `SumInt`.

Two steps carry the weight of `DebtIsFlagged`:

* *repay* clears the flag when the payment equals both debts as read through the views
  before `updateState`. `RepayLeavesNothing` shows that nothing is left then:
  the burnt amount is `rayMul(s, view)` with `view >= stored`, so by monotonicity and
  `ScaledRoundTrip` the burn takes at least `s`, and by the token's guard at most `s`;
* *rebalance* and *swap* never set the flag. `RebalanceStep` shows that an account
  without stable debt cannot be rebalanced, in any revision, because zero cannot be minted.

`UpdateNeverReverts` rests on `AccruedNat`: the index only grows and the total stable
debt compounded to now is at least that compounded to the last update
(`CompoundedInterestMonotone`).

`HealthyAreUntouched`: for each call a lemma names the accounts that can lose elTokens
(`WithdrawTakesOwn`, `TransferTakesOwn`, `LiquidationTakesFromUser`; the others take from nobody, the treasury's
mint included). In a liquidation that account's health factor was below one.

`RepayingAllClears` and `RepayingAllIsPossible` follow the amount reported by the view through the accrual:
`BurnWhatIsOwed` (the burn at the new index leaves no scaled unit) and
`BurnAcceptsTheDebt` (the token's guard does not refuse it either, `ShownDebtIsStored`).

`WealthIsConserved`. A user's claim on a reserve is what the elTokens are worth less the debt, as the views show
them. `Shifts(m, r, t, x, d)` says that all claims together went up by `x`, up to `d`. Settling interest, setting rates and
moving cash shift nothing (`UpdateKeepsClaims`, `RatesKeepClaims`, `CashKeepsClaims`). A mint or burn
of `n` elTokens or variable debt shifts `n` up to one scaled unit read at the index plus one, stable debt shifts exactly, a
transfer shifts nothing up to 1. These rest on the rounding lemmas `MintRounds`, `BurnRounds` and `MoveRounds`.
`ShiftsAdd` composes them within a call, `PursesMove` says that the wallets move by the same amount the other way, and
`Roundings` that the bound at the old indexes is at most the one the property states at the new. A liquidation is a `CoveredShifts`
and a `BurntShifts` or `HandedShifts`, which `PartsConserve` puts together in two reserves or in one.
In the second case the reserve is settled twice in one block, and the second settling finds it up to date.

`LiquidationsAreBounded` uses the same lemmas for one user instead of their sum: `Pays` says by how much the debt shown
to the borrower went down and `Takes` what the elTokens taken are worth, each up to one scaled unit. What is left is
arithmetic of `liquidationAmounts`. In it every quotient is a product with a remainder (`SeizedIsWorth`): if the
collateral is enough, what is seized comes from the debt by one division, and if it runs out, the debt comes from the collateral by
divisions that round up and down, the last of them half up. That is why the bound allows one unit of value more on each side.

### 5.2 The fixed-point libraries

`GuardsExact` is case analysis on whether the wrapped product still divides back. `CompoundingUndercharges` compares three terms of a
binomial with a power. A power is a recursive function, and induction over its definition is not available; what is
is that a set of numbers that is not empty has a least element (`LeastNumber`), so a claim about all powers is refuted at
its first exception. In this way `PowersExist` and `PowersAre` give the power its equations. `TermsBelowPower` is
the mathematical core: with every period the exact power is multiplied by `RAY + rate`, the sum of the binomial's
terms by no more. `SecondTermRounds` and `ThirdTermRounds` account for what the two `rayMul` may round up, and
`Undercharges` puts the two together after multiplying all fractions out.

### 5.3 The administered pool

The users' calls, inside a flash loan or outside (`CallersCall`),
are steps of `LendingPool` and reuse the lemmas about the pool alone as they are, which are about steps and not
about the specification (`AllRepaidStep`, `RebalancedStep` and `LiquidationSteps` among them); what is new is one
lemma per step of a transaction and one for all setters. The invariant is

    UInv == IInv /\ TxTypeOK /\ CollectsWhenItMay

`TxTypeOK` types `tx` and the native balances, so that a step knows what the step before it
left. `CollectsWhenItMay` (only revisions 3 and 4 are ever about to collect elTokens) is needed
because the elToken contract has to be an account only in those revisions.
`CumulateSound` shows that the premium keeps the index at least one RAY. A kept loan
(`keepFlashLoan`) mints a debt for which the flag is set in the same step, also on another
account's credit. The setters touch neither tokens nor flags, and any factor and strategy
of the assumed types keeps `IInv`. The theorems start from `InitTransactions` (empty
reserves), so they cover the two deposits from which the run starts.

`GatewayEmpties` is about the steps of the gateway's calls: each adds to the gateway's holdings what the call carries from
there on, and takes out what it carried (`AddsNothing`). Withdrawing and repaying leave a debt of the gateway at
zero, but a debt it had would not stay so; that it has none is an invariant, `OwesNothing`: a debt needs the debtor's call or
credit, the gateway borrows only for others, and nobody has its credit (`Undelegated`, `LendsNothing`). Everything
else is open to the users: to deposit for the gateway, withdraw or transfer to it, repay for it.

`FlashLoansStayBacked` is about the last step of a loan: `RepaidIsBacked` when the money comes back, `KeptIsBacked` when it
becomes a debt. `coverage` is cash and debt less the elTokens as the views show them; since it is a user's claims that
`ReserveLogicProofs` sums, `DebtsMirror` reads the debts as the claims of users without elTokens, so that the mint of the kept debt
is a `Shifts`. What the elTokens gain through `cumulateToLiquidityIndex` is bounded by `PremiumRounds`, which is where H5 is used. Nothing
is claimed of the steps before: the receiver may have made any of `LendingPool`'s calls in the same reserve. In the
pool alone `WealthIsConserved` says that each of these conserves the value of all.

### 5.4 The interface and the scripts

* `LendingServiceProofs`. `PullsWhatWasAsked` is not inductive by itself: it needs that approvals, pending ones included,
  carry properly formatted amounts (`JobsProper`, `TransactionsProper`) and hence that no allowance is enough for
  an amount formatted with the fallback (`AllowancesProper`), so that such a deposit is refused. `SuccessMeansDone` needs that
  an action has at most one transaction of its kind, pending or mined (`SentOnce`).
* `WalletContextProofs`. Both invariants are false in the middle of `connectWallet`; the strengthening says where that call is when
  they are (`SavedWhenSettled`, `TestnetWhenSettled`), which account it carries, and that a page that is not mounted shows nothing.
* `ActionModalProofs`. That one action at most is running follows from the dialog being busy while one runs (`BusyWhileRunning`):
  closing and opening the dialog does not reset `isActionLoading`, only the end of the action does.
* `RegistryScriptsProofs`. The chain is extended and never rewritten (`Extended`), an execution's name and place agree
  (`Named`, `Waiting`), and what it announced was mined (`Deployed`) or is what it foretold from a nonce that nobody else used since
  (`Foretold`, `Undisturbed`).

### 5.5 The deployment

The calls are sequences of steps, and the list of reserves is a constant, so the program that `MarketDeployment` runs is itself
unknown: `full:initialize-lending-pool` has two steps for each reserve that is listed, and before these three for each, or seven where a rate strategy is deployed. The first part of
`MarketDeploymentProofs` is about its shape. `FlattenSeq` is a recursive function, so `Flattened` argues over the
shortest prefix that fails. `InitializeCall` then says where the listing, `configureReservesByHelper` (at `block(c)`) and the
collateral manager are, and `Locations` that the steps the rights depend on are nowhere else.

The invariant treats the mined and the pending transactions as one sequence, of which `content(n)` is what the `n`-th
creates. It grows and keeps what it has (`Grows`), as long as nothing is forgotten:

    IInv == Typed /\ (losses = 0 => Orderly)

`Orderly` has these parts. `NamesWorkers`, `SavesWorkers`, `ReachesWorkers`: the JSON file names a helper by an address that
gets its code, and a message for one comes after the transaction that creates it. They are needed because a call of an address
without code succeeds and does nothing; then a wait would prove nothing. `LooksUp`: a call has found its helpers in the file before it
sends. `SentLast` and `Waits`: what a call waits for is the last transaction there is, so that nothing of an
earlier, dead call can be mined after it. `Works`, `Rates`: the reserves that are not configured are to do, and a pending
`returnAdmin` or `returnOracle` means that everything is done. `Lists`, `Administers`, `Managed`: how far initialisation is and what holds from there.

The core of `InitializedIsReady` is `Administers`. Initialisation reads the pool admin at its third step, and may read a helper that a dead
call has left in charge. It then gets through the listing only if a pending `returnAdmin` of that call was mined in between,
and that means that everything is configured and the routine is passed over. If it is not passed over, what was read is the deployer. That a
successful wait means an effect is `Acts`: none of the messages in question can meet an address without code.

`AdminIsLent` and `OracleIsLent` follow from `Works` and `Rates` by cases on the transaction that is mined (`AdminChanges`,
`OracleChanges`). With forgotten transactions they hold as well, since `LentRights` excuses those.

### 5.6 Only model-checked

* `CallsKeepHealth`. It is true of the deployed kind of constants and not of all that the assumptions admit: the average threshold that
  `balanceDecreaseAllowed` computes is rounded down, `wadDiv` rounds half up, and a position small enough can
  pass the check with a factor that is below one without the rounding. A theorem would need a bound on how small positions are.
* `OffMeansEmpty`. It infers an empty reserve from a liquidity rate of zero, so it needs that whoever owes something pays a rate
  that does not round to zero, which depends on the strategies' slopes.
* `FlashLoansAreBacked` in revisions 3 and 4, where it is violated (section 6).
* `HealthyIsUntouchable` and `WealthConserved` are about `LendingPool`'s own calls and are checked and proved for it. In the administered
  pool the gateway also takes its user's elTokens and a flash loan moves cash, by steps of their own.
* The three expectations of the test suite, which compare fractions.
* `DoneMeansReady` after the node has forgotten a transaction: there the property excuses addresses without code, and the run
  `deployment` is what shows that nothing else needs an excuse.
* Liveness (`SpinnersEnd`, `ActionsEnd`, `DialogUsableAgain`, `RunsEnd`, `AdminComesBack`, `OracleComesBack`), since the provers
  do not reason about `ENABLED`.

## 6. Where the code and its comments disagree

One disagreement is a run expected to end in a violation, with a short counterexample:
`withdraw_all`. `withdraw(type(uint256).max)` takes the scaled balance for an amount
of underlying, so it leaves part of the balance and clears the collateral flag
(`LendingPoolV4.sol:136`, `:156`). The others are the configurations of section 3.3.

## 7. Not modelled, and the plan

Not modelled, and why:

* data providers (views only), the incentives controller (an interface), vendored OpenZeppelin
  code and mocks, market data (constants);
* `initReserve`, the reserve list and upgrades of tokens: the pool starts from reserves that
  are set up, and no script of the repository adds one to a pool in use;
* the oracle's inside (updaters, staleness, fallback): from the pool any positive price may
  appear at any time, which covers whichever source answers;
* elToken allowances and `permit` (given), the gateway's `emergencyEtherTransfer` (`receive()` refuses ether from others, so only a self-destruct could leave any), plain transfers of
  the underlying between users, the proxies'
  delegation itself, the packing of the configuration into one word;
* of the interface: presentation, the landing page, the header, the asset detail pages, the rest
  of `web3.ts` (reads that are formatted), StrictMode's double mount, a browser without wallet, and
  transactions that the node forgets (the `registry` and `deployment` runs have those);
* of the deployment: verification, operations tasks, scripts that stop at their first step (section 2.4),
  `setup-reserves.js` (it needs the file of such a script, and calls an `initReserve` that does not exist),
  `deploy-web3.js` (its library is not a dependency), the data provider's own `initialize`;
* of the test harness: the story dispatcher, `mint`, `approve` and assertions on reverts.

What could come next:

1. `PriceOracle`: direct prices, feeds, staleness and fallback, with a price that is missing.
2. `initReserve` in the three revisions (revision 3 lacks `init`'s check), on top of `AdministeredPool`.
3. An abstract ledger (claims and debts as real amounts) that `LendingPool` implements up to
   rounding, by a refinement mapping.
4. Theorems: `CallsKeepHealth` (one lemma per call on the position over all reserves, from the shifts of
   section 5.1 taken per user, for positions above a least size), and `DoneMeansReady` after a forgotten transaction.
