--------------------------- MODULE MarketDeployment ---------------------------
(***************************************************************************)
(* How the library under helpers/ deploys a market: the calls of           *)
(* contracts-deployments, init-helpers and oracles-helpers that the task   *)
(* files make, on one account, with the JSON file that remembers addresses *)
(* and the chain; and the script that sets the price oracle up afterwards. *)
(* The operator makes the calls in their order and repeats some; the       *)
(* process may die in any of them.  A contract's address is the nonce of   *)
(* the transaction that creates it.                                        *)
(***************************************************************************)
EXTENDS Integers, SequencesExt

CONSTANTS Reserves,         \* ReservesConfig's symbols, in order
          strategyOf,       \* the name of each one's rate strategy
          MAX_REPEATS,      \* bound on repeated calls
          MAX_DEATHS,       \* bound on processes that die
          MAX_LOSSES        \* bound on losses of the pending transactions

ASSUME BoundsAssumption == {MAX_REPEATS, MAX_DEATHS, MAX_LOSSES} \subseteq Nat

NOBODY == -9                \* no address
DEPLOYER == 0
PROVIDER == -1              \* the LendingPoolAddressesProvider
POOL == -3                  \* the proxies
CONFIGURATOR == -4

Assets == ToSet(Reserves)

\* A market has reserves, and no strategy has the name of a contract of the market.
ASSUME ReservesAssumption ==
    /\ Reserves # <<>> /\ Reserves \in Seq(Assets)
    /\ \A r \in Assets :
         strategyOf[r] \notin {"StableAndVariableTokensHelper", "ELTokensAndRatesHelper",
                               "LendingPoolConfigurator", "LendingPoolConfiguratorImpl"}

-------------------------------------------------------------------------------
(***************************************************************************)
(* A call is a sequence of steps: create a contract, save the address that *)
(* was created last, wait for the last transaction, send a transaction,    *)
(* look a name up in the JSON file, read the chain.                        *)
(***************************************************************************)
step(what, name) == [do |-> what, name |-> name, assets |-> {}]
create(name) == step("create", name)
save(name) == step("save", name)
wait == step("wait", "")
send(name) == step("send", name)
need(name) == step("need", name)

\* contracts-deployments' withSaveAndVerify saves the address before it waits.
withSaveAndVerify(name) == <<create(name), save(name), wait>>

\* deployGenericLogic and deployValidationLogic call deployed() first.
withDeployed(name) == <<create(name), wait, save(name)>>

deployReserveLogicLibrary == withSaveAndVerify("ReserveLogic")
deployGenericLogic == withDeployed("GenericLogic")
deployValidationLogic == withDeployed("ValidationLogic")
deployElectroLibraries ==
    deployReserveLogicLibrary \o deployGenericLogic \o deployValidationLogic

\* full:deploy-address-provider-registry within add-market-to-registry.
deployLendingPoolAddressesProviderRegistry ==
    withSaveAndVerify("LendingPoolAddressesProviderRegistry")
addMarketToRegistry ==
    deployLendingPoolAddressesProviderRegistry \o
    <<need("LendingPoolAddressesProviderRegistry"), need("LendingPoolAddressesProvider"),
      send("registerAddressesProvider"), wait>>

\* The implementation's address is what "LendingPool" means until the proxy's is.
deployLendingPool ==
    deployElectroLibraries \o
    <<create("LendingPool"), save("LendingPoolImpl"), save("LendingPool"), wait>>
setLendingPool ==
    <<need("LendingPoolAddressesProvider")>> \o deployLendingPool \o
    <<send("initialize"), send("setLendingPoolImpl"), wait, step("proxy", "LendingPool")>>

deployLendingPoolConfigurator ==
    <<create("LendingPoolConfigurator"), save("LendingPoolConfiguratorImpl"),
      save("LendingPoolConfigurator"), wait>>
setConfigurator ==
    deployLendingPoolConfigurator \o
    <<send("setLendingPoolConfiguratorImpl"), wait, step("proxy", "LendingPoolConfigurator")>>

deployStableAndVariableTokensHelper == withSaveAndVerify("StableAndVariableTokensHelper")
deployELTokensAndRatesHelper == withSaveAndVerify("ELTokensAndRatesHelper")
initHelpers ==
    <<need("StableAndVariableTokensHelper"), send("initTokensHelper"), wait,
      need("ELTokensAndRatesHelper"), send("initRatesHelper"), wait>>
setHelpers ==
    deployStableAndVariableTokensHelper \o deployELTokensAndRatesHelper \o initHelpers

\* mutant: the ownership is asked back first
setInitialMarketRates_early ==
    <<need("StableAndVariableTokensHelper"), send("lendOracle"), wait,
      send("returnOracle"), wait, send("setOracleBorrowRates"), wait>>
\* setInitialMarketRatesInRatesOracleByHelper: the rates of all assets in one chunk.
setInitialMarketRates ==
    <<need("StableAndVariableTokensHelper"), send("lendOracle"), wait,
      send("setOracleBorrowRates"), wait, send("returnOracle"), wait>>

deployGenericELTokenImpl == withSaveAndVerify("ELToken")
deployGenericStableDebtToken == withSaveAndVerify("StableDebtToken")
deployGenericVariableDebtToken == withSaveAndVerify("VariableDebtToken")
\* All reserves have the implementation "ELToken".
deployELTokenImplementations ==
    deployGenericELTokenImpl \o deployGenericStableDebtToken \o deployGenericVariableDebtToken
deployElectroProtocolDataProvider == withSaveAndVerify("ElectroProtocolDataProvider")
deployWETHGateway == withSaveAndVerify("WETHGateway")
setImplementations ==
    deployElectroProtocolDataProvider \o deployELTokenImplementations \o deployWETHGateway

\* A strategy is deployed for the first reserve that uses it and saved twice.
deployDefaultReserveInterestRateStrategy ==
    withSaveAndVerify("DefaultReserveInterestRateStrategy")
deployRateStrategy(name) == deployDefaultReserveInterestRateStrategy \o <<save(name)>>
isFirst(i) == \A j \in 1..(i - 1) : strategyOf[Reserves[j]] # strategyOf[Reserves[i]]
prepareReserve(i) ==
    (IF isFirst(i) THEN deployRateStrategy(strategyOf[Reserves[i]]) ELSE <<>>) \o
    <<need("ELToken"), need("StableDebtToken"), need("VariableDebtToken")>>
batchInitReserve(r) == <<[send("batchInitReserve") EXCEPT !.assets = {r}], wait>>
initReservesByHelper ==
    <<need("LendingPoolAddressesProvider")>> \o
    FlattenSeq([i \in DOMAIN Reserves |-> prepareReserve(i)]) \o
    <<need("LendingPoolConfigurator")>> \o
    FlattenSeq([i \in DOMAIN Reserves |-> batchInitReserve(Reserves[i])])

\* "read" looks for reserves that are not enabled as collateral and, when there are
\* none, passes over the six steps after it.
\* mutant: the rights go back before the reserves are configured
configureReservesByHelper_early ==
    <<need("LendingPoolAddressesProvider"), need("ELTokensAndRatesHelper"), step("read", ""),
      send("lendAdmin"), wait, send("returnAdmin"), wait, send("configureReserves"), wait>>
\* mutant: the rights are left with the helper
configureReservesByHelper_keeps ==
    <<need("LendingPoolAddressesProvider"), need("ELTokensAndRatesHelper"), step("read", ""),
      send("lendAdmin"), wait, send("configureReserves"), wait, wait, wait>>
configureReservesByHelper ==
    <<need("LendingPoolAddressesProvider"), need("ELTokensAndRatesHelper"), step("read", ""),
      send("lendAdmin"), wait, send("configureReserves"), wait, send("returnAdmin"), wait>>

deployLendingPoolCollateralManager ==
    <<create("LendingPoolCollateralManager"), save("LendingPoolCollateralManagerImpl"),
      save("LendingPoolCollateralManager"), wait>>
deployWalletBalancerProvider == withSaveAndVerify("WalletBalanceProvider")
deployUiPoolDataProviderV2 == withSaveAndVerify("UiPoolDataProviderV2")
deployUiIncentiveDataProviderV2 == withSaveAndVerify("UiIncentiveDataProviderV2")
\* What the task does around the two routines; authorizeWETHGateway is not waited for.
initialize ==
    <<need("LendingPoolAddressesProvider"), need("ElectroProtocolDataProvider"),
      step("admin", "")>> \o
    initReservesByHelper \o configureReservesByHelper \o
    deployLendingPoolCollateralManager \o
    <<send("setLendingPoolCollateralManager"), wait, need("ElectroProtocolDataProvider"),
      send("setAddress"), wait>> \o
    deployWalletBalancerProvider \o deployUiPoolDataProviderV2 \o
    deployUiIncentiveDataProviderV2 \o
    <<need("WETHGateway"), send("authorizeLendingPool")>>

\* "oracle" passes over the next four steps when the provider has a price oracle,
\* "adapter" over the next four when the oracle answers getAdapter().  The prices that the
\* script then tries to give to the feed are left out: no other contract changes.
setupOracle ==
    <<need("LendingPoolAddressesProvider"), step("oracle", ""),
      create("ElectroOracle"), wait, send("setPriceOracle"), wait,
      step("adapter", ""),
      create("SimplePriceFeedAdapter"), wait, send("initializeOracle"), wait,
      send("setAssetSymbols"), wait>>

\* The calls in the order of the tasks; the last repeats a part of "initialize" alone.
Program == <<addMarketToRegistry, setLendingPool, setConfigurator, setHelpers,
             setInitialMarketRates, setImplementations, initialize, setupOracle,
             <<need("ElectroProtocolDataProvider")>> \o configureReservesByHelper>>
INITIALIZE == 7
SETUP_ORACLE == 8
Names ==
    {"LendingPoolAddressesProvider"} \cup
    {s.name : s \in {t \in UNION {ToSet(Program[c]) : c \in DOMAIN Program} :
                       t.do \in {"save", "need", "proxy"}}}

-------------------------------------------------------------------------------
VARIABLES chain,            \* what the contracts hold
          pool,             \* the transactions sent and not yet mined, in order
          db,               \* deployed-contracts.json
          call,             \* the running call
          reached,          \* the number of calls made in order
          repeats, deaths, losses,
          orphaned          \* rights that a dead call had lent and not sent back

vars == <<chain, pool, db, call, reached, repeats, deaths, losses, orphaned>>

Idle == [number |-> 0, pc |-> 1, address |-> NOBODY, sent |-> 0, admin |-> DEPLOYER,
         oracle |-> NOBODY, todo |-> {}, at |-> "done"]

\* code: what each transaction created; failed: those that reverted; configurator:
\* whether its proxy exists and knew the pool when it was initialised; ready: the
\* initialised helpers with the configurator they were given; adapters: those of the
\* price oracles; named: the adapters that were told the assets' symbols.
Init ==
    /\ chain = [code |-> <<>>, failed |-> {}, isPool |-> FALSE, configurator |-> "none",
                ready |-> {}, admin |-> DEPLOYER, oracleOwner |-> DEPLOYER, rated |-> {},
                listed |-> {}, configured |-> {}, manager |-> NOBODY, data |-> NOBODY,
                priceOracle |-> NOBODY, adapters |-> {}, named |-> {}]
    /\ pool = <<>> /\ reached = 0 /\ repeats = 0 /\ deaths = 0 /\ losses = 0
    /\ db = [n \in Names |-> IF n = "LendingPoolAddressesProvider" THEN PROVIDER ELSE NOBODY]
    /\ call = Idle
    /\ orphaned = {}

Alive == call.at = "running"
steps == Program[call.number]
current == steps[call.pc]
Doing(what) == Alive /\ call.pc <= Len(steps) /\ current.do = what
advance(n) == [call EXCEPT !.pc = @ + n]

\* The call dies: what it has lent stays lent unless the return is on its way.
lends == [admin |-> "lendAdmin", oracle |-> "lendOracle"]
returns == [admin |-> "returnAdmin", oracle |-> "returnOracle"]
holding ==
    {right \in DOMAIN lends :
       /\ \E i \in 1..(call.pc - 1) : steps[i].name = lends[right]
       /\ \E i \in call.pc..Len(steps) : steps[i].name = returns[right]}
Dies ==
    /\ call' = [call EXCEPT !.at = "dead"]
    /\ orphaned' = orphaned \cup holding
    /\ UNCHANGED <<chain, pool, db, reached, repeats, losses>>

-------------------------------------------------------------------------------
(***************************************************************************)
(* The chain: which transactions succeed, and what those do.               *)
(***************************************************************************)
codeAt(st, address) == IF address \in 1..Len(st.code) THEN st.code[address] ELSE ""

\* A call of an address without code succeeds and does nothing.
isVoid(st, tx) ==
    \/ tx.op = "create"
    \/ tx.to \notin {PROVIDER, POOL, CONFIGURATOR} /\ codeAt(st, tx.to) = ""

\* _updateImpl: the second implementation has the same revision, so its initialize
\* reverts.  A configurator that is initialised before there is a pool never gets one.
allowed(st, tx) ==
    \/ isVoid(st, tx)
    \/ tx.op \in {"initialize", "lendAdmin", "returnAdmin", "setAddress", "setPriceOracle",
                  "setLendingPoolCollateralManager"}
    \/ /\ tx.op = "initializeOracle" /\ codeAt(st, tx.to) = "ElectroOracle"
       /\ \A held \in st.adapters : held.oracle # tx.to
    \/ tx.op = "setAssetSymbols" /\ codeAt(st, tx.to) = "SimplePriceFeedAdapter"
    \/ /\ tx.op = "setLendingPoolImpl"
       /\ ~st.isPool /\ codeAt(st, tx.with[1]) = "LendingPool"
    \/ /\ tx.op = "setLendingPoolConfiguratorImpl"
       /\ st.configurator = "none" /\ codeAt(st, tx.with[1]) = "LendingPoolConfigurator"
    \/ /\ \/ tx.op = "initTokensHelper" /\ codeAt(st, tx.to) = "StableAndVariableTokensHelper"
          \/ tx.op = "initRatesHelper" /\ codeAt(st, tx.to) = "ELTokensAndRatesHelper"
       /\ \A h \in st.ready : h.helper # tx.to
    \/ tx.op = "lendOracle" /\ st.oracleOwner = DEPLOYER
    \/ /\ tx.op \in {"setOracleBorrowRates", "returnOracle"}
       /\ st.oracleOwner = tx.to
       /\ codeAt(st, tx.to) = "StableAndVariableTokensHelper"
    \/ /\ tx.op = "batchInitReserve" /\ tx.to = CONFIGURATOR
       /\ st.configurator = "pool" /\ st.admin = DEPLOYER
       /\ tx.assets \cap st.listed = {}
       /\ [i \in 1..3 |-> codeAt(st, tx.with[i])] =
            <<"ELToken", "StableDebtToken", "VariableDebtToken">>
    \/ /\ tx.op = "configureReserves"
       /\ codeAt(st, tx.to) = "ELTokensAndRatesHelper"
       /\ st.configurator = "pool" /\ st.admin = tx.to
       /\ [helper |-> tx.to, configurator |-> CONFIGURATOR] \in st.ready
    \/ /\ tx.op = "registerAddressesProvider"
       /\ codeAt(st, tx.to) = "LendingPoolAddressesProviderRegistry"
    \/ tx.op = "authorizeLendingPool" /\ codeAt(st, tx.to) = "WETHGateway"

effect(st, tx) ==
    IF isVoid(st, tx) THEN st ELSE
    CASE tx.op = "setLendingPoolImpl" -> [st EXCEPT !.isPool = TRUE]
      [] tx.op = "setLendingPoolConfiguratorImpl" ->
           [st EXCEPT !.configurator = IF st.isPool THEN "pool" ELSE "poolless"]
      [] tx.op \in {"initTokensHelper", "initRatesHelper"} ->
           [st EXCEPT !.ready = @ \cup {[helper |-> tx.to, configurator |-> tx.with[1]]}]
      [] tx.op \in {"lendAdmin", "returnAdmin"} -> [st EXCEPT !.admin = tx.with[1]]
      [] tx.op \in {"lendOracle", "returnOracle"} -> [st EXCEPT !.oracleOwner = tx.with[1]]
      [] tx.op = "setOracleBorrowRates" -> [st EXCEPT !.rated = @ \cup tx.assets]
      [] tx.op = "batchInitReserve" -> [st EXCEPT !.listed = @ \cup tx.assets]
      [] tx.op = "configureReserves" -> [st EXCEPT !.configured = @ \cup tx.assets]
      [] tx.op = "setLendingPoolCollateralManager" -> [st EXCEPT !.manager = tx.with[1]]
      [] tx.op = "setAddress" -> [st EXCEPT !.data = tx.with[1]]
      [] tx.op = "setPriceOracle" -> [st EXCEPT !.priceOracle = tx.with[1]]
      [] tx.op = "initializeOracle" ->
           [st EXCEPT !.adapters = @ \cup {[oracle |-> tx.to, adapter |-> tx.with[1]]}]
      [] tx.op = "setAssetSymbols" -> [st EXCEPT !.named = @ \cup {tx.to}]
      [] OTHER -> st

mined(st, tx) ==
    LET ok == allowed(st, tx)
    IN  [(IF ok THEN effect(st, tx) ELSE st) EXCEPT
           !.code = Append(@, IF tx.op = "create" THEN tx.name ELSE ""),
           !.failed = IF ok THEN @ ELSE @ \cup {Len(st.code) + 1}]

\* eth_estimateGas simulates a transaction on the mined or on the pending state.
estimates == {chain, FoldLeft(mined, chain, pool)}
pendingNonce == Len(chain.code) + Len(pool) + 1

Mine ==
    /\ pool # <<>>
    /\ chain' = mined(chain, Head(pool)) /\ pool' = Tail(pool)
    /\ UNCHANGED <<db, call, reached, repeats, deaths, losses, orphaned>>

\* The node forgets what is pending; a call that waits for it waits for ever.
Lose ==
    /\ pool # <<>> /\ losses < MAX_LOSSES /\ losses' = losses + 1
    /\ pool' = <<>>
    /\ UNCHANGED <<chain, db, call, reached, repeats, deaths, orphaned>>

-------------------------------------------------------------------------------
\* The getters: an address of the JSON file, or an error.
recipient ==
    [registerAddressesProvider |-> "LendingPoolAddressesProviderRegistry",
     batchInitReserve |-> "LendingPoolConfigurator",
     initTokensHelper |-> "StableAndVariableTokensHelper",
     setOracleBorrowRates |-> "StableAndVariableTokensHelper",
     returnOracle |-> "StableAndVariableTokensHelper",
     initRatesHelper |-> "ELTokensAndRatesHelper",
     configureReserves |-> "ELTokensAndRatesHelper",
     authorizeLendingPool |-> "WETHGateway"]

arguments(op) ==
    CASE op \in {"setLendingPoolImpl", "setLendingPoolConfiguratorImpl",
                 "setLendingPoolCollateralManager", "setPriceOracle", "initializeOracle"} ->
           <<call.address>>
      [] op = "batchInitReserve" ->
           <<db["ELToken"], db["StableDebtToken"], db["VariableDebtToken"]>>
      [] op = "lendAdmin" -> <<db["ELTokensAndRatesHelper"]>>
      [] op = "returnAdmin" -> <<call.admin>>
      [] op = "lendOracle" -> <<db["StableAndVariableTokensHelper"]>>
      [] op = "returnOracle" -> <<DEPLOYER>>
      [] op \in {"initTokensHelper", "initRatesHelper"} ->
           <<IF chain.configurator = "none" THEN NOBODY ELSE CONFIGURATOR>>
      [] op = "setAddress" -> <<db["ElectroProtocolDataProvider"]>>
      [] OTHER -> <<>>

transaction ==
    [op |-> current.name,
     to |-> CASE current.name \in DOMAIN recipient -> db[recipient[current.name]]
              [] current.name = "initializeOracle" -> call.oracle
              [] current.name = "setAssetSymbols" -> call.address
              [] OTHER -> PROVIDER,
     with |-> arguments(current.name),
     assets |-> CASE current.name = "configureReserves" -> call.todo
                  [] current.name = "setOracleBorrowRates" -> Assets
                  [] OTHER -> current.assets]

\* The operator makes the next call, also when the last one died, or repeats one.
Start(number) ==
    /\ ~Alive
    /\ \/ number = reached + 1 /\ reached' = number /\ UNCHANGED repeats
       \/ number <= reached /\ repeats < MAX_REPEATS
          /\ repeats' = repeats + 1 /\ UNCHANGED reached
    /\ call' = [Idle EXCEPT !.number = number, !.at = "running"]
    /\ UNCHANGED <<chain, pool, db, deaths, losses, orphaned>>

\* factory.deploy() fulfils when the node has the transaction.
Create ==
    /\ Doing("create")
    /\ pool' = Append(pool, [op |-> "create", name |-> current.name, to |-> NOBODY])
    /\ call' = [advance(1) EXCEPT !.address = pendingNonce, !.sent = pendingNonce]
    /\ UNCHANGED <<chain, db, reached, repeats, deaths, losses, orphaned>>

\* registerContractInJsonDb, insertContractAddressInDb, rawInsertContractAddressInDb.
Save ==
    /\ Doing("save")
    /\ db' = [db EXCEPT ![current.name] = call.address] /\ call' = advance(1)
    /\ UNCHANGED <<chain, pool, reached, repeats, deaths, losses, orphaned>>

\* The address that the provider has for the proxy.
SaveProxy ==
    /\ Doing("proxy")
    /\ db' = [db EXCEPT ![current.name] = IF current.name = "LendingPool"
                                           THEN POOL ELSE CONFIGURATOR]
    /\ call' = advance(1)
    /\ UNCHANGED <<chain, pool, reached, repeats, deaths, losses, orphaned>>

\* waitForTx and deployed(); tx.wait throws when the transaction has reverted.
Waited ==
    /\ Doing("wait") /\ call.sent <= Len(chain.code)
    /\ call.sent \notin chain.failed /\ call' = advance(1)
    /\ UNCHANGED <<chain, pool, db, reached, repeats, deaths, losses, orphaned>>
Reverted ==
    /\ Doing("wait") /\ call.sent \in chain.failed
    /\ Dies /\ UNCHANGED deaths

Sent ==
    /\ Doing("send") /\ \E st \in estimates : allowed(st, transaction)
    /\ pool' = Append(pool, transaction) /\ call' = [advance(1) EXCEPT !.sent = pendingNonce]
    /\ UNCHANGED <<chain, db, reached, repeats, deaths, losses, orphaned>>
Refused ==
    /\ Doing("send") /\ \E st \in estimates : ~allowed(st, transaction)
    /\ Dies /\ UNCHANGED deaths

Need ==
    /\ Doing("need") /\ db[current.name] # NOBODY /\ call' = advance(1)
    /\ UNCHANGED <<chain, pool, db, reached, repeats, deaths, losses, orphaned>>
Missing ==
    /\ Doing("need") /\ db[current.name] = NOBODY
    /\ Dies /\ UNCHANGED deaths

\* addressesProvider.getPoolAdmin().
ReadAdmin ==
    /\ Doing("admin") /\ call' = [advance(1) EXCEPT !.admin = chain.admin]
    /\ UNCHANGED <<chain, pool, db, reached, repeats, deaths, losses, orphaned>>

\* getReserveConfigurationData of every reserve, through the data provider and the pool.
readable ==
    chain.isPool /\ codeAt(chain, db["ElectroProtocolDataProvider"]) = "ElectroProtocolDataProvider"
ReadReserves ==
    /\ Doing("read") /\ readable
    /\ LET todo == Assets \ chain.configured
       IN  call' = [advance(IF todo = {} THEN 7 ELSE 1) EXCEPT !.todo = todo]
    /\ UNCHANGED <<chain, pool, db, reached, repeats, deaths, losses, orphaned>>
Unreadable ==
    /\ Doing("read") /\ ~readable
    /\ Dies /\ UNCHANGED deaths

\* addressesProvider.getPriceOracle(): a contract of its own, or the one that is there.
ReadOracle ==
    /\ Doing("oracle")
    /\ call' = IF chain.priceOracle = NOBODY THEN advance(1)
               ELSE [advance(5) EXCEPT !.address = chain.priceOracle]
    /\ UNCHANGED <<chain, pool, db, reached, repeats, deaths, losses, orphaned>>

\* electroOracle.getAdapter(): an oracle that was never initialised answers the zero
\* address.  Any error of the call is taken for a missing adapter; a failing node counts
\* as in Die.
adapterOf(oracle) ==
    {held.adapter : held \in {h \in chain.adapters : h.oracle = oracle}}
ReadAdapter ==
    /\ Doing("adapter")
    /\ LET fails    == codeAt(chain, call.address) # "ElectroOracle"
           adapters == adapterOf(call.address)
       IN  \/ /\ fails \/ deaths < MAX_DEATHS
              /\ deaths' = IF fails THEN deaths ELSE deaths + 1
              /\ call' = [advance(1) EXCEPT !.oracle = call.address]
           \/ /\ ~fails /\ UNCHANGED deaths
              /\ \E adapter \in IF adapters = {} THEN {NOBODY} ELSE adapters :
                   call' = [advance(5) EXCEPT !.oracle = call.address, !.address = adapter]
    /\ UNCHANGED <<chain, pool, db, reached, repeats, losses, orphaned>>

Finish ==
    /\ Alive /\ call.pc > Len(steps)
    /\ call' = [call EXCEPT !.at = "done"]
    /\ UNCHANGED <<chain, pool, db, reached, repeats, deaths, losses, orphaned>>

\* The process is killed, or a call of the node fails.
Die ==
    /\ Alive /\ deaths < MAX_DEATHS /\ deaths' = deaths + 1
    /\ Dies

Proceed ==
    \/ Create \/ Save \/ SaveProxy \/ Waited \/ Reverted \/ Sent \/ Refused
    \/ Need \/ Missing \/ ReadAdmin \/ ReadReserves \/ Unreadable
    \/ ReadOracle \/ ReadAdapter \/ Finish
Next ==
    \/ \E number \in DOMAIN Program : Start(number)
    \/ Proceed \/ Mine \/ Lose \/ Die

\* A running call goes on and the chain goes on; nobody has to make a call.
Fairness == WF_vars(Proceed) /\ WF_vars(Mine)
Spec == Init /\ [][Next]_vars /\ Fairness

-------------------------------------------------------------------------------
TypeOK ==
    /\ chain.listed \cup chain.configured \cup chain.rated \subseteq Assets
    /\ chain.failed \subseteq 1..Len(chain.code)
    /\ \A n \in Names : db[n] > 0 \/ db[n] \in {NOBODY, PROVIDER, POOL, CONFIGURATOR}
    /\ reached \in 0..Len(Program) /\ orphaned \subseteq DOMAIN lends

\* configureReservesByHelper makes a helper the pool admin, configures the reserves
\* and makes the deployer the admin again ("Set lTokenAndRatesDeployer as temporal
\* admin", "Set deployer back as admin"): an implementation of LentRights.  It is
\* excused when it died in between or the node forgot a transaction.
AdminRights ==
    INSTANCE LentRights WITH
       Jobs <- Assets, done <- chain.configured,
       holder <- IF chain.admin = DEPLOYER THEN "owner" ELSE "helper",
       orphaned <- "admin" \in orphaned \/ losses > 0
AdminComesBack == AdminRights!Spec

\* setInitialMarketRatesInRatesOracleByHelper does the same with the ownership of the
\* rate oracle ("Set back ownership").
OracleRights ==
    INSTANCE LentRights WITH
       Jobs <- Assets, done <- chain.rated,
       holder <- IF chain.oracleOwner = DEPLOYER THEN "owner" ELSE "helper",
       orphaned <- "oracle" \in orphaned \/ losses > 0
OracleComesBack == OracleRights!Spec

\* When full:initialize-lending-pool ends without an error, every reserve is listed
\* and configured, the deployer is the pool admin and the provider knows the
\* collateral manager, whatever died or was repeated before; unless the JSON file has
\* an address that got no code, where every call succeeds and does nothing.
namesVoid ==
    \E n \in Names : db[n] \in 1..Len(chain.code) /\ codeAt(chain, db[n]) = ""
DoneMeansReady ==
    call.at = "done" /\ call.number = INITIALIZE /\ ~namesVoid
    => /\ chain.listed = Assets /\ chain.configured = Assets
       /\ chain.admin = DEPLOYER
       /\ codeAt(chain, chain.manager) = "LendingPoolCollateralManager"

\* The same without the exception.
DoneIsReady ==
    call.at = "done" /\ call.number = INITIALIZE =>
       chain.listed = Assets /\ chain.configured = Assets

\* setup-electrolend-oracle.js "properly connects the ElectroOracle with the
\* SimplePriceFeed": when it ends without an error, the market's price oracle has an
\* adapter that knows the assets.
SetupConnects ==
    call.at = "done" /\ call.number = SETUP_ORACLE =>
       \E held \in chain.adapters :
          held.oracle = chain.priceOracle /\ held.adapter \in chain.named

\* A call of configureReservesByHelper that ends without an error leaves the deployer as
\* the pool admin, also when an earlier one has died.
RepeatReturnsAdmin ==
    call.at = "done" /\ call.number = Len(Program) => chain.admin = DEPLOYER
=============================================================================
