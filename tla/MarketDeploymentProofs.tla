------------------------ MODULE MarketDeploymentProofs ------------------------
(***************************************************************************)
(* Theorems about MarketDeployment, for every list of reserves and any     *)
(* number of repeated calls and of processes that die: the two rights that *)
(* the deployer lends to helper contracts come back only after the work is *)
(* done, step by step as LentRights says; and as long as the node forgets  *)
(* no transaction, an initialisation that ends without an error leaves a   *)
(* market that is ready.                                                   *)
(*                                                                         *)
(* The chain is a sequence of transactions, the mined ones and then the    *)
(* pending ones.  A call knows where in it the contracts are that it talks *)
(* to, and what it waits for is the last of them.                          *)
(***************************************************************************)
EXTENDS MarketDeployment, SequenceTheorems, NaturalsInduction, WellFoundedInduction, TLAPS

\* The parts of full:initialize-lending-pool: up to the reserves, the reserves, the
\* routine that configures them, the rest.
Prepares == FlattenSeq([i \in DOMAIN Reserves |-> prepareReserve(i)])
Opening ==
    <<need("LendingPoolAddressesProvider"), need("ElectroProtocolDataProvider"),
      step("admin", "")>>
Preparing ==
    <<need("LendingPoolAddressesProvider")>> \o Prepares \o <<need("LendingPoolConfigurator")>>
Lead == Opening \o Preparing
Batches == FlattenSeq([i \in DOMAIN Reserves |-> batchInitReserve(Reserves[i])])
Manager ==
    deployLendingPoolCollateralManager \o
    <<send("setLendingPoolCollateralManager"), wait, need("ElectroProtocolDataProvider"),
      send("setAddress"), wait>>
Providers ==
    deployWalletBalancerProvider \o deployUiPoolDataProviderV2 \o
    deployUiIncentiveDataProviderV2 \o
    <<need("WETHGateway"), send("authorizeLendingPool")>>

\* The calls that run configureReservesByHelper, and the step before it begins.
Configures == {INITIALIZE, 9}
listing == Len(Lead)
block(c) == IF c = INITIALIZE THEN listing + 2 * Len(Reserves) ELSE 1
Lends == 5                  \* the call that runs setInitialMarketRates

\* The running call is about to make this step of configureReservesByHelper.
InBlock(k) == Alive /\ call.number \in Configures /\ call.pc = block(call.number) + k

-------------------------------------------------------------------------------
(***************************************************************************)
(* The invariant.                                                          *)
(***************************************************************************)
\* The names that steps, messages and contracts have.
Contracts ==
    {"LendingPoolAddressesProvider", "LendingPoolAddressesProviderRegistry", "ReserveLogic",
     "GenericLogic", "ValidationLogic", "LendingPool", "LendingPoolImpl",
     "LendingPoolConfigurator", "LendingPoolConfiguratorImpl", "StableAndVariableTokensHelper",
     "ELTokensAndRatesHelper", "ELToken", "StableDebtToken", "VariableDebtToken",
     "ElectroProtocolDataProvider", "WETHGateway", "DefaultReserveInterestRateStrategy",
     "LendingPoolCollateralManager", "LendingPoolCollateralManagerImpl",
     "WalletBalanceProvider", "UiPoolDataProviderV2", "UiIncentiveDataProviderV2",
     "ElectroOracle", "SimplePriceFeedAdapter"}
Messages ==
    {"registerAddressesProvider", "initialize", "setLendingPoolImpl",
     "setLendingPoolConfiguratorImpl", "initTokensHelper", "initRatesHelper", "lendOracle",
     "setOracleBorrowRates", "returnOracle", "batchInitReserve", "lendAdmin",
     "configureReserves", "returnAdmin", "setLendingPoolCollateralManager", "setAddress",
     "authorizeLendingPool", "setPriceOracle", "initializeOracle", "setAssetSymbols"}
Strategies == {strategyOf[r] : r \in Assets}
Text == Contracts \cup Messages \cup Strategies \cup {""}
Step == [do: {"create", "save", "wait", "need", "proxy", "send", "read", "admin", "oracle",
              "adapter"},
         name: Text, assets: SUBSET Assets]

Creation == [op: {"create"}, name: Text, to: {NOBODY}]
Message == [op: Messages, to: Int, with: Seq(Int), assets: SUBSET Assets]

ChainOK(st) ==
    /\ st = [code |-> st.code, failed |-> st.failed, isPool |-> st.isPool,
             configurator |-> st.configurator, ready |-> st.ready, admin |-> st.admin,
             oracleOwner |-> st.oracleOwner, rated |-> st.rated, listed |-> st.listed,
             configured |-> st.configured, manager |-> st.manager, data |-> st.data,
             priceOracle |-> st.priceOracle, adapters |-> st.adapters, named |-> st.named]
    /\ st.code \in Seq(Text)
    /\ st.rated \in SUBSET Assets /\ st.listed \in SUBSET Assets
    /\ st.configured \in SUBSET Assets
    /\ st.admin \in Int /\ st.priceOracle \in Int
    /\ \A held \in st.adapters : held.adapter \in Int

\* What a pending message carries when its effect is read again.
Carries(tx) ==
    /\ tx.op \in {"lendAdmin", "returnAdmin", "setPriceOracle", "initializeOracle"}
         => tx.with[1] \in Int
    /\ tx.op \in {"lendAdmin", "returnAdmin", "setLendingPoolCollateralManager"}
         => tx.to = PROVIDER

Typed ==
    /\ ChainOK(chain)
    /\ pool \in Seq(Creation \cup Message)
    /\ \A i \in 1..Len(pool) : Carries(pool[i])
    /\ db \in [Names -> Int]
    /\ call \in [number: 0..Len(Program), pc: Nat \ {0}, address: Int, sent: Nat,
                 admin: Int, oracle: Int, todo: SUBSET Assets,
                 at: {"running", "dead", "done"}]
    /\ Alive => call.number # 0
    /\ losses \in Nat

\* What the n-th transaction creates, mined or pending.
last == Len(chain.code) + Len(pool)
content(n) ==
    IF n \in 1..Len(chain.code) THEN chain.code[n]
    ELSE IF n - Len(chain.code) \in 1..Len(pool) /\ pool[n - Len(chain.code)].op = "create"
         THEN pool[n - Len(chain.code)].name ELSE ""
Solid(a, name, n) == a \in 1..n /\ content(a) = name

\* The contracts that do the deployer's work, and what their names are saved for.
Workers == {"StableAndVariableTokensHelper", "ELTokensAndRatesHelper",
            "LendingPoolConfigurator", "LendingPoolConfiguratorImpl"}
made(name) ==
    IF name = "LendingPoolConfiguratorImpl" THEN "LendingPoolConfigurator" ELSE name

\* The JSON file names a worker by the address of one, or not at all.
NamesWorkers ==
    \A n \in Workers :
       \/ db[n] = NOBODY
       \/ db[n] = CONFIGURATOR /\ n = "LendingPoolConfigurator"
       \/ Solid(db[n], made(n), last)
SavesWorkers ==
    Alive /\ call.pc <= Len(steps) /\ current.do = "save" /\ current.name \in Workers
    => Solid(call.address, made(current.name), last)

\* So a message for a worker gets to one.
ReachesWorkers ==
    \A i \in 1..Len(pool) :
       LET before == Len(chain.code) + i - 1
       IN  /\ pool[i].op = "configureReserves"
                => Solid(pool[i].to, "ELTokensAndRatesHelper", before)
           /\ pool[i].op = "setOracleBorrowRates"
                => Solid(pool[i].to, "StableAndVariableTokensHelper", before)
           /\ pool[i].op = "batchInitReserve"
                => \/ pool[i].to = CONFIGURATOR
                   \/ Solid(pool[i].to, "LendingPoolConfigurator", before)
           /\ pool[i].op = "lendAdmin" => pool[i].with[1] # DEPLOYER

\* A call looks its workers up before it sends them anything.
LooksUp ==
    /\ \A k \in 3..9 : InBlock(k) => db["ELTokensAndRatesHelper"] # NOBODY
    /\ Alive /\ call.number = Lends /\ call.pc > 1
         => db["StableAndVariableTokensHelper"] # NOBODY
    /\ Alive /\ call.number = INITIALIZE /\ call.pc > listing /\ call.pc <= block(INITIALIZE)
         => db["LendingPoolConfigurator"] # NOBODY

\* What a call waits for is the last transaction there is.
SentLast == Alive /\ call.sent # 0 => call.sent = last
Waits(op) ==
    /\ call.sent = last /\ call.sent # 0
    /\ pool # <<>> => pool[Len(pool)].op = op
succeeded == pool = <<>> /\ call.sent \notin chain.failed

\* configureReservesByHelper: the reserves that are not configured are to do, and the
\* right is only returned when there are none.
Works ==
    /\ \A k \in 4..9 : InBlock(k) => Assets \ chain.configured \subseteq call.todo
    /\ InBlock(7) =>
         /\ Waits("configureReserves")
         /\ pool # <<>> => pool[Len(pool)].assets = call.todo
         /\ succeeded => call.todo \subseteq chain.configured
    /\ InBlock(8) \/ InBlock(9) => chain.configured = Assets
    /\ \A i \in 1..Len(pool) : pool[i].op = "returnAdmin" => chain.configured = Assets

\* setInitialMarketRatesInRatesOracleByHelper: the same for the rates.
Rates ==
    /\ Alive /\ call.number = Lends /\ call.pc = 5 =>
         /\ Waits("setOracleBorrowRates")
         /\ pool # <<>> => pool[Len(pool)].assets = Assets
         /\ succeeded => chain.rated = Assets
    /\ Alive /\ call.number = Lends /\ call.pc \in 6..7 => chain.rated = Assets
    /\ \A i \in 1..Len(pool) : pool[i].op = "returnOracle" => chain.rated = Assets

Initializes == call.number = INITIALIZE /\ call.at \in {"running", "done"}

\* The reserves that initialisation has passed are listed.
Lists ==
    /\ \A k \in 1..Len(Reserves) :
         /\ Initializes /\ call.pc > listing + 2 * k => Reserves[k] \in chain.listed
         /\ Initializes /\ call.pc = listing + 2 * k =>
              /\ Waits("batchInitReserve")
              /\ pool # <<>> => pool[Len(pool)].assets = {Reserves[k]}
              /\ succeeded => Reserves[k] \in chain.listed /\ chain.admin = DEPLOYER

\* Nobody moves the pool admin any more.
AdminStays ==
    /\ chain.admin = DEPLOYER
    /\ \A i \in 1..Len(pool) : pool[i].op \notin {"lendAdmin", "returnAdmin"}

\* The pool admin during initialisation.
Administers ==
    /\ Initializes /\ call.pc > 3 /\ chain.admin = DEPLOYER
         => call.admin = DEPLOYER \/ chain.configured = Assets
    /\ Initializes /\ call.pc > listing + 2 /\ call.pc <= block(INITIALIZE) + 4 => AdminStays
    /\ Initializes /\ call.pc \in (block(INITIALIZE) + 4)..(block(INITIALIZE) + 9)
         => call.admin = DEPLOYER
    /\ Initializes /\ call.pc = block(INITIALIZE) + 9 =>
         /\ Waits("returnAdmin")
         /\ pool # <<>> => pool[Len(pool)].with[1] = DEPLOYER
         /\ succeeded => chain.admin = DEPLOYER
    /\ Initializes /\ call.pc > block(INITIALIZE) + 9
         => AdminStays /\ chain.configured = Assets

\* The collateral manager: created, waited for, made known.
Managed ==
    LET e == block(INITIALIZE) + 9
        manager == "LendingPoolCollateralManager"
    IN  /\ Initializes /\ call.pc \in (e + 2)..(e + 6) => Solid(call.address, manager, last)
        /\ Initializes /\ call.pc \in (e + 2)..(e + 4) => call.sent = call.address
        /\ Initializes /\ call.pc \in (e + 5)..(e + 6)
             => Solid(call.address, manager, Len(chain.code))
        /\ Initializes /\ call.pc = e + 6 =>
             /\ Waits("setLendingPoolCollateralManager")
             /\ pool # <<>> => pool[Len(pool)].with[1] = call.address
             /\ succeeded => chain.manager = call.address
        /\ Initializes /\ call.pc > e + 6 =>
             /\ Solid(chain.manager, manager, Len(chain.code))
             /\ \A i \in 1..Len(pool) : pool[i].op # "setLendingPoolCollateralManager"

Orderly ==
    /\ NamesWorkers /\ SavesWorkers /\ ReachesWorkers /\ LooksUp /\ SentLast
    /\ Works /\ Rates /\ Lists /\ Administers /\ Managed
    /\ call.at = "done" /\ call.number # 0 => call.pc > Len(steps)

IInv == Typed /\ (losses = 0 => Orderly)

-------------------------------------------------------------------------------
(***************************************************************************)
(* The calls are sequences of steps.  Those of the reserves come from      *)
(* FlattenSeq, a recursive function; what is shown of it is an induction   *)
(* over the prefixes, carried out on the shortest that fails.              *)
(***************************************************************************)
\* A nonempty set of numbers has a least one.
LEMMA LeastNumber ==
    ASSUME NEW T, T \subseteq Nat, T # {}
    PROVE  \E n \in T : \A m \in T : n <= m
  <1> DEFINE Less == {p \in Nat \X Nat : p[1] < p[2]}
  <1>1. IsWellFoundedOn(Less, Nat)
    BY NatLessThanWellFounded, Zenon DEF OpToRel
  <1>2. PICK n \in T : \A m \in T : ~ (<<m, n>> \in Less)
    <2> HIDE DEF Less
    <2> QED BY <1>1, WFMin
  <1>3. ASSUME NEW m \in T
        PROVE  n <= m
    <2>1. n \in Nat /\ m \in Nat /\ <<m, n>> \in Nat \X Nat
      OBVIOUS
    <2>2. ~ (<<m, n>>[1] < <<m, n>>[2])
      BY <1>2, <2>1
    <2> QED BY <2>1, <2>2
  <1> QED BY <1>3

\* f joins the first n sequences of ss, one after the other.
Joins(f, ss, n, S) ==
    /\ f \in [1..n -> Seq(S)]
    /\ n >= 1 => f[1] = ss[1]
    /\ \A i \in 2..n : f[i] = f[i - 1] \o ss[i]

LEMMA JoinsExist ==
    ASSUME NEW S, NEW ss \in Seq(Seq(S)), NEW n \in 0..Len(ss)
    PROVE  \E f : Joins(f, ss, n, S)
  <1> DEFINE Bad == {k \in 0..Len(ss) : ~ \E f : Joins(f, ss, k, S)}
  <1>0. Len(ss) \in Nat /\ \A i \in 1..Len(ss) : ss[i] \in Seq(S)
    BY LenProperties, ElementOfSeq
  <1>1. ASSUME Bad # {}
        PROVE  FALSE
    <2>1. PICK k \in Bad : \A m \in Bad : k <= m
      <3>1. Bad \subseteq Nat
        BY <1>0
      <3> HIDE DEF Bad
      <3> QED BY <1>1, <3>1, LeastNumber
    <2>2. CASE k = 0
      <3>1. Joins([i \in 1..0 |-> <<>>], ss, 0, S)
        BY DEF Joins
      <3> QED BY <2>1, <2>2, <3>1
    <2>3. CASE k = 1
      <3>1. ss[1] \in Seq(S)
        BY <1>0, <2>1, <2>3
      <3>2. Joins([i \in 1..1 |-> ss[1]], ss, 1, S)
        BY <3>1 DEF Joins
      <3> QED BY <2>1, <2>3, <3>2
    <2>4. CASE k > 1
      <3>0. k \in Nat /\ k - 1 \in 0..Len(ss) /\ k \in 1..Len(ss) /\ ~ (k <= k - 1)
        BY <1>0, <2>1, <2>4
      <3>1. k \in Nat /\ k - 1 \in 0..Len(ss) /\ k - 1 \notin Bad /\ k \in 1..Len(ss)
        BY <2>1, <3>0
      <3>2. PICK f : Joins(f, ss, k - 1, S)
        BY <3>1
      <3> DEFINE s == f[k - 1] \o ss[k]
                 g == [i \in 1..k |-> IF i = k THEN s ELSE f[i]]
      <3>3. f \in [1..(k - 1) -> Seq(S)] /\ f[1] = ss[1]
        BY <2>4, <3>1, <3>2 DEF Joins
      <3>4. s \in Seq(S)
        <4>1. k - 1 \in 1..(k - 1)
          BY <2>4, <3>1
        <4>2. f[k - 1] \in Seq(S) /\ ss[k] \in Seq(S)
          BY <1>0, <3>1, <3>3, <4>1
        <4> QED BY <4>2, ConcatProperties
      <3>5. g \in [1..k -> Seq(S)]
        <4> HIDE DEF s
        <4>1. \A i \in 1..k : i = k \/ i \in 1..(k - 1)
          BY <3>1
        <4> QED BY <3>3, <3>4, <4>1
      <3>6. g[1] = ss[1]
        BY <2>4, <3>1, <3>3
      <3>7. ASSUME NEW i \in 2..k
            PROVE  g[i] = g[i - 1] \o ss[i]
        <4>1. i \in Int /\ i - 1 \in 1..k /\ i - 1 # k /\ i \in 1..k
          BY <3>1
        <4>2. g[i - 1] = f[i - 1]
          BY <4>1
        <4>3. CASE i = k
          BY <4>1, <4>2, <4>3
        <4>4. CASE i # k
          <5>1. i \in 2..(k - 1)
            BY <3>1, <4>1, <4>4
          <5> QED BY <3>2, <4>1, <4>2, <4>4, <5>1 DEF Joins
        <4> QED BY <4>3, <4>4
      <3> HIDE DEF g
      <3>8. Joins(g, ss, k, S)
        BY <3>5, <3>6, <3>7 DEF Joins
      <3> QED BY <2>1, <3>8
    <2>5. k \in Nat
      BY <1>0, <2>1
    <2> QED BY <2>2, <2>3, <2>4, <2>5
  <1> QED BY <1>1

LEMMA Flattened ==
    ASSUME NEW S, NEW ss \in Seq(Seq(S)), Len(ss) > 0
    PROVE  \E f : Joins(f, ss, Len(ss), S) /\ FlattenSeq(ss) = f[Len(ss)]
  <1> DEFINE n == Len(ss)
             Is(f) == f = [i \in 1..n |-> IF i = 1 THEN ss[i] ELSE f[i - 1] \o ss[i]]
             f == CHOOSE g : Is(g)
  <1>1. n \in Nat /\ n > 0 /\ \A i \in 1..n : ss[i] \in Seq(S)
    BY LenProperties, ElementOfSeq
  <1>2. Is(f)
    <2>1. PICK g : Joins(g, ss, n, S)
      BY <1>1, JoinsExist
    <2>2. g = [i \in 1..n |-> g[i]] /\ g[1] = ss[1]
      BY <1>1, <2>1 DEF Joins
    <2>3. ASSUME NEW i \in 1..n
          PROVE  g[i] = IF i = 1 THEN ss[i] ELSE g[i - 1] \o ss[i]
      <3>1. i # 1 => i \in 2..n
        BY <1>1
      <3> QED BY <2>1, <2>2, <3>1 DEF Joins
    <2>4. Is(g)
      BY <2>2, <2>3, Zenon
    <2> HIDE DEF Is
    <2> QED BY <2>4
  <1>3. FlattenSeq(ss) = f[n]
    BY <1>1 DEF FlattenSeq
  <1> HIDE DEF f
  <1>4. f[1] = ss[1] /\ \A i \in 2..n : f[i] = f[i - 1] \o ss[i]
    <2>1. 1 \in 1..n /\ \A i \in 2..n : i \in 1..n /\ i # 1
      BY <1>1
    <2> QED BY <1>2, <2>1
  <1>5. \A k \in 1..n : f[k] \in Seq(S)
    <2> DEFINE Bad == {k \in 1..n : f[k] \notin Seq(S)}
    <2>1. ASSUME Bad # {}
          PROVE  FALSE
      <3>1. PICK k \in Bad : \A m \in Bad : k <= m
        <4>1. Bad \subseteq Nat
          BY <1>1
        <4> HIDE DEF Bad
        <4> QED BY <2>1, <4>1, LeastNumber
      <3>2. k # 1
        BY <1>1, <1>4, <3>1
      <3>3. k \in 2..n /\ k - 1 \in 1..n /\ k - 1 \notin Bad
        BY <1>1, <3>1, <3>2
      <3>4. f[k - 1] \in Seq(S) /\ ss[k] \in Seq(S)
        BY <1>1, <3>1, <3>3
      <3>5. f[k - 1] \o ss[k] \in Seq(S)
        BY <3>4, ConcatProperties
      <3> QED BY <1>4, <3>1, <3>3, <3>5
    <2> QED BY <2>1
  <1>6. f \in [1..n -> Seq(S)]
    BY <1>2, <1>5
  <1> QED BY <1>3, <1>4, <1>6 DEF Joins


\* The other steps of the calls: none of them saves a worker, moves a right or does the
\* work that the rights are lent for.
Watched == {"lendAdmin", "configureReserves", "returnAdmin", "lendOracle",
            "setOracleBorrowRates", "returnOracle", "batchInitReserve",
            "setLendingPoolCollateralManager"}
Plain ==
    {s \in Step : /\ s.do \in {"create", "save", "wait", "need", "proxy", "send"}
                  /\ s.do = "save" => s.name \notin Workers
                  /\ s.do = "send" => s.name \in Messages \ Watched
                  /\ s.do = "proxy" => s.name \in {"LendingPool", "LendingPoolConfigurator"}}

LEMMA PlainSteps ==
    /\ \A n \in Contracts : create(n) \in Plain /\ need(n) \in Plain
    /\ \A n \in (Contracts \cup Strategies) \ Workers : save(n) \in Plain
    /\ \A n \in Messages \ Watched : send(n) \in Plain
    /\ wait \in Plain
    /\ \A n \in {"LendingPool", "LendingPoolConfigurator"} : step("proxy", n) \in Plain
  <1> DEFINE Kinds == {"create", "save", "wait", "need", "proxy", "send", "read", "admin",
                       "oracle", "adapter"}
  <1>1. ASSUME NEW d \in Kinds, NEW n \in Text
        PROVE  step(d, n) \in Step /\ step(d, n).do = d /\ step(d, n).name = n
    BY DEF Step, step
  <1>2. \A n \in Contracts \cup Messages \cup Strategies : n \in Text
    BY DEF Text
  <1>3. ASSUME NEW n \in Contracts
        PROVE  create(n) \in Plain /\ need(n) \in Plain
    BY <1>1, <1>2 DEF create, need, Plain
  <1>4. ASSUME NEW n \in (Contracts \cup Strategies) \ Workers
        PROVE  save(n) \in Plain
    BY <1>1, <1>2 DEF save, Plain
  <1>5. ASSUME NEW n \in Messages \ Watched
        PROVE  send(n) \in Plain
    BY <1>1, <1>2 DEF send, Plain
  <1>6. wait \in Plain
    <2>1. "" \in Text
      BY DEF Text
    <2>2. wait \in Step /\ wait.do = "wait"
      BY <2>1 DEF wait, step, Step
    <2> QED BY <2>2 DEF Plain
  <1>7. ASSUME NEW n \in {"LendingPool", "LendingPoolConfigurator"}
        PROVE  step("proxy", n) \in Plain
    <2>1. n \in Text
      BY <1>2 DEF Contracts
    <2> QED BY <1>1, <2>1 DEF Plain
  <1> QED BY <1>3, <1>4, <1>5, <1>6, <1>7

LEMMA PlainParts ==
    /\ \A n \in Contracts \ Workers :
         withSaveAndVerify(n) \in Seq(Plain) /\ withDeployed(n) \in Seq(Plain)
    /\ \A s, t \in Seq(Plain) : s \o t \in Seq(Plain)
    /\ \A s \in Plain : <<s>> \in Seq(Plain)
    /\ \A s, t \in Plain : <<s, t>> \in Seq(Plain)
    /\ \A s, t, u \in Plain : <<s, t, u>> \in Seq(Plain)
    /\ \A s, t, u, v \in Plain : <<s, t, u, v>> \in Seq(Plain)
  <1>1. ASSUME NEW s \in Plain, NEW t \in Plain, NEW u \in Plain, NEW v \in Plain
        PROVE  /\ <<s>> \in Seq(Plain) /\ <<s, t>> \in Seq(Plain)
               /\ <<s, t, u>> \in Seq(Plain) /\ <<s, t, u, v>> \in Seq(Plain)
    OBVIOUS
  <1>2. ASSUME NEW n \in Contracts \ Workers
        PROVE  withSaveAndVerify(n) \in Seq(Plain) /\ withDeployed(n) \in Seq(Plain)
    <2>1. create(n) \in Plain /\ save(n) \in Plain /\ wait \in Plain
      BY PlainSteps
    <2> QED BY <1>1, <2>1 DEF withSaveAndVerify, withDeployed
  <1>3. \A s, t \in Seq(Plain) : s \o t \in Seq(Plain)
    BY ConcatProperties
  <1> QED BY <1>1, <1>2, <1>3

LEMMA PlainCalls == Program[1] \in Seq(Plain) /\ Program[2] \in Seq(Plain) /\ Program[6] \in Seq(Plain)
  <1> USE PlainSteps, PlainParts
  <1>1. Program[1] \in Seq(Plain)
    <2>1. deployLendingPoolAddressesProviderRegistry \in Seq(Plain)
      BY DEF deployLendingPoolAddressesProviderRegistry, Workers, Contracts
    <2>2. <<need("LendingPoolAddressesProviderRegistry"), need("LendingPoolAddressesProvider"),
            send("registerAddressesProvider"), wait>> \in Seq(Plain)
      BY DEF Watched, Messages, Contracts
    <2> QED BY <2>1, <2>2 DEF Program, addMarketToRegistry
  <1>2. Program[2] \in Seq(Plain)
    <2>1. deployReserveLogicLibrary \in Seq(Plain)
      BY DEF deployReserveLogicLibrary, Workers, Contracts
    <2>2. deployGenericLogic \in Seq(Plain)
      BY DEF deployGenericLogic, Workers, Contracts
    <2>3. deployValidationLogic \in Seq(Plain)
      BY DEF deployValidationLogic, Workers, Contracts
    <2>4. deployElectroLibraries \in Seq(Plain)
      BY <2>1, <2>2, <2>3 DEF deployElectroLibraries
    <2>5. <<create("LendingPool"), save("LendingPoolImpl"), save("LendingPool"), wait>> \in Seq(Plain)
      BY DEF Workers, Contracts
    <2>6. deployLendingPool \in Seq(Plain)
      BY <2>4, <2>5 DEF deployLendingPool
    <2>7. <<need("LendingPoolAddressesProvider")>> \in Seq(Plain)
      BY DEF Contracts
    <2>8. <<send("initialize"), send("setLendingPoolImpl"), wait, step("proxy", "LendingPool")>>
            \in Seq(Plain)
      BY DEF Watched, Messages, Contracts
    <2> QED BY <2>6, <2>7, <2>8 DEF Program, setLendingPool
  <1>3. Program[6] \in Seq(Plain)
    <2>1. deployElectroProtocolDataProvider \in Seq(Plain) /\ deployWETHGateway \in Seq(Plain)
      BY DEF deployElectroProtocolDataProvider, deployWETHGateway, Workers, Contracts
    <2>2. deployGenericELTokenImpl \in Seq(Plain)
      BY DEF deployGenericELTokenImpl, Workers, Contracts
    <2>3. deployGenericStableDebtToken \in Seq(Plain) /\ deployGenericVariableDebtToken \in Seq(Plain)
      BY DEF deployGenericStableDebtToken, deployGenericVariableDebtToken, Workers, Contracts
    <2>4. deployELTokenImplementations \in Seq(Plain)
      BY <2>2, <2>3 DEF deployELTokenImplementations
    <2> QED BY <2>1, <2>4 DEF Program, setImplementations
  <1> QED BY <1>1, <1>2, <1>3

\* The calls that are short, step by step.
LEMMA ConfiguratorCall ==
    /\ Len(Program[3]) = 7
    /\ Program[3][1] = create("LendingPoolConfigurator")
    /\ Program[3][2] = save("LendingPoolConfiguratorImpl")
    /\ Program[3][3] = save("LendingPoolConfigurator")
    /\ Program[3][4] = wait
    /\ Program[3][5] = send("setLendingPoolConfiguratorImpl")
    /\ Program[3][6] = wait
    /\ Program[3][7] = step("proxy", "LendingPoolConfigurator")
  BY DEF Program, setConfigurator, deployLendingPoolConfigurator

LEMMA HelpersCall ==
    /\ Len(Program[4]) = 12
    /\ Program[4][1] = create("StableAndVariableTokensHelper")
    /\ Program[4][2] = save("StableAndVariableTokensHelper")
    /\ Program[4][3] = wait
    /\ Program[4][4] = create("ELTokensAndRatesHelper")
    /\ Program[4][5] = save("ELTokensAndRatesHelper")
    /\ Program[4][6] = wait
    /\ Program[4][7] = need("StableAndVariableTokensHelper")
    /\ Program[4][8] = send("initTokensHelper")
    /\ Program[4][9] = wait
    /\ Program[4][10] = need("ELTokensAndRatesHelper")
    /\ Program[4][11] = send("initRatesHelper")
    /\ Program[4][12] = wait
  BY DEF Program, setHelpers, deployStableAndVariableTokensHelper, withSaveAndVerify,
         deployELTokensAndRatesHelper, initHelpers

LEMMA RatesCall ==
    /\ Len(Program[Lends]) = 7
    /\ Program[Lends][1] = need("StableAndVariableTokensHelper")
    /\ Program[Lends][2] = send("lendOracle")
    /\ Program[Lends][3] = wait
    /\ Program[Lends][4] = send("setOracleBorrowRates")
    /\ Program[Lends][5] = wait
    /\ Program[Lends][6] = send("returnOracle")
    /\ Program[Lends][7] = wait
  BY DEF Program, Lends, setInitialMarketRates

LEMMA OracleCall ==
    /\ Len(Program[8]) = 13
    /\ Program[8][2] = step("oracle", "") /\ Program[8][6] = wait
    /\ Program[8][7] = step("adapter", "") /\ Program[8][11] = wait
    /\ \A i \in 1..13 : i \notin {2, 7} => Program[8][i] \in Plain
  <1>1. Program[8] = setupOracle
    BY DEF Program
  <1>2. Len(setupOracle) = 13
    BY DEF setupOracle
  <1>3. /\ setupOracle[1] = need("LendingPoolAddressesProvider")
        /\ setupOracle[3] = create("ElectroOracle")
        /\ setupOracle[4] = wait
        /\ setupOracle[5] = send("setPriceOracle")
    BY DEF setupOracle
  <1>4. /\ setupOracle[8] = create("SimplePriceFeedAdapter")
        /\ setupOracle[9] = wait
        /\ setupOracle[10] = send("initializeOracle")
    BY DEF setupOracle
  <1>5. setupOracle[2] = step("oracle", "") /\ setupOracle[7] = step("adapter", "")
    BY DEF setupOracle, step
  <1>6. /\ setupOracle[6] = wait /\ setupOracle[11] = wait
        /\ setupOracle[12] = send("setAssetSymbols") /\ setupOracle[13] = wait
    BY DEF setupOracle
  <1>7. /\ setupOracle[1] \in Plain /\ setupOracle[3] \in Plain
        /\ setupOracle[4] \in Plain /\ setupOracle[5] \in Plain
    BY <1>3, PlainSteps DEF Watched, Messages, Contracts
  <1>8. /\ setupOracle[8] \in Plain /\ setupOracle[9] \in Plain
        /\ setupOracle[10] \in Plain /\ setupOracle[6] \in Plain /\ setupOracle[11] \in Plain
        /\ setupOracle[12] \in Plain /\ setupOracle[13] \in Plain
    BY <1>4, <1>6, PlainSteps DEF Watched, Messages, Contracts
  <1>9. \A i \in 1..13 : i \notin {2, 7} => i \in {1, 3, 4, 5, 6, 8, 9, 10, 11, 12, 13}
    OBVIOUS
  <1> QED BY <1>1, <1>2, <1>5, <1>6, <1>7, <1>8, <1>9

\* configureReservesByHelper.
LEMMA Routine ==
    /\ Len(configureReservesByHelper) = 9
    /\ configureReservesByHelper[1] = need("LendingPoolAddressesProvider")
    /\ configureReservesByHelper[2] = need("ELTokensAndRatesHelper")
    /\ configureReservesByHelper[3] = step("read", "")
    /\ configureReservesByHelper[4] = send("lendAdmin")
    /\ configureReservesByHelper[5] = wait
    /\ configureReservesByHelper[6] = send("configureReserves")
    /\ configureReservesByHelper[7] = wait
    /\ configureReservesByHelper[8] = send("returnAdmin")
    /\ configureReservesByHelper[9] = wait
    /\ configureReservesByHelper \in Seq(Step)
  <1>1. ASSUME NEW s \in Step, NEW t \in Step, NEW u \in Step, NEW v \in Step,
               NEW w \in Step, NEW x \in Step, NEW y \in Step
        PROVE  <<s, t, u, v, w, x, w, y, w>> \in Seq(Step)
    OBVIOUS
  <1>2. /\ need("LendingPoolAddressesProvider") \in Step
        /\ need("ELTokensAndRatesHelper") \in Step /\ wait \in Step
    BY PlainSteps DEF Plain, Contracts
  <1>3. step("read", "") \in Step
    BY DEF step, Step, Text
  <1>4. send("lendAdmin") \in Step
    BY DEF send, step, Step, Text, Messages
  <1>5. send("configureReserves") \in Step
    BY DEF send, step, Step, Text, Messages
  <1>6. send("returnAdmin") \in Step
    BY DEF send, step, Step, Text, Messages
  <1>7. configureReservesByHelper \in Seq(Step)
    BY <1>1, <1>2, <1>3, <1>4, <1>5, <1>6 DEF configureReservesByHelper
  <1> QED BY <1>7 DEF configureReservesByHelper


\* Where the steps of two parts are in their concatenation.
LEMMA Parts ==
    ASSUME NEW S, NEW s \in Seq(S), NEW t \in Seq(S)
    PROVE  /\ s \o t \in Seq(S) /\ Len(s) \in Nat /\ Len(t) \in Nat
           /\ Len(s \o t) = Len(s) + Len(t)
           /\ \A i \in 1..Len(s) : (s \o t)[i] = s[i]
           /\ \A i \in 1..Len(t) : (s \o t)[Len(s) + i] = t[i]
  BY ConcatProperties

\* Two steps for each reserve.
LEMMA BatchSteps ==
    LET n == Len(Reserves)
    IN  /\ n \in Nat \ {0} /\ Reserves \in [1..n -> Assets]
        /\ Batches \in Seq(Step) /\ Len(Batches) = 2 * n
        /\ \A k \in 1..n : /\ Batches[2 * k - 1] = batchInitReserve(Reserves[k])[1]
                           /\ Batches[2 * k] = wait
  <1> DEFINE n == Len(Reserves)
             ss == [i \in DOMAIN Reserves |-> batchInitReserve(Reserves[i])]
             first(k) == batchInitReserve(Reserves[k])[1]
  <1>1. n \in Nat \ {0} /\ DOMAIN Reserves = 1..n /\ Reserves \in [1..n -> Assets]
    BY ReservesAssumption
  <1>2. ASSUME NEW k \in 1..n
        PROVE  /\ ss[k] \in Seq(Step) /\ Len(ss[k]) = 2
               /\ ss[k][1] = first(k) /\ ss[k][2] = wait
    <2>1. Reserves[k] \in Assets /\ ss[k] = batchInitReserve(Reserves[k])
      BY <1>1
    <2>2. [send("batchInitReserve") EXCEPT !.assets = {Reserves[k]}] \in Step
      BY <2>1 DEF send, step, Step, Text, Messages
    <2>3. wait \in Step
      BY PlainSteps DEF Plain
    <2>4. \A x, y \in Step : /\ <<x, y>> \in Seq(Step) /\ Len(<<x, y>>) = 2
                             /\ <<x, y>>[1] = x /\ <<x, y>>[2] = y
      OBVIOUS
    <2> DEFINE b == [send("batchInitReserve") EXCEPT !.assets = {Reserves[k]}]
    <2>5. batchInitReserve(Reserves[k]) = <<b, wait>> /\ b \in Step
      BY <2>2 DEF batchInitReserve
    <2> DEFINE s == <<b, wait>>
    <2>6. s \in Seq(Step) /\ Len(s) = 2 /\ s[1] = b /\ s[2] = wait
      BY <2>3, <2>4, <2>5
    <2>7. ss[k] = s /\ first(k) = s[1]
      BY <2>1, <2>5
    <2> HIDE DEF s, ss, first
    <2> QED BY <2>6, <2>7
  <1>3. ss \in Seq(Seq(Step)) /\ Len(ss) = n
    <2> HIDE DEF ss
    <2>1. DOMAIN ss = 1..n /\ ss = [i \in 1..n |-> ss[i]]
      BY <1>1 DEF ss
    <2>2. ss \in [1..n -> Seq(Step)]
      BY <1>2, <2>1
    <2> QED BY <1>1, <2>1, <2>2, SeqDef, LenProperties
  <1>4. PICK f : Joins(f, ss, n, Step) /\ Batches = f[n]
    <2> HIDE DEF ss
    <2>1. \E f : Joins(f, ss, Len(ss), Step) /\ FlattenSeq(ss) = f[Len(ss)]
      <3>1. Len(ss) > 0
        BY <1>1, <1>3
      <3> QED BY <1>3, <3>1, Flattened, Zenon
    <2> QED BY <1>3, <2>1 DEF Batches, ss
  <1> DEFINE Good(k) == /\ Len(f[k]) = 2 * k
                        /\ \A j \in 1..k : f[k][2 * j - 1] = first(j) /\ f[k][2 * j] = wait
             Bad == {k \in 1..n : ~ Good(k)}
  <1> HIDE DEF ss
  <1>5. f \in [1..n -> Seq(Step)] /\ f[1] = ss[1] /\ \A i \in 2..n : f[i] = f[i - 1] \o ss[i]
    <2>1. n >= 1
      BY <1>1
    <2> QED BY <1>4, <2>1, Zenon DEF Joins
  <1> HIDE DEF first
  <1>6. ASSUME Bad # {}
        PROVE  FALSE
    <2>1. PICK k \in Bad : \A m \in Bad : k <= m
      <3>1. Bad \subseteq Nat
        BY <1>1
      <3> HIDE DEF Bad
      <3> QED BY <1>6, <3>1, LeastNumber
    <2>2. k \in 1..n /\ ~ Good(k) /\ k \in Nat \ {0}
      BY <1>1, <2>1
    <2>3. CASE k = 1
      <3>1. 1 \in 1..n
        BY <1>1
      <3>2. Len(f[1]) = 2 /\ f[1][1] = first(1) /\ f[1][2] = wait
        BY <1>2, <1>5, <3>1
      <3>3. Good(1)
        BY <3>2
      <3> QED BY <2>2, <2>3, <3>3
    <2>4. CASE k # 1
      <3> DEFINE p == k - 1
      <3>1. k \in 2..n /\ p \in 1..n /\ p \in Nat /\ ~ (k <= p)
        BY <1>1, <2>2, <2>4
      <3>2. Good(p)
        <4>1. p \notin Bad
          BY <2>1, <3>1
        <4> QED BY <3>1, <4>1
      <3>3. f[k] = f[p] \o ss[k] /\ f[p] \in Seq(Step) /\ ss[k] \in Seq(Step) /\ Len(f[p]) = 2 * p
            /\ Len(ss[k]) = 2 /\ ss[k][1] = first(k) /\ ss[k][2] = wait
        BY <1>2, <1>5, <2>2, <3>1, <3>2
      <3>4. /\ Len(f[k]) = 2 * p + 2
            /\ \A i \in 1..(2 * p) : f[k][i] = f[p][i]
            /\ f[k][2 * p + 1] = first(k) /\ f[k][2 * p + 2] = wait
        <4>1. \A s, t \in Seq(Step) :
                /\ Len(s \o t) = Len(s) + Len(t)
                /\ \A i \in 1..Len(s) : (s \o t)[i] = s[i]
                /\ \A i \in 1..Len(t) : (s \o t)[Len(s) + i] = t[i]
          BY Parts
        <4>3. /\ Len(f[k]) = Len(f[p]) + Len(ss[k])
              /\ \A i \in 1..Len(f[p]) : f[k][i] = f[p][i]
              /\ \A i \in 1..Len(ss[k]) : f[k][Len(f[p]) + i] = ss[k][i]
          <5>1. f[p] \in Seq(Step) /\ ss[k] \in Seq(Step)
            BY <3>3
          <5> HIDE DEF p
          <5>2. /\ Len(f[p] \o ss[k]) = Len(f[p]) + Len(ss[k])
                /\ \A i \in 1..Len(f[p]) : (f[p] \o ss[k])[i] = f[p][i]
                /\ \A i \in 1..Len(ss[k]) : (f[p] \o ss[k])[Len(f[p]) + i] = ss[k][i]
            BY <4>1, <5>1
          <5> QED BY <3>3, <5>2
        <4>2. 1 \in 1..Len(ss[k]) /\ 2 \in 1..Len(ss[k])
          BY <3>3
        <4> QED BY <3>3, <4>2, <4>3
      <3>5. 2 * p + 2 = 2 * k /\ 2 * p + 1 = 2 * k - 1
        BY <3>1
      <3>6. ASSUME NEW j \in 1..k
            PROVE  f[k][2 * j - 1] = first(j) /\ f[k][2 * j] = wait
        <4>1. CASE j = k
          BY <3>4, <3>5, <4>1
        <4>2. CASE j # k
          <5>1. j \in 1..p /\ 2 * j - 1 \in 1..(2 * p) /\ 2 * j \in 1..(2 * p)
            BY <3>1, <4>2
          <5> QED BY <3>2, <3>4, <5>1
        <4> QED BY <4>1, <4>2
      <3> QED BY <2>2, <3>4, <3>5, <3>6
    <2> QED BY <2>3, <2>4
  <1>7. n \in 1..n /\ Good(n)
    BY <1>1, <1>6
  <1> QED BY <1>1, <1>4, <1>5, <1>7 DEF first


LEMMA PreparesPlain == Prepares \in Seq(Plain)
  <1> DEFINE n == Len(Reserves)
             ss == [i \in DOMAIN Reserves |-> prepareReserve(i)]
  <1>1. n \in Nat \ {0} /\ DOMAIN Reserves = 1..n /\ Reserves \in [1..n -> Assets]
    BY ReservesAssumption
  <1>2. ASSUME NEW k \in 1..n
        PROVE  prepareReserve(k) \in Seq(Plain)
    <2>1. strategyOf[Reserves[k]] \in (Contracts \cup Strategies) \ Workers
      <3>1. Reserves[k] \in Assets
        BY <1>1
      <3> QED BY <3>1, ReservesAssumption DEF Strategies, Workers
    <2>2. deployRateStrategy(strategyOf[Reserves[k]]) \in Seq(Plain)
      <3>1. withSaveAndVerify("DefaultReserveInterestRateStrategy") \in Seq(Plain)
        BY PlainParts DEF Contracts, Workers
      <3>2. <<save(strategyOf[Reserves[k]])>> \in Seq(Plain)
        BY <2>1, PlainSteps, PlainParts
      <3> QED BY <3>1, <3>2, PlainParts DEF deployRateStrategy, deployDefaultReserveInterestRateStrategy
    <2>3. <<need("ELToken"), need("StableDebtToken"), need("VariableDebtToken")>> \in Seq(Plain)
      BY PlainSteps, PlainParts DEF Contracts
    <2>4. <<>> \in Seq(Plain)
      OBVIOUS
    <2> DEFINE s == IF isFirst(k) THEN deployRateStrategy(strategyOf[Reserves[k]]) ELSE <<>>
    <2>5. s \in Seq(Plain)
      BY <2>2, <2>4
    <2>6. prepareReserve(k) = s \o <<need("ELToken"), need("StableDebtToken"), need("VariableDebtToken")>>
      BY DEF prepareReserve
    <2> HIDE DEF s
    <2> QED BY <2>3, <2>5, <2>6, PlainParts
  <1>3. ss \in Seq(Seq(Plain)) /\ Len(ss) = n
    <2>1. ss = [i \in 1..n |-> prepareReserve(i)]
      BY <1>1
    <2>2. ss \in [1..n -> Seq(Plain)]
      BY <1>2, <2>1
    <2> HIDE DEF ss
    <2> QED BY <1>1, <2>2, SeqDef, LenProperties
  <1>4. PICK f : Joins(f, ss, n, Plain) /\ Prepares = f[n]
    <2> HIDE DEF ss
    <2>1. \E f : Joins(f, ss, Len(ss), Plain) /\ FlattenSeq(ss) = f[Len(ss)]
      <3>1. Len(ss) > 0
        BY <1>1, <1>3
      <3> QED BY <1>3, <3>1, Flattened, Zenon
    <2> QED BY <1>3, <2>1 DEF Prepares, ss
  <1> HIDE DEF ss
  <1>5. f \in [1..n -> Seq(Plain)] /\ n \in 1..n
    BY <1>1, <1>4 DEF Joins
  <1> QED BY <1>4, <1>5

LEMMA PlainIsStep == \A s \in Seq(Plain) : s \in Seq(Step)
  <1>1. ASSUME NEW s \in Seq(Plain)
        PROVE  s \in Seq(Step)
    <2>1. Plain \subseteq Step
      BY DEF Plain
    <2>2. \A i \in 1..Len(s) : s[i] \in Step
      BY <2>1, ElementOfSeq
    <2> QED BY <2>2
  <1> QED BY <1>1

LEMMA OpeningSteps ==
    /\ Opening \in Seq(Step) /\ Len(Opening) = 3 /\ Opening[3] = step("admin", "")
    /\ Opening[1] \in Plain /\ Opening[2] \in Plain
  <1>1. /\ need("LendingPoolAddressesProvider") \in Plain
        /\ need("ElectroProtocolDataProvider") \in Plain
    BY PlainSteps DEF Contracts
  <1>2. step("admin", "") \in Step
    BY DEF step, Step, Text
  <1>3. /\ need("LendingPoolAddressesProvider") \in Step
        /\ need("ElectroProtocolDataProvider") \in Step
    BY <1>1 DEF Plain
  <1>4. /\ Len(Opening) = 3 /\ Opening[3] = step("admin", "")
        /\ Opening[1] = need("LendingPoolAddressesProvider")
        /\ Opening[2] = need("ElectroProtocolDataProvider")
    BY DEF Opening
  <1>5. Opening \in Seq(Step)
    <2>1. \A x, y, z \in Step : <<x, y, z>> \in Seq(Step)
      OBVIOUS
    <2> QED BY <1>2, <1>3, <2>1, Zenon DEF Opening
  <1> QED BY <1>1, <1>4, <1>5

LEMMA PreparingSteps ==
    /\ Preparing \in Seq(Plain) /\ Len(Preparing) \in Nat /\ Len(Preparing) >= 2
    /\ Preparing[Len(Preparing)] = need("LendingPoolConfigurator")
  <1> DEFINE b == <<need("LendingPoolAddressesProvider")>>
             c == <<need("LendingPoolConfigurator")>>
             d == b \o Prepares
  <1>1. /\ b \in Seq(Plain) /\ Len(b) = 1
        /\ c \in Seq(Plain) /\ Len(c) = 1 /\ c[1] = need("LendingPoolConfigurator")
    <2>1. need("LendingPoolAddressesProvider") \in Plain /\ need("LendingPoolConfigurator") \in Plain
      BY PlainSteps DEF Contracts
    <2> QED BY <2>1
  <1>2. Preparing = d \o c
    BY DEF Preparing
  <1> HIDE DEF b, c
  <1>3. \A s, t \in Seq(Plain) :
          /\ s \o t \in Seq(Plain) /\ Len(s) \in Nat /\ Len(t) \in Nat
          /\ Len(s \o t) = Len(s) + Len(t)
          /\ \A i \in 1..Len(t) : (s \o t)[Len(s) + i] = t[i]
    BY Parts
  <1>4. d \in Seq(Plain) /\ Len(d) \in Nat /\ Len(d) >= 1
    BY <1>1, <1>3, PreparesPlain
  <1> HIDE DEF d
  <1>5. /\ d \o c \in Seq(Plain) /\ Len(d \o c) = Len(d) + Len(c)
        /\ \A i \in 1..Len(c) : (d \o c)[Len(d) + i] = c[i]
    BY <1>1, <1>3, <1>4
  <1>6. 1 \in 1..Len(c)
    BY <1>1
  <1> QED BY <1>1, <1>2, <1>4, <1>5, <1>6

LEMMA LeadSteps ==
    /\ Lead \in Seq(Step) /\ listing \in Nat /\ listing >= 5
    /\ Lead[3] = step("admin", "") /\ Lead[listing] = need("LendingPoolConfigurator")
    /\ \A i \in 1..listing : i # 3 => Lead[i] \in Plain
  <1> DEFINE a == Opening
             e == Preparing
  <1>1. e \in Seq(Plain) /\ e \in Seq(Step) /\ Len(e) \in Nat /\ Len(e) >= 2
    BY PreparingSteps, PlainIsStep
  <1>2. /\ Lead \in Seq(Step) /\ Len(Lead) = 3 + Len(e)
        /\ \A i \in 1..3 : Lead[i] = a[i]
        /\ \A i \in 1..Len(e) : Lead[3 + i] = e[i]
    <2>1. \A s, t \in Seq(Step) :
            /\ s \o t \in Seq(Step) /\ Len(s \o t) = Len(s) + Len(t)
            /\ \A i \in 1..Len(s) : (s \o t)[i] = s[i]
            /\ \A i \in 1..Len(t) : (s \o t)[Len(s) + i] = t[i]
      BY Parts
    <2>2. /\ a \o e \in Seq(Step) /\ Len(a \o e) = Len(a) + Len(e)
          /\ \A i \in 1..Len(a) : (a \o e)[i] = a[i]
          /\ \A i \in 1..Len(e) : (a \o e)[Len(a) + i] = e[i]
      BY <1>1, <2>1, OpeningSteps
    <2> QED BY <2>2, OpeningSteps DEF Lead
  <1>3. ASSUME NEW i \in 1..listing, i # 3
        PROVE  Lead[i] \in Plain
    <2>1. CASE i \in 1..3
      <3>1. i = 1 \/ i = 2
        BY <1>3, <2>1
      <3>2. Lead[i] = a[i]
        BY <1>2, <2>1
      <3> QED BY <3>1, <3>2, OpeningSteps
    <2>2. CASE i \notin 1..3
      <3>1. i - 3 \in 1..Len(e) /\ 3 + (i - 3) = i
        BY <1>1, <1>2, <2>2 DEF listing
      <3>2. e[i - 3] \in Plain
        BY <1>1, <3>1, ElementOfSeq
      <3> QED BY <1>2, <3>1, <3>2
    <2> QED BY <2>1, <2>2
  <1>4. listing = 3 + Len(e) /\ Len(e) \in 1..Len(e) /\ 3 \in 1..3
    BY <1>1, <1>2 DEF listing
  <1>5. Lead[3] = step("admin", "") /\ Lead[listing] = need("LendingPoolConfigurator")
    BY <1>2, <1>4, OpeningSteps, PreparingSteps
  <1>6. listing \in Nat /\ listing >= 5
    BY <1>1, <1>4
  <1> QED BY <1>2, <1>3, <1>5, <1>6

LEMMA ManagerParts ==
    /\ deployLendingPoolCollateralManager \in Seq(Step)
    /\ <<send("setLendingPoolCollateralManager"), wait, need("ElectroProtocolDataProvider"),
         send("setAddress"), wait>> \in Seq(Step)
  <1>1. send("setLendingPoolCollateralManager") \in Step
    BY DEF send, step, Step, Text, Messages
  <1>2. /\ create("LendingPoolCollateralManager") \in Step
        /\ save("LendingPoolCollateralManagerImpl") \in Step
        /\ save("LendingPoolCollateralManager") \in Step /\ wait \in Step
    BY PlainSteps DEF Plain, Contracts, Workers
  <1>3. need("ElectroProtocolDataProvider") \in Step /\ send("setAddress") \in Step
    BY PlainSteps DEF Plain, Contracts, Messages, Watched
  <1> QED BY <1>1, <1>2, <1>3 DEF deployLendingPoolCollateralManager

LEMMA ManagerSteps ==
    /\ Manager \in Seq(Step) /\ Len(Manager) = 9
    /\ Manager[1] = create("LendingPoolCollateralManager")
    /\ Manager[2] = save("LendingPoolCollateralManagerImpl")
    /\ Manager[3] = save("LendingPoolCollateralManager")
    /\ Manager[4] = wait
    /\ Manager[5] = send("setLendingPoolCollateralManager")
    /\ Manager[6] = wait
    /\ \A i \in 1..9 : i # 5 => Manager[i] \in Plain
  <1>1. /\ Len(Manager) = 9
        /\ Manager[1] = create("LendingPoolCollateralManager")
        /\ Manager[2] = save("LendingPoolCollateralManagerImpl")
        /\ Manager[3] = save("LendingPoolCollateralManager")
        /\ Manager[4] = wait
        /\ Manager[5] = send("setLendingPoolCollateralManager")
        /\ Manager[6] = wait
        /\ Manager[7] = need("ElectroProtocolDataProvider")
        /\ Manager[8] = send("setAddress") /\ Manager[9] = wait
    BY DEF Manager, deployLendingPoolCollateralManager
  <1>2. \A i \in {1, 2, 3, 4, 6, 7, 8, 9} : Manager[i] \in Plain
    <2>1. Manager[1] \in Plain /\ Manager[2] \in Plain /\ Manager[3] \in Plain
      BY <1>1, PlainSteps DEF Contracts, Workers
    <2>2. Manager[4] \in Plain /\ Manager[6] \in Plain /\ Manager[9] \in Plain
      BY <1>1, PlainSteps
    <2>3. Manager[7] \in Plain /\ Manager[8] \in Plain
      BY <1>1, PlainSteps DEF Contracts, Messages, Watched
    <2> QED BY <2>1, <2>2, <2>3
  <1>3. Manager \in Seq(Step)
    <2> QED BY ManagerParts, ConcatProperties DEF Manager
  <1> QED BY <1>1, <1>2, <1>3

LEMMA ProviderParts ==
    /\ deployWalletBalancerProvider \in Seq(Plain) /\ deployUiPoolDataProviderV2 \in Seq(Plain)
    /\ deployUiIncentiveDataProviderV2 \in Seq(Plain)
    /\ <<need("WETHGateway"), send("authorizeLendingPool")>> \in Seq(Plain)
  <1>1. deployWalletBalancerProvider \in Seq(Plain) /\ deployUiPoolDataProviderV2 \in Seq(Plain)
    BY PlainParts DEF deployWalletBalancerProvider, deployUiPoolDataProviderV2, Contracts, Workers
  <1>2. deployUiIncentiveDataProviderV2 \in Seq(Plain)
    BY PlainParts DEF deployUiIncentiveDataProviderV2, Contracts, Workers
  <1>3. <<need("WETHGateway"), send("authorizeLendingPool")>> \in Seq(Plain)
    BY PlainSteps, PlainParts DEF Contracts, Messages, Watched
  <1> QED BY <1>1, <1>2, <1>3

LEMMA ProvidersPlain == Providers \in Seq(Plain)
  BY ProviderParts, PlainParts DEF Providers

\* What the task does, with its parts grouped as above.
LEMMA Associates ==
    \A r, s, t \in Seq(Step) : r \o s \in Seq(Step) /\ (r \o s) \o t = r \o (s \o t)
  BY ConcatAssociative, ConcatProperties

cat(r, s) == r \o s

LEMMA CatCloses == ASSUME NEW r \in Seq(Step), NEW s \in Seq(Step) PROVE cat(r, s) \in Seq(Step)
  BY ConcatProperties DEF cat

LEMMA CatAssociates ==
    ASSUME NEW r \in Seq(Step), NEW s \in Seq(Step), NEW t \in Seq(Step)
    PROVE  cat(cat(r, s), t) = cat(r, cat(s, t))
  BY ConcatAssociative DEF cat

LEMMA Regroup ==
    ASSUME NEW z \in Seq(Step), NEW w \in Seq(Step), NEW u \in Seq(Step),
           NEW v \in Seq(Step), NEW g \in Seq(Step)
    PROVE  z \o w \o u \o v \o g = z \o (w \o u \o v \o g)
  <1>1. /\ \A r, s \in Seq(Step) : cat(r, s) \in Seq(Step)
        /\ \A r, s, t \in Seq(Step) : cat(cat(r, s), t) = cat(r, cat(s, t))
    BY CatCloses, CatAssociates
  <1>2. cat(w, u) \in Seq(Step) /\ cat(cat(w, u), v) \in Seq(Step)
    BY <1>1
  <1>3. cat(cat(z, w), u) = cat(z, cat(w, u))
    BY <1>1
  <1>4. cat(cat(z, cat(w, u)), v) = cat(z, cat(cat(w, u), v))
    BY <1>1, <1>2
  <1>5. cat(cat(z, cat(cat(w, u), v)), g) = cat(z, cat(cat(cat(w, u), v), g))
    BY <1>1, <1>2
  <1>6. cat(cat(cat(cat(z, w), u), v), g) = cat(z, cat(cat(cat(w, u), v), g))
    BY <1>3, <1>4, <1>5, Zenon
  <1> QED BY <1>6 DEF cat

LEMMA Grouped ==
    initialize = Lead \o Batches \o configureReservesByHelper \o Manager \o Providers
  <1> DEFINE d == deployLendingPoolCollateralManager
             f == <<send("setLendingPoolCollateralManager"), wait,
                    need("ElectroProtocolDataProvider"), send("setAddress"), wait>>
             w == deployWalletBalancerProvider
             u == deployUiPoolDataProviderV2
             v == deployUiIncentiveDataProviderV2
             g == <<need("WETHGateway"), send("authorizeLendingPool")>>
             c == configureReservesByHelper
             y == Lead \o Batches \o c
  <1>1. initialize = Opening \o (Preparing \o Batches) \o c \o d \o f \o w \o u \o v \o g
    BY DEF initialize, initReservesByHelper, Prepares, Batches, Opening, Preparing
  <1>2. Manager = d \o f /\ Providers = w \o u \o v \o g
    BY DEF Manager, Providers
  <1>3. /\ w \in Seq(Step) /\ u \in Seq(Step) /\ v \in Seq(Step) /\ g \in Seq(Step)
        /\ d \in Seq(Step) /\ f \in Seq(Step)
    BY ProviderParts, ManagerParts, PlainIsStep
  <1> HIDE DEF d, f, w, u, v, g
  <1>4. \A r, s, t \in Seq(Step) : r \o s \in Seq(Step) /\ (r \o s) \o t = r \o (s \o t)
    BY Associates, Zenon
  <1>5. Opening \o (Preparing \o Batches) = Lead \o Batches
    BY <1>4, OpeningSteps, PreparingSteps, PlainIsStep, BatchSteps DEF Lead
  <1>6. y \in Seq(Step)
    BY <1>4, LeadSteps, BatchSteps, Routine
  <1> HIDE DEF y
  <1>7. y \o d \o f = y \o Manager /\ y \o Manager \in Seq(Step)
    BY <1>2, <1>3, <1>4, <1>6
  <1> DEFINE z == y \o Manager
  <1>8. z \in Seq(Step)
    BY <1>7
  <1> HIDE DEF z
  <1>9. z \o w \o u \o v \o g = z \o Providers
    <2>1. z \o w \o u \o v \o g = z \o (w \o u \o v \o g)
      <3>1. \A q, r, s, t, x \in Seq(Step) : q \o r \o s \o t \o x = q \o (r \o s \o t \o x)
        BY Regroup
      <3>2. \A r, s, t, x \in Seq(Step) : z \o r \o s \o t \o x = z \o (r \o s \o t \o x)
        BY <1>8, <3>1
      <3>3. \A s, t, x \in Seq(Step) : z \o w \o s \o t \o x = z \o (w \o s \o t \o x)
        BY <1>3, <3>2
      <3>4. \A t, x \in Seq(Step) : z \o w \o u \o t \o x = z \o (w \o u \o t \o x)
        BY <1>3, <3>3
      <3> QED BY <1>3, <3>4, Zenon
    <2> QED BY <1>2, <2>1
  <1> QED BY <1>1, <1>5, <1>7, <1>9 DEF y, z

\* The steps of full:initialize-lending-pool.
LEMMA InitializeCall ==
    LET n == Len(Reserves)
        b == listing + 2 * n
        p == Program[INITIALIZE]
    IN  /\ p \in Seq(Step) /\ Len(p) \in Nat /\ Len(p) >= b + 18
        /\ p[3] = step("admin", "") /\ p[listing] = need("LendingPoolConfigurator")
        /\ \A i \in 1..listing : i # 3 => p[i] \in Plain
        /\ \A k \in 1..n : /\ p[listing + 2 * k - 1] = batchInitReserve(Reserves[k])[1]
                           /\ p[listing + 2 * k] = wait
        /\ \A i \in 1..9 : p[b + i] = configureReservesByHelper[i]
        /\ \A i \in 1..9 : p[b + 9 + i] = Manager[i]
        /\ \A i \in (b + 19)..Len(p) : p[i] \in Plain
  <1> DEFINE n == Len(Reserves)
             b == listing + 2 * n
             p == Program[INITIALIZE]
             x == Lead \o Batches
             y == x \o configureReservesByHelper
             z == y \o Manager
  <1>0. \A s, t \in Seq(Step) :
          /\ s \o t \in Seq(Step) /\ Len(s) \in Nat /\ Len(t) \in Nat
          /\ Len(s \o t) = Len(s) + Len(t)
          /\ \A i \in 1..Len(s) : (s \o t)[i] = s[i]
          /\ \A i \in 1..Len(t) : (s \o t)[Len(s) + i] = t[i]
    BY Parts
  <1>1. /\ n \in Nat \ {0} /\ Batches \in Seq(Step) /\ Len(Batches) = 2 * n
        /\ \A k \in 1..n : /\ Batches[2 * k - 1] = batchInitReserve(Reserves[k])[1]
                           /\ Batches[2 * k] = wait
    BY BatchSteps
  <1>2. Lead \in Seq(Step) /\ listing \in Nat /\ listing >= 5 /\ Len(Lead) = listing
    BY LeadSteps DEF listing
  <1>3. configureReservesByHelper \in Seq(Step) /\ Len(configureReservesByHelper) = 9
    BY Routine
  <1>4. Manager \in Seq(Step) /\ Len(Manager) = 9
    BY ManagerSteps
  <1>5. Providers \in Seq(Plain) /\ Providers \in Seq(Step) /\ Len(Providers) \in Nat
    BY ProvidersPlain, PlainIsStep
  <1>20. /\ b \in Nat /\ b = listing + 2 * n
         /\ \A i \in 1..listing : i \in 1..b
         /\ \A i \in 1..(2 * n) : listing + i \in 1..b
    BY <1>1, <1>2
  <1> HIDE DEF b
  <1>6. /\ x \in Seq(Step) /\ Len(x) = b
        /\ \A i \in 1..listing : x[i] = Lead[i]
        /\ \A i \in 1..(2 * n) : x[listing + i] = Batches[i]
    <2>1. /\ Lead \o Batches \in Seq(Step) /\ Len(Lead \o Batches) = Len(Lead) + Len(Batches)
          /\ \A i \in 1..Len(Lead) : (Lead \o Batches)[i] = Lead[i]
          /\ \A i \in 1..Len(Batches) : (Lead \o Batches)[Len(Lead) + i] = Batches[i]
      BY <1>0, <1>1, <1>2
    <2> QED BY <1>1, <1>2, <1>20, <2>1
  <1> HIDE DEF x
  <1>7. /\ y \in Seq(Step) /\ Len(y) = b + 9
        /\ \A i \in 1..b : y[i] = x[i]
        /\ \A i \in 1..9 : y[b + i] = configureReservesByHelper[i]
    <2> DEFINE q == configureReservesByHelper
    <2>1. q \in Seq(Step) /\ Len(q) = 9
      BY <1>3
    <2> HIDE DEF q
    <2>2. /\ x \o q \in Seq(Step) /\ Len(x \o q) = Len(x) + Len(q)
          /\ \A i \in 1..Len(x) : (x \o q)[i] = x[i]
          /\ \A i \in 1..Len(q) : (x \o q)[Len(x) + i] = q[i]
      BY <1>0, <1>6, <2>1
    <2>3. y = x \o q
      BY DEF q
    <2>4. /\ y \in Seq(Step) /\ Len(y) = b + 9
          /\ \A i \in 1..b : y[i] = x[i]
          /\ \A i \in 1..9 : y[b + i] = q[i]
      BY <1>6, <2>1, <2>2, <2>3
    <2> QED BY <2>4 DEF q
  <1> HIDE DEF y
  <1>8. /\ z \in Seq(Step) /\ Len(z) = b + 18 /\ b \in Nat
        /\ \A i \in 1..(b + 9) : z[i] = y[i]
        /\ \A i \in 1..9 : z[b + 9 + i] = Manager[i]
    <2>1. /\ y \o Manager \in Seq(Step) /\ Len(y \o Manager) = Len(y) + Len(Manager)
          /\ \A i \in 1..Len(y) : (y \o Manager)[i] = y[i]
          /\ \A i \in 1..Len(Manager) : (y \o Manager)[Len(y) + i] = Manager[i]
      BY <1>0, <1>4, <1>7
    <2>2. y \o Manager \in Seq(Step) /\ Len(y \o Manager) = b + 18
      BY <1>4, <1>7, <1>20, <2>1
    <2>3. Len(y) = b + 9 /\ Len(Manager) = 9
      BY <1>4, <1>7
    <2> QED BY <1>20, <2>1, <2>2, <2>3
  <1> HIDE DEF z
  <1>9. p = z \o Providers
    <2>1. p = initialize
      BY DEF Program, INITIALIZE
    <2> QED BY <2>1, Grouped DEF x, y, z
  <1> HIDE DEF p
  <1>10. /\ p \in Seq(Step) /\ Len(p) = b + 18 + Len(Providers)
         /\ \A i \in 1..(b + 18) : p[i] = z[i]
         /\ \A i \in 1..Len(Providers) : p[b + 18 + i] = Providers[i]
    <2>1. /\ z \o Providers \in Seq(Step) /\ Len(z \o Providers) = Len(z) + Len(Providers)
          /\ \A i \in 1..Len(z) : (z \o Providers)[i] = z[i]
          /\ \A i \in 1..Len(Providers) : (z \o Providers)[Len(z) + i] = Providers[i]
      BY <1>0, <1>5, <1>8
    <2> QED BY <1>8, <1>9, <2>1
  <1>11. \A i \in 1..listing : p[i] = Lead[i]
    <2>1. \A i \in 1..listing : i \in 1..b /\ i \in 1..(b + 9) /\ i \in 1..(b + 18)
      BY <1>2, <1>20
    <2> QED BY <1>6, <1>7, <1>8, <1>10, <2>1
  <1>12. ASSUME NEW i \in 1..(2 * n)
         PROVE  p[listing + i] = Batches[i]
    <2> DEFINE k == listing + i
    <2>1. k \in 1..b /\ k \in 1..(b + 9) /\ k \in 1..(b + 18) /\ x[k] = Batches[i]
      BY <1>1, <1>2, <1>6, <1>20
    <2> HIDE DEF k
    <2>2. p[k] = Batches[i]
      BY <1>7, <1>8, <1>10, <2>1
    <2> QED BY <2>2 DEF k
  <1>13. \A i \in 1..9 : p[b + i] = configureReservesByHelper[i]
    <2>1. \A i \in 1..9 : b + i \in 1..(b + 9) /\ b + i \in 1..(b + 18)
      BY <1>20
    <2> QED BY <1>7, <1>8, <1>10, <2>1
  <1>14. \A i \in 1..9 : p[b + 9 + i] = Manager[i]
    <2>1. \A i \in 1..9 : b + 9 + i \in 1..(b + 18)
      BY <1>20
    <2> QED BY <1>8, <1>10, <2>1
  <1>15. ASSUME NEW i \in (b + 19)..Len(p)
         PROVE  p[i] \in Plain
    <2>1. i - (b + 18) \in 1..Len(Providers) /\ b + 18 + (i - (b + 18)) = i
      BY <1>5, <1>8, <1>10
    <2>2. Providers[i - (b + 18)] \in Plain
      BY <1>5, <2>1, ElementOfSeq
    <2> QED BY <1>10, <2>1, <2>2
  <1>16. ASSUME NEW k \in 1..n
         PROVE  /\ p[listing + 2 * k - 1] = batchInitReserve(Reserves[k])[1]
                /\ p[listing + 2 * k] = wait
    <2>1. /\ 2 * k - 1 \in 1..(2 * n) /\ 2 * k \in 1..(2 * n)
          /\ listing + 2 * k - 1 = listing + (2 * k - 1)
      BY <1>1, <1>2
    <2> QED BY <1>1, <1>12, <2>1
  <1>17. p[3] = step("admin", "") /\ p[listing] = need("LendingPoolConfigurator")
    <2>1. 3 \in 1..listing /\ listing \in 1..listing
      BY <1>2
    <2> QED BY <1>11, <2>1, LeadSteps
  <1>18. \A i \in 1..listing : i # 3 => p[i] \in Plain
    BY <1>11, LeadSteps
  <1>19. Len(p) \in Nat /\ Len(p) >= b + 18
    BY <1>5, <1>8, <1>10
  <1> QED BY <1>10, <1>13, <1>14, <1>15, <1>16, <1>17, <1>18, <1>19 DEF b, p


LEMMA OtherSteps ==
    /\ \A n \in Messages : send(n) \in Step /\ send(n).do = "send" /\ send(n).name = n
    /\ \A d \in {"read", "admin", "oracle", "adapter"} :
         step(d, "") \in Step /\ step(d, "").do = d
  <1>1. ASSUME NEW n \in Messages
        PROVE  send(n) \in Step /\ send(n).do = "send" /\ send(n).name = n
    BY DEF send, step, Step, Text
  <1>2. ASSUME NEW d \in {"read", "admin", "oracle", "adapter"}
        PROVE  step(d, "") \in Step /\ step(d, "").do = d
    BY DEF step, Step, Text
  <1> QED BY <1>1, <1>2

LEMMA Halves ==
    ASSUME NEW n \in Nat, NEW m \in 1..(2 * n)
    PROVE  \E k \in 1..n : m = 2 * k - 1 \/ m = 2 * k
  <1> DEFINE k == (m + 1) \div 2
  <1>1. k \in 1..n /\ (m = 2 * k - 1 \/ m = 2 * k)
    OBVIOUS
  <1> QED BY <1>1


\* configureReservesByHelper within the two calls that run it.
LEMMA RoutineAt ==
    ASSUME NEW c \in Configures
    PROVE  /\ block(c) \in Nat /\ Len(Program[c]) \in Nat /\ block(c) + 9 <= Len(Program[c])
           /\ \A k \in 1..9 : Program[c][block(c) + k] = configureReservesByHelper[k]
  <1>1. CASE c = INITIALIZE
    <2>1. block(c) = listing + 2 * Len(Reserves)
      BY <1>1 DEF block
    <2>2. Len(Reserves) \in Nat /\ listing \in Nat
      BY BatchSteps, LeadSteps
    <2>3. block(c) \in Nat
      BY <2>1, <2>2
    <2> DEFINE b == listing + 2 * Len(Reserves)
    <2>4. /\ Len(Program[c]) \in Nat /\ Len(Program[c]) >= b + 18
          /\ \A k \in 1..9 : Program[c][b + k] = configureReservesByHelper[k]
      BY <1>1, InitializeCall
    <2>5. block(c) = b
      BY <2>1
    <2> HIDE DEF b
    <2> QED BY <2>3, <2>4, <2>5
  <1>2. CASE c = 9
    <2> DEFINE q == configureReservesByHelper
               a == <<need("ElectroProtocolDataProvider")>>
    <2>1. block(c) = 1 /\ Program[c] = a \o q
      BY <1>2 DEF block, INITIALIZE, Program
    <2>2. q \in Seq(Step) /\ Len(q) = 9
      BY Routine
    <2>3. a \in Seq(Step) /\ Len(a) = 1
      <3>1. need("ElectroProtocolDataProvider") \in Step
        BY PlainSteps DEF Plain, Contracts
      <3> QED BY <3>1
    <2> HIDE DEF a, q
    <2>4. /\ Len(a \o q) = Len(a) + Len(q)
          /\ \A i \in 1..Len(q) : (a \o q)[Len(a) + i] = q[i]
      <3>1. \A s, t \in Seq(Step) : /\ Len(s \o t) = Len(s) + Len(t)
                                    /\ \A i \in 1..Len(t) : (s \o t)[Len(s) + i] = t[i]
        BY Parts
      <3> QED BY <2>2, <2>3, <3>1
    <2>5. Len(Program[c]) = 10 /\ \A k \in 1..9 : Program[c][1 + k] = q[k]
      <3>1. Len(a \o q) = 10
        BY <2>2, <2>3, <2>4
      <3>2. ASSUME NEW k \in 1..9 PROVE (a \o q)[1 + k] = q[k]
        <4>1. (a \o q)[Len(a) + k] = q[k]
          BY <2>2, <2>4
        <4> QED BY <2>3, <4>1
      <3> QED BY <2>1, <3>1, <3>2
    <2>6. 1 \in Nat /\ 10 \in Nat /\ 1 + 9 <= 10
      OBVIOUS
    <2> QED BY <2>1, <2>5, <2>6 DEF q
  <1> QED BY <1>1, <1>2 DEF Configures

\* Where the steps are that the invariant is about: s is the i-th step of call c.
SavedAfter(c, i, name) ==
    /\ i > 1
    /\ LET p == Program[c][i - 1]
       IN  \/ p.do = "create" /\ p.name = made(name)
           \/ p.do = "save" /\ p.name \in Workers /\ made(p.name) = made(name)
Located(c, i, s) ==
    /\ s \in Step
    /\ s.do = "save" /\ s.name \in Workers => SavedAfter(c, i, s.name)
    /\ s.do = "proxy" => s.name \in {"LendingPool", "LendingPoolConfigurator"}
    /\ s.do = "send" =>
         /\ s.name \in Messages
         /\ s.name = "lendAdmin" => c \in Configures /\ i = block(c) + 4
         /\ s.name = "configureReserves" => c \in Configures /\ i = block(c) + 6
         /\ s.name = "returnAdmin" => c \in Configures /\ i = block(c) + 8
         /\ s.name = "setOracleBorrowRates" => c = Lends /\ i = 4
         /\ s.name = "returnOracle" => c = Lends /\ i = 6
         /\ s.name = "batchInitReserve" =>
              c = INITIALIZE /\ \E k \in 1..Len(Reserves) :
                                  i = listing + 2 * k - 1 /\ s.assets = {Reserves[k]}
         /\ s.name = "setLendingPoolCollateralManager" => c = INITIALIZE /\ i = block(c) + 14
    /\ s.do = "read" => c \in Configures /\ i = block(c) + 3
    /\ s.do = "admin" => c = INITIALIZE /\ i = 3
    /\ s.do = "oracle" => c = 8 /\ i = 2
    /\ s.do = "adapter" => c = 8 /\ i = 7

LEMMA PlainLocated ==
    ASSUME NEW c, NEW i, NEW s \in Plain
    PROVE  Located(c, i, s)
  BY DEF Located, Plain, Watched

LEMMA RoutineLocated ==
    ASSUME NEW c \in Configures, NEW k \in 1..9
    PROVE  Located(c, block(c) + k, configureReservesByHelper[k])
  <1> DEFINE s == configureReservesByHelper[k]
  <1>1. CASE k \in {1, 2, 5, 7, 9}
    <2>1. s \in Plain
      BY <1>1, Routine, PlainSteps DEF Contracts
    <2> QED BY <2>1, PlainLocated
  <1>2. CASE k = 3
    <2>1. s \in Step /\ s.do = "read"
      BY <1>2, Routine, OtherSteps
    <2> QED BY <1>2, <2>1 DEF Located
  <1>3. CASE k \in {4, 6, 8}
    <2>1. s \in {send("lendAdmin"), send("configureReserves"), send("returnAdmin")}
      BY <1>3, Routine
    <2>2. s \in Step /\ s.do = "send"
      BY <2>1, OtherSteps DEF Messages
    <2>3. /\ k = 4 => s.name = "lendAdmin"
          /\ k = 6 => s.name = "configureReserves"
          /\ k = 8 => s.name = "returnAdmin"
      BY Routine, OtherSteps DEF Messages
    <2> QED BY <1>3, <2>2, <2>3 DEF Located, Messages
  <1> QED BY <1>1, <1>2, <1>3

LEMMA Locations ==
    ASSUME NEW c \in 1..9, NEW i \in 1..Len(Program[c])
    PROVE  Located(c, i, Program[c][i])
  <1> DEFINE s == Program[c][i]
  <1>1. CASE c \in {1, 2, 6}
    <2>1. Program[c] \in Seq(Plain)
      BY <1>1, PlainCalls
    <2>2. s \in Plain
      BY <2>1, ElementOfSeq
    <2> QED BY <2>2, PlainLocated
  <1>2. CASE c = 3
    <2>1. i \in 1..7
      BY <1>2, ConfiguratorCall
    <2>2. CASE i = 2
      <3>1. s = save("LendingPoolConfiguratorImpl") /\ Program[c][i - 1] = create("LendingPoolConfigurator")
        BY <1>2, <2>2, ConfiguratorCall
      <3>2. s \in Step /\ s.do = "save" /\ s.name = "LendingPoolConfiguratorImpl"
        BY <3>1 DEF save, step, Step, Text, Contracts
      <3>3. SavedAfter(c, i, s.name)
        BY <2>2, <3>1, <3>2 DEF SavedAfter, made, create, step
      <3> QED BY <3>2, <3>3 DEF Located
    <2>3. CASE i = 3
      <3>1. s = save("LendingPoolConfigurator") /\ Program[c][i - 1] = save("LendingPoolConfiguratorImpl")
        BY <1>2, <2>3, ConfiguratorCall
      <3>2. s \in Step /\ s.do = "save" /\ s.name = "LendingPoolConfigurator"
        BY <3>1 DEF save, step, Step, Text, Contracts
      <3>3. SavedAfter(c, i, s.name)
        BY <2>3, <3>1, <3>2 DEF SavedAfter, made, save, step, Workers
      <3> QED BY <3>2, <3>3 DEF Located
    <2>4. CASE i \notin {2, 3}
      <3>1. i \in {1, 4, 5, 6, 7}
        BY <2>1, <2>4
      <3>2. s \in Plain
        BY <1>2, <3>1, ConfiguratorCall, PlainSteps DEF Contracts, Messages, Watched
      <3> QED BY <3>2, PlainLocated
    <2> QED BY <2>2, <2>3, <2>4
  <1>3. CASE c = 4
    <2>1. i \in 1..12
      BY <1>3, HelpersCall
    <2>2. CASE i = 2
      <3>1. /\ s = save("StableAndVariableTokensHelper")
            /\ Program[c][i - 1] = create("StableAndVariableTokensHelper")
        BY <1>3, <2>2, HelpersCall
      <3>2. s \in Step /\ s.do = "save" /\ s.name = "StableAndVariableTokensHelper"
        BY <3>1 DEF save, step, Step, Text, Contracts
      <3>3. SavedAfter(c, i, s.name)
        BY <2>2, <3>1, <3>2 DEF SavedAfter, made, create, step
      <3> QED BY <3>2, <3>3 DEF Located
    <2>3. CASE i = 5
      <3>1. /\ s = save("ELTokensAndRatesHelper")
            /\ Program[c][i - 1] = create("ELTokensAndRatesHelper")
        BY <1>3, <2>3, HelpersCall
      <3>2. s \in Step /\ s.do = "save" /\ s.name = "ELTokensAndRatesHelper"
        BY <3>1 DEF save, step, Step, Text, Contracts
      <3>3. SavedAfter(c, i, s.name)
        BY <2>3, <3>1, <3>2 DEF SavedAfter, made, create, step
      <3> QED BY <3>2, <3>3 DEF Located
    <2>4. CASE i \notin {2, 5}
      <3>1. i \in {1, 3, 4, 6, 7, 8, 9, 10, 11, 12}
        BY <2>1, <2>4
      <3>2. s \in Plain
        BY <1>3, <3>1, HelpersCall, PlainSteps DEF Contracts, Messages, Watched
      <3> QED BY <3>2, PlainLocated
    <2> QED BY <2>2, <2>3, <2>4
  <1>4. CASE c = Lends
    <2>1. i \in 1..7
      BY <1>4, RatesCall
    <2>2. CASE i \in {1, 3, 5, 7}
      <3>1. s \in Plain
        BY <1>4, <2>2, RatesCall, PlainSteps DEF Contracts
      <3> QED BY <3>1, PlainLocated
    <2>3. CASE i \in {2, 4, 6}
      <3>1. s \in {send("lendOracle"), send("setOracleBorrowRates"), send("returnOracle")}
        BY <1>4, <2>3, RatesCall
      <3>2. s \in Step /\ s.do = "send"
        BY <3>1, OtherSteps DEF Messages
      <3>3. /\ i = 2 => s.name = "lendOracle"
            /\ i = 4 => s.name = "setOracleBorrowRates"
            /\ i = 6 => s.name = "returnOracle"
        BY <1>4, RatesCall DEF send, step
      <3> QED BY <1>4, <2>3, <3>2, <3>3 DEF Located, Messages
    <2> QED BY <2>1, <2>2, <2>3
  <1>5. CASE c = INITIALIZE
    <2> DEFINE n == Len(Reserves)
               b == listing + 2 * n
    <2>1. n \in Nat \ {0} /\ Reserves \in [1..n -> Assets]
      BY BatchSteps
    <2>2. listing \in Nat /\ b \in Nat /\ block(c) = b /\ i \in Nat \ {0}
      <3>1. listing \in Nat
        BY LeadSteps
      <3>2. Len(Program[c]) \in Nat
        BY <1>5, InitializeCall
      <3>3. i \in Nat \ {0}
        BY <3>2
      <3>4. block(c) = b
        BY <1>5 DEF block
      <3> QED BY <2>1, <3>1, <3>3, <3>4
    <2>3. CASE i \in 1..listing
      <3>1. CASE i = 3
        <4>1. s = step("admin", "")
          BY <1>5, <3>1, InitializeCall
        <4>2. s \in Step /\ s.do = "admin"
          BY <4>1, OtherSteps
        <4> QED BY <1>5, <3>1, <4>2 DEF Located
      <3>2. CASE i # 3
        <4>1. s \in Plain
          BY <1>5, <2>3, <3>2, InitializeCall
        <4> QED BY <4>1, PlainLocated
      <3> QED BY <3>1, <3>2
    <2>4. CASE i > listing /\ i <= b
      <3>1. PICK k \in 1..n : i = listing + 2 * k - 1 \/ i = listing + 2 * k
        <4>1. \E k \in 1..n : i - listing = 2 * k - 1 \/ i - listing = 2 * k
          <5> DEFINE m == i - listing
          <5>1. m \in 1..(2 * n)
            BY <2>1, <2>2, <2>4
          <5> HIDE DEF m
          <5>2. \E k \in 1..n : m = 2 * k - 1 \/ m = 2 * k
            BY <2>1, <5>1, Halves
          <5> QED BY <5>2 DEF m
        <4> QED BY <2>2, <4>1
      <3>2. CASE i = listing + 2 * k - 1
        <4>1. s = batchInitReserve(Reserves[k])[1]
          BY <1>5, <3>2, InitializeCall
        <4>2. s = [send("batchInitReserve") EXCEPT !.assets = {Reserves[k]}]
          BY <4>1 DEF batchInitReserve
        <4>3. Reserves[k] \in Assets
          BY <2>1
        <4>4. /\ s \in Step /\ s.do = "send" /\ s.name = "batchInitReserve"
              /\ s.assets = {Reserves[k]}
          BY <4>2, <4>3 DEF send, step, Step, Text, Messages
        <4> QED BY <1>5, <3>2, <4>4 DEF Located, Messages
      <3>3. CASE i = listing + 2 * k
        <4>1. s \in Plain
          BY <1>5, <3>3, InitializeCall, PlainSteps
        <4> QED BY <4>1, PlainLocated
      <3> QED BY <3>1, <3>2, <3>3
    <2>5. CASE i > b /\ i <= b + 9
      <3> HIDE DEF b
      <3>1. i - b \in 1..9 /\ i = block(c) + (i - b)
        BY <2>2, <2>5
      <3>2. c \in Configures
        BY <1>5 DEF Configures
      <3>3. s = configureReservesByHelper[i - b]
        BY <2>2, <3>1, <3>2, RoutineAt
      <3> QED BY <3>1, <3>2, <3>3, RoutineLocated
    <2>6. CASE i > b + 9 /\ i <= b + 18
      <3>1. \A k \in 1..9 : Program[c][b + 9 + k] = Manager[k]
        BY <1>5, InitializeCall
      <3> HIDE DEF b
      <3> DEFINE k == i - (b + 9)
      <3>2. k \in 1..9 /\ i = b + 9 + k
        BY <2>2, <2>6
      <3> HIDE DEF k
      <3>3. s = Manager[k]
        BY <3>1, <3>2
      <3>4. CASE k = 5
        <4>1. s = send("setLendingPoolCollateralManager")
          BY <3>3, <3>4, ManagerSteps
        <4>2. s \in Step /\ s.do = "send" /\ s.name = "setLendingPoolCollateralManager"
          BY <4>1 DEF send, step, Step, Text, Messages
        <4>3. i = block(c) + 14
          BY <2>2, <3>2, <3>4
        <4> QED BY <1>5, <4>2, <4>3 DEF Located, Messages
      <3>5. CASE k # 5
        <4>1. s \in Plain
          BY <3>2, <3>3, <3>5, ManagerSteps
        <4> QED BY <4>1, PlainLocated
      <3> QED BY <3>4, <3>5
    <2>7. CASE i > b + 18
      <3>1. \A k \in (b + 19)..Len(Program[c]) : Program[c][k] \in Plain
        BY <1>5, InitializeCall
      <3>2. Len(Program[c]) \in Nat
        BY <1>5, InitializeCall
      <3> HIDE DEF b
      <3>3. i \in (b + 19)..Len(Program[c])
        BY <2>2, <2>7, <3>2
      <3>4. s \in Plain
        BY <3>1, <3>3
      <3> QED BY <3>4, PlainLocated
    <2> HIDE DEF b
    <2> QED BY <2>2, <2>3, <2>4, <2>5, <2>6, <2>7
  <1>6. CASE c = 8
    <2>1. i \in 1..13
      BY <1>6, OracleCall
    <2>2. CASE i = 2
      <3>1. s = step("oracle", "")
        BY <1>6, <2>2, OracleCall
      <3>2. s \in Step /\ s.do = "oracle"
        BY <3>1, OtherSteps
      <3> QED BY <1>6, <2>2, <3>2 DEF Located
    <2>3. CASE i = 7
      <3>1. s = step("adapter", "")
        BY <1>6, <2>3, OracleCall
      <3>2. s \in Step /\ s.do = "adapter"
        BY <3>1, OtherSteps
      <3> QED BY <1>6, <2>3, <3>2 DEF Located
    <2>4. CASE i \notin {2, 7}
      <3>1. s \in Plain
        BY <1>6, <2>1, <2>4, OracleCall
      <3> QED BY <3>1, PlainLocated
    <2> QED BY <2>2, <2>3, <2>4
  <1>7. CASE c = 9
    <2>1. c \in Configures /\ block(c) = 1
      BY <1>7 DEF Configures, block, INITIALIZE
    <2>2. Len(Program[c]) = 10 /\ Program[c][1] = need("ElectroProtocolDataProvider")
      BY <1>7 DEF Program, configureReservesByHelper
    <2>3. CASE i = 1
      <3>1. s \in Plain
        BY <2>2, <2>3, PlainSteps DEF Contracts
      <3> QED BY <3>1, PlainLocated
    <2>4. CASE i # 1
      <3>1. i - 1 \in 1..9 /\ i = block(c) + (i - 1)
        BY <2>1, <2>2, <2>4
      <3>2. s = configureReservesByHelper[i - 1]
        BY <2>1, <3>1, RoutineAt
      <3> QED BY <2>1, <3>1, <3>2, RoutineLocated
    <2> QED BY <2>3, <2>4
  <1>8. c \in {1, 2, 6} \/ c = 3 \/ c = 4 \/ c = Lends \/ c = INITIALIZE \/ c = 8 \/ c = 9
    BY DEF Lends, INITIALIZE
  <1> QED BY <1>1, <1>2, <1>3, <1>4, <1>5, <1>6, <1>7, <1>8


-------------------------------------------------------------------------------
(***************************************************************************)
(* What a mined transaction changes.                                       *)
(***************************************************************************)
Happens(st, tx) == allowed(st, tx) /\ ~ isVoid(st, tx)
Does(st, tx, op) == Happens(st, tx) /\ tx.op = op
outcome(st, tx) == IF allowed(st, tx) THEN effect(st, tx) ELSE st

Effect(st, tx, e) ==
    /\ ChainOK(e) /\ e.code = st.code /\ e.failed = st.failed
    /\ e.admin = IF Does(st, tx, "lendAdmin") \/ Does(st, tx, "returnAdmin")
                 THEN tx.with[1] ELSE st.admin
    /\ e.oracleOwner = IF Does(st, tx, "lendOracle") \/ Does(st, tx, "returnOracle")
                       THEN tx.with[1] ELSE st.oracleOwner
    /\ e.rated = IF Does(st, tx, "setOracleBorrowRates") THEN st.rated \cup tx.assets
                 ELSE st.rated
    /\ e.listed = IF Does(st, tx, "batchInitReserve") THEN st.listed \cup tx.assets
                  ELSE st.listed
    /\ e.configured = IF Does(st, tx, "configureReserves") THEN st.configured \cup tx.assets
                      ELSE st.configured
    /\ e.manager = IF Does(st, tx, "setLendingPoolCollateralManager") THEN tx.with[1]
                   ELSE st.manager

LEMMA EffectFields ==
    ASSUME NEW st, ChainOK(st), NEW tx \in Creation \cup Message, Carries(tx),
           NEW e, e = outcome(st, tx)
    PROVE  Effect(st, tx, e)
  <1>1. CASE ~ Happens(st, tx)
    <2>1. e = st
      <3>1. isVoid(st, tx) => effect(st, tx) = st
        BY DEF effect
      <3> QED BY <1>1, <3>1 DEF Happens, outcome
    <2>2. \A op : ~ Does(st, tx, op)
      BY <1>1 DEF Does
    <2> QED BY <2>1, <2>2 DEF Effect
  <1>2. CASE Happens(st, tx)
    <2>1. tx.op # "create" /\ e = effect(st, tx) /\ ~ isVoid(st, tx)
      BY <1>2 DEF Happens, isVoid, outcome
    <2>2. tx \in Message
      BY <2>1 DEF Creation
    <2>3. tx.assets \subseteq Assets /\ tx.op \in Messages
      BY <2>2 DEF Message
    <2>20. \A op : Does(st, tx, op) <=> tx.op = op
      BY <1>2 DEF Does
    <2>4. CASE tx.op = "setLendingPoolImpl"
      <3>1. e = [st EXCEPT !.isPool = TRUE]
        BY <2>1, <2>4 DEF effect
      <3>2. /\ e.code = st.code /\ e.failed = st.failed /\ e.isPool = TRUE
          /\ e.configurator = st.configurator /\ e.ready = st.ready /\ e.admin = st.admin
          /\ e.oracleOwner = st.oracleOwner /\ e.rated = st.rated /\ e.listed = st.listed
          /\ e.configured = st.configured /\ e.manager = st.manager /\ e.data = st.data
          /\ e.priceOracle = st.priceOracle /\ e.adapters = st.adapters /\ e.named = st.named
        BY <3>1 DEF ChainOK
      <3>3. ChainOK(e)
        BY <2>3, <3>1, <3>2 DEF ChainOK
      <3> QED BY <2>20, <2>4, <3>2, <3>3 DEF Effect
    <2>5. CASE tx.op = "setLendingPoolConfiguratorImpl"
      <3> DEFINE v == IF st.isPool THEN "pool" ELSE "poolless"
      <3>1. e = [st EXCEPT !.configurator = v]
        BY <2>1, <2>5 DEF effect
      <3> HIDE DEF v
      <3>2. /\ e.code = st.code /\ e.failed = st.failed /\ e.isPool = st.isPool
          /\ e.configurator = v /\ e.ready = st.ready /\ e.admin = st.admin
          /\ e.oracleOwner = st.oracleOwner /\ e.rated = st.rated /\ e.listed = st.listed
          /\ e.configured = st.configured /\ e.manager = st.manager /\ e.data = st.data
          /\ e.priceOracle = st.priceOracle /\ e.adapters = st.adapters /\ e.named = st.named
        BY <3>1 DEF ChainOK
      <3>3. ChainOK(e)
        BY <2>3, <3>1, <3>2 DEF ChainOK
      <3> QED BY <2>20, <2>5, <3>2, <3>3 DEF Effect
    <2>6. CASE tx.op \in {"initTokensHelper", "initRatesHelper"}
      <3>1. e = [st EXCEPT !.ready = @ \cup {[helper |-> tx.to, configurator |-> tx.with[1]]}]
        BY <2>1, <2>6 DEF effect
      <3>2. /\ e.code = st.code /\ e.failed = st.failed /\ e.isPool = st.isPool
          /\ e.configurator = st.configurator /\ e.ready = st.ready \cup {[helper |-> tx.to, configurator |-> tx.with[1]]} /\ e.admin = st.admin
          /\ e.oracleOwner = st.oracleOwner /\ e.rated = st.rated /\ e.listed = st.listed
          /\ e.configured = st.configured /\ e.manager = st.manager /\ e.data = st.data
          /\ e.priceOracle = st.priceOracle /\ e.adapters = st.adapters /\ e.named = st.named
        BY <3>1 DEF ChainOK
      <3>3. ChainOK(e)
        BY <2>3, <3>1, <3>2 DEF ChainOK
      <3> QED BY <2>20, <2>6, <3>2, <3>3 DEF Effect
    <2>7. CASE tx.op \in {"lendAdmin", "returnAdmin"}
      <3>1. e = [st EXCEPT !.admin = tx.with[1]]
        BY <2>1, <2>7 DEF effect
      <3>2. /\ e.code = st.code /\ e.failed = st.failed /\ e.isPool = st.isPool
          /\ e.configurator = st.configurator /\ e.ready = st.ready /\ e.admin = tx.with[1]
          /\ e.oracleOwner = st.oracleOwner /\ e.rated = st.rated /\ e.listed = st.listed
          /\ e.configured = st.configured /\ e.manager = st.manager /\ e.data = st.data
          /\ e.priceOracle = st.priceOracle /\ e.adapters = st.adapters /\ e.named = st.named
        BY <3>1 DEF ChainOK
      <3>3. ChainOK(e)
        <4>1. tx.with[1] \in Int
          BY <2>7 DEF Carries
        <4> QED BY <3>1, <3>2, <4>1 DEF ChainOK
      <3> QED BY <2>20, <2>7, <3>2, <3>3 DEF Effect
    <2>8. CASE tx.op \in {"lendOracle", "returnOracle"}
      <3>1. e = [st EXCEPT !.oracleOwner = tx.with[1]]
        BY <2>1, <2>8 DEF effect
      <3>2. /\ e.code = st.code /\ e.failed = st.failed /\ e.isPool = st.isPool
          /\ e.configurator = st.configurator /\ e.ready = st.ready /\ e.admin = st.admin
          /\ e.oracleOwner = tx.with[1] /\ e.rated = st.rated /\ e.listed = st.listed
          /\ e.configured = st.configured /\ e.manager = st.manager /\ e.data = st.data
          /\ e.priceOracle = st.priceOracle /\ e.adapters = st.adapters /\ e.named = st.named
        BY <3>1 DEF ChainOK
      <3>3. ChainOK(e)
        BY <2>3, <3>1, <3>2 DEF ChainOK
      <3> QED BY <2>20, <2>8, <3>2, <3>3 DEF Effect
    <2>9. CASE tx.op = "setOracleBorrowRates"
      <3>1. e = [st EXCEPT !.rated = @ \cup tx.assets]
        BY <2>1, <2>9 DEF effect
      <3>2. /\ e.code = st.code /\ e.failed = st.failed /\ e.isPool = st.isPool
          /\ e.configurator = st.configurator /\ e.ready = st.ready /\ e.admin = st.admin
          /\ e.oracleOwner = st.oracleOwner /\ e.rated = st.rated \cup tx.assets /\ e.listed = st.listed
          /\ e.configured = st.configured /\ e.manager = st.manager /\ e.data = st.data
          /\ e.priceOracle = st.priceOracle /\ e.adapters = st.adapters /\ e.named = st.named
        BY <3>1 DEF ChainOK
      <3>3. ChainOK(e)
        BY <2>3, <3>1, <3>2 DEF ChainOK
      <3> QED BY <2>20, <2>9, <3>2, <3>3 DEF Effect
    <2>10. CASE tx.op = "batchInitReserve"
      <3>1. e = [st EXCEPT !.listed = @ \cup tx.assets]
        BY <2>1, <2>10 DEF effect
      <3>2. /\ e.code = st.code /\ e.failed = st.failed /\ e.isPool = st.isPool
          /\ e.configurator = st.configurator /\ e.ready = st.ready /\ e.admin = st.admin
          /\ e.oracleOwner = st.oracleOwner /\ e.rated = st.rated /\ e.listed = st.listed \cup tx.assets
          /\ e.configured = st.configured /\ e.manager = st.manager /\ e.data = st.data
          /\ e.priceOracle = st.priceOracle /\ e.adapters = st.adapters /\ e.named = st.named
        BY <3>1 DEF ChainOK
      <3>3. ChainOK(e)
        BY <2>3, <3>1, <3>2 DEF ChainOK
      <3> QED BY <2>20, <2>10, <3>2, <3>3 DEF Effect
    <2>11. CASE tx.op = "configureReserves"
      <3>1. e = [st EXCEPT !.configured = @ \cup tx.assets]
        BY <2>1, <2>11 DEF effect
      <3>2. /\ e.code = st.code /\ e.failed = st.failed /\ e.isPool = st.isPool
          /\ e.configurator = st.configurator /\ e.ready = st.ready /\ e.admin = st.admin
          /\ e.oracleOwner = st.oracleOwner /\ e.rated = st.rated /\ e.listed = st.listed
          /\ e.configured = st.configured \cup tx.assets /\ e.manager = st.manager /\ e.data = st.data
          /\ e.priceOracle = st.priceOracle /\ e.adapters = st.adapters /\ e.named = st.named
        BY <3>1 DEF ChainOK
      <3>3. ChainOK(e)
        BY <2>3, <3>1, <3>2 DEF ChainOK
      <3> QED BY <2>20, <2>11, <3>2, <3>3 DEF Effect
    <2>12. CASE tx.op = "setLendingPoolCollateralManager"
      <3>1. e = [st EXCEPT !.manager = tx.with[1]]
        BY <2>1, <2>12 DEF effect
      <3>2. /\ e.code = st.code /\ e.failed = st.failed /\ e.isPool = st.isPool
          /\ e.configurator = st.configurator /\ e.ready = st.ready /\ e.admin = st.admin
          /\ e.oracleOwner = st.oracleOwner /\ e.rated = st.rated /\ e.listed = st.listed
          /\ e.configured = st.configured /\ e.manager = tx.with[1] /\ e.data = st.data
          /\ e.priceOracle = st.priceOracle /\ e.adapters = st.adapters /\ e.named = st.named
        BY <3>1 DEF ChainOK
      <3>3. ChainOK(e)
        BY <2>3, <3>1, <3>2 DEF ChainOK
      <3> QED BY <2>20, <2>12, <3>2, <3>3 DEF Effect
    <2>13. CASE tx.op = "setAddress"
      <3>1. e = [st EXCEPT !.data = tx.with[1]]
        BY <2>1, <2>13 DEF effect
      <3>2. /\ e.code = st.code /\ e.failed = st.failed /\ e.isPool = st.isPool
          /\ e.configurator = st.configurator /\ e.ready = st.ready /\ e.admin = st.admin
          /\ e.oracleOwner = st.oracleOwner /\ e.rated = st.rated /\ e.listed = st.listed
          /\ e.configured = st.configured /\ e.manager = st.manager /\ e.data = tx.with[1]
          /\ e.priceOracle = st.priceOracle /\ e.adapters = st.adapters /\ e.named = st.named
        BY <3>1 DEF ChainOK
      <3>3. ChainOK(e)
        BY <2>3, <3>1, <3>2 DEF ChainOK
      <3> QED BY <2>20, <2>13, <3>2, <3>3 DEF Effect
    <2>14. CASE tx.op = "setPriceOracle"
      <3>1. e = [st EXCEPT !.priceOracle = tx.with[1]]
        BY <2>1, <2>14 DEF effect
      <3>2. /\ e.code = st.code /\ e.failed = st.failed /\ e.isPool = st.isPool
          /\ e.configurator = st.configurator /\ e.ready = st.ready /\ e.admin = st.admin
          /\ e.oracleOwner = st.oracleOwner /\ e.rated = st.rated /\ e.listed = st.listed
          /\ e.configured = st.configured /\ e.manager = st.manager /\ e.data = st.data
          /\ e.priceOracle = tx.with[1] /\ e.adapters = st.adapters /\ e.named = st.named
        BY <3>1 DEF ChainOK
      <3>3. ChainOK(e)
        <4>1. tx.with[1] \in Int
          BY <2>14 DEF Carries
        <4> QED BY <3>1, <3>2, <4>1 DEF ChainOK
      <3> QED BY <2>20, <2>14, <3>2, <3>3 DEF Effect
    <2>15. CASE tx.op = "initializeOracle"
      <3>1. e = [st EXCEPT !.adapters = @ \cup {[oracle |-> tx.to, adapter |-> tx.with[1]]}]
        BY <2>1, <2>15 DEF effect
      <3>2. /\ e.code = st.code /\ e.failed = st.failed /\ e.isPool = st.isPool
          /\ e.configurator = st.configurator /\ e.ready = st.ready /\ e.admin = st.admin
          /\ e.oracleOwner = st.oracleOwner /\ e.rated = st.rated /\ e.listed = st.listed
          /\ e.configured = st.configured /\ e.manager = st.manager /\ e.data = st.data
          /\ e.priceOracle = st.priceOracle /\ e.adapters = st.adapters \cup {[oracle |-> tx.to, adapter |-> tx.with[1]]} /\ e.named = st.named
        BY <3>1 DEF ChainOK
      <3>3. ChainOK(e)
        <4>1. tx.with[1] \in Int
          BY <2>15 DEF Carries
        <4>2. \A held \in e.adapters : held.adapter \in Int
          <5>1. \A held \in st.adapters : held.adapter \in Int
            BY DEF ChainOK
          <5>2. [oracle |-> tx.to, adapter |-> tx.with[1]].adapter \in Int
            BY <4>1
          <5>3. e.adapters = st.adapters \cup {[oracle |-> tx.to, adapter |-> tx.with[1]]}
            BY <3>2
          <5> HIDE <4>1
          <5> QED BY <5>1, <5>2, <5>3, Zenon
        <4>3. e = [code |-> e.code, failed |-> e.failed, isPool |-> e.isPool,
                   configurator |-> e.configurator, ready |-> e.ready, admin |-> e.admin,
                   oracleOwner |-> e.oracleOwner, rated |-> e.rated, listed |-> e.listed,
                   configured |-> e.configured, manager |-> e.manager, data |-> e.data,
                   priceOracle |-> e.priceOracle, adapters |-> e.adapters, named |-> e.named]
          BY <3>1 DEF ChainOK
        <4> QED BY <3>2, <4>2, <4>3 DEF ChainOK
      <3> QED BY <2>20, <2>15, <3>2, <3>3 DEF Effect
    <2>16. CASE tx.op = "setAssetSymbols"
      <3>1. e = [st EXCEPT !.named = @ \cup {tx.to}]
        BY <2>1, <2>16 DEF effect
      <3>2. /\ e.code = st.code /\ e.failed = st.failed /\ e.isPool = st.isPool
          /\ e.configurator = st.configurator /\ e.ready = st.ready /\ e.admin = st.admin
          /\ e.oracleOwner = st.oracleOwner /\ e.rated = st.rated /\ e.listed = st.listed
          /\ e.configured = st.configured /\ e.manager = st.manager /\ e.data = st.data
          /\ e.priceOracle = st.priceOracle /\ e.adapters = st.adapters /\ e.named = st.named \cup {tx.to}
        BY <3>1 DEF ChainOK
      <3>3. ChainOK(e)
        BY <2>3, <3>1, <3>2 DEF ChainOK
      <3> QED BY <2>20, <2>16, <3>2, <3>3 DEF Effect
    <2>17. CASE tx.op \in {"registerAddressesProvider", "initialize", "authorizeLendingPool"}
      <3>1. e = st
        BY <2>1, <2>17 DEF effect
      <3> QED BY <2>20, <2>17, <3>1 DEF Effect
    <2> QED BY <2>3, <2>4, <2>5, <2>6, <2>7, <2>8, <2>9, <2>10, <2>11, <2>12, <2>13, <2>14, <2>15, <2>16, <2>17 DEF Messages
  <1> QED BY <1>1, <1>2


\* The same for the whole transaction: it also takes the next address.
Change(st, tx, m) ==
    /\ ChainOK(m)
    /\ m.code = Append(st.code, IF tx.op = "create" THEN tx.name ELSE "")
    /\ m.failed = IF allowed(st, tx) THEN st.failed ELSE st.failed \cup {Len(st.code) + 1}
    /\ m.admin = IF Does(st, tx, "lendAdmin") \/ Does(st, tx, "returnAdmin")
                 THEN tx.with[1] ELSE st.admin
    /\ m.oracleOwner = IF Does(st, tx, "lendOracle") \/ Does(st, tx, "returnOracle")
                       THEN tx.with[1] ELSE st.oracleOwner
    /\ m.rated = IF Does(st, tx, "setOracleBorrowRates") THEN st.rated \cup tx.assets
                 ELSE st.rated
    /\ m.listed = IF Does(st, tx, "batchInitReserve") THEN st.listed \cup tx.assets
                  ELSE st.listed
    /\ m.configured = IF Does(st, tx, "configureReserves") THEN st.configured \cup tx.assets
                      ELSE st.configured
    /\ m.manager = IF Does(st, tx, "setLendingPoolCollateralManager") THEN tx.with[1]
                   ELSE st.manager

LEMMA MinedFields ==
    ASSUME NEW st, ChainOK(st), NEW tx \in Creation \cup Message, Carries(tx)
    PROVE  Change(st, tx, mined(st, tx))
  <1> DEFINE e == outcome(st, tx)
             c == Append(st.code, IF tx.op = "create" THEN tx.name ELSE "")
             f == IF allowed(st, tx) THEN st.failed ELSE st.failed \cup {Len(st.code) + 1}
             m == mined(st, tx)
  <1>1. Effect(st, tx, e)
    BY EffectFields
  <1>2. m = [e EXCEPT !.code = c, !.failed = f]
    <2>1. e.code = st.code /\ e.failed = st.failed
      BY <1>1 DEF Effect
    <2>2. m = [e EXCEPT !.code = Append(@, IF tx.op = "create" THEN tx.name ELSE ""),
                        !.failed = IF allowed(st, tx) THEN @ ELSE @ \cup {Len(st.code) + 1}]
      BY DEF mined, outcome
    <2> HIDE DEF e, m
    <2> QED BY <2>1, <2>2
  <1>3. c \in Seq(Text)
    <2>1. st.code \in Seq(Text)
      BY DEF ChainOK
    <2>2. tx.op = "create" => tx.name \in Text
      BY DEF Creation, Message, Messages
    <2>3. "" \in Text
      BY DEF Text
    <2> DEFINE t == IF tx.op = "create" THEN tx.name ELSE ""
    <2>4. t \in Text
      BY <2>2, <2>3
    <2> HIDE DEF t
    <2>5. Append(st.code, t) \in Seq(Text)
      BY <2>1, <2>4
    <2> QED BY <2>5 DEF t
  <1> HIDE DEF e, c, f, m
  <1>4. e = [code |-> e.code, failed |-> e.failed, isPool |-> e.isPool,
             configurator |-> e.configurator, ready |-> e.ready, admin |-> e.admin,
             oracleOwner |-> e.oracleOwner, rated |-> e.rated, listed |-> e.listed,
             configured |-> e.configured, manager |-> e.manager, data |-> e.data,
             priceOracle |-> e.priceOracle, adapters |-> e.adapters, named |-> e.named]
    BY <1>1 DEF Effect, ChainOK
  <1>5. m = [code |-> c, failed |-> f, isPool |-> e.isPool,
             configurator |-> e.configurator, ready |-> e.ready, admin |-> e.admin,
             oracleOwner |-> e.oracleOwner, rated |-> e.rated, listed |-> e.listed,
             configured |-> e.configured, manager |-> e.manager, data |-> e.data,
             priceOracle |-> e.priceOracle, adapters |-> e.adapters, named |-> e.named]
    BY <1>2, <1>4
  <1>6. /\ m.code = c /\ m.failed = f /\ m.isPool = e.isPool
        /\ m.configurator = e.configurator /\ m.ready = e.ready /\ m.admin = e.admin
        /\ m.oracleOwner = e.oracleOwner /\ m.rated = e.rated /\ m.listed = e.listed
        /\ m.configured = e.configured /\ m.manager = e.manager /\ m.data = e.data
        /\ m.priceOracle = e.priceOracle /\ m.adapters = e.adapters /\ m.named = e.named
    BY <1>5
  <1>7. ChainOK(m)
    <2>1. /\ e.rated \in SUBSET Assets /\ e.listed \in SUBSET Assets
          /\ e.configured \in SUBSET Assets
          /\ e.admin \in Int /\ e.priceOracle \in Int
          /\ \A held \in e.adapters : held.adapter \in Int
      BY <1>1 DEF Effect, ChainOK
    <2> QED BY <1>3, <1>5, <1>6, <2>1 DEF ChainOK
  <1>8. /\ m.code = Append(st.code, IF tx.op = "create" THEN tx.name ELSE "")
        /\ m.failed = IF allowed(st, tx) THEN st.failed ELSE st.failed \cup {Len(st.code) + 1}
    BY <1>6 DEF c, f
  <1>9. Change(st, tx, m)
    BY <1>1, <1>6, <1>7, <1>8 DEF Effect, Change
  <1> QED BY <1>9 DEF m

-------------------------------------------------------------------------------
(***************************************************************************)
(* The steps of a call.                                                    *)
(***************************************************************************)
\* A running call makes one of its steps.
Move ==
    \/ Create \/ Save \/ SaveProxy \/ Waited \/ Sent \/ Need
    \/ ReadAdmin \/ ReadReserves \/ ReadOracle \/ ReadAdapter

\* A transaction is added.
Push(tx) ==
    pool' = Append(pool, tx) /\ call' = [call EXCEPT !.pc = @ + 1, !.sent = pendingNonce]

LEMMA CallNumbers == DOMAIN Program = 1..9 /\ Len(Program) = 9
  BY DEF Program

\* Everything but the loss of transactions.
Kinds ==
    \/ UNCHANGED <<chain, pool, db, call>>
    \/ \E number \in 1..9 :
         /\ call' = [Idle EXCEPT !.number = number, !.at = "running"]
         /\ UNCHANGED <<chain, pool, db>>
    \/ call' = [call EXCEPT !.at = "dead"] /\ UNCHANGED <<chain, pool, db>>
    \/ Finish \/ Mine \/ Move

LEMMA StepKinds ==
    ASSUME [Next]_vars
    PROVE  Lose \/ (losses' = losses /\ Kinds)
  <1>1. CASE UNCHANGED vars
    BY <1>1 DEF vars, Kinds
  <1>2. CASE \E number \in DOMAIN Program : Start(number)
    BY <1>2, CallNumbers DEF Start, Kinds
  <1>3. CASE Proceed
    <2>1. CASE Reverted \/ Refused \/ Missing \/ Unreadable
      BY <2>1 DEF Reverted, Refused, Missing, Unreadable, Dies, Kinds
    <2>2. CASE Move
      <3>1. losses' = losses
        BY <2>2 DEF Move, Create, Save, SaveProxy, Waited, Sent, Need, ReadAdmin,
                    ReadReserves, ReadOracle, ReadAdapter
      <3> QED BY <2>2, <3>1 DEF Kinds
    <2>3. CASE Finish
      <3>1. losses' = losses
        BY <2>3 DEF Finish
      <3> QED BY <2>3, <3>1 DEF Kinds
    <2> QED BY <1>3, <2>1, <2>2, <2>3 DEF Proceed, Move
  <1>4. CASE Mine
    <2>1. losses' = losses
      BY <1>4 DEF Mine
    <2> QED BY <1>4, <2>1 DEF Kinds
  <1>5. CASE Die
    BY <1>5 DEF Die, Dies, Kinds
  <1>6. Next \/ UNCHANGED vars
    OBVIOUS
  <1> QED BY <1>1, <1>2, <1>3, <1>4, <1>5, <1>6 DEF Next

LEMMA Lengths == \A c \in 1..9 : Len(Program[c]) \in Nat
  <1> SUFFICES ASSUME NEW c \in 1..9 PROVE Len(Program[c]) \in Nat
    OBVIOUS
  <1>1. CASE c \in {1, 2, 6}
    BY <1>1, PlainCalls
  <1>2. CASE c \in {3, 4}
    BY <1>2, ConfiguratorCall, HelpersCall
  <1>3. CASE c = 5
    BY <1>3, RatesCall DEF Lends
  <1>5. CASE c = 8
    <2>1. Len(Program[8]) = 13
      BY OracleCall
    <2> QED BY <1>5, <2>1
  <1>4. CASE c \in Configures
    BY <1>4, RoutineAt
  <1> QED BY <1>1, <1>2, <1>3, <1>4, <1>5 DEF Configures, INITIALIZE

\* A call that makes a step is in its sequence.
LEMMA Running ==
    ASSUME Typed, Alive, call.pc <= Len(steps)
    PROVE  /\ call.number \in 1..9 /\ call.pc \in 1..Len(Program[call.number])
           /\ current = Program[call.number][call.pc]
           /\ Located(call.number, call.pc, current)
  <1>1. call.number \in 1..9
    BY CallNumbers DEF Typed
  <1>2. Len(Program[call.number]) \in Nat
    BY <1>1, Lengths
  <1>3. call.pc \in 1..Len(Program[call.number])
    BY <1>2 DEF Typed, steps
  <1> QED BY <1>1, <1>3, Locations DEF current, steps


\* The JSON file has an entry for each contract that a message goes to or is about.
LEMMA SavesAt ==
    /\ Len(Program[1]) = 7 /\ Program[1][2] = save("LendingPoolAddressesProviderRegistry")
    /\ Len(Program[6]) = 15
    /\ Program[6][2] = save("ElectroProtocolDataProvider")
    /\ Program[6][5] = save("ELToken") /\ Program[6][8] = save("StableDebtToken")
    /\ Program[6][11] = save("VariableDebtToken") /\ Program[6][14] = save("WETHGateway")
  <1>1. Len(Program[1]) = 7 /\ Program[1][2] = save("LendingPoolAddressesProviderRegistry")
    BY DEF Program, addMarketToRegistry, deployLendingPoolAddressesProviderRegistry,
           withSaveAndVerify
  <1>2. /\ Len(Program[6]) = 15
        /\ Program[6][2] = save("ElectroProtocolDataProvider")
        /\ Program[6][5] = save("ELToken") /\ Program[6][8] = save("StableDebtToken")
        /\ Program[6][11] = save("VariableDebtToken") /\ Program[6][14] = save("WETHGateway")
    BY DEF Program, setImplementations, deployElectroProtocolDataProvider,
           deployELTokenImplementations, deployGenericELTokenImpl, deployGenericStableDebtToken,
           deployGenericVariableDebtToken, deployWETHGateway, withSaveAndVerify
  <1> QED BY <1>1, <1>2

LEMMA Entries ==
    {"LendingPoolAddressesProviderRegistry", "LendingPoolConfigurator",
     "StableAndVariableTokensHelper", "ELTokensAndRatesHelper", "WETHGateway", "ELToken",
     "StableDebtToken", "VariableDebtToken", "ElectroProtocolDataProvider",
     "LendingPoolConfiguratorImpl"} \subseteq Names
  <1>1. ASSUME NEW c \in 1..9, NEW i \in 1..Len(Program[c]), NEW name,
               Program[c][i] = save(name)
        PROVE  name \in Names
    <2>1. Program[c][i] \in ToSet(Program[c])
      BY DEF ToSet
    <2>2. Program[c][i].do = "save" /\ Program[c][i].name = name
      BY <1>1 DEF save, step
    <2> QED BY <2>1, <2>2, CallNumbers DEF Names
  <1>2. "StableAndVariableTokensHelper" \in Names
    <2>1. 2 \in 1..Len(Program[4]) /\ Program[4][2] = save("StableAndVariableTokensHelper")
      BY HelpersCall
    <2> QED BY <1>1, <2>1
  <1>3. "ELTokensAndRatesHelper" \in Names
    <2>1. 5 \in 1..Len(Program[4]) /\ Program[4][5] = save("ELTokensAndRatesHelper")
      BY HelpersCall
    <2> QED BY <1>1, <2>1
  <1>4. "LendingPoolConfigurator" \in Names
    <2>1. 3 \in 1..Len(Program[3]) /\ Program[3][3] = save("LendingPoolConfigurator")
      BY ConfiguratorCall
    <2> QED BY <1>1, <2>1
  <1>5. "LendingPoolAddressesProviderRegistry" \in Names
    <2>1. 2 \in 1..Len(Program[1]) /\ Program[1][2] = save("LendingPoolAddressesProviderRegistry")
      BY SavesAt
    <2> QED BY <1>1, <2>1
  <1>6. "ElectroProtocolDataProvider" \in Names
    <2>1. 2 \in 1..Len(Program[6]) /\ Program[6][2] = save("ElectroProtocolDataProvider")
      BY SavesAt
    <2> QED BY <1>1, <2>1
  <1>7. "ELToken" \in Names
    <2>1. 5 \in 1..Len(Program[6]) /\ Program[6][5] = save("ELToken")
      BY SavesAt
    <2> QED BY <1>1, <2>1
  <1>8. "StableDebtToken" \in Names
    <2>1. 8 \in 1..Len(Program[6]) /\ Program[6][8] = save("StableDebtToken")
      BY SavesAt
    <2> QED BY <1>1, <2>1
  <1>9. "VariableDebtToken" \in Names
    <2>1. 11 \in 1..Len(Program[6]) /\ Program[6][11] = save("VariableDebtToken")
      BY SavesAt
    <2> QED BY <1>1, <2>1
  <1>10. "WETHGateway" \in Names
    <2>1. 14 \in 1..Len(Program[6]) /\ Program[6][14] = save("WETHGateway")
      BY SavesAt
    <2> QED BY <1>1, <2>1
  <1>11. "LendingPoolConfiguratorImpl" \in Names
    <2>1. 2 \in 1..Len(Program[3]) /\ Program[3][2] = save("LendingPoolConfiguratorImpl")
      BY ConfiguratorCall
    <2> QED BY <1>1, <2>1
  <1> QED BY <1>2, <1>3, <1>4, <1>5, <1>6, <1>7, <1>8, <1>9, <1>10, <1>11


\* What a step changes, by what it does.
Moved ==
    /\ Alive /\ call.pc <= Len(steps) /\ chain' = chain
    /\ call'.number = call.number /\ call'.at = "running"
    /\ current.do = "create" =>
         /\ pool' = Append(pool, [op |-> "create", name |-> current.name, to |-> NOBODY])
         /\ call'.address = last + 1 /\ call'.sent = last + 1
    /\ current.do = "send" => pool' = Append(pool, transaction) /\ call'.sent = last + 1
    /\ current.do \notin {"create", "send"} => pool' = pool /\ call'.sent = call.sent
    /\ current.do = "save" => db' = [db EXCEPT ![current.name] = call.address]
    /\ current.do = "proxy" =>
         db' = [db EXCEPT ![current.name] = IF current.name = "LendingPool"
                                             THEN POOL ELSE CONFIGURATOR]
    /\ current.do \notin {"save", "proxy"} => db' = db
    /\ current.do = "wait" => call.sent <= Len(chain.code) /\ call.sent \notin chain.failed
    /\ current.do = "need" => db[current.name] # NOBODY
    /\ call'.admin = IF current.do = "admin" THEN chain.admin ELSE call.admin
    /\ call'.todo = IF current.do = "read" THEN Assets \ chain.configured ELSE call.todo
    /\ current.do \notin {"create", "oracle", "adapter"} => call'.address = call.address
    /\ \/ call'.pc = call.pc + 1
       \/ current.do = "read" /\ Assets \ chain.configured = {} /\ call'.pc = call.pc + 7
       \/ current.do \in {"oracle", "adapter"} /\ call'.pc = call.pc + 5
    /\ current.do = "read" /\ Assets \ chain.configured = {} => call'.pc = call.pc + 7

LEMMA MoveFacts ==
    ASSUME Typed, Move
    PROVE  Moved
  <1>1. call = [number |-> call.number, pc |-> call.pc, address |-> call.address,
                sent |-> call.sent, admin |-> call.admin, oracle |-> call.oracle,
                todo |-> call.todo, at |-> call.at]
    BY DEF Typed
  <1>2. pendingNonce = last + 1
    BY DEF pendingNonce, last
  <1>3. CASE Create
    BY <1>1, <1>2, <1>3 DEF Create, Doing, Alive, advance, Moved
  <1>4. CASE Save
    BY <1>1, <1>4 DEF Save, Doing, Alive, advance, Moved
  <1>5. CASE SaveProxy
    BY <1>1, <1>5 DEF SaveProxy, Doing, Alive, advance, Moved
  <1>6. CASE Waited
    BY <1>1, <1>6 DEF Waited, Doing, Alive, advance, Moved
  <1>7. CASE Sent
    BY <1>1, <1>2, <1>7 DEF Sent, Doing, Alive, advance, Moved
  <1>8. CASE Need
    BY <1>1, <1>8 DEF Need, Doing, Alive, advance, Moved
  <1>9. CASE ReadAdmin
    BY <1>1, <1>9 DEF ReadAdmin, Doing, Alive, advance, Moved
  <1>10. CASE ReadReserves
    BY <1>1, <1>10 DEF ReadReserves, Doing, Alive, advance, Moved
  <1>11. CASE ReadOracle
    BY <1>1, <1>11 DEF ReadOracle, Doing, Alive, advance, Moved
  <1>12. CASE ReadAdapter
    <2>1. \E a : call' = [advance(1) EXCEPT !.oracle = call.address] 
                 \/ call' = [advance(5) EXCEPT !.oracle = call.address, !.address = a]
      BY <1>12 DEF ReadAdapter
    <2>2. /\ Doing("adapter") /\ chain' = chain /\ pool' = pool /\ db' = db
      BY <1>12 DEF ReadAdapter
    <2> QED BY <1>1, <2>1, <2>2 DEF Doing, Alive, advance, Moved
  <1> QED BY <1>3, <1>4, <1>5, <1>6, <1>7, <1>8, <1>9, <1>10, <1>11, <1>12 DEF Move


\* What mining the first pending transaction changes.
MinedFirst ==
    /\ pool # <<>> /\ Len(pool) >= 1
    /\ pool[1] \in Creation \cup Message /\ Carries(pool[1])
    /\ Change(chain, pool[1], chain')
    /\ call' = call /\ db' = db
    /\ pool' \in Seq(Creation \cup Message) /\ Len(pool') = Len(pool) - 1
    /\ \A i \in 1..Len(pool') : i + 1 \in 1..Len(pool) /\ pool'[i] = pool[i + 1]
    /\ pool' # <<>> => Len(pool') >= 1 /\ pool'[Len(pool')] = pool[Len(pool)]
    /\ pool' = <<>> => Len(pool) = 1
    /\ Len(chain'.code) = Len(chain.code) + 1
    /\ chain.rated \subseteq chain'.rated /\ chain.listed \subseteq chain'.listed
    /\ chain.configured \subseteq chain'.configured

LEMMA Counts ==
    ASSUME Typed
    PROVE  /\ Len(chain.code) \in Nat /\ Len(pool) \in Nat /\ last \in Nat
           /\ last = Len(chain.code) + Len(pool)
  <1>1. chain.code \in Seq(Text) /\ pool \in Seq(Creation \cup Message)
    BY DEF Typed, ChainOK
  <1>2. Len(chain.code) \in Nat /\ Len(pool) \in Nat
    BY <1>1
  <1> QED BY <1>2 DEF last

LEMMA MineFacts ==
    ASSUME Typed, Mine
    PROVE  MinedFirst
  <1>1. /\ pool # <<>> /\ chain' = mined(chain, Head(pool)) /\ pool' = Tail(pool)
        /\ call' = call /\ db' = db
    BY DEF Mine
  <1>2. /\ pool \in Seq(Creation \cup Message) /\ ChainOK(chain)
        /\ \A i \in 1..Len(pool) : Carries(pool[i])
    BY DEF Typed
  <1>3. /\ Len(pool) \in Nat /\ Len(pool) >= 1 /\ Head(pool) = pool[1]
        /\ Tail(pool) \in Seq(Creation \cup Message) /\ Len(Tail(pool)) = Len(pool) - 1
    BY <1>1, <1>2
  <1>4. \A i \in 1..Len(Tail(pool)) : i + 1 \in 1..Len(pool) /\ Tail(pool)[i] = pool[i + 1]
    BY <1>1, <1>2, <1>3
  <1>5. pool[1] \in Creation \cup Message /\ Carries(pool[1])
    BY <1>2, <1>3, ElementOfSeq
  <1>6. Change(chain, pool[1], chain')
    BY <1>1, <1>2, <1>3, <1>5, MinedFields
  <1>7. pool' # <<>> => Len(pool') >= 1 /\ pool'[Len(pool')] = pool[Len(pool)]
    <2>1. pool' # <<>> => Len(pool') >= 1
      BY <1>1, <1>3
    <2> QED BY <1>1, <1>3, <1>4, <2>1
  <1>8. pool' = <<>> => Len(pool) = 1
    <2>1. Len(pool') = Len(pool) - 1
      BY <1>1, <1>3
    <2>2. pool' = <<>> => Len(pool') = 0
      OBVIOUS
    <2>3. Len(pool) \in Nat
      BY <1>3
    <2> QED BY <2>1, <2>2, <2>3
  <1>9. Len(chain'.code) = Len(chain.code) + 1
    <2>1. chain.code \in Seq(Text)
      BY <1>2 DEF ChainOK
    <2>2. \A t : Len(Append(chain.code, t)) = Len(chain.code) + 1
      BY <2>1
    <2> QED BY <1>6, <2>2 DEF Change
  <1>10. /\ chain.rated \subseteq chain'.rated /\ chain.listed \subseteq chain'.listed
         /\ chain.configured \subseteq chain'.configured
    BY <1>6 DEF Change
  <1> QED BY <1>1, <1>3, <1>4, <1>5, <1>6, <1>7, <1>8, <1>9, <1>10 DEF MinedFirst

\* The chain and what waits for it only grow, and keep what they have.
Grows ==
    /\ Len(chain'.code) >= Len(chain.code) /\ Len(chain'.code) \in Nat
    /\ last' >= last /\ last' \in Nat
    /\ \A n \in 1..last : content(n)' = content(n)

LEMMA PushGrows ==
    ASSUME Typed, NEW tx, pool' = Append(pool, tx), chain' = chain
    PROVE  /\ Grows /\ last' = last + 1 /\ Len(pool') = Len(pool) + 1
           /\ pool' # <<>> /\ pool'[Len(pool')] = tx
           /\ \A i \in 1..Len(pool) : pool'[i] = pool[i]
           /\ \A n : n = last + 1 => content(n)' = IF tx.op = "create" THEN tx.name ELSE ""
  <1>1. /\ Len(chain.code) \in Nat /\ Len(pool) \in Nat /\ last \in Nat
        /\ last = Len(chain.code) + Len(pool)
    BY Counts
  <1>2. pool \in Seq(Creation \cup Message)
    BY DEF Typed
  <1>3. /\ Len(pool') = Len(pool) + 1 /\ pool'[Len(pool) + 1] = tx /\ pool' # <<>>
        /\ \A i \in 1..Len(pool) : pool'[i] = pool[i]
    BY <1>2
  <1>4. last' = last + 1
    <2> DEFINE x == Len(chain.code)
    <2>1. x \in Nat /\ Len(pool) \in Nat /\ Len(pool') = Len(pool) + 1
      BY <1>1, <1>3
    <2>2. last = x + Len(pool) /\ last' = x + Len(pool')
      BY DEF last
    <2> HIDE DEF x
    <2> QED BY <2>1, <2>2
  <1>5. \A n \in 1..last : content(n)' = content(n)
    <2> SUFFICES ASSUME NEW n \in 1..last PROVE content(n)' = content(n)
      OBVIOUS
    <2>1. CASE n \in 1..Len(chain.code)
      BY <2>1 DEF content
    <2>2. CASE n \notin 1..Len(chain.code)
      <3>1. n - Len(chain.code) \in 1..Len(pool) /\ n - Len(chain.code) \in 1..Len(pool')
        BY <1>1, <1>3, <2>2
      <3>2. pool'[n - Len(chain.code)] = pool[n - Len(chain.code)]
        BY <1>3, <3>1
      <3> QED BY <2>2, <3>1, <3>2 DEF content
    <2> QED BY <2>1, <2>2
  <1>6. ASSUME NEW n, n = last + 1
        PROVE  content(n)' = IF tx.op = "create" THEN tx.name ELSE ""
    <2>1. /\ n \notin 1..Len(chain.code) /\ n - Len(chain.code) = Len(pool) + 1
          /\ Len(pool) + 1 \in 1..Len(pool')
      <3> DEFINE x == Len(chain.code)
      <3>1. x \in Nat /\ Len(pool) \in Nat /\ Len(pool') = Len(pool) + 1
        BY <1>1, <1>3
      <3>2. n = x + Len(pool) + 1
        BY <1>6 DEF last
      <3> HIDE DEF x
      <3>3. n \notin 1..x /\ n - x = Len(pool) + 1 /\ Len(pool) + 1 \in 1..Len(pool')
        BY <3>1, <3>2
      <3> QED BY <3>3 DEF x
    <2> QED BY <1>3, <2>1 DEF content
  <1>7. Len(chain'.code) >= Len(chain.code) /\ Len(chain'.code) \in Nat
    BY <1>1
  <1>8. last' >= last /\ last' \in Nat
    BY <1>1, <1>4
  <1> QED BY <1>3, <1>4, <1>5, <1>6, <1>7, <1>8 DEF Grows


LEMMA MineGrows ==
    ASSUME Typed, MinedFirst
    PROVE  Grows /\ last' = last
  <1> DEFINE x == Len(chain.code)
             y == Len(pool)
             x2 == Len(chain'.code)
             y2 == Len(pool')
             t == IF pool[1].op = "create" THEN pool[1].name ELSE ""
  <1>1. x \in Nat /\ y \in Nat /\ last = x + y /\ last' = x2 + y2
    BY Counts DEF last
  <1>2. y >= 1 /\ x2 = x + 1 /\ y2 = y - 1
    BY DEF MinedFirst
  <1>3. chain'.code = Append(chain.code, t) /\ chain.code \in Seq(Text)
    BY DEF MinedFirst, Change, Typed, ChainOK
  <1>4. /\ \A n \in 1..x : chain'.code[n] = chain.code[n]
        /\ chain'.code[x + 1] = t
    <2>1. \A s \in Seq(Text) : \A u :
             /\ \A n \in 1..Len(s) : Append(s, u)[n] = s[n]
             /\ Append(s, u)[Len(s) + 1] = u
      OBVIOUS
    <2> DEFINE s == chain.code
    <2>2. s \in Seq(Text) /\ chain'.code = Append(s, t)
      BY <1>3
    <2> HIDE DEF t, s
    <2>3. /\ \A n \in 1..Len(s) : Append(s, t)[n] = s[n]
          /\ Append(s, t)[Len(s) + 1] = t
      BY <2>1, <2>2
    <2>4. /\ \A n \in 1..Len(s) : chain'.code[n] = s[n]
          /\ chain'.code[Len(s) + 1] = t
      BY <2>2, <2>3
    <2> QED BY <2>4 DEF s
  <1>5. \A i \in 1..y2 : pool'[i] = pool[i + 1]
    BY DEF MinedFirst
  <1>6. \A n : content(n) = IF n \in 1..x THEN chain.code[n]
                            ELSE IF n - x \in 1..y /\ pool[n - x].op = "create"
                                 THEN pool[n - x].name ELSE ""
    BY DEF content
  <1>7. \A n : content(n)' = IF n \in 1..x2 THEN chain'.code[n]
                             ELSE IF n - x2 \in 1..y2 /\ pool'[n - x2].op = "create"
                                  THEN pool'[n - x2].name ELSE ""
    BY DEF content
  <1>8. last' = last /\ last \in Nat /\ x2 >= x /\ x2 \in Nat
    <2> HIDE DEF x, y, x2, y2
    <2>1. x2 + y2 = x + y /\ x + y \in Nat /\ x2 >= x /\ x2 \in Nat
      BY <1>1, <1>2
    <2> QED BY <1>1, <2>1
  <1>9. ASSUME NEW n \in 1..last PROVE content(n)' = content(n)
    <2>1. n \in 1..(x + y)
      BY <1>1, <1>9
    <2> HIDE DEF x, y, x2, y2
    <2>2. CASE n \in 1..x
      <3>1. n \in 1..x2
        BY <1>1, <1>2, <2>2
      <3>2. content(n) = chain.code[n] /\ content(n)' = chain'.code[n]
        BY <1>6, <1>7, <2>2, <3>1
      <3> QED BY <1>4, <2>2, <3>2
    <2>3. CASE n = x + 1
      <3>1. n \in 1..x2 /\ n \notin 1..x /\ n - x = 1 /\ 1 \in 1..y
        BY <1>1, <1>2, <2>3
      <3>2. content(n)' = chain'.code[n]
        BY <1>7, <3>1
      <3>3. content(n) = t
        BY <1>6, <3>1 DEF t
      <3> QED BY <1>4, <2>3, <3>2, <3>3
    <2>4. CASE n \notin 1..x /\ n # x + 1
      <3>1. /\ n \notin 1..x2 /\ n - x2 \in 1..y2 /\ n - x \in 1..y
            /\ n - x = (n - x2) + 1
        BY <1>1, <1>2, <2>1, <2>4
      <3> DEFINE i == n - x2
      <3>2. pool'[i] = pool[n - x]
        BY <1>5, <3>1
      <3>3. content(n)' = IF pool'[i].op = "create" THEN pool'[i].name ELSE ""
        BY <1>7, <3>1
      <3>4. content(n) = IF pool[n - x].op = "create" THEN pool[n - x].name ELSE ""
        BY <1>6, <2>4, <3>1
      <3> HIDE DEF i
      <3>5. CASE pool[n - x].op = "create"
        BY <3>2, <3>3, <3>4, <3>5
      <3>6. CASE pool[n - x].op # "create"
        BY <3>2, <3>3, <3>4, <3>6
      <3> QED BY <3>5, <3>6
    <2> QED BY <2>2, <2>3, <2>4
  <1>10. /\ Len(chain'.code) >= Len(chain.code) /\ Len(chain'.code) \in Nat
         /\ last' >= last /\ last' \in Nat
    BY <1>8
  <1> QED BY <1>8, <1>9, <1>10 DEF Grows

LEMMA StaysGrows ==
    ASSUME Typed, chain' = chain, pool' = pool
    PROVE  Grows /\ last' = last /\ \A n : content(n)' = content(n)
  <1>1. Len(chain.code) \in Nat /\ last \in Nat
    BY Counts
  <1>2. last' = last
    BY DEF last
  <1>3. \A n : content(n)' = content(n)
    BY DEF content
  <1>4. last' >= last /\ last' \in Nat
    BY <1>1, <1>2
  <1>5. Len(chain'.code) >= Len(chain.code) /\ Len(chain'.code) \in Nat
    BY <1>1
  <1> QED BY <1>2, <1>3, <1>4, <1>5 DEF Grows

\* A transaction that a contract is at stays where it is.
LEMMA SolidStays ==
    ASSUME Typed, Grows, NEW a, NEW name, NEW n \in Nat, n <= last, Solid(a, name, n)
    PROVE  Solid(a, name, n)' /\ \A m \in Nat : m >= n => Solid(a, name, m)'
  <1>1. a \in 1..n /\ content(a) = name /\ last \in Nat
    BY Counts DEF Solid
  <1>2. a \in 1..last
    BY <1>1
  <1>3. content(a)' = name
    BY <1>1, <1>2 DEF Grows
  <1>4. \A m \in Nat : m >= n => a \in 1..m
    BY <1>1
  <1> QED BY <1>1, <1>3, <1>4 DEF Solid

LEMMA Grown ==
    ASSUME Typed, Kinds
    PROVE  Grows
  <1>1. CASE Mine
    BY <1>1, MineFacts, MineGrows
  <1>2. CASE Move
    <2>1. Moved
      BY <1>2, MoveFacts
    <2>2. chain' = chain /\ (pool' = pool \/ \E tx : pool' = Append(pool, tx))
      BY <2>1 DEF Moved
    <2> QED BY <2>2, PushGrows, StaysGrows
  <1>3. CASE chain' = chain /\ pool' = pool
    BY <1>3, StaysGrows
  <1> QED BY <1>1, <1>2, <1>3 DEF Kinds, Finish


-------------------------------------------------------------------------------
(***************************************************************************)
(* What is done at the places that the invariant names.                    *)
(***************************************************************************)
Is(s, what, name) == s.do = what /\ s.name = name

LEMMA Forms ==
    /\ wait.do = "wait" /\ \A d : step(d, "").do = d
    /\ \A n : /\ Is(need(n), "need", n) /\ Is(send(n), "send", n)
             /\ Is(create(n), "create", n) /\ save(n).do = "save"
  BY DEF Is, need, send, create, save, wait, step

LEMMA RoutineDoes ==
    ASSUME NEW c \in Configures
    PROVE  LET p(k) == Program[c][block(c) + k]
           IN  /\ block(c) \in Nat /\ Len(Program[c]) \in Nat /\ block(c) + 9 <= Len(Program[c])
               /\ Is(p(2), "need", "ELTokensAndRatesHelper") /\ p(3).do = "read"
               /\ Is(p(4), "send", "lendAdmin") /\ p(5).do = "wait"
               /\ Is(p(6), "send", "configureReserves") /\ p(7).do = "wait"
               /\ Is(p(8), "send", "returnAdmin") /\ p(9).do = "wait"
  <1> DEFINE p(k) == Program[c][block(c) + k]
  <1>1. /\ block(c) \in Nat /\ Len(Program[c]) \in Nat /\ block(c) + 9 <= Len(Program[c])
        /\ \A k \in 1..9 : p(k) = configureReservesByHelper[k]
    BY RoutineAt
  <1>2. /\ p(2) = need("ELTokensAndRatesHelper") /\ p(3) = step("read", "")
        /\ p(4) = send("lendAdmin") /\ p(5) = wait /\ p(6) = send("configureReserves")
        /\ p(7) = wait /\ p(8) = send("returnAdmin") /\ p(9) = wait
    <2> DEFINE q == configureReservesByHelper
    <2>1. /\ q[2] = need("ELTokensAndRatesHelper") /\ q[3] = step("read", "")
          /\ q[4] = send("lendAdmin") /\ q[5] = wait /\ q[6] = send("configureReserves")
          /\ q[7] = wait /\ q[8] = send("returnAdmin") /\ q[9] = wait
      BY Routine
    <2> HIDE DEF p
    <2>2. /\ p(2) = q[2] /\ p(3) = q[3] /\ p(4) = q[4] /\ p(5) = q[5] /\ p(6) = q[6]
          /\ p(7) = q[7] /\ p(8) = q[8] /\ p(9) = q[9]
      BY <1>1
    <2> HIDE DEF q
    <2> QED BY <2>1, <2>2
  <1> HIDE DEF p
  <1>3. /\ Is(p(2), "need", "ELTokensAndRatesHelper") /\ p(3).do = "read"
        /\ Is(p(4), "send", "lendAdmin") /\ p(5).do = "wait"
        /\ Is(p(6), "send", "configureReserves") /\ p(7).do = "wait"
        /\ Is(p(8), "send", "returnAdmin") /\ p(9).do = "wait"
    BY <1>2, Forms
  <1> QED BY <1>1, <1>3 DEF p

LEMMA RatesDoes ==
    LET p == Program[Lends]
    IN  /\ Len(p) = 7 /\ Is(p[1], "need", "StableAndVariableTokensHelper")
        /\ Is(p[2], "send", "lendOracle") /\ p[3].do = "wait"
        /\ Is(p[4], "send", "setOracleBorrowRates") /\ p[5].do = "wait"
        /\ Is(p[6], "send", "returnOracle") /\ p[7].do = "wait"
  <1> DEFINE p == Program[Lends]
  <1>1. /\ Len(p) = 7 /\ p[1] = need("StableAndVariableTokensHelper")
        /\ p[2] = send("lendOracle") /\ p[3] = wait
        /\ p[4] = send("setOracleBorrowRates") /\ p[5] = wait
        /\ p[6] = send("returnOracle") /\ p[7] = wait
    BY RatesCall
  <1> HIDE DEF p
  <1>2. /\ Len(p) = 7 /\ Is(p[1], "need", "StableAndVariableTokensHelper")
        /\ Is(p[2], "send", "lendOracle") /\ p[3].do = "wait"
        /\ Is(p[4], "send", "setOracleBorrowRates") /\ p[5].do = "wait"
        /\ Is(p[6], "send", "returnOracle") /\ p[7].do = "wait"
    BY <1>1, Forms
  <1> QED BY <1>2 DEF p

LEMMA InitializeDoes ==
    LET p == Program[INITIALIZE]
        n == Len(Reserves)
        b == block(INITIALIZE)
    IN  /\ n \in Nat \ {0} /\ listing \in Nat /\ listing >= 5 /\ b \in Nat
        /\ b = listing + 2 * n /\ Len(p) \in Nat /\ Len(p) >= b + 18
        /\ Reserves \in [1..n -> Assets]
        /\ p[3].do = "admin" /\ Is(p[listing], "need", "LendingPoolConfigurator")
        /\ \A k \in 1..n : /\ Is(p[listing + 2 * k - 1], "send", "batchInitReserve")
                           /\ p[listing + 2 * k - 1].assets = {Reserves[k]}
                           /\ p[listing + 2 * k].do = "wait"
        /\ Is(p[b + 10], "create", "LendingPoolCollateralManager")
        /\ p[b + 11].do = "save" /\ p[b + 12].do = "save" /\ p[b + 13].do = "wait"
        /\ Is(p[b + 14], "send", "setLendingPoolCollateralManager")
        /\ p[b + 15].do = "wait"
  <1> DEFINE p == Program[INITIALIZE]
             n == Len(Reserves)
             b == listing + 2 * n
  <1>1. n \in Nat \ {0} /\ Reserves \in [1..n -> Assets]
    BY BatchSteps
  <1>2. listing \in Nat /\ listing >= 5
    BY LeadSteps
  <1>3. block(INITIALIZE) = b
    BY DEF block
  <1>4. b \in Nat
    BY <1>1, <1>2
  <1>5. /\ Len(p) \in Nat /\ Len(p) >= b + 18
        /\ p[3] = step("admin", "") /\ p[listing] = need("LendingPoolConfigurator")
        /\ \A k \in 1..n : /\ p[listing + 2 * k - 1] = batchInitReserve(Reserves[k])[1]
                           /\ p[listing + 2 * k] = wait
        /\ \A i \in 1..9 : p[b + 9 + i] = Manager[i]
    BY InitializeCall
  <1>6. b = listing + 2 * n
    OBVIOUS
  <1> HIDE DEF p, b
  <1>7. /\ p[b + 10] = create("LendingPoolCollateralManager")
        /\ p[b + 11] = save("LendingPoolCollateralManagerImpl")
        /\ p[b + 12] = save("LendingPoolCollateralManager")
        /\ p[b + 13] = wait /\ p[b + 14] = send("setLendingPoolCollateralManager")
        /\ p[b + 15] = wait
    <2>1. /\ p[b + 9 + 1] = Manager[1] /\ p[b + 9 + 2] = Manager[2] /\ p[b + 9 + 3] = Manager[3]
          /\ p[b + 9 + 4] = Manager[4] /\ p[b + 9 + 5] = Manager[5] /\ p[b + 9 + 6] = Manager[6]
      <3>1. \A i \in 1..9 : p[b + 9 + i] = Manager[i]
        BY <1>5
      <3> QED BY <3>1
    <2>2. /\ b + 9 + 1 = b + 10 /\ b + 9 + 2 = b + 11 /\ b + 9 + 3 = b + 12
          /\ b + 9 + 4 = b + 13 /\ b + 9 + 5 = b + 14 /\ b + 9 + 6 = b + 15
      BY <1>4
    <2> QED BY <2>1, <2>2, ManagerSteps
  <1>8. /\ p[3].do = "admin" /\ Is(p[listing], "need", "LendingPoolConfigurator")
        /\ Is(p[b + 10], "create", "LendingPoolCollateralManager")
        /\ p[b + 11].do = "save" /\ p[b + 12].do = "save" /\ p[b + 13].do = "wait"
        /\ Is(p[b + 14], "send", "setLendingPoolCollateralManager")
        /\ p[b + 15].do = "wait"
    BY <1>5, <1>7, Forms
  <1>9. ASSUME NEW k \in 1..n
        PROVE  /\ Is(p[listing + 2 * k - 1], "send", "batchInitReserve")
               /\ p[listing + 2 * k - 1].assets = {Reserves[k]}
               /\ p[listing + 2 * k].do = "wait"
    <2> DEFINE s == p[listing + 2 * k - 1]
               t == p[listing + 2 * k]
    <2>1. s = batchInitReserve(Reserves[k])[1] /\ t = wait
      BY <1>5
    <2> HIDE DEF s, t
    <2>2. Is(s, "send", "batchInitReserve") /\ s.assets = {Reserves[k]} /\ t.do = "wait"
      BY <2>1 DEF batchInitReserve, Is, send, step, wait
    <2> QED BY <2>2 DEF s, t
  <1> QED BY <1>1, <1>2, <1>3, <1>4, <1>5, <1>6, <1>8, <1>9 DEF p


-------------------------------------------------------------------------------
(***************************************************************************)
(* Types.                                                                  *)
(***************************************************************************)
LEMMA Arguments ==
    ASSUME Typed, NEW op \in Messages
    PROVE  /\ arguments(op) \in Seq(Int)
           /\ op \in {"lendAdmin", "returnAdmin", "setPriceOracle", "initializeOracle"}
                => arguments(op)[1] \in Int
  <1>1. /\ call.address \in Int /\ call.admin \in Int /\ db \in [Names -> Int]
        /\ DEPLOYER \in Int /\ NOBODY \in Int /\ CONFIGURATOR \in Int
    BY DEF Typed, DEPLOYER, NOBODY, CONFIGURATOR
  <1>2. /\ db["ELToken"] \in Int /\ db["StableDebtToken"] \in Int
        /\ db["VariableDebtToken"] \in Int
        /\ db["ELTokensAndRatesHelper"] \in Int /\ db["StableAndVariableTokensHelper"] \in Int
        /\ db["ElectroProtocolDataProvider"] \in Int
    BY <1>1, Entries
  <1>3. \A x \in Int : <<x>> \in Seq(Int) /\ <<x>>[1] \in Int
    OBVIOUS
  <1>4. CASE op \in {"setLendingPoolImpl", "setLendingPoolConfiguratorImpl",
                     "setLendingPoolCollateralManager", "setPriceOracle", "initializeOracle"}
    <2>1. arguments(op) = <<call.address>>
      BY <1>4 DEF arguments
    <2> QED BY <1>1, <1>3, <2>1
  <1>5. CASE op = "batchInitReserve"
    <2>1. arguments(op) = <<db["ELToken"], db["StableDebtToken"], db["VariableDebtToken"]>>
      BY <1>5 DEF arguments
    <2>2. \A x, y, z \in Int : <<x, y, z>> \in Seq(Int)
      OBVIOUS
    <2> QED BY <1>2, <1>5, <2>1, <2>2
  <1>6. CASE op \in {"lendAdmin", "returnAdmin", "lendOracle", "returnOracle", "setAddress"}
    <2>1. \E x \in Int : arguments(op) = <<x>>
      <3>1. \/ arguments(op) = <<db["ELTokensAndRatesHelper"]>>
            \/ arguments(op) = <<call.admin>>
            \/ arguments(op) = <<db["StableAndVariableTokensHelper"]>>
            \/ arguments(op) = <<DEPLOYER>>
            \/ arguments(op) = <<db["ElectroProtocolDataProvider"]>>
        BY <1>6 DEF arguments
      <3> QED BY <1>1, <1>2, <3>1
    <2> QED BY <1>3, <2>1
  <1>7. CASE op \in {"initTokensHelper", "initRatesHelper"}
    <2>1. arguments(op) = <<NOBODY>> \/ arguments(op) = <<CONFIGURATOR>>
      BY <1>7 DEF arguments
    <2> QED BY <1>1, <1>3, <2>1
  <1>8. CASE op \in {"registerAddressesProvider", "initialize", "setOracleBorrowRates",
                     "configureReserves", "authorizeLendingPool", "setAssetSymbols"}
    <2>1. arguments(op) = <<>>
      BY <1>8 DEF arguments
    <2> QED BY <1>8, <2>1
  <1> QED BY <1>4, <1>5, <1>6, <1>7, <1>8 DEF Messages

LEMMA Recipients ==
    ASSUME Typed
    PROVE  \A op \in DOMAIN recipient : db[recipient[op]] \in Int
  <1>1. \A op \in DOMAIN recipient : recipient[op] \in Names
    <2>1. DOMAIN recipient = {"registerAddressesProvider", "batchInitReserve",
                 "initTokensHelper", "setOracleBorrowRates", "returnOracle",
                 "initRatesHelper", "configureReserves", "authorizeLendingPool"}
      BY DEF recipient
    <2>2. /\ recipient["registerAddressesProvider"] \in Names
          /\ recipient["batchInitReserve"] \in Names
          /\ recipient["initTokensHelper"] \in Names
          /\ recipient["setOracleBorrowRates"] \in Names
          /\ recipient["returnOracle"] \in Names /\ recipient["initRatesHelper"] \in Names
          /\ recipient["configureReserves"] \in Names
          /\ recipient["authorizeLendingPool"] \in Names
      BY Entries DEF recipient
    <2> QED BY <2>1, <2>2
  <1> QED BY <1>1 DEF Typed

LEMMA Transactions ==
    ASSUME Typed, Alive, call.pc <= Len(steps), current.do = "send"
    PROVE  /\ transaction \in Message /\ Carries(transaction)
           /\ transaction.op = current.name /\ transaction.with = arguments(current.name)
  <1>1. current \in Step /\ current.name \in Messages
    BY Running DEF Located
  <1>2. current.assets \subseteq Assets
    BY <1>1 DEF Step
  <1> DEFINE to == CASE current.name \in DOMAIN recipient -> db[recipient[current.name]]
                     [] current.name = "initializeOracle" -> call.oracle
                     [] current.name = "setAssetSymbols" -> call.address
                     [] OTHER -> PROVIDER
             assets == CASE current.name = "configureReserves" -> call.todo
                         [] current.name = "setOracleBorrowRates" -> Assets
                         [] OTHER -> current.assets
  <1>3. to \in Int
    <2>1. call.oracle \in Int /\ call.address \in Int /\ PROVIDER \in Int
      BY DEF Typed, PROVIDER
    <2>2. CASE current.name \in DOMAIN recipient
      <3>1. to = db[recipient[current.name]]
        BY <2>2 DEF recipient
      <3> QED BY <2>2, <3>1, Recipients
    <2>3. CASE current.name \notin DOMAIN recipient
      BY <2>1, <2>3
    <2> QED BY <2>2, <2>3
  <1>4. assets \subseteq Assets
    BY <1>2 DEF Typed
  <1>5. current.name \in {"lendAdmin", "returnAdmin", "setLendingPoolCollateralManager"}
          => to = PROVIDER
    BY DEF recipient
  <1> HIDE DEF to, assets
  <1>6. transaction = [op |-> current.name, to |-> to, with |-> arguments(current.name),
                       assets |-> assets]
    BY DEF transaction, to, assets
  <1>7. arguments(current.name) \in Seq(Int)
    BY <1>1, Arguments
  <1>8. transaction \in Message
    BY <1>1, <1>3, <1>4, <1>6, <1>7 DEF Message
  <1>9. Carries(transaction)
    BY <1>1, <1>5, <1>6, Arguments DEF Carries
  <1> QED BY <1>6, <1>8, <1>9


CallTypes ==
    [number: 0..Len(Program), pc: Nat \ {0}, address: Int, sent: Nat,
     admin: Int, oracle: Int, todo: SUBSET Assets, at: {"running", "dead", "done"}]

LEMMA CallStaysTyped ==
    ASSUME Typed, Kinds
    PROVE  call' \in CallTypes /\ (Alive => call.number # 0)'
  <1>1. /\ call \in CallTypes /\ (Alive => call.number # 0) /\ ChainOK(chain)
    BY DEF Typed, CallTypes
  <1>2. last + 1 \in Nat /\ pendingNonce = last + 1
    BY Counts DEF pendingNonce, last
  <1>3. CASE call' = call
    BY <1>1, <1>3 DEF Alive
  <1>4. ASSUME NEW number \in 1..9,
               call' = [Idle EXCEPT !.number = number, !.at = "running"]
        PROVE  call' \in CallTypes /\ (Alive => call.number # 0)'
    <2>1. call' = [number |-> number, pc |-> 1, address |-> NOBODY, sent |-> 0,
                   admin |-> DEPLOYER, oracle |-> NOBODY, todo |-> {}, at |-> "running"]
      BY <1>4 DEF Idle
    <2>2. NOBODY \in Int /\ DEPLOYER \in Int /\ number \in 0..Len(Program)
      BY CallNumbers DEF NOBODY, DEPLOYER
    <2> QED BY <1>4, <2>1, <2>2 DEF CallTypes
  <1>5. CASE call' = [call EXCEPT !.at = "dead"] \/ call' = [call EXCEPT !.at = "done"]
    BY <1>1, <1>5 DEF CallTypes, Alive
  <1>6. CASE Move
    <2>1. Alive
      BY <1>6, MoveFacts DEF Moved
    <2>2. \A n \in {1, 5, 7} : call.pc + n \in Nat \ {0}
      BY <1>1 DEF CallTypes
    <2>3. call' \in CallTypes
      <3>1. CASE Create
        <4>1. \E n \in Nat : call' = [advance(1) EXCEPT !.address = n, !.sent = n]
          BY <1>2, <3>1 DEF Create
        <4>2. PICK n \in Nat : call' = [advance(1) EXCEPT !.address = n, !.sent = n]
          BY <4>1
        <4>3. advance(1) \in CallTypes
          BY <1>1, <2>2 DEF advance, CallTypes
        <4>4. n \in Int
          OBVIOUS
        <4> QED BY <4>2, <4>3, <4>4 DEF CallTypes
      <3>2. CASE Save \/ SaveProxy \/ Waited \/ Need
        BY <1>1, <2>2, <3>2 DEF Save, SaveProxy, Waited, Need, advance, CallTypes
      <3>3. CASE Sent
        BY <1>1, <1>2, <2>2, <3>3 DEF Sent, advance, CallTypes
      <3>4. CASE ReadAdmin
        BY <1>1, <2>2, <3>4 DEF ReadAdmin, advance, CallTypes, ChainOK
      <3>5. CASE ReadReserves
        BY <1>1, <2>2, <3>5 DEF ReadReserves, advance, CallTypes
      <3>6. CASE ReadOracle
        BY <1>1, <2>2, <3>6 DEF ReadOracle, advance, CallTypes, ChainOK
      <3>7. CASE ReadAdapter
        <4>1. PICK a \in Int : \/ call' = [advance(1) EXCEPT !.oracle = call.address]
                               \/ call' = [advance(5) EXCEPT !.oracle = call.address,
                                                             !.address = a]
          <5>1. \A a \in adapterOf(call.address) : a \in Int
            BY <1>1 DEF adapterOf, ChainOK
          <5>2. NOBODY \in Int
            BY DEF NOBODY
          <5>3. \/ call' = [advance(1) EXCEPT !.oracle = call.address]
                \/ \E a \in IF adapterOf(call.address) = {} THEN {NOBODY}
                            ELSE adapterOf(call.address) :
                     call' = [advance(5) EXCEPT !.oracle = call.address, !.address = a]
            BY <3>7 DEF ReadAdapter
          <5> QED BY <5>1, <5>2, <5>3
        <4> QED BY <1>1, <2>2, <4>1 DEF advance, CallTypes
      <3> QED BY <1>6, <3>1, <3>2, <3>3, <3>4, <3>5, <3>6, <3>7 DEF Move
    <2>4. call'.number = call.number
      BY <1>6, MoveFacts DEF Moved
    <2> QED BY <1>1, <2>1, <2>3, <2>4 DEF Alive
  <1> QED BY <1>3, <1>4, <1>5, <1>6 DEF Kinds, Finish, Mine

LEMMA TypedInit == Init => Typed
  <1> SUFFICES ASSUME Init PROVE Typed
    OBVIOUS
  <1>1. /\ chain = [code |-> <<>>, failed |-> {}, isPool |-> FALSE, configurator |-> "none",
                    ready |-> {}, admin |-> DEPLOYER, oracleOwner |-> DEPLOYER, rated |-> {},
                    listed |-> {}, configured |-> {}, manager |-> NOBODY, data |-> NOBODY,
                    priceOracle |-> NOBODY, adapters |-> {}, named |-> {}]
        /\ pool = <<>> /\ losses = 0 /\ call = Idle
        /\ db = [n \in Names |-> IF n = "LendingPoolAddressesProvider" THEN PROVIDER ELSE NOBODY]
    BY DEF Init
  <1>2. ChainOK(chain)
    BY <1>1 DEF ChainOK, DEPLOYER, NOBODY
  <1>3. db \in [Names -> Int]
    BY <1>1 DEF PROVIDER, NOBODY
  <1>4. call \in CallTypes
    BY <1>1, CallNumbers DEF Idle, CallTypes, NOBODY, DEPLOYER
  <1>5. ~ Alive
    BY <1>1 DEF Alive, Idle
  <1>6. pool \in Seq(Creation \cup Message) /\ \A i \in 1..Len(pool) : Carries(pool[i])
    BY <1>1
  <1> QED BY <1>1, <1>2, <1>3, <1>4, <1>5, <1>6 DEF Typed, CallTypes

LEMMA TypedNext ==
    ASSUME Typed, [Next]_vars
    PROVE  Typed'
  <1>1. CASE Lose
    <2>1. /\ pool' = <<>> /\ losses' = losses + 1 /\ UNCHANGED <<chain, db, call>>
      BY <1>1 DEF Lose
    <2>2. pool' \in Seq(Creation \cup Message) /\ \A i \in 1..Len(pool') : Carries(pool'[i])
      BY <2>1
    <2>3. (Alive => call.number # 0)' /\ ChainOK(chain)'
      BY <2>1 DEF Typed, Alive, ChainOK
    <2>4. losses' \in Nat
      BY <2>1 DEF Typed
    <2> QED BY <2>1, <2>2, <2>3, <2>4 DEF Typed, Carries
  <1>2. CASE losses' = losses /\ Kinds
    <2>1. call' \in CallTypes /\ (Alive => call.number # 0)'
      BY <1>2, CallStaysTyped
    <2>2. losses' \in Nat
      BY <1>2 DEF Typed
    <2>3. CASE chain' = chain /\ pool' = pool /\ db' = db
      <3>1. ChainOK(chain)' /\ pool' \in Seq(Creation \cup Message) /\ db' \in [Names -> Int]
            /\ \A i \in 1..Len(pool') : Carries(pool'[i])
        BY <2>3 DEF Typed, ChainOK
      <3> QED BY <2>1, <2>2, <3>1 DEF Typed, CallTypes, Carries
    <2>4. CASE Mine
      <3>1. MinedFirst
        BY <2>4, MineFacts
      <3>2. ChainOK(chain)'
        BY <3>1 DEF MinedFirst, Change, ChainOK
      <3>3. pool' \in Seq(Creation \cup Message) /\ db' \in [Names -> Int]
        BY <3>1 DEF MinedFirst, Typed
      <3>4. \A i \in 1..Len(pool') : Carries(pool'[i])
        BY <3>1 DEF MinedFirst, Typed
      <3> QED BY <2>1, <2>2, <3>2, <3>3, <3>4 DEF Typed, CallTypes, Carries
    <2>5. CASE Move
      <3>1. Moved
        BY <2>5, MoveFacts
      <3>2. chain' = chain /\ ChainOK(chain)'
        BY <3>1 DEF Moved, Typed, ChainOK
      <3>3. db' \in [Names -> Int]
        <4>1. db \in [Names -> Int] /\ call.address \in Int /\ POOL \in Int
              /\ CONFIGURATOR \in Int
          BY DEF Typed, POOL, CONFIGURATOR
        <4> QED BY <3>1, <4>1 DEF Moved
      <3>4. /\ pool' \in Seq(Creation \cup Message)
            /\ \A i \in 1..Len(pool') : Carries(pool'[i])
        <4>1. current \in Step
          BY <3>1, Running DEF Moved, Located
        <4>2. CASE pool' = pool
          BY <4>2 DEF Typed
        <4>3. ASSUME NEW tx \in Creation \cup Message, Carries(tx), pool' = Append(pool, tx)
              PROVE  /\ pool' \in Seq(Creation \cup Message)
                     /\ \A i \in 1..Len(pool') : Carries(pool'[i])
          <5>1. pool \in Seq(Creation \cup Message) /\ \A i \in 1..Len(pool) : Carries(pool[i])
            BY DEF Typed
          <5>2. pool' \in Seq(Creation \cup Message)
            BY <4>3, <5>1
          <5>3. /\ Len(pool') = Len(pool) + 1 /\ pool'[Len(pool')] = tx
                /\ \A i \in 1..Len(pool) : pool'[i] = pool[i]
            BY <4>3, <3>2, PushGrows
          <5>4. Len(pool) \in Nat
            BY Counts
          <5>5. \A i \in 1..Len(pool') : i = Len(pool') \/ i \in 1..Len(pool)
            BY <5>3, <5>4
          <5> QED BY <4>3, <5>1, <5>2, <5>3, <5>5
        <4>4. CASE current.do = "create"
          <5> DEFINE tx == [op |-> "create", name |-> current.name, to |-> NOBODY]
          <5>1. tx \in Creation /\ Carries(tx)
            BY <4>1 DEF Creation, Step, Carries
          <5>2. pool' = Append(pool, tx)
            BY <3>1, <4>4 DEF Moved
          <5> HIDE DEF tx
          <5> QED BY <4>3, <5>1, <5>2
        <4>5. CASE current.do = "send"
          <5>1. transaction \in Message /\ Carries(transaction)
            BY <3>1, <4>5, Transactions DEF Moved
          <5>2. pool' = Append(pool, transaction)
            BY <3>1, <4>5 DEF Moved
          <5> QED BY <4>3, <5>1, <5>2
        <4> QED BY <3>1, <4>2, <4>4, <4>5 DEF Moved
      <3> QED BY <2>1, <2>2, <3>2, <3>3, <3>4 DEF Typed, CallTypes, Carries
    <2> QED BY <1>2, <2>3, <2>4, <2>5 DEF Kinds, Finish
  <1> QED BY <1>1, <1>2, StepKinds


-------------------------------------------------------------------------------
(***************************************************************************)
(* The JSON file names workers.                                            *)
(***************************************************************************)
\* Contracts that are known stay known.
LEMMA KnownStays ==
    ASSUME Typed, Grows, NEW a, NEW name, Solid(a, name, last)
    PROVE  /\ \A m \in Nat : m >= last => a \in 1..m
           /\ a \in 1..last' /\ content(a)' = name
  <1>1. last \in Nat /\ last' \in Nat /\ last' >= last
    BY Counts DEF Grows
  <1>2. a \in 1..last /\ content(a) = name
    BY DEF Solid
  <1>3. content(a)' = name
    BY <1>2 DEF Grows
  <1> QED BY <1>1, <1>2, <1>3

LEMMA NamesWorkersNext ==
    ASSUME Typed, Orderly, Kinds
    PROVE  NamesWorkers'
  <1>1. Grows
    BY Grown
  <1>2. NamesWorkers /\ SavesWorkers
    BY DEF Orderly
  <1> SUFFICES ASSUME NEW n \in Workers
               PROVE  \/ db'[n] = NOBODY
                      \/ db'[n] = CONFIGURATOR /\ n = "LendingPoolConfigurator"
                      \/ Solid(db[n], made(n), last)'
    BY DEF NamesWorkers
  <1>3. \/ db[n] = NOBODY
        \/ db[n] = CONFIGURATOR /\ n = "LendingPoolConfigurator"
        \/ Solid(db[n], made(n), last)
    BY <1>2 DEF NamesWorkers
  <1>4. ASSUME NEW a, Solid(a, made(n), last), db'[n] = a
        PROVE  Solid(db[n], made(n), last)'
    <2>1. a \in 1..last' /\ content(a)' = made(n)
      BY <1>1, <1>4, KnownStays
    <2> QED BY <1>4, <2>1 DEF Solid, made
  <1>5. CASE db'[n] = db[n]
    BY <1>3, <1>4, <1>5
  <1>6. CASE db' # db
    <2>1. Moved
      <3>1. Move
        BY <1>6, MineFacts DEF Kinds, Finish, MinedFirst
      <3> QED BY <3>1, MoveFacts
    <2>2. db \in [Names -> Int] /\ n \in Names
      BY Entries DEF Typed, Workers
    <2>3. CASE current.do = "save" /\ current.name = n
      <3>1. Solid(call.address, made(n), last)
        BY <1>2, <2>1, <2>3 DEF SavesWorkers, Moved
      <3>2. db'[n] = call.address \/ db'[n] = db[n]
        BY <2>1, <2>2, <2>3 DEF Moved
      <3> QED BY <1>4, <1>5, <3>1, <3>2
    <2>4. CASE current.do = "proxy" /\ current.name = n
      <3>1. n = "LendingPoolConfigurator"
        BY <2>1, <2>4, Running DEF Moved, Located, Workers
      <3>2. db'[n] = CONFIGURATOR \/ db'[n] = db[n]
        BY <2>1, <2>2, <2>4, <3>1 DEF Moved
      <3> QED BY <1>5, <3>1, <3>2
    <2>5. CASE current.name # n
      <3>1. db'[n] = db[n]
        <4>1. \E v : db' = [db EXCEPT ![current.name] = v]
          BY <1>6, <2>1 DEF Moved
        <4> QED BY <2>2, <2>5, <4>1
      <3> QED BY <1>5, <3>1
    <2>6. current.do \in {"save", "proxy"}
      BY <1>6, <2>1 DEF Moved
    <2> QED BY <2>3, <2>4, <2>5, <2>6
  <1> QED BY <1>5, <1>6

LEMMA SavesWorkersNext ==
    ASSUME Typed, Typed', Orderly, Kinds
    PROVE  SavesWorkers'
  <1> SUFFICES ASSUME Alive', call'.pc <= Len(steps'), (current.do = "save")',
                      (current.name \in Workers)'
               PROVE  Solid(call.address, made(current.name), last)'
    BY DEF SavesWorkers
  <1>1. Grows
    BY Grown
  <1>2. SavesWorkers
    BY DEF Orderly
  <1> DEFINE c == call'.number
             i == call'.pc
             s == Program[c][i]
  <1>3. /\ c \in 1..9 /\ i \in 1..Len(Program[c]) /\ current' = s
        /\ Located(c, i, s)
    <2>1. c \in 1..9 /\ i \in Nat \ {0}
      BY CallNumbers DEF Typed
    <2>2. steps' = Program[c] /\ current' = s
      BY DEF steps, current
    <2>3. Len(Program[c]) \in Nat
      BY <2>1, Lengths
    <2>4. i \in 1..Len(Program[c])
      BY <2>1, <2>2, <2>3
    <2> QED BY <2>1, <2>2, <2>4, Locations
  <1>4. SavedAfter(c, i, s.name) /\ s.name \in Workers /\ i > 1
    BY <1>3 DEF Located, SavedAfter
  <1>5. ASSUME NEW a, Solid(a, made(s.name), last), call'.address = a
        PROVE  Solid(call.address, made(current.name), last)'
    <2>1. a \in 1..last' /\ content(a)' = made(s.name)
      BY <1>1, <1>5, KnownStays
    <2> QED BY <1>3, <1>5, <2>1 DEF Solid, made
  <1>6. CASE call' = call
    <2>1. current = s /\ Alive /\ call.pc <= Len(steps)
      BY <1>6 DEF current, steps, Alive
    <2>2. s.do = "save"
      BY <1>3
    <2>3. Solid(call.address, made(s.name), last)
      BY <1>2, <1>4, <2>1, <2>2 DEF SavesWorkers
    <2> QED BY <1>5, <1>6, <2>3
  <1>7. CASE Move
    <2>1. Moved
      BY <1>7, MoveFacts
    <2>2. call.number = c /\ Alive /\ call.pc <= Len(steps)
      BY <2>1 DEF Moved
    <2>3. CASE i = call.pc + 1
      <3>1. call.pc = i - 1
        BY <1>3, <2>3 DEF Typed
      <3>2. current = Program[c][i - 1]
        BY <2>2, <3>1 DEF current, steps
      <3>3. CASE current.do = "create" /\ current.name = made(s.name)
        <4> DEFINE tx == [op |-> "create", name |-> current.name, to |-> NOBODY]
        <4>1. /\ pool' = Append(pool, tx) /\ tx.op = "create" /\ tx.name = current.name
              /\ call'.address = last + 1 /\ chain' = chain
          BY <2>1, <3>3 DEF Moved
        <4> HIDE DEF tx
        <4>2. PICK a : a = last + 1
          OBVIOUS
        <4>3. content(a)' = made(s.name) /\ last' = last + 1
          <5>1. /\ last' = last + 1
                /\ \A n : n = last + 1
                           => content(n)' = IF tx.op = "create" THEN tx.name ELSE ""
            BY <4>1, PushGrows
          <5> QED BY <3>3, <4>1, <4>2, <5>1
        <4>4. last \in Nat
          BY Counts
        <4>5. last + 1 \in 1..(last + 1)
          BY <4>4
        <4>6. a \in 1..last'
          BY <4>2, <4>3, <4>5
        <4> QED BY <1>3, <4>1, <4>2, <4>3, <4>6 DEF Solid, made
      <3>4. CASE current.do = "save" /\ current.name \in Workers /\ made(current.name) = made(s.name)
        <4>1. Solid(call.address, made(s.name), last)
          BY <1>2, <2>2, <3>4 DEF SavesWorkers
        <4>2. call'.address = call.address
          BY <2>1, <3>4 DEF Moved
        <4> QED BY <1>5, <4>1, <4>2
      <3> QED BY <1>4, <3>2, <3>3, <3>4 DEF SavedAfter
    <2>4. CASE i # call.pc + 1
      <3>1. /\ Located(c, call.pc, current) /\ call.pc \in Nat
            /\ \/ current.do = "read" /\ i = call.pc + 7
               \/ current.do \in {"oracle", "adapter"} /\ i = call.pc + 5
        BY <2>1, <2>2, <2>4, Running DEF Moved, Typed
      <3>2. Program[c][i - 1].do = "wait"
        <4>1. CASE current.do = "read"
          <5>1. c \in Configures /\ call.pc = block(c) + 3
            BY <3>1, <4>1 DEF Located
          <5>2. block(c) \in Nat /\ Program[c][block(c) + 9].do = "wait"
            BY <5>1, RoutineDoes
          <5>3. i - 1 = block(c) + 9
            BY <3>1, <4>1, <5>1, <5>2
          <5> QED BY <5>2, <5>3
        <4>2. CASE current.do = "oracle"
          <5>1. c = 8 /\ i - 1 = 6
            BY <3>1, <4>2 DEF Located
          <5> QED BY <5>1, OracleCall, Forms
        <4>3. CASE current.do = "adapter"
          <5>1. c = 8 /\ i - 1 = 11
            BY <3>1, <4>3 DEF Located
          <5> QED BY <5>1, OracleCall, Forms
        <4> QED BY <3>1, <4>1, <4>2, <4>3
      <3> QED BY <1>4, <3>2 DEF SavedAfter
    <2> QED BY <2>3, <2>4
  <1>8. ~ \E number \in 1..9 : call' = [Idle EXCEPT !.number = number, !.at = "running"]
    <2> SUFFICES ASSUME NEW number \in 1..9,
                        call' = [Idle EXCEPT !.number = number, !.at = "running"]
                 PROVE  FALSE
      OBVIOUS
    <2>1. call'.pc = 1
      BY DEF Idle
    <2> QED BY <1>4, <2>1
  <1>9. call' # [call EXCEPT !.at = "dead"] /\ ~ Finish
    BY DEF Alive, Typed, Finish
  <1>10. Mine => call' = call
    BY DEF Mine
  <1> QED BY <1>6, <1>7, <1>8, <1>9, <1>10 DEF Kinds


-------------------------------------------------------------------------------
(***************************************************************************)
(* The kinds of steps again, by what they do to the call.                  *)
(***************************************************************************)
Same == chain' = chain /\ pool' = pool /\ db' = db
Started == Same /\ call'.pc = 1 /\ call'.sent = 0 /\ call'.at = "running"
Died == Same /\ call'.at = "dead"
Finished ==
    /\ Same /\ Alive /\ call.pc > Len(steps) /\ call'.at = "done"
    /\ call'.number = call.number /\ call'.pc = call.pc /\ call'.sent = call.sent
    /\ call'.admin = call.admin /\ call'.address = call.address /\ call'.todo = call.todo
Steps ==
    \/ call' = call /\ Same
    \/ MinedFirst \/ Started \/ Died \/ Finished \/ Moved

LEMMA CallSteps ==
    ASSUME Typed, Kinds
    PROVE  Steps /\ Grows
  <1>1. Grows
    BY Grown
  <1>2. CASE UNCHANGED <<chain, pool, db, call>>
    BY <1>1, <1>2 DEF Steps, Same
  <1>3. CASE \E number \in 1..9 :
               /\ call' = [Idle EXCEPT !.number = number, !.at = "running"]
               /\ UNCHANGED <<chain, pool, db>>
    BY <1>1, <1>3 DEF Steps, Same, Started, Idle
  <1>4. CASE call' = [call EXCEPT !.at = "dead"] /\ UNCHANGED <<chain, pool, db>>
    BY <1>1, <1>4 DEF Steps, Same, Died, Typed
  <1>5. CASE Finish
    BY <1>1, <1>5 DEF Steps, Same, Finished, Typed, Finish
  <1>6. CASE Mine
    BY <1>1, <1>6, MineFacts DEF Steps
  <1>7. CASE Move
    BY <1>1, <1>7, MoveFacts DEF Steps
  <1> QED BY <1>2, <1>3, <1>4, <1>5, <1>6, <1>7 DEF Kinds

\* Where a step leads.
LEMMA Leads ==
    ASSUME Typed, Moved
    PROVE  LET c == call.number
           IN  /\ c \in 1..9 /\ call.pc \in Nat \ {0} /\ call.pc \in 1..Len(Program[c])
               /\ current = Program[c][call.pc] /\ Located(c, call.pc, current)
               /\ c \in Configures =>
                    \/ call'.pc = call.pc + 1
                    \/ /\ call.pc = block(c) + 3 /\ call'.pc = block(c) + 10
                       /\ Assets \ chain.configured = {}
               /\ c \notin Configures \cup {8} => call'.pc = call.pc + 1
  <1> DEFINE c == call.number
  <1>1. /\ c \in 1..9 /\ call.pc \in 1..Len(Program[c])
        /\ current = Program[c][call.pc] /\ Located(c, call.pc, current)
    BY Running DEF Moved
  <1>2. call.pc \in Nat \ {0}
    BY DEF Typed
  <1>3. /\ current.do = "read" => c \in Configures /\ call.pc = block(c) + 3
        /\ current.do \in {"oracle", "adapter"} => c = 8
    BY <1>1 DEF Located
  <1>4. ASSUME c \in Configures
        PROVE  \/ call'.pc = call.pc + 1
               \/ /\ call.pc = block(c) + 3 /\ call'.pc = block(c) + 10
                  /\ Assets \ chain.configured = {}
    <2>1. c # 8
      BY <1>4 DEF Configures, INITIALIZE
    <2>2. block(c) \in Nat
      BY <1>4, RoutineDoes
    <2>3. \/ call'.pc = call.pc + 1
          \/ /\ call.pc = block(c) + 3 /\ Assets \ chain.configured = {}
             /\ call'.pc = call.pc + 7
      BY <1>3, <2>1 DEF Moved
    <2> HIDE DEF c
    <2> QED BY <2>2, <2>3
  <1>5. c \notin Configures \cup {8} => call'.pc = call.pc + 1
    BY <1>3 DEF Moved
  <1> QED BY <1>1, <1>2, <1>4, <1>5

\* The step before one of configureReservesByHelper.
LEMMA BlockBefore ==
    ASSUME Typed, Moved, NEW k \in 2..9, InBlock(k)'
    PROVE  /\ InBlock(k - 1) /\ call.number \in Configures
           /\ current = Program[call.number][block(call.number) + (k - 1)]
           /\ call'.pc = call.pc + 1
  <1> DEFINE c == call.number
  <1>1. Alive /\ call'.number = c
    BY DEF Moved
  <1>2. c \in Configures /\ call'.pc = block(c) + k
    BY <1>1 DEF InBlock
  <1>3. block(c) \in Nat
    BY <1>2, RoutineDoes
  <1>4. call'.pc = call.pc + 1 /\ call.pc \in Nat
    <2>1. \/ call'.pc = call.pc + 1
          \/ call'.pc = block(c) + 10
      BY <1>2, Leads
    <2>2. call.pc \in Nat
      BY Leads
    <2> HIDE DEF c
    <2> QED BY <1>2, <1>3, <2>1, <2>2
  <1>5. call.pc = block(c) + (k - 1)
    <2> HIDE DEF c
    <2> QED BY <1>2, <1>3, <1>4
  <1>6. current = Program[c][call.pc]
    BY Leads
  <1> QED BY <1>1, <1>2, <1>4, <1>5, <1>6 DEF InBlock

\* Inside the routine, no step saves anything.
LEMMA BlockKeeps ==
    ASSUME Typed, Moved, NEW k \in 3..9, InBlock(k)'
    PROVE  db' = db
  <1> DEFINE c == call.number
             p(j) == Program[c][block(c) + j]
  <1>1. c \in Configures /\ current = p(k - 1)
    BY BlockBefore
  <1>2. current.do \in {"need", "read", "send", "wait"}
    <2>1. /\ p(2).do = "need" /\ p(3).do = "read" /\ p(4).do = "send" /\ p(5).do = "wait"
          /\ p(6).do = "send" /\ p(7).do = "wait" /\ p(8).do = "send" /\ p(9).do = "wait"
      BY <1>1, RoutineDoes DEF Is
    <2>2. k - 1 \in {2, 3, 4, 5, 6, 7, 8}
      OBVIOUS
    <2> HIDE DEF p
    <2> QED BY <1>1, <2>1, <2>2
  <1> QED BY <1>2 DEF Moved


LEMMA NotAtTheStart ==
    ASSUME NEW k \in 2..9, Started
    PROVE  ~ InBlock(k)'
  <1> SUFFICES ASSUME InBlock(k)' PROVE FALSE
    OBVIOUS
  <1> DEFINE c == call'.number
  <1>1. c \in Configures /\ call'.pc = block(c) + k /\ call'.pc = 1
    BY DEF InBlock, Started
  <1>2. block(c) \in Nat
    BY <1>1, RoutineDoes
  <1> HIDE DEF c
  <1> QED BY <1>1, <1>2

\* A step of the call that runs setInitialMarketRates, or of initialize.
LEMMA RatesBefore ==
    ASSUME Typed, Moved, call'.number = Lends
    PROVE  /\ Alive /\ call.number = Lends /\ call.pc \in 1..7 /\ call'.pc = call.pc + 1
           /\ current = Program[Lends][call.pc] /\ db' = db
  <1>1. Alive /\ call.number = Lends
    BY DEF Moved
  <1>2. /\ call.pc \in 1..7 /\ current = Program[Lends][call.pc]
    BY <1>1, Leads, RatesDoes
  <1>3. call'.pc = call.pc + 1
    BY <1>1, Leads DEF Lends, Configures, INITIALIZE
  <1>4. current.do \in {"need", "send", "wait"}
    <2> DEFINE p == Program[Lends]
    <2>1. /\ p[1].do = "need" /\ p[2].do = "send" /\ p[3].do = "wait" /\ p[4].do = "send"
          /\ p[5].do = "wait" /\ p[6].do = "send" /\ p[7].do = "wait"
      BY RatesDoes DEF Is
    <2>2. call.pc \in {1, 2, 3, 4, 5, 6, 7} /\ current = p[call.pc]
      BY <1>2
    <2> HIDE DEF p
    <2> QED BY <2>1, <2>2
  <1> QED BY <1>1, <1>2, <1>3, <1>4 DEF Moved

LEMMA InitializeBefore ==
    ASSUME Typed, Moved, call'.number = INITIALIZE
    PROVE  LET b == block(INITIALIZE)
           IN  /\ Alive /\ call.number = INITIALIZE /\ INITIALIZE \in Configures
               /\ call.pc \in Nat \ {0}
               /\ current = Program[INITIALIZE][call.pc]
               /\ Located(INITIALIZE, call.pc, current)
               /\ \/ call'.pc = call.pc + 1
                  \/ /\ call.pc = b + 3 /\ call'.pc = b + 10
                     /\ Assets \ chain.configured = {}
  <1>1. Alive /\ call.number = INITIALIZE
    BY DEF Moved
  <1>2. INITIALIZE \in Configures
    BY DEF Configures
  <1> QED BY <1>1, <1>2, Leads

\* During the listing, no step saves anything.
LEMMA ListingKeeps ==
    ASSUME Typed, Moved, call'.number = INITIALIZE,
           call.pc > listing, call.pc <= block(INITIALIZE)
    PROVE  /\ db' = db /\ call'.pc = call.pc + 1
           /\ \E k \in 1..Len(Reserves) :
                \/ call.pc = listing + 2 * k - 1 /\ Is(current, "send", "batchInitReserve")
                   /\ current.assets = {Reserves[k]}
                \/ call.pc = listing + 2 * k /\ current.do = "wait"
  <1> DEFINE n == Len(Reserves)
             b == block(INITIALIZE)
             p == Program[INITIALIZE]
  <1>1. /\ n \in Nat \ {0} /\ listing \in Nat /\ b \in Nat /\ b = listing + 2 * n
        /\ \A k \in 1..n : /\ Is(p[listing + 2 * k - 1], "send", "batchInitReserve")
                           /\ p[listing + 2 * k - 1].assets = {Reserves[k]}
                           /\ p[listing + 2 * k].do = "wait"
    BY InitializeDoes
  <1>2. /\ call.pc \in Nat /\ current = p[call.pc]
        /\ call'.pc = call.pc + 1 \/ call.pc = b + 3
    BY InitializeBefore
  <1> DEFINE x == listing
  <1>3. call.pc > x /\ call.pc <= b
    OBVIOUS
  <1> HIDE DEF n, b, p, x
  <1>4. x \in Nat /\ b = x + 2 * n
    BY <1>1 DEF x
  <1>5. call'.pc = call.pc + 1
    BY <1>1, <1>2, <1>3
  <1>6. call.pc - x \in 1..(2 * n)
    BY <1>1, <1>2, <1>3, <1>4
  <1>7. PICK k \in 1..n : call.pc - x = 2 * k - 1 \/ call.pc - x = 2 * k
    BY <1>1, <1>6, Halves
  <1>8. call.pc = x + 2 * k - 1 \/ call.pc = x + 2 * k
    BY <1>1, <1>2, <1>4, <1>7
  <1>9. \/ call.pc = listing + 2 * k - 1 /\ Is(current, "send", "batchInitReserve")
           /\ current.assets = {Reserves[k]}
        \/ call.pc = listing + 2 * k /\ current.do = "wait"
    BY <1>1, <1>2, <1>8 DEF x
  <1>10. db' = db
    BY <1>9 DEF Moved, Is
  <1> QED BY <1>5, <1>9, <1>10 DEF n

LEMMA LooksUpNext ==
    ASSUME Typed, Orderly, Steps
    PROVE  LooksUp'
  <1>1. LooksUp
    BY DEF Orderly
  <1>2. CASE call' = call /\ db' = db
    BY <1>1, <1>2 DEF LooksUp, InBlock, Alive, block
  <1>3. CASE Died \/ Finished
    BY <1>3 DEF Died, Finished, LooksUp, InBlock, Alive
  <1>4. CASE Started
    <2>1. \A k \in 3..9 : ~ InBlock(k)'
      BY <1>4, NotAtTheStart
    <2>2. listing \in Nat /\ call'.pc = 1
      BY <1>4, InitializeDoes DEF Started
    <2>3. ~ (call'.pc > 1) /\ ~ (call'.pc > listing)
      <3>1. listing >= 5
        BY InitializeDoes
      <3> QED BY <2>2, <3>1
    <2> QED BY <2>1, <2>3 DEF LooksUp
  <1>5. CASE Moved
    <2>1. ASSUME NEW k \in 3..9, InBlock(k)'
          PROVE  db'["ELTokensAndRatesHelper"] # NOBODY
      <3>1. db' = db
        BY <1>5, <2>1, BlockKeeps
      <3>2. /\ InBlock(k - 1) /\ call.number \in Configures
            /\ current = Program[call.number][block(call.number) + (k - 1)]
        BY <1>5, <2>1, BlockBefore
      <3>3. CASE k = 3
        <4>1. Is(current, "need", "ELTokensAndRatesHelper")
          <5>1. Is(Program[call.number][block(call.number) + 2], "need", "ELTokensAndRatesHelper")
            BY <3>2, RoutineDoes
          <5> QED BY <3>2, <3>3, <5>1
        <4> QED BY <1>5, <3>1, <4>1 DEF Moved, Is
      <3>4. CASE k # 3
        <4>1. k - 1 \in 3..9
          BY <3>4
        <4> QED BY <1>1, <3>1, <3>2, <4>1 DEF LooksUp
      <3> QED BY <3>3, <3>4
    <2>2. ASSUME call'.number = Lends, call'.pc > 1
          PROVE  db'["StableAndVariableTokensHelper"] # NOBODY
      <3>1. /\ Alive /\ call.number = Lends /\ call.pc \in 1..7
            /\ current = Program[Lends][call.pc] /\ db' = db
        BY <1>5, <2>2, RatesBefore
      <3>2. CASE call.pc = 1
        <4>1. Is(current, "need", "StableAndVariableTokensHelper")
          BY <3>1, <3>2, RatesDoes
        <4> QED BY <1>5, <3>1, <4>1 DEF Moved, Is
      <3>3. CASE call.pc # 1
        BY <1>1, <3>1, <3>3 DEF LooksUp
      <3> QED BY <3>2, <3>3
    <2>3. ASSUME call'.number = INITIALIZE, call'.pc > listing, call'.pc <= block(INITIALIZE)
          PROVE  db'["LendingPoolConfigurator"] # NOBODY
      <3> DEFINE b == block(INITIALIZE)
                 x == listing
      <3>1. /\ Alive /\ call.number = INITIALIZE /\ call.pc \in Nat \ {0}
            /\ current = Program[INITIALIZE][call.pc]
            /\ call'.pc = call.pc + 1 \/ call'.pc = b + 10
        BY <1>5, <2>3, InitializeBefore
      <3>2. b \in Nat /\ x \in Nat /\ Is(Program[INITIALIZE][x], "need", "LendingPoolConfigurator")
        BY InitializeDoes
      <3>3. call'.pc > x /\ call'.pc <= b
        BY <2>3
      <3> HIDE DEF b, x
      <3>4. call'.pc = call.pc + 1 /\ (call.pc = x \/ (call.pc > x /\ call.pc <= b))
        BY <3>1, <3>2, <3>3
      <3>5. CASE call.pc = x
        <4>1. Is(current, "need", "LendingPoolConfigurator")
          BY <3>1, <3>2, <3>5
        <4> QED BY <1>5, <4>1 DEF Moved, Is
      <3>6. CASE call.pc > x /\ call.pc <= b
        <4>1. call.pc > listing /\ call.pc <= block(INITIALIZE)
          BY <3>6 DEF x, b
        <4>2. db' = db
          BY <1>5, <2>3, <4>1, ListingKeeps
        <4> QED BY <1>1, <3>1, <4>1, <4>2 DEF LooksUp
      <3> QED BY <3>4, <3>5, <3>6
    <2> QED BY <2>1, <2>2, <2>3 DEF LooksUp
  <1> QED BY <1>2, <1>3, <1>4, <1>5 DEF Steps, Same, MinedFirst


-------------------------------------------------------------------------------
(***************************************************************************)
(* What is sent, and to whom.                                              *)
(***************************************************************************)
LEMMA TransactionFields ==
    /\ transaction.op = current.name
    /\ current.name = "configureReserves"
         => transaction.to = db["ELTokensAndRatesHelper"] /\ transaction.assets = call.todo
    /\ current.name = "setOracleBorrowRates"
         => /\ transaction.to = db["StableAndVariableTokensHelper"]
            /\ transaction.assets = Assets
    /\ current.name = "batchInitReserve"
         => /\ transaction.to = db["LendingPoolConfigurator"]
            /\ transaction.assets = current.assets
    /\ current.name = "lendAdmin" => transaction.with[1] = db["ELTokensAndRatesHelper"]
    /\ current.name = "returnAdmin" => transaction.with[1] = call.admin
    /\ current.name = "returnOracle" => transaction.with[1] = DEPLOYER
    /\ current.name = "setLendingPoolCollateralManager"
         => transaction.with[1] = call.address
  <1>1. transaction.op = current.name
    BY DEF transaction
  <1>2. current.name = "configureReserves"
         => transaction.to = db["ELTokensAndRatesHelper"] /\ transaction.assets = call.todo
    BY DEF transaction, recipient
  <1>3. current.name = "setOracleBorrowRates"
         => /\ transaction.to = db["StableAndVariableTokensHelper"]
            /\ transaction.assets = Assets
    BY DEF transaction, recipient
  <1>4. current.name = "batchInitReserve"
         => /\ transaction.to = db["LendingPoolConfigurator"]
            /\ transaction.assets = current.assets
    BY DEF transaction, recipient
  <1>5. transaction.with = arguments(current.name)
    BY DEF transaction
  <1>6. /\ arguments("lendAdmin")[1] = db["ELTokensAndRatesHelper"]
        /\ arguments("returnAdmin")[1] = call.admin
        /\ arguments("returnOracle")[1] = DEPLOYER
        /\ arguments("setLendingPoolCollateralManager")[1] = call.address
    BY DEF arguments
  <1> QED BY <1>1, <1>2, <1>3, <1>4, <1>5, <1>6

\* The pending transactions after a step of a call: those that there were and at most
\* one more, which is what the step sends.
Sends ==
    /\ pool' # <<>> /\ pool'[Len(pool')] = transaction /\ current.do = "send"
    /\ current.name \in Messages

LEMMA AfterMove ==
    ASSUME Typed, Moved
    PROVE  /\ last' = call'.sent \/ (pool' = pool /\ call'.sent = call.sent /\ last' = last)
           /\ pool' # pool => call'.sent = last'
           /\ \A i \in 1..Len(pool') :
                \/ i \in 1..Len(pool) /\ pool'[i] = pool[i]
                \/ i = Len(pool') /\ i = Len(pool) + 1 /\ pool'[i].op = "create"
                \/ i = Len(pool') /\ i = Len(pool) + 1 /\ pool'[i] = transaction /\ Sends
           /\ current.do = "send" => Sends /\ call'.sent = last' /\ last' = last + 1
  <1>1. chain' = chain /\ Len(pool) \in Nat /\ Alive /\ call.pc <= Len(steps)
    BY Counts DEF Moved
  <1>2. CASE current.do \notin {"create", "send"}
    <2>1. pool' = pool /\ call'.sent = call.sent
      BY <1>2 DEF Moved
    <2>2. last' = last
      BY <1>1, <2>1 DEF last
    <2> QED BY <1>2, <2>1, <2>2
  <1>3. ASSUME NEW tx, pool' = Append(pool, tx)
        PROVE  /\ last' = last + 1 /\ pool' # <<>> /\ pool'[Len(pool')] = tx
               /\ \A i \in 1..Len(pool') :
                    \/ i \in 1..Len(pool) /\ pool'[i] = pool[i]
                    \/ i = Len(pool') /\ i = Len(pool) + 1 /\ pool'[i] = tx
    <2>1. /\ last' = last + 1 /\ Len(pool') = Len(pool) + 1 /\ pool' # <<>>
          /\ pool'[Len(pool')] = tx /\ \A i \in 1..Len(pool) : pool'[i] = pool[i]
      BY <1>1, <1>3, PushGrows
    <2>2. \A i \in 1..Len(pool') : i \in 1..Len(pool) \/ i = Len(pool')
      BY <1>1, <2>1
    <2> QED BY <2>1, <2>2
  <1>4. CASE current.do = "create"
    <2> DEFINE tx == [op |-> "create", name |-> current.name, to |-> NOBODY]
    <2>1. pool' = Append(pool, tx) /\ call'.sent = last + 1 /\ tx.op = "create"
      BY <1>4 DEF Moved
    <2> HIDE DEF tx
    <2> QED BY <1>3, <1>4, <2>1
  <1>5. CASE current.do = "send"
    <2>1. pool' = Append(pool, transaction) /\ call'.sent = last + 1
      BY <1>5 DEF Moved
    <2>2. current.name \in Messages
      BY <1>1, <1>5, Running DEF Located
    <2>3. /\ last' = last + 1 /\ pool' # <<>> /\ pool'[Len(pool')] = transaction
          /\ \A i \in 1..Len(pool') :
               \/ i \in 1..Len(pool) /\ pool'[i] = pool[i]
               \/ i = Len(pool') /\ i = Len(pool) + 1 /\ pool'[i] = transaction
      BY <1>3, <2>1
    <2>4. Sends
      BY <1>5, <2>2, <2>3 DEF Sends
    <2> QED BY <2>1, <2>3, <2>4
  <1> QED BY <1>2, <1>4, <1>5

LEMMA SentLastNext ==
    ASSUME Typed, Orderly, Steps
    PROVE  SentLast'
  <1>1. SentLast
    BY DEF Orderly
  <1>2. CASE call' = call /\ last' = last
    BY <1>1, <1>2 DEF SentLast, Alive
  <1>3. CASE Died \/ Finished \/ Started
    BY <1>3 DEF Died, Finished, Started, SentLast, Alive
  <1>4. CASE Moved
    <2>1. Alive
      BY <1>4 DEF Moved
    <2> QED BY <1>1, <1>4, <2>1, AfterMove DEF SentLast
  <1>5. CASE MinedFirst
    BY <1>2, <1>5, MineGrows DEF MinedFirst
  <1>6. CASE call' = call /\ Same
    BY <1>2, <1>6, StaysGrows DEF Same
  <1> QED BY <1>3, <1>4, <1>5, <1>6 DEF Steps

LEMMA ReachesWorkersNext ==
    ASSUME Typed, Typed', Orderly, Steps, Grows
    PROVE  ReachesWorkers'
  <1>1. NamesWorkers /\ ReachesWorkers /\ LooksUp
    BY DEF Orderly
  <1>2. /\ Len(chain.code) \in Nat /\ Len(pool) \in Nat /\ last \in Nat
        /\ last = Len(chain.code) + Len(pool)
    BY Counts
  <1> DEFINE Reaches(tx, n) ==
               /\ tx.op = "configureReserves" => Solid(tx.to, "ELTokensAndRatesHelper", n)
               /\ tx.op = "setOracleBorrowRates"
                    => Solid(tx.to, "StableAndVariableTokensHelper", n)
               /\ tx.op = "batchInitReserve"
                    => tx.to = CONFIGURATOR \/ Solid(tx.to, "LendingPoolConfigurator", n)
               /\ tx.op = "lendAdmin" => tx.with[1] # DEPLOYER
  <1>3. ASSUME NEW n \in Nat, n <= last, NEW tx, Reaches(tx, n)
        PROVE  Reaches(tx, n)'
    <2>1. \A name : Solid(tx.to, name, n) => Solid(tx.to, name, n)'
      BY <1>3, SolidStays
    <2> QED BY <1>3, <2>1
  <1>4. \A i \in 1..Len(pool) : Reaches(pool[i], Len(chain.code) + i - 1)
    BY <1>1 DEF ReachesWorkers
  <1>5. ASSUME \A i \in 1..Len(pool') : \E tx, n : tx = pool'[i] /\ n = Len(chain'.code) + i - 1
                                                /\ Reaches(tx, n)'
        PROVE  ReachesWorkers'
    <2> SUFFICES ASSUME NEW i \in 1..Len(pool')
                 PROVE  Reaches(pool[i], Len(chain.code) + i - 1)'
      BY DEF ReachesWorkers
    <2>1. PICK tx, n : tx = pool'[i] /\ n = Len(chain'.code) + i - 1 /\ Reaches(tx, n)'
      BY <1>5
    <2> QED BY <2>1 DEF Solid
  <1>6. ASSUME NEW i \in 1..Len(pool)
        PROVE  \E tx, n : tx = pool[i] /\ n = Len(chain.code) + i - 1 /\ Reaches(tx, n)'
    <2> DEFINE x == Len(chain.code)
    <2>1. PICK tx, n : tx = pool[i] /\ n = x + i - 1
      OBVIOUS
    <2>2. n \in Nat /\ n <= last
      <3>1. x \in Nat /\ Len(pool) \in Nat /\ last = x + Len(pool)
        BY <1>2
      <3> HIDE DEF x
      <3> QED BY <2>1, <3>1
    <2>3. Reaches(tx, n)
      BY <1>4, <2>1
    <2> QED BY <1>3, <2>1, <2>2, <2>3
  <1>7. CASE Same
    BY <1>5, <1>6, <1>7 DEF Same
  <1>8. CASE MinedFirst
    <2> SUFFICES ASSUME NEW i \in 1..Len(pool')
                 PROVE  \E tx, n : tx = pool'[i] /\ n = Len(chain'.code) + i - 1
                                  /\ Reaches(tx, n)'
      BY <1>5
    <2> DEFINE j == i + 1
               x == Len(chain.code)
               y == Len(chain'.code)
    <2>1. j \in 1..Len(pool) /\ pool'[i] = pool[j] /\ y = x + 1 /\ x \in Nat
      BY <1>2, <1>8 DEF MinedFirst
    <2>2. PICK tx, n : tx = pool[j] /\ n = x + j - 1 /\ Reaches(tx, n)'
      BY <1>6, <2>1
    <2>3. x + j - 1 = y + i - 1
      <3> HIDE DEF x, y
      <3> QED BY <2>1
    <2> QED BY <2>1, <2>2, <2>3
  <1>9. CASE Moved
    <2> SUFFICES ASSUME NEW i \in 1..Len(pool')
                 PROVE  \E tx, n : tx = pool'[i] /\ n = Len(chain'.code) + i - 1
                                  /\ Reaches(tx, n)'
      BY <1>5
    <2>1. chain' = chain /\ Alive /\ call.pc <= Len(steps)
      BY <1>9 DEF Moved
    <2>2. CASE i \in 1..Len(pool) /\ pool'[i] = pool[i]
      BY <1>6, <2>1, <2>2
    <2>3. CASE i = Len(pool) + 1 /\ pool'[i].op = "create"
      BY <2>3
    <2>4. CASE i = Len(pool) + 1 /\ pool'[i] = transaction /\ Sends
      <3>1. PICK tx, n : tx = transaction /\ n = last
        OBVIOUS
      <3>2. n = Len(chain'.code) + i - 1
        <4> DEFINE x == Len(chain.code)
        <4>1. x \in Nat /\ Len(pool) \in Nat /\ n = x + Len(pool)
          BY <1>2, <3>1
        <4> HIDE DEF x
        <4>2. n = x + i - 1
          BY <2>4, <4>1
        <4> QED BY <2>1, <4>2 DEF x
      <3>3. current.do = "send" /\ Located(call.number, call.pc, current)
        BY <2>1, <2>4, Running DEF Sends
      <3>4. Reaches(tx, n)
        <4>1. Workers = {"StableAndVariableTokensHelper", "ELTokensAndRatesHelper",
                         "LendingPoolConfigurator", "LendingPoolConfiguratorImpl"}
          BY DEF Workers
        <4>2. ASSUME current.name \in {"configureReserves", "lendAdmin"}
              PROVE  Solid(db["ELTokensAndRatesHelper"], "ELTokensAndRatesHelper", n)
          <5>1. InBlock(4) \/ InBlock(6)
            BY <2>1, <3>3, <4>2 DEF Located, InBlock
          <5>2. db["ELTokensAndRatesHelper"] # NOBODY
            BY <1>1, <5>1 DEF LooksUp
          <5> QED BY <1>1, <3>1, <4>1, <5>2 DEF NamesWorkers, made
        <4>3. ASSUME current.name = "setOracleBorrowRates"
              PROVE  Solid(db["StableAndVariableTokensHelper"], "StableAndVariableTokensHelper", n)
          <5>1. call.number = Lends /\ call.pc > 1
            BY <3>3, <4>3 DEF Located
          <5>2. db["StableAndVariableTokensHelper"] # NOBODY
            BY <1>1, <2>1, <5>1 DEF LooksUp
          <5> QED BY <1>1, <3>1, <4>1, <5>2 DEF NamesWorkers, made
        <4>4. ASSUME current.name = "batchInitReserve"
              PROVE  \/ db["LendingPoolConfigurator"] = CONFIGURATOR
                     \/ Solid(db["LendingPoolConfigurator"], "LendingPoolConfigurator", n)
          <5>1. PICK k \in 1..Len(Reserves) : call.pc = listing + 2 * k - 1
            BY <3>3, <4>4 DEF Located
          <5>2. call.number = INITIALIZE
            BY <3>3, <4>4 DEF Located
          <5>3. call.pc > listing /\ call.pc <= block(INITIALIZE)
            <6> DEFINE x == listing
                       b == block(INITIALIZE)
            <6>1. /\ x \in Nat /\ Len(Reserves) \in Nat /\ b = x + 2 * Len(Reserves)
                  /\ call.pc = x + 2 * k - 1
              BY <5>1, InitializeDoes
            <6> HIDE DEF x, b
            <6>2. call.pc > x /\ call.pc <= b
              BY <6>1
            <6> QED BY <6>2 DEF x, b
          <5>4. db["LendingPoolConfigurator"] # NOBODY
            BY <1>1, <2>1, <5>2, <5>3 DEF LooksUp
          <5> QED BY <1>1, <3>1, <4>1, <5>4 DEF NamesWorkers, made
        <4>5. \A a, name : Solid(a, name, n) => a # DEPLOYER
          BY DEF Solid, DEPLOYER
        <4>6. /\ tx.op = current.name
              /\ current.name = "configureReserves" => tx.to = db["ELTokensAndRatesHelper"]
              /\ current.name = "setOracleBorrowRates"
                   => tx.to = db["StableAndVariableTokensHelper"]
              /\ current.name = "batchInitReserve" => tx.to = db["LendingPoolConfigurator"]
              /\ current.name = "lendAdmin" => tx.with[1] = db["ELTokensAndRatesHelper"]
          BY <3>1, TransactionFields
        <4> QED BY <4>2, <4>3, <4>4, <4>5, <4>6
      <3>5. n \in Nat /\ n <= last
        BY <1>2, <3>1
      <3>6. Reaches(tx, n)'
        BY <1>3, <3>4, <3>5
      <3> QED BY <2>4, <3>1, <3>2, <3>6
    <2> QED BY <1>9, <2>2, <2>3, <2>4, AfterMove
  <1> QED BY <1>7, <1>8, <1>9 DEF Steps, Started, Died, Finished


-------------------------------------------------------------------------------
(***************************************************************************)
(* A call sends a transaction, which is mined, and waits for it.           *)
(***************************************************************************)
LEMMA SentNow ==
    ASSUME Typed, Moved, current.do = "send", NEW op, op = current.name
    PROVE  /\ Waits(op)' /\ ~ succeeded' /\ pool' # <<>>
           /\ pool'[Len(pool')] = transaction
  <1>1. Sends /\ call'.sent = last' /\ last' = last + 1 /\ last \in Nat
    BY AfterMove, Counts
  <1>2. transaction.op = current.name
    BY TransactionFields
  <1>3. call'.sent # 0
    BY <1>1
  <1>4. Waits(op)'
    BY <1>1, <1>2, <1>3 DEF Waits, Sends
  <1> QED BY <1>1, <1>4 DEF Sends, succeeded

LEMMA MinedLast ==
    ASSUME Typed, MinedFirst, NEW op, Waits(op)
    PROVE  /\ Waits(op)'
           /\ succeeded' => /\ Len(pool) = 1 /\ pool # <<>> /\ pool[1].op = op
                            /\ allowed(chain, pool[1])
  <1> DEFINE x == Len(chain.code)
  <1>1. call'.sent = last' /\ call'.sent # 0 /\ call' = call
    BY MineGrows DEF Waits, MinedFirst
  <1>2. Waits(op)'
    BY <1>1 DEF Waits, MinedFirst
  <1>3. ASSUME succeeded'
        PROVE  /\ Len(pool) = 1 /\ pool # <<>> /\ pool[1].op = op
               /\ allowed(chain, pool[1])
    <2>1. Len(pool) = 1 /\ pool # <<>>
      BY <1>3 DEF succeeded, MinedFirst
    <2>2. pool[1].op = op
      BY <2>1 DEF Waits
    <2>3. call.sent = x + 1
      BY <2>1, Counts DEF Waits
    <2>4. call.sent \notin chain'.failed
      BY <1>1, <1>3 DEF succeeded
    <2>5. allowed(chain, pool[1])
      BY <2>3, <2>4 DEF MinedFirst, Change
    <2> QED BY <2>1, <2>2, <2>5
  <1> QED BY <1>2, <1>3

LEMMA WaitedFor ==
    ASSUME Typed, Moved, current.do = "wait", NEW op, Waits(op)
    PROVE  succeeded /\ pool = <<>> /\ pool' = <<>>
  <1> DEFINE x == Len(chain.code)
  <1>1. call.sent <= x /\ call.sent \notin chain.failed /\ pool' = pool
    BY DEF Moved
  <1>2. call.sent = last /\ x \in Nat /\ Len(pool) \in Nat /\ last = x + Len(pool)
    BY Counts DEF Waits
  <1>3. Len(pool) = 0
    <2> HIDE DEF x
    <2> QED BY <1>1, <1>2
  <1>4. pool = <<>>
    <2>1. pool \in Seq(Creation \cup Message)
      BY DEF Typed
    <2> QED BY <1>3, <2>1
  <1> QED BY <1>1, <1>4 DEF succeeded

\* Who it reaches.
LEMMA SolidCode ==
    ASSUME NEW a, NEW name, Solid(a, name, Len(chain.code))
    PROVE  codeAt(chain, a) = name /\ a \in 1..Len(chain.code) /\ a # DEPLOYER
  BY DEF Solid, content, codeAt, DEPLOYER

LEMMA FirstReaches ==
    ASSUME Typed, MinedFirst, ReachesWorkers
    PROVE  LET tx == pool[1]
           IN  /\ tx.op = "configureReserves"
                    => Solid(tx.to, "ELTokensAndRatesHelper", Len(chain.code))
               /\ tx.op = "setOracleBorrowRates"
                    => Solid(tx.to, "StableAndVariableTokensHelper", Len(chain.code))
               /\ tx.op = "batchInitReserve"
                    => \/ tx.to = CONFIGURATOR
                       \/ Solid(tx.to, "LendingPoolConfigurator", Len(chain.code))
               /\ tx.op = "lendAdmin" => tx.with[1] # DEPLOYER
  <1>1. 1 \in 1..Len(pool)
    BY Counts DEF MinedFirst
  <1>2. Len(chain.code) + 1 - 1 = Len(chain.code)
    BY Counts
  <1> QED BY <1>1, <1>2 DEF ReachesWorkers

LEMMA Acts ==
    ASSUME Typed, MinedFirst, ReachesWorkers, allowed(chain, pool[1]),
           pool[1].op \in {"configureReserves", "setOracleBorrowRates", "batchInitReserve",
                           "lendAdmin", "returnAdmin", "setLendingPoolCollateralManager"}
    PROVE  /\ Does(chain, pool[1], pool[1].op)
           /\ pool[1].op = "batchInitReserve" => chain.admin = DEPLOYER
  <1> DEFINE tx == pool[1]
  <1>1. tx.op # "create"
    OBVIOUS
  <1>2. CASE tx.op \in {"configureReserves", "setOracleBorrowRates"}
    <2>1. codeAt(chain, tx.to) \in {"ELTokensAndRatesHelper", "StableAndVariableTokensHelper"}
      BY <1>2, FirstReaches, SolidCode
    <2>2. ~ isVoid(chain, tx)
      BY <1>1, <2>1 DEF isVoid
    <2> QED BY <1>2, <2>2 DEF Does, Happens
  <1>3. CASE tx.op = "batchInitReserve"
    <2>1. tx.to = CONFIGURATOR \/ codeAt(chain, tx.to) = "LendingPoolConfigurator"
      BY <1>3, FirstReaches, SolidCode
    <2>2. ~ isVoid(chain, tx)
      BY <1>1, <2>1 DEF isVoid
    <2>3. chain.admin = DEPLOYER
      BY <1>3, <2>2 DEF allowed
    <2> QED BY <1>3, <2>2, <2>3 DEF Does, Happens
  <1>4. CASE tx.op \in {"lendAdmin", "returnAdmin", "setLendingPoolCollateralManager"}
    <2>1. tx.to = PROVIDER
      BY <1>4 DEF MinedFirst, Carries
    <2>2. ~ isVoid(chain, tx)
      BY <1>1, <2>1 DEF isVoid
    <2> QED BY <1>4, <2>2 DEF Does, Happens
  <1> QED BY <1>2, <1>3, <1>4


-------------------------------------------------------------------------------
(***************************************************************************)
(* The work with the two rights.                                           *)
(***************************************************************************)
LEMMA WorksNext ==
    ASSUME Typed, Orderly, Steps
    PROVE  Works'
  <1>1. Works /\ ReachesWorkers
    BY DEF Orderly
  <1>2. chain.configured \subseteq Assets
    BY DEF Typed, ChainOK
  <1>3. CASE call' = call /\ Same
    BY <1>1, <1>3 DEF Works, Same, InBlock, Alive, Waits, last, succeeded, block
  <1>4. CASE Died \/ Finished
    <2>1. /\ pool' = pool /\ chain' = chain /\ ~ Alive'
      BY <1>4 DEF Died, Finished, Same, Alive
    <2>2. \A k : ~ InBlock(k)'
      BY <2>1 DEF InBlock
    <2> QED BY <1>1, <2>1, <2>2 DEF Works
  <1>5. CASE Started
    <2>1. pool' = pool /\ chain' = chain
      BY <1>5 DEF Started, Same
    <2>2. \A k \in 2..9 : ~ InBlock(k)'
      BY <1>5, NotAtTheStart
    <2> QED BY <1>1, <2>1, <2>2 DEF Works
  <1>6. CASE MinedFirst
    <2>1. /\ call' = call /\ chain.configured \subseteq chain'.configured
          /\ chain'.configured \subseteq Assets
      BY <1>6 DEF MinedFirst, Change, ChainOK
    <2>2. \A k : InBlock(k)' <=> InBlock(k)
      BY <2>1 DEF InBlock, Alive, block
    <2>3. \A k \in 4..9 : InBlock(k)' => Assets \ chain'.configured \subseteq call'.todo
      BY <1>1, <2>1, <2>2 DEF Works
    <2>4. ASSUME InBlock(7)'
          PROVE  /\ Waits("configureReserves")'
                 /\ pool' # <<>> => pool'[Len(pool')].assets = call'.todo
                 /\ succeeded' => call'.todo \subseteq chain'.configured
      <3>1. /\ Waits("configureReserves")
            /\ pool # <<>> => pool[Len(pool)].assets = call.todo
        BY <1>1, <2>2, <2>4 DEF Works
      <3>2. /\ Waits("configureReserves")'
            /\ succeeded' => /\ Len(pool) = 1 /\ pool # <<>>
                             /\ pool[1].op = "configureReserves" /\ allowed(chain, pool[1])
        BY <1>6, <3>1, MinedLast
      <3>3. pool' # <<>> => pool'[Len(pool')].assets = call'.todo
        BY <1>6, <2>1, <3>1 DEF MinedFirst
      <3>4. ASSUME succeeded'
            PROVE  call'.todo \subseteq chain'.configured
        <4>1. Does(chain, pool[1], "configureReserves")
          BY <1>1, <1>6, <3>2, <3>4, Acts
        <4>2. chain'.configured = chain.configured \cup pool[1].assets
          BY <1>6, <4>1 DEF MinedFirst, Change
        <4>3. pool[1].assets = call.todo
          BY <3>1, <3>2, <3>4
        <4> QED BY <2>1, <4>2, <4>3
      <3> QED BY <3>2, <3>3, <3>4
    <2>5. InBlock(8)' \/ InBlock(9)' => chain'.configured = Assets
      BY <1>1, <2>1, <2>2 DEF Works
    <2>6. \A i \in 1..Len(pool') : pool'[i].op = "returnAdmin" => chain'.configured = Assets
      BY <1>1, <1>6, <2>1 DEF Works, MinedFirst
    <2> QED BY <2>3, <2>4, <2>5, <2>6 DEF Works
  <1>7. CASE Moved
    <2> DEFINE c == call.number
               p(j) == Program[c][block(c) + j]
    <2>1. chain' = chain
      BY <1>7 DEF Moved
    <2>2. ASSUME NEW k \in 2..9, InBlock(k)'
          PROVE  InBlock(k - 1) /\ c \in Configures /\ current = p(k - 1)
      BY <1>7, <2>2, BlockBefore
    <2>3. ASSUME NEW k \in 4..9, InBlock(k)'
          PROVE  Assets \ chain'.configured \subseteq call'.todo
      <3>1. InBlock(k - 1) /\ c \in Configures /\ current = p(k - 1)
        BY <2>2, <2>3
      <3>2. CASE k = 4
        <4>1. p(3).do = "read"
          BY <3>1, RoutineDoes
        <4>2. current.do = "read"
          BY <3>1, <3>2, <4>1
        <4> QED BY <1>7, <2>1, <4>2 DEF Moved
      <3>3. CASE k # 4
        <4>1. k - 1 \in 4..9
          BY <3>3
        <4>2. Assets \ chain.configured \subseteq call.todo
          BY <1>1, <3>1, <4>1 DEF Works
        <4> QED BY <1>7, <2>1, <4>2 DEF Moved
      <3> QED BY <3>2, <3>3
    <2>4. ASSUME InBlock(7)'
          PROVE  /\ Waits("configureReserves")' /\ ~ succeeded'
                 /\ pool'[Len(pool')].assets = call'.todo
      <3>1. c \in Configures /\ current = p(6)
        BY <2>2, <2>4
      <3>2. Is(current, "send", "configureReserves")
        BY <3>1, RoutineDoes
      <3>3. /\ Waits("configureReserves")' /\ ~ succeeded'
            /\ pool'[Len(pool')] = transaction
        BY <1>7, <3>2, SentNow DEF Is
      <3>4. transaction.assets = call.todo /\ call'.todo = call.todo
        BY <1>7, <3>2, TransactionFields DEF Is, Moved
      <3> QED BY <3>3, <3>4
    <2>5. ASSUME NEW k \in 8..9, InBlock(k)'
          PROVE  chain'.configured = Assets
      <3>1. InBlock(k - 1) /\ c \in Configures /\ current = p(k - 1)
        BY <2>2, <2>5
      <3>2. CASE k = 8
        <4>1. current.do = "wait"
          BY <3>1, <3>2, RoutineDoes
        <4>2. InBlock(7)
          BY <3>1, <3>2
        <4>3. Waits("configureReserves")
          BY <1>1, <4>2 DEF Works
        <4>4. succeeded
          BY <1>7, <4>1, <4>3, WaitedFor
        <4>5. call.todo \subseteq chain.configured /\ Assets \ chain.configured \subseteq call.todo
          BY <1>1, <4>2, <4>4 DEF Works
        <4> QED BY <1>2, <2>1, <4>5
      <3>3. CASE k = 9
        BY <1>1, <2>1, <3>1, <3>3 DEF Works
      <3> QED BY <3>2, <3>3
    <2>6. ASSUME NEW i \in 1..Len(pool'), pool'[i].op = "returnAdmin"
          PROVE  chain'.configured = Assets
      <3>1. CASE i \in 1..Len(pool) /\ pool'[i] = pool[i]
        BY <1>1, <2>1, <2>6, <3>1 DEF Works
      <3>2. CASE pool'[i] = transaction /\ Sends
        <4>1. current.name = "returnAdmin" /\ current.do = "send" /\ Alive
          BY <1>7, <2>6, <3>2, TransactionFields DEF Sends, Moved
        <4>2. c \in Configures /\ call.pc = block(c) + 8
          BY <1>7, <4>1, Leads DEF Located
        <4>3. InBlock(8)
          BY <4>1, <4>2 DEF InBlock
        <4> QED BY <1>1, <2>1, <4>3 DEF Works
      <3> QED BY <1>7, <2>6, <3>1, <3>2, AfterMove
    <2> QED BY <2>3, <2>4, <2>5, <2>6 DEF Works
  <1> QED BY <1>3, <1>4, <1>5, <1>6, <1>7 DEF Steps


LEMMA RatesNext ==
    ASSUME Typed, Orderly, Steps
    PROVE  Rates'
  <1>1. Rates /\ ReachesWorkers
    BY DEF Orderly
  <1>2. chain.rated \subseteq Assets
    BY DEF Typed, ChainOK
  <1>3. CASE call' = call /\ Same
    BY <1>1, <1>3 DEF Rates, Same, Alive, Waits, last, succeeded
  <1>4. CASE Died \/ Finished
    <2>1. pool' = pool /\ chain' = chain /\ ~ Alive'
      BY <1>4 DEF Died, Finished, Same, Alive
    <2> QED BY <1>1, <2>1 DEF Rates
  <1>5. CASE Started
    <2>1. pool' = pool /\ chain' = chain /\ call'.pc = 1
      BY <1>5 DEF Started, Same
    <2> QED BY <1>1, <2>1 DEF Rates
  <1>6. CASE MinedFirst
    <2>1. /\ call' = call /\ chain.rated \subseteq chain'.rated
          /\ chain'.rated \subseteq Assets
      BY <1>6 DEF MinedFirst, Change, ChainOK
    <2>2. ASSUME Alive', call'.number = Lends, call'.pc = 5
          PROVE  /\ Waits("setOracleBorrowRates")'
                 /\ pool' # <<>> => pool'[Len(pool')].assets = Assets
                 /\ succeeded' => chain'.rated = Assets
      <3>1. /\ Waits("setOracleBorrowRates")
            /\ pool # <<>> => pool[Len(pool)].assets = Assets
        BY <1>1, <2>1, <2>2 DEF Rates, Alive
      <3>2. /\ Waits("setOracleBorrowRates")'
            /\ succeeded' => /\ Len(pool) = 1 /\ pool # <<>>
                             /\ pool[1].op = "setOracleBorrowRates" /\ allowed(chain, pool[1])
        BY <1>6, <3>1, MinedLast
      <3>3. pool' # <<>> => pool'[Len(pool')].assets = Assets
        BY <1>6, <3>1 DEF MinedFirst
      <3>4. ASSUME succeeded'
            PROVE  chain'.rated = Assets
        <4>1. Does(chain, pool[1], "setOracleBorrowRates")
          BY <1>1, <1>6, <3>2, <3>4, Acts
        <4>2. chain'.rated = chain.rated \cup pool[1].assets
          BY <1>6, <4>1 DEF MinedFirst, Change
        <4>3. pool[1].assets = Assets
          BY <3>1, <3>2, <3>4
        <4> QED BY <2>1, <4>2, <4>3
      <3> QED BY <3>2, <3>3, <3>4
    <2>3. Alive' /\ call'.number = Lends /\ call'.pc \in 6..7 => chain'.rated = Assets
      BY <1>1, <2>1 DEF Rates, Alive
    <2>4. \A i \in 1..Len(pool') : pool'[i].op = "returnOracle" => chain'.rated = Assets
      BY <1>1, <1>6, <2>1 DEF Rates, MinedFirst
    <2> QED BY <2>2, <2>3, <2>4 DEF Rates
  <1>7. CASE Moved
    <2>1. chain' = chain
      BY <1>7 DEF Moved
    <2>2. ASSUME call'.number = Lends
          PROVE  /\ Alive /\ call.number = Lends /\ call.pc \in 1..7 /\ call'.pc = call.pc + 1
                 /\ current = Program[Lends][call.pc]
      BY <1>7, <2>2, RatesBefore
    <2>3. ASSUME call'.number = Lends, call'.pc = 5
          PROVE  /\ Waits("setOracleBorrowRates")' /\ ~ succeeded'
                 /\ pool'[Len(pool')].assets = Assets
      <3>1. call.pc = 4 /\ current = Program[Lends][4]
        BY <2>2, <2>3
      <3>2. Is(current, "send", "setOracleBorrowRates")
        BY <3>1, RatesDoes
      <3>3. /\ Waits("setOracleBorrowRates")' /\ ~ succeeded'
            /\ pool'[Len(pool')] = transaction
        BY <1>7, <3>2, SentNow DEF Is
      <3>4. transaction.assets = Assets
        BY <3>2, TransactionFields DEF Is
      <3> QED BY <3>3, <3>4
    <2>4. ASSUME call'.number = Lends, call'.pc \in 6..7
          PROVE  chain'.rated = Assets
      <3>1. CASE call'.pc = 6
        <4>1. call.pc = 5 /\ current.do = "wait" /\ Alive /\ call.number = Lends
          BY <2>2, <2>4, <3>1, RatesDoes
        <4>2. Waits("setOracleBorrowRates")
          BY <1>1, <4>1 DEF Rates
        <4>3. succeeded
          BY <1>7, <4>1, <4>2, WaitedFor
        <4> QED BY <1>1, <2>1, <4>1, <4>3 DEF Rates
      <3>2. CASE call'.pc = 7
        <4>1. call.pc = 6 /\ Alive /\ call.number = Lends
          BY <2>2, <2>4, <3>2
        <4> QED BY <1>1, <2>1, <4>1 DEF Rates
      <3> QED BY <2>4, <3>1, <3>2
    <2>5. ASSUME NEW i \in 1..Len(pool'), pool'[i].op = "returnOracle"
          PROVE  chain'.rated = Assets
      <3>1. CASE i \in 1..Len(pool) /\ pool'[i] = pool[i]
        BY <1>1, <2>1, <2>5, <3>1 DEF Rates
      <3>2. CASE pool'[i] = transaction /\ Sends
        <4>1. current.name = "returnOracle" /\ current.do = "send" /\ Alive
          BY <1>7, <2>5, <3>2, TransactionFields DEF Sends, Moved
        <4>2. call.number = Lends /\ call.pc = 6
          BY <1>7, <4>1, Leads DEF Located
        <4> QED BY <1>1, <2>1, <4>1, <4>2 DEF Rates
      <3> QED BY <1>7, <2>5, <3>1, <3>2, AfterMove
    <2> QED BY <2>3, <2>4, <2>5 DEF Rates
  <1> QED BY <1>3, <1>4, <1>5, <1>6, <1>7 DEF Steps

-------------------------------------------------------------------------------
(***************************************************************************)
(* Initialisation.                                                         *)
(***************************************************************************)
\* Where a step of an initialisation comes from.
LEMMA Initialized ==
    ASSUME Typed, Steps, Initializes'
    PROVE  \/ call' = call /\ Same /\ Initializes
           \/ MinedFirst /\ call' = call /\ Initializes
           \/ Started
           \/ Finished /\ Initializes
           \/ Moved /\ Initializes /\ Alive /\ call.number = INITIALIZE
              /\ call'.number = INITIALIZE
  <1>1. ~ Died
    BY DEF Initializes, Died
  <1>2. CASE Moved
    BY <1>2 DEF Moved, Initializes, Alive
  <1>3. CASE Finished
    BY <1>3 DEF Finished, Initializes, Alive
  <1>4. CASE call' = call /\ Same
    BY <1>4 DEF Initializes
  <1>5. CASE MinedFirst
    BY <1>5 DEF Initializes, MinedFirst
  <1> QED BY <1>1, <1>2, <1>3, <1>4, <1>5 DEF Steps

LEMMA ListsNext ==
    ASSUME Typed, Orderly, Steps
    PROVE  Lists'
  <1> SUFFICES ASSUME NEW k \in 1..Len(Reserves), Initializes'
               PROVE  /\ call'.pc > listing + 2 * k => Reserves[k] \in chain'.listed
                      /\ call'.pc = listing + 2 * k =>
                           /\ Waits("batchInitReserve")'
                           /\ pool' # <<>> => pool'[Len(pool')].assets = {Reserves[k]}
                           /\ succeeded' => Reserves[k] \in chain'.listed
                                            /\ chain'.admin = DEPLOYER
    BY DEF Lists
  <1> DEFINE b == block(INITIALIZE)
             j == listing + 2 * k
             p == Program[INITIALIZE]
  <1>1. /\ Initializes /\ call.pc > j => Reserves[k] \in chain.listed
        /\ Initializes /\ call.pc = j =>
             /\ Waits("batchInitReserve")
             /\ pool # <<>> => pool[Len(pool)].assets = {Reserves[k]}
             /\ succeeded => Reserves[k] \in chain.listed /\ chain.admin = DEPLOYER
    BY DEF Orderly, Lists
  <1>2. /\ j \in Nat /\ j > 1 /\ b \in Nat /\ j <= b
        /\ Is(p[j - 1], "send", "batchInitReserve") /\ p[j - 1].assets = {Reserves[k]}
        /\ p[j].do = "wait"
    <2>1. /\ Len(Reserves) \in Nat /\ listing \in Nat /\ b \in Nat
          /\ b = listing + 2 * Len(Reserves)
          /\ Is(p[listing + 2 * k - 1], "send", "batchInitReserve")
          /\ p[listing + 2 * k - 1].assets = {Reserves[k]}
          /\ p[listing + 2 * k].do = "wait"
      BY InitializeDoes
    <2> DEFINE x == listing
    <2>2. x + 2 * k \in Nat /\ x + 2 * k > 1 /\ x + 2 * k <= b
      <3>1. x \in Nat /\ Len(Reserves) \in Nat /\ b = x + 2 * Len(Reserves)
        BY <2>1
      <3> HIDE DEF x, b
      <3> QED BY <3>1
    <2> QED BY <2>1, <2>2
  <1>3. ReachesWorkers
    BY DEF Orderly
  <1> HIDE DEF j, b, p
  <1>4. CASE call' = call /\ Same /\ Initializes
    <2>1. chain' = chain /\ pool' = pool /\ (Waits("batchInitReserve")' <=> Waits("batchInitReserve"))
          /\ (succeeded' <=> succeeded) /\ call' = call
      BY <1>4 DEF Same, Waits, succeeded, last
    <2> QED BY <1>1, <1>4, <2>1 DEF j
  <1>5. CASE MinedFirst /\ call' = call /\ Initializes
    <2>1. chain.listed \subseteq chain'.listed
      BY <1>5 DEF MinedFirst
    <2>2. call'.pc > j => Reserves[k] \in chain'.listed
      BY <1>1, <1>5, <2>1
    <2>3. ASSUME call'.pc = j
          PROVE  /\ Waits("batchInitReserve")'
                 /\ pool' # <<>> => pool'[Len(pool')].assets = {Reserves[k]}
                 /\ succeeded' => Reserves[k] \in chain'.listed /\ chain'.admin = DEPLOYER
      <3>1. /\ Waits("batchInitReserve")
            /\ pool # <<>> => pool[Len(pool)].assets = {Reserves[k]}
        BY <1>1, <1>5, <2>3
      <3>2. /\ Waits("batchInitReserve")'
            /\ succeeded' => /\ Len(pool) = 1 /\ pool # <<>>
                             /\ pool[1].op = "batchInitReserve" /\ allowed(chain, pool[1])
        BY <1>5, <3>1, MinedLast
      <3>3. pool' # <<>> => pool'[Len(pool')].assets = {Reserves[k]}
        BY <1>5, <3>1 DEF MinedFirst
      <3>4. ASSUME succeeded'
            PROVE  Reserves[k] \in chain'.listed /\ chain'.admin = DEPLOYER
        <4>1. Does(chain, pool[1], "batchInitReserve") /\ chain.admin = DEPLOYER
          BY <1>3, <1>5, <3>2, <3>4, Acts
        <4>2. chain'.listed = chain.listed \cup pool[1].assets
          BY <1>5, <4>1 DEF MinedFirst, Change
        <4>3. pool[1].assets = {Reserves[k]}
          BY <3>1, <3>2, <3>4
        <4>4. chain'.admin = chain.admin
          BY <1>5, <3>2, <3>4 DEF MinedFirst, Change, Does
        <4> QED BY <4>1, <4>2, <4>3, <4>4
      <3> QED BY <3>2, <3>3, <3>4
    <2> QED BY <2>2, <2>3 DEF j
  <1>6. CASE Started
    <2>1. ~ (call'.pc > j) /\ call'.pc # j
      BY <1>2, <1>6 DEF Started
    <2> QED BY <2>1 DEF j
  <1>7. CASE Finished /\ Initializes
    <2>1. /\ chain' = chain /\ pool' = pool /\ call'.pc = call.pc
          /\ (Waits("batchInitReserve")' <=> Waits("batchInitReserve"))
          /\ (succeeded' <=> succeeded)
      BY <1>7 DEF Finished, Same, Waits, succeeded, last
    <2> QED BY <1>1, <1>7, <2>1 DEF j
  <1>8. CASE Moved /\ Initializes /\ Alive /\ call.number = INITIALIZE /\ call'.number = INITIALIZE
    <2>1. /\ call.pc \in Nat \ {0} /\ current = p[call.pc] /\ chain' = chain
          /\ call'.pc = call.pc + 1 \/ (call.pc = b + 3 /\ call'.pc = b + 10)
      BY <1>8, InitializeBefore DEF Moved, b, p
    <2>2. ASSUME call'.pc > j
          PROVE  Reserves[k] \in chain'.listed
      <3>1. call.pc = j \/ call.pc > j
        BY <1>2, <2>1, <2>2
      <3>2. CASE call.pc = j
        <4>1. current.do = "wait" /\ Waits("batchInitReserve")
          BY <1>1, <1>2, <1>8, <2>1, <3>2
        <4>2. succeeded
          BY <1>8, <4>1, WaitedFor
        <4> QED BY <1>1, <1>8, <2>1, <3>2, <4>2
      <3> QED BY <1>1, <1>8, <2>1, <3>1, <3>2
    <2>3. ASSUME call'.pc = j
          PROVE  /\ Waits("batchInitReserve")' /\ ~ succeeded'
                 /\ pool'[Len(pool')].assets = {Reserves[k]}
      <3>1. call.pc = j - 1
        BY <1>2, <2>1, <2>3
      <3>2. Is(current, "send", "batchInitReserve") /\ current.assets = {Reserves[k]}
        BY <1>2, <2>1, <3>1
      <3>3. /\ Waits("batchInitReserve")' /\ ~ succeeded'
            /\ pool'[Len(pool')] = transaction
        BY <1>8, <3>2, SentNow DEF Is
      <3>4. transaction.assets = {Reserves[k]}
        BY <3>2, TransactionFields DEF Is
      <3> QED BY <3>3, <3>4
    <2> QED BY <2>2, <2>3 DEF j
  <1> QED BY <1>4, <1>5, <1>6, <1>7, <1>8, Initialized


\* A step that sends neither of the messages that move the pool admin leaves it alone.
LEMMA AdminStaysByMove ==
    ASSUME Typed, Moved, AdminStays, current.do # "send" \/ current.name \notin {"lendAdmin", "returnAdmin"}
    PROVE  AdminStays'
  <1>1. chain' = chain
    BY DEF Moved
  <1>2. ASSUME NEW i \in 1..Len(pool')
        PROVE  pool'[i].op \notin {"lendAdmin", "returnAdmin"}
    <2>1. CASE i \in 1..Len(pool) /\ pool'[i] = pool[i]
      BY <2>1 DEF AdminStays
    <2>2. CASE pool'[i].op = "create"
      BY <2>2
    <2>3. CASE pool'[i] = transaction /\ Sends
      <3>1. transaction.op = current.name
        BY TransactionFields
      <3> QED BY <2>3, <3>1 DEF Sends
    <2> QED BY <2>1, <2>2, <2>3, AfterMove
  <1> QED BY <1>1, <1>2 DEF AdminStays

LEMMA AdminStaysByMine ==
    ASSUME Typed, MinedFirst, AdminStays
    PROVE  AdminStays'
  <1>1. 1 \in 1..Len(pool)
    BY Counts DEF MinedFirst
  <1>2. pool[1].op \notin {"lendAdmin", "returnAdmin"}
    BY <1>1 DEF AdminStays
  <1>3. chain'.admin = chain.admin
    BY <1>2 DEF MinedFirst, Change, Does
  <1>4. \A i \in 1..Len(pool') : pool'[i].op \notin {"lendAdmin", "returnAdmin"}
    BY DEF MinedFirst, AdminStays
  <1> QED BY <1>3, <1>4 DEF AdminStays

LEMMA AdministersNext ==
    ASSUME Typed, Orderly, Steps
    PROVE  Administers'
  <1> DEFINE b == block(INITIALIZE)
             x == listing
             n == Len(Reserves)
             p == Program[INITIALIZE]
  <1> SUFFICES ASSUME Initializes'
               PROVE  /\ call'.pc > 3 /\ chain'.admin = DEPLOYER
                           => call'.admin = DEPLOYER \/ chain'.configured = Assets
                      /\ call'.pc > x + 2 /\ call'.pc <= b + 4 => AdminStays'
                      /\ call'.pc \in (b + 4)..(b + 9) => call'.admin = DEPLOYER
                      /\ call'.pc = b + 9 =>
                           /\ Waits("returnAdmin")'
                           /\ pool' # <<>> => pool'[Len(pool')].with[1] = DEPLOYER
                           /\ succeeded' => chain'.admin = DEPLOYER
                      /\ call'.pc > b + 9 => AdminStays' /\ chain'.configured = Assets
    BY DEF Administers, block
  <1>1. Initializes =>
          /\ call.pc > 3 /\ chain.admin = DEPLOYER
               => call.admin = DEPLOYER \/ chain.configured = Assets
          /\ call.pc > x + 2 /\ call.pc <= b + 4 => AdminStays
          /\ call.pc \in (b + 4)..(b + 9) => call.admin = DEPLOYER
          /\ call.pc = b + 9 =>
               /\ Waits("returnAdmin")
               /\ pool # <<>> => pool[Len(pool)].with[1] = DEPLOYER
               /\ succeeded => chain.admin = DEPLOYER
          /\ call.pc > b + 9 => AdminStays /\ chain.configured = Assets
    BY DEF Orderly, Administers
  <1>2. /\ x \in Nat /\ x >= 5 /\ n \in Nat \ {0} /\ b \in Nat /\ b >= x + 2
        /\ p[3].do = "admin" /\ p[x + 2].do = "wait"
        /\ Is(p[b + 4], "send", "lendAdmin") /\ Is(p[b + 8], "send", "returnAdmin")
        /\ p[b + 3].do = "read" /\ p[b + 9].do = "wait"
    <2>1. /\ x \in Nat /\ x >= 5 /\ n \in Nat \ {0} /\ b \in Nat /\ b = x + 2 * n
          /\ p[3].do = "admin" /\ \A k \in 1..n : p[x + 2 * k].do = "wait"
      BY InitializeDoes
    <2>2. /\ Is(p[b + 4], "send", "lendAdmin") /\ Is(p[b + 8], "send", "returnAdmin")
          /\ p[b + 3].do = "read" /\ p[b + 9].do = "wait"
      BY RoutineDoes DEF Configures
    <2>3. b >= x + 2 /\ 1 \in 1..n /\ x + 2 * 1 = x + 2
      <3>1. x \in Nat /\ n \in Nat \ {0} /\ b = x + 2 * n
        BY <2>1
      <3> HIDE DEF x, b, n
      <3> QED BY <3>1
    <2>4. p[x + 2].do = "wait"
      BY <2>1, <2>3
    <2> QED BY <2>1, <2>2, <2>3, <2>4
  <1>3. Works /\ ReachesWorkers
    BY DEF Orderly
  <1> HIDE DEF x, n, p, b
  <1>4. CASE call' = call /\ Same /\ Initializes
    <2>1. /\ chain' = chain /\ pool' = pool /\ call' = call
          /\ (Waits("returnAdmin")' <=> Waits("returnAdmin"))
          /\ (succeeded' <=> succeeded) /\ (AdminStays' <=> AdminStays)
      BY <1>4 DEF Same, Waits, succeeded, last, AdminStays
    <2> QED BY <1>1, <1>4, <2>1
  <1>5. CASE MinedFirst /\ call' = call /\ Initializes
    <2>1. /\ chain.configured \subseteq chain'.configured /\ chain.configured \subseteq Assets
          /\ chain'.configured \subseteq Assets
      BY <1>5 DEF MinedFirst, Change, ChainOK, Typed
    <2>2. AdminStays => AdminStays'
      BY <1>5, AdminStaysByMine
    <2>3. ASSUME call'.pc > 3, chain'.admin = DEPLOYER
          PROVE  call'.admin = DEPLOYER \/ chain'.configured = Assets
      <3>1. CASE chain.admin = DEPLOYER
        BY <1>1, <1>5, <2>1, <2>3, <3>1
      <3>2. CASE chain.admin # DEPLOYER
        <4>1. pool[1].op \in {"lendAdmin", "returnAdmin"} /\ pool[1].with[1] = DEPLOYER
          BY <1>5, <2>3, <3>2 DEF MinedFirst, Change, Does
        <4>2. pool[1].op # "lendAdmin"
          BY <1>3, <1>5, <4>1, FirstReaches
        <4>3. 1 \in 1..Len(pool)
          BY <1>5, Counts DEF MinedFirst
        <4>4. chain.configured = Assets
          BY <1>3, <4>1, <4>2, <4>3 DEF Works
        <4> QED BY <2>1, <4>4
      <3> QED BY <3>1, <3>2
    <2>4. ASSUME call'.pc = b + 9
          PROVE  /\ Waits("returnAdmin")'
                 /\ pool' # <<>> => pool'[Len(pool')].with[1] = DEPLOYER
                 /\ succeeded' => chain'.admin = DEPLOYER
      <3>1. /\ Waits("returnAdmin")
            /\ pool # <<>> => pool[Len(pool)].with[1] = DEPLOYER
        BY <1>1, <1>5, <2>4
      <3>2. /\ Waits("returnAdmin")'
            /\ succeeded' => /\ Len(pool) = 1 /\ pool # <<>>
                             /\ pool[1].op = "returnAdmin" /\ allowed(chain, pool[1])
        BY <1>5, <3>1, MinedLast
      <3>3. pool' # <<>> => pool'[Len(pool')].with[1] = DEPLOYER
        BY <1>5, <3>1 DEF MinedFirst
      <3>4. ASSUME succeeded'
            PROVE  chain'.admin = DEPLOYER
        <4>1. Does(chain, pool[1], "returnAdmin")
          BY <1>3, <1>5, <3>2, <3>4, Acts
        <4>2. chain'.admin = pool[1].with[1]
          BY <1>5, <4>1 DEF MinedFirst, Change
        <4>3. pool[1].with[1] = DEPLOYER
          BY <3>1, <3>2, <3>4
        <4> QED BY <4>2, <4>3
      <3> QED BY <3>2, <3>3, <3>4
    <2>5. call'.pc > x + 2 /\ call'.pc <= b + 4 => AdminStays'
      BY <1>1, <1>5, <2>2
    <2>6. call'.pc \in (b + 4)..(b + 9) => call'.admin = DEPLOYER
      BY <1>1, <1>5
    <2>7. call'.pc > b + 9 => AdminStays' /\ chain'.configured = Assets
      BY <1>1, <1>5, <2>1, <2>2
    <2> QED BY <2>3, <2>4, <2>5, <2>6, <2>7
  <1>6. CASE Started
    <2>1. /\ ~ (call'.pc > 3) /\ ~ (call'.pc > x + 2) /\ call'.pc \notin (b + 4)..(b + 9)
          /\ call'.pc # b + 9 /\ ~ (call'.pc > b + 9)
      BY <1>2, <1>6 DEF Started
    <2> QED BY <2>1
  <1>7. CASE Finished /\ Initializes
    <2>1. /\ chain' = chain /\ pool' = pool /\ call'.pc = call.pc /\ call'.admin = call.admin
          /\ (Waits("returnAdmin")' <=> Waits("returnAdmin"))
          /\ (succeeded' <=> succeeded) /\ (AdminStays' <=> AdminStays)
      BY <1>7 DEF Finished, Same, Waits, succeeded, last, AdminStays
    <2> QED BY <1>1, <1>7, <2>1
  <1>8. CASE Moved /\ Initializes /\ Alive /\ call.number = INITIALIZE /\ call'.number = INITIALIZE
    <2>1. /\ call.pc \in Nat \ {0} /\ current = p[call.pc] /\ chain' = chain
          /\ \/ call'.pc = call.pc + 1
             \/ /\ call.pc = b + 3 /\ call'.pc = b + 10
                /\ Assets \ chain.configured = {}
          /\ Located(INITIALIZE, call.pc, current)
      BY <1>8, InitializeBefore DEF Moved, b, p
    <2>2. call'.admin = IF current.do = "admin" THEN chain.admin ELSE call.admin
      BY <1>8 DEF Moved
    <2>3. /\ current.do = "admin" => call.pc = 3
          /\ current.do = "send" /\ current.name = "lendAdmin" => call.pc = b + 4
          /\ current.do = "send" /\ current.name = "returnAdmin" => call.pc = b + 8
      BY <2>1 DEF Located, b
    <2>4. chain.configured \subseteq Assets
      BY DEF Typed, ChainOK
    <2>5. ASSUME call'.pc > 3, chain'.admin = DEPLOYER
          PROVE  call'.admin = DEPLOYER \/ chain'.configured = Assets
      <3>1. call.pc = 3 \/ call.pc > 3
        BY <1>2, <2>1, <2>5
      <3>2. CASE call.pc = 3
        BY <1>2, <2>1, <2>2, <2>5, <3>2
      <3>3. CASE call.pc > 3
        <4>1. call'.admin = call.admin
          BY <2>1, <2>2, <2>3, <3>3
        <4> QED BY <1>1, <1>8, <2>1, <2>5, <3>3, <4>1
      <3> QED BY <3>1, <3>2, <3>3
    <2>6. ASSUME call'.pc > x + 2, call'.pc <= b + 4
          PROVE  AdminStays'
      <3>1. call'.pc = call.pc + 1 /\ (call.pc = x + 2 \/ call.pc > x + 2) /\ call.pc < b + 4
        BY <1>2, <2>1, <2>6
      <3>2. AdminStays
        <4>1. CASE call.pc = x + 2
          <5>1. current.do = "wait"
            BY <1>2, <2>1, <4>1
          <5>2. 1 \in 1..Len(Reserves) /\ call.pc = listing + 2 * 1
            BY <1>2, <4>1 DEF x, n
          <5>3. Waits("batchInitReserve") /\ (succeeded => chain.admin = DEPLOYER)
            BY <1>8, <5>2 DEF Orderly, Lists
          <5>4. succeeded /\ pool = <<>>
            BY <1>8, <5>1, <5>3, WaitedFor
          <5> QED BY <5>3, <5>4 DEF AdminStays
        <4>2. CASE call.pc > x + 2
          <5>1. call.pc <= b + 4
            BY <1>2, <2>1, <3>1
          <5> QED BY <1>1, <1>8, <4>2, <5>1
        <4> QED BY <3>1, <4>1, <4>2
      <3>3. current.do # "send" \/ current.name \notin {"lendAdmin", "returnAdmin"}
        BY <1>2, <2>1, <2>3, <3>1
      <3> QED BY <1>8, <3>2, <3>3, AdminStaysByMove
    <2>7. ASSUME call'.pc \in (b + 4)..(b + 9)
          PROVE  call'.admin = DEPLOYER
      <3>1. call'.pc = call.pc + 1 /\ (call.pc = b + 3 \/ call.pc \in (b + 4)..(b + 9))
        BY <1>2, <2>1, <2>7
      <3>2. call'.admin = call.admin
        BY <1>2, <2>1, <2>2, <2>3, <3>1
      <3>3. CASE call.pc = b + 3
        <4>1. call.pc > 3 /\ call.pc > x + 2 /\ call.pc <= b + 4
          BY <1>2, <3>3
        <4>2. AdminStays
          BY <1>1, <1>8, <4>1
        <4>3. call.admin = DEPLOYER \/ chain.configured = Assets
          BY <1>1, <1>8, <4>1, <4>2 DEF AdminStays
        <4>4. current.do = "read"
          BY <1>2, <2>1, <3>3
        <4>5. chain.configured # Assets
          <5>1. ~ (Assets \ chain.configured = {})
            <6>1. call'.pc # call.pc + 7
              BY <2>1, <3>1
            <6> QED BY <1>8, <4>4, <6>1 DEF Moved
          <5> QED BY <5>1
        <4> QED BY <3>2, <4>3, <4>5
      <3>4. CASE call.pc \in (b + 4)..(b + 9)
        BY <1>1, <1>8, <3>2, <3>4
      <3> QED BY <3>1, <3>3, <3>4
    <2>8. ASSUME call'.pc = b + 9
          PROVE  /\ Waits("returnAdmin")' /\ ~ succeeded'
                 /\ pool'[Len(pool')].with[1] = DEPLOYER
      <3>1. call.pc = b + 8
        BY <1>2, <2>1, <2>8
      <3>2. Is(current, "send", "returnAdmin")
        BY <1>2, <2>1, <3>1
      <3>3. /\ Waits("returnAdmin")' /\ ~ succeeded'
            /\ pool'[Len(pool')] = transaction
        BY <1>8, <3>2, SentNow DEF Is
      <3>4. transaction.with[1] = call.admin
        BY <3>2, TransactionFields DEF Is
      <3>5. call.admin = DEPLOYER
        <4>1. call.pc \in (b + 4)..(b + 9)
          BY <1>2, <3>1
        <4> QED BY <1>1, <1>8, <4>1
      <3> QED BY <3>3, <3>4, <3>5
    <2>9. ASSUME call'.pc > b + 9
          PROVE  AdminStays' /\ chain'.configured = Assets
      <3>1. \/ call.pc = b + 9 \/ call.pc > b + 9
            \/ call.pc = b + 3 /\ Assets \ chain.configured = {}
        BY <1>2, <2>1, <2>9
      <3>2. AdminStays /\ chain.configured = Assets
        <4>1. CASE call.pc = b + 9
          <5>1. current.do = "wait"
            BY <1>2, <2>1, <4>1
          <5>2. Waits("returnAdmin") /\ (succeeded => chain.admin = DEPLOYER)
            BY <1>1, <1>8, <4>1
          <5>3. succeeded /\ pool = <<>>
            BY <1>8, <5>1, <5>2, WaitedFor
          <5>4. InBlock(9)
            BY <1>8, <4>1 DEF InBlock, Configures, b
          <5>5. chain.configured = Assets
            BY <1>3, <5>4 DEF Works
          <5> QED BY <5>2, <5>3, <5>5 DEF AdminStays
        <4>2. CASE call.pc > b + 9
          BY <1>1, <1>8, <4>2
        <4>3. CASE call.pc = b + 3 /\ Assets \ chain.configured = {}
          <5>1. call.pc > x + 2 /\ call.pc <= b + 4
            BY <1>2, <4>3
          <5> QED BY <1>1, <1>8, <2>4, <4>3, <5>1
        <4> QED BY <3>1, <4>1, <4>2, <4>3
      <3>3. current.do # "send" \/ current.name \notin {"lendAdmin", "returnAdmin"}
        BY <1>2, <2>1, <2>3, <3>1
      <3> QED BY <1>8, <2>1, <3>2, <3>3, AdminStaysByMove
    <2> QED BY <2>5, <2>6, <2>7, <2>8, <2>9
  <1> QED BY <1>4, <1>5, <1>6, <1>7, <1>8, Initialized


\* The collateral manager: created, waited for, made known.
LEMMA ManagerDoes ==
    LET p == Program[INITIALIZE]
        e == block(INITIALIZE) + 9
    IN  /\ e \in Nat /\ e >= 6
        /\ Is(p[e + 1], "create", "LendingPoolCollateralManager")
        /\ p[e + 2].do = "save" /\ p[e + 3].do = "save" /\ p[e + 4].do = "wait"
        /\ Is(p[e + 5], "send", "setLendingPoolCollateralManager") /\ p[e + 6].do = "wait"
  <1> DEFINE b == block(INITIALIZE)
             p == Program[INITIALIZE]
  <1>1. /\ b \in Nat /\ Is(p[b + 10], "create", "LendingPoolCollateralManager")
        /\ p[b + 11].do = "save" /\ p[b + 12].do = "save" /\ p[b + 13].do = "wait"
        /\ Is(p[b + 14], "send", "setLendingPoolCollateralManager") /\ p[b + 15].do = "wait"
    BY InitializeDoes
  <1> HIDE DEF b, p
  <1>2. /\ b + 9 + 1 = b + 10 /\ b + 9 + 2 = b + 11 /\ b + 9 + 3 = b + 12
        /\ b + 9 + 4 = b + 13 /\ b + 9 + 5 = b + 14 /\ b + 9 + 6 = b + 15
        /\ b + 9 \in Nat /\ b + 9 >= 6
    BY <1>1
  <1>3. /\ b + 9 \in Nat /\ b + 9 >= 6
        /\ Is(p[b + 9 + 1], "create", "LendingPoolCollateralManager")
        /\ p[b + 9 + 2].do = "save" /\ p[b + 9 + 3].do = "save" /\ p[b + 9 + 4].do = "wait"
        /\ Is(p[b + 9 + 5], "send", "setLendingPoolCollateralManager")
        /\ p[b + 9 + 6].do = "wait"
    BY <1>1, <1>2
  <1> QED BY <1>3 DEF b, p

\* Nobody makes another manager known.
ManagerStays(name) ==
    /\ Solid(chain.manager, name, Len(chain.code))
    /\ \A i \in 1..Len(pool) : pool[i].op # "setLendingPoolCollateralManager"

LEMMA MinedStays ==
    ASSUME Typed, Grows, NEW a, NEW name, Solid(a, name, Len(chain.code))
    PROVE  a \in 1..Len(chain'.code) /\ content(a)' = name
  <1> DEFINE x == Len(chain.code)
             y == Len(chain'.code)
  <1>1. x \in Nat /\ Len(pool) \in Nat /\ last = x + Len(pool) /\ y \in Nat /\ y >= x
        /\ a \in 1..x /\ content(a) = name
    BY Counts DEF Grows, Solid
  <1>2. a \in 1..last /\ a \in 1..y
    <2> HIDE DEF x, y
    <2> QED BY <1>1
  <1> QED BY <1>1, <1>2 DEF Grows

LEMMA ManagerStaysByMove ==
    ASSUME Typed, Moved, Grows, NEW name, ManagerStays(name),
           current.do # "send" \/ current.name # "setLendingPoolCollateralManager"
    PROVE  ManagerStays(name)'
  <1>1. chain' = chain
    BY DEF Moved
  <1>2. ASSUME NEW i \in 1..Len(pool')
        PROVE  pool'[i].op # "setLendingPoolCollateralManager"
    <2>1. CASE i \in 1..Len(pool) /\ pool'[i] = pool[i]
      BY <2>1 DEF ManagerStays
    <2>2. CASE pool'[i].op = "create"
      BY <2>2
    <2>3. CASE pool'[i] = transaction /\ Sends
      <3>1. transaction.op = current.name
        BY TransactionFields
      <3> QED BY <2>3, <3>1 DEF Sends
    <2> QED BY <2>1, <2>2, <2>3, AfterMove
  <1>3. Solid(chain.manager, name, Len(chain.code))'
    <2>1. PICK a : a = chain.manager
      OBVIOUS
    <2>2. a \in 1..Len(chain'.code) /\ content(a)' = name
      BY <2>1, MinedStays DEF ManagerStays
    <2> QED BY <1>1, <2>1, <2>2 DEF Solid
  <1> QED BY <1>2, <1>3 DEF ManagerStays

LEMMA ManagerStaysByMine ==
    ASSUME Typed, MinedFirst, Grows, NEW name, ManagerStays(name)
    PROVE  ManagerStays(name)'
  <1>1. 1 \in 1..Len(pool)
    BY Counts DEF MinedFirst
  <1>2. pool[1].op # "setLendingPoolCollateralManager"
    BY <1>1 DEF ManagerStays
  <1>3. chain'.manager = chain.manager
    BY <1>2 DEF MinedFirst, Change, Does
  <1>4. \A i \in 1..Len(pool') : pool'[i].op # "setLendingPoolCollateralManager"
    BY DEF MinedFirst, ManagerStays
  <1>5. Solid(chain.manager, name, Len(chain.code))'
    <2>1. PICK a : a = chain.manager
      OBVIOUS
    <2>2. a \in 1..Len(chain'.code) /\ content(a)' = name
      BY <2>1, MinedStays DEF ManagerStays
    <2> QED BY <1>3, <2>1, <2>2 DEF Solid
  <1> QED BY <1>4, <1>5 DEF ManagerStays


LEMMA ManagedNext ==
    ASSUME Typed, Orderly, Steps, Grows
    PROVE  Managed'
  <1> DEFINE e == block(INITIALIZE) + 9
             p == Program[INITIALIZE]
             op == "setLendingPoolCollateralManager"
  <1>0. PICK mgr : mgr = "LendingPoolCollateralManager"
    OBVIOUS
  <1> SUFFICES ASSUME Initializes'
               PROVE  /\ call'.pc \in (e + 2)..(e + 6) => Solid(call.address, mgr, last)'
                      /\ call'.pc \in (e + 2)..(e + 4) => call'.sent = call'.address
                      /\ call'.pc \in (e + 5)..(e + 6)
                           => Solid(call.address, mgr, Len(chain.code))'
                      /\ call'.pc = e + 6 =>
                           /\ Waits(op)'
                           /\ pool' # <<>> => pool'[Len(pool')].with[1] = call'.address
                           /\ succeeded' => chain'.manager = call'.address
                      /\ call'.pc > e + 6 => ManagerStays(mgr)'
    BY <1>0 DEF Managed, block, ManagerStays
  <1>1. Initializes =>
          /\ call.pc \in (e + 2)..(e + 6) => Solid(call.address, mgr, last)
          /\ call.pc \in (e + 2)..(e + 4) => call.sent = call.address
          /\ call.pc \in (e + 5)..(e + 6) => Solid(call.address, mgr, Len(chain.code))
          /\ call.pc = e + 6 =>
               /\ Waits(op)
               /\ pool # <<>> => pool[Len(pool)].with[1] = call.address
               /\ succeeded => chain.manager = call.address
          /\ call.pc > e + 6 => ManagerStays(mgr)
    BY <1>0 DEF Orderly, Managed, ManagerStays
  <1>2. /\ e \in Nat /\ e >= 6
        /\ p[e + 1].do = "create" /\ p[e + 1].name = mgr
        /\ p[e + 2].do = "save" /\ p[e + 3].do = "save" /\ p[e + 4].do = "wait"
        /\ Is(p[e + 5], "send", op) /\ p[e + 6].do = "wait"
    BY <1>0, ManagerDoes DEF Is
  <1>3. ReachesWorkers
    BY DEF Orderly
  <1>4. ASSUME NEW a, Solid(a, mgr, last), call'.address = a
        PROVE  Solid(call.address, mgr, last)'
    <2>1. a \in 1..last' /\ content(a)' = mgr
      BY <1>4, KnownStays
    <2> QED BY <1>4, <2>1 DEF Solid
  <1>5. ASSUME NEW a, Solid(a, mgr, Len(chain.code)), call'.address = a
        PROVE  Solid(call.address, mgr, Len(chain.code))'
    <2>1. a \in 1..Len(chain'.code) /\ content(a)' = mgr
      BY <1>5, MinedStays
    <2> QED BY <1>5, <2>1 DEF Solid
  <1> HIDE DEF e, p, op
  <1>6. CASE /\ chain' = chain /\ pool' = pool /\ Initializes /\ call'.pc = call.pc
             /\ call'.address = call.address /\ call'.sent = call.sent
    <2>1. /\ Waits(op)' <=> Waits(op)
          /\ succeeded' <=> succeeded
          /\ ManagerStays(mgr)' <=> ManagerStays(mgr)
      BY <1>6 DEF Waits, succeeded, last, ManagerStays, Solid, content
    <2>2. call'.pc \in (e + 2)..(e + 6) => Solid(call.address, mgr, last)'
      BY <1>1, <1>4, <1>6
    <2>3. call'.pc \in (e + 5)..(e + 6) => Solid(call.address, mgr, Len(chain.code))'
      BY <1>1, <1>5, <1>6
    <2>4. call'.pc = e + 6 =>
            /\ Waits(op)'
            /\ pool' # <<>> => pool'[Len(pool')].with[1] = call'.address
            /\ succeeded' => chain'.manager = call'.address
      BY <1>1, <1>6, <2>1
    <2> QED BY <1>1, <1>6, <2>1, <2>2, <2>3, <2>4
  <1>7. CASE MinedFirst /\ call' = call /\ Initializes
    <2>1. call'.pc \in (e + 2)..(e + 6) => Solid(call.address, mgr, last)'
      BY <1>1, <1>4, <1>7
    <2>2. call'.pc \in (e + 5)..(e + 6) => Solid(call.address, mgr, Len(chain.code))'
      BY <1>1, <1>5, <1>7
    <2>3. call'.pc > e + 6 => ManagerStays(mgr)'
      BY <1>1, <1>7, ManagerStaysByMine
    <2>4. ASSUME call'.pc = e + 6
          PROVE  /\ Waits(op)'
                 /\ pool' # <<>> => pool'[Len(pool')].with[1] = call'.address
                 /\ succeeded' => chain'.manager = call'.address
      <3>1. /\ Waits(op) /\ (pool # <<>> => pool[Len(pool)].with[1] = call.address)
        BY <1>1, <1>7, <2>4
      <3>2. /\ Waits(op)'
            /\ succeeded' => /\ Len(pool) = 1 /\ pool # <<>>
                             /\ pool[1].op = op /\ allowed(chain, pool[1])
        BY <1>7, <3>1, MinedLast
      <3>3. pool' # <<>> => pool'[Len(pool')].with[1] = call'.address
        BY <1>7, <3>1 DEF MinedFirst
      <3>4. ASSUME succeeded'
            PROVE  chain'.manager = call'.address
        <4>1. Does(chain, pool[1], op)
          BY <1>3, <1>7, <3>2, <3>4, Acts DEF op
        <4>2. chain'.manager = pool[1].with[1]
          BY <1>7, <4>1 DEF MinedFirst, Change, op
        <4>3. pool[1].with[1] = call.address
          BY <3>1, <3>2, <3>4
        <4> QED BY <1>7, <4>2, <4>3
      <3> QED BY <3>2, <3>3, <3>4
    <2>5. call'.pc \in (e + 2)..(e + 4) => call'.sent = call'.address
      BY <1>1, <1>7
    <2> QED BY <2>1, <2>2, <2>3, <2>4, <2>5
  <1>8. CASE Started
    <2>1. /\ call'.pc \notin (e + 2)..(e + 6) /\ call'.pc \notin (e + 2)..(e + 4)
          /\ call'.pc \notin (e + 5)..(e + 6) /\ call'.pc # e + 6 /\ ~ (call'.pc > e + 6)
      BY <1>2, <1>8 DEF Started
    <2> QED BY <2>1
  <1>9. CASE Moved /\ Initializes /\ Alive /\ call.number = INITIALIZE /\ call'.number = INITIALIZE
    <2>1. /\ call.pc \in Nat \ {0} /\ current = p[call.pc] /\ chain' = chain
          /\ call'.pc = call.pc + 1 \/ call'.pc = e + 1
          /\ Located(INITIALIZE, call.pc, current)
      <3> DEFINE b == block(INITIALIZE)
      <3>1. /\ call.pc \in Nat \ {0} /\ current = p[call.pc] /\ chain' = chain
            /\ call'.pc = call.pc + 1 \/ call'.pc = b + 10
            /\ Located(INITIALIZE, call.pc, current)
        BY <1>9, InitializeBefore DEF Moved, p
      <3>2. e = b + 9 /\ b \in Nat
        BY InitializeDoes DEF e
      <3>3. b + 10 = e + 1
        <4> HIDE DEF b
        <4> QED BY <3>2
      <3> QED BY <3>1, <3>3
    <2>2. ASSUME call'.pc \in (e + 2)..(e + 6)
          PROVE  /\ Solid(call.address, mgr, last)'
                 /\ call'.pc \in (e + 2)..(e + 4) => call'.sent = call'.address
                 /\ call.pc # e + 1 => call'.address = call.address
                 /\ call'.pc = call.pc + 1
      <3>1. call'.pc = call.pc + 1 /\ call.pc \in {e + 1, e + 2, e + 3, e + 4, e + 5}
        BY <1>2, <2>1, <2>2
      <3>2. CASE call.pc = e + 1
        <4>1. current.do = "create" /\ current.name = mgr
          BY <1>2, <2>1, <3>2
        <4> DEFINE tx == [op |-> "create", name |-> current.name, to |-> NOBODY]
        <4>2. /\ pool' = Append(pool, tx) /\ tx.op = "create" /\ tx.name = current.name
              /\ call'.address = last + 1 /\ call'.sent = last + 1 /\ chain' = chain
          BY <1>9, <4>1 DEF Moved
        <4> HIDE DEF tx
        <4>3. PICK a : a = last + 1
          OBVIOUS
        <4>4. content(a)' = mgr /\ last' = last + 1
          <5>1. /\ last' = last + 1
                /\ \A n : n = last + 1
                           => content(n)' = IF tx.op = "create" THEN tx.name ELSE ""
            BY <4>2, PushGrows
          <5> QED BY <4>1, <4>2, <4>3, <5>1
        <4>5. last \in Nat
          BY Counts
        <4>6. last + 1 \in 1..(last + 1)
          BY <4>5
        <4>7. a \in 1..last'
          BY <4>3, <4>4, <4>6
        <4>8. Solid(call.address, mgr, last)'
          BY <4>2, <4>3, <4>4, <4>7 DEF Solid
        <4> QED BY <3>1, <3>2, <4>2, <4>8
      <3>3. CASE call.pc # e + 1
        <4>1. current.do \in {"save", "wait", "send"}
          BY <1>2, <2>1, <3>1, <3>3 DEF Is
        <4>2. call'.address = call.address
          BY <1>9, <4>1 DEF Moved
        <4>3. call.pc \in (e + 2)..(e + 6)
          BY <1>2, <3>1, <3>3
        <4>4. Solid(call.address, mgr, last)'
          BY <1>1, <1>4, <1>9, <4>2, <4>3
        <4>5. ASSUME call'.pc \in (e + 2)..(e + 4)
              PROVE  call'.sent = call'.address
          <5>1. call.pc \in {e + 2, e + 3} /\ call.pc \in (e + 2)..(e + 4)
            BY <1>2, <3>1, <3>3, <4>5
          <5>2. current.do = "save"
            BY <1>2, <2>1, <5>1
          <5>3. call'.sent = call.sent
            BY <1>9, <5>2 DEF Moved
          <5> QED BY <1>1, <1>9, <4>2, <5>1, <5>3
        <4> QED BY <3>1, <4>2, <4>4, <4>5
      <3> QED BY <3>2, <3>3
    <2>3. ASSUME call'.pc \in (e + 5)..(e + 6)
          PROVE  Solid(call.address, mgr, Len(chain.code))'
      <3>0. call'.pc \in (e + 2)..(e + 6)
        BY <1>2, <2>3
      <3>1. call.pc \in {e + 4, e + 5} /\ call.pc # e + 1 /\ call'.address = call.address
        BY <1>2, <2>2, <2>1, <2>3, <3>0
      <3>2. Solid(call.address, mgr, Len(chain.code))
        <4>1. CASE call.pc = e + 4
          <5>1. current.do = "wait"
            BY <1>2, <2>1, <4>1
          <5>2. call.sent <= Len(chain.code)
            BY <1>9, <5>1 DEF Moved
          <5>3. call.pc \in (e + 2)..(e + 6) /\ call.pc \in (e + 2)..(e + 4)
            BY <1>2, <4>1
          <5>4. Solid(call.address, mgr, last) /\ call.sent = call.address
            BY <1>1, <1>9, <5>3
          <5> DEFINE x == Len(chain.code)
          <5>5. x \in Nat /\ call.address \in 1..last /\ last \in Nat /\ call.address <= x
            BY <5>2, <5>4, Counts DEF Solid
          <5>6. call.address \in 1..x
            <6> HIDE DEF x
            <6> QED BY <5>5
          <5> QED BY <5>4, <5>6 DEF Solid
        <4>2. CASE call.pc = e + 5
          <5>1. call.pc \in (e + 5)..(e + 6)
            BY <1>2, <4>2
          <5> QED BY <1>1, <1>9, <5>1
        <4> QED BY <3>1, <4>1, <4>2
      <3> QED BY <1>5, <3>1, <3>2
    <2>4. ASSUME call'.pc = e + 6
          PROVE  /\ Waits(op)' /\ ~ succeeded'
                 /\ pool'[Len(pool')].with[1] = call'.address
      <3>0. call'.pc \in (e + 2)..(e + 6)
        BY <1>2, <2>4
      <3>1. call.pc = e + 5 /\ call.pc # e + 1 /\ call'.address = call.address
        BY <1>2, <2>1, <2>2, <2>4, <3>0
      <3>2. Is(current, "send", op)
        BY <1>2, <2>1, <3>1
      <3>3. /\ Waits(op)' /\ ~ succeeded' /\ pool'[Len(pool')] = transaction
        BY <1>9, <3>2, SentNow DEF Is
      <3>4. transaction.with[1] = call.address
        BY <3>2, TransactionFields DEF Is, op
      <3> QED BY <3>1, <3>3, <3>4
    <2>5. ASSUME call'.pc > e + 6
          PROVE  ManagerStays(mgr)'
      <3>1. call.pc = e + 6 \/ call.pc > e + 6
        BY <1>2, <2>1, <2>5
      <3>2. ManagerStays(mgr)
        <4>1. CASE call.pc = e + 6
          <5>1. current.do = "wait"
            BY <1>2, <2>1, <4>1
          <5>2. call.pc \in (e + 5)..(e + 6)
            BY <1>2, <4>1
          <5>3. /\ Waits(op) /\ Solid(call.address, mgr, Len(chain.code))
                /\ succeeded => chain.manager = call.address
            BY <1>1, <1>9, <4>1, <5>2
          <5>4. succeeded /\ pool = <<>>
            BY <1>9, <5>1, <5>3, WaitedFor
          <5> QED BY <5>3, <5>4 DEF ManagerStays
        <4>2. CASE call.pc > e + 6
          BY <1>1, <1>9, <4>2
        <4> QED BY <3>1, <4>1, <4>2
      <3>3. current.do # "send" \/ current.name # "setLendingPoolCollateralManager"
        <4>1. ASSUME current.do = "send", current.name = "setLendingPoolCollateralManager"
              PROVE  FALSE
          <5>1. call.pc = block(INITIALIZE) + 14
            BY <2>1, <4>1 DEF Located
          <5> DEFINE b == block(INITIALIZE)
          <5>2. e = b + 9 /\ b \in Nat /\ call.pc = b + 14
            BY <5>1, InitializeDoes DEF e
          <5> HIDE DEF b
          <5> QED BY <3>1, <5>2
        <4> QED BY <4>1
      <3> QED BY <1>9, <3>2, <3>3, ManagerStaysByMove
    <2>6. call'.pc \in (e + 2)..(e + 4) => call'.pc \in (e + 2)..(e + 6)
      BY <1>2
    <2> QED BY <2>2, <2>3, <2>4, <2>5, <2>6
  <1>10. CASE call' = call /\ Same /\ Initializes
    BY <1>6, <1>10 DEF Same
  <1>11. CASE Finished /\ Initializes
    BY <1>6, <1>11 DEF Finished, Same
  <1> QED BY <1>7, <1>8, <1>9, <1>10, <1>11, Initialized


-------------------------------------------------------------------------------
(***************************************************************************)
(* The invariant holds.                                                    *)
(***************************************************************************)
\* A call that is done is at its end.
LEMMA EndsNext ==
    ASSUME Typed, Orderly, Steps
    PROVE  (call.at = "done" /\ call.number # 0 => call.pc > Len(steps))'
  <1>1. call.at = "done" /\ call.number # 0 => call.pc > Len(steps)
    BY DEF Orderly
  <1>2. CASE call' = call
    BY <1>1, <1>2 DEF steps
  <1>3. CASE Finished
    BY <1>3 DEF Finished, steps
  <1>4. CASE call'.at # "done"
    BY <1>4
  <1> QED BY <1>2, <1>3, <1>4 DEF Steps, Started, Died, Moved, MinedFirst

LEMMA OrderlyNext ==
    ASSUME Typed, Typed', Orderly, Kinds
    PROVE  Orderly'
  <1>1. Steps /\ Grows
    BY CallSteps
  <1>2. NamesWorkers' /\ SavesWorkers'
    BY NamesWorkersNext, SavesWorkersNext
  <1>3. ReachesWorkers' /\ LooksUp' /\ SentLast'
    BY <1>1, ReachesWorkersNext, LooksUpNext, SentLastNext
  <1>4. Works' /\ Rates' /\ Lists' /\ Administers' /\ Managed'
    BY <1>1, WorksNext, RatesNext, ListsNext, AdministersNext, ManagedNext
  <1>5. (call.at = "done" /\ call.number # 0 => call.pc > Len(steps))'
    BY <1>1, EndsNext
  <1> QED BY <1>2, <1>3, <1>4, <1>5 DEF Orderly

LEMMA OrderlyInit == Init => Orderly
  <1> SUFFICES ASSUME Init PROVE Orderly
    OBVIOUS
  <1>1. /\ pool = <<>> /\ Len(pool) = 0 /\ ~ Alive /\ ~ Initializes /\ call.at = "done"
        /\ call.number = 0 /\ chain.code = <<>>
        /\ db = [n \in Names |-> IF n = "LendingPoolAddressesProvider" THEN PROVIDER
                                 ELSE NOBODY]
    BY DEF Init, Idle, Alive, Initializes, INITIALIZE
  <1>2. \A k : ~ InBlock(k)
    BY <1>1 DEF InBlock
  <1>3. NamesWorkers
    <2>1. \A n \in Workers : n \in Names /\ n # "LendingPoolAddressesProvider"
      BY Entries DEF Workers
    <2> QED BY <1>1, <2>1 DEF NamesWorkers
  <1>4. SavesWorkers /\ LooksUp /\ SentLast
    BY <1>1, <1>2 DEF SavesWorkers, LooksUp, SentLast
  <1>5. ReachesWorkers
    BY <1>1 DEF ReachesWorkers
  <1>6. Works /\ Rates
    BY <1>1, <1>2 DEF Works, Rates
  <1>7. Lists /\ Administers /\ Managed
    BY <1>1 DEF Lists, Administers, Managed
  <1> QED BY <1>1, <1>3, <1>4, <1>5, <1>6, <1>7 DEF Orderly

LEMMA InvariantNext ==
    ASSUME IInv, [Next]_vars
    PROVE  IInv'
  <1>1. Typed /\ Typed' /\ losses \in Nat
    BY TypedNext DEF IInv, Typed
  <1>2. CASE Lose
    <2>1. losses' = losses + 1
      BY <1>2 DEF Lose
    <2> QED BY <1>1, <2>1 DEF IInv
  <1>3. CASE losses' = losses /\ Kinds
    BY <1>1, <1>3, OrderlyNext DEF IInv
  <1> QED BY <1>2, <1>3, StepKinds

\* The inductive invariant: the state is typed and, as long as the node has forgotten no
\* transaction, every call is where its messages and the chain say it is.
THEOREM CallsAreOrderly == Spec => []IInv
  <1>1. Init => IInv
    <2> SUFFICES ASSUME Init PROVE IInv
      OBVIOUS
    <2> QED BY TypedInit, OrderlyInit DEF IInv
  <1>2. IInv /\ [Next]_vars => IInv'
    BY InvariantNext
  <1> QED BY <1>1, <1>2, PTL DEF Spec


-------------------------------------------------------------------------------
(***************************************************************************)
(* The results.                                                            *)
(***************************************************************************)
LEMMA InvariantMeansReady ==
    ASSUME IInv, losses = 0
    PROVE  DoneMeansReady
  <1> DEFINE b == block(INITIALIZE)
             e == b + 9
             x == listing
             n == Len(Reserves)
             pc == call.pc
  <1> SUFFICES ASSUME call.at = "done", call.number = INITIALIZE
               PROVE  /\ chain.listed = Assets /\ chain.configured = Assets
                      /\ chain.admin = DEPLOYER
                      /\ codeAt(chain, chain.manager) = "LendingPoolCollateralManager"
    BY DEF DoneMeansReady
  <1>1. Typed /\ Orderly /\ Initializes
    BY DEF IInv, Initializes
  <1>2. /\ b \in Nat /\ x \in Nat /\ n \in Nat /\ b = x + 2 * n
        /\ Len(Program[INITIALIZE]) \in Nat /\ Len(Program[INITIALIZE]) >= b + 18
    BY InitializeDoes
  <1>3. pc > Len(Program[INITIALIZE]) /\ pc \in Nat
    BY <1>1 DEF Orderly, steps, INITIALIZE, Typed
  <1>4. pc > b + 9 /\ pc > e + 6 /\ \A k \in 1..n : pc > x + 2 * k
    <2> DEFINE l == Len(Program[INITIALIZE])
    <2>1. /\ b \in Nat /\ x \in Nat /\ n \in Nat /\ b = x + 2 * n /\ l \in Nat /\ l >= b + 18
          /\ pc > l /\ pc \in Nat
      BY <1>2, <1>3
    <2> HIDE DEF b, x, n, l, pc
    <2> QED BY <2>1
  <1>5. chain.listed = Assets
    <2>1. \A k \in 1..n : Reserves[k] \in chain.listed
      BY <1>1, <1>4 DEF Orderly, Lists
    <2>2. chain.listed \subseteq Assets
      BY <1>1 DEF Typed, ChainOK
    <2>3. Assets \subseteq chain.listed
      BY <2>1 DEF Assets, ToSet
    <2> QED BY <2>2, <2>3
  <1>6. chain.admin = DEPLOYER /\ chain.configured = Assets
    BY <1>1, <1>4 DEF Orderly, Administers, AdminStays
  <1>7. Solid(chain.manager, "LendingPoolCollateralManager", Len(chain.code))
    BY <1>1, <1>4 DEF Orderly, Managed
  <1>8. codeAt(chain, chain.manager) = "LendingPoolCollateralManager"
    BY <1>7, SolidCode
  <1> QED BY <1>5, <1>6, <1>8

\* When full:initialize-lending-pool ends without an error and the node has forgotten no
\* transaction, every reserve is listed and configured, the deployer is the pool admin
\* and the provider knows the collateral manager: however many reserves there are, and
\* whatever calls were repeated or died before.
THEOREM InitializedIsReady == Spec => [](losses = 0 => DoneMeansReady)
  <1>1. IInv => (losses = 0 => DoneMeansReady)
    BY InvariantMeansReady
  <1> QED BY <1>1, CallsAreOrderly, PTL

\* The steps that the two rights take part in.
LEMMA RightSteps ==
    ASSUME IInv, [Next]_vars
    PROVE  \/ chain' = chain /\ orphaned' = orphaned /\ losses' = losses
           \/ chain' = chain /\ orphaned \subseteq orphaned' /\ losses' = losses
           \/ chain' = chain /\ orphaned' = orphaned /\ losses' > 0
           \/ MinedFirst /\ orphaned' = orphaned /\ losses' = losses
  <1>1. losses \in Nat /\ Typed
    BY DEF IInv, Typed
  <1>2. CASE UNCHANGED vars
    BY <1>2 DEF vars
  <1>3. CASE \E number \in DOMAIN Program : Start(number)
    BY <1>3 DEF Start
  <1>4. CASE Proceed
    <2>1. CASE Reverted \/ Refused \/ Missing \/ Unreadable
      BY <2>1 DEF Reverted, Refused, Missing, Unreadable, Dies
    <2>2. CASE Create \/ Save \/ SaveProxy \/ Waited \/ Sent \/ Need \/ ReadAdmin
               \/ ReadReserves \/ ReadOracle \/ ReadAdapter \/ Finish
      BY <2>2 DEF Create, Save, SaveProxy, Waited, Sent, Need, ReadAdmin, ReadReserves,
                  ReadOracle, ReadAdapter, Finish
    <2> QED BY <1>4, <2>1, <2>2 DEF Proceed
  <1>5. CASE Mine
    <2>1. MinedFirst
      BY <1>1, <1>5, MineFacts
    <2> QED BY <1>5, <2>1 DEF Mine
  <1>6. CASE Lose
    BY <1>1, <1>6 DEF Lose
  <1>7. CASE Die
    BY <1>7 DEF Die, Dies
  <1>8. Next \/ UNCHANGED vars
    OBVIOUS
  <1> QED BY <1>2, <1>3, <1>4, <1>5, <1>6, <1>7, <1>8 DEF Next

\* What a step may do to a right, given who has it, what is done and who died before and
\* after: a step of LentRights or none.
MayChange(holder, done, gone, holder1, done1, gone1) ==
    \/ holder1 = holder /\ done1 = done /\ gone1 = gone
    \/ holder = "owner" /\ holder1 = "helper" /\ done1 = done /\ gone1 = gone
    \/ /\ holder = "helper" /\ holder1 = "helper" /\ gone1 = gone
       /\ done1 \in SUBSET Assets /\ done \subseteq done1 /\ done1 # done
    \/ /\ holder = "helper" /\ holder1 = "owner" /\ (done = Assets \/ gone)
       /\ done1 = done /\ gone1 = gone
    \/ ~ gone /\ gone1 = TRUE /\ holder1 = holder /\ done1 = done
holderOf(address) == IF address = DEPLOYER THEN "owner" ELSE "helper"

LEMMA AdminChanges ==
    ASSUME IInv, [Next]_vars
    PROVE  MayChange(holderOf(chain.admin), chain.configured,
                     "admin" \in orphaned \/ losses > 0,
                     holderOf(chain'.admin), chain'.configured,
                     "admin" \in orphaned' \/ losses' > 0)
  <1>1. Typed /\ losses \in Nat /\ (losses = 0 => Works)
    BY DEF IInv, Typed, Orderly
  <1>2. CASE chain' = chain /\ orphaned' = orphaned /\ losses' = losses
    BY <1>2 DEF MayChange
  <1>3. CASE chain' = chain /\ orphaned \subseteq orphaned' /\ losses' = losses
    BY <1>3 DEF MayChange
  <1>4. CASE chain' = chain /\ orphaned' = orphaned /\ losses' > 0
    BY <1>4 DEF MayChange
  <1>5. CASE MinedFirst /\ orphaned' = orphaned /\ losses' = losses
    <2> DEFINE tx == pool[1]
               gone == "admin" \in orphaned \/ losses > 0
    <2>1. /\ tx \in Creation \cup Message
          /\ chain'.admin = IF Does(chain, tx, "lendAdmin") \/ Does(chain, tx, "returnAdmin")
                            THEN tx.with[1] ELSE chain.admin
          /\ chain'.configured = IF Does(chain, tx, "configureReserves")
                                 THEN chain.configured \cup tx.assets ELSE chain.configured
      BY <1>5 DEF MinedFirst, Change
    <2>2. chain.configured \subseteq Assets
      BY <1>1 DEF Typed, ChainOK
    <2>3. CASE Does(chain, tx, "configureReserves")
      <3>1. tx.op = "configureReserves" /\ allowed(chain, tx) /\ ~ isVoid(chain, tx)
        BY <2>3 DEF Does, Happens
      <3>2. chain.admin = tx.to /\ codeAt(chain, tx.to) = "ELTokensAndRatesHelper"
        BY <3>1 DEF allowed
      <3>3. chain.admin # DEPLOYER
        BY <3>2 DEF codeAt, DEPLOYER
      <3>4. chain'.admin = chain.admin
        BY <2>1, <3>1 DEF Does
      <3>5. tx.assets \subseteq Assets
        BY <2>1, <3>1 DEF Creation, Message
      <3> QED BY <1>5, <2>1, <2>2, <2>3, <3>3, <3>4, <3>5 DEF MayChange, holderOf
    <2>4. CASE Does(chain, tx, "lendAdmin")
      <3>1. chain'.configured = chain.configured
        BY <2>1, <2>4 DEF Does
      <3>2. losses = 0 => chain'.admin # DEPLOYER
        <4>1. losses = 0 => ReachesWorkers
          BY DEF IInv, Orderly
        <4> QED BY <1>1, <1>5, <2>1, <2>4, <4>1, FirstReaches DEF Does
      <3>3. losses # 0 => losses > 0
        BY <1>1
      <3> QED BY <1>5, <3>1, <3>2, <3>3 DEF MayChange, holderOf
    <2>5. CASE Does(chain, tx, "returnAdmin")
      <3>1. chain'.configured = chain.configured
        BY <2>1, <2>5 DEF Does
      <3>2. losses = 0 => chain.configured = Assets
        <4>1. 1 \in 1..Len(pool)
          BY <1>1, <1>5, Counts DEF MinedFirst
        <4> QED BY <1>1, <2>5, <4>1 DEF Works, Does
      <3>3. losses # 0 => losses > 0
        BY <1>1
      <3> QED BY <1>5, <3>1, <3>2, <3>3 DEF MayChange, holderOf
    <2>6. CASE ~ Does(chain, tx, "configureReserves") /\ ~ Does(chain, tx, "lendAdmin")
               /\ ~ Does(chain, tx, "returnAdmin")
      BY <1>5, <2>1, <2>6 DEF MayChange
    <2> QED BY <2>3, <2>4, <2>5, <2>6
  <1> QED BY <1>2, <1>3, <1>4, <1>5, RightSteps

LEMMA OracleChanges ==
    ASSUME IInv, [Next]_vars
    PROVE  MayChange(holderOf(chain.oracleOwner), chain.rated,
                     "oracle" \in orphaned \/ losses > 0,
                     holderOf(chain'.oracleOwner), chain'.rated,
                     "oracle" \in orphaned' \/ losses' > 0)
  <1>1. Typed /\ losses \in Nat /\ (losses = 0 => Rates)
    BY DEF IInv, Typed, Orderly
  <1>2. CASE chain' = chain /\ orphaned' = orphaned /\ losses' = losses
    BY <1>2 DEF MayChange
  <1>3. CASE chain' = chain /\ orphaned \subseteq orphaned' /\ losses' = losses
    BY <1>3 DEF MayChange
  <1>4. CASE chain' = chain /\ orphaned' = orphaned /\ losses' > 0
    BY <1>4 DEF MayChange
  <1>5. CASE MinedFirst /\ orphaned' = orphaned /\ losses' = losses
    <2> DEFINE tx == pool[1]
    <2>1. /\ tx \in Creation \cup Message
          /\ chain'.oracleOwner = IF \/ Does(chain, tx, "lendOracle")
                                     \/ Does(chain, tx, "returnOracle")
                                  THEN tx.with[1] ELSE chain.oracleOwner
          /\ chain'.rated = IF Does(chain, tx, "setOracleBorrowRates")
                            THEN chain.rated \cup tx.assets ELSE chain.rated
      BY <1>5 DEF MinedFirst, Change
    <2>2. chain.rated \subseteq Assets
      BY <1>1 DEF Typed, ChainOK
    <2>3. Does(chain, tx, "setOracleBorrowRates") \/ Does(chain, tx, "returnOracle")
            => chain.oracleOwner # DEPLOYER
      <3>1. Does(chain, tx, "setOracleBorrowRates") \/ Does(chain, tx, "returnOracle")
              => /\ chain.oracleOwner = tx.to
                 /\ codeAt(chain, tx.to) = "StableAndVariableTokensHelper"
        BY DEF Does, Happens, allowed
      <3> QED BY <3>1 DEF codeAt, DEPLOYER
    <2>4. CASE Does(chain, tx, "setOracleBorrowRates")
      <3>1. chain'.oracleOwner = chain.oracleOwner
        BY <2>1, <2>4 DEF Does
      <3>2. tx.assets \subseteq Assets
        BY <2>1, <2>4 DEF Does, Creation, Message
      <3> QED BY <1>5, <2>1, <2>2, <2>3, <2>4, <3>1, <3>2 DEF MayChange, holderOf
    <2>5. CASE Does(chain, tx, "lendOracle")
      <3>1. chain'.rated = chain.rated
        BY <2>1, <2>5 DEF Does
      <3>2. chain.oracleOwner = DEPLOYER
        BY <2>5 DEF Does, Happens, allowed
      <3> QED BY <1>5, <3>1, <3>2 DEF MayChange, holderOf
    <2>6. CASE Does(chain, tx, "returnOracle")
      <3>1. chain'.rated = chain.rated
        BY <2>1, <2>6 DEF Does
      <3>2. losses = 0 => chain.rated = Assets
        <4>1. 1 \in 1..Len(pool)
          BY <1>1, <1>5, Counts DEF MinedFirst
        <4> QED BY <1>1, <2>6, <4>1 DEF Rates, Does
      <3>3. losses # 0 => losses > 0
        BY <1>1
      <3> QED BY <1>5, <2>3, <2>6, <3>1, <3>2, <3>3 DEF MayChange, holderOf
    <2>7. CASE ~ Does(chain, tx, "setOracleBorrowRates") /\ ~ Does(chain, tx, "lendOracle")
               /\ ~ Does(chain, tx, "returnOracle")
      BY <1>5, <2>1, <2>7 DEF MayChange
    <2> QED BY <2>4, <2>5, <2>6, <2>7
  <1> QED BY <1>2, <1>3, <1>4, <1>5, RightSteps

\* configureReservesByHelper implements LentRights: the pool admin goes to a helper,
\* only a helper that has it configures reserves, and it comes back when all of them are
\* configured, unless a call died while it was out or the node forgot a transaction.
THEOREM AdminIsLent == Spec => AdminRights!Init /\ [][AdminRights!Next]_(AdminRights!vars)
  <1>1. Init => AdminRights!Init
    BY DEF Init, AdminRights!Init
  <1>2. IInv /\ [Next]_vars => [AdminRights!Next]_(AdminRights!vars)
    <2> SUFFICES ASSUME IInv, [Next]_vars
                 PROVE  [AdminRights!Next]_(AdminRights!vars)
      OBVIOUS
    <2> QED BY AdminChanges DEF MayChange, holderOf, AdminRights!Next, AdminRights!vars,
                   AdminRights!Lend, AdminRights!Work, AdminRights!Return, AdminRights!Orphan
  <1> QED BY <1>1, <1>2, CallsAreOrderly, PTL DEF Spec

\* setInitialMarketRatesInRatesOracleByHelper does with the ownership of the rate oracle:
\* it comes back when every asset has its rate.
THEOREM OracleIsLent == Spec => OracleRights!Init /\ [][OracleRights!Next]_(OracleRights!vars)
  <1>1. Init => OracleRights!Init
    BY DEF Init, OracleRights!Init
  <1>2. IInv /\ [Next]_vars => [OracleRights!Next]_(OracleRights!vars)
    <2> SUFFICES ASSUME IInv, [Next]_vars
                 PROVE  [OracleRights!Next]_(OracleRights!vars)
      OBVIOUS
    <2> QED BY OracleChanges DEF MayChange, holderOf, OracleRights!Next, OracleRights!vars,
                 OracleRights!Lend, OracleRights!Work, OracleRights!Return,
                 OracleRights!Orphan
  <1> QED BY <1>1, <1>2, CallsAreOrderly, PTL DEF Spec
===============================================================================
