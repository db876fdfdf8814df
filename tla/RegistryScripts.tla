--------------------------- MODULE RegistryScripts ---------------------------
(***************************************************************************)
(* The scripts that put the market's registry on the Electroneum testnet.  *)
(* They all send from one account, and an operator may run several of      *)
(* them, at once or one after the other.  A contract's address follows     *)
(* from its deployer and the transaction's nonce, so here an address is a  *)
(* nonce.  The node keeps one pending transaction per nonce, takes a       *)
(* dearer one in its place and mines them in the order of their nonces.    *)
(***************************************************************************)
EXTENDS Integers, Sequences, FiniteSets

CONSTANTS Runs,             \* executions of scripts, in as many terminals
          Files,            \* the scripts that each may execute
          MAX_LOSSES        \* bound on answers and transactions that get lost

ASSUME LossesAssumption == MAX_LOSSES \in Nat

-------------------------------------------------------------------------------
(***************************************************************************)
(* The scripts.  plan: what they send, in order; prices: the gas price of  *)
(* each attempt at one transaction, in hundredths of a gwei; retry: the    *)
(* errors after which they make the next attempt; reads: they ask for the  *)
(* account's nonce first; announces: the nonce from which they compute the *)
(* address they print and save; waits: they wait for each transaction, the *)
(* others only where the library does; checks: they call the contract      *)
(* before they save its address; dies: what follows the plan always        *)
(* throws.                                                                 *)
(***************************************************************************)
Script ==
    [plan |-> <<"registry">>, prices |-> <<2000>>, retry |-> "never", reads |-> TRUE,
     announces |-> "read", waits |-> FALSE, checks |-> FALSE, dies |-> FALSE]

\* A legacy transaction follows an error that mentions a type, as "content-type" does.
eip1559 == [Script EXCEPT !.prices = <<5000, 2000>>, !.retry = "some"]
registryOnly == [Script EXCEPT !.prices = <<100, 10, 1, 500>>, !.retry = "all"]
simple == Script
nowait == [Script EXCEPT !.prices = <<10000>>]
noWait == [Script EXCEPT !.plan = <<"registry", "provider">>, !.prices = <<1000>>,
                         !.reads = FALSE, !.announces = "sent"]
andWait == [Script EXCEPT !.prices = <<5000>>, !.reads = FALSE, !.announces = "sent",
                          !.waits = TRUE]
rawDeploy == [Script EXCEPT !.announces = "sent", !.waits = TRUE, !.checks = TRUE]
simpleRegistry == [andWait EXCEPT !.prices = <<100000>>]

\* Both market scripts die in getContractFactory("ValidationLogic"): it refuses
\* ReserveLogic, a library that ValidationLogic does not link.
marketPlan == <<"registry", "provider", "register", "ReserveLogic", "GenericLogic">>
testnet == [andWait EXCEPT !.plan = marketPlan, !.prices = <<200000>>, !.dies = TRUE]
testnetQuick == [noWait EXCEPT !.plan = marketPlan, !.prices = <<50000>>, !.dies = TRUE]

Source == [deploy_eip1559 |-> eip1559, deploy_registry_only |-> registryOnly,
           deploy_simple |-> simple, deploy_nowait |-> nowait, deploy_no_wait |-> noWait,
           deploy_and_wait |-> andWait, raw_deploy |-> rawDeploy,
           deploy_simple_registry |-> simpleRegistry, deploy_electrolend_testnet |-> testnet,
           deploy_electrolend_testnet_quick |-> testnetQuick]
ASSUME FilesAssumption == \A r \in Runs : Files[r] \subseteq DOMAIN Source

-------------------------------------------------------------------------------
VARIABLES chain,            \* the account's mined transactions, by nonce
          pool,             \* its pending ones, at most one per nonce
          run,              \* where each execution is
          losses            \* answers and transactions lost so far

vars == <<chain, pool, run, losses>>

\* alone: nothing but this execution has used the account since it began.
Idle == [file |-> "none", at |-> "idle", step |-> 1, attempt |-> 1, read |-> 0, nonce |-> 0,
         announced |-> {}, alone |-> TRUE]

Init ==
    /\ chain = <<>> /\ pool = {} /\ losses = 0
    /\ run = [r \in Runs |-> Idle]

script(r) == Source[run[r].file]
At(r, place) == run[r].at = place
Active(r) == run[r].at \notin {"idle", "done", "failed"}
moved(r, place) == [run[r] EXCEPT !.at = place]
Becomes(r, next) == run' = [run EXCEPT ![r] = next]

\* eth_getTransactionCount for "latest" and for "pending".
latestNonce == Len(chain) + 1
pendingNonce ==
    CHOOSE n \in latestNonce..(latestNonce + Cardinality(pool)) :
       /\ ~ \E tx \in pool : tx.nonce = n
       /\ \A m \in latestNonce..(n - 1) : \E tx \in pool : tx.nonce = m

isMined(tx) == tx.nonce < latestNonce /\ chain[tx.nonce] = tx

-------------------------------------------------------------------------------
\* The operator starts a script; those that ask for the nonce do so at once.
Start(r, file) ==
    /\ At(r, "idle")
    /\ Becomes(r, [Idle EXCEPT !.file = file, !.alone = (pool = {}),
                               !.at = IF Source[file].reads THEN "read" ELSE "populate"])
    /\ UNCHANGED <<chain, pool, losses>>

\* provider.getTransactionCount(deployerAddress), with the default tag "latest".
ReadNonce(r) ==
    /\ At(r, "read")
    /\ Becomes(r, [moved(r, "populate") EXCEPT !.read = latestNonce])
    /\ UNCHANGED <<chain, pool, losses>>

\* Signer.populateTransaction asks for the nonce with the tag "pending".
Populate(r) ==
    /\ At(r, "populate")
    /\ Becomes(r, [moved(r, "send") EXCEPT !.nonce = pendingNonce])
    /\ UNCHANGED <<chain, pool, losses>>

transaction(r) ==
    [run |-> r, step |-> run[r].step, attempt |-> run[r].attempt, nonce |-> run[r].nonce,
     makes |-> script(r).plan[run[r].step], price |-> script(r).prices[run[r].attempt]]

\* A pending transaction gives way to one that pays at least a tenth more.
accepts(tx) ==
    /\ tx.nonce >= latestNonce
    /\ \A other \in pool : other.nonce = tx.nonce => 10 * tx.price >= 11 * other.price
withPending(tx) == {other \in pool : other.nonce # tx.nonce} \cup {tx}

\* mutant: a refused attempt is taken for a used nonce
announcedNonce_attempts(r) ==
    IF script(r).announces = "read" THEN run[r].read + run[r].attempt - 1 ELSE run[r].nonce
announcedNonce(r) == IF script(r).announces = "read" THEN run[r].read ELSE run[r].nonce

\* The address goes to the console and to deployments/*.json; on to the next contract, or
\* to a call of the registry, whose gas the quick script estimates first.
saved(r, current) ==
    LET last == current.step = Len(script(r).plan)
        calls == ~last /\ script(r).plan[current.step + 1] = "register" /\ ~script(r).waits
    IN  [current EXCEPT
           !.announced =
              IF transaction(r).makes = "register" THEN @
              ELSE @ \cup {[address |-> announcedNonce(r), tx |-> transaction(r)]},
           !.step = IF last THEN @ ELSE @ + 1,
           !.at = CASE calls -> "estimate"
                    [] ~last /\ ~calls -> "populate"
                    [] last /\ script(r).dies -> "failed"
                    [] OTHER -> "done"]

\* What another execution does with the account ends the solitude of all others.
accompany(r, next) ==
    [q \in Runs |-> IF q = r THEN next ELSE [run[q] EXCEPT !.alone = FALSE]]

\* The answer of wallet.sendTransaction: the hash.
SendAnswered(r) ==
    /\ At(r, "send") /\ accepts(transaction(r))
    /\ pool' = withPending(transaction(r))
    /\ run' = accompany(r, IF script(r).waits THEN moved(r, "wait") ELSE saved(r, run[r]))
    /\ UNCHANGED <<chain, losses>>

\* After an error: the next gas option, or the end of the script.
afterError(r, current) ==
    LET more == current.attempt < Len(script(r).prices)
    IN  (IF more /\ script(r).retry # "never"
         THEN {[current EXCEPT !.at = "populate", !.attempt = @ + 1]} ELSE {})
        \cup
        (IF more /\ script(r).retry = "all" THEN {} ELSE {[current EXCEPT !.at = "failed"]})

\* The node refuses the transaction, or the network fails before it gets there; the nonce
\* and fee reads of populateTransaction are part of the attempt.
SendRefused(r) ==
    /\ run[r].at \in {"populate", "send"}
    /\ \E next \in afterError(r, run[r]) : Becomes(r, next)
    /\ UNCHANGED <<chain, pool, losses>>

\* The node took it, but the script gets an error for an answer.
SendUnanswered(r) ==
    /\ At(r, "send") /\ accepts(transaction(r)) /\ losses < MAX_LOSSES
    /\ pool' = withPending(transaction(r)) /\ losses' = losses + 1
    /\ \E next \in afterError(r, [run[r] EXCEPT !.alone = FALSE]) : run' = accompany(r, next)
    /\ UNCHANGED chain

\* Any other call of a script fails: its nonce read, its estimate, or owner().
ReadFails(r) ==
    /\ run[r].at \in {"read", "estimate", "check"}
    /\ Becomes(r, moved(r, "failed"))
    /\ UNCHANGED <<chain, pool, losses>>

\* tx.wait(1) and contract.deployed() return once the transaction is mined, and
\* throw when another one was mined with its nonce.
\* mutant: any transaction with the nonce confirms
Confirmed_byNonce(r) ==
    /\ At(r, "wait") /\ run[r].nonce < latestNonce
    /\ Becomes(r, IF script(r).checks THEN moved(r, "check") ELSE saved(r, run[r]))
    /\ UNCHANGED <<chain, pool, losses>>
Confirmed(r) ==
    /\ At(r, "wait") /\ isMined(transaction(r))
    /\ Becomes(r, IF script(r).checks THEN moved(r, "check") ELSE saved(r, run[r]))
    /\ UNCHANGED <<chain, pool, losses>>

\* contract.estimateGas.registerAddressesProvider() answers: it needs no code at the address.
Estimated(r) ==
    /\ At(r, "estimate")
    /\ Becomes(r, moved(r, "resolve"))
    /\ UNCHANGED <<chain, pool, losses>>

\* A call sent on a contract object that was just deployed goes out only after
\* contract._deployed(), the wait for the transaction that deployed it.
deployTransaction(r) == (CHOOSE a \in run[r].announced : a.tx.makes = "registry").tx
Resolved(r) ==
    /\ At(r, "resolve") /\ isMined(deployTransaction(r))
    /\ Becomes(r, moved(r, "populate"))
    /\ UNCHANGED <<chain, pool, losses>>

Awaits(r) == run[r].at \in {"wait", "resolve"}
awaited(r) == IF At(r, "wait") THEN transaction(r) ELSE deployTransaction(r)

\* mutant: only the receipt of the own hash ends the wait
Replaced_unnoticed(r) == run[r].at = "replaced" /\ UNCHANGED vars
Replaced(r) ==
    /\ Awaits(r)
    /\ awaited(r).nonce < latestNonce /\ ~isMined(awaited(r))
    /\ Becomes(r, moved(r, "failed"))
    /\ UNCHANGED <<chain, pool, losses>>

\* contract.owner() answers.
Checked(r) ==
    /\ At(r, "check")
    /\ Becomes(r, saved(r, run[r]))
    /\ UNCHANGED <<chain, pool, losses>>

Mine ==
    /\ \E tx \in pool : /\ tx.nonce = latestNonce
                        /\ chain' = Append(chain, tx)
                        /\ pool' = pool \ {tx}
    /\ UNCHANGED <<run, losses>>

\* The node forgets a pending transaction.
Drop ==
    /\ losses < MAX_LOSSES /\ losses' = losses + 1
    /\ \E tx \in pool : pool' = pool \ {tx}
    /\ run' = [r \in Runs |-> [run[r] EXCEPT !.alone = FALSE]]
    /\ UNCHANGED chain

Proceed(r) ==
    \/ ReadNonce(r) \/ Populate(r) \/ SendAnswered(r) \/ SendRefused(r) \/ SendUnanswered(r)
    \/ Confirmed(r) \/ Estimated(r) \/ Resolved(r) \/ Replaced(r) \/ Checked(r) \/ ReadFails(r)
Next ==
    \/ \E r \in Runs : \E file \in Files[r] : Start(r, file)
    \/ \E r \in Runs : Proceed(r)
    \/ Mine
    \/ Drop

\* Scripts go on and the chain goes on; nobody has to start a script.
Fairness == WF_vars(Mine) /\ \A r \in Runs : WF_vars(Proceed(r))
Spec == Init /\ [][Next]_vars /\ Fairness

-------------------------------------------------------------------------------
TypeOK ==
    /\ \A n \in DOMAIN chain : chain[n].nonce = n
    /\ \A tx \in pool : tx.nonce >= latestNonce
    /\ \A tx, other \in pool : tx.nonce = other.nonce => tx = other
    /\ \A r \in Runs : run[r].file \in Files[r] \cup {"none"}
    /\ losses \in 0..MAX_LOSSES

\* What a waiting script has saved is on the chain: the contract it names, at that
\* address, made by the transaction it names, whatever other scripts send
\* meanwhile (deploy-and-wait.js: "This will NOT exit until the contract is
\* confirmed on testnet").
ConfirmedIsDeployed ==
    \A r \in Runs : \A a \in run[r].announced :
       script(r).waits => a.address < latestNonce /\ chain[a.address] = a.tx

\* A script that had the account to itself, with no answer lost, announces the
\* address that its transaction gets ("Expected contract address").
ExpectedWhenAlone ==
    \A r \in Runs : run[r].alone =>
       \A a \in run[r].announced : a.address = a.tx.nonce

\* The same, whoever else uses the account.
ExpectedIsDeployed ==
    \A r \in Runs : \A a \in run[r].announced : a.address = a.tx.nonce

\* Every started script ends, also when another one's transaction takes the place of its
\* own.  The exceptions are the scripts that wait for one of their transactions, once the
\* node forgot a transaction without which that one cannot be mined.  The quick script is
\* one of them ("does not wait for confirmations to avoid getting stuck").
stranded(r) ==
    Awaits(r) /\ \E n \in latestNonce..awaited(r).nonce : ~ \E tx \in pool : tx.nonce = n
RunsEnd == \A r \in Runs : Active(r) ~> (~Active(r) \/ stranded(r))
=============================================================================
