------------------------ MODULE RegistryScriptsProofs ------------------------
(***************************************************************************)
(* Theorems about RegistryScripts, for any number of executions of any of  *)
(* the scripts and any number of losses: what a waiting script has saved   *)
(* is on the chain, and a script that had the account to itself announces  *)
(* the address that its transaction gets.                                  *)
(***************************************************************************)
EXTENDS RegistryScripts, SequenceTheorems, FiniteSetTheorems, WellFoundedInduction, TLAPS

-------------------------------------------------------------------------------
(***************************************************************************)
(* What the scripts have in common                                         *)
(***************************************************************************)

\* A script that waits computes the address from the transaction it sent; one that
\* computes it from the nonce it asked for makes one contract and does ask.
Disciplined(s) ==
    /\ s.waits => s.announces = "sent"
    /\ s.announces = "read" => s.reads /\ Len(s.plan) = 1

LEMMA SourceDisciplined == \A f \in DOMAIN Source : Disciplined(Source[f])
<1>1. Disciplined(eip1559) /\ Disciplined(registryOnly) /\ Disciplined(simple)
  BY DEF Disciplined, eip1559, registryOnly, simple, Script
<1>2. Disciplined(nowait) /\ Disciplined(noWait) /\ Disciplined(andWait)
  BY DEF Disciplined, nowait, noWait, andWait, Script
<1>3. Disciplined(rawDeploy) /\ Disciplined(simpleRegistry)
  BY DEF Disciplined, rawDeploy, simpleRegistry, andWait, Script
<1>4. Disciplined(testnet) /\ Disciplined(testnetQuick)
  BY DEF Disciplined, testnet, testnetQuick, noWait, andWait, Script
<1> QED BY <1>1, <1>2, <1>3, <1>4 DEF Source

-------------------------------------------------------------------------------
(***************************************************************************)
(* The account's next nonce                                                *)
(***************************************************************************)

\* A nonempty set of numbers has a least one.
LEMMA LeastNumber ==
    ASSUME NEW T, T \subseteq Nat, T # {}
    PROVE  \E n \in T : \A m \in T : n <= m
<1> DEFINE Less == {ss \in Nat \X Nat : ss[1] < ss[2]}
<1>1. IsWellFoundedOn(Less, Nat)
  BY NatLessThanWellFounded, Zenon DEF OpToRel
<1>2. PICK n \in T : \A m \in T : ~ (<<m, n>> \in Less)
  <2> HIDE DEF Less
  <2> QED BY <1>1, WFMin
<1>3. ASSUME NEW m \in T PROVE n <= m
  <2>1. n \in Nat /\ m \in Nat /\ <<m, n>> \notin Less
    BY <1>2
  <2>2. <<m, n>> \in Nat \X Nat
    BY <2>1
  <2>3. ~ (<<m, n>>[1] < <<m, n>>[2])
    BY <2>1, <2>2
  <2> QED BY <2>1, <2>3
<1> QED BY <1>3

\* The nonce for "pending" is the first one for which the account has no transaction,
\* mined or pending: there is one, however many are pending (ethers: populateTransaction).
LEMMA PendingNonceIsFree ==
    ASSUME Len(chain) \in Nat, IsFiniteSet(pool)
    PROVE  /\ pendingNonce \in Nat /\ pendingNonce >= latestNonce
           /\ ~ \E tx \in pool : tx.nonce = pendingNonce
           /\ pool = {} => pendingNonce = latestNonce
<1> DEFINE Window == latestNonce..(latestNonce + Cardinality(pool))
           Taken(n) == \E tx \in pool : tx.nonce = n
           Free == {n \in Window : ~ Taken(n)}
<1>1. latestNonce \in Nat /\ Cardinality(pool) \in Nat
  BY FS_CardinalityType, LenProperties DEF latestNonce
<1>2. Free # {}
  <2> SUFFICES ASSUME Free = {} PROVE FALSE
    OBVIOUS
  <2> DEFINE f == [n \in Window |-> CHOOSE tx \in pool : tx.nonce = n]
  <2>1. \A n \in Window : f[n] \in pool /\ f[n].nonce = n
    OBVIOUS
  <2>2. IsFiniteSet(Window) /\ Cardinality(Window) = Cardinality(pool) + 1
    <3>1. latestNonce \in Int /\ latestNonce + Cardinality(pool) \in Int
      BY <1>1
    <3>2. \A a, b \in Int : /\ IsFiniteSet(a..b)
                            /\ Cardinality(a..b) = IF a > b THEN 0 ELSE b - a + 1
      BY FS_Interval
    <3> QED BY <1>1, <3>1, <3>2
  <2>3. f \in [Window -> pool]
    BY <2>1
  <2> HIDE DEF f, Window
  <2>4. PICK x \in Window, y \in Window : x # y /\ f[x] = f[y]
    BY <1>1, <2>2, <2>3, FS_PigeonHole
  <2> QED BY <2>1, <2>4
<1>3. Free \subseteq Nat
  BY <1>1
<1>4. PICK n \in Free : \A m \in Free : n <= m
  BY <1>2, <1>3, LeastNumber
<1>5. /\ n \in Window /\ ~ Taken(n)
      /\ \A m \in latestNonce..(n - 1) : Taken(m)
  BY <1>1, <1>4
<1>6. /\ pendingNonce \in Window
      /\ ~ \E tx \in pool : tx.nonce = pendingNonce
  BY <1>5 DEF pendingNonce
<1>7. pool = {} => pendingNonce = latestNonce
  <2>1. pool = {} => Window = {latestNonce}
    BY <1>1, FS_EmptySet
  <2> QED BY <1>6, <2>1
<1> QED BY <1>1, <1>6, <1>7

-------------------------------------------------------------------------------
(***************************************************************************)
(* The invariant                                                           *)
(***************************************************************************)
Makes  == {Source[f].plan[i] : f \in DOMAIN Source, i \in Nat}
Prices == {Source[f].prices[i] : f \in DOMAIN Source, i \in Nat}
Transactions == [run : Runs, step : Nat, attempt : Nat, nonce : Nat, makes : Makes, price : Prices]
Announcements == [address : Nat, tx : Transactions]
Executions ==
    [file : DOMAIN Source \cup {"none"},
     at : {"idle", "read", "estimate", "resolve", "populate", "send", "wait", "check",
           "done", "failed"},
     step : Nat, attempt : Nat, read : Nat, nonce : Nat,
     announced : SUBSET Announcements, alone : BOOLEAN]

ChainTyped == chain \in Seq(Transactions) /\ \A n \in 1..Len(chain) : chain[n].nonce = n
PoolTyped ==
    /\ pool \subseteq Transactions /\ IsFiniteSet(pool)
    /\ \A tx \in pool : tx.nonce >= latestNonce
    /\ \A tx \in pool : \A other \in pool : tx.nonce = other.nonce => tx = other
LossesTyped == losses \in 0..MAX_LOSSES

\* The transaction that execution r sends from x, one of its states.
Sends(r, x) ==
    [run |-> r, step |-> x.step, attempt |-> x.attempt, nonce |-> x.nonce,
     makes |-> Source[x.file].plan[x.step], price |-> Source[x.file].prices[x.attempt]]

Named(r, x) == IF x.at = "idle" THEN x.file = "none" /\ x.announced = {} ELSE x.file \in Files[r]

\* Only scripts that wait get past the wait, and then with their own transaction mined.
Waiting(r, x) ==
    /\ x.at \in {"wait", "check"} => Source[x.file].waits
    /\ x.at \in {"send", "wait", "check"} => x.nonce # 0
    /\ x.at = "check" => isMined(Sends(r, x))

\* The two properties, of one execution.
Deployed(x) ==
    x.at # "idle" /\ Source[x.file].waits =>
       \A a \in x.announced : a.address \in 1..Len(chain) /\ chain[a.address] = a.tx
Foretold(x) == x.alone => \A a \in x.announced : a.address = a.tx.nonce

\* Until a script that is alone has sent, nothing is pending, and the nonces it has asked
\* for still are the next one.
Undisturbed(x) ==
    x.at \in {"read", "estimate", "resolve", "populate", "send"}
    /\ Source[x.file].announces = "read" =>
       /\ x.step = 1
       /\ x.alone => /\ pool = {}
                     /\ x.at # "read" => x.read = latestNonce
                     /\ x.at = "send" => x.nonce = latestNonce

Proper(r, x) == Named(r, x) /\ Waiting(r, x) /\ Deployed(x) /\ Foretold(x) /\ Undisturbed(x)

IInv ==
    /\ ChainTyped /\ PoolTyped /\ LossesTyped
    /\ run \in [Runs -> Executions]
    /\ \A r \in Runs : Proper(r, run[r])

-------------------------------------------------------------------------------
(***************************************************************************)
(* The account                                                             *)
(***************************************************************************)
\* The chain is extended, never rewritten.
Extended ==
    /\ latestNonce' \in Nat /\ latestNonce <= latestNonce'
    /\ \A n \in 1..Len(chain) : chain'[n] = chain[n]

LEMMA NonceTyped ==
    ASSUME ChainTyped
    PROVE  latestNonce \in Nat \ {0} /\ Len(chain) \in Nat
BY LenProperties DEF ChainTyped, latestNonce

\* What is mined stays mined.
LEMMA MinedStays ==
    ASSUME ChainTyped, Extended, NEW tx, tx.nonce \in Nat \ {0}, isMined(tx)
    PROVE  isMined(tx)'
<1>1. tx.nonce \in 1..Len(chain) /\ tx.nonce < latestNonce'
  BY NonceTyped DEF latestNonce, Extended, isMined
<1> QED BY <1>1 DEF isMined, Extended

\* The node keeps one transaction per nonce: a dearer one replaces it (geth's txpool).
LEMMA SendingKeeps ==
    ASSUME ChainTyped, PoolTyped, NEW tx \in Transactions, accepts(tx),
           chain' = chain, pool' = withPending(tx)
    PROVE  ChainTyped' /\ PoolTyped' /\ Extended
<1>1. latestNonce' = latestNonce /\ ChainTyped' /\ Extended
  BY NonceTyped DEF latestNonce, ChainTyped, Extended
<1>2. IsFiniteSet(pool')
  <2>1. IsFiniteSet({other \in pool : other.nonce # tx.nonce})
    BY FS_Subset DEF PoolTyped
  <2> QED BY <2>1, FS_AddElement DEF withPending
<1>3. pool' \subseteq Transactions /\ \A t \in pool' : t.nonce >= latestNonce'
  BY <1>1 DEF PoolTyped, withPending, accepts
<1>4. \A t \in pool' : \A other \in pool' : t.nonce = other.nonce => t = other
  BY DEF PoolTyped, withPending
<1> QED BY <1>1, <1>2, <1>3, <1>4 DEF PoolTyped

\* Mining takes the one pending transaction with the next nonce.
LEMMA MiningKeeps ==
    ASSUME ChainTyped, PoolTyped, NEW tx \in pool, tx.nonce = latestNonce,
           chain' = Append(chain, tx), pool' = pool \ {tx}
    PROVE  ChainTyped' /\ PoolTyped' /\ Extended
<1>1. tx \in Transactions /\ latestNonce \in Nat \ {0} /\ Len(chain) \in Nat
  BY NonceTyped DEF PoolTyped
<1>2. /\ chain' \in Seq(Transactions) /\ Len(chain') = Len(chain) + 1
      /\ \A n \in 1..Len(chain) : chain'[n] = chain[n]
      /\ chain'[Len(chain) + 1] = tx
  BY <1>1, AppendProperties DEF ChainTyped
<1>3. ChainTyped'
  <2>1. \A n \in 1..Len(chain') : chain'[n].nonce = n
    BY <1>1, <1>2 DEF ChainTyped, latestNonce
  <2> QED BY <1>2, <2>1 DEF ChainTyped
<1>4. latestNonce' = latestNonce + 1
  BY <1>1, <1>2 DEF latestNonce
<1>5. PoolTyped'
  <2>1. IsFiniteSet(pool')
    BY FS_RemoveElement DEF PoolTyped
  <2>2. ASSUME NEW t \in pool' PROVE t.nonce >= latestNonce'
    <3>1. t \in pool /\ t # tx /\ t.nonce \in Nat /\ t.nonce >= latestNonce
      BY DEF PoolTyped, Transactions
    <3>2. t.nonce # latestNonce
      BY <3>1 DEF PoolTyped
    <3> QED BY <1>1, <1>4, <3>1, <3>2
  <2> QED BY <2>1, <2>2 DEF PoolTyped
<1>6. Extended
  BY <1>1, <1>2, <1>4 DEF Extended
<1> QED BY <1>3, <1>5, <1>6

\* Forgetting one disturbs neither.
LEMMA DroppingKeeps ==
    ASSUME ChainTyped, PoolTyped, NEW tx, chain' = chain, pool' = pool \ {tx}
    PROVE  ChainTyped' /\ PoolTyped' /\ Extended
<1>1. latestNonce' = latestNonce /\ ChainTyped' /\ Extended
  BY NonceTyped DEF latestNonce, ChainTyped, Extended
<1>2. IsFiniteSet(pool')
  BY FS_RemoveElement DEF PoolTyped
<1> QED BY <1>1, <1>2 DEF PoolTyped

-------------------------------------------------------------------------------
(***************************************************************************)
(* The executions that do not move                                         *)
(***************************************************************************)
\* They keep what they rely on, as long as those that are told they are still alone see
\* the same account, or one that had something pending and so was none of theirs.
LEMMA OthersStay ==
    ASSUME ChainTyped, Extended, NEW q \in Runs, NEW x \in Executions, Proper(q, x),
           NEW y, y = x \/ y = [x EXCEPT !.alone = FALSE],
           y.alone => (UNCHANGED <<chain, pool>> \/ pool # {})
    PROVE  Proper(q, y)' /\ y \in Executions
<1>1. /\ y \in Executions /\ y.at = x.at /\ y.file = x.file /\ y.announced = x.announced
      /\ y.step = x.step /\ y.attempt = x.attempt /\ y.nonce = x.nonce /\ y.read = x.read
      /\ y.alone => x.alone
  BY DEF Executions
<1>2. Named(q, y)' /\ Foretold(y)'
  BY <1>1 DEF Proper, Named, Foretold
<1>3. Waiting(q, y)'
  <2>1. ASSUME x.at = "check" PROVE isMined(Sends(q, y))'
    <3>1. isMined(Sends(q, x)) /\ Sends(q, x).nonce \in Nat \ {0} /\ Sends(q, y) = Sends(q, x)
      BY <1>1, <2>1 DEF Proper, Waiting, Sends, Executions
    <3>2. \A t : t = Sends(q, x) => isMined(t)'
      BY <3>1, MinedStays
    <3> QED BY <3>1, <3>2
  <2> QED BY <1>1, <2>1 DEF Proper, Waiting
<1>4. Deployed(y)'
  <2>1. \A n \in 1..Len(chain) : n \in 1..Len(chain') /\ chain'[n] = chain[n]
    BY NonceTyped DEF Extended, latestNonce
  <2> QED BY <1>1, <2>1 DEF Proper, Deployed
<1>5. Undisturbed(y)'
  <2>1. CASE UNCHANGED <<chain, pool>>
    BY <1>1, <2>1 DEF Proper, Undisturbed, latestNonce
  <2>2. CASE y.alone => pool # {}
    BY <1>1, <2>2 DEF Proper, Undisturbed
  <2> QED BY <2>1, <2>2
<1> QED BY <1>1, <1>2, <1>3, <1>4, <1>5 DEF Proper

\* One execution moves to y, the others stay where they are or lose their solitude.
LEMMA OneMoves ==
    ASSUME IInv, ChainTyped', PoolTyped', Extended, NEW r \in Runs,
           NEW y \in Executions, Proper(r, y)',
           \/ run' = [run EXCEPT ![r] = y] /\ UNCHANGED <<chain, pool>>
           \/ run' = accompany(r, y)
    PROVE  run' \in [Runs -> Executions] /\ \A q \in Runs : Proper(q, run[q])'
<1>1. run \in [Runs -> Executions] /\ ChainTyped /\ \A q \in Runs : Proper(q, run[q])
  BY DEF IInv
<1>2. /\ DOMAIN run' = Runs /\ run' = [q \in Runs |-> run'[q]]
      /\ run'[r] = y
      /\ \A q \in Runs \ {r} : \/ run'[q] = run[q] /\ UNCHANGED <<chain, pool>>
                               \/ run'[q] = [run[q] EXCEPT !.alone = FALSE]
  <2>1. CASE run' = [run EXCEPT ![r] = y] /\ UNCHANGED <<chain, pool>>
    BY <1>1, <2>1
  <2>2. CASE run' = accompany(r, y)
    BY <2>2 DEF accompany
  <2> QED BY <2>1, <2>2
<1>3. ASSUME NEW q \in Runs \ {r}
      PROVE  run'[q] \in Executions /\ Proper(q, run[q])'
  <2> DEFINE x == run[q]
             z == run'[q]
  <2>1. x \in Executions /\ Proper(q, x)
    BY <1>1
  <2>2. z = x \/ z = [x EXCEPT !.alone = FALSE]
    BY <1>2
  <2>3. z.alone => (UNCHANGED <<chain, pool>> \/ pool # {})
    <3>1. z = [x EXCEPT !.alone = FALSE] => z.alone = FALSE
      BY <2>1 DEF Executions
    <3> QED BY <1>2, <3>1
  <2>4. \A w : w = z => Proper(q, w)' /\ w \in Executions
    <3> SUFFICES ASSUME NEW w, w = z PROVE Proper(q, w)' /\ w \in Executions
      OBVIOUS
    <3> HIDE DEF x, z
    <3> QED BY <1>1, <2>1, <2>2, <2>3, OthersStay
  <2> QED BY <2>4 DEF Proper, Named, Waiting, Deployed, Foretold, Undisturbed, Sends
<1>4. run'[r] \in Executions /\ Proper(r, run[r])'
  BY <1>2 DEF Proper, Named, Waiting, Deployed, Foretold, Undisturbed, Sends
<1> QED BY <1>2, <1>3, <1>4

-------------------------------------------------------------------------------
(***************************************************************************)
(* The execution that moves                                                *)
(***************************************************************************)
\* What the invariant says of one execution under way.
LEMMA UnderWay ==
    ASSUME IInv, NEW r \in Runs, run[r].at # "idle"
    PROVE  /\ run[r] \in Executions /\ Proper(r, run[r])
           /\ run[r].file \in DOMAIN Source /\ Disciplined(script(r))
           /\ transaction(r) = Sends(r, run[r]) /\ transaction(r) \in Transactions
           /\ transaction(r).nonce = run[r].nonce
<1>1. run[r] \in Executions /\ Proper(r, run[r])
  BY DEF IInv
<1>2. run[r].file \in DOMAIN Source
  BY <1>1, FilesAssumption DEF Proper, Named
<1>3. Disciplined(script(r))
  BY <1>2, SourceDisciplined DEF script
<1>4. transaction(r) = Sends(r, run[r]) /\ transaction(r).nonce = run[r].nonce
  BY DEF transaction, Sends, script
<1>5. Sends(r, run[r]) \in Transactions
  <2>1. /\ Source[run[r].file].plan[run[r].step] \in Makes
        /\ Source[run[r].file].prices[run[r].attempt] \in Prices
    BY <1>1, <1>2 DEF Executions, Makes, Prices
  <2> QED BY <1>1, <2>1 DEF Sends, Transactions, Executions
<1> QED BY <1>1, <1>2, <1>3, <1>4, <1>5

\* Where the account does not move either, nothing but the execution is to be looked at.
LEMMA AccountStill ==
    ASSUME IInv, UNCHANGED <<chain, pool, losses>>
    PROVE  ChainTyped' /\ PoolTyped' /\ LossesTyped' /\ Extended /\ latestNonce' = latestNonce
BY NonceTyped DEF IInv, ChainTyped, PoolTyped, LossesTyped, Extended, latestNonce

\* So an action of one execution that only moves it keeps the invariant.
LEMMA Moves ==
    ASSUME IInv, NEW r \in Runs, UNCHANGED <<chain, pool, losses>>,
           NEW y \in Executions, Proper(r, y), Becomes(r, y)
    PROVE  IInv'
<1>1. ChainTyped' /\ PoolTyped' /\ LossesTyped' /\ Extended /\ latestNonce' = latestNonce
  BY AccountStill
<1>2. Proper(r, y)'
  BY <1>1 DEF Proper, Named, Waiting, Deployed, Foretold, Undisturbed, isMined, Sends
<1>3. run' \in [Runs -> Executions] /\ \A q \in Runs : Proper(q, run[q])'
  BY <1>1, <1>2, OneMoves DEF Becomes
<1> QED BY <1>1, <1>3 DEF IInv

\* A script that dies keeps what it has announced.
LEMMA Failing ==
    ASSUME NEW r \in Runs, NEW x \in Executions, x.at # "idle", Proper(r, x)
    PROVE  [x EXCEPT !.at = "failed"] \in Executions /\ Proper(r, [x EXCEPT !.at = "failed"])
<1> DEFINE y == [x EXCEPT !.at = "failed"]
<1>1. /\ y \in Executions /\ y.at = "failed" /\ y.file = x.file
      /\ y.announced = x.announced /\ y.alone = x.alone
  BY DEF Executions
<1> HIDE DEF y
<1>2. Proper(r, y)
  BY <1>1 DEF Proper, Named, Waiting, Deployed, Foretold, Undisturbed
<1> QED BY <1>1, <1>2 DEF y

LEMMA StartKeeps ==
    ASSUME IInv, NEW r \in Runs, NEW file \in Files[r], Start(r, file)
    PROVE  IInv'
<1> DEFINE y == [Idle EXCEPT !.file = file, !.alone = (pool = {}),
                             !.at = IF Source[file].reads THEN "read" ELSE "populate"]
<1>1. file \in DOMAIN Source /\ Disciplined(Source[file])
  BY FilesAssumption, SourceDisciplined
<1>2. /\ y \in Executions /\ y.file = file /\ y.announced = {} /\ y.step = 1
      /\ y.at = IF Source[file].reads THEN "read" ELSE "populate"
      /\ y.alone = (pool = {})
  BY <1>1 DEF Idle, Executions
<1> HIDE DEF y
<1>3. Proper(r, y)
  BY <1>1, <1>2 DEF Proper, Named, Waiting, Deployed, Foretold, Undisturbed, Disciplined
<1>4. Becomes(r, y) /\ UNCHANGED <<chain, pool, losses>>
  BY DEF Start, y
<1> QED BY <1>2, <1>3, <1>4, Moves

LEMMA ReadNonceKeeps ==
    ASSUME IInv, NEW r \in Runs, ReadNonce(r)
    PROVE  IInv'
<1> DEFINE x == run[r]
           y == [moved(r, "populate") EXCEPT !.read = latestNonce]
<1>1. x \in Executions /\ Proper(r, x) /\ x.at = "read" /\ latestNonce \in Nat
  BY UnderWay, NonceTyped DEF ReadNonce, At, IInv
<1>2. /\ y \in Executions /\ y.at = "populate" /\ y.read = latestNonce /\ y.file = x.file
      /\ y.announced = x.announced /\ y.alone = x.alone /\ y.step = x.step
  BY <1>1 DEF moved, Executions
<1>3. Becomes(r, y) /\ UNCHANGED <<chain, pool, losses>>
  BY DEF ReadNonce
<1> HIDE DEF x, y
<1>4. Proper(r, y)
  BY <1>1, <1>2 DEF Proper, Named, Waiting, Deployed, Foretold, Undisturbed
<1> QED BY <1>2, <1>3, <1>4, Moves

LEMMA PopulateKeeps ==
    ASSUME IInv, NEW r \in Runs, Populate(r)
    PROVE  IInv'
<1> DEFINE x == run[r]
           y == [moved(r, "send") EXCEPT !.nonce = pendingNonce]
<1>1. /\ x \in Executions /\ Proper(r, x) /\ x.at = "populate"
      /\ pendingNonce \in Nat \ {0} /\ (pool = {} => pendingNonce = latestNonce)
  <2>1. latestNonce \in Nat \ {0} /\ Len(chain) \in Nat /\ IsFiniteSet(pool)
    BY NonceTyped DEF IInv, PoolTyped
  <2>2. pendingNonce \in Nat /\ pendingNonce >= latestNonce
        /\ (pool = {} => pendingNonce = latestNonce)
    BY <2>1, PendingNonceIsFree
  <2> QED BY <2>1, <2>2, UnderWay DEF Populate, At
<1>2. /\ y \in Executions /\ y.at = "send" /\ y.nonce = pendingNonce /\ y.file = x.file
      /\ y.announced = x.announced /\ y.alone = x.alone /\ y.step = x.step /\ y.read = x.read
  BY <1>1 DEF moved, Executions
<1>3. Becomes(r, y) /\ UNCHANGED <<chain, pool, losses>>
  BY DEF Populate
<1> HIDE DEF x, y
<1>4. Proper(r, y)
  BY <1>1, <1>2 DEF Proper, Named, Waiting, Deployed, Foretold, Undisturbed
<1> QED BY <1>2, <1>3, <1>4, Moves

\* Saving is right: what a waiting script saves is mined, and who is alone computed the
\* nonce the transaction has (deploy-and-wait.js, simple-deploy.js).
LEMMA SavesRight ==
    ASSUME IInv, NEW r \in Runs, run[r].at \in {"send", "wait", "check"}, chain' = chain,
           script(r).waits => run[r].at # "send" /\ isMined(transaction(r)),
           NEW y, y = saved(r, run[r])
    PROVE  y \in Executions /\ Proper(r, y)'
<1> DEFINE x == run[r]
           tx == transaction(r)
           new == [address |-> announcedNonce(r), tx |-> tx]
           last == x.step = Len(script(r).plan)
           announced == IF tx.makes = "register" THEN x.announced ELSE x.announced \cup {new}
           step == IF last THEN x.step ELSE x.step + 1
           calls == ~last /\ script(r).plan[x.step + 1] = "register" /\ ~script(r).waits
           place == CASE calls -> "estimate"
                      [] ~last /\ ~calls -> "populate"
                      [] last /\ script(r).dies -> "failed"
                      [] OTHER -> "done"
<1>1. /\ x \in Executions /\ Proper(r, x) /\ Disciplined(script(r)) /\ script(r) = Source[x.file]
      /\ tx \in Transactions /\ tx.nonce = x.nonce
  BY UnderWay DEF script
<1>2. latestNonce' = latestNonce /\ latestNonce = Len(chain) + 1 /\ Len(chain) \in Nat
  BY NonceTyped DEF IInv, latestNonce
<1>3. announcedNonce(r) \in Nat
  BY <1>1 DEF announcedNonce, Executions
<1>4. new \in Announcements /\ new.address = announcedNonce(r) /\ new.tx = tx
  BY <1>1, <1>3 DEF Announcements
<1>5. y = [x EXCEPT !.announced = announced, !.step = step, !.at = place]
  BY DEF saved
<1>6. /\ y \in Executions /\ y.file = x.file /\ y.alone = x.alone
      /\ y.announced \subseteq x.announced \cup {new}
      /\ y.at \in {"estimate", "populate", "failed", "done"}
      /\ y.at \in {"estimate", "populate"} => ~last
  <2>1. announced \subseteq x.announced \cup {new} /\ announced \subseteq Announcements
    BY <1>1, <1>4 DEF Executions
  <2>2. step \in Nat
    BY <1>1 DEF Executions
  <2>3. /\ place \in {"estimate", "populate", "failed", "done"}
        /\ place \in {"estimate", "populate"} => ~last
    OBVIOUS
  <2> HIDE DEF announced, step, place, calls, x, new, tx, last
  <2> QED BY <1>1, <1>5, <2>1, <2>2, <2>3 DEF Executions
<1> HIDE DEF new
<1>7. script(r).waits => new.address \in 1..Len(chain) /\ chain[new.address] = new.tx
  <2> SUFFICES ASSUME script(r).waits
               PROVE  new.address \in 1..Len(chain) /\ chain[new.address] = new.tx
    OBVIOUS
  <2>1. new.address = x.nonce /\ x.nonce \in Nat \ {0}
    BY <1>1, <1>4 DEF Disciplined, announcedNonce, Proper, Waiting, Executions
  <2>2. tx.nonce < latestNonce /\ chain[tx.nonce] = tx
    BY DEF isMined
  <2> QED BY <1>1, <1>2, <1>4, <2>1, <2>2
<1>8. x.alone => new.address = new.tx.nonce
  <2>1. CASE script(r).announces = "read"
    <3>1. ~script(r).waits /\ x.at = "send"
      BY <1>1, <2>1 DEF Disciplined, Proper, Waiting
    <3> QED BY <1>1, <1>4, <2>1, <3>1 DEF Proper, Undisturbed, announcedNonce
  <2>2. CASE script(r).announces # "read"
    BY <1>1, <1>4, <2>2 DEF announcedNonce
  <2> QED BY <2>1, <2>2
<1>9. Undisturbed(y)'
  <2>1. ASSUME script(r).announces = "read" PROVE last
    <3>1. ~script(r).waits /\ x.at = "send"
      BY <1>1, <2>1 DEF Disciplined, Proper, Waiting
    <3> QED BY <1>1, <2>1, <3>1 DEF Proper, Undisturbed, Disciplined
  <2> QED BY <1>1, <1>6, <2>1 DEF Undisturbed
<1> HIDE DEF last
<1>10. Named(r, y)' /\ Waiting(r, y)'
  BY <1>1, <1>6 DEF Proper, Named, Waiting
<1>11. Deployed(y)'
  BY <1>1, <1>6, <1>7 DEF Proper, Deployed
<1>12. Foretold(y)'
  BY <1>1, <1>6, <1>8 DEF Proper, Foretold
<1> QED BY <1>6, <1>9, <1>10, <1>11, <1>12 DEF Proper

LEMMA FailingKeeps ==
    ASSUME IInv, NEW r \in Runs, ReadFails(r) \/ Replaced(r)
    PROVE  IInv'
<1>1. run[r].at # "idle" /\ Becomes(r, moved(r, "failed")) /\ UNCHANGED <<chain, pool, losses>>
  BY DEF ReadFails, Replaced, Awaits
<1>2. moved(r, "failed") \in Executions /\ Proper(r, moved(r, "failed"))
  BY <1>1, UnderWay, Failing DEF moved
<1> QED BY <1>1, <1>2, Moves

\* The quick script's two steps before it calls the registry: nothing but the place moves.
LEMMA ResolvingKeeps ==
    ASSUME IInv, NEW r \in Runs, Estimated(r) \/ Resolved(r)
    PROVE  IInv'
<1> DEFINE x == run[r]
<1>1. PICK y : /\ y \in {moved(r, "resolve"), moved(r, "populate")}
               /\ Becomes(r, y) /\ UNCHANGED <<chain, pool, losses>>
  BY DEF Estimated, Resolved
<1>2. x \in Executions /\ Proper(r, x) /\ x.at \in {"estimate", "resolve"}
  BY UnderWay DEF Estimated, Resolved, At
<1>3. /\ y \in Executions /\ y.at \in {"resolve", "populate"} /\ y.file = x.file
      /\ y.announced = x.announced /\ y.alone = x.alone /\ y.step = x.step /\ y.read = x.read
  BY <1>1, <1>2 DEF moved, Executions
<1> HIDE DEF x
<1>4. Proper(r, y)
  BY <1>2, <1>3 DEF Proper, Named, Waiting, Deployed, Foretold, Undisturbed
<1> QED BY <1>1, <1>3, <1>4, Moves

\* After an error of an attempt, either end of it is as good as the state before: a retry is
\* the same script, still alone if it was, about to ask for its nonce again.
LEMMA AfterError ==
    ASSUME IInv, NEW r \in Runs, run[r].at \in {"populate", "send"},
           NEW x, x = run[r] \/ x = [run[r] EXCEPT !.alone = FALSE],
           NEW y \in afterError(r, x)
    PROVE  /\ y \in Executions /\ y.at \in {"populate", "failed"} /\ Proper(r, y)
           /\ y.alone = x.alone
<1> DEFINE z == run[r]
<1>1. z \in Executions /\ Proper(r, z) /\ z.at \in {"populate", "send"}
  BY UnderWay
<1>2. /\ x \in Executions /\ x.at = z.at /\ x.file = z.file /\ x.announced = z.announced
      /\ x.step = z.step /\ x.attempt = z.attempt /\ x.read = z.read
      /\ x.alone => z.alone
  BY <1>1 DEF Executions
<1>3. y \in {[x EXCEPT !.at = "populate", !.attempt = @ + 1], [x EXCEPT !.at = "failed"]}
  BY DEF afterError
<1>4. /\ y \in Executions /\ y.at \in {"populate", "failed"} /\ y.file = x.file
      /\ y.announced = x.announced /\ y.step = x.step /\ y.read = x.read /\ y.alone = x.alone
  <2>1. CASE y = [x EXCEPT !.at = "populate", !.attempt = @ + 1]
    <3>1. PICK n \in Nat : n = x.attempt + 1
      BY <1>2 DEF Executions
    <3>2. y = [x EXCEPT !.at = "populate", !.attempt = n]
      BY <2>1, <3>1
    <3> HIDE DEF z
    <3> QED BY <1>2, <3>2 DEF Executions
  <2>2. CASE y = [x EXCEPT !.at = "failed"]
    BY <1>2, <2>2 DEF Executions
  <2> QED BY <1>3, <2>1, <2>2
<1> HIDE DEF z
<1>5. Proper(r, y)
  BY <1>1, <1>2, <1>4 DEF Proper, Named, Waiting, Deployed, Foretold, Undisturbed
<1> QED BY <1>4, <1>5

LEMMA SendRefusedKeeps ==
    ASSUME IInv, NEW r \in Runs, SendRefused(r)
    PROVE  IInv'
<1>1. run[r].at \in {"populate", "send"} /\ UNCHANGED <<chain, pool, losses>>
  BY DEF SendRefused
<1>2. PICK y \in afterError(r, run[r]) : Becomes(r, y)
  BY DEF SendRefused
<1>3. y \in Executions /\ Proper(r, y)
  BY <1>1, AfterError
<1> QED BY <1>1, <1>2, <1>3, Moves

LEMMA SendAnsweredKeeps ==
    ASSUME IInv, NEW r \in Runs, SendAnswered(r)
    PROVE  IInv'
<1>1. /\ run[r].at = "send" /\ accepts(transaction(r)) /\ transaction(r) \in Transactions
      /\ run[r] \in Executions /\ Proper(r, run[r]) /\ chain' = chain /\ losses' = losses
      /\ pool' = withPending(transaction(r))
  BY UnderWay DEF SendAnswered, At
<1>2. ChainTyped' /\ PoolTyped' /\ Extended
  BY <1>1, SendingKeeps DEF IInv
<1>3. PICK y : y = IF script(r).waits THEN moved(r, "wait") ELSE saved(r, run[r])
  OBVIOUS
<1>4. run' = accompany(r, y)
  BY <1>3 DEF SendAnswered
<1>5. y \in Executions /\ Proper(r, y)'
  <2>1. CASE script(r).waits
    <3>1. /\ y \in Executions /\ y.at = "wait" /\ y.file = run[r].file
          /\ y.announced = run[r].announced /\ y.alone = run[r].alone /\ y.nonce = run[r].nonce
      BY <1>1, <1>3, <2>1 DEF moved, Executions
    <3> QED BY <1>1, <2>1, <3>1
            DEF Proper, Named, Waiting, Deployed, Foretold, Undisturbed, script
  <2>2. CASE ~script(r).waits
    BY <1>1, <1>3, <2>2, SavesRight
  <2> QED BY <2>1, <2>2
<1>6. run' \in [Runs -> Executions] /\ \A q \in Runs : Proper(q, run[q])'
  BY <1>2, <1>4, <1>5, OneMoves
<1> QED BY <1>1, <1>2, <1>6 DEF IInv, LossesTyped

LEMMA SendUnansweredKeeps ==
    ASSUME IInv, NEW r \in Runs, SendUnanswered(r)
    PROVE  IInv'
<1>1. /\ run[r].at = "send" /\ accepts(transaction(r)) /\ transaction(r) \in Transactions
      /\ chain' = chain /\ pool' = withPending(transaction(r))
  BY UnderWay DEF SendUnanswered, At
<1>2. ChainTyped' /\ PoolTyped' /\ Extended /\ latestNonce' = latestNonce
  BY <1>1, SendingKeeps DEF IInv, latestNonce
<1>3. LossesTyped'
  BY LossesAssumption DEF IInv, LossesTyped, SendUnanswered
<1>4. PICK y \in afterError(r, [run[r] EXCEPT !.alone = FALSE]) : run' = accompany(r, y)
  BY DEF SendUnanswered
<1>5. run[r] \in Executions
  BY DEF IInv
<1>6. y \in Executions /\ y.at \in {"populate", "failed"} /\ Proper(r, y) /\ y.alone = FALSE
  <2>1. PICK x : x = [run[r] EXCEPT !.alone = FALSE]
    OBVIOUS
  <2>2. x.alone = FALSE
    BY <1>5, <2>1 DEF Executions
  <2>3. y \in afterError(r, x)
    BY <1>4, <2>1
  <2>4. x = run[r] \/ x = [run[r] EXCEPT !.alone = FALSE]
    BY <2>1
  <2>5. /\ y \in Executions /\ y.at \in {"populate", "failed"} /\ Proper(r, y)
        /\ y.alone = x.alone
    BY <1>1, <2>3, <2>4, AfterError
  <2> QED BY <2>2, <2>5
<1>7. Proper(r, y)'
  BY <1>1, <1>2, <1>6 DEF Proper, Named, Waiting, Deployed, Foretold, Undisturbed
<1>8. run' \in [Runs -> Executions] /\ \A q \in Runs : Proper(q, run[q])'
  BY <1>2, <1>4, <1>6, <1>7, OneMoves
<1> QED BY <1>2, <1>3, <1>8 DEF IInv

LEMMA ConfirmedKeeps ==
    ASSUME IInv, NEW r \in Runs, Confirmed(r) \/ Checked(r)
    PROVE  IInv'
<1>1. /\ run[r].at \in {"wait", "check"} /\ UNCHANGED <<chain, pool, losses>>
      /\ run[r] \in Executions /\ Proper(r, run[r]) /\ isMined(transaction(r))
      /\ transaction(r) = Sends(r, run[r])
  BY UnderWay DEF Confirmed, Checked, At, Proper, Waiting
<1>2. ChainTyped' /\ PoolTyped' /\ LossesTyped' /\ Extended
  BY <1>1, AccountStill
<1>3. PICK y : y \in {moved(r, "check"), saved(r, run[r])} /\ Becomes(r, y)
  BY DEF Confirmed, Checked
<1>4. y \in Executions /\ Proper(r, y)'
  <2>1. CASE y = moved(r, "check")
    <3>1. /\ y \in Executions /\ y.at = "check" /\ y.file = run[r].file
          /\ y.announced = run[r].announced /\ y.alone = run[r].alone /\ y.nonce = run[r].nonce
          /\ y.step = run[r].step /\ y.attempt = run[r].attempt
      BY <1>1, <2>1 DEF moved, Executions
    <3>2. Sends(r, y) = transaction(r)
      BY <1>1, <3>1 DEF Sends
    <3>3. Proper(r, y)
      BY <1>1, <3>1, <3>2 DEF Proper, Named, Waiting, Deployed, Foretold, Undisturbed
    <3> QED BY <1>1, <1>2, <3>1, <3>3, AccountStill
            DEF Proper, Named, Waiting, Deployed, Foretold, Undisturbed, isMined, Sends
  <2>2. CASE y = saved(r, run[r])
    BY <1>1, <2>2, SavesRight
  <2> QED BY <1>3, <2>1, <2>2
<1>5. run' \in [Runs -> Executions] /\ \A q \in Runs : Proper(q, run[q])'
  BY <1>1, <1>2, <1>3, <1>4, OneMoves DEF Becomes
<1> QED BY <1>2, <1>5 DEF IInv

\* A block is mined: something was pending, so no script that is alone had yet to send.
LEMMA MineKeeps ==
    ASSUME IInv, Mine
    PROVE  IInv'
<1>1. PICK tx \in pool : /\ tx.nonce = latestNonce /\ chain' = Append(chain, tx)
                         /\ pool' = pool \ {tx}
  BY DEF Mine
<1>2. ChainTyped' /\ PoolTyped' /\ Extended
  BY <1>1, MiningKeeps DEF IInv
<1>3. run' = run /\ losses' = losses
  BY DEF Mine
<1>4. ASSUME NEW q \in Runs PROVE Proper(q, run[q])'
  <2>1. run[q] \in Executions /\ Proper(q, run[q]) /\ pool # {}
    BY <1>1 DEF IInv
  <2>2. \A y : y = run[q] => Proper(q, y)'
    BY <1>2, <2>1, OthersStay DEF IInv
  <2> QED BY <1>3, <2>2 DEF Proper, Named, Waiting, Deployed, Foretold, Undisturbed, Sends
<1> QED BY <1>2, <1>3, <1>4 DEF IInv, LossesTyped

\* The node forgets a transaction: nobody counts as alone any more.
LEMMA DropKeeps ==
    ASSUME IInv, Drop
    PROVE  IInv'
<1>1. PICK tx \in pool : chain' = chain /\ pool' = pool \ {tx}
  BY DEF Drop
<1>2. ChainTyped' /\ PoolTyped' /\ Extended
  BY <1>1, DroppingKeeps DEF IInv
<1>3. LossesTyped'
  BY LossesAssumption DEF IInv, LossesTyped, Drop
<1>4. run' = [r \in Runs |-> [run[r] EXCEPT !.alone = FALSE]]
  BY DEF Drop
<1>5. ASSUME NEW q \in Runs PROVE run'[q] \in Executions /\ Proper(q, run[q])'
  <2>1. run[q] \in Executions /\ Proper(q, run[q]) /\ pool # {}
    BY <1>1 DEF IInv
  <2>2. \A y : y = [run[q] EXCEPT !.alone = FALSE] => Proper(q, y)' /\ y \in Executions
    BY <1>2, <2>1, OthersStay DEF IInv
  <2>3. run'[q] = [run[q] EXCEPT !.alone = FALSE]
    BY <1>4
  <2> QED BY <2>2, <2>3 DEF Proper, Named, Waiting, Deployed, Foretold, Undisturbed, Sends
<1>6. run' \in [Runs -> Executions]
  BY <1>4, <1>5
<1> QED BY <1>2, <1>3, <1>5, <1>6 DEF IInv

-------------------------------------------------------------------------------
LEMMA InitIInv == Init => IInv
<1> SUFFICES ASSUME Init PROVE IInv
  OBVIOUS
<1>1. ChainTyped /\ PoolTyped /\ LossesTyped
  <2>1. chain \in Seq(Transactions) /\ Len(chain) = 0
    BY EmptySeq DEF Init
  <2> QED BY <2>1, FS_EmptySet, LossesAssumption DEF Init, ChainTyped, PoolTyped, LossesTyped
<1>2. Idle \in Executions
  BY DEF Idle, Executions
<1>3. \A r \in Runs : Proper(r, Idle)
  BY DEF Proper, Named, Waiting, Deployed, Foretold, Undisturbed, Idle
<1> QED BY <1>1, <1>2, <1>3 DEF IInv, Init

LEMMA NextIInv == IInv /\ [Next]_vars => IInv'
<1> SUFFICES ASSUME IInv, [Next]_vars PROVE IInv'
  OBVIOUS
<1>1. ASSUME NEW r \in Runs, NEW file \in Files[r], Start(r, file) PROVE IInv'
  BY <1>1, StartKeeps
<1>2. ASSUME NEW r \in Runs, Proceed(r) PROVE IInv'
  BY <1>2, ReadNonceKeeps, PopulateKeeps, SendAnsweredKeeps, SendRefusedKeeps,
     SendUnansweredKeeps, ConfirmedKeeps, ResolvingKeeps, FailingKeeps DEF Proceed
<1>3. CASE Mine BY <1>3, MineKeeps
<1>4. CASE Drop BY <1>4, DropKeeps
<1>5. CASE UNCHANGED vars
  <2>1. ChainTyped' /\ PoolTyped' /\ LossesTyped' /\ Extended /\ latestNonce' = latestNonce
    BY <1>5, AccountStill DEF vars
  <2> QED BY <1>5, <2>1 DEF vars, IInv, Proper, Named, Waiting, Deployed, Foretold, Undisturbed,
                            isMined, Sends
<1> QED BY <1>1, <1>2, <1>3, <1>4, <1>5 DEF Next

\* The invariant that carries the theorems below.
THEOREM Invariant == Spec => []IInv
BY InitIInv, NextIInv, PTL DEF Spec

\* The account's transactions are where their nonces put them, and every execution is of a
\* script it may run.
THEOREM TypeCorrect == Spec => []TypeOK
<1>1. IInv => TypeOK
  <2> SUFFICES ASSUME IInv PROVE TypeOK
    OBVIOUS
  <2>1. \A n \in DOMAIN chain : chain[n].nonce = n
    BY LenProperties DEF IInv, ChainTyped
  <2>2. \A r \in Runs : run[r].file \in Files[r] \cup {"none"}
    BY DEF IInv, Proper, Named
  <2> QED BY <2>1, <2>2 DEF IInv, PoolTyped, LossesTyped, TypeOK
<1> QED BY <1>1, Invariant, PTL

\* What a waiting script has saved is on the chain, at that address and made by that
\* transaction, whatever the others send (deploy-and-wait.js: "This will NOT exit until
\* the contract is confirmed on testnet").
THEOREM ConfirmsTheDeployed == Spec => []ConfirmedIsDeployed
<1>1. IInv => ConfirmedIsDeployed
  <2> SUFFICES ASSUME IInv, NEW r \in Runs, NEW a \in run[r].announced, script(r).waits
               PROVE  a.address < latestNonce /\ chain[a.address] = a.tx
    BY DEF ConfirmedIsDeployed
  <2>1. Proper(r, run[r]) /\ run[r].at # "idle" /\ Len(chain) \in Nat
    BY NonceTyped DEF IInv, Proper, Named
  <2>2. a.address \in 1..Len(chain) /\ chain[a.address] = a.tx
    BY <2>1 DEF Proper, Deployed, script
  <2> QED BY <2>1, <2>2 DEF latestNonce
<1> QED BY <1>1, Invariant, PTL

\* A script that had the account to itself announces its contract's address, whichever
\* way it computes it ("Expected contract address").
THEOREM AloneExpectsRight == Spec => []ExpectedWhenAlone
<1>1. IInv => ExpectedWhenAlone
  BY DEF IInv, Proper, Foretold, ExpectedWhenAlone
<1> QED BY <1>1, Invariant, PTL
===============================================================================
