------------------------ MODULE LendingServiceProofs ------------------------
(***************************************************************************)
(* Proofs about the token actions of the web interface, for any number of  *)
(* pages, accounts, amounts and actions: nothing has another type than it  *)
(* should, no deposit or repayment takes another amount than the one       *)
(* typed, and an action reported as done was executed exactly once.        *)
(***************************************************************************)
EXTENDS LendingService, SequenceTheorems, FiniteSetTheorems, TLAPS

Places == {"idle", "approveToken", "allowance", "approve", "approving", "decimals", "send",
           "sent"}

Jobs == [at : Places, n : 0..MAX_ACTIONS, kind : Kinds, asked : Nat, amount : Nat,
         result : {"none", "true", "false"}]

MinedTransactions ==
    [page : Pages, n : 1..MAX_ACTIONS, kind : Kinds \cup {"approve"}, from : Accounts,
     asked : Asks, amount : Nat, outcome : Outcomes]

\* The state, with the whole of the mined transactions.
Typed ==
    /\ signer \in Accounts
    /\ job \in [Pages -> Jobs]
    /\ mempool \in Seq(Transactions)
    /\ mined \subseteq MinedTransactions
    /\ balance \in [Accounts -> Nat] /\ allowance \in [Accounts -> Nat]
    /\ deposits \in [Accounts -> Nat] /\ borrows \in [Accounts -> Nat]

\* The amounts an approval and an action may carry.
Proper(t) ==
    t.amount \in IF t.kind = "approve" THEN {t.asked * UNIT}
                 ELSE {t.asked * UNIT, t.asked * FALLBACK}

\* A running action has an amount typed, and from the wallet's reads on a proper amount.
JobsProper ==
    \A p \in Pages :
        /\ ~At(p, "idle") => job[p].n # 0 /\ job[p].asked \in Asks
        /\ job[p].at \in {"allowance", "approve"} => job[p].amount = job[p].asked * UNIT
        /\ At(p, "send") => job[p].amount \in {job[p].asked * UNIT, job[p].asked * FALLBACK}

TransactionsProper ==
    /\ \A i \in 1..Len(mempool) : Proper(mempool[i])
    /\ \A t \in mined : t.kind \in Pulling /\ t.outcome = "ok" => t.amount = t.asked * UNIT

\* No allowance is enough for an amount formatted with the fallback, unless that is the
\* proper amount.
AllowancesProper ==
    FALLBACK = UNIT \/ \A a \in Accounts, x \in Asks : allowance[a] < x * FALLBACK

\* A transaction belongs to an action begun on its page; the action in flight has a
\* transaction of its kind only once it was sent.
Belongs(t) ==
    /\ t.n <= job[t.page].n
    /\ t.n = job[t.page].n /\ t.kind = job[t.page].kind => job[t.page].at \in {"sent", "idle"}

\* Transactions of the same action.
Same(s, t) == s.page = t.page /\ s.n = t.n /\ s.kind = t.kind /\ s.kind # "approve"

\* An action is sent once: no two transactions, pending or mined, are its.
SentOnce ==
    /\ \A i \in 1..Len(mempool) : Belongs(mempool[i])
    /\ \A t \in mined : Belongs(t)
    /\ \A i, j \in 1..Len(mempool) : Same(mempool[i], mempool[j]) => i = j
    /\ \A i \in 1..Len(mempool), t \in mined : ~Same(mempool[i], t)
    /\ \A s, t \in mined : Same(s, t) => s = t

\* A page that reports success has seen its transaction executed.
ReportsAreTrue ==
    \A p \in Pages : job[p].result = "true" => At(p, "idle") /\ Mined(p, job[p].kind, {"ok"})

IInv == Typed /\ JobsProper /\ TransactionsProper /\ AllowancesProper /\ SentOnce
        /\ ReportsAreTrue


-----------------------------------------------------------------------------
\* A page's state has its fields.
LEMMA JobFields ==
    ASSUME Typed, NEW p \in Pages
    PROVE  /\ job[p] \in Jobs /\ job[p].at \in Places /\ job[p].n \in 0..MAX_ACTIONS
           /\ job[p].kind \in Kinds /\ job[p].asked \in Nat /\ job[p].amount \in Nat
           /\ job[p].result \in {"none", "true", "false"}
  BY DEF Typed, Jobs

\* Pending and mined transactions have theirs.
LEMMA TransactionFields ==
    ASSUME Typed
    PROVE  /\ Len(mempool) \in Nat
           /\ \A i \in 1..Len(mempool) : mempool[i] \in Transactions
           /\ \A t \in mined : t \in MinedTransactions
  BY LenProperties, ElementOfSeq DEF Typed

\* One page's state changes: it begins an action, or stays in the one it had and does
\* not go back to before it was sent.
Continues(p, j) ==
    \/ j.n > job[p].n
    \/ /\ j.n = job[p].n /\ j.kind = job[p].kind
       /\ job[p].at \in {"sent", "idle"} => j.at \in {"sent", "idle"}

\* What a page's state must satisfy by itself.
ProperJob(p, j) ==
    /\ j \in Jobs
    /\ j.at # "idle" => j.n # 0 /\ j.asked \in Asks
    /\ j.at \in {"allowance", "approve"} => j.amount = j.asked * UNIT
    /\ j.at = "send" => j.amount \in {j.asked * UNIT, j.asked * FALLBACK}
    /\ j.result = "true" => /\ j.at = "idle"
                            /\ \E t \in mined : /\ t.page = p /\ t.n = j.n /\ t.kind = j.kind
                                                /\ t.outcome = "ok"

\* Transactions that belonged to an action still do.
LEMMA BelongsStill ==
    ASSUME Typed, NEW p \in Pages, NEW j, ProperJob(p, j), Continues(p, j),
           job' = [job EXCEPT ![p] = j], NEW t, t.page \in Pages, t.n \in Nat, Belongs(t)
    PROVE  Belongs(t)'
  <1>1. job'[p] = j /\ \A q \in Pages \ {p} : job'[q] = job[q]
    BY DEF Typed
  <1>2. CASE t.page # p
    <2>1. job'[t.page] = job[t.page]
      BY <1>1, <1>2
    <2> QED BY <2>1 DEF Belongs
  <1>3. CASE t.page = p
    <2>1. job'[t.page] = j /\ t.n <= job[p].n /\ job[p].n \in Nat /\ j.n \in Nat
      BY <1>1, <1>3, JobFields DEF Belongs, ProperJob, Jobs
    <2>2. CASE j.n > job[p].n
      <3>1. t.n < j.n
        BY <2>1, <2>2
      <3> QED BY <2>1, <3>1 DEF Belongs
    <2>3. CASE /\ j.n = job[p].n /\ j.kind = job[p].kind
               /\ job[p].at \in {"sent", "idle"} => j.at \in {"sent", "idle"}
      BY <1>3, <2>1, <2>3 DEF Belongs
    <2> QED BY <2>2, <2>3 DEF Continues
  <1> QED BY <1>2, <1>3

\* What the pages know of themselves after one of them has changed.
LEMMA JobsStill ==
    ASSUME Typed, JobsProper, ReportsAreTrue, NEW p \in Pages, NEW j, ProperJob(p, j),
           job' = [job EXCEPT ![p] = j], mined' = mined
    PROVE  job' \in [Pages -> Jobs] /\ JobsProper' /\ ReportsAreTrue'
  <1>1. /\ job'[p] = j /\ \A q \in Pages \ {p} : job'[q] = job[q]
        /\ job' \in [Pages -> Jobs]
    BY DEF Typed, ProperJob
  <1>2. JobsProper'
    BY <1>1 DEF JobsProper, ProperJob, At
  <1>3. ReportsAreTrue'
    <2> SUFFICES ASSUME NEW q \in Pages, job'[q].result = "true"
                 PROVE  At(q, "idle")' /\ Mined(q, job[q].kind, {"ok"})'
      BY DEF ReportsAreTrue
    <2>1. CASE q = p
      BY <1>1, <2>1 DEF ProperJob, At, Mined
    <2>2. CASE q # p
      BY <1>1, <2>2 DEF ReportsAreTrue, At, Mined
    <2> QED BY <2>1, <2>2
  <1> QED BY <1>1, <1>2, <1>3

\* A step of a page that sends nothing.
LEMMA JobChange ==
    ASSUME IInv, NEW p \in Pages, NEW j, ProperJob(p, j), Continues(p, j),
           job' = [job EXCEPT ![p] = j], UNCHANGED <<signer, mempool, mined, chain>>
    PROVE  IInv'
  <1>1. /\ signer' = signer /\ mempool' = mempool /\ mined' = mined
        /\ balance' = balance /\ allowance' = allowance /\ deposits' = deposits
        /\ borrows' = borrows
    BY DEF chain
  <1>2. Typed /\ job' \in [Pages -> Jobs] /\ JobsProper' /\ ReportsAreTrue'
    BY <1>1, JobsStill DEF IInv
  <1>3. Typed'
    BY <1>1, <1>2 DEF Typed
  <1>4. TransactionsProper' /\ AllowancesProper'
    BY <1>1 DEF IInv, TransactionsProper, AllowancesProper, Proper
  <1>5. SentOnce'
    <2>1. \A i \in 1..Len(mempool) : Belongs(mempool[i])'
      <3> SUFFICES ASSUME NEW i \in 1..Len(mempool) PROVE Belongs(mempool[i])'
        OBVIOUS
      <3>1. mempool[i].page \in Pages /\ mempool[i].n \in Nat
        BY <1>2, TransactionFields DEF Transactions
      <3>2. Belongs(mempool[i])
        BY DEF IInv, SentOnce
      <3> QED BY <1>1, <1>2, <3>1, <3>2, BelongsStill DEF Belongs
    <2>2. \A t \in mined : Belongs(t)'
      <3> SUFFICES ASSUME NEW t \in mined PROVE Belongs(t)'
        OBVIOUS
      <3>1. t.page \in Pages /\ t.n \in Nat
        BY <1>2, TransactionFields DEF MinedTransactions
      <3>2. Belongs(t)
        BY DEF IInv, SentOnce
      <3> QED BY <1>2, <3>1, <3>2, BelongsStill
    <2> QED BY <1>1, <2>1, <2>2 DEF IInv, SentOnce, Same
  <1> QED BY <1>2, <1>3, <1>4, <1>5 DEF IInv

\* A step of a page that sends a transaction: an approval, or the action itself.
LEMMA SendChange ==
    ASSUME IInv, NEW p \in Pages, NEW kind, NEW place,
           \/ job[p].at = "approve" /\ kind = "approve" /\ place = "approving"
           \/ job[p].at = "send" /\ kind = job[p].kind /\ place = "sent",
           Goto(p, place), mempool' = Append(mempool, Sent(p, kind)),
           UNCHANGED <<signer, mined, chain>>
    PROVE  IInv'
  <1> DEFINE j == [job[p] EXCEPT !.at = place]
             t == Sent(p, kind)
             last == Len(mempool) + 1
  <1>1. /\ signer' = signer /\ mined' = mined
        /\ balance' = balance /\ allowance' = allowance /\ deposits' = deposits
        /\ borrows' = borrows
    BY DEF chain
  <1>2. /\ Typed /\ job[p] \in Jobs /\ job[p].n \in 1..MAX_ACTIONS /\ job[p].asked \in Asks
        /\ job[p].kind \in Kinds /\ job[p].amount \in Nat
    BY JobFields DEF IInv, JobsProper, At
  <1>3. ProperJob(p, j) /\ Continues(p, j) /\ job' = [job EXCEPT ![p] = j]
    <2>1. /\ j \in Jobs /\ j.at = place /\ j.n = job[p].n /\ j.kind = job[p].kind
          /\ j.asked = job[p].asked /\ j.result = job[p].result
      BY <1>2 DEF Jobs, Places
    <2>2. job[p].result # "true"
      BY DEF IInv, ReportsAreTrue, At
    <2>3. job' = [job EXCEPT ![p] = j]
      BY <1>2 DEF Goto, Typed
    <2> QED BY <1>2, <2>1, <2>2, <2>3 DEF ProperJob, Continues
  <1>4. /\ t \in Transactions /\ t.page = p /\ t.n = job[p].n /\ t.kind = kind /\ Proper(t)
    BY <1>2 DEF Sent, Transactions, Typed, Proper, IInv, JobsProper, At, Kinds
  <1>5. /\ mempool' \in Seq(Transactions) /\ Len(mempool') = last /\ Len(mempool) \in Nat
        /\ mempool'[last] = t /\ \A i \in 1..Len(mempool) : mempool'[i] = mempool[i]
    <2> HIDE DEF t
    <2> QED BY <1>2, <1>4 DEF Typed, t
  <1>6. job' \in [Pages -> Jobs] /\ JobsProper' /\ ReportsAreTrue'
    BY <1>1, <1>2, <1>3, JobsStill DEF IInv
  <1>7. Typed'
    BY <1>1, <1>2, <1>5, <1>6 DEF Typed
  <1>8. job'[p] = j /\ j.at = place /\ j.n = job[p].n /\ j.kind = job[p].kind
    BY <1>2, <1>3 DEF Typed, Jobs
  <1> HIDE DEF j, t
  <1>9. \A i \in 1..last : i = last \/ i \in 1..Len(mempool)
    BY <1>5
  <1>10. TransactionsProper' /\ AllowancesProper'
    <2>1. \A i \in 1..last : Proper(mempool'[i])
      BY <1>4, <1>5, <1>9 DEF IInv, TransactionsProper
    <2>2. \A i \in 1..Len(mempool') : Proper(mempool[i])'
      BY <1>5, <2>1 DEF Proper
    <2> QED BY <1>1, <2>2 DEF IInv, TransactionsProper, AllowancesProper
  <1>11. \A s : s.page \in Pages /\ s.n \in Nat /\ Belongs(s) => Belongs(s)'
    BY <1>2, <1>3, BelongsStill
  <1>12. \A i \in 1..Len(mempool) : Belongs(mempool[i])'
    <2> SUFFICES ASSUME NEW i \in 1..Len(mempool) PROVE Belongs(mempool[i])'
      OBVIOUS
    <2>1. mempool[i].page \in Pages /\ mempool[i].n \in Nat
      BY <1>2, TransactionFields DEF Transactions
    <2>2. Belongs(mempool[i])
      BY DEF IInv, SentOnce
    <2>3. mempool'[i] = mempool[i]
      BY <1>5
    <2> QED BY <1>2, <1>3, <2>1, <2>2, <2>3, BelongsStill DEF Belongs
  <1>13. \A s : s = t => Belongs(s)'
    <2>1. job'[p].n = t.n /\ t.n \in Nat
      BY <1>2, <1>4, <1>8
    <2>2. t.kind = job'[p].kind => job'[p].at = "sent"
      BY <1>2, <1>4, <1>8 DEF Kinds
    <2> QED BY <1>4, <2>1, <2>2 DEF Belongs
  <1>14. \A s \in mined : Belongs(s)'
    <2> SUFFICES ASSUME NEW s \in mined PROVE Belongs(s)'
      OBVIOUS
    <2>1. s.page \in Pages /\ s.n \in Nat /\ Belongs(s)
      BY <1>2, TransactionFields DEF MinedTransactions, IInv, SentOnce
    <2> QED BY <1>2, <1>3, <2>1, BelongsStill
  <1>15. \A s : Belongs(s) => ~Same(s, t) /\ ~Same(t, s)
    BY <1>4 DEF Belongs, Same
  <1>16. SentOnce'
    <2>1. \A i \in 1..Len(mempool') : Belongs(mempool[i])'
      <3> SUFFICES ASSUME NEW i \in 1..last PROVE Belongs(mempool[i])'
        BY <1>5
      <3>1. CASE i = last
        BY <1>5, <1>13, <3>1 DEF Belongs
      <3>2. CASE i \in 1..Len(mempool)
        BY <1>12, <3>2
      <3> QED BY <1>9, <3>1, <3>2
    <2>2. ASSUME NEW i \in 1..last, NEW k \in 1..last, Same(mempool'[i], mempool'[k])
          PROVE  i = k
      <3>1. CASE i \in 1..Len(mempool) /\ k \in 1..Len(mempool)
        BY <1>5, <2>2, <3>1 DEF IInv, SentOnce
      <3>2. CASE i = last /\ k \in 1..Len(mempool)
        BY <1>5, <1>15, <2>2, <3>2 DEF IInv, SentOnce
      <3>3. CASE k = last /\ i \in 1..Len(mempool)
        BY <1>5, <1>15, <2>2, <3>3 DEF IInv, SentOnce
      <3> QED BY <1>9, <3>1, <3>2, <3>3
    <2>3. ASSUME NEW i \in 1..last, NEW s \in mined
          PROVE  ~Same(mempool'[i], s)
      BY <1>5, <1>9, <1>15 DEF IInv, SentOnce
    <2>4. \A s, r \in mined : Same(s, r) => s = r
      BY DEF IInv, SentOnce
    <2> QED BY <1>1, <1>5, <1>14, <2>1, <2>2, <2>3, <2>4 DEF SentOnce, Same
  <1> QED BY <1>6, <1>7, <1>10, <1>16 DEF IInv

\* The steps of one page.
LEMMA PageStep ==
    ASSUME IInv, NEW p \in Pages, Confirm(p) \/ Step(p) \/ ActionFails(p)
    PROVE  IInv'
  <1>1. /\ Typed /\ job \in [Pages -> Jobs] /\ job[p] \in Jobs /\ job[p].at \in Places
        /\ job[p].n \in 0..MAX_ACTIONS /\ job[p].kind \in Kinds /\ job[p].asked \in Nat
        /\ job[p].result \in {"none", "true", "false"} /\ MAX_ACTIONS \in Nat
        /\ job[p].amount \in Nat
    BY JobFields, UnitAssumption DEF IInv, Typed
  <1>2. /\ ~At(p, "idle") => job[p].n # 0 /\ job[p].asked \in Asks
        /\ job[p].at \in {"allowance", "approve"} => job[p].amount = job[p].asked * UNIT
    BY DEF IInv, JobsProper
  <1>3. ~At(p, "idle") => job[p].result # "true"
    BY DEF IInv, ReportsAreTrue
  <1>4. \A x \in Asks : x * UNIT \in Nat /\ x * FALLBACK \in Nat
    BY UnitAssumption
  \* another place in the same action
  <1>5. ASSUME NEW place \in Places \ {"approve", "send"}, NEW amount \in Nat,
               job' = [job EXCEPT ![p].at = place, ![p].amount = amount], ~At(p, "idle"),
               ~At(p, "sent"), place \in {"allowance", "approve"} => amount = job[p].asked * UNIT,
               UNCHANGED <<signer, mempool, mined, chain>>, place # "idle"
        PROVE  IInv'
    <2> DEFINE j == [job[p] EXCEPT !.at = place, !.amount = amount]
    <2>1. job' = [job EXCEPT ![p] = j]
      BY <1>1, <1>5
    <2>2. ProperJob(p, j) /\ Continues(p, j)
      BY <1>1, <1>2, <1>3, <1>5 DEF ProperJob, Continues, Jobs, At
    <2> HIDE DEF j
    <2> QED BY <1>5, <2>1, <2>2, JobChange
  \* the end of the action
  <1>6. ASSUME NEW result \in {"true", "false"}, Return(p, result), ~At(p, "idle"),
               result = "true" => Mined(p, job[p].kind, {"ok"}),
               UNCHANGED <<signer, mempool, mined, chain>>
        PROVE  IInv'
    <2> DEFINE j == [job[p] EXCEPT !.at = "idle", !.result = result]
    <2>1. job' = [job EXCEPT ![p] = j]
      BY <1>1, <1>6 DEF Return
    <2>2. ProperJob(p, j) /\ Continues(p, j)
      BY <1>1, <1>2, <1>6 DEF ProperJob, Continues, Jobs, At, Mined, Places
    <2> HIDE DEF j
    <2> QED BY <1>6, <2>1, <2>2, JobChange
  <1>7. CASE Confirm(p)
    <2>1. PICK kind \in Kinds, asked \in Asks :
            job' = [job EXCEPT ![p] =
                      [at |-> IF kind \in Pulling THEN "approveToken" ELSE "decimals",
                       n |-> job[p].n + 1, kind |-> kind, asked |-> asked, amount |-> 0,
                       result |-> "none"]]
      BY <1>7 DEF Confirm
    <2> DEFINE j == [at |-> IF kind \in Pulling THEN "approveToken" ELSE "decimals",
                     n |-> job[p].n + 1, kind |-> kind, asked |-> asked, amount |-> 0,
                     result |-> "none"]
    <2>2. job[p].n + 1 \in 0..MAX_ACTIONS
      BY <1>1, <1>7 DEF Confirm
    <2>3. ProperJob(p, j) /\ Continues(p, j)
      BY <1>1, <2>2, UnitAssumption DEF ProperJob, Continues, Jobs, Places
    <2>4. job' = [job EXCEPT ![p] = j] /\ UNCHANGED <<signer, mempool, mined, chain>>
      BY <1>7, <2>1 DEF Confirm
    <2> HIDE DEF j
    <2> QED BY <2>3, <2>4, JobChange
  <1>8. CASE ApproveDecimals(p)
    <2>1. /\ At(p, "approveToken") /\ UNCHANGED <<signer, mempool, mined, chain>>
          /\ job' = [job EXCEPT ![p].at = "allowance", ![p].amount = job[p].asked * UNIT]
      BY <1>8 DEF ApproveDecimals, approveAmount
    <2>2. job[p].asked * UNIT \in Nat
      BY <1>2, <1>4, <2>1 DEF At
    <2> QED BY <1>5, <2>1, <2>2 DEF Places, At
  <1>9. CASE ReadAllowance(p)
    <2> DEFINE place == IF allowance[signer] >= job[p].amount THEN "decimals" ELSE "approve"
               j == [job[p] EXCEPT !.at = place]
    <2>1. /\ At(p, "allowance") /\ UNCHANGED <<signer, mempool, mined, chain>>
          /\ job' = [job EXCEPT ![p].at = place]
      BY <1>9 DEF ReadAllowance, Goto
    <2>2. place \in {"decimals", "approve"}
      OBVIOUS
    <2> HIDE DEF place
    <2>3. job' = [job EXCEPT ![p] = j]
      BY <1>1, <2>1
    <2>4. ProperJob(p, j) /\ Continues(p, j)
      BY <1>1, <1>2, <1>3, <2>1, <2>2 DEF ProperJob, Continues, Jobs, At, Places
    <2> HIDE DEF j
    <2> QED BY <2>1, <2>3, <2>4, JobChange
  <1>10. CASE SendApproval(p)
    BY <1>10, SendChange DEF SendApproval, At
  <1>11. CASE ApprovalMined(p)
    <2>1. /\ At(p, "approving") /\ UNCHANGED <<signer, mempool, mined, chain>>
          /\ job' = [job EXCEPT ![p].at = "decimals"]
      BY <1>11 DEF ApprovalMined, Goto
    <2>2. job' = [job EXCEPT ![p].at = "decimals", ![p].amount = job[p].amount]
      BY <1>1, <2>1 DEF Jobs
    <2>3. "decimals" \in Places \ {"approve", "send"}
      BY DEF Places
    <2>4. ~At(p, "idle") /\ ~At(p, "sent")
      BY <2>1 DEF At
    <2> QED BY <1>1, <1>5, <2>1, <2>2, <2>3, <2>4
  <1>12. CASE FormatAmount(p)
    <2>1. PICK amount \in {job[p].asked * UNIT, job[p].asked * FALLBACK} :
             job' = [job EXCEPT ![p].at = "send", ![p].amount = amount]
      BY <1>12 DEF FormatAmount, formatAmount
    <2> DEFINE j == [job[p] EXCEPT !.at = "send", !.amount = amount]
    <2>2. At(p, "decimals") /\ UNCHANGED <<signer, mempool, mined, chain>>
      BY <1>12 DEF FormatAmount
    <2>3. amount \in Nat
      BY <1>2, <1>4, <2>2 DEF At
    <2>4. job' = [job EXCEPT ![p] = j]
      BY <1>1, <2>1
    <2>5. ProperJob(p, j) /\ Continues(p, j)
      BY <1>1, <1>2, <1>3, <2>1, <2>2, <2>3 DEF ProperJob, Continues, Jobs, At, Places
    <2> HIDE DEF j
    <2> QED BY <2>2, <2>4, <2>5, JobChange
  <1>13. CASE SendAction(p)
    BY <1>13, SendChange DEF SendAction, At
  <1>14. CASE ActionMined(p)
    BY <1>6, <1>14 DEF ActionMined, At
  <1>15. CASE Reverted(p) \/ ActionFails(p)
    BY <1>6, <1>15 DEF Reverted, ActionFails, At
  <1> QED BY <1>7, <1>8, <1>9, <1>10, <1>11, <1>12, <1>13, <1>14, <1>15 DEF Step


-----------------------------------------------------------------------------
\* The contract executes what the sender can pay for and was allowed to pull.
LEMMA AcceptsPayable ==
    ASSUME Typed, NEW t \in Transactions, "ok" \in Accepts(t)
    PROVE  /\ t.kind \in Pulling => /\ allowance[t.from] >= t.amount
                                    /\ balance[t.from] >= t.amount
           /\ t.kind = "repay" => borrows[t.from] >= t.amount
           /\ t.kind = "withdraw" => deposits[t.from] >= t.amount
  <1> DEFINE a == t.from
  <1>1. /\ t.amount \in Nat /\ allowance[a] \in Nat /\ balance[a] \in Nat
        /\ borrows[a] \in Nat /\ deposits[a] \in Nat /\ t.kind \in Kinds \cup {"approve"}
    BY DEF Typed, Transactions
  <1> HIDE DEF a
  <1>2. CASE t.kind = "deposit"
    BY <1>1, <1>2 DEF Accepts, Pulling, a
  <1>3. CASE t.kind = "repay"
    BY <1>1, <1>3 DEF Accepts, Pulling, a
  <1>4. CASE t.kind = "withdraw"
    BY <1>1, <1>4 DEF Accepts, Pulling, a
  <1> QED BY <1>1, <1>2, <1>3, <1>4 DEF Kinds, Pulling

\* It answers with one of the outcomes.
LEMMA AcceptsOutcomes ==
    ASSUME NEW t, NEW outcome \in Accepts(t)
    PROVE  outcome \in Outcomes
  BY DEF Accepts, Outcomes

\* Adding to an account's number.
LEMMA AddTyped ==
    ASSUME NEW f \in [Accounts -> Nat], NEW a \in Accounts, NEW x \in Int, f[a] + x \in Nat
    PROVE  /\ Add(f, a, x) \in [Accounts -> Nat] /\ Add(f, a, x)[a] = f[a] + x
           /\ \A b \in Accounts \ {a} : Add(f, a, x)[b] = f[b]
  BY DEF Add

\* What is executed leaves no account below zero and no allowance that is enough for an
\* amount formatted with the fallback.
LEMMA ExecuteKeeps ==
    ASSUME Typed, AllowancesProper, NEW t \in Transactions, Proper(t), "ok" \in Accepts(t),
           Execute(t)
    PROVE  /\ balance' \in [Accounts -> Nat] /\ allowance' \in [Accounts -> Nat]
           /\ deposits' \in [Accounts -> Nat] /\ borrows' \in [Accounts -> Nat]
           /\ AllowancesProper'
  <1> DEFINE a == t.from
             x == t.amount
             out == IF t.kind \in Pulling THEN -x ELSE x
  <1>1. /\ a \in Accounts /\ x \in Nat /\ t.kind \in Kinds \cup {"approve"} /\ t.asked \in Asks
        /\ balance \in [Accounts -> Nat] /\ allowance \in [Accounts -> Nat]
        /\ deposits \in [Accounts -> Nat] /\ borrows \in [Accounts -> Nat]
    BY DEF Typed, Transactions
  <1>2. /\ t.kind \in Pulling => allowance[a] >= x /\ balance[a] >= x
        /\ t.kind = "repay" => borrows[a] >= x
        /\ t.kind = "withdraw" => deposits[a] >= x
    BY AcceptsPayable
  <1>3. CASE t.kind = "approve"
    <2>1. /\ allowance' = [allowance EXCEPT ![a] = x] /\ UNCHANGED <<balance, deposits, borrows>>
      BY <1>3 DEF Execute
    <2>2. x = t.asked * UNIT
      BY <1>3 DEF Proper
    <2>3. FALLBACK = UNIT \/ \A y \in Asks : x < y * FALLBACK
      BY <1>1, <2>2, FallbackAssumption, UnitAssumption
    <2>4. AllowancesProper'
      BY <1>1, <2>1, <2>3 DEF AllowancesProper
    <2> QED BY <1>1, <2>1, <2>4
  <1>4. CASE t.kind # "approve"
    <2>1. /\ balance' = Add(balance, a, out)
          /\ allowance' = IF t.kind \in Pulling THEN Add(allowance, a, -x) ELSE allowance
          /\ deposits' = IF t.kind \in {"deposit", "withdraw"} THEN Add(deposits, a, -out)
                         ELSE deposits
          /\ borrows' = IF t.kind \in {"borrow", "repay"} THEN Add(borrows, a, out) ELSE borrows
      BY <1>4 DEF Execute
    <2>2. out \in Int /\ -out \in Int /\ -x \in Int
      BY <1>1
    <2>3. balance[a] + out \in Nat
      BY <1>1, <1>2
    <2>4. balance' \in [Accounts -> Nat]
      BY <1>1, <2>1, <2>2, <2>3, AddTyped
    <2>5. t.kind \in {"deposit", "withdraw"} => deposits[a] + (-out) \in Nat
      BY <1>1, <1>2 DEF Pulling
    <2>6. deposits' \in [Accounts -> Nat]
      BY <1>1, <2>1, <2>2, <2>5, AddTyped
    <2>7. t.kind \in {"borrow", "repay"} => borrows[a] + out \in Nat
      BY <1>1, <1>2 DEF Pulling
    <2>8. borrows' \in [Accounts -> Nat]
      BY <1>1, <2>1, <2>2, <2>7, AddTyped
    <2>9. allowance' \in [Accounts -> Nat]
          /\ \A b \in Accounts : allowance'[b] <= allowance[b]
      <3>1. CASE t.kind \in Pulling
        <4>1. allowance[a] + (-x) \in Nat
          BY <1>1, <1>2, <3>1
        <4>2. allowance' = Add(allowance, a, -x)
          BY <2>1, <3>1
        <4>3. /\ Add(allowance, a, -x) \in [Accounts -> Nat]
              /\ Add(allowance, a, -x)[a] = allowance[a] + (-x)
              /\ \A b \in Accounts \ {a} : Add(allowance, a, -x)[b] = allowance[b]
          BY <1>1, <2>2, <4>1, AddTyped
        <4>4. \A b \in Accounts : allowance'[b] <= allowance[b]
          <5> SUFFICES ASSUME NEW b \in Accounts PROVE allowance'[b] <= allowance[b]
            OBVIOUS
          <5>1. CASE b = a
            BY <1>1, <4>2, <4>3, <5>1
          <5>2. CASE b # a
            BY <1>1, <4>2, <4>3, <5>2
          <5> QED BY <5>1, <5>2
        <4> QED BY <4>2, <4>3, <4>4
      <3>2. CASE t.kind \notin Pulling
        BY <1>1, <2>1, <3>2
      <3> QED BY <3>1, <3>2
    <2>10. AllowancesProper'
      <3> SUFFICES ASSUME FALLBACK # UNIT, NEW b \in Accounts, NEW y \in Asks
                   PROVE  allowance'[b] < y * FALLBACK
        BY DEF AllowancesProper
      <3>1. allowance[b] < y * FALLBACK /\ allowance'[b] <= allowance[b]
        BY <2>9 DEF AllowancesProper
      <3>2. y * FALLBACK \in Nat /\ allowance[b] \in Nat /\ allowance'[b] \in Nat
        BY <1>1, <2>9, UnitAssumption
      <3> QED BY <3>1, <3>2
    <2> QED BY <2>4, <2>6, <2>8, <2>9, <2>10
  <1> QED BY <1>3, <1>4

\* Mining takes one transaction out of the mempool and leaves the order of the others.
LEMMA MempoolShrinks ==
    ASSUME Typed, NEW i \in 1..Len(mempool),
           mempool' = [k \in 1..(Len(mempool) - 1) |-> mempool[IF k < i THEN k ELSE k + 1]]
    PROVE  /\ mempool' \in Seq(Transactions) /\ Len(mempool') = Len(mempool) - 1
           /\ \A k \in 1..(Len(mempool) - 1) :
                 /\ mempool'[k] = mempool[IF k < i THEN k ELSE k + 1]
                 /\ (IF k < i THEN k ELSE k + 1) \in 1..Len(mempool)
                 /\ (IF k < i THEN k ELSE k + 1) # i
  <1> DEFINE n == Len(mempool)
             e(k) == IF k < i THEN k ELSE k + 1
  <1>1. n \in Nat /\ i \in 1..n /\ \A k \in 1..n : mempool[k] \in Transactions
    BY TransactionFields
  <1>2. \A k \in 1..(n - 1) : e(k) \in 1..n /\ e(k) # i
    BY <1>1
  <1>3. mempool' = [k \in 1..(n - 1) |-> mempool[e(k)]]
    OBVIOUS
  <1> HIDE DEF n, e
  <1>4. mempool' \in [1..(n - 1) -> Transactions] /\ n - 1 \in Nat
    BY <1>1, <1>2, <1>3
  <1>5. \A m \in Nat : \A s \in [1..m -> Transactions] : s \in Seq(Transactions) /\ Len(s) = m
    <2> SUFFICES ASSUME NEW m \in Nat, NEW s \in [1..m -> Transactions]
                 PROVE  s \in Seq(Transactions) /\ Len(s) = m
      OBVIOUS
    <2>1. s \in UNION {[1..k -> Transactions] : k \in Nat}
      OBVIOUS
    <2>2. s \in Seq(Transactions)
      BY <2>1, SeqDef, Zenon
    <2>3. Len(s) \in Nat /\ DOMAIN s = 1..Len(s) /\ DOMAIN s = 1..m
      BY <2>2, LenProperties
    <2> QED BY <2>2, <2>3
  <1>6. mempool' \in Seq(Transactions) /\ Len(mempool') = n - 1
    BY <1>4, <1>5
  <1>7. \A k \in 1..(n - 1) : mempool'[k] = mempool[e(k)]
    BY <1>3
  <1> QED BY <1>2, <1>6, <1>7 DEF n, e

LEMMA MineStep ==
    ASSUME IInv, Mine
    PROVE  IInv'
  <1> DEFINE n == Len(mempool)
             e(k, i) == IF k < i THEN k ELSE k + 1
  <1>1. PICK i \in 1..n :
          /\ mempool' = [k \in 1..(n - 1) |-> mempool[e(k, i)]]
          /\ \E outcome \in Accepts(mempool[i]) :
               /\ mined' = mined \cup
                    {[page |-> mempool[i].page, n |-> mempool[i].n, kind |-> mempool[i].kind,
                      from |-> mempool[i].from, asked |-> mempool[i].asked,
                      amount |-> mempool[i].amount, outcome |-> outcome]}
               /\ IF outcome = "ok" THEN Execute(mempool[i]) ELSE UNCHANGED chain
          /\ UNCHANGED <<signer, job>>
    BY DEF Mine
  <1> DEFINE t == mempool[i]
  <1>2. PICK outcome \in Accepts(t) :
          /\ mined' = mined \cup {[page |-> t.page, n |-> t.n, kind |-> t.kind, from |-> t.from,
                                   asked |-> t.asked, amount |-> t.amount, outcome |-> outcome]}
          /\ IF outcome = "ok" THEN Execute(t) ELSE UNCHANGED chain
    BY <1>1
  <1> DEFINE r == [page |-> t.page, n |-> t.n, kind |-> t.kind, from |-> t.from,
                   asked |-> t.asked, amount |-> t.amount, outcome |-> outcome]
  <1>3. /\ Typed /\ t \in Transactions /\ n \in Nat /\ Proper(t) /\ Belongs(t)
        /\ \A k \in 1..n : mempool[k] \in Transactions
    BY TransactionFields DEF IInv, TransactionsProper, SentOnce
  <1>4. /\ mempool' \in Seq(Transactions) /\ Len(mempool') = n - 1
        /\ \A k \in 1..(n - 1) : /\ mempool'[k] = mempool[e(k, i)]
                                 /\ e(k, i) \in 1..n /\ e(k, i) # i
    BY <1>1, <1>3, MempoolShrinks
  <1>5. r \in MinedTransactions
    <2>1. outcome \in Outcomes
      BY AcceptsOutcomes
    <2> HIDE DEF t
    <2> QED BY <1>3, <2>1 DEF Transactions, MinedTransactions
  <1>6. /\ r.page = t.page /\ r.n = t.n /\ r.kind = t.kind /\ r.asked = t.asked
        /\ r.amount = t.amount /\ r.outcome = outcome
    OBVIOUS
  <1>7. mined' = mined \cup {r} /\ signer' = signer /\ job' = job
    BY <1>1, <1>2
  <1> HIDE DEF r, t, n
  <1>8. /\ balance' \in [Accounts -> Nat] /\ allowance' \in [Accounts -> Nat]
        /\ deposits' \in [Accounts -> Nat] /\ borrows' \in [Accounts -> Nat]
        /\ AllowancesProper'
    <2>1. CASE outcome = "ok"
      BY <1>2, <1>3, <2>1, ExecuteKeeps DEF IInv
    <2>2. CASE outcome # "ok"
      <3>1. /\ balance' = balance /\ allowance' = allowance /\ deposits' = deposits
            /\ borrows' = borrows
        BY <1>2, <2>2 DEF chain
      <3> QED BY <3>1 DEF IInv, Typed, AllowancesProper
    <2> QED BY <2>1, <2>2
  <1>9. Typed'
    BY <1>3, <1>4, <1>5, <1>7, <1>8 DEF Typed
  <1>10. JobsProper' /\ ReportsAreTrue'
    <2>1. JobsProper'
      BY <1>7 DEF IInv, JobsProper, At
    <2>2. ReportsAreTrue'
      BY <1>7 DEF IInv, ReportsAreTrue, At, Mined
    <2> QED BY <2>1, <2>2
  <1>11. TransactionsProper'
    <2>1. r.kind \in Pulling /\ r.outcome = "ok" => r.amount = r.asked * UNIT
      <3> SUFFICES ASSUME r.kind \in Pulling, r.outcome = "ok" PROVE t.amount = t.asked * UNIT
        BY <1>6
      <3> SUFFICES ASSUME FALLBACK # UNIT PROVE t.amount = t.asked * UNIT
        BY <1>3, <1>6 DEF Proper, Pulling
      <3>1. allowance[t.from] >= t.amount
        BY <1>2, <1>3, <1>6, AcceptsPayable
      <3>2. allowance[t.from] < t.asked * FALLBACK
        BY <1>3 DEF IInv, AllowancesProper, Transactions
      <3>3. allowance[t.from] \in Nat /\ t.asked * FALLBACK \in Nat
        <4>1. t.asked \in Nat /\ t.from \in Accounts
          BY <1>3, UnitAssumption DEF Transactions
        <4> QED BY <1>3, <4>1, UnitAssumption DEF Typed
      <3>4. t.amount # t.asked * FALLBACK
        BY <3>1, <3>2, <3>3
      <3>5. t.kind # "approve"
        BY <1>6 DEF Pulling
      <3> QED BY <1>3, <3>4, <3>5 DEF Proper
    <2>2. \A k \in 1..Len(mempool') : Proper(mempool[k])'
      <3>1. \A k \in 1..(n - 1) : Proper(mempool'[k])
        BY <1>4 DEF IInv, TransactionsProper, n
      <3> QED BY <1>4, <3>1 DEF Proper
    <2> QED BY <1>7, <2>1, <2>2 DEF IInv, TransactionsProper
  <1>12. SentOnce'
    <2>1. \A s : Belongs(s) <=> Belongs(s)'
      BY <1>7 DEF Belongs
    <2>2. \A k \in 1..Len(mempool') : Belongs(mempool[k])'
      <3>1. \A k \in 1..(n - 1) : Belongs(mempool'[k])
        BY <1>4 DEF IInv, SentOnce, n
      <3> QED BY <1>4, <1>7, <3>1 DEF Belongs
    <2>3. \A s \in mined' : Belongs(s)'
      <3>1. Belongs(r)
        BY <1>3, <1>6 DEF Belongs
      <3>2. \A s \in mined' : Belongs(s)
        BY <1>7, <3>1 DEF IInv, SentOnce
      <3> QED BY <2>1, <3>2
    <2>4. \A s : (Same(s, r) <=> Same(s, t)) /\ (Same(r, s) <=> Same(t, s))
      BY <1>6 DEF Same
    <2>5. ASSUME NEW k \in 1..(n - 1), NEW l \in 1..(n - 1), Same(mempool'[k], mempool'[l])
          PROVE  k = l
      <3>1. e(k, i) = e(l, i)
        BY <1>4, <2>5 DEF IInv, SentOnce, n
      <3> QED BY <1>1, <1>3, <3>1 DEF n
    <2>6. ASSUME NEW k \in 1..(n - 1), NEW s \in mined'
          PROVE  ~Same(mempool'[k], s)
      <3>1. /\ mempool'[k] = mempool[e(k, i)] /\ e(k, i) \in 1..Len(mempool) /\ e(k, i) # i
        BY <1>4 DEF n
      <3>2. ~Same(mempool[e(k, i)], mempool[i])
        BY <1>1, <3>1 DEF IInv, SentOnce, n
      <3>3. CASE s \in mined
        BY <3>1, <3>3 DEF IInv, SentOnce
      <3>4. CASE s = r
        BY <2>4, <3>1, <3>2, <3>4 DEF t
      <3> QED BY <1>7, <3>3, <3>4
    <2>7. ASSUME NEW s \in mined', NEW q \in mined', Same(s, q)
          PROVE  s = q
      <3>1. \A b \in mined : ~Same(t, b) /\ ~Same(b, t)
        <4>1. \A b \in mined : ~Same(t, b)
          BY <1>1 DEF IInv, SentOnce, t, n
        <4> QED BY <4>1 DEF Same
      <3> QED BY <1>7, <2>4, <2>7, <3>1 DEF IInv, SentOnce
    <2> QED BY <1>4, <2>2, <2>3, <2>5, <2>6, <2>7 DEF SentOnce, Same
  <1> QED BY <1>8, <1>9, <1>10, <1>11, <1>12 DEF IInv


-----------------------------------------------------------------------------
LEMMA InitIInv == Init => IInv
  <1> SUFFICES ASSUME Init PROVE IInv
    OBVIOUS
  <1>1. NoJob \in Jobs /\ NoJob.at = "idle" /\ NoJob.result = "none"
    BY UnitAssumption DEF NoJob, Jobs, Places, Kinds
  <1>2. mempool \in Seq(Transactions) /\ Len(mempool) = 0 /\ mined = {}
    BY EmptySeq DEF Init
  <1>3. Typed
    BY <1>1, <1>2, UnitAssumption DEF Init, Typed
  <1>4. \A p \in Pages : job[p] = NoJob
    BY DEF Init
  <1>5. JobsProper /\ ReportsAreTrue
    BY <1>1, <1>4 DEF JobsProper, ReportsAreTrue, At
  <1>6. TransactionsProper /\ SentOnce
    BY <1>2 DEF TransactionsProper, SentOnce
  <1>7. AllowancesProper
    BY UnitAssumption DEF Init, AllowancesProper
  <1> QED BY <1>3, <1>5, <1>6, <1>7 DEF IInv

LEMMA NextIInv == IInv /\ [Next]_vars => IInv'
  <1> SUFFICES ASSUME IInv, [Next]_vars PROVE IInv'
    OBVIOUS
  <1>1. CASE SwitchAccount
    <2>1. /\ signer' \in Accounts
          /\ UNCHANGED <<job, mempool, mined, balance, allowance, deposits, borrows>>
      BY <1>1 DEF SwitchAccount, chain
    <2> QED BY <2>1 DEF IInv, Typed, JobsProper, At, TransactionsProper, Proper,
                        AllowancesProper, SentOnce, Belongs, Same, ReportsAreTrue, Mined
  <1>2. CASE UNCHANGED vars
    <2>1. UNCHANGED <<signer, job, mempool, mined, balance, allowance, deposits, borrows>>
      BY <1>2 DEF vars, chain
    <2> QED BY <2>1 DEF IInv, Typed, JobsProper, At, TransactionsProper, Proper,
                        AllowancesProper, SentOnce, Belongs, Same, ReportsAreTrue, Mined
  <1> QED BY <1>1, <1>2, MineStep, PageStep DEF Next

THEOREM Invariant == Spec => []IInv
  BY InitIInv, NextIInv, PTL DEF Spec

\* No account holds less than nothing and no page leaves the course of an action,
\* whatever is mined in which order and whoever the wallet exposes.
THEOREM TypeCorrect == Spec => []TypeOK
  <1>1. IInv => TypeOK
    <2> SUFFICES ASSUME IInv PROVE TypeOK
      OBVIOUS
    <2>1. Typed
      BY DEF IInv
    <2>2. \A p \in Pages : /\ job[p].at \in Places /\ job[p].n \in 0..MAX_ACTIONS
                           /\ job[p].kind \in Kinds
                           /\ job[p].result \in {"none", "true", "false"}
      BY <2>1, JobFields
    <2>3. /\ \A i \in 1..Len(mempool) : mempool[i] \in Transactions
          /\ \A t \in mined : t.outcome \in Outcomes
      BY <2>1, TransactionFields DEF MinedTransactions
    <2>4. {balance, allowance, deposits, borrows} \subseteq [Accounts -> Nat]
      BY <2>1 DEF Typed
    <2> QED BY <2>1, <2>2, <2>3, <2>4 DEF TypeOK, Typed, Places
  <1> QED BY Invariant, <1>1, PTL

\* A deposit or a repayment that is executed takes what was typed: an amount formatted
\* with the fallback exceeds every allowance an approval has left.
THEOREM PullsTheTyped == Spec => []PullsWhatWasAsked
  <1>1. IInv => PullsWhatWasAsked
    BY DEF IInv, TransactionsProper, PullsWhatWasAsked, Executed
  <1> QED BY Invariant, <1>1, PTL

\* An action that reports success has exactly one executed transaction.
THEOREM SuccessIsDone == Spec => []SuccessMeansDone
  <1>1. IInv => SuccessMeansDone
    <2> SUFFICES ASSUME IInv, NEW p \in Pages, job[p].result = "true"
                 PROVE  Cardinality({t \in Executed : /\ t.page = p /\ t.n = job[p].n
                                                      /\ t.kind = job[p].kind}) = 1
      BY DEF SuccessMeansDone
    <2> DEFINE its == {t \in Executed : t.page = p /\ t.n = job[p].n /\ t.kind = job[p].kind}
    <2>1. job[p].kind # "approve"
      BY JobFields DEF IInv, Kinds
    <2>2. PICK t \in mined : /\ t.page = p /\ t.n = job[p].n /\ t.kind = job[p].kind
                             /\ t.outcome = "ok"
      BY DEF IInv, ReportsAreTrue, Mined
    <2>3. t \in its
      BY <2>2 DEF Executed
    <2>4. \A s \in its : s = t
      BY <2>1, <2>2 DEF IInv, SentOnce, Same, Executed
    <2>5. its = {t}
      BY <2>3, <2>4
    <2> QED BY <2>5, FS_Singleton
  <1> QED BY Invariant, <1>1, PTL
=============================================================================
