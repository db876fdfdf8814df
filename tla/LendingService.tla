--------------------------- MODULE LendingService ---------------------------
(***************************************************************************)
(* The token actions of the web interface (lendingService.ts): each page   *)
(* runs at most one of depositToken, withdrawToken, borrowToken and        *)
(* repayToken at a time, and every await in it is a step of its own.       *)
(* getSigner asks the wallet again before every call, so each call is made *)
(* by the account the wallet exposes at that moment.  One token stands for *)
(* all of them: no call involves two.                                      *)
(*                                                                         *)
(* External, modelled from how the interface uses it: the node, which      *)
(* mines an account's transactions in the order sent and may fail any      *)
(* read, and the lending contract at LENDING_ADDRESS.                      *)
(***************************************************************************)
EXTENDS Integers, Sequences, FiniteSets

CONSTANTS Pages,          \* pages open on the interface
          Accounts,       \* accounts of the wallet
          Asks,           \* amounts the user types, in whole tokens
          UNIT,           \* 10 ^ decimals() of the token
          FALLBACK,       \* 10 ^ 18, used when decimals() cannot be read
          BALANCE,        \* what each account holds of the token
          LIQUIDITY,      \* what the contract would lend to one account
          MAX_ACTIONS     \* bound on the actions confirmed on a page

Kinds == {"deposit", "withdraw", "borrow", "repay"}
Pulling == {"deposit", "repay"}       \* the kinds that need an allowance

ASSUME UnitAssumption ==
    /\ Asks \subseteq Nat \ {0}
    /\ UNIT \in Nat \ {0} /\ FALLBACK \in Nat \ {0}
    /\ BALANCE \in Nat /\ LIQUIDITY \in Nat /\ MAX_ACTIONS \in Nat
\* With fewer than 18 decimals the fallback asks for more than any proper amount.
ASSUME FallbackAssumption ==
    FALLBACK = UNIT \/ \A x, y \in Asks : x * FALLBACK > y * UNIT

VARIABLES
    signer,               \* the account the wallet exposes
    job,                  \* per page: the action in flight
    mempool,              \* transactions sent and not mined, in order
    mined,                \* transactions mined, with their outcome
    balance, allowance, deposits, borrows      \* per account, on chain

chain == <<balance, allowance, deposits, borrows>>
vars == <<signer, job, mempool, mined, chain>>

NoJob == [at |-> "idle", n |-> 0, kind |-> "deposit", asked |-> 0, amount |-> 0,
          result |-> "none"]

Init ==
    /\ signer \in Accounts
    /\ job = [p \in Pages |-> NoJob]
    /\ mempool = <<>> /\ mined = {}
    /\ balance = [a \in Accounts |-> BALANCE]
    /\ allowance = [a \in Accounts |-> 0]
    /\ deposits = [a \in Accounts |-> 0]
    /\ borrows = [a \in Accounts |-> 0]

At(p, step) == job[p].at = step
Goto(p, step) == job' = [job EXCEPT ![p].at = step]
\* The transaction a page sends now, in the name of the account of this moment.
Sent(p, kind) == [page |-> p, n |-> job[p].n, kind |-> kind, from |-> signer,
                  asked |-> job[p].asked, amount |-> job[p].amount]
Mined(p, kind, outcomes) ==
    \E t \in mined : t.page = p /\ t.n = job[p].n /\ t.kind = kind /\ t.outcome \in outcomes
\* mutant: the result is passed on as the contract's outcome
Return_undefined(p, result) == job' = [job EXCEPT ![p].at = "idle", ![p].result = "ok"]

Return(p, result) == job' = [job EXCEPT ![p].at = "idle", ![p].result = result]

Outcomes == {"ok", "allowance", "balance", "refused"}

-----------------------------------------------------------------------------
\* The page disables Confirm while its action runs.
Confirm(p) ==
    /\ At(p, "idle") /\ job[p].n < MAX_ACTIONS
    /\ \E kind \in Kinds, asked \in Asks :
         job' = [job EXCEPT ![p] =
                   [at |-> IF kind \in Pulling THEN "approveToken" ELSE "decimals",
                    n |-> @.n + 1, kind |-> kind, asked |-> asked, amount |-> 0,
                    result |-> "none"]]
    /\ UNCHANGED <<signer, mempool, mined, chain>>

(***************************************************************************)
(* approveToken: here a failure to read decimals() fails the action.       *)
(***************************************************************************)
\* mutant: the approved amount is formatted like all the others
approveAmount_fallback(p) == {job[p].asked * UNIT, job[p].asked * FALLBACK}

approveAmount(p) == {job[p].asked * UNIT}

ApproveDecimals(p) ==
    /\ At(p, "approveToken")
    /\ \E amount \in approveAmount(p) :
         job' = [job EXCEPT ![p].at = "allowance", ![p].amount = amount]
    /\ UNCHANGED <<signer, mempool, mined, chain>>

ReadAllowance(p) ==
    /\ At(p, "allowance")
    /\ Goto(p, IF allowance[signer] >= job[p].amount THEN "decimals" ELSE "approve")
    /\ UNCHANGED <<signer, mempool, mined, chain>>

SendApproval(p) ==
    /\ At(p, "approve") /\ Goto(p, "approving")
    /\ mempool' = Append(mempool, Sent(p, "approve"))
    /\ UNCHANGED <<signer, mined, chain>>

ApprovalMined(p) ==
    /\ At(p, "approving") /\ Mined(p, "approve", {"ok"})
    /\ Goto(p, "decimals")
    /\ UNCHANGED <<signer, mempool, mined, chain>>

(***************************************************************************)
(* The action itself: getTokenDecimals answers 18 when it cannot read.     *)
(***************************************************************************)
formatAmount(p) == {job[p].asked * UNIT, job[p].asked * FALLBACK}

FormatAmount(p) ==
    /\ At(p, "decimals")
    /\ \E amount \in formatAmount(p) :
         job' = [job EXCEPT ![p].at = "send", ![p].amount = amount]
    /\ UNCHANGED <<signer, mempool, mined, chain>>

\* mutant: the action is reported as soon as it is sent
SendAction_unconfirmed(p) ==
    /\ At(p, "send") /\ Return(p, "true")
    /\ mempool' = Append(mempool, Sent(p, job[p].kind))
    /\ UNCHANGED <<signer, mined, chain>>

\* A gas limit is given, so nothing is simulated before the transaction is sent.
SendAction(p) ==
    /\ At(p, "send") /\ Goto(p, "sent")
    /\ mempool' = Append(mempool, Sent(p, job[p].kind))
    /\ UNCHANGED <<signer, mined, chain>>

ActionMined(p) ==
    /\ At(p, "sent") /\ Mined(p, job[p].kind, {"ok"})
    /\ Return(p, "true")
    /\ UNCHANGED <<signer, mempool, mined, chain>>

\* mutant: only the reverted approval is noticed
Reverted_approval(p) ==
    /\ At(p, "approving") /\ Mined(p, "approve", Outcomes \ {"ok"})
    /\ Return(p, "false")
    /\ UNCHANGED <<signer, mempool, mined, chain>>

\* wait() throws when the receipt says that the transaction was reverted.
Reverted(p) ==
    /\ \/ At(p, "approving") /\ Mined(p, "approve", Outcomes \ {"ok"})
       \/ At(p, "sent") /\ Mined(p, job[p].kind, Outcomes \ {"ok"})
    /\ Return(p, "false")
    /\ UNCHANGED <<signer, mempool, mined, chain>>

(***************************************************************************)
(* Every step may throw: a read fails, the user refuses the transaction or *)
(* the receipt cannot be fetched.  The catch clause returns false,         *)
(* whatever is still in the mempool.                                       *)
(***************************************************************************)
ActionFails(p) ==
    /\ ~At(p, "idle")
    /\ Return(p, "false")
    /\ UNCHANGED <<signer, mempool, mined, chain>>

Step(p) ==
    \/ ApproveDecimals(p) \/ ReadAllowance(p) \/ SendApproval(p) \/ ApprovalMined(p)
    \/ FormatAmount(p) \/ SendAction(p) \/ ActionMined(p) \/ Reverted(p)

-----------------------------------------------------------------------------
(***************************************************************************)
(* The chain.                                                              *)
(***************************************************************************)
SwitchAccount ==
    /\ signer' \in Accounts \ {signer}
    /\ UNCHANGED <<job, mempool, mined, chain>>

\* Whether the contract accepts a transaction; it may refuse a loan or a withdrawal.
Accepts(t) ==
    CASE t.kind = "approve" -> {"ok"}
      [] t.kind = "deposit" /\ allowance[t.from] < t.amount -> {"allowance"}
      [] t.kind = "repay" /\ allowance[t.from] < t.amount -> {"allowance"}
      [] t.kind \in Pulling /\ balance[t.from] < t.amount -> {"balance"}
      [] t.kind = "repay" /\ borrows[t.from] < t.amount -> {"refused"}
      [] t.kind = "withdraw" -> {"refused"} \cup (IF deposits[t.from] >= t.amount THEN {"ok"} ELSE {})
      [] t.kind = "borrow" ->
           {"refused"} \cup (IF borrows[t.from] + t.amount <= LIQUIDITY THEN {"ok"} ELSE {})
      [] OTHER -> {"ok"}

Add(f, a, x) == [f EXCEPT ![a] = @ + x]
Execute(t) ==
    LET a == t.from
        x == t.amount
        out == IF t.kind \in Pulling THEN -x ELSE x
    IN IF t.kind = "approve"
       THEN allowance' = [allowance EXCEPT ![a] = x] /\ UNCHANGED <<balance, deposits, borrows>>
       ELSE /\ balance' = Add(balance, a, out)
            /\ allowance' = IF t.kind \in Pulling THEN Add(allowance, a, -x) ELSE allowance
            /\ deposits' = IF t.kind \in {"deposit", "withdraw"} THEN Add(deposits, a, -out) ELSE deposits
            /\ borrows' = IF t.kind \in {"borrow", "repay"} THEN Add(borrows, a, out) ELSE borrows

Mine ==
    \E i \in 1..Len(mempool) :
      LET t == mempool[i]
      IN /\ \A k \in 1..(i - 1) : mempool[k].from # t.from
         /\ mempool' = [k \in 1..(Len(mempool) - 1) |-> mempool[IF k < i THEN k ELSE k + 1]]
         /\ \E outcome \in Accepts(t) :
              /\ mined' = mined \cup {[page |-> t.page, n |-> t.n, kind |-> t.kind, from |-> t.from,
                                       asked |-> t.asked, amount |-> t.amount, outcome |-> outcome]}
              /\ IF outcome = "ok" THEN Execute(t) ELSE UNCHANGED chain
         /\ UNCHANGED <<signer, job>>

Next == SwitchAccount \/ Mine \/ \E p \in Pages : Confirm(p) \/ Step(p) \/ ActionFails(p)

(***************************************************************************)
(* Promises settle and transactions are mined; failures, clicks and        *)
(* account changes never have to happen.                                   *)
(***************************************************************************)
Fairness == WF_vars(Mine) /\ \A p \in Pages : WF_vars(Step(p))
Spec == Init /\ [][Next]_vars /\ Fairness

-----------------------------------------------------------------------------
(***************************************************************************)
(* Properties                                                              *)
(***************************************************************************)
Transactions == [page : Pages, n : 1..MAX_ACTIONS, kind : Kinds \cup {"approve"}, from : Accounts,
                 asked : Asks, amount : Nat]

TypeOK ==
    /\ signer \in Accounts
    /\ \A p \in Pages :
         /\ job[p].at \in {"idle", "approveToken", "allowance", "approve", "approving", "decimals",
                           "send", "sent"}
         /\ job[p].n \in 0..MAX_ACTIONS /\ job[p].kind \in Kinds
         /\ job[p].result \in {"none", "true", "false"}
    /\ \A i \in 1..Len(mempool) : mempool[i] \in Transactions
    /\ \A t \in mined : t.outcome \in Outcomes
    /\ {balance, allowance, deposits, borrows} \subseteq [Accounts -> Nat]

Executed == {t \in mined : t.outcome = "ok"}

(***************************************************************************)
(* A deposit or a repayment never takes another amount than the one typed, *)
(* although its amount is formatted with 18 decimals whenever decimals()   *)
(* cannot be read (lendingService.ts:95-104): the approval of the typed    *)
(* amount, left over or fresh and in whatever account, is in the way.      *)
(***************************************************************************)
PullsWhatWasAsked ==
    \A t \in Executed : t.kind \in Pulling => t.amount = t.asked * UNIT

(***************************************************************************)
(* An action reported as done was executed, once, also when the account    *)
(* was changed, other pages were acting, and earlier tries of it failed    *)
(* (lendingService.ts:160-166).                                            *)
(***************************************************************************)
SuccessMeansDone ==
    \A p \in Pages : job[p].result = "true" =>
        Cardinality({t \in Executed : t.page = p /\ t.n = job[p].n /\ t.kind = job[p].kind}) = 1

(***************************************************************************)
(* The modal, which offers neither Confirm nor Cancel during an action, is *)
(* released in the end: every call returns, also when its transaction was  *)
(* reverted (app/page.tsx:299-309, 585-587).                               *)
(***************************************************************************)
ActionsEnd == \A p \in Pages : ~At(p, "idle") ~> At(p, "idle")

(***************************************************************************)
(* "Format amount with proper decimals" (lendingService.ts:179): what is   *)
(* sent to the contract is the amount typed, in the token's own unit.      *)
(***************************************************************************)
AmountInTokenUnits ==
    \A i \in 1..Len(mempool) : mempool[i].amount = mempool[i].asked * UNIT

(***************************************************************************)
(* "First approve the tokens" (lendingService.ts:148): a deposit or a      *)
(* repayment sent once its amount is approved is not refused for the lack  *)
(* of an allowance.                                                        *)
(***************************************************************************)
ApprovedBeforehand ==
    \A t \in mined : t.kind \in Pulling /\ t.amount = t.asked * UNIT => t.outcome # "allowance"
=============================================================================
