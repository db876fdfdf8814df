----------------------------- MODULE ActionModal -----------------------------
(***************************************************************************)
(* The dialog in which a token action is typed and confirmed, on the       *)
(* Dashboard (app/page.tsx) and on the Markets page (markets/page.tsx),    *)
(* which differ in two things: the Markets dialog has a close button that  *)
(* stays enabled while an action runs, and its page loads the data of the  *)
(* markets itself, when it is mounted and after every action that worked.  *)
(* What the Dashboard loads is in WalletContext.                           *)
(*                                                                         *)
(* The dialog component stays mounted, so its state outlives a closing.    *)
(* Every opening loads the greatest amount again, and nothing cancels the  *)
(* load of the opening before.                                             *)
(***************************************************************************)
EXTENDS Naturals, Bags

CONSTANTS Assets, None,
          MARKETS_PAGE,     \* FALSE on the Dashboard
          MAX_FETCHES       \* bound on the loads of market data in flight

Actions == {"supply", "withdraw", "borrow", "repay"}
ASSUME PageAssumption ==
    None \notin Actions /\ MARKETS_PAGE \in BOOLEAN /\ MAX_FETCHES \in Nat \ {0}

Unknown == [of |-> "zero", asset |-> None]
Unset == [of |-> "nothing", asset |-> None]
Typed == [of |-> "typed", asset |-> None]
Placeholder == [of |-> "placeholder", asset |-> None]

\* getTokenBalance and getDepositedAmount answer "0" when a read fails.
answers(source) == {source, Unknown}

\* The number the dialog is to offer for an action on an asset.
Source(action, asset) ==
    CASE action \in {"supply", "repay"} -> [of |-> "wallet balance", asset |-> asset]
      [] action = "withdraw" -> [of |-> "deposited", asset |-> asset]
      [] OTHER -> Placeholder

VARIABLES
    isOpen, modal,          \* modalState: whether it is open, on what it works
    maxAmount,              \* where the number next to MAX comes from
    amount,                 \* what is typed: nothing, a number, or MAX's number
    loads,                  \* loadMaxAmount calls in flight
    isActionLoading,
    running,                \* a bag: where each handleActionConfirm in flight is
    marketData,             \* what the table shows of each market
    isLoading,              \* the page shows a spinner in place of the table
    fetches                 \* fetchMarketData calls in flight

dialog == <<isOpen, modal, maxAmount, amount, loads>>
table == <<marketData, isLoading, fetches>>
vars == <<dialog, isActionLoading, running, table>>

\* Markets before the first load, or whose reads failed in the last one, show constants.
Shown == {"initial", "fetched"}
Modals == [action : Actions, asset : Assets, market : Shown]
Calls == {"acting", "refreshing"}
Closed == [action |-> None, asset |-> None, market |-> "initial"]
Sources == {Unknown, Placeholder} \cup {Source(m.action, m.asset) : m \in Modals}

Init ==
    /\ isOpen = FALSE /\ modal = Closed
    /\ maxAmount = Unknown /\ amount = Unset /\ loads = {}
    /\ isActionLoading = FALSE /\ running = EmptyBag
    /\ marketData = [a \in Assets |-> "initial"]
    /\ isLoading = MARKETS_PAGE /\ fetches = IF MARKETS_PAGE THEN 1 ELSE 0

(***************************************************************************)
(* openModal / openActionModal, and the effect on [isOpen, asset, action]: *)
(* the amount is cleared, and a borrowing limit is a constant that needs   *)
(* no load.  The dialog keeps the market object that the table has now.    *)
(***************************************************************************)
openModal ==
    /\ ~isOpen /\ ~isLoading
    /\ \E m \in Modals :
         /\ m.market = marketData[m.asset]
         /\ isOpen' = TRUE /\ modal' = m /\ amount' = Unset
         /\ IF m.action = "borrow"
            THEN maxAmount' = Placeholder /\ UNCHANGED loads
            ELSE loads' = loads \cup {Source(m.action, m.asset)} /\ UNCHANGED maxAmount
    /\ UNCHANGED <<isActionLoading, running, table>>

loadMaxAmount ==
    /\ \E s \in loads : loads' = loads \ {s} /\ maxAmount' \in answers(s)
    /\ UNCHANGED <<isOpen, modal, amount, isActionLoading, running, table>>

Typing ==
    /\ isOpen /\ ~isActionLoading
    /\ amount' \in {Typed, maxAmount}
    /\ UNCHANGED <<isOpen, modal, maxAmount, loads, isActionLoading, running, table>>

\* mutant: the dialog is hidden but keeps what it was opened on
closeModal_keeps == isOpen' = FALSE /\ UNCHANGED modal

closeModal == isOpen' = FALSE /\ modal' = Closed

Close ==
    /\ isOpen
    /\ ~isActionLoading \/ MARKETS_PAGE
    /\ closeModal
    /\ UNCHANGED <<maxAmount, amount, loads, isActionLoading, running, table>>

\* mutant: Confirm is enabled as soon as there is an amount
MayConfirm_busy == isOpen /\ amount \notin {Unset, Unknown}

MayConfirm == isOpen /\ amount \notin {Unset, Unknown} /\ ~isActionLoading

Confirm ==
    /\ MayConfirm
    /\ isActionLoading' = TRUE
    /\ running' = running (+) SetToBag({"acting"})
    /\ UNCHANGED <<dialog, table>>

\* mutant: the flag is cleared only when the action succeeds
Release_success(done) == isActionLoading' = (isActionLoading /\ ~done)

Release(done) == isActionLoading' = FALSE

Leaves(at) == BagIn(at, running) /\ running' = running (-) SetToBag({at})

\* The token action of handleActionConfirm answers false or throws.
ActionFails ==
    /\ Leaves("acting")
    /\ Release(FALSE)
    /\ UNCHANGED <<dialog, table>>

\* A success closes whatever the dialog shows now, and then awaits refreshAccountInfo.
ActionSucceeds ==
    /\ BagIn("acting", running)
    /\ running' = (running (-) SetToBag({"acting"})) (+) SetToBag({"refreshing"})
    /\ closeModal
    /\ UNCHANGED <<maxAmount, amount, loads, isActionLoading, table>>

\* The end of handleActionConfirm; the load that it starts is not awaited.
handleActionConfirm ==
    /\ Leaves("refreshing")
    /\ Release(TRUE)
    /\ IF MARKETS_PAGE
       THEN fetches < MAX_FETCHES /\ fetches' = fetches + 1 /\ isLoading' = TRUE
       ELSE UNCHANGED <<fetches, isLoading>>
    /\ UNCHANGED <<dialog, marketData>>

\* A market whose reads failed gets its initial data back; without a wallet nothing
\* is set.
fetchMarketData ==
    /\ fetches > 0 /\ fetches' = fetches - 1 /\ isLoading' = FALSE
    /\ marketData' \in [Assets -> Shown]
    /\ UNCHANGED <<dialog, isActionLoading, running>>

ActionEnds == ActionFails \/ ActionSucceeds \/ handleActionConfirm
Next ==
    \/ openModal \/ loadMaxAmount \/ Typing \/ Close \/ Confirm
    \/ ActionEnds \/ fetchMarketData

\* Reads answer or fail, and token actions return (LendingService!ActionsEnd).
Fairness == WF_vars(loadMaxAmount) /\ WF_vars(ActionEnds) /\ WF_vars(fetchMarketData)
Spec == Init /\ [][Next]_vars /\ Fairness

-----------------------------------------------------------------------------
TypeOK ==
    /\ {isOpen, isActionLoading} \subseteq BOOLEAN
    /\ modal \in Modals \cup {Closed} /\ isOpen = (modal # Closed)
    /\ maxAmount \in Sources /\ amount \in {Unset, Typed} \cup Sources
    /\ loads \subseteq Sources /\ BagToSet(running) \subseteq Calls
    /\ marketData \in [Assets -> Shown] /\ isLoading \in BOOLEAN /\ fetches \in 0..MAX_FETCHES

(***************************************************************************)
(* A page never has two transactions of the user under way, although the   *)
(* dialog can be closed and opened on something else while one runs        *)
(* (markets/page.tsx:324-329, 392), because the flag outlives the dialog:  *)
(* a call that is under way is all that is.                                *)
(***************************************************************************)
OneAtATime == \A at \in BagToSet(running) : running = SetToBag({at})

(***************************************************************************)
(* An open dialog becomes usable again: a flag set by Confirm is cleared   *)
(* whatever became of the action (app/page.tsx:585, markets/page.tsx:615). *)
(***************************************************************************)
DialogUsableAgain == isActionLoading ~> ~isActionLoading

(***************************************************************************)
(* "For supply, max is wallet balance", "For withdraw, max is deposited    *)
(* amount" (app/page.tsx:155, 160): when all loads are in, the number next *)
(* to MAX is that of the action and the asset shown.                       *)
(***************************************************************************)
MaxIsOfThisDialog ==
    isOpen /\ loads = {} => maxAmount \in {Source(modal.action, modal.asset), Unknown}

(***************************************************************************)
(* While no load is under way the dialog describes the market as the table *)
(* beneath it does ("Refresh market data after a successful action",       *)
(* markets/page.tsx:609).                                                  *)
(***************************************************************************)
DialogMatchesTable ==
    isOpen /\ fetches = 0 => modal.market = marketData[modal.asset]
=============================================================================
