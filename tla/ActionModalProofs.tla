-------------------------- MODULE ActionModalProofs --------------------------
(***************************************************************************)
(* Theorems about ActionModal, for every set of assets, on either page,    *)
(* whatever the number of loads in flight: a page has at most one          *)
(* transaction of the user under way.                                      *)
(*                                                                         *)
(* The bag of running calls could count any number of them.  What keeps it *)
(* at one is the flag: a call that runs has set it, and only the call that *)
(* ends clears it.                                                         *)
(***************************************************************************)
EXTENDS ActionModal, TLAPS

\* No call of handleActionConfirm is under way, or exactly one.
NoneOrOne == running \in {EmptyBag} \cup {SetToBag({at}) : at \in Calls}

\* Whatever became of the dialog, the flag is set while a call runs.
BusyWhileRunning == running # EmptyBag => isActionLoading = TRUE

IInv == TypeOK /\ NoneOrOne /\ BusyWhileRunning

-----------------------------------------------------------------------------
(***************************************************************************)
(* Bags of none or one.                                                    *)
(***************************************************************************)

\* A call that starts is alone in the empty bag.
LEMMA Starts ==
    ASSUME NEW at
    PROVE  EmptyBag (+) SetToBag({at}) = SetToBag({at})
  BY DEF EmptyBag, SetToBag, (+)

\* A call that ends leaves the bag of one empty.
LEMMA Ends ==
    ASSUME NEW at
    PROVE  SetToBag({at}) (-) SetToBag({at}) = EmptyBag
  BY DEF EmptyBag, SetToBag, (-)

\* Nothing is in the empty bag; in a bag of one, one.
LEMMA Members ==
    /\ BagToSet(EmptyBag) = {}
    /\ \A at : BagToSet(SetToBag({at})) = {at}
  BY DEF BagToSet, EmptyBag, SetToBag

\* A bag of one is not empty.
LEMMA OneIsNotNone ==
    ASSUME NEW at
    PROVE  SetToBag({at}) # EmptyBag
  BY Members

\* If a call is at a place, it is the only one.
LEMMA OnlyThere ==
    ASSUME NoneOrOne, NEW at \in Calls, BagIn(at, running)
    PROVE  running = SetToBag({at})
  BY Members DEF NoneOrOne, BagIn

\* The only call leaves, and none is left.
LEMMA LeavesNone ==
    ASSUME NoneOrOne, NEW at \in Calls, Leaves(at)
    PROVE  running' = EmptyBag
  BY OnlyThere, Ends DEF Leaves

-----------------------------------------------------------------------------
(***************************************************************************)
(* The steps.                                                              *)
(***************************************************************************)

LEMMA InitInv == Init => IInv
<1> SUFFICES ASSUME Init PROVE IInv
  OBVIOUS
<1>1. fetches \in 0..MAX_FETCHES /\ isLoading \in BOOLEAN
  <2>1. CASE MARKETS_PAGE
    BY <2>1, PageAssumption DEF Init
  <2>2. CASE ~MARKETS_PAGE
    BY <2>2, PageAssumption DEF Init
  <2> QED BY <2>1, <2>2
<1>2. modal = Closed /\ isOpen = (modal # Closed)
  BY DEF Init
<1>3. maxAmount \in Sources /\ amount \in {Unset} /\ loads = {}
  BY DEF Init, Sources
<1>4. BagToSet(running) = {} /\ isActionLoading = FALSE
  BY Members DEF Init
<1>5. marketData \in [Assets -> Shown]
  BY DEF Init, Shown
<1>6. TypeOK
  BY <1>1, <1>2, <1>3, <1>4, <1>5 DEF TypeOK
<1>7. NoneOrOne /\ BusyWhileRunning
  BY DEF Init, NoneOrOne, BusyWhileRunning
<1> QED BY <1>6, <1>7 DEF IInv

\* The places where a page's dialog is: open on a modal, or closed.
LEMMA ModalsAreOpen == \A m \in Modals : m # Closed
  BY PageAssumption DEF Modals, Closed

\* What the dialog does by itself.
LEMMA DialogStep ==
    ASSUME IInv, openModal \/ loadMaxAmount \/ Typing \/ Close
    PROVE  IInv'
<1>1. running' = running /\ isActionLoading' = isActionLoading
  BY DEF openModal, loadMaxAmount, Typing, Close
<1>2. NoneOrOne' /\ BusyWhileRunning'
  BY <1>1 DEF IInv, NoneOrOne, BusyWhileRunning
<1>3. UNCHANGED table
  BY DEF openModal, loadMaxAmount, Typing, Close
<1>4. TypeOK'
  <2>1. CASE openModal
    <3> PICK m \in Modals :
          /\ isOpen' = TRUE /\ modal' = m /\ amount' = Unset
          /\ IF m.action = "borrow"
             THEN maxAmount' = Placeholder /\ UNCHANGED loads
             ELSE loads' = loads \cup {Source(m.action, m.asset)} /\ UNCHANGED maxAmount
      BY <2>1 DEF openModal
    <3>1. maxAmount' \in Sources /\ loads' \subseteq Sources
      BY DEF IInv, TypeOK, Sources
    <3>2. isOpen' = (modal' # Closed)
      BY ModalsAreOpen
    <3> QED BY <1>1, <1>3, <3>1, <3>2 DEF IInv, TypeOK, table
  <2>2. CASE loadMaxAmount
    <3>1. maxAmount' \in Sources /\ loads' \subseteq Sources
      BY <2>2 DEF loadMaxAmount, answers, IInv, TypeOK, Sources
    <3> QED BY <1>1, <1>3, <2>2, <3>1 DEF loadMaxAmount, IInv, TypeOK, table
  <2>3. CASE Typing
    BY <1>1, <1>3, <2>3 DEF Typing, IInv, TypeOK, table
  <2>4. CASE Close
    BY <1>1, <1>3, <2>4 DEF Close, closeModal, IInv, TypeOK, table
  <2> QED BY <2>1, <2>2, <2>3, <2>4
<1> QED BY <1>2, <1>4 DEF IInv

\* Confirm starts a call only when the flag is clear, so when none runs.
LEMMA ConfirmStep ==
    ASSUME IInv, Confirm
    PROVE  IInv'
<1>1. running = EmptyBag
  BY DEF Confirm, MayConfirm, IInv, BusyWhileRunning
<1>2. running' = SetToBag({"acting"}) /\ isActionLoading' = TRUE
  BY <1>1, Starts DEF Confirm
<1>3. NoneOrOne' /\ BusyWhileRunning'
  BY <1>2 DEF NoneOrOne, BusyWhileRunning, Calls
<1>4. BagToSet(running)' \subseteq Calls
  BY <1>2, Members DEF Calls
<1>5. TypeOK'
  BY <1>2, <1>4 DEF Confirm, IInv, TypeOK, dialog, table
<1> QED BY <1>3, <1>5 DEF IInv

\* The call that ends is the only one, so the flag may be cleared.
LEMMA EndStep ==
    ASSUME IInv, ActionEnds
    PROVE  IInv'
<1> USE DEF Calls
<1>1. CASE ActionFails
  <2>1. running' = EmptyBag /\ isActionLoading' = FALSE
    BY <1>1, LeavesNone DEF ActionFails, Release, IInv
  <2>2. NoneOrOne' /\ BusyWhileRunning'
    BY <2>1 DEF NoneOrOne, BusyWhileRunning
  <2>3. BagToSet(running)' \subseteq Calls
    BY <2>1, Members
  <2>4. TypeOK'
    BY <1>1, <2>1, <2>3 DEF ActionFails, IInv, TypeOK, dialog, table
  <2> QED BY <2>2, <2>4 DEF IInv
<1>2. CASE ActionSucceeds
  <2>1. running = SetToBag({"acting"})
    BY <1>2, OnlyThere DEF ActionSucceeds, IInv
  <2>2. running' = SetToBag({"refreshing"})
    BY <1>2, <2>1, Ends, Starts DEF ActionSucceeds
  <2>3. isActionLoading = TRUE /\ isActionLoading' = isActionLoading
    BY <1>2, <2>1, OneIsNotNone DEF ActionSucceeds, IInv, BusyWhileRunning
  <2>4. NoneOrOne' /\ BusyWhileRunning'
    BY <2>2, <2>3 DEF NoneOrOne, BusyWhileRunning
  <2>5. BagToSet(running)' \subseteq Calls
    BY <2>2, Members
  <2>6. TypeOK'
    BY <1>2, <2>3, <2>5 DEF ActionSucceeds, closeModal, IInv, TypeOK, table
  <2> QED BY <2>4, <2>6 DEF IInv
<1>3. CASE handleActionConfirm
  <2>1. running' = EmptyBag /\ isActionLoading' = FALSE
    BY <1>3, LeavesNone DEF handleActionConfirm, Release, IInv
  <2>2. NoneOrOne' /\ BusyWhileRunning'
    BY <2>1 DEF NoneOrOne, BusyWhileRunning
  <2>3. BagToSet(running)' \subseteq Calls
    BY <2>1, Members
  <2>4. fetches' \in 0..MAX_FETCHES /\ isLoading' \in BOOLEAN
    <3>1. CASE MARKETS_PAGE
      BY <1>3, <3>1, PageAssumption DEF handleActionConfirm, IInv, TypeOK
    <3>2. CASE ~MARKETS_PAGE
      BY <1>3, <3>2, PageAssumption DEF handleActionConfirm, IInv, TypeOK
    <3> QED BY <3>1, <3>2
  <2>5. TypeOK'
    BY <1>3, <2>1, <2>3, <2>4 DEF handleActionConfirm, IInv, TypeOK, dialog
  <2> QED BY <2>2, <2>5 DEF IInv
<1> QED BY <1>1, <1>2, <1>3 DEF ActionEnds

\* The table's load touches neither the dialog nor the calls.
LEMMA FetchStep ==
    ASSUME IInv, fetchMarketData
    PROVE  IInv'
<1>1. fetches' \in 0..MAX_FETCHES
  BY PageAssumption DEF fetchMarketData, IInv, TypeOK
<1>2. TypeOK'
  BY <1>1 DEF fetchMarketData, IInv, TypeOK, dialog
<1>3. NoneOrOne' /\ BusyWhileRunning'
  BY DEF fetchMarketData, IInv, NoneOrOne, BusyWhileRunning
<1> QED BY <1>2, <1>3 DEF IInv

LEMMA NextInv == IInv /\ [Next]_vars => IInv'
<1> SUFFICES ASSUME IInv, [Next]_vars PROVE IInv'
  OBVIOUS
<1>1. CASE UNCHANGED vars
  BY <1>1 DEF vars, dialog, table, IInv, TypeOK, NoneOrOne, BusyWhileRunning
<1>2. CASE Next
  BY <1>2, DialogStep, ConfirmStep, EndStep, FetchStep DEF Next
<1> QED BY <1>1, <1>2

LEMMA Invariant == Spec => []IInv
  BY InitInv, NextInv, PTL DEF Spec

-----------------------------------------------------------------------------
\* The dialog is open exactly when it shows something to act on, its numbers
\* come from where the dialog may take them, and loads stay within their bound.
THEOREM TypeCorrect == Spec => []TypeOK
<1>1. IInv => TypeOK
  BY DEF IInv
<1> QED BY <1>1, Invariant, PTL

\* A page never has two transactions of the user under way
\* (markets/page.tsx:324-329, 392).
THEOREM OnlyOneRuns == Spec => []OneAtATime
<1>1. IInv => OneAtATime
  BY Members DEF IInv, NoneOrOne, OneAtATime
<1> QED BY <1>1, Invariant, PTL
==============================================================================
