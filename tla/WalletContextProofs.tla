------------------------- MODULE WalletContextProofs -------------------------
(***************************************************************************)
(* Theorems about WalletContext, for every set of accounts and every       *)
(* number of undelivered events: the address a page saves is the one it    *)
(* shows whenever no connection is under way, and a connected page is on   *)
(* the testnet or about to be reloaded.                                    *)
(*                                                                         *)
(* Both are false in the middle of connectWallet, which writes the context *)
(* at several moments; what makes them inductive is where that call is.    *)
(***************************************************************************)
EXTENDS WalletContext, SequenceTheorems, TLAPS

\* The call has set the address; only answers of the node are outstanding.
Settling == connect.at \in {"balance", "signer", "info"}

\* From eth_accounts to getBalance the call carries the account it was told.
CarriesAccount == connect.at \in {"chain", "balance"} => connect.account \in Accounts

\* A page that is loading runs no call and shows nothing.
BlankUntilMounted ==
    ~mounted => /\ isConnected = FALSE /\ connecting = FALSE /\ address = None
                /\ connect = Idle /\ action = NoAction

SavedWhenSettled == (mounted /\ ~connecting) \/ Settling => savedAddress = address

\* The wallet is on the testnet, or the event that reloads the page is on its way.
ReloadComing == \E i \in 1..Len(events) : events[i] = ChainChanged
TestnetWhenSettled == isConnected \/ Settling => onTestnet \/ ReloadComing

IInv ==
    /\ TypeOK /\ CarriesAccount /\ BlankUntilMounted
    /\ SavedWhenSettled /\ TestnetWhenSettled

Events == [kind : {"accountsChanged", "chainChanged"}, account : Accounts \cup {None}]

-----------------------------------------------------------------------------
(***************************************************************************)
(* Events: what the wallet adds at the end and the page takes at the front *)
(***************************************************************************)

\* An event's text: appending one keeps the list well formed and within its
\* bound, and a reload that was coming still comes (web3.ts:82, the wallet's emit).
LEMMA Emits ==
    ASSUME NEW e \in Events, events \in Seq(Events), Len(events) < EVENT_LIMIT,
           events' = Append(events, e)
    PROVE  /\ events' \in Seq(Events)
           /\ Len(events') <= EVENT_LIMIT
           /\ ReloadComing => ReloadComing'
           /\ e = ChainChanged => ReloadComing'
<1>1. /\ events' \in Seq(Events) /\ Len(events') = Len(events) + 1
      /\ Len(events) \in Nat
      /\ events'[Len(events) + 1] = e
      /\ \A i \in 1..Len(events) : events'[i] = events[i]
  BY AppendProperties, LenProperties
<1>2. Len(events') <= EVENT_LIMIT
  BY <1>1, EventLimitAssumption
<1>3. ReloadComing => ReloadComing'
  <2> SUFFICES ASSUME NEW i \in 1..Len(events), events[i] = ChainChanged
               PROVE  \E j \in 1..Len(events') : events'[j] = ChainChanged
    BY DEF ReloadComing, ChainChanged
  <2> QED BY <1>1
<1>4. e = ChainChanged => ReloadComing'
  <2> SUFFICES ASSUME e = ChainChanged
               PROVE  \E j \in 1..Len(events') : events'[j] = ChainChanged
    BY DEF ReloadComing, ChainChanged
  <2> QED BY <1>1
<1> QED BY <1>1, <1>2, <1>3, <1>4

\* Delivering an event of the accounts leaves a coming reload in the list.
LEMMA Delivers ==
    ASSUME events \in Seq(Events), Len(events) <= EVENT_LIMIT, events # <<>>,
           events' = Tail(events)
    PROVE  /\ events' \in Seq(Events)
           /\ Len(events') <= EVENT_LIMIT
           /\ Head(events).kind = "accountsChanged" /\ ReloadComing => ReloadComing'
<1>1. /\ events' \in Seq(Events) /\ Len(events') = Len(events) - 1
      /\ Len(events) \in Nat
      /\ \A i \in 1..Len(events') : events'[i] = events[i + 1]
      /\ Head(events) = events[1]
  BY HeadTailProperties, LenProperties
<1>2. Len(events') <= EVENT_LIMIT
  BY <1>1, EventLimitAssumption
<1>3. ASSUME Head(events).kind = "accountsChanged", ReloadComing PROVE ReloadComing'
  <2>1. PICK i \in 1..Len(events) : events[i] = ChainChanged
    BY <1>3 DEF ReloadComing
  <2>2. i # 1
    BY <1>1, <1>3, <2>1 DEF ChainChanged
  <2>3. i - 1 \in 1..Len(events') /\ events'[i - 1] = ChainChanged
    BY <1>1, <2>1, <2>2
  <2>4. \E j \in 1..Len(events') : events'[j] = ChainChanged
    BY <2>3
  <2> QED BY <2>4 DEF ReloadComing, ChainChanged
<1> QED BY <1>1, <1>2, <1>3

-----------------------------------------------------------------------------
(***************************************************************************)
(* Types.  The parts of TypeOK follow the groups of variables that the     *)
(* actions leave alone.                                                    *)
(***************************************************************************)
Holders == Accounts \cup {None}
Calls == [at : {"idle", "accounts", "network", "switch", "list", "chain", "balance",
                "signer", "info"}, account : Readers, refreshes : BOOLEAN]
Confirmations == [at : {"idle", "transaction", "signer", "info"},
                  account : Holders, reader : Readers]

WalletTyped ==
    /\ walletAccount \in Holders /\ onTestnet \in BOOLEAN
    /\ events \in Seq(Events) /\ Len(events) <= EVENT_LIMIT
ContextTyped ==
    /\ savedAddress \in Holders /\ address \in Holders /\ balance \in Holders
    /\ isConnected \in BOOLEAN /\ chainId \in {"testnet", None} /\ accountInfo \in Readers
DashboardTyped ==
    userPositions \in Holders /\ isLoading \in BOOLEAN /\ fetches \subseteq Accounts
ConnectTyped == mounted \in BOOLEAN /\ connecting \in BOOLEAN /\ connect \in Calls
ActionTyped ==
    isActionLoading \in BOOLEAN /\ balanceReads \subseteq Accounts /\ action \in Confirmations

\* TypeOK is its parts.
LEMMA Parts ==
    TypeOK <=> WalletTyped /\ ContextTyped /\ DashboardTyped /\ ConnectTyped /\ ActionTyped
BY DEF TypeOK, WalletTyped, ContextTyped, DashboardTyped, ConnectTyped, ActionTyped,
       Holders, Calls, Confirmations, Events

LEMMA PartsNext ==
    TypeOK' <=> WalletTyped' /\ ContextTyped' /\ DashboardTyped' /\ ConnectTyped' /\ ActionTyped'
BY DEF TypeOK, WalletTyped, ContextTyped, DashboardTyped, ConnectTyped, ActionTyped,
       Holders, Calls, Confirmations, Events, Readers

\* The Dashboard's effect asks only for accounts (app/page.tsx:494).
LEMMA RerenderTyped ==
    ASSUME NEW refreshed, NEW asked \in SUBSET Accounts, DashboardTyped, address' \in Holders,
           Rerender(refreshed, asked)
    PROVE  DashboardTyped'
BY DEF DashboardTyped, Holders, Rerender

\* Disconnecting blanks the context (WalletContext.tsx:209-220).
LEMMA DisconnectTyped ==
    ASSUME DashboardTyped, disconnectWallet
    PROVE  ContextTyped' /\ DashboardTyped' /\ isConnected' = FALSE /\ savedAddress' = address'
<1>1. ContextTyped' /\ isConnected' = FALSE /\ savedAddress' = address'
  BY DEF disconnectWallet, ContextTyped, Holders, Readers
<1>2. address' \in Holders /\ {} \in SUBSET Accounts /\ Rerender(FALSE, {})
  BY DEF disconnectWallet, Holders
<1>3. DashboardTyped'
  BY <1>2, RerenderTyped
<1> QED BY <1>1, <1>3

-----------------------------------------------------------------------------
(***************************************************************************)
(* connectWallet: one lemma per continuation of the call, after what the   *)
(* continuations that only ask have in common.                             *)
(***************************************************************************)
Calling == mounted /\ mounted' = TRUE /\ UNCHANGED <<balanceReads, isActionLoading, action>>

\* What only asks the wallet leaves alone everything a settled page relies on, as long
\* as a reload that is due stays due (web3.ts:65-109).
LEMMA Asking ==
    ASSUME IInv, Calling, UNCHANGED <<context, dashboard, connecting>>,
           WalletTyped', connect' \in Calls, CarriesAccount', Settling' => Settling,
           onTestnet \/ ReloadComing => onTestnet' \/ ReloadComing'
    PROVE  IInv'
<1>1. TypeOK'
  BY PartsNext, Parts DEF IInv, Calling, ContextTyped, DashboardTyped, ConnectTyped, ActionTyped,
     context, dashboard
<1>2. BlankUntilMounted'
  BY DEF Calling, BlankUntilMounted
<1>3. SavedWhenSettled'
  BY DEF IInv, SavedWhenSettled, Calling, context
<1>4. TestnetWhenSettled'
  BY DEF IInv, TestnetWhenSettled, context
<1> QED BY <1>1, <1>2, <1>3, <1>4 DEF IInv

\* Nothing of the wallet moves: a coming reload is still coming.
LEMMA WalletStill ==
    ASSUME IInv, UNCHANGED wallet
    PROVE  WalletTyped' /\ (onTestnet \/ ReloadComing => onTestnet' \/ ReloadComing')
<1>1. WalletTyped'
  BY Parts DEF IInv, WalletTyped, wallet
<1>2. ReloadComing' <=> ReloadComing
  BY DEF ReloadComing, ChainChanged, wallet
<1> QED BY <1>1, <1>2 DEF wallet

\* Where a call stands, from its next record.
LEMMA Goes ==
    ASSUME connect \in Calls, NEW step \in {"network", "switch", "list", "balance", "signer"},
           Goto(step)
    PROVE  connect' \in Calls /\ connect'.at = step /\ connect'.account = connect.account
BY DEF Calls, Goto

\* eth_requestAccounts (web3.ts:57).
LEMMA RequestAccountsKeeps ==
    ASSUME IInv, Calling, RequestAccounts
    PROVE  IInv'
<1>1. WalletTyped /\ connect \in Calls
  BY Parts DEF IInv, ConnectTyped
<1>2. connect' \in Calls /\ connect'.at = "network"
  BY <1>1, Goes DEF RequestAccounts
<1>3. CarriesAccount' /\ ~Settling'
  BY <1>2 DEF CarriesAccount, Settling
<1>4. WalletTyped' /\ (onTestnet \/ ReloadComing => onTestnet' \/ ReloadComing')
  <2>1. CASE UNCHANGED <<walletAccount, events>>
    BY <2>1, WalletStill DEF RequestAccounts, wallet
  <2>2. CASE /\ Len(events) < EVENT_LIMIT /\ walletAccount' \in Accounts
             /\ events' = Append(events, AccountsChanged(walletAccount'))
    <3>1. AccountsChanged(walletAccount') \in Events
      BY <2>2 DEF AccountsChanged, Events
    <3>2. /\ events' \in Seq(Events) /\ Len(events') <= EVENT_LIMIT
          /\ ReloadComing => ReloadComing'
      BY <1>1, <2>2, <3>1, Emits DEF WalletTyped
    <3> QED BY <1>1, <2>2, <3>2 DEF WalletTyped, Holders, RequestAccounts
  <2> QED BY <2>1, <2>2 DEF RequestAccounts
<1> QED BY <1>2, <1>3, <1>4, Asking DEF RequestAccounts

\* getChainId (web3.ts:60).
LEMMA CheckNetworkKeeps ==
    ASSUME IInv, Calling, CheckNetwork
    PROVE  IInv'
<1>1. connect \in Calls
  BY Parts DEF IInv, ConnectTyped
<1>2. connect' \in Calls /\ connect'.at \in {"list", "switch"}
  BY <1>1, Goes DEF CheckNetwork
<1>3. CarriesAccount' /\ ~Settling'
  BY <1>2 DEF CarriesAccount, Settling
<1> QED BY <1>2, <1>3, WalletStill, Asking DEF CheckNetwork

\* wallet_switchEthereumChain: the wallet arrives on the testnet (web3.ts:67-107).
LEMMA SwitchNetworkKeeps ==
    ASSUME IInv, Calling, SwitchNetwork
    PROVE  IInv'
<1>1. WalletTyped /\ connect \in Calls
  BY Parts DEF IInv, ConnectTyped
<1>2. connect' \in Calls /\ connect'.at = "list"
  BY <1>1, Goes DEF SwitchNetwork
<1>3. CarriesAccount' /\ ~Settling'
  BY <1>2 DEF CarriesAccount, Settling
<1>4. WalletTyped' /\ (onTestnet \/ ReloadComing => onTestnet' \/ ReloadComing')
  <2>1. CASE onTestnet
    BY <2>1, WalletStill DEF SwitchNetwork, wallet
  <2>2. CASE ~onTestnet
    <3>1. ChainChanged \in Events
      BY DEF ChainChanged, Events, Holders
    <3>2. events' \in Seq(Events) /\ Len(events') <= EVENT_LIMIT
      BY <1>1, <2>2, <3>1, Emits DEF WalletTyped, SwitchNetwork
    <3> QED BY <1>1, <2>2, <3>2 DEF WalletTyped, SwitchNetwork
  <2> QED BY <2>1, <2>2
<1> QED BY <1>2, <1>3, <1>4, Asking DEF SwitchNetwork

\* listAccounts answers with the account the wallet exposes (WalletContext.tsx:166).
LEMMA ListAccountsKeeps ==
    ASSUME IInv, Calling, ListAccounts
    PROVE  IInv'
<1>1. walletAccount \in Accounts /\ connect \in Calls
  BY Parts DEF IInv, WalletTyped, ConnectTyped, Holders, ListAccounts
<1>2. connect' \in Calls /\ connect'.at = "chain" /\ connect'.account \in Accounts
  BY <1>1 DEF Calls, ListAccounts, Readers
<1>3. CarriesAccount' /\ ~Settling'
  BY <1>2 DEF CarriesAccount, Settling
<1> QED BY <1>2, <1>3, WalletStill, Asking DEF ListAccounts

\* refreshAccountInfo asks for the signer (WalletContext.tsx:195).
LEMMA ReadSignerKeeps ==
    ASSUME IInv, Calling, ReadSigner
    PROVE  IInv'
<1>1. walletAccount \in Holders /\ connect \in Calls
  BY Parts DEF IInv, WalletTyped, ConnectTyped
<1>2. connect' \in Calls /\ connect'.at = "info"
  BY <1>1 DEF Calls, ReadSigner, Readers, AccountRead, Holders
<1>3. CarriesAccount' /\ Settling
  BY <1>2 DEF CarriesAccount, Settling, ReadSigner, At
<1> QED BY <1>2, <1>3, WalletStill, Asking DEF ReadSigner

\* getNetwork answers: address and saved address are set together, and the wallet is on
\* the testnet, since the provider refuses a chain that moved (WalletContext.tsx:172-189).
LEMMA ReadChainKeeps ==
    ASSUME IInv, Calling, ReadChain
    PROVE  IInv'
<1>1. /\ ContextTyped /\ DashboardTyped /\ connect \in Calls /\ connecting \in BOOLEAN
      /\ ActionTyped /\ connect.account \in Accounts
  BY Parts DEF IInv, ConnectTyped, CarriesAccount, ReadChain, At
<1>2. connect' \in Calls /\ connect'.at = "balance" /\ connect'.account \in Accounts
  BY <1>1, Goes DEF ReadChain
<1>3. address' \in Accounts /\ savedAddress' = address' /\ UNCHANGED wallet /\ onTestnet
  BY <1>1 DEF ReadChain
<1>4. ContextTyped'
  BY <1>1, <1>3 DEF ReadChain, ContextTyped, Holders
<1>5. DashboardTyped'
  <2>1. address' \in Holders /\ {} \in SUBSET Accounts /\ Rerender(FALSE, {})
    BY <1>3 DEF ReadChain, Holders
  <2> QED BY <1>1, <2>1, RerenderTyped
<1>6. TypeOK'
  BY <1>1, <1>2, <1>4, <1>5, WalletStill, PartsNext
     DEF ReadChain, Calling, ConnectTyped, ActionTyped
<1>7. CarriesAccount' /\ BlankUntilMounted' /\ SavedWhenSettled'
  BY <1>2, <1>3 DEF CarriesAccount, BlankUntilMounted, SavedWhenSettled, Calling
<1>8. TestnetWhenSettled'
  BY <1>3 DEF TestnetWhenSettled, wallet
<1> QED BY <1>6, <1>7, <1>8 DEF IInv

\* The settled call goes on or ends: what it stored stays true of the page.
LEMMA Settles ==
    ASSUME IInv, Calling, Settling, UNCHANGED <<wallet, address, savedAddress>>,
           ContextTyped', DashboardTyped', connect' \in Calls, connecting' \in BOOLEAN,
           connect'.at \notin {"chain", "balance"}
    PROVE  IInv'
<1>1. TypeOK'
  BY WalletStill, PartsNext, Parts DEF IInv, Calling, ConnectTyped, ActionTyped
<1>2. CarriesAccount' /\ BlankUntilMounted'
  BY DEF CarriesAccount, BlankUntilMounted, Calling
<1>3. SavedWhenSettled'
  BY DEF IInv, SavedWhenSettled
<1>4. TestnetWhenSettled'
  <2>1. onTestnet \/ ReloadComing
    BY DEF IInv, TestnetWhenSettled
  <2> QED BY <2>1, WalletStill DEF TestnetWhenSettled
<1> QED BY <1>1, <1>2, <1>3, <1>4 DEF IInv

\* getBalance answers or fails (WalletContext.tsx:191).
LEMMA ReadBalanceKeeps ==
    ASSUME IInv, Calling, ReadBalance
    PROVE  IInv'
<1>1. /\ ContextTyped /\ DashboardTyped /\ connect \in Calls /\ connecting \in BOOLEAN
      /\ Settling /\ connect.account \in Accounts
  BY Parts DEF IInv, ConnectTyped, CarriesAccount, ReadBalance, At, Settling
<1>2. connect' \in Calls /\ connecting' \in BOOLEAN /\ isConnected' \in BOOLEAN
      /\ connect'.at \notin {"chain", "balance"}
  <2>1. CASE connect.refreshes
    BY <1>1, <2>1, Goes DEF ReadBalance, ContextTyped
  <2>2. CASE ~connect.refreshes
    <3>1. Connected
      BY <2>2 DEF ReadBalance
    <3>2. connect' \in Calls /\ connect'.at = "idle"
      BY <3>1 DEF Connected, Idle, Calls, Readers
    <3> QED BY <3>1, <3>2 DEF Connected
  <2> QED BY <2>1, <2>2
<1>3. ContextTyped'
  BY <1>1, <1>2 DEF ReadBalance, ContextTyped, Holders
<1>4. DashboardTyped'
  <2>1. address' \in Holders /\ {} \in SUBSET Accounts /\ Rerender(FALSE, {})
    BY <1>3 DEF ReadBalance, ContextTyped
  <2> QED BY <1>1, <2>1, RerenderTyped
<1> QED BY <1>1, <1>2, <1>3, <1>4, Settles DEF ReadBalance

\* getUserAccountInfo answers, with zeros when it fails (WalletContext.tsx:195-204).
LEMMA ReadAccountInfoKeeps ==
    ASSUME IInv, Calling, ReadAccountInfo
    PROVE  IInv'
<1>1. ContextTyped /\ DashboardTyped /\ connect \in Calls /\ Settling
  BY Parts DEF IInv, ConnectTyped, ReadAccountInfo, At, Settling
<1>2. connect' \in Calls /\ connecting' \in BOOLEAN /\ connect'.at = "idle"
  BY DEF ReadAccountInfo, Connected, Idle, Calls, Readers
<1>3. ContextTyped'
  BY <1>1 DEF ReadAccountInfo, Connected, ContextTyped, Calls, Readers
<1>4. DashboardTyped'
  <2>1. address' \in Holders /\ {} \in SUBSET Accounts /\ Rerender(TRUE, {})
    BY <1>3 DEF ReadAccountInfo, ContextTyped
  <2> QED BY <1>1, <2>1, RerenderTyped
<1> QED BY <1>1, <1>2, <1>3, <1>4, Settles DEF ReadAccountInfo

\* The catch and finally clauses (WalletContext.tsx:199-205).
LEMMA ConnectFailsKeeps ==
    ASSUME IInv, Calling, ConnectFails
    PROVE  IInv'
<1>1. DashboardTyped /\ ActionTyped
  BY Parts DEF IInv
<1>2. ContextTyped' /\ DashboardTyped' /\ isConnected' = FALSE /\ savedAddress' = address'
  BY <1>1, DisconnectTyped DEF ConnectFails
<1>3. connect' \in Calls /\ connecting' \in BOOLEAN /\ connect'.at = "idle"
  BY DEF ConnectFails, Idle, Calls, Readers
<1>4. TypeOK'
  BY <1>1, <1>2, <1>3, WalletStill, PartsNext DEF ConnectFails, Calling, ConnectTyped, ActionTyped
<1>5. CarriesAccount' /\ BlankUntilMounted' /\ SavedWhenSettled'
  BY <1>2, <1>3 DEF CarriesAccount, BlankUntilMounted, SavedWhenSettled, Calling
<1>6. TestnetWhenSettled'
  BY <1>2, <1>3 DEF TestnetWhenSettled, Settling
<1> QED BY <1>4, <1>5, <1>6 DEF IInv

LEMMA ConnectKeeps ==
    ASSUME IInv, ConnectStep
    PROVE  IInv'
<1>1. Calling
  BY DEF ConnectStep, Calling
<1>2. CASE RequestAccounts BY <1>1, <1>2, RequestAccountsKeeps
<1>3. CASE CheckNetwork BY <1>1, <1>3, CheckNetworkKeeps
<1>4. CASE SwitchNetwork BY <1>1, <1>4, SwitchNetworkKeeps
<1>5. CASE ListAccounts BY <1>1, <1>5, ListAccountsKeeps
<1>6. CASE ReadChain BY <1>1, <1>6, ReadChainKeeps
<1>7. CASE ReadBalance BY <1>1, <1>7, ReadBalanceKeeps
<1>8. CASE ReadSigner BY <1>1, <1>8, ReadSignerKeeps
<1>9. CASE ReadAccountInfo BY <1>1, <1>9, ReadAccountInfoKeeps
<1>10. CASE ConnectFails BY <1>1, <1>10, ConnectFailsKeeps
<1> QED
  BY <1>2, <1>3, <1>4, <1>5, <1>6, <1>7, <1>8, <1>9, <1>10 DEF ConnectStep

-----------------------------------------------------------------------------
(***************************************************************************)
(* The page's other handlers                                               *)
(***************************************************************************)

\* A call starts before the address is set (WalletContext.tsx:155-158).
LEMMA StartTyped ==
    ASSUME ContextTyped, StartConnecting
    PROVE  connect' \in Calls /\ connect'.at = "accounts" /\ connecting' = TRUE
BY DEF StartConnecting, Calls, Readers, ContextTyped

\* The mount effect, which reconnects a saved address (WalletContext.tsx:87-97).
LEMMA MountKeeps ==
    ASSUME IInv, Mount
    PROVE  IInv'
<1>1. /\ ContextTyped /\ DashboardTyped /\ ActionTyped /\ ConnectTyped
      /\ isConnected = FALSE /\ address = None /\ connect = Idle /\ mounted' = TRUE
  BY Parts DEF IInv, Mount, BlankUntilMounted
<1>2. ContextTyped' /\ DashboardTyped' /\ ActionTyped' /\ WalletTyped'
  BY <1>1, WalletStill DEF Mount, context, dashboard, ContextTyped, DashboardTyped, ActionTyped
<1>3. /\ connect' \in Calls /\ connecting' \in BOOLEAN
      /\ connect'.at \in {"idle", "accounts"} /\ (connecting' \/ savedAddress = None)
  <2>1. CASE savedAddress # None
    BY <1>1, <2>1, StartTyped DEF Mount
  <2>2. CASE savedAddress = None
    <3>1. connect' = connect /\ connecting' = connecting
      BY <2>2 DEF Mount
    <3>2. connect' \in Calls /\ connect'.at = "idle"
      BY <1>1, <3>1 DEF ConnectTyped, Idle
    <3> QED BY <1>1, <2>2, <3>1, <3>2 DEF ConnectTyped
  <2> QED BY <2>1, <2>2
<1>4. TypeOK'
  BY <1>1, <1>2, <1>3, PartsNext DEF ConnectTyped
<1>5. CarriesAccount' /\ BlankUntilMounted' /\ ~Settling'
  BY <1>1, <1>3 DEF CarriesAccount, BlankUntilMounted, Settling
<1>6. SavedWhenSettled' /\ TestnetWhenSettled'
  BY <1>1, <1>3, <1>5 DEF SavedWhenSettled, TestnetWhenSettled, Mount, context
<1> QED BY <1>4, <1>5, <1>6 DEF IInv

\* window.location.reload, by the chain's listener or the user: the page starts blank,
\* only localStorage stays (WalletContext.tsx:131).
LEMMA ReloadKeeps ==
    ASSUME IInv, Reload
    PROVE  IInv'
<1>1. WalletTyped /\ ContextTyped
  BY Parts DEF IInv
<1>2. WalletTyped'
  <2>1. events' \in Seq(Events) /\ Len(events') = 0
    BY EmptySeq DEF Reload
  <2> QED BY <1>1, <2>1, EventLimitAssumption DEF WalletTyped, Reload
<1>3. ContextTyped'
  BY <1>1 DEF Reload, ContextTyped, Holders, Readers
<1>4. DashboardTyped' /\ ConnectTyped'
  BY DEF Reload, DashboardTyped, ConnectTyped, Holders, Calls, Idle, Readers
<1>5. ActionTyped'
  BY DEF Reload, ActionTyped, Holders, Confirmations, NoAction, Readers
<1>6. TypeOK'
  BY <1>2, <1>3, <1>4, <1>5, PartsNext
<1>7. CarriesAccount' /\ BlankUntilMounted' /\ ~Settling'
  BY DEF CarriesAccount, BlankUntilMounted, Settling, Reload, Idle, NoAction
<1>8. SavedWhenSettled' /\ TestnetWhenSettled'
  BY <1>7 DEF SavedWhenSettled, TestnetWhenSettled, Reload
<1> QED BY <1>6, <1>7, <1>8 DEF IInv

\* A handler of the mounted page that leaves the call alone and keeps the two addresses
\* together, or both as they were.
LEMMA Handling ==
    ASSUME IInv, mounted, mounted' = TRUE, UNCHANGED <<connecting, connect>>,
           WalletTyped', ContextTyped', DashboardTyped', ActionTyped',
           \/ savedAddress' = address'
           \/ UNCHANGED <<savedAddress, address>>,
           isConnected' => isConnected,
           onTestnet \/ ReloadComing => onTestnet' \/ ReloadComing'
    PROVE  IInv'
<1>1. TypeOK'
  BY Parts, PartsNext DEF IInv, ConnectTyped
<1>2. CarriesAccount' /\ BlankUntilMounted'
  BY DEF IInv, CarriesAccount, BlankUntilMounted
<1>3. SavedWhenSettled'
  BY DEF IInv, SavedWhenSettled, Settling
<1>4. TestnetWhenSettled'
  BY DEF IInv, TestnetWhenSettled, Settling
<1> QED BY <1>1, <1>2, <1>3, <1>4 DEF IInv

\* accountsChanged (WalletContext.tsx:107-119): it stores the account twice, or
\* disconnects, also while a connection is under way.
LEMMA AccountsChangedKeeps ==
    ASSUME IInv, mounted, events # <<>>, Head(events).kind = "accountsChanged",
           handleAccountsChanged(Head(events).account)
    PROVE  IInv'
<1> DEFINE account == Head(events).account
<1>1. WalletTyped /\ ContextTyped /\ DashboardTyped /\ ActionTyped
  BY Parts DEF IInv
<1>2. account \in Holders
  <2>1. Head(events) \in Events
    BY <1>1, HeadTailProperties DEF WalletTyped
  <2> QED BY <2>1 DEF Events, Holders
<1>3. /\ events' = Tail(events) /\ UNCHANGED <<walletAccount, onTestnet, mounted>>
      /\ UNCHANGED <<connecting, connect, isActionLoading, action>>
  BY DEF handleAccountsChanged
<1>4. WalletTyped' /\ (onTestnet \/ ReloadComing => onTestnet' \/ ReloadComing')
  BY <1>1, <1>3, Delivers DEF WalletTyped
<1>5. /\ ContextTyped' /\ DashboardTyped' /\ ActionTyped' /\ (isConnected' => isConnected)
      /\ savedAddress' = address' \/ UNCHANGED <<savedAddress, address>>
  <2>1. CASE account = None
    <3>1. disconnectWallet /\ UNCHANGED balanceReads
      BY <2>1 DEF handleAccountsChanged
    <3> QED BY <1>1, <1>3, <3>1, DisconnectTyped DEF ActionTyped
  <2>2. CASE account # None /\ account # address
    <3>1. /\ address' = account /\ savedAddress' = account
          /\ balanceReads' = balanceReads \cup {account}
          /\ UNCHANGED <<isConnected, balance, chainId, accountInfo>> /\ Rerender(FALSE, {})
      BY <2>2 DEF handleAccountsChanged
    <3>2. ContextTyped'
      BY <1>1, <1>2, <3>1 DEF ContextTyped
    <3>3. DashboardTyped'
      <4>1. address' \in Holders /\ {} \in SUBSET Accounts
        BY <1>2, <3>1
      <4> QED BY <1>1, <3>1, <4>1, RerenderTyped
    <3>4. ActionTyped'
      BY <1>1, <1>2, <1>3, <2>2, <3>1 DEF ActionTyped, Holders
    <3> QED BY <3>1, <3>2, <3>3, <3>4
  <2>3. CASE account # None /\ account = address
    <3>1. UNCHANGED <<context, dashboard, balanceReads>>
      BY <2>3 DEF handleAccountsChanged
    <3> QED
      BY <1>1, <1>3, <3>1 DEF context, dashboard, ContextTyped, DashboardTyped, ActionTyped
  <2> QED BY <2>1, <2>2, <2>3
<1> QED BY <1>3, <1>4, <1>5, Handling

LEMMA DeliverKeeps ==
    ASSUME IInv, Deliver
    PROVE  IInv'
BY AccountsChangedKeeps, ReloadKeeps DEF Deliver, handleChainChanged

\* The wallet button (WalletContext.tsx:155, 209).
LEMMA ClickKeeps ==
    ASSUME IInv, ClickConnect \/ ClickDisconnect
    PROVE  IInv'
<1>1. WalletTyped /\ ContextTyped /\ DashboardTyped /\ ActionTyped
  BY Parts DEF IInv
<1>2. CASE ClickDisconnect
  <2>1. ContextTyped' /\ DashboardTyped' /\ isConnected' = FALSE /\ savedAddress' = address'
    BY <1>1, <1>2, DisconnectTyped DEF ClickDisconnect
  <2> QED BY <1>1, <1>2, <2>1, WalletStill, Handling DEF ClickDisconnect, ActionTyped
<1>3. CASE ClickConnect
  <2>1. connect' \in Calls /\ connect'.at = "accounts" /\ connecting' = TRUE
    BY <1>1, <1>3, StartTyped DEF ClickConnect
  <2>2. /\ mounted' = TRUE /\ isConnected' = isConnected /\ isConnected = FALSE
        /\ WalletTyped' /\ ContextTyped' /\ DashboardTyped' /\ ActionTyped'
    BY <1>1, <1>3, WalletStill DEF ClickConnect, context, dashboard, ContextTyped,
       DashboardTyped, ActionTyped
  <2>3. TypeOK'
    BY <2>1, <2>2, PartsNext DEF ConnectTyped
  <2>4. CarriesAccount' /\ BlankUntilMounted' /\ ~Settling'
    BY <2>1, <2>2 DEF CarriesAccount, BlankUntilMounted, Settling
  <2>5. SavedWhenSettled' /\ TestnetWhenSettled'
    BY <2>1, <2>2, <2>4 DEF SavedWhenSettled, TestnetWhenSettled
  <2> QED BY <2>3, <2>4, <2>5 DEF IInv
<1> QED BY <1>2, <1>3

\* A late balance or position is a value of some account; it moves nothing else
\* (WalletContext.tsx:117, app/page.tsx:481-497).
LEMMA AnswersKeep ==
    ASSUME IInv, updateBalance \/ fetchUserPositions
    PROVE  IInv'
<1>1. WalletTyped /\ ContextTyped /\ DashboardTyped /\ ActionTyped /\ ConnectTyped
  BY Parts DEF IInv
<1>2. /\ UNCHANGED <<wallet, mounted, connecting, connect, address, savedAddress>>
      /\ UNCHANGED <<isConnected, isActionLoading, action>>
  BY DEF updateBalance, fetchUserPositions, context
<1>3. ContextTyped' /\ DashboardTyped' /\ ActionTyped'
  <2>1. CASE updateBalance
    <3>1. PICK a \in balanceReads : /\ balanceReads' = balanceReads \ {a}
                                    /\ balance' \in {a, balance}
      BY <2>1 DEF updateBalance
    <3>2. UNCHANGED <<chainId, accountInfo, userPositions, isLoading, fetches>>
      BY <2>1 DEF updateBalance, dashboard
    <3>3. ContextTyped' /\ ActionTyped'
      BY <1>1, <1>2, <3>1, <3>2 DEF ContextTyped, ActionTyped, Holders
    <3> QED BY <1>1, <3>2, <3>3 DEF DashboardTyped
  <2>2. CASE fetchUserPositions
    <3>1. PICK a \in fetches : /\ fetches' = fetches \ {a}
                               /\ userPositions' \in {a, userPositions}
      BY <2>2 DEF fetchUserPositions
    <3>2. isLoading' = FALSE /\ UNCHANGED <<context, balanceReads>>
      BY <2>2 DEF fetchUserPositions
    <3>3. DashboardTyped'
      BY <1>1, <3>1, <3>2 DEF DashboardTyped, Holders
    <3> QED BY <1>1, <1>2, <3>2, <3>3 DEF ContextTyped, ActionTyped, context
  <2> QED BY <2>1, <2>2
<1>4. TypeOK'
  BY <1>1, <1>2, <1>3, WalletStill, PartsNext DEF ConnectTyped
<1>5. CarriesAccount' /\ BlankUntilMounted' /\ SavedWhenSettled'
  BY <1>2 DEF IInv, CarriesAccount, BlankUntilMounted, SavedWhenSettled, Settling
<1>6. TestnetWhenSettled'
  BY <1>2, WalletStill DEF IInv, TestnetWhenSettled, Settling
<1> QED BY <1>4, <1>5, <1>6 DEF IInv

\* The Dashboard's action and its refreshes (app/page.tsx:499-590).
LEMMA ActionKeeps ==
    ASSUME IInv, ConfirmAction \/ handleActionConfirm
    PROVE  IInv'
<1>1. WalletTyped /\ ContextTyped /\ DashboardTyped /\ ActionTyped
  BY Parts DEF IInv
<1>2. mounted = TRUE /\ mounted' = TRUE
  <2>1. CASE ConfirmAction BY <2>1, Parts DEF IInv, ConfirmAction, ConnectTyped
  <2>2. CASE handleActionConfirm
    <3>1. action.at \in {"transaction", "signer", "info"} /\ mounted' = mounted
      BY <2>2 DEF handleActionConfirm, ActionSettles, ActionReadsSigner, ActionRefreshes
    <3>2. action # NoAction
      BY <3>1 DEF NoAction
    <3> QED BY <3>1, <3>2, Parts DEF IInv, BlankUntilMounted, ConnectTyped
  <2> QED BY <2>1, <2>2
<1>3. /\ UNCHANGED <<wallet, connecting, connect, address, savedAddress, isConnected>>
      /\ UNCHANGED <<balance, chainId, balanceReads>>
  BY DEF ConfirmAction, handleActionConfirm, context
<1>4. ActionTyped' /\ accountInfo' \in Readers /\ DashboardTyped'
  <2>1. CASE ConfirmAction
    <3>1. action' \in Confirmations /\ isActionLoading' = TRUE
      BY <1>1, <2>1 DEF ConfirmAction, Confirmations, ContextTyped, Readers
    <3>2. UNCHANGED <<accountInfo, dashboard>>
      BY <2>1 DEF ConfirmAction, context
    <3> QED
      BY <1>1, <1>3, <3>1, <3>2 DEF ActionTyped, ContextTyped, DashboardTyped, dashboard
  <2>2. CASE ActionSettles
    <3>1. NoAction \in Confirmations
      BY DEF NoAction, Confirmations, Holders, Readers
    <3>2. action' \in Confirmations
      BY <1>1, <2>2, <3>1 DEF ActionSettles, Confirmations, ActionTyped
    <3>3. isActionLoading' \in BOOLEAN
      BY <1>1, <2>2 DEF ActionSettles, ActionTyped
    <3> QED BY <1>1, <1>3, <2>2, <3>2, <3>3
            DEF ActionSettles, ActionTyped, ContextTyped, DashboardTyped, dashboard
  <2>3. CASE ActionReadsSigner
    <3>1. AccountRead \in Readers
      BY <1>1 DEF AccountRead, Readers, WalletTyped, Holders
    <3>2. action' \in Confirmations
      BY <1>1, <2>3, <3>1 DEF ActionReadsSigner, Confirmations, ActionTyped
    <3> QED BY <1>1, <1>3, <2>3, <3>2
            DEF ActionReadsSigner, ActionTyped, ContextTyped, DashboardTyped, dashboard
  <2>4. CASE ActionRefreshes
    <3>1. /\ action.account \in Holders /\ action.reader \in Readers
      BY <1>1 DEF ActionTyped, Confirmations
    <3>2. accountInfo' \in Readers
      BY <2>4, <3>1 DEF ActionRefreshes, Readers
    <3>3. DashboardTyped'
      <4>1. /\ {action.account} \ {None} \in SUBSET Accounts /\ address' \in Holders
            /\ Rerender(TRUE, {action.account} \ {None})
        BY <1>1, <1>3, <2>4, <3>1 DEF ActionRefreshes, ContextTyped, Holders
      <4> QED BY <1>1, <4>1, RerenderTyped
    <3>4. ActionTyped'
      BY <1>1, <1>3, <2>4
      DEF ActionRefreshes, ActionTyped, NoAction, Confirmations, Holders, Readers
    <3> QED BY <3>2, <3>3, <3>4
  <2> QED BY <2>1, <2>2, <2>3, <2>4 DEF handleActionConfirm
<1>5. ContextTyped'
  BY <1>1, <1>3, <1>4 DEF ContextTyped
<1> QED BY <1>2, <1>3, <1>4, <1>5, WalletStill, Handling

\* The user moves the wallet to another account or chain.
LEMMA WalletKeeps ==
    ASSUME IInv, WalletMoves
    PROVE  IInv'
<1>1. WalletTyped /\ ContextTyped /\ DashboardTyped /\ ActionTyped /\ mounted = TRUE
  BY Parts DEF IInv, ConnectTyped, WalletMoves, SwitchAccount, SwitchChain
<1>2. /\ UNCHANGED <<context, dashboard, mounted, connecting, connect>>
      /\ UNCHANGED <<balanceReads, isActionLoading, action>>
  BY DEF WalletMoves
<1>3. WalletTyped' /\ (onTestnet \/ ReloadComing => onTestnet' \/ ReloadComing')
  <2>1. CASE SwitchAccount
    <3>1. PICK a \in Holders : /\ walletAccount' = a
                               /\ events' = Append(events, AccountsChanged(a))
      BY <2>1 DEF SwitchAccount, Holders
    <3>2. AccountsChanged(a) \in Events
      BY <3>1 DEF AccountsChanged, Events, Holders
    <3>3. /\ events' \in Seq(Events) /\ Len(events') <= EVENT_LIMIT
          /\ ReloadComing => ReloadComing'
      BY <1>1, <2>1, <3>1, <3>2, Emits DEF WalletTyped, SwitchAccount
    <3> QED BY <1>1, <2>1, <3>1, <3>3 DEF WalletTyped, SwitchAccount
  <2>2. CASE SwitchChain
    <3>1. ChainChanged \in Events
      BY DEF ChainChanged, Events, Holders
    <3>2. events' \in Seq(Events) /\ Len(events') <= EVENT_LIMIT /\ ReloadComing'
      BY <1>1, <2>2, <3>1, Emits DEF WalletTyped, SwitchChain
    <3>3. onTestnet' \in BOOLEAN
      BY <2>2 DEF SwitchChain
    <3> QED BY <1>1, <2>2, <3>2, <3>3 DEF WalletTyped, SwitchChain
  <2> QED BY <2>1, <2>2 DEF WalletMoves
<1>4. ContextTyped' /\ DashboardTyped' /\ ActionTyped'
  BY <1>1, <1>2 DEF context, dashboard, ContextTyped, DashboardTyped, ActionTyped
<1> QED BY <1>1, <1>2, <1>3, <1>4, Handling DEF context

-----------------------------------------------------------------------------
LEMMA InitIInv == Init => IInv
<1> SUFFICES ASSUME Init PROVE IInv
  OBVIOUS
<1>1. WalletTyped
  <2>1. events \in Seq(Events) /\ Len(events) = 0
    BY EmptySeq DEF Init
  <2> QED BY <2>1, EventLimitAssumption DEF Init, WalletTyped, Holders
<1>2. ContextTyped /\ DashboardTyped
  BY DEF Init, ContextTyped, DashboardTyped, Holders, Readers
<1>3. ConnectTyped /\ ActionTyped
  BY DEF Init, ConnectTyped, ActionTyped, Calls, Confirmations, Idle, NoAction, Holders, Readers
<1>4. CarriesAccount /\ BlankUntilMounted /\ SavedWhenSettled /\ TestnetWhenSettled
  BY DEF Init, CarriesAccount, BlankUntilMounted, SavedWhenSettled, TestnetWhenSettled,
     Settling, Idle
<1> QED BY <1>1, <1>2, <1>3, <1>4, Parts DEF IInv

LEMMA NextIInv == IInv /\ [Next]_vars => IInv'
<1> SUFFICES ASSUME IInv, [Next]_vars PROVE IInv'
  OBVIOUS
<1>1. CASE Mount BY <1>1, MountKeeps
<1>2. CASE Deliver BY <1>2, DeliverKeeps
<1>3. CASE ConnectStep BY <1>3, ConnectKeeps
<1>4. CASE updateBalance BY <1>4, AnswersKeep
<1>5. CASE fetchUserPositions BY <1>5, AnswersKeep
<1>6. CASE handleActionConfirm BY <1>6, ActionKeeps
<1>7. CASE ClickConnect BY <1>7, ClickKeeps
<1>8. CASE ClickDisconnect BY <1>8, ClickKeeps
<1>9. CASE ConfirmAction BY <1>9, ActionKeeps
<1>10. CASE UserReloads BY <1>10, ReloadKeeps DEF UserReloads
<1>11. CASE WalletMoves BY <1>11, WalletKeeps
<1>12. CASE UNCHANGED vars
  BY <1>12 DEF vars, wallet, context, dashboard, IInv, TypeOK, CarriesAccount, BlankUntilMounted,
     SavedWhenSettled, TestnetWhenSettled, Settling, ReloadComing, ChainChanged, Idle, NoAction,
     Readers
<1> QED
  BY <1>1, <1>2, <1>3, <1>4, <1>5, <1>6, <1>7, <1>8, <1>9, <1>10, <1>11, <1>12 DEF Next

\* The invariant that carries the three theorems below.
THEOREM Invariant == Spec => []IInv
BY InitIInv, NextIInv, PTL DEF Spec

\* Every variable keeps its type, and the wallet's undelivered events their bound.
THEOREM TypeCorrect == Spec => []TypeOK
<1>1. IInv => TypeOK
  BY DEF IInv
<1> QED BY <1>1, Invariant, PTL

\* Outside a connection the saved address is the one shown, whatever handlers and
\* answers interleave (WalletContext.tsx:90, 114-116, 188-189, 216).
THEOREM SavesWhatItShows == Spec => []SavedIsAddress
<1>1. IInv => SavedIsAddress
  BY DEF IInv, SavedWhenSettled, SavedIsAddress
<1> QED BY <1>1, Invariant, PTL

\* A connected page's wallet is on the testnet, or the reload is on its way
\* (web3.ts:65-109, WalletContext.tsx:131).
THEOREM ConnectsOnTestnet == Spec => []ConnectedOnTestnet
<1>1. IInv => ConnectedOnTestnet
  BY DEF IInv, TestnetWhenSettled, ReloadComing, ConnectedOnTestnet
<1> QED BY <1>1, Invariant, PTL
=============================================================================
