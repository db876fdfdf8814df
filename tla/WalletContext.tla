---------------------------- MODULE WalletContext ----------------------------
(***************************************************************************)
(* The wallet connection of the web interface (WalletContext.tsx), the     *)
(* part of web3.ts it calls, and the Dashboard page that shows what it     *)
(* knows.                                                                  *)
(*                                                                         *)
(* Everything after an `await` runs in a later step, between which other   *)
(* handlers run: each call in flight is a record or a member of a set, and *)
(* a value read from the chain is represented by the account it was read   *)
(* for.  The wallet is external: it changes account and chain by itself,   *)
(* tells the page by events that are delivered later, and answers a prompt *)
(* either way.                                                             *)
(***************************************************************************)
EXTENDS Naturals, Sequences

CONSTANTS Accounts,       \* accounts of the user's wallet
          None,           \* null; as the wallet's account: it exposes none
          Zeros,          \* what getUserAccountInfo returns when a call fails
          EVENT_LIMIT     \* bound on the wallet's undelivered events

ASSUME EventLimitAssumption == EVENT_LIMIT \in Nat

VARIABLES
    walletAccount,        \* the account the wallet exposes first
    onTestnet,            \* whether the wallet is on the Electroneum testnet
    events,               \* events the wallet has emitted to this page
    savedAddress,         \* localStorage.walletAddress
    mounted,              \* FALSE while the page (re)loads
    isConnected, address, balance, chainId, connecting, accountInfo,
    connect,              \* the connectWallet call in flight
    balanceReads,         \* updateBalance calls nobody awaits
    userPositions, isLoading, isActionLoading,
    fetches,              \* fetchUserPositions calls in flight
    action                \* the handleActionConfirm call in flight

wallet    == <<walletAccount, onTestnet, events>>
context   == <<isConnected, address, balance, chainId, accountInfo, savedAddress>>
dashboard == <<userPositions, isLoading, fetches>>
vars == <<wallet, context, dashboard, mounted, connecting, connect, balanceReads,
          isActionLoading, action>>

Idle == [at |-> "idle", account |-> None, refreshes |-> FALSE]
NoAction == [at |-> "idle", account |-> None, reader |-> None]
AccountsChanged(a) == [kind |-> "accountsChanged", account |-> a]
ChainChanged == [kind |-> "chainChanged", account |-> None]

Init ==
    /\ walletAccount \in Accounts \cup {None}
    /\ onTestnet \in BOOLEAN
    /\ events = <<>>
    /\ savedAddress \in Accounts \cup {None}
    /\ mounted = FALSE
    /\ isConnected = FALSE /\ address = None /\ balance = None /\ chainId = None
    /\ connecting = FALSE /\ accountInfo = None
    /\ connect = Idle /\ balanceReads = {}
    /\ userPositions = None /\ isLoading = FALSE /\ isActionLoading = FALSE
    /\ fetches = {} /\ action = NoAction

(***************************************************************************)
(* The Dashboard's effect on [isConnected, address, accountInfo]: every    *)
(* answer of getUserAccountInfo is a new object, so it counts as a change. *)
(***************************************************************************)
Rerender(refreshed, asked) ==
    LET changed == \/ refreshed
                   \/ isConnected' # isConnected
                   \/ address' # address
        shown   == IF changed /\ isConnected' /\ address' # None THEN {address'} ELSE {}
    IN /\ fetches' = fetches \cup shown \cup asked
       /\ isLoading' = (isLoading \/ shown \cup asked # {})
       /\ UNCHANGED userPositions

\* The catch clause that forgets the saved address.
disconnectWallet_saved ==
    /\ isConnected' = FALSE /\ address' = None /\ balance' = None
    /\ chainId' = None /\ accountInfo' = None /\ UNCHANGED savedAddress
    /\ Rerender(FALSE, {})

disconnectWallet ==
    /\ isConnected' = FALSE /\ address' = None /\ balance' = None
    /\ chainId' = None /\ accountInfo' = None /\ savedAddress' = None
    /\ Rerender(FALSE, {})

(***************************************************************************)
(* connectWallet.  `refreshes` is what the refreshAccountInfo of the       *)
(* render that was clicked will see: its own isConnected and address.      *)
(***************************************************************************)
StartConnecting ==
    /\ ~connecting
    /\ connecting' = TRUE
    /\ connect' = [at |-> "accounts", account |-> None,
                   refreshes |-> isConnected \/ address # None]

At(step) == connect.at = step
Goto(step) == connect' = [connect EXCEPT !.at = step]

\* eth_requestAccounts: the wallet prompts only when it exposes no account yet.
RequestAccounts ==
    /\ At("accounts") /\ Goto("network")
    /\ \/ walletAccount # None /\ UNCHANGED <<walletAccount, events>>
       \/ /\ walletAccount = None /\ Len(events) < EVENT_LIMIT
          /\ walletAccount' \in Accounts
          /\ events' = Append(events, AccountsChanged(walletAccount'))
    /\ UNCHANGED <<onTestnet, context, dashboard, connecting>>

CheckNetwork ==
    /\ At("network") /\ Goto(IF onTestnet THEN "list" ELSE "switch")
    /\ UNCHANGED <<wallet, context, dashboard, connecting>>

\* wallet_switchEthereumChain, after wallet_addEthereumChain where it is unknown.
SwitchNetwork ==
    /\ At("switch") /\ Goto("list")
    /\ IF onTestnet
       THEN UNCHANGED <<onTestnet, events>>
       ELSE /\ Len(events) < EVENT_LIMIT
            /\ onTestnet' = TRUE
            /\ events' = Append(events, ChainChanged)
    /\ UNCHANGED <<walletAccount, context, dashboard, connecting>>

ListAccounts ==
    /\ At("list") /\ walletAccount # None
    /\ connect' = [connect EXCEPT !.at = "chain", !.account = walletAccount]
    /\ UNCHANGED <<wallet, context, dashboard, connecting>>

\* provider.getNetwork throws when the chain is no longer the one it was made for.
ReadChain ==
    /\ At("chain") /\ onTestnet
    /\ chainId' = "testnet" /\ address' = connect.account /\ savedAddress' = connect.account
    /\ Goto("balance")
    /\ UNCHANGED <<wallet, isConnected, balance, accountInfo, connecting>>
    /\ Rerender(FALSE, {})

Connected ==
    /\ isConnected' = TRUE /\ connecting' = FALSE /\ connect' = Idle

\* A failed balance read that stores the zeros of the other helpers.
ReadBalance_zeros ==
    /\ At("balance")
    /\ balance' \in {connect.account, Zeros}
    /\ IF connect.refreshes
       THEN Goto("signer") /\ UNCHANGED <<isConnected, connecting>>
       ELSE Connected
    /\ UNCHANGED <<wallet, address, chainId, accountInfo, savedAddress>>
    /\ Rerender(FALSE, {})

\* An error of getBalance is caught and the old balance stays.
ReadBalance ==
    /\ At("balance")
    /\ balance' \in {connect.account, balance}
    /\ IF connect.refreshes
       THEN Goto("signer") /\ UNCHANGED <<isConnected, connecting>>
       ELSE Connected
    /\ UNCHANGED <<wallet, address, chainId, accountInfo, savedAddress>>
    /\ Rerender(FALSE, {})

\* getUserAccountInfo asks the wallet for its account of that moment ...
AccountRead == IF walletAccount = None THEN Zeros ELSE walletAccount
ReadSigner ==
    /\ At("signer")
    /\ connect' = [connect EXCEPT !.at = "info", !.account = AccountRead]
    /\ UNCHANGED <<wallet, context, dashboard, connecting>>

\* ... and answers zeros when a call fails.
ReadAccountInfo ==
    /\ At("info")
    /\ accountInfo' \in {connect.account, Zeros}
    /\ Connected
    /\ UNCHANGED <<wallet, address, balance, chainId, savedAddress>>
    /\ Rerender(TRUE, {})

\* connectWallet without the finally clause.
ConnectFails_spins ==
    /\ connect.at \in {"accounts", "network", "switch", "list", "chain"}
    /\ connect' = Idle /\ UNCHANGED connecting
    /\ disconnectWallet
    /\ UNCHANGED wallet

\* Any call before the address is set may fail, or the user refuse a prompt.
ConnectFails ==
    /\ connect.at \in {"accounts", "network", "switch", "list", "chain"}
    /\ connect' = Idle /\ connecting' = FALSE
    /\ disconnectWallet
    /\ UNCHANGED wallet

ConnectStep ==
    /\ mounted
    /\ \/ RequestAccounts \/ CheckNetwork \/ SwitchNetwork \/ ListAccounts \/ ReadChain
       \/ ReadBalance \/ ReadSigner \/ ReadAccountInfo \/ ConnectFails
    /\ UNCHANGED <<mounted, balanceReads, isActionLoading, action>>

-----------------------------------------------------------------------------
(***************************************************************************)
(* The page: mounting, the two listeners and the wallet button.            *)
(***************************************************************************)
\* The mount effect reconnects when an address was saved.
Mount ==
    /\ ~mounted /\ mounted' = TRUE
    /\ IF savedAddress # None THEN StartConnecting ELSE UNCHANGED <<connecting, connect>>
    /\ UNCHANGED <<wallet, context, dashboard, balanceReads, isActionLoading, action>>

Reload ==
    /\ mounted' = FALSE
    /\ isConnected' = FALSE /\ address' = None /\ balance' = None /\ chainId' = None
    /\ connecting' = FALSE /\ accountInfo' = None
    /\ connect' = Idle /\ balanceReads' = {}
    /\ userPositions' = None /\ isLoading' = FALSE /\ isActionLoading' = FALSE
    /\ fetches' = {} /\ action' = NoAction
    /\ events' = <<>>
    /\ UNCHANGED <<walletAccount, onTestnet, savedAddress>>

handleAccountsChanged(account) ==
    /\ IF account = None
       THEN disconnectWallet /\ UNCHANGED balanceReads
       ELSE IF account # address
       THEN /\ address' = account /\ savedAddress' = account
            /\ balanceReads' = balanceReads \cup {account}
            /\ UNCHANGED <<isConnected, balance, chainId, accountInfo>>
            /\ Rerender(FALSE, {})
       ELSE UNCHANGED <<context, dashboard, balanceReads>>
    /\ events' = Tail(events)
    /\ UNCHANGED <<walletAccount, onTestnet, mounted, connecting, connect,
                   isActionLoading, action>>

\* chainChanged that only updates the chain, without the reload.
handleChainChanged_stays ==
    /\ chainId' = IF onTestnet THEN "testnet" ELSE None
    /\ events' = Tail(events)
    /\ UNCHANGED <<walletAccount, onTestnet, isConnected, address, balance, accountInfo,
                   savedAddress, dashboard, mounted, connecting, connect, balanceReads,
                   isActionLoading, action>>

handleChainChanged == Reload

Deliver ==
    /\ mounted /\ events # <<>>
    /\ \/ Head(events).kind = "accountsChanged" /\ handleAccountsChanged(Head(events).account)
       \/ Head(events).kind = "chainChanged" /\ handleChainChanged

\* The button calls connectWallet only while not connected, and is disabled meanwhile.
ClickConnect ==
    /\ mounted /\ ~isConnected
    /\ StartConnecting
    /\ UNCHANGED <<wallet, context, dashboard, mounted, balanceReads, isActionLoading, action>>

ClickDisconnect ==
    /\ mounted /\ isConnected
    /\ disconnectWallet
    /\ UNCHANGED <<wallet, mounted, connecting, connect, balanceReads, isActionLoading, action>>

UserReloads == mounted /\ Reload

\* The answer of an updateBalance that handleAccountsChanged did not wait for.
updateBalance ==
    /\ \E a \in balanceReads :
         /\ balanceReads' = balanceReads \ {a}
         /\ balance' \in {a, balance}
    /\ UNCHANGED <<wallet, isConnected, address, chainId, accountInfo, savedAddress, dashboard,
                   mounted, connecting, connect, isActionLoading, action>>

(***************************************************************************)
(* The Dashboard: answers of fetchUserPositions, and an action confirmed   *)
(* in its modal, which refreshes both reads when it succeeds.  The closure *)
(* of the click keeps the address it was rendered with.                    *)
(***************************************************************************)
fetchUserPositions ==
    /\ \E a \in fetches :
         /\ fetches' = fetches \ {a}
         /\ userPositions' \in {a, userPositions}
    /\ isLoading' = FALSE
    /\ UNCHANGED <<wallet, context, mounted, connecting, connect, balanceReads,
                   isActionLoading, action>>

ConfirmAction ==
    /\ mounted /\ isConnected /\ userPositions # None /\ ~isActionLoading
    /\ isActionLoading' = TRUE
    /\ action' = [at |-> "transaction", account |-> address, reader |-> None]
    /\ UNCHANGED <<wallet, context, dashboard, mounted, connecting, connect, balanceReads>>

\* The token action resolves to false or throws, or it succeeds ...
ActionSettles ==
    /\ action.at = "transaction"
    /\ \/ action' = NoAction /\ isActionLoading' = FALSE
       \/ action' = [action EXCEPT !.at = "signer"] /\ UNCHANGED isActionLoading
    /\ UNCHANGED <<accountInfo, dashboard>>

\* ... and then refreshAccountInfo and fetchUserPositions run.
ActionReadsSigner ==
    /\ action.at = "signer"
    /\ action' = [action EXCEPT !.at = "info", !.reader = AccountRead]
    /\ UNCHANGED <<accountInfo, dashboard, isActionLoading>>

ActionRefreshes ==
    /\ action.at = "info"
    /\ accountInfo' \in {action.reader, Zeros}
    /\ Rerender(TRUE, {action.account} \ {None})
    /\ action' = NoAction /\ isActionLoading' = FALSE

handleActionConfirm ==
    /\ UNCHANGED <<wallet, isConnected, address, balance, chainId, savedAddress, mounted,
                   connecting, connect, balanceReads>>
    /\ ActionSettles \/ ActionReadsSigner \/ ActionRefreshes

(***************************************************************************)
(* The wallet: the user picks another account or takes the site's access   *)
(* away, or moves to another chain.                                        *)
(***************************************************************************)
SwitchAccount ==
    /\ mounted /\ Len(events) < EVENT_LIMIT
    /\ \E a \in (Accounts \cup {None}) \ {walletAccount} :
         walletAccount' = a /\ events' = Append(events, AccountsChanged(a))
    /\ UNCHANGED onTestnet

SwitchChain ==
    /\ mounted /\ Len(events) < EVENT_LIMIT
    /\ onTestnet' = ~onTestnet
    /\ events' = Append(events, ChainChanged)
    /\ UNCHANGED walletAccount

WalletMoves ==
    /\ SwitchAccount \/ SwitchChain
    /\ UNCHANGED <<context, dashboard, mounted, connecting, connect, balanceReads,
                   isActionLoading, action>>

Next ==
    \/ Mount \/ Deliver \/ ConnectStep \/ updateBalance \/ fetchUserPositions
    \/ handleActionConfirm
    \/ ClickConnect \/ ClickDisconnect \/ ConfirmAction \/ UserReloads \/ WalletMoves

(***************************************************************************)
(* The page's own steps happen: the browser runs continuations and events, *)
(* and every promise settles (the node answers or fails, the user answers  *)
(* the wallet's prompt, a transaction is mined).  Clicks and the wallet's  *)
(* changes never have to happen.                                           *)
(***************************************************************************)
Fairness ==
    /\ WF_vars(Mount) /\ WF_vars(Deliver) /\ WF_vars(ConnectStep) /\ WF_vars(updateBalance)
    /\ WF_vars(fetchUserPositions) /\ WF_vars(handleActionConfirm)

Spec == Init /\ [][Next]_vars /\ Fairness

-----------------------------------------------------------------------------
(***************************************************************************)
(* Properties                                                              *)
(***************************************************************************)
Readers == Accounts \cup {None, Zeros}

TypeOK ==
    /\ walletAccount \in Accounts \cup {None} /\ onTestnet \in BOOLEAN
    /\ events \in Seq([kind : {"accountsChanged", "chainChanged"}, account : Accounts \cup {None}])
    /\ Len(events) <= EVENT_LIMIT
    /\ {savedAddress, address, balance, userPositions} \subseteq Accounts \cup {None}
    /\ {mounted, isConnected, connecting, isLoading, isActionLoading} \subseteq BOOLEAN
    /\ chainId \in {"testnet", None} /\ accountInfo \in Readers
    /\ connect \in [at : {"idle", "accounts", "network", "switch", "list", "chain", "balance",
                          "signer", "info"}, account : Readers, refreshes : BOOLEAN]
    /\ action \in [at : {"idle", "transaction", "signer", "info"},
                   account : Accounts \cup {None}, reader : Readers]
    /\ balanceReads \subseteq Accounts /\ fetches \subseteq Accounts

(***************************************************************************)
(* Outside a call of connectWallet the saved address is the address in     *)
(* use, whatever events and answers interleave: so a reload reconnects     *)
(* exactly the pages that show an address (WalletContext.tsx:90, 114-116,  *)
(* 188-189, 216).                                                          *)
(***************************************************************************)
SavedIsAddress == mounted /\ ~connecting => savedAddress = address

(***************************************************************************)
(* The actions of a connected page go to contract addresses of the         *)
(* Electroneum testnet, so its wallet is on the testnet, or the event that *)
(* reloads the page is on its way, also when the chain changes while       *)
(* connectWallet is waiting (web3.ts:65-109, WalletContext.tsx:131).       *)
(***************************************************************************)
ConnectedOnTestnet ==
    isConnected => onTestnet \/ \E i \in 1..Len(events) : events[i] = ChainChanged

(***************************************************************************)
(* The page never keeps spinning: connectWallet clears `connecting` on     *)
(* every path (WalletContext.tsx:204), and so do the two loading flags of  *)
(* the Dashboard (app/page.tsx:494, 586), also over disconnects and        *)
(* reloads.                                                                *)
(***************************************************************************)
SpinnersEnd ==
    /\ connecting ~> ~connecting
    /\ isLoading ~> ~isLoading
    /\ isActionLoading ~> ~isActionLoading

(***************************************************************************)
(* "Get account info" (WalletContext.tsx:194): a connection that completes *)
(* has loaded the account's information.                                   *)
(***************************************************************************)
ConnectLoadsAccountInfo ==
    [][~isConnected /\ isConnected' => accountInfo' # None]_vars

Settled ==
    /\ mounted /\ events = <<>> /\ ~connecting /\ ~isActionLoading
    /\ balanceReads = {} /\ fetches = {}

(***************************************************************************)
(* "User disconnected their wallet" (WalletContext.tsx:110): once it has   *)
(* heard so, the page is not connected.                                    *)
(***************************************************************************)
DisconnectSticks == Settled /\ walletAccount = None => ~isConnected

(***************************************************************************)
(* "Check if previously connected" (WalletContext.tsx:89): the address a   *)
(* reload reconnects with was left by a connection.                        *)
(***************************************************************************)
SavedWasConnected == Settled /\ savedAddress # None => isConnected

(***************************************************************************)
(* "Your Position" (app/page.tsx:619), whose cards show accountInfo when   *)
(* there is one: when nothing is in flight it is that of the account the   *)
(* page is connected with.                                                 *)
(***************************************************************************)
AccountInfoIsYours ==
    Settled /\ isConnected /\ address # None /\ accountInfo \in Accounts => accountInfo = address

(***************************************************************************)
(* "Account changed" (WalletContext.tsx:113): a balance or a position of   *)
(* the account shown is not replaced by a late answer for the one before.  *)
(***************************************************************************)
LateAnswersAreDropped ==
    [][mounted' /\ address # None /\ address' = address =>
         /\ balance = address => balance' = address
         /\ userPositions = address => userPositions' = address]_vars

=============================================================================
