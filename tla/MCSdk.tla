------------------------------- MODULE MCSdk -------------------------------
(* The SDK in a browser, on small instances: the wallets it discovers, the    *)
(* balance, the history and the modal of a connected wallet, and the login.   *)
(* They share no state, so that their interleavings would add nothing: a      *)
(* behaviour of the instance is a behaviour of one of them, while the others  *)
(* do not move.                                                               *)
EXTENDS WalletModal

CONSTANTS None, Dialogs, Wallets, Accounts, NotAsked, Pending,
          MaxHistorySize, MaxSwitches, MaxSaves,
          Addresses, BalanceCalls, MaxBlocks, MaxFailures,
          PageCalls, LastPage, MaxPages,
          Logins, Users, MaxWindows

\* The history has room; a promise that is pending differs from what it may be
\* resolved with and from one that was never made.
ASSUME SdkAssumption ==
    /\ MaxHistorySize \in Nat \ {0}
    /\ Pending \notin {NotAsked, None}
    /\ Pending \notin [connectorId : Wallets, address : Accounts]

VARIABLES part,
          installed, detected, account, shown, checked, connecting, answers,
          remember, lastChoice, saved, history, reconnecting, switches, saves,
          wallet, balance, contextBalance, asked, loading, block, failures,
          walletId, listed, pageRef, hasMore, fetching, fetched,
          window, place, windows, pc, watches, timers, session, stored, revoking

dappVars == <<installed, detected, account, shown, checked, connecting, answers,
              remember, lastChoice, saved, history, reconnecting, switches, saves>>
balanceVars == <<wallet, balance, contextBalance, asked, loading, block, failures>>
listVars == <<walletId, listed, pageRef, hasMore, fetching, fetched>>
loginVars == <<window, place, windows, pc, watches, timers, session, stored, revoking>>
sdkVars == <<part, dappVars, balanceVars, listVars, modalVars, loginVars>>

Dapp == INSTANCE DappWallets
Balance == INSTANCE WalletBalance
List == INSTANCE WalletHistory WITH shown <- listed, Calls <- PageCalls
Login == INSTANCE BrowserLogin

SdkInit ==
    /\ part \in {"wallets", "balance", "list", "modal", "login"}
    /\ Dapp!Init
    /\ part # "wallets" =>
          ~remember /\ \A w \in Wallets : account[w] = CHOOSE a \in Accounts : TRUE
    /\ Balance!Init /\ List!Init /\ Init
    /\ Login!Init /\ (part # "login" => session = None)

SdkNext ==
    /\ UNCHANGED part
    /\ \/ /\ part = "wallets" /\ Dapp!Next
          /\ UNCHANGED <<balanceVars, listVars, modalVars, loginVars>>
       \/ /\ part = "balance" /\ Balance!Next
          /\ UNCHANGED <<dappVars, listVars, modalVars, loginVars>>
       \/ /\ part = "list" /\ List!Next
          /\ UNCHANGED <<dappVars, balanceVars, modalVars, loginVars>>
       \/ /\ part = "modal" /\ Next
          /\ UNCHANGED <<dappVars, balanceVars, listVars, loginVars>>
       \/ /\ part = "login" /\ Login!Next
          /\ UNCHANGED <<dappVars, balanceVars, listVars, modalVars>>

\* The fairness of Balance and of List, where they run.
SdkFairness ==
    /\ WF_balanceVars(part = "balance" /\ Balance!Interval)
    /\ \A c \in BalanceCalls :
          WF_balanceVars(part = "balance" /\ (Balance!Answered(c) \/ Balance!Fails(c)))
    /\ SF_listVars(part = "list" /\ List!Interval)
    /\ \A c \in PageCalls : SF_listVars(part = "list" /\ List!Arrives(c))

SdkSpec == SdkInit /\ [][SdkNext]_sdkVars /\ SdkFairness

\* The properties of the other modules, by their names there; the temporal ones
\* hold where the module runs.
BalanceCatchesUp == part = "balance" => Balance!BalanceCatchesUp
HistoryRepaired == part = "list" => List!HistoryRepaired
DialogUntilAnswered == Dapp!DialogUntilAnswered
HistoryAgrees == Dapp!HistoryAgrees
NoWindowLeft == Login!NoWindowLeft
=============================================================================
