----------------------------- MODULE DappWallets -----------------------------
(* How a page connects browser wallets through the SDK: the discovery dialog  *)
(* (showWalletDiscoveryModal), the connectors of Leather, Xverse and Asigna,  *)
(* which ask the wallet three things one after the other, and what is kept in *)
(* the local storage.  A wallet answers late, refuses, changes its account    *)
(* between two questions, or appears only after the dialog was drawn.  A      *)
(* second click on a wallet that is being asked adds nothing to the first.    *)
EXTENDS Naturals, Sequences, FiniteSets, SequencesExt

CONSTANTS Dialogs,         \* calls of showWalletDiscoveryModal()
          Wallets,         \* connectors
          Accounts,        \* accounts a user may select in a wallet
          None,            \* nothing chosen, kept or connected
          NotAsked,        \* a dialog that was not asked for
          Pending,         \* a promise that is not resolved
          MaxHistorySize,  \* maxHistorySize
          MaxSwitches,     \* bound of this model on changes of an account
          MaxSaves         \* bound of this model on saved connections

VARIABLES installed,    \* wallets whose provider is on the window
          detected,     \* of each dialog: the wallets it offers as detected
          account,      \* the account selected in each wallet
          shown,        \* dialogs on the page
          checked,      \* dialogs whose box "remember" is ticked
          connecting,   \* connect() calls: dialog, wallet, step, address
          answers,      \* what each promise of a dialog was resolved with
          remember,     \* velumx_wallet_remember
          lastChoice,   \* velumx_wallet_last_choice
          saved,        \* velumx_wallet_connection
          history,      \* velumx_wallet_history
          reconnecting, \* what autoReconnect() read before it waits, or None
          switches, saves

walletVars == <<installed, account, switches>>
dialogVars == <<detected, shown, checked, connecting, answers, remember, lastChoice>>
storageVars == <<saved, history, reconnecting, saves>>
vars == <<walletVars, dialogVars, storageVars>>

Connection(w, a) == [connectorId |-> w, address |-> a]

\* The page is loaded; what an earlier visit remembered is in the storage.
Init ==
    /\ installed = {}
    /\ \E a \in Accounts : account = [w \in Wallets |-> a]
    /\ detected = [d \in Dialogs |-> {}]
    /\ shown = {} /\ checked = {} /\ connecting = {}
    /\ answers = [d \in Dialogs |-> NotAsked]
    /\ \/ remember = FALSE /\ lastChoice = None
       \/ remember = TRUE /\ lastChoice \in Wallets
    /\ saved = None /\ history = << >> /\ reconnecting = None
    /\ switches = 0 /\ saves = 0

-----------------------------------------------------------------------------
(* The wallets *)

\* An extension puts its provider on the window.
Installed(w) ==
    /\ w \notin installed
    /\ installed' = installed \union {w}
    /\ UNCHANGED <<account, switches, dialogVars, storageVars>>

\* The user selects another account.
AccountChanges(w, a) ==
    /\ w \in installed /\ account[w] # a
    /\ switches < MaxSwitches
    /\ account' = [account EXCEPT ![w] = a]
    /\ switches' = switches + 1
    /\ UNCHANGED <<installed, dialogVars, storageVars>>

-----------------------------------------------------------------------------
(* The dialog *)

Call(d, w) == [dialog |-> d, wallet |-> w, step |-> "addresses",
               address |-> None]

\* The list of wallets is made once: what is installed later is not offered.
GetWalletList(d) == detected' = [detected EXCEPT ![d] = installed]

\* showWalletDiscoveryModal() with a remembered choice: no dialog.
ShowRemembered(d) ==
    /\ answers[d] = NotAsked
    /\ remember /\ lastChoice \in installed
    /\ GetWalletList(d)
    /\ answers' = [answers EXCEPT ![d] = Pending]
    /\ connecting' = connecting \union {Call(d, lastChoice)}
    /\ UNCHANGED <<shown, checked, remember, lastChoice>>
    /\ UNCHANGED <<walletVars, storageVars>>

Show(d) ==
    /\ answers[d] = NotAsked
    /\ ~remember \/ lastChoice \notin installed
    /\ GetWalletList(d)
    /\ answers' = [answers EXCEPT ![d] = Pending]
    /\ shown' = shown \union {d}
    /\ UNCHANGED <<checked, connecting, remember, lastChoice>>
    /\ UNCHANGED <<walletVars, storageVars>>

\* The box "remember" of a dialog.
Ticks(d) ==
    /\ d \in shown
    /\ checked' = IF d \in checked THEN checked \ {d} ELSE checked \union {d}
    /\ UNCHANGED <<detected, shown, connecting, answers, remember, lastChoice>>
    /\ UNCHANGED <<walletVars, storageVars>>

\* selectWallet(), by a click or a key: the choice is remembered before the
\* wallet has agreed.  Nothing keeps the user from choosing another one while
\* the first is asked.
SelectWallet(d, w) ==
    /\ d \in shown /\ w \in detected[d]
    /\ \A c \in connecting : ~(c.dialog = d /\ c.wallet = w)
    /\ LET r == d \in checked \/ remember
       IN  /\ lastChoice' = IF r THEN w ELSE lastChoice
           /\ remember' = r
           /\ connecting' = connecting \union {Call(d, w)}
    /\ UNCHANGED <<detected, shown, checked, answers>>
    /\ UNCHANGED <<walletVars, storageVars>>

\* cleanup() and resolve(): only the first counts.
Resolved(d, answer) ==
    IF answers[d] = Pending THEN [answers EXCEPT ![d] = answer] ELSE answers

\* The cross and a click beside the dialog.
Dismiss(d) ==
    /\ d \in shown
    /\ shown' = shown \ {d}
    /\ answers' = Resolved(d, None)
    /\ UNCHANGED <<detected, checked, connecting, remember, lastChoice>>
    /\ UNCHANGED <<walletVars, storageVars>>

\* connect() of a connector: first the addresses, of which it takes the first.
AddressesAnswered(c) ==
    /\ c \in connecting /\ c.step = "addresses"
    /\ connecting' = (connecting \ {c}) \union
          {[c EXCEPT !.step = "network", !.address = account[c.wallet]]}
    /\ UNCHANGED <<detected, shown, checked, answers, remember, lastChoice>>
    /\ UNCHANGED <<walletVars, storageVars>>

\* Then the network.
NetworkAnswered(c) ==
    /\ c \in connecting /\ c.step = "network"
    /\ connecting' = (connecting \ {c}) \union {[c EXCEPT !.step = "key"]}
    /\ UNCHANGED <<detected, shown, checked, answers, remember, lastChoice>>
    /\ UNCHANGED <<walletVars, storageVars>>

\* Then the public key, which may be refused; the dialog goes with the answer.
Connected(c) ==
    /\ c \in connecting /\ c.step = "key"
    /\ connecting' = connecting \ {c}
    /\ shown' = shown \ {c.dialog}
    /\ answers' = Resolved(c.dialog, Connection(c.wallet, c.address))
    /\ UNCHANGED <<detected, checked, remember, lastChoice>>
    /\ UNCHANGED <<walletVars, storageVars>>

\* A failure that leaves the dialog for another choice.
RefusedAndShown(c) ==
    /\ c \in connecting /\ c.step # "key"
    /\ connecting' = connecting \ {c}
    /\ answers' = Resolved(c.dialog, None)
    /\ UNCHANGED <<detected, shown, checked, remember, lastChoice>>
    /\ UNCHANGED <<walletVars, storageVars>>

\* The user refuses, the wallet is locked or its network cannot be told: the
\* promise is resolved with null, also for the wallet that is still asked.
Refused(c) ==
    /\ c \in connecting /\ c.step # "key"
    /\ connecting' = connecting \ {c}
    /\ shown' = shown \ {c.dialog}
    /\ answers' = Resolved(c.dialog, None)
    /\ UNCHANGED <<detected, checked, remember, lastChoice>>
    /\ UNCHANGED <<walletVars, storageVars>>

-----------------------------------------------------------------------------
(* The local storage of one tab *)

\* saveToHistory() without the removal of what is there already.
HistoryAsIs(entry) == SubSeq(<<entry>> \o history, 1,
    IF Len(history) < MaxHistorySize THEN Len(history) + 1 ELSE MaxHistorySize)

\* filter(): the elements at the positions I, in the order they had.
Before(I, i) == Cardinality({j \in I : j < i})
Filtered(s, I) ==
    [k \in 1..Cardinality(I) |-> s[CHOOSE i \in I : Before(I, i) = k - 1]]

\* saveToHistory(): the newest first, each connection once, a bounded number.
HistoryWith(entry) ==
    LET others == {i \in DOMAIN history : history[i] # entry}
        all == <<entry>> \o Filtered(history, others)
    IN  SubSeq(all, 1, IF Len(all) > MaxHistorySize THEN MaxHistorySize
                                                    ELSE Len(all))

\* saveConnection().
Saves(entry) ==
    /\ saves < MaxSaves
    /\ saved' = entry
    /\ history' = HistoryWith(entry)
    /\ saves' = saves + 1

\* The page saves what the dialog was answered with.
SaveConnection(d) ==
    /\ answers[d] \notin {NotAsked, Pending, None}
    /\ Saves(answers[d])
    /\ UNCHANGED reconnecting
    /\ UNCHANGED <<walletVars, dialogVars>>

\* clearConnection(); also getConnection() when the record has expired.
ClearConnection ==
    /\ saved # None /\ saved' = None
    /\ UNCHANGED <<history, reconnecting, saves, walletVars, dialogVars>>

\* clearConnectionHistory(), and clearAllConnections() with the above.
ClearHistory ==
    /\ history # << >> /\ history' = << >>
    /\ UNCHANGED <<saved, reconnecting, saves, walletVars, dialogVars>>

\* autoReconnect() reads what is saved, and waits for the wallet.
AutoReconnect ==
    /\ saved # None /\ reconnecting = None
    /\ reconnecting' = saved
    /\ UNCHANGED <<saved, history, saves, walletVars, dialogVars>>

\* The wallet answers with the account it has now, which is saved whatever
\* happened to the record meanwhile, or it does not answer.
Reconnected ==
    /\ reconnecting # None
    /\ reconnecting.connectorId \in installed
    /\ Saves(Connection(reconnecting.connectorId,
                        account[reconnecting.connectorId]))
    /\ reconnecting' = None
    /\ UNCHANGED <<walletVars, dialogVars>>

ReconnectFails ==
    /\ reconnecting # None /\ reconnecting' = None
    /\ UNCHANGED <<saved, history, saves, walletVars, dialogVars>>

-----------------------------------------------------------------------------
DialogNext(d) ==
    \/ ShowRemembered(d) \/ Show(d) \/ Ticks(d) \/ Dismiss(d)
    \/ \E w \in Wallets : SelectWallet(d, w)
    \/ SaveConnection(d)

Next ==
    \/ \E w \in Wallets :
          Installed(w) \/ \E a \in Accounts : AccountChanges(w, a)
    \/ \E d \in Dialogs : DialogNext(d)
    \/ \E c \in connecting :
          \/ AddressesAnswered(c) \/ NetworkAnswered(c)
          \/ Connected(c) \/ Refused(c)
    \/ ClearConnection \/ ClearHistory
    \/ AutoReconnect \/ Reconnected \/ ReconnectFails

Spec == Init /\ [][Next]_vars

-----------------------------------------------------------------------------
\* Whichever of the wallets a user clicked answers or refuses first, and
\* whether the user closes the dialog meanwhile: a dialog is on the page only
\* while its promise is pending, and a promise that is pending has a dialog,
\* or a wallet that is asked without one, to answer it.
DialogUntilAnswered ==
    \A d \in Dialogs :
        /\ d \in shown => answers[d] = Pending
        /\ answers[d] = Pending =>
              d \in shown \/ \E c \in connecting : c.dialog = d

\* The history names each connection once and keeps to its size, and unless it
\* was cleared its first entry is the connection that is saved: across saves,
\* clearing and reconnections that end after it.
HistoryAgrees ==
    /\ IsInjective(history) /\ Len(history) <= MaxHistorySize
    /\ saved # None /\ history # << >> => Head(history) = saved

=============================================================================
