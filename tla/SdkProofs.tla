----------------------------- MODULE SdkProofs -----------------------------
(* Proofs about the SDK in a browser, for any wallets, accounts, dialogs,     *)
(* logins and drafts: the dialog that connects a wallet, the history of       *)
(* connections, the window of a login and the modal that sends.  They share   *)
(* no state, so that each has its own invariant; the last theorem puts them   *)
(* together for the SDK as a whole.                                           *)
EXTENDS MCSdk, FiniteSetTheorems, SequenceTheorems, TLAPS

-----------------------------------------------------------------------------
(* The modal.  OneSendAtATime alone is not inductive: a submission keeps it   *)
(* only because the modal still knows that something is being sent.           *)

\* While a call is under way the modal's state says so and shows nothing sent,
\* and no other call is under way.
SendIInv ==
    /\ calls = [c \in SendCalls |-> calls[c]]
    /\ \A c \in SendCalls : calls[c] # Empty => isSending /\ txId = Empty
    /\ \A c, d \in SendCalls : calls[c] # Empty /\ calls[d] # Empty => c = d

LEMMA InitSend == Init => SendIInv
BY DEF Init, SendIInv

\* What the user does with the modal leaves the calls alone.
LEMMA PageStep == ASSUME SendIInv, UNCHANGED sendVars PROVE SendIInv'
BY DEF SendIInv, sendVars

LEMMA SubmitStep == ASSUME SendIInv, NEW c \in SendCalls, Submit(c) PROVE SendIInv'
<1>1. \A d \in SendCalls : calls[d] = Empty
  BY DEF SendIInv, Submit, CanSubmit
<1>2. \A d \in SendCalls : d # c => calls'[d] = Empty
  BY <1>1 DEF SendIInv, Submit
<1>3. calls' = [d \in SendCalls |-> calls'[d]]
  BY DEF SendIInv, Submit
<1>4. isSending' /\ txId' = Empty
  BY DEF Submit
<1>5. QED BY <1>2, <1>3, <1>4 DEF SendIInv

\* An answer, good or bad, ends the only call there is.
LEMMA AnswerStep ==
  ASSUME SendIInv, NEW c \in SendCalls, SendAnswered(c) \/ SendFails(c)
  PROVE  SendIInv'
<1>1. calls[c] # Empty
  BY DEF SendAnswered, SendFails
<1>2. calls' = [calls EXCEPT ![c] = Empty]
  BY DEF SendAnswered, SendFails
<1>3. \A d \in SendCalls : calls'[d] = Empty
  BY <1>1, <1>2 DEF SendIInv
<1>4. calls' = [d \in SendCalls |-> calls'[d]]
  BY <1>2 DEF SendIInv
<1>5. QED BY <1>3, <1>4 DEF SendIInv

LEMMA StepSend == SendIInv /\ [Next]_modalVars => SendIInv'
<1> SUFFICES ASSUME SendIInv, [Next]_modalVars PROVE SendIInv'
  OBVIOUS
<1>1. CASE Open
  BY <1>1, PageStep DEF Open
<1>2. CASE Close
  BY <1>2, PageStep DEF Close
<1>3. CASE ConnectionChanges
  BY <1>3, PageStep DEF ConnectionChanges
<1>4. ASSUME NEW t \in Tabs, SelectTab(t) PROVE SendIInv'
  BY <1>4, PageStep DEF SelectTab
<1>5. ASSUME NEW d \in Drafts, Enter(d) PROVE SendIInv'
  BY <1>5, PageStep DEF Enter
<1>6. CASE SubmitRefused
  BY <1>6, PageStep DEF SubmitRefused
<1>7. ASSUME NEW c \in SendCalls, Submit(c) PROVE SendIInv'
  BY <1>7, SubmitStep
<1>8. ASSUME NEW c \in SendCalls, SendAnswered(c) \/ SendFails(c) PROVE SendIInv'
  BY <1>8, AnswerStep
<1>9. CASE UNCHANGED modalVars
  BY <1>9, PageStep DEF modalVars, sendVars
<1>10. QED
  BY <1>1, <1>2, <1>3, <1>4, <1>5, <1>6, <1>7, <1>8, <1>9 DEF Next

\* However the user moves about the modal, one transaction is sent at a time,
\* and none beside one that is shown as sent.
THEOREM OneSendWhateverThePage == Spec => []OneSendAtATime
<1>1. SendIInv => OneSendAtATime
  BY DEF SendIInv, OneSendAtATime
<1>2. QED BY InitSend, StepSend, <1>1, PTL DEF Spec

-----------------------------------------------------------------------------
(* The window of a login.                                                     *)

LoginIInv ==
    /\ pc = [l \in Logins |-> pc[l]]
    /\ watches = [l \in Logins |-> watches[l]]
    /\ NoWindowLeft

LEMMA InitLogin == Login!Init => LoginIInv
BY DEF Login!Init, LoginIInv, NoWindowLeft, Login!NoWindowLeft

\* What leaves the window and the logins alone.
LEMMA SessionStep ==
  ASSUME LoginIInv, UNCHANGED <<window, pc, watches>> PROVE LoginIInv'
BY DEF LoginIInv, NoWindowLeft, Login!NoWindowLeft

\* A login that was not the one that polls this window goes on.
LEMMA OtherLoginStep ==
  ASSUME LoginIInv, NEW l \in Logins, NEW p,
         pc[l] = "polling" => window' # window \/ watches[l] # window,
         window' = window \/ window' = None,
         pc' = [pc EXCEPT ![l] = p], UNCHANGED watches
  PROVE  LoginIInv'
<1>1. pc' = [k \in Logins |-> pc'[k]] /\ watches' = [k \in Logins |-> watches'[k]]
  BY DEF LoginIInv
<1>2. ASSUME window' # None
      PROVE  \E k \in Logins : pc'[k] = "polling" /\ watches'[k] = window'
  <2>1. window' = window
    BY <1>2
  <2>2. PICK k \in Logins : pc[k] = "polling" /\ watches[k] = window
    BY <1>2, <2>1 DEF LoginIInv, NoWindowLeft, Login!NoWindowLeft
  <2>3. k # l
    BY <2>1, <2>2
  <2>4. pc'[k] = "polling"
    BY <2>2, <2>3 DEF LoginIInv
  <2>5. QED BY <2>1, <2>2, <2>4
<1>3. QED BY <1>1, <1>2 DEF LoginIInv, NoWindowLeft, Login!NoWindowLeft

\* A login that opens a window, or takes one over, watches it.
LEMMA OpenStep ==
  ASSUME LoginIInv, NEW l \in Logins, Login!OpensPopup(l) PROVE LoginIInv'
<1>1. pc' = [pc EXCEPT ![l] = "polling"] /\ watches' = [watches EXCEPT ![l] = window']
  BY DEF Login!OpensPopup
<1>2. pc'[l] = "polling" /\ watches'[l] = window'
  BY <1>1 DEF LoginIInv
<1>3. pc' = [k \in Logins |-> pc'[k]] /\ watches' = [k \in Logins |-> watches'[k]]
  BY <1>1 DEF LoginIInv
<1>4. QED BY <1>2, <1>3 DEF LoginIInv, NoWindowLeft, Login!NoWindowLeft

LEMMA StepLogin == LoginIInv /\ [Login!Next]_(Login!vars) => LoginIInv'
<1> SUFFICES ASSUME LoginIInv, [Login!Next]_(Login!vars) PROVE LoginIInv'
  OBVIOUS
<1>1. ASSUME NEW l \in Logins, Login!OpensPopup(l) PROVE LoginIInv'
  BY <1>1, OpenStep
<1>2. ASSUME NEW l \in Logins, Login!EndsAtOnce(l) \/ Login!LoginWithEmail(l)
      PROVE  LoginIInv'
  BY <1>2, OtherLoginStep
     DEF Login!EndsAtOnce, Login!LoginWithEmail, Login!windowVars
<1>3. ASSUME NEW l \in Logins, Login!PollFindsClosed(l) PROVE LoginIInv'
  <2>1. window' = window /\ pc' = [pc EXCEPT ![l] = "done"] /\ watches' = watches
    BY <1>3 DEF Login!PollFindsClosed, Login!windowVars
  <2>2. CASE window # None
    BY <1>3, <2>1, <2>2, OtherLoginStep DEF Login!PollFindsClosed, Login!IsOpen
  <2>3. CASE window = None
    BY <2>1, <2>3 DEF LoginIInv, NoWindowLeft, Login!NoWindowLeft
  <2>4. QED BY <2>2, <2>3
<1>4. ASSUME NEW l \in Logins, Login!PollFindsToken(l) PROVE LoginIInv'
  BY <1>4, OtherLoginStep DEF Login!PollFindsToken, Login!IsOpen
<1>5. ASSUME NEW l \in Logins, Login!TimesOut(l) PROVE LoginIInv'
  <2>1. PICK p : pc' = [pc EXCEPT ![l] = p]
    BY <1>5 DEF Login!TimesOut
  <2>2. watches' = watches /\ window' = IF Login!IsOpen(l) THEN None ELSE window
    BY <1>5 DEF Login!TimesOut
  <2>3. CASE window = None
    BY <2>1, <2>2, <2>3 DEF LoginIInv, NoWindowLeft, Login!NoWindowLeft
  <2>4. CASE window # None
    BY <2>1, <2>2, <2>4, OtherLoginStep DEF Login!IsOpen
  <2>5. QED BY <2>3, <2>4
<1>6. ASSUME NEW l \in Logins, Login!AnswerFails(l) PROVE LoginIInv'
  BY <1>6, OtherLoginStep DEF Login!AnswerFails, Login!windowVars
<1>7. ASSUME NEW l \in Logins, NEW u \in Users,
             Login!ProfileStored(l, u) \/ Login!CodeVerified(l, u)
      PROVE  LoginIInv'
  BY <1>7, OtherLoginStep
     DEF Login!ProfileStored, Login!CodeVerified, Login!windowVars
<1>8. ASSUME NEW u \in Users, Login!VerifyMagicLink(u) PROVE LoginIInv'
  BY <1>8, SessionStep DEF Login!VerifyMagicLink, Login!windowVars
<1>9. ASSUME NEW p \in {"back", "token"}, Login!SentBack(p) PROVE LoginIInv'
  BY <1>9, SessionStep DEF Login!SentBack
<1>10. CASE Login!UserCloses
  BY <1>10 DEF Login!UserCloses, LoginIInv, NoWindowLeft, Login!NoWindowLeft
<1>11. CASE Login!Expires \/ Login!LogoutForgets \/ Login!LogoutStarts
              \/ Login!LogoutEnds
  BY <1>11, SessionStep
     DEF Login!Expires, Login!LogoutForgets, Login!LogoutStarts,
         Login!LogoutEnds, Login!windowVars
<1>12. CASE UNCHANGED Login!vars
  BY <1>12, SessionStep DEF Login!vars, Login!windowVars
<1>13. QED
  BY <1>1, <1>2, <1>3, <1>4, <1>5, <1>6, <1>7, <1>8, <1>9, <1>10, <1>11, <1>12
  DEF Login!Next

\* Whichever login, timer, provider or user closes it: no window stays open
\* without a login that still polls it.
THEOREM WindowsAreWatched == Login!Spec => []NoWindowLeft
<1>1. LoginIInv => NoWindowLeft
  BY DEF LoginIInv
<1>2. QED BY InitLogin, StepLogin, <1>1, PTL DEF Login!Spec
-----------------------------------------------------------------------------
(* The dialog.  That a promise is pending only while something may answer it  *)
(* needs to know what it is resolved with: an account, once the wallet has    *)
(* been asked for it.                                                         *)

Connections == [connectorId : Wallets, address : Accounts]
Answers == {NotAsked, Pending, None} \cup Connections

Calling(c) ==
    /\ c \in [dialog : Dialogs, wallet : Wallets, address : Accounts \cup {None},
              step : {"addresses", "network", "key"}]
    /\ c.step # "addresses" => c.address \in Accounts

DappTypeOK ==
    /\ installed \subseteq Wallets
    /\ account \in [Wallets -> Accounts]
    /\ answers \in [Dialogs -> Answers]
    /\ \A c \in connecting : Calling(c)

DialogIInv == DappTypeOK /\ DialogUntilAnswered

LEMMA InitDialog == Dapp!Init => DialogIInv
BY SdkAssumption
   DEF Dapp!Init, DialogIInv, DappTypeOK, Answers,
       DialogUntilAnswered, Dapp!DialogUntilAnswered

\* What leaves the dialogs, their promises and their calls alone.
LEMMA WalletStep ==
  ASSUME DialogIInv, UNCHANGED <<shown, connecting, answers>>,
         installed' \subseteq Wallets, account' \in [Wallets -> Accounts]
  PROVE  DialogIInv'
BY DEF DialogIInv, DappTypeOK, Calling, DialogUntilAnswered, Dapp!DialogUntilAnswered

\* A promise is made, with a dialog or with a call to answer it.
LEMMA AskStep ==
  ASSUME DialogIInv, NEW d \in Dialogs, answers[d] = NotAsked,
         answers' = [answers EXCEPT ![d] = Pending],
         UNCHANGED <<installed, account>>,
         \/ connecting' = connecting /\ shown' = shown \union {d}
         \/ /\ \E w \in Wallets : connecting' = connecting \union {Dapp!Call(d, w)}
            /\ shown' = shown
  PROVE  DialogIInv'
<1>1. answers' \in [Dialogs -> Answers] /\ answers'[d] = Pending
  BY DEF DialogIInv, DappTypeOK, Answers
<1>2. \A c \in connecting' : Calling(c)
  <2>1. \A c \in connecting : Calling(c)
    BY DEF DialogIInv, DappTypeOK
  <2>2. \A w \in Wallets : Calling(Dapp!Call(d, w))
    BY DEF Calling, Dapp!Call
  <2>3. CASE connecting' = connecting
    BY <2>1, <2>3
  <2>4. ASSUME NEW w \in Wallets, connecting' = connecting \union {Dapp!Call(d, w)}
        PROVE  \A c \in connecting' : Calling(c)
    BY <2>1, <2>2, <2>4
  <2>5. QED BY <2>3, <2>4
<1>3. DappTypeOK'
  BY <1>1, <1>2 DEF DialogIInv, DappTypeOK, Calling
<1>4. d \in shown' \/ \E c \in connecting' : c.dialog = d
  <2>1. \A w : Dapp!Call(d, w).dialog = d
    BY DEF Dapp!Call
  <2>2. CASE shown' = shown \union {d}
    BY <2>2
  <2>3. ASSUME NEW w \in Wallets, connecting' = connecting \union {Dapp!Call(d, w)}
        PROVE  \E c \in connecting' : c.dialog = d
    BY <2>1, <2>3
  <2>4. QED BY <2>2, <2>3
<1>5. shown \subseteq shown' /\ connecting \subseteq connecting'
  OBVIOUS
<1>6. ASSUME NEW e \in Dialogs, e # d
      PROVE  answers'[e] = answers[e] /\ (e \in shown' <=> e \in shown)
  BY <1>6 DEF DialogIInv, DappTypeOK
<1>7. DialogUntilAnswered'
  BY <1>1, <1>4, <1>5, <1>6 DEF DialogIInv, DialogUntilAnswered, Dapp!DialogUntilAnswered
<1>8. QED BY <1>3, <1>7 DEF DialogIInv

\* A call begins or goes on, for the same dialog.
LEMMA CallStep ==
  ASSUME DialogIInv, UNCHANGED <<installed, account, shown, answers>>,
         \A c \in connecting' : Calling(c),
         \A c \in connecting : \E k \in connecting' : k.dialog = c.dialog
  PROVE  DialogIInv'
<1>1. DappTypeOK'
  BY DEF DialogIInv, DappTypeOK, Calling
<1>2. DialogUntilAnswered'
  BY DEF DialogIInv, DialogUntilAnswered, Dapp!DialogUntilAnswered
<1>3. QED BY <1>1, <1>2 DEF DialogIInv

\* A promise is resolved, unless it was, and its dialog goes.
LEMMA AnswerDialogStep ==
  ASSUME DialogIInv, NEW d \in Dialogs, NEW a \in {None} \cup Connections,
         answers' = Dapp!Resolved(d, a), shown' = shown \ {d},
         connecting' \subseteq connecting,
         \A c \in connecting : c \in connecting' \/ c.dialog = d,
         UNCHANGED <<installed, account>>
  PROVE  DialogIInv'
<1>1. a # Pending /\ a \in Answers
  BY SdkAssumption DEF Connections, Answers
<1>2. answers' \in [Dialogs -> Answers] /\ answers'[d] # Pending
  BY <1>1 DEF DialogIInv, DappTypeOK, Dapp!Resolved
<1>3. \A e \in Dialogs : e # d => answers'[e] = answers[e]
  BY DEF DialogIInv, DappTypeOK, Dapp!Resolved
<1>4. DappTypeOK'
  BY <1>2 DEF DialogIInv, DappTypeOK, Calling
<1>5. DialogUntilAnswered'
  BY <1>2, <1>3 DEF DialogIInv, DialogUntilAnswered, Dapp!DialogUntilAnswered
<1>6. QED BY <1>4, <1>5 DEF DialogIInv

\* The steps of the dialog and of its calls.
LEMMA StepDialog == DialogIInv /\ [Dapp!Next]_(Dapp!vars) => DialogIInv'
<1> SUFFICES ASSUME DialogIInv, [Dapp!Next]_(Dapp!vars) PROVE DialogIInv'
  OBVIOUS
<1> USE DEF Dapp!walletVars, Dapp!dialogVars, Dapp!storageVars
<1>0. installed \subseteq Wallets /\ account \in [Wallets -> Accounts]
      /\ \A c \in connecting : Calling(c)
  BY DEF DialogIInv, DappTypeOK
<1>1. ASSUME NEW w \in Wallets, Dapp!Installed(w) PROVE DialogIInv'
  BY <1>0, <1>1, WalletStep DEF Dapp!Installed
<1>2. ASSUME NEW w \in Wallets, NEW a \in Accounts, Dapp!AccountChanges(w, a)
      PROVE  DialogIInv'
  BY <1>0, <1>2, WalletStep DEF Dapp!AccountChanges
<1>3. ASSUME NEW d \in Dialogs, Dapp!ShowRemembered(d) PROVE DialogIInv'
  <2>1. lastChoice \in Wallets
    BY <1>0, <1>3 DEF Dapp!ShowRemembered
  <2>2. PICK w \in Wallets : w = lastChoice
    BY <2>1
  <2>3. QED BY <1>3, <2>2, AskStep DEF Dapp!ShowRemembered
<1>4. ASSUME NEW d \in Dialogs, Dapp!Show(d) PROVE DialogIInv'
  BY <1>4, AskStep DEF Dapp!Show
<1>5. ASSUME NEW d \in Dialogs, Dapp!Ticks(d) PROVE DialogIInv'
  BY <1>0, <1>5, WalletStep DEF Dapp!Ticks
<1>6. ASSUME NEW d \in Dialogs, NEW w \in Wallets, Dapp!SelectWallet(d, w)
      PROVE  DialogIInv'
  <2>1. connecting' = connecting \union {Dapp!Call(d, w)}
    BY <1>6 DEF Dapp!SelectWallet
  <2>2. \A c \in connecting' : Calling(c)
    BY <1>0, <2>1 DEF Dapp!Call, Calling
  <2>3. QED BY <1>6, <2>1, <2>2, CallStep DEF Dapp!SelectWallet
<1>7. ASSUME NEW d \in Dialogs, Dapp!Dismiss(d) PROVE DialogIInv'
  BY <1>7, AnswerDialogStep DEF Dapp!Dismiss
<1>8. ASSUME NEW c \in connecting, Dapp!AddressesAnswered(c) PROVE DialogIInv'
  <2> DEFINE k == [c EXCEPT !.step = "network", !.address = account[c.wallet]]
  <2>1. Calling(c) /\ account[c.wallet] \in Accounts
    BY <1>0 DEF Calling
  <2>2. connecting' = (connecting \ {c}) \union {k}
    BY <1>8 DEF Dapp!AddressesAnswered
  <2>3. k.dialog = c.dialog /\ Calling(k)
    BY <2>1 DEF Calling
  <2>4. QED BY <1>0, <1>8, <2>2, <2>3, CallStep DEF Dapp!AddressesAnswered
<1>9. ASSUME NEW c \in connecting, Dapp!NetworkAnswered(c) PROVE DialogIInv'
  <2> DEFINE k == [c EXCEPT !.step = "key"]
  <2>1. Calling(c) /\ c.step = "network"
    BY <1>0, <1>9 DEF Dapp!NetworkAnswered
  <2>2. connecting' = (connecting \ {c}) \union {k}
    BY <1>9 DEF Dapp!NetworkAnswered
  <2>3. k.dialog = c.dialog /\ Calling(k)
    BY <2>1 DEF Calling
  <2>4. QED BY <1>0, <1>9, <2>2, <2>3, CallStep DEF Dapp!NetworkAnswered
<1>10. ASSUME NEW c \in connecting, Dapp!Connected(c) PROVE DialogIInv'
  <2>1. Calling(c) /\ c.address \in Accounts
    BY <1>0, <1>10 DEF Dapp!Connected, Calling
  <2>2. Dapp!Connection(c.wallet, c.address) \in Connections
    BY <2>1 DEF Dapp!Connection, Connections, Calling
  <2>3. c.dialog \in Dialogs
    BY <2>1 DEF Calling
  <2>4. QED BY <1>10, <2>2, <2>3, AnswerDialogStep DEF Dapp!Connected
<1>11. ASSUME NEW c \in connecting, Dapp!Refused(c) PROVE DialogIInv'
  <2>1. c.dialog \in Dialogs
    BY <1>0 DEF Calling
  <2>2. QED BY <1>11, <2>1, AnswerDialogStep DEF Dapp!Refused
<1>12. ASSUME NEW d \in Dialogs, Dapp!SaveConnection(d) PROVE DialogIInv'
  BY <1>0, <1>12, WalletStep DEF Dapp!SaveConnection
<1>13. CASE Dapp!ClearConnection \/ Dapp!ClearHistory \/ Dapp!AutoReconnect
              \/ Dapp!Reconnected \/ Dapp!ReconnectFails
  BY <1>0, <1>13, WalletStep
     DEF Dapp!ClearConnection, Dapp!ClearHistory, Dapp!AutoReconnect,
         Dapp!Reconnected, Dapp!ReconnectFails
<1>14. CASE UNCHANGED Dapp!vars
  BY <1>0, <1>14, WalletStep DEF Dapp!vars
<1>15. QED
  BY <1>1, <1>2, <1>3, <1>4, <1>5, <1>6, <1>7, <1>8, <1>9, <1>10, <1>11, <1>12,
     <1>13, <1>14
  DEF Dapp!Next, Dapp!DialogNext

\* However many wallets are asked at once and whichever answers first: no
\* dialog outlives its promise, and no promise waits for nobody.
THEOREM PromisesAnswered == Dapp!Spec => []DialogUntilAnswered
<1>1. DialogIInv => DialogUntilAnswered
  BY DEF DialogIInv
<1>2. QED BY InitDialog, StepDialog, <1>1, PTL DEF Dapp!Spec

-----------------------------------------------------------------------------
(* The history of connections.  Filtered() takes the elements at some         *)
(* positions of a sequence: each place of what it returns is the rank of one  *)
(* of these positions, and every rank is taken.                               *)

\* The operators of the library that the instance has of its own.
LEMMA SameCardinality == \A S : Dapp!Cardinality(S) = Cardinality(S)
BY Zenon DEF Dapp!Cardinality, Cardinality

LEMMA SameInjective == \A f : Dapp!IsInjective(f) <=> IsInjective(f)
BY DEF Dapp!IsInjective, IsInjective

\* Of two positions the later has the larger rank, below the number of them.
LEMMA RanksRise ==
  ASSUME NEW I \in SUBSET Nat, IsFiniteSet(I)
  PROVE  /\ \A i \in I : Dapp!Before(I, i) \in 0..(Cardinality(I) - 1)
         /\ \A i, j \in I : i < j => Dapp!Before(I, i) < Dapp!Before(I, j)
<1> DEFINE Below(i) == {j \in I : j < i}
<1>0. \A i \in I : Dapp!Before(I, i) = Cardinality(Below(i))
  BY SameCardinality DEF Dapp!Before
<1>1. ASSUME NEW i \in I
      PROVE  /\ IsFiniteSet(Below(i)) /\ Cardinality(Below(i)) \in Nat
             /\ Cardinality(Below(i)) < Cardinality(I)
  <2>1. Below(i) \in SUBSET I /\ i \notin Below(i)
    OBVIOUS
  <2>2. /\ IsFiniteSet(Below(i))
        /\ Cardinality(Below(i)) <= Cardinality(I)
        /\ Cardinality(I) = Cardinality(Below(i)) => I = Below(i)
    BY <2>1, FS_Subset
  <2>3. Cardinality(Below(i)) \in Nat /\ Cardinality(I) \in Nat
    BY <2>2, FS_CardinalityType
  <2>4. Cardinality(Below(i)) # Cardinality(I)
    BY <2>1, <2>2
  <2>5. QED BY <2>2, <2>3, <2>4
<1>2. ASSUME NEW i \in I, NEW j \in I, i < j
      PROVE  Cardinality(Below(i)) < Cardinality(Below(j))
  <2>1. /\ \A k \in I : k < i => k < j
        /\ i \in Below(j) /\ i \notin Below(i)
    BY <1>2
  <2>1a. Below(i) \in SUBSET Below(j)
    BY <2>1
  <2>2. /\ Cardinality(Below(i)) <= Cardinality(Below(j))
        /\ Cardinality(Below(j)) = Cardinality(Below(i)) => Below(j) = Below(i)
    BY <1>1, <2>1a, FS_Subset
  <2>3. Cardinality(Below(i)) # Cardinality(Below(j))
    BY <2>1, <2>2
  <2>4. QED BY <1>1, <2>2, <2>3
<1>3. Cardinality(I) \in Nat
  BY FS_CardinalityType
<1> HIDE DEF Below
<1>4. \A i \in I : Dapp!Before(I, i) \in 0..(Cardinality(I) - 1)
  BY <1>0, <1>1, <1>3
<1>5. \A i, j \in I : i < j => Dapp!Before(I, i) < Dapp!Before(I, j)
  BY <1>0, <1>2
<1>6. QED BY <1>4, <1>5

\* As many ranks as positions, all different: none is left out.
LEMMA RanksTaken ==
  ASSUME NEW I \in SUBSET Nat, IsFiniteSet(I), NEW k \in 1..Cardinality(I)
  PROVE  \E i \in I : Dapp!Before(I, i) = k - 1
<1> DEFINE n == Cardinality(I)
           rank == [i \in I |-> Dapp!Before(I, i)]
<1>1. n \in Nat
  BY FS_CardinalityType
<1>2. rank \in [I -> 0..(n - 1)]
  BY RanksRise
<1>3. \A i, j \in I : rank[i] = rank[j] => i = j
  <2>1. \A i, j \in I : i = j \/ i < j \/ j < i
    OBVIOUS
  <2>2. \A i \in I : rank[i] \in Int
    BY <1>1, <1>2
  <2>3. \A i, j \in I : i < j => rank[i] < rank[j]
    BY RanksRise
  <2>4. QED BY <2>1, <2>2, <2>3
<1>4. rank \in Injection(I, 0..(n - 1))
  BY <1>2, <1>3 DEF Injection, IsInjective
<1>5. IsFiniteSet(0..(n - 1)) /\ Cardinality(0..(n - 1)) = n
  <2> HIDE DEF n
  <2>0. 0 \in Int /\ n - 1 \in Int
    BY <1>1
  <2>1. /\ IsFiniteSet(0..(n - 1))
        /\ Cardinality(0..(n - 1)) = IF 0 > n - 1 THEN 0 ELSE (n - 1) - 0 + 1
    BY <2>0, FS_Interval
  <2>2. QED BY <1>1, <2>1
<1>6. rank \in Surjection(I, 0..(n - 1))
  BY <1>4, <1>5, FS_Injection
<1>7. \A r \in 0..(n - 1) : \E i \in I : rank[i] = r
  BY <1>6 DEF Surjection
<1>8. k - 1 \in 0..(n - 1)
  BY <1>1
<1>9. QED BY <1>7, <1>8

\* What Filtered() returns, and that it keeps different what is different.
LEMMA FilteredProperties ==
  ASSUME NEW S, NEW s \in Seq(S), NEW I \in SUBSET (1..Len(s))
  PROVE  LET f == Dapp!Filtered(s, I)
         IN  /\ f \in Seq(S) /\ Len(f) = Cardinality(I)
             /\ \A k \in 1..Len(f) : \E i \in I : f[k] = s[i]
             /\ IsInjective(s) => IsInjective(f)
<1> DEFINE n == Cardinality(I)
           f == Dapp!Filtered(s, I)
           at(k) == CHOOSE i \in I : Dapp!Before(I, i) = k - 1
<1>1. Len(s) \in Nat /\ DOMAIN s = 1..Len(s) /\ \A i \in 1..Len(s) : s[i] \in S
  BY LenProperties, ElementOfSeq
<1>2. IsFiniteSet(I) /\ n \in Nat /\ I \in SUBSET Nat
  <2>1. IsFiniteSet(1..Len(s))
    BY <1>1, FS_Interval
  <2>2. IsFiniteSet(I)
    BY <2>1, FS_Subset
  <2>3. QED BY <1>1, <2>2, FS_CardinalityType
<1>3. \A k \in 1..n : at(k) \in I /\ Dapp!Before(I, at(k)) = k - 1
  BY <1>2, RanksTaken
<1>4. f = [k \in 1..n |-> s[at(k)]]
  BY SameCardinality DEF Dapp!Filtered
<1> HIDE DEF f, at
<1>5. f \in [1..n -> S]
  BY <1>1, <1>3, <1>4
<1>6. f \in Seq(S) /\ Len(f) = n
  BY <1>2, <1>5, SeqDef
<1>7. \A k \in 1..Len(f) : \E i \in I : f[k] = s[i]
  BY <1>3, <1>4, <1>6
<1>8. ASSUME IsInjective(s) PROVE IsInjective(f)
  <2>1. SUFFICES ASSUME NEW a \in 1..n, NEW b \in 1..n, f[a] = f[b] PROVE a = b
    BY <1>4 DEF IsInjective
  <2>2. at(a) = at(b)
    BY <1>1, <1>3, <1>4, <1>8, <2>1 DEF IsInjective
  <2>3. a - 1 = b - 1
    BY <1>3, <2>2
  <2>4. QED BY <1>2, <2>3
<1>9. QED BY <1>6, <1>7, <1>8 DEF f

-----------------------------------------------------------------------------
HistoryIInv == history \in Seq(Connections) /\ HistoryAgrees

LEMMA InitHistory == Dapp!Init => HistoryIInv
<1>1. << >> \in Seq(Connections) /\ Len(<< >>) = 0 /\ IsInjective(<< >>)
  BY EmptySeq DEF IsInjective
<1>2. QED
  BY <1>1, SameInjective, SdkAssumption
  DEF Dapp!Init, HistoryIInv, HistoryAgrees, Dapp!HistoryAgrees

\* The history with a connection: that one first, and the others once each.
LEMMA SavedHistory ==
  ASSUME HistoryIInv, NEW e \in Connections
  PROVE  LET h == Dapp!HistoryWith(e)
         IN  /\ h \in Seq(Connections) /\ IsInjective(h)
             /\ Len(h) <= MaxHistorySize /\ h # << >> /\ Head(h) = e
<1> DEFINE others == {i \in DOMAIN history : history[i] # e}
           rest == Dapp!Filtered(history, others)
           all == <<e>> \o rest
           n == IF Len(all) > MaxHistorySize THEN MaxHistorySize ELSE Len(all)
           h == Dapp!HistoryWith(e)
<1>1. history \in Seq(Connections) /\ IsInjective(history)
  BY SameInjective DEF HistoryIInv, HistoryAgrees, Dapp!HistoryAgrees
<1>2. others \in SUBSET (1..Len(history))
  BY <1>1, LenProperties
<1>3. /\ rest \in Seq(Connections) /\ IsInjective(rest)
      /\ \A k \in 1..Len(rest) : \E i \in others : rest[k] = history[i]
  BY <1>1, <1>2, FilteredProperties
<1>4. \A k \in 1..Len(rest) : rest[k] # e
  BY <1>3
<1> HIDE DEF rest
<1>5. <<e>> \in Seq(Connections) /\ Len(<<e>>) = 1 /\ <<e>>[1] = e
  OBVIOUS
<1>6. /\ all \in Seq(Connections) /\ Len(all) = Len(rest) + 1
      /\ \A i \in 1..Len(all) : all[i] = IF i = 1 THEN e ELSE rest[i - 1]
  BY <1>3, <1>5, ConcatProperties, LenProperties
<1>7. Len(rest) \in Nat /\ DOMAIN rest = 1..Len(rest)
  BY <1>3, LenProperties
<1> HIDE DEF all
<1>8. n \in 1..Len(all) /\ n <= MaxHistorySize
  BY <1>6, <1>7, SdkAssumption
<1>9. h = SubSeq(all, 1, n)
  BY DEF Dapp!HistoryWith, all, rest
<1>10. \A i \in 1..n : all[i] \in Connections
  BY <1>6, <1>8, ElementOfSeq, LenProperties
<1> HIDE DEF h, n
<1>11. /\ h \in Seq(Connections) /\ Len(h) = n
       /\ \A i \in 1..n : h[i] = all[i]
  BY <1>6, <1>7, <1>8, <1>9, <1>10, SubSeqProperties
<1>12. IsInjective(h)
  <2>1. DOMAIN h = 1..n
    BY <1>11, LenProperties
  <2>2. SUFFICES ASSUME NEW a \in 1..n, NEW b \in 1..n, h[a] = h[b] PROVE a = b
    BY <2>1 DEF IsInjective
  <2>3. all[a] = all[b] /\ a \in 1..Len(all) /\ b \in 1..Len(all)
    BY <1>8, <1>11, <2>2, <1>6, <1>7
  <2>4. CASE a = 1 \/ b = 1
    BY <1>4, <1>6, <1>7, <2>3, <2>4
  <2>5. CASE a # 1 /\ b # 1
    <3>1. a - 1 \in 1..Len(rest) /\ b - 1 \in 1..Len(rest)
      BY <1>6, <1>7, <2>3, <2>5
    <3>2. rest[a - 1] = rest[b - 1]
      BY <1>6, <2>3, <2>5
    <3>3. a - 1 = b - 1
      BY <1>3, <1>7, <3>1, <3>2 DEF IsInjective
    <3>4. QED BY <2>3, <3>3, <1>6, <1>7
  <2>6. QED BY <2>4, <2>5
<1>13. h # << >> /\ Head(h) = e
  BY <1>6, <1>7, <1>8, <1>11, EmptySeq
<1>14. QED BY <1>8, <1>11, <1>12, <1>13, SdkAssumption DEF h

\* What is saved is the newest of the history.
LEMMA SaveStep ==
  ASSUME HistoryIInv, NEW e \in Connections, Dapp!Saves(e) PROVE HistoryIInv'
<1>1. saved' = e /\ history' = Dapp!HistoryWith(e)
  BY DEF Dapp!Saves
<1>2. QED
  BY <1>1, SavedHistory, SameInjective DEF HistoryIInv, HistoryAgrees, Dapp!HistoryAgrees

\* What leaves the storage alone, or only forgets what is saved.
LEMMA KeepStep ==
  ASSUME HistoryIInv, UNCHANGED history, saved' = saved \/ saved' = None
  PROVE  HistoryIInv'
BY DEF HistoryIInv, HistoryAgrees, Dapp!HistoryAgrees

LEMMA StepHistory ==
  DialogIInv /\ HistoryIInv /\ [Dapp!Next]_(Dapp!vars) => HistoryIInv'
<1> SUFFICES ASSUME DialogIInv, HistoryIInv, [Dapp!Next]_(Dapp!vars)
             PROVE  HistoryIInv'
  OBVIOUS
<1>1. ASSUME NEW w \in Wallets,
             Dapp!Installed(w) \/ \E a \in Accounts : Dapp!AccountChanges(w, a)
      PROVE  HistoryIInv'
  BY <1>1, KeepStep DEF Dapp!Installed, Dapp!AccountChanges, Dapp!storageVars
<1>2. ASSUME NEW d \in Dialogs,
             \/ Dapp!ShowRemembered(d) \/ Dapp!Show(d) \/ Dapp!Ticks(d)
             \/ Dapp!Dismiss(d) \/ \E w \in Wallets : Dapp!SelectWallet(d, w)
      PROVE  HistoryIInv'
  BY <1>2, KeepStep
     DEF Dapp!ShowRemembered, Dapp!Show, Dapp!Ticks, Dapp!Dismiss,
         Dapp!SelectWallet, Dapp!storageVars
<1>3. ASSUME NEW d \in Dialogs, Dapp!SaveConnection(d) PROVE HistoryIInv'
  <2>1. answers[d] \in Connections /\ Dapp!Saves(answers[d])
    BY <1>3 DEF Dapp!SaveConnection, DialogIInv, DappTypeOK, Answers
  <2>2. PICK e \in Connections : e = answers[d]
    BY <2>1
  <2>3. Dapp!Saves(e)
    BY <2>1, <2>2
  <2>4. QED BY <2>3, SaveStep
<1>4. ASSUME NEW c \in connecting,
             \/ Dapp!AddressesAnswered(c) \/ Dapp!NetworkAnswered(c)
             \/ Dapp!Connected(c) \/ Dapp!Refused(c)
      PROVE  HistoryIInv'
  BY <1>4, KeepStep
     DEF Dapp!AddressesAnswered, Dapp!NetworkAnswered, Dapp!Connected,
         Dapp!Refused, Dapp!storageVars
<1>5. CASE Dapp!Reconnected
  <2> DEFINE w == reconnecting.connectorId
  <2>1. w \in Wallets /\ account[w] \in Accounts
    BY <1>5 DEF Dapp!Reconnected, DialogIInv, DappTypeOK
  <2>2. PICK e \in Connections : e = Dapp!Connection(w, account[w])
    BY <2>1 DEF Dapp!Connection, Connections
  <2>3. Dapp!Saves(e)
    BY <1>5, <2>2 DEF Dapp!Reconnected
  <2>4. QED BY <2>3, SaveStep
<1>6. CASE Dapp!ClearHistory
  <2>1. << >> \in Seq(Connections) /\ Len(<< >>) = 0 /\ IsInjective(<< >>)
    BY EmptySeq DEF IsInjective
  <2>2. QED
    BY <1>6, <2>1, SameInjective, SdkAssumption
    DEF Dapp!ClearHistory, HistoryIInv, HistoryAgrees, Dapp!HistoryAgrees
<1>7. CASE Dapp!ClearConnection \/ Dapp!AutoReconnect \/ Dapp!ReconnectFails
  BY <1>7, KeepStep DEF Dapp!ClearConnection, Dapp!AutoReconnect, Dapp!ReconnectFails
<1>8. CASE UNCHANGED Dapp!vars
  BY <1>8, KeepStep DEF Dapp!vars, Dapp!storageVars
<1>9. QED
  BY <1>1, <1>2, <1>3, <1>4, <1>5, <1>6, <1>7, <1>8 DEF Dapp!Next, Dapp!DialogNext

\* Across saves, clearing and reconnections that end after it, and for any
\* bound on its size: each connection is in the history once, and the one that
\* is saved is its first.
THEOREM HistoryFollowsSaves == Dapp!Spec => []HistoryAgrees
<1>1. HistoryIInv => HistoryAgrees
  BY DEF HistoryIInv
<1>2. QED
  BY InitDialog, StepDialog, InitHistory, StepHistory, <1>1, PTL DEF Dapp!Spec

-----------------------------------------------------------------------------
(* The SDK as a whole.                                                        *)

SdkIInv == SendIInv /\ LoginIInv /\ DialogIInv /\ HistoryIInv

LEMMA InitSdk == SdkInit => SdkIInv
BY InitSend, InitLogin, InitDialog, InitHistory DEF SdkInit, SdkIInv

\* A step of the SDK is a step of each of its parts, or leaves it alone.
LEMMA StepSdk == SdkIInv /\ [SdkNext]_sdkVars => SdkIInv'
<1> SUFFICES ASSUME SdkIInv, [SdkNext]_sdkVars PROVE SdkIInv'
  OBVIOUS
<1>1. [Dapp!Next]_(Dapp!vars)
  BY DEF SdkNext, sdkVars, dappVars, Dapp!vars, Dapp!walletVars, Dapp!dialogVars,
         Dapp!storageVars
<1>2. [Next]_modalVars
  BY DEF SdkNext, sdkVars
<1>3. [Login!Next]_(Login!vars)
  BY DEF SdkNext, sdkVars, loginVars, Login!vars, Login!windowVars, Login!sessionVars
<1>4. QED
  BY <1>1, <1>2, <1>3, StepSend, StepLogin, StepDialog, StepHistory DEF SdkIInv

\* The four properties hold of every behaviour of the SDK's specification.
THEOREM SdkInvariance ==
  SdkSpec => [](OneSendAtATime /\ NoWindowLeft /\ DialogUntilAnswered /\ HistoryAgrees)
<1>1. SdkIInv =>
        OneSendAtATime /\ NoWindowLeft /\ DialogUntilAnswered /\ HistoryAgrees
  BY DEF SdkIInv, SendIInv, OneSendAtATime, LoginIInv, DialogIInv, HistoryIInv
<1>2. QED BY InitSdk, StepSdk, <1>1, PTL DEF SdkSpec
=============================================================================
