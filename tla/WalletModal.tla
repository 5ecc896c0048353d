---------------------------- MODULE WalletModal ----------------------------
(* SendForm with useSendTransaction() around it, as WalletModal puts them     *)
(* together, with the tabs, the button and the wallet that take the form from *)
(* the page with what was entered, while the state of the hook outlives it.   *)
(* A draft of a transaction is a member of a small set, some of which the     *)
(* form refuses.  Sending takes its time, as it does in an application that   *)
(* gives the hook a sendFn; WalletModal gives none, and the default, which    *)
(* sends nothing, answers before the user can do anything.                    *)
EXTENDS Naturals

CONSTANTS Drafts,     \* what a user may enter
          Valid,      \* those of them that validate() lets through
          Empty,      \* nothing entered, nothing sent
          SendCalls,  \* calls of onSend() that may be under way
          MaxSends    \* bound of this model on the calls

VARIABLES connected,   \* wallet.connected
          isOpen,
          tab,         \* activeTab
          entered,     \* the fields of the form
          localError,
          isSending,   \* isLoading of useSendTransaction()
          sendError,
          txId,        \* the draft whose transaction is shown as sent
          calls,       \* the draft of each call under way, or Empty
          sends

modalVars == <<connected, isOpen, tab, entered, localError, isSending,
               sendError, txId, calls, sends>>
sendVars == <<isSending, sendError, txId, calls, sends>>

Tabs == {"assets", "send", "history"}

Init ==
    /\ connected = FALSE /\ isOpen = FALSE
    /\ tab = "assets"
    /\ entered = Empty /\ localError = FALSE
    /\ isSending = FALSE /\ sendError = FALSE
    /\ txId = Empty
    /\ calls = [c \in SendCalls |-> Empty]
    /\ sends = 0

\* What the modal renders: the form, until a transaction was sent.
FormIsMounted == isOpen /\ connected /\ tab = "send"
FormIsShown == FormIsMounted /\ txId = Empty

\* The button is disabled, and with it the form, while something is sent.
CanSubmit == FormIsShown /\ ~isSending

\* The form is taken from the page, or put on it anew.
FormReset == entered' = Empty /\ localError' = FALSE

-----------------------------------------------------------------------------
Open ==
    /\ ~isOpen /\ isOpen' = TRUE
    /\ FormReset
    /\ UNCHANGED <<connected, tab, sendVars>>

\* The button, Escape and a click beside the modal.
Close ==
    /\ isOpen /\ isOpen' = FALSE
    /\ FormReset
    /\ UNCHANGED <<connected, tab, sendVars>>

\* The context's connect() and disconnect(), the latter also by WalletButton.
ConnectionChanges ==
    /\ connected' = ~connected
    /\ FormReset
    /\ UNCHANGED <<isOpen, tab, sendVars>>

\* A form that keeps what it knows of the call for itself.
SelectTabFresh(t) ==
    /\ isOpen /\ connected /\ t # tab
    /\ tab' = t
    /\ FormReset
    /\ isSending' = FALSE
    /\ UNCHANGED <<connected, isOpen, sendError, txId, calls, sends>>

SelectTab(t) ==
    /\ isOpen /\ connected /\ t # tab
    /\ tab' = t
    /\ FormReset
    /\ UNCHANGED <<connected, isOpen, sendVars>>

Enter(d) ==
    /\ FormIsShown
    /\ entered' = d
    /\ UNCHANGED <<connected, isOpen, tab, localError, sendVars>>

\* handleSubmit() with what validate() refuses.
SubmitRefused ==
    /\ CanSubmit
    /\ entered \notin Valid
    /\ localError' = TRUE
    /\ UNCHANGED <<connected, isOpen, tab, entered, sendVars>>

\* handleSubmit() and send() up to the await.
Submit(c) ==
    /\ CanSubmit
    /\ entered \in Valid
    /\ sends < MaxSends /\ calls[c] = Empty
    /\ localError' = FALSE
    /\ isSending' = TRUE
    /\ sendError' = FALSE
    /\ txId' = Empty
    /\ calls' = [calls EXCEPT ![c] = entered]
    /\ sends' = sends + 1
    /\ UNCHANGED <<connected, isOpen, tab, entered>>

\* The call is answered.  The form is emptied, if it is the one that was sent;
\* a form put on the page since is hidden like it once something was sent.
SendAnswered(c) ==
    /\ calls[c] # Empty
    /\ txId' = calls[c]
    /\ calls' = [calls EXCEPT ![c] = Empty]
    /\ isSending' = FALSE
    /\ entered' = Empty
    /\ UNCHANGED <<connected, isOpen, tab, localError, sendError, sends>>

SendFails(c) ==
    /\ calls[c] # Empty
    /\ sendError' = TRUE
    /\ calls' = [calls EXCEPT ![c] = Empty]
    /\ isSending' = FALSE
    /\ UNCHANGED <<connected, isOpen, tab, entered, localError, txId, sends>>

Next ==
    \/ Open \/ Close \/ ConnectionChanges
    \/ \E t \in Tabs : SelectTab(t)
    \/ \E d \in Drafts : Enter(d)
    \/ SubmitRefused
    \/ \E c \in SendCalls : Submit(c) \/ SendAnswered(c) \/ SendFails(c)

Spec == Init /\ [][Next]_modalVars

-----------------------------------------------------------------------------
\* However the user moves between the tabs, closes the modal or loses the
\* wallet while a transaction is being sent, no second one is sent beside it
\* (the state of useSendTransaction() is the modal's, not the form's), and
\* none after one that succeeded.
OneSendAtATime ==
    \A c, d \in SendCalls :
        calls[c] # Empty => txId = Empty /\ (calls[d] # Empty => c = d)

=============================================================================
