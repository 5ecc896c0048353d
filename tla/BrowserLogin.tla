---------------------------- MODULE BrowserLogin -----------------------------
(* MpcAuth, the login of the SDK in a browser: a popup window that is polled  *)
(* for the address it was sent to, the session that a login keeps in memory   *)
(* and in the local storage, and logout().  All logins of a page use the      *)
(* window of one name: a second one takes over the window of the first, and   *)
(* each of them watches, and may close, what is then one window.              *)
EXTENDS Naturals, FiniteSets

CONSTANTS Logins,      \* calls of login()
          Users,
          None,        \* no window, no session
          MaxWindows   \* bound of this model on windows that are opened

VARIABLES window,    \* the window that is open, its number, or None
          place,     \* where it is: "foreign", "back" or "token"
          windows,   \* windows opened so far
          pc,        \* of each login: idle, polling, fetching, verifying, done
          watches,   \* the window each login watches
          timers,    \* windows whose time-out of a login is still to come
          session,   \* MpcAuth.session: its user, whether its time is to come,
                     \* and whether it has a session token
          stored,    \* velumx_session
          revoking   \* the session whose logout() is under way, or None

windowVars == <<window, place, windows>>
sessionVars == <<session, stored, revoking>>
vars == <<windowVars, pc, watches, timers, sessionVars>>

Unexpired(s) == s # None /\ s.valid
Session(u) == [user |-> u, valid |-> TRUE, token |-> TRUE]

\* What becomes of the answer to a magic link, which names neither a session
\* token nor an end.
MagicSession(u) == [user |-> u, valid |-> FALSE, token |-> FALSE]

\* The page is loaded: the session that is stored, unless it names an end that is
\* over.  One without an end is loaded, though no login takes it for valid.
LoadStoredSession ==
    /\ stored \in {Session(u) : u \in Users} \union {MagicSession(u) : u \in Users}
                  \union {None}
    /\ session = stored

Init ==
    /\ window = None /\ place = "foreign" /\ windows = 0
    /\ pc = [l \in Logins |-> "idle"]
    /\ watches = [l \in Logins |-> None]
    /\ timers = {}
    /\ revoking = None
    /\ LoadStoredSession

-----------------------------------------------------------------------------
(* The window *)

\* login(), without a valid session: the window opens, or what it shows is
\* replaced, and two timers start.
OpensPopup(l) ==
    /\ pc[l] = "idle" /\ ~Unexpired(session)
    /\ place' = "foreign"
    /\ IF window # None
       THEN UNCHANGED <<window, windows>>
       ELSE /\ windows < MaxWindows
            /\ window' = windows + 1 /\ windows' = windows + 1
    /\ pc' = [pc EXCEPT ![l] = "polling"]
    /\ watches' = [watches EXCEPT ![l] = window']
    /\ timers' = timers \union {l}
    /\ UNCHANGED sessionVars

\* login() with a valid session, and login() whose popup is blocked.
EndsAtOnce(l) ==
    /\ pc[l] = "idle"
    /\ pc' = [pc EXCEPT ![l] = "done"]
    /\ UNCHANGED <<windowVars, watches, timers, sessionVars>>

\* The provider sends the window back: with what the API adds today (an access
\* token, which the poll does not look for) or with a session token.
SentBack(p) ==
    /\ window # None /\ place = "foreign"
    /\ place' = p
    /\ UNCHANGED <<window, windows, pc, watches, timers, sessionVars>>

\* The user closes the window.
UserCloses ==
    /\ window # None /\ window' = None
    /\ UNCHANGED <<place, windows, pc, watches, timers, sessionVars>>

IsOpen(l) == window # None /\ watches[l] = window

\* The poll finds the window closed.
PollFindsClosed(l) ==
    /\ pc[l] = "polling" /\ ~IsOpen(l)
    /\ pc' = [pc EXCEPT ![l] = "done"]
    /\ UNCHANGED <<windowVars, watches, timers, sessionVars>>

\* The poll finds a token: the window closes, and the profile is fetched.
PollFindsToken(l) ==
    /\ pc[l] = "polling" /\ IsOpen(l) /\ place = "token"
    /\ window' = None
    /\ pc' = [pc EXCEPT ![l] = "fetching"]
    /\ UNCHANGED <<place, windows, watches, timers, sessionVars>>

\* A time-out that leaves the window as it is.
TimesOutOnly(l) ==
    /\ l \in timers
    /\ timers' = timers \ {l}
    /\ pc' = [pc EXCEPT ![l] = IF @ = "polling" THEN "done" ELSE @]
    /\ UNCHANGED <<windowVars, watches, sessionVars>>

\* Two minutes are over.  The timer is never cleared: it also fires for a login
\* that has ended, and closes the window another one has taken over.
TimesOut(l) ==
    /\ l \in timers
    /\ timers' = timers \ {l}
    /\ window' = IF IsOpen(l) THEN None ELSE window
    /\ pc' = [pc EXCEPT ![l] = IF @ = "polling" THEN "done" ELSE @]
    /\ UNCHANGED <<place, windows, watches, sessionVars>>

-----------------------------------------------------------------------------
(* The session *)

\* loginWithEmail(), after its two prompts.
LoginWithEmail(l) ==
    /\ pc[l] = "idle" /\ ~Unexpired(session)
    /\ pc' = [pc EXCEPT ![l] = "verifying"]
    /\ UNCHANGED <<windowVars, watches, timers, sessionVars>>

CodeVerified(l, u) ==
    /\ pc[l] = "verifying"
    /\ session' = MagicSession(u) /\ stored' = MagicSession(u)
    /\ pc' = [pc EXCEPT ![l] = "done"]
    /\ UNCHANGED <<windowVars, watches, timers, revoking>>

\* verifyMagicLink(), called by the page itself.
VerifyMagicLink(u) ==
    /\ session' = MagicSession(u) /\ stored' = MagicSession(u)
    /\ UNCHANGED <<windowVars, pc, watches, timers, revoking>>

\* fetchAndStoreProfile(), with the token of the popup.
ProfileStored(l, u) ==
    /\ pc[l] = "fetching"
    /\ session' = Session(u) /\ stored' = Session(u)
    /\ pc' = [pc EXCEPT ![l] = "done"]
    /\ UNCHANGED <<windowVars, watches, timers, revoking>>

\* The API does not accept the token, or the code.
AnswerFails(l) ==
    /\ pc[l] \in {"fetching", "verifying"}
    /\ pc' = [pc EXCEPT ![l] = "done"]
    /\ UNCHANGED <<windowVars, watches, timers, sessionVars>>

\* The end of a session's time, in memory and in the storage alike.
Expires ==
    /\ Unexpired(session)
    /\ session' = [session EXCEPT !.valid = FALSE]
    /\ stored' = IF stored = None THEN None ELSE [stored EXCEPT !.valid = FALSE]
    /\ UNCHANGED <<windowVars, pc, watches, timers, revoking>>

\* logout() without a session token only forgets.
LogoutForgets ==
    /\ session # None => ~session.token
    /\ session' = None /\ stored' = None
    /\ UNCHANGED <<windowVars, pc, watches, timers, revoking>>

\* With one it asks the API to revoke, and then forgets the session it finds,
\* which need not be the one it asked about.
LogoutStarts ==
    /\ session # None /\ revoking = None
    /\ session.token
    /\ revoking' = session
    /\ UNCHANGED <<windowVars, pc, watches, timers, session, stored>>

LogoutEnds ==
    /\ revoking # None
    /\ session' = None /\ stored' = None /\ revoking' = None
    /\ UNCHANGED <<windowVars, pc, watches, timers>>

Next ==
    \/ \E l \in Logins :
          \/ OpensPopup(l) \/ EndsAtOnce(l)
          \/ PollFindsClosed(l) \/ PollFindsToken(l) \/ TimesOut(l)
          \/ LoginWithEmail(l) \/ AnswerFails(l)
          \/ \E u \in Users : ProfileStored(l, u) \/ CodeVerified(l, u)
    \/ \E u \in Users : VerifyMagicLink(u)
    \/ \E p \in {"back", "token"} : SentBack(p)
    \/ UserCloses \/ Expires
    \/ LogoutForgets \/ LogoutStarts \/ LogoutEnds

Spec == Init /\ [][Next]_vars

-----------------------------------------------------------------------------
\* However logins share the window, whoever closes it and whichever timer
\* fires late: no window is left behind when the last login that watched it
\* has ended.
NoWindowLeft ==
    window # None => \E l \in Logins : pc[l] = "polling" /\ watches[l] = window

=============================================================================
