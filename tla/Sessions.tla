------------------------------ MODULE Sessions ------------------------------
(***************************************************************************)
(* OAuthService and TokenService of the API (apps/api/src/oauth and        *)
(* apps/api/src/token): logins by provider callback or magic link, the     *)
(* rotation of refresh tokens and their revocation.                        *)
(*                                                                         *)
(* A call runs without interruption from one `await' to the next, and      *)
(* every await is one command to a key-value store or to the database: an  *)
(* action is one such command with the code that follows it.  Any await    *)
(* may throw (CallFails), which ends the call and leaves what it did.      *)
(*                                                                         *)
(* Every command goes to Redis if its status is `ready' at that moment,    *)
(* and otherwise to a map of the process (one of each service), where it   *)
(* succeeds: nothing is carried over from one to the other.  The status    *)
(* may change between any two commands; without a REDIS_URL it is never    *)
(* ready.                                                                  *)
(*                                                                         *)
(* refresh:<token>, revoked:<token>, csrf:<state> and magic:<email> are    *)
(* the keys of the stores (session:<sub> is written and deleted too, but   *)
(* nothing reads it); rows are the OAuthSession rows by their              *)
(* sessionToken, which is the refresh token.                               *)
(***************************************************************************)
EXTENDS Naturals, FiniteSets

CONSTANTS
  Users,      \* subjects: provider and the identifier it gave
  Tokens,     \* refresh tokens that can be drawn; none is drawn twice
  States,     \* CSRF states that can be drawn
  Providers,  \* OAuth providers
  Calls,      \* calls that can be under way at a time
  MaxLogins,  \* bound: login attempts that are begun
  MaxSwitches,\* bound: how often Redis comes and goes
  None

ASSUME SessionsAssumption ==
  /\ None \notin Users \cup Tokens \cup States \cup Providers
  /\ {MaxLogins, MaxSwitches} \subseteq Nat

VARIABLES
  ready,      \* the status of Redis is `ready'
  switches,   \* how often it changed
  refresh,    \* by store: tokens with a refresh:<token> entry
  revoked,    \* by store: tokens with a revoked:<token> entry
  issuedTo,   \* the subject inside the entry of a token, None if never drawn
  csrf,       \* by store: the provider the state s was created for
  drawn,      \* states that were drawn
  magic,      \* by store: the code in magic:<email>, 0 if there is none
  attempts,   \* login attempts that were begun
  sent,       \* codes sent to u so far; the codes are 1..sent[u]
  rows,       \* refresh tokens of the OAuthSession rows
  call,       \* the call that each slot is busy with
  delivered,  \* history: tokens that were returned to a client
  parent,     \* history: the token that a delivered one was exchanged for
  loggedOut,  \* history: tokens that a finished revocation was about
  handedIn,   \* history: tokens that a revocation was given and took the row of
  missed      \* history: tokens whose entry a rotation or a revocation looked for in
              \* one store while it was in the other

mode == <<ready, switches>>
tokenKeys == <<refresh, revoked, issuedTo, missed>>
loginKeys == <<csrf, drawn, magic, sent, attempts>>
storeVars == <<mode, tokenKeys, loginKeys>>
history == <<delivered, parent, loggedOut, handedIn>>
vars == <<storeVars, rows, call, history>>

Stores == {"redis", "map"}

\* redisAvailable: the store that a command goes to, and the other one.
Store == IF ready THEN "redis" ELSE "map"
OtherStore == IF ready THEN "map" ELSE "redis"

Alive == refresh["redis"] \cup refresh["map"]

\* del(): the entry is deleted in the store in use; in the other it stays.
DropsEntry(t) ==
  /\ refresh' = [refresh EXCEPT ![Store] = @ \ {t}]
  /\ missed' = missed \cup ({t} \cap refresh[OtherStore])
  /\ UNCHANGED <<revoked, issuedTo>>

\* revoked:<token> is set in the store in use.
SetsMark(t) ==
  /\ revoked' = [revoked EXCEPT ![Store] = @ \cup {t}]
  /\ UNCHANGED <<refresh, issuedTo, missed>>

Steps == {"read", "mark", "drop"}   \* what revokeAllUserSessions does per key

Busy(pc, user, token, new, todo, about) ==
  [pc |-> pc, user |-> user, token |-> token, new |-> new, todo |-> todo, about |-> about]
Idle == Busy("idle", None, None, None, {}, {})

Init ==
  /\ ready \in BOOLEAN /\ switches = 0
  /\ refresh = [k \in Stores |-> {}] /\ revoked = [k \in Stores |-> {}]
  /\ issuedTo = [t \in Tokens |-> None]
  /\ csrf = [k \in Stores |-> [s \in States |-> None]]
  /\ drawn = {}
  /\ magic = [k \in Stores |-> [u \in Users |-> 0]]
  /\ sent = [u \in Users |-> 0]
  /\ attempts = 0
  /\ rows = {}
  /\ call = [c \in Calls |-> Idle]
  /\ delivered = {}
  /\ parent = [t \in Tokens |-> None]
  /\ loggedOut = {} /\ handedIn = {} /\ missed = {}

At(c, pc) == call[c].pc = pc
Becomes(c, record) == call' = [call EXCEPT ![c] = record]
Goto(c, pc) == Becomes(c, [call[c] EXCEPT !.pc = pc])
Ends(c) == Becomes(c, Idle)

\* issueTokens(): a token that was never drawn, with its entry in the store in use.
Issue(c, u, pc) ==
  \E t \in Tokens :
    /\ issuedTo[t] = None
    /\ issuedTo' = [issuedTo EXCEPT ![t] = u]
    /\ refresh' = [refresh EXCEPT ![Store] = @ \cup {t}]
    /\ Becomes(c, [call[c] EXCEPT !.pc = pc, !.user = u, !.new = t])
    /\ UNCHANGED <<mode, revoked, missed, loginKeys, rows, history>>

\* The call returns its new token.
Deliver(c) ==
  /\ delivered' = delivered \cup {call[c].new}
  /\ parent' = [parent EXCEPT ![call[c].new] = call[c].token]
  /\ Ends(c)

-----------------------------------------------------------------------------
(* Logins.                                                                 *)

\* Login attempts are counted for the bound alone.
BeginsLogin == attempts < MaxLogins /\ attempts' = attempts + 1

CreateState(p) ==
  /\ BeginsLogin
  /\ \E s \in States \ drawn :
       /\ drawn' = drawn \cup {s}
       /\ csrf' = [csrf EXCEPT ![Store][s] = p]
  /\ UNCHANGED <<mode, tokenKeys, magic, sent, rows, call, history>>

\* validateState(): the callback of provider p finds the state it came with,
\* which is compared with p but deleted whatever it was made for.
CallbackFindsState(c, s, p) ==
  /\ At(c, "idle")
  /\ csrf[Store][s] # None
  /\ Becomes(c, Busy(IF csrf[Store][s] = p THEN "csrf" ELSE "csrf_other",
                     None, s, None, {}, {}))
  /\ UNCHANGED <<storeVars, rows, history>>

CallbackDropsState(c) ==
  /\ At(c, "csrf") \/ At(c, "csrf_other")
  /\ csrf' = [csrf EXCEPT ![Store][call[c].token] = None]
  /\ IF At(c, "csrf") THEN Becomes(c, Busy("exchange", None, None, None, {}, {}))
                      ELSE Ends(c)
  /\ UNCHANGED <<mode, tokenKeys, drawn, magic, sent, attempts, rows, history>>

\* The provider names the user, and a pair of tokens is issued.
CallbackIssues(c, u) == At(c, "exchange") /\ Issue(c, u, "record")

\* sendMagicLink(): the code replaces the one before.
SendMagicLink(u) ==
  /\ BeginsLogin
  /\ sent' = [sent EXCEPT ![u] = @ + 1]
  /\ magic' = [magic EXCEPT ![Store][u] = sent[u] + 1]
  /\ UNCHANGED <<mode, tokenKeys, csrf, drawn, rows, call, history>>

\* verifyMagicLink() reads the code and finds it is the one it was given; any
\* other outcome is thrown at once.
MagicMatches(c, u, code) ==
  /\ At(c, "idle")
  /\ magic[Store][u] # 0 /\ magic[Store][u] = code
  /\ Becomes(c, Busy("code", u, None, None, {}, {}))
  /\ UNCHANGED <<storeVars, rows, history>>

\* The entry is deleted, whichever code it holds by now.
MagicDropsCode(c) ==
  /\ At(c, "code")
  /\ magic' = [magic EXCEPT ![Store][call[c].user] = 0]
  /\ Goto(c, "issue")
  /\ UNCHANGED <<mode, tokenKeys, csrf, drawn, sent, attempts, rows, history>>

MagicIssues(c) == At(c, "issue") /\ Issue(c, call[c].user, "record")

\* The row of the session is written and the login answers, unless the write
\* of session:<sub> that follows fails.
LoginRecords(c) ==
  /\ At(c, "record")
  /\ rows' = rows \cup {call[c].new}
  /\ \/ Deliver(c)
     \/ Ends(c) /\ UNCHANGED <<delivered, parent>>
  /\ UNCHANGED <<storeVars, loggedOut, handedIn>>

-----------------------------------------------------------------------------
(* refreshSession().                                                       *)

\* isRefreshTokenRevoked(): a revoked token is refused.
RefreshStarts(c, t) ==
  /\ At(c, "idle")
  /\ t \in delivered \ revoked[Store]
  /\ Becomes(c, Busy("lookup", None, t, None, {}, {}))
  /\ UNCHANGED <<storeVars, rows, history>>

\* refreshAccessToken(): the entry is read, then deleted, then replaced.
RefreshReads(c) ==
  /\ At(c, "lookup")
  /\ IF call[c].token \in refresh[Store]
     THEN Becomes(c, [call[c] EXCEPT !.pc = "rotate", !.user = issuedTo[call[c].token]])
     ELSE Ends(c)
  /\ UNCHANGED <<storeVars, rows, history>>

RefreshDrops(c) ==
  /\ At(c, "rotate")
  /\ DropsEntry(call[c].token)
  /\ Goto(c, "reissue")
  /\ UNCHANGED <<mode, loginKeys, rows, history>>

RefreshIssues(c) == At(c, "reissue") /\ Issue(c, call[c].user, "rename")

\* Mutant: the row is written whether or not it is still there.
RefreshUpserts(c) ==
  /\ At(c, "rename")
  /\ rows' = (rows \ {call[c].token}) \cup {call[c].new}
  /\ Deliver(c)
  /\ UNCHANGED <<storeVars, loggedOut, handedIn>>

\* The row takes the new token; if no row has the old one any more the update
\* throws, and the new pair is never returned.
RefreshRenames(c) ==
  /\ At(c, "rename")
  /\ IF call[c].token \in rows
     THEN /\ rows' = (rows \ {call[c].token}) \cup {call[c].new}
          /\ Deliver(c)
          /\ UNCHANGED <<loggedOut, handedIn>>
     ELSE Ends(c) /\ UNCHANGED <<rows, history>>
  /\ UNCHANGED storeVars

-----------------------------------------------------------------------------
(* revokeSession().                                                        *)

\* The subjects an access token can be for: one that was logged in, or None
\* for a token that does not verify.  An access token is not revocable.
AccessTokens == {issuedTo[t] : t \in delivered} \cup {None}

\* What the revocation of t and of everything of u is about: t itself, and
\* whatever u had been given when it began.
About(u, t) == (IF t = None THEN {} ELSE {t}) \cup {d \in delivered : issuedTo[d] = u}

\* With a refresh token: it is marked, its entry is deleted, then its row.
RevokeMarks(c, u, t) ==
  /\ At(c, "idle")
  /\ t \in delivered
  /\ SetsMark(t)
  /\ Becomes(c, Busy("unset", u, t, None, {}, About(u, t)))
  /\ UNCHANGED <<mode, loginKeys, rows, history>>

\* Mutant: the mark is enough, the entry stays.
RevokeKeeps(c) ==
  /\ At(c, "unset")
  /\ Goto(c, "forget")
  /\ UNCHANGED <<storeVars, rows, history>>

RevokeDrops(c) ==
  /\ At(c, "unset")
  /\ DropsEntry(call[c].token)
  /\ Goto(c, "forget")
  /\ UNCHANGED <<mode, loginKeys, rows, history>>

\* The call has done everything it was asked for.
Revoked(c) ==
  /\ loggedOut' = loggedOut \cup call[c].about
  /\ Ends(c)

\* Mutant: the row stays.
RevokeKeepsRow(c) ==
  /\ At(c, "forget")
  /\ handedIn' = handedIn \cup {call[c].token}
  /\ IF call[c].user = None THEN Revoked(c) ELSE Goto(c, "list") /\ UNCHANGED loggedOut
  /\ UNCHANGED <<storeVars, rows, delivered, parent>>

RevokeForgets(c) ==
  /\ At(c, "forget")
  /\ rows' = rows \ {call[c].token}
  /\ handedIn' = handedIn \cup {call[c].token}
  /\ IF call[c].user = None THEN Revoked(c) ELSE Goto(c, "list") /\ UNCHANGED loggedOut
  /\ UNCHANGED <<storeVars, delivered, parent>>

\* With an access token alone: all sessions of its subject go.
RevokeStarts(c, u) ==
  /\ At(c, "idle")
  /\ u # None
  /\ Becomes(c, Busy("list", u, None, None, {}, About(u, None)))
  /\ UNCHANGED <<storeVars, rows, history>>

\* revokeAllUserSessions(): the keys of all tokens in the store in use are listed,
\* then each is read, marked if it is the subject's, and deleted, all at the same
\* time.
Handling(c, todo) ==
  /\ IF todo = {} THEN Revoked(c)
     ELSE Becomes(c, [call[c] EXCEPT !.pc = "revoking", !.todo = todo]) /\ UNCHANGED loggedOut
  /\ UNCHANGED <<mode, loginKeys, rows, delivered, parent, handedIn>>

RevokeLists(c) ==
  /\ At(c, "list")
  /\ Handling(c, refresh[Store] \X {"read"})
  /\ missed' = missed \cup (call[c].about \cap refresh[OtherStore])
  /\ UNCHANGED <<refresh, revoked, issuedTo>>

KeyRead(c, t) ==
  /\ <<t, "read">> \in call[c].todo
  /\ Handling(c, (call[c].todo \ {<<t, "read">>}) \cup
                 (IF t \in refresh[Store] /\ issuedTo[t] = call[c].user
                  THEN {<<t, "mark">>} ELSE {}))
  /\ missed' = missed \cup ({t} \cap refresh[OtherStore])
  /\ UNCHANGED <<refresh, revoked, issuedTo>>

KeyMarked(c, t) ==
  /\ <<t, "mark">> \in call[c].todo
  /\ SetsMark(t)
  /\ Handling(c, (call[c].todo \ {<<t, "mark">>}) \cup {<<t, "drop">>})

\* Mutant: the same for the tokens of the subject.
KeyKept(c, t) ==
  /\ <<t, "drop">> \in call[c].todo
  /\ Handling(c, call[c].todo \ {<<t, "drop">>})
  /\ UNCHANGED tokenKeys

KeyDropped(c, t) ==
  /\ <<t, "drop">> \in call[c].todo
  /\ DropsEntry(t)
  /\ Handling(c, call[c].todo \ {<<t, "drop">>})

\* Promise.all() throws for one key while the commands for the others go on.
KeyFails(c, t) ==
  /\ \E s \in Steps : <<t, s>> \in call[c].todo
  /\ LET left == call[c].todo \ ({t} \X Steps)
     IN  IF left = {} THEN Ends(c)
         ELSE Becomes(c, [call[c] EXCEPT !.todo = left, !.about = {}])
  /\ UNCHANGED <<storeVars, rows, history>>

-----------------------------------------------------------------------------
(* Failures and the passing of time.                                       *)

\* The store, the database or the provider does not answer.
CallFails(c) ==
  /\ ~At(c, "idle")
  /\ Ends(c)
  /\ UNCHANGED <<storeVars, rows, history>>

\* Redis comes or goes.
RedisSwitches ==
  /\ switches < MaxSwitches
  /\ switches' = switches + 1
  /\ ready' = ~ready
  /\ UNCHANGED <<tokenKeys, loginKeys, rows, call, history>>

\* cleanupFallbackStore(): with more than ten thousand entries in the map, any call
\* that reads it deletes the oldest.
MapEvicts(t) ==
  /\ ~ready
  /\ \/ refresh' = [refresh EXCEPT !["map"] = @ \ {t}] /\ UNCHANGED revoked
     \/ revoked' = [revoked EXCEPT !["map"] = @ \ {t}] /\ UNCHANGED refresh
  /\ UNCHANGED <<mode, issuedTo, missed, loginKeys, rows, call, history>>

\* The lifetime of a state or a code is over.  Tokens live for seven days in Redis,
\* and the mark of a revoked one outlives it; no call lasts as long.
StateExpires(s) ==
  /\ \E k \in Stores : /\ csrf[k][s] # None
                       /\ csrf' = [csrf EXCEPT ![k][s] = None]
  /\ UNCHANGED <<mode, tokenKeys, drawn, magic, sent, attempts, rows, call, history>>

CodeExpires(u) ==
  /\ \E k \in Stores : /\ magic[k][u] # 0
                       /\ magic' = [magic EXCEPT ![k][u] = 0]
  /\ UNCHANGED <<mode, tokenKeys, csrf, drawn, sent, attempts, rows, call, history>>

LoginNext(c) ==
  \/ \E s \in States, p \in Providers : CallbackFindsState(c, s, p)
  \/ \E u \in Users : CallbackIssues(c, u) \/ \E code \in 1..sent[u] : MagicMatches(c, u, code)
  \/ CallbackDropsState(c)
  \/ MagicDropsCode(c) \/ MagicIssues(c) \/ LoginRecords(c)

RefreshNext(c) ==
  \/ \E t \in Tokens : RefreshStarts(c, t)
  \/ RefreshReads(c) \/ RefreshDrops(c) \/ RefreshIssues(c) \/ RefreshRenames(c)

RevokeNext(c) ==
  \/ \E u \in AccessTokens : RevokeStarts(c, u) \/ \E t \in Tokens : RevokeMarks(c, u, t)
  \/ RevokeDrops(c) \/ RevokeForgets(c) \/ RevokeLists(c)
  \/ \E t \in Tokens : KeyRead(c, t) \/ KeyMarked(c, t) \/ KeyDropped(c, t) \/ KeyFails(c, t)

Next ==
  \/ \E p \in Providers : CreateState(p)
  \/ \E u \in Users : SendMagicLink(u) \/ CodeExpires(u)
  \/ \E s \in States : StateExpires(s)
  \/ RedisSwitches \/ \E t \in Tokens : MapEvicts(t)
  \/ \E c \in Calls : LoginNext(c) \/ RefreshNext(c) \/ RevokeNext(c) \/ CallFails(c)

Spec == Init /\ [][Next]_vars

-----------------------------------------------------------------------------
(* Properties.                                                             *)

\* "One-time use; new refresh token issued on each refresh": however many
\* refreshes of a token overlap, and whichever store each of their commands goes
\* to, one of them is answered with a new pair.  The stores alone let them all
\* pass; the row of the session decides.
ExchangedOnce ==
  \A n, m \in delivered : parent[n] # None /\ parent[n] = parent[m] => n = m

\* A client whose refresh token is alive in a store has a session on record,
\* whatever refreshes and revocations of it overlapped or broke off, unless one
\* of them looked for the token in one store while it was in the other: then the
\* row goes and the token stays.
LiveTokenHasRow == (delivered \cap Alive) \ missed \subseteq rows

\* When revokeSession() has returned, nothing it was about can be refreshed:
\* neither the token it was given nor any that its subject had been given
\* before it began, although refreshes and logins went on in between.  Only what
\* it looked for in the wrong store remains, and there is none as long as Redis
\* neither came nor went.
LogoutReachesAll ==
  /\ loggedOut \cap Alive \subseteq missed
  /\ switches = 0 => missed = {}

\* The token that revokeSession() was given is never exchanged once its row is
\* gone, not even by a refresh that was under way, nor with its entry or its mark
\* in a store that was not asked.
HandedInNotExchanged ==
  [][\A n \in delivered' \ delivered : parent'[n] \notin handedIn]_vars
=============================================================================
