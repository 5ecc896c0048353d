--------------------------- MODULE SessionsProofs ---------------------------
(* Refresh tokens, for any users, tokens and number of calls that overlap     *)
(* step by step on the stores and the database and break off anywhere, while  *)
(* Redis comes and goes between any two commands: a token is exchanged once,  *)
(* a token that is alive has its row unless it was looked for in the wrong    *)
(* store, and a logout reaches all it was about but those.  The invariant     *)
(* follows every call from await to await; it speaks of the tokens that are   *)
(* alive and were never missed, since no store alone knows them.              *)
EXTENDS Sessions, TLAPS

Drawn == {t \in Tokens : issuedTo[t] # None}

\* The tokens that are alive in a store and were not looked for in the other.
Live == Alive \ missed

Pcs == {"idle", "csrf", "csrf_other", "exchange", "code", "issue", "record",
        "lookup", "rotate", "reissue", "rename",
        "unset", "forget", "list", "revoking"}
CallTypes ==
  [pc : Pcs, user : Users \cup {None}, token : Tokens \cup States \cup {None},
   new : Tokens \cup {None}, todo : SUBSET (Tokens \X Steps), about : SUBSET Tokens]

Types ==
  /\ switches \in Nat
  /\ issuedTo \in [Tokens -> Users \cup {None}]
  /\ parent \in [Tokens -> Tokens \cup States \cup {None}]
  /\ call \in [Calls -> CallTypes]
  /\ refresh \in [Stores -> SUBSET Drawn]
  /\ missed \subseteq Drawn
  /\ delivered \subseteq Drawn
  /\ loggedOut \subseteq Drawn

\* Calls that have drawn a token and not returned it.
Holding == {"record", "rename"}

\* What a revocation has still to do: every live token it is about is the one it
\* was given, or one of its user's, and among the keys it works on once those
\* are listed.
StillAbout(c) ==
  \A a \in call[c].about \cap Live :
    \/ At(c, "unset") /\ a = call[c].token
    \/ /\ issuedTo[a] = call[c].user
       /\ At(c, "revoking") => \E s \in Steps : <<a, s>> \in call[c].todo

\* What a call knows between two awaits.
WorkOK(c) ==
  /\ call[c].pc \in {"code", "issue", "rotate", "reissue"} => call[c].user \in Users
  /\ call[c].pc \in {"exchange", "code", "issue", "record"} => call[c].token = None
  /\ call[c].pc \in Holding => call[c].new \in Drawn \ delivered
  /\ call[c].pc \in {"lookup", "rotate", "reissue", "rename", "unset", "forget"}
       => call[c].token \in delivered
  /\ call[c].pc \in {"reissue", "rename", "forget"} => call[c].token \notin Live
  /\ call[c].todo # {} => At(c, "revoking")
  /\ call[c].about \subseteq Drawn
  /\ call[c].pc \in {"unset", "forget", "list", "revoking"} => StillAbout(c)

\* No two calls hold the same new token.
NewApart ==
  \A c, d \in Calls :
    c # d /\ call[c].pc \in Holding /\ call[d].pc \in Holding => call[c].new # call[d].new

\* What was exchanged was a client's, and has lost its row.
ExchangedRowGone ==
  \A n \in delivered : parent[n] # None => parent[n] \in delivered \ rows

\* So has what was handed in to be revoked.
HandedInRowGone == handedIn \subseteq delivered \ rows

Rows == ExchangedRowGone /\ HandedInRowGone /\ ExchangedOnce /\ LiveTokenHasRow

\* Until Redis comes or goes, the store that is not in use is empty.
OneStore == switches = 0 => refresh[OtherStore] = {} /\ missed = {}

Revocations == OneStore /\ LogoutReachesAll

IInv ==
  /\ Types /\ (\A c \in Calls : WorkOK(c)) /\ NewApart
  /\ Rows /\ Revocations

tokenVars == <<mode, refresh, missed, issuedTo, rows, history>>

\* Entries go away, and what a command looks for is missed only in the store that
\* is not in use.
Fewer ==
  /\ UNCHANGED <<mode, issuedTo>>
  /\ refresh' \in [Stores -> SUBSET Tokens]
  /\ \A k \in Stores : refresh'[k] \subseteq refresh[k]
  /\ missed \subseteq missed' /\ missed' \subseteq missed \cup refresh[OtherStore]

-----------------------------------------------------------------------------
(* The two stores.                                                         *)

\* Nothing comes back to life, and the store in use stays the only one.
LEMMA FewerLive ==
  ASSUME IInv, Fewer
  PROVE  /\ Live' \subseteq Live /\ OneStore' /\ switches' \in Nat
         /\ refresh' \in [Stores -> SUBSET Drawn'] /\ missed' \subseteq Drawn'
<1> USE DEF Fewer, mode, Stores
<1>1. Drawn' = Drawn /\ OtherStore \in Stores /\ OtherStore' = OtherStore
  BY DEF Drawn, OtherStore
<1>2. /\ refresh' \in [Stores -> SUBSET Drawn'] /\ missed' \subseteq Drawn'
      /\ switches' \in Nat
  BY <1>1 DEF IInv, Types
<1>3. Live' \subseteq Live
  BY DEF Live, Alive
<1>4. OneStore'
  BY <1>1 DEF IInv, Revocations, OneStore
<1>5. QED BY <1>2, <1>3, <1>4

LEMMA SameFewer == ASSUME IInv, UNCHANGED <<mode, refresh, missed, issuedTo>> PROVE Fewer
BY DEF Fewer, IInv, Types, Drawn

\* A deleted entry is gone, or was missed.
LEMMA DropsFewer ==
  ASSUME IInv, NEW t \in Tokens, DropsEntry(t), UNCHANGED mode
  PROVE  Fewer /\ t \notin Live' /\ issuedTo' = issuedTo
<1>1. Store \in Stores /\ Stores = {Store, OtherStore} /\ Store # OtherStore
  BY DEF Store, OtherStore, Stores
<1>2. refresh' \in [Stores -> SUBSET Tokens]
  BY <1>1 DEF DropsEntry, IInv, Types, Drawn
<1>3. /\ refresh'[Store] = refresh[Store] \ {t}
      /\ refresh'[OtherStore] = refresh[OtherStore]
  BY <1>1 DEF DropsEntry, IInv, Types
<1>4. missed' = missed \cup ({t} \cap refresh[OtherStore]) /\ issuedTo' = issuedTo
  BY DEF DropsEntry
<1>5. Fewer
  BY <1>1, <1>2, <1>3, <1>4 DEF Fewer
<1>6. Alive' = refresh'[Store] \cup refresh'[OtherStore]
  BY <1>1 DEF Alive, Stores
<1>7. QED BY <1>3, <1>4, <1>5, <1>6 DEF Live

-----------------------------------------------------------------------------
(* Calls that stand still, and calls that move.                            *)

LEMMA IdleType == Idle \in CallTypes
BY DEF Idle, Busy, CallTypes, Pcs

LEMMA IdleOK == ASSUME NEW c \in Calls, call[c] = Idle PROVE WorkOK(c)
BY DEF Idle, Busy, WorkOK, Holding, At

LEMMA InitIInv == Init => IInv
<1> SUFFICES ASSUME Init PROVE IInv
  OBVIOUS
<1>1. Types
  BY IdleType DEF Init, Types, Drawn
<1>2. \A c \in Calls : WorkOK(c)
  BY IdleOK DEF Init
<1>3. NewApart
  BY DEF Init, NewApart, Idle, Busy, Holding
<1>4. Revocations
  BY DEF Init, Revocations, OneStore, LogoutReachesAll, OtherStore, Stores
<1>5. Rows
  BY DEF Init, Rows, ExchangedRowGone, HandedInRowGone, ExchangedOnce, LiveTokenHasRow
<1>6. QED BY <1>1, <1>2, <1>3, <1>4, <1>5 DEF IInv

\* Tokens that are drawn keep their subject and do not come back to life, and
\* clients keep what they were given: a call that stands still knows what it
\* knew, as long as its new token is not given to a client.
LEMMA Undisturbed ==
  ASSUME Types, NEW d \in Calls, WorkOK(d), call'[d] = call[d],
         Drawn \subseteq Drawn', delivered \subseteq delivered',
         \A t \in Drawn : issuedTo'[t] = issuedTo[t],
         Live' \cap Drawn \subseteq Live,
         call[d].pc \in Holding => call[d].new \notin delivered'
  PROVE  WorkOK(d)'
<1>1. call[d].pc \in Holding => call[d].new \in Drawn' \ delivered'
  BY DEF WorkOK
<1>2. call[d].pc \in {"reissue", "rename", "forget"} => call[d].token \notin Live'
  BY DEF WorkOK, Types
<1>3. call[d].pc \in {"unset", "forget", "list", "revoking"} => StillAbout(d)'
  BY DEF WorkOK, StillAbout, At
<1>4. QED BY <1>1, <1>2, <1>3 DEF WorkOK, At

\* A step of one call that draws no token and returns none, and under which
\* what loses its row is no longer alive.
LEMMA CallStep ==
  ASSUME IInv, NEW c \in Calls, NEW r \in CallTypes, r.pc \notin Holding,
         call' = [call EXCEPT ![c] = r], WorkOK(c)',
         UNCHANGED <<delivered, parent>>,
         Fewer, rows' \subseteq rows,
         delivered \cap Live' \subseteq rows',
         handedIn' \subseteq handedIn \cup (delivered \ rows'),
         \/ loggedOut' = loggedOut
         \/ loggedOut' = loggedOut \cup call[c].about /\ call[c].about \cap Live' = {}
  PROVE  IInv'
<1>1. /\ Live' \subseteq Live /\ OneStore' /\ switches' \in Nat
      /\ refresh' \in [Stores -> SUBSET Drawn'] /\ missed' \subseteq Drawn'
      /\ UNCHANGED issuedTo /\ Drawn' = Drawn
  BY FewerLive DEF Fewer, Drawn
<1>2. Types'
  <2>1. call[c].about \subseteq Drawn
    BY DEF IInv, WorkOK
  <2>2. QED BY <1>1, <2>1 DEF IInv, Types
<1>3. ASSUME NEW d \in Calls, d # c PROVE WorkOK(d)'
  BY <1>1, <1>3, Undisturbed DEF IInv, Types, WorkOK
<1>4. NewApart'
  BY DEF IInv, Types, NewApart
<1>5. Rows'
  BY DEF IInv, Rows, ExchangedRowGone, HandedInRowGone, ExchangedOnce, LiveTokenHasRow, Live
<1>6. Revocations'
  BY <1>1 DEF IInv, Revocations, OneStore, LogoutReachesAll, Live
<1>7. QED BY <1>2, <1>3, <1>4, <1>5, <1>6 DEF IInv

\* A call that ends, whatever it was doing.
LEMMA EndStep ==
  ASSUME IInv, NEW c \in Calls, Ends(c),
         UNCHANGED <<delivered, parent>>,
         Fewer, rows' \subseteq rows,
         delivered \cap Live' \subseteq rows',
         handedIn' \subseteq handedIn \cup (delivered \ rows'),
         \/ loggedOut' = loggedOut
         \/ loggedOut' = loggedOut \cup call[c].about /\ call[c].about \cap Live' = {}
  PROVE  IInv'
<1>1. call' = [call EXCEPT ![c] = Idle] /\ call'[c] = Idle
  BY DEF IInv, Types, Ends, Becomes
<1>2. WorkOK(c)'
  BY <1>1 DEF Idle, Busy, WorkOK, Holding, At
<1>3. Idle.pc \notin Holding
  BY DEF Idle, Busy, Holding
<1>4. QED BY <1>1, <1>2, <1>3, IdleType, CallStep

\* Where tokens and rows stay as they are, every live token keeps its row.
LEMMA SameTokens ==
  ASSUME IInv, UNCHANGED tokenVars
  PROVE  /\ Fewer /\ Live' = Live /\ Drawn' = Drawn /\ delivered \cap Live' \subseteq rows'
         /\ UNCHANGED <<issuedTo, rows, delivered, parent, loggedOut, handedIn>>
BY SameFewer DEF tokenVars, history, mode, Live, Alive, Drawn, IInv, Rows, LiveTokenHasRow

LEMMA QuietStep ==
  ASSUME IInv, NEW c \in Calls, NEW r \in CallTypes, r.pc \notin Holding,
         call' = [call EXCEPT ![c] = r], WorkOK(c)', UNCHANGED tokenVars
  PROVE  IInv'
BY SameTokens, CallStep

LEMMA QuietEnd ==
  ASSUME IInv, NEW c \in Calls, Ends(c), UNCHANGED tokenVars PROVE IInv'
BY SameTokens, EndStep

\* No call moves; entries may go and Redis may come or go.
LEMMA OtherStep ==
  ASSUME IInv, UNCHANGED <<call, issuedTo, rows, history>>,
         refresh' \in [Stores -> SUBSET Drawn], missed' = missed,
         Live' \subseteq Live, switches' \in Nat, OneStore'
  PROVE  IInv'
<1>1. Types'
  BY DEF IInv, Types, history, Drawn
<1>2. ASSUME NEW d \in Calls PROVE WorkOK(d)'
  BY <1>2, Undisturbed DEF IInv, history, Types, Drawn, WorkOK
<1>3. NewApart' /\ Rows' /\ Revocations'
  BY DEF IInv, history, NewApart, Rows, ExchangedRowGone, HandedInRowGone, ExchangedOnce,
     LiveTokenHasRow, Revocations, OneStore, LogoutReachesAll, Live
<1>4. QED BY <1>1, <1>2, <1>3 DEF IInv

-----------------------------------------------------------------------------
(* Logins.                                                                 *)

LEMMA CallbackStep ==
  ASSUME IInv, NEW c \in Calls,
         \/ \E s \in States, p \in Providers : CallbackFindsState(c, s, p)
         \/ CallbackDropsState(c)
  PROVE  IInv'
<1> UNCHANGED tokenVars
  BY DEF CallbackFindsState, CallbackDropsState, storeVars, tokenKeys, tokenVars
<1>1. ASSUME NEW s \in States, NEW p \in Providers, CallbackFindsState(c, s, p)
      PROVE  IInv'
  <2> DEFINE r == Busy(IF csrf[Store][s] = p THEN "csrf" ELSE "csrf_other",
                       None, s, None, {}, {})
  <2>1. r \in CallTypes /\ r.pc \notin Holding
    BY DEF Busy, CallTypes, Pcs, Holding
  <2>2. call' = [call EXCEPT ![c] = r] /\ call'[c] = r
    BY <1>1 DEF CallbackFindsState, Becomes, IInv, Types
  <2>3. WorkOK(c)'
    BY <2>2 DEF Busy, WorkOK, Holding, At
  <2> HIDE DEF r
  <2>4. QED BY <2>1, <2>2, <2>3, QuietStep
<1>2. CASE CallbackDropsState(c) /\ At(c, "csrf")
  <2> DEFINE r == Busy("exchange", None, None, None, {}, {})
  <2>1. r \in CallTypes /\ r.pc \notin Holding
    BY DEF Busy, CallTypes, Pcs, Holding
  <2>2. call' = [call EXCEPT ![c] = r] /\ call'[c] = r
    BY <1>2 DEF CallbackDropsState, Becomes, IInv, Types
  <2>3. WorkOK(c)'
    BY <2>2 DEF Busy, WorkOK, Holding, At
  <2> HIDE DEF r
  <2>4. QED BY <2>1, <2>2, <2>3, QuietStep
<1>3. CASE CallbackDropsState(c) /\ ~At(c, "csrf")
  BY <1>3, QuietEnd DEF CallbackDropsState
<1>4. QED BY <1>1, <1>2, <1>3

LEMMA MagicStep ==
  ASSUME IInv, NEW c \in Calls,
         \/ \E u \in Users : \E code \in 1..sent[u] : MagicMatches(c, u, code)
         \/ MagicDropsCode(c)
  PROVE  IInv'
<1> UNCHANGED tokenVars
  BY DEF MagicMatches, MagicDropsCode, storeVars, tokenKeys, tokenVars
<1>1. ASSUME NEW u \in Users, NEW code, MagicMatches(c, u, code) PROVE IInv'
  <2> DEFINE r == Busy("code", u, None, None, {}, {})
  <2>1. r \in CallTypes /\ r.pc \notin Holding
    BY DEF Busy, CallTypes, Pcs, Holding
  <2>2. call' = [call EXCEPT ![c] = r] /\ call'[c] = r
    BY <1>1 DEF MagicMatches, Becomes, IInv, Types
  <2>3. WorkOK(c)'
    BY <2>2 DEF Busy, WorkOK, Holding, At
  <2> HIDE DEF r
  <2>4. QED BY <2>1, <2>2, <2>3, QuietStep
<1>2. CASE MagicDropsCode(c)
  <2> DEFINE r == [call[c] EXCEPT !.pc = "issue"]
  <2>1. r \in CallTypes /\ r.pc \notin Holding
    BY DEF IInv, Types, CallTypes, Pcs, Holding
  <2>2. call' = [call EXCEPT ![c] = r] /\ call'[c] = r
    BY <1>2 DEF MagicDropsCode, Goto, Becomes, IInv, Types
  <2>3. WorkOK(c)'
    BY <1>2, <2>2 DEF MagicDropsCode, IInv, Types, CallTypes, WorkOK, Holding, At,
       tokenVars, history, Drawn
  <2> HIDE DEF r
  <2>4. QED BY <2>1, <2>2, <2>3, QuietStep
<1>3. QED BY <1>1, <1>2

-----------------------------------------------------------------------------
(* A token is drawn, and returned.                                         *)

\* A new token is nobody else's.
LEMMA IssueStep ==
  ASSUME IInv, NEW c \in Calls, NEW u \in Users, NEW pc \in Holding, Issue(c, u, pc),
         call[c].todo = {},
         pc = "record" => call[c].token = None,
         pc = "rename" => call[c].token \in delivered \ Live
  PROVE  IInv'
<1>1. PICK t \in Tokens :
        /\ issuedTo[t] = None
        /\ issuedTo' = [issuedTo EXCEPT ![t] = u]
        /\ refresh' = [refresh EXCEPT ![Store] = @ \cup {t}]
        /\ call' = [call EXCEPT ![c] =
                      [call[c] EXCEPT !.pc = pc, !.user = u, !.new = t]]
  BY DEF Issue, Becomes
<1>2. UNCHANGED <<rows, delivered, parent, loggedOut, handedIn, missed, mode>>
  BY DEF Issue, history
<1>3. Drawn' = Drawn \cup {t} /\ t \notin Drawn /\ t \notin delivered
  BY <1>1, SessionsAssumption DEF IInv, Types, Drawn
<1>4. call'[c] = [call[c] EXCEPT !.pc = pc, !.user = u, !.new = t]
  BY <1>1 DEF IInv, Types
<1>5. /\ refresh' \in [Stores -> SUBSET Drawn'] /\ Live' \subseteq Live \cup {t}
       /\ OneStore'
  <2>1. Store \in Stores /\ OtherStore \in Stores /\ Store # OtherStore
    BY DEF Store, OtherStore, Stores
  <2>2. refresh \in [Stores -> SUBSET Drawn]
    BY DEF IInv, Types
  <2>3. refresh' \in [Stores -> SUBSET Drawn']
    BY <1>1, <1>3, <2>1, <2>2
  <2>4. \A k \in Stores : refresh'[k] \subseteq refresh[k] \cup {t}
    BY <1>1, <2>1, <2>2
  <2>5. Live' \subseteq Live \cup {t}
    BY <1>2, <2>4 DEF Live, Alive, Stores
  <2>6. OtherStore' = OtherStore /\ refresh'[OtherStore] = refresh[OtherStore]
    BY <1>1, <1>2, <2>1, <2>2 DEF OtherStore, mode
  <2>7. OneStore'
    BY <1>2, <2>6 DEF IInv, Revocations, OneStore, mode
  <2>8. QED BY <2>3, <2>5, <2>7
<1>6. Types'
  <2>1. call[c] \in CallTypes /\ pc \in Pcs
    BY DEF IInv, Types, Pcs, Holding
  <2>2. call'[c] \in CallTypes
    BY <1>4, <2>1 DEF CallTypes
  <2>3. call' \in [Calls -> CallTypes]
    BY <1>1, <1>4, <2>2 DEF IInv, Types
  <2>4. issuedTo' \in [Tokens -> Users \cup {None}]
    BY <1>1 DEF IInv, Types
  <2>5. QED BY <1>1, <1>2, <1>3, <1>5, <2>3, <2>4 DEF IInv, Types, mode
<1>7. ASSUME NEW d \in Calls PROVE WorkOK(d)'
  <2>1. CASE d = c
    <3>1. call'[c].pc = pc /\ call'[c].user = u /\ call'[c].new = t
      BY <1>4 DEF IInv, Types, CallTypes
    <3>2. /\ call'[c].token = call[c].token /\ call'[c].todo = {}
          /\ call'[c].about = call[c].about
      BY <1>4 DEF IInv, Types, CallTypes
    <3>3. call[c].about \subseteq Drawn'
      BY <1>3 DEF IInv, WorkOK
    <3>4. pc = "rename" => call[c].token \in delivered' \ Live'
      BY <1>2, <1>3, <1>5
    <3>5. QED BY <2>1, <1>2, <1>3, <3>1, <3>2, <3>3, <3>4 DEF WorkOK, Holding, At
  <2>2. CASE d # c
    <3>1. call'[d] = call[d]
      BY <2>2, <1>1 DEF IInv, Types
    <3>2. \A x \in Drawn : issuedTo'[x] = issuedTo[x]
      BY <1>1, <1>3 DEF IInv, Types, Drawn
    <3>3. call[d].pc \in Holding => call[d].new \notin delivered'
      BY <1>2 DEF IInv, WorkOK
    <3>4. QED BY <3>1, <3>2, <3>3, <1>2, <1>3, <1>5, Undisturbed DEF IInv
  <2>3. QED BY <2>1, <2>2
<1>8. NewApart'
  <2>1. \A d \in Calls : call[d].pc \in Holding => call[d].new # t
    BY <1>3 DEF IInv, WorkOK
  <2>2. call'[c].new = t
    BY <1>4 DEF IInv, Types, CallTypes
  <2>3. \A d \in Calls : d # c => call'[d] = call[d]
    BY <1>1 DEF IInv, Types
  <2>4. QED BY <2>1, <2>2, <2>3 DEF IInv, NewApart
<1>9. Rows'
  BY <1>2, <1>3, <1>5 DEF IInv, Rows, ExchangedRowGone, HandedInRowGone, ExchangedOnce,
     LiveTokenHasRow, Live
<1>10. Revocations'
  BY <1>2, <1>3, <1>5 DEF IInv, Types, Revocations, OneStore, LogoutReachesAll, Live
<1>11. QED BY <1>6, <1>7, <1>8, <1>9, <1>10 DEF IInv

\* A token is returned with its row, and the one it was exchanged for loses its
\* own at the same time.
LEMMA DeliverStep ==
  ASSUME IInv, NEW c \in Calls, call[c].pc \in Holding, Deliver(c),
         UNCHANGED <<mode, refresh, missed, issuedTo, loggedOut, handedIn>>,
         \/ call[c].token = None /\ rows' = rows \cup {call[c].new}
         \/ /\ call[c].token \in rows /\ call[c].token \in delivered \ Live
            /\ rows' = (rows \ {call[c].token}) \cup {call[c].new}
  PROVE  IInv'
<1> DEFINE n == call[c].new
           t == call[c].token
<1>1. n \in Drawn /\ n \in Tokens /\ n \notin delivered
  BY DEF IInv, WorkOK, Drawn
<1>2. /\ delivered' = delivered \cup {n} /\ parent' = [parent EXCEPT ![n] = t]
      /\ call' = [call EXCEPT ![c] = Idle] /\ Drawn' = Drawn
  BY DEF Deliver, Ends, Becomes, Drawn
<1>3. call'[c] = Idle
  BY <1>2 DEF IInv, Types
<1>4. t \in Tokens \cup States \cup {None}
  BY DEF IInv, Types, CallTypes
<1>5. Live' = Live
  BY DEF Live, Alive
<1>6. Types'
  BY <1>1, <1>2, <1>4, IdleType DEF IInv, Types, mode
<1>7. ASSUME NEW d \in Calls PROVE WorkOK(d)'
  <2>1. CASE d = c
    BY <2>1, <1>3 DEF Idle, Busy, WorkOK, Holding, At
  <2>2. CASE d # c
    <3>1. call[d].pc \in Holding => call[d].new # n /\ call[d].new \notin delivered
      BY <2>2 DEF IInv, NewApart, WorkOK
    <3>2. call'[d] = call[d]
      BY <2>2, <1>2 DEF IInv, Types
    <3>3. QED BY <3>1, <3>2, <1>2, <1>5, Undisturbed DEF IInv
  <2>3. QED BY <2>1, <2>2
<1>8. NewApart'
  <2>1. call'[c].pc \notin Holding
    BY <1>3 DEF Idle, Busy, Holding
  <2>2. \A d \in Calls : d # c => call'[d] = call[d]
    BY <1>2 DEF IInv, Types
  <2>3. QED BY <2>1, <2>2 DEF IInv, NewApart
<1>9. parent'[n] = t /\ \A m \in delivered : parent'[m] = parent[m]
  BY <1>1, <1>2 DEF IInv, Types
<1>10. ExchangedRowGone'
  BY <1>1, <1>2, <1>9 DEF IInv, Rows, ExchangedRowGone
<1>11. ExchangedOnce'
  <2>1. \A m \in delivered : parent[m] # None => parent[m] # t
    BY DEF IInv, Rows, ExchangedRowGone
  <2>2. QED BY <2>1, <1>1, <1>2, <1>9 DEF IInv, Rows, ExchangedOnce
<1>12. LiveTokenHasRow' /\ HandedInRowGone'
  BY <1>1, <1>2, <1>5 DEF IInv, Rows, LiveTokenHasRow, HandedInRowGone, Live
<1>13. Revocations'
  BY DEF IInv, Revocations, OneStore, LogoutReachesAll, Alive, OtherStore, mode
<1>14. QED BY <1>6, <1>7, <1>8, <1>10, <1>11, <1>12, <1>13 DEF IInv, Rows

LEMMA LoginIssueStep ==
  ASSUME IInv, NEW c \in Calls,
         (\E u \in Users : CallbackIssues(c, u)) \/ MagicIssues(c)
  PROVE  IInv'
<1>1. call[c].todo = {} /\ call[c].token = None
  BY DEF IInv, WorkOK, CallbackIssues, MagicIssues, At
<1>2. \E u \in Users : Issue(c, u, "record")
  BY DEF IInv, WorkOK, CallbackIssues, MagicIssues, At
<1>3. QED BY <1>1, <1>2, IssueStep DEF Holding

\* The row is written; the answer may be lost.
LEMMA LoginRecordsStep ==
  ASSUME IInv, NEW c \in Calls, LoginRecords(c) PROVE IInv'
<1>1. /\ call[c].pc = "record" /\ call[c].token = None
      /\ call[c].new \in Drawn \ delivered
      /\ rows' = rows \cup {call[c].new} /\ Live' = Live
      /\ UNCHANGED <<mode, refresh, missed, issuedTo, loggedOut, handedIn>>
  BY DEF LoginRecords, IInv, WorkOK, Holding, At, storeVars, tokenKeys, Live, Alive
<1>2. CASE Deliver(c)
  BY <1>1, <1>2, DeliverStep DEF Holding
<1>3. CASE Ends(c) /\ UNCHANGED <<delivered, parent>>
  <2>1. Types'
    BY <1>1, <1>3, IdleType DEF Ends, Becomes, IInv, Types, Drawn, mode
  <2>2. ASSUME NEW d \in Calls PROVE WorkOK(d)'
    <3>1. CASE d = c
      BY <3>1, <1>3 DEF IInv, Types, Ends, Becomes, Idle, Busy, WorkOK, Holding, At
    <3>2. CASE d # c
      <4>1. call'[d] = call[d] /\ Drawn' = Drawn
        BY <3>2, <1>1, <1>3 DEF IInv, Types, Ends, Becomes, Drawn
      <4>2. call[d].pc \in Holding => call[d].new \notin delivered'
        BY <1>3 DEF IInv, WorkOK
      <4>3. QED BY <4>1, <4>2, <1>1, <1>3, Undisturbed DEF IInv
    <3>3. QED BY <3>1, <3>2
  <2>3. NewApart'
    BY <1>3 DEF IInv, Types, NewApart, Ends, Becomes, Idle, Busy, Holding
  <2>4. Rows'
    BY <1>1, <1>3 DEF IInv, Rows, ExchangedRowGone, HandedInRowGone, ExchangedOnce,
       LiveTokenHasRow, Alive
  <2>5. Revocations'
    BY <1>1 DEF IInv, Revocations, OneStore, LogoutReachesAll, Alive, OtherStore, mode
  <2>6. QED BY <2>1, <2>2, <2>3, <2>4, <2>5 DEF IInv
<1>4. QED BY <1>2, <1>3 DEF LoginRecords

-----------------------------------------------------------------------------
(* Refreshes.                                                              *)

LEMMA RefreshBeginsStep ==
  ASSUME IInv, NEW c \in Calls,
         (\E t \in Tokens : RefreshStarts(c, t)) \/ RefreshReads(c)
  PROVE  IInv'
<1> UNCHANGED tokenVars
  BY DEF RefreshStarts, RefreshReads, storeVars, tokenKeys, tokenVars
<1>1. ASSUME NEW t \in Tokens, RefreshStarts(c, t) PROVE IInv'
  <2> DEFINE r == Busy("lookup", None, t, None, {}, {})
  <2>1. r \in CallTypes /\ r.pc \notin Holding
    BY DEF Busy, CallTypes, Pcs, Holding
  <2>2. call' = [call EXCEPT ![c] = r] /\ call'[c] = r
    BY <1>1 DEF RefreshStarts, Becomes, IInv, Types
  <2>3. WorkOK(c)'
    BY <1>1, <2>2 DEF RefreshStarts, history, Busy, WorkOK, Holding, At
  <2> HIDE DEF r
  <2>4. QED BY <2>1, <2>2, <2>3, QuietStep
<1>2. CASE RefreshReads(c) /\ call[c].token \in refresh[Store]
  <2> DEFINE r == [call[c] EXCEPT !.pc = "rotate", !.user = issuedTo[call[c].token]]
  <2>1. call[c].token \in delivered /\ call[c].todo = {} /\ call[c].about \subseteq Drawn
    BY <1>2 DEF RefreshReads, IInv, WorkOK, At
  <2>2. issuedTo[call[c].token] \in Users
    BY <2>1 DEF IInv, Types, Drawn
  <2>3. r \in CallTypes /\ r.pc \notin Holding
    BY <2>2 DEF IInv, Types, CallTypes, Pcs, Holding
  <2>4. call' = [call EXCEPT ![c] = r] /\ call'[c] = r
    BY <1>2 DEF RefreshReads, Becomes, IInv, Types
  <2>5. /\ r.pc = "rotate" /\ r.user \in Users /\ r.token \in delivered /\ r.todo = {}
        /\ r.about \subseteq Drawn
    BY <2>1, <2>2 DEF IInv, Types, CallTypes
  <2> HIDE DEF r
  <2>6. WorkOK(c)'
    BY <2>4, <2>5 DEF WorkOK, Holding, At, tokenVars, history, Drawn
  <2>7. QED BY <2>3, <2>4, <2>6, QuietStep
<1>3. CASE RefreshReads(c) /\ call[c].token \notin refresh[Store]
  BY <1>3, QuietEnd DEF RefreshReads
<1>4. QED BY <1>1, <1>2, <1>3

\* The call goes on, to a place where it holds no token, and takes its token out
\* of the store in use.
LEMMA DropStep ==
  ASSUME IInv, NEW c \in Calls, RefreshDrops(c) \/ RevokeDrops(c) PROVE IInv'
<1> DEFINE pc == IF RefreshDrops(c) THEN "reissue" ELSE "forget"
           r == [call[c] EXCEPT !.pc = pc]
<1>1. /\ DropsEntry(call[c].token) /\ UNCHANGED mode
      /\ UNCHANGED <<rows, delivered, parent, loggedOut, handedIn>>
      /\ call' = [call EXCEPT ![c] = r] /\ call'[c] = r
  BY DEF RefreshDrops, RevokeDrops, At, Goto, Becomes, history, IInv, Types
<1>2. r \in CallTypes /\ r.pc \notin Holding
  BY DEF IInv, Types, CallTypes, Pcs, Holding
<1>3. /\ call[c].token \in delivered /\ call[c].todo = {} /\ call[c].about \subseteq Drawn
      /\ pc = "reissue" => call[c].user \in Users
      /\ pc = "forget" => StillAbout(c) /\ call[c].pc = "unset"
  BY DEF RefreshDrops, RevokeDrops, IInv, WorkOK, At
<1>4. /\ r.pc = pc /\ r.token = call[c].token /\ r.todo = {} /\ r.about = call[c].about
      /\ r.user = call[c].user
  BY <1>3 DEF IInv, Types, CallTypes
<1>5. pc \in {"reissue", "forget"}
  OBVIOUS
<1> HIDE DEF r, pc
<1>6. Fewer /\ call[c].token \notin Live' /\ UNCHANGED issuedTo /\ Live' \subseteq Live
  <2>1. call[c].token \in Tokens
    BY <1>3 DEF IInv, Types, Drawn
  <2>2. QED BY <1>1, <2>1, DropsFewer, FewerLive
<1>7. pc = "forget" => StillAbout(c)'
  BY <1>1, <1>3, <1>4, <1>6 DEF StillAbout, At
<1>8. WorkOK(c)'
  BY <1>1, <1>3, <1>4, <1>5, <1>7, <1>6 DEF WorkOK, Holding, At, Drawn
<1>9. delivered \cap Live' \subseteq rows'
  BY <1>1, <1>6 DEF IInv, Rows, LiveTokenHasRow, Live
<1>10. QED BY <1>1, <1>2, <1>8, <1>9, <1>6, CallStep

LEMMA RefreshIssuesStep ==
  ASSUME IInv, NEW c \in Calls, RefreshIssues(c) PROVE IInv'
<1>1. /\ call[c].todo = {} /\ call[c].user \in Users
      /\ call[c].token \in delivered \ Live
  BY DEF RefreshIssues, IInv, WorkOK, At
<1>2. Issue(c, call[c].user, "rename")
  BY DEF RefreshIssues
<1>3. QED BY <1>1, <1>2, IssueStep DEF Holding

LEMMA RefreshRenamesStep ==
  ASSUME IInv, NEW c \in Calls, RefreshRenames(c) PROVE IInv'
<1>1. call[c].pc = "rename" /\ call[c].token \in delivered \ Live
  BY DEF RefreshRenames, IInv, WorkOK, At
<1>2. CASE call[c].token \in rows
  BY <1>1, <1>2, DeliverStep DEF RefreshRenames, storeVars, tokenKeys, Holding
<1>3. CASE call[c].token \notin rows
  BY <1>1, <1>3, QuietEnd DEF RefreshRenames, storeVars, tokenKeys, tokenVars
<1>4. QED BY <1>2, <1>3

-----------------------------------------------------------------------------
(* Revocations.                                                            *)

\* A revocation is about tokens that were drawn, each the one it was given or
\* one of its user's.
LEMMA AboutDrawn ==
  ASSUME IInv, NEW u, NEW t \in delivered \cup {None}
  PROVE  /\ About(u, t) \subseteq Drawn
         /\ \A a \in About(u, t) : a = t \/ issuedTo[a] = u
         /\ None \notin About(u, t)
BY SessionsAssumption DEF About, IInv, Types, Drawn

LEMMA RevokeBeginsStep ==
  ASSUME IInv, NEW c \in Calls,
         \/ \E u \in AccessTokens : RevokeStarts(c, u)
         \/ \E u \in AccessTokens, t \in Tokens : RevokeMarks(c, u, t)
  PROVE  IInv'
<1> UNCHANGED tokenVars
  BY DEF RevokeStarts, RevokeMarks, SetsMark, storeVars, tokenKeys, tokenVars
<1>1. \A u \in AccessTokens : u \in Users \cup {None}
  BY DEF AccessTokens, IInv, Types, Drawn
<1>2. ASSUME NEW u \in AccessTokens, RevokeStarts(c, u) PROVE IInv'
  <2> DEFINE r == Busy("list", u, None, None, {}, About(u, None))
  <2>1. /\ About(u, None) \subseteq Drawn
        /\ \A a \in About(u, None) : issuedTo[a] = u
    BY AboutDrawn
  <2>2. r \in CallTypes /\ r.pc \notin Holding
    BY <1>1, <2>1 DEF Busy, CallTypes, Pcs, Holding, Drawn
  <2>3. call' = [call EXCEPT ![c] = r] /\ call'[c] = r
    BY <1>2 DEF RevokeStarts, Becomes, IInv, Types
  <2>4. /\ r.pc = "list" /\ r.user = u /\ r.todo = {} /\ r.about = About(u, None)
    BY DEF Busy
  <2> HIDE DEF r
  <2>5. WorkOK(c)'
    BY <2>1, <2>3, <2>4 DEF WorkOK, StillAbout, Holding, At, tokenVars, Drawn
  <2>6. QED BY <2>2, <2>3, <2>5, QuietStep
<1>3. ASSUME NEW u \in AccessTokens, NEW t \in Tokens, RevokeMarks(c, u, t) PROVE IInv'
  <2> DEFINE r == Busy("unset", u, t, None, {}, About(u, t))
  <2>1. t \in delivered
    BY <1>3 DEF RevokeMarks
  <2>2. /\ About(u, t) \subseteq Drawn
        /\ \A a \in About(u, t) : a = t \/ issuedTo[a] = u
    BY <2>1, AboutDrawn
  <2>3. r \in CallTypes /\ r.pc \notin Holding
    BY <1>1, <2>2 DEF Busy, CallTypes, Pcs, Holding, Drawn
  <2>4. call' = [call EXCEPT ![c] = r] /\ call'[c] = r
    BY <1>3 DEF RevokeMarks, Becomes, IInv, Types
  <2>5. /\ r.pc = "unset" /\ r.user = u /\ r.token = t /\ r.todo = {}
        /\ r.about = About(u, t)
    BY DEF Busy
  <2> HIDE DEF r
  <2>6. WorkOK(c)'
    BY <2>1, <2>2, <2>4, <2>5 DEF WorkOK, StillAbout, Holding, At, tokenVars, history,
       Drawn
  <2>7. QED BY <2>3, <2>4, <2>6, QuietStep
<1>4. QED BY <1>2, <1>3

\* The token is out of the store, or was missed, before its row goes.
LEMMA RevokeForgetsStep ==
  ASSUME IInv, NEW c \in Calls, RevokeForgets(c) PROVE IInv'
<1>1. /\ rows' = rows \ {call[c].token} /\ UNCHANGED <<mode, refresh, missed, issuedTo>>
      /\ handedIn' = handedIn \cup {call[c].token} /\ UNCHANGED <<delivered, parent>>
      /\ call[c].token \notin Live /\ StillAbout(c)
      /\ call[c].pc = "forget" /\ call[c].todo = {} /\ call[c].about \subseteq Drawn
  BY DEF RevokeForgets, storeVars, tokenKeys, IInv, WorkOK, At
<1>2. Fewer /\ Live' = Live
  BY <1>1, SameFewer DEF Live, Alive
<1>3. call[c].token \in delivered
  BY <1>1 DEF RevokeForgets, IInv, WorkOK
<1>4. /\ delivered \cap Live' \subseteq rows'
      /\ handedIn' \subseteq handedIn \cup (delivered \ rows')
  BY <1>1, <1>2, <1>3 DEF IInv, Rows, LiveTokenHasRow, Live
<1>5. CASE call[c].user = None
  <2>1. call[c].about \cap Live = {}
    BY <1>1, <1>5 DEF StillAbout, At, Drawn
  <2>2. loggedOut' = loggedOut \cup call[c].about /\ Ends(c)
    BY <1>5 DEF RevokeForgets, Revoked
  <2>3. QED BY <1>1, <1>4, <1>2, <2>1, <2>2, EndStep
<1>6. CASE call[c].user # None
  <2> DEFINE r == [call[c] EXCEPT !.pc = "list"]
  <2>1. r \in CallTypes /\ r.pc \notin Holding
    BY DEF IInv, Types, CallTypes, Pcs, Holding
  <2>2. /\ call' = [call EXCEPT ![c] = r] /\ call'[c] = r
        /\ UNCHANGED loggedOut
    BY <1>6 DEF RevokeForgets, Goto, Becomes, IInv, Types
  <2>3. /\ r.pc = "list" /\ r.user = call[c].user /\ r.todo = {}
        /\ r.about = call[c].about
    BY <1>1 DEF IInv, Types, CallTypes
  <2> HIDE DEF r
  <2>4. StillAbout(c)'
    BY <1>1, <1>2, <2>2, <2>3 DEF StillAbout, At
  <2>5. WorkOK(c)'
    BY <1>1, <1>2, <2>2, <2>3, <2>4 DEF WorkOK, Holding, At, Drawn
  <2>6. QED BY <1>1, <1>4, <1>2, <2>1, <2>2, <2>5, CallStep
<1>7. QED BY <1>5, <1>6

\* The revocation of all sessions goes on with the keys it has still to handle,
\* or has handled them all.
LEMMA HandlingStep ==
  ASSUME IInv, NEW c \in Calls, NEW todo \in SUBSET (Tokens \X Steps),
         Handling(c, todo), Fewer,
         call[c].pc \in {"list", "revoking"},
         \A a \in call[c].about \cap Live' :
           issuedTo[a] = call[c].user /\ \E s \in Steps : <<a, s>> \in todo
  PROVE  IInv'
<1>1. /\ delivered \cap Live' \subseteq rows'
      /\ UNCHANGED <<rows, delivered, parent, handedIn, issuedTo>>
  BY FewerLive DEF Handling, Fewer, IInv, Rows, LiveTokenHasRow, Live
<1>2. CASE todo = {}
  <2>1. loggedOut' = loggedOut \cup call[c].about /\ Ends(c)
    BY <1>2 DEF Handling, Revoked
  <2>2. call[c].about \cap Live' = {}
    BY <1>2
  <2>3. QED BY <1>1, <2>1, <2>2, EndStep
<1>3. CASE todo # {}
  <2> DEFINE r == [call[c] EXCEPT !.pc = "revoking", !.todo = todo]
  <2>1. r \in CallTypes /\ r.pc \notin Holding
    BY DEF IInv, Types, CallTypes, Pcs, Holding
  <2>2. /\ call' = [call EXCEPT ![c] = r] /\ call'[c] = r
        /\ UNCHANGED loggedOut
    BY <1>3 DEF Handling, Becomes, IInv, Types
  <2>3. /\ r.pc = "revoking" /\ r.user = call[c].user /\ r.todo = todo
        /\ r.about = call[c].about
    BY DEF IInv, Types, CallTypes
  <2>4. call[c].about \subseteq Drawn
    BY DEF IInv, WorkOK
  <2> HIDE DEF r
  <2>5. StillAbout(c)'
    BY <1>1, <2>2, <2>3 DEF StillAbout, At
  <2>6. WorkOK(c)'
    BY <1>1, <2>2, <2>3, <2>4, <2>5 DEF WorkOK, Holding, At, Drawn
  <2>7. QED BY <1>1, <2>1, <2>2, <2>6, CallStep
<1>4. QED BY <1>2, <1>3

\* What is listed is alive in the store in use; what is not, is missed.
LEMMA RevokeListsStep ==
  ASSUME IInv, NEW c \in Calls, RevokeLists(c) PROVE IInv'
<1>1. /\ call[c].pc = "list" /\ StillAbout(c) /\ call[c].about \subseteq Drawn
      /\ UNCHANGED <<refresh, issuedTo, mode>>
      /\ missed' = missed \cup (call[c].about \cap refresh[OtherStore])
      /\ Handling(c, refresh[Store] \X {"read"})
  BY DEF RevokeLists, Handling, IInv, WorkOK, At
<1>2. Stores = {Store, OtherStore}
  BY DEF Store, OtherStore, Stores
<1>3. refresh \in [Stores -> SUBSET Tokens]
  BY DEF IInv, Types, Drawn
<1>4. Fewer
  BY <1>1, <1>3 DEF Fewer
<1>5. refresh[Store] \X {"read"} \in SUBSET (Tokens \X Steps)
  BY <1>2, <1>3 DEF Steps
<1>6. \A a \in call[c].about \cap Live' : a \in Live /\ a \in refresh[Store]
  BY <1>1, <1>2 DEF Live, Alive, Stores
<1>7. \A a \in call[c].about \cap Live' :
        /\ issuedTo[a] = call[c].user
        /\ \E s \in Steps : <<a, s>> \in refresh[Store] \X {"read"}
  BY <1>1, <1>6 DEF StillAbout, At, Steps
<1>8. QED BY <1>1, <1>4, <1>5, <1>7, HandlingStep

\* One key is read, marked or deleted: it stays among those to be handled while
\* it is alive and was not missed.
LEMMA KeyStep ==
  ASSUME IInv, NEW c \in Calls, NEW t \in Tokens,
         KeyRead(c, t) \/ KeyMarked(c, t) \/ KeyDropped(c, t)
  PROVE  IInv'
<1>1. call[c].pc = "revoking" /\ StillAbout(c)
  BY DEF KeyRead, KeyMarked, KeyDropped, IInv, WorkOK, At
<1>2. call[c].todo \in SUBSET (Tokens \X Steps)
  BY DEF IInv, Types, CallTypes
<1>3. \A a \in call[c].about \cap Live :
        issuedTo[a] = call[c].user /\ \E s \in Steps : <<a, s>> \in call[c].todo
  BY <1>1 DEF StillAbout, At
<1>4. CASE KeyRead(c, t)
  <2> DEFINE todo == (call[c].todo \ {<<t, "read">>}) \cup
                       (IF t \in refresh[Store] /\ issuedTo[t] = call[c].user
                        THEN {<<t, "mark">>} ELSE {})
  <2>1. todo \in SUBSET (Tokens \X Steps)
    BY <1>2 DEF Steps
  <2>2. /\ Handling(c, todo) /\ UNCHANGED <<refresh, issuedTo, mode>>
        /\ missed' = missed \cup ({t} \cap refresh[OtherStore])
    BY <1>4 DEF KeyRead, Handling
  <2>3. Fewer
    BY <2>2 DEF Fewer, IInv, Types, Drawn
  <2>4. Stores = {Store, OtherStore}
    BY DEF Store, OtherStore, Stores
  <2>5. Live' \subseteq Live /\ (t \in Live' => t \in refresh[Store])
    BY <2>2, <2>4 DEF Live, Alive, Stores
  <2>6. \A a \in call[c].about \cap Live' :
          issuedTo[a] = call[c].user /\ \E s \in Steps : <<a, s>> \in todo
    <3> SUFFICES ASSUME NEW a \in call[c].about \cap Live'
                 PROVE  issuedTo[a] = call[c].user /\ \E s \in Steps : <<a, s>> \in todo
      OBVIOUS
    <3>1. issuedTo[a] = call[c].user /\ \E s \in Steps : <<a, s>> \in call[c].todo
      BY <1>3, <2>5
    <3>2. CASE a = t
      BY <2>5, <3>1, <3>2 DEF Steps
    <3>3. CASE a # t
      BY <3>1, <3>3
    <3>4. QED BY <3>2, <3>3
  <2> HIDE DEF todo
  <2>7. QED BY <1>1, <2>1, <2>2, <2>3, <2>6, HandlingStep
<1>5. CASE KeyMarked(c, t)
  <2> DEFINE todo == (call[c].todo \ {<<t, "mark">>}) \cup {<<t, "drop">>}
  <2>1. todo \in SUBSET (Tokens \X Steps)
    BY <1>2 DEF Steps
  <2>2. Handling(c, todo) /\ UNCHANGED <<refresh, missed, issuedTo, mode>>
    BY <1>5 DEF KeyMarked, SetsMark, Handling
  <2>3. Fewer /\ Live' = Live
    BY <2>2, SameFewer DEF Live, Alive
  <2>4. \A a \in call[c].about \cap Live' :
          issuedTo[a] = call[c].user /\ \E s \in Steps : <<a, s>> \in todo
    BY <1>3, <2>3 DEF Steps
  <2> HIDE DEF todo
  <2>5. QED BY <1>1, <2>1, <2>2, <2>3, <2>4, HandlingStep
<1>6. CASE KeyDropped(c, t)
  <2> DEFINE todo == call[c].todo \ {<<t, "drop">>}
  <2>1. todo \in SUBSET (Tokens \X Steps)
    BY <1>2 DEF Steps
  <2>2. Handling(c, todo) /\ DropsEntry(t) /\ UNCHANGED mode
    BY <1>6 DEF KeyDropped, Handling
  <2>3. Fewer /\ t \notin Live' /\ Live' \subseteq Live
    BY <2>2, DropsFewer, FewerLive
  <2>4. \A a \in call[c].about \cap Live' :
          issuedTo[a] = call[c].user /\ \E s \in Steps : <<a, s>> \in todo
    <3> SUFFICES ASSUME NEW a \in call[c].about \cap Live'
                 PROVE  issuedTo[a] = call[c].user /\ \E s \in Steps : <<a, s>> \in todo
      OBVIOUS
    <3>1. a # t /\ issuedTo[a] = call[c].user /\ \E s \in Steps : <<a, s>> \in call[c].todo
      BY <1>3, <2>3
    <3>2. QED BY <3>1
  <2> HIDE DEF todo
  <2>5. QED BY <1>1, <2>1, <2>2, <2>3, <2>4, HandlingStep
<1>7. QED BY <1>4, <1>5, <1>6

-----------------------------------------------------------------------------
(* Failures and the passing of time.                                       *)

\* A call that failed for one key goes on with the others, and is about nothing
\* any more: it will throw.
LEMMA KeyFailsStep ==
  ASSUME IInv, NEW c \in Calls, NEW t \in Tokens, KeyFails(c, t) PROVE IInv'
<1> DEFINE left == call[c].todo \ ({t} \X Steps)
<1>1. UNCHANGED tokenVars
  BY DEF KeyFails, storeVars, tokenKeys, tokenVars
<1>2. CASE left = {}
  BY <1>1, <1>2, QuietEnd DEF KeyFails
<1>3. CASE left # {}
  <2> DEFINE r == [call[c] EXCEPT !.todo = left, !.about = {}]
  <2>1. r \in CallTypes
    BY DEF IInv, Types, CallTypes
  <2>2. call' = [call EXCEPT ![c] = r] /\ call'[c] = r
    BY <1>3 DEF KeyFails, Becomes, IInv, Types
  <2>3. call[c].pc = "revoking"
    BY DEF KeyFails, IInv, WorkOK, At
  <2>4. r.pc = "revoking" /\ r.about = {}
    BY <2>3 DEF IInv, Types, CallTypes
  <2> HIDE DEF r
  <2>5. WorkOK(c)'
    BY <2>2, <2>4 DEF WorkOK, StillAbout, Holding, At
  <2>6. QED BY <1>1, <2>1, <2>2, <2>4, <2>5, QuietStep DEF Holding
<1>4. QED BY <1>2, <1>3

LEMMA CallFailsStep ==
  ASSUME IInv, NEW c \in Calls, CallFails(c) PROVE IInv'
BY QuietEnd DEF CallFails, storeVars, tokenKeys, tokenVars

\* From then on both stores may hold tokens.
LEMMA SwitchStep == ASSUME IInv, RedisSwitches PROVE IInv'
<1>1. switches' \in Nat /\ switches' # 0
  BY DEF RedisSwitches, IInv, Types
<1>2. /\ UNCHANGED <<call, issuedTo, rows, history>> /\ missed' = missed
      /\ refresh' \in [Stores -> SUBSET Drawn] /\ Live' \subseteq Live
  BY DEF RedisSwitches, tokenKeys, IInv, Types, Live, Alive
<1>3. OneStore'
  BY <1>1 DEF OneStore
<1>4. QED BY <1>1, <1>2, <1>3, OtherStep

LEMMA EvictStep == ASSUME IInv, NEW t \in Tokens, MapEvicts(t) PROVE IInv'
<1>1. /\ UNCHANGED <<mode, call, issuedTo, rows, history>> /\ missed' = missed
      /\ \/ refresh' = [refresh EXCEPT !["map"] = @ \ {t}]
         \/ refresh' = refresh
  BY DEF MapEvicts
<1>2. refresh \in [Stores -> SUBSET Drawn]
  BY DEF IInv, Types
<1>3. \A k \in Stores : refresh'[k] \subseteq refresh[k]
  BY <1>1, <1>2
<1>4. refresh' \in [Stores -> SUBSET Drawn]
  BY <1>1, <1>2
<1>5. Fewer
  BY <1>1, <1>3, <1>4 DEF Fewer, Drawn
<1>6. QED BY <1>1, <1>4, <1>5, FewerLive, OtherStep

\* States and codes are not tokens.
LEMMA LoginKeysStep == ASSUME IInv, UNCHANGED <<call, tokenVars>> PROVE IInv'
<1>1. Fewer /\ Live' = Live
  BY SameTokens
<1>2. QED BY <1>1, FewerLive, OtherStep DEF tokenVars, IInv, Types, Drawn

LEMMA StepIInv == IInv /\ [Next]_vars => IInv'
<1> SUFFICES ASSUME IInv, [Next]_vars PROVE IInv'
  OBVIOUS
<1>1. ASSUME NEW c \in Calls, LoginNext(c) PROVE IInv'
  BY <1>1, CallbackStep, MagicStep, LoginIssueStep, LoginRecordsStep DEF LoginNext
<1>2. ASSUME NEW c \in Calls, RefreshNext(c) PROVE IInv'
  BY <1>2, RefreshBeginsStep, DropStep, RefreshIssuesStep, RefreshRenamesStep
     DEF RefreshNext
<1>3. ASSUME NEW c \in Calls, RevokeNext(c) PROVE IInv'
  BY <1>3, RevokeBeginsStep, DropStep, RevokeForgetsStep, RevokeListsStep, KeyStep,
     KeyFailsStep DEF RevokeNext
<1>4. ASSUME NEW c \in Calls, CallFails(c) PROVE IInv'
  BY <1>4, CallFailsStep
<1>5. CASE \/ \E p \in Providers : CreateState(p)
           \/ \E u \in Users : SendMagicLink(u) \/ CodeExpires(u)
           \/ \E s \in States : StateExpires(s)
  BY <1>5, LoginKeysStep DEF CreateState, SendMagicLink, CodeExpires, StateExpires,
     tokenKeys, tokenVars
<1>6. CASE RedisSwitches \/ \E t \in Tokens : MapEvicts(t)
  BY <1>6, SwitchStep, EvictStep
<1>7. CASE UNCHANGED vars
  BY <1>7, LoginKeysStep DEF vars, storeVars, tokenKeys, tokenVars
<1>8. QED BY <1>1, <1>2, <1>3, <1>4, <1>5, <1>6, <1>7 DEF Next

\* What the properties rest on, for every call between any two of its commands,
\* whichever store each of them goes to.
THEOREM Invariance == Spec => []IInv
BY InitIInv, StepIInv, PTL DEF Spec

\* However many refreshes of a token overlap or break off, on one store or on
\* both, one of them at most returns a new pair.
THEOREM TokenExchangedOnce == Spec => []ExchangedOnce
<1>1. IInv => ExchangedOnce
  BY DEF IInv, Rows
<1>2. QED BY Invariance, <1>1, PTL

\* Whoever holds a refresh token that is alive has a session on record, unless a
\* call looked for the token in one store while it was in the other.
THEOREM LiveTokensOnRecord == Spec => []LiveTokenHasRow
<1>1. IInv => LiveTokenHasRow
  BY DEF IInv, Rows
<1>2. QED BY Invariance, <1>1, PTL

\* When a revocation has returned, none of the tokens it was about is alive, nor
\* will be again, but those it looked for in the wrong store; and it looks in no
\* wrong store unless Redis came or went.
THEOREM LogoutIsComplete == Spec => []LogoutReachesAll
<1>1. IInv => LogoutReachesAll
  BY DEF IInv, Revocations
<1>2. QED BY Invariance, <1>1, PTL

\* A token that was handed in to be revoked has lost its row, and what has no row
\* is not exchanged, in whichever store it may still be alive.
THEOREM HandedInIsOver == Spec => HandedInNotExchanged
<1> DEFINE Over == \A n \in delivered' \ delivered : parent'[n] \notin handedIn
<1>1. ASSUME IInv, [Next]_vars PROVE [Over]_vars
  <2>1. ASSUME NEW c \in Calls, At(c, "record") \/ At(c, "rename"), Deliver(c),
               call[c].token = None \/ call[c].token \in rows
        PROVE  Over
    <3>1. delivered' \ delivered \subseteq {call[c].new} /\ call[c].new \in Tokens
      BY <1>1, <2>1 DEF Deliver, IInv, WorkOK, Holding, At, Drawn
    <3>2. parent'[call[c].new] = call[c].token
      BY <1>1, <2>1, <3>1 DEF Deliver, IInv, Types
    <3>3. call[c].token \notin handedIn
      BY <1>1, <2>1, SessionsAssumption
         DEF IInv, Types, Rows, HandedInRowGone, Drawn
    <3>4. QED BY <3>1, <3>2, <3>3
  <2>2. ASSUME NEW c \in Calls, LoginRecords(c) PROVE Over
    BY <1>1, <2>1, <2>2 DEF LoginRecords, IInv, WorkOK, At
  <2>3. ASSUME NEW c \in Calls, RefreshRenames(c) PROVE Over
    BY <2>1, <2>3 DEF RefreshRenames, history
  <2>4. ASSUME NEW c \in Calls, LoginNext(c) PROVE Over
    BY <2>2, <2>4 DEF LoginNext, CallbackFindsState, CallbackIssues, MagicMatches,
       CallbackDropsState, MagicDropsCode, MagicIssues, Issue, history
  <2>5. ASSUME NEW c \in Calls, RefreshNext(c) PROVE Over
    BY <2>3, <2>5 DEF RefreshNext, RefreshStarts, RefreshReads, RefreshDrops,
       RefreshIssues, Issue, history
  <2>6. ASSUME NEW c \in Calls, RevokeNext(c) PROVE Over
    BY <2>6 DEF RevokeNext, RevokeStarts, RevokeMarks, RevokeDrops, RevokeForgets,
       RevokeLists, KeyRead, KeyMarked, KeyDropped, KeyFails, Handling, history
  <2>7. ASSUME NEW c \in Calls, CallFails(c) PROVE Over
    BY <2>7 DEF CallFails, history
  <2>8. CASE \/ \E p \in Providers : CreateState(p)
             \/ \E u \in Users : SendMagicLink(u) \/ CodeExpires(u)
             \/ \E s \in States : StateExpires(s)
             \/ RedisSwitches \/ \E t \in Tokens : MapEvicts(t)
    BY <2>8 DEF CreateState, SendMagicLink, CodeExpires, StateExpires, RedisSwitches,
       MapEvicts, history
  <2>9. QED BY <1>1, <2>4, <2>5, <2>6, <2>7, <2>8 DEF Next
<1>2. QED BY Invariance, <1>1, PTL DEF Spec, HandedInNotExchanged
=============================================================================
