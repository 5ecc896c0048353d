--------------------------- MODULE SigningRequests ---------------------------
(* What surrounds a signing ceremony: the rate limit and the idempotency     *)
(* cache of SigningRequestValidator (apps/mpc/src/signing/validation), and   *)
(* the log of SigningAuditLogger (apps/mpc/src/signing/audit).  A call       *)
(* passes the limit, asks the cache, works for a while, stores its result    *)
(* and logs it, in the order of sign() (apps/mpc/src/grpc/signing.service);  *)
(* calls overlap, fail and are retried with the same key.                    *)
EXTENDS Integers, Sequences, FiniteSets

CONSTANTS
  Wallets, Keys,
  MaxCalls,    \* bound of the model: calls, numbered as they arrive
  RateLimitMax, RateLimitWindow, IdempotencyWindow,
  MaxLogged,   \* maxEntries of the audit log
  MaxClock     \* bound of the model

VARIABLES
  clock,
  rateLimits,   \* wallet -> [start, count], or NoEntry
  cache,        \* key -> [createdAt, result], or NoEntry
  call,         \* call -> where it is
  entries,      \* the audit log
  history       \* history: what became of calls, oldest first

requestVars == <<clock, rateLimits, cache, call, entries, history>>

Calls == 1..MaxCalls
NoEntry == [none |-> TRUE]
NoResult == 0
Idle == [state |-> "idle"]

Init ==
  /\ clock = 0
  /\ rateLimits = [w \in Wallets |-> NoEntry]
  /\ cache = [k \in Keys |-> NoEntry]
  /\ call = [c \in Calls |-> Idle]
  /\ entries = <<>>
  /\ history = <<>>
-----------------------------------------------------------------------------
\* The window of the wallet's entry is over, or there is no entry.
WindowOver(w) ==
  rateLimits[w] # NoEntry => clock - rateLimits[w].start > RateLimitWindow

\* checkRateLimit()
Allowed(w) == ~WindowOver(w) => rateLimits[w].count < RateLimitMax
CountRequest(w) ==
  rateLimits' = [rateLimits EXCEPT ![w] =
    IF WindowOver(w) THEN [start |-> clock, count |-> 1]
    ELSE [start |-> @.start, count |-> @.count + 1]]

Stale(k) ==
  cache[k] # NoEntry => clock - cache[k].createdAt > IdempotencyWindow

\* Mutant of CheckIdempotency: a repeated key starts its entry anew.
CheckIdempotencyAnew(k) ==
  cache' = [cache EXCEPT ![k] = [createdAt |-> clock, result |-> NoResult]]

\* checkIdempotency(): a key that is new or too old gets an entry without a
\* result; an entry that is found stays as it is.
CheckIdempotency(k) ==
  cache' = IF Stale(k)
           THEN [cache EXCEPT ![k] = [createdAt |-> clock, result |-> NoResult]]
           ELSE cache
Answers(k) == ~Stale(k) /\ cache[k].result # NoResult

\* SigningAuditLogger.log(): the oldest entries go.
Logged(entry) ==
  entries' = LET all == Append(entries, entry)
             IN  SubSeq(all, IF Len(all) > MaxLogged THEN Len(all) - MaxLogged + 1
                             ELSE 1, Len(all))

-----------------------------------------------------------------------------
Happened(what, c, w, k) ==
  history' = Append(history, [what |-> what, call |-> c, wallet |-> w, key |-> k,
                              time |-> clock])

Arrives(c) == /\ call[c] = Idle
              /\ \A d \in 1..(c - 1) : call[d] # Idle

\* sign() refuses the call; the failure is logged.
Refuse(c, w, k) ==
  /\ Arrives(c) /\ ~Allowed(w)
  /\ call' = [call EXCEPT ![c] = [state |-> "failed"]]
  /\ Logged([wallet |-> w, success |-> FALSE])
  /\ UNCHANGED <<clock, rateLimits, cache, history>>

\* The call has a result from the cache.  Nothing is logged.
Answer(c, w, k) ==
  /\ Arrives(c) /\ Allowed(w) /\ Answers(k)
  /\ CountRequest(w)
  /\ CheckIdempotency(k)
  /\ call' = [call EXCEPT ![c] = [state |-> "answered", result |-> cache[k].result]]
  /\ Happened("counted", c, w, k)
  /\ UNCHANGED <<clock, entries>>

\* Nothing to answer with: the work begins, also when another call with the
\* same key is at work.
Begin(c, w, k) ==
  /\ Arrives(c) /\ Allowed(w) /\ ~Answers(k)
  /\ CountRequest(w)
  /\ CheckIdempotency(k)
  /\ call' = [call EXCEPT ![c] = [state |-> "working", wallet |-> w, key |-> k]]
  /\ Happened("begun", c, w, k)
  /\ UNCHANGED <<clock, entries>>

\* The work succeeds: it is logged, and storeIdempotencyResult() puts the
\* result into the entry of the key, if there is one.
Finish(c) ==
  /\ call[c].state = "working"
  /\ LET k == call[c].key
     IN  /\ cache' = IF cache[k] = NoEntry THEN cache
                     ELSE [cache EXCEPT ![k].result = c]
         /\ history' = IF cache[k] = NoEntry THEN history
                       ELSE Append(history,
                              [what |-> "stored", call |-> c, key |-> k,
                               wallet |-> call[c].wallet,
                               time |-> cache[k].createdAt])
  /\ Logged([wallet |-> call[c].wallet, success |-> TRUE])
  /\ call' = [call EXCEPT ![c] = [state |-> "done"]]
  /\ UNCHANGED <<clock, rateLimits>>

\* The work fails: the entry stays without a result.
Fails(c) ==
  /\ call[c].state = "working"
  /\ Logged([wallet |-> call[c].wallet, success |-> FALSE])
  /\ call' = [call EXCEPT ![c] = [state |-> "failed"]]
  /\ UNCHANGED <<clock, rateLimits, cache, history>>

\* The entries that cleanup() leaves.
KeptLimits == [w \in Wallets |-> IF WindowOver(w) THEN NoEntry ELSE rateLimits[w]]
KeptCache == [k \in Keys |-> IF Stale(k) THEN NoEntry ELSE cache[k]]

\* cleanup()
Cleanup ==
  /\ rateLimits' = KeptLimits
  /\ cache' = KeptCache
  /\ UNCHANGED <<clock, call, entries, history>>

Tick ==
  /\ clock < MaxClock
  /\ clock' = clock + 1
  /\ UNCHANGED <<rateLimits, cache, call, entries, history>>

Next ==
  \/ \E c \in Calls, w \in Wallets, k \in Keys :
       Refuse(c, w, k) \/ Answer(c, w, k) \/ Begin(c, w, k)
  \/ \E c \in Calls : Finish(c) \/ Fails(c)
  \/ Cleanup
  \/ Tick

Spec == Init /\ [][Next]_requestVars
-----------------------------------------------------------------------------
(* Properties *)

\* Work whose result was stored is not done again: whoever comes with the key
\* as long as the entry that holds the result is young enough gets an answer,
\* whichever other calls with the key were under way, failed or were late.
RetryAnswered ==
  \A i, j \in DOMAIN history :
    /\ i < j /\ history[i].key = history[j].key
    /\ history[i].what = "stored" /\ history[j].what = "begun"
    => history[j].time - history[i].time > IdempotencyWindow
=============================================================================
