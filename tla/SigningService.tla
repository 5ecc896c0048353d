--------------------------- MODULE SigningService ---------------------------
(***************************************************************************)
(* MpcSigningService.sign() (apps/mpc/src/grpc/signing.service.ts) on top  *)
(* of the ConcurrencyManager.  A call of sign() runs without interruption  *)
(* up to `await this.concurrency.submit(...)': it is rejected on the way,  *)
(* or it awaits.  A rejected promise resumes its caller in a microtask,    *)
(* which runs the catch block: concurrency.fail(walletId) and rethrow.     *)
(*                                                                         *)
(* Nothing outside sign() calls concurrency.complete(), and sign() calls   *)
(* it only after the await, so the promise is never resolved and the code  *)
(* behind the await (party selection, ceremony, result cache, lines 154 to *)
(* 223) is never reached.  For the same reason no idempotency entry ever   *)
(* has a result, so the cache never answers, and no ceremony exists that   *)
(* cancelCeremony() could cancel; the three leave no trace here.           *)
(***************************************************************************)
EXTENDS Concurrency

CONSTANT RateLimitMax   \* requests per wallet and rate-limit window

ASSUME RateAssumption == RateLimitMax \in Nat \ {0}

VARIABLES
  pc,          \* pc[r]: "idle", "awaiting" the submit promise, or "failed"
  walletOf,    \* walletOf[r]: the wallet of a call that was made
  error,       \* error[r]: what the caller of r was thrown
  rejections,  \* microtasks: calls whose promise was rejected, oldest first
  shares,      \* wallets with an entry in shareStore
  rateCount    \* requests counted in the current window of a wallet

callVars == <<pc, walletOf, error>>
serviceVars == <<vars, pc, walletOf, error, rejections, shares, rateCount>>

NoError == [kind |-> "none", from |-> None]

ServiceInit ==
  /\ Init
  /\ pc = [r \in Requests |-> "idle"]
  /\ walletOf = [r \in Requests |-> None]
  /\ error = [r \in Requests |-> NoError]
  /\ rejections = <<>>
  /\ shares = {}
  /\ rateCount = [w \in Wallets |-> 0]

-----------------------------------------------------------------------------

\* Mutant: the error is given to the caller only; the promises that fail()
\* rejects wake nobody.
ThrowUntold(w, r, e, waiting) ==
  /\ pc' = [pc EXCEPT ![r] = "failed"]
  /\ walletOf' = [walletOf EXCEPT ![r] = w]
  /\ error' = [error EXCEPT ![r] = e]
  /\ Fail(w) \/ ReleaseUnknown(w)
  /\ rejections' = waiting

\* Mutant: an error tears the whole manager down (destroy() for fail()).
ThrowDestroys(w, r, e, waiting) ==
  /\ pc' = [pc EXCEPT ![r] = "failed"]
  /\ walletOf' = [walletOf EXCEPT ![r] = w]
  /\ error' = [q \in Requests |-> IF q = r \/ promise[q] = "pending" THEN e ELSE error[q]]
  /\ Destroy
  /\ rejections' = waiting

\* The catch block: the error e of call r is thrown to its caller, and
\* concurrency.fail(walletId, e) rejects whoever holds or waits for the lock
\* of the wallet with the same error, in order.
Throw(w, r, e, waiting) ==
  /\ pc' = [pc EXCEPT ![r] = "failed"]
  /\ walletOf' = [walletOf EXCEPT ![r] = w]
  /\ error' = [q \in Requests |->
                 IF q = r \/ (promise[q] = "pending" /\ Holds(w, q))
                 THEN e ELSE error[q]]
  /\ Fail(w) \/ ReleaseUnknown(w)
  /\ rejections' = waiting \o Line(w)

NewError(r, kind) == [kind |-> kind, from |-> r]

\* checkRateLimit(): the window has room and the request is counted.
Admitted(w) ==
  /\ rateCount[w] < RateLimitMax
  /\ rateCount' = [rateCount EXCEPT ![w] = @ + 1]

SignInvalid(w, r) ==
  /\ pc[r] = "idle"
  /\ Throw(w, r, NewError(r, "invalid"), rejections)
  /\ UNCHANGED <<shares, rateCount>>

SignRateLimited(w, r) ==
  /\ pc[r] = "idle"
  /\ rateCount[w] >= RateLimitMax
  /\ Throw(w, r, NewError(r, "rate_limited"), rejections)
  /\ UNCHANGED <<shares, rateCount>>

SignWithoutShares(w, r) ==
  /\ pc[r] = "idle"
  /\ Admitted(w)
  /\ w \notin shares
  /\ Throw(w, r, NewError(r, "no_shares"), rejections)
  /\ UNCHANGED shares

\* The request is submitted and its call awaits; a full queue rejects the
\* promise at once, which the call learns in a microtask.
SignSubmit(w, r) ==
  /\ pc[r] = "idle"
  /\ Admitted(w)
  /\ w \in shares
  /\ Submit(w, r)
  /\ pc' = [pc EXCEPT ![r] = "awaiting"]
  /\ walletOf' = [walletOf EXCEPT ![r] = w]
  /\ IF promise'[r] = "rejected"
     THEN /\ rejections' = Append(rejections, r)
          /\ error' = [error EXCEPT ![r] = NewError(r, "queue_full")]
     ELSE UNCHANGED <<rejections, error>>
  /\ UNCHANGED shares

\* Mutant: the rejection is swallowed, the call goes on waiting.
SignRejectedSwallowed ==
  /\ rejections # <<>>
  /\ rejections' = Tail(rejections)
  /\ UNCHANGED <<vars, callVars, shares, rateCount>>

\* The oldest microtask: the await throws and the catch block runs.
SignRejected ==
  /\ rejections # <<>>
  /\ LET r == Head(rejections)
     IN  Throw(walletOf[r], r, error[r], Tail(rejections))
  /\ UNCHANGED <<shares, rateCount>>

RegisterShares(w) ==
  /\ shares' = shares \cup {w}
  /\ UNCHANGED <<vars, callVars, rejections, rateCount>>

\* The rate-limit window of w has passed: its entry counts no more.
WindowElapsed(w) ==
  /\ rateCount' = [rateCount EXCEPT ![w] = 0]
  /\ UNCHANGED <<vars, callVars, rejections, shares>>

\* MpcSigningService.cleanup(): with no ceremonies and only elapsed rate-limit
\* entries to drop, idle mutexes are all that goes.
ServiceCleanup ==
  /\ Cleanup
  /\ UNCHANGED <<callVars, rejections, shares, rateCount>>

ServiceNext ==
  \/ \E w \in Wallets, r \in Requests :
       \/ SignInvalid(w, r)
       \/ SignRateLimited(w, r)
       \/ SignWithoutShares(w, r)
       \/ SignSubmit(w, r)
  \/ SignRejected
  \/ \E w \in Wallets : RegisterShares(w) \/ WindowElapsed(w)
  \/ ServiceCleanup

ServiceSpec == ServiceInit /\ [][ServiceNext]_serviceVars

\* Microtasks run: the event loop does not leave a rejected await behind.
FairServiceSpec == ServiceSpec /\ WF_serviceVars(SignRejected)

-----------------------------------------------------------------------------
(* Properties.                                                             *)

\* An awaiting call is either held by the mutex of its own wallet, or its
\* rejection waits once in the microtask queue; nobody else is in either.
CallsAccounted ==
  \A r \in Requests :
    LET held == \E w \in Wallets : walletOf[r] = w /\ Holds(w, r)
        told == {i \in 1..Len(rejections) : rejections[i] = r}
    IN  /\ pc[r] = "awaiting" <=> held \/ told # {}
        /\ ~(held /\ told # {})
        /\ Cardinality(told) <= 1

\* "Different wallets can sign concurrently (no interference)": whatever error
\* a caller gets comes from a call for the same wallet.
ErrorsStayOnWallet ==
  \A r \in Requests :
    error[r] # NoError => walletOf[error[r].from] = walletOf[r]

\* A wallet all of whose calls have failed is free: no error path leaves the
\* lock behind.
NoLockLeftBehind ==
  \A w \in Wallets :
    (\A r \in Requests : walletOf[r] = w => pc[r] = "failed") => ~locked[w]

\* Every rejected promise reaches its caller.
RejectionsDelivered ==
  \A r \in Requests : promise[r] = "rejected" ~> pc[r] = "failed"

\* "Timeout after 30s -> return error": a call of sign() comes to an end.
SignReturns ==
  \A r \in Requests : pc[r] = "awaiting" ~> pc[r] # "awaiting"
=============================================================================
