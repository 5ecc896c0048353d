----------------------------- MODULE Concurrency -----------------------------
(***************************************************************************)
(* The ConcurrencyManager of the MPC signing node                          *)
(* (apps/mpc/src/signing/concurrency/index.ts): one mutex with a bounded   *)
(* FIFO queue per wallet, and the promise that submit() hands to each      *)
(* caller.  Callers are free: any of them may call complete() or fail()    *)
(* for a wallet at any time, also when the wallet is not locked, since     *)
(* neither call names the request it is about.                             *)
(*                                                                         *)
(* A wallet outside `present' has no entry in the mutexes map.  Settling a *)
(* promise a second time does nothing, as in JavaScript.                   *)
(***************************************************************************)
EXTENDS Naturals, Sequences, FiniteSets

CONSTANTS
  Wallets,        \* wallet identifiers
  Requests,       \* request identifiers, each submitted at most once
  None,           \* activeEntry = null
  MaxQueueDepth   \* config.maxQueueDepth

ASSUME WalletsAssumption == IsFiniteSet(Wallets)
ASSUME NoneAssumption == None \notin Requests
ASSUME DepthAssumption == MaxQueueDepth \in Nat

VARIABLES
  present,        \* wallets with an entry in this.mutexes
  locked,         \* WalletMutex.locked
  activeEntry,    \* WalletMutex.activeEntry
  queue,          \* WalletMutex.queue
  activeCount,    \* this.activeCount
  promise         \* the promise submit() returned for a request

mutexVars == <<present, locked, activeEntry, queue>>
vars == <<present, locked, activeEntry, queue, activeCount, promise>>

TypeOK ==
  /\ present \subseteq Wallets
  /\ locked \in [Wallets -> BOOLEAN]
  /\ activeEntry \in [Wallets -> Requests \cup {None}]
  /\ queue \in [Wallets -> Seq(Requests)]
  /\ activeCount \in Nat
  /\ promise \in [Requests -> {"none", "pending", "resolved", "rejected"}]

Init ==
  /\ present = {}
  /\ locked = [w \in Wallets |-> FALSE]
  /\ activeEntry = [w \in Wallets |-> None]
  /\ queue = [w \in Wallets |-> <<>>]
  /\ activeCount = 0
  /\ promise = [r \in Requests |-> "none"]

-----------------------------------------------------------------------------
(* The steps the operations are made of.                                   *)

\* Math.max(0, this.activeCount - 1)
Decremented(n) == IF n > 0 THEN n - 1 ELSE 0

Queued(w, r) == \E i \in 1..Len(queue[w]) : queue[w][i] = r
Holds(w, r) == activeEntry[w] = r \/ Queued(w, r)

\* Mutant: drain() empties the queue without rejecting the queued entries.
DrainedActiveOnly(ws) ==
  [r \in Requests |->
     IF promise[r] = "pending" /\ \E w \in ws : activeEntry[w] = r
     THEN "rejected" ELSE promise[r]]

\* WalletMutex.drain() of every mutex of ws: reject the active and the queued.
Drained(ws) ==
  [r \in Requests |->
     IF promise[r] = "pending" /\ \E w \in ws : Holds(w, r)
     THEN "rejected" ELSE promise[r]]

\* WalletMutex.acquire() when the mutex is free: the caller holds the lock.
Acquire(w, r) ==
  /\ ~locked[w]
  /\ locked' = [locked EXCEPT ![w] = TRUE]
  /\ activeEntry' = [activeEntry EXCEPT ![w] = r]
  /\ promise' = [promise EXCEPT ![r] = "pending"]
  /\ activeCount' = activeCount + 1
  /\ UNCHANGED queue

\* WalletMutex.acquire() when the mutex is taken and the queue has room.
Enqueue(w, r) ==
  /\ locked[w]
  /\ Len(queue[w]) < MaxQueueDepth
  /\ queue' = [queue EXCEPT ![w] = Append(@, r)]
  /\ promise' = [promise EXCEPT ![r] = "pending"]
  /\ UNCHANGED <<locked, activeEntry, activeCount>>

\* WalletMutex.acquire() returns null: 429 Too Many Requests.
RejectFull(w, r) ==
  /\ locked[w]
  /\ Len(queue[w]) >= MaxQueueDepth
  /\ promise' = [promise EXCEPT ![r] = "rejected"]
  /\ UNCHANGED <<locked, activeEntry, queue, activeCount>>

\* WalletMutex.resolveActive(): the active entry, if any, gets the result.
ResolveActive(w) ==
  promise' = [r \in Requests |->
                IF promise[r] = "pending" /\ activeEntry[w] = r
                THEN "resolved" ELSE promise[r]]

\* Mutant: release() takes the youngest queued entry (pop for shift).
ReleaseToLast(w) ==
  /\ queue[w] # <<>>
  /\ locked' = [locked EXCEPT ![w] = TRUE]
  /\ activeEntry' = [activeEntry EXCEPT ![w] = queue[w][Len(queue[w])]]
  /\ queue' = [queue EXCEPT ![w] = SubSeq(@, 1, Len(@) - 1)]
  /\ UNCHANGED activeCount

\* Mutant: the hand-over to the next request is counted as a new ceremony.
ReleaseCounted(w) ==
  /\ queue[w] # <<>>
  /\ locked' = [locked EXCEPT ![w] = TRUE]
  /\ activeEntry' = [activeEntry EXCEPT ![w] = Head(queue[w])]
  /\ queue' = [queue EXCEPT ![w] = Tail(@)]
  /\ activeCount' = activeCount + 1

\* WalletMutex.release() with a queued entry: it becomes the active one.
ReleaseToNext(w) ==
  /\ queue[w] # <<>>
  /\ locked' = [locked EXCEPT ![w] = TRUE]
  /\ activeEntry' = [activeEntry EXCEPT ![w] = Head(queue[w])]
  /\ queue' = [queue EXCEPT ![w] = Tail(@)]
  /\ UNCHANGED activeCount

\* WalletMutex.release() with an empty queue: the mutex is free.
ReleaseIdle(w) ==
  /\ queue[w] = <<>>
  /\ locked' = [locked EXCEPT ![w] = FALSE]
  /\ activeEntry' = [activeEntry EXCEPT ![w] = None]
  /\ activeCount' = Decremented(activeCount)
  /\ UNCHANGED queue

-----------------------------------------------------------------------------
(* The operations of ConcurrencyManager.                                   *)

Submit(w, r) ==
  /\ promise[r] = "none"
  /\ present' = present \cup {w}
  /\ Acquire(w, r) \/ Enqueue(w, r) \/ RejectFull(w, r)

Complete(w) ==
  /\ w \in present
  /\ ResolveActive(w)
  /\ ReleaseToNext(w) \/ ReleaseIdle(w)
  /\ UNCHANGED present

\* complete() and fail() for a wallet without a mutex only touch the counter.
ReleaseUnknown(w) ==
  /\ w \notin present
  /\ activeCount' = Decremented(activeCount)
  /\ UNCHANGED <<mutexVars, promise>>

\* Mutant: drain() forgets to unlock the mutex.
FailKeepsLock(w) ==
  /\ w \in present
  /\ promise' = Drained({w})
  /\ activeEntry' = [activeEntry EXCEPT ![w] = None]
  /\ queue' = [queue EXCEPT ![w] = <<>>]
  /\ activeCount' = Decremented(activeCount)
  /\ UNCHANGED <<present, locked>>

Fail(w) ==
  /\ w \in present
  /\ promise' = Drained({w})
  /\ locked' = [locked EXCEPT ![w] = FALSE]
  /\ activeEntry' = [activeEntry EXCEPT ![w] = None]
  /\ queue' = [queue EXCEPT ![w] = <<>>]
  /\ activeCount' = Decremented(activeCount)
  /\ UNCHANGED present

\* A deleted mutex is forgotten with all it holds; the next submit() starts
\* from a fresh one.
Forget(ws) ==
  /\ present' = present \ ws
  /\ locked' = [w \in Wallets |-> IF w \in ws THEN FALSE ELSE locked[w]]
  /\ activeEntry' = [w \in Wallets |-> IF w \in ws THEN None ELSE activeEntry[w]]
  /\ queue' = [w \in Wallets |-> IF w \in ws THEN <<>> ELSE queue[w]]

\* Mutant: cleanup() looks at the queue only.
InactiveQueue(w) == queue[w] = <<>>

Inactive(w) == ~locked[w] /\ queue[w] = <<>>

Cleanup ==
  /\ Forget({w \in present : Inactive(w)})
  /\ UNCHANGED <<activeCount, promise>>

Destroy ==
  /\ promise' = Drained(present)
  /\ Forget(present)
  /\ activeCount' = 0

Next ==
  \/ \E w \in Wallets, r \in Requests : Submit(w, r)
  \/ \E w \in Wallets : Complete(w) \/ ReleaseUnknown(w) \/ Fail(w)
  \/ Cleanup
  \/ Destroy

Spec == Init /\ [][Next]_vars

\* "Caller must call complete() or fail() to release the lock": the holder of
\* a lock eventually does, successfully or not.
Fairness == \A w \in Wallets : WF_vars(locked[w] /\ (Complete(w) \/ Fail(w)))

FairSpec == Spec /\ Fairness

-----------------------------------------------------------------------------
(* Properties.                                                             *)

\* A mutex is locked exactly while it has an active entry, nobody waits at a
\* free mutex, and a wallet without a mutex holds nothing: the lock is never
\* left taken by nobody, whatever order complete, fail, cleanup and destroy
\* come in.
MutexConsistent ==
  \A w \in Wallets :
    /\ locked[w] <=> activeEntry[w] # None
    /\ queue[w] # <<>> => locked[w]
    /\ w \notin present => ~locked[w]

\* Every unanswered caller sits in exactly one place, as the active entry of
\* one wallet or once in one queue, and nothing answered sits anywhere: no
\* request is lost by a release, a drain or a cleanup, and none is run twice.
PendingHeldOnce ==
  /\ \A r \in Requests : promise[r] = "pending" <=> \E w \in Wallets : Holds(w, r)
  /\ \A r \in Requests, v, w \in Wallets : Holds(v, r) /\ Holds(w, r) => v = w
  /\ \A w \in Wallets :
       /\ \A i \in 1..Len(queue[w]) : queue[w][i] # activeEntry[w]
       /\ \A i, j \in 1..Len(queue[w]) : queue[w][i] = queue[w][j] => i = j

\* The queue never grows past its depth ("FIFO, max depth 10").
QueueWithinDepth == \A w \in Wallets : Len(queue[w]) <= MaxQueueDepth

\* getStats().activeCeremonies never reports more ceremonies than wallets are
\* locked, although complete() and fail() adjust the counter without looking
\* at the lock.  It may report fewer: failing an unlocked wallet lowers it.
LockedWallets == {w \in Wallets : locked[w]}
ActiveCountBounded == activeCount <= Cardinality(LockedWallets)

\* The mutexes implement the waiting lines of WalletLine: FIFO service, refusal
\* only when the line is full, one answer per request.
Line(w) ==
  IF activeEntry[w] = None THEN <<>> ELSE <<activeEntry[w]>> \o queue[w]
Lines == INSTANCE WalletLine WITH line <- [w \in Wallets |-> Line(w)],
                                  outcome <- promise
ImplementsWalletLine == Lines!LineSpec

\* If the holders release their locks, every submitted request is answered.
EveryRequestAnswered ==
  \A r \in Requests : promise[r] = "pending" ~> promise[r] \in {"resolved", "rejected"}
=============================================================================
