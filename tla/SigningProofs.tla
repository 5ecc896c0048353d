---------------------------- MODULE SigningProofs ----------------------------
(***************************************************************************)
(* Proofs about the concurrency manager and sign() on top of it, for every *)
(* set of wallets and requests, every queue depth and rate limit.  The     *)
(* manager's invariants are conjoined in the inductive invariant IInv,     *)
(* because a release keeps PendingHeldOnce only when the mutex is          *)
(* consistent, and the other way round.  A step of the service is a step   *)
(* of the manager or leaves it alone, so the service inherits them; on top *)
(* of them every call is in one place.                                     *)
(***************************************************************************)
EXTENDS MCSigning, FiniteSetTheorems, SequenceTheorems, TLAPS

\* The inductive invariant: types, consistent mutexes, one place per caller.
IInv == TypeOK /\ MutexConsistent /\ PendingHeldOnce

-----------------------------------------------------------------------------
(* Facts about the operators.                                              *)

\* Math.max(0, n - 1) is a natural number, at most n and at least n - 1.
LEMMA DecrementedNat ==
  ASSUME NEW n \in Nat
  PROVE  /\ Decremented(n) \in Nat
         /\ Decremented(n) <= n
         /\ n <= Decremented(n) + 1
         /\ n > 0 => Decremented(n) = n - 1
BY DEF Decremented

\* drain() keeps the promises well-typed.
LEMMA DrainedType ==
  ASSUME TypeOK, NEW ws
  PROVE  Drained(ws) \in [Requests -> {"none", "pending", "resolved", "rejected"}]
BY DEF TypeOK, Drained

\* The head and the tail of a nonempty queue.
LEMMA HeadTail ==
  ASSUME NEW q \in Seq(Requests), q # <<>>
  PROVE  /\ Head(q) \in Requests
         /\ Tail(q) \in Seq(Requests)
         /\ Len(q) \in Nat \ {0}
         /\ Len(Tail(q)) = Len(q) - 1
         /\ Head(q) = q[1]
         /\ \A i \in 1..Len(Tail(q)) : Tail(q)[i] = q[i + 1]
OBVIOUS

\* Deleting mutexes keeps the four fields of every wallet well-typed.
LEMMA ForgetType ==
  ASSUME TypeOK, NEW ws, Forget(ws)
  PROVE  /\ present' \subseteq Wallets
         /\ locked' \in [Wallets -> BOOLEAN]
         /\ activeEntry' \in [Wallets -> Requests \cup {None}]
         /\ queue' \in [Wallets -> Seq(Requests)]
BY EmptySeq DEF TypeOK, Forget

-----------------------------------------------------------------------------
(* Type correctness.                                                       *)

LEMMA InitType == Init => TypeOK
BY DEF Init, TypeOK

LEMMA StepType == TypeOK /\ [Next]_vars => TypeOK'
<1> SUFFICES ASSUME TypeOK, [Next]_vars PROVE TypeOK'
  OBVIOUS
<1>1. ASSUME NEW w \in Wallets, NEW r \in Requests, Submit(w, r) PROVE TypeOK'
  <2>1. CASE Acquire(w, r)
    BY <1>1, <2>1 DEF TypeOK, Submit, Acquire
  <2>2. CASE Enqueue(w, r)
    BY <1>1, <2>2 DEF TypeOK, Submit, Enqueue
  <2>3. CASE RejectFull(w, r)
    BY <1>1, <2>3 DEF TypeOK, Submit, RejectFull
  <2>4. QED BY <1>1, <2>1, <2>2, <2>3 DEF Submit
<1>2. ASSUME NEW w \in Wallets, Complete(w) PROVE TypeOK'
  <2>1. promise' \in [Requests -> {"none", "pending", "resolved", "rejected"}]
    BY <1>2 DEF TypeOK, Complete, ResolveActive
  <2>2. CASE ReleaseToNext(w)
    BY <1>2, <2>1, <2>2, HeadTail DEF TypeOK, Complete, ReleaseToNext
  <2>3. CASE ReleaseIdle(w)
    BY <1>2, <2>1, <2>3, DecrementedNat DEF TypeOK, Complete, ReleaseIdle
  <2>4. QED BY <1>2, <2>2, <2>3 DEF Complete
<1>3. ASSUME NEW w \in Wallets, ReleaseUnknown(w) PROVE TypeOK'
  BY <1>3, DecrementedNat DEF TypeOK, ReleaseUnknown, mutexVars
<1>4. ASSUME NEW w \in Wallets, Fail(w) PROVE TypeOK'
  <2>1. promise' \in [Requests -> {"none", "pending", "resolved", "rejected"}]
    BY <1>4, DrainedType DEF Fail
  <2>2. queue' \in [Wallets -> Seq(Requests)]
    BY <1>4, EmptySeq DEF TypeOK, Fail
  <2>3. QED BY <1>4, <2>1, <2>2, DecrementedNat DEF TypeOK, Fail
<1>5. ASSUME Cleanup PROVE TypeOK'
  BY <1>5, ForgetType DEF TypeOK, Cleanup
<1>6. ASSUME Destroy PROVE TypeOK'
  <2>1. promise' \in [Requests -> {"none", "pending", "resolved", "rejected"}]
    BY <1>6, DrainedType DEF Destroy
  <2>2. QED BY <1>6, <2>1, ForgetType DEF TypeOK, Destroy
<1>7. CASE UNCHANGED vars
  BY <1>7 DEF TypeOK, vars
<1>8. QED BY <1>1, <1>2, <1>3, <1>4, <1>5, <1>6, <1>7 DEF Next

\* Type correctness of the manager's state.
THEOREM TypeCorrect == Spec => []TypeOK
<1>1. QED BY InitType, StepType, PTL DEF Spec

-----------------------------------------------------------------------------
(* Consistent mutexes.                                                     *)

LEMMA StepConsistent ==
  TypeOK /\ MutexConsistent /\ [Next]_vars => MutexConsistent'
<1> SUFFICES ASSUME TypeOK, MutexConsistent, [Next]_vars PROVE MutexConsistent'
  OBVIOUS
<1> USE NoneAssumption DEF MutexConsistent, TypeOK
<1>1. ASSUME NEW w \in Wallets, NEW r \in Requests, Submit(w, r)
      PROVE MutexConsistent'
  <2>1. CASE Acquire(w, r)
    BY <1>1, <2>1 DEF Submit, Acquire
  <2>2. CASE Enqueue(w, r)
    BY <1>1, <2>2 DEF Submit, Enqueue
  <2>3. CASE RejectFull(w, r)
    BY <1>1, <2>3 DEF Submit, RejectFull
  <2>4. QED BY <1>1, <2>1, <2>2, <2>3 DEF Submit
<1>2. ASSUME NEW w \in Wallets, Complete(w) PROVE MutexConsistent'
  <2>1. CASE ReleaseToNext(w)
    BY <1>2, <2>1, HeadTail DEF Complete, ReleaseToNext
  <2>2. CASE ReleaseIdle(w)
    BY <1>2, <2>2 DEF Complete, ReleaseIdle
  <2>3. QED BY <1>2, <2>1, <2>2 DEF Complete
<1>3. ASSUME NEW w \in Wallets, ReleaseUnknown(w) PROVE MutexConsistent'
  BY <1>3 DEF ReleaseUnknown, mutexVars
<1>4. ASSUME NEW w \in Wallets, Fail(w) PROVE MutexConsistent'
  BY <1>4 DEF Fail
<1>5. ASSUME Cleanup PROVE MutexConsistent'
  BY <1>5 DEF Cleanup, Forget, Inactive
<1>6. ASSUME Destroy PROVE MutexConsistent'
  BY <1>6 DEF Destroy, Forget
<1>7. CASE UNCHANGED vars
  BY <1>7 DEF vars
<1>8. QED BY <1>1, <1>2, <1>3, <1>4, <1>5, <1>6, <1>7 DEF Next

-----------------------------------------------------------------------------
(* The queue bound.                                                        *)

LEMMA StepDepth == TypeOK /\ QueueWithinDepth /\ [Next]_vars => QueueWithinDepth'
<1> SUFFICES ASSUME TypeOK, QueueWithinDepth, [Next]_vars PROVE QueueWithinDepth'
  OBVIOUS
<1> USE DepthAssumption DEF QueueWithinDepth, TypeOK
<1>1. ASSUME NEW w \in Wallets, NEW r \in Requests, Submit(w, r)
      PROVE QueueWithinDepth'
  <2>1. CASE Acquire(w, r)
    BY <2>1 DEF Acquire
  <2>2. CASE Enqueue(w, r)
    BY <2>2 DEF Enqueue
  <2>3. CASE RejectFull(w, r)
    BY <2>3 DEF RejectFull
  <2>4. QED BY <1>1, <2>1, <2>2, <2>3 DEF Submit
<1>2. ASSUME NEW w \in Wallets, Complete(w) PROVE QueueWithinDepth'
  <2>1. CASE ReleaseToNext(w)
    BY <1>2, <2>1, HeadTail DEF ReleaseToNext
  <2>2. CASE ReleaseIdle(w)
    BY <2>2 DEF ReleaseIdle
  <2>3. QED BY <1>2, <2>1, <2>2 DEF Complete
<1>3. ASSUME NEW w \in Wallets, ReleaseUnknown(w) PROVE QueueWithinDepth'
  BY <1>3 DEF ReleaseUnknown, mutexVars
<1>4. ASSUME NEW w \in Wallets, Fail(w) PROVE QueueWithinDepth'
  BY <1>4 DEF Fail
<1>5. ASSUME Cleanup PROVE QueueWithinDepth'
  BY <1>5 DEF Cleanup, Forget
<1>6. ASSUME Destroy PROVE QueueWithinDepth'
  BY <1>6 DEF Destroy, Forget
<1>7. CASE UNCHANGED vars
  BY <1>7 DEF vars
<1>8. QED BY <1>1, <1>2, <1>3, <1>4, <1>5, <1>6, <1>7 DEF Next

\* No wallet ever has more than MaxQueueDepth requests waiting.
THEOREM QueueBound == Spec => []QueueWithinDepth
<1>1. Init => QueueWithinDepth
  BY DepthAssumption DEF Init, QueueWithinDepth
<1>2. QED BY <1>1, StepDepth, TypeCorrect, PTL DEF Spec
-----------------------------------------------------------------------------
(* One place per pending caller.  PlaceOnce is the part of PendingHeldOnce *)
(* that does not mention promises.  Each lemma below says who holds what   *)
(* after a step.                                                           *)

PlaceOnce(w) ==
  /\ \A i \in 1..Len(queue[w]) : queue[w][i] # activeEntry[w]
  /\ \A i, j \in 1..Len(queue[w]) : queue[w][i] = queue[w][j] => i = j

\* acquire() adds the caller to the wallet's mutex and to no other, once.
LEMMA AcquireHolds ==
  ASSUME IInv, NEW w \in Wallets, NEW r \in Requests, Submit(w, r),
         Acquire(w, r) \/ Enqueue(w, r)
  PROVE  /\ \A v \in Wallets, q \in Requests :
              Holds(v, q)' <=> Holds(v, q) \/ (v = w /\ q = r)
         /\ \A v \in Wallets : PlaceOnce(v)'
<1> USE NoneAssumption DEF IInv, TypeOK
<1>0. \A v \in Wallets : ~Holds(v, r)
  BY DEF Submit, PendingHeldOnce
<1>1. \A v \in Wallets : PlaceOnce(v)
  BY DEF PendingHeldOnce, PlaceOnce
<1>2. CASE Acquire(w, r)
  <2>1. queue[w] = <<>> /\ activeEntry[w] = None
    BY <1>2 DEF Acquire, MutexConsistent
  <2>2. queue' = queue /\ activeEntry' = [activeEntry EXCEPT ![w] = r]
    BY <1>2 DEF Acquire
  <2>3. \A v \in Wallets, q \in Requests :
          Holds(v, q)' <=> Holds(v, q) \/ (v = w /\ q = r)
    BY <2>1, <2>2 DEF Holds, Queued
  <2>4. \A v \in Wallets : PlaceOnce(v)'
    BY <1>1, <2>1, <2>2 DEF PlaceOnce
  <2>5. QED BY <2>3, <2>4
<1>3. CASE Enqueue(w, r)
  <2>1. activeEntry' = activeEntry /\ queue' = [queue EXCEPT ![w] = Append(@, r)]
    BY <1>3 DEF Enqueue
  <2>2. /\ queue'[w] = Append(queue[w], r)
        /\ Len(queue'[w]) = Len(queue[w]) + 1
        /\ Len(queue[w]) \in Nat
        /\ queue'[w][Len(queue[w]) + 1] = r
        /\ \A i \in 1..Len(queue[w]) : queue'[w][i] = queue[w][i]
    BY <2>1
  <2>3. \A v \in Wallets : v # w => queue'[v] = queue[v]
    BY <2>1
  <2>4. \A q \in Requests : Queued(w, q)' <=> Queued(w, q) \/ q = r
    <3>1. ASSUME NEW q \in Requests, Queued(w, q)' PROVE Queued(w, q) \/ q = r
      BY <2>2, <3>1 DEF Queued
    <3>2. ASSUME NEW q \in Requests, Queued(w, q) PROVE Queued(w, q)'
      BY <2>2, <3>2 DEF Queued
    <3>3. Queued(w, r)'
      BY <2>2 DEF Queued
    <3>4. QED BY <3>1, <3>2, <3>3
  <2>5. \A v \in Wallets, q \in Requests :
          Holds(v, q)' <=> Holds(v, q) \/ (v = w /\ q = r)
    <3>1. \A v \in Wallets, q \in Requests :
            v # w => (Holds(v, q)' <=> Holds(v, q))
      BY <2>1, <2>3 DEF Holds, Queued
    <3>2. \A q \in Requests : Holds(w, q)' <=> Holds(w, q) \/ q = r
      BY <2>1, <2>4 DEF Holds
    <3>3. QED BY <3>1, <3>2
  <2>6. PlaceOnce(w)'
    <3>1. \A i \in 1..Len(queue[w]) : queue[w][i] # r
      BY <1>0 DEF Holds, Queued
    <3>2. activeEntry[w] # r
      BY <1>0 DEF Holds
    <3>3. \A i \in 1..Len(queue'[w]) : queue'[w][i] # activeEntry[w]
      BY <1>1, <2>2, <3>2 DEF PlaceOnce
    <3>4. \A i, j \in 1..Len(queue'[w]) : queue'[w][i] = queue'[w][j] => i = j
      BY <1>1, <2>2, <3>1 DEF PlaceOnce
    <3>5. QED BY <2>1, <3>3, <3>4 DEF PlaceOnce
  <2>7. ASSUME NEW v \in Wallets, v # w PROVE PlaceOnce(v)'
    <3>1. queue'[v] = queue[v] /\ activeEntry'[v] = activeEntry[v] /\ PlaceOnce(v)
      BY <1>1, <2>1, <2>3, <2>7
    <3>2. QED BY <3>1 DEF PlaceOnce
  <2>8. QED BY <2>5, <2>6, <2>7
<1>4. QED BY <1>2, <1>3

\* release() lets go of the active entry and of nothing else.
LEMMA ReleaseHolds ==
  ASSUME IInv, NEW w \in Wallets, ReleaseToNext(w) \/ ReleaseIdle(w)
  PROVE  /\ \A v \in Wallets, q \in Requests :
              Holds(v, q)' <=> Holds(v, q) /\ ~(v = w /\ q = activeEntry[w])
         /\ \A v \in Wallets : PlaceOnce(v)'
<1> USE NoneAssumption DEF IInv, TypeOK
<1>1. \A v \in Wallets : PlaceOnce(v)
  BY DEF PendingHeldOnce, PlaceOnce
<1>2. CASE ReleaseToNext(w)
  <2>1. /\ activeEntry' = [activeEntry EXCEPT ![w] = Head(queue[w])]
        /\ queue' = [queue EXCEPT ![w] = Tail(queue[w])]
        /\ queue[w] # <<>>
    BY <1>2 DEF ReleaseToNext
  <2>2. /\ activeEntry'[w] = queue[w][1]
        /\ Len(queue[w]) \in Nat \ {0}
        /\ Len(queue'[w]) = Len(queue[w]) - 1
        /\ \A i \in 1..Len(queue'[w]) : queue'[w][i] = queue[w][i + 1]
    BY <2>1, HeadTail
  <2>3. \A v \in Wallets :
          v # w => queue'[v] = queue[v] /\ activeEntry'[v] = activeEntry[v]
    BY <2>1
  <2>4. \A q \in Requests : Holds(w, q)' <=> Queued(w, q)
    <3>1. ASSUME NEW q \in Requests, Holds(w, q)' PROVE Queued(w, q)
      BY <2>2, <3>1 DEF Holds, Queued
    <3>2. ASSUME NEW q \in Requests, Queued(w, q) PROVE Holds(w, q)'
      <4>1. PICK i \in 1..Len(queue[w]) : queue[w][i] = q
        BY <3>2 DEF Queued
      <4>2. CASE i = 1
        BY <2>2, <4>1, <4>2 DEF Holds
      <4>3. CASE i # 1
        <5>1. i - 1 \in 1..Len(queue'[w]) /\ queue'[w][i - 1] = queue[w][i]
          BY <2>2, <4>1, <4>3
        <5>2. QED BY <4>1, <5>1 DEF Holds, Queued
      <4>4. QED BY <4>2, <4>3
    <3>3. QED BY <3>1, <3>2
  <2>5. \A q \in Requests : Queued(w, q) <=> Holds(w, q) /\ q # activeEntry[w]
    BY <1>1 DEF Holds, Queued, PlaceOnce
  <2>6. \A v \in Wallets, q \in Requests :
          Holds(v, q)' <=> Holds(v, q) /\ ~(v = w /\ q = activeEntry[w])
    <3>1. \A v \in Wallets, q \in Requests :
            v # w => (Holds(v, q)' <=> Holds(v, q))
      BY <2>3 DEF Holds, Queued
    <3>2. QED BY <2>4, <2>5, <3>1
  <2>7. PlaceOnce(w)'
    <3>1. \A i \in 1..Len(queue'[w]) : queue'[w][i] # activeEntry'[w]
      BY <1>1, <2>2 DEF PlaceOnce
    <3>2. \A i, j \in 1..Len(queue'[w]) : queue'[w][i] = queue'[w][j] => i = j
      BY <1>1, <2>2 DEF PlaceOnce
    <3>3. QED BY <3>1, <3>2 DEF PlaceOnce
  <2>8. \A v \in Wallets : PlaceOnce(v)'
    BY <1>1, <2>3, <2>7 DEF PlaceOnce
  <2>9. QED BY <2>6, <2>8
<1>3. CASE ReleaseIdle(w)
  <2>1. /\ queue' = queue /\ queue[w] = <<>>
        /\ activeEntry' = [activeEntry EXCEPT ![w] = None]
    BY <1>3 DEF ReleaseIdle
  <2>2. QED BY <1>1, <2>1 DEF Holds, Queued, PlaceOnce
<1>4. QED BY <1>2, <1>3

\* drain() and the deletion of mutexes empty the wallets ws and no other.
LEMMA ForgetHolds ==
  ASSUME IInv, NEW ws,
         \A v \in Wallets :
            /\ activeEntry'[v] = IF v \in ws THEN None ELSE activeEntry[v]
            /\ queue'[v] = IF v \in ws THEN <<>> ELSE queue[v]
  PROVE  /\ \A v \in Wallets, q \in Requests :
              Holds(v, q)' <=> Holds(v, q) /\ v \notin ws
         /\ \A v \in Wallets : PlaceOnce(v)'
<1> USE NoneAssumption DEF IInv, TypeOK
<1>1. \A v \in Wallets : PlaceOnce(v)
  BY DEF PendingHeldOnce, PlaceOnce
<1>2. ASSUME NEW v \in Wallets, v \in ws
      PROVE PlaceOnce(v)' /\ \A q \in Requests : ~Holds(v, q)'
  <2>1. activeEntry'[v] = None /\ queue'[v] = <<>>
    BY <1>2
  <2>2. Len(queue'[v]) = 0
    BY <2>1
  <2>3. QED BY <2>1, <2>2 DEF PlaceOnce, Holds, Queued
<1>3. ASSUME NEW v \in Wallets, v \notin ws
      PROVE PlaceOnce(v)' /\ \A q \in Requests : Holds(v, q)' <=> Holds(v, q)
  <2>1. activeEntry'[v] = activeEntry[v] /\ queue'[v] = queue[v]
    BY <1>3
  <2>2. QED BY <1>1, <2>1 DEF PlaceOnce, Holds, Queued
<1>4. QED BY <1>2, <1>3

LEMMA StepHeld == IInv /\ [Next]_vars => PendingHeldOnce'
<1> SUFFICES ASSUME IInv, [Next]_vars PROVE PendingHeldOnce'
  OBVIOUS
<1> USE NoneAssumption DEF IInv, TypeOK, PendingHeldOnce, PlaceOnce
<1>1. ASSUME NEW w \in Wallets, NEW r \in Requests, Submit(w, r)
      PROVE PendingHeldOnce'
  <2>1. CASE Acquire(w, r) \/ Enqueue(w, r)
    <3>1. promise' = [promise EXCEPT ![r] = "pending"] /\ promise[r] = "none"
      BY <1>1, <2>1 DEF Submit, Acquire, Enqueue
    <3>2. QED BY <1>1, <2>1, <3>1, AcquireHolds
  <2>2. CASE RejectFull(w, r)
    <3>1. /\ promise' = [promise EXCEPT ![r] = "rejected"] /\ promise[r] = "none"
          /\ activeEntry' = activeEntry /\ queue' = queue
      BY <1>1, <2>2 DEF Submit, RejectFull
    <3>2. \A v \in Wallets, q \in Requests : Holds(v, q)' <=> Holds(v, q)
      BY <3>1 DEF Holds, Queued
    <3>3. QED BY <3>1, <3>2
  <2>3. QED BY <1>1, <2>1, <2>2 DEF Submit
<1>2. ASSUME NEW w \in Wallets, Complete(w) PROVE PendingHeldOnce'
  <2>1. \A q \in Requests :
          promise'[q] = "pending" <=> promise[q] = "pending" /\ q # activeEntry[w]
    BY <1>2 DEF Complete, ResolveActive
  <2>2. activeEntry[w] \in Requests => Holds(w, activeEntry[w])
    BY DEF Holds
  <2>3. ReleaseToNext(w) \/ ReleaseIdle(w)
    BY <1>2 DEF Complete
  <2>4. /\ \A v \in Wallets, q \in Requests :
              Holds(v, q)' <=> Holds(v, q) /\ ~(v = w /\ q = activeEntry[w])
        /\ \A v \in Wallets : PlaceOnce(v)'
    BY <2>3, ReleaseHolds
  <2>5. \A q \in Requests :
          promise'[q] = "pending" <=> \E v \in Wallets : Holds(v, q)'
    BY <2>1, <2>2, <2>4
  <2>6. \A q \in Requests, u, v \in Wallets : Holds(u, q)' /\ Holds(v, q)' => u = v
    BY <2>4
  <2>7. QED BY <2>4, <2>5, <2>6
<1>3. ASSUME NEW w \in Wallets, ReleaseUnknown(w) PROVE PendingHeldOnce'
  BY <1>3 DEF ReleaseUnknown, mutexVars, Holds, Queued
<1>4. ASSUME NEW ws, promise' = Drained(ws), ws \subseteq Wallets,
             \A v \in Wallets :
                /\ activeEntry'[v] = IF v \in ws THEN None ELSE activeEntry[v]
                /\ queue'[v] = IF v \in ws THEN <<>> ELSE queue[v]
      PROVE PendingHeldOnce'
  <2>1. \A q \in Requests :
          promise'[q] = "pending" <=> promise[q] = "pending" /\ ~\E v \in ws : Holds(v, q)
    BY <1>4 DEF Drained
  <2>2. /\ \A v \in Wallets, q \in Requests :
              Holds(v, q)' <=> Holds(v, q) /\ v \notin ws
        /\ \A v \in Wallets : PlaceOnce(v)'
    BY <1>4, ForgetHolds
  <2>3. \A q \in Requests :
          promise'[q] = "pending" <=> \E v \in Wallets : Holds(v, q)'
    BY <1>4, <2>1, <2>2
  <2>4. QED BY <2>2, <2>3
<1>5. ASSUME NEW w \in Wallets, Fail(w) PROVE PendingHeldOnce'
  <2>1. \A v \in Wallets :
          /\ activeEntry'[v] = IF v \in {w} THEN None ELSE activeEntry[v]
          /\ queue'[v] = IF v \in {w} THEN <<>> ELSE queue[v]
    BY <1>5 DEF Fail
  <2>2. promise' = Drained({w})
    BY <1>5 DEF Fail
  <2>3. QED BY <1>4, <2>1, <2>2
<1>6. ASSUME Cleanup PROVE PendingHeldOnce'
  <2> DEFINE ws == {w \in present : Inactive(w)}
  <2>1. \A v \in Wallets :
          /\ activeEntry'[v] = IF v \in ws THEN None ELSE activeEntry[v]
          /\ queue'[v] = IF v \in ws THEN <<>> ELSE queue[v]
    BY <1>6 DEF Cleanup, Forget
  <2>2. promise' = promise
    BY <1>6 DEF Cleanup
  <2>3. \A v \in Wallets, q \in Requests : v \in ws => ~Holds(v, q)
    BY DEF Inactive, MutexConsistent, Holds, Queued
  <2> HIDE DEF ws
  <2>4. QED BY <2>1, <2>2, <2>3, ForgetHolds
<1>7. ASSUME Destroy PROVE PendingHeldOnce'
  <2>1. \A v \in Wallets :
          /\ activeEntry'[v] = IF v \in present THEN None ELSE activeEntry[v]
          /\ queue'[v] = IF v \in present THEN <<>> ELSE queue[v]
    BY <1>7 DEF Destroy, Forget
  <2>2. promise' = Drained(present)
    BY <1>7 DEF Destroy
  <2>3. QED BY <1>4, <2>1, <2>2
<1>8. CASE UNCHANGED vars
  BY <1>8 DEF vars, Holds, Queued
<1>9. QED BY <1>1, <1>2, <1>3, <1>5, <1>6, <1>7, <1>8 DEF Next

\* The inductive invariant of the manager.
THEOREM Invariance == Spec => []IInv
<1>1. Init => IInv
  <2> SUFFICES ASSUME Init PROVE IInv
    OBVIOUS
  <2>1. TypeOK /\ MutexConsistent
    BY InitType DEF Init, MutexConsistent
  <2>2. \A w \in Wallets : Len(queue[w]) = 0 /\ activeEntry[w] = None
    BY DEF Init
  <2>3. \A w \in Wallets, r \in Requests : ~Holds(w, r)
    BY <2>2, NoneAssumption DEF Holds, Queued
  <2>4. PendingHeldOnce
    BY <2>2, <2>3 DEF Init, PendingHeldOnce
  <2>5. QED BY <2>1, <2>4 DEF IInv
<1>2. IInv /\ [Next]_vars => IInv'
  BY StepType, StepConsistent, StepHeld DEF IInv
<1>3. QED BY <1>1, <1>2, PTL DEF Spec

\* A lock is held by somebody, and nobody waits at a free mutex.
THEOREM LocksHaveHolders == Spec => []MutexConsistent
<1>1. IInv => MutexConsistent
  BY DEF IInv
<1>2. QED BY <1>1, Invariance, PTL

\* Every unanswered request is in exactly one place.
THEOREM NoRequestLost == Spec => []PendingHeldOnce
<1>1. IInv => PendingHeldOnce
  BY DEF IInv
<1>2. QED BY <1>1, Invariance, PTL
-----------------------------------------------------------------------------
(* The statistics.  The counter moves with the number of locked wallets:   *)
(* it grows only when a lock is taken, and it shrinks at every release.    *)

\* One wallet more or less is one locked wallet more or less.
LEMMA LockedCount ==
  ASSUME TypeOK, NEW w \in Wallets, NEW b \in BOOLEAN,
         locked' = [locked EXCEPT ![w] = b]
  PROVE  /\ Cardinality(LockedWallets) \in Nat
         /\ Cardinality(LockedWallets)' \in Nat
         /\ b /\ ~locked[w] =>
              Cardinality(LockedWallets)' = Cardinality(LockedWallets) + 1
         /\ b = locked[w] =>
              Cardinality(LockedWallets)' = Cardinality(LockedWallets)
         /\ ~b /\ locked[w] =>
              Cardinality(LockedWallets)' = Cardinality(LockedWallets) - 1
<1>1. IsFiniteSet(LockedWallets)
  BY WalletsAssumption, FS_Subset DEF LockedWallets
<1>2. Cardinality(LockedWallets) \in Nat
  BY <1>1, FS_CardinalityType
<1>3. CASE b /\ ~locked[w]
  <2>1. LockedWallets' = LockedWallets \cup {w} /\ w \notin LockedWallets
    BY <1>3 DEF LockedWallets, TypeOK
  <2>2. Cardinality(LockedWallets \cup {w}) = Cardinality(LockedWallets) + 1
    BY <1>1, <2>1, FS_AddElement
  <2>3. Cardinality(LockedWallets)' = Cardinality(LockedWallets) + 1
    BY <2>1, <2>2
  <2>4. Cardinality(LockedWallets)' \in Nat
    BY <1>2, <2>3
  <2>5. b # locked[w] /\ ~(~b /\ locked[w])
    BY <1>3
  <2>6. QED BY <1>2, <2>3, <2>4, <2>5
<1>4. CASE b = locked[w]
  <2>1. LockedWallets' = LockedWallets
    BY <1>4 DEF LockedWallets, TypeOK
  <2>2. Cardinality(LockedWallets)' = Cardinality(LockedWallets)
    BY <2>1
  <2>3. QED BY <1>2, <1>4, <2>2 DEF TypeOK
<1>5. CASE ~b /\ locked[w]
  <2>1. LockedWallets' = LockedWallets \ {w} /\ w \in LockedWallets
    BY <1>5 DEF LockedWallets, TypeOK
  <2>2. /\ Cardinality(LockedWallets \ {w}) = Cardinality(LockedWallets) - 1
        /\ IsFiniteSet(LockedWallets \ {w})
    BY <1>1, <2>1, FS_RemoveElement
  <2>3. Cardinality(LockedWallets)' = Cardinality(LockedWallets) - 1
    BY <2>1, <2>2
  <2>4. Cardinality(LockedWallets)' \in Nat
    BY <2>1, <2>2, FS_CardinalityType
  <2>5. QED BY <1>2, <1>5, <2>3, <2>4 DEF TypeOK
<1>6. QED BY <1>3, <1>4, <1>5 DEF TypeOK

\* A release takes one from the counter, and unlocks one wallet at most.
LEMMA UnlockCount ==
  ASSUME TypeOK, ActiveCountBounded, NEW w \in Wallets,
         locked' = [locked EXCEPT ![w] = FALSE],
         activeCount' = Decremented(activeCount)
  PROVE  ActiveCountBounded'
<1> DEFINE c == Cardinality(LockedWallets)
<1> DEFINE d == Cardinality(LockedWallets)'
<1>1. /\ c \in Nat /\ d \in Nat
      /\ FALSE = locked[w] => d = c
      /\ locked[w] => d = c - 1
  BY LockedCount
<1>2. activeCount \in Nat /\ activeCount <= c /\ locked[w] \in BOOLEAN
  BY DEF TypeOK, ActiveCountBounded
<1>3. activeCount' <= d
  <2> HIDE DEF c, d
  <2>1. CASE locked[w]
    BY <1>1, <1>2, <2>1 DEF Decremented
  <2>2. CASE ~locked[w]
    BY <1>1, <1>2, <2>2 DEF Decremented
  <2>3. QED BY <2>1, <2>2
<1>4. QED BY <1>3 DEF ActiveCountBounded

\* A step that leaves the locks alone and does not raise the counter.
LEMMA SameLocks ==
  ASSUME TypeOK, ActiveCountBounded, locked' = locked,
         activeCount' \in Nat, activeCount' <= activeCount
  PROVE  ActiveCountBounded'
<1>1. LockedWallets' = LockedWallets
  BY DEF LockedWallets
<1>2. Cardinality(LockedWallets) \in Nat
  BY WalletsAssumption, FS_Subset, FS_CardinalityType DEF LockedWallets
<1>3. activeCount' <= Cardinality(LockedWallets)
  BY <1>2 DEF TypeOK, ActiveCountBounded
<1>4. QED BY <1>1, <1>3 DEF ActiveCountBounded

LEMMA StepCount == IInv /\ ActiveCountBounded /\ [Next]_vars => ActiveCountBounded'
<1> SUFFICES ASSUME IInv, ActiveCountBounded, [Next]_vars
             PROVE  ActiveCountBounded'
  OBVIOUS
<1>0. TypeOK /\ activeCount \in Nat
  BY DEF IInv, TypeOK
<1>1. ASSUME NEW w \in Wallets, NEW r \in Requests, Submit(w, r)
      PROVE ActiveCountBounded'
  <2>1. CASE Acquire(w, r)
    <3>1. /\ locked' = [locked EXCEPT ![w] = TRUE] /\ ~locked[w]
          /\ activeCount' = activeCount + 1
      BY <2>1 DEF Acquire
    <3>2. /\ Cardinality(LockedWallets)' = Cardinality(LockedWallets) + 1
          /\ Cardinality(LockedWallets) \in Nat
      BY <1>0, <3>1, LockedCount
    <3>3. activeCount' <= Cardinality(LockedWallets)'
      BY <1>0, <3>1, <3>2 DEF ActiveCountBounded
    <3>4. QED BY <3>3 DEF ActiveCountBounded
  <2>2. CASE Enqueue(w, r)
    BY <1>0, <2>2, SameLocks DEF Enqueue
  <2>3. CASE RejectFull(w, r)
    BY <1>0, <2>3, SameLocks DEF RejectFull
  <2>4. QED BY <1>1, <2>1, <2>2, <2>3 DEF Submit
<1>2. ASSUME NEW w \in Wallets, Complete(w) PROVE ActiveCountBounded'
  <2>1. CASE ReleaseToNext(w)
    <3>1. locked[w]
      BY <2>1 DEF IInv, MutexConsistent, ReleaseToNext
    <3>2. locked' = locked /\ activeCount' = activeCount
      BY <2>1, <3>1, <1>0 DEF ReleaseToNext, TypeOK
    <3>3. QED BY <1>0, <3>2, SameLocks
  <2>2. CASE ReleaseIdle(w)
    BY <1>0, <2>2, UnlockCount DEF ReleaseIdle
  <2>3. QED BY <1>2, <2>1, <2>2 DEF Complete
<1>3. ASSUME NEW w \in Wallets, ReleaseUnknown(w) PROVE ActiveCountBounded'
  BY <1>0, <1>3, SameLocks, DecrementedNat DEF ReleaseUnknown, mutexVars
<1>4. ASSUME NEW w \in Wallets, Fail(w) PROVE ActiveCountBounded'
  BY <1>0, <1>4, UnlockCount DEF Fail
<1>5. ASSUME Cleanup PROVE ActiveCountBounded'
  <2>1. locked' = locked
    BY <1>0, <1>5 DEF Cleanup, Forget, Inactive, TypeOK
  <2>2. QED BY <1>0, <1>5, <2>1, SameLocks DEF Cleanup
<1>6. ASSUME Destroy PROVE ActiveCountBounded'
  <2>1. activeCount' = 0 /\ LockedWallets' \subseteq Wallets
    BY <1>6 DEF Destroy, LockedWallets
  <2>2. Cardinality(LockedWallets') \in Nat
    BY <2>1, WalletsAssumption, FS_Subset, FS_CardinalityType
  <2>3. QED BY <2>1, <2>2 DEF ActiveCountBounded
<1>7. CASE UNCHANGED vars
  BY <1>0, <1>7, SameLocks DEF vars
<1>8. QED BY <1>1, <1>2, <1>3, <1>4, <1>5, <1>6, <1>7 DEF Next

\* The reported number of ceremonies never exceeds the locked wallets.
THEOREM CountNeverTooHigh == Spec => []ActiveCountBounded
<1>1. Init => ActiveCountBounded
  <2> SUFFICES ASSUME Init PROVE ActiveCountBounded
    OBVIOUS
  <2>1. LockedWallets = {} /\ activeCount = 0
    BY DEF Init, LockedWallets
  <2>2. QED BY <2>1, FS_EmptySet DEF ActiveCountBounded
<1>2. QED BY <1>1, StepCount, Invariance, PTL DEF Spec
-----------------------------------------------------------------------------
(* The mutexes implement the waiting lines of WalletLine.                  *)

LEMMA LineType ==
  ASSUME TypeOK, NEW w \in Wallets
  PROVE  Line(w) \in Seq(Requests)
<1>1. CASE activeEntry[w] = None
  BY <1>1, EmptySeq DEF Line
<1>2. CASE activeEntry[w] # None
  <2>1. <<activeEntry[w]>> \in Seq(Requests) /\ queue[w] \in Seq(Requests)
    BY <1>2 DEF TypeOK
  <2>2. QED BY <1>2, <2>1, ConcatProperties DEF Line
<1>3. QED BY <1>1, <1>2

\* A line is the holder followed by the queue.
LEMMA LineOfHolder ==
  ASSUME NEW a \in Requests, NEW q \in Seq(Requests)
  PROVE  /\ <<a>> \o q \in Seq(Requests)
         /\ <<a>> \o q # <<>>
         /\ Len(<<a>> \o q) = Len(q) + 1
         /\ (<<a>> \o q)[1] = a
         /\ \A i \in 1..Len(q) : (<<a>> \o q)[i + 1] = q[i]
         /\ Head(<<a>> \o q) = a
         /\ Tail(<<a>> \o q) = q
<1> DEFINE s == <<a>> \o q
<1>1. <<a>> \in Seq(Requests) /\ Len(<<a>>) = 1 /\ <<a>>[1] = a
  OBVIOUS
<1>2. /\ s \in Seq(Requests)
      /\ Len(s) = 1 + Len(q)
      /\ \A i \in 1..(1 + Len(q)) : s[i] = IF i <= 1 THEN <<a>>[i] ELSE q[i - 1]
  BY <1>1, ConcatProperties
<1>3. Len(q) \in Nat
  BY LenProperties
<1>4. s[1] = a /\ \A i \in 1..Len(q) : s[i + 1] = q[i]
  <2> HIDE DEF s
  <2>1. s[1] = a
    BY <1>1, <1>2, <1>3
  <2>2. ASSUME NEW i \in 1..Len(q) PROVE s[i + 1] = q[i]
    BY <1>2, <1>3
  <2>3. QED BY <2>1, <2>2
<1>5. s # <<>>
  <2> HIDE DEF s
  <2>1. QED BY <1>2, <1>3, EmptySeq
<1>6. Head(s) = a /\ Tail(s) = q
  <2> HIDE DEF s
  <2>1. /\ Tail(s) \in Seq(Requests)
        /\ Len(Tail(s)) = Len(s) - 1
        /\ \A i \in 1..Len(Tail(s)) : Tail(s)[i] = s[i + 1]
    BY <1>2, <1>5, HeadTail
  <2>2. Head(s) = s[1]
    BY <1>2, <1>5, HeadTail
  <2>3. Tail(s) = q
    <3>1. Len(Tail(s)) = Len(q)
      BY <1>2, <1>3, <2>1
    <3>2. \A i \in 1..Len(Tail(s)) : Tail(s)[i] = q[i]
      BY <1>4, <2>1, <3>1
    <3>3. QED BY <2>1, <3>1, <3>2, SeqEqual
  <2>4. QED BY <1>4, <2>2, <2>3
<1>7. QED BY <1>2, <1>3, <1>4, <1>5, <1>6

\* Queueing a request is appending it to the line.
LEMMA LineAppend ==
  ASSUME NEW a \in Requests, NEW q \in Seq(Requests), NEW r \in Requests
  PROVE  Append(<<a>> \o q, r) = <<a>> \o Append(q, r)
<1>1. <<a>> \in Seq(Requests) /\ <<r>> \in Seq(Requests)
  OBVIOUS
<1>2. Append(q, r) = q \o <<r>>
  BY AppendIsConcat
<1>3. <<a>> \o q \in Seq(Requests)
  BY <1>1, ConcatProperties
<1>4. Append(<<a>> \o q, r) = (<<a>> \o q) \o <<r>>
  BY <1>3, AppendIsConcat
<1>5. QED BY <1>1, <1>2, <1>4, ConcatAssociative

\* Handing the lock to the head of the queue leaves the queue as the line.
LEMMA LineAdvance ==
  ASSUME NEW q \in Seq(Requests), q # <<>>
  PROVE  <<Head(q)>> \o Tail(q) = q
<1>1. /\ Head(q) \in Requests /\ Tail(q) \in Seq(Requests)
      /\ Len(q) \in Nat \ {0} /\ Len(Tail(q)) = Len(q) - 1 /\ Head(q) = q[1]
      /\ \A i \in 1..Len(Tail(q)) : Tail(q)[i] = q[i + 1]
  BY HeadTail
<1> DEFINE s == <<Head(q)>> \o Tail(q)
<1>2. /\ s \in Seq(Requests)
      /\ Len(s) = Len(Tail(q)) + 1
      /\ s[1] = Head(q)
      /\ \A i \in 1..Len(Tail(q)) : s[i + 1] = Tail(q)[i]
  BY <1>1, LineOfHolder
<1> HIDE DEF s
<1>3. Len(s) = Len(q)
  BY <1>1, <1>2
<1>4. ASSUME NEW i \in 1..Len(s) PROVE s[i] = q[i]
  <2>1. CASE i = 1
    BY <1>1, <1>2, <2>1
  <2>2. CASE i # 1
    <3>1. i - 1 \in 1..Len(Tail(q)) /\ (i - 1) + 1 = i
      BY <1>1, <1>2, <2>2
    <3>2. QED BY <1>1, <1>2, <3>1
  <2>3. QED BY <2>1, <2>2
<1>5. s = q
  BY <1>2, <1>3, <1>4, SeqEqual
<1>6. QED BY <1>5 DEF s

\* The members of a line are the requests its wallet holds.
LEMMA LineMembers ==
  ASSUME IInv, NEW w \in Wallets, NEW r \in Requests
  PROVE  Holds(w, r) <=> \E i \in 1..Len(Line(w)) : Line(w)[i] = r
<1> USE NoneAssumption DEF IInv, TypeOK
<1>1. CASE activeEntry[w] = None
  <2>1. Len(queue[w]) = 0 /\ Len(Line(w)) = 0
    BY <1>1, EmptySeq DEF MutexConsistent, Line
  <2>2. QED BY <1>1, <2>1 DEF Holds, Queued
<1>2. CASE activeEntry[w] # None
  <2>1. activeEntry[w] \in Requests /\ queue[w] \in Seq(Requests)
        /\ Line(w) = <<activeEntry[w]>> \o queue[w]
    BY <1>2 DEF Line
  <2>2. /\ Len(Line(w)) = Len(queue[w]) + 1
        /\ Line(w)[1] = activeEntry[w]
        /\ \A i \in 1..Len(queue[w]) : Line(w)[i + 1] = queue[w][i]
    BY <2>1, LineOfHolder
  <2>3. Len(queue[w]) \in Nat
    BY <2>1, LenProperties
  <2>4. ASSUME Holds(w, r) PROVE \E i \in 1..Len(Line(w)) : Line(w)[i] = r
    <3>1. CASE activeEntry[w] = r
      BY <2>2, <2>3, <3>1
    <3>2. CASE Queued(w, r)
      <4>1. PICK i \in 1..Len(queue[w]) : queue[w][i] = r
        BY <3>2 DEF Queued
      <4>2. i + 1 \in 1..Len(Line(w)) /\ Line(w)[i + 1] = r
        BY <2>2, <2>3, <4>1
      <4>3. QED BY <4>2
    <3>3. QED BY <2>4, <3>1, <3>2 DEF Holds
  <2>5. ASSUME NEW i \in 1..Len(Line(w)), Line(w)[i] = r PROVE Holds(w, r)
    <3>1. CASE i = 1
      BY <2>2, <2>5, <3>1 DEF Holds
    <3>2. CASE i # 1
      <4>1. i - 1 \in 1..Len(queue[w]) /\ (i - 1) + 1 = i
        BY <2>2, <2>3, <3>2
      <4>2. queue[w][i - 1] = r
        BY <2>2, <2>5, <4>1
      <4>3. QED BY <4>1, <4>2 DEF Holds, Queued
    <3>3. QED BY <3>1, <3>2
  <2>6. QED BY <2>4, <2>5
<1>3. QED BY <1>1, <1>2
LineOf == [w \in Wallets |-> Line(w)]

\* submit() enters the line or is refused by it.
LEMMA SubmitRefines ==
  ASSUME IInv, NEW w \in Wallets, NEW r \in Requests, Submit(w, r)
  PROVE  Lines!Enter(w, r) \/ Lines!Refuse(w, r)
<1> USE NoneAssumption, DepthAssumption DEF IInv, TypeOK
<1>1. promise[r] = "none"
  BY DEF Submit
<1>2. CASE Acquire(w, r)
  <2>1. /\ activeEntry[w] = None /\ queue[w] = <<>>
        /\ activeEntry' = [activeEntry EXCEPT ![w] = r] /\ queue' = queue
        /\ promise' = [promise EXCEPT ![r] = "pending"]
    BY <1>2 DEF Acquire, MutexConsistent
  <2>2. Line(w) = <<>> /\ Line(w)' = Append(Line(w), r)
    <3>1. Line(w) = <<>> /\ Line(w)' = <<r>> \o <<>>
      BY <2>1 DEF Line
    <3>2. <<r>> \o <<>> = <<r>> /\ <<>> \o <<r>> = <<r>>
      BY ConcatEmptySeq, <<r>> \in Seq(Requests)
    <3>3. Append(<<>>, r) = <<>> \o <<r>>
      BY AppendIsConcat, EmptySeq
    <3>4. QED BY <3>1, <3>2, <3>3
  <2>3. \A v \in Wallets : v # w => Line(v)' = Line(v)
    BY <2>1 DEF Line
  <2>4. LineOf' = [LineOf EXCEPT ![w] = Append(@, r)]
    BY <2>2, <2>3 DEF LineOf
  <2>5. Len(LineOf[w]) <= MaxQueueDepth
    BY <2>2 DEF LineOf
  <2>6. QED BY <1>1, <2>1, <2>4, <2>5 DEF Lines!Enter, LineOf
<1>3. CASE Enqueue(w, r)
  <2>1. /\ activeEntry[w] \in Requests /\ Len(queue[w]) < MaxQueueDepth
        /\ activeEntry' = activeEntry
        /\ queue' = [queue EXCEPT ![w] = Append(@, r)]
        /\ promise' = [promise EXCEPT ![r] = "pending"]
    BY <1>3 DEF Enqueue, MutexConsistent
  <2>2. Line(w) = <<activeEntry[w]>> \o queue[w]
    BY <2>1 DEF Line
  <2>3. Line(w)' = Append(Line(w), r)
    <3>1. Line(w)' = <<activeEntry[w]>> \o Append(queue[w], r)
      BY <2>1 DEF Line
    <3>2. QED BY <2>1, <2>2, <3>1, LineAppend
  <2>4. \A v \in Wallets : v # w => Line(v)' = Line(v)
    BY <2>1 DEF Line
  <2>5. LineOf' = [LineOf EXCEPT ![w] = Append(@, r)]
    BY <2>3, <2>4 DEF LineOf
  <2>6. Len(LineOf[w]) <= MaxQueueDepth
    <3>1. Len(Line(w)) = Len(queue[w]) + 1 /\ Len(queue[w]) \in Nat
      BY <2>1, <2>2, LineOfHolder, LenProperties
    <3>2. QED BY <2>1, <3>1 DEF LineOf
  <2>7. QED BY <1>1, <2>1, <2>5, <2>6 DEF Lines!Enter, LineOf
<1>4. CASE RejectFull(w, r)
  <2>1. /\ activeEntry[w] \in Requests /\ Len(queue[w]) >= MaxQueueDepth
        /\ activeEntry' = activeEntry /\ queue' = queue
        /\ promise' = [promise EXCEPT ![r] = "rejected"]
    BY <1>4 DEF RejectFull, MutexConsistent
  <2>2. Line(w) = <<activeEntry[w]>> \o queue[w]
    BY <2>1 DEF Line
  <2>3. Len(LineOf[w]) > MaxQueueDepth
    <3>1. Len(Line(w)) = Len(queue[w]) + 1 /\ Len(queue[w]) \in Nat
      BY <2>1, <2>2, LineOfHolder, LenProperties
    <3>2. QED BY <2>1, <3>1 DEF LineOf
  <2>4. LineOf' = LineOf
    BY <2>1 DEF LineOf, Line
  <2>5. QED BY <1>1, <2>1, <2>3, <2>4 DEF Lines!Refuse, LineOf
<1>5. QED BY <1>2, <1>3, <1>4 DEF Submit

\* complete() serves the head of the line; on a free mutex it changes nothing
\* that the line shows.
LEMMA CompleteRefines ==
  ASSUME IInv, NEW w \in Wallets, Complete(w)
  PROVE  Lines!Serve(w) \/ UNCHANGED Lines!lineVars
<1> USE NoneAssumption DEF IInv, TypeOK
<1>0. ReleaseToNext(w) \/ ReleaseIdle(w)
  BY DEF Complete
<1>1. \A v \in Wallets : v # w => Line(v)' = Line(v)
  BY <1>0 DEF ReleaseToNext, ReleaseIdle, Line
<1>2. CASE activeEntry[w] = None
  <2>1. queue[w] = <<>> /\ ReleaseIdle(w)
    BY <1>0, <1>2 DEF MutexConsistent, ReleaseToNext
  <2>2. Line(w)' = Line(w)
    BY <1>2, <2>1 DEF ReleaseIdle, Line
  <2>3. LineOf' = LineOf
    BY <1>1, <2>2 DEF LineOf
  <2>4. promise' = promise
    BY <1>2 DEF Complete, ResolveActive
  <2>5. QED BY <2>3, <2>4 DEF Lines!lineVars, LineOf
<1>3. CASE activeEntry[w] # None
  <2>1. /\ activeEntry[w] \in Requests /\ queue[w] \in Seq(Requests)
        /\ Line(w) = <<activeEntry[w]>> \o queue[w]
    BY <1>3 DEF Line
  <2>2. Line(w) # <<>> /\ Head(Line(w)) = activeEntry[w] /\ Tail(Line(w)) = queue[w]
    BY <2>1, LineOfHolder
  <2>3. Line(w)' = queue[w]
    <3>1. CASE ReleaseToNext(w)
      <4>1. /\ queue[w] # <<>> /\ activeEntry'[w] = Head(queue[w])
            /\ queue'[w] = Tail(queue[w])
        BY <3>1 DEF ReleaseToNext
      <4>2. Head(queue[w]) \in Requests
        BY <4>1, HeadTail
      <4>3. Line(w)' = <<Head(queue[w])>> \o Tail(queue[w])
        BY <4>1, <4>2 DEF Line
      <4>4. QED BY <4>1, <4>3, LineAdvance
    <3>2. CASE ReleaseIdle(w)
      BY <3>2 DEF ReleaseIdle, Line
    <3>3. QED BY <1>0, <3>1, <3>2
  <2>4. LineOf' = [LineOf EXCEPT ![w] = Tail(@)]
    BY <1>1, <2>2, <2>3 DEF LineOf
  <2>5. promise[activeEntry[w]] = "pending"
    BY <2>1 DEF PendingHeldOnce, Holds
  <2>6. promise' = [promise EXCEPT ![activeEntry[w]] = "resolved"]
    BY <2>1, <2>5 DEF Complete, ResolveActive
  <2>7. LineOf[w] # <<>> /\ promise' = [promise EXCEPT ![Head(LineOf[w])] = "resolved"]
    BY <2>2, <2>6 DEF LineOf
  <2>8. QED BY <2>4, <2>7 DEF Lines!Serve, LineOf
<1>4. QED BY <1>2, <1>3

\* Draining the mutexes of ws aborts their lines.
LEMMA DrainRefines ==
  ASSUME IInv, NEW ws \in SUBSET Wallets, promise' = Drained(ws),
         \A v \in Wallets :
            /\ activeEntry'[v] = IF v \in ws THEN None ELSE activeEntry[v]
            /\ v \notin ws => queue'[v] = queue[v]
  PROVE  Lines!Abort(ws)
<1>1. LineOf' = [w \in Wallets |-> IF w \in ws THEN <<>> ELSE LineOf[w]]
  BY DEF LineOf, Line
<1>2. \A v \in Wallets, q \in Requests :
        Holds(v, q) <=> \E i \in 1..Len(LineOf[v]) : LineOf[v][i] = q
  BY LineMembers DEF LineOf
<1>3. \A q \in Requests, v \in Wallets : Holds(v, q) => promise[q] = "pending"
  BY DEF IInv, PendingHeldOnce
<1>4. promise' = [q \in Requests |->
         IF \E v \in ws : \E i \in 1..Len(LineOf[v]) : LineOf[v][i] = q
         THEN "rejected" ELSE promise[q]]
  BY <1>2, <1>3 DEF Drained
<1>5. QED BY <1>1, <1>4 DEF Lines!Abort, Lines!InLine, LineOf

\* Deleting idle mutexes is invisible in the lines.
LEMMA CleanupRefines ==
  ASSUME IInv, Cleanup
  PROVE  UNCHANGED Lines!lineVars
<1>1. \A v \in Wallets : activeEntry'[v] = activeEntry[v] /\ queue'[v] = queue[v]
  BY DEF Cleanup, Forget, Inactive, IInv, TypeOK, MutexConsistent
<1>2. LineOf' = LineOf
  BY <1>1 DEF LineOf, Line
<1>3. QED BY <1>2 DEF Cleanup, Lines!lineVars, LineOf

LEMMA StepRefines == IInv /\ [Next]_vars => [Lines!LineNext]_(Lines!lineVars)
<1> SUFFICES ASSUME IInv, [Next]_vars PROVE [Lines!LineNext]_(Lines!lineVars)
  OBVIOUS
<1>1. ASSUME NEW w \in Wallets, NEW r \in Requests, Submit(w, r)
      PROVE Lines!LineNext
  BY <1>1, SubmitRefines DEF Lines!LineNext
<1>2. ASSUME NEW w \in Wallets, Complete(w)
      PROVE [Lines!LineNext]_(Lines!lineVars)
  BY <1>2, CompleteRefines DEF Lines!LineNext
<1>3. ASSUME NEW w \in Wallets, ReleaseUnknown(w)
      PROVE UNCHANGED Lines!lineVars
  <2>1. LineOf' = LineOf /\ promise' = promise
    BY <1>3 DEF ReleaseUnknown, mutexVars, LineOf, Line
  <2>2. QED BY <2>1 DEF Lines!lineVars, LineOf
<1>4. ASSUME NEW w \in Wallets, Fail(w) PROVE Lines!LineNext
  <2>1. /\ promise' = Drained({w}) /\ {w} \in SUBSET Wallets
        /\ \A v \in Wallets :
             /\ activeEntry'[v] = IF v \in {w} THEN None ELSE activeEntry[v]
             /\ v \notin {w} => queue'[v] = queue[v]
    BY <1>4 DEF Fail, IInv, TypeOK
  <2>2. Lines!Abort({w})
    BY <2>1, DrainRefines
  <2>3. QED BY <2>1, <2>2 DEF Lines!LineNext
<1>5. ASSUME Cleanup PROVE UNCHANGED Lines!lineVars
  BY <1>5, CleanupRefines
<1>6. ASSUME Destroy PROVE Lines!LineNext
  <2>1. /\ promise' = Drained(present) /\ present \in SUBSET Wallets
        /\ \A v \in Wallets :
             /\ activeEntry'[v] = IF v \in present THEN None ELSE activeEntry[v]
             /\ v \notin present => queue'[v] = queue[v]
    BY <1>6 DEF Destroy, Forget, IInv, TypeOK
  <2>2. Lines!Abort(present)
    BY <2>1, DrainRefines
  <2>3. QED BY <2>1, <2>2 DEF Lines!LineNext
<1>7. CASE UNCHANGED vars
  <2>1. LineOf' = LineOf /\ promise' = promise
    BY <1>7 DEF vars, LineOf, Line
  <2>2. QED BY <2>1 DEF Lines!lineVars, LineOf
<1>8. QED BY <1>1, <1>2, <1>3, <1>4, <1>5, <1>6, <1>7 DEF Next

\* The manager implements the waiting lines: FIFO, refusal only when full, and
\* one answer per request.
THEOREM Refinement == Spec => ImplementsWalletLine
<1>1. Init => Lines!LineInit
  <2> SUFFICES ASSUME Init PROVE Lines!LineInit
    OBVIOUS
  <2>1. LineOf = [w \in Wallets |-> <<>>]
    BY DEF Init, LineOf, Line
  <2>2. QED BY <2>1 DEF Init, Lines!LineInit, LineOf
<1>2. QED BY <1>1, StepRefines, Invariance, PTL
         DEF Spec, ImplementsWalletLine, Lines!LineSpec

-----------------------------------------------------------------------------
(* sign() on top of the manager.                                           *)

\* Members of the microtask queue.
Told(r) == \E i \in 1..Len(rejections) : rejections[i] = r

ServiceTypes ==
  /\ pc \in [Requests -> {"idle", "awaiting", "failed"}]
  /\ walletOf = [r \in Requests |-> walletOf[r]]
  /\ error = [r \in Requests |-> error[r]]
  /\ rejections \in Seq(Requests)
  /\ \A r \in Requests : pc[r] = "idle" => promise[r] = "none"
  /\ \A r \in Requests : pc[r] # "idle" => walletOf[r] \in Wallets

\* An awaiting call is held by its own wallet or was told, once.
CallsPlaced ==
  /\ \A r \in Requests, w \in Wallets :
       Holds(w, r) => walletOf[r] = w /\ pc[r] = "awaiting"
  /\ \A r \in Requests :
       Told(r) => pc[r] = "awaiting" /\ promise[r] = "rejected" /\ error[r] # NoError
  /\ \A i, j \in 1..Len(rejections) : rejections[i] = rejections[j] => i = j
  /\ \A r \in Requests :
       pc[r] = "awaiting" => Told(r) \/ \E w \in Wallets : Holds(w, r)

\* An error comes from a call that was made, for the same wallet.
ErrorsFrom ==
  \A r \in Requests :
    error[r] # NoError =>
      /\ pc[r] # "idle"
      /\ error[r].from \in Requests
      /\ pc[error[r].from] # "idle"
      /\ walletOf[error[r].from] = walletOf[r]

SInv == ServiceTypes /\ CallsPlaced /\ ErrorsFrom

-----------------------------------------------------------------------------
(* Facts about lines.                                                      *)

\* Nobody is in a line twice.
LEMMA LineOnce ==
  ASSUME IInv, NEW w \in Wallets
  PROVE  \A i, j \in 1..Len(Line(w)) : Line(w)[i] = Line(w)[j] => i = j
<1> USE NoneAssumption DEF IInv, TypeOK
<1>1. CASE activeEntry[w] = None
  <2>1. Len(Line(w)) = 0
    BY <1>1 DEF Line
  <2>2. QED BY <2>1
<1>2. CASE activeEntry[w] # None
  <2>1. activeEntry[w] \in Requests /\ queue[w] \in Seq(Requests)
        /\ Line(w) = <<activeEntry[w]>> \o queue[w]
    BY <1>2 DEF Line
  <2>2. /\ Len(Line(w)) = Len(queue[w]) + 1
        /\ Line(w)[1] = activeEntry[w]
        /\ \A i \in 1..Len(queue[w]) : Line(w)[i + 1] = queue[w][i]
    BY <2>1, LineOfHolder
  <2>3. Len(queue[w]) \in Nat
    BY <2>1, LenProperties
  <2>4. ASSUME NEW i \in 2..Len(Line(w))
        PROVE  i - 1 \in 1..Len(queue[w]) /\ Line(w)[i] = queue[w][i - 1]
    <3>1. i - 1 \in 1..Len(queue[w]) /\ (i - 1) + 1 = i
      BY <2>2, <2>3
    <3>2. QED BY <2>2, <3>1
  <2>5. SUFFICES ASSUME NEW i \in 1..Len(Line(w)), NEW j \in 1..Len(Line(w)),
                        Line(w)[i] = Line(w)[j]
                 PROVE  i = j
    OBVIOUS
  <2>6. \A k \in 1..Len(queue[w]) : queue[w][k] # activeEntry[w]
    BY DEF PendingHeldOnce
  <2>7. \A k, m \in 1..Len(queue[w]) : queue[w][k] = queue[w][m] => k = m
    BY DEF PendingHeldOnce
  <2>8. CASE i = 1 /\ j = 1
    BY <2>8
  <2>9. CASE i = 1 /\ j # 1
    <3>1. j \in 2..Len(Line(w))
      BY <2>2, <2>3, <2>9
    <3>2. QED BY <2>2, <2>4, <2>5, <2>6, <2>9, <3>1
  <2>10. CASE i # 1 /\ j = 1
    <3>1. i \in 2..Len(Line(w))
      BY <2>2, <2>3, <2>10
    <3>2. QED BY <2>2, <2>4, <2>5, <2>6, <2>10, <3>1
  <2>11. CASE i # 1 /\ j # 1
    <3>1. i \in 2..Len(Line(w)) /\ j \in 2..Len(Line(w))
      BY <2>2, <2>3, <2>11
    <3>2. i - 1 = j - 1
      BY <2>4, <2>5, <2>7, <3>1
    <3>3. QED BY <2>2, <2>3, <3>1, <3>2
  <2>12. QED BY <2>8, <2>9, <2>10, <2>11
<1>3. QED BY <1>1, <1>2

\* A concatenation has the members of both parts, and each once if the parts
\* do and share none.
LEMMA ConcatMembers ==
  ASSUME NEW s \in Seq(Requests), NEW t \in Seq(Requests)
  PROVE  /\ s \o t \in Seq(Requests)
         /\ \A r : (\E i \in 1..Len(s \o t) : (s \o t)[i] = r)
                     <=> \/ \E i \in 1..Len(s) : s[i] = r
                         \/ \E i \in 1..Len(t) : t[i] = r
         /\ /\ \A i, j \in 1..Len(s) : s[i] = s[j] => i = j
            /\ \A i, j \in 1..Len(t) : t[i] = t[j] => i = j
            /\ \A i \in 1..Len(s), j \in 1..Len(t) : s[i] # t[j]
            => \A i, j \in 1..Len(s \o t) : (s \o t)[i] = (s \o t)[j] => i = j
<1> DEFINE c == s \o t
<1>1. /\ c \in Seq(Requests)
      /\ Len(c) = Len(s) + Len(t)
      /\ \A i \in 1..(Len(s) + Len(t)) : c[i] = IF i <= Len(s) THEN s[i] ELSE t[i - Len(s)]
  BY ConcatProperties
<1>2. Len(s) \in Nat /\ Len(t) \in Nat
  BY LenProperties
<1> HIDE DEF c
<1>3. \A i \in 1..Len(c) :
        \/ i \in 1..Len(s) /\ c[i] = s[i]
        \/ i - Len(s) \in 1..Len(t) /\ c[i] = t[i - Len(s)]
  BY <1>1, <1>2
<1>4. \A i \in 1..Len(s) : i \in 1..Len(c) /\ c[i] = s[i]
  BY <1>1, <1>2
<1>5. \A i \in 1..Len(t) : Len(s) + i \in 1..Len(c) /\ c[Len(s) + i] = t[i]
  <2> SUFFICES ASSUME NEW i \in 1..Len(t)
               PROVE  Len(s) + i \in 1..Len(c) /\ c[Len(s) + i] = t[i]
    OBVIOUS
  <2>1. /\ Len(s) + i \in 1..(Len(s) + Len(t))
        /\ ~(Len(s) + i <= Len(s)) /\ (Len(s) + i) - Len(s) = i
    BY <1>2
  <2>2. QED BY <1>1, <2>1
<1>6. \A r : (\E i \in 1..Len(c) : c[i] = r)
               <=> \/ \E i \in 1..Len(s) : s[i] = r
                   \/ \E i \in 1..Len(t) : t[i] = r
  BY <1>3, <1>4, <1>5
<1>7. ASSUME \A i, j \in 1..Len(s) : s[i] = s[j] => i = j,
             \A i, j \in 1..Len(t) : t[i] = t[j] => i = j,
             \A i \in 1..Len(s), j \in 1..Len(t) : s[i] # t[j],
             NEW i \in 1..Len(c), NEW j \in 1..Len(c), c[i] = c[j]
      PROVE  i = j
  <2>1. CASE i \in 1..Len(s) /\ c[i] = s[i]
    BY <1>3, <1>7, <2>1
  <2>2. CASE i - Len(s) \in 1..Len(t) /\ c[i] = t[i - Len(s)]
    <3>1. j - Len(s) \in 1..Len(t) /\ c[j] = t[j - Len(s)]
      BY <1>3, <1>7, <2>2
    <3>2. i - Len(s) = j - Len(s)
      BY <1>7, <2>2, <3>1
    <3>3. QED BY <1>1, <1>2, <3>2
  <2>3. QED BY <1>3, <2>1, <2>2
<1>8. QED BY <1>1, <1>6, <1>7 DEF c

\* The members of a tail are those of the queue without its head, if nobody is
\* in the queue twice.
LEMMA TailMembers ==
  ASSUME NEW s \in Seq(Requests), s # <<>>,
         \A i, j \in 1..Len(s) : s[i] = s[j] => i = j
  PROVE  /\ Tail(s) \in Seq(Requests)
         /\ \A i, j \in 1..Len(Tail(s)) : Tail(s)[i] = Tail(s)[j] => i = j
         /\ Head(s) \in Requests
         /\ \E i \in 1..Len(s) : s[i] = Head(s)
         /\ \A r : (\E i \in 1..Len(Tail(s)) : Tail(s)[i] = r)
                     <=> (\E i \in 1..Len(s) : s[i] = r) /\ r # Head(s)
<1> DEFINE t == Tail(s)
           n == Len(s)
           h == Head(s)
<1>1. /\ h \in Requests /\ t \in Seq(Requests) /\ n \in Nat \ {0}
      /\ Len(t) = n - 1 /\ h = s[1]
      /\ \A i \in 1..Len(t) : t[i] = s[i + 1]
  BY HeadTail
<1> HIDE DEF t, n, h
<1>2. \A i \in 1..Len(t) : i + 1 \in 1..n /\ i + 1 # 1 /\ t[i] = s[i + 1]
  BY <1>1
<1>3. \A i \in 1..n : i # 1 => i - 1 \in 1..Len(t) /\ t[i - 1] = s[i]
  <2> SUFFICES ASSUME NEW i \in 1..n, i # 1
               PROVE  i - 1 \in 1..Len(t) /\ t[i - 1] = s[i]
    OBVIOUS
  <2>1. i - 1 \in 1..Len(t) /\ (i - 1) + 1 = i
    BY <1>1
  <2>2. QED BY <1>1, <2>1
<1>4. 1 \in 1..n
  BY <1>1
<1>5. \A i, j \in 1..n : s[i] = s[j] => i = j
  BY DEF n
<1>6. ASSUME NEW i \in 1..Len(t), NEW j \in 1..Len(t), t[i] = t[j] PROVE i = j
  <2>1. i + 1 = j + 1
    BY <1>2, <1>5, <1>6
  <2>2. QED BY <1>1, <2>1
<1>7. \A r : (\E i \in 1..Len(t) : t[i] = r) <=> (\E i \in 1..n : s[i] = r) /\ r # h
  <2>1. ASSUME NEW r, NEW i \in 1..Len(t), t[i] = r
        PROVE  (\E k \in 1..n : s[k] = r) /\ r # h
    BY <1>1, <1>2, <1>4, <1>5, <2>1
  <2>2. ASSUME NEW r, NEW i \in 1..n, s[i] = r, r # h
        PROVE  \E k \in 1..Len(t) : t[k] = r
    BY <1>1, <1>3, <2>2
  <2>3. QED BY <2>1, <2>2
<1>8. QED BY <1>1, <1>4, <1>6, <1>7 DEF t, n, h

-----------------------------------------------------------------------------
(* The steps of sign().                                                    *)

LEMMA ManagerStep == IInv /\ [Next]_vars => IInv'
BY StepType, StepConsistent, StepHeld DEF IInv

\* fail(w) empties the line of w, rejects those in it and nobody else.
LEMMA FailTells ==
  ASSUME IInv, NEW w \in Wallets, Fail(w) \/ ReleaseUnknown(w)
  PROVE  /\ Next
         /\ \A v \in Wallets, q \in Requests : Holds(v, q)' <=> Holds(v, q) /\ v # w
         /\ \A q \in Requests : promise'[q] = IF Holds(w, q) THEN "rejected" ELSE promise[q]
<1> USE NoneAssumption DEF IInv, TypeOK
<1>1. Next
  BY DEF Next
<1>2. CASE Fail(w)
  <2>1. \A v \in Wallets :
          /\ activeEntry'[v] = IF v \in {w} THEN None ELSE activeEntry[v]
          /\ queue'[v] = IF v \in {w} THEN <<>> ELSE queue[v]
    BY <1>2 DEF Fail
  <2>2. \A v \in Wallets, q \in Requests : Holds(v, q)' <=> Holds(v, q) /\ v \notin {w}
    BY <2>1, ForgetHolds
  <2>3. \A q \in Requests : Holds(w, q) => promise[q] = "pending"
    BY DEF PendingHeldOnce
  <2>4. promise' = Drained({w})
    BY <1>2 DEF Fail
  <2>5. \A q \in Requests : promise'[q] = IF Holds(w, q) THEN "rejected" ELSE promise[q]
    BY <2>3, <2>4 DEF Drained
  <2>6. QED BY <1>1, <2>2, <2>5
<1>3. CASE ReleaseUnknown(w)
  <2>1. activeEntry[w] = None /\ queue[w] = <<>>
    BY <1>3 DEF ReleaseUnknown, MutexConsistent
  <2>2. Len(queue[w]) = 0
    BY <2>1
  <2>3. \A q \in Requests : ~Holds(w, q)
    BY <2>1, <2>2 DEF Holds, Queued
  <2>4. activeEntry' = activeEntry /\ queue' = queue /\ promise' = promise
    BY <1>3 DEF ReleaseUnknown, mutexVars
  <2>5. \A v \in Wallets, q \in Requests : Holds(v, q)' <=> Holds(v, q)
    BY <2>4 DEF Holds, Queued
  <2>6. QED BY <1>1, <2>3, <2>4, <2>5
<1>4. QED BY <1>2, <1>3

\* The error e of the call r of wallet w goes to r and to all that w holds.
LEMMA ThrowStep ==
  ASSUME IInv, SInv, NEW w \in Wallets, NEW r \in Requests, NEW e, NEW waiting,
         Throw(w, r, e, waiting),
         \A v \in Wallets : ~Holds(v, r),
         pc[r] # "idle" => walletOf[r] = w,
         e # NoError, e.from \in Requests,
         e.from = r \/ (pc[e.from] # "idle" /\ walletOf[e.from] = w),
         waiting \in Seq(Requests),
         \A i, j \in 1..Len(waiting) : waiting[i] = waiting[j] => i = j,
         \A q : (\E i \in 1..Len(waiting) : waiting[i] = q) <=> Told(q) /\ q # r
  PROVE  SInv' /\ Next
<1>1. /\ Next
      /\ \A v \in Wallets, q \in Requests : Holds(v, q)' <=> Holds(v, q) /\ v # w
      /\ \A q \in Requests : promise'[q] = IF Holds(w, q) THEN "rejected" ELSE promise[q]
  BY FailTells DEF Throw
<1>2. \A q \in Requests : Holds(w, q) => promise[q] = "pending"
  BY DEF IInv, PendingHeldOnce
<1>3. /\ pc' = [pc EXCEPT ![r] = "failed"]
      /\ walletOf' = [walletOf EXCEPT ![r] = w]
      /\ rejections' = waiting \o Line(w)
  BY DEF Throw
<1>4. error' = [q \in Requests |-> IF q = r \/ Holds(w, q) THEN e ELSE error[q]]
  BY <1>2 DEF Throw
<1>5. /\ Line(w) \in Seq(Requests)
      /\ \A i, j \in 1..Len(Line(w)) : Line(w)[i] = Line(w)[j] => i = j
      /\ \A q \in Requests : Holds(w, q) <=> \E i \in 1..Len(Line(w)) : Line(w)[i] = q
  BY LineType, LineOnce, LineMembers DEF IInv
<1>6. \A q \in Requests : Told(q) => ~Holds(w, q)
  BY <1>2 DEF SInv, CallsPlaced
<1>7. \A i \in 1..Len(waiting), j \in 1..Len(Line(w)) : waiting[i] # Line(w)[j]
  <2> SUFFICES ASSUME NEW i \in 1..Len(waiting), NEW j \in 1..Len(Line(w)),
                      waiting[i] = Line(w)[j]
               PROVE  FALSE
    OBVIOUS
  <2>1. Line(w)[j] \in Requests
    BY <1>5, ElementOfSeq
  <2>2. Told(Line(w)[j]) /\ Holds(w, Line(w)[j])
    BY <1>5, <2>1
  <2>3. QED BY <1>6, <2>1, <2>2
<1>8. /\ rejections' \in Seq(Requests)
      /\ \A q \in Requests : Told(q)' <=> (Told(q) /\ q # r) \/ Holds(w, q)
      /\ \A i, j \in 1..Len(rejections') : rejections'[i] = rejections'[j] => i = j
  <2>1. \A q \in Requests :
          Told(q)' <=> \/ \E i \in 1..Len(waiting) : waiting[i] = q
                       \/ \E i \in 1..Len(Line(w)) : Line(w)[i] = q
    <3>1. \A q : Told(q)' <=> \E i \in 1..Len(rejections') : rejections'[i] = q
      BY DEF Told
    <3>2. \A q : (\E i \in 1..Len(waiting \o Line(w)) : (waiting \o Line(w))[i] = q)
                   <=> \/ \E i \in 1..Len(waiting) : waiting[i] = q
                       \/ \E i \in 1..Len(Line(w)) : Line(w)[i] = q
      BY <1>5, ConcatMembers
    <3>3. rejections' = waiting \o Line(w)
      BY <1>3
    <3>4. QED BY <3>1, <3>2, <3>3
  <2>2. \A q \in Requests : Told(q)' <=> (Told(q) /\ q # r) \/ Holds(w, q)
    BY <1>5, <2>1
  <2>3. QED BY <1>3, <1>5, <1>7, <2>2, ConcatMembers
<1>9. ServiceTypes'
  <2>1. \A q \in Requests : pc'[q] = "idle" => promise'[q] = "none"
    BY <1>1, <1>2, <1>3 DEF SInv, ServiceTypes
  <2>2. \A q \in Requests : pc'[q] # "idle" => walletOf'[q] \in Wallets
    BY <1>3 DEF SInv, ServiceTypes
  <2>3. /\ pc' \in [Requests -> {"idle", "awaiting", "failed"}]
        /\ walletOf' = [q \in Requests |-> walletOf'[q]]
        /\ error' = [q \in Requests |-> error'[q]]
    BY <1>3, <1>4 DEF SInv, ServiceTypes
  <2>4. QED BY <1>8, <2>1, <2>2, <2>3 DEF ServiceTypes
<1>10. CallsPlaced'
  <2>1. \A q \in Requests, v \in Wallets :
          Holds(v, q)' => walletOf'[q] = v /\ pc'[q] = "awaiting"
    BY <1>1, <1>3 DEF SInv, CallsPlaced, ServiceTypes
  <2>2. ASSUME NEW q \in Requests, Told(q)'
        PROVE  pc'[q] = "awaiting" /\ promise'[q] = "rejected" /\ error'[q] # NoError
    <3>1. q # r
      BY <1>8, <2>2
    <3>2. pc[q] = "awaiting"
      BY <1>8, <2>2 DEF SInv, CallsPlaced
    <3>3. pc'[q] = "awaiting"
      BY <1>3, <3>1, <3>2 DEF SInv, ServiceTypes
    <3>4. CASE Holds(w, q)
      BY <1>1, <1>4, <3>3, <3>4
    <3>5. CASE ~Holds(w, q)
      <4>1. promise[q] = "rejected" /\ error[q] # NoError
        BY <1>8, <2>2, <3>5 DEF SInv, CallsPlaced
      <4>2. QED BY <1>1, <1>4, <3>1, <3>3, <3>5, <4>1
    <3>6. QED BY <3>4, <3>5
  <2>3. ASSUME NEW q \in Requests, pc'[q] = "awaiting"
        PROVE  Told(q)' \/ \E v \in Wallets : Holds(v, q)'
    <3>1. q # r /\ pc[q] = "awaiting"
      BY <1>3, <2>3 DEF SInv, ServiceTypes
    <3>2. Told(q) \/ \E v \in Wallets : Holds(v, q)
      BY <3>1 DEF SInv, CallsPlaced
    <3>3. QED BY <1>1, <1>8, <3>1, <3>2
  <2>4. QED BY <1>8, <2>1, <2>2, <2>3 DEF CallsPlaced
<1>11. ErrorsFrom'
  <2>1. pc'[r] # "idle" /\ walletOf'[r] = w
    BY <1>3 DEF SInv, ServiceTypes
  <2>2. \A f \in Requests : pc[f] # "idle" => pc'[f] # "idle" /\ walletOf'[f] = walletOf[f]
    BY <1>3 DEF SInv, ServiceTypes
  <2>3. pc'[e.from] # "idle" /\ walletOf'[e.from] = w
    BY <2>1, <2>2
  <2>4. ASSUME NEW q \in Requests, error'[q] # NoError
        PROVE  /\ pc'[q] # "idle"
               /\ error'[q].from \in Requests
               /\ pc'[error'[q].from] # "idle"
               /\ walletOf'[error'[q].from] = walletOf'[q]
    <3>1. CASE q = r
      BY <1>4, <2>1, <2>3, <3>1
    <3>2. CASE q # r /\ Holds(w, q)
      <4>1. walletOf[q] = w /\ pc[q] # "idle"
        BY <3>2 DEF SInv, CallsPlaced
      <4>2. QED BY <1>4, <2>2, <2>3, <3>2, <4>1
    <3>3. CASE q # r /\ ~Holds(w, q)
      <4>1. error'[q] = error[q]
        BY <1>4, <3>3
      <4>2. /\ pc[q] # "idle"
            /\ error[q].from \in Requests
            /\ pc[error[q].from] # "idle"
            /\ walletOf[error[q].from] = walletOf[q]
        BY <2>4, <4>1 DEF SInv, ErrorsFrom
      <4>3. QED BY <2>2, <4>1, <4>2
    <3>4. QED BY <3>1, <3>2, <3>3
  <2>5. QED BY <2>4 DEF ErrorsFrom
<1>12. QED BY <1>1, <1>9, <1>10, <1>11 DEF SInv

\* A call that is refused on the way is thrown its own error.
LEMMA RefusedStep ==
  ASSUME IInv, SInv, NEW w \in Wallets, NEW r \in Requests, NEW kind,
         kind # "none", pc[r] = "idle",
         Throw(w, r, NewError(r, kind), rejections)
  PROVE  SInv' /\ Next
<1> DEFINE e == NewError(r, kind)
<1>1. e # NoError /\ e.from = r
  BY DEF NewError, NoError
<1>2. \A v \in Wallets : ~Holds(v, r)
  BY DEF SInv, CallsPlaced
<1>3. ~Told(r)
  BY DEF SInv, CallsPlaced
<1>4. /\ rejections \in Seq(Requests)
      /\ \A i, j \in 1..Len(rejections) : rejections[i] = rejections[j] => i = j
  BY DEF SInv, ServiceTypes, CallsPlaced
<1>5. \A q : (\E i \in 1..Len(rejections) : rejections[i] = q) <=> Told(q) /\ q # r
  BY <1>3 DEF Told
<1> HIDE DEF e
<1>6. Throw(w, r, e, rejections)
  BY DEF e
<1>7. QED BY <1>1, <1>2, <1>4, <1>5, <1>6, ThrowStep

\* A microtask: the call that was told is thrown the error it was told.
LEMMA RejectedStep ==
  ASSUME IInv, SInv, SignRejected PROVE SInv' /\ Next
<1> DEFINE r == Head(rejections)
           w == walletOf[r]
           e == error[r]
           waiting == Tail(rejections)
<1>1. Throw(w, r, e, waiting) /\ rejections # <<>>
  BY DEF SignRejected
<1>2. /\ rejections \in Seq(Requests)
      /\ \A i, j \in 1..Len(rejections) : rejections[i] = rejections[j] => i = j
  BY DEF SInv, ServiceTypes, CallsPlaced
<1>3. /\ waiting \in Seq(Requests)
      /\ \A i, j \in 1..Len(waiting) : waiting[i] = waiting[j] => i = j
      /\ r \in Requests
      /\ \E i \in 1..Len(rejections) : rejections[i] = r
      /\ \A q : (\E i \in 1..Len(waiting) : waiting[i] = q)
                  <=> (\E i \in 1..Len(rejections) : rejections[i] = q) /\ q # r
  BY <1>1, <1>2, TailMembers
<1> HIDE DEF r, waiting
<1>4. Told(r) /\ \A q : (\E i \in 1..Len(waiting) : waiting[i] = q) <=> Told(q) /\ q # r
  BY <1>3 DEF Told
<1>5. pc[r] = "awaiting" /\ promise[r] = "rejected" /\ e # NoError
  BY <1>3, <1>4 DEF SInv, CallsPlaced
<1>6. \A v \in Wallets : ~Holds(v, r)
  BY <1>3, <1>5 DEF IInv, PendingHeldOnce
<1>7. w \in Wallets
  BY <1>3, <1>5 DEF SInv, ServiceTypes
<1>8. e.from \in Requests /\ pc[e.from] # "idle" /\ walletOf[e.from] = w
  BY <1>3, <1>5 DEF SInv, ErrorsFrom
<1>9. walletOf[r] = w
  OBVIOUS
<1> HIDE DEF w, e
<1>10. QED BY <1>1, <1>3, <1>4, <1>5, <1>6, <1>7, <1>8, <1>9, ThrowStep

\* A submission puts the call in the line of its wallet, or tells it that the
\* line is full.
LEMMA SubmitStep ==
  ASSUME IInv, SInv, NEW w \in Wallets, NEW r \in Requests, SignSubmit(w, r)
  PROVE  SInv' /\ Next
<1>1. Next
  BY DEF Next, SignSubmit
<1>2. /\ pc[r] = "idle" /\ promise[r] = "none" /\ Submit(w, r)
      /\ pc' = [pc EXCEPT ![r] = "awaiting"]
      /\ walletOf' = [walletOf EXCEPT ![r] = w]
  BY DEF SignSubmit, Submit
<1>3. ~Told(r) /\ \A v \in Wallets : ~Holds(v, r)
  BY <1>2 DEF SInv, CallsPlaced
<1>4. \A q \in Requests : error[q] # NoError => error[q].from # r /\ q # r
  BY <1>2 DEF SInv, ErrorsFrom
<1>5. \A q \in Requests : q # r => pc'[q] = pc[q] /\ walletOf'[q] = walletOf[q]
  BY <1>2 DEF SInv, ServiceTypes
<1>6. pc'[r] = "awaiting" /\ walletOf'[r] = w
  BY <1>2 DEF SInv, ServiceTypes
<1>7. \A q \in Requests : q # r => promise'[q] = promise[q]
  BY <1>2 DEF Submit, Acquire, Enqueue, RejectFull, IInv, TypeOK
<1>8. /\ pc' \in [Requests -> {"idle", "awaiting", "failed"}]
      /\ walletOf' = [q \in Requests |-> walletOf'[q]]
      /\ \A q \in Requests : pc'[q] = "idle" => promise'[q] = "none"
      /\ \A q \in Requests : pc'[q] # "idle" => walletOf'[q] \in Wallets
  BY <1>2, <1>5, <1>6, <1>7 DEF SInv, ServiceTypes
<1>9. CASE Acquire(w, r) \/ Enqueue(w, r)
  <2>1. \A v \in Wallets, q \in Requests : Holds(v, q)' <=> Holds(v, q) \/ (v = w /\ q = r)
    BY <1>2, <1>9, AcquireHolds
  <2>2. promise'[r] = "pending"
    BY <1>9 DEF Acquire, Enqueue, IInv, TypeOK
  <2>3. rejections' = rejections /\ error' = error
    BY <2>2 DEF SignSubmit
  <2>4. \A q : Told(q)' <=> Told(q)
    BY <2>3 DEF Told
  <2>5. ServiceTypes'
    BY <1>8, <2>3 DEF SInv, ServiceTypes
  <2>6. \A q \in Requests, v \in Wallets :
          Holds(v, q)' => walletOf'[q] = v /\ pc'[q] = "awaiting"
    BY <1>3, <1>5, <1>6, <2>1 DEF SInv, CallsPlaced
  <2>7. \A q \in Requests :
          Told(q)' => pc'[q] = "awaiting" /\ promise'[q] = "rejected" /\ error'[q] # NoError
    BY <1>3, <1>5, <1>7, <2>3, <2>4 DEF SInv, CallsPlaced
  <2>8. \A q \in Requests :
          pc'[q] = "awaiting" => Told(q)' \/ \E v \in Wallets : Holds(v, q)'
    BY <1>5, <2>1, <2>4 DEF SInv, CallsPlaced
  <2>9. CallsPlaced'
    BY <2>3, <2>6, <2>7, <2>8 DEF SInv, CallsPlaced
  <2>10. ErrorsFrom'
    BY <1>4, <1>5, <2>3 DEF SInv, ErrorsFrom
  <2>11. QED BY <1>1, <2>5, <2>9, <2>10 DEF SInv
<1>10. CASE RejectFull(w, r)
  <2>1. promise'[r] = "rejected" /\ activeEntry' = activeEntry /\ queue' = queue
    BY <1>10 DEF RejectFull, IInv, TypeOK
  <2>2. \A v \in Wallets, q \in Requests : Holds(v, q)' <=> Holds(v, q)
    BY <2>1 DEF Holds, Queued
  <2>3. /\ rejections' = Append(rejections, r)
        /\ error' = [error EXCEPT ![r] = NewError(r, "queue_full")]
    BY <2>1 DEF SignSubmit
  <2>4. /\ rejections \in Seq(Requests)
        /\ \A i, j \in 1..Len(rejections) : rejections[i] = rejections[j] => i = j
    BY DEF SInv, ServiceTypes, CallsPlaced
  <2>5. /\ rejections' \in Seq(Requests)
        /\ Len(rejections') = Len(rejections) + 1
        /\ rejections'[Len(rejections) + 1] = r
        /\ \A i \in 1..Len(rejections) : rejections'[i] = rejections[i]
    BY <2>3, <2>4, AppendProperties
  <2>6. Len(rejections) \in Nat
    BY <2>4, LenProperties
  <2>7. \A i \in 1..Len(rejections') :
          \/ i \in 1..Len(rejections) /\ rejections'[i] = rejections[i]
          \/ i = Len(rejections) + 1 /\ rejections'[i] = r
    BY <2>5, <2>6
  <2>8. \A i \in 1..Len(rejections) : rejections[i] # r
    BY <1>3 DEF Told
  <2>9. \A q : Told(q)' <=> Told(q) \/ q = r
    <3>1. \A q : Told(q)' <=> \E i \in 1..Len(rejections') : rejections'[i] = q
      BY DEF Told
    <3>2. /\ \A i \in 1..Len(rejections) : i \in 1..Len(rejections')
          /\ Len(rejections) + 1 \in 1..Len(rejections')
      BY <2>5, <2>6
    <3>3. QED BY <2>5, <2>7, <3>1, <3>2 DEF Told
  <2>10. \A i, j \in 1..Len(rejections') : rejections'[i] = rejections'[j] => i = j
    BY <2>4, <2>7, <2>8
  <2>11. /\ error'[r] = NewError(r, "queue_full")
         /\ \A q \in Requests : q # r => error'[q] = error[q]
         /\ error' = [q \in Requests |-> error'[q]]
    BY <2>3 DEF SInv, ServiceTypes
  <2>12. error'[r] # NoError /\ error'[r].from = r
    BY <2>11 DEF NewError, NoError
  <2>13. ServiceTypes'
    BY <1>8, <2>5, <2>11 DEF ServiceTypes
  <2>14. \A q \in Requests, v \in Wallets :
          Holds(v, q)' => walletOf'[q] = v /\ pc'[q] = "awaiting"
    BY <1>3, <1>5, <2>2 DEF SInv, CallsPlaced
  <2>15. \A q \in Requests :
          Told(q)' => pc'[q] = "awaiting" /\ promise'[q] = "rejected" /\ error'[q] # NoError
    BY <1>5, <1>6, <1>7, <2>1, <2>9, <2>11, <2>12 DEF SInv, CallsPlaced
  <2>16. \A q \in Requests :
          pc'[q] = "awaiting" => Told(q)' \/ \E v \in Wallets : Holds(v, q)'
    BY <1>5, <2>2, <2>9 DEF SInv, CallsPlaced
  <2>17. CallsPlaced'
    BY <2>10, <2>14, <2>15, <2>16 DEF CallsPlaced
  <2>18. ASSUME NEW q \in Requests, error'[q] # NoError
         PROVE  /\ pc'[q] # "idle"
                /\ error'[q].from \in Requests
                /\ pc'[error'[q].from] # "idle"
                /\ walletOf'[error'[q].from] = walletOf'[q]
    <3>1. CASE q = r
      BY <1>6, <2>12, <3>1
    <3>2. CASE q # r
      <4>1. error'[q] = error[q]
        BY <2>11, <3>2
      <4>2. QED BY <1>4, <1>5, <2>18, <3>2, <4>1 DEF SInv, ErrorsFrom
    <3>3. QED BY <3>1, <3>2
  <2>19. ErrorsFrom'
    BY <2>18 DEF ErrorsFrom
  <2>20. QED BY <1>1, <2>13, <2>17, <2>19 DEF SInv
<1>11. QED BY <1>2, <1>9, <1>10 DEF Submit

\* What leaves the manager and the calls alone, and the clean-up of mutexes,
\* which holds nobody.
LEMMA QuietStep ==
  ASSUME IInv, SInv, UNCHANGED <<callVars, rejections, promise>>,
         \A v \in Wallets, q \in Requests : Holds(v, q)' <=> Holds(v, q)
  PROVE  SInv'
<1>1. /\ pc' = pc /\ walletOf' = walletOf /\ error' = error
      /\ rejections' = rejections /\ promise' = promise
  BY DEF callVars
<1>2. ServiceTypes' /\ ErrorsFrom'
  BY <1>1 DEF SInv, ServiceTypes, ErrorsFrom
<1>3. \A q : Told(q)' <=> Told(q)
  BY <1>1 DEF Told
<1>4. CallsPlaced'
  BY <1>1, <1>3 DEF SInv, CallsPlaced
<1>5. QED BY <1>2, <1>4 DEF SInv

LEMMA CleanupStep == ASSUME IInv, SInv, ServiceCleanup PROVE SInv' /\ Next
<1>1. Next /\ UNCHANGED <<callVars, rejections, promise>>
  BY DEF Next, ServiceCleanup, Cleanup
<1>2. \A v \in Wallets : activeEntry'[v] = activeEntry[v] /\ queue'[v] = queue[v]
  BY DEF ServiceCleanup, Cleanup, Forget, Inactive, IInv, MutexConsistent
<1>3. \A v \in Wallets, q \in Requests : Holds(v, q)' <=> Holds(v, q)
  BY <1>2 DEF Holds, Queued
<1>4. QED BY <1>1, <1>3, QuietStep

LEMMA StepSInv == IInv /\ SInv /\ [ServiceNext]_serviceVars => SInv' /\ [Next]_vars
<1> SUFFICES ASSUME IInv, SInv, [ServiceNext]_serviceVars PROVE SInv' /\ [Next]_vars
  OBVIOUS
<1>1. ASSUME NEW w \in Wallets, NEW r \in Requests, SignInvalid(w, r)
      PROVE  SInv' /\ Next
  BY <1>1, RefusedStep DEF SignInvalid
<1>2. ASSUME NEW w \in Wallets, NEW r \in Requests, SignRateLimited(w, r)
      PROVE  SInv' /\ Next
  BY <1>2, RefusedStep DEF SignRateLimited
<1>3. ASSUME NEW w \in Wallets, NEW r \in Requests, SignWithoutShares(w, r)
      PROVE  SInv' /\ Next
  BY <1>3, RefusedStep DEF SignWithoutShares
<1>4. ASSUME NEW w \in Wallets, NEW r \in Requests, SignSubmit(w, r)
      PROVE  SInv' /\ Next
  BY <1>4, SubmitStep
<1>5. CASE SignRejected
  BY <1>5, RejectedStep
<1>6. ASSUME UNCHANGED <<vars, callVars, rejections>> PROVE SInv' /\ UNCHANGED vars
  <2>1. activeEntry' = activeEntry /\ queue' = queue /\ promise' = promise
    BY <1>6 DEF vars
  <2>2. \A v \in Wallets, q \in Requests : Holds(v, q)' <=> Holds(v, q)
    BY <2>1 DEF Holds, Queued
  <2>3. QED BY <1>6, <2>1, <2>2, QuietStep
<1>7. ASSUME NEW w \in Wallets, RegisterShares(w) \/ WindowElapsed(w)
      PROVE  SInv' /\ UNCHANGED vars
  BY <1>6, <1>7 DEF RegisterShares, WindowElapsed
<1>8. CASE ServiceCleanup
  BY <1>8, CleanupStep
<1>9. CASE UNCHANGED serviceVars
  BY <1>6, <1>9 DEF serviceVars, callVars
<1>10. QED
  BY <1>1, <1>2, <1>3, <1>4, <1>5, <1>7, <1>8, <1>9 DEF ServiceNext

-----------------------------------------------------------------------------
(* The theorems.                                                           *)

LEMMA InitService == ServiceInit => IInv /\ SInv
<1> SUFFICES ASSUME ServiceInit PROVE IInv /\ SInv
  OBVIOUS
<1>1. \A w \in Wallets : Len(queue[w]) = 0 /\ activeEntry[w] = None
  BY DEF ServiceInit, Init
<1>2. \A w \in Wallets, r \in Requests : ~Holds(w, r)
  BY <1>1, NoneAssumption DEF Holds, Queued
<1>3. IInv
  <2>1. TypeOK /\ MutexConsistent
    BY InitType DEF ServiceInit, Init, MutexConsistent
  <2>2. PendingHeldOnce
    BY <1>1, <1>2 DEF ServiceInit, Init, PendingHeldOnce
  <2>3. QED BY <2>1, <2>2 DEF IInv
<1>4. SInv
  <2>1. rejections \in Seq(Requests) /\ Len(rejections) = 0
    BY EmptySeq DEF ServiceInit
  <2>2. CallsPlaced
    BY <1>2, <2>1 DEF CallsPlaced, Told, ServiceInit
  <2>3. ServiceTypes /\ ErrorsFrom
    BY <2>1 DEF ServiceTypes, ErrorsFrom, ServiceInit, Init
  <2>4. QED BY <2>2, <2>3 DEF SInv
<1>5. QED BY <1>3, <1>4

\* The invariants of the manager and of the calls on top of it.
THEOREM ServiceInvariance == ServiceSpec => [](IInv /\ SInv)
<1>1. IInv /\ SInv /\ [ServiceNext]_serviceVars => (IInv /\ SInv)'
  BY StepSInv, ManagerStep
<1>2. QED BY <1>1, InitService, PTL DEF ServiceSpec

\* sign() uses the manager as its callers may: every behaviour of the service
\* is one of the manager, so that what is proved of the manager holds for it.
THEOREM ServiceImplementsManager == ServiceSpec => Spec
<1>1. ServiceInit => Init
  BY DEF ServiceInit
<1>2. IInv /\ SInv /\ [ServiceNext]_serviceVars => [Next]_vars
  BY StepSInv
<1>3. QED BY <1>1, <1>2, ServiceInvariance, PTL DEF ServiceSpec, Spec

\* An awaiting call is held by the mutex of its own wallet, or its rejection
\* waits once in the microtask queue.
THEOREM EveryCallAccounted == ServiceSpec => []CallsAccounted
<1>1. IInv /\ SInv => CallsAccounted
  <2> SUFFICES ASSUME IInv, SInv, NEW r \in Requests
               PROVE  LET held == \E w \in Wallets : walletOf[r] = w /\ Holds(w, r)
                          told == {i \in 1..Len(rejections) : rejections[i] = r}
                      IN  /\ pc[r] = "awaiting" <=> held \/ told # {}
                          /\ ~(held /\ told # {})
                          /\ Cardinality(told) <= 1
    BY DEF CallsAccounted
  <2> DEFINE held == \E w \in Wallets : walletOf[r] = w /\ Holds(w, r)
             told == {i \in 1..Len(rejections) : rejections[i] = r}
  <2>1. held <=> \E w \in Wallets : Holds(w, r)
    BY DEF SInv, CallsPlaced
  <2>2. told # {} <=> Told(r)
    BY DEF Told
  <2>3. pc[r] = "awaiting" <=> held \/ told # {}
    BY <2>1, <2>2 DEF SInv, CallsPlaced
  <2>4. ~(held /\ told # {})
    <3>1. held => promise[r] = "pending"
      BY <2>1 DEF IInv, PendingHeldOnce
    <3>2. told # {} => promise[r] = "rejected"
      BY <2>2 DEF SInv, CallsPlaced
    <3>3. QED BY <3>1, <3>2
  <2>5. Cardinality(told) <= 1
    <3>1. CASE told = {}
      BY <3>1, FS_EmptySet
    <3>2. CASE told # {}
      <4>1. PICK i \in told : TRUE
        BY <3>2
      <4>2. told = {i}
        BY <4>1 DEF SInv, CallsPlaced
      <4>3. Cardinality({i}) = 1
        BY FS_Singleton
      <4>4. QED BY <4>2, <4>3
    <3>3. QED BY <3>1, <3>2
  <2>6. QED BY <2>3, <2>4, <2>5
<1>2. QED BY <1>1, ServiceInvariance, PTL

\* Whatever error a caller gets comes from a call for the same wallet.
THEOREM NoForeignErrors == ServiceSpec => []ErrorsStayOnWallet
<1>1. SInv => ErrorsStayOnWallet
  BY DEF SInv, ErrorsFrom, ErrorsStayOnWallet
<1>2. QED BY <1>1, ServiceInvariance, PTL

LEMMA HoldersNotFailed == IInv /\ SInv => NoLockLeftBehind
<1> SUFFICES ASSUME IInv, SInv, NEW w \in Wallets, locked[w]
             PROVE  \E r \in Requests : walletOf[r] = w /\ pc[r] # "failed"
  BY DEF NoLockLeftBehind
<1>1. activeEntry[w] \in Requests /\ Holds(w, activeEntry[w])
  BY DEF IInv, TypeOK, MutexConsistent, Holds
<1>2. QED BY <1>1 DEF SInv, CallsPlaced

\* A wallet all of whose calls have failed is not locked.
THEOREM ErrorsReleaseLocks == ServiceSpec => []NoLockLeftBehind
BY HoldersNotFailed, ServiceInvariance, PTL

\* The same of MCSigning, where the manager also runs under other callers: the
\* service's calls are accounted for wherever the service runs.
PartIInv == IInv /\ (part = "service" => SInv)

THEOREM NoErrorKeepsLock == SigningSpec => []ServiceLeavesNoLock
<1>1. SigningInit => PartIInv
  BY InitService DEF SigningInit, PartIInv
<1>2. PartIInv /\ [SigningNext]_<<serviceVars, part>> => PartIInv'
  <2> SUFFICES ASSUME PartIInv, [SigningNext]_<<serviceVars, part>> PROVE PartIInv'
    OBVIOUS
  <2>1. CASE part = "manager" /\ Next /\ part' = part
    BY <2>1, ManagerStep DEF PartIInv
  <2>2. CASE part = "service" /\ ServiceNext /\ part' = part
    BY <2>2, ManagerStep, StepSInv DEF PartIInv
  <2>3. CASE UNCHANGED <<serviceVars, part>>
    <3>1. IInv'
      BY <2>3, ManagerStep DEF PartIInv, serviceVars
    <3>2. part = "service" => SInv'
      BY <2>3, StepSInv DEF PartIInv
    <3>3. QED BY <2>3, <3>1, <3>2 DEF PartIInv
  <2>4. QED BY <2>1, <2>2, <2>3 DEF SigningNext
<1>3. PartIInv => ServiceLeavesNoLock
  BY HoldersNotFailed DEF PartIInv, ServiceLeavesNoLock
<1>4. QED BY <1>1, <1>2, <1>3, PTL DEF SigningSpec
=============================================================================
