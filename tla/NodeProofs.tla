----------------------------- MODULE NodeProofs -----------------------------
(***************************************************************************)
(* Proofs about the parts of a node: social recovery, for any set of       *)
(* guardians, any threshold, time-lock, expiry and clock; what is kept of  *)
(* shares outside a node's memory, encrypted rows and recovery bundles,    *)
(* for any shares, keys, wallets, phrases, clocks and ages; and the calls  *)
(* of sign() that are repeated, for any keys, windows and number of calls. *)
(***************************************************************************)
EXTENDS Node, FiniteSetTheorems, SequenceTheorems, TLAPS

-----------------------------------------------------------------------------
(* Social recovery.                                                        *)
(* ApprovalsAgree is not inductive: an approval renews the time-lock, which *)
(* ends after every earlier approval only because none is from the future  *)
(* (LogInPast), and an execution that returns from its notification marks  *)
(* its request completed without looking at it again (RunningApproved).    *)

LogInPast == \A id \in OnRecord : \A a \in approvals[id] : a.at <= now

RunningApproved ==
  \A i \in 1..Len(running) :
    running[i] # Gone => running[i] \in OnRecord /\ executeAfter[running[i]] # Null

IInv == TypeOK /\ ApprovalsAgree /\ LogInPast /\ RunningApproved

-----------------------------------------------------------------------------
(* Type correctness.                                                       *)

LEMMA DroppedType ==
  ASSUME TypeOK, NEW ids \in SUBSET Ids
  PROVE  Dropped(ids) \in Seq(Ids \cup {Gone})
<1>1. running \in Seq(Ids \cup {Gone})
  BY DEF TypeOK
<1>2. Len(running) \in Nat /\ DOMAIN running = 1..Len(running)
  BY <1>1
<1>3. \A i \in 1..Len(running) : running[i] \in Ids \cup {Gone}
  BY <1>1
<1>4. Dropped(ids) \in [1..Len(running) -> Ids \cup {Gone}]
  BY <1>2, <1>3 DEF Dropped
<1> QED
  BY <1>2, <1>4, SeqDef

LEMMA InitType == Init => TypeOK
BY TimesAssumption DEF Init, TypeOK, Ids, Statuses, Null

LEMMA StepType == TypeOK /\ [Next]_vars => TypeOK'
<1> SUFFICES ASSUME TypeOK, [Next]_vars PROVE TypeOK'
  OBVIOUS
<1> USE TimesAssumption DEF TypeOK, Statuses
<1>1. CASE InitiateRecovery
  <2>1. running' \in Seq(Ids \cup {Gone})
    BY <1>1, DroppedType DEF InitiateRecovery
  <2> QED
    BY <1>1, <2>1 DEF InitiateRecovery, Null
<1>2. ASSUME NEW id \in Ids, NEW g \in Guardians, RecordApproval(id, g)
      PROVE  TypeOK'
  <2>1. [guardian |-> g, at |-> now] \in [guardian : Guardians, at : Ids]
    OBVIOUS
  <2>2. approvals' \in [Ids -> SUBSET [guardian : Guardians, at : Ids]]
    BY <1>2, <2>1 DEF RecordApproval
  <2>3. approvedBy' \in [Ids -> SUBSET Guardians]
    BY <1>2 DEF RecordApproval
  <2>4. now \in Nat /\ now + TimeLock \in Nat
    BY DEF Ids
  <2>5. executeAfter' \in [Ids -> Nat] /\ status' \in [Ids -> Statuses]
    BY <1>2, <2>4 DEF RecordApproval, ThresholdMet
  <2> QED
    BY <1>2, <2>2, <2>3, <2>5 DEF RecordApproval
<1>3. ASSUME NEW id \in Ids, ExecuteStart(id) PROVE TypeOK'
  BY <1>3, AppendProperties DEF ExecuteStart
<1>4. ASSUME NEW id \in Ids, CancelRecovery(id) PROVE TypeOK'
  BY <1>4 DEF CancelRecovery
<1>5. CASE ExecuteFinish
  <2>1. Len(running) \in Nat /\ Len(running) # 0 /\ running[Len(running)] \in Ids \cup {Gone}
    BY <1>5, EmptySeq, LenProperties DEF ExecuteFinish
  <2>2. status' \in [Ids -> Statuses]
    BY <1>5, <2>1 DEF ExecuteFinish, Gone
  <2>3. running' \in Seq(Ids \cup {Gone})
    BY <1>5, <2>1, SubSeqProperties DEF ExecuteFinish
  <2> QED
    BY <1>5, <2>2, <2>3 DEF ExecuteFinish
<1>6. CASE Cleanup
  <2>1. running' \in Seq(Ids \cup {Gone})
    BY <1>6, DroppedType DEF Cleanup, Expired
  <2> QED
    BY <1>6, <2>1 DEF Cleanup
<1>7. CASE Destroy
  <2>1. running' \in Seq(Ids \cup {Gone})
    BY <1>7, DroppedType DEF Destroy
  <2> QED
    BY <1>7, <2>1 DEF Destroy
<1>8. CASE Tick
  BY <1>8 DEF Tick, Ids
<1>9. CASE UNCHANGED vars
  BY <1>9 DEF vars
<1> QED
  BY <1>1, <1>2, <1>3, <1>4, <1>5, <1>6, <1>7, <1>8, <1>9 DEF Next

\* The state of the recovery manager stays well formed; in particular an
\* expired request is never found on record.
THEOREM TypeCorrect == Spec => []TypeOK
<1>1. Init => TypeOK
  BY InitType
<1>2. TypeOK /\ [Next]_vars => TypeOK'
  BY StepType
<1> QED
  BY <1>1, <1>2, PTL DEF Spec

-----------------------------------------------------------------------------
(* Agreement of the requests with the log.                                 *)

\* A request none of whose fields a step changes, but possibly its status,
\* keeps its agreement.
LEMMA Frame ==
  ASSUME NEW id, LogAgrees(id), LockAgrees(id), StatusAgrees(id),
         approvedBy'[id] = approvedBy[id], approvals'[id] = approvals[id],
         executeAfter'[id] = executeAfter[id],
         status'[id] \in {status[id], "cancelled"} \/ executeAfter[id] # Null
  PROVE  LogAgrees(id)' /\ LockAgrees(id)' /\ StatusAgrees(id)'
BY DEF LogAgrees, LockAgrees, StatusAgrees

\* A step that adds nothing to the record and moves none of its fields but the
\* status, and that marks approved, executed or completed only requests whose
\* time-lock runs, keeps the agreement of all requests.
LEMMA StatusOnly ==
  ASSUME TypeOK, ApprovalsAgree, OnRecord' \subseteq OnRecord,
         \A id \in OnRecord' :
           /\ approvedBy'[id] = approvedBy[id]
           /\ approvals'[id] = approvals[id]
           /\ executeAfter'[id] = executeAfter[id]
           /\ status'[id] \in {status[id], "cancelled"} \/ executeAfter[id] # Null
  PROVE  ApprovalsAgree'
BY Frame DEF ApprovalsAgree

LEMMA FiniteApprovers ==
  ASSUME TypeOK, NEW id \in Ids
  PROVE  IsFiniteSet(approvedBy[id]) /\ Cardinality(approvedBy[id]) \in Nat
BY GuardiansAssumption, FS_Subset, FS_CardinalityType DEF TypeOK

\* An approval is later than every approval in the log, so the time-lock that
\* it starts anew ends TimeLock after the latest of them.
LEMMA RecordApprovalAgrees ==
  ASSUME TypeOK, ApprovalsAgree, LogInPast,
         NEW id \in Ids, NEW g \in Guardians, RecordApproval(id, g)
  PROVE  LogAgrees(id)' /\ LockAgrees(id)' /\ StatusAgrees(id)'
<1>0. PICK new : new = [guardian |-> g, at |-> now]
  OBVIOUS
<1>1. LogAgrees(id) /\ LockAgrees(id) /\ StatusAgrees(id) /\ \A a \in approvals[id] : a.at <= now
  BY DEF RecordApproval, ApprovalsAgree, LogInPast, OnRecord
<1>2. approvedBy'[id] = approvedBy[id] \cup {g} /\ g \notin approvedBy[id]
  BY DEF RecordApproval, TypeOK
<1>3. approvals'[id] = approvals[id] \cup {new} /\ new.guardian = g /\ new.at = now
  BY <1>0 DEF RecordApproval, TypeOK
<1>4. LogAgrees(id)'
  <2>1. approvedBy[id] = {a.guardian : a \in approvals[id]}
    BY <1>1 DEF LogAgrees
  <2>2. \A a \in approvals[id] : a.guardian # g
    BY <1>2, <2>1
  <2>3. {a.guardian : a \in approvals'[id]} = {a.guardian : a \in approvals[id]} \cup {g}
    BY <1>3
  <2>4. \A a, b \in approvals'[id] : a.guardian = b.guardian => a = b
    BY <1>1, <1>3, <2>2 DEF LogAgrees
  <2> QED
    BY <1>2, <2>1, <2>3, <2>4 DEF LogAgrees
<1>5. Cardinality(approvedBy'[id]) = Cardinality(approvedBy[id]) + 1 /\ Cardinality(approvedBy[id]) \in Nat
  BY <1>2, FiniteApprovers, FS_AddElement
<1>6. CASE Cardinality(approvedBy'[id]) >= Threshold
  <2>1. executeAfter'[id] = now + TimeLock /\ now \in Nat \ {0} /\ TimeLock \in Nat
    BY <1>6, TimesAssumption DEF RecordApproval, ThresholdMet, TypeOK, Ids
  <2>2. \A a \in approvals[id] : a.at \in Nat
    BY TimesAssumption DEF TypeOK, Ids
  <2>3. \A a \in approvals'[id] : a.at + TimeLock <= executeAfter'[id]
    BY <1>1, <1>3, <2>1, <2>2
  <2>4. \E a \in approvals'[id] : a.at + TimeLock = executeAfter'[id]
    BY <1>3, <2>1
  <2>5. executeAfter'[id] # Null
    BY <2>1 DEF Null
  <2> QED
    BY <1>4, <1>6, <2>3, <2>4, <2>5 DEF LockAgrees, StatusAgrees
<1>7. CASE ~(Cardinality(approvedBy'[id]) >= Threshold)
  <2>1. executeAfter' = executeAfter /\ status' = status
    BY <1>7 DEF RecordApproval, ThresholdMet
  <2>2. Threshold \in Nat
    BY ThresholdAssumption, GuardiansAssumption, FS_CardinalityType
  <2>3. executeAfter[id] = Null
    BY <1>1, <1>5, <1>7, <2>2 DEF LockAgrees
  <2> QED
    BY <1>1, <1>4, <1>7, <2>1, <2>3 DEF LockAgrees, StatusAgrees
<1> QED
  BY <1>6, <1>7

LEMMA InitInv == Init => IInv
<1> SUFFICES ASSUME Init PROVE IInv
  OBVIOUS
<1>1. TypeOK
  BY InitType
<1>2. OnRecord = {} /\ Len(running) = 0
  BY EmptySeq DEF Init, OnRecord
<1> QED
  BY <1>1, <1>2 DEF IInv, ApprovalsAgree, LogInPast, RunningApproved

LEMMA StepAgree == IInv /\ [Next]_vars => ApprovalsAgree'
<1> SUFFICES ASSUME IInv, [Next]_vars PROVE ApprovalsAgree'
  OBVIOUS
<1>0. TypeOK /\ ApprovalsAgree /\ LogInPast /\ RunningApproved
  BY DEF IInv
<1>1. CASE InitiateRecovery
  <2>1. ASSUME NEW id \in OnRecord'
        PROVE  LogAgrees(id)' /\ LockAgrees(id)' /\ StatusAgrees(id)'
    <3>1. CASE id = now
      <4>1. approvedBy'[id] = {} /\ approvals'[id] = {} /\ executeAfter'[id] = Null
            /\ status'[id] = "collecting_approvals"
        BY <1>0, <1>1, <3>1 DEF InitiateRecovery, TypeOK
      <4>2. Cardinality({}) = 0 /\ ~(0 >= Threshold)
        BY FS_EmptySet, ThresholdAssumption, GuardiansAssumption, FS_CardinalityType
      <4> QED
        BY <4>1, <4>2 DEF LogAgrees, LockAgrees, StatusAgrees
    <3>2. CASE id # now
      <4>1. id \in OnRecord /\ status'[id] = status[id]
        BY <1>0, <1>1, <2>1, <3>2 DEF InitiateRecovery, OnRecord, TypeOK
      <4> QED
        BY <1>0, <1>1, <3>2, <4>1, Frame DEF InitiateRecovery, TypeOK, ApprovalsAgree
    <3> QED
      BY <3>1, <3>2
  <2> QED
    BY <2>1 DEF ApprovalsAgree
<1>2. ASSUME NEW i \in Ids, NEW g \in Guardians, RecordApproval(i, g)
      PROVE  ApprovalsAgree'
  <2>1. ASSUME NEW id \in OnRecord'
        PROVE  LogAgrees(id)' /\ LockAgrees(id)' /\ StatusAgrees(id)'
    <3>1. CASE id = i
      BY <1>0, <1>2, <3>1, RecordApprovalAgrees
    <3>2. CASE id # i
      <4>1. id \in OnRecord /\ status'[id] = status[id] /\ executeAfter'[id] = executeAfter[id]
        BY <1>0, <1>2, <2>1, <3>2 DEF RecordApproval, ThresholdMet, OnRecord, TypeOK
      <4> QED
        BY <1>0, <1>2, <3>2, <4>1, Frame DEF RecordApproval, TypeOK, ApprovalsAgree
    <3> QED
      BY <3>1, <3>2
  <2> QED
    BY <2>1 DEF ApprovalsAgree
<1>3. ASSUME NEW i \in Ids, ExecuteStart(i) PROVE ApprovalsAgree'
  BY <1>0, <1>3, StatusOnly DEF ExecuteStart, CanExecute, OnRecord, TypeOK
<1>4. ASSUME NEW i \in Ids, CancelRecovery(i) PROVE ApprovalsAgree'
  BY <1>0, <1>4, StatusOnly DEF CancelRecovery, OnRecord, TypeOK
<1>5. CASE ExecuteFinish
  <2> DEFINE id == running[Len(running)]
  <2>1. Len(running) \in 1..Len(running)
    BY <1>0, <1>5, EmptySeq DEF ExecuteFinish, TypeOK
  <2>2. id # Gone => id \in OnRecord /\ executeAfter[id] # Null
    BY <1>0, <2>1 DEF RunningApproved
  <2> QED
    BY <1>0, <1>5, <2>2, StatusOnly DEF ExecuteFinish, OnRecord, TypeOK
<1>6. CASE Cleanup
  BY <1>0, <1>6, StatusOnly DEF Cleanup, OnRecord, TypeOK
<1>7. CASE Destroy
  BY <1>0, <1>7, StatusOnly DEF Destroy, OnRecord, TypeOK
<1>8. CASE Tick
  BY <1>0, <1>8, StatusOnly DEF Tick, OnRecord, TypeOK
<1>9. CASE UNCHANGED vars
  BY <1>0, <1>9, StatusOnly DEF vars, OnRecord, TypeOK
<1> QED
  BY <1>1, <1>2, <1>3, <1>4, <1>5, <1>6, <1>7, <1>8, <1>9 DEF Next

LEMMA StepPast == IInv /\ [Next]_vars => LogInPast'
<1> SUFFICES ASSUME IInv, [Next]_vars PROVE LogInPast'
  OBVIOUS
<1>0. TypeOK /\ LogInPast /\ now \in Nat
  BY DEF IInv, TypeOK, Ids
<1>1. ASSUME NEW id \in OnRecord', NEW a \in approvals'[id] PROVE a.at <= now'
  <2>1. CASE InitiateRecovery
    BY <1>0, <1>1, <2>1 DEF InitiateRecovery, OnRecord, LogInPast, TypeOK
  <2>2. ASSUME NEW i \in Ids, NEW g \in Guardians, RecordApproval(i, g)
        PROVE  a.at <= now'
    <3>1. a \in approvals[id] \/ a = [guardian |-> g, at |-> now]
      BY <1>0, <1>1, <2>2 DEF RecordApproval, OnRecord, TypeOK
    <3>2. id \in OnRecord
      BY <1>0, <1>1, <2>2 DEF RecordApproval, ThresholdMet, OnRecord, TypeOK
    <3> QED
      BY <1>0, <1>1, <2>2, <3>1, <3>2 DEF RecordApproval, LogInPast
  <2>3. ASSUME NEW i \in Ids, ExecuteStart(i) \/ CancelRecovery(i) PROVE a.at <= now'
    BY <1>0, <1>1, <2>3 DEF ExecuteStart, CanExecute, CancelRecovery, OnRecord, LogInPast, TypeOK
  <2>4. CASE ExecuteFinish
    <3>1. Len(running) \in 1..Len(running)
      BY <1>0, <2>4, EmptySeq DEF ExecuteFinish, TypeOK
    <3>2. id \in OnRecord
      BY <1>0, <1>1, <2>4, <3>1 DEF IInv, RunningApproved, ExecuteFinish, OnRecord, TypeOK
    <3> QED
      BY <1>0, <1>1, <2>4, <3>2 DEF ExecuteFinish, LogInPast
  <2>5. CASE Cleanup
    BY <1>0, <1>1, <2>5 DEF Cleanup, OnRecord, LogInPast
  <2>6. CASE Destroy
    BY <1>1, <2>6 DEF Destroy, OnRecord
  <2>7. CASE Tick
    <3>1. id \in OnRecord /\ a \in approvals[id] /\ id \in Ids
      BY <1>1, <2>7 DEF Tick, OnRecord
    <3>2. a.at \in Nat /\ a.at <= now
      BY <1>0, <3>1 DEF LogInPast, TypeOK, Ids
    <3> QED
      BY <1>0, <2>7, <3>2 DEF Tick
  <2>8. CASE UNCHANGED vars
    BY <1>0, <1>1, <2>8 DEF vars, OnRecord, LogInPast
  <2> QED
    BY <2>1, <2>2, <2>3, <2>4, <2>5, <2>6, <2>7, <2>8 DEF Next
<1> QED
  BY <1>1 DEF LogInPast

LEMMA DroppedApproved ==
  ASSUME TypeOK, RunningApproved, NEW ids \in SUBSET Ids, running' = Dropped(ids),
         \A id \in OnRecord \ ids :
           id \in OnRecord' /\ executeAfter'[id] = executeAfter[id]
  PROVE  RunningApproved'
<1>1. DOMAIN running = 1..Len(running) /\ Len(running) \in Nat
  BY DEF TypeOK
<1>2. Len(running') = Len(running)
  BY <1>1, DroppedType, LenProperties DEF Dropped
<1>3. \A i \in 1..Len(running) : running'[i] # Gone => running'[i] = running[i] /\ running[i] \notin ids
  BY <1>1 DEF Dropped
<1> QED
  BY <1>2, <1>3 DEF RunningApproved

LEMMA StepRunning == IInv /\ [Next]_vars => RunningApproved'
<1> SUFFICES ASSUME IInv, [Next]_vars PROVE RunningApproved'
  OBVIOUS
<1>0. TypeOK /\ ApprovalsAgree /\ RunningApproved
  BY DEF IInv
<1>1. CASE InitiateRecovery
  BY <1>0, <1>1, DroppedApproved DEF InitiateRecovery, OnRecord, TypeOK
<1>2. ASSUME NEW i \in Ids, NEW g \in Guardians, RecordApproval(i, g)
      PROVE  RunningApproved'
  <2>1. now + TimeLock # Null
    BY <1>0, TimesAssumption DEF TypeOK, Ids, Null
  <2>2. \A id \in OnRecord : /\ id \in OnRecord'
                             /\ executeAfter[id] # Null => executeAfter'[id] # Null
    BY <1>0, <1>2, <2>1 DEF RecordApproval, ThresholdMet, OnRecord, TypeOK
  <2> QED
    BY <1>0, <1>2, <2>2 DEF RecordApproval, RunningApproved
<1>3. ASSUME NEW i \in Ids, ExecuteStart(i) PROVE RunningApproved'
  <2>1. /\ Len(running') = Len(running) + 1 /\ Len(running) \in Nat
        /\ \A k \in 1..Len(running') : running'[k] = i \/ (k \in 1..Len(running) /\ running'[k] = running[k])
    BY <1>0, <1>3, AppendProperties DEF ExecuteStart, TypeOK
  <2>2. OnRecord' = OnRecord /\ i \in OnRecord /\ executeAfter[i] # Null
    BY <1>0, <1>3 DEF ExecuteStart, CanExecute, OnRecord, TypeOK
  <2> QED
    BY <1>0, <1>3, <2>1, <2>2 DEF ExecuteStart, RunningApproved
<1>4. ASSUME NEW i \in Ids, CancelRecovery(i) PROVE RunningApproved'
  BY <1>0, <1>4 DEF CancelRecovery, OnRecord, RunningApproved, TypeOK
<1>5. CASE ExecuteFinish
  <2>1. Len(running) \in Nat \ {0}
    BY <1>0, <1>5, EmptySeq DEF ExecuteFinish, TypeOK
  <2>2. /\ Len(running') = Len(running) - 1
        /\ \A k \in 1..Len(running') : running'[k] = running[k]
    <3> DEFINE n == Len(running) - 1
    <3>1. n \in Nat /\ \A k \in 1..n : running[k] \in Ids \cup {Gone}
      BY <1>0, <2>1 DEF TypeOK
    <3>2. running' = SubSeq(running, 1, n)
      BY <1>5 DEF ExecuteFinish
    <3> HIDE DEF n
    <3>3. Len(SubSeq(running, 1, n)) = n /\ \A k \in 1..n : SubSeq(running, 1, n)[k] = running[k]
      BY <3>1, SubSeqProperties
    <3> QED
      BY <3>2, <3>3 DEF n
  <2>3. OnRecord \subseteq OnRecord'
    BY <1>0, <1>5 DEF ExecuteFinish, OnRecord, TypeOK
  <2> QED
    BY <1>0, <1>5, <2>1, <2>2, <2>3 DEF ExecuteFinish, RunningApproved
<1>6. CASE Cleanup
  BY <1>0, <1>6, DroppedApproved DEF Cleanup, OnRecord, Expired
<1>7. CASE Destroy
  BY <1>0, <1>7, DroppedApproved DEF Destroy, OnRecord
<1>8. CASE Tick
  BY <1>0, <1>8 DEF Tick, OnRecord, RunningApproved
<1>9. CASE UNCHANGED vars
  BY <1>0, <1>9 DEF vars, OnRecord, RunningApproved
<1> QED
  BY <1>1, <1>2, <1>3, <1>4, <1>5, <1>6, <1>7, <1>8, <1>9 DEF Next

\* The strengthened invariant is inductive.
THEOREM Invariance == Spec => []IInv
<1>1. Init => IInv
  BY InitInv
<1>2. IInv /\ [Next]_vars => IInv'
  BY StepType, StepAgree, StepPast, StepRunning DEF IInv
<1> QED
  BY <1>1, <1>2, PTL DEF Spec

\* What a request on record says of itself agrees with the approval log.
THEOREM LogAgreement == Spec => []ApprovalsAgree
<1>1. IInv => ApprovalsAgree
  BY DEF IInv
<1> QED
  BY <1>1, Invariance, PTL

\* No execution starts before a threshold of distinct guardians has approved
\* and the time-lock has passed since the last approval, whatever requests,
\* cancellations, cleanups and handler callbacks come in between.
THEOREM TimeLockHolds == Spec => LockCoversEveryApproval
<1>1. IInv /\ [Next]_vars =>
        [\A id \in Ids : Starts(id) =>
           /\ Cardinality({a.guardian : a \in approvals[id]}) >= Threshold
           /\ \A a \in approvals[id] : now >= a.at + TimeLock]_vars
  <2> SUFFICES ASSUME IInv, Next, NEW id \in Ids, Starts(id)
               PROVE  /\ Cardinality({a.guardian : a \in approvals[id]}) >= Threshold
                      /\ \A a \in approvals[id] : now >= a.at + TimeLock
    BY DEF vars
  <2>0. TypeOK /\ ApprovalsAgree /\ status[id] # "executing" /\ status'[id] = "executing"
    BY DEF IInv, Starts
  <2>1. ExecuteStart(id)
    BY <2>0 DEF Next, InitiateRecovery, RecordApproval, ThresholdMet, ExecuteStart,
                CancelRecovery, ExecuteFinish, Cleanup, Destroy, Tick, TypeOK
  <2>2. id \in OnRecord /\ executeAfter[id] # Null /\ now >= executeAfter[id]
    BY <2>1 DEF ExecuteStart, CanExecute, OnRecord
  <2>3. LogAgrees(id) /\ LockAgrees(id)
    BY <2>0, <2>2 DEF ApprovalsAgree
  <2>4. Cardinality({a.guardian : a \in approvals[id]}) >= Threshold
    BY <2>2, <2>3 DEF LogAgrees, LockAgrees
  <2>5. ASSUME NEW a \in approvals[id] PROVE now >= a.at + TimeLock
    <3>1. a.at \in Nat /\ now \in Nat /\ executeAfter[id] \in Nat /\ TimeLock \in Nat
      BY <2>0, TimesAssumption DEF TypeOK, Ids
    <3>2. a.at + TimeLock <= executeAfter[id]
      BY <2>2, <2>3 DEF LockAgrees
    <3> QED
      BY <2>2, <3>1, <3>2
  <2> QED
    BY <2>4, <2>5
<1> QED
  BY <1>1, Invariance, PTL DEF Spec, LockCoversEveryApproval

\* A cancelled request is neither approved nor executed again; only an
\* execution that was under way when it was cancelled completes it.
THEOREM CancellationHolds == Spec => CancelHolds
<1>1. IInv /\ [Next]_vars =>
        [\A id \in Ids : status[id] = "cancelled" =>
           \/ status'[id] \in {"cancelled", "absent"}
           \/ status'[id] = "collecting_approvals" /\ id = now
           \/ status'[id] = "completed" /\ IsRunning(id)]_vars
  <2> SUFFICES ASSUME IInv, Next, NEW id \in Ids, status[id] = "cancelled"
               PROVE  \/ status'[id] \in {"cancelled", "absent"}
                      \/ status'[id] = "collecting_approvals" /\ id = now
                      \/ status'[id] = "completed" /\ IsRunning(id)
    BY DEF vars
  <2>0. TypeOK
    BY DEF IInv
  <2>1. CASE ExecuteFinish
    <3>1. Len(running) \in 1..Len(running)
      BY <2>0, <2>1, EmptySeq DEF ExecuteFinish, TypeOK
    <3> QED
      BY <2>0, <2>1, <3>1 DEF ExecuteFinish, IsRunning, TypeOK
  <2>2. CASE ~ExecuteFinish
    BY <2>0, <2>2 DEF Next, InitiateRecovery, RecordApproval, ThresholdMet, ExecuteStart,
                CanExecute, CancelRecovery, Cleanup, Destroy, Tick, TypeOK
  <2> QED
    BY <2>1, <2>2
<1> QED
  BY <1>1, Invariance, PTL DEF Spec, CancelHolds


-----------------------------------------------------------------------------
(* A load returns the share that was asked for or fails: every blob lies      *)
(* under a key derived for the context of the share that is in it.            *)

OwnContext(blob) == \E k : blob.share.under = DeriveShareKey(k, blob.share.of)

OwnIInv ==
    /\ rows = [s \in Shares |-> rows[s]]
    /\ \A s \in Shares : rows[s] # NoBlob => OwnContext(rows[s])
    /\ LoadedShareIsOwn

LEMMA OwnOpened ==
  ASSUME NEW blob, NEW context, OwnContext(blob)
  PROVE  Opened(blob, context) \in {context, "failed"}
<1>1. PICK k : blob.share.under = <<k, blob.share.of>>
  BY DEF OwnContext, DeriveShareKey
<1>2. ASSUME NEW j
      PROVE  DecryptShare(blob.share, DeriveShareKey(j, context)) \in {context, "failed"}
  BY <1>1 DEF DecryptShare, DeriveShareKey
<1>3. QED BY <1>2 DEF Opened, LocalDecrypt, EnvelopeDecrypt

LEMMA OwnEncrypted ==
  ASSUME NEW s PROVE OwnContext(LocalEncrypt(s)) /\ OwnContext(EnvelopeEncrypt(s))
BY DEF OwnContext, LocalEncrypt, EnvelopeEncrypt, EncryptShare

LEMMA OwnInit == CustodyInit => OwnIInv
BY DEF CustodyInit, OwnIInv, LoadedShareIsOwn

LEMMA OwnStep == OwnIInv /\ [CustodyNext]_custodyVars => OwnIInv'
<1> SUFFICES ASSUME OwnIInv, [CustodyNext]_custodyVars PROVE OwnIInv'
  OBVIOUS
<1>1. ASSUME NEW s \in Shares, Encrypt(s) PROVE OwnIInv'
  BY <1>1, OwnEncrypted DEF OwnIInv, Encrypt, LoadedShareIsOwn
<1>2. ASSUME NEW s \in Shares, Decrypt(s) PROVE OwnIInv'
  <2>1. Opened(rows[s], s) \in {s, "failed"}
    BY <1>2, OwnOpened DEF OwnIInv, Decrypt
  <2>2. loaded' = <<s, Opened(rows[s], s)>> /\ rows' = rows
    BY <1>2 DEF Decrypt
  <2>3. LoadedShareIsOwn'
    BY <2>1, <2>2 DEF LoadedShareIsOwn
  <2>4. QED BY <2>2, <2>3 DEF OwnIInv
<1>3. ASSUME NEW s \in Shares, NEW t \in Shares, Misplace(s, t) PROVE OwnIInv'
  BY <1>3 DEF OwnIInv, Misplace, LoadedShareIsOwn
<1>4. CASE Restart
  BY <1>4 DEF OwnIInv, Restart, LoadedShareIsOwn
<1>5. ASSUME UNCHANGED <<rows, loaded>> PROVE OwnIInv'
  BY <1>5 DEF OwnIInv, LoadedShareIsOwn
<1>6. CASE RotateKey \/ RotateCloudKey \/ SetAuditing \/ ClearAudit
  BY <1>5, <1>6 DEF RotateKey, RotateCloudKey, SetAuditing, ClearAudit
<1>7. CASE UNCHANGED custodyVars
  BY <1>5, <1>7 DEF custodyVars
<1>8. QED
  BY <1>1, <1>2, <1>3, <1>4, <1>6, <1>7 DEF CustodyNext

\* Neither a row in the wrong place nor a key drawn since makes a load return
\* another share than the one that was asked for.
THEOREM LoadsOwnShare == CustodySpec => []LoadedShareIsOwn
<1>1. OwnIInv => LoadedShareIsOwn
  BY DEF OwnIInv
<1>2. QED BY OwnInit, OwnStep, <1>1, PTL DEF CustodySpec

-----------------------------------------------------------------------------
(* A cloud provider's shares survive rotation: the data key of a share that   *)
(* this process encrypted is masked by the key that the process still has.    *)

\* A blob of a cloud provider, and its mask if this process made it.
Wrapped(blob) ==
    /\ blob.share.boot \in Nat /\ blob.share.boot <= boot
    /\ blob.share.under = DeriveShareKey(DataKey(blob.share.of), blob.share.of)
    /\ blob.dek.dek = DataKey(blob.share.of)
    /\ blob.share.boot = boot => blob.dek.mask = key

EnvelopeIInv ==
    /\ boot \in Nat
    /\ rows = [s \in Shares |-> rows[s]]
    /\ provider \in Envelope => \A s \in Shares : rows[s] # NoBlob => Wrapped(rows[s])

LEMMA EnvelopeInit == CustodyInit => EnvelopeIInv
BY DEF CustodyInit, EnvelopeIInv

LEMMA EnvelopeEncrypted ==
  ASSUME NEW s, boot \in Nat PROVE Wrapped(EnvelopeEncrypt(s))
BY DEF Wrapped, EnvelopeEncrypt, EncryptShare, EncryptDek

LEMMA EnvelopeStep == EnvelopeIInv /\ [CustodyNext]_custodyVars => EnvelopeIInv'
<1> SUFFICES ASSUME EnvelopeIInv, [CustodyNext]_custodyVars PROVE EnvelopeIInv'
  OBVIOUS
<1>1. ASSUME NEW s \in Shares, Encrypt(s) PROVE EnvelopeIInv'
  <2>1. provider \in Envelope => Wrapped(EnvelopeEncrypt(s))
    BY EnvelopeEncrypted DEF EnvelopeIInv
  <2>2. provider \in Envelope => rows' = [rows EXCEPT ![s] = EnvelopeEncrypt(s)]
    BY <1>1 DEF Encrypt, Envelope
  <2>3. rows' = [t \in Shares |-> rows'[t]]
    BY <1>1 DEF Encrypt, EnvelopeIInv
  <2>4. UNCHANGED <<provider, key, boot>>
    BY <1>1 DEF Encrypt
  <2>5. ASSUME provider \in Envelope, NEW t \in Shares, rows'[t] # NoBlob
        PROVE  Wrapped(rows'[t])
    BY <2>1, <2>2, <2>5 DEF EnvelopeIInv
  <2>6. QED BY <2>3, <2>4, <2>5 DEF EnvelopeIInv, Wrapped
<1>2. ASSUME NEW s \in Shares, NEW t \in Shares, Misplace(s, t) PROVE EnvelopeIInv'
  BY <1>2 DEF EnvelopeIInv, Misplace, Wrapped
<1>3. CASE Restart
  BY <1>3 DEF EnvelopeIInv, Restart, Wrapped
<1>4. CASE RotateKey
  BY <1>4 DEF EnvelopeIInv, RotateKey, Envelope
<1>5. ASSUME UNCHANGED <<provider, key, rows, boot>> PROVE EnvelopeIInv'
  BY <1>5 DEF EnvelopeIInv, Wrapped
<1>6. CASE RotateCloudKey \/ SetAuditing \/ ClearAudit \/ \E s \in Shares : Decrypt(s)
  BY <1>5, <1>6 DEF RotateCloudKey, SetAuditing, ClearAudit, Decrypt
<1>7. CASE UNCHANGED custodyVars
  BY <1>5, <1>7 DEF custodyVars
<1>8. QED
  BY <1>1, <1>2, <1>3, <1>4, <1>6, <1>7 DEF CustodyNext

LEMMA EnvelopeOpens == EnvelopeIInv => EnvelopeOutlivesRotation
<1> SUFFICES ASSUME EnvelopeIInv, provider \in Envelope, NEW s \in Shares,
                    rows[s] # NoBlob, rows[s].share.of = s, rows[s].share.boot = boot
             PROVE  Opened(rows[s], s) = s
  BY DEF EnvelopeOutlivesRotation
<1>1. Wrapped(rows[s])
  BY DEF EnvelopeIInv
<1>2. DecryptDek(rows[s].dek) = DataKey(s)
  BY <1>1 DEF Wrapped, DecryptDek
<1>3. EnvelopeDecrypt(rows[s], s) = s
  BY <1>1, <1>2 DEF Wrapped, EnvelopeDecrypt, DecryptShare
<1>4. QED BY <1>3 DEF Opened, Envelope

\* A share that the running process encrypted with a cloud provider and that is
\* in its place can be read back, however often the key was rotated since.
THEOREM RotationKeepsEnvelopes == CustodySpec => []EnvelopeOutlivesRotation
<1>1. QED BY EnvelopeInit, EnvelopeStep, EnvelopeOpens, PTL DEF CustodySpec

-----------------------------------------------------------------------------
(* A fresh bundle is served.  The property relates the answer to the last     *)
(* delivery, of which the server keeps only what clean-up has not forgotten:  *)
(* the invariant says that what it does keep is the last one.                 *)

LastOnRecord ==
    /\ delivered = [w \in Wallets |-> delivered[w]]
    /\ handedOut = [w \in Wallets |-> handedOut[w]]
    /\ \A w \in Wallets : delivered[w] # Backup!NoDelivery => delivered[w] = handedOut[w]

BundleIInv == LastOnRecord /\ FreshBundleServed

LEMMA InitBundleIInv == Backup!Init => BundleIInv
BY DEF Backup!Init, BundleIInv, LastOnRecord, FreshBundleServed, Backup!FreshBundleServed

LEMMA PrepareStep ==
  ASSUME BundleIInv, NEW w \in Wallets, Backup!PrepareBundle(w) PROVE BundleIInv'
<1>1. LastOnRecord'
  BY DEF BundleIInv, LastOnRecord, Backup!PrepareBundle
<1>2. FreshBundleServed'
  BY DEF Backup!PrepareBundle, FreshBundleServed, Backup!FreshBundleServed
<1>3. QED BY <1>1, <1>2 DEF BundleIInv

\* The request is refused as too old by the delivery on record, the last one.
LEMMA RequestStep ==
  ASSUME BundleIInv, NEW w \in Wallets, NEW sig, NEW whole,
         Backup!ProcessRequest(w, sig, whole)
  PROVE  BundleIInv'
<1>1. LastOnRecord'
  BY DEF BundleIInv, LastOnRecord, Backup!ProcessRequest
<1>2. PICK code : answer' = <<w, code, today>> /\ (code = "BUNDLE_EXPIRED" => Backup!TooOld(w))
  BY DEF Backup!ProcessRequest
<1>3. ASSUME code = "BUNDLE_EXPIRED" PROVE today - handedOut[w] > MaxBundleAge
  BY <1>2, <1>3 DEF BundleIInv, LastOnRecord, Backup!TooOld
<1>4. handedOut' = handedOut
  BY DEF Backup!ProcessRequest
<1>5. FreshBundleServed'
  BY <1>2, <1>3, <1>4 DEF FreshBundleServed, Backup!FreshBundleServed
<1>6. QED BY <1>1, <1>5 DEF BundleIInv

\* Clean-up, and the end of the server, forget deliveries and replace none.
LEMMA ForgetStep ==
  ASSUME BundleIInv, UNCHANGED <<handedOut, answer>>,
         delivered' = [w \in Wallets |-> delivered'[w]],
         \A w \in Wallets : delivered'[w] \in {delivered[w], Backup!NoDelivery}
  PROVE  BundleIInv'
<1>1. LastOnRecord'
  BY DEF BundleIInv, LastOnRecord
<1>2. FreshBundleServed'
  BY DEF BundleIInv, FreshBundleServed, Backup!FreshBundleServed
<1>3. QED BY <1>1, <1>2 DEF BundleIInv

LEMMA OtherStep == ASSUME BundleIInv, UNCHANGED Backup!serverVars PROVE BundleIInv'
BY DEF BundleIInv, LastOnRecord, FreshBundleServed, Backup!FreshBundleServed, Backup!serverVars

LEMMA StepBundleIInv == BundleIInv /\ [Backup!Next]_(Backup!recoveryVars) => BundleIInv'
<1> SUFFICES ASSUME BundleIInv, [Backup!Next]_(Backup!recoveryVars) PROVE BundleIInv'
  OBVIOUS
<1>1. ASSUME NEW w \in Wallets,
             \/ Backup!CreateMnemonic(w) \/ Backup!GenerateMnemonic(w) \/ Backup!CreateBackup(w)
             \/ \E words \in Phrases, salt \in Salts : Backup!FullRecovery(w, words, salt)
      PROVE  BundleIInv'
  BY <1>1, OtherStep DEF Backup!CreateMnemonic, Backup!GenerateMnemonic, Backup!CreateBackup, Backup!FullRecovery
<1>2. ASSUME NEW w \in Wallets, Backup!PrepareBundle(w) PROVE BundleIInv'
  BY <1>2, PrepareStep
<1>3. ASSUME NEW w \in Wallets, NEW sig, NEW whole,
             Backup!ProcessRequest(w, sig, whole)
      PROVE  BundleIInv'
  BY <1>3, RequestStep
<1>4. CASE Backup!Cleanup
  BY <1>4, ForgetStep DEF Backup!Cleanup
<1>5. CASE Backup!Destroy
  BY <1>5, ForgetStep DEF Backup!Destroy
<1>6. CASE Backup!Tick
  BY <1>6, OtherStep DEF Backup!Tick
<1>7. CASE UNCHANGED Backup!recoveryVars
  BY <1>7, OtherStep DEF Backup!recoveryVars
<1>8. QED
  BY <1>1, <1>2, <1>3, <1>4, <1>5, <1>6, <1>7 DEF Backup!Next

\* A developer who asks within the maximal age of the latest delivery is not
\* told that the bundle expired.
THEOREM FreshBundleAlwaysServed == Backup!Spec => []FreshBundleServed
<1>1. BundleIInv => FreshBundleServed
  BY DEF BundleIInv
<1>2. QED BY InitBundleIInv, StepBundleIInv, <1>1, PTL DEF Backup!Spec
-----------------------------------------------------------------------------
(* A backup gives back what was put into it: each bundle is tied to the       *)
(* phrase of its wallet, which no longer changes once there is a bundle.      *)

\* The bundle of w is the one of w's own phrase.
MadeFromPhrase(w) ==
    /\ phrase[w] # Backup!NoPhrase
    /\ \E salt : bundle[w] = Backup!CreateRecoveryBundle(w, Backup!DeriveRecoveryKey(phrase[w], salt))

\* The last recovery was one of a bundle that is still the wallet's.
RecoveredHere ==
    recovered # << >> =>
        \E w \in Wallets : \E words, salt :
            /\ bundle[w] # Backup!NoBundle
            /\ recovered = <<w, words, salt,
                   Backup!DecryptRecoveryBundle(bundle[w], Backup!RecoverKey(words, salt))>>

BackupIInv ==
    /\ phrase = [w \in Wallets |-> phrase[w]]
    /\ bundle = [w \in Wallets |-> bundle[w]]
    /\ \A w \in Wallets : bundle[w] # Backup!NoBundle => MadeFromPhrase(w)
    /\ RecoveredHere

LEMMA BackupInit == Backup!Init => BackupIInv
BY DEF Backup!Init, BackupIInv, RecoveredHere

\* A phrase is given to a wallet that has none, and so no bundle yet.
LEMMA PhraseStep ==
  ASSUME BackupIInv, NEW w \in Wallets, Backup!CreateMnemonic(w) \/ Backup!GenerateMnemonic(w)
  PROVE  BackupIInv'
<1>1. /\ phrase[w] = Backup!NoPhrase
      /\ UNCHANGED <<bundle, recovered>>
      /\ \E p : phrase' = [phrase EXCEPT ![w] = p]
  BY DEF Backup!CreateMnemonic, Backup!GenerateMnemonic
<1>2. \A x \in Wallets : bundle[x] # Backup!NoBundle => phrase'[x] = phrase[x]
  BY <1>1 DEF BackupIInv, MadeFromPhrase
<1>3. \A x \in Wallets : bundle'[x] # Backup!NoBundle => MadeFromPhrase(x)'
  BY <1>1, <1>2 DEF BackupIInv, MadeFromPhrase
<1>4. RecoveredHere'
  BY <1>1 DEF BackupIInv, RecoveredHere, Backup!DecryptRecoveryBundle, Backup!NoShares
<1>5. QED BY <1>1, <1>3, <1>4 DEF BackupIInv

LEMMA BackupStep ==
  ASSUME BackupIInv, NEW w \in Wallets, Backup!CreateBackup(w) PROVE BackupIInv'
<1>1. PICK salt : bundle' = [bundle EXCEPT ![w] =
                     Backup!CreateRecoveryBundle(w, Backup!DeriveRecoveryKey(phrase[w], salt))]
  BY DEF Backup!CreateBackup
<1>2. \A x \in Wallets : bundle'[x] # Backup!NoBundle => MadeFromPhrase(x)'
  BY <1>1 DEF BackupIInv, MadeFromPhrase, Backup!CreateBackup
<1>3. RecoveredHere'
  BY DEF Backup!CreateBackup, RecoveredHere
<1>4. QED BY <1>1, <1>2, <1>3 DEF BackupIInv, Backup!CreateBackup

LEMMA FullRecoveryStep ==
  ASSUME BackupIInv, NEW w \in Wallets, NEW words, NEW salt,
         Backup!FullRecovery(w, words, salt)
  PROVE  BackupIInv'
<1>1. RecoveredHere'
  BY DEF Backup!FullRecovery, RecoveredHere, Backup!DecryptRecoveryBundle, Backup!NoShares
<1>2. QED BY <1>1 DEF BackupIInv, Backup!FullRecovery, MadeFromPhrase

LEMMA ServerStep == ASSUME BackupIInv, UNCHANGED Backup!phraseVars PROVE BackupIInv'
BY DEF BackupIInv, Backup!phraseVars, MadeFromPhrase, RecoveredHere, Backup!DecryptRecoveryBundle,
       Backup!NoShares

LEMMA StepBackupIInv == BackupIInv /\ [Backup!Next]_(Backup!recoveryVars) => BackupIInv'
<1> SUFFICES ASSUME BackupIInv, [Backup!Next]_(Backup!recoveryVars) PROVE BackupIInv'
  OBVIOUS
<1>1. ASSUME NEW w \in Wallets, Backup!CreateMnemonic(w) \/ Backup!GenerateMnemonic(w)
      PROVE  BackupIInv'
  BY <1>1, PhraseStep
<1>2. ASSUME NEW w \in Wallets, Backup!CreateBackup(w) PROVE BackupIInv'
  BY <1>2, BackupStep
<1>3. ASSUME NEW w \in Wallets, NEW words, NEW salt, Backup!FullRecovery(w, words, salt)
      PROVE  BackupIInv'
  BY <1>3, FullRecoveryStep
<1>4. ASSUME NEW w \in Wallets,
             \/ Backup!PrepareBundle(w)
             \/ \E sig, whole : Backup!ProcessRequest(w, sig, whole)
      PROVE  BackupIInv'
  BY <1>4, ServerStep DEF Backup!PrepareBundle, Backup!ProcessRequest
<1>5. CASE Backup!Cleanup \/ Backup!Destroy \/ Backup!Tick
  BY <1>5, ServerStep DEF Backup!Cleanup, Backup!Destroy, Backup!Tick
<1>6. CASE UNCHANGED Backup!recoveryVars
  BY <1>6, ServerStep DEF Backup!recoveryVars
<1>7. QED
  BY <1>1, <1>2, <1>3, <1>4, <1>5, <1>6 DEF Backup!Next

\* Under the salt of the bundle only its own words give its key.
LEMMA WordsOpen == BackupIInv => BackupRecovers
<1> SUFFICES ASSUME BackupIInv, recovered # << >>, bundle[recovered[1]].salt = recovered[3]
             PROVE  recovered[4] =
                      IF recovered[2] = phrase[recovered[1]]
                      THEN [p \in Parties |-> <<recovered[1], p>>] ELSE Backup!NoShares
  BY DEF BackupRecovers, Backup!BackupRecovers
<1>1. PICK w \in Wallets : \E words, salt :
        /\ bundle[w] # Backup!NoBundle
        /\ recovered = <<w, words, salt,
               Backup!DecryptRecoveryBundle(bundle[w], Backup!RecoverKey(words, salt))>>
  BY DEF BackupIInv, RecoveredHere
<1> PICK words, salt :
      /\ bundle[w] # Backup!NoBundle
      /\ recovered = <<w, words, salt,
             Backup!DecryptRecoveryBundle(bundle[w], Backup!RecoverKey(words, salt))>>
  BY <1>1
<1>2. PICK made : bundle[w] = Backup!CreateRecoveryBundle(w, Backup!DeriveRecoveryKey(phrase[w], made))
  BY <1>1 DEF BackupIInv, MadeFromPhrase
<1>3. made = salt
  BY <1>1, <1>2 DEF Backup!CreateRecoveryBundle, Backup!DeriveRecoveryKey
<1>4. \A p \in Parties : /\ bundle[w].shares[p].under = [words |-> phrase[w], salt |-> salt]
                         /\ bundle[w].shares[p].share = <<w, p>>
  BY <1>2, <1>3 DEF Backup!CreateRecoveryBundle, Backup!DeriveRecoveryKey
<1>5. [words |-> phrase[w], salt |-> salt] = Backup!RecoverKey(words, salt) <=> words = phrase[w]
  BY DEF Backup!RecoverKey, Backup!DeriveRecoveryKey
<1>6. Backup!DecryptRecoveryBundle(bundle[w], Backup!RecoverKey(words, salt)) =
        IF words = phrase[w] THEN [p \in Parties |-> <<w, p>>] ELSE Backup!NoShares
  BY <1>4, <1>5, PartiesAssumption DEF Backup!DecryptRecoveryBundle
<1>7. QED BY <1>1, <1>6

\* The words that a user was shown open the bundle of that wallet, and others
\* open nothing, for any wallets, phrases and salts.
THEOREM BackupAlwaysRecovers == Backup!Spec => []BackupRecovers
<1>1. BackupIInv => BackupRecovers
  BY WordsOpen
<1>2. QED BY BackupInit, StepBackupIInv, <1>1, PTL DEF Backup!Spec

-----------------------------------------------------------------------------
(* Calls of sign() that are repeated.                                      *)

Entries == [createdAt : Nat, result : Nat]
Events ==
  [what : {"counted", "begun", "stored"}, call : 1..MaxCalls, wallet : OneWallet,
   key : RetryKeys, time : Nat]

RequestTypes ==
  /\ clock \in Nat
  /\ cache \in [RetryKeys -> Entries \cup {Requests!NoEntry}]
  /\ outcomes \in Seq(Events)
  /\ call = [c \in 1..MaxCalls |-> call[c]]
  /\ \A c \in 1..MaxCalls :
       call[c].state = "working" => call[c].wallet \in OneWallet /\ call[c].key \in RetryKeys

\* A result that was stored is still in an entry that is as young, or the
\* window since then is over.
ResultKept(event) ==
  \/ clock - event.time > IdempotencyWindow
  \/ /\ cache[event.key] # Requests!NoEntry
     /\ cache[event.key].result # Requests!NoResult
     /\ cache[event.key].createdAt >= event.time

RequestIInv ==
  /\ RequestTypes
  /\ \A i \in DOMAIN outcomes : outcomes[i].what = "stored" => ResultKept(outcomes[i])
  /\ RetryAnswered

LEMMA InitRequests == Requests!Init => RequestIInv
<1> SUFFICES ASSUME Requests!Init PROVE RequestIInv
  OBVIOUS
<1>1. outcomes = << >> /\ clock = 0
  BY DEF Requests!Init
<1>2. RequestTypes
  BY <1>1 DEF Requests!Init, RequestTypes, Requests!Calls, Requests!Idle
<1>3. QED
  BY <1>1, <1>2 DEF RequestIInv, RetryAnswered, Requests!RetryAnswered

\* An entry goes, or is begun anew, when the window since it began is over.
LEMMA ForgottenLate ==
  ASSUME RequestTypes, clock' = clock, cache' = [k \in RetryKeys |-> cache'[k]],
         \A k \in RetryKeys : cache'[k] = cache[k] \/ Requests!Stale(k),
         NEW event \in Events, ResultKept(event)
  PROVE  ResultKept(event)'
<1> DEFINE k == event.key
<1>1. k \in RetryKeys /\ event.time \in Nat /\ clock \in Nat /\ IdempotencyWindow \in Nat
  BY RequestsAssumption DEF Events, RequestTypes
<1>2. CASE clock - event.time > IdempotencyWindow \/ cache'[k] = cache[k]
  BY <1>2 DEF ResultKept
<1>3. CASE ~(clock - event.time > IdempotencyWindow) /\ Requests!Stale(k)
  <2>1. /\ cache[k] # Requests!NoEntry /\ cache[k].createdAt >= event.time
        /\ clock - cache[k].createdAt > IdempotencyWindow
    BY <1>3 DEF ResultKept, Requests!Stale
  <2>2. cache[k].createdAt \in Nat
    BY <1>1, <2>1 DEF RequestTypes, Entries
  <2>3. QED BY <1>1, <1>3, <2>1, <2>2
<1>4. QED BY <1>1, <1>2, <1>3

\* What checkIdempotency() and cleanup() leave of the cache.
LEMMA CheckedCache ==
  ASSUME RequestTypes, NEW k \in RetryKeys, Requests!CheckIdempotency(k)
  PROVE  /\ cache' \in [RetryKeys -> Entries \cup {Requests!NoEntry}]
         /\ \A j \in RetryKeys : cache'[j] = cache[j] \/ Requests!Stale(j)
<1>1. [createdAt |-> clock, result |-> Requests!NoResult] \in Entries
  BY DEF RequestTypes, Entries, Requests!NoResult
<1>2. QED BY <1>1 DEF Requests!CheckIdempotency, RequestTypes

\* The log grows by one event.
LEMMA EventStep ==
  ASSUME RequestIInv, RequestTypes', NEW event \in Events, outcomes' = Append(outcomes, event),
         \A e \in Events : ResultKept(e) => ResultKept(e)',
         event.what = "stored" => ResultKept(event)',
         event.what = "begun" =>
           \A i \in DOMAIN outcomes :
             outcomes[i].what = "stored" /\ outcomes[i].key = event.key
               => event.time - outcomes[i].time > IdempotencyWindow
  PROVE  RequestIInv'
<1>1. outcomes \in Seq(Events) /\ Len(outcomes) \in Nat
  BY DEF RequestIInv, RequestTypes
<1>2. /\ DOMAIN outcomes = 1..Len(outcomes) /\ DOMAIN outcomes' = 1..(Len(outcomes) + 1)
      /\ \A i \in DOMAIN outcomes : outcomes'[i] = outcomes[i] /\ outcomes[i] \in Events
      /\ outcomes'[Len(outcomes) + 1] = event
  BY <1>1
<1>3. \A i \in DOMAIN outcomes' :
        \/ i \in DOMAIN outcomes /\ outcomes'[i] = outcomes[i]
        \/ outcomes'[i] = event /\ \A j \in DOMAIN outcomes' : ~(i < j)
  BY <1>1, <1>2
<1>4. \A i \in DOMAIN outcomes' : outcomes'[i].what = "stored" => ResultKept(outcomes[i])'
  BY <1>2, <1>3 DEF RequestIInv, ResultKept
<1>5. RetryAnswered'
  <2> SUFFICES ASSUME NEW i \in DOMAIN outcomes', NEW j \in DOMAIN outcomes', i < j,
                      outcomes'[i].key = outcomes'[j].key,
                      outcomes'[i].what = "stored", outcomes'[j].what = "begun"
               PROVE  outcomes'[j].time - outcomes'[i].time > IdempotencyWindow
    BY DEF RetryAnswered, Requests!RetryAnswered
  <2>1. i \in DOMAIN outcomes /\ outcomes'[i] = outcomes[i]
    BY <1>3
  <2>2. CASE j \in DOMAIN outcomes /\ outcomes'[j] = outcomes[j]
    BY <2>1, <2>2 DEF RequestIInv, RetryAnswered, Requests!RetryAnswered
  <2>3. CASE outcomes'[j] = event
    BY <2>1, <2>3
  <2>4. QED BY <1>3, <2>2, <2>3
<1>6. QED BY <1>4, <1>5 DEF RequestIInv

\* Nothing is added to it.
LEMMA NoEventStep ==
  ASSUME RequestIInv, RequestTypes', UNCHANGED outcomes,
         \A e \in Events : ResultKept(e) => ResultKept(e)'
  PROVE  RequestIInv'
<1>1. \A i \in DOMAIN outcomes : outcomes[i] \in Events
  BY DEF RequestIInv, RequestTypes
<1>2. \A i \in DOMAIN outcomes : outcomes[i].what = "stored" => ResultKept(outcomes[i])'
  BY <1>1 DEF RequestIInv, ResultKept
<1>3. QED BY <1>2 DEF RequestIInv, RetryAnswered, Requests!RetryAnswered

LEMMA ArrivalStep ==
  ASSUME RequestIInv, NEW c \in 1..MaxCalls, NEW w \in OneWallet, NEW k \in RetryKeys,
         Requests!Answer(c, w, k) \/ Requests!Begin(c, w, k)
  PROVE  RequestIInv'
<1>1. RequestTypes
  BY DEF RequestIInv
<1>2. Requests!CheckIdempotency(k) /\ UNCHANGED clock
  BY DEF Requests!Answer, Requests!Begin
<1>3. PICK what \in {"counted", "begun"} :
        /\ Requests!Happened(what, c, w, k)
        /\ what = "begun" => ~Requests!Answers(k)
  BY DEF Requests!Answer, Requests!Begin
<1> DEFINE said == [what |-> what, call |-> c, wallet |-> w, key |-> k, time |-> clock]
<1>4. PICK event \in Events : event = said /\ outcomes' = Append(outcomes, event)
  BY <1>1, <1>3 DEF Events, RequestTypes, Requests!Happened
<1>5. RequestTypes'
  <2>1. outcomes' \in Seq(Events)
    BY <1>1, <1>4 DEF RequestTypes
  <2>2. call' = [d \in 1..MaxCalls |-> call'[d]]
    BY <1>1 DEF RequestTypes, Requests!Answer, Requests!Begin
  <2>3. ASSUME NEW d \in 1..MaxCalls, call'[d].state = "working"
        PROVE  call'[d].wallet \in OneWallet /\ call'[d].key \in RetryKeys
    <3>1. CASE d # c
      <4>1. call'[d] = call[d]
        BY <1>1, <3>1 DEF RequestTypes, Requests!Answer, Requests!Begin
      <4>2. QED BY <1>1, <2>3, <4>1 DEF RequestTypes
    <3>2. CASE d = c /\ Requests!Answer(c, w, k)
      <4>1. call'[c] = [state |-> "answered", result |-> cache[k].result]
        BY <1>1, <3>2 DEF RequestTypes, Requests!Answer
      <4>2. QED BY <2>3, <3>2, <4>1
    <3>3. CASE d = c /\ Requests!Begin(c, w, k)
      <4>1. call'[c] = [state |-> "working", wallet |-> w, key |-> k]
        BY <1>1, <3>3 DEF RequestTypes, Requests!Begin
      <4>2. QED BY <3>3, <4>1
    <3>4. QED BY <3>1, <3>2, <3>3
  <2>4. QED BY <1>1, <1>2, <2>1, <2>2, <2>3, CheckedCache DEF RequestTypes
<1>6. \A e \in Events : ResultKept(e) => ResultKept(e)'
  BY <1>1, <1>2, CheckedCache, ForgottenLate
<1>7. ASSUME what = "begun", NEW i \in DOMAIN outcomes,
             outcomes[i].what = "stored", outcomes[i].key = k
      PROVE  clock - outcomes[i].time > IdempotencyWindow
  <2>1. ResultKept(outcomes[i]) /\ outcomes[i].time \in Nat /\ clock \in Nat
    <3>1. outcomes[i] \in Events
      BY <1>1 DEF RequestTypes
    <3>2. QED BY <1>1, <1>7, <3>1 DEF RequestIInv, RequestTypes, Events
  <2>2. CASE Requests!Stale(k) /\ cache[k] # Requests!NoEntry
    <3>1. cache[k].createdAt \in Nat /\ clock - cache[k].createdAt > IdempotencyWindow
      BY <1>1, <2>2 DEF RequestTypes, Entries, Requests!Stale
    <3>2. QED BY <1>7, <2>1, <3>1, RequestsAssumption DEF ResultKept
  <2>3. CASE cache[k].result = Requests!NoResult \/ cache[k] = Requests!NoEntry
    BY <1>7, <2>1, <2>3 DEF ResultKept
  <2>4. QED BY <1>3, <1>7, <2>2, <2>3 DEF Requests!Answers
<1>8. event.what = what /\ event.key = k /\ event.time = clock
  BY <1>4
<1>9. QED BY <1>3, <1>4, <1>5, <1>6, <1>7, <1>8, EventStep

LEMMA FinishStep ==
  ASSUME RequestIInv, NEW c \in 1..MaxCalls, Requests!Finish(c)
  PROVE  RequestIInv'
<1> DEFINE k == call[c].key
<1>1. RequestTypes /\ k \in RetryKeys /\ call[c].wallet \in OneWallet
  BY DEF RequestIInv, RequestTypes, Requests!Finish
<1>2. call' = [call EXCEPT ![c] = [state |-> "done"]] /\ UNCHANGED clock
  BY DEF Requests!Finish
<1>3. /\ call' = [d \in 1..MaxCalls |-> call'[d]]
      /\ \A d \in 1..MaxCalls : call'[d].state = "working" =>
           call'[d].wallet \in OneWallet /\ call'[d].key \in RetryKeys
  BY <1>1, <1>2 DEF RequestTypes
<1>4. CASE cache[k] = Requests!NoEntry
  <2>1. UNCHANGED <<cache, outcomes>>
    BY <1>4 DEF Requests!Finish
  <2>2. RequestTypes'
    BY <1>1, <1>2, <1>3, <2>1 DEF RequestTypes
  <2>3. \A e \in Events : ResultKept(e) => ResultKept(e)'
    BY <1>2, <2>1 DEF ResultKept
  <2>4. QED BY <2>1, <2>2, <2>3, NoEventStep
<1>5. CASE cache[k] # Requests!NoEntry
  <2> DEFINE said == [what |-> "stored", call |-> c, key |-> k, wallet |-> call[c].wallet,
                      time |-> cache[k].createdAt]
             new == [cache[k] EXCEPT !.result = c]
  <2>1. cache[k] \in Entries /\ c \in Nat /\ c # 0
    BY <1>1, <1>5, RequestsAssumption DEF RequestTypes
  <2>2. new \in Entries /\ new.result = c /\ new.createdAt = cache[k].createdAt
    BY <2>1 DEF Entries
  <2>3. cache' = [cache EXCEPT ![k] = new] /\ outcomes' = Append(outcomes, said)
    BY <1>5 DEF Requests!Finish
  <2>4. PICK event \in Events :
          event = said /\ event.what = "stored" /\ event.key = k /\ event.time = new.createdAt
    <3>1. said \in Events
      BY <1>1, <2>1 DEF Entries, Events
    <3>2. said.what = "stored" /\ said.key = k /\ said.time = new.createdAt
      BY <2>2
    <3> HIDE DEF said
    <3>3. QED BY <3>1, <3>2
  <2> HIDE DEF said, new
  <2>5. /\ cache' \in [RetryKeys -> Entries \cup {Requests!NoEntry}] /\ cache'[k] = new
        /\ \A j \in RetryKeys : j # k => cache'[j] = cache[j]
    BY <1>1, <2>2, <2>3 DEF RequestTypes
  <2>6. new # Requests!NoEntry
    BY <2>2 DEF Entries, Requests!NoEntry
  <2>7. outcomes' \in Seq(Events)
    BY <1>1, <2>3, <2>4 DEF RequestTypes
  <2>8. RequestTypes'
    BY <1>1, <1>2, <1>3, <2>5, <2>7 DEF RequestTypes
  <2>9. ASSUME NEW e \in Events, ResultKept(e) PROVE ResultKept(e)'
    <3>1. e.key \in RetryKeys
      BY DEF Events
    <3>2. CASE e.key = k
      BY <1>2, <2>1, <2>2, <2>5, <2>6, <2>9, <3>2 DEF ResultKept, Requests!NoResult
    <3>3. CASE e.key # k
      BY <1>2, <2>5, <2>9, <3>1, <3>3 DEF ResultKept
    <3>4. QED BY <3>2, <3>3
  <2>10. ResultKept(event)'
    BY <1>2, <2>1, <2>2, <2>3, <2>4, <2>5, <2>6 DEF ResultKept, Requests!NoResult, Entries
  <2>11. QED BY <2>3, <2>4, <2>8, <2>9, <2>10, EventStep
<1>6. QED BY <1>4, <1>5

LEMMA StepRequests == RequestIInv /\ [Requests!Next]_requestVars => RequestIInv'
<1> SUFFICES ASSUME RequestIInv, [Requests!Next]_requestVars PROVE RequestIInv'
  OBVIOUS
<1>1. RequestTypes
  BY DEF RequestIInv
<1>2. ASSUME UNCHANGED <<clock, cache, outcomes>>, call' = [c \in 1..MaxCalls |-> call'[c]],
             \A c \in 1..MaxCalls : call'[c] = call[c] \/ call'[c].state = "failed"
      PROVE  RequestIInv'
  <2>1. RequestTypes'
    BY <1>1, <1>2 DEF RequestTypes
  <2>2. \A e \in Events : ResultKept(e) => ResultKept(e)'
    BY <1>2 DEF ResultKept
  <2>3. QED BY <1>2, <2>1, <2>2, NoEventStep
<1>3. ASSUME NEW c \in 1..MaxCalls, NEW w \in OneWallet, NEW k \in RetryKeys,
             Requests!Refuse(c, w, k)
      PROVE  RequestIInv'
  BY <1>1, <1>2, <1>3 DEF Requests!Refuse, RequestTypes
<1>4. ASSUME NEW c \in 1..MaxCalls, Requests!Fails(c) PROVE RequestIInv'
  BY <1>1, <1>2, <1>4 DEF Requests!Fails, RequestTypes
<1>5. CASE Requests!Cleanup
  <2>1. /\ cache' = [k \in RetryKeys |-> IF Requests!Stale(k) THEN Requests!NoEntry ELSE cache[k]]
        /\ UNCHANGED <<clock, call, outcomes>>
    BY <1>5 DEF Requests!Cleanup, Requests!KeptCache
  <2>2. RequestTypes'
    BY <1>1, <2>1 DEF RequestTypes
  <2>3. \A e \in Events : ResultKept(e) => ResultKept(e)'
    BY <1>1, <2>1, ForgottenLate
  <2>4. QED BY <2>1, <2>2, <2>3, NoEventStep
<1>6. CASE Requests!Tick
  <2>1. clock' = clock + 1 /\ UNCHANGED <<cache, call, outcomes>>
    BY <1>6 DEF Requests!Tick
  <2>2. RequestTypes'
    BY <1>1, <2>1 DEF RequestTypes
  <2>3. ASSUME NEW e \in Events, ResultKept(e) PROVE ResultKept(e)'
    BY <1>1, <2>1, <2>3, RequestsAssumption DEF RequestTypes, ResultKept, Events
  <2>4. QED BY <2>1, <2>2, <2>3, NoEventStep
<1>7. CASE UNCHANGED requestVars
  BY <1>1, <1>2, <1>7 DEF requestVars, RequestTypes
<1>8. QED
  BY <1>3, <1>4, <1>5, <1>6, <1>7, ArrivalStep, FinishStep DEF Requests!Next, Requests!Calls

\* While the entry of checkIdempotency() that holds a stored result is young
\* enough, no call with its key begins the work again, however calls with that
\* key overlap, fail, are late or meet a clean-up.
THEOREM RetriesAnswered == Requests!Spec => []RetryAnswered
<1>1. RequestIInv => RetryAnswered
  BY DEF RequestIInv
<1>2. Requests!requestVars = requestVars
  BY DEF Requests!requestVars, requestVars
<1>3. RequestIInv /\ [Requests!Next]_(Requests!requestVars) => RequestIInv'
  BY <1>2, StepRequests DEF requestVars, Requests!requestVars
<1>4. QED BY InitRequests, <1>1, <1>3, PTL DEF Requests!Spec
=============================================================================
