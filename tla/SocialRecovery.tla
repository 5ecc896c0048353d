--------------------------- MODULE SocialRecovery ---------------------------
(***************************************************************************)
(* The SocialRecoveryManager (apps/mpc/src/recovery/social/index.ts):      *)
(* M-of-N guardian approval of a wallet recovery, with a time-lock and an  *)
(* expiry, on a discrete clock that any call may find advanced.            *)
(*                                                                         *)
(* A request is named by the time of its creation, as in the code: a       *)
(* second initiateRecovery() at the same time replaces the first request.  *)
(*                                                                         *)
(* The methods are synchronous, but sendNotification() calls a handler     *)
(* registered from outside, which may call the manager back.  Everywhere   *)
(* but in executeRecovery() the notifications are the last thing done, so  *)
(* such a call is one more call after the method; executeRecovery()        *)
(* notifies between its two writes of the status, and `running' is the     *)
(* stack of executions that are in that notification.                      *)
(*                                                                         *)
(* Calls that are refused without a change of state (unknown request or    *)
(* guardian, malformed signature, repeated approval, time-lock not over)   *)
(* take no step.  executeAfter is allApprovedAt plus the time-lock; the    *)
(* latter is not kept apart.                                               *)
(***************************************************************************)
EXTENDS Naturals, Sequences, FiniteSets

CONSTANTS
  Guardians,   \* config.guardians
  Threshold,   \* config.threshold
  TimeLock,    \* config.timeLockMs
  Expiry,      \* DEFAULT_EXPIRY_MS
  MaxTime,     \* bound of the clock
  MaxRequests, \* bound of the requests on record at a time
  Cancelable   \* config.cancelable

ASSUME GuardiansAssumption == IsFiniteSet(Guardians)
ASSUME ThresholdAssumption == Threshold \in 2..Cardinality(Guardians)
ASSUME TimesAssumption == TimeLock \in Nat /\ Expiry \in Nat /\ MaxTime \in Nat \ {0}
ASSUME MaxRequestsAssumption == MaxRequests \in Nat
ASSUME CancelableAssumption == Cancelable \in BOOLEAN

VARIABLES
  now,           \* Date.now()
  status,        \* status of a request, "absent" when it is not on record
  approvedBy,    \* approvedBy of a request
  approvals,     \* this.approvals: approvals with their time
  executeAfter,  \* executeAfter of a request, Null until it is approved
  running        \* executions that wait for their notification handler

vars == <<now, status, approvedBy, approvals, executeAfter, running>>

Ids == 1..MaxTime      \* creation times
Null == 0
Gone == 0              \* a running request that was removed from the record

Statuses == {"absent", "collecting_approvals", "approved", "executing",
             "completed", "cancelled"}

\* An expired request is never found on record: cleanup() removes what it marks.
TypeOK ==
  /\ now \in Ids
  /\ status \in [Ids -> Statuses]
  /\ approvedBy \in [Ids -> SUBSET Guardians]
  /\ approvals \in [Ids -> SUBSET [guardian : Guardians, at : Ids]]
  /\ executeAfter \in [Ids -> Nat]
  /\ running \in Seq(Ids \cup {Gone})

Init ==
  /\ now = 1
  /\ status = [id \in Ids |-> "absent"]
  /\ approvedBy = [id \in Ids |-> {}]
  /\ approvals = [id \in Ids |-> {}]
  /\ executeAfter = [id \in Ids |-> Null]
  /\ running = <<>>

-----------------------------------------------------------------------------

OnRecord == {id \in Ids : status[id] # "absent"}

\* Executions of the requests ids lose their object: it is no longer on record.
Dropped(ids) ==
  [i \in DOMAIN running |-> IF running[i] \in ids THEN Gone ELSE running[i]]

\* Mutant: the approvals of a replaced request are kept.
InitiateRecoveryKeeps ==
  /\ Cardinality(OnRecord \cup {now}) <= MaxRequests
  /\ status' = [status EXCEPT ![now] = "collecting_approvals"]
  /\ approvedBy' = [approvedBy EXCEPT ![now] = {}]
  /\ executeAfter' = [executeAfter EXCEPT ![now] = Null]
  /\ running' = Dropped({now})
  /\ UNCHANGED <<now, approvals>>

InitiateRecovery ==
  /\ Cardinality(OnRecord \cup {now}) <= MaxRequests
  /\ status' = [status EXCEPT ![now] = "collecting_approvals"]
  /\ approvedBy' = [approvedBy EXCEPT ![now] = {}]
  /\ approvals' = [approvals EXCEPT ![now] = {}]
  /\ executeAfter' = [executeAfter EXCEPT ![now] = Null]
  /\ running' = Dropped({now})
  /\ UNCHANGED now

\* Mutant: the time-lock starts with the approval that met the threshold and
\* is not renewed by a later one.
ThresholdMetOnce(id) ==
  IF Cardinality(approvedBy'[id]) >= Threshold /\ executeAfter[id] = Null
  THEN /\ executeAfter' = [executeAfter EXCEPT ![id] = now + TimeLock]
       /\ status' = [status EXCEPT ![id] = "approved"]
  ELSE UNCHANGED <<executeAfter, status>>

\* With the threshold met, every approval (re)starts the time-lock.
ThresholdMet(id) ==
  IF Cardinality(approvedBy'[id]) >= Threshold
  THEN /\ executeAfter' = [executeAfter EXCEPT ![id] = now + TimeLock]
       /\ status' = [status EXCEPT ![id] = "approved"]
  ELSE UNCHANGED <<executeAfter, status>>

\* Mutant: a cancelled request still takes approvals.
RecordApprovalCancelled(id, g) ==
  /\ status[id] \notin {"absent", "completed"}
  /\ g \notin approvedBy[id]
  /\ approvals' = [approvals EXCEPT ![id] = @ \cup {[guardian |-> g, at |-> now]}]
  /\ approvedBy' = [approvedBy EXCEPT ![id] = @ \cup {g}]
  /\ ThresholdMet(id)
  /\ UNCHANGED <<now, running>>

RecordApproval(id, g) ==
  /\ status[id] \notin {"absent", "cancelled", "completed"}
  /\ g \notin approvedBy[id]
  /\ approvals' = [approvals EXCEPT ![id] = @ \cup {[guardian |-> g, at |-> now]}]
  /\ approvedBy' = [approvedBy EXCEPT ![id] = @ \cup {g}]
  /\ ThresholdMet(id)
  /\ UNCHANGED <<now, running>>

CanExecute(id) ==
  /\ status[id] = "approved"
  /\ executeAfter[id] # Null
  /\ now >= executeAfter[id]

\* executeRecovery() up to the `recovery_started' notification.
ExecuteStart(id) ==
  /\ CanExecute(id)
  /\ status' = [status EXCEPT ![id] = "executing"]
  /\ running' = Append(running, id)
  /\ UNCHANGED <<now, approvedBy, approvals, executeAfter>>

\* The handler has returned: the rest of executeRecovery().
ExecuteFinish ==
  /\ running # <<>>
  /\ LET id == running[Len(running)]
     IN  status' = IF id = Gone THEN status
                   ELSE [status EXCEPT ![id] = "completed"]
  /\ running' = SubSeq(running, 1, Len(running) - 1)
  /\ UNCHANGED <<now, approvedBy, approvals, executeAfter>>

CancelRecovery(id) ==
  /\ status[id] \notin {"absent", "completed", "cancelled"}
  /\ Cancelable
  /\ status' = [status EXCEPT ![id] = "cancelled"]
  /\ UNCHANGED <<now, approvedBy, approvals, executeAfter, running>>

ExpiresAt(id) == id + Expiry

\* The requests cleanup() marks expired and removes; their approvals stay.
Expired ==
  {id \in Ids : /\ status[id] \notin {"absent", "completed", "cancelled"}
                /\ ExpiresAt(id) < now}

Cleanup ==
  /\ status' = [id \in Ids |-> IF id \in Expired THEN "absent" ELSE status[id]]
  /\ running' = Dropped(Expired)
  /\ UNCHANGED <<now, approvedBy, approvals, executeAfter>>

Destroy ==
  /\ status' = [id \in Ids |-> "absent"]
  /\ approvals' = [id \in Ids |-> {}]
  /\ running' = Dropped(Ids)
  /\ UNCHANGED <<now, approvedBy, executeAfter>>

Tick ==
  /\ now < MaxTime
  /\ now' = now + 1
  /\ UNCHANGED <<status, approvedBy, approvals, executeAfter, running>>

Next ==
  \/ InitiateRecovery
  \/ \E id \in Ids, g \in Guardians : RecordApproval(id, g)
  \/ \E id \in Ids : ExecuteStart(id) \/ CancelRecovery(id)
  \/ ExecuteFinish
  \/ Cleanup
  \/ Destroy
  \/ Tick

Spec == Init /\ [][Next]_vars

-----------------------------------------------------------------------------
(* Properties.                                                             *)

\* Each guardian that approved is in the log, once.
LogAgrees(id) ==
  /\ approvedBy[id] = {a.guardian : a \in approvals[id]}
  /\ \A a, b \in approvals[id] : a.guardian = b.guardian => a = b

\* The time-lock runs if and only if the threshold is met, and it ends exactly
\* TimeLock after the latest of the logged approvals.
LockAgrees(id) ==
  /\ executeAfter[id] # Null <=> Cardinality(approvedBy[id]) >= Threshold
  /\ executeAfter[id] # Null =>
       /\ \A a \in approvals[id] : a.at + TimeLock <= executeAfter[id]
       /\ \E a \in approvals[id] : a.at + TimeLock = executeAfter[id]

StatusAgrees(id) ==
  status[id] \in {"approved", "executing", "completed"} => executeAfter[id] # Null

\* What a request on record says of itself (its approvers, its status, its
\* time-lock) agrees with the log of approvals, which is kept apart and is
\* neither cleaned up with the request nor replaced in the same place.
ApprovalsAgree ==
  \A id \in OnRecord : LogAgrees(id) /\ LockAgrees(id) /\ StatusAgrees(id)

\* "Time-lock prevents immediate theft even if guardians collude": when an
\* execution starts, a threshold of distinct guardians is in the log and the
\* youngest of their approvals is at least TimeLock old.
Starts(id) == status[id] # "executing" /\ status'[id] = "executing"
LockCoversEveryApproval ==
  [][\A id \in Ids : Starts(id) =>
       /\ Cardinality({a.guardian : a \in approvals[id]}) >= Threshold
       /\ \A a \in approvals[id] : now >= a.at + TimeLock]_vars

\* A cancelled request takes no further part: it is neither approved nor
\* executed again.  Two things may still happen to it: a request initiated at
\* the very same time replaces it, and an execution that had started before
\* the cancellation runs to its end.
IsRunning(id) == \E i \in 1..Len(running) : running[i] = id
CancelHolds ==
  [][\A id \in Ids : status[id] = "cancelled" =>
       \/ status'[id] \in {"cancelled", "absent"}
       \/ status'[id] = "collecting_approvals" /\ id = now
       \/ status'[id] = "completed" /\ IsRunning(id)]_vars

\* "expired recovery request -> rejected" (docs/tasks.md): past its expiry a
\* request is neither approved nor executed.
ExpiredIsRejected ==
  [][\A id \in Ids :
       Starts(id) \/ ~(approvals'[id] \subseteq approvals[id]) =>
         now <= ExpiresAt(id)]_vars
=============================================================================
