--------------------------- MODULE SessionManager ---------------------------
(***************************************************************************)
(* The SessionManager of one party (apps/mpc/src/transport/session.ts):    *)
(* the sessions of its DKG and signing ceremonies and their timers.        *)
(*                                                                         *)
(* Time is the two facts the code reads off it: `idle' holds when a        *)
(* session saw no activity for its timeout (isTimedOut()), and a pending   *)
(* timer, which every activity sets anew for that same time, fires only    *)
(* when the session is idle.  The operators are actions on the entry s of  *)
(* `sessions', so that a module with several parties can share them.       *)
(***************************************************************************)
EXTENDS Naturals

\* deriveState(): the state a message puts its session in; other types of
\* message leave it as it is.
StateOf ==
  [DKG_ROUND_1 |-> "dkg_r1_sent", DKG_ROUND_2 |-> "dkg_r2_sent",
   DKG_ROUND_3 |-> "dkg_r3_sent", DKG_COMPLETE |-> "dkg_complete",
   DKG_ERROR |-> "error",
   SIGN_ROUND_1 |-> "sign_r1_sent", SIGN_ROUND_2 |-> "sign_r2_sent",
   SIGN_COMPLETE |-> "sign_complete", SIGN_ERROR |-> "error",
   ABORT |-> "aborted"]

MessageTypes == DOMAIN StateOf \cup {"HEARTBEAT"}

States == {StateOf[t] : t \in DOMAIN StateOf} \cup {"created", "timed_out"}

\* getActiveSessions() and cleanup() agree on what is over.
Terminal == {"dkg_complete", "sign_complete", "aborted", "timed_out", "error"}

\* A session that is not in the map.
Absent == [state |-> "absent", messageCount |-> 0, idle |-> FALSE, timer |-> FALSE]

Sessions ==
  [state : States, messageCount : Nat, idle : BOOLEAN, timer : BOOLEAN]

OnRecord(s) == s # Absent
Live(s) == OnRecord(s) /\ s.state \notin Terminal

-----------------------------------------------------------------------------

Created == [state |-> "created", messageCount |-> 0, idle |-> FALSE, timer |-> TRUE]

\* Mutant: the timer is renewed only for a session that was under way.
RecordedNoRevival(s, type) ==
  IF ~OnRecord(s) THEN s
  ELSE [state |-> IF type \in DOMAIN StateOf THEN StateOf[type] ELSE s.state,
        messageCount |-> s.messageCount + 1,
        idle |-> FALSE,
        timer |-> s.state \notin Terminal]

\* recordMessage(): any message renews the time and moves the session to the
\* state of its type, whatever state it was in.
Recorded(s, type) ==
  IF ~OnRecord(s) THEN s
  ELSE [state |-> IF type \in DOMAIN StateOf THEN StateOf[type] ELSE s.state,
        messageCount |-> s.messageCount + 1,
        idle |-> FALSE,
        timer |-> TRUE]

\* abort(): transition('aborted'), and the timer is cleared.
Aborted(s) ==
  IF ~OnRecord(s) THEN s
  ELSE [s EXCEPT !.state = "aborted", !.idle = FALSE, !.timer = FALSE]

\* The callback of the timer.
TimedOut(s) ==
  [s EXCEPT !.timer = FALSE,
            !.state = IF @ \in {"dkg_complete", "sign_complete", "aborted"} THEN @
                      ELSE "timed_out"]

\* The sessions cleanup() removes.
Removable(s) == OnRecord(s) /\ (s.state \in Terminal \/ s.idle)
=============================================================================
