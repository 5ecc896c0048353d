------------------------- MODULE SigningCoordinator -------------------------
(***************************************************************************)
(* The SigningCoordinator (apps/mpc/src/signing/coordinator/index.ts) with *)
(* its PartySelector: ceremonies, the failure of a party and the fallback  *)
(* to another one, inactivity timeouts and clean-up, on a discrete clock.  *)
(*                                                                         *)
(* Selecting the parties and starting the ceremony is one step, as in      *)
(* MpcSigningService.sign().  `healthy' is what ConnectionHealth answers   *)
(* to isHealthy(); it is independent of the selector's health entries, as  *)
(* in the code.  Nothing in the coordinator looks at the status of a       *)
(* ceremony before it changes it, nor at whether the party reported as     *)
(* failed is one of the ceremony's: completion, failure and the report of  *)
(* any party may come in any order, late and repeated ones included.       *)
(***************************************************************************)
EXTENDS PartySelector

CONSTANTS
  Wallets,       \* wallet identifiers
  Timeout,       \* config.defaultTimeoutMs
  MaxAttempts,   \* config.maxAttempts + config.maxFallbackAttempts
  MaxTime,       \* bound of the clock
  MaxCeremonies, \* bound of the ceremonies on record at a time
  MaxDown        \* bound of the peers that are not connected at a time

ASSUME CoordinatorAssumption ==
  {Timeout, MaxAttempts, MaxTime, MaxCeremonies, MaxDown} \subseteq Nat

VARIABLES
  now,         \* Date.now()
  healthy,     \* the peers in state `connected'
  ceremonies,  \* activeCeremonies: a function on the identifiers in use
  unpaired     \* history: ceremonies that began with one of their own parties as
               \* the fallback, or had a party reported that was not theirs

coordinatorVars == <<nodes, now, healthy, ceremonies, unpaired>>

\* MpcSigningService registers all peers as connected and leaves the selector
\* empty.
CoordinatorInit ==
  /\ nodes = <<>>
  /\ now = 0
  /\ healthy = Parties
  /\ ceremonies = <<>>
  /\ unpaired = {}

-----------------------------------------------------------------------------

PartiesOf(id) == ToSet(ceremonies[id].selectedParties)

Forget(ids) == ceremonies' = [id \in DOMAIN ceremonies \ ids |-> ceremonies[id]]

SetStatus(id, s) == ceremonies' = [ceremonies EXCEPT ![id].status = s]

\* Map.set(): a ceremony of the same wallet and time is replaced.
Start(w, sel) ==
  LET new == [status |-> "in_progress", selectedParties |-> sel.selected,
              fallbackParty |-> sel.fallback, lastActivity |-> now, attempts |-> 1]
      ids == DOMAIN ceremonies \cup {<<w, now>>}
  IN  /\ Cardinality(ids) <= MaxCeremonies
      /\ Len(sel.selected) = 2
      /\ ceremonies' = [id \in ids |-> IF id = <<w, now>> THEN new ELSE ceremonies[id]]
      /\ unpaired' = IF sel.fallback \in ToSet(sel.selected)
                     THEN unpaired \cup {<<w, now>>} ELSE unpaired \ {<<w, now>>}

StartCeremony(w) ==
  /\ Start(w, Select(2))
  /\ UNCHANGED <<nodes, now, healthy>>

StartAsCoordinator(w, c) ==
  /\ Start(w, SelectWithCoordinator(c))
  /\ UNCHANGED <<nodes, now, healthy>>

TouchCeremony(id) ==
  /\ ceremonies' = [ceremonies EXCEPT ![id].lastActivity = now]
  /\ UNCHANGED <<nodes, now, healthy, unpaired>>

CanFallBack(c) ==
  /\ c.attempts < MaxAttempts
  /\ c.fallbackParty # NoParty
  /\ c.fallbackParty \in healthy

\* Mutant: the failed party is not remembered as the next fallback.
ReplacedKeepsFallback(c, failed) ==
  [c EXCEPT !.status = "fallback",
            !.selectedParties = Append(Without(@, failed), c.fallbackParty),
            !.lastActivity = now,
            !.attempts = @ + 1]

\* The fallback party takes the place of the failed one and vice versa; when the
\* party reported is not one of the ceremony's, the fallback joins all the same.
Replaced(c, failed) ==
  [c EXCEPT !.status = "fallback",
            !.selectedParties = Append(Without(@, failed), c.fallbackParty),
            !.fallbackParty = failed,
            !.lastActivity = now,
            !.attempts = @ + 1]

\* attemptFallback() gives up: out of attempts, no fallback, or a sick one.
FallbackRefused(id) ==
  /\ ~CanFallBack(ceremonies[id])
  /\ SetStatus(id, "failed")
  /\ UNCHANGED <<nodes, now, healthy, unpaired>>

FallbackTaken(id, failed) ==
  /\ CanFallBack(ceremonies[id])
  /\ ceremonies' = [ceremonies EXCEPT ![id] = Replaced(@, failed)]
  /\ unpaired' = IF failed \in PartiesOf(id) THEN unpaired ELSE unpaired \cup {id}
  /\ UNCHANGED <<nodes, now, healthy>>

CompleteCeremony(id) ==
  /\ SetStatus(id, "completed")
  /\ UNCHANGED <<nodes, now, healthy, unpaired>>

FailCeremony(id) ==
  /\ SetStatus(id, "failed")
  /\ UNCHANGED <<nodes, now, healthy, unpaired>>

IsTimedOut(id) == now - ceremonies[id].lastActivity > Timeout

CleanupTimeouts ==
  /\ Forget({id \in DOMAIN ceremonies : IsTimedOut(id)})
  /\ UNCHANGED <<nodes, now, healthy, unpaired>>

CoordinatorCleanup ==
  /\ Forget({id \in DOMAIN ceremonies : ceremonies[id].status \in {"completed", "failed"}})
  /\ UNCHANGED <<nodes, now, healthy, unpaired>>

CoordinatorDestroy ==
  /\ ceremonies # <<>>
  /\ ceremonies' = <<>>
  /\ UNCHANGED <<nodes, now, healthy, unpaired>>

HealthEntryChanges(p) ==
  /\ RemoveNode(p) \/ \E h \in Healths : UpdateHealth(p, h)
  /\ UNCHANGED <<now, healthy, ceremonies, unpaired>>

\* A peer connects, or is found unhealthy or disconnected.
PeerChanges(p) ==
  /\ healthy' = IF p \in healthy THEN healthy \ {p} ELSE healthy \cup {p}
  /\ Cardinality(Parties \ healthy') <= MaxDown
  /\ UNCHANGED <<nodes, now, ceremonies, unpaired>>

Tick ==
  /\ now < MaxTime
  /\ now' = now + 1
  /\ UNCHANGED <<nodes, healthy, ceremonies, unpaired>>

\* Any party may be reported as failed.
CeremonyStep(id) ==
  \/ TouchCeremony(id)
  \/ FallbackRefused(id)
  \/ \E p \in Parties : FallbackTaken(id, p)
  \/ CompleteCeremony(id)
  \/ FailCeremony(id)

CoordinatorNext ==
  \/ \E w \in Wallets : StartCeremony(w)
  \/ \E w \in Wallets, c \in Parties : StartAsCoordinator(w, c)
  \/ \E id \in DOMAIN ceremonies : CeremonyStep(id)
  \/ CleanupTimeouts
  \/ CoordinatorCleanup
  \/ CoordinatorDestroy
  \/ \E p \in Parties : HealthEntryChanges(p) \/ PeerChanges(p)
  \/ Tick

CoordinatorSpec == CoordinatorInit /\ [][CoordinatorNext]_coordinatorVars

-----------------------------------------------------------------------------
(* Properties.                                                             *)

\* Two distinct parties, and a fallback (or none) besides them.
Paired(c) ==
  /\ Cardinality(ToSet(c.selectedParties)) = 2 /\ Len(c.selectedParties) = 2
  /\ c.fallbackParty \notin ToSet(c.selectedParties)

\* "Select 2-of-3 available parties ... If a party fails, fallback to 3rd party":
\* through any number of fallbacks, renewals, late completions and restarts under
\* the same identifier, a ceremony is a pair of distinct parties with another
\* behind them, unless it began with its coordinator for a fallback or a report
\* named a party that was not its own.  Such a ceremony may have three parties, or
\* one of them twice; but no ceremony exceeds its attempts by more than one
\* party, nor the configured attempts.
FallbackKept ==
  \A id \in DOMAIN ceremonies :
    LET c == ceremonies[id]
    IN  /\ id \notin unpaired => Paired(c)
        /\ Len(c.selectedParties) <= c.attempts + 1
        /\ c.attempts > 1 => c.attempts <= MaxAttempts
=============================================================================
