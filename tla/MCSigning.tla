------------------------------ MODULE MCSigning ------------------------------
(***************************************************************************)
(* Small instances of the ConcurrencyManager, with callers that release    *)
(* the locks they hold, and of MpcSigningService.sign() on top of it: two  *)
(* wallets and four requests, so that requests wait in an order and a      *)
(* queue fills while the other wallet signs.  A behaviour is one of the    *)
(* manager under any calls, or one of the service.                         *)
(***************************************************************************)
EXTENDS SigningService

VARIABLE part

SigningInit == part \in {"manager", "service"} /\ ServiceInit

SigningNext ==
  /\ UNCHANGED part
  /\ \/ /\ part = "manager" /\ Next
        /\ UNCHANGED <<callVars, rejections, shares, rateCount>>
     \/ part = "service" /\ ServiceNext

\* The fairness of FairSpec and of FairServiceSpec, where they run.
SigningFairness ==
  /\ \A w \in Wallets :
       WF_vars(part = "manager" /\ locked[w] /\ (Complete(w) \/ Fail(w)))
  /\ WF_serviceVars(part = "service" /\ SignRejected)

SigningSpec == SigningInit /\ [][SigningNext]_<<serviceVars, part>> /\ SigningFairness

\* If the holders release their locks, every request that the manager was given
\* is answered.
ManagerAnswers == part = "manager" => EveryRequestAnswered

\* No error path of sign() leaves the lock of a wallet behind.
ServiceLeavesNoLock == part = "service" => NoLockLeftBehind

\* Every rejected promise reaches the call of sign() that awaits it.
ServiceIsTold == part = "service" => RejectionsDelivered
=============================================================================
