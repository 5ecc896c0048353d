-------------------------------- MODULE Node --------------------------------
(***************************************************************************)
(* What a node does on its own: key generation and signing, social         *)
(* recovery, the storage of shares, their recovery from a backup, and the  *)
(* checks around a request to sign.  These share no state.                 *)
(***************************************************************************)
EXTENDS SocialRecovery, SigningCeremony, ShareCustody

CONSTANTS Wallets, Salts, Phrases, ZeroPhrase, MaxBundleAge, LastDay,
          RetryKeys, MaxCalls, RateLimitMax, RateLimitWindow, IdempotencyWindow,
          MaxLogged, MaxClock

ASSUME RequestsAssumption == MaxCalls \in Nat /\ IdempotencyWindow \in Nat

VARIABLES phrase, bundle, recovered, delivered, handedOut, answer, today,
          clock, rateLimits, cache, call, signLog, outcomes

backupVars == <<phrase, bundle, recovered, delivered, handedOut, answer, today>>
requestVars == <<clock, rateLimits, cache, call, signLog, outcomes>>

OneWallet == {"wallet"}
Backup == INSTANCE ShareRecovery WITH MaxTime <- LastDay, now <- today
Requests == INSTANCE SigningRequests WITH Wallets <- OneWallet,
    Keys <- RetryKeys, entries <- signLog, history <- outcomes

-----------------------------------------------------------------------------
(* What ShareRecovery states of deliveries and backups, and                *)
(* SigningRequests of calls that are repeated.                             *)

\* A developer who asks within the maximal age of the latest delivery is not
\* told that the bundle expired.
FreshBundleServed == Backup!FreshBundleServed

\* The words of a backup open the bundle of its wallet, and others nothing.
BackupRecovers == Backup!BackupRecovers

\* Work whose result was stored is not done again while the entry that holds it
\* is young enough.
RetryAnswered == Requests!RetryAnswered
=============================================================================
