---------------------------- MODULE ShareRecovery ---------------------------
(* Recovery of a wallet's shares from an encrypted bundle: the phrase the     *)
(* user keeps (apps/mpc/src/recovery: mnemonic, key derivation, bundle,       *)
(* orchestrator) and the bundle the developer's server keeps (recovery/       *)
(* server).  Cryptography is its promise: a bundle opens under the phrase,    *)
(* the salt and the iterations it was made with, a signature matches only the *)
(* wallet and the bundle it was made for.                                     *)
EXTENDS Integers, FiniteSets

CONSTANTS
    Wallets,
    Parties,             \* the parties whose shares a bundle holds
    Salts,               \* random salts
    Phrases, ZeroPhrase, \* phrases, and the one of an entropy of zeroes
    MaxBundleAge,        \* config.maxBundleAgeMs
    MaxTime              \* bound of the model

VARIABLES
    phrase,      \* wallet -> the phrase shown to its user, NoPhrase before
    bundle,      \* wallet -> the stored bundle, NoBundle before
    recovered,   \* the last recovery since a backup: its input, what it returned
    delivered,   \* wallet -> time of the delivery on record, NoDelivery if none
    handedOut,   \* history: wallet -> time of its last delivery
    answer,      \* the last answer since a delivery: wallet, code, time
    now

phraseVars == <<phrase, bundle, recovered>>
serverVars == <<delivered, handedOut, answer>>
recoveryVars == <<phraseVars, serverVars, now>>

NoPhrase == "none"
NoBundle == [salt |-> "none"]
NoDelivery == -1
NoShares == << >>

-----------------------------------------------------------------------------
\* The phrase.

Init ==
    /\ phrase = [w \in Wallets |-> NoPhrase]
    /\ bundle = [w \in Wallets |-> NoBundle]
    /\ recovered = << >>
    /\ delivered = [w \in Wallets |-> NoDelivery]
    /\ handedOut = [w \in Wallets |-> NoDelivery]
    /\ answer = << >>
    /\ now = 0

\* createMnemonic passes an array of zeroes: generateMnemonic takes it for the
\* entropy and fills nothing.
CreateMnemonic(w) ==
    /\ phrase[w] = NoPhrase
    /\ phrase' = [phrase EXCEPT ![w] = ZeroPhrase]
    /\ UNCHANGED <<bundle, recovered, serverVars, now>>

\* generateMnemonic without an entropy draws one.
GenerateMnemonic(w) ==
    /\ phrase[w] = NoPhrase
    /\ \E p \in Phrases \ ({ZeroPhrase} \cup {phrase[x] : x \in Wallets}) :
          phrase' = [phrase EXCEPT ![w] = p]
    /\ UNCHANGED <<bundle, recovered, serverVars, now>>

\* deriveRecoveryKey: the key of some words and a salt, with its salt.
DeriveRecoveryKey(words, salt) == [words |-> words, salt |-> salt]

\* createRecoveryBundle: every share under the key, and the salt beside them.
CreateRecoveryBundle(w, recoveryKey) ==
    [salt |-> recoveryKey.salt,
     shares |-> [p \in Parties |-> [under |-> recoveryKey, share |-> <<w, p>>]]]

\* deriveKey draws a salt; createBackup makes the bundle, which is stored.
CreateBackup(w) ==
    /\ phrase[w] # NoPhrase
    /\ \E salt \in Salts \ {bundle[x].salt : x \in Wallets} :
          bundle' = [bundle EXCEPT ![w] =
              CreateRecoveryBundle(w, DeriveRecoveryKey(phrase[w], salt))]
    /\ recovered' = << >>
    /\ UNCHANGED <<phrase, serverVars, now>>

\* deriveKeyFromStoredParams and recoverKey: the words, the stored parameters.
RecoverKey(words, salt) == DeriveRecoveryKey(words, salt)

\* decryptRecoveryBundle: every share, or a failure at the first that does not
\* open.
DecryptRecoveryBundle(b, recoveryKey) ==
    IF \A p \in Parties : b.shares[p].under = recoveryKey
    THEN [p \in Parties |-> b.shares[p].share]
    ELSE NoShares

FullRecovery(w, words, salt) ==
    /\ bundle[w] # NoBundle
    /\ recovered' = <<w, words, salt,
           DecryptRecoveryBundle(bundle[w], RecoverKey(words, salt))>>
    /\ UNCHANGED <<phrase, bundle, serverVars, now>>

-----------------------------------------------------------------------------
\* The developer's server.

\* Mutant of PrepareBundle: a delivery on record is left as it is.
PrepareBundleOnce(w) ==
    /\ bundle[w] # NoBundle
    /\ delivered' = [delivered EXCEPT ![w] = IF @ = NoDelivery THEN now ELSE @]
    /\ handedOut' = [handedOut EXCEPT ![w] = now] /\ answer' = << >>
    /\ UNCHANGED <<phraseVars, now>>

\* prepareBundleForDelivery signs the bundle and records the delivery.
PrepareBundle(w) ==
    /\ bundle[w] # NoBundle
    /\ delivered' = [delivered EXCEPT ![w] = now]
    /\ handedOut' = [handedOut EXCEPT ![w] = now] /\ answer' = << >>
    /\ UNCHANGED <<phraseVars, now>>

TooOld(w) == delivered[w] # NoDelivery /\ now - delivered[w] > MaxBundleAge

\* processRecoveryRequest, in the order of its checks.  The signature is missing,
\* right or wrong, the bundle whole or not.
ProcessRequest(w, signature, whole) ==
    /\ answer' = <<w,
           CASE signature = "wrong" -> "INVALID_SIGNATURE"
             [] signature # "wrong" /\ TooOld(w) -> "BUNDLE_EXPIRED"
             [] OTHER -> IF whole THEN "success" ELSE "INVALID_BUNDLE", now>>
    /\ UNCHANGED <<phraseVars, delivered, handedOut, now>>

\* cleanup forgets the deliveries that are too old.
Cleanup ==
    /\ delivered' = [w \in Wallets |-> IF TooOld(w) THEN NoDelivery ELSE delivered[w]]
    /\ UNCHANGED <<phraseVars, handedOut, answer, now>>

Destroy ==
    /\ delivered' = [w \in Wallets |-> NoDelivery]
    /\ UNCHANGED <<phraseVars, handedOut, answer, now>>

Tick ==
    /\ now < MaxTime
    /\ now' = now + 1
    /\ UNCHANGED <<phraseVars, serverVars>>

Next ==
    \/ \E w \in Wallets :
          \/ CreateMnemonic(w) \/ GenerateMnemonic(w) \/ CreateBackup(w)
          \/ \E words \in Phrases, salt \in Salts : FullRecovery(w, words, salt)
          \/ PrepareBundle(w)
          \/ \E signature \in {"none", "right", "wrong"}, whole \in BOOLEAN :
                ProcessRequest(w, signature, whole)
    \/ Cleanup
    \/ Destroy
    \/ Tick

Spec == Init /\ [][Next]_recoveryVars

-----------------------------------------------------------------------------
(* Properties *)

\* The phrase that a user was shown opens the bundle of that wallet with the
\* parameters stored beside it, and other words or the parameters of another
\* bundle open nothing.
BackupRecovers ==
    recovered # << >> =>
        LET w == recovered[1] IN
        bundle[w].salt = recovered[3] =>
            recovered[4] = IF recovered[2] = phrase[w]
                           THEN [p \in Parties |-> <<w, p>>] ELSE NoShares

\* A developer who asks within the maximal age of the latest delivery is not
\* told that the bundle expired, whatever was delivered, forgotten or refused
\* before.
FreshBundleServed ==
    \A w \in Wallets :
        answer # << >> /\ answer[1] = w /\ answer[2] = "BUNDLE_EXPIRED"
            => answer[3] - handedOut[w] > MaxBundleAge

=============================================================================
