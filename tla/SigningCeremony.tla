--------------------------- MODULE SigningCeremony ---------------------------
(***************************************************************************)
(* A signing ceremony of two parties with the shares of KeyGeneration:     *)
(* SigningCeremony (apps/mpc/src/signing/index.ts), and the recovery of    *)
(* the signer from an Ethereum signature (signing/ethereum/index.ts).      *)
(*                                                                         *)
(* Each party draws a nonce, commits to it and contributes it with its     *)
(* weighted share.  The methods take nonces, commitments and contributions *)
(* in any order and as often as they are called; the point that combines   *)
(* the commitments is kept once it is computed.                            *)
(*                                                                         *)
(* What the curve decides is a parameter: the x-coordinate and the parity  *)
(* of the y-coordinate of the point with a given logarithm.  A point and   *)
(* its negative agree in the first and differ in the second.               *)
(***************************************************************************)
EXTENDS KeyGeneration

CONSTANTS
  Nonces,   \* scalars that generateNonce() may draw
  Hashes,   \* messageHash, as a scalar
  XCoord,   \* x-coordinate of a point, modulo Prime
  YOdd      \* y & 1 of a point

ASSUME NoncesAssumption == Nonces \subseteq Scalars \ {0}
ASSUME HashesAssumption == Hashes \subseteq Scalars \ {0}
ASSUME CurveAssumption ==
  /\ XCoord \in [Scalars -> Scalars] /\ YOdd \in [Scalars -> {0, 1}]
  /\ \A k, l \in Scalars : XCoord[k] = XCoord[l] <=> l \in {k, Mod(-k)}
  /\ \A k \in Scalars \ {0} : YOdd[Mod(-k)] # YOdd[k]
  /\ XCoord[0] = 0

VARIABLES
  ceremony,       \* [parties, hash]; None when there is none
  nonce,          \* the nonce a party has drawn last
  commitments,    \* nonceCommitments
  combinedR,      \* the cached point
  contributions,  \* contributions
  signature       \* what produceSignature() returned last, with its inputs

ceremonyVars ==
  <<ceremony, nonce, commitments, combinedR, contributions, signature>>
ceremonySpecVars == <<keyVars, ceremonyVars>>

Nothing == [p \in Parties |-> None]

Other(p) == CHOOSE q \in ceremony.parties : q # p

CeremonyInit ==
  /\ KeyInit
  /\ ceremony = None /\ signature = None /\ combinedR = None
  /\ nonce = Nothing /\ commitments = Nothing /\ contributions = Nothing

-----------------------------------------------------------------------------
\* The constructor, which wants exactly two parties.
Begin(parties, hash) ==
  /\ result # None
  /\ ceremony = None
  /\ Cardinality(parties) = 2
  /\ ceremony' = [parties |-> parties, hash |-> hash]
  /\ signature' = None
  /\ UNCHANGED <<nonce, commitments, combinedR, contributions>>

\* generateNonce(): a party may start over.
GenerateNonce(p, k) ==
  /\ nonce' = [nonce EXCEPT ![p] = k]
  /\ UNCHANGED <<ceremony, commitments, combinedR, contributions, signature>>

\* submitNonceCommitment(): the logarithm of k * G is k.
SubmitNonceCommitment(p) ==
  /\ nonce[p] # None
  /\ commitments' = [commitments EXCEPT ![p] = nonce[p]]
  /\ UNCHANGED <<ceremony, nonce, combinedR, contributions, signature>>

NonceRoundComplete == \A p \in ceremony.parties : commitments[p] # None

CommitmentSum == SumMod(commitments, ceremony.parties)

\* computeCombinedR(): computed again whenever it is called.
ComputeCombinedR ==
  /\ NonceRoundComplete
  /\ combinedR' = CommitmentSum
  /\ UNCHANGED <<ceremony, nonce, commitments, contributions, signature>>

\* Mutant: the weight of the other party.
WeightedShareSwapped(p) == Mod(Lagrange(Other(p), p) * result.shares[p])

WeightedShare(p) == Mod(Lagrange(p, Other(p)) * result.shares[p])

\* prepareContribution() and submitContribution().
SubmitContribution(p) ==
  /\ nonce[p] # None
  /\ contributions' = [contributions EXCEPT ![p] =
       [nonce |-> nonce[p], weightedShare |-> WeightedShare(p)]]
  /\ UNCHANGED <<ceremony, nonce, commitments, combinedR, signature>>

\* Low-S: the smaller of s and its negative.
Normalized(s) == IF s > Prime \div 2 THEN Prime - s ELSE s

ContributedNonce ==
  SumMod([p \in ceremony.parties |-> contributions[p].nonce], ceremony.parties)
ReconstructedKey ==
  SumMod([p \in ceremony.parties |-> contributions[p].weightedShare],
         ceremony.parties)

\* The point that a signature uses: the cached one, if there is one.
PointUsed == IF combinedR # None THEN combinedR ELSE CommitmentSum

\* produceSignature(), after which the ceremony is dropped.  It throws when a
\* contribution or a needed commitment is missing and when the nonces cancel.
ProduceSignature ==
  /\ \A p \in ceremony.parties : contributions[p] # None
  /\ combinedR # None \/ NonceRoundComplete
  /\ Invertible(ContributedNonce)
  /\ LET r == Mod(XCoord[PointUsed])
         s == Mod(ModInverse(ContributedNonce)
                    * (ceremony.hash + Mod(ReconstructedKey * r)))
     IN  signature' =
           [r |-> r, s |-> Normalized(s), recoveryId |-> YOdd[PointUsed],
            hash |-> ceremony.hash, parties |-> ceremony.parties,
            nonce |-> ContributedNonce, point |-> PointUsed]
  /\ ceremony' = None /\ combinedR' = None
  /\ nonce' = Nothing /\ commitments' = Nothing /\ contributions' = Nothing

CeremonyStep ==
  \/ \E parties \in SUBSET Parties, hash \in Hashes : Begin(parties, hash)
  \/ /\ ceremony # None
     /\ \/ \E p \in ceremony.parties :
             \/ \E k \in Nonces : GenerateNonce(p, k)
             \/ SubmitNonceCommitment(p)
             \/ SubmitContribution(p)
        \/ ComputeCombinedR
        \/ ProduceSignature

CeremonyNext ==
  \/ KeyNext /\ UNCHANGED ceremonyVars
  \/ CeremonyStep /\ UNCHANGED keyVars

CeremonySpec == CeremonyInit /\ [][CeremonyNext]_ceremonySpecVars
-----------------------------------------------------------------------------
\* verify(): ECDSA.  A component that is 0 makes the constructor of Signature
\* throw, which counts as false.
Verify(publicKey, hash, sig) ==
  /\ sig.r # 0 /\ sig.s # 0
  /\ LET w == ModInverse(sig.s)
         R == Mod(hash * w + sig.r * w * publicKey)
     IN  R # 0 /\ XCoord[R] = sig.r

\* recoverEthereumAddress(): the public key r^-1 * (s * R - hash), where R is
\* the point with the x-coordinate r and the parity that v carries.
RecoverSigner(hash, sig) ==
  LET R == CHOOSE k \in Scalars : XCoord[k] = sig.r /\ YOdd[k] = sig.recoveryId
  IN  Mod(ModInverse(sig.r) * (sig.s * R - hash))

SignersWhole == \A p \in signature.parties : Whole(p)

\* A signature verifies for the public key of the key generation exactly when
\* the contributed nonces add up, except for the sign, to the nonce behind the
\* point that was combined: whichever two parties sign, and however often they
\* drew, committed, combined and contributed.
SignatureVerifies ==
  signature # None /\ SignersWhole =>
    (Verify(result.publicKey, signature.hash, signature)
       <=> /\ signature.r # 0 /\ signature.s # 0
           /\ signature.nonce \in {signature.point, Mod(-signature.point)})

\* The recovery identifier leads from a valid signature back to the key that
\* signed (recoverEthereumAddress(): "given (r, s, v) and message hash m, find
\* public key Q").
RecoveryIdRecovers ==
  signature # None /\ SignersWhole
    /\ Verify(result.publicKey, signature.hash, signature)
    => RecoverSigner(signature.hash, signature) = result.publicKey
=============================================================================
