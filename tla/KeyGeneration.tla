---------------------------- MODULE KeyGeneration ----------------------------
(***************************************************************************)
(* Distributed key generation, 2 of 3: DkgCoordinator (apps/mpc/src/tss/   *)
(* dkg/index.ts) and the exchange of the messages of its second round.     *)
(*                                                                         *)
(* A party has a polynomial of degree 1 and sends every other party its    *)
(* value there, encrypted for the key that the other made in the first     *)
(* round.  No method looks at the round it is called in, and the caller    *)
(* decides which messages it hands over, so methods may be called in any   *)
(* order and messages may be withheld (as test/dkg/dkg.protocol.spec.ts    *)
(* does), changed on their way, or left over from an earlier first round.  *)
(* A message of the last two kinds decrypts to some scalar.                *)
(*                                                                         *)
(* Messages of rounds one and three are kept but never read again, and     *)
(* processRound1() and processRound3() change nothing else.                *)
(***************************************************************************)
EXTENDS Integers, FiniteSets, Functions

CONSTANTS
  Prime,        \* CURVE_ORDER
  Parties,      \* session.parties
  Polynomials,  \* coefficients <<a0, a1>> that a party may draw
  Noise,        \* scalars to which a garbled message may decrypt
  MaxStarts,    \* bound of the calls of startRound1() per coordinator
  None,         \* null
  Garbled       \* a ciphertext that is not for this key

Scalars == 0..(Prime - 1)

ASSUME PrimeAssumption ==
  Prime \in Nat /\ Prime > 3 /\ \A d \in 2..(Prime - 1) : Prime % d # 0
ASSUME PartiesAssumption == Parties \subseteq 1..(Prime - 1) /\ Parties # {}
ASSUME PolynomialsAssumption ==
  Polynomials \subseteq (Scalars \ {0}) \X (Scalars \ {0})
ASSUME NoiseAssumption == Noise \subseteq Scalars
ASSUME NullAssumption == None \notin Scalars /\ Garbled \notin Scalars
ASSUME StartsAssumption == MaxStarts \in Nat

VARIABLES
  round,    \* session.round
  states,   \* this.states: one PartyState per party, none before round one
  mail,     \* messages of round two that the caller holds
  starts,   \* calls of startRound1() (bound)
  result    \* what finalize() returned; None before

keyVars == <<round, states, mail, starts, result>>

-----------------------------------------------------------------------------
(* The arithmetic of threshold keys, as this file and                      *)
(* apps/mpc/src/signing/index.ts compute it.  A point of the curve is      *)
(* represented by its discrete logarithm, so that the sum of two points is *)
(* the sum of two scalars and k * G is k.                                  *)

\* mod(): the operator % of TLA+ never gives a negative remainder.
Mod(a) == a % Prime

\* The loop of modInverse(): the last remainder that is not 0, and the
\* coefficient that goes with it.
Euclid(a) ==
  LET \* x is <<r, newR, t, newT>>.
      loop[x \in Nat \X Nat \X Int \X Int] ==
        IF x[2] = 0 THEN [gcd |-> x[1], t |-> x[3]]
        ELSE loop[<<x[2], x[1] % x[2], x[4], x[3] - (x[1] \div x[2]) * x[4]>>]
  IN  loop[<<Prime, Mod(a), 0, 1>>]

\* modInverse() throws 'Not invertible' otherwise.
Invertible(a) == Euclid(a).gcd = 1

ModInverse(a) ==
  LET t == Euclid(a).t IN IF t < 0 THEN t + Prime ELSE t

\* lagrangeCoefficient(): the weight of the share of party i next to party j.
Lagrange(i, j) == Mod(-j * ModInverse(Mod(i - j)))

-----------------------------------------------------------------------------
\* The polynomial at the party's number.
ShareFor(polynomial, p) == Mod(polynomial[1] + Mod(polynomial[2] * p))

NoStates == [p \in {} |-> None]

KeyInit ==
  /\ round = 1
  /\ states = NoStates
  /\ mail = {}
  /\ starts = 0
  /\ result = None

-----------------------------------------------------------------------------
\* startRound1(): new polynomials and encryption keys.  What was encrypted for
\* the keys before cannot be read any more.
StartRound1 ==
  /\ result = None
  /\ starts < MaxStarts
  /\ round' = 1
  /\ \E polynomial \in [Parties -> Polynomials] :
       states' = [p \in Parties |->
         [polynomial |-> polynomial[p],
          receivedShares |-> [q \in Parties |-> None],
          secretShare |-> None,
          publicKey |-> None,
          counted |-> {}]]
  /\ mail' = {[m EXCEPT !.share = Garbled] : m \in mail}
  /\ starts' = starts + 1
  /\ UNCHANGED result

\* startRound2(): the messages of the latest call are the ones exchanged.
StartRound2 ==
  /\ result = None
  /\ round' = 2
  /\ mail' = UNION {{[from |-> p, to |-> q,
                      share |-> ShareFor(states[p].polynomial, q)] :
                        q \in Parties \ {p}} : p \in DOMAIN states}
  /\ UNCHANGED <<states, starts, result>>

\* Somebody on the way changes a ciphertext; one of a round (bound).
Tamper(m) ==
  /\ \A n \in mail : n.share # Garbled
  /\ mail' = (mail \ {m}) \cup {[m EXCEPT !.share = Garbled]}
  /\ UNCHANGED <<round, states, starts, result>>

\* Mutant: no check against the commitments.
VerifiedNever(m, share) == share # 0

\* The check against the commitments of the sender's current state.  There is
\* no point 0 * G: multiply() throws.
Verified(m, share) ==
  share # 0 /\ share = ShareFor(states[m.from].polynomial, m.to)

\* The order of the loops: recipients, then senders.
Before(m, n) == m.to < n.to \/ (m.to = n.to /\ m.from < n.from)

Decrypted(m, noise) == IF m.share = Garbled THEN noise ELSE m.share

\* The messages of a batch that are taken in: those up to the first bad one,
\* at which processRound2() throws.
Accepted(batch, noise) ==
  {m \in batch : \A n \in batch :
     n = m \/ Before(n, m) => Verified(n, Decrypted(n, noise))}

\* processRound2() with the messages of any senders (it takes a map by sender).
\* The garbled ones of one call decrypt to the same scalar (bound).
ProcessRound2(senders, noise) ==
  /\ LET accepted == Accepted({m \in mail : m.from \in senders}, noise) IN
       states' = [p \in DOMAIN states |->
         [states[p] EXCEPT !.receivedShares = [q \in Parties |->
            IF \E m \in accepted : m.from = q /\ m.to = p
            THEN Decrypted(CHOOSE m \in accepted : m.from = q /\ m.to = p, noise)
            ELSE @[q]]]]
  /\ UNCHANGED <<round, mail, starts, result>>

HeardFrom(p) == {q \in Parties : states[p].receivedShares[q] # None}

SumMod(f, S) == FoldFunctionOnSet(LAMBDA a, b : Mod(a + b), 0, f, S)

\* Mutant: without the party's own contribution.
SecretShareOfOthers(p) == SumMod(states[p].receivedShares, HeardFrom(p))

SecretShare(p) ==
  Mod(SumMod(states[p].receivedShares, HeardFrom(p))
        + ShareFor(states[p].polynomial, p))

JointKey == SumMod([q \in Parties |-> states[q].polynomial[1]], Parties)

\* startRound3(): with whatever has been received.  counted is a history
\* variable: the parties whose shares are in the secret share.
StartRound3 ==
  /\ result = None
  /\ round' = 3
  /\ states' = [p \in DOMAIN states |->
       [states[p] EXCEPT !.secretShare = SecretShare(p),
                         !.publicKey = JointKey,
                         !.counted = HeardFrom(p)]]
  /\ UNCHANGED <<mail, starts, result>>

\* finalize(), after which the coordinator is dropped.  It throws when a party
\* has no secret share or when the public keys differ.
Finalize ==
  /\ DOMAIN states # {}
  /\ \A p \in Parties : states[p].secretShare # None /\ states[p].publicKey # None
  /\ \A p, q \in Parties : states[p].publicKey = states[q].publicKey
  /\ result' = [publicKey |-> states[CHOOSE p \in Parties : TRUE].publicKey,
                shares |-> [p \in Parties |-> states[p].secretShare],
                counted |-> [p \in Parties |-> states[p].counted]]
  /\ round' = 1 /\ states' = NoStates /\ mail' = {} /\ starts' = 0

KeyNext ==
  \/ StartRound1
  \/ StartRound2
  \/ \E m \in mail : Tamper(m)
  \/ \E senders \in SUBSET Parties, noise \in Noise : ProcessRound2(senders, noise)
  \/ StartRound3
  \/ Finalize

KeySpec == KeyInit /\ [][KeyNext]_keyVars
-----------------------------------------------------------------------------
\* Whatever a party has taken in from another is the other's polynomial at its
\* number, and the polynomial is the one the other has now: nothing that was
\* changed on its way, and nothing of an earlier first round.
ReceivedVerified ==
  \A p, q \in DOMAIN states :
    states[p].receivedShares[q] # None =>
      /\ p # q
      /\ states[p].receivedShares[q] = ShareFor(states[q].polynomial, p)

\* The secret share of a party has the shares of all others in it.
Whole(p) == result.counted[p] = Parties \ {p}

\* Any two secret shares that are whole reconstruct the key behind the public
\* key.
SharesReconstruct ==
  result # None =>
    \A p, q \in Parties :
      p # q /\ Whole(p) /\ Whole(q) =>
        Mod(Lagrange(p, q) * result.shares[p] + Lagrange(q, p) * result.shares[q])
          = result.publicKey
=============================================================================
