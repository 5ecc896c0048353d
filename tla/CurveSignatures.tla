--------------------------- MODULE CurveSignatures ---------------------------
(* Signatures over points with coordinates: y^2 = x^3 + 7 over a field that  *)
(* has a few elements more than the curve has points, as secp256k1 has.      *)
(* Recovery of an address from a signature                                   *)
(* (apps/mpc/src/signing/ethereum/index.ts) and the proof of concept         *)
(* of threshold signatures (apps/mpc/src/tss/spike.ts).                      *)
EXTENDS Integers, Sequences

CONSTANTS
  FieldPrime,   \* secp.CURVE.p, which is 3 modulo 4 and above CurveOrder
  CurveOrder,   \* secp.CURVE.n
  BaseX, BaseY  \* secp.Point.BASE

Scalars == 0..(CurveOrder - 1)
Zero == <<>>  \* the point at infinity
-----------------------------------------------------------------------------
(* Arithmetic *)

\* modPow2()
ModPow(base, exp, m) ==
  LET pow[e \in Nat, b \in Nat] ==
        IF e = 0 THEN 1 % m
        ELSE ((IF e % 2 = 1 THEN b ELSE 1) * pow[e \div 2, (b * b) % m]) % m
  IN  pow[exp, base % m]

\* modInverse2() and modInverse(): m is prime and a is not a multiple of it.
ModInverse(a, m) ==
  LET loop[r \in Nat, newR \in Nat, t \in Int, newT \in Int] ==
        IF newR = 0 THEN t % m
        ELSE loop[newR, r % newR, newT, t - (r \div newR) * newT]
  IN  loop[m, a % m, 0, 1]

\* sqrtModPrime(): a root, where there is one.
IsSquare(n) ==
  LET root == ModPow(n, (FieldPrime + 1) \div 4, FieldPrime)
  IN  (root * root) % FieldPrime = n
SqrtModPrime(n) == ModPow(n, (FieldPrime + 1) \div 4, FieldPrime)

\* The group of the curve (external: @noble/secp256k1).
Negate(A) == IF A = Zero THEN Zero ELSE <<A[1], (FieldPrime - A[2]) % FieldPrime>>
Add(A, B) ==
  IF A = Zero THEN B ELSE IF B = Zero THEN A ELSE IF A = Negate(B) THEN Zero
  ELSE LET slope == IF A = B
                    THEN 3 * A[1] * A[1] * ModInverse(2 * A[2], FieldPrime)
                    ELSE (B[2] - A[2]) * ModInverse(B[1] - A[1], FieldPrime)
           l == slope % FieldPrime
           x == (l * l - A[1] - B[1]) % FieldPrime
       IN  <<x, (l * (A[1] - x) - A[2]) % FieldPrime>>
Multiply(A, k) ==
  LET times[i \in Nat] == IF i = 0 THEN Zero ELSE Add(times[i - 1], A)
  IN  times[k]
Base == <<BaseX, BaseY>>
\* The multiples of the base point.
PublicKey == [k \in Scalars |-> Multiply(Base, k)]
-----------------------------------------------------------------------------
(* Signatures *)

\* The signature of produceSignature() (apps/mpc/src/signing/index.ts) for the
\* key, the nonce and the hash; the parity is that of the nonce's point, before
\* s is normalised.
Sign(key, nonce, hash) ==
  LET r == PublicKey[nonce][1] % CurveOrder
      s == (ModInverse(nonce, CurveOrder) * (hash + key * r)) % CurveOrder
      normalised == s > CurveOrder \div 2
  IN  [r |-> r, s |-> IF normalised THEN CurveOrder - s ELSE s,
       recoveryId |-> PublicKey[nonce][2] % 2, normalised |-> normalised]

\* Mutant of EthereumV: the chain counts once.
EthereumVOnce(recoveryId, chainId) ==
  IF chainId > 0 THEN recoveryId + 35 + chainId ELSE recoveryId + 27

\* signEthereumHash(): v for a chain, 0 when none is given.
EthereumV(recoveryId, chainId) ==
  IF chainId > 0 THEN recoveryId + 35 + chainId * 2 ELSE recoveryId + 27

\* deriveEthereumAddress(): a point and its address stand for each other.
NoAddress == Zero
Address(key) == key

\* recoverEthereumAddress(): the first candidate for the x-coordinate that is
\* on the curve.  Multiplication by 0 throws, which skips the candidate.
RecoverEthereumAddress(hash, r, s, v) ==
  LET recoveryId == IF v >= 35 THEN (v - 35) % 2 ELSE (v - 27) % 2
      m == hash % CurveOrder
      rMod == r % CurveOrder
      Square(x) == (x * x * x + 7) % FieldPrime
      R(x) == LET y == SqrtModPrime(Square(x))
              IN  IF (y % 2 = 0) = (recoveryId = 0) THEN <<x, y>>
                  ELSE <<x, (FieldPrime - y) % FieldPrime>>
      Q(x) == Multiply(Add(Multiply(R(x), s % CurveOrder),
                           Negate(Multiply(Base, m))),
                       ModInverse(rMod, CurveOrder))
      Usable(x) == /\ IsSquare(Square(x)) /\ s % CurveOrder # 0 /\ m # 0
                   /\ Q(x) # Zero
      candidates == SelectSeq(<<rMod, rMod + CurveOrder, rMod + 2 * CurveOrder>>,
                              LAMBDA x : x < FieldPrime /\ Usable(x))
  IN  IF rMod = 0 \/ candidates = <<>> THEN NoAddress
      ELSE Address(Q(Head(candidates)))
-----------------------------------------------------------------------------
(* The proof of concept: a key in three shares, any two of which sign *)

\* generateKeyShares()
KeyShare(key, coefficient, i) == (key + coefficient * i) % CurveOrder

\* reconstructKey()
ReconstructKey(i, si, j, sj) ==
  LET denom == ModInverse(i - j, CurveOrder)
      lambdaI == (-j * denom) % CurveOrder
      lambdaJ == (i * denom) % CurveOrder
  IN  (lambdaI * si + lambdaJ * sj) % CurveOrder

\* signMessage(): r is the coordinate itself; nonces that give a 0 are drawn
\* again.
SpikeS(key, nonce, hash) ==
  (ModInverse(nonce, CurveOrder)
     * (hash + ((PublicKey[nonce][1] * key) % CurveOrder))) % CurveOrder
SpikeSign(key, nonce, hash) ==
  LET s == SpikeS(key, nonce, hash)
  IN  [r |-> PublicKey[nonce][1],
       s |-> IF s > CurveOrder \div 2 THEN CurveOrder - s ELSE s]

\* verifySignature(): components out of range throw, which counts as false.
SpikeVerify(publicKey, hash, sig) ==
  /\ sig.r \in 1..(CurveOrder - 1) /\ sig.s \in 1..(CurveOrder - 1)
  /\ LET w == ModInverse(sig.s, CurveOrder)
         R == Add(Multiply(Base, (hash * w) % CurveOrder),
                  Multiply(publicKey, (sig.r * w) % CurveOrder))
     IN  R # Zero /\ R[1] % CurveOrder = sig.r
=============================================================================
