------------------------------ MODULE Paillier ------------------------------
(* The encryption under which nodes exchange shares during key generation   *)
(* (apps/mpc/src/tss/paillier.ts), with numbers small enough for TLC: the    *)
(* random choices of the code are parameters here.                           *)
EXTENDS Integers

\* The loop of modPow(), by repeated squaring; x is <<result, base, exp>>.
ModPow(base, exp, m) ==
  LET loop[x \in Nat \X Nat \X Nat] ==
        IF x[3] = 0 THEN x[1]
        ELSE loop[<<IF x[3] % 2 = 1 THEN (x[1] * x[2]) % m ELSE x[1],
                    (x[2] * x[2]) % m, x[3] \div 2>>]
  IN  loop[<<1, base % m, exp>>]

\* The loop of modInverse(), which throws when the last remainder is not 1; x is
\* <<r, newR, t, newT>>.
Euclid(a, m) ==
  LET loop[x \in Nat \X Nat \X Int \X Int] ==
        IF x[2] = 0 THEN [gcd |-> x[1], t |-> x[3]]
        ELSE loop[<<x[2], x[1] % x[2], x[4], x[3] - (x[1] \div x[2]) * x[4]>>]
  IN  loop[<<m, a % m, 0, 1>>]
Invertible(a, m) == Euclid(a, m).gcd = 1
ModInverse(a, m) ==
  LET t == Euclid(a, m).t IN IF t < 0 THEN t + m ELSE t

\* gcd() and lcm()
Gcd(a, b) ==
  LET gcd[x \in Nat, y \in Nat] == IF y = 0 THEN x ELSE gcd[y, x % y]
  IN  gcd[a, b]
Lcm(a, b) == (a \div Gcd(a, b)) * b

\* isProbablePrime(): n passes for the base a.
TwosIn(n) == CHOOSE k \in 0..n : n % 2 ^ k = 0 /\ n % 2 ^ (k + 1) # 0
PassesFor(n, a) ==
  LET r == TwosIn(n - 1)
      d == (n - 1) \div 2 ^ r
  IN  \/ ModPow(a, d, n) \in {1, n - 1}
      \/ \E j \in 1..(r - 1) : ModPow(a, d * 2 ^ j, n) = n - 1

\* It is asked for bases from randomBigintRange(n - 3): 2 and more, below
\* n - 3; n = 2, 3 and the even numbers are decided before.
IsProbablePrime(n, bases) ==
  \/ n \in {2, 3}
  \/ n > 3 /\ n % 2 = 1 /\ \A a \in bases : PassesFor(n, a)

\* generatePrime(): odd, with its highest bit set.
Candidates(bits) == {c \in 2 ^ (bits - 1)..(2 ^ bits - 1) : c % 2 = 1}

\* Mutant of PairOk: both primes may be the same.
PairOkSame(p, q) == Gcd(p * q, (p - 1) * (q - 1)) = 1

\* generateSafePrimePair(): the pairs it accepts.
PairOk(p, q) == Gcd(p * q, (p - 1) * (q - 1)) = 1 /\ p # q

\* generatePaillierKeypair(): modInverse() throws when there is no mu.
Keypair(p, q) ==
  LET n == p * q
      lambda == Lcm(p - 1, q - 1)
  IN  [n |-> n, g |-> n + 1, n2 |-> n * n, lambda |-> lambda,
       mu |-> ModInverse(lambda % n, n)]

\* deserializePublicKey(): g and n2 are computed from the n that was sent.
PublicKeyOf(n) == [n |-> n, g |-> n + 1, n2 |-> n * n]

\* encrypt() with the random r of randomBigintRange(n).
Encrypt(pk, plaintext, r) ==
  (ModPow(pk.g, plaintext, pk.n2) * ModPow(r, pk.n, pk.n2)) % pk.n2

\* decrypt()
Decrypt(sk, ciphertext) ==
  LET cLambda == ModPow(ciphertext, sk.lambda, sk.n2)
      L == (cLambda - 1) \div sk.n
  IN  (L * sk.mu) % sk.n

\* add() and scalarMul()
AddCiphertexts(pk, c1, c2) == (c1 * c2) % pk.n2
ScalarMul(pk, ciphertext, scalar) == ModPow(ciphertext, scalar, pk.n2)
=============================================================================
