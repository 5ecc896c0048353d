--------------------------- MODULE CeremonyProofs ---------------------------
(***************************************************************************)
(* Proofs about KeyGeneration and SigningCeremony, for any prime order,    *)
(* parties, polynomials, noise, nonces and hashes, and about WireFormats,  *)
(* for any share, message and keys, Paillier, for any key pair, and        *)
(* ChainEncodings, for any transaction, signature, key and payload:        *)
(*   - what a party has taken in is the current polynomial of its sender   *)
(*     at the party's number;                                              *)
(*   - any two secret shares that are whole reconstruct the key;           *)
(*   - a signature verifies exactly when the contributed nonces fit the    *)
(*     combined point;                                                     *)
(*   - a share at rest and a message on the wire are read as they were     *)
(*     written, by a node with the keys they were written with;            *)
(*   - what was encrypted with a Paillier key, its sums and its multiples  *)
(*     are decrypted with that key;                                        *)
(*   - what is written for other chains (DER, RLP, base 58) is read as it  *)
(*     was.                                                                *)
(*                                                                         *)
(* The arithmetic comes first: congruence, the loop of modInverse(), sums  *)
(* of any number of values.  What a recursive function computes is proved  *)
(* by the least argument at which it would be wrong, once the function is  *)
(* known to exist.                                                         *)
(***************************************************************************)
EXTENDS SigningCeremony, WireFormats, FiniteSetTheorems, SequenceTheorems, TLAPS

-----------------------------------------------------------------------------
(* Least elements, and functions that are defined by recursion.            *)

Less == {ss \in Nat \X Nat : ss[1] < ss[2]}

LEMMA NatOrdered == IsWellFoundedOn({ss \in Nat \X Nat : ss[1] < ss[2]}, Nat)
BY NatLessThanWellFounded DEF OpToRel

\* A set of natural numbers that is not empty has a least one.
LEMMA LeastNumber ==
  ASSUME NEW S, S \subseteq Nat, NEW n \in S
  PROVE  \E m \in S : \A k \in S : m <= k
<1>1. IsWellFoundedOn(Less, Nat)
  BY NatOrdered DEF Less
<1>2. \E x \in S : \A y \in S : ~ (<<y, x>> \in Less)
  BY <1>1, WFMin
<1>3. \A x, y \in Nat : <<y, x>> \in Nat \X Nat /\ y < x => <<y, x>> \in Less
  BY DEF Less
<1>4. \A x, y \in Nat : ~ (<<y, x>> \in Less) => x <= y
  BY <1>3
<1> QED
  BY <1>2, <1>4

\* What a definition by recursion needs.
Decreasing(D, V, stop, next, base, step, rank) ==
  /\ rank \in [D -> Nat]
  /\ \A x \in D \ stop : next[x] \in D /\ rank[next[x]] < rank[x]
  /\ \A x \in D : base[x] \in V
  /\ \A x \in D \ stop, v \in V : step[<<x, v>>] \in V

\* There is a function with the values base where it stops, and elsewhere those
\* that step computes from its value at the next argument, of a lower rank.
LEMMA Recursion ==
  ASSUME NEW D, NEW V, NEW stop, NEW next, NEW base, NEW step, NEW rank,
         Decreasing(D, V, stop, next, base, step, rank)
  PROVE  \E g \in [D -> V] : \A x \in D :
           g[x] = IF x \in stop THEN base[x] ELSE step[<<x, g[next[x]]>>]
<1>0. /\ rank \in [D -> Nat]
      /\ \A x \in D \ stop : next[x] \in D /\ rank[next[x]] < rank[x]
      /\ \A x \in D : base[x] \in V
      /\ \A x \in D \ stop, v \in V : step[<<x, v>>] \in V
  BY DEF Decreasing
<1> USE <1>0
<1> DEFINE Below(n) == {x \in D : rank[x] < n}
           Solves(g, n) ==
             /\ g \in [Below(n) -> V]
             /\ \A x \in Below(n) :
                  g[x] = IF x \in stop THEN base[x] ELSE step[<<x, g[next[x]]>>]
           bad == {n \in Nat : ~ \E g : Solves(g, n)}
<1>1. \A n \in Nat : \E g : Solves(g, n)
  <2>1. SUFFICES ASSUME NEW m \in bad, \A k \in bad : m <= k PROVE FALSE
    BY LeastNumber
  <2>2. m \in Nat /\ ~ \E g : Solves(g, m)
    OBVIOUS
  <2>3. m # 0
    <3>1. Below(0) = {}
      OBVIOUS
    <3>2. Solves([x \in {} |-> 0], 0)
      BY <3>1
    <3> QED
      BY <2>2, <3>2
  <2>4. PICK h : Solves(h, m - 1)
    <3>1. m - 1 \in Nat /\ ~ (m <= m - 1)
      BY <2>2, <2>3
    <3>2. m - 1 \notin bad
      BY <2>1, <3>1
    <3> QED
      BY <3>1, <3>2
  <2> DEFINE g == [x \in Below(m) |->
                     IF x \in stop THEN base[x] ELSE step[<<x, h[next[x]]>>]]
  <2>5. \A x \in Below(m) : x \notin stop => next[x] \in Below(m - 1)
    BY <2>2
  <2>6. \A y \in Below(m - 1) : h[y] \in V
    BY <2>4
  <2>7. \A x \in Below(m) : g[x] \in V
    BY <2>5, <2>6
  <2>8. g \in [Below(m) -> V]
    BY <2>7
  <2>9. \A y \in Below(m - 1) : y \in Below(m) /\ g[y] = h[y]
    <3>1. \A y \in Below(m - 1) : y \in Below(m)
      BY <2>2
    <3>2. \A y \in Below(m - 1) :
            h[y] = IF y \in stop THEN base[y] ELSE step[<<y, h[next[y]]>>]
      BY <2>4
    <3> QED
      BY <3>1, <3>2
  <2>10. \A x \in Below(m) :
           g[x] = IF x \in stop THEN base[x] ELSE step[<<x, g[next[x]]>>]
    BY <2>5, <2>9
  <2>11. Solves(g, m)
    BY <2>8, <2>10
  <2> QED
    BY <2>2, <2>11
<1>2. ASSUME NEW n \in Nat, NEW m \in Nat, NEW g, NEW h, Solves(g, n), Solves(h, m)
      PROVE  \A x \in Below(n) \cap Below(m) : g[x] = h[x]
  <2> DEFINE wrong == {k \in Nat : \E x \in Below(n) \cap Below(m) :
                                      rank[x] = k /\ g[x] # h[x]}
  <2>1. SUFFICES ASSUME NEW k \in wrong, \A j \in wrong : k <= j PROVE FALSE
    <3>1. SUFFICES ASSUME NEW x \in Below(n) \cap Below(m), g[x] # h[x] PROVE FALSE
      OBVIOUS
    <3>2. rank[x] \in wrong
      BY <3>1
    <3> HIDE DEF wrong
    <3>3. wrong \subseteq Nat
      BY DEF wrong
    <3> QED
      BY <2>1, <3>2, <3>3, LeastNumber
  <2>2. PICK x \in Below(n) \cap Below(m) : rank[x] = k /\ g[x] # h[x]
    OBVIOUS
  <2>3. x \notin stop
    BY <1>2, <2>2
  <2>4. next[x] \in Below(n) \cap Below(m) /\ rank[next[x]] < k
    BY <2>2, <2>3
  <2>5. g[next[x]] # h[next[x]]
    BY <1>2, <2>2, <2>3
  <2>6. rank[next[x]] \in wrong
    BY <2>4, <2>5
  <2>7. k \in Nat /\ rank[next[x]] \in Nat
    BY <2>6
  <2> QED
    BY <2>1, <2>4, <2>6, <2>7
<1> DEFINE G(n) == CHOOSE g : Solves(g, n)
           F == [x \in D |-> G(rank[x] + 1)[x]]
<1>3. \A n \in Nat : Solves(G(n), n)
  <2> HIDE DEF Solves
  <2> QED
    BY <1>1
<1>4. \A x \in D : x \in Below(rank[x] + 1) /\ rank[x] + 1 \in Nat
  OBVIOUS
<1> HIDE DEF G
<1>5. \A x \in D : F[x] = G(rank[x] + 1)[x]
  OBVIOUS
<1>6. \A x \in D : F[x] \in V
  BY <1>3, <1>4
<1>7. ASSUME NEW x \in D
      PROVE  F[x] = IF x \in stop THEN base[x] ELSE step[<<x, F[next[x]]>>]
  <2> DEFINE g == G(rank[x] + 1)
  <2>1. Solves(g, rank[x] + 1) /\ x \in Below(rank[x] + 1)
    BY <1>3, <1>4
  <2>2. g[x] = IF x \in stop THEN base[x] ELSE step[<<x, g[next[x]]>>]
    BY <2>1
  <2>3. ASSUME x \notin stop PROVE g[next[x]] = F[next[x]]
    <3> DEFINE y == next[x]
               h == G(rank[y] + 1)
    <3>1. y \in D /\ rank[y] \in Nat /\ rank[x] \in Nat /\ rank[y] < rank[x]
      BY <2>3
    <3>2. y \in Below(rank[x] + 1) \cap Below(rank[y] + 1)
      BY <3>1
    <3>3. F[y] = h[y]
      BY <1>5, <3>1
    <3>4. rank[y] + 1 \in Nat /\ rank[x] + 1 \in Nat
      BY <3>1
    <3> HIDE DEF Solves, Below
    <3>5. Solves(h, rank[y] + 1)
      BY <1>3, <3>4
    <3>6. g[y] = h[y]
      BY <1>2, <2>1, <3>2, <3>4, <3>5
    <3> QED
      BY <3>3, <3>6
  <2> HIDE DEF g
  <2>4. F[x] = g[x]
    BY DEF g
  <2> HIDE DEF F
  <2> QED
    BY <2>2, <2>3, <2>4
<1> QED
  BY <1>6, <1>7

-----------------------------------------------------------------------------
(* Numbers that differ by a multiple of n; sums and products of such       *)
(* numbers do, too.                                                        *)

Congruent(a, b, n) == \E k \in Int : a = b + k * n

LEMMA CongruentRefl == ASSUME NEW n \in Int, NEW a \in Int PROVE Congruent(a, a, n)
<1>1. a = a + 0 * n
  OBVIOUS
<1> QED
  BY <1>1 DEF Congruent

LEMMA CongruentSym ==
  ASSUME NEW n \in Int, NEW a \in Int, NEW b \in Int, Congruent(a, b, n)
  PROVE  Congruent(b, a, n)
<1>1. PICK k \in Int : a = b + k * n
  BY DEF Congruent
<1>2. b = a + (-k) * n
  BY <1>1
<1> QED
  BY <1>2 DEF Congruent

LEMMA CongruentTrans ==
  ASSUME NEW n \in Int, NEW a \in Int, NEW b \in Int, NEW c \in Int,
         Congruent(a, b, n), Congruent(b, c, n)
  PROVE  Congruent(a, c, n)
<1>1. PICK k \in Int : a = b + k * n
  BY DEF Congruent
<1>2. PICK l \in Int : b = c + l * n
  BY DEF Congruent
<1>3. a = c + (k + l) * n /\ k + l \in Int
  BY <1>1, <1>2
<1> QED
  BY <1>3 DEF Congruent

LEMMA CongruentSum ==
  ASSUME NEW n \in Int, NEW a \in Int, NEW b \in Int, NEW c \in Int, NEW d \in Int,
         Congruent(a, b, n), Congruent(c, d, n)
  PROVE  Congruent(a + c, b + d, n)
<1>1. PICK k \in Int : a = b + k * n
  BY DEF Congruent
<1>2. PICK l \in Int : c = d + l * n
  BY DEF Congruent
<1>3. a + c = (b + d) + (k + l) * n /\ k + l \in Int
  BY <1>1, <1>2
<1> QED
  BY <1>3 DEF Congruent

LEMMA CongruentProduct ==
  ASSUME NEW n \in Int, NEW a \in Int, NEW b \in Int, NEW c \in Int, NEW d \in Int,
         Congruent(a, b, n), Congruent(c, d, n)
  PROVE  Congruent(a * c, b * d, n)
<1>1. PICK k \in Int : a = b + k * n
  BY DEF Congruent
<1>2. PICK l \in Int : c = d + l * n
  BY DEF Congruent
<1> DEFINE m == b * l + k * d + k * l * n
<1>3. a * c = (b * d) + m * n /\ m \in Int
  BY <1>1, <1>2
<1> QED
  BY <1>3 DEF Congruent

LEMMA CongruentScaled ==
  ASSUME NEW n \in Int, NEW a \in Int, NEW b \in Int, NEW c \in Int, Congruent(a, b, n)
  PROVE  Congruent(c * a, c * b, n) /\ Congruent(a * c, b * c, n)
BY CongruentRefl, CongruentProduct

LEMMA NoMultipleBetween ==
  ASSUME NEW d \in Int, NEW n \in Int, n > 0, -n < n * d, n * d < n
  PROVE  d = 0
<1>1. \A e \in Int : e >= 1 => n * e >= n
  OBVIOUS
<1>2. n * (-d) = - (n * d)
  OBVIOUS
<1> QED
  BY <1>1, <1>2

\* Of the numbers that differ by multiples of n one is below n.
LEMMA Remainder ==
  ASSUME NEW n \in Int, n > 0, NEW a \in Int
  PROVE  a % n \in 0..(n - 1) /\ a % n \in Int /\ Congruent(a % n, a, n)
<1>1. a = (a % n) + (a \div n) * n /\ a \div n \in Int /\ a % n \in 0..(n - 1)
  OBVIOUS
<1> DEFINE m == a % n
           q == a \div n
<1>2. m \in Int /\ q \in Int /\ a = m + q * n
  BY <1>1
<1> HIDE DEF m, q
<1>3. m = a + (-q) * n
  BY <1>2
<1>4. Congruent(m, a, n)
  BY <1>2, <1>3 DEF Congruent
<1> QED
  BY <1>1, <1>4 DEF m

LEMMA RemainderUnique ==
  ASSUME NEW n \in Int, n > 0, NEW a \in 0..(n - 1), NEW b \in 0..(n - 1), Congruent(a, b, n)
  PROVE  a = b
<1>1. PICK k \in Int : a = b + k * n
  BY DEF Congruent
<1>2. a \in Int /\ b \in Int /\ 0 <= a /\ a < n /\ 0 <= b /\ b < n
  OBVIOUS
<1>3. a - b = n * k
  BY <1>1, <1>2
<1>4. -n < n * k /\ n * k < n
  BY <1>2, <1>3
<1>5. k = 0
  BY <1>4, NoMultipleBetween
<1> QED
  BY <1>1, <1>2, <1>5

LEMMA SameRemainder ==
  ASSUME NEW n \in Int, n > 0, NEW a \in Int, NEW b \in Int
  PROVE  a % n = b % n <=> Congruent(a, b, n)
<1> DEFINE r == a % n
           s == b % n
<1>1. /\ r \in 0..(n - 1) /\ r \in Int /\ Congruent(r, a, n)
      /\ s \in 0..(n - 1) /\ s \in Int /\ Congruent(s, b, n)
  BY Remainder
<1> HIDE DEF r, s
<1>2. Congruent(a, r, n) /\ Congruent(b, s, n)
  BY <1>1, CongruentSym
<1>3. ASSUME r = s PROVE Congruent(a, b, n)
  BY <1>1, <1>2, <1>3, CongruentTrans
<1>4. ASSUME Congruent(a, b, n) PROVE r = s
  <2>1. Congruent(r, b, n)
    BY <1>1, <1>4, CongruentTrans
  <2>2. Congruent(r, s, n)
    BY <1>1, <1>2, <2>1, CongruentTrans
  <2> QED
    BY <1>1, <2>2, RemainderUnique
<1>5. r = s <=> Congruent(a, b, n)
  BY <1>3, <1>4
<1> QED
  BY <1>5 DEF r, s

-----------------------------------------------------------------------------
(* The same modulo Prime.                                                  *)

Same(a, b) == Congruent(a, b, Prime)

LEMMA ModDef ==
  ASSUME NEW a \in Int
  PROVE  Mod(a) \in Scalars /\ Mod(a) \in Int /\ Same(Mod(a), a)
BY PrimeAssumption, Remainder DEF Mod, Scalars, Same

LEMMA SameRefl == ASSUME NEW a \in Int PROVE Same(a, a)
BY PrimeAssumption, CongruentRefl DEF Same

LEMMA SameSym == ASSUME NEW a \in Int, NEW b \in Int, Same(a, b) PROVE Same(b, a)
BY PrimeAssumption, CongruentSym DEF Same

LEMMA SameTrans ==
  ASSUME NEW a \in Int, NEW b \in Int, NEW c \in Int, Same(a, b), Same(b, c)
  PROVE  Same(a, c)
BY PrimeAssumption, CongruentTrans DEF Same

LEMMA SameSum ==
  ASSUME NEW a \in Int, NEW b \in Int, NEW c \in Int, NEW d \in Int,
         Same(a, b), Same(c, d)
  PROVE  Same(a + c, b + d)
BY PrimeAssumption, CongruentSum DEF Same

LEMMA SameProduct ==
  ASSUME NEW a \in Int, NEW b \in Int, NEW c \in Int, NEW d \in Int,
         Same(a, b), Same(c, d)
  PROVE  Same(a * c, b * d)
BY PrimeAssumption, CongruentProduct DEF Same

LEMMA SameScaled ==
  ASSUME NEW a \in Int, NEW b \in Int, NEW c \in Int, Same(a, b)
  PROVE  Same(c * a, c * b) /\ Same(a * c, b * c)
BY SameRefl, SameProduct

\* Of the numbers that differ by multiples of Prime one is a scalar.
LEMMA SameScalars ==
  ASSUME NEW a \in Scalars, NEW b \in Scalars, Same(a, b)
  PROVE  a = b
BY PrimeAssumption, RemainderUnique DEF Scalars, Same

LEMMA ModOfScalar == ASSUME NEW a \in Scalars PROVE Mod(a) = a /\ a \in Int
BY PrimeAssumption DEF Mod, Scalars

LEMMA ModSame ==
  ASSUME NEW a \in Int, NEW b \in Int
  PROVE  Mod(a) = Mod(b) <=> Same(a, b)
<1>1. Prime \in Int /\ Prime > 0
  BY PrimeAssumption
<1> QED
  BY <1>1, SameRemainder DEF Mod, Same

\* A sum or a product may be reduced at any point.
LEMMA ModInside ==
  ASSUME NEW a \in Int, NEW b \in Int
  PROVE  /\ Same(Mod(a) + b, a + b) /\ Same(a + Mod(b), a + b)
         /\ Same(Mod(a) * b, a * b) /\ Same(a * Mod(b), a * b)
         /\ Same(-Mod(a), -a)
<1>1. /\ Mod(a) \in Int /\ Same(Mod(a), a)
      /\ Mod(b) \in Int /\ Same(Mod(b), b)
  BY ModDef
<1>2. /\ Same(Mod(a) + b, a + b) /\ Same(a + Mod(b), a + b)
      /\ Same(Mod(a) * b, a * b) /\ Same(a * Mod(b), a * b)
  BY <1>1, SameRefl, SameSum, SameProduct
<1>3. Same((-1) * Mod(a), (-1) * a)
  BY <1>1, SameScaled
<1>4. (-1) * Mod(a) = -Mod(a) /\ (-1) * a = -a
  BY <1>1
<1> QED
  BY <1>2, <1>3, <1>4

-----------------------------------------------------------------------------
(* modInverse(): the extended Euclidean algorithm, for any prime.          *)

LoopStates == Nat \X Nat \X Int \X Int
LoopNext(x) == <<x[2], x[1] % x[2], x[4], x[3] - (x[1] \div x[2]) * x[4]>>

\* The loop is a function with the equation that defines it.
IsLoop(g) ==
  g = [x \in LoopStates |->
         IF x[2] = 0 THEN [gcd |-> x[1], t |-> x[3]] ELSE g[LoopNext(x)]]

LEMMA LoopStep ==
  ASSUME NEW x \in LoopStates, x[2] # 0
  PROVE  /\ LoopNext(x) \in LoopStates /\ LoopNext(x)[2] < x[2]
         /\ x[1] = (x[1] \div x[2]) * x[2] + (x[1] % x[2])
         /\ x[1] \div x[2] \in Nat /\ x[1] % x[2] \in Nat
<1> DEFINE r == x[1]
           n == x[2]
           q == r \div n
           m == r % n
<1>1. r \in Nat /\ n \in Nat /\ n > 0 /\ x[3] \in Int /\ x[4] \in Int
  BY DEF LoopStates
<1> HIDE DEF r, n
<1>2. q \in Nat /\ m \in Nat /\ m < n /\ r = q * n + m
  BY <1>1
<1> HIDE DEF q, m
<1>3. x[3] - q * x[4] \in Int
  BY <1>1, <1>2
<1> DEFINE y == LoopNext(x)
<1>4. y = <<n, m, x[4], x[3] - q * x[4]>>
  BY DEF LoopNext, r, n, q, m
<1> HIDE DEF y
<1>5. y \in LoopStates /\ y[2] < n
  BY <1>1, <1>2, <1>3, <1>4 DEF LoopStates
<1>6. LoopNext(x) \in LoopStates /\ LoopNext(x)[2] < x[2]
  BY <1>5 DEF y, n
<1>7. /\ x[1] = (x[1] \div x[2]) * x[2] + (x[1] % x[2])
      /\ x[1] \div x[2] \in Nat /\ x[1] % x[2] \in Nat
  BY <1>2 DEF r, n, q, m
<1> QED
  BY <1>6, <1>7

LEMMA LoopExists == \E g : IsLoop(g)
<1> DEFINE V == [gcd : Nat, t : Int]
           stop == {x \in LoopStates : x[2] = 0}
           rank == [x \in LoopStates |-> x[2]]
           next == [x \in LoopStates |-> LoopNext(x)]
           base == [x \in LoopStates |-> [gcd |-> x[1], t |-> x[3]]]
           step == [p \in LoopStates \X V |-> p[2]]
<1>1. rank \in [LoopStates -> Nat]
  BY DEF LoopStates
<1>2. \A x \in LoopStates \ stop : next[x] \in LoopStates /\ rank[next[x]] < rank[x]
  BY LoopStep
<1>3. \A x \in LoopStates : base[x] \in V
  BY DEF LoopStates
<1>4. \A x \in LoopStates, v \in V : step[<<x, v>>] = v
  OBVIOUS
<1> HIDE DEF rank, next, base, step, V, stop
<1>4a. \A x \in LoopStates, v \in V : step[<<x, v>>] \in V
  BY <1>4
<1>5. PICK g \in [LoopStates -> V] : \A x \in LoopStates :
        g[x] = IF x \in stop THEN base[x] ELSE step[<<x, g[next[x]]>>]
  <2>1. Decreasing(LoopStates, V, stop, next, base, step, rank)
    BY <1>1, <1>2, <1>3, <1>4a DEF Decreasing
  <2> QED
    BY <2>1, Recursion
<1>6. \A x \in LoopStates : x \notin stop => step[<<x, g[next[x]]>>] = g[LoopNext(x)]
  <2>1. \A x \in LoopStates : next[x] = LoopNext(x)
    BY DEF next
  <2> QED
    BY <1>2, <1>4, <1>5, <2>1
<1>7. \A x \in LoopStates :
        g[x] = IF x[2] = 0 THEN [gcd |-> x[1], t |-> x[3]] ELSE g[LoopNext(x)]
  BY <1>5, <1>6 DEF stop, base
<1>8. g = [x \in LoopStates |-> g[x]]
  BY <1>5
<1>9. g = [x \in LoopStates |->
             IF x[2] = 0 THEN [gcd |-> x[1], t |-> x[3]] ELSE g[LoopNext(x)]]
  BY <1>7, <1>8
<1> QED
  BY <1>9 DEF IsLoop

LEMMA EuclidLoop ==
  ASSUME NEW a
  PROVE  \E g : IsLoop(g) /\ Euclid(a) = g[<<Prime, Mod(a), 0, 1>>]
<1> DEFINE loop == CHOOSE g : IsLoop(g)
<1>1. IsLoop(loop)
  BY LoopExists
<1>2. Euclid(a) = loop[<<Prime, Mod(a), 0, 1>>]
  BY Zenon DEF Euclid, IsLoop, LoopStates, LoopNext
<1> QED
  BY <1>1, <1>2

\* What the loop ends with divides the two numbers it began with, and is t times
\* every number a for which r is t * a and newR is newT * a, whatever the modulus.
Combines(y, r, newR, t, newT) ==
  \A a, mod \in Int :
    Congruent(r, t * a, mod) /\ Congruent(newR, newT * a, mod)
      => Congruent(y.gcd, y.t * a, mod)

LoopEnds(y, x) ==
  /\ y.gcd \in Nat /\ y.t \in Int
  /\ \E k \in Int : x[1] = y.gcd * k
  /\ \E k \in Int : x[2] = y.gcd * k
  /\ Combines(y, x[1], x[2], x[3], x[4])

LEMMA LoopEnd == ASSUME NEW x \in LoopStates, x[2] = 0
                 PROVE  LoopEnds([gcd |-> x[1], t |-> x[3]], x)
<1>1. x[1] \in Nat /\ x[3] \in Int
  BY DEF LoopStates
<1>2. x[1] = x[1] * 1 /\ x[2] = x[1] * 0
  BY <1>1
<1>3. Combines([gcd |-> x[1], t |-> x[3]], x[1], x[2], x[3], x[4])
  BY DEF Combines
<1> QED
  BY <1>1, <1>2, <1>3 DEF LoopEnds

LEMMA LoopBack ==
  ASSUME NEW x \in LoopStates, x[2] # 0, NEW y, LoopEnds(y, LoopNext(x))
  PROVE  LoopEnds(y, x)
<1> DEFINE q == x[1] \div x[2]
           m == x[1] % x[2]
           r == x[1]
           n == x[2]
           t == x[3]
           u == x[4]
           d == y.gcd
<1>1. /\ r = q * n + m /\ q \in Nat /\ m \in Nat
      /\ r \in Int /\ n \in Int /\ t \in Int /\ u \in Int
  BY LoopStep DEF LoopStates
<1>2. LoopNext(x) = <<n, m, u, t - q * u>>
  BY DEF LoopNext
<1> HIDE DEF q, m, r, n, t, u
<1>3. /\ d \in Nat /\ y.t \in Int
      /\ \E k \in Int : n = d * k
      /\ \E k \in Int : m = d * k
      /\ Combines(y, n, m, u, t - q * u)
  BY <1>2 DEF LoopEnds
<1> HIDE DEF d
<1>4. PICK k \in Int : n = d * k
  BY <1>3
<1>5. PICK l \in Int : m = d * l
  BY <1>3
<1>6. r = d * (q * k + l) /\ q * k + l \in Int
  BY <1>1, <1>3, <1>4, <1>5
<1>7. ASSUME NEW a \in Int, NEW mod \in Int,
             Congruent(r, t * a, mod), Congruent(n, u * a, mod)
      PROVE  Congruent(d, y.t * a, mod)
  <2> DEFINE b == u * a
             c == -q
  <2>0. b \in Int /\ c \in Int /\ t * a \in Int /\ Congruent(n, b, mod)
    BY <1>1, <1>7
  <2> HIDE DEF b, c
  <2>1. Congruent(c * n, c * b, mod)
    BY <1>1, <2>0, CongruentScaled, Zenon
  <2>1a. c * n \in Int /\ c * b \in Int
    BY <1>1, <2>0
  <2>2. Congruent(r + c * n, t * a + c * b, mod)
    <3> DEFINE e == t * a
               f == c * n
               h == c * b
    <3>1. e \in Int /\ f \in Int /\ h \in Int /\ Congruent(r, e, mod) /\ Congruent(f, h, mod)
      BY <1>1, <1>7, <2>0, <2>1, <2>1a
    <3> HIDE DEF e, f, h
    <3>2. Congruent(r + f, e + h, mod)
      BY <1>1, <3>1, CongruentSum
    <3> QED
      BY <3>2 DEF e, f, h
  <2>3. m = r + c * n
    BY <1>1 DEF c
  <2>4. (t - q * u) * a = t * a + c * b
    BY <1>1 DEF b, c
  <2>5. Congruent(m, (t - q * u) * a, mod)
    BY <2>2, <2>3, <2>4
  <2> QED
    BY <1>3, <1>7, <2>5 DEF Combines, d
<1>8. /\ \E j \in Int : r = d * j
      /\ \E j \in Int : n = d * j
  BY <1>4, <1>6
<1>9. /\ y.gcd \in Nat /\ y.t \in Int
      /\ \E j \in Int : x[1] = y.gcd * j
      /\ \E j \in Int : x[2] = y.gcd * j
  BY <1>3, <1>8 DEF d, r, n
<1>10. Combines(y, x[1], x[2], x[3], x[4])
  BY <1>7 DEF Combines, d, r, n, t, u
<1> QED
  BY <1>9, <1>10 DEF LoopEnds

LEMMA LoopResult ==
  ASSUME NEW g, IsLoop(g) PROVE \A x \in LoopStates : LoopEnds(g[x], x)
<1> DEFINE bad == {n \in Nat : \E x \in LoopStates : x[2] = n /\ ~LoopEnds(g[x], x)}
<1>0. \A x \in LoopStates : x[2] \in Nat
  BY DEF LoopStates
<1>1. \A x \in LoopStates :
        g[x] = IF x[2] = 0 THEN [gcd |-> x[1], t |-> x[3]] ELSE g[LoopNext(x)]
  BY DEF IsLoop
<1>2. ASSUME NEW n \in bad, \A k \in bad : n <= k PROVE FALSE
  <2>1. PICK x \in LoopStates : x[2] = n /\ ~LoopEnds(g[x], x)
    OBVIOUS
  <2>2. x[2] # 0
    BY <1>1, <2>1, LoopEnd
  <2>3. LoopNext(x) \in LoopStates /\ LoopNext(x)[2] < x[2]
    BY <2>2, LoopStep
  <2>4. ~LoopEnds(g[LoopNext(x)], LoopNext(x))
    BY <1>1, <2>1, <2>2, LoopBack
  <2>5. LoopNext(x)[2] \in bad
    <3> DEFINE y == LoopNext(x)
    <3> HIDE DEF y
    <3>1. y \in LoopStates /\ ~LoopEnds(g[y], y)
      BY <2>3, <2>4 DEF y
    <3>2. y[2] \in Nat
      BY <1>0, <3>1
    <3>3. y[2] \in bad
      BY <3>1, <3>2
    <3> QED
      BY <3>3 DEF y
  <2>6. n \in Nat /\ LoopNext(x)[2] \in Nat
    BY <2>5
  <2> QED
    BY <1>2, <2>1, <2>3, <2>5, <2>6
<1>3. bad \subseteq Nat
  OBVIOUS
<1>4. \A x \in LoopStates : ~LoopEnds(g[x], x) => x[2] \in bad
  BY <1>0
<1> HIDE DEF bad
<1> QED
  BY <1>2, <1>3, <1>4, LeastNumber

\* What it ends with for a number and a modulus.
LEMMA LoopFrom ==
  ASSUME NEW n \in Nat, NEW a \in Int, NEW r \in Nat, Congruent(r, a, n),
         NEW g, IsLoop(g), NEW y, y = g[<<n, r, 0, 1>>]
  PROVE  /\ y.gcd \in Nat /\ y.t \in Int
         /\ \E k \in Int : n = y.gcd * k
         /\ \E k \in Int : r = y.gcd * k
         /\ Congruent(y.gcd, y.t * a, n)
<1> DEFINE x == <<n, r, 0, 1>>
<1>1. x \in LoopStates
  BY DEF LoopStates
<1>2. LoopEnds(y, x)
  BY <1>1, LoopResult
<1>3. x[1] = n /\ x[2] = r /\ x[3] = 0 /\ x[4] = 1
  OBVIOUS
<1> HIDE DEF x
<1>4. Congruent(n, 0 * a, n)
  <2>1. n = 0 * a + 1 * n
    OBVIOUS
  <2> QED
    BY <2>1 DEF Congruent
<1>5. Congruent(r, 1 * a, n)
  <2>1. 1 * a = a
    OBVIOUS
  <2> QED
    BY <2>1
<1>6. /\ y.gcd \in Nat /\ y.t \in Int
      /\ \E k \in Int : n = y.gcd * k
      /\ \E k \in Int : r = y.gcd * k
      /\ Combines(y, n, r, 0, 1)
  BY <1>2, <1>3 DEF LoopEnds
<1>7. Congruent(y.gcd, y.t * a, n)
  <2>1. n \in Int
    OBVIOUS
  <2> QED
    BY <1>4, <1>5, <1>6, <2>1 DEF Combines
<1> QED
  BY <1>6, <1>7

LEMMA EuclidResult ==
  ASSUME NEW a \in Int
  PROVE  /\ Euclid(a).gcd \in Nat /\ Euclid(a).t \in Int
         /\ \E k \in Int : Prime = Euclid(a).gcd * k
         /\ \E k \in Int : Mod(a) = Euclid(a).gcd * k
         /\ Same(Euclid(a).gcd, Euclid(a).t * a)
<1>1. PICK g : IsLoop(g) /\ Euclid(a) = g[<<Prime, Mod(a), 0, 1>>]
  BY EuclidLoop
<1>2. Mod(a) \in Nat /\ Prime \in Nat /\ Congruent(Mod(a), a, Prime)
  BY ModDef, PrimeAssumption DEF Scalars, Same
<1> QED
  BY <1>1, <1>2, LoopFrom DEF Same

\* The inverse that modInverse() returns, when it returns one.
LEMMA ModInverseInverts ==
  ASSUME NEW a \in Int, Invertible(a)
  PROVE  ModInverse(a) \in Int /\ Same(a * ModInverse(a), 1)
<1> DEFINE t == Euclid(a).t
<1>1. t \in Int /\ Same(1, t * a) /\ Prime \in Int
  BY EuclidResult, PrimeAssumption DEF Invertible
<1>2. ModInverse(a) = IF t < 0 THEN t + Prime ELSE t
  BY DEF ModInverse
<1> HIDE DEF t
<1>3. ModInverse(a) \in Int
  BY <1>1, <1>2
<1>4. Same(ModInverse(a), t)
  <2>1. t + Prime = t + 1 * Prime /\ t = t + 0 * Prime
    BY <1>1
  <2> QED
    BY <1>2, <2>1 DEF Same, Congruent
<1>5. Same(a * ModInverse(a), a * t)
  BY <1>1, <1>3, <1>4, SameScaled
<1>6. Same(a * t, 1)
  <2>1. a * t = t * a /\ a * t \in Int
    BY <1>1
  <2> QED
    BY <1>1, <2>1, SameSym
<1>7. a * ModInverse(a) \in Int /\ a * t \in Int
  BY <1>1, <1>3
<1> QED
  BY <1>3, <1>5, <1>6, <1>7, SameTrans

\* Prime is prime: modInverse() returns one unless the number is 0 modulo Prime.
LEMMA AllInvertible == ASSUME NEW a \in Int, Mod(a) # 0 PROVE Invertible(a)
<1> DEFINE d == Euclid(a).gcd
<1>1. PICK k \in Int : Prime = d * k
  BY EuclidResult
<1>2. PICK l \in Int : Mod(a) = d * l
  BY EuclidResult
<1>3. d \in Nat /\ Prime \in Nat /\ Prime > 3
  BY EuclidResult, PrimeAssumption
<1>4. Mod(a) \in Int /\ 0 < Mod(a) /\ Mod(a) < Prime
  BY ModDef, PrimeAssumption DEF Scalars
<1> HIDE DEF d
<1>5. d # 0
  BY <1>1, <1>3
<1>6. d # Prime
  <2>1. ASSUME d = Prime PROVE FALSE
    <3>1. -Prime < Prime * l /\ Prime * l < Prime
      BY <1>2, <1>3, <1>4, <2>1
    <3>2. l = 0
      BY <1>3, <3>1, NoMultipleBetween
    <3> QED
      BY <1>2, <1>3, <1>4, <3>2
  <2> QED
    BY <2>1
<1>7. d <= Prime
  <2>1. k >= 1
    BY <1>1, <1>3, <1>5
  <2>2. \A e \in Int : e >= 1 => d * e >= d
    BY <1>3
  <2> QED
    BY <1>1, <1>3, <2>1, <2>2
<1>8. ASSUME d # 1 PROVE FALSE
  <2>1. d \in 2..(Prime - 1)
    BY <1>3, <1>5, <1>6, <1>7, <1>8
  <2>2. Prime % d # 0
    BY <2>1, PrimeAssumption
  <2>3. (d * k) % d = 0
    BY <1>3, <1>5
  <2> QED
    BY <1>1, <2>2, <2>3
<1> QED
  BY <1>8 DEF Invertible, d

\* modInverse() inverts: for any prime order, it never throws for a number that is
\* not a multiple of the order, and what it returns, times the number, is 1.
THEOREM EveryScalarInverted ==
  \A k \in Scalars \ {0} : Invertible(k) /\ Mod(k * ModInverse(k)) = 1
<1> SUFFICES ASSUME NEW k \in Scalars \ {0}
             PROVE  Invertible(k) /\ Mod(k * ModInverse(k)) = 1
  OBVIOUS
<1>1. Mod(k) = k /\ k \in Int
  BY ModOfScalar
<1>2. Invertible(k)
  BY <1>1, AllInvertible
<1> DEFINE x == k * ModInverse(k)
<1>3. x \in Int /\ Same(x, 1)
  BY <1>1, <1>2, ModInverseInverts
<1> HIDE DEF x
<1>4. Mod(x) = Mod(1)
  BY <1>3, ModSame
<1>5. Mod(1) = 1
  BY PrimeAssumption, ModOfScalar DEF Scalars
<1> QED
  BY <1>2, <1>4, <1>5 DEF x

-----------------------------------------------------------------------------
(* Sums modulo Prime.  The order in which SumMod() takes the elements does *)
(* not matter, and it can be done with coefficients instead of values.     *)

PickOf(s) == CHOOSE x \in s : TRUE

LEMMA Picked == ASSUME NEW s, s # {} PROVE PickOf(s) \in s
BY DEF PickOf

IsSum(g, f, S) ==
  g = [s \in SUBSET S |->
         IF s = {} THEN 0 ELSE Mod(f[PickOf(s)] + g[s \ {PickOf(s)}])]

LEMMA SumExists ==
  ASSUME NEW S, IsFiniteSet(S), NEW f, \A x \in S : f[x] \in Int
  PROVE  \E g \in [SUBSET S -> Scalars] : IsSum(g, f, S)
<1> DEFINE D == SUBSET S
           rank == [s \in D |-> Cardinality(s)]
           next == [s \in D |-> s \ {PickOf(s)}]
           base == [s \in D |-> 0]
           step == [p \in D \X Scalars |-> Mod(f[PickOf(p[1])] + p[2])]
           stop == {{}}
<1>1. \A s \in D : IsFiniteSet(s) /\ Cardinality(s) \in Nat
  BY FS_Subset, FS_CardinalityType
<1>2. rank \in [D -> Nat]
  BY <1>1
<1>3. ASSUME NEW s \in D \ stop
      PROVE  next[s] \in D /\ rank[next[s]] < rank[s]
  <2>1. PickOf(s) \in s /\ s \ {PickOf(s)} \in D
    BY <1>3, Picked
  <2>2. Cardinality(s \ {PickOf(s)}) = Cardinality(s) - 1
    BY <1>1, <2>1, FS_RemoveElement
  <2> QED
    BY <1>1, <2>1, <2>2
<1>4. 0 \in Scalars
  BY PrimeAssumption DEF Scalars
<1>5. \A s \in D, v \in Scalars : step[<<s, v>>] = Mod(f[PickOf(s)] + v)
  OBVIOUS
<1>6. ASSUME NEW s \in D, s # {}, NEW v \in Scalars PROVE Mod(f[PickOf(s)] + v) \in Scalars
  <2>1. f[PickOf(s)] \in Int /\ v \in Int
    BY <1>6, Picked DEF Scalars
  <2> QED
    BY <2>1, ModDef
<1>7. \A s \in D \ stop, v \in Scalars : step[<<s, v>>] \in Scalars
  BY <1>5, <1>6
<1>8. \A s \in D : base[s] \in Scalars
  BY <1>4
<1> HIDE DEF D, rank, next, base, step, stop
<1>9. Decreasing(D, Scalars, stop, next, base, step, rank)
  BY <1>2, <1>3, <1>7, <1>8 DEF Decreasing
<1>10. PICK g \in [D -> Scalars] : \A s \in D :
         g[s] = IF s \in stop THEN base[s] ELSE step[<<s, g[next[s]]>>]
  BY <1>9, Recursion
<1>11. ASSUME NEW s \in D
       PROVE  g[s] = IF s = {} THEN 0 ELSE Mod(f[PickOf(s)] + g[s \ {PickOf(s)}])
  <2>1. CASE s = {}
    BY <1>10, <2>1 DEF stop, base
  <2>2. CASE s # {}
    <3>1. s \in D \ stop
      BY <2>2 DEF stop
    <3>2. next[s] \in D /\ next[s] = s \ {PickOf(s)}
      BY <1>3, <3>1 DEF next
    <3>3. g[next[s]] \in Scalars
      BY <1>10, <3>2
    <3>4. step[<<s, g[next[s]]>>] = Mod(f[PickOf(s)] + g[next[s]])
      BY <1>5, <3>3
    <3> QED
      BY <1>10, <2>2, <3>1, <3>2, <3>4
  <2> QED
    BY <2>1, <2>2
<1>12. g = [s \in D |-> IF s = {} THEN 0 ELSE Mod(f[PickOf(s)] + g[s \ {PickOf(s)}])]
  <2>1. g = [s \in D |-> g[s]]
    BY <1>10
  <2> QED
    BY <1>11, <2>1
<1> QED
  BY <1>10, <1>12 DEF IsSum, D

LEMMA SumMods ==
  ASSUME NEW S, IsFiniteSet(S), NEW f, \A x \in S : f[x] \in Int
  PROVE  \E g : IsSum(g, f, S) /\ SumMod(f, S) = g[S]
<1> DEFINE sum == CHOOSE g : IsSum(g, f, S)
<1>1. IsSum(sum, f, S)
  BY SumExists
<1>2. SumMod(f, S) = sum[S]
  BY Zenon DEF SumMod, FoldFunctionOnSet, MapThenFoldSet, IsSum, PickOf
<1> QED
  BY <1>1, <1>2

\* Two sums agree where both are defined.
LEMMA SumUnique ==
  ASSUME NEW S, IsFiniteSet(S), NEW T \in SUBSET S, NEW f, NEW g, NEW h,
         IsSum(g, f, S), IsSum(h, f, T)
  PROVE  \A s \in SUBSET T : g[s] = h[s]
<1> DEFINE bad == {n \in Nat : \E s \in SUBSET T : Cardinality(s) = n /\ g[s] # h[s]}
<1>1. \A s \in SUBSET T : IsFiniteSet(s) /\ Cardinality(s) \in Nat
  BY FS_Subset, FS_CardinalityType
<1>2. ASSUME NEW n \in bad, \A k \in bad : n <= k PROVE FALSE
  <2>1. PICK s \in SUBSET T : Cardinality(s) = n /\ g[s] # h[s]
    OBVIOUS
  <2> DEFINE r == s \ {PickOf(s)}
  <2>2. s # {}
    BY <2>1 DEF IsSum
  <2>3. PickOf(s) \in s /\ r \in SUBSET T
    BY <2>2, Picked
  <2>4. g[s] = Mod(f[PickOf(s)] + g[r]) /\ h[s] = Mod(f[PickOf(s)] + h[r])
    BY <2>2 DEF IsSum
  <2>5. Cardinality(r) = n - 1 /\ Cardinality(r) \in Nat /\ n \in Nat
    BY <1>1, <2>1, <2>3, FS_RemoveElement
  <2> HIDE DEF r
  <2>6. g[r] # h[r]
    BY <2>1, <2>4
  <2>7. Cardinality(r) \in bad
    BY <2>3, <2>5, <2>6
  <2> QED
    BY <1>2, <2>5, <2>7
<1>3. bad \subseteq Nat
  OBVIOUS
<1>4. \A s \in SUBSET T : g[s] # h[s] => Cardinality(s) \in bad
  BY <1>1
<1> HIDE DEF bad
<1> QED
  BY <1>2, <1>3, <1>4, LeastNumber

\* The sum over nothing, and over one element more.
LEMMA SumEmpty == ASSUME NEW f PROVE SumMod(f, {}) = 0
<1>1. IsFiniteSet({}) /\ \A x \in {} : f[x] \in Int
  BY FS_EmptySet
<1>2. PICK g : IsSum(g, f, {}) /\ SumMod(f, {}) = g[{}]
  BY <1>1, SumMods
<1> QED
  BY <1>2 DEF IsSum

LEMMA SumScalar ==
  ASSUME NEW S, IsFiniteSet(S), NEW f, \A x \in S : f[x] \in Int
  PROVE  SumMod(f, S) \in Scalars /\ SumMod(f, S) \in Int
<1>1. PICK g \in [SUBSET S -> Scalars] : IsSum(g, f, S)
  BY SumExists
<1>2. PICK h : IsSum(h, f, S) /\ SumMod(f, S) = h[S]
  BY SumMods
<1>3. h[S] = g[S]
  BY <1>1, <1>2, SumUnique
<1> QED
  BY <1>1, <1>2, <1>3 DEF Scalars

LEMMA SumPicked ==
  ASSUME NEW S, IsFiniteSet(S), S # {}, NEW f, \A x \in S : f[x] \in Int
  PROVE  SumMod(f, S) = Mod(f[PickOf(S)] + SumMod(f, S \ {PickOf(S)}))
<1> DEFINE T == S \ {PickOf(S)}
<1>1. IsFiniteSet(T) /\ T \in SUBSET S
  BY FS_Subset
<1>2. PICK g : IsSum(g, f, S) /\ SumMod(f, S) = g[S]
  BY SumMods
<1>3. PICK h : IsSum(h, f, T) /\ SumMod(f, T) = h[T]
  BY <1>1, SumMods
<1>4. g[T] = h[T]
  BY <1>1, <1>2, <1>3, SumUnique
<1>5. g[S] = Mod(f[PickOf(S)] + g[T])
  BY <1>2 DEF IsSum
<1> QED
  BY <1>2, <1>3, <1>4, <1>5

\* Any element may be the first.
LEMMA SumOut ==
  ASSUME NEW S, IsFiniteSet(S), NEW f, \A x \in S : f[x] \in Int
  PROVE  \A s \in SUBSET S : \A y \in s :
           Same(SumMod(f, s), f[y] + SumMod(f, s \ {y}))
<1> DEFINE Out(s) == \A y \in s : Same(SumMod(f, s), f[y] + SumMod(f, s \ {y}))
           bad == {n \in Nat : \E s \in SUBSET S : Cardinality(s) = n /\ ~Out(s)}
<1>1. \A s \in SUBSET S : /\ IsFiniteSet(s) /\ Cardinality(s) \in Nat
                         /\ \A x \in s : f[x] \in Int
  BY FS_Subset, FS_CardinalityType
<1>2. \A s \in SUBSET S : SumMod(f, s) \in Int
  BY <1>1, SumScalar
<1>3. ASSUME NEW n \in bad, \A k \in bad : n <= k PROVE FALSE
  <2>1. PICK s \in SUBSET S : Cardinality(s) = n /\ ~Out(s)
    OBVIOUS
  <2>2. PICK y \in s : ~Same(SumMod(f, s), f[y] + SumMod(f, s \ {y}))
    BY <2>1
  <2>3. n \in Nat
    BY <1>1, <2>1
  <2> HIDE DEF Out
  <2> DEFINE x == PickOf(s)
             q == s \ {y}
             r == s \ {x}
             u == s \ {x, y}
             A == SumMod(f, s)
             B == SumMod(f, q)
             C == SumMod(f, r)
             E == SumMod(f, u)
  <2>4. x \in s
    BY <2>2, Picked
  <2>5. /\ q \in SUBSET S /\ r \in SUBSET S /\ u \in SUBSET S
        /\ r \ {y} = u /\ q \ {x} = u
    OBVIOUS
  <2>6. A \in Int /\ B \in Int /\ C \in Int /\ E \in Int /\ f[x] \in Int /\ f[y] \in Int
    BY <1>1, <1>2, <2>2, <2>4, <2>5
  <2>7. Same(A, f[x] + C)
    <3>1. A = Mod(f[x] + C)
      BY <1>1, <2>2, SumPicked
    <3>2. f[x] + C \in Int
      BY <2>6
    <3> HIDE DEF A, x, C
    <3> QED
      BY <3>1, <3>2, ModDef
  <2>8. CASE x = y
    BY <2>2, <2>7, <2>8
  <2>9. CASE x # y
    <3>1. y \in r /\ x \in q
      BY <2>2, <2>4, <2>9
    <3>2. Cardinality(q) < n /\ Cardinality(r) < n
      BY <1>1, <2>1, <2>2, <2>3, <2>4, FS_RemoveElement
    <3>3. Cardinality(q) \notin bad /\ Cardinality(r) \notin bad
      <4>1. Cardinality(q) \in Nat /\ Cardinality(r) \in Nat
        BY <1>1, <2>5
      <4> HIDE DEF q, r, bad
      <4> QED
        BY <1>3, <2>3, <3>2, <4>1
    <3>4. Out(q) /\ Out(r)
      BY <1>1, <2>5, <3>3
    <3>5. Same(C, f[y] + E)
      BY <2>5, <3>1, <3>4 DEF Out
    <3>6. Same(B, f[x] + E)
      BY <2>5, <3>1, <3>4 DEF Out
    <3> DEFINE a == f[x]
               b == f[y]
    <3> HIDE DEF A, B, C, E, a, b, x
    <3>0. a \in Int /\ b \in Int /\ Same(C, b + E) /\ Same(B, a + E)
      BY <2>6, <3>5, <3>6 DEF a, b
    <3>7. Same(a + C, a + (b + E)) /\ Same(b + B, b + (a + E))
      <4> DEFINE v == b + E
                 w == a + E
      <4>1. v \in Int /\ w \in Int /\ Same(C, v) /\ Same(B, w)
        BY <2>6, <3>0
      <4> HIDE DEF v, w
      <4>2. Same(a + C, a + v)
        BY <2>6, <3>0, <4>1, SameSum, SameRefl
      <4>3. Same(b + B, b + w)
        BY <2>6, <3>0, <4>1, SameSum, SameRefl
      <4> QED
        BY <4>2, <4>3 DEF v, w
    <3>8. b + (a + E) = a + (b + E)
      BY <2>6 DEF a, b
    <3>9. /\ a + C \in Int /\ a + (b + E) \in Int /\ b + B \in Int
      BY <2>6 DEF a, b
    <3>10. Same(A, a + (b + E))
      BY <2>6, <2>7, <3>7, <3>9, SameTrans DEF a
    <3>11. Same(a + (b + E), b + B)
      BY <3>7, <3>8, <3>9, SameSym
    <3>12. Same(A, b + B)
      BY <2>6, <3>9, <3>10, <3>11, SameTrans
    <3> QED
      BY <2>2, <3>12 DEF A, b, B
  <2> QED
    BY <2>8, <2>9
<1>4. bad \subseteq Nat
  OBVIOUS
<1>5. \A s \in SUBSET S : ~Out(s) => Cardinality(s) \in bad
  BY <1>1
<1>6. \A s \in SUBSET S : Out(s)
  <2> HIDE DEF bad, Out
  <2> QED
    BY <1>3, <1>4, <1>5, LeastNumber
<1> QED
  BY <1>6

\* The sum of the values of lines at c is the value at c of their sum.
LEMMA SumLine ==
  ASSUME NEW S, IsFiniteSet(S), NEW h, NEW a, NEW b, NEW c \in Int,
         \A x \in S : h[x] \in Int /\ a[x] \in Int /\ b[x] \in Int,
         \A x \in S : Same(h[x], a[x] + b[x] * c)
  PROVE  Same(SumMod(h, S), SumMod(a, S) + SumMod(b, S) * c)
<1> DEFINE Line(s) == Same(SumMod(h, s), SumMod(a, s) + SumMod(b, s) * c)
           bad == {n \in Nat : \E s \in SUBSET S : Cardinality(s) = n /\ ~Line(s)}
<1>1. \A s \in SUBSET S : /\ IsFiniteSet(s) /\ Cardinality(s) \in Nat
                         /\ \A x \in s : h[x] \in Int /\ a[x] \in Int /\ b[x] \in Int
  BY FS_Subset, FS_CardinalityType
<1>2. \A s \in SUBSET S :
        SumMod(h, s) \in Int /\ SumMod(a, s) \in Int /\ SumMod(b, s) \in Int
  BY <1>1, SumScalar
<1>3. ASSUME NEW n \in bad, \A k \in bad : n <= k PROVE FALSE
  <2>1. PICK s \in SUBSET S : Cardinality(s) = n /\ ~Line(s)
    OBVIOUS
  <2>2. n \in Nat
    BY <1>1, <2>1
  <2>3. s # {}
    <3>1. ASSUME s = {} PROVE Line(s)
      <4>1. SumMod(h, s) = 0 /\ SumMod(a, s) = 0 /\ SumMod(b, s) = 0
        BY <3>1, SumEmpty
      <4>2. 0 = 0 + 0 * c
        OBVIOUS
      <4>3. Same(0, 0)
        BY SameRefl
      <4> QED
        BY <4>1, <4>2, <4>3
    <3> QED
      BY <2>1, <3>1
  <2> DEFINE x == PickOf(s)
             r == s \ {x}
             H == SumMod(h, r)
             A == SumMod(a, r)
             B == SumMod(b, r)
             hx == h[x]
             ax == a[x]
             bx == b[x]
  <2>4. x \in s /\ r \in SUBSET S
    BY <2>3, Picked
  <2>5. /\ hx \in Int /\ ax \in Int /\ bx \in Int
        /\ H \in Int /\ A \in Int /\ B \in Int
        /\ Same(hx, ax + bx * c)
    BY <1>1, <1>2, <2>1, <2>4
  <2>6. SumMod(h, s) = Mod(hx + H) /\ SumMod(a, s) = Mod(ax + A)
        /\ SumMod(b, s) = Mod(bx + B)
    BY <1>1, <2>3, SumPicked
  <2>7. Cardinality(r) < n /\ Cardinality(r) \in Nat
    BY <1>1, <2>1, <2>2, <2>4, FS_RemoveElement
  <2>8. Line(r)
    <3> HIDE DEF Line, r
    <3>1. Cardinality(r) \notin bad
      <4> HIDE DEF bad
      <4> QED
        BY <1>3, <2>2, <2>7
    <3> QED
      BY <2>4, <2>7, <3>1
  <2>9. Same(H, A + B * c)
    BY <2>8
  <2> HIDE DEF r, H, A, B, hx, ax, bx, x
  <2>10. Same(hx + H, (ax + bx * c) + (A + B * c))
    <3> DEFINE l == ax + bx * c
               m == A + B * c
    <3>1. l \in Int /\ m \in Int /\ Same(hx, l) /\ Same(H, m)
      BY <2>5, <2>9
    <3> HIDE DEF l, m
    <3>2. Same(hx + H, l + m)
      BY <2>5, <3>1, SameSum
    <3> QED
      BY <3>2 DEF l, m
  <2>11. Same(Mod(bx + B) * c, (bx + B) * c)
    <3>1. bx + B \in Int
      BY <2>5
    <3> QED
      BY <3>1, ModInside, Zenon
  <2>12. Same(Mod(ax + A) + Mod(bx + B) * c, (ax + A) + (bx + B) * c)
    <3> DEFINE k == ax + A
               l == Mod(bx + B) * c
               m == (bx + B) * c
    <3>1. k \in Int /\ bx + B \in Int /\ m \in Int
      BY <2>5
    <3>2. Mod(bx + B) \in Int /\ Mod(k) \in Int /\ Same(Mod(k), k)
      BY <3>1, ModDef
    <3>3. l \in Int
      BY <3>2
    <3>4. Same(l, m)
      BY <2>11
    <3> HIDE DEF k, l, m
    <3>5. Same(Mod(k) + l, k + m)
      BY <3>1, <3>2, <3>3, <3>4, SameSum
    <3> QED
      BY <3>5 DEF k, l, m
  <2>13. (ax + A) + (bx + B) * c = (ax + bx * c) + (A + B * c)
    BY <2>5
  <2>14. Same(Mod(hx + H), hx + H) /\ Mod(hx + H) \in Int
    BY <2>5, ModDef
  <2>15. Line(s)
    <3> DEFINE k == Mod(hx + H)
               l == hx + H
               m == (ax + A) + (bx + B) * c
               o == Mod(ax + A) + Mod(bx + B) * c
    <3>1. k \in Int /\ l \in Int /\ m \in Int
      BY <2>5, <2>14
    <3>2. o \in Int
      <4>1. ax + A \in Int /\ bx + B \in Int
        BY <2>5
      <4>2. Mod(ax + A) \in Int /\ Mod(bx + B) \in Int
        BY <4>1, ModDef
      <4> QED
        BY <4>2
    <3>3. Same(k, l) /\ Same(l, m) /\ Same(o, m)
      BY <2>10, <2>12, <2>13, <2>14
    <3> HIDE DEF k, l, m, o
    <3>4. Same(k, o)
      BY <3>1, <3>2, <3>3, SameSym, SameTrans
    <3> QED
      BY <2>6, <3>4 DEF k, o
  <2> QED
    BY <2>1, <2>15
<1>4. bad \subseteq Nat
  OBVIOUS
<1>5. ~Line(S) => Cardinality(S) \in bad
  BY <1>1
<1>6. Line(S)
  <2> HIDE DEF bad, Line
  <2> QED
    BY <1>3, <1>4, <1>5, LeastNumber
<1> QED
  BY <1>6

\* A sum depends only on the values it adds.
LEMMA SumAgrees ==
  ASSUME NEW S, IsFiniteSet(S), NEW f, NEW g, \A x \in S : f[x] \in Int /\ f[x] = g[x]
  PROVE  SumMod(f, S) = SumMod(g, S)
<1>1. \A x \in S : f[x] \in Int /\ g[x] \in Int /\ Same(f[x], g[x] + g[x] * 0)
  <2>1. \A n \in Int : n + n * 0 = n
    OBVIOUS
  <2> QED
    BY <2>1, SameRefl
<1>2. Same(SumMod(f, S), SumMod(g, S) + SumMod(g, S) * 0)
  BY <1>1, SumLine
<1>3. SumMod(f, S) \in Scalars /\ SumMod(g, S) \in Scalars /\ SumMod(g, S) \in Int
  BY <1>1, SumScalar
<1>4. SumMod(g, S) + SumMod(g, S) * 0 = SumMod(g, S)
  BY <1>3
<1> QED
  BY <1>2, <1>3, <1>4, SameScalars

-----------------------------------------------------------------------------
(* What a party takes in.  Nothing is needed of the secret shares, which   *)
(* the rounds never read back.                                             *)

MailTyped ==
  \A m \in mail :
    /\ m \in [from : Parties, to : Parties, share : Scalars \cup {Garbled}]
    /\ m.from # m.to

StatesTyped ==
  /\ DOMAIN states \subseteq Parties
  /\ states = [p \in DOMAIN states |->
       [polynomial |-> states[p].polynomial,
        receivedShares |-> states[p].receivedShares,
        secretShare |-> states[p].secretShare,
        publicKey |-> states[p].publicKey,
        counted |-> states[p].counted]]
  /\ \A p \in DOMAIN states :
       /\ states[p].polynomial \in Polynomials
       /\ states[p].receivedShares \in [Parties -> Scalars \cup {None}]

IInv == MailTyped /\ StatesTyped /\ ReceivedVerified

-----------------------------------------------------------------------------
(* The value of a polynomial is a scalar.                                  *)

LEMMA ShareScalar ==
  ASSUME NEW polynomial \in Polynomials, NEW p \in Parties
  PROVE  ShareFor(polynomial, p) \in Scalars
<1>1. polynomial[1] \in Int /\ polynomial[2] \in Int /\ p \in Int
  BY PolynomialsAssumption, PartiesAssumption, PrimeAssumption DEF Scalars
<1>2. polynomial[2] * p \in Int
  BY <1>1
<1>3. Mod(polynomial[2] * p) \in Int
  BY <1>2, ModDef DEF Scalars
<1>4. polynomial[1] + Mod(polynomial[2] * p) \in Int
  BY <1>1, <1>3
<1> QED
  BY <1>4, ModDef DEF ShareFor

(* A message that is taken in carries the current value of its sender's    *)
(* polynomial, whatever the noise is.                                      *)
LEMMA AcceptedVerified ==
  ASSUME NEW batch, NEW noise, NEW m \in Accepted(batch, noise)
  PROVE  /\ m \in batch
         /\ Decrypted(m, noise) = ShareFor(states[m.from].polynomial, m.to)
BY DEF Accepted, Verified

LEMMA InitIInv == KeyInit => IInv
BY DEF KeyInit, IInv, MailTyped, StatesTyped, ReceivedVerified, NoStates

LEMMA StartRound1Step == IInv /\ StartRound1 => IInv'
<1> SUFFICES ASSUME IInv, StartRound1 PROVE IInv'
  OBVIOUS
<1>1. MailTyped'
  BY DEF IInv, MailTyped, StartRound1
<1>2. PICK polynomial \in [Parties -> Polynomials] :
        states' = [p \in Parties |->
          [polynomial |-> polynomial[p],
           receivedShares |-> [q \in Parties |-> None],
           secretShare |-> None,
           publicKey |-> None,
           counted |-> {}]]
  BY DEF StartRound1
<1>3. DOMAIN states' = Parties
  BY <1>2
<1>4. \A p \in Parties : states'[p].receivedShares = [q \in Parties |-> None]
  BY <1>2
<1>5. StatesTyped'
  BY <1>2, <1>3, <1>4 DEF StatesTyped
<1>6. ReceivedVerified'
  BY <1>3, <1>4 DEF ReceivedVerified
<1> QED
  BY <1>1, <1>5, <1>6 DEF IInv

LEMMA StartRound2Step == IInv /\ StartRound2 => IInv'
<1> SUFFICES ASSUME IInv, StartRound2 PROVE IInv'
  OBVIOUS
<1>1. ASSUME NEW m \in mail'
      PROVE  /\ m \in [from : Parties, to : Parties, share : Scalars \cup {Garbled}]
             /\ m.from # m.to
  <2>1. PICK p \in DOMAIN states, q \in Parties :
          /\ p # q
          /\ m = [from |-> p, to |-> q, share |-> ShareFor(states[p].polynomial, q)]
    BY <1>1 DEF StartRound2
  <2>2. p \in Parties /\ states[p].polynomial \in Polynomials
    BY DEF IInv, StatesTyped
  <2>3. ShareFor(states[p].polynomial, q) \in Scalars
    BY <2>2, ShareScalar
  <2> QED
    BY <2>1, <2>2, <2>3
<1>2. StatesTyped' /\ ReceivedVerified'
  BY DEF IInv, StartRound2, StatesTyped, ReceivedVerified
<1> QED
  BY <1>1, <1>2 DEF IInv, MailTyped

LEMMA TamperStep == ASSUME NEW m \in mail PROVE IInv /\ Tamper(m) => IInv'
<1> SUFFICES ASSUME IInv, Tamper(m) PROVE IInv'
  OBVIOUS
<1>1. MailTyped'
  BY DEF IInv, MailTyped, Tamper
<1>2. StatesTyped' /\ ReceivedVerified'
  BY DEF IInv, Tamper, StatesTyped, ReceivedVerified
<1> QED
  BY <1>1, <1>2 DEF IInv

LEMMA ProcessRound2Step ==
  ASSUME NEW senders \in SUBSET Parties, NEW noise \in Noise
  PROVE  IInv /\ ProcessRound2(senders, noise) => IInv'
<1> SUFFICES ASSUME IInv, ProcessRound2(senders, noise) PROVE IInv'
  OBVIOUS
<1> DEFINE batch == {m \in mail : m.from \in senders}
           accepted == Accepted(batch, noise)
           taken(p, q) == \E m \in accepted : m.from = q /\ m.to = p
           message(p, q) == CHOOSE m \in accepted : m.from = q /\ m.to = p
           received(p) == [q \in Parties |->
                             IF taken(p, q) THEN Decrypted(message(p, q), noise)
                             ELSE states[p].receivedShares[q]]
<1>1. states' = [p \in DOMAIN states |->
                   [states[p] EXCEPT !.receivedShares = received(p)]]
  BY DEF ProcessRound2
<1>2. DOMAIN states' = DOMAIN states
  BY <1>1
<1>3. \A p \in DOMAIN states :
        states'[p] = [polynomial |-> states[p].polynomial,
                      receivedShares |-> received(p),
                      secretShare |-> states[p].secretShare,
                      publicKey |-> states[p].publicKey,
                      counted |-> states[p].counted]
  <2> SUFFICES ASSUME NEW p \in DOMAIN states
               PROVE  states'[p] = [polynomial |-> states[p].polynomial,
                                    receivedShares |-> received(p),
                                    secretShare |-> states[p].secretShare,
                                    publicKey |-> states[p].publicKey,
                                    counted |-> states[p].counted]
    OBVIOUS
  <2> HIDE DEF received
  <2>1. states[p] = [polynomial |-> states[p].polynomial,
                     receivedShares |-> states[p].receivedShares,
                     secretShare |-> states[p].secretShare,
                     publicKey |-> states[p].publicKey,
                     counted |-> states[p].counted]
    BY DEF IInv, StatesTyped
  <2>2. states'[p] = [states[p] EXCEPT !.receivedShares = received(p)]
    BY <1>1
  <2> QED
    BY <2>1, <2>2
<1>4. ASSUME NEW p \in Parties, NEW q \in Parties, taken(p, q)
      PROVE  /\ p # q
             /\ Decrypted(message(p, q), noise) = ShareFor(states[q].polynomial, p)
             /\ Decrypted(message(p, q), noise) \in Scalars
  <2>1. message(p, q) \in accepted /\ message(p, q).from = q /\ message(p, q).to = p
    BY <1>4
  <2> HIDE DEF message, accepted, batch
  <2>2. message(p, q) \in batch
        /\ Decrypted(message(p, q), noise) = ShareFor(states[q].polynomial, p)
    BY <2>1, AcceptedVerified DEF accepted
  <2>3. message(p, q) \in mail
    BY <2>2 DEF batch
  <2>4. /\ message(p, q) \in [from : Parties, to : Parties,
                              share : Scalars \cup {Garbled}]
        /\ p # q
    BY <2>1, <2>3 DEF IInv, MailTyped
  <2>5. Decrypted(message(p, q), noise) \in Scalars
    BY <2>4, NoiseAssumption DEF Decrypted
  <2> QED
    BY <2>2, <2>4, <2>5
<1> HIDE DEF taken, message, accepted, batch
<1>5. \A p \in DOMAIN states : received(p) \in [Parties -> Scalars \cup {None}]
  BY <1>4 DEF IInv, StatesTyped
<1>6. \A p \in DOMAIN states :
        /\ states'[p].receivedShares = received(p)
        /\ states'[p].polynomial = states[p].polynomial
  <2> SUFFICES ASSUME NEW p \in DOMAIN states
               PROVE  /\ states'[p].receivedShares = received(p)
                      /\ states'[p].polynomial = states[p].polynomial
    OBVIOUS
  <2> DEFINE shares == received(p)
  <2>1. states'[p] = [polynomial |-> states[p].polynomial,
                      receivedShares |-> shares,
                      secretShare |-> states[p].secretShare,
                      publicKey |-> states[p].publicKey,
                      counted |-> states[p].counted]
    BY <1>3
  <2> HIDE DEF shares
  <2>2. states'[p].receivedShares = shares
    BY <2>1
  <2>3. states'[p].polynomial = states[p].polynomial
    BY <2>1
  <2> QED
    BY <2>2, <2>3 DEF shares
<1>7. StatesTyped'
  <2> HIDE DEF received
  <2>1. DOMAIN states' \subseteq Parties
    BY <1>2 DEF IInv, StatesTyped
  <2>2. states' = [p \in DOMAIN states' |->
          [polynomial |-> states'[p].polynomial,
           receivedShares |-> states'[p].receivedShares,
           secretShare |-> states'[p].secretShare,
           publicKey |-> states'[p].publicKey,
           counted |-> states'[p].counted]]
    <3>1. \A p \in DOMAIN states' :
            states'[p] = [polynomial |-> states'[p].polynomial,
                          receivedShares |-> states'[p].receivedShares,
                          secretShare |-> states'[p].secretShare,
                          publicKey |-> states'[p].publicKey,
                          counted |-> states'[p].counted]
      BY <1>2, <1>3
    <3>2. states' = [p \in DOMAIN states' |-> states'[p]]
      BY <1>1
    <3> QED
      BY <3>1, <3>2
  <2>3. \A p \in DOMAIN states' :
          /\ states'[p].polynomial \in Polynomials
          /\ states'[p].receivedShares \in [Parties -> Scalars \cup {None}]
    BY <1>2, <1>3, <1>5 DEF IInv, StatesTyped
  <2> QED
    BY <2>1, <2>2, <2>3 DEF StatesTyped
<1>8. ReceivedVerified'
  <2>1. ASSUME NEW p \in DOMAIN states, NEW q \in DOMAIN states,
               received(p)[q] # None
        PROVE  p # q /\ received(p)[q] = ShareFor(states[q].polynomial, p)
    <3>1. p \in Parties /\ q \in Parties
      BY DEF IInv, StatesTyped
    <3>2. CASE taken(p, q)
      BY <3>1, <3>2, <1>4
    <3>3. CASE ~ taken(p, q)
      BY <2>1, <3>1, <3>3 DEF IInv, ReceivedVerified
    <3> QED
      BY <3>2, <3>3
  <2> HIDE DEF received
  <2>2. ASSUME NEW p \in DOMAIN states', NEW q \in DOMAIN states',
               states'[p].receivedShares[q] # None
        PROVE  /\ p # q
               /\ states'[p].receivedShares[q] = ShareFor(states'[q].polynomial, p)
    <3>1. p \in DOMAIN states /\ q \in DOMAIN states
      BY <1>2
    <3>2. /\ states'[p].receivedShares = received(p)
          /\ states'[q].polynomial = states[q].polynomial
      BY <1>6, <3>1
    <3>3. ShareFor(states'[q].polynomial, p) = ShareFor(states[q].polynomial, p)
      BY <3>2 DEF ShareFor
    <3>4. received(p)[q] # None
      BY <2>2, <3>2
    <3>5. p # q /\ received(p)[q] = ShareFor(states[q].polynomial, p)
      BY <2>1, <3>1, <3>4
    <3> QED
      BY <3>2, <3>3, <3>5
  <2> QED
    BY <2>2 DEF ReceivedVerified, ShareFor, Mod
<1>9. MailTyped'
  BY DEF IInv, MailTyped, ProcessRound2
<1> QED
  BY <1>7, <1>8, <1>9 DEF IInv

LEMMA StartRound3Step == IInv /\ StartRound3 => IInv'
<1> SUFFICES ASSUME IInv, StartRound3 PROVE IInv'
  OBVIOUS
<1>1. states' = [p \in DOMAIN states |->
        [states[p] EXCEPT !.secretShare = SecretShare(p),
                          !.publicKey = JointKey,
                          !.counted = HeardFrom(p)]]
  BY DEF StartRound3
<1>2. DOMAIN states' = DOMAIN states
  BY <1>1
<1>3. \A p \in DOMAIN states :
        states'[p] = [polynomial |-> states[p].polynomial,
                      receivedShares |-> states[p].receivedShares,
                      secretShare |-> SecretShare(p),
                      publicKey |-> JointKey,
                      counted |-> HeardFrom(p)]
  <2> SUFFICES ASSUME NEW p \in DOMAIN states
               PROVE  states'[p] = [polynomial |-> states[p].polynomial,
                                    receivedShares |-> states[p].receivedShares,
                                    secretShare |-> SecretShare(p),
                                    publicKey |-> JointKey,
                                    counted |-> HeardFrom(p)]
    OBVIOUS
  <2>1. states[p] = [polynomial |-> states[p].polynomial,
                     receivedShares |-> states[p].receivedShares,
                     secretShare |-> states[p].secretShare,
                     publicKey |-> states[p].publicKey,
                     counted |-> states[p].counted]
    BY DEF IInv, StatesTyped
  <2> QED
    BY <1>1, <2>1
<1>4. StatesTyped'
  <2>1. \A p \in DOMAIN states' :
          states'[p] = [polynomial |-> states'[p].polynomial,
                        receivedShares |-> states'[p].receivedShares,
                        secretShare |-> states'[p].secretShare,
                        publicKey |-> states'[p].publicKey,
                        counted |-> states'[p].counted]
    BY <1>2, <1>3
  <2>2. states' = [p \in DOMAIN states' |-> states'[p]]
    BY <1>1
  <2>3. states' = [p \in DOMAIN states' |->
          [polynomial |-> states'[p].polynomial,
           receivedShares |-> states'[p].receivedShares,
           secretShare |-> states'[p].secretShare,
           publicKey |-> states'[p].publicKey,
           counted |-> states'[p].counted]]
    BY <2>1, <2>2
  <2>4. \A p \in DOMAIN states' :
          /\ states'[p].polynomial \in Polynomials
          /\ states'[p].receivedShares \in [Parties -> Scalars \cup {None}]
    BY <1>2, <1>3 DEF IInv, StatesTyped
  <2>5. DOMAIN states' \subseteq Parties
    BY <1>2 DEF IInv, StatesTyped
  <2> QED
    BY <2>3, <2>4, <2>5 DEF StatesTyped
<1>5. ReceivedVerified'
  BY <1>2, <1>3 DEF IInv, ReceivedVerified
<1>6. MailTyped'
  BY DEF IInv, MailTyped, StartRound3
<1> QED
  BY <1>4, <1>5, <1>6 DEF IInv

LEMMA FinalizeStep == IInv /\ Finalize => IInv'
BY DEF IInv, Finalize, MailTyped, StatesTyped, ReceivedVerified, NoStates

LEMMA StepIInv == IInv /\ [KeyNext]_keyVars => IInv'
<1> SUFFICES ASSUME IInv, [KeyNext]_keyVars PROVE IInv'
  OBVIOUS
<1>1. CASE StartRound1
  BY <1>1, StartRound1Step
<1>2. CASE StartRound2
  BY <1>2, StartRound2Step
<1>3. CASE \E m \in mail : Tamper(m)
  BY <1>3, TamperStep
<1>4. CASE \E senders \in SUBSET Parties, noise \in Noise :
             ProcessRound2(senders, noise)
  BY <1>4, ProcessRound2Step
<1>5. CASE StartRound3
  BY <1>5, StartRound3Step
<1>6. CASE Finalize
  BY <1>6, FinalizeStep
<1>7. CASE UNCHANGED keyVars
  BY <1>7 DEF keyVars, IInv, MailTyped, StatesTyped, ReceivedVerified
<1> QED
  BY <1>1, <1>2, <1>3, <1>4, <1>5, <1>6, <1>7 DEF KeyNext

\* In every reachable state of a key generation, what a party has taken in from
\* another is the other's current polynomial at its number: processRound2()
\* lets nothing else pass, and startRound1() leaves nothing behind.
THEOREM OnlyVerifiedShares == KeySpec => []ReceivedVerified
<1>1. IInv => ReceivedVerified
  BY DEF IInv
<1> QED
  BY <1>1, InitIInv, StepIInv, PTL DEF KeySpec

-----------------------------------------------------------------------------
(* The secret shares of one key lie on a line, which two of them determine.*)

SlopeSum == SumMod([q \in Parties |-> states[q].polynomial[2]], Parties)

LEMMA PartiesFinite == IsFiniteSet(Parties)
<1>1. IsFiniteSet(1..(Prime - 1))
  BY PrimeAssumption, FS_Interval
<1> QED
  BY <1>1, PartiesAssumption, FS_Subset

LEMMA PartyNumber == ASSUME NEW p \in Parties
                     PROVE  p \in Int /\ 0 < p /\ p < Prime
BY PartiesAssumption, PrimeAssumption

LEMMA ShareOnLine ==
  ASSUME NEW polynomial \in Polynomials, NEW p \in Parties
  PROVE  /\ polynomial[1] \in Int /\ polynomial[2] \in Int
         /\ ShareFor(polynomial, p) \in Int
         /\ Same(ShareFor(polynomial, p), polynomial[1] + polynomial[2] * p)
<1> DEFINE a == polynomial[1]
           b == polynomial[2]
           c == b * p
<1>1. a \in Int /\ b \in Int /\ p \in Int /\ c \in Int
  BY PolynomialsAssumption, PartyNumber DEF Scalars
<1>2. ShareFor(polynomial, p) = Mod(a + Mod(c))
  BY DEF ShareFor
<1> HIDE DEF a, c
<1>3. Mod(c) \in Int /\ Same(a + Mod(c), a + c)
  BY <1>1, ModDef, ModInside
<1> DEFINE d == a + Mod(c)
           e == a + c
<1>4. d \in Int /\ e \in Int /\ Same(d, e)
  BY <1>1, <1>3
<1> HIDE DEF d, e
<1>5. Mod(d) \in Int /\ Same(Mod(d), d)
  BY <1>4, ModDef
<1>6. Same(Mod(d), e)
  BY <1>4, <1>5, SameTrans
<1> QED
  BY <1>1, <1>2, <1>5, <1>6 DEF a, c, d, e

\* Every party has a state from the first round on.
StatesWhole == DOMAIN states \in {{}, Parties}

LEMMA KeysAreScalars ==
  ASSUME IInv, DOMAIN states = Parties
  PROVE  JointKey \in Scalars /\ SlopeSum \in Scalars
<1>1. \A q \in Parties : states[q].polynomial[1] \in Int /\ states[q].polynomial[2] \in Int
  BY ShareOnLine DEF IInv, StatesTyped
<1> DEFINE a == [q \in Parties |-> states[q].polynomial[1]]
           b == [q \in Parties |-> states[q].polynomial[2]]
<1>2. \A q \in Parties : a[q] \in Int /\ b[q] \in Int
  BY <1>1
<1> HIDE DEF a, b
<1>3. SumMod(a, Parties) \in Scalars /\ SumMod(b, Parties) \in Scalars
  BY <1>2, PartiesFinite, SumScalar
<1> QED
  BY <1>3 DEF a, b, JointKey, SlopeSum

\* What startRound3() adds up is a scalar, and on the line of all polynomials
\* when every other party has been heard.
LEMMA SecretShareOnLine ==
  ASSUME IInv, DOMAIN states = Parties, NEW p \in Parties
  PROVE  /\ SecretShare(p) \in Scalars
         /\ HeardFrom(p) = Parties \ {p} =>
              SecretShare(p) = Mod(JointKey + SlopeSum * p)
<1> DEFINE a == [q \in Parties |-> states[q].polynomial[1]]
           b == [q \in Parties |-> states[q].polynomial[2]]
           h == [q \in Parties |-> ShareFor(states[q].polynomial, p)]
           f == states[p].receivedShares
           heard == HeardFrom(p)
           others == Parties \ {p}
           A == JointKey
           B == SlopeSum
<1>1. \A q \in Parties :
        /\ states[q].polynomial \in Polynomials
        /\ a[q] \in Int /\ b[q] \in Int /\ h[q] \in Int
        /\ Same(h[q], a[q] + b[q] * p)
  <2>1. \A q \in Parties : states[q].polynomial \in Polynomials
    BY DEF IInv, StatesTyped
  <2> QED
    BY <2>1, ShareOnLine
<1>2. heard \subseteq Parties /\ \A q \in heard : f[q] \in Scalars /\ f[q] \in Int
  BY DEF IInv, StatesTyped, HeardFrom, Scalars
<1>3. IsFiniteSet(heard) /\ IsFiniteSet(others)
  BY <1>2, PartiesFinite, FS_Subset
<1>4. A = SumMod(a, Parties) /\ B = SumMod(b, Parties) /\ A \in Int /\ B \in Int
  BY KeysAreScalars DEF JointKey, SlopeSum, Scalars
<1>5. SecretShare(p) = Mod(SumMod(f, heard) + h[p])
  BY DEF SecretShare
<1>6. p \in Int
  BY PartyNumber
<1> HIDE DEF a, b, h, f, heard, A, B
<1> DEFINE F == SumMod(f, heard)
           d == F + h[p]
           e == A + B * p
<1>7. F \in Int /\ d \in Int /\ e \in Int
  <2>1. F \in Int
    BY <1>2, <1>3, SumScalar
  <2> QED
    BY <1>1, <1>4, <1>6, <2>1
<1>8. SecretShare(p) \in Scalars
  <2> HIDE DEF d
  <2> QED
    BY <1>5, <1>7, ModDef DEF d
<1>9. ASSUME heard = others PROVE Same(d, e)
  <2>1. Same(SumMod(h, Parties), e)
    BY <1>1, <1>4, <1>6, PartiesFinite, SumLine
  <2> DEFINE H == SumMod(h, Parties)
             G == SumMod(h, others)
  <2>2. Parties \in SUBSET Parties /\ Same(H, h[p] + G)
    BY <1>1, PartiesFinite, SumOut
  <2>3. \A q \in others : f[q] \in Int /\ f[q] = h[q]
    <3>1. \A q \in others : f[q] # None => f[q] = h[q]
      BY DEF f, h, IInv, ReceivedVerified
    <3>2. \A q \in others : f[q] # None /\ f[q] \in Int
      BY <1>2, <1>9 DEF f, heard, HeardFrom
    <3> QED
      BY <3>1, <3>2
  <2>4. F = G
    BY <1>3, <1>9, <2>3, SumAgrees
  <2>5. h[p] + G = d
    <3>1. G \in Int /\ h[p] \in Int
      BY <1>1, <1>7, <2>4
    <3> HIDE DEF G, F
    <3> QED
      BY <2>4, <3>1
  <2>6. H \in Int
    BY <1>1, PartiesFinite, SumScalar
  <2> HIDE DEF H, G, d, e
  <2>7. Same(H, d) /\ Same(H, e)
    BY <2>1, <2>2, <2>5 DEF H
  <2> QED
    BY <1>7, <2>6, <2>7, SameSym, SameTrans
<1> HIDE DEF d, e
<1>10. heard = others => Mod(d) = Mod(e)
  BY <1>7, <1>9, ModSame
<1> QED
  BY <1>5, <1>8, <1>10 DEF d, e, heard, A, B

-----------------------------------------------------------------------------
(* The weights of lagrangeCoefficient().                                   *)

LEMMA SameOne ==
  ASSUME NEW a \in Int, NEW c \in Int, Same(a, 1) PROVE Same(c * a, c)
<1> DEFINE one == 1
           x == c * one
<1>1. one \in Int /\ Same(a, one) /\ x = c
  OBVIOUS
<1> HIDE DEF one
<1>2. Same(c * a, x)
  BY <1>1, SameScaled
<1> QED
  BY <1>1, <1>2

LEMMA SameZero ==
  ASSUME NEW a \in Int, NEW c \in Int, Same(a, 0) PROVE Same(c * a, 0)
<1> DEFINE zero == 0
           x == c * zero
<1>1. zero \in Int /\ Same(a, zero) /\ x = 0
  OBVIOUS
<1> HIDE DEF zero
<1>2. Same(c * a, x)
  BY <1>1, SameScaled
<1> QED
  BY <1>1, <1>2

\* The two weights of lagrangeCoefficient() take the line back to its value at 0.
LEMMA WeightsSum ==
  ASSUME NEW d \in Int, NEW u \in Int, NEW v \in Int,
         Same(d * u, 1), Same((-d) * v, 1)
  PROVE  Same(u + v, 0)
<1> DEFINE w == u + v
           x == d * u
           y == (-d) * v
           z == x + (-1) * y
<1>1. x \in Int /\ y \in Int /\ w \in Int /\ z \in Int
  OBVIOUS
<1>2. z = d * w
  OBVIOUS
<1>3. Same(x, 1) /\ Same(y, 1)
  OBVIOUS
<1> HIDE DEF x, y, w
<1> DEFINE y1 == (-1) * y
<1>4. y1 \in Int /\ Same(y1, -1) /\ -1 \in Int /\ 1 + (-1) = 0
  <2> DEFINE m == -1
  <2>1. m \in Int
    OBVIOUS
  <2> HIDE DEF m
  <2>2. Same(m * y, m)
    BY <1>1, <1>3, <2>1, SameOne
  <2> QED
    BY <1>1, <2>2 DEF m
<1> HIDE DEF y1
<1>5. Same(x + y1, 1 + (-1))
  BY <1>1, <1>3, <1>4, SameSum
<1>6. Same(z, 0)
  BY <1>4, <1>5 DEF y1
<1> HIDE DEF z
<1>7. Same(u * z, 0) /\ u * z = w * x
  <2>1. Same(u * z, 0)
    BY <1>1, <1>6, SameZero
  <2>2. u * (d * w) = w * (d * u)
    BY <1>1
  <2> QED
    BY <1>2, <2>1, <2>2 DEF x
<1>8. Same(w * x, w)
  BY <1>1, <1>3, SameOne
<1> DEFINE xw == w * x
<1>12. xw \in Int /\ Same(xw, 0) /\ Same(xw, w)
  BY <1>1, <1>7, <1>8
<1> HIDE DEF xw
<1>13. Same(w, 0)
  BY <1>1, <1>12, SameSym, SameTrans
<1> QED
  BY <1>13 DEF w

LEMMA Inverses ==
  ASSUME NEW p \in Parties, NEW q \in Parties, p # q
  PROVE  /\ ModInverse(Mod(p - q)) \in Int
         /\ Same((p - q) * ModInverse(Mod(p - q)), 1)
<1> DEFINE d == p - q
           m == Mod(d)
           u == ModInverse(m)
<1>1. d \in Int /\ d # 0 /\ -Prime < d /\ d < Prime /\ Prime \in Int
  BY PartyNumber, PrimeAssumption
<1> HIDE DEF d
<1>2. m \in Scalars /\ m \in Int /\ Same(m, d)
  BY <1>1, ModDef
<1>3. m # 0
  <2>1. ASSUME m = 0 PROVE FALSE
    <3>1. Same(d, 0)
      BY <1>1, <1>2, <2>1, SameSym
    <3>2. PICK k \in Int : d = 0 + k * Prime
      BY <3>1 DEF Same, Congruent
    <3>3. d = Prime * k
      BY <1>1, <3>2
    <3>4. k = 0
      BY <1>1, <3>3, NoMultipleBetween
    <3> QED
      BY <1>1, <3>3, <3>4
  <2> QED
    BY <2>1
<1>4. Mod(m) = m
  BY <1>2, ModOfScalar
<1> HIDE DEF m
<1>5. Invertible(m)
  BY <1>2, <1>3, <1>4, AllInvertible
<1>6. u \in Int /\ Same(m * u, 1)
  BY <1>2, <1>5, ModInverseInverts
<1> HIDE DEF u
<1>7. Same(m * u, d * u)
  BY <1>1, <1>2, <1>6, SameScaled
<1> DEFINE mu == m * u
           du == d * u
<1>8. mu \in Int /\ du \in Int /\ Same(mu, 1) /\ Same(mu, du)
  BY <1>1, <1>2, <1>6, <1>7
<1> HIDE DEF mu, du
<1>9. Same(du, 1)
  BY <1>8, SameSym, SameTrans
<1> QED
  BY <1>6, <1>9 DEF du, u, m, d

\* A weight times a share is the weight without reductions times the line.
LEMMA Weighted ==
  ASSUME NEW p \in Parties, NEW q \in Parties, p # q, NEW e \in Int
  PROVE  /\ Lagrange(p, q) \in Int /\ Mod(e) \in Int
         /\ Same(Lagrange(p, q) * Mod(e), (-(q * ModInverse(Mod(p - q)))) * e)
<1> DEFINE u == ModInverse(Mod(p - q))
           l == -(q * u)
<1>1. u \in Int /\ p \in Int /\ q \in Int
  BY Inverses, PartyNumber
<1>2. Lagrange(p, q) = Mod(l)
  BY DEF Lagrange
<1> HIDE DEF u
<1>3. l \in Int
  BY <1>1
<1> HIDE DEF l
<1>4. /\ Mod(l) \in Int /\ Same(Mod(l), l)
      /\ Mod(e) \in Int /\ Same(Mod(e), e)
  BY <1>3, ModDef
<1>5. Same(Mod(l) * Mod(e), l * e)
  BY <1>3, <1>4, SameProduct
<1> QED
  BY <1>2, <1>4, <1>5 DEF l, u

LEMMA LineAtZero ==
  ASSUME NEW p \in Parties, NEW q \in Parties, p # q, NEW A \in Int, NEW B \in Int
  PROVE  Same(Lagrange(p, q) * Mod(A + B * p) + Lagrange(q, p) * Mod(A + B * q), A)
<1> DEFINE u == ModInverse(Mod(p - q))
           v == ModInverse(Mod(q - p))
           d == p - q
           s == A + B * p
           t == A + B * q
           l == (-(q * u)) * s
           m == (-(p * v)) * t
           w == u + v
           du == d * u
           c == p * A + p * q * B
<1>1. /\ p \in Int /\ q \in Int /\ u \in Int /\ v \in Int
      /\ Same(d * u, 1) /\ Same((q - p) * v, 1)
  BY Inverses, PartyNumber
<1> HIDE DEF u, v
<1>2. q - p = -d
  BY <1>1
<1>3. d \in Int /\ s \in Int /\ t \in Int /\ w \in Int /\ du \in Int /\ c \in Int
  BY <1>1
<1>3a. l \in Int /\ m \in Int
  BY <1>1, <1>3
<1>4. Same((-d) * v, 1)
  BY <1>1, <1>2
<1>5. Same(w, 0)
  <2> HIDE DEF d
  <2> QED
    BY <1>1, <1>3, <1>4, WeightsSum
<1>6. l + m = A * du + (-c) * w
  BY <1>1
<1> HIDE DEF d, s, t, l, m, w, du, c
<1> DEFINE x == A * du
           y == (-c) * w
<1>7. -c \in Int /\ x \in Int /\ y \in Int /\ A + 0 = A
  BY <1>3
<1>8. Same(du, 1)
  BY <1>1 DEF du, d
<1>9. Same(x, A) /\ Same(y, 0)
  BY <1>3, <1>5, <1>7, <1>8, SameOne, SameZero
<1> HIDE DEF x, y
<1>10. Same(x + y, A + 0)
  BY <1>7, <1>9, SameSum
<1>11. Same(l + m, A)
  BY <1>6, <1>7, <1>10 DEF x, y
<1> DEFINE i == Lagrange(p, q) * Mod(s)
           j == Lagrange(q, p) * Mod(t)
<1>12. i \in Int /\ Same(i, l)
  <2>1. Lagrange(p, q) \in Int /\ Mod(s) \in Int /\ Same(i, l)
    BY <1>3, Weighted DEF l, u
  <2> QED
    BY <2>1
<1>13. j \in Int /\ Same(j, m)
  <2>1. Lagrange(q, p) \in Int /\ Mod(t) \in Int /\ Same(j, m)
    BY <1>3, Weighted DEF m, v
  <2> QED
    BY <2>1
<1> HIDE DEF i, j
<1>14. Same(i + j, l + m)
  BY <1>3a, <1>12, <1>13, SameSum
<1> DEFINE ij == i + j
           lm == l + m
<1>15. ij \in Int /\ lm \in Int /\ Same(ij, lm) /\ Same(lm, A)
  BY <1>3a, <1>11, <1>12, <1>13, <1>14
<1> HIDE DEF ij, lm
<1>16. Same(ij, A)
  BY <1>15, SameTrans
<1> QED
  BY <1>16 DEF ij, i, j, s, t

-----------------------------------------------------------------------------
(* The invariant of the key generation: the secret shares that are whole,  *)
(* and those that finalize() returned, are on the line whose value at 0 is *)
(* the key behind the public key.                                          *)

SecretSharesOnLine ==
  \A p \in DOMAIN states :
    states[p].secretShare # None =>
      /\ states[p].secretShare \in Scalars
      /\ states[p].publicKey = JointKey
      /\ states[p].counted = Parties \ {p} =>
           states[p].secretShare = Mod(JointKey + SlopeSum * p)

ResultOnLine ==
  result # None =>
    /\ DOMAIN states = {}
    /\ result.publicKey \in Scalars
    /\ result.shares \in [Parties -> Scalars]
    /\ \E slope \in Scalars : \A p \in Parties :
         Whole(p) => result.shares[p] = Mod(result.publicKey + slope * p)

KeyInv == IInv /\ StatesWhole /\ SecretSharesOnLine /\ ResultOnLine

LEMMA KeyInvInit == KeyInit => KeyInv
BY InitIInv DEF KeyInit, KeyInv, StatesWhole, SecretSharesOnLine, ResultOnLine, NoStates

\* A step that leaves the polynomials and the sums alone.
LEMMA SumsUnchanged ==
  ASSUME StatesWhole, DOMAIN states' = DOMAIN states,
         \A p \in DOMAIN states : states'[p].polynomial = states[p].polynomial,
         DOMAIN states # {}
  PROVE  JointKey' = JointKey /\ SlopeSum' = SlopeSum
<1>1. DOMAIN states = Parties
  BY DEF StatesWhole
<1>2. [q \in Parties |-> states'[q].polynomial[1]]
        = [q \in Parties |-> states[q].polynomial[1]]
  BY <1>1
<1>3. [q \in Parties |-> states'[q].polynomial[2]]
        = [q \in Parties |-> states[q].polynomial[2]]
  BY <1>1
<1>4. JointKey' = SumMod([q \in Parties |-> states'[q].polynomial[1]], Parties)
  BY Zenon DEF JointKey, SumMod, FoldFunctionOnSet, MapThenFoldSet, Mod
<1>5. SlopeSum' = SumMod([q \in Parties |-> states'[q].polynomial[2]], Parties)
  BY Zenon DEF SlopeSum, SumMod, FoldFunctionOnSet, MapThenFoldSet, Mod
<1> QED
  BY <1>2, <1>3, <1>4, <1>5 DEF JointKey, SlopeSum

LEMMA ResultKept ==
  ASSUME KeyInv, result' = result, DOMAIN states' = DOMAIN states
  PROVE  ResultOnLine'
BY DEF KeyInv, ResultOnLine, Whole

LEMMA StartRound1KeyInv == ASSUME KeyInv, StartRound1 PROVE KeyInv'
<1>1. IInv'
  BY StartRound1Step DEF KeyInv
<1>2. PICK polynomial \in [Parties -> Polynomials] :
        states' = [p \in Parties |->
          [polynomial |-> polynomial[p],
           receivedShares |-> [q \in Parties |-> None],
           secretShare |-> None,
           publicKey |-> None,
           counted |-> {}]]
  BY DEF StartRound1
<1>3. DOMAIN states' = Parties /\ \A p \in Parties : states'[p].secretShare = None
  BY <1>2
<1>4. result = None /\ result' = None
  BY DEF StartRound1
<1> QED
  BY <1>1, <1>3, <1>4 DEF KeyInv, StatesWhole, SecretSharesOnLine, ResultOnLine

LEMMA StatesKept ==
  ASSUME KeyInv, IInv', UNCHANGED <<states, result>>
  PROVE  KeyInv'
<1>1. ResultOnLine'
  BY ResultKept
<1>2. StatesWhole' /\ SecretSharesOnLine'
  <2>1. StatesWhole'
    BY DEF KeyInv, StatesWhole
  <2>2. CASE DOMAIN states = {}
    BY <2>1, <2>2 DEF SecretSharesOnLine
  <2>3. CASE DOMAIN states # {}
    <3>1. JointKey' = JointKey /\ SlopeSum' = SlopeSum
      BY <2>3, SumsUnchanged DEF KeyInv
    <3> QED
      BY <2>1, <3>1 DEF KeyInv, SecretSharesOnLine, Mod, Scalars
  <2> QED
    BY <2>1, <2>2, <2>3
<1> QED
  BY <1>1, <1>2 DEF KeyInv

LEMMA ProcessRound2KeyInv ==
  ASSUME KeyInv, NEW senders \in SUBSET Parties, NEW noise \in Noise,
         ProcessRound2(senders, noise)
  PROVE  KeyInv'
<1>1. IInv'
  BY ProcessRound2Step DEF KeyInv
<1> DEFINE received(p) == [q \in Parties |->
             IF \E m \in Accepted({m \in mail : m.from \in senders}, noise) :
                  m.from = q /\ m.to = p
             THEN Decrypted(CHOOSE m \in Accepted({m \in mail : m.from \in senders}, noise) :
                              m.from = q /\ m.to = p, noise)
             ELSE states[p].receivedShares[q]]
<1>2. states' = [p \in DOMAIN states |->
                   [states[p] EXCEPT !.receivedShares = received(p)]]
  BY DEF ProcessRound2
<1> HIDE DEF received
<1>3. DOMAIN states' = DOMAIN states
  BY <1>2
<1>4. ASSUME NEW p \in DOMAIN states
      PROVE  /\ states'[p].polynomial = states[p].polynomial
             /\ states'[p].secretShare = states[p].secretShare
             /\ states'[p].publicKey = states[p].publicKey
             /\ states'[p].counted = states[p].counted
  <2>1. states[p] = [polynomial |-> states[p].polynomial,
                     receivedShares |-> states[p].receivedShares,
                     secretShare |-> states[p].secretShare,
                     publicKey |-> states[p].publicKey,
                     counted |-> states[p].counted]
    BY DEF KeyInv, IInv, StatesTyped
  <2> QED
    BY <1>2, <2>1
<1>5. ResultOnLine'
  BY <1>3, ResultKept DEF ProcessRound2
<1>6. SecretSharesOnLine'
  <2>1. CASE DOMAIN states = {}
    BY <1>3, <2>1 DEF SecretSharesOnLine
  <2>2. CASE DOMAIN states # {}
    <3>1. JointKey' = JointKey /\ SlopeSum' = SlopeSum
      BY <1>3, <1>4, <2>2, SumsUnchanged DEF KeyInv
    <3> QED
      BY <1>3, <1>4, <3>1 DEF KeyInv, SecretSharesOnLine, Mod
  <2> QED
    BY <2>1, <2>2
<1> QED
  BY <1>1, <1>3, <1>5, <1>6 DEF KeyInv, StatesWhole

LEMMA StartRound3KeyInv == ASSUME KeyInv, StartRound3 PROVE KeyInv'
<1>1. IInv'
  BY StartRound3Step DEF KeyInv
<1>2. states' = [p \in DOMAIN states |->
        [states[p] EXCEPT !.secretShare = SecretShare(p),
                          !.publicKey = JointKey,
                          !.counted = HeardFrom(p)]]
  BY DEF StartRound3
<1>3. DOMAIN states' = DOMAIN states
  BY <1>2
<1>4. ASSUME NEW p \in DOMAIN states
      PROVE  /\ states'[p].polynomial = states[p].polynomial
             /\ states'[p].secretShare = SecretShare(p)
             /\ states'[p].publicKey = JointKey
             /\ states'[p].counted = HeardFrom(p)
  <2>1. states[p] = [polynomial |-> states[p].polynomial,
                     receivedShares |-> states[p].receivedShares,
                     secretShare |-> states[p].secretShare,
                     publicKey |-> states[p].publicKey,
                     counted |-> states[p].counted]
    BY DEF KeyInv, IInv, StatesTyped
  <2> QED
    BY <1>2, <2>1
<1>5. result = None /\ result' = None
  BY DEF StartRound3
<1>6. SecretSharesOnLine'
  <2>1. CASE DOMAIN states = {}
    BY <1>3, <2>1 DEF SecretSharesOnLine
  <2>2. CASE DOMAIN states # {}
    <3>1. JointKey' = JointKey /\ SlopeSum' = SlopeSum
      BY <1>3, <1>4, <2>2, SumsUnchanged DEF KeyInv
    <3>2. DOMAIN states = Parties
      BY <2>2 DEF KeyInv, StatesWhole
    <3>3. ASSUME NEW p \in DOMAIN states'
          PROVE  /\ states'[p].secretShare \in Scalars
                 /\ states'[p].publicKey = JointKey'
                 /\ states'[p].counted = Parties \ {p} =>
                      states'[p].secretShare = Mod(JointKey' + SlopeSum' * p)
      <4>1. p \in Parties /\ p \in DOMAIN states
        BY <1>3, <3>2
      <4>2. /\ SecretShare(p) \in Scalars
            /\ HeardFrom(p) = Parties \ {p} =>
                 SecretShare(p) = Mod(JointKey + SlopeSum * p)
        BY <3>2, <4>1, SecretShareOnLine DEF KeyInv
      <4> QED
        BY <1>4, <3>1, <4>1, <4>2
    <3> QED
      BY <3>3 DEF SecretSharesOnLine, Mod, Scalars
  <2> QED
    BY <2>1, <2>2
<1> QED
  BY <1>1, <1>3, <1>5, <1>6 DEF KeyInv, StatesWhole, ResultOnLine

LEMMA FinalizeKeyInv == ASSUME KeyInv, Finalize PROVE KeyInv'
<1>1. IInv' /\ DOMAIN states' = {}
  BY FinalizeStep DEF KeyInv, Finalize, NoStates
<1>2. DOMAIN states = Parties
  BY DEF Finalize, KeyInv, StatesWhole
<1> DEFINE one == CHOOSE p \in Parties : TRUE
<1>3. one \in Parties
  BY PartiesAssumption
<1>4. \A p \in Parties :
        /\ states[p].secretShare \in Scalars
        /\ states[p].publicKey = JointKey
        /\ states[p].counted = Parties \ {p} =>
             states[p].secretShare = Mod(JointKey + SlopeSum * p)
  BY <1>2 DEF Finalize, KeyInv, SecretSharesOnLine
<1>5. result' = [publicKey |-> states[one].publicKey,
                 shares |-> [p \in Parties |-> states[p].secretShare],
                 counted |-> [p \in Parties |-> states[p].counted]]
  BY DEF Finalize
<1> HIDE DEF one
<1>6. /\ result'.publicKey = JointKey
      /\ result'.shares = [p \in Parties |-> states[p].secretShare]
      /\ \A p \in Parties : result'.counted[p] = states[p].counted
  BY <1>3, <1>4, <1>5
<1>7. JointKey \in Scalars /\ SlopeSum \in Scalars
  BY <1>2, KeysAreScalars DEF KeyInv
<1>8. \A p \in Parties : Whole(p)' =>
        result'.shares[p] = Mod(result'.publicKey + SlopeSum * p)
  BY <1>4, <1>6 DEF Whole
<1>9. ResultOnLine'
  BY <1>1, <1>4, <1>6, <1>7, <1>8 DEF ResultOnLine, Scalars, Mod
<1> QED
  BY <1>1, <1>9 DEF KeyInv, StatesWhole, SecretSharesOnLine

LEMMA KeyInvStep == KeyInv /\ [KeyNext]_keyVars => KeyInv'
<1> SUFFICES ASSUME KeyInv, [KeyNext]_keyVars PROVE KeyInv'
  OBVIOUS
<1>1. IInv'
  BY StepIInv DEF KeyInv
<1>2. CASE StartRound1
  BY <1>2, StartRound1KeyInv
<1>3. CASE StartRound2
  BY <1>1, <1>3, StatesKept DEF StartRound2
<1>4. CASE \E m \in mail : Tamper(m)
  BY <1>1, <1>4, StatesKept DEF Tamper
<1>5. CASE \E senders \in SUBSET Parties, noise \in Noise :
             ProcessRound2(senders, noise)
  BY <1>5, ProcessRound2KeyInv
<1>6. CASE StartRound3
  BY <1>6, StartRound3KeyInv
<1>7. CASE Finalize
  BY <1>7, FinalizeKeyInv
<1>8. CASE UNCHANGED keyVars
  BY <1>1, <1>8, StatesKept DEF keyVars
<1> QED
  BY <1>2, <1>3, <1>4, <1>5, <1>6, <1>7, <1>8 DEF KeyNext

\* Two different shares on the line give the key.
LEMMA Reconstructed ==
  ASSUME ResultOnLine, result # None,
         NEW p \in Parties, NEW q \in Parties, p # q, Whole(p), Whole(q)
  PROVE  /\ Lagrange(p, q) * result.shares[p] \in Int
         /\ Lagrange(q, p) * result.shares[q] \in Int
         /\ result.publicKey \in Scalars
         /\ Same(Lagrange(p, q) * result.shares[p] + Lagrange(q, p) * result.shares[q],
                 result.publicKey)
<1>1. PICK slope \in Scalars : \A r \in Parties :
        Whole(r) => result.shares[r] = Mod(result.publicKey + slope * r)
  BY DEF ResultOnLine
<1> DEFINE A == result.publicKey
           s == A + slope * p
           t == A + slope * q
<1>2. A \in Scalars /\ A \in Int /\ slope \in Int
  BY DEF ResultOnLine, Scalars
<1>3. result.shares[p] = Mod(s) /\ result.shares[q] = Mod(t)
  BY <1>1
<1>4. s \in Int /\ t \in Int
  BY <1>2, PartyNumber
<1> HIDE DEF A
<1>5. Same(Lagrange(p, q) * Mod(s) + Lagrange(q, p) * Mod(t), A)
  BY <1>2, LineAtZero, Zenon
<1> HIDE DEF s, t
<1>6. Lagrange(p, q) \in Int /\ Mod(s) \in Int /\ Lagrange(q, p) \in Int /\ Mod(t) \in Int
  BY <1>4, Weighted
<1> QED
  BY <1>2, <1>3, <1>5, <1>6 DEF A

\* The secret shares that finalize() returns fit together: any two of them that
\* hold the shares of all others reconstruct the key behind the public key, for
\* any number of parties, in whatever order the rounds were called and whatever
\* happened to the messages.
THEOREM TwoSharesReconstruct == KeySpec => []SharesReconstruct
<1>1. ASSUME KeyInv PROVE SharesReconstruct
  <2> SUFFICES ASSUME result # None, NEW p \in Parties, NEW q \in Parties,
                      p # q, Whole(p), Whole(q)
               PROVE  Mod(Lagrange(p, q) * result.shares[p]
                            + Lagrange(q, p) * result.shares[q]) = result.publicKey
    BY DEF SharesReconstruct
  <2> DEFINE i == Lagrange(p, q) * result.shares[p]
             j == Lagrange(q, p) * result.shares[q]
             A == result.publicKey
  <2>1. i \in Int /\ j \in Int /\ A \in Scalars /\ Same(i + j, A)
    BY <1>1, Reconstructed DEF KeyInv
  <2>2. Mod(A) = A /\ A \in Int
    BY <2>1, ModOfScalar
  <2> DEFINE ij == i + j
  <2> HIDE DEF i, j, A
  <2>3. ij \in Int /\ Same(ij, A)
    BY <2>1
  <2> HIDE DEF ij
  <2>4. Mod(ij) = Mod(A)
    BY <2>2, <2>3, ModSame
  <2> QED
    BY <2>2, <2>4 DEF ij, i, j, A
<1> QED
  BY <1>1, KeyInvInit, KeyInvStep, PTL DEF KeySpec

-----------------------------------------------------------------------------
(* The equation of a signature: what produceSignature() returns, times the *)
(* contributed nonce, is the hash plus the key times r.                    *)

\* A set of two elements is a pair.
LEMMA TwoElements ==
  ASSUME NEW S, S \subseteq Parties, Cardinality(S) = 2
  PROVE  \E p, q \in S : p # q /\ S = {p, q}
<1>1. IsFiniteSet(S)
  BY PartiesFinite, FS_Subset
<1>2. S # {}
  BY FS_EmptySet
<1>3. PICK p \in S : TRUE
  BY <1>2
<1>4. Cardinality(S \ {p}) = 1 /\ IsFiniteSet(S \ {p})
  BY <1>1, FS_RemoveElement
<1>5. PICK q : S \ {p} = {q}
  BY <1>4, FS_Singleton
<1> QED
  BY <1>3, <1>5

LEMMA SumPair ==
  ASSUME NEW f, NEW p, NEW q, p # q, f[p] \in Int, f[q] \in Int
  PROVE  /\ SumMod(f, {p, q}) \in Scalars /\ SumMod(f, {p, q}) \in Int
         /\ Same(SumMod(f, {p, q}), f[p] + f[q])
<1> DEFINE S == {p, q}
           T == {q}
           a == f[p]
           b == f[q]
           s == SumMod(f, S)
           t == SumMod(f, T)
<1>1. IsFiniteSet(S) /\ \A x \in S : f[x] \in Int
  <2>1. S = T \cup {p} /\ IsFiniteSet(T)
    BY FS_Singleton
  <2> QED
    BY <2>1, FS_AddElement
<1>2. s \in Scalars /\ s \in Int
  BY <1>1, SumScalar
<1>3. S \ {p} = T /\ T \ {q} = {} /\ p \in S /\ q \in T /\ T \in SUBSET S
  OBVIOUS
<1>4. Same(s, a + t) /\ Same(t, b + SumMod(f, {}))
  <2> HIDE DEF S, T
  <2>1. S \in SUBSET S
    OBVIOUS
  <2>2. Same(s, f[p] + SumMod(f, S \ {p})) /\ Same(t, f[q] + SumMod(f, T \ {q}))
    BY <1>1, <1>3, <2>1, SumOut
  <2> QED
    BY <1>3, <2>2
<1>5. SumMod(f, {}) = 0
  BY SumEmpty
<1>6. IsFiniteSet(T) /\ \A x \in T : f[x] \in Int
  BY <1>1, <1>3, FS_Subset
<1>7. t \in Int /\ a \in Int /\ b \in Int
  BY <1>6, SumScalar
<1> HIDE DEF a, b, s, t
<1>8. b + 0 = b
  BY <1>7
<1>9. Same(t, b)
  BY <1>4, <1>5, <1>8
<1>10. Same(a + t, a + b)
  BY <1>7, <1>9, SameSum, SameRefl
<1> DEFINE u == a + t
           v == a + b
<1>11. u \in Int /\ v \in Int /\ Same(s, u) /\ Same(u, v)
  BY <1>4, <1>7, <1>10
<1> HIDE DEF u, v
<1>12. Same(s, v)
  BY <1>2, <1>11, SameTrans
<1> QED
  BY <1>2, <1>12 DEF s, v, a, b

\* s times the nonce, when the contributed key is the key K.
LEMMA SignatureEquation ==
  ASSUME NEW k \in Int, Invertible(k), NEW h \in Int, NEW X \in Int, NEW K \in Int,
         NEW r \in Int, Same(X, K)
  PROVE  Same(k * Mod(ModInverse(k) * (h + Mod(X * r))), h + K * r)
<1> DEFINE i == ModInverse(k)
           x == X * r
           y == K * r
           m == h + Mod(x)
           n == h + y
           t == i * m
           ki == k * i
<1>1. i \in Int /\ Same(ki, 1)
  BY ModInverseInverts
<1> HIDE DEF i
<1>2. x \in Int /\ y \in Int /\ ki \in Int
  BY <1>1
<1>3. Same(x, y)
  BY SameScaled
<1> HIDE DEF x, y
<1>4. Mod(x) \in Int /\ Same(Mod(x), x)
  BY <1>2, ModDef
<1>5. Same(Mod(x), y)
  BY <1>2, <1>3, <1>4, SameTrans
<1>6. Same(m, n) /\ m \in Int /\ n \in Int
  <2> DEFINE xm == Mod(x)
  <2>1. xm \in Int /\ Same(xm, y) /\ Same(h, h)
    BY <1>4, <1>5, SameRefl
  <2> HIDE DEF xm
  <2>2. Same(h + xm, h + y)
    BY <1>2, <2>1, SameSum
  <2> QED
    BY <1>2, <2>1, <2>2 DEF xm
<1> HIDE DEF m, n
<1>7. t \in Int
  BY <1>1, <1>6
<1>8. k * t = m * ki
  BY <1>1, <1>6
<1> HIDE DEF ki, t
<1>9. Same(m * ki, m)
  BY <1>1, <1>2, <1>6, SameOne
<1>10. Mod(t) \in Int /\ Same(k * Mod(t), k * t)
  BY <1>7, ModDef, ModInside
<1> DEFINE kt == k * t
           km == k * Mod(t)
<1>11. kt \in Int /\ km \in Int /\ Same(kt, m) /\ Same(km, kt)
  BY <1>7, <1>8, <1>9, <1>10
<1> HIDE DEF kt, km
<1>12. Same(km, n)
  <2>1. Same(km, m)
    BY <1>6, <1>11, SameTrans
  <2> QED
    BY <1>6, <1>11, <2>1, SameTrans
<1> QED
  BY <1>12 DEF km, t, m, x, n, y, i

-----------------------------------------------------------------------------
(* What verify() computes from such a signature is the nonce, or its       *)
(* negative when s was replaced by its own.                                *)

LEMMA NegativeSame == ASSUME NEW a \in Int, NEW b \in Int, Same(a, b) PROVE Same(-a, -b)
<1>1. Same((-1) * a, (-1) * b)
  BY SameScaled
<1>2. (-1) * a = -a /\ (-1) * b = -b
  OBVIOUS
<1> QED
  BY <1>1, <1>2

LEMMA NormalizedSame ==
  ASSUME NEW s \in Scalars, Normalized(s) # 0
  PROVE  /\ Normalized(s) \in Scalars /\ Normalized(s) \in Int /\ s # 0
         /\ Same(Normalized(s), s) \/ Same(Normalized(s), -s)
<1>1. s \in Int /\ 0 <= s /\ s < Prime /\ Prime \in Int /\ Prime > 3 /\ Prime \in Nat
  BY PrimeAssumption DEF Scalars
<1>2. CASE s > Prime \div 2
  <2>1. Prime \div 2 \in Nat
    BY <1>1
  <2>2. Normalized(s) = Prime - s /\ s > 0
    BY <1>1, <1>2, <2>1 DEF Normalized
  <2>3. Prime - s = -s + 1 * Prime /\ Prime - s \in Int
    BY <1>1
  <2>4. Same(Prime - s, -s)
    BY <2>3 DEF Same, Congruent
  <2> QED
    BY <1>1, <2>2, <2>3, <2>4 DEF Scalars
<1>3. CASE ~ (s > Prime \div 2)
  <2>1. Normalized(s) = s
    BY <1>3 DEF Normalized
  <2> QED
    BY <1>1, <2>1, SameRefl
<1> QED
  BY <1>2, <1>3

\* w * (h + r * x) where w inverts s, and k * s is h + x * r.
LEMMA PointVerified ==
  ASSUME NEW k \in Int, NEW s \in Int, NEW w \in Int, NEW h \in Int, NEW x \in Int,
         NEW r \in Int, Same(k * s, h + x * r), Same(s * w, 1)
  PROVE  Same(h * w + r * w * x, k)
<1> DEFINE ks == k * s
           sw == s * w
           n == h + x * r
           l == h * w + r * w * x
<1>1. ks \in Int /\ sw \in Int /\ n \in Int /\ l \in Int
  OBVIOUS
<1>2. l = w * n /\ w * ks = k * sw
  OBVIOUS
<1>3. Same(ks, n) /\ Same(sw, 1)
  OBVIOUS
<1> HIDE DEF ks, sw, n, l
<1>4. Same(w * ks, w * n) /\ Same(k * sw, k)
  BY <1>1, <1>3, SameScaled, SameOne
<1> DEFINE wks == w * ks
<1>5. wks \in Int /\ Same(wks, l) /\ Same(wks, k)
  BY <1>1, <1>2, <1>4
<1> HIDE DEF wks
<1>6. Same(l, k)
  BY <1>1, <1>5, SameSym, SameTrans
<1> QED
  BY <1>6 DEF l

LEMMA SmallSets ==
  /\ \A x \in Scalars : x \in Int
  /\ \A x \in Nonces : x \in Int
  /\ \A x \in Hashes : x \in Int
BY PrimeAssumption, NoncesAssumption, HashesAssumption DEF Scalars

\* The signature verifies when the point has the x-coordinate of the nonce.
LEMMA VerifyExactly ==
  ASSUME NEW x \in Scalars, NEW h \in Int, NEW k \in Scalars, Invertible(k),
         NEW point \in Scalars, NEW s \in Scalars, NEW sig,
         sig.r = XCoord[point], sig.s = Normalized(s), Same(k * s, h + x * sig.r)
  PROVE  Verify(x, h, sig)
           <=> sig.r # 0 /\ sig.s # 0 /\ k \in {point, Mod(-point)}
<1> DEFINE r == sig.r
           n == sig.s
           w == ModInverse(n)
           L == h * w + r * w * x
           R == Mod(L)
<1>1. /\ k \in Int /\ x \in Int /\ s \in Int /\ Prime \in Int /\ Prime > 3
      /\ r \in Scalars /\ r \in Int
  BY PrimeAssumption, CurveAssumption DEF Scalars
<1>2. Same(k * s, h + x * r)
  OBVIOUS
<1>3. Verify(x, h, sig) <=> r # 0 /\ n # 0 /\ R # 0 /\ XCoord[R] = r
  BY DEF Verify
<1>4. ASSUME n # 0 PROVE R # 0 /\ R \in Scalars /\ XCoord[R] = XCoord[k]
  <2>1. /\ n \in Scalars /\ n \in Int
        /\ Same(n, s) \/ Same(n, -s)
    BY <1>4, NormalizedSame
  <2>2. Mod(n) = n
    BY <2>1, ModOfScalar
  <2>3. w \in Int /\ Same(n * w, 1)
    BY <1>4, <2>1, <2>2, AllInvertible, ModInverseInverts
  <2> HIDE DEF r, n, w
  <2>4. L \in Int
    BY <1>1, <2>3
  <2>5. \E c \in {k, -k} : c \in Int /\ Same(L, c) /\ Same(c * n, k * s)
    <3>1. CASE Same(n, s)
      <4>1. Same(k * n, k * s)
        BY <1>1, <2>1, <3>1, SameScaled
      <4> DEFINE kn == k * n
                 ks == k * s
                 xr == h + x * r
      <4>2. kn \in Int /\ ks \in Int /\ xr \in Int /\ Same(kn, ks) /\ Same(ks, xr)
        BY <1>1, <1>2, <2>1, <4>1
      <4> HIDE DEF kn, ks, xr
      <4>3. Same(kn, xr)
        BY <4>2, SameTrans
      <4>4. Same(h * w + r * w * x, k)
        BY <1>1, <2>1, <2>3, <4>3, PointVerified DEF kn, xr
      <4> QED
        BY <1>1, <4>1, <4>4
    <3>2. CASE Same(n, -s)
      <4> DEFINE j == -k
                 ms == -s
                 jm == j * ms
                 jn == j * n
                 ks == k * s
                 xr == h + x * r
      <4>1. j \in Int /\ ms \in Int /\ Same(n, ms) /\ jm = ks
        BY <1>1, <3>2
      <4>2. jm \in Int /\ jn \in Int /\ ks \in Int /\ xr \in Int /\ Same(ks, xr)
        BY <1>1, <1>2, <2>1
      <4> HIDE DEF j, ms
      <4>3. Same(jn, jm)
        BY <2>1, <4>1, SameScaled
      <4> HIDE DEF jm, jn, ks, xr
      <4>4. Same(jn, ks) /\ Same(jn, xr)
        BY <4>1, <4>2, <4>3, SameTrans
      <4>5. Same(h * w + r * w * x, j)
        BY <1>1, <2>1, <2>3, <4>1, <4>4, PointVerified DEF jn, xr
      <4> QED
        BY <4>1, <4>4, <4>5 DEF j, jn, ks
    <3> QED
      BY <2>1, <3>1, <3>2
  <2>6. PICK c \in {k, -k} : c \in Int /\ Same(L, c)
    BY <2>5
  <2> HIDE DEF L
  <2>7. R = Mod(c) /\ R \in Scalars
    BY <2>4, <2>6, ModSame, ModDef
  <2>8. k # 0
    <3>1. ASSUME k = 0 PROVE FALSE
      <4> DEFINE i == ModInverse(k)
      <4>1. i \in Int /\ Same(k * i, 1)
        BY <1>1, ModInverseInverts
      <4> HIDE DEF i
      <4>2. k * i = 0
        BY <3>1, <4>1
      <4>3. Same(0, 1) /\ 0 \in Scalars /\ 1 \in Scalars
        BY <1>1, <4>1, <4>2 DEF Scalars
      <4>4. 0 = 1
        BY <4>3, SameScalars
      <4> QED
        BY <4>4
    <3> QED
      BY <3>1
  <2>9. CASE c = k
    <3>1. R = k
      BY <2>7, <2>9, ModOfScalar
    <3> QED
      BY <2>7, <2>8, <3>1
  <2>10. CASE c = -k
    <3>1. R = Mod(-k)
      BY <2>7, <2>10
    <3>2. R # 0
      <4>1. ASSUME R = 0 PROVE FALSE
        <5>1. -k \in Int /\ 0 \in Int /\ Mod(0) = 0
          BY <1>1, PrimeAssumption DEF Mod
        <5>2. Same(-k, 0)
          BY <3>1, <4>1, <5>1, ModSame
        <5> DEFINE j == -k
                   m == -1
        <5>3. j \in Int /\ m \in Int /\ m * j = k
          BY <1>1
        <5> HIDE DEF j, m
        <5>4. Same(m * j, 0)
          BY <5>2, <5>3, SameZero DEF j
        <5>5. Same(k, 0) /\ 0 \in Scalars
          BY <1>1, <5>3, <5>4 DEF Scalars
        <5> QED
          BY <2>8, <5>5, SameScalars
      <4> QED
        BY <4>1
    <3>3. XCoord[k] = XCoord[R]
      BY <2>7, <3>1, CurveAssumption
    <3> QED
      BY <2>7, <3>2, <3>3
  <2> QED
    BY <2>6, <2>9, <2>10
<1>5. XCoord[k] = r <=> k \in {point, Mod(-point)}
  BY CurveAssumption
<1> HIDE DEF R, r, n
<1> QED
  BY <1>3, <1>4, <1>5 DEF r, n

-----------------------------------------------------------------------------
(* The invariant of the ceremony.                                          *)

CeremonyTyped ==
  /\ ceremony # None =>
       /\ result # None
       /\ ceremony.parties \in SUBSET Parties
       /\ Cardinality(ceremony.parties) = 2
       /\ ceremony.hash \in Hashes
  /\ ceremony = None => contributions = Nothing
  /\ nonce \in [Parties -> Nonces \cup {None}]
  /\ commitments \in [Parties -> Nonces \cup {None}]
  /\ combinedR \in Scalars \cup {None}

Contributed ==
  /\ DOMAIN contributions = Parties
  /\ \A p \in Parties : contributions[p] # None =>
       /\ ceremony # None /\ p \in ceremony.parties
       /\ contributions[p].nonce \in Nonces
       /\ contributions[p].weightedShare = WeightedShare(p)

\* The equation holds of s before it was normalized.
SignatureFits ==
  signature # None =>
    /\ result # None
    /\ signature.hash \in Hashes
    /\ signature.point \in Scalars
    /\ signature.nonce \in Scalars /\ Invertible(signature.nonce)
    /\ signature.r = XCoord[signature.point]
    /\ SignersWhole =>
         \E s \in Scalars :
           /\ signature.s = Normalized(s)
           /\ Same(signature.nonce * s,
                   signature.hash + result.publicKey * signature.r)

CeremonyInv == KeyInv /\ CeremonyTyped /\ Contributed /\ SignatureFits

LEMMA CeremonyInvInit == CeremonyInit => CeremonyInv
<1> SUFFICES ASSUME CeremonyInit PROVE CeremonyInv
  OBVIOUS
<1>1. KeyInv
  BY KeyInvInit DEF CeremonyInit
<1> QED
  BY <1>1 DEF CeremonyInit, CeremonyInv, CeremonyTyped, Contributed, SignatureFits, Nothing

\* Once there is a result, no step of a key generation changes it.
LEMMA KeyStepKeeps ==
  ASSUME CeremonyInv, [KeyNext]_keyVars, UNCHANGED ceremonyVars
  PROVE  CeremonyInv'
<1>1. KeyInv'
  BY KeyInvStep DEF CeremonyInv
<1>2. result # None => result' = result
  BY DEF CeremonyInv, KeyInv, ResultOnLine, KeyNext, keyVars, StartRound1, StartRound2,
         Tamper, ProcessRound2, StartRound3, Finalize
<1>3. UNCHANGED <<ceremony, nonce, commitments, combinedR, contributions, signature>>
  BY DEF ceremonyVars
<1>4. CeremonyTyped'
  BY <1>2, <1>3 DEF CeremonyInv, CeremonyTyped, Nothing
<1>5. Contributed'
  BY <1>2, <1>3
     DEF CeremonyInv, CeremonyTyped, Contributed, WeightedShare, Other, Lagrange, Mod
<1>6. SignatureFits'
  BY <1>2, <1>3 DEF CeremonyInv, SignatureFits, SignersWhole, Whole
<1> QED
  BY <1>1, <1>4, <1>5, <1>6 DEF CeremonyInv

\* Steps of a ceremony leave the key and its shares alone.
LEMMA KeyKept == ASSUME KeyInv, UNCHANGED keyVars PROVE KeyInv' /\ result' = result
BY KeyInvStep DEF keyVars

LEMMA SignatureKept ==
  ASSUME SignatureFits, UNCHANGED <<result, signature>> PROVE SignatureFits'
BY DEF SignatureFits, SignersWhole, Whole

LEMMA BeginKeeps ==
  ASSUME CeremonyInv, UNCHANGED keyVars,
         NEW parties \in SUBSET Parties, NEW hash \in Hashes, Begin(parties, hash)
  PROVE  CeremonyInv'
<1>1. KeyInv' /\ result' = result
  BY KeyKept DEF CeremonyInv
<1>2. CeremonyTyped'
  BY <1>1 DEF Begin, CeremonyInv, CeremonyTyped, Nothing
<1>3. contributions' = Nothing
  BY DEF Begin, CeremonyInv, CeremonyTyped
<1>4. Contributed' /\ SignatureFits'
  BY <1>3 DEF Begin, Nothing, Contributed, SignatureFits
<1> QED
  BY <1>1, <1>2, <1>4 DEF CeremonyInv

LEMMA ContributionsKept ==
  ASSUME Contributed, UNCHANGED <<result, ceremony, contributions>>
  PROVE  Contributed'
BY DEF Contributed, WeightedShare, Other, Lagrange, Mod

LEMMA RoundKeeps ==
  ASSUME CeremonyInv, UNCHANGED keyVars, ceremony # None, NEW p \in ceremony.parties,
         \/ \E k \in Nonces : GenerateNonce(p, k)
         \/ SubmitNonceCommitment(p)
  PROVE  CeremonyInv'
<1>1. KeyInv' /\ result' = result
  BY KeyKept DEF CeremonyInv
<1>2. UNCHANGED <<ceremony, combinedR, contributions, signature>>
  BY DEF GenerateNonce, SubmitNonceCommitment
<1>3. p \in Parties
  BY DEF CeremonyInv, CeremonyTyped
<1>4. nonce' \in [Parties -> Nonces \cup {None}]
  BY <1>3 DEF CeremonyInv, CeremonyTyped, GenerateNonce, SubmitNonceCommitment
<1>5. commitments' \in [Parties -> Nonces \cup {None}]
  BY <1>3 DEF CeremonyInv, CeremonyTyped, GenerateNonce, SubmitNonceCommitment
<1>6. CeremonyTyped'
  BY <1>1, <1>2, <1>4, <1>5 DEF CeremonyInv, CeremonyTyped
<1> QED
  BY <1>1, <1>2, <1>6, ContributionsKept, SignatureKept DEF CeremonyInv

LEMMA SubmitContributionKeeps ==
  ASSUME CeremonyInv, UNCHANGED keyVars, ceremony # None, NEW p \in ceremony.parties,
         SubmitContribution(p)
  PROVE  CeremonyInv'
<1>1. KeyInv' /\ result' = result
  BY KeyKept DEF CeremonyInv
<1>2. UNCHANGED <<ceremony, nonce, commitments, combinedR, signature>>
  BY DEF SubmitContribution
<1>3. CeremonyTyped'
  BY <1>1, <1>2 DEF CeremonyInv, CeremonyTyped
<1>4. Contributed'
  <2>1. \A q \in Parties : WeightedShare(q)' = WeightedShare(q)
    BY <1>1, <1>2 DEF WeightedShare, Other, Lagrange, Mod
  <2>2. p \in Parties /\ nonce[p] \in Nonces
    BY DEF CeremonyInv, CeremonyTyped, SubmitContribution
  <2>3. contributions' = [contributions EXCEPT ![p] =
          [nonce |-> nonce[p], weightedShare |-> WeightedShare(p)]]
    BY DEF SubmitContribution
  <2> QED
    BY <1>2, <2>1, <2>2, <2>3 DEF CeremonyInv, Contributed
<1> QED
  BY <1>1, <1>2, <1>3, <1>4, SignatureKept DEF CeremonyInv

\* What is committed to, or contributed, by both parties adds up to a scalar.
LEMMA CommitmentScalar ==
  ASSUME CeremonyInv, ceremony # None, NonceRoundComplete
  PROVE  CommitmentSum \in Scalars
<1>1. IsFiniteSet(ceremony.parties) /\ ceremony.parties \subseteq Parties
  BY PartiesFinite, FS_Subset DEF CeremonyInv, CeremonyTyped
<1>2. \A p \in ceremony.parties : commitments[p] \in Int
  BY <1>1, SmallSets DEF CeremonyInv, CeremonyTyped, NonceRoundComplete
<1> QED
  BY <1>1, <1>2, SumScalar DEF CommitmentSum

LEMMA ComputeCombinedRKeeps ==
  ASSUME CeremonyInv, UNCHANGED keyVars, ceremony # None, ComputeCombinedR
  PROVE  CeremonyInv'
<1>1. KeyInv' /\ result' = result
  BY KeyKept DEF CeremonyInv
<1>2. UNCHANGED <<ceremony, nonce, commitments, contributions, signature>>
  BY DEF ComputeCombinedR
<1>3. combinedR' \in Scalars
  BY CommitmentScalar DEF ComputeCombinedR
<1>4. CeremonyTyped'
  BY <1>1, <1>2, <1>3 DEF CeremonyInv, CeremonyTyped
<1> QED
  BY <1>1, <1>2, <1>4, ContributionsKept, SignatureKept DEF CeremonyInv

LEMMA KeyReconstructed ==
  ASSUME CeremonyInv, ceremony # None, \A p \in ceremony.parties : contributions[p] # None,
         \A p \in ceremony.parties : Whole(p)
  PROVE  /\ ReconstructedKey \in Int
         /\ Same(ReconstructedKey, result.publicKey)
<1>1. PICK p \in ceremony.parties, q \in ceremony.parties :
        p # q /\ ceremony.parties = {p, q}
  BY TwoElements DEF CeremonyInv, CeremonyTyped
<1>2. p \in Parties /\ q \in Parties /\ Other(p) = q /\ Other(q) = p
  BY <1>1 DEF CeremonyInv, CeremonyTyped, Other
<1> DEFINE i == Lagrange(p, q) * result.shares[p]
           j == Lagrange(q, p) * result.shares[q]
           A == result.publicKey
           f == [x \in ceremony.parties |-> contributions[x].weightedShare]
           K == SumMod(f, {p, q})
<1>3. i \in Int /\ j \in Int /\ A \in Scalars /\ A \in Int /\ Same(i + j, A)
  BY <1>1, <1>2, Reconstructed DEF CeremonyInv, KeyInv, CeremonyTyped, Scalars
<1>4. f[p] = Mod(i) /\ f[q] = Mod(j)
  BY <1>1, <1>2 DEF CeremonyInv, Contributed, WeightedShare
<1> HIDE DEF i, j, A, f
<1>5. Mod(i) \in Int /\ Mod(j) \in Int /\ Same(Mod(i), i) /\ Same(Mod(j), j)
  BY <1>3, ModDef
<1>6. K \in Int /\ Same(K, f[p] + f[q])
  BY <1>1, <1>4, <1>5, SumPair
<1>7. ReconstructedKey = K
  BY <1>1 DEF ReconstructedKey, f
<1> DEFINE a == f[p]
           b == f[q]
           ab == a + b
           ij == i + j
<1>8. a \in Int /\ b \in Int /\ Same(a, i) /\ Same(b, j)
  BY <1>4, <1>5
<1> HIDE DEF K, a, b
<1>9. Same(a + b, i + j)
  BY <1>3, <1>8, SameSum
<1>10. ab \in Int /\ ij \in Int /\ Same(K, ab) /\ Same(ab, ij) /\ Same(ij, A)
  BY <1>3, <1>6, <1>8, <1>9 DEF a, b
<1> HIDE DEF ab, ij
<1>11. Same(K, ij)
  BY <1>6, <1>10, SameTrans
<1>12. Same(K, A)
  BY <1>3, <1>6, <1>10, <1>11, SameTrans
<1> QED
  BY <1>6, <1>7, <1>12 DEF A

LEMMA ProduceSignatureKeeps ==
  ASSUME CeremonyInv, UNCHANGED keyVars, ceremony # None, ProduceSignature
  PROVE  CeremonyInv'
<1>1. KeyInv' /\ result' = result /\ result # None
  BY KeyKept DEF CeremonyInv, CeremonyTyped
<1>2. CeremonyTyped' /\ Contributed'
  BY DEF ProduceSignature, CeremonyTyped, Contributed, Nothing
<1> DEFINE r == Mod(XCoord[PointUsed])
           k == ContributedNonce
           K == ReconstructedKey
           h == ceremony.hash
           A == result.publicKey
           s == Mod(ModInverse(k) * (h + Mod(K * r)))
<1>3. /\ signature'.r = r /\ signature'.s = Normalized(s) /\ signature'.hash = h
      /\ signature'.parties = ceremony.parties /\ signature'.nonce = k
      /\ signature'.point = PointUsed /\ Invertible(k)
  BY DEF ProduceSignature
<1>4. PointUsed \in Scalars
  BY CommitmentScalar DEF CeremonyInv, CeremonyTyped, PointUsed, ProduceSignature
<1>5. r = XCoord[PointUsed] /\ r \in Int
  BY <1>4, CurveAssumption, ModOfScalar
<1>6. k \in Scalars /\ k \in Int
  <2> DEFINE f == [p \in ceremony.parties |-> contributions[p].nonce]
  <2>1. IsFiniteSet(ceremony.parties) /\ ceremony.parties \subseteq Parties
    BY PartiesFinite, FS_Subset DEF CeremonyInv, CeremonyTyped
  <2>2. \A p \in ceremony.parties : f[p] \in Int
    BY <2>1, SmallSets DEF CeremonyInv, Contributed, ProduceSignature
  <2> HIDE DEF f
  <2>3. SumMod(f, ceremony.parties) \in Scalars /\ SumMod(f, ceremony.parties) \in Int
    BY <2>1, <2>2, SumScalar
  <2> QED
    BY <2>3 DEF f, ContributedNonce
<1>7. h \in Hashes /\ h \in Int
  BY SmallSets DEF CeremonyInv, CeremonyTyped
<1>8. ASSUME SignersWhole'
      PROVE  s \in Scalars /\ Same(k * s, h + A * r)
  <2>1. \A p \in ceremony.parties : Whole(p)
    BY <1>1, <1>3, <1>8 DEF SignersWhole, Whole
  <2>2. K \in Int /\ Same(K, A)
    BY <2>1, KeyReconstructed DEF ProduceSignature
  <2>3. A \in Int
    BY <1>1 DEF CeremonyInv, KeyInv, ResultOnLine, Scalars
  <2> HIDE DEF r, k, K, h, A
  <2>4. Same(k * s, h + A * r)
    BY <1>3, <1>5, <1>6, <1>7, <2>2, <2>3, SignatureEquation
  <2>5. ModInverse(k) \in Int
    BY <1>3, <1>6, ModInverseInverts
  <2> DEFINE x == K * r
  <2>6. x \in Int
    BY <1>5, <2>2
  <2> HIDE DEF x
  <2>7. Mod(x) \in Int
    BY <2>6, ModDef
  <2> DEFINE y == ModInverse(k) * (h + Mod(x))
  <2>8. y \in Int
    BY <1>7, <2>5, <2>7
  <2> HIDE DEF y
  <2>9. Mod(y) \in Scalars
    BY <2>8, ModDef
  <2> QED
    BY <2>4, <2>9 DEF y, x
<1> HIDE DEF r, k, K, h, s
<1>9. SignatureFits'
  BY <1>1, <1>3, <1>4, <1>5, <1>6, <1>7, <1>8
     DEF SignatureFits, Same, Congruent, Invertible, Scalars, Normalized, Euclid
<1> QED
  BY <1>1, <1>2, <1>9 DEF CeremonyInv

LEMMA CeremonyInvStep == CeremonyInv /\ [CeremonyNext]_ceremonySpecVars => CeremonyInv'
<1> SUFFICES ASSUME CeremonyInv, [CeremonyNext]_ceremonySpecVars PROVE CeremonyInv'
  OBVIOUS
<1>1. CASE KeyNext /\ UNCHANGED ceremonyVars
  BY <1>1, KeyStepKeeps
<1>2. CASE UNCHANGED ceremonySpecVars
  BY <1>2, KeyStepKeeps DEF ceremonySpecVars
<1>3. CASE CeremonyStep /\ UNCHANGED keyVars
  <2>1. CASE \E parties \in SUBSET Parties, hash \in Hashes : Begin(parties, hash)
    BY <1>3, <2>1, BeginKeeps
  <2>2. ASSUME ceremony # None, NEW p \in ceremony.parties,
               \/ \E k \in Nonces : GenerateNonce(p, k)
               \/ SubmitNonceCommitment(p)
        PROVE  CeremonyInv'
    BY <1>3, <2>2, RoundKeeps
  <2>3. ASSUME ceremony # None, NEW p \in ceremony.parties, SubmitContribution(p)
        PROVE  CeremonyInv'
    BY <1>3, <2>3, SubmitContributionKeeps
  <2>4. CASE ceremony # None /\ ComputeCombinedR
    BY <1>3, <2>4, ComputeCombinedRKeeps
  <2>5. CASE ceremony # None /\ ProduceSignature
    BY <1>3, <2>5, ProduceSignatureKeeps
  <2> QED
    BY <1>3, <2>1, <2>2, <2>3, <2>4, <2>5 DEF CeremonyStep
<1> QED
  BY <1>1, <1>2, <1>3 DEF CeremonyNext

\* A signature of two parties whose shares are whole verifies exactly when the
\* contributed nonces add up, except for the sign, to the nonce behind the point
\* that was combined: for every prime order, curve, set of parties and nonces,
\* and however often the parties drew, committed, combined and contributed.
THEOREM SignaturesVerify == CeremonySpec => []SignatureVerifies
<1>1. ASSUME CeremonyInv PROVE SignatureVerifies
  <2> SUFFICES ASSUME signature # None, SignersWhole
               PROVE  Verify(result.publicKey, signature.hash, signature)
                        <=> /\ signature.r # 0 /\ signature.s # 0
                            /\ signature.nonce \in {signature.point, Mod(-signature.point)}
    BY DEF SignatureVerifies
  <2> DEFINE A == result.publicKey
             h == signature.hash
             k == signature.nonce
             point == signature.point
  <2>1. /\ A \in Scalars /\ h \in Int
        /\ k \in Scalars /\ Invertible(k) /\ point \in Scalars
        /\ signature.r = XCoord[point]
    BY <1>1, SmallSets DEF CeremonyInv, KeyInv, ResultOnLine, SignatureFits
  <2>2. PICK s \in Scalars : /\ signature.s = Normalized(s)
                             /\ Same(k * s, h + A * signature.r)
    BY <1>1 DEF CeremonyInv, SignatureFits
  <2> HIDE DEF A, h, k, point
  <2>3. Verify(A, h, signature)
          <=> signature.r # 0 /\ signature.s # 0 /\ k \in {point, Mod(-point)}
    BY <2>1, <2>2, VerifyExactly
  <2> QED
    BY <2>3 DEF A, h, k, point
<1> QED
  BY <1>1, CeremonyInvInit, CeremonyInvStep, PTL DEF CeremonySpec

-----------------------------------------------------------------------------
(* Numbers in bytes.                                                       *)

Bytes == 0..255

IsDigits(g, base) == g = [m \in Nat |-> IF m = 0 THEN <<>> ELSE Append(g[m \div base], m % base)]

LEMMA DigitsExist ==
  ASSUME NEW base \in Nat, base > 1
  PROVE  \E g \in [Nat -> Seq(0..(base - 1))] : IsDigits(g, base)
<1> DEFINE V == Seq(0..(base - 1))
           stop == {0}
           rank == [n \in Nat |-> n]
           next == [n \in Nat |-> n \div base]
           start == [n \in Nat |-> <<>>]
           step == [p \in Nat \X V |-> Append(p[2], p[1] % base)]
<1>1. \A n \in Nat : n \div base \in Nat /\ n % base \in 0..(base - 1)
                     /\ (n # 0 => n \div base < n)
  OBVIOUS
<1>2. \A n \in Nat, v \in V : Append(v, n % base) \in V
  BY <1>1, AppendProperties
<1>3. \A n \in Nat, v \in V : step[<<n, v>>] = Append(v, n % base)
  OBVIOUS
<1>4. <<>> \in V
  OBVIOUS
<1>5. /\ rank \in [Nat -> Nat]
      /\ \A n \in Nat : rank[n] = n /\ next[n] = n \div base /\ start[n] = <<>>
  OBVIOUS
<1> HIDE DEF V, rank, next, start, step
<1>6. Decreasing(Nat, V, stop, next, start, step, rank)
  BY <1>1, <1>2, <1>3, <1>4, <1>5 DEF Decreasing
<1>7. PICK g \in [Nat -> V] : \A n \in Nat :
        g[n] = IF n \in stop THEN start[n] ELSE step[<<n, g[next[n]]>>]
  BY <1>6, Recursion
<1>8. \A n \in Nat : g[n] = IF n = 0 THEN <<>> ELSE Append(g[n \div base], n % base)
  BY <1>1, <1>3, <1>5, <1>7
<1>9. g = [n \in Nat |-> IF n = 0 THEN <<>> ELSE Append(g[n \div base], n % base)]
  BY <1>7, <1>8
<1> QED
  BY <1>7, <1>9 DEF IsDigits, V

LEMMA DigitsTyped ==
  ASSUME NEW base \in Nat, base > 1, NEW g, IsDigits(g, base)
  PROVE  \A n \in Nat : g[n] \in Seq(0..(base - 1))
<1> DEFINE V == Seq(0..(base - 1))
           bad == {n \in Nat : g[n] \notin V}
<1>1. ASSUME NEW n \in bad, \A k \in bad : n <= k PROVE FALSE
  <2>1. n \in Nat /\ g[n] \notin V
    OBVIOUS
  <2>2. n # 0
    <3>1. g[0] = <<>>
      BY Zenon DEF IsDigits
    <3>2. <<>> \in V
      BY EmptySeq
    <3> HIDE DEF V
    <3> QED
      BY <2>1, <3>1, <3>2
  <2>3. n \div base \in Nat /\ n \div base < n /\ n % base \in 0..(base - 1)
    BY <2>1, <2>2
  <2>4. g[n \div base] \in V
    <3>1. PICK q \in Nat : q = n \div base /\ q < n
      BY <2>3
    <3>2. q \notin bad
      BY <1>1, <2>1, <3>1
    <3> QED
      BY <3>1, <3>2
  <2>5. g[n] = Append(g[n \div base], n % base)
    BY <2>1, <2>2 DEF IsDigits
  <2>6. g[n] \in V
    BY <2>3, <2>4, <2>5, AppendProperties
  <2> QED
    BY <2>1, <2>6
<1>2. bad \subseteq Nat
  OBVIOUS
<1>3. bad = {}
  <2> HIDE DEF bad
  <2> QED
    BY <1>1, <1>2, LeastNumber
<1> QED
  BY <1>3

LEMMA DigitsUnfold ==
  ASSUME NEW base \in Nat, base > 1, NEW n \in Nat
  PROVE  /\ Digits(n, base) \in Seq(0..(base - 1))
         /\ Digits(n, base) = IF n = 0 THEN <<>> ELSE Append(Digits(n \div base, base), n % base)
<1> DEFINE d == CHOOSE g : IsDigits(g, base)
<1>1. IsDigits(d, base)
  BY DigitsExist
<1>2. \A m : Digits(m, base) = d[m]
  BY Zenon DEF Digits, IsDigits
<1>3. d[n] = IF n = 0 THEN <<>> ELSE Append(d[n \div base], n % base)
  BY <1>1 DEF IsDigits
<1>4. d[n] \in Seq(0..(base - 1))
  BY <1>1, DigitsTyped
<1> HIDE DEF d
<1> QED
  BY <1>2, <1>3, <1>4

\* What the bytes of a number stand for.
IsValue(g, s, base) ==
  g = [i \in 0..Len(s) |-> IF i = 0 THEN 0 ELSE g[i - 1] * base + s[i]]

LEMMA ValueExists ==
  ASSUME NEW s \in Seq(Nat), NEW base \in Nat
  PROVE  \E g \in [0..Len(s) -> Nat] : IsValue(g, s, base)
<1> DEFINE D == 0..Len(s)
           stop == {0}
           rank == [i \in D |-> i]
           next == [i \in D |-> IF i = 0 THEN 0 ELSE i - 1]
           start == [i \in D |-> 0]
           step == [p \in D \X Nat |-> p[2] * base + (IF p[1] = 0 THEN 0 ELSE s[p[1]])]
<1>1. Len(s) \in Nat /\ \A i \in D : i \in Nat /\ (i # 0 => i - 1 \in D)
  OBVIOUS
<1>2. \A i \in D \ {0} : s[i] \in Nat
  <2>1. \A i \in D \ {0} : i \in 1..Len(s)
    BY <1>1
  <2> HIDE DEF D
  <2> QED
    BY <2>1, ElementOfSeq
<1>3. \A i \in D \ {0}, v \in Nat : v * base + s[i] \in Nat
  BY <1>2
<1>4. \A i \in D \ {0}, v \in Nat : step[<<i, v>>] = v * base + s[i]
  OBVIOUS
<1>5. /\ rank \in [D -> Nat]
      /\ \A i \in D : rank[i] = i /\ start[i] = 0 /\ (i # 0 => next[i] = i - 1)
  BY <1>1
<1> HIDE DEF D, rank, next, start, step
<1>5a. ASSUME NEW i \in D \ stop PROVE next[i] \in D /\ rank[next[i]] < rank[i]
  <2>1. i # 0 /\ next[i] = i - 1 /\ i - 1 \in D /\ i \in Nat
    BY <1>1, <1>5
  <2>2. rank[i] = i /\ rank[i - 1] = i - 1
    BY <1>5, <2>1
  <2> QED
    BY <2>1, <2>2
<1>5b. \A i \in D \ stop, v \in Nat : step[<<i, v>>] \in Nat
  BY <1>3, <1>4
<1>6. Decreasing(D, Nat, stop, next, start, step, rank)
  BY <1>5, <1>5a, <1>5b DEF Decreasing
<1>7. PICK g \in [D -> Nat] : \A i \in D :
        g[i] = IF i \in stop THEN start[i] ELSE step[<<i, g[next[i]]>>]
  BY <1>6, Recursion
<1>8. ASSUME NEW i \in D PROVE g[i] = IF i = 0 THEN 0 ELSE g[i - 1] * base + s[i]
  <2>1. CASE i = 0
    BY <1>5, <1>7, <2>1
  <2>2. CASE i # 0
    <3>1. next[i] = i - 1 /\ i - 1 \in D /\ i \in D \ stop
      BY <1>1, <1>5, <2>2
    <3>2. g[i - 1] \in Nat
      BY <1>7, <3>1
    <3>3. step[<<i, g[i - 1]>>] = g[i - 1] * base + s[i]
      BY <1>4, <3>1, <3>2
    <3> QED
      BY <1>7, <2>2, <3>1, <3>3
  <2> QED
    BY <2>1, <2>2
<1>9. g = [i \in D |-> IF i = 0 THEN 0 ELSE g[i - 1] * base + s[i]]
  BY <1>7, <1>8
<1> QED
  BY <1>7, <1>9 DEF IsValue, D

LEMMA ValueStart == ASSUME NEW g, NEW s, NEW base, Len(s) \in Nat, IsValue(g, s, base)
                    PROVE  g[0] = 0
<1>1. 0 \in 0..Len(s)
  OBVIOUS
<1> QED
  BY <1>1, Zenon DEF IsValue

\* What stands behind the k-th place of s.
Behind(s, k, t) ==
  /\ Len(s) \in Nat /\ Len(t) \in Nat /\ k \in Nat /\ k + Len(t) <= Len(s)
  /\ \A i \in 1..Len(t) : s[k + i] = t[i]

\* The value of what follows a beginning that is worth nothing.
LEMMA ValueShift ==
  ASSUME NEW base, NEW s, NEW t, NEW g, NEW h, NEW k, Behind(s, k, t),
         IsValue(g, s, base), IsValue(h, t, base), g[k] = 0
  PROVE  g[k + Len(t)] = h[Len(t)]
<1> USE DEF Behind
<1> DEFINE bad == {i \in 0..Len(t) : g[k + i] # h[i]}
<1>1. h[0] = 0
  BY ValueStart
<1>2. ASSUME NEW i \in bad, \A j \in bad : i <= j PROVE FALSE
  <2>1. i \in 0..Len(t) /\ g[k + i] # h[i]
    OBVIOUS
  <2>2. i # 0
    BY <1>1, <2>1
  <2>3. i - 1 \in 0..Len(t) /\ i \in 1..Len(t) /\ k + i \in 0..Len(s) /\ k + i # 0
        /\ (k + i) - 1 = k + (i - 1)
    BY <2>1, <2>2
  <2>4. ~(i <= i - 1)
    BY <2>1
  <2>5. g[k + (i - 1)] = h[i - 1]
    BY <1>2, <2>3, <2>4
  <2>6. h[i] = h[i - 1] * base + t[i]
    BY <2>2, <2>3 DEF IsValue
  <2>7. g[k + i] = g[(k + i) - 1] * base + s[k + i]
    BY <2>3 DEF IsValue
  <2> QED
    BY <2>1, <2>3, <2>5, <2>6, <2>7
<1>3. bad \subseteq Nat
  OBVIOUS
<1>4. bad = {}
  <2> HIDE DEF bad
  <2> QED
    BY <1>2, <1>3, LeastNumber
<1> QED
  BY <1>4

LEMMA ValueIs ==
  ASSUME NEW s \in Seq(Nat), NEW base \in Nat
  PROVE  /\ ValueOf(s, base) \in Nat
         /\ \E g : IsValue(g, s, base) /\ ValueOf(s, base) = g[Len(s)]
<1> DEFINE v == CHOOSE g : IsValue(g, s, base)
<1>1. PICK h \in [0..Len(s) -> Nat] : IsValue(h, s, base)
  BY ValueExists
<1>2. IsValue(v, s, base)
  BY <1>1
<1>3. ValueOf(s, base) = v[Len(s)]
  BY Zenon DEF ValueOf, IsValue
<1> HIDE DEF v
<1>4. v[Len(s)] = h[Len(s)]
  <2>1. PICK z \in Nat : z = 0
    OBVIOUS
  <2>2. v[z] = 0
    BY <1>2, <2>1, ValueStart
  <2>3. Behind(s, z, s) /\ z + Len(s) = Len(s)
    BY <2>1 DEF Behind
  <2>4. v[z + Len(s)] = h[Len(s)]
    BY <1>1, <1>2, <2>2, <2>3, ValueShift
  <2> QED
    BY <2>3, <2>4
<1>5. h[Len(s)] \in Nat
  BY <1>1
<1> QED
  BY <1>2, <1>3, <1>4, <1>5

LEMMA ValueEmpty == ASSUME NEW base \in Nat PROVE ValueOf(<<>>, base) = 0
<1>1. <<>> \in Seq(Nat) /\ Len(<<>>) = 0
  BY EmptySeq
<1>2. PICK g : IsValue(g, <<>>, base) /\ ValueOf(<<>>, base) = g[Len(<<>>)]
  BY <1>1, ValueIs
<1> QED
  BY <1>1, <1>2 DEF IsValue

LEMMA ValueAppend ==
  ASSUME NEW s \in Seq(Nat), NEW x \in Nat, NEW base \in Nat
  PROVE  ValueOf(Append(s, x), base) = ValueOf(s, base) * base + x
<1> DEFINE t == Append(s, x)
           n == Len(s)
<1>1. /\ t \in Seq(Nat) /\ Len(t) = n + 1 /\ t[n + 1] = x /\ n \in Nat
      /\ \A i \in 1..n : t[i] = s[i]
  BY AppendProperties
<1> HIDE DEF t
<1>2. PICK g : IsValue(g, t, base) /\ ValueOf(t, base) = g[Len(t)]
  BY <1>1, ValueIs
<1>3. PICK h : IsValue(h, s, base) /\ ValueOf(s, base) = h[Len(s)]
  BY ValueIs
<1>4. g[n] = h[n]
  <2>1. PICK z \in Nat : z = 0
    OBVIOUS
  <2>2. Behind(t, z, s) /\ z + n = n
    BY <1>1, <2>1 DEF Behind
  <2>3. g[z] = 0
    BY <1>1, <1>2, <2>1, ValueStart
  <2>4. g[z + Len(s)] = h[Len(s)]
    BY <1>2, <1>3, <2>2, <2>3, ValueShift
  <2> QED
    BY <2>2, <2>4
<1>5. g[n + 1] = g[n] * base + x
  <2>1. n + 1 \in 0..Len(t) /\ n + 1 # 0 /\ (n + 1) - 1 = n
    BY <1>1
  <2>2. g[n + 1] = g[(n + 1) - 1] * base + t[n + 1]
    BY <1>2, <2>1 DEF IsValue
  <2> QED
    BY <1>1, <2>1, <2>2
<1> QED
  BY <1>1, <1>2, <1>3, <1>4, <1>5 DEF t

\* Leading zeros are worth nothing.
LEMMA ValuePadded ==
  ASSUME NEW s \in Seq(Nat), NEW k \in Nat, NEW t \in Seq(Nat), NEW base \in Nat,
         Len(s) = k + Len(t), \A i \in 1..k : s[i] = 0, \A i \in 1..Len(t) : s[k + i] = t[i]
  PROVE  ValueOf(s, base) = ValueOf(t, base)
<1>1. PICK g : IsValue(g, s, base) /\ ValueOf(s, base) = g[Len(s)]
  BY ValueIs
<1>2. PICK h : IsValue(h, t, base) /\ ValueOf(t, base) = h[Len(t)]
  BY ValueIs
<1> DEFINE bad == {i \in 0..k : g[i] # 0}
<1>3. ASSUME NEW i \in bad, \A j \in bad : i <= j PROVE FALSE
  <2>1. i \in 0..k /\ g[i] # 0 /\ i \in 0..Len(s)
    OBVIOUS
  <2>2. i # 0
    BY <1>1, <2>1 DEF IsValue
  <2>3. i - 1 \in 0..k /\ i \in 1..k /\ ~(i <= i - 1)
    BY <2>1, <2>2
  <2>4. g[i - 1] = 0
    BY <1>3, <2>3
  <2>5. g[i] = g[i - 1] * base + s[i]
    BY <1>1, <2>1, <2>2 DEF IsValue
  <2> QED
    BY <2>1, <2>3, <2>4, <2>5
<1>4. bad = {}
  <2>1. bad \subseteq Nat
    OBVIOUS
  <2> HIDE DEF bad
  <2> QED
    BY <1>3, <2>1, LeastNumber
<1>5. g[k] = 0
  <2>1. k \in 0..k /\ k \notin bad
    BY <1>4
  <2> QED
    BY <2>1
<1>6. Behind(s, k, t)
  <2>1. Len(s) \in Nat /\ Len(t) \in Nat
    OBVIOUS
  <2> QED
    BY <2>1 DEF Behind
<1>7. g[k + Len(t)] = h[Len(t)]
  BY <1>1, <1>2, <1>5, <1>6, ValueShift
<1> QED
  BY <1>1, <1>2, <1>7

LEMMA DigitsValue ==
  ASSUME NEW base \in Nat, base > 1, NEW n \in Nat
  PROVE  ValueOf(Digits(n, base), base) = n
<1> DEFINE bad == {m \in Nat : ValueOf(Digits(m, base), base) # m}
<1>1. ASSUME NEW m \in bad, \A k \in bad : m <= k PROVE FALSE
  <2>1. m \in Nat /\ ValueOf(Digits(m, base), base) # m
    OBVIOUS
  <2>2. m # 0
    <3>1. Digits(0, base) = <<>>
      BY DigitsUnfold
    <3> QED
      BY <2>1, <3>1, ValueEmpty
  <2>3. PICK q \in Nat : q = m \div base /\ q < m
    BY <2>1, <2>2
  <2>4. PICK r \in Nat : r = m % base /\ m = q * base + r
    BY <2>1, <2>3
  <2>5. q \notin bad
    BY <1>1, <2>1, <2>3
  <2>6. ValueOf(Digits(q, base), base) = q
    BY <2>5
  <2>7. Digits(m, base) = Append(Digits(q, base), r)
    BY <2>1, <2>2, <2>3, <2>4, DigitsUnfold
  <2>8. Digits(q, base) \in Seq(Nat)
    <3>1. Digits(q, base) \in Seq(0..(base - 1)) /\ 0..(base - 1) \subseteq Nat
      BY DigitsUnfold
    <3> QED
      BY <3>1, SeqMonotonic
  <2> QED
    BY <2>1, <2>4, <2>6, <2>7, <2>8, ValueAppend
<1>2. bad = {}
  <2>1. bad \subseteq Nat
    OBVIOUS
  <2> HIDE DEF bad
  <2> QED
    BY <1>1, <2>1, LeastNumber
<1> QED
  BY <1>2

\* What is written in a width that holds it is read again.
LEMMA BigEndianValue ==
  ASSUME NEW n \in Nat, NEW width \in Nat, Fits(n, width)
  PROVE  /\ BigEndian(n, width) \in Seq(Bytes) /\ Len(BigEndian(n, width)) = width
         /\ ValueOf(BigEndian(n, width), 256) = n
<1> DEFINE d == Digits(n, 256)
           k == width - Len(d)
           z == Repeated(0, k)
           s == BigEndian(n, width)
<1>1. d \in Seq(Bytes) /\ ValueOf(d, 256) = n
  <2>1. PICK base \in Nat : base = 256
    OBVIOUS
  <2>2. base > 1 /\ 0..(base - 1) = Bytes
    BY <2>1 DEF Bytes
  <2>3. Digits(n, base) \in Seq(0..(base - 1)) /\ ValueOf(Digits(n, base), base) = n
    BY <2>2, DigitsUnfold, DigitsValue
  <2> QED
    BY <2>1, <2>2, <2>3
<1>2. k \in Nat /\ Len(d) \in Nat
  BY <1>1 DEF Fits
<1>3. z \in Seq(Bytes) /\ Len(z) = k /\ \A i \in 1..k : z[i] = 0
  BY <1>2 DEF Repeated, Bytes
<1>4. s = z \o d
  BY DEF BigEndian
<1> HIDE DEF d, z, s
<1>5. /\ s \in Seq(Bytes) /\ Len(s) = k + Len(d)
      /\ \A i \in 1..(k + Len(d)) : s[i] = IF i <= k THEN z[i] ELSE d[i - k]
  BY <1>1, <1>3, <1>4, ConcatProperties
<1> HIDE DEF k
<1>6. /\ \A i \in 1..k : s[i] = 0
      /\ \A i \in 1..Len(d) : s[k + i] = d[i]
  BY <1>2, <1>3, <1>5
<1>7. s \in Seq(Nat) /\ d \in Seq(Nat)
  <2>1. Bytes \subseteq Nat
    BY DEF Bytes
  <2> QED
    BY <1>1, <1>5, <2>1, SeqMonotonic
<1>8. ValueOf(s, 256) = n
  BY <1>1, <1>2, <1>5, <1>6, <1>7, ValuePadded
<1> QED
  BY <1>2, <1>5, <1>8 DEF s, k

-----------------------------------------------------------------------------
(* What is written one after the other is found at its place.              *)

Reads(s, from, t) ==
  /\ Len(s) \in Nat /\ Len(t) \in Nat /\ from \in Nat \ {0}
  /\ from - 1 + Len(t) <= Len(s)
  /\ \A i \in 1..Len(t) : s[from - 1 + i] = t[i]

LEMMA ReadsSlice ==
  ASSUME NEW S, NEW s \in Seq(S), NEW t \in Seq(S), NEW from, Reads(s, from, t)
  PROVE  Slice(s, from, Len(t)) = t
<1> DEFINE n == Len(t)
           u == SubSeq(s, from, from + n - 1)
<1>1. n \in Nat /\ from \in Nat \ {0} /\ Len(s) \in Nat /\ from - 1 + n <= Len(s)
  BY DEF Reads
<1>2. \A i \in from..(from + n - 1) : s[i] \in S
  <2>1. \A i \in from..(from + n - 1) : i \in 1..Len(s)
    BY <1>1
  <2> QED
    BY <2>1, ElementOfSeq
<1>3. from + n - 1 \in Int
  BY <1>1
<1>4. /\ u \in Seq(S)
      /\ Len(u) = IF from <= from + n - 1 THEN (from + n - 1) - from + 1 ELSE 0
      /\ \A i \in 1..((from + n - 1) - from + 1) : u[i] = s[from + i - 1]
  BY <1>1, <1>2, <1>3, SubSeqProperties
<1>5. Len(u) = n /\ \A i \in 1..n : u[i] = t[i]
  <2>1. \A i \in 1..n : s[from - 1 + i] = t[i] /\ from - 1 + i = from + i - 1
    BY <1>1 DEF Reads
  <2> HIDE DEF u
  <2> QED
    BY <1>1, <1>4, <2>1
<1> HIDE DEF u
<1>6. u = t
  BY <1>4, <1>5, SeqEqual
<1> QED
  BY <1>6 DEF u, Slice

Joined(p, q, s) == s = p \o q

LEMMA ReadsWritten ==
  ASSUME NEW S, NEW p \in Seq(S), NEW q \in Seq(S), NEW s, Joined(p, q, s)
  PROVE  /\ s \in Seq(S) /\ Len(s) = Len(p) + Len(q)
         /\ Len(p) \in Nat /\ Len(q) \in Nat
         /\ Reads(s, Len(p) + 1, q)
         /\ \A from, t : Reads(p, from, t) => Reads(s, from, t)
<1>1. Len(p) \in Nat /\ Len(q) \in Nat
  OBVIOUS
<1>2. /\ s \in Seq(S) /\ Len(s) = Len(p) + Len(q)
      /\ \A i \in 1..(Len(p) + Len(q)) : s[i] = IF i <= Len(p) THEN p[i] ELSE q[i - Len(p)]
  BY ConcatProperties DEF Joined
<1>3. Reads(s, Len(p) + 1, q)
  BY <1>1, <1>2 DEF Reads
<1>4. ASSUME NEW from, NEW t, Reads(p, from, t) PROVE Reads(s, from, t)
  <2>1. /\ Len(t) \in Nat /\ from \in Nat \ {0} /\ from - 1 + Len(t) <= Len(p)
        /\ \A i \in 1..Len(t) : p[from - 1 + i] = t[i]
    BY <1>4 DEF Reads
  <2>2. \A i \in 1..Len(t) : from - 1 + i \in 1..Len(p)
    BY <1>1, <2>1
  <2>3. \A i \in 1..Len(p) : s[i] = p[i]
    BY <1>1, <1>2
  <2>4. \A i \in 1..Len(t) : s[from - 1 + i] = t[i]
    BY <2>1, <2>2, <2>3
  <2> QED
    BY <1>1, <1>2, <2>1, <2>4 DEF Reads
<1> QED
  BY <1>1, <1>2, <1>3, <1>4

LEMMA JoinedTyped ==
  ASSUME NEW S, NEW p \in Seq(S), NEW q \in Seq(S), NEW s, Joined(p, q, s)
  PROVE  s \in Seq(S) /\ Len(s) = Len(p) + Len(q)
BY ReadsWritten

\* s is p and then q, which starts at `at` and ends before `next`.
Piece(p, q, s, at, next) ==
  s = p \o q /\ Len(p) + 1 = at /\ at + Len(q) = next

LEMMA PieceWritten ==
  ASSUME NEW S, NEW p \in Seq(S), NEW q \in Seq(S), NEW s, NEW at, NEW next,
         Piece(p, q, s, at, next)
  PROVE  /\ s \in Seq(S) /\ Len(s) + 1 = next
         /\ Reads(s, at, q)
         /\ \A from, t : Reads(p, from, t) => Reads(s, from, t)
<1>1. Joined(p, q, s) /\ Len(p) + 1 = at /\ at + Len(q) = next
  BY DEF Piece, Joined
<1>2. /\ s \in Seq(S) /\ Len(s) = Len(p) + Len(q)
      /\ Len(p) \in Nat /\ Len(q) \in Nat
      /\ Reads(s, Len(p) + 1, q)
      /\ \A from, t : Reads(p, from, t) => Reads(s, from, t)
  BY <1>1, ReadsWritten, Zenon
<1>3. Reads(s, at, q)
  BY <1>1, <1>2
<1>4. Len(s) + 1 = next
  BY <1>1, <1>2
<1> QED
  BY <1>2, <1>3, <1>4

LEMMA ReadsOne ==
  ASSUME NEW s, NEW from, NEW x, Reads(s, from, <<x>>)
  PROVE  s[from] = x
<1>1. from \in Nat \ {0} /\ 1 \in 1..1 /\ Len(<<x>>) = 1 /\ <<x>>[1] = x
  BY DEF Reads
<1>2. s[from - 1 + 1] = x
  BY <1>1 DEF Reads
<1> QED
  BY <1>1, <1>2

LEMMA ReadsPair ==
  ASSUME NEW s, NEW from, NEW x, NEW y, Reads(s, from, <<x, y>>)
  PROVE  s[from] = x /\ s[from + 1] = y
<1> DEFINE t == <<x, y>>
<1>1. /\ from \in Nat \ {0} /\ Len(t) = 2 /\ t[1] = x /\ t[2] = y
      /\ \A i \in 1..Len(t) : s[from - 1 + i] = t[i]
  BY DEF Reads
<1> HIDE DEF t
<1>2. 1 \in 1..Len(t) /\ 2 \in 1..Len(t)
  BY <1>1
<1>3. s[from - 1 + 1] = x /\ s[from - 1 + 2] = y
  BY <1>1, <1>2
<1> QED
  BY <1>1, <1>3

LEMMA ReadsTriple ==
  ASSUME NEW s, NEW from, NEW x, NEW y, NEW z, Reads(s, from, <<x, y, z>>)
  PROVE  s[from] = x /\ s[from + 1] = y /\ s[from + 2] = z
<1> DEFINE t == <<x, y, z>>
<1>1. /\ from \in Nat \ {0} /\ Len(t) = 3 /\ t[1] = x /\ t[2] = y /\ t[3] = z
      /\ \A i \in 1..Len(t) : s[from - 1 + i] = t[i]
  BY DEF Reads
<1> HIDE DEF t
<1>2. 1 \in 1..Len(t) /\ 2 \in 1..Len(t) /\ 3 \in 1..Len(t)
  BY <1>1
<1>3. s[from - 1 + 1] = x /\ s[from - 1 + 2] = y /\ s[from - 1 + 3] = z
  BY <1>1, <1>2
<1> QED
  BY <1>1, <1>3

LEMMA ReadsAll ==
  ASSUME NEW S, NEW s \in Seq(S)
  PROVE  Reads(s, 1, s)
BY DEF Reads

-----------------------------------------------------------------------------
(* Shares at rest.                                                         *)

ShortBytes == {b \in Seq(Bytes) : Len(b) < 256}

StoredShares ==
  [version : Bytes, partyIndex : Bytes, share : {n \in Nat : Fits(n, ShareBytes)},
   publicKey : ShortBytes, chainCode : ShortBytes]

LEMMA ShareWritten ==
  ASSUME ShareBytes \in Nat, Fits(ShareBytes, 2), NEW data \in StoredShares
  PROVE  LET s == SerializeShare(data)
             key == 5 + ShareBytes
             code == key + 1 + Len(data.publicKey)
         IN  /\ s \in Seq(Bytes)
             /\ Reads(s, 1, <<data.version, data.partyIndex>>)
             /\ Reads(s, 3, BigEndian(ShareBytes, 2))
             /\ Reads(s, 5, BigEndian(data.share, ShareBytes))
             /\ Reads(s, key, <<Len(data.publicKey)>>)
             /\ Reads(s, key + 1, data.publicKey)
             /\ Reads(s, code, <<Len(data.chainCode)>>)
             /\ Reads(s, code + 1, data.chainCode)
<1> DEFINE a == <<data.version, data.partyIndex>>
           b == BigEndian(ShareBytes, 2)
           c == BigEndian(data.share, ShareBytes)
           d == <<Len(data.publicKey)>>
           e == data.publicKey
           f == <<Len(data.chainCode)>>
           g == data.chainCode
           s2 == a \o b
           s3 == s2 \o c
           s4 == s3 \o d
           s5 == s4 \o e
           s6 == s5 \o f
           s7 == s6 \o g
           key == 5 + ShareBytes
           code == key + 1 + Len(e)
<1>1. /\ a \in Seq(Bytes) /\ Len(a) = 2
      /\ d \in Seq(Bytes) /\ Len(d) = 1
      /\ f \in Seq(Bytes) /\ Len(f) = 1
      /\ e \in Seq(Bytes) /\ g \in Seq(Bytes)
  <2>1. /\ data.version \in Bytes /\ data.partyIndex \in Bytes
        /\ data.publicKey \in ShortBytes /\ data.chainCode \in ShortBytes
    BY DEF StoredShares
  <2>2. \A t \in ShortBytes : t \in Seq(Bytes) /\ Len(t) \in Bytes
    <3>1. \A t \in ShortBytes : t \in Seq(Bytes) /\ Len(t) < 256
      BY DEF ShortBytes
    <3>2. \A t \in Seq(Bytes) : Len(t) \in Nat
      OBVIOUS
    <3>3. \A n \in Nat : n < 256 => n \in Bytes
      BY DEF Bytes
    <3> QED
      BY <3>1, <3>2, <3>3
  <2>3. \A x \in Bytes : <<x>> \in Seq(Bytes) /\ Len(<<x>>) = 1
    OBVIOUS
  <2>4. \A x, y \in Bytes : <<x, y>> \in Seq(Bytes) /\ Len(<<x, y>>) = 2
    OBVIOUS
  <2>5. a \in Seq(Bytes) /\ Len(a) = 2
    BY <2>1, <2>4
  <2>6. e \in Seq(Bytes) /\ Len(e) \in Bytes /\ g \in Seq(Bytes) /\ Len(g) \in Bytes
    BY <2>1, <2>2
  <2>7. d \in Seq(Bytes) /\ Len(d) = 1 /\ f \in Seq(Bytes) /\ Len(f) = 1
    BY <2>3, <2>6
  <2> QED
    BY <2>5, <2>6, <2>7
<1>2. b \in Seq(Bytes) /\ Len(b) = 2
  <2>1. 2 \in Nat
    OBVIOUS
  <2> QED
    BY <2>1, BigEndianValue
<1>3. c \in Seq(Bytes) /\ Len(c) = ShareBytes /\ Fits(data.share, ShareBytes)
  <2>1. data.share \in Nat /\ Fits(data.share, ShareBytes)
    BY DEF StoredShares
  <2> QED
    BY <2>1, BigEndianValue
<1>4. SerializeShare(data) = s7
  BY <1>3 DEF SerializeShare
<1>13. /\ s2 = a \o b /\ s3 = s2 \o c /\ s4 = s3 \o d
       /\ s5 = s4 \o e /\ s6 = s5 \o f /\ s7 = s6 \o g
  OBVIOUS
<1> HIDE DEF a, b, c, d, e, f, g, s2, s3, s4, s5, s6, s7
<1>5. Reads(a, 1, a)
  BY <1>1, ReadsAll
<1>6. /\ s2 \in Seq(Bytes) /\ Len(s2) + 1 = 5
      /\ Reads(s2, 3, b) /\ \A from, t : Reads(a, from, t) => Reads(s2, from, t)
  <2>1. a \in Seq(Bytes) /\ b \in Seq(Bytes) /\ Piece(a, b, s2, 3, 5)
    BY <1>1, <1>2, <1>13 DEF Piece
  <2> QED
    BY <2>1, PieceWritten
<1>7. /\ s3 \in Seq(Bytes) /\ Len(s3) + 1 = key
      /\ Reads(s3, 5, c) /\ \A from, t : Reads(s2, from, t) => Reads(s3, from, t)
  <2>1. s2 \in Seq(Bytes) /\ c \in Seq(Bytes) /\ Piece(s2, c, s3, 5, key)
    BY <1>3, <1>6, <1>13 DEF Piece
  <2> QED
    BY <2>1, PieceWritten
<1>8. /\ s4 \in Seq(Bytes) /\ Len(s4) + 1 = key + 1
      /\ Reads(s4, key, d) /\ \A from, t : Reads(s3, from, t) => Reads(s4, from, t)
  <2>1. s3 \in Seq(Bytes) /\ d \in Seq(Bytes) /\ Piece(s3, d, s4, key, key + 1)
    BY <1>1, <1>7, <1>13 DEF Piece
  <2> QED
    BY <2>1, PieceWritten
<1>9. /\ s5 \in Seq(Bytes) /\ Len(s5) + 1 = code
      /\ Reads(s5, key + 1, e) /\ \A from, t : Reads(s4, from, t) => Reads(s5, from, t)
  <2>1. s4 \in Seq(Bytes) /\ e \in Seq(Bytes) /\ Piece(s4, e, s5, key + 1, code)
    BY <1>1, <1>8, <1>13 DEF Piece
  <2> QED
    BY <2>1, PieceWritten
<1>10. /\ s6 \in Seq(Bytes) /\ Len(s6) + 1 = code + 1
      /\ Reads(s6, code, f) /\ \A from, t : Reads(s5, from, t) => Reads(s6, from, t)
  <2>1. s5 \in Seq(Bytes) /\ f \in Seq(Bytes) /\ Piece(s5, f, s6, code, code + 1)
    BY <1>1, <1>9, <1>13 DEF Piece
  <2> QED
    BY <2>1, PieceWritten
<1>11. /\ s7 \in Seq(Bytes) /\ Len(s7) + 1 = code + 1 + Len(g)
      /\ Reads(s7, code + 1, g) /\ \A from, t : Reads(s6, from, t) => Reads(s7, from, t)
  <2>1. s6 \in Seq(Bytes) /\ g \in Seq(Bytes) /\ Piece(s6, g, s7, code + 1, code + 1 + Len(g))
    BY <1>1, <1>10, <1>13 DEF Piece
  <2> QED
    BY <2>1, PieceWritten
<1>12. /\ Reads(s7, 1, a) /\ Reads(s7, 3, b) /\ Reads(s7, 5, c) /\ Reads(s7, key, d)
       /\ Reads(s7, key + 1, e) /\ Reads(s7, code, f) /\ Reads(s7, code + 1, g)
  BY <1>5, <1>6, <1>7, <1>8, <1>9, <1>10, <1>11
<1> QED
  BY <1>4, <1>11, <1>12 DEF a, b, c, d, e, f, g

\* A share that was stored is the one that is loaded, with its key and its chain
\* code, whatever their lengths; one of another version, or that is no scalar, is
\* refused.
THEOREM SharesReadBack ==
  ASSUME ShareBytes \in Nat, Fits(ShareBytes, 2)
  PROVE  \A data \in StoredShares :
           DeserializeShare(SerializeShare(data)) =
             IF data.version = 1 /\ data.share \in 1..(CurveOrder - 1)
             THEN data ELSE Refused
<1> SUFFICES ASSUME NEW data \in StoredShares
             PROVE  DeserializeShare(SerializeShare(data)) =
                      IF data.version = 1 /\ data.share \in 1..(CurveOrder - 1)
                      THEN data ELSE Refused
  OBVIOUS
<1> DEFINE s == SerializeShare(data)
           key == 5 + ShareBytes
           code == key + 1 + Len(data.publicKey)
<1>1. /\ s \in Seq(Bytes)
      /\ Reads(s, 1, <<data.version, data.partyIndex>>)
      /\ Reads(s, 3, BigEndian(ShareBytes, 2))
      /\ Reads(s, 5, BigEndian(data.share, ShareBytes))
      /\ Reads(s, key, <<Len(data.publicKey)>>)
      /\ Reads(s, key + 1, data.publicKey)
      /\ Reads(s, code, <<Len(data.chainCode)>>)
      /\ Reads(s, code + 1, data.chainCode)
  BY ShareWritten
<1> HIDE DEF s
<1>2. s[1] = data.version /\ s[2] = data.partyIndex
  BY <1>1 DEF Reads
<1>3. ValueOf(Slice(s, 3, 2), 256) = ShareBytes
  <2>1. 2 \in Nat
    OBVIOUS
  <2>2. /\ BigEndian(ShareBytes, 2) \in Seq(Bytes) /\ Len(BigEndian(ShareBytes, 2)) = 2
        /\ ValueOf(BigEndian(ShareBytes, 2), 256) = ShareBytes
    BY <2>1, BigEndianValue
  <2>3. Slice(s, 3, Len(BigEndian(ShareBytes, 2))) = BigEndian(ShareBytes, 2)
    BY <1>1, <2>2, ReadsSlice
  <2> QED
    BY <2>2, <2>3
<1>4. ValueOf(Slice(s, 5, ShareBytes), 256) = data.share
  <2>1. /\ BigEndian(data.share, ShareBytes) \in Seq(Bytes)
        /\ Len(BigEndian(data.share, ShareBytes)) = ShareBytes
        /\ ValueOf(BigEndian(data.share, ShareBytes), 256) = data.share
    <3>1. data.share \in Nat /\ Fits(data.share, ShareBytes)
      BY DEF StoredShares
    <3> QED
      BY <3>1, BigEndianValue
  <2> QED
    BY <1>1, <2>1, ReadsSlice
<1>5. s[key] = Len(data.publicKey) /\ s[code] = Len(data.chainCode)
  BY <1>1, ReadsOne
<1>6. /\ Slice(s, key + 1, Len(data.publicKey)) = data.publicKey
      /\ Slice(s, code + 1, Len(data.chainCode)) = data.chainCode
  BY <1>1, ReadsSlice DEF StoredShares, ShortBytes
<1>7. data = [version |-> data.version, partyIndex |-> data.partyIndex,
              share |-> data.share, publicKey |-> data.publicKey,
              chainCode |-> data.chainCode]
  BY DEF StoredShares
<1>8. DeserializeShare(s) =
        IF data.version # 1 \/ data.share \notin 1..(CurveOrder - 1) THEN Refused
        ELSE [version |-> data.version, partyIndex |-> data.partyIndex,
              share |-> data.share, publicKey |-> data.publicKey,
              chainCode |-> data.chainCode]
  <2> DEFINE len == ValueOf(Slice(s, 3, 2), 256)
             share == ValueOf(Slice(s, 5, len), 256)
             at == 5 + len
             after == at + 1 + s[at]
  <2>1. DeserializeShare(s) =
          IF s[1] # 1 \/ share \notin 1..(CurveOrder - 1) THEN Refused
          ELSE [version |-> s[1], partyIndex |-> s[2], share |-> share,
                publicKey |-> Slice(s, at + 1, s[at]),
                chainCode |-> Slice(s, after + 1, s[after])]
    BY DEF DeserializeShare
  <2>2. share = data.share
    BY <1>3, <1>4
  <2>3. at = key /\ after = code
    BY <1>3, <1>5
  <2>4. /\ Slice(s, at + 1, s[at]) = data.publicKey
        /\ Slice(s, after + 1, s[after]) = data.chainCode
    BY <2>3, <1>5, <1>6
  <2> HIDE DEF len, share, at, after
  <2> QED
    BY <2>1, <2>2, <2>4, <1>2
<1> QED
  BY <1>7, <1>8 DEF s

-----------------------------------------------------------------------------
(* Messages.                                                               *)

Messages ==
  [version : Bytes, type : Bytes, sessionId : {t \in Seq(Bytes) : Fits(Len(t), 2)},
   sequence : {n \in Nat : Fits(n, 4)}, from : Bytes, to : Bytes,
   timestamp : {n \in Nat : Fits(n, 8)},
   payload : {t \in Seq(Bytes) : Fits(Len(t), 4) /\ Fits(Len(t) + 28, 4)}]

\* Where the fields behind the session id start, and where the payload ends.
FieldsAt(msg) == 10 + Len(msg.sessionId)
PayloadEnd(msg, payload) == FieldsAt(msg) + 17 + Len(payload)

Body(msg, flag, payload) ==
  Magic \o <<msg.version, msg.type, flag>>
    \o BigEndian(Len(msg.sessionId), 2) \o msg.sessionId
    \o BigEndian(msg.sequence, 4) \o <<msg.from, msg.to>>
    \o BigEndian(msg.timestamp, 8)
    \o BigEndian(Len(payload), 4) \o payload

Carries(s, msg, flag, payload) ==
  LET at == FieldsAt(msg)
  IN  /\ Reads(s, 1, Magic)
      /\ Reads(s, 5, <<msg.version, msg.type, flag>>)
      /\ Reads(s, 8, BigEndian(Len(msg.sessionId), 2))
      /\ Reads(s, 10, msg.sessionId)
      /\ Reads(s, at, BigEndian(msg.sequence, 4))
      /\ Reads(s, at + 4, <<msg.from, msg.to>>)
      /\ Reads(s, at + 6, BigEndian(msg.timestamp, 8))
      /\ Reads(s, at + 14, BigEndian(Len(payload), 4))
      /\ Reads(s, at + 18, payload)

LEMMA BodyCarries ==
  ASSUME NEW S, Bytes \subseteq S, NEW msg \in Messages, NEW flag \in Bytes,
         NEW payload \in Seq(S), Fits(Len(payload), 4)
  PROVE  LET s == Body(msg, flag, payload)
         IN  /\ s \in Seq(S) /\ Len(s) = PayloadEnd(msg, payload)
             /\ Carries(s, msg, flag, payload)
<1> DEFINE a == Magic
           b == <<msg.version, msg.type, flag>>
           c == BigEndian(Len(msg.sessionId), 2)
           d == msg.sessionId
           e == BigEndian(msg.sequence, 4)
           f == <<msg.from, msg.to>>
           g == BigEndian(msg.timestamp, 8)
           h == BigEndian(Len(payload), 4)
           s2 == a \o b
           s3 == s2 \o c
           s4 == s3 \o d
           s5 == s4 \o e
           s6 == s5 \o f
           s7 == s6 \o g
           s8 == s7 \o h
           s9 == s8 \o payload
           at == FieldsAt(msg)
<1>1. /\ msg.version \in Bytes /\ msg.type \in Bytes /\ msg.from \in Bytes /\ msg.to \in Bytes
      /\ msg.sessionId \in Seq(Bytes) /\ Fits(Len(msg.sessionId), 2)
      /\ msg.sequence \in Nat /\ Fits(msg.sequence, 4)
      /\ msg.timestamp \in Nat /\ Fits(msg.timestamp, 8)
  BY DEF Messages
<1>2. \A t \in Seq(Bytes) : t \in Seq(S) /\ Len(t) \in Nat
  BY SeqMonotonic
<1>3. a \in Seq(S) /\ Len(a) = 4
  <2>1. Magic \in Seq(Bytes) /\ Len(Magic) = 4
    BY DEF Magic, Bytes
  <2> QED
    BY <2>1, <1>2
<1>4. b \in Seq(S) /\ Len(b) = 3 /\ f \in Seq(S) /\ Len(f) = 2
  <2>1. \A x, y, z \in Bytes : /\ <<x, y, z>> \in Seq(Bytes) /\ Len(<<x, y, z>>) = 3
                               /\ <<x, y>> \in Seq(Bytes) /\ Len(<<x, y>>) = 2
    OBVIOUS
  <2> QED
    BY <2>1, <1>1, <1>2
<1>5. /\ c \in Seq(S) /\ Len(c) = 2 /\ e \in Seq(S) /\ Len(e) = 4
      /\ g \in Seq(S) /\ Len(g) = 8 /\ h \in Seq(S) /\ Len(h) = 4
  <2>1. 2 \in Nat /\ 4 \in Nat /\ 8 \in Nat
    OBVIOUS
  <2>2. Len(msg.sessionId) \in Nat /\ Len(payload) \in Nat
    BY <1>1
  <2>3. c \in Seq(Bytes) /\ Len(c) = 2
    BY <1>1, <2>1, <2>2, BigEndianValue
  <2>4. e \in Seq(Bytes) /\ Len(e) = 4
    BY <1>1, <2>1, BigEndianValue
  <2>5. g \in Seq(Bytes) /\ Len(g) = 8
    BY <1>1, <2>1, BigEndianValue
  <2>6. h \in Seq(Bytes) /\ Len(h) = 4
    BY <2>1, <2>2, BigEndianValue
  <2> QED
    BY <2>3, <2>4, <2>5, <2>6, <1>2
<1>6. d \in Seq(S) /\ at = 10 + Len(d) /\ Len(d) \in Nat
  BY <1>1, <1>2 DEF FieldsAt
<1>7. Body(msg, flag, payload) = s9 /\ PayloadEnd(msg, payload) = at + 17 + Len(payload)
  BY DEF Body, PayloadEnd
<1>8. /\ s2 = a \o b /\ s3 = s2 \o c /\ s4 = s3 \o d /\ s5 = s4 \o e
      /\ s6 = s5 \o f /\ s7 = s6 \o g /\ s8 = s7 \o h /\ s9 = s8 \o payload
  OBVIOUS
<1> HIDE DEF a, b, c, d, e, f, g, h, s2, s3, s4, s5, s6, s7, s8, s9, at
<1>9. Reads(a, 1, a)
  BY <1>3, ReadsAll
<1>10. /\ s2 \in Seq(S) /\ Len(s2) + 1 = 8
       /\ Reads(s2, 5, b) /\ \A from, t : Reads(a, from, t) => Reads(s2, from, t)
  <2>1. a \in Seq(S) /\ b \in Seq(S) /\ Piece(a, b, s2, 5, 8)
    BY <1>3, <1>4, <1>8 DEF Piece
  <2> QED
    BY <2>1, PieceWritten
<1>11. /\ s3 \in Seq(S) /\ Len(s3) + 1 = 10
       /\ Reads(s3, 8, c) /\ \A from, t : Reads(s2, from, t) => Reads(s3, from, t)
  <2>1. s2 \in Seq(S) /\ c \in Seq(S) /\ Piece(s2, c, s3, 8, 10)
    BY <1>5, <1>10, <1>8 DEF Piece
  <2> QED
    BY <2>1, PieceWritten
<1>12. /\ s4 \in Seq(S) /\ Len(s4) + 1 = at
       /\ Reads(s4, 10, d) /\ \A from, t : Reads(s3, from, t) => Reads(s4, from, t)
  <2>1. s3 \in Seq(S) /\ d \in Seq(S) /\ Piece(s3, d, s4, 10, at)
    BY <1>6, <1>11, <1>8 DEF Piece
  <2> QED
    BY <2>1, PieceWritten
<1>13. /\ s5 \in Seq(S) /\ Len(s5) + 1 = at + 4
       /\ Reads(s5, at, e) /\ \A from, t : Reads(s4, from, t) => Reads(s5, from, t)
  <2>1. s4 \in Seq(S) /\ e \in Seq(S) /\ Piece(s4, e, s5, at, at + 4)
    BY <1>5, <1>6, <1>12, <1>8 DEF Piece
  <2> QED
    BY <2>1, PieceWritten
<1>14. /\ s6 \in Seq(S) /\ Len(s6) + 1 = at + 6
       /\ Reads(s6, at + 4, f) /\ \A from, t : Reads(s5, from, t) => Reads(s6, from, t)
  <2>1. s5 \in Seq(S) /\ f \in Seq(S) /\ Piece(s5, f, s6, at + 4, at + 6)
    BY <1>4, <1>6, <1>13, <1>8 DEF Piece
  <2> QED
    BY <2>1, PieceWritten
<1>15. /\ s7 \in Seq(S) /\ Len(s7) + 1 = at + 14
       /\ Reads(s7, at + 6, g) /\ \A from, t : Reads(s6, from, t) => Reads(s7, from, t)
  <2>1. s6 \in Seq(S) /\ g \in Seq(S) /\ Piece(s6, g, s7, at + 6, at + 14)
    BY <1>5, <1>6, <1>14, <1>8 DEF Piece
  <2> QED
    BY <2>1, PieceWritten
<1>16. /\ s8 \in Seq(S) /\ Len(s8) + 1 = at + 18
       /\ Reads(s8, at + 14, h) /\ \A from, t : Reads(s7, from, t) => Reads(s8, from, t)
  <2>1. s7 \in Seq(S) /\ h \in Seq(S) /\ Piece(s7, h, s8, at + 14, at + 18)
    BY <1>5, <1>6, <1>15, <1>8 DEF Piece
  <2> QED
    BY <2>1, PieceWritten
<1>17. /\ s9 \in Seq(S) /\ Len(s9) + 1 = at + 18 + Len(payload)
       /\ Reads(s9, at + 18, payload) /\ \A from, t : Reads(s8, from, t) => Reads(s9, from, t)
  <2>1. s8 \in Seq(S) /\ payload \in Seq(S) /\ Piece(s8, payload, s9, at + 18, at + 18 + Len(payload))
    BY <1>6, <1>16, <1>8 DEF Piece
  <2> QED
    BY <2>1, PieceWritten
<1>18. Len(s9) = at + 17 + Len(payload)
  BY <1>6, <1>17
<1>19. /\ Reads(s9, 1, a) /\ Reads(s9, 5, b) /\ Reads(s9, 8, c) /\ Reads(s9, 10, d)
       /\ Reads(s9, at, e) /\ Reads(s9, at + 4, f) /\ Reads(s9, at + 6, g)
       /\ Reads(s9, at + 14, h) /\ Reads(s9, at + 18, payload)
  BY <1>9, <1>10, <1>11, <1>12, <1>13, <1>14, <1>15, <1>16, <1>17
<1>20. Carries(s9, msg, flag, payload)
  BY <1>19 DEF Carries, a, b, c, d, e, f, g, h, at
<1> QED
  BY <1>7, <1>17, <1>18, <1>20

Delivered(msg, text) ==
  [version |-> msg.version, type |-> msg.type, sessionId |-> msg.sessionId,
   sequence |-> msg.sequence, from |-> msg.from, to |-> msg.to,
   timestamp |-> msg.timestamp, payload |-> text]

\* The code at the end is not that of the keys.
Forged(buf, end, keys) ==
  /\ keys # NoKeys /\ Len(buf) >= end + 32
  /\ Slice(buf, end + 1, 32) # Hmac(keys, SubSeq(buf, 1, end))

Text(flag, payload, keys) ==
  IF flag % 2 = 0 THEN payload
  ELSE IF keys = NoKeys THEN Refused ELSE DecryptPayload(payload, keys)

\* A number behind n bytes of a buffer is read as it was written.
LEMMA NumberRead ==
  ASSUME NEW S, NEW buf \in Seq(S), Bytes \subseteq S, NEW n \in Nat, NEW width \in Nat,
         Fits(n, width), NEW at, Reads(buf, at, BigEndian(n, width))
  PROVE  ValueOf(Slice(buf, at, width), 256) = n
<1>1. /\ BigEndian(n, width) \in Seq(Bytes) /\ Len(BigEndian(n, width)) = width
      /\ ValueOf(BigEndian(n, width), 256) = n
  BY BigEndianValue
<1>2. BigEndian(n, width) \in Seq(S)
  BY <1>1, SeqMonotonic
<1>3. Slice(buf, at, Len(BigEndian(n, width))) = BigEndian(n, width)
  BY <1>2, ReadsSlice
<1> QED
  BY <1>1, <1>3

\* What a buffer that carries a message is decoded to.
LEMMA Decoded ==
  ASSUME NEW S, Bytes \subseteq S, NEW msg \in Messages, NEW flag \in Bytes,
         NEW payload \in Seq(S), Fits(Len(payload), 4), NEW keys,
         NEW buf \in Seq(S), Carries(buf, msg, flag, payload)
  PROVE  LET text == Text(flag, payload, keys)
         IN  DecodeMessage(buf, keys) =
               IF \/ Forged(buf, PayloadEnd(msg, payload), keys)
                  \/ text = Refused
               THEN Refused ELSE Delivered(msg, text)
<1> DEFINE len == ValueOf(Slice(buf, 8, 2), 256)
           at == 10 + len
           payloadLen == ValueOf(Slice(buf, at + 14, 4), 256)
           end == at + 17 + payloadLen
           load == Slice(buf, at + 18, payloadLen)
           text == IF buf[7] % 2 = 0 THEN load
                   ELSE IF keys = NoKeys THEN Refused ELSE DecryptPayload(load, keys)
<1>1. DecodeMessage(buf, keys) =
        IF \/ Len(buf) < 5 \/ Slice(buf, 1, 4) # Magic
           \/ Forged(buf, end, keys)
        THEN Refused
        ELSE IF text = Refused THEN Refused
        ELSE [version |-> buf[5], type |-> buf[6],
              sessionId |-> Slice(buf, 10, len),
              sequence |-> ValueOf(Slice(buf, at, 4), 256),
              from |-> buf[at + 4], to |-> buf[at + 5],
              timestamp |-> ValueOf(Slice(buf, at + 6, 8), 256),
              payload |-> text]
  BY DEF DecodeMessage, Forged
<1>2. /\ msg.sessionId \in Seq(Bytes) /\ Fits(Len(msg.sessionId), 2)
      /\ msg.sequence \in Nat /\ Fits(msg.sequence, 4)
      /\ msg.timestamp \in Nat /\ Fits(msg.timestamp, 8)
  BY DEF Messages
<1>3. /\ 2 \in Nat /\ 4 \in Nat /\ 8 \in Nat
      /\ Len(msg.sessionId) \in Nat /\ Len(payload) \in Nat
  BY <1>2
<1> DEFINE fields == FieldsAt(msg)
<1>4. /\ Reads(buf, 1, Magic)
      /\ Reads(buf, 5, <<msg.version, msg.type, flag>>)
      /\ Reads(buf, 8, BigEndian(Len(msg.sessionId), 2))
      /\ Reads(buf, 10, msg.sessionId)
      /\ Reads(buf, fields, BigEndian(msg.sequence, 4))
      /\ Reads(buf, fields + 4, <<msg.from, msg.to>>)
      /\ Reads(buf, fields + 6, BigEndian(msg.timestamp, 8))
      /\ Reads(buf, fields + 14, BigEndian(Len(payload), 4))
      /\ Reads(buf, fields + 18, payload)
  BY DEF Carries
<1>5. len = Len(msg.sessionId)
  BY <1>2, <1>3, <1>4, NumberRead
<1>6. at = fields
  BY <1>5 DEF FieldsAt
<1>7. payloadLen = Len(payload)
  <2>1. ValueOf(Slice(buf, fields + 14, 4), 256) = Len(payload)
    BY <1>3, <1>4, NumberRead
  <2> QED
    BY <1>6, <2>1
<1>8. end = PayloadEnd(msg, payload)
  BY <1>6, <1>7 DEF PayloadEnd
<1>9. load = payload
  <2>1. Slice(buf, fields + 18, Len(payload)) = payload
    BY <1>4, ReadsSlice
  <2> QED
    BY <1>6, <1>7, <2>1
<1>10. buf[5] = msg.version /\ buf[6] = msg.type /\ buf[7] = flag
  <2>1. buf[5] = msg.version /\ buf[5 + 1] = msg.type /\ buf[5 + 2] = flag
    BY <1>4, ReadsTriple
  <2> QED
    BY <2>1
<1>11. text = Text(flag, payload, keys)
  BY <1>9, <1>10 DEF Text
<1>12. /\ ValueOf(Slice(buf, at, 4), 256) = msg.sequence
       /\ ValueOf(Slice(buf, at + 6, 8), 256) = msg.timestamp
  <2>1. ValueOf(Slice(buf, fields, 4), 256) = msg.sequence
    BY <1>2, <1>3, <1>4, NumberRead
  <2>2. ValueOf(Slice(buf, fields + 6, 8), 256) = msg.timestamp
    BY <1>2, <1>3, <1>4, NumberRead
  <2> QED
    BY <1>6, <2>1, <2>2
<1>13. buf[at + 4] = msg.from /\ buf[at + 5] = msg.to
  <2>1. buf[fields + 4] = msg.from /\ buf[fields + 5] = msg.to
    <3> HIDE DEF fields
    <3>1. buf[fields + 4] = msg.from /\ buf[fields + 4 + 1] = msg.to
      BY <1>4, ReadsPair
    <3>2. fields + 4 + 1 = fields + 5
      BY <1>2 DEF FieldsAt, fields
    <3> QED
      BY <3>1, <3>2
  <2> QED
    BY <1>6, <2>1
<1>14. Slice(buf, 10, len) = msg.sessionId
  <2>1. msg.sessionId \in Seq(S)
    BY <1>2, SeqMonotonic
  <2>2. Slice(buf, 10, Len(msg.sessionId)) = msg.sessionId
    BY <1>4, <2>1, ReadsSlice
  <2> QED
    BY <1>5, <2>2
<1>15. ~ (Len(buf) < 5) /\ Slice(buf, 1, 4) = Magic
  <2>1. Magic \in Seq(Bytes) /\ Len(Magic) = 4
    BY DEF Magic, Bytes
  <2>2. Magic \in Seq(S)
    BY <2>1, SeqMonotonic
  <2>3. Slice(buf, 1, Len(Magic)) = Magic
    BY <1>4, <2>2, ReadsSlice
  <2>4. Len(buf) >= 5
    BY <1>4 DEF Reads
  <2> QED
    BY <2>1, <2>3, <2>4
<1> HIDE DEF len, at, payloadLen, end, load, text
<1>16. DecodeMessage(buf, keys) =
         IF Forged(buf, PayloadEnd(msg, payload), keys) THEN Refused
         ELSE IF text = Refused THEN Refused
         ELSE Delivered(msg, text)
  BY <1>1, <1>8, <1>10, <1>12, <1>13, <1>14, <1>15 DEF Delivered
<1> QED
  BY <1>11, <1>16

LEMMA Decrypts ==
  ASSUME NEW text \in Seq(Bytes), NEW keys, keys.pad \in Bytes
  PROVE  /\ EncryptPayload(text, keys) \in Seq(Bytes \cup {[tagOf |-> text, by |-> keys]})
         /\ Len(EncryptPayload(text, keys)) = Len(text) + 28
         /\ DecryptPayload(EncryptPayload(text, keys), keys) = text
<1> DEFINE tag == [tagOf |-> text, by |-> keys]
           S == Bytes \cup {tag}
           n == Len(text)
           a == Repeated(0, 12)
           b == [i \in DOMAIN text |-> (text[i] + keys.pad) % 256]
           c == Repeated(tag, 16)
           p == EncryptPayload(text, keys)
           clear == [i \in 1..(Len(p) - 28) |-> (p[i + 12] + 256 - keys.pad) % 256]
<1>1. n \in Nat /\ DOMAIN text = 1..n /\ \A i \in 1..n : text[i] \in Bytes
  OBVIOUS
<1>2. a \in Seq(S) /\ Len(a) = 12
  <2>1. 0 \in S /\ 12 \in Nat
    BY DEF Bytes
  <2> HIDE DEF S
  <2> QED
    BY <2>1 DEF Repeated
<1>3. c \in Seq(S) /\ Len(c) = 16 /\ \A i \in 1..16 : c[i] = tag
  <2>1. tag \in S /\ 16 \in Nat
    OBVIOUS
  <2> HIDE DEF S, tag
  <2> QED
    BY <2>1 DEF Repeated
<1>4. \A x, y \in Bytes : (x + y) % 256 \in Bytes /\ (((x + y) % 256) + 256 - y) % 256 = x
  BY DEF Bytes
<1>5. b \in Seq(S) /\ Len(b) = n /\ \A i \in 1..n : b[i] = (text[i] + keys.pad) % 256
  <2>1. b \in [1..n -> S]
    BY <1>1, <1>4
  <2>2. b \in Seq(S) /\ Len(b) = n
    BY <1>1, <2>1
  <2> QED
    BY <1>1, <2>2
<1>6. p = (a \o b) \o c
  BY DEF EncryptPayload
<1>7. DecryptPayload(p, keys) = IF Last(p) = [tagOf |-> clear, by |-> keys] THEN clear ELSE Refused
  BY DEF DecryptPayload
<1> DEFINE s == a \o b
<1>8. p = s \o c /\ s = a \o b
  BY <1>6
<1> HIDE DEF a, b, c, s, S, p
<1>9. /\ s \in Seq(S) /\ Len(s) + 1 = 13 + n /\ Reads(s, 13, b)
  <2>1. a \in Seq(S) /\ b \in Seq(S) /\ Piece(a, b, s, 13, 13 + n)
    BY <1>1, <1>2, <1>5, <1>8 DEF Piece
  <2> QED
    BY <2>1, PieceWritten
<1>13. /\ p \in Seq(S) /\ Len(p) + 1 = 29 + n
       /\ Reads(p, 13, b) /\ Reads(p, 13 + n, c)
  <2>1. s \in Seq(S) /\ c \in Seq(S) /\ Piece(s, c, p, 13 + n, 29 + n)
    BY <1>1, <1>3, <1>8, <1>9 DEF Piece
  <2> QED
    BY <2>1, <1>9, PieceWritten
<1>14. Len(p) = n + 28 /\ p[n + 28] = tag
  <2>1. 16 \in 1..Len(c) /\ p[13 + n - 1 + 16] = c[16]
    BY <1>3, <1>13 DEF Reads
  <2> QED
    BY <1>1, <1>3, <1>13, <2>1
<1>10. \A i \in 1..n : p[i + 12] = (text[i] + keys.pad) % 256
  <2>1. \A i \in 1..n : p[13 - 1 + i] = b[i]
    BY <1>5, <1>13 DEF Reads
  <2> QED
    BY <1>1, <1>5, <2>1
<1>11. clear = text
  <2>1. clear = [i \in 1..n |-> (p[i + 12] + 256 - keys.pad) % 256]
    BY <1>1, <1>14
  <2>2. \A i \in 1..n : (p[i + 12] + 256 - keys.pad) % 256 = text[i]
    BY <1>1, <1>4, <1>10
  <2>3. clear = [i \in 1..n |-> text[i]]
    BY <2>1, <2>2
  <2> QED
    BY <1>1, <2>3
<1>12. Last(p) = tag
  BY <1>14 DEF Last
<1> HIDE DEF clear
<1> QED
  BY <1>7, <1>11, <1>12, <1>13, <1>14 DEF p, S

\* A code is read back, whatever is behind what it is about, and is that of no
\* other keys.
LEMMA HmacIs ==
  ASSUME NEW S, NEW keys, NEW body, [macOf |-> body, by |-> keys] \in S
  PROVE  /\ Hmac(keys, body) \in Seq(S) /\ Len(Hmac(keys, body)) = 32
         /\ \A other : Hmac(other, body) = Hmac(keys, body) => other = keys
<1> DEFINE mac(k) == [macOf |-> body, by |-> k]
<1>1. Hmac(keys, body) \in Seq(S) /\ Len(Hmac(keys, body)) = 32
  <2> HIDE DEF mac
  <2>1. \A x \in S : Repeated(x, 32) \in Seq(S) /\ Len(Repeated(x, 32)) = 32
    BY DEF Repeated
  <2> QED
    BY <2>1, Zenon DEF Hmac
<1>2. ASSUME NEW other, Hmac(other, body) = Hmac(keys, body) PROVE other = keys
  <2>1. \A k : Hmac(k, body) = [i \in 1..32 |-> mac(k)]
    BY DEF Hmac, Repeated
  <2>2. mac(other) = mac(keys)
    <3> HIDE DEF mac
    <3>1. 1 \in 1..32
      OBVIOUS
    <3>2. [i \in 1..32 |-> mac(other)][1] = [i \in 1..32 |-> mac(keys)][1]
      BY <1>2, <2>1
    <3> QED
      BY <3>1, <3>2
  <2> QED
    BY <2>2
<1> QED
  BY <1>1, <1>2

\* What was written without keys is read by every node as it was written.
LEMMA ClearReadBack ==
  ASSUME NEW msg \in Messages, NEW read, Refused \notin Seq(Bytes)
  PROVE  DecodeMessage(EncodeMessage(msg, NoKeys), read) = msg
<1> DEFINE buf == Body(msg, 0, msg.payload)
           end == PayloadEnd(msg, msg.payload)
<1>1. msg.payload \in Seq(Bytes) /\ Fits(Len(msg.payload), 4) /\ 0 \in Bytes
  BY DEF Messages, Bytes
<1>2. EncodeMessage(msg, NoKeys) = buf
  BY DEF EncodeMessage, Body
<1>3. buf \in Seq(Bytes) /\ Len(buf) = end /\ Carries(buf, msg, 0, msg.payload)
  BY <1>1, BodyCarries
<1> HIDE DEF buf, end
<1>4. ~ Forged(buf, end, read)
  <2>1. Len(buf) \in Nat
    BY <1>3
  <2> QED
    BY <1>3, <2>1 DEF Forged
<1>5. Text(0, msg.payload, read) = msg.payload /\ msg.payload # Refused
  BY <1>1 DEF Text
<1>6. DecodeMessage(buf, read) = Delivered(msg, msg.payload)
  BY <1>1, <1>3, <1>4, <1>5, Decoded DEF end
<1>7. msg = Delivered(msg, msg.payload)
  BY DEF Messages, Delivered
<1> QED
  BY <1>2, <1>6, <1>7

\* What was written with keys is read with these, and refused with others or none.
LEMMA SealedReadBack ==
  ASSUME NEW msg \in Messages, NEW keys, keys # NoKeys, keys.pad \in Bytes, NEW read,
         Refused \notin Seq(Bytes)
  PROVE  DecodeMessage(EncodeMessage(msg, keys), read) =
           IF read = keys THEN msg ELSE Refused
<1> DEFINE payload == EncryptPayload(msg.payload, keys)
           body == Body(msg, 1, payload)
           code == Hmac(keys, body)
           buf == body \o code
           end == PayloadEnd(msg, payload)
           S == (Bytes \cup {[tagOf |-> msg.payload, by |-> keys]})
                  \cup {[macOf |-> body, by |-> keys]}
<1>1. msg.payload \in Seq(Bytes) /\ Fits(Len(msg.payload) + 28, 4) /\ 1 \in Bytes
  BY DEF Messages, Bytes
<1>2. EncodeMessage(msg, keys) = buf
  BY DEF EncodeMessage, Body
<1>3. /\ payload \in Seq(S) /\ Fits(Len(payload), 4)
      /\ DecryptPayload(payload, keys) = msg.payload
  <2> DEFINE T == Bytes \cup {[tagOf |-> msg.payload, by |-> keys]}
  <2>1. /\ payload \in Seq(T) /\ Len(payload) = Len(msg.payload) + 28
        /\ DecryptPayload(payload, keys) = msg.payload
    BY <1>1, Decrypts
  <2>2. T \subseteq S
    OBVIOUS
  <2> HIDE DEF T, S, payload
  <2>3. payload \in Seq(S)
    BY <2>1, <2>2, SeqMonotonic
  <2> QED
    BY <1>1, <2>1, <2>3
<1>4. Bytes \subseteq S /\ [macOf |-> body, by |-> keys] \in S
  OBVIOUS
<1> HIDE DEF S, payload
<1>5. body \in Seq(S) /\ Len(body) = end /\ Carries(body, msg, 1, payload)
  BY <1>1, <1>3, <1>4, BodyCarries
<1>6. /\ code \in Seq(S) /\ Len(code) = 32
      /\ \A other : Hmac(other, body) = code => other = keys
  BY <1>4, HmacIs
<1>7. buf = body \o code
  OBVIOUS
<1> HIDE DEF body, code, buf, end
<1>8. /\ buf \in Seq(S) /\ Len(buf) = end + 32 /\ end \in Nat
      /\ Reads(buf, end + 1, code)
      /\ \A from, t : Reads(body, from, t) => Reads(buf, from, t)
  <2>1. Piece(body, code, buf, end + 1, end + 33) /\ end \in Nat
    BY <1>5, <1>6, <1>7 DEF Piece
  <2>2. /\ buf \in Seq(S) /\ Len(buf) + 1 = end + 33 /\ Reads(buf, end + 1, code)
        /\ \A from, t : Reads(body, from, t) => Reads(buf, from, t)
    BY <1>5, <1>6, <2>1, PieceWritten
  <2>3. Len(buf) \in Nat
    BY <2>2
  <2> QED
    BY <2>1, <2>2, <2>3
<1>9. Carries(buf, msg, 1, payload)
  BY <1>5, <1>8 DEF Carries
<1>10. Slice(buf, end + 1, 32) = code
  <2>1. Slice(buf, end + 1, Len(code)) = code
    BY <1>6, <1>8, ReadsSlice
  <2> QED
    BY <1>6, <2>1
<1>11. SubSeq(buf, 1, end) = body
  <2>1. Reads(buf, 1, body)
    BY <1>5, <1>8, ReadsAll
  <2>2. Slice(buf, 1, Len(body)) = body
    BY <1>5, <1>8, <2>1, ReadsSlice
  <2>3. Slice(buf, 1, Len(body)) = SubSeq(buf, 1, end)
    BY <1>5, <1>8 DEF Slice
  <2> QED
    BY <2>2, <2>3
<1>12. Forged(buf, end, read) <=> read # NoKeys /\ Hmac(read, body) # code
  <2>1. Len(buf) >= end + 32
    BY <1>8
  <2> QED
    BY <2>1, <1>10, <1>11, Zenon DEF Forged
<1>13. DecodeMessage(buf, read) =
         IF Forged(buf, end, read) \/ Text(1, payload, read) = Refused
         THEN Refused ELSE Delivered(msg, Text(1, payload, read))
  BY <1>1, <1>3, <1>4, <1>8, <1>9, Decoded DEF end
<1>14. Text(1, payload, read) =
         IF read = NoKeys THEN Refused ELSE DecryptPayload(payload, read)
  BY DEF Text
<1>15. CASE read = keys
  <2>1. Hmac(read, body) = code
    BY <1>15 DEF code
  <2>2. Text(1, payload, read) = msg.payload /\ msg.payload # Refused
    BY <1>1, <1>3, <1>14, <1>15
  <2>3. msg = Delivered(msg, msg.payload)
    BY DEF Messages, Delivered
  <2> QED
    BY <1>2, <1>12, <1>13, <1>15, <2>1, <2>2, <2>3
<1>16. CASE read # keys
  BY <1>2, <1>6, <1>12, <1>13, <1>14, <1>16
<1> QED
  BY <1>15, <1>16

\* Every message is decoded to what was encoded, whatever its lengths and numbers
\* (their bytes and the code of the right size), by a node that has the keys it was
\* written with or when it was written with none; another node refuses it.
THEOREM MessagesReadBack ==
  ASSUME NEW KeySets, NoKeys \notin KeySets, \A keys \in KeySets : keys.pad \in Bytes,
         Refused \notin Seq(Bytes)
  PROVE  \A msg \in Messages, written, read \in KeySets \cup {NoKeys} :
           DecodeMessage(EncodeMessage(msg, written), read) =
             IF written \in {NoKeys, read} THEN msg ELSE Refused
<1> SUFFICES ASSUME NEW msg \in Messages, NEW written \in KeySets \cup {NoKeys},
                    NEW read \in KeySets \cup {NoKeys}
             PROVE  DecodeMessage(EncodeMessage(msg, written), read) =
                      IF written \in {NoKeys, read} THEN msg ELSE Refused
  OBVIOUS
<1>1. CASE written = NoKeys
  BY <1>1, ClearReadBack
<1>2. CASE written # NoKeys
  <2>1. written.pad \in Bytes
    BY <1>2
  <2> QED
    BY <1>2, <2>1, SealedReadBack
<1> QED
  BY <1>1, <1>2

-----------------------------------------------------------------------------
(* Powers.                                                                 *)

\* Induction: what holds of 0, and of n + 1 when it holds of n, holds of every
\* natural number.
LEMMA Inductive ==
  ASSUME NEW S, 0 \in S, \A n \in Nat : n \in S => n + 1 \in S
  PROVE  \A n \in Nat : n \in S
<1> DEFINE bad == {n \in Nat : n \notin S}
<1>1. ASSUME NEW n \in bad, \A k \in bad : n <= k PROVE FALSE
  <2>1. n \in Nat /\ n \notin S
    OBVIOUS
  <2>2. n # 0
    BY <2>1
  <2>3. n - 1 \in Nat /\ (n - 1) + 1 = n
    BY <2>1, <2>2
  <2>4. n - 1 \notin S
    BY <2>1, <2>3
  <2>5. n - 1 \in bad
    BY <2>3, <2>4
  <2> QED
    BY <1>1, <2>1, <2>5
<1>2. bad \subseteq Nat
  OBVIOUS
<1>3. \A n \in Nat : n \notin S => n \in bad
  OBVIOUS
<1> HIDE DEF bad
<1> QED
  BY <1>1, <1>2, <1>3, LeastNumber

IsPower(g, b) == g = [e \in Nat |-> IF e = 0 THEN 1 ELSE b * g[e - 1]]

Power(b, e) == (CHOOSE g : IsPower(g, b))[e]

LEMMA PowerExists ==
  ASSUME NEW b \in Int
  PROVE  \E g \in [Nat -> Int] : IsPower(g, b)
<1> DEFINE stop == {0}
           rank == [e \in Nat |-> e]
           next == [e \in Nat |-> IF e = 0 THEN 0 ELSE e - 1]
           start == [e \in Nat |-> 1]
           step == [p \in Nat \X Int |-> b * p[2]]
<1>1. \A e \in Nat, v \in Int : step[<<e, v>>] = b * v /\ b * v \in Int
  OBVIOUS
<1>2. /\ rank \in [Nat -> Nat]
      /\ \A e \in Nat \ stop : next[e] \in Nat /\ rank[next[e]] < rank[e]
      /\ \A e \in Nat : start[e] \in Int
  OBVIOUS
<1>3. \A e \in Nat : start[e] = 1 /\ (e # 0 => next[e] = e - 1) /\ (e \in stop <=> e = 0)
  OBVIOUS
<1> HIDE DEF stop, rank, next, start, step
<1>4. Decreasing(Nat, Int, stop, next, start, step, rank)
  BY <1>1, <1>2 DEF Decreasing
<1>5. PICK g \in [Nat -> Int] : \A e \in Nat :
        g[e] = IF e \in stop THEN start[e] ELSE step[<<e, g[next[e]]>>]
  BY <1>4, Recursion
<1>6. \A e \in Nat : g[e] = IF e = 0 THEN 1 ELSE b * g[e - 1]
  <2>1. \A e \in Nat : e # 0 => e - 1 \in Nat
    OBVIOUS
  <2>2. \A e \in Nat : e # 0 => g[e - 1] \in Int
    BY <2>1
  <2>3. \A e \in Nat : e # 0 => step[<<e, g[e - 1]>>] = b * g[e - 1]
    BY <1>1, <2>2
  <2>4. \A e \in Nat : e # 0 => g[e] = step[<<e, g[e - 1]>>]
    <3>1. ASSUME NEW e \in Nat, e # 0 PROVE g[e] = step[<<e, g[e - 1]>>]
      <4>1. next[e] = e - 1 /\ e \notin stop
        BY <1>3, <3>1
      <4>2. g[e] = step[<<e, g[next[e]]>>]
        BY <1>5, <4>1
      <4> QED
        BY <4>1, <4>2
    <3> QED
      BY <3>1
  <2>5. \A e \in Nat : e = 0 => g[e] = 1
    <3>1. ASSUME NEW e \in Nat, e = 0 PROVE g[e] = 1
      <4>1. start[e] = 1 /\ e \in stop
        BY <1>3, <3>1
      <4> QED
        BY <1>5, <4>1
    <3> QED
      BY <3>1
  <2> QED
    BY <2>3, <2>4, <2>5
<1>7. g = [e \in Nat |-> IF e = 0 THEN 1 ELSE b * g[e - 1]]
  BY <1>6
<1> QED
  BY <1>7 DEF IsPower

LEMMA PowerTyped ==
  ASSUME NEW b \in Int, NEW g, IsPower(g, b)
  PROVE  /\ g[0] = 1 /\ \A e \in Nat : g[e] \in Int /\ g[e + 1] = b * g[e]
<1>1. \A e \in Nat : g[e] = IF e = 0 THEN 1 ELSE b * g[e - 1]
  BY DEF IsPower
<1>2. \A e \in Nat : g[e + 1] = b * g[e]
  <2>1. \A e \in Nat : e + 1 \in Nat /\ e + 1 # 0 /\ (e + 1) - 1 = e
    OBVIOUS
  <2> QED
    BY <1>1, <2>1
<1> DEFINE S == {e \in Nat : g[e] \in Int}
<1>3. 0 \in S /\ \A e \in Nat : e \in S => e + 1 \in S
  BY <1>1, <1>2
<1>4. \A e \in Nat : e \in S
  <2> HIDE DEF S
  <2> QED
    BY <1>3, Inductive
<1> QED
  BY <1>1, <1>2, <1>4

LEMMA PowerIs ==
  ASSUME NEW b \in Int
  PROVE  /\ Power(b, 0) = 1
         /\ \A e \in Nat : Power(b, e) \in Int /\ Power(b, e + 1) = b * Power(b, e)
<1> DEFINE g == CHOOSE f : IsPower(f, b)
<1>1. IsPower(g, b)
  BY PowerExists
<1>2. \A e : Power(b, e) = g[e]
  BY DEF Power
<1> HIDE DEF g
<1>3. g[0] = 1 /\ \A e \in Nat : g[e] \in Int /\ g[e + 1] = b * g[e]
  BY <1>1, PowerTyped
<1> QED
  BY <1>2, <1>3

LEMMA PowerOfSum ==
  ASSUME NEW b \in Int, NEW x \in Nat
  PROVE  \A y \in Nat : Power(b, x + y) = Power(b, x) * Power(b, y)
<1> DEFINE S == {y \in Nat : Power(b, x + y) = Power(b, x) * Power(b, y)}
           px == Power(b, x)
<1>0. /\ Power(b, 0) = 1 /\ px \in Int
      /\ \A e \in Nat : Power(b, e) \in Int /\ Power(b, e + 1) = b * Power(b, e)
  BY PowerIs
<1>1. 0 \in S
  <2>1. x + 0 = x /\ px * 1 = px
    BY <1>0
  <2> QED
    BY <1>0, <2>1
<1>2. ASSUME NEW y \in Nat, y \in S PROVE y + 1 \in S
  <2>1. x + y \in Nat /\ x + (y + 1) = (x + y) + 1
    OBVIOUS
  <2>2. Power(b, x + (y + 1)) = b * (px * Power(b, y))
    BY <1>0, <1>2, <2>1
  <2> DEFINE py == Power(b, y)
  <2>3. py \in Int /\ Power(b, y + 1) = b * py
    BY <1>0
  <2> HIDE DEF px, py
  <2>4. b * (px * py) = px * (b * py)
    BY <1>0, <2>3
  <2> QED
    BY <2>2, <2>3, <2>4 DEF px, py
<1> HIDE DEF S
<1>3. \A y \in Nat : y \in S
  BY <1>1, <1>2, Inductive
<1> QED
  BY <1>3 DEF S

LEMMA PowerOfProduct ==
  ASSUME NEW a \in Int, NEW b \in Int
  PROVE  \A e \in Nat : Power(a * b, e) = Power(a, e) * Power(b, e)
<1> DEFINE c == a * b
           S == {e \in Nat : Power(c, e) = Power(a, e) * Power(b, e)}
<1>0. c \in Int
  OBVIOUS
<1>c. c = a * b
  OBVIOUS
<1> HIDE DEF c
<1>1. /\ Power(a, 0) = 1 /\ Power(b, 0) = 1 /\ Power(c, 0) = 1
      /\ \A e \in Nat : /\ Power(a, e) \in Int /\ Power(a, e + 1) = a * Power(a, e)
                        /\ Power(b, e) \in Int /\ Power(b, e + 1) = b * Power(b, e)
                        /\ Power(c, e) \in Int /\ Power(c, e + 1) = c * Power(c, e)
  BY <1>0, PowerIs
<1>2. 0 \in S
  BY <1>1
<1>3. ASSUME NEW e \in Nat, e \in S PROVE e + 1 \in S
  <2> DEFINE pa == Power(a, e)
             pb == Power(b, e)
  <2>1. Power(c, e + 1) = c * (pa * pb)
    BY <1>1, <1>3
  <2>2. /\ pa \in Int /\ pb \in Int
        /\ Power(a, e + 1) = a * pa /\ Power(b, e + 1) = b * pb
    BY <1>1
  <2> HIDE DEF pa, pb
  <2>3. (a * b) * (pa * pb) = (a * pa) * (b * pb)
    BY <2>2
  <2>4. Power(c, e + 1) = Power(a, e + 1) * Power(b, e + 1)
    BY <1>c, <2>1, <2>2, <2>3
  <2> QED
    BY <2>4
<1> HIDE DEF S
<1>4. \A e \in Nat : e \in S
  BY <1>2, <1>3, Inductive
<1> QED
  BY <1>4 DEF S, c

LEMMA PowerOfPower ==
  ASSUME NEW b \in Int, NEW x \in Nat
  PROVE  \A y \in Nat : Power(Power(b, x), y) = Power(b, x * y)
<1> DEFINE c == Power(b, x)
           S == {y \in Nat : Power(c, y) = Power(b, x * y)}
<1>0. c \in Int /\ c = Power(b, x)
  BY PowerIs
<1> HIDE DEF c
<1>1. /\ Power(b, 0) = 1 /\ Power(c, 0) = 1
      /\ \A y \in Nat : Power(c, y + 1) = c * Power(c, y)
  BY <1>0, PowerIs
<1>2. 0 \in S
  <2>1. x * 0 = 0
    OBVIOUS
  <2> QED
    BY <1>1, <2>1
<1>3. ASSUME NEW y \in Nat, y \in S PROVE y + 1 \in S
  <2> DEFINE xy == x * y
  <2>1. xy \in Nat /\ x * (y + 1) = x + xy
    OBVIOUS
  <2>2. Power(c, y) = Power(b, xy)
    BY <1>3
  <2> HIDE DEF xy
  <2>3. Power(b, x + xy) = Power(b, x) * Power(b, xy)
    BY <2>1, PowerOfSum
  <2>4. Power(c, y + 1) = Power(b, x * (y + 1))
    BY <1>0, <1>1, <2>1, <2>2, <2>3
  <2> QED
    BY <2>4
<1> HIDE DEF S
<1>4. \A y \in Nat : y \in S
  BY <1>2, <1>3, Inductive
<1> QED
  BY <1>4 DEF S, c

LEMMA PowerCongruent ==
  ASSUME NEW n \in Int, NEW a \in Int, NEW b \in Int, Congruent(a, b, n)
  PROVE  \A e \in Nat : Congruent(Power(a, e), Power(b, e), n)
<1> DEFINE S == {e \in Nat : Congruent(Power(a, e), Power(b, e), n)}
<1>1. /\ Power(a, 0) = 1 /\ Power(b, 0) = 1
      /\ \A e \in Nat : /\ Power(a, e) \in Int /\ Power(a, e + 1) = a * Power(a, e)
                        /\ Power(b, e) \in Int /\ Power(b, e + 1) = b * Power(b, e)
  BY PowerIs
<1>2. 0 \in S
  <2>1. Congruent(Power(a, 0), Power(a, 0), n)
    BY <1>1, CongruentRefl
  <2> QED
    BY <1>1, <2>1
<1>3. ASSUME NEW e \in Nat, e \in S PROVE e + 1 \in S
  <2>1. Congruent(a * Power(a, e), b * Power(b, e), n)
    BY <1>1, <1>3, CongruentProduct
  <2> QED
    BY <1>1, <2>1
<1> HIDE DEF S
<1>4. \A e \in Nat : e \in S
  BY <1>2, <1>3, Inductive
<1> QED
  BY <1>4 DEF S

\* The first two terms of a binomial: the others are multiples of n * n.
LEMMA PowerOfNext ==
  ASSUME NEW n \in Int, NEW k \in Int
  PROVE  \A e \in Nat : Congruent(Power(1 + k * n, e), 1 + (e * k) * n, n * n)
<1> DEFINE x == 1 + k * n
           S == {e \in Nat : Congruent(Power(x, e), 1 + (e * k) * n, n * n)}
<1>0. x \in Int /\ x = 1 + k * n /\ n * n \in Int
  OBVIOUS
<1> HIDE DEF x
<1>1. /\ Power(x, 0) = 1
      /\ \A e \in Nat : Power(x, e) \in Int /\ Power(x, e + 1) = x * Power(x, e)
  BY <1>0, PowerIs
<1>2. 0 \in S
  <2>1. 1 + (0 * k) * n = 1 /\ 1 = 1 + 0 * (n * n)
    OBVIOUS
  <2> QED
    BY <1>1, <2>1 DEF Congruent
<1>3. ASSUME NEW e \in Nat, e \in S PROVE e + 1 \in S
  <2> DEFINE y == Power(x, e)
  <2>1. y \in Int /\ Power(x, e + 1) = x * y /\ Congruent(y, 1 + (e * k) * n, n * n)
    BY <1>1, <1>3
  <2> HIDE DEF y
  <2>2. PICK l \in Int : y = (1 + (e * k) * n) + l * (n * n)
    BY <2>1 DEF Congruent
  <2> DEFINE j == e * k * k + l * (1 + k * n)
  <2>3. x * y = (1 + ((e + 1) * k) * n) + j * (n * n)
    BY <1>0, <2>2
  <2>4. j \in Int
    OBVIOUS
  <2> HIDE DEF j
  <2>5. Congruent(Power(x, e + 1), 1 + ((e + 1) * k) * n, n * n)
    BY <2>1, <2>3, <2>4 DEF Congruent
  <2> QED
    BY <2>5
<1> HIDE DEF S
<1>4. \A e \in Nat : e \in S
  BY <1>2, <1>3, Inductive
<1> QED
  BY <1>4 DEF S, x

-----------------------------------------------------------------------------
(* modPow().                                                               *)

Encryption == INSTANCE Paillier

PowStates == Nat \X Nat \X Nat
PowNext(x, m) ==
  <<IF x[3] % 2 = 1 THEN (x[1] * x[2]) % m ELSE x[1], (x[2] * x[2]) % m, x[3] \div 2>>

IsPowLoop(g, m) ==
  g = [x \in PowStates |-> IF x[3] = 0 THEN x[1] ELSE g[PowNext(x, m)]]

\* The loop keeps result * base ^ exp modulo m.
LEMMA PowKept ==
  ASSUME NEW m \in Nat, m > 0, NEW r \in Nat, NEW b \in Nat, NEW e \in Nat, NEW s,
         s = IF e % 2 = 1 THEN (r * b) % m ELSE r
  PROVE  /\ s \in Nat /\ (r < m => s < m)
         /\ Congruent(s * Power((b * b) % m, e \div 2), r * Power(b, e), m)
<1> DEFINE h == e \div 2
           c == (b * b) % m
           bb == b * b
           ph == Power(b, h)
<1>1. h \in Nat /\ (e % 2 = 1 => e = (h + h) + 1) /\ (e % 2 # 1 => e = h + h)
  OBVIOUS
<1>2. bb \in Nat /\ bb \in Int /\ r * b \in Nat /\ r * b \in Int /\ m \in Int
      /\ c = bb % m
  OBVIOUS
<1> HIDE DEF h, c
<1>3. c \in 0..(m - 1) /\ c \in Int /\ Congruent(c, bb, m)
  BY <1>2, Remainder
<1>4. /\ (r * b) % m \in 0..(m - 1) /\ (r * b) % m \in Int
      /\ Congruent((r * b) % m, r * b, m)
  BY <1>2, Remainder
<1>5. s \in Nat /\ (r < m => s < m)
  BY <1>4
<1>6. /\ ph \in Int /\ Power(bb, h) = ph * ph /\ Power(b, h + h) = ph * ph
      /\ Power(b, (h + h) + 1) = b * (ph * ph)
  <2>1. h + h \in Nat /\ b \in Int
    BY <1>1
  <2>2. ph \in Int
    BY <1>1, <2>1, PowerIs
  <2>3. Power(bb, h) = ph * ph
    BY <1>1, <2>1, PowerOfProduct
  <2>4. Power(b, h + h) = ph * ph
    BY <1>1, <2>1, PowerOfSum
  <2>5. Power(b, (h + h) + 1) = b * Power(b, h + h)
    BY <2>1, PowerIs
  <2> QED
    BY <2>2, <2>3, <2>4, <2>5
<1>7. Power(c, h) \in Int /\ Congruent(Power(c, h), ph * ph, m)
  <2>1. Congruent(Power(c, h), Power(bb, h), m)
    BY <1>1, <1>2, <1>3, PowerCongruent
  <2>2. Power(c, h) \in Int
    BY <1>1, <1>3, PowerIs
  <2> QED
    BY <1>6, <2>1, <2>2
<1> HIDE DEF bb, ph
<1> DEFINE pp == ph * ph
           ch == Power(c, h)
<1>8. pp \in Int /\ ch \in Int /\ Congruent(ch, pp, m)
  BY <1>6, <1>7
<1>9. Power(b, h + h) = pp /\ Power(b, (h + h) + 1) = b * pp
  BY <1>6
<1> HIDE DEF pp, ch
<1>10. CASE e % 2 = 1
  <2>1. s = (r * b) % m /\ s \in Int /\ Congruent(s, r * b, m)
    BY <1>4, <1>10
  <2>2. Congruent(s * ch, (r * b) * pp, m)
    BY <1>2, <1>8, <2>1, CongruentProduct
  <2>3. (r * b) * pp = r * (b * pp)
    BY <1>8
  <2>4. Power(b, e) = b * pp
    BY <1>1, <1>9, <1>10
  <2> QED
    BY <1>5, <2>2, <2>3, <2>4 DEF ch, c, h, bb
<1>11. CASE e % 2 # 1
  <2>1. s = r /\ r \in Int
    BY <1>11
  <2>2. Congruent(r * ch, r * pp, m)
    BY <1>2, <1>8, <2>1, CongruentScaled
  <2>3. Power(b, e) = pp
    BY <1>1, <1>9, <1>11
  <2> QED
    BY <1>5, <2>1, <2>2, <2>3 DEF ch, c, h, bb
<1> QED
  BY <1>10, <1>11

Keeps(y, x, m) ==
  /\ y \in Int /\ Congruent(y, x[1] * Power(x[2], x[3]), m)
  /\ x[1] < m => y \in 0..(m - 1)

LEMMA PowStep ==
  ASSUME NEW m \in Nat, m > 0, NEW x \in PowStates, x[3] # 0
  PROVE  /\ PowNext(x, m) \in PowStates /\ PowNext(x, m)[3] < x[3]
         /\ \A y : Keeps(y, PowNext(x, m), m) => Keeps(y, x, m)
<1> DEFINE r == x[1]
           b == x[2]
           e == x[3]
           s == IF e % 2 = 1 THEN (r * b) % m ELSE r
           c == (b * b) % m
           h == e \div 2
           z == PowNext(x, m)
<1>1. r \in Nat /\ b \in Nat /\ e \in Nat /\ e # 0
  BY DEF PowStates
<1>2. z = <<s, c, h>>
  BY DEF PowNext
<1> HIDE DEF r, b, e, z
<1>3. /\ s \in Nat /\ (r < m => s < m)
      /\ Congruent(s * Power(c, h), r * Power(b, e), m)
  BY <1>1, PowKept
<1>4. h \in Nat /\ h < e
  BY <1>1
<1>5. c \in Nat
  <2>1. b * b \in Int /\ m \in Int
    BY <1>1
  <2>2. c \in 0..(m - 1)
    BY <2>1, Remainder
  <2> QED
    BY <2>2
<1> HIDE DEF s, c, h
<1>6. z \in PowStates /\ z[1] = s /\ z[2] = c /\ z[3] = h
  BY <1>2, <1>3, <1>4, <1>5 DEF PowStates
<1>7. ASSUME NEW y, Keeps(y, z, m) PROVE Keeps(y, x, m)
  <2>1. /\ y \in Int /\ Congruent(y, s * Power(c, h), m)
        /\ s < m => y \in 0..(m - 1)
    BY <1>6, <1>7 DEF Keeps
  <2>2. s * Power(c, h) \in Int /\ r * Power(b, e) \in Int /\ m \in Int
    <3>0. c \in Int /\ b \in Int
      BY <1>1, <1>5
    <3>1. Power(c, h) \in Int /\ Power(b, e) \in Int
      BY <1>1, <1>4, <3>0, PowerIs
    <3> QED
      BY <1>1, <1>3, <3>1
  <2>3. Congruent(y, r * Power(b, e), m)
    BY <1>3, <2>1, <2>2, CongruentTrans
  <2> QED
    BY <1>3, <2>1, <2>3 DEF Keeps, r, b, e
<1> QED
  BY <1>4, <1>6, <1>7 DEF z, e

LEMMA PowLoopExists == ASSUME NEW m \in Nat, m > 0 PROVE \E g : IsPowLoop(g, m)
<1> DEFINE V == Nat
           stop == {x \in PowStates : x[3] = 0}
           rank == [x \in PowStates |-> x[3]]
           next == [x \in PowStates |-> PowNext(x, m)]
           start == [x \in PowStates |-> x[1]]
           step == [p \in PowStates \X V |-> p[2]]
<1>1. rank \in [PowStates -> Nat] /\ \A x \in PowStates : start[x] \in V
  BY DEF PowStates
<1>2. \A x \in PowStates \ stop : next[x] \in PowStates /\ rank[next[x]] < rank[x]
  BY PowStep
<1>3. \A x \in PowStates, v \in V : step[<<x, v>>] = v
  OBVIOUS
<1>4. \A x \in PowStates : /\ next[x] = PowNext(x, m) /\ start[x] = x[1]
                           /\ (x \in stop <=> x[3] = 0)
  OBVIOUS
<1> HIDE DEF rank, next, start, step, V, stop
<1>5. PICK g \in [PowStates -> V] : \A x \in PowStates :
        g[x] = IF x \in stop THEN start[x] ELSE step[<<x, g[next[x]]>>]
  <2>1. \A x \in PowStates \ stop, v \in V : step[<<x, v>>] \in V
    BY <1>3
  <2>2. Decreasing(PowStates, V, stop, next, start, step, rank)
    BY <1>1, <1>2, <2>1 DEF Decreasing
  <2> QED
    BY <2>2, Recursion
<1>6. \A x \in PowStates : x \notin stop => step[<<x, g[next[x]]>>] = g[PowNext(x, m)]
  BY <1>2, <1>3, <1>4, <1>5
<1>7. \A x \in PowStates : g[x] = IF x[3] = 0 THEN x[1] ELSE g[PowNext(x, m)]
  BY <1>4, <1>5, <1>6
<1>8. g = [x \in PowStates |-> g[x]]
  BY <1>5
<1>9. g = [x \in PowStates |-> IF x[3] = 0 THEN x[1] ELSE g[PowNext(x, m)]]
  BY <1>7, <1>8
<1> QED
  BY <1>9 DEF IsPowLoop

LEMMA PowLoopResult ==
  ASSUME NEW m \in Nat, m > 0, NEW g, IsPowLoop(g, m)
  PROVE  \A x \in PowStates : Keeps(g[x], x, m)
<1> DEFINE bad == {n \in Nat : \E x \in PowStates : x[3] = n /\ ~Keeps(g[x], x, m)}
<1>0. \A x \in PowStates : x[3] \in Nat
  BY DEF PowStates
<1>1. \A x \in PowStates : g[x] = IF x[3] = 0 THEN x[1] ELSE g[PowNext(x, m)]
  BY DEF IsPowLoop
<1>2. ASSUME NEW n \in bad, \A k \in bad : n <= k PROVE FALSE
  <2>1. PICK x \in PowStates : x[3] = n /\ ~Keeps(g[x], x, m)
    OBVIOUS
  <2>2. x[3] # 0
    <3>1. ASSUME x[3] = 0 PROVE Keeps(x[1], x, m)
      <4>1. x[1] \in Nat /\ x[2] \in Nat
        BY DEF PowStates
      <4>2. Power(x[2], x[3]) = 1
        BY <3>1, <4>1, PowerIs
      <4>3. x[1] * 1 = x[1]
        BY <4>1
      <4>4. Congruent(x[1], x[1], m)
        BY <4>1, CongruentRefl
      <4> QED
        BY <4>1, <4>2, <4>3, <4>4 DEF Keeps
    <3> QED
      BY <1>1, <2>1, <3>1
  <2> DEFINE y == PowNext(x, m)
  <2>3. y \in PowStates /\ y[3] < x[3]
    BY <2>2, PowStep
  <2>4. ~Keeps(g[y], y, m)
    BY <1>1, <2>1, <2>2, PowStep
  <2> HIDE DEF y
  <2>5. y[3] \in bad
    BY <1>0, <2>3, <2>4
  <2>6. n \in Nat /\ y[3] \in Nat
    BY <2>5
  <2> QED
    BY <1>2, <2>1, <2>3, <2>5, <2>6
<1>3. bad \subseteq Nat
  OBVIOUS
<1>4. \A x \in PowStates : ~Keeps(g[x], x, m) => x[3] \in bad
  BY <1>0
<1> HIDE DEF bad
<1> QED
  BY <1>2, <1>3, <1>4, LeastNumber

\* modPow() is the remainder of the power, for any base, exponent and modulus.
LEMMA ModPowIs ==
  ASSUME NEW base \in Nat, NEW exp \in Nat, NEW m \in Nat, m > 1
  PROVE  /\ Encryption!ModPow(base, exp, m) = Power(base, exp) % m
         /\ Power(base, exp) \in Int
<1> DEFINE loop == CHOOSE g : IsPowLoop(g, m)
           x == <<1, base % m, exp>>
<1>1. IsPowLoop(loop, m)
  BY PowLoopExists
<1>2. Encryption!ModPow(base, exp, m) = loop[x]
  BY Zenon DEF Encryption!ModPow, IsPowLoop, PowStates, PowNext
<1> DEFINE r == base % m
           y == loop[x]
<1>3. r \in 0..(m - 1) /\ r \in Int /\ Congruent(r, base, m)
  BY Remainder
<1> HIDE DEF loop, r
<1>4. x \in PowStates /\ x[1] = 1 /\ x[2] = r /\ x[3] = exp
  BY <1>3 DEF PowStates, r
<1> HIDE DEF x
<1>5. Keeps(y, x, m)
  BY <1>1, <1>4, PowLoopResult
<1> HIDE DEF y
<1> DEFINE pr == Power(r, exp)
           pb == Power(base, exp)
<1>6. pr \in Int /\ pb \in Int /\ Congruent(pr, pb, m)
  <2>1. m \in Int /\ base \in Int
    OBVIOUS
  <2> QED
    BY <1>3, <2>1, PowerIs, PowerCongruent
<1>7. y \in 0..(m - 1) /\ y \in Int /\ Congruent(y, 1 * pr, m)
  BY <1>4, <1>5 DEF Keeps
<1> HIDE DEF pr, pb
<1>8. Congruent(y, pb, m)
  <2>1. 1 * pr = pr /\ m \in Int
    BY <1>6
  <2>2. Congruent(y, pr, m)
    BY <1>7, <2>1
  <2>3. y \in Int /\ pr \in Int /\ pb \in Int /\ Congruent(pr, pb, m)
    BY <1>6, <1>7
  <2> QED
    BY <2>1, <2>2, <2>3, CongruentTrans
<1>9. /\ pb % m \in 0..(m - 1) /\ pb % m \in Int /\ Congruent(pb, pb % m, m)
  <2>1. m \in Int /\ m > 0 /\ pb \in Int
    BY <1>6
  <2>2. pb % m \in 0..(m - 1) /\ pb % m \in Int /\ Congruent(pb % m, pb, m)
    BY <2>1, Remainder
  <2> QED
    BY <2>1, <2>2, CongruentSym
<1>10. y = pb % m
  <2>1. Congruent(y, pb % m, m)
    BY <1>6, <1>7, <1>8, <1>9, CongruentTrans
  <2> QED
    BY <1>7, <1>9, <2>1, RemainderUnique
<1> QED
  BY <1>2, <1>6, <1>10 DEF pb, y

-----------------------------------------------------------------------------
(* Ciphertexts.                                                            *)

\* A key as generatePaillierKeypair() and deserializePublicKey() make it.
IsKey(k) == k.n \in Nat /\ k.n > 1 /\ k.g = k.n + 1 /\ k.n2 = k.n * k.n

\* What a ciphertext is modulo n2.
Raised(n, m, r) == Power(n + 1, m) * Power(r, n)

LEMMA KeyNumbers ==
  ASSUME NEW k, IsKey(k)
  PROVE  /\ k.n \in Nat /\ k.n \in Int /\ k.n > 1 /\ k.n > 0
         /\ k.g = k.n + 1 /\ k.g \in Nat /\ k.g \in Int
         /\ k.n2 \in Nat /\ k.n2 \in Int /\ k.n2 > 1 /\ k.n2 > 0 /\ k.n2 = k.n * k.n
<1> DEFINE n == k.n
<1>1. n \in Nat /\ n > 1 /\ k.g = n + 1 /\ k.n2 = n * n
  BY DEF IsKey
<1> HIDE DEF n
<1>2. n * n \in Nat /\ n * n > 1
  <2>1. \A a \in Nat : a >= 2 => a * a >= 4
    <3>1. \A a, b \in Nat : a = b + 2 => a * a = b * b + 4 * b + 4 /\ b * b \in Nat
      OBVIOUS
    <3>2. \A a \in Nat : a >= 2 => \E b \in Nat : a = b + 2
      <4>1. \A a \in Nat : a >= 2 => a - 2 \in Nat /\ a = (a - 2) + 2
        OBVIOUS
      <4> QED
        BY <4>1
    <3> QED
      BY <3>1, <3>2
  <2> QED
    BY <1>1, <2>1
<1> QED
  BY <1>1, <1>2 DEF n

LEMMA PowerNat ==
  ASSUME NEW b \in Nat
  PROVE  \A e \in Nat : Power(b, e) \in Nat
<1> DEFINE S == {e \in Nat : Power(b, e) \in Nat}
<1>1. b \in Int
  OBVIOUS
<1>2. /\ Power(b, 0) = 1
      /\ \A e \in Nat : Power(b, e + 1) = b * Power(b, e)
  BY <1>1, PowerIs
<1>3. 0 \in S
  BY <1>2
<1>4. ASSUME NEW e \in Nat, e \in S PROVE e + 1 \in S
  <2>1. b * Power(b, e) \in Nat
    BY <1>4
  <2> QED
    BY <1>2, <2>1
<1> HIDE DEF S
<1>5. \A e \in Nat : e \in S
  BY <1>3, <1>4, Inductive
<1> QED
  BY <1>5 DEF S

LEMMA EncryptIs ==
  ASSUME NEW k, IsKey(k), NEW m \in Nat, NEW r \in Nat
  PROVE  /\ Raised(k.n, m, r) \in Int
         /\ Encryption!Encrypt(k, m, r) = Raised(k.n, m, r) % k.n2
         /\ Encryption!Encrypt(k, m, r) \in Nat
         /\ Congruent(Encryption!Encrypt(k, m, r), Raised(k.n, m, r), k.n2)
<1> DEFINE n == k.n
           n2 == k.n2
           a == Encryption!ModPow(k.g, m, n2)
           b == Encryption!ModPow(r, n, n2)
           pa == Power(n + 1, m)
           pb == Power(r, n)
<1>1. /\ n \in Nat /\ k.g = n + 1 /\ n + 1 \in Nat
      /\ n2 \in Nat /\ n2 \in Int /\ n2 > 1 /\ n2 > 0
  BY KeyNumbers
<1>2. Encryption!Encrypt(k, m, r) = (a * b) % n2 /\ Raised(n, m, r) = pa * pb
  BY DEF Encryption!Encrypt, Raised
<1>3. a = pa % n2 /\ pa \in Int /\ b = pb % n2 /\ pb \in Int
  <2> HIDE DEF n, n2
  <2>1. a = Power(k.g, m) % n2 /\ Power(k.g, m) \in Int
    BY <1>1, ModPowIs
  <2>2. b = pb % n2 /\ pb \in Int
    BY <1>1, ModPowIs
  <2> QED
    BY <1>1, <2>1, <2>2
<1> HIDE DEF n, n2, a, b, pa, pb
<1>4. a \in Int /\ b \in Int /\ Congruent(a, pa, n2) /\ Congruent(b, pb, n2)
  BY <1>1, <1>3, Remainder
<1>5. Congruent(a * b, pa * pb, n2)
  BY <1>1, <1>3, <1>4, CongruentProduct
<1> DEFINE ab == a * b
           pab == pa * pb
<1>6. ab \in Int /\ pab \in Int /\ Congruent(ab, pab, n2)
  BY <1>3, <1>4, <1>5
<1>7. Encryption!Encrypt(k, m, r) = ab % n2 /\ Raised(n, m, r) = pab
  BY <1>2
<1> HIDE DEF ab, pab
<1>8. ab % n2 = pab % n2
  BY <1>1, <1>6, SameRemainder
<1>9. /\ pab % n2 \in 0..(n2 - 1) /\ Congruent(pab % n2, pab, n2)
  BY <1>1, <1>6, Remainder
<1> QED
  BY <1>1, <1>6, <1>7, <1>8, <1>9 DEF n, n2

LEMMA RaisedSum ==
  ASSUME NEW n \in Nat, NEW m1 \in Nat, NEW m2 \in Nat, NEW r1 \in Nat, NEW r2 \in Nat
  PROVE  Raised(n, m1, r1) * Raised(n, m2, r2) = Raised(n, m1 + m2, r1 * r2)
<1> DEFINE g == n + 1
           a1 == Power(g, m1)
           a2 == Power(g, m2)
           b1 == Power(r1, n)
           b2 == Power(r2, n)
<1>1. g \in Int /\ r1 \in Int /\ r2 \in Int
  OBVIOUS
<1> HIDE DEF g
<1>2. a1 \in Int /\ a2 \in Int /\ b1 \in Int /\ b2 \in Int
  BY <1>1, PowerIs
<1>3. Power(g, m1 + m2) = a1 * a2
  BY <1>1, PowerOfSum
<1>4. Power(r1 * r2, n) = b1 * b2
  BY <1>1, PowerOfProduct
<1>5. /\ Raised(n, m1, r1) = a1 * b1 /\ Raised(n, m2, r2) = a2 * b2
      /\ Raised(n, m1 + m2, r1 * r2) = Power(g, m1 + m2) * Power(r1 * r2, n)
  BY DEF Raised, g
<1> HIDE DEF a1, a2, b1, b2
<1>6. (a1 * b1) * (a2 * b2) = (a1 * a2) * (b1 * b2)
  BY <1>2
<1> QED
  BY <1>3, <1>4, <1>5, <1>6

LEMMA RaisedPower ==
  ASSUME NEW n \in Nat, NEW m \in Nat, NEW r \in Nat, NEW k \in Nat
  PROVE  Power(Raised(n, m, r), k) = Raised(n, m * k, Power(r, k))
<1> DEFINE g == n + 1
           a == Power(g, m)
           b == Power(r, n)
           c == Power(r, k)
<1>1. g \in Int /\ r \in Int
  OBVIOUS
<1> HIDE DEF g
<1>2. a \in Int /\ b \in Int /\ c \in Int
  BY <1>1, PowerIs
<1>3. Power(a * b, k) = Power(a, k) * Power(b, k)
  BY <1>2, PowerOfProduct
<1>4. Power(a, k) = Power(g, m * k)
  BY <1>1, PowerOfPower
<1>5. Power(b, k) = Power(c, n)
  <2>1. Power(b, k) = Power(r, n * k) /\ Power(c, n) = Power(r, k * n)
    BY <1>1, PowerOfPower
  <2>2. n * k = k * n
    OBVIOUS
  <2> QED
    BY <2>1, <2>2
<1>6. Raised(n, m, r) = a * b /\ Raised(n, m * k, c) = Power(g, m * k) * Power(c, n)
  BY DEF Raised, g
<1> QED
  BY <1>3, <1>4, <1>5, <1>6

\* The product of two ciphertexts is the ciphertext of the sum of what they hide,
\* and the power of one that of its multiple (add() and scalarMul()), for every key,
\* numbers and random choices.
THEOREM CiphertextsAddUp ==
  ASSUME NEW k, IsKey(k), NEW m1 \in Nat, NEW m2 \in Nat, NEW r1 \in Nat, NEW r2 \in Nat
  PROVE  /\ Encryption!AddCiphertexts(k, Encryption!Encrypt(k, m1, r1), Encryption!Encrypt(k, m2, r2))
              = Encryption!Encrypt(k, m1 + m2, r1 * r2)
         /\ Encryption!ScalarMul(k, Encryption!Encrypt(k, m1, r1), m2)
              = Encryption!Encrypt(k, m1 * m2, Power(r1, m2))
<1> DEFINE n == k.n
           n2 == k.n2
           c1 == Encryption!Encrypt(k, m1, r1)
           c2 == Encryption!Encrypt(k, m2, r2)
           x1 == Raised(n, m1, r1)
           x2 == Raised(n, m2, r2)
<1>1. n \in Nat /\ n2 \in Nat /\ n2 \in Int /\ n2 > 1 /\ n2 > 0
  BY KeyNumbers
<1>2. /\ c1 \in Nat /\ x1 \in Int /\ Congruent(c1, x1, n2)
      /\ c2 \in Nat /\ x2 \in Int /\ Congruent(c2, x2, n2)
  BY EncryptIs
<1>3. /\ m1 + m2 \in Nat /\ r1 * r2 \in Nat /\ m1 * m2 \in Nat /\ Power(r1, m2) \in Nat
  BY PowerNat
<1>4. /\ Encryption!Encrypt(k, m1 + m2, r1 * r2) = Raised(n, m1 + m2, r1 * r2) % n2
      /\ Encryption!Encrypt(k, m1 * m2, Power(r1, m2)) = Raised(n, m1 * m2, Power(r1, m2)) % n2
  BY <1>3, EncryptIs
<1>5. Encryption!AddCiphertexts(k, c1, c2) = (c1 * c2) % n2
  BY DEF Encryption!AddCiphertexts
<1>6. Encryption!ScalarMul(k, c1, m2) = Power(c1, m2) % n2 /\ Power(c1, m2) \in Int
  <2>1. Encryption!ScalarMul(k, c1, m2) = Encryption!ModPow(c1, m2, n2)
    BY DEF Encryption!ScalarMul
  <2> HIDE DEF c1, n2
  <2> QED
    BY <1>1, <1>2, <2>1, ModPowIs
<1>7. x1 * x2 = Raised(n, m1 + m2, r1 * r2) /\ Power(x1, m2) = Raised(n, m1 * m2, Power(r1, m2))
  <2> HIDE DEF n
  <2>1. x1 * x2 = Raised(n, m1 + m2, r1 * r2)
    BY <1>1, RaisedSum
  <2>2. Power(x1, m2) = Raised(n, m1 * m2, Power(r1, m2))
    BY <1>1, RaisedPower
  <2> QED
    BY <2>1, <2>2
<1> HIDE DEF c1, c2, x1, x2, n, n2
<1>8. (c1 * c2) % n2 = (x1 * x2) % n2
  <2>1. c1 \in Int /\ c2 \in Int
    BY <1>2
  <2>2. Congruent(c1 * c2, x1 * x2, n2)
    BY <1>1, <1>2, <2>1, CongruentProduct
  <2>3. c1 * c2 \in Int /\ x1 * x2 \in Int
    BY <1>2, <2>1
  <2> QED
    BY <1>1, <2>2, <2>3, SameRemainder
<1>9. Power(c1, m2) % n2 = Power(x1, m2) % n2
  <2>1. c1 \in Int
    BY <1>2
  <2>2. Congruent(Power(c1, m2), Power(x1, m2), n2)
    BY <1>1, <1>2, <2>1, PowerCongruent
  <2>3. Power(x1, m2) \in Int
    BY <1>2, PowerIs
  <2> QED
    BY <1>1, <1>6, <2>2, <2>3, SameRemainder
<1> QED
  BY <1>4, <1>5, <1>6, <1>7, <1>8, <1>9 DEF c1, c2

\* The inverse that modInverse() returns for any modulus, when it returns one.
LEMMA InverseInverts ==
  ASSUME NEW n \in Nat, n > 1, NEW a \in Nat, Encryption!Invertible(a, n)
  PROVE  /\ Encryption!ModInverse(a, n) \in Int
         /\ Congruent(a * Encryption!ModInverse(a, n), 1, n)
<1> DEFINE loop == CHOOSE g : IsLoop(g)
           r == a % n
           y == Encryption!Euclid(a, n)
           t == y.t
           i == Encryption!ModInverse(a, n)
<1>1. IsLoop(loop)
  BY LoopExists
<1>2. y = loop[<<n, r, 0, 1>>]
  BY Zenon DEF Encryption!Euclid, IsLoop, LoopStates, LoopNext
<1>3. r \in Nat /\ Congruent(r, a, n) /\ n \in Int /\ n > 0 /\ a \in Int
  <2>1. n \in Int /\ n > 0 /\ a \in Int
    OBVIOUS
  <2>2. r \in 0..(n - 1) /\ Congruent(r, a, n)
    BY <2>1, Remainder
  <2> QED
    BY <2>1, <2>2
<1>4. y.gcd = 1
  BY DEF Encryption!Invertible
<1>5. i = IF t < 0 THEN t + n ELSE t
  BY DEF Encryption!ModInverse
<1> HIDE DEF loop, r, y, i
<1>6. t \in Int /\ Congruent(1, t * a, n)
  <2>1. t \in Int /\ Congruent(y.gcd, t * a, n)
    BY <1>1, <1>2, <1>3, LoopFrom
  <2> QED
    BY <1>4, <2>1
<1> HIDE DEF t
<1>7. i \in Int /\ Congruent(i, t, n)
  <2>1. PICK k \in Int : k = IF t < 0 THEN 1 ELSE 0
    OBVIOUS
  <2>2. i = t + k * n
    BY <1>3, <1>5, <1>6, <2>1
  <2>3. i \in Int
    BY <1>5, <1>6
  <2> QED
    BY <2>2, <2>3 DEF Congruent
<1>8. Congruent(a * i, a * t, n)
  BY <1>3, <1>6, <1>7, CongruentScaled
<1>9. Congruent(a * t, 1, n)
  <2>1. a * t = t * a /\ t * a \in Int /\ 1 \in Int
    BY <1>3, <1>6
  <2>2. Congruent(t * a, 1, n)
    BY <1>3, <1>6, <2>1, CongruentSym
  <2> QED
    BY <2>1, <2>2
<1>10. a * i \in Int /\ a * t \in Int /\ 1 \in Int
  BY <1>3, <1>6, <1>7
<1>11. Congruent(a * i, 1, n)
  BY <1>3, <1>8, <1>9, <1>10, CongruentTrans
<1> QED
  BY <1>7, <1>11 DEF i

LEMMA PowerOfOne == \A e \in Nat : Power(1, e) = 1
<1> DEFINE S == {e \in Nat : Power(1, e) = 1}
<1>1. PICK one \in Int : one = 1
  OBVIOUS
<1>2. /\ Power(one, 0) = 1
      /\ \A e \in Nat : Power(one, e + 1) = one * Power(one, e)
  BY PowerIs
<1>3. 0 \in S
  BY <1>1, <1>2
<1>4. ASSUME NEW e \in Nat, e \in S PROVE e + 1 \in S
  <2>1. Power(1, e + 1) = 1 * Power(1, e) /\ Power(1, e) = 1
    BY <1>1, <1>2, <1>4
  <2> QED
    BY <2>1
<1> HIDE DEF S
<1>5. \A e \in Nat : e \in S
  BY <1>3, <1>4, Inductive
<1> QED
  BY <1>5 DEF S

\* The random choice r, raised to lambda, is 1 modulo n: what Carmichael's theorem
\* says of an r that shares no factor with n.
IsUnit(k, r) == Encryption!ModPow(r, k.lambda, k.n) = 1

\* A secret key that generatePaillierKeypair() returns: modInverse() did not throw.
IsSecretKey(k) ==
  /\ IsKey(k) /\ k.lambda \in Nat
  /\ Encryption!Invertible(k.lambda % k.n, k.n)
  /\ k.mu = Encryption!ModInverse(k.lambda % k.n, k.n)

LEMMA UnitIs ==
  ASSUME NEW k, IsKey(k), k.lambda \in Nat, NEW r \in Nat
  PROVE  IsUnit(k, r) <=> Congruent(Power(r, k.lambda), 1, k.n)
<1> DEFINE n == k.n
           l == k.lambda
           x == Power(r, l)
<1>1. n \in Nat /\ n \in Int /\ n > 1 /\ n > 0
  BY KeyNumbers
<1> HIDE DEF n
<1>2. Encryption!ModPow(r, l, n) = x % n /\ x \in Int
  BY <1>1, ModPowIs
<1>3. IsUnit(k, r) <=> Encryption!ModPow(r, l, n) = 1
  BY DEF IsUnit, n
<1> HIDE DEF x
<1>4. PICK one \in Int : one = 1
  OBVIOUS
<1>5. one % n = 1
  BY <1>1, <1>4
<1>6. x % n = one % n <=> Congruent(x, one, n)
  BY <1>1, <1>2, SameRemainder
<1> QED
  BY <1>2, <1>3, <1>4, <1>5, <1>6 DEF n, x

\* What hides the number disappears: r ^ n, raised to lambda, is 1 modulo n * n.
LEMMA HiddenVanishes ==
  ASSUME NEW n \in Nat, NEW r \in Nat, NEW l \in Nat, Congruent(Power(r, l), 1, n)
  PROVE  Congruent(Power(Power(r, n), l), 1, n * n)
<1>1. r \in Int /\ n \in Int /\ n * n \in Int
  OBVIOUS
<1> DEFINE x == Power(r, l)
           y == Power(x, n)
           nn == n * n
<1>2. Power(Power(r, n), l) = y
  <2>1. Power(Power(r, n), l) = Power(r, n * l) /\ y = Power(r, l * n)
    BY <1>1, PowerOfPower
  <2>2. n * l = l * n
    OBVIOUS
  <2> QED
    BY <2>1, <2>2
<1>3. PICK k \in Int : x = 1 + k * n
  BY DEF Congruent
<1> HIDE DEF x
<1>4. Congruent(y, 1 + (n * k) * n, nn)
  BY <1>1, <1>3, PowerOfNext
<1>5. y \in Int
  BY <1>1, <1>3, PowerIs
<1>6. 1 + (n * k) * n = 1 + k * nn
  BY <1>1
<1> HIDE DEF y
<1>7. Congruent(1 + k * nn, 1, nn)
  BY DEF Congruent
<1> DEFINE z == 1 + k * nn
<1>8. z \in Int /\ nn \in Int /\ 1 \in Int
  OBVIOUS
<1>9. Congruent(y, z, nn) /\ Congruent(z, 1, nn)
  BY <1>4, <1>6, <1>7
<1> HIDE DEF z, nn
<1>10. Congruent(y, 1, nn)
  BY <1>5, <1>8, <1>9, CongruentTrans
<1> QED
  BY <1>2, <1>10 DEF nn

LEMMA WholeQuotient ==
  ASSUME NEW n \in Nat, n > 0, NEW w \in Int
  PROVE  (w * n) \div n = w
<1> DEFINE p == w * n
           q == p \div n
           m == p % n
<1>1. p \in Int /\ q \in Int /\ m \in Int /\ 0 <= m /\ m < n /\ p = q * n + m
  <2>1. p \in Int
    OBVIOUS
  <2> HIDE DEF p
  <2> QED
    BY <2>1
<1>2. p = w * n
  OBVIOUS
<1> HIDE DEF p, q, m
<1>3. n * (w - q) = m /\ w - q \in Int
  BY <1>1, <1>2
<1> DEFINE d == w - q
<1>4. -n < n * d /\ n * d < n /\ d \in Int /\ n \in Int
  BY <1>1, <1>3
<1> HIDE DEF d
<1>5. d = 0
  BY <1>4, NoMultipleBetween
<1>6. w = q
  BY <1>1, <1>5 DEF d
<1> QED
  BY <1>6 DEF q, p

\* What a ciphertext, raised to lambda, is.
LEMMA Unmasked ==
  ASSUME NEW n \in Nat, n > 1, NEW m \in Nat, NEW r \in Nat, NEW l \in Nat,
         Congruent(Power(r, l), 1, n)
  PROVE  Congruent(Power(Raised(n, m, r), l), 1 + ((m * l) % n) * n, n * n)
<1> DEFINE g == n + 1
           a == Power(g, m)
           b == Power(r, n)
           nn == n * n
           ml == m * l
           w == ml % n
<1>1. g \in Int /\ r \in Int /\ nn \in Int /\ ml \in Nat /\ ml \in Int /\ n \in Int /\ n > 0
  OBVIOUS
<1>2. a \in Int /\ b \in Int
  BY <1>1, PowerIs
<1>3. Power(Raised(n, m, r), l) = Power(a, l) * Power(b, l)
  <2>1. Raised(n, m, r) = a * b
    BY DEF Raised
  <2> QED
    BY <1>2, <2>1, PowerOfProduct
<1>4. Power(a, l) = Power(g, ml)
  BY <1>1, PowerOfPower
<1>5. Congruent(Power(b, l), 1, nn)
  BY HiddenVanishes
<1>6. Congruent(Power(g, ml), 1 + ml * n, nn)
  <2>1. PICK one \in Int : one = 1
    OBVIOUS
  <2>2. Congruent(Power(1 + one * n, ml), 1 + (ml * one) * n, nn)
    BY <1>1, PowerOfNext
  <2>3. 1 + one * n = g /\ ml * one = ml
    BY <1>1, <2>1
  <2> QED
    BY <2>2, <2>3
<1>7. w \in Int /\ Congruent(w, ml, n)
  BY <1>1, Remainder
<1> DEFINE v == 1 + ml * n
           u == 1 + w * n
<1>8. u \in Int /\ v \in Int
  BY <1>1, <1>7
<1>9. Congruent(v, u, nn)
  <2>1. PICK k \in Int : w = ml + k * n
    BY <1>7 DEF Congruent
  <2> HIDE DEF w, ml
  <2>2. v = u + (-k) * nn /\ -k \in Int
    BY <1>1, <2>1
  <2> HIDE DEF u, v, nn
  <2> QED
    BY <2>2 DEF Congruent
<1> DEFINE al == Power(a, l)
           bl == Power(b, l)
<1>10. /\ al \in Int /\ bl \in Int /\ Congruent(al, v, nn) /\ Congruent(bl, 1, nn)
  BY <1>2, <1>4, <1>5, <1>6, PowerIs
<1> HIDE DEF al, bl, u, v, nn, w
<1>11. Congruent(al, u, nn)
  BY <1>1, <1>8, <1>9, <1>10, CongruentTrans
<1>12. Congruent(al * bl, u * 1, nn)
  <2>1. 1 \in Int
    OBVIOUS
  <2> QED
    BY <1>1, <1>8, <1>10, <1>11, <2>1, CongruentProduct
<1>13. u * 1 = u
  BY <1>8
<1>14. Congruent(al * bl, u, nn)
  BY <1>12, <1>13
<1> QED
  BY <1>3, <1>14 DEF al, bl, u, nn, w

\* A node that has the secret key decrypts what was encrypted for it, modulo n.
THEOREM DecryptsWhatWasEncrypted ==
  ASSUME NEW k, IsSecretKey(k), NEW m \in Nat, NEW r \in Nat, IsUnit(k, r)
  PROVE  Encryption!Decrypt(k, Encryption!Encrypt(k, m, r)) = m % k.n
<1> DEFINE n == k.n
           nn == k.n2
           l == k.lambda
           mu == k.mu
           c == Encryption!Encrypt(k, m, r)
           x == Raised(n, m, r)
           ml == m * l
           w == ml % n
           cl == Encryption!ModPow(c, l, nn)
<1>1. /\ n \in Nat /\ n \in Int /\ n > 1 /\ n > 0 /\ nn \in Nat /\ nn \in Int
      /\ nn > 1 /\ nn > 0 /\ nn = n * n /\ l \in Nat
  BY KeyNumbers DEF IsSecretKey
<1>2. c \in Nat /\ x \in Int /\ Congruent(c, x, nn)
  BY EncryptIs DEF IsSecretKey
<1>3. Congruent(Power(r, l), 1, n)
  BY UnitIs DEF IsSecretKey
<1>4. mu \in Int /\ Congruent((l % n) * mu, 1, n)
  <2>1. l % n \in Nat
    BY <1>1
  <2>2. Encryption!Invertible(l % n, n) /\ mu = Encryption!ModInverse(l % n, n)
    BY DEF IsSecretKey
  <2> HIDE DEF n, mu, l
  <2>3. /\ Encryption!ModInverse(l % n, n) \in Int
        /\ Congruent((l % n) * Encryption!ModInverse(l % n, n), 1, n)
    BY <1>1, <2>1, <2>2, InverseInverts
  <2> QED
    BY <2>2, <2>3
<1>5. Encryption!Decrypt(k, c) = (((cl - 1) \div n) * mu) % n
  BY DEF Encryption!Decrypt
<1> HIDE DEF n, nn, l, mu, c, x, cl
<1>6. cl = Power(c, l) % nn /\ Power(c, l) \in Int
  BY <1>1, <1>2, ModPowIs DEF cl
<1>7. ml \in Int /\ w \in Int /\ 0 <= w /\ w < n /\ Congruent(w, ml, n)
  <2>1. ml \in Int
    BY <1>1
  <2> HIDE DEF ml
  <2>2. w \in 0..(n - 1) /\ Congruent(w, ml, n)
    BY <1>1, <2>1, Remainder
  <2> QED
    BY <1>1, <2>1, <2>2
<1> DEFINE u == 1 + w * n
<1>8. Congruent(Power(x, l), u, nn) /\ Power(x, l) \in Int /\ u \in Int
  <2>1. Congruent(Power(x, l), u, n * n)
    BY <1>1, <1>3, Unmasked DEF x
  <2>2. Power(x, l) \in Int
    BY <1>1, <1>2, PowerIs
  <2> QED
    BY <1>1, <1>7, <2>1, <2>2
<1> HIDE DEF w, ml
<1>9. u \in 0..(nn - 1)
  <2>1. w * n <= (n - 1) * n /\ w * n >= 0
    <3>1. \A a, b \in Nat : a <= b => a * n <= b * n
      <4>1. \A b \in Nat : b * n \in Nat
        BY <1>1
      <4>2. \A a, d \in Nat : (a + d) * n = a * n + d * n
        BY <1>1
      <4>3. ASSUME NEW a \in Nat, NEW b \in Nat, a <= b PROVE a * n <= b * n
        <5>1. PICK d \in Nat : b = a + d
          <6>1. b - a \in Nat /\ b = a + (b - a)
            BY <4>3
          <6> QED
            BY <6>1
        <5>2. b * n = a * n + d * n /\ a * n \in Nat /\ d * n \in Nat
          BY <4>1, <4>2, <5>1
        <5> QED
          BY <5>2
      <4> QED
        BY <4>3
    <3>2. w \in Nat /\ n - 1 \in Nat /\ w <= n - 1
      BY <1>1, <1>7
    <3>3. w * n \in Nat
      BY <1>1, <3>2
    <3> QED
      BY <3>1, <3>2, <3>3
  <2>2. (n - 1) * n = n * n - n
    BY <1>1
  <2> QED
    BY <1>1, <1>7, <2>1, <2>2
<1>10. cl = u
  <2>1. c \in Int
    BY <1>2
  <2>2. Congruent(Power(c, l), Power(x, l), nn)
    BY <1>1, <1>2, <2>1, PowerCongruent
  <2> HIDE DEF u
  <2>3. Congruent(Power(c, l), u, nn)
    BY <1>1, <1>6, <1>8, <2>2, CongruentTrans
  <2>4. /\ cl \in 0..(nn - 1) /\ cl \in Int /\ Congruent(cl, Power(c, l), nn)
    BY <1>1, <1>6, Remainder
  <2>5. Congruent(cl, u, nn)
    BY <1>1, <1>6, <1>8, <2>3, <2>4, CongruentTrans
  <2> QED
    BY <1>1, <1>9, <2>4, <2>5, RemainderUnique
<1>11. (cl - 1) \div n = w
  <2>1. cl - 1 = w * n
    BY <1>1, <1>7, <1>10
  <2> QED
    BY <1>1, <1>7, <2>1, WholeQuotient
<1>12. Congruent(w * mu, m, n)
  <2> DEFINE ln == l % n
  <2>1. ln \in Int /\ l \in Int /\ m \in Int /\ Congruent(ln, l, n)
    <3>1. l \in Int /\ m \in Int
      BY <1>1
    <3> QED
      BY <1>1, <3>1, Remainder
  <2>2. Congruent(ln * mu, 1, n)
    BY <1>4
  <2> HIDE DEF ln
  <2>3. Congruent(l, ln, n)
    BY <1>1, <2>1, CongruentSym
  <2>4. Congruent(m * l, m * ln, n)
    BY <1>1, <2>1, <2>3, CongruentScaled
  <2>5. Congruent(w, m * ln, n)
    <3>1. m * l \in Int /\ m * ln \in Int /\ Congruent(w, m * l, n)
      BY <1>7, <2>1 DEF ml
    <3> QED
      BY <1>1, <1>7, <2>4, <3>1, CongruentTrans
  <2>6. Congruent(w * mu, (m * ln) * mu, n)
    <3>1. m * ln \in Int
      BY <2>1
    <3> QED
      BY <1>1, <1>4, <1>7, <2>5, <3>1, CongruentScaled
  <2>7. Congruent(m * (ln * mu), m * 1, n)
    <3>1. ln * mu \in Int /\ 1 \in Int
      BY <1>4, <2>1
    <3> QED
      BY <1>1, <2>1, <2>2, <3>1, CongruentScaled
  <2> DEFINE s == w * mu
             y == m * (ln * mu)
  <2>8. (m * ln) * mu = y /\ m * 1 = m /\ s \in Int /\ y \in Int
    BY <1>4, <1>7, <2>1
  <2>9. Congruent(s, y, n) /\ Congruent(y, m, n)
    BY <2>6, <2>7, <2>8
  <2> HIDE DEF s, y
  <2>10. Congruent(s, m, n)
    BY <1>1, <2>1, <2>8, <2>9, CongruentTrans
  <2> QED
    BY <2>10 DEF s
<1>13. (w * mu) % n = m % n
  <2> DEFINE s == w * mu
  <2>1. s \in Int /\ m \in Int /\ Congruent(s, m, n)
    BY <1>4, <1>7, <1>12
  <2> HIDE DEF s
  <2>2. s % n = m % n
    BY <1>1, <2>1, SameRemainder
  <2> QED
    BY <2>2 DEF s
<1> QED
  BY <1>5, <1>11, <1>13 DEF c, n

\* What shares no factor with n is closed under products and powers.
LEMMA UnitsMultiply ==
  ASSUME NEW k, IsSecretKey(k), NEW r1 \in Nat, NEW r2 \in Nat, NEW e \in Nat, IsUnit(k, r1)
  PROVE  /\ IsUnit(k, r2) => IsUnit(k, r1 * r2)
         /\ IsUnit(k, Power(r1, e))
<1> DEFINE n == k.n
           l == k.lambda
           a == Power(r1, l)
           b == Power(r2, l)
<1>1. IsKey(k) /\ l \in Nat /\ n \in Int /\ r1 \in Int /\ r2 \in Int
  BY KeyNumbers DEF IsSecretKey
<1>2. a \in Int /\ b \in Int /\ 1 \in Int /\ Congruent(a, 1, n)
  <2>1. Congruent(a, 1, n)
    BY <1>1, UnitIs
  <2> HIDE DEF n, l
  <2> QED
    BY <1>1, <2>1, PowerIs
<1>3. r1 * r2 \in Nat /\ Power(r1, e) \in Nat
  <2>1. r1 * r2 \in Nat
    OBVIOUS
  <2>2. Power(r1, e) \in Nat
    BY PowerNat
  <2> QED
    BY <2>1, <2>2
<1>4. Power(r1 * r2, l) = a * b
  BY <1>1, PowerOfProduct
<1>5. Power(Power(r1, e), l) = Power(a, e)
  <2>1. Power(Power(r1, e), l) = Power(r1, e * l) /\ Power(a, e) = Power(r1, l * e)
    BY <1>1, PowerOfPower
  <2>2. e * l = l * e
    BY <1>1
  <2> QED
    BY <2>1, <2>2
<1>6. ASSUME IsUnit(k, r2) PROVE IsUnit(k, r1 * r2)
  <2>1. Congruent(b, 1, n)
    BY <1>1, <1>6, UnitIs
  <2> HIDE DEF a, b, n
  <2>2. Congruent(a * b, 1 * 1, n)
    BY <1>1, <1>2, <2>1, CongruentProduct
  <2>3. Congruent(a * b, 1, n)
    BY <2>2
  <2> QED
    BY <1>1, <1>3, <1>4, <2>3, UnitIs DEF n
<1>7. IsUnit(k, Power(r1, e))
  <2> HIDE DEF a, n
  <2>1. Congruent(Power(a, e), Power(1, e), n)
    BY <1>1, <1>2, PowerCongruent
  <2>2. Power(1, e) = 1
    BY PowerOfOne
  <2>3. Congruent(Power(Power(r1, e), l), 1, n)
    BY <1>5, <2>1, <2>2
  <2> QED
    BY <1>1, <1>3, <2>3, UnitIs DEF n
<1> QED
  BY <1>6, <1>7

\* A public key encrypts as the secret key it was made with.
LEMMA PublicKeyEncrypts ==
  ASSUME NEW k, IsKey(k), NEW m, NEW r
  PROVE  Encryption!Encrypt(Encryption!PublicKeyOf(k.n), m, r) = Encryption!Encrypt(k, m, r)
<1> DEFINE pk == Encryption!PublicKeyOf(k.n)
<1>1. pk.n = k.n /\ pk.g = k.g /\ pk.n2 = k.n2
  BY KeyNumbers DEF Encryption!PublicKeyOf
<1> HIDE DEF pk
<1>2. Encryption!Encrypt(pk, m, r) = Encryption!Encrypt(k, m, r)
  BY <1>1 DEF Encryption!Encrypt
<1> QED
  BY <1>2 DEF pk

\* What a node decrypts of the sum of two numbers that were encrypted with its public
\* key is their sum, and of a multiple the multiple, modulo n.
THEOREM SumsDecrypt ==
  ASSUME NEW k, IsSecretKey(k), NEW m1 \in Nat, NEW m2 \in Nat,
         NEW r1 \in Nat, NEW r2 \in Nat, IsUnit(k, r1), IsUnit(k, r2)
  PROVE  LET pk == Encryption!PublicKeyOf(k.n)
             c1 == Encryption!Encrypt(pk, m1, r1)
             c2 == Encryption!Encrypt(pk, m2, r2)
         IN  /\ Encryption!Decrypt(k, Encryption!AddCiphertexts(k, c1, c2)) = (m1 + m2) % k.n
             /\ Encryption!Decrypt(k, Encryption!ScalarMul(k, c1, m2)) = (m1 * m2) % k.n
<1> DEFINE c1 == Encryption!Encrypt(k, m1, r1)
           c2 == Encryption!Encrypt(k, m2, r2)
<1>1. IsKey(k)
  BY DEF IsSecretKey
<1>2. /\ Encryption!AddCiphertexts(k, c1, c2) = Encryption!Encrypt(k, m1 + m2, r1 * r2)
      /\ Encryption!ScalarMul(k, c1, m2) = Encryption!Encrypt(k, m1 * m2, Power(r1, m2))
  <2>1. Encryption!AddCiphertexts(k, c1, c2) = Encryption!Encrypt(k, m1 + m2, r1 * r2)
    BY <1>1, CiphertextsAddUp
  <2>2. Encryption!ScalarMul(k, c1, m2) = Encryption!Encrypt(k, m1 * m2, Power(r1, m2))
    BY <1>1, CiphertextsAddUp
  <2> QED
    BY <2>1, <2>2
<1>3. /\ m1 + m2 \in Nat /\ m1 * m2 \in Nat /\ r1 * r2 \in Nat /\ Power(r1, m2) \in Nat
      /\ IsUnit(k, r1 * r2) /\ IsUnit(k, Power(r1, m2))
  <2>1. m1 + m2 \in Nat /\ m1 * m2 \in Nat /\ r1 * r2 \in Nat
    OBVIOUS
  <2>2. Power(r1, m2) \in Nat
    BY PowerNat
  <2>3. IsUnit(k, r1 * r2) /\ IsUnit(k, Power(r1, m2))
    BY UnitsMultiply
  <2> QED
    BY <2>1, <2>2, <2>3
<1>4. /\ Encryption!Decrypt(k, Encryption!Encrypt(k, m1 + m2, r1 * r2)) = (m1 + m2) % k.n
      /\ Encryption!Decrypt(k, Encryption!Encrypt(k, m1 * m2, Power(r1, m2))) = (m1 * m2) % k.n
  <2>1. \A m \in Nat, r \in Nat :
          IsUnit(k, r) => Encryption!Decrypt(k, Encryption!Encrypt(k, m, r)) = m % k.n
    <3>1. ASSUME NEW m \in Nat, NEW r \in Nat, IsUnit(k, r)
          PROVE  Encryption!Decrypt(k, Encryption!Encrypt(k, m, r)) = m % k.n
      BY <3>1, DecryptsWhatWasEncrypted
    <3> QED
      BY <3>1
  <2> QED
    BY <1>3, <2>1
<1>5. /\ Encryption!Encrypt(Encryption!PublicKeyOf(k.n), m1, r1) = c1
      /\ Encryption!Encrypt(Encryption!PublicKeyOf(k.n), m2, r2) = c2
  BY <1>1, PublicKeyEncrypts
<1> QED
  BY <1>2, <1>4, <1>5

-----------------------------------------------------------------------------
(* What is written for other chains.                                       *)

CONSTANTS Hash160(_), Checksum(_), Ed25519Key(_), BitXor(_, _)

Chain == INSTANCE ChainEncodings WITH PublicKey <- Ed25519Key

LEMMA ChainBytes ==
  /\ \A n, base : Chain!Digits(n, base) = Digits(n, base)
  /\ \A s, base : Chain!ValueOf(s, base) = ValueOf(s, base)
  /\ \A s, from, len : Chain!Slice(s, from, len) = Slice(s, from, len)
  /\ \A s, from : Chain!From(s, from) = From(s, from)
<1>1. \A n, base : Chain!Digits(n, base) = Digits(n, base)
  BY Zenon DEF Digits, Chain!Digits
<1>2. \A s, base : Chain!ValueOf(s, base) = ValueOf(s, base)
  BY Zenon DEF ValueOf, Chain!ValueOf
<1>3. /\ \A s, from, len : Chain!Slice(s, from, len) = Slice(s, from, len)
      /\ \A s, from : Chain!From(s, from) = From(s, from)
  BY Zenon DEF Slice, Chain!Slice, From, Chain!From
<1> QED
  BY <1>1, <1>2, <1>3

\* A number that is not zero has digits.
LEMMA DigitsNonempty ==
  ASSUME NEW n \in Nat
  PROVE  /\ Digits(n, 256) \in Seq(Bytes) /\ Len(Digits(n, 256)) \in Nat
         /\ ValueOf(Digits(n, 256), 256) = n
         /\ n # 0 => Len(Digits(n, 256)) > 0
         /\ n \in 1..255 => Digits(n, 256) = <<n>>
<1>1. PICK base \in Nat : base = 256
  OBVIOUS
<1>2. base > 1 /\ 0..(base - 1) = Bytes
  BY <1>1 DEF Bytes
<1>3. /\ Digits(n, base) \in Seq(Bytes)
      /\ Digits(n, base) = IF n = 0 THEN <<>> ELSE Append(Digits(n \div base, base), n % base)
      /\ ValueOf(Digits(n, base), base) = n
  BY <1>2, DigitsUnfold, DigitsValue
<1>4. Len(Digits(n, base)) \in Nat
  BY <1>3
<1>5. n # 0 => Len(Digits(n, base)) > 0
  <2> SUFFICES ASSUME n # 0 PROVE Len(Digits(n, base)) > 0
    OBVIOUS
  <2>1. n \div base \in Nat /\ n % base \in Bytes
    BY <1>1 DEF Bytes
  <2>2. Digits(n \div base, base) \in Seq(Bytes)
    BY <1>2, <2>1, DigitsUnfold
  <2>3. Len(Digits(n, base)) = Len(Digits(n \div base, base)) + 1
    BY <1>3, <2>1, <2>2, AppendProperties
  <2>4. Len(Digits(n \div base, base)) \in Nat
    BY <2>2
  <2> QED
    BY <2>3, <2>4
<1>6. n \in 1..255 => Digits(n, base) = <<n>>
  <2> SUFFICES ASSUME n \in 1..255 PROVE Digits(n, base) = <<n>>
    OBVIOUS
  <2>1. PICK q \in Nat : q = n \div base /\ q = 0
    BY <1>1
  <2>2. n % base = n /\ n # 0
    BY <1>1
  <2>3. Digits(q, base) = <<>>
    BY <1>2, <2>1, DigitsUnfold
  <2>4. Digits(n, base) = Append(<<>>, n)
    BY <1>3, <2>1, <2>2, <2>3
  <2> QED
    BY <2>4
<1> QED
  BY <1>1, <1>3, <1>4, <1>5, <1>6

LEMMA SmallIsByte == ASSUME NEW n \in Nat, n < 256 PROVE n \in Bytes
BY DEF Bytes

\* One byte.
LEMMA OneByte ==
  ASSUME NEW x \in Bytes
  PROVE  <<x>> \in Seq(Bytes) /\ Len(<<x>>) = 1 /\ <<x>>[1] = x /\ ValueOf(<<x>>, 256) = x
<1>1. PICK base \in Nat : base = 256
  OBVIOUS
<1>2. PICK e : e \in Seq(Nat) /\ e = <<>>
  BY EmptySeq
<1>3. x \in Nat
  BY DEF Bytes
<1>4. ValueOf(Append(e, x), base) = ValueOf(e, base) * base + x
  BY <1>2, <1>3, ValueAppend
<1>5. ValueOf(e, base) = 0
  BY <1>2, ValueEmpty
<1>6. Append(e, x) = <<x>>
  BY <1>2
<1>7. 0 * base + x = x
  BY <1>1, <1>3
<1>8. ValueOf(<<x>>, base) = x
  BY <1>4, <1>5, <1>6, <1>7
<1>9. <<x>> \in Seq(Bytes) /\ Len(<<x>>) = 1 /\ <<x>>[1] = x
  OBVIOUS
<1> QED
  BY <1>1, <1>8, <1>9

\* A zero in front.
LEMMA LeadingZero ==
  ASSUME NEW e \in Seq(Bytes), NEW b, Joined(<< 0 >>, e, b)
  PROVE  /\ b \in Seq(Bytes) /\ Len(b) = Len(e) + 1 /\ b[1] = 0
         /\ ValueOf(b, 256) = ValueOf(e, 256)
<1>1. PICK z \in Seq(Bytes) : z = << 0 >> /\ Len(z) = 1 /\ z[1] = 0
  <2>1. 0 \in Bytes
    BY DEF Bytes
  <2>2. \A x \in Bytes : <<x>> \in Seq(Bytes) /\ Len(<<x>>) = 1 /\ <<x>>[1] = x
    OBVIOUS
  <2> QED
    BY <2>1, <2>2
<1>2. b = z \o e /\ Len(e) \in Nat
  BY <1>1 DEF Joined
<1>3. /\ b \in Seq(Bytes) /\ Len(b) = Len(z) + Len(e)
      /\ \A i \in 1..(Len(z) + Len(e)) : b[i] = IF i <= Len(z) THEN z[i] ELSE e[i - Len(z)]
  BY <1>2, ConcatProperties
<1>4. Len(b) = Len(e) + 1 /\ b[1] = 0 /\ \A i \in 1..Len(e) : b[1 + i] = e[i]
  BY <1>1, <1>2, <1>3
<1>5. PICK k \in Nat : k = 1
  OBVIOUS
<1>6. PICK base \in Nat : base = 256
  OBVIOUS
<1>7. b \in Seq(Nat) /\ e \in Seq(Nat)
  <2>1. Bytes \subseteq Nat
    BY DEF Bytes
  <2> QED
    BY <1>3, <2>1, SeqMonotonic
<1>8. /\ Len(b) = k + Len(e) /\ \A i \in 1..k : b[i] = 0
      /\ \A i \in 1..Len(e) : b[k + i] = e[i]
  BY <1>2, <1>4, <1>5
<1>9. ValueOf(b, base) = ValueOf(e, base)
  BY <1>7, <1>8, ValuePadded
<1> QED
  BY <1>3, <1>4, <1>6, <1>9

\* What DerInteger() writes: the bytes of the number, of which the first does not
\* look negative.
LEMMA DerIntegerIs ==
  ASSUME NEW n \in Nat, Fits(n, 32)
  PROVE  \E b \in Seq(Bytes) :
           /\ Chain!DerInteger(n) = <<2, Len(b)>> \o b
           /\ Len(b) >= 1 /\ Len(b) <= 33 /\ b[1] < 128 /\ ValueOf(b, 256) = n
<1> DEFINE d == Digits(n, 256)
           e == IF n = 0 THEN << 0 >> ELSE d
           b == IF e[1] >= 128 THEN << 0 >> \o e ELSE e
<1>1. Chain!DerInteger(n) = <<2, Len(b)>> \o b
  BY ChainBytes DEF Chain!DerInteger
<1>2. /\ d \in Seq(Bytes) /\ Len(d) \in Nat /\ ValueOf(d, 256) = n
      /\ n # 0 => Len(d) > 0
      /\ Len(d) <= 32
  BY DigitsNonempty DEF Fits
<1> HIDE DEF d
<1>3. 0 \in Bytes
  BY DEF Bytes
<1>4. e \in Seq(Bytes) /\ Len(e) >= 1 /\ Len(e) <= 32 /\ ValueOf(e, 256) = n /\ e[1] \in Bytes
  <2>1. CASE n = 0
    <3>1. e = << 0 >>
      BY <2>1
    <3> HIDE DEF e
    <3>2. << 0 >> \in Seq(Bytes) /\ Len(<< 0 >>) = 1 /\ << 0 >>[1] = 0 /\ ValueOf(<< 0 >>, 256) = 0
      BY <1>3, OneByte
    <3> QED
      BY <1>3, <2>1, <3>1, <3>2
  <2>2. CASE n # 0
    <3>1. e = d
      BY <2>2
    <3> HIDE DEF e
    <3>2. PICK i \in 1..Len(d) : i = 1
      BY <1>2, <2>2
    <3>3. d[i] \in Bytes
      BY <1>2, ElementOfSeq
    <3>4. e[1] \in Bytes
      BY <3>1, <3>2, <3>3
    <3>5. Len(e) >= 1 /\ Len(e) <= 32
      BY <1>2, <2>2, <3>1
    <3> QED
      BY <1>2, <3>1, <3>4, <3>5
  <2> QED
    BY <2>1, <2>2
<1> HIDE DEF e
<1>5. b \in Seq(Bytes) /\ Len(b) >= 1 /\ Len(b) <= 33 /\ b[1] < 128 /\ ValueOf(b, 256) = n
  <2>1. CASE e[1] >= 128
    <3>1. Joined(<< 0 >>, e, b)
      BY <2>1 DEF Joined
    <3> HIDE DEF b
    <3>2. /\ b \in Seq(Bytes) /\ Len(b) = Len(e) + 1 /\ b[1] = 0
          /\ ValueOf(b, 256) = ValueOf(e, 256)
      BY <1>4, <3>1, LeadingZero
    <3>3. Len(b) >= 1 /\ Len(b) <= 33
      BY <1>4, <3>2
    <3>4. b[1] < 128
      BY <3>2
    <3>5. ValueOf(b, 256) = n
      BY <1>4, <3>2
    <3> QED
      BY <3>2, <3>3, <3>4, <3>5
  <2>2. CASE ~(e[1] >= 128)
    <3>1. b = e
      BY <2>2
    <3> HIDE DEF b
    <3>2. e[1] < 128
      <4>1. PICK x \in Bytes : x = e[1]
        BY <1>4
      <4>2. x < 128
        BY <2>2, <4>1 DEF Bytes
      <4> QED
        BY <4>1, <4>2
    <3>3. Len(e) >= 1 /\ Len(e) <= 33
      BY <1>4
    <3> QED
      BY <1>4, <3>1, <3>2, <3>3
  <2> QED
    BY <2>1, <2>2
<1> HIDE DEF b
<1> QED
  BY <1>1, <1>5

LEMMA ReadsWithin ==
  ASSUME NEW s, NEW from, NEW t, NEW at, NEW u, Reads(s, from, t), Reads(t, at, u)
  PROVE  Reads(s, from + at - 1, u)
<1>1. /\ Len(s) \in Nat /\ Len(t) \in Nat /\ from \in Nat \ {0}
      /\ from - 1 + Len(t) <= Len(s)
      /\ \A i \in 1..Len(t) : s[from - 1 + i] = t[i]
  BY DEF Reads
<1>2. /\ Len(u) \in Nat /\ at \in Nat \ {0} /\ at - 1 + Len(u) <= Len(t)
      /\ \A i \in 1..Len(u) : t[at - 1 + i] = u[i]
  BY DEF Reads
<1>3. ASSUME NEW i \in 1..Len(u) PROVE s[(from + at - 1) - 1 + i] = u[i]
  <2>1. at - 1 + i \in 1..Len(t)
    BY <1>1, <1>2
  <2>2. s[from - 1 + (at - 1 + i)] = t[at - 1 + i]
    BY <1>1, <2>1
  <2>3. from - 1 + (at - 1 + i) = (from + at - 1) - 1 + i
    BY <1>1, <1>2
  <2> QED
    BY <1>2, <2>2, <2>3
<1>4. from + at - 1 \in Nat \ {0} /\ (from + at - 1) - 1 + Len(u) <= Len(s)
  BY <1>1, <1>2
<1> QED
  BY <1>1, <1>2, <1>3, <1>4 DEF Reads

\* What begins with p and goes on with q.
LEMMA ReadsParts ==
  ASSUME NEW S, NEW p \in Seq(S), NEW q \in Seq(S), NEW t, Joined(p, q, t),
         NEW s, NEW from, Reads(s, from, t)
  PROVE  Reads(s, from, p) /\ Reads(s, from + Len(p), q)
<1>1. Reads(t, 1, p) /\ Reads(t, Len(p) + 1, q) /\ Len(p) \in Nat
  <2>1. Reads(p, 1, p)
    BY ReadsAll
  <2>2. /\ Reads(t, Len(p) + 1, q) /\ Len(p) \in Nat
        /\ \A at, u : Reads(p, at, u) => Reads(t, at, u)
    BY ReadsWritten, Zenon
  <2> QED
    BY <2>1, <2>2
<1>2. Reads(s, from + 1 - 1, p) /\ Reads(s, from + (Len(p) + 1) - 1, q)
  BY <1>1, ReadsWithin
<1>3. from \in Nat
  BY DEF Reads
<1>4. from + 1 - 1 = from /\ from + (Len(p) + 1) - 1 = from + Len(p)
  BY <1>1, <1>3
<1> QED
  BY <1>2, <1>4

LEMMA DerIntegerRead ==
  ASSUME NEW n \in Nat, Fits(n, 32)
  PROVE  /\ Chain!DerInteger(n) \in Seq(Bytes)
         /\ Len(Chain!DerInteger(n)) <= 35 /\ Len(Chain!DerInteger(n)) >= 3
         /\ \A s \in Seq(Bytes), i \in Nat \ {0} : Reads(s, i, Chain!DerInteger(n)) =>
              LET at == Chain!DerIntegerAt(s, i)
              IN  at.value = n /\ at.positive /\ at.next = i + Len(Chain!DerInteger(n))
<1>1. PICK b \in Seq(Bytes) :
           /\ Chain!DerInteger(n) = <<2, Len(b)>> \o b
           /\ Len(b) >= 1 /\ Len(b) <= 33 /\ b[1] < 128 /\ ValueOf(b, 256) = n
  BY DerIntegerIs
<1> DEFINE d == Chain!DerInteger(n)
           h == <<2, Len(b)>>
<1>2. h \in Seq(Bytes) /\ Len(h) = 2
  <2>1. 2 \in Bytes /\ Len(b) \in Bytes
    <3>1. Len(b) \in Nat /\ Len(b) < 256
      BY <1>1
    <3>2. Len(b) \in Bytes
      BY <3>1, SmallIsByte
    <3> QED
      BY <3>2 DEF Bytes
  <2>2. \A x, y \in Bytes : <<x, y>> \in Seq(Bytes) /\ Len(<<x, y>>) = 2
    OBVIOUS
  <2> QED
    BY <2>1, <2>2
<1>3. Joined(h, b, d)
  BY <1>1 DEF Joined
<1> HIDE DEF d
<1>4. d \in Seq(Bytes) /\ Len(d) = Len(b) + 2 /\ Len(b) \in Nat
  <2> HIDE DEF h
  <2>1. d \in Seq(Bytes) /\ Len(d) = Len(h) + Len(b) /\ Len(b) \in Nat
    BY <1>2, <1>3, ReadsWritten
  <2> QED
    BY <1>2, <2>1
<1>5. ASSUME NEW s \in Seq(Bytes), NEW i \in Nat \ {0}, Reads(s, i, d)
      PROVE  LET at == Chain!DerIntegerAt(s, i)
             IN  at.value = n /\ at.positive /\ at.next = i + Len(d)
  <2>1. Reads(s, i, h) /\ Reads(s, i + 2, b)
    <3> HIDE DEF h
    <3>1. Reads(s, i, h) /\ Reads(s, i + Len(h), b)
      BY <1>2, <1>3, <1>5, ReadsParts
    <3> QED
      BY <1>2, <3>1
  <2>2. s[i] = 2 /\ s[i + 1] = Len(b)
    BY <2>1, ReadsPair
  <2>3. s[i + 2] = b[1]
    <3>1. 1 \in 1..Len(b) /\ (i + 2) - 1 + 1 = i + 2
      BY <1>1, <1>4
    <3>2. s[(i + 2) - 1 + 1] = b[1]
      BY <2>1, <3>1 DEF Reads
    <3> QED
      BY <3>1, <3>2
  <2>4. Slice(s, i + 2, Len(b)) = b
    BY <2>1, ReadsSlice
  <2>5. i + 2 + Len(b) = i + Len(d)
    BY <1>4
  <2>6. Chain!DerIntegerAt(s, i) =
          [value |-> n, positive |-> TRUE, next |-> i + 2 + Len(b)]
    <3>1. Chain!DerIntegerAt(s, i) =
            [value |-> ValueOf(Slice(s, i + 2, s[i + 1]), 256),
             positive |-> s[i] = 2 /\ s[i + 2] < 128, next |-> i + 2 + s[i + 1]]
      BY ChainBytes DEF Chain!DerIntegerAt
    <3> QED
      BY <1>1, <2>2, <2>3, <2>4, <3>1
  <2> QED
    BY <2>5, <2>6
<1>6. Len(d) <= 35 /\ Len(d) >= 3
  BY <1>1, <1>4
<1> QED
  BY <1>4, <1>5, <1>6 DEF d

LEMMA TwoBytes ==
  ASSUME NEW x \in Bytes, NEW y \in Bytes
  PROVE  <<x, y>> \in Seq(Bytes) /\ Len(<<x, y>>) = 2
OBVIOUS

LEMMA PairJoined ==
  ASSUME NEW x \in Bytes, NEW y \in Bytes
  PROVE  <<x>> \o <<y>> = <<x, y>>
<1> DEFINE p == <<x>>
           q == <<y>>
           t == <<x, y>>
           u == p \o q
<1>1. /\ p \in Seq(Bytes) /\ Len(p) = 1 /\ p[1] = x
      /\ q \in Seq(Bytes) /\ Len(q) = 1 /\ q[1] = y
      /\ t \in Seq(Bytes) /\ Len(t) = 2 /\ t[1] = x /\ t[2] = y
  OBVIOUS
<1>2. u = p \o q
  OBVIOUS
<1> HIDE DEF p, q, t, u
<1>3. /\ u \in Seq(Bytes) /\ Len(u) = Len(p) + Len(q)
      /\ \A i \in 1..(Len(p) + Len(q)) : u[i] = IF i <= Len(p) THEN p[i] ELSE q[i - Len(p)]
  BY <1>1, <1>2, ConcatProperties
<1>4. Len(u) = 2 /\ u[1] = x /\ u[2] = y
  BY <1>1, <1>3
<1>5. \A i \in 1..Len(u) : u[i] = t[i]
  <2>1. \A i \in 1..Len(u) : i = 1 \/ i = 2
    BY <1>4
  <2> QED
    BY <1>1, <1>4, <2>1
<1>6. u = t
  BY <1>1, <1>3, <1>4, <1>5, SeqEqual
<1> QED
  BY <1>6 DEF p, q, t, u

\* A short element of DER, and what is behind it.
LEMMA Contained ==
  ASSUME NEW tag \in Bytes, NEW c \in Seq(Bytes), Len(c) < 128, NEW rest \in Nat,
         NEW d, Joined(<<tag, Len(c)>>, c, d),
         NEW buf \in Seq(Bytes), Reads(buf, 1, d), Len(buf) = 2 + Len(c) + rest
  PROVE  /\ d \in Seq(Bytes) /\ Len(d) = Len(c) + 2
         /\ Chain!DerContent(tag, buf, rest) = c
<1> DEFINE h == <<tag, Len(c)>>
<1>1. h \in Seq(Bytes) /\ Len(h) = 2
  <2>1. Len(c) \in Nat /\ Len(c) < 256
    OBVIOUS
  <2>2. Len(c) \in Bytes
    BY <2>1, SmallIsByte
  <2> QED
    BY <2>2, TwoBytes
<1>2. d \in Seq(Bytes) /\ Len(d) = Len(c) + 2 /\ Len(c) \in Nat
  <2> HIDE DEF h
  <2>1. d \in Seq(Bytes) /\ Len(d) = Len(h) + Len(c) /\ Len(c) \in Nat
    <3>1. Joined(h, c, d)
      BY DEF h
    <3> QED
      BY <1>1, <3>1, ReadsWritten
  <2> QED
    BY <1>1, <2>1
<1>3. Reads(buf, 1, h) /\ Reads(buf, 3, c)
  <2>1. Joined(h, c, d)
    OBVIOUS
  <2> HIDE DEF h
  <2>2. PICK one \in Int : one = 1
    OBVIOUS
  <2>3. Reads(buf, one, d)
    BY <2>2
  <2>4. Reads(buf, one, h) /\ Reads(buf, one + Len(h), c)
    BY <1>1, <2>1, <2>3, ReadsParts
  <2> QED
    BY <1>1, <2>2, <2>4
<1>4. buf[1] = tag /\ buf[2] = Len(c)
  <2>1. PICK one \in Int : one = 1
    OBVIOUS
  <2>2. Reads(buf, one, <<tag, Len(c)>>)
    BY <1>3, <2>1
  <2>3. buf[one] = tag /\ buf[one + 1] = Len(c)
    BY <2>2, ReadsPair
  <2> QED
    BY <2>1, <2>3
<1>5. Slice(buf, 3, Len(c)) = c
  <2>1. PICK three \in Int : three = 3
    OBVIOUS
  <2>2. Reads(buf, three, c)
    BY <1>3, <2>1
  <2>3. Slice(buf, three, Len(c)) = c
    BY <2>2, ReadsSlice
  <2> QED
    BY <2>1, <2>3
<1>6. Chain!DerContent(tag, buf, rest) = c
  <2>1. Chain!DerContent(tag, buf, rest) =
          LET width == IF buf[2] < 128 THEN 0 ELSE buf[2] - 128
              len == IF width = 0 THEN buf[2] ELSE ValueOf(Slice(buf, 3, width), 256)
          IN  IF buf[1] = tag /\ Len(buf) = 2 + width + len + rest
              THEN Slice(buf, 3 + width, len) ELSE Refused
    BY ChainBytes DEF Chain!DerContent
  <2>2. Len(buf) = 2 + 0 + Len(c) + rest /\ 3 + 0 = 3
    BY <1>2
  <2> QED
    BY <1>4, <1>5, <2>1, <2>2
<1> QED
  BY <1>2, <1>6

\* A signature of Bitcoin is read as it was written, with both numbers and the type
\* of the sighash, for any numbers of 32 bytes: also those whose first byte looks
\* negative, and those with fewer bytes.
THEOREM SignaturesReadBack ==
  ASSUME NEW r \in Nat, NEW s \in Nat, Fits(r, 32), Fits(s, 32), NEW type \in Bytes
  PROVE  Chain!ReadBitcoinSignature(Chain!BitcoinSignature(r, s, type))
           = [r |-> r, s |-> s, sighashType |-> type]
<1> DEFINE a == Chain!DerInteger(r)
           b == Chain!DerInteger(s)
           c == a \o b
           d == <<48, Len(c)>> \o c
           buf == Append(d, type)
<1>1. /\ a \in Seq(Bytes) /\ Len(a) <= 35 /\ Len(a) >= 3
      /\ b \in Seq(Bytes) /\ Len(b) <= 35 /\ Len(b) >= 3
  BY DerIntegerRead
<1>2. Chain!BitcoinSignature(r, s, type) = buf
  BY DEF Chain!BitcoinSignature, Chain!SignatureToDer
<1>3. Joined(a, b, c) /\ Joined(<<48, Len(c)>>, c, d)
  BY DEF Joined
<1> HIDE DEF a, b
<1>4. /\ c \in Seq(Bytes) /\ Len(c) = Len(a) + Len(b) /\ Len(a) \in Nat /\ Len(b) \in Nat
      /\ Reads(c, Len(a) + 1, b)
  BY <1>1, <1>3, ReadsWritten
<1> HIDE DEF c
<1>5. d \in Seq(Bytes) /\ Len(d) = Len(c) + 2
  <2>1. 48 \in Nat /\ 48 < 256 /\ Len(c) \in Nat /\ Len(c) < 256
    BY <1>1, <1>4
  <2>2. 48 \in Bytes /\ Len(c) \in Bytes
    BY <2>1, SmallIsByte
  <2>3. PICK h \in Seq(Bytes) : h = <<48, Len(c)>> /\ Len(h) = 2
    BY <2>2, TwoBytes
  <2>4. Joined(h, c, d)
    BY <1>3, <2>3
  <2> HIDE DEF d
  <2>5. d \in Seq(Bytes) /\ Len(d) = Len(h) + Len(c)
    BY <1>4, <2>4, ReadsWritten
  <2> QED
    BY <1>4, <2>3, <2>5
<1> HIDE DEF d
<1>6. /\ buf \in Seq(Bytes) /\ Len(buf) = Len(d) + 1 /\ buf[Len(d) + 1] = type
      /\ \A i \in 1..Len(d) : buf[i] = d[i]
  BY <1>5, AppendProperties
<1> HIDE DEF buf
<1>7. Reads(buf, 1, d)
  BY <1>5, <1>6 DEF Reads
<1>8. Chain!DerContent(48, buf, 1) = c
  <2>1. PICK tag \in Bytes : tag = 48
    <3>1. 48 \in Bytes
      BY DEF Bytes
    <3> QED
      BY <3>1
  <2>2. PICK rest \in Nat : rest = 1
    OBVIOUS
  <2>3. Len(c) < 128 /\ Len(buf) = 2 + Len(c) + rest
    BY <1>1, <1>4, <1>5, <1>6, <2>2
  <2>4. Joined(<<tag, Len(c)>>, c, d)
    BY <1>3, <2>1
  <2>5. Chain!DerContent(tag, buf, rest) = c
    BY <1>4, <1>6, <1>7, <2>3, <2>4, Contained
  <2> QED
    BY <2>1, <2>2, <2>5
<1>9. LET at == Chain!DerIntegerAt(c, 1)
      IN  at.value = r /\ at.positive /\ at.next = 1 + Len(a)
  <2>1. PICK one \in Nat \ {0} : one = 1
    OBVIOUS
  <2>2. Reads(c, one, a)
    <3>1. Reads(a, 1, a) /\ \A from, t : Reads(a, from, t) => Reads(c, from, t)
      BY <1>1, <1>3, ReadsAll, ReadsWritten
    <3> QED
      BY <2>1, <3>1
  <2>3. LET at == Chain!DerIntegerAt(c, one)
        IN  at.value = r /\ at.positive /\ at.next = one + Len(a)
    BY <1>4, <2>2, DerIntegerRead DEF a
  <2> QED
    BY <2>1, <2>3
<1>10. LET at == Chain!DerIntegerAt(c, 1 + Len(a))
       IN  at.value = s /\ at.positive /\ at.next = Len(c) + 1
  <2>1. PICK i \in Nat \ {0} : i = 1 + Len(a) /\ i = Len(a) + 1
    BY <1>4
  <2>2. Reads(c, i, b)
    BY <1>4, <2>1
  <2>3. LET at == Chain!DerIntegerAt(c, i)
        IN  at.value = s /\ at.positive /\ at.next = i + Len(b)
    BY <1>4, <2>2, DerIntegerRead DEF b
  <2>4. i + Len(b) = Len(c) + 1
    BY <1>4, <2>1
  <2> QED
    BY <2>1, <2>3, <2>4
<1>11. Chain!Last(buf) = type
  BY <1>6 DEF Chain!Last
<1>12. Chain!ReadBitcoinSignature(buf) = [r |-> r, s |-> s, sighashType |-> type]
  BY <1>8, <1>9, <1>10, <1>11 DEF Chain!ReadBitcoinSignature
<1> QED
  BY <1>2, <1>12

\* What a buffer ends with.
LEMMA ReadsEnd ==
  ASSUME NEW S, NEW s \in Seq(S), NEW t \in Seq(S), NEW from, Reads(s, from, t),
         from + Len(t) = Len(s) + 1
  PROVE  From(s, from) = t
<1>1. Slice(s, from, Len(t)) = t
  BY ReadsSlice
<1>2. from \in Nat /\ Len(t) \in Nat /\ Len(s) \in Nat
  BY DEF Reads
<1>3. from + Len(t) - 1 = Len(s)
  BY <1>2
<1> QED
  BY <1>1, <1>3 DEF Slice, From

LEMMA Asn1Read ==
  ASSUME NEW tag \in Bytes, NEW c \in Seq(Bytes), Len(c) < 128
  PROVE  LET d == Chain!Asn1(tag, c)
         IN  /\ d \in Seq(Bytes) /\ Len(d) = Len(c) + 2
             /\ Reads(d, 3, c)
             /\ Chain!DerContent(tag, d, 0) = c
<1> DEFINE d == Chain!Asn1(tag, c)
<1>1. d = <<tag, Len(c)>> \o c
  <2>1. d = (<<tag>> \o <<Len(c)>>) \o c
    <3>1. Chain!Asn1Length(Len(c)) = <<Len(c)>>
      BY DEF Chain!Asn1Length
    <3> QED
      BY <3>1 DEF Chain!Asn1
  <2>2. <<tag>> \o <<Len(c)>> = <<tag, Len(c)>>
    <3>1. Len(c) \in Nat /\ Len(c) < 256
      OBVIOUS
    <3>2. Len(c) \in Bytes
      BY <3>1, SmallIsByte
    <3> QED
      BY <3>2, PairJoined
  <2> QED
    BY <2>1, <2>2
<1> HIDE DEF d
<1>2. Joined(<<tag, Len(c)>>, c, d)
  BY <1>1 DEF Joined
<1>3. PICK h \in Seq(Bytes) : h = <<tag, Len(c)>> /\ Len(h) = 2
  <2>1. Len(c) \in Nat /\ Len(c) < 256
    OBVIOUS
  <2>2. Len(c) \in Bytes
    BY <2>1, SmallIsByte
  <2> QED
    BY <2>2, TwoBytes
<1>4. /\ d \in Seq(Bytes) /\ Len(d) = Len(h) + Len(c) /\ Len(c) \in Nat
      /\ Reads(d, Len(h) + 1, c)
  <2>1. Joined(h, c, d)
    BY <1>2, <1>3
  <2> QED
    BY <2>1, ReadsWritten
<1>5. Chain!DerContent(tag, d, 0) = c
  <2>1. PICK rest \in Nat : rest = 0
    OBVIOUS
  <2>2. Reads(d, 1, d) /\ Len(d) = 2 + Len(c) + rest
    BY <1>3, <1>4, <2>1, ReadsAll
  <2>3. Chain!DerContent(tag, d, rest) = c
    BY <1>2, <1>4, <2>2, Contained
  <2> QED
    BY <2>1, <2>3
<1> QED
  BY <1>3, <1>4, <1>5 DEF d

\* The same for what follows a header of known length.
LEMMA Headed ==
  ASSUME NEW h \in Seq(Bytes), NEW c \in Seq(Bytes), NEW s, Joined(h, c, s)
  PROVE  /\ s \in Seq(Bytes) /\ Len(s) = Len(h) + Len(c)
         /\ Reads(s, Len(h) + 1, c) /\ From(s, Len(h) + 1) = c
<1>1. /\ s \in Seq(Bytes) /\ Len(s) = Len(h) + Len(c)
      /\ Len(h) \in Nat /\ Len(c) \in Nat
      /\ Reads(s, Len(h) + 1, c)
  BY ReadsWritten
<1>2. PICK from \in Nat : from = Len(h) + 1 /\ from + Len(c) = Len(s) + 1
  BY <1>1
<1>3. From(s, from) = c
  BY <1>1, <1>2, ReadsEnd
<1> QED
  BY <1>1, <1>2, <1>3

LEMMA Headers ==
  /\ Chain!Ed25519Algorithm \in Seq(Bytes) /\ Len(Chain!Ed25519Algorithm) = 7
  /\ <<2, 1, 0>> \o Chain!Ed25519Algorithm \in Seq(Bytes)
  /\ Len(<<2, 1, 0>> \o Chain!Ed25519Algorithm) = 10
<1>1. /\ \A x, y \in Bytes : <<x, y>> \in Seq(Bytes) /\ Len(<<x, y>>) = 2
      /\ \A x, y, z \in Bytes : <<x, y, z>> \in Seq(Bytes) /\ Len(<<x, y, z>>) = 3
      /\ \A u, v, x, y, z \in Bytes :
           <<u, v, x, y, z>> \in Seq(Bytes) /\ Len(<<u, v, x, y, z>>) = 5
  OBVIOUS
<1>2. /\ 48 \in Bytes /\ 5 \in Bytes /\ 6 \in Bytes /\ 3 \in Bytes /\ 43 \in Bytes
      /\ 101 \in Bytes /\ 112 \in Bytes /\ 2 \in Bytes /\ 1 \in Bytes /\ 0 \in Bytes
  BY DEF Bytes
<1>3. PICK a \in Seq(Bytes) : a = <<48, 5>> /\ Len(a) = 2
  <2>1. PICK x \in Bytes, y \in Bytes : x = 48 /\ y = 5
    BY <1>2
  <2>2. <<x, y>> \in Seq(Bytes) /\ Len(<<x, y>>) = 2
    BY <1>1
  <2> QED
    BY <2>1, <2>2
<1>4. PICK b \in Seq(Bytes) : b = <<6, 3, 43, 101, 112>> /\ Len(b) = 5
  <2>1. PICK u \in Bytes, v \in Bytes, x \in Bytes, y \in Bytes, z \in Bytes :
          u = 6 /\ v = 3 /\ x = 43 /\ y = 101 /\ z = 112
    BY <1>2
  <2>2. <<u, v, x, y, z>> \in Seq(Bytes) /\ Len(<<u, v, x, y, z>>) = 5
    BY <1>1
  <2> QED
    BY <2>1, <2>2
<1>5. PICK c \in Seq(Bytes) : c = <<2, 1, 0>> /\ Len(c) = 3
  <2>1. PICK x \in Bytes, y \in Bytes, z \in Bytes : x = 2 /\ y = 1 /\ z = 0
    BY <1>2
  <2>2. <<x, y, z>> \in Seq(Bytes) /\ Len(<<x, y, z>>) = 3
    BY <1>1
  <2> QED
    BY <2>1, <2>2
<1>6. PICK d : d = Chain!Ed25519Algorithm /\ Joined(a, b, d)
  BY <1>3, <1>4 DEF Joined, Chain!Ed25519Algorithm, Chain!Ed25519Oid
<1>7. d \in Seq(Bytes) /\ Len(d) = 7
  <2>1. d \in Seq(Bytes) /\ Len(d) = Len(a) + Len(b)
    <3>1. Joined(a, b, d)
      BY <1>6
    <3> QED
      BY <3>1, JoinedTyped
  <2> QED
    BY <1>3, <1>4, <2>1
<1>8. PICK e : e = <<2, 1, 0>> \o d /\ Joined(c, d, e)
  BY <1>5 DEF Joined
<1>9. e \in Seq(Bytes) /\ Len(e) = 10
  <2>1. e \in Seq(Bytes) /\ Len(e) = Len(c) + Len(d)
    <3>1. d \in Seq(Bytes) /\ Joined(c, d, e)
      BY <1>7, <1>8
    <3> QED
      BY <3>1, JoinedTyped
  <2> QED
    BY <1>5, <1>7, <2>1
<1> QED
  BY <1>6, <1>7, <1>8, <1>9

LEMMA SpkiRead ==
  ASSUME NEW key \in Seq(Bytes), Len(key) <= 100
  PROVE  /\ Chain!ReadSpki(Chain!SpkiDer(key)) = key
         /\ Chain!ExtractKey(Chain!SpkiDer(key), Len(key)) = key
<1> DEFINE z == << 0 >>
           k == z \o key
           e == Chain!Asn1(3, k)
           h == Chain!Ed25519Algorithm
           body == h \o e
           der == Chain!Asn1(48, body)
<1>1. Chain!SpkiDer(key) = der
  BY DEF Chain!SpkiDer, Chain!Asn1Sequence, Chain!Asn1BitString
<1>2. 0 \in Bytes /\ 3 \in Bytes /\ 48 \in Bytes
  BY DEF Bytes
<1>3. z \in Seq(Bytes) /\ Len(z) = 1
  BY <1>2, OneByte
<1>4. h \in Seq(Bytes) /\ Len(h) = 7
  BY Headers
<1>5. Joined(z, key, k) /\ Joined(h, e, body)
  BY DEF Joined
<1> HIDE DEF z, h
<1>6. k \in Seq(Bytes) /\ Len(k) = Len(key) + 1 /\ Reads(k, 2, key) /\ From(k, 2) = key
  <2> HIDE DEF k
  <2>1. /\ k \in Seq(Bytes) /\ Len(k) = Len(z) + Len(key)
        /\ Reads(k, Len(z) + 1, key) /\ From(k, Len(z) + 1) = key
    BY <1>3, <1>5, Headed
  <2> QED
    BY <1>3, <2>1
<1> HIDE DEF k
<1>7. /\ e \in Seq(Bytes) /\ Len(e) = Len(key) + 3
      /\ Reads(e, 3, k) /\ Chain!DerContent(3, e, 0) = k
  <2>1. Len(k) < 128
    BY <1>6
  <2>2. PICK three \in Bytes : three = 3
    BY <1>2
  <2>3. LET d == Chain!Asn1(three, k)
        IN  /\ d \in Seq(Bytes) /\ Len(d) = Len(k) + 2
            /\ Reads(d, 3, k) /\ Chain!DerContent(three, d, 0) = k
    BY <1>6, <2>1, Asn1Read
  <2>4. Len(k) + 2 = Len(key) + 3
    BY <1>6
  <2> QED
    BY <2>2, <2>3, <2>4
<1> HIDE DEF e
<1>8. /\ body \in Seq(Bytes) /\ Len(body) = Len(key) + 10
      /\ Reads(body, 8, e) /\ From(body, 8) = e
  <2> HIDE DEF body
  <2>1. /\ body \in Seq(Bytes) /\ Len(body) = Len(h) + Len(e)
        /\ Reads(body, Len(h) + 1, e) /\ From(body, Len(h) + 1) = e
    BY <1>4, <1>5, <1>7, Headed
  <2>2. Len(h) + Len(e) = Len(key) + 10 /\ Len(h) + 1 = 8
    BY <1>4, <1>7
  <2> QED
    BY <2>1, <2>2
<1> HIDE DEF body
<1>9. /\ der \in Seq(Bytes) /\ Len(der) = Len(key) + 12
      /\ Reads(der, 3, body) /\ Chain!DerContent(48, der, 0) = body
  <2>1. Len(body) < 128
    BY <1>8
  <2>2. PICK tag \in Bytes : tag = 48
    BY <1>2
  <2>3. LET d == Chain!Asn1(tag, body)
        IN  /\ d \in Seq(Bytes) /\ Len(d) = Len(body) + 2
            /\ Reads(d, 3, body) /\ Chain!DerContent(tag, d, 0) = body
    BY <1>8, <2>1, Asn1Read
  <2>4. Len(body) + 2 = Len(key) + 12
    BY <1>8
  <2> QED
    BY <2>2, <2>3, <2>4
<1> HIDE DEF der
<1>10. Chain!ReadSpki(der) = key
  <2>1. Chain!ReadSpki(der) = Tail(k)
    BY <1>7, <1>8, <1>9, ChainBytes DEF Chain!ReadSpki
  <2>2. Tail(k) = From(k, 2)
    BY <1>6 DEF From
  <2> QED
    BY <1>6, <2>1, <2>2
<1>11. Chain!ExtractKey(der, Len(key)) = key
  <2>1. PICK n1, n2, n3, n4 \in Nat : n1 = 3 /\ n2 = 8 /\ n3 = 3 /\ n4 = 2
    OBVIOUS
  <2>2. Reads(der, n1, body) /\ Reads(body, n2, e) /\ Reads(e, n3, k) /\ Reads(k, n4, key)
    BY <1>6, <1>7, <1>8, <1>9, <2>1
  <2>3. Reads(e, n3 + n4 - 1, key)
    BY <2>2, ReadsWithin
  <2>4. Reads(body, n2 + (n3 + n4 - 1) - 1, key)
    BY <2>2, <2>3, ReadsWithin
  <2>5. Reads(der, n1 + (n2 + (n3 + n4 - 1) - 1) - 1, key)
    BY <2>2, <2>4, ReadsWithin
  <2>6. PICK from : /\ from = n1 + (n2 + (n3 + n4 - 1) - 1) - 1
                    /\ from = Len(der) - Len(key) + 1 /\ from + Len(key) = Len(der) + 1
    BY <1>9, <2>1
  <2>7. From(der, from) = key
    BY <1>9, <2>5, <2>6, ReadsEnd
  <2>8. Chain!ExtractKey(der, Len(key)) = From(der, Len(der) - Len(key) + 1)
    BY ChainBytes DEF Chain!ExtractKey
  <2> QED
    BY <2>6, <2>7, <2>8
<1> QED
  BY <1>1, <1>10, <1>11

LEMMA Pkcs8Read ==
  ASSUME NEW seed \in Seq(Bytes), Len(seed) <= 100
  PROVE  /\ Chain!ReadPkcs8(Chain!Pkcs8Der(seed)) = seed
         /\ Chain!ExtractKey(Chain!Pkcs8Der(seed), Len(seed)) = seed
<1> DEFINE k == Chain!Asn1(4, seed)
           e == Chain!Asn1(4, k)
           h == <<2, 1, 0>> \o Chain!Ed25519Algorithm
           body == h \o e
           der == Chain!Asn1(48, body)
<1>1. Chain!Pkcs8Der(seed) = der
  BY DEF Chain!Pkcs8Der, Chain!Asn1Sequence, Chain!Asn1OctetString
<1>2. 4 \in Bytes /\ 48 \in Bytes
  BY DEF Bytes
<1>3. PICK octets \in Bytes : octets = 4
  BY <1>2
<1>4. h \in Seq(Bytes) /\ Len(h) = 10
  BY Headers
<1>5. Joined(h, e, body)
  BY DEF Joined
<1> HIDE DEF h
<1>6. /\ k \in Seq(Bytes) /\ Len(k) = Len(seed) + 2
      /\ Reads(k, 3, seed) /\ Chain!DerContent(4, k, 0) = seed
  <2>1. Len(seed) < 128
    OBVIOUS
  <2>2. LET d == Chain!Asn1(octets, seed)
        IN  /\ d \in Seq(Bytes) /\ Len(d) = Len(seed) + 2
            /\ Reads(d, 3, seed) /\ Chain!DerContent(octets, d, 0) = seed
    BY <2>1, Asn1Read
  <2> QED
    BY <1>3, <2>2
<1> HIDE DEF k
<1>7. /\ e \in Seq(Bytes) /\ Len(e) = Len(seed) + 4
      /\ Reads(e, 3, k) /\ Chain!DerContent(4, e, 0) = k
  <2>1. Len(k) < 128
    BY <1>6
  <2>2. LET d == Chain!Asn1(octets, k)
        IN  /\ d \in Seq(Bytes) /\ Len(d) = Len(k) + 2
            /\ Reads(d, 3, k) /\ Chain!DerContent(octets, d, 0) = k
    BY <1>6, <2>1, Asn1Read
  <2>3. Len(k) + 2 = Len(seed) + 4
    BY <1>6
  <2> QED
    BY <1>3, <2>2, <2>3
<1> HIDE DEF e
<1>8. /\ body \in Seq(Bytes) /\ Len(body) = Len(seed) + 14
      /\ Reads(body, 11, e) /\ From(body, 11) = e
  <2> HIDE DEF body
  <2>1. /\ body \in Seq(Bytes) /\ Len(body) = Len(h) + Len(e)
        /\ Reads(body, Len(h) + 1, e) /\ From(body, Len(h) + 1) = e
    BY <1>4, <1>5, <1>7, Headed
  <2>2. Len(h) + Len(e) = Len(seed) + 14 /\ Len(h) + 1 = 11
    BY <1>4, <1>7
  <2> QED
    BY <2>1, <2>2
<1> HIDE DEF body
<1>9. /\ der \in Seq(Bytes) /\ Len(der) = Len(seed) + 16
      /\ Reads(der, 3, body) /\ Chain!DerContent(48, der, 0) = body
  <2>1. Len(body) < 128
    BY <1>8
  <2>2. PICK tag \in Bytes : tag = 48
    BY <1>2
  <2>3. LET d == Chain!Asn1(tag, body)
        IN  /\ d \in Seq(Bytes) /\ Len(d) = Len(body) + 2
            /\ Reads(d, 3, body) /\ Chain!DerContent(tag, d, 0) = body
    BY <1>8, <2>1, Asn1Read
  <2>4. Len(body) + 2 = Len(seed) + 16
    BY <1>8
  <2> QED
    BY <2>2, <2>3, <2>4
<1> HIDE DEF der
<1>10. Chain!ReadPkcs8(der) = seed
  BY <1>6, <1>7, <1>8, <1>9, ChainBytes DEF Chain!ReadPkcs8
<1>11. Chain!ExtractKey(der, Len(seed)) = seed
  <2>1. PICK n1, n2 \in Nat : n1 = 3 /\ n2 = 11
    OBVIOUS
  <2>2. Reads(der, n1, body) /\ Reads(body, n2, e) /\ Reads(e, n1, k) /\ Reads(k, n1, seed)
    BY <1>6, <1>7, <1>8, <1>9, <2>1
  <2>3. Reads(e, n1 + n1 - 1, seed)
    BY <2>2, ReadsWithin
  <2>4. Reads(body, n2 + (n1 + n1 - 1) - 1, seed)
    BY <2>2, <2>3, ReadsWithin
  <2>5. Reads(der, n1 + (n2 + (n1 + n1 - 1) - 1) - 1, seed)
    BY <2>2, <2>4, ReadsWithin
  <2>6. PICK from : /\ from = n1 + (n2 + (n1 + n1 - 1) - 1) - 1
                    /\ from = Len(der) - Len(seed) + 1 /\ from + Len(seed) = Len(der) + 1
    BY <1>9, <2>1
  <2>7. From(der, from) = seed
    BY <1>9, <2>5, <2>6, ReadsEnd
  <2>8. Chain!ExtractKey(der, Len(seed)) = From(der, Len(der) - Len(seed) + 1)
    BY ChainBytes DEF Chain!ExtractKey
  <2> QED
    BY <2>6, <2>7, <2>8
<1> QED
  BY <1>1, <1>10, <1>11

\* What a node writes around a key of Ed25519 is read as that key, by the readers of
\* the containers and by the node itself, which takes the last bytes; for any key of at
\* most 100 bytes, so that every length in the containers is one byte.
THEOREM KeysReadBack ==
  \A key \in Seq(Bytes) : Len(key) <= 100 =>
    /\ Chain!ReadSpki(Chain!SpkiDer(key)) = key
    /\ Chain!ReadPkcs8(Chain!Pkcs8Der(key)) = key
    /\ Chain!ExtractKey(Chain!SpkiDer(key), Len(key)) = key
    /\ Chain!ExtractKey(Chain!Pkcs8Der(key), Len(key)) = key
<1> SUFFICES ASSUME NEW key \in Seq(Bytes), Len(key) <= 100
             PROVE  /\ Chain!ReadSpki(Chain!SpkiDer(key)) = key
                    /\ Chain!ReadPkcs8(Chain!Pkcs8Der(key)) = key
                    /\ Chain!ExtractKey(Chain!SpkiDer(key), Len(key)) = key
                    /\ Chain!ExtractKey(Chain!Pkcs8Der(key), Len(key)) = key
  OBVIOUS
<1>1. /\ Chain!ReadSpki(Chain!SpkiDer(key)) = key
      /\ Chain!ExtractKey(Chain!SpkiDer(key), Len(key)) = key
  BY SpkiRead
<1>2. /\ Chain!ReadPkcs8(Chain!Pkcs8Der(key)) = key
      /\ Chain!ExtractKey(Chain!Pkcs8Der(key), Len(key)) = key
  BY Pkcs8Read
<1> QED
  BY <1>1, <1>2

\* A challenge that was signed with a seed verifies with the public key that the import
\* of the seed returned, and with no other key and for no other message.
THEOREM ChallengesVerify ==
  ASSUME NEW seed \in Seq(Bytes), Len(seed) = 32,
         Ed25519Key(seed) \in Seq(Bytes), Len(Ed25519Key(seed)) = 32,
         NEW message, NEW other, NEW key \in Seq(Bytes), Len(key) = 32
  PROVE  Chain!VerifyEd25519(other, Chain!SignEd25519(message, seed), key)
           <=> /\ key = Chain!ImportEd25519Keypair(seed).publicKey
               /\ other = message
<1> DEFINE public == Ed25519Key(seed)
<1>1. Len(seed) <= 100 /\ Len(public) <= 100 /\ Len(key) <= 100
  OBVIOUS
<1>2. Chain!ReadPkcs8(Chain!Pkcs8Der(seed)) = seed
  BY <1>1, KeysReadBack
<1>3. Chain!ReadSpki(Chain!SpkiDer(key)) = key
  BY <1>1, KeysReadBack
<1>4. Chain!ExtractKey(Chain!SpkiDer(public), 32) = public
  <2>1. Chain!ExtractKey(Chain!SpkiDer(public), Len(public)) = public
    BY <1>1, KeysReadBack
  <2> QED
    BY <2>1
<1>5. Chain!SignEd25519(message, seed) = [key |-> public, message |-> message]
  BY <1>2 DEF Chain!SignEd25519
<1>6. Chain!ImportEd25519Keypair(seed).publicKey = public
  BY <1>2, <1>4 DEF Chain!ImportEd25519Keypair
<1>7. Chain!VerifyEd25519(other, Chain!SignEd25519(message, seed), key)
        <=> [key |-> public, message |-> message] = [key |-> key, message |-> other]
  BY <1>3, <1>5 DEF Chain!VerifyEd25519
<1>8. [key |-> public, message |-> message] = [key |-> key, message |-> other]
        <=> key = public /\ other = message
  <2> HIDE DEF public
  <2> QED
    OBVIOUS
<1> QED
  BY <1>6, <1>7, <1>8

-----------------------------------------------------------------------------
(* RLP: an item at a time, then the items that a list joins.               *)

LEMMA DigitsGrow ==
  \A n, m \in Nat : n <= m => Len(Digits(n, 256)) <= Len(Digits(m, 256))
<1> DEFINE len(n) == Len(Digits(n, 256))
           S == {n \in Nat : \A m \in Nat : n <= m => len(n) <= len(m)}
           bad == {n \in Nat : n \notin S}
<1>0. PICK base \in Nat : base = 256 /\ base > 1
  OBVIOUS
<1>00. base > 1
  BY <1>0
<1>1. \A n \in Nat : /\ len(n) \in Nat
                     /\ n = 0 => len(n) = 0
                     /\ n # 0 => len(n) = len(n \div base) + 1
  <2> SUFFICES ASSUME NEW n \in Nat
               PROVE  /\ len(n) \in Nat
                      /\ n = 0 => len(n) = 0
                      /\ n # 0 => len(n) = len(n \div base) + 1
    OBVIOUS
  <2>1. n \div base \in Nat /\ n % base \in 0..(base - 1)
    <3>1. n \div 256 \in Nat /\ n % 256 \in 0..255
      OBVIOUS
    <3>2. n \div base = n \div 256 /\ n % base = n % 256 /\ base - 1 = 255
      BY <1>0
    <3>3. 0..(base - 1) = 0..255
      BY <3>2
    <3> HIDE <1>0
    <3> QED
      BY <3>1, <3>2, <3>3
  <2>2. Digits(n, base) = IF n = 0 THEN <<>> ELSE Append(Digits(n \div base, base), n % base)
    BY <1>00, DigitsUnfold
  <2>3. Digits(n \div base, base) \in Seq(0..(base - 1))
    BY <1>00, <2>1, DigitsUnfold
  <2>4. Digits(n, base) \in Seq(0..(base - 1))
    BY <1>00, DigitsUnfold
  <2>5. n # 0 => Len(Digits(n, base)) = Len(Digits(n \div base, base)) + 1
    BY <2>1, <2>2, <2>3, AppendProperties
  <2>6. n = 0 => Len(Digits(n, base)) = 0
    BY <2>2
  <2>7. Len(Digits(n, base)) \in Nat
    BY <2>4
  <2> QED
    BY <1>0, <2>5, <2>6, <2>7
<1> HIDE DEF len
<1>2. ASSUME NEW n \in bad, \A k \in bad : n <= k PROVE FALSE
  <2>1. n \in Nat /\ n \notin S
    OBVIOUS
  <2>2. PICK m \in Nat : n <= m /\ ~(len(n) <= len(m))
    BY <2>1
  <2>3. n # 0 /\ m # 0
    BY <1>1, <2>1, <2>2
  <2>4. PICK q \in Nat : q = n \div base /\ q < n
    BY <1>0, <2>1, <2>3
  <2>5. PICK p \in Nat : p = m \div base /\ q <= p
    BY <1>0, <2>1, <2>2, <2>4
  <2>6. q \notin bad
    BY <1>2, <2>1, <2>4
  <2>7. len(q) <= len(p)
    BY <2>5, <2>6
  <2>8. len(n) = len(q) + 1 /\ len(m) = len(p) + 1 /\ len(q) \in Nat /\ len(p) \in Nat
    BY <1>1, <2>1, <2>3, <2>4, <2>5
  <2> QED
    BY <2>2, <2>7, <2>8
<1>3. bad \subseteq Nat
  OBVIOUS
<1>4. bad = {}
  <2> HIDE DEF bad
  <2> QED
    BY <1>2, <1>3, LeastNumber
<1>5. \A n, m \in Nat : n <= m => len(n) <= len(m)
  BY <1>4
<1> QED
  BY <1>5 DEF len

\* The long form: a byte for the length of the length, the length, and the content.
LongForm(base, c, w) == w = <<base + Len(Digits(Len(c), 256))>> \o Digits(Len(c), 256) \o c

LEMMA LongRead ==
  ASSUME NEW base \in Nat, NEW c \in Seq(Nat), NEW w, LongForm(base, c, w)
  PROVE  LET n == Len(Digits(Len(c), 256))
         IN  /\ n \in Nat /\ w \in Seq(Nat) /\ Len(w) = 1 + n + Len(c)
             /\ \A buf \in Seq(Nat) : \A i : Reads(buf, i, w) =>
                  /\ buf[i] = base + n
                  /\ ValueOf(Slice(buf, i + 1, n), 256) = Len(c)
                  /\ Slice(buf, i + (n + 1), Len(c)) = c
<1> DEFINE d == Digits(Len(c), 256)
           n == Len(d)
           a == <<base + n>>
           h == a \o d
<1>1. Len(c) \in Nat
  OBVIOUS
<1>2. d \in Seq(Bytes) /\ n \in Nat /\ ValueOf(d, 256) = Len(c)
  BY <1>1, DigitsNonempty
<1>3. d \in Seq(Nat)
  <2>1. Bytes \subseteq Nat
    BY DEF Bytes
  <2> QED
    BY <1>2, <2>1, SeqMonotonic
<1>4. w = h \o c
  BY DEF LongForm
<1> HIDE DEF d, n
<1>5. a \in Seq(Nat) /\ Len(a) = 1
  <2>1. base + n \in Nat
    BY <1>2
  <2> QED
    BY <2>1
<1>6. Joined(a, d, h) /\ Joined(h, c, w)
  BY <1>4 DEF Joined
<1>7. h \in Seq(Nat) /\ Len(h) = Len(a) + Len(d)
  <2> HIDE DEF a, h
  <2>1. a \in Seq(Nat) /\ d \in Seq(Nat) /\ Joined(a, d, h)
    BY <1>3, <1>5, <1>6
  <2> QED
    BY <2>1, ReadsWritten
<1>8. Len(h) = 1 + n
  BY <1>5, <1>7 DEF n
<1>9. w \in Seq(Nat) /\ Len(w) = Len(h) + Len(c)
  <2> HIDE DEF h
  <2> QED
    BY <1>6, <1>7, ReadsWritten
<1>10. ASSUME NEW buf \in Seq(Nat), NEW i, Reads(buf, i, w)
       PROVE  /\ buf[i] = base + n
              /\ ValueOf(Slice(buf, i + 1, n), 256) = Len(c)
              /\ Slice(buf, i + (n + 1), Len(c)) = c
  <2>1. Reads(buf, i, h) /\ Reads(buf, i + Len(h), c)
    <3> HIDE DEF h
    <3> QED
      BY <1>6, <1>7, <1>10, ReadsParts
  <2>2. Reads(buf, i, a) /\ Reads(buf, i + Len(a), d)
    <3> HIDE DEF a, h
    <3> QED
      BY <1>3, <1>5, <1>6, <2>1, ReadsParts
  <2>3. buf[i] = base + n
    BY <2>2, ReadsOne
  <2>4. Slice(buf, i + 1, n) = d
    <3> HIDE DEF a
    <3>1. Reads(buf, i + 1, d)
      BY <1>5, <2>2
    <3>2. Slice(buf, i + 1, Len(d)) = d
      BY <1>3, <3>1, ReadsSlice
    <3> QED
      BY <3>2 DEF n
  <2>5. Slice(buf, i + (n + 1), Len(c)) = c
    <3> HIDE DEF h
    <3>1. i \in Nat
      BY <2>1 DEF Reads
    <3>2. i + (n + 1) = i + Len(h)
      BY <1>2, <1>8, <3>1
    <3>3. Slice(buf, i + Len(h), Len(c)) = c
      BY <2>1, ReadsSlice
    <3> QED
      BY <3>2, <3>3
  <2> QED
    BY <1>2, <2>3, <2>4, <2>5
<1>11. n \in Nat /\ w \in Seq(Nat) /\ Len(w) = 1 + n + Len(c)
  BY <1>1, <1>2, <1>8, <1>9
<1> QED
  BY <1>10, <1>11 DEF n, d

\* What the reader makes of the item at i: len bytes from i + offset.
ItemRead(buf, i, offset, len) ==
  /\ Chain!RlpItem(buf, i).bytes = Slice(buf, i + offset, len)
  /\ Chain!RlpItem(buf, i).next = i + offset + len

\* It starts with the byte x.
StartsWith(buf, i, x) == x \in Nat /\ buf[i] = x

LEMMA ItemIs ==
  ASSUME NEW buf, NEW i, NEW x, StartsWith(buf, i, x)
  PROVE  /\ x < 128 => ItemRead(buf, i, 0, 1)
         /\ 128 <= x /\ x <= 183 => ItemRead(buf, i, 1, x - 128)
         /\ 184 <= x /\ x <= 191 =>
              ItemRead(buf, i, x - 182, ValueOf(Slice(buf, i + 1, x - 183), 256))
         /\ 192 <= x /\ x <= 247 => ItemRead(buf, i, 1, x - 192)
         /\ x > 247 =>
              ItemRead(buf, i, x - 246, ValueOf(Slice(buf, i + 1, x - 247), 256))
<1> DEFINE Long(width) == ValueOf(Slice(buf, i + 1, width), 256)
           Item(isList, offset, len) ==
             [list |-> isList, bytes |-> Slice(buf, i + offset, len),
              next |-> i + offset + len]
           y == Chain!RlpItem(buf, i)
           f1 == Item(FALSE, 0, 1)
           f2 == Item(FALSE, 1, x - 128)
           f3 == Item(FALSE, x - 182, Long(x - 183))
           f4 == Item(TRUE, 1, x - 192)
           f5 == Item(TRUE, x - 246, Long(x - 247))
<1>0. x \in Nat /\ buf[i] = x
  BY DEF StartsWith
<1>1. y = CASE x < 128 -> f1
            [] x \in 128..183 -> f2
            [] x \in 184..191 -> f3
            [] x \in 192..247 -> f4
            [] x > 247 -> f5
  BY <1>0, ChainBytes DEF Chain!RlpItem
<1>2. f1.bytes = Slice(buf, i + 0, 1) /\ f1.next = i + 0 + 1
  OBVIOUS
<1>3. f2.bytes = Slice(buf, i + 1, x - 128) /\ f2.next = i + 1 + (x - 128)
  OBVIOUS
<1>4. /\ f3.bytes = Slice(buf, i + (x - 182), Long(x - 183))
      /\ f3.next = i + (x - 182) + Long(x - 183)
  OBVIOUS
<1>5. f4.bytes = Slice(buf, i + 1, x - 192) /\ f4.next = i + 1 + (x - 192)
  OBVIOUS
<1>6. /\ f5.bytes = Slice(buf, i + (x - 246), Long(x - 247))
      /\ f5.next = i + (x - 246) + Long(x - 247)
  OBVIOUS
<1> HIDE DEF y, f1, f2, f3, f4, f5
<1>7. /\ x < 128 => y = f1
      /\ 128 <= x /\ x <= 183 => y = f2
      /\ 184 <= x /\ x <= 191 => y = f3
      /\ 192 <= x /\ x <= 247 => y = f4
      /\ x > 247 => y = f5
  BY <1>0, <1>1
<1>8. x < 128 => ItemRead(buf, i, 0, 1)
  BY <1>2, <1>7, Zenon DEF ItemRead, y
<1>9. 128 <= x /\ x <= 183 => ItemRead(buf, i, 1, x - 128)
  BY <1>3, <1>7, Zenon DEF ItemRead, y
<1>10. 184 <= x /\ x <= 191 => ItemRead(buf, i, x - 182, Long(x - 183))
  BY <1>4, <1>7, Zenon DEF ItemRead, y
<1>11. 192 <= x /\ x <= 247 => ItemRead(buf, i, 1, x - 192)
  BY <1>5, <1>7, Zenon DEF ItemRead, y
<1>12. x > 247 => ItemRead(buf, i, x - 246, Long(x - 247))
  BY <1>6, <1>7, Zenon DEF ItemRead, y
<1> QED
  BY <1>8, <1>9, <1>10, <1>11, <1>12, Zenon

\* A string is read as it was written, and what follows it begins where it ends.
LEMMA RlpItemRead ==
  ASSUME NEW f \in Seq(Nat), Fits(Len(f), 8)
  PROVE  LET w == Chain!RlpBytes(f)
         IN  /\ w \in Seq(Nat) /\ Len(w) \in Nat /\ Len(w) >= 1
             /\ \A buf \in Seq(Nat), i \in Nat : Reads(buf, i, w) =>
                  /\ Chain!RlpItem(buf, i).bytes = f
                  /\ Chain!RlpItem(buf, i).next = i + Len(w)
<1> DEFINE w == Chain!RlpBytes(f)
           d == Digits(Len(f), 256)
           small == Len(f) = 1 /\ f[1] < 128
<1>1. w = CASE small -> f
            [] Len(f) <= 55 /\ ~small -> <<128 + Len(f)>> \o f
            [] OTHER -> <<183 + Len(d)>> \o d \o f
  BY ChainBytes DEF Chain!RlpBytes
<1>2. Len(f) \in Nat
  OBVIOUS
<1> HIDE DEF w
<1>3. CASE small
  <2>1. w = f /\ Len(f) = 1 /\ f[1] < 128 /\ 1 \in 1..Len(f)
    BY <1>1, <1>3
  <2>2. PICK x \in Nat : x = f[1] /\ x < 128
    <3>1. PICK k \in 1..Len(f) : k = 1
      BY <2>1
    <3>2. f[k] \in Nat
      BY ElementOfSeq
    <3> QED
      BY <2>1, <3>1, <3>2
  <2>3. ASSUME NEW buf \in Seq(Nat), NEW i \in Nat, Reads(buf, i, w)
        PROVE  /\ Chain!RlpItem(buf, i).bytes = f
               /\ Chain!RlpItem(buf, i).next = i + Len(w)
    <3>1. x = buf[i]
      <4>1. buf[i - 1 + 1] = f[1]
        BY <2>1, <2>3 DEF Reads
      <4> QED
        BY <2>2, <4>1
    <3>2. ItemRead(buf, i, 0, 1)
      BY <2>2, <3>1, ItemIs DEF StartsWith
    <3>3. Slice(buf, i, Len(f)) = f
      BY <2>1, <2>3, ReadsSlice
    <3>4. Slice(buf, i + 0, 1) = f
      BY <2>1, <3>3
    <3>5. i + 0 + 1 = i + Len(w)
      BY <2>1
    <3> QED
      BY <3>2, <3>4, <3>5 DEF ItemRead
  <2> QED
    BY <2>1, <2>3 DEF w
<1>4. CASE ~small /\ Len(f) <= 55
  <2> DEFINE h == <<128 + Len(f)>>
  <2>1. Joined(h, f, w)
    BY <1>1, <1>4 DEF Joined
  <2>2. h \in Seq(Nat) /\ Len(h) = 1
    <3>1. 128 + Len(f) \in Nat
      BY <1>2
    <3> QED
      BY <3>1
  <2>3. PICK x \in Nat : x = 128 + Len(f) /\ 128 <= x /\ x <= 183 /\ x - 128 = Len(f)
    BY <1>2, <1>4
  <2> HIDE DEF h
  <2>4. w \in Seq(Nat) /\ Len(w) = Len(f) + 1
    <3>1. h \in Seq(Nat) /\ f \in Seq(Nat) /\ Joined(h, f, w)
      BY <2>1, <2>2
    <3>2. w \in Seq(Nat) /\ Len(w) = Len(h) + Len(f)
      BY <3>1, ReadsWritten
    <3> QED
      BY <1>2, <2>2, <3>2
  <2>5. ASSUME NEW buf \in Seq(Nat), NEW i \in Nat, Reads(buf, i, w)
        PROVE  /\ Chain!RlpItem(buf, i).bytes = f
               /\ Chain!RlpItem(buf, i).next = i + Len(w)
    <3>1. Reads(buf, i, h) /\ Reads(buf, i + Len(h), f)
      BY <2>1, <2>2, <2>5, ReadsParts
    <3>2. x = buf[i]
      BY <2>3, <3>1, ReadsOne DEF h
    <3>3. ItemRead(buf, i, 1, x - 128)
      <4>1. StartsWith(buf, i, x)
        BY <2>3, <3>2 DEF StartsWith
      <4> QED
        BY <2>3, <4>1, ItemIs
    <3>4. Slice(buf, i + 1, Len(f)) = f
      <4>1. PICK k \in Nat : k = i + 1 /\ k = i + Len(h)
        BY <2>2
      <4>2. Reads(buf, k, f)
        BY <3>1, <4>1
      <4>3. Slice(buf, k, Len(f)) = f
        BY <4>2, ReadsSlice
      <4> QED
        BY <4>1, <4>3
    <3>5. i + 1 + Len(f) = i + Len(w)
      BY <1>2, <2>4
    <3> QED
      BY <2>3, <3>3, <3>4, <3>5 DEF ItemRead
  <2> QED
    BY <1>2, <2>4, <2>5 DEF w
<1>5. CASE ~small /\ ~(Len(f) <= 55)
  <2>1. PICK base \in Nat : base = 183
    OBVIOUS
  <2>2. LongForm(base, f, w)
    BY <1>1, <1>5, <2>1 DEF LongForm
  <2>3. /\ Len(d) \in Nat /\ w \in Seq(Nat) /\ Len(w) = 1 + Len(d) + Len(f)
        /\ \A buf \in Seq(Nat) : \A i : Reads(buf, i, w) =>
             /\ buf[i] = base + Len(d)
             /\ ValueOf(Slice(buf, i + 1, Len(d)), 256) = Len(f)
             /\ Slice(buf, i + (Len(d) + 1), Len(f)) = f
    BY <2>2, LongRead
  <2>4. Len(d) >= 1 /\ Len(d) <= 8
    <3>1. Len(f) # 0
      BY <1>5
    <3>2. Len(d) > 0
      BY <1>2, <3>1, DigitsNonempty
    <3> QED
      BY <2>3, <3>2 DEF Fits
  <2> HIDE DEF d
  <2>5. PICK x \in Nat : /\ x = base + Len(d) /\ 184 <= x /\ x <= 191
                         /\ x - 183 = Len(d) /\ x - 182 = Len(d) + 1
    BY <2>1, <2>3, <2>4
  <2>6. ASSUME NEW buf \in Seq(Nat), NEW i \in Nat, Reads(buf, i, w)
        PROVE  /\ Chain!RlpItem(buf, i).bytes = f
               /\ Chain!RlpItem(buf, i).next = i + Len(w)
    <3>1. /\ x = buf[i]
          /\ ValueOf(Slice(buf, i + 1, Len(d)), 256) = Len(f)
          /\ Slice(buf, i + (Len(d) + 1), Len(f)) = f
      BY <2>3, <2>5, <2>6
    <3>2. ItemRead(buf, i, x - 182, ValueOf(Slice(buf, i + 1, x - 183), 256))
      <4>1. StartsWith(buf, i, x)
        BY <2>5, <3>1 DEF StartsWith
      <4> QED
        BY <2>5, <4>1, ItemIs
    <3>3. ItemRead(buf, i, Len(d) + 1, Len(f))
      BY <2>5, <3>1, <3>2
    <3>4. i + (Len(d) + 1) + Len(f) = i + Len(w)
      BY <1>2, <2>3
    <3> QED
      BY <3>1, <3>3, <3>4 DEF ItemRead
  <2>7. w \in Seq(Nat) /\ Len(w) \in Nat /\ Len(w) >= 1
    BY <1>2, <2>3
  <2> QED
    BY <2>6, <2>7 DEF w
<1> QED
  BY <1>3, <1>4, <1>5

Content(items, c) == c = Chain!FlattenSeq(items)

\* So is a list, as the content of what is written.
LEMMA RlpListRead ==
  ASSUME NEW c \in Seq(Nat), Fits(Len(c), 8), NEW items, Content(items, c)
  PROVE  LET w == Chain!RlpList(items)
         IN  w \in Seq(Nat) /\ Chain!RlpItem(w, 1).bytes = c
<1> DEFINE w == Chain!RlpList(items)
           d == Digits(Len(c), 256)
<1>1. w = IF Len(c) <= 55 THEN <<192 + Len(c)>> \o c
          ELSE <<247 + Len(d)>> \o d \o c
  BY ChainBytes DEF Chain!RlpList, Content
<1>2. Len(c) \in Nat
  OBVIOUS
<1> HIDE DEF w
<1>3. PICK one \in Nat : one = 1
  OBVIOUS
<1>4. CASE Len(c) <= 55
  <2> DEFINE h == <<192 + Len(c)>>
  <2>1. Joined(h, c, w)
    BY <1>1, <1>4 DEF Joined
  <2>2. h \in Seq(Nat) /\ Len(h) = 1
    <3>1. 192 + Len(c) \in Nat
      BY <1>2
    <3> QED
      BY <3>1
  <2>3. PICK x \in Nat : x = 192 + Len(c) /\ 192 <= x /\ x <= 247 /\ x - 192 = Len(c)
    BY <1>2, <1>4
  <2> HIDE DEF h
  <2>4. w \in Seq(Nat)
    BY <2>1, <2>2, ReadsWritten
  <2>5. Reads(w, one, w)
    BY <1>3, <2>4, ReadsAll
  <2>6. Reads(w, one, h) /\ Reads(w, one + Len(h), c)
    BY <2>1, <2>2, <2>5, ReadsParts
  <2>7. x = w[one]
    BY <2>3, <2>6, ReadsOne DEF h
  <2>8. ItemRead(w, one, 1, x - 192)
    <3>1. StartsWith(w, one, x)
      BY <2>3, <2>7 DEF StartsWith
    <3> QED
      BY <2>3, <3>1, ItemIs
  <2>9. Slice(w, one + 1, Len(c)) = c
    <3>1. PICK k \in Nat : k = one + 1 /\ k = one + Len(h)
      BY <2>2
    <3>2. Reads(w, k, c)
      BY <2>6, <3>1
    <3>3. Slice(w, k, Len(c)) = c
      BY <2>4, <3>2, ReadsSlice
    <3> QED
      BY <3>1, <3>3
  <2>10. Chain!RlpItem(w, one).bytes = c
    BY <2>3, <2>8, <2>9 DEF ItemRead
  <2> QED
    BY <1>3, <2>4, <2>10 DEF w
<1>5. CASE ~(Len(c) <= 55)
  <2>1. PICK base \in Nat : base = 247
    OBVIOUS
  <2>2. LongForm(base, c, w)
    BY <1>1, <1>5, <2>1 DEF LongForm
  <2>3. /\ Len(d) \in Nat /\ w \in Seq(Nat) /\ Len(w) = 1 + Len(d) + Len(c)
        /\ \A buf \in Seq(Nat) : \A i : Reads(buf, i, w) =>
             /\ buf[i] = base + Len(d)
             /\ ValueOf(Slice(buf, i + 1, Len(d)), 256) = Len(c)
             /\ Slice(buf, i + (Len(d) + 1), Len(c)) = c
    BY <2>2, LongRead
  <2>4. Len(d) >= 1
    <3>1. Len(c) # 0
      BY <1>5
    <3>2. Len(d) > 0
      BY <1>2, <3>1, DigitsNonempty
    <3> QED
      BY <2>3, <3>2
  <2> HIDE DEF d
  <2>5. PICK x \in Nat : /\ x = base + Len(d) /\ x > 247
                         /\ x - 247 = Len(d) /\ x - 246 = Len(d) + 1
    BY <2>1, <2>3, <2>4
  <2>6. Reads(w, one, w)
    BY <1>3, <2>3, ReadsAll
  <2>7. /\ x = w[one]
        /\ ValueOf(Slice(w, one + 1, Len(d)), 256) = Len(c)
        /\ Slice(w, one + (Len(d) + 1), Len(c)) = c
    <3>1. /\ w[one] = base + Len(d)
          /\ ValueOf(Slice(w, one + 1, Len(d)), 256) = Len(c)
          /\ Slice(w, one + (Len(d) + 1), Len(c)) = c
      BY <2>3, <2>6, Zenon
    <3> QED
      BY <2>5, <3>1
  <2>8. ItemRead(w, one, x - 246, ValueOf(Slice(w, one + 1, x - 247), 256))
    <3>1. StartsWith(w, one, x)
      BY <2>5, <2>7 DEF StartsWith
    <3> QED
      BY <2>5, <3>1, ItemIs
  <2>9. Chain!RlpItem(w, one).bytes = c
    BY <2>5, <2>7, <2>8 DEF ItemRead
  <2> QED
    BY <1>3, <2>3, <2>9 DEF w
<1> QED
  BY <1>4, <1>5

\* A string that is written is not shorter, and not empty.
LEMMA RlpShape ==
  ASSUME NEW f \in Seq(Nat)
  PROVE  LET w == Chain!RlpBytes(f)
         IN  w \in Seq(Nat) /\ Len(w) \in Nat /\ Len(w) >= 1 /\ Len(w) >= Len(f)
<1> DEFINE w == Chain!RlpBytes(f)
           d == Digits(Len(f), 256)
           small == Len(f) = 1 /\ f[1] < 128
<1>1. w = CASE small -> f
            [] Len(f) <= 55 /\ ~small -> <<128 + Len(f)>> \o f
            [] OTHER -> <<183 + Len(d)>> \o d \o f
  BY ChainBytes DEF Chain!RlpBytes
<1>2. Len(f) \in Nat
  OBVIOUS
<1> HIDE DEF w
<1>3. CASE small
  <2>1. w = f /\ Len(f) = 1
    BY <1>1, <1>3
  <2> QED
    BY <2>1 DEF w
<1>4. CASE ~small /\ Len(f) <= 55
  <2> DEFINE h == <<128 + Len(f)>>
  <2>1. Joined(h, f, w)
    BY <1>1, <1>4 DEF Joined
  <2>2. h \in Seq(Nat) /\ Len(h) = 1
    <3>1. 128 + Len(f) \in Nat
      BY <1>2
    <3> QED
      BY <3>1
  <2> HIDE DEF h
  <2>3. h \in Seq(Nat) /\ f \in Seq(Nat) /\ Joined(h, f, w)
    BY <2>1, <2>2
  <2>4. w \in Seq(Nat) /\ Len(w) = Len(h) + Len(f)
    BY <2>3, ReadsWritten
  <2>5. w \in Seq(Nat) /\ Len(w) \in Nat /\ Len(w) >= 1 /\ Len(w) >= Len(f)
    BY <1>2, <2>2, <2>4
  <2> QED
    BY <2>5 DEF w
<1>5. CASE ~small /\ ~(Len(f) <= 55)
  <2>1. PICK base \in Nat : base = 183
    OBVIOUS
  <2>2. LongForm(base, f, w)
    BY <1>1, <1>5, <2>1 DEF LongForm
  <2>3. /\ Len(d) \in Nat /\ w \in Seq(Nat) /\ Len(w) = 1 + Len(d) + Len(f)
        /\ \A buf \in Seq(Nat) : \A i : Reads(buf, i, w) =>
             /\ buf[i] = base + Len(d)
             /\ ValueOf(Slice(buf, i + 1, Len(d)), 256) = Len(f)
             /\ Slice(buf, i + (Len(d) + 1), Len(f)) = f
    BY <2>2, LongRead
  <2>4. w \in Seq(Nat) /\ Len(w) \in Nat /\ Len(w) >= 1 /\ Len(w) >= Len(f)
    BY <1>2, <2>3
  <2> QED
    BY <2>4 DEF w
<1> QED
  BY <1>3, <1>4, <1>5

IsFlat(g, s) == g = [i \in 1..Len(s) |-> IF i = 1 THEN s[i] ELSE g[i - 1] \o s[i]]

LEMMA FlatExists ==
  ASSUME NEW s \in Seq(Seq(Nat))
  PROVE  \E g \in [1..Len(s) -> Seq(Nat)] : IsFlat(g, s)
<1> DEFINE D == 1..Len(s)
           V == Seq(Nat)
           stop == {1}
           rank == [i \in D |-> i]
           next == [i \in D |-> IF i = 1 THEN 1 ELSE i - 1]
           start == [i \in D |-> s[i]]
           step == [p \in D \X V |-> p[2] \o s[p[1]]]
<1>1. Len(s) \in Nat /\ \A i \in D : i \in Nat /\ (i # 1 => i - 1 \in D)
  OBVIOUS
<1>2. \A i \in D : s[i] \in V
  BY ElementOfSeq
<1>3. \A i \in D, v \in V : v \o s[i] \in V
  BY <1>2, ConcatProperties
<1>4. \A i \in D, v \in V : step[<<i, v>>] = v \o s[i]
  OBVIOUS
<1>5. /\ rank \in [D -> Nat]
      /\ \A i \in D : rank[i] = i /\ start[i] = s[i] /\ (i # 1 => next[i] = i - 1)
  BY <1>1
<1> HIDE DEF D, V, rank, next, start, step
<1>6. ASSUME NEW i \in D \ stop PROVE next[i] \in D /\ rank[next[i]] < rank[i]
  <2>1. i # 1 /\ next[i] = i - 1 /\ i - 1 \in D /\ i \in Nat
    BY <1>1, <1>5
  <2>2. rank[i] = i /\ rank[i - 1] = i - 1
    BY <1>5, <2>1
  <2> QED
    BY <2>1, <2>2
<1>7. \A i \in D \ stop, v \in V : step[<<i, v>>] \in V
  BY <1>3, <1>4
<1>8. Decreasing(D, V, stop, next, start, step, rank)
  BY <1>2, <1>5, <1>6, <1>7 DEF Decreasing
<1>9. PICK g \in [D -> V] : \A i \in D :
        g[i] = IF i \in stop THEN start[i] ELSE step[<<i, g[next[i]]>>]
  BY <1>8, Recursion
<1>10. ASSUME NEW i \in D PROVE g[i] = IF i = 1 THEN s[i] ELSE g[i - 1] \o s[i]
  <2>1. CASE i = 1
    BY <1>5, <1>9, <2>1
  <2>2. CASE i # 1
    <3>1. next[i] = i - 1 /\ i - 1 \in D /\ i \in D \ stop
      BY <1>1, <1>5, <2>2
    <3>2. g[i - 1] \in V
      BY <1>9, <3>1
    <3>3. step[<<i, g[i - 1]>>] = g[i - 1] \o s[i]
      BY <1>4, <3>2
    <3> QED
      BY <1>9, <2>2, <3>1, <3>3
  <2> QED
    BY <2>1, <2>2
<1>11. g = [i \in D |-> IF i = 1 THEN s[i] ELSE g[i - 1] \o s[i]]
  BY <1>9, <1>10
<1> QED
  BY <1>9, <1>11 DEF IsFlat, D, V

\* Where the k-th of the sequences that g joins begins.
Begins(g, k) == IF k = 1 THEN 1 ELSE Len(g[k - 1]) + 1

LEMMA FlatTyped ==
  ASSUME NEW s \in Seq(Seq(Nat)), NEW g, IsFlat(g, s)
  PROVE  \A m \in 1..Len(s) :
           /\ g[m] \in Seq(Nat) /\ Len(g[m]) \in Nat
           /\ Len(g[m]) = Begins(g, m) - 1 + Len(s[m])
           /\ \A k \in 1..m : Reads(g[m], Begins(g, k), s[k])
<1> DEFINE Good(m) == /\ g[m] \in Seq(Nat) /\ Len(g[m]) \in Nat
                      /\ Len(g[m]) = Begins(g, m) - 1 + Len(s[m])
                      /\ \A k \in 1..m : Reads(g[m], Begins(g, k), s[k])
           S == {n \in Nat : n + 1 \in 1..Len(s) => Good(n + 1)}
<1>0. Len(s) \in Nat /\ \A m \in 1..Len(s) : s[m] \in Seq(Nat)
  BY ElementOfSeq
<1>1. \A m \in 1..Len(s) : g[m] = IF m = 1 THEN s[m] ELSE g[m - 1] \o s[m]
  BY Zenon DEF IsFlat
<1>2. 0 \in S
  <2>1. SUFFICES ASSUME NEW m, m = 1, m \in 1..Len(s) PROVE Good(m)
    OBVIOUS
  <2>2. g[m] = s[m] /\ s[m] \in Seq(Nat)
    BY <1>0, <1>1, <2>1
  <2>3. Len(s[m]) \in Nat /\ Begins(g, m) = 1
    BY <2>1, <2>2 DEF Begins
  <2>4. Reads(g[m], Begins(g, m), s[m])
    BY <2>2, <2>3 DEF Reads
  <2>5. \A k \in 1..m : k = m
    BY <2>1
  <2> QED
    BY <2>2, <2>3, <2>4, <2>5
<1>3. ASSUME NEW n \in Nat, n \in S PROVE n + 1 \in S
  <2>1. SUFFICES ASSUME (n + 1) + 1 \in 1..Len(s) PROVE Good((n + 1) + 1)
    OBVIOUS
  <2>2. PICK m \in Nat : m = n + 1
    OBVIOUS
  <2>3. PICK p \in Nat : p = m + 1 /\ p = (n + 1) + 1
    BY <2>2
  <2>4. m \in 1..Len(s) /\ p \in 1..Len(s) /\ p # 1 /\ p - 1 = m
    BY <1>0, <2>1, <2>2, <2>3
  <2>5. Good(m)
    BY <1>3, <2>2, <2>4
  <2>6. g[p] = g[m] \o s[p] /\ s[p] \in Seq(Nat)
    BY <1>0, <1>1, <2>4
  <2>7. Joined(g[m], s[p], g[p]) /\ g[m] \in Seq(Nat)
    BY <2>5, <2>6 DEF Joined
  <2>8. /\ g[p] \in Seq(Nat) /\ Len(g[p]) = Len(g[m]) + Len(s[p])
        /\ Len(g[m]) \in Nat /\ Len(s[p]) \in Nat
        /\ Reads(g[p], Len(g[m]) + 1, s[p])
        /\ \A from, t : Reads(g[m], from, t) => Reads(g[p], from, t)
    BY <2>6, <2>7, ReadsWritten, Zenon
  <2>9. Begins(g, p) = Len(g[m]) + 1
    BY <2>4 DEF Begins
  <2>10. \A k \in 1..p : Reads(g[p], Begins(g, k), s[k])
    <3> SUFFICES ASSUME NEW k \in 1..p PROVE Reads(g[p], Begins(g, k), s[k])
      OBVIOUS
    <3>1. CASE k = p
      BY <2>8, <2>9, <3>1
    <3>2. CASE k # p
      <4>1. k \in 1..m
        BY <2>3, <3>2
      <4>2. Reads(g[m], Begins(g, k), s[k])
        BY <2>5, <4>1
      <4> QED
        BY <2>8, <4>2
    <3> QED
      BY <3>1, <3>2
  <2>11. Len(g[p]) \in Nat /\ Len(g[p]) = Begins(g, p) - 1 + Len(s[p])
    <3>1. PICK x, y \in Nat : x = Len(g[m]) /\ y = Len(s[p])
      BY <2>8
    <3>2. Len(g[p]) = x + y /\ Begins(g, p) = x + 1
      BY <2>8, <2>9, <3>1
    <3>3. x + y \in Nat /\ x + y = (x + 1) - 1 + y
      OBVIOUS
    <3> QED
      BY <3>1, <3>2, <3>3
  <2>12. Good(p)
    BY <2>8, <2>10, <2>11
  <2> HIDE DEF Good
  <2> QED
    BY <2>3, <2>12
<1> HIDE DEF S
<1>4. \A n \in Nat : n \in S
  BY <1>2, <1>3, Inductive
<1>5. ASSUME NEW m \in 1..Len(s) PROVE Good(m)
  <2>1. PICK n \in Nat : n = m - 1 /\ n + 1 = m
    BY <1>0
  <2>2. n \in S
    BY <1>4
  <2> HIDE DEF Good
  <2> QED
    BY <2>1, <2>2 DEF S
<1> QED
  BY <1>5

LEMMA FlattenIs ==
  ASSUME NEW s \in Seq(Seq(Nat)), Len(s) # 0
  PROVE  \E g : IsFlat(g, s) /\ Chain!FlattenSeq(s) = g[Len(s)]
<1> DEFINE f == CHOOSE g : IsFlat(g, s)
<1>1. IsFlat(f, s)
  BY FlatExists
<1>2. Chain!FlattenSeq(s) = f[Len(s)]
  BY Zenon DEF Chain!FlattenSeq, IsFlat
<1> QED
  BY <1>1, <1>2

\* The reader goes through the items of a body.
Ends(body, i) ==
  \/ i > Len(body)
  \/ Chain!RlpItem(body, i).next \notin (i + 1)..(Len(body) + 1)

IsReader(F, body) ==
  F = [i \in Nat |->
         IF \/ i > Len(body)
            \/ Chain!RlpItem(body, i).next \notin (i + 1)..(Len(body) + 1)
         THEN <<>>
         ELSE <<Chain!RlpItem(body, i).bytes>> \o F[Chain!RlpItem(body, i).next]]

LEMMA ReaderExists ==
  ASSUME NEW body, Len(body) \in Nat
  PROVE  \E F : IsReader(F, body)
<1> DEFINE D == Nat
           T == {Chain!RlpItem(body, i).bytes : i \in Nat}
           V == Seq(T)
           stop == {i \in Nat : Ends(body, i)}
           rank == [i \in Nat |-> IF i <= Len(body) THEN Len(body) + 1 - i ELSE 0]
           next == [i \in Nat |-> Chain!RlpItem(body, i).next]
           start == [i \in Nat |-> <<>>]
           step == [p \in Nat \X V |-> <<Chain!RlpItem(body, p[1]).bytes>> \o p[2]]
<1>1. rank \in [Nat -> Nat]
  OBVIOUS
<1>2. ASSUME NEW i \in Nat \ stop PROVE next[i] \in Nat /\ rank[next[i]] < rank[i]
  <2>1. i \in Nat /\ ~Ends(body, i)
    OBVIOUS
  <2>2. i <= Len(body) /\ Chain!RlpItem(body, i).next \in (i + 1)..(Len(body) + 1)
    BY <2>1 DEF Ends
  <2>3. PICK n \in Nat : n = next[i] /\ i + 1 <= n /\ n <= Len(body) + 1
    BY <2>2
  <2>4. rank[i] = Len(body) + 1 - i
    BY <2>2
  <2>5. rank[n] = IF n <= Len(body) THEN Len(body) + 1 - n ELSE 0
    OBVIOUS
  <2> HIDE DEF rank, next
  <2>6. rank[n] < rank[i]
    BY <2>2, <2>3, <2>4, <2>5
  <2> QED
    BY <2>3, <2>6
<1>3. <<>> \in V
  BY EmptySeq
<1>4. ASSUME NEW i \in Nat, NEW v \in V PROVE <<Chain!RlpItem(body, i).bytes>> \o v \in V
  <2>1. PICK x \in T : x = Chain!RlpItem(body, i).bytes
    OBVIOUS
  <2>2. <<x>> \in Seq(T)
    <3> HIDE DEF T
    <3> QED
      OBVIOUS
  <2> HIDE DEF T
  <2>3. <<x>> \o v \in Seq(T)
    BY <2>2, ConcatProperties
  <2> QED
    BY <2>1, <2>3
<1>5. \A i \in Nat, v \in V : step[<<i, v>>] = <<Chain!RlpItem(body, i).bytes>> \o v
  OBVIOUS
<1>6. \A i \in Nat : start[i] = <<>> /\ next[i] = Chain!RlpItem(body, i).next
  OBVIOUS
<1> HIDE DEF V, rank, next, start, step
<1>7. \A i \in Nat \ stop, v \in V : step[<<i, v>>] \in V
  BY <1>4, <1>5
<1>8. Decreasing(D, V, stop, next, start, step, rank)
  <2> HIDE DEF stop, D
  <2>1. \A i \in D : start[i] \in V
    BY <1>3, <1>6 DEF D
  <2>2. \A i \in D \ stop : next[i] \in D /\ rank[next[i]] < rank[i]
    BY <1>2 DEF D
  <2>3. rank \in [D -> Nat]
    BY <1>1 DEF D
  <2>4. \A i \in D \ stop, v \in V : step[<<i, v>>] \in V
    BY <1>7 DEF D
  <2> QED
    BY <2>1, <2>2, <2>3, <2>4 DEF Decreasing
<1>9. PICK F \in [D -> V] : \A i \in D :
        F[i] = IF i \in stop THEN start[i] ELSE step[<<i, F[next[i]]>>]
  <2> HIDE DEF D, stop
  <2> QED
    BY <1>8, Recursion
<1>10. ASSUME NEW i \in Nat
       PROVE  F[i] = IF Ends(body, i) THEN <<>>
                     ELSE <<Chain!RlpItem(body, i).bytes>> \o F[Chain!RlpItem(body, i).next]
  <2>1. CASE Ends(body, i)
    <3>1. i \in stop
      BY <2>1
    <3> QED
      BY <1>6, <1>9, <2>1, <3>1
  <2>2. CASE ~Ends(body, i)
    <3>1. i \in Nat \ stop
      BY <2>2
    <3>2. next[i] \in Nat /\ next[i] = Chain!RlpItem(body, i).next
      BY <1>2, <1>6, <3>1
    <3>3. F[next[i]] \in V
      BY <1>9, <3>2
    <3>4. F[i] = step[<<i, F[next[i]]>>]
      BY <1>9, <3>1
    <3>5. step[<<i, F[next[i]]>>] = <<Chain!RlpItem(body, i).bytes>> \o F[next[i]]
      BY <1>5, <3>3
    <3> QED
      BY <2>2, <3>2, <3>4, <3>5
  <2> QED
    BY <2>1, <2>2
<1>11. F = [i \in Nat |-> IF Ends(body, i) THEN <<>>
                          ELSE <<Chain!RlpItem(body, i).bytes>> \o F[Chain!RlpItem(body, i).next]]
  BY <1>9, <1>10
<1>12. IsReader(F, body)
  BY <1>11, Zenon DEF IsReader, Ends
<1> QED
  BY <1>12

ListBody(buf, body) == body = Chain!RlpItem(buf, 1).bytes /\ Len(body) \in Nat

\* F is what the reader of buf makes of its body from each place on.
FieldsFrom(F, buf, body) ==
  /\ Chain!RlpFields(buf) = F[1]
  /\ \A i \in Nat :
       F[i] = IF Ends(body, i) THEN <<>>
              ELSE <<Chain!RlpItem(body, i).bytes>> \o F[Chain!RlpItem(body, i).next]

LEMMA FieldsAre ==
  ASSUME NEW buf, NEW body, ListBody(buf, body)
  PROVE  \E F : FieldsFrom(F, buf, body)
<1> DEFINE f == CHOOSE F : IsReader(F, body)
<1>1. IsReader(f, body)
  BY ReaderExists DEF ListBody
<1>2. Chain!RlpFields(buf) = f[1]
  BY Zenon DEF Chain!RlpFields, IsReader, ListBody
<1>3. \A i \in Nat :
        f[i] = IF Ends(body, i) THEN <<>>
               ELSE <<Chain!RlpItem(body, i).bytes>> \o f[Chain!RlpItem(body, i).next]
  <2> HIDE DEF f
  <2> QED
    BY <1>1, Zenon DEF IsReader, Ends
<1> QED
  BY <1>2, <1>3 DEF FieldsFrom

\* The strings that are written, and where each begins.
Written(fields) == [i \in DOMAIN fields |-> Chain!RlpBytes(fields[i])]

\* The reader finds them all, in a body that is a sequence g joins.
LEMMA BodyRead ==
  ASSUME NEW fields \in Seq(Seq(Nat)), Len(fields) # 0,
         \A k \in 1..Len(fields) : Fits(Len(fields[k]), 8),
         NEW g, IsFlat(g, Written(fields)), NEW body, body = g[Len(fields)],
         NEW F, \A i \in Nat :
                  F[i] = IF Ends(body, i) THEN <<>>
                         ELSE <<Chain!RlpItem(body, i).bytes>>
                                \o F[Chain!RlpItem(body, i).next]
  PROVE  F[1] = fields
<1> DEFINE s == Written(fields)
           N == Len(fields)
           at(k) == Begins(g, k)
<1>1. N \in Nat /\ N >= 1
  OBVIOUS
<1>2. \A k \in 1..N : fields[k] \in Seq(Nat) /\ Fits(Len(fields[k]), 8)
  BY ElementOfSeq
<1>3. Len(s) = N /\ \A k \in 1..N : s[k] = Chain!RlpBytes(fields[k])
  BY DEF Written
<1>4. s \in Seq(Seq(Nat))
  <2>1. \A k \in 1..N : Chain!RlpBytes(fields[k]) \in Seq(Nat)
    BY <1>2, RlpShape
  <2>2. DOMAIN fields = 1..N
    OBVIOUS
  <2>3. s = [i \in 1..N |-> Chain!RlpBytes(fields[i])]
    BY <2>2 DEF Written
  <2> HIDE DEF s, N
  <2>4. s \in Seq(Seq(Nat))
    BY <1>1, <2>1, <2>3
  <2> QED
    BY <2>4
<1>5. \A m \in 1..N :
        /\ g[m] \in Seq(Nat) /\ Len(g[m]) \in Nat
        /\ Len(g[m]) = at(m) - 1 + Len(s[m])
        /\ \A k \in 1..m : Reads(g[m], at(k), s[k])
  <2> HIDE DEF s, at
  <2>1. s \in Seq(Seq(Nat)) /\ IsFlat(g, s)
    BY <1>4 DEF s
  <2> QED
    BY <1>3, <2>1, FlatTyped DEF at
<1>6. N \in 1..N
  BY <1>1
<1>7. body \in Seq(Nat) /\ Len(body) \in Nat /\ \A k \in 1..N : Reads(body, at(k), s[k])
  BY <1>5, <1>6
<1>8. ASSUME NEW k \in 1..N
      PROVE  /\ at(k) \in Nat /\ at(k + 1) \in Nat
             /\ F[at(k)] = <<fields[k]>> \o F[at(k + 1)]
             /\ at(N + 1) = Len(body) + 1
  <2>1. /\ s[k] = Chain!RlpBytes(fields[k]) /\ Len(s[k]) \in Nat /\ Len(s[k]) >= 1
        /\ fields[k] \in Seq(Nat) /\ Fits(Len(fields[k]), 8)
    <3>1. fields[k] \in Seq(Nat) /\ Fits(Len(fields[k]), 8)
      BY <1>2
    <3> QED
      BY <1>3, <3>1, RlpShape
  <2>2. Reads(body, at(k), s[k])
    BY <1>7
  <2>3. at(k) \in Nat \ {0} /\ at(k) - 1 + Len(s[k]) <= Len(body)
    BY <2>2 DEF Reads
  <2>4. /\ Chain!RlpItem(body, at(k)).bytes = fields[k]
        /\ Chain!RlpItem(body, at(k)).next = at(k) + Len(s[k])
    <3>1. PICK i \in Nat : i = at(k)
      BY <2>3
    <3>2. body \in Seq(Nat) /\ Reads(body, i, Chain!RlpBytes(fields[k]))
      BY <1>7, <2>1, <2>2, <3>1
    <3>3. /\ Chain!RlpItem(body, i).bytes = fields[k]
          /\ Chain!RlpItem(body, i).next = i + Len(Chain!RlpBytes(fields[k]))
      BY <2>1, <3>2, RlpItemRead
    <3> QED
      BY <2>1, <3>1, <3>3
  <2>5. at(k) + Len(s[k]) = at(k + 1)
    <3>1. Len(g[k]) = at(k) - 1 + Len(s[k])
      BY <1>5
    <3>2. at(k + 1) = Len(g[k]) + 1
      <4>1. k + 1 # 1 /\ (k + 1) - 1 = k
        OBVIOUS
      <4> QED
        BY <4>1 DEF Begins
    <3> HIDE DEF at
    <3> QED
      BY <2>1, <2>3, <3>1, <3>2
  <2>6. at(N + 1) = Len(body) + 1
    <3>1. N + 1 # 1 /\ (N + 1) - 1 = N
      BY <1>1
    <3> QED
      BY <3>1 DEF Begins
  <2>7. ~Ends(body, at(k))
    <3>1. PICK i, n \in Nat : i = at(k) /\ n = Len(s[k])
      BY <2>1, <2>3
    <3>2. Chain!RlpItem(body, i).next = i + n /\ n >= 1 /\ i - 1 + n <= Len(body)
      BY <2>1, <2>3, <2>4, <3>1
    <3> HIDE DEF at
    <3>3. i <= Len(body) /\ i + n \in (i + 1)..(Len(body) + 1)
      BY <1>7, <3>2
    <3>4. ~Ends(body, i)
      BY <1>7, <3>2, <3>3 DEF Ends
    <3> QED
      BY <3>1, <3>4
  <2> HIDE DEF at
  <2>8. F[at(k)] = <<Chain!RlpItem(body, at(k)).bytes>> \o F[Chain!RlpItem(body, at(k)).next]
    BY <2>3, <2>7
  <2>9. at(k + 1) \in Nat
    BY <2>1, <2>3, <2>5
  <2> QED
    BY <2>3, <2>4, <2>5, <2>6, <2>8, <2>9
<1> DEFINE left(n) == SubSeq(fields, N + 1 - n, N)
           S == {n \in Nat : n <= N => F[at(N + 1 - n)] = left(n)}
<1> HIDE DEF s, at
<1>9. 0 \in S
  <2>1. at(N + 1) = Len(body) + 1
    BY <1>6, <1>8
  <2>2. Ends(body, Len(body) + 1) /\ Len(body) + 1 \in Nat
    BY <1>7 DEF Ends
  <2>3. F[Len(body) + 1] = <<>>
    BY <2>2
  <2>4. SubSeq(fields, N + 1, N) = <<>>
    BY <1>1
  <2>5. N + 1 - 0 = N + 1
    BY <1>1
  <2> QED
    BY <2>1, <2>3, <2>4, <2>5
<1>10. ASSUME NEW n \in Nat, n \in S PROVE n + 1 \in S
  <2>1. SUFFICES ASSUME n + 1 <= N PROVE F[at(N + 1 - (n + 1))] = left(n + 1)
    OBVIOUS
  <2> DEFINE k == N - n
  <2>2. k \in 1..N /\ k = N + 1 - (n + 1) /\ k + 1 = N + 1 - n
    BY <1>1, <2>1
  <2> HIDE DEF k
  <2>3. F[at(k + 1)] = SubSeq(fields, k + 1, N)
    <3>1. n <= N => F[at(N + 1 - n)] = SubSeq(fields, N + 1 - n, N)
      BY <1>10
    <3>2. n <= N
      BY <1>1, <2>1
    <3>3. F[at(N + 1 - n)] = SubSeq(fields, N + 1 - n, N)
      BY <3>1, <3>2
    <3> QED
      BY <2>2, <3>3
  <2>4. F[at(k)] = <<fields[k]>> \o SubSeq(fields, k + 1, N)
    <3>1. F[at(k)] = <<fields[k]>> \o F[at(k + 1)]
      BY <1>8, <2>2
    <3> QED
      BY <2>3, <3>1
  <2>5. SubSeq(fields, k, N) = <<fields[k]>> \o SubSeq(fields, k + 1, N)
    <3>1. k \in 1..Len(fields) /\ N \in k..Len(fields)
      BY <1>1, <2>2
    <3> QED
      BY <3>1, SubSeqRecursiveFirst
  <2> QED
    BY <2>2, <2>4, <2>5
<1> HIDE DEF S
<1>11. \A n \in Nat : n \in S
  BY <1>9, <1>10, Inductive
<1>12. F[at(N + 1 - N)] = SubSeq(fields, N + 1 - N, N)
  <2>1. N \in S
    BY <1>1, <1>11
  <2> QED
    BY <1>1, <2>1 DEF S
<1>13. N + 1 - N = 1 /\ at(1) = 1
  <2>1. N + 1 - N = 1
    BY <1>1
  <2> QED
    BY <2>1 DEF at, Begins
<1>14. SubSeq(fields, 1, N) = fields
  OBVIOUS
<1> QED
  BY <1>12, <1>13, <1>14

\* What is joined are bytes, too, and a list is not shorter than its content.
LEMMA FlattenTyped ==
  ASSUME NEW s \in Seq(Seq(Nat))
  PROVE  Chain!FlattenSeq(s) \in Seq(Nat)
<1>1. CASE Len(s) = 0
  <2>1. Chain!FlattenSeq(s) = s
    BY <1>1 DEF Chain!FlattenSeq
  <2>2. s = <<>>
    BY <1>1, EmptySeq
  <2>3. <<>> \in Seq(Nat)
    BY EmptySeq
  <2> QED
    BY <2>1, <2>2, <2>3
<1>2. CASE Len(s) # 0
  <2>1. PICK g : IsFlat(g, s) /\ Chain!FlattenSeq(s) = g[Len(s)]
    BY <1>2, FlattenIs
  <2>2. PICK m \in 1..Len(s) : m = Len(s)
    BY <1>2
  <2>3. g[m] \in Seq(Nat)
    BY <2>1, FlatTyped
  <2> QED
    BY <2>1, <2>2, <2>3
<1> QED
  BY <1>1, <1>2

LEMMA ListShape ==
  ASSUME NEW c \in Seq(Nat), NEW items, Content(items, c)
  PROVE  LET w == Chain!RlpList(items)
         IN  w \in Seq(Nat) /\ Len(w) \in Nat /\ Len(c) <= Len(w)
<1> DEFINE w == Chain!RlpList(items)
           d == Digits(Len(c), 256)
<1>1. w = IF Len(c) <= 55 THEN <<192 + Len(c)>> \o c
          ELSE <<247 + Len(d)>> \o d \o c
  BY ChainBytes DEF Chain!RlpList, Content
<1>2. Len(c) \in Nat
  OBVIOUS
<1> HIDE DEF w
<1>3. CASE Len(c) <= 55
  <2> DEFINE h == <<192 + Len(c)>>
  <2>1. Joined(h, c, w)
    BY <1>1, <1>3 DEF Joined
  <2>2. h \in Seq(Nat) /\ Len(h) = 1
    <3>1. 192 + Len(c) \in Nat
      BY <1>2
    <3> QED
      BY <3>1
  <2> HIDE DEF h
  <2>3. h \in Seq(Nat) /\ c \in Seq(Nat) /\ Joined(h, c, w)
    BY <2>1, <2>2
  <2>4. w \in Seq(Nat) /\ Len(w) = Len(h) + Len(c)
    BY <2>3, ReadsWritten
  <2>5. w \in Seq(Nat) /\ Len(w) \in Nat /\ Len(c) <= Len(w)
    BY <1>2, <2>2, <2>4
  <2> QED
    BY <2>5 DEF w
<1>4. CASE ~(Len(c) <= 55)
  <2>1. PICK base \in Nat : base = 247
    OBVIOUS
  <2>2. LongForm(base, c, w)
    BY <1>1, <1>4, <2>1 DEF LongForm
  <2>3. /\ Len(d) \in Nat /\ w \in Seq(Nat) /\ Len(w) = 1 + Len(d) + Len(c)
        /\ \A buf \in Seq(Nat) : \A i : Reads(buf, i, w) =>
             /\ buf[i] = base + Len(d)
             /\ ValueOf(Slice(buf, i + 1, Len(d)), 256) = Len(c)
             /\ Slice(buf, i + (Len(d) + 1), Len(c)) = c
    BY <2>2, LongRead
  <2>4. w \in Seq(Nat) /\ Len(w) \in Nat /\ Len(c) <= Len(w)
    BY <1>2, <2>3
  <2> QED
    BY <2>4 DEF w
<1> QED
  BY <1>3, <1>4

LEMMA ListTyped ==
  ASSUME NEW items \in Seq(Seq(Nat))
  PROVE  Chain!RlpList(items) \in Seq(Nat)
<1> DEFINE c == Chain!FlattenSeq(items)
<1>1. c \in Seq(Nat) /\ Content(items, c)
  BY FlattenTyped DEF Content
<1> HIDE DEF c
<1> QED
  BY <1>1, ListShape

LEMMA WrittenTyped ==
  ASSUME NEW fields \in Seq(Seq(Nat))
  PROVE  /\ Written(fields) \in Seq(Seq(Nat)) /\ Len(Written(fields)) = Len(fields)
         /\ \A k \in 1..Len(fields) : Written(fields)[k] = Chain!RlpBytes(fields[k])
<1> DEFINE N == Len(fields)
           s == Written(fields)
<1>1. N \in Nat /\ DOMAIN fields = 1..N
  OBVIOUS
<1>2. \A k \in 1..N : Chain!RlpBytes(fields[k]) \in Seq(Nat)
  <2>1. \A k \in 1..N : fields[k] \in Seq(Nat)
    BY ElementOfSeq
  <2> QED
    BY <2>1, RlpShape
<1>3. s = [i \in 1..N |-> Chain!RlpBytes(fields[i])]
  BY <1>1 DEF Written
<1> HIDE DEF s, N
<1>4. s \in Seq(Seq(Nat)) /\ Len(s) = N
  BY <1>1, <1>2, <1>3
<1>5. \A k \in 1..N : s[k] = Chain!RlpBytes(fields[k])
  BY <1>3
<1> QED
  BY <1>4, <1>5 DEF s, N

\* The strings of a list are read as they were written.
LEMMA ListReadBack ==
  ASSUME NEW fields \in Seq(Seq(Nat)), Fits(Len(Chain!RlpEncode(fields)), 8)
  PROVE  Chain!RlpFields(Chain!RlpEncode(fields)) = fields
<1> DEFINE s == Written(fields)
           N == Len(fields)
           c == Chain!FlattenSeq(s)
           w == Chain!RlpList(s)
<1>1. Chain!RlpEncode(fields) = w
  BY Zenon DEF Chain!RlpEncode, Written
<1>2. /\ s \in Seq(Seq(Nat)) /\ Len(s) = N /\ N \in Nat
      /\ \A k \in 1..N : s[k] = Chain!RlpBytes(fields[k])
  BY WrittenTyped
<1> HIDE DEF s
<1>3. c \in Seq(Nat) /\ Content(s, c)
  BY <1>2, FlattenTyped DEF Content
<1> HIDE DEF c
<1>4. w \in Seq(Nat) /\ Len(w) \in Nat /\ Len(c) \in Nat /\ Len(c) <= Len(w)
  BY <1>3, ListShape
<1>5. \A n \in Nat : n <= Len(w) => Fits(n, 8)
  <2>1. Len(Digits(Len(w), 256)) <= 8
    BY <1>1 DEF Fits
  <2>2. \A n \in Nat : n <= Len(w) => Len(Digits(n, 256)) <= Len(Digits(Len(w), 256))
    <3>1. PICK m \in Nat : m = Len(w)
      BY <1>4
    <3>2. \A n \in Nat : n <= m => Len(Digits(n, 256)) <= Len(Digits(m, 256))
      BY DigitsGrow
    <3> QED
      BY <3>1, <3>2
  <2>3. ASSUME NEW n \in Nat, n <= Len(w) PROVE Len(Digits(n, 256)) <= 8
    <3>1. Len(Digits(n, 256)) \in Nat /\ Len(Digits(Len(w), 256)) \in Nat
      BY <1>4, DigitsNonempty
    <3>2. Len(Digits(n, 256)) <= Len(Digits(Len(w), 256))
      BY <2>2, <2>3
    <3> QED
      BY <2>1, <3>1, <3>2
  <2> QED
    BY <2>3 DEF Fits
<1>6. Fits(Len(c), 8)
  BY <1>4, <1>5
<1>7. Chain!RlpItem(w, 1).bytes = c
  BY <1>3, <1>6, RlpListRead
<1> HIDE DEF w
<1>8. PICK F : /\ Chain!RlpFields(w) = F[1]
               /\ \A i \in Nat :
                    F[i] = IF Ends(c, i) THEN <<>>
                           ELSE <<Chain!RlpItem(c, i).bytes>>
                                  \o F[Chain!RlpItem(c, i).next]
  <2>1. ListBody(w, c)
    BY <1>4, <1>7 DEF ListBody
  <2>2. PICK F : FieldsFrom(F, w, c)
    BY <2>1, FieldsAre
  <2> QED
    BY <2>2 DEF FieldsFrom
<1>9. F[1] = fields
  <2>1. CASE N = 0
    <3>1. c = s
      BY <1>2, <2>1 DEF Chain!FlattenSeq, c
    <3>2. Ends(c, 1)
      BY <1>2, <2>1, <3>1 DEF Ends
    <3>3. F[1] = <<>>
      BY <1>8, <3>2
    <3>4. fields = <<>>
      BY <2>1, EmptySeq
    <3> QED
      BY <3>3, <3>4
  <2>2. CASE N # 0
    <3>1. PICK g : IsFlat(g, s) /\ c = g[N]
      BY <1>2, <2>2, FlattenIs DEF c
    <3>2. ASSUME NEW k \in 1..N PROVE Fits(Len(fields[k]), 8)
      <4>1. fields[k] \in Seq(Nat)
        BY ElementOfSeq
      <4>2. Len(fields[k]) \in Nat /\ Len(s[k]) \in Nat /\ Len(fields[k]) <= Len(s[k])
        BY <1>2, <4>1, RlpShape
      <4>3. Reads(c, Begins(g, k), s[k])
        <5>1. N \in 1..Len(s) /\ k \in 1..N
          BY <1>2, <2>2
        <5>2. Reads(g[N], Begins(g, k), s[k])
          BY <1>2, <3>1, <5>1, FlatTyped
        <5> QED
          BY <3>1, <5>2
      <4>4. Len(s[k]) <= Len(c)
        BY <4>3 DEF Reads
      <4>5. Len(fields[k]) <= Len(w)
        BY <1>4, <4>2, <4>4
      <4> QED
        BY <1>5, <4>2, <4>5
    <3>3. IsFlat(g, Written(fields))
      BY <3>1 DEF s
    <3>4. c = g[Len(fields)] /\ Len(fields) # 0
      BY <2>2, <3>1
    <3> QED
      BY <1>8, <3>2, <3>3, <3>4, BodyRead
  <2> QED
    BY <2>1, <2>2
<1> QED
  BY <1>1, <1>8, <1>9

\* A list of byte strings is read as it was written, at any number of strings and at
\* any length the lengths themselves can be written with: in one byte, which is the
\* string itself, the short form or the long one.
THEOREM ListsReadBack ==
  \A fields \in Seq(Seq(Bytes)) : Fits(Len(Chain!RlpEncode(fields)), 8) =>
    Chain!RlpFields(Chain!RlpEncode(fields)) = fields
<1> SUFFICES ASSUME NEW fields \in Seq(Seq(Bytes)), Fits(Len(Chain!RlpEncode(fields)), 8)
             PROVE  Chain!RlpFields(Chain!RlpEncode(fields)) = fields
  OBVIOUS
<1>1. Bytes \subseteq Nat
  BY DEF Bytes
<1>2. \A x \in Seq(Bytes) : x \in Seq(Nat)
  BY <1>1, SeqMonotonic
<1>3. Seq(Bytes) \subseteq Seq(Nat)
  BY <1>2
<1>4. fields \in Seq(Seq(Nat))
  BY <1>3, SeqMonotonic
<1> QED
  BY <1>4, ListReadBack

-----------------------------------------------------------------------------
(* The transactions of Ethereum.                                           *)

LegacyTxs ==
  [nonce : Nat, gasPrice : Nat, gasLimit : Nat, to : Seq(Bytes), value : Nat,
   data : Seq(Bytes), chainId : Nat]

LEMMA UintRead ==
  ASSUME NEW n \in Nat
  PROVE  /\ Chain!EncodeUint(n) \in Seq(Nat)
         /\ ValueOf(Chain!EncodeUint(n), 256) = n
<1>1. Chain!EncodeUint(n) = Digits(n, 256)
  BY ChainBytes DEF Chain!EncodeUint
<1>2. Digits(n, 256) \in Seq(Bytes) /\ ValueOf(Digits(n, 256), 256) = n
  BY DigitsNonempty
<1>3. Bytes \subseteq Nat
  BY DEF Bytes
<1>4. Digits(n, 256) \in Seq(Nat)
  BY <1>2, <1>3, SeqMonotonic
<1> QED
  BY <1>1, <1>2, <1>4

LEMMA BytesAreNumbers == ASSUME NEW x \in Seq(Bytes) PROVE x \in Seq(Nat)
<1>1. Bytes \subseteq Nat
  BY DEF Bytes
<1> QED
  BY <1>1, SeqMonotonic

\* A transaction of Ethereum that is hashed for its signature is read as it was: every
\* number, the receiver, the data, and the chain when it was given.
THEOREM LegacyTxsReadBack ==
  \A tx \in LegacyTxs : Fits(Len(Chain!LegacyTx(tx)), 8) =>
    Chain!ReadLegacyTx(Chain!LegacyTx(tx)) = tx
<1> SUFFICES ASSUME NEW tx \in LegacyTxs, Fits(Len(Chain!LegacyTx(tx)), 8)
             PROVE  Chain!ReadLegacyTx(Chain!LegacyTx(tx)) = tx
  OBVIOUS
<1> DEFINE U(n) == Chain!EncodeUint(n)
           a == <<U(tx.nonce), U(tx.gasPrice), U(tx.gasLimit), tx.to, U(tx.value), tx.data>>
           b == IF tx.chainId > 0 THEN <<U(tx.chainId), <<>>, <<>>>> ELSE <<>>
           f == a \o b
<1>1. /\ tx.nonce \in Nat /\ tx.gasPrice \in Nat /\ tx.gasLimit \in Nat
      /\ tx.value \in Nat /\ tx.chainId \in Nat
      /\ tx.to \in Seq(Bytes) /\ tx.data \in Seq(Bytes)
      /\ tx = [nonce |-> tx.nonce, gasPrice |-> tx.gasPrice, gasLimit |-> tx.gasLimit,
               to |-> tx.to, value |-> tx.value, data |-> tx.data, chainId |-> tx.chainId]
  BY DEF LegacyTxs
<1>2. tx.to \in Seq(Nat) /\ tx.data \in Seq(Nat)
  BY <1>1, BytesAreNumbers
<1>3. \A n \in Nat : U(n) \in Seq(Nat) /\ ValueOf(U(n), 256) = n
  BY UintRead
<1> HIDE DEF U
<1>4. /\ a \in Seq(Seq(Nat)) /\ Len(a) = 6
      /\ a[1] = U(tx.nonce) /\ a[2] = U(tx.gasPrice) /\ a[3] = U(tx.gasLimit)
      /\ a[4] = tx.to /\ a[5] = U(tx.value) /\ a[6] = tx.data
  BY <1>1, <1>2, <1>3
<1>5. /\ b \in Seq(Seq(Nat))
      /\ tx.chainId > 0 => Len(b) = 3 /\ b[1] = U(tx.chainId)
      /\ ~(tx.chainId > 0) => Len(b) = 0
  <2>1. CASE tx.chainId > 0
    <3>1. b = <<U(tx.chainId), <<>>, <<>>>>
      BY <2>1
    <3>2. U(tx.chainId) \in Seq(Nat)
      BY <1>1, <1>3
    <3>3. PICK e \in Seq(Nat) : e = <<>>
      BY EmptySeq
    <3> HIDE DEF b
    <3>4. b = <<U(tx.chainId), e, e>>
      BY <3>1, <3>3
    <3> QED
      BY <2>1, <3>2, <3>4
  <2>2. CASE ~(tx.chainId > 0)
    <3>1. b = <<>>
      BY <2>2
    <3> QED
      BY <2>2, <3>1, EmptySeq
  <2> QED
    BY <2>1, <2>2
<1>6. f = a \o b
  OBVIOUS
<1> HIDE DEF a, b, f
<1>7. /\ f \in Seq(Seq(Nat)) /\ Len(f) = Len(a) + Len(b)
      /\ \A i \in 1..(Len(a) + Len(b)) : f[i] = IF i <= Len(a) THEN a[i] ELSE b[i - Len(a)]
  BY <1>4, <1>5, <1>6, ConcatProperties
<1>8. Chain!RlpFields(Chain!LegacyTx(tx)) = f
  <2>1. Chain!LegacyTx(tx) = Chain!RlpEncode(f)
    BY DEF Chain!LegacyTx, f, a, b, U
  <2> QED
    BY <1>7, <2>1, ListReadBack
<1>9. /\ f[1] = U(tx.nonce) /\ f[2] = U(tx.gasPrice) /\ f[3] = U(tx.gasLimit)
      /\ f[4] = tx.to /\ f[5] = U(tx.value) /\ f[6] = tx.data
  <2>1. Len(b) \in Nat
    BY <1>5
  <2>2. \A i \in 1..6 : i \in 1..(Len(a) + Len(b)) /\ i <= Len(a)
    BY <1>4, <2>1
  <2>3. \A i \in 1..6 : f[i] = a[i]
    BY <1>7, <2>2
  <2>4. f[1] = a[1] /\ f[2] = a[2] /\ f[3] = a[3] /\ f[4] = a[4] /\ f[5] = a[5] /\ f[6] = a[6]
    BY <2>3
  <2> QED
    BY <1>4, <2>4
<1>10. tx.chainId = IF Len(f) = 9 THEN ValueOf(f[7], 256) ELSE 0
  <2>1. CASE tx.chainId > 0
    <3>1. Len(f) = 9 /\ f[7] = U(tx.chainId)
      <4>1. Len(a) = 6 /\ Len(b) = 3 /\ b[1] = U(tx.chainId)
        BY <1>4, <1>5, <2>1
      <4>2. 7 \in 1..(Len(a) + Len(b)) /\ ~(7 <= Len(a)) /\ 7 - Len(a) = 1
        BY <4>1
      <4>3. f[7] = b[7 - Len(a)]
        BY <1>7, <4>2
      <4> QED
        BY <1>7, <4>1, <4>2, <4>3
    <3> QED
      BY <1>1, <1>3, <3>1
  <2>2. CASE ~(tx.chainId > 0)
    <3>1. Len(f) = 6 /\ tx.chainId = 0
      BY <1>1, <1>4, <1>5, <1>7, <2>2
    <3> QED
      BY <3>1
  <2> QED
    BY <2>1, <2>2
<1>11. /\ ValueOf(f[1], 256) = tx.nonce /\ ValueOf(f[2], 256) = tx.gasPrice
       /\ ValueOf(f[3], 256) = tx.gasLimit /\ ValueOf(f[5], 256) = tx.value
  BY <1>1, <1>3, <1>9
<1>12. Chain!ReadLegacyTx(Chain!LegacyTx(tx)) =
         [nonce |-> ValueOf(f[1], 256), gasPrice |-> ValueOf(f[2], 256),
          gasLimit |-> ValueOf(f[3], 256), to |-> f[4],
          value |-> ValueOf(f[5], 256), data |-> f[6],
          chainId |-> IF Len(f) = 9 THEN ValueOf(f[7], 256) ELSE 0]
  BY <1>8, ChainBytes DEF Chain!ReadLegacyTx
<1> QED
  BY <1>1, <1>9, <1>10, <1>11, <1>12

Accesses == [address : Seq(Bytes), storageKeys : Seq(Seq(Bytes))]

Eip1559Txs ==
  [chainId : Nat, nonce : Nat, maxPriorityFeePerGas : Nat, maxFeePerGas : Nat,
   gasLimit : Nat, to : Seq(Bytes), value : Nat, data : Seq(Bytes),
   accessList : Seq(Accesses)]

LEMMA NineOf ==
  ASSUME NEW T, NEW a \in T, NEW b \in T, NEW c \in T, NEW d \in T, NEW e \in T,
         NEW f \in T, NEW g \in T, NEW h \in T, NEW i \in T
  PROVE  <<a, b, c, d, e, f, g, h, i>> \in Seq(T)
OBVIOUS

LEMMA AccessTyped ==
  ASSUME NEW list \in Seq(Accesses)
  PROVE  Chain!AccessList(list) \in Seq(Nat)
<1> DEFINE keys(i) == [k \in DOMAIN list[i].storageKeys |->
                         Chain!RlpBytes(list[i].storageKeys[k])]
           item(i) == Chain!RlpEncode(<<list[i].address, Chain!RlpList(keys(i))>>)
           items == [i \in DOMAIN list |-> item(i)]
<1>1. Chain!AccessList(list) = Chain!RlpList(items)
  BY DEF Chain!AccessList
<1>2. Len(list) \in Nat /\ DOMAIN list = 1..Len(list)
  OBVIOUS
<1>3. ASSUME NEW i \in 1..Len(list) PROVE item(i) \in Seq(Nat)
  <2>1. list[i].address \in Seq(Bytes) /\ list[i].storageKeys \in Seq(Seq(Bytes))
    <3>1. list[i] \in Accesses
      BY ElementOfSeq
    <3> QED
      BY <3>1 DEF Accesses
  <2>2. list[i].address \in Seq(Nat) /\ list[i].storageKeys \in Seq(Seq(Nat))
    <3>1. Seq(Bytes) \subseteq Seq(Nat)
      BY BytesAreNumbers
    <3> QED
      BY <2>1, <3>1, SeqMonotonic
  <2>3. Written(list[i].storageKeys) \in Seq(Seq(Nat))
    BY <2>2, WrittenTyped
  <2>4. keys(i) = Written(list[i].storageKeys)
    BY DEF Written
  <2>5. Chain!RlpList(keys(i)) \in Seq(Nat)
    BY <2>3, <2>4, ListTyped
  <2> DEFINE pair == <<list[i].address, Chain!RlpList(keys(i))>>
  <2>6. pair \in Seq(Seq(Nat))
    <3> HIDE DEF keys
    <3> QED
      BY <2>2, <2>5
  <2> HIDE DEF pair
  <2>7. Chain!RlpList(Written(pair)) \in Seq(Nat)
    BY <2>6, WrittenTyped, ListTyped
  <2>8. Chain!RlpEncode(pair) = Chain!RlpList(Written(pair))
    BY Zenon DEF Chain!RlpEncode, Written
  <2> QED
    BY <2>7, <2>8 DEF pair
<1> HIDE DEF item
<1>4. items = [i \in 1..Len(list) |-> item(i)]
  BY <1>2
<1> HIDE DEF items
<1>5. items \in Seq(Seq(Nat))
  BY <1>2, <1>3, <1>4
<1> QED
  BY <1>1, <1>5, ListTyped

\* So is a transaction of type 2, behind the byte that says its type: all of it but
\* the list of accesses, which is a string where readers expect a list.
THEOREM TypedTxsReadBack ==
  \A tx \in Eip1559Txs : Fits(Len(Chain!Eip1559Tx(tx)), 8) =>
    Chain!ReadEip1559Tx(Chain!Eip1559Tx(tx)) =
      [chainId |-> tx.chainId, nonce |-> tx.nonce,
       maxPriorityFeePerGas |-> tx.maxPriorityFeePerGas,
       maxFeePerGas |-> tx.maxFeePerGas, gasLimit |-> tx.gasLimit,
       to |-> tx.to, value |-> tx.value, data |-> tx.data]
<1> SUFFICES ASSUME NEW tx \in Eip1559Txs, Fits(Len(Chain!Eip1559Tx(tx)), 8)
             PROVE  Chain!ReadEip1559Tx(Chain!Eip1559Tx(tx)) =
                      [chainId |-> tx.chainId, nonce |-> tx.nonce,
                       maxPriorityFeePerGas |-> tx.maxPriorityFeePerGas,
                       maxFeePerGas |-> tx.maxFeePerGas, gasLimit |-> tx.gasLimit,
                       to |-> tx.to, value |-> tx.value, data |-> tx.data]
  OBVIOUS
<1> DEFINE U(n) == Chain!EncodeUint(n)
           al == Chain!AccessList(tx.accessList)
           f == <<U(tx.chainId), U(tx.nonce), U(tx.maxPriorityFeePerGas),
                  U(tx.maxFeePerGas), U(tx.gasLimit), tx.to, U(tx.value), tx.data, al>>
           w == Chain!RlpEncode(f)
           typed == << 2 >> \o w
<1>1. /\ tx.chainId \in Nat /\ tx.nonce \in Nat /\ tx.maxPriorityFeePerGas \in Nat
      /\ tx.maxFeePerGas \in Nat /\ tx.gasLimit \in Nat /\ tx.value \in Nat
      /\ tx.to \in Seq(Bytes) /\ tx.data \in Seq(Bytes)
      /\ tx.accessList \in Seq(Accesses)
  BY DEF Eip1559Txs
<1>2. tx.to \in Seq(Nat) /\ tx.data \in Seq(Nat)
  BY <1>1, BytesAreNumbers
<1>3. \A n \in Nat : U(n) \in Seq(Nat) /\ ValueOf(U(n), 256) = n
  BY UintRead
<1>4. al \in Seq(Nat)
  BY <1>1, AccessTyped
<1>5. Chain!Eip1559Tx(tx) = typed
  BY DEF Chain!Eip1559Tx
<1> HIDE DEF U, al
<1>6. /\ f \in Seq(Seq(Nat))
      /\ f[1] = U(tx.chainId) /\ f[2] = U(tx.nonce)
      /\ f[3] = U(tx.maxPriorityFeePerGas) /\ f[4] = U(tx.maxFeePerGas)
      /\ f[5] = U(tx.gasLimit) /\ f[6] = tx.to /\ f[7] = U(tx.value) /\ f[8] = tx.data
  <2>1. /\ U(tx.chainId) \in Seq(Nat) /\ U(tx.nonce) \in Seq(Nat)
        /\ U(tx.maxPriorityFeePerGas) \in Seq(Nat) /\ U(tx.maxFeePerGas) \in Seq(Nat)
        /\ U(tx.gasLimit) \in Seq(Nat) /\ U(tx.value) \in Seq(Nat)
    BY <1>1, <1>3
  <2>2. f \in Seq(Seq(Nat))
    BY <1>2, <1>4, <2>1, NineOf
  <2>3. /\ f[1] = U(tx.chainId) /\ f[2] = U(tx.nonce)
        /\ f[3] = U(tx.maxPriorityFeePerGas) /\ f[4] = U(tx.maxFeePerGas)
        /\ f[5] = U(tx.gasLimit) /\ f[6] = tx.to /\ f[7] = U(tx.value) /\ f[8] = tx.data
    OBVIOUS
  <2> HIDE DEF f
  <2> QED
    BY <2>2, <2>3
<1> HIDE DEF f
<1>7. w \in Seq(Nat)
  <2>1. Chain!RlpEncode(f) = Chain!RlpList(Written(f))
    BY Zenon DEF Chain!RlpEncode, Written
  <2> QED
    BY <1>6, <2>1, WrittenTyped, ListTyped
<1> HIDE DEF w
<1>8. /\ Len(typed) = Len(w) + 1 /\ Tail(typed) = w /\ Len(w) \in Nat
  <2> DEFINE two == << 2 >>
  <2>1. two \in Seq(Nat) /\ Len(two) = 1
    OBVIOUS
  <2>2. typed = two \o w
    OBVIOUS
  <2> HIDE DEF two, typed
  <2>3. /\ typed \in Seq(Nat) /\ Len(typed) = Len(two) + Len(w) /\ Len(w) \in Nat
        /\ \A i \in 1..(Len(two) + Len(w)) :
             typed[i] = IF i <= Len(two) THEN two[i] ELSE w[i - Len(two)]
    <3>1. two \in Seq(Nat) /\ w \in Seq(Nat)
      BY <1>7, <2>1
    <3> DEFINE both == two \o w
    <3>2. /\ both \in Seq(Nat) /\ Len(both) = Len(two) + Len(w)
          /\ \A i \in 1..(Len(two) + Len(w)) :
               both[i] = IF i <= Len(two) THEN two[i] ELSE w[i - Len(two)]
      BY <3>1, ConcatProperties
    <3>3. typed = both /\ Len(w) \in Nat
      BY <2>2, <3>1
    <3> HIDE DEF both
    <3> QED
      BY <3>2, <3>3
  <2>4. Len(typed) = Len(w) + 1 /\ typed # <<>>
    BY <2>1, <2>3
  <2> DEFINE rest == Tail(typed)
  <2>5. /\ rest \in Seq(Nat) /\ Len(rest) = Len(typed) - 1
        /\ \A i \in 1..Len(rest) : rest[i] = typed[i + 1]
    BY <2>3, <2>4, HeadTailProperties
  <2> HIDE DEF rest
  <2>6. Len(rest) = Len(w)
    BY <2>3, <2>4, <2>5
  <2>7. ASSUME NEW i \in 1..Len(rest) PROVE rest[i] = w[i]
    <3>1. i + 1 \in 1..(Len(two) + Len(w)) /\ ~(i + 1 <= Len(two)) /\ i + 1 - Len(two) = i
      BY <2>1, <2>3, <2>6
    <3>2. typed[i + 1] = w[i + 1 - Len(two)]
      BY <2>3, <3>1
    <3> QED
      BY <2>5, <3>1, <3>2
  <2>8. rest = w
    BY <1>7, <2>5, <2>6, <2>7, SeqEqual
  <2> QED
    BY <2>3, <2>4, <2>8 DEF rest
<1> HIDE DEF typed
<1>9. Fits(Len(w), 8)
  <2>1. PICK m \in Nat : m = Len(typed) /\ Len(w) <= m
    BY <1>8
  <2>2. Len(Digits(m, 256)) <= 8
    BY <1>5, <2>1 DEF Fits
  <2>3. Len(Digits(Len(w), 256)) <= Len(Digits(m, 256))
    BY <1>8, <2>1, DigitsGrow
  <2>4. Len(Digits(Len(w), 256)) \in Nat /\ Len(Digits(m, 256)) \in Nat
    BY <1>8, DigitsNonempty
  <2> QED
    BY <2>2, <2>3, <2>4 DEF Fits
<1>10. Chain!RlpFields(w) = f
  BY <1>6, <1>9, ListReadBack DEF w
<1>11. Chain!ReadEip1559Tx(Chain!Eip1559Tx(tx)) =
         [chainId |-> ValueOf(f[1], 256), nonce |-> ValueOf(f[2], 256),
          maxPriorityFeePerGas |-> ValueOf(f[3], 256),
          maxFeePerGas |-> ValueOf(f[4], 256), gasLimit |-> ValueOf(f[5], 256),
          to |-> f[6], value |-> ValueOf(f[7], 256), data |-> f[8]]
  BY <1>5, <1>8, <1>10, ChainBytes DEF Chain!ReadEip1559Tx
<1>12. /\ ValueOf(f[1], 256) = tx.chainId /\ ValueOf(f[2], 256) = tx.nonce
       /\ ValueOf(f[3], 256) = tx.maxPriorityFeePerGas
       /\ ValueOf(f[4], 256) = tx.maxFeePerGas /\ ValueOf(f[5], 256) = tx.gasLimit
       /\ ValueOf(f[7], 256) = tx.value
  <2>1. /\ ValueOf(U(tx.chainId), 256) = tx.chainId /\ ValueOf(U(tx.nonce), 256) = tx.nonce
        /\ ValueOf(U(tx.maxPriorityFeePerGas), 256) = tx.maxPriorityFeePerGas
        /\ ValueOf(U(tx.maxFeePerGas), 256) = tx.maxFeePerGas
        /\ ValueOf(U(tx.gasLimit), 256) = tx.gasLimit
        /\ ValueOf(U(tx.value), 256) = tx.value
    BY <1>1, <1>3
  <2> QED
    BY <1>6, <2>1
<1> QED
  BY <1>6, <1>11, <1>12

-----------------------------------------------------------------------------
(* Addresses in base 58.                                                   *)

\* The digits of a number that is not zero begin with one that is not.
LEMMA DigitsFirst ==
  ASSUME NEW base \in Nat, base > 1, NEW n \in Nat, n # 0
  PROVE  Len(Digits(n, base)) \in Nat /\ Len(Digits(n, base)) >= 1 /\ Digits(n, base)[1] # 0
<1> DEFINE d(m) == Digits(m, base)
           Good(m) == Len(d(m)) \in Nat /\ Len(d(m)) >= 1 /\ d(m)[1] # 0
           bad == {m \in Nat : m # 0 /\ ~Good(m)}
<1>1. \A m \in Nat : /\ d(m) \in Seq(0..(base - 1))
                     /\ m # 0 => d(m) = Append(d(m \div base), m % base)
                     /\ m = 0 => d(m) = <<>>
  BY DigitsUnfold
<1>2. ASSUME NEW m \in bad, \A k \in bad : m <= k PROVE FALSE
  <2>1. m \in Nat /\ m # 0 /\ ~Good(m)
    OBVIOUS
  <2>2. PICK q \in Nat : q = m \div base /\ q < m
    BY <2>1
  <2>3. PICK r \in 0..(base - 1) : r = m % base /\ m = q * base + r
    BY <2>1, <2>2
  <2>4. q \notin bad
    BY <1>2, <2>1, <2>2
  <2>5. q = 0 \/ Good(q)
    BY <2>4
  <2> HIDE DEF d
  <2>6. d(m) = Append(d(q), r) /\ d(q) \in Seq(0..(base - 1))
    BY <1>1, <2>1, <2>2, <2>3
  <2>7. /\ Len(d(m)) = Len(d(q)) + 1 /\ d(m)[Len(d(q)) + 1] = r
        /\ \A i \in 1..Len(d(q)) : d(m)[i] = d(q)[i]
        /\ Len(d(q)) \in Nat
    BY <2>6, AppendProperties
  <2>8. CASE q = 0
    <3>1. d(q) = <<>> /\ r # 0
      BY <1>1, <2>1, <2>3, <2>8
    <3>2. Len(d(m)) = 1 /\ d(m)[1] = r
      BY <2>7, <3>1
    <3> QED
      BY <2>1, <3>1, <3>2
  <2>9. CASE Good(q)
    <3>1. 1 \in 1..Len(d(q)) /\ d(q)[1] # 0
      BY <2>7, <2>9
    <3>2. d(m)[1] # 0
      BY <2>7, <3>1
    <3> QED
      BY <2>1, <2>7, <3>2
  <2> QED
    BY <2>5, <2>8, <2>9
<1>3. bad = {}
  <2>1. bad \subseteq Nat
    OBVIOUS
  <2> HIDE DEF bad
  <2> QED
    BY <1>2, <2>1, LeastNumber
<1>4. Good(n)
  <2>1. n \notin bad
    BY <1>3
  <2> QED
    BY <2>1
<1> QED
  BY <1>4

\* Bytes of which the first is not zero are the digits of the number they are.
NoZeroFirst(s) == s \in Seq(Bytes) /\ (Len(s) # 0 => s[1] # 0)

LEMMA DigitsBack ==
  ASSUME NEW s, NoZeroFirst(s)
  PROVE  /\ ValueOf(s, 256) \in Nat /\ Digits(ValueOf(s, 256), 256) = s
         /\ Len(s) # 0 => ValueOf(s, 256) # 0
<1> DEFINE v(t) == ValueOf(t, 256)
           Good(t) == /\ v(t) \in Nat /\ Digits(v(t), 256) = t
                      /\ Len(t) # 0 => v(t) # 0
           S == {n \in Nat : \A t \in Seq(Bytes) : Len(t) = n /\ NoZeroFirst(t) => Good(t)}
<1>0. PICK base \in Nat : base = 256
  OBVIOUS
<1>00. base > 1
  BY <1>0
<1>1. 0 \in S
  <2> SUFFICES ASSUME NEW t \in Seq(Bytes), Len(t) = 0 PROVE Good(t)
    OBVIOUS
  <2>1. t = <<>>
    BY EmptySeq
  <2>2. ValueOf(<<>>, base) = 0
    BY ValueEmpty
  <2>3. Digits(0, base) = <<>>
    <3>1. 0 \in Nat
      OBVIOUS
    <3> QED
      BY <1>00, <3>1, DigitsUnfold
  <2>4. v(t) = 0 /\ Digits(0, 256) = t
    BY <1>0, <2>1, <2>2, <2>3
  <2> HIDE DEF v
  <2> QED
    BY <2>4
<1>2. ASSUME NEW n \in Nat, n \in S PROVE n + 1 \in S
  <2> SUFFICES ASSUME NEW t \in Seq(Bytes), Len(t) = n + 1, NoZeroFirst(t) PROVE Good(t)
    OBVIOUS
  <2> DEFINE p == SubSeq(t, 1, n)
  <2>1. \A i \in 1..(n + 1) : t[i] \in Bytes
    BY ElementOfSeq
  <2>2. /\ p \in Seq(Bytes) /\ Len(p) = n /\ \A i \in 1..n : p[i] = t[i]
    <3>1. /\ p \in Seq(Bytes)
          /\ Len(p) = IF 1 <= n THEN n - 1 + 1 ELSE 0
          /\ \A i \in 1..(n - 1 + 1) : p[i] = t[1 + i - 1]
      <4>1. \A i \in 1..n : t[i] \in Bytes
        BY <2>1
      <4> QED
        BY <4>1, SubSeqProperties
    <3> HIDE DEF p
    <3> QED
      BY <3>1
  <2>3. PICK x \in Bytes : x = t[n + 1]
    BY <2>1
  <2> HIDE DEF p
  <2>4. t = Append(p, x)
    <3> DEFINE u == Append(p, x)
    <3>1. /\ u \in Seq(Bytes) /\ Len(u) = n + 1 /\ u[n + 1] = x
          /\ \A i \in 1..n : u[i] = p[i]
      BY <2>2, AppendProperties
    <3> HIDE DEF u
    <3>2. \A i \in 1..(n + 1) : i = n + 1 \/ i \in 1..n
      OBVIOUS
    <3>3. \A i \in 1..Len(t) : t[i] = u[i]
      BY <2>2, <2>3, <3>1, <3>2
    <3>4. t = u
      BY <3>1, <3>3, SeqEqual
    <3> QED
      BY <3>4 DEF u
  <2>5. NoZeroFirst(p) /\ (n = 0 => x # 0)
    <3>1. t[1] # 0
      BY DEF NoZeroFirst
    <3>2. CASE n = 0
      BY <2>2, <2>3, <3>1, <3>2 DEF NoZeroFirst
    <3>3. CASE n # 0
      <4>1. 1 \in 1..n
        BY <3>3
      <4> QED
        BY <2>2, <3>1, <3>3, <4>1 DEF NoZeroFirst
    <3> QED
      BY <3>2, <3>3
  <2>6. Good(p)
    BY <1>2, <2>2, <2>5
  <2>7. PICK m \in Nat : m = v(p) /\ Digits(m, 256) = p /\ (n # 0 => m # 0)
    BY <2>2, <2>6
  <2>8. ValueOf(t, base) = m * base + x
    <3>1. p \in Seq(Nat) /\ x \in Nat
      BY <2>2, BytesAreNumbers DEF Bytes
    <3>2. ValueOf(Append(p, x), base) = ValueOf(p, base) * base + x
      BY <3>1, ValueAppend
    <3> QED
      BY <1>0, <2>4, <2>7, <3>2
  <2>9. PICK w \in Nat : w = m * 256 + x /\ w # 0 /\ w \div 256 = m /\ w % 256 = x
    <3>1. m \in Nat /\ x \in 0..255 /\ (m # 0 \/ x # 0)
      BY <2>5, <2>7 DEF Bytes
    <3>2. /\ m * 256 + x \in Nat /\ m * 256 + x # 0
          /\ (m * 256 + x) \div 256 = m /\ (m * 256 + x) % 256 = x
      BY <3>1
    <3> QED
      BY <3>2
  <2>10. v(t) = w
    BY <1>0, <2>8, <2>9
  <2>11. Digits(w, base) = Append(Digits(w \div base, base), w % base)
    <3>1. w \in Nat /\ w # 0
      BY <2>9
    <3>2. Digits(w, base) = IF w = 0 THEN <<>> ELSE Append(Digits(w \div base, base), w % base)
      BY <1>00, DigitsUnfold
    <3> QED
      BY <3>1, <3>2
  <2>12. Digits(w, 256) = t
    <3>1. w \div base = m /\ w % base = x
      BY <1>0, <2>9
    <3>2. Digits(m, base) = p
      BY <1>0, <2>7
    <3>3. Digits(w, base) = Append(p, x)
      BY <2>11, <3>1, <3>2
    <3> QED
      BY <1>0, <2>4, <3>3
  <2> HIDE DEF v
  <2> QED
    BY <2>9, <2>10, <2>12
<1> HIDE DEF S
<1>3. \A n \in Nat : n \in S
  BY <1>1, <1>2, Inductive
<1>4. Good(s)
  <2>1. s \in Seq(Bytes) /\ Len(s) \in Nat /\ Len(s) \in S
    BY <1>3 DEF NoZeroFirst
  <2> HIDE DEF Good
  <2> QED
    BY <2>1 DEF S
<1> QED
  BY <1>4

LEMMA ChainRepeated == \A b, n : Chain!Repeated(b, n) = Repeated(b, n)
BY DEF Chain!Repeated, Repeated

\* k zeros, and then what does not begin with one.
Padded(s, k, rest) == s = Repeated(0, k) \o rest /\ (Len(rest) # 0 => rest[1] # 0)

LEMMA ZerosCounted ==
  ASSUME NEW k \in Nat, NEW rest \in Seq(Nat), NEW s, Padded(s, k, rest)
  PROVE  s \in Seq(Nat) /\ Chain!LeadingZeros(s) = k
         /\ \A base \in Nat : ValueOf(s, base) = ValueOf(rest, base)
<1> DEFINE z == Repeated(0, k)
           Z == {i \in DOMAIN s : \A j \in 1..i : s[j] = 0}
<1>1. z \in Seq(Nat) /\ Len(z) = k /\ \A i \in 1..k : z[i] = 0
  BY DEF Repeated
<1>2. s = z \o rest /\ Len(rest) \in Nat /\ (Len(rest) # 0 => rest[1] # 0)
  BY DEF Padded
<1> HIDE DEF z
<1>3. /\ s \in Seq(Nat) /\ Len(s) = k + Len(rest)
      /\ \A i \in 1..(k + Len(rest)) : s[i] = IF i <= k THEN z[i] ELSE rest[i - k]
  BY <1>1, <1>2, ConcatProperties
<1>4. \A i \in 1..k : s[i] = 0
  BY <1>1, <1>2, <1>3
<1>5. \A i \in 1..Len(rest) : s[k + i] = rest[i]
  <2> SUFFICES ASSUME NEW i \in 1..Len(rest) PROVE s[k + i] = rest[i]
    OBVIOUS
  <2>1. k + i \in 1..(k + Len(rest)) /\ ~(k + i <= k) /\ (k + i) - k = i
    BY <1>2
  <2>2. s[k + i] = rest[(k + i) - k]
    BY <1>3, <2>1
  <2> QED
    BY <2>1, <2>2
<1>6. Z = 1..k
  <2>1. DOMAIN s = 1..(k + Len(rest))
    BY <1>3
  <2>2. ASSUME NEW i \in 1..k PROVE i \in Z
    <3>1. i \in DOMAIN s /\ \A j \in 1..i : j \in 1..k
      BY <1>2, <2>1
    <3> QED
      BY <1>4, <3>1
  <2>3. ASSUME NEW i \in Z PROVE i \in 1..k
    <3>1. i \in 1..(k + Len(rest)) /\ \A j \in 1..i : s[j] = 0
      BY <2>1
    <3>2. SUFFICES ASSUME ~(i <= k) PROVE FALSE
      BY <3>1
    <3>3. k + 1 \in 1..i /\ 1 \in 1..Len(rest)
      BY <1>2, <3>1, <3>2
    <3>4. s[k + 1] = rest[1] /\ s[k + 1] = 0
      BY <1>5, <3>1, <3>3
    <3> QED
      BY <1>2, <3>3, <3>4
  <2> HIDE DEF Z
  <2> QED
    BY <2>2, <2>3
<1>7. Cardinality(1..k) = k
  <2>1. PICK one \in Int : one = 1
    OBVIOUS
  <2>2. Cardinality(one..k) = IF one > k THEN 0 ELSE k - one + 1
    BY FS_Interval
  <2>3. (IF one > k THEN 0 ELSE k - one + 1) = k
    BY <2>1
  <2> QED
    BY <2>1, <2>2, <2>3
<1>8. Chain!LeadingZeros(s) = k
  <2>1. \A T : Chain!Cardinality(T) = Cardinality(T)
    BY Zenon DEF Chain!Cardinality, Cardinality
  <2>2. Chain!LeadingZeros(s) = Cardinality(Z)
    BY <2>1 DEF Chain!LeadingZeros
  <2> QED
    BY <1>6, <1>7, <2>2
<1>9. \A base \in Nat : ValueOf(s, base) = ValueOf(rest, base)
  BY <1>3, <1>4, <1>5, ValuePadded
<1> QED
  BY <1>3, <1>8, <1>9

\* Every string of bytes is zeros and then one that does not begin with a zero.
LEMMA IsPadded ==
  ASSUME NEW s \in Seq(Bytes)
  PROVE  \E k \in Nat, rest \in Seq(Bytes) : Padded(s, k, rest)
<1> DEFINE nonzero == {i \in 1..Len(s) : s[i] # 0}
<1>1. Len(s) \in Nat /\ \A i \in 1..Len(s) : s[i] \in Bytes
  BY ElementOfSeq
<1>2. PICK k \in Nat : /\ k <= Len(s) /\ \A i \in 1..k : s[i] = 0
                       /\ k < Len(s) => s[k + 1] # 0
  <2>1. CASE nonzero = {}
    <3>1. \A i \in 1..Len(s) : s[i] = 0
      BY <2>1
    <3> QED
      BY <1>1, <3>1
  <2>2. CASE nonzero # {}
    <3>1. nonzero \subseteq Nat
      OBVIOUS
    <3>2. PICK m \in nonzero : \A i \in nonzero : m <= i
      <4> HIDE DEF nonzero
      <4> QED
        BY <2>2, <3>1, LeastNumber
    <3>3. m \in 1..Len(s) /\ s[m] # 0
      OBVIOUS
    <3>4. m - 1 \in Nat /\ m - 1 <= Len(s) /\ (m - 1) + 1 = m
      BY <1>1, <3>3
    <3>5. ASSUME NEW i \in 1..(m - 1) PROVE s[i] = 0
      <4>1. i \in 1..Len(s) /\ ~(m <= i)
        BY <1>1, <3>3
      <4>2. i \notin nonzero
        BY <3>2, <4>1
      <4> QED
        BY <4>1, <4>2
    <3> QED
      BY <3>3, <3>4, <3>5
  <2> QED
    BY <2>1, <2>2
<1> DEFINE n == Len(s) - k
           rest == [i \in 1..n |-> s[k + i]]
           z == Repeated(0, k)
           t == z \o rest
<1>3. n \in Nat /\ \A i \in 1..n : k + i \in 1..Len(s)
  BY <1>1, <1>2
<1>4. rest \in Seq(Bytes) /\ Len(rest) = n /\ \A i \in 1..n : rest[i] = s[k + i]
  BY <1>1, <1>3
<1>5. 0 \in Bytes
  BY DEF Bytes
<1>6. z \in Seq(Bytes) /\ Len(z) = k /\ \A i \in 1..k : z[i] = 0
  BY <1>5 DEF Repeated
<1> HIDE DEF rest, z
<1>7. /\ t \in Seq(Bytes) /\ Len(t) = k + n
      /\ \A i \in 1..(k + n) : t[i] = IF i <= k THEN z[i] ELSE rest[i - k]
  BY <1>4, <1>6, ConcatProperties
<1>8. Len(t) = Len(s)
  BY <1>1, <1>7
<1>9. ASSUME NEW i \in 1..Len(s) PROVE s[i] = t[i]
  <2>1. i \in 1..(k + n)
    BY <1>1
  <2>2. CASE i <= k
    <3>1. i \in 1..k
      BY <2>2
    <3> QED
      BY <1>2, <1>6, <1>7, <2>1, <2>2, <3>1
  <2>3. CASE ~(i <= k)
    <3>1. i - k \in 1..n /\ k + (i - k) = i
      BY <1>1, <2>3
    <3> QED
      BY <1>4, <1>7, <2>1, <2>3, <3>1
  <2> QED
    BY <2>2, <2>3
<1> HIDE DEF t
<1>10. s = t
  BY <1>7, <1>8, <1>9, SeqEqual
<1>11. Len(rest) # 0 => rest[1] # 0
  <2> SUFFICES ASSUME Len(rest) # 0 PROVE rest[1] # 0
    OBVIOUS
  <2>1. 1 \in 1..n /\ k < Len(s)
    BY <1>1, <1>3, <1>4
  <2>2. rest[1] = s[k + 1]
    BY <1>4, <2>1
  <2> QED
    BY <1>2, <2>1, <2>2
<1>12. Padded(s, k, rest)
  BY <1>10, <1>11 DEF Padded, t, z
<1> QED
  BY <1>4, <1>12

\* What is written in base 58 is read as the bytes it was, with the zeros they begin
\* with: an address of Bitcoin carries its version, its hash and its checksum.  Bytes
\* that are all zero are the exception: they are written as one character.
THEOREM AddressesReadBack ==
  /\ \A data \in Seq(Bytes) : ValueOf(data, 256) # 0 =>
       Chain!Base58Decode(Chain!Base58Encode(data)) = data
  /\ \A payload \in Seq(Bytes) :
       LET data == payload \o Checksum(payload)
       IN  data \in Seq(Bytes) /\ ValueOf(data, 256) # 0 =>
             Chain!Base58Decode(Chain!Base58CheckEncode(payload)) = data
<1>1. ASSUME NEW data \in Seq(Bytes), ValueOf(data, 256) # 0
      PROVE  Chain!Base58Decode(Chain!Base58Encode(data)) = data
  <2>1. PICK k \in Nat, rest \in Seq(Bytes) : Padded(data, k, rest)
    BY IsPadded
  <2>2. rest \in Seq(Nat)
    BY BytesAreNumbers
  <2>3. PICK other, base \in Nat : other = 58 /\ base = 256
    OBVIOUS
  <2>4. Chain!LeadingZeros(data) = k /\ ValueOf(data, base) = ValueOf(rest, base)
    BY <2>1, <2>2, ZerosCounted
  <2>5. NoZeroFirst(rest)
    BY <2>1 DEF Padded, NoZeroFirst
  <2>6. PICK n \in Nat : n = ValueOf(rest, 256) /\ n # 0 /\ Digits(n, 256) = rest
    <3>1. ValueOf(rest, 256) \in Nat /\ Digits(ValueOf(rest, 256), 256) = rest
      BY <2>5, DigitsBack
    <3> QED
      BY <1>1, <2>3, <2>4, <3>1
  <2>7. ValueOf(data, 256) = n
    BY <2>3, <2>4, <2>6
  <2> DEFINE d == Digits(n, other)
             text == Repeated(0, k) \o d
  <2>8. Chain!Base58Encode(data) = text
    BY <1>1, <2>3, <2>4, <2>7, ChainBytes, ChainRepeated DEF Chain!Base58Encode
  <2>9. other > 1
    BY <2>3
  <2>10. d \in Seq(Nat) /\ d[1] # 0 /\ ValueOf(d, other) = n
    <3>1. d \in Seq(0..(other - 1)) /\ 0..(other - 1) \subseteq Nat
      BY <2>9, DigitsUnfold
    <3>2. d \in Seq(Nat)
      <4> HIDE DEF d
      <4> QED
        BY <3>1, SeqMonotonic
    <3>3. d[1] # 0
      BY <2>6, <2>9, DigitsFirst
    <3>4. ValueOf(d, other) = n
      BY <2>9, DigitsValue
    <3> QED
      BY <3>2, <3>3, <3>4
  <2> HIDE DEF d
  <2>11. Padded(text, k, d)
    BY <2>10 DEF Padded
  <2> HIDE DEF text
  <2>12. Chain!LeadingZeros(text) = k /\ ValueOf(text, other) = ValueOf(d, other)
    BY <2>10, <2>11, ZerosCounted
  <2>13. Chain!Base58Decode(text) = Repeated(0, k) \o Digits(ValueOf(text, 58), 256)
    BY <2>12, ChainBytes, ChainRepeated DEF Chain!Base58Decode
  <2>14. Digits(ValueOf(text, 58), 256) = rest
    BY <2>3, <2>6, <2>10, <2>12
  <2>15. data = Repeated(0, k) \o rest
    BY <2>1 DEF Padded
  <2> QED
    BY <2>8, <2>13, <2>14, <2>15
<1>2. ASSUME NEW payload \in Seq(Bytes), NEW data, data = payload \o Checksum(payload),
             data \in Seq(Bytes), ValueOf(data, 256) # 0
      PROVE  Chain!Base58Decode(Chain!Base58CheckEncode(payload)) = data
  BY <1>1, <1>2 DEF Chain!Base58CheckEncode
<1> QED
  BY <1>1, <1>2
=============================================================================
