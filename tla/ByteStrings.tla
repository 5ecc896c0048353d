---------------------------- MODULE ByteStrings ----------------------------
(* Buffers as sequences of bytes, and the numbers in them, as the encoders   *)
(* of apps/mpc write and read them.                                          *)
EXTENDS Integers, Sequences, SequencesExt

Repeated(b, n) == [i \in 1..n |-> b]

\* The bytes of n without leading zeros; none for 0.
Digits(n, base) ==
  LET digits[m \in Nat] ==
        IF m = 0 THEN <<>> ELSE Append(digits[m \div base], m % base)
  IN  digits[n]

\* bytesToBigint(): the number that digits stand for, most significant first.
ValueOf(digits, base) ==
  LET value[i \in 0..Len(digits)] ==
        IF i = 0 THEN 0 ELSE value[i - 1] * base + digits[i]
  IN  value[Len(digits)]

\* bigintToBytes() and writeUIntBE: the number n in exactly `width` bytes.
Fits(n, width) == Len(Digits(n, 256)) <= width
BigEndian(n, width) ==
  Repeated(0, width - Len(Digits(n, 256))) \o Digits(n, 256)

Slice(s, from, len) == SubSeq(s, from, from + len - 1)
From(s, from) == SubSeq(s, from, Len(s))
=============================================================================
