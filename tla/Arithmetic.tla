----------------------------- MODULE Arithmetic -----------------------------
(***************************************************************************)
(* What the two ciphers written from scratch share: the extended Euclidean *)
(* loop, powers, and numbers as strings of bytes.  A byte has Base values. *)
(* A function that raises in the code returns Raised here.                 *)
(***************************************************************************)
EXTENDS Integers, Sequences, SequencesExt

CONSTANT Base    \* 256

ASSUME BaseAssumption == Base \in Nat /\ Base > 2

Raised == <<-1>>

\* The loop's remainders and coefficients, until the remainder is 0.
Euclid[t \in Nat \X Nat \X Int \X Int] ==
  LET q == t[1] \div t[2]
  IN  IF t[2] = 0 THEN [gcd |-> t[1], x |-> t[3]]
      ELSE Euclid[<<t[2], t[1] - q * t[2], t[4], t[3] - q * t[4]>>]

Invertible(a, m) == Euclid[<<a % m, m, 1, 0>>].gcd = 1
ModInverse(a, m) == Euclid[<<a % m, m, 1, 0>>].x % m

Power(b, n) ==
  LET power[i \in Nat] == IF i = 0 THEN 1 ELSE b * power[i - 1]
  IN  power[n]

\* pow(a, e, m)
PowMod(a, e, m) ==
  LET Pow[n \in Nat] ==
        IF n = 0 THEN 1 % m
        ELSE LET half == Pow[n \div 2]
             IN  (half * half * (IF n % 2 = 1 THEN a % m ELSE 1)) % m
  IN  Pow[e]

FromBytes(bytes) ==
  LET value[i \in 0..Len(bytes)] == IF i = 0 THEN 0 ELSE value[i - 1] * Base + bytes[i]
  IN  value[Len(bytes)]
ToBytes(n, len) == [i \in 1..len |-> (n \div Power(Base, len - i)) % Base]
Length(n) == CHOOSE l \in 0..n : /\ Power(Base, l) > n
                                 /\ \A k \in 0..(l - 1) : Power(Base, k) <= n

\* The i-th of the blocks of a string, size bytes each, the last perhaps less.
Blocks(s, size) ==
  [i \in 1..((Len(s) + size - 1) \div size) |->
     SubSeq(s, (i - 1) * size + 1, IF i * size < Len(s) THEN i * size ELSE Len(s))]
=============================================================================
