---------------------------- MODULE MCPrimitives ----------------------------
(***************************************************************************)
(* The ciphers written from scratch and the window of codes, as functions, *)
(* over all inputs of small parameters: each action draws one input, and   *)
(* each property compares what the code computes with its meaning.         *)
(***************************************************************************)
EXTENDS Curve, Rsa, Codes, FiniteSets

CONSTANTS Keys,        \* scalars to draw keys and masks from
          MaxScalar,   \* bound: scalars to multiply by
          MaxNumber,   \* bound: numbers to test for primality
          MaxTime      \* bound: seconds

ASSUME BoundsAssumption ==
  Keys \subseteq Scalar /\ MaxScalar \in Nat /\ MaxNumber \in Nat /\ MaxTime \in Nat

VARIABLE input

None == <<"none">>
Bits == 5
PrimesDrawn == {n \in {Candidate(c, Bits) : c \in 0..(Power(2, Bits) - 1)} :
                  IsProbablePrime(n, BasesFor(n))}
MaxLength == 3
Plaintexts == UNION {[1..l -> 0..(Base - 1)] : l \in 0..MaxLength}

\* A plaintext fits two chunks, which have a candidate, and two bytes pad a block.
ASSUME InstanceAssumption ==
  /\ MaxLength < Power(Base, Header) /\ Header + MaxLength <= 2 * ChunkSize
  /\ \A chunk \in [1..ChunkSize -> 0..(Base - 1)] : Candidates(chunk) # {}
  /\ \A p, q \in PrimesDrawn : KeyLength(p * q) \in (Overhead + 1)..5

Init == input = None

DrawEcc == \E s \in Plaintexts : \E key, k1, k2 \in Keys :
             input' = <<"ecc", s, key, <<k1, k2>>>>
DrawScalar == \E k \in -MaxScalar..MaxScalar : \E m \in Keys :
                input' = <<"scalar", k, m>>
DrawRsa == \E s \in Plaintexts : \E p, q \in PrimesDrawn :
             \E d1, d2 \in PadByte :
               /\ Suits(p, q)
               /\ input' = <<"rsa", s, p, q, <<<<d1, d2>>, <<d2, d1>>, <<d2, d2>>>>>>
DrawNumber == \E n \in 2..MaxNumber : input' = <<"number", n>>
DrawTimes == \E made, now \in TimeStep..MaxTime : input' = <<"times", made, now>>
Again == input # None /\ input' = None

Draw == DrawEcc \/ DrawScalar \/ DrawRsa \/ DrawNumber \/ DrawTimes
Next == (input = None /\ Draw) \/ Again
Spec == Init /\ [][Next]_input

-----------------------------------------------------------------------------
\* For the hidden point to be at infinity, the chunk's has to undo the mask.
Cancels(m, k, private) ==
  Negate(EncodePoint(m)) = ScalarMult((k * private) % N, G)

\* Encrypting fails only when a chunk and its mask cancel out.
CurveRoundTrip ==
  input[1] = "ecc" =>
    LET s == input[2]
        private == input[3]
        public == ScalarMult(private, G)
    IN  IF EccFails(s, public, input[4])
          THEN \E i \in 1..2 :
                 Cancels(Blocks(Framed(s), ChunkSize)[i], input[4][i], private)
          ELSE EccDecrypt(EccEncrypt(s, public, input[4]), private) = s

\* For every pair of primes that key generation accepts.
RsaRoundTrip ==
  input[1] = "rsa" =>
    RsaDecrypt(RsaEncrypt(input[2], PublicKey(input[3], input[4]), input[5]),
               PrivateKey(input[3], input[4])) = input[2]

(* What either cipher encrypts, the private key decrypts to the same bytes,
   whatever the length, the zeros and the padding, the empty string included
   (encryption_service.py, lines 79 to 100, ecc_scratch.py, rsa_scratch.py). *)
RoundTrips == CurveRoundTrip /\ RsaRoundTrip

(* Multiplying by double-and-add, negative scalars and multiples of the order
   included, is adding again and again, and never leaves the curve. *)
ScalarIsRepeatedAddition ==
  input[1] = "scalar" =>
    LET product == ScalarMult(input[2], Times[input[3]])
    IN  product = Times[(input[2] * input[3]) % N] /\ IsOnCurve(product)

(* The test accepts every prime whatever bases are drawn, and of the bases
   that can be drawn for a composite at most a quarter let it pass: the bound
   that forty rounds rely on. *)
BasesTellPrimes ==
  input[1] = "number" =>
    LET n == input[2]
        passing == {a \in BasesFor(n) : IsProbablePrime(n, {a})}
    IN  IF IsPrime(n) THEN IsProbablePrime(n, BasesFor(n))
        ELSE 4 * Cardinality(passing) <= n - 1

Apart(a, b) == IF a < b THEN b - a ELSE a - b

(* A code is good at once and as long as the app's clock and the server's are
   within the drift of each other, however the steps fall, and never once they
   are a step further apart; so a used code is good again for less than that. *)
CodesExpire ==
  input[1] = "times" =>
    LET apart == Apart(input[2], input[3])
        good == Verifies(CodeAt(input[2]), input[3])
    IN  /\ apart <= AllowedDrift * TimeStep => good
        /\ apart >= (AllowedDrift + 1) * TimeStep => ~good
        /\ input[2] <= input[3] =>
             (good <=> apart < SecondsRemaining(input[2]) + AllowedDrift * TimeStep)
=============================================================================
