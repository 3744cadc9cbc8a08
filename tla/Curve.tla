-------------------------------- MODULE Curve --------------------------------
(***************************************************************************)
(* The elliptic-curve cipher of crypto_core/asymmetric/ecc_scratch.py, on  *)
(* any curve y^2 = x^3 + B over a prime P with P % 4 = 3 and prime order N.*)
(* A compressed point is the pair of its prefix and its x coordinate.      *)
(***************************************************************************)
EXTENDS Arithmetic

CONSTANTS P, B, N,       \* _P, _B and _N (_A is 0)
          Gx, Gy,        \* _G
          Koblitz,       \* _KOBLITZ_K
          ChunkSize,     \* _CHUNK_SIZE
          Header         \* _LENGTH_HEADER

ASSUME CurveAssumption ==
  /\ P \in Nat /\ P % 4 = 3 /\ B \in Int /\ N \in Nat \ {0}
  /\ Gx \in 0..(P - 1) /\ Gy \in 0..(P - 1)
  /\ (Gy * Gy - Gx * Gx * Gx - B) % P = 0

ASSUME ChunkAssumption ==
  Koblitz \in Nat \ {0} /\ ChunkSize \in Nat \ {0} /\ Header \in Nat \ {0}

ASSUME PrimeAssumption == \A d \in 2..(P - 1) : P % d # 0

Infinity == <<>>
G == <<Gx, Gy>>
Coordinate == 0..(P - 1)
Point == (Coordinate \X Coordinate) \cup {Infinity}
Scalar == 1..(N - 1)    \* _random_scalar

Rhs(x) == (x * x * x + B) % P
IsOnCurve(p) == p = Infinity \/ (p[2] * p[2]) % P = Rhs(p[1])

Root(a) == PowMod(a, (P + 1) \div 4, P)
IsSquare(a) == (Root(a) * Root(a)) % P = a

Negate(p) == IF p = Infinity THEN p ELSE <<p[1], (-p[2]) % P>>

\* The third point of the line of this slope through p and q, mirrored.
Third(p, q, slope) ==
  LET s == slope % P
      x == (s * s - p[1] - q[1]) % P
  IN  <<x, (s * (p[1] - x) - p[2]) % P>>

Add(p, q) ==
  CASE p = Infinity -> q
    [] p # Infinity /\ q = Infinity -> p
    [] p # Infinity /\ q # Infinity ->
         CASE q = Negate(p) -> Infinity
           [] p = q /\ q # Negate(p) ->
                Third(p, p, 3 * p[1] * p[1] * ModInverse(2 * p[2], P))
           [] OTHER -> Third(p, q, (q[2] - p[2]) * ModInverse(q[1] - p[1], P))

\* The definition of a multiple of G: added again and again.
Times[n \in Nat] == IF n = 0 THEN Infinity ELSE Add(Times[n - 1], G)

\* What the choice of the curve brings: adding is associative, and G has order N.
CurvePoint == {p \in Point : IsOnCurve(p)}

ASSUME GroupAssumption ==
  /\ \A p, q \in CurvePoint : Add(Add(p, q), G) = Add(p, Add(q, G))
  /\ Times[N] = Infinity
  /\ \A n \in Scalar : Times[n] # Infinity

\* The loop of _scalar_mult: the bits of k that are left, result and addend.
Ladder[t \in Nat \X Point \X Point] ==
  IF t[1] = 0 THEN t[2]
  ELSE Ladder[<<t[1] \div 2,
                IF t[1] % 2 = 1 THEN Add(t[2], t[3]) ELSE t[2],
                Add(t[3], t[3])>>]

\* Slip: a negative scalar loses its sign.
ScalarMult_NoSign(k, p) ==
  IF p = Infinity \/ k % N = 0 THEN Infinity
  ELSE Ladder[<<IF k < 0 THEN -k ELSE k, Infinity, p>>]

ScalarMult(k, p) ==
  IF p = Infinity \/ k % N = 0 THEN Infinity
  ELSE Ladder[IF k < 0 THEN <<-k, Infinity, Negate(p)>> ELSE <<k, Infinity, p>>]

Compress(p) == <<2 + (p[2] % 2), p[1]>>

\* _decompress_point raises: a prefix, or an x coordinate, that no point has.
Malformed(c) == c[1] \notin {2, 3} \/ c[2] \notin Coordinate \/ ~IsSquare(Rhs(c[2]))

Decompress(c) ==
  LET y == Root(Rhs(c[2]))
  IN  <<c[2], IF y % 2 = c[1] % 2 THEN y ELSE (-y) % P>>

\* The x coordinates that a chunk can be embedded at.
Candidates(chunk) ==
  LET base == FromBytes(chunk) * Koblitz
  IN  {x \in base..(base + Koblitz - 1) : x < P /\ IsSquare(Rhs(x))}

EncodePoint(chunk) ==
  LET x == CHOOSE x \in Candidates(chunk) : \A z \in Candidates(chunk) : x <= z
  IN  <<x, Root(Rhs(x))>>

DecodePoint(p) == LET m == p[1] \div Koblitz
                  IN  IF m < Power(Base, ChunkSize) THEN ToBytes(m, ChunkSize) ELSE Raised

Framed(plaintext) ==
  LET framed == ToBytes(Len(plaintext), Header) \o plaintext
  IN  framed \o [i \in 1..((-Len(framed)) % ChunkSize) |-> 0]

\* One block per chunk, masked by its own scalar: nonce[i].
Mask(chunk, key, k) == Add(EncodePoint(chunk), ScalarMult(k, key))

\* encrypt raises unless the key is a finite point and the length fits the
\* header, _encode_point without a candidate, _compress_point on infinity.
EccFails(plaintext, key, nonce) ==
  LET chunks == Blocks(Framed(plaintext), ChunkSize)
  IN  \/ key = Infinity \/ ~IsOnCurve(key) \/ Len(plaintext) >= Power(Base, Header)
      \/ \E i \in DOMAIN chunks : \/ Candidates(chunks[i]) = {}
                                  \/ Mask(chunks[i], key, nonce[i]) = Infinity

EccEncrypt(plaintext, key, nonce) ==
  LET chunks == Blocks(Framed(plaintext), ChunkSize)
  IN  [i \in DOMAIN chunks |-> <<Compress(ScalarMult(nonce[i], G)),
                               Compress(Mask(chunks[i], key, nonce[i]))>>]

Unmask(block, private) ==
  Add(Decompress(block[2]), Negate(ScalarMult(private, Decompress(block[1]))))

EccDecrypt(ciphertext, private) ==
  LET points == [i \in DOMAIN ciphertext |-> Unmask(ciphertext[i], private)]
      whole == \A i \in DOMAIN points :
                 /\ ~Malformed(ciphertext[i][1]) /\ ~Malformed(ciphertext[i][2])
                 /\ points[i] # Infinity /\ DecodePoint(points[i]) # Raised
      recovered == FlattenSeq([i \in DOMAIN points |-> DecodePoint(points[i])])
      length == FromBytes(SubSeq(recovered, 1, Header))
  IN  IF ciphertext # <<>> /\ whole /\ length <= Len(recovered) - Header
      THEN SubSeq(recovered, Header + 1, Header + length) ELSE Raised
=============================================================================
