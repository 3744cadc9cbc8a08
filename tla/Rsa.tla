--------------------------------- MODULE Rsa ---------------------------------
(***************************************************************************)
(* The RSA cipher of crypto_core/asymmetric/rsa_scratch.py, its padding    *)
(* and its primality test, and the blocks that encryption_service.py cuts  *)
(* a plaintext into.  What os.urandom draws is a parameter.                *)
(***************************************************************************)
EXTENDS Arithmetic

CONSTANTS Exponent,      \* _PUBLIC_EXPONENT
          Overhead,      \* 11: three marks and the shortest padding
          SmallPrimes    \* _SMALL_PRIMES

IsPrime(n) == \A d \in 2..(n - 1) : n % d # 0

ASSUME OverheadAssumption == Overhead \in Nat /\ Overhead > 3
ASSUME ExponentAssumption == Exponent \in Nat \ {0}
ASSUME SmallPrimesAssumption ==
  /\ {2, 3} \subseteq SmallPrimes
  /\ \A p \in SmallPrimes : p \in Nat /\ p > 1 /\ IsPrime(p)

\* n = 2^Twos[n] * an odd number
Twos[n \in Nat \ {0}] == IF n % 2 = 0 THEN 1 + Twos[n \div 2] ELSE 0

\* Slip: the loop over the squares leaves out the last of them.
Survives_Short(n, a) ==
  LET r == Twos[n - 1]
      x(i) == PowMod(a, (n - 1) \div Power(2, r - i), n)
  IN  x(0) = 1 \/ \E i \in 0..(r - 2) : x(i) = n - 1

\* The base a is no witness against n: of its powers by the odd part of n - 1
\* and its squares, the first is 1, or one is -1.
Survives(n, a) ==
  LET r == Twos[n - 1]
      x(i) == PowMod(a, (n - 1) \div Power(2, r - i), n)
  IN  x(0) = 1 \/ \E i \in 0..(r - 1) : x(i) = n - 1

BasesFor(n) == 2..(n - 2)
NoSmallFactor(n) == \A p \in SmallPrimes : n % p # 0

IsProbablePrime(n, bases) ==
  n >= 2 /\ (n \in SmallPrimes
               \/ (NoSmallFactor(n) /\ \A a \in bases : Survives(n, a)))

\* candidate |= (1 << (bits - 1)) | 1
Candidate(drawn, bits) ==
  LET top == Power(2, bits - 1) IN top + 2 * ((drawn % top) \div 2) + 1

\* generate_keypair, of two primes that were drawn; it draws again otherwise.
Suits(p, q) == p # q /\ Invertible(Exponent, (p - 1) * (q - 1))
PublicKey(p, q) == <<Exponent, p * q>>
PrivateKey(p, q) == <<ModInverse(Exponent, (p - 1) * (q - 1)), p * q>>

KeyLength(n) == Length(n)

\* Slip: the padding may hold zeros.
PadByte_Any == 0..(Base - 1)
PadByte == 1..(Base - 1)

\* _pkcs1_pad, with the bytes that were drawn for it
Pad(message, k, drawn) ==
  IF Len(message) > k - Overhead THEN Raised
  ELSE <<0, 2>> \o SubSeq(drawn, 1, k - Len(message) - 3) \o <<0>> \o message

Unpad(padded) ==
  LET zeros == {i \in 3..Len(padded) : padded[i] = 0}
      separator == CHOOSE i \in zeros : \A j \in zeros : i <= j
  IN  IF \/ Len(padded) < Overhead
         \/ SubSeq(padded, 1, 2) # <<0, 2>>
         \/ zeros = {}
      THEN Raised ELSE SubSeq(padded, separator + 1, Len(padded))

RsaEncryptBlock(message, key, drawn) ==
  LET k == KeyLength(key[2])
  IN  ToBytes(PowMod(FromBytes(Pad(message, k, drawn)), key[1], key[2]), k)

RsaDecryptBlock(block, key) ==
  Unpad(ToBytes(PowMod(FromBytes(block), key[1], key[2]), KeyLength(key[2])))

\* _rsa_encrypt_chunks: an empty plaintext is one empty block, and each block
\* is padded with bytes of its own, drawn[i].
RsaEncrypt(plaintext, key, drawn) ==
  LET size == KeyLength(key[2]) - Overhead
      blocks == IF plaintext = <<>> THEN <<plaintext>> ELSE Blocks(plaintext, size)
  IN  FlattenSeq([i \in DOMAIN blocks |-> RsaEncryptBlock(blocks[i], key, drawn[i])])

RsaDecrypt(ciphertext, key) ==
  LET size == KeyLength(key[2])
      blocks == Blocks(ciphertext, size)
      opened == [i \in DOMAIN blocks |-> RsaDecryptBlock(blocks[i], key)]
  IN  IF \/ ciphertext = <<>>
         \/ Len(ciphertext) % size # 0
         \/ \E i \in DOMAIN opened : opened[i] = Raised
      THEN Raised ELSE FlattenSeq(opened)
=============================================================================
