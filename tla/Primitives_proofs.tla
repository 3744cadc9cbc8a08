-------------------------- MODULE Primitives_proofs --------------------------
(***************************************************************************)
(* Proofs about the ciphers and codes, for every value of the parameters.  *)
(* The provers know no induction over data; it is derived here, for sets,  *)
(* from the well-foundedness of the numbers, and so is what a recursion    *)
(* computes: Recursion gives a solution, Agreement says it is the only     *)
(* one, and Descent carries a property from where the recursion stops to   *)
(* where it starts.                                                        *)
(***************************************************************************)
EXTENDS MCPrimitives, FiniteSetTheorems, SequenceTheorems, WellFoundedInduction, TLAPS


(* Every set of numbers that is not empty has a least member. *)
LEMMA Least ==
  ASSUME NEW T \in SUBSET Nat, T # {}
  PROVE  \E n \in T : \A m \in T : n <= m
<1> DEFINE R == {p \in Nat \X Nat : p[1] < p[2]}
<1>1. IsWellFoundedOn(R, Nat)
  BY NatLessThanWellFounded DEF OpToRel
<1>2. PICK x \in T : \A y \in T : <<y, x>> \notin R
  <2> HIDE DEF R
  <2> QED BY <1>1, WFMin
<1>3. ASSUME NEW y \in T PROVE x <= y
  <2>1. x \in Nat /\ y \in Nat /\ ~(y < x)
    <3>1. <<y, x>> \in R <=> x \in Nat /\ y \in Nat /\ y < x
      OBVIOUS
    <3>2. QED
      BY <1>2, <3>1
  <2>2. QED
    BY <2>1
<1>4. QED
  BY <1>3

(* Induction over the numbers, for a set. *)
LEMMA SetInduction ==
  ASSUME NEW T \in SUBSET Nat, 0 \in T, \A n \in T : n + 1 \in T
  PROVE  \A n \in Nat : n \in T
<1>1. SUFFICES ASSUME Nat \ T # {} PROVE FALSE
  OBVIOUS
<1>2. PICK n \in Nat \ T : \A m \in Nat \ T : n <= m
  BY <1>1, Least
<1>3. n # 0 /\ n - 1 \in Nat /\ n - 1 \in T
  BY <1>2
<1>4. QED
  BY <1>3, <1>2

(* A recursion over D: outside Z it goes on at next[t], where mu is smaller. *)
Descends(D, Z, mu, next) ==
  /\ mu \in [D -> Nat] /\ next \in [D -> D]
  /\ \A t \in D \ Z : mu[next[t]] < mu[t]

Solution(f, D, Z, next, base, comb) ==
  \A t \in D : f[t] = IF t \in Z THEN base[t] ELSE comb[<<t, f[next[t]]>>]

Follows(f, g, D, Z, next) ==
  \A t \in D : t \in Z \/ f[next[t]] = g[next[t]] => f[t] = g[t]

(* A recursion that descends has a solution. *)
LEMMA Recursion ==
  ASSUME NEW D, NEW V, NEW Z, NEW mu, NEW next,
         NEW base \in [D -> V], NEW comb \in [D \X V -> V],
         Descends(D, Z, mu, next)
  PROVE  \E f \in [D -> V] : Solution(f, D, Z, next, base, comb)
<1> DEFINE Solves(g, t) == g[t] = IF t \in Z THEN base[t] ELSE comb[<<t, g[next[t]]>>]
           Below(n) == {t \in D : mu[t] < n}
           Partial(n) == {g \in [Below(n) -> V] : \A t \in Below(n) : Solves(g, t)}
<1>0. /\ mu \in [D -> Nat] /\ next \in [D -> D]
      /\ \A t \in D \ Z : mu[next[t]] < mu[t]
  BY DEF Descends
<1> USE <1>0
<1>1. \A n \in Nat : n \in {k \in Nat : Partial(k) # {}}
  <2>1. 0 \in {k \in Nat : Partial(k) # {}}
    <3>1. Below(0) = {}
      OBVIOUS
    <3>2. [t \in Below(0) |-> base[t]] \in Partial(0)
      BY <3>1
    <3>3. QED
      BY <3>2
  <2>2. ASSUME NEW n \in Nat, Partial(n) # {}
        PROVE  Partial(n + 1) # {}
    <3>1. PICK g \in Partial(n) : TRUE
      BY <2>2
    <3> DEFINE h == [t \in Below(n + 1) |->
                       IF t \in Z THEN base[t] ELSE comb[<<t, g[next[t]]>>]]
    <3>2. ASSUME NEW t \in Below(n + 1), t \notin Z
          PROVE  /\ next[t] \in Below(n) /\ next[t] \in Below(n + 1)
                 /\ g[next[t]] \in V
      BY <3>1, <3>2
    <3>3. h \in [Below(n + 1) -> V]
      BY <3>2
    <3>4. \A t \in Below(n) : h[t] = g[t]
      BY <3>1
    <3>5. \A t \in Below(n + 1) : Solves(h, t)
      BY <3>2, <3>4
    <3>6. h \in Partial(n + 1)
      BY <3>3, <3>5
    <3>7. QED
      BY <3>6
  <2> DEFINE T == {k \in Nat : Partial(k) # {}}
  <2> HIDE DEF Partial
  <2>3. T \in SUBSET Nat /\ 0 \in T /\ \A n \in T : n + 1 \in T
    BY <2>1, <2>2
  <2> HIDE DEF T
  <2>4. \A n \in Nat : n \in T
    BY <2>3, SetInduction
  <2>5. QED
    BY <2>4 DEF T
<1>2. ASSUME NEW m \in Nat, NEW n \in Nat, NEW g \in Partial(m), NEW h \in Partial(n)
      PROVE  \A t \in Below(m) \cap Below(n) : g[t] = h[t]
  <2> DEFINE Bad == {k \in Nat : \E t \in Below(m) \cap Below(n) :
                                   mu[t] = k /\ g[t] # h[t]}
  <2>1. SUFFICES ASSUME Bad # {} PROVE FALSE
    <3>1. \A t \in Below(m) \cap Below(n) : g[t] # h[t] => mu[t] \in Bad
      OBVIOUS
    <3>2. QED
      BY <3>1
  <2>2. PICK k \in Bad : \A l \in Bad : k <= l
    BY <2>1, Least
  <2>3. PICK t \in Below(m) \cap Below(n) : mu[t] = k /\ g[t] # h[t]
    BY <2>2
  <2>4. t \notin Z
    BY <2>3
  <2>5. next[t] \in Below(m) \cap Below(n) /\ mu[next[t]] < k /\ mu[next[t]] \in Nat
    BY <2>3, <2>4
  <2>6. g[next[t]] = h[next[t]]
    BY <2>2, <2>5
  <2>7. QED
    BY <2>3, <2>6
<1> DEFINE At(t) == CHOOSE g \in Partial(mu[t] + 1) : TRUE
           F == [t \in D |-> At(t)[t]]
<1>3. ASSUME NEW t \in D
      PROVE  At(t) \in Partial(mu[t] + 1) /\ t \in Below(mu[t] + 1)
  <2>1. mu[t] + 1 \in Nat
    OBVIOUS
  <2>2. Partial(mu[t] + 1) # {}
    BY <2>1, <1>1
  <2> HIDE DEF Partial
  <2>3. QED
    BY <2>2
<1>4. F \in [D -> V]
  <2>1. ASSUME NEW t \in D PROVE At(t)[t] \in V
    <3>1. At(t) \in [Below(mu[t] + 1) -> V]
      BY <1>3
    <3>2. QED
      BY <3>1, <1>3
  <2>2. QED
    BY <2>1
<1>5. ASSUME NEW t \in D
      PROVE  Solves(F, t)
  <2>1. Solves(At(t), t)
    BY <1>3
  <2>2. CASE t \in Z
    BY <2>1, <2>2
  <2>3. CASE t \notin Z
    <3>1. next[t] \in D /\ next[t] \in Below(mu[t] + 1)
      BY <2>3
    <3>2. next[t] \in Below(mu[next[t]] + 1) /\ At(next[t]) \in Partial(mu[next[t]] + 1)
      BY <3>1, <1>3
    <3>3. mu[t] + 1 \in Nat /\ mu[next[t]] + 1 \in Nat
      BY <3>1
    <3>4. At(t)[next[t]] = At(next[t])[next[t]]
      <4> HIDE DEF Partial, Below, At
      <4> QED BY <1>2, <1>3, <3>1, <3>2, <3>3
    <3>5. F[next[t]] = At(t)[next[t]]
      BY <3>1, <3>4
    <3>6. F[t] = At(t)[t]
      OBVIOUS
    <3> HIDE DEF F, At
    <3>7. QED
      BY <2>1, <2>3, <3>5, <3>6
  <2>4. QED
    BY <2>2, <2>3
<1>6. QED
  <2> HIDE DEF F
  <2>1. QED BY <1>4, <1>5 DEF Solution

(* What holds where a recursion stops, and at a place when it holds at the
   next, holds everywhere. *)
LEMMA Descent ==
  ASSUME NEW D, NEW Z, NEW mu, NEW next, NEW T,
         Descends(D, Z, mu, next),
         \A t \in D : t \in Z \/ next[t] \in T => t \in T
  PROVE  \A t \in D : t \in T
<1>0. /\ mu \in [D -> Nat] /\ next \in [D -> D]
      /\ \A t \in D \ Z : mu[next[t]] < mu[t]
  BY DEF Descends
<1> DEFINE Bad == {k \in Nat : \E t \in D : mu[t] = k /\ t \notin T}
<1>1. SUFFICES ASSUME Bad # {} PROVE FALSE
  <2>1. \A t \in D : t \notin T => mu[t] \in Bad
    BY <1>0
  <2>2. QED
    BY <2>1
<1>2. PICK k \in Bad : \A l \in Bad : k <= l
  BY <1>1, Least
<1>3. PICK t \in D : mu[t] = k /\ t \notin T
  BY <1>2
<1>4. t \notin Z /\ next[t] \notin T
  BY <1>3
<1>5. next[t] \in D /\ mu[next[t]] < k /\ mu[next[t]] \in Bad
  BY <1>0, <1>3, <1>4
<1>6. QED
  BY <1>2, <1>5

(* And the solution is the only one. *)
LEMMA Agreement ==
  ASSUME NEW D, NEW Z, NEW mu, NEW next, NEW f, NEW g,
         Descends(D, Z, mu, next), Follows(f, g, D, Z, next)
  PROVE  \A t \in D : f[t] = g[t]
<1> DEFINE T == {t \in D : f[t] = g[t]}
<1>1. \A t \in D : t \in Z \/ next[t] \in T => t \in T
  BY DEF Follows
<1>2. \A t \in D : t \in T
  <2> HIDE DEF T
  <2> QED BY <1>1, Descent
<1>3. QED
  BY <1>2

(* Division with remainder. *)
LEMMA DivMod ==
  ASSUME NEW a \in Int, NEW m \in Nat \ {0}
  PROVE  /\ a \div m \in Int
         /\ a % m \in 0..(m - 1)
         /\ a = m * (a \div m) + (a % m)
OBVIOUS

(* The window of verify_code, for all clocks. *)
LEMMA Window ==
  ASSUME NEW made \in Nat, NEW now \in Nat
  PROVE  LET apart == Apart(made, now)
             good == Verifies(CodeAt(made), now)
         IN  /\ apart <= AllowedDrift * TimeStep => good
             /\ apart >= (AllowedDrift + 1) * TimeStep => ~good
             /\ made <= now =>
                  (good <=> apart < SecondsRemaining(made) + AllowedDrift * TimeStep)
<1> DEFINE T == TimeStep
           D == AllowedDrift
           s == made \div T
           n == now \div T
           x == made % T
           y == now % T
<1>1. T \in Nat \ {0} /\ D \in Nat
  BY TimeStepAssumption, DriftAssumption
<1>2. /\ s \in Int /\ n \in Int /\ x \in 0..(T - 1) /\ y \in 0..(T - 1)
      /\ made = T * s + x /\ now = T * n + y
  BY <1>1, DivMod
<1>3. Verifies(CodeAt(made), now) <=> -D <= s - n /\ s - n <= D
  <2>1. Verifies(CodeAt(made), now) <=> \E d \in (-D)..D : s = n + d
    BY DEF Verifies, CodeAt, StepOf, Drifts
  <2>2. s - n \in Int /\ s = n + (s - n)
    BY <1>2
  <2>3. \A d \in Int : s = n + d => d = s - n
    BY <1>2
  <2> HIDE DEF s, n
  <2>4. QED
    BY <1>1, <1>2, <2>1, <2>2, <2>3
<1>4. SecondsRemaining(made) = T - x
  BY DEF SecondsRemaining
<1>5. Apart(made, now) = IF made < now THEN now - made ELSE made - now
  BY DEF Apart
<1> HIDE DEF T, D, s, n, x, y
<1>6. ASSUME made < now PROVE s <= n
  BY <1>1, <1>2, <1>6
<1>7. ASSUME now < made PROVE n <= s
  BY <1>1, <1>2, <1>7
<1>8. ASSUME s - n >= D + 1
      PROVE  T * s >= T * n + T * D + T
  BY <1>1, <1>2, <1>8
<1>9. ASSUME n - s >= D + 1
      PROVE  T * n >= T * s + T * D + T
  BY <1>1, <1>2, <1>9
<1>10. ASSUME s - n <= D
       PROVE  T * s <= T * n + T * D
  BY <1>1, <1>2, <1>10
<1>11. ASSUME n - s <= D
       PROVE  T * n <= T * s + T * D
  BY <1>1, <1>2, <1>11
<1> DEFINE good == -D <= s - n /\ s - n <= D
           apart == IF made < now THEN now - made ELSE made - now
<1>12. apart <= D * T => good
  BY <1>1, <1>2, <1>8, <1>9
<1>13. apart >= (D + 1) * T => ~good
  BY <1>1, <1>2, <1>10, <1>11
<1>14. made <= now => (good <=> apart < T - x + D * T)
  BY <1>1, <1>2, <1>8, <1>9, <1>10, <1>11
<1>15. QED
  BY <1>3, <1>4, <1>5, <1>12, <1>13, <1>14 DEF T, D

(* What a draw of times is: two numbers. *)
Timed == input[1] = "times" => input[2] \in Nat /\ input[3] \in Nat

LEMMA TimedInvariant == Spec => []Timed
<1>1. Init => Timed
  BY DEF Init, Timed, None
<1>2. ASSUME Timed, [Next]_input PROVE Timed'
  <2> USE DEF Timed
  <2>1. CASE DrawEcc
    BY <2>1 DEF DrawEcc
  <2>2. CASE DrawScalar
    BY <2>2 DEF DrawScalar
  <2>3. CASE DrawRsa
    BY <2>3 DEF DrawRsa
  <2>4. CASE DrawNumber
    BY <2>4 DEF DrawNumber
  <2>5. CASE DrawTimes
    <3>1. TimeStep..MaxTime \subseteq Nat
      BY TimeStepAssumption, BoundsAssumption
    <3>2. PICK made \in TimeStep..MaxTime, now \in TimeStep..MaxTime :
            input' = <<"times", made, now>>
      BY <2>5 DEF DrawTimes
    <3>3. QED
      BY <3>1, <3>2
  <2>6. CASE Again
    BY <2>6 DEF Again, None
  <2>7. CASE UNCHANGED input
    BY <1>2, <2>7
  <2>8. QED
    BY <1>2, <2>1, <2>2, <2>3, <2>4, <2>5, <2>6, <2>7 DEF Next, Draw
<1>3. QED
  BY <1>1, <1>2, PTL DEF Spec

(* A code is good as long as the two clocks are within the drift, never once
   they are a step further apart (two_factor.py, lines 126 to 148). *)
THEOREM Codes_Expire == Spec => []CodesExpire
<1>1. Timed => CodesExpire
  BY Window DEF Timed, CodesExpire
<1>2. QED
  BY <1>1, TimedInvariant, PTL

EuclidDomain == Nat \X Nat \X Int \X Int
Rest(t) == LET q == t[1] \div t[2]
           IN  <<t[2], t[1] - q * t[2], t[4], t[3] - q * t[4]>>

(* The second remainder shrinks with every turn of the loop. *)
LEMMA RestType ==
  ASSUME NEW t \in EuclidDomain, t[2] # 0
  PROVE  Rest(t) \in EuclidDomain /\ Rest(t)[2] < t[2]
<1> DEFINE q == t[1] \div t[2]
<1>1. /\ t[1] \in Nat /\ t[2] \in Nat \ {0} /\ t[3] \in Int /\ t[4] \in Int
  BY DEF EuclidDomain
<1>2. q \in Int /\ t[1] - q * t[2] \in 0..(t[2] - 1)
  BY <1>1
<1>3. QED
  BY <1>1, <1>2 DEF EuclidDomain, Rest

(* The loop of _extended_gcd ends: its result is defined and follows it. *)
LEMMA EuclidDef ==
  /\ Euclid \in [EuclidDomain -> [gcd : Nat, x : Int]]
  /\ \A t \in EuclidDomain :
       Euclid[t] = IF t[2] = 0 THEN [gcd |-> t[1], x |-> t[3]] ELSE Euclid[Rest(t)]
<1> DEFINE D == EuclidDomain
           V == [gcd : Nat, x : Int]
           Z == {t \in D : t[2] = 0}
           mu == [t \in D |-> t[2]]
           next == [t \in D |-> IF t[2] = 0 THEN t ELSE Rest(t)]
           base == [t \in D |-> [gcd |-> t[1], x |-> t[3]]]
           comb == [p \in D \X V |-> p[2]]
<1>1. base \in [D -> V] /\ comb \in [D \X V -> V]
  BY DEF EuclidDomain
<1>2. Descends(D, Z, mu, next)
  BY RestType DEF EuclidDomain, Descends
<1>3. PICK f \in [D -> V] : Solution(f, D, Z, next, base, comb)
  <2> HIDE DEF D, V, Z, mu, next, base, comb
  <2> QED BY <1>1, <1>2, Recursion
<1>4. \A t \in D : f[t] = IF t[2] = 0 THEN [gcd |-> t[1], x |-> t[3]] ELSE f[Rest(t)]
  BY <1>1, <1>2, <1>3 DEF Descends, Solution
<1> DEFINE body(g) == [t \in EuclidDomain |->
             IF t[2] = 0 THEN [gcd |-> t[1], x |-> t[3]] ELSE g[Rest(t)]]
<1>5. f = body(f)
  BY <1>3, <1>4
<1>6. Euclid = CHOOSE g : g = body(g)
  BY DEF Euclid, Rest, EuclidDomain
<1>7. Euclid = body(Euclid)
  <2> HIDE DEF body
  <2> QED BY <1>5, <1>6
<1>8. \A t \in D : Euclid[t] = IF t[2] = 0 THEN [gcd |-> t[1], x |-> t[3]] ELSE Euclid[Rest(t)]
  BY <1>7
<1>9. \A t \in D : f[t] = Euclid[t]
  <2>1. Follows(f, Euclid, D, Z, next)
    BY <1>4, <1>8 DEF Follows
  <2> HIDE DEF D, Z, mu, next
  <2>2. QED
    BY <2>1, <1>2, Agreement
<1>10. Euclid = f
  BY <1>4, <1>7, <1>9
<1>11. QED
  BY <1>8, <1>10, <1>3

(***************************************************************************)
(* Divisibility.                                                           *)
(***************************************************************************)
Divides(m, a) == \E k \in Int : a = m * k

LEMMA DividesZero ==
  ASSUME NEW m \in Int
  PROVE  Divides(m, 0) /\ Divides(m, m)
<1>1. 0 = m * 0 /\ m = m * 1
  OBVIOUS
<1>2. QED
  BY <1>1 DEF Divides

LEMMA Combine ==
  ASSUME NEW m \in Int, NEW a \in Int, NEW b \in Int, NEW x \in Int, NEW y \in Int,
         Divides(m, a), Divides(m, b)
  PROVE  Divides(m, x * a + y * b)
<1>1. PICK j \in Int, k \in Int : a = m * j /\ b = m * k
  BY DEF Divides
<1>2. x * a + y * b = m * (x * j + y * k)
  BY <1>1
<1>3. x * j + y * k \in Int
  OBVIOUS
<1>4. QED
  BY <1>2, <1>3 DEF Divides

LEMMA Times1 ==
  ASSUME NEW m \in Int, NEW a \in Int, NEW x \in Int, Divides(m, a)
  PROVE  Divides(m, x * a)
<1>1. PICK j \in Int : a = m * j
  BY DEF Divides
<1>2. x * a = m * (x * j) /\ x * j \in Int
  BY <1>1
<1>3. QED
  BY <1>2 DEF Divides

LEMMA Differ ==
  ASSUME NEW m \in Int, NEW a \in Int, NEW b \in Int, Divides(m, a), Divides(m, b)
  PROVE  Divides(m, a - b) /\ Divides(m, a + b) /\ Divides(m, -a)
<1>1. PICK j \in Int, k \in Int : a = m * j /\ b = m * k
  BY DEF Divides
<1>2. a - b = m * (j - k) /\ a + b = m * (j + k) /\ -a = m * (-j)
  BY <1>1
<1>3. j - k \in Int /\ j + k \in Int /\ -j \in Int
  OBVIOUS
<1>4. QED
  BY <1>2, <1>3 DEF Divides

\* A remainder differs from its number by a multiple.
LEMMA Remainder ==
  ASSUME NEW m \in Nat \ {0}, NEW a \in Int
  PROVE  /\ a % m \in Int /\ Divides(m, a - (a % m)) /\ Divides(m, (a % m) - a)
         /\ a % m = 0 <=> Divides(m, a)
<1> DEFINE q == a \div m
           r == a % m
<1>1. q \in Int /\ r \in 0..(m - 1) /\ a = m * q + r
  BY DivMod
<1> HIDE DEF q, r
<1>2. a - r = m * q /\ r - a = m * (-q) /\ -q \in Int
  BY <1>1
<1>3. Divides(m, a - r) /\ Divides(m, r - a)
  BY <1>1, <1>2 DEF Divides
<1>4. r = 0 => Divides(m, a)
  BY <1>1 DEF Divides
<1>5. ASSUME Divides(m, a) PROVE r = 0
  <2>1. PICK k \in Int : a = m * k
    BY <1>5 DEF Divides
  <2>2. r = m * (k - q)
    BY <1>1, <2>1
  <2>3. k - q \in Int /\ (k - q >= 1 \/ k - q <= 0)
    BY <1>1
  <2>4. CASE k - q >= 1
    <3>1. m * (k - q) >= m
      BY <2>3, <2>4
    <3>2. QED
      BY <1>1, <2>2, <3>1
  <2>5. CASE k - q <= -1
    <3>1. m * (k - q) <= -m
      BY <2>3, <2>5
    <3>2. QED
      BY <1>1, <2>2, <3>1
  <2>6. CASE k - q = 0
    BY <2>2, <2>6
  <2>7. QED
    BY <2>3, <2>4, <2>5, <2>6
<1>6. r \in Int /\ (r = 0 <=> Divides(m, a))
  BY <1>1, <1>4, <1>5
<1>7. QED
  BY <1>3, <1>6 DEF r

\* Two remainders are equal exactly when the numbers differ by a multiple.
LEMMA SameRemainder ==
  ASSUME NEW m \in Nat \ {0}, NEW a \in Int, NEW b \in Int
  PROVE  a % m = b % m <=> Divides(m, a - b)
<1> DEFINE r == a % m
           s == b % m
<1>1. /\ r \in 0..(m - 1) /\ s \in 0..(m - 1)
      /\ Divides(m, a - r) /\ Divides(m, b - s) /\ Divides(m, r - a)
      /\ Divides(m, s - b)
  <2>1. r \in 0..(m - 1) /\ s \in 0..(m - 1)
    BY DivMod
  <2>2. Divides(m, a - r) /\ Divides(m, r - a)
    BY Remainder
  <2>3. Divides(m, b - s) /\ Divides(m, s - b)
    BY Remainder
  <2>4. QED
    BY <2>1, <2>2, <2>3
<1> HIDE DEF r, s
<1>2. ASSUME r = s PROVE Divides(m, a - b)
  <2>1. Divides(m, (a - r) + (s - b))
    BY <1>1, Differ
  <2>2. (a - r) + (s - b) = a - b
    BY <1>1, <1>2
  <2>3. QED
    BY <2>1, <2>2
<1>3. ASSUME Divides(m, a - b) PROVE r = s
  <2>1. Divides(m, (a - b) + (r - a))
    BY <1>1, <1>3, Differ
  <2>2. Divides(m, ((a - b) + (r - a)) + (b - s))
    BY <1>1, <2>1, Differ
  <2>3. ((a - b) + (r - a)) + (b - s) = r - s
    BY <1>1
  <2>4. PICK k \in Int : r - s = m * k
    BY <2>2, <2>3 DEF Divides
  <2>5. CASE k >= 1
    <3>1. m * k >= m
      BY <2>5
    <3>2. QED
      BY <1>1, <2>4, <3>1
  <2>6. CASE k <= -1
    <3>1. m * k <= -m
      BY <2>6
    <3>2. QED
      BY <1>1, <2>4, <3>1
  <2>7. CASE k = 0
    BY <1>1, <2>4, <2>7
  <2>8. QED
    BY <2>5, <2>6, <2>7
<1>4. QED
  BY <1>2, <1>3 DEF r, s

(***************************************************************************)
(* The inverse.                                                            *)
(***************************************************************************)
EuclidNext == [t \in EuclidDomain |-> IF t[2] = 0 THEN t ELSE Rest(t)]
EuclidMeasure == [t \in EuclidDomain |-> t[2]]
EuclidEnd == {t \in EuclidDomain : t[2] = 0}

LEMMA EuclidDescends == Descends(EuclidDomain, EuclidEnd, EuclidMeasure, EuclidNext)
BY RestType DEF EuclidDomain, EuclidNext, EuclidMeasure, EuclidEnd, Descends

\* What the loop keeps: t[3] times a leaves the remainder t[1], t[4] leaves t[2].
Traces(t, a, m) == Divides(m, a * t[3] - t[1]) /\ Divides(m, a * t[4] - t[2])

LEMMA RestTraces ==
  ASSUME NEW t \in EuclidDomain, t[2] # 0, NEW a \in Int, NEW m \in Int,
         Traces(t, a, m)
  PROVE  Traces(Rest(t), a, m)
<1> DEFINE q == t[1] \div t[2]
<1>1. PICK r \in Nat, s \in Nat \ {0}, u \in Int, v \in Int :
        r = t[1] /\ s = t[2] /\ u = t[3] /\ v = t[4]
  BY DEF EuclidDomain
<1>2. q \in Int
  BY <1>1
<1>3. Rest(t) = <<s, r - q * s, v, u - q * v>>
  BY <1>1 DEF Rest
<1> HIDE DEF q
<1>4. PICK j \in Int, k \in Int : a * u - r = m * j /\ a * v - s = m * k
  BY <1>1 DEF Traces, Divides
<1>5. a * (u - q * v) - (r - q * s) = (a * u - r) - q * (a * v - s)
  BY <1>1, <1>2
<1>6. m * j - q * (m * k) = m * (j - q * k) /\ j - q * k \in Int
  BY <1>2
<1>7. a * (u - q * v) - (r - q * s) = m * (j - q * k)
  BY <1>4, <1>5, <1>6
<1>8. Divides(m, a * (u - q * v) - (r - q * s)) /\ Divides(m, a * v - s)
  BY <1>4, <1>6, <1>7 DEF Divides
<1>9. QED
  BY <1>3, <1>8 DEF Traces

LEMMA EuclidTraces ==
  ASSUME NEW a \in Int, NEW m \in Int
  PROVE  \A t \in EuclidDomain :
           Traces(t, a, m) => Divides(m, a * Euclid[t].x - Euclid[t].gcd)
<1> DEFINE T == {t \in EuclidDomain :
                   Traces(t, a, m) => Divides(m, a * Euclid[t].x - Euclid[t].gcd)}
<1>1. ASSUME NEW t \in EuclidDomain, t \in EuclidEnd \/ EuclidNext[t] \in T
      PROVE  t \in T
  <2>1. CASE t[2] = 0
    <3>1. Euclid[t].x = t[3] /\ Euclid[t].gcd = t[1]
      BY <2>1, EuclidDef
    <3>2. QED
      BY <3>1 DEF Traces
  <2>2. CASE t[2] # 0
    <3>1. Rest(t) \in T /\ Euclid[t] = Euclid[Rest(t)]
      BY <1>1, <2>2, EuclidDef DEF EuclidNext, EuclidEnd
    <3>2. QED
      BY <2>2, <3>1, RestTraces
  <2>3. QED
    BY <2>1, <2>2
<1> HIDE DEF T
<1>2. \A t \in EuclidDomain : t \in T
  BY <1>1, EuclidDescends, Descent
<1>3. QED
  BY <1>2 DEF T

\* The last remainder divides the first two.
LEMMA EuclidDivides ==
  \A t \in EuclidDomain : Divides(Euclid[t].gcd, t[1]) /\ Divides(Euclid[t].gcd, t[2])
<1> DEFINE T == {t \in EuclidDomain : /\ Divides(Euclid[t].gcd, t[1])
                                      /\ Divides(Euclid[t].gcd, t[2])}
<1>1. ASSUME NEW t \in EuclidDomain, t \in EuclidEnd \/ EuclidNext[t] \in T
      PROVE  t \in T
  <2>0. /\ t[1] \in Nat /\ t[2] \in Nat /\ t[3] \in Int /\ t[4] \in Int
    BY DEF EuclidDomain
  <2>1. CASE t[2] = 0
    <3>1. Euclid[t].gcd = t[1]
      BY <2>1, EuclidDef
    <3>2. QED
      BY <2>0, <2>1, <3>1, DividesZero
  <2>2. CASE t[2] # 0
    <3> DEFINE q == t[1] \div t[2]
               g == Euclid[t].gcd
    <3>1. Rest(t) \in T /\ Euclid[t] = Euclid[Rest(t)]
      BY <1>1, <2>2, EuclidDef DEF EuclidNext, EuclidEnd
    <3>2. g \in Nat
      BY EuclidDef
    <3>0. q \in Int
      BY <2>0, <2>2
    <3>3. Rest(t)[1] = t[2] /\ Rest(t)[2] = t[1] - q * t[2]
      BY DEF Rest
    <3>4. Divides(g, t[2]) /\ Divides(g, t[1] - q * t[2])
      BY <3>1, <3>3
    <3> HIDE DEF q, g
    <3>5. PICK j \in Int, k \in Int : t[2] = g * j /\ t[1] - q * t[2] = g * k
      BY <3>4 DEF Divides
    <3>6. t[1] = g * (q * j + k) /\ q * j + k \in Int
      BY <2>0, <3>0, <3>2, <3>5
    <3>7. Divides(g, t[1])
      BY <3>6 DEF Divides
    <3>8. QED
      BY <3>4, <3>7 DEF g
  <2>3. QED
    BY <2>1, <2>2
<1> HIDE DEF T
<1>2. \A t \in EuclidDomain : t \in T
  BY <1>1, EuclidDescends, Descent
<1>3. QED
  BY <1>2 DEF T

(* _mod_inverse returns an inverse whenever it does not raise. *)
THEOREM ModInverse_Correct ==
  ASSUME NEW a \in Int, NEW m \in Nat \ {0}, Invertible(a, m)
  PROVE  /\ ModInverse(a, m) \in 0..(m - 1)
         /\ Divides(m, a * ModInverse(a, m) - 1)
<1>1. PICK r \in Nat : r = a % m /\ Divides(m, a - r)
  <2>1. a % m \in Nat
    BY DivMod
  <2>2. Divides(m, a - (a % m))
    BY Remainder
  <2>3. QED
    BY <2>1, <2>2
<1> DEFINE t == <<r, m, 1, 0>>
           x == Euclid[t].x
<1>2. t \in EuclidDomain
  BY DEF EuclidDomain
<1>3. Traces(t, a, m)
  <2>1. a * 1 - r = a - r /\ a * 0 - m = -m /\ Divides(m, -m)
    BY DividesZero, Differ
  <2>2. Divides(m, a * 1 - r) /\ Divides(m, a * 0 - m)
    BY <1>1, <2>1
  <2>3. QED
    BY <2>2 DEF Traces
<1>4. x \in Int /\ Euclid[t].gcd = 1
  BY <1>1, <1>2, EuclidDef DEF Invertible
<1>5. Divides(m, a * x - 1)
  BY <1>2, <1>3, <1>4, EuclidTraces
<1>6. ModInverse(a, m) = x % m
  BY <1>1 DEF ModInverse
<1> HIDE DEF x, t
<1>7. PICK y \in 0..(m - 1) : y = x % m /\ Divides(m, x - y)
  BY <1>4, DivMod, Remainder
<1>8. PICK j \in Int, k \in Int : a * x - 1 = m * j /\ x - y = m * k
  BY <1>5, <1>7 DEF Divides
<1>9. a * y - 1 = m * (j - a * k) /\ j - a * k \in Int
  BY <1>4, <1>8
<1>10. Divides(m, a * y - 1)
  BY <1>9 DEF Divides
<1>11. QED
  BY <1>6, <1>7, <1>10

\* It raises only when there is none: a common divisor is in the way.
LEMMA NoInverse ==
  ASSUME NEW a \in Int, NEW m \in Nat \ {0}
  PROVE  \E g \in Nat : /\ Divides(g, a) /\ Divides(g, m)
                        /\ Invertible(a, m) <=> g = 1
<1>1. PICK r \in Nat : r = a % m /\ Divides(m, a - r)
  <2>1. a % m \in Nat
    BY DivMod
  <2>2. Divides(m, a - (a % m))
    BY Remainder
  <2>3. QED
    BY <2>1, <2>2
<1> DEFINE t == <<r, m, 1, 0>>
           g == Euclid[t].gcd
<1>2. t \in EuclidDomain /\ t[1] = r /\ t[2] = m
  BY DEF EuclidDomain
<1>3. g \in Nat /\ Divides(g, r) /\ Divides(g, m)
  BY <1>2, EuclidDef, EuclidDivides
<1>4. Invertible(a, m) <=> g = 1
  BY <1>1 DEF Invertible
<1> HIDE DEF g, t
<1>5. PICK i \in Int, j \in Int, k \in Int :
        a - r = m * i /\ r = g * j /\ m = g * k
  BY <1>1, <1>3 DEF Divides
<1>6. a = g * (k * i + j) /\ k * i + j \in Int
  BY <1>3, <1>5
<1>7. Divides(g, a)
  BY <1>6 DEF Divides
<1>8. QED
  BY <1>3, <1>4, <1>7

(***************************************************************************)
(* Congruences, and what a prime modulus brings.                           *)
(***************************************************************************)
Cong(m, a, b) == Divides(m, a - b)

\* Congruence is kept by sums and products.
LEMMA CongRing ==
  ASSUME NEW m \in Nat \ {0}, NEW a \in Int, NEW b \in Int, NEW c \in Int, NEW d \in Int,
         Cong(m, a, b), Cong(m, c, d)
  PROVE  Cong(m, a + c, b + d) /\ Cong(m, a - c, b - d) /\ Cong(m, a * c, b * d) /\ Cong(m, b, a)
<1>1. PICK j \in Int, k \in Int : a - b = m * j /\ c - d = m * k
  BY DEF Cong, Divides
<1>2. /\ (a + c) - (b + d) = m * (j + k) /\ (a - c) - (b - d) = m * (j - k)
      /\ b - a = m * (-j)
  BY <1>1
<1>3. a * c - b * d = m * (j * c + b * k)
  <2>1. a * c - b * d = (a - b) * c + b * (c - d)
    OBVIOUS
  <2>2. (m * j) * c + b * (m * k) = m * (j * c + b * k)
    OBVIOUS
  <2>3. QED
    BY <1>1, <2>1, <2>2
<1>4. j + k \in Int /\ j - k \in Int /\ -j \in Int /\ j * c + b * k \in Int
  OBVIOUS
<1>5. QED
  BY <1>2, <1>3, <1>4 DEF Cong, Divides

LEMMA CongTrans ==
  ASSUME NEW m \in Nat \ {0}, NEW a \in Int, NEW b \in Int, NEW c \in Int, Cong(m, a, b), Cong(m, b, c)
  PROVE  Cong(m, a, c)
<1>1. PICK j \in Int, k \in Int : a - b = m * j /\ b - c = m * k
  BY DEF Cong, Divides
<1>2. a - c = m * (j + k) /\ j + k \in Int
  BY <1>1
<1>3. QED
  BY <1>2 DEF Cong, Divides

LEMMA CongRefl ==
  ASSUME NEW m \in Nat \ {0}, NEW a \in Int
  PROVE  Cong(m, a, a) /\ a % m \in 0..(m - 1) /\ Cong(m, a % m, a) /\ Cong(m, a, a % m)
<1>1. a - a = 0 /\ Divides(m, 0)
  BY DividesZero
<1>2. a % m \in 0..(m - 1)
  BY DivMod
<1>3. QED
  BY <1>1, <1>2, Remainder DEF Cong

LEMMA CongEqual ==
  ASSUME NEW m \in Nat \ {0}, NEW a \in Int, NEW b \in Int
  PROVE  /\ a % m = b % m <=> Cong(m, a, b)
         /\ a \in 0..(m - 1) /\ b \in 0..(m - 1) /\ Cong(m, a, b) => a = b
<1>1. a % m = b % m <=> Cong(m, a, b)
  BY SameRemainder DEF Cong
<1>2. \A c \in 0..(m - 1) : c % m = c
  OBVIOUS
<1>3. ASSUME a \in 0..(m - 1), b \in 0..(m - 1), Cong(m, a, b) PROVE a = b
  <2>1. a % m = b % m /\ a % m = a /\ b % m = b
    BY <1>1, <1>2, <1>3
  <2>2. QED
    BY <2>1
<1>4. QED
  BY <1>1, <1>3

Prime(p) == p \in Nat /\ p > 1 /\ IsPrime(p)

\* What is no multiple of a prime has an inverse, so _mod_inverse does not raise.
LEMMA NonzeroInvertible ==
  ASSUME NEW p, Prime(p), NEW a \in Int, ~Divides(p, a)
  PROVE  Invertible(a, p)
<1>0. p \in Nat \ {0} /\ p > 1 /\ IsPrime(p)
  BY DEF Prime
<1> USE <1>0
<1>1. PICK g \in Nat : /\ Divides(g, a) /\ Divides(g, p)
                       /\ Invertible(a, p) <=> g = 1
  BY NoInverse
<1>2. PICK k \in Int : p = g * k
  BY <1>1 DEF Divides
<1>3. g # 0 /\ g <= p
  <2>1. g # 0
    BY <1>2
  <2>2. k >= 1
    <3>1. k <= 0 => g * k <= 0
      OBVIOUS
    <3>2. QED
      BY <1>2, <3>1
  <2>3. g * k >= g
    BY <2>2
  <2>4. QED
    BY <1>2, <2>1, <2>3
<1>4. g # p
  BY <1>1
<1>5. g \notin 2..(p - 1)
  <2>1. p % g = 0
    BY <1>1, <1>3, Remainder
  <2>2. QED
    BY <2>1 DEF IsPrime
<1>6. g = 1
  BY <1>3, <1>4, <1>5
<1>7. QED
  BY <1>1, <1>6

\* A product is a multiple of a prime only when a factor is.
LEMMA PrimeDivides ==
  ASSUME NEW p, Prime(p), NEW a \in Int, NEW b \in Int, Divides(p, a * b)
  PROVE  Divides(p, a) \/ Divides(p, b)
<1>0. p \in Nat \ {0}
  BY DEF Prime
<1> USE <1>0
<1>1. SUFFICES ASSUME ~Divides(p, a) PROVE Divides(p, b)
  OBVIOUS
<1>2. PICK y \in Int : Divides(p, a * y - 1)
  <2>1. Invertible(a, p)
    BY <1>1, NonzeroInvertible
  <2>2. /\ ModInverse(a, p) \in 0..(p - 1)
        /\ Divides(p, a * ModInverse(a, p) - 1)
    BY <2>1, ModInverse_Correct
  <2>3. ModInverse(a, p) \in Int
    BY <2>2
  <2> QED BY <2>2, <2>3
<1>3. PICK j \in Int, k \in Int : a * b = p * j /\ a * y - 1 = p * k
  BY <1>2 DEF Divides
<1>4. b = p * (y * j - b * k)
  <2>1. b = y * (a * b) - b * (a * y - 1)
    OBVIOUS
  <2>2. y * (p * j) - b * (p * k) = p * (y * j - b * k)
    OBVIOUS
  <2>3. QED
    BY <1>3, <2>1, <2>2
<1>5. y * j - b * k \in Int
  OBVIOUS
<1>6. QED
  BY <1>4, <1>5 DEF Divides

(***************************************************************************)
(* The field of the curve.                                                 *)
(***************************************************************************)
LEMMA PType == P \in Nat \ {0} /\ P > 2 /\ ~Divides(P, 2)
<1>1. P \in Nat /\ P % 4 = 3
  BY CurveAssumption
<1>2. P > 2
  <2>1. P # 0 /\ P # 1 /\ P # 2
    BY <1>1
  <2>2. QED
    BY <1>1, <2>1
<1>3. ~Divides(P, 2)
  <2>1. 2 % P = 2
    BY <1>1, <1>2
  <2>2. P \in Nat \ {0} /\ 2 % P # 0
    BY <1>1, <1>2, <2>1
  <2>3. QED
    BY <2>2, Remainder
<1>4. QED
  BY <1>1, <1>2, <1>3

LEMMA PPrime == Prime(P)
BY PType, PrimeAssumption DEF Prime, IsPrime

Same(a, b) == Cong(P, a, b)

LEMMA SameRing ==
  ASSUME NEW a \in Int, NEW b \in Int, NEW c \in Int, NEW d \in Int,
         Same(a, b), Same(c, d)
  PROVE  Same(a + c, b + d) /\ Same(a - c, b - d) /\ Same(a * c, b * d) /\ Same(b, a)
BY PType, CongRing DEF Same

LEMMA SameTrans ==
  ASSUME NEW a \in Int, NEW b \in Int, NEW c \in Int, Same(a, b), Same(b, c)
  PROVE  Same(a, c)
BY PType, CongTrans DEF Same

LEMMA SameRefl ==
  ASSUME NEW a \in Int
  PROVE  Same(a, a) /\ a % P \in Coordinate /\ Same(a % P, a) /\ Same(a, a % P)
BY PType, CongRefl DEF Same, Coordinate

LEMMA SameEqual ==
  ASSUME NEW a \in Int, NEW b \in Int
  PROVE  /\ a % P = b % P <=> Same(a, b)
         /\ a \in Coordinate /\ b \in Coordinate /\ Same(a, b) => a = b
BY PType, CongEqual DEF Same, Coordinate

(***************************************************************************)
(* Adding points stays on the curve.                                       *)
(***************************************************************************)
OnCurve(x, y) == Same(y * y, x * x * x + B)

LEMMA BType == B \in Int
BY CurveAssumption

LEMMA CurvePairs ==
  ASSUME NEW x \in Coordinate, NEW y \in Coordinate
  PROVE  /\ <<x, y>> \in Point /\ <<x, y>> # Infinity
         /\ <<x, y>> \in CurvePoint <=> OnCurve(x, y)
<1>1. <<x, y>> \in Point /\ <<x, y>> # Infinity
  BY DEF Point, Infinity
<1>2. x \in Int /\ y \in Int
  BY PType DEF Coordinate
<1>3. IsOnCurve(<<x, y>>) <=> (y * y) % P = (x * x * x + B) % P
  BY <1>1 DEF IsOnCurve, Rhs
<1>4. y * y \in Int /\ x * x * x + B \in Int
  BY <1>2, BType
<1>5. (y * y) % P = (x * x * x + B) % P <=> OnCurve(x, y)
  BY <1>4, SameEqual DEF OnCurve
<1>6. QED
  BY <1>1, <1>3, <1>5 DEF CurvePoint

LEMMA InfinityPoint == Infinity \in CurvePoint
BY DEF CurvePoint, Point, IsOnCurve

LEMMA PointCases ==
  ASSUME NEW p \in CurvePoint, p # Infinity
  PROVE  \E x, y \in Coordinate : p = <<x, y>> /\ OnCurve(x, y)
<1>1. PICK x \in Coordinate, y \in Coordinate : p = <<x, y>>
  BY DEF CurvePoint, Point
<1>2. QED
  BY <1>1, CurvePairs

\* A line through two points with this slope meets the curve a third time.
LEMMA ThirdOnCurve ==
  ASSUME NEW x1 \in Coordinate, NEW y1 \in Coordinate, NEW x2 \in Coordinate,
         NEW y2 \in Coordinate, NEW slope \in Int,
         OnCurve(x1, y1),
         \A s, X \in Int :
           Same(s, slope) /\ X = s * s - x1 - x2
             => Divides(P, -2 * s * (y1 - s * x1) - (x1 * x2 + x1 * X + x2 * X))
  PROVE  Third(<<x1, y1>>, <<x2, y2>>, slope) \in CurvePoint \ {Infinity}
<1> DEFINE s == slope % P
           X == s * s - x1 - x2
           Y == s * (x1 - X) - y1
           x == X % P
           y == (s * (x1 - x) - y1) % P
           alpha == -2 * s * (y1 - s * x1) - (x1 * x2 + x1 * X + x2 * X)
<1>1. x1 \in Int /\ y1 \in Int /\ x2 \in Int /\ B \in Int
  BY PType, BType DEF Coordinate
<1>2. s \in Int /\ Same(s, slope)
  BY SameRefl, PType DEF Coordinate
<1>3. X \in Int /\ Y \in Int /\ alpha \in Int
  <2> HIDE DEF s
  <2> QED BY <1>1, <1>2
<1>4. x \in Coordinate /\ Same(x, X)
  <2> HIDE DEF X
  <2> QED BY <1>3, SameRefl
<1>5. x \in Int
  <2> HIDE DEF x
  <2> QED BY <1>4, PType DEF Coordinate
<1>6. y \in Coordinate /\ Same(y, s * (x1 - x) - y1)
  <2> HIDE DEF x, s
  <2> DEFINE z == s * (x1 - x) - y1
  <2>1. z \in Int
    BY <1>1, <1>2, <1>5
  <2> HIDE DEF z
  <2>2. z % P \in Coordinate /\ Same(z % P, z)
    BY <2>1, SameRefl
  <2>3. QED
    BY <2>2 DEF z
<1>7. Third(<<x1, y1>>, <<x2, y2>>, slope) = <<x, y>>
  BY DEF Third
<1>8. Divides(P, alpha)
  <2> HIDE DEF s
  <2> QED BY <1>2, <1>3
<1>9. Y * Y - X * X * X - B = (y1 * y1 - x1 * x1 * x1 - B) - alpha * (X - x1)
  <2> HIDE DEF s
  <2> QED BY <1>1, <1>2, <1>3
<1>10. y \in Int
  <2> HIDE DEF y
  <2> QED BY <1>6, PType DEF Coordinate
<1> HIDE DEF alpha, y
<1>11. Same(y, Y)
  <2> HIDE DEF x, X, s
  <2>1. Same(x1 - x, x1 - X)
    BY <1>1, <1>3, <1>4, <1>5, SameRefl, SameRing
  <2>2. x1 - x \in Int /\ x1 - X \in Int
    BY <1>1, <1>3, <1>5
  <2>3. Same(s * (x1 - x), s * (x1 - X))
    BY <1>2, <2>1, <2>2, SameRefl, SameRing
  <2>4. s * (x1 - x) \in Int /\ s * (x1 - X) \in Int
    BY <1>2, <2>2
  <2>5. Same(s * (x1 - x) - y1, Y)
    <3>1. Same(y1, y1)
      BY <1>1, SameRefl
    <3> QED BY <1>1, <2>3, <2>4, <3>1, SameRing
  <2>6. s * (x1 - x) - y1 \in Int
    BY <1>1, <2>4
  <2> HIDE DEF Y
  <2>7. QED
    BY <1>3, <1>6, <1>10, <2>5, <2>6, SameTrans
<1> HIDE DEF x, X, Y, s
<1>12. Same(y * y, Y * Y) /\ Same(X * X * X + B, x * x * x + B)
  <2>1. Same(X, x)
    BY <1>3, <1>4, <1>5, SameRing
  <2>2. Same(X * X, x * x) /\ X * X \in Int /\ x * x \in Int
    BY <1>3, <1>5, <2>1, SameRing
  <2>3. Same(X * X * X, x * x * x) /\ X * X * X \in Int /\ x * x * x \in Int
    BY <1>3, <1>5, <2>1, <2>2, SameRing
  <2>4. Same(B, B)
    BY BType, SameRefl
  <2>5. Same(X * X * X + B, x * x * x + B)
    BY <1>1, <2>3, <2>4, SameRing
  <2>6. QED
    BY <1>3, <1>10, <1>11, <2>5, SameRing
<1>13. Same(Y * Y, X * X * X + B)
  <2>1. PICK j \in Int, k \in Int :
          y1 * y1 - (x1 * x1 * x1 + B) = P * j /\ alpha = P * k
    BY <1>8 DEF OnCurve, Same, Cong, Divides
  <2>2. y1 * y1 - x1 * x1 * x1 - B = P * j
    BY <1>1, <2>1, PType
  <2>3. (P * k) * (X - x1) = P * (k * (X - x1)) /\ k * (X - x1) \in Int
    BY <1>1, <1>3, PType
  <2> DEFINE d == k * (X - x1)
  <2>4. Y * Y - X * X * X - B = P * j - P * d
    BY <1>9, <2>1, <2>2, <2>3
  <2>5. d \in Int
    BY <2>3
  <2> HIDE DEF d
  <2>6. Y * Y - (X * X * X + B) = P * (j - d) /\ j - d \in Int
    <3>1. Y * Y - (X * X * X + B) = Y * Y - X * X * X - B
      BY <1>1, <1>3
    <3>2. P * j - P * d = P * (j - d)
      BY <2>5, PType
    <3> QED BY <2>4, <2>5, <3>1, <3>2
  <2>7. QED
    BY <2>6 DEF Same, Cong, Divides
<1>14. OnCurve(x, y)
  <2>1. /\ y * y \in Int /\ Y * Y \in Int
        /\ X * X * X + B \in Int /\ x * x * x + B \in Int
    BY <1>1, <1>3, <1>5, <1>10
  <2>2. Same(y * y, X * X * X + B)
    BY <1>12, <1>13, <2>1, SameTrans
  <2>3. QED
    BY <1>12, <2>1, <2>2, SameTrans DEF OnCurve
<1>15. y \in Coordinate
  BY <1>6 DEF y
<1>16. QED
  BY <1>4, <1>7, <1>14, <1>15, CurvePairs DEF y

LEMMA InverseType ==
  ASSUME NEW a \in Int
  PROVE  ModInverse(a, P) \in Int
<1>1. PICK r \in Nat : r = a % P
  <2>1. a % P \in 0..(P - 1)
    BY SameRefl DEF Coordinate
  <2>2. QED
    BY <2>1, PType
<1>2. <<r, P, 1, 0>> \in EuclidDomain
  BY PType DEF EuclidDomain
<1>3. PICK x \in Int : x = Euclid[<<r, P, 1, 0>>].x
  BY <1>2, EuclidDef
<1>4. x % P \in Int
  BY SameRefl, PType DEF Coordinate
<1>5. QED
  BY <1>1, <1>3, <1>4 DEF ModInverse

\* The residue of a fraction: slope times d is n.
LEMMA Fraction ==
  ASSUME NEW n \in Int, NEW d \in Int, ~Divides(P, d), NEW s \in Int,
         Same(s, n * ModInverse(d, P))
  PROVE  Divides(P, s * d - n)
<1>1. PICK i \in Int : i = ModInverse(d, P) /\ Divides(P, d * i - 1)
  <2>1. Invertible(d, P)
    BY PPrime, NonzeroInvertible
  <2>2. Divides(P, d * ModInverse(d, P) - 1)
    BY <2>1, PType, ModInverse_Correct
  <2>3. QED
    BY <2>2, InverseType
<1>2. PICK j \in Int, k \in Int : d * i - 1 = P * j /\ s - n * i = P * k
  BY <1>1 DEF Same, Cong, Divides
<1>3. s * d - n = P * (k * d + n * j)
  <2>1. s * d - n = (s - n * i) * d + n * (d * i - 1)
    BY <1>1
  <2>2. (P * k) * d + n * (P * j) = P * (k * d + n * j)
    BY PType
  <2>3. QED
    BY <1>2, <2>1, <2>2
<1>4. k * d + n * j \in Int
  OBVIOUS
<1>5. QED
  BY <1>3, <1>4 DEF Divides

\* The slopes of a tangent and of a chord.
LEMMA Tangent ==
  ASSUME NEW x1 \in Coordinate, NEW y1 \in Coordinate, OnCurve(x1, y1),
         ~Divides(P, 2 * y1)
  PROVE  Third(<<x1, y1>>, <<x1, y1>>, 3 * x1 * x1 * ModInverse(2 * y1, P))
           \in CurvePoint \ {Infinity}
<1> DEFINE slope == 3 * x1 * x1 * ModInverse(2 * y1, P)
<1>1. x1 \in Int /\ y1 \in Int /\ 2 * y1 \in Int /\ 3 * x1 * x1 \in Int
  BY PType DEF Coordinate
<1>2. slope \in Int
  BY <1>1, InverseType
<1>3. ASSUME NEW s \in Int, NEW X \in Int, Same(s, slope), X = s * s - x1 - x1
      PROVE  Divides(P, -2 * s * (y1 - s * x1) - (x1 * x1 + x1 * X + x1 * X))
  <2>1. Divides(P, s * (2 * y1) - 3 * x1 * x1)
    BY <1>1, <1>3, Fraction
  <2>2. s * (2 * y1) - 3 * x1 * x1 \in Int
    BY <1>1
  <2>3. Divides(P, -(s * (2 * y1) - 3 * x1 * x1))
    BY <2>1, <2>2, PType, Differ
  <2>4. -2 * s * (y1 - s * x1) - (x1 * x1 + x1 * X + x1 * X)
          = -(s * (2 * y1) - 3 * x1 * x1)
    BY <1>1, <1>3
  <2>5. QED
    BY <2>3, <2>4
<1> HIDE DEF slope
<1>4. Third(<<x1, y1>>, <<x1, y1>>, slope) \in CurvePoint \ {Infinity}
  BY <1>2, <1>3, ThirdOnCurve
<1>5. QED
  BY <1>4 DEF slope

LEMMA Chord ==
  ASSUME NEW x1 \in Coordinate, NEW y1 \in Coordinate, OnCurve(x1, y1),
         NEW x2 \in Coordinate, NEW y2 \in Coordinate, OnCurve(x2, y2),
         ~Divides(P, x2 - x1)
  PROVE  Third(<<x1, y1>>, <<x2, y2>>, (y2 - y1) * ModInverse(x2 - x1, P))
           \in CurvePoint \ {Infinity}
<1> DEFINE slope == (y2 - y1) * ModInverse(x2 - x1, P)
<1>1. /\ x1 \in Int /\ y1 \in Int /\ x2 \in Int /\ y2 \in Int /\ B \in Int
      /\ x2 - x1 \in Int /\ y2 - y1 \in Int
  BY PType, BType DEF Coordinate
<1>2. slope \in Int
  BY <1>1, InverseType
<1>3. ASSUME NEW s \in Int, NEW X \in Int, Same(s, slope), X = s * s - x1 - x2
      PROVE  Divides(P, -2 * s * (y1 - s * x1) - (x1 * x2 + x1 * X + x2 * X))
  <2> DEFINE alpha == -2 * s * (y1 - s * x1) - (x1 * x2 + x1 * X + x2 * X)
             e1 == y1 * y1 - x1 * x1 * x1 - B
             e2 == y2 * y2 - x2 * x2 * x2 - B
             e3 == s * (x2 - x1) - (y2 - y1)
  <2>1. alpha \in Int /\ e1 \in Int /\ e2 \in Int /\ e3 \in Int
    BY <1>1
  <2>2. alpha * (x2 - x1) = e1 - e2 - e3 * (2 * y2 + e3)
    BY <1>1, <1>3
  <2>3. Divides(P, e3)
    BY <1>1, <1>3, Fraction
  <2>4. e1 = y1 * y1 - (x1 * x1 * x1 + B) /\ e2 = y2 * y2 - (x2 * x2 * x2 + B)
    BY <1>1
  <2>5. Divides(P, e1) /\ Divides(P, e2)
    BY <2>4 DEF OnCurve, Same, Cong
  <2> HIDE DEF e1, e2, e3, alpha
  <2>6. PICK i \in Int, j \in Int, k \in Int : e1 = P * i /\ e2 = P * j /\ e3 = P * k
    BY <2>3, <2>5 DEF Divides
  <2>7. (P * k) * (2 * y2 + e3) = P * (k * (2 * y2 + e3))
    BY <1>1, <2>1, PType
  <2>8. PICK c \in Int : c = k * (2 * y2 + e3)
    BY <1>1, <2>1
  <2>9. alpha * (x2 - x1) = P * i - P * j - P * c
    BY <2>2, <2>6, <2>7, <2>8
  <2>10. alpha * (x2 - x1) = P * (i - j - c) /\ i - j - c \in Int
    BY <2>9, PType
  <2>11. Divides(P, alpha * (x2 - x1))
    BY <2>10 DEF Divides
  <2>12. Divides(P, alpha)
    BY <1>1, <2>1, <2>11, PPrime, PrimeDivides
  <2>13. QED
    BY <2>12 DEF alpha
<1> HIDE DEF slope
<1>4. Third(<<x1, y1>>, <<x2, y2>>, slope) \in CurvePoint \ {Infinity}
  BY <1>2, <1>3, ThirdOnCurve
<1>5. QED
  BY <1>4 DEF slope

\* Two points of one x coordinate are equal or opposite.
LEMMA Opposite ==
  ASSUME NEW x \in Coordinate, NEW y1 \in Coordinate, NEW y2 \in Coordinate,
         OnCurve(x, y1), OnCurve(x, y2)
  PROVE  y2 = y1 \/ y2 = (-y1) % P
<1>1. /\ x \in Int /\ y1 \in Int /\ y2 \in Int
      /\ y1 * y1 \in Int /\ y2 * y2 \in Int /\ x * x * x + B \in Int
  BY PType, BType DEF Coordinate
<1>2. Same(x * x * x + B, y2 * y2)
  BY <1>1, SameRing DEF OnCurve
<1>3. Divides(P, y1 * y1 - y2 * y2)
  BY <1>1, <1>2, SameTrans DEF OnCurve, Same, Cong
<1>4. y1 * y1 - y2 * y2 = (y2 - y1) * (-(y1 + y2))
  BY <1>1
<1>5. Divides(P, y2 - y1) \/ Divides(P, -(y1 + y2))
  BY <1>1, <1>3, <1>4, PPrime, PrimeDivides
<1>6. CASE Divides(P, y2 - y1)
  BY <1>1, <1>6, SameEqual DEF Same, Cong
<1>7. CASE Divides(P, -(y1 + y2))
  <2>1. -(y1 + y2) = -y1 - y2 /\ -y1 \in Int
    BY <1>1
  <2>2. (-y1) % P = y2 % P
    BY <1>1, <1>7, <2>1, SameEqual DEF Same, Cong
  <2>3. y2 % P = y2
    BY PType DEF Coordinate
  <2>4. QED
    BY <2>2, <2>3
<1>8. QED
  BY <1>5, <1>6, <1>7

(* Adding two points of the curve gives a point of the curve, and infinity
   only for two opposite points. *)
THEOREM Add_Closed ==
  ASSUME NEW p \in CurvePoint, NEW q \in CurvePoint
  PROVE  Add(p, q) \in CurvePoint /\ (Add(p, q) = Infinity <=> q = Negate(p))
<1>1. CASE p = Infinity
  BY <1>1 DEF Add, Negate
<1>2. CASE p # Infinity /\ q = Infinity
  <2>1. Negate(p) # Infinity /\ Add(p, q) = p
    BY <1>2 DEF Add, Negate, Infinity
  <2>2. QED
    BY <1>2, <2>1
<1>3. CASE p # Infinity /\ q # Infinity
  <2>1. PICK x1 \in Coordinate, y1 \in Coordinate, x2 \in Coordinate, y2 \in Coordinate :
          p = <<x1, y1>> /\ q = <<x2, y2>> /\ OnCurve(x1, y1) /\ OnCurve(x2, y2)
    BY <1>3, PointCases
  <2>2. x1 \in Int /\ y1 \in Int /\ x2 \in Int /\ y2 \in Int
    BY <2>1, PType DEF Coordinate
  <2>3. Negate(p) = <<x1, (-y1) % P>>
    BY <1>3, <2>1 DEF Negate
  <2>4. CASE q = Negate(p)
    <3>1. Add(p, q) = Infinity
      BY <1>3, <2>4 DEF Add
    <3>2. QED
      BY <2>4, <3>1, InfinityPoint
  <2>5. CASE q # Negate(p) /\ p = q
    <3>1. Add(p, q) = Third(p, p, 3 * x1 * x1 * ModInverse(2 * y1, P))
      BY <1>3, <2>1, <2>5 DEF Add
    <3>2. ~Divides(P, 2 * y1)
      <4>1. SUFFICES ASSUME Divides(P, 2 * y1) PROVE FALSE
        OBVIOUS
      <4>2. 2 * y1 = y1 - (-y1) /\ -y1 \in Int
        BY <2>2
      <4>3. y1 % P = (-y1) % P
        BY <2>2, <4>1, <4>2, SameEqual DEF Same, Cong
      <4>4. y1 % P = y1
        BY PType DEF Coordinate
      <4>5. QED
        BY <2>1, <2>3, <2>5, <4>3, <4>4
    <3>3. QED
      BY <2>1, <2>5, <3>1, <3>2, Tangent
  <2>6. CASE q # Negate(p) /\ p # q
    <3>1. Add(p, q) = Third(p, q, (y2 - y1) * ModInverse(x2 - x1, P))
      BY <1>3, <2>1, <2>6 DEF Add
    <3>2. ~Divides(P, x2 - x1)
      <4>1. SUFFICES ASSUME Divides(P, x2 - x1) PROVE FALSE
        OBVIOUS
      <4>2. x2 = x1
        BY <2>2, <4>1, SameEqual DEF Same, Cong
      <4>3. y2 = y1 \/ y2 = (-y1) % P
        BY <2>1, <4>2, Opposite
      <4>4. QED
        BY <2>1, <2>3, <2>6, <4>2, <4>3
    <3>3. QED
      BY <2>1, <2>6, <3>1, <3>2, Chord
  <2>7. QED
    BY <2>4, <2>5, <2>6
<1>4. QED
  BY <1>1, <1>2, <1>3

(***************************************************************************)
(* Double-and-add.                                                         *)
(***************************************************************************)
LEMMA AddType ==
  ASSUME NEW p \in Point, NEW q \in Point
  PROVE  Add(p, q) \in Point
<1>1. CASE p = Infinity \/ q = Infinity \/ q = Negate(p)
  BY <1>1 DEF Add, Point
<1>2. CASE p # Infinity /\ q # Infinity /\ q # Negate(p)
  <2>1. PICK x1 \in Coordinate, y1 \in Coordinate, x2 \in Coordinate, y2 \in Coordinate :
          p = <<x1, y1>> /\ q = <<x2, y2>>
    BY <1>2 DEF Point
  <2>2. x1 \in Int /\ y1 \in Int /\ x2 \in Int /\ y2 \in Int
    BY PType DEF Coordinate
  <2>3. \A slope \in Int : Third(<<x1, y1>>, <<x2, y2>>, slope) \in Point
    <3>1. SUFFICES ASSUME NEW slope \in Int
                   PROVE  Third(<<x1, y1>>, <<x2, y2>>, slope) \in Point
      OBVIOUS
    <3>2. PICK s \in Int : s = slope % P
      <4>1. slope % P \in 0..(P - 1)
        BY SameRefl DEF Coordinate
      <4>2. QED
        BY <4>1, PType
    <3>3. PICK x \in Coordinate : x = (s * s - x1 - x2) % P
      <4>1. s * s - x1 - x2 \in Int
        BY <2>2
      <4>2. QED
        BY <4>1, SameRefl
    <3>4. PICK y \in Coordinate : y = (s * (x1 - x) - y1) % P
      <4>1. x \in Int
        BY PType DEF Coordinate
      <4>2. s * (x1 - x) - y1 \in Int
        BY <2>2, <4>1
      <4>3. QED
        BY <4>2, SameRefl
    <3>5. Third(<<x1, y1>>, <<x2, y2>>, slope) = <<x, y>>
      BY <3>2, <3>3, <3>4 DEF Third
    <3>6. QED
      BY <3>5 DEF Point
  <2>4. CASE p = q
    <3>1. Add(p, q) = Third(p, p, 3 * x1 * x1 * ModInverse(2 * y1, P))
      BY <1>2, <2>1, <2>4 DEF Add
    <3>2. ModInverse(2 * y1, P) \in Int
      BY <2>2, InverseType
    <3>3. 3 * x1 * x1 * ModInverse(2 * y1, P) \in Int
      BY <2>2, <3>2
    <3>4. QED
      BY <2>1, <2>3, <2>4, <3>1, <3>3
  <2>5. CASE p # q
    <3>1. Add(p, q) = Third(p, q, (y2 - y1) * ModInverse(x2 - x1, P))
      BY <1>2, <2>1, <2>5 DEF Add
    <3>2. ModInverse(x2 - x1, P) \in Int
      BY <2>2, InverseType
    <3>3. (y2 - y1) * ModInverse(x2 - x1, P) \in Int
      BY <2>2, <3>2
    <3>4. QED
      BY <2>1, <2>3, <3>1, <3>3
  <2>6. QED
    BY <2>4, <2>5
<1>3. QED
  BY <1>1, <1>2

LEMMA GPoint == G \in CurvePoint
<1>1. Gx \in Coordinate /\ Gy \in Coordinate
  BY CurveAssumption DEF Coordinate
<1>2. Gx \in Int /\ Gy \in Int /\ Gx * Gx * Gx \in Int /\ Gy * Gy \in Int
  BY <1>1, PType DEF Coordinate
<1>3. PICK z \in Int : z = Gy * Gy - Gx * Gx * Gx - B
  BY <1>2, BType
<1>4. Divides(P, z)
  <2>1. z % P = 0
    BY <1>3, CurveAssumption
  <2>2. QED
    BY <2>1, PType, Remainder
<1>5. z = Gy * Gy - (Gx * Gx * Gx + B)
  BY <1>2, <1>3, BType
<1>6. OnCurve(Gx, Gy)
  BY <1>4, <1>5 DEF OnCurve, Same, Cong
<1>7. QED
  BY <1>1, <1>6, CurvePairs DEF G

\* A recursion over the numbers: what Times computes, and that it is defined.
LEMMA TimesDef ==
  /\ Times \in [Nat -> CurvePoint]
  /\ Times[0] = Infinity
  /\ \A n \in Nat : Times[n + 1] = Add(Times[n], G)
<1> DEFINE Z == {0}
           mu == [n \in Nat |-> n]
           next == [n \in Nat |-> IF n = 0 THEN 0 ELSE n - 1]
           base == [n \in Nat |-> Infinity]
           comb == [t \in Nat \X CurvePoint |-> Add(t[2], G)]
<1>1. base \in [Nat -> CurvePoint] /\ comb \in [Nat \X CurvePoint -> CurvePoint]
  <2>1. \A t \in Nat \X CurvePoint : t[2] \in CurvePoint /\ Add(t[2], G) \in CurvePoint
    BY GPoint, Add_Closed
  <2>2. QED
    BY <2>1, InfinityPoint
<1>2. Descends(Nat, Z, mu, next)
  BY DEF Descends
<1>3. PICK f \in [Nat -> CurvePoint] : Solution(f, Nat, Z, next, base, comb)
  <2> HIDE DEF Z, mu, next, base, comb
  <2> QED BY <1>1, <1>2, Recursion
<1>4. \A n \in Nat : f[n] = IF n = 0 THEN Infinity ELSE Add(f[n - 1], G)
  <2>1. SUFFICES ASSUME NEW n \in Nat
                 PROVE  f[n] = IF n = 0 THEN Infinity ELSE Add(f[n - 1], G)
    OBVIOUS
  <2>2. f[n] = IF n \in Z THEN base[n] ELSE comb[<<n, f[next[n]]>>]
    BY <1>3 DEF Solution
  <2>3. CASE n = 0
    BY <2>2, <2>3
  <2>4. CASE n # 0
    <3>1. n - 1 \in Nat /\ next[n] = n - 1
      BY <2>4
    <3>2. f[n - 1] \in CurvePoint
      BY <1>3, <3>1
    <3> HIDE DEF next
    <3>3. comb[<<n, f[n - 1]>>] = Add(f[n - 1], G)
      BY <3>2
    <3>4. QED
      BY <2>2, <2>4, <3>1, <3>3
  <2>5. QED
    BY <2>3, <2>4
<1> DEFINE body(g) == [n \in Nat |-> IF n = 0 THEN Infinity ELSE Add(g[n - 1], G)]
<1>5. f = body(f)
  BY <1>3, <1>4
<1>6. Times = CHOOSE g : g = body(g)
  BY DEF Times
<1>7. Times = body(Times)
  <2> HIDE DEF body
  <2> QED BY <1>5, <1>6
<1>8. \A n \in Nat : Times[n] = IF n = 0 THEN Infinity ELSE Add(Times[n - 1], G)
  BY <1>7
<1>9. \A n \in Nat : f[n] = Times[n]
  <2>1. Follows(f, Times, Nat, Z, next)
    BY <1>4, <1>8 DEF Follows
  <2> HIDE DEF Z, mu, next
  <2>2. QED
    BY <2>1, <1>2, Agreement
<1>10. Times = f
  BY <1>4, <1>7, <1>9
<1>11. \A n \in Nat : n + 1 \in Nat /\ n + 1 # 0 /\ (n + 1) - 1 = n
  OBVIOUS
<1>12. QED
  BY <1>3, <1>8, <1>10, <1>11

LEMMA TimesSum ==
  ASSUME NEW m \in Nat, NEW n \in Nat
  PROVE  Times[m + n] = Add(Times[m], Times[n])
<1> DEFINE T == {k \in Nat : Times[m + k] = Add(Times[m], Times[k])}
<1>1. 0 \in T
  <2>1. Add(Times[m], Infinity) = Times[m]
    BY DEF Add
  <2>2. QED
    BY <2>1, TimesDef
<1>2. ASSUME NEW k \in T PROVE k + 1 \in T
  <2>1. m + k \in Nat /\ m + (k + 1) = (m + k) + 1 /\ k + 1 \in Nat
    OBVIOUS
  <2>2. Times[m + (k + 1)] = Add(Add(Times[m], Times[k]), G)
    BY <2>1, TimesDef
  <2>3. Times[m] \in CurvePoint /\ Times[k] \in CurvePoint
    BY TimesDef
  <2>4. Times[m + (k + 1)] = Add(Times[m], Add(Times[k], G))
    BY <2>2, <2>3, GroupAssumption
  <2>5. QED
    BY <2>1, <2>4, TimesDef
<1> HIDE DEF T
<1>3. \A k \in Nat : k \in T
  <2>1. T \in SUBSET Nat
    BY DEF T
  <2>2. QED
    BY <1>1, <1>2, <2>1, SetInduction
<1>4. QED
  BY <1>3 DEF T

\* A number whose multiple is at infinity can be left out.
LEMMA TimesPeriod ==
  ASSUME NEW m \in Nat, Times[m] = Infinity, NEW n \in Nat
  PROVE  \A i \in Nat : Times[i + m * n] = Times[i]
<1> DEFINE T == {k \in Nat : \A i \in Nat : Times[i + m * k] = Times[i]}
<1>1. 0 \in T
  <2>1. \A i \in Nat : i + m * 0 = i
    OBVIOUS
  <2>2. QED
    BY <2>1
<1>2. ASSUME NEW k \in T PROVE k + 1 \in T
  <2>1. ASSUME NEW i \in Nat PROVE Times[i + m * (k + 1)] = Times[i]
    <3>1. i + m \in Nat /\ i + m * (k + 1) = (i + m) + m * k
      OBVIOUS
    <3>2. Times[i + m * (k + 1)] = Times[i + m]
      BY <3>1
    <3>3. Add(Times[i], Infinity) = Times[i]
      BY DEF Add
    <3>4. QED
      BY <3>2, <3>3, TimesSum
  <2>2. QED
    BY <2>1
<1> HIDE DEF T
<1>3. \A k \in Nat : k \in T
  <2>1. T \in SUBSET Nat
    BY DEF T
  <2>2. QED
    BY <1>1, <1>2, <2>1, SetInduction
<1>4. QED
  BY <1>3 DEF T

LEMMA TimesOrder ==
  ASSUME NEW n \in Nat
  PROVE  Times[n] = Times[n % N]
<1>1. N \in Nat \ {0} /\ Times[N] = Infinity
  BY CurveAssumption, GroupAssumption
<1> DEFINE q == n \div N
           r == n % N
<1>2. q \in Int /\ r \in 0..(N - 1) /\ n = N * q + r
  <2>1. N \in Nat \ {0}
    BY <1>1
  <2>2. QED
    BY <2>1
<1>0. r \in Nat /\ r < N
  BY <1>1, <1>2
<1> HIDE DEF q, r
<1>3. q \in Nat
  <2>1. SUFFICES ASSUME q <= -1 PROVE FALSE
    BY <1>2
  <2>2. N * q <= -N
    BY <1>1, <1>2, <2>1
  <2>3. QED
    BY <1>0, <1>1, <1>2, <2>2
<1>4. n = r + N * q
  BY <1>0, <1>1, <1>2
<1>5. \A i \in Nat : Times[i + N * q] = Times[i]
  BY <1>1, <1>3, TimesPeriod
<1>6. QED
  BY <1>0, <1>4, <1>5 DEF r

LEMMA TimesNegate ==
  ASSUME NEW m \in 0..N
  PROVE  Negate(Times[m]) = Times[N - m]
<1>1. m \in Nat /\ N - m \in Nat /\ m + (N - m) = N
  BY CurveAssumption
<1>2. Add(Times[m], Times[N - m]) = Infinity
  BY <1>1, TimesSum, GroupAssumption
<1>3. Times[m] \in CurvePoint /\ Times[N - m] \in CurvePoint
  BY <1>1, TimesDef
<1>4. QED
  BY <1>2, <1>3, Add_Closed

LadderDomain == Nat \X Point \X Point
Doubled(t) == <<t[1] \div 2, IF t[1] % 2 = 1 THEN Add(t[2], t[3]) ELSE t[2],
                Add(t[3], t[3])>>
LadderEnd == {t \in LadderDomain : t[1] = 0}
LadderMeasure == [t \in LadderDomain |-> t[1]]
LadderNext == [t \in LadderDomain |-> IF t[1] = 0 THEN t ELSE Doubled(t)]

LEMMA LadderDescends == Descends(LadderDomain, LadderEnd, LadderMeasure, LadderNext)
<1>1. ASSUME NEW t \in LadderDomain, t[1] # 0
      PROVE  Doubled(t) \in LadderDomain /\ Doubled(t)[1] < t[1]
  <2>1. PICK n \in Nat \ {0}, r \in Point, a \in Point : t = <<n, r, a>>
    BY <1>1 DEF LadderDomain
  <2>2. n \div 2 \in Nat /\ n \div 2 < n
    OBVIOUS
  <2>3. Add(r, a) \in Point /\ Add(a, a) \in Point
    BY AddType
  <2>4. QED
    BY <2>1, <2>2, <2>3 DEF Doubled, LadderDomain
<1>2. /\ LadderMeasure \in [LadderDomain -> Nat]
      /\ LadderNext \in [LadderDomain -> LadderDomain]
  BY <1>1 DEF LadderMeasure, LadderNext, LadderDomain
<1>3. QED
  BY <1>1, <1>2 DEF LadderEnd, LadderMeasure, LadderNext, Descends

\* The loop of _scalar_mult ends: its result is defined and follows it.
LEMMA LadderDef ==
  \A t \in LadderDomain : Ladder[t] = IF t[1] = 0 THEN t[2] ELSE Ladder[Doubled(t)]
<1> DEFINE base == [t \in LadderDomain |-> t[2]]
           comb == [p \in LadderDomain \X Point |-> p[2]]
           body(g) == [t \in LadderDomain |-> IF t[1] = 0 THEN t[2] ELSE g[Doubled(t)]]
<1>1. base \in [LadderDomain -> Point] /\ comb \in [LadderDomain \X Point -> Point]
  BY DEF LadderDomain
<1>2. PICK f \in [LadderDomain -> Point] :
        Solution(f, LadderDomain, LadderEnd, LadderNext, base, comb)
  <2> HIDE DEF base, comb
  <2> QED BY <1>1, LadderDescends, Recursion
<1>3. \A t \in LadderDomain : f[t] = IF t[1] = 0 THEN t[2] ELSE f[Doubled(t)]
  <2>1. SUFFICES ASSUME NEW t \in LadderDomain
                 PROVE  f[t] = IF t[1] = 0 THEN t[2] ELSE f[Doubled(t)]
    OBVIOUS
  <2>2. f[t] = IF t \in LadderEnd THEN base[t] ELSE comb[<<t, f[LadderNext[t]]>>]
    BY <1>2 DEF Solution
  <2>3. LadderNext[t] \in LadderDomain
    BY LadderDescends DEF Descends
  <2>4. comb[<<t, f[LadderNext[t]]>>] = f[LadderNext[t]]
    <3>1. f[LadderNext[t]] \in Point
      BY <1>2, <2>3
    <3>2. QED
      BY <3>1
  <2> HIDE DEF comb
  <2>5. QED
    BY <2>2, <2>4 DEF LadderEnd, LadderNext
<1>4. f = body(f)
  BY <1>2, <1>3
<1>5. Ladder = CHOOSE g : g = body(g)
  BY DEF Ladder, LadderDomain, Doubled
<1>6. Ladder = body(Ladder)
  <2> HIDE DEF body
  <2> QED BY <1>4, <1>5
<1>7. QED
  BY <1>6

\* From result and addend Times[i] and Times[j], n bits of k left bring n * j more.
LEMMA LadderTimes ==
  ASSUME NEW n \in Nat, NEW i \in Nat, NEW j \in Nat
  PROVE  Ladder[<<n, Times[i], Times[j]>>] = Times[i + n * j]
<1> DEFINE T == {t \in LadderDomain : \A a, b \in Nat :
                   t[2] = Times[a] /\ t[3] = Times[b] => Ladder[t] = Times[a + t[1] * b]}
<1>1. ASSUME NEW t \in LadderDomain, t \in LadderEnd \/ LadderNext[t] \in T
      PROVE  t \in T
  <2>1. SUFFICES ASSUME NEW a \in Nat, NEW b \in Nat, t[2] = Times[a], t[3] = Times[b]
                 PROVE  Ladder[t] = Times[a + t[1] * b]
    OBVIOUS
  <2>2. PICK k \in Nat : t[1] = k /\ t = <<k, Times[a], Times[b]>>
    BY <2>1 DEF LadderDomain
  <2>3. CASE k = 0
    <3>1. Ladder[t] = Times[a] /\ a + k * b = a
      BY <2>1, <2>2, <2>3, LadderDef
    <3>2. QED
      BY <2>2, <3>1
  <2>4. CASE k # 0
    <3>1. Doubled(t) \in T /\ Ladder[t] = Ladder[Doubled(t)]
      BY <1>1, <2>2, <2>4, LadderDef DEF LadderEnd, LadderNext
    <3>2. PICK h \in Nat, o \in {0, 1} :
            h = k \div 2 /\ o = k % 2 /\ k = 2 * h + o
      OBVIOUS
    <3>3. Add(Times[b], Times[b]) = Times[b + b] /\ Add(Times[a], Times[b]) = Times[a + b]
      BY TimesSum
    <3>4. Doubled(t) = <<h, Times[IF o = 1 THEN a + b ELSE a], Times[b + b]>>
      BY <2>2, <3>2, <3>3 DEF Doubled
    <3>5. PICK c \in Nat, d \in Nat : c = (IF o = 1 THEN a + b ELSE a) /\ d = b + b
      OBVIOUS
    <3>6. Ladder[Doubled(t)] = Times[c + h * d]
      BY <3>1, <3>4, <3>5
    <3>7. c + h * d = a + k * b
      BY <3>2, <3>5
    <3>8. QED
      BY <2>2, <3>1, <3>6, <3>7
  <2>5. QED
    BY <2>3, <2>4
<1> HIDE DEF T
<1>2. \A t \in LadderDomain : t \in T
  BY <1>1, LadderDescends, Descent
<1>3. <<n, Times[i], Times[j]>> \in LadderDomain
  BY TimesDef DEF LadderDomain, CurvePoint
<1>4. QED
  BY <1>2, <1>3 DEF T

(* Double-and-add is adding again and again, for every scalar. *)
THEOREM ScalarMult_Correct ==
  ASSUME NEW k \in Int, NEW m \in Scalar
  PROVE  /\ ScalarMult(k, Times[m]) = Times[(k * m) % N]
         /\ ScalarMult(k, Times[m]) \in CurvePoint
<1>0. N \in Nat \ {0} /\ N \in Int
  BY CurveAssumption
<1>1. N \in Nat \ {0} /\ m \in Nat /\ m \in 0..N /\ k * m \in Int
  BY CurveAssumption DEF Scalar
<1>2. (k * m) % N \in Nat /\ Divides(N, ((k * m) % N) - k * m)
  <2>1. PICK z \in Int : z = k * m
    BY <1>1
  <2>2. z % N \in 0..(N - 1) /\ Divides(N, (z % N) - z)
    BY <1>1, <2>1, DivMod, Remainder
  <2>3. QED
    BY <1>1, <2>1, <2>2
<1>3. SUFFICES ScalarMult(k, Times[m]) = Times[(k * m) % N]
  BY <1>2, TimesDef
<1>4. CASE k % N = 0
  <2>1. (k * m) % N = 0
    <3>1. PICK z \in Int : z = k * m
      BY <1>1
    <3>2. Divides(N, k)
      BY <1>1, <1>4, Remainder
    <3>3. Divides(N, m * k) /\ m * k = z
      BY <1>1, <3>1, <3>2, Times1
    <3>4. QED
      BY <1>1, <3>1, <3>3, Remainder
  <2>2. QED
    BY <1>4, <2>1, TimesDef DEF ScalarMult
<1>5. CASE k % N # 0 /\ Times[m] = Infinity
  <2>1. ScalarMult(k, Times[m]) = Infinity
    BY <1>5 DEF ScalarMult
  <2>2. PICK z \in Nat : z = k % N /\ Divides(N, z - k)
    <3>1. k % N \in 0..(N - 1) /\ Divides(N, (k % N) - k)
      BY <1>1, DivMod, Remainder
    <3>2. QED
      BY <1>1, <3>1
  <2>3. PICK u \in Nat : u = m * z
    BY <1>1
  <2>4. PICK v \in Int, w \in Int : v = z - k /\ w = k * m
    BY <1>1
  <2>5. u % N = w % N
    <3>0. Divides(N, v) /\ m \in Int
      BY <1>1, <2>2, <2>4
    <3>1. Divides(N, m * v)
      BY <1>0, <3>0, Times1
    <3>2. m * v = u - w
      BY <1>1, <2>3, <2>4
    <3>3. Divides(N, u - w)
      BY <3>1, <3>2
    <3>4. QED
      <4>1. u \in Int
        OBVIOUS
      <4>2. QED
        BY <1>0, <3>3, <4>1, SameRemainder
  <2>6. Times[0 + m * z] = Times[0]
    BY <1>1, <1>5, TimesPeriod
  <2>7. Times[u] = Infinity
    BY <1>1, <2>3, <2>6, TimesDef
  <2>8. Times[u] = Times[u % N]
    BY TimesOrder
  <2>9. QED
    BY <2>1, <2>4, <2>5, <2>7, <2>8
<1>6. CASE k % N # 0 /\ Times[m] # Infinity /\ k >= 0
  <2>1. ScalarMult(k, Times[m]) = Ladder[<<k, Infinity, Times[m]>>]
    BY <1>6 DEF ScalarMult
  <2>2. k \in Nat /\ 0 + k * m = k * m /\ k * m \in Nat
    BY <1>1, <1>6
  <2>3. ScalarMult(k, Times[m]) = Times[k * m]
    BY <1>1, <2>1, <2>2, LadderTimes, TimesDef
  <2>4. QED
    BY <2>2, <2>3, TimesOrder
<1>7. CASE k % N # 0 /\ Times[m] # Infinity /\ k < 0
  <2>1. ScalarMult(k, Times[m]) = Ladder[<<-k, Infinity, Negate(Times[m])>>]
    BY <1>7 DEF ScalarMult
  <2>2. PICK j \in Nat, n \in Nat : j = -k /\ n = N - m
    BY <1>1, <1>7
  <2>3. PICK u \in Nat : u = j * n
    OBVIOUS
  <2>4. ScalarMult(k, Times[m]) = Ladder[<<j, Times[0], Times[n]>>]
    BY <1>1, <2>1, <2>2, TimesNegate, TimesDef
  <2>5. ScalarMult(k, Times[m]) = Times[u]
    BY <2>3, <2>4, LadderTimes
  <2>6. PICK w \in Int : w = k * m
    BY <1>1
  <2>7. u - w = N * (-k) /\ -k \in Int
    BY <1>1, <2>2, <2>3, <2>6
  <2>8. Divides(N, u - w)
    BY <2>7 DEF Divides
  <2>9. u % N = w % N
    <3>1. u \in Int
      OBVIOUS
    <3>2. QED
      BY <1>0, <2>8, <3>1, SameRemainder
  <2>10. QED
    BY <2>5, <2>6, <2>9, TimesOrder
<1>8. QED
  BY <1>4, <1>5, <1>6, <1>7

Scaled == input[1] = "scalar" => input[2] \in Int /\ input[3] \in Scalar

LEMMA ScaledInvariant == Spec => []Scaled
<1>1. Init => Scaled
  BY DEF Init, None, Scaled
<1>2. Scaled /\ [Next]_input => Scaled'
  <2>1. SUFFICES ASSUME Scaled, [Next]_input PROVE Scaled'
    OBVIOUS
  <2>2. CASE DrawEcc
    BY <2>2 DEF DrawEcc, Scaled
  <2>3. CASE DrawScalar
    BY <2>3, BoundsAssumption DEF DrawScalar, Scaled
  <2>4. CASE DrawRsa
    BY <2>4 DEF DrawRsa, Scaled
  <2>5. CASE DrawNumber
    BY <2>5 DEF DrawNumber, Scaled
  <2>6. CASE DrawTimes
    BY <2>6 DEF DrawTimes, Scaled
  <2>7. CASE Again
    BY <2>7 DEF Again, None, Scaled
  <2>8. CASE UNCHANGED input
    BY <2>1, <2>8 DEF Scaled
  <2>9. QED
    BY <2>1, <2>2, <2>3, <2>4, <2>5, <2>6, <2>7, <2>8 DEF Next, Draw
<1>3. QED
  BY <1>1, <1>2, PTL DEF Spec

THEOREM Scalar_IsRepeatedAddition == Spec => []ScalarIsRepeatedAddition
<1>1. Scaled => ScalarIsRepeatedAddition
  BY ScalarMult_Correct DEF Scaled, ScalarIsRepeatedAddition, CurvePoint
<1>2. QED
  BY <1>1, ScaledInvariant, PTL

(***************************************************************************)
(* Powers.                                                                 *)
(***************************************************************************)
\* A recursion that goes down to z, one number at a time.
Counts(f, D, z, base, comb) ==
  \A n \in D : f[n] = IF n = z THEN base ELSE comb[<<n, f[n - 1]>>]

LEMMA Countdown ==
  ASSUME NEW z \in Nat, NEW D \in SUBSET Nat, z \in D, \A n \in D : n = z \/ n - 1 \in D,
         NEW V, NEW base \in V, NEW comb \in [D \X V -> V]
  PROVE  \E f \in [D -> V] : Counts(f, D, z, base, comb)
<1> DEFINE Z == {z}
           mu == [n \in D |-> n]
           next == [n \in D |-> IF n = z THEN z ELSE n - 1]
           first == [n \in D |-> base]
<1>1. first \in [D -> V] /\ comb \in [D \X V -> V]
  OBVIOUS
<1>2. Descends(D, Z, mu, next)
  BY DEF Descends
<1>3. PICK f \in [D -> V] : Solution(f, D, Z, next, first, comb)
  <2> HIDE DEF Z, mu, next, first
  <2> QED BY <1>1, <1>2, Recursion
<1>4. ASSUME NEW n \in D
      PROVE  f[n] = IF n = z THEN base ELSE comb[<<n, f[n - 1]>>]
  <2>1. f[n] = IF n \in Z THEN first[n] ELSE comb[<<n, f[next[n]]>>]
    BY <1>3 DEF Solution
  <2>2. CASE n = z
    BY <2>1, <2>2
  <2>3. CASE n # z
    <3>1. next[n] = n - 1
      BY <2>3
    <3> HIDE DEF next
    <3>2. QED
      BY <2>1, <2>3, <3>1
  <2>4. QED
    BY <2>2, <2>3
<1>5. QED
  BY <1>3, <1>4 DEF Counts

LEMMA PowerDef ==
  ASSUME NEW b \in Int
  PROVE  /\ Power(b, 0) = 1
         /\ \A n \in Nat : Power(b, n) \in Int /\ Power(b, n + 1) = b * Power(b, n)
<1> DEFINE body(g) == [i \in Nat |-> IF i = 0 THEN 1 ELSE b * g[i - 1]]
           F == CHOOSE g : g = body(g)
           comb == [t \in Nat \X Int |-> b * t[2]]
<1>1. comb \in [Nat \X Int -> Int]
  OBVIOUS
<1>2. PICK f \in [Nat -> Int] : Counts(f, Nat, 0, 1, comb)
  <2> DEFINE D == Nat
             V == Int
             one == 1
             zero == 0
  <2>1. D \in SUBSET Nat /\ zero \in D /\ \A n \in D : n = zero \/ n - 1 \in D
    OBVIOUS
  <2>2. one \in V /\ zero \in Nat /\ comb \in [D \X V -> V]
    BY <1>1
  <2> HIDE DEF comb, D, V, one, zero
  <2>3. \E f \in [D -> V] : Counts(f, D, zero, one, comb)
    BY <2>1, <2>2, Countdown
  <2>4. QED
    BY <2>3 DEF D, V, one, zero
<1>3. \A n \in Nat : f[n] = IF n = 0 THEN 1 ELSE b * f[n - 1]
  <2>1. SUFFICES ASSUME NEW n \in Nat, n # 0 PROVE f[n] = b * f[n - 1]
    BY <1>2 DEF Counts
  <2>2. PICK i \in Nat : i = n - 1
    BY <2>1
  <2>3. comb[<<n, f[i]>>] = b * f[i]
    BY <1>2
  <2> HIDE DEF comb
  <2>4. f[n] = comb[<<n, f[n - 1]>>]
    BY <1>2, <2>1 DEF Counts
  <2>5. QED
    BY <2>2, <2>3, <2>4
<1>4. f = body(f)
  BY <1>2, <1>3
<1>5. F = body(F)
  <2> HIDE DEF body
  <2> QED BY <1>4
<1>6. \A n \in Nat : Power(b, n) = F[n]
  BY DEF Power
<1> HIDE DEF F
<1>7. F[0] = 1 /\ \A n \in Nat : F[n + 1] = b * F[n]
  <2>1. \A n \in Nat : F[n] = IF n = 0 THEN 1 ELSE b * F[n - 1]
    BY <1>5
  <2>2. \A n \in Nat : n + 1 \in Nat /\ n + 1 # 0 /\ (n + 1) - 1 = n
    OBVIOUS
  <2>3. QED
    BY <2>1, <2>2
<1> DEFINE T == {n \in Nat : F[n] \in Int}
<1>8. T \in SUBSET Nat /\ 0 \in T /\ \A n \in T : n + 1 \in T
  BY <1>7
<1> HIDE DEF T
<1>9. \A n \in Nat : n \in T
  BY <1>8, SetInduction
<1>10. \A n \in Nat : n + 1 \in Nat
  OBVIOUS
<1>11. QED
  BY <1>6, <1>7, <1>9, <1>10 DEF T

LEMMA PowerSum ==
  ASSUME NEW b \in Int, NEW m \in Nat, NEW n \in Nat
  PROVE  Power(b, m + n) = Power(b, m) * Power(b, n)
<1> DEFINE T == {k \in Nat : Power(b, m + k) = Power(b, m) * Power(b, k)}
<1>1. 0 \in T
  <2>1. Power(b, m) \in Int /\ Power(b, 0) = 1 /\ m + 0 = m
    BY PowerDef
  <2>2. QED
    BY <2>1
<1>2. ASSUME NEW k \in T PROVE k + 1 \in T
  <2>1. m + k \in Nat /\ m + (k + 1) = (m + k) + 1 /\ k + 1 \in Nat
    OBVIOUS
  <2>2. Power(b, m + (k + 1)) = b * (Power(b, m) * Power(b, k))
    BY <2>1, PowerDef
  <2>3. Power(b, m) \in Int /\ Power(b, k) \in Int /\ Power(b, k + 1) = b * Power(b, k)
    BY PowerDef
  <2>4. b * (Power(b, m) * Power(b, k)) = Power(b, m) * (b * Power(b, k))
    BY <2>3
  <2>5. QED
    BY <2>1, <2>2, <2>3, <2>4
<1> HIDE DEF T
<1>3. \A k \in Nat : k \in T
  <2>1. T \in SUBSET Nat
    BY DEF T
  <2>2. QED
    BY <1>1, <1>2, <2>1, SetInduction
<1>4. QED
  BY <1>3 DEF T

LEMMA PowerProduct ==
  ASSUME NEW b \in Int, NEW m \in Nat, NEW n \in Nat
  PROVE  Power(b, m * n) = Power(Power(b, m), n)
<1> DEFINE c == Power(b, m)
           T == {k \in Nat : Power(b, m * k) = Power(c, k)}
<1>0. c \in Int
  BY PowerDef
<1> HIDE DEF c
<1>1. 0 \in T
  <2>1. Power(b, 0) = 1 /\ Power(c, 0) = 1 /\ m * 0 = 0
    BY <1>0, PowerDef
  <2>2. QED
    BY <2>1
<1>2. ASSUME NEW k \in T PROVE k + 1 \in T
  <2>1. m * k \in Nat /\ m * (k + 1) = m * k + m /\ k + 1 \in Nat
    OBVIOUS
  <2>2. Power(b, m * (k + 1)) = Power(b, m * k) * Power(b, m)
    BY <2>1, PowerSum
  <2>3. Power(c, k + 1) = c * Power(c, k) /\ Power(c, k) \in Int
    BY <1>0, PowerDef
  <2>4. QED
    BY <1>0, <2>1, <2>2, <2>3 DEF c
<1> HIDE DEF T
<1>3. \A k \in Nat : k \in T
  <2>1. T \in SUBSET Nat
    BY DEF T
  <2>2. QED
    BY <1>1, <1>2, <2>1, SetInduction
<1>4. QED
  BY <1>3 DEF T, c

LEMMA PowerCong ==
  ASSUME NEW m \in Nat \ {0}, NEW a \in Int, NEW b \in Int, Cong(m, a, b), NEW n \in Nat
  PROVE  Cong(m, Power(a, n), Power(b, n))
<1> DEFINE T == {k \in Nat : Cong(m, Power(a, k), Power(b, k))}
<1>1. 0 \in T
  BY PowerDef, CongRefl
<1>2. ASSUME NEW k \in T PROVE k + 1 \in T
  <2>1. /\ Power(a, k) \in Int /\ Power(b, k) \in Int
        /\ Power(a, k + 1) = a * Power(a, k) /\ Power(b, k + 1) = b * Power(b, k)
    BY PowerDef
  <2>2. Cong(m, a * Power(a, k), b * Power(b, k))
    BY <2>1, CongRing
  <2>3. QED
    BY <2>1, <2>2
<1> HIDE DEF T
<1>3. \A k \in Nat : k \in T
  <2>1. T \in SUBSET Nat
    BY DEF T
  <2>2. QED
    BY <1>1, <1>2, <2>1, SetInduction
<1>4. QED
  BY <1>3 DEF T

LEMMA PowerOne == \A n \in Nat : Power(1, n) = 1
<1> DEFINE T == {k \in Nat : Power(1, k) = 1}
<1>1. T \in SUBSET Nat /\ 0 \in T /\ \A k \in T : k + 1 \in T
  BY PowerDef
<1> HIDE DEF T
<1>2. \A k \in Nat : k \in T
  BY <1>1, SetInduction
<1>3. QED
  BY <1>2 DEF T

LEMMA PowerPositive ==
  ASSUME NEW b \in Nat \ {0}
  PROVE  \A n \in Nat : Power(b, n) \in Nat \ {0}
<1> DEFINE T == {k \in Nat : Power(b, k) \in Nat \ {0}}
<1>1. 0 \in T
  BY PowerDef
<1>2. ASSUME NEW k \in T PROVE k + 1 \in T
  <2>1. Power(b, k + 1) = b * Power(b, k) /\ Power(b, k) \in Nat \ {0}
    BY PowerDef
  <2>2. \A c \in Nat \ {0} : b * c \in Nat \ {0}
    OBVIOUS
  <2>3. QED
    BY <2>1, <2>2
<1> HIDE DEF T
<1>3. \A k \in Nat : k \in T
  <2>1. T \in SUBSET Nat
    BY DEF T
  <2>2. QED
    BY <1>1, <1>2, <2>1, SetInduction
<1>4. QED
  BY <1>3 DEF T

\* Square-and-multiply: pow(a, e, m) is the remainder of the power.
LEMMA PowModIsPower ==
  ASSUME NEW a \in Int, NEW e \in Nat, NEW m \in Nat \ {0}
  PROVE  PowMod(a, e, m) \in 0..(m - 1) /\ Cong(m, PowMod(a, e, m), Power(a, e))
<1> DEFINE square(h, n) == (h * h * (IF n % 2 = 1 THEN a % m ELSE 1)) % m
           body(g) == [n \in Nat |-> IF n = 0 THEN 1 % m
                                     ELSE square(g[n \div 2], n)]
           F == CHOOSE g : g = body(g)
           R == 0..(m - 1)
           Z == {0}
           mu == [n \in Nat |-> n]
           next == [n \in Nat |-> n \div 2]
           base == [n \in Nat |-> 1 % m]
           comb == [t \in Nat \X R |-> square(t[2], t[1])]
<1>1. ASSUME NEW h \in R, NEW n \in Nat PROVE square(h, n) \in R
  <2>1. PICK f \in Int : f = IF n % 2 = 1 THEN a % m ELSE 1
    BY CongRefl
  <2>2. PICK w \in Int : w = h * h * f
    BY <2>1
  <2>3. w % m \in R
    BY CongRefl
  <2>4. QED
    BY <2>1, <2>2, <2>3
<1>2. base \in [Nat -> R] /\ comb \in [Nat \X R -> R]
  <2>1. 1 % m \in R
    BY CongRefl
  <2> HIDE DEF square, R
  <2>2. QED
    BY <1>1, <2>1
<1>3. Descends(Nat, Z, mu, next)
  BY DEF Descends
<1>4. PICK f \in [Nat -> R] : Solution(f, Nat, Z, next, base, comb)
  <2> HIDE DEF Z, mu, next, base, comb
  <2> QED BY <1>2, <1>3, Recursion
<1>5. \A n \in Nat : f[n] = IF n = 0 THEN 1 % m ELSE square(f[n \div 2], n)
  <2> HIDE DEF square, R
  <2>1. SUFFICES ASSUME NEW n \in Nat
                 PROVE  f[n] = IF n = 0 THEN 1 % m ELSE square(f[n \div 2], n)
    OBVIOUS
  <2>2. n \div 2 \in Nat
    OBVIOUS
  <2>3. f[n] = IF n \in Z THEN base[n] ELSE comb[<<n, f[next[n]]>>]
    BY <1>4 DEF Solution
  <2>4. comb[<<n, f[n \div 2]>>] = square(f[n \div 2], n)
    BY <1>4, <2>2
  <2> HIDE DEF comb
  <2>5. QED
    BY <2>3, <2>4
<1>6. f = body(f)
  <2> HIDE DEF square
  <2> QED BY <1>4, <1>5
<1>7. F = body(F)
  <2> HIDE DEF body
  <2> QED BY <1>6
<1>8. PowMod(a, e, m) = F[e]
  BY DEF PowMod
<1> HIDE DEF F
<1>9. \A n \in Nat : F[n] = IF n = 0 THEN 1 % m ELSE square(F[n \div 2], n)
  <2> HIDE DEF square
  <2> QED BY <1>7
<1> DEFINE T == {n \in Nat : F[n] \in R /\ Cong(m, F[n], Power(a, n))}
<1>10. ASSUME NEW n \in Nat, n \in Z \/ next[n] \in T PROVE n \in T
  <2>1. CASE n = 0
    <3>1. F[n] = 1 % m /\ Power(a, n) = 1
      BY <1>9, <2>1, PowerDef
    <3>2. QED
      BY <3>1, CongRefl
  <2>2. CASE n # 0
    <3> DEFINE h == F[n \div 2]
               p == Power(a, n \div 2)
               o == IF n % 2 = 1 THEN a % m ELSE 1
               q == IF n % 2 = 1 THEN a ELSE 1
    <3>1. n \div 2 \in Nat /\ h \in R /\ Cong(m, h, p)
      BY <1>10, <2>2
    <3>2. p \in Int /\ o \in Int /\ q \in Int /\ Cong(m, o, q)
      <4>1. p \in Int
        BY <3>1, PowerDef
      <4>2. a % m \in Int /\ 1 \in Int
        OBVIOUS
      <4>4. Cong(m, a % m, a) /\ Cong(m, 1, 1)
        BY <4>2, CongRefl
      <4> HIDE DEF p
      <4>3. QED
        BY <4>1, <4>2, <4>4
    <3>3. F[n] = (h * h * o) % m
      BY <1>9, <2>2
    <3>4. Power(a, n) = p * p * q
      <4>1. PICK j \in Nat : j = n \div 2
        BY <3>1
      <4>2. Power(a, j + j) = p * p
        BY <4>1, PowerSum
      <4>3. CASE n % 2 = 1
        <5>1. n = (j + j) + 1 /\ j + j \in Nat
          BY <4>1, <4>3
        <5>2. Power(a, n) = a * (p * p)
          BY <4>2, <5>1, PowerDef
        <5> HIDE DEF p
        <5>3. QED
          BY <3>2, <4>3, <5>2
      <4>4. CASE n % 2 # 1
        <5>1. n = j + j
          BY <4>1, <4>4
        <5> HIDE DEF p
        <5>2. QED
          BY <3>2, <4>2, <4>4, <5>1
      <4>5. QED
        BY <4>3, <4>4
    <3> HIDE DEF h, p, o, q
    <3>5. h \in Int
      BY <3>1
    <3>6. Cong(m, h * h, p * p) /\ h * h \in Int /\ p * p \in Int
      BY <3>1, <3>2, <3>5, CongRing
    <3>7. Cong(m, h * h * o, p * p * q) /\ h * h * o \in Int /\ p * p * q \in Int
      <4>1. PICK u \in Int, v \in Int : u = h * h /\ v = p * p
        BY <3>6
      <4>2. Cong(m, u * o, v * q)
        BY <3>2, <3>6, <4>1, CongRing
      <4>3. u * o \in Int /\ v * q \in Int
        BY <3>2
      <4>4. QED
        BY <4>1, <4>2, <4>3
    <3> DEFINE w == h * h * o
    <3>8. w \in Int /\ F[n] = w % m
      BY <3>3, <3>7
    <3> HIDE DEF w
    <3>12. F[n] \in R /\ Cong(m, F[n], w) /\ R \subseteq Int
      BY <3>8, CongRefl
    <3>9. F[n] \in Int
      BY <3>12
    <3>10. Cong(m, F[n], p * p * q)
      BY <3>7, <3>8, <3>12, <3>9, CongTrans DEF w
    <3>11. QED
      BY <3>4, <3>12, <3>10
  <2>3. QED
    BY <2>1, <2>2
<1> HIDE DEF T
<1>11. \A n \in Nat : n \in T
  <2> HIDE DEF Z, mu, next
  <2> QED BY <1>3, <1>10, Descent
<1>12. QED
  BY <1>8, <1>11 DEF T

(***************************************************************************)
(* Fermat's theorem: the powers of a number repeat after its order, and    *)
(* they cut every set that is closed under multiplying by it into pieces   *)
(* of that size.                                                           *)
(***************************************************************************)
LEMMA CongCancel ==
  ASSUME NEW p, Prime(p), NEW a \in Int, NEW b \in Int, NEW c \in Int,
         ~Divides(p, a), Cong(p, a * b, a * c)
  PROVE  Cong(p, b, c)
<1>1. PICK d \in Int : d = b - c
  OBVIOUS
<1>2. a * b - a * c = a * d
  BY <1>1
<1>3. Divides(p, a * d)
  BY <1>2 DEF Cong
<1>4. Divides(p, d)
  BY <1>3, PrimeDivides
<1>5. QED
  BY <1>1, <1>4 DEF Cong

LEMMA PrimeUnit ==
  ASSUME NEW p, Prime(p)
  PROVE  p \in Nat \ {0} /\ p > 1 /\ ~Divides(p, 1) /\ \A x \in 1..(p - 1) : ~Divides(p, x)
<1>1. p \in Nat \ {0} /\ p > 1
  BY DEF Prime
<1>2. ASSUME NEW x \in 1..(p - 1) PROVE ~Divides(p, x)
  <2>1. x % p = x /\ x \in Int
    BY <1>1
  <2>2. QED
    BY <1>1, <2>1, Remainder
<1>3. 1 \in 1..(p - 1)
  BY <1>1
<1>4. QED
  BY <1>1, <1>2, <1>3

\* No power of a unit is a multiple of the prime.
LEMMA PowerUnit ==
  ASSUME NEW p, Prime(p), NEW a \in Int, ~Divides(p, a)
  PROVE  \A n \in Nat : ~Divides(p, Power(a, n))
<1> DEFINE T == {n \in Nat : ~Divides(p, Power(a, n))}
<1>1. 0 \in T
  BY PowerDef, PrimeUnit
<1>2. ASSUME NEW n \in T PROVE n + 1 \in T
  <2>1. Power(a, n) \in Int /\ Power(a, n + 1) = a * Power(a, n) /\ n + 1 \in Nat
    BY PowerDef
  <2>2. ~Divides(p, Power(a, n))
    OBVIOUS
  <2>3. ~Divides(p, a * Power(a, n))
    BY <2>1, <2>2, PrimeDivides
  <2>4. QED
    BY <2>1, <2>3
<1>3. T \in SUBSET Nat
  OBVIOUS
<1> HIDE DEF T
<1>4. \A n \in Nat : n \in T
  BY <1>1, <1>2, <1>3, SetInduction
<1>5. QED
  BY <1>4 DEF T

\* k is the order of a: the least power of a that is 1.
Order(p, a, k) ==
  /\ k \in Nat \ {0} /\ Cong(p, Power(a, k), 1)
  /\ \A i \in 1..(k - 1) : ~Cong(p, Power(a, i), 1)

\* When two powers agree, the power by the difference is 1.
LEMMA PowersAgree ==
  ASSUME NEW p, Prime(p), NEW a \in Int, ~Divides(p, a), NEW x \in Int, ~Divides(p, x),
         NEW i \in Nat, NEW j \in Nat, i <= j,
         Cong(p, x * Power(a, i), x * Power(a, j))
  PROVE  Cong(p, Power(a, j - i), 1)
<1>0. p \in Nat \ {0}
  BY PrimeUnit
<1>1. PICK d \in Nat : d = j - i
  OBVIOUS
<1>2. Power(a, i) \in Int /\ Power(a, j) \in Int /\ Power(a, d) \in Int
  BY PowerDef
<1>3. Cong(p, Power(a, i), Power(a, j))
  BY <1>2, CongCancel
<1>4. Cong(p, Power(a, j), Power(a, i))
  BY <1>0, <1>2, <1>3, CongRing
<1>5. Power(a, j) = Power(a, i) * Power(a, d)
  <2>1. j = i + d
    BY <1>1
  <2>2. QED
    BY <2>1, PowerSum
<1>6. Power(a, i) = Power(a, i) * 1
  BY <1>2
<1>7. ~Divides(p, Power(a, i))
  BY PowerUnit
<1>8. Cong(p, Power(a, d), 1)
  BY <1>2, <1>4, <1>5, <1>6, <1>7, CongCancel
<1>9. QED
  BY <1>1, <1>8

LEMMA OrderExists ==
  ASSUME NEW p, Prime(p), NEW a \in Int, ~Divides(p, a)
  PROVE  \E k : Order(p, a, k)
<1>0. p \in Nat \ {0} /\ p > 1
  BY PrimeUnit
<1> DEFINE S == 0..(p - 1)
           V == 1..(p - 1)
           f == [n \in S |-> Power(a, n) % p]
           K == {k \in Nat : k # 0 /\ Cong(p, Power(a, k), 1)}
<1>1. ASSUME NEW n \in Nat
      PROVE  Power(a, n) \in Int /\ Power(a, n) % p \in V
  <2>1. Power(a, n) \in Int
    BY PowerDef
  <2>2. Power(a, n) % p \in 0..(p - 1)
    BY <1>0, <2>1, CongRefl
  <2>3. Power(a, n) % p # 0
    BY <1>0, <2>1, PowerUnit, Remainder
  <2>4. QED
    BY <1>0, <2>1, <2>2, <2>3
<1>2. f \in [S -> V]
  BY <1>0, <1>1
<1>3. IsFiniteSet(S) /\ IsFiniteSet(V) /\ Cardinality(V) < Cardinality(S)
  <2>1. 0 \in Int /\ 1 \in Int /\ p - 1 \in Int
    BY <1>0
  <2>2. IsFiniteSet(S) /\ Cardinality(S) = p
    BY <1>0, <2>1, FS_Interval
  <2>3. IsFiniteSet(V) /\ Cardinality(V) = p - 1
    BY <1>0, <2>1, FS_Interval
  <2>4. QED
    BY <1>0, <2>2, <2>3
<1>4. PICK x, y \in S : x # y /\ f[x] = f[y]
  <2> HIDE DEF S, V, f
  <2> QED BY <1>2, <1>3, FS_PigeonHole
<1>5. PICK i, j \in Nat : i < j /\ Power(a, i) % p = Power(a, j) % p
  <2>1. x \in Nat /\ y \in Nat /\ Power(a, x) % p = Power(a, y) % p
    BY <1>0, <1>4
  <2>2. x < y \/ y < x
    BY <1>4, <2>1
  <2>3. QED
    BY <2>1, <2>2
<1>6. Cong(p, 1 * Power(a, i), 1 * Power(a, j))
  <2>1. Power(a, i) \in Int /\ Power(a, j) \in Int
    BY <1>1
  <2>2. Cong(p, Power(a, i), Power(a, j))
    BY <1>0, <1>5, <2>1, CongEqual
  <2>3. 1 * Power(a, i) = Power(a, i) /\ 1 * Power(a, j) = Power(a, j)
    BY <2>1
  <2>4. QED
    BY <2>2, <2>3
<1>7. Cong(p, Power(a, j - i), 1)
  <2>1. i <= j /\ ~Divides(p, 1) /\ 1 \in Int
    BY <1>5, PrimeUnit
  <2>2. QED
    BY <1>6, <2>1, PowersAgree
<1>8. K # {} /\ K \in SUBSET Nat
  <2>1. j - i \in Nat /\ j - i # 0
    BY <1>5
  <2>2. QED
    BY <1>7, <2>1
<1>9. PICK k \in K : \A m \in K : k <= m
  <2> HIDE DEF K
  <2> QED BY <1>8, Least
<1>10. Order(p, a, k)
  <2>1. k \in Nat \ {0} /\ Cong(p, Power(a, k), 1)
    OBVIOUS
  <2>2. ASSUME NEW l \in 1..(k - 1), Cong(p, Power(a, l), 1) PROVE FALSE
    <3>1. l \in Nat /\ l # 0 /\ l < k
      BY <2>1
    <3>2. l \in K
      BY <2>2, <3>1
    <3>3. QED
      BY <1>9, <2>1, <3>1, <3>2
  <2>3. QED
    BY <2>1, <2>2 DEF Order
<1>11. QED
  BY <1>10

\* A set of remainders that multiplying by a does not leave.
Kept(p, a, T) == T \subseteq 1..(p - 1) /\ \A x \in T : (a * x) % p \in T

At(p, a, x, i) == (x * Power(a, i)) % p
Orbit(p, a, x, k) == {At(p, a, x, i) : i \in 0..(k - 1)}

LEMMA OrbitInside ==
  ASSUME NEW p, Prime(p), NEW a \in Int, NEW T, Kept(p, a, T), NEW x \in T
  PROVE  \A i \in Nat : At(p, a, x, i) \in T
<1>0. p \in Nat \ {0} /\ x \in Int /\ x % p = x
  BY PrimeUnit DEF Kept
<1> DEFINE W == {i \in Nat : At(p, a, x, i) \in T}
<1>1. 0 \in W
  <2>1. x * Power(a, 0) = x
    BY <1>0, PowerDef
  <2>2. QED
    BY <1>0, <2>1 DEF At
<1>2. ASSUME NEW i \in W PROVE i + 1 \in W
  <2>1. /\ Power(a, i) \in Int /\ Power(a, i + 1) = a * Power(a, i) /\ i + 1 \in Nat
    BY PowerDef
  <2>2. PICK y \in Int : y = x * Power(a, i)
    BY <1>0, <2>1
  <2>3. y % p \in T /\ y % p \in Int
    BY <1>0, <2>2 DEF At, Kept
  <2>4. x * Power(a, i + 1) = a * y
    BY <1>0, <2>1, <2>2
  <2>5. Cong(p, a * (y % p), a * y)
    <3>1. Cong(p, y % p, y) /\ Cong(p, a, a)
      BY <1>0, CongRefl
    <3>2. QED
      BY <1>0, <2>3, <3>1, CongRing
  <2>6. (a * (y % p)) % p = (a * y) % p
    <3>1. PICK u \in Int, v \in Int : u = a * (y % p) /\ v = a * y
      BY <2>3
    <3>2. u % p = v % p
      BY <1>0, <2>5, <3>1, CongEqual
    <3>3. QED
      BY <3>1, <3>2
  <2>7. (a * (y % p)) % p \in T
    BY <2>3 DEF Kept
  <2>8. QED
    BY <2>1, <2>4, <2>6, <2>7 DEF At
<1>3. W \in SUBSET Nat
  OBVIOUS
<1> HIDE DEF W
<1>4. \A i \in Nat : i \in W
  BY <1>1, <1>2, <1>3, SetInduction
<1>5. QED
  BY <1>4 DEF W

\* An orbit has as many members as the order says.
LEMMA OrbitSize ==
  ASSUME NEW p, Prime(p), NEW a \in Int, ~Divides(p, a), NEW k, Order(p, a, k),
         NEW x \in 1..(p - 1)
  PROVE  IsFiniteSet(Orbit(p, a, x, k)) /\ Cardinality(Orbit(p, a, x, k)) = k
<1>0. p \in Nat \ {0} /\ x \in Int /\ ~Divides(p, x) /\ k \in Nat \ {0}
  BY PrimeUnit DEF Order
<1> DEFINE S == 0..(k - 1)
           O == Orbit(p, a, x, k)
           f == [i \in S |-> At(p, a, x, i)]
<1>1. ASSUME NEW i \in Nat, NEW j \in Nat, i < j, j < k
      PROVE  At(p, a, x, i) # At(p, a, x, j)
  <2>1. SUFFICES ASSUME At(p, a, x, i) = At(p, a, x, j) PROVE FALSE
    OBVIOUS
  <2>2. Power(a, i) \in Int /\ Power(a, j) \in Int
    BY PowerDef
  <2>3. PICK u \in Int, v \in Int : u = x * Power(a, i) /\ v = x * Power(a, j)
    BY <1>0, <2>2
  <2>4. u % p = v % p
    BY <2>1, <2>3 DEF At
  <2>5. Cong(p, x * Power(a, i), x * Power(a, j))
    BY <1>0, <2>3, <2>4, CongEqual
  <2>6. Cong(p, Power(a, j - i), 1)
    BY <1>0, <1>1, <2>5, PowersAgree
  <2>7. j - i \in 1..(k - 1)
    BY <1>0, <1>1
  <2>8. QED
    BY <2>6, <2>7 DEF Order
<1>2. f \in Bijection(S, O)
  <2>1. f \in [S -> O] /\ \A y \in O : \E i \in S : f[i] = y
    BY DEF Orbit
  <2>2. ASSUME NEW i \in S, NEW j \in S, f[i] = f[j] PROVE i = j
    <3>1. i \in Nat /\ j \in Nat /\ i < k /\ j < k /\ At(p, a, x, i) = At(p, a, x, j)
      BY <1>0, <2>2
    <3>2. ~(i < j) /\ ~(j < i)
      BY <1>1, <3>1
    <3>3. QED
      BY <3>1, <3>2
  <2> HIDE DEF S, O, f
  <2>3. QED
    BY <2>1, <2>2 DEF Bijection, Injection, Surjection, IsInjective
<1>3. IsFiniteSet(S) /\ Cardinality(S) = k
  <2>1. PICK h \in Int : h = k - 1 /\ h >= 0
    BY <1>0
  <2>2. IsFiniteSet(0..h) /\ Cardinality(0..h) = IF 0 > h THEN 0 ELSE h - 0 + 1
    BY FS_Interval
  <2>3. QED
    BY <1>0, <2>1, <2>2
<1>4. ExistsBijection(S, O)
  <2> HIDE DEF S, O, f
  <2> QED BY <1>2 DEF ExistsBijection
<1>5. QED
  <2> HIDE DEF S
  <2> QED BY <1>3, <1>4, FS_Bijection

\* What is left of such a set without an orbit is one again.
LEMMA OrbitOutside ==
  ASSUME NEW p, Prime(p), NEW a \in Int, ~Divides(p, a), NEW k, Order(p, a, k),
         NEW T, Kept(p, a, T), NEW x \in T
  PROVE  Kept(p, a, T \ Orbit(p, a, x, k))
<1>0. p \in Nat \ {0} /\ x \in Int /\ k \in Nat \ {0} /\ T \subseteq 1..(p - 1)
  BY PrimeUnit DEF Order, Kept
<1> DEFINE O == Orbit(p, a, x, k)
<1>1. SUFFICES ASSUME NEW y \in T, (a * y) % p \in O PROVE y \in O
  BY DEF Kept
<1>2. PICK i \in 0..(k - 1) : (a * y) % p = At(p, a, x, i)
  BY <1>1 DEF Orbit
<1>3. y \in Int /\ y \in 0..(p - 1)
  BY <1>0
<1>4. Power(a, i) \in Int /\ i \in Nat
  BY <1>0, PowerDef
<1>5. PICK u \in Int : u = x * Power(a, i)
  BY <1>0, <1>4
<1>6. Cong(p, a * y, u)
  <2>1. PICK z \in Int : z = a * y
    BY <1>3
  <2>2. z % p = u % p
    BY <1>2, <1>5, <2>1 DEF At
  <2>3. Cong(p, z, u)
    BY <1>0, <2>2, CongEqual
  <2>4. QED
    BY <2>1, <2>3
<1>7. PICK j \in 0..(k - 1) : Cong(p, u, a * (x * Power(a, j)))
  <2>1. CASE i = 0
    <3>1. k - 1 \in 0..(k - 1) /\ k - 1 \in Nat /\ (k - 1) + 1 = k
      BY <1>0
    <3>2. PICK j \in Nat : j = k - 1
      BY <3>1
    <3>3. Power(a, j) \in Int /\ Power(a, k) = a * Power(a, j) /\ Power(a, k) \in Int
      BY <1>0, <3>1, <3>2, PowerDef
    <3>4. u = x * 1
      BY <1>0, <1>5, <2>1, PowerDef
    <3>5. Cong(p, 1, Power(a, k))
      <4>1. Cong(p, Power(a, k), 1)
        BY DEF Order
      <4>2. QED
        BY <1>0, <3>3, <4>1, CongRing
    <3>6. Cong(p, x, x)
      BY <1>0, CongRefl
    <3>7. Cong(p, x * 1, x * Power(a, k))
      BY <1>0, <3>3, <3>5, <3>6, CongRing
    <3>8. x * (a * Power(a, j)) = a * (x * Power(a, j))
      BY <1>0, <3>3
    <3>9. Cong(p, u, a * (x * Power(a, j))) /\ j \in 0..(k - 1)
      BY <3>1, <3>2, <3>3, <3>4, <3>7, <3>8
    <3>10. QED
      BY <3>9
  <2>2. CASE i # 0
    <3>1. PICK j \in Nat : i = j + 1 /\ j \in 0..(k - 1)
      BY <1>0, <1>4, <2>2
    <3>2. Power(a, j) \in Int /\ Power(a, i) = a * Power(a, j)
      BY <3>1, PowerDef
    <3>3. x * (a * Power(a, j)) = a * (x * Power(a, j))
      BY <1>0, <3>2
    <3>4. Cong(p, u, u)
      BY <1>0, CongRefl
    <3>5. QED
      BY <1>5, <3>1, <3>2, <3>3, <3>4
  <2>3. QED
    BY <2>1, <2>2
<1>8. j \in Nat /\ Power(a, j) \in Int
  BY <1>0, PowerDef
<1>9. PICK v \in Int : v = x * Power(a, j)
  BY <1>0, <1>8
<1>10. Cong(p, a * y, a * v)
  <2>1. a * y \in Int /\ a * v \in Int
    BY <1>3
  <2>2. QED
    BY <1>0, <1>6, <1>7, <1>9, <2>1, CongTrans
<1>11. Cong(p, y, v)
  BY <1>3, <1>10, CongCancel
<1>12. y % p = v % p /\ y % p = y
  <2>1. y % p = v % p
    BY <1>0, <1>3, <1>11, CongEqual
  <2>2. y % p = y
    BY <1>0, <1>3
  <2>3. QED
    BY <2>1, <2>2
<1>13. y = At(p, a, x, j)
  BY <1>9, <1>12 DEF At
<1>14. QED
  BY <1>13 DEF Orbit

LEMMA OrderDivides ==
  ASSUME NEW p, Prime(p), NEW a \in Int, ~Divides(p, a), NEW k, Order(p, a, k),
         NEW T, Kept(p, a, T)
  PROVE  \E c \in Nat : Cardinality(T) = c * k
<1>0. p \in Nat \ {0} /\ k \in Nat \ {0}
  BY PrimeUnit DEF Order
<1> DEFINE Multiple(n) == \E c \in Nat : n = c * k
           Bad == {n \in Nat : /\ ~Multiple(n)
                               /\ \E U : Kept(p, a, U) /\ Cardinality(U) = n}
<1>1. ASSUME NEW U, Kept(p, a, U) PROVE IsFiniteSet(U) /\ Cardinality(U) \in Nat
  <2>1. IsFiniteSet(1..(p - 1))
    <3>1. 1 \in Int /\ p - 1 \in Int
      BY <1>0
    <3>2. QED
      BY <3>1, FS_Interval
  <2>2. U \in SUBSET (1..(p - 1))
    BY <1>1 DEF Kept
  <2>3. QED
    BY <2>1, <2>2, FS_Subset, FS_CardinalityType
<1>2. SUFFICES ASSUME Bad # {} PROVE FALSE
  <2>1. ~Multiple(Cardinality(T)) => Cardinality(T) \in Bad
    BY <1>1
  <2>2. QED
    BY <1>2, <2>1
<1>3. PICK n \in Bad : \A m \in Bad : n <= m
  <2>1. Bad \in SUBSET Nat
    OBVIOUS
  <2> HIDE DEF Bad
  <2>2. QED
    BY <1>2, <2>1, Least
<1>4. PICK U : Kept(p, a, U) /\ Cardinality(U) = n
  BY <1>3
<1>5. PICK x \in U : x \in 1..(p - 1)
  <2>1. U # {}
    <3>1. 0 = 0 * k
      BY <1>0
    <3>2. n # 0
      BY <3>1
    <3>3. QED
      BY <1>4, <3>2, FS_EmptySet
  <2>2. QED
    BY <1>4, <2>1 DEF Kept
<1> DEFINE O == Orbit(p, a, x, k)
           W == U \ O
<1>6. IsFiniteSet(O) /\ Cardinality(O) = k
  BY <1>5, OrbitSize
<1>7. Kept(p, a, W)
  BY <1>4, OrbitOutside
<1>8. O \subseteq U
  <2>1. \A i \in Nat : At(p, a, x, i) \in U
    BY <1>4, OrbitInside
  <2>2. \A i \in 0..(k - 1) : i \in Nat
    BY <1>0
  <2>3. QED
    BY <2>1, <2>2 DEF Orbit
<1>9. Cardinality(W) \in Nat /\ n = k + Cardinality(W)
  <2> HIDE DEF O
  <2>1. IsFiniteSet(W) /\ Cardinality(W) \in Nat
    BY <1>1, <1>7
  <2>2. U = O \cup W /\ O \cap W = {} /\ Cardinality({}) = 0
    BY <1>8, FS_EmptySet
  <2>3. Cardinality(O \cup W) = Cardinality(O) + Cardinality(W) - Cardinality(O \cap W)
    <3> HIDE DEF W
    <3> QED BY <1>6, <2>1, FS_Union
  <2>4. Cardinality(O \cup W) = n /\ Cardinality(O \cap W) = 0
    <3> HIDE DEF W
    <3> QED BY <1>4, <2>2
  <2> HIDE DEF W
  <2>5. n = k + Cardinality(W) - 0
    BY <1>6, <2>3, <2>4
  <2>6. QED
    BY <1>0, <2>1, <2>5
<1>10. PICK m \in Nat : m = Cardinality(W)
  BY <1>9
<1>11. m \notin Bad
  <2>1. n \in Nat /\ n = k + m
    BY <1>9, <1>10
  <2>2. ~(n <= m)
    BY <1>0, <2>1
  <2> HIDE DEF Bad
  <2>3. QED
    BY <1>3, <2>2
<1>12. PICK c \in Nat : m = c * k
  BY <1>7, <1>10, <1>11
<1>13. n = (c + 1) * k /\ c + 1 \in Nat
  <2>1. n = k + c * k
    BY <1>9, <1>10, <1>12
  <2>2. k + c * k = (c + 1) * k
    BY <1>0
  <2>3. QED
    BY <2>1, <2>2
<1>14. Multiple(n)
  BY <1>13
<1>15. QED
  BY <1>14

LEMMA Fermat ==
  ASSUME NEW p, Prime(p), NEW a \in Int, ~Divides(p, a)
  PROVE  Cong(p, Power(a, p - 1), 1)
<1>0. p \in Nat \ {0} /\ p > 1
  BY PrimeUnit
<1>1. PICK k : Order(p, a, k)
  BY OrderExists
<1>2. Kept(p, a, 1..(p - 1))
  <2>1. ASSUME NEW x \in 1..(p - 1) PROVE (a * x) % p \in 1..(p - 1)
    <3>1. PICK z \in Int : z = a * x
      BY <1>0
    <3>2. ~Divides(p, x) /\ x \in Int
      BY <1>0, PrimeUnit
    <3>3. ~Divides(p, z)
      BY <3>1, <3>2, PrimeDivides
    <3>4. z % p \in 0..(p - 1)
      BY <1>0, CongRefl
    <3>5. z % p # 0
      BY <1>0, <3>3, Remainder
    <3>6. z % p \in 1..(p - 1)
      BY <1>0, <3>4, <3>5
    <3>7. QED
      BY <3>1, <3>6
  <2>2. QED
    BY <2>1 DEF Kept
<1>3. PICK c \in Nat : p - 1 = c * k
  <2>1. PICK c \in Nat : Cardinality(1..(p - 1)) = c * k
    BY <1>1, <1>2, OrderDivides
  <2>2. Cardinality(1..(p - 1)) = p - 1
    <3>1. 1 \in Int /\ p - 1 \in Int
      BY <1>0
    <3>2. QED
      BY <1>0, <3>1, FS_Interval
  <2>3. QED
    BY <2>1, <2>2
<1>4. k \in Nat /\ Power(a, k) \in Int /\ Cong(p, Power(a, k), 1)
  BY <1>1, PowerDef DEF Order
<1>5. Power(a, p - 1) = Power(Power(a, k), c)
  <2>1. p - 1 = k * c
    BY <1>3, <1>4
  <2>2. QED
    BY <1>4, <2>1, PowerProduct
<1>6. Cong(p, Power(Power(a, k), c), Power(1, c))
  BY <1>0, <1>4, PowerCong
<1>7. QED
  BY <1>5, <1>6, PowerOne

(***************************************************************************)
(* The primality test.                                                     *)
(***************************************************************************)
LEMMA DivExact ==
  ASSUME NEW m \in Nat \ {0}, NEW q \in Int, NEW r \in 0..(m - 1), NEW a \in Int, a = m * q + r
  PROVE  a \div m = q /\ a % m = r
<1> DEFINE u == a \div m
           v == a % m
<1>1. u \in Int /\ v \in 0..(m - 1) /\ a = m * u + v
  BY DivMod
<1> HIDE DEF u, v
<1>2. m * (u - q) = r - v
  BY <1>1
<1>3. PICK d \in Int : d = u - q
  BY <1>1
<1>4. m * d < m /\ m * d > -m
  BY <1>1, <1>2, <1>3
<1>5. d = 0
  <2>1. d >= 1 => m * d >= m
    OBVIOUS
  <2>2. d <= -1 => m * d <= -m
    OBVIOUS
  <2>3. QED
    BY <1>4, <2>1, <2>2
<1>6. u = q /\ v = r
  BY <1>1, <1>2, <1>3, <1>5
<1>7. QED
  BY <1>6 DEF u, v

LEMMA TwosDef ==
  \A n \in Nat \ {0} : /\ Twos[n] \in Nat
                       /\ Twos[n] = IF n % 2 = 0 THEN 1 + Twos[n \div 2] ELSE 0
<1> DEFINE D == Nat \ {0}
           Z == {n \in D : n % 2 # 0}
           mu == [n \in D |-> n]
           next == [n \in D |-> IF n % 2 # 0 THEN n ELSE n \div 2]
           base == [n \in D |-> 0]
           comb == [t \in D \X Nat |-> 1 + t[2]]
<1>1. base \in [D -> Nat] /\ comb \in [D \X Nat -> Nat]
  OBVIOUS
<1>2. Descends(D, Z, mu, next)
  BY DEF Descends
<1>3. PICK f \in [D -> Nat] : Solution(f, D, Z, next, base, comb)
  <2> HIDE DEF D, Z, mu, next, base, comb
  <2> QED BY <1>1, <1>2, Recursion
<1>4. \A n \in D : f[n] = IF n % 2 = 0 THEN 1 + f[n \div 2] ELSE 0
  <2>1. SUFFICES ASSUME NEW n \in D
                 PROVE  f[n] = IF n % 2 = 0 THEN 1 + f[n \div 2] ELSE 0
    OBVIOUS
  <2>2. f[n] = IF n \in Z THEN base[n] ELSE comb[<<n, f[next[n]]>>]
    BY <1>3 DEF Solution
  <2>3. CASE n % 2 # 0
    BY <2>2, <2>3
  <2>4. CASE n % 2 = 0
    <3>1. next[n] \in D /\ next[n] = n \div 2 /\ n \notin Z
      BY <2>4
    <3>2. PICK h \in Nat : h = f[next[n]]
      BY <1>3, <3>1
    <3>3. comb[<<n, h>>] = 1 + h
      OBVIOUS
    <3> HIDE DEF next, Z, comb
    <3>4. QED
      BY <2>2, <2>4, <3>1, <3>2, <3>3
  <2>5. QED
    BY <2>3, <2>4
<1> DEFINE body(g) == [n \in Nat \ {0} |-> IF n % 2 = 0 THEN 1 + g[n \div 2] ELSE 0]
<1>5. f = body(f)
  BY <1>3, <1>4
<1>6. Twos = CHOOSE g : g = body(g)
  BY DEF Twos
<1>7. Twos = body(Twos)
  <2> HIDE DEF body
  <2> QED BY <1>5, <1>6
<1>8. \A n \in D : Twos[n] = IF n % 2 = 0 THEN 1 + Twos[n \div 2] ELSE 0
  BY <1>7
<1>9. \A n \in D : Twos[n] = f[n]
  <2>1. Follows(Twos, f, D, Z, next)
    BY <1>4, <1>8 DEF Follows
  <2> HIDE DEF D, Z, mu, next
  <2>2. QED
    BY <2>1, <1>2, Agreement
<1>10. QED
  BY <1>3, <1>8, <1>9

LEMMA TwosSplit ==
  \A n \in Nat \ {0} : \E o \in Nat \ {0} : n = Power(2, Twos[n]) * o /\ o % 2 = 1
<1> DEFINE D == Nat \ {0}
           Z == {n \in D : n % 2 # 0}
           mu == [n \in D |-> n]
           next == [n \in D |-> IF n % 2 # 0 THEN n ELSE n \div 2]
           T == {n \in D : \E o \in Nat \ {0} : n = Power(2, Twos[n]) * o /\ o % 2 = 1}
<1>1. Descends(D, Z, mu, next)
  BY DEF Descends
<1>2. ASSUME NEW n \in D, n \in Z \/ next[n] \in T PROVE n \in T
  <2>1. CASE n % 2 # 0
    <3>1. Twos[n] = 0 /\ n = 1 * n /\ n % 2 = 1
      BY <2>1, TwosDef
    <3>2. Power(2, 0) = 1
      <4>1. 2 \in Int
        OBVIOUS
      <4>2. QED
        BY <4>1, PowerDef
    <3>3. QED
      BY <3>1, <3>2
  <2>2. CASE n % 2 = 0
    <3>1. PICK h \in Nat \ {0} : h = n \div 2 /\ n = 2 * h
      BY <2>2
    <3>2. h \in T
      BY <1>2, <2>2, <3>1
    <3>3. PICK o \in Nat \ {0} : h = Power(2, Twos[h]) * o /\ o % 2 = 1
      BY <3>2
    <3>4. Twos[h] \in Nat /\ Twos[n] = Twos[h] + 1
      BY <2>2, <3>1, TwosDef
    <3>5. Power(2, Twos[n]) = 2 * Power(2, Twos[h]) /\ Power(2, Twos[h]) \in Int
      <4>1. PICK t \in Nat : t = Twos[h]
        BY <3>4
      <4>2. 2 \in Int
        OBVIOUS
      <4>3. Power(2, t + 1) = 2 * Power(2, t) /\ Power(2, t) \in Int
        BY <4>2, PowerDef
      <4>4. QED
        BY <3>4, <4>1, <4>3
    <3>6. n = Power(2, Twos[n]) * o
      BY <3>1, <3>3, <3>5
    <3>7. QED
      BY <3>3, <3>6
  <2>3. QED
    BY <2>1, <2>2
<1> HIDE DEF T
<1>3. \A n \in D : n \in T
  <2> HIDE DEF D, Z, mu, next
  <2> QED BY <1>1, <1>2, Descent
<1>4. QED
  BY <1>3 DEF T

\* The exponents of the test: the odd part o of n - 1, doubled i times.
LEMMA Exponents ==
  ASSUME NEW m \in Nat \ {0}
  PROVE  \E o \in Nat \ {0} :
           /\ m = Power(2, Twos[m]) * o /\ o % 2 = 1
           /\ \A i \in 0..Twos[m] :
                /\ m \div Power(2, Twos[m] - i) = Power(2, i) * o
                /\ Power(2, i) * o \in Nat \ {0}
<1>1. PICK o \in Nat \ {0} : m = Power(2, Twos[m]) * o /\ o % 2 = 1
  BY TwosSplit
<1>2. PICK r \in Nat : r = Twos[m]
  BY TwosDef
<1>3. ASSUME NEW i \in 0..r
      PROVE  m \div Power(2, r - i) = Power(2, i) * o /\ Power(2, i) * o \in Nat \ {0}
  <2>1. i \in Nat /\ r - i \in Nat /\ (r - i) + i = r /\ 2 \in Nat \ {0} /\ 2 \in Int
    BY <1>2
  <2>2. PICK c \in Nat \ {0}, d \in Nat \ {0} : c = Power(2, r - i) /\ d = Power(2, i)
    BY <2>1, PowerPositive
  <2>3. Power(2, r) = c * d
    BY <2>1, <2>2, PowerSum
  <2>4. PICK e \in Nat \ {0} : e = d * o
    BY <2>2
  <2>5. m = c * e + 0
    <3>1. m = (c * d) * o
      BY <1>1, <1>2, <2>3
    <3>2. (c * d) * o = c * (d * o)
      BY <2>2
    <3>3. QED
      BY <2>4, <3>1, <3>2
  <2>6. m \div c = e
    <3>1. 0 \in 0..(c - 1) /\ e \in Int /\ m \in Int
      OBVIOUS
    <3>2. QED
      BY <2>5, <3>1, DivExact
  <2>7. QED
    BY <2>2, <2>4, <2>6
<1>4. QED
  BY <1>1, <1>2, <1>3

\* In a prime field only 1 and -1 have the square 1.
LEMMA RootsOfOne ==
  ASSUME NEW p, Prime(p), NEW x \in 0..(p - 1), Cong(p, x * x, 1)
  PROVE  x = 1 \/ x = p - 1
<1>0. p \in Nat \ {0} /\ p > 1 /\ x \in Int
  BY PrimeUnit
<1>1. PICK u \in Int, v \in Int : u = x - 1 /\ v = x + 1
  BY <1>0
<1>2. x * x - 1 = u * v
  BY <1>0, <1>1
<1>3. Divides(p, u * v)
  BY <1>2 DEF Cong
<1>4. CASE Divides(p, u)
  <2>1. PICK w \in Int : w = 1 /\ w \in 0..(p - 1)
    BY <1>0
  <2>2. Cong(p, x, w)
    BY <1>1, <1>4, <2>1 DEF Cong
  <2>3. x = w
    BY <1>0, <2>1, <2>2, CongEqual
  <2>4. QED
    BY <2>1, <2>3
<1>5. CASE Divides(p, v)
  <2>1. PICK k \in Int : v = p * k
    BY <1>5 DEF Divides
  <2>2. 1 <= v /\ v <= p
    BY <1>0, <1>1
  <2>3. k = 1
    <3>1. k <= 0 => p * k <= 0
      BY <1>0
    <3>2. k >= 2 => p * k >= 2 * p
      BY <1>0
    <3>3. QED
      BY <1>0, <2>1, <2>2, <3>1, <3>2
  <2>4. QED
    BY <1>0, <1>1, <2>1, <2>3
<1>6. QED
  BY <1>1, <1>3, <1>4, <1>5, PrimeDivides

LEMMA PrimeSurvives ==
  ASSUME NEW n, Prime(n), NEW a \in 2..(n - 2)
  PROVE  Survives(n, a)
<1>0. n \in Nat \ {0} /\ n > 3 /\ a \in Int /\ ~Divides(n, a)
  BY PrimeUnit
<1>1. PICK m \in Nat \ {0} : m = n - 1
  BY <1>0
<1>2. PICK r \in Nat : r = Twos[m]
  BY TwosDef
<1>3. PICK o \in Nat \ {0} : /\ m = Power(2, r) * o
                              /\ \A i \in 0..r : /\ m \div Power(2, r - i) = Power(2, i) * o
                                                 /\ Power(2, i) * o \in Nat \ {0}
  BY <1>2, Exponents
<1> DEFINE x(i) == PowMod(a, m \div Power(2, r - i), n)
           W == {i \in Nat : i <= r /\ x(i) = 1}
<1>4. ASSUME NEW i \in 0..r
      PROVE  x(i) \in 0..(n - 1) /\ Cong(n, x(i), Power(a, Power(2, i) * o))
  <2>1. PICK e \in Nat : e = Power(2, i) * o /\ m \div Power(2, r - i) = e
    BY <1>3
  <2>2. PowMod(a, e, n) \in 0..(n - 1) /\ Cong(n, PowMod(a, e, n), Power(a, e))
    BY <1>0, PowModIsPower
  <2>3. QED
    BY <2>1, <2>2
<1>5. r \in W
  <2>1. r \in 0..r
    BY <1>2
  <2>2. Cong(n, x(r), Power(a, m)) /\ x(r) \in 0..(n - 1)
    BY <1>3, <1>4, <2>1
  <2>3. Cong(n, Power(a, m), 1)
    BY <1>0, <1>1, Fermat
  <2>4. Power(a, m) \in Int /\ x(r) \in Int /\ 1 \in 0..(n - 1)
    BY <1>0, <2>2, PowerDef
  <2> HIDE DEF x
  <2>5. Cong(n, x(r), 1)
    BY <1>0, <2>2, <2>3, <2>4, CongTrans
  <2>6. x(r) = 1
    <3>1. PICK w \in Int : w = 1
      OBVIOUS
    <3>2. PICK y \in Int : y = x(r)
      BY <2>4
    <3>3. y = w
      BY <1>0, <2>2, <2>4, <2>5, <3>1, <3>2, CongEqual
    <3>4. QED
      BY <3>1, <3>2, <3>3
  <2>7. QED
    BY <1>2, <2>6
<1>6. PICK i \in W : \A j \in W : i <= j
  <2>1. W \in SUBSET Nat /\ W # {}
    BY <1>5
  <2> HIDE DEF W
  <2>2. QED
    BY <2>1, Least
<1>7. CASE i = 0
  <2>1. x(0) = 1
    BY <1>7
  <2>2. QED
    BY <1>1, <1>2, <2>1 DEF Survives
<1>8. CASE i # 0
  <2>1. PICK j \in Nat : i = j + 1 /\ j \in 0..(r - 1) /\ j \in 0..r /\ i \in 0..r /\ j \notin W
    <3>1. i \in Nat /\ i <= r /\ i - 1 \in Nat
      BY <1>8
    <3>2. i - 1 \notin W
      BY <1>6, <3>1
    <3>3. QED
      BY <3>1, <3>2, <1>2
  <2>2. x(j) # 1
    BY <2>1
  <2>3. PICK e \in Nat : e = Power(2, j) * o
    BY <1>3, <2>1
  <2>4. Power(2, i) * o = e + e
    <3>1. 2 \in Int
      OBVIOUS
    <3>2. Power(2, i) = 2 * Power(2, j) /\ Power(2, j) \in Int
      BY <2>1, <3>1, PowerDef
    <3>3. (2 * Power(2, j)) * o = Power(2, j) * o + Power(2, j) * o
      BY <3>2
    <3>4. QED
      BY <2>3, <3>2, <3>3
  <2>5. Power(a, e) \in Int /\ Power(a, e + e) = Power(a, e) * Power(a, e)
    BY <1>0, PowerDef, PowerSum
  <2>6. Cong(n, 1, Power(a, e + e))
    BY <1>4, <2>1, <2>4
  <2>7. PICK y \in 0..(n - 1) : y = x(j) /\ Cong(n, y, Power(a, e))
    BY <1>4, <2>1, <2>3
  <2>8. y \in Int /\ y * y \in Int
    BY <1>0
  <2>9. Cong(n, y * y, Power(a, e) * Power(a, e))
    BY <1>0, <2>5, <2>7, <2>8, CongRing
  <2>10. Cong(n, y * y, 1)
    <3>1. PICK z \in Int : z = Power(a, e) * Power(a, e)
      BY <2>5
    <3>2. Cong(n, z, 1)
      BY <1>0, <2>5, <2>6, <3>1, CongRing
    <3>3. QED
      BY <1>0, <2>8, <2>9, <3>1, <3>2, CongTrans
  <2>11. x(j) = n - 1
    BY <2>2, <2>7, <2>10, RootsOfOne
  <2>12. QED
    BY <1>1, <1>2, <2>1, <2>11 DEF Survives
<1>9. QED
  BY <1>7, <1>8

\* A divisor is a witness: what is a multiple of it is neither 1 nor -1.
LEMMA DivisorWitness ==
  ASSUME NEW n \in Nat \ {0}, NEW d \in 2..(n - 2), n % d = 0
  PROVE  ~Survives(n, d)
<1>0. n > 3 /\ d \in Int /\ d \in Nat \ {0} /\ d > 1 /\ n \in Int
  OBVIOUS
<1>1. Divides(d, n)
  BY <1>0, Remainder
<1>2. PICK m \in Nat \ {0} : m = n - 1
  BY <1>0
<1>3. PICK r \in Nat : r = Twos[m]
  BY TwosDef
<1>4. PICK o \in Nat \ {0} : /\ m = Power(2, r) * o
                              /\ \A i \in 0..r : /\ m \div Power(2, r - i) = Power(2, i) * o
                                                 /\ Power(2, i) * o \in Nat \ {0}
  BY <1>3, Exponents
<1> DEFINE x(i) == PowMod(d, m \div Power(2, r - i), n)
<1>5. ~Divides(d, 1)
  <2>1. 1 % d = 1
    BY <1>0
  <2>2. QED
    BY <1>0, <2>1, Remainder
<1>6. ASSUME NEW i \in 0..r
      PROVE  x(i) \in Int /\ Divides(d, x(i))
  <2>1. PICK e \in Nat \ {0} : m \div Power(2, r - i) = e
    BY <1>4
  <2>2. PICK y \in Int : y = PowMod(d, e, n) /\ Cong(n, y, Power(d, e))
    <3>1. PowMod(d, e, n) \in 0..(n - 1) /\ Cong(n, PowMod(d, e, n), Power(d, e))
      BY <1>0, PowModIsPower
    <3>2. QED
      BY <3>1
  <2>3. PICK f \in Nat : e = f + 1
    <3>1. e - 1 \in Nat /\ e = (e - 1) + 1
      OBVIOUS
    <3>2. QED
      BY <3>1
  <2>4. Power(d, e) = d * Power(d, f) /\ Power(d, f) \in Int /\ Power(d, e) \in Int
    BY <1>0, <2>3, PowerDef
  <2>5. PICK j \in Int, k \in Int : y - Power(d, e) = n * j /\ n = d * k
    BY <1>1, <2>2 DEF Cong, Divides
  <2>6. y = d * (k * j + Power(d, f)) /\ k * j + Power(d, f) \in Int
    <3>1. PICK g \in Int : g = Power(d, f)
      BY <2>4
    <3>2. y = d * g + n * j
      BY <1>0, <2>4, <2>5, <3>1
    <3>3. n * j = d * (k * j) /\ k * j \in Int
      BY <1>0, <2>5
    <3>4. d * g + d * (k * j) = d * (k * j + g)
      BY <1>0, <3>3
    <3>5. k * j + g \in Int
      BY <3>3
    <3>6. QED
      BY <3>1, <3>2, <3>3, <3>4, <3>5
  <2>7. Divides(d, y)
    BY <2>6 DEF Divides
  <2>8. QED
    BY <2>1, <2>2, <2>7
<1>7. x(0) # 1
  <2>1. 0 \in 0..r
    BY <1>3
  <2> HIDE DEF x
  <2>2. QED
    BY <1>5, <1>6, <2>1
<1>8. ASSUME NEW i \in 0..(r - 1) PROVE x(i) # n - 1
  <2>1. i \in 0..r
    BY <1>3
  <2>2. x(i) \in Int /\ Divides(d, x(i))
    BY <1>6, <2>1
  <2> HIDE DEF x
  <2>3. SUFFICES ASSUME x(i) = n - 1 PROVE FALSE
    OBVIOUS
  <2>4. Divides(d, n - x(i))
    BY <1>0, <1>1, <2>2, Differ
  <2>5. n - x(i) = 1
    BY <1>0, <2>3
  <2>6. QED
    BY <1>5, <2>4, <2>5
<1>9. QED
  BY <1>2, <1>3, <1>7, <1>8 DEF Survives

(* No prime is refused, whatever bases are drawn, and a number that passes
   with every base is prime (_is_probable_prime). *)
THEOREM PrimeTest_Correct ==
  ASSUME NEW n \in Nat, n >= 2
  PROVE  /\ IsPrime(n) => \A bases \in SUBSET BasesFor(n) : IsProbablePrime(n, bases)
         /\ IsProbablePrime(n, BasesFor(n)) => IsPrime(n)
<1>1. ASSUME IsPrime(n), NEW bases \in SUBSET BasesFor(n)
      PROVE  IsProbablePrime(n, bases)
  <2>1. Prime(n)
    BY <1>1 DEF Prime
  <2>2. \A a \in bases : Survives(n, a)
    BY <2>1, PrimeSurvives DEF BasesFor
  <2>3. ASSUME NEW p \in SmallPrimes, n % p = 0 PROVE n = p
    <3>1. p \in Nat \ {0} /\ p > 1
      BY SmallPrimesAssumption
    <3>2. p \notin 2..(n - 1)
      BY <1>1, <2>3 DEF IsPrime
    <3>3. p > n => n % p = n
      BY <3>1
    <3>4. QED
      BY <2>3, <3>1, <3>2, <3>3
  <2>4. QED
    BY <2>2, <2>3 DEF IsProbablePrime, NoSmallFactor
<1>2. ASSUME IsProbablePrime(n, BasesFor(n)) PROVE IsPrime(n)
  <2>1. CASE n \in SmallPrimes
    BY <2>1, SmallPrimesAssumption
  <2>2. CASE \A a \in BasesFor(n) : Survives(n, a)
    <3>1. ASSUME NEW d \in 2..(n - 1), n % d = 0 PROVE FALSE
      <4>1. d \in 2..(n - 2)
        <5>1. n > 2 => n % (n - 1) = 1
          OBVIOUS
        <5>2. d # n - 1
          BY <3>1, <5>1
        <5>3. QED
          BY <5>2
      <4>2. ~Survives(n, d)
        BY <3>1, <4>1, DivisorWitness
      <4>3. QED
        BY <2>2, <4>1, <4>2 DEF BasesFor
    <3>2. QED
      BY <3>1 DEF IsPrime
  <2>3. QED
    BY <1>2, <2>1, <2>2 DEF IsProbablePrime
<1>3. QED
  BY <1>1, <1>2

(***************************************************************************)
(* Numbers and their bytes.                                                *)
(***************************************************************************)
Byte == 0..(Base - 1)

LEMMA BaseType == Base \in Nat \ {0} /\ Base \in Int /\ Base > 2
BY BaseAssumption

\* v[i] is what the first i bytes are worth.
Worth(v, s) ==
  /\ v \in [0..Len(s) -> Nat]
  /\ v[0] = 0 /\ \A i \in 1..Len(s) : v[i] = v[i - 1] * Base + s[i]

LEMMA FromBytesDef ==
  ASSUME NEW s \in Seq(Nat)
  PROVE  \E v : Worth(v, s) /\ FromBytes(s) = v[Len(s)]
<1> DEFINE D == 0..Len(s)
           V == Nat
           zero == 0
           comb == [t \in D \X Nat |-> IF t[1] = 0 THEN 0 ELSE t[2] * Base + s[t[1]]]
           body(g) == [i \in 0..Len(s) |-> IF i = 0 THEN 0 ELSE g[i - 1] * Base + s[i]]
           F == CHOOSE g : g = body(g)
<1>1. Len(s) \in Nat /\ \A i \in 1..Len(s) : s[i] \in Nat
  OBVIOUS
<1>2. ASSUME NEW n \in Nat, NEW i \in 1..Len(s) PROVE n * Base + s[i] \in Nat
  BY <1>1, BaseType
<1>3. comb \in [D \X V -> V]
  <2>1. ASSUME NEW t \in D \X V PROVE comb[t] \in V
    <3>1. CASE t[1] = 0
      BY <3>1
    <3>2. CASE t[1] # 0
      <4>1. t[1] \in 1..Len(s) /\ t[2] \in Nat
        BY <1>1, <3>2
      <4>2. t[2] * Base + s[t[1]] \in Nat
        BY <1>2, <4>1
      <4>3. QED
        BY <3>2, <4>2
    <3>3. QED
      BY <3>1, <3>2
  <2>2. QED
    BY <2>1
<1>4. D \in SUBSET Nat /\ zero \in D /\ zero \in Nat /\ zero \in V
      /\ \A n \in D : n = zero \/ n - 1 \in D
  BY <1>1
<1>5. PICK v \in [D -> V] : Counts(v, D, zero, zero, comb)
  <2> HIDE DEF D, V, zero, comb
  <2> QED BY <1>3, <1>4, Countdown
<1>6. \A i \in D : v[i] = IF i = 0 THEN 0 ELSE v[i - 1] * Base + s[i]
  <2>1. ASSUME NEW i \in D, i # 0 PROVE v[i] = v[i - 1] * Base + s[i]
    <3>1. PICK n \in Nat : n = v[i - 1]
      BY <1>1, <2>1
    <3>2. comb[<<i, n>>] = n * Base + s[i]
      BY <2>1
    <3> HIDE DEF comb
    <3>3. v[i] = comb[<<i, v[i - 1]>>]
      BY <1>5, <2>1 DEF Counts
    <3>4. QED
      BY <3>1, <3>2, <3>3
  <2>2. v[0] = 0
    BY <1>4, <1>5 DEF Counts
  <2>3. QED
    BY <2>1, <2>2
<1>7. v = body(v)
  BY <1>5, <1>6
<1>8. F = body(F)
  <2> HIDE DEF body
  <2> QED BY <1>7
<1>9. FromBytes(s) = F[Len(s)]
  BY DEF FromBytes
<1> HIDE DEF F
<1>10. \A i \in D : F[i] = IF i = 0 THEN 0 ELSE F[i - 1] * Base + s[i]
  BY <1>8
<1> DEFINE T == {i \in Nat : i \in D => F[i] = v[i]}
<1>11. T \in SUBSET Nat /\ 0 \in T
  BY <1>4, <1>6, <1>10
<1>12. ASSUME NEW i \in T PROVE i + 1 \in T
  <2>1. SUFFICES ASSUME i + 1 \in D PROVE F[i + 1] = v[i + 1]
    OBVIOUS
  <2>2. i \in D /\ i + 1 # 0 /\ (i + 1) - 1 = i
    BY <1>1, <2>1
  <2>3. F[i] = v[i]
    BY <2>2
  <2>4. QED
    BY <1>6, <1>10, <2>1, <2>2, <2>3
<1> HIDE DEF T
<1>13. \A i \in Nat : i \in T
  BY <1>11, <1>12, SetInduction
<1>14. Len(s) \in D /\ F[Len(s)] = v[Len(s)]
  BY <1>1, <1>13 DEF T
<1>15. Worth(v, s)
  BY <1>1, <1>5, <1>6 DEF Worth
<1>16. QED
  BY <1>9, <1>14, <1>15

LEMMA DivDiv ==
  ASSUME NEW a \in Int, NEW c \in Nat \ {0}, NEW d \in Nat \ {0}
  PROVE  a \div (c * d) = (a \div c) \div d
<1>1. PICK q \in Int, r \in 0..(c - 1) : a = c * q + r /\ a \div c = q
  BY DivMod
<1>2. PICK u \in Int, w \in 0..(d - 1) : q = d * u + w /\ q \div d = u
  BY DivMod
<1>3. PICK m \in Nat \ {0} : m = c * d
  OBVIOUS
<1>4. PICK x \in Int : x = c * w + r
  BY <1>2
<1>5. x \in 0..(m - 1)
  <2>1. c * w >= 0 /\ c * w <= c * (d - 1)
    BY <1>2
  <2>2. c * (d - 1) = m - c
    BY <1>3
  <2>3. QED
    BY <1>1, <1>3, <1>4, <2>1, <2>2
<1>6. a = m * u + x
  <2>1. a = c * (d * u + w) + r
    BY <1>1, <1>2
  <2>2. c * (d * u + w) = (c * d) * u + c * w
    BY <1>2
  <2>3. QED
    BY <1>3, <1>4, <2>1, <2>2
<1>7. a \div m = u
  BY <1>3, <1>5, <1>6, DivExact
<1>8. QED
  BY <1>1, <1>2, <1>3, <1>7

LEMMA BasePower ==
  \A n \in Nat : /\ Power(Base, n) \in Nat \ {0}
                 /\ Power(Base, n + 1) = Base * Power(Base, n)
BY BaseType, PowerDef, PowerPositive

LEMMA BasePowerZero == Power(Base, 0) = 1
BY BaseType, PowerDef

LEMMA WorthBound ==
  ASSUME NEW s \in Seq(Byte), NEW v, Worth(v, s)
  PROVE  /\ \A i \in 0..Len(s) : v[i] < Power(Base, i)
         /\ Len(s) # 0 /\ s[1] = 0 =>
              \A i \in 1..Len(s) : v[i] < Power(Base, i - 1)
<1>0. /\ Len(s) \in Nat /\ \A i \in 1..Len(s) : s[i] \in Nat /\ s[i] < Base
      /\ \A i \in 0..Len(s) : v[i] \in Nat
  <2>1. Len(s) \in Nat /\ \A i \in 1..Len(s) : s[i] \in Byte
    OBVIOUS
  <2>2. \A b \in Byte : b \in Nat /\ b < Base
    BY BaseType DEF Byte
  <2>3. \A i \in 0..Len(s) : v[i] \in Nat
    BY DEF Worth
  <2> QED BY <2>1, <2>2, <2>3
<1>1. ASSUME NEW n \in Nat, NEW b \in Nat, NEW k \in Nat, n < k, b < Base
      PROVE  n * Base + b < Base * k
  <2>1. n + 1 <= k
    BY <1>1
  <2>2. (n + 1) * Base <= k * Base
    BY <2>1, BaseType
  <2>3. (n + 1) * Base = n * Base + Base /\ k * Base = Base * k
    BY BaseType
  <2>4. n * Base \in Int /\ Base * k \in Int
    BY BaseType
  <2>5. QED
    BY <1>1, <2>2, <2>3, <2>4, BaseType
<1> DEFINE T == {i \in Nat : i <= Len(s) => v[i] < Power(Base, i)}
           U == {i \in Nat : i + 1 <= Len(s) => v[i + 1] < Power(Base, i)}
<1>2. T \in SUBSET Nat /\ 0 \in T
  <2>1. v[0] < Power(Base, 0)
    BY BasePowerZero DEF Worth
  <2>2. QED
    BY <2>1
<1>3. ASSUME NEW i \in T PROVE i + 1 \in T
  <2>1. SUFFICES ASSUME i + 1 <= Len(s) PROVE v[i + 1] < Power(Base, i + 1)
    OBVIOUS
  <2>2. i \in 0..Len(s) /\ i + 1 \in 1..Len(s) /\ (i + 1) - 1 = i
    BY <1>0, <2>1
  <2>3. v[i + 1] = v[i] * Base + s[i + 1]
    BY <2>2 DEF Worth
  <2>4. PICK n \in Nat, b \in Nat, k \in Nat :
          n = v[i] /\ b = s[i + 1] /\ b < Base /\ k = Power(Base, i)
    BY <1>0, <2>2, BasePower
  <2>5. n < k
    BY <2>2, <2>4
  <2>6. n * Base + b < Base * k
    BY <1>1, <2>4, <2>5
  <2>7. QED
    BY <2>3, <2>4, <2>6, BasePower
<1> HIDE DEF T
<1>4. \A i \in Nat : i \in T
  BY <1>2, <1>3, SetInduction
<1>5. ASSUME Len(s) # 0, s[1] = 0
      PROVE  \A i \in Nat : i \in U
  <2>1. U \in SUBSET Nat
    OBVIOUS
  <2>2. 0 \in U
    <3>1. 1 \in 1..Len(s) /\ 1 - 1 = 0 /\ 0 + 1 = 1
      BY <1>0, <1>5
    <3>2. v[1] = v[0] * Base + s[1] /\ v[0] = 0
      BY <3>1 DEF Worth
    <3>3. v[1] = 0
      BY <1>5, <3>2, BaseType
    <3>4. QED
      BY <3>1, <3>3, BasePowerZero
  <2>3. ASSUME NEW i \in U PROVE i + 1 \in U
    <3>1. SUFFICES ASSUME (i + 1) + 1 <= Len(s)
                   PROVE  v[(i + 1) + 1] < Power(Base, i + 1)
      OBVIOUS
    <3>2. PICK j \in Nat : j = i + 1 /\ j \in 0..Len(s) /\ j + 1 \in 1..Len(s) /\ (j + 1) - 1 = j
      BY <1>0, <3>1
    <3>3. v[j + 1] = v[j] * Base + s[j + 1]
      BY <3>2 DEF Worth
    <3>4. PICK n \in Nat, b \in Nat, k \in Nat :
            n = v[j] /\ b = s[j + 1] /\ b < Base /\ k = Power(Base, i)
      BY <1>0, <3>2, BasePower
    <3>5. n < k
      BY <1>0, <3>2, <3>4
    <3>6. n * Base + b < Base * k
      BY <1>1, <3>4, <3>5
    <3>7. QED
      BY <3>2, <3>3, <3>4, <3>6, BasePower
  <2> HIDE DEF U
  <2>4. QED
    BY <2>1, <2>2, <2>3, SetInduction
<1>6. ASSUME NEW i \in 0..Len(s) PROVE v[i] < Power(Base, i)
  <2>1. i \in Nat /\ i <= Len(s)
    BY <1>0
  <2>2. QED
    BY <1>4, <2>1 DEF T
<1>7. ASSUME Len(s) # 0, s[1] = 0, NEW i \in 1..Len(s) PROVE v[i] < Power(Base, i - 1)
  <2>1. PICK j \in Nat : i = j + 1 /\ j = i - 1 /\ j + 1 <= Len(s)
    BY <1>0
  <2>2. j \in U
    BY <1>5, <1>7
  <2>3. QED
    BY <2>1, <2>2
<1>8. QED
  BY <1>6, <1>7

\* Dividing by a power of the base drops that many bytes.
LEMMA WorthDigits ==
  ASSUME NEW s \in Seq(Byte), NEW v, Worth(v, s)
  PROVE  \A i \in 0..Len(s) : v[Len(s)] \div Power(Base, Len(s) - i) = v[i]
<1>0. PICK l \in Nat : l = Len(s)
  OBVIOUS
<1>1. \A i \in 0..l : v[i] \in Nat
  BY <1>0 DEF Worth
<1>2. ASSUME NEW i \in 1..l PROVE v[i] \div Base = v[i - 1]
  <2>1. PICK n \in Nat, b \in 0..(Base - 1) : n = v[i - 1] /\ b = s[i]
    <3>1. i - 1 \in 0..l /\ s[i] \in Byte
      BY <1>0
    <3>2. v[i - 1] \in Nat
      BY <1>1, <3>1
    <3>3. QED
      BY <3>1, <3>2 DEF Byte
  <2>2. v[i] = n * Base + b
    BY <1>0, <2>1 DEF Worth
  <2>3. PICK a \in Int : a = v[i] /\ a = Base * n + b
    <3>1. n * Base = Base * n /\ n * Base + b \in Int
      BY BaseType
    <3>2. QED
      BY <2>2, <3>1
  <2>6. n \in Int
    OBVIOUS
  <2>4. a \div Base = n
    BY <2>3, <2>6, BaseType, DivExact
  <2>5. QED
    BY <2>1, <2>3, <2>4
<1> DEFINE T == {j \in Nat : j <= l => v[l] \div Power(Base, j) = v[l - j]}
<1>3. T \in SUBSET Nat /\ 0 \in T
  <2>1. v[l] \in Nat /\ v[l] \div 1 = v[l] /\ l - 0 = l
    BY <1>1
  <2>2. QED
    BY <2>1, BasePowerZero
<1>4. ASSUME NEW j \in T PROVE j + 1 \in T
  <2>1. SUFFICES ASSUME j + 1 <= l
                 PROVE  v[l] \div Power(Base, j + 1) = v[l - (j + 1)]
    OBVIOUS
  <2>2. PICK i \in 1..l : i = l - j /\ i - 1 = l - (j + 1)
    BY <2>1
  <2>3. v[l] \div Power(Base, j) = v[i]
    BY <2>1, <2>2
  <2>4. PICK c \in Nat \ {0} : c = Power(Base, j) /\ Power(Base, j + 1) = c * Base
    <3>1. Power(Base, j) \in Nat \ {0} /\ Power(Base, j + 1) = Base * Power(Base, j)
      BY BasePower
    <3>2. Base * Power(Base, j) = Power(Base, j) * Base
      BY <3>1, BaseType
    <3>3. QED
      BY <3>1, <3>2
  <2>5. PICK a \in Int : a = v[l]
    BY <1>1
  <2>6. a \div (c * Base) = (a \div c) \div Base
    BY BaseType, DivDiv
  <2>7. QED
    BY <1>2, <2>2, <2>3, <2>4, <2>5, <2>6
<1> HIDE DEF T
<1>5. \A j \in Nat : j \in T
  BY <1>3, <1>4, SetInduction
<1>6. ASSUME NEW i \in 0..l PROVE v[l] \div Power(Base, l - i) = v[i]
  <2>1. PICK j \in Nat : j = l - i /\ j <= l /\ l - j = i
    OBVIOUS
  <2>2. v[l] \div Power(Base, j) = v[l - j]
    BY <1>5, <2>1 DEF T
  <2>3. QED
    BY <2>1, <2>2
<1>7. QED
  BY <1>0, <1>6

\* int.from_bytes and to_bytes.
LEMMA ToFromBytes ==
  ASSUME NEW s \in Seq(Byte)
  PROVE  /\ FromBytes(s) \in Nat /\ FromBytes(s) < Power(Base, Len(s))
         /\ Len(s) # 0 /\ s[1] = 0 => FromBytes(s) < Power(Base, Len(s) - 1)
         /\ ToBytes(FromBytes(s), Len(s)) = s
<1>0. PICK l \in Nat : l = Len(s)
  OBVIOUS
<1>1. s \in Seq(Nat)
  <2>1. Byte \subseteq Nat
    BY BaseType DEF Byte
  <2>2. QED
    BY <2>1, SeqMonotonic
<1>2. PICK v : Worth(v, s) /\ FromBytes(s) = v[l]
  BY <1>0, <1>1, FromBytesDef
<1>3. FromBytes(s) \in Nat /\ FromBytes(s) < Power(Base, l)
  <2>1. l \in 0..l
    OBVIOUS
  <2>2. QED
    BY <1>0, <1>2, <2>1, WorthBound DEF Worth
<1>4. ASSUME l # 0, s[1] = 0 PROVE FromBytes(s) < Power(Base, l - 1)
  <2>1. l \in 1..l
    BY <1>4
  <2>2. QED
    BY <1>0, <1>2, <1>4, <2>1, WorthBound
<1>5. ASSUME NEW i \in 1..l
      PROVE  (FromBytes(s) \div Power(Base, l - i)) % Base = s[i]
  <2>1. FromBytes(s) \div Power(Base, l - i) = v[i]
    <3>1. i \in 0..l
      OBVIOUS
    <3>2. QED
      BY <1>0, <1>2, <3>1, WorthDigits
  <2>2. PICK n \in Nat, b \in 0..(Base - 1) : n = v[i - 1] /\ b = s[i]
    <3>1. i - 1 \in 0..l /\ s[i] \in Byte
      BY <1>0
    <3>2. v[i - 1] \in Nat
      BY <1>0, <1>2, <3>1 DEF Worth
    <3>3. QED
      BY <3>1, <3>2 DEF Byte
  <2>3. PICK a \in Int : a = v[i] /\ a = Base * n + b
    <3>1. v[i] = n * Base + b
      BY <1>0, <1>2, <2>2 DEF Worth
    <3>2. n * Base = Base * n /\ n * Base + b \in Int
      BY BaseType
    <3>3. QED
      BY <3>1, <3>2
  <2>4. a % Base = b
    BY <2>3, BaseType, DivExact
  <2>5. QED
    BY <2>1, <2>2, <2>3, <2>4
<1>6. ToBytes(FromBytes(s), l) = s
  <2>1. s = [i \in 1..l |-> s[i]]
    BY <1>0
  <2>2. QED
    BY <1>5, <2>1 DEF ToBytes
<1>7. QED
  BY <1>0, <1>3, <1>4, <1>6

LEMMA ToBytesType ==
  ASSUME NEW n \in Nat, NEW len \in Nat
  PROVE  ToBytes(n, len) \in Seq(Byte) /\ Len(ToBytes(n, len)) = len
<1>1. ASSUME NEW i \in 1..len PROVE (n \div Power(Base, len - i)) % Base \in Byte
  <2>1. PICK c \in Nat \ {0} : c = Power(Base, len - i)
    <3>1. len - i \in Nat
      OBVIOUS
    <3>2. QED
      BY <3>1, BasePower
  <2>2. PICK q \in Int : q = n \div c
    BY DivMod
  <2>3. q % Base \in Byte
    BY BaseType, DivMod DEF Byte
  <2>4. QED
    BY <2>1, <2>2, <2>3
<1>2. QED
  BY <1>1 DEF ToBytes

LEMMA FromToBytes ==
  ASSUME NEW n \in Nat, NEW len \in Nat, n < Power(Base, len)
  PROVE  FromBytes(ToBytes(n, len)) = n
<1> DEFINE s == ToBytes(n, len)
<1>1. s \in Seq(Byte) /\ Len(s) = len
  BY ToBytesType
<1>2. \A i \in 1..len : s[i] = (n \div Power(Base, len - i)) % Base
  BY DEF ToBytes
<1> HIDE DEF s
<1>3. s \in Seq(Nat)
  <2>1. Byte \subseteq Nat
    BY BaseType DEF Byte
  <2>2. QED
    BY <1>1, <2>1, SeqMonotonic
<1>4. PICK v : Worth(v, s) /\ FromBytes(s) = v[len]
  BY <1>1, <1>3, FromBytesDef
<1> DEFINE T == {i \in Nat : i <= len => v[i] = n \div Power(Base, len - i)}
<1>5. T \in SUBSET Nat /\ 0 \in T
  <2>1. PICK c \in Nat \ {0} : c = Power(Base, len)
    BY BasePower
  <2>2. n \div c = 0
    <3>1. n \in 0..(c - 1) /\ n = c * 0 + n /\ 0 \in Int /\ n \in Int
      BY <2>1
    <3>2. QED
      BY <3>1, DivExact
  <2>3. v[0] = 0 /\ len - 0 = len
    BY <1>4 DEF Worth
  <2>4. QED
    BY <2>1, <2>2, <2>3
<1>6. ASSUME NEW i \in T PROVE i + 1 \in T
  <2>1. SUFFICES ASSUME i + 1 <= len
                 PROVE  v[i + 1] = n \div Power(Base, len - (i + 1))
    OBVIOUS
  <2>2. PICK j \in Nat : j = len - (i + 1) /\ j + 1 = len - i /\ i + 1 \in 1..len /\ (i + 1) - 1 = i
    BY <2>1
  <2>3. v[i + 1] = v[i] * Base + s[i + 1]
    BY <1>1, <1>4, <2>2 DEF Worth
  <2>4. PICK c \in Nat \ {0} : c = Power(Base, j) /\ Power(Base, j + 1) = c * Base
    <3>1. Power(Base, j) \in Nat \ {0} /\ Power(Base, j + 1) = Base * Power(Base, j)
      BY BasePower
    <3>2. Base * Power(Base, j) = Power(Base, j) * Base
      BY <3>1, BaseType
    <3>3. QED
      BY <3>1, <3>2
  <2>5. n \div (c * Base) = (n \div c) \div Base
    BY BaseType, DivDiv
  <2>6. PICK q \in Int : q = n \div c
    OBVIOUS
  <2>7. v[i] = q \div Base
    BY <2>1, <2>2, <2>4, <2>5, <2>6
  <2>8. s[i + 1] = q % Base
    BY <1>2, <2>2, <2>4, <2>6
  <2>9. q = Base * (q \div Base) + (q % Base) /\ q \div Base \in Int
    BY BaseType, DivMod
  <2>10. PICK u \in Int : u = q \div Base
    BY <2>9
  <2>11. u * Base = Base * u
    BY BaseType
  <2>12. v[i + 1] = q
    BY <2>3, <2>7, <2>8, <2>9, <2>10, <2>11
  <2>13. QED
    BY <2>2, <2>4, <2>6, <2>12
<1> HIDE DEF T
<1>7. \A i \in Nat : i \in T
  BY <1>5, <1>6, SetInduction
<1>8. v[len] = n \div Power(Base, len - len)
  BY <1>7 DEF T
<1>9. n \div Power(Base, len - len) = n
  <2>1. len - len = 0 /\ n \div 1 = n
    OBVIOUS
  <2>2. QED
    BY <2>1, BasePowerZero
<1>10. QED
  BY <1>4, <1>8, <1>9 DEF s

\* Length is the number of bytes of n: enough for it, and one less is not.
LEMMA LengthDef ==
  ASSUME NEW n \in Nat \ {0}
  PROVE  /\ Length(n) \in Nat /\ n < Power(Base, Length(n))
         /\ Length(n) # 0 /\ Power(Base, Length(n) - 1) <= n
<1> DEFINE T == {k \in Nat : k < Power(Base, k)}
           L == {l \in Nat : n < Power(Base, l)}
<1>1. T \in SUBSET Nat /\ 0 \in T
  BY BasePowerZero
<1>2. ASSUME NEW k \in T PROVE k + 1 \in T
  <2>1. PICK c \in Nat \ {0} : c = Power(Base, k) /\ Power(Base, k + 1) = Base * c /\ k < c
    BY BasePower
  <2>2. Base * c >= c + c
    BY BaseType
  <2>3. Base * c \in Int
    BY BaseType
  <2>4. k + 1 < Base * c
    BY <2>1, <2>2, <2>3
  <2>5. QED
    BY <2>1, <2>4
<1> HIDE DEF T
<1>3. \A k \in Nat : k \in T
  BY <1>1, <1>2, SetInduction
<1>4. n \in L /\ L \in SUBSET Nat
  BY <1>3 DEF T
<1>5. PICK l \in L : \A k \in L : l <= k
  <2> HIDE DEF L
  <2> QED BY <1>4, Least
<1>6. /\ l \in 0..n /\ Power(Base, l) > n
      /\ \A k \in 0..(l - 1) : Power(Base, k) <= n
  <2>1. l \in Nat /\ Power(Base, l) \in Nat
    BY BasePower
  <2>2. ASSUME NEW k \in 0..(l - 1) PROVE Power(Base, k) <= n
    <3>1. k \in Nat /\ ~(l <= k) /\ Power(Base, k) \in Nat
      BY <2>1, BasePower
    <3>2. k \notin L
      BY <1>5, <3>1
    <3>3. QED
      BY <3>1, <3>2
  <2>3. l <= n
    BY <1>4, <1>5
  <2>4. QED
    BY <2>1, <2>2, <2>3
<1> DEFINE Good(k) == /\ Power(Base, k) > n
                      /\ \A j \in 0..(k - 1) : Power(Base, j) <= n
<1>7. Length(n) = CHOOSE k \in 0..n : Good(k)
  BY DEF Length
<1>8. PICK k \in 0..n : k = Length(n) /\ Good(k)
  <2>1. Good(l)
    BY <1>6
  <2> HIDE DEF Good
  <2>2. QED
    BY <1>6, <1>7, <2>1
<1>9. k # 0
  BY <1>8, BasePowerZero
<1>10. k - 1 \in 0..(k - 1) /\ k \in Nat /\ Power(Base, k) \in Nat
  BY <1>9, BasePower
<1>11. QED
  BY <1>8, <1>9, <1>10

(***************************************************************************)
(* RSA: raising to both exponents, modulo two primes.                      *)
(***************************************************************************)
LEMMA FermatPower ==
  ASSUME NEW p, Prime(p), NEW a \in Int, NEW k \in Nat
  PROVE  Cong(p, Power(a, (p - 1) * k + 1), a)
<1>0. p \in Nat \ {0} /\ p > 1
  BY PrimeUnit
<1>1. PICK m \in Nat : m = p - 1
  BY <1>0
<1>2. PICK n \in Nat : n = m * k
  OBVIOUS
<1>3. Power(a, n + 1) = a * Power(a, n) /\ Power(a, n) \in Int
  BY PowerDef
<1>4. CASE Divides(p, a)
  <2>1. PICK j \in Int : a = p * j
    BY <1>4 DEF Divides
  <2>2. PICK g \in Int : g = Power(a, n)
    BY <1>3
  <2>3. a * g - a = p * (j * g - j)
    <3>1. (p * j) * g - p * j = p * (j * g - j)
      BY <1>0
    <3>2. QED
      BY <2>1, <3>1
  <2>4. j * g - j \in Int
    OBVIOUS
  <2>5. QED
    BY <1>1, <1>2, <1>3, <2>2, <2>3, <2>4 DEF Cong, Divides
<1>5. CASE ~Divides(p, a)
  <2>1. Cong(p, Power(a, m), 1) /\ Power(a, m) \in Int
    BY <1>1, <1>5, Fermat, PowerDef
  <2>2. Cong(p, Power(Power(a, m), k), Power(1, k))
    BY <1>0, <2>1, PowerCong
  <2>3. Cong(p, Power(a, n), 1)
    BY <1>2, <2>2, PowerOne, PowerProduct
  <2>4. Cong(p, a, a)
    BY <1>0, CongRefl
  <2>5. Cong(p, a * Power(a, n), a * 1)
    BY <1>0, <1>3, <2>3, <2>4, CongRing
  <2>6. a * 1 = a
    OBVIOUS
  <2>7. QED
    BY <1>1, <1>2, <1>3, <2>5, <2>6
<1>6. QED
  BY <1>4, <1>5

LEMMA PrimesDivide ==
  ASSUME NEW p, NEW q, Prime(p), Prime(q), p # q, NEW x \in Int, Divides(p, x), Divides(q, x)
  PROVE  Divides(p * q, x)
<1>0. p \in Nat \ {0} /\ p > 1 /\ q \in Nat \ {0} /\ q > 1
  BY PrimeUnit
<1>1. PICK j \in Int : x = p * j
  BY DEF Divides
<1>2. ~Divides(q, p)
  <2>1. q < p => p % q # 0
    <3>1. q < p => q \in 2..(p - 1)
      BY <1>0
    <3>2. QED
      BY <3>1 DEF Prime, IsPrime
  <2>2. q > p => p % q = p
    BY <1>0
  <2>3. p % q # 0
    BY <1>0, <2>1, <2>2
  <2>4. q \in Nat \ {0} /\ p \in Int
    BY <1>0
  <2>5. QED
    BY <2>3, <2>4, Remainder
<1>3. Divides(q, j)
  <2>1. p \in Int /\ Divides(q, p * j)
    BY <1>0, <1>1
  <2>2. QED
    BY <1>2, <2>1, PrimeDivides
<1>4. PICK k \in Int : j = q * k
  BY <1>3 DEF Divides
<1>5. x = (p * q) * k
  <2>1. p * (q * k) = (p * q) * k
    BY <1>0
  <2>2. QED
    BY <1>1, <1>4, <2>1
<1>6. QED
  BY <1>5 DEF Divides

\* The private exponent undoes the public one.
LEMMA ExponentsCancel ==
  ASSUME NEW p, NEW q, Prime(p), Prime(q), Suits(p, q), NEW a \in Int
  PROVE  LET d == ModInverse(Exponent, (p - 1) * (q - 1))
         IN  d \in Nat /\ Cong(p * q, Power(a, Exponent * d), a)
<1>0. /\ p \in Nat \ {0} /\ p > 1 /\ q \in Nat \ {0} /\ q > 1 /\ p # q
      /\ Exponent \in Nat \ {0}
  BY PrimeUnit, ExponentAssumption DEF Suits
<1>1. PICK u \in Nat \ {0}, w \in Nat \ {0} : u = p - 1 /\ w = q - 1 /\ u # w
  BY <1>0
<1>2. PICK m \in Nat \ {0} : m = u * w /\ m > 1
  <2>1. u * w \in Nat \ {0}
    OBVIOUS
  <2>2. u > 1 \/ w > 1
    <3>1. u >= 1 /\ w >= 1
      OBVIOUS
    <3>2. u # w
      BY <1>1
    <3>3. QED
      BY <3>1, <3>2
  <2>3. u > 1 => u * w >= u
    OBVIOUS
  <2>4. w > 1 => u * w >= w
    OBVIOUS
  <2>5. u * w > 1
    BY <2>1, <2>2, <2>3, <2>4
  <2>6. QED
    BY <2>1, <2>5
<1>3. PICK d \in Nat : d = ModInverse(Exponent, m) /\ Divides(m, Exponent * d - 1)
  <2>1. Invertible(Exponent, m) /\ Exponent \in Int
    BY <1>0, <1>1, <1>2 DEF Suits
  <2>2. /\ ModInverse(Exponent, m) \in 0..(m - 1)
        /\ Divides(m, Exponent * ModInverse(Exponent, m) - 1)
    BY <2>1, ModInverse_Correct
  <2>3. ModInverse(Exponent, m) \in Nat
    BY <2>2
  <2>4. QED
    BY <2>2, <2>3
<1>4. PICK e \in Nat : e = Exponent * d
  BY <1>0
<1>5. PICK k \in Nat : e = m * k + 1
  <2>1. PICK k \in Int : e - 1 = m * k
    BY <1>3, <1>4 DEF Divides
  <2>2. ~(k < 0)
    <3>1. k <= -1 => m * k <= -m
      OBVIOUS
    <3>2. e - 1 >= -1
      OBVIOUS
    <3>3. QED
      BY <1>2, <2>1, <3>1, <3>2
  <2>3. k \in Nat /\ m * k \in Int
    BY <2>2
  <2>4. QED
    BY <2>1, <2>3
<1>6. Cong(p, Power(a, e), a)
  <2>1. PICK x \in Nat : x = w * k
    OBVIOUS
  <2>2. e = u * x + 1
    <3>1. (u * w) * k = u * (w * k)
      OBVIOUS
    <3>2. QED
      BY <1>2, <1>5, <2>1, <3>1
  <2>3. QED
    BY <1>1, <2>2, FermatPower
<1>7. Cong(q, Power(a, e), a)
  <2>1. PICK x \in Nat : x = u * k
    OBVIOUS
  <2>2. e = w * x + 1
    <3>1. (u * w) * k = w * (u * k)
      OBVIOUS
    <3>2. QED
      BY <1>2, <1>5, <2>1, <3>1
  <2>3. QED
    BY <1>1, <2>2, FermatPower
<1>8. PICK y \in Int : y = Power(a, e) - a
  BY PowerDef
<1>9. Divides(p * q, y)
  BY <1>0, <1>6, <1>7, <1>8, PrimesDivide DEF Cong
<1>10. Cong(p * q, Power(a, e), a)
  BY <1>8, <1>9 DEF Cong
<1>11. QED
  BY <1>1, <1>2, <1>3, <1>4, <1>10

\* On the numbers below p * q, decrypting undoes encrypting.
LEMMA PowModsCancel ==
  ASSUME NEW p, NEW q, Prime(p), Prime(q), Suits(p, q), NEW a \in 0..(p * q - 1)
  PROVE  LET c == PowMod(a, Exponent, p * q)
         IN  /\ c \in 0..(p * q - 1)
             /\ PowMod(c, ModInverse(Exponent, (p - 1) * (q - 1)), p * q) = a
<1>0. p \in Nat \ {0} /\ q \in Nat \ {0} /\ Exponent \in Nat
  BY PrimeUnit, ExponentAssumption
<1>1. PICK n \in Nat \ {0} : n = p * q
  BY <1>0
<1>2. PICK d \in Nat : /\ d = ModInverse(Exponent, (p - 1) * (q - 1))
                       /\ Cong(n, Power(a, Exponent * d), a)
  <2>1. a \in Int
    BY <1>0
  <2>2. QED
    BY <1>1, <2>1, ExponentsCancel
<1>3. PICK b \in Int : b = a /\ b \in 0..(n - 1)
  BY <1>0, <1>1
<1>4. PICK c \in Int : /\ c = PowMod(b, Exponent, n) /\ c \in 0..(n - 1)
                       /\ Cong(n, c, Power(b, Exponent))
  <2>1. /\ PowMod(b, Exponent, n) \in 0..(n - 1)
        /\ Cong(n, PowMod(b, Exponent, n), Power(b, Exponent))
    BY <1>0, PowModIsPower
  <2>2. QED
    BY <2>1
<1>5. PICK x \in Int : /\ x = PowMod(c, d, n) /\ x \in 0..(n - 1)
                       /\ Cong(n, x, Power(c, d))
  <2>1. PowMod(c, d, n) \in 0..(n - 1) /\ Cong(n, PowMod(c, d, n), Power(c, d))
    BY PowModIsPower
  <2>2. QED
    BY <2>1
<1>6. Power(b, Exponent) \in Int /\ Power(c, d) \in Int
  BY <1>0, PowerDef
<1>7. Cong(n, Power(c, d), Power(Power(b, Exponent), d)) /\ Power(Power(b, Exponent), d) \in Int
  BY <1>4, <1>6, PowerCong, PowerDef
<1>8. Cong(n, Power(Power(b, Exponent), d), b)
  BY <1>0, <1>2, <1>3, PowerProduct
<1>9. Cong(n, x, b)
  <2>1. Cong(n, x, Power(Power(b, Exponent), d))
    BY <1>5, <1>6, <1>7, CongTrans
  <2>2. QED
    BY <1>7, <1>8, <2>1, CongTrans
<1>10. x = b
  BY <1>3, <1>5, <1>9, CongEqual
<1>11. QED
  BY <1>1, <1>2, <1>3, <1>4, <1>5, <1>10

(***************************************************************************)
(* Strings cut into blocks and put together again.                         *)
(***************************************************************************)
\* f[i] is the first i strings, joined.
Joins(f, seqs, S) ==
  /\ f \in [1..Len(seqs) -> Seq(S)]
  /\ f[1] = seqs[1] /\ \A i \in 1..Len(seqs) : i # 1 => f[i] = f[i - 1] \o seqs[i]

LEMMA FlattenDef ==
  ASSUME NEW S, NEW seqs \in Seq(Seq(S)), Len(seqs) # 0
  PROVE  \E f : Joins(f, seqs, S) /\ FlattenSeq(seqs) = f[Len(seqs)]
<1> DEFINE D == 1..Len(seqs)
           V == Seq(S)
           one == 1
           comb == [t \in D \X V |-> t[2] \o seqs[t[1]]]
           body(g) == [i \in 1..Len(seqs) |-> IF i = 1 THEN seqs[i] ELSE g[i - 1] \o seqs[i]]
           F == CHOOSE g : g = body(g)
<1>1. Len(seqs) \in Nat /\ \A i \in D : seqs[i] \in V
  OBVIOUS
<1>2. comb \in [D \X V -> V]
  <2>1. ASSUME NEW t \in D \X V PROVE comb[t] \in V
    <3>1. t[2] \in Seq(S) /\ seqs[t[1]] \in Seq(S)
      BY <1>1
    <3>2. t[2] \o seqs[t[1]] \in Seq(S)
      BY <3>1, ConcatProperties
    <3>3. QED
      BY <3>2
  <2>2. QED
    BY <2>1
<1>3. /\ D \in SUBSET Nat /\ one \in D /\ one \in Nat /\ seqs[1] \in V
      /\ \A n \in D : n = one \/ n - 1 \in D
  BY <1>1
<1>4. PICK f \in [D -> V] : Counts(f, D, one, seqs[1], comb)
  <2> HIDE DEF D, V, one, comb
  <2> QED BY <1>2, <1>3, Countdown
<1>5. \A i \in D : f[i] = IF i = 1 THEN seqs[1] ELSE f[i - 1] \o seqs[i]
  <2>1. f[1] = seqs[1]
    BY <1>3, <1>4 DEF Counts
  <2>2. ASSUME NEW i \in D, i # 1 PROVE f[i] = f[i - 1] \o seqs[i]
    <3>0. i - 1 \in D
      BY <1>1, <2>2
    <3>1. PICK x \in V : x = f[i - 1]
      <4> HIDE DEF D, V
      <4> QED BY <3>0
    <3>2. comb[<<i, x>>] = x \o seqs[i]
      OBVIOUS
    <3> HIDE DEF comb
    <3>3. f[i] = comb[<<i, f[i - 1]>>]
      BY <1>4, <2>2 DEF Counts
    <3>4. QED
      BY <3>1, <3>2, <3>3
  <2>3. QED
    BY <2>1, <2>2
<1>6. f = body(f)
  BY <1>4, <1>5
<1>7. F = body(F)
  <2> HIDE DEF body
  <2> QED BY <1>6
<1>8. FlattenSeq(seqs) = F[Len(seqs)]
  BY DEF FlattenSeq
<1> HIDE DEF F
<1>9. \A i \in D : F[i] = IF i = 1 THEN seqs[i] ELSE F[i - 1] \o seqs[i]
  BY <1>7
<1> DEFINE T == {i \in Nat : i \in D => F[i] = f[i]}
<1>10. T \in SUBSET Nat /\ 0 \in T
  OBVIOUS
<1>11. ASSUME NEW i \in T PROVE i + 1 \in T
  <2>1. SUFFICES ASSUME i + 1 \in D PROVE F[i + 1] = f[i + 1]
    OBVIOUS
  <2>2. CASE i = 0
    <3>1. i + 1 = 1 /\ 1 \in D
      BY <2>1, <2>2
    <3>2. F[1] = seqs[1] /\ f[1] = seqs[1]
      BY <1>5, <1>9, <3>1
    <3>3. QED
      BY <3>1, <3>2
  <2>3. CASE i # 0
    <3>1. i \in D /\ i + 1 # 1 /\ (i + 1) - 1 = i
      BY <1>1, <2>1, <2>3
    <3>2. F[i] = f[i]
      BY <3>1
    <3>3. F[i + 1] = F[i] \o seqs[i + 1] /\ f[i + 1] = f[i] \o seqs[i + 1]
      BY <1>5, <1>9, <2>1, <3>1
    <3>4. QED
      BY <3>2, <3>3
  <2>4. QED
    BY <2>2, <2>3
<1> HIDE DEF T
<1>12. \A i \in Nat : i \in T
  BY <1>10, <1>11, SetInduction
<1>13. Len(seqs) \in D /\ F[Len(seqs)] = f[Len(seqs)]
  <2>1. Len(seqs) \in D /\ Len(seqs) \in Nat
    BY <1>1
  <2> HIDE DEF D
  <2>2. QED
    BY <1>12, <2>1 DEF T
<1>14. Joins(f, seqs, S)
  BY <1>3, <1>4, <1>5 DEF Joins
<1>15. QED
  BY <1>8, <1>13, <1>14

LEMMA TimesMonotonic ==
  ASSUME NEW m \in Nat, NEW i \in Int, NEW j \in Int, i <= j
  PROVE  i * m \in Int /\ j * m \in Int /\ i * m <= j * m
OBVIOUS

\* The last byte of the i-th block.
Until(i, size, l) == IF i * size < l THEN i * size ELSE l

\* bs is s, cut into n blocks.
Cut(bs, n, s, size, S) ==
  /\ (n - 1) * size < Len(s) /\ Len(s) <= n * size
  /\ Len(s) % size = 0 => Len(s) = n * size
  /\ bs \in Seq(Seq(S)) /\ Len(bs) = n
  /\ \A i \in 1..n : /\ bs[i] = SubSeq(s, (i - 1) * size + 1, Until(i, size, Len(s)))
                    /\ Len(bs[i]) = Until(i, size, Len(s)) - (i - 1) * size
                    /\ Len(bs[i]) \in 1..size

LEMMA BlocksDef ==
  ASSUME NEW S, NEW s \in Seq(S), NEW size \in Nat \ {0}, Len(s) # 0
  PROVE  \E n \in Nat \ {0} : Cut(Blocks(s, size), n, s, size, S)
<1>1. PICK l \in Nat \ {0} : l = Len(s)
  OBVIOUS
<1>2. PICK n \in Int, r \in 0..(size - 1) :
        l + size - 1 = size * n + r /\ (l + size - 1) \div size = n
  <2>1. PICK a \in Int : a = l + size - 1
    OBVIOUS
  <2>2. a \div size \in Int /\ a % size \in 0..(size - 1) /\ a = size * (a \div size) + (a % size)
    BY DivMod
  <2>3. QED
    BY <2>1, <2>2
<1>3. size * n = n * size /\ n * size \in Int /\ (n - 1) * size = n * size - size
  OBVIOUS
<1>4. (n - 1) * size < l /\ l <= n * size
  BY <1>2, <1>3
<1>5. n \in Nat \ {0}
  <2>1. n <= 0 => n * size <= 0
    OBVIOUS
  <2>2. QED
    BY <1>4, <2>1
<1>6. l % size = 0 => l = n * size
  <2>1. SUFFICES ASSUME l % size = 0 PROVE l = n * size
    OBVIOUS
  <2>2. PICK q \in Int : l = size * q
    <3>1. l \in Int
      OBVIOUS
    <3>2. PICK q \in Int, m \in Int : q = l \div size /\ m = l % size /\ l = size * q + m
      <4>1. l \div size \in Int /\ l % size \in 0..(size - 1) /\ l = size * (l \div size) + (l % size)
        BY <3>1, DivMod
      <4>2. QED
        BY <4>1
    <3>3. l = size * q
      BY <2>1, <3>2
    <3>4. QED
      BY <3>3
  <2>3. l + size - 1 = size * q + (size - 1) /\ size - 1 \in 0..(size - 1)
    BY <2>2
  <2>4. PICK a \in Int : a = l + size - 1
    OBVIOUS
  <2>5. a \div size = q
    BY <2>3, <2>4, DivExact
  <2>6. q = n
    BY <1>2, <2>4, <2>5
  <2>7. QED
    BY <1>3, <2>2, <2>6
<1> DEFINE block(i) == SubSeq(s, (i - 1) * size + 1, Until(i, size, l))
<1>7. ASSUME NEW i \in 1..n
      PROVE  /\ block(i) \in Seq(S)
             /\ Len(block(i)) = Until(i, size, l) - (i - 1) * size
             /\ Len(block(i)) \in 1..size
  <2>1. PICK b \in Nat : b = (i - 1) * size /\ i * size = b + size
    <3>1. i - 1 \in Nat
      BY <1>5
    <3>2. (i - 1) * size \in Nat /\ i * size = (i - 1) * size + size
      BY <3>1
    <3>3. QED
      BY <3>2
  <2>2. b < l
    <3>1. (i - 1) * size <= (n - 1) * size
      <4>1. i - 1 \in Int /\ n - 1 \in Int /\ i - 1 <= n - 1 /\ size \in Nat
        OBVIOUS
      <4>2. QED
        BY <4>1, TimesMonotonic
    <3>2. QED
      BY <1>3, <1>4, <2>1, <3>1
  <2>3. PICK e \in Nat : e = Until(i, size, l) /\ e <= l /\ b < e /\ e <= b + size
    BY <2>1, <2>2 DEF Until
  <2>4. \A j \in (b + 1)..e : s[j] \in S
    BY <1>1, <2>3
  <2>5. /\ SubSeq(s, b + 1, e) \in Seq(S)
        /\ Len(SubSeq(s, b + 1, e)) = IF b + 1 <= e THEN e - (b + 1) + 1 ELSE 0
    <3>1. b + 1 \in Int /\ e \in Int
      OBVIOUS
    <3>2. QED
      BY <2>4, <3>1, SubSeqProperties
  <2>6. Len(SubSeq(s, b + 1, e)) = e - b /\ e - b \in 1..size
    BY <2>3, <2>5
  <2>7. QED
    BY <2>1, <2>3, <2>5, <2>6
<1>8. Blocks(s, size) = [i \in 1..n |-> block(i)]
  BY <1>1, <1>2 DEF Blocks, Until
<1> HIDE DEF block
<1>9. Blocks(s, size) \in Seq(Seq(S)) /\ Len(Blocks(s, size)) = n
  BY <1>5, <1>7, <1>8
<1>10. \A i \in 1..n : Blocks(s, size)[i] = block(i)
  BY <1>8
<1>11. QED
  BY <1>1, <1>4, <1>5, <1>6, <1>7, <1>9, <1>10 DEF block, Cut

\* Cut and joined, a string is the same again.
LEMMA JoinBlocks ==
  ASSUME NEW S, NEW s \in Seq(S), NEW size \in Nat \ {0}, Len(s) # 0
  PROVE  FlattenSeq(Blocks(s, size)) = s
<1>1. PICK l \in Nat \ {0} : l = Len(s)
  OBVIOUS
<1> DEFINE bs == Blocks(s, size)
<1>2. PICK n \in Nat \ {0} :
        /\ (n - 1) * size < l /\ l <= n * size
        /\ bs \in Seq(Seq(S)) /\ Len(bs) = n
        /\ \A i \in 1..n : bs[i] = SubSeq(s, (i - 1) * size + 1, Until(i, size, l))
  <2>1. PICK n \in Nat \ {0} : Cut(bs, n, s, size, S)
    BY BlocksDef
  <2> HIDE DEF bs
  <2>2. QED
    BY <1>1, <2>1 DEF Cut
<1> HIDE DEF bs
<1>3. PICK f : Joins(f, bs, S) /\ FlattenSeq(bs) = f[n]
  BY <1>2, FlattenDef
<1> DEFINE T == {i \in Nat : i + 1 <= n => f[i + 1] = SubSeq(s, 1, Until(i + 1, size, l))}
<1>4. T \in SUBSET Nat /\ 0 \in T
  <2>1. 1 \in 1..n /\ (1 - 1) * size + 1 = 1
    BY <1>2
  <2>2. f[1] = SubSeq(s, 1, Until(1, size, l))
    BY <1>2, <1>3, <2>1 DEF Joins
  <2>3. QED
    BY <2>2
<1>5. ASSUME NEW i \in T PROVE i + 1 \in T
  <2>1. PICK j \in Nat \ {0} : j = i + 1
    OBVIOUS
  <2>2. SUFFICES ASSUME j + 1 <= n PROVE f[j + 1] = SubSeq(s, 1, Until(j + 1, size, l))
    BY <2>1
  <2>3. j + 1 \in 1..n /\ j + 1 # 1 /\ (j + 1) - 1 = j
    BY <2>2
  <2>4. f[j + 1] = f[j] \o bs[j + 1]
    BY <1>2, <1>3, <2>3 DEF Joins
  <2>5. PICK b \in Nat : b = j * size /\ b < l
    <3>1. j * size <= (n - 1) * size /\ j * size \in Int
      <4>1. j \in Int /\ n - 1 \in Int /\ j <= n - 1 /\ size \in Nat
        BY <2>2
      <4>2. QED
        BY <4>1, TimesMonotonic
    <3>2. PICK b \in Nat, c \in Int : b = j * size /\ c = (n - 1) * size
      OBVIOUS
    <3>3. b <= c /\ c < l
      BY <1>2, <3>1, <3>2
    <3>4. b < l
      BY <3>3
    <3>5. QED
      BY <3>2, <3>4
  <2>6. f[j] = SubSeq(s, 1, b)
    <3>1. f[j] = SubSeq(s, 1, Until(j, size, l))
      BY <2>1, <2>2
    <3>2. QED
      BY <2>5, <3>1 DEF Until
  <2>7. PICK e \in Nat : e = Until(j + 1, size, l) /\ e <= l /\ b <= e
    <3>1. (j + 1) * size = b + size
      BY <2>5
    <3>2. QED
      BY <2>5, <3>1 DEF Until
  <2>8. bs[j + 1] = SubSeq(s, b + 1, e)
    <3>1. bs[j + 1] = SubSeq(s, ((j + 1) - 1) * size + 1, Until(j + 1, size, l))
      BY <1>2, <2>3
    <3>2. QED
      BY <2>3, <2>5, <2>7, <3>1
  <2>9. SubSeq(s, 1, b) \o SubSeq(s, b + 1, e) = SubSeq(s, 1, e)
    <3>1. 1 \in 1..(Len(s) + 1) /\ b \in (1 - 1)..Len(s) /\ e \in b..Len(s)
      BY <1>1, <2>5, <2>7
    <3>2. QED
      BY <3>1, ConcatAdjacentSubSeq
  <2>10. QED
    BY <2>4, <2>6, <2>7, <2>8, <2>9
<1> HIDE DEF T
<1>6. \A i \in Nat : i \in T
  BY <1>4, <1>5, SetInduction
<1>7. n - 1 \in Nat /\ (n - 1) + 1 = n
  OBVIOUS
<1>8. f[n] = SubSeq(s, 1, Until(n, size, l))
  <2>1. PICK m \in Nat : m = n - 1 /\ m + 1 = n
    BY <1>7
  <2>2. m \in T
    BY <1>6
  <2>3. QED
    BY <2>1, <2>2 DEF T
<1>9. Until(n, size, l) = l
  <2>1. n * size \in Int
    OBVIOUS
  <2>2. QED
    BY <1>2, <2>1 DEF Until
<1>10. SubSeq(s, 1, l) = s
  BY <1>1, SubSeqFull
<1>11. QED
  BY <1>3, <1>8, <1>9, <1>10 DEF bs

\* Joined and cut, whole blocks are the same again.
LEMMA BlocksOfJoin ==
  ASSUME NEW S, NEW size \in Nat \ {0}, NEW bs \in Seq(Seq(S)), Len(bs) # 0,
         \A i \in 1..Len(bs) : Len(bs[i]) = size
  PROVE  /\ FlattenSeq(bs) \in Seq(S) /\ Len(FlattenSeq(bs)) = Len(bs) * size
         /\ Blocks(FlattenSeq(bs), size) = bs
<1>1. PICK n \in Nat \ {0} : n = Len(bs)
  OBVIOUS
<1>2. PICK f : Joins(f, bs, S) /\ FlattenSeq(bs) = f[n]
  BY <1>1, FlattenDef
<1> DEFINE Right(i) ==
             /\ f[i] \in Seq(S) /\ Len(f[i]) = i * size
             /\ \A j \in 1..i : SubSeq(f[i], (j - 1) * size + 1, j * size) = bs[j]
           T == {i \in Nat : i + 1 <= n => Right(i + 1)}
<1>3. \A i \in 1..n : bs[i] \in Seq(S) /\ Len(bs[i]) = size /\ SubSeq(bs[i], 1, size) = bs[i]
  BY <1>1, SubSeqFull
<1>4. T \in SUBSET Nat /\ 0 \in T
  <2>1. 1 \in 1..n /\ 1 * size = size /\ (1 - 1) * size + 1 = 1
    OBVIOUS
  <2>2. f[1] = bs[1]
    BY <1>2 DEF Joins
  <2>3. Right(1)
    BY <1>3, <2>1, <2>2
  <2> HIDE DEF Right
  <2>4. QED
    BY <2>3
<1>5. ASSUME NEW k \in T PROVE k + 1 \in T
  <2>1. PICK i \in Nat \ {0} : i = k + 1
    OBVIOUS
  <2>2. SUFFICES ASSUME i + 1 <= n PROVE Right(i + 1)
    BY <2>1
  <2>3. Right(i) /\ i + 1 \in 1..n /\ i + 1 # 1 /\ (i + 1) - 1 = i
    BY <2>1, <2>2
  <2>4. f[i + 1] = f[i] \o bs[i + 1]
    BY <1>1, <1>2, <2>3 DEF Joins
  <2>5. PICK x, y \in Seq(S) : x = f[i] /\ y = bs[i + 1] /\ Len(y) = size /\ SubSeq(y, 1, size) = y
    BY <1>3, <2>3
  <2>6. PICK b \in Nat : b = i * size /\ Len(x) = b /\ (i + 1) * size = b + size
    <3>1. i * size \in Nat /\ (i + 1) * size = i * size + size
      OBVIOUS
    <3>2. QED
      BY <2>3, <2>5, <3>1
  <2>7. x \o y \in Seq(S) /\ Len(x \o y) = b + size
    <3>1. x \o y \in Seq(S) /\ Len(x \o y) = Len(x) + Len(y)
      BY ConcatProperties
    <3>2. QED
      BY <2>5, <2>6, <3>1
  <2>8. ASSUME NEW j \in 1..i
        PROVE  SubSeq(x \o y, (j - 1) * size + 1, j * size) = bs[j]
    <3>1. PICK u, w \in Int : u = (j - 1) * size + 1 /\ w = j * size
      OBVIOUS
    <3>2. u \in 1..Len(x) /\ w \in 1..Len(x)
      <4>1. PICK c \in Nat : c = (j - 1) * size /\ w = c + size /\ u = c + 1
        <5>1. j - 1 \in Nat
          OBVIOUS
        <5>2. (j - 1) * size \in Nat /\ j * size = (j - 1) * size + size
          BY <5>1
        <5>3. QED
          BY <3>1, <5>2
      <4>2. w <= b
        <5>1. j \in Int /\ i \in Int /\ j <= i /\ size \in Nat
          OBVIOUS
        <5>2. j * size <= i * size
          BY <5>1, TimesMonotonic
        <5>3. QED
          BY <2>6, <3>1, <5>2
      <4>3. u \in 1..b /\ w \in 1..b
        <5>1. size >= 1 /\ w <= b /\ w = c + size /\ u = c + 1
          BY <4>1, <4>2
        <5>2. c >= 0 /\ c \in Int /\ w \in Int /\ b \in Int /\ size \in Int
          OBVIOUS
        <5>3. QED
          BY <5>1, <5>2
      <4>4. QED
        BY <2>6, <4>3
    <3>3. SubSeq(x \o y, u, w) = SubSeq(x, u, w)
      BY <3>2, SubSeqOfConcat1
    <3>4. SubSeq(x, u, w) = bs[j]
      BY <2>3, <2>5, <3>1
    <3>5. QED
      BY <3>1, <3>3, <3>4
  <2>9. SubSeq(x \o y, i * size + 1, (i + 1) * size) = bs[i + 1]
    <3>1. b + 1 \in (Len(x) + 1)..(Len(x) + Len(y)) /\ b + size \in (Len(x) + 1)..(Len(x) + Len(y))
      BY <2>5, <2>6
    <3>2. SubSeq(x \o y, b + 1, b + size) = SubSeq(y, (b + 1) - Len(x), (b + size) - Len(x))
      BY <3>1, SubSeqOfConcat2
    <3>3. (b + 1) - Len(x) = 1 /\ (b + size) - Len(x) = size
      BY <2>6
    <3>4. QED
      BY <2>5, <2>6, <3>2, <3>3
  <2>10. ASSUME NEW j \in 1..(i + 1)
         PROVE  SubSeq(x \o y, (j - 1) * size + 1, j * size) = bs[j]
    <3>1. CASE j = i + 1
      BY <2>3, <2>9, <3>1
    <3>2. CASE j # i + 1
      <4>1. j \in 1..i
        BY <3>2
      <4>2. QED
        BY <2>8, <4>1
    <3>3. QED
      BY <3>1, <3>2
  <2>11. QED
    BY <2>4, <2>5, <2>6, <2>7, <2>10
<1> HIDE DEF T
<1>6. \A k \in Nat : k \in T
  BY <1>4, <1>5, SetInduction
<1>7. Right(n)
  <2>1. PICK m \in Nat : m + 1 = n
    <3>1. n - 1 \in Nat /\ (n - 1) + 1 = n
      OBVIOUS
    <3>2. QED
      BY <3>1
  <2>2. m \in T
    BY <1>6
  <2> HIDE DEF Right
  <2>3. m + 1 <= n
    BY <2>1
  <2>4. Right(m + 1)
    BY <2>2, <2>3 DEF T
  <2>5. QED
    BY <2>1, <2>4
<1>8. PICK F \in Seq(S), l \in Nat \ {0} :
        F = FlattenSeq(bs) /\ Len(F) = l /\ l = n * size
  <2>1. n * size \in Nat \ {0}
    OBVIOUS
  <2>2. QED
    BY <1>2, <1>7, <2>1
<1>9. PICK m \in Nat \ {0} :
        /\ Len(F) % size = 0 => Len(F) = m * size
        /\ Blocks(F, size) \in Seq(Seq(S)) /\ Len(Blocks(F, size)) = m
        /\ \A i \in 1..m : Blocks(F, size)[i] = SubSeq(F, (i - 1) * size + 1, Until(i, size, Len(F)))
  <2>1. Len(F) # 0
    BY <1>8
  <2> DEFINE cs == Blocks(F, size)
  <2>2. PICK m \in Nat \ {0} : Cut(cs, m, F, size, S)
    BY <2>1, BlocksDef
  <2> HIDE DEF cs
  <2>3. QED
    BY <2>2 DEF cs, Cut
<1>10. m = n
  <2>1. PICK a \in Int, zero \in 0..(size - 1) : a = l /\ zero = 0 /\ a = size * n + zero
    <3>1. size * n + 0 = n * size /\ 0 \in 0..(size - 1)
      OBVIOUS
    <3>2. QED
      BY <1>8, <3>1
  <2>2. n \in Int /\ m \in Int
    OBVIOUS
  <2>3. a = size * n + zero
    BY <2>1
  <2>4. a % size = zero /\ a \div size = n
    BY <2>2, <2>3, DivExact
  <2>5. l % size = 0 /\ l \div size = n
    BY <2>1, <2>4
  <2>6. a = size * m + zero
    <3>1. size * m = m * size /\ m * size + 0 = m * size
      OBVIOUS
    <3>2. QED
      BY <1>8, <1>9, <2>1, <2>5, <3>1
  <2>7. a \div size = m
    BY <2>6, <2>2, DivExact
  <2>8. l \div size = m
    BY <2>1, <2>7
  <2>9. QED
    BY <2>5, <2>8
<1>11. ASSUME NEW i \in 1..n PROVE Blocks(F, size)[i] = bs[i]
  <2>1. Until(i, size, l) = i * size
    <3>1. i * size <= n * size /\ i * size \in Int
      <4>1. i \in Int /\ n \in Int /\ i <= n /\ size \in Nat
        OBVIOUS
      <4>2. QED
        BY <4>1, TimesMonotonic
    <3>2. QED
      BY <1>8, <3>1 DEF Until
  <2>2. SubSeq(F, (i - 1) * size + 1, i * size) = bs[i]
    BY <1>2, <1>7, <1>8
  <2>3. QED
    BY <1>8, <1>9, <1>10, <2>1, <2>2
<1>12. Blocks(F, size) = bs
  BY <1>1, <1>9, <1>10, <1>11, SeqEqual
<1>13. QED
  BY <1>1, <1>8, <1>12

(***************************************************************************)
(* What the RSA cipher encrypts it decrypts.                               *)
(***************************************************************************)
LEMMA ByteFacts ==
  /\ Byte \subseteq Nat /\ Byte \subseteq Int /\ PadByte \subseteq Byte
  /\ 0 \in Byte /\ 2 \in Byte /\ \A b \in PadByte : b # 0
  /\ \A s \in Seq(Byte) : s # Raised
<1>1. /\ Byte \subseteq Nat /\ Byte \subseteq Int /\ PadByte \subseteq Byte
      /\ 0 \in Byte /\ 2 \in Byte /\ \A b \in PadByte : b # 0
  BY BaseType DEF Byte, PadByte
<1>2. ASSUME NEW s \in Seq(Byte) PROVE s # Raised
  <2>1. SUFFICES ASSUME s = <<-1>> PROVE FALSE
    BY DEF Raised
  <2>2. Len(s) = 1 /\ s[1] = -1
    BY <2>1
  <2>3. s[1] \in Byte
    BY <2>2
  <2>4. -1 \notin Nat
    OBVIOUS
  <2>5. QED
    BY <1>1, <2>2, <2>3, <2>4
<1>3. QED
  BY <1>1, <1>2

\* The padding comes off again, whatever bytes were drawn for it.
LEMMA PadUnpad ==
  ASSUME NEW m \in Seq(Byte), NEW k \in Nat, Len(m) <= k - Overhead,
         NEW drawn \in Seq(PadByte), Len(drawn) >= k - 3
  PROVE  /\ Pad(m, k, drawn) \in Seq(Byte) /\ Len(Pad(m, k, drawn)) = k
         /\ Pad(m, k, drawn)[1] = 0 /\ Unpad(Pad(m, k, drawn)) = m
<1>0. Overhead \in Nat /\ Overhead > 3
  BY OverheadAssumption
<1>1. PICK l \in Nat, j \in Nat \ {0} :
        l = Len(m) /\ j = k - l - 3 /\ k = j + 3 + l /\ k >= Overhead /\ l <= k - Overhead
  BY <1>0
<1> DEFINE x == SubSeq(drawn, 1, j)
           front == <<0, 2>>
           stop == <<0>>
           head == front \o x
           lead == head \o stop
           padded == lead \o m
<1>2. /\ x \in Seq(Byte) /\ Len(x) = j /\ \A i \in 1..j : x[i] # 0
  <2>1. j <= Len(drawn) /\ Len(drawn) \in Nat
    BY <1>1
  <2>2. \A i \in 1..j : drawn[i] \in PadByte
    BY <2>1
  <2>3. /\ x \in Seq(PadByte) /\ Len(x) = IF 1 <= j THEN j - 1 + 1 ELSE 0
        /\ \A i \in 1..(j - 1 + 1) : x[i] = drawn[1 + i - 1]
    <3>1. 1 \in Int /\ j \in Int
      OBVIOUS
    <3>2. QED
      BY <2>2, <3>1, SubSeqProperties
  <2> HIDE DEF x
  <2>4. Len(x) = j
    BY <2>3
  <2>5. x \in Seq(Byte)
    BY <2>3, ByteFacts, SeqMonotonic
  <2>6. ASSUME NEW i \in 1..j PROVE x[i] # 0
    <3>1. x[i] \in PadByte
      BY <2>3, <2>4
    <3>2. QED
      BY <3>1, ByteFacts
  <2>7. QED
    BY <2>4, <2>5, <2>6
<1>3. front \in Seq(Byte) /\ stop \in Seq(Byte) /\ Len(front) = 2 /\ Len(stop) = 1
  BY ByteFacts
<1>4. front[1] = 0 /\ front[2] = 2 /\ stop[1] = 0
  OBVIOUS
<1>5. Pad(m, k, drawn) = padded
  <2>1. ~(Len(m) > k - Overhead) /\ k - Len(m) - 3 = j
    BY <1>0, <1>1
  <2>2. Pad(m, k, drawn) = <<0, 2>> \o SubSeq(drawn, 1, k - Len(m) - 3) \o <<0>> \o m
    BY ONLY <2>1 DEF Pad
  <2>3. SubSeq(drawn, 1, k - Len(m) - 3) = x
    BY <2>1
  <2> HIDE DEF x
  <2>4. QED
    BY ONLY <2>2, <2>3 DEF padded, lead, head, front, stop
<1> HIDE DEF x, front, stop
<1>6. /\ head \in Seq(Byte) /\ Len(head) = j + 2
      /\ \A i \in 1..(j + 2) : head[i] = IF i <= 2 THEN front[i] ELSE x[i - 2]
  <2>1. /\ head \in Seq(Byte) /\ Len(head) = Len(front) + Len(x)
        /\ \A i \in 1..(Len(front) + Len(x)) :
             head[i] = IF i <= Len(front) THEN front[i] ELSE x[i - Len(front)]
    BY <1>2, <1>3, ConcatProperties
  <2> HIDE DEF head
  <2>2. Len(front) + Len(x) = j + 2
    BY <1>2, <1>3
  <2>3. QED
    BY <1>3, <2>1, <2>2
<1> HIDE DEF head
<1>7. /\ lead \in Seq(Byte) /\ Len(lead) = j + 3
      /\ \A i \in 1..(j + 3) : lead[i] = IF i <= j + 2 THEN head[i] ELSE stop[i - (j + 2)]
  <2>1. /\ lead \in Seq(Byte) /\ Len(lead) = Len(head) + Len(stop)
        /\ \A i \in 1..(Len(head) + Len(stop)) :
             lead[i] = IF i <= Len(head) THEN head[i] ELSE stop[i - Len(head)]
    BY <1>3, <1>6, ConcatProperties
  <2> HIDE DEF lead
  <2>2. Len(head) + Len(stop) = j + 3
    BY <1>3, <1>6
  <2>3. QED
    BY <1>6, <2>1, <2>2
<1> HIDE DEF lead
<1>8. /\ padded \in Seq(Byte) /\ Len(padded) = k
      /\ \A i \in 1..(j + 3) : padded[i] = lead[i]
  <2>1. /\ padded \in Seq(Byte) /\ Len(padded) = Len(lead) + Len(m)
        /\ \A i \in 1..(Len(lead) + Len(m)) :
             padded[i] = IF i <= Len(lead) THEN lead[i] ELSE m[i - Len(lead)]
    BY <1>7, ConcatProperties
  <2> HIDE DEF padded
  <2>2. Len(lead) + Len(m) = k /\ Len(lead) = j + 3
    BY <1>1, <1>7
  <2>3. \A i \in 1..(j + 3) : i \in 1..k
    BY <1>1
  <2>4. QED
    BY <2>1, <2>2, <2>3
<1>9. SubSeq(padded, j + 4, k) = m
  <2>1. CASE l = 0
    <3>1. m = <<>>
      BY <1>1, <2>1, EmptySeq
    <3>2. k < j + 4 /\ k \in Int /\ j + 4 \in Int
      BY <1>1, <2>1
    <3>3. QED
      BY <3>1, <3>2, SubSeqEmpty
  <2>2. CASE l # 0
    <3>1. PICK u, w \in Nat : u = j + 4 /\ w = k
      OBVIOUS
    <3>2. /\ u \in (Len(lead) + 1)..(Len(lead) + Len(m))
          /\ w \in (Len(lead) + 1)..(Len(lead) + Len(m))
      BY <1>1, <1>7, <2>2, <3>1
    <3>3. SubSeq(padded, u, w) = SubSeq(m, u - Len(lead), w - Len(lead))
      BY <1>7, <3>2, SubSeqOfConcat2
    <3>4. u - Len(lead) = 1 /\ w - Len(lead) = Len(m)
      BY <1>1, <1>7, <3>1
    <3>5. SubSeq(m, 1, Len(m)) = m
      BY SubSeqFull
    <3> HIDE DEF padded
    <3>6. QED
      BY <3>1, <3>3, <3>4, <3>5
  <2>3. QED
    BY <2>1, <2>2
<1> HIDE DEF padded
<1>10. padded[1] = 0 /\ padded[2] = 2 /\ padded[j + 3] = 0
  <2>1. 1 \in 1..(j + 3) /\ 2 \in 1..(j + 3) /\ j + 3 \in 1..(j + 3)
        /\ 1 <= j + 2 /\ 2 <= j + 2 /\ ~(j + 3 <= j + 2) /\ (j + 3) - (j + 2) = 1
        /\ 1 \in 1..(j + 2) /\ 2 \in 1..(j + 2)
    OBVIOUS
  <2>2. lead[1] = head[1] /\ lead[2] = head[2] /\ lead[j + 3] = stop[1]
    BY <1>7, <2>1
  <2>3. head[1] = front[1] /\ head[2] = front[2]
    BY <1>6, <2>1
  <2>4. QED
    BY <1>4, <1>8, <2>1, <2>2, <2>3 DEF front, stop
<1>11. \A i \in 3..(j + 2) : padded[i] # 0
  <2>1. SUFFICES ASSUME NEW i \in 3..(j + 2) PROVE padded[i] # 0
    OBVIOUS
  <2>2. i \in 1..(j + 3) /\ i \in 1..(j + 2) /\ ~(i <= 2) /\ i <= j + 2 /\ i - 2 \in 1..j
    OBVIOUS
  <2>3. padded[i] = x[i - 2]
    BY <1>6, <1>7, <1>8, <2>2
  <2>4. QED
    BY <1>2, <2>2, <2>3
<1>12. SubSeq(padded, 1, 2) = <<0, 2>>
  <2>1. 1 \in 1..Len(padded) /\ 2 \in 1..Len(padded) /\ \A i \in 1..2 : padded[i] \in Byte
    BY <1>1, <1>8
  <2>2. /\ SubSeq(padded, 1, 2) \in Seq(Byte)
        /\ Len(SubSeq(padded, 1, 2)) = IF 1 <= 2 THEN 2 - 1 + 1 ELSE 0
        /\ \A i \in 1..(2 - 1 + 1) : SubSeq(padded, 1, 2)[i] = padded[1 + i - 1]
    <3>1. 1 \in Int /\ 2 \in Int
      OBVIOUS
    <3>2. QED
      BY <2>1, <3>1, SubSeqProperties
  <2>3. PICK y : y = SubSeq(padded, 1, 2)
    OBVIOUS
  <2>4. y \in Seq(Byte) /\ Len(y) = 2 /\ \A i \in 1..2 : y[i] = padded[i]
    BY <2>2, <2>3
  <2>5. y[1] = 0 /\ y[2] = 2
    <3>1. 1 \in 1..2 /\ 2 \in 1..2
      OBVIOUS
    <3>2. QED
      BY <1>10, <2>4, <3>1
  <2>6. y = [i \in 1..2 |-> y[i]]
    BY <2>4
  <2>7. y = <<0, 2>>
    BY <2>5, <2>6
  <2>8. QED
    BY <2>3, <2>7
<1> DEFINE zeros == {i \in 3..Len(padded) : padded[i] = 0}
           Least0(i) == \A h \in zeros : i <= h
           separator == CHOOSE i \in zeros : Least0(i)
<1>13. j + 3 \in zeros /\ \A i \in zeros : j + 3 <= i
  BY <1>1, <1>8, <1>10, <1>11
<1>14. separator = j + 3
  <2>1. separator \in zeros /\ Least0(separator)
    BY <1>13
  <2>2. zeros \subseteq Int
    BY <1>1, <1>8
  <2> HIDE DEF zeros, separator
  <2>3. separator \in Int /\ separator <= j + 3 /\ j + 3 <= separator
    BY <1>13, <2>1, <2>2
  <2>4. QED
    BY <2>3
<1>15. Unpad(padded) = SubSeq(padded, separator + 1, Len(padded))
  <2>1. ~(Len(padded) < Overhead)
    BY <1>0, <1>1, <1>8
  <2> HIDE DEF zeros
  <2>2. zeros # {}
    BY <1>13
  <2>3. QED
    BY ONLY <1>12, <2>1, <2>2 DEF Unpad, separator, Least0, zeros
<1> HIDE DEF separator, zeros
<1>16. Unpad(padded) = m
  <2>1. separator + 1 = j + 4
    BY <1>14
  <2>2. QED
    BY <1>8, <1>9, <1>15, <2>1
<1>17. QED
  BY <1>5, <1>8, <1>10, <1>16

\* A key of two primes that were drawn, long enough for a message.
RsaKey(p, q) ==
  /\ Prime(p) /\ Prime(q) /\ Suits(p, q) /\ KeyLength(p * q) > Overhead

LEMMA RsaBlock ==
  ASSUME NEW p, NEW q, RsaKey(p, q), NEW m \in Seq(Byte), Len(m) <= KeyLength(p * q) - Overhead,
         NEW drawn \in Seq(PadByte), Len(drawn) >= KeyLength(p * q) - 3
  PROVE  LET block == RsaEncryptBlock(m, PublicKey(p, q), drawn)
         IN  /\ block \in Seq(Byte) /\ Len(block) = KeyLength(p * q)
             /\ RsaDecryptBlock(block, PrivateKey(p, q)) = m
<1>0. Prime(p) /\ Prime(q) /\ Suits(p, q) /\ p \in Nat \ {0} /\ q \in Nat \ {0} /\ p > 1 /\ q > 1
  BY PrimeUnit DEF RsaKey
<1>1. PICK n \in Nat \ {0} : n = p * q
  BY <1>0
<1>2. PICK k \in Nat : /\ k = KeyLength(n) /\ k > Overhead /\ k # 0
                       /\ n < Power(Base, k) /\ Power(Base, k - 1) <= n
  BY <1>1, LengthDef DEF KeyLength, RsaKey
<1>3. PICK s \in Seq(Byte) : s = Pad(m, k, drawn) /\ Len(s) = k /\ s[1] = 0 /\ Unpad(s) = m
  <2>1. Len(m) <= k - Overhead /\ Len(drawn) >= k - 3
    BY <1>1, <1>2
  <2>2. QED
    BY <2>1, PadUnpad
<1>4. PICK a \in Nat : a = FromBytes(s) /\ a < n /\ ToBytes(a, k) = s
  <2>1. k - 1 \in Nat
    BY <1>2
  <2>2. Power(Base, k - 1) \in Nat
    BY <2>1, BasePower
  <2>3. FromBytes(s) \in Nat /\ FromBytes(s) < Power(Base, k - 1) /\ ToBytes(FromBytes(s), k) = s
    BY <1>2, <1>3, ToFromBytes
  <2>4. FromBytes(s) < n
    BY <1>2, <2>2, <2>3
  <2>5. QED
    BY <2>3, <2>4
<1>5. PICK c \in Nat : /\ c = PowMod(a, Exponent, n) /\ c < n
                       /\ PowMod(c, ModInverse(Exponent, (p - 1) * (q - 1)), n) = a
  <2>1. a \in 0..(p * q - 1)
    BY <1>1, <1>4
  <2>2. /\ PowMod(a, Exponent, n) \in 0..(n - 1)
        /\ PowMod(PowMod(a, Exponent, n), ModInverse(Exponent, (p - 1) * (q - 1)), n) = a
    BY <1>0, <1>1, <2>1, PowModsCancel
  <2>3. QED
    BY <2>2
<1>6. c < Power(Base, k)
  <2>1. PICK w \in Nat : w = Power(Base, k)
    BY BasePower
  <2>2. QED
    BY <1>2, <1>5, <2>1
<1>7. ToBytes(c, k) \in Seq(Byte) /\ Len(ToBytes(c, k)) = k /\ FromBytes(ToBytes(c, k)) = c
  BY <1>6, ToBytesType, FromToBytes
<1>8. RsaEncryptBlock(m, PublicKey(p, q), drawn) = ToBytes(c, k)
  BY <1>1, <1>2, <1>3, <1>4, <1>5 DEF RsaEncryptBlock, PublicKey
<1>9. RsaDecryptBlock(ToBytes(c, k), PrivateKey(p, q)) = Unpad(ToBytes(a, k))
  BY <1>1, <1>2, <1>5, <1>7 DEF RsaDecryptBlock, PrivateKey
<1>10. QED
  BY <1>1, <1>2, <1>3, <1>4, <1>7, <1>8, <1>9

(* Every string of bytes comes back, of whatever length, with whatever padding
   is drawn for its blocks (_rsa_encrypt_chunks and _rsa_decrypt_chunks). *)
THEOREM Rsa_RoundTrip ==
  ASSUME NEW p, NEW q, RsaKey(p, q), NEW s \in Seq(Byte), NEW drawn,
         \A i \in (1..Len(s)) \cup {1} :
           drawn[i] \in Seq(PadByte) /\ Len(drawn[i]) >= KeyLength(p * q) - 3
  PROVE  RsaDecrypt(RsaEncrypt(s, PublicKey(p, q), drawn), PrivateKey(p, q)) = s
<1> DEFINE public == PublicKey(p, q)
           private == PrivateKey(p, q)
<1>1. PICK k \in Nat \ {0}, size \in Nat \ {0} :
        /\ k = KeyLength(p * q) /\ size = k - Overhead
        /\ public[2] = p * q /\ private[2] = p * q
  <2>1. p * q \in Nat \ {0}
    <3>1. p \in Nat \ {0} /\ q \in Nat \ {0}
      BY PrimeUnit DEF RsaKey
    <3>2. QED
      BY <3>1
  <2>2. KeyLength(p * q) \in Nat /\ KeyLength(p * q) > Overhead /\ Overhead \in Nat
    BY <2>1, LengthDef, OverheadAssumption DEF KeyLength, RsaKey
  <2>3. public[2] = p * q /\ private[2] = p * q
    BY DEF PublicKey, PrivateKey
  <2> HIDE DEF public, private
  <2>4. KeyLength(p * q) \in Nat \ {0} /\ KeyLength(p * q) - Overhead \in Nat \ {0}
    BY <2>2
  <2>5. QED
    BY <2>3, <2>4
<1> DEFINE blocks == IF s = <<>> THEN <<s>> ELSE Blocks(s, size)
           sealed == [i \in DOMAIN blocks |-> RsaEncryptBlock(blocks[i], public, drawn[i])]
           ciphertext == FlattenSeq(sealed)
<1>2. PICK n \in Nat \ {0} :
        /\ blocks \in Seq(Seq(Byte)) /\ Len(blocks) = n /\ DOMAIN blocks = 1..n
        /\ \A i \in 1..n : Len(blocks[i]) <= size /\ i \in (1..Len(s)) \cup {1}
        /\ FlattenSeq(blocks) = s
  <2>1. CASE s = <<>>
    <3>1. blocks = <<s>>
      BY <2>1
    <3> HIDE DEF blocks
    <3>2. blocks \in Seq(Seq(Byte)) /\ Len(blocks) = 1 /\ DOMAIN blocks = 1..1 /\ blocks[1] = s
      BY <3>1
    <3>3. PICK f : Joins(f, blocks, Byte) /\ FlattenSeq(blocks) = f[1]
      <4>1. Len(blocks) # 0
        BY <3>2
      <4>2. \E f : Joins(f, blocks, Byte) /\ FlattenSeq(blocks) = f[Len(blocks)]
        BY <3>2, <4>1, FlattenDef
      <4>3. QED
        BY <3>2, <4>2
    <3>4. FlattenSeq(blocks) = s
      BY <3>2, <3>3 DEF Joins
    <3>5. Len(s) = 0
      BY <2>1
    <3>6. \A i \in 1..1 : Len(blocks[i]) <= size /\ i \in (1..Len(s)) \cup {1}
      BY <3>2, <3>5
    <3>7. 1 \in Nat \ {0}
      OBVIOUS
    <3>8. QED
      BY <3>2, <3>4, <3>6, <3>7
  <2>2. CASE s # <<>>
    <3>1. blocks = Blocks(s, size) /\ Len(s) # 0 /\ Len(s) \in Nat
      BY <2>2
    <3> HIDE DEF blocks
    <3>2. PICK n \in Nat \ {0} : Cut(blocks, n, s, size, Byte)
      BY <3>1, BlocksDef
    <3>3. FlattenSeq(blocks) = s
      BY <3>1, JoinBlocks
    <3>4. n <= Len(s)
      <4>1. PICK c \in Int : c = (n - 1) * size /\ c < Len(s)
        BY <3>2 DEF Cut
      <4>2. n - 1 <= c
        <5>1. n - 1 \in Nat
          OBVIOUS
        <5>2. (n - 1) * size >= n - 1
          BY <5>1
        <5>3. QED
          BY <4>1, <5>2
      <4>3. QED
        BY <3>1, <4>1, <4>2
    <3>5. \A i \in 1..n : Len(blocks[i]) \in 1..size
      BY <3>2 DEF Cut
    <3>6. blocks \in Seq(Seq(Byte)) /\ Len(blocks) = n
      BY <3>2 DEF Cut
    <3>7. \A i \in 1..n : Len(blocks[i]) <= size /\ i \in (1..Len(s)) \cup {1}
      BY <3>1, <3>4, <3>5
    <3>8. DOMAIN blocks = 1..n
      BY <3>6
    <3>9. QED
      BY <3>3, <3>6, <3>7, <3>8
  <2> HIDE DEF blocks
  <2>3. QED
    BY <2>1, <2>2
<1> HIDE DEF blocks
<1>3. ASSUME NEW i \in 1..n
      PROVE  /\ sealed[i] \in Seq(Byte) /\ Len(sealed[i]) = k
             /\ RsaDecryptBlock(sealed[i], private) = blocks[i]
  <2>1. PICK m \in Seq(Byte) : m = blocks[i] /\ Len(m) <= KeyLength(p * q) - Overhead
    BY <1>1, <1>2
  <2>2. PICK d \in Seq(PadByte) : d = drawn[i] /\ Len(d) >= KeyLength(p * q) - 3
    BY <1>2
  <2>3. sealed[i] = RsaEncryptBlock(m, public, d)
    BY <1>2, <2>1, <2>2
  <2>4. LET block == RsaEncryptBlock(m, PublicKey(p, q), d)
        IN  /\ block \in Seq(Byte) /\ Len(block) = KeyLength(p * q)
            /\ RsaDecryptBlock(block, PrivateKey(p, q)) = m
    BY <2>1, <2>2, RsaBlock
  <2>5. QED
    BY <1>1, <2>1, <2>3, <2>4
<1>4. sealed \in Seq(Seq(Byte)) /\ Len(sealed) = n
  <2>1. sealed = [i \in 1..n |-> sealed[i]]
    BY <1>2
  <2> HIDE DEF sealed
  <2>2. QED
    BY <1>3, <2>1
<1>5. RsaEncrypt(s, public, drawn) = ciphertext
  BY <1>1 DEF RsaEncrypt, blocks
<1> HIDE DEF sealed
<1>6. ciphertext \in Seq(Byte) /\ Len(ciphertext) = n * k /\ Blocks(ciphertext, k) = sealed
  <2>1. PICK bs \in Seq(Seq(Byte)) : bs = sealed /\ Len(bs) = n /\ Len(bs) # 0
    BY <1>4
  <2>2. \A i \in 1..Len(bs) : Len(bs[i]) = k
    BY <1>3, <2>1
  <2>3. /\ FlattenSeq(bs) \in Seq(Byte) /\ Len(FlattenSeq(bs)) = Len(bs) * k
        /\ Blocks(FlattenSeq(bs), k) = bs
    BY <2>1, <2>2, BlocksOfJoin
  <2>4. QED
    BY <2>1, <2>3
<1> HIDE DEF ciphertext
<1> DEFINE cut == Blocks(ciphertext, k)
           opened == [i \in DOMAIN cut |-> RsaDecryptBlock(cut[i], private)]
<1>7. opened = blocks
  <2>1. cut = sealed /\ DOMAIN cut = 1..n
    BY <1>4, <1>6
  <2> HIDE DEF cut
  <2>2. ASSUME NEW i \in 1..n PROVE opened[i] = blocks[i]
    <3>1. opened[i] = RsaDecryptBlock(sealed[i], private)
      BY <2>1
    <3>2. QED
      BY <1>3, <3>1
  <2>3. opened = [i \in 1..n |-> blocks[i]]
    BY <2>1, <2>2
  <2>4. blocks = [i \in 1..n |-> blocks[i]]
    BY <1>2
  <2>5. QED
    BY <2>3, <2>4
<1>8. ciphertext # <<>> /\ Len(ciphertext) % k = 0
  <2>1. PICK l \in Nat \ {0} : l = n * k
    OBVIOUS
  <2>2. l % k = 0
    <3>1. PICK a \in Int, zero \in 0..(k - 1) : a = l /\ zero = 0
      OBVIOUS
    <3>2. a = k * n + zero /\ n \in Int
      <4>1. n * k = k * n + 0
        OBVIOUS
      <4>2. QED
        BY <2>1, <3>1, <4>1
    <3>3. a % k = zero
      BY <3>2, DivExact
    <3>4. QED
      BY <3>1, <3>3
  <2>3. Len(ciphertext) # 0
    BY <1>6, <2>1
  <2>4. QED
    BY <1>6, <2>1, <2>2, <2>3
<1>9. \A i \in DOMAIN opened : opened[i] # Raised
  <2>1. \A i \in 1..n : blocks[i] \in Seq(Byte)
    BY <1>2
  <2>2. QED
    BY <1>2, <1>7, <2>1, ByteFacts
<1>10. RsaDecrypt(ciphertext, private) = FlattenSeq(opened)
  BY <1>1, <1>8, <1>9 DEF RsaDecrypt
<1>11. QED
  BY <1>2, <1>5, <1>7, <1>10

(***************************************************************************)
(* A point survives its compression, and a chunk its embedding.            *)
(***************************************************************************)
\* P % 4 = 3, so the power that Root takes is a root of every square.
LEMMA RootOfSquare ==
  ASSUME NEW a \in Int, NEW y \in Int, Same(a, y * y)
  PROVE  Root(a) \in Coordinate /\ Same(Root(a) * Root(a), y * y)
<1>0. P \in Nat \ {0} /\ P > 2 /\ Prime(P)
  BY PType, PPrime
<1>1. PICK h \in Nat \ {0} : h = (P + 1) \div 4 /\ 4 * h = P + 1
  <2>1. P % 4 = 3
    BY CurveAssumption
  <2>2. QED
    BY <1>0, <2>1
<1>2. PICK r \in Nat : r = Root(a) /\ r \in Coordinate /\ Same(r, Power(a, h))
  <2>1. PowMod(a, h, P) \in 0..(P - 1) /\ Cong(P, PowMod(a, h, P), Power(a, h))
    BY <1>0, <1>1, PowModIsPower
  <2>2. QED
    BY <1>0, <1>1, <2>1 DEF Root, Coordinate, Same
<1>3. PICK b \in Int, c \in Int, w \in Int :
        b = Power(a, h) /\ c = Power(y, 2 * h) /\ w = y * y
  <2>1. h \in Nat /\ 2 * h \in Nat
    OBVIOUS
  <2>2. Power(a, h) \in Int /\ Power(y, 2 * h) \in Int
    BY <2>1, PowerDef
  <2>3. QED
    BY <2>2
<1>4. Same(b, c)
  <2>1. Power(y, 2) = y * y
    <3>1. Power(y, 0) = 1 /\ Power(y, 0 + 1) = y * Power(y, 0) /\ Power(y, 1 + 1) = y * Power(y, 1)
      BY PowerDef
    <3>2. QED
      BY <3>1
  <2>2. Power(w, h) = c
    <3>1. 2 \in Nat
      OBVIOUS
    <3>2. Power(y, 2 * h) = Power(Power(y, 2), h)
      BY <3>1, PowerProduct
    <3>3. QED
      BY <1>3, <2>1, <3>2
  <2>3. Cong(P, a, w)
    BY <1>3 DEF Same
  <2>4. QED
    BY <1>0, <1>3, <2>2, <2>3, PowerCong DEF Same
<1>5. Same(r, c)
  <2>1. Same(r, b)
    BY <1>2, <1>3
  <2>2. r \in Int
    OBVIOUS
  <2>3. QED
    BY <1>4, <2>1, <2>2, SameTrans
<1>6. Same(r * r, c * c)
  <2>1. r \in Int
    OBVIOUS
  <2>2. QED
    BY <1>5, <2>1, SameRing
<1>7. PICK d \in Int : d = Power(y, (P - 1) * 1 + 1) /\ c * c = y * d
  <2>1. PICK k \in Nat : k = (P - 1) * 1 + 1 /\ k + 1 = 2 * h + 2 * h
    BY <1>0, <1>1
  <2>2. Power(y, k) \in Int /\ Power(y, k + 1) = y * Power(y, k)
    BY PowerDef
  <2>3. PICK g \in Nat : g = 2 * h
    OBVIOUS
  <2>4. Power(y, g + g) = Power(y, g) * Power(y, g)
    BY PowerSum
  <2>5. QED
    BY <1>3, <2>1, <2>2, <2>3, <2>4
<1>8. Same(d, y)
  <2>1. 1 \in Nat
    OBVIOUS
  <2>2. Cong(P, Power(y, (P - 1) * 1 + 1), y)
    BY <1>0, <2>1, FermatPower
  <2>3. QED
    BY <1>7, <2>2 DEF Same
<1>9. Same(y * d, y * y)
  BY <1>8, SameRefl, SameRing
<1>10. PICK u \in Int, v \in Int : u = r * r /\ v = c * c
  OBVIOUS
<1>11. Same(u, v) /\ Same(v, w)
  BY <1>3, <1>6, <1>7, <1>9, <1>10
<1>12. QED
  BY <1>2, <1>3, <1>10, <1>11, SameTrans

\* The two roots have different parities, and the prefix says which it was.
LEMMA DecompressCompress ==
  ASSUME NEW p \in CurvePoint, p # Infinity
  PROVE  Decompress(Compress(p)) = p
<1>0. P \in Nat \ {0} /\ P > 2 /\ P % 2 = 1
  <2>1. P % 4 = 3
    BY CurveAssumption
  <2>2. QED
    BY <2>1, PType
<1>1. PICK x \in Coordinate, y \in Coordinate : p = <<x, y>> /\ OnCurve(x, y)
  BY PointCases
<1>2. x \in Int /\ y \in 0..(P - 1)
  BY <1>0, <1>1 DEF Coordinate
<1>3. PICK f \in Int, a \in Int, w \in Int : f = x * x * x + B /\ a = Rhs(x) /\ w = y * y
  <2>1. x * x * x + B \in Int /\ y * y \in Int
    BY <1>2, BType
  <2>2. PICK f \in Int : f = x * x * x + B
    BY <2>1
  <2>3. f % P \in Int
    BY <1>0, CongRefl
  <2>4. QED
    BY <2>1, <2>2, <2>3 DEF Rhs
<1>4. Same(w, f) /\ Same(f, w) /\ Same(a, f)
  <2>1. Same(w, f)
    BY <1>1, <1>3 DEF OnCurve
  <2>2. a = f % P
    BY <1>3 DEF Rhs
  <2>3. Same(a, f)
    BY <2>2, SameRefl
  <2>4. 0 \in Int /\ Same(0, 0)
    BY SameRefl
  <2>5. Same(f, w)
    BY <2>1, <2>4, SameRing
  <2>6. QED
    BY <2>1, <2>3, <2>5
<1>5. Same(a, y * y)
  BY <1>3, <1>4, SameTrans
<1>6. PICK r \in Coordinate : r = Root(a) /\ Same(r * r, y * y)
  <2>1. y \in Int
    BY <1>2
  <2>2. Root(a) \in Coordinate /\ Same(Root(a) * Root(a), y * y)
    BY <1>5, <2>1, RootOfSquare
  <2>3. QED
    BY <2>2
<1>7. OnCurve(x, r)
  <2>1. PICK u \in Int : u = r * r /\ Same(u, w)
    <3>1. r \in Int
      BY <1>0 DEF Coordinate
    <3>2. r * r \in Int
      BY <3>1
    <3>3. QED
      BY <1>3, <1>6, <3>2
  <2>2. Same(u, f)
    BY <1>4, <2>1, SameTrans
  <2>3. QED
    BY <1>3, <2>1, <2>2 DEF OnCurve
<1>8. y = r \/ y = (-r) % P
  BY <1>1, <1>7, Opposite
<1>9. PICK n \in Nat : n = r /\ n < P /\ (-n) % P = IF n = 0 THEN 0 ELSE P - n
  <2>1. r \in 0..(P - 1)
    BY DEF Coordinate
  <2>2. QED
    BY <1>0, <2>1
<1>10. Compress(p) = <<2 + (y % 2), x>>
  BY <1>1 DEF Compress
<1>11. Decompress(Compress(p)) = <<x, IF r % 2 = (2 + (y % 2)) % 2 THEN r ELSE (-r) % P>>
  BY <1>3, <1>6, <1>10 DEF Decompress
<1>12. y = IF r % 2 = (2 + (y % 2)) % 2 THEN r ELSE (-r) % P
  <2>1. (2 + (y % 2)) % 2 = y % 2
    BY <1>2
  <2>2. CASE y = r
    BY <2>1, <2>2
  <2>3. CASE y # r
    <3>1. y = P - n /\ n # 0
      BY <1>8, <1>9, <2>3
    <3>2. y % 2 # n % 2
      BY <1>0, <1>9, <3>1
    <3>3. QED
      BY <1>8, <1>9, <2>1, <2>3, <3>2
  <2>4. QED
    BY <2>2, <2>3
<1>13. QED
  BY <1>1, <1>11, <1>12

LEMMA CompressWellFormed ==
  ASSUME NEW p \in CurvePoint, p # Infinity
  PROVE  ~Malformed(Compress(p))
<1>0. P \in Nat \ {0} /\ P > 2
  BY PType
<1>1. PICK x \in Coordinate, y \in Coordinate : p = <<x, y>> /\ OnCurve(x, y)
  BY PointCases
<1>2. x \in Int /\ y \in Int
  BY <1>0, <1>1 DEF Coordinate
<1>3. PICK f \in Int, w \in Int : f = x * x * x + B /\ w = y * y
  <2>1. x * x * x + B \in Int /\ y * y \in Int
    BY <1>2, BType
  <2>2. QED
    BY <2>1
<1>4. PICK a \in Int : a = Rhs(x) /\ a = f % P /\ a \in Coordinate /\ Same(a, f)
  <2>1. f % P \in Coordinate /\ Same(f % P, f)
    BY SameRefl
  <2>2. f % P \in Int
    BY <1>0, <2>1 DEF Coordinate
  <2>3. QED
    BY <1>3, <2>1, <2>2 DEF Rhs
<1>5. Same(w, f) /\ Same(f, w)
  <2>1. Same(w, f)
    BY <1>1, <1>3 DEF OnCurve
  <2>2. 0 \in Int /\ Same(0, 0)
    BY SameRefl
  <2>3. QED
    BY <2>1, <2>2, SameRing
<1>6. Same(a, w)
  BY <1>4, <1>5, SameTrans
<1>7. PICK r \in Coordinate : r = Root(a) /\ Same(r * r, w)
  <2>1. Same(a, y * y)
    BY <1>3, <1>6
  <2>2. Root(a) \in Coordinate /\ Same(Root(a) * Root(a), y * y)
    BY <1>2, <2>1, RootOfSquare
  <2>3. QED
    BY <1>3, <2>2
<1>8. PICK u \in Int : u = r * r
  <2>1. r \in Int
    BY <1>0 DEF Coordinate
  <2>2. QED
    BY <2>1
<1>9. u % P = f % P
  <2>1. Same(u, f)
    BY <1>5, <1>7, <1>8, SameTrans
  <2>2. QED
    BY <2>1, SameEqual
<1>10. IsSquare(Rhs(x))
  BY <1>4, <1>7, <1>8, <1>9 DEF IsSquare
<1>11. 2 + (y % 2) \in {2, 3}
  BY <1>2
<1>12. Compress(p) = <<2 + (y % 2), x>>
  BY <1>1 DEF Compress
<1>13. QED
  BY <1>1, <1>10, <1>11, <1>12 DEF Malformed

\* The least candidate of a chunk is on the curve, and brings the chunk back.
LEMMA DecodeEncode ==
  ASSUME NEW chunk \in Seq(Byte), Len(chunk) = ChunkSize, Candidates(chunk) # {}
  PROVE  /\ EncodePoint(chunk) \in CurvePoint /\ EncodePoint(chunk) # Infinity
         /\ DecodePoint(EncodePoint(chunk)) = chunk
<1>0. P \in Nat \ {0} /\ Koblitz \in Nat \ {0} /\ ChunkSize \in Nat \ {0}
  BY PType, ChunkAssumption
<1>1. PICK m \in Nat, c \in Nat :
        /\ m = FromBytes(chunk) /\ c = Power(Base, ChunkSize) /\ m < c
        /\ ToBytes(m, ChunkSize) = chunk
  <2>1. FromBytes(chunk) \in Nat /\ FromBytes(chunk) < Power(Base, Len(chunk))
        /\ ToBytes(FromBytes(chunk), Len(chunk)) = chunk
    BY ToFromBytes
  <2>2. Power(Base, ChunkSize) \in Nat
    BY <1>0, BasePower
  <2>3. QED
    BY <2>1, <2>2
<1>2. PICK base \in Nat : base = Koblitz * m /\ base = m * Koblitz
  BY <1>0
<1> DEFINE C == Candidates(chunk)
           Low(i) == \A z \in C : i <= z
           x == CHOOSE i \in C : Low(i)
<1>3. C = {i \in base..(base + Koblitz - 1) : i < P /\ IsSquare(Rhs(i))}
  BY <1>1, <1>2 DEF Candidates
<1>4. C \in SUBSET Nat /\ C # {}
  BY <1>2, <1>3
<1> HIDE DEF C
<1>5. x \in C
  <2>1. \E i \in C : \A z \in C : i <= z
    BY <1>4, Least
  <2>2. \E i \in C : Low(i)
    BY <2>1
  <2> HIDE DEF Low
  <2>3. QED
    BY <2>2
<1>6. EncodePoint(chunk) = <<x, Root(Rhs(x))>>
  BY DEF EncodePoint, C
<1> HIDE DEF x
<1>7. x \in Nat /\ x \in base..(base + Koblitz - 1) /\ x < P /\ IsSquare(Rhs(x))
  BY <1>2, <1>3, <1>5
<1>8. x \in Coordinate
  BY <1>0, <1>7 DEF Coordinate
<1>9. PICK f \in Int, a \in Int : f = x * x * x + B /\ a = Rhs(x) /\ a = f % P /\ a \in Int
  <2>1. x * x * x + B \in Int
    BY <1>7, BType
  <2>2. PICK f \in Int : f = x * x * x + B
    BY <2>1
  <2>3. f % P \in Int
    BY <1>0, CongRefl
  <2>4. QED
    BY <2>2, <2>3 DEF Rhs
<1>10. PICK r \in Coordinate : r = Root(a)
  <2>1. PICK h \in Nat : h = (P + 1) \div 4
    BY <1>0
  <2>2. PowMod(a, h, P) \in 0..(P - 1)
    BY <1>0, PowModIsPower
  <2>3. QED
    BY <2>1, <2>2 DEF Root, Coordinate
<1>11. (r * r) % P = Rhs(x)
  BY <1>7, <1>9, <1>10 DEF IsSquare
<1>12. EncodePoint(chunk) = <<x, r>>
  BY <1>6, <1>9, <1>10
<1>13. <<x, r>> \in CurvePoint /\ <<x, r>> # Infinity
  <2>1. <<x, r>> \in Point /\ <<x, r>> # Infinity
    BY <1>8, CurvePairs
  <2>2. IsOnCurve(<<x, r>>)
    BY <1>11 DEF IsOnCurve
  <2>3. QED
    BY <2>1, <2>2 DEF CurvePoint
<1>14. x \div Koblitz = m
  <2>1. PICK e \in 0..(Koblitz - 1) : x = base + e
    <3>1. x - base \in 0..(Koblitz - 1) /\ x = base + (x - base)
      BY <1>0, <1>2, <1>7
    <3>2. QED
      BY <3>1
  <2>2. x = Koblitz * m + e
    BY <1>2, <2>1
  <2>3. x \in Int /\ m \in Int
    BY <1>7
  <2>4. QED
    BY <1>0, <2>2, <2>3, DivExact
<1>15. DecodePoint(<<x, r>>) = chunk
  <2>1. m < Power(Base, ChunkSize)
    BY <1>1
  <2>2. QED
    BY <1>1, <1>14, <2>1 DEF DecodePoint
<1>16. QED
  BY <1>12, <1>13, <1>15

(***************************************************************************)
(* What the curve cipher encrypts it decrypts.                             *)
(***************************************************************************)
\* Multiples of G are added to any point one after the other or at once.
LEMMA AddTimes ==
  ASSUME NEW p \in CurvePoint, NEW m \in Nat
  PROVE  \A n \in Nat : Add(Add(p, Times[m]), Times[n]) = Add(p, Times[m + n])
<1> DEFINE a == Add(p, Times[m])
           T == {n \in Nat : Add(a, Times[n]) = Add(p, Times[m + n])}
<1>0. a \in CurvePoint
  BY TimesDef, Add_Closed
<1> HIDE DEF a
<1>1. 0 \in T
  <2>1. Add(a, Infinity) = a /\ m + 0 = m
    BY DEF Add
  <2>2. QED
    BY <2>1, TimesDef DEF a
<1>2. ASSUME NEW n \in T PROVE n + 1 \in T
  <2>1. n \in Nat /\ n + 1 \in Nat /\ m + n \in Nat /\ m + (n + 1) = (m + n) + 1
    OBVIOUS
  <2>2. Times[n] \in CurvePoint /\ Times[m + n] \in CurvePoint
    BY <2>1, TimesDef
  <2>3. Times[n + 1] = Add(Times[n], G) /\ Times[m + (n + 1)] = Add(Times[m + n], G)
    BY <2>1, TimesDef
  <2>4. Add(a, Add(Times[n], G)) = Add(Add(a, Times[n]), G)
    BY <1>0, <2>2, GroupAssumption
  <2>5. Add(p, Add(Times[m + n], G)) = Add(Add(p, Times[m + n]), G)
    BY <2>2, GroupAssumption
  <2>6. Add(a, Times[n]) = Add(p, Times[m + n])
    OBVIOUS
  <2>7. QED
    BY <2>1, <2>3, <2>4, <2>5, <2>6
<1>3. T \in SUBSET Nat
  OBVIOUS
<1> HIDE DEF T
<1>4. \A n \in Nat : n \in T
  BY <1>1, <1>2, <1>3, SetInduction
<1>5. QED
  BY <1>4 DEF T, a

\* Both sides of the exchange come to the same multiple of G.
LEMMA SharedPoint ==
  ASSUME NEW private \in Scalar, NEW k \in Scalar
  PROVE  \E e \in 0..N :
           /\ e = (k * private) % N
           /\ ScalarMult(k, G) = Times[k] /\ Times[k] # Infinity
           /\ ScalarMult(k, ScalarMult(private, G)) = Times[e]
           /\ ScalarMult(private, Times[k]) = Times[e]
           /\ ScalarMult(e, G) = Times[e]
<1>0. N \in Nat \ {0} /\ private \in 1..(N - 1) /\ k \in 1..(N - 1) /\ 1 \in Scalar
  BY CurveAssumption DEF Scalar
<1>1. G = Times[1]
  <2>1. Times[0 + 1] = Add(Times[0], G) /\ Times[0] = Infinity
    BY TimesDef
  <2>2. Add(Infinity, G) = G
    BY DEF Add
  <2>3. QED
    BY <2>1, <2>2
<1>2. PICK e \in 0..(N - 1) : e = (k * private) % N /\ e = (private * k) % N
  <2>1. PICK w \in Int : w = k * private /\ w = private * k
    BY <1>0
  <2>2. w % N \in 0..(N - 1)
    BY <1>0, <2>1, DivMod
  <2>3. QED
    BY <2>1, <2>2
<1>3. ASSUME NEW j \in 0..(N - 1) PROVE ScalarMult(j, G) = Times[j]
  <2>1. PICK one \in Scalar : one = 1
    BY <1>0
  <2>2. j \in Int /\ j * one = j
    BY <2>1
  <2>3. ScalarMult(j, Times[one]) = Times[(j * one) % N]
    BY <2>2, ScalarMult_Correct
  <2>4. j % N = j
    BY <1>0
  <2>5. QED
    BY <1>1, <2>1, <2>2, <2>3, <2>4
<1>4. ScalarMult(k, G) = Times[k] /\ ScalarMult(private, G) = Times[private]
      /\ ScalarMult(e, G) = Times[e]
  BY <1>0, <1>3
<1>5. /\ ScalarMult(k, Times[private]) = Times[(k * private) % N]
      /\ ScalarMult(private, Times[k]) = Times[(private * k) % N]
  <2>1. k \in Int /\ private \in Int
    BY <1>0
  <2>2. QED
    BY <2>1, ScalarMult_Correct
<1>6. Times[k] # Infinity /\ e \in 0..N
  BY <1>0, GroupAssumption
<1>7. QED
  BY <1>2, <1>4, <1>5, <1>6

LEMMA UnmaskMask ==
  ASSUME NEW p \in CurvePoint, NEW private \in Scalar, NEW k \in Scalar,
         Add(p, ScalarMult(k, ScalarMult(private, G))) # Infinity
  PROVE  /\ Unmask(<<Compress(ScalarMult(k, G)),
                     Compress(Add(p, ScalarMult(k, ScalarMult(private, G))))>>, private) = p
         /\ ~Malformed(Compress(ScalarMult(k, G)))
         /\ ~Malformed(Compress(Add(p, ScalarMult(k, ScalarMult(private, G)))))
<1>1. PICK e \in 0..N :
        /\ ScalarMult(k, G) = Times[k] /\ Times[k] # Infinity
        /\ ScalarMult(k, ScalarMult(private, G)) = Times[e]
        /\ ScalarMult(private, Times[k]) = Times[e]
  BY SharedPoint
<1>2. e \in Nat /\ N - e \in Nat /\ e + (N - e) = N /\ k \in Nat
  BY CurveAssumption DEF Scalar
<1>3. Times[k] \in CurvePoint /\ Times[e] \in CurvePoint
  BY <1>2, TimesDef
<1>4. PICK mask \in CurvePoint : mask = Add(p, Times[e]) /\ mask # Infinity
  BY <1>1, <1>3, Add_Closed
<1>5. Decompress(Compress(Times[k])) = Times[k] /\ Decompress(Compress(mask)) = mask
  BY <1>1, <1>3, <1>4, DecompressCompress
<1>6. Unmask(<<Compress(Times[k]), Compress(mask)>>, private)
        = Add(mask, Negate(Times[e]))
  BY <1>1, <1>5 DEF Unmask
<1>7. Negate(Times[e]) = Times[N - e]
  BY TimesNegate
<1>8. Add(mask, Times[N - e]) = Add(p, Times[N])
  BY <1>2, <1>4, AddTimes
<1>9. Add(p, Infinity) = p
  BY DEF Add
<1>10. ~Malformed(Compress(Times[k])) /\ ~Malformed(Compress(mask))
  BY <1>1, <1>3, <1>4, CompressWellFormed
<1>11. QED
  BY <1>1, <1>4, <1>6, <1>7, <1>8, <1>9, <1>10, GroupAssumption

\* f is a frame around s: whole chunks, the length in front.
Frames(f, s) ==
  /\ f \in Seq(Byte) /\ Len(f) # 0 /\ Len(f) % ChunkSize = 0
  /\ Header + Len(s) <= Len(f) /\ Len(f) < Header + Len(s) + ChunkSize
  /\ FromBytes(SubSeq(f, 1, Header)) = Len(s)
  /\ SubSeq(f, Header + 1, Header + Len(s)) = s

LEMMA FramedDef ==
  ASSUME NEW s \in Seq(Byte), Len(s) < Power(Base, Header)
  PROVE  Frames(Framed(s), s)
<1>0. Header \in Nat \ {0} /\ ChunkSize \in Nat \ {0}
  BY ChunkAssumption
<1>1. PICK l \in Nat : l = Len(s)
  OBVIOUS
<1> DEFINE head == ToBytes(l, Header)
           front == head \o s
           room == (-Len(front)) % ChunkSize
           zeros == [i \in 1..room |-> 0]
           f == front \o zeros
<1>2. head \in Seq(Byte) /\ Len(head) = Header /\ FromBytes(head) = l
  <2>1. l < Power(Base, Header) /\ Header \in Nat
    BY <1>0, <1>1
  <2>2. QED
    BY <2>1, ToBytesType, FromToBytes
<1> HIDE DEF head
<1>3. front \in Seq(Byte) /\ Len(front) = Header + l
  BY <1>1, <1>2, ConcatProperties
<1> HIDE DEF front
<1>4. PICK r \in 0..(ChunkSize - 1), c \in Int :
        r = room /\ Header + l + r = ChunkSize * c
  <2>1. PICK a \in Int : a = -Len(front)
    BY <1>0, <1>3
  <2>2. /\ a % ChunkSize \in 0..(ChunkSize - 1) /\ a \div ChunkSize \in Int
        /\ a = ChunkSize * (a \div ChunkSize) + (a % ChunkSize)
    BY <1>0, <2>1, DivMod
  <2>3. PICK q \in Int, r \in 0..(ChunkSize - 1) :
          q = a \div ChunkSize /\ r = a % ChunkSize /\ a = ChunkSize * q + r
    BY <2>2
  <2>4. PICK z \in Int : z = ChunkSize * q /\ -z = ChunkSize * (-q) /\ -q \in Int
    BY <1>0
  <2>5. Header + l + r = ChunkSize * (-q)
    <3>1. a = -(Header + l) /\ a = z + r
      BY <1>3, <2>1, <2>3, <2>4
    <3>2. Header + l + r = -z
      BY <1>0, <2>4, <3>1
    <3>3. QED
      BY <2>4, <3>2
  <2>6. QED
    BY <2>1, <2>3, <2>4, <2>5
<1>5. zeros \in Seq(Byte) /\ Len(zeros) = r
  <2>1. zeros = [i \in 1..r |-> 0] /\ r \in Nat
    BY <1>0, <1>4
  <2> HIDE DEF zeros
  <2>2. QED
    BY <2>1, ByteFacts
<1> HIDE DEF zeros, room
<1>6. f \in Seq(Byte) /\ Len(f) = Header + l + r
  BY <1>3, <1>5, ConcatProperties
<1>7. Framed(s) = f
  BY <1>1 DEF Framed, f, zeros, room, front, head
<1>8. Len(f) % ChunkSize = 0
  <2>1. PICK a \in Int, zero \in 0..(ChunkSize - 1) : a = Len(f) /\ zero = 0
    BY <1>0, <1>6
  <2>2. a = ChunkSize * c + zero
    <3>1. ChunkSize * c \in Int
      BY <1>0
    <3>2. QED
      BY <1>0, <1>4, <1>6, <2>1, <3>1
  <2>3. a % ChunkSize = zero
    BY <1>0, <2>2, DivExact
  <2>4. QED
    BY <2>1, <2>3
<1>9. SubSeq(f, 1, Header) = head
  <2>1. 1 \in 1..Len(front) /\ Header \in 1..Len(front)
    BY <1>0, <1>3
  <2>2. SubSeq(f, 1, Header) = SubSeq(front, 1, Header)
    BY <1>3, <1>5, <2>1, SubSeqOfConcat1
  <2>3. 1 \in 1..Len(head) /\ Header \in 1..Len(head)
    BY <1>0, <1>2
  <2>4. SubSeq(front, 1, Header) = SubSeq(head, 1, Header)
    BY <1>2, <2>3, SubSeqOfConcat1 DEF front
  <2>5. SubSeq(head, 1, Len(head)) = head
    BY <1>2, SubSeqFull
  <2>6. QED
    BY <1>2, <2>2, <2>4, <2>5
<1>10. SubSeq(f, Header + 1, Header + l) = s
  <2>1. CASE l = 0
    <3>1. s = <<>>
      BY <1>1, <2>1, EmptySeq
    <3>2. Header + l < Header + 1 /\ Header + 1 \in Int /\ Header + l \in Int
      BY <1>0, <2>1
    <3> HIDE DEF f
    <3>3. QED
      BY <3>1, <3>2, SubSeqEmpty
  <2>2. CASE l # 0
    <3>1. PICK u \in Nat, w \in Nat : u = Header + 1 /\ w = Header + l
      BY <1>0
    <3>2. /\ u \in 1..Len(front) /\ w \in 1..Len(front)
          /\ u \in (Len(head) + 1)..(Len(head) + Len(s))
          /\ w \in (Len(head) + 1)..(Len(head) + Len(s))
      BY <1>0, <1>1, <1>2, <1>3, <2>2, <3>1
    <3>3. SubSeq(f, u, w) = SubSeq(front, u, w)
      BY <1>3, <1>5, <3>2, SubSeqOfConcat1
    <3>4. SubSeq(front, u, w) = SubSeq(s, u - Len(head), w - Len(head))
      BY <1>2, <3>2, SubSeqOfConcat2 DEF front
    <3>5. u - Len(head) = 1 /\ w - Len(head) = Len(s)
      BY <1>0, <1>1, <1>2, <3>1
    <3>6. SubSeq(s, 1, Len(s)) = s
      BY SubSeqFull
    <3> HIDE DEF f
    <3>7. QED
      BY <3>1, <3>3, <3>4, <3>5, <3>6
  <2>3. QED
    BY <2>1, <2>2
<1> HIDE DEF f
<1>11. Header + l <= Len(f) /\ Len(f) < Header + l + ChunkSize /\ Len(f) # 0
  BY <1>0, <1>4, <1>6
<1>12. QED
  BY <1>1, <1>2, <1>6, <1>7, <1>8, <1>9, <1>10, <1>11 DEF Frames

\* The chunks are all of the same size, and joined they are the frame again.
LEMMA Chunks ==
  ASSUME NEW s \in Seq(Byte), Len(s) < Power(Base, Header)
  PROVE  \E n \in Nat \ {0} :
           LET bs == Blocks(Framed(s), ChunkSize)
           IN  /\ bs \in Seq(Seq(Byte)) /\ Len(bs) = n /\ Len(Framed(s)) = n * ChunkSize
               /\ \A i \in 1..n : Len(bs[i]) = ChunkSize
               /\ FlattenSeq(bs) = Framed(s)
<1>0. ChunkSize \in Nat \ {0}
  BY ChunkAssumption
<1>1. PICK f \in Seq(Byte) : f = Framed(s) /\ Len(f) # 0 /\ Len(f) % ChunkSize = 0
  BY FramedDef DEF Frames
<1>2. PICK n \in Nat \ {0} : Cut(Blocks(f, ChunkSize), n, f, ChunkSize, Byte)
  BY <1>0, <1>1, BlocksDef
<1>3. FlattenSeq(Blocks(f, ChunkSize)) = f
  BY <1>0, <1>1, JoinBlocks
<1> DEFINE bs == Blocks(f, ChunkSize)
<1> HIDE DEF bs
<1>4. /\ bs \in Seq(Seq(Byte)) /\ Len(bs) = n /\ Len(f) = n * ChunkSize
      /\ \A i \in 1..n : Len(bs[i]) = Until(i, ChunkSize, Len(f)) - (i - 1) * ChunkSize
  BY <1>1, <1>2 DEF Cut, bs
<1>5. ASSUME NEW i \in 1..n PROVE Len(bs[i]) = ChunkSize
  <2>1. PICK a \in Int, b \in Int : a = i * ChunkSize /\ b = (i - 1) * ChunkSize
    BY <1>0
  <2>2. a = b + ChunkSize
    BY <1>0, <2>1
  <2>3. a <= n * ChunkSize
    <3>1. i \in Int /\ n \in Int /\ i <= n /\ ChunkSize \in Nat
      BY <1>0
    <3>2. QED
      BY <2>1, <3>1, TimesMonotonic
  <2>4. PICK c \in Int : c = n * ChunkSize /\ a <= c /\ Len(f) = c
    BY <1>0, <1>4, <2>3
  <2>5. Until(i, ChunkSize, Len(f)) = a
    BY <2>1, <2>4 DEF Until
  <2>6. QED
    BY <1>0, <1>4, <2>1, <2>2, <2>5
<1>6. QED
  BY <1>1, <1>3, <1>4, <1>5 DEF bs

(* Every string of bytes comes back, whatever keys are drawn and masks are
   used, unless encrypting it failed (ecc_scratch.py, encrypt and decrypt). *)
THEOREM Curve_RoundTrip ==
  ASSUME NEW s \in Seq(Byte), NEW private \in Scalar, NEW nonce,
         \A i \in DOMAIN Blocks(Framed(s), ChunkSize) : nonce[i] \in Scalar,
         ~EccFails(s, ScalarMult(private, G), nonce)
  PROVE  EccDecrypt(EccEncrypt(s, ScalarMult(private, G), nonce), private) = s
<1> DEFINE key == ScalarMult(private, G)
           bs == Blocks(Framed(s), ChunkSize)
<1>0. Header \in Nat \ {0}
  BY ChunkAssumption
<1>a. Len(s) < Power(Base, Header)
  <2>1. PICK w \in Nat : w = Power(Base, Header)
    BY <1>0, BasePower
  <2>2. ~(Len(s) >= w) /\ Len(s) \in Nat
    BY <2>1 DEF EccFails
  <2>3. QED
    BY <2>1, <2>2
<1>1. PICK n \in Nat \ {0} : /\ bs \in Seq(Seq(Byte)) /\ Len(bs) = n
                             /\ \A i \in 1..n : Len(bs[i]) = ChunkSize
                             /\ FlattenSeq(bs) = Framed(s)
  BY <1>a, Chunks
<1>2. DOMAIN bs = 1..n
  BY <1>1
<1>3. \A i \in 1..n : /\ nonce[i] \in Scalar /\ Candidates(bs[i]) # {}
                      /\ Mask(bs[i], key, nonce[i]) # Infinity
  BY <1>2 DEF EccFails
<1> DEFINE sealed == EccEncrypt(s, key, nonce)
           points == [i \in DOMAIN sealed |-> Unmask(sealed[i], private)]
           recovered == FlattenSeq([i \in DOMAIN points |-> DecodePoint(points[i])])
<1>4. sealed = [i \in 1..n |-> <<Compress(ScalarMult(nonce[i], G)),
                                 Compress(Mask(bs[i], key, nonce[i]))>>]
  BY <1>2 DEF EccEncrypt
<1> HIDE DEF sealed, bs
<1>5. ASSUME NEW i \in 1..n
      PROVE  /\ ~Malformed(sealed[i][1]) /\ ~Malformed(sealed[i][2])
             /\ points[i] # Infinity /\ DecodePoint(points[i]) = bs[i]
  <2>1. PICK chunk \in Seq(Byte) : chunk = bs[i] /\ Len(chunk) = ChunkSize
    BY <1>1
  <2>2. PICK k \in Scalar : k = nonce[i]
    BY <1>3
  <2>3. PICK p \in CurvePoint : /\ p = EncodePoint(chunk) /\ p # Infinity
                                /\ DecodePoint(p) = chunk
    BY <1>3, <2>1, DecodeEncode
  <2>4. Mask(chunk, key, k) = Add(p, ScalarMult(k, key))
    BY <2>3 DEF Mask
  <2>5. Add(p, ScalarMult(k, ScalarMult(private, G))) # Infinity
    BY <1>3, <2>1, <2>2, <2>4
  <2>6. /\ Unmask(<<Compress(ScalarMult(k, G)),
                    Compress(Add(p, ScalarMult(k, ScalarMult(private, G))))>>, private) = p
        /\ ~Malformed(Compress(ScalarMult(k, G)))
        /\ ~Malformed(Compress(Add(p, ScalarMult(k, ScalarMult(private, G)))))
    BY <2>5, UnmaskMask
  <2>7. points[i] = Unmask(sealed[i], private) /\ DOMAIN sealed = 1..n
    BY <1>4
  <2>8. sealed[i] = <<Compress(ScalarMult(k, G)), Compress(Add(p, ScalarMult(k, key)))>>
    BY <1>4, <2>1, <2>2, <2>4
  <2> HIDE DEF points
  <2>9. points[i] = p
    BY <2>6, <2>7, <2>8
  <2>10. ~Malformed(sealed[i][1]) /\ ~Malformed(sealed[i][2])
    BY <2>6, <2>8
  <2>11. QED
    BY <2>1, <2>3, <2>9, <2>10
<1>6. DOMAIN points = 1..n
  BY <1>4
<1> HIDE DEF points
<1>7. [i \in DOMAIN points |-> DecodePoint(points[i])] = bs
  <2>1. [i \in DOMAIN points |-> DecodePoint(points[i])] = [i \in 1..n |-> bs[i]]
    BY <1>5, <1>6
  <2>2. bs = [i \in 1..n |-> bs[i]]
    BY <1>1
  <2>3. QED
    BY <2>1, <2>2
<1>8. recovered = Framed(s)
  BY <1>1, <1>7
<1> HIDE DEF recovered
<1>9. \A i \in DOMAIN points : /\ ~Malformed(sealed[i][1]) /\ ~Malformed(sealed[i][2])
                               /\ points[i] # Infinity /\ DecodePoint(points[i]) # Raised
  <2>1. \A i \in 1..n : bs[i] \in Seq(Byte)
    BY <1>1
  <2>2. QED
    BY <1>5, <1>6, <2>1, ByteFacts
<1>10. Frames(recovered, s)
  BY <1>a, <1>8, FramedDef
<1>11. PICK l \in Nat : l = Len(s) /\ FromBytes(SubSeq(recovered, 1, Header)) = l
  BY <1>10 DEF Frames
<1>12. l <= Len(recovered) - Header /\ SubSeq(recovered, Header + 1, Header + l) = s
  <2>1. Len(recovered) \in Nat
    BY <1>10 DEF Frames
  <2>2. QED
    BY <1>0, <1>10, <1>11, <2>1 DEF Frames
<1>13. EccDecrypt(sealed, private) = SubSeq(recovered, Header + 1, Header + l)
  <2>1. sealed # <<>>
    <3>1. Len(sealed) = n
      BY <1>4
    <3>2. QED
      BY <3>1
  <2>2. QED
    BY ONLY <1>9, <1>11, <1>12, <2>1 DEF EccDecrypt, points, recovered
<1>14. QED
  BY <1>12, <1>13 DEF sealed

(***************************************************************************)
(* Both round trips, on every input that is drawn.                         *)
(***************************************************************************)
Message(s) == s \in Seq(Byte) /\ Len(s) \in 0..MaxLength /\ Len(s) < Power(Base, Header)

LEMMA PlaintextFacts ==
  ASSUME NEW s \in Plaintexts
  PROVE  Message(s)
<1>1. PICK l \in 0..MaxLength : s \in [1..l -> 0..(Base - 1)]
  BY DEF Plaintexts
<1>2. s \in Seq(Byte) /\ Len(s) = l
  <2>1. l \in Nat /\ 0..(Base - 1) = Byte
    BY DEF Byte, MaxLength
  <2>2. s \in [1..l -> Byte]
    BY <1>1, <2>1
  <2>3. QED
    BY <2>1, <2>2
<1>3. PICK w \in Nat : w = Power(Base, Header)
  BY ChunkAssumption, BasePower
<1>4. QED
  BY <1>1, <1>2, <1>3, InstanceAssumption DEF MaxLength, Message

\* What passes the test with every base is prime.
LEMMA PrimesDrawnPrime ==
  ASSUME NEW n \in PrimesDrawn
  PROVE  Prime(n)
<1>1. PICK c \in 0..(Power(2, Bits) - 1) : n = Candidate(c, Bits)
  BY DEF PrimesDrawn
<1>2. IsProbablePrime(n, BasesFor(n)) /\ n >= 2
  BY DEF PrimesDrawn, IsProbablePrime
<1>3. n \in Nat
  <2>1. 2 \in Nat \ {0} /\ Bits - 1 \in Nat /\ Bits \in Nat
    BY DEF Bits
  <2>2. Power(2, Bits - 1) \in Nat \ {0} /\ Power(2, Bits) \in Nat
    BY <2>1, PowerPositive
  <2>3. PICK top \in Nat \ {0} : top = Power(2, Bits - 1)
    BY <2>2
  <2>4. c \in Nat
    BY <2>2
  <2>5. c % top \in Nat
    <3>1. c \in Int
      BY <2>4
    <3>2. c % top \in 0..(top - 1)
      BY <3>1, DivMod
    <3>3. QED
      BY <3>2
  <2>6. PICK r \in Nat : r = c % top
    BY <2>5
  <2>7. n = top + 2 * (r \div 2) + 1
    BY <1>1, <2>3, <2>6 DEF Candidate
  <2>8. QED
    BY <2>7
<1>4. IsPrime(n)
  BY <1>2, <1>3, PrimeTest_Correct
<1>5. QED
  BY <1>2, <1>3, <1>4 DEF Prime

RsaDrawn(s, p, q, drawn) ==
  /\ s \in Plaintexts /\ p \in PrimesDrawn /\ q \in PrimesDrawn /\ Suits(p, q)
  /\ \E d1, d2 \in PadByte : drawn = <<<<d1, d2>>, <<d2, d1>>, <<d2, d2>>>>
EccDrawn(s, private, nonce) ==
  s \in Plaintexts /\ private \in Keys /\ \E k1, k2 \in Keys : nonce = <<k1, k2>>

LEMMA RsaTrips ==
  ASSUME NEW s, NEW p, NEW q, NEW drawn, RsaDrawn(s, p, q, drawn)
  PROVE  RsaDecrypt(RsaEncrypt(s, PublicKey(p, q), drawn), PrivateKey(p, q)) = s
<1>1. s \in Seq(Byte) /\ Len(s) \in 0..3
  BY PlaintextFacts DEF RsaDrawn, Message, MaxLength
<1>2. PICK d1 \in PadByte, d2 \in PadByte : drawn = <<<<d1, d2>>, <<d2, d1>>, <<d2, d2>>>>
  BY DEF RsaDrawn
<1>3. KeyLength(p * q) \in (Overhead + 1)..5 /\ Overhead \in Nat
  BY InstanceAssumption, OverheadAssumption DEF RsaDrawn
<1>4. RsaKey(p, q)
  BY <1>3, PrimesDrawnPrime DEF RsaDrawn, RsaKey
<1>5. ASSUME NEW i \in (1..Len(s)) \cup {1}
      PROVE  drawn[i] \in Seq(PadByte) /\ Len(drawn[i]) >= KeyLength(p * q) - 3
  <2>1. i = 1 \/ i = 2 \/ i = 3
    <3>1. PICK l \in 0..3 : l = Len(s)
      BY <1>1
    <3>2. i \in 1..3
      BY <3>1
    <3>3. QED
      BY <3>2
  <2>2. drawn[i] \in Seq(PadByte) /\ Len(drawn[i]) = 2
    <3>1. /\ drawn[1] = <<d1, d2>> /\ drawn[2] = <<d2, d1>> /\ drawn[3] = <<d2, d2>>
      BY <1>2
    <3>2. \A a, b \in PadByte : <<a, b>> \in Seq(PadByte) /\ Len(<<a, b>>) = 2
      OBVIOUS
    <3>3. QED
      BY <2>1, <3>1, <3>2
  <2>3. QED
    BY <1>3, <2>2
<1>6. QED
  BY <1>1, <1>4, <1>5, Rsa_RoundTrip

\* A frame is two chunks at most, and every chunk has a point.
LEMMA FewChunks ==
  ASSUME NEW s \in Plaintexts
  PROVE  LET bs == Blocks(Framed(s), ChunkSize)
         IN  /\ DOMAIN bs \subseteq 1..2
             /\ \A i \in DOMAIN bs : /\ bs[i] \in Seq(Byte) /\ Len(bs[i]) = ChunkSize
                                     /\ Candidates(bs[i]) # {}
<1>1. s \in Seq(Byte) /\ Len(s) \in 0..MaxLength /\ Len(s) < Power(Base, Header)
  BY PlaintextFacts DEF Message
<1> DEFINE bs == Blocks(Framed(s), ChunkSize)
<1>2. PICK n \in Nat \ {0} : /\ bs \in Seq(Seq(Byte)) /\ Len(bs) = n
                             /\ Len(Framed(s)) = n * ChunkSize
                             /\ \A i \in 1..n : Len(bs[i]) = ChunkSize
  BY <1>1, Chunks
<1> HIDE DEF bs
<1>3. Len(Framed(s)) < Header + Len(s) + ChunkSize
  BY <1>1, FramedDef DEF Frames
<1>4. n <= 2
  <2>1. PICK c \in Nat \ {0} : c = ChunkSize
    BY ChunkAssumption
  <2>2. n * c < 3 * c
    <3>1. Header + MaxLength <= 2 * c /\ Header \in Nat /\ MaxLength \in Nat
      BY <2>1, InstanceAssumption, ChunkAssumption DEF MaxLength
    <3>2. PICK z \in Int : z = n * c /\ z < Header + Len(s) + c
      BY <1>2, <1>3, <2>1
    <3>3. QED
      BY <1>1, <3>1, <3>2
  <2>3. n >= 3 => n * c >= 3 * c
    <3>1. 3 \in Int /\ n \in Int /\ c \in Nat
      OBVIOUS
    <3>2. QED
      BY <3>1, TimesMonotonic
  <2>4. n * c \in Int /\ 3 * c \in Int
    OBVIOUS
  <2>5. QED
    BY <2>2, <2>3, <2>4
<1>5. DOMAIN bs = 1..n /\ DOMAIN bs \subseteq 1..2
  BY <1>2, <1>4
<1>6. ASSUME NEW i \in DOMAIN bs
      PROVE  /\ bs[i] \in Seq(Byte) /\ Len(bs[i]) = ChunkSize
             /\ Candidates(bs[i]) # {}
  <2>1. bs[i] \in Seq(Byte) /\ Len(bs[i]) = ChunkSize
    BY <1>2, <1>5
  <2>2. bs[i] \in [1..ChunkSize -> 0..(Base - 1)]
    <3>1. PICK chunk \in Seq(Byte) : chunk = bs[i] /\ Len(chunk) = ChunkSize
      BY <2>1
    <3>2. chunk \in [1..ChunkSize -> Byte]
      BY <3>1, LenProperties
    <3>3. QED
      BY <3>1, <3>2 DEF Byte
  <2>3. QED
    BY <2>1, <2>2, InstanceAssumption
<1>7. QED
  BY <1>5, <1>6 DEF bs

LEMMA EccTrips ==
  ASSUME NEW s, NEW private, NEW nonce, EccDrawn(s, private, nonce)
  PROVE  IF EccFails(s, ScalarMult(private, G), nonce)
           THEN \E i \in 1..2 : Cancels(Blocks(Framed(s), ChunkSize)[i], nonce[i], private)
           ELSE EccDecrypt(EccEncrypt(s, ScalarMult(private, G), nonce), private) = s
<1> DEFINE key == ScalarMult(private, G)
           bs == Blocks(Framed(s), ChunkSize)
<1>1. s \in Plaintexts /\ private \in Scalar /\ s \in Seq(Byte) /\ Len(s) < Power(Base, Header)
  BY BoundsAssumption, PlaintextFacts DEF EccDrawn, Message
<1>2. DOMAIN bs \subseteq 1..2
      /\ \A i \in DOMAIN bs : /\ bs[i] \in Seq(Byte) /\ Len(bs[i]) = ChunkSize
                              /\ Candidates(bs[i]) # {}
  BY <1>1, FewChunks
<1> HIDE DEF bs
<1>3. \A i \in 1..2 : nonce[i] \in Scalar
  <2>1. PICK k1 \in Scalar, k2 \in Scalar : nonce = <<k1, k2>>
    BY BoundsAssumption DEF EccDrawn
  <2>2. QED
    BY <2>1
<1>4. CASE ~EccFails(s, key, nonce)
  <2>1. \A i \in DOMAIN Blocks(Framed(s), ChunkSize) : nonce[i] \in Scalar
    BY <1>2, <1>3 DEF bs
  <2>2. EccDecrypt(EccEncrypt(s, ScalarMult(private, G), nonce), private) = s
    BY <1>1, <1>4, <2>1, Curve_RoundTrip
  <2>3. QED
    BY <1>4, <2>2
<1>5. CASE EccFails(s, key, nonce)
  <2>0. key \in CurvePoint /\ key # Infinity /\ ~(Len(s) >= Power(Base, Header))
    <3>1. key = Times[private] /\ key # Infinity
      BY <1>1, SharedPoint
    <3>2. private \in Nat
      BY <1>1, CurveAssumption DEF Scalar
    <3>3. PICK w \in Nat : w = Power(Base, Header) /\ Len(s) < w
      BY <1>1, ChunkAssumption, BasePower
    <3>4. Len(s) \in Nat
      BY <1>1
    <3>5. QED
      BY <3>1, <3>2, <3>3, <3>4, TimesDef
  <2>1. PICK i \in DOMAIN bs : Mask(bs[i], key, nonce[i]) = Infinity
    BY <1>2, <1>5, <2>0 DEF EccFails, bs, CurvePoint
  <2>2. PICK k \in Scalar : k = nonce[i] /\ i \in 1..2
    BY <1>2, <1>3
  <2>3. PICK p \in CurvePoint : p = EncodePoint(bs[i])
    BY <1>2, DecodeEncode
  <2>4. PICK e \in 0..N : /\ e = (k * private) % N
                          /\ ScalarMult(k, ScalarMult(private, G)) = Times[e]
                          /\ ScalarMult(e, G) = Times[e]
    BY <1>1, SharedPoint
  <2>5. Times[e] \in CurvePoint
    <3>1. e \in Nat
      BY CurveAssumption
    <3>2. QED
      BY <3>1, TimesDef
  <2>6. Add(p, Times[e]) = Infinity
    BY <2>1, <2>2, <2>3, <2>4 DEF Mask
  <2>7. Times[e] = Negate(p)
    BY <2>5, <2>6, Add_Closed
  <2>8. Cancels(bs[i], nonce[i], private)
    BY <2>2, <2>3, <2>4, <2>7 DEF Cancels
  <2>9. QED
    BY <1>5, <2>2, <2>8 DEF bs
<1>6. QED
  BY <1>4, <1>5

Drawn ==
  /\ input[1] = "ecc" => EccDrawn(input[2], input[3], input[4])
  /\ input[1] = "rsa" => RsaDrawn(input[2], input[3], input[4], input[5])

LEMMA DrawnInvariant == Spec => []Drawn
<1>1. Init => Drawn
  BY DEF Init, None, Drawn
<1>2. Drawn /\ [Next]_input => Drawn'
  <2>1. SUFFICES ASSUME Drawn, [Next]_input PROVE Drawn'
    OBVIOUS
  <2>2. CASE DrawEcc
    <3>1. PICK s \in Plaintexts, key \in Keys, k1 \in Keys, k2 \in Keys :
            input' = <<"ecc", s, key, <<k1, k2>>>>
      BY <2>2 DEF DrawEcc
    <3>2. EccDrawn(s, key, <<k1, k2>>)
      BY DEF EccDrawn
    <3>3. QED
      BY <3>1, <3>2 DEF Drawn
  <2>3. CASE DrawScalar
    BY <2>3 DEF DrawScalar, Drawn
  <2>4. CASE DrawRsa
    <3>1. PICK s \in Plaintexts, p \in PrimesDrawn, q \in PrimesDrawn,
               d1 \in PadByte, d2 \in PadByte :
            /\ Suits(p, q)
            /\ input' = <<"rsa", s, p, q, <<<<d1, d2>>, <<d2, d1>>, <<d2, d2>>>>>>
      BY <2>4 DEF DrawRsa
    <3>2. RsaDrawn(s, p, q, <<<<d1, d2>>, <<d2, d1>>, <<d2, d2>>>>)
      BY <3>1 DEF RsaDrawn
    <3>3. QED
      BY <3>1, <3>2 DEF Drawn
  <2>5. CASE DrawNumber
    BY <2>5 DEF DrawNumber, Drawn
  <2>6. CASE DrawTimes
    BY <2>6 DEF DrawTimes, Drawn
  <2>7. CASE Again
    BY <2>7 DEF Again, None, Drawn
  <2>8. CASE UNCHANGED input
    BY <2>1, <2>8 DEF Drawn
  <2>9. QED
    BY <2>1, <2>2, <2>3, <2>4, <2>5, <2>6, <2>7, <2>8 DEF Next, Draw
<1>3. QED
  BY <1>1, <1>2, PTL DEF Spec

(* What either cipher encrypts, the private key decrypts to the same bytes, or
   the curve refused to encrypt because a chunk and its mask cancel out. *)
THEOREM Both_RoundTrip == Spec => []RoundTrips
<1>1. Drawn => RoundTrips
  BY EccTrips, RsaTrips DEF Drawn, RoundTrips, CurveRoundTrip, RsaRoundTrip
<1>2. QED
  BY <1>1, DrawnInvariant, PTL

(***************************************************************************)
(* Rabin's bound: at most a quarter of the bases let a composite pass.     *)
(* The survivors, times four units that are far enough apart, give four    *)
(* sets of remainders that have no member in common.                       *)
(***************************************************************************)
LEMMA CongTimes ==
  ASSUME NEW m \in Nat \ {0}, NEW a \in Int, NEW b \in Int, NEW c \in Int, Cong(m, a, b)
  PROVE  Cong(m, c * a, c * b) /\ Cong(m, a * c, b * c) /\ Cong(m, b, a)
<1>1. Cong(m, c, c)
  BY CongRefl
<1>2. QED
  BY <1>1, CongRing

\* A congruence holds modulo every divisor.
LEMMA CongDown ==
  ASSUME NEW n \in Int, NEW d \in Int, Divides(d, n), NEW a \in Int, NEW b \in Int, Cong(n, a, b)
  PROVE  Cong(d, a, b)
<1>1. PICK j \in Int, k \in Int : n = d * j /\ a - b = n * k
  BY DEF Cong, Divides
<1>2. a - b = d * (j * k) /\ j * k \in Int
  BY <1>1
<1>3. QED
  BY <1>2 DEF Cong, Divides

LEMMA PowerMult ==
  ASSUME NEW x \in Int, NEW y \in Int, NEW z \in Int, z = x * y
  PROVE  \A n \in Nat : Power(z, n) = Power(x, n) * Power(y, n)
<1> DEFINE T == {k \in Nat : Power(z, k) = Power(x, k) * Power(y, k)}
<1>1. 0 \in T
  BY PowerDef
<1>2. ASSUME NEW k \in T PROVE k + 1 \in T
  <2>1. PICK a \in Int, b \in Int : a = Power(x, k) /\ b = Power(y, k)
    BY PowerDef
  <2>2. Power(z, k + 1) = z * (a * b)
    BY <2>1, PowerDef
  <2>3. Power(x, k + 1) = x * a /\ Power(y, k + 1) = y * b
    BY <2>1, PowerDef
  <2>4. (x * y) * (a * b) = (x * a) * (y * b)
    OBVIOUS
  <2>5. QED
    BY <2>2, <2>3, <2>4
<1> HIDE DEF T
<1>3. \A k \in Nat : k \in T
  <2>1. T \in SUBSET Nat
    BY DEF T
  <2>2. QED
    BY <1>1, <1>2, <2>1, SetInduction
<1>4. QED
  BY <1>3 DEF T

\* a has an inverse modulo n.
Unit(n, a) == \E t \in Int : Cong(n, a * t, 1)

LEMMA UnitCancel ==
  ASSUME NEW n \in Nat \ {0}, NEW a \in Int, NEW b \in Int, NEW c \in Int,
         Unit(n, a), Cong(n, a * b, a * c)
  PROVE  Cong(n, b, c)
<1>1. PICK t \in Int : Cong(n, a * t, 1)
  BY DEF Unit
<1>2. PICK u \in Int, v \in Int, w \in Int : u = a * b /\ v = a * c /\ w = a * t
  OBVIOUS
<1>3. Cong(n, t * u, t * v)
  BY <1>2, CongTimes
<1>4. Cong(n, w * b, 1 * b) /\ Cong(n, w * c, 1 * c) /\ Cong(n, 1 * b, w * b)
  <2>1. 1 \in Int /\ Cong(n, w, 1)
    BY <1>1, <1>2
  <2>2. Cong(n, w * b, 1 * b) /\ Cong(n, w * c, 1 * c) /\ Cong(n, 1, w)
    BY <2>1, CongTimes
  <2>3. QED
    BY <2>1, <2>2, CongTimes
<1>5. t * u = w * b /\ t * v = w * c /\ 1 * b = b /\ 1 * c = c
  BY <1>2
<1>6. Cong(n, w * b, w * c) /\ w * b \in Int /\ w * c \in Int
  BY <1>3, <1>5
<1>7. Cong(n, b, w * b)
  BY <1>4, <1>5
<1>8. Cong(n, b, w * c)
  BY <1>6, <1>7, CongTrans
<1>9. Cong(n, w * c, c)
  BY <1>4, <1>5
<1>10. QED
  BY <1>6, <1>8, <1>9, CongTrans

LEMMA UnitProduct ==
  ASSUME NEW n \in Nat \ {0}, NEW a \in Int, NEW b \in Int, Unit(n, a), Unit(n, b)
  PROVE  Unit(n, a * b)
<1>1. PICK s \in Int, t \in Int : Cong(n, a * s, 1) /\ Cong(n, b * t, 1)
  BY DEF Unit
<1>2. PICK u \in Int, v \in Int : u = a * s /\ v = b * t
  OBVIOUS
<1>3. Cong(n, u * v, 1 * 1)
  BY <1>1, <1>2, CongRing
<1>4. (a * b) * (s * t) = u * v /\ 1 * 1 = 1 /\ s * t \in Int
  BY <1>2
<1>5. QED
  BY <1>3, <1>4 DEF Unit

\* x and y take members of H to the same remainder.
Meets(n, H, x, y) == \E h, g \in H : Cong(n, x * h, y * g)

LEMMA MeetsCancel ==
  ASSUME NEW n \in Nat \ {0}, NEW H \in SUBSET Int, NEW a \in Int, NEW x \in Int, NEW y \in Int,
         Unit(n, a), Meets(n, H, a * x, a * y)
  PROVE  Meets(n, H, x, y)
<1>1. PICK h \in H, g \in H : Cong(n, (a * x) * h, (a * y) * g)
  BY DEF Meets
<1>2. PICK u \in Int, v \in Int : u = x * h /\ v = y * g
  OBVIOUS
<1>3. (a * x) * h = a * u /\ (a * y) * g = a * v
  BY <1>2
<1>4. Cong(n, u, v)
  BY <1>1, <1>3, UnitCancel
<1>5. QED
  BY <1>2, <1>4 DEF Meets

LEMMA MeetsSymmetric ==
  ASSUME NEW n \in Nat \ {0}, NEW H \in SUBSET Int, NEW x \in Int, NEW y \in Int, Meets(n, H, x, y)
  PROVE  Meets(n, H, y, x)
<1>1. PICK h \in H, g \in H : Cong(n, x * h, y * g)
  BY DEF Meets
<1>2. PICK u \in Int, v \in Int : u = x * h /\ v = y * g
  OBVIOUS
<1>3. Cong(n, v, u)
  BY <1>1, <1>2, CongTimes
<1>4. QED
  BY <1>2, <1>3 DEF Meets

\* Four units that do not meet make four copies of H among the remainders.
LEMMA Cosets ==
  ASSUME NEW n \in Nat \ {0}, NEW H \in SUBSET (1..(n - 1)), NEW a \in [1..4 -> Int],
         \A i \in 1..4 : Unit(n, a[i]),
         \A i \in 1..4, j \in 1..4 : i < j => ~Meets(n, H, a[i], a[j])
  PROVE  4 * Cardinality(H) <= n - 1
<1> DEFINE S == (1..4) \X H
           R == 1..(n - 1)
           f == [t \in S |-> (a[t[1]] * t[2]) % n]
<1>1. ASSUME NEW i \in 1..4, NEW h \in H
      PROVE  a[i] * h \in Int /\ (a[i] * h) % n \in R
  <2>1. h \in Int /\ h \in 1..(n - 1) /\ h % n = h
    OBVIOUS
  <2>2. PICK x \in Int : x = a[i] * h
    BY <2>1
  <2>3. x % n \in 0..(n - 1)
    BY CongRefl
  <2>4. ASSUME x % n = 0 PROVE FALSE
    <3>1. Divides(n, x)
      BY <2>4, Remainder
    <3>2. x - a[i] * 0 = x
      BY <2>2
    <3>3. Cong(n, a[i] * h, a[i] * 0)
      BY <2>2, <3>1, <3>2 DEF Cong
    <3>4. Cong(n, h, 0)
      BY <2>1, <3>3, UnitCancel
    <3>5. h % n = 0
      <4>1. h - 0 = h
        BY <2>1
      <4>2. QED
        BY <2>1, <3>4, <4>1, Remainder DEF Cong
    <3>6. QED
      BY <2>1, <3>5
  <2>5. QED
    BY <2>2, <2>3, <2>4
<1>2. f \in [S -> R]
  BY <1>1
<1>3. ASSUME NEW s \in S, NEW t \in S, f[s] = f[t] PROVE s = t
  <2>1. PICK i \in 1..4, j \in 1..4, h \in H, g \in H : s = <<i, h>> /\ t = <<j, g>>
    <3>1. /\ s = <<s[1], s[2]>> /\ s[1] \in 1..4 /\ s[2] \in H
          /\ t = <<t[1], t[2]>> /\ t[1] \in 1..4 /\ t[2] \in H
      OBVIOUS
    <3> HIDE DEF S, f
    <3>2. QED
      BY <3>1
  <2>2. h \in Int /\ g \in Int /\ h \in 0..(n - 1) /\ g \in 0..(n - 1)
    OBVIOUS
  <2>3. PICK u \in Int, v \in Int : u = a[i] * h /\ v = a[j] * g
    BY <2>2
  <2>4. u % n = v % n
    BY <1>3, <2>1, <2>3
  <2>5. Cong(n, u, v) /\ Cong(n, v, u)
    BY <2>4, CongEqual
  <2>6. ~(i < j) /\ ~(j < i)
    BY <2>3, <2>5 DEF Meets
  <2>7. i = j
    BY <2>6
  <2>8. Cong(n, h, g)
    BY <2>2, <2>3, <2>5, <2>7, UnitCancel
  <2>9. h = g
    BY <2>2, <2>8, CongEqual
  <2>10. QED
    BY <2>1, <2>7, <2>9
<1>4. f \in Injection(S, R)
  <2> HIDE DEF f, S, R
  <2> QED BY <1>2, <1>3 DEF Injection, IsInjective
<1>5. IsFiniteSet(R) /\ Cardinality(R) = n - 1
  <2>1. 1 \in Int /\ n - 1 \in Int /\ (1 > n - 1 => n - 1 = 0)
    OBVIOUS
  <2>2. IsFiniteSet(1..(n - 1)) /\ Cardinality(1..(n - 1)) = IF 1 > n - 1 THEN 0 ELSE (n - 1) - 1 + 1
    BY <2>1, FS_Interval
  <2> HIDE DEF R
  <2>3. QED
    BY <2>1, <2>2 DEF R
<1>6. IsFiniteSet(1..4) /\ Cardinality(1..4) = 4
  <2>1. PICK j \in Int, k \in Int : j = 1 /\ k = 4
    OBVIOUS
  <2>2. IsFiniteSet(j..k) /\ Cardinality(j..k) = IF j > k THEN 0 ELSE k - j + 1
    BY FS_Interval
  <2>3. QED
    BY <2>1, <2>2
<1>7. IsFiniteSet(H)
  BY <1>5, FS_Subset
<1>8. Cardinality(S) = Cardinality(1..4) * Cardinality(H)
  <2> DEFINE I == 1..4
  <2> HIDE DEF I
  <2>1. Cardinality(I \X H) = Cardinality(I) * Cardinality(H)
    BY <1>6, <1>7, FS_Product DEF I
  <2>2. QED
    BY <2>1 DEF I
<1>9. Cardinality(S) <= Cardinality(R)
  <2> HIDE DEF f, S, R
  <2> QED BY <1>4, <1>5, FS_Injection
<1>10. QED
  BY <1>5, <1>6, <1>8, <1>9

LEMMA MeetsPower ==
  ASSUME NEW n \in Nat \ {0}, NEW H \in SUBSET Int, NEW x \in Int, NEW y \in Int,
         Meets(n, H, x, y), NEW d \in Nat \ {0}, Divides(d, n), NEW e \in Nat
  PROVE  \E h, g \in H : Cong(d, Power(x, e) * Power(h, e), Power(y, e) * Power(g, e))
<1>1. PICK h \in H, g \in H : Cong(n, x * h, y * g)
  BY DEF Meets
<1>2. PICK u \in Int, v \in Int : u = x * h /\ v = y * g
  OBVIOUS
<1>3. Cong(d, u, v)
  BY <1>1, <1>2, CongDown
<1>4. Cong(d, Power(u, e), Power(v, e))
  BY <1>3, PowerCong
<1>5. /\ Power(u, e) = Power(x, e) * Power(h, e)
      /\ Power(v, e) = Power(y, e) * Power(g, e)
  <2>1. h \in Int /\ g \in Int
    OBVIOUS
  <2>2. Power(u, e) = Power(x, e) * Power(h, e)
    BY <1>2, <2>1, PowerMult
  <2>3. Power(v, e) = Power(y, e) * Power(g, e)
    BY <1>2, <2>1, PowerMult
  <2>4. QED
    BY <2>2, <2>3
<1>6. QED
  BY <1>4, <1>5

LEMMA SmallMultiple ==
  ASSUME NEW d \in Nat, d > 2, NEW z \in (-2)..2, Divides(d, z)
  PROVE  z = 0
<1>1. PICK k \in Int : z = d * k
  BY DEF Divides
<1>2. k >= 1 => d * k >= d
  OBVIOUS
<1>3. k <= -1 => d * k <= -d
  OBVIOUS
<1>4. k = 0 => d * k = 0
  OBVIOUS
<1>5. QED
  BY <1>1, <1>2, <1>3, <1>4

Sign == {1, -1}

\* Members of H have a sign as their power by M; x and y agree in theirs modulo w, not modulo d.
LEMMA ApartBySigns ==
  ASSUME NEW n \in Nat \ {0}, NEW H \in SUBSET Int, NEW M \in Nat,
         \A h \in H : \E s \in Sign : Cong(n, Power(h, M), s),
         NEW d \in Nat, d > 2, Divides(d, n), NEW w \in Nat, w > 2, Divides(w, n),
         NEW x \in Int, NEW y \in Int, Cong(d, Power(x, M), 1), Cong(d, Power(y, M), -1),
         Cong(w, Power(x, M), 1), Cong(w, Power(y, M), 1)
  PROVE  ~Meets(n, H, x, y)
<1>0. d \in Nat \ {0} /\ w \in Nat \ {0} /\ 1 \in Sign /\ -1 \in Sign
  BY DEF Sign
<1>1. SUFFICES ASSUME Meets(n, H, x, y) PROVE FALSE
  OBVIOUS
<1>2. PICK u \in Int, v \in Int, a \in Int, b \in Int, s \in Sign, t \in Sign :
        /\ u = Power(x, M) /\ v = Power(y, M)
        /\ Cong(n, x * a, y * b)
        /\ Cong(n, Power(a, M), s) /\ Cong(n, Power(b, M), t)
  <2>1. PICK h \in H, g \in H : Cong(n, x * h, y * g)
    BY <1>1 DEF Meets
  <2>2. PICK s \in Sign, t \in Sign : Cong(n, Power(h, M), s) /\ Cong(n, Power(g, M), t)
    OBVIOUS
  <2>3. Power(x, M) \in Int /\ Power(y, M) \in Int
    BY PowerDef
  <2>4. QED
    BY <2>1, <2>2, <2>3
<1>3. PICK f \in Int, g \in Int : f = Power(a, M) /\ g = Power(b, M)
  BY PowerDef
<1>4. s \in Int /\ t \in Int
  BY DEF Sign
<1>5. ASSUME NEW z \in Nat \ {0}, Divides(z, n), NEW p \in Sign, NEW q \in Sign,
             Cong(z, u, p), Cong(z, v, q)
      PROVE  Divides(z, p * s - q * t)
  <2>2. Cong(z, u * f, v * g)
    <3>1. PICK i \in Int, j \in Int : i = x * a /\ j = y * b
      OBVIOUS
    <3>2. Cong(z, i, j)
      BY <1>2, <1>5, <3>1, CongDown
    <3>3. Cong(z, Power(i, M), Power(j, M))
      BY <3>2, PowerCong
    <3>4. Power(i, M) = u * f /\ Power(j, M) = v * g
      <4>1. Power(i, M) = Power(x, M) * Power(a, M)
        BY <3>1, PowerMult
      <4>2. Power(j, M) = Power(y, M) * Power(b, M)
        BY <3>1, PowerMult
      <4>3. QED
        BY <1>2, <1>3, <4>1, <4>2
    <3>5. QED
      BY <3>3, <3>4
  <2>3. p \in Int /\ q \in Int
    BY DEF Sign
  <2>4. Cong(z, f, s) /\ Cong(z, g, t)
    BY <1>2, <1>3, <1>4, <1>5, CongDown
  <2>5. Cong(z, u * f, p * s) /\ Cong(z, v * g, q * t)
    BY <1>4, <1>5, <2>3, <2>4, CongRing
  <2>6. PICK i \in Int, j \in Int, k \in Int, l \in Int :
          i = u * f /\ j = v * g /\ k = p * s /\ l = q * t
    BY <1>4, <2>3
  <2>7. Cong(z, k, i)
    BY <2>5, <2>6, CongTimes
  <2>8. Cong(z, k, j)
    BY <2>2, <2>6, <2>7, CongTrans
  <2>9. Cong(z, k, l)
    BY <2>5, <2>6, <2>8, CongTrans
  <2>10. QED
    BY <2>6, <2>9 DEF Cong
<1>6. Divides(d, 1 * s - (-1) * t)
  BY <1>0, <1>2, <1>5
<1>7. Divides(w, 1 * s - 1 * t)
  BY <1>0, <1>2, <1>5
<1>8. 1 * s - (-1) * t = 0
  <2>1. 1 * s - (-1) * t \in (-2)..2
    BY DEF Sign
  <2>2. QED
    BY <1>6, <2>1, SmallMultiple
<1>9. 1 * s - 1 * t = 0
  <2>1. 1 * s - 1 * t \in (-2)..2
    BY DEF Sign
  <2>2. QED
    BY <1>7, <2>1, SmallMultiple
<1>10. QED
  BY <1>8, <1>9 DEF Sign

\* Members of H have the power 1; x and y do not have the same.
LEMMA ApartByPower ==
  ASSUME NEW n \in Nat \ {0}, NEW H \in SUBSET Int, NEW d \in Nat \ {0}, Divides(d, n),
         NEW e \in Nat, \A h \in H : Cong(n, Power(h, e), 1),
         NEW x \in Int, NEW y \in Int, ~Cong(d, Power(x, e), Power(y, e))
  PROVE  ~Meets(n, H, x, y)
<1>1. SUFFICES ASSUME Meets(n, H, x, y) PROVE FALSE
  OBVIOUS
<1>2. PICK h \in H, g \in H : Cong(d, Power(x, e) * Power(h, e), Power(y, e) * Power(g, e))
  BY <1>1, MeetsPower
<1>3. PICK u \in Int, v \in Int, a \in Int, b \in Int :
        u = Power(x, e) /\ v = Power(y, e) /\ a = Power(h, e) /\ b = Power(g, e)
  BY PowerDef
<1>4. 1 \in Int /\ Cong(d, a, 1) /\ Cong(d, b, 1)
  BY <1>3, CongDown
<1>5. Cong(d, u * a, u * 1) /\ Cong(d, v * b, v * 1)
  BY <1>4, CongTimes
<1>6. PICK i \in Int, j \in Int : i = u * a /\ j = v * b
  OBVIOUS
<1>7. Cong(d, u, i) /\ Cong(d, j, v) /\ Cong(d, i, j)
  <2>1. Cong(d, i, u) /\ Cong(d, j, v)
    BY <1>5, <1>6
  <2>2. QED
    BY <1>2, <1>3, <1>6, <2>1, CongTimes
<1>8. Cong(d, u, j)
  BY <1>7, CongTrans
<1>9. Cong(d, u, v)
  BY <1>7, <1>8, CongTrans
<1>10. QED
  BY <1>3, <1>9

LEMMA SignPower ==
  ASSUME NEW s \in Sign
  PROVE  \A k \in Nat : Power(s, k) \in Sign
<1> DEFINE T == {k \in Nat : Power(s, k) \in Sign}
<1>0. s \in Int /\ 1 \in Sign
  BY DEF Sign
<1>1. 0 \in T
  BY <1>0, PowerDef
<1>2. ASSUME NEW k \in T PROVE k + 1 \in T
  <2>1. PICK t \in Sign : t = Power(s, k)
    OBVIOUS
  <2>2. Power(s, k + 1) = s * t
    BY <1>0, <2>1, PowerDef
  <2>3. s * t \in Sign
    BY DEF Sign
  <2>4. QED
    BY <2>2, <2>3
<1> HIDE DEF T
<1>3. \A k \in Nat : k \in T
  <2>1. T \in SUBSET Nat
    BY DEF T
  <2>2. QED
    BY <1>1, <1>2, <2>1, SetInduction
<1>4. QED
  BY <1>3 DEF T

LEMMA OddPower ==
  ASSUME NEW o \in Nat, o % 2 = 1
  PROVE  Power(-1, o) = -1
<1>1. PICK j \in Nat : o = 2 * j + 1
  <2>1. o \div 2 \in Nat /\ o = 2 * (o \div 2) + 1
    OBVIOUS
  <2>2. QED
    BY <2>1
<1>2. PICK c \in Int : c = -1
  OBVIOUS
<1>3. Power(c, 2) = 1
  <2>1. Power(c, 0) = 1 /\ Power(c, 0 + 1) = c * Power(c, 0) /\ Power(c, 1 + 1) = c * Power(c, 1)
    BY PowerDef
  <2>2. 0 + 1 = 1 /\ 1 + 1 = 2
    OBVIOUS
  <2>3. QED
    BY <1>2, <2>1, <2>2
<1>4. Power(c, 2 * j) = 1
  <2>1. 2 \in Nat
    OBVIOUS
  <2>2. Power(c, 2 * j) = Power(Power(c, 2), j)
    BY <2>1, PowerProduct
  <2>3. QED
    BY <1>3, <2>2, PowerOne
<1>5. PICK i \in Nat : i = 2 * j
  OBVIOUS
<1>6. Power(c, i + 1) = c * Power(c, i)
  BY PowerDef
<1>7. QED
  BY <1>1, <1>2, <1>4, <1>5, <1>6

\* A power of a sign, or of what is one modulo n.
LEMMA SignedPower ==
  ASSUME NEW n \in Nat \ {0}, NEW a \in Int, NEW e \in Nat, NEW f \in Nat, NEW s \in Sign,
         Cong(n, Power(a, e), s)
  PROVE  Cong(n, Power(a, e * f), Power(s, f)) /\ Power(s, f) \in Sign
<1>1. Power(a, e) \in Int /\ s \in Int
  BY PowerDef DEF Sign
<1>2. Cong(n, Power(Power(a, e), f), Power(s, f))
  BY <1>1, PowerCong
<1>3. Power(a, e * f) = Power(Power(a, e), f)
  BY PowerProduct
<1>4. QED
  BY <1>2, <1>3, SignPower

\* One exponent M takes every survivor to 1 or -1, and some number to -1.
LEMMA Liars ==
  ASSUME NEW n \in Nat \ {0}, n > 2, n % 2 = 1
  PROVE  \E M \in Nat \ {0}, K \in Nat \ {0}, b \in Int :
           /\ n - 1 = 2 * (M * K) /\ Cong(n, Power(b, M), -1)
           /\ \A a \in 1..(n - 1) : Survives(n, a) => \E s \in Sign : Cong(n, Power(a, M), s)
<1>1. PICK m \in Nat \ {0} : m = n - 1 /\ m % 2 = 0
  <2>1. n - 1 \in Nat \ {0} /\ (n - 1) % 2 = 0
    OBVIOUS
  <2>2. QED
    BY <2>1
<1>2. PICK r \in Nat \ {0} : r = Twos[m]
  <2>1. m \div 2 \in Nat \ {0} /\ m % 2 = 0
    BY <1>1
  <2>2. Twos[m] = 1 + Twos[m \div 2]
    BY <2>1, TwosDef
  <2>3. Twos[m \div 2] \in Nat
    BY <2>1, TwosDef
  <2>4. QED
    BY <2>2, <2>3
<1>3. PICK o \in Nat \ {0} : /\ m = Power(2, r) * o /\ o % 2 = 1
                              /\ \A i \in 0..r : /\ m \div Power(2, r - i) = Power(2, i) * o
                                                 /\ Power(2, i) * o \in Nat \ {0}
  BY <1>2, Exponents
<1> DEFINE X(i) == Power(2, i) * o
           L == {k \in Nat : k < r /\ \E b \in Int : Cong(n, Power(b, X(r - 1 - k)), -1)}
<1>4. L # {}
  <2>1. r - 1 \in Nat /\ r - 1 < r /\ r - 1 - (r - 1) = 0 /\ -1 \in Int
    OBVIOUS
  <2>2. X(0) = o
    <3>1. 2 \in Int
      OBVIOUS
    <3>2. Power(2, 0) = 1
      BY <3>1, PowerDef
    <3>3. QED
      BY <3>2
  <2>3. Cong(n, Power(-1, o), -1)
    BY <1>3, <2>1, OddPower, CongRefl
  <2>4. r - 1 \in L
    BY <2>1, <2>2, <2>3
  <2>5. QED
    BY <2>4
<1>5. PICK k \in L : \A j \in L : k <= j
  <2>1. L \in SUBSET Nat
    OBVIOUS
  <2> HIDE DEF L
  <2>2. QED
    BY <1>4, <2>1, Least
<1>6. PICK l \in Nat : l = r - 1 - k /\ l < r /\ l \in 0..r
  BY <1>5
<1>7. PICK M \in Nat \ {0}, K \in Nat \ {0} : M = X(l) /\ K = Power(2, k)
  <2>1. 2 \in Nat \ {0} /\ k \in Nat
    OBVIOUS
  <2>2. X(l) \in Nat \ {0}
    BY <1>3, <1>6
  <2> HIDE DEF X
  <2>3. QED
    BY <2>1, <2>2, PowerPositive
<1>8. PICK b \in Int : Cong(n, Power(b, M), -1)
  BY <1>5, <1>6, <1>7
<1>9. n - 1 = 2 * (M * K)
  <2>1. PICK c \in Int, d \in Int : c = Power(2, l) /\ d = Power(2, k)
    <3>1. 2 \in Int /\ k \in Nat
      OBVIOUS
    <3>2. QED
      BY <3>1, PowerDef
  <2>2. PICK j \in Nat : j = l + k /\ r = j + 1
    BY <1>6
  <2>3. Power(2, j) = c * d /\ Power(2, j + 1) = 2 * Power(2, j)
    <3>1. 2 \in Int /\ k \in Nat
      OBVIOUS
    <3>2. QED
      BY <2>1, <2>2, <3>1, PowerSum, PowerDef
  <2>4. m = (2 * (c * d)) * o
    BY <1>3, <2>2, <2>3
  <2>5. (2 * (c * d)) * o = 2 * ((c * o) * d)
    OBVIOUS
  <2>6. QED
    BY <1>1, <1>7, <2>1, <2>4, <2>5
<1>10. ASSUME NEW a \in 1..(n - 1), Survives(n, a)
       PROVE  \E s \in Sign : Cong(n, Power(a, M), s)
  <2> DEFINE x(i) == PowMod(a, m \div Power(2, r - i), n)
  <2>0. a \in Int
    OBVIOUS
  <2>1. ASSUME NEW i \in 0..r
        PROVE  x(i) \in Int /\ Cong(n, Power(a, X(i)), x(i))
    <3>1. PICK e \in Nat : e = X(i) /\ m \div Power(2, r - i) = e
      BY <1>3
    <3>2. PowMod(a, e, n) \in 0..(n - 1) /\ Cong(n, PowMod(a, e, n), Power(a, e))
      BY <2>0, PowModIsPower
    <3>3. PICK y \in Int, z \in Int : y = PowMod(a, e, n) /\ z = Power(a, e)
      BY <2>0, <3>2, PowerDef
    <3>4. Cong(n, z, y)
      BY <3>2, <3>3, CongTimes
    <3>5. QED
      BY <3>1, <3>3, <3>4
  <2>2. ASSUME NEW i \in Nat, i <= l, NEW s \in Sign, Cong(n, Power(a, X(i)), s)
        PROVE  \E t \in Sign : Cong(n, Power(a, M), t)
    <3>1. PICK e \in Nat : e = X(i)
      BY <1>3, <1>6, <2>2
    <3>2. PICK f \in Nat, c \in Int : f = Power(2, l - i) /\ c = Power(2, i)
      <4>1. l - i \in Nat /\ 2 \in Nat \ {0} /\ 2 \in Int
        BY <2>2
      <4>2. QED
        BY <4>1, PowerPositive, PowerDef
    <3>3. Power(2, l) = c * f
      <4>1. PICK j \in Nat : j = l - i /\ l = i + j
        BY <2>2
      <4>2. 2 \in Int
        OBVIOUS
      <4>3. QED
        BY <3>2, <4>1, <4>2, PowerSum
    <3>4. M = e * f
      <4>1. M = (c * f) * o /\ e = c * o
        BY <1>7, <3>1, <3>2, <3>3
      <4>2. QED
        BY <4>1
    <3>5. Cong(n, Power(a, e * f), Power(s, f)) /\ Power(s, f) \in Sign
      BY <2>0, <2>2, <3>1, SignedPower
    <3>6. QED
      BY <3>4, <3>5
  <2>3. CASE x(0) = 1
    <3>1. 0 \in 0..r /\ 0 \in Nat /\ 0 <= l /\ 1 \in Sign
      BY DEF Sign
    <3>2. Cong(n, Power(a, X(0)), 1)
      BY <2>1, <2>3, <3>1
    <3> HIDE DEF X, x
    <3>3. QED
      BY <2>2, <3>1, <3>2
  <2>4. ASSUME NEW i \in 0..(r - 1), x(i) = n - 1
        PROVE  \E t \in Sign : Cong(n, Power(a, M), t)
    <3>1. i \in 0..r /\ i \in Nat /\ -1 \in Int /\ -1 \in Sign
      BY DEF Sign
    <3>2. Cong(n, Power(a, X(i)), n - 1)
      BY <2>1, <2>4, <3>1
    <3>3. Cong(n, n - 1, -1)
      <4>1. (n - 1) - (-1) = n /\ Divides(n, n)
        BY DividesZero
      <4>2. QED
        BY <4>1 DEF Cong
    <3>4. Cong(n, Power(a, X(i)), -1)
      <4>1. PICK z \in Int : z = Power(a, X(i))
        BY <1>3, <2>0, <3>1, PowerDef
      <4>2. n - 1 \in Int
        OBVIOUS
      <4>3. QED
        BY <3>1, <3>2, <3>3, <4>1, <4>2, CongTrans
    <3>5. i <= l
      <4>1. PICK j \in Nat : j = r - 1 - i /\ j < r /\ r - 1 - j = i
        OBVIOUS
      <4>2. j \in L
        BY <2>0, <3>4, <4>1
      <4> HIDE DEF L
      <4>3. k <= j
        BY <1>5, <4>2
      <4>4. k \in Nat
        BY DEF L
      <4>5. QED
        BY <1>6, <4>1, <4>3, <4>4
    <3> HIDE DEF X, L, x
    <3>6. QED
      BY <2>2, <3>1, <3>4, <3>5
  <2>5. QED
    BY <1>1, <1>2, <1>10, <2>3, <2>4 DEF Survives
<1>11. QED
  BY <1>8, <1>9, <1>10

LEMMA PrimeInverse ==
  ASSUME NEW p, Prime(p), NEW a \in Int, ~Divides(p, a)
  PROVE  Unit(p, a)
<1>1. p \in Nat \ {0} /\ Invertible(a, p)
  BY NonzeroInvertible, PrimeUnit
<1>2. PICK t \in Int : t = ModInverse(a, p) /\ Divides(p, a * t - 1)
  <2>1. ModInverse(a, p) \in 0..(p - 1) /\ Divides(p, a * ModInverse(a, p) - 1)
    BY <1>1, ModInverse_Correct
  <2>2. QED
    BY <1>1, <2>1
<1>3. QED
  BY <1>2 DEF Unit, Cong

LEMMA CoprimeProduct ==
  ASSUME NEW p, Prime(p), NEW m \in Int, ~Divides(p, m), NEW x \in Int,
         Divides(p, x), Divides(m, x)
  PROVE  Divides(p * m, x)
<1>0. p \in Nat \ {0}
  BY PrimeUnit
<1>1. PICK k \in Int : x = m * k
  BY DEF Divides
<1>2. Divides(p, k)
  BY <1>1, PrimeDivides
<1>3. PICK j \in Int : k = p * j
  BY <1>2 DEF Divides
<1>4. x = (p * m) * j
  BY <1>0, <1>1, <1>3
<1>5. QED
  BY <1>4 DEF Divides

\* The Chinese remainder: any b modulo a prime, and 1 modulo the rest.
LEMMA Mix ==
  ASSUME NEW p, Prime(p), NEW m \in Nat \ {0}, ~Divides(p, m), NEW b \in Int
  PROVE  \E c \in Int : Cong(p, c, b) /\ Cong(m, c, 1)
<1>0. p \in Nat \ {0}
  BY PrimeUnit
<1>1. PICK s \in Int : Divides(p, m * s - 1)
  BY PrimeInverse DEF Unit, Cong
<1>2. PICK k \in Int : m * s - 1 = p * k
  BY <1>1 DEF Divides
<1>3. PICK c \in Int : c = 1 + m * (s * (b - 1))
  OBVIOUS
<1>4. c - 1 = m * (s * (b - 1)) /\ s * (b - 1) \in Int
  BY <1>3
<1>5. c - b = p * (k * (b - 1)) /\ k * (b - 1) \in Int
  <2>1. c - b = (m * s - 1) * (b - 1)
    BY <1>3
  <2>2. (p * k) * (b - 1) = p * (k * (b - 1))
    BY <1>0
  <2>3. QED
    BY <1>2, <2>1, <2>2
<1>6. QED
  BY <1>4, <1>5 DEF Cong, Divides

LEMMA MixUnit ==
  ASSUME NEW p, Prime(p), NEW m \in Nat \ {0}, ~Divides(p, m), NEW b \in Int, Unit(p, b)
  PROVE  \E c \in Int : Cong(p, c, b) /\ Cong(m, c, 1) /\ Unit(p * m, c)
<1>0. p \in Nat \ {0}
  BY PrimeUnit
<1>1. PICK t \in Int : Cong(p, b * t, 1)
  BY DEF Unit
<1>2. PICK c \in Int : Cong(p, c, b) /\ Cong(m, c, 1)
  BY Mix
<1>3. PICK d \in Int : Cong(p, d, t) /\ Cong(m, d, 1)
  BY Mix
<1>4. PICK u \in Int, v \in Int : u = c * d /\ v = b * t
  OBVIOUS
<1>5. Cong(p, u, v) /\ Cong(p, v, 1)
  BY <1>0, <1>1, <1>2, <1>3, <1>4, CongRing
<1>6. Cong(p, u, 1)
  BY <1>0, <1>5, CongTrans
<1>7. Cong(m, u, 1)
  <2>1. Cong(m, c * d, 1 * 1)
    BY <1>2, <1>3, CongRing
  <2>2. QED
    BY <1>4, <2>1
<1>8. Cong(p * m, u, 1)
  <2>1. PICK w \in Int : w = u - 1
    OBVIOUS
  <2>2. Divides(p * m, w)
    BY <1>6, <1>7, <2>1, CoprimeProduct DEF Cong
  <2>3. QED
    BY <2>1, <2>2 DEF Cong
<1>9. QED
  BY <1>2, <1>4, <1>8 DEF Unit

LEMMA MinusUnit ==
  ASSUME NEW n \in Nat \ {0}, NEW b \in Int, NEW M \in Nat \ {0}, Cong(n, Power(b, M), -1)
  PROVE  Unit(n, b)
<1>1. PICK e \in Nat : M = e + 1
  <2>1. M - 1 \in Nat /\ M = (M - 1) + 1
    OBVIOUS
  <2>2. QED
    BY <2>1
<1>2. PICK x \in Int, y \in Int : x = Power(b, e) /\ y = Power(b, M) /\ y = b * x
  BY <1>1, PowerDef
<1>3. PICK k \in Int : y - (-1) = n * k
  BY <1>2 DEF Cong, Divides
<1>4. b * (-x) - 1 = n * (-k) /\ -x \in Int /\ -k \in Int
  BY <1>2, <1>3
<1>5. QED
  BY <1>4 DEF Unit, Cong, Divides

\* A unit modulo n is one modulo each divisor.
LEMMA UnitDown ==
  ASSUME NEW n \in Int, NEW d \in Int, Divides(d, n), NEW a \in Int, Unit(n, a)
  PROVE  Unit(d, a)
<1>1. PICK t \in Int : Cong(n, a * t, 1)
  BY DEF Unit
<1>2. PICK u \in Int : u = a * t
  OBVIOUS
<1>3. Cong(d, u, 1)
  BY <1>1, <1>2, CongDown
<1>4. QED
  BY <1>2, <1>3 DEF Unit

\* The power by e of what is b modulo d.
LEMMA PowerAs ==
  ASSUME NEW d \in Nat \ {0}, NEW c \in Int, NEW b \in Int, Cong(d, c, b), NEW e \in Nat,
         NEW s \in Int, Cong(d, Power(b, e), s)
  PROVE  Cong(d, Power(c, e), s)
<1>1. Power(c, e) \in Int /\ Power(b, e) \in Int
  BY PowerDef
<1>2. Cong(d, Power(c, e), Power(b, e))
  BY PowerCong
<1>3. QED
  BY <1>1, <1>2, CongTrans

LEMMA SignedSquare ==
  ASSUME NEW n \in Nat \ {0}, NEW a \in Int, NEW M \in Nat \ {0}, NEW K \in Nat \ {0},
         n - 1 = 2 * (M * K), NEW s \in Sign, Cong(n, Power(a, M), s)
  PROVE  Cong(n, Power(a, n - 1), 1)
<1>1. PICK f \in Nat : f = 2 * K /\ n - 1 = M * f
  <2>1. 2 * K \in Nat /\ n - 1 = M * (2 * K)
    OBVIOUS
  <2>2. QED
    BY <2>1
<1>2. Cong(n, Power(a, M * f), Power(s, f))
  BY SignedPower
<1>3. Power(s, f) = 1
  <2>1. s \in Int /\ 2 \in Nat /\ s * (s * 1) = 1
    BY DEF Sign
  <2>2. Power(s, 2) = 1
    <3>1. Power(s, 0) = 1 /\ Power(s, 0 + 1) = s * Power(s, 0) /\ Power(s, 1 + 1) = s * Power(s, 1)
      BY <2>1, PowerDef
    <3>2. 0 + 1 = 1 /\ 1 + 1 = 2
      OBVIOUS
    <3>3. QED
      BY <2>1, <3>1, <3>2
  <2>3. Power(s, 2 * K) = Power(Power(s, 2), K)
    BY <2>1, PowerProduct
  <2>4. QED
    BY <1>1, <2>2, <2>3, PowerOne
<1>4. QED
  BY <1>1, <1>2, <1>3

\* Powers of 1 + y where the square of y vanishes.
LEMMA OnePlus ==
  ASSUME NEW n \in Nat \ {0}, NEW y \in Int, Divides(n, y * y)
  PROVE  \A k \in Nat : Cong(n, Power(1 + y, k), 1 + k * y)
<1> DEFINE T == {k \in Nat : Cong(n, Power(1 + y, k), 1 + k * y)}
<1>0. PICK z \in Int : z = 1 + y
  OBVIOUS
<1>1. 0 \in T
  <2>1. 1 \in Int /\ 1 + 0 * y = 1
    OBVIOUS
  <2>2. Power(z, 0) = 1 /\ Cong(n, 1, 1)
    BY <2>1, PowerDef, CongRefl
  <2>3. QED
    BY <1>0, <2>1, <2>2
<1>2. ASSUME NEW k \in T PROVE k + 1 \in T
  <2>1. PICK a \in Int, b \in Int : a = Power(z, k) /\ b = 1 + k * y
    BY PowerDef
  <2>2. Cong(n, a, b)
    BY <1>0, <2>1
  <2>3. PICK i \in Int, j \in Int : a - b = n * i /\ y * y = n * j
    BY <2>2 DEF Cong, Divides
  <2>4. Power(z, k + 1) = z * a
    BY <2>1, PowerDef
  <2>5. z * a - (1 + (k + 1) * y) = z * (a - b) + k * (y * y)
    <3>1. z * a = z * (a - b) + z * b
      OBVIOUS
    <3>2. z * b = 1 + (k + 1) * y + k * (y * y)
      BY <1>0, <2>1
    <3>3. QED
      BY <3>1, <3>2
  <2>6. z * (n * i) + k * (n * j) = n * (z * i + k * j) /\ z * i + k * j \in Int
    OBVIOUS
  <2>7. z * a - (1 + (k + 1) * y) = n * (z * i + k * j)
    BY <2>3, <2>5, <2>6
  <2>8. Cong(n, z * a, 1 + (k + 1) * y)
    BY <2>6, <2>7 DEF Cong, Divides
  <2>9. QED
    BY <1>0, <2>4, <2>8
<1> HIDE DEF T
<1>3. \A k \in Nat : k \in T
  <2>1. T \in SUBSET Nat
    BY DEF T
  <2>2. QED
    BY <1>1, <1>2, <2>1, SetInduction
<1>4. QED
  BY <1>3 DEF T

Survivors(n) == {a \in 2..(n - 2) : Survives(n, a)}

\* A square divides n: the numbers 1 + i * n / p.
LEMMA SquareCase ==
  ASSUME NEW n \in Nat \ {0}, n > 2, n % 2 = 1,
         NEW p \in Nat, p >= 5, NEW u \in Nat \ {0}, n = p * (p * u)
  PROVE  4 * Cardinality(Survivors(n)) <= n - 1
<1> DEFINE H == Survivors(n)
           t == p * u
           a == [i \in 1..4 |-> 1 + i * t]
<1>0. t \in Int /\ t # 0 /\ n = p * t
  <2>1. t \in Nat \ {0}
    OBVIOUS
  <2>2. QED
    BY <2>1
<1>1. H \in SUBSET (1..(n - 1)) /\ H \in SUBSET Int
  BY DEF Survivors
<1>2. \A h \in H : Cong(n, Power(h, n - 1), 1)
  <2>1. PICK M \in Nat \ {0}, K \in Nat \ {0} :
          /\ n - 1 = 2 * (M * K)
          /\ \A b \in 1..(n - 1) : Survives(n, b) => \E s \in Sign : Cong(n, Power(b, M), s)
    BY Liars
  <2>2. ASSUME NEW h \in H PROVE Cong(n, Power(h, n - 1), 1)
    <3>1. h \in 1..(n - 1) /\ h \in Int /\ Survives(n, h)
      BY <1>1 DEF Survivors
    <3>2. PICK s \in Sign : Cong(n, Power(h, M), s)
      BY <2>1, <3>1
    <3>3. QED
      BY <2>1, <3>1, <3>2, SignedSquare
  <2>3. QED
    BY <2>2
<1>3. PICK c \in Int : c = t /\ n = p * c /\ c # 0 /\ c * c = n * u
  <2>1. t * t = (p * t) * u
    BY <1>0
  <2>2. QED
    BY <1>0, <2>1
<1> HIDE DEF t, H
<1>4. a \in [1..4 -> Int] /\ \A i \in 1..4 : a[i] = 1 + i * c
  BY <1>0, <1>3
<1>5. ASSUME NEW i \in 1..4
      PROVE  Unit(n, a[i]) /\ Cong(n, Power(a[i], n - 1), 1 + (n - 1) * (i * c))
  <2>1. PICK y \in Int : y = i * c
    OBVIOUS
  <2>2. y * y = n * (i * i * u) /\ i * i * u \in Int
    <3>1. y * y = (i * i) * (c * c)
      BY <2>1
    <3>2. QED
      BY <1>3, <3>1
  <2>3. (1 + y) * (1 - y) - 1 = n * (-(i * i * u)) /\ 1 - y \in Int /\ -(i * i * u) \in Int
    <3>1. (1 + y) * (1 - y) - 1 = -(y * y)
      OBVIOUS
    <3>2. QED
      BY <2>2, <3>1
  <2>4. Unit(n, 1 + y)
    BY <2>3 DEF Unit, Cong, Divides
  <2>5. Divides(n, y * y) /\ n - 1 \in Nat
    <3>1. \E k \in Int : y * y = n * k
      BY <2>2
    <3>2. QED
      BY <3>1 DEF Divides
  <2>6. Cong(n, Power(1 + y, n - 1), 1 + (n - 1) * y)
    BY <2>5, OnePlus
  <2>7. a[i] = 1 + y
    BY <1>4, <2>1
  <2>8. QED
    BY <2>1, <2>4, <2>6, <2>7
<1>6. ASSUME NEW i \in 1..4, NEW j \in 1..4, i < j
      PROVE  ~Cong(n, Power(a[i], n - 1), Power(a[j], n - 1))
  <2>1. SUFFICES ASSUME Cong(n, Power(a[i], n - 1), Power(a[j], n - 1)) PROVE FALSE
    OBVIOUS
  <2>2. PICK x \in Int, z \in Int : x = Power(a[i], n - 1) /\ z = Power(a[j], n - 1)
    <3>1. n - 1 \in Nat /\ a[i] \in Int /\ a[j] \in Int
      BY <1>4
    <3> HIDE DEF a
    <3>2. QED
      BY <3>1, PowerDef
  <2>3. PICK v \in Int, w \in Int : v = 1 + (n - 1) * (i * c) /\ w = 1 + (n - 1) * (j * c)
    OBVIOUS
  <2>4. Cong(n, x, v) /\ Cong(n, z, w) /\ Cong(n, x, z)
    BY <1>5, <2>1, <2>2, <2>3
  <2>5. Cong(n, v, x)
    BY <2>4, CongTimes
  <2>6. Cong(n, v, z)
    BY <2>4, <2>5, CongTrans
  <2>7. Cong(n, v, w)
    BY <2>4, <2>6, CongTrans
  <2>8. PICK k \in Int : v - w = n * k
    BY <2>7 DEF Cong, Divides
  <2>9. c * ((n - 1) * (i - j)) = c * (p * k)
    <3>1. v - w = c * ((n - 1) * (i - j))
      BY <2>3
    <3>2. n * k = c * (p * k)
      BY <1>3
    <3>3. QED
      BY <2>8, <3>1, <3>2
  <2>10. (n - 1) * (i - j) = p * k
    <3>1. PICK f \in Int, g \in Int : f = (n - 1) * (i - j) /\ g = p * k
      OBVIOUS
    <3>2. c * f = c * g => f = g
      BY <1>3
    <3>3. QED
      BY <2>9, <3>1, <3>2
  <2>11. PICK l \in Int : l = c * (i - j) - k
    OBVIOUS
  <2>12. i - j = p * l
    <3>1. n * (i - j) = p * (c * (i - j))
      BY <1>3
    <3>2. (n - 1) * (i - j) = n * (i - j) - (i - j)
      OBVIOUS
    <3>3. i - j = p * (c * (i - j)) - p * k
      BY <2>10, <3>1, <3>2
    <3>4. p * (c * (i - j)) - p * k = p * l
      BY <2>11
    <3>5. QED
      BY <3>3, <3>4
  <2>13. l >= 0 => p * l >= 0
    OBVIOUS
  <2>14. l <= -1 => p * l <= -p
    OBVIOUS
  <2>15. QED
    BY <1>6, <2>12, <2>13, <2>14
<1>7. ASSUME NEW i \in 1..4, NEW j \in 1..4, i < j PROVE ~Meets(n, H, a[i], a[j])
  <2>1. Divides(n, n) /\ n - 1 \in Nat
    BY DividesZero
  <2>2. PICK x \in Int, y \in Int : x = a[i] /\ y = a[j]
    BY <1>4
  <2>3. ~Cong(n, Power(x, n - 1), Power(y, n - 1))
    BY <1>6, <1>7, <2>2
  <2> HIDE DEF a
  <2>4. ~Meets(n, H, x, y)
    BY <1>1, <1>2, <2>1, <2>3, ApartByPower
  <2>5. QED
    BY <2>2, <2>4
<1>8. QED
  <2> HIDE DEF a
  <2>1. 4 * Cardinality(H) <= n - 1
    BY <1>1, <1>4, <1>5, <1>7, Cosets
  <2>2. QED
    BY <2>1 DEF H

LEMMA PowerOfProduct ==
  ASSUME NEW d \in Nat \ {0}, NEW x \in Int, NEW y \in Int, NEW z \in Int, z = x * y, NEW e \in Nat,
         NEW s \in Int, NEW t \in Int, Cong(d, Power(x, e), s), Cong(d, Power(y, e), t)
  PROVE  Cong(d, Power(z, e), s * t)
<1>1. PICK u \in Int, v \in Int : u = Power(x, e) /\ v = Power(y, e)
  BY PowerDef
<1>2. Cong(d, u * v, s * t)
  BY <1>1, CongRing
<1>3. Power(z, e) = u * v
  BY <1>1, PowerMult
<1>4. QED
  BY <1>2, <1>3

\* Three factors: 1, a number that is -1's root modulo one, another, and their product.
LEMMA ThreeCase ==
  ASSUME NEW n \in Nat \ {0}, n > 2, n % 2 = 1, NEW p, NEW q, Prime(p), Prime(q), p > 2, q > 2,
         NEW w \in Nat, w > 2, n = p * (q * w), ~Divides(p, q * w), ~Divides(q, p * w)
  PROVE  4 * Cardinality(Survivors(n)) <= n - 1
<1> DEFINE H == Survivors(n)
<1>0. p \in Nat \ {0} /\ q \in Nat \ {0} /\ w \in Nat \ {0}
  BY PrimeUnit
<1>1. H \in SUBSET (1..(n - 1)) /\ H \in SUBSET Int
  BY DEF Survivors
<1>2. PICK M \in Nat \ {0}, K \in Nat \ {0}, b \in Int :
        /\ n - 1 = 2 * (M * K) /\ Cong(n, Power(b, M), -1)
        /\ \A a \in 1..(n - 1) : Survives(n, a) => \E s \in Sign : Cong(n, Power(a, M), s)
  BY Liars
<1>3. \A h \in H : \E s \in Sign : Cong(n, Power(h, M), s)
  BY <1>1, <1>2 DEF Survivors
<1> HIDE DEF H
<1>4. PICK i \in Nat \ {0}, j \in Nat \ {0}, k \in Nat \ {0} :
        i = q * w /\ j = p * w /\ k = p * q /\ n = p * i /\ n = q * j /\ n = w * k
  <2>1. q * w \in Nat \ {0} /\ p * w \in Nat \ {0} /\ p * q \in Nat \ {0}
    BY <1>0
  <2>2. p * (q * w) = q * (p * w) /\ p * (q * w) = w * (p * q)
    BY <1>0
  <2>3. QED
    BY <2>1, <2>2
<1>5. Divides(p, n) /\ Divides(q, n) /\ Divides(w, n)
  <2>1. i \in Int /\ j \in Int /\ k \in Int
    OBVIOUS
  <2>2. QED
    BY <1>4, <2>1 DEF Divides
<1>6. Divides(p, j) /\ Divides(w, j) /\ Divides(q, i) /\ Divides(w, i)
  <2>1. i = q * w /\ j = p * w /\ i = w * q /\ j = w * p
    BY <1>0, <1>4
  <2>2. QED
    BY <1>0, <2>1 DEF Divides
<1>7. Unit(n, b) /\ Unit(p, b) /\ Unit(q, b)
  <2>1. Unit(n, b)
    BY <1>2, MinusUnit
  <2>2. QED
    BY <1>0, <1>5, <2>1, UnitDown
<1>8. /\ -1 \in Int /\ 1 \in Int
      /\ Cong(p, Power(b, M), -1) /\ Cong(q, Power(b, M), -1)
  <2>1. Power(b, M) \in Int /\ -1 \in Int /\ 1 \in Int
    BY PowerDef
  <2>2. QED
    BY <1>0, <1>2, <1>5, <2>1, CongDown
<1>9. PICK c \in Int : Cong(p, c, b) /\ Cong(i, c, 1) /\ Unit(n, c)
  BY <1>4, <1>7, MixUnit
<1>10. PICK d \in Int : Cong(q, d, b) /\ Cong(j, d, 1) /\ Unit(n, d)
  BY <1>4, <1>7, MixUnit
<1>11. ASSUME NEW z \in Nat \ {0} PROVE Cong(z, Power(1, M), 1)
  BY <1>8, PowerOne, CongRefl
<1>12. Cong(p, Power(c, M), -1) /\ Cong(q, Power(c, M), 1) /\ Cong(w, Power(c, M), 1)
  <2>1. Cong(q, c, 1) /\ Cong(w, c, 1)
    BY <1>0, <1>4, <1>6, <1>9, CongDown
  <2>2. Cong(q, Power(c, M), 1) /\ Cong(w, Power(c, M), 1)
    BY <1>0, <1>8, <1>11, <2>1, PowerAs
  <2>3. Cong(p, Power(c, M), -1)
    BY <1>0, <1>8, <1>9, PowerAs
  <2>4. QED
    BY <2>2, <2>3
<1>13. Cong(q, Power(d, M), -1) /\ Cong(p, Power(d, M), 1) /\ Cong(w, Power(d, M), 1)
  <2>1. Cong(p, d, 1) /\ Cong(w, d, 1)
    BY <1>0, <1>4, <1>6, <1>10, CongDown
  <2>2. Cong(p, Power(d, M), 1) /\ Cong(w, Power(d, M), 1)
    BY <1>0, <1>8, <1>11, <2>1, PowerAs
  <2>3. Cong(q, Power(d, M), -1)
    BY <1>0, <1>8, <1>10, PowerAs
  <2>4. QED
    BY <2>2, <2>3
<1>14. PICK e \in Int : e = c * d /\ Unit(n, e)
  BY <1>9, <1>10, UnitProduct
<1>15. Cong(p, Power(e, M), -1) /\ Cong(q, Power(e, M), -1) /\ Cong(w, Power(e, M), 1)
  <2>1. /\ Cong(p, Power(e, M), (-1) * 1) /\ Cong(q, Power(e, M), 1 * (-1))
        /\ Cong(w, Power(e, M), 1 * 1)
    BY <1>0, <1>8, <1>12, <1>13, <1>14, PowerOfProduct
  <2>2. (-1) * 1 = -1 /\ 1 * (-1) = -1 /\ 1 * 1 = 1
    OBVIOUS
  <2>3. QED
    BY <2>1, <2>2
<1>16. Unit(n, 1)
  <2>1. Cong(n, 1 * 1, 1)
    BY <1>8, CongRefl
  <2>2. QED
    BY <2>1 DEF Unit
<1>17. /\ ~Meets(n, H, 1, c) /\ ~Meets(n, H, 1, d) /\ ~Meets(n, H, 1, e)
       /\ ~Meets(n, H, d, c) /\ ~Meets(n, H, c, e) /\ ~Meets(n, H, d, e)
  <2>1. ASSUME NEW z \in Nat, z > 2, Divides(z, n), NEW x \in Int, NEW y \in Int,
               Cong(z, Power(x, M), 1), Cong(z, Power(y, M), -1),
               Cong(w, Power(x, M), 1), Cong(w, Power(y, M), 1)
        PROVE  ~Meets(n, H, x, y)
    BY <1>1, <1>3, <1>5, <2>1, ApartBySigns
  <2>2. p \in Nat /\ q \in Nat /\ Cong(p, Power(1, M), 1) /\ Cong(q, Power(1, M), 1) /\ Cong(w, Power(1, M), 1)
    BY <1>0, <1>11
  <2>3. ~Meets(n, H, 1, c) /\ ~Meets(n, H, 1, d) /\ ~Meets(n, H, 1, e)
    BY <1>5, <1>8, <1>12, <1>13, <1>15, <2>1, <2>2
  <2>4. ~Meets(n, H, d, c) /\ ~Meets(n, H, c, e) /\ ~Meets(n, H, d, e)
    BY <1>5, <1>12, <1>13, <1>15, <2>1, <2>2
  <2>5. QED
    BY <2>3, <2>4
<1> DEFINE a == [x \in 1..4 |-> IF x = 1 THEN 1 ELSE IF x = 2 THEN d ELSE IF x = 3 THEN c ELSE e]
<1>18. a \in [1..4 -> Int] /\ a[1] = 1 /\ a[2] = d /\ a[3] = c /\ a[4] = e
  BY <1>8
<1> HIDE DEF a
<1>19. ASSUME NEW x \in 1..4, NEW y \in 1..4
       PROVE  Unit(n, a[x]) /\ (x < y => ~Meets(n, H, a[x], a[y]))
  <2>1. x = 1 \/ x = 2 \/ x = 3 \/ x = 4
    OBVIOUS
  <2>2. y = 1 \/ y = 2 \/ y = 3 \/ y = 4
    OBVIOUS
  <2>3. Unit(n, a[x])
    BY <1>9, <1>10, <1>14, <1>16, <1>18, <2>1
  <2>4. ASSUME x < y PROVE ~Meets(n, H, a[x], a[y])
    <3>1. \/ x = 1 /\ (y = 2 \/ y = 3 \/ y = 4)
          \/ x = 2 /\ (y = 3 \/ y = 4)
          \/ x = 3 /\ y = 4
      BY <2>1, <2>2, <2>4
    <3>2. QED
      BY <1>17, <1>18, <3>1
  <2>5. QED
    BY <2>3, <2>4
<1>20. 4 * Cardinality(H) <= n - 1
  BY <1>1, <1>18, <1>19, Cosets
<1>21. QED
  BY <1>20 DEF H

\* Monic polynomials by their degree, as functions, in Horner's form.
Horner(f, c) == [x \in Int |-> x * f[x] + c]
Monics(poly) ==
  /\ poly \in [Nat -> SUBSET [Int -> Int]] /\ poly[0] = {[x \in Int |-> 1]}
  /\ \A d \in Nat : poly[d + 1] = {Horner(f, c) : f \in poly[d], c \in Int}

LEMMA MonicsExist == \E poly : Monics(poly)
<1> DEFINE V == SUBSET [Int -> Int]
           one == {[x \in Int |-> 1]}
           zero == 0
           D == Nat
           comb == [t \in D \X V |-> {Horner(f, c) : f \in t[2], c \in Int}]
<1>1. ASSUME NEW f \in [Int -> Int], NEW c \in Int PROVE Horner(f, c) \in [Int -> Int]
  BY DEF Horner
<1>2. one \in V /\ comb \in [D \X V -> V]
  BY <1>1
<1>3. zero \in Nat /\ D \in SUBSET Nat /\ zero \in D /\ \A n \in D : n = zero \/ n - 1 \in D
  OBVIOUS
<1>4. PICK poly \in [D -> V] : Counts(poly, D, zero, one, comb)
  <2> HIDE DEF V, one, zero, D, comb
  <2> QED BY <1>2, <1>3, Countdown
<1>5. poly[zero] = one
  <2> HIDE DEF V, one, zero, D, comb
  <2> QED BY <1>3, <1>4 DEF Counts
<1>6. ASSUME NEW d \in Nat PROVE poly[d + 1] = {Horner(f, c) : f \in poly[d], c \in Int}
  <2>1. PICK n \in D : n = d + 1 /\ n # zero /\ n - 1 = d
    OBVIOUS
  <2>2. poly[n] = comb[<<n, poly[n - 1]>>]
    <3> HIDE DEF V, one, zero, D, comb
    <3> QED BY <1>4, <2>1 DEF Counts
  <2>3. PICK S \in V : S = poly[d]
    BY <1>4
  <2>4. comb[<<n, S>>] = {Horner(f, c) : f \in S, c \in Int}
    OBVIOUS
  <2> HIDE DEF comb
  <2>5. QED
    BY <2>1, <2>2, <2>3, <2>4
<1>7. poly \in [Nat -> SUBSET [Int -> Int]] /\ poly[0] = {[x \in Int |-> 1]}
  BY <1>4, <1>5
<1>8. QED
  BY <1>6, <1>7 DEF Monics

LEMMA MonicQuotient ==
  ASSUME NEW poly, Monics(poly)
  PROVE  \A d \in Nat : \A f \in poly[d + 1], a \in Int :
           \E g \in poly[d] : \A x \in Int : f[x] - f[a] = (x - a) * g[x]
<1> DEFINE Divided(f, a, g) == \A x \in Int : f[x] - f[a] = (x - a) * g[x]
           T == {d \in Nat : \A f \in poly[d + 1], a \in Int : \E g \in poly[d] : Divided(f, a, g)}
<1>1. 0 \in T
  <2>1. ASSUME NEW f \in poly[0 + 1], NEW a \in Int PROVE \E g \in poly[0] : Divided(f, a, g)
    <3>1. PICK g \in poly[0], c \in Int : f = Horner(g, c)
      BY DEF Monics
    <3>2. \A x \in Int : g[x] = 1
      BY DEF Monics
    <3>3. \A x \in Int : f[x] = x * 1 + c
      BY <3>1, <3>2 DEF Horner
    <3>4. Divided(f, a, g)
      BY <3>2, <3>3
    <3>5. QED
      BY <3>4
  <2>2. QED
    BY <2>1
<1>2. ASSUME NEW d \in T PROVE d + 1 \in T
  <2>1. ASSUME NEW f \in poly[(d + 1) + 1], NEW a \in Int
        PROVE  \E g \in poly[d + 1] : Divided(f, a, g)
    <3>0. d \in Nat /\ d + 1 \in Nat
      OBVIOUS
    <3>1. PICK h \in poly[d + 1], c \in Int : f = Horner(h, c)
      BY <3>0 DEF Monics
    <3>2. PICK k \in poly[d] : Divided(h, a, k)
      OBVIOUS
    <3>3. h \in [Int -> Int] /\ k \in [Int -> Int]
      <4>1. poly[d + 1] \in SUBSET [Int -> Int] /\ poly[d] \in SUBSET [Int -> Int]
        <5>1. poly \in [Nat -> SUBSET [Int -> Int]]
          BY DEF Monics
        <5>2. QED
          BY <3>0, <5>1
      <4>2. QED
        BY <4>1
    <3>4. PICK v \in Int : v = h[a]
      BY <3>3
    <3>5. PICK g : g = Horner(k, v)
      OBVIOUS
    <3>6. g \in poly[d + 1]
      BY <3>0, <3>5 DEF Monics
    <3>7. ASSUME NEW x \in Int PROVE f[x] - f[a] = (x - a) * g[x]
      <4>1. PICK u \in Int, w \in Int : u = h[x] /\ w = k[x]
        BY <3>3
      <4>2. u - v = (x - a) * w
        BY <3>2, <3>4, <4>1
      <4>3. f[x] = x * u + c /\ f[a] = a * v + c /\ g[x] = x * w + v
        BY <3>1, <3>4, <3>5, <4>1 DEF Horner
      <4>4. (x * u + c) - (a * v + c) = x * (u - v) + (x - a) * v
        OBVIOUS
      <4>5. x * ((x - a) * w) + (x - a) * v = (x - a) * (x * w + v)
        OBVIOUS
      <4>6. QED
        BY <4>2, <4>3, <4>4, <4>5
    <3>8. QED
      BY <3>6, <3>7
  <2> HIDE DEF Divided
  <2>2. QED
    BY <2>1
<1> HIDE DEF T
<1>3. \A d \in Nat : d \in T
  <2>1. T \in SUBSET Nat
    BY DEF T
  <2>2. QED
    BY <1>1, <1>2, <2>1, SetInduction
<1>4. QED
  BY <1>3 DEF T

\* Modulo a prime a polynomial has no more roots than its degree.
Roots(q, f) == {x \in 1..(q - 1) : Divides(q, f[x])}

LEMMA MonicRoots ==
  ASSUME NEW poly, Monics(poly), NEW q, Prime(q)
  PROVE  \A d \in Nat : \A f \in poly[d] : Cardinality(Roots(q, f)) <= d
<1>0. q \in Nat \ {0} /\ q > 1 /\ ~Divides(q, 1)
  BY PrimeUnit
<1> DEFINE T == {d \in Nat : \A f \in poly[d] : Cardinality(Roots(q, f)) <= d}
<1>1. ASSUME NEW f PROVE IsFiniteSet(Roots(q, f)) /\ Cardinality(Roots(q, f)) \in Nat
  <2>1. 1 \in Int /\ q - 1 \in Int
    BY <1>0
  <2>2. IsFiniteSet(1..(q - 1))
    BY <2>1, FS_Interval
  <2>3. Roots(q, f) \in SUBSET (1..(q - 1))
    BY DEF Roots
  <2>4. QED
    BY <2>2, <2>3, FS_Subset, FS_CardinalityType
<1>2. 0 \in T
  <2>1. ASSUME NEW f \in poly[0] PROVE Cardinality(Roots(q, f)) <= 0
    <3>1. \A x \in Int : f[x] = 1
      BY DEF Monics
    <3>2. Roots(q, f) = {}
      BY <1>0, <3>1 DEF Roots
    <3>3. QED
      BY <3>2, FS_EmptySet
  <2>2. QED
    BY <2>1
<1>3. ASSUME NEW d \in T PROVE d + 1 \in T
  <2>0. d \in Nat
    OBVIOUS
  <2>1. ASSUME NEW f \in poly[d + 1] PROVE Cardinality(Roots(q, f)) <= d + 1
    <3>1. CASE Roots(q, f) = {}
      BY <2>0, <3>1, FS_EmptySet
    <3>2. CASE Roots(q, f) # {}
      <4>1. PICK a \in Roots(q, f) : TRUE
        BY <3>2
      <4>2. a \in 1..(q - 1) /\ a \in Int /\ Divides(q, f[a])
        BY <1>0 DEF Roots
      <4>3. PICK g \in poly[d] : \A x \in Int : f[x] - f[a] = (x - a) * g[x]
        BY <2>0, <4>2, MonicQuotient
      <4>4. f \in [Int -> Int] /\ g \in [Int -> Int]
        BY <2>0 DEF Monics
      <4>5. ASSUME NEW x \in Roots(q, f), x # a PROVE x \in Roots(q, g)
        <5>1. x \in 1..(q - 1) /\ x \in Int /\ Divides(q, f[x])
          BY <1>0 DEF Roots
        <5>2. PICK u \in Int, v \in Int, w \in Int, z \in Int :
                u = f[x] /\ v = f[a] /\ w = g[x] /\ z = x - a
          BY <4>2, <4>4, <5>1
        <5>3. u - v = z * w
          BY <4>3, <5>1, <5>2
        <5>4. Divides(q, u - v)
          <6>1. Divides(q, u) /\ Divides(q, v) /\ q \in Int
            BY <1>0, <4>2, <5>1, <5>2
          <6>2. QED
            BY <6>1, Differ
        <5>5. ~Divides(q, z)
          <6>1. ASSUME Divides(q, z) PROVE FALSE
            <7>1. Cong(q, x, a)
              BY <5>2, <6>1 DEF Cong
            <7>2. x \in 0..(q - 1) /\ a \in 0..(q - 1)
              BY <1>0, <4>2, <5>1
            <7>3. QED
              BY <1>0, <4>2, <4>5, <5>1, <7>1, <7>2, CongEqual
          <6>2. QED
            BY <6>1
        <5>6. Divides(q, w)
          BY <5>3, <5>4, <5>5, PrimeDivides
        <5>7. QED
          BY <5>1, <5>2, <5>6 DEF Roots
      <4>6. Roots(q, f) \ {a} \in SUBSET Roots(q, g)
        BY <4>5
      <4>7. Cardinality(Roots(q, g)) <= d
        OBVIOUS
      <4>8. Cardinality(Roots(q, f) \ {a}) <= Cardinality(Roots(q, g))
        BY <1>1, <4>6, FS_Subset
      <4>9. Cardinality(Roots(q, f) \ {a}) = Cardinality(Roots(q, f)) - 1
        BY <1>1, <4>1, FS_RemoveElement
      <4>10. QED
        BY <1>1, <2>0, <4>7, <4>8, <4>9
    <3>3. QED
      BY <3>1, <3>2
  <2>2. QED
    BY <2>1
<1> HIDE DEF T
<1>4. \A d \in Nat : d \in T
  <2>1. T \in SUBSET Nat
    BY DEF T
  <2>2. QED
    BY <1>2, <1>3, <2>1, SetInduction
<1>5. QED
  BY <1>4 DEF T

\* Fewer than q - 1 cannot be an exponent of all units modulo q.
LEMMA NotAllOne ==
  ASSUME NEW q, Prime(q), NEW d \in Nat \ {0}, d < q - 1
  PROVE  \E y \in 1..(q - 1) : ~Cong(q, Power(y, d), 1)
<1>0. q \in Nat \ {0}
  BY PrimeUnit
<1>1. SUFFICES ASSUME \A y \in 1..(q - 1) : Cong(q, Power(y, d), 1) PROVE FALSE
  OBVIOUS
<1>2. PICK poly : Monics(poly)
  BY MonicsExist
<1> DEFINE X(e) == [x \in Int |-> Power(x, e)]
           T == {e \in Nat : X(e) \in poly[e]}
<1>3. \A e \in Nat : e \in T
  <2>1. 0 \in T
    <3>1. X(0) = [x \in Int |-> 1]
      BY PowerDef
    <3>2. QED
      BY <1>2, <3>1 DEF Monics
  <2>2. ASSUME NEW e \in T PROVE e + 1 \in T
    <3>1. X(e + 1) = Horner(X(e), 0)
      <4>1. ASSUME NEW x \in Int PROVE Power(x, e + 1) = x * Power(x, e) + 0
        <5>1. Power(x, e) \in Int /\ Power(x, e + 1) = x * Power(x, e)
          BY PowerDef
        <5>2. QED
          BY <5>1
      <4>2. QED
        BY <4>1 DEF Horner
    <3>2. X(e) \in poly[e] /\ e \in Nat /\ 0 \in Int
      OBVIOUS
    <3> HIDE DEF X
    <3>3. Horner(X(e), 0) \in poly[e + 1]
      BY <1>2, <3>2 DEF Monics
    <3>4. QED
      BY <3>1, <3>2, <3>3
  <2>3. T \in SUBSET Nat
    OBVIOUS
  <2> HIDE DEF T
  <2>4. QED
    BY <2>1, <2>2, <2>3, SetInduction
<1>4. PICK e \in Nat : d = e + 1
  <2>1. d - 1 \in Nat /\ d = (d - 1) + 1
    OBVIOUS
  <2>2. QED
    BY <2>1
<1>5. X(e) \in poly[e]
  BY <1>3
<1>6. PICK f : f = Horner(X(e), -1)
  OBVIOUS
<1>7. f \in poly[d]
  <2>1. -1 \in Int
    OBVIOUS
  <2> HIDE DEF X
  <2>2. QED
    BY <1>2, <1>4, <1>5, <1>6, <2>1 DEF Monics
<1>8. ASSUME NEW y \in 1..(q - 1) PROVE y \in Roots(q, f)
  <2>1. y \in Int
    BY <1>0
  <2>2. PICK u \in Int : u = Power(y, e) /\ Power(y, d) = y * u
    BY <1>4, <2>1, PowerDef
  <2>3. f[y] = y * u + (-1)
    BY <1>6, <2>1, <2>2 DEF Horner
  <2>4. y * u + (-1) = y * u - 1
    BY <2>1
  <2>5. Divides(q, y * u - 1)
    BY <1>1, <2>2 DEF Cong
  <2>6. QED
    BY <2>3, <2>4, <2>5 DEF Roots
<1>9. Roots(q, f) = 1..(q - 1)
  BY <1>8 DEF Roots
<1>10. Cardinality(1..(q - 1)) = q - 1
  <2>1. 1 \in Int /\ q - 1 \in Int /\ ~(1 > q - 1)
    BY <1>0
  <2>2. Cardinality(1..(q - 1)) = (q - 1) - 1 + 1
    BY <2>1, FS_Interval
  <2>3. QED
    BY <1>0, <2>2
<1>11. Cardinality(Roots(q, f)) <= d
  BY <1>2, <1>7, MonicRoots
<1>12. QED
  BY <1>0, <1>9, <1>10, <1>11

\* Two factors: two signs, and a number whose power by n - 1 is not 1.
LEMMA TwoCase ==
  ASSUME NEW n \in Nat \ {0}, n > 2, n % 2 = 1, NEW p, NEW q, Prime(p), Prime(q), p > 2, p < q,
         n = p * q
  PROVE  4 * Cardinality(Survivors(n)) <= n - 1
<1> DEFINE H == Survivors(n)
<1>0. p \in Nat \ {0} /\ q \in Nat \ {0} /\ q > 2
  BY PrimeUnit
<1>1. H \in SUBSET (1..(n - 1)) /\ H \in SUBSET Int
  BY DEF Survivors
<1>2. PICK M \in Nat \ {0}, K \in Nat \ {0}, b \in Int :
        /\ n - 1 = 2 * (M * K) /\ Cong(n, Power(b, M), -1)
        /\ \A a \in 1..(n - 1) : Survives(n, a) => \E s \in Sign : Cong(n, Power(a, M), s)
  BY Liars
<1>3. \A h \in H : \E s \in Sign : Cong(n, Power(h, M), s)
  BY <1>1, <1>2 DEF Survivors
<1>4. \A h \in H : Cong(n, Power(h, n - 1), 1)
  <2>1. ASSUME NEW h \in H PROVE Cong(n, Power(h, n - 1), 1)
    <3>1. h \in Int
      BY <1>1
    <3>2. PICK s \in Sign : Cong(n, Power(h, M), s)
      BY <1>3
    <3>3. QED
      BY <1>2, <3>1, <3>2, SignedSquare
  <2>2. QED
    BY <2>1
<1> HIDE DEF H
<1>5. Divides(p, n) /\ Divides(q, n) /\ ~Divides(p, q) /\ ~Divides(q, p) /\ n = q * p
  <2>1. Divides(p, n) /\ Divides(q, n) /\ n = q * p
    <3>1. p \in Int /\ q \in Int /\ n = q * p
      BY <1>0
    <3>2. QED
      BY <3>1 DEF Divides
  <2>2. ~Divides(q, p)
    <3>1. p \in 1..(q - 1)
      BY <1>0
    <3>2. QED
      BY <3>1, PrimeUnit
  <2>3. ~Divides(p, q)
    <3>1. p \in 2..(q - 1) /\ IsPrime(q)
      BY <1>0 DEF Prime
    <3>2. q % p # 0
      BY <3>1 DEF IsPrime
    <3>3. QED
      BY <1>0, <3>2, Remainder
  <2>4. QED
    BY <2>1, <2>2, <2>3
<1>6. /\ -1 \in Int /\ 1 \in Int /\ n - 1 \in Nat /\ Unit(p, b)
      /\ Cong(p, Power(b, M), -1)
  <2>1. Power(b, M) \in Int /\ -1 \in Int /\ 1 \in Int /\ n - 1 \in Nat
    <3>1. -1 \in Int /\ 1 \in Int /\ n - 1 \in Nat
      OBVIOUS
    <3>2. Power(b, M) \in Int
      BY PowerDef
    <3>3. QED
      BY <3>1, <3>2
  <2>2. Unit(n, b)
    BY <1>2, MinusUnit
  <2>3. Unit(p, b)
    BY <1>0, <1>5, <2>2, UnitDown
  <2>4. QED
    BY <1>0, <1>2, <1>5, <2>1, <2>3, CongDown
<1>7. PICK c \in Int : Cong(p, c, b) /\ Cong(q, c, 1) /\ Unit(n, c)
  BY <1>0, <1>5, <1>6, MixUnit
<1>8. ASSUME NEW z \in Nat \ {0}, NEW e \in Nat PROVE Cong(z, Power(1, e), 1)
  BY <1>6, PowerOne, CongRefl
<1>9. Cong(p, Power(c, M), -1) /\ Cong(q, Power(c, M), 1)
  BY <1>0, <1>6, <1>7, <1>8, PowerAs
<1>10. Cong(q, Power(c, n - 1), 1)
  BY <1>0, <1>6, <1>7, <1>8, PowerAs
<1>11. PICK y \in 1..(q - 1) : ~Cong(q, Power(y, p - 1), 1)
  <2>1. p - 1 \in Nat \ {0} /\ p - 1 < q - 1
    BY <1>0
  <2>2. QED
    BY <2>1, NotAllOne
<1>12. y \in Int /\ ~Divides(q, y)
  BY <1>0, PrimeUnit
<1>13. Cong(q, Power(y, n - 1), Power(y, p - 1))
  <2>1. PICK i \in Nat, j \in Nat : i = q - 1 /\ j = p - 1 /\ n - 1 = i * p + j
    <3>1. q - 1 \in Nat /\ p - 1 \in Nat /\ n - 1 = (q - 1) * p + (p - 1)
      BY <1>0
    <3>2. QED
      BY <3>1
  <2>2. PICK u \in Int, v \in Int, f \in Int :
          u = Power(y, i) /\ v = Power(y, j) /\ f = Power(u, p)
    <3>1. Power(y, i) \in Int /\ Power(y, j) \in Int
      BY <1>12, PowerDef
    <3>2. Power(Power(y, i), p) \in Int
      BY <1>0, <3>1, PowerDef
    <3>3. QED
      BY <3>1, <3>2
  <2>3. Power(y, i * p) = f
    BY <1>0, <1>12, <2>2, PowerProduct
  <2>4. Power(y, n - 1) = f * v
    <3>1. PICK k \in Nat : k = i * p
      BY <1>0
    <3>2. Power(y, k + j) = Power(y, k) * Power(y, j)
      BY <1>12, PowerSum
    <3>3. QED
      BY <2>1, <2>2, <2>3, <3>1, <3>2
  <2>5. Cong(q, u, 1)
    BY <1>12, <2>1, <2>2, Fermat
  <2>6. Cong(q, f, 1)
    <3>1. Cong(q, Power(u, p), Power(1, p))
      BY <1>0, <1>6, <2>5, PowerCong
    <3>2. QED
      BY <1>0, <2>2, <3>1, PowerOne
  <2>7. Cong(q, f * v, 1 * v) /\ 1 * v = v
    <3>1. Cong(q, f * v, 1 * v)
      BY <1>0, <1>6, <2>6, CongTimes
    <3>2. QED
      BY <3>1
  <2>8. QED
    BY <2>1, <2>2, <2>4, <2>7
<1>14. ~Cong(q, Power(y, n - 1), 1)
  <2>1. PICK u \in Int, v \in Int : u = Power(y, n - 1) /\ v = Power(y, p - 1)
    <3>1. p - 1 \in Nat
      BY <1>0
    <3>2. QED
      BY <1>6, <1>12, <3>1, PowerDef
  <2>2. Cong(q, v, u)
    BY <1>0, <1>13, <2>1, CongTimes
  <2>3. ASSUME Cong(q, u, 1) PROVE Cong(q, v, 1)
    BY <1>0, <1>6, <2>2, <2>3, CongTrans
  <2>4. QED
    BY <1>11, <2>1, <2>3
<1>15. PICK g \in Int : Cong(q, g, y) /\ Unit(n, g)
  <2>1. Unit(q, y)
    BY <1>12, PrimeInverse
  <2>2. QED
    BY <1>0, <1>5, <1>12, <2>1, MixUnit
<1>16. ~Cong(q, Power(g, n - 1), 1)
  <2>1. PICK u \in Int, v \in Int : u = Power(y, n - 1) /\ v = Power(g, n - 1)
    BY <1>6, <1>12, PowerDef
  <2>2. Cong(q, v, u)
    BY <1>0, <1>6, <1>12, <1>15, <2>1, PowerCong
  <2>3. ASSUME Cong(q, v, 1) PROVE Cong(q, u, 1)
    <3>1. Cong(q, u, v)
      BY <1>0, <2>2, CongTimes
    <3>2. QED
      BY <1>0, <1>6, <2>3, <3>1, CongTrans
  <2>4. QED
    BY <1>14, <2>1, <2>3
<1>17. PICK e \in Int : e = g * c /\ Unit(n, e)
  BY <1>7, <1>15, UnitProduct
<1>18. ~Cong(q, Power(e, n - 1), 1)
  <2>1. PICK u \in Int, v \in Int, w \in Int :
          u = Power(g, n - 1) /\ v = Power(c, n - 1) /\ w = u * v
    <3>1. Power(g, n - 1) \in Int /\ Power(c, n - 1) \in Int
      BY <1>6, PowerDef
    <3>2. \A u, v \in Int : u * v \in Int
      OBVIOUS
    <3>3. QED
      BY <3>1, <3>2
  <2>2. Power(e, n - 1) = w
    <3>1. \A k \in Nat : Power(e, k) = Power(g, k) * Power(c, k)
      BY <1>17, PowerMult
    <3>2. QED
      BY <1>6, <2>1, <3>1
  <2>3. Cong(q, u * v, u * 1) /\ u * 1 = u
    <3>1. Cong(q, v, 1)
      BY <1>10, <2>1
    <3>2. Cong(q, u * v, u * 1)
      BY <1>0, <1>6, <3>1, CongTimes
    <3>3. QED
      BY <3>2
  <2>4. Cong(q, u, w)
    BY <1>0, <2>1, <2>3, CongTimes
  <2>5. ASSUME Cong(q, w, 1) PROVE FALSE
    <3>1. Cong(q, u, 1)
      BY <1>0, <1>6, <2>4, <2>5, CongTrans
    <3>2. QED
      BY <1>16, <2>1, <3>1
  <2>6. QED
    BY <2>2, <2>5
<1>19. ~Meets(n, H, 1, c)
  <2>1. Cong(p, Power(1, M), 1) /\ Cong(q, Power(1, M), 1)
    BY <1>0, <1>8
  <2>2. p \in Nat /\ q \in Nat
    BY <1>0
  <2>3. QED
    BY <1>0, <1>1, <1>3, <1>5, <1>6, <1>9, <2>1, <2>2, ApartBySigns
<1>20. ~Meets(n, H, g, e)
  <2>1. ASSUME Meets(n, H, g, e) PROVE FALSE
    <3>1. g = g * 1
      OBVIOUS
    <3>2. Meets(n, H, g * 1, g * c)
      BY <1>17, <2>1, <3>1
    <3>3. Meets(n, H, 1, c)
      BY <1>1, <1>6, <1>15, <3>2, MeetsCancel
    <3>4. QED
      BY <1>19, <3>3
  <2>2. QED
    BY <2>1
<1>21. ASSUME NEW x \in {1, c}, NEW z \in {g, e} PROVE ~Meets(n, H, x, z)
  <2>1. x \in Int /\ z \in Int
    BY <1>6
  <2>2. Cong(q, Power(x, n - 1), 1) /\ ~Cong(q, Power(z, n - 1), 1)
    BY <1>0, <1>6, <1>8, <1>10, <1>16, <1>18
  <2>3. ~Cong(q, Power(x, n - 1), Power(z, n - 1))
    <3>1. PICK u \in Int, v \in Int : u = Power(x, n - 1) /\ v = Power(z, n - 1)
      BY <1>6, <2>1, PowerDef
    <3>2. ASSUME Cong(q, u, v) PROVE Cong(q, v, 1)
      <4>1. Cong(q, v, u)
        BY <1>0, <3>2, CongTimes
      <4>2. QED
        BY <1>0, <1>6, <2>2, <3>1, <4>1, CongTrans
    <3>3. QED
      BY <2>2, <3>1, <3>2
  <2>4. QED
    BY <1>0, <1>1, <1>4, <1>5, <1>6, <2>1, <2>3, ApartByPower
<1>22. Unit(n, 1)
  <2>1. Cong(n, 1 * 1, 1)
    BY <1>6, CongRefl
  <2>2. QED
    BY <2>1 DEF Unit
<1> DEFINE a == [x \in 1..4 |-> IF x = 1 THEN 1 ELSE IF x = 2 THEN c ELSE IF x = 3 THEN g ELSE e]
<1>23. a \in [1..4 -> Int] /\ a[1] = 1 /\ a[2] = c /\ a[3] = g /\ a[4] = e
  BY <1>6
<1> HIDE DEF a
<1>24. ASSUME NEW x \in 1..4, NEW z \in 1..4
       PROVE  Unit(n, a[x]) /\ (x < z => ~Meets(n, H, a[x], a[z]))
  <2>1. x = 1 \/ x = 2 \/ x = 3 \/ x = 4
    OBVIOUS
  <2>2. z = 1 \/ z = 2 \/ z = 3 \/ z = 4
    OBVIOUS
  <2>3. Unit(n, a[x])
    BY <1>7, <1>15, <1>17, <1>22, <1>23, <2>1
  <2>4. ASSUME x < z PROVE ~Meets(n, H, a[x], a[z])
    <3>1. \/ x = 1 /\ z = 2
          \/ (x = 1 \/ x = 2) /\ (z = 3 \/ z = 4)
          \/ x = 3 /\ z = 4
      BY <2>1, <2>2, <2>4
    <3>2. QED
      BY <1>19, <1>20, <1>21, <1>23, <3>1
  <2>5. QED
    BY <2>3, <2>4
<1>25. 4 * Cardinality(H) <= n - 1
  BY <1>1, <1>23, <1>24, Cosets
<1>26. QED
  BY <1>25 DEF H

LEMMA DivisorOf ==
  ASSUME NEW n \in Nat \ {0}, NEW d \in Nat \ {0}, n % d = 0
  PROVE  \E m \in Nat \ {0} : n = d * m
<1>1. PICK k \in Int : n = d * k
  <2>1. n = d * (n \div d) /\ n \div d \in Int
    OBVIOUS
  <2>2. QED
    BY <2>1
<1>2. k <= 0 => d * k <= 0
  OBVIOUS
<1>3. QED
  BY <1>1, <1>2

\* A composite number has a prime divisor, and no other divisor is less.
LEMMA LeastDivisor ==
  ASSUME NEW n \in Nat, n >= 2, ~IsPrime(n)
  PROVE  \E p \in 2..(n - 1), m \in 2..(n - 1) :
           /\ Prime(p) /\ n = p * m
           /\ \A d \in 2..(n - 1) : n % d = 0 => p <= d
<1> DEFINE D == {d \in 2..(n - 1) : n % d = 0}
<1>1. D # {} /\ D \in SUBSET Nat
  <2>1. PICK d \in 2..(n - 1) : n % d = 0
    BY DEF IsPrime
  <2>2. d \in D /\ \A e \in 2..(n - 1) : e \in Nat
    BY <2>1
  <2>3. QED
    BY <2>2
<1>2. PICK p \in D : \A d \in D : p <= d
  <2> HIDE DEF D
  <2> QED BY <1>1, Least
<1>3. p \in 2..(n - 1) /\ p \in Nat \ {0} /\ n % p = 0 /\ n \in Nat \ {0}
  OBVIOUS
<1>4. PICK m \in Nat \ {0} : n = p * m
  BY <1>3, DivisorOf
<1>5. m \in 2..(n - 1)
  <2>1. m # 1
    BY <1>3, <1>4
  <2>2. p * m >= 2 * m
    BY <1>3
  <2>3. QED
    BY <1>4, <2>1, <2>2
<1>6. Prime(p)
  <2>1. ASSUME NEW e \in 2..(p - 1), p % e = 0 PROVE FALSE
    <3>1. e \in Nat \ {0} /\ e < p /\ e \in 2..(n - 1)
      BY <1>3
    <3>2. PICK k \in Nat \ {0} : p = e * k
      BY <1>3, <2>1, <3>1, DivisorOf
    <3>3. n = e * (k * m) /\ k * m \in Int
      BY <1>4, <3>1, <3>2
    <3>4. Divides(e, n)
      BY <3>3 DEF Divides
    <3>5. n % e = 0
      BY <1>3, <3>1, <3>4, Remainder
    <3>6. e \in D
      BY <3>1, <3>5
    <3> HIDE DEF D
    <3>7. QED
      BY <1>2, <1>3, <3>1, <3>6
  <2>2. IsPrime(p)
    BY <2>1 DEF IsPrime
  <2>3. p \in Nat /\ p > 1
    BY <1>3
  <2>4. QED
    BY <2>2, <2>3 DEF Prime
<1>7. QED
  BY <1>2, <1>3, <1>4, <1>5, <1>6

\* What is odd and no multiple of 3 has no divisor from 2 to 4.
LEMMA NoTinyDivisor ==
  ASSUME NEW n \in Nat \ {0}, n % 2 # 0, n % 3 # 0, NEW d \in Nat, d > 1, NEW m \in Int, n = d * m
  PROVE  d >= 5
<1>1. d # 2 /\ d # 3
  BY DivExact
<1>2. ASSUME d = 4 PROVE FALSE
  <2>1. n = 2 * (2 * m) + 0 /\ 2 * m \in Int
    BY <1>2
  <2>2. QED
    BY <2>1
<1>3. QED
  BY <1>1, <1>2

(* At most a quarter of the bases lets a composite without small factors pass. *)
LEMMA QuarterOfBases ==
  ASSUME NEW n \in Nat, n >= 2, ~IsPrime(n), n % 2 # 0, n % 3 # 0
  PROVE  4 * Cardinality(Survivors(n)) <= n - 1
<1>0. n \in Nat \ {0} /\ n > 2 /\ n % 2 = 1
  OBVIOUS
<1>1. PICK p \in 2..(n - 1), m \in 2..(n - 1) :
        /\ Prime(p) /\ n = p * m
        /\ \A d \in 2..(n - 1) : n % d = 0 => p <= d
  BY LeastDivisor
<1>2. p \in Nat \ {0} /\ m \in Nat \ {0} /\ n = m * p /\ p >= 5 /\ m >= 5
  <2>1. p \in Nat \ {0} /\ m \in Nat \ {0} /\ n = m * p /\ p > 1 /\ m > 1
    BY <1>1
  <2>2. QED
    BY <1>0, <1>1, <2>1, NoTinyDivisor
\* The square of the prime divisor f divides n.
<1>3. ASSUME NEW f \in Nat, f >= 5, NEW u \in Int, n = f * (f * u)
      PROVE  4 * Cardinality(Survivors(n)) <= n - 1
  <2>1. u \in Nat \ {0}
    <3>1. u <= 0 => f * (f * u) <= 0
      <4>1. u <= 0 => f * u <= 0
        BY <1>3
      <4>2. PICK g \in Int : g = f * u
        BY <1>3
      <4>3. g <= 0 => f * g <= 0
        BY <1>3
      <4>4. QED
        BY <4>1, <4>2, <4>3
    <3>2. QED
      BY <1>0, <1>3, <3>1
  <2>2. QED
    BY <1>0, <1>3, <2>1, SquareCase
<1>4. CASE Divides(p, m)
  <2>1. PICK u \in Int : m = p * u
    BY <1>4 DEF Divides
  <2>2. QED
    BY <1>1, <1>2, <1>3, <2>1
<1>5. CASE ~Divides(p, m) /\ IsPrime(m)
  <2>1. Prime(m)
    BY <1>2, <1>5 DEF Prime
  <2>2. p # m
    BY <1>2, <1>5, DividesZero
  <2>3. n % m = 0
    <3>1. p \in Int /\ n \in Int
      BY <1>2
    <3>2. Divides(m, n)
      BY <1>2, <3>1 DEF Divides
    <3>3. QED
      BY <1>2, <3>1, <3>2, Remainder
  <2>4. p < m /\ p > 2
    BY <1>1, <1>2, <2>2, <2>3
  <2>5. QED
    BY <1>0, <1>1, <1>2, <2>1, <2>4, TwoCase
<1>6. CASE ~Divides(p, m) /\ ~IsPrime(m)
  <2>1. PICK q \in 2..(m - 1), w \in 2..(m - 1) : Prime(q) /\ m = q * w
    <3>1. m \in Nat /\ m >= 2
      BY <1>2
    <3>2. QED
      BY <1>6, <3>1, LeastDivisor
  <2>2. PICK v \in Int, z \in Int : v = p * w /\ z = p * q
    BY <1>2
  <2>3. n = p * (q * w) /\ n = q * v /\ n = w * z /\ q \in Nat \ {0} /\ w \in Nat \ {0}
    <3>1. p * (q * w) = q * (p * w) /\ p * (q * w) = w * (p * q)
      BY <1>2
    <3>2. QED
      BY <1>1, <1>2, <2>1, <2>2, <3>1
  <2>4. q >= 5 /\ w >= 5
    <3>1. q \in Nat /\ q > 1 /\ w \in Nat /\ w > 1
      BY <1>2, <2>1
    <3>2. q >= 5
      BY <1>0, <2>3, <3>1, NoTinyDivisor
    <3>3. w >= 5
      BY <1>0, <2>3, <3>1, NoTinyDivisor
    <3>4. QED
      BY <3>2, <3>3
  <2>5. CASE Divides(q, p * w)
    <3>1. PICK k \in Int : v = q * k
      BY <2>2, <2>5 DEF Divides
    <3>2. QED
      BY <1>3, <2>3, <2>4, <3>1
  <2>6. CASE ~Divides(q, p * w)
    <3>1. p > 2 /\ q > 2 /\ w > 2 /\ w \in Nat /\ ~Divides(p, q * w)
      BY <1>2, <1>6, <2>1, <2>3, <2>4
    <3>2. QED
      BY <1>0, <1>1, <2>1, <2>3, <2>6, <3>1, ThreeCase
  <2>7. QED
    BY <2>5, <2>6
<1>7. QED
  BY <1>4, <1>5, <1>6

(* The bound of a quarter that forty rounds rely on (_is_probable_prime). *)
THEOREM PrimeTest_Bound ==
  ASSUME NEW n \in Nat, n >= 2, ~IsPrime(n)
  PROVE  4 * Cardinality({a \in BasesFor(n) : IsProbablePrime(n, {a})}) <= n - 1
<1> DEFINE passing == {a \in BasesFor(n) : IsProbablePrime(n, {a})}
<1>1. n \notin SmallPrimes
  BY SmallPrimesAssumption
<1>2. CASE NoSmallFactor(n)
  <2>1. n % 2 # 0 /\ n % 3 # 0
    BY <1>2, SmallPrimesAssumption DEF NoSmallFactor
  <2>2. passing = Survivors(n)
    BY <1>1, <1>2 DEF IsProbablePrime, BasesFor, Survivors
  <2>3. QED
    BY <2>1, <2>2, QuarterOfBases
<1>3. CASE ~NoSmallFactor(n)
  <2>1. passing = {}
    BY <1>1, <1>3 DEF IsProbablePrime
  <2>2. Cardinality(passing) = 0
    BY <2>1, FS_EmptySet
  <2>3. QED
    BY <2>2
<1>4. QED
  BY <1>2, <1>3

(* BasesTellPrimes, on every number that is drawn, for any bound. *)
THEOREM Bases_TellPrimes == Spec => []BasesTellPrimes
<1> DEFINE Numbered == input[1] = "number" => input[2] \in Nat /\ input[2] >= 2
<1>1. Init => Numbered
  BY DEF Init, None
<1>2. Numbered /\ [Next]_input => Numbered'
  <2>1. SUFFICES ASSUME Numbered, [Next]_input PROVE Numbered'
    OBVIOUS
  <2>2. CASE DrawNumber
    BY <2>2, BoundsAssumption DEF DrawNumber
  <2>3. CASE DrawEcc
    BY <2>3 DEF DrawEcc
  <2>4. CASE DrawScalar
    BY <2>4 DEF DrawScalar
  <2>5. CASE DrawRsa
    BY <2>5 DEF DrawRsa
  <2>6. CASE DrawTimes
    BY <2>6 DEF DrawTimes
  <2>7. CASE Again
    BY <2>7 DEF Again, None
  <2>8. CASE UNCHANGED input
    BY <2>1, <2>8
  <2>9. QED
    BY <2>1, <2>2, <2>3, <2>4, <2>5, <2>6, <2>7, <2>8 DEF Next, Draw
<1>3. Numbered => BasesTellPrimes
  <2>1. SUFFICES ASSUME Numbered, input[1] = "number"
                 PROVE  LET n == input[2]
                            passing == {a \in BasesFor(n) : IsProbablePrime(n, {a})}
                        IN  IF IsPrime(n) THEN IsProbablePrime(n, BasesFor(n))
                            ELSE 4 * Cardinality(passing) <= n - 1
    BY DEF BasesTellPrimes
  <2>2. PICK n \in Nat : n = input[2] /\ n >= 2
    BY <2>1
  <2>3. IsPrime(n) => IsProbablePrime(n, BasesFor(n))
    BY <2>2, PrimeTest_Correct
  <2>4. ~IsPrime(n) => 4 * Cardinality({a \in BasesFor(n) : IsProbablePrime(n, {a})}) <= n - 1
    BY <2>2, PrimeTest_Bound
  <2>5. QED
    BY <2>2, <2>3, <2>4
<1>4. QED
  BY <1>1, <1>2, <1>3, PTL DEF Spec
=============================================================================
