--------------------------- MODULE Circuit_proofs ----------------------------
(***************************************************************************)
(* Theorems of the circuit engine and the wave leaves: a leaf obeys its    *)
(* element's law on every sample, for every element, wave and drive; and a *)
(* step that has no answer leaves the history alone.                       *)
(*                                                                         *)
(* The first is a matter of arithmetic, and the arithmetic is that of      *)
(* fractions in lowest terms: equal values are equal pairs.  So it begins  *)
(* with the greatest common divisor, a recursive function: that it exists, *)
(* divides both and is a combination of both is shown by the least number  *)
(* for which it is not so.  From then on a fraction Stands for an          *)
(* unreduced quotient, each operation takes quotients to quotients, and    *)
(* two fractions that stand for proportional quotients are the same.       *)
(***************************************************************************)
EXTENDS MCCircuit, WellFoundedInduction, TLAPS

-----------------------------------------------------------------------------
(* The greatest common divisor                                             *)

\* Every inhabited set of numbers has a least member.
LEMMA LeastNumber ==
  ASSUME NEW S, S \subseteq Nat, S # {}
  PROVE  \E m \in S : \A n \in S : m <= n
<1> DEFINE Less == {p \in Nat \X Nat : p[1] < p[2]}
<1>1. IsWellFoundedOn(Less, Nat)
  BY NatLessThanWellFounded, Zenon DEF OpToRel
<1>2. ASSUME NEW m \in Nat, NEW n \in Nat, n < m
      PROVE  <<n, m>> \in Less
  BY <1>2
<1> HIDE DEF Less
<1>3. \E m \in S : \A n \in S : ~(<<n, m>> \in Less)
  BY <1>1, WFMin, Zenon
<1>4. PICK m \in S : \A n \in S : ~(<<n, m>> \in Less)
  BY <1>3
<1>5. ASSUME NEW n \in S PROVE m <= n
  <2>1. m \in Nat /\ n \in Nat
    OBVIOUS
  <2>2. ~(n < m)
    BY <1>2, <1>4, <2>1
  <2> QED BY <2>1, <2>2
<1> QED BY <1>5

Divides(d, n) == \E k \in Int : n = d * k

\* Bezout's description of a common divisor: it divides both, and is made of both.
IsGcd(x, y, g) ==
  /\ g \in Nat /\ Divides(g, x) /\ Divides(g, y)
  /\ \E u, v \in Int : u * x + v * y = g

LEMMA Antisymmetric ==
  ASSUME NEW a \in Nat, NEW b \in Nat, Divides(a, b), Divides(b, a)
  PROVE  a = b
<1>1. PICK k \in Int : b = a * k
  BY DEF Divides
<1>2. PICK m \in Int : a = b * m
  BY DEF Divides
<1>3. CASE a = 0
  BY <1>1, <1>3
<1>4. CASE a > 0
  <2>1. b # 0
    <3>1. SUFFICES ASSUME b = 0 PROVE FALSE
      OBVIOUS
    <3> QED BY <1>2, <1>4, <3>1
  <2>2. k > 0
    <3>1. SUFFICES ASSUME k <= 0 PROVE FALSE
      OBVIOUS
    <3>2. a * k <= 0
      BY <1>4, <3>1
    <3> QED BY <1>1, <2>1, <3>2
  <2>3. m > 0
    <3>1. SUFFICES ASSUME m <= 0 PROVE FALSE
      OBVIOUS
    <3>2. b * m <= 0
      BY <2>1, <3>1
    <3> QED BY <1>2, <1>4, <3>2
  <2>4. a * k >= a
    BY <1>4, <2>2
  <2>5. b * m >= b
    BY <2>1, <2>3
  <2> QED BY <1>1, <1>2, <2>4, <2>5
<1> QED BY <1>3, <1>4

\* A divisor of two numbers divides what is made of them.
LEMMA DividesCombination ==
  ASSUME NEW d \in Int, NEW x \in Int, NEW y \in Int, NEW u \in Int, NEW v \in Int,
         Divides(d, x), Divides(d, y)
  PROVE  Divides(d, u * x + v * y)
<1>1. PICK k \in Int : x = d * k
  BY DEF Divides
<1>2. PICK m \in Int : y = d * m
  BY DEF Divides
<1>3. u * x + v * y = d * (u * k + v * m)
  <2>1. u * (d * k) = d * (u * k) /\ v * (d * m) = d * (v * m)
    OBVIOUS
  <2>2. d * (u * k) + d * (v * m) = d * (u * k + v * m)
    OBVIOUS
  <2> QED BY <1>1, <1>2, <2>1, <2>2
<1>4. u * k + v * m \in Int
  OBVIOUS
<1> QED BY <1>3, <1>4 DEF Divides

LEMMA GcdUnique ==
  ASSUME NEW x \in Nat, NEW y \in Nat, NEW g, NEW h, IsGcd(x, y, g), IsGcd(x, y, h)
  PROVE  g = h
<1>1. g \in Nat /\ h \in Nat
  BY DEF IsGcd
<1>2. Divides(g, h)
  <2>1. PICK u \in Int, v \in Int : u * x + v * y = h
    BY DEF IsGcd
  <2>2. Divides(g, x) /\ Divides(g, y) /\ g \in Int /\ x \in Int /\ y \in Int
    BY <1>1 DEF IsGcd
  <2>3. Divides(g, u * x + v * y)
    BY <2>2, DividesCombination, Zenon
  <2> QED BY <2>1, <2>3
<1>3. Divides(h, g)
  <2>1. PICK u \in Int, v \in Int : u * x + v * y = g
    BY DEF IsGcd
  <2>2. Divides(h, x) /\ Divides(h, y) /\ h \in Int /\ x \in Int /\ y \in Int
    BY <1>1 DEF IsGcd
  <2>3. Divides(h, u * x + v * y)
    BY <2>2, DividesCombination, Zenon
  <2> QED BY <2>1, <2>3
<1> QED BY <1>1, <1>2, <1>3, Antisymmetric

\* One turn of Euclid's algorithm.
LEMMA GcdTurn ==
  ASSUME NEW x \in Nat, NEW y \in Nat \ {0}, NEW g, IsGcd(y, x % y, g)
  PROVE  IsGcd(x, y, g)
<1> DEFINE q == x \div y
           r == x % y
<1>1. q \in Int /\ r \in Nat /\ x = y * q + r
  OBVIOUS
<1>2. g \in Nat /\ Divides(g, y) /\ Divides(g, r)
  BY DEF IsGcd
<1>3. PICK u \in Int, v \in Int : u * y + v * r = g
  BY DEF IsGcd
<1> HIDE DEF q, r
<1>4. Divides(g, x)
  <2>0. g \in Int /\ y \in Int /\ r \in Int /\ 1 \in Int
    BY <1>1, <1>2
  <2>1. Divides(g, q * y + 1 * r)
    BY <2>0, <1>1, <1>2, DividesCombination, Zenon
  <2>2. q * y + 1 * r = x
    BY <1>1
  <2> QED BY <2>1, <2>2
<1>5. v * x + (u - v * q) * y = g
  <2>1. r = x - y * q
    BY <1>1
  <2>2. v * r = v * x - v * (y * q)
    BY <1>1, <2>1
  <2>3. (u - v * q) * y = u * y - v * (y * q)
    BY <1>1
  <2> QED BY <1>1, <1>3, <2>2, <2>3
<1>6. u - v * q \in Int
  BY <1>1
<1> QED BY <1>2, <1>4, <1>5, <1>6 DEF IsGcd

LEMMA GcdOfZero == ASSUME NEW x \in Nat PROVE IsGcd(x, 0, x)
<1>1. x = x * 1 /\ 0 = x * 0 /\ 1 * x + 0 * 0 = x
  OBVIOUS
<1> QED BY <1>1 DEF IsGcd, Divides

\* Every two numbers have one.
LEMMA GcdExists == \A y \in Nat : \A x \in Nat : \E g : IsGcd(x, y, g)
<1> DEFINE Without == {y \in Nat : ~ \A x \in Nat : \E g : IsGcd(x, y, g)}
<1> SUFFICES ASSUME Without # {} PROVE FALSE
  OBVIOUS
<1>1. PICK y \in Without : \A n \in Without : y <= n
  BY LeastNumber
<1>2. y # 0
  BY <1>1, GcdOfZero
<1>3. ASSUME NEW x \in Nat PROVE \E g : IsGcd(x, y, g)
  <2>1. x % y \in Nat /\ x % y < y
    BY <1>2
  <2>2. PICK g : IsGcd(y, x % y, g)
    BY <1>1, <2>1
  <2> QED BY <1>2, <2>2, GcdTurn
<1> QED BY <1>1, <1>3

\* The recursive function is it.
LEMMA GcdEquation ==
  gcd = [p \in Nat \X Nat |-> IF p[2] = 0 THEN p[1] ELSE gcd[<<p[2], p[1] % p[2]>>]]
<1> DEFINE Is(f) == f = [p \in Nat \X Nat |-> IF p[2] = 0 THEN p[1] ELSE f[<<p[2], p[1] % p[2]>>]]
           G == [p \in Nat \X Nat |-> CHOOSE g : IsGcd(p[1], p[2], g)]
<1>1. ASSUME NEW x \in Nat, NEW y \in Nat PROVE IsGcd(x, y, G[<<x, y>>])
  BY GcdExists
<1>2. ASSUME NEW p \in Nat \X Nat
      PROVE  G[p] = IF p[2] = 0 THEN p[1] ELSE G[<<p[2], p[1] % p[2]>>]
  <2>1. PICK x \in Nat, y \in Nat : p = <<x, y>>
    OBVIOUS
  <2> HIDE DEF G
  <2>2. CASE y = 0
    BY <1>1, <2>1, <2>2, GcdOfZero, GcdUnique
  <2>3. CASE y # 0
    <3>1. x % y \in Nat
      BY <2>3
    <3>2. IsGcd(x, y, G[<<y, x % y>>])
      BY <1>1, <2>3, <3>1, GcdTurn
    <3> QED BY <1>1, <2>1, <2>3, <3>2, GcdUnique
  <2> QED BY <2>2, <2>3
<1>3. Is(G)
  BY <1>2
<1> HIDE DEF Is, G
<1>4. Is(CHOOSE f : Is(f))
  BY <1>3, Zenon
<1>5. gcd = CHOOSE f : Is(f)
  BY DEF gcd, Is
<1>6. Is(gcd)
  BY <1>4, <1>5, Zenon
<1> QED BY <1>6, Zenon DEF Is

LEMMA GcdIs == ASSUME NEW x \in Nat, NEW y \in Nat PROVE IsGcd(x, y, gcd[<<x, y>>])
<1> DEFINE Wrong == {n \in Nat : ~ \A m \in Nat : IsGcd(m, n, gcd[<<m, n>>])}
<1> SUFFICES ASSUME Wrong # {} PROVE FALSE
  OBVIOUS
<1>1. PICK n \in Wrong : \A k \in Wrong : n <= k
  BY LeastNumber
<1>2. ASSUME NEW m \in Nat PROVE IsGcd(m, n, gcd[<<m, n>>])
  <2>0. gcd[<<m, n>>] = IF n = 0 THEN m ELSE gcd[<<n, m % n>>]
    BY GcdEquation
  <2>1. CASE n = 0
    BY <2>0, <2>1, GcdOfZero
  <2>2. CASE n # 0
    <3>1. m % n \in Nat /\ m % n < n
      BY <2>2
    <3>2. IsGcd(n, m % n, gcd[<<n, m % n>>])
      BY <1>1, <3>1
    <3> QED BY <2>0, <2>2, <3>2, GcdTurn
  <2> QED BY <2>1, <2>2
<1> QED BY <1>1, <1>2

-----------------------------------------------------------------------------
(* Fractions in lowest terms                                               *)

Coprime(n, d) == \E u, v \in Int : u * n + v * d = 1

Fractions == {q \in Int \X (Nat \ {0}) : Coprime(q[1], q[2])}

\* q is the quotient of N and D, reduced.
Stands(q, N, D) == q \in Fractions /\ N \in Int /\ D \in Int \ {0} /\ q[1] * D = N * q[2]

LEMMA Cancel ==
  ASSUME NEW x \in Int, NEW y \in Int, NEW c \in Int \ {0}, x * c = y * c
  PROVE  x = y
<1>1. (x - y) * c = 0
  OBVIOUS
<1>2. x - y = 0
  BY <1>1
<1> QED BY <1>2

\* Equal quotients are equal pairs: the denominators divide each other.
LEMMA Lowest ==
  ASSUME NEW p \in Fractions, NEW q \in Fractions, p[1] * q[2] = q[1] * p[2]
  PROVE  p = q
<1> DEFINE a == p[1]
           b == p[2]
           c == q[1]
           d == q[2]
<1>1. /\ a \in Int /\ b \in Nat \ {0} /\ c \in Int /\ d \in Nat \ {0}
      /\ p = <<a, b>> /\ q = <<c, d>> /\ Coprime(a, b) /\ Coprime(c, d)
  BY DEF Fractions
<1>2. a * d = c * b
  OBVIOUS
<1> HIDE DEF a, b, c, d
<1>3. Divides(b, d)
  <2>1. PICK u \in Int, v \in Int : u * a + v * b = 1
    BY <1>1 DEF Coprime
  <2>2. d = u * (a * d) + v * b * d
    <3>1. (u * a + v * b) * d = u * (a * d) + v * b * d
      BY <1>1
    <3> QED BY <1>1, <2>1, <3>1
  <2>3. u * (c * b) + v * b * d = b * (u * c + v * d)
    BY <1>1
  <2>4. u * c + v * d \in Int
    BY <1>1
  <2> QED BY <1>2, <2>2, <2>3, <2>4 DEF Divides
<1>4. Divides(d, b)
  <2>1. PICK u \in Int, v \in Int : u * c + v * d = 1
    BY <1>1 DEF Coprime
  <2>2. b = u * (c * b) + v * d * b
    <3>1. (u * c + v * d) * b = u * (c * b) + v * d * b
      BY <1>1
    <3> QED BY <1>1, <2>1, <3>1
  <2>3. u * (a * d) + v * d * b = d * (u * a + v * b)
    BY <1>1
  <2>4. u * a + v * b \in Int
    BY <1>1
  <2> QED BY <1>2, <2>2, <2>3, <2>4 DEF Divides
<1>5. b = d
  BY <1>1, <1>3, <1>4, Antisymmetric
<1>6. a = c
  BY <1>1, <1>2, <1>5, Cancel
<1> QED BY <1>1, <1>5, <1>6

LEMMA Same ==
  ASSUME NEW p, NEW q, NEW N, NEW D, NEW M, NEW E, Stands(p, N, D), Stands(q, M, E), N * E = M * D
  PROVE  p = q
<1> DEFINE a == p[1]
           b == p[2]
           c == q[1]
           d == q[2]
<1>1. /\ a \in Int /\ b \in Int /\ c \in Int /\ d \in Int
      /\ N \in Int /\ M \in Int /\ D \in Int \ {0} /\ E \in Int \ {0}
      /\ a * D = N * b /\ c * E = M * d /\ p \in Fractions /\ q \in Fractions
  BY DEF Stands, Fractions
<1> HIDE DEF a, b, c, d
<1>2. (a * d) * (D * E) = (c * b) * (D * E)
  <2>1. (a * d) * (D * E) = (a * D) * (d * E)
    BY <1>1
  <2>2. (N * b) * (d * E) = (N * E) * (b * d)
    BY <1>1
  <2>3. (c * b) * (D * E) = (c * E) * (b * D)
    BY <1>1
  <2>4. (M * d) * (b * D) = (M * D) * (b * d)
    BY <1>1
  <2> QED BY <1>1, <2>1, <2>2, <2>3, <2>4
<1>3. D * E \in Int \ {0}
  BY <1>1
<1>4. a * d = c * b
  BY <1>1, <1>2, <1>3, Cancel
<1> QED BY <1>1, <1>4, Lowest DEF a, b, c, d

LEMMA Rescaled ==
  ASSUME NEW q, NEW N, NEW D, Stands(q, N, D), NEW M \in Int, NEW E \in Int \ {0}, N * E = M * D
  PROVE  Stands(q, M, E)
<1> DEFINE a == q[1]
           b == q[2]
<1>1. a \in Int /\ b \in Int /\ N \in Int /\ D \in Int \ {0} /\ a * D = N * b /\ q \in Fractions
  BY DEF Stands, Fractions
<1> HIDE DEF a, b
<1>2. (a * E) * D = (M * b) * D
  <2>1. (a * E) * D = (a * D) * E
    BY <1>1
  <2>2. (N * b) * E = (N * E) * b
    BY <1>1
  <2>3. (M * D) * b = (M * b) * D
    BY <1>1
  <2> QED BY <1>1, <2>1, <2>2, <2>3
<1>3. a * E = M * b
  BY <1>1, <1>2, Cancel
<1> QED BY <1>1, <1>3 DEF Stands, a, b

LEMMA SignedAbs ==
  ASSUME NEW n \in Int
  PROVE  AbsInt(n) \in Nat /\ \E s \in {-1, 1} : AbsInt(n) = s * n
BY DEF AbsInt

\* Rat reduces.
LEMMA RatStands == ASSUME NEW N \in Int, NEW D \in Int \ {0} PROVE Stands(Rat(N, D), N, D)
<1> DEFINE g == gcd[<<AbsInt(N), AbsInt(D)>>]
           s == IF D < 0 THEN -1 ELSE 1
<1>1. IsGcd(AbsInt(N), AbsInt(D), g)
  BY GcdIs, SignedAbs
<1>2. PICK sn \in {-1, 1}, sd \in {-1, 1} : AbsInt(N) = sn * N /\ AbsInt(D) = sd * D
  BY SignedAbs
<1>3. g \in Nat
  BY <1>1 DEF IsGcd
<1>4. PICK k \in Int, m \in Int : AbsInt(N) = g * k /\ AbsInt(D) = g * m
  BY <1>1 DEF IsGcd, Divides
<1>5. PICK u \in Int, v \in Int : u * AbsInt(N) + v * AbsInt(D) = g
  BY <1>1 DEF IsGcd
<1> HIDE DEF g
<1>6. g > 0
  <2> SUFFICES ASSUME g = 0 PROVE FALSE
    BY <1>3
  <2>1. AbsInt(D) = 0
    BY <1>4
  <2> QED BY <2>1 DEF AbsInt
<1> DEFINE n == sn * k
           d == sd * m
<1>7. n \in Int /\ d \in Int /\ N = g * n /\ D = g * d
  <2>1. N = sn * (sn * N) /\ D = sd * (sd * D)
    BY <1>2
  <2>2. sn * (g * k) = g * (sn * k) /\ sd * (g * m) = g * (sd * m)
    BY <1>3
  <2> QED BY <1>2, <1>4, <2>1, <2>2
<1>8. (u * sn) * n + (v * sd) * d = 1
  <2>1. u * (sn * N) + v * (sd * D) = g
    BY <1>2, <1>5
  <2>2. u * (sn * (g * n)) + v * (sd * (g * d)) = ((u * sn) * n + (v * sd) * d) * g
    BY <1>3, <1>7
  <2>3. ((u * sn) * n + (v * sd) * d) * g = 1 * g
    BY <1>3, <1>7, <2>1, <2>2
  <2>4. (u * sn) * n + (v * sd) * d \in Int
    BY <1>7
  <2> QED BY <1>3, <1>6, <2>3, <2>4, Cancel
<1> HIDE DEF n, d
<1>9. N \div g = n /\ D \div g = d
  BY <1>3, <1>6, <1>7
<1>10. Rat(N, D) = <<s * n, s * d>>
  BY <1>9 DEF Rat, g
<1>11. s \in {-1, 1} /\ s * d > 0
  <2>1. CASE D < 0
    <3>1. d < 0
      BY <1>3, <1>6, <1>7, <2>1
    <3> QED BY <1>7, <2>1, <3>1
  <2>2. CASE D > 0
    <3>1. d > 0
      BY <1>3, <1>6, <1>7, <2>2
    <3> QED BY <1>7, <2>2, <3>1
  <2> QED BY <2>1, <2>2
<1> HIDE DEF s
<1>12. Coprime(s * n, s * d)
  <2>1. (s * (u * sn)) * (s * n) + (s * (v * sd)) * (s * d) = (s * s) * ((u * sn) * n + (v * sd) * d)
    BY <1>7, <1>11
  <2>2. s * s = 1
    BY <1>11
  <2>3. s * (u * sn) \in Int /\ s * (v * sd) \in Int
    BY <1>11
  <2> QED BY <1>8, <2>1, <2>2, <2>3 DEF Coprime
<1>13. (s * n) * D = N * (s * d)
  <2>1. (s * n) * (g * d) = (g * n) * (s * d)
    BY <1>3, <1>7, <1>11
  <2> QED BY <1>7, <2>1
<1>14. s * n \in Int /\ s * d \in Nat \ {0}
  BY <1>7, <1>11
<1> QED BY <1>10, <1>12, <1>13, <1>14 DEF Stands, Fractions

\* A fraction is a rational of the model, and the other way round.
LEMMA RationalIs == ASSUME NEW q PROVE IsRational(q) <=> q \in Fractions
<1> DEFINE n == q[1]
           d == q[2]
<1>1. ASSUME NEW x \in Int, NEW y \in Nat \ {0}, gcd[<<AbsInt(x), y>>] = 1 PROVE Coprime(x, y)
  <2>1. AbsInt(x) \in Nat /\ y \in Nat
    BY <1>1, SignedAbs
  <2>2. IsGcd(AbsInt(x), y, 1)
    BY <1>1, <2>1, GcdIs, Zenon
  <2>3. PICK u \in Int, v \in Int : u * AbsInt(x) + v * y = 1
    BY <2>2 DEF IsGcd
  <2>4. PICK s \in {-1, 1} : AbsInt(x) = s * x
    BY SignedAbs
  <2>5. (u * s) * x + v * y = 1 /\ u * s \in Int
    BY <2>3, <2>4
  <2> QED BY <2>5 DEF Coprime
<1>2. ASSUME NEW x \in Int, NEW y \in Nat \ {0}, Coprime(x, y) PROVE gcd[<<AbsInt(x), y>>] = 1
  <2>1. AbsInt(x) \in Nat /\ y \in Nat
    BY SignedAbs
  <2>2. PICK u \in Int, v \in Int : u * x + v * y = 1
    BY <1>2 DEF Coprime
  <2>3. PICK s \in {-1, 1} : AbsInt(x) = s * x
    BY SignedAbs
  <2>4. (u * s) * AbsInt(x) + v * y = 1 /\ u * s \in Int
    <3>1. x = s * AbsInt(x)
      BY <2>3
    <3>2. u * x = (u * s) * AbsInt(x)
      BY <2>1, <3>1
    <3> QED BY <2>2, <3>2
  <2>5. Divides(1, AbsInt(x)) /\ Divides(1, y)
    <3>1. AbsInt(x) = 1 * AbsInt(x) /\ y = 1 * y
      BY <2>1
    <3> QED BY <2>1, <3>1 DEF Divides
  <2>6. \E a, b \in Int : a * AbsInt(x) + b * y = 1
    BY <2>2, <2>4
  <2>7. IsGcd(AbsInt(x), y, 1)
    BY <2>5, <2>6 DEF IsGcd
  <2> QED BY <2>1, <2>7, GcdIs, GcdUnique, Zenon
<1>3. q \in Fractions <=> q = <<n, d>> /\ n \in Int /\ d \in Nat \ {0} /\ Coprime(n, d)
  BY DEF Fractions
<1>4. IsRational(q) <=> q = <<n, d>> /\ n \in Int /\ d \in Nat \ {0} /\ gcd[<<AbsInt(n), d>>] = 1
  BY DEF IsRational
<1> HIDE DEF n, d
<1> QED BY <1>1, <1>2, <1>3, <1>4, Zenon

LEMMA Self ==
  ASSUME NEW q \in Fractions
  PROVE  Stands(q, q[1], q[2]) /\ q[1] \in Int /\ q[2] \in Int \ {0} /\ q[2] \in Nat
BY DEF Stands, Fractions

LEMMA StandsTypes ==
  ASSUME NEW q, NEW N, NEW D, Stands(q, N, D)
  PROVE  /\ q \in Fractions /\ N \in Int /\ D \in Int \ {0}
         /\ q[1] \in Int /\ q[2] \in Nat \ {0} /\ q[1] * D = N * q[2]
BY DEF Stands, Fractions

-----------------------------------------------------------------------------
(* What the operations do to quotients                                     *)

LEMMA NegStands ==
  ASSUME NEW q, NEW N, NEW D, Stands(q, N, D)
  PROVE  Stands(Neg(q), -N, D)
<1>1. q \in Fractions /\ N \in Int /\ D \in Int \ {0} /\ q[1] \in Int /\ q[2] \in Nat \ {0} /\ q[1] * D = N * q[2]
  BY StandsTypes
<1>2. PICK u \in Int, v \in Int : u * q[1] + v * q[2] = 1
  BY DEF Fractions, Stands, Coprime
<1>3. (-u) * (-q[1]) + v * q[2] = 1 /\ -u \in Int
  BY <1>1, <1>2
<1>4. (-q[1]) * D = (-N) * q[2]
  BY <1>1
<1>5. Neg(q) = <<-q[1], q[2]>>
  BY DEF Neg
<1> QED BY <1>1, <1>3, <1>4, <1>5 DEF Stands, Fractions, Coprime

LEMMA AddStands ==
  ASSUME NEW p, NEW q, NEW N, NEW D, NEW M, NEW E, Stands(p, N, D), Stands(q, M, E)
  PROVE  Stands(p ++ q, N * E + M * D, D * E)
<1> DEFINE a == p[1]
           b == p[2]
           c == q[1]
           d == q[2]
           g == gcd[<<b, d>>]
<1>1. /\ N \in Int /\ D \in Int \ {0} /\ a \in Int /\ b \in Nat \ {0} /\ a * D = N * b
      /\ M \in Int /\ E \in Int \ {0} /\ c \in Int /\ d \in Nat \ {0} /\ c * E = M * d
  BY StandsTypes, Zenon
<1>2. p ++ q = Rat(a * (d \div g) + c * (b \div g), b * (d \div g))
  BY DEF ++
<1> HIDE DEF a, b, c, d
<1>3. IsGcd(b, d, g)
  BY <1>1, GcdIs
<1> HIDE DEF g
<1>4. PICK k \in Int, m \in Int : b = g * k /\ d = g * m
  BY <1>3 DEF IsGcd, Divides
<1>5. g \in Nat \ {0} /\ m # 0
  <2>1. g \in Nat
    BY <1>3 DEF IsGcd
  <2>2. g # 0
    BY <1>1, <1>4
  <2>3. m # 0
    <3>1. SUFFICES ASSUME m = 0 PROVE FALSE
      OBVIOUS
    <3> QED BY <1>1, <1>4, <2>1, <3>1
  <2> QED BY <2>1, <2>2, <2>3
<1>6. b \div g = k /\ d \div g = m
  BY <1>4, <1>5
<1>7. b * m \in Int \ {0} /\ a * m + c * k \in Int
  BY <1>1, <1>5
<1>8. Stands(p ++ q, a * m + c * k, b * m)
  BY <1>2, <1>6, <1>7, RatStands
<1>9. (a * m + c * k) * (D * E) = (N * E + M * D) * (b * m)
  <2>1. (a * m + c * k) * (D * E) = (a * D) * (m * E) + (c * E) * (k * D)
    BY <1>1
  <2>2. (N * b) * (m * E) = (N * E) * (b * m)
    BY <1>1
  <2>3. (M * d) * (k * D) = (M * D) * (d * k)
    BY <1>1
  <2>4. d * k = b * m
    BY <1>4, <1>5
  <2>5. (N * E) * (b * m) + (M * D) * (b * m) = (N * E + M * D) * (b * m)
    BY <1>1
  <2> QED BY <1>1, <2>1, <2>2, <2>3, <2>4, <2>5
<1>10. N * E + M * D \in Int /\ D * E \in Int \ {0}
  BY <1>1
<1> QED BY <1>8, <1>9, <1>10, Rescaled

LEMMA MinusStands ==
  ASSUME NEW p, NEW q, NEW N, NEW D, NEW M, NEW E, Stands(p, N, D), Stands(q, M, E)
  PROVE  Stands(p -- q, N * E - M * D, D * E)
<1>1. N \in Int /\ D \in Int /\ M \in Int /\ E \in Int
  BY StandsTypes
<1>2. Stands(p ++ Neg(q), N * E + (-M) * D, D * E)
  BY NegStands, AddStands
<1>3. N * E + (-M) * D = N * E - M * D
  BY <1>1
<1> QED BY <1>2, <1>3 DEF --

\* What reduces a quotient divides both its terms.
LEMMA StandsDivides ==
  ASSUME NEW q, NEW N, NEW D, Stands(q, N, D)
  PROVE  Divides(q[1], N) /\ Divides(q[2], D)
<1> DEFINE a == q[1]
           b == q[2]
<1>1. N \in Int /\ D \in Int /\ a \in Int /\ b \in Int /\ a * D = N * b
  BY StandsTypes
<1>2. PICK u \in Int, v \in Int : u * a + v * b = 1
  BY DEF Stands, Fractions, Coprime
<1> HIDE DEF a, b
<1>3. N = a * (u * N + v * D)
  <2>1. N = (u * a + v * b) * N
    BY <1>1, <1>2
  <2>2. (u * a + v * b) * N = a * (u * N) + v * (N * b)
    BY <1>1
  <2>3. a * (u * N) + v * (a * D) = a * (u * N + v * D)
    BY <1>1
  <2> QED BY <1>1, <2>1, <2>2, <2>3
<1>4. D = b * (u * N + v * D)
  <2>1. D = (u * a + v * b) * D
    BY <1>1, <1>2
  <2>2. (u * a + v * b) * D = u * (a * D) + b * (v * D)
    BY <1>1
  <2>3. u * (N * b) + b * (v * D) = b * (u * N + v * D)
    BY <1>1
  <2> QED BY <1>1, <2>1, <2>2, <2>3
<1>5. u * N + v * D \in Int
  BY <1>1
<1> QED BY <1>3, <1>4, <1>5 DEF Divides, a, b

LEMMA CoprimeDivisors ==
  ASSUME NEW x \in Int, NEW y \in Int, Coprime(x, y), NEW c \in Int, NEW d \in Int, Divides(c, x), Divides(d, y)
  PROVE  Coprime(c, d)
<1>1. PICK u \in Int, v \in Int : u * x + v * y = 1
  BY DEF Coprime
<1>2. PICK k \in Int, m \in Int : x = c * k /\ y = d * m
  BY DEF Divides
<1>3. (u * k) * c + (v * m) * d = 1
  <2>1. u * (c * k) = (u * k) * c /\ v * (d * m) = (v * m) * d
    OBVIOUS
  <2> QED BY <1>1, <1>2, <2>1
<1>4. u * k \in Int /\ v * m \in Int
  OBVIOUS
<1> QED BY <1>3, <1>4 DEF Coprime

LEMMA CoprimeProduct ==
  ASSUME NEW a \in Int, NEW b \in Int, NEW c \in Int, Coprime(a, c), Coprime(b, c)
  PROVE  Coprime(a * b, c)
<1>1. PICK u \in Int, v \in Int : u * a + v * c = 1
  BY DEF Coprime
<1>2. PICK w \in Int, z \in Int : w * b + z * c = 1
  BY DEF Coprime
<1>3. (u * w) * (a * b) + (u * a * z + v) * c = 1
  <2>1. (u * a) * (w * b + z * c) = (u * w) * (a * b) + (u * a * z) * c
    OBVIOUS
  <2>2. (u * w) * (a * b) + (u * a * z) * c = u * a
    BY <1>2, <2>1
  <2>3. (u * a * z + v) * c = (u * a * z) * c + v * c
    OBVIOUS
  <2> QED BY <1>1, <2>2, <2>3
<1>4. u * w \in Int /\ u * a * z + v \in Int
  OBVIOUS
<1> QED BY <1>3, <1>4 DEF Coprime

LEMMA CoprimeTurned == ASSUME NEW x, NEW y, x \in Int, y \in Int, Coprime(x, y) PROVE Coprime(y, x)
<1>1. PICK u \in Int, v \in Int : u * x + v * y = 1
  BY DEF Coprime
<1>2. v * y + u * x = 1
  BY <1>1
<1> QED BY <1>2 DEF Coprime

\* ** reduces crosswise, and nothing is left to reduce in the product.
LEMMA MulStands ==
  ASSUME NEW p, NEW q, NEW N, NEW D, NEW M, NEW E, Stands(p, N, D), Stands(q, M, E)
  PROVE  Stands(p ** q, N * M, D * E)
<1> DEFINE a == p[1]
           b == p[2]
           c == q[1]
           d == q[2]
           r == Rat(a, d)
           s == Rat(c, b)
           r1 == r[1]
           r2 == r[2]
           s1 == s[1]
           s2 == s[2]
<1>1. /\ N \in Int /\ D \in Int \ {0} /\ a \in Int /\ b \in Nat \ {0} /\ a * D = N * b
      /\ M \in Int /\ E \in Int \ {0} /\ c \in Int /\ d \in Nat \ {0} /\ c * E = M * d
  BY StandsTypes, Zenon
<1>2. Coprime(a, b) /\ Coprime(c, d)
  BY DEF Stands, Fractions
<1>3. p ** q = <<r1 * s1, r2 * s2>>
  BY DEF **
<1> HIDE DEF a, b, c, d
<1>4. Stands(r, a, d) /\ Stands(s, c, b)
  BY <1>1, RatStands
<1> HIDE DEF r, s
<1>5. r1 \in Int /\ r2 \in Nat \ {0} /\ s1 \in Int /\ s2 \in Nat \ {0} /\ r1 * d = a * r2 /\ s1 * b = c * s2
  BY <1>4, StandsTypes, Zenon
<1>6. Divides(r1, a) /\ Divides(r2, d) /\ Divides(s1, c) /\ Divides(s2, b)
  BY <1>4, StandsDivides, Zenon
<1>7. Coprime(r1, r2) /\ Coprime(s1, s2)
  BY <1>4 DEF Stands, Fractions
<1> HIDE DEF r1, r2, s1, s2
<1>8. a \in Int /\ b \in Int /\ c \in Int /\ d \in Int /\ r1 \in Int /\ r2 \in Int /\ s1 \in Int /\ s2 \in Int
  BY <1>1, <1>5
<1>9. Coprime(r1, s2) /\ Coprime(s1, r2)
  BY <1>2, <1>6, <1>8, CoprimeDivisors, Zenon
<1>10. Coprime(r1 * s1, r2) /\ Coprime(r1 * s1, s2)
  BY <1>7, <1>8, <1>9, CoprimeProduct
<1>11. r1 * s1 \in Int /\ r2 * s2 \in Int
  BY <1>8
<1>12. Coprime(r2 * s2, r1 * s1)
  BY <1>8, <1>10, <1>11, CoprimeProduct, CoprimeTurned
<1>13. Coprime(r1 * s1, r2 * s2)
  BY <1>11, <1>12, CoprimeTurned
<1>14. (r1 * s1) * (D * E) = (N * M) * (r2 * s2)
  <2>1. (r1 * d) * (s1 * b) * (D * E) = (a * r2) * (c * s2) * (D * E)
    BY <1>5
  <2>2. (a * r2) * (c * s2) * (D * E) = (a * D) * (c * E) * (r2 * s2)
    BY <1>1, <1>8
  <2>3. (N * b) * (M * d) * (r2 * s2) = (N * M) * (r2 * s2) * (b * d)
    BY <1>1, <1>8
  <2>4. (r1 * d) * (s1 * b) * (D * E) = (r1 * s1) * (D * E) * (b * d)
    BY <1>1, <1>8
  <2>5. (r1 * s1) * (D * E) * (b * d) = (N * M) * (r2 * s2) * (b * d)
    BY <1>1, <2>1, <2>2, <2>3, <2>4
  <2>6. (r1 * s1) * (D * E) \in Int /\ (N * M) * (r2 * s2) \in Int /\ b * d \in Int \ {0}
    BY <1>1, <1>8
  <2> QED BY <2>5, <2>6, Cancel
<1>15. r2 * s2 \in Nat \ {0} /\ N * M \in Int /\ D * E \in Int \ {0}
  BY <1>1, <1>5
<1> QED BY <1>3, <1>11, <1>13, <1>14, <1>15 DEF Stands, Fractions

LEMMA QuotStands ==
  ASSUME NEW p, NEW q, NEW N, NEW D, NEW M, NEW E, Stands(p, N, D), Stands(q, M, E), M # 0
  PROVE  Stands(p // q, N * E, D * M)
<1>1. M \in Int /\ E \in Int \ {0} /\ q[1] \in Int /\ q[2] \in Nat \ {0} /\ q[1] * E = M * q[2]
  BY StandsTypes
<1>2. q[1] # 0
  BY <1>1
<1>3. Stands(Rat(q[2], q[1]), q[2], q[1])
  BY <1>1, <1>2, RatStands
<1>4. q[2] * M = E * q[1]
  BY <1>1
<1>5. Stands(Rat(q[2], q[1]), E, M)
  BY <1>1, <1>3, <1>4, Rescaled
<1> QED BY <1>5, MulStands DEF //

-----------------------------------------------------------------------------
(* The laws of the operations                                              *)

LEMMA ZeroStands == Zero \in Fractions /\ Stands(Zero, 0, 1)
<1>1. 0 * 0 + 1 * 1 = 1
  OBVIOUS
<1> QED BY <1>1 DEF Zero, Stands, Fractions, Coprime

LEMMA TwoStands == Stands(<<2, 1>>, 2, 1)
<1>1. 0 * 2 + 1 * 1 = 1
  OBVIOUS
<1> QED BY <1>1 DEF Stands, Fractions, Coprime

LEMMA Closed ==
  ASSUME NEW p \in Fractions, NEW q \in Fractions
  PROVE  p ++ q \in Fractions /\ p -- q \in Fractions /\ p ** q \in Fractions /\ Neg(p) \in Fractions
<1>1. Stands(p, p[1], p[2]) /\ Stands(q, q[1], q[2])
  BY Self
<1>2. \A r, N, D : Stands(r, N, D) => r \in Fractions
  BY DEF Stands
<1> QED BY <1>1, <1>2, AddStands, MinusStands, MulStands, NegStands, Zenon

LEMMA PlusCommutes == ASSUME NEW p \in Fractions, NEW q \in Fractions PROVE p ++ q = q ++ p
<1>1. PICK a \in Int, b \in Int \ {0} : Stands(p, a, b)
  BY Self
<1>2. PICK c \in Int, d \in Int \ {0} : Stands(q, c, d)
  BY Self
<1>3. Stands(p ++ q, a * d + c * b, b * d) /\ Stands(q ++ p, c * b + a * d, d * b)
  BY <1>1, <1>2, AddStands
<1>4. (a * d + c * b) * (d * b) = (c * b + a * d) * (b * d)
  OBVIOUS
<1> QED BY <1>3, <1>4, Same

LEMMA ZeroPlus == ASSUME NEW q \in Fractions PROVE Zero ++ q = q
<1>1. PICK c \in Int, d \in Int \ {0} : Stands(q, c, d)
  BY Self
<1>2. Stands(Zero ++ q, 0 * d + c * 1, 1 * d)
  BY <1>1, ZeroStands, AddStands
<1>3. (0 * d + c * 1) * d = c * (1 * d)
  OBVIOUS
<1> QED BY <1>1, <1>2, <1>3, Same

LEMMA Cancels == ASSUME NEW q \in Fractions PROVE q ++ Neg(q) = Zero /\ q -- q = Zero
<1>1. PICK c \in Int, d \in Int \ {0} : Stands(q, c, d)
  BY Self
<1>2. Stands(q ++ Neg(q), c * d + (-c) * d, d * d)
  BY <1>1, NegStands, AddStands
<1>3. (c * d + (-c) * d) * 1 = 0 * (d * d)
  OBVIOUS
<1>4. q ++ Neg(q) = Zero
  BY <1>2, <1>3, ZeroStands, Same
<1> QED BY <1>4 DEF --

LEMMA ZeroTimes == ASSUME NEW q \in Fractions PROVE q ** Zero = Zero
<1>1. PICK c \in Int, d \in Int \ {0} : Stands(q, c, d)
  BY Self
<1>2. Stands(q ** Zero, c * 0, d * 1)
  BY <1>1, ZeroStands, MulStands
<1>3. (c * 0) * 1 = 0 * (d * 1)
  OBVIOUS
<1> QED BY <1>2, <1>3, ZeroStands, Same

LEMMA ZeroOver ==
  ASSUME NEW q, NEW N, NEW D, Stands(q, N, D), N # 0 PROVE Zero // q = Zero
<1>1. Stands(Zero // q, 0 * D, 1 * N) /\ N \in Int /\ D \in Int
  BY ZeroStands, QuotStands, StandsTypes
<1>2. (0 * D) * 1 = 0 * (1 * N)
  BY <1>1
<1> QED BY <1>1, <1>2, ZeroStands, Same

LEMMA Distributes ==
  ASSUME NEW r \in Fractions, NEW p \in Fractions, NEW q \in Fractions
  PROVE  (r ** p) ++ (r ** q) = r ** (p ++ q) /\ (r ** p) -- (r ** q) = r ** (p -- q)
<1>1. PICK a \in Int, b \in Int \ {0} : Stands(p, a, b)
  BY Self
<1>2. PICK c \in Int, d \in Int \ {0} : Stands(q, c, d)
  BY Self
<1>3. PICK e \in Int, f \in Int \ {0} : Stands(r, e, f)
  BY Self
<1>4. Stands(r ** p, e * a, f * b) /\ Stands(r ** q, e * c, f * d)
  BY <1>1, <1>2, <1>3, MulStands
<1>5. /\ Stands((r ** p) ++ (r ** q), (e * a) * (f * d) + (e * c) * (f * b), (f * b) * (f * d))
      /\ Stands((r ** p) -- (r ** q), (e * a) * (f * d) - (e * c) * (f * b), (f * b) * (f * d))
  BY <1>4, AddStands, MinusStands
<1>6. Stands(p ++ q, a * d + c * b, b * d) /\ Stands(p -- q, a * d - c * b, b * d)
  BY <1>1, <1>2, AddStands, MinusStands
<1>7. Stands(r ** (p ++ q), e * (a * d + c * b), f * (b * d)) /\ Stands(r ** (p -- q), e * (a * d - c * b), f * (b * d))
  BY <1>3, <1>6, MulStands
<1>8. ((e * a) * (f * d) + (e * c) * (f * b)) * (f * (b * d)) = (e * (a * d + c * b)) * ((f * b) * (f * d))
  OBVIOUS
<1>9. ((e * a) * (f * d) - (e * c) * (f * b)) * (f * (b * d)) = (e * (a * d - c * b)) * ((f * b) * (f * d))
  OBVIOUS
<1> QED BY <1>5, <1>7, <1>8, <1>9, Same

\* The two rearrangements the reactive leaves need.
LEMMA TakenBack ==
  ASSUME NEW p \in Fractions, NEW q \in Fractions, NEW r \in Fractions
  PROVE  ((p ++ q) ++ r) -- p = r ++ q /\ (Neg(p ++ q) ++ r) ++ p = r -- q
<1>1. PICK a \in Int, b \in Int \ {0} : Stands(p, a, b)
  BY Self
<1>2. PICK c \in Int, d \in Int \ {0} : Stands(q, c, d)
  BY Self
<1>3. PICK e \in Int, f \in Int \ {0} : Stands(r, e, f)
  BY Self
<1>4. Stands(p ++ q, a * d + c * b, b * d)
  BY <1>1, <1>2, AddStands
<1>5. Stands(Neg(p ++ q), -(a * d + c * b), b * d)
  BY <1>4, NegStands
<1>6. Stands((p ++ q) ++ r, (a * d + c * b) * f + e * (b * d), (b * d) * f)
  BY <1>3, <1>4, AddStands
<1>7. Stands(Neg(p ++ q) ++ r, (-(a * d + c * b)) * f + e * (b * d), (b * d) * f)
  BY <1>3, <1>5, AddStands
<1>8. Stands(((p ++ q) ++ r) -- p, ((a * d + c * b) * f + e * (b * d)) * b - a * ((b * d) * f), ((b * d) * f) * b)
  BY <1>1, <1>6, MinusStands
<1>9. Stands((Neg(p ++ q) ++ r) ++ p, ((-(a * d + c * b)) * f + e * (b * d)) * b + a * ((b * d) * f), ((b * d) * f) * b)
  BY <1>1, <1>7, AddStands
<1>10. Stands(r ++ q, e * d + c * f, f * d) /\ Stands(r -- q, e * d - c * f, f * d)
  BY <1>2, <1>3, AddStands, MinusStands
<1>11. (((a * d + c * b) * f + e * (b * d)) * b - a * ((b * d) * f)) * (f * d) = (e * d + c * f) * (((b * d) * f) * b)
  OBVIOUS
<1>12. (((-(a * d + c * b)) * f + e * (b * d)) * b + a * ((b * d) * f)) * (f * d) = (e * d - c * f) * (((b * d) * f) * b)
  OBVIOUS
<1> QED BY <1>8, <1>9, <1>10, <1>11, <1>12, Same

LEMMA Undone ==
  ASSUME NEW r, NEW g, NEW N, NEW D, Stands(r, N, D), Stands(g, D, N), NEW q \in Fractions
  PROVE  g ** (r ** q) = q
<1>1. PICK c \in Int, d \in Int \ {0} : Stands(q, c, d)
  BY Self
<1>2. N \in Int /\ D \in Int
  BY StandsTypes
<1>3. Stands(r ** q, N * c, D * d)
  BY <1>1, MulStands
<1>4. Stands(g ** (r ** q), D * (N * c), N * (D * d))
  BY <1>3, MulStands
<1>5. (D * (N * c)) * d = c * (N * (D * d))
  BY <1>2
<1> QED BY <1>1, <1>4, <1>5, Same

-----------------------------------------------------------------------------
(* The leaves                                                              *)

\* What the two waves of a port say of its voltage and its current: each
\* wave is the voltage with or less the drop over the port resistance.
LEMMA Port ==
  ASSUME NEW a \in Fractions, NEW b \in Fractions, NEW R, NEW N, NEW D, Stands(R, N, D), N # 0
  PROVE  /\ WaveToVoltage(a, b) \in Fractions /\ WaveToCurrent(a, b, R) \in Fractions
         /\ WaveToVoltage(a, b) = b ++ (R ** WaveToCurrent(a, b, R))
         /\ a = WaveToVoltage(a, b) ++ (R ** WaveToCurrent(a, b, R))
<1> DEFINE v == WaveToVoltage(a, b)
           i == WaveToCurrent(a, b, R)
<1>1. PICK x \in Int, X \in Int \ {0} : Stands(a, x, X)
  BY Self
<1>2. PICK y \in Int, Y \in Int \ {0} : Stands(b, y, Y)
  BY Self
<1>3. N \in Int /\ D \in Int \ {0}
  BY StandsTypes
<1>4. Stands(v, (x * Y + y * X) * 1, (X * Y) * 2)
  <2>1. Stands(a ++ b, x * Y + y * X, X * Y)
    BY <1>1, <1>2, AddStands
  <2>2. 2 # 0
    OBVIOUS
  <2>3. Stands((a ++ b) // <<2, 1>>, (x * Y + y * X) * 1, (X * Y) * 2)
    BY <2>1, <2>2, TwoStands, QuotStands, Zenon
  <2> QED BY <2>3 DEF WaveToVoltage
<1>5. Stands(i, (x * Y - y * X) * (1 * D), (X * Y) * (2 * N))
  <2>1. Stands(a -- b, x * Y - y * X, X * Y)
    BY <1>1, <1>2, MinusStands
  <2>2. Stands(<<2, 1>> ** R, 2 * N, 1 * D)
    BY TwoStands, MulStands
  <2>3. 2 * N # 0
    BY <1>3
  <2> QED BY <2>1, <2>2, <2>3, QuotStands DEF WaveToCurrent
<1> HIDE DEF v, i
<1>6. Stands(R ** i, x * Y - y * X, 2 * (X * Y))
  <2>1. Stands(R ** i, N * ((x * Y - y * X) * (1 * D)), D * ((X * Y) * (2 * N)))
    BY <1>5, MulStands
  <2>2. (N * ((x * Y - y * X) * (1 * D))) * (2 * (X * Y)) = (x * Y - y * X) * (D * ((X * Y) * (2 * N)))
    BY <1>3
  <2>3. x * Y - y * X \in Int /\ 2 * (X * Y) \in Int \ {0}
    OBVIOUS
  <2> QED BY <2>1, <2>2, <2>3, Rescaled
<1>7. v = b ++ (R ** i)
  <2>1. Stands(b ++ (R ** i), y * (2 * (X * Y)) + (x * Y - y * X) * Y, Y * (2 * (X * Y)))
    BY <1>2, <1>6, AddStands
  <2>2. ((x * Y + y * X) * 1) * (Y * (2 * (X * Y))) = (y * (2 * (X * Y)) + (x * Y - y * X) * Y) * ((X * Y) * 2)
    OBVIOUS
  <2> QED BY <1>4, <2>1, <2>2, Same
<1>8. a = v ++ (R ** i)
  <2>1. Stands(v ++ (R ** i), ((x * Y + y * X) * 1) * (2 * (X * Y)) + (x * Y - y * X) * ((X * Y) * 2),
                              ((X * Y) * 2) * (2 * (X * Y)))
    BY <1>4, <1>6, AddStands
  <2>2. x * (((X * Y) * 2) * (2 * (X * Y)))
          = (((x * Y + y * X) * 1) * (2 * (X * Y)) + (x * Y - y * X) * ((X * Y) * 2)) * X
    OBVIOUS
  <2> QED BY <1>1, <2>1, <2>2, Same
<1>9. v \in Fractions /\ i \in Fractions
  BY <1>4, <1>5, StandsTypes
<1> QED BY <1>7, <1>8, <1>9 DEF v, i

\* A leaf as the constructors build it.
IsLeaf(l) ==
  /\ l.kind \in {"Resistor", "ResistiveTermination", "ResistiveVoltageSource", "ResistiveCurrentSource",
                 "Capacitor", "Inductor", "ShortCircuit", "OpenCircuit"}
  /\ IsRational(l.value) /\ l.value[1] > 0 /\ IsRational(l.dt) /\ l.dt[1] > 0

PerStep(l) == (<<2, 1>> ** l.value) // l.dt

LEMMA PortResistanceIs ==
  ASSUME NEW l, IsLeaf(l)
  PROVE  /\ \E N \in Int \ {0}, D \in Int \ {0} :
              /\ Stands(PortResistance(l), N, D)
              /\ l.kind = "Capacitor" => Stands(PerStep(l), D, N)
         /\ l.kind = "Inductor" => PerStep(l) = PortResistance(l)
         /\ l.kind \notin {"Capacitor", "Inductor"} => PortResistance(l) = l.value
<1>1. l.value \in Fractions /\ l.dt \in Fractions /\ l.value[1] > 0 /\ l.dt[1] > 0
  BY RationalIs, Zenon DEF IsLeaf
<1>2. PICK c \in Int, d \in Int \ {0} : Stands(l.value, c, d) /\ c # 0
  BY <1>1, Self
<1>3. PICK t \in Int, u \in Int \ {0} : Stands(l.dt, t, u) /\ t # 0
  BY <1>1, Self
<1>4. Stands(<<2, 1>> ** l.value, 2 * c, 1 * d) /\ 2 * c # 0
  <2>1. Stands(<<2, 1>> ** l.value, 2 * c, 1 * d)
    BY <1>2, TwoStands, MulStands
  <2> QED BY <1>2, <2>1
<1>5. Stands(PerStep(l), (2 * c) * u, (1 * d) * t)
  BY <1>3, <1>4, QuotStands DEF PerStep
<1>6. CASE l.kind = "Capacitor"
  <2>1. PortResistance(l) = l.dt // (<<2, 1>> ** l.value)
    BY <1>6 DEF PortResistance
  <2>2. Stands(PortResistance(l), t * (1 * d), u * (2 * c))
    BY <1>3, <1>4, <2>1, QuotStands
  <2>3. /\ t * (1 * d) = (1 * d) * t /\ u * (2 * c) = (2 * c) * u
        /\ t * (1 * d) \in Int \ {0} /\ u * (2 * c) \in Int \ {0}
    BY <1>2, <1>3
  <2>4. \E N \in Int \ {0}, D \in Int \ {0} : Stands(PortResistance(l), N, D) /\ Stands(PerStep(l), D, N)
    <3> DEFINE N == t * (1 * d)
               D == u * (2 * c)
    <3>1. N \in Int \ {0} /\ D \in Int \ {0} /\ Stands(PortResistance(l), N, D) /\ Stands(PerStep(l), D, N)
      BY <1>5, <2>2, <2>3
    <3> HIDE DEF N, D
    <3> QED BY <3>1
  <2> QED BY <1>6, <2>4
<1>7. CASE l.kind = "Inductor"
  <2>1. PortResistance(l) = PerStep(l)
    BY <1>7 DEF PortResistance, PerStep
  <2>2. (2 * c) * u \in Int \ {0} /\ (1 * d) * t \in Int \ {0}
    <3>1. c * u # 0 /\ d * t # 0
      BY <1>2, <1>3
    <3>2. (2 * c) * u = 2 * (c * u) /\ (1 * d) * t = d * t
      OBVIOUS
    <3> QED BY <3>1, <3>2
  <2> QED BY <1>5, <1>7, <2>1, <2>2
<1>8. CASE l.kind \notin {"Capacitor", "Inductor"}
  <2>1. PortResistance(l) = l.value
    BY <1>8 DEF PortResistance
  <2> QED BY <1>2, <1>8, <2>1
<1> QED BY <1>6, <1>7, <1>8

\* A reactive leaf keeps the wave its port sent it: voltage and drop together.
Carries(l, kept, port) ==
  l.kind \in {"Capacitor", "Inductor"} => kept = port.v ++ (PortResistance(l) ** port.i)

\* The wave a leaf of either family answers with.
AnswerWave(l, kept, a, d) ==
  IF Adaptable(l) THEN Reflected(l, kept, d) ELSE Reflected(l, Incident(l, kept, a), d)

PortAt(l, a, b) == [v |-> WaveToVoltage(a, b), i |-> WaveToCurrent(a, b, PortResistance(l))]

LEMMA SampleObeys ==
  ASSUME NEW l, IsLeaf(l), NEW kept \in Fractions, NEW d \in Fractions, NEW a \in Fractions,
         NEW before, before.v \in Fractions, before.i \in Fractions, Carries(l, kept, before)
  PROVE  LET after == PortAt(l, a, AnswerWave(l, kept, a, d))
         IN  /\ after.v \in Fractions /\ after.i \in Fractions
             /\ Incident(l, kept, a) \in Fractions
             /\ Carries(l, Incident(l, kept, a), after)
             /\ ObeysItsElement(l, before, after, d)
<1> DEFINE R == PortResistance(l)
           G == PerStep(l)
           b == AnswerWave(l, kept, a, d)
           v == WaveToVoltage(a, b)
           i == WaveToCurrent(a, b, R)
           drop == R ** i
           after == PortAt(l, a, b)
           in == Incident(l, kept, a)
           v0 == before.v
           i0 == before.i
<1>1. PICK N \in Int \ {0}, D \in Int \ {0} : Stands(R, N, D) /\ (l.kind = "Capacitor" => Stands(G, D, N))
  BY PortResistanceIs, Zenon
<1>2. l.kind = "Inductor" => G = R
  BY PortResistanceIs
<1>3. l.kind \notin {"Capacitor", "Inductor"} => R = l.value
  BY PortResistanceIs
<1>4. R \in Fractions
  BY <1>1, StandsTypes, Zenon
<1>5. N # 0
  BY <1>1
<1>6. after.v = v /\ after.i = i
  BY DEF PortAt
<1>7. l.kind \in {"Capacitor", "Inductor"} => kept = v0 ++ (R ** i0)
  BY DEF Carries
<1>8. v0 \in Fractions /\ i0 \in Fractions
  OBVIOUS
<1>9. ObeysItsElement(l, before, after, d) <=>
        CASE l.kind \in {"Resistor", "ResistiveTermination"} -> v = l.value ** i
          [] l.kind = "ResistiveVoltageSource" -> v = d ++ (l.value ** i)
          [] l.kind = "ResistiveCurrentSource" -> v = l.value ** (i ++ d)
          [] l.kind = "Capacitor" -> (i ++ i0) = G ** (v -- v0)
          [] l.kind = "Inductor" -> (v ++ v0) = G ** (i -- i0)
          [] l.kind = "ShortCircuit" -> v = Zero
          [] l.kind = "OpenCircuit" -> i = Zero
  BY <1>6, Zenon DEF ObeysItsElement, PerStep
<1>10. b = CASE l.kind \in {"Resistor", "ResistiveTermination"} -> Zero
             [] l.kind = "ResistiveVoltageSource" -> d
             [] l.kind = "ResistiveCurrentSource" -> R ** d
             [] l.kind = "Capacitor" -> kept
             [] l.kind = "Inductor" -> Neg(kept)
             [] l.kind = "ShortCircuit" -> Neg(a)
             [] l.kind = "OpenCircuit" -> a
  BY DEF IsLeaf, AnswerWave, Reflected, Adaptable, Incident
<1>11. in = IF l.kind \in {"Capacitor", "Inductor", "ShortCircuit", "OpenCircuit"} THEN a ELSE kept
  BY DEF Incident
<1>12. Carries(l, in, after) <=> (l.kind \in {"Capacitor", "Inductor"} => in = v ++ drop)
  BY <1>6, Zenon DEF Carries
<1>13. l.kind \in {"Resistor", "ResistiveTermination", "ResistiveVoltageSource", "ResistiveCurrentSource",
                   "Capacitor", "Inductor", "ShortCircuit", "OpenCircuit"}
  BY DEF IsLeaf
<1> HIDE DEF R, G, b, after, in, v0, i0
<1>14. b \in Fractions
  <2>1. Zero \in Fractions /\ R ** d \in Fractions /\ Neg(kept) \in Fractions /\ Neg(a) \in Fractions
    BY <1>4, Closed, ZeroStands
  <2> QED BY <1>10, <1>13, <2>1
<1>15. v \in Fractions /\ i \in Fractions /\ v = b ++ drop /\ a = v ++ drop
  BY <1>1, <1>5, <1>14, Port
<1>16. drop \in Fractions
  BY <1>4, <1>15, Closed
<1>17. v = WaveToVoltage(a, b) /\ i = WaveToCurrent(a, b, R)
  OBVIOUS
<1>18. drop = R ** i
  OBVIOUS
<1> HIDE DEF v, i, drop
<1>19. in \in Fractions
  BY <1>11
<1>20. Carries(l, in, after)
  BY <1>11, <1>12, <1>15
<1>21. ObeysItsElement(l, before, after, d)
  <2>1. CASE l.kind \in {"Resistor", "ResistiveTermination"}
    <3>1. v = drop
      BY <1>10, <1>15, <1>16, <2>1, ZeroPlus
    <3> QED BY <1>3, <1>9, <1>18, <2>1, <3>1
  <2>2. CASE l.kind = "ResistiveVoltageSource"
    BY <1>3, <1>9, <1>10, <1>15, <1>18, <2>2
  <2>3. CASE l.kind = "ResistiveCurrentSource"
    <3>1. v = R ** (d ++ i)
      BY <1>4, <1>10, <1>15, <1>18, <2>3, Distributes
    <3>2. d ++ i = i ++ d
      BY <1>15, PlusCommutes
    <3> QED BY <1>3, <1>9, <2>3, <3>1, <3>2
  <2>4. CASE l.kind = "Capacitor"
    <3>1. v = (v0 ++ (R ** i0)) ++ drop /\ R ** i0 \in Fractions
      BY <1>4, <1>7, <1>8, <1>10, <1>15, <2>4, Closed
    <3>2. v -- v0 = drop ++ (R ** i0)
      BY <1>8, <1>16, <3>1, TakenBack
    <3>3. v -- v0 = R ** (i ++ i0)
      BY <1>4, <1>8, <1>15, <1>18, <3>2, Distributes
    <3>4. i ++ i0 \in Fractions
      BY <1>8, <1>15, Closed
    <3>5. G ** (R ** (i ++ i0)) = i ++ i0
      BY <1>1, <2>4, <3>4, Undone, Zenon
    <3> QED BY <1>9, <2>4, <3>3, <3>5
  <2>5. CASE l.kind = "Inductor"
    <3>1. v = Neg(v0 ++ (R ** i0)) ++ drop /\ R ** i0 \in Fractions
      BY <1>4, <1>7, <1>8, <1>10, <1>15, <2>5, Closed
    <3>2. v ++ v0 = drop -- (R ** i0)
      BY <1>8, <1>16, <3>1, TakenBack
    <3>3. v ++ v0 = R ** (i -- i0)
      BY <1>4, <1>8, <1>15, <1>18, <3>2, Distributes
    <3> QED BY <1>2, <1>9, <2>5, <3>3
  <2>6. CASE l.kind = "ShortCircuit"
    <3>1. v = (a ++ Neg(a)) // <<2, 1>>
      BY <1>10, <1>17, <2>6 DEF WaveToVoltage
    <3>2. 2 # 0
      OBVIOUS
    <3>3. v = Zero
      BY <3>1, <3>2, Cancels, TwoStands, ZeroOver
    <3> QED BY <1>9, <2>6, <3>3
  <2>7. CASE l.kind = "OpenCircuit"
    <3>1. i = (a -- a) // (<<2, 1>> ** R)
      BY <1>10, <1>17, <2>7 DEF WaveToCurrent
    <3>2. Stands(<<2, 1>> ** R, 2 * N, 1 * D)
      BY <1>1, TwoStands, MulStands
    <3>3. 2 * N # 0
      BY <1>1
    <3>4. i = Zero
      BY <3>1, <3>2, <3>3, Cancels, ZeroOver
    <3> QED BY <1>9, <2>7, <3>4
  <2> QED BY <1>13, <2>1, <2>2, <2>3, <2>4, <2>5, <2>6, <2>7
<1>22. after.v \in Fractions /\ after.i \in Fractions
  BY <1>6, <1>15
<1> QED BY <1>19, <1>20, <1>21, <1>22 DEF after, b, in

LeafInv ==
  /\ leaf \in Elements /\ samples \in 0..MaxSamples
  /\ drive \in Fractions /\ state \in Fractions /\ now.v \in Fractions /\ now.i \in Fractions
  /\ Carries(leaf, state, now)

LEMMA LeafConstantsGive ==
  ASSUME LeafConstants
  PROVE  /\ \A l \in Elements : IsLeaf(l)
         /\ \A w \in Waves \cup LeafDrives : w \in Fractions
BY RationalIs, Zenon DEF LeafConstants, IsLeaf

LEMMA LeafInitHolds == ASSUME LeafConstants, LeafInit PROVE LeafInv
<1>1. leaf \in Elements /\ drive = Zero /\ state = Zero /\ now.v = Zero /\ now.i = Zero /\ samples = 0
  BY DEF LeafInit, Quiet
<1>2. 0 \in 0..MaxSamples
  BY DEF LeafConstants
<1>3. Zero = Zero ++ (PortResistance(leaf) ** Zero)
  <2>1. PortResistance(leaf) \in Fractions
    BY <1>1, LeafConstantsGive, PortResistanceIs, StandsTypes, Zenon
  <2>2. PortResistance(leaf) ** Zero = Zero
    BY <2>1, ZeroTimes
  <2> QED BY <2>2, ZeroPlus, ZeroStands
<1> QED BY <1>1, <1>2, <1>3, ZeroStands DEF LeafInv, Carries

LEMMA LeafStep ==
  ASSUME LeafConstants, LeafInv, [LeafNext]_leafVars
  PROVE  LeafInv' /\ LawHolds
<1>1. CASE SetDrive
  <2>1. drive' \in Fractions
    BY <1>1, LeafConstantsGive DEF SetDrive
  <2>2. UNCHANGED <<leaf, state, now, was, samples>> /\ leaf.kind \notin {"Capacitor", "Inductor"}
    BY <1>1 DEF SetDrive
  <2>3. LeafInv'
    BY <2>1, <2>2 DEF LeafInv, Carries
  <2>4. ~Sample
    BY <2>2 DEF Sample, LeafInv, LeafConstants
  <2> QED BY <2>3, <2>4 DEF LawHolds
<1>2. CASE Sample
  <2>1. PICK a \in Waves :
          LET b == IF Adaptable(leaf) THEN Reflected(leaf, state, drive)
                   ELSE Reflected(leaf, Incident(leaf, state, a), drive)
          IN  /\ state' = Incident(leaf, state, a)
              /\ now' = [v |-> WaveToVoltage(a, b), i |-> WaveToCurrent(a, b, PortResistance(leaf))]
    BY <1>2 DEF Sample
  <2> DEFINE after == PortAt(leaf, a, AnswerWave(leaf, state, a, drive))
  <2>2. state' = Incident(leaf, state, a) /\ now' = after
    BY <2>1 DEF AnswerWave, PortAt
  <2>3. a \in Fractions /\ IsLeaf(leaf)
    BY LeafConstantsGive DEF LeafInv
  <2>4. /\ state \in Fractions /\ drive \in Fractions /\ now.v \in Fractions /\ now.i \in Fractions
        /\ Carries(leaf, state, now)
    BY DEF LeafInv
  <2>5. /\ after.v \in Fractions /\ after.i \in Fractions
        /\ Incident(leaf, state, a) \in Fractions
        /\ Carries(leaf, Incident(leaf, state, a), after)
        /\ ObeysItsElement(leaf, now, after, drive)
    BY <2>3, <2>4, SampleObeys, Zenon
  <2> HIDE DEF after
  <2>6. leaf' = leaf /\ drive' = drive
    BY <1>2 DEF Sample
  <2>7. samples' \in 0..MaxSamples
    BY <1>2 DEF Sample, LeafInv, LeafConstants
  <2>8. Carries(leaf', state', now')
    BY <2>2, <2>5, <2>6
  <2>9. LeafInv'
    BY <2>2, <2>4, <2>5, <2>6, <2>7, <2>8 DEF LeafInv
  <2>10. LawHolds
    BY <2>2, <2>5 DEF LawHolds
  <2> QED BY <2>9, <2>10
<1>3. CASE UNCHANGED leafVars
  <2>1. UNCHANGED <<leaf, drive, state, now, was, samples>>
    BY <1>3 DEF leafVars
  <2>2. LeafInv'
    BY <2>1 DEF LeafInv, Carries
  <2>3. ~Sample
    BY <2>1 DEF Sample, LeafInv, LeafConstants
  <2> QED BY <2>2, <2>3 DEF LawHolds
<1> QED BY <1>1, <1>2, <1>3 DEF LeafNext

LEMMA LeafTypes == ASSUME LeafInv PROVE LeafTypeOK
BY RationalIs, Zenon DEF LeafInv, LeafTypeOK

-----------------------------------------------------------------------------
(* The engine's history                                                    *)

\* A step that returns without an answer returns the integrator it was given.
LEMMA Unanswered ==
  ASSUME NEW net, NEW g, NEW solver, NEW stamps, NEW system,
         ~Step(net, g, solver, stamps, system).status.converged
  PROVE  Step(net, g, solver, stamps, system).integrator = g
<1> DEFINE companions == Companions(net, g)
           answer == StepAnswer(net, g, companions, solver, stamps, system)
           out == Returned(net, g, companions, answer)
<1>1. CASE ~g.planned \/ Signature(net) # g.sig
  <2>1. Step(net, g, solver, stamps, system) = [status |-> Unsolved, integrator |-> g, sys |-> system]
    BY <1>1, Zenon DEF Step
  <2> QED BY <2>1
<1>2. CASE ~(~g.planned \/ Signature(net) # g.sig)
  <2>1. Step(net, g, solver, stamps, system) = out
    BY <1>2, Zenon DEF Step
  <2>2. out.status = answer.status
    BY DEF Returned
  <2>3. out.integrator = IF answer.status.converged THEN AdvanceHistory(net, g, companions, answer.sys) ELSE g
    BY DEF Returned
  <2> HIDE DEF out, answer
  <2>4. ~answer.status.converged
    BY <2>1, <2>2, Zenon
  <2> QED BY <2>1, <2>3, <2>4, Zenon
<1> QED BY <1>1, <1>2, Zenon

LEMMA HistoryWaits == ASSUME [Next]_vars PROVE HistoryStays
<1>1. SUFFICES ASSUME last'.solved, ~last'.status.converged PROVE integrator' = integrator
  BY Zenon DEF HistoryStays
<1>2. ~Idle.solved
  BY DEF Idle
<1>3. ASSUME last' = Idle PROVE FALSE
  BY <1>1, <1>2, <1>3, Zenon
<1>4. CASE AddNode
  BY <1>4, Zenon DEF AddNode, objects
<1>5. CASE AddPart
  BY <1>5, Zenon DEF AddPart, objects
<1>6. CASE PlanIntegrator
  BY <1>3, <1>6, Zenon DEF PlanIntegrator
<1>7. CASE PlanNewton
  BY <1>3, <1>7, Zenon DEF PlanNewton
<1>8. CASE PlanElsewhere
  BY <1>3, <1>8, Zenon DEF PlanElsewhere
<1>9. CASE Reset
  BY <1>3, <1>9, Zenon DEF Reset
<1>10. CASE Seed
  BY <1>3, <1>10, Zenon DEF Seed
<1>11. CASE Drive
  BY <1>3, <1>11, Zenon DEF Drive
<1>12. CASE Rewire
  BY <1>3, <1>12, Zenon DEF Rewire
<1>13. CASE StepIntegrator
  <2>1. PICK s \in {Step(nl, integrator, newton, assembler, sys)} :
          integrator' = s.integrator /\ \E before, v, ok :
            last' = [solved |-> TRUE, status |-> s.status, before |-> before, v |-> v, labOk |-> ok]
    BY <1>13, Zenon DEF StepIntegrator
  <2>2. s = Step(nl, integrator, newton, assembler, sys)
    OBVIOUS
  <2>3. last'.status = s.status
    BY <2>1
  <2>4. ~Step(nl, integrator, newton, assembler, sys).status.converged
    BY <1>1, <2>2, <2>3, Zenon
  <2> QED BY <2>1, <2>2, <2>4, Unanswered, Zenon
<1>14. CASE SolveNewton
  BY <1>14, Zenon DEF SolveNewton
<1>15. CASE UNCHANGED vars
  BY <1>15, Zenon DEF vars
<1> QED BY <1>4, <1>5, <1>6, <1>7, <1>8, <1>9, <1>10, <1>11, <1>12, <1>13, <1>14, <1>15, Zenon DEF Next

\* The same under the other rule.
LEMMA UnansweredTrapezoidal ==
  ASSUME NEW net, NEW g, NEW solver, NEW stamps, NEW system,
         ~Trapezoidal!Step(net, g, solver, stamps, system).status.converged
  PROVE  Trapezoidal!Step(net, g, solver, stamps, system).integrator = g
<1> DEFINE companions == Trapezoidal!Companions(net, g)
           answer == Trapezoidal!StepAnswer(net, g, companions, solver, stamps, system)
           out == Trapezoidal!Returned(net, g, companions, answer)
<1>1. CASE ~g.planned \/ Trapezoidal!Signature(net) # g.sig
  <2>1. Trapezoidal!Step(net, g, solver, stamps, system) = [status |-> Trapezoidal!Unsolved, integrator |-> g, sys |-> system]
    BY <1>1, Zenon DEF Trapezoidal!Step
  <2> QED BY <2>1
<1>2. CASE ~(~g.planned \/ Trapezoidal!Signature(net) # g.sig)
  <2>1. Trapezoidal!Step(net, g, solver, stamps, system) = out
    BY <1>2, Zenon DEF Trapezoidal!Step
  <2>2. out.status = answer.status
    BY DEF Trapezoidal!Returned
  <2>3. out.integrator = IF answer.status.converged THEN Trapezoidal!AdvanceHistory(net, g, companions, answer.sys) ELSE g
    BY DEF Trapezoidal!Returned
  <2> HIDE DEF out, answer
  <2>4. ~answer.status.converged
    BY <2>1, <2>2, Zenon
  <2> QED BY <2>1, <2>3, <2>4, Zenon
<1> QED BY <1>1, <1>2, Zenon

LEMMA HistoryWaitsTrapezoidal == ASSUME [Trapezoidal!Next]_vars PROVE HistoryStays
<1>1. SUFFICES ASSUME last'.solved, ~last'.status.converged PROVE integrator' = integrator
  BY Zenon DEF HistoryStays
<1>2. ~Trapezoidal!Idle.solved
  BY DEF Trapezoidal!Idle
<1>3. ASSUME last' = Trapezoidal!Idle PROVE FALSE
  BY <1>1, <1>2, <1>3, Zenon
<1>4. CASE Trapezoidal!AddNode
  BY <1>4, Zenon DEF Trapezoidal!AddNode, Trapezoidal!objects
<1>5. CASE Trapezoidal!AddPart
  BY <1>5, Zenon DEF Trapezoidal!AddPart, Trapezoidal!objects
<1>6. CASE Trapezoidal!PlanIntegrator
  BY <1>3, <1>6, Zenon DEF Trapezoidal!PlanIntegrator
<1>7. CASE Trapezoidal!PlanNewton
  BY <1>3, <1>7, Zenon DEF Trapezoidal!PlanNewton
<1>8. CASE Trapezoidal!PlanElsewhere
  BY <1>3, <1>8, Zenon DEF Trapezoidal!PlanElsewhere
<1>9. CASE Trapezoidal!Reset
  BY <1>3, <1>9, Zenon DEF Trapezoidal!Reset
<1>10. CASE Trapezoidal!Seed
  BY <1>3, <1>10, Zenon DEF Trapezoidal!Seed
<1>11. CASE Trapezoidal!Drive
  BY <1>3, <1>11, Zenon DEF Trapezoidal!Drive
<1>12. CASE Trapezoidal!Rewire
  BY <1>3, <1>12, Zenon DEF Trapezoidal!Rewire
<1>13. CASE Trapezoidal!StepIntegrator
  <2>1. PICK s \in {Trapezoidal!Step(nl, integrator, newton, assembler, sys)} :
          integrator' = s.integrator /\ \E before, v, ok :
            last' = [solved |-> TRUE, status |-> s.status, before |-> before, v |-> v, labOk |-> ok]
    BY <1>13, Zenon DEF Trapezoidal!StepIntegrator
  <2>2. s = Trapezoidal!Step(nl, integrator, newton, assembler, sys)
    OBVIOUS
  <2>3. last'.status = s.status
    BY <2>1
  <2>4. ~Trapezoidal!Step(nl, integrator, newton, assembler, sys).status.converged
    BY <1>1, <2>2, <2>3, Zenon
  <2> QED BY <2>1, <2>2, <2>4, UnansweredTrapezoidal, Zenon
<1>14. CASE Trapezoidal!SolveNewton
  BY <1>14, Zenon DEF Trapezoidal!SolveNewton
<1>15. CASE UNCHANGED vars
  BY <1>15, Zenon DEF vars
<1> QED BY <1>4, <1>5, <1>6, <1>7, <1>8, <1>9, <1>10, <1>11, <1>12, <1>13, <1>14, <1>15, Zenon DEF Trapezoidal!Next

-----------------------------------------------------------------------------
(* Every step of the specification                                         *)

LEMMA CircuitInitHolds == ASSUME CircuitInit PROVE LeafInv
BY CircuitAssumption, LeafInitHolds, Zenon DEF CircuitInit

LEMMA CircuitStep ==
  ASSUME LeafInv, [CircuitNext]_circuitVars
  PROVE  LeafInv' /\ HistoryStays /\ LawHolds
<1>1. LeafConstants
  BY CircuitAssumption
<1>2. [LeafNext]_leafVars /\ HistoryStays
  <2>1. CASE part = "BackwardEuler" /\ Next /\ UNCHANGED <<part, leafVars>>
    BY <2>1, HistoryWaits, Zenon
  <2>2. CASE part = "Trapezoidal" /\ Trapezoidal!Next /\ UNCHANGED <<part, leafVars>>
    BY <2>2, HistoryWaitsTrapezoidal, Zenon
  <2>3. CASE part = "leaf" /\ LeafNext /\ UNCHANGED <<part, vars>>
    <3>1. UNCHANGED vars
      BY <2>3, Zenon
    <3> QED BY <2>3, <3>1, HistoryWaits, Zenon
  <2>4. CASE UNCHANGED circuitVars
    <3>1. UNCHANGED vars /\ UNCHANGED leafVars
      BY <2>4, Zenon DEF circuitVars
    <3> QED BY <3>1, HistoryWaits, Zenon
  <2> QED BY <2>1, <2>2, <2>3, <2>4, Zenon DEF CircuitNext
<1> QED BY <1>1, <1>2, LeafStep, Zenon

\* A step without an answer leaves the engine's history alone, under either
\* integration rule, for every netlist, component and source; and every sample
\* of every leaf obeys its element's law: Ohm's, the trapezoidal rule across
\* the wave it keeps, a short, an open (reactive-integrator.h, wdf-leaf.h).
THEOREM StateKeepsTheLaw == CircuitSpec => StateCarriesTheLaw
<1>1. CircuitInit => LeafInv
  BY CircuitInitHolds
<1>2. LeafInv /\ [CircuitNext]_circuitVars => LeafInv'
  BY CircuitStep
<1>3. LeafInv /\ [CircuitNext]_circuitVars => HistoryStays /\ LawHolds
  BY CircuitStep
<1> QED BY <1>1, <1>2, <1>3, PTL DEF CircuitSpec, StateCarriesTheLaw
=============================================================================
