---------------------------- MODULE NumberLemmas ----------------------------
(***************************************************************************)
(* Facts about numbers that the proofs of several modules need and the     *)
(* provers do not know: division with remainder, least elements, and that  *)
(* a recursion over numbers defines a function.  Induction is by a least   *)
(* counterexample (LeastNat).                                              *)
(***************************************************************************)
EXTENDS Integers, WellFoundedInduction, TLAPS

-----------------------------------------------------------------------------
(* Arithmetic *)

\* A positive multiple of m is at least m.
LEMMA Multiple ==
    ASSUME NEW d \in Nat \ {0}, NEW m \in Nat
    PROVE  m * d >= m
OBVIOUS

\* Quotient and remainder.
LEMMA DivMod ==
    ASSUME NEW a \in Nat, NEW m \in Nat \ {0}
    PROVE  /\ a \div m \in Nat /\ a % m \in 0 .. m - 1
           /\ a = m * (a \div m) + (a % m)
<1> DEFINE q == a \div m
<1> DEFINE r == a % m
<1>1. a = m * q + r /\ q \in Int /\ r \in 0 .. m - 1
  OBVIOUS
<1> HIDE DEF q, r
<1>2. ASSUME q < 0 PROVE FALSE
  <2>1. m * (-q) >= m
    BY <1>1, <1>2, Multiple
  <2> QED
    BY <1>1, <2>1
<1>3. q \in Nat
  BY <1>1, <1>2
<1> QED
  BY <1>1, <1>3 DEF q, r

\* Quotient and remainder are unique.
LEMMA DivModUnique ==
    ASSUME NEW m \in Nat \ {0}, NEW q \in Int, NEW p \in Int,
           NEW r \in 0 .. m - 1, NEW s \in 0 .. m - 1, m * q + r = m * p + s
    PROVE  q = p /\ r = s
<1>1. CASE q = p
  BY <1>1
<1>2. ASSUME q > p PROVE FALSE
  <2>1. m * (q - p) = s - r
    OBVIOUS
  <2>2. m * (q - p) >= m
    BY <1>2, Multiple
  <2> QED
    BY <2>1, <2>2
<1>3. ASSUME q < p PROVE FALSE
  <2>1. m * (p - q) = r - s
    OBVIOUS
  <2>2. m * (p - q) >= m
    BY <1>3, Multiple
  <2> QED
    BY <2>1, <2>2
<1> QED
  BY <1>1, <1>2, <1>3

\* A multiple of m does not change the remainder.
LEMMA ModSum ==
    ASSUME NEW x \in Nat, NEW k \in Nat, NEW m \in Nat \ {0}
    PROVE  (m * k + x) % m = x % m
<1> DEFINE y == m * k + x
<1>1. y \in Nat
  OBVIOUS
<1>2. /\ y = m * (y \div m) + (y % m)
      /\ y \div m \in Nat /\ y % m \in 0 .. m - 1
  BY <1>1, DivMod
<1>3. /\ x = m * (x \div m) + (x % m)
      /\ x \div m \in Nat /\ x % m \in 0 .. m - 1
  BY DivMod
<1>4. y = m * k + x
  OBVIOUS
<1> HIDE DEF y
<1>5. m * (y \div m) + (y % m) = m * (k + (x \div m)) + (x % m)
  BY <1>2, <1>3, <1>4
<1> DEFINE q == y \div m
<1> DEFINE p == k + (x \div m)
<1> DEFINE r == y % m
<1> DEFINE t == x % m
<1>6. /\ q \in Int /\ p \in Int /\ r \in 0 .. m - 1 /\ t \in 0 .. m - 1
      /\ m * q + r = m * p + t
  BY <1>2, <1>3, <1>5
<1> HIDE DEF q, p, r, t
<1>7. r = t
  BY <1>6, DivModUnique
<1> QED
  BY <1>7 DEF r, t, y

\* A factor may be reduced before or after the multiplication.
LEMMA ModProduct ==
    ASSUME NEW a \in Nat, NEW b \in Nat, NEW m \in Nat \ {0}
    PROVE  ((a % m) * b) % m = (a * b) % m
<1> DEFINE q == a \div m
<1> DEFINE r == a % m
<1>1. a = m * q + r /\ q \in Nat /\ r \in Nat
  BY DivMod
<1> HIDE DEF q, r
<1>2. a * b = m * (q * b) + r * b
  BY <1>1
<1>3. q * b \in Nat /\ r * b \in Nat
  BY <1>1
<1>4. (m * (q * b) + r * b) % m = (r * b) % m
  BY <1>3, ModSum
<1> QED
  BY <1>2, <1>4 DEF r

-----------------------------------------------------------------------------
(* Recursion *)

\* A set of numbers that is not empty has a least element.
LEMMA LeastNat ==
    ASSUME NEW S, S \subseteq Nat, S # {}
    PROVE  \E x \in S : \A y \in S : x =< y
<1> DEFINE Less == {ss \in Nat \X Nat : ss[1] < ss[2]}
<1>1. IsWellFoundedOn(Less, Nat)
  BY NatLessThanWellFounded, Zenon DEF OpToRel
<1>2. \E x \in S : \A y \in S : ~(<<y, x>> \in Less)
  BY <1>1, WFMin, Zenon
<1>3. PICK x \in S : \A y \in S : ~(<<y, x>> \in Less)
  BY <1>2, Zenon
<1>4. ASSUME NEW y \in S PROVE x =< y
  <2>1. x \in Nat /\ y \in Nat
    OBVIOUS
  <2>2. ~(<<y, x>> \in Less)
    BY <1>3, Zenon
  <2>3. ~(y < x)
    BY <2>1, <2>2, Zenon
  <2> QED
    BY <2>1, <2>3
<1> QED
  BY <1>4, Zenon

\* f starts with a and goes on, up to n, as the function G says.
Follows(f, a, G, n) ==
    f[0] = a /\ \A k \in 1 .. n : f[k] = G[k][f[k - 1]]

\* Such a function exists: the recursion by which a function on 0 .. N is
\* defined has a solution.
LEMMA Recursion ==
    ASSUME NEW S, NEW a \in S, NEW N \in Nat, NEW G \in [1 .. N -> [S -> S]]
    PROVE  \E f \in [0 .. N -> S] : Follows(f, a, G, N)
<1> DEFINE Bad == {n \in 0 .. N : ~\E f \in [0 .. n -> S] : Follows(f, a, G, n)}
<1>1. SUFFICES ASSUME Bad # {} PROVE FALSE
  OBVIOUS
<1>2. Bad \subseteq Nat
  OBVIOUS
<1>3. PICK n \in Bad : \A k \in Bad : n =< k
  <2> HIDE DEF Bad
  <2> QED
    BY <1>1, <1>2, LeastNat
<1>4. n \in 0 .. N /\ ~\E f \in [0 .. n -> S] : Follows(f, a, G, n)
  OBVIOUS
<1>5. n # 0
  <2>1. SUFFICES ASSUME n = 0 PROVE FALSE
    OBVIOUS
  <2> DEFINE f == [k \in 0 .. 0 |-> a]
  <2>2. f \in [0 .. n -> S] /\ Follows(f, a, G, n)
    BY <2>1 DEF Follows
  <2> QED
    BY <1>4, <2>2
<1>6. n - 1 \in 0 .. N /\ n - 1 \notin Bad /\ n \in 1 .. N
  BY <1>3, <1>4, <1>5
<1>7. PICK f \in [0 .. n - 1 -> S] : Follows(f, a, G, n - 1)
  BY <1>6
<1> DEFINE v == G[n][f[n - 1]]
<1>8. v \in S
  <2>1. f[n - 1] \in S
    BY <1>6
  <2>2. G[n] \in [S -> S]
    BY <1>6
  <2> QED
    BY <2>1, <2>2
<1> HIDE DEF v
<1> DEFINE g == [k \in 0 .. n |-> IF k = n THEN v ELSE f[k]]
<1>9. g \in [0 .. n -> S]
  BY <1>6, <1>8
<1>10. /\ g[n] = v /\ \A k \in 0 .. n - 1 : g[k] = f[k]
  BY <1>6
<1> HIDE DEF g
<1>11. g[0] = a
  BY <1>6, <1>7, <1>10 DEF Follows
<1>12. ASSUME NEW k \in 1 .. n PROVE g[k] = G[k][g[k - 1]]
  <2>1. k - 1 \in 0 .. n - 1
    BY <1>6
  <2>2. CASE k = n
    BY <1>10, <2>1, <2>2 DEF v
  <2>3. CASE k # n
    <3>1. k \in 1 .. n - 1 /\ k \in 0 .. n - 1
      BY <1>6, <2>3
    <3> QED
      BY <1>7, <1>10, <2>1, <3>1 DEF Follows
  <2> QED
    BY <2>2, <2>3
<1>13. Follows(g, a, G, n)
  BY <1>11, <1>12 DEF Follows
<1> QED
  BY <1>4, <1>9, <1>13

\* It is the only one.
LEMMA RecursionUnique ==
    ASSUME NEW a, NEW N \in Nat, NEW G, NEW f, NEW g,
           Follows(f, a, G, N), Follows(g, a, G, N)
    PROVE  \A n \in 0 .. N : f[n] = g[n]
<1> DEFINE Bad == {n \in 0 .. N : f[n] # g[n]}
<1>1. SUFFICES ASSUME Bad # {} PROVE FALSE
  OBVIOUS
<1>2. Bad \subseteq Nat
  OBVIOUS
<1>3. PICK n \in Bad : \A k \in Bad : n =< k
  <2> HIDE DEF Bad
  <2> QED
    BY <1>1, <1>2, LeastNat
<1>4. n \in 0 .. N /\ f[n] # g[n] /\ n # 0
  BY DEF Follows
<1>5. n \in 1 .. N /\ n - 1 \in 0 .. N /\ n - 1 \notin Bad
  BY <1>3, <1>4
<1>6. f[n - 1] = g[n - 1]
  BY <1>5
<1> QED
  BY <1>4, <1>5, <1>6 DEF Follows

=============================================================================
