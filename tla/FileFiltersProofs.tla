------------------------- MODULE FileFiltersProofs --------------------------
(***************************************************************************)
(* Proofs about FileFilters.  The first part shows that the second program *)
(* of a pipeline undoes, byte by byte, what the first did: rotations and   *)
(* exclusive or of bytes of any width, the rotation of letters.  The       *)
(* second part has the sums of words, the third the inductive invariant    *)
(* with one lemma per action.                                              *)
(***************************************************************************)
EXTENDS FileFilters, NumberLemmas, SequenceTheorems, TLAPS

-----------------------------------------------------------------------------
(* What the proofs talk about *)

\* The rotation of letters by r.
Turn(b, r) ==
    CASE b \in UPPER .. UPPER + ALPHA - 1 -> UPPER + ((b - UPPER + r) % ALPHA)
      [] b \in LOWER .. LOWER + ALPHA - 1 -> LOWER + ((b - LOWER + r) % ALPHA)
      [] OTHER -> b

\* What program p with argument a does to byte b when its counter is e.
Changed(p, a, e, b) ==
    CASE p \in {"coder", "coder2e"} -> xor(rol(b, e), Convert(a) % BYTE)
      [] p \in {"decoder", "coder2d"} -> ror(xor(b, Convert(a) % BYTE), e)
      [] p = "rot" -> Turn(b, Convert(a))
      [] p = "unrot" -> Turn(b, ALPHA - Convert(a))
      [] OTHER -> b

\* The i-th byte of the file between the programs, and what a program finds
\* and leaves at place i.
Middle(i) == Changed(progs[1], arg, (i - 1) % 4, orig[i])
Before(i) == IF stage = 1 THEN orig[i] ELSE Middle(i)
After(i) == IF stage = 1 THEN Middle(i) ELSE orig[i]

\* The partial sums of WordSum.
Sums(s) ==
    CHOOSE sum : sum = [n \in 0 .. Len(s) |->
      IF n = 0 THEN 0 ELSE sum[n - 1] + s[n] * (IF n % 2 = 1 THEN BYTE ELSE 1)]

\* What encode makes of a file.
Sealed(s) == s \o <<WordSum(s) % BYTE, WordSum(s) \div BYTE>>

Good == {"ok", "unset"}
Codes == Good \cup {"usage", "failed"}
InPlace == path = <<1, 1, 1>>
Encoding == progs[1] = "encode"

-----------------------------------------------------------------------------
(* Bytes *)

\* The result of a division that is written out.
LEMMA Divided ==
    ASSUME NEW m \in Nat \ {0}, NEW q \in Nat, NEW r \in 0 .. m - 1
    PROVE  (m * q + r) \div m = q /\ (m * q + r) % m = r
<1> DEFINE y == m * q + r
<1> DEFINE d == y \div m
<1> DEFINE s == y % m
<1>1. y \in Nat
  OBVIOUS
<1>2. y = m * d + s /\ d \in Nat /\ s \in 0 .. m - 1
  <2> HIDE DEF y
  <2> QED
    BY <1>1, DivMod
<1>3. y = m * q + r
  OBVIOUS
<1> HIDE DEF y, d, s
<1>4. m * d + s = m * q + r /\ d \in Int /\ q \in Int
  BY <1>2, <1>3
<1>5. d = q /\ s = r
  BY <1>2, <1>4, DivModUnique
<1> QED
  BY <1>5 DEF y, d, s

\* Two digits, the high one below P and the low one below Q.
LEMMA Digits ==
    ASSUME NEW P \in Nat \ {0}, NEW Q \in Nat \ {0},
           NEW h \in 0 .. P - 1, NEW l \in 0 .. Q - 1
    PROVE  Q * h + l \in 0 .. P * Q - 1
<1> DEFINE z == P - 1 - h
<1>1. z \in Nat /\ Q * z \in Nat /\ Q * h \in Nat
  OBVIOUS
<1>2. P * Q = Q * z + Q + Q * h
  OBVIOUS
<1> HIDE DEF z
<1> DEFINE a == Q * z
<1> DEFINE b == Q * h
<1> DEFINE c == P * Q
<1>3. a \in Nat /\ b \in Nat /\ c = a + Q + b
  BY <1>1, <1>2
<1> HIDE DEF a, b, c
<1>4. b + l \in 0 .. c - 1
  BY <1>3
<1> QED
  BY <1>4 DEF b, c

\* A number below P * Q has two such digits.
LEMMA DigitsOf ==
    ASSUME NEW P \in Nat \ {0}, NEW Q \in Nat \ {0}, NEW b \in 0 .. P * Q - 1
    PROVE  \E h \in 0 .. P - 1, l \in 0 .. Q - 1 : b = Q * h + l
<1> DEFINE h == b \div Q
<1> DEFINE l == b % Q
<1>0. b \in Nat
  OBVIOUS
<1>1. b = Q * h + l /\ h \in Nat /\ l \in 0 .. Q - 1
  BY <1>0, DivMod
<1> HIDE DEF h, l
<1>2. ASSUME h >= P PROVE FALSE
  <2>1. Q * h = Q * P + Q * (h - P) /\ Q * (h - P) \in Nat
    BY <1>1, <1>2
  <2>2. b >= Q * P
    <3> DEFINE x == Q * h
    <3> DEFINE y == Q * P
    <3> DEFINE z == Q * (h - P)
    <3>1. b = x + l /\ x = y + z /\ z \in Nat /\ y \in Nat
      BY <1>1, <2>1
    <3> HIDE DEF x, y, z
    <3>2. b >= y
      BY <1>1, <3>1
    <3> QED
      BY <3>2 DEF y
  <2>3. b =< P * Q - 1
    OBVIOUS
  <2>4. P * Q = Q * P /\ P * Q \in Nat
    OBVIOUS
  <2> QED
    BY <2>2, <2>3, <2>4
<1>3. h \in 0 .. P - 1
  BY <1>1, <1>2
<1> QED
  BY <1>1, <1>3

\* The recursion of pow2, which has a solution.
LEMMA Pow2Is ==
    /\ pow2[0] = 1
    /\ \A k \in 1 .. BITS : pow2[k] = 2 * pow2[k - 1]
    /\ \A k \in 0 .. BITS : pow2[k] \in Nat \ {0}
<1> DEFINE S == Nat \ {0}
<1> DEFINE G == [k \in 1 .. BITS |-> [x \in S |-> 2 * x]]
<1>0. BITS \in Nat
  BY FilterAssumption
<1>1. G \in [1 .. BITS -> [S -> S]] /\ 1 \in S
  OBVIOUS
<1> HIDE DEF S, G
<1>2. PICK f \in [0 .. BITS -> S] : Follows(f, 1, G, BITS)
  BY <1>0, <1>1, Recursion
<1>3. f[0] = 1
  BY <1>2 DEF Follows
<1>4. ASSUME NEW k \in 1 .. BITS PROVE f[k] = 2 * f[k - 1]
  <2>1. k - 1 \in 0 .. BITS
    BY <1>0
  <2>2. f[k - 1] \in S
    BY <2>1
  <2>3. f[k] = G[k][f[k - 1]]
    BY <1>2 DEF Follows
  <2> QED
    BY <2>2, <2>3 DEF G
<1>5. f = [k \in 0 .. BITS |-> IF k = 0 THEN 1 ELSE 2 * f[k - 1]]
  <2>1. ASSUME NEW k \in 0 .. BITS PROVE f[k] = IF k = 0 THEN 1 ELSE 2 * f[k - 1]
    <3>1. k # 0 => k \in 1 .. BITS
      BY <1>0
    <3> QED
      BY <1>3, <1>4, <3>1
  <2> QED
    BY <2>1
<1>6. pow2 = [k \in 0 .. BITS |-> IF k = 0 THEN 1 ELSE 2 * pow2[k - 1]]
  BY <1>5 DEF pow2
<1>7. 0 \in 0 .. BITS
  BY <1>0
<1>8. pow2[0] = 1
  BY <1>6, <1>7
<1>9. ASSUME NEW k \in 1 .. BITS PROVE pow2[k] = 2 * pow2[k - 1]
  <2>1. k \in 0 .. BITS /\ k # 0
    BY <1>0
  <2> QED
    BY <1>6, <2>1
<1> DEFINE Bad == {k \in 0 .. BITS : pow2[k] \notin Nat \ {0}}
<1>10. ASSUME Bad # {} PROVE FALSE
  <2>1. Bad \subseteq Nat
    BY <1>0
  <2>2. PICK n \in Bad : \A k \in Bad : n =< k
    <3> HIDE DEF Bad
    <3> QED
      BY <1>10, <2>1, LeastNat
  <2>3. n # 0
    BY <1>8
  <2>4. n \in 1 .. BITS /\ n - 1 \in 0 .. BITS /\ n - 1 \notin Bad
    BY <1>0, <2>2, <2>3
  <2>5. pow2[n - 1] \in Nat \ {0} /\ pow2[n] = 2 * pow2[n - 1]
    BY <1>9, <2>4
  <2> QED
    BY <2>5
<1> QED
  BY <1>8, <1>9, <1>10

\* The number of bytes is a power of two, at least 16, and a rotation by up
\* to three bits splits a byte into two digits.
LEMMA ByteIs ==
    /\ BYTE \in Nat /\ BYTE >= 16
    /\ \A k \in 0 .. 3 : /\ pow2[k] \in Nat \ {0} /\ pow2[BITS - k] \in Nat \ {0}
                         /\ BYTE = pow2[k] * pow2[BITS - k]
<1>0. BITS \in Nat /\ BITS >= 4
  BY FilterAssumption
<1>1. /\ 0 \in 0 .. BITS /\ 1 \in 1 .. BITS /\ 2 \in 1 .. BITS /\ 3 \in 1 .. BITS
      /\ BITS \in 1 .. BITS /\ BITS - 1 \in 1 .. BITS /\ BITS - 2 \in 1 .. BITS
      /\ BITS - 3 \in 1 .. BITS /\ BITS - 4 \in 0 .. BITS /\ BITS - 0 = BITS
      /\ (BITS - 1) - 1 = BITS - 2 /\ (BITS - 2) - 1 = BITS - 3
      /\ (BITS - 3) - 1 = BITS - 4 /\ BITS - 3 \in 0 .. BITS
      /\ BITS - 2 \in 0 .. BITS /\ BITS - 1 \in 0 .. BITS /\ BITS \in 0 .. BITS
      /\ 1 - 1 = 0 /\ 2 - 1 = 1 /\ 3 - 1 = 2
  BY <1>0
<1>2. /\ pow2[0] = 1 /\ pow2[1] = 2 * pow2[0] /\ pow2[2] = 2 * pow2[1]
      /\ pow2[3] = 2 * pow2[2]
  BY <1>1, Pow2Is
<1>3. /\ pow2[BITS] = 2 * pow2[BITS - 1] /\ pow2[BITS - 1] = 2 * pow2[BITS - 2]
      /\ pow2[BITS - 2] = 2 * pow2[BITS - 3] /\ pow2[BITS - 3] = 2 * pow2[BITS - 4]
      /\ pow2[BITS - 4] \in Nat \ {0}
  BY <1>1, Pow2Is
<1>4. pow2[0] = 1 /\ pow2[1] = 2 /\ pow2[2] = 4 /\ pow2[3] = 8
  BY <1>2
<1>5. BYTE \in Nat /\ BYTE >= 16
  BY <1>3 DEF BYTE
<1>6. ASSUME NEW k \in 0 .. 3
      PROVE  /\ pow2[k] \in Nat \ {0} /\ pow2[BITS - k] \in Nat \ {0}
             /\ BYTE = pow2[k] * pow2[BITS - k]
  <2>1. CASE k = 0
    BY <1>1, <1>3, <1>4, <2>1 DEF BYTE
  <2>2. CASE k = 1
    BY <1>3, <1>4, <2>2 DEF BYTE
  <2>3. CASE k = 2
    BY <1>3, <1>4, <2>3 DEF BYTE
  <2>4. CASE k = 3
    BY <1>3, <1>4, <2>4 DEF BYTE
  <2> QED
    BY <2>1, <2>2, <2>3, <2>4
<1> QED
  BY <1>5, <1>6

\* Bytes are numbers.
LEMMA ByteNat ==
    /\ \A b \in Bytes : b \in Nat
    /\ BYTE \in Nat \ {0} /\ BYTE * BYTE \in Nat \ {0}
<1>1. BYTE \in Nat /\ BYTE >= 16
  BY ByteIs
<1>2. BYTE * BYTE >= BYTE /\ BYTE * BYTE \in Nat
  BY <1>1, Multiple
<1> QED
  BY <1>1, <1>2 DEF Bytes

\* Rotating to the left exchanges the digits of a byte.
LEMMA RolIs ==
    ASSUME NEW k \in 0 .. 3, NEW h \in 0 .. pow2[k] - 1, NEW l \in 0 .. pow2[BITS - k] - 1
    PROVE  rol(pow2[BITS - k] * h + l, k) = pow2[k] * l + h
<1> DEFINE P == pow2[k]
<1> DEFINE Q == pow2[BITS - k]
<1>1. P \in Nat \ {0} /\ Q \in Nat \ {0} /\ BYTE = P * Q /\ BYTE \in Nat \ {0}
  BY ByteIs
<1>2. h \in 0 .. P - 1 /\ l \in 0 .. Q - 1
  OBVIOUS
<1>3. rol(Q * h + l, k) = (((Q * h + l) * P) % BYTE) + (((Q * h + l) * P) \div BYTE)
  BY DEF rol
<1> HIDE DEF P, Q
<1>4. P * l + 0 \in 0 .. Q * P - 1
  BY <1>1, <1>2, Digits
<1>5. P * l \in 0 .. BYTE - 1
  <2>1. Q * P = P * Q /\ P * l + 0 = P * l
    BY <1>1, <1>2
  <2> QED
    BY <1>1, <1>4, <2>1
<1>6. (Q * h + l) * P = (P * Q) * h + P * l
  BY <1>1, <1>2
<1>7. (Q * h + l) * P = BYTE * h + P * l
  BY <1>1, <1>6
<1> DEFINE r == P * l
<1>8. r \in 0 .. BYTE - 1
  BY <1>5
<1> HIDE DEF r
<1>9. (BYTE * h + r) \div BYTE = h /\ (BYTE * h + r) % BYTE = r
  <2>1. h \in Nat
    BY <1>2
  <2> QED
    BY <1>1, <1>8, <2>1, Divided
<1>10. rol(Q * h + l, k) = r + h
  BY <1>3, <1>7, <1>9 DEF r
<1> QED
  BY <1>10 DEF r, P, Q

\* Rotating to the right puts them back.
LEMMA RorIs ==
    ASSUME NEW k \in 0 .. 3, NEW h \in 0 .. pow2[k] - 1, NEW l \in 0 .. pow2[BITS - k] - 1
    PROVE  ror(pow2[k] * l + h, k) = pow2[BITS - k] * h + l
<1> DEFINE P == pow2[k]
<1> DEFINE Q == pow2[BITS - k]
<1>1. P \in Nat \ {0} /\ Q \in Nat \ {0} /\ BYTE = P * Q /\ BYTE \in Nat \ {0}
  BY ByteIs
<1>2. h \in 0 .. P - 1 /\ l \in 0 .. Q - 1
  OBVIOUS
<1>3. ror(P * l + h, k) = ((P * l + h) \div P) + (((P * l + h) * Q) % BYTE)
  BY DEF ror
<1> HIDE DEF P, Q
<1>4. Q * h + 0 \in 0 .. P * Q - 1
  BY <1>1, <1>2, Digits
<1>5. Q * h \in 0 .. BYTE - 1
  <2>1. Q * h + 0 = Q * h
    BY <1>1, <1>2
  <2> QED
    BY <1>1, <1>4, <2>1
<1>6. (P * l + h) * Q = (P * Q) * l + Q * h
  BY <1>1, <1>2
<1>7. (P * l + h) * Q = BYTE * l + Q * h
  BY <1>1, <1>6
<1> DEFINE r == Q * h
<1>8. r \in 0 .. BYTE - 1
  BY <1>5
<1> HIDE DEF r
<1>9. (BYTE * l + r) % BYTE = r
  <2>1. l \in Nat
    BY <1>2
  <2> QED
    BY <1>1, <1>8, <2>1, Divided
<1>10. (P * l + h) \div P = l
  BY <1>1, <1>2, Divided
<1>11. ror(P * l + h, k) = l + r
  BY <1>3, <1>7, <1>9, <1>10 DEF r
<1>12. l + r = r + l
  BY <1>2, <1>8
<1> QED
  BY <1>11, <1>12 DEF r, P, Q

\* ror undoes rol, and both make bytes of bytes.
LEMMA RolRor ==
    ASSUME NEW b \in Bytes, NEW k \in 0 .. 3
    PROVE  rol(b, k) \in Bytes /\ ror(b, k) \in Bytes /\ ror(rol(b, k), k) = b
<1> DEFINE P == pow2[k]
<1> DEFINE Q == pow2[BITS - k]
<1>1. P \in Nat \ {0} /\ Q \in Nat \ {0} /\ BYTE = P * Q
  BY ByteIs
<1>2. BYTE = Q * P
  <2> HIDE DEF P, Q
  <2> QED
    BY <1>1
<1>3. b \in 0 .. P * Q - 1 /\ b \in 0 .. Q * P - 1
  BY <1>1, <1>2 DEF Bytes
<1> HIDE DEF P, Q
<1>4. PICK h \in 0 .. P - 1, l \in 0 .. Q - 1 : b = Q * h + l
  BY <1>1, <1>3, DigitsOf
<1>5. rol(b, k) = P * l + h /\ ror(P * l + h, k) = Q * h + l
  BY <1>4, RolIs, RorIs DEF P, Q
<1>6. P * l + h \in 0 .. Q * P - 1
  BY <1>1, <1>4, Digits
<1>7. PICK l2 \in 0 .. Q - 1, h2 \in 0 .. P - 1 : b = P * l2 + h2
  BY <1>1, <1>3, DigitsOf
<1>8. ror(b, k) = Q * h2 + l2
  BY <1>7, RorIs DEF P, Q
<1>9. Q * h2 + l2 \in 0 .. P * Q - 1
  BY <1>1, <1>7, Digits
<1> QED
  BY <1>1, <1>2, <1>4, <1>5, <1>6, <1>8, <1>9 DEF Bytes

\* One bit: the higher bits are kept apart, and adding b's bit twice is no
\* change.
LEMMA XorBit ==
    ASSUME NEW a \in Nat, NEW b \in Nat, NEW y \in Nat
    PROVE  LET x == ((a + b) % 2) + 2 * y IN
             /\ x \in Nat /\ x \div 2 = y /\ (x + b) % 2 = a % 2
             /\ a = (a % 2) + 2 * (a \div 2)
OBVIOUS

\* The recursion of xor_low.
LEMMA XorLowIs ==
    /\ \A n \in 0 .. BITS : xor_low[n] \in [Nat \X Nat -> Nat]
    /\ \A a, b \in Nat : xor_low[0][<<a, b>>] = 0
    /\ \A n \in 1 .. BITS, a, b \in Nat :
         xor_low[n][<<a, b>>] =
           ((a + b) % 2) + 2 * xor_low[n - 1][<<a \div 2, b \div 2>>]
<1> DEFINE S == [Nat \X Nat -> Nat]
<1> DEFINE Z == [p \in Nat \X Nat |-> 0]
<1> DEFINE Bit(f, p) == ((p[1] + p[2]) % 2) + 2 * f[<<p[1] \div 2, p[2] \div 2>>]
<1> DEFINE G == [n \in 1 .. BITS |-> [f \in S |-> [p \in Nat \X Nat |-> Bit(f, p)]]]
<1>0. BITS \in Nat
  BY FilterAssumption
<1>1. ASSUME NEW f \in S, NEW p \in Nat \X Nat PROVE Bit(f, p) \in Nat
  <2>1. p[1] \in Nat /\ p[2] \in Nat
    OBVIOUS
  <2>2. <<p[1] \div 2, p[2] \div 2>> \in Nat \X Nat /\ (p[1] + p[2]) % 2 \in Nat
    BY <2>1
  <2>3. f[<<p[1] \div 2, p[2] \div 2>>] \in Nat
    BY <2>2
  <2> QED
    BY <2>2, <2>3
<1>2. Z \in S
  OBVIOUS
<1>3. G \in [1 .. BITS -> [S -> S]]
  <2>1. ASSUME NEW f \in S PROVE [p \in Nat \X Nat |-> Bit(f, p)] \in S
    <3> HIDE DEF Bit
    <3> QED
      BY <1>1
  <2> HIDE DEF S, Bit
  <2> QED
    BY <2>1
<1>4. PICK f \in [0 .. BITS -> S] : Follows(f, Z, G, BITS)
  <2> HIDE DEF S, Z, G
  <2> QED
    BY <1>0, <1>2, <1>3, Recursion
<1>5. f[0] = Z
  BY <1>4 DEF Follows
<1>6. ASSUME NEW n \in 1 .. BITS
      PROVE  f[n] = [p \in Nat \X Nat |-> Bit(f[n - 1], p)]
  <2>1. n - 1 \in 0 .. BITS
    BY <1>0
  <2> HIDE DEF S, Bit
  <2>2. f[n - 1] \in S
    BY <2>1
  <2> HIDE DEF G
  <2>3. f[n] = G[n][f[n - 1]]
    BY <1>4 DEF Follows
  <2> QED
    BY <2>2, <2>3 DEF G
<1> DEFINE Body(w, n) ==
      [p \in Nat \X Nat |->
         IF n = 0 THEN 0
         ELSE ((p[1] + p[2]) % 2) + 2 * w[n - 1][p[1] \div 2, p[2] \div 2]]
<1>7. ASSUME NEW n \in 0 .. BITS PROVE f[n] = Body(f, n)
  <2>1. CASE n = 0
    BY <1>5, <2>1
  <2>2. CASE n # 0
    <3>1. n \in 1 .. BITS
      BY <1>0, <2>2
    <3> QED
      BY <1>6, <2>2, <3>1
  <2> QED
    BY <2>1, <2>2
<1>8. f = [n \in 0 .. BITS |-> Body(f, n)]
  <2> HIDE DEF Body
  <2> QED
    BY <1>7
<1>9. xor_low = [n \in 0 .. BITS |-> Body(xor_low, n)]
  BY <1>8 DEF xor_low
<1>10. 0 \in 0 .. BITS
  BY <1>0
<1>12. ASSUME NEW n \in 1 .. BITS
       PROVE  xor_low[n] = [p \in Nat \X Nat |-> Bit(xor_low[n - 1], p)]
  <2>1. n \in 0 .. BITS /\ n # 0
    BY <1>0
  <2>2. xor_low[n] = Body(xor_low, n)
    <3> HIDE DEF Body
    <3> QED
      BY <1>9, <2>1
  <2> QED
    BY <2>1, <2>2
<1>13. ASSUME NEW n \in 1 .. BITS, NEW a \in Nat, NEW b \in Nat
       PROVE  xor_low[n][<<a, b>>] =
                ((a + b) % 2) + 2 * xor_low[n - 1][<<a \div 2, b \div 2>>]
  BY <1>12
<1>14. xor_low[0] \in S /\ xor_low[0] = Z
  <2>1. xor_low[0] = Body(xor_low, 0)
    <3> HIDE DEF Body
    <3> QED
      BY <1>9, <1>10
  <2>2. Body(xor_low, 0) = Z
    OBVIOUS
  <2> QED
    BY <1>2, <2>1, <2>2
<1>11. \A a, b \in Nat : xor_low[0][<<a, b>>] = 0
  BY <1>14
<1> DEFINE Bad == {n \in 0 .. BITS : xor_low[n] \notin S}
<1>15. ASSUME Bad # {} PROVE FALSE
  <2>1. Bad \subseteq Nat
    BY <1>0
  <2>2. PICK n \in Bad : \A k \in Bad : n =< k
    <3> HIDE DEF Bad
    <3> QED
      BY <1>15, <2>1, LeastNat
  <2>3. n # 0
    BY <1>14
  <2> HIDE DEF S
  <2>4. n \in 1 .. BITS /\ n - 1 \in 0 .. BITS /\ n - 1 \notin Bad
    BY <1>0, <2>2, <2>3
  <2>5. xor_low[n - 1] \in S
    BY <2>4
  <2>6. [p \in Nat \X Nat |-> Bit(xor_low[n - 1], p)] \in S
    <3> HIDE DEF Bit
    <3> QED
      BY <1>1, <2>5 DEF S
  <2> QED
    BY <1>12, <2>4, <2>6
<1> QED
  BY <1>11, <1>13, <1>15

\* The exclusive or of n bits has n bits, and doing it twice is no change.
LEMMA XorLow ==
    \A n \in 0 .. BITS : \A a, b \in 0 .. pow2[n] - 1 :
      /\ xor_low[n][<<a, b>>] \in 0 .. pow2[n] - 1
      /\ xor_low[n][<<xor_low[n][<<a, b>>], b>>] = a
<1> DEFINE Ok(n, a, b) == /\ xor_low[n][<<a, b>>] \in 0 .. pow2[n] - 1
                          /\ xor_low[n][<<xor_low[n][<<a, b>>], b>>] = a
<1> DEFINE Bad == {n \in 0 .. BITS : ~\A a, b \in 0 .. pow2[n] - 1 : Ok(n, a, b)}
<1>0. BITS \in Nat
  BY FilterAssumption
<1>1. SUFFICES ASSUME Bad # {} PROVE FALSE
  OBVIOUS
<1>2. Bad \subseteq Nat
  BY <1>0
<1>3. PICK n \in Bad : \A k \in Bad : n =< k
  <2> HIDE DEF Bad
  <2> QED
    BY <1>1, <1>2, LeastNat
<1>4. n \in 0 .. BITS /\ ~\A a, b \in 0 .. pow2[n] - 1 : Ok(n, a, b)
  OBVIOUS
<1>5. ASSUME n = 0, NEW a \in 0 .. pow2[n] - 1, NEW b \in 0 .. pow2[n] - 1
      PROVE  Ok(n, a, b)
  <2>1. a = 0 /\ b = 0 /\ pow2[n] = 1
    BY <1>5, Pow2Is
  <2>2. xor_low[0][<<0, 0>>] = 0
    BY XorLowIs
  <2> QED
    BY <1>5, <2>1, <2>2
<1>6. ASSUME n # 0, NEW a \in 0 .. pow2[n] - 1, NEW b \in 0 .. pow2[n] - 1
      PROVE  Ok(n, a, b)
  <2>1. n \in 1 .. BITS /\ n - 1 \in 0 .. BITS /\ n - 1 \notin Bad
    BY <1>0, <1>3, <1>4, <1>6
  <2>2. \A c, d \in 0 .. pow2[n - 1] - 1 : Ok(n - 1, c, d)
    BY <2>1
  <2>3. pow2[n] = 2 * pow2[n - 1] /\ pow2[n - 1] \in Nat \ {0}
    BY <2>1, Pow2Is
  <2> DEFINE c == a \div 2
  <2> DEFINE d == b \div 2
  <2>4. a \in Nat /\ b \in Nat /\ c \in 0 .. pow2[n - 1] - 1 /\ d \in 0 .. pow2[n - 1] - 1
    BY <2>3
  <2> DEFINE y == xor_low[n - 1][<<c, d>>]
  <2>5. y \in 0 .. pow2[n - 1] - 1 /\ xor_low[n - 1][<<y, d>>] = c
    <3> HIDE DEF c, d
    <3> QED
      BY <2>2, <2>4
  <2> DEFINE x == ((a + b) % 2) + 2 * y
  <2>6. xor_low[n][<<a, b>>] = x
    BY <2>1, <2>4, XorLowIs
  <2> HIDE DEF y
  <2>7. /\ x \in Nat /\ x \div 2 = y /\ (x + b) % 2 = a % 2
        /\ a = (a % 2) + 2 * c
    BY <2>3, <2>4, <2>5, XorBit
  <2>8. x \in 0 .. pow2[n] - 1
    BY <2>3, <2>4, <2>5
  <2> HIDE DEF x
  <2>9. xor_low[n][<<x, b>>] = ((x + b) % 2) + 2 * xor_low[n - 1][<<x \div 2, d>>]
    BY <2>1, <2>4, <2>7, XorLowIs
  <2> HIDE DEF c, d
  <2>10. xor_low[n][<<x, b>>] = a
    BY <2>5, <2>7, <2>9
  <2> QED
    BY <2>6, <2>8, <2>10
<1> QED
  BY <1>4, <1>5, <1>6

\* The same for bytes.
LEMMA XorTwice ==
    ASSUME NEW a \in Bytes, NEW b \in Bytes
    PROVE  xor(a, b) \in Bytes /\ xor(xor(a, b), b) = a
<1>1. BITS \in 0 .. BITS
  BY FilterAssumption
<1>2. a \in 0 .. pow2[BITS] - 1 /\ b \in 0 .. pow2[BITS] - 1
  BY DEF Bytes, BYTE
<1>3. /\ xor_low[BITS][<<a, b>>] \in 0 .. pow2[BITS] - 1
      /\ xor_low[BITS][<<xor_low[BITS][<<a, b>>], b>>] = a
  BY <1>1, <1>2, XorLow
<1> QED
  BY <1>3 DEF xor, Bytes, BYTE

\* A letter that is turned by r and then by the rest of the alphabet is back
\* at its place.
LEMMA TurnBack ==
    ASSUME NEW m \in Nat \ {0}, NEW x \in 0 .. m - 1, NEW r \in 1 .. m - 1
    PROVE  /\ (x + r) % m \in 0 .. m - 1
           /\ (((x + r) % m) + (m - r)) % m = x
<1>1. x \in Nat /\ r \in Nat /\ m - r \in Nat
  OBVIOUS
<1>2. CASE x + r < m
  <2>1. x + r = m * 0 + (x + r) /\ x + r \in 0 .. m - 1
    BY <1>2
  <2>2. (m * 0 + (x + r)) % m = x + r
    <3> DEFINE s == x + r
    <3>1. s \in 0 .. m - 1 /\ 0 \in Nat
      BY <2>1
    <3> HIDE DEF s
    <3>2. (m * 0 + s) % m = s
      BY <3>1, Divided
    <3> QED
      BY <3>2 DEF s
  <2>3. (x + r) % m = x + r
    BY <2>1, <2>2
  <2>4. (m * 1 + x) % m = x
    BY Divided
  <2>5. (x + r) + (m - r) = m * 1 + x
    OBVIOUS
  <2> QED
    BY <2>1, <2>3, <2>4, <2>5
<1>3. CASE x + r >= m
  <2> DEFINE s == x + r - m
  <2>1. s \in 0 .. m - 1 /\ x + r = m * 1 + s /\ s + (m - r) = x
    BY <1>3
  <2> HIDE DEF s
  <2>2. (m * 1 + s) % m = s
    BY <2>1, Divided
  <2>3. (x + r) % m = s
    BY <2>1, <2>2
  <2>4. (m * 0 + x) % m = x
    BY Divided
  <2>5. m * 0 + x = x
    OBVIOUS
  <2> QED
    BY <2>1, <2>3, <2>4, <2>5
<1> QED
  BY <1>2, <1>3

\* The constants of the alphabet.
LEMMA AlphaFacts ==
    /\ ALPHA \in Nat /\ UPPER \in Nat /\ LOWER \in Nat
    /\ UPPER + ALPHA =< LOWER /\ LOWER + ALPHA =< BYTE
<1>1. /\ ALPHA \in Nat /\ UPPER \in Nat /\ LOWER \in Nat
      /\ UPPER + ALPHA =< LOWER /\ LOWER + ALPHA =< BYTE \div 2
  BY FilterAssumption
<1>2. BYTE \div 2 =< BYTE
  BY ByteIs
<1> QED
  BY <1>1, <1>2, ByteIs

\* A letter turned by r < ALPHA places stays a letter of its case; turning it
\* on by the rest brings it back, and other bytes do not change.
LEMMA TurnTwice ==
    ASSUME NEW b \in Bytes, NEW r \in 1 .. ALPHA - 1
    PROVE  Turn(b, r) \in Bytes /\ Turn(Turn(b, r), ALPHA - r) = b
<1>1. b \in Nat /\ b < BYTE /\ r \in Nat /\ ALPHA \in Nat \ {0} /\ BYTE \in Nat
  BY AlphaFacts, ByteIs DEF Bytes
<1>2. CASE b \in UPPER .. UPPER + ALPHA - 1
  <2> DEFINE x == b - UPPER
  <2>1. /\ x \in 0 .. ALPHA - 1 /\ b = UPPER + x
        /\ ~(b \in LOWER .. LOWER + ALPHA - 1)
    BY <1>1, <1>2, AlphaFacts
  <2> HIDE DEF x
  <2> DEFINE y == (x + r) % ALPHA
  <2>2. y \in 0 .. ALPHA - 1 /\ (y + (ALPHA - r)) % ALPHA = x
    BY <1>1, <2>1, TurnBack
  <2>3. Turn(b, r) = UPPER + y
    BY <1>2, <2>1 DEF Turn, x
  <2> HIDE DEF y
  <2>4. /\ UPPER + y \in UPPER .. UPPER + ALPHA - 1 /\ (UPPER + y) - UPPER = y
        /\ ~(UPPER + y \in LOWER .. LOWER + ALPHA - 1)
    BY <2>2, AlphaFacts
  <2>5. Turn(UPPER + y, ALPHA - r) = UPPER + ((y + (ALPHA - r)) % ALPHA)
    BY <2>4 DEF Turn
  <2>6. UPPER + y \in Bytes
    BY <1>1, <2>2, AlphaFacts DEF Bytes
  <2> QED
    BY <2>1, <2>2, <2>3, <2>5, <2>6
<1>3. CASE b \in LOWER .. LOWER + ALPHA - 1
  <2> DEFINE x == b - LOWER
  <2>1. /\ x \in 0 .. ALPHA - 1 /\ b = LOWER + x
        /\ ~(b \in UPPER .. UPPER + ALPHA - 1)
    BY <1>1, <1>3, AlphaFacts
  <2> HIDE DEF x
  <2> DEFINE y == (x + r) % ALPHA
  <2>2. y \in 0 .. ALPHA - 1 /\ (y + (ALPHA - r)) % ALPHA = x
    BY <1>1, <2>1, TurnBack
  <2>3. Turn(b, r) = LOWER + y
    BY <1>3, <2>1 DEF Turn, x
  <2> HIDE DEF y
  <2>4. /\ LOWER + y \in LOWER .. LOWER + ALPHA - 1 /\ (LOWER + y) - LOWER = y
        /\ ~(LOWER + y \in UPPER .. UPPER + ALPHA - 1)
    BY <2>2, AlphaFacts
  <2>5. Turn(LOWER + y, ALPHA - r) = LOWER + ((y + (ALPHA - r)) % ALPHA)
    BY <2>4 DEF Turn
  <2>6. LOWER + y \in Bytes
    BY <1>1, <2>2, AlphaFacts DEF Bytes
  <2> QED
    BY <2>1, <2>2, <2>3, <2>5, <2>6
<1>4. CASE ~(b \in UPPER .. UPPER + ALPHA - 1) /\ ~(b \in LOWER .. LOWER + ALPHA - 1)
  <2>1. Turn(b, r) = b /\ Turn(b, ALPHA - r) = b
    BY <1>4 DEF Turn
  <2> QED
    BY <2>1
<1> QED
  BY <1>2, <1>3, <1>4

-----------------------------------------------------------------------------
(* The programs *)

\* A converted argument is a number, and its lowest bits are a byte.
LEMMA ConvertIs ==
    ASSUME NEW a \in Nat \cup {BAD}
    PROVE  Convert(a) \in Nat /\ Convert(a) % BYTE \in Bytes
<1>1. WORD \in Nat \ {0} /\ BYTE \in Nat \ {0}
  <2>1. WORD \in Nat /\ WORD > 0
    BY FilterAssumption
  <2> QED
    BY <2>1, ByteNat
<1>2. Convert(a) \in Nat
  <2>1. CASE a = BAD
    BY <1>1, <2>1 DEF Convert
  <2>2. CASE a # BAD
    <3>1. a \in Nat
      BY <2>2
    <3>2. a % WORD \in 0 .. WORD - 1
      BY <1>1, <3>1, DivMod
    <3>3. a % WORD \in Nat
      BY <1>1, <3>2
    <3> QED
      BY <2>2, <3>3 DEF Convert
  <2> QED
    BY <2>1, <2>2
<1>3. Convert(a) % BYTE \in 0 .. BYTE - 1
  BY <1>1, <1>2, DivMod
<1> QED
  BY <1>2, <1>3 DEF Bytes

\* The second program of a pipeline undoes, byte by byte, what the first did
\* with the same argument and the same counter.
LEMMA Undone ==
    ASSUME NEW p \in Pipelines, NEW a \in Nat \cup {BAD}, NEW e \in 0 .. 3,
           NEW b \in Bytes, Accepts(p[1], a)
    PROVE  /\ Changed(p[1], a, e, b) \in Bytes
           /\ Changed(p[2], a, e, b) \in Bytes
           /\ Changed(p[2], a, e, Changed(p[1], a, e, b)) = b
<1> DEFINE v == Convert(a) % BYTE
<1>1. Convert(a) \in Nat /\ v \in Bytes
  BY ConvertIs
<1> HIDE DEF v
<1>2. ASSUME p = <<"coder", "decoder">> \/ p = <<"coder2e", "coder2d">>
      PROVE  /\ Changed(p[1], a, e, b) \in Bytes
             /\ Changed(p[2], a, e, b) \in Bytes
             /\ Changed(p[2], a, e, Changed(p[1], a, e, b)) = b
  <2>1. /\ p[1] \in {"coder", "coder2e"} /\ p[2] \in {"decoder", "coder2d"}
        /\ p[1] \notin {"decoder", "coder2d", "rot", "unrot"}
        /\ p[2] \notin {"coder", "coder2e", "rot", "unrot"}
    BY <1>2
  <2>2. \A c : Changed(p[1], a, e, c) = xor(rol(c, e), v)
    BY <2>1 DEF Changed, v
  <2>3. \A c : Changed(p[2], a, e, c) = ror(xor(c, v), e)
    BY <2>1 DEF Changed, v
  <2> DEFINE r == rol(b, e)
  <2>4. r \in Bytes /\ ror(r, e) = b
    BY RolRor
  <2> HIDE DEF r
  <2>5. xor(r, v) \in Bytes /\ xor(xor(r, v), v) = r
    BY <1>1, <2>4, XorTwice
  <2>6. xor(b, v) \in Bytes
    BY <1>1, XorTwice
  <2>7. ror(xor(b, v), e) \in Bytes
    BY <2>6, RolRor
  <2>8. Changed(p[1], a, e, b) = xor(r, v)
    BY <2>2 DEF r
  <2>9. Changed(p[2], a, e, xor(r, v)) = ror(xor(xor(r, v), v), e)
    BY <2>3
  <2> QED
    BY <2>3, <2>4, <2>5, <2>7, <2>8, <2>9
<1>3. ASSUME p = <<"rot", "unrot">>
      PROVE  /\ Changed(p[1], a, e, b) \in Bytes
             /\ Changed(p[2], a, e, b) \in Bytes
             /\ Changed(p[2], a, e, Changed(p[1], a, e, b)) = b
  <2>1. p[1] = "rot" /\ p[2] = "unrot"
    BY <1>3
  <2> DEFINE r == Convert(a)
  <2>2. r \in 1 .. ALPHA - 1
    BY <2>1 DEF Accepts, RotAccepts
  <2>3. \A c : Changed("rot", a, e, c) = Turn(c, r)
    BY DEF Changed
  <2>4. \A c : Changed("unrot", a, e, c) = Turn(c, ALPHA - r)
    BY DEF Changed
  <2> HIDE DEF r
  <2>5. ALPHA - r \in 1 .. ALPHA - 1
    BY <2>2, AlphaFacts
  <2>6. Turn(b, r) \in Bytes /\ Turn(Turn(b, r), ALPHA - r) = b
    BY <2>2, TurnTwice
  <2>7. Turn(b, ALPHA - r) \in Bytes
    BY <2>5, TurnTwice
  <2> QED
    BY <2>1, <2>3, <2>4, <2>6, <2>7
<1>4. ASSUME p = <<"encode", "decode">>
      PROVE  /\ Changed(p[1], a, e, b) \in Bytes
             /\ Changed(p[2], a, e, b) \in Bytes
             /\ Changed(p[2], a, e, Changed(p[1], a, e, b)) = b
  <2>1. p[1] = "encode" /\ p[2] = "decode"
    BY <1>4
  <2>2. \A c : Changed(p[1], a, e, c) = c /\ Changed(p[2], a, e, c) = c
    BY <2>1 DEF Changed
  <2> QED
    BY <2>2
<1> QED
  BY <1>2, <1>3, <1>4 DEF Pipelines

\* The names of the programs.
LEMMA ProgIs ==
    ASSUME progs \in Pipelines, stage \in {1, 2}
    PROVE  /\ Encoding <=> Chunk = 2
           /\ ~Encoding => Chunk = 1
           /\ Encoding => prog = IF stage = 1 THEN "encode" ELSE "decode"
           /\ prog = "encode" <=> Encoding /\ stage = 1
           /\ prog = "decode" <=> Encoding /\ stage = 2
BY DEF Pipelines, Encoding, Chunk, prog

\* Transform does what Changed says.
LEMMA TransformIs ==
    ASSUME progs \in Pipelines, stage \in {1, 2}, NEW b
    PROVE  Transform(b) = Changed(progs[stage], arg, ecx, b)
<1>1. prog = progs[stage]
  BY DEF prog
<1>2. prog \in {"coder", "decoder", "coder2e", "coder2d", "rot", "unrot",
                "encode", "decode"}
  BY DEF Pipelines, prog
<1>3. CASE prog = "coder"
  BY <1>1, <1>3 DEF Transform, Changed, coder, xor_val
<1>4. CASE prog = "decoder"
  BY <1>1, <1>4 DEF Transform, Changed, decoder, xor_val
<1>5. CASE prog = "coder2e"
  BY <1>1, <1>5 DEF Transform, Changed, coder2, xor_val
<1>6. CASE prog = "coder2d"
  BY <1>1, <1>6 DEF Transform, Changed, coder2, xor_val
<1>7. CASE prog = "rot"
  BY <1>1, <1>7 DEF Transform, Changed, rotate, rotval, Turn
<1>8. CASE prog = "unrot"
  BY <1>1, <1>8 DEF Transform, Changed, rotate, rotval, Turn
<1>9. CASE prog \in {"encode", "decode"}
  BY <1>1, <1>9 DEF Transform, Changed
<1> QED
  BY <1>2, <1>3, <1>4, <1>5, <1>6, <1>7, <1>8, <1>9

-----------------------------------------------------------------------------
(* The sums *)

\* What a byte at place n adds.
Weighed(s, n) == s[n] * (IF n % 2 = 1 THEN BYTE ELSE 1)

\* The recursion of the partial sums.
LEMMA SumsIs ==
    ASSUME NEW s \in Seq(Bytes)
    PROVE  /\ Sums(s)[0] = 0
           /\ \A n \in 1 .. Len(s) : Sums(s)[n] = Sums(s)[n - 1] + Weighed(s, n)
           /\ \A n \in 0 .. Len(s) : Sums(s)[n] \in Nat
<1> DEFINE N == Len(s)
<1> DEFINE G == [n \in 1 .. N |-> [x \in Nat |-> x + Weighed(s, n)]]
<1>0. N \in Nat
  OBVIOUS
<1>1. ASSUME NEW n \in 1 .. N PROVE Weighed(s, n) \in Nat
  <2>1. s[n] \in Bytes
    BY ElementOfSeq
  <2>2. s[n] \in Nat /\ BYTE \in Nat
    BY <2>1, ByteNat
  <2>3. s[n] * BYTE \in Nat /\ s[n] * 1 \in Nat
    BY <2>2
  <2> QED
    BY <2>3 DEF Weighed
<1>2. G \in [1 .. N -> [Nat -> Nat]] /\ 0 \in Nat
  <2> HIDE DEF N
  <2> QED
    BY <1>1
<1> HIDE DEF G
<1>3. PICK f \in [0 .. N -> Nat] : Follows(f, 0, G, N)
  <2> HIDE DEF N
  <2> QED
    BY <1>0, <1>2, Recursion
<1>4. f[0] = 0
  BY <1>3 DEF Follows
<1>5. ASSUME NEW n \in 1 .. N PROVE f[n] = f[n - 1] + Weighed(s, n)
  <2>1. n - 1 \in 0 .. N
    BY <1>0
  <2> HIDE DEF N
  <2>2. f[n - 1] \in Nat
    BY <2>1
  <2>3. f[n] = G[n][f[n - 1]]
    BY <1>3 DEF Follows
  <2> QED
    BY <2>2, <2>3 DEF G
<1> DEFINE Body(w, n) == IF n = 0 THEN 0
                         ELSE w[n - 1] + s[n] * (IF n % 2 = 1 THEN BYTE ELSE 1)
<1>6. ASSUME NEW n \in 0 .. N PROVE f[n] = Body(f, n)
  <2>1. n # 0 => n \in 1 .. N
    BY <1>0
  <2> QED
    BY <1>4, <1>5, <2>1 DEF Weighed
<1>7. f = [n \in 0 .. Len(s) |-> Body(f, n)]
  <2> HIDE DEF Body
  <2> QED
    BY <1>6
<1>8. Sums(s) = [n \in 0 .. Len(s) |-> Body(Sums(s), n)]
  BY <1>7 DEF Sums
<1> DEFINE w == Sums(s)
<1>9. w = [n \in 0 .. N |-> Body(w, n)]
  BY <1>8
<1> HIDE DEF w, N
<1>10. 0 \in 0 .. N
  BY <1>0
<1>11. w[0] = 0
  BY <1>9, <1>10
<1>12. ASSUME NEW n \in 1 .. N PROVE w[n] = w[n - 1] + Weighed(s, n)
  <2>1. n \in 0 .. N /\ n # 0
    BY <1>0
  <2> QED
    BY <1>9, <2>1 DEF Weighed
<1> DEFINE Bad == {n \in 0 .. N : w[n] \notin Nat}
<1>13. ASSUME Bad # {} PROVE FALSE
  <2>1. Bad \subseteq Nat
    BY <1>0
  <2>2. PICK n \in Bad : \A k \in Bad : n =< k
    <3> HIDE DEF Bad
    <3> QED
      BY <1>13, <2>1, LeastNat
  <2>3. n # 0
    BY <1>11
  <2>4. n \in 1 .. N /\ n - 1 \in 0 .. N /\ n - 1 \notin Bad
    BY <1>0, <2>2, <2>3
  <2>5. w[n - 1] \in Nat /\ Weighed(s, n) \in Nat
    BY <1>1, <2>4
  <2>6. w[n] = w[n - 1] + Weighed(s, n)
    BY <1>12, <2>4
  <2> QED
    BY <2>5, <2>6
<1> QED
  BY <1>11, <1>12, <1>13 DEF w, N

\* The two bytes of a word.
LEMMA TwoBytes ==
    ASSUME NEW c \in 0 .. BYTE * BYTE - 1
    PROVE  /\ c % BYTE \in Bytes /\ c \div BYTE \in Bytes
           /\ c \in Nat /\ c = (c % BYTE) + (c \div BYTE) * BYTE
<1>1. BYTE \in Nat \ {0} /\ BYTE * BYTE \in Nat \ {0}
  BY ByteNat
<1>2. PICK h \in 0 .. BYTE - 1, l \in 0 .. BYTE - 1 : c = BYTE * h + l
  BY <1>1, DigitsOf
<1>3. (BYTE * h + l) \div BYTE = h /\ (BYTE * h + l) % BYTE = l
  <2>1. h \in Nat
    BY <1>1, <1>2
  <2> QED
    BY <1>1, <1>2, <2>1, Divided
<1>4. c \div BYTE = h /\ c % BYTE = l
  BY <1>2, <1>3
<1>5. c = (c % BYTE) + (c \div BYTE) * BYTE /\ c \in Nat
  <2>1. BYTE * h + l = l + h * BYTE
    BY <1>1, <1>2
  <2> QED
    BY <1>1, <1>2, <1>4, <2>1
<1> QED
  BY <1>2, <1>4, <1>5 DEF Bytes

\* WordSum is the last of them, a sum of two bytes' width.
LEMMA WordSumIs ==
    ASSUME NEW s \in Seq(Bytes)
    PROVE  /\ WordSum(s) = Sums(s)[Len(s)] % (BYTE * BYTE)
           /\ WordSum(s) \in 0 .. BYTE * BYTE - 1
<1>1. WordSum(s) = Sums(s)[Len(s)] % (BYTE * BYTE)
  BY DEF WordSum, Sums
<1>2. Len(s) \in 0 .. Len(s)
  OBVIOUS
<1>3. Sums(s)[Len(s)] \in Nat
  BY <1>2, SumsIs
<1> DEFINE m == BYTE * BYTE
<1> DEFINE y == Sums(s)[Len(s)]
<1> DEFINE c == WordSum(s)
<1>4. m \in Nat \ {0} /\ y \in Nat /\ c = y % m
  BY <1>1, <1>3, ByteNat
<1> HIDE DEF m, y, c
<1>5. c \in 0 .. m - 1
  BY <1>4, DivMod
<1> QED
  BY <1>1, <1>5 DEF c, m

\* What encode makes of a file is two bytes longer.
LEMMA SealedIs ==
    ASSUME NEW s \in Seq(Bytes)
    PROVE  /\ Sealed(s) \in Seq(Bytes) /\ Len(Sealed(s)) = Len(s) + 2
           /\ \A i \in 1 .. Len(s) : Sealed(s)[i] = s[i]
           /\ Sealed(s)[Len(s) + 1] = WordSum(s) % BYTE
           /\ Sealed(s)[Len(s) + 2] = WordSum(s) \div BYTE
<1> DEFINE x == WordSum(s) % BYTE
<1> DEFINE y == WordSum(s) \div BYTE
<1> DEFINE t == <<x, y>>
<1>1. x \in Bytes /\ y \in Bytes
  BY WordSumIs, TwoBytes
<1> HIDE DEF x, y
<1>2. t \in Seq(Bytes) /\ Len(t) = 2 /\ t[1] = x /\ t[2] = y
  BY <1>1
<1>3. Sealed(s) = s \o t
  BY DEF Sealed, x, y
<1> HIDE DEF t
<1> DEFINE u == s \o t
<1>4. /\ u \in Seq(Bytes) /\ Len(u) = Len(s) + Len(t)
      /\ \A i \in 1 .. Len(s) + Len(t) : u[i] = IF i <= Len(s) THEN s[i] ELSE t[i - Len(s)]
  BY <1>2, ConcatProperties
<1>5. Len(s) \in Nat
  BY LenProperties
<1> HIDE DEF u
<1> DEFINE n == Len(s)
<1>6. /\ n \in Nat /\ Len(u) = n + 2
      /\ \A i \in 1 .. n + 2 : u[i] = IF i <= n THEN s[i] ELSE t[i - n]
  BY <1>2, <1>4, <1>5
<1> HIDE DEF n
<1>7. /\ n + 1 \in 1 .. n + 2 /\ ~(n + 1 <= n) /\ (n + 1) - n = 1
      /\ n + 2 \in 1 .. n + 2 /\ ~(n + 2 <= n) /\ (n + 2) - n = 2
      /\ \A i \in 1 .. n : i \in 1 .. n + 2 /\ i <= n
  BY <1>6
<1>8. u[n + 1] = x /\ u[n + 2] = y /\ \A i \in 1 .. n : u[i] = s[i]
  BY <1>2, <1>6, <1>7
<1> QED
  BY <1>3, <1>4, <1>6, <1>8 DEF u, n, x, y

\* A sum may be reduced before something is added.
LEMMA ModAdd ==
    ASSUME NEW x \in Nat, NEW y \in Nat, NEW m \in Nat \ {0}
    PROVE  ((x % m) + y) % m = (x + y) % m
<1> DEFINE q == x \div m
<1> DEFINE r == x % m
<1>1. x = m * q + r /\ q \in Nat /\ r \in 0 .. m - 1
  BY DivMod
<1> HIDE DEF q, r
<1>2. x + y = m * q + (r + y)
  BY <1>1
<1> DEFINE z == r + y
<1>3. z \in Nat
  BY <1>1
<1>4. (m * q + z) % m = z % m
  <2> HIDE DEF z
  <2> QED
    BY <1>1, <1>3, ModSum
<1> QED
  BY <1>2, <1>4 DEF r

\* Where the next word is.
LEMMA Places ==
    ASSUME NEW i \in Nat, i % 2 = 0, NEW n \in Nat, NEW k \in {1, 2}, i + k =< n
    PROVE  /\ i + 1 \in 1 .. n /\ i \in 0 .. n /\ (i + 1) - 1 = i
           /\ (i + 1) % 2 = 1 /\ (i + 2) % 2 = 0 /\ (i + 2) - 1 = i + 1
OBVIOUS

\* The next word, or the last byte, of a file: what ADD adds to the sum.
LEMMA AddWord ==
    ASSUME NEW s \in Seq(Bytes), NEW i \in Nat, i % 2 = 0,
           NEW c \in Seq(Bytes), Len(c) \in {1, 2}, i + Len(c) =< Len(s),
           \A k \in 1 .. Len(c) : c[k] = s[i + k]
    PROVE  ((Sums(s)[i] % (BYTE * BYTE)) + Swapped(c)) % (BYTE * BYTE) =
             Sums(s)[i + Len(c)] % (BYTE * BYTE)
<1>1. /\ i + 1 \in 1 .. Len(s) /\ i \in 0 .. Len(s) /\ (i + 1) - 1 = i
      /\ (i + 1) % 2 = 1 /\ (i + 2) % 2 = 0 /\ (i + 2) - 1 = i + 1
  <2>1. Len(s) \in Nat /\ Len(c) \in {1, 2} /\ i + Len(c) =< Len(s)
    BY LenProperties
  <2> QED
    BY <2>1, Places
<1>2. Sums(s)[i] \in Nat /\ Sums(s)[i + 1] = Sums(s)[i] + Weighed(s, i + 1)
  BY <1>1, SumsIs
<1>3. Weighed(s, i + 1) = s[i + 1] * BYTE /\ s[i + 1] \in Nat /\ c[1] = s[i + 1]
  <2>1. s[i + 1] \in Bytes
    BY <1>1, ElementOfSeq
  <2>2. 1 \in 1 .. Len(c)
    <3>1. \A k \in {1, 2} : 1 \in 1 .. k
      OBVIOUS
    <3> QED
      BY <3>1, Zenon
  <2>3. Weighed(s, i + 1) = s[i + 1] * BYTE
    BY <1>1 DEF Weighed
  <2> QED
    BY <2>1, <2>2, <2>3, ByteNat
<1> DEFINE m == BYTE * BYTE
<1>4. m \in Nat \ {0} /\ BYTE \in Nat
  BY ByteNat
<1>5. Swapped(c) \in Nat /\ Sums(s)[i + Len(c)] = Sums(s)[i] + Swapped(c)
  <2>1. CASE Len(c) = 1
    <3>1. Swapped(c) = s[i + 1] * BYTE + 0
      BY <1>3, <2>1 DEF Swapped
    <3>2. Swapped(c) = Weighed(s, i + 1) /\ Swapped(c) \in Nat
      BY <1>3, <1>4, <3>1
    <3> QED
      BY <1>2, <2>1, <3>2
  <2>2. CASE Len(c) = 2
    <3>1. i + 2 \in 1 .. Len(s) /\ c[2] = s[i + 2]
      BY <2>2
    <3>2. Sums(s)[i + 2] = Sums(s)[i + 1] + Weighed(s, i + 2)
      BY <1>1, <3>1, SumsIs
    <3>3. s[i + 2] \in Nat
      <4>1. s[i + 2] \in Bytes
        BY <3>1, ElementOfSeq
      <4> QED
        BY <4>1, ByteNat
    <3>4. Weighed(s, i + 2) = s[i + 2] * 1
      BY <1>1 DEF Weighed
    <3>5. Swapped(c) = s[i + 1] * BYTE + s[i + 2]
      BY <1>3, <2>2, <3>1 DEF Swapped
    <3> DEFINE x == s[i + 1] * BYTE
    <3>6. x \in Nat
      BY <1>3, <1>4
    <3>7. /\ Swapped(c) = x + s[i + 2]
          /\ Sums(s)[i + 1] = Sums(s)[i] + x
      BY <1>2, <1>3, <3>5
    <3> HIDE DEF x
    <3> QED
      BY <1>2, <2>2, <3>2, <3>3, <3>4, <3>6, <3>7
  <2> QED
    BY <2>1, <2>2
<1> DEFINE x == Sums(s)[i]
<1> DEFINE y == Swapped(c)
<1>6. x \in Nat /\ y \in Nat
  BY <1>2, <1>5
<1>7. ((x % m) + y) % m = (x + y) % m
  <2> HIDE DEF x, y, m
  <2> QED
    BY <1>4, <1>6, ModAdd
<1> QED
  BY <1>5, <1>7

-----------------------------------------------------------------------------
(* Files *)

\* A function on 1 .. n with bytes as values is a file of n bytes.
LEMMA MakeFile ==
    ASSUME NEW n \in Nat, NEW f \in [1 .. n -> Bytes]
    PROVE  f \in Seq(Bytes) /\ Len(f) = n
<1>1. f \in Seq(Bytes)
  BY SeqDef
<1>2. Len(f) \in Nat /\ DOMAIN f = 1 .. Len(f)
  BY <1>1, LenProperties
<1>3. DOMAIN f = 1 .. n
  OBVIOUS
<1>4. 1 .. n = 1 .. Len(f)
  BY <1>2, <1>3
<1> DEFINE m == Len(f)
<1>5. m \in Nat /\ 1 .. n = 1 .. m
  BY <1>2, <1>4
<1> HIDE DEF m
<1>6. m = n
  <2>1. ASSUME m > n PROVE FALSE
    <3>1. m \in 1 .. m /\ ~(m \in 1 .. n)
      BY <1>5, <2>1
    <3> QED
      BY <1>5, <3>1
  <2>2. ASSUME n > m PROVE FALSE
    <3>1. n \in 1 .. n /\ ~(n \in 1 .. m)
      BY <1>5, <2>2
    <3> QED
      BY <1>5, <3>1
  <2> QED
    BY <1>5, <2>1, <2>2
<1> QED
  BY <1>1, <1>6 DEF m

\* What write does to a file at a position inside it or at its end.
LEMMA OverwriteIs ==
    ASSUME NEW f \in Seq(Bytes), NEW s \in Seq(Bytes), NEW p \in Nat, p =< Len(f)
    PROVE  LET g == Overwrite(f, p, s) IN
           /\ g \in Seq(Bytes)
           /\ Len(g) = IF Len(f) > p + Len(s) THEN Len(f) ELSE p + Len(s)
           /\ \A i \in 1 .. Len(g) :
                g[i] = IF i > p /\ i =< p + Len(s) THEN s[i - p] ELSE f[i]
<1> DEFINE n == IF Len(f) > p + Len(s) THEN Len(f) ELSE p + Len(s)
<1> DEFINE e(i) == IF i > p /\ i =< p + Len(s) THEN s[i - p] ELSE f[i]
<1> DEFINE g == [i \in 1 .. n |-> e(i)]
<1>1. Overwrite(f, p, s) = g
  BY DEF Overwrite
<1>2. Len(f) \in Nat /\ Len(s) \in Nat /\ n \in Nat
  BY LenProperties
<1>3. ASSUME NEW i \in 1 .. n PROVE e(i) \in Bytes
  <2>1. CASE i > p /\ i =< p + Len(s)
    <3>1. i - p \in 1 .. Len(s)
      BY <1>2, <2>1
    <3> QED
      BY <2>1, <3>1, ElementOfSeq
  <2>2. CASE ~(i > p /\ i =< p + Len(s))
    <3>1. i \in 1 .. Len(f)
      BY <1>2, <2>2
    <3> QED
      BY <2>2, <3>1, ElementOfSeq
  <2> QED
    BY <2>1, <2>2
<1>4. g \in [1 .. n -> Bytes] /\ \A i \in 1 .. n : g[i] = e(i)
  <2> HIDE DEF e, n
  <2> QED
    BY <1>3
<1>5. g \in Seq(Bytes) /\ Len(g) = n
  <2> HIDE DEF g, n
  <2> QED
    BY <1>2, <1>4, MakeFile
<1> HIDE DEF g
<1> QED
  BY <1>1, <1>4, <1>5

\* The parts of the file before and after what is written stay.
LEMMA OverwriteParts ==
    ASSUME NEW f \in Seq(Bytes), NEW s \in Seq(Bytes), NEW p \in Nat, p =< Len(f)
    PROVE  LET g == Overwrite(f, p, s) IN
           /\ g \in Seq(Bytes) /\ Len(g) >= p + Len(s) /\ Len(g) >= Len(f)
           /\ \/ Len(g) = Len(f)
              \/ Len(g) = p + Len(s)
           /\ Len(f) = p => Len(g) = p + Len(s)
           /\ \A i \in Nat \ {0} : i =< p => g[i] = f[i]
           /\ \A i \in Nat : (i > p + Len(s) /\ i =< Len(f)) => g[i] = f[i]
           /\ \A k \in 1 .. Len(s) : g[p + k] = s[k]
<1> DEFINE g == Overwrite(f, p, s)
<1>1. /\ g \in Seq(Bytes)
      /\ Len(g) = IF Len(f) > p + Len(s) THEN Len(f) ELSE p + Len(s)
      /\ \A i \in 1 .. Len(g) :
           g[i] = IF i > p /\ i =< p + Len(s) THEN s[i - p] ELSE f[i]
  BY OverwriteIs
<1> HIDE DEF g
<1>2. Len(f) \in Nat /\ Len(s) \in Nat /\ Len(g) \in Nat
  BY <1>1, LenProperties
<1>3. /\ Len(g) >= p + Len(s) /\ Len(g) >= Len(f)
      /\ Len(g) = Len(f) \/ Len(g) = p + Len(s)
      /\ Len(f) = p => Len(g) = p + Len(s)
  BY <1>1, <1>2
<1>4. ASSUME NEW i \in Nat \ {0}, i =< p PROVE g[i] = f[i]
  <2>1. i \in 1 .. Len(g) /\ ~(i > p)
    BY <1>2, <1>3, <1>4
  <2> QED
    BY <1>1, <2>1
<1>5. ASSUME NEW i \in Nat, i > p + Len(s), i =< Len(f) PROVE g[i] = f[i]
  <2>1. i \in 1 .. Len(g) /\ ~(i =< p + Len(s))
    BY <1>2, <1>3, <1>5
  <2> QED
    BY <1>1, <2>1
<1>6. ASSUME NEW k \in 1 .. Len(s) PROVE g[p + k] = s[k]
  <2>1. p + k \in 1 .. Len(g) /\ p + k > p /\ p + k =< p + Len(s) /\ (p + k) - p = k
    BY <1>2, <1>3
  <2> QED
    BY <1>1, <2>1
<1> QED
  BY <1>1, <1>3, <1>4, <1>5, <1>6 DEF g

\* What ftruncate leaves is a file.
LEMMA ResizeIs ==
    ASSUME NEW f \in Seq(Bytes), NEW n \in Nat
    PROVE  Resize(f, n) \in Seq(Bytes)
<1>1. Len(f) \in Nat
  BY LenProperties
<1>2. 0 \in Bytes
  BY ByteIs DEF Bytes
<1> DEFINE e(i) == IF i =< Len(f) THEN f[i] ELSE 0
<1>3. ASSUME NEW i \in 1 .. n PROVE e(i) \in Bytes
  <2>1. i =< Len(f) => i \in 1 .. Len(f)
    BY <1>1
  <2> QED
    BY <1>2, <2>1, ElementOfSeq
<1> DEFINE g == [i \in 1 .. n |-> e(i)]
<1>4. g \in [1 .. n -> Bytes]
  <2> HIDE DEF e
  <2> QED
    BY <1>3
<1>5. Resize(f, n) = g
  BY DEF Resize
<1> HIDE DEF g
<1> QED
  BY <1>4, <1>5, MakeFile

\* The bytes that a read returns.
LEMMA ReadIs ==
    ASSUME NEW f \in Seq(Bytes), NEW i \in Nat, i =< Len(f), NEW n \in {1, 2}
    PROVE  LET c == SubSeq(f, i + 1, IF i + n > Len(f) THEN Len(f) ELSE i + n) IN
           /\ c \in Seq(Bytes)
           /\ c = <<>> <=> i = Len(f)
           /\ c # <<>> => Len(c) \in 1 .. n
           /\ i + Len(c) =< Len(f)
           /\ Len(c) = n \/ i + Len(c) = Len(f)
           /\ \A k \in 1 .. Len(c) : c[k] = f[i + k]
<1> DEFINE e == IF i + n > Len(f) THEN Len(f) ELSE i + n
<1> DEFINE a == i + 1
<1> DEFINE c == SubSeq(f, a, e)
<1>1. Len(f) \in Nat
  BY LenProperties
<1>2. /\ a \in Int /\ e \in Int /\ e =< Len(f) /\ a >= 1
      /\ a = i + 1 /\ e >= i
      /\ e = Len(f) \/ e = i + n
      /\ e =< i + n
      /\ e = i <=> i = Len(f)
  BY <1>1
<1> HIDE DEF e, a
<1>3. \A k \in a .. e : f[k] \in Bytes
  <2>1. \A k \in a .. e : k \in 1 .. Len(f)
    BY <1>1, <1>2
  <2> QED
    BY <2>1, ElementOfSeq
<1>4. /\ c \in Seq(Bytes)
      /\ Len(c) = IF a <= e THEN e - a + 1 ELSE 0
      /\ \A k \in 1 .. e - a + 1 : c[k] = f[a + k - 1]
  BY <1>2, <1>3, SubSeqProperties
<1> HIDE DEF c
<1>5. Len(c) = e - i /\ e - a + 1 = e - i
  BY <1>1, <1>2, <1>4
<1>6. \A k \in 1 .. Len(c) : c[k] = f[i + k]
  <2>1. ASSUME NEW k \in 1 .. Len(c) PROVE c[k] = f[i + k]
    <3>1. c[k] = f[a + k - 1]
      BY <1>4, <1>5
    <3>2. a + k - 1 = i + k
      BY <1>2, <1>5
    <3> QED
      BY <3>1, <3>2
  <2> QED
    BY <2>1
<1>7. c = <<>> <=> Len(c) = 0
  BY <1>4, EmptySeq
<1>8. i = Len(f) <=> Len(c) = 0
  BY <1>1, <1>2, <1>5
<1>9. Len(c) # 0 => Len(c) \in 1 .. n
  BY <1>1, <1>2, <1>5
<1>10. /\ i + Len(c) =< Len(f)
       /\ Len(c) = n \/ i + Len(c) = Len(f)
  BY <1>1, <1>2, <1>5
<1> QED
  BY <1>4, <1>6, <1>7, <1>8, <1>9, <1>10 DEF c, a, e

-----------------------------------------------------------------------------
(* The inductive invariant *)

\* What a behaviour is started with.
SettingOK ==
    /\ progs \in Pipelines
    /\ path \in {<<1, 2, 3>>, <<1, 1, 1>>}
    /\ InPlace => ~Encoding /\ fresh
    /\ orig \in Seq(Bytes)
    /\ arg \in Nat \cup {BAD}
    /\ fresh \in BOOLEAN
    /\ files \in [1 .. 3 -> Seq(Bytes) \cup {NONE}]

\* Where the programs are, and what they exited with.
PhaseOK ==
    /\ stage \in {1, 2}
    /\ pc \in {"start", "get_checksum", "loop", "exit"}
    /\ status \in Seq(Codes)
    /\ Len(status) = (stage - 1) + (IF pc = "exit" THEN 1 ELSE 0)
    /\ stage = 2 => status[1] \in Good
    /\ pc = "get_checksum" => stage = 2 /\ Encoding

FirstDone == stage = 1 /\ pc = "exit" /\ status[1] \in Good
Reading == pc \in {"get_checksum", "loop"}

\* The argument that the first program accepted.
ArgOK == (Reading \/ FirstDone \/ stage = 2) => Accepts(progs[1], arg)

\* Files that no program has opened yet.
UnopenedOK ==
    /\ (stage = 1 /\ pc = "start") =>
         files[1] = orig /\ ((fresh /\ ~InPlace) => files[2] = NONE)
    /\ ((stage = 1 \/ pc = "start") /\ fresh /\ ~InPlace) => files[3] = NONE

\* The file between the two programs: as long as the original if the files
\* were new, and the original and its sum if encode wrote it.
MiddleOK ==
    (FirstDone \/ (stage = 2 /\ pc = "start")) =>
      /\ files[path[2]] \in Seq(Bytes)
      /\ Len(files[path[2]]) >= Len(orig)
      /\ \A i \in 1 .. Len(orig) : files[path[2]][i] = Middle(i)
      /\ (~Encoding /\ fresh) => Len(files[path[2]]) = Len(orig)
      /\ (Encoding /\ fresh) => files[path[2]] = Sealed(orig)

\* In the loop: what is behind the positions is transformed, what is ahead of
\* them is still to be read, also when both files are one.
LoopOK ==
    Reading =>
      /\ infile \in Seq(Bytes)
      /\ files[path[stage + 1]] \in Seq(Bytes)
      /\ in \in Nat /\ in = out /\ in =< Len(infile) /\ in =< Len(outfile)
      /\ Len(infile) >= Len(orig)
      /\ stage = 1 => Len(infile) = Len(orig)
      /\ (~Encoding /\ fresh) =>
           Len(infile) = Len(orig) /\ Len(outfile) =< Len(orig)
      /\ \A i \in 1 .. Len(orig) : i > in => infile[i] = Before(i)
      /\ \A i \in 1 .. Len(orig) : i =< in => outfile[i] = After(i)
      /\ ~Encoding => ecx = in % 4
      /\ pc = "get_checksum" => in = 0
      /\ r12 \in 0 .. BYTE * BYTE - 1

\* The sums of encode and decode.
SumOK ==
    (Reading /\ Encoding /\ fresh) =>
      /\ infile = IF stage = 1 THEN orig ELSE Sealed(orig)
      /\ in % 2 = 0 \/ in = Len(infile)
      /\ r12 = Sums(infile)[in] % (BYTE * BYTE)
      /\ stage = 1 => Len(outfile) = in
      /\ (stage = 2 /\ pc = "loop") => checksum = WordSum(orig)

\* What the second program leaves.
ResultOK ==
    (stage = 2 /\ pc = "exit" /\ status[2] \in Good) =>
      RoundTrip /\ VerdictCountsChecksum

Consistent ==
    /\ SettingOK /\ PhaseOK /\ ArgOK /\ UnopenedOK
    /\ MiddleOK /\ LoopOK /\ SumOK /\ ResultOK

\* Nothing is said once a read or a write has failed.
FilterInv == ~lost => Consistent

-----------------------------------------------------------------------------
(* The state *)

\* The names of the files.
LEMMA PathIs ==
    ASSUME SettingOK
    PROVE  /\ InPlace => path[1] = 1 /\ path[2] = 1 /\ path[3] = 1
           /\ ~InPlace => path[1] = 1 /\ path[2] = 2 /\ path[3] = 3
           /\ \A k \in 1 .. 3 : path[k] \in 1 .. 3
BY DEF SettingOK, InPlace

\* The files of the program that runs.
LEMMA StageIs ==
    ASSUME SettingOK, PhaseOK
    PROVE  /\ stage \in {1, 2} /\ path[stage] \in 1 .. 3 /\ path[stage + 1] \in 1 .. 3
           /\ InPlace => path[stage] = 1 /\ path[stage + 1] = 1
           /\ ~InPlace => path[stage] = stage /\ path[stage + 1] = stage + 1
           /\ InPlace => path[2] = 1 /\ path[3] = 1
<1>1. stage \in {1, 2}
  BY DEF PhaseOK
<1>2. CASE stage = 1
  BY <1>2, PathIs
<1>3. CASE stage = 2
  BY <1>3, PathIs
<1> QED
  BY <1>1, <1>2, <1>3

\* The output, which is empty if it did not exist.
LEMMA OutfileIs ==
    ASSUME SettingOK, PhaseOK
    PROVE  /\ outfile \in Seq(Bytes)
           /\ files[path[stage + 1]] = NONE => outfile = <<>>
           /\ files[path[stage + 1]] \in Seq(Bytes) => outfile = files[path[stage + 1]]
<1>1. files[path[stage + 1]] \in Seq(Bytes) \cup {NONE}
  <2>1. path[stage + 1] \in 1 .. 3
    BY StageIs
  <2>2. files \in [1 .. 3 -> Seq(Bytes) \cup {NONE}]
    BY DEF SettingOK
  <2> QED
    BY <2>1, <2>2
<1>2. NONE \notin Seq(Bytes) /\ <<>> \in Seq(Bytes)
  BY FilterAssumption, EmptySeq
<1> DEFINE g == files[path[stage + 1]]
<1>3. outfile = IF g = NONE THEN <<>> ELSE g
  BY DEF outfile
<1>4. g \in Seq(Bytes) \cup {NONE}
  BY <1>1
<1> HIDE DEF g
<1>5. /\ outfile \in Seq(Bytes)
      /\ g = NONE => outfile = <<>>
      /\ g \in Seq(Bytes) => outfile = g
  BY <1>2, <1>3, <1>4
<1> QED
  BY <1>5 DEF g

\* Storing s as the output of the program that runs.
LEMMA StoreIs ==
    ASSUME SettingOK, PhaseOK, NEW s \in Seq(Bytes), SetOutfile(s),
           UNCHANGED <<path, stage>>
    PROVE  /\ files' \in [1 .. 3 -> Seq(Bytes) \cup {NONE}]
           /\ files'[path[stage + 1]] = s /\ outfile' = s
           /\ InPlace => infile' = s
           /\ ~InPlace => infile' = infile
           /\ ~InPlace => \A k \in 1 .. 3 : k # stage + 1 => files'[k] = files[k]
<1>1. /\ stage \in {1, 2} /\ path[stage] \in 1 .. 3 /\ path[stage + 1] \in 1 .. 3
      /\ InPlace => path[stage] = 1 /\ path[stage + 1] = 1
      /\ ~InPlace => path[stage] = stage /\ path[stage + 1] = stage + 1
  BY StageIs
<1>2. files \in [1 .. 3 -> Seq(Bytes) \cup {NONE}]
  BY DEF SettingOK
<1>3. files' = [files EXCEPT ![path[stage + 1]] = s]
  BY DEF SetOutfile
<1> DEFINE F == Seq(Bytes) \cup {NONE}
<1> DEFINE o == path[stage + 1]
<1>4. files \in [1 .. 3 -> F] /\ s \in F /\ o \in 1 .. 3 /\ files' = [files EXCEPT ![o] = s]
  BY <1>1, <1>2, <1>3
<1> HIDE DEF F, o
<1>5. /\ files' \in [1 .. 3 -> F] /\ files'[o] = s
      /\ \A k \in 1 .. 3 : k # o => files'[k] = files[k]
  BY <1>4
<1>6. s # NONE
  BY FilterAssumption
<1>7. outfile' = s
  BY <1>5, <1>6 DEF outfile, o
<1>8. InPlace => infile' = s
  BY <1>1, <1>5 DEF infile, o
<1>9. ASSUME ~InPlace PROVE infile' = infile
  <2>1. path[stage] # o
    BY <1>1, <1>9 DEF o
  <2>2. files'[path[stage]] = files[path[stage]]
    BY <1>1, <1>5, <2>1
  <2> QED
    BY <2>2 DEF infile
<1>10. ~InPlace => \A k \in 1 .. 3 : k # stage + 1 => files'[k] = files[k]
  BY <1>1, <1>5 DEF o
<1> QED
  BY <1>5, <1>7, <1>8, <1>9, <1>10 DEF F, o

\* An exit adds its code.
LEMMA ExitIs ==
    ASSUME PhaseOK, pc # "exit", NEW code \in Codes, Exit(code), stage' = stage,
           progs' = progs
    PROVE  /\ PhaseOK' /\ pc' = "exit"
           /\ status'[stage] = code
           /\ stage = 2 => status'[1] = status[1]
<1>1. /\ stage \in {1, 2} /\ status \in Seq(Codes) /\ Len(status) = stage - 1
      /\ stage = 2 => status[1] \in Good
  BY DEF PhaseOK
<1>2. status' = Append(status, code) /\ pc' = "exit"
  BY DEF Exit
<1> DEFINE t == Append(status, code)
<1>3. /\ t \in Seq(Codes) /\ Len(t) = Len(status) + 1
      /\ \A i \in 1 .. Len(status) : t[i] = status[i]
      /\ t[Len(status) + 1] = code
  BY <1>1, AppendProperties
<1>4. status' = t
  BY <1>2
<1> HIDE DEF t
<1>5. Len(t) = stage /\ t[stage] = code
  BY <1>1, <1>3
<1>6. stage = 2 => t[1] = status[1]
  BY <1>1, <1>3
<1>7. PhaseOK'
  BY <1>1, <1>2, <1>3, <1>4, <1>5, <1>6 DEF PhaseOK, Good
<1> QED
  BY <1>2, <1>4, <1>5, <1>6, <1>7

\* The initial state.
LEMMA FilterInit == Init => FilterInv
<1> SUFFICES ASSUME Init PROVE Consistent
  BY DEF FilterInv
<1>1. /\ progs \in Pipelines /\ orig \in Inputs /\ stage = 1 /\ pc = "start"
      /\ status = <<>>
  BY DEF Init
<1>2. orig \in Seq(Bytes)
  BY <1>1, FilterAssumption
<1>3. PICK m \in Leftovers, o \in Leftovers :
        /\ files = <<orig, m, o>>
        /\ path[2] = 1 => m = NONE /\ o = NONE
        /\ fresh = (m = NONE /\ o = NONE)
  BY DEF Init
<1>4. m \in Seq(Bytes) \cup {NONE} /\ o \in Seq(Bytes) \cup {NONE}
  BY FilterAssumption
<1>5. path \in {<<1, 2, 3>>, <<1, 1, 1>>} /\ (Encoding => path = <<1, 2, 3>>)
  BY DEF Init, Encoding
<1>6. arg \in Nat \cup {BAD}
  <2>1. arg \in HexArgs \cup RotArgs \cup {0}
    BY <1>1 DEF Init, Pipelines
  <2>2. \A a \in HexArgs \cup RotArgs : a = BAD \/ a \in Nat
    BY FilterAssumption
  <2> QED
    BY <2>1, <2>2
<1>7. files \in [1 .. 3 -> Seq(Bytes) \cup {NONE}]
  <2> DEFINE F == Seq(Bytes) \cup {NONE}
  <2>1. orig \in F /\ m \in F /\ o \in F
    BY <1>2, <1>4
  <2> HIDE DEF F
  <2>2. <<orig, m, o>> \in [1 .. 3 -> F]
    BY <2>1
  <2> QED
    BY <1>3, <2>2 DEF F
<1>8. fresh \in BOOLEAN
  BY <1>3
<1>9. InPlace => ~Encoding /\ fresh
  <2>1. ASSUME InPlace PROVE ~Encoding /\ fresh
    <3>1. path[2] = 1 /\ path = <<1, 1, 1>>
      BY <2>1 DEF InPlace
    <3>2. path # <<1, 2, 3>>
      BY <3>1
    <3> QED
      BY <1>3, <1>5, <3>1, <3>2
  <2> QED
    BY <2>1
<1>10. SettingOK
  BY <1>1, <1>2, <1>5, <1>6, <1>7, <1>8, <1>9 DEF SettingOK
<1>11. PhaseOK
  <2>1. <<>> \in Seq(Codes) /\ Len(<<>>) = 0
    BY EmptySeq
  <2> QED
    BY <1>1, <2>1 DEF PhaseOK
<1>12. UnopenedOK
  <2>1. files[1] = orig /\ files[2] = m /\ files[3] = o
    BY <1>3
  <2> QED
    BY <1>3, <2>1 DEF UnopenedOK
<1>13. ArgOK /\ MiddleOK /\ LoopOK /\ SumOK /\ ResultOK
  BY <1>1 DEF ArgOK, MiddleOK, LoopOK, SumOK, ResultOK, Reading, FirstDone
<1> QED
  BY <1>10, <1>11, <1>12, <1>13 DEF Consistent

-----------------------------------------------------------------------------
(* The steps *)

\* What a behaviour is started with does not change.
LEMMA SettingStep ==
    ASSUME SettingOK, UNCHANGED fileVars,
           files' \in [1 .. 3 -> Seq(Bytes) \cup {NONE}]
    PROVE  SettingOK'
BY DEF SettingOK, fileVars, InPlace, Encoding

\* Nor does the argument that was accepted.
LEMMA ArgStep ==
    ASSUME UNCHANGED fileVars, Accepts(progs[1], arg)
    PROVE  ArgOK'
<1>1. progs' = progs /\ arg' = arg
  BY DEF fileVars
<1>2. Accepts(progs[1], arg)' = Accepts(progs[1], arg)
  BY <1>1 DEF Accepts, DecoderAccepts, CoderAccepts, RotAccepts
<1> QED
  BY <1>2 DEF ArgOK

\* A program that exits before it has opened its files.
LEMMA FailStep ==
    ASSUME Consistent, pc = "start", NEW code \in {"usage", "failed"}, Exit(code),
           UNCHANGED <<fileVars, loopVars, files, stage, checksum, verdict, lost>>
    PROVE  Consistent'
<1>0. code \in Codes /\ code \notin Good /\ pc # "exit"
  BY DEF Good, Codes
<1>1. SettingOK /\ PhaseOK /\ ArgOK /\ UnopenedOK
  BY DEF Consistent
<1>2. PhaseOK' /\ pc' = "exit" /\ status'[stage] = code
  BY <1>0, <1>1, ExitIs DEF fileVars
<1>3. SettingOK'
  <2>1. files' \in [1 .. 3 -> Seq(Bytes) \cup {NONE}]
    BY <1>1 DEF SettingOK
  <2> QED
    BY <1>1, <2>1, SettingStep
<1>4. stage' = 1 => status'[1] \notin Good
  BY <1>0, <1>2
<1>5. stage' = 2 => status'[2] \notin Good
  BY <1>0, <1>2
<1>6. ArgOK'
  <2>1. ~Reading' /\ ~FirstDone'
    BY <1>2, <1>4 DEF Reading, FirstDone
  <2>2. stage' = 2 => Accepts(progs[1], arg)
    BY <1>1 DEF ArgOK
  <2>3. stage' = 2 => ArgOK'
    BY <2>2, ArgStep
  <2> QED
    BY <2>1, <2>3 DEF ArgOK
<1>7. UnopenedOK'
  BY <1>1, <1>2 DEF UnopenedOK, InPlace, fileVars
<1>8. MiddleOK' /\ LoopOK' /\ SumOK' /\ ResultOK'
  BY <1>2, <1>4, <1>5 DEF MiddleOK, LoopOK, SumOK, ResultOK, FirstDone, Reading
<1> QED
  BY <1>2, <1>3, <1>6, <1>7, <1>8 DEF Consistent

\* The second program is started.
LEMMA SecondStep ==
    ASSUME Consistent, RunSecond
    PROVE  Consistent'
<1>1. /\ SettingOK /\ PhaseOK /\ ArgOK /\ UnopenedOK /\ MiddleOK
      /\ stage = 1 /\ pc = "exit" /\ status[1] \in Good
      /\ stage' = 2 /\ pc' = "start"
      /\ UNCHANGED <<fileVars, loopVars, files, checksum, verdict, status, lost>>
  BY DEF Consistent, RunSecond, Good
<1>2. SettingOK'
  <2>1. files' \in [1 .. 3 -> Seq(Bytes) \cup {NONE}]
    BY <1>1 DEF SettingOK
  <2> QED
    BY <1>1, <2>1, SettingStep
<1>3. PhaseOK'
  BY <1>1 DEF PhaseOK, Encoding, fileVars
<1>4. ArgOK'
  <2>1. Accepts(progs[1], arg)
    BY <1>1 DEF ArgOK, FirstDone
  <2> QED
    BY <1>1, <2>1, ArgStep
<1>5. UnopenedOK'
  BY <1>1 DEF UnopenedOK, InPlace, fileVars
<1>6. MiddleOK'
  <2>1. FirstDone
    BY <1>1 DEF FirstDone
  <2>2. \A i : Middle(i)' = Middle(i)
    BY <1>1 DEF Middle, fileVars
  <2>3. Sealed(orig)' = Sealed(orig)
    BY <1>1 DEF fileVars
  <2> QED
    BY <1>1, <2>1, <2>2, <2>3 DEF MiddleOK, fileVars, Encoding
<1>7. LoopOK' /\ SumOK' /\ ResultOK'
  BY <1>1 DEF LoopOK, SumOK, ResultOK, Reading
<1> QED
  BY <1>2, <1>3, <1>4, <1>5, <1>6, <1>7 DEF Consistent

\* What the output holds when the input has been read to its end.
LEMMA AtEnd ==
    ASSUME SettingOK, PhaseOK, LoopOK, Reading, in = Len(infile)
    PROVE  /\ files[path[stage + 1]] = outfile /\ outfile \in Seq(Bytes)
           /\ Len(outfile) >= Len(orig) /\ Len(infile) >= Len(orig)
           /\ \A i \in 1 .. Len(orig) : outfile[i] = After(i)
           /\ (~Encoding /\ fresh) => Len(outfile) = Len(orig)
<1>1. /\ files[path[stage + 1]] \in Seq(Bytes) /\ infile \in Seq(Bytes)
      /\ in =< Len(outfile) /\ Len(infile) >= Len(orig)
      /\ (~Encoding /\ fresh) => Len(infile) = Len(orig) /\ Len(outfile) =< Len(orig)
      /\ \A i \in 1 .. Len(orig) : i =< in => outfile[i] = After(i)
  BY DEF LoopOK
<1>2. files[path[stage + 1]] = outfile /\ outfile \in Seq(Bytes)
  BY <1>1, OutfileIs
<1>3. orig \in Seq(Bytes)
  BY DEF SettingOK
<1>4. Len(orig) \in Nat /\ Len(infile) \in Nat /\ Len(outfile) \in Nat
  BY <1>1, <1>2, <1>3, LenProperties
<1>5. \A i \in 1 .. Len(orig) : i =< in
  BY <1>1, <1>4
<1>6. Len(outfile) >= Len(orig)
  BY <1>1, <1>4
<1>7. (~Encoding /\ fresh) => Len(outfile) = Len(orig)
  BY <1>1, <1>4, <1>6
<1> QED
  BY <1>1, <1>2, <1>5, <1>6, <1>7

\* A file that starts with the bytes of another.
LEMMA GivesBack ==
    ASSUME NEW f \in Seq(Bytes), NEW g \in Seq(Bytes), Len(g) >= Len(f),
           \A i \in 1 .. Len(f) : g[i] = f[i]
    PROVE  /\ SubSeq(g, 1, Len(f)) = f
           /\ Len(g) = Len(f) => g = f
<1>1. Len(f) \in Nat /\ Len(g) \in Nat
  BY LenProperties
<1>2. \A i \in 1 .. Len(f) : g[i] \in Bytes
  BY ElementOfSeq
<1> DEFINE n == Len(f)
<1> DEFINE h == SubSeq(g, 1, n)
<1>3. n \in Int /\ 1 \in Int /\ \A i \in 1 .. n : g[i] \in Bytes
  BY <1>1, <1>2
<1> HIDE DEF n
<1>4. /\ h \in Seq(Bytes) /\ Len(h) = IF 1 <= n THEN n - 1 + 1 ELSE 0
      /\ \A i \in 1 .. n - 1 + 1 : h[i] = g[1 + i - 1]
  BY <1>3, SubSeqProperties
<1> HIDE DEF h
<1>5. Len(h) = n
  BY <1>1, <1>4 DEF n
<1>6. ASSUME NEW i \in 1 .. n PROVE h[i] = f[i]
  <2>1. i \in 1 .. n - 1 + 1 /\ 1 + i - 1 = i
    BY <1>3
  <2>2. g[i] = f[i]
    BY DEF n
  <2> QED
    BY <1>4, <2>1, <2>2
<1>7. h = f
  <2>1. Len(h) = Len(f) /\ \A i \in 1 .. Len(h) : h[i] = f[i]
    BY <1>5, <1>6 DEF n
  <2> QED
    BY <1>4, <2>1, SeqEqual
<1>8. Len(g) = Len(f) => g = f
  <2>1. ASSUME Len(g) = Len(f) PROVE g = f
    <3>1. \A i \in 1 .. Len(g) : g[i] = f[i]
      BY <2>1
    <3> QED
      BY <2>1, <3>1, SeqEqual
  <2> QED
    BY <2>1
<1> QED
  BY <1>7, <1>8 DEF h, n

\* The second program has copied everything: the round trip is complete.
LEMMA TripComplete ==
    ASSUME SettingOK, PhaseOK, LoopOK, Reading, in = Len(infile), stage = 2,
           UNCHANGED <<fileVars, files>>
    PROVE  RoundTrip'
<1>1. /\ files[path[3]] = outfile /\ outfile \in Seq(Bytes)
      /\ Len(outfile) >= Len(orig)
      /\ \A i \in 1 .. Len(orig) : outfile[i] = orig[i]
      /\ (~Encoding /\ fresh) => Len(outfile) = Len(orig)
  <2>1. \A i : After(i) = orig[i]
    BY DEF After
  <2>2. stage + 1 = 3
    OBVIOUS
  <2> QED
    BY <2>1, <2>2, AtEnd
<1> DEFINE g == outfile
<1>2. orig \in Seq(Bytes) /\ g \in Seq(Bytes)
  BY <1>1 DEF SettingOK
<1>3. SubSeq(g, 1, Len(orig)) = orig /\ (Len(g) = Len(orig) => g = orig)
  <2>1. Len(g) >= Len(orig) /\ \A i \in 1 .. Len(orig) : g[i] = orig[i]
    BY <1>1
  <2> HIDE DEF g
  <2> QED
    BY <1>2, <2>1, GivesBack
<1>4. path[3] = 1 => fresh
  BY PathIs DEF SettingOK
<1>5. files'[path'[3]] = g /\ orig' = orig /\ progs' = progs /\ path' = path /\ fresh' = fresh
  BY <1>1 DEF fileVars
<1>6. (progs[1] # "encode" /\ (fresh \/ path[3] = 1)) => g = orig
  BY <1>1, <1>3, <1>4 DEF Encoding
<1>7. Len(g) >= Len(orig)
  BY <1>1
<1> HIDE DEF g
<1> QED
  BY <1>3, <1>5, <1>6, <1>7 DEF RoundTrip

\* The end of the coders and of rot.
LEMMA FinishStep ==
    ASSUME Consistent, FinishCopy
    PROVE  Consistent'
<1>1. /\ SettingOK /\ PhaseOK /\ ArgOK /\ UnopenedOK /\ LoopOK
      /\ pc = "loop" /\ Chunk = 1 /\ NextChunk = <<>> /\ Exit("unset")
      /\ UNCHANGED <<fileVars, loopVars, files, stage, checksum, verdict, lost>>
  BY DEF Consistent, FinishCopy
<1>2. Reading
  BY <1>1 DEF Reading
<1>3. PhaseOK' /\ pc' = "exit" /\ status'[stage] = "unset"
  <2>1. "unset" \in Codes /\ pc # "exit"
    BY <1>1 DEF Good, Codes
  <2> QED
    BY <1>1, <2>1, ExitIs DEF fileVars
<1>4. SettingOK'
  <2>1. files' \in [1 .. 3 -> Seq(Bytes) \cup {NONE}]
    BY <1>1 DEF SettingOK
  <2> QED
    BY <1>1, <2>1, SettingStep
<1>5. ~Encoding /\ stage \in {1, 2}
  <2>1. progs \in Pipelines /\ stage \in {1, 2}
    BY <1>1 DEF SettingOK, PhaseOK
  <2> QED
    BY <1>1, <2>1, ProgIs
<1>6. in = Len(infile)
  <2>1. infile \in Seq(Bytes) /\ in \in Nat /\ in =< Len(infile) /\ 1 \in {1, 2}
    BY <1>1, <1>2 DEF LoopOK
  <2>2. NextChunk = SubSeq(infile, in + 1, IF in + 1 > Len(infile) THEN Len(infile) ELSE in + 1)
    BY <1>1 DEF NextChunk
  <2> QED
    BY <1>1, <2>1, <2>2, ReadIs
<1>7. ArgOK'
  <2>1. Accepts(progs[1], arg)
    BY <1>1, <1>2 DEF ArgOK
  <2> QED
    BY <1>1, <2>1, ArgStep
<1>8. UnopenedOK'
  BY <1>1, <1>3 DEF UnopenedOK, InPlace, fileVars
<1>9. MiddleOK'
  <2>1. SUFFICES ASSUME stage = 1 PROVE MiddleOK'
    BY <1>1, <1>3, <1>5 DEF MiddleOK, FirstDone
  <2>2. \A i : After(i) = Middle(i) /\ Middle(i)' = Middle(i)
    BY <1>1, <2>1 DEF After, Middle, fileVars
  <2>3. stage + 1 = 2
    BY <2>1
  <2>4. /\ files[path[2]] \in Seq(Bytes)
        /\ Len(files[path[2]]) >= Len(orig)
        /\ \A i \in 1 .. Len(orig) : files[path[2]][i] = Middle(i)
        /\ (~Encoding /\ fresh) => Len(files[path[2]]) = Len(orig)
    BY <1>1, <1>2, <1>6, <2>2, <2>3, AtEnd
  <2> QED
    BY <1>1, <1>5, <2>2, <2>4 DEF MiddleOK, fileVars, Encoding
<1>10. LoopOK' /\ SumOK'
  BY <1>3 DEF LoopOK, SumOK, Reading
<1>11. ResultOK'
  <2>1. SUFFICES ASSUME stage = 2 PROVE ResultOK'
    BY <1>1, <1>5 DEF ResultOK
  <2>2. RoundTrip'
    BY <1>1, <1>2, <1>6, <2>1, TripComplete
  <2>3. VerdictCountsChecksum'
    BY <1>1, <1>5 DEF VerdictCountsChecksum, Encoding, fileVars
  <2> QED
    BY <2>2, <2>3 DEF ResultOK
<1> QED
  BY <1>3, <1>4, <1>7, <1>8, <1>9, <1>10, <1>11 DEF Consistent

\* What is read and what is written do not depend on the positions.
LEMMA SidesStep ==
    ASSUME UNCHANGED <<fileVars, stage>>
    PROVE  \A i : Before(i)' = Before(i) /\ After(i)' = After(i)
BY DEF fileVars, Before, After, Middle

\* What a program finds in its input when it opens it.
LEMMA AtStart ==
    ASSUME Consistent, pc = "start"
    PROVE  /\ infile \in Seq(Bytes) /\ Len(infile) >= Len(orig)
           /\ stage = 1 => Len(infile) = Len(orig)
           /\ (~Encoding /\ fresh) => Len(infile) = Len(orig)
           /\ \A i \in 1 .. Len(orig) : infile[i] = Before(i)
           /\ (Encoding /\ fresh) => infile = IF stage = 1 THEN orig ELSE Sealed(orig)
<1>1. SettingOK /\ PhaseOK /\ UnopenedOK /\ MiddleOK
  BY DEF Consistent
<1>2. stage \in {1, 2} /\ orig \in Seq(Bytes)
  BY <1>1 DEF SettingOK, PhaseOK
<1>3. CASE stage = 1
  <2>1. infile = orig
    <3>1. path[1] = 1
      BY <1>1, PathIs
    <3> QED
      BY <1>1, <1>3, <3>1 DEF infile, UnopenedOK
  <2>2. \A i : Before(i) = orig[i]
    BY <1>3 DEF Before
  <2>3. Len(orig) \in Nat
    BY <1>2, LenProperties
  <2>4. Len(infile) = Len(orig) /\ Len(infile) >= Len(orig)
    BY <2>1, <2>3
  <2> QED
    BY <1>2, <1>3, <2>1, <2>2, <2>4
<1>4. CASE stage = 2
  <2>1. infile = files[path[2]]
    BY <1>4 DEF infile
  <2>2. \A i : Before(i) = Middle(i)
    BY <1>4 DEF Before
  <2> QED
    BY <1>1, <1>4, <2>1, <2>2 DEF MiddleOK
<1> QED
  BY <1>2, <1>3, <1>4

\* What the output holds when it is opened: nothing that is too long, if the
\* files are new.
LEMMA AtStartOut ==
    ASSUME Consistent, pc = "start"
    PROVE  /\ InPlace => outfile = infile
           /\ (fresh /\ ~InPlace) => outfile = <<>>
<1>1. SettingOK /\ PhaseOK /\ UnopenedOK
  BY DEF Consistent
<1>2. stage \in {1, 2}
  BY <1>1 DEF PhaseOK
<1>3. ASSUME InPlace PROVE outfile = infile
  <2>1. path[stage] = 1 /\ path[stage + 1] = 1
    BY <1>1, <1>3, StageIs
  <2>2. infile \in Seq(Bytes) /\ infile = files[1]
    BY <2>1, AtStart DEF infile
  <2> QED
    BY <1>1, <2>1, <2>2, OutfileIs
<1>4. ASSUME fresh, ~InPlace PROVE outfile = <<>>
  <2>1. path[stage + 1] = stage + 1
    BY <1>1, <1>4, StageIs
  <2>2. files[stage + 1] = NONE
    BY <1>1, <1>2, <1>4 DEF UnopenedOK
  <2> QED
    BY <1>1, <2>1, <2>2, OutfileIs
<1> QED
  BY <1>3, <1>4

\* The files are opened.
LEMMA OpenStep ==
    ASSUME Consistent, Open
    PROVE  Consistent'
<1>1. SettingOK /\ PhaseOK /\ ArgOK /\ UnopenedOK
  BY DEF Consistent
<1>2. /\ pc = "start" /\ Accepts(prog, arg) /\ SetOutfile(outfile)
      /\ in' = 0 /\ out' = 0 /\ ecx' = 0 /\ r12' = 0
      /\ pc' = IF prog = "decode" THEN "get_checksum" ELSE "loop"
      /\ UNCHANGED <<fileVars, stage, checksum, verdict, status, lost>>
  BY DEF Open
<1>3. progs \in Pipelines /\ stage \in {1, 2} /\ orig \in Seq(Bytes)
  BY <1>1 DEF SettingOK, PhaseOK
<1>4. /\ progs' = progs /\ path' = path /\ orig' = orig /\ fresh' = fresh /\ stage' = stage
      /\ UNCHANGED <<path, stage>>
  BY <1>2 DEF fileVars
<1>5. /\ Encoding' = Encoding /\ InPlace' = InPlace /\ Sealed(orig)' = Sealed(orig)
  BY <1>4 DEF Encoding, InPlace
<1>6. outfile \in Seq(Bytes)
  BY <1>1, OutfileIs
<1>7. /\ files' \in [1 .. 3 -> Seq(Bytes) \cup {NONE}]
      /\ files'[path[stage + 1]] = outfile /\ outfile' = outfile
      /\ InPlace => infile' = outfile
      /\ ~InPlace => infile' = infile
      /\ ~InPlace => \A k \in 1 .. 3 : k # stage + 1 => files'[k] = files[k]
  BY <1>1, <1>2, <1>4, <1>6, StoreIs
<1>8. /\ infile \in Seq(Bytes) /\ Len(infile) >= Len(orig)
      /\ stage = 1 => Len(infile) = Len(orig)
      /\ (~Encoding /\ fresh) => Len(infile) = Len(orig)
      /\ \A i \in 1 .. Len(orig) : infile[i] = Before(i)
      /\ (Encoding /\ fresh) => infile = IF stage = 1 THEN orig ELSE Sealed(orig)
  BY <1>2, AtStart
<1>9. /\ InPlace => outfile = infile
      /\ (fresh /\ ~InPlace) => outfile = <<>>
  BY <1>2, AtStartOut
<1>10. infile' = infile
  BY <1>7, <1>9
<1>11. Len(infile) \in Nat /\ Len(outfile) \in Nat /\ Len(orig) \in Nat /\ Len(<<>>) = 0
  BY <1>3, <1>6, <1>8, LenProperties, EmptySeq
<1>12. SettingOK'
  BY <1>1, <1>2, <1>7, SettingStep
<1>13. pc' \in {"get_checksum", "loop"}
  BY <1>2
<1>14. pc' = "get_checksum" => stage = 2 /\ Encoding
  BY <1>2, <1>3, ProgIs
<1>15. PhaseOK'
  BY <1>1, <1>2, <1>4, <1>5, <1>13, <1>14 DEF PhaseOK
<1>16. ArgOK'
  <2>1. Accepts(progs[1], arg)
    BY <1>1, <1>2, <1>3 DEF ArgOK, prog
  <2> QED
    BY <1>2, <2>1, ArgStep
<1>17. UnopenedOK'
  <2>1. SUFFICES ASSUME stage = 1, fresh, ~InPlace PROVE files'[3] = NONE
    BY <1>4, <1>5, <1>13 DEF UnopenedOK
  <2>2. files'[3] = files[3]
    BY <1>7, <2>1
  <2> QED
    BY <1>1, <2>1, <2>2 DEF UnopenedOK
<1>18. LoopOK'
  <2>1. /\ infile' \in Seq(Bytes) /\ files'[path'[stage' + 1]] \in Seq(Bytes)
        /\ in' \in Nat /\ in' = out' /\ in' =< Len(infile') /\ in' =< Len(outfile')
        /\ Len(infile') >= Len(orig')
        /\ stage' = 1 => Len(infile') = Len(orig')
        /\ pc' = "get_checksum" => in' = 0
    BY <1>2, <1>4, <1>6, <1>7, <1>8, <1>10, <1>11
  <2>2. (~Encoding' /\ fresh') =>
           Len(infile') = Len(orig') /\ Len(outfile') =< Len(orig')
    BY <1>4, <1>5, <1>7, <1>8, <1>9, <1>10, <1>11
  <2>3. \A i \in 1 .. Len(orig') : i > in' => infile'[i] = Before(i)'
    BY <1>2, <1>4, <1>8, <1>10, SidesStep
  <2>4. \A i \in 1 .. Len(orig') : i =< in' => outfile'[i] = After(i)'
    BY <1>2, <1>4, <1>11
  <2>5. ecx' = in' % 4
    BY <1>2
  <2>6. r12' \in 0 .. BYTE * BYTE - 1
    <3>1. BYTE * BYTE \in Nat \ {0}
      BY ByteNat
    <3> DEFINE m == BYTE * BYTE
    <3>2. m \in Nat \ {0}
      BY <3>1
    <3> HIDE DEF m
    <3>3. r12' \in 0 .. m - 1
      BY <1>2, <3>2
    <3> QED
      BY <3>3 DEF m
  <2> QED
    BY <2>1, <2>2, <2>3, <2>4, <2>5, <2>6 DEF LoopOK
<1>19. SumOK'
  <2>1. SUFFICES ASSUME Encoding, fresh
        PROVE  /\ infile' = IF stage' = 1 THEN orig' ELSE Sealed(orig)'
               /\ in' % 2 = 0 \/ in' = Len(infile')
               /\ r12' = Sums(infile')[in'] % (BYTE * BYTE)
               /\ stage' = 1 => Len(outfile') = in'
               /\ (stage' = 2 /\ pc' = "loop") => checksum' = WordSum(orig')
    BY <1>4, <1>5 DEF SumOK
  <2>2. infile' = IF stage' = 1 THEN orig' ELSE Sealed(orig)'
    BY <1>4, <1>5, <1>8, <1>10, <2>1
  <2>3. in' % 2 = 0
    BY <1>2
  <2>4. r12' = Sums(infile')[in'] % (BYTE * BYTE)
    <3>1. Sums(infile)[0] = 0
      BY <1>8, SumsIs
    <3>2. 0 % (BYTE * BYTE) = 0
      <4> DEFINE m == BYTE * BYTE
      <4>1. m \in Nat \ {0}
        BY ByteNat
      <4> HIDE DEF m
      <4>2. 0 % m = 0
        BY <4>1
      <4> QED
        BY <4>2 DEF m
    <3> QED
      BY <1>2, <1>10, <3>1, <3>2
  <2>5. Len(outfile') = in'
    <3>1. ~InPlace
      BY <1>1, <2>1 DEF SettingOK
    <3> QED
      BY <1>2, <1>7, <1>9, <1>11, <2>1, <3>1
  <2>6. ~(stage' = 2 /\ pc' = "loop")
    BY <1>2, <1>3, <1>4, <2>1, ProgIs
  <2> QED
    BY <2>2, <2>3, <2>4, <2>5, <2>6
<1>20. MiddleOK' /\ ResultOK'
  BY <1>13 DEF MiddleOK, ResultOK, FirstDone
<1> QED
  BY <1>12, <1>15, <1>16, <1>17, <1>18, <1>19, <1>20 DEF Consistent

\* decode reads back the sum that encode stored.
LEMMA StoredSum ==
    ASSUME NEW s \in Seq(Bytes)
    PROVE  LET f == Sealed(s)
               n == Len(f)
               last == SubSeq(f, n - 1, n)
           IN  n >= 2 /\ last[1] + last[2] * BYTE = WordSum(s)
<1> DEFINE f == Sealed(s)
<1> DEFINE n == Len(f)
<1> DEFINE m == Len(s)
<1>1. /\ f \in Seq(Bytes) /\ n = m + 2
      /\ f[m + 1] = WordSum(s) % BYTE /\ f[m + 2] = WordSum(s) \div BYTE
  BY SealedIs
<1>2. m \in Nat
  BY LenProperties
<1>3. \A i \in 1 .. n : f[i] \in Bytes
  BY <1>1, ElementOfSeq
<1> HIDE DEF f, n, m
<1> DEFINE a == n - 1
<1>4. a \in Int /\ n \in Int /\ a = m + 1 /\ a <= n /\ n - a + 1 = 2 /\ n >= 2
  BY <1>1, <1>2
<1>5. \A i \in a .. n : f[i] \in Bytes
  BY <1>1, <1>2, <1>3, <1>4
<1> HIDE DEF a
<1> DEFINE last == SubSeq(f, a, n)
<1>6. \A i \in 1 .. n - a + 1 : last[i] = f[a + i - 1]
  BY <1>4, <1>5, SubSeqProperties
<1> HIDE DEF last
<1>7. 1 \in 1 .. n - a + 1 /\ 2 \in 1 .. n - a + 1 /\ a + 1 - 1 = m + 1 /\ a + 2 - 1 = m + 2
  BY <1>2, <1>4
<1>8. last[1] = f[m + 1] /\ last[2] = f[m + 2]
  BY <1>6, <1>7
<1>9. WordSum(s) = (WordSum(s) % BYTE) + (WordSum(s) \div BYTE) * BYTE
  BY WordSumIs, TwoBytes
<1>10. last[1] + last[2] * BYTE = WordSum(s)
  BY <1>1, <1>8, <1>9
<1> QED
  BY <1>4, <1>10 DEF last, a, n, f

\* decode reads the stored sum.
LEMMA GetChecksumStep ==
    ASSUME Consistent, GetChecksum, ~lost'
    PROVE  Consistent'
<1> DEFINE n == Len(infile)
<1> DEFINE last == IF n < 2 THEN infile \o <<0, 0>> ELSE SubSeq(infile, n - 1, n)
<1>1. SettingOK /\ PhaseOK /\ ArgOK /\ LoopOK /\ SumOK
  BY DEF Consistent
<1>0. infile \in Seq(Bytes)
  <2>1. Reading
    BY DEF GetChecksum, Reading
  <2> QED
    BY <1>1, <2>1 DEF LoopOK
<1>2. /\ pc = "get_checksum" /\ pc' = "loop"
      /\ checksum' = last[1] + last[2] * BYTE
      /\ IF n < 2 THEN UNCHANGED files ELSE SetOutfile(Resize(outfile, n - 2))
      /\ UNCHANGED <<fileVars, loopVars, stage, verdict, status>>
  <2>1. PICK read, cut \in BOOLEAN :
            /\ checksum' = IF read THEN last[1] + last[2] * BYTE ELSE 0
            /\ IF cut /\ n >= 2 THEN SetOutfile(Resize(outfile, n - 2))
                                ELSE UNCHANGED files
            /\ lost' = (lost \/ ~read \/ ~cut)
    BY DEF GetChecksum
  <2>2. read /\ cut
    BY <2>1
  <2>3. n \in Nat
    BY <1>0, LenProperties
  <2>4. n < 2 \/ n >= 2
    BY <2>3
  <2> QED
    BY <2>1, <2>2, <2>3, <2>4 DEF GetChecksum
<1>3. Reading /\ Reading' /\ pc' # "exit" /\ pc' # "start"
  BY <1>2 DEF Reading
<1>4. stage = 2 /\ Encoding /\ ~InPlace /\ fresh \in BOOLEAN /\ orig \in Seq(Bytes)
  BY <1>1, <1>2 DEF SettingOK, PhaseOK
<1>5. /\ progs' = progs /\ path' = path /\ orig' = orig /\ fresh' = fresh /\ stage' = stage
      /\ in' = in /\ out' = out /\ ecx' = ecx /\ r12' = r12
      /\ UNCHANGED <<path, stage>>
  BY <1>2 DEF fileVars, loopVars
<1>6. Encoding' = Encoding /\ Sealed(orig)' = Sealed(orig)
  BY <1>5 DEF Encoding
<1>7. outfile \in Seq(Bytes)
  BY <1>1, OutfileIs
<1>8. /\ infile \in Seq(Bytes) /\ files[path[stage + 1]] \in Seq(Bytes)
      /\ in = 0 /\ in = out /\ Len(infile) >= Len(orig)
      /\ \A i \in 1 .. Len(orig) : i > in => infile[i] = Before(i)
      /\ r12 \in 0 .. BYTE * BYTE - 1
  BY <1>1, <1>2, <1>3 DEF LoopOK
<1>9. n \in Nat /\ Len(orig) \in Nat
  BY <1>4, <1>8, LenProperties
<1>10. /\ files' \in [1 .. 3 -> Seq(Bytes) \cup {NONE}]
       /\ files'[path[stage + 1]] \in Seq(Bytes) /\ outfile' \in Seq(Bytes)
       /\ infile' = infile
  <2>1. CASE n < 2
    <3>1. files' = files
      BY <1>2, <2>1
    <3>2. infile' = infile /\ outfile' = outfile
      BY <1>5, <3>1 DEF infile, outfile
    <3>3. files' \in [1 .. 3 -> Seq(Bytes) \cup {NONE}]
      BY <1>1, <3>1 DEF SettingOK
    <3> QED
      BY <1>7, <1>8, <3>1, <3>2, <3>3
  <2>2. CASE ~(n < 2)
    <3> DEFINE g == Resize(outfile, n - 2)
    <3>1. g \in Seq(Bytes)
      <4>1. n - 2 \in Nat
        BY <1>9, <2>2
      <4> QED
        BY <1>7, <4>1, ResizeIs
    <3>2. SetOutfile(g)
      BY <1>2, <2>2
    <3> HIDE DEF g
    <3> QED
      BY <1>1, <1>4, <1>5, <3>1, <3>2, StoreIs
  <2> QED
    BY <2>1, <2>2
<1>11. SettingOK'
  BY <1>1, <1>2, <1>10, SettingStep
<1>12. PhaseOK'
  BY <1>1, <1>2, <1>4, <1>5, <1>6 DEF PhaseOK
<1>13. ArgOK'
  <2>1. Accepts(progs[1], arg)
    BY <1>1, <1>3 DEF ArgOK
  <2> QED
    BY <1>2, <2>1, ArgStep
<1>14. UnopenedOK' /\ MiddleOK' /\ ResultOK'
  BY <1>2, <1>4, <1>5 DEF UnopenedOK, MiddleOK, ResultOK, FirstDone
<1>15. LoopOK'
  <2>1. /\ infile' \in Seq(Bytes) /\ files'[path'[stage' + 1]] \in Seq(Bytes)
        /\ Len(infile') >= Len(orig')
        /\ r12' \in 0 .. BYTE * BYTE - 1
    BY <1>5, <1>8, <1>10
  <2>2. in' \in Nat /\ in' = out' /\ in' =< Len(infile') /\ in' =< Len(outfile')
    <3>1. Len(outfile') \in Nat
      BY <1>10, LenProperties
    <3> QED
      BY <1>5, <1>8, <1>9, <1>10, <3>1
  <2>3. \A i \in 1 .. Len(orig') : i > in' => infile'[i] = Before(i)'
    BY <1>2, <1>5, <1>8, <1>10, SidesStep
  <2>4. \A i \in 1 .. Len(orig') : i =< in' => outfile'[i] = After(i)'
    BY <1>5, <1>8, <1>9
  <2>5. Encoding' /\ ~(stage' = 1) /\ ~(pc' = "get_checksum")
    BY <1>2, <1>4, <1>5, <1>6
  <2> QED
    BY <2>1, <2>2, <2>3, <2>4, <2>5 DEF LoopOK
<1>16. SumOK'
  <2>1. SUFFICES ASSUME fresh PROVE SumOK'
    BY <1>5 DEF SumOK
  <2>2. /\ infile = Sealed(orig)
        /\ in % 2 = 0 \/ in = Len(infile)
        /\ r12 = Sums(infile)[in] % (BYTE * BYTE)
    BY <1>1, <1>3, <1>4, <2>1 DEF SumOK
  <2>3. checksum' = WordSum(orig)
    <3>1. n >= 2 /\ SubSeq(infile, n - 1, n)[1] + SubSeq(infile, n - 1, n)[2] * BYTE = WordSum(orig)
      BY <1>4, <2>2, StoredSum
    <3>2. last = SubSeq(infile, n - 1, n)
      BY <1>9, <3>1
    <3> HIDE DEF last, n
    <3> QED
      BY <1>2, <3>1, <3>2
  <2> QED
    BY <1>3, <1>4, <1>5, <1>6, <1>10, <2>2, <2>3 DEF SumOK
<1> QED
  BY <1>11, <1>12, <1>13, <1>14, <1>15, <1>16 DEF Consistent

\* The byte that a program writes at place i, for every byte of the original.
LEMMA AfterIs ==
    ASSUME SettingOK, PhaseOK, Accepts(progs[1], arg), NEW i \in 1 .. Len(orig)
    PROVE  Changed(progs[stage], arg, (i - 1) % 4, Before(i)) = After(i)
<1>1. /\ progs \in Pipelines /\ stage \in {1, 2} /\ orig \in Seq(Bytes)
      /\ arg \in Nat \cup {BAD}
  BY DEF SettingOK, PhaseOK
<1>2. (i - 1) % 4 \in 0 .. 3 /\ orig[i] \in Bytes
  <2>1. i - 1 \in Nat
    BY <1>1, LenProperties
  <2>2. (i - 1) % 4 \in 0 .. 3
    BY <2>1
  <2> QED
    BY <1>1, <2>2, ElementOfSeq
<1>3. Changed(progs[2], arg, (i - 1) % 4, Changed(progs[1], arg, (i - 1) % 4, orig[i])) = orig[i]
  BY <1>1, <1>2, Undone
<1>4. CASE stage = 1
  BY <1>4 DEF Before, After, Middle
<1>5. CASE stage = 2
  BY <1>3, <1>5 DEF Before, After, Middle
<1> QED
  BY <1>1, <1>4, <1>5

\* The counter of the coders follows the position; the checksum programs,
\* which take two bytes at a time, change none.
LEMMA ChunkIs ==
    ASSUME SettingOK, PhaseOK, Accepts(progs[1], arg), LoopOK, Reading,
           NEW c \in Seq(Bytes), Len(c) \in 1 .. Chunk
    PROVE  LET s == [k \in DOMAIN c |-> Transform(c[k])] IN
           /\ s \in Seq(Bytes) /\ Len(s) = Len(c)
           /\ \A k \in 1 .. Len(c) :
                s[k] = Changed(progs[stage], arg, (in + k - 1) % 4, c[k])
<1> DEFINE s == [k \in DOMAIN c |-> Transform(c[k])]
<1>1. progs \in Pipelines /\ stage \in {1, 2} /\ arg \in Nat \cup {BAD}
  BY DEF SettingOK, PhaseOK
<1>2. in \in Nat /\ (~Encoding => ecx = in % 4)
  BY DEF LoopOK
<1>3. Len(c) \in Nat /\ DOMAIN c = 1 .. Len(c)
  BY LenProperties
<1>4. ASSUME NEW k \in 1 .. Len(c)
      PROVE  /\ Transform(c[k]) = Changed(progs[stage], arg, (in + k - 1) % 4, c[k])
             /\ Transform(c[k]) \in Bytes
  <2> DEFINE e == (in + k - 1) % 4
  <2>1. c[k] \in Bytes
    BY ElementOfSeq
  <2>2. in + k - 1 \in Nat
    BY <1>2, <1>3
  <2>3. e \in 0 .. 3
    BY <2>2
  <2>4. Transform(c[k]) = Changed(progs[stage], arg, ecx, c[k])
    BY <1>1, TransformIs
  <2>5. Changed(progs[stage], arg, ecx, c[k]) = Changed(progs[stage], arg, e, c[k])
    <3>1. CASE Encoding
      <4>1. progs[stage] \in {"encode", "decode"}
        BY <1>1, <3>1 DEF Encoding, Pipelines
      <4>2. \A x : Changed(progs[stage], arg, x, c[k]) = c[k]
        BY <4>1 DEF Changed
      <4> QED
        BY <4>2
    <3>2. CASE ~Encoding
      <4>1. Chunk = 1
        BY <1>1, <3>2, ProgIs
      <4>2. k = 1
        BY <1>3, <4>1
      <4>3. in + k - 1 = in
        BY <1>2, <4>2
      <4> QED
        BY <1>2, <3>2, <4>3
    <3> QED
      BY <3>1, <3>2
  <2> HIDE DEF e
  <2>6. Changed(progs[1], arg, e, c[k]) \in Bytes /\ Changed(progs[2], arg, e, c[k]) \in Bytes
    BY <1>1, <2>1, <2>3, Undone
  <2>7. Changed(progs[stage], arg, e, c[k]) \in Bytes
    BY <1>1, <2>6
  <2> QED
    BY <2>4, <2>5, <2>7 DEF e
<1>5. s \in [1 .. Len(c) -> Bytes] /\ \A k \in 1 .. Len(c) : s[k] = Transform(c[k])
  BY <1>3, <1>4
<1> HIDE DEF s
<1>6. s \in Seq(Bytes) /\ Len(s) = Len(c)
  BY <1>3, <1>5, MakeFile
<1> QED
  BY <1>4, <1>5, <1>6 DEF s

\* One turn of the loop that loses nothing.
LEMMA CopyStep ==
    ASSUME Consistent, CopyChunk, ~lost'
    PROVE  Consistent'
<1> DEFINE c == NextChunk
<1> DEFINE s == [k \in DOMAIN c |-> Transform(c[k])]
<1> DEFINE g == Overwrite(outfile, in, s)
<1>1. SettingOK /\ PhaseOK /\ ArgOK /\ UnopenedOK /\ LoopOK /\ SumOK
  BY DEF Consistent
<1>2. /\ pc = "loop" /\ c # <<>>
      /\ SetOutfile(Overwrite(outfile, out, s)) /\ out' = out + Len(c)
      /\ in' = in + Len(c) /\ ecx' = (ecx + 1) % 4
      /\ r12' = (r12 + Swapped(c)) % (BYTE * BYTE)
      /\ UNCHANGED <<fileVars, stage, pc, checksum, verdict, status>>
  BY DEF CopyChunk, WriteFails, CountMod4
<1>3. Reading /\ Reading' /\ pc' = "loop"
  BY <1>2 DEF Reading
<1>4. progs \in Pipelines /\ stage \in {1, 2} /\ orig \in Seq(Bytes) /\ Accepts(progs[1], arg)
  BY <1>1, <1>3 DEF SettingOK, PhaseOK, ArgOK
<1>5. /\ progs' = progs /\ path' = path /\ orig' = orig /\ fresh' = fresh /\ stage' = stage
      /\ UNCHANGED <<path, stage>>
  BY <1>2 DEF fileVars
<1>6. Encoding' = Encoding /\ InPlace' = InPlace /\ Sealed(orig)' = Sealed(orig)
  BY <1>5 DEF Encoding, InPlace
<1>7. /\ infile \in Seq(Bytes) /\ files[path[stage + 1]] \in Seq(Bytes)
      /\ in \in Nat /\ in = out /\ in =< Len(infile) /\ in =< Len(outfile)
      /\ Len(infile) >= Len(orig)
      /\ stage = 1 => Len(infile) = Len(orig)
      /\ (~Encoding /\ fresh) =>
           Len(infile) = Len(orig) /\ Len(outfile) =< Len(orig)
      /\ \A i \in 1 .. Len(orig) : i > in => infile[i] = Before(i)
      /\ \A i \in 1 .. Len(orig) : i =< in => outfile[i] = After(i)
      /\ ~Encoding => ecx = in % 4
      /\ r12 \in 0 .. BYTE * BYTE - 1
  BY <1>1, <1>3 DEF LoopOK
<1>8. outfile \in Seq(Bytes) /\ outfile = files[path[stage + 1]]
  BY <1>1, <1>7, OutfileIs
<1>9. (Encoding => Chunk = 2) /\ (~Encoding => Chunk = 1) /\ Chunk \in {1, 2}
  <2>1. (Encoding <=> Chunk = 2) /\ (~Encoding => Chunk = 1)
    BY <1>4, ProgIs
  <2> QED
    BY <2>1
<1>10. /\ c \in Seq(Bytes) /\ Len(c) \in 1 .. Chunk
       /\ in + Len(c) =< Len(infile)
       /\ Len(c) = Chunk \/ in + Len(c) = Len(infile)
       /\ in # Len(infile)
       /\ \A k \in 1 .. Len(c) : c[k] = infile[in + k]
  <2>1. c = SubSeq(infile, in + 1,
                   IF in + Chunk > Len(infile) THEN Len(infile) ELSE in + Chunk)
    BY DEF NextChunk
  <2>2. c # <<>>
    BY <1>2
  <2> DEFINE n == Chunk
  <2> DEFINE f == infile
  <2>3. /\ n \in {1, 2} /\ f \in Seq(Bytes) /\ in \in Nat /\ in =< Len(f)
        /\ c = SubSeq(f, in + 1, IF in + n > Len(f) THEN Len(f) ELSE in + n)
    BY <1>7, <1>9, <2>1
  <2> HIDE DEF c, n, f
  <2>4. /\ c \in Seq(Bytes)
        /\ c = <<>> <=> in = Len(f)
        /\ c # <<>> => Len(c) \in 1 .. n
        /\ in + Len(c) =< Len(f)
        /\ Len(c) = n \/ in + Len(c) = Len(f)
        /\ \A k \in 1 .. Len(c) : c[k] = f[in + k]
    BY <2>3, ReadIs
  <2> QED
    BY <2>2, <2>4 DEF n, f
<1> HIDE DEF c
<1>11. /\ s \in Seq(Bytes) /\ Len(s) = Len(c)
       /\ \A k \in 1 .. Len(c) :
            s[k] = Changed(progs[stage], arg, (in + k - 1) % 4, c[k])
  BY <1>1, <1>3, <1>4, <1>10, ChunkIs
<1> HIDE DEF s
<1>12. Len(c) \in Nat /\ Len(infile) \in Nat /\ Len(outfile) \in Nat /\ Len(orig) \in Nat
  BY <1>4, <1>7, <1>8, <1>10, LenProperties
<1>13. /\ g \in Seq(Bytes) /\ Len(g) >= in + Len(c) /\ Len(g) >= Len(outfile)
       /\ Len(g) = Len(outfile) \/ Len(g) = in + Len(c)
       /\ Len(outfile) = in => Len(g) = in + Len(c)
       /\ \A i \in Nat \ {0} : i =< in => g[i] = outfile[i]
       /\ \A i \in Nat : (i > in + Len(c) /\ i =< Len(outfile)) => g[i] = outfile[i]
       /\ \A k \in 1 .. Len(c) : g[in + k] = s[k]
  <2> DEFINE o == outfile
  <2>1. /\ o \in Seq(Bytes) /\ s \in Seq(Bytes) /\ in \in Nat /\ in =< Len(o)
        /\ g = Overwrite(o, in, s)
    BY <1>7, <1>8, <1>11
  <2> HIDE DEF o, g
  <2>2. /\ g \in Seq(Bytes) /\ Len(g) >= in + Len(s) /\ Len(g) >= Len(o)
        /\ Len(g) = Len(o) \/ Len(g) = in + Len(s)
        /\ Len(o) = in => Len(g) = in + Len(s)
        /\ \A i \in Nat \ {0} : i =< in => g[i] = o[i]
        /\ \A i \in Nat : (i > in + Len(s) /\ i =< Len(o)) => g[i] = o[i]
        /\ \A k \in 1 .. Len(s) : g[in + k] = s[k]
    BY <2>1, OverwriteParts
  <2> QED
    BY <1>11, <2>2 DEF o
<1>14. SetOutfile(g)
  BY <1>2, <1>7
<1> HIDE DEF g
<1>15. /\ files' \in [1 .. 3 -> Seq(Bytes) \cup {NONE}]
       /\ files'[path[stage + 1]] = g /\ outfile' = g
       /\ InPlace => infile' = g
       /\ ~InPlace => infile' = infile
       /\ ~InPlace => \A k \in 1 .. 3 : k # stage + 1 => files'[k] = files[k]
  BY <1>1, <1>5, <1>13, <1>14, StoreIs
<1>16. InPlace => outfile = infile
  <2>1. InPlace => path[stage] = path[stage + 1]
    BY <1>1, StageIs
  <2> QED
    BY <1>8, <2>1 DEF infile
<1>17. /\ infile' \in Seq(Bytes) /\ Len(infile') = Len(infile)
       /\ \A i \in 1 .. Len(orig) : i > in + Len(c) => infile'[i] = infile[i]
  <2>1. CASE InPlace
    <3>1. outfile = infile /\ infile' = g
      BY <1>15, <1>16, <2>1
    <3>2. Len(g) = Len(infile)
      <4>1. Len(outfile) = Len(infile) /\ Len(g) \in Nat
        BY <1>13, <3>1, LenProperties
      <4> QED
        BY <1>10, <1>12, <1>13, <4>1
    <3>3. ASSUME NEW i \in 1 .. Len(orig), i > in + Len(c) PROVE g[i] = infile[i]
      <4>1. i \in Nat /\ i =< Len(infile)
        BY <1>7, <1>12
      <4>2. g[i] = outfile[i]
        BY <1>13, <3>1, <3>3, <4>1
      <4> QED
        BY <3>1, <4>2
    <3> QED
      BY <1>13, <3>1, <3>2, <3>3
  <2>2. CASE ~InPlace
    BY <1>7, <1>15, <2>2
  <2> QED
    BY <2>1, <2>2
<1>18. SettingOK'
  BY <1>1, <1>2, <1>15, SettingStep
<1>19. PhaseOK'
  BY <1>1, <1>2, <1>3, <1>5, <1>6 DEF PhaseOK
<1>20. ArgOK'
  BY <1>2, <1>4, ArgStep
<1>21. UnopenedOK'
  <2>1. SUFFICES ASSUME stage = 1, fresh, ~InPlace PROVE files'[3] = NONE
    BY <1>3, <1>5, <1>6 DEF UnopenedOK
  <2>2. files'[3] = files[3]
    BY <1>15, <2>1
  <2> QED
    BY <1>1, <2>1, <2>2 DEF UnopenedOK
<1>22. MiddleOK' /\ ResultOK'
  BY <1>3 DEF MiddleOK, ResultOK, FirstDone
<1>23. r12 \in Nat /\ Swapped(c) \in Nat /\ r12' \in 0 .. BYTE * BYTE - 1
  <2> DEFINE m == BYTE * BYTE
  <2>1. m \in Nat \ {0} /\ BYTE \in Nat
    BY ByteNat
  <2>2. r12 \in 0 .. m - 1 /\ r12' = (r12 + Swapped(c)) % m
    BY <1>2, <1>7
  <2>3. Swapped(c) \in Nat
    <3>1. 1 \in 1 .. Len(c) /\ (Len(c) = 2 => 2 \in 1 .. Len(c))
      BY <1>10, <1>12
    <3>2. c[1] \in Nat /\ (Len(c) = 2 => c[2] \in Nat)
      BY <1>10, <3>1, ElementOfSeq, ByteNat
    <3>3. c[1] * BYTE \in Nat
      BY <2>1, <3>2
    <3> DEFINE x == c[1] * BYTE
    <3> DEFINE y == IF Len(c) = 2 THEN c[2] ELSE 0
    <3>4. x \in Nat /\ y \in Nat
      BY <3>2, <3>3
    <3>5. Swapped(c) = x + y
      BY DEF Swapped
    <3> HIDE DEF x, y
    <3> QED
      BY <3>4, <3>5
  <2> HIDE DEF m
  <2>4. r12 \in Nat /\ r12 + Swapped(c) \in Nat
    BY <2>1, <2>2, <2>3
  <2>5. (r12 + Swapped(c)) % m \in 0 .. m - 1
    BY <2>1, <2>4, DivMod
  <2> QED
    BY <2>2, <2>3, <2>4, <2>5 DEF m
<1>24. LoopOK'
  <2>1. infile' \in Seq(Bytes) /\ files'[path'[stage' + 1]] \in Seq(Bytes)
    BY <1>5, <1>13, <1>15, <1>17
  <2>2. /\ in' \in Nat /\ in' = out' /\ in' =< Len(infile') /\ in' =< Len(outfile')
        /\ Len(infile') >= Len(orig')
        /\ stage' = 1 => Len(infile') = Len(orig')
    BY <1>2, <1>5, <1>7, <1>10, <1>12, <1>13, <1>15, <1>17
  <2>3. (~Encoding' /\ fresh') =>
           Len(infile') = Len(orig') /\ Len(outfile') =< Len(orig')
    <3>1. SUFFICES ASSUME ~Encoding, fresh
          PROVE  Len(infile') = Len(orig') /\ Len(outfile') =< Len(orig')
      BY <1>5, <1>6
    <3>2. Len(infile) = Len(orig) /\ Len(outfile) =< Len(orig)
      BY <1>7, <3>1
    <3> QED
      BY <1>5, <1>10, <1>12, <1>13, <1>15, <1>17, <3>2
  <2>4. ASSUME NEW i \in 1 .. Len(orig), i > in' PROVE infile'[i] = Before(i)'
    <3>1. i > in + Len(c) /\ i > in
      BY <1>2, <1>7, <1>12, <2>4
    <3>2. infile'[i] = infile[i] /\ infile[i] = Before(i)
      BY <1>7, <1>17, <3>1
    <3> QED
      BY <1>2, <3>2, SidesStep
  <2>5. ASSUME NEW i \in 1 .. Len(orig), i =< in' PROVE outfile'[i] = After(i)'
    <3>1. i \in Nat \ {0}
      BY <1>12
    <3>2. CASE i =< in
      <4>1. outfile[i] = After(i) /\ g[i] = outfile[i]
        BY <1>7, <1>13, <3>1, <3>2
      <4> QED
        BY <1>2, <1>15, <4>1, SidesStep
    <3>3. CASE i > in
      <4> DEFINE k == i - in
      <4>1. k \in 1 .. Len(c) /\ in + k = i /\ in + k - 1 = i - 1
        BY <1>2, <1>7, <1>12, <2>5, <3>1, <3>3
      <4> HIDE DEF k
      <4>2. g[i] = s[k] /\ c[k] = infile[i] /\ infile[i] = Before(i)
        BY <1>7, <1>10, <1>13, <3>3, <4>1
      <4>3. s[k] = Changed(progs[stage], arg, (in + k - 1) % 4, c[k])
        BY <1>11, <4>1
      <4>4. s[k] = Changed(progs[stage], arg, (i - 1) % 4, Before(i))
        BY <4>1, <4>2, <4>3
      <4>5. s[k] = After(i)
        BY <1>1, <1>4, <4>4, AfterIs
      <4> QED
        BY <1>2, <1>15, <4>2, <4>5, SidesStep
    <3> QED
      BY <1>7, <3>1, <3>2, <3>3
  <2>6. ~Encoding' => ecx' = in' % 4
    <3>1. SUFFICES ASSUME ~Encoding PROVE ecx' = in' % 4
      BY <1>6
    <3>2. Len(c) = 1 /\ ecx = in % 4
      <4>1. Chunk = 1 /\ ecx = in % 4
        BY <1>7, <1>9, <3>1
      <4> QED
        BY <1>10, <1>12, <4>1
    <3>3. \A x \in Nat : ((x % 4) + 1) % 4 = (x + 1) % 4
      OBVIOUS
    <3> QED
      BY <1>2, <1>7, <3>2, <3>3
  <2>7. ~(pc' = "get_checksum")
    BY <1>3
  <2> QED
    BY <1>5, <1>23, <2>1, <2>2, <2>3, <2>4, <2>5, <2>6, <2>7 DEF LoopOK
<1>25. SumOK'
  <2>1. SUFFICES ASSUME Encoding, fresh
        PROVE  /\ infile' = IF stage' = 1 THEN orig' ELSE Sealed(orig)'
               /\ in' % 2 = 0 \/ in' = Len(infile')
               /\ r12' = Sums(infile')[in'] % (BYTE * BYTE)
               /\ stage' = 1 => Len(outfile') = in'
               /\ (stage' = 2 /\ pc' = "loop") => checksum' = WordSum(orig')
    BY <1>5, <1>6 DEF SumOK
  <2>2. /\ infile = IF stage = 1 THEN orig ELSE Sealed(orig)
        /\ in % 2 = 0 \/ in = Len(infile)
        /\ r12 = Sums(infile)[in] % (BYTE * BYTE)
        /\ stage = 1 => Len(outfile) = in
        /\ (stage = 2 /\ pc = "loop") => checksum = WordSum(orig)
    BY <1>1, <1>3, <2>1 DEF SumOK
  <2>3. ~InPlace
    BY <1>1, <2>1 DEF SettingOK
  <2>4. infile' = infile
    BY <1>15, <2>3
  <2>5. in % 2 = 0
    BY <1>10, <2>2
  <2>6. Len(c) \in {1, 2} /\ (Len(c) = 2 \/ in + Len(c) = Len(infile))
    <3>1. Chunk = 2
      BY <1>9, <2>1
    <3> QED
      BY <1>10, <1>12, <3>1
  <2>7. in' % 2 = 0 \/ in' = Len(infile')
    <3>1. CASE Len(c) = 2
      BY <1>2, <1>7, <2>5, <3>1
    <3>2. CASE in + Len(c) = Len(infile)
      BY <1>2, <2>4, <3>2
    <3> QED
      BY <2>6, <3>1, <3>2
  <2>8. r12' = Sums(infile')[in'] % (BYTE * BYTE)
    <3>1. ((Sums(infile)[in] % (BYTE * BYTE)) + Swapped(c)) % (BYTE * BYTE) =
            Sums(infile)[in + Len(c)] % (BYTE * BYTE)
      BY <1>7, <1>10, <2>5, <2>6, AddWord
    <3> QED
      BY <1>2, <2>2, <2>4, <3>1
  <2>9. stage' = 1 => Len(outfile') = in'
    BY <1>2, <1>5, <1>13, <1>15, <2>2
  <2> QED
    BY <1>2, <1>5, <1>6, <2>2, <2>4, <2>7, <2>8, <2>9
<1> QED
  BY <1>18, <1>19, <1>20, <1>21, <1>22, <1>24, <1>25 DEF Consistent

\* encode appends the sum.
LEMMA AddChecksumStep ==
    ASSUME Consistent, AddChecksum, ~lost'
    PROVE  Consistent'
<1> DEFINE x == r12 % BYTE
<1> DEFINE y == r12 \div BYTE
<1> DEFINE s == <<x, y>>
<1> DEFINE g == Overwrite(outfile, in, s)
<1>1. SettingOK /\ PhaseOK /\ ArgOK /\ UnopenedOK /\ LoopOK /\ SumOK
  BY DEF Consistent
<1>2. /\ pc = "loop" /\ prog = "encode" /\ NextChunk = <<>>
      /\ SetOutfile(Overwrite(outfile, out, s)) /\ Exit("ok")
      /\ UNCHANGED <<fileVars, loopVars, stage, checksum, verdict>>
  BY DEF AddChecksum, WriteFails
<1>3. Reading
  BY <1>2 DEF Reading
<1>4. /\ Encoding /\ stage = 1 /\ ~InPlace /\ orig \in Seq(Bytes) /\ Accepts(progs[1], arg)
      /\ Chunk = 2
  <2>1. progs \in Pipelines /\ stage \in {1, 2} /\ orig \in Seq(Bytes) /\ Accepts(progs[1], arg)
    BY <1>1, <1>3 DEF SettingOK, PhaseOK, ArgOK
  <2>2. Encoding /\ stage = 1 /\ Chunk = 2
    BY <1>2, <2>1, ProgIs
  <2>3. ~InPlace
    BY <1>1, <2>2 DEF SettingOK
  <2> QED
    BY <2>1, <2>2, <2>3
<1>5. PhaseOK' /\ pc' = "exit" /\ status'[stage] = "ok"
  <2>1. "ok" \in Codes /\ pc # "exit"
    BY <1>2 DEF Good, Codes
  <2> QED
    BY <1>1, <1>2, <2>1, ExitIs DEF fileVars
<1>6. /\ progs' = progs /\ path' = path /\ orig' = orig /\ fresh' = fresh /\ stage' = stage
      /\ UNCHANGED <<path, stage>>
  BY <1>2 DEF fileVars
<1>7. /\ infile \in Seq(Bytes) /\ in \in Nat /\ in = out /\ in =< Len(infile)
      /\ in =< Len(outfile) /\ Len(infile) = Len(orig)
      /\ r12 \in 0 .. BYTE * BYTE - 1
  BY <1>1, <1>3, <1>4 DEF LoopOK
<1>8. outfile \in Seq(Bytes)
  BY <1>1, OutfileIs
<1>9. in = Len(infile)
  <2> DEFINE f == infile
  <2>1. /\ f \in Seq(Bytes) /\ in =< Len(f) /\ 2 \in {1, 2}
        /\ SubSeq(f, in + 1, IF in + 2 > Len(f) THEN Len(f) ELSE in + 2) = <<>>
    BY <1>2, <1>4, <1>7 DEF NextChunk
  <2> HIDE DEF f
  <2>2. in = Len(f)
    BY <1>7, <2>1, ReadIs
  <2> QED
    BY <2>2 DEF f
<1>10. \A i \in 1 .. Len(orig) : outfile[i] = Middle(i)
  <2>1. \A i : After(i) = Middle(i)
    BY <1>4 DEF After
  <2> QED
    BY <1>1, <1>3, <1>9, <2>1, AtEnd
<1>11. x \in Bytes /\ y \in Bytes
  BY <1>7, TwoBytes
<1> HIDE DEF x, y
<1>12. s \in Seq(Bytes) /\ Len(s) = 2 /\ s[1] = x /\ s[2] = y
  BY <1>11
<1> HIDE DEF s
<1>13. /\ g \in Seq(Bytes) /\ Len(g) >= in + 2
       /\ Len(outfile) = in => Len(g) = in + 2
       /\ \A i \in Nat \ {0} : i =< in => g[i] = outfile[i]
       /\ g[in + 1] = x /\ g[in + 2] = y
  <2> DEFINE o == outfile
  <2>1. /\ o \in Seq(Bytes) /\ s \in Seq(Bytes) /\ in \in Nat /\ in =< Len(o)
        /\ g = Overwrite(o, in, s)
    BY <1>7, <1>8, <1>12
  <2> HIDE DEF o, g
  <2>2. /\ g \in Seq(Bytes) /\ Len(g) >= in + Len(s)
        /\ Len(o) = in => Len(g) = in + Len(s)
        /\ \A i \in Nat \ {0} : i =< in => g[i] = o[i]
        /\ \A k \in 1 .. Len(s) : g[in + k] = s[k]
    BY <2>1, OverwriteParts
  <2>3. 1 \in 1 .. Len(s) /\ 2 \in 1 .. Len(s)
    BY <1>12
  <2> QED
    BY <1>12, <2>2, <2>3 DEF o
<1>14. SetOutfile(g)
  BY <1>2, <1>7
<1> HIDE DEF g
<1>15. /\ files' \in [1 .. 3 -> Seq(Bytes) \cup {NONE}]
       /\ files'[path[stage + 1]] = g
       /\ \A k \in 1 .. 3 : k # stage + 1 => files'[k] = files[k]
  BY <1>1, <1>4, <1>6, <1>13, <1>14, StoreIs
<1>16. SettingOK'
  BY <1>1, <1>2, <1>15, SettingStep
<1>17. ArgOK'
  BY <1>2, <1>4, ArgStep
<1>18. UnopenedOK'
  <2>1. fresh => files'[3] = NONE
    BY <1>1, <1>4, <1>15 DEF UnopenedOK
  <2> QED
    BY <1>5, <1>6, <2>1 DEF UnopenedOK
<1>19. LoopOK' /\ SumOK' /\ ResultOK'
  BY <1>4, <1>5, <1>6 DEF LoopOK, SumOK, ResultOK, Reading
<1>20. MiddleOK'
  <2>1. Len(orig) \in Nat /\ Len(g) \in Nat
    BY <1>4, <1>13, LenProperties
  <2>2. files'[path'[2]] = g /\ Encoding'
    <3>1. stage + 1 = 2
      BY <1>4
    <3> QED
      BY <1>4, <1>6, <1>15, <3>1 DEF Encoding
  <2>3. Len(g) >= Len(orig)
    BY <1>7, <1>9, <1>13, <2>1
  <2>4. ASSUME NEW i \in 1 .. Len(orig) PROVE g[i] = Middle(i)
    <3>1. i \in Nat \ {0} /\ i =< in
      BY <1>7, <1>9, <2>1
    <3>2. g[i] = outfile[i]
      BY <1>13, <3>1
    <3> QED
      BY <1>10, <3>2
  <2>5. ASSUME fresh PROVE g = Sealed(orig)
    <3>1. infile = orig /\ r12 = Sums(infile)[in] % (BYTE * BYTE) /\ Len(outfile) = in
      BY <1>1, <1>3, <1>4, <2>5 DEF SumOK
    <3>2. r12 = WordSum(orig)
      BY <1>4, <1>9, <3>1, WordSumIs
    <3>3. /\ Sealed(orig) \in Seq(Bytes) /\ Len(Sealed(orig)) = Len(orig) + 2
          /\ \A i \in 1 .. Len(orig) : Sealed(orig)[i] = orig[i]
          /\ Sealed(orig)[Len(orig) + 1] = x
          /\ Sealed(orig)[Len(orig) + 2] = y
      BY <1>4, <3>2, SealedIs DEF x, y
    <3>4. Len(g) = Len(orig) + 2 /\ g[Len(orig) + 1] = x /\ g[Len(orig) + 2] = y
      BY <1>7, <1>9, <1>13, <3>1
    <3>5. \A i : Middle(i) = orig[i]
      <4>1. progs[1] = "encode"
        BY <1>4 DEF Encoding
      <4> QED
        BY <4>1 DEF Middle, Changed
    <3>6. ASSUME NEW i \in 1 .. Len(g) PROVE g[i] = Sealed(orig)[i]
      <4>1. i \in 1 .. Len(orig) \/ i = Len(orig) + 1 \/ i = Len(orig) + 2
        BY <2>1, <3>4
      <4>2. ASSUME i \in 1 .. Len(orig) PROVE g[i] = orig[i]
        BY <2>4, <3>5, <4>2
      <4> QED
        BY <3>3, <3>4, <4>1, <4>2
    <3>7. Len(g) = Len(Sealed(orig))
      BY <3>3, <3>4
    <3> DEFINE u == Sealed(orig)
    <3>8. u \in Seq(Bytes) /\ Len(g) = Len(u) /\ \A i \in 1 .. Len(g) : g[i] = u[i]
      BY <3>3, <3>6, <3>7
    <3> HIDE DEF u
    <3>9. g = u
      BY <1>13, <3>8, SeqEqual
    <3> QED
      BY <3>9 DEF u
  <2>6. Sealed(orig)' = Sealed(orig) /\ \A i : Middle(i)' = Middle(i)
    BY <1>2 DEF Middle, fileVars
  <2> QED
    BY <1>6, <1>13, <2>2, <2>3, <2>4, <2>5, <2>6 DEF MiddleOK
<1> QED
  BY <1>5, <1>16, <1>17, <1>18, <1>19, <1>20 DEF Consistent

\* decode compares the sums.
LEMMA CmpChecksumStep ==
    ASSUME Consistent, CmpChecksum
    PROVE  Consistent'
<1>1. SettingOK /\ PhaseOK /\ ArgOK /\ UnopenedOK /\ LoopOK /\ SumOK
  BY DEF Consistent
<1>2. /\ pc = "loop" /\ prog = "decode" /\ NextChunk = <<>>
      /\ verdict' = (r12 = checksum) /\ Exit("ok")
      /\ UNCHANGED <<fileVars, loopVars, files, stage, checksum, lost>>
  BY DEF CmpChecksum
<1>3. Reading
  BY <1>2 DEF Reading
<1>4. /\ Encoding /\ stage = 2 /\ orig \in Seq(Bytes) /\ Accepts(progs[1], arg)
      /\ Chunk = 2
  <2>1. progs \in Pipelines /\ stage \in {1, 2} /\ orig \in Seq(Bytes) /\ Accepts(progs[1], arg)
    BY <1>1, <1>3 DEF SettingOK, PhaseOK, ArgOK
  <2>2. Encoding /\ stage = 2 /\ Chunk = 2
    BY <1>2, <2>1, ProgIs
  <2> QED
    BY <2>1, <2>2
<1>5. PhaseOK' /\ pc' = "exit" /\ status'[stage] = "ok"
  <2>1. "ok" \in Codes /\ pc # "exit"
    BY <1>2 DEF Good, Codes
  <2> QED
    BY <1>1, <1>2, <2>1, ExitIs DEF fileVars
<1>6. SettingOK'
  <2>1. files' \in [1 .. 3 -> Seq(Bytes) \cup {NONE}]
    BY <1>1, <1>2 DEF SettingOK
  <2> QED
    BY <1>1, <1>2, <2>1, SettingStep
<1>7. in = Len(infile)
  <2> DEFINE f == infile
  <2>1. /\ f \in Seq(Bytes) /\ in =< Len(f) /\ in \in Nat /\ 2 \in {1, 2}
        /\ SubSeq(f, in + 1, IF in + 2 > Len(f) THEN Len(f) ELSE in + 2) = <<>>
    BY <1>1, <1>2, <1>3, <1>4 DEF NextChunk, LoopOK
  <2> HIDE DEF f
  <2>2. in = Len(f)
    BY <2>1, ReadIs
  <2> QED
    BY <2>2 DEF f
<1>8. ArgOK'
  BY <1>2, <1>4, ArgStep
<1>9. UnopenedOK' /\ MiddleOK' /\ LoopOK' /\ SumOK'
  BY <1>2, <1>4, <1>5 DEF UnopenedOK, MiddleOK, LoopOK, SumOK, FirstDone, Reading
<1>10. RoundTrip'
  BY <1>1, <1>2, <1>3, <1>4, <1>7, TripComplete
<1>11. VerdictCountsChecksum'
  <2>1. SUFFICES ASSUME fresh
        PROVE  /\ checksum = WordSum(orig)
               /\ verdict' = (checksum =
                    WordSum(orig \o <<checksum % BYTE, checksum \div BYTE>>))
    BY <1>2 DEF VerdictCountsChecksum, fileVars
  <2>2. /\ infile = Sealed(orig) /\ checksum = WordSum(orig)
        /\ r12 = Sums(infile)[in] % (BYTE * BYTE)
    BY <1>1, <1>2, <1>3, <1>4, <2>1 DEF SumOK
  <2>3. Sealed(orig) = orig \o <<checksum % BYTE, checksum \div BYTE>>
    BY <2>2 DEF Sealed
  <2> DEFINE u == Sealed(orig)
  <2>4. u \in Seq(Bytes)
    BY <1>4, SealedIs
  <2>5. r12 = Sums(u)[Len(u)] % (BYTE * BYTE)
    BY <1>7, <2>2
  <2>6. u = orig \o <<checksum % BYTE, checksum \div BYTE>>
    BY <2>3
  <2> HIDE DEF u
  <2>7. r12 = WordSum(u)
    BY <2>4, <2>5, WordSumIs
  <2>8. verdict' = (r12 = checksum)
    BY <1>2
  <2>9. (r12 = checksum) = (checksum = r12)
    OBVIOUS
  <2> QED
    BY <2>2, <2>6, <2>7, <2>8, <2>9
<1>12. ResultOK'
  BY <1>10, <1>11 DEF ResultOK
<1> QED
  BY <1>5, <1>6, <1>8, <1>9, <1>12 DEF Consistent

\* A step that changes nothing.
LEMMA StutterStep ==
    ASSUME Consistent, UNCHANGED vars
    PROVE  Consistent'
<1>1. /\ progs' = progs /\ path' = path /\ arg' = arg /\ orig' = orig /\ fresh' = fresh
      /\ files' = files /\ stage' = stage /\ pc' = pc /\ in' = in /\ out' = out
      /\ ecx' = ecx /\ r12' = r12 /\ checksum' = checksum /\ verdict' = verdict
      /\ status' = status /\ lost' = lost
  BY DEF vars, fileVars, loopVars
<1>2. SettingOK' /\ PhaseOK' /\ UnopenedOK'
  BY <1>1 DEF Consistent, SettingOK, PhaseOK, UnopenedOK, InPlace, Encoding
<1>3. ArgOK'
  <2>1. ArgOK
    BY DEF Consistent
  <2>2. Accepts(progs[1], arg)' = Accepts(progs[1], arg)
    BY <1>1 DEF Accepts, DecoderAccepts, CoderAccepts, RotAccepts
  <2> QED
    BY <1>1, <2>1, <2>2 DEF ArgOK, Reading, FirstDone
<1>4. /\ \A i : Middle(i)' = Middle(i)
      /\ \A i : Before(i)' = Before(i) /\ After(i)' = After(i)
      /\ Sealed(orig)' = Sealed(orig)
      /\ infile' = infile /\ outfile' = outfile
  BY <1>1 DEF Middle, Before, After, infile, outfile
<1>5. MiddleOK' /\ LoopOK' /\ SumOK'
  BY <1>1, <1>4 DEF Consistent, MiddleOK, LoopOK, SumOK, Reading, FirstDone, Encoding
<1>6. ResultOK'
  <2>1. ResultOK
    BY DEF Consistent
  <2>2. RoundTrip' = RoundTrip /\ VerdictCountsChecksum' = VerdictCountsChecksum
    BY <1>1 DEF RoundTrip, VerdictCountsChecksum, Succeeded
  <2> QED
    BY <1>1, <2>1, <2>2 DEF ResultOK
<1> QED
  BY <1>2, <1>3, <1>5, <1>6 DEF Consistent

\* Every step keeps the invariant.
LEMMA FilterNext == FilterInv /\ [Next]_vars => FilterInv'
<1> SUFFICES ASSUME FilterInv, [Next]_vars, ~lost' PROVE Consistent'
  BY DEF FilterInv
<1>1. CASE RejectArgs
  <2>1. lost' = lost
    BY <1>1 DEF RejectArgs
  <2>2. Consistent
    BY <2>1 DEF FilterInv
  <2>3. /\ pc = "start" /\ (Exit("usage") \/ Exit("failed"))
        /\ UNCHANGED <<fileVars, loopVars, files, stage, checksum, verdict, lost>>
    BY <1>1 DEF RejectArgs
  <2> QED
    BY <2>2, <2>3, FailStep
<1>2. CASE OpenFail
  <2>1. lost' = lost
    BY <1>2 DEF OpenFail
  <2>2. Consistent
    BY <2>1 DEF FilterInv
  <2>3. /\ pc = "start" /\ Exit("failed")
        /\ UNCHANGED <<fileVars, loopVars, files, stage, checksum, verdict, lost>>
    BY <1>2 DEF OpenFail
  <2> QED
    BY <2>2, <2>3, FailStep
<1>3. CASE Open
  <2>1. lost' = lost
    BY <1>3 DEF Open
  <2>2. Consistent
    BY <2>1 DEF FilterInv
  <2> QED
    BY <1>3, <2>2, OpenStep
<1>4. CASE GetChecksum
  <2>1. ~lost
    BY <1>4 DEF GetChecksum
  <2>2. Consistent
    BY <2>1 DEF FilterInv
  <2> QED
    BY <1>4, <2>2, GetChecksumStep
<1>5. CASE CopyChunk
  <2>1. lost' = lost
    BY <1>5 DEF CopyChunk, WriteFails
  <2>2. Consistent
    BY <2>1 DEF FilterInv
  <2> QED
    BY <1>5, <2>2, CopyStep
<1>6. CASE ReadFails
  BY <1>6 DEF ReadFails
<1>7. CASE FinishCopy
  <2>1. lost' = lost
    BY <1>7 DEF FinishCopy
  <2>2. Consistent
    BY <2>1 DEF FilterInv
  <2> QED
    BY <1>7, <2>2, FinishStep
<1>8. CASE AddChecksum
  <2>1. lost' = lost
    BY <1>8 DEF AddChecksum, WriteFails
  <2>2. Consistent
    BY <2>1 DEF FilterInv
  <2> QED
    BY <1>8, <2>2, AddChecksumStep
<1>9. CASE CmpChecksum
  <2>1. lost' = lost
    BY <1>9 DEF CmpChecksum
  <2>2. Consistent
    BY <2>1 DEF FilterInv
  <2> QED
    BY <1>9, <2>2, CmpChecksumStep
<1>10. CASE RunSecond
  <2>1. lost' = lost
    BY <1>10 DEF RunSecond
  <2>2. Consistent
    BY <2>1 DEF FilterInv
  <2> QED
    BY <1>10, <2>2, SecondStep
<1>11. CASE Done \/ UNCHANGED vars
  <2>1. UNCHANGED vars
    BY <1>11 DEF Done
  <2>2. lost' = lost
    BY <2>1 DEF vars
  <2>3. Consistent
    BY <2>2 DEF FilterInv
  <2> QED
    BY <2>1, <2>3, StutterStep
<1> QED
  BY <1>1, <1>2, <1>3, <1>4, <1>5, <1>6, <1>7, <1>8, <1>9, <1>10, <1>11 DEF Next

-----------------------------------------------------------------------------
(* The theorems *)

\* The invariant of the programs holds in every behaviour.
THEOREM FilterCorrect == Spec => []FilterInv
BY FilterInit, FilterNext, PTL DEF Spec

\* A pipeline in which both programs succeed has shown what ResultOK says.
LEMMA FilterResult ==
    ASSUME FilterInv
    PROVE  RoundTrip /\ VerdictCountsChecksum
<1>1. CASE ~Succeeded
  BY <1>1 DEF RoundTrip, VerdictCountsChecksum
<1>2. CASE Succeeded
  <2>1. Len(status) = 2 /\ status[2] \in Good /\ ~lost
    BY <1>2 DEF Succeeded, Good
  <2>2. Consistent
    BY <2>1 DEF FilterInv
  <2>3. stage = 2 /\ pc = "exit"
    <3>1. stage \in {1, 2} /\ Len(status) = (stage - 1) + (IF pc = "exit" THEN 1 ELSE 0)
      BY <2>2 DEF Consistent, PhaseOK
    <3>2. ASSUME pc # "exit" PROVE FALSE
      <4>1. 2 = (stage - 1) + 0
        BY <2>1, <3>1, <3>2
      <4> QED
        BY <3>1, <4>1
    <3>3. 2 = (stage - 1) + 1
      BY <2>1, <3>1, <3>2
    <3> QED
      BY <3>1, <3>2, <3>3
  <2> QED
    BY <2>1, <2>2, <2>3 DEF Consistent, ResultOK
<1> QED
  BY <1>1, <1>2

\* coder and decoder, rot and its complement, encode and decode give back the
\* bytes of every file of any length, for every argument that is accepted and
\* every width of a byte, in place and over older files too, when no read and
\* no write fails.
THEOREM EveryRoundTrip == Spec => []RoundTrip
BY FilterCorrect, FilterResult, PTL

\* For every file encode and decode agree on the sum that is stored, and the
\* verdict of CMP_CHECKSUM is about the sum of the file with its checksum.
THEOREM VerdictIsAboutWholeFile == Spec => []VerdictCountsChecksum
BY FilterCorrect, FilterResult, PTL

=============================================================================
