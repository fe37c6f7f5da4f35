-------------------------- MODULE MenuProgramProofs -------------------------
(***************************************************************************)
(* Proofs about MenuProgram: the data sections hold words and FACTOR's     *)
(* first answer is a factorial, for registers of any width; FIBBY displays *)
(* Fibonacci numbers up to the overflow and none after it, for the widths  *)
(* that SumsAssumption describes.                                          *)
(***************************************************************************)
EXTENDS MenuProgram, NumberLemmas, SequenceTheorems, TLAPS

-----------------------------------------------------------------------------
(* The reference definitions *)

\* What the proofs use of the width of a register.
LEMMA WordFacts == WORD \in Nat \ {0} /\ WORD >= 64 /\ Words = 0 .. WORD - 1
BY MenuAssumption DEF Words

\* The steps of Factorial.
FactorialStep == [n \in 1 .. WORD |-> [x \in Words |-> (n * x) % WORD]]

\* Factorial is what its definition says: words that multiply up.
LEMMA FactorialIs ==
    /\ Factorial[0] = 1
    /\ \A n \in 1 .. WORD : Factorial[n] = (n * Factorial[n - 1]) % WORD
    /\ \A n \in 0 .. WORD : Factorial[n] \in Words
<1>1. FactorialStep \in [1 .. WORD -> [Words -> Words]]
  <2> SUFFICES ASSUME NEW n \in 1 .. WORD, NEW x \in Words
               PROVE  (n * x) % WORD \in Words
    BY DEF FactorialStep
  <2>1. n * x \in Nat
    BY WordFacts
  <2> QED
    BY <2>1, WordFacts, DivMod
<1>2. 1 \in Words
  BY WordFacts
<1>3. PICK f \in [0 .. WORD -> Words] : Follows(f, 1, FactorialStep, WORD)
  BY <1>1, <1>2, WordFacts, Recursion
<1>4. f[0] = 1 /\ \A n \in 1 .. WORD : f[n] = (n * f[n - 1]) % WORD
  <2>1. \A n \in 1 .. WORD : n - 1 \in 0 .. WORD
    BY WordFacts
  <2> QED
    BY <1>3, <2>1 DEF Follows, FactorialStep
<1>5. f = [n \in 0 .. WORD |-> IF n = 0 THEN 1 ELSE (n * f[n - 1]) % WORD]
  <2>1. f = [n \in 0 .. WORD |-> f[n]]
    OBVIOUS
  <2>2. \A n \in 0 .. WORD :
          f[n] = IF n = 0 THEN 1 ELSE (n * f[n - 1]) % WORD
    BY <1>4, WordFacts
  <2> QED
    BY <2>1, <2>2
<1>6. Factorial =
        [n \in 0 .. WORD |->
           IF n = 0 THEN 1 ELSE (n * Factorial[n - 1]) % WORD]
  BY <1>5 DEF Factorial
<1>7. \A n \in 0 .. WORD :
        Factorial[n] = IF n = 0 THEN 1 ELSE (n * Factorial[n - 1]) % WORD
  BY <1>6
<1>8. Factorial[0] = 1
  <2>1. 0 \in 0 .. WORD
    BY WordFacts
  <2> QED
    BY <1>7, <2>1
<1>9. \A n \in 1 .. WORD : Factorial[n] = (n * Factorial[n - 1]) % WORD
  BY <1>7, WordFacts
<1>10. \A n \in 0 .. WORD : Factorial[n] = f[n]
  <2> DEFINE Bad == {n \in 0 .. WORD : Factorial[n] # f[n]}
  <2>1. SUFFICES ASSUME Bad # {} PROVE FALSE
    OBVIOUS
  <2>2. Bad \subseteq Nat
    BY WordFacts
  <2>3. PICK n \in Bad : \A k \in Bad : n =< k
    <3> HIDE DEF Bad
    <3> QED
      BY <2>1, <2>2, LeastNat
  <2>4. n \in 0 .. WORD /\ n # 0 /\ Factorial[n] # f[n]
    BY <1>4, <1>8
  <2>5. n \in 1 .. WORD /\ n - 1 \in 0 .. WORD /\ n - 1 \notin Bad
    BY <2>3, <2>4, WordFacts
  <2>6. Factorial[n - 1] = f[n - 1]
    BY <2>5
  <2> QED
    BY <1>4, <1>9, <2>4, <2>5, <2>6
<1> QED
  BY <1>3, <1>8, <1>9, <1>10

-----------------------------------------------------------------------------
(* Types *)

\* What a register keeps of a sum is a word.
LEMMA RegisterWord ==
    ASSUME NEW x \in Nat
    PROVE  x % WORD \in Words
BY WordFacts, DivMod

\* The sum of two words and a carry that does not carry again is a word.
LEMMA CarryFacts ==
    ASSUME NEW x \in Words, NEW y \in Words, NEW c \in {0, 1}
    PROVE  /\ x + y + c \in Nat
           /\ Carry(x + y + c) \in {0, 1}
           /\ Carry(x + y + c) # 1 => x + y + c \in Words
<1> DEFINE s == x + y + c
<1>1. s \in Nat /\ s =< 2 * WORD - 1
  BY WordFacts
<1> HIDE DEF s
<1> DEFINE q == s \div WORD
<1> DEFINE r == s % WORD
<1>2. q \in Nat /\ r \in 0 .. WORD - 1 /\ s = WORD * q + r
  BY <1>1, WordFacts, DivMod
<1> HIDE DEF q, r
<1>3. q =< 1
  <2>1. SUFFICES ASSUME q >= 2 PROVE FALSE
    BY <1>2
  <2>2. WORD * (q - 1) >= WORD
    BY <1>2, <2>1, WordFacts, Multiple
  <2>3. WORD * (q - 1) = WORD * q - WORD
    BY <1>2, WordFacts
  <2> QED
    BY <1>1, <1>2, <2>2, <2>3, WordFacts
<1>4. q # 1 => s \in Words
  <2>1. SUFFICES ASSUME q = 0 PROVE s \in Words
    BY <1>2, <1>3
  <2>2. s = r
    BY <1>2, <2>1, WordFacts
  <2> QED
    BY <1>2, <2>2, WordFacts
<1>5. Carry(s) = q
  BY DEF Carry, q
<1>6. q \in {0, 1}
  BY <1>2, <1>3
<1> QED
  BY <1>1, <1>4, <1>5, <1>6 DEF s

\* A division by 10 that does not fault: the quotient fits a register, and the
\* character of the digit does.
LEMMA DivideByTen ==
    ASSUME NEW x \in Words, NEW y \in 0 .. 9
    PROVE  /\ (y * WORD + x) \div 10 \in Words
           /\ 48 + ((y * WORD + x) % 10) \in Words
<1> DEFINE s == y * WORD + x
<1>1. s \in Nat /\ s < 10 * WORD
  <2>1. y * WORD \in Nat /\ y * WORD =< 9 * WORD
    BY WordFacts
  <2> QED
    BY <2>1, WordFacts
<1> HIDE DEF s
<1>2. s \div 10 \in Words /\ s % 10 \in 0 .. 9
  BY <1>1, WordFacts
<1> QED
  BY <1>2, WordFacts DEF s

\* The registers of the conversion, and the number that FACTOR counts down.
LoopsOK ==
    /\ pc = "hextodec" => rbx = 10 /\ ecx \in 1 .. 63
    /\ pc = "mult" => NUM1 >= 1

\* A number that is not refused is a positive word.
LEMMA StrtolWord ==
    ASSUME NEW input \in Numbers \cup {BAD}
    PROVE  /\ my_strtol(input) \in Words
           /\ ~Refused(my_strtol(input)) => my_strtol(input) >= 1
<1>1. my_strtol(input) \in Words
  BY RegisterWord, MenuAssumption, WordFacts DEF my_strtol
<1> QED
  BY <1>1, WordFacts DEF Refused

\* One turn of FIB stores words.
LEMMA FibTypes ==
    ASSUME TypeOK, Fib
    PROVE  TypeOK' /\ LoopsOK'
<1> DEFINE base == NUM_1_L + NUM_2_L
<1> DEFINE mid == CARRY_PREV + CARRY_CURR + Carry(base)
<1> DEFINE high == SECOND_CARRY_PREV + SECOND_CARRY_CURR + Carry(mid)
<1>1. /\ NUM_1_L \in Words /\ NUM_2_L \in Words /\ CARRY_CURR \in Words
      /\ CARRY_PREV \in Words /\ SECOND_CARRY_CURR \in Words
      /\ SECOND_CARRY_PREV \in Words /\ COUNT \in Words
  BY DEF TypeOK
<1>2. base \in Nat /\ Carry(base) \in {0, 1}
  <2>1. base = NUM_1_L + NUM_2_L + 0 /\ 0 \in {0, 1}
    BY <1>1, WordFacts
  <2> QED
    BY <1>1, <2>1, CarryFacts
<1> HIDE DEF base
<1>3. mid \in Nat /\ Carry(mid) \in {0, 1}
  BY <1>1, <1>2, CarryFacts
<1> HIDE DEF mid
<1>4. Carry(high) # 1 => high \in Words
  BY <1>1, <1>3, CarryFacts
<1> HIDE DEF high
<1>5. Register(base) \in Words /\ Register(mid) \in Words
  BY <1>2, <1>3, RegisterWord DEF Register
<1>6. (COUNT + 1) % WORD \in Words
  <2>1. COUNT + 1 \in Nat
    BY <1>1, WordFacts
  <2> QED
    BY <2>1, RegisterWord
<1>7. /\ NUM_1_L' \in Words /\ NUM_2_L' \in Words /\ rbx' \in Words
      /\ COUNT' \in Words
  BY <1>1, <1>5, <1>6 DEF Fib, base
<1>8. CARRY_CURR' \in Words /\ CARRY_PREV' \in Words
  BY <1>1, <1>5 DEF Fib, base, mid, carries
<1>9. SECOND_CARRY_CURR' \in Words /\ SECOND_CARRY_PREV' \in Words
  <2>1. UNCHANGED seconds \/ StoreHigh(high)
    BY DEF Fib, base, mid, high
  <2> QED
    BY <1>1, <1>4, <2>1 DEF StoreHigh, seconds
<1>10. /\ pc' \in {"menu", "fib"} /\ over' \in BOOLEAN
       /\ UNCHANGED <<calls, USER_NUM, NUM1, RES_1, asked, rax, rdx, ecx>>
  BY DEF Fib, factVars, hexVars
<1>11. LoopsOK'
  BY <1>10 DEF LoopsOK
<1> QED
  BY <1>7, <1>8, <1>9, <1>10, <1>11 DEF TypeOK

\* Every step keeps the types.
LEMMA TypeStep ==
    ASSUME TypeOK, LoopsOK, [Next]_vars
    PROVE  TypeOK' /\ LoopsOK'
<1> USE DEF fibVars, factVars, hexVars, low, carries, seconds
<1>1. CASE UNCHANGED vars
  BY <1>1 DEF TypeOK, LoopsOK, vars
<1>2. CASE Select
  BY <1>2, MenuAssumption DEF Select, TypeOK, LoopsOK
<1>3. CASE Leave \/ Refuse \/ ConvertRefuse
  <2>1. \A n \in Numbers : n % WORD \in Words
    BY RegisterWord, MenuAssumption
  <2>2. rbx \in Words /\ 0 \in Words
    BY WordFacts DEF TypeOK
  <2>3. rbx' \in Words
    BY <1>3, <2>1, <2>2 DEF Leave, Refuse, ConvertRefuse, HighDigits
  <2> QED
    BY <1>3, <2>3 DEF Leave, Refuse, ConvertRefuse, TypeOK, LoopsOK
<1>4. CASE Fibby
  <2>1. USER_NUM' \in Words
    BY <1>4, StrtolWord DEF Fibby
  <2> QED
    BY <1>4, <2>1 DEF Fibby, TypeOK, LoopsOK
<1>5. CASE Fib
  BY <1>5, FibTypes
<1>6. CASE Factor
  <2>1. PICK input \in Numbers : /\ ~Refused(my_strtol(input))
                                 /\ NUM1' = my_strtol(input)
                                 /\ asked' = Append(asked, my_strtol(input))
    BY <1>6 DEF Factor
  <2>2. my_strtol(input) \in Words /\ my_strtol(input) >= 1
    BY <2>1, StrtolWord
  <2>3. asked' \in Seq(Words)
    BY <2>1, <2>2, AppendProperties DEF TypeOK
  <2> QED
    BY <1>6, <2>1, <2>2, <2>3 DEF Factor, TypeOK, LoopsOK
<1>7. CASE Mult
  <2>1. NUM1 \in Words /\ RES_1 \in Words /\ NUM1 >= 1
    BY <1>7 DEF Mult, TypeOK, LoopsOK
  <2>2. NUM1 - 1 \in Words /\ NUM1 * RES_1 \in Nat
    BY <2>1, WordFacts
  <2>3. RES_1' \in Words /\ NUM1' \in Words /\ NUM1' = NUM1 - 1
    BY <1>7, <2>2, RegisterWord DEF Mult
  <2>4. NUM1' # 0 => NUM1' >= 1
    <3>1. NUM1' \in Nat
      BY <2>3, WordFacts
    <3> QED
      BY <3>1
  <2> QED
    BY <1>7, <2>1, <2>3, <2>4 DEF Mult, TypeOK, LoopsOK
<1>8. CASE Convert
  <2>1. 10 \in Words /\ 0 \in Words
    BY WordFacts
  <2>2. \A n \in Numbers : n % WORD \in Words
    BY RegisterWord, MenuAssumption
  <2>3. rax' \in Words /\ rdx' \in Words
    BY <1>8, <2>1, <2>2 DEF Convert, HighDigits, TypeOK
  <2> QED
    BY <1>8, <2>1, <2>3 DEF Convert, TypeOK, LoopsOK
<1>9. CASE HexToDec
  <2>1. /\ rbx = 10 /\ ecx \in 1 .. 63 /\ rax \in Words /\ rdx \in Words
    BY <1>9 DEF HexToDec, TypeOK, LoopsOK
  <2>2. CASE rdx >= rbx
    BY <1>9, <2>2 DEF HexToDec, TypeOK, LoopsOK
  <2>3. CASE ~(rdx >= rbx)
    <3>1. rdx \in 0 .. 9
      BY <2>1, <2>3, WordFacts
    <3>2. /\ (rdx * WORD + rax) \div 10 \in Words
          /\ 48 + ((rdx * WORD + rax) % 10) \in Words
      BY <2>1, <3>1, DivideByTen
    <3>3. /\ rax' \in Words /\ rdx' \in Words /\ ecx' = ecx - 1
          /\ pc' = IF ecx' = 0 THEN "menu" ELSE "hextodec"
          /\ UNCHANGED <<calls, rbx, fibVars, factVars>>
      BY <1>9, <2>1, <2>3, <3>2 DEF HexToDec
    <3>4. ecx' \in 0 .. 63 /\ (ecx' # 0 => ecx' \in 1 .. 63)
      BY <2>1, <3>3
    <3> QED
      BY <2>1, <3>3, <3>4 DEF TypeOK, LoopsOK
  <2> QED
    BY <2>2, <2>3
<1> QED
  BY <1>1, <1>2, <1>3, <1>4, <1>5, <1>6, <1>7, <1>8, <1>9 DEF Next, Stopped

\* Init: the data sections as assembled.
LEMMA InitTypes ==
    ASSUME Init
    PROVE  TypeOK /\ LoopsOK
<1>1. 0 \in Words /\ 1 \in Words /\ Leftover \subseteq Words
  BY MenuAssumption, WordFacts
<1>2. <<>> \in Seq(Words) /\ 0 \in 0 .. MaxCalls /\ 0 \in 0 .. 63
  BY MenuAssumption, EmptySeq
<1>3. LoopsOK
  BY DEF Init, LoopsOK
<1>4. rbx \in Words
  BY <1>1 DEF Init
<1> QED
  BY <1>1, <1>2, <1>3, <1>4 DEF Init, TypeOK

\* The words in the data sections of fib.s and factorial.s, and the registers
\* of the conversion, stay words for every width of at least six bits: the
\* high sum is stored only when it fits, and a division that does not fault
\* gives a quotient that fits.
THEOREM TypeCorrect == Spec => []TypeOK
BY InitTypes, TypeStep, PTL DEF Spec

-----------------------------------------------------------------------------
(* FACTOR *)

\* Until FACTOR is called RES_1 is 1.  While its first call multiplies, the part
\* of the factorial that is still missing from RES_1 is that of NUM1; after the
\* call nothing is missing.
MissingOK ==
    /\ Len(asked) = 0 => pc # "mult" /\ RES_1 = 1
    /\ Len(asked) = 1 /\ pc = "mult" =>
         (RES_1 * Factorial[NUM1]) % WORD = Factorial[asked[1]]
    /\ Len(asked) = 1 /\ pc # "mult" => RES_1 = Factorial[asked[1]]

\* One turn of MULT takes a factor from what is missing to RES_1.
LEMMA MultTurn ==
    ASSUME NEW n \in Words, NEW r \in Words, n >= 1
    PROVE  /\ (((n * r) % WORD) * Factorial[n - 1]) % WORD
                = (r * Factorial[n]) % WORD
           /\ n = 1 => (n * r) % WORD = (r * Factorial[n]) % WORD
<1> DEFINE f == Factorial[n - 1]
<1>1. n \in 1 .. WORD /\ n - 1 \in 0 .. WORD /\ n \in Nat /\ r \in Nat
  BY WordFacts
<1>2. f \in Nat /\ Factorial[n] = (n * f) % WORD
  <2>1. f \in Words
    BY <1>1, FactorialIs
  <2>2. Factorial[n] = (n * f) % WORD
    BY <1>1, FactorialIs
  <2> HIDE DEF f
  <2> QED
    BY <2>1, <2>2, WordFacts
<1>3. n = 1 => f = 1
  BY FactorialIs
<1> HIDE DEF f
<1>4. n * r \in Nat /\ n * f \in Nat
  BY <1>1, <1>2
<1>5. (((n * r) % WORD) * f) % WORD = ((n * r) * f) % WORD
  BY <1>2, <1>4, WordFacts, ModProduct
<1>6. (((n * f) % WORD) * r) % WORD = ((n * f) * r) % WORD
  BY <1>1, <1>4, WordFacts, ModProduct
<1>7. (n * r) * f = (n * f) * r
  BY <1>1, <1>2
<1>8. ((n * f) % WORD) * r = r * ((n * f) % WORD)
  <2>1. (n * f) % WORD \in Nat
    BY <1>4, WordFacts, DivMod
  <2> QED
    BY <1>1, <2>1
<1>9. (((n * r) % WORD) * f) % WORD = (r * Factorial[n]) % WORD
  BY <1>2, <1>5, <1>6, <1>7, <1>8
<1>10. ASSUME n = 1 PROVE (n * r) % WORD = (r * Factorial[n]) % WORD
  <2>1. f = 1
    BY <1>3, <1>10
  <2>2. (n * r) % WORD \in Nat
    BY <1>4, WordFacts, DivMod
  <2>3. ((n * r) % WORD) * f = (n * r) % WORD
    BY <2>1, <2>2
  <2>4. (n * r) * f = n * r
    BY <1>4, <2>1
  <2> QED
    BY <1>5, <1>9, <2>3, <2>4
<1> QED
  BY <1>9, <1>10 DEF f

\* Every step keeps track of what is missing.
LEMMA MissingStep ==
    ASSUME TypeOK, LoopsOK, MissingOK, [Next]_vars
    PROVE  MissingOK'
<1>1. CASE Factor
  <2>1. PICK input \in Numbers : /\ ~Refused(my_strtol(input))
                                 /\ NUM1' = my_strtol(input)
                                 /\ asked' = Append(asked, my_strtol(input))
    BY <1>1 DEF Factor
  <2> DEFINE x == my_strtol(input)
  <2>2. x \in Words
    BY StrtolWord
  <2>3. asked \in Seq(Words) /\ pc' = "mult" /\ RES_1' = RES_1
    BY <1>1 DEF Factor, TypeOK
  <2> HIDE DEF x
  <2>4. /\ asked' = Append(asked, x) /\ NUM1' = x
        /\ Len(asked) \in Nat /\ Len(asked') = Len(asked) + 1
        /\ asked'[Len(asked) + 1] = x
    BY <2>1, <2>2, <2>3, AppendProperties DEF x
  <2>5. CASE Len(asked) = 0
    <3>1. RES_1' = 1 /\ Len(asked') = 1 /\ asked'[1] = x
      BY <2>3, <2>4, <2>5 DEF MissingOK
    <3>2. Factorial[x] \in Words
      <4>1. x \in 0 .. WORD
        BY <2>2, WordFacts
      <4> QED
        BY <4>1, FactorialIs
    <3>3. (1 * Factorial[x]) % WORD = Factorial[x]
      BY <3>2, WordFacts
    <3> QED
      BY <2>3, <2>4, <3>1, <3>3 DEF MissingOK
  <2>6. CASE Len(asked) # 0
    <3>1. Len(asked') \notin {0, 1}
      BY <2>4, <2>6
    <3> QED
      BY <3>1 DEF MissingOK
  <2> QED
    BY <2>5, <2>6
<1>2. CASE Mult
  <2>1. /\ NUM1 \in Words /\ RES_1 \in Words /\ NUM1 >= 1 /\ pc = "mult"
        /\ Len(asked) # 0
        /\ Len(asked) = 1 => (RES_1 * Factorial[NUM1]) % WORD = Factorial[asked[1]]
    BY <1>2 DEF Mult, TypeOK, LoopsOK, MissingOK
  <2>2. /\ RES_1' = (NUM1 * RES_1) % WORD /\ NUM1' = NUM1 - 1
        /\ pc' = IF NUM1' = 0 THEN "menu" ELSE "mult"
        /\ asked' = asked
    BY <1>2 DEF Mult
  <2>3. /\ (RES_1' * Factorial[NUM1']) % WORD = (RES_1 * Factorial[NUM1]) % WORD
        /\ NUM1 = 1 => RES_1' = (RES_1 * Factorial[NUM1]) % WORD
    BY <2>1, <2>2, MultTurn
  <2>4. NUM1' = 0 => NUM1 = 1
    BY <2>1, <2>2, WordFacts
  <2> QED
    BY <2>1, <2>2, <2>3, <2>4 DEF MissingOK
<1>3. CASE ~Factor /\ ~Mult
  <2>1. /\ asked' = asked /\ NUM1' = NUM1 /\ RES_1' = RES_1
        /\ pc' # "mult" \/ pc' = pc
        /\ pc = "mult" => pc' = "mult"
    BY <1>3 DEF Next, Select, Leave, Refuse, Fibby, Fib, ConvertRefuse, Convert,
       HexToDec, Stopped, vars, factVars
  <2> QED
    BY <2>1 DEF MissingOK
<1> QED
  BY <1>1, <1>2, <1>3

\* For every width, every sequence of calls and all numbers: the first answer of
\* FACTOR is the factorial of the number it was given, in a register.
THEOREM FirstFactorial == Spec => []FirstFactorialRight
<1>1. Init => MissingOK
  <2> SUFFICES ASSUME Init PROVE MissingOK
    OBVIOUS
  <2>1. asked = <<>> /\ RES_1 = 1 /\ pc = "menu"
    BY DEF Init
  <2>2. Len(<<>>) = 0
    BY EmptySeq
  <2> QED
    BY <2>1, <2>2 DEF MissingOK
<1>2. MissingOK => FirstFactorialRight
  BY DEF MissingOK, FirstFactorialRight
<1> QED
  BY <1>1, <1>2, InitTypes, TypeStep, MissingStep, PTL DEF Spec

-----------------------------------------------------------------------------
(* FIBBY *)

\* The number in three words.
Number(low0, mid0, high0) == low0 + WORD * (mid0 + WORD * high0)

Current == Number(NUM_1_L, CARRY_CURR, SECOND_CARRY_CURR)
Previous == Number(NUM_2_L, CARRY_PREV, SECOND_CARRY_PREV)

\* The first number that is too large.
Last == CHOOSE n \in 1 .. WORD - 1 : TooLargeAt(n)

\* The step of the recursion from one pair of neighbours to the next.
PairStep == [n \in 1 .. WORD |-> [x \in Nat \X Nat |-> <<x[2], x[1] + x[2]>>]]

\* Fibonacci is what its definition says.
LEMMA FibonacciIs ==
    /\ Fibonacci[0] = 0 /\ Fibonacci[1] = 1
    /\ \A n \in 2 .. WORD : Fibonacci[n] = Fibonacci[n - 1] + Fibonacci[n - 2]
    /\ \A n \in 0 .. WORD : Fibonacci[n] \in Nat
<1> DEFINE P == Nat \X Nat
<1>1. PairStep \in [1 .. WORD -> [P -> P]]
  BY DEF PairStep
<1>2. <<0, 1>> \in P
  OBVIOUS
<1> HIDE DEF P
<1>3. PICK f \in [0 .. WORD -> P] : Follows(f, <<0, 1>>, PairStep, WORD)
  BY <1>1, <1>2, WordFacts, Recursion
<1>4. f[0] = <<0, 1>>
  BY <1>3 DEF Follows
<1>5. ASSUME NEW n \in 1 .. WORD
      PROVE  f[n] = <<f[n - 1][2], f[n - 1][1] + f[n - 1][2]>>
  <2>1. n - 1 \in 0 .. WORD
    BY WordFacts
  <2>2. f[n - 1] \in Nat \X Nat
    BY <2>1 DEF P
  <2>3. f[n] = PairStep[n][f[n - 1]]
    BY <1>3 DEF Follows
  <2> QED
    BY <2>2, <2>3 DEF PairStep
<1>6. \A n \in 0 .. WORD : f[n][1] \in Nat /\ f[n][2] \in Nat
  BY DEF P
<1> DEFINE h == [n \in 0 .. WORD |-> f[n][1]]
<1>7. h[0] = 0 /\ h[1] = 1 /\ \A n \in 0 .. WORD : h[n] = f[n][1] /\ h[n] \in Nat
  <2>1. 0 \in 0 .. WORD /\ 1 \in 0 .. WORD /\ 1 \in 1 .. WORD /\ 1 - 1 = 0
    BY WordFacts
  <2>2. f[1][1] = 1
    BY <1>4, <1>5, <2>1
  <2> QED
    BY <1>4, <1>6, <2>1, <2>2
<1>8. ASSUME NEW n \in 2 .. WORD PROVE h[n] = h[n - 1] + h[n - 2]
  <2>1. /\ n \in 0 .. WORD /\ n - 1 \in 0 .. WORD /\ n - 2 \in 0 .. WORD
        /\ n \in 1 .. WORD /\ n - 1 \in 1 .. WORD /\ (n - 1) - 1 = n - 2
    BY WordFacts
  <2>2. f[n][1] = f[n - 1][2]
    BY <1>5, <2>1
  <2>3. /\ f[n - 1][2] = f[n - 2][1] + f[n - 2][2]
        /\ f[n - 1][1] = f[n - 2][2]
    BY <1>5, <2>1
  <2>4. h[n] = f[n][1] /\ h[n - 1] = f[n - 1][1] /\ h[n - 2] = f[n - 2][1]
    BY <2>1
  <2>5. f[n - 2][1] \in Nat /\ f[n - 2][2] \in Nat
    BY <1>6, <2>1
  <2> QED
    BY <2>2, <2>3, <2>4, <2>5
<1>9. h = [n \in 0 .. WORD |-> IF n < 2 THEN n ELSE h[n - 1] + h[n - 2]]
  <2>1. ASSUME NEW n \in 0 .. WORD
        PROVE  h[n] = IF n < 2 THEN n ELSE h[n - 1] + h[n - 2]
    <3>1. n < 2 => n = 0 \/ n = 1
      BY WordFacts
    <3>2. ~(n < 2) => n \in 2 .. WORD
      BY WordFacts
    <3> HIDE DEF h
    <3> QED
      BY <1>7, <1>8, <3>1, <3>2
  <2>2. h = [n \in 0 .. WORD |-> h[n]]
    OBVIOUS
  <2> HIDE DEF h
  <2> QED
    BY <2>1, <2>2
<1> HIDE DEF h
<1>10. Fibonacci = [n \in 0 .. WORD |->
                     IF n < 2 THEN n ELSE Fibonacci[n - 1] + Fibonacci[n - 2]]
  BY <1>9 DEF Fibonacci
<1>11. 0 \in 0 .. WORD /\ 1 \in 0 .. WORD
  BY WordFacts
<1>12. Fibonacci[0] = 0 /\ Fibonacci[1] = 1
  BY <1>10, <1>11
<1>13. ASSUME NEW n \in 2 .. WORD
       PROVE  Fibonacci[n] = Fibonacci[n - 1] + Fibonacci[n - 2]
  <2>1. n \in 0 .. WORD /\ ~(n < 2)
    BY WordFacts
  <2> QED
    BY <1>10, <2>1
<1>14. \A n \in 0 .. WORD : Fibonacci[n] \in Nat
  <2> DEFINE Bad == {n \in 0 .. WORD : Fibonacci[n] \notin Nat}
  <2>1. SUFFICES ASSUME Bad # {} PROVE FALSE
    OBVIOUS
  <2>2. Bad \subseteq Nat
    OBVIOUS
  <2>3. PICK n \in Bad : \A k \in Bad : n =< k
    <3> HIDE DEF Bad
    <3> QED
      BY <2>1, <2>2, LeastNat
  <2>4. n \in 0 .. WORD /\ Fibonacci[n] \notin Nat
    OBVIOUS
  <2>5. n # 0 /\ n # 1
    BY <1>12, <2>4
  <2>6. /\ n \in 2 .. WORD /\ n - 1 \in 0 .. WORD /\ n - 2 \in 0 .. WORD
        /\ n - 1 < n /\ n - 2 < n
    BY <2>4, <2>5, WordFacts
  <2>7. n - 1 \notin Bad /\ n - 2 \notin Bad
    BY <2>3, <2>6
  <2>8. Fibonacci[n - 1] \in Nat /\ Fibonacci[n - 2] \in Nat
    BY <2>6, <2>7
  <2> QED
    BY <1>13, <2>4, <2>6, <2>8
<1> QED
  BY <1>12, <1>13, <1>14

\* Dropping the lowest words keeps the order of two numbers.
LEMMA UpperWords ==
    ASSUME NEW m \in Nat \ {0}, NEW a \in 0 .. m - 1, NEW b \in 0 .. m - 1,
           NEW x \in Nat, NEW y \in Nat, b + m * x =< a + m * y
    PROVE  x =< y
<1>1. SUFFICES ASSUME x > y PROVE FALSE
  OBVIOUS
<1>2. x - y \in Nat \ {0}
  BY <1>1
<1>3. m * (x - y) >= m
  BY <1>2, Multiple
<1>4. m * (x - y) = m * x - m * y
  OBVIOUS
<1>5. m * x \in Nat /\ m * y \in Nat
  OBVIOUS
<1> QED
  BY <1>3, <1>4, <1>5

\* A number and its words.
LEMMA NumberFacts ==
    ASSUME NEW a \in Words, NEW c \in Words, NEW s \in Words
    PROVE  /\ Number(a, c, s) \in Nat
           /\ Number(a, c, s) < WORD * WORD * WORD
           /\ (Number(a, c, s) \div WORD) % WORD = c
           /\ Number(a, c, s) < WORD => c = 0 /\ s = 0
<1> DEFINE y == c + WORD * s
<1>1. /\ WORD \in Nat \ {0} /\ a \in 0 .. WORD - 1 /\ c \in 0 .. WORD - 1
      /\ s \in 0 .. WORD - 1
  BY WordFacts
<1>2. WORD * s \in Nat /\ WORD * s =< WORD * WORD - WORD /\ WORD * WORD \in Nat
  <2>1. WORD * (WORD - 1 - s) \in Nat
    BY <1>1
  <2>2. WORD * (WORD - 1 - s) = WORD * WORD - WORD - WORD * s
    BY <1>1
  <2> QED
    BY <1>1, <2>1, <2>2
<1>3. y \in Nat /\ y =< WORD * WORD - 1
  BY <1>1, <1>2
<1>4. Number(a, c, s) = a + WORD * y
  BY DEF Number
<1>5. s # 0 => y >= WORD
  <2>1. s # 0 => WORD * s >= WORD
    BY <1>1, Multiple
  <2> QED
    BY <1>1, <1>2, <2>1
<1>6. y % WORD = c
  <2>1. y = WORD * (y \div WORD) + (y % WORD) /\ y % WORD \in 0 .. WORD - 1
        /\ y \div WORD \in Nat
    <3> HIDE DEF y
    <3> QED
      BY <1>1, <1>3, DivMod
  <2>2. WORD * s + c = WORD * (y \div WORD) + (y % WORD)
    <3>1. y = WORD * s + c
      BY <1>1, <1>2
    <3> HIDE DEF y
    <3> QED
      BY <2>1, <3>1
  <2> DEFINE d == y \div WORD
             r == y % WORD
  <2>3. d \in Int /\ r \in 0 .. WORD - 1 /\ s \in Int /\ WORD * s + c = WORD * d + r
    BY <1>1, <2>1, <2>2
  <2> HIDE DEF d, r
  <2>4. c = r
    BY <1>1, <2>3, DivModUnique
  <2> QED
    BY <2>4 DEF r
<1>7. y = 0 => c = 0 /\ s = 0
  BY <1>1, <1>2, <1>5
<1> HIDE DEF y
<1> DEFINE n == a + WORD * y
<1>8. WORD * y \in Nat /\ n \in Nat
  BY <1>1, <1>3
<1>9. n < WORD * WORD * WORD
  <2>1. WORD * (WORD * WORD - 1 - y) \in Nat
    BY <1>1, <1>2, <1>3
  <2>2. WORD * (WORD * WORD - 1 - y) = WORD * WORD * WORD - WORD - WORD * y
    BY <1>1, <1>2, <1>3
  <2>3. WORD * WORD * WORD \in Nat
    BY <1>1
  <2> QED
    BY <1>1, <1>8, <2>1, <2>2, <2>3
<1>10. n \div WORD = y
  <2>1. n = WORD * (n \div WORD) + (n % WORD) /\ n % WORD \in 0 .. WORD - 1
        /\ n \div WORD \in Nat
    <3> HIDE DEF n
    <3> QED
      BY <1>1, <1>8, DivMod
  <2>2. WORD * y + a = WORD * (n \div WORD) + (n % WORD)
    <3>1. n = WORD * y + a
      BY <1>1, <1>8
    <3> HIDE DEF n
    <3> QED
      BY <2>1, <3>1
  <2> DEFINE d == n \div WORD
             r == n % WORD
  <2>3. d \in Int /\ r \in 0 .. WORD - 1 /\ y \in Int /\ WORD * y + a = WORD * d + r
    BY <1>3, <2>1, <2>2
  <2> HIDE DEF d, r
  <2>4. y = d
    BY <1>1, <2>3, DivModUnique
  <2> QED
    BY <2>4 DEF d
<1>11. n < WORD => y = 0
  <2>1. SUFFICES ASSUME y # 0 PROVE n >= WORD
    BY <1>1, <1>8
  <2>2. WORD * y >= WORD
    BY <1>1, <1>3, <2>1, Multiple
  <2> QED
    BY <1>1, <1>8, <2>2
<1> HIDE DEF n
<1>12. Number(a, c, s) = n
  BY <1>4 DEF n
<1> QED
  BY <1>6, <1>7, <1>8, <1>9, <1>10, <1>11, <1>12

\* A word that is 0 in the larger of two numbers, with all above it, is 0 in
\* the smaller one.
LEMMA NumberOrder ==
    ASSUME NEW a \in Words, NEW c \in Words, NEW s \in Words,
           NEW b \in Words, NEW p \in Words, NEW q \in Words,
           Number(b, p, q) =< Number(a, c, s)
    PROVE  /\ s = 0 => q = 0
           /\ (s = 0 /\ c = 0) => p = 0
<1>1. /\ WORD \in Nat \ {0} /\ a \in 0 .. WORD - 1 /\ c \in 0 .. WORD - 1
      /\ s \in Nat /\ b \in 0 .. WORD - 1 /\ p \in 0 .. WORD - 1 /\ q \in Nat
  BY WordFacts
<1> DEFINE x == p + WORD * q
           y == c + WORD * s
<1>2. WORD * q \in Nat /\ WORD * s \in Nat /\ x \in Nat /\ y \in Nat
  BY <1>1
<1>3. b + WORD * x =< a + WORD * y
  BY DEF Number
<1>4. x =< y
  <2> HIDE DEF x, y
  <2> QED
    BY <1>1, <1>2, <1>3, UpperWords
<1>5. q =< s
  BY <1>1, <1>4, UpperWords
<1>6. s = 0 => WORD * s = 0
  BY <1>1
<1> QED
  BY <1>1, <1>2, <1>4, <1>5, <1>6

\* The number of words d, m and q + s + l is a sum.
IsSum(a, c, s, b, p, q, d, m, l) ==
    Number(d, m, q + s + l) = Number(a, c, s) + Number(b, p, q)

\* Adding word by word with carries adds the numbers.
LEMMA WordByWord ==
    ASSUME NEW a \in Nat, NEW c \in Nat, NEW s \in Nat,
           NEW b \in Nat, NEW p \in Nat, NEW q \in Nat,
           NEW k \in Nat, NEW l \in Nat, NEW d \in Nat, NEW m \in Nat,
           a + b = WORD * k + d, p + c + k = WORD * l + m
    PROVE  IsSum(a, c, s, b, p, q, d, m, l)
<1>1. WORD \in Nat
  BY WordFacts
<1> DEFINE X == c + WORD * s
           Y == p + WORD * q
           Z == m + WORD * (q + s + l)
<1>2. WORD * (q + s + l) = WORD * q + WORD * s + WORD * l
  BY <1>1
<1>3. /\ WORD * q \in Nat /\ WORD * s \in Nat /\ WORD * l \in Nat
      /\ WORD * k \in Nat
  BY <1>1
<1>4. Z = X + Y + k
  BY <1>2, <1>3
<1>5. X \in Nat /\ Y \in Nat /\ Z \in Nat
  BY <1>3, <1>4
<1> HIDE DEF X, Y, Z
<1>6. WORD * Z = WORD * X + WORD * Y + WORD * k
  BY <1>1, <1>4, <1>5
<1>7. WORD * X \in Nat /\ WORD * Y \in Nat /\ WORD * Z \in Nat
  BY <1>1, <1>5
<1>8. d + WORD * Z = (a + WORD * X) + (b + WORD * Y)
  <2> DEFINE wx == WORD * X
             wy == WORD * Y
             wz == WORD * Z
             wk == WORD * k
  <2>1. /\ wx \in Nat /\ wy \in Nat /\ wk \in Nat
        /\ wz = wx + wy + wk /\ a + b = wk + d
    BY <1>3, <1>6, <1>7
  <2> HIDE DEF wx, wy, wz, wk
  <2>2. d + wz = (a + wx) + (b + wy)
    BY <2>1
  <2> QED
    BY <2>2 DEF wx, wy, wz
<1> QED
  BY <1>8 DEF IsSum, Number, X, Y, Z

\* Until the overflow the data section of fib.s holds two neighbours of the
\* sequence, the larger of which fits three words and was displayed.
NeighboursOK ==
    ~over =>
      /\ COUNT < Last
      /\ Current = Fibonacci[COUNT]
      /\ COUNT = 0 => Previous = 1 /\ CARRY_PREV = 0 /\ SECOND_CARRY_PREV = 0
      /\ COUNT # 0 => Previous = Fibonacci[COUNT - 1] /\ shown = Current

\* What is assumed of the width.
LEMMA LastFacts ==
    /\ Last \in 1 .. WORD - 1
    /\ Fibonacci[Last] >= WORD * WORD * WORD
    /\ \A n \in 0 .. Last - 1 :
         (Fibonacci[n] \div WORD) % WORD = 0 => Fibonacci[n] < WORD
    /\ \A n \in 1 .. Last - 1 : HighWord(n - 1) + HighWord(n) # WORD - 1
BY SumsAssumption DEF Last, TooLargeAt

\* Where a middle or a high word is 0 the code leaves out words that are 0 in
\* both neighbours.
LEMMA SkippedWords ==
    ASSUME TypeOK, NeighboursOK, ~over
    PROVE  /\ CARRY_CURR = 0 => SECOND_CARRY_CURR = 0 /\ CARRY_PREV = 0
           /\ SECOND_CARRY_CURR = 0 => SECOND_CARRY_PREV = 0
<1>1. /\ NUM_1_L \in Words /\ CARRY_CURR \in Words /\ SECOND_CARRY_CURR \in Words
      /\ NUM_2_L \in Words /\ CARRY_PREV \in Words /\ SECOND_CARRY_PREV \in Words
      /\ COUNT \in Words
  BY DEF TypeOK
<1>2. COUNT \in 0 .. Last - 1 /\ COUNT \in 0 .. WORD
  BY <1>1, LastFacts, WordFacts DEF NeighboursOK
<1>3. CARRY_CURR = 0 => SECOND_CARRY_CURR = 0
  <2>1. Current = Fibonacci[COUNT]
    BY DEF NeighboursOK
  <2>2. /\ (Current \div WORD) % WORD = CARRY_CURR
        /\ Current < WORD => CARRY_CURR = 0 /\ SECOND_CARRY_CURR = 0
    BY <1>1, NumberFacts DEF Current
  <2> QED
    BY <1>2, <2>1, <2>2, LastFacts
<1>4. CASE COUNT = 0
  BY <1>3, <1>4 DEF NeighboursOK
<1>5. CASE COUNT # 0
  <2>1. Previous = Fibonacci[COUNT - 1] /\ Current = Fibonacci[COUNT]
    BY <1>5 DEF NeighboursOK
  <2>2. Fibonacci[COUNT - 1] =< Fibonacci[COUNT]
    <3>1. CASE COUNT = 1
      BY <3>1, FibonacciIs
    <3>2. CASE COUNT # 1
      <4>1. COUNT \in 2 .. WORD /\ COUNT - 1 \in 0 .. WORD /\ COUNT - 2 \in 0 .. WORD
        BY <1>2, <1>5, <3>2, WordFacts
      <4>2. /\ Fibonacci[COUNT] = Fibonacci[COUNT - 1] + Fibonacci[COUNT - 2]
            /\ Fibonacci[COUNT - 1] \in Nat /\ Fibonacci[COUNT - 2] \in Nat
        BY <4>1, FibonacciIs
      <4> QED
        BY <4>2
    <3> QED
      BY <3>1, <3>2
  <2>3. Previous =< Current
    BY <2>1, <2>2
  <2>4. /\ SECOND_CARRY_CURR = 0 => SECOND_CARRY_PREV = 0
        /\ (SECOND_CARRY_CURR = 0 /\ CARRY_CURR = 0) => CARRY_PREV = 0
    BY <1>1, <2>3, NumberOrder DEF Current, Previous
  <2> QED
    BY <1>3, <2>4
<1> QED
  BY <1>4, <1>5

\* One turn of FIB that does not overflow adds the two numbers, whichever
\* words it leaves out, and displays the sum.
LEMMA FibTurn ==
    ASSUME TypeOK, NeighboursOK, ~over, Fib, ~over'
    PROVE  /\ Current' = Current + Previous /\ Previous' = Current
           /\ shown' = Current'
<1> DEFINE base == NUM_1_L + NUM_2_L
           mid == CARRY_PREV + CARRY_CURR + Carry(base)
           high == SECOND_CARRY_PREV + SECOND_CARRY_CURR + Carry(mid)
           two == Carry(base) = 1 \/ CARRY_CURR # 0
           three == two /\ (Carry(mid) = 1 \/ SECOND_CARRY_CURR # 0)
<1>1. /\ NUM_1_L \in Words /\ CARRY_CURR \in Words /\ SECOND_CARRY_CURR \in Words
      /\ NUM_2_L \in Words /\ CARRY_PREV \in Words /\ SECOND_CARRY_PREV \in Words
  BY DEF TypeOK
<1>2. /\ NUM_1_L' = Register(base) /\ NUM_2_L' = NUM_1_L
      /\ IF two THEN CARRY_CURR' = Register(mid) /\ CARRY_PREV' = CARRY_CURR
                ELSE CARRY_CURR' = CARRY_CURR /\ CARRY_PREV' = CARRY_PREV
      /\ ~(three /\ Carry(high) = 1)
      /\ IF three THEN /\ SECOND_CARRY_CURR' = high
                       /\ SECOND_CARRY_PREV' = SECOND_CARRY_CURR
                  ELSE /\ SECOND_CARRY_CURR' = SECOND_CARRY_CURR
                       /\ SECOND_CARRY_PREV' = SECOND_CARRY_PREV
      /\ shown' = NUM_1_L' + WORD * IF three THEN CARRY_CURR' + WORD * SECOND_CARRY_CURR'
                                    ELSE IF two THEN CARRY_CURR' ELSE 0
  BY DEF Fib, StoreHigh, carries, seconds
<1>3. /\ CARRY_CURR = 0 => SECOND_CARRY_CURR = 0 /\ CARRY_PREV = 0
      /\ SECOND_CARRY_CURR = 0 => SECOND_CARRY_PREV = 0
  BY SkippedWords
<1>4. base \in Nat /\ Carry(base) \in {0, 1}
  <2>1. base = NUM_1_L + NUM_2_L + 0
    BY <1>1, WordFacts
  <2> QED
    BY <1>1, <2>1, CarryFacts
<1>5. base = WORD * Carry(base) + Register(base) /\ Register(base) \in Words
  <2> HIDE DEF base
  <2> QED
    BY <1>4, WordFacts, DivMod DEF Carry, Register
<1>6. mid \in Nat /\ Carry(mid) \in {0, 1}
  <2> HIDE DEF base
  <2> QED
    BY <1>1, <1>4, CarryFacts
<1>7. mid = WORD * Carry(mid) + Register(mid) /\ Register(mid) \in Words
  <2> HIDE DEF mid
  <2> QED
    BY <1>6, WordFacts, DivMod DEF Carry, Register
<1>8. ~two => mid = 0 /\ Carry(mid) = 0 /\ Register(mid) = 0
  <2> SUFFICES ASSUME ~two PROVE mid = 0 /\ Carry(mid) = 0 /\ Register(mid) = 0
    OBVIOUS
  <2>1. CARRY_CURR = 0 /\ CARRY_PREV = 0 /\ Carry(base) = 0
    BY <1>3, <1>4
  <2>2. mid = 0
    BY <2>1
  <2> HIDE DEF mid
  <2>3. CASE Carry(mid) = 0
    BY <1>7, <2>2, <2>3, WordFacts
  <2>4. CASE Carry(mid) = 1
    BY <1>7, <2>2, <2>4, WordFacts
  <2> QED
    BY <1>6, <2>2, <2>3, <2>4
<1>9. CARRY_CURR' = Register(mid) /\ CARRY_PREV' = CARRY_CURR
  BY <1>2, <1>3, <1>8
<1>10. SECOND_CARRY_CURR' = high /\ SECOND_CARRY_PREV' = SECOND_CARRY_CURR
  <2>1. CASE three
    BY <1>2, <2>1
  <2>2. CASE ~three
    <3>1. Carry(mid) = 0 /\ SECOND_CARRY_CURR = 0 /\ SECOND_CARRY_PREV = 0
      <4>1. CASE two
        BY <1>3, <1>6, <2>2, <4>1
      <4>2. CASE ~two
        BY <1>3, <1>8, <4>2
      <4> QED
        BY <4>1, <4>2
    <3>2. high = 0
      <4> HIDE DEF mid
      <4> QED
        BY <3>1
    <3> QED
      BY <1>2, <2>2, <3>1, <3>2
  <2> QED
    BY <2>1, <2>2
<1>11. Current' = Number(Register(base), Register(mid), high)
  <2> HIDE DEF base, mid, high
  <2> QED
    BY <1>2, <1>9, <1>10 DEF Current, Number
<1>12. Previous' = Current
  BY <1>2, <1>9, <1>10 DEF Current, Previous, Number
<1>13. Current' = Current + Previous
  <2> DEFINE k == Carry(base)
             l == Carry(mid)
             d == Register(base)
             m == Register(mid)
  <2>1. /\ k \in Nat /\ l \in Nat /\ d \in Nat /\ m \in Nat
        /\ NUM_1_L + NUM_2_L = WORD * k + d
        /\ CARRY_PREV + CARRY_CURR + k = WORD * l + m
        /\ high = SECOND_CARRY_PREV + SECOND_CARRY_CURR + l
    <3>1. k \in Nat /\ l \in Nat
      <4> HIDE DEF base, mid
      <4> QED
        BY <1>4, <1>6
    <3>2. d \in Nat /\ m \in Nat
      <4> HIDE DEF base, mid
      <4> QED
        BY <1>5, <1>7, WordFacts
    <3>3. base = WORD * k + d /\ mid = WORD * l + m
      <4> HIDE DEF base, mid
      <4> QED
        BY <1>5, <1>7
    <3>4. NUM_1_L + NUM_2_L = base
      OBVIOUS
    <3>5. CARRY_PREV + CARRY_CURR + k = mid
      OBVIOUS
    <3>6. high = SECOND_CARRY_PREV + SECOND_CARRY_CURR + l
      OBVIOUS
    <3> HIDE DEF base, mid, high, k, l, d, m
    <3> QED
      BY <3>1, <3>2, <3>3, <3>4, <3>5, <3>6, Zenon
  <2>2. /\ NUM_1_L \in Nat /\ CARRY_CURR \in Nat /\ SECOND_CARRY_CURR \in Nat
        /\ NUM_2_L \in Nat /\ CARRY_PREV \in Nat /\ SECOND_CARRY_PREV \in Nat
    BY <1>1, WordFacts
  <2>3. Current' = Number(d, m, high)
    BY <1>11
  <2> HIDE DEF k, l, d, m, high
  <2>4. IsSum(NUM_1_L, CARRY_CURR, SECOND_CARRY_CURR,
              NUM_2_L, CARRY_PREV, SECOND_CARRY_PREV, d, m, l)
    BY <2>1, <2>2, WordByWord, Zenon
  <2> QED
    BY <2>1, <2>3, <2>4 DEF IsSum, Current, Previous
<1>14. shown' = Current'
  <2> HIDE DEF base, mid, high
  <2>1. Current' = NUM_1_L' + WORD * (CARRY_CURR' + WORD * SECOND_CARRY_CURR')
    BY DEF Current, Number
  <2>2. CASE three
    BY <1>2, <2>1, <2>2
  <2>3. CASE ~three
    <3>1. SECOND_CARRY_CURR = 0
      BY <1>3, <2>3
    <3>2. SECOND_CARRY_CURR' = 0 /\ CARRY_CURR' \in Nat
      BY <1>2, <1>7, <1>9, <2>3, <3>1, WordFacts
    <3>3. CARRY_CURR' + WORD * SECOND_CARRY_CURR' = CARRY_CURR'
      <4>1. WORD \in Nat /\ WORD * 0 = 0
        BY WordFacts
      <4>2. WORD * SECOND_CARRY_CURR' = 0
        BY <3>2, <4>1, Zenon
      <4>3. \A x \in Nat : x + 0 = x
        OBVIOUS
      <4> QED
        BY <3>2, <4>2, <4>3, Zenon
    <3>4. ~two => CARRY_CURR' = 0
      BY <1>8, <1>9
    <3> QED
      BY <1>2, <2>1, <2>3, <3>3, <3>4
  <2> QED
    BY <2>2, <2>3
<1> QED
  BY <1>12, <1>13, <1>14

\* Every step keeps NeighboursOK.
LEMMA NeighboursStep ==
    ASSUME TypeOK, LoopsOK, NeighboursOK, [Next]_vars
    PROVE  NeighboursOK'
<1>1. ASSUME UNCHANGED <<COUNT, low, carries, seconds, shown, over>>
      PROVE  NeighboursOK'
  BY <1>1 DEF NeighboursOK, Current, Previous, low, carries, seconds
<1>2. ASSUME Fib PROVE NeighboursOK'
  <2> SUFFICES ASSUME ~over'
               PROVE  /\ COUNT' < Last
                      /\ Current' = Fibonacci[COUNT']
                      /\ COUNT' # 0
                      /\ Previous' = Fibonacci[COUNT' - 1] /\ shown' = Current'
    BY DEF NeighboursOK
  <2>1. ~over
    BY <1>2 DEF Fib
  <2>2. /\ COUNT \in Nat /\ COUNT < Last /\ Current = Fibonacci[COUNT]
        /\ COUNT = 0 => Previous = 1
        /\ COUNT # 0 => Previous = Fibonacci[COUNT - 1]
    BY <2>1, WordFacts DEF NeighboursOK, TypeOK
  <2>3. COUNT + 1 \in 0 .. WORD - 1 /\ COUNT + 1 =< Last
    BY <2>2, LastFacts, WordFacts
  <2>4. COUNT' = COUNT + 1
    <3> DEFINE n == COUNT + 1
               d == n \div WORD
               r == n % WORD
    <3>1. n \in Nat /\ n \in 0 .. WORD - 1 /\ WORD \in Nat \ {0}
      BY <2>3, WordFacts
    <3>2. COUNT' = r
      BY <1>2 DEF Fib
    <3> HIDE DEF n
    <3>3. d \in Int /\ r \in 0 .. WORD - 1 /\ n = WORD * d + r
      BY <3>1, DivMod
    <3> HIDE DEF d, r
    <3>4. WORD * 0 + n = WORD * d + r
      BY <3>1, <3>3
    <3>5. n = r
      BY <3>1, <3>3, <3>4, DivModUnique
    <3> QED
      BY <3>2, <3>5 DEF n
  <2>5. /\ Current' = Current + Previous /\ Previous' = Current
        /\ shown' = Current'
    BY <1>2, <2>1, FibTurn
  <2>6. Current' = Fibonacci[COUNT + 1]
    <3>1. CASE COUNT = 0
      <4>1. Current = 0 /\ Previous = 1 /\ Fibonacci[1] = 1 /\ COUNT + 1 = 1
        BY <2>2, <3>1, FibonacciIs
      <4> QED
        BY <2>5, <4>1
    <3>2. CASE COUNT # 0
      <4>1. /\ COUNT + 1 \in 2 .. WORD
            /\ (COUNT + 1) - 1 = COUNT /\ (COUNT + 1) - 2 = COUNT - 1
        BY <2>2, <2>3, <3>2, WordFacts
      <4>2. Fibonacci[COUNT + 1] = Fibonacci[COUNT] + Fibonacci[COUNT - 1]
        BY <4>1, FibonacciIs
      <4> QED
        BY <2>2, <2>5, <3>2, <4>2
    <3> QED
      BY <3>1, <3>2
  <2>7. COUNT + 1 # Last
    <3>1. TypeOK'
      BY TypeStep
    <3>2. NUM_1_L' \in Words /\ CARRY_CURR' \in Words /\ SECOND_CARRY_CURR' \in Words
      BY <3>1 DEF TypeOK
    <3>3. Current' \in Nat /\ Current' < WORD * WORD * WORD
      <4>1. Current' = Number(NUM_1_L', CARRY_CURR', SECOND_CARRY_CURR')
        BY DEF Current, Number
      <4> QED
        BY <3>2, <4>1, NumberFacts
    <3>4. Fibonacci[Last] >= WORD * WORD * WORD
      BY LastFacts
    <3> DEFINE cube == WORD * WORD * WORD
    <3>5. cube \in Nat
      BY WordFacts
    <3>6. Current' < cube /\ Fibonacci[Last] >= cube
      BY <3>3, <3>4
    <3> HIDE DEF cube
    <3>7. Current' # Fibonacci[Last]
      BY <3>3, <3>5, <3>6
    <3> QED
      BY <2>6, <3>7
  <2>8. COUNT + 1 < Last
    BY <2>2, <2>3, <2>7, LastFacts
  <2>9. COUNT' # 0 /\ COUNT' - 1 = COUNT
    BY <2>2, <2>4
  <2> QED
    BY <2>2, <2>4, <2>5, <2>6, <2>8, <2>9
<1> USE DEF fibVars
<1>3. ASSUME Select \/ Leave \/ Refuse PROVE NeighboursOK'
  BY <1>1, <1>3 DEF Select, Leave, Refuse
<1>4. ASSUME Fibby \/ Factor \/ Mult PROVE NeighboursOK'
  BY <1>1, <1>4 DEF Fibby, Factor, Mult
<1>5. ASSUME ConvertRefuse \/ Convert PROVE NeighboursOK'
  BY <1>1, <1>5 DEF ConvertRefuse, Convert
<1>6. ASSUME HexToDec PROVE NeighboursOK'
  BY <1>1, <1>6 DEF HexToDec
<1>7. ASSUME UNCHANGED vars PROVE NeighboursOK'
  BY <1>1, <1>7 DEF vars
<1> QED
  BY <1>2, <1>3, <1>4, <1>5, <1>6, <1>7 DEF Next, Stopped

\* In every state reached, the data section of fib.s is as NeighboursOK says.
LEMMA Neighbours == Spec => [](TypeOK /\ NeighboursOK)
<1>1. Init => NeighboursOK
  <2> SUFFICES ASSUME Init PROVE NeighboursOK
    OBVIOUS
  <2>1. 0 < Last /\ Fibonacci[0] = 0
    BY LastFacts, WordFacts, FibonacciIs
  <2>2. WORD * 0 = 0
    BY WordFacts
  <2>3. Number(0, 0, 0) = 0 /\ Number(1, 0, 0) = 1
    BY <2>2 DEF Number
  <2> QED
    BY <2>1, <2>3 DEF Init, NeighboursOK, Current, Previous
<1>2. TypeOK /\ LoopsOK /\ NeighboursOK /\ [Next]_vars => NeighboursOK'
  BY NeighboursStep
<1>3. TypeOK /\ LoopsOK /\ [Next]_vars => (TypeOK /\ LoopsOK)'
  BY TypeStep
<1> QED
  BY <1>1, <1>2, <1>3, InitTypes, PTL DEF Spec

\* For every width at which a middle word of 0 means a number of one word, and
\* over every sequence of calls: until the overflow message, FIBBY displays the
\* COUNT-th Fibonacci number.  The carries into the second and third register
\* are right, also where the code leaves words out, and a call goes on where
\* the last one stopped.
THEOREM FibonacciShown == Spec => []ShowsFibonacci
<1>1. TypeOK /\ NeighboursOK => ShowsFibonacci
  <2> SUFFICES ASSUME TypeOK, NeighboursOK, COUNT > 0, ~over
               PROVE  shown = Fibonacci[COUNT]
    BY DEF ShowsFibonacci
  <2>1. COUNT # 0
    BY WordFacts DEF TypeOK
  <2> QED
    BY <2>1 DEF NeighboursOK
<1> QED
  BY <1>1, Neighbours, PTL

\* The high word of a number of three words.
LEMMA HighOfNumber ==
    ASSUME NEW a \in Words, NEW c \in Words, NEW s \in Words
    PROVE  Number(a, c, s) \div (WORD * WORD) = s
<1> DEFINE w == WORD * WORD
           e == a + WORD * c
           n == Number(a, c, s)
           d == n \div w
           r == n % w
<1>1. /\ WORD \in Nat \ {0} /\ a \in 0 .. WORD - 1 /\ c \in 0 .. WORD - 1
      /\ s \in Nat
  BY WordFacts
<1>2. w \in Nat \ {0}
  <2>1. WORD * WORD >= WORD
    BY <1>1, Multiple
  <2> QED
    BY <1>1, <2>1
<1>3. e \in 0 .. w - 1
  <2>1. WORD * (WORD - 1 - c) \in Nat /\ WORD * c \in Nat
    BY <1>1
  <2>2. WORD * (WORD - 1 - c) = WORD * WORD - WORD - WORD * c
    BY <1>1
  <2> QED
    BY <1>1, <2>1, <2>2
<1>4. n = w * s + e
  <2>1. WORD * (c + WORD * s) = WORD * c + WORD * (WORD * s)
    BY <1>1
  <2>2. WORD * (WORD * s) = (WORD * WORD) * s
    BY <1>1
  <2>3. WORD * c \in Nat /\ (WORD * WORD) * s \in Nat
    BY <1>1
  <2> QED
    BY <1>1, <2>1, <2>2, <2>3 DEF Number
<1>5. n \in Nat
  BY NumberFacts
<1> HIDE DEF w, e, n
<1>6. d \in Int /\ r \in 0 .. w - 1 /\ n = w * d + r
  BY <1>2, <1>5, DivMod
<1> HIDE DEF d, r
<1>7. w * s + e = w * d + r /\ s \in Int
  BY <1>1, <1>4, <1>6
<1>8. s = d
  BY <1>2, <1>3, <1>6, <1>7, DivModUnique
<1> QED
  BY <1>8 DEF d, n, w

\* After the overflow the high words are what they were: too large to add.
HighOK == over => SECOND_CARRY_PREV + SECOND_CARRY_CURR >= WORD

\* Two high words that do not fit with a carry do not fit without one.
LEMMA FirstOverflow ==
    ASSUME TypeOK, NeighboursOK, ~over, NEW l \in {0, 1},
           Carry(SECOND_CARRY_PREV + SECOND_CARRY_CURR + l) = 1
    PROVE  SECOND_CARRY_PREV + SECOND_CARRY_CURR >= WORD
<1>1. /\ NUM_1_L \in Words /\ CARRY_CURR \in Words /\ SECOND_CARRY_CURR \in Words
      /\ NUM_2_L \in Words /\ CARRY_PREV \in Words /\ SECOND_CARRY_PREV \in Words
      /\ COUNT \in Words
  BY DEF TypeOK
<1> DEFINE t == SECOND_CARRY_PREV + SECOND_CARRY_CURR + l
<1>2. t \in Nat /\ t = SECOND_CARRY_PREV + SECOND_CARRY_CURR + l
  BY <1>1, WordFacts
<1>3. t >= WORD
  <2>1. Carry(t) = 1
    OBVIOUS
  <2> HIDE DEF t
  <2>2. t \div WORD = 1
    BY <2>1 DEF Carry
  <2>3. t = WORD * (t \div WORD) + (t % WORD) /\ t % WORD \in 0 .. WORD - 1
    BY <1>2, WordFacts, DivMod
  <2>4. WORD * (t \div WORD) = WORD
    BY <2>2, WordFacts
  <2> QED
    BY <2>3, <2>4, WordFacts
<1>4. SECOND_CARRY_PREV + SECOND_CARRY_CURR # WORD - 1
  <2>1. CASE COUNT = 0
    <3>1. Current = 0
      BY <2>1, FibonacciIs DEF NeighboursOK
    <3>2. SECOND_CARRY_CURR = 0
      BY <1>1, <3>1, NumberFacts, WordFacts DEF Current
    <3>3. SECOND_CARRY_PREV = 0
      BY <2>1 DEF NeighboursOK
    <3> QED
      BY <3>2, <3>3, WordFacts
  <2>2. CASE COUNT # 0
    <3>1. COUNT \in 1 .. Last - 1
      BY <1>1, <2>2, LastFacts, WordFacts DEF NeighboursOK
    <3>2. Current = Fibonacci[COUNT] /\ Previous = Fibonacci[COUNT - 1]
      BY <2>2 DEF NeighboursOK
    <3>3. /\ Current \div (WORD * WORD) = SECOND_CARRY_CURR
          /\ Previous \div (WORD * WORD) = SECOND_CARRY_PREV
      BY <1>1, HighOfNumber DEF Current, Previous
    <3>4. HighWord(COUNT) = SECOND_CARRY_CURR /\ HighWord(COUNT - 1) = SECOND_CARRY_PREV
      BY <3>2, <3>3 DEF HighWord
    <3> QED
      BY <3>1, <3>4, LastFacts
  <2> QED
    BY <2>1, <2>2
<1> QED
  BY <1>1, <1>2, <1>3, <1>4, WordFacts

\* Every step keeps HighOK, and a turn of FIB after the overflow that looks at
\* the middle words overflows again.
LEMMA HighStep ==
    ASSUME TypeOK, NeighboursOK, HighOK, [Next]_vars
    PROVE  /\ HighOK'
           /\ (over /\ CARRY_CURR # 0) => UNCHANGED shown
<1> DEFINE Goal == HighOK' /\ ((over /\ CARRY_CURR # 0) => UNCHANGED shown)
<1>1. ASSUME UNCHANGED <<seconds, shown, over>> PROVE Goal
  BY <1>1 DEF HighOK, seconds
<1>2. ASSUME Fib PROVE Goal
  <2> DEFINE base == NUM_1_L + NUM_2_L
             mid == CARRY_PREV + CARRY_CURR + Carry(base)
             high == SECOND_CARRY_PREV + SECOND_CARRY_CURR + Carry(mid)
             two == Carry(base) = 1 \/ CARRY_CURR # 0
             three == two /\ (Carry(mid) = 1 \/ SECOND_CARRY_CURR # 0)
  <2>1. /\ IF three THEN StoreHigh(high) ELSE UNCHANGED seconds
        /\ over' <=> over \/ (three /\ Carry(high) = 1)
        /\ (three /\ Carry(high) = 1) => shown' = shown
    <3>1. over \in BOOLEAN
      BY DEF TypeOK
    <3> QED
      BY <1>2, <3>1 DEF Fib
  <2>2. /\ NUM_1_L \in Words /\ CARRY_CURR \in Words /\ SECOND_CARRY_CURR \in Words
        /\ NUM_2_L \in Words /\ CARRY_PREV \in Words /\ SECOND_CARRY_PREV \in Words
    BY DEF TypeOK
  <2>3. Carry(base) \in {0, 1}
    <3>1. base = NUM_1_L + NUM_2_L + 0
      BY <2>2, WordFacts
    <3> QED
      BY <2>2, <3>1, CarryFacts
  <2>4. Carry(mid) \in {0, 1}
    <3> HIDE DEF base
    <3> QED
      BY <2>2, <2>3, CarryFacts
  <2>5. over => Carry(high) = 1 /\ SECOND_CARRY_CURR # 0
    <3> HIDE DEF mid
    <3>1. SUFFICES ASSUME over PROVE Carry(high) = 1 /\ SECOND_CARRY_CURR # 0
      OBVIOUS
    <3>2. SECOND_CARRY_PREV + SECOND_CARRY_CURR >= WORD
      BY <3>1 DEF HighOK
    <3>3. Carry(high) # 1 => high \in Words
      BY <2>2, <2>4, CarryFacts
    <3>4. high \notin Words
      BY <2>2, <2>4, <3>2, WordFacts
    <3> QED
      BY <2>2, <3>2, <3>3, <3>4, WordFacts
  <2>6. CASE over
    <3>1. UNCHANGED seconds
      BY <2>1, <2>5, <2>6 DEF StoreHigh
    <3>2. HighOK'
      BY <2>6, <3>1 DEF HighOK, seconds
    <3>3. CARRY_CURR # 0 => shown' = shown
      BY <2>1, <2>5, <2>6
    <3> QED
      BY <3>2, <3>3
  <2>7. CASE ~over
    <3>1. SUFFICES ASSUME over'
                   PROVE  SECOND_CARRY_PREV' + SECOND_CARRY_CURR' >= WORD
      BY <2>7 DEF HighOK
    <3>2. three /\ Carry(high) = 1
      BY <2>1, <2>7, <3>1
    <3>3. UNCHANGED seconds
      BY <2>1, <3>2 DEF StoreHigh
    <3>4. SECOND_CARRY_PREV + SECOND_CARRY_CURR >= WORD
      <4> HIDE DEF mid
      <4> QED
        BY <2>4, <2>7, <3>2, FirstOverflow
    <3> QED
      BY <3>3, <3>4 DEF seconds
  <2> QED
    BY <2>6, <2>7
<1> HIDE DEF Goal
<1> USE DEF fibVars
<1>3. ASSUME Select \/ Leave \/ Refuse PROVE Goal
  BY <1>1, <1>3 DEF Select, Leave, Refuse
<1>4. ASSUME Fibby \/ Factor \/ Mult PROVE Goal
  BY <1>1, <1>4 DEF Fibby, Factor, Mult
<1>5. ASSUME ConvertRefuse \/ Convert PROVE Goal
  BY <1>1, <1>5 DEF ConvertRefuse, Convert
<1>6. ASSUME HexToDec PROVE Goal
  BY <1>1, <1>6 DEF HexToDec
<1>7. ASSUME UNCHANGED vars PROVE Goal
  BY <1>1, <1>7 DEF vars
<1>8. Goal
  BY <1>2, <1>3, <1>4, <1>5, <1>6, <1>7 DEF Next, Stopped
<1> QED
  BY <1>8 DEF Goal

\* Over any number of calls: once three registers were too small, no number is
\* displayed while the middle word is not 0, because TOO_LARGE_MSG is reached
\* before the high words are stored and they overflow at every later turn.
THEOREM OverflowStays == Spec => OverflowIsFinal
<1>1. Init => HighOK
  BY DEF Init, HighOK
<1>2. TypeOK /\ NeighboursOK /\ HighOK /\ [Next]_vars => HighOK'
  BY HighStep
<1>3. TypeOK /\ NeighboursOK /\ HighOK /\ [Next]_vars
        => [(over /\ CARRY_CURR # 0) => UNCHANGED shown]_vars
  BY HighStep
<1> QED
  BY <1>1, <1>2, <1>3, Neighbours, PTL DEF Spec, OverflowIsFinal
=============================================================================
