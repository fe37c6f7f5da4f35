---------------------------- MODULE MenuProgram -----------------------------
(***************************************************************************)
(* The menu program (assembly/menu_program: menu.s, fib.s, factorial.s and *)
(* converter.s).  Its options keep their numbers in the data section and   *)
(* never reset them, so that what an option answers depends on the calls   *)
(* before it.  Prompts, greetings and the wording of answers are left out; *)
(* a turn of a loop of the code is one step.                               *)
(***************************************************************************)
EXTENDS Integers, Sequences

CONSTANTS
    WIDTH,     \* 64: the bits of a register
    Numbers,   \* the numbers the user enters
    BAD,       \* an input that holds something other than digits
    Leftover,  \* what rbx may hold when main starts
    MaxCalls   \* bound: how many options are called

WORD == 2^WIDTH
Words == 0 .. WORD - 1

ASSUME MenuAssumption ==
    /\ WIDTH \in Nat /\ WIDTH >= 6
    /\ WORD \in Nat /\ WORD >= 64   \* stated for the proofs: follows from WIDTH
    /\ Numbers \subseteq Nat /\ Leftover \subseteq Words
    /\ MaxCalls \in Nat

VARIABLES
    pc,
    calls,       \* how many options were called
    COUNT, USER_NUM, NUM_1_L, NUM_2_L,    \* the data section of fib.s
    CARRY_CURR, CARRY_PREV, SECOND_CARRY_CURR, SECOND_CARRY_PREV,
    NUM1, RES_1, \* the data section of factorial.s
    rbx,         \* the register the options leave to each other
    rax, rdx, ecx,  \* the registers of hextodec
    shown,       \* history: the last number that FIBBY displayed, -1 for none
    over,        \* history: whether "Three Registers Overflow!!!" was displayed
    asked        \* history: the numbers whose factorial was asked for

low == <<NUM_1_L, NUM_2_L>>
carries == <<CARRY_CURR, CARRY_PREV>>
seconds == <<SECOND_CARRY_CURR, SECOND_CARRY_PREV>>
fibVars == <<COUNT, USER_NUM, low, carries, seconds, shown, over>>
factVars == <<NUM1, RES_1, asked>>
hexVars == <<rax, rdx, ecx>>
vars == <<pc, calls, rbx, fibVars, factVars, hexVars>>

Init ==
    /\ pc = "menu" /\ calls = 0
    /\ COUNT = 0 /\ USER_NUM = 1
    /\ NUM_1_L = 0 /\ NUM_2_L = 1
    /\ CARRY_CURR = 0 /\ CARRY_PREV = 0
    /\ SECOND_CARRY_CURR = 0 /\ SECOND_CARRY_PREV = 0
    /\ NUM1 = 1 /\ RES_1 = 1
    /\ rbx \in Leftover
    /\ rax = 0 /\ rdx = 0 /\ ecx = 0
    /\ shown = -1 /\ over = FALSE /\ asked = <<>>

\* Digits are collected in a register that wraps; other characters give -1.
my_strtol(input) == IF input = BAD THEN WORD - 1 ELSE input % WORD

\* cmp with -1 and 0, then js: these numbers make an option return at once.
Refused(n) == n = 0 \/ n >= WORD \div 2

-----------------------------------------------------------------------------
\* MAIN_MENU: options 1 to 4; everything else shows the menu again.
Select ==
    /\ pc = "menu" /\ calls < MaxCalls
    /\ pc' \in {"fibby", "factor", "convert"}
    /\ calls' = calls + 1
    /\ UNCHANGED <<rbx, fibVars, factVars, hexVars>>

Leave ==
    /\ pc = "menu"
    /\ pc' = "exit"
    /\ UNCHANGED <<calls, rbx, fibVars, factVars, hexVars>>

\* An option that is given a number it refuses returns to the menu.
Refuse ==
    /\ pc \in {"fibby", "factor"}
    /\ \E input \in Numbers \cup {BAD} : Refused(my_strtol(input))
    /\ pc' = "menu"
    /\ UNCHANGED <<calls, rbx, fibVars, factVars, hexVars>>

-----------------------------------------------------------------------------
\* FIBBY

Fibby ==
    /\ pc = "fibby"
    /\ \E input \in Numbers :
          /\ ~Refused(my_strtol(input))
          /\ USER_NUM' = my_strtol(input)
    /\ pc' = "fib"
    /\ UNCHANGED <<calls, rbx, COUNT, low, carries, seconds, shown, over,
                   factVars, hexVars>>

\* Mutant: the carry flag is lost before adc.
NoCarry(sum) == 0

\* The carry flag after an addition.
Carry(sum) == sum \div WORD

\* Mutant: a register is taken to hold any sum.
Unbounded(sum) == sum

\* What a register keeps of a sum.
Register(sum) == sum % WORD

\* Mutant: the high words are stored before their carry is looked at.
StoreHighFirst(sum) ==
    /\ SECOND_CARRY_CURR' = Register(sum)
    /\ SECOND_CARRY_PREV' = SECOND_CARRY_CURR

\* The high words are stored unless their sum is too large.
StoreHigh(sum) ==
    IF Carry(sum) = 1
    THEN UNCHANGED seconds
    ELSE SECOND_CARRY_CURR' = sum /\ SECOND_CARRY_PREV' = SECOND_CARRY_CURR

\* One turn of FIB: the low words are added, the middle ones if there is a
\* carry or they hold something, then the high ones alike.  TOO_LARGE_MSG
\* returns when the high words overflow, after the others were stored.
Fib ==
    LET base == NUM_1_L + NUM_2_L
        two == Carry(base) = 1 \/ CARRY_CURR # 0
        mid == CARRY_PREV + CARRY_CURR + Carry(base)
        three == two /\ (Carry(mid) = 1 \/ SECOND_CARRY_CURR # 0)
        high == SECOND_CARRY_PREV + SECOND_CARRY_CURR + Carry(mid)
        tooLarge == three /\ Carry(high) = 1
    IN  /\ pc = "fib"
        /\ rbx' = NUM_2_L
        /\ COUNT' = (COUNT + 1) % WORD
        /\ NUM_1_L' = Register(base) /\ NUM_2_L' = NUM_1_L
        /\ IF two THEN CARRY_CURR' = Register(mid) /\ CARRY_PREV' = CARRY_CURR
                  ELSE UNCHANGED carries
        /\ IF three THEN StoreHigh(high) ELSE UNCHANGED seconds
        /\ over' = (over \/ tooLarge)
        /\ shown' = IF tooLarge THEN shown
                    ELSE NUM_1_L' + WORD * IF three THEN CARRY_CURR' + WORD * SECOND_CARRY_CURR'
                                           ELSE IF two THEN CARRY_CURR' ELSE 0
        /\ pc' = IF tooLarge \/ COUNT' = USER_NUM THEN "menu" ELSE "fib"
        /\ UNCHANGED <<calls, USER_NUM, factVars, hexVars>>

-----------------------------------------------------------------------------
\* FACTOR

Factor ==
    /\ pc = "factor"
    /\ \E input \in Numbers :
          /\ ~Refused(my_strtol(input))
          /\ NUM1' = my_strtol(input)
          /\ asked' = Append(asked, my_strtol(input))
    /\ pc' = "mult"
    /\ UNCHANGED <<calls, rbx, RES_1, fibVars, hexVars>>

\* Mutant: the number is not counted down.
MultForever ==
    /\ pc = "mult"
    /\ rbx' = RES_1
    /\ RES_1' = (NUM1 * RES_1) % WORD
    /\ pc' = IF NUM1 = 1 THEN "menu" ELSE "mult"
    /\ UNCHANGED <<calls, NUM1, asked, fibVars, hexVars>>

\* Mutant: the number is counted down before it is used.
MultLate ==
    /\ pc = "mult"
    /\ rbx' = RES_1
    /\ NUM1' = NUM1 - 1
    /\ RES_1' = (NUM1' * RES_1) % WORD
    /\ pc' = IF NUM1' = 0 THEN "menu" ELSE "mult"
    /\ UNCHANGED <<calls, asked, fibVars, hexVars>>

\* One turn of MULT; the flag that ends the loop is the one of dec.
Mult ==
    /\ pc = "mult"
    /\ rbx' = RES_1
    /\ RES_1' = (NUM1 * RES_1) % WORD
    /\ NUM1' = NUM1 - 1
    /\ pc' = IF NUM1' = 0 THEN "menu" ELSE "mult"
    /\ UNCHANGED <<calls, asked, fibVars, hexVars>>

-----------------------------------------------------------------------------
\* CONVERT

\* string_to_hex: up to 15 digits leave rbx alone, 16 clear it, and of longer
\* numbers it gets the digits from the 17th on.
HighDigits == {rbx, 0} \cup {n % WORD : n \in Numbers}

\* An input that is no hexadecimal number, or 0, returns at once.  When the bad
\* digit comes late, rbx keeps the 16 digits before it.
ConvertRefuse ==
    /\ pc = "convert"
    /\ rbx' \in HighDigits
    /\ pc' = "menu"
    /\ UNCHANGED <<calls, fibVars, factVars, hexVars>>

Convert ==
    /\ pc = "convert"
    /\ \E input \in Numbers \ {0} : rax' = input % WORD
    /\ rax' # 0
    /\ rdx' \in HighDigits
    /\ rbx' = 10 /\ ecx' = 63
    /\ pc' = "hextodec"
    /\ UNCHANGED <<calls, fibVars, factVars>>

\* One turn of hextodec: rdx:rax is divided by 10, and div faults when the
\* quotient is no word.  rdx then holds the character of the digit.
HexToDec ==
    /\ pc = "hextodec"
    /\ IF rdx >= rbx
       THEN pc' = "fault" /\ UNCHANGED <<rax, rdx, ecx>>
       ELSE /\ rax' = (rdx * WORD + rax) \div rbx
            /\ rdx' = 48 + ((rdx * WORD + rax) % rbx)
            /\ ecx' = ecx - 1
            /\ pc' = IF ecx' = 0 THEN "menu" ELSE "hextodec"
    /\ UNCHANGED <<calls, rbx, fibVars, factVars>>

Stopped == pc \in {"exit", "fault"} /\ UNCHANGED vars

Next ==
    \/ Select \/ Leave \/ Refuse
    \/ Fibby \/ Fib
    \/ Factor \/ Mult
    \/ ConvertRefuse \/ Convert \/ HexToDec
    \/ Stopped

Spec == Init /\ [][Next]_vars

\* The loops go on; what the user does is not forced.
FairSpec ==
    /\ Spec
    /\ WF_vars(Fib) /\ WF_vars(Mult) /\ WF_vars(HexToDec)

-----------------------------------------------------------------------------
\* Reference definitions

Fibonacci[n \in 0 .. WORD] ==
    IF n < 2 THEN n ELSE Fibonacci[n - 1] + Fibonacci[n - 2]

\* The high word of three.
HighWord(n) == Fibonacci[n] \div (WORD * WORD)

\* The n-th Fibonacci number does not fit three registers.  None before it has
\* a middle word of 0 below a high word that is not 0, and no two high words
\* miss the overflow by a carry.
TooLargeAt(n) ==
    /\ Fibonacci[n] >= WORD * WORD * WORD
    /\ \A k \in 0 .. n - 1 :
          (Fibonacci[k] \div WORD) % WORD = 0 => Fibonacci[k] < WORD
    /\ \A k \in 1 .. n - 1 : HighWord(k - 1) + HighWord(k) # WORD - 1

\* fib.s takes a middle word of 0 for a number of one word, which the width has
\* to allow: the 279th number is too large for 64 bits, the 28th for 6.
ASSUME SumsAssumption == \E n \in 1 .. WORD - 1 : TooLargeAt(n)

\* n! in a register.
Factorial[n \in 0 .. WORD] ==
    IF n = 0 THEN 1 ELSE (n * Factorial[n - 1]) % WORD

-----------------------------------------------------------------------------
\* Properties

\* The data sections of fib.s and factorial.s hold words.
TypeOK ==
    /\ pc \in {"menu", "fibby", "fib", "factor", "mult", "convert", "hextodec",
               "fault", "exit"}
    /\ calls \in 0 .. MaxCalls
    /\ {COUNT, USER_NUM, NUM_1_L, NUM_2_L, CARRY_CURR, CARRY_PREV,
        SECOND_CARRY_CURR, SECOND_CARRY_PREV, NUM1, RES_1, rbx, rax, rdx}
          \subseteq Words
    /\ ecx \in 0 .. 63
    /\ over \in BOOLEAN
    /\ asked \in Seq(Words)

\* Until the overflow message, FIBBY displays the COUNT-th Fibonacci number,
\* across the carries into the second and the third register and across
\* calls, each of which goes on where the last one stopped.
ShowsFibonacci == (COUNT > 0 /\ ~over) => shown = Fibonacci[COUNT]

\* Once three registers were too small, no call displays a number as long as
\* the middle word is not 0: the high words, which are not stored, overflow
\* again, so the truncated sums in the data section are not taken for numbers.
OverflowIsFinal == [][(over /\ CARRY_CURR # 0) => UNCHANGED shown]_vars

\* The first factorial that is asked for is answered with n!, in a register,
\* whatever the other options left behind.  FACTOR never sets RES_1 back to 1,
\* and its later answers contain the factors of the earlier ones.
FirstFactorialRight ==
    (pc = "menu" /\ Len(asked) = 1) => RES_1 = Factorial[asked[1]]

\* FIBBY returns even when the number is smaller than COUNT, and FACTOR does.
OptionsReturn == (pc \in {"fib", "mult"}) ~> (pc = "menu")
=============================================================================
