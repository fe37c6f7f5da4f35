----------------------------- MODULE FileFilters ----------------------------
(***************************************************************************)
(* The assembly programs that copy a file through a transformation of its  *)
(* bytes: the xor coder and decoder (assembly/coder/coder.s, decoder.s and *)
(* coder2.s), the letter rotation (assembly/rot_13/src/rot.s) and the      *)
(* checksum writer and checker (assembly/checksum/src/encode.s and         *)
(* checksum.s).  A behaviour runs two of them after each other, the second *)
(* on the output of the first, as their users do to get a file back.       *)
(*                                                                         *)
(* Output files are opened without O_TRUNC: what an older, longer file     *)
(* held behind the new end stays there.  The results of write are ignored. *)
(***************************************************************************)
EXTENDS Integers, Sequences

CONSTANTS
    BITS,        \* 8: the width of a byte
    WORD,        \* 2^64: the registers in which arguments are converted
    HALF,        \* 2^32: the lower half that decoder.s compares
    ALPHA,       \* 26: the number of letters
    UPPER, LOWER,  \* 0x41 and 0x61: the codes of A and a
    Inputs,      \* the contents of the first input file
    Leftovers,   \* what an output file may hold before it is written, or NONE
    HexArgs,     \* the numbers given as xor byte, or BAD
    RotArgs,     \* the numbers given as rotation, or BAD
    NONE, BAD

\* Powers of two, as a recursion that can be reasoned about.
pow2[k \in 0 .. BITS] == IF k = 0 THEN 1 ELSE 2 * pow2[k - 1]

BYTE == pow2[BITS]
Bytes == 0 .. BYTE - 1

ASSUME FilterAssumption ==
    /\ BITS \in Nat /\ BITS >= 4
    /\ {WORD, HALF, ALPHA, UPPER, LOWER} \subseteq Nat /\ WORD > 0
    /\ UPPER + ALPHA =< LOWER /\ LOWER + ALPHA =< BYTE \div 2
    /\ Inputs \subseteq Seq(Bytes)
    /\ Leftovers \ {NONE} \subseteq Seq(Bytes)
    /\ (HexArgs \cup RotArgs) \ {BAD} \subseteq Nat
    /\ NONE \notin Seq(Bytes)

\* The pairs of programs that undo each other.
Pipelines == { <<"coder", "decoder">>, <<"coder2e", "coder2d">>,
               <<"rot", "unrot">>, <<"encode", "decode">> }

VARIABLES
    progs,     \* the two programs
    path,      \* the names of the three files
    files,     \* the contents of the files, or NONE
    arg,       \* the number on the command line
    orig,      \* the contents of the first file at the start
    fresh,     \* whether the output files were new
    sound,     \* whether the reads of each program ever succeed: they all
               \* fail on a directory, which open accepts
    stage,     \* which of the two programs runs
    pc,        \* where it is
    in, out,   \* its positions in the files
    ecx,       \* the counter of the coders, 0 to 3
    r12,       \* the sum of the words read
    checksum,  \* the checksum that decode read from the end of its input
    verdict,   \* whether decode found the sum it read
    status,    \* the exit codes
    lost       \* whether a read, a write or ftruncate failed

fileVars == <<progs, path, arg, orig, fresh, sound>>
loopVars == <<in, out, ecx, r12>>
vars == <<fileVars, loopVars, files, stage, pc, checksum, verdict, status, lost>>

prog == progs[stage]
infile == files[path[stage]]
outfile == IF files[path[stage + 1]] = NONE THEN <<>> ELSE files[path[stage + 1]]

Init ==
    /\ progs \in Pipelines
    /\ path \in IF progs[1] = "encode" THEN {<<1, 2, 3>>}
                ELSE {<<1, 2, 3>>, <<1, 1, 1>>}
    /\ orig \in Inputs
    /\ \E m, o \in Leftovers :
          /\ files = <<orig, m, o>>
          /\ path[2] = 1 => m = NONE /\ o = NONE
          /\ fresh = (m = NONE /\ o = NONE)
    /\ arg \in CASE progs[1] = "rot" -> RotArgs
                 [] progs[1] = "encode" -> {0}
                 [] OTHER -> HexArgs
    /\ sound \in [{1, 2} -> BOOLEAN]
    /\ stage = 1 /\ pc = "start"
    /\ in = 0 /\ out = 0 /\ ecx = 0 /\ r12 = 0
    /\ checksum = NONE /\ verdict = NONE
    /\ status = <<>> /\ lost = FALSE

-----------------------------------------------------------------------------
\* The arguments

\* A conversion multiplies and adds in a register; -1 reports a character that
\* is no digit, and the callers test the sign.
Convert(a) == IF a = BAD THEN WORD - 1 ELSE a % WORD
Negative(v) == v >= WORD \div 2

\* Whether the coder accepts its xor byte; decoder.s compares only eax.
CoderAccepts(a) == ~Negative(Convert(a)) /\ Convert(a) < BYTE
DecoderAccepts(a) == ~Negative(Convert(a)) /\ Convert(a) % HALF < BYTE

RotAccepts(a) == ~Negative(Convert(a)) /\ Convert(a) \in 1 .. ALPHA - 1

Accepts(p, a) ==
    CASE p = "decoder" -> DecoderAccepts(a)
      [] p \in {"coder", "coder2e", "coder2d"} -> CoderAccepts(a)
      [] p \in {"rot", "unrot"} -> RotAccepts(a)
      [] OTHER -> TRUE

\* The byte or the rotation used; the second rotation completes the first.
xor_val == Convert(arg) % BYTE
rotval == IF prog = "rot" THEN Convert(arg) ELSE ALPHA - Convert(arg)

-----------------------------------------------------------------------------
\* The transformations

rol(b, k) == ((b * pow2[k]) % BYTE) + ((b * pow2[k]) \div BYTE)
ror(b, k) == (b \div pow2[k]) + ((b * pow2[BITS - k]) % BYTE)

\* The exclusive or of the n lowest bits of two numbers, and of two bytes.
xor_low[n \in 0 .. BITS] ==
    [p \in Nat \X Nat |->
       IF n = 0 THEN 0
       ELSE ((p[1] + p[2]) % 2) + 2 * xor_low[n - 1][p[1] \div 2, p[2] \div 2]]

xor(a, b) == xor_low[BITS][a, b]

coder(b) == xor(rol(b, ecx), xor_val)
decoder(b) == ror(xor(b, xor_val), ecx)

\* coder2 branches on ebx, which is 1 for -e: the label DO_ENCODE decodes.
coder2(b) ==
    LET ebx == IF prog = "coder2e" THEN 1 ELSE 0
    IN  IF ebx = 0 THEN ror(xor(b, xor_val), ecx) ELSE xor(rol(b, ecx), xor_val)

\* Mutant: the rotation does not wrap around.
rotate_over(b) ==
    CASE b \in UPPER .. UPPER + ALPHA - 1 -> UPPER + (b - UPPER + rotval)
      [] b \in LOWER .. LOWER + ALPHA - 1 -> LOWER + (b - LOWER + rotval)
      [] OTHER -> b

rotate(b) ==
    CASE b \in UPPER .. UPPER + ALPHA - 1 ->
           UPPER + ((b - UPPER + rotval) % ALPHA)
      [] b \in LOWER .. LOWER + ALPHA - 1 ->
           LOWER + ((b - LOWER + rotval) % ALPHA)
      [] OTHER -> b

Transform(b) ==
    CASE prog = "coder" -> coder(b)
      [] prog = "decoder" -> decoder(b)
      [] prog \in {"coder2e", "coder2d"} -> coder2(b)
      [] prog \in {"rot", "unrot"} -> rotate(b)
      [] OTHER -> b

\* Mutant: the bytes of the word are not swapped.
Unswapped(s) == s[1] + (IF Len(s) = 2 THEN s[2] ELSE 0) * BYTE

\* Two bytes as the word that is added: rol r11w, 8 makes the first the high one.
Swapped(s) == s[1] * BYTE + (IF Len(s) = 2 THEN s[2] ELSE 0)

-----------------------------------------------------------------------------
\* The contents of a file after bytes s are written at position p.
Overwrite(f, p, s) ==
    [i \in 1 .. (IF Len(f) > p + Len(s) THEN Len(f) ELSE p + Len(s)) |->
       IF i > p /\ i =< p + Len(s) THEN s[i - p] ELSE f[i]]

\* ftruncate: cut, or filled up with zeros.
Resize(f, n) == [i \in 1 .. n |-> IF i =< Len(f) THEN f[i] ELSE 0]

SetOutfile(s) == files' = [files EXCEPT ![path[stage + 1]] = s]

Exit(code) ==
    /\ status' = Append(status, code)
    /\ pc' = "exit"

\* Too few or too many arguments, or a number that is not accepted.
RejectArgs ==
    /\ pc = "start"
    /\ \/ Exit("usage")
       \/ ~Accepts(prog, arg) /\ Exit("failed")
    /\ UNCHANGED <<fileVars, loopVars, files, stage, checksum, verdict, lost>>

\* <infile> or <outfile> does not open.
OpenFail ==
    /\ pc = "start" /\ Accepts(prog, arg)
    /\ Exit("failed")
    /\ UNCHANGED <<fileVars, loopVars, files, stage, checksum, verdict, lost>>

Open ==
    /\ pc = "start" /\ Accepts(prog, arg)
    /\ SetOutfile(outfile)
    /\ in' = 0 /\ out' = 0 /\ ecx' = 0 /\ r12' = 0
    /\ pc' = IF prog = "decode" THEN "get_checksum" ELSE "loop"
    /\ UNCHANGED <<fileVars, stage, checksum, verdict, status, lost>>

\* decode reads the last two bytes and sets the length of its output.  In a
\* file of fewer than two bytes the seek fails: the read starts at byte 0, and
\* the negative size makes ftruncate fail too.  A read that fails leaves the
\* buffer cleared; neither result is looked at.
GetChecksum ==
    /\ pc = "get_checksum"
    /\ LET n == Len(infile)
           last == IF n < 2 THEN infile \o <<0, 0>> ELSE SubSeq(infile, n - 1, n)
       IN  \E read, cut \in BOOLEAN :    \* whether read and ftruncate succeed
             /\ read => sound[stage]
             /\ checksum' = IF read THEN last[1] + last[2] * BYTE ELSE 0
             /\ IF cut /\ n >= 2 THEN SetOutfile(Resize(outfile, n - 2))
                                 ELSE UNCHANGED files
             /\ lost' = (lost \/ ~read \/ ~cut)
    /\ pc' = "loop"
    /\ UNCHANGED <<fileVars, loopVars, stage, verdict, status>>

\* How many bytes a program reads and writes at a time.
Chunk == IF prog \in {"encode", "decode"} THEN 2 ELSE 1

NextChunk ==
    SubSeq(infile, in + 1, IF in + Chunk > Len(infile) THEN Len(infile) ELSE in + Chunk)

CountMod4 == ecx' = (ecx + 1) % 4

\* A write that fails goes unnoticed.  Bound: one of them in a behaviour.
WriteFails == ~lost /\ lost' = TRUE

\* One turn of the loop.
CopyChunk ==
    /\ pc = "loop" /\ sound[stage] /\ NextChunk # <<>>
    /\ \/ /\ SetOutfile(Overwrite(outfile, out,
                                 [k \in DOMAIN NextChunk |-> Transform(NextChunk[k])]))
          /\ out' = out + Len(NextChunk)
          /\ UNCHANGED lost
       \/ WriteFails /\ UNCHANGED <<files, out>>
    /\ in' = in + Len(NextChunk)
    /\ CountMod4
    /\ r12' = (r12 + Swapped(NextChunk)) % (BYTE * BYTE)
    /\ UNCHANGED <<fileVars, stage, pc, checksum, verdict, status>>

\* A read that fails ends the copy like the end of the file, but the checksum
\* programs only stop for 0: they add nothing, write nothing and read again,
\* for ever when no read succeeds.
ReadFails ==
    /\ pc = "loop"
    /\ lost' = TRUE
    /\ IF Chunk = 1 THEN Exit("unset") ELSE UNCHANGED <<status, pc>>
    /\ UNCHANGED <<fileVars, loopVars, files, stage, checksum, verdict>>

\* Mutant: the end of the file is not noticed (jl instead of jle).
FinishNever ==
    /\ pc = "loop" /\ Chunk = 1 /\ NextChunk = <<>>
    /\ UNCHANGED vars

\* The end of the coders and of rot, which exit with what their stack slot
\* ERROR_CODE happens to hold: it is never set on this path.
FinishCopy ==
    /\ pc = "loop" /\ sound[stage] /\ Chunk = 1 /\ NextChunk = <<>>
    /\ Exit("unset")
    /\ UNCHANGED <<fileVars, loopVars, files, stage, checksum, verdict, lost>>

\* encode appends the sum, low byte first.
AddChecksum ==
    /\ pc = "loop" /\ sound[stage] /\ prog = "encode" /\ NextChunk = <<>>
    /\ \/ SetOutfile(Overwrite(outfile, out, <<r12 % BYTE, r12 \div BYTE>>)) /\ UNCHANGED lost
       \/ WriteFails /\ UNCHANGED files
    /\ Exit("ok")
    /\ UNCHANGED <<fileVars, loopVars, stage, checksum, verdict>>

\* decode compares; it exits with 0 in both cases.
CmpChecksum ==
    /\ pc = "loop" /\ sound[stage] /\ prog = "decode" /\ NextChunk = <<>>
    /\ verdict' = (r12 = checksum)
    /\ Exit("ok")
    /\ UNCHANGED <<fileVars, loopVars, files, stage, checksum, lost>>

\* The user runs the second program when the first reported no error.
RunSecond ==
    /\ stage = 1 /\ pc = "exit" /\ status[1] \in {"ok", "unset"}
    /\ stage' = 2 /\ pc' = "start"
    /\ UNCHANGED <<fileVars, loopVars, files, checksum, verdict, status, lost>>

\* Both programs have run, or the user stopped after the first.
Finished ==
    /\ pc = "exit"
    /\ stage = 2 \/ status[1] \notin {"ok", "unset"}

Done == Finished /\ UNCHANGED vars

Next ==
    \/ RejectArgs \/ OpenFail \/ Open \/ GetChecksum
    \/ CopyChunk \/ ReadFails \/ FinishCopy \/ AddChecksum \/ CmpChecksum
    \/ RunSecond \/ Done

Spec == Init /\ [][Next]_vars

\* A program that runs goes on.  A read may fail now and then; that all of them
\* fail is not ruled out, but is what sound tells.
Progress ==
    \/ RejectArgs \/ Open \/ GetChecksum
    \/ CopyChunk \/ FinishCopy \/ AddChecksum \/ CmpChecksum
    \/ ~sound[stage] /\ ReadFails

Fairness == WF_vars(Progress)

FairSpec == Spec /\ Fairness

-----------------------------------------------------------------------------
\* Properties

Succeeded == Len(status) = 2 /\ status[2] \in {"ok", "unset"} /\ ~lost

\* The second program gives back what the first was given: its output starts
\* with the original bytes, whatever the files held before, and is nothing
\* but them when the one-byte programs write to new files or in place.
RoundTrip ==
    Succeeded =>
      LET result == files[path[3]] IN
        /\ Len(result) >= Len(orig)
        /\ SubSeq(result, 1, Len(orig)) = orig
        /\ (progs[1] # "encode" /\ (fresh \/ path[3] = 1)) => result = orig

\* A checksum program none of whose reads succeeds.
ReadsForEver == Chunk = 2 /\ ~sound[stage]

\* Every program that is started exits, also one that writes over the file it
\* reads: the loops of the coders and of rot end whether or not read succeeds,
\* those of encode and decode once read has given them the whole file.  Only
\* encode.s and checksum.s, which stop for 0 alone, may be left reading for ever.
Terminates == (pc # "exit") ~> (pc = "exit" \/ ReadsForEver)

\* The reference for the sum of ADD: the bytes at odd places are the high ones.
WordSum(s) ==
    LET sum[n \in 0 .. Len(s)] ==
          IF n = 0 THEN 0 ELSE sum[n - 1] + s[n] * (IF n % 2 = 1 THEN BYTE ELSE 1)
    IN  sum[Len(s)] % (BYTE * BYTE)

\* What decode's verdict means for a file that encode just wrote: encode and
\* decode agree on the stored sum, for odd lengths too, and CMP_CHECKSUM
\* compares it with the sum of the whole file, the two bytes of the checksum
\* included, because TRUNCATE shortens the output and not the input.
VerdictCountsChecksum ==
    (Succeeded /\ progs[1] = "encode" /\ fresh) =>
      /\ checksum = WordSum(orig)
      /\ verdict = (checksum =
                      WordSum(orig \o <<checksum % BYTE, checksum \div BYTE>>))
=============================================================================
