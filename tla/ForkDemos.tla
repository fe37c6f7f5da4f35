------------------------------ MODULE ForkDemos -----------------------------
(***************************************************************************)
(* The process demonstrations of assembly/170d: OrphanZombie.c and         *)
(* OrphanZombie2.c fork a child and let both sleep, so that it ends as an  *)
(* orphan or as a zombie; forkcmd.c, of which forkpid.c is a copy, forks a *)
(* child that executes a command and waits for it; execve.c executes a     *)
(* command in its own place.                                               *)
(*                                                                         *)
(* The kernel's part is external: ending, zombies, adoption by init, and   *)
(* the reaping by waitpid.  Time is a clock in seconds that stands still   *)
(* while a process has something to do: the programs' comments (a second   *)
(* "to give time for ...") count on steps that take less than a second.    *)
(* What a process prints reaches a terminal at once and a file when the    *)
(* process exits (the buffering of stdio).                                 *)
(***************************************************************************)
EXTENDS Integers, FiniteSets

CONSTANTS
    Times,       \* the numbers given as parenttime and childtime
    UINT_MOD,    \* 2^32: the argument of sleep is an unsigned int
    PAUSE,       \* 20: the sleep at the end of execve.c
    NONE

Programs == {"OrphanZombie", "OrphanZombie2", "forkcmd", "execve"}
Sleepers == {"OrphanZombie", "OrphanZombie2"}

Parent == "parent"
Child == "child"
Init1 == "init"     \* the process that adopts orphans
Shell == "shell"    \* the process that started the program and reaps it
Procs == {Parent, Child}

Lives == {"unborn", "alive", "zombie", "gone"}
Labels == {"main", "begin", "sleep", "ps", "wait", "execve", "command", "pause",
           "exit", "ended"}

\* The times are of type int.
ASSUME TimesAssumption ==
    /\ UINT_MOD \in Nat /\ UINT_MOD > 1 /\ PAUSE \in Nat
    /\ Times \subseteq Int
    /\ \A n \in Times : -UINT_MOD =< 2 * n /\ 2 * n < UINT_MOD
    /\ NONE \notin Procs \cup Lives \cup Labels

VARIABLES
    prog,                   \* the program that runs
    parenttime, childtime,  \* its arguments
    tty,                    \* whether stdout is a terminal
    life,     \* unborn, alive, zombie, or gone
    role,     \* the branch after fork that each process takes
    at,       \* where each process is
    wake,     \* the time at which its sleep ends
    ppid,     \* what getppid returns
    code,     \* its exit status, or what the command it became ended with
    clock,
    printed,  \* what each process has printed
    seen,     \* what of it has reached stdout
    shown,    \* the state of the child that ps displayed
    fate,     \* what the child has been: orphan, zombie
    ran       \* the processes that execve replaced

argVars == <<prog, parenttime, childtime, tty>>
procVars == <<life, ppid, fate>>
outVars == <<printed, seen>>
vars == <<argVars, procVars, outVars, role, at, wake, code, clock, shown, ran>>

Init ==
    /\ prog \in Programs /\ tty \in BOOLEAN
    /\ parenttime \in Times /\ childtime \in Times
    /\ life = [p \in Procs |-> IF p = Parent THEN "alive" ELSE "unborn"]
    /\ role = [p \in Procs |-> NONE]
    /\ at = [p \in Procs |-> IF p = Parent THEN "main" ELSE NONE]
    /\ wake = [p \in Procs |-> 0]
    /\ ppid = [p \in Procs |-> IF p = Parent THEN Shell ELSE NONE]
    /\ code = [p \in Procs |-> 0]
    /\ clock = 0
    /\ printed = [p \in Procs |-> {}]
    /\ seen = [p \in Procs |-> {}]
    /\ shown = NONE /\ fate = {} /\ ran = {}

Goto(p, l) == at' = [at EXCEPT ![p] = l]

\* printf and puts
Say(p, texts) ==
    /\ printed' = [printed EXCEPT ![p] = @ \cup texts]
    /\ seen' = IF tty THEN [seen EXCEPT ![p] = @ \cup texts] ELSE seen

\* Mutant: the process ends with _exit.
NoFlush(p) == UNCHANGED seen

\* Returning from main, or exit: stdio writes what it still holds.
Flush(p) == seen' = [seen EXCEPT ![p] = printed[p]]

-----------------------------------------------------------------------------
\* The kernel's side of the end of process p

Die(p) ==
    IF p = Parent
    THEN /\ life' = [life EXCEPT ![Parent] = "gone",
                                 ![Child] = IF @ = "zombie" THEN "gone" ELSE @]
         /\ ppid' = [ppid EXCEPT ![Child] = IF @ = Parent THEN Init1 ELSE @]
         /\ fate' = IF life[Child] = "alive" THEN fate \cup {"orphan"} ELSE fate
    ELSE /\ life' = [life EXCEPT ![Child] =
                        IF ppid[Child] = Parent THEN "zombie" ELSE "gone"]
         /\ fate' = IF ppid[Child] = Parent THEN fate \cup {"zombie"} ELSE fate
         /\ UNCHANGED ppid

Exit(p) ==
    /\ life[p] = "alive" /\ at[p] = "exit"
    /\ Flush(p)
    /\ Die(p)
    /\ Goto(p, "ended")
    /\ UNCHANGED <<argVars, role, wake, code, clock, printed, shown, ran>>

-----------------------------------------------------------------------------
\* main up to the branches

\* The number of arguments is wrong (execve.c takes none).
Usage ==
    /\ at[Parent] = "main" /\ prog # "execve"
    /\ Say(Parent, {"usage"})
    /\ code' = [code EXCEPT ![Parent] = 1]
    /\ Goto(Parent, "exit")
    /\ UNCHANGED <<argVars, procVars, role, wake, clock, shown, ran>>

Fork ==
    /\ at[Parent] = "main" /\ prog # "execve"
    /\ life' = [life EXCEPT ![Child] = "alive"]
    /\ ppid' = [ppid EXCEPT ![Child] = Parent]
    /\ role' = [p \in Procs |-> p]
    /\ at' = [p \in Procs |-> "begin"]
    /\ UNCHANGED <<argVars, outVars, fate, wake, code, clock, shown, ran>>

\* The only process takes the branch that executes a command or, in the
\* sleeping programs, the branch of the child.
AsChild ==
    /\ role' = [role EXCEPT ![Parent] = Child]
    /\ Goto(Parent, "begin")
    /\ UNCHANGED <<argVars, procVars, outVars, wake, code, clock, shown, ran>>

\* fork returns -1, which is not above 0 either.
ForkFail == at[Parent] = "main" /\ prog # "execve" /\ AsChild

\* execve.c does not fork.
ExecveMain == at[Parent] = "main" /\ prog = "execve" /\ AsChild

-----------------------------------------------------------------------------
\* OrphanZombie and OrphanZombie2

\* Mutant: the second that lets the parent go away is missing.
SleepTimeShort(r) ==
    IF prog = "OrphanZombie2"
    THEN IF r = Parent THEN parenttime ELSE childtime
    ELSE IF parenttime < childtime THEN parenttime ELSE childtime

SleepTime(r) ==
    IF prog = "OrphanZombie2"
    THEN IF r = Parent THEN parenttime ELSE childtime
    ELSE IF r = Parent
         THEN IF parenttime < childtime THEN parenttime ELSE childtime + 1
         ELSE IF parenttime > childtime THEN childtime ELSE parenttime + 1

FallAsleep(p) ==
    /\ prog \in Sleepers /\ life[p] = "alive" /\ at[p] = "begin"
    /\ Say(p, {"hello"})
    /\ wake' = [wake EXCEPT ![p] = clock + (SleepTime(role[p]) % UINT_MOD)]
    /\ Goto(p, "sleep")
    /\ UNCHANGED <<argVars, procVars, role, code, clock, shown, ran>>

\* The text of the orphan has its PPID.
OrphanOf == [parent |-> "orphan of parent", init |-> "orphan of init",
             shell |-> "orphan of shell"]

\* What process p prints after its sleep
LastWords(p) ==
    IF role[p] = Parent
    THEN IF parenttime < childtime THEN {"becoming orphan"} ELSE {}
    ELSE IF parenttime > childtime THEN {"becoming zombie"}
         ELSE IF prog = "OrphanZombie" THEN {OrphanOf[ppid[p]]} ELSE {}

WakeUp(p) ==
    /\ prog \in Sleepers /\ at[p] = "sleep" /\ clock >= wake[p]
    /\ Say(p, LastWords(p))
    /\ Goto(p, IF /\ prog = "OrphanZombie" /\ role[p] = Parent
                  /\ parenttime >= childtime THEN "ps" ELSE "exit")
    /\ UNCHANGED <<argVars, procVars, role, wake, code, clock, shown, ran>>

\* system runs ps, or fails and nothing is displayed.
SystemPs ==
    /\ at[Parent] = "ps"
    /\ shown' \in {life[Child], NONE}
    /\ Goto(Parent, "exit")
    /\ UNCHANGED <<argVars, procVars, outVars, role, wake, code, clock, ran>>

-----------------------------------------------------------------------------
\* forkcmd and execve

ParentWait ==
    /\ prog = "forkcmd" /\ at[Parent] = "begin" /\ role[Parent] = Parent
    /\ Say(Parent, {"hello"})
    /\ Goto(Parent, "wait")
    /\ UNCHANGED <<argVars, procVars, role, wake, code, clock, shown, ran>>

Report(status) == IF status = 0 THEN {"normally"} ELSE {"error"}

\* Mutant: status is not filled in (waitpid(child_pid, NULL, 0)).
WaitpidNoStatus ==
    /\ at[Parent] = "wait" /\ life[Child] = "zombie"
    /\ life' = [life EXCEPT ![Child] = "gone"]
    /\ Say(Parent, Report(0))
    /\ Goto(Parent, "exit")
    /\ UNCHANGED <<argVars, ppid, fate, role, wake, code, clock, shown, ran>>

\* waitpid returns when the child is a zombie, and reaps it.
Waitpid ==
    /\ at[Parent] = "wait" /\ life[Child] = "zombie"
    /\ life' = [life EXCEPT ![Child] = "gone"]
    /\ Say(Parent, Report(code[Child]))
    /\ Goto(Parent, "exit")
    /\ UNCHANGED <<argVars, ppid, fate, role, wake, code, clock, shown, ran>>

BeforeExec(p) ==
    /\ prog \in {"forkcmd", "execve"} /\ life[p] = "alive"
    /\ at[p] = "begin" /\ role[p] = Child
    /\ Say(p, {"hello"} \cup IF prog = "forkcmd" THEN {"executing"} ELSE {})
    /\ Goto(p, "execve")
    /\ UNCHANGED <<argVars, procVars, role, wake, code, clock, shown, ran>>

\* The command replaces the program, and what stdio held is gone.
Execve(p) ==
    /\ at[p] = "execve"
    /\ ran' = ran \cup {p}
    /\ Goto(p, "command")
    /\ UNCHANGED <<argVars, procVars, outVars, role, wake, code, clock, shown>>

\* Mutant: the command is tried again for ever.
ExecveRetry(p) ==
    /\ at[p] = "execve"
    /\ Goto(p, "begin")
    /\ UNCHANGED <<argVars, procVars, outVars, role, wake, code, clock, shown,
                   ran>>

\* perror; forkcmd's child then returns 0, execve.c sleeps and returns 1.
ExecveFail(p) ==
    /\ at[p] = "execve"
    /\ IF prog = "execve"
       THEN /\ code' = [code EXCEPT ![p] = 1]
            /\ wake' = [wake EXCEPT ![p] = clock + PAUSE]
            /\ Goto(p, "pause")
       ELSE Goto(p, "exit") /\ UNCHANGED <<code, wake>>
    /\ UNCHANGED <<argVars, procVars, outVars, role, clock, shown, ran>>

PauseEnds(p) ==
    /\ at[p] = "pause" /\ clock >= wake[p]
    /\ Goto(p, "exit")
    /\ UNCHANGED <<argVars, procVars, outVars, role, wake, code, clock, shown,
                   ran>>

\* The command ends: 0, or an exit code or a signal that makes status not 0.
CommandEnds(p) ==
    /\ at[p] = "command"
    /\ \E c \in {0, 1} : code' = [code EXCEPT ![p] = c]
    /\ Die(p)
    /\ Goto(p, "ended")
    /\ UNCHANGED <<argVars, outVars, role, wake, clock, shown, ran>>

-----------------------------------------------------------------------------
Asleep(p) == at[p] \in {"sleep", "pause"} /\ clock < wake[p]

\* A command may take any time; a sleep, and a wait, let time pass.
LetsTimePass(p) ==
    \/ at[p] \in {NONE, "ended", "command"}
    \/ Asleep(p)
    \/ at[p] = "wait" /\ life[Child] # "zombie"

Tick ==
    /\ \A p \in Procs : LetsTimePass(p)
    /\ \E p \in Procs : Asleep(p)
    /\ clock' = clock + 1
    /\ UNCHANGED <<argVars, procVars, outVars, role, at, wake, code, shown, ran>>

Over == at[Parent] = "ended" /\ life[Child] \in {"unborn", "gone"}

Done == Over /\ UNCHANGED vars

ProcStep(p) ==
    \/ FallAsleep(p) \/ WakeUp(p) \/ Exit(p)
    \/ BeforeExec(p) \/ Execve(p) \/ ExecveFail(p) \/ PauseEnds(p)
    \/ CommandEnds(p)

ParentStep ==
    \/ Usage \/ Fork \/ ForkFail \/ ExecveMain
    \/ SystemPs \/ ParentWait \/ Waitpid

Next == ParentStep \/ (\E p \in Procs : ProcStep(p)) \/ Tick \/ Done

Spec == Init /\ [][Next]_vars

\* Processes are scheduled, commands end, and time passes.
Fairness ==
    /\ WF_vars(ParentStep) /\ \A p \in Procs : WF_vars(ProcStep(p))
    /\ WF_vars(Tick)

FairSpec == Spec /\ Fairness

-----------------------------------------------------------------------------
(* Properties *)

Forked == life[Child] # "unborn"

\* "If parent quits before child, then child becomes orphan.  If child quits
\* before parent, then child becomes zombie": for times that are not negative
\* the child ends the way the two processes announced, whatever the order of
\* their steps; an orphan that prints its PPID has been adopted, and ps
\* displays the child while it is a zombie: the extra second is enough.  A
\* negative time is longer than any other for sleep, so in OrphanZombie2 the
\* process that was given it ends last, against what is announced.
AnnouncedFate ==
    (prog \in Sleepers /\ Forked) =>
      /\ (parenttime >= 0 /\ childtime >= 0) =>
           /\ (Over /\ "becoming orphan" \in printed[Parent]) => fate = {"orphan"}
           /\ (Over /\ "becoming zombie" \in printed[Child]) => fate = {"zombie"}
           /\ parenttime # childtime =>
                 OrphanOf[Parent] \notin printed[Child]
           /\ childtime < parenttime => shown \in {NONE, "zombie"}
      /\ (prog = "OrphanZombie2" /\ Over) =>
           /\ (parenttime < 0 /\ childtime >= 0) => fate = {"zombie"}
           /\ (childtime < 0 /\ parenttime >= 0) => fate = {"orphan"}

\* forkcmd's parent outlives its child and reaps it, so the child is never an
\* orphan and no zombie is left when the parent ends; and what it reports is
\* what the command ended with: an error only for a command that ran and
\* failed, and "normally" never for such a command (it is reported when execve
\* failed, though).
CommandReported ==
    LET failed == Child \in ran /\ code[Child] # 0 IN
      prog = "forkcmd" =>
        /\ "orphan" \notin fate
        /\ (Forked /\ life[Parent] = "gone") => life[Child] = "gone"
        /\ "error" \in printed[Parent] => failed
        /\ "normally" \in printed[Parent] => ~failed

\* When all has ended, everything printed has reached stdout, except what a
\* process that execve replaced had printed to something else than a terminal.
OutputKept ==
    Over => \A p \in Procs :
              seen[p] = IF p \in ran /\ ~tty THEN {} ELSE printed[p]

\* Every run of the four programs comes to its end, for every pair of times,
\* and leaves no process and no zombie behind.
AllEnds == <>Over

=============================================================================
