--------------------------- MODULE ForkDemosProofs --------------------------
(***************************************************************************)
(* Proofs about ForkDemos, for all times of type int and any length of the *)
(* pause in execve.c.                                                      *)
(***************************************************************************)
EXTENDS ForkDemos, TLAPS

-----------------------------------------------------------------------------
(* The parts of the inductive invariant *)

Texts == {"usage", "hello", "executing", "error", "normally", "becoming orphan",
          "becoming zombie", "orphan of parent", "orphan of init",
          "orphan of shell"}

TypesOK ==
    /\ prog \in Programs /\ tty \in BOOLEAN
    /\ parenttime \in Times /\ childtime \in Times
    /\ life \in [Procs -> Lives]
    /\ role \in [Procs -> Procs \cup {NONE}]
    /\ at \in [Procs -> Labels \cup {NONE}]
    /\ wake \in [Procs -> Nat] /\ clock \in Nat
    /\ ppid \in [Procs -> {Parent, Init1, Shell, NONE}]
    /\ code \in [Procs -> {0, 1}]
    /\ printed \in [Procs -> SUBSET Texts]
    /\ seen \in [Procs -> SUBSET Texts]
    /\ shown \in Lives \cup {NONE}
    /\ fate \subseteq {"orphan", "zombie"}
    /\ ran \subseteq Procs

\* What the kernel knows of the two processes agrees with where they are.
LifeOK ==
    /\ at[Parent] # NONE /\ at[Child] # "main" /\ ppid[Parent] = Shell
    /\ life[Parent] = IF at[Parent] = "ended" THEN "gone" ELSE "alive"
    /\ life[Child] = "unborn" <=> at[Child] = NONE
    /\ life[Child] = "alive" <=> at[Child] \notin {NONE, "ended"}
    /\ at[Parent] = "ended" => life[Child] # "zombie"
    /\ IF Forked
       THEN /\ at[Parent] # "main" /\ \A p \in Procs : role[p] = p
            /\ ppid[Child] = IF at[Parent] = "ended" THEN Init1 ELSE Parent
       ELSE /\ ppid[Child] = NONE
            /\ role[Parent] # Parent
            /\ at[Parent] \in {"main", "exit", "ended"} \/ role[Parent] = Child

\* Each program stays within its own code.
LabelsOK ==
    /\ prog \in Sleepers => \A p \in Procs :
          at[p] \in {NONE, "main", "begin", "sleep", "ps", "exit", "ended"}
    /\ prog = "forkcmd" => at[Parent] \in IF Forked
          THEN {"begin", "wait", "exit", "ended"}
          ELSE {"main", "begin", "execve", "command", "exit", "ended"}
    /\ prog = "forkcmd" => at[Child] # "pause"
    /\ prog = "execve" => ~Forked

\* Nothing has happened before fork.
StartOK ==
    at[Parent] = "main" =>
      /\ clock = 0 /\ fate = {} /\ shown = NONE /\ ran = {}
      /\ \A p \in Procs : printed[p] = {} /\ code[p] = 0

\* What has reached stdout is all on a terminal, and elsewhere nothing until
\* the process itself ends.
OutputOK(p) ==
    /\ seen[p] = IF tty \/ (at[p] = "ended" /\ p \notin ran)
                 THEN printed[p] ELSE {}
    /\ p \in ran => at[p] \in {"command", "ended"}
    /\ at[p] = "command" => p \in ran
    /\ at[p] = NONE => printed[p] = {}

OutputsOK == \A p \in Procs : OutputOK(p)

\* The parent of forkcmd reports once it has reaped the child.
CommandOK ==
    prog = "forkcmd" =>
      /\ "orphan" \notin fate
      /\ code[Child] # 0 => Child \in ran
      /\ printed[Parent] \cap {"error", "normally"} # {} =>
            Forked /\ at[Parent] \in {"exit", "ended"}
      /\ Forked /\ at[Parent] \in {"exit", "ended"} => life[Child] = "gone"
      /\ "error" \in printed[Parent] => code[Child] # 0
      /\ "normally" \in printed[Parent] => code[Child] = 0

\* How long each process of the sleeping programs sleeps.
Sleep(p) == SleepTime(p) % UINT_MOD

\* The clock agrees with where a process is in its sleep.
ClockOK(p) ==
    /\ at[p] = "begin" => clock = 0
    /\ at[p] \in {"sleep", "ps", "exit", "ended"} => wake[p] = Sleep(p)
    /\ at[p] = "sleep" => clock =< Sleep(p)
    /\ at[p] \in {"ps", "exit"} => clock = Sleep(p)
    /\ at[p] = "ended" => clock >= Sleep(p)

\* The process that sleeps less ends first, and the other notices.
FateOK ==
    /\ Sleep(Parent) < Sleep(Child) =>
          /\ fate = IF at[Parent] = "ended" THEN {"orphan"} ELSE {}
          /\ OrphanOf[Parent] \notin printed[Child]
    /\ Sleep(Child) < Sleep(Parent) =>
          /\ fate = IF at[Child] = "ended" THEN {"zombie"} ELSE {}
          /\ shown \in {NONE, "zombie"}
    /\ life[Child] = "gone" => at[Parent] = "ended"
    /\ parenttime > childtime => OrphanOf[Parent] \notin printed[Child]
    /\ "becoming orphan" \in printed[Parent] => parenttime < childtime
    /\ "becoming zombie" \in printed[Child] => parenttime > childtime

SleepersOK ==
    prog \in Sleepers /\ Forked => FateOK /\ \A p \in Procs : ClockOK(p)

Inv ==
    /\ TypesOK /\ LifeOK /\ LabelsOK /\ StartOK
    /\ OutputsOK /\ CommandOK /\ SleepersOK

-----------------------------------------------------------------------------
(* Facts about the definitions *)

\* The two processes, the labels and NONE are told apart.
LEMMA Apart ==
    /\ Parent \in Procs /\ Child \in Procs /\ Parent # Child
    /\ \A p \in Procs : p = Parent \/ p = Child
    /\ NONE \notin Procs /\ NONE \notin Lives /\ NONE \notin Labels
    /\ Parent # Init1 /\ Parent # Shell /\ NONE # Parent
<1> QED
  BY TimesAssumption DEF Procs, Parent, Child, Init1, Shell

\* The argument of sleep: a time that is not negative stays what it is, and a
\* negative one becomes longer than every time that is not.
LEMMA SleepIs ==
    ASSUME prog \in Sleepers, parenttime \in Times, childtime \in Times,
           NEW p \in Procs
    PROVE  /\ Sleep(p) \in Nat
           /\ SleepTime(p) \in Int
           /\ 0 =< SleepTime(p) => Sleep(p) = SleepTime(p)
           /\ SleepTime(p) < 0 => Sleep(p) = SleepTime(p) + UINT_MOD
<1>1. parenttime \in Int /\ childtime \in Int
  BY TimesAssumption
<1>2. UINT_MOD \in Nat /\ UINT_MOD > 1
  BY TimesAssumption
<1>3. /\ -UINT_MOD =< 2 * parenttime /\ 2 * parenttime < UINT_MOD
      /\ -UINT_MOD =< 2 * childtime /\ 2 * childtime < UINT_MOD
  BY TimesAssumption
<1>4. SleepTime(p) \in {parenttime, childtime, parenttime + 1, childtime + 1}
  BY DEF SleepTime, Sleepers
<1>5. PICK n \in Int : n = SleepTime(p)
  BY <1>1, <1>4
<1>6. -UINT_MOD =< n /\ n < UINT_MOD
  BY <1>1, <1>2, <1>3, <1>4, <1>5
<1>7. n % UINT_MOD \in Nat
  BY <1>2
<1>8. 0 =< n => n % UINT_MOD = n
  BY <1>2, <1>6
<1>9. n < 0 => n % UINT_MOD = n + UINT_MOD
  BY <1>2, <1>6
<1> QED
  BY <1>5, <1>7, <1>8, <1>9 DEF Sleep

\* Init: one process, nothing printed.
LEMMA InitInv == Init => Inv
<1> SUFFICES ASSUME Init PROVE Inv
  OBVIOUS
<1> USE DEF Init
<1>1. TypesOK
  BY DEF TypesOK, Lives, Labels, Procs, Parent, Child
<1>2. ~Forked /\ at[Parent] = "main" /\ at[Child] = NONE
  BY Apart DEF Forked
<1>3. LifeOK
  BY <1>2, Apart DEF LifeOK, Lives, Labels
<1>4. LabelsOK
  BY <1>2, Apart DEF LabelsOK, Sleepers, Labels
<1>5. StartOK
  BY DEF StartOK
<1>6. OutputsOK
  BY Apart DEF OutputsOK, OutputOK, Labels
<1>7. CommandOK
  BY Apart DEF CommandOK
<1>8. SleepersOK
  BY <1>2 DEF SleepersOK
<1> QED
  BY <1>1, <1>3, <1>4, <1>5, <1>6, <1>7, <1>8 DEF Inv

\* What Say changes
LEMMA SayEffect ==
    ASSUME TypesOK, NEW p \in Procs, NEW T \in SUBSET Texts, Say(p, T)
    PROVE  /\ printed' \in [Procs -> SUBSET Texts]
           /\ seen' \in [Procs -> SUBSET Texts]
           /\ printed'[p] = printed[p] \cup T
           /\ seen'[p] = IF tty THEN seen[p] \cup T ELSE seen[p]
           /\ \A q \in Procs : q # p => printed'[q] = printed[q] /\ seen'[q] = seen[q]
<1>1. printed \in [Procs -> SUBSET Texts] /\ seen \in [Procs -> SUBSET Texts]
  BY DEF TypesOK
<1> QED
  BY <1>1 DEF Say

\* Output that is left alone is what printing nothing leaves.
LEMMA SayNothing ==
    ASSUME TypesOK, NEW p \in Procs, UNCHANGED outVars
    PROVE  Say(p, {})
<1>1. printed \in [Procs -> SUBSET Texts] /\ seen \in [Procs -> SUBSET Texts]
  BY DEF TypesOK
<1> QED
  BY <1>1 DEF Say, outVars

\* A process that execve has not replaced goes on to another place, and may
\* print something.
LEMMA MoveOutput ==
    ASSUME Inv, NEW p \in Procs, NEW m \in Labels \ {"ended", "command"},
           NEW T \in SUBSET Texts, at[p] \in Labels \ {"ended", "command"},
           at' = [at EXCEPT ![p] = m], Say(p, T), UNCHANGED <<tty, ran>>
    PROVE  /\ at' \in [Procs -> Labels \cup {NONE}]
           /\ at'[p] = m /\ \A q \in Procs : q # p => at'[q] = at[q]
           /\ printed' \in [Procs -> SUBSET Texts]
           /\ seen' \in [Procs -> SUBSET Texts]
           /\ printed'[p] = printed[p] \cup T
           /\ \A q \in Procs : q # p => printed'[q] = printed[q]
           /\ OutputsOK'
<1>1. at \in [Procs -> Labels \cup {NONE}] /\ TypesOK
  BY DEF Inv, TypesOK
<1>2. at'[p] = m /\ \A q \in Procs : q # p => at'[q] = at[q]
  BY <1>1
<1>3. at' \in [Procs -> Labels \cup {NONE}]
  BY <1>1
<1>4. /\ printed' \in [Procs -> SUBSET Texts]
      /\ seen' \in [Procs -> SUBSET Texts]
      /\ printed'[p] = printed[p] \cup T
      /\ seen'[p] = IF tty THEN seen[p] \cup T ELSE seen[p]
      /\ \A q \in Procs : q # p => printed'[q] = printed[q] /\ seen'[q] = seen[q]
  BY <1>1, SayEffect
<1>5. OutputsOK'
  <2> SUFFICES ASSUME NEW q \in Procs PROVE OutputOK(q)'
    BY DEF OutputsOK
  <2>1. OutputOK(q)
    BY DEF Inv, OutputsOK
  <2>2. CASE q = p
    <3>1. p \notin ran /\ seen[p] = IF tty THEN printed[p] ELSE {}
      BY <2>1, <2>2 DEF OutputOK
    <3>2. seen'[p] = IF tty THEN printed'[p] ELSE {}
      BY <1>4, <3>1
    <3>3. at'[p] \notin {NONE, "ended", "command"}
      BY <1>2, Apart
    <3> QED
      BY <2>2, <3>1, <3>2, <3>3 DEF OutputOK
  <2>3. CASE q # p
    BY <1>2, <1>4, <2>1, <2>3 DEF OutputOK
  <2> QED
    BY <2>2, <2>3
<1> QED
  BY <1>2, <1>3, <1>4, <1>5

\* A process goes on from one place between fork and its end to another: the
\* kernel's side stays as it is.
LEMMA GotoLife ==
    ASSUME Inv, NEW p \in Procs, NEW m \in Labels \ {"main", "ended"},
           at[p] \in Labels \ {"main", "ended", "exit"},
           at' = [at EXCEPT ![p] = m], UNCHANGED <<procVars, role>>
    PROVE  /\ at' \in [Procs -> Labels \cup {NONE}]
           /\ at'[p] = m /\ \A q \in Procs : q # p => at'[q] = at[q]
           /\ IF Forked THEN role[p] = p ELSE p = Parent /\ role[p] = Child
           /\ at'[Parent] # "main" /\ Forked' = Forked
           /\ LifeOK'
<1> USE DEF procVars
<1>1. at \in [Procs -> Labels \cup {NONE}]
  BY DEF Inv, TypesOK
<1>2. at'[p] = m /\ \A q \in Procs : q # p => at'[q] = at[q]
  BY <1>1
<1>3. at' \in [Procs -> Labels \cup {NONE}]
  BY <1>1
<1>4. Forked' = Forked /\ (p = Child => Forked)
  BY Apart DEF Inv, LifeOK, Forked
<1>5. IF Forked THEN role[p] = p ELSE p = Parent /\ role[p] = Child
  BY <1>4, Apart DEF Inv, LifeOK
<1>6. at'[Parent] # "main"
  BY <1>2, <1>4, Apart DEF Inv, LifeOK
<1>7. LifeOK'
  <2>1. at'[Parent] # NONE /\ (at'[Parent] = "ended" <=> at[Parent] = "ended")
    BY <1>2, Apart DEF Inv, LifeOK
  <2>2. /\ at'[Child] = NONE <=> at[Child] = NONE
        /\ at'[Child] = "ended" <=> at[Child] = "ended"
        /\ at'[Child] # "main"
    BY <1>2, Apart DEF Inv, LifeOK
  <2>3. ~Forked => at'[Parent] \in {"main", "exit", "ended"} \/ role[Parent] = Child
    BY <1>5
  <2> QED
    BY <1>4, <1>6, <2>1, <2>2, <2>3 DEF Inv, LifeOK
<1> QED
  BY <1>2, <1>3, <1>4, <1>5, <1>6, <1>7

\* Both together.
LEMMA MoveKeeps ==
    ASSUME Inv, NEW p \in Procs, NEW m \in Labels \ {"main", "ended", "command"},
           NEW T \in SUBSET Texts,
           at[p] \in Labels \ {"main", "ended", "command", "exit"},
           at' = [at EXCEPT ![p] = m], Say(p, T),
           UNCHANGED <<tty, procVars, role, ran>>
    PROVE  /\ at' \in [Procs -> Labels \cup {NONE}]
           /\ at'[p] = m /\ \A q \in Procs : q # p => at'[q] = at[q]
           /\ printed' \in [Procs -> SUBSET Texts]
           /\ seen' \in [Procs -> SUBSET Texts]
           /\ printed'[p] = printed[p] \cup T
           /\ \A q \in Procs : q # p => printed'[q] = printed[q]
           /\ IF Forked THEN role[p] = p ELSE p = Parent /\ role[p] = Child
           /\ at'[Parent] # "main" /\ Forked' = Forked
           /\ LifeOK' /\ OutputsOK'
<1>1. /\ at' \in [Procs -> Labels \cup {NONE}]
      /\ at'[p] = m /\ \A q \in Procs : q # p => at'[q] = at[q]
      /\ printed' \in [Procs -> SUBSET Texts]
      /\ seen' \in [Procs -> SUBSET Texts]
      /\ printed'[p] = printed[p] \cup T
      /\ \A q \in Procs : q # p => printed'[q] = printed[q]
      /\ OutputsOK'
  BY MoveOutput
<1>2. /\ IF Forked THEN role[p] = p ELSE p = Parent /\ role[p] = Child
      /\ at'[Parent] # "main" /\ Forked' = Forked
      /\ LifeOK'
  BY GotoLife
<1> QED
  BY <1>1, <1>2

\* FateOK says nothing of a step in which no process ends, nothing is displayed
\* and no news is printed.
News == {"becoming orphan", "becoming zombie", "orphan of parent"}

\* A step that leaves lives, endings and news alone keeps FateOK.
LEMMA FateStays ==
    ASSUME FateOK, UNCHANGED <<argVars, life, fate, shown>>,
           \A q \in Procs : at'[q] = "ended" <=> at[q] = "ended",
           \A q \in Procs, n \in News : n \in printed'[q] => n \in printed[q]
    PROVE  FateOK' /\ \A q \in Procs : Sleep(q)' = Sleep(q)
<1>1. \A q \in Procs : Sleep(q)' = Sleep(q)
  BY DEF Sleep, SleepTime, argVars
<1>2. OrphanOf[Parent] = "orphan of parent"
  BY DEF OrphanOf, Parent
<1>3. "orphan of parent" \in printed'[Child] => "orphan of parent" \in printed[Child]
  BY Apart DEF News
<1>4. "becoming zombie" \in printed'[Child] => "becoming zombie" \in printed[Child]
  BY Apart DEF News
<1>5. "becoming orphan" \in printed'[Parent] => "becoming orphan" \in printed[Parent]
  BY Apart DEF News
<1>6. /\ at'[Parent] = "ended" <=> at[Parent] = "ended"
      /\ at'[Child] = "ended" <=> at[Child] = "ended"
      /\ Sleep(Parent)' = Sleep(Parent) /\ Sleep(Child)' = Sleep(Child)
  BY <1>1, Apart
<1> QED
  BY <1>1, <1>2, <1>3, <1>4, <1>5, <1>6 DEF FateOK, argVars

\* sleep: the time to wake up is that of the unsigned argument.
LEMMA FallAsleepKeepsInv ==
    ASSUME Inv, NEW p \in Procs, FallAsleep(p)
    PROVE  Inv'
<1>1. /\ prog \in Sleepers /\ life[p] = "alive" /\ at[p] = "begin"
      /\ at' = [at EXCEPT ![p] = "sleep"]
      /\ wake' = [wake EXCEPT ![p] = clock + (SleepTime(role[p]) % UINT_MOD)]
      /\ Say(p, {"hello"})
      /\ UNCHANGED <<argVars, procVars, role, code, clock, shown, ran>>
  BY DEF FallAsleep, Goto
<1> USE DEF argVars, procVars
<1>2. TypesOK
  BY DEF Inv
<1>3. /\ {"hello"} \in SUBSET Texts
      /\ "sleep" \in Labels \ {"main", "ended", "command"}
      /\ "begin" \in Labels \ {"main", "ended", "command", "exit"}
  BY DEF Texts, Labels
<1>4. /\ at' \in [Procs -> Labels \cup {NONE}]
      /\ at'[p] = "sleep" /\ \A q \in Procs : q # p => at'[q] = at[q]
      /\ printed' \in [Procs -> SUBSET Texts]
      /\ seen' \in [Procs -> SUBSET Texts]
      /\ printed'[p] = printed[p] \cup {"hello"}
      /\ \A q \in Procs : q # p => printed'[q] = printed[q]
      /\ IF Forked THEN role[p] = p ELSE p = Parent /\ role[p] = Child
      /\ at'[Parent] # "main" /\ Forked' = Forked
      /\ LifeOK' /\ OutputsOK'
  BY <1>1, <1>3, MoveKeeps
<1>5. Sleep(role[p]) \in Nat /\ clock \in Nat
  BY <1>1, <1>2, <1>4, SleepIs, Apart DEF TypesOK
<1>6. TypesOK'
  <2>1. wake' \in [Procs -> Nat]
    BY <1>1, <1>2, <1>5 DEF TypesOK, Sleep
  <2> QED
    BY <1>1, <1>2, <1>4, <2>1 DEF TypesOK
<1>7. LabelsOK'
  BY <1>1, <1>4 DEF Inv, LabelsOK, Sleepers
<1>8. StartOK'
  BY <1>4 DEF StartOK
<1>9. CommandOK'
  BY <1>1 DEF CommandOK, Sleepers
<1>10. SleepersOK'
  <2> SUFFICES ASSUME Forked PROVE FateOK' /\ \A q \in Procs : ClockOK(q)'
    BY <1>4 DEF SleepersOK
  <2>1. FateOK /\ \A q \in Procs : ClockOK(q)
    BY <1>1 DEF Inv, SleepersOK
  <2>2. \A q \in Procs, n \in News : n \in printed'[q] => n \in printed[q]
    BY <1>4 DEF News
  <2>3. FateOK' /\ \A q \in Procs : Sleep(q)' = Sleep(q)
    <3>1. \A q \in Procs : at'[q] = "ended" <=> at[q] = "ended"
      BY <1>1, <1>4
    <3> QED
      BY <1>1, <2>1, <2>2, <3>1, FateStays
  <2>4. ASSUME NEW q \in Procs PROVE ClockOK(q)'
    <3>1. CASE q = p
      <4>1. wake'[p] = Sleep(p) /\ clock = 0
        BY <1>1, <1>2, <1>4, <2>1, <1>5 DEF ClockOK, Sleep, TypesOK
      <4>2. Sleep(p) \in Nat
        BY <1>4, <1>5
      <4> QED
        BY <1>1, <1>4, <2>3, <3>1, <4>1, <4>2 DEF ClockOK
    <3>2. CASE q # p
      BY <1>1, <1>2, <1>4, <2>1, <2>3, <3>2 DEF ClockOK, TypesOK
    <3> QED
      BY <3>1, <3>2
  <2> QED
    BY <2>3, <2>4
<1> QED
  BY <1>4, <1>6, <1>7, <1>8, <1>9, <1>10 DEF Inv

\* A process of the sleeping programs that has not ended has not slept for
\* longer than it should, and one that is past its sleep not for less.
LEMMA InTime ==
    ASSUME Inv, prog \in Sleepers, Forked, NEW p \in Procs
    PROVE  /\ Sleep(p) \in Nat /\ clock \in Nat
           /\ at[p] # "ended" => clock =< Sleep(p)
           /\ at[p] \notin {"begin", "sleep"} => clock >= Sleep(p)
<1>1. Sleep(p) \in Nat /\ clock \in Nat
  BY SleepIs DEF Inv, TypesOK
<1>2. at[p] \in {"begin", "sleep", "ps", "exit", "ended"}
  <2>1. at[Child] # NONE /\ at[Parent] # NONE /\ at[Parent] # "main"
    BY DEF Inv, LifeOK, Forked
  <2>2. at[Child] # "main"
    BY DEF Inv, LifeOK
  <2>3. at[p] \in {NONE, "main", "begin", "sleep", "ps", "exit", "ended"}
    BY DEF Inv, LabelsOK
  <2> QED
    BY <2>1, <2>2, <2>3, Apart
<1>3. ClockOK(p)
  BY DEF Inv, SleepersOK
<1> QED
  BY <1>1, <1>2, <1>3 DEF ClockOK

\* The end of a sleep.
LEMMA WakeUpKeepsInv ==
    ASSUME Inv, NEW p \in Procs, WakeUp(p)
    PROVE  Inv'
<1> DEFINE T == LastWords(p)
           m == IF /\ prog = "OrphanZombie" /\ role[p] = Parent
                   /\ parenttime >= childtime THEN "ps" ELSE "exit"
<1>1. /\ prog \in Sleepers /\ at[p] = "sleep" /\ clock >= wake[p]
      /\ at' = [at EXCEPT ![p] = m]
      /\ Say(p, T)
      /\ UNCHANGED <<argVars, procVars, role, wake, code, clock, shown, ran>>
  BY DEF WakeUp, Goto
<1> USE DEF argVars, procVars
<1>2. TypesOK
  BY DEF Inv
<1>3. /\ m \in Labels \ {"main", "ended", "command"} /\ m \in {"ps", "exit"}
      /\ "sleep" \in Labels \ {"main", "ended", "command", "exit"}
  BY DEF Labels
<1>4. /\ T \in SUBSET Texts
      /\ "becoming orphan" \in T => role[p] = Parent /\ parenttime < childtime
      /\ "becoming zombie" \in T => parenttime > childtime
      /\ "orphan of parent" \in T => ppid[p] = Parent /\ ~(parenttime > childtime)
  <2>1. ppid[p] \in {Parent, Init1, Shell}
    <3>1. p = Child => Forked
      BY <1>1, Apart DEF Inv, LifeOK, Forked, Labels
    <3> QED
      BY <3>1, Apart DEF Inv, LifeOK
  <2>2. /\ OrphanOf[ppid[p]] \in Texts
        /\ OrphanOf[ppid[p]] \notin {"becoming orphan", "becoming zombie"}
        /\ OrphanOf[ppid[p]] = "orphan of parent" => ppid[p] = Parent
    <3>1. /\ OrphanOf[Parent] = "orphan of parent"
          /\ OrphanOf[Init1] = "orphan of init"
          /\ OrphanOf[Shell] = "orphan of shell"
      BY DEF OrphanOf, Parent, Init1, Shell
    <3>2. CASE ppid[p] = Parent
      BY <3>1, <3>2 DEF Texts
    <3>3. CASE ppid[p] = Init1
      BY <3>1, <3>3 DEF Texts
    <3>4. CASE ppid[p] = Shell
      BY <3>1, <3>4 DEF Texts
    <3> QED
      BY <2>1, <3>2, <3>3, <3>4
  <2>3. CASE role[p] = Parent
    BY <2>3 DEF LastWords, Texts
  <2>4. CASE role[p] # Parent /\ parenttime > childtime
    BY <2>4 DEF LastWords, Texts
  <2>5. CASE role[p] # Parent /\ ~(parenttime > childtime)
    <3>1. T = {} \/ T = {OrphanOf[ppid[p]]}
      BY <2>5 DEF LastWords
    <3> HIDE DEF T
    <3> QED
      BY <2>2, <2>5, <3>1
  <2> QED
    BY <2>3, <2>4, <2>5
<1> HIDE DEF m, T
<1>5. /\ at' \in [Procs -> Labels \cup {NONE}]
      /\ at'[p] = m /\ \A q \in Procs : q # p => at'[q] = at[q]
      /\ printed' \in [Procs -> SUBSET Texts]
      /\ seen' \in [Procs -> SUBSET Texts]
      /\ printed'[p] = printed[p] \cup T
      /\ \A q \in Procs : q # p => printed'[q] = printed[q]
      /\ IF Forked THEN role[p] = p ELSE p = Parent /\ role[p] = Child
      /\ at'[Parent] # "main" /\ Forked' = Forked
      /\ LifeOK' /\ OutputsOK'
  BY <1>1, <1>3, <1>4, MoveKeeps
<1>6. TypesOK'
  BY <1>1, <1>2, <1>5 DEF TypesOK
<1>7. LabelsOK'
  BY <1>1, <1>3, <1>5 DEF Inv, LabelsOK, Sleepers
<1>8. StartOK'
  BY <1>5 DEF StartOK
<1>9. CommandOK'
  BY <1>1 DEF CommandOK, Sleepers
<1>10. SleepersOK'
  <2> SUFFICES ASSUME Forked PROVE FateOK' /\ \A q \in Procs : ClockOK(q)'
    BY <1>5 DEF SleepersOK
  <2>1. FateOK /\ \A q \in Procs : ClockOK(q)
    BY <1>1 DEF Inv, SleepersOK
  <2>2. \A q \in Procs : Sleep(q)' = Sleep(q)
    BY <1>1 DEF Sleep, SleepTime
  <2>3. /\ Sleep(p) \in Nat /\ clock \in Nat /\ clock = Sleep(p)
        /\ wake[p] = Sleep(p)
    BY <1>1, <2>1, InTime DEF ClockOK
  <2>4. ASSUME NEW q \in Procs PROVE ClockOK(q)'
    <3>1. CASE q = p
      BY <1>1, <1>3, <1>5, <2>2, <2>3, <3>1 DEF ClockOK
    <3>2. CASE q # p
      BY <1>1, <1>5, <2>1, <2>2, <3>2 DEF ClockOK
    <3> QED
      BY <3>1, <3>2
  <2>5. /\ at'[Parent] = "ended" <=> at[Parent] = "ended"
        /\ at'[Child] = "ended" <=> at[Child] = "ended"
    BY <1>1, <1>3, <1>5, Apart
  <2>6. OrphanOf[Parent] = "orphan of parent"
    BY DEF OrphanOf, Parent
  <2>7. "becoming orphan" \in printed'[Parent] => parenttime < childtime
    BY <1>4, <1>5, <2>1, Apart DEF FateOK
  <2>8. "becoming zombie" \in printed'[Child] => parenttime > childtime
    BY <1>4, <1>5, <2>1, Apart DEF FateOK
  <2>9. parenttime > childtime => OrphanOf[Parent] \notin printed'[Child]
    BY <1>4, <1>5, <2>1, <2>6, Apart DEF FateOK
  <2>10. Sleep(Parent) < Sleep(Child) => OrphanOf[Parent] \notin printed'[Child]
    <3>1. CASE p = Child
      <4>1. ppid[Child] = Parent => at[Parent] # "ended"
        BY Apart DEF Inv, LifeOK
      <4>2. Sleep(Parent) \in Nat /\ (at[Parent] # "ended" => clock =< Sleep(Parent))
        BY <1>1, InTime, Apart
      <4>3. ppid[Child] = Parent => ~(Sleep(Parent) < Sleep(Child))
        BY <2>3, <3>1, <4>1, <4>2
      <4>4. "orphan of parent" \in T => ~(Sleep(Parent) < Sleep(Child))
        BY <1>4, <3>1, <4>3
      <4>5. printed'[Child] = printed[Child] \cup T
        BY <1>5, <3>1
      <4> QED
        BY <2>1, <2>6, <4>4, <4>5 DEF FateOK
    <3>2. CASE p # Child
      BY <1>5, <2>1, <3>2, Apart DEF FateOK
    <3> QED
      BY <3>1, <3>2
  <2>11. Sleep(Parent)' = Sleep(Parent) /\ Sleep(Child)' = Sleep(Child)
    BY <2>2, Apart
  <2>12. FateOK'
    BY <1>1, <2>1, <2>5, <2>7, <2>8, <2>9, <2>10, <2>11 DEF FateOK
  <2> QED
    BY <2>4, <2>12
<1> QED
  BY <1>5, <1>6, <1>7, <1>8, <1>9, <1>10 DEF Inv

\* system("ps") shows the child as it is then.
LEMMA SystemPsKeepsInv ==
    ASSUME Inv, SystemPs
    PROVE  Inv'
<1>1. /\ at[Parent] = "ps" /\ shown' \in {life[Child], NONE}
      /\ at' = [at EXCEPT ![Parent] = "exit"]
      /\ UNCHANGED <<argVars, procVars, outVars, role, wake, code, clock, ran>>
  BY DEF SystemPs, Goto
<1> USE DEF argVars, procVars, outVars
<1>2. TypesOK
  BY DEF Inv
<1>3. /\ {} \in SUBSET Texts /\ Say(Parent, {})
      /\ "exit" \in Labels \ {"main", "ended", "command"}
      /\ "ps" \in Labels \ {"main", "ended", "command", "exit"}
  BY <1>1, <1>2, SayNothing, Apart DEF Labels
<1>4. /\ at' \in [Procs -> Labels \cup {NONE}]
      /\ at'[Parent] = "exit" /\ \A q \in Procs : q # Parent => at'[q] = at[q]
      /\ at'[Parent] # "main" /\ Forked' = Forked
      /\ LifeOK' /\ OutputsOK'
  BY <1>1, <1>3, MoveKeeps, Apart
<1>5. TypesOK'
  BY <1>1, <1>2, <1>4, Apart DEF TypesOK
<1>6. LabelsOK'
  BY <1>1, <1>4, Apart DEF Inv, LabelsOK, Sleepers
<1>7. StartOK'
  BY <1>4 DEF StartOK
<1>8. CommandOK'
  BY <1>1 DEF CommandOK, Inv, LabelsOK
<1>9. SleepersOK'
  <2> SUFFICES ASSUME prog \in Sleepers, Forked
               PROVE  FateOK' /\ \A q \in Procs : ClockOK(q)'
    BY <1>1, <1>4 DEF SleepersOK
  <2>1. FateOK /\ \A q \in Procs : ClockOK(q)
    BY DEF Inv, SleepersOK
  <2>2. \A q \in Procs : Sleep(q)' = Sleep(q)
    BY <1>1 DEF Sleep, SleepTime
  <2>3. ASSUME NEW q \in Procs PROVE ClockOK(q)'
    <3>1. CASE q = Parent
      BY <1>1, <1>4, <2>1, <2>2, <3>1 DEF ClockOK
    <3>2. CASE q # Parent
      BY <1>1, <1>4, <2>1, <2>2, <3>2 DEF ClockOK
    <3> QED
      BY <3>1, <3>2
  <2>4. Sleep(Child) < Sleep(Parent) => shown' \in {NONE, "zombie"}
    <3>1. clock = Sleep(Parent) /\ Sleep(Parent) \in Nat /\ Sleep(Child) \in Nat
      BY <1>1, <2>1, InTime, Apart DEF ClockOK
    <3>2. Sleep(Child) < Sleep(Parent) => at[Child] = "ended"
      BY <3>1, InTime, Apart
    <3>3. life[Child] # "gone" /\ life[Child] # "unborn"
      BY <1>1, <2>1 DEF FateOK, Forked
    <3>4. at[Child] = "ended" => life[Child] # "alive"
      BY DEF Inv, LifeOK
    <3> QED
      BY <1>1, <1>2, <3>2, <3>3, <3>4, Apart DEF TypesOK, Lives
  <2>5. /\ at'[Parent] = "ended" <=> at[Parent] = "ended"
        /\ at'[Child] = at[Child]
    BY <1>1, <1>4, Apart
  <2>6. Sleep(Parent)' = Sleep(Parent) /\ Sleep(Child)' = Sleep(Child)
    BY <2>2, Apart
  <2>7. FateOK'
    BY <1>1, <2>1, <2>4, <2>5, <2>6 DEF FateOK
  <2> QED
    BY <2>3, <2>7
<1> QED
  BY <1>4, <1>5, <1>6, <1>7, <1>8, <1>9 DEF Inv

\* The parent of forkcmd goes on to wait.
LEMMA ParentWaitKeepsInv ==
    ASSUME Inv, ParentWait
    PROVE  Inv'
<1>1. /\ prog = "forkcmd" /\ at[Parent] = "begin" /\ role[Parent] = Parent
      /\ at' = [at EXCEPT ![Parent] = "wait"] /\ Say(Parent, {"hello"})
      /\ UNCHANGED <<argVars, procVars, role, wake, code, clock, shown, ran>>
  BY DEF ParentWait, Goto
<1> USE DEF argVars, procVars
<1>2. TypesOK
  BY DEF Inv
<1>3. /\ {"hello"} \in SUBSET Texts
      /\ "wait" \in Labels \ {"main", "ended", "command"}
      /\ "begin" \in Labels \ {"main", "ended", "command", "exit"}
  BY DEF Texts, Labels
<1>4. /\ at' \in [Procs -> Labels \cup {NONE}]
      /\ at'[Parent] = "wait" /\ \A q \in Procs : q # Parent => at'[q] = at[q]
      /\ printed' \in [Procs -> SUBSET Texts]
      /\ seen' \in [Procs -> SUBSET Texts]
      /\ printed'[Parent] = printed[Parent] \cup {"hello"}
      /\ IF Forked THEN role[Parent] = Parent ELSE role[Parent] = Child
      /\ at'[Parent] # "main" /\ Forked' = Forked
      /\ LifeOK' /\ OutputsOK'
  BY <1>1, <1>3, MoveKeeps, Apart
<1>5. Forked
  BY <1>1, <1>4, Apart
<1>6. TypesOK'
  BY <1>1, <1>2, <1>4 DEF TypesOK
<1>7. LabelsOK'
  BY <1>1, <1>4, <1>5, Apart DEF Inv, LabelsOK, Sleepers
<1>8. StartOK'
  BY <1>4 DEF StartOK
<1>9. CommandOK'
  BY <1>1, <1>4 DEF Inv, CommandOK
<1>10. SleepersOK'
  BY <1>1 DEF SleepersOK, Sleepers
<1> QED
  BY <1>4, <1>6, <1>7, <1>8, <1>9, <1>10 DEF Inv

\* waitpid reaps the child and takes its status.
LEMMA WaitpidKeepsInv ==
    ASSUME Inv, Waitpid
    PROVE  Inv'
<1> DEFINE T == Report(code[Child])
<1>1. /\ at[Parent] = "wait" /\ life[Child] = "zombie"
      /\ life' = [life EXCEPT ![Child] = "gone"]
      /\ at' = [at EXCEPT ![Parent] = "exit"] /\ Say(Parent, T)
      /\ UNCHANGED <<argVars, ppid, fate, role, wake, code, clock, shown, ran>>
  BY DEF Waitpid, Goto
<1> USE DEF argVars
<1>2. TypesOK
  BY DEF Inv
<1>3. Forked /\ prog = "forkcmd"
  <2>1. Forked
    BY <1>1 DEF Forked
  <2>2. prog \notin Sleepers
    BY <1>1, Apart DEF Inv, LabelsOK, Labels
  <2>3. prog # "execve"
    BY <2>1 DEF Inv, LabelsOK
  <2> QED
    BY <1>2, <2>1, <2>2, <2>3 DEF TypesOK, Programs, Sleepers
<1>4. /\ T \in SUBSET Texts
      /\ "error" \in T <=> code[Child] # 0
      /\ "normally" \in T <=> code[Child] = 0
  BY DEF Report, Texts
<1>5. /\ "exit" \in Labels \ {"ended", "command"}
      /\ "wait" \in Labels \ {"ended", "command"}
  BY DEF Labels
<1> HIDE DEF T
<1>6. /\ at' \in [Procs -> Labels \cup {NONE}]
      /\ at'[Parent] = "exit" /\ \A q \in Procs : q # Parent => at'[q] = at[q]
      /\ printed' \in [Procs -> SUBSET Texts]
      /\ seen' \in [Procs -> SUBSET Texts]
      /\ printed'[Parent] = printed[Parent] \cup T
      /\ OutputsOK'
  BY <1>1, <1>4, <1>5, MoveOutput, Apart
<1>7. life'[Child] = "gone" /\ life'[Parent] = life[Parent] /\ Forked'
  BY <1>1, <1>2, Apart DEF TypesOK, Forked
<1>8. at'[Child] = at[Child] /\ at[Child] = "ended"
  BY <1>1, <1>6, Apart DEF Inv, LifeOK
<1>9. TypesOK'
  <2>1. life' \in [Procs -> Lives]
    BY <1>1, <1>2 DEF TypesOK, Lives
  <2> QED
    BY <1>1, <1>2, <1>6, <2>1 DEF TypesOK
<1>10. LifeOK'
  BY <1>1, <1>3, <1>6, <1>7, <1>8, Apart DEF Inv, LifeOK, Labels
<1>11. LabelsOK'
  BY <1>1, <1>3, <1>6, <1>7, <1>8 DEF Inv, LabelsOK, Sleepers
<1>12. StartOK'
  BY <1>6 DEF StartOK
<1>13. CommandOK'
  <2>1. "error" \notin printed[Parent] /\ "normally" \notin printed[Parent]
    BY <1>1, <1>3 DEF Inv, CommandOK
  <2>2. /\ "orphan" \notin fate'
        /\ code'[Child] # 0 => Child \in ran'
    BY <1>1, <1>3 DEF Inv, CommandOK
  <2>3. /\ "error" \in printed'[Parent] => code'[Child] # 0
        /\ "normally" \in printed'[Parent] => code'[Child] = 0
    BY <1>1, <1>4, <1>6, <2>1
  <2> QED
    BY <1>6, <1>7, <2>2, <2>3 DEF CommandOK
<1>14. SleepersOK'
  BY <1>1, <1>3 DEF SleepersOK, Sleepers
<1> QED
  BY <1>6, <1>9, <1>10, <1>11, <1>12, <1>13, <1>14 DEF Inv

\* What a process prints before execve.
LEMMA BeforeExecKeepsInv ==
    ASSUME Inv, NEW p \in Procs, BeforeExec(p)
    PROVE  Inv'
<1> DEFINE T == {"hello"} \cup IF prog = "forkcmd" THEN {"executing"} ELSE {}
<1>1. /\ prog \in {"forkcmd", "execve"} /\ at[p] = "begin" /\ role[p] = Child
      /\ at' = [at EXCEPT ![p] = "execve"] /\ Say(p, T)
      /\ UNCHANGED <<argVars, procVars, role, wake, code, clock, shown, ran>>
  BY DEF BeforeExec, Goto
<1> USE DEF argVars, procVars
<1>2. TypesOK
  BY DEF Inv
<1>3. /\ T \in SUBSET Texts /\ "error" \notin T /\ "normally" \notin T
      /\ "execve" \in Labels \ {"main", "ended", "command"}
      /\ "begin" \in Labels \ {"main", "ended", "command", "exit"}
  BY DEF Texts, Labels
<1> HIDE DEF T
<1>4. /\ at' \in [Procs -> Labels \cup {NONE}]
      /\ at'[p] = "execve" /\ \A q \in Procs : q # p => at'[q] = at[q]
      /\ printed' \in [Procs -> SUBSET Texts]
      /\ seen' \in [Procs -> SUBSET Texts]
      /\ printed'[p] = printed[p] \cup T
      /\ \A q \in Procs : q # p => printed'[q] = printed[q]
      /\ IF Forked THEN role[p] = p ELSE p = Parent /\ role[p] = Child
      /\ at'[Parent] # "main" /\ Forked' = Forked
      /\ LifeOK' /\ OutputsOK'
  BY <1>1, <1>3, MoveKeeps
<1>5. p = Parent => ~Forked
  BY <1>1, <1>4, Apart
<1>6. TypesOK'
  BY <1>1, <1>2, <1>4 DEF TypesOK
<1>7. LabelsOK'
  BY <1>1, <1>4, <1>5, Apart DEF Inv, LabelsOK, Sleepers
<1>8. StartOK'
  BY <1>4 DEF StartOK
<1>9. CommandOK'
  <2>1. /\ "error" \in printed'[Parent] <=> "error" \in printed[Parent]
        /\ "normally" \in printed'[Parent] <=> "normally" \in printed[Parent]
    BY <1>3, <1>4, Apart
  <2>2. Forked => at'[Parent] = at[Parent]
    BY <1>4, <1>5, Apart
  <2> QED
    BY <1>1, <1>4, <2>1, <2>2 DEF Inv, CommandOK
<1>10. SleepersOK'
  BY <1>1 DEF SleepersOK, Sleepers
<1> QED
  BY <1>4, <1>6, <1>7, <1>8, <1>9, <1>10 DEF Inv

\* Where a process can be about to execute the command.
LEMMA AtExecve ==
    ASSUME Inv, NEW p \in Procs, at[p] \in {"execve", "command", "pause"}
    PROVE  /\ prog \in {"forkcmd", "execve"}
           /\ p = Parent => ~Forked
           /\ p = Child => Forked /\ prog = "forkcmd"
           /\ at[p] = "pause" => prog = "execve"
<1>1. prog \notin Sleepers
  BY Apart DEF Inv, LabelsOK, Labels
<1>2. prog \in {"forkcmd", "execve"}
  BY <1>1 DEF Inv, TypesOK, Programs, Sleepers
<1>3. p = Child => Forked
  BY Apart DEF Inv, LifeOK, Forked, Labels
<1>4. p = Parent => ~Forked
  BY <1>2 DEF Inv, LabelsOK
<1> QED
  BY <1>2, <1>3, <1>4, Apart DEF Inv, LabelsOK

\* execve replaces the process, or fails.
LEMMA ExecveKeepsInv ==
    ASSUME Inv, NEW p \in Procs, Execve(p)
    PROVE  Inv'
<1>1. /\ at[p] = "execve" /\ ran' = ran \cup {p}
      /\ at' = [at EXCEPT ![p] = "command"]
      /\ UNCHANGED <<argVars, procVars, outVars, role, wake, code, clock, shown>>
  BY DEF Execve, Goto
<1> USE DEF argVars, procVars, outVars
<1>2. TypesOK
  BY DEF Inv
<1>3. /\ prog \in {"forkcmd", "execve"}
      /\ p = Parent => ~Forked
  BY <1>1, AtExecve
<1>4. /\ "command" \in Labels \ {"main", "ended"}
      /\ "execve" \in Labels \ {"main", "ended", "exit"}
  BY DEF Labels
<1>5. /\ at' \in [Procs -> Labels \cup {NONE}]
      /\ at'[p] = "command" /\ \A q \in Procs : q # p => at'[q] = at[q]
      /\ at'[Parent] # "main" /\ Forked' = Forked
      /\ LifeOK'
  BY <1>1, <1>4, GotoLife
<1>6. TypesOK'
  BY <1>1, <1>2, <1>5 DEF TypesOK
<1>7. LabelsOK'
  BY <1>1, <1>3, <1>5, Apart DEF Inv, LabelsOK, Sleepers
<1>8. StartOK'
  BY <1>5 DEF StartOK
<1>9. OutputsOK'
  <2> SUFFICES ASSUME NEW q \in Procs PROVE OutputOK(q)'
    BY DEF OutputsOK
  <2>1. OutputOK(q)
    BY DEF Inv, OutputsOK
  <2>2. CASE q = p
    <3>1. seen[p] = IF tty THEN printed[p] ELSE {}
      BY <1>1, <2>1, <2>2 DEF OutputOK
    <3>2. at'[p] # NONE /\ at'[p] # "ended" /\ p \in ran'
      BY <1>1, <1>4, <1>5, Apart
    <3> QED
      BY <1>1, <1>5, <2>2, <3>1, <3>2 DEF OutputOK
  <2>3. CASE q # p
    BY <1>1, <1>5, <2>1, <2>3 DEF OutputOK
  <2> QED
    BY <2>2, <2>3
<1>10. CommandOK'
  <2>1. Forked => at'[Parent] = at[Parent]
    BY <1>3, <1>5, Apart
  <2> QED
    BY <1>1, <1>5, <2>1 DEF Inv, CommandOK
<1>11. SleepersOK'
  BY <1>1, <1>3 DEF SleepersOK, Sleepers
<1> QED
  BY <1>5, <1>6, <1>7, <1>8, <1>9, <1>10, <1>11 DEF Inv

\* What is done after an execve that failed.
LEMMA AfterExecveKeepsInv ==
    ASSUME Inv, NEW p \in Procs, ExecveFail(p) \/ PauseEnds(p)
    PROVE  Inv'
<1> DEFINE m == at'[p]
<1>1. /\ at[p] \in {"execve", "pause"}
      /\ at' = [at EXCEPT ![p] = "pause"] \/ at' = [at EXCEPT ![p] = "exit"]
      /\ UNCHANGED <<argVars, procVars, outVars, role, clock, shown, ran>>
  BY DEF ExecveFail, PauseEnds, Goto
<1> USE DEF argVars, procVars, outVars
<1>2. TypesOK /\ at \in [Procs -> Labels \cup {NONE}]
  BY DEF Inv, TypesOK
<1>3. /\ prog \in {"forkcmd", "execve"}
      /\ p = Parent => ~Forked
      /\ p = Child => Forked /\ prog = "forkcmd"
      /\ at[p] = "pause" => prog = "execve"
  BY <1>1, AtExecve
<1>4. /\ m \in {"pause", "exit"} /\ at' = [at EXCEPT ![p] = m]
      /\ m = "pause" => prog = "execve"
      /\ prog = "forkcmd" => UNCHANGED code
  BY <1>2, <1>3 DEF ExecveFail, PauseEnds, Goto
<1>5. code' \in [Procs -> {0, 1}] /\ wake' \in [Procs -> Nat]
  <2>1. /\ code \in [Procs -> {0, 1}] /\ wake \in [Procs -> Nat]
        /\ clock + PAUSE \in Nat
    BY <1>2, TimesAssumption DEF TypesOK
  <2>2. /\ code' = code \/ code' = [code EXCEPT ![p] = 1]
        /\ wake' = wake \/ wake' = [wake EXCEPT ![p] = clock + PAUSE]
    BY DEF ExecveFail, PauseEnds
  <2> QED
    BY <2>1, <2>2
<1>6. /\ m \in Labels \ {"main", "ended", "command"}
      /\ at[p] \in Labels \ {"main", "ended", "command", "exit"}
      /\ {} \in SUBSET Texts /\ Say(p, {})
  BY <1>1, <1>2, <1>4, SayNothing DEF Labels
<1> HIDE DEF m
<1>7. /\ at' \in [Procs -> Labels \cup {NONE}]
      /\ at'[p] = m /\ \A q \in Procs : q # p => at'[q] = at[q]
      /\ at'[Parent] # "main" /\ Forked' = Forked
      /\ LifeOK' /\ OutputsOK'
  BY <1>1, <1>4, <1>6, MoveKeeps
<1>8. TypesOK'
  BY <1>1, <1>2, <1>5, <1>7 DEF TypesOK
<1>9. LabelsOK'
  BY <1>1, <1>3, <1>4, <1>7, Apart DEF Inv, LabelsOK, Sleepers
<1>10. StartOK'
  BY <1>7 DEF StartOK
<1>11. CommandOK'
  <2>1. Forked => at'[Parent] = at[Parent]
    BY <1>3, <1>7, Apart
  <2> QED
    BY <1>1, <1>4, <1>7, <2>1 DEF Inv, CommandOK
<1>12. SleepersOK'
  BY <1>1, <1>3 DEF SleepersOK, Sleepers
<1> QED
  BY <1>7, <1>8, <1>9, <1>10, <1>11, <1>12 DEF Inv

\* Wrong arguments end the program.
LEMMA UsageKeepsInv ==
    ASSUME Inv, Usage
    PROVE  Inv'
<1>1. /\ at[Parent] = "main" /\ prog # "execve"
      /\ at' = [at EXCEPT ![Parent] = "exit"] /\ Say(Parent, {"usage"})
      /\ code' = [code EXCEPT ![Parent] = 1]
      /\ UNCHANGED <<argVars, procVars, role, wake, clock, shown, ran>>
  BY DEF Usage, Goto
<1> USE DEF argVars, procVars
<1>2. TypesOK /\ ~Forked
  BY <1>1 DEF Inv, LifeOK
<1>3. /\ {"usage"} \in SUBSET Texts
      /\ "exit" \in Labels \ {"ended", "command"}
      /\ "main" \in Labels \ {"ended", "command"}
  BY DEF Texts, Labels
<1>4. /\ at' \in [Procs -> Labels \cup {NONE}]
      /\ at'[Parent] = "exit" /\ \A q \in Procs : q # Parent => at'[q] = at[q]
      /\ printed' \in [Procs -> SUBSET Texts]
      /\ seen' \in [Procs -> SUBSET Texts]
      /\ printed'[Parent] = printed[Parent] \cup {"usage"}
      /\ OutputsOK'
  BY <1>1, <1>3, MoveOutput, Apart
<1>5. at'[Child] = at[Child] /\ ~Forked' /\ code'[Child] = code[Child]
  BY <1>1, <1>2, <1>4, Apart DEF Forked, TypesOK
<1>6. TypesOK'
  BY <1>1, <1>2, <1>4 DEF TypesOK
<1>7. LifeOK'
  BY <1>1, <1>2, <1>3, <1>4, <1>5, Apart DEF Inv, LifeOK
<1>8. LabelsOK'
  BY <1>1, <1>4, <1>5, Apart DEF Inv, LabelsOK, Sleepers
<1>9. StartOK'
  BY <1>4 DEF StartOK
<1>10. CommandOK'
  BY <1>1, <1>2, <1>4, <1>5 DEF Inv, CommandOK
<1>11. SleepersOK'
  BY <1>5 DEF SleepersOK
<1> QED
  BY <1>4, <1>6, <1>7, <1>8, <1>9, <1>10, <1>11 DEF Inv

\* The branch of the child in the only process: fork failed, or execve.c.
LEMMA AsChildKeepsInv ==
    ASSUME Inv, ForkFail \/ ExecveMain
    PROVE  Inv'
<1>1. /\ at[Parent] = "main" /\ at' = [at EXCEPT ![Parent] = "begin"]
      /\ role' = [role EXCEPT ![Parent] = Child]
      /\ UNCHANGED <<argVars, procVars, outVars, wake, code, clock, shown, ran>>
  BY DEF ForkFail, ExecveMain, AsChild, Goto
<1> USE DEF argVars, procVars, outVars
<1>2. TypesOK /\ ~Forked
  BY <1>1 DEF Inv, LifeOK
<1>3. /\ {} \in SUBSET Texts /\ Say(Parent, {})
      /\ "begin" \in Labels \ {"ended", "command"}
      /\ "main" \in Labels \ {"ended", "command"}
  BY <1>1, <1>2, SayNothing, Apart DEF Labels
<1>4. /\ at' \in [Procs -> Labels \cup {NONE}]
      /\ at'[Parent] = "begin" /\ \A q \in Procs : q # Parent => at'[q] = at[q]
      /\ OutputsOK'
  BY <1>1, <1>3, MoveOutput, Apart
<1>5. at'[Child] = at[Child] /\ ~Forked' /\ role'[Parent] = Child
  BY <1>1, <1>2, <1>4, Apart DEF Forked, TypesOK
<1>6. TypesOK'
  <2>1. role' \in [Procs -> Procs \cup {NONE}]
    BY <1>1, <1>2, Apart DEF TypesOK
  <2> QED
    BY <1>1, <1>2, <1>4, <2>1 DEF TypesOK
<1>7. LifeOK'
  BY <1>1, <1>2, <1>3, <1>4, <1>5, Apart DEF Inv, LifeOK
<1>8. LabelsOK'
  BY <1>1, <1>4, <1>5, Apart DEF Inv, LabelsOK, Sleepers
<1>9. StartOK'
  BY <1>4 DEF StartOK
<1>10. CommandOK'
  BY <1>1, <1>2, <1>4, <1>5 DEF Inv, CommandOK
<1>11. SleepersOK'
  BY <1>5 DEF SleepersOK
<1> QED
  BY <1>4, <1>6, <1>7, <1>8, <1>9, <1>10, <1>11 DEF Inv

\* fork makes the child a copy of its parent.
LEMMA ForkKeepsInv ==
    ASSUME Inv, Fork
    PROVE  Inv'
<1>1. /\ at[Parent] = "main" /\ prog # "execve"
      /\ life' = [life EXCEPT ![Child] = "alive"]
      /\ ppid' = [ppid EXCEPT ![Child] = Parent]
      /\ role' = [p \in Procs |-> p]
      /\ at' = [p \in Procs |-> "begin"]
      /\ UNCHANGED <<argVars, outVars, fate, wake, code, clock, shown, ran>>
  BY DEF Fork
<1> USE DEF argVars, outVars
<1>2. TypesOK
  BY DEF Inv
<1>3. /\ clock = 0 /\ fate = {} /\ shown = NONE /\ ran = {}
      /\ \A p \in Procs : printed[p] = {} /\ code[p] = 0
  BY <1>1 DEF Inv, StartOK
<1>4. /\ \A p \in Procs : at'[p] = "begin" /\ role'[p] = p
      /\ life'[Child] = "alive" /\ life'[Parent] = life[Parent]
      /\ ppid'[Child] = Parent /\ ppid'[Parent] = ppid[Parent]
      /\ Forked'
  BY <1>1, <1>2, Apart DEF TypesOK, Forked
<1>5. "begin" \in Labels /\ "alive" \in Lives
  BY DEF Labels, Lives
<1>6. TypesOK'
  <2>1. /\ role' \in [Procs -> Procs \cup {NONE}]
        /\ at' \in [Procs -> Labels \cup {NONE}]
        /\ life' \in [Procs -> Lives]
        /\ ppid' \in [Procs -> {Parent, Init1, Shell, NONE}]
    BY <1>1, <1>2, <1>5 DEF TypesOK
  <2> QED
    BY <1>1, <1>2, <2>1 DEF TypesOK
<1>7. LifeOK'
  BY <1>1, <1>4, <1>5, Apart DEF Inv, LifeOK
<1>8. LabelsOK'
  BY <1>1, <1>4, Apart DEF LabelsOK
<1>9. StartOK'
  BY <1>4, Apart DEF StartOK
<1>10. OutputsOK'
  <2> SUFFICES ASSUME NEW q \in Procs PROVE OutputOK(q)'
    BY DEF OutputsOK
  <2>1. seen[q] = {} /\ printed[q] = {}
    BY <1>3 DEF Inv, OutputsOK, OutputOK
  <2> QED
    BY <1>1, <1>3, <1>4, <1>5, <2>1, Apart DEF OutputOK
<1>11. CommandOK'
  BY <1>1, <1>3, <1>4, Apart DEF CommandOK
<1>12. SleepersOK'
  <2>1. \A q \in Procs : ClockOK(q)'
    BY <1>1, <1>3, <1>4 DEF ClockOK
  <2>2. FateOK'
    BY <1>1, <1>3, <1>4, Apart DEF FateOK
  <2> QED
    BY <2>1, <2>2 DEF SleepersOK
<1> QED
  BY <1>6, <1>7, <1>8, <1>9, <1>10, <1>11, <1>12 DEF Inv

\* The kernel's side of the end of a process: its child becomes an orphan, or
\* goes if it was a zombie; and it becomes a zombie itself if its parent has
\* not ended.
LEMMA DieKeepsLife ==
    ASSUME Inv, NEW p \in Procs,
           at[p] \in Labels \ {"main", "ended"}, Die(p),
           at' = [at EXCEPT ![p] = "ended"], UNCHANGED role
    PROVE  /\ at' \in [Procs -> Labels \cup {NONE}]
           /\ at'[p] = "ended" /\ \A q \in Procs : q # p => at'[q] = at[q]
           /\ life' \in [Procs -> Lives]
           /\ ppid' \in [Procs -> {Parent, Init1, Shell, NONE}]
           /\ fate' \subseteq {"orphan", "zombie"}
           /\ Forked' = Forked /\ at'[Parent] # "main"
           /\ p = Child => Forked
           /\ p = Parent => life'[Child] = IF life[Child] = "zombie" THEN "gone"
                                           ELSE life[Child]
           /\ p = Child => life'[Child] = IF at[Parent] = "ended" THEN "gone"
                                          ELSE "zombie"
           /\ fate' = fate \cup IF p = Parent
                THEN IF life[Child] = "alive" THEN {"orphan"} ELSE {}
                ELSE IF at[Parent] = "ended" THEN {} ELSE {"zombie"}
           /\ LifeOK'
<1>1. /\ at \in [Procs -> Labels \cup {NONE}] /\ life \in [Procs -> Lives]
      /\ ppid \in [Procs -> {Parent, Init1, Shell, NONE}]
      /\ fate \subseteq {"orphan", "zombie"}
  BY DEF Inv, TypesOK
<1>2. at'[p] = "ended" /\ \A q \in Procs : q # p => at'[q] = at[q]
  BY <1>1
<1>3. at' \in [Procs -> Labels \cup {NONE}]
  <2>1. "ended" \in Labels
    BY DEF Labels
  <2> QED
    BY <1>1, <2>1
<1>4. p = Child => Forked /\ at[Child] # NONE
  BY Apart DEF Inv, LifeOK, Forked
<1>5. CASE p = Parent
  <2>1. /\ life' = [life EXCEPT ![Parent] = "gone",
                       ![Child] = IF @ = "zombie" THEN "gone" ELSE @]
        /\ ppid' = [ppid EXCEPT ![Child] = IF @ = Parent THEN Init1 ELSE @]
        /\ fate' = IF life[Child] = "alive" THEN fate \cup {"orphan"} ELSE fate
    BY <1>5 DEF Die
  <2>2. /\ life'[Parent] = "gone"
        /\ life'[Child] = IF life[Child] = "zombie" THEN "gone" ELSE life[Child]
        /\ ppid'[Child] = IF ppid[Child] = Parent THEN Init1 ELSE ppid[Child]
        /\ ppid'[Parent] = ppid[Parent]
    BY <1>1, <2>1, Apart
  <2>3. life' \in [Procs -> Lives]
    <3>1. "gone" \in Lives
      BY DEF Lives
    <3> QED
      BY <1>1, <2>1, <3>1, Apart
  <2>4. ppid' \in [Procs -> {Parent, Init1, Shell, NONE}]
    BY <1>1, <2>1, Apart
  <2>5. Forked' = Forked
    BY <2>2 DEF Forked
  <2>6. at'[Child] = at[Child] /\ at'[Parent] = "ended"
    BY <1>2, <1>5, Apart
  <2>7. Forked => ppid'[Child] = Init1
    BY <1>5, <2>2 DEF Inv, LifeOK
  <2>8. ~Forked => ppid'[Child] = NONE
    BY <2>2, Apart DEF Inv, LifeOK
  <2>9. LifeOK'
    <3>1. "ended" \in Labels
      BY DEF Labels
    <3> QED
      BY <2>2, <2>5, <2>6, <2>7, <2>8, <3>1, Apart DEF Inv, LifeOK
  <2> QED
    BY <1>1, <1>2, <1>3, <1>5, <2>1, <2>2, <2>3, <2>4, <2>5, <2>6, <2>9, Apart
<1>6. CASE p = Child
  <2>1. /\ life' = [life EXCEPT ![Child] =
                       IF ppid[Child] = Parent THEN "zombie" ELSE "gone"]
        /\ fate' = IF ppid[Child] = Parent THEN fate \cup {"zombie"} ELSE fate
        /\ ppid' = ppid
    BY <1>6, Apart DEF Die
  <2>2. Forked /\ (ppid[Child] = Parent <=> at[Parent] # "ended")
    BY <1>4, <1>6, Apart DEF Inv, LifeOK
  <2>3. /\ life'[Child] = IF at[Parent] = "ended" THEN "gone" ELSE "zombie"
        /\ life'[Parent] = life[Parent]
    BY <1>1, <2>1, <2>2, Apart
  <2>4. life' \in [Procs -> Lives]
    <3>1. "gone" \in Lives /\ "zombie" \in Lives
      BY DEF Lives
    <3> QED
      BY <1>1, <2>1, <3>1
  <2>5. Forked' /\ at'[Parent] = at[Parent] /\ at'[Child] = "ended"
    BY <1>2, <1>6, <2>3, Apart DEF Forked
  <2>6. LifeOK'
    <3>1. "ended" \in Labels
      BY DEF Labels
    <3> QED
      BY <2>1, <2>2, <2>3, <2>5, <3>1, Apart DEF Inv, LifeOK
  <2>7. at'[Parent] # "main"
    BY <2>2, <2>5 DEF Inv, LifeOK
  <2> QED
    BY <1>1, <1>2, <1>3, <1>4, <1>6, <2>1, <2>2, <2>3, <2>4, <2>5, <2>6, <2>7, Apart
<1> QED
  BY <1>5, <1>6, Apart

\* The end of a process: stdio is flushed, its child goes to init.
LEMMA ExitKeepsInv ==
    ASSUME Inv, NEW p \in Procs, Exit(p)
    PROVE  Inv'
<1>1. /\ at[p] = "exit" /\ seen' = [seen EXCEPT ![p] = printed[p]] /\ Die(p)
      /\ at' = [at EXCEPT ![p] = "ended"]
      /\ UNCHANGED <<argVars, role, wake, code, clock, printed, shown, ran>>
  BY DEF Exit, Flush, Goto
<1> USE DEF argVars
<1>2. TypesOK
  BY DEF Inv
<1>3. "exit" \in Labels \ {"main", "ended"} /\ "ended" \in Labels
  BY DEF Labels
<1>4. /\ at' \in [Procs -> Labels \cup {NONE}]
      /\ at'[p] = "ended" /\ \A q \in Procs : q # p => at'[q] = at[q]
      /\ life' \in [Procs -> Lives]
      /\ ppid' \in [Procs -> {Parent, Init1, Shell, NONE}]
      /\ fate' \subseteq {"orphan", "zombie"}
      /\ Forked' = Forked /\ at'[Parent] # "main"
      /\ p = Child => Forked
      /\ p = Parent => life'[Child] = IF life[Child] = "zombie" THEN "gone"
                                      ELSE life[Child]
      /\ p = Child => life'[Child] = IF at[Parent] = "ended" THEN "gone"
                                     ELSE "zombie"
      /\ fate' = fate \cup IF p = Parent
           THEN IF life[Child] = "alive" THEN {"orphan"} ELSE {}
           ELSE IF at[Parent] = "ended" THEN {} ELSE {"zombie"}
      /\ LifeOK'
  BY <1>1, <1>3, DieKeepsLife
<1>5. TypesOK'
  <2>1. seen' \in [Procs -> SUBSET Texts]
    BY <1>1, <1>2 DEF TypesOK
  <2> QED
    BY <1>1, <1>2, <1>4, <2>1 DEF TypesOK
<1>6. LabelsOK'
  BY <1>1, <1>4, Apart DEF Inv, LabelsOK, Sleepers
<1>7. StartOK'
  BY <1>4 DEF StartOK
<1>8. OutputsOK'
  <2> SUFFICES ASSUME NEW q \in Procs PROVE OutputOK(q)'
    BY DEF OutputsOK
  <2>1. OutputOK(q)
    BY DEF Inv, OutputsOK
  <2>2. CASE q = p
    <3>1. seen'[p] = printed[p]
      BY <1>1, <1>2 DEF TypesOK
    <3>2. p \notin ran
      BY <1>1, <2>1, <2>2 DEF OutputOK
    <3> QED
      BY <1>1, <1>3, <1>4, <2>2, <3>1, <3>2, Apart DEF OutputOK
  <2>3. CASE q # p
    <3>1. seen'[q] = seen[q]
      BY <1>1, <1>2, <2>3 DEF TypesOK
    <3> QED
      BY <1>1, <1>4, <2>1, <2>3, <3>1 DEF OutputOK
  <2> QED
    BY <2>2, <2>3
<1>9. CommandOK'
  <2> SUFFICES ASSUME prog = "forkcmd" PROVE CommandOK'
    BY <1>1 DEF CommandOK
  <2>1. CASE p = Parent
    <3>1. Forked => life[Child] = "gone"
      BY <1>1, <2>1 DEF Inv, CommandOK
    <3>2. life[Child] # "alive"
      BY <3>1 DEF Forked
    <3>3. fate' = fate /\ (Forked => life'[Child] = "gone")
      BY <1>4, <2>1, <3>1, <3>2
    <3> QED
      BY <1>1, <1>4, <2>1, <3>3 DEF Inv, CommandOK
  <2>2. CASE p = Child
    <3>1. life[Child] # "gone"
      BY <1>1, <1>3, <2>2, Apart DEF Inv, LifeOK
    <3>2. at'[Parent] = at[Parent] /\ at[Parent] \notin {"exit", "ended"}
      BY <1>4, <2>2, <3>1, Apart DEF Inv, CommandOK
    <3>3. "orphan" \notin fate'
      BY <1>4, <2>2, Apart DEF Inv, CommandOK
    <3> QED
      BY <1>1, <1>4, <3>2, <3>3 DEF Inv, CommandOK
  <2> QED
    BY <2>1, <2>2, Apart
<1>10. SleepersOK'
  <2> SUFFICES ASSUME prog \in Sleepers, Forked
               PROVE  FateOK' /\ \A q \in Procs : ClockOK(q)'
    BY <1>1, <1>4 DEF SleepersOK
  <2>1. FateOK /\ \A q \in Procs : ClockOK(q)
    BY DEF Inv, SleepersOK
  <2>2. /\ \A q \in Procs : Sleep(q)' = Sleep(q)
        /\ Sleep(Parent)' = Sleep(Parent) /\ Sleep(Child)' = Sleep(Child)
    BY <1>1, Apart DEF Sleep, SleepTime
  <2>3. /\ Sleep(Parent) \in Nat /\ Sleep(Child) \in Nat /\ clock \in Nat
        /\ clock = Sleep(p)
    BY <1>1, <2>1, InTime, Apart DEF ClockOK
  <2>4. ASSUME NEW q \in Procs PROVE ClockOK(q)'
    <3>1. CASE q = p
      BY <1>1, <1>4, <2>1, <2>2, <2>3, <3>1 DEF ClockOK
    <3>2. CASE q # p
      BY <1>1, <1>4, <2>1, <2>2, <3>2 DEF ClockOK
    <3> QED
      BY <3>1, <3>2
  <2>5. CASE p = Parent
    <3>1. at'[Parent] = "ended" /\ at'[Child] = at[Child]
      BY <1>4, <2>5, Apart
    <3>2. Sleep(Parent) < Sleep(Child) => life[Child] = "alive"
      <4>1. Sleep(Parent) < Sleep(Child) => at[Child] \in {"begin", "sleep"}
        BY <2>3, <2>5, InTime, Apart
      <4>2. "begin" \in Labels /\ "sleep" \in Labels
        BY DEF Labels
      <4> QED
        BY <4>1, <4>2, Apart DEF Inv, LifeOK
    <3>3. Sleep(Child) < Sleep(Parent) => at[Child] = "ended" /\ life[Child] # "alive"
      <4>1. Sleep(Child) < Sleep(Parent) => at[Child] = "ended"
        BY <2>3, <2>5, InTime, Apart
      <4> QED
        BY <4>1 DEF Inv, LifeOK
    <3>4. Sleep(Parent) < Sleep(Child) => fate' = {"orphan"}
      BY <1>1, <1>4, <2>1, <2>5, <3>2 DEF FateOK
    <3>5. Sleep(Child) < Sleep(Parent) => fate' = {"zombie"}
      BY <1>4, <2>1, <2>5, <3>3 DEF FateOK
    <3>6. FateOK'
      BY <1>1, <2>1, <2>2, <3>1, <3>3, <3>4, <3>5 DEF FateOK
    <3> QED
      BY <2>4, <3>6
  <2>6. CASE p = Child
    <3>1. at'[Child] = "ended" /\ at'[Parent] = at[Parent]
      BY <1>4, <2>6, Apart
    <3>2. Sleep(Parent) < Sleep(Child) => at[Parent] = "ended"
      BY <2>3, <2>6, InTime, Apart
    <3>3. Sleep(Child) < Sleep(Parent) => at[Parent] # "ended"
      BY <2>3, <2>6, InTime, Apart
    <3>4. Sleep(Parent) < Sleep(Child) => fate' = {"orphan"}
      BY <1>4, <2>1, <2>6, <3>2, Apart DEF FateOK
    <3>5. Sleep(Child) < Sleep(Parent) => fate' = {"zombie"}
      BY <1>1, <1>4, <2>1, <2>6, <3>3, Apart DEF FateOK
    <3>6. life'[Child] = "gone" => at'[Parent] = "ended"
      BY <1>4, <2>6, <3>1
    <3>7. FateOK'
      BY <1>1, <2>1, <2>2, <3>1, <3>2, <3>4, <3>5, <3>6 DEF FateOK
    <3> QED
      BY <2>4, <3>7
  <2> QED
    BY <2>5, <2>6, Apart
<1> QED
  BY <1>4, <1>5, <1>6, <1>7, <1>8, <1>9, <1>10 DEF Inv

\* A command that was executed ends.
LEMMA CommandEndsKeepsInv ==
    ASSUME Inv, NEW p \in Procs, CommandEnds(p)
    PROVE  Inv'
<1>1. /\ at[p] = "command" /\ Die(p)
      /\ at' = [at EXCEPT ![p] = "ended"]
      /\ UNCHANGED <<argVars, outVars, role, wake, clock, shown, ran>>
  BY DEF CommandEnds, Goto
<1>2. PICK c \in {0, 1} : code' = [code EXCEPT ![p] = c]
  BY DEF CommandEnds
<1> USE DEF argVars, outVars
<1>3. TypesOK
  BY DEF Inv
<1>4. "command" \in Labels \ {"main", "ended"} /\ "ended" \in Labels
  BY DEF Labels
<1>5. /\ at' \in [Procs -> Labels \cup {NONE}]
      /\ at'[p] = "ended" /\ \A q \in Procs : q # p => at'[q] = at[q]
      /\ life' \in [Procs -> Lives]
      /\ ppid' \in [Procs -> {Parent, Init1, Shell, NONE}]
      /\ fate' \subseteq {"orphan", "zombie"}
      /\ Forked' = Forked /\ at'[Parent] # "main"
      /\ p = Child => Forked
      /\ p = Parent => life'[Child] = IF life[Child] = "zombie" THEN "gone"
                                      ELSE life[Child]
      /\ p = Child => life'[Child] = IF at[Parent] = "ended" THEN "gone"
                                     ELSE "zombie"
      /\ fate' = fate \cup IF p = Parent
           THEN IF life[Child] = "alive" THEN {"orphan"} ELSE {}
           ELSE IF at[Parent] = "ended" THEN {} ELSE {"zombie"}
      /\ LifeOK'
  BY <1>1, <1>4, DieKeepsLife
<1>6. prog \in {"forkcmd", "execve"} /\ (p = Parent => ~Forked)
  BY <1>1, AtExecve
<1>7. code' \in [Procs -> {0, 1}] /\ \A q \in Procs : q # p => code'[q] = code[q]
  BY <1>2, <1>3 DEF TypesOK
<1>8. TypesOK'
  BY <1>1, <1>3, <1>5, <1>7 DEF TypesOK
<1>9. LabelsOK'
  BY <1>1, <1>5, <1>6, Apart DEF Inv, LabelsOK, Sleepers
<1>10. StartOK'
  BY <1>5 DEF StartOK
<1>11. p \in ran
  BY <1>1 DEF Inv, OutputsOK, OutputOK
<1>12. OutputsOK'
  <2> SUFFICES ASSUME NEW q \in Procs PROVE OutputOK(q)'
    BY DEF OutputsOK
  <2>1. OutputOK(q)
    BY DEF Inv, OutputsOK
  <2>2. CASE q = p
    <3>1. seen[p] = IF tty THEN printed[p] ELSE {}
      BY <1>1, <2>1, <2>2 DEF OutputOK
    <3> QED
      BY <1>1, <1>4, <1>5, <1>11, <2>2, <3>1, Apart DEF OutputOK
  <2>3. CASE q # p
    BY <1>1, <1>5, <2>1, <2>3 DEF OutputOK
  <2> QED
    BY <2>2, <2>3
<1>13. CommandOK'
  <2> SUFFICES ASSUME prog = "forkcmd" PROVE CommandOK'
    BY <1>1 DEF CommandOK
  <2>1. CASE p = Parent
    <3>1. ~Forked /\ life[Child] # "alive"
      BY <1>6, <2>1 DEF Forked
    <3>2. fate' = fate /\ code'[Child] = code[Child]
      BY <1>5, <1>7, <2>1, <3>1, Apart
    <3> QED
      BY <1>1, <1>5, <3>1, <3>2 DEF Inv, CommandOK
  <2>2. CASE p = Child
    <3>1. life[Child] # "gone"
      BY <1>1, <1>4, <2>2, Apart DEF Inv, LifeOK
    <3>2. at'[Parent] = at[Parent] /\ at[Parent] \notin {"exit", "ended"}
      BY <1>5, <2>2, <3>1, Apart DEF Inv, CommandOK
    <3>3. "error" \notin printed[Parent] /\ "normally" \notin printed[Parent]
      BY <3>2 DEF Inv, CommandOK
    <3>4. "orphan" \notin fate'
      BY <1>5, <2>2, Apart DEF Inv, CommandOK
    <3> QED
      BY <1>1, <1>11, <2>2, <3>2, <3>3, <3>4 DEF CommandOK
  <2> QED
    BY <2>1, <2>2, Apart
<1>14. SleepersOK'
  BY <1>1, <1>6 DEF SleepersOK, Sleepers
<1> QED
  BY <1>5, <1>8, <1>9, <1>10, <1>12, <1>13, <1>14 DEF Inv

\* A second passes while every process sleeps, waits or runs a command.
LEMMA TickKeepsInv ==
    ASSUME Inv, Tick
    PROVE  Inv'
<1>1. /\ \A p \in Procs : LetsTimePass(p)
      /\ clock' = clock + 1
      /\ UNCHANGED <<argVars, procVars, outVars, role, at, wake, code, shown, ran>>
  BY DEF Tick
<1> USE DEF argVars, procVars, outVars
<1>2. TypesOK
  BY DEF Inv
<1>3. TypesOK'
  <2>1. clock' \in Nat
    BY <1>1, <1>2 DEF TypesOK
  <2> QED
    BY <1>1, <1>2, <2>1 DEF TypesOK
<1>4. LifeOK' /\ LabelsOK'
  BY <1>1 DEF Inv, LifeOK, LabelsOK, Forked
<1>5. StartOK'
  <2>1. at[Parent] # "main"
    BY <1>1, Apart DEF LetsTimePass, Asleep, Labels
  <2> QED
    BY <1>1, <2>1 DEF StartOK
<1>6. OutputsOK' /\ CommandOK'
  BY <1>1 DEF Inv, OutputsOK, OutputOK, CommandOK, Forked
<1>7. SleepersOK'
  <2> SUFFICES ASSUME prog \in Sleepers, Forked
               PROVE  FateOK' /\ \A q \in Procs : ClockOK(q)'
    BY <1>1 DEF SleepersOK, Forked
  <2>1. FateOK /\ \A q \in Procs : ClockOK(q)
    BY DEF Inv, SleepersOK
  <2>2. FateOK' /\ \A q \in Procs : Sleep(q)' = Sleep(q)
    BY <1>1, <2>1, FateStays
  <2>3. ASSUME NEW q \in Procs PROVE ClockOK(q)'
    <3>1. at[q] \in {NONE, "ended", "command", "wait"} \/ (at[q] = "sleep" /\ clock < wake[q])
          \/ at[q] = "pause"
      BY <1>1 DEF LetsTimePass, Asleep
    <3>2. at[q] = "ended" \/ (at[q] = "sleep" /\ clock < wake[q])
      <4>1. at[q] \in {NONE, "main", "begin", "sleep", "ps", "exit", "ended"}
        BY DEF Inv, LabelsOK
      <4>2. at[q] # NONE
        BY Apart DEF Inv, LifeOK, Forked
      <4> QED
        BY <3>1, <4>1, <4>2
    <3>3. Sleep(q) \in Nat /\ clock \in Nat
      BY InTime
    <3> QED
      BY <1>1, <2>1, <2>2, <3>2, <3>3 DEF ClockOK
  <2> QED
    BY <2>2, <2>3
<1> QED
  BY <1>3, <1>4, <1>5, <1>6, <1>7 DEF Inv

\* Every step keeps the invariant.
LEMMA NextKeepsInv == Inv /\ [Next]_vars => Inv'
<1> SUFFICES ASSUME Inv, [Next]_vars PROVE Inv'
  OBVIOUS
<1>1. CASE UNCHANGED vars
  <2> USE <1>1 DEF vars, argVars, procVars, outVars
  <2>1. TypesOK' /\ LifeOK' /\ LabelsOK' /\ StartOK'
    BY DEF Inv, TypesOK, LifeOK, LabelsOK, StartOK, Forked
  <2>2. OutputsOK' /\ CommandOK'
    BY DEF Inv, OutputsOK, OutputOK, CommandOK, Forked
  <2>3. \A q \in Procs : Sleep(q)' = Sleep(q)
    BY DEF Sleep, SleepTime
  <2>4. SleepersOK'
    BY <2>3, Apart DEF Inv, SleepersOK, FateOK, ClockOK, Forked
  <2> QED
    BY <2>1, <2>2, <2>4 DEF Inv
<1>2. CASE ParentStep
  BY <1>2, UsageKeepsInv, ForkKeepsInv, AsChildKeepsInv, SystemPsKeepsInv,
     ParentWaitKeepsInv, WaitpidKeepsInv DEF ParentStep
<1>3. CASE \E p \in Procs : ProcStep(p)
  BY <1>3, FallAsleepKeepsInv, WakeUpKeepsInv, ExitKeepsInv, BeforeExecKeepsInv,
     ExecveKeepsInv, AfterExecveKeepsInv, CommandEndsKeepsInv DEF ProcStep
<1>4. CASE Tick
  BY <1>4, TickKeepsInv
<1> QED
  BY <1>1, <1>2, <1>3, <1>4 DEF Next, Done

\* The invariant holds in every behaviour.
LEMMA Invariance == Spec => []Inv
<1> QED
  BY InitInv, NextKeepsInv, PTL DEF Spec

-----------------------------------------------------------------------------
(* The theorems *)

\* For all times of type int: when they are not negative the child of the
\* sleeping programs ends the way that was announced, an orphan with different
\* times prints the PPID of its new parent, and ps displays a zombie; and in
\* OrphanZombie2 a process given a negative time ends last.
THEOREM FateIsAnnounced == Spec => []AnnouncedFate
<1>1. Inv => AnnouncedFate
  <2> SUFFICES ASSUME Inv, prog \in Sleepers, Forked
               PROVE  AnnouncedFate
    BY DEF AnnouncedFate
  <2>1. FateOK
    BY DEF Inv, SleepersOK
  <2>2. /\ parenttime \in Int /\ childtime \in Int /\ UINT_MOD \in Nat
        /\ -UINT_MOD =< 2 * parenttime /\ 2 * parenttime < UINT_MOD
        /\ -UINT_MOD =< 2 * childtime /\ 2 * childtime < UINT_MOD
    BY TimesAssumption DEF Inv, TypesOK
  <2>3. /\ Sleep(Parent) \in Nat
        /\ 0 =< SleepTime(Parent) => Sleep(Parent) = SleepTime(Parent)
        /\ SleepTime(Parent) < 0 => Sleep(Parent) = SleepTime(Parent) + UINT_MOD
    BY SleepIs, Apart DEF Inv, TypesOK
  <2>4. /\ Sleep(Child) \in Nat
        /\ 0 =< SleepTime(Child) => Sleep(Child) = SleepTime(Child)
        /\ SleepTime(Child) < 0 => Sleep(Child) = SleepTime(Child) + UINT_MOD
    BY SleepIs, Apart DEF Inv, TypesOK
  <2>5. SleepTime(Parent) = IF prog = "OrphanZombie2" \/ parenttime < childtime
                            THEN parenttime ELSE childtime + 1
    BY <2>2, Apart DEF SleepTime
  <2>6. SleepTime(Child) = IF prog = "OrphanZombie2" \/ parenttime > childtime
                           THEN childtime ELSE parenttime + 1
    BY <2>2, Apart DEF SleepTime
  <2>7. (parenttime >= 0 /\ childtime >= 0) =>
          /\ parenttime < childtime => Sleep(Parent) < Sleep(Child)
          /\ parenttime > childtime => Sleep(Child) < Sleep(Parent)
    BY <2>2, <2>3, <2>4, <2>5, <2>6
  <2>8. prog = "OrphanZombie2" =>
          /\ (parenttime < 0 /\ childtime >= 0) => Sleep(Child) < Sleep(Parent)
          /\ (childtime < 0 /\ parenttime >= 0) => Sleep(Parent) < Sleep(Child)
    BY <2>2, <2>3, <2>4, <2>5, <2>6
  <2>9. Over => at[Parent] = "ended" /\ at[Child] = "ended"
    BY Apart DEF Over, Inv, LifeOK, Forked
  <2>10. Over => /\ Sleep(Parent) < Sleep(Child) => fate = {"orphan"}
                 /\ Sleep(Child) < Sleep(Parent) => fate = {"zombie"}
    BY <2>1, <2>9 DEF FateOK
  <2>11. ASSUME parenttime >= 0, childtime >= 0
         PROVE  /\ (Over /\ "becoming orphan" \in printed[Parent]) => fate = {"orphan"}
                /\ (Over /\ "becoming zombie" \in printed[Child]) => fate = {"zombie"}
                /\ parenttime # childtime => OrphanOf[Parent] \notin printed[Child]
                /\ childtime < parenttime => shown \in {NONE, "zombie"}
    <3>1. parenttime # childtime => parenttime < childtime \/ parenttime > childtime
      BY <2>2
    <3>2. childtime < parenttime => parenttime > childtime
      BY <2>2
    <3> QED
      BY <2>1, <2>7, <2>10, <2>11, <3>1, <3>2 DEF FateOK
  <2> QED
    BY <2>8, <2>10, <2>11 DEF AnnouncedFate
<1> QED
  BY <1>1, Invariance, PTL

\* The parent of forkcmd always reaps its child, which is never an orphan, and
\* reports an error exactly for a command that ran and failed.
THEOREM ReportIsRight == Spec => []CommandReported
<1>1. Inv => CommandReported
  <2> SUFFICES ASSUME Inv, prog = "forkcmd" PROVE CommandReported
    BY DEF CommandReported
  <2>1. life[Parent] = "gone" => at[Parent] = "ended"
    BY DEF Inv, LifeOK
  <2> QED
    BY <2>1 DEF Inv, CommandOK, CommandReported
<1> QED
  BY <1>1, Invariance, PTL

\* Nothing that was printed is lost, except what stdio still held of a process
\* that execve replaced when stdout is not a terminal.
THEOREM NothingLost == Spec => []OutputKept
<1>1. Inv => OutputKept
  <2> SUFFICES ASSUME Inv, Over, NEW p \in Procs
               PROVE  seen[p] = IF p \in ran /\ ~tty THEN {} ELSE printed[p]
    BY DEF OutputKept
  <2>1. OutputOK(p)
    BY DEF Inv, OutputsOK
  <2>2. at[p] = "ended" \/ at[p] = NONE
    BY Apart DEF Over, Inv, LifeOK
  <2>3. CASE at[p] = "ended"
    BY <2>1, <2>3 DEF OutputOK
  <2>4. CASE at[p] = NONE
    <3>1. printed[p] = {}
      BY <2>1, <2>4 DEF OutputOK
    <3>2. seen[p] = {}
      BY <2>1, <3>1 DEF OutputOK
    <3> QED
      BY <3>1, <3>2
  <2> QED
    BY <2>2, <2>3, <2>4
<1> QED
  BY <1>1, Invariance, PTL

=============================================================================
