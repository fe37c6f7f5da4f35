----------------------------- MODULE SigHandler -----------------------------
(***************************************************************************)
(* The signal library of libraries/sig_handlers/sig_handler_lib.c: the     *)
(* flag gb_is_running, the mutex around it, the handler that clears it,    *)
(* and the calls that change a thread's signal mask.                       *)
(*                                                                         *)
(* A signal interrupts a thread between any two of its steps: the handler  *)
(* then runs on top of what it interrupted, with its own signal blocked,   *)
(* and may be interrupted in turn.  Kernel and callers are environment.    *)
(* With Masked the callers keep to a discipline the library does not ask   *)
(* for: a thread blocks the stop signals while it is in a call that takes  *)
(* the mutex, it leaves at most MaxOpen of them unblocked at other times,  *)
(* and the first thread establishes the handlers for them before it starts *)
(* the others.  Further handlers may be established later, by any thread.  *)
(***************************************************************************)
EXTENDS Integers, Sequences, FiniteSets

CONSTANTS
    Threads, Main,  \* the threads, and the first of them
    Signals,        \* the valid signal numbers in use
    StopSignals,    \* SIGINT and SIGQUIT
    Masked,         \* whether the callers keep to the discipline
    MaxOpen,        \* how many stop signals a disciplined thread unblocks
    MaxRaise,       \* bound on the number of signals sent
    NULL

ASSUME SignalAssumption ==
    /\ Main \in Threads
    /\ StopSignals \subseteq Signals
    /\ Masked \in BOOLEAN
    /\ MaxOpen \in Nat
    /\ MaxRaise \in Nat
    /\ IsFiniteSet(Signals)
    /\ NULL \notin Threads \X Nat

VARIABLES
    gb_is_running,  \* the flag
    mutex,          \* gb_is_running_mutex: NULL, or holder and its level
    installed,      \* the signals with signal_handler as their handler
    mask,           \* the signal mask of each thread
    pending,        \* the signals sent to the process and not delivered
    call,           \* the library function each thread is in
    at,             \* where each thread is in it
    handlers,       \* the handlers stacked on each thread, innermost last
    rc,             \* the last result of each thread
    phase,          \* setup, serve, or killed by a signal without a handler
    stopped,        \* whether a stop signal was sent or stop_program called
    late,           \* whether a handler was established after the start
    raised          \* how many signals were sent

flagVars   == <<gb_is_running, stopped>>
kernelVars == <<installed, pending, raised, late>>
threadVars == <<call, at, rc>>
vars == <<flagVars, kernelVars, threadVars, mutex, mask, handlers, phase>>

Init ==
    /\ gb_is_running = 0 /\ stopped = FALSE
    /\ mutex = NULL
    /\ installed = {} /\ pending = {} /\ raised = 0 /\ late = FALSE
    /\ mask = [t \in Threads |-> {}]
    /\ call = [t \in Threads |-> "none"]
    /\ at = [t \in Threads |-> "idle"]
    /\ rc = [t \in Threads |-> 0]
    /\ handlers = [t \in Threads |-> <<>>]
    /\ phase = IF Masked THEN "setup" ELSE "serve"

\* The code of t itself runs, not a handler on top of it.
Runs(t) == handlers[t] = <<>> /\ phase # "killed"
Idle(t) == Runs(t) /\ at[t] = "idle" /\ (phase = "setup" => t = Main)

Level(t) == Len(handlers[t])
Holder(t) == <<t, Level(t)>>

Enter(t, f, l) ==
    /\ call' = [call EXCEPT ![t] = f]
    /\ at' = [at EXCEPT ![t] = l]

Return(t, r) ==
    /\ at' = [at EXCEPT ![t] = "idle"]
    /\ call' = [call EXCEPT ![t] = "none"]
    /\ rc' = [rc EXCEPT ![t] = r]

-----------------------------------------------------------------------------
\* establish_sig_handler

\* The signal number or the function is not valid, or sigaction fails.
EstablishFail(t) ==
    /\ Idle(t)
    /\ Return(t, 1)
    /\ UNCHANGED <<flagVars, kernelVars, mutex, mask, handlers, phase>>

Sigaction(t, s) ==
    /\ Idle(t)
    /\ Masked => StopSignals \subseteq mask[t]
    /\ installed' = installed \cup {s}
    /\ late' = (late \/ phase = "serve")
    /\ Enter(t, "establish", "lock")
    /\ UNCHANGED <<flagVars, pending, raised, rc, mutex, mask, handlers, phase>>

-----------------------------------------------------------------------------
\* The flag: establish_sig_handler after sigaction, is_program_running and
\* stop_program

FlagCall(t, f) ==
    /\ Idle(t)
    /\ Masked => phase = "serve" /\ StopSignals \subseteq mask[t]
    /\ Enter(t, f, "lock")
    /\ UNCHANGED <<flagVars, kernelVars, rc, mutex, mask, handlers, phase>>

FlagLock(t) ==
    /\ Runs(t) /\ at[t] = "lock" /\ mutex = NULL
    /\ mutex' = Holder(t)
    /\ at' = [at EXCEPT ![t] = "locked"]
    /\ UNCHANGED <<flagVars, kernelVars, call, rc, mask, handlers, phase>>

\* Mutant: the flag counts the handlers.
FlagCount(t) ==
    /\ Runs(t) /\ at[t] = "locked"
    /\ gb_is_running' = CASE call[t] = "establish" -> gb_is_running + 1
                          [] call[t] = "stop" -> 0
                          [] OTHER -> gb_is_running
    /\ stopped' = (stopped \/ call[t] = "stop")
    /\ rc' = [rc EXCEPT ![t] = 0]
    /\ at' = [at EXCEPT ![t] = "unlock"]
    /\ UNCHANGED <<kernelVars, call, mutex, mask, handlers, phase>>

\* The access itself, with the mutex held.
FlagAccess(t) ==
    /\ Runs(t) /\ at[t] = "locked"
    /\ gb_is_running' = CASE call[t] = "establish" -> 1
                          [] call[t] = "stop" -> 0
                          [] OTHER -> gb_is_running
    /\ stopped' = (stopped \/ call[t] = "stop")
    /\ rc' = [rc EXCEPT ![t] =
                IF call[t] = "is_running" THEN gb_is_running ELSE 0]
    /\ at' = [at EXCEPT ![t] = "unlock"]
    /\ UNCHANGED <<kernelVars, call, mutex, mask, handlers, phase>>

FlagUnlock(t) ==
    /\ Runs(t) /\ at[t] = "unlock"
    /\ mutex' = NULL
    /\ Return(t, rc[t])
    /\ UNCHANGED <<flagVars, kernelVars, mask, handlers, phase>>

-----------------------------------------------------------------------------
\* The masks.  sigprocmask is a single step.

SetMask(t, m) ==
    /\ Idle(t)
    /\ mask' = [mask EXCEPT ![t] = m]
    /\ Return(t, 0)
    /\ UNCHANGED <<flagVars, kernelVars, mutex, handlers, phase>>

BlockSignals(t, S) == SetMask(t, mask[t] \cup S)

UnblockSignals(t, S) ==
    /\ phase = "serve"
    /\ Masked => Cardinality(StopSignals \ (mask[t] \ S)) =< MaxOpen
    /\ SetMask(t, mask[t] \ S)

\* sigaddset refuses a number that is no signal: -1, although the signals
\* before it were valid.  Another call fails: 1.  The mask stays as a whole.
MaskFail(t) ==
    /\ Idle(t)
    /\ \E r \in {-1, 1} : Return(t, r)
    /\ UNCHANGED <<flagVars, kernelVars, mutex, mask, handlers, phase>>

BlockAllSignals(t) == SetMask(t, Signals)

\* Unblocks the signals of an empty set.
UnblockAllSignals(t) ==
    /\ phase = "serve"
    /\ SetMask(t, mask[t] \ {})

\* block_signal has no result.
BlockSignal(t, s) ==
    /\ Idle(t)
    /\ mask' = [mask EXCEPT ![t] = @ \cup {s}]
    /\ UNCHANGED <<flagVars, kernelVars, threadVars, mutex, handlers, phase>>

\* The number is no signal, or sigprocmask fails: the caller is not told.
BlockSignalRefuse(t) ==
    /\ Idle(t)
    /\ UNCHANGED vars

-----------------------------------------------------------------------------
\* signal_handler

Top(t) == handlers[t][Level(t)]

SetTop(t, l) ==
    handlers' = [handlers EXCEPT ![t][Level(t)].at = l]

\* The handler returns, and the kernel restores the mask.
HandlerReturn(t) ==
    /\ handlers' = [handlers EXCEPT ![t] = SubSeq(@, 1, Len(@) - 1)]
    /\ mask' = [mask EXCEPT ![t] = Top(t).saved]

\* Only the stop signals have an effect.
HandlerIgnore(t) ==
    /\ handlers[t] # <<>> /\ phase # "killed"
    /\ Top(t).at = "enter" /\ Top(t).sig \notin StopSignals
    /\ HandlerReturn(t)
    /\ UNCHANGED <<flagVars, kernelVars, threadVars, mutex, phase>>

HandlerLock(t) ==
    /\ handlers[t] # <<>> /\ phase # "killed"
    /\ Top(t).at = "enter" /\ Top(t).sig \in StopSignals
    /\ mutex = NULL
    /\ mutex' = Holder(t)
    /\ SetTop(t, "locked")
    /\ UNCHANGED <<flagVars, kernelVars, threadVars, mask, phase>>

\* Mutant: the handler only looks at the flag.
HandlerNoClear(t) ==
    /\ handlers[t] # <<>> /\ phase # "killed"
    /\ Top(t).at = "locked"
    /\ SetTop(t, "unlock")
    /\ UNCHANGED <<flagVars, kernelVars, threadVars, mutex, mask, phase>>

HandlerClear(t) ==
    /\ handlers[t] # <<>> /\ phase # "killed"
    /\ Top(t).at = "locked"
    /\ gb_is_running' = 0
    /\ SetTop(t, "unlock")
    /\ UNCHANGED <<stopped, kernelVars, threadVars, mutex, mask, phase>>

\* Mutant: the early return leaves the mutex locked.
HandlerKeepLock(t) ==
    /\ handlers[t] # <<>> /\ phase # "killed"
    /\ Top(t).at = "unlock"
    /\ HandlerReturn(t)
    /\ UNCHANGED <<flagVars, kernelVars, threadVars, mutex, phase>>

HandlerUnlock(t) ==
    /\ handlers[t] # <<>> /\ phase # "killed"
    /\ Top(t).at = "unlock"
    /\ mutex' = NULL
    /\ HandlerReturn(t)
    /\ UNCHANGED <<flagVars, kernelVars, threadVars, phase>>

-----------------------------------------------------------------------------
\* The kernel: a signal that is pending already is not queued twice.

Raise(s) ==
    /\ phase # "killed" /\ raised < MaxRaise
    /\ pending' = pending \cup {s}
    /\ raised' = raised + 1
    /\ stopped' = (stopped \/ s \in StopSignals)
    /\ UNCHANGED <<gb_is_running, installed, late, threadVars, mutex, mask,
                   handlers, phase>>

\* A thread that does not block the signal is interrupted.  sa_mask is empty
\* and sa_flags 0: the handler runs with its own signal blocked in addition.
Deliver(t, s) ==
    /\ phase # "killed" /\ (phase = "setup" => t = Main)
    /\ s \in pending /\ s \notin mask[t] /\ s \in installed
    /\ pending' = pending \ {s}
    /\ handlers' = [handlers EXCEPT ![t] =
                      Append(@, [sig |-> s, at |-> "enter", saved |-> mask[t]])]
    /\ mask' = [mask EXCEPT ![t] = @ \cup {s}]
    /\ UNCHANGED <<flagVars, installed, raised, late, threadVars, mutex, phase>>

\* Without a handler the signal ends the process.
Kill(t, s) ==
    /\ phase # "killed" /\ (phase = "setup" => t = Main)
    /\ s \in pending /\ s \notin mask[t] /\ s \notin installed
    /\ phase' = "killed"
    /\ UNCHANGED <<flagVars, kernelVars, threadVars, mutex, mask, handlers>>

\* The first thread has set up and starts the others, which inherit its mask.
StartThreads ==
    /\ phase = "setup" /\ Idle(Main) /\ StopSignals \subseteq installed
    /\ phase' = "serve"
    /\ mask' = [t \in Threads |-> mask[Main]]
    /\ UNCHANGED <<flagVars, kernelVars, threadVars, mutex, handlers>>

Killed == phase = "killed" /\ UNCHANGED vars

-----------------------------------------------------------------------------
CallStep(t) ==
    \/ EstablishFail(t)
    \/ \E s \in Signals : Sigaction(t, s)
    \/ \E f \in {"is_running", "stop"} : FlagCall(t, f)
    \/ \E S \in SUBSET Signals : BlockSignals(t, S) \/ UnblockSignals(t, S)
    \/ MaskFail(t)
    \/ \E s \in Signals : BlockSignal(t, s)
    \/ BlockSignalRefuse(t)
    \/ BlockAllSignals(t)
    \/ UnblockAllSignals(t)

\* What a thread does once it is inside a library function or a handler.
InsideStep(t) ==
    \/ FlagLock(t) \/ FlagAccess(t) \/ FlagUnlock(t)
    \/ HandlerIgnore(t) \/ HandlerLock(t) \/ HandlerClear(t)
    \/ HandlerUnlock(t)

Next ==
    \/ \E t \in Threads : CallStep(t) \/ InsideStep(t)
    \/ \E s \in Signals : Raise(s)
    \/ \E t \in Threads, s \in Signals : Deliver(t, s) \/ Kill(t, s)
    \/ StartThreads
    \/ Killed

Spec == Init /\ [][Next]_vars

\* A thread inside the library keeps running.  A mutex that is taken again and
\* again by others need not be granted: pthread mutexes are not fair.
FairSpec == Spec /\ \A t \in Threads : WF_vars(InsideStep(t))

-----------------------------------------------------------------------------
(* Properties *)

\* A handler on a stack: its signal, where it is, and the mask to restore.
Frame == [sig : Signals, at : {"enter", "locked", "unlock"},
          saved : SUBSET Signals]

\* Every variable keeps its type, and a stack holds only handlers that are
\* installed and at most as many as signals were sent.
TypeOK ==
    /\ gb_is_running \in {0, 1} /\ stopped \in BOOLEAN
    /\ mutex \in {NULL} \cup (Threads \X (0 .. MaxRaise))
    /\ installed \subseteq Signals /\ pending \subseteq Signals
    /\ raised \in 0 .. MaxRaise /\ late \in BOOLEAN
    /\ mask \in [Threads -> SUBSET Signals]
    /\ call \in [Threads -> {"none", "establish", "is_running", "stop"}]
    /\ at \in [Threads -> {"idle", "lock", "locked", "unlock"}]
    /\ rc \in [Threads -> {-1, 0, 1}]
    /\ handlers \in [Threads -> Seq(Frame)]
    /\ \A t \in Threads : /\ Level(t) =< MaxRaise
                         /\ \A k \in 1 .. Level(t) : handlers[t][k].sig \in installed
    /\ phase \in {"setup", "serve", "killed"}

\* Thread t waits for the mutex.
WaitsForMutex(t) ==
    IF handlers[t] = <<>> THEN at[t] = "lock"
    ELSE Top(t).at = "enter" /\ Top(t).sig \in StopSignals

\* signal_handler takes the mutex in the context of the thread it interrupts:
\* it must never wait for what lies below it on its own stack.
NoSelfDeadlock ==
    \A t \in Threads : WaitsForMutex(t) /\ mutex # NULL => mutex[1] # t

\* A handler for a stop signal that has not cleared the flag yet.
StopUnderWay ==
    \E t \in Threads : \E k \in 1 .. Level(t) :
      handlers[t][k].sig \in StopSignals /\ handlers[t][k].at # "unlock"

\* No stop is lost, whenever it is requested: also a stop signal sent while
\* establish_sig_handler is between sigaction and gb_is_running = 1, or between
\* two of its calls, is still pending, is in a handler, or has cleared the flag
\* for good.  Only a handler that is established after the threads started
\* overwrites a stop.
NoStopLost ==
    (stopped /\ ~late /\ phase # "killed") =>
       \/ gb_is_running = 0
       \/ pending \cap StopSignals # {}
       \/ StopUnderWay

\* Thread t waits for ever for a mutex that the others take and release again
\* and again.
Starves(t) == []<>(mutex = NULL) /\ <>[]WaitsForMutex(t)

\* A handler for a stop signal, once started, clears the flag unless the other
\* threads starve it: neither what it interrupted, nor a handler that
\* interrupts it, nor another thread keeps the mutex from it for ever.
SignalStops ==
    \A t \in Threads :
      \/ Starves(t)
      \/ (handlers[t] # <<>> /\ Top(t).sig \in StopSignals)
            ~> (gb_is_running = 0 \/ phase = "killed")

\* Every call into the library comes back, unless its thread starves.
CallsReturn ==
    \A t \in Threads :
      \/ Starves(t)
      \/ (at[t] # "idle") ~> (at[t] = "idle" \/ phase = "killed")

=============================================================================
