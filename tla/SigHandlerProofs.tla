-------------------------- MODULE SigHandlerProofs --------------------------
(***************************************************************************)
(* Proofs about SigHandler for any threads, signals and number of signals  *)
(* sent: the types, and, when the callers keep to the discipline with at   *)
(* most one stop signal open per thread, that no handler waits for its own *)
(* thread and that no stop request is lost.                                *)
(***************************************************************************)
EXTENDS SigHandler, FiniteSetTheorems, SequenceTheorems, TLAPS

USE SignalAssumption

\* The labels of a call or a handler that holds the mutex.
Inside == {"locked", "unlock"}

-----------------------------------------------------------------------------
\* What the three operators on stacks do.

\* A handler moves to its next label.
LEMMA SetTopEffect ==
    ASSUME handlers \in [Threads -> Seq(Frame)], NEW t \in Threads,
           handlers[t] # <<>>, NEW l \in {"enter", "locked", "unlock"},
           SetTop(t, l)
    PROVE  /\ handlers' \in [Threads -> Seq(Frame)]
           /\ \A u \in Threads : Len(handlers'[u]) = Len(handlers[u])
           /\ \A u \in Threads, k \in Nat : k \in 1 .. Len(handlers[u]) =>
                /\ handlers'[u][k].sig = handlers[u][k].sig
                /\ handlers'[u][k].saved = handlers[u][k].saved
                /\ handlers'[u][k].at =
                     IF u = t /\ k = Len(handlers[t]) THEN l
                     ELSE handlers[u][k].at
<1> DEFINE n == Len(handlers[t])
           f == [handlers[t][n] EXCEPT !.at = l]
           h == [handlers[t] EXCEPT ![n] = f]
<1>1. n \in Nat /\ n >= 1 /\ handlers[t] \in Seq(Frame)
  OBVIOUS
<1>2. handlers[t][n] \in Frame
  BY <1>1
<1>3. f \in Frame /\ f.sig = handlers[t][n].sig
        /\ f.saved = handlers[t][n].saved /\ f.at = l
  BY <1>2 DEF Frame
<1>4. handlers' = [handlers EXCEPT ![t] = h]
  BY DEF SetTop, Level
<1> HIDE DEF f
<1>5. /\ h \in Seq(Frame) /\ Len(h) = n
      /\ \A k \in 1 .. n : h[k] = IF k = n THEN f ELSE handlers[t][k]
  BY <1>1, <1>3
<1> HIDE DEF h
<1>6. /\ handlers' \in [Threads -> Seq(Frame)]
      /\ handlers'[t] = h
      /\ \A u \in Threads : u # t => handlers'[u] = handlers[u]
  BY <1>4, <1>5
<1> QED
  BY <1>1, <1>3, <1>5, <1>6

\* A handler returns.
LEMMA PopEffect ==
    ASSUME handlers \in [Threads -> Seq(Frame)], NEW t \in Threads,
           mask \in [Threads -> SUBSET Signals],
           handlers[t] # <<>>, HandlerReturn(t)
    PROVE  /\ handlers' \in [Threads -> Seq(Frame)]
           /\ mask' \in [Threads -> SUBSET Signals]
           /\ Len(handlers[t]) \in Nat \ {0}
           /\ Len(handlers'[t]) = Len(handlers[t]) - 1
           /\ mask'[t] = handlers[t][Len(handlers[t])].saved
           /\ \A k \in 1 .. Len(handlers'[t]) : handlers'[t][k] = handlers[t][k]
           /\ \A u \in Threads : u # t => /\ handlers'[u] = handlers[u]
                                          /\ mask'[u] = mask[u]
<1> DEFINE n == Len(handlers[t])
           h == SubSeq(handlers[t], 1, n - 1)
<1>1. n \in Nat /\ n >= 1 /\ handlers[t] \in Seq(Frame)
  OBVIOUS
<1>2. handlers[t][n] \in Frame
  BY <1>1
<1>3. handlers[t][n].saved \in SUBSET Signals
  BY <1>2 DEF Frame
<1>4. /\ handlers' = [handlers EXCEPT ![t] = h]
      /\ mask' = [mask EXCEPT ![t] = handlers[t][n].saved]
  BY DEF HandlerReturn, Level, Top
<1>5. /\ h \in Seq(Frame) /\ Len(h) = n - 1
      /\ \A k \in 1 .. n - 1 : h[k] = handlers[t][k]
  <2>1. \A i \in 1 .. n - 1 : handlers[t][i] \in Frame
    BY <1>1
  <2>2. /\ h \in Seq(Frame)
        /\ Len(h) = IF 1 =< n - 1 THEN n - 1 - 1 + 1 ELSE 0
        /\ \A i \in 1 .. (n - 1) - 1 + 1 : h[i] = handlers[t][1 + i - 1]
    BY <1>1, <2>1, SubSeqProperties
  <2>3. \A i \in 1 .. n - 1 : 1 + i - 1 = i
    BY <1>1
  <2> HIDE DEF h, n
  <2>4. Len(h) = n - 1
    BY <1>1, <2>2
  <2> QED
    BY <1>1, <2>2, <2>3, <2>4
<1> HIDE DEF h
<1>6. /\ handlers' \in [Threads -> Seq(Frame)]
      /\ handlers'[t] = h
      /\ \A u \in Threads : u # t => handlers'[u] = handlers[u]
  BY <1>4, <1>5
<1>7. /\ mask' \in [Threads -> SUBSET Signals]
      /\ mask'[t] = handlers[t][n].saved
      /\ \A u \in Threads : u # t => mask'[u] = mask[u]
  BY <1>3, <1>4
<1> QED
  BY <1>1, <1>5, <1>6, <1>7

\* A signal is delivered.
LEMMA PushEffect ==
    ASSUME handlers \in [Threads -> Seq(Frame)],
           NEW t \in Threads, NEW s \in Signals,
           mask \in [Threads -> SUBSET Signals],
           Deliver(t, s)
    PROVE  /\ handlers' \in [Threads -> Seq(Frame)]
           /\ mask' \in [Threads -> SUBSET Signals]
           /\ Len(handlers[t]) \in Nat
           /\ Len(handlers'[t]) = Len(handlers[t]) + 1
           /\ mask'[t] = mask[t] \cup {s}
           /\ handlers'[t][Len(handlers[t]) + 1] =
                [sig |-> s, at |-> "enter", saved |-> mask[t]]
           /\ \A k \in 1 .. Len(handlers[t]) : handlers'[t][k] = handlers[t][k]
           /\ \A u \in Threads : u # t => /\ handlers'[u] = handlers[u]
                                          /\ mask'[u] = mask[u]
<1> DEFINE f == [sig |-> s, at |-> "enter", saved |-> mask[t]]
           h == Append(handlers[t], f)
<1>1. handlers[t] \in Seq(Frame) /\ f \in Frame
  BY DEF Frame
<1>2. /\ handlers' = [handlers EXCEPT ![t] = h]
      /\ mask' = [mask EXCEPT ![t] = mask[t] \cup {s}]
  BY DEF Deliver
<1> HIDE DEF f
<1>3. /\ h \in Seq(Frame) /\ Len(h) = Len(handlers[t]) + 1
      /\ h[Len(handlers[t]) + 1] = f
      /\ \A k \in 1 .. Len(handlers[t]) : h[k] = handlers[t][k]
  BY <1>1
<1> HIDE DEF h
<1>4. Len(handlers[t]) \in Nat
  BY <1>1
<1>5. handlers'[t][Len(handlers[t]) + 1] = f
  BY <1>2, <1>3
<1>6. f = [sig |-> s, at |-> "enter", saved |-> mask[t]]
  BY DEF f
<1> QED
  BY <1>2, <1>3, <1>4, <1>5, <1>6

-----------------------------------------------------------------------------
\* Types

\* Every stacked handler and every pending signal was sent.
CountOK ==
    \A t \in Threads : Level(t) + Cardinality(pending) =< raised

\* Init has the types.
LEMMA TypeInit == Init => TypeOK /\ CountOK
<1> SUFFICES ASSUME Init PROVE TypeOK /\ CountOK
  OBVIOUS
<1>1. handlers \in [Threads -> Seq(Frame)] /\ \A t \in Threads : Level(t) = 0
  BY DEF Init, Level
<1>2. Cardinality(pending) = 0
  BY FS_EmptySet DEF Init
<1>3. phase \in {"setup", "serve", "killed"}
  BY DEF Init
<1>4. \A t \in Threads : /\ Level(t) =< MaxRaise
                         /\ \A k \in 1 .. Level(t) : handlers[t][k].sig \in installed
  BY <1>1
<1>5. gb_is_running \in {0, 1} /\ stopped \in BOOLEAN /\ late \in BOOLEAN
  BY DEF Init
<1>6. /\ mutex \in {NULL} \cup (Threads \X (0 .. MaxRaise))
      /\ installed \subseteq Signals /\ pending \subseteq Signals
      /\ raised \in 0 .. MaxRaise
      /\ mask \in [Threads -> SUBSET Signals]
      /\ call \in [Threads -> {"none", "establish", "is_running", "stop"}]
      /\ at \in [Threads -> {"idle", "lock", "locked", "unlock"}]
      /\ rc \in [Threads -> {-1, 0, 1}]
  BY SMT DEF Init
<1>7. TypeOK
  BY <1>1, <1>3, <1>4, <1>5, <1>6 DEF TypeOK
<1> QED
  BY <1>1, <1>2, <1>7 DEF CountOK, Init

\* The pending signals are finitely many.
LEMMA PendingCount ==
    ASSUME TypeOK
    PROVE  /\ IsFiniteSet(pending) /\ Cardinality(pending) \in Nat
           /\ \A s \in Signals :
                /\ Cardinality(pending \cup {s}) \in Nat
                /\ Cardinality(pending \cup {s}) =< Cardinality(pending) + 1
                /\ Cardinality(pending \ {s}) \in Nat
                /\ s \in pending =>
                     Cardinality(pending \ {s}) = Cardinality(pending) - 1
<1>1. IsFiniteSet(pending)
  BY FS_Subset DEF TypeOK
<1>2. Cardinality(pending) \in Nat
  BY <1>1, FS_CardinalityType
<1>3. ASSUME NEW s \in Signals
      PROVE  /\ Cardinality(pending \cup {s}) \in Nat
             /\ Cardinality(pending \cup {s}) =< Cardinality(pending) + 1
  <2>1. /\ IsFiniteSet(pending \cup {s})
        /\ Cardinality(pending \cup {s}) =
             IF s \in pending THEN Cardinality(pending)
                              ELSE Cardinality(pending) + 1
    BY <1>1, FS_AddElement
  <2> QED
    BY <1>2, <2>1
<1>4. ASSUME NEW s \in Signals
      PROVE  /\ Cardinality(pending \ {s}) \in Nat
             /\ s \in pending =>
                  Cardinality(pending \ {s}) = Cardinality(pending) - 1
  BY <1>1, <1>2, FS_RemoveElement, FS_CardinalityType
<1> QED
  BY <1>1, <1>2, <1>3, <1>4

\* The calls that leave handlers, masks and the kernel's state as they are.
LEMMA CallTypes ==
    ASSUME TypeOK, CountOK, NEW t \in Threads, CallStep(t)
    PROVE  TypeOK' /\ CountOK'
<1>1. /\ UNCHANGED <<handlers, pending, raised, mutex, phase, flagVars>>
      /\ \A u \in Threads : Level(u)' = Level(u)
  BY DEF CallStep, EstablishFail, Sigaction, FlagCall, BlockSignals,
         UnblockSignals, MaskFail, BlockSignal, BlockSignalRefuse,
         BlockAllSignals, UnblockAllSignals, SetMask, vars, kernelVars,
         threadVars, flagVars, Level
<1>2. /\ installed \subseteq installed' /\ installed' \subseteq Signals
      /\ late' \in BOOLEAN
  BY DEF CallStep, EstablishFail, Sigaction, FlagCall, BlockSignals,
         UnblockSignals, MaskFail, BlockSignal, BlockSignalRefuse,
         BlockAllSignals, UnblockAllSignals, SetMask, vars, kernelVars, TypeOK
<1>3. mask' \in [Threads -> SUBSET Signals]
  <2>1. \/ mask' = mask
        \/ \E S \in SUBSET Signals : mask' = [mask EXCEPT ![t] = S]
    <3> USE DEF TypeOK
    <3>1. ASSUME NEW S \in SUBSET Signals, BlockSignals(t, S) \/ UnblockSignals(t, S)
          PROVE  <2>1!2
      BY <3>1 DEF BlockSignals, UnblockSignals, SetMask
    <3>2. ASSUME NEW s \in Signals, BlockSignal(t, s)
          PROVE  <2>1!2
      BY <3>2 DEF BlockSignal
    <3>3. ASSUME BlockAllSignals(t) PROVE <2>1!2
      BY <3>3 DEF BlockAllSignals, SetMask
    <3>4. ASSUME UnblockAllSignals(t) PROVE <2>1!2
      BY <3>4 DEF UnblockAllSignals, SetMask
    <3> QED
      BY <3>1, <3>2, <3>3, <3>4
         DEF CallStep, EstablishFail, Sigaction, FlagCall, MaskFail,
             BlockSignalRefuse, vars
  <2> QED
    BY <2>1 DEF TypeOK
<1>4. /\ call' \in [Threads -> {"none", "establish", "is_running", "stop"}]
      /\ at' \in [Threads -> {"idle", "lock", "locked", "unlock"}]
      /\ rc' \in [Threads -> {-1, 0, 1}]
  <2>1. \/ UNCHANGED threadVars
        \/ \E r \in {-1, 0, 1} : Return(t, r)
        \/ /\ \E f \in {"establish", "is_running", "stop"} : Enter(t, f, "lock")
           /\ rc' = rc
    BY DEF CallStep, EstablishFail, Sigaction, FlagCall, BlockSignals,
           UnblockSignals, MaskFail, BlockSignal, BlockSignalRefuse,
           BlockAllSignals, UnblockAllSignals, SetMask, vars, threadVars
  <2>2. CASE UNCHANGED threadVars
    BY <2>2 DEF TypeOK, threadVars
  <2>3. ASSUME NEW r \in {-1, 0, 1}, Return(t, r) PROVE <1>4
    BY <2>3 DEF Return, TypeOK
  <2>4. ASSUME NEW f \in {"establish", "is_running", "stop"},
               Enter(t, f, "lock"), rc' = rc
        PROVE  <1>4
    BY <2>4 DEF Enter, TypeOK
  <2> QED
    BY <2>1, <2>2, <2>3, <2>4
<1> QED
  BY <1>1, <1>2, <1>3, <1>4 DEF TypeOK, CountOK, flagVars

\* The steps inside the library keep the types.
LEMMA InsideTypes ==
    ASSUME TypeOK, CountOK, NEW t \in Threads, InsideStep(t)
    PROVE  TypeOK' /\ CountOK'
<1>0. /\ handlers \in [Threads -> Seq(Frame)]
      /\ mask \in [Threads -> SUBSET Signals]
      /\ raised \in 0 .. MaxRaise
      /\ \A u \in Threads : Level(u) \in Nat
      /\ Holder(t) \in Threads \X (0 .. MaxRaise)
  BY DEF TypeOK, Level, Holder
<1>1. CASE FlagLock(t)
  BY <1>0, <1>1 DEF FlagLock, flagVars, kernelVars, TypeOK, CountOK, Level
<1>2. CASE FlagAccess(t)
  <2>1. gb_is_running' \in {0, 1} /\ stopped' \in BOOLEAN
    BY <1>2 DEF FlagAccess, TypeOK
  <2>2. rc' \in [Threads -> {-1, 0, 1}]
    BY <1>2 DEF FlagAccess, TypeOK
  <2>3. at' \in [Threads -> {"idle", "lock", "locked", "unlock"}]
    BY <1>2 DEF FlagAccess, TypeOK
  <2> QED
    BY <1>2, <2>1, <2>2, <2>3
       DEF FlagAccess, kernelVars, TypeOK, CountOK, Level
<1>3. CASE FlagUnlock(t)
  BY <1>3 DEF FlagUnlock, Return, flagVars, kernelVars, TypeOK, CountOK, Level
<1>4. ASSUME HandlerReturn(t), handlers[t] # <<>>, mutex' \in {mutex, NULL},
             UNCHANGED <<flagVars, kernelVars, threadVars, phase>>
      PROVE  TypeOK' /\ CountOK'
  <2>1. /\ handlers' \in [Threads -> Seq(Frame)]
        /\ mask' \in [Threads -> SUBSET Signals]
        /\ Level(t) >= 1 /\ Level(t)' = Level(t) - 1
        /\ \A k \in 1 .. Level(t)' : handlers'[t][k] = handlers[t][k]
        /\ \A u \in Threads : u # t => handlers'[u] = handlers[u]
    BY <1>0, <1>4, PopEffect DEF Level
  <2>2. ASSUME NEW u \in Threads
        PROVE  /\ Level(u)' \in Nat /\ Level(u)' =< Level(u)
               /\ \A k \in 1 .. Level(u)' :
                    k \in 1 .. Level(u) /\ handlers'[u][k] = handlers[u][k]
    <3>1. Level(u) \in Nat
      BY <1>0
    <3>2. CASE u = t
      BY <2>1, <3>1, <3>2
    <3>3. CASE u # t
      <4>1. handlers'[u] = handlers[u] /\ Level(u)' = Level(u)
        BY <2>1, <3>3 DEF Level
      <4> QED
        BY <3>1, <4>1
    <3> QED
      BY <3>2, <3>3
  <2>4. CountOK'
    BY <1>0, <1>4, <2>2, PendingCount DEF CountOK, kernelVars, Level
  <2>5. \A u \in Threads :
          /\ Level(u)' =< MaxRaise
          /\ \A k \in 1 .. Level(u)' : handlers'[u][k].sig \in installed
    <3> TAKE u \in Threads
    <3>1. /\ Level(u) \in Nat /\ Level(u) =< MaxRaise
          /\ \A k \in 1 .. Level(u) : handlers[u][k].sig \in installed
      BY <1>0 DEF TypeOK
    <3> QED
      BY <2>2, <3>1
  <2> QED
    BY <1>4, <2>1, <2>4, <2>5
       DEF TypeOK, flagVars, kernelVars, threadVars
<1>5. ASSUME NEW l \in {"enter", "locked", "unlock"}, SetTop(t, l),
             handlers[t] # <<>>, mutex' \in {mutex, Holder(t)},
             gb_is_running' \in {0, gb_is_running}, stopped' \in BOOLEAN,
             UNCHANGED <<kernelVars, threadVars, mask, phase>>
      PROVE  TypeOK' /\ CountOK'
  <2>1. /\ handlers' \in [Threads -> Seq(Frame)]
        /\ \A u \in Threads : Level(u)' = Level(u)
        /\ \A u \in Threads, k \in Nat : k \in 1 .. Level(u) =>
             handlers'[u][k].sig = handlers[u][k].sig
    <3>1. /\ handlers' \in [Threads -> Seq(Frame)]
          /\ \A u \in Threads : Len(handlers'[u]) = Len(handlers[u])
          /\ \A u \in Threads, k \in Nat : k \in 1 .. Len(handlers[u]) =>
               handlers'[u][k].sig = handlers[u][k].sig
      BY <1>0, <1>5, SetTopEffect
    <3> QED
      BY <3>1 DEF Level
  <2>2. CountOK'
    BY <1>5, <2>1 DEF CountOK, kernelVars, Level
  <2>3. \A u \in Threads :
          /\ Level(u)' =< MaxRaise
          /\ \A k \in 1 .. Level(u)' : handlers'[u][k].sig \in installed
    <3> TAKE u \in Threads
    <3>1. /\ Level(u) \in Nat /\ Level(u) =< MaxRaise
          /\ \A k \in 1 .. Level(u) : handlers[u][k].sig \in installed
      BY <1>0 DEF TypeOK
    <3>2. Level(u)' = Level(u)
      BY <2>1
    <3> QED
      BY <2>1, <3>1, <3>2
  <2>4. gb_is_running' \in {0, 1}
    BY <1>5 DEF TypeOK
  <2> QED
    BY <1>0, <1>5, <2>1, <2>2, <2>3, <2>4 DEF TypeOK, kernelVars, threadVars
<1>6. CASE HandlerIgnore(t)
  BY <1>4, <1>6 DEF HandlerIgnore
<1>7. CASE HandlerLock(t)
  BY <1>5, <1>7 DEF HandlerLock, flagVars, TypeOK
<1>8. CASE HandlerClear(t)
  BY <1>5, <1>8 DEF HandlerClear, TypeOK
<1>9. CASE HandlerUnlock(t)
  BY <1>4, <1>9 DEF HandlerUnlock
<1> QED
  BY <1>1, <1>2, <1>3, <1>6, <1>7, <1>8, <1>9 DEF InsideStep

\* The steps of the kernel and of the first thread that starts the others.
LEMMA KernelTypes ==
    ASSUME TypeOK, CountOK,
           \/ \E s \in Signals : Raise(s)
           \/ \E t \in Threads, s \in Signals : Deliver(t, s) \/ Kill(t, s)
           \/ StartThreads
           \/ UNCHANGED vars
    PROVE  TypeOK' /\ CountOK'
<1>0. /\ handlers \in [Threads -> Seq(Frame)]
      /\ mask \in [Threads -> SUBSET Signals]
      /\ raised \in 0 .. MaxRaise
      /\ \A u \in Threads : Level(u) \in Nat
      /\ Cardinality(pending) \in Nat
  BY PendingCount DEF TypeOK, Level
<1>1. ASSUME NEW s \in Signals, Raise(s) PROVE TypeOK' /\ CountOK'
  <2>1. /\ pending' = pending \cup {s} /\ raised' = raised + 1
        /\ raised < MaxRaise /\ handlers' = handlers
    BY <1>1 DEF Raise
  <2>2. CountOK'
    <3> SUFFICES ASSUME NEW u \in Threads
                 PROVE  Level(u)' + Cardinality(pending') =< raised'
      BY DEF CountOK
    <3>1. Level(u)' = Level(u)
      BY <2>1 DEF Level
    <3>2. Level(u) + Cardinality(pending) =< raised
      BY DEF CountOK
    <3>3. /\ Cardinality(pending') \in Nat
          /\ Cardinality(pending') =< Cardinality(pending) + 1
      BY <2>1, PendingCount
    <3> QED
      BY <1>0, <2>1, <3>1, <3>2, <3>3
  <2>3. pending' \subseteq Signals /\ raised' \in 0 .. MaxRaise
    BY <2>1 DEF TypeOK
  <2> QED
    BY <1>1, <2>1, <2>2, <2>3 DEF Raise, TypeOK, flagVars, threadVars, Level
<1>2. ASSUME NEW t \in Threads, NEW s \in Signals, Deliver(t, s)
      PROVE  TypeOK' /\ CountOK'
  <2>1. /\ handlers' \in [Threads -> Seq(Frame)]
        /\ mask' \in [Threads -> SUBSET Signals]
        /\ Level(t)' = Level(t) + 1
        /\ handlers'[t][Level(t)'].sig = s
        /\ \A k \in 1 .. Level(t) : handlers'[t][k] = handlers[t][k]
        /\ \A u \in Threads : u # t => handlers'[u] = handlers[u]
    <3>1. /\ handlers' \in [Threads -> Seq(Frame)]
          /\ mask' \in [Threads -> SUBSET Signals]
          /\ Len(handlers'[t]) = Len(handlers[t]) + 1
          /\ handlers'[t][Len(handlers[t]) + 1] =
               [sig |-> s, at |-> "enter", saved |-> mask[t]]
          /\ \A k \in 1 .. Len(handlers[t]) : handlers'[t][k] = handlers[t][k]
          /\ \A u \in Threads : u # t => handlers'[u] = handlers[u]
      BY <1>0, <1>2, PushEffect
    <3> QED
      BY <3>1 DEF Level
  <2>2. /\ s \in pending /\ pending' = pending \ {s} /\ s \in installed
        /\ UNCHANGED <<installed, raised>>
    BY <1>2 DEF Deliver
  <2>3. ASSUME NEW u \in Threads
        PROVE  /\ Level(u)' \in Nat
               /\ Level(u)' + Cardinality(pending') =< raised'
               /\ Level(u)' =< MaxRaise
               /\ \A k \in 1 .. Level(u)' : handlers'[u][k].sig \in installed
    <3>1. /\ Level(u) \in Nat /\ Level(u) + Cardinality(pending) =< raised
          /\ \A k \in 1 .. Level(u) : handlers[u][k].sig \in installed
      BY <1>0 DEF CountOK, TypeOK
    <3>2. /\ Cardinality(pending') \in Nat
          /\ Cardinality(pending') = Cardinality(pending) - 1
      BY <2>2, PendingCount
    <3>3. CASE u = t
      <4>1. Level(t)' = Level(t) + 1 /\ Level(t) \in Nat
        BY <1>0, <2>1
      <4>2. \A k \in 1 .. Level(t)' : k \in 1 .. Level(t) \/ k = Level(t)'
        BY <4>1
      <4>3. \A k \in 1 .. Level(t)' : handlers'[t][k].sig \in installed
        BY <2>1, <2>2, <3>1, <3>3, <4>2
      <4> QED
        BY <1>0, <2>2, <3>1, <3>2, <3>3, <4>1, <4>3
    <3>4. CASE u # t
      <4>1. handlers'[u] = handlers[u] /\ Level(u)' = Level(u)
        BY <2>1, <3>4 DEF Level
      <4> QED
        BY <1>0, <2>2, <3>1, <3>2, <4>1
    <3> QED
      BY <3>3, <3>4
  <2> QED
    BY <1>2, <2>1, <2>2, <2>3
       DEF Deliver, TypeOK, CountOK, flagVars, threadVars
<1>3. ASSUME NEW t \in Threads, NEW s \in Signals, Kill(t, s)
      PROVE  TypeOK' /\ CountOK'
  BY <1>3 DEF Kill, TypeOK, CountOK, flagVars, kernelVars, threadVars, Level
<1>4. ASSUME StartThreads PROVE TypeOK' /\ CountOK'
  BY <1>0, <1>4
     DEF StartThreads, TypeOK, CountOK, flagVars, kernelVars, threadVars, Level
<1>5. ASSUME UNCHANGED vars PROVE TypeOK' /\ CountOK'
  BY <1>5 DEF vars, TypeOK, CountOK, flagVars, kernelVars, threadVars, Level
<1> QED
  BY <1>1, <1>2, <1>3, <1>4, <1>5

\* Every step keeps the types.
LEMMA TypeStep ==
    ASSUME TypeOK, CountOK, [Next]_vars
    PROVE  TypeOK' /\ CountOK'
BY CallTypes, InsideTypes, KernelTypes DEF Next, Killed

\* Whatever the callers do, the variables keep their types, the stacks hold
\* handlers that are installed, and a stack is never deeper than the number of
\* signals sent: the kernel hands a pending signal to one thread, once.
THEOREM TypeCorrect == Spec => []TypeOK
<1>1. TypeOK /\ CountOK /\ [Next]_vars => (TypeOK /\ CountOK)'
  BY TypeStep
<1> QED
  BY TypeInit, <1>1, PTL DEF Spec

-----------------------------------------------------------------------------
\* The mutex and the masks

\* A thread is between calls exactly when it is in no function.
CallsOK == \A t \in Threads : at[t] = "idle" <=> call[t] = "none"

\* The holder of the mutex is the call, or the stacked handler, that locked it
\* and did not unlock it yet.
MutexOf(t) ==
    /\ at[t] \in Inside <=> mutex = <<t, 0>>
    /\ \A k \in 1 .. Level(t) :
         handlers[t][k].at \in Inside <=> mutex = <<t, k>>
    /\ \A k \in Nat : mutex = <<t, k>> => k =< Level(t)

MutexOK == \A t \in Threads : MutexOf(t)

\* Only the handler of a stop signal goes for the mutex.
StopFramesOf(t) ==
    \A k \in 1 .. Level(t) :
      handlers[t][k].at \in Inside => handlers[t][k].sig \in StopSignals

StopFrames == \A t \in Threads : StopFramesOf(t)

\* The mask the code of t itself runs with, below the handlers.
Base(t) == IF handlers[t] = <<>> THEN mask[t] ELSE handlers[t][1].saved

\* A handler was not blocked when it was delivered, and blocks its own signal
\* for everything that is stacked on top of it.
MaskOf(t) ==
    /\ Base(t) \subseteq mask[t]
    /\ \A k \in 1 .. Level(t) :
         /\ handlers[t][k].sig \in mask[t]
         /\ handlers[t][k].sig \notin handlers[t][k].saved
         /\ Base(t) \subseteq handlers[t][k].saved
         /\ \A j \in k + 1 .. Level(t) : handlers[t][k].sig \in handlers[t][j].saved

MasksOK == \A t \in Threads : MaskOf(t)

\* Before the threads start, only the first thread is in a call or a handler.
\* It blocks the stop signals from its first handler on, so that a stop signal
\* that was sent is still pending.
SetupOK ==
    phase = "setup" =>
      /\ \A t \in Threads : call[t] \in {"none", "establish"}
      /\ \A t \in Threads \ {Main} : handlers[t] = <<>> /\ at[t] = "idle"
      /\ installed # {} => StopSignals \subseteq Base(Main)
      /\ stopped => pending \cap StopSignals # {}

\* Afterwards a thread that establishes a handler is a late one.
ServeOK ==
    phase = "serve" /\ ~late => \A t \in Threads : call[t] # "establish"

\* A thread has at most one stop signal open, and the thread that runs a
\* handler had.
OpenOf(t) ==
    phase = "serve" \/ handlers[t] # <<>> =>
      \A a, b \in StopSignals \ Base(t) : a = b

\* A thread in a call blocks the stop signals.
BlockedOf(t) == at[t] # "idle" => StopSignals \subseteq Base(t)

Discipline ==
    /\ SetupOK /\ ServeOK /\ NoStopLost
    /\ \A t \in Threads : OpenOf(t) /\ BlockedOf(t)

-----------------------------------------------------------------------------
\* What a step of a thread leaves alone.

\* What a call into the library may change before it takes the mutex.
LEMMA CallEffect ==
    ASSUME TypeOK, NEW t \in Threads, CallStep(t)
    PROVE  /\ handlers[t] = <<>> /\ at[t] = "idle" /\ phase # "killed"
           /\ phase = "setup" => t = Main
           /\ UNCHANGED <<handlers, mutex, phase, pending, flagVars>>
           /\ late => late'
           /\ \/ at'[t] = "idle" /\ call'[t] = "none"
              \/ at'[t] = "lock" /\ call'[t] # "none"
              \/ at'[t] = at[t] /\ call'[t] = call[t]
           /\ \A u \in Threads \ {t} :
                at'[u] = at[u] /\ call'[u] = call[u] /\ mask'[u] = mask[u]
<1>1. /\ Idle(t)
      /\ UNCHANGED <<handlers, mutex, phase, flagVars>>
      /\ \/ UNCHANGED threadVars
         \/ \E r \in {-1, 0, 1} : Return(t, r)
         \/ \E f \in {"establish", "is_running", "stop"} : Enter(t, f, "lock")
      /\ mask' = mask \/ \E m : mask' = [mask EXCEPT ![t] = m]
  BY DEF CallStep, EstablishFail, Sigaction, FlagCall, BlockSignals,
         UnblockSignals, MaskFail, BlockSignal, BlockSignalRefuse,
         BlockAllSignals, UnblockAllSignals, SetMask, vars, threadVars, flagVars
<1>0. pending' = pending /\ (late => late')
  <2>1. ASSUME NEW s \in Signals, Sigaction(t, s) PROVE <1>0
    BY <2>1 DEF Sigaction
  <2>2. ASSUME ~\E s \in Signals : Sigaction(t, s) PROVE kernelVars' = kernelVars
    BY <2>2 DEF CallStep, EstablishFail, FlagCall, BlockSignals,
                UnblockSignals, MaskFail, BlockSignal, BlockSignalRefuse,
                BlockAllSignals, UnblockAllSignals, SetMask, vars
  <2>3. ASSUME kernelVars' = kernelVars PROVE <1>0
    BY <2>3 DEF kernelVars
  <2> QED
    BY <2>1, <2>2, <2>3
<1>2. \A u \in Threads \ {t} : mask'[u] = mask[u]
  BY <1>1 DEF TypeOK
<1>3. /\ \/ at'[t] = "idle" /\ call'[t] = "none"
         \/ at'[t] = "lock" /\ call'[t] # "none"
         \/ at'[t] = at[t] /\ call'[t] = call[t]
      /\ \A u \in Threads \ {t} : at'[u] = at[u] /\ call'[u] = call[u]
  <2>1. CASE UNCHANGED threadVars
    BY <2>1 DEF threadVars
  <2>2. ASSUME NEW r \in {-1, 0, 1}, Return(t, r) PROVE <1>3
    BY <2>2 DEF Return, TypeOK
  <2>3. ASSUME NEW f \in {"establish", "is_running", "stop"},
               Enter(t, f, "lock")
        PROVE  <1>3
    BY <2>3 DEF Enter, TypeOK
  <2> QED
    BY <1>1, <2>1, <2>2, <2>3
<1> QED
  BY <1>0, <1>1, <1>2, <1>3 DEF Idle, Runs

\* A step of another thread, or one that touches neither t's frames nor the
\* mutex, keeps what MutexOf says of t.
LEMMA MutexFrame ==
    ASSUME NEW u \in Threads, MutexOf(u),
           handlers'[u] = handlers[u], at'[u] = at[u],
           \A k \in Nat : mutex' = <<u, k>> <=> mutex = <<u, k>>,
           Level(u) \in Nat
    PROVE  MutexOf(u)'
<1>1. Level(u)' = Level(u)
  BY DEF Level
<1> QED
  BY <1>1 DEF MutexOf

\* Init: the mutex is free.
LEMMA MutexInit == Init => MutexOK
<1> SUFFICES ASSUME Init, NEW t \in Threads PROVE MutexOf(t)
  BY DEF MutexOK
<1>1. Level(t) = 0 /\ at[t] = "idle"
  BY DEF Init, Level
<1>2. \A k \in Nat : mutex # <<t, k>>
  BY DEF Init
<1> QED
  BY <1>1, <1>2 DEF MutexOf, Inside

\* Every step keeps the mutex with the frame that locked it.
LEMMA MutexStep ==
    ASSUME TypeOK, TypeOK', MutexOK, [Next]_vars
    PROVE  MutexOK'
<1> SUFFICES ASSUME NEW u \in Threads PROVE MutexOf(u)'
  BY DEF MutexOK
<1>0. /\ \A v \in Threads : \A k \in Nat : NULL # <<v, k>>
      /\ \A v \in Threads : Level(v) \in Nat
      /\ MutexOf(u)
      /\ handlers \in [Threads -> Seq(Frame)] /\ handlers[u] \in Seq(Frame)
      /\ mask \in [Threads -> SUBSET Signals]
      /\ at \in [Threads -> {"idle", "lock", "locked", "unlock"}]
  BY DEF TypeOK, Level, MutexOK
<1>1. ASSUME NEW t \in Threads, CallStep(t) PROVE MutexOf(u)'
  <2>1. CASE u = t
    <3>1. Level(u)' = Level(u) /\ mutex' = mutex /\ handlers' = handlers
      BY <1>1, CallEffect DEF Level
    <3>2. at[u] \notin Inside /\ at'[u] \notin Inside
      BY <1>1, <2>1, CallEffect DEF Inside
    <3> QED
      BY <1>0, <3>1, <3>2 DEF MutexOf
  <2>2. CASE u # t
    BY <1>0, <1>1, <2>2, CallEffect, MutexFrame
  <2> QED
    BY <2>1, <2>2
<1>2. ASSUME NEW t \in Threads, FlagLock(t) PROVE MutexOf(u)'
  <2>1. /\ mutex = NULL /\ mutex' = <<t, 0>> /\ handlers' = handlers
        /\ handlers[t] = <<>> /\ Level(t) = 0
        /\ at' = [at EXCEPT ![t] = "locked"]
    BY <1>2 DEF FlagLock, Runs, Level, Holder
  <2>2. CASE u = t
    <3>1. Level(u)' = 0 /\ at'[u] = "locked"
      BY <1>0, <2>1, <2>2 DEF Level
    <3> QED
      BY <2>1, <2>2, <3>1 DEF MutexOf, Inside
  <2>3. CASE u # t
    BY <1>0, <2>1, <2>3, MutexFrame
  <2> QED
    BY <2>2, <2>3
<1>3. ASSUME NEW t \in Threads, FlagAccess(t) PROVE MutexOf(u)'
  <2>1. /\ at[t] = "locked" /\ at' = [at EXCEPT ![t] = "unlock"]
        /\ UNCHANGED <<mutex, handlers>> /\ Level(u)' = Level(u)
    BY <1>3 DEF FlagAccess, Level
  <2> QED
    BY <1>0, <2>1 DEF MutexOf, Inside
<1>4. ASSUME NEW t \in Threads, FlagUnlock(t) PROVE MutexOf(u)'
  <2>1. /\ at[t] = "unlock" /\ at' = [at EXCEPT ![t] = "idle"]
        /\ mutex' = NULL /\ handlers' = handlers
        /\ Level(u)' = Level(u) /\ handlers[t] = <<>> /\ Level(t) = 0
    BY <1>4 DEF FlagUnlock, Return, Level, Runs
  <2>2. mutex = <<t, 0>>
    BY <2>1 DEF MutexOK, MutexOf, Inside
  <2>3. CASE u = t
    <3>1. Level(u)' = 0 /\ at'[u] = "idle"
      BY <1>0, <2>1, <2>3
    <3> QED
      BY <1>0, <2>1, <3>1 DEF MutexOf, Inside
  <2>4. CASE u # t
    BY <1>0, <2>1, <2>2, <2>4, MutexFrame
  <2> QED
    BY <2>3, <2>4
<1>5. ASSUME NEW t \in Threads, HandlerReturn(t), handlers[t] # <<>>,
             at' = at, mutex' \in {mutex, NULL},
             mutex' = NULL \/ Top(t).at \notin Inside,
             mutex' = mutex \/ Top(t).at \in Inside
      PROVE  MutexOf(u)'
  <2>1. /\ Level(t) >= 1 /\ Level(t)' = Level(t) - 1
        /\ \A k \in 1 .. Level(t)' : handlers'[t][k] = handlers[t][k]
        /\ \A v \in Threads : v # t => handlers'[v] = handlers[v]
    BY <1>0, <1>5, PopEffect DEF Level
  <2>2. Level(t) \in 1 .. Level(t) /\ Level(t) \in Nat
    BY <1>0, <2>1
  <2>3. Top(t).at \in Inside <=> mutex = <<t, Level(t)>>
    BY <2>2 DEF MutexOK, MutexOf, Top
  <2>4. CASE u = t
    <3>1. CASE mutex' = NULL
      <4>1. mutex = <<t, Level(t)>> \/ mutex = NULL
        BY <1>5, <2>3, <3>1
      <4>2. at[t] \notin Inside
        BY <1>0, <2>1, <2>2, <2>4, <4>1 DEF MutexOf
      <4>3. \A k \in 1 .. Level(t)' : k \in 1 .. Level(t) /\ k # Level(t)
        BY <2>1, <2>2
      <4>4. \A k \in 1 .. Level(t)' : handlers[t][k].at \notin Inside
        BY <1>0, <2>2, <2>4, <4>1, <4>3 DEF MutexOf
      <4> QED
        BY <1>0, <1>5, <2>1, <2>4, <3>1, <4>2, <4>4 DEF MutexOf
    <3>2. CASE mutex' = mutex /\ mutex' # NULL
      <4>1. mutex # <<t, Level(t)>>
        BY <1>5, <2>3, <3>2
      <4>2. \A k \in 1 .. Level(t)' : k \in 1 .. Level(t)
        BY <2>1, <2>2
      <4>3. \A k \in Nat : mutex = <<t, k>> => k =< Level(t)'
        BY <1>0, <2>1, <2>2, <2>4, <4>1 DEF MutexOf
      <4> QED
        BY <1>0, <1>5, <2>1, <2>4, <3>2, <4>2, <4>3 DEF MutexOf
    <3> QED
      BY <1>5, <3>1, <3>2
  <2>5. CASE u # t
    <3>1. \A k \in Nat : mutex' = <<u, k>> <=> mutex = <<u, k>>
      BY <1>0, <1>5, <2>2, <2>3, <2>5
    <3> QED
      BY <1>0, <1>5, <2>1, <2>5, <3>1, MutexFrame
  <2> QED
    BY <2>4, <2>5
<1>6. ASSUME NEW t \in Threads, HandlerLock(t) PROVE MutexOf(u)'
  <2>1. /\ handlers[t] # <<>> /\ mutex = NULL /\ mutex' = <<t, Level(t)>>
        /\ SetTop(t, "locked") /\ at' = at
    BY <1>6 DEF HandlerLock, Holder, threadVars
  <2>2. /\ \A v \in Threads : Len(handlers'[v]) = Len(handlers[v])
        /\ \A v \in Threads, k \in Nat : k \in 1 .. Len(handlers[v]) =>
             handlers'[v][k].at = IF v = t /\ k = Len(handlers[t]) THEN "locked"
                                  ELSE handlers[v][k].at
    BY <1>0, <2>1, SetTopEffect
  <2>3. Level(u)' = Level(u) /\ Level(u) \in Nat /\ Level(t) >= 1
    BY <1>0, <2>1, <2>2 DEF Level
  <2>4. at[u] \notin Inside
    BY <1>0, <2>1 DEF MutexOf
  <2>5. mutex' # <<u, 0>>
    BY <1>0, <2>1, <2>3
  <2>6. ASSUME NEW k \in 1 .. Level(u)
        PROVE  handlers'[u][k].at \in Inside <=> mutex' = <<u, k>>
    <3>1. handlers[u][k].at \notin Inside /\ k \in Nat
      BY <1>0, <2>1 DEF MutexOf
    <3>2. handlers'[u][k].at = IF u = t /\ k = Level(t) THEN "locked"
                               ELSE handlers[u][k].at
      BY <2>2, <3>1 DEF Level
    <3> QED
      BY <2>1, <3>1, <3>2 DEF Inside
  <2> QED
    BY <1>0, <2>1, <2>3, <2>4, <2>5, <2>6 DEF MutexOf
<1>7. ASSUME NEW t \in Threads, HandlerClear(t) PROVE MutexOf(u)'
  <2>1. /\ handlers[t] # <<>> /\ mutex' = mutex /\ Top(t).at = "locked"
        /\ SetTop(t, "unlock") /\ at' = at
    BY <1>7 DEF HandlerClear, threadVars
  <2>2. /\ \A v \in Threads : Len(handlers'[v]) = Len(handlers[v])
        /\ \A v \in Threads, k \in Nat : k \in 1 .. Len(handlers[v]) =>
             handlers'[v][k].at = IF v = t /\ k = Len(handlers[t]) THEN "unlock"
                                  ELSE handlers[v][k].at
    <3>1. "unlock" \in {"enter", "locked", "unlock"}
      OBVIOUS
    <3> QED
      BY <1>0, <2>1, <3>1, SetTopEffect
  <2>3. Level(u)' = Level(u) /\ Level(u) \in Nat
    BY <1>0, <2>2 DEF Level
  <2>4. ASSUME NEW k \in 1 .. Level(u)
        PROVE  handlers'[u][k].at \in Inside <=> handlers[u][k].at \in Inside
    <3>1. handlers'[u][k].at = IF u = t /\ k = Level(t) THEN "unlock"
                               ELSE handlers[u][k].at
      BY <2>2 DEF Level
    <3> QED
      BY <2>1, <3>1 DEF Inside, Top
  <2> QED
    BY <1>0, <2>1, <2>3, <2>4 DEF MutexOf
<1>8. ASSUME NEW t \in Threads, NEW s \in Signals, Deliver(t, s)
      PROVE  MutexOf(u)'
  <2>1. /\ Level(t)' = Level(t) + 1
        /\ handlers'[t][Level(t)'].at = "enter"
        /\ \A k \in 1 .. Level(t) : handlers'[t][k] = handlers[t][k]
        /\ \A v \in Threads : v # t => handlers'[v] = handlers[v]
    <3>1. /\ Len(handlers'[t]) = Len(handlers[t]) + 1
          /\ handlers'[t][Len(handlers[t]) + 1] =
               [sig |-> s, at |-> "enter", saved |-> mask[t]]
          /\ \A k \in 1 .. Len(handlers[t]) : handlers'[t][k] = handlers[t][k]
          /\ \A v \in Threads : v # t => handlers'[v] = handlers[v]
      BY <1>0, <1>8, PushEffect
    <3> QED
      BY <3>1 DEF Level
  <2>2. mutex' = mutex /\ at' = at
    BY <1>8 DEF Deliver, threadVars
  <2>3. CASE u = t
    <3>1. \A k \in 1 .. Level(t)' : k \in 1 .. Level(t) \/ k = Level(t)'
      BY <1>0, <2>1
    <3>2. mutex # <<t, Level(t)'>>
      BY <1>0, <2>1, <2>3 DEF MutexOf
    <3>3. \A k \in 1 .. Level(t)' :
             handlers'[t][k].at \in Inside <=> mutex = <<t, k>>
      BY <1>0, <2>1, <2>3, <3>1, <3>2 DEF MutexOf, Inside
    <3>4. \A k \in Nat : mutex = <<t, k>> => k =< Level(t)'
      BY <1>0, <2>1, <2>3 DEF MutexOf
    <3>5. at[t] \in Inside <=> mutex = <<t, 0>>
      BY <1>0, <2>3 DEF MutexOf
    <3> QED
      BY <2>2, <2>3, <3>3, <3>4, <3>5 DEF MutexOf
  <2>4. CASE u # t
    BY <1>0, <2>1, <2>2, <2>4, MutexFrame
  <2> QED
    BY <2>3, <2>4
<1>9. ASSUME UNCHANGED <<mutex, at, handlers>> PROVE MutexOf(u)'
  BY <1>0, <1>9, MutexFrame
<1>10. ASSUME NEW t \in Threads, HandlerIgnore(t) \/ HandlerUnlock(t)
       PROVE  MutexOf(u)'
  BY <1>5, <1>10 DEF HandlerIgnore, HandlerUnlock, threadVars, Inside
<1>11. ASSUME NEW t \in Threads, InsideStep(t) PROVE MutexOf(u)'
  BY <1>2, <1>3, <1>4, <1>6, <1>7, <1>10, <1>11 DEF InsideStep
<1>12. ASSUME \/ \E s \in Signals : Raise(s)
              \/ \E t \in Threads, s \in Signals : Kill(t, s)
              \/ StartThreads \/ Killed \/ UNCHANGED vars
       PROVE  MutexOf(u)'
  BY <1>9, <1>12 DEF Raise, Kill, StartThreads, Killed, vars, threadVars
<1> QED
  BY <1>1, <1>8, <1>11, <1>12 DEF Next

\* Every step keeps StopFrames.
LEMMA StopFramesStep ==
    ASSUME TypeOK, StopFrames, [Next]_vars
    PROVE  StopFrames'
<1> SUFFICES ASSUME NEW u \in Threads PROVE StopFramesOf(u)'
  BY DEF StopFrames
<1>0. /\ \A v \in Threads : Level(v) \in Nat
      /\ StopFramesOf(u)
      /\ handlers \in [Threads -> Seq(Frame)]
      /\ mask \in [Threads -> SUBSET Signals]
  BY DEF TypeOK, Level, StopFrames
<1>1. ASSUME handlers'[u] = handlers[u] PROVE StopFramesOf(u)'
  BY <1>0, <1>1 DEF StopFramesOf, Level
<1>2. ASSUME NEW t \in Threads, HandlerReturn(t), handlers[t] # <<>>
      PROVE  StopFramesOf(u)'
  <2>1. /\ Level(t) >= 1 /\ Level(t)' = Level(t) - 1
        /\ \A k \in 1 .. Level(t)' : handlers'[t][k] = handlers[t][k]
        /\ \A v \in Threads : v # t => handlers'[v] = handlers[v]
    <3>1. /\ Len(handlers[t]) \in Nat \ {0}
          /\ Len(handlers'[t]) = Len(handlers[t]) - 1
          /\ \A k \in 1 .. Len(handlers'[t]) : handlers'[t][k] = handlers[t][k]
          /\ \A v \in Threads : v # t => handlers'[v] = handlers[v]
      BY <1>0, <1>2, PopEffect
    <3> QED
      BY <3>1 DEF Level
  <2>2. \A k \in 1 .. Level(t)' : k \in 1 .. Level(t)
    BY <1>0, <2>1
  <2>3. CASE u = t
    BY <1>0, <2>1, <2>2, <2>3 DEF StopFramesOf
  <2> QED
    BY <1>1, <2>1, <2>3
<1>3. ASSUME NEW t \in Threads, NEW l \in {"locked", "unlock"}, SetTop(t, l),
             handlers[t] # <<>>, Top(t).sig \in StopSignals
      PROVE  StopFramesOf(u)'
  <2>1. l \in {"enter", "locked", "unlock"}
    OBVIOUS
  <2>2. /\ \A v \in Threads : Len(handlers'[v]) = Len(handlers[v])
        /\ \A v \in Threads, k \in Nat : k \in 1 .. Len(handlers[v]) =>
             /\ handlers'[v][k].sig = handlers[v][k].sig
             /\ handlers'[v][k].at = IF v = t /\ k = Len(handlers[t]) THEN l
                                     ELSE handlers[v][k].at
    BY <1>0, <1>3, <2>1, SetTopEffect
  <2>3. Level(u)' = Level(u) /\ Level(u) \in Nat
    BY <1>0, <2>2 DEF Level
  <2>4. ASSUME NEW k \in 1 .. Level(u), handlers'[u][k].at \in Inside
        PROVE  handlers'[u][k].sig \in StopSignals
    <3>1. /\ handlers'[u][k].sig = handlers[u][k].sig
          /\ handlers'[u][k].at = IF u = t /\ k = Level(t) THEN l
                                  ELSE handlers[u][k].at
      BY <2>2 DEF Level
    <3>2. CASE u = t /\ k = Level(t)
      BY <1>3, <3>1, <3>2 DEF Top
    <3>3. CASE ~(u = t /\ k = Level(t))
      BY <1>0, <2>4, <3>1, <3>3 DEF StopFramesOf
    <3> QED
      BY <3>2, <3>3
  <2> QED
    BY <2>3, <2>4 DEF StopFramesOf
<1>4. ASSUME NEW t \in Threads, NEW s \in Signals, Deliver(t, s)
      PROVE  StopFramesOf(u)'
  <2>1. /\ Level(t)' = Level(t) + 1
        /\ handlers'[t][Level(t)'].at = "enter"
        /\ \A k \in 1 .. Level(t) : handlers'[t][k] = handlers[t][k]
        /\ \A v \in Threads : v # t => handlers'[v] = handlers[v]
    <3>1. /\ Len(handlers'[t]) = Len(handlers[t]) + 1
          /\ handlers'[t][Len(handlers[t]) + 1] =
               [sig |-> s, at |-> "enter", saved |-> mask[t]]
          /\ \A k \in 1 .. Len(handlers[t]) : handlers'[t][k] = handlers[t][k]
          /\ \A v \in Threads : v # t => handlers'[v] = handlers[v]
      BY <1>0, <1>4, PushEffect
    <3> QED
      BY <3>1 DEF Level
  <2>2. \A k \in 1 .. Level(t)' : k \in 1 .. Level(t) \/ k = Level(t)'
    BY <1>0, <2>1
  <2>3. CASE u = t
    BY <1>0, <2>1, <2>2, <2>3 DEF StopFramesOf, Inside
  <2> QED
    BY <1>1, <2>1, <2>3
<1>5. ASSUME NEW t \in Threads, HandlerLock(t) \/ HandlerClear(t)
      PROVE  StopFramesOf(u)'
  <2>1. handlers[t] # <<>> /\ \E l \in {"locked", "unlock"} : SetTop(t, l)
    BY <1>5 DEF HandlerLock, HandlerClear
  <2>2. Level(t) \in 1 .. Level(t)
    BY <1>0, <2>1 DEF Level
  <2>3. Top(t).sig \in StopSignals
    BY <1>5, <2>2 DEF HandlerLock, HandlerClear, StopFrames, StopFramesOf, Top, Inside
  <2> QED
    BY <1>3, <2>1, <2>3
<1>6. ASSUME NEW t \in Threads, InsideStep(t) PROVE StopFramesOf(u)'
  BY <1>1, <1>2, <1>5, <1>6
     DEF InsideStep, HandlerIgnore, HandlerUnlock, FlagLock, FlagAccess, FlagUnlock
<1>7. ASSUME NEW t \in Threads, CallStep(t) PROVE StopFramesOf(u)'
  BY <1>1, <1>7, CallEffect
<1>8. ASSUME \/ \E s \in Signals : Raise(s)
             \/ \E t \in Threads, s \in Signals : Kill(t, s)
             \/ StartThreads \/ Killed \/ UNCHANGED vars
       PROVE  StopFramesOf(u)'
  BY <1>1, <1>8 DEF Raise, Kill, StartThreads, Killed, vars
<1> QED
  BY <1>4, <1>6, <1>7, <1>8 DEF Next

\* A thread with no handler on it satisfies MaskOf.
LEMMA EmptyMask ==
    ASSUME NEW u \in Threads, handlers[u] = <<>> PROVE MaskOf(u)
BY DEF MaskOf, Base, Level

\* Every step keeps MasksOK.
LEMMA MasksStep ==
    ASSUME TypeOK, MasksOK, SetupOK, [Next]_vars
    PROVE  /\ MasksOK'
           /\ \A u \in Threads :
                Base(u)' = Base(u) \/ CallStep(u) \/ StartThreads
<1> SUFFICES ASSUME NEW u \in Threads
             PROVE  /\ MaskOf(u)'
                    /\ Base(u)' = Base(u) \/ CallStep(u) \/ StartThreads
  BY DEF MasksOK
<1> DEFINE Goal == /\ MaskOf(u)'
                   /\ Base(u)' = Base(u) \/ CallStep(u) \/ StartThreads
<1>0. /\ \A v \in Threads : Level(v) \in Nat /\ Level(v)' = Len(handlers'[v])
      /\ \A v \in Threads : handlers[v] = <<>> <=> Level(v) = 0
      /\ MaskOf(u)
      /\ handlers \in [Threads -> Seq(Frame)]
      /\ mask \in [Threads -> SUBSET Signals]
  BY DEF TypeOK, Level, MasksOK
<1>1. ASSUME handlers'[u] = handlers[u], mask'[u] = mask[u] PROVE Goal
  BY <1>0, <1>1 DEF MaskOf, Base, Level
<1>2. ASSUME handlers'[u] = <<>> PROVE MaskOf(u)'
  BY <1>2 DEF MaskOf, Base, Level
<1>3. ASSUME NEW t \in Threads, HandlerReturn(t), handlers[t] # <<>>
      PROVE  Goal
  <2>1. /\ Level(t) >= 1 /\ Level(t)' = Level(t) - 1
        /\ \A k \in 1 .. Level(t)' : handlers'[t][k] = handlers[t][k]
        /\ mask'[t] = handlers[t][Level(t)].saved
        /\ \A v \in Threads : v # t => handlers'[v] = handlers[v]
                                      /\ mask'[v] = mask[v]
    BY <1>0, <1>3, PopEffect DEF Level
  <2>2. CASE u = t /\ handlers'[u] # <<>>
    <3>1. Level(t)' >= 1
      BY <1>0, <2>1, <2>2 DEF Level
    <3>2. handlers'[t][1] = handlers[t][1]
      <4>1. 1 \in 1 .. Level(t)'
        BY <1>0, <2>1, <3>1
      <4> QED
        BY <2>1, <4>1
    <3>3. Base(u)' = Base(u)
      BY <1>3, <2>2, <3>2 DEF Base
    <3>4. \A k \in 1 .. Level(t)' :
            k \in 1 .. Level(t) /\ Level(t) \in k + 1 .. Level(t)
      BY <1>0, <2>1
    <3>5. \A k \in 1 .. Level(t)' : \A j \in k + 1 .. Level(t)' :
            j \in 1 .. Level(t)' /\ j \in k + 1 .. Level(t)
      BY <1>0, <2>1
    <3>6. Level(t) \in 1 .. Level(t)
      BY <1>0, <2>1
    <3>7. Base(u) \subseteq mask'[u]
      BY <1>0, <2>1, <2>2, <3>6 DEF MaskOf
    <3>8. ASSUME NEW k \in 1 .. Level(u)'
          PROVE  /\ handlers'[u][k].sig \in mask'[u]
                 /\ handlers'[u][k].sig \notin handlers'[u][k].saved
                 /\ Base(u) \subseteq handlers'[u][k].saved
                 /\ \A j \in k + 1 .. Level(u)' :
                      handlers'[u][k].sig \in handlers'[u][j].saved
      <4>1. k \in 1 .. Level(t)' /\ k \in 1 .. Level(t)
        BY <2>2, <3>4
      <4>2. handlers'[u][k] = handlers[u][k]
        BY <2>1, <2>2, <4>1
      <4>3. /\ handlers[u][k].sig \notin handlers[u][k].saved
            /\ Base(u) \subseteq handlers[u][k].saved
            /\ \A j \in k + 1 .. Level(t) :
                 handlers[u][k].sig \in handlers[u][j].saved
        BY <1>0, <2>2, <4>1 DEF MaskOf
      <4>4. handlers[u][k].sig \in mask'[u]
        BY <2>1, <2>2, <3>4, <4>1, <4>3
      <4>5. ASSUME NEW j \in k + 1 .. Level(t)'
            PROVE  handlers[u][k].sig \in handlers'[u][j].saved
        BY <2>1, <2>2, <3>5, <4>1, <4>3
      <4> QED
        BY <2>2, <4>2, <4>3, <4>4, <4>5
    <3> QED
      BY <3>3, <3>7, <3>8 DEF MaskOf
  <2>3. CASE u = t /\ handlers'[u] = <<>>
    <3>1. Level(t) = 1
      BY <1>0, <2>1, <2>3 DEF Level
    <3>2. Base(u)' = Base(u)
      BY <1>3, <2>1, <2>3, <3>1 DEF Base
    <3> QED
      BY <1>2, <2>3, <3>2
  <2> QED
    BY <1>1, <2>1, <2>2, <2>3
<1>4. ASSUME NEW t \in Threads, NEW l \in {"enter", "locked", "unlock"},
             SetTop(t, l), handlers[t] # <<>>, mask' = mask
      PROVE  Goal
  <2>1. /\ \A v \in Threads : Len(handlers'[v]) = Len(handlers[v])
        /\ \A v \in Threads, k \in Nat : k \in 1 .. Len(handlers[v]) =>
             /\ handlers'[v][k].sig = handlers[v][k].sig
             /\ handlers'[v][k].saved = handlers[v][k].saved
        /\ handlers' \in [Threads -> Seq(Frame)]
    BY <1>0, <1>4, SetTopEffect
  <2>2. /\ Level(u)' = Level(u) /\ Level(u) \in Nat
        /\ handlers'[u] = <<>> <=> handlers[u] = <<>>
        /\ \A k \in 1 .. Level(u) :
             /\ handlers'[u][k].sig = handlers[u][k].sig
             /\ handlers'[u][k].saved = handlers[u][k].saved
    BY <1>0, <2>1 DEF Level
  <2>3. Base(u)' = Base(u)
    <3>1. CASE handlers[u] = <<>>
      BY <1>4, <2>2, <3>1 DEF Base
    <3>2. CASE handlers[u] # <<>>
      <4>1. 1 \in 1 .. Level(u)
        BY <1>0, <3>2
      <4> QED
        BY <2>2, <3>2, <4>1 DEF Base
    <3> QED
      BY <3>1, <3>2
  <2>4. \A k \in 1 .. Level(u) : \A j \in k + 1 .. Level(u) : j \in 1 .. Level(u)
    BY <2>2
  <2>5. ASSUME NEW k \in 1 .. Level(u)
        PROVE  /\ handlers'[u][k].sig \in mask'[u]
               /\ handlers'[u][k].sig \notin handlers'[u][k].saved
               /\ Base(u) \subseteq handlers'[u][k].saved
               /\ \A j \in k + 1 .. Level(u) :
                    handlers'[u][k].sig \in handlers'[u][j].saved
    <3>1. /\ handlers[u][k].sig \in mask[u]
          /\ handlers[u][k].sig \notin handlers[u][k].saved
          /\ Base(u) \subseteq handlers[u][k].saved
          /\ \A j \in k + 1 .. Level(u) :
               handlers[u][k].sig \in handlers[u][j].saved
      BY <1>0 DEF MaskOf
    <3> QED
      BY <1>4, <2>2, <2>4, <3>1
  <2>6. Base(u) \subseteq mask'[u]
    BY <1>0, <1>4 DEF MaskOf
  <2> QED
    BY <2>2, <2>3, <2>5, <2>6 DEF MaskOf
<1>5. ASSUME NEW t \in Threads, NEW s \in Signals, Deliver(t, s) PROVE Goal
  <2>1. /\ Level(t)' = Level(t) + 1
        /\ handlers'[t][Level(t)'].sig = s
        /\ handlers'[t][Level(t)'].saved = mask[t]
        /\ \A k \in 1 .. Level(t) : handlers'[t][k] = handlers[t][k]
        /\ mask'[t] = mask[t] \cup {s}
        /\ \A v \in Threads : v # t => handlers'[v] = handlers[v]
                                      /\ mask'[v] = mask[v]
    <3>1. /\ Len(handlers'[t]) = Len(handlers[t]) + 1
          /\ handlers'[t][Len(handlers[t]) + 1] =
               [sig |-> s, at |-> "enter", saved |-> mask[t]]
          /\ \A k \in 1 .. Len(handlers[t]) : handlers'[t][k] = handlers[t][k]
          /\ mask'[t] = mask[t] \cup {s}
          /\ \A v \in Threads : v # t => handlers'[v] = handlers[v]
                                        /\ mask'[v] = mask[v]
      BY <1>0, <1>5, PushEffect
    <3> QED
      BY <3>1 DEF Level
  <2>2. s \notin mask[t]
    BY <1>5 DEF Deliver
  <2>3. CASE u = t
    <3>1. \A k \in 1 .. Level(t)' : k \in 1 .. Level(t) \/ k = Level(t)'
      BY <1>0, <2>1
    <3>2. handlers'[u] # <<>>
      BY <1>0, <2>1, <2>3 DEF Level
    <3>3. Base(u)' = Base(u)
      <4>1. CASE handlers[u] = <<>>
        BY <1>0, <2>1, <2>3, <3>2, <4>1 DEF Base
      <4>2. CASE handlers[u] # <<>>
        <5>1. 1 \in 1 .. Level(u)
          BY <1>0, <4>2
        <5> QED
          BY <2>1, <2>3, <3>2, <4>2, <5>1 DEF Base
      <4> QED
        BY <4>1, <4>2
    <3>4. Base(u) \subseteq mask[u]
      BY <1>0 DEF MaskOf
    <3>5. ASSUME NEW k \in 1 .. Level(u)'
          PROVE  /\ handlers'[u][k].sig \in mask'[u]
                 /\ handlers'[u][k].sig \notin handlers'[u][k].saved
                 /\ Base(u) \subseteq handlers'[u][k].saved
                 /\ \A j \in k + 1 .. Level(u)' :
                      handlers'[u][k].sig \in handlers'[u][j].saved
      <4>1. CASE k \in 1 .. Level(u)
        <5>1. handlers'[u][k] = handlers[u][k]
          BY <2>1, <2>3, <4>1
        <5>2. /\ handlers[u][k].sig \in mask[u]
              /\ handlers[u][k].sig \notin handlers[u][k].saved
              /\ Base(u) \subseteq handlers[u][k].saved
              /\ \A j \in k + 1 .. Level(u) :
                   handlers[u][k].sig \in handlers[u][j].saved
          BY <1>0, <4>1 DEF MaskOf
        <5>3. ASSUME NEW j \in k + 1 .. Level(u)'
              PROVE  handlers[u][k].sig \in handlers'[u][j].saved
          <6>1. j = Level(u)' \/ (j \in k + 1 .. Level(u) /\ j \in 1 .. Level(u))
            BY <1>0, <2>1, <2>3, <4>1
          <6> QED
            BY <2>1, <2>3, <5>2, <6>1
        <5> QED
          BY <2>1, <2>3, <5>1, <5>2, <5>3
      <4>2. CASE k = Level(u)'
        <5>1. \A j \in k + 1 .. Level(u)' : FALSE
          BY <1>0, <2>1, <2>3, <4>2
        <5> QED
          BY <2>1, <2>2, <2>3, <3>4, <4>2, <5>1
      <4> QED
        BY <2>3, <3>1, <4>1, <4>2
    <3>6. Base(u) \subseteq mask'[u]
      BY <2>1, <2>3, <3>4
    <3> QED
      BY <3>3, <3>5, <3>6 DEF MaskOf
  <2> QED
    BY <1>1, <2>1, <2>3
<1>6. ASSUME NEW t \in Threads, InsideStep(t) PROVE Goal
  <2>1. CASE FlagLock(t) \/ FlagAccess(t) \/ FlagUnlock(t)
    BY <1>1, <2>1 DEF FlagLock, FlagAccess, FlagUnlock
  <2>2. CASE HandlerIgnore(t) \/ HandlerUnlock(t)
    BY <1>3, <2>2 DEF HandlerIgnore, HandlerUnlock
  <2>3. CASE HandlerLock(t)
    BY <1>4, <2>3 DEF HandlerLock
  <2>4. CASE HandlerClear(t)
    BY <1>4, <2>4 DEF HandlerClear
  <2> QED
    BY <1>6, <2>1, <2>2, <2>3, <2>4 DEF InsideStep
<1>7. ASSUME NEW t \in Threads, CallStep(t) PROVE Goal
  BY <1>1, <1>2, <1>7, CallEffect
<1>8. ASSUME StartThreads PROVE Goal
  <2>1. handlers' = handlers /\ phase = "setup" /\ handlers[Main] = <<>>
    BY <1>8 DEF StartThreads, Idle, Runs
  <2>2. handlers'[u] = <<>>
    BY <2>1 DEF SetupOK
  <2> QED
    BY <1>2, <1>8, <2>2
<1>9. ASSUME \/ \E s \in Signals : Raise(s)
             \/ \E t \in Threads, s \in Signals : Kill(t, s)
             \/ Killed \/ UNCHANGED vars
      PROVE  Goal
  BY <1>1, <1>9 DEF Raise, Kill, Killed, vars
<1> QED
  BY <1>5, <1>6, <1>7, <1>8, <1>9 DEF Next
-----------------------------------------------------------------------------
\* The discipline of the callers

\* Every step keeps CallsOK.
LEMMA CallsStep ==
    ASSUME TypeOK, CallsOK, [Next]_vars
    PROVE  CallsOK'
<1>1. ASSUME UNCHANGED threadVars PROVE CallsOK'
  BY <1>1 DEF CallsOK, threadVars
<1>2. ASSUME NEW t \in Threads, CallStep(t) PROVE CallsOK'
  BY <1>2, CallEffect DEF CallsOK
<1>3. ASSUME NEW t \in Threads, FlagLock(t) \/ FlagAccess(t) PROVE CallsOK'
  BY <1>3 DEF FlagLock, FlagAccess, CallsOK, TypeOK
<1>4. ASSUME NEW t \in Threads, FlagUnlock(t) PROVE CallsOK'
  BY <1>4 DEF FlagUnlock, Return, CallsOK, TypeOK
<1>5. ASSUME NEW t \in Threads, InsideStep(t) PROVE CallsOK'
  BY <1>1, <1>3, <1>4, <1>5
     DEF InsideStep, HandlerIgnore, HandlerLock, HandlerClear, HandlerUnlock
<1>6. ASSUME \/ \E s \in Signals : Raise(s)
             \/ \E t \in Threads, s \in Signals : Deliver(t, s) \/ Kill(t, s)
             \/ StartThreads \/ Killed \/ UNCHANGED vars
      PROVE  CallsOK'
  BY <1>1, <1>6 DEF Raise, Deliver, Kill, StartThreads, Killed, vars
<1> QED
  BY <1>2, <1>5, <1>6 DEF Next

\* A set with at most one element.
LEMMA AtMostOne ==
    ASSUME NEW S, IsFiniteSet(S), Cardinality(S) =< 1, NEW a \in S, NEW b \in S
    PROVE  a = b
<1> SUFFICES ASSUME a # b PROVE FALSE
  OBVIOUS
<1>1. IsFiniteSet({a}) /\ Cardinality({a}) = 1
  BY FS_Singleton
<1>2. /\ IsFiniteSet({a} \cup {b})
      /\ Cardinality({a} \cup {b}) =
           IF b \in {a} THEN Cardinality({a}) ELSE Cardinality({a}) + 1
  BY <1>1, FS_AddElement
<1>3. {a} \cup {b} \in SUBSET S
  OBVIOUS
<1>4. Cardinality({a} \cup {b}) =< Cardinality(S)
  BY <1>3, FS_Subset
<1>5. b \notin {a} /\ Cardinality(S) \in Nat
  BY FS_CardinalityType
<1> QED
  BY <1>1, <1>2, <1>4, <1>5

\* What a call does to the mask: as long as the threads have not started it
\* only grows, and afterwards it leaves at most MaxOpen stop signals open.
LEMMA CallMask ==
    ASSUME TypeOK, CallsOK, Masked, MaxOpen =< 1, NEW t \in Threads, CallStep(t)
    PROVE  /\ phase = "setup" => mask[t] \subseteq mask'[t]
           /\ \/ StopSignals \cap mask[t] \subseteq mask'[t]
              \/ \A a, b \in StopSignals \ mask'[t] : a = b
           /\ at'[t] # "idle" => mask'[t] = mask[t] /\ StopSignals \subseteq mask[t]
           /\ installed' # installed =>
                StopSignals \subseteq mask[t] /\ mask'[t] = mask[t]
           /\ call'[t] = "establish" => phase = "setup" \/ late'
           /\ call'[t] \in {"none", "establish"} \/ phase = "serve"
<1>0. /\ mask \in [Threads -> SUBSET Signals]
      /\ call \in [Threads -> {"none", "establish", "is_running", "stop"}]
      /\ at \in [Threads -> {"idle", "lock", "locked", "unlock"}]
      /\ at[t] = "idle"
  BY CallEffect DEF TypeOK
<1>1. call[t] = "none"
  BY <1>0 DEF CallsOK
<1> DEFINE Quiet == at'[t] = "idle" /\ call'[t] = "none" /\ installed' = installed
<1>2. ASSUME NEW r, Return(t, r) PROVE at'[t] = "idle" /\ call'[t] = "none"
  BY <1>0, <1>2 DEF Return
<1>3. ASSUME EstablishFail(t) PROVE Quiet /\ mask' = mask
  BY <1>2, <1>3 DEF EstablishFail, kernelVars
<1>4. ASSUME NEW s \in Signals, Sigaction(t, s)
      PROVE  /\ mask' = mask /\ StopSignals \subseteq mask[t]
             /\ phase = "setup" \/ late'
             /\ call'[t] = "establish"
  BY <1>0, <1>4 DEF Sigaction, Enter, Idle, Runs, TypeOK
<1>5. ASSUME NEW f \in {"is_running", "stop"}, FlagCall(t, f)
      PROVE  /\ mask' = mask /\ StopSignals \subseteq mask[t]
             /\ installed' = installed /\ call'[t] # "establish"
             /\ phase = "serve"
  BY <1>0, <1>5 DEF FlagCall, Enter, kernelVars
<1>6. ASSUME NEW S \in SUBSET Signals, BlockSignals(t, S)
      PROVE  Quiet /\ mask'[t] = mask[t] \cup S
  BY <1>0, <1>2, <1>6 DEF BlockSignals, SetMask, kernelVars
<1>7. ASSUME NEW S \in SUBSET Signals, UnblockSignals(t, S)
      PROVE  Quiet /\ phase = "serve" /\ \A a, b \in StopSignals \ mask'[t] : a = b
  <2>1. /\ Quiet /\ phase = "serve"
        /\ mask'[t] = mask[t] \ S
        /\ Cardinality(StopSignals \ mask'[t]) =< MaxOpen
    BY <1>0, <1>2, <1>7 DEF UnblockSignals, SetMask, kernelVars
  <2>2. IsFiniteSet(StopSignals \ mask'[t])
    BY FS_Subset
  <2>3. Cardinality(StopSignals \ mask'[t]) =< 1
    BY <2>1, <2>2, FS_CardinalityType
  <2> QED
    BY <2>1, <2>2, <2>3, AtMostOne
<1>8. ASSUME MaskFail(t) PROVE Quiet /\ mask' = mask
  BY <1>2, <1>8 DEF MaskFail, kernelVars
<1>9. ASSUME NEW s \in Signals, BlockSignal(t, s)
      PROVE  Quiet /\ mask'[t] = mask[t] \cup {s}
  BY <1>0, <1>1, <1>9 DEF BlockSignal, kernelVars, threadVars
<1>10. ASSUME BlockSignalRefuse(t) PROVE Quiet /\ mask' = mask
  BY <1>0, <1>1, <1>10 DEF BlockSignalRefuse, vars, kernelVars, threadVars
<1>11. ASSUME BlockAllSignals(t) PROVE Quiet /\ mask'[t] = Signals
  BY <1>0, <1>2, <1>11 DEF BlockAllSignals, SetMask, kernelVars
<1>12. ASSUME UnblockAllSignals(t) PROVE Quiet /\ mask'[t] = mask[t]
  BY <1>0, <1>2, <1>12 DEF UnblockAllSignals, SetMask, kernelVars
<1>13. mask[t] \subseteq Signals
  BY <1>0
<1> HIDE DEF Quiet
<1>14. Quiet => at'[t] = "idle" /\ call'[t] = "none" /\ installed' = installed
  BY DEF Quiet
<1> DEFINE Goal ==
      /\ phase = "setup" => mask[t] \subseteq mask'[t]
      /\ \/ StopSignals \cap mask[t] \subseteq mask'[t]
         \/ \A a, b \in StopSignals \ mask'[t] : a = b
      /\ at'[t] # "idle" => mask'[t] = mask[t] /\ StopSignals \subseteq mask[t]
      /\ installed' # installed =>
           StopSignals \subseteq mask[t] /\ mask'[t] = mask[t]
      /\ call'[t] = "establish" => phase = "setup" \/ late'
      /\ call'[t] \in {"none", "establish"} \/ phase = "serve"
<1>15. ASSUME Quiet, mask[t] \subseteq mask'[t] PROVE Goal
  BY <1>14, <1>15
<1>16. ASSUME NEW S \in SUBSET Signals, BlockSignals(t, S) PROVE Goal
  BY <1>6, <1>15, <1>16
<1>17. ASSUME NEW S \in SUBSET Signals, UnblockSignals(t, S) PROVE Goal
  BY <1>7, <1>14, <1>17
<1>18. ASSUME NEW s \in Signals, BlockSignal(t, s) PROVE Goal
  BY <1>9, <1>15, <1>18
<1>19. ASSUME EstablishFail(t) \/ MaskFail(t) \/ BlockSignalRefuse(t) \/ BlockAllSignals(t)
                \/ UnblockAllSignals(t)
       PROVE  Goal
  BY <1>3, <1>8, <1>10, <1>11, <1>12, <1>13, <1>15, <1>19
<1>20. ASSUME NEW s \in Signals, Sigaction(t, s) PROVE Goal
  BY <1>4, <1>20
<1>21. ASSUME NEW f \in {"is_running", "stop"}, FlagCall(t, f) PROVE Goal
  BY <1>5, <1>21
<1>22. Goal
  BY <1>16, <1>17, <1>18, <1>19, <1>20, <1>21 DEF CallStep
<1> QED
  BY <1>22
\* What a thread inside the library changes of its call.
LEMMA InsideEffect ==
    ASSUME TypeOK, NEW t \in Threads, InsideStep(t)
    PROVE  /\ phase # "killed" /\ UNCHANGED <<phase, kernelVars>>
           /\ \A u \in Threads : call'[u] \in {call[u], "none"}
           /\ \A u \in Threads : at[u] = "idle" => at'[u] = "idle"
           /\ \A u \in Threads : at'[u] = at[u] \/ u = t
           /\ handlers[t] = <<>> => /\ handlers' = handlers /\ mask' = mask
                                   /\ at[t] # "idle"
<1>1. CASE FlagLock(t)
  BY <1>1 DEF FlagLock, Runs, kernelVars, TypeOK
<1>2. CASE FlagAccess(t)
  BY <1>2 DEF FlagAccess, Runs, kernelVars, TypeOK
<1>3. CASE FlagUnlock(t)
  BY <1>3 DEF FlagUnlock, Return, Runs, kernelVars, TypeOK
<1>4. CASE HandlerIgnore(t) \/ HandlerLock(t) \/ HandlerClear(t) \/ HandlerUnlock(t)
  BY <1>4 DEF HandlerIgnore, HandlerLock, HandlerClear, HandlerUnlock,
              kernelVars, threadVars
<1> QED
  BY <1>1, <1>2, <1>3, <1>4 DEF InsideStep

\* Every step keeps SetupOK.
LEMMA SetupStep ==
    ASSUME TypeOK, TypeOK', CallsOK, MasksOK, Masked, MaxOpen =< 1, SetupOK,
           [Next]_vars
    PROVE  SetupOK'
<1> DEFINE Goal ==
      /\ \A t \in Threads : call'[t] \in {"none", "establish"}
      /\ \A t \in Threads \ {Main} : handlers'[t] = <<>> /\ at'[t] = "idle"
      /\ installed' # {} => StopSignals \subseteq Base(Main)'
      /\ stopped' => pending' \cap StopSignals # {}
<1> SUFFICES ASSUME phase' = "setup" PROVE Goal
  BY DEF SetupOK
<1>0. ASSUME phase = "setup"
      PROVE  /\ \A t \in Threads : call[t] \in {"none", "establish"}
             /\ \A t \in Threads \ {Main} : handlers[t] = <<>> /\ at[t] = "idle"
             /\ installed # {} => StopSignals \subseteq Base(Main)
             /\ stopped => pending \cap StopSignals # {}
  BY <1>0 DEF SetupOK
<1>1. ASSUME NEW t \in Threads, CallStep(t) PROVE Goal
  <2>1. /\ phase = "setup" /\ t = Main /\ handlers[Main] = <<>>
        /\ UNCHANGED <<handlers, stopped, pending>>
        /\ \A u \in Threads \ {t} : at'[u] = at[u] /\ call'[u] = call[u]
    BY <1>1, CallEffect DEF flagVars
  <2>2. /\ mask[t] \subseteq mask'[t]
        /\ installed' # installed =>
             StopSignals \subseteq mask[t] /\ mask'[t] = mask[t]
        /\ call'[t] \in {"none", "establish"}
    BY <1>1, <2>1, CallMask
  <2>3. Base(Main) = mask[Main] /\ Base(Main)' = mask'[Main]
    BY <2>1 DEF Base
  <2> QED
    BY <1>0, <2>1, <2>2, <2>3
<1>2. ASSUME NEW t \in Threads, InsideStep(t) PROVE Goal
  <2>1. /\ phase = "setup" /\ UNCHANGED <<installed, pending>>
        /\ \A u \in Threads : call'[u] \in {call[u], "none"}
        /\ \A u \in Threads : at[u] = "idle" => at'[u] = "idle"
    BY <1>2, InsideEffect DEF kernelVars
  <2>2. t = Main
    <3> SUFFICES ASSUME t # Main PROVE FALSE
      OBVIOUS
    <3>1. handlers[t] = <<>> /\ at[t] = "idle"
      BY <1>0, <2>1
    <3> QED
      BY <1>2, <3>1, InsideEffect
  <2>3. \A u \in Threads \ {Main} : handlers'[u] = handlers[u]
    <3>1. handlers' = handlers \/ (\E l : SetTop(t, l)) \/ HandlerReturn(t)
      BY <1>2 DEF InsideStep, FlagLock, FlagAccess, FlagUnlock, HandlerIgnore,
                  HandlerLock, HandlerClear, HandlerUnlock
    <3> QED
      BY <2>2, <3>1 DEF SetTop, HandlerReturn, TypeOK
  <2>4. Base(Main)' = Base(Main)
    <3>1. CallStep(Main) => at[Main] = "idle" /\ handlers[Main] = <<>>
      BY CallEffect
    <3>2. ~(at[Main] = "idle" /\ handlers[Main] = <<>>)
      BY <1>2, <2>2, InsideEffect
    <3>3. ~StartThreads
      BY DEF StartThreads
    <3> QED
      BY <3>1, <3>2, <3>3, MasksStep
  <2>5. stopped' = stopped
    <3>1. \A u \in Threads : call[u] # "stop"
      BY <1>0, <2>1
    <3> QED
      BY <1>2, <3>1
         DEF InsideStep, FlagLock, FlagAccess, FlagUnlock, HandlerIgnore,
             HandlerLock, HandlerClear, HandlerUnlock, flagVars, TypeOK
  <2> QED
    BY <1>0, <2>1, <2>3, <2>4, <2>5
<1>3. ASSUME NEW t \in Threads, NEW s \in Signals, Deliver(t, s) PROVE Goal
  <2>1. /\ phase = "setup" /\ t = Main
        /\ UNCHANGED <<call, at, installed, stopped>>
        /\ s \in installed /\ s \notin mask[Main] /\ pending' = pending \ {s}
    BY <1>3 DEF Deliver, threadVars, flagVars
  <2>2. \A u \in Threads \ {Main} : handlers'[u] = handlers[u]
    BY <1>3, <2>1 DEF Deliver, TypeOK
  <2>3. Base(Main)' = Base(Main)
    <3>1. ~CallStep(Main)
      <4>1. pending' # pending
        BY <1>3 DEF Deliver
      <4> QED
        BY <4>1, CallEffect
    <3>2. ~StartThreads
      BY DEF StartThreads
    <3> QED
      BY <3>1, <3>2, MasksStep
  <2>4. s \notin StopSignals
    <3>1. Base(Main) \subseteq mask[Main]
      BY DEF MasksOK, MaskOf
    <3> QED
      BY <1>0, <2>1, <3>1
  <2> QED
    BY <1>0, <2>1, <2>2, <2>3, <2>4
<1>4. ASSUME NEW s \in Signals, Raise(s) PROVE Goal
  <2>1. /\ phase = "setup" /\ pending' = pending \cup {s}
        /\ stopped' = (stopped \/ s \in StopSignals)
        /\ UNCHANGED <<call, at, installed, handlers, mask>>
    BY <1>4 DEF Raise, threadVars
  <2>2. Base(Main)' = Base(Main)
    BY <2>1 DEF Base
  <2> QED
    BY <1>0, <2>1, <2>2
<1>5. ASSUME Killed \/ UNCHANGED vars PROVE Goal
  <2>1. UNCHANGED <<phase, call, at, installed, handlers, mask, stopped, pending>>
    BY <1>5 DEF Killed, vars, flagVars, kernelVars, threadVars
  <2>2. Base(Main)' = Base(Main)
    BY <2>1 DEF Base
  <2> QED
    BY <1>0, <2>1, <2>2
<1> QED
  BY <1>1, <1>2, <1>3, <1>4, <1>5 DEF Next, Kill, StartThreads

\* The handlers that have yet to clear the flag survive a step that takes none
\* of them off its stack and lets none of them pass.
LEMMA UnderWayStays ==
    ASSUME StopUnderWay,
           \A t \in Threads : \A k \in 1 .. Level(t) :
             handlers[t][k].sig \in StopSignals /\ handlers[t][k].at # "unlock" =>
               /\ k \in 1 .. Level(t)'
               /\ handlers'[t][k].sig = handlers[t][k].sig
               /\ handlers'[t][k].at # "unlock"
    PROVE  StopUnderWay'
<1>0. PICK t \in Threads :
        \E k \in 1 .. Level(t) :
          handlers[t][k].sig \in StopSignals /\ handlers[t][k].at # "unlock"
  BY DEF StopUnderWay
<1>1. PICK k \in 1 .. Level(t) :
        handlers[t][k].sig \in StopSignals /\ handlers[t][k].at # "unlock"
  BY <1>0
<1>2. k \in 1 .. Level(t)' /\ handlers'[t][k].sig \in StopSignals
        /\ handlers'[t][k].at # "unlock"
  BY <1>1
<1> QED
  BY <1>2 DEF StopUnderWay

\* Every step keeps NoStopLost: before the threads start a stop signal stays
\* pending, and afterwards only a late establish_sig_handler sets the flag.
LEMMA StopStep ==
    ASSUME TypeOK, SetupOK, ServeOK, NoStopLost, [Next]_vars
    PROVE  NoStopLost'
<1>0. /\ \A v \in Threads : Level(v) \in Nat /\ Level(v)' = Len(handlers'[v])
      /\ handlers \in [Threads -> Seq(Frame)]
      /\ mask \in [Threads -> SUBSET Signals]
  BY DEF TypeOK, Level
<1>1. ASSUME gb_is_running' = 0 \/ pending' \cap StopSignals # {} \/ StopUnderWay'
      PROVE  NoStopLost'
  BY <1>1 DEF NoStopLost
<1>2. ASSUME UNCHANGED <<gb_is_running, stopped>>, phase # "killed", late => late',
             pending \cap StopSignals # {} =>
               pending' \cap StopSignals # {} \/ StopUnderWay',
             StopUnderWay => StopUnderWay'
      PROVE  NoStopLost'
  BY <1>1, <1>2 DEF NoStopLost
<1>3. ASSUME handlers' = handlers PROVE StopUnderWay => StopUnderWay'
  BY <1>3 DEF StopUnderWay, Level
<1>4. ASSUME NEW t \in Threads, CallStep(t) PROVE NoStopLost'
  BY <1>2, <1>3, <1>4, CallEffect DEF flagVars
<1>5. ASSUME NEW t \in Threads, FlagLock(t) \/ FlagUnlock(t) PROVE NoStopLost'
  BY <1>2, <1>3, <1>5 DEF FlagLock, FlagUnlock, Runs, flagVars, kernelVars
<1>6. ASSUME NEW t \in Threads, FlagAccess(t) PROVE NoStopLost'
  <2>1. /\ phase \in {"setup", "serve"} /\ handlers' = handlers
        /\ UNCHANGED <<phase, pending, late>>
    BY <1>6 DEF FlagAccess, Runs, kernelVars, TypeOK
  <2>2. CASE call[t] = "stop"
    BY <1>1, <1>6, <2>2 DEF FlagAccess
  <2>3. CASE call[t] = "establish"
    <3>1. stopped' = stopped
      BY <1>6, <2>3 DEF FlagAccess, TypeOK
    <3>2. CASE phase = "setup"
      <4>1. stopped' => pending' \cap StopSignals # {}
        BY <2>1, <3>1, <3>2 DEF SetupOK
      <4> QED
        BY <4>1 DEF NoStopLost
    <3>3. CASE phase = "serve"
      <4>1. late'
        BY <2>1, <2>3, <3>3 DEF ServeOK
      <4> QED
        BY <4>1 DEF NoStopLost
    <3> QED
      BY <2>1, <3>2, <3>3
  <2>4. CASE call[t] \notin {"stop", "establish"}
    <3>1. UNCHANGED <<gb_is_running, stopped>>
      BY <1>6, <2>4 DEF FlagAccess, TypeOK
    <3> QED
      BY <1>2, <1>3, <2>1, <3>1
  <2> QED
    BY <2>2, <2>3, <2>4
<1>7. ASSUME NEW t \in Threads, HandlerClear(t) PROVE NoStopLost'
  BY <1>1, <1>7 DEF HandlerClear
<1>8. ASSUME NEW t \in Threads, HandlerLock(t) PROVE NoStopLost'
  <2>1. /\ UNCHANGED <<gb_is_running, stopped, pending, late>> /\ phase # "killed"
        /\ handlers[t] # <<>> /\ SetTop(t, "locked")
    BY <1>8 DEF HandlerLock, flagVars, kernelVars
  <2>2. /\ \A u \in Threads : Len(handlers'[u]) = Len(handlers[u])
        /\ \A u \in Threads, k \in Nat : k \in 1 .. Len(handlers[u]) =>
             /\ handlers'[u][k].sig = handlers[u][k].sig
             /\ handlers'[u][k].at = IF u = t /\ k = Len(handlers[t]) THEN "locked"
                                     ELSE handlers[u][k].at
    <3>1. "locked" \in {"enter", "locked", "unlock"}
      OBVIOUS
    <3> QED
      BY <1>0, <2>1, <3>1, SetTopEffect
  <2>3. StopUnderWay => StopUnderWay'
    BY <1>0, <2>2, UnderWayStays DEF Level
  <2> QED
    BY <1>2, <2>1, <2>3
<1>9. ASSUME NEW t \in Threads, HandlerIgnore(t) \/ HandlerUnlock(t)
      PROVE  NoStopLost'
  <2>1. /\ UNCHANGED <<gb_is_running, stopped, pending, late>> /\ phase # "killed"
        /\ handlers[t] # <<>> /\ HandlerReturn(t)
        /\ Top(t).sig \notin StopSignals \/ Top(t).at = "unlock"
    BY <1>9 DEF HandlerIgnore, HandlerUnlock, flagVars, kernelVars
  <2>2. /\ Level(t)' = Level(t) - 1
        /\ \A k \in 1 .. Level(t)' : handlers'[t][k] = handlers[t][k]
        /\ \A v \in Threads : v # t => handlers'[v] = handlers[v]
    BY <1>0, <2>1, PopEffect DEF Level
  <2>3. ASSUME NEW v \in Threads, NEW k \in 1 .. Level(v),
               handlers[v][k].sig \in StopSignals /\ handlers[v][k].at # "unlock"
        PROVE  k \in 1 .. Level(v)' /\ handlers'[v][k] = handlers[v][k]
    <3>1. CASE v = t
      <4>1. k # Level(t)
        BY <2>1, <2>3, <3>1 DEF Top
      <4>2. k \in 1 .. Level(t)'
        BY <1>0, <2>2, <3>1, <4>1
      <4> QED
        BY <2>2, <3>1, <4>2
    <3>2. CASE v # t
      BY <2>2, <3>2 DEF Level
    <3> QED
      BY <3>1, <3>2
  <2>4. StopUnderWay => StopUnderWay'
    BY <2>3, UnderWayStays
  <2> QED
    BY <1>2, <2>1, <2>4
<1>10. ASSUME NEW t \in Threads, NEW s \in Signals, Deliver(t, s) PROVE NoStopLost'
  <2>1. /\ UNCHANGED <<gb_is_running, stopped, late>> /\ phase # "killed"
        /\ pending' = pending \ {s}
    BY <1>10 DEF Deliver, flagVars
  <2>2. /\ Level(t)' = Level(t) + 1
        /\ handlers'[t][Level(t)'].sig = s /\ handlers'[t][Level(t)'].at = "enter"
        /\ \A k \in 1 .. Level(t) : handlers'[t][k] = handlers[t][k]
        /\ \A v \in Threads : v # t => handlers'[v] = handlers[v]
    <3>1. /\ Len(handlers'[t]) = Len(handlers[t]) + 1
          /\ handlers'[t][Len(handlers[t]) + 1] =
               [sig |-> s, at |-> "enter", saved |-> mask[t]]
          /\ \A k \in 1 .. Len(handlers[t]) : handlers'[t][k] = handlers[t][k]
          /\ \A v \in Threads : v # t => handlers'[v] = handlers[v]
      BY <1>0, <1>10, PushEffect
    <3> QED
      BY <3>1 DEF Level
  <2>3. ASSUME NEW v \in Threads, NEW k \in 1 .. Level(v)
        PROVE  k \in 1 .. Level(v)' /\ handlers'[v][k] = handlers[v][k]
    <3>1. CASE v = t
      BY <1>0, <2>2, <3>1
    <3>2. CASE v # t
      BY <2>2, <3>2 DEF Level
    <3> QED
      BY <3>1, <3>2
  <2>4. StopUnderWay => StopUnderWay'
    BY <2>3, UnderWayStays
  <2>5. s \in StopSignals => StopUnderWay'
    <3>1. Level(t)' \in 1 .. Level(t)'
      BY <1>0, <2>2
    <3> QED
      BY <2>2, <3>1 DEF StopUnderWay
  <2>6. pending \cap StopSignals # {} => pending' \cap StopSignals # {} \/ StopUnderWay'
    BY <2>1, <2>5
  <2> QED
    BY <1>2, <2>1, <2>4, <2>6
<1>11. ASSUME NEW s \in Signals, Raise(s) PROVE NoStopLost'
  <2>1. CASE s \in StopSignals
    BY <1>1, <1>11, <2>1 DEF Raise
  <2>2. CASE s \notin StopSignals
    BY <1>2, <1>3, <1>11, <2>2 DEF Raise, TypeOK
  <2> QED
    BY <2>1, <2>2
<1>12. ASSUME NEW t \in Threads, InsideStep(t) PROVE NoStopLost'
  BY <1>5, <1>6, <1>7, <1>8, <1>9, <1>12 DEF InsideStep
<1>13. ASSUME \/ \E t \in Threads, s \in Signals : Kill(t, s)
              \/ Killed \/ StartThreads
       PROVE  NoStopLost'
  <2>1. CASE StartThreads
    BY <1>2, <1>3, <2>1 DEF StartThreads, flagVars, kernelVars
  <2> QED
    BY <1>13, <2>1 DEF Kill, Killed, vars, NoStopLost
<1>14. ASSUME UNCHANGED vars PROVE NoStopLost'
  <2>1. CASE phase # "killed"
    BY <1>2, <1>3, <1>14, <2>1 DEF vars, flagVars, kernelVars
  <2> QED
    BY <1>14, <2>1 DEF vars, NoStopLost
<1> QED
  BY <1>4, <1>10, <1>11, <1>12, <1>13, <1>14 DEF Next

\* When the threads start, all are between calls, nothing is stacked and every
\* thread blocks the stop signals.
LEMMA StartEffect ==
    ASSUME TypeOK, CallsOK, SetupOK, StartThreads, NEW u \in Threads
    PROVE  /\ handlers'[u] = <<>> /\ at'[u] = "idle" /\ call'[u] = "none"
           /\ StopSignals \subseteq Base(u)'
<1>1. /\ UNCHANGED <<handlers, at, call>> /\ phase = "setup" /\ at[Main] = "idle"
      /\ handlers[Main] = <<>>
      /\ mask'[u] = mask[Main] /\ StopSignals \subseteq installed
  BY DEF StartThreads, Idle, Runs, threadVars
<1>2. /\ handlers'[u] = <<>> /\ at'[u] = "idle" /\ call'[u] = "none"
  BY <1>1 DEF SetupOK, CallsOK
<1>3. StopSignals \subseteq mask[Main]
  BY <1>1 DEF SetupOK, Base
<1> QED
  BY <1>1, <1>2, <1>3 DEF Base

\* Every step keeps ServeOK and what a thread has open or blocked.
LEMMA OpenStep ==
    ASSUME TypeOK, CallsOK, MasksOK, Masked, MaxOpen =< 1, Discipline, [Next]_vars
    PROVE  ServeOK' /\ \A u \in Threads : OpenOf(u)' /\ BlockedOf(u)'
<1> SUFFICES ASSUME NEW u \in Threads
             PROVE  /\ phase' = "serve" /\ ~late' => call'[u] # "establish"
                    /\ OpenOf(u)' /\ BlockedOf(u)'
  BY DEF ServeOK
<1> DEFINE Goal == /\ phase' = "serve" /\ ~late' => call'[u] # "establish"
                   /\ OpenOf(u)' /\ BlockedOf(u)'
<1>0. /\ phase = "serve" /\ ~late => call[u] # "establish"
      /\ OpenOf(u) /\ BlockedOf(u) /\ SetupOK
      /\ Base(u)' = Base(u) \/ CallStep(u) \/ StartThreads
  BY MasksStep DEF Discipline, ServeOK
<1>1. ASSUME CallStep(u) PROVE Goal
  <2>1. /\ handlers[u] = <<>> /\ handlers'[u] = <<>> /\ phase' = phase
        /\ Base(u)' = mask'[u] /\ Base(u) = mask[u]
    BY <1>1, CallEffect DEF Base
  <2>2. /\ phase' = "serve" /\ ~late' => call'[u] # "establish"
        /\ at'[u] # "idle" => StopSignals \subseteq mask'[u]
    BY <1>1, <2>1, CallMask
  <2>3. phase = "serve" => \A a, b \in StopSignals \ mask'[u] : a = b
    <3>1. \/ StopSignals \cap mask[u] \subseteq mask'[u]
          \/ \A a, b \in StopSignals \ mask'[u] : a = b
      BY <1>1, CallMask
    <3>2. phase = "serve" => \A a, b \in StopSignals \ mask[u] : a = b
      BY <1>0, <2>1 DEF OpenOf
    <3> QED
      BY <3>1, <3>2
  <2> QED
    BY <2>1, <2>2, <2>3 DEF OpenOf, BlockedOf
<1>2. ASSUME StartThreads PROVE Goal
  BY <1>0, <1>2, StartEffect DEF OpenOf, BlockedOf
<1>3. ASSUME Base(u)' = Base(u), at'[u] # "idle" => at[u] # "idle",
             phase' = "serve" => phase = "serve" /\ call'[u] \in {call[u], "none"},
             late => late',
             handlers'[u] # <<>> =>
               handlers[u] # <<>> \/ phase = "serve" \/ StopSignals \subseteq Base(u)
      PROVE  Goal
  BY <1>0, <1>3 DEF OpenOf, BlockedOf
<1>4. ASSUME Base(u)' = Base(u), NEW t \in Threads, CallStep(t) PROVE Goal
  <2>1. CASE t = u
    BY <1>1, <1>4, <2>1
  <2>2. CASE t # u
    BY <1>3, <1>4, <2>2, CallEffect
  <2> QED
    BY <2>1, <2>2
<1>5. ASSUME Base(u)' = Base(u), NEW t \in Threads, InsideStep(t) PROVE Goal
  <2>1. /\ phase' = phase /\ late' = late /\ call'[u] \in {call[u], "none"}
        /\ at[u] = "idle" => at'[u] = "idle"
    BY <1>5, InsideEffect DEF kernelVars
  <2>2. handlers'[u] # <<>> => handlers[u] # <<>>
    <3>1. CASE handlers[t] = <<>>
      BY <1>5, <3>1, InsideEffect
    <3>2. CASE handlers[t] # <<>> /\ u # t
      <4>1. (\E l : SetTop(t, l)) \/ HandlerReturn(t) \/ handlers' = handlers
        BY <1>5, <3>2 DEF InsideStep, FlagLock, FlagAccess, FlagUnlock, HandlerIgnore,
                          HandlerLock, HandlerClear, HandlerUnlock
      <4>2. handlers'[u] = handlers[u]
        BY <3>2, <4>1 DEF SetTop, HandlerReturn, TypeOK
      <4> QED
        BY <4>2
    <3> QED
      BY <3>1, <3>2
  <2> QED
    BY <1>3, <1>5, <2>1, <2>2
<1>6. ASSUME Base(u)' = Base(u), NEW t \in Threads, NEW s \in Signals, Deliver(t, s)
      PROVE  Goal
  <2>1. UNCHANGED <<phase, call, at, late>> /\ phase \in {"setup", "serve"}
    BY <1>6 DEF Deliver, threadVars, TypeOK
  <2>2. handlers'[u] # <<>> =>
          handlers[u] # <<>> \/ phase = "serve" \/ StopSignals \subseteq Base(u)
    <3>1. CASE u = t
      BY <1>0, <1>6, <2>1, <3>1 DEF Deliver, SetupOK
    <3>2. CASE u # t
      BY <1>6, <3>2 DEF Deliver, TypeOK
    <3> QED
      BY <3>1, <3>2
  <2> QED
    BY <1>3, <1>6, <2>1, <2>2
<1>7. ASSUME Base(u)' = Base(u),
             \/ \E s \in Signals : Raise(s)
             \/ \E t \in Threads, s \in Signals : Kill(t, s)
             \/ Killed \/ UNCHANGED vars
      PROVE  Goal
  BY <1>3, <1>7 DEF Raise, Kill, Killed, vars, threadVars, kernelVars
<1>8. CASE Base(u)' = Base(u)
  BY <1>2, <1>4, <1>5, <1>6, <1>7, <1>8 DEF Next
<1> QED
  BY <1>0, <1>1, <1>2, <1>8
-----------------------------------------------------------------------------
\* The inductive invariant, and what follows from it.

Inv ==
    /\ TypeOK /\ CountOK /\ CallsOK /\ MutexOK /\ StopFrames /\ MasksOK
    /\ Discipline

\* Init satisfies the invariant.
LEMMA InvInit ==
    ASSUME Masked PROVE Init => Inv
<1> SUFFICES ASSUME Init PROVE Inv
  OBVIOUS
<1>1. /\ \A t \in Threads : handlers[t] = <<>> /\ at[t] = "idle" /\ call[t] = "none"
      /\ phase = "setup" /\ stopped = FALSE /\ installed = {}
  BY DEF Init
<1>2. CallsOK /\ StopFrames /\ MasksOK
  BY <1>1, EmptyMask DEF CallsOK, StopFrames, StopFramesOf, MasksOK, Level
<1>3. Discipline
  BY <1>1 DEF Discipline, SetupOK, ServeOK, NoStopLost, OpenOf, BlockedOf
<1> QED
  BY <1>2, <1>3, TypeInit, MutexInit DEF Inv

\* Every step keeps the invariant.
LEMMA InvStep ==
    ASSUME Masked, MaxOpen =< 1, Inv, [Next]_vars
    PROVE  Inv'
<1>1. TypeOK' /\ CountOK'
  BY TypeStep DEF Inv
<1>2. CallsOK' /\ MutexOK' /\ StopFrames' /\ MasksOK'
  BY <1>1, CallsStep, MutexStep, StopFramesStep, MasksStep DEF Inv, Discipline
<1>3. SetupOK' /\ NoStopLost'
  BY <1>1, SetupStep, StopStep DEF Inv, Discipline
<1>4. ServeOK' /\ \A u \in Threads : OpenOf(u)' /\ BlockedOf(u)'
  BY OpenStep DEF Inv
<1> QED
  BY <1>1, <1>2, <1>3, <1>4 DEF Inv, Discipline

\* Two handlers of stop signals are never stacked on the same thread, and none
\* is stacked on a thread inside a call.
LEMMA NoStopBelow ==
    ASSUME Inv, NEW t \in Threads, NEW k \in 1 .. Level(t),
           handlers[t][k].sig \in StopSignals
    PROVE  /\ at[t] = "idle"
           /\ \A j \in 1 .. Level(t) :
                handlers[t][j].sig \in StopSignals => j = k
<1>0. /\ Level(t) \in Nat /\ MaskOf(t) /\ OpenOf(t) /\ BlockedOf(t)
      /\ handlers[t] # <<>>
  BY DEF Inv, TypeOK, Level, MasksOK, Discipline
<1>1. \A i \in 1 .. Level(t) : handlers[t][i].sig \notin Base(t)
  BY <1>0 DEF MaskOf
<1>2. at[t] = "idle"
  BY <1>0, <1>1 DEF BlockedOf
<1>3. \A a, b \in StopSignals \ Base(t) : a = b
  BY <1>0 DEF OpenOf
<1>4. ASSUME NEW i \in 1 .. Level(t), NEW j \in 1 .. Level(t), i < j
      PROVE  handlers[t][i].sig # handlers[t][j].sig
  <2>1. j \in i + 1 .. Level(t)
    BY <1>0, <1>4
  <2>2. /\ handlers[t][i].sig \in handlers[t][j].saved
        /\ handlers[t][j].sig \notin handlers[t][j].saved
    BY <1>0, <2>1 DEF MaskOf
  <2> QED
    BY <2>2
<1>5. ASSUME NEW j \in 1 .. Level(t), handlers[t][j].sig \in StopSignals
      PROVE  j = k
  <2>1. handlers[t][j].sig = handlers[t][k].sig
    BY <1>1, <1>3, <1>5
  <2> QED
    BY <1>0, <1>4, <2>1
<1> QED
  BY <1>2, <1>5

\* The invariant rules out that a handler waits for its own thread.
LEMMA InvNoSelfDeadlock ==
    ASSUME Inv PROVE NoSelfDeadlock
<1> SUFFICES ASSUME NEW t \in Threads, WaitsForMutex(t), mutex # NULL, mutex[1] = t
             PROVE  FALSE
  BY DEF NoSelfDeadlock
<1>0. /\ Level(t) \in Nat /\ MutexOf(t) /\ StopFramesOf(t)
      /\ handlers[t] = <<>> <=> Level(t) = 0
      /\ mutex \in Threads \X (0 .. MaxRaise)
  BY DEF Inv, TypeOK, Level, MutexOK, StopFrames
<1>1. PICK k \in Nat : mutex = <<t, k>>
  BY <1>0
<1>2. k =< Level(t)
  BY <1>0, <1>1 DEF MutexOf
<1>3. CASE handlers[t] = <<>>
  <2>1. k = 0
    BY <1>0, <1>2, <1>3
  <2> QED
    BY <1>0, <1>1, <1>3, <2>1 DEF MutexOf, WaitsForMutex, Inside
<1>4. CASE handlers[t] # <<>>
  <2>1. Level(t) \in 1 .. Level(t)
    BY <1>0, <1>4
  <2>2. handlers[t][Level(t)].at = "enter" /\ handlers[t][Level(t)].sig \in StopSignals
    BY <1>4 DEF WaitsForMutex, Top
  <2>3. CASE k = 0
    <3>1. at[t] \in Inside
      BY <1>0, <1>1, <2>3 DEF MutexOf
    <3> QED
      BY <2>1, <2>2, <3>1, NoStopBelow DEF Inside
  <2>4. CASE k # 0
    <3>1. k \in 1 .. Level(t)
      BY <1>0, <1>2, <2>4
    <3>2. handlers[t][k].at \in Inside /\ handlers[t][k].sig \in StopSignals
      BY <1>0, <1>1, <3>1 DEF MutexOf, StopFramesOf
    <3>3. k = Level(t)
      BY <2>1, <2>2, <3>1, <3>2, NoStopBelow
    <3> QED
      BY <2>2, <3>2, <3>3 DEF Inside
  <2> QED
    BY <2>3, <2>4
<1> QED
  BY <1>3, <1>4

\* For any number of threads and signals: when the callers keep to the
\* discipline and open at most one stop signal per thread, signal_handler
\* never waits for a mutex that is held further down its own stack.
THEOREM SelfDeadlockFree ==
    ASSUME Masked, MaxOpen =< 1
    PROVE  Spec => []NoSelfDeadlock
<1>1. Inv => NoSelfDeadlock
  BY InvNoSelfDeadlock
<1>2. Inv /\ [Next]_vars => Inv'
  BY InvStep
<1> QED
  BY InvInit, <1>1, <1>2, PTL DEF Spec

\* Under the same discipline no stop signal and no call of stop_program is lost,
\* from the first sigaction on, as long as no handler is established after the
\* threads started: gb_is_running = 1 at the end of establish_sig_handler does
\* not overwrite a stop that was delivered, because none can be before.
THEOREM StopsSurvive ==
    ASSUME Masked, MaxOpen =< 1
    PROVE  Spec => []NoStopLost
<1>1. Inv => NoStopLost
  BY DEF Inv, Discipline
<1>2. Inv /\ [Next]_vars => Inv'
  BY InvStep
<1> QED
  BY InvInit, <1>1, <1>2, PTL DEF Spec

=============================================================================
