-------------------------- MODULE ThreadPoolProofs --------------------------
(***************************************************************************)
(* Proofs about ThreadPool, for any number of workers, clients and tasks:  *)
(* its invariants, and that it implements TaskPool.                        *)
(***************************************************************************)
EXTENDS ThreadPool, FiniteSetTheorems, TLAPS

-----------------------------------------------------------------------------
(* The parts of the inductive invariant *)

\* Each kind of thread stays within its own code.
LabelsOK ==
    /\ \A w \in Workers : pc[w] \in WorkerPC
    /\ \A c \in Clients : pc[c] \in ClientPC
    /\ pc[Owner] \in OwnerPC

\* p_queue_mutex is held by the thread in a critical section, and by no other.
MutexOK == \A t \in Threads : (mutex = t) <=> (pc[t] \in CriticalPC)

\* The local pointers are set where the code dereferences them.
HoldingPC == {"pop", "run", "free"} \cup EnqueuePC

LocalsOK ==
    /\ \A t \in Threads : (p_new_task[t] # NULL) <=> (pc[t] \in EnqueuePC)
    /\ \A w \in Workers : (p_task[w] # NULL) <=> (pc[w] \in HoldingPC)

\* What a critical section has read of the list is still so when it writes.
ReadsOK ==
    /\ \A t \in Threads : pc[t] = "enq_link" =>
          p_current[t] = IF queue = <<>> THEN NULL ELSE queue[Len(queue)]
    /\ \A w \in Workers : pc[w] = "pop" =>
          queue # <<>> /\ p_task[w] = Head(queue)

\* The workers exist up to the loop counter of tpool_create.
StartedOK ==
    /\ spawned =< num_arg
    /\ pool = "none" => spawned = 0
    /\ pc[Owner] = "spawn" => pool = "alive"
    /\ \A w \in Workers : w >= spawned => pc[w] = "unborn"

\* A node is allocated for a submission once.
FreshOK == unsent \cap heap = {}

\* How far tpool_create and tpool_shutdown have come: all workers are started
\* before the pool is handed out, those before joined are gone, none keeps
\* waiting after b_shutdown, and the pool is freed after the last join.
LifeOK ==
    /\ num_workers = num_arg % UINT8_MOD
    /\ (pc[Owner] # "spawn" /\ pool # "none") => spawned = num_arg
    /\ \A w \in Workers : w < joined => ~Live(w)
    /\ b_shutdown <=> (pool = "freed" \/ pc[Owner] \in {"join", "free_pool", "crashed"})
    /\ pool = "none" => pc[Owner] = "idle" /\ num_arg = 0
    /\ pool = "freed" => pc[Owner] = "idle"
    /\ (pc[Owner] = "free_pool" \/ pool = "freed") => joined >= num_workers
    /\ (pc[Owner] # "idle" \/ pool # "alive") => \A c \in Clients : pc[c] = "idle"
    /\ pool = "none" => \A w \in Workers : ~Live(w)
    /\ b_shutdown => Waiting = {}
    /\ ~b_shutdown => joined = 0

-----------------------------------------------------------------------------
\* The local state of the threads: labels, mutex and local pointers.
Control == TypeOK /\ LabelsOK /\ MutexOK /\ LocalsOK /\ StartedOK

USE BoundsAssumption, ThreadsAssumption

\* The list operators yield lists of tasks.
LEMMA LinkAfterType ==
    ASSUME NEW q \in Seq(Tasks), NEW last, NEW new \in Tasks
    PROVE  LinkAfter(q, last, new) \in Seq(Tasks)
<1>1. CASE \E k \in DOMAIN q : q[k] = last
  <2>1. PositionOf(q, last) \in DOMAIN q
    BY <1>1 DEF PositionOf
  <2>2. SubSeq(q, 1, PositionOf(q, last)) \in Seq(Tasks)
    BY <2>1
  <2> QED
    BY <2>2 DEF LinkAfter
<1>2. CASE ~ \E k \in DOMAIN q : q[k] = last
  BY <1>2 DEF LinkAfter
<1> QED
  BY <1>1, <1>2

LEMMA AfterType ==
    ASSUME NEW q \in Seq(Tasks), NEW x
    PROVE  After(q, x) \in Seq(Tasks)
<1>1. CASE \E k \in DOMAIN q : q[k] = x
  <2>1. PositionOf(q, x) \in DOMAIN q
    BY <1>1 DEF PositionOf
  <2>2. SubSeq(q, PositionOf(q, x) + 1, Len(q)) \in Seq(Tasks)
    BY <2>1
  <2> QED
    BY <1>1, <2>2 DEF After
<1>2. CASE ~ \E k \in DOMAIN q : q[k] = x
  BY <1>2 DEF After
<1> QED
  BY <1>1, <1>2

LEMMA ControlInit == Init => Control
<1> SUFFICES ASSUME Init PROVE Control
  OBVIOUS
<1> USE DEF Init
<1>1. TypeOK
  <2>1. \A t \in Threads : pc[t] \in ClientPC \cup WorkerPC \cup OwnerPC
    BY DEF ClientPC, WorkerPC, OwnerPC
  <2>2. Workers \subseteq Threads
    BY DEF Threads
  <2>3. UINT8_MOD >= 1 /\ MaxWorkers >= 0
    OBVIOUS
  <2>4. b_shutdown \in BOOLEAN
    BY Zenon
  <2>5. pc \in [Threads -> ClientPC \cup WorkerPC \cup OwnerPC]
    BY <2>1
  <2>6. p_task \in [Workers -> Tasks \cup {NULL}]
    OBVIOUS
  <2> QED
    BY <2>2, <2>3, <2>4, <2>5, <2>6 DEF TypeOK
<1>2. LabelsOK
  BY DEF LabelsOK, Threads, ClientPC, WorkerPC, OwnerPC
<1>3. MutexOK
  BY DEF MutexOK, Threads, CriticalPC
<1>4. LocalsOK
  BY DEF LocalsOK, Threads, EnqueuePC, HoldingPC
<1>5. StartedOK
  BY DEF StartedOK, Threads, Workers
<1> QED
  BY <1>1, <1>2, <1>3, <1>4, <1>5 DEF Control

\* The worker that tpool_create starts next was not started before.
LEMMA NextWorkerUnborn ==
    ASSUME TypeOK, StartedOK, SpawnWorker
    PROVE  /\ spawned \in Workers /\ spawned \in Threads /\ spawned # Owner
           /\ spawned \notin Clients /\ pc[spawned] = "unborn"
BY DEF TypeOK, StartedOK, SpawnWorker, Workers, Threads

LEMMA ControlStep == Control /\ [Next]_vars => Control'
<1> SUFFICES ASSUME Control, [Next]_vars PROVE Control'
  OBVIOUS
<1> USE DEF Control
<1> DEFINE Labels == ClientPC \cup WorkerPC \cup OwnerPC
<1>0. CASE UNCHANGED vars
  BY <1>0 DEF vars, poolVars, localVars, taskVars, TypeOK, LabelsOK, MutexOK,
     LocalsOK, StartedOK
<1>1. ASSUME TpoolCreateFail PROVE Control'
  BY <1>1, <1>0 DEF TpoolCreateFail
<1>2. ASSUME NEW n \in 0 .. MaxWorkers, TpoolCreate(n) PROVE Control'
  <2> USE <1>2 DEF TpoolCreate, Goto, poolVars, localVars, taskVars
  <2>1. TypeOK'
    BY DEF TypeOK, Threads, LabelsOK, LocalsOK, ClientPC, WorkerPC, OwnerPC,
       EnqueuePC, HoldingPC
  <2>2. LabelsOK'
    BY DEF TypeOK, LabelsOK, Threads, ClientPC, WorkerPC, OwnerPC, EnqueuePC
  <2>3. MutexOK'
    BY DEF TypeOK, LabelsOK, MutexOK, Threads, CriticalPC, EnqueuePC
  <2>4. LocalsOK'
    BY DEF TypeOK, LabelsOK, LocalsOK, Threads, EnqueuePC, HoldingPC
  <2>5. StartedOK'
    BY DEF TypeOK, LabelsOK, StartedOK, Threads, Workers, EnqueuePC
  <2> QED
    BY <2>1, <2>2, <2>3, <2>4, <2>5
<1>3. ASSUME SpawnWorker PROVE Control'
  <2> USE <1>3 DEF SpawnWorker, Goto, poolVars, localVars, taskVars
  <2>0. /\ spawned \in Workers /\ spawned \in Threads /\ spawned # Owner
        /\ spawned \notin Clients /\ pc[spawned] = "unborn"
    BY NextWorkerUnborn
  <2>1. TypeOK'
    BY <2>0 DEF TypeOK, Threads, LabelsOK, LocalsOK, ClientPC, WorkerPC,
       OwnerPC, EnqueuePC, HoldingPC
  <2>2. LabelsOK'
    BY <2>0 DEF TypeOK, LabelsOK, Threads, ClientPC, WorkerPC, OwnerPC,
       EnqueuePC
  <2>3. MutexOK'
    BY <2>0 DEF TypeOK, LabelsOK, MutexOK, Threads, CriticalPC, EnqueuePC
  <2>4. LocalsOK'
    BY <2>0 DEF TypeOK, LabelsOK, LocalsOK, Threads, EnqueuePC, HoldingPC
  <2>5. StartedOK'
    BY <2>0 DEF TypeOK, LabelsOK, StartedOK, Threads, Workers, EnqueuePC
  <2> QED
    BY <2>1, <2>2, <2>3, <2>4, <2>5
<1>4. ASSUME TpoolCreateReturn PROVE Control'
  <2> USE <1>4 DEF TpoolCreateReturn, Goto, poolVars, localVars, taskVars
  <2>1. TypeOK'
    BY DEF TypeOK, Threads, LabelsOK, LocalsOK, ClientPC, WorkerPC, OwnerPC,
       EnqueuePC, HoldingPC
  <2>2. LabelsOK'
    BY DEF TypeOK, LabelsOK, Threads, ClientPC, WorkerPC, OwnerPC, EnqueuePC
  <2>3. MutexOK'
    BY DEF TypeOK, LabelsOK, MutexOK, Threads, CriticalPC, EnqueuePC
  <2>4. LocalsOK'
    BY DEF TypeOK, LabelsOK, LocalsOK, Threads, EnqueuePC, HoldingPC
  <2>5. StartedOK'
    BY DEF TypeOK, LabelsOK, StartedOK, Threads, Workers, EnqueuePC
  <2> QED
    BY <2>1, <2>2, <2>3, <2>4, <2>5
<1>5. ASSUME NEW t \in Clients \cup Workers, NEW x \in Tasks, EnqueueReject(t, x) PROVE Control'
  <2> USE <1>5 DEF EnqueueReject, Goto, MayEnqueue, poolVars, localVars,
     taskVars
  <2>1. TypeOK'
    BY DEF TypeOK, Threads, LabelsOK, LocalsOK, ClientPC, WorkerPC, OwnerPC,
       EnqueuePC, HoldingPC
  <2>2. LabelsOK'
    BY DEF TypeOK, LabelsOK, Threads, ClientPC, WorkerPC, OwnerPC, EnqueuePC
  <2>3. MutexOK'
    BY DEF TypeOK, LabelsOK, MutexOK, Threads, CriticalPC, EnqueuePC
  <2>4. LocalsOK'
    BY DEF TypeOK, LabelsOK, LocalsOK, Threads, EnqueuePC, HoldingPC
  <2>5. StartedOK'
    BY DEF TypeOK, LabelsOK, StartedOK, Threads, Workers, EnqueuePC
  <2> QED
    BY <2>1, <2>2, <2>3, <2>4, <2>5
<1>6. ASSUME NEW t \in Clients \cup Workers, NEW x \in Tasks, EnqueueAlloc(t, x) PROVE Control'
  <2> USE <1>6 DEF EnqueueAlloc, Goto, MayEnqueue, poolVars, localVars,
     taskVars
  <2>1. TypeOK'
    BY DEF TypeOK, Threads, LabelsOK, LocalsOK, ClientPC, WorkerPC, OwnerPC,
       EnqueuePC, HoldingPC
  <2>2. LabelsOK'
    BY DEF TypeOK, LabelsOK, Threads, ClientPC, WorkerPC, OwnerPC, EnqueuePC
  <2>3. MutexOK'
    BY DEF TypeOK, LabelsOK, MutexOK, Threads, CriticalPC, EnqueuePC
  <2>4. LocalsOK'
    BY DEF TypeOK, LabelsOK, LocalsOK, Threads, EnqueuePC, HoldingPC
  <2>5. StartedOK'
    BY DEF TypeOK, LabelsOK, StartedOK, Threads, Workers, EnqueuePC
  <2> QED
    BY <2>1, <2>2, <2>3, <2>4, <2>5
<1>7. ASSUME NEW t \in Clients \cup Workers, EnqueueLock(t) PROVE Control'
  <2> USE <1>7 DEF EnqueueLock, Goto, Acquire, poolVars, localVars, taskVars
  <2>1. TypeOK'
    BY DEF TypeOK, Threads, LabelsOK, LocalsOK, ClientPC, WorkerPC, OwnerPC,
       EnqueuePC, HoldingPC
  <2>2. LabelsOK'
    BY DEF TypeOK, LabelsOK, Threads, ClientPC, WorkerPC, OwnerPC, EnqueuePC
  <2>3. MutexOK'
    BY DEF TypeOK, LabelsOK, MutexOK, Threads, CriticalPC, EnqueuePC
  <2>4. LocalsOK'
    BY DEF TypeOK, LabelsOK, LocalsOK, Threads, EnqueuePC, HoldingPC
  <2>5. StartedOK'
    BY DEF TypeOK, LabelsOK, StartedOK, Threads, Workers, EnqueuePC
  <2> QED
    BY <2>1, <2>2, <2>3, <2>4, <2>5
<1>8. ASSUME NEW t \in Clients \cup Workers, EnqueueWalk(t) PROVE Control'
  <2> USE <1>8 DEF EnqueueWalk, Goto, poolVars, localVars, taskVars
  <2>1. TypeOK'
    BY DEF TypeOK, Threads, LabelsOK, LocalsOK, ClientPC, WorkerPC, OwnerPC,
       EnqueuePC, HoldingPC
  <2>2. LabelsOK'
    BY DEF TypeOK, LabelsOK, Threads, ClientPC, WorkerPC, OwnerPC, EnqueuePC
  <2>3. MutexOK'
    BY DEF TypeOK, LabelsOK, MutexOK, Threads, CriticalPC, EnqueuePC
  <2>4. LocalsOK'
    BY DEF TypeOK, LabelsOK, LocalsOK, Threads, EnqueuePC, HoldingPC
  <2>5. StartedOK'
    BY DEF TypeOK, LabelsOK, StartedOK, Threads, Workers, EnqueuePC
  <2> QED
    BY <2>1, <2>2, <2>3, <2>4, <2>5
<1>9. ASSUME NEW t \in Clients \cup Workers, EnqueueLink(t) PROVE Control'
  <2> USE <1>9 DEF EnqueueLink, Goto, SignalAndReturn, Waiting, poolVars,
     localVars, taskVars
  <2>1. TypeOK'
    BY LinkAfterType DEF TypeOK, Threads, LabelsOK, LocalsOK, ClientPC,
       WorkerPC, OwnerPC, EnqueuePC, HoldingPC
  <2>2. LabelsOK'
    BY DEF TypeOK, LabelsOK, Threads, ClientPC, WorkerPC, OwnerPC, EnqueuePC
  <2>3. MutexOK'
    BY DEF TypeOK, LabelsOK, MutexOK, Threads, CriticalPC, EnqueuePC
  <2>4. LocalsOK'
    BY DEF TypeOK, LabelsOK, LocalsOK, Threads, EnqueuePC, HoldingPC
  <2>5. StartedOK'
    BY DEF TypeOK, LabelsOK, StartedOK, Threads, Workers, EnqueuePC
  <2> QED
    BY <2>1, <2>2, <2>3, <2>4, <2>5
<1>10. ASSUME NEW w \in Workers, WorkerLock(w) PROVE Control'
  <2> USE <1>10 DEF WorkerLock, Goto, Acquire, poolVars, localVars, taskVars
  <2>1. TypeOK'
    BY DEF TypeOK, Threads, LabelsOK, LocalsOK, ClientPC, WorkerPC, OwnerPC,
       EnqueuePC, HoldingPC
  <2>2. LabelsOK'
    BY DEF TypeOK, LabelsOK, Threads, ClientPC, WorkerPC, OwnerPC, EnqueuePC
  <2>3. MutexOK'
    BY DEF TypeOK, LabelsOK, MutexOK, Threads, CriticalPC, EnqueuePC
  <2>4. LocalsOK'
    BY DEF TypeOK, LabelsOK, LocalsOK, Threads, EnqueuePC, HoldingPC
  <2>5. StartedOK'
    BY DEF TypeOK, LabelsOK, StartedOK, Threads, Workers, EnqueuePC
  <2> QED
    BY <2>1, <2>2, <2>3, <2>4, <2>5
<1>11. ASSUME NEW w \in Workers, WorkerWait(w) PROVE Control'
  <2> USE <1>11 DEF WorkerWait, Goto, poolVars, localVars, taskVars
  <2>1. TypeOK'
    BY DEF TypeOK, Threads, LabelsOK, LocalsOK, ClientPC, WorkerPC, OwnerPC,
       EnqueuePC, HoldingPC
  <2>2. LabelsOK'
    BY DEF TypeOK, LabelsOK, Threads, ClientPC, WorkerPC, OwnerPC, EnqueuePC
  <2>3. MutexOK'
    BY DEF TypeOK, LabelsOK, MutexOK, Threads, CriticalPC, EnqueuePC
  <2>4. LocalsOK'
    BY DEF TypeOK, LabelsOK, LocalsOK, Threads, EnqueuePC, HoldingPC
  <2>5. StartedOK'
    BY DEF TypeOK, LabelsOK, StartedOK, Threads, Workers, EnqueuePC
  <2> QED
    BY <2>1, <2>2, <2>3, <2>4, <2>5
<1>12. ASSUME NEW w \in Workers, WorkerExit(w) PROVE Control'
  <2> USE <1>12 DEF WorkerExit, Goto, poolVars, localVars, taskVars
  <2>1. TypeOK'
    BY DEF TypeOK, Threads, LabelsOK, LocalsOK, ClientPC, WorkerPC, OwnerPC,
       EnqueuePC, HoldingPC
  <2>2. LabelsOK'
    BY DEF TypeOK, LabelsOK, Threads, ClientPC, WorkerPC, OwnerPC, EnqueuePC
  <2>3. MutexOK'
    BY DEF TypeOK, LabelsOK, MutexOK, Threads, CriticalPC, EnqueuePC
  <2>4. LocalsOK'
    BY DEF TypeOK, LabelsOK, LocalsOK, Threads, EnqueuePC, HoldingPC
  <2>5. StartedOK'
    BY DEF TypeOK, LabelsOK, StartedOK, Threads, Workers, EnqueuePC
  <2> QED
    BY <2>1, <2>2, <2>3, <2>4, <2>5
<1>13. ASSUME NEW w \in Workers, WorkerTake(w) PROVE Control'
  <2> USE <1>13 DEF WorkerTake, Goto, poolVars, localVars, taskVars
  <2>1. TypeOK'
    BY DEF TypeOK, Threads, LabelsOK, LocalsOK, ClientPC, WorkerPC, OwnerPC,
       EnqueuePC, HoldingPC
  <2>2. LabelsOK'
    BY DEF TypeOK, LabelsOK, Threads, ClientPC, WorkerPC, OwnerPC, EnqueuePC
  <2>3. MutexOK'
    BY DEF TypeOK, LabelsOK, MutexOK, Threads, CriticalPC, EnqueuePC
  <2>4. LocalsOK'
    BY DEF TypeOK, LabelsOK, LocalsOK, Threads, EnqueuePC, HoldingPC
  <2>5. StartedOK'
    BY DEF TypeOK, LabelsOK, StartedOK, Threads, Workers, EnqueuePC
  <2> QED
    BY <2>1, <2>2, <2>3, <2>4, <2>5
<1>14. ASSUME NEW w \in Workers, WorkerPop(w) PROVE Control'
  <2> USE <1>14 DEF WorkerPop, Goto, poolVars, localVars, taskVars
  <2>1. TypeOK'
    BY AfterType DEF TypeOK, Threads, LabelsOK, LocalsOK, ClientPC, WorkerPC,
       OwnerPC, EnqueuePC, HoldingPC
  <2>2. LabelsOK'
    BY DEF TypeOK, LabelsOK, Threads, ClientPC, WorkerPC, OwnerPC, EnqueuePC
  <2>3. MutexOK'
    BY DEF TypeOK, LabelsOK, MutexOK, Threads, CriticalPC, EnqueuePC
  <2>4. LocalsOK'
    BY DEF TypeOK, LabelsOK, LocalsOK, Threads, EnqueuePC, HoldingPC
  <2>5. StartedOK'
    BY DEF TypeOK, LabelsOK, StartedOK, Threads, Workers, EnqueuePC
  <2> QED
    BY <2>1, <2>2, <2>3, <2>4, <2>5
<1>15. ASSUME NEW w \in Workers, WorkerRun(w) PROVE Control'
  <2> USE <1>15 DEF WorkerRun, Goto, poolVars, localVars, taskVars
  <2>1. TypeOK'
    BY DEF TypeOK, Threads, LabelsOK, LocalsOK, ClientPC, WorkerPC, OwnerPC,
       EnqueuePC, HoldingPC
  <2>2. LabelsOK'
    BY DEF TypeOK, LabelsOK, Threads, ClientPC, WorkerPC, OwnerPC, EnqueuePC
  <2>3. MutexOK'
    BY DEF TypeOK, LabelsOK, MutexOK, Threads, CriticalPC, EnqueuePC
  <2>4. LocalsOK'
    BY DEF TypeOK, LabelsOK, LocalsOK, Threads, EnqueuePC, HoldingPC
  <2>5. StartedOK'
    BY DEF TypeOK, LabelsOK, StartedOK, Threads, Workers, EnqueuePC
  <2> QED
    BY <2>1, <2>2, <2>3, <2>4, <2>5
<1>16. ASSUME NEW w \in Workers, WorkerFree(w) PROVE Control'
  <2> USE <1>16 DEF WorkerFree, Goto, poolVars, localVars, taskVars
  <2>1. TypeOK'
    BY DEF TypeOK, Threads, LabelsOK, LocalsOK, ClientPC, WorkerPC, OwnerPC,
       EnqueuePC, HoldingPC
  <2>2. LabelsOK'
    BY DEF TypeOK, LabelsOK, Threads, ClientPC, WorkerPC, OwnerPC, EnqueuePC
  <2>3. MutexOK'
    BY DEF TypeOK, LabelsOK, MutexOK, Threads, CriticalPC, EnqueuePC
  <2>4. LocalsOK'
    BY DEF TypeOK, LabelsOK, LocalsOK, Threads, EnqueuePC, HoldingPC
  <2>5. StartedOK'
    BY DEF TypeOK, LabelsOK, StartedOK, Threads, Workers, EnqueuePC
  <2> QED
    BY <2>1, <2>2, <2>3, <2>4, <2>5
<1>17. ASSUME NEW w \in Workers, SpuriousWakeup(w) PROVE Control'
  <2> USE <1>17 DEF SpuriousWakeup, Goto, poolVars, localVars, taskVars
  <2>1. TypeOK'
    BY DEF TypeOK, Threads, LabelsOK, LocalsOK, ClientPC, WorkerPC, OwnerPC,
       EnqueuePC, HoldingPC
  <2>2. LabelsOK'
    BY DEF TypeOK, LabelsOK, Threads, ClientPC, WorkerPC, OwnerPC, EnqueuePC
  <2>3. MutexOK'
    BY DEF TypeOK, LabelsOK, MutexOK, Threads, CriticalPC, EnqueuePC
  <2>4. LocalsOK'
    BY DEF TypeOK, LabelsOK, LocalsOK, Threads, EnqueuePC, HoldingPC
  <2>5. StartedOK'
    BY DEF TypeOK, LabelsOK, StartedOK, Threads, Workers, EnqueuePC
  <2> QED
    BY <2>1, <2>2, <2>3, <2>4, <2>5
<1>18. ASSUME ShutdownNull PROVE Control'
  BY <1>18, <1>0 DEF ShutdownNull
<1>19. ASSUME ShutdownCall PROVE Control'
  <2> USE <1>19 DEF ShutdownCall, Goto, poolVars, localVars, taskVars
  <2>1. TypeOK'
    BY DEF TypeOK, Threads, LabelsOK, LocalsOK, ClientPC, WorkerPC, OwnerPC,
       EnqueuePC, HoldingPC
  <2>2. LabelsOK'
    BY DEF TypeOK, LabelsOK, Threads, ClientPC, WorkerPC, OwnerPC, EnqueuePC
  <2>3. MutexOK'
    BY DEF TypeOK, LabelsOK, MutexOK, Threads, CriticalPC, EnqueuePC
  <2>4. LocalsOK'
    BY DEF TypeOK, LabelsOK, LocalsOK, Threads, EnqueuePC, HoldingPC
  <2>5. StartedOK'
    BY DEF TypeOK, LabelsOK, StartedOK, Threads, Workers, EnqueuePC
  <2> QED
    BY <2>1, <2>2, <2>3, <2>4, <2>5
<1>20. ASSUME ShutdownLock PROVE Control'
  <2> USE <1>20 DEF ShutdownLock, Goto, Acquire, poolVars, localVars, taskVars
  <2>1. TypeOK'
    BY DEF TypeOK, Threads, LabelsOK, LocalsOK, ClientPC, WorkerPC, OwnerPC,
       EnqueuePC, HoldingPC
  <2>2. LabelsOK'
    BY DEF TypeOK, LabelsOK, Threads, ClientPC, WorkerPC, OwnerPC, EnqueuePC
  <2>3. MutexOK'
    BY DEF TypeOK, LabelsOK, MutexOK, Threads, CriticalPC, EnqueuePC
  <2>4. LocalsOK'
    BY DEF TypeOK, LabelsOK, LocalsOK, Threads, EnqueuePC, HoldingPC
  <2>5. StartedOK'
    BY DEF TypeOK, LabelsOK, StartedOK, Threads, Workers, EnqueuePC
  <2> QED
    BY <2>1, <2>2, <2>3, <2>4, <2>5
<1>21. ASSUME ShutdownSet PROVE Control'
  <2> USE <1>21 DEF ShutdownSet, Goto, Waiting, poolVars, localVars, taskVars
  <2>1. TypeOK'
    BY DEF TypeOK, Threads, LabelsOK, LocalsOK, ClientPC, WorkerPC, OwnerPC,
       EnqueuePC, HoldingPC
  <2>2. LabelsOK'
    BY DEF TypeOK, LabelsOK, Threads, ClientPC, WorkerPC, OwnerPC, EnqueuePC
  <2>3. MutexOK'
    BY DEF TypeOK, LabelsOK, MutexOK, Threads, CriticalPC, EnqueuePC
  <2>4. LocalsOK'
    BY DEF TypeOK, LabelsOK, LocalsOK, Threads, EnqueuePC, HoldingPC
  <2>5. StartedOK'
    BY DEF TypeOK, LabelsOK, StartedOK, Threads, Workers, EnqueuePC
  <2> QED
    BY <2>1, <2>2, <2>3, <2>4, <2>5
<1>22. ASSUME ShutdownJoin PROVE Control'
  <2> USE <1>22 DEF ShutdownJoin, Goto, poolVars, localVars, taskVars
  <2>1. TypeOK'
    BY DEF TypeOK, Threads, LabelsOK, LocalsOK, ClientPC, WorkerPC, OwnerPC,
       EnqueuePC, HoldingPC
  <2>2. LabelsOK'
    BY DEF TypeOK, LabelsOK, Threads, ClientPC, WorkerPC, OwnerPC, EnqueuePC
  <2>3. MutexOK'
    BY DEF TypeOK, LabelsOK, MutexOK, Threads, CriticalPC, EnqueuePC
  <2>4. LocalsOK'
    BY DEF TypeOK, LabelsOK, LocalsOK, Threads, EnqueuePC, HoldingPC
  <2>5. StartedOK'
    BY DEF TypeOK, LabelsOK, StartedOK, Threads, Workers, EnqueuePC
  <2> QED
    BY <2>1, <2>2, <2>3, <2>4, <2>5
<1>23. ASSUME ShutdownJoinUnstarted PROVE Control'
  <2> USE <1>23 DEF ShutdownJoinUnstarted, Goto, poolVars, localVars, taskVars
  <2>1. TypeOK'
    BY DEF TypeOK, Threads, LabelsOK, LocalsOK, ClientPC, WorkerPC, OwnerPC,
       EnqueuePC, HoldingPC
  <2>2. LabelsOK'
    BY DEF TypeOK, LabelsOK, Threads, ClientPC, WorkerPC, OwnerPC, EnqueuePC
  <2>3. MutexOK'
    BY DEF TypeOK, LabelsOK, MutexOK, Threads, CriticalPC, EnqueuePC
  <2>4. LocalsOK'
    BY DEF TypeOK, LabelsOK, LocalsOK, Threads, EnqueuePC, HoldingPC
  <2>5. StartedOK'
    BY DEF TypeOK, LabelsOK, StartedOK, Threads, Workers, EnqueuePC
  <2> QED
    BY <2>1, <2>2, <2>3, <2>4, <2>5
<1>24. ASSUME ShutdownJoined PROVE Control'
  <2> USE <1>24 DEF ShutdownJoined, Goto, poolVars, localVars, taskVars
  <2>1. TypeOK'
    BY DEF TypeOK, Threads, LabelsOK, LocalsOK, ClientPC, WorkerPC, OwnerPC,
       EnqueuePC, HoldingPC
  <2>2. LabelsOK'
    BY DEF TypeOK, LabelsOK, Threads, ClientPC, WorkerPC, OwnerPC, EnqueuePC
  <2>3. MutexOK'
    BY DEF TypeOK, LabelsOK, MutexOK, Threads, CriticalPC, EnqueuePC
  <2>4. LocalsOK'
    BY DEF TypeOK, LabelsOK, LocalsOK, Threads, EnqueuePC, HoldingPC
  <2>5. StartedOK'
    BY DEF TypeOK, LabelsOK, StartedOK, Threads, Workers, EnqueuePC
  <2> QED
    BY <2>1, <2>2, <2>3, <2>4, <2>5
<1>25. ASSUME ShutdownFree PROVE Control'
  <2> USE <1>25 DEF ShutdownFree, Goto, poolVars, localVars, taskVars
  <2>1. TypeOK'
    BY DEF TypeOK, Threads, LabelsOK, LocalsOK, ClientPC, WorkerPC, OwnerPC,
       EnqueuePC, HoldingPC
  <2>2. LabelsOK'
    BY DEF TypeOK, LabelsOK, Threads, ClientPC, WorkerPC, OwnerPC, EnqueuePC
  <2>3. MutexOK'
    BY DEF TypeOK, LabelsOK, MutexOK, Threads, CriticalPC, EnqueuePC
  <2>4. LocalsOK'
    BY DEF TypeOK, LabelsOK, LocalsOK, Threads, EnqueuePC, HoldingPC
  <2>5. StartedOK'
    BY DEF TypeOK, LabelsOK, StartedOK, Threads, Workers, EnqueuePC
  <2> QED
    BY <2>1, <2>2, <2>3, <2>4, <2>5
<1> QED
  BY <1>0, <1>1, <1>2, <1>3, <1>4, <1>5, <1>6, <1>7, <1>8, <1>9, <1>10, <1>11,
     <1>12, <1>13, <1>14, <1>15, <1>16, <1>17, <1>18, <1>19, <1>20, <1>21,
     <1>22, <1>23, <1>24, <1>25 DEF Next, CreateStep, ShutdownStep,
     EnqueueStep, WorkerStep

\* TypeOK is an invariant of the pool.
THEOREM TypeCorrect == Spec => []TypeOK
<1>1. Control => TypeOK
  BY DEF Control
<1> QED
  BY ControlInit, ControlStep, <1>1, PTL DEF Spec

-----------------------------------------------------------------------------
\* The life of the pool and of its workers.

LEMMA LifeInit == Init => LifeOK
<1> SUFFICES ASSUME Init PROVE LifeOK
  OBVIOUS
<1>1. 0 = 0 % UINT8_MOD
  OBVIOUS
<1> QED
  BY <1>1 DEF Init, LifeOK, Live, Waiting, Threads

LEMMA LifeStep == Control /\ LifeOK /\ [Next]_vars => LifeOK'
<1> SUFFICES ASSUME Control, LifeOK, [Next]_vars PROVE LifeOK'
  OBVIOUS
<1> USE DEF Control, LifeOK
<1>0. CASE UNCHANGED vars
  BY <1>0 DEF vars, poolVars, localVars, taskVars, TypeOK, LabelsOK,
     StartedOK, Live, Waiting, Threads, Workers, EnqueuePC
<1>1. ASSUME TpoolCreateFail PROVE LifeOK'
  BY <1>1, <1>0 DEF TpoolCreateFail
<1>2. ASSUME NEW n \in 0 .. MaxWorkers, TpoolCreate(n) PROVE LifeOK'
  BY <1>2 DEF TpoolCreate, Goto, poolVars, localVars, taskVars, TypeOK,
     LabelsOK, StartedOK, Live, Waiting, Threads, Workers, EnqueuePC
<1>3. ASSUME SpawnWorker PROVE LifeOK'
  BY <1>3 DEF SpawnWorker, Goto, poolVars, localVars, taskVars, TypeOK,
     LabelsOK, StartedOK, Live, Waiting, Threads, Workers, EnqueuePC
<1>4. ASSUME TpoolCreateReturn PROVE LifeOK'
  BY <1>4 DEF TpoolCreateReturn, Goto, poolVars, localVars, taskVars, TypeOK,
     LabelsOK, StartedOK, Live, Waiting, Threads, Workers, EnqueuePC
<1>5. ASSUME NEW t \in Clients \cup Workers, NEW x \in Tasks,
           EnqueueReject(t, x) PROVE LifeOK'
  BY <1>5 DEF EnqueueReject, Goto, poolVars, localVars, taskVars, MayEnqueue,
     TypeOK, LabelsOK, StartedOK, Live, Waiting, Threads, Workers, EnqueuePC
<1>6. ASSUME NEW t \in Clients \cup Workers, NEW x \in Tasks, EnqueueAlloc(t,
           x) PROVE LifeOK'
  BY <1>6 DEF EnqueueAlloc, Goto, poolVars, localVars, taskVars, MayEnqueue,
     TypeOK, LabelsOK, StartedOK, Live, Waiting, Threads, Workers, EnqueuePC
<1>7. ASSUME NEW t \in Clients \cup Workers, EnqueueLock(t) PROVE LifeOK'
  BY <1>7 DEF EnqueueLock, Goto, poolVars, localVars, taskVars, Acquire,
     TypeOK, LabelsOK, StartedOK, Live, Waiting, Threads, Workers, EnqueuePC
<1>8. ASSUME NEW t \in Clients \cup Workers, EnqueueWalk(t) PROVE LifeOK'
  BY <1>8 DEF EnqueueWalk, Goto, poolVars, localVars, taskVars, TypeOK,
     LabelsOK, StartedOK, Live, Waiting, Threads, Workers, EnqueuePC
<1>9. ASSUME NEW t \in Clients \cup Workers, EnqueueLink(t) PROVE LifeOK'
  <2> USE <1>9 DEF EnqueueLink, Goto, poolVars, localVars, taskVars, TypeOK,
     LabelsOK, StartedOK, Live, Threads, EnqueuePC
  <2>1. CASE Waiting = {}
    BY <2>1 DEF SignalAndReturn, Waiting
  <2>2. CASE Waiting # {}
    <3>1. PICK v \in Waiting :
             pc' = [pc EXCEPT ![v] = "lock",
                              ![t] = IF t \in Workers THEN "run" ELSE "idle"]
      BY <2>2 DEF SignalAndReturn
    <3>2. v \in Workers /\ pc[v] = "wait" /\ v # t /\ ~b_shutdown
      BY <3>1 DEF Waiting
    <3> QED
      BY <3>1, <3>2 DEF Waiting
  <2> QED
    BY <2>1, <2>2
<1>10. ASSUME NEW w \in Workers, WorkerLock(w) PROVE LifeOK'
  BY <1>10 DEF WorkerLock, Goto, poolVars, localVars, taskVars, Acquire,
     TypeOK, LabelsOK, StartedOK, Live, Waiting, Threads, Workers, EnqueuePC
<1>11. ASSUME NEW w \in Workers, WorkerWait(w) PROVE LifeOK'
  BY <1>11 DEF WorkerWait, Goto, poolVars, localVars, taskVars, TypeOK,
     LabelsOK, StartedOK, Live, Waiting, Threads, Workers, EnqueuePC
<1>12. ASSUME NEW w \in Workers, WorkerExit(w) PROVE LifeOK'
  BY <1>12 DEF WorkerExit, Goto, poolVars, localVars, taskVars, TypeOK,
     LabelsOK, StartedOK, Live, Waiting, Threads, Workers, EnqueuePC
<1>13. ASSUME NEW w \in Workers, WorkerTake(w) PROVE LifeOK'
  BY <1>13 DEF WorkerTake, Goto, poolVars, localVars, taskVars, TypeOK,
     LabelsOK, StartedOK, Live, Waiting, Threads, Workers, EnqueuePC
<1>14. ASSUME NEW w \in Workers, WorkerPop(w) PROVE LifeOK'
  BY <1>14 DEF WorkerPop, Goto, poolVars, localVars, taskVars, TypeOK,
     LabelsOK, StartedOK, Live, Waiting, Threads, Workers, EnqueuePC
<1>15. ASSUME NEW w \in Workers, WorkerRun(w) PROVE LifeOK'
  BY <1>15 DEF WorkerRun, Goto, poolVars, localVars, taskVars, TypeOK,
     LabelsOK, StartedOK, Live, Waiting, Threads, Workers, EnqueuePC
<1>16. ASSUME NEW w \in Workers, WorkerFree(w) PROVE LifeOK'
  BY <1>16 DEF WorkerFree, Goto, poolVars, localVars, taskVars, TypeOK,
     LabelsOK, StartedOK, Live, Waiting, Threads, Workers, EnqueuePC
<1>17. ASSUME NEW w \in Workers, SpuriousWakeup(w) PROVE LifeOK'
  BY <1>17 DEF SpuriousWakeup, Goto, poolVars, localVars, taskVars, TypeOK,
     LabelsOK, StartedOK, Live, Waiting, Threads, Workers, EnqueuePC
<1>18. ASSUME ShutdownNull PROVE LifeOK'
  BY <1>18, <1>0 DEF ShutdownNull
<1>19. ASSUME ShutdownCall PROVE LifeOK'
  BY <1>19 DEF ShutdownCall, Goto, poolVars, localVars, taskVars, TypeOK,
     LabelsOK, StartedOK, Live, Waiting, Threads, Workers, EnqueuePC
<1>20. ASSUME ShutdownLock PROVE LifeOK'
  BY <1>20 DEF ShutdownLock, Goto, poolVars, localVars, taskVars, Acquire,
     TypeOK, LabelsOK, StartedOK, Live, Waiting, Threads, Workers, EnqueuePC
<1>21. ASSUME ShutdownSet PROVE LifeOK'
  BY <1>21 DEF ShutdownSet, Goto, poolVars, localVars, taskVars, Waiting,
     TypeOK, LabelsOK, StartedOK, Live, Waiting, Threads, Workers, EnqueuePC
<1>22. ASSUME ShutdownJoin PROVE LifeOK'
  BY <1>22 DEF ShutdownJoin, Goto, poolVars, localVars, taskVars, TypeOK,
     LabelsOK, StartedOK, Live, Waiting, Threads, Workers, EnqueuePC
<1>23. ASSUME ShutdownJoinUnstarted PROVE LifeOK'
  <2> USE <1>23 DEF ShutdownJoinUnstarted, Goto, poolVars, localVars,
     taskVars, TypeOK, LabelsOK, Live, Threads, Waiting
  <2>1. CASE joined' = joined + 1 /\ UNCHANGED pc
    BY <2>1 DEF Workers
  <2>2. CASE Goto(Owner, "crashed") /\ UNCHANGED joined
    BY <2>2
  <2> QED
    BY <2>1, <2>2
<1>24. ASSUME ShutdownJoined PROVE LifeOK'
  BY <1>24 DEF ShutdownJoined, Goto, poolVars, localVars, taskVars, TypeOK,
     LabelsOK, StartedOK, Live, Waiting, Threads, Workers, EnqueuePC
<1>25. ASSUME ShutdownFree PROVE LifeOK'
  BY <1>25 DEF ShutdownFree, Goto, poolVars, localVars, taskVars, TypeOK,
     LabelsOK, StartedOK, Live, Waiting, Threads, Workers, EnqueuePC
<1> QED
  BY <1>0, <1>1, <1>2, <1>3, <1>4, <1>5, <1>6, <1>7, <1>8, <1>9, <1>10,
     <1>11, <1>12, <1>13, <1>14, <1>15, <1>16, <1>17, <1>18, <1>19, <1>20,
     <1>21, <1>22, <1>23, <1>24, <1>25
     DEF Next, CreateStep, ShutdownStep, EnqueueStep, WorkerStep

-----------------------------------------------------------------------------
\* The nodes of the list and their owners.

Lists == ReadsOK /\ FreshOK /\ NodeHasOneOwner

\* Linking after the last node appends.
LEMMA LinkAtEnd ==
    ASSUME NEW q \in Seq(Tasks), NEW new \in Tasks,
           \A i, j \in DOMAIN q : q[i] = q[j] => i = j
    PROVE  LinkAfter(q, IF q = <<>> THEN NULL ELSE q[Len(q)], new)
             = Append(q, new)
<1>1. CASE q = <<>>
  BY <1>1 DEF LinkAfter
<1>2. CASE q # <<>>
  <2>1. Len(q) \in DOMAIN q /\ q[Len(q)] \in Tasks
    BY <1>2
  <2>2. PositionOf(q, q[Len(q)]) = Len(q)
    BY <2>1 DEF PositionOf
  <2>3. SubSeq(q, 1, Len(q)) = q
    OBVIOUS
  <2> QED
    BY <1>2, <2>1, <2>2, <2>3 DEF LinkAfter
<1> QED
  BY <1>1, <1>2

\* Unlinking the first node leaves the tail.
LEMMA AfterHead ==
    ASSUME NEW q \in Seq(Tasks), q # <<>>,
           \A i, j \in DOMAIN q : q[i] = q[j] => i = j
    PROVE  After(q, Head(q)) = Tail(q)
<1>1. 1 \in DOMAIN q /\ q[1] = Head(q)
  OBVIOUS
<1>2. PositionOf(q, Head(q)) = 1
  BY <1>1 DEF PositionOf
<1>3. SubSeq(q, 2, Len(q)) = Tail(q)
  OBVIOUS
<1> QED
  BY <1>1, <1>2, <1>3 DEF After

\* The nodes of a list that grew at its end, or lost its first node.
LEMMA NodesOfAppend ==
    ASSUME NEW q \in Seq(Tasks), NEW x \in Tasks
    PROVE  NodesOf(Append(q, x)) = NodesOf(q) \cup {x}
BY DEF NodesOf

LEMMA NodesOfTail ==
    ASSUME NEW q \in Seq(Tasks), q # <<>>,
           \A i, j \in DOMAIN q : q[i] = q[j] => i = j
    PROVE  NodesOf(Tail(q)) = NodesOf(q) \ {Head(q)}
<1>1. \A i \in DOMAIN Tail(q) : i + 1 \in DOMAIN q /\ Tail(q)[i] = q[i+1]
  OBVIOUS
<1>2. \A j \in DOMAIN q : j # 1 => j - 1 \in DOMAIN Tail(q) /\ q[j] = Tail(q)[j-1]
  OBVIOUS
<1>3. 1 \in DOMAIN q /\ Head(q) = q[1] /\ DOMAIN q = 1 .. Len(q)
  OBVIOUS
<1>4. \A x : x \in NodesOf(Tail(q)) => x \in NodesOf(q) \ {Head(q)}
  BY <1>1, <1>3 DEF NodesOf
<1>5. ASSUME NEW x \in NodesOf(q) \ {Head(q)} PROVE x \in NodesOf(Tail(q))
  <2>1. PICK j \in DOMAIN q : q[j] = x /\ j # 1
    BY <1>3 DEF NodesOf
  <2>2. j - 1 \in DOMAIN Tail(q) /\ x = Tail(q)[j - 1]
    BY <1>2, <2>1
  <2> QED
    BY <2>2 DEF NodesOf
<1> QED
  BY <1>4, <1>5

LEMMA ListsInit == Init => Lists
<1> SUFFICES ASSUME Init PROVE Lists
  OBVIOUS
<1>1. InHand = {} /\ Submitting = {} /\ queue = <<>> /\ heap = {}
  BY DEF Init, InHand, Submitting
<1>2. Linked = {} /\ Taken = {} /\ New = {}
  BY <1>1 DEF Linked, Taken, New, NodesOf
<1>3. ReadsOK /\ FreshOK
  BY DEF Init, ReadsOK, FreshOK, Threads
<1> QED
  BY <1>1, <1>2, <1>3 DEF Lists, NodeHasOneOwner

\* The number of workers fits the uint8_t field.
WorkersFit == MaxWorkers < UINT8_MOD

\* Then no worker is left when tpool_shutdown has joined the workers it counts.
LEMMA AllWorkersGone ==
    ASSUME WorkersFit, Control, LifeOK,
           pc[Owner] = "free_pool" \/ pool = "freed"
    PROVE  \A w \in Workers : ~Live(w)
<1>1. num_arg \in Nat /\ num_arg < UINT8_MOD
  BY DEF WorkersFit, Control, TypeOK
<1>2. num_arg % UINT8_MOD = num_arg
  BY <1>1
<1>3. joined >= spawned
  BY <1>2 DEF Control, LifeOK, TypeOK
<1>4. \A w \in Workers : w \in Int /\ (w < spawned => ~Live(w))
  BY <1>3 DEF LifeOK, Workers, Control, TypeOK
<1>5. \A w \in Workers : w >= spawned => ~Live(w)
  BY DEF Control, StartedOK, Live
<1> QED
  BY <1>4, <1>5 DEF Control, TypeOK

LEMMA ReadsStep ==
    ASSUME WorkersFit
    PROVE  Control /\ LifeOK /\ ReadsOK /\ NodeHasOneOwner /\ [Next]_vars
             => ReadsOK'
<1> SUFFICES ASSUME Control, LifeOK, ReadsOK, NodeHasOneOwner, [Next]_vars
             PROVE  ReadsOK'
  OBVIOUS
<1> USE DEF Control, ReadsOK
<1>0. CASE UNCHANGED vars
  BY <1>0 DEF vars, poolVars, localVars, taskVars, TypeOK, LabelsOK, LocalsOK,
     MutexOK, Threads, EnqueuePC, HoldingPC, CriticalPC
<1>1. ASSUME TpoolCreateFail PROVE ReadsOK'
  BY <1>1, <1>0 DEF TpoolCreateFail
<1>2. ASSUME NEW n \in 0 .. MaxWorkers, TpoolCreate(n) PROVE ReadsOK'
  BY <1>2 DEF TpoolCreate, Goto, poolVars, localVars, taskVars, TypeOK,
     LabelsOK, LocalsOK, MutexOK, Threads, EnqueuePC, HoldingPC, CriticalPC
<1>3. ASSUME SpawnWorker PROVE ReadsOK'
  BY <1>3 DEF SpawnWorker, Goto, poolVars, localVars, taskVars, TypeOK,
     LabelsOK, LocalsOK, MutexOK, Threads, EnqueuePC, HoldingPC, CriticalPC
<1>4. ASSUME TpoolCreateReturn PROVE ReadsOK'
  BY <1>4 DEF TpoolCreateReturn, Goto, poolVars, localVars, taskVars, TypeOK,
     LabelsOK, LocalsOK, MutexOK, Threads, EnqueuePC, HoldingPC, CriticalPC
<1>5. ASSUME NEW t \in Clients \cup Workers, NEW x \in Tasks,
           EnqueueReject(t, x) PROVE ReadsOK'
  BY <1>5 DEF EnqueueReject, Goto, poolVars, localVars, taskVars, MayEnqueue,
     TypeOK, LabelsOK, LocalsOK, MutexOK, Threads, EnqueuePC, HoldingPC,
     CriticalPC
<1>6. ASSUME NEW t \in Clients \cup Workers, NEW x \in Tasks, EnqueueAlloc(t,
           x) PROVE ReadsOK'
  BY <1>6 DEF EnqueueAlloc, Goto, poolVars, localVars, taskVars, MayEnqueue,
     TypeOK, LabelsOK, LocalsOK, MutexOK, Threads, EnqueuePC, HoldingPC,
     CriticalPC
<1>7. ASSUME NEW t \in Clients \cup Workers, EnqueueLock(t) PROVE ReadsOK'
  BY <1>7 DEF EnqueueLock, Goto, poolVars, localVars, taskVars, Acquire,
     TypeOK, LabelsOK, LocalsOK, MutexOK, Threads, EnqueuePC, HoldingPC,
     CriticalPC
<1>8. ASSUME NEW t \in Clients \cup Workers, EnqueueWalk(t) PROVE ReadsOK'
  BY <1>8 DEF EnqueueWalk, Goto, poolVars, localVars, taskVars, TypeOK,
     LabelsOK, LocalsOK, MutexOK, Threads, EnqueuePC, HoldingPC, CriticalPC
<1>9. ASSUME NEW t \in Clients \cup Workers, EnqueueLink(t) PROVE ReadsOK'
  BY <1>9 DEF EnqueueLink, Goto, poolVars, localVars, taskVars,
     SignalAndReturn, Waiting, TypeOK, LabelsOK, LocalsOK, MutexOK, Threads,
     EnqueuePC, HoldingPC, CriticalPC
<1>10. ASSUME NEW w \in Workers, WorkerLock(w) PROVE ReadsOK'
  BY <1>10 DEF WorkerLock, Goto, poolVars, localVars, taskVars, Acquire,
     TypeOK, LabelsOK, LocalsOK, MutexOK, Threads, EnqueuePC, HoldingPC,
     CriticalPC
<1>11. ASSUME NEW w \in Workers, WorkerWait(w) PROVE ReadsOK'
  BY <1>11 DEF WorkerWait, Goto, poolVars, localVars, taskVars, TypeOK,
     LabelsOK, LocalsOK, MutexOK, Threads, EnqueuePC, HoldingPC, CriticalPC
<1>12. ASSUME NEW w \in Workers, WorkerExit(w) PROVE ReadsOK'
  BY <1>12 DEF WorkerExit, Goto, poolVars, localVars, taskVars, TypeOK,
     LabelsOK, LocalsOK, MutexOK, Threads, EnqueuePC, HoldingPC, CriticalPC
<1>13. ASSUME NEW w \in Workers, WorkerTake(w) PROVE ReadsOK'
  BY <1>13 DEF WorkerTake, Goto, poolVars, localVars, taskVars, TypeOK,
     LabelsOK, LocalsOK, MutexOK, Threads, EnqueuePC, HoldingPC, CriticalPC
<1>14. ASSUME NEW w \in Workers, WorkerPop(w) PROVE ReadsOK'
  BY <1>14 DEF WorkerPop, Goto, poolVars, localVars, taskVars, TypeOK,
     LabelsOK, LocalsOK, MutexOK, Threads, EnqueuePC, HoldingPC, CriticalPC
<1>15. ASSUME NEW w \in Workers, WorkerRun(w) PROVE ReadsOK'
  BY <1>15 DEF WorkerRun, Goto, poolVars, localVars, taskVars, TypeOK,
     LabelsOK, LocalsOK, MutexOK, Threads, EnqueuePC, HoldingPC, CriticalPC
<1>16. ASSUME NEW w \in Workers, WorkerFree(w) PROVE ReadsOK'
  BY <1>16 DEF WorkerFree, Goto, poolVars, localVars, taskVars, TypeOK,
     LabelsOK, LocalsOK, MutexOK, Threads, EnqueuePC, HoldingPC, CriticalPC
<1>17. ASSUME NEW w \in Workers, SpuriousWakeup(w) PROVE ReadsOK'
  BY <1>17 DEF SpuriousWakeup, Goto, poolVars, localVars, taskVars, TypeOK,
     LabelsOK, LocalsOK, MutexOK, Threads, EnqueuePC, HoldingPC, CriticalPC
<1>18. ASSUME ShutdownNull PROVE ReadsOK'
  BY <1>18, <1>0 DEF ShutdownNull
<1>19. ASSUME ShutdownCall PROVE ReadsOK'
  BY <1>19 DEF ShutdownCall, Goto, poolVars, localVars, taskVars, TypeOK,
     LabelsOK, LocalsOK, MutexOK, Threads, EnqueuePC, HoldingPC, CriticalPC
<1>20. ASSUME ShutdownLock PROVE ReadsOK'
  BY <1>20 DEF ShutdownLock, Goto, poolVars, localVars, taskVars, Acquire,
     TypeOK, LabelsOK, LocalsOK, MutexOK, Threads, EnqueuePC, HoldingPC,
     CriticalPC
<1>21. ASSUME ShutdownSet PROVE ReadsOK'
  BY <1>21 DEF ShutdownSet, Goto, poolVars, localVars, taskVars, Waiting,
     TypeOK, LabelsOK, LocalsOK, MutexOK, Threads, EnqueuePC, HoldingPC,
     CriticalPC
<1>22. ASSUME ShutdownJoin PROVE ReadsOK'
  BY <1>22 DEF ShutdownJoin, Goto, poolVars, localVars, taskVars, TypeOK,
     LabelsOK, LocalsOK, MutexOK, Threads, EnqueuePC, HoldingPC, CriticalPC
<1>23. ASSUME ShutdownJoinUnstarted PROVE ReadsOK'
  BY <1>23 DEF ShutdownJoinUnstarted, Goto, poolVars, localVars, taskVars,
     TypeOK, LabelsOK, LocalsOK, MutexOK, Threads, EnqueuePC, HoldingPC,
     CriticalPC
<1>24. ASSUME ShutdownJoined PROVE ReadsOK'
  BY <1>24 DEF ShutdownJoined, Goto, poolVars, localVars, taskVars, TypeOK,
     LabelsOK, LocalsOK, MutexOK, Threads, EnqueuePC, HoldingPC, CriticalPC
<1>25. ASSUME ShutdownFree PROVE ReadsOK'
  <2>1. \A w \in Workers : pc[w] \notin {"pop", "enq_link"}
    BY <1>25, AllWorkersGone DEF ShutdownFree, Live
  <2>2. \A c \in Clients : pc[c] = "idle"
    BY <1>25 DEF ShutdownFree, LifeOK
  <2> QED
    BY <1>25, <2>1, <2>2 DEF ShutdownFree, Goto, TypeOK, Threads
<1> QED
  BY <1>0, <1>1, <1>2, <1>3, <1>4, <1>5, <1>6, <1>7, <1>8, <1>9, <1>10,
     <1>11, <1>12, <1>13, <1>14, <1>15, <1>16, <1>17, <1>18, <1>19, <1>20,
     <1>21, <1>22, <1>23, <1>24, <1>25
     DEF Next, CreateStep, ShutdownStep, EnqueueStep, WorkerStep

LEMMA FreshStep == FreshOK /\ [Next]_vars => FreshOK'
<1> SUFFICES ASSUME FreshOK, [Next]_vars PROVE FreshOK'
  OBVIOUS
<1> USE DEF FreshOK
<1>0. CASE UNCHANGED vars
  BY <1>0 DEF vars, poolVars, localVars, taskVars, poolVars, localVars,
     taskVars
<1>1. ASSUME TpoolCreateFail PROVE FreshOK'
  BY <1>1, <1>0 DEF TpoolCreateFail
<1>2. ASSUME NEW n \in 0 .. MaxWorkers, TpoolCreate(n) PROVE FreshOK'
  BY <1>2 DEF TpoolCreate, Goto, poolVars, localVars, taskVars, poolVars,
     localVars, taskVars
<1>3. ASSUME SpawnWorker PROVE FreshOK'
  BY <1>3 DEF SpawnWorker, Goto, poolVars, localVars, taskVars, poolVars,
     localVars, taskVars
<1>4. ASSUME TpoolCreateReturn PROVE FreshOK'
  BY <1>4 DEF TpoolCreateReturn, Goto, poolVars, localVars, taskVars,
     poolVars, localVars, taskVars
<1>5. ASSUME NEW t \in Clients \cup Workers, NEW x \in Tasks,
           EnqueueReject(t, x) PROVE FreshOK'
  BY <1>5 DEF EnqueueReject, Goto, poolVars, localVars, taskVars, MayEnqueue,
     poolVars, localVars, taskVars
<1>6. ASSUME NEW t \in Clients \cup Workers, NEW x \in Tasks, EnqueueAlloc(t,
           x) PROVE FreshOK'
  BY <1>6 DEF EnqueueAlloc, Goto, poolVars, localVars, taskVars, MayEnqueue,
     poolVars, localVars, taskVars
<1>7. ASSUME NEW t \in Clients \cup Workers, EnqueueLock(t) PROVE FreshOK'
  BY <1>7 DEF EnqueueLock, Goto, poolVars, localVars, taskVars, Acquire,
     poolVars, localVars, taskVars
<1>8. ASSUME NEW t \in Clients \cup Workers, EnqueueWalk(t) PROVE FreshOK'
  BY <1>8 DEF EnqueueWalk, Goto, poolVars, localVars, taskVars, poolVars,
     localVars, taskVars
<1>9. ASSUME NEW t \in Clients \cup Workers, EnqueueLink(t) PROVE FreshOK'
  BY <1>9 DEF EnqueueLink, Goto, poolVars, localVars, taskVars,
     SignalAndReturn, Waiting, poolVars, localVars, taskVars
<1>10. ASSUME NEW w \in Workers, WorkerLock(w) PROVE FreshOK'
  BY <1>10 DEF WorkerLock, Goto, poolVars, localVars, taskVars, Acquire,
     poolVars, localVars, taskVars
<1>11. ASSUME NEW w \in Workers, WorkerWait(w) PROVE FreshOK'
  BY <1>11 DEF WorkerWait, Goto, poolVars, localVars, taskVars, poolVars,
     localVars, taskVars
<1>12. ASSUME NEW w \in Workers, WorkerExit(w) PROVE FreshOK'
  BY <1>12 DEF WorkerExit, Goto, poolVars, localVars, taskVars, poolVars,
     localVars, taskVars
<1>13. ASSUME NEW w \in Workers, WorkerTake(w) PROVE FreshOK'
  BY <1>13 DEF WorkerTake, Goto, poolVars, localVars, taskVars, poolVars,
     localVars, taskVars
<1>14. ASSUME NEW w \in Workers, WorkerPop(w) PROVE FreshOK'
  BY <1>14 DEF WorkerPop, Goto, poolVars, localVars, taskVars, poolVars,
     localVars, taskVars
<1>15. ASSUME NEW w \in Workers, WorkerRun(w) PROVE FreshOK'
  BY <1>15 DEF WorkerRun, Goto, poolVars, localVars, taskVars, poolVars,
     localVars, taskVars
<1>16. ASSUME NEW w \in Workers, WorkerFree(w) PROVE FreshOK'
  BY <1>16 DEF WorkerFree, Goto, poolVars, localVars, taskVars, poolVars,
     localVars, taskVars
<1>17. ASSUME NEW w \in Workers, SpuriousWakeup(w) PROVE FreshOK'
  BY <1>17 DEF SpuriousWakeup, Goto, poolVars, localVars, taskVars, poolVars,
     localVars, taskVars
<1>18. ASSUME ShutdownNull PROVE FreshOK'
  BY <1>18, <1>0 DEF ShutdownNull
<1>19. ASSUME ShutdownCall PROVE FreshOK'
  BY <1>19 DEF ShutdownCall, Goto, poolVars, localVars, taskVars, poolVars,
     localVars, taskVars
<1>20. ASSUME ShutdownLock PROVE FreshOK'
  BY <1>20 DEF ShutdownLock, Goto, poolVars, localVars, taskVars, Acquire,
     poolVars, localVars, taskVars
<1>21. ASSUME ShutdownSet PROVE FreshOK'
  BY <1>21 DEF ShutdownSet, Goto, poolVars, localVars, taskVars, Waiting,
     poolVars, localVars, taskVars
<1>22. ASSUME ShutdownJoin PROVE FreshOK'
  BY <1>22 DEF ShutdownJoin, Goto, poolVars, localVars, taskVars, poolVars,
     localVars, taskVars
<1>23. ASSUME ShutdownJoinUnstarted PROVE FreshOK'
  BY <1>23 DEF ShutdownJoinUnstarted, Goto, poolVars, localVars, taskVars,
     poolVars, localVars, taskVars
<1>24. ASSUME ShutdownJoined PROVE FreshOK'
  BY <1>24 DEF ShutdownJoined, Goto, poolVars, localVars, taskVars, poolVars,
     localVars, taskVars
<1>25. ASSUME ShutdownFree PROVE FreshOK'
  BY <1>25 DEF ShutdownFree, Goto, poolVars, localVars, taskVars, poolVars,
     localVars, taskVars
<1> QED
  BY <1>0, <1>1, <1>2, <1>3, <1>4, <1>5, <1>6, <1>7, <1>8, <1>9, <1>10,
     <1>11, <1>12, <1>13, <1>14, <1>15, <1>16, <1>17, <1>18, <1>19, <1>20,
     <1>21, <1>22, <1>23, <1>24, <1>25
     DEF Next, CreateStep, ShutdownStep, EnqueueStep, WorkerStep

\* Nothing changes hands when the list, the allocated nodes and the nodes in
\* hand stay the same.
LEMMA OwnerFrame ==
    ASSUME NodeHasOneOwner, queue' = queue, heap' = heap,
           InHand' = InHand, \A w \in InHand : p_task'[w] = p_task[w],
           Submitting' = Submitting,
           \A t \in Submitting : p_new_task'[t] = p_new_task[t]
    PROVE  NodeHasOneOwner'
<1>1. Linked' = Linked
  BY DEF Linked, NodesOf
<1>2. Taken' = Taken
  BY DEF Taken
<1>3. New' = New
  BY DEF New
<1> QED
  BY <1>1, <1>2, <1>3 DEF NodeHasOneOwner

LEMMA OwnerStep == Control /\ Lists /\ [Next]_vars => NodeHasOneOwner'
<1> SUFFICES ASSUME Control, Lists, [Next]_vars PROVE NodeHasOneOwner'
  OBVIOUS
<1> USE DEF Control, Lists
<1>0. CASE UNCHANGED vars
  BY <1>0, OwnerFrame DEF vars, poolVars, localVars, taskVars, InHand,
     Submitting
<1>1. ASSUME TpoolCreateFail PROVE NodeHasOneOwner'
  BY <1>1, <1>0 DEF TpoolCreateFail
<1>2. ASSUME NEW n \in 0 .. MaxWorkers, TpoolCreate(n) PROVE NodeHasOneOwner'
  <2>1. InHand' = InHand /\ \A v \in InHand : p_task'[v] = p_task[v]
    BY <1>2 DEF TpoolCreate, Goto, poolVars, localVars, taskVars, InHand,
       TypeOK, LabelsOK, LocalsOK, Threads, EnqueuePC, HoldingPC
  <2>2. Submitting' = Submitting /\ p_new_task' = p_new_task
    BY <1>2 DEF TpoolCreate, Goto, poolVars, localVars, taskVars, Submitting
  <2> QED
    BY <1>2, <2>1, <2>2, OwnerFrame DEF TpoolCreate, poolVars, localVars,
       taskVars
<1>3. ASSUME SpawnWorker PROVE NodeHasOneOwner'
  <2>1. InHand' = InHand /\ \A v \in InHand : p_task'[v] = p_task[v]
    BY <1>3, NextWorkerUnborn DEF SpawnWorker, Goto, poolVars, localVars,
       taskVars, InHand, TypeOK, LabelsOK, LocalsOK, Threads, EnqueuePC,
       HoldingPC
  <2>2. Submitting' = Submitting /\ p_new_task' = p_new_task
    BY <1>3 DEF SpawnWorker, Goto, poolVars, localVars, taskVars, Submitting
  <2> QED
    BY <1>3, <2>1, <2>2, OwnerFrame DEF SpawnWorker, poolVars, localVars,
       taskVars
<1>4. ASSUME TpoolCreateReturn PROVE NodeHasOneOwner'
  <2>1. InHand' = InHand /\ \A v \in InHand : p_task'[v] = p_task[v]
    BY <1>4 DEF TpoolCreateReturn, Goto, poolVars, localVars, taskVars,
       InHand, TypeOK, LabelsOK, LocalsOK, Threads, EnqueuePC, HoldingPC
  <2>2. Submitting' = Submitting /\ p_new_task' = p_new_task
    BY <1>4 DEF TpoolCreateReturn, Goto, poolVars, localVars, taskVars,
       Submitting
  <2> QED
    BY <1>4, <2>1, <2>2, OwnerFrame DEF TpoolCreateReturn, poolVars,
       localVars, taskVars
<1>5. ASSUME NEW t \in Clients \cup Workers, NEW x \in Tasks,
           EnqueueReject(t, x) PROVE NodeHasOneOwner'
  <2>1. InHand' = InHand /\ \A v \in InHand : p_task'[v] = p_task[v]
    BY <1>5 DEF EnqueueReject, Goto, poolVars, localVars, taskVars,
       MayEnqueue, InHand, TypeOK, LabelsOK, LocalsOK, Threads, EnqueuePC,
       HoldingPC
  <2>2. Submitting' = Submitting /\ p_new_task' = p_new_task
    BY <1>5 DEF EnqueueReject, Goto, poolVars, localVars, taskVars,
       MayEnqueue, Submitting
  <2> QED
    BY <1>5, <2>1, <2>2, OwnerFrame DEF EnqueueReject, poolVars, localVars,
       taskVars
<1>6. ASSUME NEW t \in Clients \cup Workers, NEW x \in Tasks, EnqueueAlloc(t,
           x) PROVE NodeHasOneOwner'
  <2> USE <1>6 DEF EnqueueAlloc, MayEnqueue, Goto, poolVars, localVars,
     taskVars
  <2>1. x \notin heap /\ t \in Threads /\ t \notin Submitting
    BY DEF Lists, FreshOK, Submitting, LocalsOK, EnqueuePC, Threads
  <2>2. InHand' = InHand /\ Taken' = Taken /\ Linked' = Linked
    <3>1. InHand' = InHand
      BY DEF InHand, TypeOK, Threads
    <3> QED
      BY <3>1 DEF Taken, Linked, NodesOf
  <2>3. Submitting' = Submitting \cup {t}
    BY <2>1 DEF Submitting, TypeOK
  <2>4. /\ \A r \in Submitting : p_new_task'[r] = p_new_task[r]
        /\ p_new_task'[t] = x
    BY <2>1 DEF Submitting, TypeOK
  <2>5. New' = New \cup {x}
    BY <2>3, <2>4 DEF New
  <2>6. \A r \in Submitting : p_new_task[r] # x
    BY <2>1 DEF NodeHasOneOwner, New
  <2> QED
    BY <2>1, <2>2, <2>3, <2>4, <2>5, <2>6 DEF NodeHasOneOwner
<1>7. ASSUME NEW t \in Clients \cup Workers, EnqueueLock(t) PROVE
           NodeHasOneOwner'
  <2>1. InHand' = InHand /\ \A v \in InHand : p_task'[v] = p_task[v]
    BY <1>7 DEF EnqueueLock, Goto, poolVars, localVars, taskVars, Acquire,
       InHand, TypeOK, LabelsOK, LocalsOK, Threads, EnqueuePC, HoldingPC
  <2>2. Submitting' = Submitting /\ p_new_task' = p_new_task
    BY <1>7 DEF EnqueueLock, Goto, poolVars, localVars, taskVars, Acquire,
       Submitting
  <2> QED
    BY <1>7, <2>1, <2>2, OwnerFrame DEF EnqueueLock, poolVars, localVars,
       taskVars
<1>8. ASSUME NEW t \in Clients \cup Workers, EnqueueWalk(t) PROVE
           NodeHasOneOwner'
  <2>1. InHand' = InHand /\ \A v \in InHand : p_task'[v] = p_task[v]
    BY <1>8 DEF EnqueueWalk, Goto, poolVars, localVars, taskVars, InHand,
       TypeOK, LabelsOK, LocalsOK, Threads, EnqueuePC, HoldingPC
  <2>2. Submitting' = Submitting /\ p_new_task' = p_new_task
    BY <1>8 DEF EnqueueWalk, Goto, poolVars, localVars, taskVars, Submitting
  <2> QED
    BY <1>8, <2>1, <2>2, OwnerFrame DEF EnqueueWalk, poolVars, localVars,
       taskVars
<1>9. ASSUME NEW t \in Clients \cup Workers, EnqueueLink(t) PROVE
           NodeHasOneOwner'
  <2> USE <1>9 DEF EnqueueLink, poolVars, localVars, taskVars
  <2> DEFINE x == p_new_task[t]
  <2>1. t \in Threads /\ t \in Submitting /\ x \in Tasks /\ x \in New
    BY DEF Submitting, LocalsOK, EnqueuePC, Threads, TypeOK, New
  <2>2. queue' = Append(queue, x)
    BY <2>1, LinkAtEnd DEF ReadsOK, NodeHasOneOwner, TypeOK
  <2>3. Linked' = Linked \cup {x}
    BY <2>1, <2>2, NodesOfAppend DEF Linked, TypeOK
  <2>4. InHand' = InHand /\ Taken' = Taken
    <3>1. \A w \in Workers : (pc'[w] = "pop") <=> (pc[w] = "pop")
      BY DEF SignalAndReturn, Goto, Waiting, TypeOK, Threads
    <3>2. InHand' = InHand
      BY <3>1 DEF InHand
    <3> QED
      BY <3>2 DEF Taken
  <2>5. Submitting' = Submitting \ {t}
    BY <2>1 DEF Submitting, TypeOK
  <2>6. \A r \in Submitting' : p_new_task'[r] = p_new_task[r] /\ p_new_task[r] # x
    BY <2>1, <2>5 DEF Submitting, TypeOK, NodeHasOneOwner
  <2>7. New' = New \ {x}
    <3>1. New' = {p_new_task[r] : r \in Submitting'}
      BY <2>6 DEF New
    <3>2. \A r \in Submitting : r # t => r \in Submitting'
      BY <2>5
    <3> QED
      BY <2>1, <2>5, <2>6, <3>1, <3>2 DEF New
  <2>8. \A i, j \in DOMAIN queue' : queue'[i] = queue'[j] => i = j
    <3>1. \A i \in DOMAIN queue : queue[i] # x
      BY <2>1 DEF NodeHasOneOwner, Linked, NodesOf
    <3> QED
      BY <2>1, <2>2, <3>1 DEF NodeHasOneOwner, TypeOK
  <2>9. heap' = heap /\ p_task' = p_task
    OBVIOUS
  <2>10. \A r, u \in Submitting' : p_new_task'[r] = p_new_task'[u] => r = u
    BY <2>5, <2>6 DEF NodeHasOneOwner
  <2> HIDE DEF x
  <2> QED
    BY <2>1, <2>3, <2>4, <2>7, <2>8, <2>9, <2>10 DEF NodeHasOneOwner
<1>10. ASSUME NEW w \in Workers, WorkerLock(w) PROVE NodeHasOneOwner'
  <2>1. InHand' = InHand /\ \A v \in InHand : p_task'[v] = p_task[v]
    BY <1>10 DEF WorkerLock, Goto, poolVars, localVars, taskVars, Acquire,
       InHand, TypeOK, LabelsOK, LocalsOK, Threads, EnqueuePC, HoldingPC
  <2>2. Submitting' = Submitting /\ p_new_task' = p_new_task
    BY <1>10 DEF WorkerLock, Goto, poolVars, localVars, taskVars, Acquire,
       Submitting
  <2> QED
    BY <1>10, <2>1, <2>2, OwnerFrame DEF WorkerLock, poolVars, localVars,
       taskVars
<1>11. ASSUME NEW w \in Workers, WorkerWait(w) PROVE NodeHasOneOwner'
  <2>1. InHand' = InHand /\ \A v \in InHand : p_task'[v] = p_task[v]
    BY <1>11 DEF WorkerWait, Goto, poolVars, localVars, taskVars, InHand,
       TypeOK, LabelsOK, LocalsOK, Threads, EnqueuePC, HoldingPC
  <2>2. Submitting' = Submitting /\ p_new_task' = p_new_task
    BY <1>11 DEF WorkerWait, Goto, poolVars, localVars, taskVars, Submitting
  <2> QED
    BY <1>11, <2>1, <2>2, OwnerFrame DEF WorkerWait, poolVars, localVars,
       taskVars
<1>12. ASSUME NEW w \in Workers, WorkerExit(w) PROVE NodeHasOneOwner'
  <2>1. InHand' = InHand /\ \A v \in InHand : p_task'[v] = p_task[v]
    BY <1>12 DEF WorkerExit, Goto, poolVars, localVars, taskVars, InHand,
       TypeOK, LabelsOK, LocalsOK, Threads, EnqueuePC, HoldingPC
  <2>2. Submitting' = Submitting /\ p_new_task' = p_new_task
    BY <1>12 DEF WorkerExit, Goto, poolVars, localVars, taskVars, Submitting
  <2> QED
    BY <1>12, <2>1, <2>2, OwnerFrame DEF WorkerExit, poolVars, localVars,
       taskVars
<1>13. ASSUME NEW w \in Workers, WorkerTake(w) PROVE NodeHasOneOwner'
  <2>1. InHand' = InHand /\ \A v \in InHand : p_task'[v] = p_task[v]
    BY <1>13 DEF WorkerTake, Goto, poolVars, localVars, taskVars, InHand,
       TypeOK, LabelsOK, LocalsOK, Threads, EnqueuePC, HoldingPC
  <2>2. Submitting' = Submitting /\ p_new_task' = p_new_task
    BY <1>13 DEF WorkerTake, Goto, poolVars, localVars, taskVars, Submitting
  <2> QED
    BY <1>13, <2>1, <2>2, OwnerFrame DEF WorkerTake, poolVars, localVars,
       taskVars
<1>14. ASSUME NEW w \in Workers, WorkerPop(w) PROVE NodeHasOneOwner'
  <2> USE <1>14 DEF WorkerPop, Goto, poolVars, localVars, taskVars
  <2> DEFINE x == p_task[w]
  <2>1. queue # <<>> /\ x = Head(queue) /\ x \in Tasks /\ w \notin InHand
    BY DEF ReadsOK, InHand, TypeOK, LocalsOK, HoldingPC
  <2>2. queue' = Tail(queue)
    BY <2>1, AfterHead DEF NodeHasOneOwner, TypeOK
  <2>3. Linked' = Linked \ {x} /\ x \in Linked
    <3>1. Linked' = Linked \ {x}
      BY <2>1, <2>2, NodesOfTail DEF Linked, NodeHasOneOwner, TypeOK
    <3>2. 1 \in DOMAIN queue /\ queue[1] = x
      BY <2>1 DEF TypeOK
    <3> QED
      BY <3>1, <3>2 DEF Linked, NodesOf
  <2>4. InHand' = InHand \cup {w}
    BY <2>1 DEF InHand, TypeOK, Threads
  <2>5. Taken' = Taken \cup {x}
    BY <2>4 DEF Taken
  <2>6. Submitting' = Submitting /\ New' = New
    BY DEF Submitting, New
  <2>7. \A i, j \in DOMAIN queue' : queue'[i] = queue'[j] => i = j
    <3>1. \A i \in DOMAIN Tail(queue) :
             i \in Int /\ i + 1 \in DOMAIN queue /\ Tail(queue)[i] = queue[i+1]
      BY <2>1 DEF TypeOK
    <3>2. ASSUME NEW i \in DOMAIN queue', NEW j \in DOMAIN queue',
                 queue'[i] = queue'[j]
          PROVE  i = j
      <4>1. queue[i+1] = queue[j+1] /\ i + 1 \in DOMAIN queue /\ j + 1 \in DOMAIN queue
        BY <2>2, <3>1, <3>2
      <4>2. i + 1 = j + 1
        BY <4>1 DEF NodeHasOneOwner
      <4> QED
        BY <2>2, <3>1, <4>2
    <3> QED
      BY <3>2
  <2>8. \A v \in InHand : p_task[v] # x
    BY <2>3 DEF NodeHasOneOwner, Taken
  <2>9. \A u, v \in InHand' : p_task'[u] = p_task'[v] => u = v
    BY <2>4, <2>8 DEF NodeHasOneOwner
  <2> HIDE DEF x
  <2> QED
    BY <2>3, <2>5, <2>6, <2>7, <2>9 DEF NodeHasOneOwner
<1>15. ASSUME NEW w \in Workers, WorkerRun(w) PROVE NodeHasOneOwner'
  <2>1. InHand' = InHand /\ \A v \in InHand : p_task'[v] = p_task[v]
    BY <1>15 DEF WorkerRun, Goto, poolVars, localVars, taskVars, InHand,
       TypeOK, LabelsOK, LocalsOK, Threads, EnqueuePC, HoldingPC
  <2>2. Submitting' = Submitting /\ p_new_task' = p_new_task
    BY <1>15 DEF WorkerRun, Goto, poolVars, localVars, taskVars, Submitting
  <2> QED
    BY <1>15, <2>1, <2>2, OwnerFrame DEF WorkerRun, poolVars, localVars,
       taskVars
<1>16. ASSUME NEW w \in Workers, WorkerFree(w) PROVE NodeHasOneOwner'
  <2> USE <1>16 DEF WorkerFree, Goto, poolVars, localVars, taskVars
  <2> DEFINE x == p_task[w]
  <2>1. w \in InHand /\ x \in Taken
    BY DEF InHand, LocalsOK, HoldingPC, Taken
  <2>2. InHand' = InHand \ {w}
    BY <2>1 DEF InHand, TypeOK, Threads
  <2>3. \A v \in InHand' : p_task'[v] = p_task[v] /\ p_task[v] # x
    BY <2>1, <2>2 DEF InHand, TypeOK, NodeHasOneOwner
  <2>4. Taken' = Taken \ {x}
    <3>1. Taken' = {p_task[v] : v \in InHand'}
      BY <2>3 DEF Taken
    <3>2. \A v \in InHand : v # w => v \in InHand'
      BY <2>2
    <3> QED
      BY <2>1, <2>2, <2>3, <3>1, <3>2 DEF Taken
  <2>5. Submitting' = Submitting /\ New' = New /\ Linked' = Linked
    BY DEF Submitting, New, Linked, NodesOf
  <2>6. \A u, v \in InHand' : p_task'[u] = p_task'[v] => u = v
    BY <2>2, <2>3 DEF NodeHasOneOwner
  <2>7. heap' = heap \ {x} /\ queue' = queue /\ p_new_task' = p_new_task
    OBVIOUS
  <2> HIDE DEF x
  <2> QED
    BY <2>1, <2>4, <2>5, <2>6, <2>7 DEF NodeHasOneOwner
<1>17. ASSUME NEW w \in Workers, SpuriousWakeup(w) PROVE NodeHasOneOwner'
  <2>1. InHand' = InHand /\ \A v \in InHand : p_task'[v] = p_task[v]
    BY <1>17 DEF SpuriousWakeup, Goto, poolVars, localVars, taskVars, InHand,
       TypeOK, LabelsOK, LocalsOK, Threads, EnqueuePC, HoldingPC
  <2>2. Submitting' = Submitting /\ p_new_task' = p_new_task
    BY <1>17 DEF SpuriousWakeup, Goto, poolVars, localVars, taskVars,
       Submitting
  <2> QED
    BY <1>17, <2>1, <2>2, OwnerFrame DEF SpuriousWakeup, poolVars, localVars,
       taskVars
<1>18. ASSUME ShutdownNull PROVE NodeHasOneOwner'
  BY <1>18, <1>0 DEF ShutdownNull
<1>19. ASSUME ShutdownCall PROVE NodeHasOneOwner'
  <2>1. InHand' = InHand /\ \A v \in InHand : p_task'[v] = p_task[v]
    BY <1>19 DEF ShutdownCall, Goto, poolVars, localVars, taskVars, InHand,
       TypeOK, LabelsOK, LocalsOK, Threads, EnqueuePC, HoldingPC
  <2>2. Submitting' = Submitting /\ p_new_task' = p_new_task
    BY <1>19 DEF ShutdownCall, Goto, poolVars, localVars, taskVars, Submitting
  <2> QED
    BY <1>19, <2>1, <2>2, OwnerFrame DEF ShutdownCall, poolVars, localVars,
       taskVars
<1>20. ASSUME ShutdownLock PROVE NodeHasOneOwner'
  <2>1. InHand' = InHand /\ \A v \in InHand : p_task'[v] = p_task[v]
    BY <1>20 DEF ShutdownLock, Goto, poolVars, localVars, taskVars, Acquire,
       InHand, TypeOK, LabelsOK, LocalsOK, Threads, EnqueuePC, HoldingPC
  <2>2. Submitting' = Submitting /\ p_new_task' = p_new_task
    BY <1>20 DEF ShutdownLock, Goto, poolVars, localVars, taskVars, Acquire,
       Submitting
  <2> QED
    BY <1>20, <2>1, <2>2, OwnerFrame DEF ShutdownLock, poolVars, localVars,
       taskVars
<1>21. ASSUME ShutdownSet PROVE NodeHasOneOwner'
  <2>1. InHand' = InHand /\ \A v \in InHand : p_task'[v] = p_task[v]
    BY <1>21 DEF ShutdownSet, Goto, poolVars, localVars, taskVars, Waiting,
       InHand, TypeOK, LabelsOK, LocalsOK, Threads, EnqueuePC, HoldingPC
  <2>2. Submitting' = Submitting /\ p_new_task' = p_new_task
    BY <1>21 DEF ShutdownSet, Goto, poolVars, localVars, taskVars, Waiting,
       Submitting
  <2> QED
    BY <1>21, <2>1, <2>2, OwnerFrame DEF ShutdownSet, poolVars, localVars,
       taskVars
<1>22. ASSUME ShutdownJoin PROVE NodeHasOneOwner'
  <2>1. InHand' = InHand /\ \A v \in InHand : p_task'[v] = p_task[v]
    BY <1>22 DEF ShutdownJoin, Goto, poolVars, localVars, taskVars, InHand,
       TypeOK, LabelsOK, LocalsOK, Threads, EnqueuePC, HoldingPC
  <2>2. Submitting' = Submitting /\ p_new_task' = p_new_task
    BY <1>22 DEF ShutdownJoin, Goto, poolVars, localVars, taskVars, Submitting
  <2> QED
    BY <1>22, <2>1, <2>2, OwnerFrame DEF ShutdownJoin, poolVars, localVars,
       taskVars
<1>23. ASSUME ShutdownJoinUnstarted PROVE NodeHasOneOwner'
  <2>1. InHand' = InHand /\ \A v \in InHand : p_task'[v] = p_task[v]
    BY <1>23 DEF ShutdownJoinUnstarted, Goto, poolVars, localVars, taskVars,
       InHand, TypeOK, LabelsOK, LocalsOK, Threads, EnqueuePC, HoldingPC
  <2>2. Submitting' = Submitting /\ p_new_task' = p_new_task
    BY <1>23 DEF ShutdownJoinUnstarted, Goto, poolVars, localVars, taskVars,
       Submitting
  <2> QED
    BY <1>23, <2>1, <2>2, OwnerFrame DEF ShutdownJoinUnstarted, poolVars,
       localVars, taskVars
<1>24. ASSUME ShutdownJoined PROVE NodeHasOneOwner'
  <2>1. InHand' = InHand /\ \A v \in InHand : p_task'[v] = p_task[v]
    BY <1>24 DEF ShutdownJoined, Goto, poolVars, localVars, taskVars, InHand,
       TypeOK, LabelsOK, LocalsOK, Threads, EnqueuePC, HoldingPC
  <2>2. Submitting' = Submitting /\ p_new_task' = p_new_task
    BY <1>24 DEF ShutdownJoined, Goto, poolVars, localVars, taskVars,
       Submitting
  <2> QED
    BY <1>24, <2>1, <2>2, OwnerFrame DEF ShutdownJoined, poolVars, localVars,
       taskVars
<1>25. ASSUME ShutdownFree PROVE NodeHasOneOwner'
  <2> USE <1>25 DEF ShutdownFree, Goto, poolVars, localVars, taskVars
  <2>1. Linked' = {} /\ queue' = <<>> /\ heap' = heap \ Linked
    BY DEF Linked, NodesOf
  <2>2. InHand' = InHand /\ Submitting' = Submitting
    BY DEF InHand, Submitting, TypeOK, Threads
  <2>3. Taken' = Taken /\ New' = New
    BY <2>2 DEF Taken, New
  <2> QED
    BY <2>1, <2>2, <2>3 DEF NodeHasOneOwner
<1> QED
  BY <1>0, <1>1, <1>2, <1>3, <1>4, <1>5, <1>6, <1>7, <1>8, <1>9, <1>10,
     <1>11, <1>12, <1>13, <1>14, <1>15, <1>16, <1>17, <1>18, <1>19, <1>20,
     <1>21, <1>22, <1>23, <1>24, <1>25
     DEF Next, CreateStep, ShutdownStep, EnqueueStep, WorkerStep

\* NodeHasOneOwner and NoUseAfterFree are invariants of every pool whose number
\* of workers fits the field.
Inv == Control /\ LifeOK /\ Lists

LEMMA InvInit == Init => Inv
BY ControlInit, LifeInit, ListsInit DEF Inv

LEMMA InvStep ==
    ASSUME WorkersFit
    PROVE  Inv /\ [Next]_vars => Inv'
<1> SUFFICES ASSUME Inv, [Next]_vars PROVE Inv'
  OBVIOUS
<1>1. Control'
  BY ControlStep DEF Inv
<1>2. LifeOK'
  BY LifeStep DEF Inv
<1>3. ReadsOK'
  BY ReadsStep DEF Inv, Lists
<1>4. FreshOK'
  BY FreshStep DEF Inv, Lists
<1>5. NodeHasOneOwner'
  BY OwnerStep DEF Inv, Lists
<1> QED
  BY <1>1, <1>2, <1>3, <1>4, <1>5 DEF Inv, Lists

\* Each task_t node has exactly one owner, whatever the interleaving.
THEOREM OneOwner ==
    ASSUME WorkersFit
    PROVE  Spec => []NodeHasOneOwner
<1>1. Inv => NodeHasOneOwner
  BY DEF Inv, Lists
<1> QED
  BY InvInit, InvStep, <1>1, PTL DEF Spec

-----------------------------------------------------------------------------
\* Wakeups.

\* The workers on their way to the queue can be counted.
LEMMA ApproachingFinite ==
    /\ IsFiniteSet(Approaching) /\ Cardinality(Approaching) \in Nat
    /\ IsFiniteSet(Approaching') /\ Cardinality(Approaching') \in Nat
<1>1. IsFiniteSet(Workers)
  BY FS_Interval DEF Workers
<1>2. Approaching \subseteq Workers /\ Approaching' \subseteq Workers
  BY DEF Approaching
<1> QED
  BY <1>1, <1>2, FS_Subset, FS_CardinalityType

\* The backlog of a pool with a sleeping worker does not get uncovered when
\* the list does not grow, nobody falls asleep and nobody turns away.
LEMMA WakeFrame ==
    ASSUME NoLostWakeup, queue' = queue, queue \in Seq(Tasks),
           Waiting' \subseteq Waiting, Approaching \subseteq Approaching'
    PROVE  NoLostWakeup'
<1>1. Cardinality(Approaching) =< Cardinality(Approaching')
  BY ApproachingFinite, FS_Subset
<1> QED
  BY <1>1, ApproachingFinite DEF NoLostWakeup

LEMMA WakeStep ==
    ASSUME WorkersFit
    PROVE  Inv /\ NoLostWakeup /\ [Next]_vars => NoLostWakeup'
<1> SUFFICES ASSUME Inv, NoLostWakeup, [Next]_vars PROVE NoLostWakeup'
  OBVIOUS
<1> USE DEF Inv, Control
<1> queue \in Seq(Tasks)
  BY DEF TypeOK
<1>0. CASE UNCHANGED vars
  BY <1>0 DEF vars, poolVars, localVars, taskVars, NoLostWakeup, Waiting,
     Approaching
<1>1. ASSUME TpoolCreateFail PROVE NoLostWakeup'
  BY <1>1, <1>0 DEF TpoolCreateFail
<1>2. ASSUME NEW n \in 0 .. MaxWorkers, TpoolCreate(n) PROVE NoLostWakeup'
  <2>1. Waiting' \subseteq Waiting /\ Approaching \subseteq Approaching'
    BY <1>2 DEF TpoolCreate, Goto, poolVars, localVars, taskVars, Waiting,
       Approaching, TypeOK, LabelsOK, Threads, EnqueuePC
  <2> QED
    BY <1>2, <2>1, WakeFrame DEF TpoolCreate, poolVars, localVars, taskVars
<1>3. ASSUME SpawnWorker PROVE NoLostWakeup'
  <2>1. Waiting' \subseteq Waiting /\ Approaching \subseteq Approaching'
    BY <1>3, NextWorkerUnborn DEF SpawnWorker, Goto, poolVars, localVars,
       taskVars, Waiting, Approaching, TypeOK, LabelsOK, Threads, EnqueuePC
  <2> QED
    BY <1>3, <2>1, WakeFrame DEF SpawnWorker, poolVars, localVars, taskVars
<1>4. ASSUME TpoolCreateReturn PROVE NoLostWakeup'
  <2>1. Waiting' \subseteq Waiting /\ Approaching \subseteq Approaching'
    BY <1>4 DEF TpoolCreateReturn, Goto, poolVars, localVars, taskVars,
       Waiting, Approaching, TypeOK, LabelsOK, Threads, EnqueuePC
  <2> QED
    BY <1>4, <2>1, WakeFrame DEF TpoolCreateReturn, poolVars, localVars,
       taskVars
<1>5. ASSUME NEW t \in Clients \cup Workers, NEW x \in Tasks,
           EnqueueReject(t, x) PROVE NoLostWakeup'
  <2>1. Waiting' \subseteq Waiting /\ Approaching \subseteq Approaching'
    BY <1>5 DEF EnqueueReject, Goto, poolVars, localVars, taskVars,
       MayEnqueue, Waiting, Approaching, TypeOK, LabelsOK, Threads, EnqueuePC
  <2> QED
    BY <1>5, <2>1, WakeFrame DEF EnqueueReject, poolVars, localVars, taskVars
<1>6. ASSUME NEW t \in Clients \cup Workers, NEW x \in Tasks, EnqueueAlloc(t,
           x) PROVE NoLostWakeup'
  <2>1. Waiting' \subseteq Waiting /\ Approaching \subseteq Approaching'
    BY <1>6 DEF EnqueueAlloc, Goto, poolVars, localVars, taskVars, MayEnqueue,
       Waiting, Approaching, TypeOK, LabelsOK, Threads, EnqueuePC
  <2> QED
    BY <1>6, <2>1, WakeFrame DEF EnqueueAlloc, poolVars, localVars, taskVars
<1>7. ASSUME NEW t \in Clients \cup Workers, EnqueueLock(t) PROVE
           NoLostWakeup'
  <2>1. Waiting' \subseteq Waiting /\ Approaching \subseteq Approaching'
    BY <1>7 DEF EnqueueLock, Goto, poolVars, localVars, taskVars, Acquire,
       Waiting, Approaching, TypeOK, LabelsOK, Threads, EnqueuePC
  <2> QED
    BY <1>7, <2>1, WakeFrame DEF EnqueueLock, poolVars, localVars, taskVars
<1>8. ASSUME NEW t \in Clients \cup Workers, EnqueueWalk(t) PROVE
           NoLostWakeup'
  <2>1. Waiting' \subseteq Waiting /\ Approaching \subseteq Approaching'
    BY <1>8 DEF EnqueueWalk, Goto, poolVars, localVars, taskVars, Waiting,
       Approaching, TypeOK, LabelsOK, Threads, EnqueuePC
  <2> QED
    BY <1>8, <2>1, WakeFrame DEF EnqueueWalk, poolVars, localVars, taskVars
<1>9. ASSUME NEW t \in Clients \cup Workers, EnqueueLink(t) PROVE
           NoLostWakeup'
  <2>1. CASE Waiting = {}
    <3>1. Waiting' = {}
      BY <1>9, <2>1 DEF EnqueueLink, SignalAndReturn, Goto, Waiting, TypeOK,
         Threads
    <3> QED
      BY <3>1 DEF NoLostWakeup
  <2>2. CASE Waiting # {}
    <3>1. PICK v \in Waiting :
             pc' = [pc EXCEPT ![v] = "lock",
                              ![t] = IF t \in Workers THEN "run" ELSE "idle"]
      BY <1>9, <2>2 DEF EnqueueLink, SignalAndReturn
    <3>2. v \in Workers /\ v \notin Approaching /\ v # t
      BY <1>9, <3>1 DEF EnqueueLink, Waiting, Approaching
    <3>3. Approaching' = Approaching \cup {v}
      BY <1>9, <3>1, <3>2 DEF EnqueueLink, Approaching, TypeOK, Threads
    <3>4. Cardinality(Approaching') = Cardinality(Approaching) + 1
      BY <3>2, <3>3, ApproachingFinite, FS_AddElement
    <3>5. p_new_task[t] \in Tasks
      BY <1>9 DEF EnqueueLink, LocalsOK, EnqueuePC, TypeOK, Threads
    <3>6. queue' = Append(queue, p_new_task[t])
      BY <1>9, <3>5, LinkAtEnd DEF EnqueueLink, Lists, ReadsOK,
         NodeHasOneOwner, Threads
    <3>7. Len(queue') = Len(queue) + 1
      BY <3>5, <3>6
    <3> QED
      BY <2>2, <3>4, <3>7, ApproachingFinite DEF NoLostWakeup
  <2> QED
    BY <2>1, <2>2
<1>10. ASSUME NEW w \in Workers, WorkerLock(w) PROVE NoLostWakeup'
  <2>1. Waiting' \subseteq Waiting /\ Approaching \subseteq Approaching'
    BY <1>10 DEF WorkerLock, Goto, poolVars, localVars, taskVars, Acquire,
       Waiting, Approaching, TypeOK, LabelsOK, Threads, EnqueuePC
  <2> QED
    BY <1>10, <2>1, WakeFrame DEF WorkerLock, poolVars, localVars, taskVars
<1>11. ASSUME NEW w \in Workers, WorkerWait(w) PROVE NoLostWakeup'
  <2>1. queue' = <<>>
    BY <1>11 DEF WorkerWait
  <2>2. Cardinality(Approaching') \in Nat
    BY ApproachingFinite
  <2> QED
    BY <2>1, <2>2 DEF NoLostWakeup
<1>12. ASSUME NEW w \in Workers, WorkerExit(w) PROVE NoLostWakeup'
  <2>1. Waiting' = {}
    BY <1>12 DEF WorkerExit, Goto, LifeOK, Waiting, TypeOK, Threads
  <2> QED
    BY <2>1 DEF NoLostWakeup
<1>13. ASSUME NEW w \in Workers, WorkerTake(w) PROVE NoLostWakeup'
  <2>1. Waiting' \subseteq Waiting /\ Approaching \subseteq Approaching'
    BY <1>13 DEF WorkerTake, Goto, poolVars, localVars, taskVars, Waiting,
       Approaching, TypeOK, LabelsOK, Threads, EnqueuePC
  <2> QED
    BY <1>13, <2>1, WakeFrame DEF WorkerTake, poolVars, localVars, taskVars
<1>14. ASSUME NEW w \in Workers, WorkerPop(w) PROVE NoLostWakeup'
  <2>1. queue # <<>> /\ queue' = Tail(queue)
    BY <1>14, AfterHead DEF WorkerPop, Lists, ReadsOK, NodeHasOneOwner
  <2>2. Len(queue') = Len(queue) - 1
    BY <2>1
  <2>3. w \in Approaching /\ Approaching' = Approaching \ {w}
    BY <1>14 DEF WorkerPop, Goto, Approaching, TypeOK, Threads
  <2>4. Cardinality(Approaching') = Cardinality(Approaching) - 1
    BY <2>3, ApproachingFinite, FS_RemoveElement
  <2>5. Waiting' = Waiting
    BY <1>14 DEF WorkerPop, Goto, Waiting, TypeOK, Threads
  <2> QED
    BY <2>2, <2>4, <2>5, ApproachingFinite DEF NoLostWakeup
<1>15. ASSUME NEW w \in Workers, WorkerRun(w) PROVE NoLostWakeup'
  <2>1. Waiting' \subseteq Waiting /\ Approaching \subseteq Approaching'
    BY <1>15 DEF WorkerRun, Goto, poolVars, localVars, taskVars, Waiting,
       Approaching, TypeOK, LabelsOK, Threads, EnqueuePC
  <2> QED
    BY <1>15, <2>1, WakeFrame DEF WorkerRun, poolVars, localVars, taskVars
<1>16. ASSUME NEW w \in Workers, WorkerFree(w) PROVE NoLostWakeup'
  <2>1. Waiting' \subseteq Waiting /\ Approaching \subseteq Approaching'
    BY <1>16 DEF WorkerFree, Goto, poolVars, localVars, taskVars, Waiting,
       Approaching, TypeOK, LabelsOK, Threads, EnqueuePC
  <2> QED
    BY <1>16, <2>1, WakeFrame DEF WorkerFree, poolVars, localVars, taskVars
<1>17. ASSUME NEW w \in Workers, SpuriousWakeup(w) PROVE NoLostWakeup'
  <2>1. Waiting' \subseteq Waiting /\ Approaching \subseteq Approaching'
    BY <1>17 DEF SpuriousWakeup, Goto, poolVars, localVars, taskVars, Waiting,
       Approaching, TypeOK, LabelsOK, Threads, EnqueuePC
  <2> QED
    BY <1>17, <2>1, WakeFrame DEF SpuriousWakeup, poolVars, localVars,
       taskVars
<1>18. ASSUME ShutdownNull PROVE NoLostWakeup'
  BY <1>18, <1>0 DEF ShutdownNull
<1>19. ASSUME ShutdownCall PROVE NoLostWakeup'
  <2>1. Waiting' \subseteq Waiting /\ Approaching \subseteq Approaching'
    BY <1>19 DEF ShutdownCall, Goto, poolVars, localVars, taskVars, Waiting,
       Approaching, TypeOK, LabelsOK, Threads, EnqueuePC
  <2> QED
    BY <1>19, <2>1, WakeFrame DEF ShutdownCall, poolVars, localVars, taskVars
<1>20. ASSUME ShutdownLock PROVE NoLostWakeup'
  <2>1. Waiting' \subseteq Waiting /\ Approaching \subseteq Approaching'
    BY <1>20 DEF ShutdownLock, Goto, poolVars, localVars, taskVars, Acquire,
       Waiting, Approaching, TypeOK, LabelsOK, Threads, EnqueuePC
  <2> QED
    BY <1>20, <2>1, WakeFrame DEF ShutdownLock, poolVars, localVars, taskVars
<1>21. ASSUME ShutdownSet PROVE NoLostWakeup'
  <2>1. Waiting' = {}
    BY <1>21 DEF ShutdownSet, Waiting, TypeOK, Threads
  <2> QED
    BY <2>1 DEF NoLostWakeup
<1>22. ASSUME ShutdownJoin PROVE NoLostWakeup'
  <2>1. Waiting' \subseteq Waiting /\ Approaching \subseteq Approaching'
    BY <1>22 DEF ShutdownJoin, Goto, poolVars, localVars, taskVars, Waiting,
       Approaching, TypeOK, LabelsOK, Threads, EnqueuePC
  <2> QED
    BY <1>22, <2>1, WakeFrame DEF ShutdownJoin, poolVars, localVars, taskVars
<1>23. ASSUME ShutdownJoinUnstarted PROVE NoLostWakeup'
  <2>1. Waiting' \subseteq Waiting /\ Approaching \subseteq Approaching'
    BY <1>23 DEF ShutdownJoinUnstarted, Goto, poolVars, localVars, taskVars,
       Waiting, Approaching, TypeOK, LabelsOK, Threads, EnqueuePC
  <2> QED
    BY <1>23, <2>1, WakeFrame DEF ShutdownJoinUnstarted, poolVars, localVars,
       taskVars
<1>24. ASSUME ShutdownJoined PROVE NoLostWakeup'
  <2>1. Waiting' \subseteq Waiting /\ Approaching \subseteq Approaching'
    BY <1>24 DEF ShutdownJoined, Goto, poolVars, localVars, taskVars, Waiting,
       Approaching, TypeOK, LabelsOK, Threads, EnqueuePC
  <2> QED
    BY <1>24, <2>1, WakeFrame DEF ShutdownJoined, poolVars, localVars,
       taskVars
<1>25. ASSUME ShutdownFree PROVE NoLostWakeup'
  <2>1. queue' = <<>>
    BY <1>25 DEF ShutdownFree
  <2>2. Cardinality(Approaching') \in Nat
    BY ApproachingFinite
  <2> QED
    BY <2>1, <2>2 DEF NoLostWakeup
<1> QED
  BY <1>0, <1>1, <1>2, <1>3, <1>4, <1>5, <1>6, <1>7, <1>8, <1>9, <1>10,
     <1>11, <1>12, <1>13, <1>14, <1>15, <1>16, <1>17, <1>18, <1>19, <1>20,
     <1>21, <1>22, <1>23, <1>24, <1>25
     DEF Next, CreateStep, ShutdownStep, EnqueueStep, WorkerStep

\* No wakeup is lost: one signal for each enqueue covers every queued task.
THEOREM WakeupsSuffice ==
    ASSUME WorkersFit
    PROVE  Spec => []NoLostWakeup
<1>1. Init => NoLostWakeup
  BY DEF Init, NoLostWakeup, Waiting, Threads
<1> QED
  BY InvInit, InvStep, WakeStep, <1>1, PTL DEF Spec

-----------------------------------------------------------------------------
\* The freed pool.

\* A freed list stays empty: nobody is left who could link a node.
FreedOK == pool = "freed" => queue = <<>>

LEMMA FreedStep ==
    ASSUME WorkersFit
    PROVE  Inv /\ FreedOK /\ [Next]_vars => FreedOK'
<1> SUFFICES ASSUME Inv, FreedOK, [Next]_vars PROVE FreedOK'
  OBVIOUS
<1>1. CASE pool = "freed"
  <2>1. \A w \in Workers : ~Live(w)
    BY <1>1, AllWorkersGone DEF Inv
  <2>2. \A c \in Clients : pc[c] = "idle"
    BY <1>1 DEF Inv, LifeOK
  <2>3. pc[Owner] = "idle"
    BY <1>1 DEF Inv, LifeOK
  <2>4. \A t \in Clients \cup Workers : pc[t] \notin {"enq_link", "pop"}
    BY <2>1, <2>2 DEF Live
  <2>5. \A t \in Clients \cup Workers : ~EnqueueLink(t) /\ ~WorkerPop(t)
    BY <2>4 DEF EnqueueLink, WorkerPop
  <2>6. queue' = queue
    BY <2>3, <2>5 DEF Next, CreateStep, ShutdownStep, EnqueueStep, WorkerStep,
       vars, poolVars, localVars, taskVars, TpoolCreateFail, TpoolCreate,
       SpawnWorker, TpoolCreateReturn, EnqueueReject, EnqueueAlloc,
       EnqueueLock, EnqueueWalk, WorkerLock, WorkerWait, WorkerExit,
       WorkerTake, WorkerRun, WorkerFree, SpuriousWakeup, ShutdownNull,
       ShutdownCall, ShutdownLock, ShutdownSet, ShutdownJoin,
       ShutdownJoinUnstarted, ShutdownJoined, ShutdownFree
  <2> QED
    BY <1>1, <2>6 DEF FreedOK
<1>2. CASE pool # "freed"
  <2>1. CASE ShutdownFree
    BY <2>1 DEF ShutdownFree, FreedOK
  <2>2. CASE ~ShutdownFree
    <3>1. pool' # "freed"
      BY <1>2, <2>2 DEF Next, CreateStep, ShutdownStep, EnqueueStep,
         WorkerStep, vars, poolVars, localVars, taskVars, TpoolCreateFail,
         TpoolCreate, SpawnWorker, TpoolCreateReturn, EnqueueReject,
         EnqueueAlloc, EnqueueLock, EnqueueWalk, EnqueueLink, WorkerLock,
         WorkerWait, WorkerExit, WorkerTake, WorkerPop, WorkerRun, WorkerFree,
         SpuriousWakeup, ShutdownNull, ShutdownCall, ShutdownLock,
         ShutdownSet, ShutdownJoin, ShutdownJoinUnstarted, ShutdownJoined
    <3> QED
      BY <3>1 DEF FreedOK
  <2> QED
    BY <2>1, <2>2
<1> QED
  BY <1>1, <1>2

LEMMA FreedIsQuiet ==
    ASSUME WorkersFit, Inv, FreedOK
    PROVE  NoUseAfterFree
<1> SUFFICES ASSUME pool = "freed"
             PROVE  (\A w \in Workers : ~Live(w)) /\ mutex = NULL /\ heap = {}
  BY DEF NoUseAfterFree
<1> USE DEF Inv, Control
<1>1. \A w \in Workers : ~Live(w)
  BY AllWorkersGone
<1>2. (\A c \in Clients : pc[c] = "idle") /\ pc[Owner] = "idle"
  BY DEF LifeOK
<1>3. \A t \in Threads : pc[t] \notin CriticalPC /\ pc[t] \notin EnqueuePC
  BY <1>1, <1>2 DEF Threads, Live, LabelsOK, WorkerPC, CriticalPC, EnqueuePC
<1>4. mutex = NULL
  BY <1>3 DEF MutexOK, TypeOK
<1>5. Submitting = {}
  BY <1>3 DEF LocalsOK, Submitting
<1>6. InHand = {}
  BY <1>1 DEF LocalsOK, InHand, HoldingPC, EnqueuePC, Live
<1>7. Linked = {} /\ Taken = {} /\ New = {}
  BY <1>5, <1>6 DEF Linked, Taken, New, NodesOf, FreedOK
<1>8. heap = {}
  BY <1>7 DEF Lists, NodeHasOneOwner
<1> QED
  BY <1>1, <1>4, <1>8

\* tpool_shutdown frees the pool under nobody, and everything with it.
THEOREM FreedAfterUse ==
    ASSUME WorkersFit
    PROVE  Spec => []NoUseAfterFree
<1>1. Init => FreedOK
  BY DEF Init, FreedOK
<1> QED
  BY InvInit, InvStep, FreedStep, FreedIsQuiet, <1>1, PTL DEF Spec

-----------------------------------------------------------------------------
(* The refinement: the initial states map to initial states of TaskPool, and *)
(* every step maps to a step of it or leaves its variables alone.            *)

USE BoundsAssumption, ThreadsAssumption

\* The variables of TaskPool.
Running == {p_task[w] : w \in {v \in Workers : Started(v)}}

PoolPhase == IF pool = "freed" THEN "closed"
             ELSE IF b_shutdown THEN "closing" ELSE "open"

-----------------------------------------------------------------------------
\* Two facts in addition to Inv: a task that ran is not submitted again, and
\* b_shutdown is not set between the two halves of a worker's critical section.

RanOK == ran \cap (unsent \cup New) = {}

PopOK == \A w \in Workers : pc[w] = "pop" => ~b_shutdown

\* Every step keeps RanOK.
LEMMA RanStep == Control /\ Lists /\ RanOK /\ [Next]_vars => RanOK'
<1> SUFFICES ASSUME Control, Lists, RanOK, [Next]_vars PROVE RanOK'
  OBVIOUS
<1> USE DEF Control
<1>1. ASSUME UNCHANGED <<ran, unsent, p_new_task>> PROVE RanOK'
  BY <1>1 DEF RanOK, New, Submitting
<1>2. ASSUME NEW t \in Threads, NEW x \in Tasks, EnqueueReject(t, x) PROVE RanOK'
  BY <1>2 DEF EnqueueReject, RanOK, New, Submitting, localVars
<1>3. ASSUME NEW t \in Threads, NEW x \in Tasks, EnqueueAlloc(t, x) PROVE RanOK'
  <2>1. /\ x \in unsent /\ unsent' = unsent \ {x} /\ ran' = ran
        /\ p_new_task' = [p_new_task EXCEPT ![t] = x]
        /\ p_new_task \in [Threads -> Tasks \cup {NULL}]
    BY <1>3 DEF EnqueueAlloc, TypeOK
  <2>2. New' \subseteq New \cup {x}
    BY <2>1 DEF New, Submitting
  <2> QED
    BY <2>1, <2>2 DEF RanOK
<1>4. ASSUME NEW t \in Threads, EnqueueLink(t) PROVE RanOK'
  <2>1. /\ UNCHANGED <<unsent, ran>>
        /\ p_new_task' = [p_new_task EXCEPT ![t] = NULL]
        /\ p_new_task \in [Threads -> Tasks \cup {NULL}]
    BY <1>4 DEF EnqueueLink, TypeOK, taskVars
  <2>2. New' \subseteq New
    BY <2>1 DEF New, Submitting
  <2> QED
    BY <2>1, <2>2 DEF RanOK
<1>5. ASSUME NEW w \in Workers, WorkerRun(w) PROVE RanOK'
  <2>1. /\ pc[w] = "run" /\ ran' = ran \cup {p_task[w]}
        /\ UNCHANGED <<unsent, p_new_task>>
    BY <1>5 DEF WorkerRun, localVars
  <2>2. w \in InHand
    BY <2>1 DEF InHand, LocalsOK, HoldingPC
  <2>3. p_task[w] \in Taken
    BY <2>2 DEF Taken
  <2>4. p_task[w] \notin New /\ p_task[w] \notin unsent
    BY <2>3 DEF Lists, NodeHasOneOwner, FreshOK
  <2>5. New' = New
    BY <2>1 DEF New, Submitting
  <2> QED
    BY <2>1, <2>4, <2>5 DEF RanOK
<1>6. CASE CreateStep \/ ShutdownStep \/ UNCHANGED vars
  BY <1>1, <1>6 DEF CreateStep, ShutdownStep, TpoolCreateFail, TpoolCreate,
     SpawnWorker, TpoolCreateReturn, ShutdownNull, ShutdownCall, ShutdownLock,
     ShutdownSet, ShutdownJoin, ShutdownJoinUnstarted, ShutdownJoined,
     ShutdownFree, vars, localVars, taskVars
<1>7. ASSUME NEW t \in Clients \cup Workers, EnqueueStep(t) PROVE RanOK'
  BY <1>1, <1>2, <1>3, <1>4, <1>7
     DEF EnqueueStep, EnqueueLock, EnqueueWalk, localVars, taskVars, Threads
<1>8. ASSUME NEW w \in Workers, WorkerStep(w) \/ SpuriousWakeup(w) PROVE RanOK'
  BY <1>1, <1>5, <1>8
     DEF WorkerStep, WorkerLock, WorkerWait, WorkerExit, WorkerTake, WorkerPop,
         WorkerFree, SpuriousWakeup, localVars, taskVars
<1> QED
  BY <1>6, <1>7, <1>8 DEF Next

\* Every step keeps PopOK.
LEMMA PopStep == Control /\ PopOK /\ [Next]_vars => PopOK'
<1> SUFFICES ASSUME Control, PopOK, [Next]_vars, NEW v \in Workers, pc'[v] = "pop"
             PROVE  ~b_shutdown'
  BY DEF PopOK
<1> USE DEF Control
<1>0. pc \in [Threads -> ClientPC \cup WorkerPC \cup OwnerPC] /\ v \in Threads
  BY DEF TypeOK, Threads
<1>1. CASE ShutdownSet
  <2>1. pc[Owner] = "set" /\ pc[v] = "pop"
    BY <1>0, <1>1 DEF ShutdownSet
  <2> QED
    BY <2>1 DEF MutexOK, CriticalPC, Threads
<1>2. ASSUME UNCHANGED b_shutdown, pc[v] = "pop" \/ ~b_shutdown PROVE ~b_shutdown'
  BY <1>2 DEF PopOK
<1>3. ASSUME NEW t, NEW l, Goto(t, l), l # "pop" PROVE pc[v] = "pop"
  BY <1>0, <1>3 DEF Goto
<1>4. CASE CreateStep
  <2>1. UNCHANGED b_shutdown
    BY <1>4 DEF CreateStep, TpoolCreateFail, TpoolCreate, SpawnWorker,
                TpoolCreateReturn, vars, poolVars
  <2>2. \/ pc' = pc
        \/ \E t, l : Goto(t, l) /\ l # "pop"
    BY <1>4 DEF CreateStep, TpoolCreateFail, TpoolCreate, SpawnWorker,
                TpoolCreateReturn, vars
  <2> QED
    BY <1>2, <1>3, <2>1, <2>2
<1>5. CASE ShutdownStep
  <2>1. CASE ShutdownNull \/ ShutdownJoin
    BY <1>2, <2>1 DEF ShutdownNull, ShutdownJoin, vars, poolVars
  <2>2. CASE ShutdownCall
    BY <1>2, <1>3, <2>2 DEF ShutdownCall, poolVars
  <2>3. CASE ShutdownLock
    BY <1>2, <1>3, <2>3 DEF ShutdownLock, Acquire, poolVars
  <2>4. CASE ShutdownJoinUnstarted
    BY <1>2, <1>3, <2>4 DEF ShutdownJoinUnstarted
  <2>5. CASE ShutdownJoined
    BY <1>2, <1>3, <2>5 DEF ShutdownJoined, poolVars
  <2>6. CASE ShutdownFree
    BY <1>2, <1>3, <2>6 DEF ShutdownFree
  <2> QED
    BY <1>1, <1>5, <2>1, <2>2, <2>3, <2>4, <2>5, <2>6 DEF ShutdownStep
<1>6. ASSUME NEW t \in Clients \cup Workers, EnqueueStep(t) PROVE ~b_shutdown'
  <2>1. UNCHANGED b_shutdown
    BY <1>6 DEF EnqueueStep, EnqueueReject, EnqueueAlloc, EnqueueLock,
                EnqueueWalk, EnqueueLink, poolVars
  <2>2. CASE EnqueueLink(t)
    BY <1>0, <1>2, <2>1, <2>2 DEF EnqueueLink, SignalAndReturn, Goto
  <2>3. CASE ~EnqueueLink(t)
    <3>1. \/ pc' = pc
          \/ \E l : Goto(t, l) /\ l # "pop"
      BY <1>6, <2>3 DEF EnqueueStep, EnqueueReject, EnqueueAlloc, EnqueueLock,
                        EnqueueWalk, Acquire
    <3> QED
      BY <1>2, <1>3, <2>1, <3>1
  <2> QED
    BY <2>2, <2>3
<1>7. ASSUME NEW w \in Workers, WorkerStep(w) \/ SpuriousWakeup(w)
      PROVE  ~b_shutdown'
  <2>1. UNCHANGED b_shutdown
    BY <1>7 DEF WorkerStep, SpuriousWakeup, WorkerLock, WorkerWait, WorkerExit,
                WorkerTake, WorkerPop, WorkerRun, WorkerFree, poolVars
  <2>2. \/ \E l : Goto(w, l) /\ l # "pop"
        \/ ~b_shutdown
    BY <1>7 DEF WorkerStep, SpuriousWakeup, WorkerLock, WorkerWait, WorkerExit,
                WorkerTake, WorkerPop, WorkerRun, WorkerFree, Acquire
  <2> QED
    BY <1>2, <1>3, <2>1, <2>2
<1>8. CASE UNCHANGED vars
  BY <1>2, <1>8 DEF vars, poolVars
<1> QED
  BY <1>4, <1>5, <1>6, <1>7, <1>8 DEF Next

-----------------------------------------------------------------------------
\* Steps that TaskPool does not see.

\* A step that starts and ends no task.
LEMMA Stutter ==
    ASSUME UNCHANGED <<queue, ran, PoolPhase>>,
           \A w \in Workers : Started(w)' <=> Started(w),
           \A w \in Workers : Started(w) => p_task'[w] = p_task[w]
    PROVE  UNCHANGED Abstract!absVars
<1>1. Running' = Running
  BY DEF Running
<1> QED
  BY <1>1 DEF Abstract!absVars, Running, PoolPhase

\* A thread moves between two labels neither of which, or both of which, are
\* inside a task.
LEMMA StutterGoto ==
    ASSUME Control, UNCHANGED <<queue, ran, PoolPhase>>,
           NEW t, NEW l, Goto(t, l),
           t \in Workers => (Started(t) <=> l \in {"run"} \cup EnqueuePC),
           \A w \in Workers : Started(w) => p_task'[w] = p_task[w]
    PROVE  UNCHANGED Abstract!absVars
<1>1. ASSUME NEW w \in Workers PROVE Started(w)' <=> Started(w)
  BY DEF Goto, Started, Control, TypeOK, Threads
<1> QED
  BY <1>1, Stutter
-----------------------------------------------------------------------------
\* Every step maps to a step of TaskPool, or to none.

AbsStep == [Abstract!AbsNext]_(Abstract!absVars)

\* Creating the pool is a step of TaskPool or leaves it unchanged.
LEMMA CreateRefines ==
    ASSUME Control, CreateStep PROVE UNCHANGED Abstract!absVars
<1> USE DEF PoolPhase
<1>0. /\ Owner \notin Workers /\ NULL \notin Workers
      /\ pc \in [Threads -> ClientPC \cup WorkerPC \cup OwnerPC]
  BY DEF Control, TypeOK, Threads
<1>1. CASE TpoolCreateFail
  BY <1>1, Stutter DEF TpoolCreateFail, vars, poolVars, taskVars, localVars, Started
<1>2. ASSUME NEW n \in 0 .. MaxWorkers, TpoolCreate(n)
      PROVE  UNCHANGED Abstract!absVars
  <2>1. /\ UNCHANGED <<queue, ran, PoolPhase, p_task>> /\ Goto(Owner, "spawn")
    BY <1>2 DEF TpoolCreate, localVars, taskVars
  <2> QED
    BY <1>0, <2>1, StutterGoto
<1>3. CASE SpawnWorker
  <2>1. /\ UNCHANGED <<queue, ran, PoolPhase, p_task>>
        /\ \E l \in {"lock", "failed"} : Goto(spawned, l)
    BY <1>3 DEF SpawnWorker, localVars, taskVars
  <2>2. spawned \in Workers => pc[spawned] = "unborn"
    BY DEF Control, StartedOK, TypeOK
  <2>3. spawned \in Workers => ~Started(spawned)
    BY <2>2 DEF Started, EnqueuePC
  <2>4. PICK l \in {"lock", "failed"} : Goto(spawned, l)
    BY <2>1
  <2>5. l \notin {"run"} \cup EnqueuePC
    BY DEF EnqueuePC
  <2> QED
    BY <2>1, <2>3, <2>4, <2>5, StutterGoto
<1>4. CASE TpoolCreateReturn
  <2>1. /\ UNCHANGED <<queue, ran, PoolPhase, p_task>> /\ Goto(Owner, "idle")
    BY <1>4 DEF TpoolCreateReturn, localVars, taskVars, poolVars
  <2> QED
    BY <1>0, <2>1, StutterGoto
<1> QED
  BY <1>1, <1>2, <1>3, <1>4 DEF CreateStep

\* So is every step of tpool_shutdown.
LEMMA ShutdownRefines ==
    ASSUME WorkersFit, Inv, ShutdownStep PROVE AbsStep
<1> USE DEF PoolPhase
<1>0. /\ Owner \notin Workers
      /\ pc \in [Threads -> ClientPC \cup WorkerPC \cup OwnerPC]
      /\ Control /\ LifeOK
  BY DEF Inv, Control, TypeOK, Threads
<1>1. CASE ShutdownNull \/ ShutdownJoin
  <2>1. UNCHANGED <<queue, ran, PoolPhase, p_task, pc>>
    BY <1>1 DEF ShutdownNull, ShutdownJoin, vars, poolVars, localVars, taskVars
  <2> QED
    BY <2>1, Stutter DEF Started, AbsStep
<1>2. ASSUME NEW l, Goto(Owner, l), UNCHANGED <<queue, ran, PoolPhase, p_task>>
      PROVE  AbsStep
  BY <1>0, <1>2, StutterGoto DEF AbsStep
<1>3. CASE ShutdownCall
  BY <1>2, <1>3 DEF ShutdownCall, poolVars, localVars, taskVars
<1>4. CASE ShutdownLock
  BY <1>2, <1>4 DEF ShutdownLock, Acquire, poolVars, localVars, taskVars
<1>5. CASE ShutdownJoined
  BY <1>2, <1>5 DEF ShutdownJoined, poolVars, localVars, taskVars
<1>6. CASE ShutdownJoinUnstarted
  <2>1. UNCHANGED <<queue, ran, PoolPhase, p_task>>
    BY <1>6 DEF ShutdownJoinUnstarted, localVars, taskVars
  <2>2. CASE UNCHANGED pc
    BY <2>1, <2>2, Stutter DEF Started, AbsStep
  <2> QED
    BY <1>2, <1>6, <2>1, <2>2 DEF ShutdownJoinUnstarted
<1>7. CASE ShutdownSet
  <2>1. /\ pc[Owner] = "set" /\ b_shutdown' = TRUE
        /\ UNCHANGED <<pool, queue, ran, p_task>>
    BY <1>7 DEF ShutdownSet, localVars, taskVars
  <2>2. PoolPhase = "open" /\ PoolPhase' = "closing"
    BY <1>0, <2>1 DEF LifeOK
  <2>3. ASSUME NEW w \in Workers PROVE Started(w)' <=> Started(w)
    <3>1. pc'[w] = IF w \in Waiting THEN "lock" ELSE pc[w]
      BY <1>0, <1>7 DEF ShutdownSet, Threads
    <3> QED
      BY <3>1 DEF Started, EnqueuePC, Waiting
  <2>4. Running' = Running
    BY <2>1, <2>3 DEF Running
  <2>5. Abstract!Close
    BY <2>1, <2>2, <2>4 DEF Abstract!Close, Running, PoolPhase
  <2> QED
    BY <2>5 DEF AbsStep, Abstract!AbsNext
<1>8. CASE ShutdownFree
  <2>1. /\ pc[Owner] = "free_pool" /\ queue' = <<>> /\ pool' = "freed"
        /\ UNCHANGED <<ran, p_task>> /\ Goto(Owner, "idle")
    BY <1>8 DEF ShutdownFree, localVars
  <2>2. PoolPhase = "closing" /\ PoolPhase' = "closed"
    BY <1>0, <2>1 DEF LifeOK
  <2>3. \A w \in Workers : ~Live(w)
    BY <1>0, <2>1, AllWorkersGone
  <2>4. \A w \in Workers : ~Started(w)
    BY <2>3 DEF Live, Started, EnqueuePC
  <2>5. \A w \in Workers : ~Started(w)'
    BY <1>0, <2>1, <2>4 DEF Goto, Started, Threads
  <2>6. Running = {} /\ Running' = {}
    BY <2>4, <2>5 DEF Running
  <2>7. Abstract!Drop
    BY <2>1, <2>2, <2>6 DEF Abstract!Drop, Running, PoolPhase
  <2> QED
    BY <2>7 DEF AbsStep, Abstract!AbsNext
<1> QED
  BY <1>1, <1>3, <1>4, <1>5, <1>6, <1>7, <1>8 DEF ShutdownStep

\* So is every step of tpool_enqueue.
LEMMA EnqueueRefines ==
    ASSUME WorkersFit, Inv, RanOK, NEW t \in Clients \cup Workers, EnqueueStep(t)
    PROVE  AbsStep
<1>0. /\ Control /\ LifeOK /\ Lists /\ t \in Threads /\ t # Owner
      /\ pc \in [Threads -> ClientPC \cup WorkerPC \cup OwnerPC]
      /\ queue \in Seq(Tasks)
      /\ p_new_task \in [Threads -> Tasks \cup {NULL}]
      /\ \A c \in Clients : c \notin Workers
  BY DEF Inv, Control, TypeOK, Threads
<1>1. ASSUME NEW x \in Tasks, EnqueueReject(t, x) PROVE AbsStep
  <2>1. UNCHANGED <<queue, ran, PoolPhase, p_task, pc>>
    BY <1>1 DEF EnqueueReject, poolVars, localVars, PoolPhase
  <2> QED
    BY <2>1, Stutter DEF Started, AbsStep
<1>2. ASSUME NEW l \in EnqueuePC, Goto(t, l), t \in Workers => Started(t),
             UNCHANGED <<queue, ran, PoolPhase, p_task>>
      PROVE  AbsStep
  BY <1>0, <1>2, StutterGoto DEF AbsStep
<1>3. ASSUME NEW x \in Tasks, EnqueueAlloc(t, x) PROVE AbsStep
  <2>1. /\ Goto(t, "enq_lock") /\ UNCHANGED <<queue, ran, PoolPhase, p_task>>
        /\ t \in Workers => Started(t)
    BY <1>0, <1>3 DEF EnqueueAlloc, MayEnqueue, Started, poolVars, PoolPhase
  <2> QED
    BY <1>2, <2>1 DEF EnqueuePC
<1>4. CASE EnqueueLock(t)
  <2>1. /\ Goto(t, "enq_walk") /\ UNCHANGED <<queue, ran, PoolPhase, p_task>>
        /\ t \in Workers => Started(t)
    BY <1>4 DEF EnqueueLock, Acquire, Started, EnqueuePC, poolVars, localVars,
                taskVars, PoolPhase
  <2> QED
    BY <1>2, <2>1 DEF EnqueuePC
<1>5. CASE EnqueueWalk(t)
  <2>1. /\ Goto(t, "enq_link") /\ UNCHANGED <<queue, ran, PoolPhase, p_task>>
        /\ t \in Workers => Started(t)
    BY <1>5 DEF EnqueueWalk, Started, EnqueuePC, poolVars, taskVars, PoolPhase
  <2> QED
    BY <1>2, <2>1 DEF EnqueuePC
<1>6. CASE EnqueueLink(t)
  <2> DEFINE x == p_new_task[t]
  <2>1. /\ pc[t] = "enq_link" /\ queue' = LinkAfter(queue, p_current[t], x)
        /\ UNCHANGED <<ran, pool, b_shutdown, p_task>>
    BY <1>6 DEF EnqueueLink, poolVars, taskVars
  <2>2. x \in Tasks /\ t \in Submitting
    BY <1>0, <2>1 DEF Control, LocalsOK, EnqueuePC, Submitting
  <2>3. queue' = Append(queue, x)
    BY <1>0, <2>1, <2>2, LinkAtEnd DEF Lists, ReadsOK, NodeHasOneOwner
  <2>4. x \in New
    BY <2>2 DEF New
  <2>5. \A w \in Workers : Started(w) => w \in InHand
    BY <1>0 DEF Started, InHand, Control, LocalsOK, HoldingPC, EnqueuePC
  <2>6. Running \subseteq Taken
    BY <2>5 DEF Running, Taken
  <2>7. x \notin Linked /\ x \notin Running /\ x \notin ran
    BY <1>0, <2>4, <2>6 DEF Lists, NodeHasOneOwner, RanOK
  <2>8. ASSUME NEW w \in Workers PROVE Started(w)' <=> Started(w)
    <3>1. CASE w = t
      <4>1. pc'[w] = "run"
        BY <1>0, <1>6, <3>1 DEF EnqueueLink, SignalAndReturn, Goto, Waiting, Threads
      <4> QED
        BY <2>1, <3>1, <4>1 DEF Started, EnqueuePC
    <3>2. CASE w # t
      <4>1. pc'[w] = pc[w] \/ (pc[w] = "wait" /\ pc'[w] = "lock")
        BY <1>0, <1>6, <3>2 DEF EnqueueLink, SignalAndReturn, Goto, Waiting, Threads
      <4> QED
        BY <4>1 DEF Started, EnqueuePC
    <3> QED
      BY <3>1, <3>2
  <2>9. Running' = Running /\ PoolPhase' = PoolPhase
    BY <2>1, <2>8 DEF Running, PoolPhase
  <2>10. PoolPhase = "open" \/ (PoolPhase = "closing" /\ Running # {})
    <3>1. CASE t \in Workers
      <4>1. Started(t) /\ Live(t)
        BY <2>1 DEF Started, EnqueuePC, Live
      <4>2. pool # "freed"
        BY <1>0, <3>1, <4>1, AllWorkersGone
      <4>3. p_task[t] \in Running
        BY <3>1, <4>1 DEF Running
      <4> QED
        BY <4>2, <4>3 DEF PoolPhase
    <3>2. CASE t \in Clients
      <4>1. pc[Owner] = "idle" /\ pool = "alive"
        BY <1>0, <2>1, <3>2 DEF LifeOK
      <4>2. ~b_shutdown
        BY <1>0, <4>1 DEF LifeOK
      <4> QED
        BY <4>1, <4>2 DEF PoolPhase
    <3> QED
      BY <3>1, <3>2
  <2>11. Abstract!Submit(x)
    BY <2>1, <2>3, <2>7, <2>9, <2>10
       DEF Abstract!Submit, Abstract!Known, Linked, NodesOf, Running, PoolPhase
  <2> QED
    BY <2>2, <2>11 DEF AbsStep, Abstract!AbsNext
<1> QED
  BY <1>1, <1>3, <1>4, <1>5, <1>6 DEF EnqueueStep
\* So is every step of a worker.
LEMMA WorkerRefines ==
    ASSUME Inv, PopOK, NEW w \in Workers, WorkerStep(w) \/ SpuriousWakeup(w)
    PROVE  AbsStep
<1>0. /\ Control /\ LifeOK /\ Lists /\ w \in Threads /\ w # Owner
      /\ pc \in [Threads -> ClientPC \cup WorkerPC \cup OwnerPC]
      /\ queue \in Seq(Tasks)
      /\ p_task \in [Workers -> Tasks \cup {NULL}]
      /\ \A v \in Workers : v \in Threads
  BY DEF Inv, Control, TypeOK, Threads
<1>1. ASSUME NEW l, Goto(w, l), ~Started(w), l \notin {"run"} \cup EnqueuePC,
             UNCHANGED <<queue, ran, poolVars>>,
             \A v \in Workers : v # w => p_task'[v] = p_task[v]
      PROVE  AbsStep
  <2>1. UNCHANGED PoolPhase
    BY <1>1 DEF PoolPhase, poolVars
  <2> QED
    BY <1>0, <1>1, <2>1, StutterGoto DEF AbsStep
<1>2. CASE WorkerLock(w)
  <2>1. Goto(w, "check") /\ UNCHANGED <<queue, ran, poolVars, p_task>>
    BY <1>2 DEF WorkerLock, Acquire, localVars, taskVars
  <2> QED
    BY <1>1, <1>2, <2>1 DEF WorkerLock, Started, EnqueuePC
<1>3. CASE WorkerWait(w)
  <2>1. Goto(w, "wait") /\ UNCHANGED <<queue, ran, poolVars, p_task>>
    BY <1>3 DEF WorkerWait, localVars, taskVars
  <2> QED
    BY <1>1, <1>3, <2>1 DEF WorkerWait, Started, EnqueuePC
<1>4. CASE WorkerExit(w)
  <2>1. Goto(w, "exited") /\ UNCHANGED <<queue, ran, poolVars, p_task>>
    BY <1>4 DEF WorkerExit, localVars, taskVars
  <2> QED
    BY <1>1, <1>4, <2>1 DEF WorkerExit, Started, EnqueuePC
<1>5. CASE WorkerTake(w)
  <2>1. /\ Goto(w, "pop") /\ UNCHANGED <<queue, ran, poolVars>>
        /\ \A v \in Workers : v # w => p_task'[v] = p_task[v]
    BY <1>0, <1>5 DEF WorkerTake, taskVars
  <2> QED
    BY <1>1, <1>5, <2>1 DEF WorkerTake, Started, EnqueuePC
<1>6. CASE WorkerFree(w)
  <2>1. /\ Goto(w, "lock") /\ UNCHANGED <<queue, ran, poolVars>>
        /\ \A v \in Workers : v # w => p_task'[v] = p_task[v]
    BY <1>0, <1>6 DEF WorkerFree, taskVars
  <2> QED
    BY <1>1, <1>6, <2>1 DEF WorkerFree, Started, EnqueuePC
<1>7. CASE SpuriousWakeup(w)
  <2>1. Goto(w, "lock") /\ UNCHANGED <<queue, ran, poolVars, p_task>>
    BY <1>7 DEF SpuriousWakeup, localVars, taskVars
  <2> QED
    BY <1>1, <1>7, <2>1 DEF SpuriousWakeup, Started, EnqueuePC
<1>8. CASE WorkerPop(w)
  <2>1. /\ pc[w] = "pop" /\ queue' = After(queue, p_task[w]) /\ Goto(w, "run")
        /\ UNCHANGED <<ran, pool, b_shutdown, p_task>>
    BY <1>8 DEF WorkerPop, poolVars, localVars, taskVars
  <2>2. queue # <<>> /\ p_task[w] = Head(queue)
    BY <1>0, <2>1 DEF Lists, ReadsOK
  <2>3. queue' = Tail(queue)
    BY <1>0, <2>1, <2>2, AfterHead DEF Lists, NodeHasOneOwner
  <2>4. Started(w)' /\ \A v \in Workers : v # w => (Started(v)' <=> Started(v))
    BY <1>0, <2>1 DEF Goto, Started
  <2>5. Running' = Running \cup {p_task[w]}
    <3>1. ~Started(w)
      BY <2>1 DEF Started, EnqueuePC
    <3> QED
      BY <2>1, <2>4, <3>1 DEF Running
  <2>6. pool # "freed"
    <3>1. ~b_shutdown
      BY <2>1 DEF PopOK
    <3> QED
      BY <1>0, <3>1 DEF LifeOK
  <2>7. PoolPhase = "open" /\ PoolPhase' = "open"
    BY <2>1, <2>6 DEF PopOK, PoolPhase
  <2>8. Abstract!Start
    BY <2>1, <2>2, <2>3, <2>5, <2>7 DEF Abstract!Start, Running, PoolPhase
  <2> QED
    BY <2>8 DEF AbsStep, Abstract!AbsNext
<1>9. CASE WorkerRun(w)
  <2>0. PICK x \in Tasks : p_task[w] = x
    BY <1>0, <1>9 DEF WorkerRun, Control, LocalsOK, HoldingPC
  <2>1. /\ pc[w] = "run" /\ ran' = ran \cup {x} /\ Goto(w, "free")
        /\ UNCHANGED <<queue, pool, b_shutdown, p_task>>
    BY <1>9, <2>0 DEF WorkerRun, poolVars, localVars
  <2>2. \A v \in Workers : Started(v) => v \in InHand
    BY <1>0 DEF Started, InHand, Control, LocalsOK, HoldingPC, EnqueuePC
  <2>3. Started(w) /\ x \in Running
    BY <2>0, <2>1 DEF Started, Running
  <2>4. \A v \in Workers : Started(v) /\ p_task[v] = x => v = w
    BY <1>0, <2>0, <2>2, <2>3 DEF Lists, NodeHasOneOwner
  <2>5. ~Started(w)' /\ \A v \in Workers : v # w => (Started(v)' <=> Started(v))
    BY <1>0, <2>1 DEF Goto, Started, EnqueuePC
  <2>6. Running' = Running \ {x}
    BY <2>0, <2>1, <2>4, <2>5 DEF Running
  <2>7. Abstract!Finish(x)
    BY <2>1, <2>3, <2>6 DEF Abstract!Finish, Running
  <2> QED
    BY <2>7 DEF AbsStep, Abstract!AbsNext
<1> QED
  BY <1>2, <1>3, <1>4, <1>5, <1>6, <1>7, <1>8, <1>9 DEF WorkerStep

\* Every step of the pool is a step of TaskPool or leaves it unchanged.
LEMMA StepRefines ==
    ASSUME WorkersFit, Inv, RanOK, PopOK, [Next]_vars
    PROVE  AbsStep
<1>1. CASE UNCHANGED vars
  <2>1. UNCHANGED <<queue, ran, PoolPhase, p_task, pc>>
    BY <1>1 DEF vars, poolVars, localVars, taskVars, PoolPhase
  <2> QED
    BY <2>1, Stutter DEF Started, AbsStep
<1>2. CASE CreateStep
  BY <1>2, CreateRefines DEF AbsStep, Inv
<1>3. CASE ShutdownStep
  BY <1>3, ShutdownRefines
<1>4. ASSUME NEW t \in Clients \cup Workers, EnqueueStep(t) PROVE AbsStep
  BY <1>4, EnqueueRefines
<1>5. ASSUME NEW w \in Workers, WorkerStep(w) \/ SpuriousWakeup(w) PROVE AbsStep
  BY <1>5, WorkerRefines
<1> QED
  BY <1>1, <1>2, <1>3, <1>4, <1>5 DEF Next

\* The initial states of the pool are initial states of TaskPool.
LEMMA InitRefines == Init => Abstract!AbsInit /\ RanOK /\ PopOK
<1> SUFFICES ASSUME Init PROVE Abstract!AbsInit /\ RanOK /\ PopOK
  OBVIOUS
<1>1. \A w \in Workers : pc[w] = "unborn"
  BY DEF Init, Threads
<1>2. Running = {}
  BY <1>1 DEF Running, Started, EnqueuePC
<1> QED
  BY <1>1, <1>2 DEF Init, Abstract!AbsInit, Running, RanOK, PopOK

\* Every behaviour of the pool is one of TaskPool, if the number of workers
\* fits the uint8_t field: tasks start in the order in which tpool_enqueue
\* linked them, each at most once, none after b_shutdown is set, and
\* tpool_shutdown drops what is left only when no task runs any more.
THEOREM PoolRefines ==
    ASSUME WorkersFit
    PROVE  Spec => ImplementsTaskPool
<1>1. Inv /\ RanOK /\ PopOK /\ [Next]_vars => [Abstract!AbsNext]_(Abstract!absVars)
  BY StepRefines DEF AbsStep
<1>2. Inv /\ RanOK /\ [Next]_vars => RanOK'
  BY RanStep DEF Inv
<1>3. Inv /\ PopOK /\ [Next]_vars => PopOK'
  BY PopStep DEF Inv
<1> QED
  BY InvInit, InvStep, InitRefines, <1>1, <1>2, <1>3, PTL
     DEF Spec, ImplementsTaskPool, Abstract!AbsSpec

=============================================================================
