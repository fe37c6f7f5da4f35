----------------------------- MODULE ThreadPool -----------------------------
(***************************************************************************)
(* The thread pool of libraries/thread_pool/thread_pool_lib.c.             *)
(*                                                                         *)
(* One owner thread creates the pool and shuts it down; client threads     *)
(* submit tasks; the workers take tasks from the queue and run them, and a *)
(* running task may itself submit a task.  Every acquisition of            *)
(* p_queue_mutex, every blocking call and every access made outside the    *)
(* mutex is a step of its own; the critical sections that walk or pop the  *)
(* list are two steps, so that only the mutex keeps them apart.            *)
(*                                                                         *)
(* Two obligations that the library leaves to its callers are part of the  *)
(* environment: threads other than the workers do not call tpool_enqueue   *)
(* while tpool_shutdown runs, and the owner calls tpool_shutdown once and  *)
(* not from a task.                                                        *)
(***************************************************************************)
EXTENDS Integers, Sequences, FiniteSets

CONSTANTS
    Tasks,         \* one task_t node per call of tpool_enqueue
    Clients,       \* threads, other than the workers, that submit tasks
    Owner,         \* the thread that creates and shuts down the pool
    NULL,          \* the null pointer, and the holder of a free mutex
    MaxWorkers,    \* bound on the argument of tpool_create
    UINT8_MOD,     \* 2^8 in the code, the width of tpool.num_workers
    SpawnMayFail,  \* whether pthread_create may fail
    MaxSpurious    \* bound on the spurious wakeups of pthread_cond_wait

Workers == 0 .. MaxWorkers - 1      \* indices into tpool.p_workers
Threads == Workers \cup Clients \cup {Owner}

ASSUME BoundsAssumption ==
    /\ MaxWorkers \in Nat
    /\ UINT8_MOD \in Nat \ {0}
    /\ MaxSpurious \in Nat
    /\ SpawnMayFail \in BOOLEAN

ASSUME ThreadsAssumption ==
    /\ Owner \notin Clients
    /\ Workers \cap (Clients \cup {Owner}) = {}
    /\ NULL \notin Threads
    /\ NULL \notin Tasks

VARIABLES
    pool,         \* the tpool_t object: not created, allocated, or freed
    num_arg,      \* the int argument of tpool_create
    num_workers,  \* the uint8_t field of the pool
    spawned,      \* i of the loop of tpool_create
    joined,       \* i of the loop of tpool_shutdown
    b_shutdown,   \* the field of the pool
    queue,        \* the list of p_task_queue, front first
    mutex,        \* the holder of p_queue_mutex
    pc,           \* where each thread is
    p_task,       \* the local p_task of each worker
    p_new_task,   \* the local p_new_task of each thread in tpool_enqueue
    p_current,    \* the local p_current_task of each thread in tpool_enqueue
    heap,         \* the task_t nodes allocated and not freed
    unsent,       \* the submissions not made yet
    ran,          \* the tasks whose function has returned
    spurious      \* the spurious wakeups so far

poolVars == <<pool, num_arg, num_workers, spawned, joined, b_shutdown>>
localVars == <<p_task, p_new_task, p_current>>
taskVars == <<heap, unsent, ran>>
vars == <<poolVars, localVars, taskVars, queue, mutex, pc, spurious>>

EnqueuePC == {"enq_lock", "enq_walk", "enq_link"}
ClientPC  == {"idle"} \cup EnqueuePC
WorkerPC  == {"unborn", "failed", "lock", "check", "wait", "pop", "run",
              "free", "exited"} \cup EnqueuePC
OwnerPC   == {"idle", "spawn", "set_lock", "set", "join", "free_pool",
              "crashed"}

\* The program counters at which a thread holds p_queue_mutex.
CriticalPC == {"enq_walk", "enq_link", "check", "pop", "set"}

Init ==
    /\ pool = "none"
    /\ num_arg = 0
    /\ num_workers = 0
    /\ spawned = 0
    /\ joined = 0
    /\ b_shutdown = FALSE
    /\ queue = <<>>
    /\ mutex = NULL
    /\ pc = [t \in Threads |-> IF t \in Workers THEN "unborn" ELSE "idle"]
    /\ p_task = [w \in Workers |-> NULL]
    /\ p_new_task = [t \in Threads |-> NULL]
    /\ p_current = [t \in Threads |-> NULL]
    /\ heap = {}
    /\ unsent = Tasks
    /\ ran = {}
    /\ spurious = 0

Goto(t, l) == pc' = [pc EXCEPT ![t] = l]

\* Thread t is granted the mutex and goes on at label l.
Acquire(t, l) == mutex = NULL /\ mutex' = t /\ Goto(t, l)

Waiting == {w \in Workers : pc[w] = "wait"}

-----------------------------------------------------------------------------
\* tpool_create

\* The argument is below one, or a calloc fails: the result is NULL.
TpoolCreateFail ==
    /\ pool = "none" /\ pc[Owner] = "idle"
    /\ UNCHANGED vars

\* The allocations succeed; the int argument is stored in a uint8_t.
TpoolCreate(n) ==
    /\ pool = "none" /\ pc[Owner] = "idle"
    /\ n >= 1
    /\ pool' = "alive"
    /\ num_arg' = n
    /\ num_workers' = n % UINT8_MOD
    /\ Goto(Owner, "spawn")
    /\ UNCHANGED <<localVars, taskVars, spawned, joined, b_shutdown, queue,
                   mutex, spurious>>

\* Mutant: the loop runs once too often (i <= num_workers).
SpawnWorkerOffByOne ==
    /\ pc[Owner] = "spawn" /\ spawned =< num_arg
    /\ spawned' = spawned + 1
    /\ Goto(spawned, "lock")
    /\ UNCHANGED <<localVars, taskVars, pool, num_arg, num_workers, joined,
                   b_shutdown, queue, mutex, spurious>>

\* One turn of the loop that starts the workers.  The result of
\* pthread_create is not looked at.
SpawnWorker ==
    /\ pc[Owner] = "spawn" /\ spawned < num_arg
    /\ spawned' = spawned + 1
    /\ \E l \in {"lock"} \cup (IF SpawnMayFail THEN {"failed"} ELSE {}) :
            Goto(spawned, l)
    /\ UNCHANGED <<localVars, taskVars, pool, num_arg, num_workers, joined,
                   b_shutdown, queue, mutex, spurious>>

\* The loop ends and tpool_create returns the pool.
TpoolCreateReturn ==
    /\ pc[Owner] = "spawn" /\ spawned = num_arg
    /\ Goto(Owner, "idle")
    /\ UNCHANGED <<poolVars, localVars, taskVars, queue, mutex, spurious>>

-----------------------------------------------------------------------------
\* tpool_enqueue, called by a client or by the task that a worker runs

MayEnqueue(t) ==
    \/ t \in Clients /\ pc[t] = "idle" /\ pc[Owner] = "idle"
    \/ t \in Workers /\ pc[t] = "run"

\* A null argument or a failed calloc: the call returns without a trace of
\* the submission.  A client may also still hold, or hold again, a null pool.
EnqueueReject(t, x) ==
    /\ MayEnqueue(t) /\ x \in unsent
    /\ unsent' = unsent \ {x}
    /\ UNCHANGED <<poolVars, localVars, queue, mutex, pc, heap, ran,
                   spurious>>

EnqueueAlloc(t, x) ==
    /\ MayEnqueue(t) /\ x \in unsent /\ pool = "alive"
    /\ unsent' = unsent \ {x}
    /\ heap' = heap \cup {x}
    /\ p_new_task' = [p_new_task EXCEPT ![t] = x]
    /\ Goto(t, "enq_lock")
    /\ UNCHANGED <<poolVars, queue, mutex, p_task, p_current, ran, spurious>>

\* Mutant: the mutex is not taken.
EnqueueWithoutLock(t) ==
    /\ pc[t] = "enq_lock"
    /\ Goto(t, "enq_walk")
    /\ UNCHANGED <<poolVars, localVars, taskVars, queue, mutex, spurious>>

EnqueueLock(t) ==
    /\ pc[t] = "enq_lock"
    /\ Acquire(t, "enq_walk")
    /\ UNCHANGED <<poolVars, localVars, taskVars, queue, spurious>>

\* The walk to the last node; NULL stands for the empty list.
EnqueueWalk(t) ==
    /\ pc[t] = "enq_walk"
    /\ p_current' = [p_current EXCEPT ![t] =
                        IF queue = <<>> THEN NULL ELSE queue[Len(queue)]]
    /\ Goto(t, "enq_link")
    /\ UNCHANGED <<poolVars, taskVars, queue, mutex, p_task, p_new_task,
                   spurious>>

PositionOf(q, x) == CHOOSE k \in DOMAIN q : q[k] = x

\* Mutant: the node is linked at the front.
LinkInFront(q, last, new) == <<new>> \o q

\* What storing new in the list's head (last = NULL) or in last->p_next makes
\* of the list q: whatever followed last is cut off, and nothing changes when
\* last is no longer a node of the list.
LinkAfter(q, last, new) ==
    IF last = NULL THEN <<new>>
    ELSE IF \E k \in DOMAIN q : q[k] = last
         THEN Append(SubSeq(q, 1, PositionOf(q, last)), new)
         ELSE q

\* Mutant: no signal.
ReturnWithoutSignal(t) == Goto(t, IF t \in Workers THEN "run" ELSE "idle")

\* pthread_cond_signal wakes one waiter when there is one; tpool_enqueue then
\* returns to its caller.
SignalAndReturn(t) ==
    LET ret == IF t \in Workers THEN "run" ELSE "idle"
    IN  IF Waiting = {}
        THEN Goto(t, ret)
        ELSE \E w \in Waiting : pc' = [pc EXCEPT ![w] = "lock", ![t] = ret]

EnqueueLink(t) ==
    /\ pc[t] = "enq_link"
    /\ queue' = LinkAfter(queue, p_current[t], p_new_task[t])
    /\ SignalAndReturn(t)
    /\ mutex' = NULL
    /\ p_new_task' = [p_new_task EXCEPT ![t] = NULL]
    /\ p_current' = [p_current EXCEPT ![t] = NULL]
    /\ UNCHANGED <<poolVars, taskVars, p_task, spurious>>

-----------------------------------------------------------------------------
\* worker_thread

\* The lock at the head of the loop, or the one pthread_cond_wait takes again
\* before it returns: both lead to the condition of the inner loop.
WorkerLock(w) ==
    /\ pc[w] = "lock"
    /\ Acquire(w, "check")
    /\ UNCHANGED <<poolVars, localVars, taskVars, queue, spurious>>

\* pthread_cond_wait releases the mutex and blocks in one step.
WorkerWait(w) ==
    /\ pc[w] = "check" /\ queue = <<>> /\ ~b_shutdown
    /\ mutex' = NULL
    /\ Goto(w, "wait")
    /\ UNCHANGED <<poolVars, localVars, taskVars, queue, spurious>>

\* b_shutdown is tested before the queue: a worker leaves tasks behind.
WorkerExit(w) ==
    /\ pc[w] = "check" /\ b_shutdown
    /\ mutex' = NULL
    /\ Goto(w, "exited")
    /\ UNCHANGED <<poolVars, localVars, taskVars, queue, spurious>>

\* Reads the head of the list.  Past the inner loop with b_shutdown false the
\* list is not empty, so the code's branch for a null p_task is never taken.
WorkerTake(w) ==
    /\ pc[w] = "check" /\ queue # <<>> /\ ~b_shutdown
    /\ p_task' = [p_task EXCEPT ![w] = Head(queue)]
    /\ Goto(w, "pop")
    /\ UNCHANGED <<poolVars, taskVars, queue, mutex, p_new_task, p_current,
                   spurious>>

\* The list that p_task_queue = x->p_next leaves.
After(q, x) ==
    IF \E k \in DOMAIN q : q[k] = x
    THEN SubSeq(q, PositionOf(q, x) + 1, Len(q))
    ELSE q

WorkerPop(w) ==
    /\ pc[w] = "pop"
    /\ queue' = After(queue, p_task[w])
    /\ mutex' = NULL
    /\ Goto(w, "run")
    /\ UNCHANGED <<poolVars, localVars, taskVars, spurious>>

\* Mutant: b_shutdown is tested again before the task is run.
WorkerRunUnlessShut(w) ==
    /\ pc[w] = "run"
    /\ ran' = IF b_shutdown THEN ran ELSE ran \cup {p_task[w]}
    /\ Goto(w, IF b_shutdown THEN "exited" ELSE "free")
    /\ UNCHANGED <<poolVars, localVars, queue, mutex, heap, unsent, spurious>>

\* The task's function returns.
WorkerRun(w) ==
    /\ pc[w] = "run"
    /\ ran' = ran \cup {p_task[w]}
    /\ Goto(w, "free")
    /\ UNCHANGED <<poolVars, localVars, queue, mutex, heap, unsent, spurious>>

WorkerFree(w) ==
    /\ pc[w] = "free"
    /\ heap' = heap \ {p_task[w]}
    /\ p_task' = [p_task EXCEPT ![w] = NULL]
    /\ Goto(w, "lock")
    /\ UNCHANGED <<poolVars, queue, mutex, p_new_task, p_current, unsent, ran,
                   spurious>>

\* pthread_cond_wait may return without a signal.
SpuriousWakeup(w) ==
    /\ pc[w] = "wait" /\ spurious < MaxSpurious
    /\ spurious' = spurious + 1
    /\ Goto(w, "lock")
    /\ UNCHANGED <<poolVars, localVars, taskVars, queue, mutex>>

-----------------------------------------------------------------------------
\* tpool_shutdown

\* A null handle: before the first pool exists, or after shutdown cleared it.
ShutdownNull ==
    /\ pool = "freed" /\ pc[Owner] = "idle"
    /\ UNCHANGED vars

ShutdownCall ==
    /\ pool = "alive" /\ pc[Owner] = "idle"
    /\ \A c \in Clients : pc[c] = "idle"
    /\ Goto(Owner, "set_lock")
    /\ UNCHANGED <<poolVars, localVars, taskVars, queue, mutex, spurious>>

ShutdownLock ==
    /\ pc[Owner] = "set_lock"
    /\ Acquire(Owner, "set")
    /\ UNCHANGED <<poolVars, localVars, taskVars, queue, spurious>>

\* Mutant: pthread_cond_signal in the place of pthread_cond_broadcast.
ShutdownSetSignal ==
    /\ pc[Owner] = "set"
    /\ b_shutdown' = TRUE
    /\ IF Waiting = {}
       THEN Goto(Owner, "join")
       ELSE \E w \in Waiting :
               pc' = [pc EXCEPT ![w] = "lock", ![Owner] = "join"]
    /\ mutex' = NULL
    /\ UNCHANGED <<localVars, taskVars, pool, num_arg, num_workers, spawned,
                   joined, queue, spurious>>

\* b_shutdown = true; pthread_cond_broadcast wakes every waiter; unlock.
ShutdownSet ==
    /\ pc[Owner] = "set"
    /\ b_shutdown' = TRUE
    /\ pc' = [t \in Threads |-> IF t = Owner THEN "join"
                                ELSE IF t \in Waiting THEN "lock"
                                ELSE pc[t]]
    /\ mutex' = NULL
    /\ UNCHANGED <<localVars, taskVars, pool, num_arg, num_workers, spawned,
                   joined, queue, spurious>>

\* One turn of the loop over p_workers.
ShutdownJoin ==
    /\ pc[Owner] = "join" /\ joined < num_workers
    /\ pc[joined] = "exited"
    /\ joined' = joined + 1
    /\ UNCHANGED <<localVars, taskVars, pool, num_arg, num_workers, spawned,
                   b_shutdown, queue, mutex, pc, spurious>>

\* pthread_join on the zero that pthread_create left behind is undefined: it
\* returns an error, which is not looked at, or it ends the process.
ShutdownJoinUnstarted ==
    /\ pc[Owner] = "join" /\ joined < num_workers
    /\ pc[joined] = "failed"
    /\ \/ joined' = joined + 1 /\ UNCHANGED pc
       \/ Goto(Owner, "crashed") /\ UNCHANGED joined
    /\ UNCHANGED <<localVars, taskVars, pool, num_arg, num_workers, spawned,
                   b_shutdown, queue, mutex, spurious>>

\* Mutant: the loop leaves out the last worker.
ShutdownJoinedEarly ==
    /\ pc[Owner] = "join" /\ joined >= num_workers - 1
    /\ Goto(Owner, "free_pool")
    /\ UNCHANGED <<poolVars, localVars, taskVars, queue, mutex, spurious>>

ShutdownJoined ==
    /\ pc[Owner] = "join" /\ joined >= num_workers
    /\ Goto(Owner, "free_pool")
    /\ UNCHANGED <<poolVars, localVars, taskVars, queue, mutex, spurious>>

NodesOf(q) == {q[k] : k \in DOMAIN q}

\* Frees p_workers, every node left in the list, without the mutex, and the
\* pool, and clears the caller's handle.
ShutdownFree ==
    /\ pc[Owner] = "free_pool"
    /\ heap' = heap \ NodesOf(queue)
    /\ queue' = <<>>
    /\ pool' = "freed"
    /\ Goto(Owner, "idle")
    /\ UNCHANGED <<localVars, num_arg, num_workers, spawned, joined,
                   b_shutdown, mutex, unsent, ran, spurious>>

-----------------------------------------------------------------------------
CreateStep ==
    \/ TpoolCreateFail
    \/ \E n \in 0 .. MaxWorkers : TpoolCreate(n)
    \/ SpawnWorker
    \/ TpoolCreateReturn

EnqueueStep(t) ==
    \/ \E x \in Tasks : EnqueueReject(t, x) \/ EnqueueAlloc(t, x)
    \/ EnqueueLock(t)
    \/ EnqueueWalk(t)
    \/ EnqueueLink(t)

WorkerStep(w) ==
    \/ WorkerLock(w)
    \/ WorkerWait(w)
    \/ WorkerExit(w)
    \/ WorkerTake(w)
    \/ WorkerPop(w)
    \/ WorkerRun(w)
    \/ WorkerFree(w)

ShutdownStep ==
    \/ ShutdownNull
    \/ ShutdownCall
    \/ ShutdownLock
    \/ ShutdownSet
    \/ ShutdownJoin
    \/ ShutdownJoinUnstarted
    \/ ShutdownJoined
    \/ ShutdownFree

Next ==
    /\ pc[Owner] # "crashed"
    /\ \/ CreateStep
       \/ ShutdownStep
       \/ \E t \in Clients \cup Workers : EnqueueStep(t)
       \/ \E w \in Workers : WorkerStep(w) \/ SpuriousWakeup(w)

Spec == Init /\ [][Next]_vars

-----------------------------------------------------------------------------
(* Fairness: started threads keep being scheduled, a mutex that is free is *)
(* granted, and a task's function returns.  Nothing obliges a client to    *)
(* submit or the owner to shut down.                                       *)

OwnerProgress ==
    \/ SpawnWorker \/ TpoolCreateReturn
    \/ ShutdownLock \/ ShutdownSet \/ ShutdownJoin \/ ShutdownJoinUnstarted
    \/ ShutdownJoined \/ ShutdownFree

EnqueueProgress(t) == EnqueueLock(t) \/ EnqueueWalk(t) \/ EnqueueLink(t)

Fairness ==
    /\ WF_vars(OwnerProgress)
    /\ \A t \in Clients \cup Workers : WF_vars(EnqueueProgress(t))
    /\ \A w \in Workers : WF_vars(WorkerStep(w))

FairSpec == Spec /\ Fairness

-----------------------------------------------------------------------------
(* Properties *)

\* Every variable keeps its type.
TypeOK ==
    /\ pool \in {"none", "alive", "freed"}
    /\ num_arg \in 0 .. MaxWorkers
    /\ num_workers \in 0 .. UINT8_MOD - 1
    /\ spawned \in 0 .. MaxWorkers
    /\ joined \in 0 .. UINT8_MOD - 1
    /\ b_shutdown \in BOOLEAN
    /\ queue \in Seq(Tasks)
    /\ mutex \in Threads \cup {NULL}
    /\ pc \in [Threads -> ClientPC \cup WorkerPC \cup OwnerPC]
    /\ p_task \in [Workers -> Tasks \cup {NULL}]
    /\ p_new_task \in [Threads -> Tasks \cup {NULL}]
    /\ p_current \in [Threads -> Tasks \cup {NULL}]
    /\ heap \subseteq Tasks
    /\ unsent \subseteq Tasks
    /\ ran \subseteq Tasks
    /\ spurious \in 0 .. MaxSpurious

\* The workers that took a node and still have to free it (at "pop" the node
\* is still linked in the list), and the threads of tpool_enqueue with a node
\* that is not linked yet.
InHand == {w \in Workers : p_task[w] # NULL /\ pc[w] # "pop"}
Submitting == {t \in Threads : p_new_task[t] # NULL}

Linked == NodesOf(queue)
Taken  == {p_task[w] : w \in InHand}
New    == {p_new_task[t] : t \in Submitting}

\* tpool_enqueue, worker_thread and tpool_shutdown pass every task_t node from
\* one owner to the next: an allocated node is linked once in the list, or is
\* held by one thread, never both, and a node that is reachable is allocated.
\* No interleaving runs or frees a node twice, or loses one.
NodeHasOneOwner ==
    /\ \A i, j \in DOMAIN queue : queue[i] = queue[j] => i = j
    /\ \A v, w \in InHand : p_task[v] = p_task[w] => v = w
    /\ \A s, t \in Submitting : p_new_task[s] = p_new_task[t] => s = t
    /\ Linked \cap Taken = {} /\ Linked \cap New = {} /\ Taken \cap New = {}
    /\ heap = Linked \cup Taken \cup New

\* A worker past its start and before its return: it goes on using the pool.
Live(w) == pc[w] \notin {"unborn", "failed", "exited"}

\* tpool_shutdown frees the pool only after every worker it started returned:
\* no thread locks the mutex, waits on the condition variable or reads the
\* queue of a pool that was freed.
NoUseAfterFree ==
    pool = "freed" => /\ \A w \in Workers : ~Live(w)
                      /\ mutex = NULL
                      /\ heap = {}

\* One signal for each enqueue is enough: while some worker sleeps in
\* pthread_cond_wait, each queued task has a worker of its own, awake and on
\* its way to the head of the queue.  No wakeup is lost.
Approaching == {w \in Workers : pc[w] \in {"lock", "check", "pop"}}

NoLostWakeup ==
    Waiting # {} => Len(queue) =< Cardinality(Approaching)

\* A task in the queue of a pool that is not shut down is eventually run,
\* whatever its position, whoever submitted it and however many of the calls of
\* pthread_create failed, as long as one worker was started.
SomeWorker == \E w \in Workers : pc[w] \notin {"unborn", "failed"}

QueuedTaskRuns ==
    \A x \in Tasks :
        (x \in NodesOf(queue) /\ SomeWorker) ~> (x \in ran \/ b_shutdown)

\* What tpool_enqueue allocates is freed in the end, once a worker was started:
\* by the worker that ran the task, also when the shutdown overtakes it between
\* taking and running, or by tpool_shutdown, also when a running task submitted
\* it while the workers were being joined.
TaskNodesFreed ==
    \A x \in Tasks :
        (x \in heap /\ SomeWorker) ~> (x \notin heap \/ pc[Owner] = "crashed")

\* Once tpool_shutdown is called it returns, unless joining a worker that was
\* never started ends the process: every worker notices b_shutdown, also one
\* that was about to sleep when it was set.
ShutdownReturns ==
    (pc[Owner] = "set_lock") ~> (pool = "freed" \/ pc[Owner] = "crashed")

\* The pool implements TaskPool: first in, first out, each task started once,
\* no start after the close, and nothing dropped before the last task ended.
Started(w) == pc[w] \in {"run"} \cup EnqueuePC

Abstract == INSTANCE TaskPool WITH
    pending  <- queue,
    running  <- {p_task[w] : w \in {v \in Workers : Started(v)}},
    finished <- ran,
    phase    <- IF pool = "freed" THEN "closed"
                ELSE IF b_shutdown THEN "closing" ELSE "open"

ImplementsTaskPool == Abstract!AbsSpec

-----------------------------------------------------------------------------
(* What the documentation says and the code does not do *)

\* thread_pool_lib.h: tpool_shutdown "waits for all tasks in the tpool queue
\* to complete": none is left when it has joined the workers and goes on to
\* free the pool.
ShutdownRunsQueue == pc[Owner] = "free_pool" => queue = <<>>

=============================================================================
