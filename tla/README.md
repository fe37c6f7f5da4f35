# Formal models of the libraries and programs

TLA+ models of the C libraries under `libraries/` (thread pool, linked list,
signal handling, AVL tree, server, file utilities), of the assembly programs
that keep state or transform files (`assembly/coder`, `rot_13`, `checksum`,
`menu_program`) and of the C programs that fork (`assembly/170d`). TLC checks
every model on small instances. For the pool, the list, the signals, the
descriptors, the processes, the filters and the menu, TLAPS proves the safety
properties for every value of the parameters, and that the pool and the list
implement their abstract specifications.

Paths in this file are relative to the repository.

## 1. Inventory

| Component | State | Operations | What is hard |
|---|---|---|---|
| thread pool `libraries/thread_pool` | task list, mutex, condition variable, `b_shutdown`, `num_workers` | `tpool_create`, `tpool_enqueue`, `worker_thread`, `tpool_shutdown` | interleavings, lost wakeups, shutdown against running and sleeping workers, failing `pthread_create`, a `uint8_t` that counts an `int` |
| linked list `libraries/llist` | nodes, `head`, `tail`, `count`, mutex | four insertions, removal, `peek`, `peek_tail`, `display`, `size`, `is_empty`, `destroy` | reads outside the mutex, `tail` that removal never updates, address reuse |
| signals `libraries/sig_handlers` | `gb_is_running`, its mutex, installed handlers, per-thread masks | `establish_sig_handler`, `block_*`, `unblock_*`, `is_program_running`, `stop_program`, the handler | the handler runs on top of the code it interrupts and takes the same mutex |
| AVL tree `libraries/avl_tree` | nodes with stored heights, `count`, mutex | insert, delete, search, count, destroy, five traversals | rotations on stale heights, allocation failure inside the recursion |
| server `libraries/server_lib` | `server_t`, a socket | `establish_server` | one step of several fails after the socket exists; two servers on one port; a number of a descriptor that is stale |
| files `libraries/file_utils` | none but the descriptors | open, validate, size, binary test | files change between the checks; a full table of descriptors |
| file filters `assembly/coder`, `rot_13`, `checksum` | files, positions, rotation counter, running sum | one run of a program | the second program must undo the first on whatever files it finds; ignored results of `read` and `write` |
| menu `assembly/menu_program` | data sections of fib and factorial, `rbx` | Fibonacci, factorial, hexadecimal conversion | data that no call resets, carries across three registers, overflow half way through an update |
| process demonstrations `assembly/170d` (`OrphanZombie.c`, `OrphanZombie2.c`, `forkcmd.c`, `forkpid.c`, `execve.c`) | two processes, their parents and exit states, stdio buffers | one run of a program | order of two sleeps, orphans and zombies, failing `fork` and `execve` |
| exercises, course material, older copies | none between runs | | |

The libraries do not call each other: a program links the ones it needs.
Inside the pool, client threads, workers and the owner share the task list;
tasks run by workers may submit tasks. In the signal library the kernel calls
the handler between any two steps of any thread. The server and the file
utilities meet in the process's table of descriptors. The filters interact
through files, the menu options through memory that they leave to each other,
the two processes of a fork through time, `waitpid` and the kernel.

What makes each component correct:

* pool: every accepted task node has one owner at a time, is run at most once
  and freed exactly once; a task does not sit in the queue beside a sleeping
  worker; nothing is used after `tpool_shutdown` freed it; shutdown returns.
* list: a chain of live nodes that behaves as a queue, stack or both.
* signals: a stop request is never lost, and no handler waits for itself.
* tree: a search tree without lost nodes, balanced, that behaves as a set.
* server and files: "started" means listening, a failure costs no descriptor
  that cannot be given back, and no handle loses its file.
* process demonstrations: the child ends the way that was announced, its
  status is reported, nothing stays behind.
* filters: decoding gives the original back, and every program ends (the
  checksum programs only when reads succeed).
* menu: what is displayed is the number asked for.

`PROJECT.json` lists the hazards at their source lines with the properties
aimed at them.

## 2. Modules

| Module | Models | Runs |
|---|---|---|
| `ThreadPool`, `MCThreadPool` | `thread_pool_lib.c` | `pool`, `pool_drain` |
| `TaskPool` | abstract specification of the pool | refined in `pool` |
| `ThreadPoolProofs` | theorems about `ThreadPool` | TLAPS |
| `LinkedList`, `MCLinkedList` | `linked_list_lib.c` | `list_safe`, `list_tail` |
| `Deque` | abstract specification of the list | refined in `list_safe` |
| `LinkedListProofs` | theorems about `LinkedList` | TLAPS |
| `SigHandler`, `MCSigHandler` | `sig_handler_lib.c` | `signal_masked`, `signal_deadlock` |
| `SigHandlerProofs` | theorems about `SigHandler` | TLAPS |
| `AvlTree`, `MCAvlTree` | `avl_tree_lib.c` | `avl_set`, `avl_balance` |
| `KeySet` | abstract specification of the tree | refined in `avl_set` |
| `FileFilters`, `MCFileFilters` | `coder.s`, `decoder.s`, `coder2.s`, `rot.s`, `encode.s`, `checksum.s` | `filters_roundtrip` |
| `FileFiltersProofs` | theorems about `FileFilters` | TLAPS |
| `MenuProgram`, `MCMenuProgram` | `menu.s`, `fib.s`, `factorial.s`, `converter.s` | `menu_options` |
| `MenuProgramProofs` | theorems about `MenuProgram` | TLAPS |
| `Descriptors`, `MCDescriptors` | `server_lib.c`, `file_utils_lib.c` | `descriptors_table` |
| `DescriptorsProofs` | theorems about `Descriptors` | TLAPS |
| `ForkDemos`, `MCForkDemos` | `OrphanZombie.c`, `OrphanZombie2.c`, `forkcmd.c`, `forkpid.c`, `execve.c` | `fork_fates` |
| `ForkDemosProofs` | theorems about `ForkDemos` | TLAPS |
| `NumberLemmas` | division, least elements, recursion over numbers | TLAPS, used by the proofs of list, filters and menu |

To check a run: `tlc -config <file>.cfg <MC module>`; to check the proofs
of a module: `tlapm <module>.tla`. Definitions whose comment starts with "Mutant:"
are deliberately wrong variants of the definition they precede; substituting
one must break the property it is listed with in `PROJECT.json`.

### ThreadPool

`pool`, `num_workers`, `b_shutdown`, `queue` and `mutex` are the fields of
`tpool_t`; `pc`, `p_task`, `p_new_task` and `p_current` are the program counter
and the local pointers of each thread; `heap` is the set of allocated nodes.
The linked task list is a sequence. A lock, a wait and every access outside the
mutex is a step; critical sections that first read the list and then write it
(the walk to the last node and the link; reading `p_head` and popping it) are
two steps, so that it is the mutex and not the granularity that keeps them
apart. `pthread_cond_wait` is a release with a state of its own, from which a
signal, a broadcast or a spurious wakeup leads back to the lock. A task either
returns or calls `tpool_enqueue`. `pthread_create` may fail, and the code
ignores that: the join of a worker that never started is undefined and may
also end the process (`crashed`).

Obligations of the callers that the library relies on are built in: only
running tasks submit while `tpool_shutdown` runs, and it is called once, by a
thread that is not a worker.

### LinkedList

Nodes are addresses that `calloc` hands out again after `free`. `head`, `tail`,
`count` and the `next` and `data` fields change as in the code. The unlocked
emptiness test, the unlocked reads of `llist_peek` and `llist_peek_tail` and
the walk of `llist_display` are separate steps. A dereference of NULL or of a
freed node sets `fault` and stops the model. What is safe depends on how the
callers use the list, so `use` picks insertions, consumers and reads from
`Uses`.

### SigHandler

A delivered signal pushes a frame on the thread's stack of handlers with the
mask to restore; its own signal is blocked while it runs (`sa_mask` is empty, so
others are not). The mutex is held by a thread at a level of that stack. `Deliver`,
`Raise`, `Kill` and `HandlerReturn` are the kernel. `Masked` selects whether the
callers follow the discipline under which the library is sound: a thread blocks
the stop signals around the calls that take the mutex, at other times at most
`MaxOpen` of them are open, and the first thread establishes the stop handlers
before it starts the others. Further handlers may be established at any time,
by any thread; `late` remembers that, because `gb_is_running = 1` then overwrites
a stop. The calls that set the mask may fail; `block_signal` then does not tell
its caller.

### AvlTree

A node is a record, the tree a nested record. `insert_node`, `delete_node`, the
rotations and the traversals are recursive operators with the code's
comparisons, including the test for a difference of exactly two and the search
for the successor. Insertion may fail to allocate. `spliced` remembers whether a
deletion took its successor from below the right child, `fault` a dereference
of NULL. Each operation is one step: the tree's mutex spans it. Of
`avl_display_full` and `write_avl_tree_to_file` the order in which nodes are
visited is modelled.

### FileFilters

One behaviour runs two programs, the second on the output of the first, with
new files, over older longer files, or in place. Bytes are integers of `BITS`
bits; rotations, xor, letter arithmetic and the 16-bit sum are computed, xor by
a recursion over the bits (`xor_low`) that the provers can follow. The file
model has the calls the code makes: `open` without `O_TRUNC`, `read` and
`write` at a position, `ftruncate`. `lost` records that a call failed. `sound`
tells whether the reads of a program ever succeed: `open` accepts a directory,
on which all of them fail, and encode and decode then read for ever. The exit
code of the copying programs is `unset` on success: the stack slot is never
written. The message texts and the way the checksum programs derive file names
are left out.

### MenuProgram

The variables are the words of the data sections plus `rbx`, which the
conversion inherits from the other options. A turn of a loop is a step. `shown`,
`over` and `asked` are history. End of input reads as the number 0 and is the
menu's invalid option, a stutter.

### Descriptors

`fds` is the process's table, from which the kernel gives out the lowest free
number. `establish_server` is a chain of steps, one per system call, each of
which may fail; between the steps other threads run, so that two servers may
both be bound to a port before one of them listens (both sockets have
`SO_REUSEADDR`). `server_socket` changes exactly where the code assigns it. What
the callers do is `policy`: after a false return they try again ("retry"), close
the number in `server_socket` first ("close"), or close it and set `server_socket`
to -1 ("tidy"); the library does none of this, nor asks for it. `misled` is
history: a "close" caller was told false by a `socket` that failed, and found the
number of an earlier attempt, which it had closed already. It will close it
again, whatever it stands for by then; the kernel's part of the model (`CanBind`,
`CanListen`, `CallFails`) therefore looks at what the number really is. Ports are
not 0, for which the kernel would choose one. A reader opens files, by
`open_file` in one step or by `validate_and_open_file` in its three look-ups of
the name, between which `FileChanges` may remove or lock the file; `fopen` also
fails for a mode that is refused, a full table, and for no reason in the model.
A null `FILE` that reaches `is_file_binary` sets `crashed` and stops the model.
The comparison with the root directory and the kind of the file are outcomes,
not computed.

### ForkDemos

`prog` picks the program. Each process has a place, a branch taken after `fork`
(`role`), and for the kernel a state (`life`), a parent and an exit code. `Die` is
the kernel: an ended child of a living parent is a zombie until `waitpid`, a
child whose parent ends goes to init. `clock` counts seconds and moves when
every process sleeps, waits or runs a command: steps of the programs take less
than a second, on which their comments rely. `sleep` takes an unsigned int, so
negative arguments wrap at `UINT_MOD`. `printed` and `seen` tell what was given
to stdio from what reached stdout: a terminal gets it at once, a file when the
process exits, nothing after `execve`.

## 3. Runs

| Run | Bounds | Distinct states | Result |
|---|---|---|---|
| `pool` | 0 to 3 workers, 2 clients, 3 tasks, 1 spurious wakeup, failing `pthread_create` | 215 636 | passes |
| `pool_drain` | 2 workers, 1 client, 2 tasks | | violates `ShutdownRunsQueue` |
| `list_safe` | 3 nodes, 4 items, 2 threads, one consumer | 11 067 | passes |
| `list_tail` | 2 nodes, 1 thread | | violates `NoFault` |
| `signal_masked` | 2 threads, 3 signals (2 stop signals), 2 sent | 461 180 | passes |
| `signal_deadlock` | 1 thread, 1 signal | | violates `NoSelfDeadlock` |
| `avl_set` | 7 keys, all orders of insertion and deletion | 57 043 | passes |
| `avl_balance` | 6 keys | | violates `Balanced` |
| `filters_roundtrip` | 4-bit bytes, 3 letters, files of 0 to 6 bytes, failing reads and writes | 86 820 | passes |
| `menu_options` | 6-bit registers, 4 calls | 129 686 | passes |
| `descriptors_table` | 2 servers in 4 configurations, 3 kinds of callers, 1 reader, 1 file, 3 descriptors, 1 call that fails for no reason | 455 847 | passes |
| `fork_fates` | times from -1 to 3, `UINT_MOD` 8, a pause of 3 | 4 726 | passes |

Why the bounds are enough to meet the interesting cases:

* Pool: three workers allow one to sleep, one to take the task and one to be
  on its way; three tasks for two clients and nested submission keep the
  queue filled while workers run; nested submission needs one worker and
  one task; `UINT8_MOD` is 4 so that the counter is at its limit with three
  workers. A pool of zero workers is included.
* List: fewer addresses than items, so that a freed address is reused while a
  pointer to it may be left over.
* Signals: two threads, two stop signals and a third one allow a handler on top
  of another, one that competes with another thread for the mutex, and handlers
  established late. Two stop handlers nested on one thread are excluded by
  `MaxOpen = 1`: with 2 `NoSelfDeadlock` is false.
* Tree: the smallest tree in which a splice goes wrong needs six keys or fewer
  (`avl_balance`); seven let later operations work on the damaged tree.
* Filters: six bytes take the counter from 3 to 0 and beyond; odd lengths end
  in half a word. The leftover file is longer than any output.
* Menu: with six bits three registers overflow at the 28th Fibonacci number,
  below the largest positive number (31), as with 64 bits, where it is the
  279th. No middle register is 0 while the high one is not, in either width.
* Descriptors: three numbers are just enough for two servers and a reader, so
  one socket that is left open makes a call fail. The configurations are two
  servers on one port, on two ports, TCP beside UDP, and a type that does not
  exist. One unexplained failure, wherever it comes, is added to those that the
  state explains (a taken port, a full table, UDP's `listen`).
* Processes: the programs only compare the two times, so one more and one less
  than each, 0 and a negative one are all cases; `UINT_MOD` exceeds each sum.

Deadlock checking is off where the environment may simply stop calling
(`list_*`), where the run ends with the process (`pool`: undefined join;
`avl_*`: destruction), and in violation runs; in `pool` the liveness properties
say what must not block. In `signal_masked`, `filters_roundtrip`,
`menu_options`, `descriptors_table` and `fork_fates` it is on.

### Properties

* `NodeHasOneOwner`, `NoUseAfterFree`, `NoLostWakeup`,
  `TaskNodesFreed`, `QueuedTaskRuns`, `ShutdownReturns`, and refinement of
  `TaskPool` (first in, first out, started once, none after the close, nothing
  dropped before the last running task ended).
* `NoFault`, `ChainIsSound`, `TailIsLast`, and refinement of `Deque`.
* `NoSelfDeadlock`; `NoStopLost` (a stop that was requested is pending, in a
  handler, or has cleared the flag, unless a handler was established late);
  `SignalStops` and `CallsReturn`, unless the thread starves on the mutex.
* `Ordered`, `NothingLeaks`, `BalancedUntilSplice` (which includes that no null
  pointer is followed), `TraversalsVisit`, and refinement of `KeySet`. The set
  behaviour holds on unbalanced trees too, as long as nothing faulted.
* `RoundTrip`, `Terminates` (but for encode and decode when no read succeeds),
  and `VerdictCountsChecksum`: what the verdict of
  decode depends on, against a sum that is not computed by the programs' loop.
* `ShowsFibonacci`, `OverflowIsFinal`, `FirstFactorialRight`, `OptionsReturn`.
* `EstablishedListens` and `HandleKeepsFile`, for all three kinds of callers
  until one is misled; `TidyKeepsDescriptors` and `ServerComesUp`, for those that
  close what a failed attempt left open, until one is misled. For callers that
  only try again the last two are false, and without the condition `~misled`
  TLC finds a `FILE` whose descriptor was closed under it in ten steps: both
  show what the library leaves to its callers. Nothing is claimed of an
  `fopen` that fails for other reasons than a full table.
* `AnnouncedFate`, `CommandReported`, `OutputKept`, `AllEnds`.

`TypeOK` is checked, and proved, for the pool, the list, the signals, the menu
and the descriptors.

### Fairness

* Pool: weak fairness of the owner once in a library call, of each submission
  and of each worker. Threads are scheduled, a mutex that stays free is
  granted, and task functions return. No client must submit, no owner must
  shut down, and no spurious wakeup is required.
* Signals: weak fairness of each thread inside the library. A pthread mutex is
  not fair, so a thread may wait for ever while the others take and release it
  again and again; `SignalStops` and `CallsReturn` state that case (`Starves`) as
  an exception and assume nothing against it.
* Filters and menu: weak fairness of the steps of a running program. A read may
  fail any number of times on an input whose reads succeed (`sound`), but not
  for ever; on one whose reads all fail the checksum programs do not end, which
  `Terminates` says (`ReadsForEver`).
* Descriptors: weak fairness of each server's thread inside `establish_server`
  and of its caller's next attempt. Nobody must stop a server or open a file.
* Processes: weak fairness of each process and of the clock: processes are
  scheduled, time passes, and the commands that are executed end.

### Disagreements between code and documentation

* `pool_drain`: `thread_pool_lib.h` says that `tpool_shutdown` waits for all
  tasks in the queue; workers test `b_shutdown` first and return, and queued
  tasks are freed without being run.
* `list_tail`: after the last node is removed `tail` still names it, and
  `llist_peek_tail` reads it.
* `signal_deadlock`: the handler locks the mutex that the interrupted call of
  the same thread may hold, in the trace `establish_sig_handler` at its last
  lines (72 to 74), and likewise `is_program_running` and `stop_program`; the
  comment calls the flag safe to access from both.
* `avl_balance`: unlinking the successor updates no height on its path.

### Further observations

Met while modelling; the models show them but no run is devoted to them.

* `num_workers` is a `uint8_t`: of 256 workers or more some are not joined. The
  theorems below assume that the number fits.
* The results of `pthread_create` are ignored.
* `llist_insert_back` does not set `tail`; `llist_enqueue` after it on a list
  that was built that way writes through NULL. Two removing threads race
  between the emptiness test and the lock. `llist_destroy` sets its own
  parameter to NULL, not the caller's.
* `unblock_all_signals` unblocks the empty set. A stop that arrives while
  `establish_sig_handler` runs for a second signal is overwritten. With two stop
  signals open one handler may interrupt the other inside its critical section.
* On a tree that a splice left unbalanced, inserting a key that is already
  there can rotate around a missing child and dereference NULL
  (`avl_tree_lib.c:731`). `avl_level_order` takes no mutex.
* `checksum.s` applies `ftruncate` to the output, so decoding adds the stored
  checksum to the sum it compares: it calls a file that encode just wrote a
  mismatch, except where the two sums agree by chance
  (`VerdictCountsChecksum` says exactly when). `encode.s` and `checksum.s` stop
  reading only for 0, so on a directory they never end.
* `block_signal` reports no failure.
* `server_lib.h` offers type 1 as UDP, but `listen` fails for a UDP socket, so
  `establish_server` never returns true for it. A failed attempt leaves its
  socket open. A caller that closes `server_socket` after each false return
  must also reset it: `socket` may fail next and leave the old number there.
* `validate_and_open_file` goes on after a failed `fopen` and reads from NULL;
  `file_utils_lib.h` promises NULL as the answer. With a mode such as "wx", which
  refuses the file that was just found, that is the normal case. `is_file_binary` never
  answers true, because `!RECORD_SEP` is the constant 0.
* `forkcmd.c` reports a child whose `execve` failed as terminated normally; a
  failed `fork` takes the branch of the child. With stdout in a file the text
  printed before `execve` is lost. `OrphanZombie.c` with equal times lets both
  sleep equally long, and the child may print its PPID as an orphan while its
  parent is there; a negative time sleeps for up to 2^32 - 1 seconds.
* The hexadecimal conversion of the menu divides with a character code in
  `rdx` in its second turn: every number but 0 ends in a divide error.
* FIBBY with a number that is not above the last one runs on until three
  registers overflow; after very many further calls it displays truncated
  numbers. FACTOR never resets `RES_1`: from its second call on it multiplies into
  the last answer and displays that as `n!` (`factorial.s:147`).

## 4. Proofs

Seven modules hold theorems about the components, and `NumberLemmas` facts about
numbers that three of them use. Each theorem holds for every value of the constants that
the assumptions of the model allow: any number of threads, tasks, nodes,
signals, descriptors, any times, files of any length, any width of a byte or a
register.

| Module | Theorem | States | Assumes besides the model's own assumptions |
|---|---|---|---|
| `ThreadPoolProofs` | `TypeCorrect` | `[]TypeOK` | |
| | `OneOwner` | `[]NodeHasOneOwner` | `WorkersFit` |
| | `WakeupsSuffice` | `[]NoLostWakeup` | `WorkersFit` |
| | `FreedAfterUse` | `[]NoUseAfterFree` | `WorkersFit` |
| | `PoolRefines` | `ImplementsTaskPool` | `WorkersFit` |
| `LinkedListProofs` | `TypeCorrect` | `[]TypeOK` | |
| | `FaultFree` | `[]NoFault` | `Disciplined` |
| | `SoundChain` | `[]ChainIsSound` | `Disciplined` |
| | `TailStaysLast` | `[]TailIsLast` | `Disciplined` |
| | `ListRefines` | `ImplementsDeque` | `Disciplined` |
| `SigHandlerProofs` | `TypeCorrect` | `[]TypeOK` | |
| | `SelfDeadlockFree` | `[]NoSelfDeadlock` | `Masked`, `MaxOpen =< 1` |
| | `StopsSurvive` | `[]NoStopLost` | `Masked`, `MaxOpen =< 1` |
| `DescriptorsProofs` | `TypeCorrect` | `[]TypeOK` | |
| | `TrueMeansListening` | `[]EstablishedListens` | |
| | `TidyLosesNothing` | `[]TidyKeepsDescriptors` | |
| | `HandlesStay` | `[]HandleKeepsFile` | |
| `ForkDemosProofs` | `FateIsAnnounced` | `[]AnnouncedFate` | |
| | `ReportIsRight` | `[]CommandReported` | |
| | `NothingLost` | `[]OutputKept` | |
| `MenuProgramProofs` | `TypeCorrect` | `[]TypeOK` | |
| | `FirstFactorial` | `[]FirstFactorialRight` | |
| | `FibonacciShown` | `[]ShowsFibonacci` | |
| | `OverflowStays` | `OverflowIsFinal` | |
| `FileFiltersProofs` | `EveryRoundTrip` | `[]RoundTrip` | |
| | `VerdictIsAboutWholeFile` | `[]VerdictCountsChecksum` | |

The extra assumptions are the conditions under which the library is right, and
each is met by the run that checks the property:

* `WorkersFit`, `MaxWorkers < UINT8_MOD`: otherwise the join loop stops early,
  workers live on after the pool was freed, and the properties are false.
* `Disciplined`: one thread at most removes and reads, nobody calls
  `llist_peek_tail`, and `llist_enqueue` is not mixed with the other
  insertions. `list_safe` has such callers; those of `list_tail` are not, and
  there `NoFault` is false.
* `Masked` with `MaxOpen =< 1`: the callers block the stop signals around calls
  into the library and leave at most one open. In `signal_deadlock`, without the
  mask, `NoSelfDeadlock` is false.

The assumptions on the constants say what the code's environment gives: models
of addresses and of NULL are distinct; memory is finite and the list's counter
holds its size (`ListAssumption`: a `size_t` counts more nodes than fit in
memory); the table has a descriptor for each server and each reader
(`DescriptorAssumption`; smaller tables are outside what is claimed);
arguments have the type int (`TimesAssumption`: `2 * n` lies within `UINT_MOD`);
a register has at least six bits (`MenuAssumption`, which repeats
`WORD >= 64` because the provers do not compute powers); a byte has at least
four bits, the letters of the two cases do not overlap, the files hold bytes and
the arguments are numbers (`FilterAssumption`). `SumsAssumption` is a
numerical fact about the width, on which `fib.s` relies without saying so: no
Fibonacci number that fits three registers has a middle word of 0 below a high
word that is not 0, no two neighbouring high words add up to one less than a
register holds, and a number that does not fit comes before COUNT wraps. It does
not follow from the width being at least six. TLC evaluates it for 6 bits; for
64 bits, with the 279th number as the first that does not fit, it was computed
outside. Only the two theorems about FIBBY use it.

None of these properties is inductive. The argument of each module:

**Pool.** The invariant comes in layers, each using the ones before it.

1. `Control`: `TypeOK`, `LabelsOK` (each thread stays in its own code),
   `MutexOK` (a thread holds the mutex exactly in its critical sections, hence
   at most one is in one), `LocalsOK` (local pointers are set exactly where they
   are used) and `StartedOK` (which workers exist).
2. `LifeOK`: how far creation and shutdown have come. It ties `joined` to the
   workers that are gone and `b_shutdown` to the place of the owner.
3. `ReadsOK` and `FreshOK`: what a critical section read of the list is still
   true when it writes, because of `MutexOK`; a node is allocated once.
4. `NodeHasOneOwner` then follows step by step: each action moves one node
   from one place to the next.
5. `NoLostWakeup` counts: an enqueue adds one task and, if somebody waits, one
   awake worker; a worker may go to sleep only when the queue is empty; a pop
   takes one of each away.
6. `FreedOK`: when the pool is freed all workers are gone and the rest of the
   queue was freed.

The refinement uses it and two small invariants: `b_shutdown` is not set between
the two halves of a worker's critical section (`PopOK`), and a task that ran is
not submitted again (`RanOK`). Every step then maps to a step of `TaskPool` or to a stutter.

**List.** `Chain` is what a walk from `head` visits, a recursion that the provers
do not unfold. `IsChain(s, h, nx)` says the same of a sequence by its elements
alone: the first is `h`, each links to the following one, the last to NULL, and
no two are equal. The lemma `ChainIs` shows that the walk finds exactly the
sequence with that property, from a least counterexample. What an insertion at
either end, a removal and a write elsewhere make of a chain are lemmas about
`IsChain` (`FrontChain`, `BackChain`, `TailChain`, `OtherChain`). `Inv` adds who
holds a node off the chain (`HoldersOK`), that nothing else is allocated
(`HeapOK`), and `ConsumerOK`: what the only consumer saw outside the mutex, a
list that is not empty or a node on the chain, is still true when it uses it.
TLC checked `Inv` on `list_safe` before it was proved. In the refinement the
sequence of `Deque` is the data along `Chain`.

**Signals.** `MutexOf` says at which level of a thread's stack of handlers the
mutex is held, `MaskOf` that each handler's signal is blocked for everything
stacked above it, `Discipline` that a thread in a call blocks all stop signals
and otherwise has at most one open. Two stop handlers on one stack would then
have the same signal, which the lower one blocks; and a handler above a call
would have been blocked there. For `NoStopLost`, `SetupOK` says that as long as
handlers are being established before the start a stop that was sent is still
pending, because the stop signals are blocked from the first `sigaction` on; and
`ServeOK` that afterwards, until a handler is established late, nobody is in
`establish_sig_handler` and so nobody sets the flag to 1 again.

**Descriptors.** The invariant has two halves. `Basic`, types and places, holds
with every caller, also after one closed a number that was not its own. `Owned`
holds until then (`IndInv` is `Basic /\ (~misled => Owned)`): `SocketOK` ties the
state of a server's socket to the place reached in `establish_server`, for a
number that is in use (`InUse`: not one that a "close" caller closed and left),
`PortsOK` says that no two sockets listen on one port, and `HandlesOK` with
`FilesHeld` that handles and open files match one to one. For callers that close,
`SocketsHeld` makes the table injective into the servers that are not idle and
the readers that have a handle, and counting gives a free descriptor for each
other one. `socket` failing for a "close" caller with an old number is the only
step that breaks `Owned`, by way of the `close` that follows, and it sets
`misled`.

**Processes.** `LifeOK` ties what the kernel knows to the places of the two
processes, `OutputOK` what was printed to what was seen. `ClockOK` bounds the
clock by the wake times of sleeping processes; it makes the shorter sleeper end
first, and `FateOK` follows.

**Menu.** The laws of remainders of products come first, then the lemma that a
recursion over numbers has exactly one solution, again from a least
counterexample; it gives `Factorial` its equations. The
invariant `MissingOK` then says that in the loop of MULT what is still to be
multiplied takes `RES_1` to the factorial, as long as it is the first that was
asked for. For FIBBY, `NeighboursOK` says that the
data section holds two neighbours of the sequence in three words each, the
larger of which was displayed. `WordByWord` adds two such numbers with carries,
and `SkippedWords` shows that the words the code leaves out are 0 in both. After
the overflow `HighOK` says that the high words do not fit without a carry
either; they are not stored any more, so every later turn that looks at them
overflows again.

**Filters.** The bytes come first. With `BYTE = P * Q` a byte is a pair of digits
`Q * h + l`; `rol` makes `P * l + h` of it and `ror` puts it back (`RolRor`). For
`xor_low` a least counterexample among the numbers of bits shows that it stays
within its bits and that doing it twice is no change (`XorTwice`). Turning a
letter by `r` and then by `ALPHA - r` is no change, and neither leaves its case
(`TurnTwice`). `Undone` puts these together: for every accepted argument and
every value of the counter the second program undoes the first on each byte.
The invariant `Consistent` then follows a file through both programs: in a loop
everything behind the position is transformed and everything ahead of it is
still what the program was to read (`LoopOK`, which holds for one file as well
as for two, because reading and writing are at the same position), and the
counter of the coders is the position modulo 4. For files that were new it also
gives their exact lengths. `SumOK` says that `r12` is the sum of the words read so
far; that needs the position to be even or at the end, where half a word may be
left. `Sealed` is the file that encode makes; `StoredSum` shows that decode reads
the sum back from it. All of this is claimed only until a read or a write
fails (`lost`). TLC checked `Consistent` on `filters_roundtrip` before it was
proved.

The attempt to prove an earlier form of `OverflowIsFinal`, that nothing is
displayed ever after, failed for a good reason: the two lower words go on
through all values, and when the middle one comes to 0 a truncated number is
displayed. With 6 bits that takes 151 more calls, more than the run makes. The
property now says so.

Writing these proofs corrected two models: in `ForkDemos` and `MenuProgram` a
CASE had guards that overlap, which leaves the choice open for the provers and
which TLC resolves silently to the first. Both now decide in the order of the
code.

### Only model-checked

* Liveness: `QueuedTaskRuns`, `TaskNodesFreed`, `ShutdownReturns`, `SignalStops`,
  `CallsReturn`, `Terminates`, `OptionsReturn`, `ServerComesUp`, `AllEnds`. Fairness is outside
  the prover's reach.
* `AvlTree` and its refinement of `KeySet`: insertion, deletion and rotation are
  recursive over trees, and what they do to every tree needs an induction over
  data.

## 5. Not modelled

* Assembly helpers that build file names; older versions and copies of
  programs that are modelled in their current form.
* Exercises and the rest of the course material: straight-line code, single
  instructions or constant output, without state between runs. `fibo128.c` and
  `int128printf.c` convert and print one number.
* The bomb exercise: a driver that stops at the first stage that fails. What it
  is about is in the stages, whose code is not in the repository.
* In the modelled parts: printing, user callbacks, the drawing of
  `avl_display_full`, the file written by `write_avl_tree_to_file`, and
  `avl_level_order` on a tree that another thread changes meanwhile: it takes
  no mutex, any concurrent change is a data race, and the code offers no
  discipline under which the walk is defined.
* A composition of the libraries: no program of the repository links two of
  them, and they share nothing but the descriptors, which `Descriptors` covers.

## 6. Plan

Done, in this order: the models (pool with its abstract specification, list,
signals, tree, filters, menu, descriptors, processes) and the proofs of
section 4.
