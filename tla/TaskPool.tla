------------------------------ MODULE TaskPool ------------------------------
(***************************************************************************)
(* What a thread pool promises, without threads, mutex or memory: a queue  *)
(* of accepted tasks served in the order of submission, each task started  *)
(* at most once; after the pool is closed no task starts, those running    *)
(* come to their end, may still submit, and what is then left is dropped.  *)
(***************************************************************************)
EXTENDS Sequences

CONSTANT Tasks

VARIABLES
    pending,   \* the tasks accepted and not started, oldest first
    running,   \* the tasks started and not finished
    finished,  \* the tasks that came to their end
    phase      \* open, closing or closed

absVars == <<pending, running, finished, phase>>

Known == {pending[k] : k \in DOMAIN pending} \cup running \cup finished

AbsInit ==
    /\ pending = <<>>
    /\ running = {}
    /\ finished = {}
    /\ phase = "open"

Submit(x) ==
    /\ phase = "open" \/ (phase = "closing" /\ running # {})
    /\ x \notin Known
    /\ pending' = Append(pending, x)
    /\ UNCHANGED <<running, finished, phase>>

Start ==
    /\ phase = "open" /\ pending # <<>>
    /\ running' = running \cup {Head(pending)}
    /\ pending' = Tail(pending)
    /\ UNCHANGED <<finished, phase>>

Finish(x) ==
    /\ x \in running
    /\ running' = running \ {x}
    /\ finished' = finished \cup {x}
    /\ UNCHANGED <<pending, phase>>

Close ==
    /\ phase = "open"
    /\ phase' = "closing"
    /\ UNCHANGED <<pending, running, finished>>

Drop ==
    /\ phase = "closing" /\ running = {}
    /\ phase' = "closed"
    /\ pending' = <<>>
    /\ UNCHANGED <<running, finished>>

AbsNext ==
    \/ \E x \in Tasks : Submit(x) \/ Finish(x)
    \/ Start
    \/ Close
    \/ Drop

AbsSpec == AbsInit /\ [][AbsNext]_absVars

=============================================================================
