----------------------------- MODULE LinkedList -----------------------------
(***************************************************************************)
(* The linked list, stack and queue of libraries/llist/linked_list_lib.c,  *)
(* at the level of its nodes and pointers: nodes are allocated, linked,    *)
(* unlinked, freed and allocated again, and the pointers head and tail are *)
(* updated by the operations as the code does it.                          *)
(*                                                                         *)
(* Threads call the operations concurrently.  Which insertions are used,   *)
(* who removes and reads, and which reads are made is a matter of the      *)
(* callers: one of Uses.  The list is destroyed when no call is under way. *)
(* The first undefined step (a dereference of NULL or of a freed node, a   *)
(* double free) is recorded in fault and ends the behaviour.               *)
(***************************************************************************)
EXTENDS Integers, Sequences, FiniteSets

CONSTANTS
    Nodes,       \* the addresses calloc hands out for llist_node_t
    Items,       \* the user's data, each inserted at most once
    Threads,     \* the callers
    Uses,        \* the ways to use a list: the insertions made (ops), the
                 \* threads that remove and read (consumers), the unlocked
                 \* reads made (reads: peek, peek_tail, display)
    NULL,
    COUNT_MOD    \* 2^64 in the code, the width of llist.count

Inserts == {"insert_front", "insert_back", "push", "enqueue"}

ASSUME ListAssumption ==
    /\ Uses \subseteq [ops : SUBSET Inserts, consumers : SUBSET Threads,
                      reads : SUBSET {"peek", "peek_tail", "display"}]
    /\ NULL \notin Nodes \cup Items \cup Threads \cup {"llist"}
    /\ IsFiniteSet(Nodes) /\ Nodes # {}
    /\ COUNT_MOD \in Nat /\ Cardinality(Nodes) < COUNT_MOD

VARIABLES
    object,   \* the llist_t: not created, allocated, or freed
    handle,   \* whether the caller's llist_t pointer is null
    head, tail, count, mlock,   \* the fields of llist_t
    next, data,                 \* the fields of the nodes
    heap,     \* the nodes allocated and not freed
    pc,       \* where each thread is in its operation
    op,       \* the operation it calls, or called last
    node,     \* the local node pointer of each thread
    unsent,   \* the items not inserted yet
    fault,    \* the first undefined step taken, if any
    use       \* how the callers use the list

listVars == <<object, handle, head, tail, count>>
heapVars == <<next, data, heap>>
vars == <<listVars, heapVars, mlock, pc, op, node, unsent, fault, use>>

Init ==
    /\ object = "none" /\ handle = NULL
    /\ head = NULL /\ tail = NULL /\ count = 0 /\ mlock = NULL
    /\ next = [n \in Nodes |-> NULL]
    /\ data = [n \in Nodes |-> NULL]
    /\ heap = {}
    /\ pc = [t \in Threads |-> "idle"]
    /\ op = [t \in Threads |-> "none"]
    /\ node = [t \in Threads |-> NULL]
    /\ unsent = Items
    /\ fault = "none"
    /\ use \in Uses

Goto(t, l) == pc' = [pc EXCEPT ![t] = l]
Enter(t, o, l) == op' = [op EXCEPT ![t] = o] /\ Goto(t, l)
Set(t, n) == node' = [node EXCEPT ![t] = n]

\* The step of thread t dereferences pointer p, which is undefined.
Undefined(p) ==
    /\ p \notin heap
    /\ fault' = IF p = NULL THEN "null" ELSE "dangling"
    /\ UNCHANGED <<listVars, heapVars, mlock, pc, op, node, unsent>>

\* A call with a null handle returns at once; the others find the object.
Callable(t) == pc[t] = "idle" /\ handle # NULL /\ object = "alive"

-----------------------------------------------------------------------------
\* llist_create, with calloc and both callbacks given
LlistCreate ==
    /\ object = "none"
    /\ object' = "alive" /\ handle' = "llist"
    /\ UNCHANGED <<head, tail, count, heapVars, mlock, pc, op, node,
                   unsent, fault>>

is_llist_empty == ~(count > 0)

llist_size == IF handle = NULL THEN COUNT_MOD - 1 ELSE count

-----------------------------------------------------------------------------
\* The insertions: a node is made outside the mutex, then linked under it.

\* The handle or the data is null, or calloc fails: nothing is inserted.
InsertReject(t, x) ==
    /\ pc[t] = "idle" /\ object # "freed" /\ x \in unsent
    /\ unsent' = unsent \ {x}
    /\ UNCHANGED <<listVars, heapVars, mlock, pc, op, node, fault>>

\* Mutant: the node is stored in itself.
CreateNodeWrong(t, o, x, n) ==
    /\ Callable(t) /\ x \in unsent /\ n \notin heap
    /\ unsent' = unsent \ {x}
    /\ heap' = heap \cup {n}
    /\ data' = [data EXCEPT ![n] = n]
    /\ next' = [next EXCEPT ![n] = NULL]
    /\ Set(t, n)
    /\ Enter(t, o, "lock")
    /\ UNCHANGED <<listVars, mlock, fault>>

\* create_node, or the calloc of llist_insert_front and llist_insert_back.
CreateNode(t, o, x, n) ==
    /\ Callable(t) /\ x \in unsent /\ n \notin heap
    /\ unsent' = unsent \ {x}
    /\ heap' = heap \cup {n}
    /\ data' = [data EXCEPT ![n] = x]
    /\ next' = [next EXCEPT ![n] = NULL]
    /\ Set(t, n)
    /\ Enter(t, o, "lock")
    /\ UNCHANGED <<listVars, mlock, fault>>

\* pthread_mutex_lock of every operation.
Lock(t) ==
    /\ pc[t] = "lock" /\ mlock = NULL
    /\ mlock' = t
    /\ Goto(t, "locked")
    /\ UNCHANGED <<listVars, heapVars, op, node, unsent, fault>>

\* count++ and pthread_mutex_unlock, at the end of every insertion.
CountAndUnlock(t) ==
    /\ count' = (count + 1) % COUNT_MOD
    /\ mlock' = NULL
    /\ Set(t, NULL)
    /\ Goto(t, "idle")
    /\ UNCHANGED <<object, handle, data, heap, op, unsent, fault>>

\* The body that llist_insert_front and llist_push share.
LinkFront(t) ==
    /\ tail' = IF tail = NULL THEN node[t] ELSE tail
    /\ next' = [next EXCEPT ![node[t]] = head]
    /\ head' = node[t]
    /\ CountAndUnlock(t)

InsertFront(t) == pc[t] = "locked" /\ op[t] = "insert_front" /\ LinkFront(t)
Push(t) == pc[t] = "locked" /\ op[t] = "push" /\ LinkFront(t)

\* The nodes from head on, at most all of them.
Chain ==
    LET w[k \in 0 .. Cardinality(Nodes)] ==
          IF k = 0 THEN IF head = NULL THEN <<>> ELSE <<head>>
          ELSE LET p == w[k - 1] IN
               IF p = <<>> THEN p
               ELSE IF next[p[Len(p)]] = NULL THEN p
               ELSE Append(p, next[p[Len(p)]])
    IN  w[Cardinality(Nodes) - 1]

\* Mutant: the new node is linked after the first one.
InsertBackShort(t) ==
    /\ pc[t] = "locked" /\ op[t] = "insert_back"
    /\ IF head = NULL
       THEN head' = node[t] /\ UNCHANGED next
       ELSE next' = [next EXCEPT ![head] = node[t]] /\ UNCHANGED head
    /\ UNCHANGED tail
    /\ CountAndUnlock(t)

\* llist_insert_back walks from head to the last node and leaves tail alone.
InsertBack(t) ==
    /\ pc[t] = "locked" /\ op[t] = "insert_back"
    /\ IF head = NULL
       THEN head' = node[t] /\ UNCHANGED next
       ELSE /\ next' = [next EXCEPT ![Chain[Len(Chain)]] = node[t]]
            /\ UNCHANGED head
    /\ UNCHANGED tail
    /\ CountAndUnlock(t)

\* Mutant: tail is not moved to the new node.
EnqueueTailStays(t) ==
    /\ pc[t] = "locked" /\ op[t] = "enqueue"
    /\ \/ head # NULL /\ Undefined(tail)
       \/ /\ head = NULL \/ tail \in heap
          /\ IF head = NULL
             THEN head' = node[t] /\ tail' = node[t] /\ UNCHANGED next
             ELSE /\ next' = [next EXCEPT ![tail] = node[t]]
                  /\ UNCHANGED <<head, tail>>
          /\ CountAndUnlock(t)

\* llist_enqueue writes through tail when head is not null.
Enqueue(t) ==
    /\ pc[t] = "locked" /\ op[t] = "enqueue"
    /\ \/ head # NULL /\ Undefined(tail)
       \/ /\ head = NULL \/ tail \in heap
          /\ IF head = NULL
             THEN head' = node[t] /\ UNCHANGED next
             ELSE next' = [next EXCEPT ![tail] = node[t]] /\ UNCHANGED head
          /\ tail' = node[t]
          /\ CountAndUnlock(t)

-----------------------------------------------------------------------------
\* llist_remove_front, llist_pop and llist_dequeue

\* Mutant: the list is not tested for emptiness.
RemoveUntested(t) ==
    /\ Callable(t) /\ t \in use.consumers
    /\ Enter(t, "remove", "lock")
    /\ UNCHANGED <<listVars, heapVars, mlock, node, unsent, fault>>

\* is_llist_empty reads count before the mutex is taken; on an empty list the
\* call returns NULL and changes nothing.
RemoveTest(t) ==
    /\ Callable(t) /\ t \in use.consumers
    /\ ~is_llist_empty
    /\ Enter(t, "remove", "lock")
    /\ UNCHANGED <<listVars, heapVars, mlock, node, unsent, fault>>

\* Unlinks the first node; tail is left alone.
RemoveUnlink(t) ==
    /\ pc[t] = "locked" /\ op[t] = "remove"
    /\ \/ Undefined(head)
       \/ /\ head \in heap
          /\ Set(t, head)
          /\ head' = next[head]
          /\ count' = (count - 1) % COUNT_MOD
          /\ mlock' = NULL
          /\ Goto(t, "release")
          /\ UNCHANGED <<object, handle, tail, heapVars, op, unsent, fault>>

\* Mutant: the node is not freed.
RemoveKeep(t) ==
    /\ pc[t] = "release"
    /\ Set(t, NULL)
    /\ Goto(t, "idle")
    /\ UNCHANGED <<listVars, heapVars, mlock, op, unsent, fault>>

\* Reads the data and frees the node, after the mutex is released.
RemoveRelease(t) ==
    /\ pc[t] = "release"
    /\ \/ Undefined(node[t])
       \/ /\ node[t] \in heap
          /\ heap' = heap \ {node[t]}
          /\ Set(t, NULL)
          /\ Goto(t, "idle")
          /\ UNCHANGED <<listVars, next, data, mlock, op, unsent, fault>>

-----------------------------------------------------------------------------
\* The reads, which take no mutex: llist_peek, llist_peek_tail, llist_display

\* Loads the pointer; a null one ends the call.
ReadLoad(t, r) ==
    /\ Callable(t) /\ t \in use.consumers
    /\ LET p == IF r = "peek_tail" THEN tail ELSE head
       IN  p # NULL /\ Set(t, p)
    /\ Enter(t, r, "read")
    /\ UNCHANGED <<listVars, heapVars, mlock, unsent, fault>>

\* Dereferences it: the data of the node is returned.
PeekReturn(t) ==
    /\ pc[t] = "read" /\ op[t] \in {"peek", "peek_tail"}
    /\ \/ Undefined(node[t])
       \/ /\ node[t] \in heap
          /\ Set(t, NULL)
          /\ Goto(t, "idle")
          /\ UNCHANGED <<listVars, heapVars, mlock, op, unsent, fault>>

\* One turn of the loop of llist_display.
DisplayStep(t) ==
    /\ pc[t] = "read" /\ op[t] = "display"
    /\ \/ Undefined(node[t])
       \/ /\ node[t] \in heap
          /\ Set(t, next[node[t]])
          /\ Goto(t, IF next[node[t]] = NULL THEN "idle" ELSE "read")
          /\ UNCHANGED <<listVars, heapVars, mlock, op, unsent, fault>>

-----------------------------------------------------------------------------
NodesOf(s) == {s[k] : k \in DOMAIN s}

\* llist_destroy frees the nodes from head on and the list; the assignment to
\* its parameter leaves the caller's pointer as it was.
LlistDestroy ==
    /\ object = "alive" /\ \A t \in Threads : pc[t] = "idle"
    /\ heap' = heap \ NodesOf(Chain)
    /\ head' = NULL /\ object' = "freed"
    /\ UNCHANGED <<handle, tail, count, next, data, mlock, pc, op, node,
                   unsent, fault>>

-----------------------------------------------------------------------------
ThreadStep(t) ==
    \/ \E x \in Items : InsertReject(t, x)
    \/ \E o \in use.ops, x \in Items, n \in Nodes : CreateNode(t, o, x, n)
    \/ Lock(t)
    \/ InsertFront(t) \/ Push(t) \/ InsertBack(t) \/ Enqueue(t)
    \/ RemoveTest(t)
    \/ RemoveUnlink(t)
    \/ RemoveRelease(t)
    \/ \E r \in use.reads : ReadLoad(t, r)
    \/ PeekReturn(t)
    \/ DisplayStep(t)

Next ==
    /\ fault = "none" /\ UNCHANGED use
    /\ \/ LlistCreate
       \/ LlistDestroy
       \/ \E t \in Threads : ThreadStep(t)

Spec == Init /\ [][Next]_vars

-----------------------------------------------------------------------------
(* Properties *)

\* Every variable keeps its type.
TypeOK ==
    /\ object \in {"none", "alive", "freed"}
    /\ handle \in {NULL, "llist"}
    /\ {head, tail} \subseteq Nodes \cup {NULL}
    /\ count \in 0 .. COUNT_MOD - 1
    /\ mlock \in Threads \cup {NULL}
    /\ next \in [Nodes -> Nodes \cup {NULL}]
    /\ data \in [Nodes -> Items \cup {NULL}]
    /\ heap \subseteq Nodes
    /\ pc \in [Threads -> {"idle", "lock", "locked", "release", "read"}]
    /\ op \in [Threads -> Inserts \cup {"none", "remove", "peek",
                                       "peek_tail", "display"}]
    /\ node \in [Threads -> Nodes \cup {NULL}]
    /\ unsent \subseteq Items
    /\ fault \in {"none", "null", "dangling"}
    /\ use \in Uses

\* No operation, in any interleaving its discipline allows, dereferences a
\* null pointer or a freed node, or frees a node twice.
NoFault == fault = "none"

\* The nodes held by a thread between calloc and the link, or between the
\* unlink and free.
Holding(t) == pc[t] = "release" \/ (pc[t] # "idle" /\ op[t] \in Inserts)
Held == {node[t] : t \in {s \in Threads : Holding(s)}}

\* The list is a chain of distinct nodes that ends in NULL, llist_size is its
\* length, and the allocated nodes are those on the chain and those in the
\* hands of a thread: none leaks, and after llist_destroy none is left.
ChainIsSound ==
    /\ Cardinality(NodesOf(Chain)) = Len(Chain)
    /\ Chain # <<>> => next[Chain[Len(Chain)]] = NULL
    /\ NodesOf(Chain) \cap Held = {}
    /\ heap = NodesOf(Chain) \cup Held
    /\ object = "alive" => llist_size = Len(Chain)

\* In a queue, where llist_enqueue writes through tail, tail is the last node
\* of the list whenever there is one.
TailIsLast ==
    ("enqueue" \in use.ops /\ Chain # <<>>) => tail = Chain[Len(Chain)]

\* The list implements a sequence that grows at the ends its discipline
\* names and shrinks at its front: a queue, a stack or both.
EndOf(o) == IF o \in {"insert_front", "push"} THEN "front" ELSE "back"

Abstract == INSTANCE Deque WITH
    ends     <- {EndOf(o) : o \in use.ops},
    contents <- [k \in DOMAIN Chain |-> data[Chain[k]]]

ImplementsDeque == Abstract!DequeSpec

=============================================================================
