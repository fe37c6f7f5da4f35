---------------------------- MODULE MCLinkedList ----------------------------
(* Instances of LinkedList for TLC. *)
EXTENDS LinkedList, TLC

CONSTANTS consumer   \* the one thread that removes and reads

\* The list as a queue, and as a list or stack: every insertion other than
\* llist_enqueue.
SafeUses ==
    { [ops |-> {"enqueue"}, consumers |-> {consumer},
       reads |-> {"peek", "display"}],
      [ops |-> {"insert_front", "insert_back", "push"},
       consumers |-> {consumer}, reads |-> {"peek", "display"}] }

\* A queue whose consumer also looks at its tail.
TailUses ==
    { [ops |-> {"enqueue"}, consumers |-> {consumer},
       reads |-> {"peek_tail"}] }

\* Addresses, items and the threads that only produce are interchangeable.
Symmetry ==
    Permutations(Nodes) \cup Permutations(Items)
      \cup Permutations(Threads \ {consumer})

=============================================================================
