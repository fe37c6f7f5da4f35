------------------------------ MODULE AvlTree -------------------------------
(***************************************************************************)
(* The AVL tree of libraries/avl_tree/avl_tree_lib.c.                      *)
(*                                                                         *)
(* A node is a record with its data, the height stored in it and its two   *)
(* subtrees; NULL is the empty tree.  The recursive helpers of the code    *)
(* are operators that take a tree and return the tree that takes its       *)
(* place.  Every operation that changes the tree runs under the tree's     *)
(* mutex from its first to its last access and is one action.              *)
(***************************************************************************)
EXTENDS Integers, SequencesExt

CONSTANTS
    Keys,       \* the user's data, as integers: cmp is their order
    MaxCount,   \* bound on tree.count, and so on the insertions
    NULL,       \* the null pointer
    CRASH       \* the outcome of a dereference of NULL

ASSUME TreeAssumption ==
    /\ Keys \subseteq Int
    /\ MaxCount \in Nat

VARIABLES
    object,   \* the avl_tree_t: not created, allocated, or freed
    p_root,   \* its root
    count,    \* its field count, which no function reads
    nodes,    \* how many avl_node_t are allocated
    held,     \* the data handed to the tree and not to user_free
    result,   \* the key of the last deletion or search, and what it returned
    fault,    \* whether a null pointer was dereferenced
    spliced   \* whether a deletion took a successor from below the right child

vars == <<object, p_root, count, nodes, held, result, fault, spliced>>

Init ==
    /\ object = "none" /\ p_root = NULL /\ count = 0
    /\ nodes = 0 /\ held = {} /\ result = <<NULL, FALSE>>
    /\ fault = FALSE /\ spliced = FALSE

-----------------------------------------------------------------------------
\* Heights and rotations

max(a, b) == IF a > b THEN a ELSE b

height(t) == IF t = NULL THEN -1 ELSE t.height

\* Stores in the root of t the height that its children's heights give.
SetHeight(t) ==
    [t EXCEPT !.height = max(height(t.p_left), height(t.p_right)) + 1]

\* Mutant: the inner subtree is dropped.
rotate_p_right_drop(t) ==
    IF t = NULL THEN NULL ELSE IF t.p_left = NULL THEN NULL
    ELSE LET n == SetHeight([t EXCEPT !.p_left = NULL])
         IN  SetHeight([t.p_left EXCEPT !.p_right = n])

\* Without the child that should come up the result is NULL.
rotate_p_right(t) ==
    IF t = NULL THEN NULL ELSE IF t.p_left = NULL THEN NULL
    ELSE LET n == SetHeight([t EXCEPT !.p_left = t.p_left.p_right])
         IN  SetHeight([t.p_left EXCEPT !.p_right = n])

\* Mutant: the inner subtree is put on the other side.
rotate_p_left_crossed(t) ==
    IF t = NULL THEN NULL ELSE IF t.p_right = NULL THEN NULL
    ELSE LET n == SetHeight([t EXCEPT !.p_left = t.p_right.p_left,
                                      !.p_right = t.p_left])
         IN  SetHeight([t.p_right EXCEPT !.p_left = n])

rotate_p_left(t) ==
    IF t = NULL THEN NULL ELSE IF t.p_right = NULL THEN NULL
    ELSE LET n == SetHeight([t EXCEPT !.p_right = t.p_right.p_left])
         IN  SetHeight([t.p_right EXCEPT !.p_left = n])

rotate_p_left_p_right(t) ==
    rotate_p_right([t EXCEPT !.p_left = rotate_p_left(t.p_left)])

rotate_p_right_p_left(t) ==
    rotate_p_left([t EXCEPT !.p_right = rotate_p_right(t.p_right)])

-----------------------------------------------------------------------------
\* insert_node: a key that is found already is left alone.  ok says whether
\* calloc succeeds.
RECURSIVE insert_node(_, _, _)
insert_node(t, x, ok) ==
    IF t = NULL
    THEN IF ok THEN [data |-> x, height |-> 0, p_left |-> NULL, p_right |-> NULL]
         ELSE NULL
    ELSE LET child == CASE x < t.data -> insert_node(t.p_left, x, ok)
                        [] x > t.data -> insert_node(t.p_right, x, ok)
                        [] OTHER -> NULL
             n == CASE x < t.data -> [t EXCEPT !.p_left = child]
                    [] x > t.data -> [t EXCEPT !.p_right = child]
                    [] OTHER -> t
             lean == height(n.p_left) - height(n.p_right)
             r == CASE x < t.data /\ lean = 2 ->
                         IF x < child.data THEN rotate_p_right(n)
                         ELSE rotate_p_left_p_right(n)
                    [] x > t.data /\ lean = -2 ->
                         IF x > child.data THEN rotate_p_left(n)
                         ELSE rotate_p_right_p_left(n)
                    [] OTHER -> n
         IN  IF child = CRASH THEN CRASH
             ELSE IF r = NULL THEN CRASH ELSE SetHeight(r)

-----------------------------------------------------------------------------
\* delete_node

RECURSIVE Leftmost(_), WithoutLeftmost(_)

\* The in-order successor of a node is the leftmost node on its right.
Leftmost(t) == IF t.p_left = NULL THEN t.data ELSE Leftmost(t.p_left)

\* It is unlinked, and the heights of the nodes on the way stay as they are.
WithoutLeftmost(t) ==
    IF t.p_left = NULL THEN t.p_right
    ELSE [t EXCEPT !.p_left = WithoutLeftmost(t.p_left)]

\* Mutant: the data of the successor is not moved up.
UnlinkSuccessor(t) ==
    CASE t.p_left = NULL  -> t.p_right
      [] t.p_right = NULL -> t.p_left
      [] OTHER -> [t EXCEPT !.p_right = WithoutLeftmost(t.p_right)]

\* The node is found: an only child takes its place, or else its data is
\* replaced by its successor's and the successor's node is unlinked.
Unlink(t) ==
    CASE t.p_left = NULL  -> t.p_right
      [] t.p_right = NULL -> t.p_left
      [] OTHER -> [t EXCEPT !.data = Leftmost(t.p_right),
                            !.p_right = WithoutLeftmost(t.p_right)]

\* Mutant: the root is not rotated at all.
NoRebalance(t) == IF t = NULL THEN NULL ELSE SetHeight(t)

\* The end of delete_node: height and rotations of the root of t.
Rebalance(t) ==
    IF t = NULL THEN NULL
    ELSE LET n == SetHeight(t)
             balance == height(n.p_left) - height(n.p_right)
         IN  CASE balance > 1 ->
                    IF height(n.p_left.p_left) >= height(n.p_left.p_right)
                    THEN rotate_p_right(n)
                    ELSE rotate_p_left_p_right(n)
               [] balance < -1 ->
                    IF height(n.p_right.p_right) >= height(n.p_right.p_left)
                    THEN rotate_p_left(n)
                    ELSE rotate_p_right_p_left(n)
               [] OTHER -> n

RECURSIVE delete_node(_, _)
delete_node(t, x) ==
    IF t = NULL THEN NULL
    ELSE Rebalance(
           CASE x < t.data -> [t EXCEPT !.p_left = delete_node(t.p_left, x)]
             [] x > t.data -> [t EXCEPT !.p_right = delete_node(t.p_right, x)]
             [] OTHER -> Unlink(t))

-----------------------------------------------------------------------------
\* Search, count and traversals

\* The subtree below the node that holds x, or NULL.
RECURSIVE search_helper(_, _)
search_helper(t, x) ==
    IF t = NULL THEN NULL
    ELSE CASE t.data = x -> t
           [] t.data < x -> search_helper(t.p_right, x)
           [] OTHER      -> search_helper(t.p_left, x)

RECURSIVE avl_node_count(_)
avl_node_count(t) ==
    IF t = NULL THEN 0
    ELSE avl_node_count(t.p_left) + avl_node_count(t.p_right) + 1

RECURSIVE avl_inorder_action(_), avl_pre_order_action(_),
          avl_post_order_action(_), print_recursive(_)

avl_inorder_action(t) ==
    IF t = NULL THEN <<>>
    ELSE avl_inorder_action(t.p_left) \o <<t.data>>
           \o avl_inorder_action(t.p_right)

avl_pre_order_action(t) ==
    IF t = NULL THEN <<>>
    ELSE <<t.data>> \o avl_pre_order_action(t.p_left)
           \o avl_pre_order_action(t.p_right)

avl_post_order_action(t) ==
    IF t = NULL THEN <<>>
    ELSE avl_post_order_action(t.p_left) \o avl_post_order_action(t.p_right)
           \o <<t.data>>

\* The order in which avl_display_full prints, without the drawing.
print_recursive(t) ==
    IF t = NULL THEN <<>>
    ELSE print_recursive(t.p_right) \o <<t.data>> \o print_recursive(t.p_left)

\* enqueue on the queue of avl_level_order: nothing happens without a node,
\* or when calloc fails, as it does for the nodes in F.
enqueue(q, t, F) ==
    IF t = NULL THEN q ELSE IF t.data \in F THEN q ELSE Append(q, t)

\* Mutant: the children are enqueued in the wrong order.
level_loop_swapped(q, F) ==
    LET RECURSIVE loop(_)
        loop(p) == IF p = <<>> THEN <<>>
                   ELSE LET n == p[1]
                        IN  <<n.data>> \o loop(enqueue(enqueue(Tail(p),
                                                n.p_right, F), n.p_left, F))
    IN  loop(q)

\* The loop: dequeue a node, visit it, enqueue its children.
RECURSIVE level_loop(_, _)
level_loop(q, F) ==
    IF q = <<>> THEN <<>>
    ELSE LET n == q[1]
         IN  <<n.data>> \o level_loop(enqueue(enqueue(Tail(q), n.p_left, F),
                                              n.p_right, F), F)

avl_level_order(t, F) == level_loop(enqueue(<<>>, t, F), F)

\* The same visits, with the nodes written to the file.
write_avl_tree_to_file(t, F) == level_loop(enqueue(<<>>, t, F), F)

\* The calls under the mutex; without a function to apply they do nothing.
avl_total_elements == avl_node_count(p_root)
avl_inorder == avl_inorder_action(p_root)
avl_pre_order == avl_pre_order_action(p_root)
avl_post_order == avl_post_order_action(p_root)
avl_display_full == print_recursive(p_root)

\* The data passed to user_free, one for each node that is freed.
RECURSIVE destroy_avl_node(_)
destroy_avl_node(t) ==
    IF t = NULL THEN <<>>
    ELSE destroy_avl_node(t.p_left) \o destroy_avl_node(t.p_right)
           \o <<t.data>>

-----------------------------------------------------------------------------
\* The operations.  Calls with a null tree or null data return at once.

\* A null function, or calloc fails: NULL.
avl_create_fail ==
    /\ object = "none"
    /\ UNCHANGED vars

avl_create ==
    /\ object = "none"
    /\ object' = "alive"
    /\ UNCHANGED <<p_root, count, nodes, held, result, fault, spliced>>

\* count is increased whether or not a node was made.
avl_insert(x, ok) ==
    /\ object = "alive" /\ count < MaxCount
    /\ LET t == insert_node(p_root, x, ok)
           new == ok /\ search_helper(p_root, x) = NULL
       IN  IF t = CRASH
           THEN fault' = TRUE /\ UNCHANGED <<p_root, count, nodes, held>>
           ELSE /\ p_root' = t
                /\ count' = count + 1
                /\ nodes' = IF new THEN nodes + 1 ELSE nodes
                /\ held' = IF new THEN held \cup {x} ELSE held
                /\ UNCHANGED fault
    /\ UNCHANGED <<object, result, spliced>>

\* The node of x has two children, and its successor is not the right one.
TakesDeepSuccessor(x) ==
    LET t == search_helper(p_root, x)
    IN  /\ t # NULL
        /\ t.p_left # NULL /\ t.p_right # NULL
        /\ t.p_right.p_left # NULL

\* Exactly one node is freed, and the data of the node found is destroyed.
avl_delete_node(x) ==
    /\ object = "alive"
    /\ LET found == search_helper(p_root, x) # NULL
       IN  /\ p_root' = delete_node(p_root, x)
           /\ result' = <<x, found>>
           /\ count' = IF found THEN count - 1 ELSE count
           /\ nodes' = IF found THEN nodes - 1 ELSE nodes
           /\ held' = IF found THEN held \ {x} ELSE held
    /\ spliced' = (spliced \/ TakesDeepSuccessor(x))
    /\ UNCHANGED <<object, fault>>

avl_search(x) ==
    /\ object = "alive"
    /\ result' = <<x, search_helper(p_root, x) # NULL>>
    /\ UNCHANGED <<object, p_root, count, nodes, held, fault, spliced>>

destroy_avl_tree ==
    /\ object = "alive"
    /\ object' = "freed" /\ p_root' = NULL
    /\ LET freed == destroy_avl_node(p_root)
       IN  /\ nodes' = nodes - Len(freed)
           /\ held' = held \ {freed[k] : k \in DOMAIN freed}
    /\ UNCHANGED <<count, result, fault, spliced>>

Next ==
    /\ ~fault
    /\ \/ avl_create_fail
       \/ avl_create
       \/ \E x \in Keys, ok \in BOOLEAN : avl_insert(x, ok)
       \/ \E x \in Keys : avl_delete_node(x)
       \/ \E x \in Keys : avl_search(x)
       \/ destroy_avl_tree

Spec == Init /\ [][Next]_vars

-----------------------------------------------------------------------------
(* Properties *)

\* The real height of a tree, counted from its leaves.
RECURSIVE Depth(_)
Depth(t) == IF t = NULL THEN -1 ELSE max(Depth(t.p_left), Depth(t.p_right)) + 1

\* The nodes of t, each as the subtree below it.
RECURSIVE Subtrees(_)
Subtrees(t) ==
    IF t = NULL THEN {} ELSE {t} \cup Subtrees(t.p_left) \cup Subtrees(t.p_right)

KeysOf(t) == {s.data : s \in Subtrees(t)}

\* Whatever rotations and deletions have done, the keys stay in search-tree
\* order and no key is there twice.
Ordered ==
    \A i, j \in DOMAIN avl_inorder : i < j => avl_inorder[i] < avl_inorder[j]

\* Rotations and deletions neither drop nor duplicate a node: every allocated
\* node is in the tree, and the tree holds exactly the data it was given and
\* has not destroyed.  After destroy_avl_tree nothing is left.
NothingLeaks ==
    /\ nodes = avl_total_elements
    /\ held = KeysOf(p_root)

\* avl_tree_lib.c: the tree "maintains balance by ensuring that the height
\* difference between its left and right subtrees [...] is always at most one".
Balanced ==
    \A t \in Subtrees(p_root) :
       Depth(t.p_left) - Depth(t.p_right) \in -1 .. 1

\* Until the first deletion that takes its successor from below the right
\* child, the stored heights are the real ones, every node is balanced, and no
\* rotation finds its child missing: insert_node follows no null pointer.
BalancedUntilSplice ==
    ~spliced => /\ Balanced /\ ~fault
                /\ \A t \in Subtrees(p_root) : t.height = Depth(t)

\* The breadth-first visits reach every node, unless calloc failed for it or
\* for a node above it, exactly once and by increasing depth, from left to
\* right.
LevelOrderVisits ==
    \A F \in {{}} \cup {{x} : x \in KeysOf(p_root)} :
       LET s == avl_level_order(p_root, F)
           above(x) == {t \in Subtrees(p_root) : x \in KeysOf(t)}
           seen == {x \in KeysOf(p_root) : \A t \in above(x) : t.data \notin F}
       IN  /\ {s[k] : k \in DOMAIN s} = seen /\ Len(s) = Cardinality(seen)
           /\ \A i, j \in DOMAIN s : i < j =>
                LET di == Cardinality(above(s[i])) dj == Cardinality(above(s[j]))
                IN  di < dj \/ (di = dj /\ s[i] < s[j])

\* In the depth-first ones the keys below a node come in one run, which starts
\* with it in avl_pre_order and ends with it in avl_post_order, and
\* avl_display_full prints them from the last to the first.
DepthFirstVisits ==
    LET pre  == avl_pre_order
        post == avl_post_order
        runOf(s, t, i, j) ==
            {s[k] : k \in i .. j} = KeysOf(t) /\ j - i + 1 = avl_node_count(t)
    IN  /\ avl_display_full = Reverse(avl_inorder)
        /\ \A t \in Subtrees(p_root) :
             /\ \E i, j \in DOMAIN pre : runOf(pre, t, i, j) /\ pre[i] = t.data
             /\ \E i, j \in DOMAIN post : runOf(post, t, i, j) /\ post[j] = t.data

\* The traversals visit the tree they are given, in the order of their names,
\* for trees of every shape that insertions and deletions leave behind.
TraversalsVisit == LevelOrderVisits /\ DepthFirstVisits

\* Search, insertion and deletion are those of a set.
Abstract == INSTANCE KeySet WITH contents <- KeysOf(p_root)

ImplementsKeySet == Abstract!SetSpec

=============================================================================
