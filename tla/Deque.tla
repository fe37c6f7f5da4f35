------------------------------- MODULE Deque --------------------------------
(***************************************************************************)
(* What the linked list promises its callers: a sequence of items that     *)
(* grows at the given ends, one item at a time, and shrinks at its front.  *)
(* With ends = {"back"} it is a queue, with {"front"} a stack.             *)
(***************************************************************************)
EXTENDS Sequences

CONSTANT Items

VARIABLES
    contents,  \* the items in the list, front first
    ends       \* the ends at which it grows

Grow(x) ==
    \/ "front" \in ends /\ contents' = <<x>> \o contents
    \/ "back" \in ends /\ contents' = Append(contents, x)

Shrink == contents # <<>> /\ contents' = Tail(contents)

\* The list is destroyed with what it holds.
Clear == contents' = <<>>

DequeInit == contents = <<>>

DequeNext ==
    /\ Shrink \/ Clear \/ \E x \in Items : Grow(x)
    /\ UNCHANGED ends

dequeVars == <<contents, ends>>

DequeSpec == DequeInit /\ [][DequeNext]_dequeVars

=============================================================================
