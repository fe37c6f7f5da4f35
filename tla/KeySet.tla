------------------------------- MODULE KeySet -------------------------------
(***************************************************************************)
(* What the AVL tree promises its callers: a set of keys.  An insertion    *)
(* that finds no memory may leave the set as it was; deletion and search   *)
(* report whether the key was there.                                       *)
(***************************************************************************)
CONSTANT Keys

VARIABLES
    contents,  \* the keys in the set
    result     \* the key last deleted or searched, and whether it was there

Insert(x) == contents' \in {contents, contents \cup {x}} /\ UNCHANGED result

Delete(x) == contents' = contents \ {x} /\ result' = <<x, x \in contents>>

Search(x) == result' = <<x, x \in contents>> /\ UNCHANGED contents

\* The set is destroyed with its keys.
Clear == contents' = {} /\ UNCHANGED result

SetSpec ==
    /\ contents = {} /\ result[1] \notin Keys
    /\ [][\/ Clear
          \/ \E x \in Keys : Insert(x) \/ Delete(x) \/ Search(x)]_<<contents, result>>

=============================================================================
