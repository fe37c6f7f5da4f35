------------------------------ MODULE MCAvlTree -----------------------------
(* Instances of AvlTree for TLC. *)
EXTENDS AvlTree

CONSTANT N   \* the number of keys

MCKeys == 1 .. N

=============================================================================
