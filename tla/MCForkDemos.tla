----------------------------- MODULE MCForkDemos ----------------------------
(* A sleep of -1 becomes the longest one; the others are equal, adjacent or *)
(* further apart.                                                           *)
EXTENDS ForkDemos

const_Times == -1 .. 3
=============================================================================
