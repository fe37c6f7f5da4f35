---------------------------- MODULE MCDescriptors ---------------------------
(* Two servers: TCP on one port or on two, TCP beside UDP, TCP beside a     *)
(* type that does not exist.                                                *)
EXTENDS Descriptors

CONSTANTS s1, s2

Pair(t1, p1, t2, p2) ==
    [s \in Servers |-> IF s = s1 THEN [type |-> t1, port |-> p1]
                       ELSE [type |-> t2, port |-> p2]]

const_Configs == {Pair(TCP, 80, TCP, 80), Pair(TCP, 80, TCP, 81),
                  Pair(TCP, 80, UDP, 80), Pair(TCP, 80, 2, 80)}
=============================================================================
