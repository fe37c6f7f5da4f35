--------------------------- MODULE MCMenuProgram ----------------------------
(***************************************************************************)
(* Registers of six bits: three of them overflow at the 28th Fibonacci     *)
(* number, which one call or several reach.  34 and 63 are negative, 67    *)
(* wraps to 3.                                                             *)
(***************************************************************************)
EXTENDS MenuProgram

const_Numbers == {0, 1, 3, 5, 12, 30, 34, 63, 67}
const_Leftover == {0, 40}
=============================================================================
