--------------------------- MODULE MCFileFilters ----------------------------
(***************************************************************************)
(* Bytes of four bits and an alphabet of three letters, with a gap between *)
(* the cases as in ASCII.  The longest files take more than one turn of    *)
(* the coders' counter; the odd ones end in half a word.                   *)
(***************************************************************************)
EXTENDS FileFilters

const_Inputs ==
    {<<>>, <<9>>, <<5, 0, 14>>, <<1, 4, 6, 8, 11>>, <<12, 2, 7, 13, 10, 3>>}
const_Leftovers == {NONE, <<7, 1, 15, 2, 9, 4, 3, 8, 6>>}
const_HexArgs == {5, 15, 16, 128, 259, BAD}
const_RotArgs == {0, 1, 2, 3, 257, BAD}
=============================================================================
