-------------------------- MODULE MCSparseExchange ---------------------------
(***************************************************************************)
(* Instances of SparseExchange for TLC: three grids of four entries, of    *)
(* which a rank needs nothing, entries of the nodes at both ends but not   *)
(* of the one between, entries on either side of the border of two nodes,  *)
(* or an entry in two of its rows; index types just too small and just     *)
(* large enough.                                                           *)
(***************************************************************************)
EXTENDS SparseExchange, TLC

TwoRows(a, b) == (1 :> a) @@ (2 :> b)
MCPatterns ==
  {TwoRows({}, {}), TwoRows({0, 11}, {8}), TwoRows({3}, {4}),
   TwoRows({4, 7}, {4, 8}), TwoRows({11}, {11})}
MCStorage == {10, 12}
==============================================================================
