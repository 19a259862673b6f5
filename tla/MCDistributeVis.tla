--------------------------- MODULE MCDistributeVis ---------------------------
(***************************************************************************)
(* An instance of DistributeVis for TLC: one, two and three ranks; an      *)
(* empty data set, one of the sizes for which LinSpaced leaves the data,   *)
(* and data sets that do and do not divide evenly among the ranks.         *)
(***************************************************************************)
EXTENDS DistributeVis

MCSizes == {1, 2, 3}
MCCounts == {0, 2, 3, 4}
MCSortKeys == {1, 2}
==============================================================================
