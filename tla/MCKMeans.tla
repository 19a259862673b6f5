------------------------------ MODULE MCKMeans -------------------------------
(***************************************************************************)
(* An instance of KMeans for TLC: w terms on both sides of zero, so that   *)
(* the centre of an empty cluster falls between the others and draws data  *)
(* from them, and ranks without data, which end.                           *)
(***************************************************************************)
EXTENDS KMeans

MCWValues == {-10, 1, 5}
MCRelDiff == <<1, 10>>
==============================================================================
