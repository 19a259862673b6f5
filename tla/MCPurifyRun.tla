----------------------------- MODULE MCPurifyRun -----------------------------
(***************************************************************************)
(* Instances of PurifyRun for TLC: the pairs of mpi_all_to_all and         *)
(* mpi_wstacking a run may be configured with.                             *)
(***************************************************************************)
EXTENDS PurifyRun

AnyWidefield == BOOLEAN \X BOOLEAN
NoWidefield == {<<FALSE, FALSE>>, <<FALSE, TRUE>>}
==============================================================================
