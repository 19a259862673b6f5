----------------------------- MODULE MCH5Reader ------------------------------
(***************************************************************************)
(* Instances of H5Reader for TLC: data sets too short for the ranks, with  *)
(* equal slices and with a longer last slice; batches smaller and larger   *)
(* than a slice.                                                           *)
(***************************************************************************)
EXTENDS H5Reader

MCDataLens == {1, 4, 5}
MCUneven == {5}
MCBatchSizes == {2, 3}
MCOneBatchSize == {2}
MCShuffled == {TRUE}
==============================================================================
