------------------------------ MODULE MCRegroup ------------------------------
(***************************************************************************)
(* An instance of Regroup for TLC: keys below max_groups, as all callers   *)
(* pass them, and two beyond.  Two columns stand for the six arrays the    *)
(* code exchanges: one swapped with uv_params and one separate array, the  *)
(* image index.                                                            *)
(***************************************************************************)
EXTENDS Regroup

MCArrays == {"vis", "image_index"}
MCLengths == {N, N + 1}
MCKeys == 0 .. MaxGroups+1
==============================================================================
