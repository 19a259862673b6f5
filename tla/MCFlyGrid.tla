------------------------------ MODULE MCFlyGrid -------------------------------
(***************************************************************************)
(* Instances of FlyGrid for TLC: two threads, two visibilities, two taps   *)
(* per direction.  The visibilities share cells, wrap around the border of *)
(* the grid, lie on a cell or between two, or coincide.                    *)
(***************************************************************************)
EXTENDS FlyGrid

MCRows == {1, 2}
MCCoordinates == {<<1, 1>>, <<3, 1>>, <<-1, 2>>}
MCConstructors == {"serial", "grid", "all_to_all"}
==============================================================================
