------------------------------ MODULE MCOperators -----------------------------
(***************************************************************************)
(* Instances of Operators for TLC: two ranks, an image of two by two       *)
(* pixels on a grid of four by four cells; every kind of operator; shares  *)
(* that overlap on the grid, that name the image of the other rank, that   *)
(* are empty, or that name an image that does not exist.                   *)
(***************************************************************************)
EXTENDS Operators

Vis(u, v, w, i) == [u |-> u, v |-> v, w |-> w, image |-> i]
PerRank(a, b) == (0 :> a) @@ (1 :> b)

MCRequests ==
  [distribute : {"serial", "image", "grid", "all_to_all"}, gpu : BOOLEAN,
   projection : {"none", "radial"}, stacking : BOOLEAN]
MCFFT == [c \in Cells |-> (5 * c + 3) % FtSize]
MCVisibilities ==
  {PerRank(<<Vis(3, 1, 2, 0), Vis(-1, 4, 4, 1)>>, <<Vis(3, 3, 2, 0)>>),
   PerRank(<<Vis(5, 5, 0, 1)>>, <<Vis(2, 3, 0, 1), Vis(5, 5, 2, 1)>>),
   PerRank(<<Vis(1, 1, 2, 0)>>, <<>>),
   PerRank(<<Vis(1, 1, 2, 0)>>, <<Vis(1, 1, 2, 2)>>)}
MCStacks == {PerRank(2, 4)}
==============================================================================
