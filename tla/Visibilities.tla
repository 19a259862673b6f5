---------------------------- MODULE Visibilities ----------------------------
(***************************************************************************)
(* Measured visibilities in memory (utilities::vis_params) and what every  *)
(* file format shares: the outcome of a read, the joining of two files and *)
(* the mirror image of a visibility.                                       *)
(*                                                                         *)
(* A row is [u, v, w, vis, weights]; vis is [re, im].  Numbers are small   *)
(* integers.  A reader returns the SET of outcomes the build can produce:  *)
(*   "good"      a vis_params is returned;                                 *)
(*   "threw"     std::runtime_error, which the callers catch;              *)
(*   "uncaught"  an exception of another type, which they do not catch;    *)
(*   "crashed"   memory outside a vector was touched and the build noticed *)
(* read_measurementset and read_uvfits know the pointing of a file; the    *)
(* other formats leave ra and dec at 0.                                    *)
(***************************************************************************)
EXTENDS Sublists, FiniteSets, SequencesExt, FiniteSetsExt, Functions

Rows == [u : Int, v : Int, w : Int, vis : [re : Int, im : Int], weights : Int]

Vis(rows, pointing, units) ==
  [outcome |-> "good", rows |-> rows, pointing |-> pointing, units |-> units]
Failed(how) == [outcome |-> how, rows |-> <<>>, pointing |-> 0, units |-> "lambda"]

Negative(x) == -x

\* A visibility and its mirror image are the same measurement of a real sky.
Mirror(row) ==
  [row EXCEPT !.u = Negative(@), !.v = Negative(@), !.w = Negative(@), !.vis.im = Negative(@)]

conjugate_w(uv) ==
  [uv EXCEPT !.rows = [i \in DOMAIN @ |-> IF @[i].w < 0 THEN Mirror(@[i]) ELSE @[i]]]

\* Two files of one format that knows no pointing: ra, dec and the units of the
\* result are those of a fresh vis_params.
JoinBlind(uv1, uv2) == Vis(uv1.rows \o uv2.rows, 0, "lambda")

\* Two files of a format that knows its pointing.
JoinPointed(uv1, uv2) ==
  IF uv1.pointing # uv2.pointing
  THEN Failed("threw")
  ELSE Vis(uv1.rows \o uv2.rows, uv1.pointing, "lambda")

\* What is checked before a read, as <<condition, how it fails>> in the order of the code.
Unmet(checks) == {k \in DOMAIN checks : ~checks[k][1]}
FirstFailure(checks) == Failed(checks[Min(Unmet(checks))][2])

\* A second result is looked at only when there is one.
JoinedResults(Join(_, _), uv1, results) ==
  {IF r.outcome = "good" THEN Join(uv1, r) ELSE r : r \in results}
=============================================================================
