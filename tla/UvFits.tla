------------------------------- MODULE UvFits -------------------------------
(***************************************************************************)
(* UVFITS files (uvfits.cc).  A file holds, for every baseline, channel    *)
(* and polarisation, a cell (real, imaginary, weight); the standard lays   *)
(* the cells out in one vector, which the code reads with an index of its  *)
(* own.  A cell is read twice: the first pass counts what the flags let    *)
(* through, the second fills vectors of that length.                       *)
(*                                                                         *)
(* The model's visibility is twice the code's (Stokes I is half the sum),  *)
(* its frequency twice the code's, and its weight is the square of the     *)
(* code's as a fraction <<numerator, denominator>>.                        *)
(***************************************************************************)
EXTENDS Visibilities

CONSTANT NaN

(* External: the layout of the FITS standard, for a file whose cells are   *)
(* cells[baseline][channel][polarisation], all counted from 0.             *)
DataOf(file) ==
  LET width == 3 * file.pols
      stride == width * file.channels
      at(k) == file.cells[k \div stride][(k % stride) \div width][(k % width) \div 3]
  IN [k \in 0 .. stride * file.baselines - 1 |->
        CASE k % 3 = 0 -> at(k).re [] k % 3 = 1 -> at(k).im [] k % 3 = 2 -> at(k).weight]

\* Faulty variant: the channels of one baseline lie apart.
IndexByBaseline(file, col, pol, chan, baseline) ==
  col + 3 * (pol + file.pols * (baseline + file.baselines * chan))

Index(file, col, pol, chan, baseline) ==
  col + 3 * (pol + file.pols * (chan + file.channels * baseline))

read_vis_from_data(file, pol, chan, baseline) ==
  [re |-> DataOf(file)[Index(file, 0, pol, chan, baseline)],
   im |-> DataOf(file)[Index(file, 1, pol, chan, baseline)]]
read_weight_from_data(file, pol, chan, baseline) ==
  DataOf(file)[Index(file, 2, pol, chan, baseline)]

\* read_uvfits_freq: (i - n / 2) * delta + centre, doubled.
Frequency(file, chan) == (2 * chan - file.channels) * file.delta + 2 * file.centre

Unflagged(vis, weight) ==
  /\ weight > 0
  /\ vis.re # NaN /\ vis.im # NaN
  /\ vis # [re |-> 0, im |-> 0]

\* The two polarisations of Stokes I.
PolIndices == {0, 1}
CellsOf(file) == (0 .. file.channels - 1) \X (0 .. file.baselines - 1)
CellsInOrder(file) ==
  [k \in 1 .. file.channels * file.baselines |->
     <<(k - 1) \div file.baselines, (k - 1) % file.baselines>>]

Keep(file, cell) ==
  \A p \in PolIndices : Unflagged(read_vis_from_data(file, p, cell[1], cell[2]),
                                  read_weight_from_data(file, p, cell[1], cell[2]))

Combined(file, cell) ==
  LET v1 == read_vis_from_data(file, 0, cell[1], cell[2])
      v2 == read_vis_from_data(file, 1, cell[1], cell[2])
      w1 == read_weight_from_data(file, 0, cell[1], cell[2])
      w2 == read_weight_from_data(file, 1, cell[1], cell[2])
      scale == Frequency(file, cell[1])
      coords == file.coords[cell[2]]
  IN [u |-> coords.u * scale, v |-> -(coords.v * scale), w |-> coords.w * scale,
      vis |-> [re |-> v1.re + v2.re, im |-> v1.im + v2.im],
      weights |-> <<2 * w1 * w2, w1 + w2>>]

read_polarisation_with_flagging(file) ==
  LET kept == Kept(CellsInOrder(file), {c \in CellsOf(file) : Keep(file, c)})
  IN [k \in DOMAIN kept |-> Combined(file, kept[k])]

\* The first pass reads both polarisations before their indices are checked:
\* with one polarisation it reads the next cell, and past the end at the last,
\* which a build with assertions notices.
ReadsPastEnd(file) ==
  \E k \in DOMAIN CellsInOrder(file), p \in PolIndices :
    Index(file, 2, p, CellsInOrder(file)[k][1], CellsInOrder(file)[k][2]) \notin DOMAIN DataOf(file)

\* What the header must pass before a cell is read, in the order of the code.
HeaderChecks(file, pol) ==
  << <<file.opens, "threw">>,
     <<file.naxes # 0 /\ file.pcount # 0, "threw">>,
     <<file.naxes >= 6, "uncaught">>,               \* std::vector::at
     <<file.pointings <= 1, "threw">>,
     <<file.ifs <= 1, "threw">>,
     <<file.channels # 0 /\ file.pols # 0, "threw">>,
     <<pol = "I", "threw">> >>

read_uvfits(file, pol) ==
  IF Unmet(HeaderChecks(file, pol)) # {} THEN {FirstFailure(HeaderChecks(file, pol))}
  ELSE IF Cardinality(PolIndices) > file.pols
       THEN {Failed("threw")}
              \union (IF ReadsPastEnd(file) THEN {Failed("crashed")} ELSE {})
       ELSE {Vis(read_polarisation_with_flagging(file), file.pointing, "lambda")}

\* Later files are read with the default polarisation.
read_next_uvfits(file, uv1) == JoinedResults(JoinPointed, uv1, read_uvfits(file, "I"))

\* The numbers a header and the parameters of the baselines may have.
WellFormedUvfits(file) ==
  /\ file.pols \in Nat /\ file.channels \in Nat /\ file.baselines \in Nat
  /\ file.delta \in Int /\ file.centre \in Int
  /\ \A b \in 0 .. file.baselines - 1 : {file.coords[b].u, file.coords[b].v, file.coords[b].w} \subseteq Int
=============================================================================
