-------------------------------- MODULE GridTaps --------------------------------
(***************************************************************************)
(* Which cells of the oversampled Fourier grid a visibility touches, with  *)
(* which sample of the kernel and which sign: the loops over ju and jv     *)
(* that the gridding matrices and the operators without a matrix share.    *)
(* A coordinate is given in units of half a cell, so that both the         *)
(* coordinates on a cell and those between two cells occur.                *)
(***************************************************************************)
EXTENDS Integers, Sequences, FiniteSets, SequencesExt

Smaller(a, b) == IF a < b THEN a ELSE b

\* utilities::mod: the remainder that wraps around for negative values.
mod(x, y) == x % y

\* utilities::sub2ind and ind2sub: a cell of a grid as a single number, and back.
sub2ind(row, col, rows, cols) == row * cols + col
ind2sub(sub, cols, rows) == <<(sub - (sub % cols)) \div cols, sub % cols>>

\* k_u = floor(u - ju_max / 2).
FirstTap(coordinate, jmax) == (coordinate - jmax) \div 2

\* The taps of one visibility: (ju, jv), counted from one.
Taps(jumax, jvmax) == (1 .. jumax) \X (1 .. jvmax)

\* The cell of a tap, on a grid of height ftsizev and width ftsizeu.
TapCell(u, v, jumax, jvmax, tap, ftsizev, ftsizeu) ==
  sub2ind(mod(FirstTap(v, jvmax) + tap[2], ftsizev),
          mod(FirstTap(u, jumax) + tap[1], ftsizeu), ftsizev, ftsizeu)

\* The sample of the kernel that is read: floor(2 |u - (k_u + ju)| total_samples / ju_max).
TapSample(coordinate, jmax, j, total_samples) ==
  LET twice == coordinate - 2 * (FirstTap(coordinate, jmax) + j)
  IN  ((IF twice < 0 THEN -twice ELSE twice) * total_samples) \div jmax

Parity(k) == IF k % 2 = 0 THEN 1 ELSE -1

\* Faulty variant: only the column counts.
WrappedSignColumn(u, v, jumax, jvmax, tap, ftsizev, ftsizeu) ==
  Parity(mod(FirstTap(u, jumax) + tap[1], ftsizeu))

\* The sign without a matrix: the parity of the cell, after it has been wrapped.
WrappedSign(u, v, jumax, jvmax, tap, ftsizev, ftsizeu) ==
  Parity(mod(FirstTap(v, jvmax) + tap[2], ftsizev))
    * Parity(mod(FirstTap(u, jumax) + tap[1], ftsizeu))

\* The sign in a matrix: exp(-2 pi i ((k_u + ju) / 2 + (k_v + jv) / 2)), not wrapped.
MatrixSign(u, v, jumax, jvmax, tap) ==
  Parity(FirstTap(u, jumax) + tap[1] + FirstTap(v, jvmax) + tap[2])
==============================================================================
