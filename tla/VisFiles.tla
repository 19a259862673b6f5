------------------------------ MODULE VisFiles ------------------------------
(***************************************************************************)
(* Text (.vis) and HDF5 (.h5) visibility files: utilities::write_visibility*)
(* and the readers in uvw_utilities.cc and h5reader.h.                     *)
(*                                                                         *)
(* A weight is 2^k and is written k, so that 1/x is -k.  A text file is a  *)
(* sequence of lines of numbers; the reader counts the lines and then      *)
(* takes numbers one after another, whatever line they stand on.  An HDF5  *)
(* file is a record of columns.                                            *)
(***************************************************************************)
EXTENDS Visibilities

Reciprocal(weight) == -weight

-----------------------------------------------------------------------------
(* Text files *)

WriteLine(row, w_term) ==
  IF w_term
  THEN <<row.u, -row.v, row.w, row.vis.re, row.vis.im, Reciprocal(row.weights)>>
  ELSE <<row.u, -row.v, row.vis.re, row.vis.im, Reciprocal(row.weights)>>

write_visibility(rows, w_term) == [i \in DOMAIN rows |-> WriteLine(rows[i], w_term)]

ColumnsOfLine(w_term) == IF w_term THEN 6 ELSE 5

\* streamtoreal is called once for every column of every line.
TakeRow(tokens, i, w_term) ==
  LET at(k) == tokens[(i - 1) * ColumnsOfLine(w_term) + k]
      past == IF w_term THEN 1 ELSE 0
  IN [u |-> at(1), v |-> -at(2), w |-> IF w_term THEN at(3) ELSE 0,
      vis |-> [re |-> at(3 + past), im |-> at(4 + past)],
      weights |-> Reciprocal(at(5 + past))]

read_visibility_csv(lines, w_term) ==
  LET tokens == FlattenSeq(lines)
  IN IF Len(lines) * ColumnsOfLine(w_term) > Len(tokens)
     THEN {Failed("uncaught")}          \* std::stod of an empty string
     ELSE {Vis([i \in DOMAIN lines |-> TakeRow(tokens, i, w_term)], 0, "lambda")}

-----------------------------------------------------------------------------
(* HDF5 files: the columns u, v, re, im, sigma and perhaps w. *)

read_visibility_h5(file, w_term) ==
  IF w_term /\ "w" \notin DOMAIN file
  THEN {Failed("uncaught")}             \* HighFive::Exception
  ELSE {Vis([i \in DOMAIN file.u |->
               [u |-> file.u[i], v |-> -file.v[i],
                w |-> IF w_term THEN file.w[i] ELSE 0,
                vis |-> [re |-> file.re[i], im |-> file.im[i]],
                weights |-> Reciprocal(file.sigma[i])]], 0, "lambda")}

-----------------------------------------------------------------------------
(* A name that ends in .h5 is read as HDF5, any other as text: a text      *)
(* reader meets no number in an HDF5 file.                                 *)

IsText(file) == file.layout = "text"

read_visibility(ext, file, w_term) ==
  IF ext = "h5" THEN read_visibility_h5(file.content, w_term)
  ELSE IF IsText(file) THEN read_visibility_csv(file.content, w_term)
  ELSE {Failed("uncaught")}

\* The second and later files have a w column if the rows read so far have a
\* w other than 0.
HasW(rows) == \E i \in DOMAIN rows : rows[i].w # 0

read_next_visibility(ext, file, uv1) ==
  JoinedResults(JoinBlind, uv1, read_visibility(ext, file, HasW(uv1.rows)))

-----------------------------------------------------------------------------
(* Files as they are on a disk: the rows, with a w column or without, and   *)
(* in a text file perhaps blank lines after them.                           *)

HoldsRows(file) ==
  /\ file.rows \in Seq(Rows) /\ file.has_w \in BOOLEAN
  /\ ~file.has_w => ~HasW(file.rows)

WellFormedText(file) ==
  /\ file.layout = "text" /\ HoldsRows(file)
  /\ file.content \in Seq(Seq(Int)) /\ Len(file.content) >= Len(file.rows)
  /\ \A j \in DOMAIN file.content :
       file.content[j] = IF j <= Len(file.rows) THEN WriteLine(file.rows[j], file.has_w) ELSE <<>>

H5Columns(rows) ==
  [u |-> [j \in DOMAIN rows |-> rows[j].u], v |-> [j \in DOMAIN rows |-> -rows[j].v],
   w |-> [j \in DOMAIN rows |-> rows[j].w],
   re |-> [j \in DOMAIN rows |-> rows[j].vis.re], im |-> [j \in DOMAIN rows |-> rows[j].vis.im],
   sigma |-> [j \in DOMAIN rows |-> Reciprocal(rows[j].weights)]]

WellFormedH5(file) ==
  /\ file.layout = "h5" /\ HoldsRows(file)
  /\ file.content = [column \in (IF file.has_w THEN {"w"} ELSE {}) \union {"u", "v", "re", "im", "sigma"} |->
                       H5Columns(file.rows)[column]]
=============================================================================
