-------------------------------- MODULE FlyGrid --------------------------------
(***************************************************************************)
(* fly_operators.h: degridding and gridding without a matrix.  The set-up  *)
(* finds the cells with a contribution and numbers them; gridding adds the *)
(* contributions of the visibilities into one shared vector, in which      *)
(* every thread of the loop over the visibilities has a segment of its     *)
(* own, and then sums the segments.  An addition is a read followed by a   *)
(* write.  The three constructors differ in the numbers of the cells and   *)
(* in where the result goes: into the grid ("serial"), to the root         *)
(* ("grid"), or to the ranks of the images ("all_to_all").                 *)
(***************************************************************************)
EXTENDS GridTaps, IndexMapping

CONSTANTS
  Rows,             \* the visibilities of this process
  Threads,          \* threads of the loop over the visibilities: 0 .. Threads-1
  Coordinates,      \* pairs (u, v), in half cells
  Images,           \* image_index of a visibility: 0 .. Images-1
  ftsizeu, ftsizev, \* the oversampled grid
  Ju,               \* taps per direction
  total_samples,    \* samples of the kernel over half its width
  Constructors      \* which of the three are checked

ASSUME RowsAssumption == IsFiniteSet(Rows)
ASSUME ThreadsAssumption == Threads \in Nat \ {0}
ASSUME GridAssumption == ftsizeu \in Nat \ {0} /\ ftsizev \in Nat \ {0} /\ Ju \in Nat \ {0}
ASSUME ImagesAssumption == Images \in Nat \ {0} /\ total_samples \in Nat \ {0}
ASSUME CoordinatesAssumption == Coordinates \subseteq Int \X Int
ASSUME ConstructorsAssumption == Constructors \subseteq {"serial", "grid", "all_to_all"}

VARIABLES
  kind,      \* the constructor that was called
  uv,        \* the coordinates of every visibility
  image,     \* image_index of every visibility
  nonZeros,  \* nonZeros_vec: the cells with a contribution, in increasing order
  waiting,   \* visibilities that no thread has taken yet
  thread,    \* what every thread is doing
  compressed,\* output_compressed: Threads segments of Len(nonZeros) cells
  summed,    \* the segments added up
  output,    \* the result of gridding: a grid, or what goes to the distributor
  degridded, \* the result of degridding
  pc         \* where the calling thread is

vars == <<kind, uv, image, nonZeros, waiting, thread, compressed, summed, output,
          degridded, pc>>

ju_max == Smaller(Ju, ftsizeu)
jv_max == Smaller(Ju, ftsizev)
FtSize == ftsizeu * ftsizev
ThreadIds == 0 .. Threads - 1

\* The map from cells to places has 16-bit indices in the all to all operator (line 384).
ASSUME StorageAssumption == "all_to_all" \in Constructors => FtSize * Images <= 32768

\* The number of a cell; the images lie one after another in the all to all operator.
Index(m, tap) ==
  TapCell(uv[m][1], uv[m][2], ju_max, jv_max, tap, ftsizev, ftsizeu)
    + (IF kind = "all_to_all" THEN image[m] * FtSize ELSE 0)

\* What a tap multiplies a value with: the two samples and the sign.
Coefficient(m, tap) ==
  <<TapSample(uv[m][1], ju_max, tap[1], total_samples),
    TapSample(uv[m][2], jv_max, tap[2], total_samples),
    WrappedSign(uv[m][1], uv[m][2], ju_max, jv_max, tap, ftsizev, ftsizeu)>>

\* mapping.coeff: the place of a cell among those with a contribution, zero without one.
Mapping(index) ==
  LET found == {i \in 1 .. Len(nonZeros) : nonZeros[i] = index}
  IN  IF found = {} THEN 0 ELSE (CHOOSE i \in found : TRUE) - 1

Idle == [state |-> "idle", row |-> 0, left |-> {}, at |-> 0, value |-> EmptyBag]

Init ==
  /\ kind \in Constructors
  /\ uv \in [Rows -> Coordinates]
  /\ image \in [Rows -> IF kind = "all_to_all" THEN 0 .. Images-1 ELSE {0}]
  /\ nonZeros = <<>>
  /\ waiting = {}
  /\ thread = [t \in ThreadIds |-> Idle]
  /\ compressed = <<>> /\ summed = <<>> /\ output = <<>> /\ degridded = <<>>
  /\ pc = "setup"

\* The set-up: nonZeros_set and its sorted copy.
Setup ==
  /\ pc = "setup"
  /\ nonZeros' = Ordered({Index(m, tap) : m \in Rows, tap \in Taps(ju_max, jv_max)})
  /\ pc' = "ready"
  /\ UNCHANGED <<kind, uv, image, waiting, thread, compressed, summed, output, degridded>>

\* Faulty variant: degridding looks the cell up without the offset of its image.
ReadsNoImage(m) ==
  {[cell |-> nonZeros[Mapping(Index(m, tap) % FtSize) + 1],
    factor |-> Coefficient(m, tap)] : tap \in Taps(ju_max, jv_max)}

\* What degridding adds up for a visibility: from the grid, or from the received cells.
Reads(m) ==
  {[cell |-> IF kind = "serial" THEN Index(m, tap) ELSE nonZeros[Mapping(Index(m, tap)) + 1],
    factor |-> Coefficient(m, tap)] : tap \in Taps(ju_max, jv_max)}

\* degrid: every visibility is written by one thread and read by none.
Degrid ==
  /\ pc = "ready"
  /\ degridded' = [m \in Rows |-> Reads(m)]
  /\ pc' = "degridded"
  /\ UNCHANGED <<kind, uv, image, nonZeros, waiting, thread, compressed, summed, output>>

\* The start of grid: a zero vector with a segment for every thread.
StartGrid ==
  /\ pc = "degridded"
  /\ compressed' = [i \in 0 .. Len(nonZeros) * Threads - 1 |-> EmptyBag]
  /\ waiting' = Rows
  /\ pc' = "loop"
  /\ UNCHANGED <<kind, uv, image, nonZeros, thread, summed, output, degridded>>

\* A thread goes on to another visibility; which one is up to the OpenMP schedule.
Take(t) ==
  /\ pc = "loop"
  /\ thread[t].state = "idle"
  /\ \E m \in waiting :
       /\ waiting' = waiting \ {m}
       /\ thread' = [thread EXCEPT ![t] =
            [Idle EXCEPT !.state = "taps", !.row = m, !.left = Taps(ju_max, jv_max)]]
  /\ UNCHANGED <<kind, uv, image, nonZeros, compressed, summed, output, degridded, pc>>

\* The next of the taps in the order of the loops: jv outside, ju inside.
FirstLeft(taps) ==
  CHOOSE a \in taps : \A b \in taps : a[2] < b[2] \/ (a[2] = b[2] /\ a[1] <= b[1])

\* Faulty variant: every thread adds into the first segment.
PlaceNoShift(t, m, tap) == Mapping(Index(m, tap))

\* Where a thread adds: the place of the cell in the segment of the thread.
Place(t, m, tap) == Mapping(Index(m, tap)) + t * Len(nonZeros)

\* The read of output_compressed(...) += result.
Load(t) ==
  /\ thread[t].state = "taps"
  /\ thread[t].left # {}
  /\ LET at == Place(t, thread[t].row, FirstLeft(thread[t].left))
     IN  thread' = [thread EXCEPT ![t].state = "loaded", ![t].at = at,
                                  ![t].value = compressed[at]]
  /\ UNCHANGED <<kind, uv, image, nonZeros, waiting, compressed, summed, output, degridded, pc>>

\* Its write: one more contribution than the cell had when it was read.
Store(t) ==
  /\ thread[t].state = "loaded"
  /\ LET m == thread[t].row
         tap == FirstLeft(thread[t].left)
     IN  /\ compressed' = [compressed EXCEPT ![thread[t].at] =
              thread[t].value (+) SetToBag({[row |-> m, factor |-> Coefficient(m, tap)]})]
         /\ thread' = [thread EXCEPT ![t].state = "taps", ![t].left = @ \ {tap}]
  /\ UNCHANGED <<kind, uv, image, nonZeros, waiting, summed, output, degridded, pc>>

\* The end of an iteration of the loop over the visibilities.
EndRow(t) ==
  /\ thread[t].state = "taps"
  /\ thread[t].left = {}
  /\ thread' = [thread EXCEPT ![t] = Idle]
  /\ UNCHANGED <<kind, uv, image, nonZeros, waiting, compressed, summed, output, degridded, pc>>

\* Faulty variant: the segment of the last thread is left out.
SegmentsSummedShort(i) ==
  LET sum[t \in ThreadIds] ==
        IF t = 0 THEN compressed[i]
        ELSE IF t = Threads - 1 THEN sum[t-1]
        ELSE sum[t-1] (+) compressed[i + t * Len(nonZeros)]
  IN  sum[Threads - 1]

\* The loop over the segments after the parallel one.
SegmentsSummed(i) ==
  LET sum[t \in ThreadIds] ==
        IF t = 0 THEN compressed[i] ELSE sum[t-1] (+) compressed[i + t * Len(nonZeros)]
  IN  sum[Threads - 1]

\* The barrier at the end of the parallel loop, and the sum of the segments.
SumSegments ==
  /\ pc = "loop"
  /\ waiting = {}
  /\ \A t \in ThreadIds : thread[t].state = "idle"
  /\ summed' = [i \in 0 .. Len(nonZeros) - 1 |-> SegmentsSummed(i)]
  /\ pc' = "summed"
  /\ UNCHANGED <<kind, uv, image, nonZeros, waiting, thread, compressed, output, degridded>>

\* Serial: the sums go to their cells, the others stay zero.
FillGrid ==
  /\ pc = "summed"
  /\ kind = "serial"
  /\ output' = [c \in 0 .. FtSize - 1 |->
       IF \E i \in DOMAIN nonZeros : nonZeros[i] = c THEN summed[Mapping(c)] ELSE EmptyBag]
  /\ pc' = "done"
  /\ UNCHANGED <<kind, uv, image, nonZeros, waiting, thread, compressed, summed, degridded>>

\* Over MPI the distributor gets the sums in the order of the cells (Operators,
\* SparseExchange).
HandOver ==
  /\ pc = "summed"
  /\ kind # "serial"
  /\ output' = [c \in ToSet(nonZeros) |-> summed[Mapping(c)]]
  /\ pc' = "done"
  /\ UNCHANGED <<kind, uv, image, nonZeros, waiting, thread, compressed, summed, degridded>>

ThreadStep(t) == Take(t) \/ Load(t) \/ Store(t) \/ EndRow(t)
Caller == Setup \/ Degrid \/ StartGrid \/ SumSegments \/ FillGrid \/ HandOver

Next == Caller \/ \E t \in ThreadIds : ThreadStep(t)
Spec == Init /\ [][Next]_vars

------------------------------------------------------------------------------

TypeOK ==
  /\ kind \in Constructors /\ uv \in [Rows -> Coordinates]
  /\ image \in [Rows -> 0 .. Images-1]
  /\ nonZeros \in Seq(0 .. FtSize * Images - 1)
  /\ waiting \subseteq Rows
  /\ \A t \in ThreadIds : thread[t].state \in {"idle", "taps", "loaded"}
  /\ pc \in {"setup", "ready", "degridded", "loop", "summed", "done"}

\* Between the read and the write of an addition no other thread writes the cell: the
\* value that was read is still the one in the shared vector.
NoInterference ==
  \A t \in ThreadIds :
    thread[t].state = "loaded" => thread[t].value = compressed[thread[t].at]

\* The contributions a cell should get: one for every tap of a visibility on it.
Contributions(c) ==
  LET hits == {mt \in Rows \X Taps(ju_max, jv_max) : Index(mt[1], mt[2]) = c}
      terms == {[row |-> mt[1], factor |-> Coefficient(mt[1], mt[2])] : mt \in hits}
  IN  [x \in terms |-> Cardinality({mt \in hits :
         x = [row |-> mt[1], factor |-> Coefficient(mt[1], mt[2])]})]

\* Whatever the schedule of the threads, every cell ends with each contribution once,
\* and no cell without a visibility gets one.
EveryContributionOnce ==
  pc = "done" =>
    \A c \in 0 .. FtSize * Images - 1 :
      (IF c \in DOMAIN output THEN output[c] ELSE EmptyBag) = Contributions(c)

\* Gridding is the adjoint of degridding: a visibility reads a cell with exactly the
\* factors with which it later adds to that cell.
GridIsAdjoint ==
  pc = "done" =>
    \A m \in Rows : \A c \in DOMAIN output :
      {f.factor : f \in {x \in degridded[m] : x.cell = c}}
        = {x.factor : x \in {y \in DOMAIN output[c] : y.row = m}}

\* What the gridding matrix has in the row of a visibility.
MatrixRow(m) ==
  {[cell |-> Index(m, tap),
    sign |-> MatrixSign(uv[m][1], uv[m][2], ju_max, jv_max, tap)] : tap \in Taps(ju_max, jv_max)}

\* The operator without a matrix does the same as the matrix: same cells, same signs.
SameAsMatrix ==
  pc = "done" =>
    \A m \in Rows : {[cell |-> x.cell, sign |-> x.factor[3]] : x \in degridded[m]} = MatrixRow(m)
==============================================================================
