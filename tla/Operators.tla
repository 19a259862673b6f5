-------------------------------- MODULE Operators --------------------------------
(***************************************************************************)
(* The measurement operator that measurement_operator_factory builds on    *)
(* every rank, and one application of it and of its adjoint: zero padding  *)
(* with the gridding correction and the chirp of a w-stack (Z), the FFT    *)
(* (F), the gridding matrix (G), and the collective calls that join the    *)
(* ranks.  A value is a set of terms, one for every pixel or visibility    *)
(* that contributes, with the w-term applied to it on its way.             *)
(***************************************************************************)
EXTENDS GridTaps, IndexMapping

CONSTANTS
  Size,               \* number of ranks
  imsizex, imsizey,   \* the image
  oversample_ratio,
  Ju, Jw,             \* support of the kernel, and limit of that of a w kernel
  FFT,                \* the Fourier transform: unitary, here a permutation of the cells
  Requests,            \* the operators asked for (distribute, gpu, projection, stacking)
  Visibilities,       \* the visibilities of the ranks: u, v (half cells), w, image_index
  Stacks,             \* w_stacks: the w-terms of the images, the same on all ranks
  ArrayFire           \* whether the program was built with ArrayFire

ASSUME SizeAssumption == Size \in Nat \ {0}
ASSUME ImageAssumption ==
  /\ imsizex \in Nat \ {0} /\ imsizey \in Nat \ {0} /\ oversample_ratio \in Nat \ {0}
  /\ Ju \in Nat \ {0} /\ Jw \in Nat

Ranks == 0 .. Size-1
Root == 0
ftsizeu == imsizex * oversample_ratio
ftsizev == imsizey * oversample_ratio
FtSize == ftsizeu * ftsizev
Pixels == 0 .. imsizex * imsizey - 1
Cells == 0 .. FtSize - 1

ASSUME RequestsAssumption ==
  Requests \subseteq [distribute : {"serial", "image", "grid", "all_to_all"}, gpu : BOOLEAN,
                      projection : {"none", "radial", "2d"}, stacking : BOOLEAN]
ASSUME FFTAssumption == FFT \in [Cells -> Cells] /\ {FFT[c] : c \in Cells} = Cells
ASSUME StacksAssumption == Stacks \subseteq [Ranks -> Int] /\ ArrayFire \in BOOLEAN
ASSUME VisibilitiesAssumption ==
  Visibilities \subseteq [Ranks -> Seq([u : Int, v : Int, w : Int, image : Int])]

VARIABLES
  choice,    \* the operator asked for
  square,    \* whether the field of view is the same in both directions
  vis,       \* the visibilities of every rank
  w_stacks,  \* the w-terms of the images
  posted,    \* for every rank, the collective calls it has entered
  done,      \* for every rank, the collective calls that have returned to it
  sizes,     \* DistributeSparseVector on the root: how many cells every rank asked for
  mapping,   \* ... and which, rank after rank
  grid,      \* for every rank, the cells it has received for degridding
  direct,    \* for every rank, its visibilities computed from the image
  part,      \* for every rank, the image of what was gridded on it
  image,     \* for every rank, the image computed from all visibilities
  pc         \* for every rank, where it is

vars == <<choice, square, vis, w_stacks, posted, done, sizes, mapping, grid, direct, part,
          image, pc>>

Rows(r) == DOMAIN vis[r]
Projects == choice.projection # "none"

\* init_degrid_operator_2d_mpi with w-projection: the overload for vis_params calls the
\* operator with a distributed image, whatever its name says.
Distribution ==
  IF choice.distribute = "grid" /\ Projects THEN "image" ELSE choice.distribute

\* The collective calls of a constructor, of an application and of the adjoint one.
Calls ==
  [serial |-> <<>>,
   image |-> <<"all_sum_all">>,
   grid |-> <<"gather_sizes", "gather_indices", "scatter", "gather", "broadcast">>,
   all_to_all |-> <<"connect", "recv_grid", "send_grid", "all_sum_all">>][Distribution]

\* The factory has no such operator, in this build or of this kind.
NoSuchOperator == choice.gpu /\ (~ArrayFire \/ choice.distribute = "all_to_all")

\* "w-term correction not supported for this measurement operator or MPI method."
StacksOnGrid == ~choice.gpu /\ Distribution = "grid" /\ choice.stacking

\* w-projection wants the same field of view in both directions, and room for its kernel.
ProjectionRefused == Projects /\ (~square \/ Ju > Jw)

\* The exceptions that every rank throws alike.
Refused == NoSuchOperator \/ StacksOnGrid \/ ProjectionRefused

\* The one that depends on the data of the rank: "Image index is out of bounds".
BadIndex(r) ==
  /\ choice.distribute = "all_to_all"
  /\ \E m \in Rows(r) : vis[r][m].image < 0 \/ vis[r][m].image > Size - 1

\* w.maxCoeff() of an empty vector: the operators with an image on every rank evaluate
\* it for their log, and read an element that is not there.
OwnImage == Distribution \in {"serial", "image"}
ReadsEmpty(r) == OwnImage /\ (choice.gpu => Projects) /\ Rows(r) = {}

Init ==
  /\ choice \in Requests
  /\ square \in BOOLEAN
  /\ vis \in Visibilities
  /\ w_stacks \in Stacks
  /\ posted = [r \in Ranks |-> 0] /\ done = [r \in Ranks |-> 0]
  /\ sizes = <<>> /\ mapping = <<>>
  /\ grid = [r \in Ranks |-> <<>>]
  /\ direct = [r \in Ranks |-> <<>>]
  /\ part = [r \in Ranks |-> <<>>] /\ image = [r \in Ranks |-> <<>>]
  /\ pc = [r \in Ranks |-> "construct"]

------------------------------------------------------------------------------
\* The pieces an operator is made of.

\* The GPU operators without projection take the mean of the w-terms of a rank whether or
\* not stacking is asked for (and hand the index of the device over as the width of a
\* pixel, which changes the chirp but not its w-term).
TakesMeanArrayFire == choice.gpu /\ ~Projects

\* w_mean; of no w-terms the mean is not a number.
TakesMean == OwnImage /\ (choice.stacking \/ TakesMeanArrayFire)
NotANumber(r) == TakesMean /\ Rows(r) = {}
MeanW(r) ==
  IF Rows(r) = {} THEN 0 ELSE SumFunction([m \in Rows(r) |-> vis[r][m].w]) \div Len(vis[r])

\* The w-term of the chirp that a rank multiplies its image with.
Chirp(r) ==
  IF TakesMean THEN MeanW(r)
  ELSE IF Distribution = "all_to_all" /\ choice.stacking THEN w_stacks[r]
  ELSE 0

\* Faulty variant: the w-term that is left is taken relative to the rank's own stack.
StackKernelWOwn(r, m) == vis[r][m].w - (IF choice.stacking THEN w_stacks[r] ELSE 0)

\* The w-term left for the kernel is what the chirp of its image does not account for:
\* that of the stack the visibility was put on ...
StackKernelW(r, m) ==
  vis[r][m].w - (IF choice.stacking THEN w_stacks[vis[r][m].image] ELSE 0)

\* ... or the mean of the rank.
MeanKernelW(r, m) == vis[r][m].w - (IF choice.stacking THEN MeanW(r) ELSE 0)

KernelW(r, m) ==
  IF ~Projects THEN 0
  ELSE IF Distribution = "all_to_all" THEN StackKernelW(r, m) ELSE MeanKernelW(r, m)

\* widefield::w_support with du = 1: the support grows with the w-term.
Magnitude(x) == IF x < 0 THEN -x ELSE x
w_support(w) == Smaller(IF 2 * Magnitude(w) < Ju THEN Ju ELSE 2 * Magnitude(w), Jw)

\* The cells a visibility touches in its image: with the kernel, ...
PlainCells(r, m) ==
  LET ju_max == Smaller(Ju, ftsizeu)
      jv_max == Smaller(Ju, ftsizev)
  IN  {TapCell(vis[r][m].u, vis[r][m].v, ju_max, jv_max, tap, ftsizev, ftsizeu) :
         tap \in Taps(ju_max, jv_max)}

\* ... or with a kernel of its own width for the w-term that is left.
ProjectedCells(r, m) ==
  LET Ju_max == w_support(KernelW(r, m))
  IN  {TapCell(vis[r][m].u, vis[r][m].v, Ju_max, Ju_max, tap, ftsizev, ftsizeu) :
         tap \in Taps(Ju_max, Ju_max)}

\* The row of the gridding matrix of a visibility; in the all to all operator the
\* columns of the images follow each other.
MatrixRow(r, m) ==
  {c + (IF Distribution = "all_to_all" THEN vis[r][m].image * FtSize ELSE 0) :
     c \in IF Projects THEN ProjectedCells(r, m) ELSE PlainCells(r, m)}
Matrix(r) == [m \in Rows(r) |-> MatrixRow(r, m)]

\* Zero padding puts a pixel into the middle of the grid.
Padded(p) ==
  LET ji == ind2sub(p, imsizex, imsizey)
  IN  sub2ind((ftsizev - imsizey) \div 2 + ji[1], (ftsizeu - imsizex) \div 2 + ji[2],
              ftsizev, ftsizeu)

\* init_FFT_2d: a unitary transform, here any permutation FFT of the cells, and back.
Backward(c) == {d \in Cells : FFT[d] = c}

\* F Z: pad the image, multiply it with the chirp, transform.
Transformed(r) ==
  [c \in Cells |-> {[pixel |-> p, image |-> r, w |-> Chirp(r)] :
                      p \in {q \in Pixels : Padded(q) = FFT[c]}}]

\* G: every visibility sums up the cells of its row.
Degridded(r, received) ==
  [m \in Rows(r) |->
     {[x EXCEPT !.w = @ + KernelW(r, m)] : x \in UNION {received[c] : c \in MatrixRow(r, m)}}]

\* Its adjoint: a cell sums up the visibilities with that cell in their row.
Gridded(r) ==
  [c \in UNION {MatrixRow(r, m) : m \in Rows(r)} |->
     {[rank |-> r, row |-> m, w |-> -KernelW(r, m)] : m \in {n \in Rows(r) : c \in MatrixRow(r, n)}}]

\* Faulty variant: the adjoint multiplies with the chirp, not with its conjugate.
UnpaddedSameChirp(r, gridded) ==
  [p \in Pixels |->
     UNION {{[rank |-> x.rank, row |-> x.row, image |-> r, w |-> x.w + Chirp(r)] :
               x \in gridded[c]} : c \in Backward(Padded(p))}]

\* The GPU operators multiply with the chirp itself.
AdjointChirpArrayFire(r) == Chirp(r)

\* The adjoint of F Z: transform back, crop, multiply with the conjugate of the chirp.
Unpadded(r, gridded) ==
  LET chirp == IF choice.gpu THEN AdjointChirpArrayFire(r) ELSE -Chirp(r)
  IN  [p \in Pixels |->
         UNION {{[rank |-> x.rank, row |-> x.row, image |-> r, w |-> x.w + chirp] :
                   x \in gridded[c]} : c \in Backward(Padded(p))}]

\* The image of a rank's own visibilities; every pixel is lost to a chirp that is not a
\* number.
OwnPart(r) ==
  LET gridded == Gridded(r)
  IN  IF NotANumber(r) THEN [p \in Pixels |-> {[nan |-> r]}]
      ELSE Unpadded(r, [c \in Cells |-> IF c \in DOMAIN gridded THEN gridded[c] ELSE {}])

------------------------------------------------------------------------------
\* Building the operator: the checks, then the collective calls in their order.

\* What building and applying an operator leaves alone.
Asked == <<choice, square, vis, w_stacks>>
Results == <<sizes, mapping, grid, direct, part, image>>

\* Faulty variant: the conditions of w-projection are checked on the root only.
ConstructRootChecks(r) ==
  /\ pc[r] = "construct"
  /\ pc' = [pc EXCEPT ![r] = IF (Refused /\ r = Root) \/ BadIndex(r) THEN "threw" ELSE "apply"]
  /\ UNCHANGED <<Asked, posted, done, Results>>

Construct(r) ==
  /\ pc[r] = "construct"
  /\ pc' = [pc EXCEPT ![r] = IF Refused \/ BadIndex(r) THEN "threw" ELSE "apply"]
  /\ UNCHANGED <<Asked, posted, done, Results>>

\* Reading an element of an empty vector: the program may stop there.
Crash(r) ==
  /\ pc[r] = "construct"
  /\ ~Refused /\ ReadsEmpty(r)
  /\ pc' = [pc EXCEPT ![r] = "crashed"]
  /\ UNCHANGED <<Asked, posted, done, Results>>

\* Operators with an image on every rank need no other rank to degrid and to grid.
Apply(r) ==
  /\ pc[r] = "apply"
  /\ pc' = [pc EXCEPT ![r] = "calls"]
  /\ IF OwnImage
     THEN /\ direct' = [direct EXCEPT ![r] = Degridded(r, Transformed(r))]
          /\ part' = [part EXCEPT ![r] = OwnPart(r)]
     ELSE UNCHANGED <<direct, part>>
  /\ UNCHANGED <<Asked, posted, done, sizes, mapping, grid, image>>

Post(r) ==
  /\ pc[r] = "calls"
  /\ posted[r] = done[r] /\ done[r] < Len(Calls)
  /\ posted' = [posted EXCEPT ![r] = @ + 1]
  /\ UNCHANGED <<Asked, done, Results, pc>>

\* Rank r is inside the named call; a call returns when the ranks it needs are in it.
In(r, name) == pc[r] = "calls" /\ posted[r] = done[r] + 1 /\ Calls[posted[r]] = name
AllIn(r) == \A q \in Ranks : posted[q] >= posted[r]
RootIn(r) == posted[Root] >= posted[r]
Return(r) ==
  /\ done' = [done EXCEPT ![r] = @ + 1]
  /\ UNCHANGED <<Asked, posted, pc>>

\* DistributeSparseVector: the root gathers how many cells every rank needs ...
GatherSizes(r) ==
  /\ In(r, "gather_sizes")
  /\ IF r = Root
     THEN AllIn(r) /\ sizes' = [q \in Ranks |-> Len(non_empty_outers(Matrix(q)))]
     ELSE UNCHANGED sizes
  /\ Return(r)
  /\ UNCHANGED <<mapping, grid, direct, part, image>>

\* ... and which they are.
GatherIndices(r) ==
  /\ In(r, "gather_indices")
  /\ IF r = Root
     THEN /\ AllIn(r)
          /\ mapping' = FlattenSeq([q \in 1 .. Size |-> non_empty_outers(Matrix(q - 1))])
     ELSE UNCHANGED mapping
  /\ Return(r)
  /\ UNCHANGED <<sizes, grid, direct, part, image>>

Before(r) == SumFunctionOnSet(sizes, 0 .. r-1)

\* Receiving the cells of its columns, and the product with the compressed matrix.
Receive(r, received) ==
  /\ grid' = [grid EXCEPT ![r] = received]
  /\ direct' = [direct EXCEPT ![r] = Degridded(r, received)]
  /\ Return(r)
  /\ UNCHANGED <<sizes, mapping, part, image>>

\* Faulty variant: every rank gets the first cells the root has selected.
ScatterFromStart(r) ==
  /\ In(r, "scatter") /\ RootIn(r)
  /\ LET sent == SubSeq(Select(mapping, 0, Transformed(Root)), 1, sizes[r])
         own == non_empty_outers(Matrix(r))
     IN  Receive(r, [c \in ToSet(own) |-> sent[CHOOSE i \in DOMAIN own : own[i] = c]])

\* scatter: the root selects the cells of all ranks and sends every rank its part.
Scatter(r) ==
  /\ In(r, "scatter") /\ RootIn(r)
  /\ LET sent == SubSeq(Select(mapping, 0, Transformed(Root)), Before(r) + 1, Before(r) + sizes[r])
         own == non_empty_outers(Matrix(r))
     IN  Receive(r, [c \in ToSet(own) |-> sent[CHOOSE i \in DOMAIN own : own[i] = c]])

\* What a rank sends back: a sum for each of its columns, in their order.
Sent(q) ==
  LET own == non_empty_outers(Matrix(q))
      gridded == Gridded(q)
  IN  [i \in DOMAIN own |-> gridded[own[i]]]

\* gather: the root adds what all ranks have gridded into one grid, and goes on to the
\* image.
Gather(r) ==
  /\ In(r, "gather")
  /\ IF r = Root
     THEN /\ AllIn(r)
          /\ LET sent == FlattenSeq([q \in 1 .. Size |-> Sent(q - 1)])
             IN  part' = [part EXCEPT ![r] = Unpadded(r, Accumulate(mapping, 0, FtSize, sent))]
     ELSE UNCHANGED part
  /\ Return(r)
  /\ UNCHANGED <<sizes, mapping, grid, direct, image>>

\* init_broadcaster: the image of the root to all ranks.
Broadcast(r) ==
  /\ In(r, "broadcast") /\ RootIn(r)
  /\ image' = [image EXCEPT ![r] = part[Root]]
  /\ Return(r)
  /\ UNCHANGED <<sizes, mapping, grid, direct, part>>

\* AllToAllSparseVector, as SparseExchange shows it to work: a rank gets the cells of
\* all images that it has a column for, and sends contributions back.
Connect(r) ==
  /\ In(r, "connect") /\ AllIn(r)
  /\ Return(r)
  /\ UNCHANGED Results

RecvGrid(r) ==
  /\ In(r, "recv_grid") /\ AllIn(r)
  /\ Receive(r, [c \in ToSet(non_empty_outers(Matrix(r))) |->
                    Transformed(c \div FtSize)[c % FtSize]])

SendGrid(r) ==
  /\ In(r, "send_grid") /\ AllIn(r)
  /\ LET spread == [q \in Ranks |-> Gridded(q)]
         gridded == [c \in Cells |->
           UNION {spread[q][r * FtSize + c] :
                    q \in {s \in Ranks : r * FtSize + c \in DOMAIN spread[s]}}]
     IN  part' = [part EXCEPT ![r] = Unpadded(r, gridded)]
  /\ Return(r)
  /\ UNCHANGED <<sizes, mapping, grid, direct, image>>

\* init_all_sum_all: the sum of the images of all ranks, on all ranks.
AllSumAll(r) ==
  /\ In(r, "all_sum_all") /\ AllIn(r)
  /\ image' = [image EXCEPT ![r] = [p \in Pixels |-> UNION {part[q][p] : q \in Ranks}]]
  /\ Return(r)
  /\ UNCHANGED <<sizes, mapping, grid, direct, part>>

\* After its last call a rank has its image; without one it is that of its own data.
Finish(r) ==
  /\ pc[r] = "calls"
  /\ done[r] = Len(Calls)
  /\ pc' = [pc EXCEPT ![r] = "done"]
  /\ image' = [image EXCEPT ![r] = IF Distribution = "serial" THEN part[r] ELSE @]
  /\ UNCHANGED <<Asked, posted, done, sizes, mapping, grid, direct, part>>

Call(r) ==
  \/ GatherSizes(r) \/ GatherIndices(r) \/ Scatter(r) \/ Gather(r) \/ Broadcast(r)
  \/ Connect(r) \/ RecvGrid(r) \/ SendGrid(r) \/ AllSumAll(r)
Step(r) == Construct(r) \/ Crash(r) \/ Apply(r) \/ Post(r) \/ Call(r) \/ Finish(r)

Next == \E r \in Ranks : Step(r)
Spec == Init /\ [][Next]_vars /\ \A r \in Ranks : WF_vars(Step(r))

------------------------------------------------------------------------------

TypeOK ==
  /\ choice \in Requests /\ vis \in Visibilities /\ w_stacks \in Stacks
  /\ posted \in [Ranks -> 0 .. 5] /\ done \in [Ranks -> 0 .. 5]
  /\ mapping \in Seq(Cells)
  /\ pc \in [Ranks -> {"construct", "apply", "calls", "done", "threw", "crashed"}]

\* What the adjoint should return: every visibility of the ranks that take part, back in
\* each pixel it was computed from, with the opposite w-term.
Expected(q, p) ==
  UNION {UNION {{[rank |-> s, row |-> m, image |-> x.image, w |-> -x.w] :
                   x \in {y \in direct[s][m] : y.pixel = p}} : m \in Rows(s)} :
           s \in IF Distribution = "serial" THEN {q} ELSE Ranks}

\* Whatever the distribution, "adjoint()" is the adjoint: a visibility contributes to a
\* pixel exactly if it was computed from it, with the conjugate phase, and all ranks end
\* with the same image.  (Not on the GPU with a chirp, nor with the mean of no w-terms.)
IsAdjoint ==
  \A q \in Ranks :
    /\ pc[q] = "done"
    /\ \A s \in Ranks : ~NotANumber(s) /\ (choice.gpu => Chirp(s) = 0)
    =>
      \A p \in Pixels : image[q][p] = Expected(q, p)

\* "Serial vs Distributed Operator": every visibility is computed from the pixels the
\* operator of a single process would compute it from.
SameAsSerial ==
  \A r \in Ranks : pc[r] = "done" =>
    \A m \in Rows(r) :
      {x.pixel : x \in direct[r][m]}
        = {p \in Pixels : \E c \in MatrixRow(r, m) : FFT[c % FtSize] = Padded(p)}

\* With w-projection, the chirp of the image and the kernel together apply the w-term
\* of the visibility, although the image may lie on another rank.
WTermComplete ==
  \A r \in Ranks : Projects /\ pc[r] = "done" =>
    \A m \in Rows(r) : \A x \in direct[r][m] : x.w = vis[r][m].w

\* The ranks build and apply the operator together or all refuse to, unless the data of
\* one of them is at fault: no visibility at all, or one of an image out of bounds.
EveryRankTheSame ==
  <>(\/ \A r \in Ranks : pc[r] = "done"
     \/ \A r \in Ranks : pc[r] = "threw"
     \/ \E r \in Ranks : BadIndex(r) \/ pc[r] = "crashed")
==============================================================================
