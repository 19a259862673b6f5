----------------------------- MODULE SparseExchange -----------------------------
(***************************************************************************)
(* AllToAllSparseVector and the gridding operators built on it             *)
(* (init_gridding_matrix_2d_all_to_all): the FFT grids of all the ranks    *)
(* form one long vector; a rank receives only the entries its own          *)
(* gridding matrix has a column for.  Degridding receives them from the    *)
(* ranks that hold them, gridding sends contributions back.                *)
(***************************************************************************)
EXTENDS IndexMapping, Functions

CONSTANTS
  Size,        \* number of ranks, one grid on each
  ftsizeu,     \* width of the oversampled grid, floor(imsizex * oversample_ratio)
  ftsizev,     \* its height, floor(imsizey * oversample_ratio)
  Patterns,    \* gridding matrices: functions from rows to sets of columns
  StorageMaxs  \* largest values of STORAGE_INDEX_TYPE

ASSUME SizeAssumption == Size \in Nat \ {0}
ASSUME GridAssumption == ftsizeu \in Nat \ {0} /\ ftsizev \in Nat \ {0}
ASSUME PatternsAssumption ==
  \A m \in Patterns : m \in [DOMAIN m -> SUBSET (0 .. ftsizeu * ftsizev * Size - 1)]
ASSUME StorageAssumption == StorageMaxs \subseteq Nat

VARIABLES
  storageMax, \* the largest value of the index type of this run
  matrix,     \* for every rank, interpolation_matrix_original
  recv_sizes, \* for every rank, how many entries it gets from each rank
  send_sizes, \* for every rank, how many entries each rank gets from it
  mapping,    \* for every rank, the indices into its grid, for rank after rank
  posted,     \* for every rank, the collective calls it has entered
  done,       \* for every rank, the collective calls that have returned to it
  degridded,  \* for every rank, the visibilities of the degridding operator
  gridded,    \* for every rank, the grid of the gridding operator
  pc          \* for every rank, where it is

vars == <<storageMax, matrix, recv_sizes, send_sizes, mapping, posted, done, degridded,
          gridded, pc>>

Ranks == 0 .. Size-1

\* The entries of the grid of a rank, and of the columns per image of the matrix.
FtSize == ftsizeu * ftsizev

\* local_grid_size, which is computed from imsizex twice.
N == ftsizeu * ftsizeu
start(r) == r * N
local_indices(r) == non_empty_outers(matrix[r])

\* The collective calls of the constructor and of the two operators, in order: the
\* exchange of the indices, a gather for every root, and one exchange per operator.
LastCall == Size + 3
GatherRoot(k) == k - 2

\* all_to_all_recv_sizes: one pass over the ordered indices counts those of every node.
RecvSizes(indices) ==
  LET after[i \in 0 .. Len(indices)] ==
        IF i = 0 THEN [group |-> 0, count |-> 0, sizes |-> <<>>]
        ELSE LET s == after[i-1]
                 g == indices[i] \div N
             IN  IF g = s.group THEN [s EXCEPT !.count = @ + 1]
                 ELSE [group |-> g, count |-> 1,
                       sizes |-> Append(s.sizes, s.count)
                                   \o [x \in 1 .. g - s.group - 1 |-> 0]]
      end == after[Len(indices)]
      all == Append(end.sizes, end.count) \o [x \in 1 .. Size - end.group - 1 |-> 0]
  IN  [r \in Ranks |-> all[r + 1]]

Init ==
  /\ storageMax \in StorageMaxs
  /\ matrix \in [Ranks -> Patterns]
  /\ recv_sizes = [r \in Ranks |-> [q \in Ranks |-> 0]]
  /\ send_sizes = [r \in Ranks |-> [q \in Ranks |-> 0]]
  /\ mapping = [r \in Ranks |-> <<>>]
  /\ posted = [r \in Ranks |-> 0] /\ done = [r \in Ranks |-> 0]
  /\ degridded = [r \in Ranks |-> <<>>] /\ gridded = [r \in Ranks |-> <<>>]
  /\ pc = [r \in Ranks |-> "sizes"]

\* Faulty variant: a rank without columns does not take part.
CountReceivesLeavesEmpty(r) ==
  /\ pc[r] = "sizes"
  /\ IF N * Size > storageMax \/ local_indices(r) = <<>>
     THEN /\ pc' = [pc EXCEPT ![r] = "threw"]
          /\ UNCHANGED recv_sizes
     ELSE /\ recv_sizes' = [recv_sizes EXCEPT ![r] = RecvSizes(local_indices(r))]
          /\ pc' = [pc EXCEPT ![r] = "calls"]
  /\ UNCHANGED <<storageMax, matrix, send_sizes, mapping, posted, done, degridded, gridded>>

\* The start of the constructor: refuse grids whose indices do not fit, then count.
CountReceives(r) ==
  /\ pc[r] = "sizes"
  /\ IF N * Size > storageMax
     THEN /\ pc' = [pc EXCEPT ![r] = "threw"]
          /\ UNCHANGED recv_sizes
     ELSE /\ recv_sizes' = [recv_sizes EXCEPT ![r] = RecvSizes(local_indices(r))]
          /\ pc' = [pc EXCEPT ![r] = "calls"]
  /\ UNCHANGED <<storageMax, matrix, send_sizes, mapping, posted, done, degridded, gridded>>

Before(sizes, r) == SumFunctionOnSet(sizes, 0 .. r-1)

\* all_to_allv: rank q cuts its data by its own sizes; what rank r gets is appended
\* rank after rank.
Exchange(data(_), sizes, r) ==
  LET from[q \in -1 .. Size-1] ==
        IF q = -1 THEN <<>>
        ELSE from[q-1] \o
               SubSeq(data(q), Before(sizes[q], r) + 1, Before(sizes[q], r) + sizes[q][r])
  IN  from[Size-1]

\* The entries of the grid of rank q, tagged by their place in the long vector.
Grid(q) == [p \in 0 .. FtSize-1 |-> {q * FtSize + p}]

\* The visibilities of rank q, tagged by rank and row.
Visibilities(q) == [k \in DOMAIN matrix[q] |-> {<<q, k>>}]

Selected(q) == Select(mapping[q], start(q), Grid(q))
Spread(q) ==
  MultiplyAdjoint(compress_outer(matrix[q]), DOMAIN local_indices(q), Visibilities(q))

\* Entering a collective call.
Post(r) ==
  /\ pc[r] = "calls"
  /\ posted[r] = done[r]
  /\ posted' = [posted EXCEPT ![r] = @ + 1]
  /\ UNCHANGED <<storageMax, matrix, recv_sizes, send_sizes, mapping, done, degridded,
                 gridded, pc>>

Entered(r, k) == posted[r] = k /\ done[r] = k - 1
AllPosted(k) == \A q \in Ranks : posted[q] >= k

\* Its return, the last one being that of the gridding operator.
Finish(r) ==
  /\ done' = [done EXCEPT ![r] = @ + 1]
  /\ pc' = [pc EXCEPT ![r] = IF posted[r] = LastCall THEN "done" ELSE "calls"]
  /\ UNCHANGED <<storageMax, matrix, recv_sizes, posted>>

\* Every rank tells the others which of their entries it wants.
ExchangeIndices(r) ==
  /\ Entered(r, 1) /\ AllPosted(1)
  /\ mapping' = [mapping EXCEPT ![r] = Exchange(local_indices, recv_sizes, r)]
  /\ Finish(r)
  /\ UNCHANGED <<send_sizes, degridded, gridded>>

\* all_to_all_send_sizes: the gathers, of which every rank is the root of one.
GatherSizes(r) ==
  /\ \E k \in 2 .. Size + 1 :
       /\ Entered(r, k)
       /\ IF r = GatherRoot(k)
          THEN /\ AllPosted(k)
               /\ send_sizes' = [send_sizes EXCEPT ![r] = [q \in Ranks |-> recv_sizes[q][r]]]
          ELSE UNCHANGED send_sizes
  /\ Finish(r)
  /\ UNCHANGED <<mapping, degridded, gridded>>

\* recv_grid and the product with the compressed matrix.
Degrid(r) ==
  /\ Entered(r, Size + 2) /\ AllPosted(Size + 2)
  /\ degridded' = [degridded EXCEPT ![r] =
       Multiply(compress_outer(matrix[r]), Exchange(Selected, send_sizes, r))]
  /\ Finish(r)
  /\ UNCHANGED <<send_sizes, mapping, gridded>>

\* The product with the adjoint matrix and send_grid.
GridBack(r) ==
  /\ Entered(r, Size + 3) /\ AllPosted(Size + 3)
  /\ gridded' = [gridded EXCEPT ![r] =
       Accumulate(mapping[r], start(r), N, Exchange(Spread, recv_sizes, r))]
  /\ Finish(r)
  /\ UNCHANGED <<send_sizes, mapping, degridded>>

Step(r) ==
  \/ CountReceives(r) \/ Post(r) \/ ExchangeIndices(r) \/ GatherSizes(r)
  \/ Degrid(r) \/ GridBack(r)

Next == \E r \in Ranks : Step(r)
Spec == Init /\ [][Next]_vars /\ \A r \in Ranks : WF_vars(Step(r))

------------------------------------------------------------------------------

TypeOK ==
  /\ storageMax \in StorageMaxs /\ matrix \in [Ranks -> Patterns]
  /\ recv_sizes \in [Ranks -> [Ranks -> Nat]] /\ send_sizes \in [Ranks -> [Ranks -> Nat]]
  /\ \A r \in Ranks : mapping[r] \in Seq(start(r) .. start(r) + N - 1)
  /\ posted \in [Ranks -> 0 .. LastCall] /\ done \in [Ranks -> 0 .. LastCall]
  /\ pc \in [Ranks -> {"sizes", "calls", "done", "threw"}]

\* Degridding over the ranks is the product of the full matrix with the long vector of
\* all grids: compressing the columns and fetching only those loses nothing.
DegridsFullVector ==
  \A r \in Ranks : done[r] >= Size + 2 => degridded[r] = matrix[r]

\* Gridding is the adjoint of degridding: a visibility contributes to an entry of a
\* grid exactly if it was computed from that entry.
GridIsAdjoint ==
  \A q \in Ranks : pc[q] = "done" =>
    \A p \in 0 .. FtSize-1 :
      gridded[q][p] = {rk \in UNION {{r} \X DOMAIN matrix[r] : r \in Ranks} :
                         q * FtSize + p \in matrix[rk[1]][rk[2]]}

\* All ranks take the same decision on the index type, and get through all the calls.
EveryRankFinishes ==
  <>(\/ \A r \in Ranks : pc[r] = "done"
     \/ \A r \in Ranks : pc[r] = "threw")
==============================================================================
