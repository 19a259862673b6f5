------------------------------- MODULE H5Reader -------------------------------
(***************************************************************************)
(* H5Handler with a communicator: every rank owns a slice of the data set  *)
(* (distread) or draws batches from its slice (stochread, called once per  *)
(* column by stochread_visibility).  Every transfer is collective: a read  *)
(* returns when all the ranks are in a read.  A batch that runs over the   *)
(* end of the slice takes more reads than one that does not.               *)
(***************************************************************************)
EXTENDS Integers, Sequences, FiniteSets, SequencesExt

CONSTANTS
  Size,       \* number of ranks
  DataLens,   \* lengths a data set may have
  BatchSizes, \* sizes of a batch
  Batches,    \* bound: batches drawn, one per iteration of the algorithm
  Shuffles    \* whether the first column of a batch draws a new position

ASSUME SizeAssumption == Size \in Nat \ {0}
ASSUME LengthsAssumption == DataLens \subseteq Nat /\ BatchSizes \subseteq Nat \ {0}
ASSUME BatchesAssumption == Batches \in Nat \ {0}
ASSUME ShufflesAssumption == Shuffles \subseteq BOOLEAN

VARIABLES
  file,     \* length of the columns, and the column that has one entry more, if any
  mode,     \* "distread", "shuffled" or "unshuffled"
  batchsize,
  draws,    \* for every batch, the offset drawn in a slice and in the last slice
  datalen,  \* for every rank, _datalen
  slicepos, \* for every rank, _slicepos
  slicelen, \* for every rank, _slicelen
  batchpos, \* for every rank, _batchpos
  column,   \* for every rank, the column it reads
  batch,    \* for every rank, the batch it reads
  pos,      \* for every rank, where the next transfer starts
  left,     \* for every rank, what is still to be read of the column
  got,      \* for every rank and column, the positions of the file it has read
  pc        \* for every rank, where it is

vars == <<file, mode, batchsize, draws, datalen, slicepos, slicelen, batchpos, column,
          batch, pos, left, got, pc>>

Ranks == 0 .. Size-1
Columns == <<"u", "v", "w", "re", "im", "sigma">>
LenOf(c) == file.len + (IF file.odd = Columns[c] THEN 1 ELSE 0)
Least(a, b) == IF a < b THEN a ELSE b

\* The generators of all ranks have the default seed: ranks whose slices have the same
\* length draw the same offset, ranks with different lengths need not.
Offsets(len) ==
  LET slice == len \div Size
      last == slice + (len % Size)
  IN  {xy \in (0 .. slice - 1) \X (0 .. last - 1) : slice = last => xy[1] = xy[2]}

Init ==
  /\ file \in [len : DataLens, odd : {"none", "v"}]
  /\ mode \in {"distread"} \cup {IF s THEN "shuffled" ELSE "unshuffled" : s \in Shuffles}
  /\ batchsize \in BatchSizes
  /\ IF file.len < Size THEN draws = <<>> ELSE draws \in [1 .. Batches -> Offsets(file.len)]
  /\ datalen = [r \in Ranks |-> 0]
  /\ slicepos = [r \in Ranks |-> 0] /\ slicelen = [r \in Ranks |-> 0]
  /\ batchpos = [r \in Ranks |-> 0]
  /\ column = [r \in Ranks |-> 1] /\ batch = [r \in Ranks |-> 1]
  /\ pos = [r \in Ranks |-> 0] /\ left = [r \in Ranks |-> 0]
  /\ got = [r \in Ranks |-> [c \in DOMAIN Columns |-> <<>>]]
  /\ pc = [r \in Ranks |-> "load"]

Refused(r) ==
  LET len == LenOf(column[r])
  IN  len = 0 \/ len < Size \/ (datalen[r] # 0 /\ len # datalen[r])

\* Equal slices; the last one also has the remainder.
SliceLength(r, len) == len \div Size + (IF r = Size - 1 THEN len % Size ELSE 0)

\* Faulty variant: every rank seeds its generator differently.
DrawSeededByRank(r) == slicepos'[r] + ((draws[batch[r]][1] + r) % slicelen'[r])

\* _shuffle: a position within the slice of the rank.
Draw(r) ==
  slicepos'[r] + (IF slicelen'[r] = datalen'[r] \div Size THEN draws[batch[r]][1]
                  ELSE draws[batch[r]][2])

\* Faulty variant: every column draws a position.
BatchPositionPerColumn(r) ==
  IF mode = "shuffled" THEN slicepos'[r] + ((draws[batch[r]][1] + column[r]) % slicelen'[r])
  ELSE batchpos[r]

\* stochread_visibility asks for a draw with the first column only.
BatchPosition(r) == IF mode = "shuffled" /\ column[r] = 1 THEN Draw(r) ELSE batchpos[r]

\* The part of distread and stochread before the transfers: _loadDataSet, which fixes
\* the slice with the first column, and the draw of a position.
StartColumn(r) ==
  /\ pc[r] = "load"
  /\ IF Refused(r)
     THEN /\ pc' = [pc EXCEPT ![r] = "threw"]
          /\ UNCHANGED <<datalen, slicepos, slicelen, batchpos, pos, left, got>>
     ELSE LET len == LenOf(column[r])
          IN  /\ datalen' = [datalen EXCEPT ![r] = len]
              /\ slicelen' = [slicelen EXCEPT ![r] = SliceLength(r, len)]
              /\ slicepos' = [slicepos EXCEPT ![r] = r * (len \div Size)]
              /\ batchpos' = [batchpos EXCEPT ![r] = BatchPosition(r)]
              /\ pos' = [pos EXCEPT ![r] =
                   IF mode = "distread" THEN slicepos'[r] ELSE batchpos'[r]]
              /\ left' = [left EXCEPT ![r] =
                   IF mode = "distread" THEN slicelen'[r] ELSE batchsize]
              /\ got' = [got EXCEPT ![r][column[r]] = <<>>]
              /\ pc' = [pc EXCEPT ![r] = "read"]
  /\ UNCHANGED <<file, mode, batchsize, draws, column, batch>>

\* Faulty variant: a transfer may run over the end of the slice.
TransferNoWrap(r) == left[r]

\* The length of the next transfer: up to the end of the slice.
Transfer(r) == Least(left[r], slicepos[r] + slicelen[r] - pos[r])

LastColumn(r) == mode = "distread" \/ column[r] = Len(Columns)

\* A collective transfer: every rank reads a stretch, whatever its column; a further
\* one of the same batch starts at the beginning of the slice.
Read ==
  /\ \A r \in Ranks : pc[r] = "read"
  /\ got' = [r \in Ranks |-> [got[r] EXCEPT ![column[r]] =
       @ \o [k \in 1 .. Transfer(r) |-> pos[r] + k - 1]]]
  /\ pos' = slicepos
  /\ left' = [r \in Ranks |-> left[r] - Transfer(r)]
  /\ pc' = [r \in Ranks |-> IF left'[r] > 0 THEN "read"
       ELSE IF LastColumn(r) /\ (mode = "distread" \/ batch[r] = Batches) THEN "done"
       ELSE "load"]
  /\ column' = [r \in Ranks |-> IF left'[r] > 0 THEN column[r]
                                ELSE IF LastColumn(r) THEN 1 ELSE column[r] + 1]
  /\ batch' = [r \in Ranks |->
       IF pc'[r] = "load" /\ LastColumn(r) THEN batch[r] + 1 ELSE batch[r]]
  /\ UNCHANGED <<file, mode, batchsize, draws, datalen, slicepos, slicelen, batchpos>>

Next == Read \/ \E r \in Ranks : StartColumn(r)
Spec == Init /\ [][Next]_vars /\ WF_vars(Read) /\ \A r \in Ranks : WF_vars(StartColumn(r))

------------------------------------------------------------------------------

TypeOK ==
  /\ file.len \in DataLens /\ batchsize \in BatchSizes
  /\ mode \in {"distread", "shuffled", "unshuffled"}
  /\ datalen \in [Ranks -> {0, file.len}]
  /\ slicepos \in [Ranks -> 0 .. file.len] /\ slicelen \in [Ranks -> 0 .. file.len]
  /\ batchpos \in [Ranks -> 0 .. file.len] /\ pos \in [Ranks -> 0 .. file.len]
  /\ left \in [Ranks -> 0 .. file.len + batchsize]
  /\ column \in [Ranks -> DOMAIN Columns] /\ batch \in [Ranks -> 1 .. Batches]
  /\ \A r \in Ranks, c \in DOMAIN Columns : got[r][c] \in Seq(0 .. file.len - 1)
  /\ pc \in [Ranks -> {"load", "read", "done", "threw"}]

Slice(r) == slicepos[r] .. slicepos[r] + slicelen[r] - 1

\* "Method to stochastically draw a subset from the distributed dataset slice": what a
\* rank reads lies in its own slice, and no two ranks read the same entry, although
\* every rank works out its slice on its own.
ReadsFromSlice ==
  \A r \in Ranks, c \in DOMAIN Columns :
    /\ ToSet(got[r][c]) \subseteq Slice(r)
    /\ \A q \in Ranks \ {r} : ToSet(got[r][c]) \cap ToSet(got[q][c]) = {}

\* The columns of a batch are of the same visibilities in the same order, although the
\* position is drawn once and every column is read by calls of its own.  A batch has the
\* size asked for, and draws no visibility twice if the slice has as many.
ColumnsAligned ==
  \A r \in Ranks :
    LET finished == IF pc[r] = "done" THEN DOMAIN Columns
                    ELSE {c \in DOMAIN Columns : c < column[r]}
    IN  mode # "distread" =>
          \A c \in finished :
            /\ got[r][c] = got[r][1] /\ Len(got[r][c]) = batchsize
            /\ batchsize <= slicelen[r] => IsInjective(got[r][c])

\* A data set that divides evenly is read by every rank, or refused by all of them.
EvenSlicesFinish ==
  file.len % Size = 0
    ~> ((\A r \in Ranks : pc[r] = "done") \/ (\A r \in Ranks : pc[r] = "threw"))

\* tests/mpi_read_measurements.cc: "each rank reads a stochastically sampled set": for a
\* consistent data set of any length that has enough data, every rank gets its batches.
EveryRankReads ==
  file.len >= Size /\ file.odd = "none" ~> \A r \in Ranks : pc[r] = "done"
==============================================================================
