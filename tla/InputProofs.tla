----------------------------- MODULE InputProofs ----------------------------
(***************************************************************************)
(* Proofs about how the program comes by its data.  H5Reader, for every    *)
(* number of ranks, every length of the data set, every size and number of *)
(* batches: a rank reads from its own slice only, and the columns of a     *)
(* batch are of the same visibilities.  ProgramInput, for every            *)
(* configuration file and all files on the disk: the parser that main goes *)
(* on with has a value for every member that main asks for, and what is    *)
(* read is every visibility of every file, as often as it is there.        *)
(***************************************************************************)
EXTENDS H5Reader, ProgramInput, Lists

(***************************************************************************)
(* The inductive invariant.                                                *)
(***************************************************************************)

\* What a rank reads of a column: so many entries, from there on.
Start(r) == IF mode = "distread" THEN slicepos[r] ELSE batchpos[r]
Wanted(r) == IF mode = "distread" THEN slicelen[r] ELSE batchsize

\* The e-th entry that is read from position p on of a slice, which wraps around.
Entry(p, s, l, e) ==
  IF p + e - 1 < s + l THEN p + e - 1 ELSE s + ((p + e - 1 - (s + l)) % l)

\* After n entries from position p on the end of the slice has been reached.
EndOfRound(p, s, l, n) == \E m \in Nat : p + n = s + l + m * l

\* The first n entries that rank r reads of a column.
Stretch(r, n) == [e \in 1 .. n |-> Entry(Start(r), slicepos[r], slicelen[r], e)]

Given ==
  /\ file \in [len : DataLens, odd : {"none", "v"}]
  /\ mode \in {"distread", "shuffled", "unshuffled"}
  /\ batchsize \in BatchSizes
  /\ file.len >= Size => draws \in [1 .. Batches -> Offsets(file.len)]

Functional ==
  /\ DOMAIN datalen = Ranks /\ DOMAIN slicepos = Ranks /\ DOMAIN slicelen = Ranks
  /\ DOMAIN batchpos = Ranks /\ DOMAIN column = Ranks /\ DOMAIN batch = Ranks
  /\ DOMAIN pos = Ranks /\ DOMAIN left = Ranks /\ DOMAIN pc = Ranks
  /\ DOMAIN got = Ranks /\ \A r \in Ranks : DOMAIN got[r] = 1 .. 6

Local(r) ==
  /\ column[r] \in 1 .. 6 /\ batch[r] \in 1 .. Batches
  /\ pc[r] \in {"load", "read", "done", "threw"}

\* Nothing is loaded yet: the first column of the first batch is to be opened.
Fresh(r) ==
  /\ datalen[r] = 0 /\ column[r] = 1 /\ pc[r] \in {"load", "threw"}
  /\ batchpos[r] = 0
  /\ \A c \in 1 .. 6 : got[r][c] = <<>>

\* The first column has fixed the slice, and every position lies in front of its end.
Sliced(r) ==
  /\ file.len >= Size /\ datalen[r] = file.len
  /\ slicepos[r] = r * (file.len \div Size)
  /\ slicelen[r] = SliceLength(r, file.len)
  /\ batchpos[r] \in Nat /\ batchpos[r] < slicepos[r] + slicelen[r]
  /\ mode = "shuffled" => batchpos[r] >= slicepos[r]
  /\ mode # "shuffled" => batchpos[r] = 0

\* The column that is being read: so far the first entries of the stretch, and the next
\* transfer starts with the entry after them.
Reading(r) ==
  LET n == Wanted(r) - left[r]
  IN  /\ left[r] \in Nat \ {0} /\ n \in Nat /\ pos[r] \in Nat
      /\ got[r][column[r]] = Stretch(r, n)
      /\ \/ n = 0 /\ pos[r] = Start(r)
         \/ pos[r] = slicepos[r] /\ EndOfRound(Start(r), slicepos[r], slicelen[r], n)

\* The columns of a batch that are complete.
Finished(r) == IF pc[r] = "done" THEN 1 .. 6 ELSE {c \in 1 .. 6 : c < column[r]}

Loaded(r) ==
  /\ Sliced(r)
  /\ pc[r] = "read" => Reading(r)
  /\ mode # "distread" => \A c \in Finished(r) : got[r][c] = Stretch(r, batchsize)
  /\ mode = "distread" => column[r] = 1
  /\ mode # "unshuffled" => \A c \in 1 .. 6 : ToSet(got[r][c]) \subseteq Slice(r)

ReaderInv ==
  /\ Given /\ Functional
  /\ \A r \in Ranks : Local(r) /\ (Fresh(r) \/ Loaded(r))

(***************************************************************************)
(* Slices and entries.                                                     *)
(***************************************************************************)

\* A product with a smaller factor leaves room for the other factor once more.
LEMMA Steps ==
  ASSUME NEW q \in Nat, NEW d \in Nat, NEW j \in Nat, d < j
  PROVE  d * q \in Nat /\ j * q \in Nat /\ d * q + q <= j * q
<1>1. PICK e \in Nat : j = d + 1 + e
  <2>1. j - d - 1 \in Nat /\ j = d + 1 + (j - d - 1)
    OBVIOUS
  <2> QED
    BY <2>1
<1>2. j * q = d * q + q + e * q
  BY <1>1
<1>3. e * q \in Nat /\ d * q \in Nat /\ j * q \in Nat
  OBVIOUS
<1> DEFINE kq == e * q
           iq == d * q
           jq == j * q
<1>4. jq = iq + q + kq /\ kq \in Nat /\ iq \in Nat /\ jq \in Nat
  BY <1>2, <1>3
<1> HIDE DEF kq, iq, jq
<1>5. iq + q <= jq
  BY <1>4
<1> QED
  BY <1>4, <1>5 DEF iq, jq

\* Remainder and quotient of a number that is known as a multiple and a rest.
LEMMA Remainder ==
  ASSUME NEW l \in Nat, l > 0, NEW m \in Nat, NEW a \in Nat, a < l
  PROVE  (m * l + a) % l = a /\ (m * l + a) \div l = m
<1> DEFINE x == m * l + a
           q == x \div l
           b == x % l
<1>1. m * l \in Nat /\ x \in Nat
  OBVIOUS
<1>2. q \in Nat /\ b \in Nat /\ b < l /\ x = l * q + b
  <2> HIDE DEF x
  <2>1. x \in Nat
    BY <1>1
  <2>2. q \in Int /\ b \in Nat /\ b < l /\ x = l * q + b
    BY <2>1
  <2>3. q >= 0
    BY <2>1
  <2> QED
    BY <2>2, <2>3
<1>3. l * q = q * l
  BY <1>2
<1>4. m * l + a = q * l + b
  BY <1>2, <1>3
<1> HIDE DEF x, q, b
<1>5. m * l \in Nat /\ q * l \in Nat
  BY <1>2
<1>6. CASE m < q
  <2>1. m * l + l <= q * l
    BY <1>2, <1>6, Steps
  <2> DEFINE ml == m * l
             ql == q * l
  <2>2. ml + l <= ql /\ ml + a = ql + b /\ ml \in Nat /\ ql \in Nat
    BY <1>4, <1>5, <2>1
  <2> HIDE DEF ml, ql
  <2> QED
    BY <1>2, <2>2
<1>7. CASE q < m
  <2>1. q * l + l <= m * l
    BY <1>2, <1>7, Steps
  <2> DEFINE ml == m * l
             ql == q * l
  <2>2. ql + l <= ml /\ ml + a = ql + b /\ ml \in Nat /\ ql \in Nat
    BY <1>4, <1>5, <2>1
  <2> HIDE DEF ml, ql
  <2> QED
    BY <1>2, <2>2
<1>8. CASE q = m
  <2> DEFINE ml == m * l
  <2>1. ml + a = ml + b /\ ml \in Nat
    BY <1>4, <1>5, <1>8
  <2> HIDE DEF ml
  <2>2. a = b
    BY <1>2, <2>1
  <2> QED
    BY <1>8, <2>2 DEF b, q, x
<1> QED
  BY <1>2, <1>6, <1>7, <1>8

\* The entries that are read lie in the slice if the first of them does.
LEMMA EntryInSlice ==
  ASSUME NEW s \in Nat, NEW l \in Nat, l > 0, NEW p \in Nat, p < s + l,
         NEW e \in Nat, e > 0
  PROVE  /\ Entry(p, s, l, e) \in Nat
         /\ p >= s => Entry(p, s, l, e) \in s .. s + l - 1
<1>1. CASE p + e - 1 < s + l
  BY <1>1 DEF Entry
<1>2. CASE ~(p + e - 1 < s + l)
  <2> DEFINE d == p + e - 1 - (s + l)
  <2>1. d \in Nat
    BY <1>2
  <2> HIDE DEF d
  <2>2. d % l \in Nat /\ d % l < l
    BY <2>1
  <2>3. Entry(p, s, l, e) = s + (d % l)
    BY <1>2 DEF Entry, d
  <2> QED
    BY <2>2, <2>3
<1> QED
  BY <1>1, <1>2

\* The entries up to the first end of the slice.
LEMMA EntryFirstRound ==
  ASSUME NEW s \in Nat, NEW l \in Nat, NEW p \in Nat, NEW e \in Nat, p + e - 1 < s + l
  PROVE  Entry(p, s, l, e) = p + e - 1
  BY DEF Entry

\* No entry twice within the length of the slice.
LEMMA EntriesDiffer ==
  ASSUME NEW s \in Nat, NEW l \in Nat, l > 0, NEW p \in Nat, p < s + l,
         NEW c \in 1 .. l, NEW j \in 1 .. l, Entry(p, s, l, c) = Entry(p, s, l, j)
  PROVE  c = j
<1>1. ASSUME NEW e \in 1 .. l, ~(p + e - 1 < s + l)
      PROVE  Entry(p, s, l, e) = p + e - 1 - l
  <2> DEFINE d == p + e - 1 - (s + l)
  <2>1. d \in Nat /\ d < l
    BY <1>1
  <2> HIDE DEF d
  <2>2. d % l = d
    BY <2>1
  <2>3. Entry(p, s, l, e) = s + (d % l)
    BY <1>1 DEF Entry, d
  <2> QED
    BY <2>2, <2>3 DEF d
<1>2. \A e \in 1 .. l : p + e - 1 < s + l => Entry(p, s, l, e) = p + e - 1
  BY DEF Entry
<1> QED
  BY <1>1, <1>2

\* The slices follow each other without a gap, and the last one ends with the data set.
LEMMA SliceFacts ==
  ASSUME NEW len \in Nat, len >= Size, NEW r \in Ranks
  PROVE  /\ r * (len \div Size) \in Nat
         /\ SliceLength(r, len) \in Nat /\ SliceLength(r, len) > 0
         /\ r * (len \div Size) + SliceLength(r, len) <= len
         /\ \A p \in Ranks : r < p =>
              r * (len \div Size) + SliceLength(r, len) <= p * (len \div Size)
         /\ 0 <= len \div Size /\ len \div Size <= SliceLength(r, len)
         /\ SliceLength(r, len) # len \div Size =>
              SliceLength(r, len) = len \div Size + (len % Size)
<1> DEFINE q == len \div Size
           b == len % Size
<1>1. Size \in Nat /\ Size > 0 /\ r \in Nat /\ r < Size
  BY SizeAssumption DEF Ranks
<1>2. q \in Int /\ b \in Nat /\ b < Size /\ len = Size * q + b /\ q >= 0
  BY <1>1
<1> HIDE DEF q, b
<1>3. q > 0
  <2> SUFFICES ASSUME q = 0 PROVE FALSE
    BY <1>2
  <2>1. Size * q = 0
    BY <1>1
  <2> QED
    BY <1>1, <1>2, <2>1
<1>4. SliceLength(r, len) = q + (IF r = Size - 1 THEN b ELSE 0)
  BY DEF SliceLength, q, b
<1>5. r * q \in Nat /\ Size * q \in Nat /\ r * q + q <= Size * q
  BY <1>1, <1>2, Steps
<1>6. r * q + SliceLength(r, len) <= len
  <2> DEFINE rq == r * q
             sq == Size * q
  <2>1. rq + q <= sq /\ rq \in Nat /\ sq \in Nat /\ len = sq + b
    BY <1>2, <1>5
  <2> HIDE DEF rq, sq
  <2>2. rq + SliceLength(r, len) <= len
    BY <1>2, <1>4, <2>1
  <2> QED
    BY <2>2 DEF rq
<1>7. ASSUME NEW p \in Ranks, r < p
      PROVE  r * q + SliceLength(r, len) <= p * q
  <2>1. p \in Nat /\ p < Size /\ r # Size - 1
    BY <1>1, <1>7 DEF Ranks
  <2>2. SliceLength(r, len) = q
    BY <1>2, <1>4, <2>1
  <2> QED
    BY <1>1, <1>2, <1>7, <2>1, <2>2, Steps
<1>8. SliceLength(r, len) \in Nat /\ SliceLength(r, len) > 0 /\ q <= SliceLength(r, len)
  BY <1>2, <1>3, <1>4
<1>9. SliceLength(r, len) # q => SliceLength(r, len) = q + b
  BY <1>2, <1>4
<1> QED
  BY <1>2, <1>5, <1>6, <1>7, <1>8, <1>9 DEF q, b

LEMMA BatchTypes ==
  ASSUME Given
  PROVE  file.len \in Nat /\ batchsize \in Nat /\ batchsize > 0
<1>1. file.len \in DataLens /\ batchsize \in BatchSizes
  BY DEF Given
<1>2. DataLens \subseteq Nat /\ BatchSizes \subseteq Nat \ {0}
  BY LengthsAssumption
<1>3. file.len \in Nat
  BY <1>1, <1>2
<1>4. batchsize \in Nat \ {0}
  BY <1>1, <1>2
<1>5. batchsize \in Nat /\ batchsize > 0
  BY <1>4
<1> QED
  BY <1>3, <1>5

\* The slice of a rank that has loaded a column.
LEMMA SlicedTypes ==
  ASSUME Given, NEW r \in Ranks, Sliced(r)
  PROVE  /\ file.len \in Nat /\ file.len >= Size
         /\ slicepos[r] \in Nat /\ slicelen[r] \in Nat /\ slicelen[r] > 0
         /\ slicepos[r] + slicelen[r] <= file.len
         /\ batchsize \in Nat /\ batchsize > 0
         /\ Wanted(r) \in Nat /\ Wanted(r) > 0
         /\ Start(r) \in Nat /\ Start(r) < slicepos[r] + slicelen[r]
         /\ mode # "unshuffled" => Start(r) >= slicepos[r]
<1>1. file.len \in Nat /\ batchsize \in Nat /\ batchsize > 0
  BY BatchTypes
<1>2. /\ file.len >= Size /\ slicepos[r] = r * (file.len \div Size)
      /\ slicelen[r] = SliceLength(r, file.len)
  BY DEF Sliced
<1>3. /\ slicepos[r] \in Nat /\ slicelen[r] \in Nat /\ slicelen[r] > 0
      /\ slicepos[r] + slicelen[r] <= file.len
  BY <1>1, <1>2, SliceFacts
<1>4. Wanted(r) \in Nat /\ Wanted(r) > 0
  BY <1>1, <1>3 DEF Wanted
<1>5. /\ Start(r) \in Nat /\ Start(r) < slicepos[r] + slicelen[r]
      /\ mode # "unshuffled" => Start(r) >= slicepos[r]
  BY <1>3 DEF Start, Sliced, Given
<1> QED
  BY <1>1, <1>2, <1>3, <1>4, <1>5

\* What has been read lies in the slice.
LEMMA StretchInSlice ==
  ASSUME Given, NEW r \in Ranks, Sliced(r), NEW n \in Nat
  PROVE  /\ Stretch(r, n) \in Seq(Nat) /\ Len(Stretch(r, n)) = n
         /\ mode # "unshuffled" => ToSet(Stretch(r, n)) \subseteq Slice(r)
<1> DEFINE p == Start(r)
           s == slicepos[r]
           l == slicelen[r]
<1>1. s \in Nat /\ l \in Nat /\ l > 0 /\ p \in Nat /\ p < s + l
      /\ (mode # "unshuffled" => p >= s)
  BY SlicedTypes
<1>2. Stretch(r, n) = [e \in 1 .. n |-> Entry(p, s, l, e)] /\ Slice(r) = s .. s + l - 1
  BY DEF Stretch, Slice
<1> HIDE DEF p, s, l
<1>3. \A e \in 1 .. n : /\ Entry(p, s, l, e) \in Nat
                        /\ mode # "unshuffled" => Entry(p, s, l, e) \in s .. s + l - 1
  BY <1>1, EntryInSlice
<1>4. ToSet(Stretch(r, n)) = {Entry(p, s, l, e) : e \in 1 .. n}
  BY <1>2 DEF ToSet
<1> QED
  BY <1>2, <1>3, <1>4

(***************************************************************************)
(* The invariant holds at first, and while one rank opens a column.        *)
(***************************************************************************)

LEMMA ColumnsAre ==
  ASSUME Given
  PROVE  /\ DOMAIN Columns = 1 .. 6 /\ Len(Columns) = 6
         /\ file.len \in Nat /\ LenOf(1) = file.len
<1>1. Columns[1] = "u" /\ DOMAIN Columns = 1 .. 6 /\ Len(Columns) = 6
  BY DEF Columns
<1>2. file.len \in DataLens /\ file.odd \in {"none", "v"}
  BY DEF Given
<1>3. file.len \in Nat
  BY <1>2, LengthsAssumption
<1>4. file.odd # Columns[1]
  BY <1>1, <1>2
<1>5. LenOf(1) = file.len
  BY <1>3, <1>4 DEF LenOf
<1> QED
  BY <1>1, <1>3, <1>5

LEMMA ReaderInvInit == Init => ReaderInv
<1> SUFFICES ASSUME Init PROVE ReaderInv
  OBVIOUS
<1>1. Given
  <2>1. file \in [len : DataLens, odd : {"none", "v"}] /\ batchsize \in BatchSizes
    BY DEF Init
  <2>2. mode \in {"distread", "shuffled", "unshuffled"}
    BY DEF Init
  <2>3. file.len \in Nat
    BY <2>1, LengthsAssumption
  <2>4. file.len >= Size => draws \in [1 .. Batches -> Offsets(file.len)]
    BY <2>3, SizeAssumption DEF Init
  <2> QED
    BY <2>1, <2>2, <2>4 DEF Given
<1>2. Functional
  BY <1>1, ColumnsAre DEF Init, Functional
<1>3. ASSUME NEW r \in Ranks
      PROVE  Local(r) /\ Fresh(r)
  <2>1. Local(r)
    BY <1>3, BatchesAssumption DEF Init, Local
  <2>2. Fresh(r)
    BY <1>1, <1>3, ColumnsAre DEF Init, Fresh
  <2> QED
    BY <2>1, <2>2
<1> QED
  BY <1>1, <1>2, <1>3 DEF ReaderInv

\* A rank of which nothing changes.
LEMMA Untouched ==
  ASSUME UNCHANGED <<file, mode, batchsize, draws>>, NEW r \in Ranks,
         datalen'[r] = datalen[r], slicepos'[r] = slicepos[r], slicelen'[r] = slicelen[r],
         batchpos'[r] = batchpos[r], column'[r] = column[r], batch'[r] = batch[r],
         pos'[r] = pos[r], left'[r] = left[r], got'[r] = got[r], pc'[r] = pc[r],
         Local(r) /\ (Fresh(r) \/ Loaded(r))
  PROVE  Local(r)' /\ (Fresh(r)' \/ Loaded(r)')
<1>1. Local(r)'
  BY DEF Local
<1>2. CASE Fresh(r)
  <2>1. Fresh(r)'
    BY <1>2 DEF Fresh
  <2> QED
    BY <1>1, <2>1
<1>3. CASE Loaded(r)
  <2>1. Sliced(r)'
    BY <1>3 DEF Loaded, Sliced
  <2>2. Start(r)' = Start(r) /\ Wanted(r)' = Wanted(r) /\ Slice(r)' = Slice(r)
        /\ Finished(r)' = Finished(r)
    BY DEF Start, Wanted, Slice, Finished
  <2>3. \A n : Stretch(r, n)' = Stretch(r, n)
    BY <2>2 DEF Stretch
  <2>4. Reading(r)' <=> Reading(r)
    BY <2>2, <2>3 DEF Reading
  <2>5. Loaded(r)'
    BY <1>3, <2>1, <2>2, <2>3, <2>4 DEF Loaded
  <2> QED
    BY <1>1, <2>5
<1> QED
  BY <1>2, <1>3

\* A rank that goes on has found the first column in the file, and enough data.
LEMMA Opened ==
  ASSUME ReaderInv, NEW r \in Ranks, pc[r] = "load", ~Refused(r)
  PROVE  LenOf(column[r]) = file.len /\ file.len \in Nat /\ file.len >= Size
<1>1. Given /\ Local(r) /\ (Fresh(r) \/ Loaded(r))
  BY DEF ReaderInv
<1>2. file.len \in Nat /\ LenOf(1) = file.len /\ Size \in Nat /\ Size > 0
  BY <1>1, ColumnsAre, SizeAssumption
<1>3. CASE Fresh(r)
  <2>1. LenOf(column[r]) = file.len
    BY <1>2, <1>3 DEF Fresh
  <2> QED
    BY <1>2, <2>1 DEF Refused
<1>4. CASE Loaded(r)
  <2>1. datalen[r] = file.len /\ file.len >= Size
    BY <1>4 DEF Loaded, Sliced
  <2> QED
    BY <1>2, <2>1 DEF Refused
<1> QED
  BY <1>1, <1>3, <1>4

\* What opening a column changes of its rank.
LEMMA OpenedState ==
  ASSUME ReaderInv, NEW r \in Ranks, StartColumn(r), ~Refused(r)
  PROVE  /\ UNCHANGED <<file, mode, batchsize, draws, column, batch>>
         /\ datalen'[r] = file.len /\ slicepos'[r] = r * (file.len \div Size)
         /\ slicelen'[r] = SliceLength(r, file.len)
         /\ batchpos'[r] = BatchPosition(r)
         /\ pos'[r] = Start(r)' /\ left'[r] = Wanted(r)' /\ pc'[r] = "read"
         /\ got'[r] = [got[r] EXCEPT ![column[r]] = <<>>]
         /\ pc[r] = "load"
<1>1. Functional /\ pc[r] = "load"
  BY DEF ReaderInv, StartColumn
<1>2. LenOf(column[r]) = file.len
  BY <1>1, Opened
<1>3. UNCHANGED <<file, mode, batchsize, draws, column, batch>>
  BY DEF StartColumn
<1>4. /\ datalen' = [datalen EXCEPT ![r] = file.len]
      /\ slicelen' = [slicelen EXCEPT ![r] = SliceLength(r, file.len)]
      /\ slicepos' = [slicepos EXCEPT ![r] = r * (file.len \div Size)]
      /\ batchpos' = [batchpos EXCEPT ![r] = BatchPosition(r)]
      /\ pos' = [pos EXCEPT ![r] = IF mode = "distread" THEN slicepos'[r] ELSE batchpos'[r]]
      /\ left' = [left EXCEPT ![r] = IF mode = "distread" THEN slicelen'[r] ELSE batchsize]
      /\ got' = [got EXCEPT ![r] = [got[r] EXCEPT ![column[r]] = <<>>]]
      /\ pc' = [pc EXCEPT ![r] = "read"]
  BY <1>1, <1>2, Zenon DEF StartColumn, Functional
<1>5. /\ datalen'[r] = file.len /\ slicepos'[r] = r * (file.len \div Size)
      /\ slicelen'[r] = SliceLength(r, file.len) /\ batchpos'[r] = BatchPosition(r)
      /\ pc'[r] = "read" /\ got'[r] = [got[r] EXCEPT ![column[r]] = <<>>]
  BY <1>1, <1>4, Zenon DEF Functional
<1>6. pos'[r] = Start(r)' /\ left'[r] = Wanted(r)'
  BY <1>1, <1>3, <1>4, Zenon DEF Functional, Start, Wanted
<1> QED
  BY <1>1, <1>3, <1>5, <1>6

\* A position that is drawn lies in the slice of the rank.
LEMMA DrawnInSlice ==
  ASSUME ReaderInv, NEW r \in Ranks, file.len >= Size,
         slicepos'[r] = r * (file.len \div Size), slicelen'[r] = SliceLength(r, file.len),
         datalen'[r] = file.len
  PROVE  /\ Draw(r) \in Nat /\ Draw(r) >= slicepos'[r]
         /\ Draw(r) < slicepos'[r] + slicelen'[r]
<1> DEFINE len == file.len
           q == len \div Size
           b == len % Size
           s == r * q
           l == SliceLength(r, len)
           xy == draws[batch[r]]
<1>1. Given /\ batch[r] \in 1 .. Batches
  BY DEF ReaderInv, Local
<1>2. len \in Nat /\ q \in Int /\ b \in Int
  BY <1>1, ColumnsAre, SizeAssumption
<1>3. s \in Nat /\ l \in Nat /\ l > 0 /\ q <= l /\ (l # q => l = q + b)
  BY <1>2, SliceFacts
<1>4. xy \in Offsets(len)
  BY <1>1 DEF Given
<1>5. xy[1] \in 0 .. q - 1 /\ xy[2] \in 0 .. q + b - 1
  BY <1>2, <1>4 DEF Offsets
<1>6. Draw(r) = s + (IF l = q THEN xy[1] ELSE xy[2])
  BY DEF Draw
<1> HIDE DEF q, b, s, l, xy, len
<1>7. Draw(r) \in Nat /\ Draw(r) >= s /\ Draw(r) < s + l
  BY <1>2, <1>3, <1>5, <1>6
<1> QED
  BY <1>7 DEF s, l, q, len

LEMMA OpenedSliced ==
  ASSUME ReaderInv, NEW r \in Ranks, StartColumn(r), ~Refused(r)
  PROVE  Sliced(r)'
<1>1. /\ UNCHANGED <<file, mode, batchsize, draws, column, batch>>
      /\ datalen'[r] = file.len /\ slicepos'[r] = r * (file.len \div Size)
      /\ slicelen'[r] = SliceLength(r, file.len) /\ batchpos'[r] = BatchPosition(r)
      /\ pc[r] = "load"
  BY OpenedState
<1>2. file.len \in Nat /\ file.len >= Size
  BY <1>1, Opened
<1>3. Local(r) /\ (Fresh(r) \/ Loaded(r)) /\ Given
  BY DEF ReaderInv
<1>4. CASE mode = "shuffled" /\ column[r] = 1
  <2>1. batchpos'[r] = Draw(r)
    BY <1>1, <1>4 DEF BatchPosition
  <2>2. /\ batchpos'[r] \in Nat /\ batchpos'[r] >= slicepos'[r]
        /\ batchpos'[r] < slicepos'[r] + slicelen'[r]
    BY <1>1, <1>2, <2>1, DrawnInSlice
  <2> QED
    BY <1>1, <1>2, <1>4, <2>2 DEF Sliced
<1>5. CASE ~(mode = "shuffled" /\ column[r] = 1) /\ Loaded(r)
  <2>1. batchpos'[r] = batchpos[r]
    BY <1>1, <1>5 DEF BatchPosition
  <2>2. slicepos'[r] = slicepos[r] /\ slicelen'[r] = slicelen[r]
    BY <1>1, <1>5 DEF Loaded, Sliced
  <2> QED
    BY <1>1, <1>2, <1>5, <2>1, <2>2 DEF Loaded, Sliced
<1>6. CASE ~(mode = "shuffled" /\ column[r] = 1) /\ Fresh(r)
  <2>1. batchpos'[r] = 0 /\ mode # "shuffled"
    BY <1>1, <1>6 DEF BatchPosition, Fresh
  <2>2. slicepos'[r] \in Nat /\ slicelen'[r] \in Nat /\ slicelen'[r] > 0
    BY <1>1, <1>2, SliceFacts
  <2> QED
    BY <1>1, <1>2, <2>1, <2>2 DEF Sliced
<1> QED
  BY <1>3, <1>4, <1>5, <1>6

LEMMA OpenedLoaded ==
  ASSUME ReaderInv, NEW r \in Ranks, StartColumn(r), ~Refused(r)
  PROVE  Local(r)' /\ Loaded(r)'
<1>1. /\ UNCHANGED <<file, mode, batchsize, draws, column, batch>>
      /\ datalen'[r] = file.len /\ slicepos'[r] = r * (file.len \div Size)
      /\ slicelen'[r] = SliceLength(r, file.len) /\ batchpos'[r] = BatchPosition(r)
      /\ pos'[r] = Start(r)' /\ left'[r] = Wanted(r)' /\ pc'[r] = "read"
      /\ got'[r] = [got[r] EXCEPT ![column[r]] = <<>>]
      /\ pc[r] = "load"
  BY OpenedState
<1>2. Local(r) /\ (Fresh(r) \/ Loaded(r)) /\ Given /\ DOMAIN got[r] = 1 .. 6
  BY DEF ReaderInv, Functional
<1>3. Local(r)'
  BY <1>1, <1>2 DEF Local
<1>4. Sliced(r)'
  BY OpenedSliced
<1>6. /\ Wanted(r)' \in Nat /\ Wanted(r)' > 0
      /\ Start(r)' \in Nat
  <2>1. file.len \in Nat /\ file.len >= Size
    BY <1>1, Opened
  <2>2. slicepos'[r] \in Nat /\ slicelen'[r] \in Nat /\ slicelen'[r] > 0
    BY <1>1, <2>1, SliceFacts
  <2>3. batchsize \in Nat /\ batchsize > 0
    BY <1>2, BatchTypes
  <2>4. batchpos'[r] \in Nat
    BY <1>4 DEF Sliced
  <2> QED
    BY <1>1, <2>2, <2>3, <2>4 DEF Wanted, Start
<1>7. column[r] \in 1 .. 6 /\ got'[r][column[r]] = <<>>
      /\ \A c \in 1 .. 6 : c # column[r] => got'[r][c] = got[r][c]
  BY <1>1, <1>2 DEF Local
<1>8. Reading(r)'
  <2>1. Stretch(r, 0)' = <<>>
    BY DEF Stretch
  <2>2. Wanted(r)' - left'[r] = 0 /\ left'[r] \in Nat \ {0}
    BY <1>1, <1>6
  <2>3. got'[r][column'[r]] = Stretch(r, 0)'
    BY <1>1, <1>7, <2>1
  <2> QED
    BY <1>1, <1>6, <2>2, <2>3 DEF Reading
<1>9. Fresh(r) => \A c \in 1 .. 6 : got'[r][c] = <<>>
  BY <1>7 DEF Fresh
<1>10. ASSUME Loaded(r)
       PROVE  slicepos'[r] = slicepos[r] /\ slicelen'[r] = slicelen[r] /\ Slice(r)' = Slice(r)
  <2>1. slicepos'[r] = slicepos[r] /\ slicelen'[r] = slicelen[r]
    BY <1>1, <1>10 DEF Loaded, Sliced
  <2> QED
    BY <2>1 DEF Slice
<1>11. mode' # "distread" => \A c \in Finished(r)' : got'[r][c] = Stretch(r, batchsize)'
  <2> SUFFICES ASSUME mode # "distread", NEW c \in 1 .. 6, c < column[r]
               PROVE  got'[r][c] = Stretch(r, batchsize)'
    BY <1>1 DEF Finished
  <2>1. Loaded(r) /\ column[r] # 1
    BY <1>2 DEF Fresh, Local
  <2>2. got[r][c] = Stretch(r, batchsize)
    BY <1>1, <2>1 DEF Loaded, Finished
  <2>3. batchpos'[r] = batchpos[r]
    BY <1>1, <2>1 DEF BatchPosition
  <2>4. Start(r)' = Start(r)
    BY <1>1, <2>3 DEF Start
  <2>5. Stretch(r, batchsize)' = Stretch(r, batchsize)
    BY <1>1, <1>10, <2>1, <2>4 DEF Stretch
  <2>6. got'[r][c] = got[r][c]
    BY <1>2, <1>7 DEF Local
  <2> QED
    BY <2>2, <2>5, <2>6
<1>12. mode' = "distread" => column'[r] = 1
  BY <1>1, <1>2 DEF Fresh, Loaded
<1>13. mode' # "unshuffled" => \A c \in 1 .. 6 : (ToSet(got[r][c]) \subseteq Slice(r))'
  <2> SUFFICES ASSUME mode # "unshuffled", NEW c \in 1 .. 6
               PROVE  ToSet(got'[r][c]) \subseteq Slice(r)'
    BY <1>1 DEF ToSet
  <2>1. ToSet(<<>>) = {}
    BY DEF ToSet
  <2>2. CASE got'[r][c] = <<>>
    BY <2>1, <2>2
  <2>3. CASE got'[r][c] # <<>>
    <3>1. Loaded(r) /\ got'[r][c] = got[r][c]
      BY <1>2, <1>7, <1>9, <2>3
    <3> QED
      BY <1>10, <3>1 DEF Loaded
  <2> QED
    BY <2>2, <2>3
<1> QED
  BY <1>3, <1>4, <1>8, <1>11, <1>12, <1>13 DEF Loaded

\* A column that is refused: the rank leaves with an exception, and keeps what it has.
LEMMA RefusedState ==
  ASSUME ReaderInv, NEW r \in Ranks, StartColumn(r), Refused(r)
  PROVE  Local(r)' /\ (Fresh(r)' \/ Loaded(r)')
<1>1. /\ UNCHANGED <<file, mode, batchsize, draws, column, batch, datalen, slicepos, slicelen,
                     batchpos, got>>
      /\ pc'[r] = "threw" /\ pc[r] = "load"
  BY DEF StartColumn, ReaderInv, Functional
<1>2. Local(r) /\ (Fresh(r) \/ Loaded(r))
  BY DEF ReaderInv
<1>3. Local(r)'
  BY <1>1, <1>2 DEF Local
<1>4. CASE Fresh(r)
  <2>1. Fresh(r)'
    BY <1>1, <1>4 DEF Fresh
  <2> QED
    BY <1>3, <2>1
<1>5. CASE Loaded(r)
  <2>1. Sliced(r)'
    BY <1>1, <1>5 DEF Loaded, Sliced
  <2>2. Start(r)' = Start(r) /\ Slice(r)' = Slice(r) /\ Finished(r)' = Finished(r)
    BY <1>1 DEF Start, Slice, Finished
  <2>3. \A n : Stretch(r, n)' = Stretch(r, n)
    BY <1>1, <2>2 DEF Stretch
  <2>4. Loaded(r)'
    BY <1>1, <1>5, <2>1, <2>2, <2>3 DEF Loaded
  <2> QED
    BY <1>3, <2>4
<1> QED
  BY <1>2, <1>4, <1>5

(***************************************************************************)
(* The invariant holds after a transfer.                                   *)
(***************************************************************************)

\* While all ranks read, what a transfer of one of them works with.
LEMMA ReadingNow ==
  ASSUME ReaderInv, NEW r \in Ranks, pc[r] = "read"
  PROVE  /\ Given /\ Local(r) /\ Loaded(r) /\ Sliced(r) /\ Reading(r)
         /\ DOMAIN got[r] = 1 .. 6 /\ column[r] \in 1 .. 6
         /\ left[r] \in Nat /\ left[r] > 0 /\ pos[r] \in Nat
         /\ pos[r] < slicepos[r] + slicelen[r]
         /\ Transfer(r) \in Nat /\ Transfer(r) > 0 /\ Transfer(r) <= left[r]
         /\ Transfer(r) <= slicepos[r] + slicelen[r] - pos[r]
         /\ Transfer(r) < left[r] => Transfer(r) = slicepos[r] + slicelen[r] - pos[r]
<1>1. Given /\ Local(r) /\ Loaded(r) /\ DOMAIN got[r] = 1 .. 6
  BY DEF ReaderInv, Functional, Fresh
<1>2. Sliced(r) /\ Reading(r)
  BY <1>1 DEF Loaded
<1>3. column[r] \in 1 .. 6 /\ left[r] \in Nat /\ left[r] > 0 /\ pos[r] \in Nat
  BY <1>1, <1>2 DEF Reading, Local
<1>4. /\ slicepos[r] \in Nat /\ slicelen[r] \in Nat /\ slicelen[r] > 0
      /\ Start(r) < slicepos[r] + slicelen[r]
  BY <1>1, <1>2, SlicedTypes
<1>5. pos[r] = Start(r) \/ pos[r] = slicepos[r]
  BY <1>2 DEF Reading
<1>6. pos[r] < slicepos[r] + slicelen[r]
  BY <1>4, <1>5
<1>7. /\ Transfer(r) \in Nat /\ Transfer(r) > 0 /\ Transfer(r) <= left[r]
      /\ Transfer(r) <= slicepos[r] + slicelen[r] - pos[r]
      /\ Transfer(r) < left[r] => Transfer(r) = slicepos[r] + slicelen[r] - pos[r]
  BY <1>3, <1>4, <1>6 DEF Transfer, Least
<1> QED
  BY <1>1, <1>2, <1>3, <1>6, <1>7

\* A transfer continues the stretch.
LEMMA TransferContinues ==
  ASSUME ReaderInv, NEW r \in Ranks, pc[r] = "read"
  PROVE  got[r][column[r]] \o [e \in 1 .. Transfer(r) |-> pos[r] + e - 1]
           = Stretch(r, Wanted(r) - left[r] + Transfer(r))
<1> DEFINE n == Wanted(r) - left[r]
           t == Transfer(r)
           p == Start(r)
           s == slicepos[r]
           l == slicelen[r]
           f == Stretch(r, n)
           g == [e \in 1 .. t |-> pos[r] + e - 1]
           h == Stretch(r, n + t)
<1>1. /\ Given /\ Sliced(r) /\ Reading(r) /\ pos[r] \in Nat
      /\ t \in Nat /\ t > 0 /\ t <= s + l - pos[r]
  BY ReadingNow
<1>2. /\ s \in Nat /\ l \in Nat /\ l > 0 /\ p \in Nat
  BY <1>1, SlicedTypes
<1>3. /\ n \in Nat /\ got[r][column[r]] = f
      /\ \/ n = 0 /\ pos[r] = p
         \/ pos[r] = s /\ EndOfRound(p, s, l, n)
  BY <1>1 DEF Reading
<1>4. f \in Seq(Nat) /\ Len(f) = n /\ h \in Seq(Nat) /\ Len(h) = n + t
  <2>1. n \in Nat /\ n + t \in Nat
    BY <1>1, <1>3
  <2> HIDE DEF n, t
  <2> QED
    BY <1>1, <2>1, StretchInSlice
<1>5. g \in Seq(Nat) /\ Len(g) = t /\ \A e \in 1 .. t : g[e] = pos[r] + e - 1
  BY <1>1
<1>6. /\ \A e \in 1 .. n : f[e] = Entry(p, s, l, e)
      /\ \A e \in 1 .. n + t : h[e] = Entry(p, s, l, e)
  BY DEF Stretch
<1> HIDE DEF n, t, p, s, l, f, g, h
<1>7. \A e \in 1 .. n : h[e] = f[e]
  BY <1>1, <1>3, <1>6
<1>8. ASSUME NEW e \in 1 .. t
      PROVE  h[n + e] = g[e]
  <2>1. h[n + e] = Entry(p, s, l, n + e)
    BY <1>1, <1>3, <1>6
  <2>2. g[e] = pos[r] + e - 1
    BY <1>5
  <2>3. CASE n = 0 /\ pos[r] = p
    <3>1. p + e - 1 < s + l
      BY <1>1, <1>2, <2>3
    <3>2. Entry(p, s, l, e) = p + e - 1
      BY <1>2, <3>1, EntryFirstRound
    <3> QED
      BY <2>1, <2>2, <2>3, <3>2
  <2>4. CASE pos[r] = s /\ EndOfRound(p, s, l, n)
    <3>1. e \in Nat /\ 0 < e /\ e <= l
      BY <1>1, <1>2, <2>4
    <3>2. Entry(p, s, l, n + e) = s + e - 1
      <4>1. PICK m \in Nat : p + n = s + l + m * l
        BY <2>4 DEF EndOfRound
      <4> DEFINE ml == m * l
      <4>2. ml \in Nat /\ p + n = s + l + ml
        BY <1>2, <4>1
      <4>3. (ml + (e - 1)) % l = e - 1
        BY <1>2, <3>1, Remainder
      <4> HIDE DEF ml
      <4>4. ~(p + (n + e) - 1 < s + l) /\ p + (n + e) - 1 - (s + l) = ml + (e - 1)
        BY <1>2, <1>3, <3>1, <4>2
      <4> QED
        BY <1>2, <3>1, <4>3, <4>4 DEF Entry
    <3> QED
      BY <2>1, <2>2, <2>4, <3>2
  <2> QED
    BY <1>3, <2>3, <2>4
<1>9. f \o g = h
  <2>1. Len(h) = Len(f) + Len(g)
    BY <1>4, <1>5
  <2>2. \A e \in 1 .. Len(f) : h[e] = f[e]
    BY <1>4, <1>7
  <2>3. \A e \in 1 .. Len(g) : h[Len(f) + e] = g[e]
    BY <1>4, <1>5, <1>8
  <2>4. f \in Seq(Nat) /\ g \in Seq(Nat) /\ h \in Seq(Nat)
    BY <1>4, <1>5
  <2> QED
    BY <2>1, <2>2, <2>3, <2>4, Continued
<1> QED
  BY <1>3, <1>9 DEF g, h, n, t

\* What a transfer changes of one rank.
LEMMA ReadState ==
  ASSUME ReaderInv, Read, NEW r \in Ranks
  PROVE  /\ UNCHANGED <<file, mode, batchsize, draws, datalen, slicepos, slicelen, batchpos>>
         /\ pc[r] = "read" /\ pos'[r] = slicepos[r] /\ left'[r] = left[r] - Transfer(r)
         /\ got'[r][column[r]] = Stretch(r, Wanted(r) - left[r] + Transfer(r))
         /\ \A c \in 1 .. 6 : c # column[r] => got'[r][c] = got[r][c]
         /\ pc'[r] = IF left'[r] > 0 THEN "read"
                     ELSE IF LastColumn(r) /\ (mode = "distread" \/ batch[r] = Batches)
                     THEN "done" ELSE "load"
         /\ column'[r] = IF left'[r] > 0 THEN column[r]
                         ELSE IF LastColumn(r) THEN 1 ELSE column[r] + 1
         /\ batch'[r] = IF pc'[r] = "load" /\ LastColumn(r) THEN batch[r] + 1 ELSE batch[r]
<1>1. /\ UNCHANGED <<file, mode, batchsize, draws, datalen, slicepos, slicelen, batchpos>>
      /\ pc[r] = "read" /\ pos'[r] = slicepos[r] /\ left'[r] = left[r] - Transfer(r)
  BY DEF Read
<1>2. /\ pc'[r] = IF left'[r] > 0 THEN "read"
                  ELSE IF LastColumn(r) /\ (mode = "distread" \/ batch[r] = Batches)
                  THEN "done" ELSE "load"
      /\ column'[r] = IF left'[r] > 0 THEN column[r]
                      ELSE IF LastColumn(r) THEN 1 ELSE column[r] + 1
      /\ batch'[r] = IF pc'[r] = "load" /\ LastColumn(r) THEN batch[r] + 1 ELSE batch[r]
  BY Zenon DEF Read
<1>3. DOMAIN got[r] = 1 .. 6 /\ column[r] \in 1 .. 6
  BY <1>1, ReadingNow
<1> DEFINE new == got[r][column[r]] \o [e \in 1 .. Transfer(r) |-> pos[r] + e - 1]
<1>4. got'[r] = [got[r] EXCEPT ![column[r]] = new]
  BY DEF Read
<1>5. new = Stretch(r, Wanted(r) - left[r] + Transfer(r))
  BY <1>1, TransferContinues
<1> HIDE DEF new
<1>6. got'[r][column[r]] = new /\ \A c \in 1 .. 6 : c # column[r] => got'[r][c] = got[r][c]
  BY <1>3, <1>4
<1> QED
  BY <1>1, <1>2, <1>5, <1>6

\* The transfer leaves the slice and what was read of other columns alone.
LEMMA ReadLoaded ==
  ASSUME ReaderInv, Read, NEW r \in Ranks
  PROVE  Local(r)' /\ Loaded(r)'
<1> DEFINE t == Transfer(r)
           n == Wanted(r) - left[r] + t
<1>1. /\ UNCHANGED <<file, mode, batchsize, draws, datalen, slicepos, slicelen, batchpos>>
      /\ pc[r] = "read" /\ pos'[r] = slicepos[r] /\ left'[r] = left[r] - t
      /\ got'[r][column[r]] = Stretch(r, n)
      /\ \A c \in 1 .. 6 : c # column[r] => got'[r][c] = got[r][c]
  BY ReadState
<1>2. /\ pc'[r] = IF left'[r] > 0 THEN "read"
                  ELSE IF LastColumn(r) /\ (mode = "distread" \/ batch[r] = Batches)
                  THEN "done" ELSE "load"
      /\ column'[r] = IF left'[r] > 0 THEN column[r]
                      ELSE IF LastColumn(r) THEN 1 ELSE column[r] + 1
      /\ batch'[r] = IF pc'[r] = "load" /\ LastColumn(r) THEN batch[r] + 1 ELSE batch[r]
  BY ReadState
<1>3. /\ Given /\ Local(r) /\ Loaded(r) /\ Sliced(r) /\ Reading(r)
      /\ column[r] \in 1 .. 6 /\ left[r] \in Nat /\ left[r] > 0 /\ pos[r] \in Nat
      /\ t \in Nat /\ t > 0 /\ t <= left[r]
      /\ t < left[r] => t = slicepos[r] + slicelen[r] - pos[r]
  BY <1>1, ReadingNow
<1>4. /\ slicepos[r] \in Nat /\ slicelen[r] \in Nat /\ slicelen[r] > 0
      /\ Wanted(r) \in Nat /\ Start(r) \in Nat /\ batchsize \in Nat
  BY <1>3, SlicedTypes
<1>5. Wanted(r) - left[r] \in Nat
  BY <1>3 DEF Reading
<1>6. n \in Nat /\ left'[r] \in Nat /\ Wanted(r) - left'[r] = n
  BY <1>1, <1>3, <1>4, <1>5
<1>7. LastColumn(r) <=> mode = "distread" \/ column[r] = 6
  BY <1>3, ColumnsAre DEF LastColumn
<1>8. Local(r)'
  <2>1. column'[r] \in 1 .. 6
    BY <1>2, <1>3, <1>7
  <2>2. pc'[r] \in {"load", "read", "done", "threw"}
    BY <1>2
  <2>3. pc'[r] = "load" /\ LastColumn(r) => batch[r] # Batches
    BY <1>2
  <2>4. batch'[r] \in 1 .. Batches
    BY <1>2, <1>3, <2>3, BatchesAssumption DEF Local
  <2> QED
    BY <2>1, <2>2, <2>4 DEF Local
<1>9. /\ Sliced(r)' /\ Start(r)' = Start(r) /\ Wanted(r)' = Wanted(r) /\ Slice(r)' = Slice(r)
      /\ \A d : Stretch(r, d)' = Stretch(r, d)
  <2>1. Sliced(r)'
    BY <1>1, <1>3 DEF Sliced
  <2>2. Start(r)' = Start(r) /\ Wanted(r)' = Wanted(r) /\ Slice(r)' = Slice(r)
    BY <1>1 DEF Start, Wanted, Slice
  <2> QED
    BY <1>1, <2>1, <2>2 DEF Stretch
<1> HIDE DEF t, n
<1>10. pc'[r] = "read" => Reading(r)'
  <2> SUFFICES ASSUME left'[r] > 0
               PROVE  Reading(r)'
    BY <1>2
  <2>1. t = slicepos[r] + slicelen[r] - pos[r]
    BY <1>1, <1>3
  <2>2. EndOfRound(Start(r), slicepos[r], slicelen[r], n)
    <3>1. CASE Wanted(r) - left[r] = 0 /\ pos[r] = Start(r)
      <4>1. n = t
        BY <1>3, <3>1 DEF n
      <4>2. Start(r) + n = slicepos[r] + slicelen[r]
        BY <1>3, <1>4, <2>1, <3>1, <4>1
      <4>3. 0 * slicelen[r] = 0
        BY <1>4
      <4>4. Start(r) + n = slicepos[r] + slicelen[r] + 0 * slicelen[r]
        BY <1>4, <4>2, <4>3
      <4> QED
        BY <4>4 DEF EndOfRound
    <3>2. CASE pos[r] = slicepos[r]
               /\ EndOfRound(Start(r), slicepos[r], slicelen[r], Wanted(r) - left[r])
      <4>1. PICK m \in Nat :
              Start(r) + (Wanted(r) - left[r]) = slicepos[r] + slicelen[r] + m * slicelen[r]
        BY <3>2 DEF EndOfRound
      <4>2. (m + 1) * slicelen[r] = m * slicelen[r] + slicelen[r] /\ m * slicelen[r] \in Nat
        BY <1>4
      <4> DEFINE ml == m * slicelen[r]
                 ml1 == (m + 1) * slicelen[r]
      <4>3. /\ Start(r) + (Wanted(r) - left[r]) = slicepos[r] + slicelen[r] + ml
            /\ ml1 = ml + slicelen[r] /\ ml \in Nat
        BY <4>1, <4>2
      <4> HIDE DEF ml, ml1
      <4>4. Start(r) + n = slicepos[r] + slicelen[r] + ml1
        BY <1>3, <1>4, <2>1, <3>2, <4>3 DEF n
      <4>5. m + 1 \in Nat
        OBVIOUS
      <4> QED
        BY <4>4, <4>5 DEF EndOfRound, ml1
    <3> QED
      BY <1>3, <3>1, <3>2 DEF Reading
  <2>3. Wanted(r)' - left'[r] = n
    BY <1>6, <1>9
  <2>4. got'[r][column'[r]]
          = [e \in 1 .. Wanted(r)' - left'[r] |-> Entry(Start(r)', slicepos'[r], slicelen'[r], e)]
    <3>1. Stretch(r, n) = [e \in 1 .. n |-> Entry(Start(r), slicepos[r], slicelen[r], e)]
      BY DEF Stretch
    <3>2. got'[r][column'[r]] = Stretch(r, n)
      BY <1>1, <1>2
    <3> QED
      BY <1>1, <1>9, <2>3, <3>1, <3>2
  <2>5. EndOfRound(Start(r)', slicepos'[r], slicelen'[r], Wanted(r)' - left'[r])
    BY <1>1, <1>9, <2>2, <2>3
  <2> QED
    BY <1>1, <1>4, <1>6, <1>9, <2>3, <2>4, <2>5 DEF Reading, Stretch
<1>11. mode' # "distread" => \A c \in Finished(r)' : got'[r][c] = Stretch(r, batchsize)'
  <2> SUFFICES ASSUME mode # "distread", NEW c \in Finished(r)'
               PROVE  got'[r][c] = Stretch(r, batchsize)
    BY <1>1, <1>9
  <2>1. c \in 1 .. 6 /\ (c < column[r] \/ (c = column[r] /\ left'[r] = 0))
    BY <1>2, <1>3, <1>6, <1>7 DEF Finished
  <2>2. CASE c < column[r]
    <3>1. c \in Finished(r) /\ c # column[r]
      BY <1>1, <1>3, <2>1, <2>2 DEF Finished
    <3> QED
      BY <1>1, <1>3, <2>1, <3>1 DEF Loaded
  <2>3. CASE c = column[r] /\ left'[r] = 0
    <3>1. n = batchsize
      BY <1>4, <1>6, <2>3 DEF Wanted
    <3> QED
      BY <1>1, <2>3, <3>1
  <2> QED
    BY <2>1, <2>2, <2>3
<1>12. mode' = "distread" => column'[r] = 1
  BY <1>1, <1>2, <1>3, <1>7 DEF Loaded
<1>13. mode' # "unshuffled" => \A c \in 1 .. 6 : (ToSet(got[r][c]) \subseteq Slice(r))'
  <2> SUFFICES ASSUME mode # "unshuffled", NEW c \in 1 .. 6
               PROVE  ToSet(got'[r][c]) \subseteq Slice(r)
    BY <1>1, <1>9 DEF ToSet
  <2>1. CASE c = column[r]
    <3>1. ToSet(Stretch(r, n)) \subseteq Slice(r)
      BY <1>3, <1>6, StretchInSlice
    <3> QED
      BY <1>1, <2>1, <3>1
  <2>2. CASE c # column[r]
    BY <1>1, <1>3, <2>2 DEF Loaded
  <2> QED
    BY <2>1, <2>2
<1> QED
  BY <1>8, <1>9, <1>10, <1>11, <1>12, <1>13 DEF Loaded

LEMMA ReaderInvNext == ReaderInv /\ [Next]_vars => ReaderInv'
<1> SUFFICES ASSUME ReaderInv, [Next]_vars PROVE ReaderInv'
  OBVIOUS
<1>1. CASE Read
  <2>1. Given'
    BY <1>1 DEF Read, ReaderInv, Given
  <2>2. Functional'
    <3>1. Functional
      BY DEF ReaderInv
    <3>2. \A r \in Ranks : DOMAIN got'[r] = 1 .. 6
      BY <1>1, <3>1 DEF Read, Functional
    <3> QED
      BY <1>1, <3>1, <3>2 DEF Read, Functional
  <2>3. \A r \in Ranks : Local(r)' /\ Loaded(r)'
    BY <1>1, ReadLoaded
  <2> QED
    BY <2>1, <2>2, <2>3 DEF ReaderInv
<1>2. ASSUME NEW r \in Ranks, StartColumn(r)
      PROVE  ReaderInv'
  <2>1. Given'
    BY <1>2 DEF StartColumn, ReaderInv, Given
  <2>2. Functional'
    <3>1. Functional
      BY DEF ReaderInv
    <3>2. DOMAIN got' = Ranks /\ \A q \in Ranks : DOMAIN got'[q] = 1 .. 6
      BY <1>2, <3>1 DEF StartColumn, Functional
    <3> QED
      BY <1>2, <3>1, <3>2 DEF StartColumn, Functional
  <2>3. Local(r)' /\ (Fresh(r)' \/ Loaded(r)')
    BY <1>2, OpenedLoaded, RefusedState
  <2>4. ASSUME NEW q \in Ranks, q # r
        PROVE  Local(q)' /\ (Fresh(q)' \/ Loaded(q)')
    <3>1. /\ UNCHANGED <<file, mode, batchsize, draws, column, batch>>
          /\ datalen'[q] = datalen[q] /\ slicepos'[q] = slicepos[q]
          /\ slicelen'[q] = slicelen[q] /\ batchpos'[q] = batchpos[q]
          /\ pos'[q] = pos[q] /\ left'[q] = left[q] /\ got'[q] = got[q] /\ pc'[q] = pc[q]
      BY <1>2, <2>4 DEF StartColumn, ReaderInv, Functional
    <3>2. Local(q) /\ (Fresh(q) \/ Loaded(q))
      BY DEF ReaderInv
    <3> QED
      BY <3>1, <3>2, Untouched
  <2> QED
    BY <2>1, <2>2, <2>3, <2>4 DEF ReaderInv
<1>3. CASE UNCHANGED vars
  <2>1. Given' /\ Functional'
    BY <1>3 DEF vars, ReaderInv, Given, Functional
  <2>2. ASSUME NEW r \in Ranks
        PROVE  Local(r)' /\ (Fresh(r)' \/ Loaded(r)')
    <3>1. Local(r) /\ (Fresh(r) \/ Loaded(r))
      BY DEF ReaderInv
    <3> QED
      BY <1>3, <3>1, Untouched DEF vars
  <2> QED
    BY <2>1, <2>2 DEF ReaderInv
<1> QED
  BY <1>1, <1>2, <1>3 DEF Next

\* Whatever the ranks have read so far, it is a stretch of entries of their slices.
THEOREM ReaderInvAlways == Spec => []ReaderInv
  BY ReaderInvInit, ReaderInvNext, PTL DEF Spec

(***************************************************************************)
(* The properties.                                                         *)
(***************************************************************************)

LEMMA SlicesApart ==
  ASSUME Given, NEW r \in Ranks, NEW q \in Ranks, r < q, Sliced(r), Sliced(q)
  PROVE  Slice(r) \cap Slice(q) = {}
<1>1. /\ slicepos[r] \in Nat /\ slicelen[r] \in Nat /\ slicepos[q] \in Nat /\ slicelen[q] \in Nat
      /\ file.len \in Nat /\ file.len >= Size
  BY SlicedTypes
<1>2. r * (file.len \div Size) + SliceLength(r, file.len) <= q * (file.len \div Size)
  BY <1>1, SliceFacts
<1>3. slicepos[r] + slicelen[r] <= slicepos[q]
  BY <1>2 DEF Sliced
<1> QED
  BY <1>1, <1>3 DEF Slice

LEMMA InvReadsFromSlice == ReaderInv /\ mode # "unshuffled" => ReadsFromSlice
<1> SUFFICES ASSUME ReaderInv, mode # "unshuffled", NEW r \in Ranks, NEW c \in 1 .. 6
             PROVE  /\ ToSet(got[r][c]) \subseteq Slice(r)
                    /\ \A q \in Ranks \ {r} : ToSet(got[r][c]) \cap ToSet(got[q][c]) = {}
  BY ColumnsAre DEF ReadsFromSlice, ReaderInv
<1>1. Given /\ \A q \in Ranks : Fresh(q) \/ Loaded(q)
  BY DEF ReaderInv
<1>2. \A q \in Ranks : ToSet(got[q][c]) = {} \/ (Sliced(q) /\ ToSet(got[q][c]) \subseteq Slice(q))
  <2>1. ToSet(<<>>) = {}
    BY DEF ToSet
  <2> QED
    BY <1>1, <2>1 DEF Fresh, Loaded
<1>3. ASSUME NEW q \in Ranks \ {r}
      PROVE  ToSet(got[r][c]) \cap ToSet(got[q][c]) = {}
  <2>1. CASE ToSet(got[r][c]) = {} \/ ToSet(got[q][c]) = {}
    BY <2>1
  <2>2. CASE Sliced(r) /\ Sliced(q)
    <3>1. r < q \/ q < r
      BY <1>3 DEF Ranks
    <3>2. Slice(r) \cap Slice(q) = {}
      BY <1>1, <2>2, <3>1, SlicesApart
    <3> QED
      BY <1>2, <3>2
  <2> QED
    BY <1>2, <2>1, <2>2
<1> QED
  BY <1>2, <1>3

LEMMA InvColumnsAligned == ReaderInv => ColumnsAligned
<1> SUFFICES ASSUME ReaderInv, NEW r \in Ranks, mode # "distread",
                    NEW c \in (IF pc[r] = "done" THEN DOMAIN Columns
                               ELSE {d \in DOMAIN Columns : d < column[r]})
             PROVE  /\ got[r][c] = got[r][1] /\ Len(got[r][c]) = batchsize
                    /\ batchsize <= slicelen[r] => IsInjective(got[r][c])
  BY DEF ColumnsAligned
<1>1. Given /\ Local(r) /\ (Fresh(r) \/ Loaded(r))
  BY DEF ReaderInv
<1>2. c \in Finished(r)
  BY <1>1, ColumnsAre DEF Finished
<1>3. Loaded(r) /\ Sliced(r)
  BY <1>1, <1>2 DEF Fresh, Finished, Loaded
<1>4. 1 \in Finished(r)
  BY <1>1, <1>2 DEF Finished, Local
<1>5. got[r][c] = Stretch(r, batchsize) /\ got[r][1] = Stretch(r, batchsize)
  BY <1>2, <1>3, <1>4 DEF Loaded
<1> DEFINE p == Start(r)
           s == slicepos[r]
           l == slicelen[r]
<1>6. /\ s \in Nat /\ l \in Nat /\ l > 0 /\ p \in Nat /\ p < s + l /\ batchsize \in Nat
  BY <1>1, <1>3, SlicedTypes
<1>7. Len(got[r][c]) = batchsize
  BY <1>1, <1>3, <1>5, <1>6, StretchInSlice
<1>8. got[r][c] = [e \in 1 .. batchsize |-> Entry(p, s, l, e)]
  BY <1>5 DEF Stretch
<1> HIDE DEF p, s, l
<1>9. ASSUME batchsize <= l
      PROVE  IsInjective(got[r][c])
  <2>1. \A d, j \in 1 .. batchsize : Entry(p, s, l, d) = Entry(p, s, l, j) => d = j
    <3>1. 1 .. batchsize \subseteq 1 .. l
      BY <1>6, <1>9
    <3> QED
      BY <1>6, <3>1, EntriesDiffer
  <2> QED
    BY <1>8, <2>1 DEF IsInjective
<1> QED
  BY <1>5, <1>7, <1>9 DEF l

\* What a rank reads lies in its own slice and no two ranks read the same entry, for every
\* number of ranks and every length of the data set, if a position is drawn with the first
\* column of every batch, as stochread_visibility does (h5reader.h:211).
THEOREM RanksReadTheirSlices ==
  ASSUME FALSE \notin Shuffles
  PROVE  Spec => []ReadsFromSlice
<1>1. Init => mode # "unshuffled"
  <2> SUFFICES ASSUME Init PROVE mode # "unshuffled"
    OBVIOUS
  <2>1. \A b \in Shuffles : b = TRUE
    BY ShufflesAssumption
  <2>2. mode = "distread" \/ \E b \in Shuffles : mode = IF b THEN "shuffled" ELSE "unshuffled"
    BY DEF Init
  <2> QED
    BY <2>1, <2>2
<1>2. mode # "unshuffled" /\ [Next]_vars => (mode # "unshuffled")'
  BY DEF Next, Read, StartColumn, vars
<1> QED
  BY <1>1, <1>2, ReaderInvAlways, InvReadsFromSlice, PTL DEF Spec

\* The columns of a batch are of the same visibilities in the same order, although every
\* column is read by calls of its own, and as many as asked for; none comes twice unless
\* the batch is longer than the slice (stochread, h5reader.h:94).
THEOREM ColumnsOfABatchAgree == Spec => []ColumnsAligned
  BY ReaderInvAlways, InvColumnsAligned, PTL
-----------------------------------------------------------------------------
(***************************************************************************)
(* ProgramInput: every section of the parser sets the members of its keys, *)
(* and only a parser that has been through all sections is done.           *)
(***************************************************************************)

\* The names of a set of keys.
NamesOf(keys) == {key[2] : key \in keys}

GeneralNames ==
  NamesOf(GeneralKeys) \union NamesOf(SourceKeys) \union {"measurements", "units"}
    \union (IF Source = "measurements" THEN {"w_term"} ELSE {})
WaveletNames == NamesOf(WaveletKeys) \union {"wavelet_basis"}
AlgorithmNames == NamesOf(AlgorithmKeys) \union NamesOf(FunctionKeys) \union {"algorithm"}

\* Where the parser is once a section has been read.
PastVersion == {"parsed"}
PastAlgorithm == PastVersion \union {"Version"}
PastWavelets == PastAlgorithm \union {"AlgorithmOptions"}
PastOperators == PastWavelets \union {"SARA", "wavelets"}
PastGeneral == PastOperators \union {"MeasureOperators"}

\* The inductive invariant: the sections that were read have set their members, and the
\* source and the algorithm are among those the parser knows.
MembersInv ==
  /\ section \in PastGeneral => Source \in {"measurements", "simulation"} /\ GeneralNames \subseteq members
  /\ section \in PastOperators => NamesOf(OperatorKeys) \subseteq members
  /\ section \in PastWavelets => WaveletNames \subseteq members
  /\ section \in PastAlgorithm => Algorithm \in Algorithms /\ AlgorithmNames \subseteq members
  /\ section \in PastVersion => "version" \in members

\* The names of a block's keys are the names it was given.
LEMMA NamesOfNames ==
  ASSUME NEW block, NEW set
  PROVE  NamesOf(Names(block, set)) = set
<1>1. \A n \in set : <<block, n>> \in Names(block, set) /\ <<block, n>>[2] = n
  BY DEF Names
<1>2. \A key \in Names(block, set) : key[2] \in set
  BY DEF Names
<1> QED
  BY <1>1, <1>2 DEF NamesOf

\* The names of two sets of keys.
LEMMA NamesOfUnion ==
  ASSUME NEW S, NEW T
  PROVE  NamesOf(S \union T) = NamesOf(S) \union NamesOf(T)
BY DEF NamesOf

\* Setting members keeps those that are set.
LEMMA MembersGrow ==
  ASSUME NEW keys, NEW next, SetMembers(keys, next)
  PROVE  members \subseteq members' /\ NamesOf(keys) \subseteq members' /\ section' = next
BY DEF SetMembers, NamesOf

\* What the sections speak of depends on the file alone.
LEMMA SameConfiguration ==
  ASSUME config' = config
  PROVE  /\ Source' = Source /\ Algorithm' = Algorithm /\ GeneralNames' = GeneralNames
         /\ NamesOf(OperatorKeys)' = NamesOf(OperatorKeys)
         /\ WaveletNames' = WaveletNames /\ AlgorithmNames' = AlgorithmNames
<1>1. \A key : Value(key)' = Value(key)
  BY DEF Value
<1>2. Source' = Source /\ Algorithm' = Algorithm
  BY DEF Source, Algorithm, Value
<1>3. SourceKeys' = SourceKeys /\ GeneralKeys' = GeneralKeys /\ OperatorKeys' = OperatorKeys
      /\ WaveletKeys' = WaveletKeys
  BY <1>2 DEF SourceKeys, GeneralKeys, OperatorKeys, WaveletKeys
<1>4. AlgorithmKeys' = AlgorithmKeys
  BY <1>2 DEF AlgorithmKeys
<1>5. FunctionKeys' = FunctionKeys
  BY <1>2 DEF FunctionKeys, AlgorithmBlock, Value
<1> QED
  BY <1>2, <1>3, <1>4, <1>5 DEF GeneralNames, WaveletNames, AlgorithmNames, NamesOf

\* A step that reads no section keeps what has been set.
LEMMA MembersKept ==
  ASSUME MembersInv, config' = config, members' = members,
         section' \in {section, "failed"} \/ (section = "SARA" /\ section' = "wavelets")
  PROVE  MembersInv'
<1>1. section' = section \/ section' = "failed" \/ (section = "SARA" /\ section' = "wavelets")
  OBVIOUS
<1>2. CASE section' = "failed"
  BY <1>2 DEF MembersInv, PastGeneral, PastOperators, PastWavelets, PastAlgorithm, PastVersion
<1>3. CASE section' = section \/ (section = "SARA" /\ section' = "wavelets")
  <2>1. /\ section' \in PastGeneral => section \in PastGeneral
        /\ section' \in PastOperators => section \in PastOperators
        /\ section' \in PastWavelets => section \in PastWavelets
        /\ section' \in PastAlgorithm => section \in PastAlgorithm
        /\ section' \in PastVersion => section \in PastVersion
    BY <1>3 DEF PastGeneral, PastOperators, PastWavelets, PastAlgorithm, PastVersion
  <2> QED
    BY <2>1, SameConfiguration DEF MembersInv
<1> QED
  BY <1>1, <1>2, <1>3

LEMMA GeneralKeepsMembers ==
  ASSUME MembersInv, parseAndSetGeneralConfiguration
  PROVE  MembersInv'
<1> DEFINE input_keys == Names("input", {"measurements", "units"})
           w_keys == IF Source = "measurements" THEN Names("input", {"w_term"}) ELSE {}
           keys == GeneralKeys \union SourceKeys \union input_keys \union w_keys
<1>1. config' = config
  BY DEF parseAndSetGeneralConfiguration
<1>2. CASE PolarizationUnknown \/ SourceRefused
  <2>1. section' = "failed"
    BY <1>2 DEF parseAndSetGeneralConfiguration, Fail
  <2> QED
    BY <2>1 DEF MembersInv, PastGeneral, PastOperators, PastWavelets, PastAlgorithm, PastVersion
<1>3. CASE ~PolarizationUnknown /\ ~SourceRefused
  <2>1. SetMembers(keys, "MeasureOperators")
    BY <1>3 DEF parseAndSetGeneralConfiguration
  <2>2. Source \in {"measurements", "simulation"}
    BY <1>3 DEF SourceRefused
  <2>3. NamesOf(input_keys) = {"measurements", "units"}
    BY NamesOfNames
  <2>4. NamesOf(w_keys) = IF Source = "measurements" THEN {"w_term"} ELSE {}
    <3>1. CASE Source = "measurements"
      BY <3>1, NamesOfNames
    <3>2. CASE Source # "measurements"
      BY <3>2 DEF NamesOf
    <3> QED
      BY <3>1, <3>2
  <2> HIDE DEF input_keys, w_keys
  <2>5. NamesOf(keys) = GeneralNames
    <3>1. NamesOf(keys) = NamesOf(GeneralKeys \union SourceKeys \union input_keys) \union NamesOf(w_keys)
      BY NamesOfUnion
    <3>2. NamesOf(GeneralKeys \union SourceKeys \union input_keys) =
            NamesOf(GeneralKeys \union SourceKeys) \union NamesOf(input_keys)
      BY NamesOfUnion
    <3>3. NamesOf(GeneralKeys \union SourceKeys) = NamesOf(GeneralKeys) \union NamesOf(SourceKeys)
      BY NamesOfUnion
    <3> QED
      BY <2>3, <2>4, <3>1, <3>2, <3>3 DEF GeneralNames
  <2>6. GeneralNames \subseteq members' /\ section' = "MeasureOperators"
    BY <2>1, <2>5, MembersGrow
  <2> QED
    BY <1>1, <2>2, <2>6, SameConfiguration
    DEF MembersInv, PastGeneral, PastOperators, PastWavelets, PastAlgorithm, PastVersion
<1> QED
  BY <1>2, <1>3

LEMMA OperatorsKeepMembers ==
  ASSUME MembersInv, parseAndSetMeasureOperators
  PROVE  MembersInv'
<1>1. config' = config /\ section = "MeasureOperators"
  BY DEF parseAndSetMeasureOperators
<1>2. CASE ~Got(OperatorKeys)
  <2>1. section' = "failed"
    BY <1>2 DEF parseAndSetMeasureOperators, Fail
  <2> QED
    BY <2>1 DEF MembersInv, PastGeneral, PastOperators, PastWavelets, PastAlgorithm, PastVersion
<1>3. CASE Got(OperatorKeys)
  <2>1. SetMembers(OperatorKeys, "SARA")
    BY <1>3 DEF parseAndSetMeasureOperators
  <2>2. NamesOf(OperatorKeys) \subseteq members' /\ members \subseteq members' /\ section' = "SARA"
    BY <2>1, MembersGrow
  <2> QED
    BY <1>1, <2>2, SameConfiguration
    DEF MembersInv, PastGeneral, PastOperators, PastWavelets, PastAlgorithm, PastVersion
<1> QED
  BY <1>2, <1>3

LEMMA WaveletsKeepMembers ==
  ASSUME MembersInv, WaveletsScanned
  PROVE  MembersInv'
<1>1. config' = config /\ section = "wavelets"
  BY DEF WaveletsScanned
<1>2. CASE ~Got(WaveletKeys)
  <2>1. section' = "failed"
    BY <1>2 DEF WaveletsScanned, Fail
  <2> QED
    BY <2>1 DEF MembersInv, PastGeneral, PastOperators, PastWavelets, PastAlgorithm, PastVersion
<1>3. CASE Got(WaveletKeys)
  <2>1. SetMembers(WaveletKeys \union Names("SARA", {"wavelet_basis"}), "AlgorithmOptions")
    BY <1>3 DEF WaveletsScanned
  <2>2. NamesOf(WaveletKeys \union Names("SARA", {"wavelet_basis"})) = WaveletNames
    BY NamesOfUnion, NamesOfNames DEF WaveletNames
  <2>3. WaveletNames \subseteq members' /\ members \subseteq members' /\ section' = "AlgorithmOptions"
    BY <2>1, <2>2, MembersGrow
  <2> QED
    BY <1>1, <2>3, SameConfiguration
    DEF MembersInv, PastGeneral, PastOperators, PastWavelets, PastAlgorithm, PastVersion
<1> QED
  BY <1>2, <1>3

LEMMA AlgorithmKeepsMembers ==
  ASSUME MembersInv, parseAndSetAlgorithmOptions
  PROVE  MembersInv'
<1> DEFINE keys == AlgorithmKeys \union FunctionKeys \union Names("algorithm", {"algorithm"})
<1>1. config' = config /\ section = "AlgorithmOptions"
  BY DEF parseAndSetAlgorithmOptions
<1>2. section' = "failed" \/ (Algorithm \in Algorithms /\ SetMembers(keys, "Version"))
  BY DEF parseAndSetAlgorithmOptions, Fail
<1>3. CASE section' = "failed"
  BY <1>3 DEF MembersInv, PastGeneral, PastOperators, PastWavelets, PastAlgorithm, PastVersion
<1>4. CASE Algorithm \in Algorithms /\ SetMembers(keys, "Version")
  <2>1. NamesOf(keys) = AlgorithmNames
    <3>1. NamesOf(AlgorithmKeys \union FunctionKeys) = NamesOf(AlgorithmKeys) \union NamesOf(FunctionKeys)
      BY NamesOfUnion
    <3>2. NamesOf(keys) = NamesOf(AlgorithmKeys \union FunctionKeys)
                            \union NamesOf(Names("algorithm", {"algorithm"}))
      BY NamesOfUnion
    <3> QED
      BY <3>1, <3>2, NamesOfNames DEF AlgorithmNames
  <2>2. AlgorithmNames \subseteq members' /\ members \subseteq members' /\ section' = "Version"
    BY <1>4, <2>1, MembersGrow
  <2> QED
    BY <1>1, <1>4, <2>2, SameConfiguration
    DEF MembersInv, PastGeneral, PastOperators, PastWavelets, PastAlgorithm, PastVersion
<1> QED
  BY <1>2, <1>3, <1>4

LEMMA VersionKeepsMembers ==
  ASSUME MembersInv, ParseVersion
  PROVE  MembersInv'
<1>1. config' = config /\ section = "Version"
  BY DEF ParseVersion
<1>2. section' = "failed" \/ SetMembers(Names("general", {"version"}), "parsed")
  BY DEF ParseVersion, Fail
<1>3. CASE section' = "failed"
  BY <1>3 DEF MembersInv, PastGeneral, PastOperators, PastWavelets, PastAlgorithm, PastVersion
<1>4. CASE SetMembers(Names("general", {"version"}), "parsed")
  <2>1. "version" \in members' /\ members \subseteq members' /\ section' = "parsed"
    BY <1>4, NamesOfNames, MembersGrow
  <2> QED
    BY <1>1, <2>1, SameConfiguration
    DEF MembersInv, PastGeneral, PastOperators, PastWavelets, PastAlgorithm, PastVersion
<1> QED
  BY <1>2, <1>3, <1>4

LEMMA ParserKeepsMembers ==
  ASSUME MembersInv, ParserNext
  PROVE  MembersInv'
<1>1. CASE readFile
  <2>1. section' \in {"failed", "GeneralConfiguration"}
    BY <1>1 DEF readFile, Fail, SetMembers
  <2> QED
    BY <2>1 DEF MembersInv, PastGeneral, PastOperators, PastWavelets, PastAlgorithm, PastVersion
<1>2. CASE parseAndSetSARA
  <2>1. config' = config /\ section = "SARA" /\ (section' = "failed" \/ SetMembers({}, "wavelets"))
    BY <1>2 DEF parseAndSetSARA, Fail
  <2>2. section' = "failed" \/ (members' = members /\ section' = "wavelets")
    BY <2>1 DEF SetMembers
  <2> QED
    BY <2>1, <2>2, MembersKept
    DEF MembersInv, PastGeneral, PastOperators, PastWavelets, PastAlgorithm, PastVersion
<1>3. CASE ScanSingle \/ ScanRange \/ ScanDigit
  <2>1. config' = config /\ members' = members /\ section' \in {section, "failed"}
    BY <1>3 DEF ScanSingle, ScanRange, ScanDigit, Fail
  <2> QED
    BY <2>1, MembersKept
<1> QED
  BY <1>1, <1>2, <1>3, GeneralKeepsMembers, OperatorsKeepMembers, WaveletsKeepMembers,
     AlgorithmKeepsMembers, VersionKeepsMembers DEF ParserNext

\* The invariant holds at the beginning and in every step.
THEOREM MembersInvAlways == InputSpec => []MembersInv
<1>1. InputInit => MembersInv
  <2>1. InputInit => section \in {"file", "library"}
    BY BeginningsAssumption DEF InputInit
  <2> QED
    BY <2>1 DEF MembersInv, PastGeneral, PastOperators, PastWavelets, PastAlgorithm, PastVersion
<1>2. MembersInv /\ [InputNext]_inputVars => MembersInv'
  <2> SUFFICES ASSUME MembersInv, [InputNext]_inputVars PROVE MembersInv'
    OBVIOUS
  <2>1. CASE Parse
    BY <2>1, ParserKeepsMembers DEF Parse
  <2>2. CASE UNCHANGED parserVars
    <3>1. config' = config /\ members' = members /\ section' = section
      BY <2>2 DEF parserVars
    <3> QED
      BY <3>1, MembersKept
  <2>3. Parse \/ UNCHANGED parserVars
    BY DEF InputNext, Program, WrongVersion, RandomCoverage, ReadInput, ReadOn, FoldInput, LibraryCall,
           LibraryReturn, Vanish, inputVars
  <2> QED
    BY <2>1, <2>2, <2>3
<1> QED
  BY <1>1, <1>2, PTL DEF InputSpec

\* What main asks for is among the members of the sections.
LEMMA InvUsedIsSet == MembersInv => UsedIsSet
<1> SUFFICES ASSUME MembersInv, section = "parsed"
             PROVE  UsedAlways \union UsedBySource \union UsedByAlgorithm \subseteq members
  BY DEF UsedIsSet
<1>1. /\ Source \in {"measurements", "simulation"} /\ GeneralNames \subseteq members
      /\ NamesOf(OperatorKeys) \subseteq members /\ WaveletNames \subseteq members
      /\ Algorithm \in Algorithms /\ AlgorithmNames \subseteq members /\ "version" \in members
  BY DEF MembersInv, PastGeneral, PastOperators, PastWavelets, PastAlgorithm, PastVersion
<1>2. NamesOf(GeneralKeys) = {"logging", "iterations", "epsilonScaling", "output_prefix", "source"}
  BY NamesOfNames DEF GeneralKeys
<1>3. UsedBySource \subseteq members
  <2>1. CASE Source = "measurements"
    <3>1. NamesOf(SourceKeys) = {"measurements_polarization", "warm_start", "measurements_files",
                                 "measurements_units", "measurements_sigma"}
      BY <2>1, NamesOfNames DEF SourceKeys
    <3> QED
      BY <1>1, <2>1, <3>1 DEF UsedBySource, GeneralNames
  <2>2. CASE Source = "simulation"
    <3>1. NamesOf(SourceKeys) = {"skymodel", "signal_to_noise", "number_of_measurements", "sim_J",
                                 "w_rms", "coverage_files", "coverage_units"}
      BY <2>2, NamesOfNames DEF SourceKeys
    <3> QED
      BY <1>1, <2>2, <3>1 DEF UsedBySource, GeneralNames
  <2> QED
    BY <1>1, <2>1, <2>2
<1>4. UsedByAlgorithm \subseteq members /\ {"mpiAlgorithm", "relVarianceConvergence"} \subseteq members
  <2>1. CASE Algorithm = "padmm"
    <3>1. NamesOf(AlgorithmKeys) = {"epsilonConvergenceScaling", "mpiAlgorithm",
             "relVarianceConvergence", "update_iters", "update_tolerance", "dualFBVarianceConvergence"}
      BY <2>1, NamesOfNames DEF AlgorithmKeys
    <3> QED
      BY <1>1, <2>1, <3>1 DEF UsedByAlgorithm, AlgorithmNames
  <2>2. CASE Algorithm = "primaldual"
    <3>1. NamesOf(AlgorithmKeys) = {"epsilonConvergenceScaling", "mpiAlgorithm",
             "relVarianceConvergence", "update_iters", "update_tolerance", "precondition_iters"}
      BY <2>2, NamesOfNames DEF AlgorithmKeys
    <3> QED
      BY <1>1, <2>2, <3>1 DEF UsedByAlgorithm, AlgorithmNames
  <2>3. CASE Algorithm \in {"fb", "fb_joint_map"}
    <3>1. NamesOf(AlgorithmKeys) = {"mpiAlgorithm", "relVarianceConvergence", "stepsize",
             "regularisation_parameter", "dualFBVarianceConvergence", "nondiffFuncType", "diffFuncType"}
      BY <2>3, NamesOfNames DEF AlgorithmKeys
    <3>2. AlgorithmBlock = "fb"
      BY <2>3 DEF AlgorithmBlock
    <3>3. Value(<<"fb", "nondiffFuncType">>) = "denoiser" => "model_path" \in NamesOf(FunctionKeys)
      <4> HAVE Value(<<"fb", "nondiffFuncType">>) = "denoiser"
      <4>1. Names("fb", {"model_path"}) \subseteq FunctionKeys
        BY <3>2 DEF FunctionKeys
      <4> QED
        BY <4>1, NamesOfNames DEF NamesOf
    <3>4. Value(<<"fb", "diffFuncType">>) = "CRR" =>
            {"CRR_function_model_path", "CRR_gradient_model_path", "CRR_mu", "CRR_lambda"}
              \subseteq NamesOf(FunctionKeys)
      <4> DEFINE crr == {"CRR_function_model_path", "CRR_gradient_model_path", "CRR_mu", "CRR_lambda"}
      <4> SUFFICES ASSUME Value(<<"fb", "diffFuncType">>) = "CRR" PROVE crr \subseteq NamesOf(FunctionKeys)
        OBVIOUS
      <4> HIDE DEF crr
      <4>1. Names("fb", crr) \subseteq FunctionKeys
        BY <3>2 DEF FunctionKeys, crr
      <4>2. NamesOf(Names("fb", crr)) \subseteq NamesOf(FunctionKeys)
        BY <4>1 DEF NamesOf
      <4> QED
        BY <4>2, NamesOfNames
    <3>5. {"stepsize", "regularisation_parameter", "dualFBVarianceConvergence", "nondiffFuncType",
           "diffFuncType", "mpiAlgorithm", "relVarianceConvergence"} \subseteq members
          /\ NamesOf(FunctionKeys) \subseteq members
      BY <1>1, <3>1 DEF AlgorithmNames
    <3> QED
      BY <2>3, <3>3, <3>4, <3>5 DEF UsedByAlgorithm
  <2> QED
    BY <1>1, <2>1, <2>2, <2>3 DEF Algorithms
<1>5. UsedAlways \subseteq members
  <2>1. UsedAlways = NamesOf(OperatorKeys) \union NamesOf(WaveletKeys) \union
          {"version", "logging", "source", "measurements", "mpiAlgorithm", "algorithm",
           "wavelet_basis", "output_prefix", "iterations", "epsilonScaling", "relVarianceConvergence"}
    BY NamesOfUnion DEF UsedAlways, NamesOf
  <2> QED
    BY <1>1, <1>2, <1>4, <2>1 DEF GeneralNames, WaveletNames, AlgorithmNames
<1> QED
  BY <1>3, <1>4, <1>5

\* No run of main starts on a member's default by accident: what it asks for with its source
\* and algorithm, an accepted configuration has set (YamlParser, main.cc, setup_utils.cc).
THEOREM AcceptedHasAllMembers == InputSpec => []UsedIsSet
BY MembersInvAlways, InvUsedIsSet, PTL

(***************************************************************************)
(* Lists of lists that are joined.                                         *)
(***************************************************************************)

\* The recursion of FlattenSeq has a solution.
LEMMA FlattenDefined ==
  ASSUME NEW T, NEW seqs \in Seq(T), Len(seqs) # 0
  PROVE  \E flat : /\ FlattenSeq(seqs) = flat[Len(seqs)]
                   /\ flat[1] = seqs[1]
                   /\ \A j \in 2 .. Len(seqs) : flat[j] = flat[j-1] \o seqs[j]
<1> DEFINE n == Len(seqs)
           Step(c, j) == IF j = 1 THEN seqs[j] ELSE c[j-1] \o seqs[j]
           Upto(c, m) == [j \in 1 .. m |-> Step(c, j)]
           Solved == {m \in Nat : \E c : c = Upto(c, m)}
<1>0. n \in Nat
  OBVIOUS
<1>1. 0 \in Solved
  <2>1. Upto(<<>>, 0) = Upto(Upto(<<>>, 0), 0)
    OBVIOUS
  <2> QED
    BY <2>1
<1>2. \A m \in Nat : m \in Solved => m+1 \in Solved
  <2> SUFFICES ASSUME NEW m \in Nat, m \in Solved PROVE m+1 \in Solved
    OBVIOUS
  <2>1. PICK c : c = Upto(c, m)
    OBVIOUS
  <2> DEFINE d == Upto(c, m+1)
  <2>2. \A j \in 1 .. m : c[j] = d[j]
    <3>1. \A j \in 1 .. m : c[j] = Step(c, j)
      BY <2>1
    <3> QED
      BY <3>1
  <2>3. Upto(d, m+1) = Upto(c, m+1)
    <3> HIDE DEF d
    <3>1. \A j \in 1 .. m+1 : j # 1 => d[j-1] = c[j-1]
      BY <2>2
    <3> QED
      BY <3>1
  <2>4. d = Upto(d, m+1)
    <3> HIDE DEF Upto
    <3> QED
      BY <2>3
  <2> HIDE DEF d, Upto
  <2> QED
    BY <2>4
<1>3. n \in Solved
  <2> HIDE DEF Solved, n
  <2> QED
    BY <1>0, <1>1, <1>2, Induction
<1> DEFINE flat == CHOOSE c : c = Upto(c, n)
<1>4. flat = Upto(flat, n)
  BY <1>3
<1>5. FlattenSeq(seqs) = flat[n]
  BY DEF FlattenSeq
<1> HIDE DEF flat
<1>6. \A j \in 1 .. n : flat[j] = Step(flat, j)
  BY <1>4
<1>7. 1 \in 1 .. n /\ \A j \in 2 .. n : j \in 1 .. n /\ j # 1
  BY <1>0
<1> QED
  BY <1>5, <1>6, <1>7

\* Lists that are flattened enumerate side by side what each enumerates.
LEMMA EnumeratesFlattened ==
  ASSUME NEW T, NEW seqs \in Seq(Seq(T)), NEW F, DOMAIN F = 1 .. Len(seqs),
         \A j \in 1 .. Len(seqs) : Enumerates(seqs[j], F[j])
  PROVE  Enumerates(FlattenSeq(seqs), SideBySide(F)) /\ FlattenSeq(seqs) \in Seq(T)
<1> DEFINE n == Len(seqs)
           G(m) == Restrict(F, 1 .. m)
<1>1. CASE n = 0
  <2>1. FlattenSeq(seqs) = <<>>
    BY <1>1 DEF FlattenSeq
  <2>2. DOMAIN SideBySide(F) = {}
    BY <1>1, PlacesSideBySide
  <2> QED
    BY <2>1, <2>2, EnumeratesNothing, EmptySeq
<1>2. CASE n # 0
  <2>1. PICK flat : /\ FlattenSeq(seqs) = flat[n] /\ flat[1] = seqs[1]
                    /\ \A j \in 2 .. n : flat[j] = flat[j-1] \o seqs[j]
    BY <1>2, FlattenDefined
  <2> DEFINE Fine == {m \in Nat : m + 1 <= n => /\ flat[m+1] \in Seq(T)
                                                /\ Enumerates(flat[m+1], SideBySide(G(m+1)))}
  <2>2. 0 \in Fine
    <3> SUFFICES ASSUME 1 <= n PROVE flat[1] \in Seq(T) /\ Enumerates(flat[1], SideBySide(G(1)))
      OBVIOUS
    <3>1. 1 \in 1 .. n /\ seqs[1] \in Seq(T) /\ Enumerates(seqs[1], F[1])
      OBVIOUS
    <3>2. DOMAIN G(0) = {} /\ DOMAIN G(1) = {1} /\ G(1)[1] = F[1]
      BY DEF Restrict
    <3>3. DOMAIN SideBySide(G(0)) = {}
      BY <3>2, PlacesSideBySide
    <3>4. Enumerates(<<>>, SideBySide(G(0))) /\ <<>> \in Seq(T)
      BY <3>3, EnumeratesNothing
    <3> HIDE DEF G
    <3>5. Enumerates(<<>> \o seqs[1], SideBySide(G(1)))
      <4>1. DOMAIN G(1) = DOMAIN G(0) \cup {1} /\ 1 \notin DOMAIN G(0)
            /\ \A x \in DOMAIN G(0) : G(1)[x] = G(0)[x]
        BY <3>2
      <4> QED
        BY <3>1, <3>2, <3>4, <4>1, EnumeratesOneMore
    <3>6. <<>> \o seqs[1] = seqs[1]
      BY <3>1
    <3> QED
      BY <2>1, <3>1, <3>5, <3>6
  <2>3. \A m \in Nat : m \in Fine => m+1 \in Fine
    <3> SUFFICES ASSUME NEW m \in Nat, m \in Fine, (m+1)+1 <= n
                 PROVE  flat[(m+1)+1] \in Seq(T) /\ Enumerates(flat[(m+1)+1], SideBySide(G((m+1)+1)))
      OBVIOUS
    <3>1. flat[m+1] \in Seq(T) /\ Enumerates(flat[m+1], SideBySide(G(m+1)))
      OBVIOUS
    <3> DEFINE a == m+1
               c == (m+1)+1
    <3>2. /\ c \in 2 .. n /\ c \in 1 .. n /\ c - 1 = a /\ a \in Nat
          /\ seqs[c] \in Seq(T) /\ Enumerates(seqs[c], F[c])
      OBVIOUS
    <3>3. flat[c] = flat[a] \o seqs[c]
      BY <2>1, <3>2
    <3>4. /\ DOMAIN G(c) = DOMAIN G(a) \cup {c} /\ c \notin DOMAIN G(a) /\ G(c)[c] = F[c]
          /\ \A x \in DOMAIN G(a) : G(c)[x] = G(a)[x]
      <4>1. 1 .. c = (1 .. a) \cup {c} /\ c \notin 1 .. a
        OBVIOUS
      <4> HIDE DEF a, c
      <4> QED
        BY <4>1 DEF Restrict
    <3>5. flat[a] \in Seq(T) /\ Enumerates(flat[a], SideBySide(G(a)))
      BY <3>1
    <3> HIDE DEF G, a, c
    <3>6. Enumerates(flat[a] \o seqs[c], SideBySide(G(c)))
      BY <3>2, <3>4, <3>5, EnumeratesOneMore
    <3>7. flat[a] \o seqs[c] \in Seq(T)
      BY <3>2, <3>5, ConcatProperties
    <3> QED
      BY <3>3, <3>6, <3>7 DEF c
  <2>4. n - 1 \in Fine
    <3>1. n - 1 \in Nat
      BY <1>2
    <3> HIDE DEF Fine
    <3> QED
      BY <2>2, <2>3, <3>1, Induction
  <2>5. (n - 1) + 1 = n /\ n <= n
    BY <1>2
  <2>6. Enumerates(flat[n], SideBySide(G(n))) /\ flat[n] \in Seq(T)
    BY <2>4, <2>5
  <2>7. DOMAIN SideBySide(G(n)) = DOMAIN SideBySide(F)
        /\ \A p \in DOMAIN SideBySide(F) : SideBySide(G(n))[p] = SideBySide(F)[p]
    <3>1. DOMAIN G(n) = DOMAIN F /\ \A x \in DOMAIN F : G(n)[x] = F[x]
      BY DEF Restrict
    <3> QED
      BY <3>1 DEF SideBySide
  <2>8. Enumerates(flat[n], SideBySide(F))
    <3> DEFINE f == SideBySide(G(n))
               g == SideBySide(F)
    <3>1. PICK whole : whole = flat[n]
      OBVIOUS
    <3>2. Enumerates(whole, f) /\ DOMAIN g = DOMAIN f
          /\ \A x \in 1 .. Len(whole) : \A p \in DOMAIN f : whole[x] = f[p] => whole[x] = g[p]
      BY <2>6, <2>7, <3>1
    <3> HIDE DEF f, g
    <3>3. Enumerates(whole, g)
      BY <3>2, EnumeratesMapped
    <3> QED
      BY <3>1, <3>3 DEF g
  <2> QED
    BY <2>1, <2>6, <2>8
<1> QED
  BY <1>1, <1>2

\* Lines of c numbers each: the place of a number counts the lines before it.
LEMMA FlattenLines ==
  ASSUME NEW T, NEW lines \in Seq(Seq(T)), NEW c \in Nat, \A j \in 1 .. Len(lines) : Len(lines[j]) = c
  PROVE  \A j \in 1 .. Len(lines) : \A col \in 1 .. c :
           FlattenSeq(lines)[(j - 1) * c + col] = lines[j][col]
<1> DEFINE m == Len(lines)
<1>0. m \in Nat
  OBVIOUS
<1>1. CASE m = 0
  BY <1>1
<1>2. CASE m # 0
  <2>1. PICK flat : /\ FlattenSeq(lines) = flat[m] /\ flat[1] = lines[1]
                    /\ \A j \in 2 .. m : flat[j] = flat[j-1] \o lines[j]
    BY <1>2, FlattenDefined
  <2> DEFINE Right(a) == /\ flat[a] \in Seq(T) /\ Len(flat[a]) = a * c
                         /\ \A j \in 1 .. a : \A col \in 1 .. c : flat[a][(j - 1) * c + col] = lines[j][col]
             Fine == {b \in Nat : b + 1 <= m => Right(b+1)}
  <2>2. m >= 1 => Right(1)
    <3> HAVE m >= 1
    <3>1. 1 \in 1 .. m /\ lines[1] \in Seq(T) /\ Len(lines[1]) = c /\ 1 * c = c
      BY <1>0
    <3>2. \A j \in 1 .. 1 : j = 1 /\ (j - 1) * c = 0
      OBVIOUS
    <3> QED
      BY <2>1, <3>1, <3>2
  <2>3. ASSUME NEW a \in Nat, a >= 1, a + 1 <= m, Right(a) PROVE Right(a+1)
    <3> DEFINE x == flat[a]
               y == lines[a+1]
               z == flat[a+1]
    <3>1. /\ a+1 \in 2 .. m /\ a+1 \in 1 .. m /\ (a+1) - 1 = a /\ y \in Seq(T) /\ Len(y) = c
      BY <1>0, <2>3
    <3>2. z = x \o y
      BY <2>1, <3>1
    <3>3. x \in Seq(T) /\ Len(x) = a * c
      BY <2>3
    <3>4. /\ x \o y \in Seq(T) /\ Len(x \o y) = Len(x) + Len(y)
          /\ \A e \in 1 .. Len(x) + Len(y) : (x \o y)[e] = IF e <= Len(x) THEN x[e] ELSE y[e - Len(x)]
      BY <3>1, <3>3, ConcatProperties
    <3>5. a * c \in Nat /\ (a+1) * c = a * c + c
      OBVIOUS
    <3>6. ASSUME NEW j \in 1 .. a+1, NEW col \in 1 .. c
          PROVE  z[(j - 1) * c + col] = lines[j][col]
      <4>1. PICK e : e = (j - 1) * c
        OBVIOUS
      <4>2. CASE j = a+1
        <5>1. e = a * c
          BY <2>3, <4>1, <4>2
        <5>2. e + col \in 1 .. a * c + c /\ ~(e + col <= a * c) /\ (e + col) - a * c = col
          <6>1. e \in Nat /\ col \in 1 .. c
            BY <3>5, <5>1
          <6>2. e + col \in 1 .. e + c /\ ~(e + col <= e) /\ (e + col) - e = col
            BY <6>1
          <6> QED
            BY <5>1, <6>2
        <5>3. z[e + col] = y[col]
          BY <3>1, <3>2, <3>3, <3>4, <5>2
        <5> QED
          BY <4>1, <4>2, <5>3
      <4>3. CASE j # a+1
        <5>1. j \in 1 .. a
          BY <2>3, <4>3
        <5>2. e \in Nat /\ e + c <= a * c
          <6>1. j - 1 \in Nat /\ e + c = j * c
            BY <4>1, <5>1
          <6>2. c > 0 /\ j <= a /\ j \in Int /\ a \in Int
            BY <2>3, <5>1
          <6>3. j * c <= a * c
            BY <6>2, ProductsOrdered
          <6> QED
            BY <4>1, <6>1, <6>3
        <5>3. x[e + col] = lines[j][col]
          BY <2>3, <4>1, <5>1
        <5>4. e + col \in 1 .. a * c + c /\ e + col <= a * c
          BY <3>5, <5>2
        <5>5. z[e + col] = x[e + col]
          BY <3>1, <3>2, <3>3, <3>4, <5>4
        <5> QED
          BY <4>1, <5>3, <5>5
      <4> QED
        BY <4>2, <4>3
    <3> QED
      BY <3>1, <3>2, <3>3, <3>4, <3>5, <3>6
  <2> HIDE DEF Right
  <2>4. 0 \in Fine /\ \A b \in Nat : b \in Fine => b+1 \in Fine
    <3>1. \A b \in Nat : (b+1) >= 1 /\ ((b+1)+1 <= m => b+1 <= m)
      BY <1>0
    <3> QED
      BY <2>2, <2>3, <3>1
  <2>5. m - 1 \in Fine
    <3>1. m - 1 \in Nat
      BY <1>0, <1>2
    <3> HIDE DEF Fine
    <3> QED
      BY <2>4, <3>1, Induction
  <2>6. Right(m)
    <3>1. (m - 1) + 1 = m /\ m <= m
      BY <1>0
    <3> QED
      BY <2>5, <3>1
  <2> QED
    BY <2>1, <2>6 DEF Right
<1> QED
  BY <1>1, <1>2

\* Lines of c numbers each, and empty lines after them.
LEMMA FlattenLength ==
  ASSUME NEW T, NEW lines \in Seq(Seq(T)), NEW c \in Nat, NEW n \in Nat, n <= Len(lines),
         \A j \in 1 .. Len(lines) : Len(lines[j]) = IF j <= n THEN c ELSE 0
  PROVE  Len(FlattenSeq(lines)) = n * c
<1> DEFINE m == Len(lines)
<1>0. m \in Nat
  OBVIOUS
<1>1. CASE m = 0
  <2>1. FlattenSeq(lines) = <<>> /\ n = 0
    BY <1>0, <1>1 DEF FlattenSeq
  <2> QED
    BY <2>1
<1>2. CASE m # 0
  <2>1. PICK flat : /\ FlattenSeq(lines) = flat[m] /\ flat[1] = lines[1]
                    /\ \A j \in 2 .. m : flat[j] = flat[j-1] \o lines[j]
    BY <1>2, FlattenDefined
  <2> DEFINE Full(a) == IF a <= n THEN a ELSE n
             Right(a) == flat[a] \in Seq(T) /\ Len(flat[a]) = Full(a) * c
             Fine == {b \in Nat : b + 1 <= m => Right(b+1)}
  <2>2. m >= 1 => Right(1)
    <3> HAVE m >= 1
    <3>1. 1 \in 1 .. m /\ lines[1] \in Seq(T) /\ Len(lines[1]) = (IF 1 <= n THEN c ELSE 0)
          /\ 1 * c = c /\ 0 * c = 0
      BY <1>0
    <3>2. Full(1) = IF 1 <= n THEN 1 ELSE 0
      OBVIOUS
    <3> HIDE DEF Full
    <3> QED
      BY <2>1, <3>1, <3>2
  <2>3. ASSUME NEW a \in Nat, a >= 1, a + 1 <= m, Right(a) PROVE Right(a+1)
    <3> DEFINE x == flat[a]
               y == lines[a+1]
    <3>1. /\ a+1 \in 2 .. m /\ a+1 \in 1 .. m /\ (a+1) - 1 = a /\ y \in Seq(T)
          /\ Len(y) = IF a+1 <= n THEN c ELSE 0
      BY <1>0, <2>3
    <3>2. flat[a+1] = x \o y
      BY <2>1, <3>1
    <3>3. x \in Seq(T) /\ Len(x) = Full(a) * c
      BY <2>3
    <3>4. x \o y \in Seq(T) /\ Len(x \o y) = Len(x) + Len(y)
      BY <3>1, <3>3, ConcatProperties
    <3>5. CASE a+1 <= n
      <4>1. Full(a) = a /\ Full(a+1) = a+1 /\ (a+1) * c = a * c + c
        BY <2>3, <3>5
      <4> HIDE DEF Full, x, y
      <4> QED
        BY <3>1, <3>2, <3>3, <3>4, <3>5, <4>1
    <3>6. CASE ~(a+1 <= n)
      <4>1. Full(a) = n /\ Full(a+1) = n /\ n * c \in Nat
        BY <2>3, <3>6
      <4> HIDE DEF Full, x, y
      <4> QED
        BY <3>1, <3>2, <3>3, <3>4, <3>6, <4>1
    <3> QED
      BY <3>5, <3>6
  <2> HIDE DEF Right
  <2>4. 0 \in Fine /\ \A b \in Nat : b \in Fine => b+1 \in Fine
    <3>1. \A b \in Nat : (b+1) >= 1 /\ ((b+1)+1 <= m => b+1 <= m)
      BY <1>0
    <3> QED
      BY <2>2, <2>3, <3>1
  <2>5. m - 1 \in Fine
    <3>1. m - 1 \in Nat
      BY <1>0, <1>2
    <3> HIDE DEF Fine
    <3> QED
      BY <2>4, <3>1, Induction
  <2>6. Right(m)
    <3>1. (m - 1) + 1 = m /\ m <= m
      BY <1>0
    <3> QED
      BY <2>5, <3>1
  <2>7. Full(m) = n
    BY <1>0
  <2> QED
    BY <2>1, <2>6, <2>7 DEF Right
<1> QED
  BY <1>1, <1>2

(***************************************************************************)
(* What the readers return of a file that is what its name says.           *)
(***************************************************************************)

\* A check that fails stops the read.
LEMMA FailureIsBad ==
  ASSUME NEW checks, NEW n \in Nat, DOMAIN checks = 1 .. n, \A x \in 1 .. n : checks[x][2] # "good",
         Unmet(checks) # {}
  PROVE  FirstFailure(checks).outcome # "good"
<1>1. Unmet(checks) \in SUBSET Nat
  BY DEF Unmet
<1>2. \E x \in Unmet(checks) : \A y \in Unmet(checks) : x <= y
  BY <1>1, LeastElement
<1>3. Min(Unmet(checks)) \in Unmet(checks)
  BY <1>2 DEF Min
<1>4. Min(Unmet(checks)) \in 1 .. n
  BY <1>3 DEF Unmet
<1> QED
  BY <1>4 DEF FirstFailure, Failed

LEMMA TextRead ==
  ASSUME NEW f, WellFormedText(f), NEW r \in read_visibility_csv(f.content, f.has_w), r.outcome = "good"
  PROVE  r.rows = f.rows /\ r.units = "lambda"
<1> DEFINE lines == f.content
           c == ColumnsOfLine(f.has_w)
           n == Len(f.rows)
           tokens == FlattenSeq(lines)
<1>1. /\ f.rows \in Seq(Rows) /\ n \in Nat /\ DOMAIN f.rows = 1 .. n /\ f.has_w \in BOOLEAN
      /\ lines \in Seq(Seq(Int)) /\ Len(lines) \in Nat /\ n <= Len(lines)
      /\ DOMAIN lines = 1 .. Len(lines) /\ c \in {5, 6}
      /\ \A j \in 1 .. Len(lines) : lines[j] = IF j <= n THEN WriteLine(f.rows[j], f.has_w) ELSE <<>>
  BY DEF WellFormedText, HoldsRows, ColumnsOfLine
<1>2. \A j \in 1 .. n : f.rows[j] \in Rows /\ Len(WriteLine(f.rows[j], f.has_w)) = c
  BY <1>1 DEF WriteLine, ColumnsOfLine
<1>3. \A j \in 1 .. Len(lines) : Len(lines[j]) = IF j <= n THEN c ELSE 0
  BY <1>1, <1>2
<1>4. lines \in Seq(Seq(Int)) /\ c \in Nat /\ n \in Nat /\ n <= Len(lines) /\ Len(lines) \in Nat
  BY <1>1
<1> HIDE DEF n, c, lines
<1>5. Len(tokens) = n * c
  BY <1>3, <1>4, FlattenLength
<1>6. /\ ~(Len(lines) * c > n * c)
      /\ r = Vis([j \in DOMAIN lines |-> TakeRow(tokens, j, f.has_w)], 0, "lambda")
  BY <1>5 DEF read_visibility_csv, Failed, lines, c
<1>7. n = Len(lines)
  <2>1. ASSUME NEW m \in Nat, n <= m, ~(m * c > n * c) PROVE n = m
    <3>1. CASE c = 5
      BY <1>4, <2>1, <3>1
    <3>2. CASE c = 6
      BY <1>4, <2>1, <3>2
    <3> QED
      BY <1>1, <3>1, <3>2
  <2> QED
    BY <1>4, <1>6, <2>1
<1>8. \A j \in 1 .. n : \A col \in 1 .. c : tokens[(j - 1) * c + col] = lines[j][col]
  <2>1. \A j \in 1 .. Len(lines) : Len(lines[j]) = c
    BY <1>3, <1>4, <1>7
  <2>2. \A j \in 1 .. Len(lines) : \A col \in 1 .. c : tokens[(j - 1) * c + col] = lines[j][col]
    BY <1>4, <2>1, FlattenLines
  <2> QED
    BY <1>7, <2>2
<1> HIDE DEF tokens
<1>9. \A j \in 1 .. n : TakeRow(tokens, j, f.has_w) = f.rows[j]
  <2> SUFFICES ASSUME NEW j \in 1 .. n PROVE TakeRow(tokens, j, f.has_w) = f.rows[j]
    OBVIOUS
  <2>1. lines[j] = WriteLine(f.rows[j], f.has_w)
    BY <1>1, <1>7
  <2>2. PICK row \in Rows : row = f.rows[j]
    BY <1>2
  <2>3. CASE f.has_w
    <3>1. c = 6
      BY <2>3 DEF c, ColumnsOfLine
    <3>2. WriteLine(row, TRUE) = <<row.u, -row.v, row.w, row.vis.re, row.vis.im, -row.weights>>
      BY DEF WriteLine, Reciprocal
    <3>3. /\ tokens[(j - 1) * 6 + 1] = row.u /\ tokens[(j - 1) * 6 + 2] = -row.v
          /\ tokens[(j - 1) * 6 + 3] = row.w /\ tokens[(j - 1) * 6 + 4] = row.vis.re
          /\ tokens[(j - 1) * 6 + 5] = row.vis.im /\ tokens[(j - 1) * 6 + 6] = -row.weights
      <4>1. \A col \in 1 .. 6 : tokens[(j - 1) * 6 + col] = lines[j][col]
        BY <1>8, <3>1
      <4>2. lines[j] = <<row.u, -row.v, row.w, row.vis.re, row.vis.im, -row.weights>>
        BY <2>1, <2>2, <2>3, <3>2
      <4> QED
        BY <4>1, <4>2
    <3>4. -(-row.v) = row.v /\ -(-row.weights) = row.weights
      BY DEF Rows
    <3>5. TakeRow(tokens, j, TRUE) =
            [u |-> row.u, v |-> row.v, w |-> row.w, vis |-> [re |-> row.vis.re, im |-> row.vis.im],
             weights |-> row.weights]
      BY <3>3, <3>4 DEF TakeRow, ColumnsOfLine, Reciprocal
    <3> QED
      BY <2>2, <2>3, <3>5 DEF Rows
  <2>4. CASE ~f.has_w
    <3>1. c = 5
      BY <2>4 DEF c, ColumnsOfLine
    <3>2. WriteLine(row, FALSE) = <<row.u, -row.v, row.vis.re, row.vis.im, -row.weights>>
      BY DEF WriteLine, Reciprocal
    <3>3. /\ tokens[(j - 1) * 5 + 1] = row.u /\ tokens[(j - 1) * 5 + 2] = -row.v
          /\ tokens[(j - 1) * 5 + 3] = row.vis.re
          /\ tokens[(j - 1) * 5 + 4] = row.vis.im /\ tokens[(j - 1) * 5 + 5] = -row.weights
      <4>1. \A col \in 1 .. 5 : tokens[(j - 1) * 5 + col] = lines[j][col]
        BY <1>8, <3>1
      <4>2. lines[j] = <<row.u, -row.v, row.vis.re, row.vis.im, -row.weights>>
        BY <1>1, <2>1, <2>2, <2>4, <3>2
      <4> QED
        BY <4>1, <4>2
    <3>4. -(-row.v) = row.v /\ -(-row.weights) = row.weights
      BY DEF Rows
    <3>5. row.w = 0
      BY <1>1, <2>2, <2>4 DEF WellFormedText, HoldsRows, HasW
    <3>6. TakeRow(tokens, j, FALSE) =
            [u |-> row.u, v |-> row.v, w |-> row.w, vis |-> [re |-> row.vis.re, im |-> row.vis.im],
             weights |-> row.weights]
      BY <3>3, <3>4, <3>5 DEF TakeRow, ColumnsOfLine, Reciprocal
    <3> QED
      BY <1>1, <2>2, <2>4, <3>6 DEF Rows
  <2> QED
    BY <2>3, <2>4
<1>10. r.rows = [j \in 1 .. n |-> TakeRow(tokens, j, f.has_w)] /\ r.units = "lambda"
  <2>1. DOMAIN lines = 1 .. n
    BY <1>1, <1>7
  <2> QED
    BY <1>6, <2>1 DEF Vis
<1>11. f.rows = [j \in 1 .. n |-> f.rows[j]]
  BY <1>1
<1> QED
  BY <1>9, <1>10, <1>11

LEMMA H5Read ==
  ASSUME NEW f, WellFormedH5(f), NEW r \in read_visibility_h5(f.content, f.has_w), r.outcome = "good"
  PROVE  r.rows = f.rows /\ r.units = "lambda"
<1> DEFINE C == f.content
           D == DOMAIN f.rows
<1>1. f.rows \in Seq(Rows) /\ f.has_w \in BOOLEAN /\ D = 1 .. Len(f.rows)
  BY DEF WellFormedH5, HoldsRows
<1>2. \A j \in D : f.rows[j] \in Rows
  BY <1>1
<1>3. /\ C.u = [j \in D |-> f.rows[j].u] /\ C.v = [j \in D |-> -f.rows[j].v]
      /\ C.re = [j \in D |-> f.rows[j].vis.re] /\ C.im = [j \in D |-> f.rows[j].vis.im]
      /\ C.sigma = [j \in D |-> -f.rows[j].weights]
      /\ f.has_w => C.w = [j \in D |-> f.rows[j].w]
  BY DEF WellFormedH5, H5Columns, Reciprocal
<1>4. \A j \in D : f.has_w \/ f.rows[j].w = 0
  BY DEF WellFormedH5, HoldsRows, HasW
<1>5. /\ r.units = "lambda"
      /\ r.rows = [j \in DOMAIN C.u |->
               [u |-> C.u[j], v |-> -C.v[j], w |-> IF f.has_w THEN C.w[j] ELSE 0,
                vis |-> [re |-> C.re[j], im |-> C.im[j]], weights |-> -C.sigma[j]]]
  BY DEF read_visibility_h5, Vis, Failed, Reciprocal
<1> HIDE DEF C, D
<1>6. DOMAIN C.u = D
  BY <1>3
<1>7. \A j \in D : r.rows[j] = f.rows[j]
  <2> SUFFICES ASSUME NEW j \in D PROVE r.rows[j] = f.rows[j]
    OBVIOUS
  <2>1. PICK row \in Rows : row = f.rows[j]
    BY <1>2
  <2>2. -(-row.v) = row.v /\ -(-row.weights) = row.weights
    BY DEF Rows
  <2>3. /\ C.u[j] = row.u /\ C.v[j] = -row.v /\ C.re[j] = row.vis.re /\ C.im[j] = row.vis.im
        /\ C.sigma[j] = -row.weights /\ (IF f.has_w THEN C.w[j] ELSE 0) = row.w
    BY <1>3, <1>4, <2>1
  <2>4. r.rows[j] = [u |-> row.u, v |-> row.v, w |-> row.w, vis |-> [re |-> row.vis.re, im |-> row.vis.im],
             weights |-> row.weights]
    BY <1>5, <1>6, <2>2, <2>3
  <2> QED
    BY <2>1, <2>4 DEF Rows
<1>8. r.rows = [j \in D |-> r.rows[j]] /\ f.rows = [j \in D |-> f.rows[j]]
  BY <1>1, <1>5, <1>6 DEF D
<1> QED
  BY <1>5, <1>7, <1>8

\* Text and HDF5 files: the rows of the file.
LEMMA VisibilityRead ==
  ASSUME NEW n \in Files, FormatOf(n) \in {"vis", "h5"}, NEW f, Formed(n, f),
         NEW r \in read_visibility(Suffix(n), f, f.has_w), r.outcome = "good"
  PROVE  r.rows = f.rows /\ r.units = "lambda" /\ f.rows \in Seq(Rows) /\ Stored(f) = f.rows
<1>1. CASE FormatOf(n) = "vis"
  <2>1. WellFormedText(f)
    BY <1>1 DEF Formed
  <2>2. Suffix(n) # "h5"
    BY <1>1 DEF Suffix, FormatOf, Lower
  <2>3. f.layout = "text" /\ f.rows \in Seq(Rows)
    BY <2>1 DEF WellFormedText, HoldsRows
  <2>4. r \in read_visibility_csv(f.content, f.has_w)
    BY <2>2, <2>3 DEF read_visibility, IsText
  <2>5. Stored(f) = f.rows
    BY <2>3 DEF Stored
  <2> QED
    BY <2>1, <2>3, <2>4, <2>5, TextRead
<1>2. CASE FormatOf(n) = "h5"
  <2>1. WellFormedH5(f)
    BY <1>2 DEF Formed
  <2>2. f.layout = "h5" /\ f.rows \in Seq(Rows)
    BY <2>1 DEF WellFormedH5, HoldsRows
  <2>3. r \in read_visibility_h5(f.content, f.has_w)
    BY <2>2 DEF read_visibility, IsText, Failed
  <2>4. Stored(f) = f.rows
    BY <2>2 DEF Stored
  <2> QED
    BY <2>1, <2>2, <2>3, <2>4, H5Read
<1> QED
  BY <1>1, <1>2

\* The hand-written index meets the cell it is meant for (uvfits.cc).
LEMMA CellData ==
  ASSUME NEW f, WellFormedUvfits(f), NEW b \in 0 .. f.baselines - 1, NEW c \in 0 .. f.channels - 1,
         NEW p \in 0 .. f.pols - 1, NEW col \in 0 .. 2
  PROVE  DataOf(f)[Index(f, col, p, c, b)] =
           CASE col = 0 -> f.cells[b][c][p].re [] col = 1 -> f.cells[b][c][p].im
             [] col = 2 -> f.cells[b][c][p].weight
<1>1. PICK P, C, B, S, W : P = f.pols /\ C = f.channels /\ B = f.baselines /\ W = 3 * P /\ S = W * C
  OBVIOUS
<1>2. /\ P \in Nat /\ C \in Nat /\ B \in Nat /\ p \in 0 .. P-1 /\ c \in 0 .. C-1 /\ b \in 0 .. B-1
      /\ b \in Nat /\ c \in Nat /\ p \in Nat /\ b < B /\ c < C /\ p < P /\ col \in Nat /\ col < 3
  BY <1>1 DEF WellFormedUvfits
<1>3. PICK r2 : r2 = p * 3 + col
  OBVIOUS
<1>4. r2 \in Nat /\ r2 < W /\ W \in Nat /\ W > 0
  BY <1>1, <1>2, <1>3
<1>5. PICK r1 : r1 = c * W + r2
  OBVIOUS
<1>6. r1 \in Nat /\ r1 < S /\ S \in Nat /\ S > 0
  <2>1. c * W \in Nat /\ C * W \in Nat /\ c * W + W <= C * W
    BY <1>2, <1>4, Steps
  <2>2. S = C * W
    BY <1>1, <1>2, <1>4
  <2> QED
    BY <1>4, <1>5, <2>1, <2>2
<1>7. PICK x : x = b * S + r1
  OBVIOUS
<1>8. x \in Nat /\ x < B * S /\ B * S \in Nat
  <2>1. b * S \in Nat /\ B * S \in Nat /\ b * S + S <= B * S
    BY <1>2, <1>6, Steps
  <2> QED
    BY <1>6, <1>7, <2>1
<1>9. x \div S = b /\ x % S = r1
  BY <1>2, <1>6, <1>7, Remainder
<1>10. r1 \div W = c /\ r1 % W = r2
  BY <1>2, <1>4, <1>5, Remainder
<1>11. r2 \div 3 = p
  BY <1>2, <1>3
<1>12. PICK q : q = p + P * (c + C * b)
  OBVIOUS
<1>13. q \in Nat /\ x = q * 3 + col
  <2>1. C * b \in Nat
    BY <1>2
  <2>2. P * (c + C * b) \in Nat
    BY <1>2, <2>1
  <2>3. b * S = 3 * (P * (C * b)) /\ c * W = 3 * (P * c)
    BY <1>1, <1>2
  <2>4. P * (c + C * b) = P * c + P * (C * b)
    BY <1>2, <2>1
  <2>5. P * c \in Nat /\ P * (C * b) \in Nat
    BY <1>2, <2>1
  <2> QED
    BY <1>2, <1>3, <1>5, <1>7, <1>12, <2>2, <2>3, <2>4, <2>5
<1>14. x % 3 = col
  <2>1. (q * 3 + col) % 3 = col
    BY <1>2, <1>13, Remainder
  <2> QED
    BY <1>13, <2>1
<1>15. Index(f, col, p, c, b) = x
  <2>1. Index(f, col, p, c, b) = col + 3 * q
    BY <1>1, <1>12 DEF Index
  <2> QED
    BY <1>2, <1>13, <2>1
<1>16. x \in 0 .. S * B - 1
  <2>1. S * B = B * S
    BY <1>2, <1>6
  <2> QED
    BY <1>8, <2>1
<1>17. DataOf(f)[x] =
         LET cell == f.cells[x \div S][(x % S) \div W][(x % W) \div 3]
         IN  CASE x % 3 = 0 -> cell.re [] x % 3 = 1 -> cell.im [] x % 3 = 2 -> cell.weight
  BY <1>1, <1>16 DEF DataOf
<1>18. x % W = r2
  <2>1. PICK d : d = b * C + c
    OBVIOUS
  <2>2. d \in Nat /\ x = d * W + r2
    <3>1. b * C \in Nat /\ b * C * W = b * S
      BY <1>1, <1>2, <1>4
    <3>2. (b * C + c) * W = b * C * W + c * W
      BY <1>2, <1>4, <3>1
    <3>3. c * W \in Nat /\ b * S \in Nat
      BY <1>2, <1>4, <1>6
    <3> QED
      BY <1>2, <1>4, <1>5, <1>7, <2>1, <3>1, <3>2, <3>3
  <2>3. (d * W + r2) % W = r2
    BY <1>4, <2>2, Remainder
  <2> QED
    BY <2>2, <2>3
<1>19. DataOf(f)[x] =
         LET cell == f.cells[b][c][p]
         IN  CASE col = 0 -> cell.re [] col = 1 -> cell.im [] col = 2 -> cell.weight
  BY <1>9, <1>10, <1>11, <1>14, <1>17, <1>18
<1> QED
  BY <1>15, <1>19

\* Every number is a multiple and a rest.
LEMMA Division ==
  ASSUME NEW z \in Nat, NEW l \in Nat, l > 0, NEW q, q = z \div l, NEW b, b = z % l
  PROVE  q \in Nat /\ b \in 0 .. l - 1 /\ z = l * q + b
<1>1. q \in Int /\ b \in Nat /\ b < l /\ z = l * q + b
  OBVIOUS
<1>2. q >= 0
  OBVIOUS
<1>3. q \in Nat /\ b \in 0 .. l - 1
  BY <1>1, <1>2
<1> QED
  BY <1>1, <1>3

\* The cells are gone through channel by channel, each once (uvfits.cc).
LEMMA EveryCellOnce ==
  ASSUME NEW f, WellFormedUvfits(f)
  PROVE  /\ CellsInOrder(f) \in Seq(CellsOf(f))
         /\ \A x, y \in DOMAIN CellsInOrder(f) : CellsInOrder(f)[x] = CellsInOrder(f)[y] => x = y
         /\ \A cell \in CellsOf(f) : \E x \in DOMAIN CellsInOrder(f) : CellsInOrder(f)[x] = cell
<1>1. PICK C, B : C = f.channels /\ B = f.baselines /\ C \in Nat /\ B \in Nat
  BY DEF WellFormedUvfits
<1>2. CellsInOrder(f) = [x \in 1 .. C * B |-> <<(x - 1) \div B, (x - 1) % B>>]
      /\ CellsOf(f) = (0 .. C - 1) \X (0 .. B - 1)
  BY <1>1 DEF CellsInOrder, CellsOf
<1>3. C * B \in Nat
  BY <1>1
<1>4. ASSUME NEW x \in 1 .. C * B
      PROVE  \E q \in 0 .. C - 1, m \in 0 .. B - 1 : CellsInOrder(f)[x] = <<q, m>> /\ x = B * q + m + 1
  <2>1. B > 0
    <3>1. B = 0 => C * B = 0
      BY <1>1
    <3> QED
      BY <1>1, <1>3, <3>1
  <2>2. PICK z, q, m : z = x - 1 /\ q = z \div B /\ m = z % B
    OBVIOUS
  <2>3. q \in Nat /\ m \in Nat /\ m < B /\ x - 1 = B * q + m
    <3>1. z \in Nat
      BY <1>3, <2>2
    <3>2. q \in Nat /\ m \in 0 .. B - 1 /\ z = B * q + m
      BY <1>1, <2>1, <2>2, <3>1, Division
    <3> QED
      BY <1>1, <2>2, <3>2
  <2>4. q < C
    <3>1. CASE C <= q
      <4>1. C * B <= q * B
        BY <1>1, <2>1, <2>3, <3>1, ProductsOrdered
      <4>2. q * B = B * q /\ q * B \in Nat
        BY <1>1, <2>3
      <4> QED
        BY <1>3, <2>3, <4>1, <4>2
    <3> QED
      BY <1>1, <2>3, <3>1
  <2>5. x = B * q + m + 1
    <3>1. B * q \in Nat
      BY <1>1, <2>3
    <3> QED
      BY <1>3, <2>3, <3>1
  <2>6. q \in 0 .. C - 1 /\ m \in 0 .. B - 1
    BY <1>1, <2>3, <2>4
  <2>7. CellsInOrder(f)[x] = <<q, m>>
    BY <1>2, <2>2
  <2> QED
    BY <2>5, <2>6, <2>7
<1>5. CellsInOrder(f) \in Seq(CellsOf(f))
  <2>1. CellsInOrder(f) \in [1 .. C * B -> CellsOf(f)]
    <3>1. \A x \in 1 .. C * B : CellsInOrder(f)[x] \in CellsOf(f)
      BY <1>2, <1>4
    <3> QED
      BY <1>2, <3>1
  <2> QED
    BY <1>3, <2>1
<1>6. \A x, y \in DOMAIN CellsInOrder(f) : CellsInOrder(f)[x] = CellsInOrder(f)[y] => x = y
  <2> SUFFICES ASSUME NEW x \in 1 .. C * B, NEW y \in 1 .. C * B, CellsInOrder(f)[x] = CellsInOrder(f)[y]
               PROVE  x = y
    BY <1>2
  <2>1. PICK q, m : CellsInOrder(f)[x] = <<q, m>> /\ x = B * q + m + 1
    BY <1>4
  <2>2. PICK q_1, m_1 : CellsInOrder(f)[y] = <<q_1, m_1>> /\ y = B * q_1 + m_1 + 1
    BY <1>4
  <2>3. <<q, m>> = <<q_1, m_1>>
    BY <2>1, <2>2
  <2>4. q = q_1 /\ m = m_1
    BY <2>3
  <2> QED
    BY <2>1, <2>2, <2>4
<1>7. \A cell \in CellsOf(f) : \E x \in DOMAIN CellsInOrder(f) : CellsInOrder(f)[x] = cell
  <2> SUFFICES ASSUME NEW cell \in CellsOf(f)
               PROVE  \E x \in DOMAIN CellsInOrder(f) : CellsInOrder(f)[x] = cell
    OBVIOUS
  <2>0. PICK c \in 0 .. C - 1, b \in 0 .. B - 1 : cell = <<c, b>>
    BY <1>2
  <2>1. c \in Nat /\ b \in Nat /\ b < B /\ c < C /\ B > 0
    BY <1>1
  <2>2. c * B \in Nat /\ c * B + B <= C * B
    BY <1>1, <2>1, Steps
  <2>3. PICK x : x = c * B + b + 1
    OBVIOUS
  <2>4. x \in 1 .. C * B /\ x - 1 = c * B + b
    BY <1>1, <1>3, <2>1, <2>2, <2>3
  <2>5. (c * B + b) % B = b /\ (c * B + b) \div B = c
    BY <1>1, <2>1, Remainder
  <2>6. CellsInOrder(f)[x] = <<c, b>>
    BY <1>2, <2>4, <2>5
  <2> QED
    BY <1>2, <2>0, <2>4, <2>6
<1> QED
  BY <1>5, <1>6, <1>7

\* A UVFITS file that is read: every cell that is not flagged, once.
LEMMA UvfitsRead ==
  ASSUME NEW f, WellFormedUvfits(f), NEW p, NEW r \in read_uvfits(f, p), r.outcome = "good"
  PROVE  /\ Enumerates(r.rows, StoredUvfits(f)) /\ r.units = "lambda"
         /\ \E T : r.rows \in Seq(T)
<1> DEFINE checks == HeaderChecks(f, p)
           L == CellsInOrder(f)
           K == {c \in CellsOf(f) : Keep(f, c)}
           kept == Kept(L, K)
<1>1. Unmet(checks) = {}
  <2>1. CASE Unmet(checks) # {}
    <3>1. DOMAIN checks = 1 .. 7 /\ \A x \in 1 .. 7 : checks[x][2] # "good"
      BY DEF HeaderChecks
    <3>2. r = FirstFailure(checks)
      BY <2>1 DEF read_uvfits
    <3> HIDE DEF checks
    <3>3. FirstFailure(checks).outcome # "good"
      BY <2>1, <3>1, FailureIsBad
    <3> QED
      BY <3>2, <3>3
  <2> QED
    BY <2>1
<1>2. f.pols >= 2 /\ r = Vis(read_polarisation_with_flagging(f), f.pointing, "lambda")
  <2>1. Cardinality(PolIndices) = 2
    <3>1. IsFiniteSet({0}) /\ Cardinality({0}) = 1 /\ 1 \notin {0} /\ {0} \cup {1} = {0, 1}
      BY FS_Singleton
    <3>2. Cardinality({0} \cup {1}) = Cardinality({0}) + 1
      BY <3>1, FS_AddElement
    <3> QED
      BY <3>1, <3>2 DEF PolIndices
  <2>2. ~(Cardinality(PolIndices) > f.pols)
    BY <1>1 DEF read_uvfits, Failed
  <2> QED
    BY <1>1, <2>1, <2>2 DEF read_uvfits, WellFormedUvfits
<1>3. \A c \in CellsOf(f) : \A q \in PolIndices :
        /\ read_vis_from_data(f, q, c[1], c[2]) = [re |-> f.cells[c[2]][c[1]][q].re, im |-> f.cells[c[2]][c[1]][q].im]
        /\ read_weight_from_data(f, q, c[1], c[2]) = f.cells[c[2]][c[1]][q].weight
  <2> SUFFICES ASSUME NEW c \in CellsOf(f), NEW q \in PolIndices
               PROVE  /\ read_vis_from_data(f, q, c[1], c[2]) =
                           [re |-> f.cells[c[2]][c[1]][q].re, im |-> f.cells[c[2]][c[1]][q].im]
                      /\ read_weight_from_data(f, q, c[1], c[2]) = f.cells[c[2]][c[1]][q].weight
    OBVIOUS
  <2>1. c[2] \in 0 .. f.baselines - 1 /\ c[1] \in 0 .. f.channels - 1
    BY DEF CellsOf
  <2>2. q \in 0 .. f.pols - 1 /\ 0 \in 0 .. 2 /\ 1 \in 0 .. 2 /\ 2 \in 0 .. 2
    BY <1>2 DEF PolIndices, WellFormedUvfits
  <2>3. /\ DataOf(f)[Index(f, 0, q, c[1], c[2])] = f.cells[c[2]][c[1]][q].re
        /\ DataOf(f)[Index(f, 1, q, c[1], c[2])] = f.cells[c[2]][c[1]][q].im
        /\ DataOf(f)[Index(f, 2, q, c[1], c[2])] = f.cells[c[2]][c[1]][q].weight
    BY <2>1, <2>2, CellData
  <2> QED
    BY <2>3 DEF read_vis_from_data, read_weight_from_data
<1>4. DOMAIN StoredUvfits(f) = K /\ \A c \in K : StoredUvfits(f)[c] = Combined(f, c)
  <2>1. \A c \in CellsOf(f) : Keep(f, c) <=>
          \A q \in PolIndices :
            Unflagged([re |-> f.cells[c[2]][c[1]][q].re, im |-> f.cells[c[2]][c[1]][q].im],
                      f.cells[c[2]][c[1]][q].weight)
    BY <1>3 DEF Keep
  <2>2. DOMAIN StoredUvfits(f) = K
    BY <2>1 DEF StoredUvfits
  <2>3. \A c \in K : StoredUvfits(f)[c] = Combined(f, c)
    <3> SUFFICES ASSUME NEW c \in K PROVE StoredUvfits(f)[c] = Combined(f, c)
      OBVIOUS
    <3>1. c \in CellsOf(f) /\ 0 \in PolIndices /\ 1 \in PolIndices
      BY DEF PolIndices
    <3>2. PICK s : s = Frequency(f, c[1])
      OBVIOUS
    <3>3. s \in Int /\ f.coords[c[2]].v \in Int
      <4>1. c[2] \in 0 .. f.baselines - 1 /\ c[1] \in Nat
        BY <3>1 DEF CellsOf
      <4>2. f.coords[c[2]].v \in Int
        BY <4>1 DEF WellFormedUvfits
      <4>3. 2 * c[1] - f.channels \in Int /\ 2 * f.centre \in Int /\ f.delta \in Int
        BY <4>1 DEF WellFormedUvfits
      <4>4. (2 * c[1] - f.channels) * f.delta \in Int
        BY <4>3
      <4> QED
        BY <3>2, <4>2, <4>3, <4>4 DEF Frequency
    <3>4. -f.coords[c[2]].v * s = -(f.coords[c[2]].v * s)
      BY <3>3
    <3>5. PICK a, e : a = f.cells[c[2]][c[1]][0] /\ e = f.cells[c[2]][c[1]][1]
      OBVIOUS
    <3> HIDE DEF K
    <3>6. c \in DOMAIN StoredUvfits(f)
      BY <2>2
    <3>7. StoredUvfits(f)[c] =
            [u |-> f.coords[c[2]].u * s, v |-> -f.coords[c[2]].v * s, w |-> f.coords[c[2]].w * s,
             vis |-> [re |-> a.re + e.re, im |-> a.im + e.im],
             weights |-> <<2 * a.weight * e.weight, a.weight + e.weight>>]
      BY <3>2, <3>5, <3>6 DEF StoredUvfits
    <3>8. /\ read_vis_from_data(f, 0, c[1], c[2]) = [re |-> a.re, im |-> a.im]
          /\ read_vis_from_data(f, 1, c[1], c[2]) = [re |-> e.re, im |-> e.im]
          /\ read_weight_from_data(f, 0, c[1], c[2]) = a.weight
          /\ read_weight_from_data(f, 1, c[1], c[2]) = e.weight
      BY <1>3, <3>1, <3>5
    <3>9. Combined(f, c) =
            [u |-> f.coords[c[2]].u * s, v |-> -(f.coords[c[2]].v * s), w |-> f.coords[c[2]].w * s,
             vis |-> [re |-> a.re + e.re, im |-> a.im + e.im],
             weights |-> <<2 * a.weight * e.weight, a.weight + e.weight>>]
      BY <3>2, <3>8 DEF Combined
    <3> QED
      BY <3>4, <3>7, <3>9
  <2> QED
    BY <2>2, <2>3
<1>5. /\ L \in Seq(CellsOf(f)) /\ DOMAIN L = 1 .. Len(L)
      /\ \A x, y \in DOMAIN L : L[x] = L[y] => x = y
      /\ \A c \in CellsOf(f) : \E x \in DOMAIN L : L[x] = c
  BY EveryCellOnce
<1>6. K \subseteq CellsOf(f)
  OBVIOUS
<1> HIDE DEF L, K
<1>7. PICK places : places = Restrict(L, {x \in DOMAIN L : L[x] \in K})
  OBVIOUS
<1>8. Enumerates(kept, places) /\ kept \in Seq(CellsOf(f))
  BY <1>5, <1>7, EnumeratesKept, KeptType
<1>9. PICK g : g = [c \in K |-> c]
  OBVIOUS
<1>10. DOMAIN places = {x \in DOMAIN L : L[x] \in K} /\ \A x \in DOMAIN places : places[x] = L[x]
  BY <1>7 DEF Restrict
<1>11. Embeds(L, places, g) /\ \A c \in DOMAIN g : \E x \in DOMAIN places : L[x] = c
  BY <1>5, <1>6, <1>9, <1>10 DEF Embeds
<1> HIDE DEF kept
<1>12. Enumerates(kept, g)
  BY <1>8, <1>11, EnumeratesElsewhere
<1>13. PICK rows : rows = [x \in DOMAIN kept |-> Combined(f, kept[x])]
  OBVIOUS
<1>14. r.rows = rows /\ r.units = "lambda"
  BY <1>2, <1>13 DEF read_polarisation_with_flagging, Vis, kept, K, L
<1>15. DOMAIN kept = 1 .. Len(kept) /\ Len(kept) \in Nat
  BY <1>8
<1>16. Len(rows) = Len(kept) /\ rows \in Seq({rows[x] : x \in DOMAIN kept})
  BY <1>13, <1>15
<1>17. PICK stored : stored = StoredUvfits(f)
  OBVIOUS
<1>18. \A x \in 1 .. Len(kept) : \A c \in DOMAIN g : kept[x] = g[c] => rows[x] = stored[c]
  BY <1>4, <1>9, <1>13, <1>15, <1>17
<1>19. DOMAIN stored = DOMAIN g
  BY <1>4, <1>9, <1>17
<1>20. Enumerates(rows, stored)
  BY <1>12, <1>16, <1>18, <1>19, EnumeratesMapped
<1> QED
  BY <1>14, <1>16, <1>17, <1>20

\* A measurement set that passes the checks is read in each of its channels, in order
\* (casacore.cc).
LEMMA ChannelsOfSet ==
  ASSUME NEW f, WellFormedMs(f), ~TaqlError(f, AllChannels(f)), AllChannels(f) # <<>>
  PROVE  /\ f.windows[1] \in Nat /\ DOMAIN AllChannels(f) = 1 .. f.windows[1]
         /\ AllChannels(f) \in Seq(Int)
         /\ \A j \in 1 .. f.windows[1] : AllChannels(f)[j] = j - 1
<1>1. PICK n : n = f.windows[1] /\ n \in Nat
  BY DEF WellFormedMs
<1>2. f.rows # <<>> /\ n # 0
  <2>1. CASE f.rows = <<>> \/ n = 0
    <3>1. size(f) = 0
      BY <1>1, <2>1 DEF size
    <3>2. AllChannels(f) = [j \in 1 .. 0 |-> (j - 1) * (0 \div (0 - 1))]
      BY <3>1 DEF AllChannels, LinSpaced
    <3>3. AllChannels(f) = <<>>
      BY <3>2
    <3> QED
      BY <3>3
  <2> QED
    BY <2>1
<1>3. size(f) = n
  BY <1>1, <1>2 DEF size
<1>4. CASE n = 1
  <2>1. AllChannels(f) = <<0>>
    BY <1>3, <1>4 DEF AllChannels
  <2> QED
    BY <1>1, <1>4, <2>1
<1>5. CASE n = 2
  <2>1. AllChannels(f) = [j \in 1 .. 2 |-> (j - 1) * (2 \div (2 - 1))]
    BY <1>3, <1>5 DEF AllChannels, LinSpaced
  <2>2. 2 \div (2 - 1) = 2
    OBVIOUS
  <2>3. 2 \in DOMAIN AllChannels(f) /\ AllChannels(f)[2] = 2
    BY <2>1, <2>2
  <2>4. TaqlError(f, AllChannels(f))
    BY <1>2, <1>3, <1>5, <2>3 DEF TaqlError
  <2> QED
    BY <2>4
<1>6. CASE n > 2
  <2>1. PICK q : q = n \div (n - 1)
    OBVIOUS
  <2>2. AllChannels(f) = [j \in 1 .. n |-> (j - 1) * q]
    BY <1>3, <1>6, <2>1 DEF AllChannels, LinSpaced
  <2>3. q = 1
    <3>1. PICK l \in Nat : l = n - 1 /\ l > 1
      BY <1>1, <1>6
    <3>2. n = 1 * l + 1
      BY <1>1, <3>1
    <3>3. (1 * l + 1) \div l = 1
      BY <3>1, Remainder
    <3> QED
      BY <2>1, <3>1, <3>2, <3>3
  <2>4. \A j \in 1 .. n : (j - 1) * 1 = j - 1 /\ j - 1 \in Int
    OBVIOUS
  <2>5. AllChannels(f) = [j \in 1 .. n |-> j - 1]
    BY <2>2, <2>3, <2>4
  <2> QED
    BY <1>1, <2>5
<1> QED
  BY <1>1, <1>2, <1>4, <1>5, <1>6

\* A channel's rows are those it is not flagged in.
LEMMA ChannelRead ==
  ASSUME NEW f, WellFormedMs(f), NEW c
  PROVE  /\ ChannelRows(f, pol, c) \in Seq({ChannelRow(f, pol, c, row) : row \in Range(f.rows)})
         /\ Enumerates(ChannelRows(f, pol, c),
                       [x \in {y \in DOMAIN f.rows : c \notin f.rows[y].flagged} |->
                          ChannelRow(f, pol, c, f.rows[x])])
<1> DEFINE R == f.rows
           S == {row \in Range(R) : c \notin row.flagged}
           kept == Kept(R, S)
<1>1. R \in Seq(Range(R)) /\ \A x \in DOMAIN R : R[x] \in Range(R)
  BY DEF WellFormedMs, Range
<1>2. PICK places : places = Restrict(R, {x \in DOMAIN R : R[x] \in S})
  OBVIOUS
<1>3. Enumerates(kept, places) /\ kept \in Seq(Range(R))
  BY <1>1, <1>2, EnumeratesKept, KeptType
<1>4. PICK g : g = [x \in {y \in DOMAIN R : c \notin R[y].flagged} |-> ChannelRow(f, pol, c, R[x])]
  OBVIOUS
<1>5. {x \in DOMAIN R : R[x] \in S} = {y \in DOMAIN R : c \notin R[y].flagged}
  BY <1>1
<1>6. DOMAIN g = DOMAIN places /\ \A x \in DOMAIN places : g[x] = ChannelRow(f, pol, c, places[x])
  BY <1>2, <1>4, <1>5 DEF Restrict
<1>7. PICK rows : rows = [x \in DOMAIN kept |-> ChannelRow(f, pol, c, kept[x])]
  OBVIOUS
<1>8. ChannelRows(f, pol, c) = rows
  BY <1>7 DEF ChannelRows, FilteredRows
<1> HIDE DEF kept
<1>9. DOMAIN kept = 1 .. Len(kept) /\ Len(kept) \in Nat /\ \A x \in 1 .. Len(kept) : kept[x] \in Range(R)
  BY <1>3
<1>10. Len(rows) = Len(kept) /\ rows \in Seq({ChannelRow(f, pol, c, row) : row \in Range(R)})
  BY <1>7, <1>9
<1>11. \A x \in 1 .. Len(kept) : \A p \in DOMAIN places : kept[x] = places[p] => rows[x] = g[p]
  BY <1>6, <1>7, <1>9
<1>12. Enumerates(rows, g)
  BY <1>3, <1>6, <1>10, <1>11, EnumeratesMapped
<1> QED
  BY <1>4, <1>8, <1>10, <1>12

\* A measurement set that is read: every row in every channel it is not flagged in, once.
LEMMA SetRead ==
  ASSUME NEW f, WellFormedMs(f), NEW r \in read_measurementset(f, pol, <<>>), r.outcome = "good"
  PROVE  /\ Enumerates(r.rows, StoredMs(f)) /\ r.units = "lambda"
         /\ \E T : r.rows \in Seq(T)
<1> DEFINE channels == AllChannels(f)
           checks == ReadChecks(f, channels)
           n == f.windows[1]
           Of(c) == [x \in {y \in DOMAIN f.rows : c \notin f.rows[y].flagged} |->
                       ChannelRow(f, pol, c, f.rows[x])]
           seqs == [j \in DOMAIN channels |-> ChannelRows(f, pol, channels[j])]
           F == [j \in 1 .. n |-> Of(channels[j])]
           G == [c \in DOMAIN f.frequency |-> Of(c)]
           T == UNION {{ChannelRow(f, pol, j - 1, row) : row \in Range(f.rows)} : j \in 1 .. n}
<1>1. Unmet(checks) = {}
  <2>1. CASE Unmet(checks) # {}
    <3>1. DOMAIN checks = 1 .. 6 /\ \A x \in 1 .. 6 : checks[x][2] # "good"
      BY DEF ReadChecks
    <3>2. r = FirstFailure(checks)
      BY <2>1 DEF read_measurementset
    <3> HIDE DEF checks
    <3>3. FirstFailure(checks).outcome # "good"
      BY <2>1, <3>1, FailureIsBad
    <3> QED
      BY <3>2, <3>3
  <2> QED
    BY <2>1
<1>2. r = Vis(FlattenSeq(seqs), direction(f, channels[1]), "lambda")
  BY <1>1 DEF read_measurementset
<1>3. ~TaqlError(f, channels) /\ channels # <<>>
  <2>1. DOMAIN checks = 1 .. 6 /\ checks[3][1] = ~TaqlError(f, channels) /\ checks[4][1] = (channels # <<>>)
    BY DEF ReadChecks
  <2> HIDE DEF checks
  <2>2. checks[3][1] /\ checks[4][1]
    BY <1>1, <2>1 DEF Unmet
  <2> QED
    BY <2>1, <2>2
<1>4. /\ n \in Nat /\ DOMAIN channels = 1 .. n /\ \A j \in 1 .. n : channels[j] = j - 1
      /\ DOMAIN f.frequency = 0 .. n - 1
  BY <1>3, ChannelsOfSet DEF WellFormedMs
<1> HIDE DEF channels, checks
<1>5. \A j \in 1 .. n : /\ seqs[j] \in Seq({ChannelRow(f, pol, j - 1, row) : row \in Range(f.rows)})
                        /\ Enumerates(seqs[j], F[j])
  <2> SUFFICES ASSUME NEW j \in 1 .. n
               PROVE  /\ seqs[j] \in Seq({ChannelRow(f, pol, j - 1, row) : row \in Range(f.rows)})
                      /\ Enumerates(seqs[j], F[j])
    OBVIOUS
  <2>1. PICK c : c = channels[j] /\ c = j - 1
    BY <1>4
  <2>2. seqs[j] = ChannelRows(f, pol, c) /\ F[j] = Of(c)
    BY <1>4, <2>1
  <2>3. /\ ChannelRows(f, pol, c) \in Seq({ChannelRow(f, pol, c, row) : row \in Range(f.rows)})
        /\ Enumerates(ChannelRows(f, pol, c), Of(c))
    BY ChannelRead
  <2> HIDE DEF Of, seqs, F
  <2> QED
    BY <2>1, <2>2, <2>3
<1>6. seqs \in Seq(Seq(T)) /\ Len(seqs) = n /\ DOMAIN F = 1 .. n
  <2>1. \A j \in 1 .. n : seqs[j] \in Seq(T)
    <3> TAKE j \in 1 .. n
    <3> DEFINE U == {ChannelRow(f, pol, j - 1, row) : row \in Range(f.rows)}
    <3>1. U \subseteq T
      OBVIOUS
    <3>2. seqs[j] \in Seq(U)
      BY <1>5
    <3> HIDE DEF U, T, seqs
    <3> QED
      BY <3>1, <3>2
  <2>2. DOMAIN seqs = 1 .. n
    BY <1>4
  <2>3. seqs = [j \in 1 .. n |-> seqs[j]]
    BY <1>4
  <2> HIDE DEF seqs, T, n
  <2>4. seqs \in [1 .. n -> Seq(T)]
    BY <2>1, <2>3
  <2>5. seqs \in Seq(Seq(T)) /\ Len(seqs) = n
    BY <1>4, <2>4
  <2> QED
    BY <2>5
<1> HIDE DEF seqs, T, F, G, n
<1>7. Enumerates(FlattenSeq(seqs), SideBySide(F)) /\ FlattenSeq(seqs) \in Seq(T)
  <2>1. \A j \in 1 .. Len(seqs) : Enumerates(seqs[j], F[j])
    BY <1>5, <1>6
  <2> QED
    BY <1>6, <2>1, EnumeratesFlattened
<1>8. /\ channels \in [DOMAIN F -> DOMAIN G]
      /\ \A a, c \in DOMAIN F : channels[a] = channels[c] => a = c
      /\ \A d \in DOMAIN G : \E a \in DOMAIN F : channels[a] = d
      /\ \A a \in DOMAIN F : F[a] = G[channels[a]]
  <2>1. DOMAIN G = 0 .. n - 1 /\ \A d \in 0 .. n - 1 : G[d] = Of(d)
    BY <1>4 DEF G
  <2>2. \A a \in 1 .. n : F[a] = Of(channels[a])
    BY DEF F
  <2>3. \A a \in 1 .. n : channels[a] \in 0 .. n - 1 /\ channels[a] = a - 1
    BY <1>4
  <2>4. \A d \in 0 .. n - 1 : d + 1 \in 1 .. n /\ channels[d + 1] = d
    BY <1>4
  <2>5. \A a, c \in 1 .. n : a - 1 = c - 1 => a = c
    BY <1>4
  <2>6. channels \in [1 .. n -> 0 .. n - 1]
    <3>1. channels = [a \in 1 .. n |-> channels[a]]
      BY <1>4, ChannelsOfSet, <1>3 DEF channels
    <3> QED
      BY <2>3, <3>1
  <2>7. \A a, c \in DOMAIN F : channels[a] = channels[c] => a = c
    BY <1>6, <2>3, <2>5
  <2>8. \A d \in DOMAIN G : \E a \in DOMAIN F : channels[a] = d
    BY <1>6, <2>1, <2>4
  <2> HIDE DEF Of
  <2>9. \A a \in DOMAIN F : F[a] = G[channels[a]]
    BY <1>6, <2>1, <2>2, <2>3
  <2> QED
    BY <1>6, <2>1, <2>6, <2>7, <2>8, <2>9
<1>9. Enumerates(FlattenSeq(seqs), SideBySide(G))
  BY <1>7, <1>8, EnumeratesRenamed
<1>10. StoredMs(f) = SideBySide(G)
  BY DEF StoredMs, G
<1>11. r.rows = FlattenSeq(seqs) /\ r.units = "lambda"
  BY <1>2 DEF Vis
<1> QED
  BY <1>7, <1>9, <1>10, <1>11

(***************************************************************************)
(* ProgramInput: what is returned has the rows of the files that were there*)
(***************************************************************************)

\* Every result of a reader is a record of these fields.
IsResult(r) == DOMAIN r = {"outcome", "rows", "pointing", "units"}
IsList(s) == \E T : s \in Seq(T)

\* The result r holds the values of f, each as a row of its own.
Holds(r, f) == IsResult(r) /\ IsList(r.rows) /\ Enumerates(r.rows, f)

AllFound == \A m \in DOMAIN found_files : Exists(found_files[m])
OneFormat == format_type \in Formats /\ \A m \in DOMAIN found_files : FormatOf(found_files[m]) = format_type

\* The names before the n-th that are there, all of them, the rows of the first n files that
\* were found, and of all that are there: as they are stored, and as main is given them.
FoundBefore(n) == Restrict(names, {m \in 1 .. n - 1 : Exists(names[m])})
FoundInAll == Restrict(names, ThereIn(names))
ReadSoFar(n) == SideBySide([m \in 1 .. n |-> Stored(disk[found_files[m]])])
AllRows == SideBySide([n \in ThereIn(names) |-> Stored(disk[names[n]])])
AllRowsFolded ==
  SideBySide([n \in ThereIn(names) |-> LET stored == Stored(disk[names[n]])
                                       IN  [x \in DOMAIN stored |-> Folded(stored[x])]])
UnitsOfFormat == IF format_type \in {"vis", "h5"} THEN units ELSE "lambda"

\* The inductive invariant.
ConfigInv ==
  /\ \E b \in Beginnings : (b.section = "library" <=> section = "library") /\ config = b.config
  /\ section \notin {"file", "library", "failed"} => config # NoFile
  /\ section \in PastGeneral => Got(SourceKeys)

DiskInv ==
  /\ DOMAIN disk = Files
  /\ \A name \in Files : disk[name] = Missing \/ Formed(name, disk[name])

StageInv ==
  /\ names \in Seq(Files)
  /\ stage \in {"idle", "scan", "read", "join", "returned", "ready"}
  /\ stage # "idle" => section \in {"parsed", "library"}
  /\ stage = "idle" => names = <<>> /\ i = 1 /\ found_files = <<>> /\ format_type = "uvfits"

ScanInv ==
  /\ i \in 1 .. Len(names) + 1 /\ found_files \in Seq(Files) /\ Len(found_files) < i
  /\ OneFormat
  /\ AllFound => Enumerates(found_files, FoundBefore(i))

FoundInv ==
  /\ found_files \in Seq(Files) /\ found_files # <<>> /\ i \in 1 .. Len(found_files) + 1
  /\ OneFormat
  /\ AllFound => Enumerates(found_files, FoundInAll)

JoinInv ==
  /\ i > 1
  /\ AllFound \/ \E m \in i .. Len(found_files) : ~Exists(found_files[m])
  /\ AllFound /\ WColumnsFit => Holds(uv, ReadSoFar(i - 1)) /\ uv.units = "lambda"

RowsInv ==
  /\ ConfigInv /\ DiskInv /\ StageInv
  /\ stage = "scan" => ScanInv
  /\ stage \in {"read", "join"} => FoundInv
  /\ stage = "read" => i = 1
  /\ stage = "join" => JoinInv
  /\ stage = "returned" /\ uv.outcome = "good" /\ WColumnsFit =>
       Holds(uv, AllRows) /\ uv.units = UnitsOfFormat
  /\ stage = "ready" /\ uv.outcome = "good" /\ names # <<>> /\ WColumnsFit =>
       Holds(uv, AllRowsFolded) /\ uv.units = UnitsOfFormat

\* Rows that enumerate those of the files hold each as often as the files do.
LEMMA InvOwnRows == RowsInv => OwnRows
<1> SUFFICES ASSUME RowsInv, stage = "ready" /\ uv.outcome = "good" /\ names # <<>> /\ WColumnsFit
             PROVE  /\ \A row \in Range(uv.rows) \union Range(AllRowsFolded) :
                         Occurrences(uv.rows, row) = Occurrences(AllRowsFolded, row)
                    /\ uv.units = IF format_type \in {"vis", "h5"} THEN units ELSE "lambda"
  BY DEF OwnRows, AllRowsFolded
<1>1. Holds(uv, AllRowsFolded) /\ uv.units = UnitsOfFormat
  BY DEF RowsInv
<1>2. PICK T : uv.rows \in Seq(T)
  BY <1>1 DEF Holds, IsList
<1>3. Enumerates(uv.rows, AllRowsFolded)
  BY <1>1 DEF Holds
<1>4. \A row : Occurrences(uv.rows, row) = Occurrences(AllRowsFolded, row)
  BY <1>2, <1>3, EnumeratedOften
<1> QED
  BY <1>1, <1>4 DEF UnitsOfFormat

\* What the invariant is about stays as it is with the files, the names and the arguments.
LEMMA SameStored ==
  ASSUME pol' = pol
  PROVE  \A f : Stored(f)' = Stored(f)
BY DEF Stored, StoredMs

\* The names before one depend on the names and the disk alone.
LEMMA SameNames ==
  ASSUME disk' = disk, names' = names
  PROVE  \A n : FoundBefore(n)' = FoundBefore(n)
BY DEF FoundBefore, Exists

\* What was found and what it holds.
LEMMA SameFiles ==
  ASSUME disk' = disk, names' = names, found_files' = found_files, pol' = pol
  PROVE  /\ AllFound' = AllFound /\ FoundInAll' = FoundInAll /\ AllRows' = AllRows
         /\ \A n : ReadSoFar(n)' = ReadSoFar(n)
<1>1. AllFound' = AllFound
  BY DEF AllFound, Exists
<1>2. ThereIn(names)' = ThereIn(names)
  BY DEF ThereIn, Exists
<1>3. FoundInAll' = FoundInAll
  BY <1>2 DEF FoundInAll
<1>4. AllRows' = AllRows
  BY <1>2, SameStored DEF AllRows
<1>5. \A n : ReadSoFar(n)' = ReadSoFar(n)
  BY SameStored DEF ReadSoFar
<1> QED
  BY <1>1, <1>3, <1>4, <1>5

\* The w columns and the formats.
LEMMA SameColumns ==
  ASSUME disk' = disk, names' = names, found_files' = found_files, w_term' = w_term,
         format_type' = format_type
  PROVE  WColumnsFit' = WColumnsFit /\ OneFormat' = OneFormat
BY DEF WColumnsFit, OneFormat, Listed, Exists

\* The files on the disk.
LEMMA SameDisk ==
  ASSUME DiskInv, disk' = disk
  PROVE  DiskInv'
BY DEF DiskInv


\* Whatever a reader makes of a file is a result.
LEMMA ReadersReturnResults ==
  ASSUME NEW ext, NEW f, NEW p
  PROVE  /\ \A has_w : \A r \in read_visibility(ext, f, has_w) : IsResult(r)
         /\ \A r \in read_uvfits(f, p) : IsResult(r)
         /\ \A r \in read_measurementset(f, p, <<>>) : IsResult(r)
<1>1. (\A how_failed : IsResult(Failed(how_failed)))
      /\ \A rows, pointing, of : IsResult(Vis(rows, pointing, of))
  BY DEF IsResult, Failed, Vis
<1>2. \A has_w : \A r \in read_visibility(ext, f, has_w) : IsResult(r)
  BY <1>1 DEF read_visibility, read_visibility_h5, read_visibility_csv
<1>3. \A r \in read_uvfits(f, p) : IsResult(r)
  BY <1>1 DEF read_uvfits, FirstFailure
<1>4. \A r \in read_measurementset(f, p, <<>>) : IsResult(r)
  BY <1>1 DEF read_measurementset, FirstFailure
<1> QED
  BY <1>2, <1>3, <1>4

\* What one of the readers makes of a file that is there, of the format of its name.
ReadsOf(format, name, f, polarisation) ==
  CASE format \in {"vis", "h5"} -> read_visibility(Suffix(name), f, f.has_w)
    [] format = "uvfits" -> read_uvfits(f.content, polarisation)
    [] format = "ms" -> read_measurementset(f.content, pol, <<>>)

\* A file that was read is held as it is stored, whichever the reader.
LEMMA FileRead ==
  ASSUME NEW n \in Files, FormatOf(n) \in Formats, NEW f, Formed(n, f), NEW p,
         NEW r \in ReadsOf(FormatOf(n), n, f, p), r.outcome = "good"
  PROVE  Holds(r, Stored(f)) /\ r.units = "lambda"
<1>1. CASE FormatOf(n) \in {"vis", "h5"}
  <2>1. r \in read_visibility(Suffix(n), f, f.has_w)
    BY <1>1 DEF ReadsOf
  <2>2. r.rows = f.rows /\ r.units = "lambda" /\ f.rows \in Seq(Rows) /\ Stored(f) = f.rows
    BY <1>1, <2>1, VisibilityRead
  <2>3. Enumerates(f.rows, f.rows)
    BY <2>2, EnumeratesItself
  <2>4. IsResult(r)
    BY <2>1, ReadersReturnResults
  <2> QED
    BY <2>2, <2>3, <2>4 DEF Holds, IsList
<1>2. CASE FormatOf(n) = "uvfits"
  <2>1. r \in read_uvfits(f.content, p)
    BY <1>2 DEF ReadsOf
  <2>2. f.layout = "uvfits" /\ WellFormedUvfits(f.content)
    BY <1>2 DEF Formed
  <2>3. Stored(f) = StoredUvfits(f.content)
    BY <2>2 DEF Stored
  <2>4. /\ Enumerates(r.rows, StoredUvfits(f.content)) /\ r.units = "lambda"
        /\ \E T : r.rows \in Seq(T)
    BY <2>1, <2>2, UvfitsRead
  <2>5. IsResult(r)
    BY <2>1, ReadersReturnResults
  <2> QED
    BY <2>3, <2>4, <2>5 DEF Holds, IsList
<1>3. CASE FormatOf(n) = "ms"
  <2>1. r \in read_measurementset(f.content, pol, <<>>)
    BY <1>3 DEF ReadsOf
  <2>2. f.layout = "ms" /\ WellFormedMs(f.content)
    BY <1>3 DEF Formed
  <2>3. Stored(f) = StoredMs(f.content)
    BY <2>2 DEF Stored
  <2>4. /\ Enumerates(r.rows, StoredMs(f.content)) /\ r.units = "lambda"
        /\ \E T : r.rows \in Seq(T)
    BY <2>1, <2>2, SetRead
  <2>5. IsResult(r)
    BY <2>1, ReadersReturnResults
  <2> QED
    BY <2>3, <2>4, <2>5 DEF Holds, IsList
<1> QED
  BY <1>1, <1>2, <1>3 DEF Formats

\* With the w columns that the readers take for granted, a file found has one as the caller says.
LEMMA ColumnsOfFound ==
  ASSUME RowsInv, stage \in {"read", "join"}, AllFound, WColumnsFit, NEW m \in 1 .. Len(found_files)
  PROVE  /\ found_files[m] \in Files /\ FormatOf(found_files[m]) = format_type /\ format_type \in Formats
         /\ disk[found_files[m]] # Missing /\ Formed(found_files[m], disk[found_files[m]])
         /\ format_type \in {"vis", "h5"} => disk[found_files[m]].has_w = w_term
<1>1. FoundInv /\ DiskInv /\ names \in Seq(Files)
  BY DEF RowsInv, StageInv
<1>2. PICK name : name = found_files[m]
  OBVIOUS
<1>3. name \in Files /\ FormatOf(name) = format_type /\ format_type \in Formats /\ Exists(name)
  BY <1>1, <1>2 DEF FoundInv, OneFormat, AllFound
<1>4. disk[name] # Missing /\ Formed(name, disk[name])
  BY <1>1, <1>3 DEF DiskInv, Exists
<1>5. name \in Listed
  <2>1. Enumerates(found_files, FoundInAll)
    BY <1>1 DEF FoundInv
  <2>2. PICK b : InOrder(b, Len(found_files), found_files, FoundInAll)
    BY <2>1 DEF Enumerates
  <2>3. b[m] \in DOMAIN FoundInAll /\ name = FoundInAll[b[m]]
    BY <1>2, <2>2 DEF InOrder
  <2>4. b[m] \in DOMAIN names /\ name = names[b[m]]
    BY <2>3 DEF FoundInAll, Restrict, ThereIn
  <2> QED
    BY <1>3, <2>4 DEF Listed, Range
<1>6. format_type \in {"vis", "h5"} => disk[name].has_w = w_term
  BY <1>5 DEF WColumnsFit
<1> QED
  BY <1>2, <1>3, <1>4, <1>6


\* A text or HDF5 file is stored as its rows, and a w needs a column.
LEMMA RowsOfFile ==
  ASSUME NEW n, FormatOf(n) \in {"vis", "h5"}, NEW f, Formed(n, f)
  PROVE  /\ Stored(f) = f.rows /\ f.rows \in Seq(Rows) /\ f.has_w \in BOOLEAN
         /\ ~f.has_w => ~HasW(f.rows)
<1>1. CASE FormatOf(n) = "vis"
  BY <1>1 DEF Formed, WellFormedText, HoldsRows, Stored
<1>2. CASE FormatOf(n) = "h5"
  BY <1>2 DEF Formed, WellFormedH5, HoldsRows, Stored
<1> QED
  BY <1>1, <1>2

\* The question whether a w so far was not 0 has the answer that later files need.
LEMMA ColumnsAsRead ==
  ASSUME RowsInv, stage = "join", AllFound, WColumnsFit, i \in 1 .. Len(found_files),
         format_type \in {"vis", "h5"}
  PROVE  HasW(uv.rows) = disk[found_files[i]].has_w
<1> DEFINE file_of(m) == disk[found_files[m]]
           F == [m \in 1 .. i - 1 |-> Stored(file_of(m))]
<1>1. /\ i \in Nat /\ i > 1 /\ Len(found_files) \in Nat
      /\ Holds(uv, SideBySide(F))
  BY DEF RowsInv, JoinInv, FoundInv, ReadSoFar
<1>2. \A m \in 1 .. Len(found_files) :
        /\ Stored(file_of(m)) = file_of(m).rows /\ file_of(m).rows \in Seq(Rows)
        /\ file_of(m).has_w \in BOOLEAN /\ file_of(m).has_w = w_term
        /\ ~file_of(m).has_w => ~HasW(file_of(m).rows)
  <2> TAKE m \in 1 .. Len(found_files)
  <2>1. FormatOf(found_files[m]) = format_type /\ Formed(found_files[m], file_of(m))
        /\ file_of(m).has_w = w_term
    BY ColumnsOfFound
  <2> HIDE DEF file_of
  <2> QED
    BY <2>1, RowsOfFile
<1>3. PICK b : InOrder(b, Len(uv.rows), uv.rows, SideBySide(F))
  BY <1>1 DEF Holds, Enumerates
<1>4. PICK T : uv.rows \in Seq(T)
  BY <1>1 DEF Holds, IsList
<1>5. DOMAIN uv.rows = 1 .. Len(uv.rows)
  BY <1>4
<1>6. \A m \in 1 .. i - 1 : m \in 1 .. Len(found_files)
  BY <1>1
<1>7. DOMAIN F = 1 .. i - 1 /\ \A m \in 1 .. i - 1 : F[m] = file_of(m).rows
  BY <1>2, <1>6
<1>8. w_term \in BOOLEAN /\ disk[found_files[i]].has_w = w_term
  BY <1>1, <1>2
<1> HIDE DEF file_of, F
<1>9. CASE ~w_term
  <2>0. disk[found_files[i]].has_w = FALSE
    BY <1>8, <1>9
  <2> SUFFICES ASSUME NEW x \in DOMAIN uv.rows PROVE uv.rows[x].w = 0
    BY <2>0 DEF HasW
  <2>1. b[x] \in DOMAIN SideBySide(F) /\ uv.rows[x] = SideBySide(F)[b[x]]
    BY <1>3, <1>5 DEF InOrder
  <2>2. PICK p : p = b[x]
    OBVIOUS
  <2>3. p[1] \in DOMAIN F /\ p[2] \in DOMAIN F[p[1]] /\ uv.rows[x] = F[p[1]][p[2]]
    BY <2>1, <2>2, PlacesSideBySide
  <2>4. ~HasW(file_of(p[1]).rows) /\ F[p[1]] = file_of(p[1]).rows
    BY <1>2, <1>6, <1>7, <1>9, <2>3
  <2> QED
    BY <2>3, <2>4 DEF HasW
<1>10. CASE w_term
  <2>0. Len(found_files) > 1
    BY <1>1
  <2>1. HasW(file_of(1).rows)
    BY <1>10, <2>0 DEF WColumnsFit, file_of
  <2>2. PICK y \in DOMAIN file_of(1).rows : file_of(1).rows[y].w # 0
    BY <2>1 DEF HasW
  <2>3. 1 \in 1 .. i - 1
    BY <1>1
  <2>4. <<1, y>> \in DOMAIN SideBySide(F) /\ SideBySide(F)[<<1, y>>] = file_of(1).rows[y]
    BY <1>7, <2>2, <2>3, PlacesSideBySide
  <2>5. PICK x \in 1 .. Len(uv.rows) : b[x] = <<1, y>>
    BY <1>3, <2>4 DEF InOrder
  <2>6. uv.rows[x] = SideBySide(F)[<<1, y>>]
    BY <1>3, <2>5 DEF InOrder
  <2>7. uv.rows[x].w # 0
    BY <2>2, <2>4, <2>6
  <2>8. HasW(uv.rows)
    BY <1>5, <2>5, <2>7 DEF HasW
  <2>9. disk[found_files[i]].has_w = TRUE
    BY <1>8, <1>10
  <2> QED
    BY <2>8, <2>9 DEF HasW
<1> QED
  BY <1>8, <1>9, <1>10

\* The next file is read whole and its rows come after the others.
LEMMA NextFileRead ==
  ASSUME RowsInv, stage = "join", AllFound, WColumnsFit, i \in 1 .. Len(found_files),
         NEW r \in NextRead(found_files[i]), r.outcome = "good"
  PROVE  /\ IsResult(r) /\ r.units = "lambda"
         /\ \E s : Holds(s, Stored(disk[found_files[i]])) /\ r.rows = uv.rows \o s.rows
<1>1. PICK n : n = found_files[i]
  OBVIOUS
<1>2. PICK f : f = disk[n]
  OBVIOUS
<1>3. /\ n \in Files /\ FormatOf(n) = format_type /\ format_type \in Formats
      /\ f # Missing /\ Formed(n, f)
  BY <1>1, <1>2, ColumnsOfFound
<1>4. Exists(n)
  BY <1>2, <1>3 DEF Exists
<1>5. \A s \in ReadsOf(format_type, n, f, "I") : s.outcome = "good" => Holds(s, Stored(f))
  BY <1>3, FileRead
<1>7. \E s \in ReadsOf(format_type, n, f, "I") :
         s.outcome = "good" /\ \E pointing : r = Vis(uv.rows \o s.rows, pointing, "lambda")
  <2>1. CASE format_type \in {"vis", "h5"}
    <3>1. HasW(uv.rows) = f.has_w
      BY <1>1, <1>2, <2>1, ColumnsAsRead
    <3>2. r \in read_next_visibility(Suffix(n), f, uv)
      BY <1>1, <1>2, <1>4, <2>1 DEF NextRead
    <3>3. PICK s \in read_visibility(Suffix(n), f, HasW(uv.rows)) :
            r = IF s.outcome = "good" THEN JoinBlind(uv, s) ELSE s
      BY <3>2 DEF read_next_visibility, JoinedResults
    <3>4. s.outcome = "good" /\ r = JoinBlind(uv, s)
      BY <3>3
    <3>5. s \in ReadsOf(format_type, n, f, "I")
      BY <2>1, <3>1 DEF ReadsOf
    <3> QED
      BY <3>4, <3>5 DEF JoinBlind
  <2>2. CASE format_type = "uvfits"
    <3>1. r \in read_next_uvfits(f.content, uv)
      BY <1>1, <1>2, <1>4, <2>2 DEF NextRead
    <3>2. PICK s \in read_uvfits(f.content, "I") :
            r = IF s.outcome = "good" THEN JoinPointed(uv, s) ELSE s
      BY <3>1 DEF read_next_uvfits, JoinedResults
    <3>3. s.outcome = "good" /\ r = JoinPointed(uv, s)
      BY <3>2
    <3>4. r = Vis(uv.rows \o s.rows, uv.pointing, "lambda")
      BY <3>3 DEF JoinPointed, Failed
    <3>5. s \in ReadsOf(format_type, n, f, "I")
      BY <2>2 DEF ReadsOf
    <3> QED
      BY <3>3, <3>4, <3>5
  <2>3. CASE format_type = "ms"
    <3>1. r \in read_next_measurementset(f.content, uv, pol)
      BY <1>1, <1>2, <1>4, <2>3 DEF NextRead
    <3>2. PICK s \in read_measurementset(f.content, pol, <<>>) :
            r = IF s.outcome = "good" THEN JoinPointed(uv, s) ELSE s
      BY <3>1 DEF read_next_measurementset, JoinedResults
    <3>3. s.outcome = "good" /\ r = JoinPointed(uv, s)
      BY <3>2
    <3>4. r = Vis(uv.rows \o s.rows, uv.pointing, "lambda")
      BY <3>3 DEF JoinPointed, Failed
    <3>5. s \in ReadsOf(format_type, n, f, "I")
      BY <2>3 DEF ReadsOf
    <3> QED
      BY <3>3, <3>4, <3>5
  <2> QED
    BY <1>3, <2>1, <2>2, <2>3 DEF Formats
<1>8. PICK s \in ReadsOf(format_type, n, f, "I") :
         s.outcome = "good" /\ \E pointing : r = Vis(uv.rows \o s.rows, pointing, "lambda")
  BY <1>7
<1>9. Holds(s, Stored(f))
  BY <1>5, <1>8
<1>10. IsResult(r) /\ r.units = "lambda" /\ r.rows = uv.rows \o s.rows
  <2>1. PICK pointing : r = Vis(uv.rows \o s.rows, pointing, "lambda")
    BY <1>8
  <2>2. PICK d : d = uv.rows \o s.rows
    OBVIOUS
  <2>3. r = Vis(d, pointing, "lambda")
    BY <2>1, <2>2
  <2>4. IsResult(r) /\ r.rows = d /\ r.units = "lambda"
    BY ONLY <2>3 DEF Vis, IsResult
  <2> QED
    BY <2>2, <2>4
<1> QED
  BY <1>1, <1>2, <1>9, <1>10


\* Two lists have their elements in one set.
LEMMA JoinedIsList ==
  ASSUME NEW s, NEW t, IsList(s), IsList(t)
  PROVE  \E T : s \in Seq(T) /\ t \in Seq(T) /\ s \o t \in Seq(T)
<1>1. PICK S : s \in Seq(S)
  BY DEF IsList
<1>2. PICK T : t \in Seq(T)
  BY DEF IsList
<1>3. PICK U : U = S \union T
  OBVIOUS
<1>4. S \subseteq U /\ T \subseteq U
  BY <1>3
<1>5. s \in Seq(U) /\ t \in Seq(U)
  BY <1>1, <1>2, <1>4
<1> QED
  BY <1>5

\* One file more.
LEMMA OneFileMore ==
  ASSUME NEW n \in Nat, NEW rows, IsList(rows), Enumerates(rows, ReadSoFar(n)),
         NEW s, IsList(s), Enumerates(s, Stored(disk[found_files[n+1]]))
  PROVE  IsList(rows \o s) /\ Enumerates(rows \o s, ReadSoFar(n+1))
<1> DEFINE F == [m \in 1 .. n |-> Stored(disk[found_files[m]])]
           G == [m \in 1 .. n+1 |-> Stored(disk[found_files[m]])]
<1>1. PICK T : rows \in Seq(T) /\ s \in Seq(T) /\ rows \o s \in Seq(T)
  BY JoinedIsList
<1>2. ReadSoFar(n) = SideBySide(F) /\ ReadSoFar(n+1) = SideBySide(G)
  BY DEF ReadSoFar
<1>3. n+1 \notin DOMAIN F /\ DOMAIN G = DOMAIN F \cup {n+1} /\ n+1 \in DOMAIN G
  OBVIOUS
<1>4. G[n+1] = Stored(disk[found_files[n+1]]) /\ \A c \in DOMAIN F : G[c] = F[c]
  OBVIOUS
<1> HIDE DEF F, G
<1>5. Enumerates(rows \o s, SideBySide(G))
  BY <1>1, <1>2, <1>3, <1>4, EnumeratesOneMore
<1> QED
  BY <1>1, <1>2, <1>5 DEF IsList

\* The first file is read with the caller's word for the w column.
LEMMA FirstFileRead ==
  ASSUME RowsInv, stage = "read", AllFound, WColumnsFit, NEW r \in FirstRead(found_files[1]),
         r.outcome = "good"
  PROVE  Holds(r, ReadSoFar(1)) /\ r.units = "lambda"
<1>1. PICK n : n = found_files[1]
  OBVIOUS
<1>2. PICK f : f = disk[n]
  OBVIOUS
<1>3. 1 \in 1 .. Len(found_files)
  BY DEF RowsInv, FoundInv
<1>4. /\ n \in Files /\ FormatOf(n) = format_type /\ format_type \in Formats
      /\ f # Missing /\ Formed(n, f) /\ (format_type \in {"vis", "h5"} => f.has_w = w_term)
  BY <1>1, <1>2, <1>3, ColumnsOfFound
<1>5. Exists(n)
  BY <1>2, <1>4 DEF Exists
<1>6. r \in ReadsOf(format_type, n, f, pol)
  <2>1. CASE format_type \in {"vis", "h5"}
    <3>1. f.has_w = w_term
      BY <1>4, <2>1
    <3> QED
      BY <1>1, <1>2, <1>5, <2>1, <3>1 DEF FirstRead, ReadsOf
  <2>2. CASE format_type = "uvfits"
    BY <1>1, <1>2, <1>5, <2>2 DEF FirstRead, ReadsOf
  <2>3. CASE format_type = "ms"
    BY <1>1, <1>2, <1>5, <2>3 DEF FirstRead, ReadsOf
  <2> QED
    BY <1>4, <2>1, <2>2, <2>3 DEF Formats
<1>7. Holds(r, Stored(f)) /\ r.units = "lambda"
  BY <1>4, <1>6, FileRead
<1>8. DOMAIN ReadSoFar(0) = {}
  <2>1. PICK F : F = [m \in 1 .. 0 |-> Stored(disk[found_files[m]])]
    OBVIOUS
  <2>2. DOMAIN F = {}
    BY <2>1
  <2>3. \A p \in DOMAIN SideBySide(F) : p[1] \in DOMAIN F
    BY PlacesSideBySide
  <2>4. ReadSoFar(0) = SideBySide(F)
    BY <2>1 DEF ReadSoFar
  <2> QED
    BY <2>2, <2>3, <2>4
<1>9. Enumerates(<<>>, ReadSoFar(0))
  BY <1>8, EnumeratesNothing
<1>10. IsList(<<>>) /\ IsList(r.rows) /\ Enumerates(r.rows, Stored(disk[found_files[0+1]]))
  <2>1. <<>> \in Seq({})
    OBVIOUS
  <2> QED
    BY <1>1, <1>2, <1>7, <2>1 DEF Holds, IsList
<1>11. IsList(<<>> \o r.rows) /\ Enumerates(<<>> \o r.rows, ReadSoFar(0+1))
  BY <1>9, <1>10, OneFileMore
<1>12. <<>> \o r.rows = r.rows /\ 0 + 1 = 1
  BY <1>10 DEF IsList
<1> QED
  BY <1>7, <1>11, <1>12 DEF Holds

\* All files are read.
LEMMA AllFilesRead ==
  ASSUME FoundInv, AllFound, NEW s, Enumerates(s, ReadSoFar(Len(found_files)))
  PROVE  Enumerates(s, AllRows)
<1> DEFINE l == Len(found_files)
           F == [m \in 1 .. l |-> Stored(disk[found_files[m]])]
           G == [n \in ThereIn(names) |-> Stored(disk[names[n]])]
<1>1. PICK b : InOrder(b, l, found_files, FoundInAll)
  BY DEF FoundInv, Enumerates
<1>2. DOMAIN FoundInAll = ThereIn(names) /\ \A n \in ThereIn(names) : FoundInAll[n] = names[n]
  BY DEF FoundInAll, Restrict
<1>3. /\ b \in [1 .. l -> ThereIn(names)] /\ \A a, c \in 1 .. l : b[a] = b[c] => a = c
      /\ \A d \in ThereIn(names) : \E a \in 1 .. l : b[a] = d
      /\ \A a \in 1 .. l : found_files[a] = names[b[a]]
  BY <1>1, <1>2 DEF InOrder
<1>4. DOMAIN F = 1 .. l /\ DOMAIN G = ThereIn(names) /\ AllRows = SideBySide(G)
  BY DEF AllRows
<1>5. \A a \in 1 .. l : F[a] = G[b[a]]
  BY <1>3
<1>6. ReadSoFar(l) = SideBySide(F)
  BY DEF ReadSoFar
<1> HIDE DEF F, G
<1>7. Enumerates(s, SideBySide(F))
  BY <1>6
<1> HIDE DEF l
<1>8. /\ b \in [DOMAIN F -> DOMAIN G] /\ \A a, c \in DOMAIN F : b[a] = b[c] => a = c
      /\ \A d \in DOMAIN G : \E a \in DOMAIN F : b[a] = d
      /\ \A a \in DOMAIN F : F[a] = G[b[a]]
  BY <1>3, <1>4, <1>5
<1>9. Enumerates(s, SideBySide(G))
  BY <1>7, <1>8, EnumeratesRenamed
<1> QED
  BY <1>4, <1>9

\* Every row is mirrored, or none.
LEMMA RowsFolded ==
  ASSUME NEW s, IsList(s), Enumerates(s, AllRows), NEW t, DOMAIN t = DOMAIN s,
         t = [x \in DOMAIN s |-> t[x]], \A x \in DOMAIN s : t[x] = Folded(s[x])
  PROVE  IsList(t) /\ Enumerates(t, AllRowsFolded)
<1> DEFINE F == [n \in ThereIn(names) |-> Stored(disk[names[n]])]
           Of(n) == LET stored == Stored(disk[names[n]]) IN [x \in DOMAIN stored |-> Folded(stored[x])]
           G == [n \in ThereIn(names) |-> Of(n)]
<1>1. DOMAIN s = 1 .. Len(s) /\ Len(s) \in Nat
  BY DEF IsList
<1>2. PICK T : T = {t[x] : x \in DOMAIN s}
  OBVIOUS
<1>3. t \in Seq(T) /\ Len(t) = Len(s)
  <2>1. t \in [1 .. Len(s) -> T]
    BY <1>1, <1>2
  <2> QED
    BY <1>1, <2>1
<1>4. AllRows = SideBySide(F) /\ AllRowsFolded = SideBySide(G)
  BY DEF AllRows, AllRowsFolded
<1>5. DOMAIN F = DOMAIN G /\ \A n \in DOMAIN F : /\ DOMAIN G[n] = DOMAIN F[n]
                                                  /\ \A x \in DOMAIN F[n] : G[n][x] = Folded(F[n][x])
  OBVIOUS
<1> HIDE DEF F, G, Of
<1>6. DOMAIN SideBySide(G) = DOMAIN SideBySide(F)
  <2>1. ASSUME NEW p \in DOMAIN SideBySide(F) PROVE p \in DOMAIN SideBySide(G)
    <3>1. p[1] \in DOMAIN G /\ p[2] \in DOMAIN G[p[1]] /\ p = <<p[1], p[2]>>
      BY <1>5, PlacesSideBySide
    <3>2. <<p[1], p[2]>> \in DOMAIN SideBySide(G)
      BY <3>1, PlacesSideBySide
    <3> QED
      BY <3>1, <3>2
  <2>2. ASSUME NEW p \in DOMAIN SideBySide(G) PROVE p \in DOMAIN SideBySide(F)
    <3>1. p[1] \in DOMAIN F /\ p[2] \in DOMAIN F[p[1]] /\ p = <<p[1], p[2]>>
      BY <1>5, PlacesSideBySide
    <3>2. <<p[1], p[2]>> \in DOMAIN SideBySide(F)
      BY <3>1, PlacesSideBySide
    <3> QED
      BY <3>1, <3>2
  <2> QED
    BY <2>1, <2>2
<1>7. \A p \in DOMAIN SideBySide(F) : SideBySide(G)[p] = Folded(SideBySide(F)[p])
  <2> TAKE p \in DOMAIN SideBySide(F)
  <2>1. p[1] \in DOMAIN F /\ p[2] \in DOMAIN F[p[1]] /\ SideBySide(F)[p] = F[p[1]][p[2]]
    BY PlacesSideBySide
  <2>2. SideBySide(G)[p] = G[p[1]][p[2]]
    BY <1>6, PlacesSideBySide
  <2> QED
    BY <1>5, <2>1, <2>2
<1>8. \A x \in 1 .. Len(s) : \A p \in DOMAIN SideBySide(F) :
        s[x] = SideBySide(F)[p] => t[x] = SideBySide(G)[p]
  BY <1>1, <1>7
<1>9. Enumerates(t, SideBySide(G))
  BY <1>3, <1>4, <1>6, <1>8, EnumeratesMapped
<1> QED
  BY <1>3, <1>4, <1>9 DEF IsList


\* Every section of the parser: the configuration is only read, and the sections after the
\* general one are reached with the keys of the source.
LEMMA ParserMoves ==
  ASSUME ParserNext
  PROVE  /\ config' = config /\ section \notin {"parsed", "library"} /\ section' # "library"
         /\ section' \notin {"file", "failed"} /\ section \in {"file", "library", "failed"} => config # NoFile
         /\ section' \in PastGeneral => section \in PastGeneral \/ Got(SourceKeys)
<1>1. CASE readFile
  BY <1>1 DEF readFile, Fail, SetMembers, PastGeneral, PastOperators, PastWavelets, PastAlgorithm,
              PastVersion
<1>2. CASE parseAndSetGeneralConfiguration
  BY <1>2 DEF parseAndSetGeneralConfiguration, Fail, SetMembers, SourceRefused, PastGeneral,
              PastOperators, PastWavelets, PastAlgorithm, PastVersion
<1>3. CASE ParserNext /\ ~readFile /\ ~parseAndSetGeneralConfiguration
  <2>1. config' = config /\ section' # "library"
    BY <1>3 DEF ParserNext, parseAndSetMeasureOperators, parseAndSetSARA, ScanSingle, ScanRange,
                ScanDigit, WaveletsScanned, parseAndSetAlgorithmOptions, ParseVersion, Fail, SetMembers,
                Scanning
  <2>2. section \in PastGeneral /\ section \notin {"parsed", "library", "file", "failed"}
    BY <1>3 DEF ParserNext, parseAndSetMeasureOperators, parseAndSetSARA, ScanSingle, ScanRange,
                ScanDigit, WaveletsScanned, parseAndSetAlgorithmOptions, ParseVersion, Scanning,
                PastGeneral, PastOperators, PastWavelets, PastAlgorithm, PastVersion
  <2> QED
    BY <2>1, <2>2
<1> QED
  BY <1>1, <1>2, <1>3

\* The configuration stays and the section moves on.
LEMMA ConfigKept ==
  ASSUME ConfigInv, config' = config,
         (section' = "library" <=> section = "library"),
         section' \notin {"file", "library", "failed"} =>
           section \notin {"file", "library", "failed"} \/ config # NoFile,
         section' \in PastGeneral => section \in PastGeneral \/ Got(SourceKeys)
  PROVE  ConfigInv'
<1>1. PICK b \in Beginnings : (b.section = "library" <=> section = "library") /\ config = b.config
  BY DEF ConfigInv
<1>2. \E c \in Beginnings : (c.section = "library" <=> section' = "library") /\ config' = c.config
  BY <1>1
<1>3. Got(SourceKeys)' = Got(SourceKeys)
  BY DEF Got, SourceKeys, Source, Value, Has
<1>4. section' \notin {"file", "library", "failed"} => config' # NoFile
  BY DEF ConfigInv
<1>5. (section \in PastGeneral)' <=> section' \in PastGeneral
  BY DEF PastGeneral, PastOperators, PastWavelets, PastAlgorithm, PastVersion
<1>6. (section \in PastGeneral)' => Got(SourceKeys)'
  BY <1>3, <1>5 DEF ConfigInv
<1> QED
  BY <1>2, <1>4, <1>6 DEF ConfigInv

\* The parser is done before a file is looked up.
LEMMA ParseKeepsRows ==
  ASSUME RowsInv, Parse
  PROVE  RowsInv'
<1>1. /\ config' = config /\ section \notin {"parsed", "library"} /\ section' # "library"
      /\ section' \notin {"file", "failed"} /\ section \in {"file", "library", "failed"} => config # NoFile
      /\ section' \in PastGeneral => section \in PastGeneral \/ Got(SourceKeys)
  BY ParserMoves DEF Parse
<1>2. ConfigInv /\ DiskInv /\ StageInv
  BY DEF RowsInv
<1>3. ConfigInv'
  BY <1>1, <1>2, ConfigKept
<1>4. /\ disk' = disk /\ names' = names /\ stage' = stage /\ i' = i /\ found_files' = found_files
      /\ format_type' = format_type
  BY DEF Parse, environment, arguments, reading
<1>5. stage = "idle"
  BY <1>1, <1>2 DEF StageInv
<1>6. DiskInv'
  BY <1>2, <1>4, SameDisk
<1>7. StageInv'
  BY <1>2, <1>4, <1>5 DEF StageInv
<1> QED
  BY <1>3, <1>4, <1>5, <1>6, <1>7 DEF RowsInv

\* After the parser the configuration stays as it is.
LEMMA RestKept ==
  ASSUME RowsInv, UNCHANGED parserVars
  PROVE  ConfigInv'
<1>1. config' = config /\ section' = section
  BY DEF parserVars
<1> QED
  BY <1>1, ConfigKept DEF RowsInv

\* A reader that has failed has nothing to answer for.
LEMMA FailureKeepsRows ==
  ASSUME RowsInv, UNCHANGED parserVars, UNCHANGED <<environment, arguments>>, stage # "idle",
         stage' = "returned", uv'.outcome # "good"
  PROVE  RowsInv'
<1>1. disk' = disk /\ names' = names /\ section' = section
  BY DEF environment, arguments, parserVars
<1>2. StageInv'
  BY <1>1 DEF RowsInv, StageInv
<1>3. ConfigInv' /\ DiskInv'
  BY <1>1, RestKept, SameDisk DEF RowsInv
<1> QED
  BY <1>2, <1>3 DEF RowsInv


\* Looking up the names: a name that is missing adds nothing to what is there.
LEMMA SkipKeepsRows ==
  ASSUME RowsInv, UNCHANGED parserVars, SkipMissing
  PROVE  RowsInv'
<1>1. /\ disk' = disk /\ names' = names /\ section' = section /\ stage = "scan" /\ stage' = "scan"
      /\ found_files' = found_files /\ format_type' = format_type /\ pol' = pol /\ i' = i + 1
      /\ w_term' = w_term /\ i <= Len(names) /\ ~Exists(names[i])
  BY DEF SkipMissing, environment, arguments, parserVars
<1>2. ScanInv /\ names \in Seq(Files)
  BY <1>1 DEF RowsInv, StageInv
<1>3. i \in Nat /\ Len(names) \in Nat /\ Len(found_files) \in Nat
  BY <1>2 DEF ScanInv
<1>4. FoundBefore(i + 1) = FoundBefore(i)
  <2>1. {m \in 1 .. (i + 1) - 1 : Exists(names[m])} = {m \in 1 .. i - 1 : Exists(names[m])}
    BY <1>1, <1>3
  <2> QED
    BY <2>1 DEF FoundBefore
<1>5. AllFound' = AllFound /\ FoundBefore(i)' = FoundBefore(i) /\ OneFormat' = OneFormat
  <2>1. FoundBefore(i)' = FoundBefore(i + 1)
    BY <1>1, SameNames DEF FoundBefore, Exists
  <2> QED
    BY <1>1, <1>4, <2>1, SameFiles, SameColumns
<1>6. ScanInv'
  BY <1>1, <1>2, <1>3, <1>5 DEF ScanInv
<1>7. ConfigInv' /\ DiskInv'
  BY <1>1, RestKept, SameDisk DEF RowsInv
<1>8. StageInv'
  BY <1>1 DEF RowsInv, StageInv
<1> QED
  BY <1>1, <1>6, <1>7, <1>8 DEF RowsInv

\* A name that is there is found, in the format of those before it.
LEMMA KeepKeepsRows ==
  ASSUME RowsInv, UNCHANGED parserVars, KeepName
  PROVE  RowsInv'
<1>1. /\ disk' = disk /\ names' = names /\ section' = section /\ stage = "scan" /\ stage' = "scan"
      /\ found_files' = Append(found_files, names[i]) /\ i' = i + 1
      /\ format_type' = IF i = 1 THEN FormatOf(names[i]) ELSE format_type
      /\ i <= Len(names) /\ Exists(names[i]) /\ ~RefusedName(names[i])
  BY DEF KeepName, environment, arguments, parserVars
<1>2. ScanInv /\ names \in Seq(Files)
  BY <1>1 DEF RowsInv, StageInv
<1>3. i \in Nat /\ i >= 1 /\ Len(names) \in Nat /\ Len(found_files) \in Nat /\ i \in 1 .. Len(names)
      /\ found_files \in Seq(Files) /\ Len(found_files) < i
  BY <1>1, <1>2 DEF ScanInv
<1>4. PICK name : name = names[i]
  OBVIOUS
<1>5. name \in Files
  BY <1>2, <1>3, <1>4
<1>6. PICK l : l = Len(found_files)
  OBVIOUS
<1>7. /\ Len(found_files') = l + 1 /\ found_files' \in Seq(Files) /\ found_files'[l + 1] = name
      /\ \A m \in 1 .. l : found_files'[m] = found_files[m]
      /\ DOMAIN found_files' = 1 .. l + 1 /\ DOMAIN found_files = 1 .. l /\ l \in Nat
  BY <1>1, <1>3, <1>4, <1>5, <1>6, AppendProperties
<1>8. OneFormat'
  <2>1. FormatOf(name) \in Formats /\ format_type' = FormatOf(name)
        /\ (i > 1 => FormatOf(name) = format_type)
    BY <1>1, <1>3, <1>4 DEF RefusedName
  <2>2. \A m \in 1 .. l : FormatOf(found_files[m]) = format_type
    BY <1>2, <1>7 DEF ScanInv, OneFormat
  <2>3. \A m \in 1 .. l : i > 1
    BY <1>3, <1>6
  <2>4. \A m \in 1 .. l + 1 : m = l + 1 \/ m \in 1 .. l
    BY <1>7
  <2>5. \A m \in DOMAIN found_files' : FormatOf(found_files'[m]) = format_type'
    BY <1>7, <2>1, <2>2, <2>3, <2>4
  <2>6. format_type' \in Formats
    BY <2>1
  <2> QED
    BY <2>5, <2>6 DEF OneFormat, FormatOf
<1>9. AllFound' => Enumerates(found_files', FoundBefore(i + 1))
  <2> HAVE AllFound'
  <2>1. AllFound
    <3>1. \A m \in DOMAIN found_files' : disk[found_files'[m]] # Missing
      BY <1>1 DEF AllFound, Exists
    <3>2. \A m \in 1 .. l : m \in 1 .. l + 1
      BY <1>7
    <3> QED
      BY <1>7, <3>1, <3>2 DEF AllFound, Exists
  <2>2. Enumerates(found_files, FoundBefore(i))
    BY <1>2, <2>1 DEF ScanInv
  <2>3. DOMAIN FoundBefore(i) = {m \in 1 .. i - 1 : Exists(names[m])}
        /\ DOMAIN FoundBefore(i + 1) = {m \in 1 .. (i + 1) - 1 : Exists(names[m])}
        /\ (\A m \in DOMAIN FoundBefore(i) : FoundBefore(i)[m] = names[m])
        /\ (\A m \in DOMAIN FoundBefore(i + 1) : FoundBefore(i + 1)[m] = names[m])
    BY DEF FoundBefore, Restrict
  <2>4. i \notin DOMAIN FoundBefore(i) /\ DOMAIN FoundBefore(i + 1) = DOMAIN FoundBefore(i) \cup {i}
    <3>1. \A m : (m \in 1 .. (i + 1) - 1 <=> m \in 1 .. i - 1 \/ m = i) /\ i \notin 1 .. i - 1
      BY <1>3
    <3>2. {m \in 1 .. (i + 1) - 1 : Exists(names[m])} = {m \in 1 .. i - 1 : Exists(names[m])} \cup {i}
      BY <1>1, <3>1
    <3> QED
      BY <2>3, <3>1, <3>2
  <2>5. FoundBefore(i + 1)[i] = name /\ \A m \in DOMAIN FoundBefore(i) : FoundBefore(i + 1)[m] = FoundBefore(i)[m]
    BY <1>4, <2>3, <2>4
  <2>6. Enumerates(Append(found_files, name), FoundBefore(i + 1))
    BY <1>3, <1>5, <2>2, <2>4, <2>5, EnumeratesAppended
  <2> QED
    BY <1>1, <1>4, <2>6
<1>10. FoundBefore(i)' = FoundBefore(i + 1)
  BY <1>1, SameNames DEF FoundBefore, Exists
<1>11. ScanInv'
  <2>1. i' \in 1 .. Len(names') + 1 /\ found_files' \in Seq(Files) /\ Len(found_files') < i'
    BY <1>1, <1>3, <1>6, <1>7
  <2> QED
    BY <1>8, <1>9, <1>10, <2>1 DEF ScanInv
<1>12. ConfigInv' /\ DiskInv'
  BY <1>1, RestKept, SameDisk DEF RowsInv
<1>13. StageInv'
  BY <1>1 DEF RowsInv, StageInv
<1> QED
  BY <1>1, <1>11, <1>12, <1>13 DEF RowsInv

\* All names have been looked up.
LEMMA ChooseKeepsRows ==
  ASSUME RowsInv, UNCHANGED parserVars, Choose
  PROVE  RowsInv'
<1>1. /\ disk' = disk /\ names' = names /\ section' = section /\ stage = "scan"
      /\ found_files' = found_files /\ format_type' = format_type /\ pol' = pol /\ i' = 1
      /\ w_term' = w_term /\ i > Len(names)
  BY DEF Choose, environment, arguments, parserVars
<1>2. ScanInv /\ names \in Seq(Files)
  BY <1>1 DEF RowsInv, StageInv
<1>3. CASE Unsupported
  <2>1. stage' = "returned" /\ uv'.outcome # "good"
    BY <1>3 DEF Choose, Return, Failed
  <2>2. UNCHANGED <<environment, arguments>>
    BY DEF Choose
  <2> QED
    BY <1>1, <2>1, <2>2, FailureKeepsRows
<1>4. CASE ~Unsupported
  <2>1. stage' = "read" /\ found_files # <<>>
    BY <1>4 DEF Choose, Unsupported
  <2>2. i \in Nat /\ i = Len(names) + 1 /\ Len(names) \in Nat /\ Len(found_files) \in Nat
        /\ DOMAIN names = 1 .. Len(names)
    BY <1>1, <1>2 DEF ScanInv
  <2>3. FoundBefore(i) = FoundInAll
    <3>1. {m \in 1 .. i - 1 : Exists(names[m])} = ThereIn(names)
      BY <2>2 DEF ThereIn
    <3> QED
      BY <3>1 DEF FoundBefore, FoundInAll
  <2>4. AllFound' = AllFound /\ FoundInAll' = FoundInAll /\ OneFormat' = OneFormat
    BY <1>1, SameFiles, SameColumns
  <2>5. AllFound => Enumerates(found_files, FoundInAll)
    BY <1>2, <2>3 DEF ScanInv
  <2>6. found_files \in Seq(Files) /\ OneFormat
    BY <1>2 DEF ScanInv
  <2>7. i' \in 1 .. Len(found_files') + 1
    BY <1>1, <2>2
  <2>8. FoundInv'
    BY <1>1, <2>1, <2>4, <2>5, <2>6, <2>7 DEF FoundInv
  <2>9. ConfigInv' /\ DiskInv'
    BY <1>1, RestKept, SameDisk DEF RowsInv
  <2>10. StageInv'
    BY <1>1, <2>1 DEF RowsInv, StageInv
  <2> QED
    BY <1>1, <2>1, <2>8, <2>9, <2>10 DEF RowsInv
<1> QED
  BY <1>3, <1>4

\* A name that is refused.
LEMMA RefuseKeepsRows ==
  ASSUME RowsInv, UNCHANGED parserVars, RefuseName
  PROVE  RowsInv'
<1>1. stage = "scan" /\ stage' = "returned" /\ uv'.outcome # "good" /\ UNCHANGED <<environment, arguments>>
  BY DEF RefuseName, Return, Failed
<1> QED
  BY <1>1, FailureKeepsRows


\* A file has been read, or could not be.
LEMMA TakeKeepsRows ==
  ASSUME RowsInv, UNCHANGED parserVars, stage \in {"read", "join"}, i <= Len(found_files),
         NEW r, Take(r),
         r.outcome = "good" => Exists(found_files[i]),
         r.outcome = "good" /\ AllFound /\ WColumnsFit => Holds(r, ReadSoFar(i)) /\ r.units = "lambda"
  PROVE  RowsInv'
<1>1. /\ disk' = disk /\ names' = names /\ section' = section /\ found_files' = found_files
      /\ format_type' = format_type /\ pol' = pol /\ w_term' = w_term /\ uv' = r
  BY DEF Take, environment, arguments, parserVars
<1>2. FoundInv
  BY DEF RowsInv
<1>3. i \in Nat /\ i >= 1 /\ Len(found_files) \in Nat /\ DOMAIN found_files = 1 .. Len(found_files)
  BY <1>2 DEF FoundInv
<1>4. CASE r.outcome # "good"
  <2>1. stage' = "returned" /\ uv'.outcome # "good" /\ UNCHANGED <<environment, arguments>>
    BY <1>4 DEF Take
  <2> QED
    BY <2>1, FailureKeepsRows
<1>5. CASE r.outcome = "good"
  <2>1. stage' = "join" /\ i' = i + 1
    BY <1>5 DEF Take
  <2>2. /\ AllFound' = AllFound /\ FoundInAll' = FoundInAll /\ OneFormat' = OneFormat
        /\ WColumnsFit' = WColumnsFit /\ \A n : ReadSoFar(n)' = ReadSoFar(n)
    BY <1>1, SameFiles, SameColumns
  <2>3. FoundInv'
    BY <1>1, <1>2, <1>3, <2>1, <2>2 DEF FoundInv
  <2>4. AllFound \/ \E m \in i + 1 .. Len(found_files) : ~Exists(found_files[m])
    <3>1. CASE stage = "read"
      <4>1. i = 1
        BY <3>1 DEF RowsInv
      <4>2. \A m \in 1 .. Len(found_files) : m = 1 \/ m \in 1 + 1 .. Len(found_files)
        BY <1>3
      <4> QED
        BY <1>3, <1>5, <4>1, <4>2 DEF AllFound
    <3>2. CASE stage = "join"
      <4>1. AllFound \/ \E m \in i .. Len(found_files) : ~Exists(found_files[m])
        BY <3>2 DEF RowsInv, JoinInv
      <4>2. \A m \in i .. Len(found_files) : m = i \/ m \in i + 1 .. Len(found_files)
        BY <1>3
      <4> QED
        BY <1>5, <4>1, <4>2
    <3> QED
      BY <3>1, <3>2
  <2>5. AllFound' \/ \E m \in i' .. Len(found_files') : ~(disk'[found_files'[m]] # Missing)
    BY <1>1, <2>1, <2>2, <2>4 DEF Exists
  <2>6. i' > 1 /\ i' - 1 = i
    BY <1>3, <2>1
  <2>7. AllFound /\ WColumnsFit => Holds(uv', ReadSoFar(i)) /\ uv'.units = "lambda"
    BY <1>1, <1>5
  <2>8. ReadSoFar(i - 1)' = ReadSoFar(i)
    <3>1. ReadSoFar(i - 1)' = SideBySide([m \in 1 .. i' - 1 |-> Stored(disk[found_files[m]])])
      BY <1>1, SameStored DEF ReadSoFar
    <3> QED
      BY <2>6, <3>1 DEF ReadSoFar
  <2>9. JoinInv'
    BY <2>2, <2>5, <2>6, <2>7, <2>8 DEF JoinInv, Holds, IsResult, IsList, Exists
  <2>10. ConfigInv' /\ DiskInv'
    BY <1>1, RestKept, SameDisk DEF RowsInv
  <2>11. StageInv'
    BY <1>1, <2>1 DEF RowsInv, StageInv
  <2> QED
    BY <2>1, <2>3, <2>9, <2>10, <2>11 DEF RowsInv
<1> QED
  BY <1>4, <1>5

\* A file that is gone is not read.
LEMMA GoneIsBad ==
  ASSUME NEW n, ~Exists(n)
  PROVE  /\ \A r \in FirstRead(n) : r.outcome # "good"
         /\ \A r \in NextRead(n) : r.outcome # "good"
<1>1. \A r \in Gone : r.outcome # "good"
  BY DEF Gone, Failed
<1> QED
  BY <1>1 DEF FirstRead, NextRead

\* The first file.
LEMMA ReadFirstKeepsRows ==
  ASSUME RowsInv, UNCHANGED parserVars, ReadFirst
  PROVE  RowsInv'
<1>1. stage = "read" /\ \E r \in FirstRead(found_files[1]) : Take(r)
  BY DEF ReadFirst
<1>2. PICK r \in FirstRead(found_files[1]) : Take(r)
  BY <1>1
<1>3. i = 1 /\ i <= Len(found_files)
  BY <1>1 DEF RowsInv, FoundInv
<1>4. r.outcome = "good" => Exists(found_files[i])
  BY <1>2, <1>3, GoneIsBad
<1>5. r.outcome = "good" /\ AllFound /\ WColumnsFit => Holds(r, ReadSoFar(i)) /\ r.units = "lambda"
  BY <1>1, <1>2, <1>3, FirstFileRead
<1> QED
  BY <1>1, <1>2, <1>3, <1>4, <1>5, TakeKeepsRows

\* Every later file.
LEMMA ReadNextKeepsRows ==
  ASSUME RowsInv, UNCHANGED parserVars, ReadNext
  PROVE  RowsInv'
<1>1. stage = "join" /\ i <= Len(found_files) /\ \E r \in NextRead(found_files[i]) : Take(r)
  BY DEF ReadNext
<1>2. PICK r \in NextRead(found_files[i]) : Take(r)
  BY <1>1
<1>3. /\ i \in Nat /\ i >= 1 /\ i \in 1 .. Len(found_files)
      /\ (AllFound /\ WColumnsFit => Holds(uv, ReadSoFar(i - 1)))
  BY <1>1 DEF RowsInv, FoundInv, JoinInv
<1>4. r.outcome = "good" => Exists(found_files[i])
  BY <1>2, GoneIsBad
<1>5. r.outcome = "good" /\ AllFound /\ WColumnsFit => Holds(r, ReadSoFar(i)) /\ r.units = "lambda"
  <2> HAVE r.outcome = "good" /\ AllFound /\ WColumnsFit
  <2>1. /\ IsResult(r) /\ r.units = "lambda"
        /\ \E s : Holds(s, Stored(disk[found_files[i]])) /\ r.rows = uv.rows \o s.rows
    BY <1>1, <1>2, <1>3, NextFileRead
  <2>2. PICK s : Holds(s, Stored(disk[found_files[i]])) /\ r.rows = uv.rows \o s.rows
    BY <2>1
  <2>3. IsList(uv.rows) /\ Enumerates(uv.rows, ReadSoFar(i - 1))
        /\ IsList(s.rows) /\ Enumerates(s.rows, Stored(disk[found_files[i]]))
    BY <1>3, <2>2 DEF Holds
  <2>4. PICK n \in Nat : n = i - 1 /\ n + 1 = i
    BY <1>3
  <2>5. IsList(uv.rows \o s.rows) /\ Enumerates(uv.rows \o s.rows, ReadSoFar(n + 1))
    BY <2>3, <2>4, OneFileMore
  <2> QED
    BY <2>1, <2>2, <2>4, <2>5 DEF Holds
<1> QED
  BY <1>1, <1>2, <1>4, <1>5, TakeKeepsRows


\* All files have been read and joined.
LEMMA FinishKeepsRows ==
  ASSUME RowsInv, UNCHANGED parserVars, Finish
  PROVE  RowsInv'
<1>1. /\ disk' = disk /\ names' = names /\ section' = section /\ found_files' = found_files
      /\ format_type' = format_type /\ pol' = pol /\ w_term' = w_term /\ units' = units
      /\ stage = "join" /\ stage' = "returned" /\ i > Len(found_files)
      /\ uv' = IF format_type \in {"vis", "h5"} THEN [uv EXCEPT !.units = units] ELSE uv
  BY DEF Finish, Return, environment, arguments, parserVars
<1>2. FoundInv /\ JoinInv
  BY <1>1 DEF RowsInv
<1>3. i \in Nat /\ Len(found_files) \in Nat /\ i - 1 = Len(found_files)
  BY <1>1, <1>2 DEF FoundInv
<1>4. AllFound
  <2>1. ~\E m \in i .. Len(found_files) : TRUE
    BY <1>1, <1>3
  <2> QED
    BY <1>2, <2>1 DEF JoinInv
<1>5. WColumnsFit' = WColumnsFit /\ AllRows' = AllRows
  BY <1>1, SameFiles, SameColumns
<1>6. WColumnsFit => Holds(uv', AllRows) /\ uv'.units = UnitsOfFormat
  <2> HAVE WColumnsFit
  <2>1. Holds(uv, ReadSoFar(Len(found_files))) /\ uv.units = "lambda"
    BY <1>2, <1>3, <1>4 DEF JoinInv
  <2>2. IsResult(uv) /\ IsList(uv.rows) /\ Enumerates(uv.rows, AllRows)
    BY <1>2, <1>4, <2>1, AllFilesRead DEF Holds
  <2>3. CASE format_type \in {"vis", "h5"}
    <3>1. uv' = [uv EXCEPT !.units = units]
      BY <1>1, <2>3
    <3>2. DOMAIN uv' = DOMAIN uv /\ uv'.rows = uv.rows /\ uv'.units = units
      BY <2>2, <3>1 DEF IsResult
    <3> QED
      BY <2>2, <2>3, <3>2 DEF Holds, IsResult, UnitsOfFormat
  <2>4. CASE format_type \notin {"vis", "h5"}
    <3>1. uv' = uv
      BY <1>1, <2>4
    <3> QED
      BY <2>1, <2>2, <2>4, <3>1 DEF Holds, UnitsOfFormat
  <2> QED
    BY <2>3, <2>4
<1>7. UnitsOfFormat' = UnitsOfFormat
  BY <1>1 DEF UnitsOfFormat
<1>8. ConfigInv' /\ DiskInv'
  BY <1>1, RestKept, SameDisk DEF RowsInv
<1>9. StageInv'
  BY <1>1 DEF RowsInv, StageInv
<1>10. WColumnsFit' => Holds(uv, AllRows)' /\ uv'.units = UnitsOfFormat'
  BY <1>5, <1>6, <1>7 DEF Holds, IsResult, IsList
<1> QED
  BY <1>1, <1>8, <1>9, <1>10 DEF RowsInv

\* What the reader returned is handed on, mirrored when main was asked to.
LEMMA HandedOn ==
  ASSUME RowsInv, stage = "returned", UNCHANGED parserVars, UNCHANGED <<environment, arguments>>,
         found_files' = found_files, format_type' = format_type, stage' = "ready",
         uv'.outcome = "good" => uv.outcome = "good",
         uv.outcome = "good" /\ IsResult(uv) /\ IsList(uv.rows) =>
           /\ IsResult(uv') /\ uv'.units = uv.units
           /\ uv'.rows = [x \in DOMAIN uv.rows |-> Folded(uv.rows[x])]
  PROVE  RowsInv'
<1>1. /\ disk' = disk /\ names' = names /\ section' = section /\ config' = config
      /\ pol' = pol /\ w_term' = w_term /\ units' = units
  BY DEF environment, arguments, parserVars
<1>2. WColumnsFit' = WColumnsFit /\ UnitsOfFormat' = UnitsOfFormat
  BY <1>1, SameColumns DEF UnitsOfFormat
<1>3. AllRowsFolded' = AllRowsFolded
  <2>1. \A row : Folded(row)' = Folded(row)
    BY <1>1 DEF Folded, Value
  <2>2. ThereIn(names)' = ThereIn(names)
    BY <1>1 DEF ThereIn, Exists
  <2> QED
    BY <1>1, <2>1, <2>2, SameStored DEF AllRowsFolded
<1>4. uv.outcome = "good" /\ WColumnsFit => Holds(uv', AllRowsFolded) /\ uv'.units = UnitsOfFormat
  <2> HAVE uv.outcome = "good" /\ WColumnsFit
  <2>1. IsResult(uv) /\ IsList(uv.rows) /\ Enumerates(uv.rows, AllRows) /\ uv.units = UnitsOfFormat
    BY DEF RowsInv, Holds
  <2>2. /\ IsResult(uv') /\ uv'.units = uv.units
        /\ uv'.rows = [x \in DOMAIN uv.rows |-> Folded(uv.rows[x])]
    BY <2>1
  <2>3. /\ DOMAIN uv'.rows = DOMAIN uv.rows /\ uv'.rows = [x \in DOMAIN uv.rows |-> uv'.rows[x]]
        /\ \A x \in DOMAIN uv.rows : uv'.rows[x] = Folded(uv.rows[x])
    BY <2>2
  <2>4. IsList(uv'.rows) /\ Enumerates(uv'.rows, AllRowsFolded)
    BY <2>1, <2>3, RowsFolded
  <2> QED
    BY <2>1, <2>2, <2>4 DEF Holds
<1>5. ConfigInv' /\ DiskInv'
  BY <1>1, RestKept, SameDisk DEF RowsInv
<1>6. StageInv'
  BY <1>1 DEF RowsInv, StageInv
<1>7. uv'.outcome = "good" /\ WColumnsFit' => Holds(uv, AllRowsFolded)' /\ uv'.units = UnitsOfFormat'
  BY <1>2, <1>3, <1>4 DEF Holds, IsResult, IsList
<1> QED
  BY <1>5, <1>6, <1>7 DEF RowsInv

\* main mirrors the rows or leaves them.
LEMMA FoldKeepsRows ==
  ASSUME RowsInv, FoldInput
  PROVE  RowsInv'
<1>1. /\ stage = "returned" /\ section = "parsed" /\ UNCHANGED parserVars /\ stage' = "ready"
      /\ UNCHANGED <<environment, arguments>> /\ found_files' = found_files /\ format_type' = format_type
      /\ uv' = IF uv.outcome = "good" /\ Value(<<"operators", "conjugate_w">>) THEN conjugate_w(uv) ELSE uv
  BY DEF FoldInput, EndWith, NotReading
<1>2. CASE uv.outcome = "good" /\ Value(<<"operators", "conjugate_w">>) /\ IsResult(uv)
  <2>1. uv' = [uv EXCEPT !.rows = [x \in DOMAIN uv.rows |->
                  IF uv.rows[x].w < 0 THEN Mirror(uv.rows[x]) ELSE uv.rows[x]]]
    BY <1>1, <1>2 DEF conjugate_w
  <2>2. /\ DOMAIN uv' = DOMAIN uv /\ uv'.outcome = uv.outcome /\ uv'.units = uv.units
        /\ uv'.rows = [x \in DOMAIN uv.rows |->
                  IF uv.rows[x].w < 0 THEN Mirror(uv.rows[x]) ELSE uv.rows[x]]
    BY <1>2, <2>1 DEF IsResult
  <2>3. \A row : Folded(row) = IF row.w < 0 THEN Mirror(row) ELSE row
    BY <1>1, <1>2 DEF Folded
  <2>4. uv'.rows = [x \in DOMAIN uv.rows |-> Folded(uv.rows[x])]
    BY <2>2, <2>3
  <2> QED
    BY <1>1, <1>2, <2>2, <2>4, HandedOn DEF IsResult
<1>3. CASE uv.outcome = "good" /\ ~IsResult(uv)
  BY <1>1, <1>3, HandedOn
<1>4. CASE ~(uv.outcome = "good" /\ Value(<<"operators", "conjugate_w">>))
  <2>1. uv' = uv
    BY <1>1, <1>4
  <2>2. uv.outcome = "good" => \A row : Folded(row) = row
    BY <1>4 DEF Folded
  <2>3. uv.outcome = "good" /\ IsResult(uv) /\ IsList(uv.rows) =>
          uv'.rows = [x \in DOMAIN uv.rows |-> Folded(uv.rows[x])]
    <3> HAVE uv.outcome = "good" /\ IsResult(uv) /\ IsList(uv.rows)
    <3>1. uv.rows = [x \in DOMAIN uv.rows |-> uv.rows[x]]
      BY DEF IsList
    <3> QED
      BY <2>1, <2>2, <3>1
  <2> QED
    BY <1>1, <2>1, <2>3, HandedOn
<1> QED
  BY <1>2, <1>3, <1>4

\* A library caller is given the rows as they are.
LEMMA ReturnKeepsRows ==
  ASSUME RowsInv, LibraryReturn
  PROVE  RowsInv'
<1>1. /\ stage = "returned" /\ section = "library" /\ UNCHANGED parserVars /\ stage' = "ready"
      /\ UNCHANGED <<environment, arguments>> /\ found_files' = found_files /\ format_type' = format_type
      /\ uv' = uv
  BY DEF LibraryReturn, EndWith, NotReading
<1>2. \A row : Folded(row) = row
  BY <1>1 DEF Folded
<1>3. IsList(uv.rows) => uv'.rows = [x \in DOMAIN uv.rows |-> Folded(uv.rows[x])]
  <2> HAVE IsList(uv.rows)
  <2>1. uv.rows = [x \in DOMAIN uv.rows |-> uv.rows[x]]
    BY DEF IsList
  <2> QED
    BY <1>1, <1>2, <2>1
<1> QED
  BY <1>1, <1>3, HandedOn


\* A file is taken away while it is looked up or before it is read.
LEMMA VanishKeepsRows ==
  ASSUME RowsInv, UNCHANGED parserVars, FileVanishes
  PROVE  RowsInv'
<1>1. PICK name \in Files : /\ StillToRead(name) /\ Exists(name)
                            /\ disk' = [disk EXCEPT ![name] = Missing]
                            /\ UNCHANGED <<arguments, stage, i, found_files, format_type, uv>>
  BY DEF FileVanishes
<1>2. /\ names' = names /\ section' = section /\ found_files' = found_files /\ format_type' = format_type
      /\ stage' = stage /\ i' = i /\ uv' = uv
  BY <1>1 DEF arguments, parserVars
<1>3. DiskInv
  BY DEF RowsInv
<1>4. DOMAIN disk' = Files /\ disk'[name] = Missing /\ \A n \in Files : n # name => disk'[n] = disk[n]
  BY <1>1, <1>3 DEF DiskInv
<1>5. DiskInv'
  <2>1. \A n \in Files : disk'[n] = Missing \/ Formed(n, disk'[n])
    BY <1>3, <1>4 DEF DiskInv
  <2> QED
    BY <1>4, <2>1 DEF DiskInv
<1>6. ConfigInv'
  BY RestKept
<1>7. StageInv'
  BY <1>2 DEF RowsInv, StageInv
<1>8. OneFormat' = OneFormat
  BY <1>2 DEF OneFormat
<1>9. \A n : n \in Files => (disk'[n] # Missing => n # name /\ disk[n] # Missing)
  BY <1>4
<1>10. CASE stage = "scan"
  <2>1. ScanInv /\ names \in Seq(Files)
    BY <1>10 DEF RowsInv, StageInv
  <2>2. found_files \in Seq(Files) /\ DOMAIN found_files = 1 .. Len(found_files)
        /\ i \in Nat /\ Len(names) \in Nat /\ i <= Len(names) + 1
    BY <2>1 DEF ScanInv
  <2>3. AllFound' => Enumerates(found_files, FoundBefore(i)')
    <3> HAVE AllFound'
    <3>1. \A m \in 1 .. Len(found_files) : disk'[found_files[m]] # Missing
      BY <1>2, <2>2 DEF AllFound, Exists
    <3>2. \A m \in 1 .. Len(found_files) : found_files[m] \in Files
      BY <2>2
    <3>3. \A m \in 1 .. Len(found_files) : found_files[m] # name /\ disk[found_files[m]] # Missing
      BY <1>9, <3>1, <3>2
    <3>4. AllFound
      BY <2>2, <3>3 DEF AllFound, Exists
    <3>5. Enumerates(found_files, FoundBefore(i))
      BY <2>1, <3>4 DEF ScanInv
    <3>6. PICK b : InOrder(b, Len(found_files), found_files, FoundBefore(i))
      BY <3>5 DEF Enumerates
    <3>7. \A m \in 1 .. i - 1 : disk[names[m]] # Missing => names[m] # name
      <4> TAKE m \in 1 .. i - 1
      <4> HAVE disk[names[m]] # Missing
      <4>1. m \in DOMAIN FoundBefore(i) /\ FoundBefore(i)[m] = names[m]
        BY DEF FoundBefore, Restrict, Exists
      <4>2. PICK x \in 1 .. Len(found_files) : b[x] = m
        BY <3>6, <4>1 DEF InOrder
      <4>3. found_files[x] = names[m]
        BY <3>6, <4>1, <4>2 DEF InOrder
      <4> QED
        BY <3>3, <4>3
    <3>8. \A m \in 1 .. i - 1 : names[m] \in Files
      BY <2>1, <2>2
    <3>9. \A m \in 1 .. i - 1 : disk'[names[m]] # Missing <=> disk[names[m]] # Missing
      BY <1>4, <3>7, <3>8
    <3>10. {m \in 1 .. i - 1 : disk'[names[m]] # Missing} = {m \in 1 .. i - 1 : disk[names[m]] # Missing}
      BY <3>9
    <3>11. FoundBefore(i)' = FoundBefore(i)
      BY <1>2, <3>10 DEF FoundBefore, Exists
    <3> QED
      BY <3>5, <3>11
  <2>4. ScanInv'
    BY <1>2, <1>8, <2>1, <2>3 DEF ScanInv
  <2> QED
    BY <1>2, <1>5, <1>6, <1>7, <1>10, <2>4 DEF RowsInv
<1>11. CASE stage \in {"read", "join"}
  <2>1. FoundInv
    BY <1>11 DEF RowsInv
  <2>2. DOMAIN found_files = 1 .. Len(found_files) /\ Len(found_files) \in Nat /\ i \in Nat /\ i >= 1
    BY <2>1 DEF FoundInv
  <2>3. \E m \in i .. Len(found_files) : found_files[m] = name
    <3>1. CASE stage = "read"
      <4>1. name \in Range(found_files)
        BY <1>1, <3>1 DEF StillToRead
      <4>2. i = 1
        BY <3>1 DEF RowsInv
      <4> QED
        BY <2>2, <4>1, <4>2 DEF Range
    <3>2. CASE stage = "join"
      <4>1. PICK rest : rest = SubSeq(found_files, i, Len(found_files))
        OBVIOUS
      <4>2. PICK x \in DOMAIN rest : name = rest[x]
        BY <1>1, <3>2, <4>1 DEF StillToRead, Range
      <4>3. found_files \in Seq(Files) /\ i <= Len(found_files) + 1
        BY <2>1 DEF FoundInv
      <4>4. x \in 1 .. Len(found_files) - i + 1 /\ rest[x] = found_files[i + x - 1]
        BY <2>2, <4>1, <4>2, <4>3
      <4>5. i + x - 1 \in i .. Len(found_files)
        BY <2>2, <4>4
      <4> QED
        BY <4>2, <4>4, <4>5
    <3> QED
      BY <1>11, <3>1, <3>2
  <2>4. PICK m \in i .. Len(found_files) : found_files[m] = name
    BY <2>3
  <2>5. m \in DOMAIN found_files /\ disk'[found_files'[m]] = Missing
    BY <1>2, <1>4, <2>2, <2>4
  <2>6. ~AllFound'
    BY <1>2, <2>5 DEF AllFound, Exists
  <2>7. FoundInv'
    BY <1>2, <1>8, <2>1, <2>6 DEF FoundInv
  <2>8. stage = "join" => JoinInv'
    <3> HAVE stage = "join"
    <3>1. i' > 1
      BY <1>2 DEF RowsInv, JoinInv
    <3>2. \E y \in i' .. Len(found_files') : ~(disk'[found_files'[y]] # Missing)
      BY <1>2, <2>4, <2>5
    <3> QED
      BY <2>6, <3>1, <3>2 DEF JoinInv, Exists
  <2>9. stage = "read" => i' = 1
    BY <1>2 DEF RowsInv
  <2> QED
    BY <1>2, <1>5, <1>6, <1>7, <1>11, <2>7, <2>8, <2>9 DEF RowsInv
<1> QED
  BY <1>1, <1>10, <1>11 DEF StillToRead

\* Somebody asks for files: main, for those of its configuration, or a library caller.
LEMMA CallKeepsRows ==
  ASSUME RowsInv, UNCHANGED parserVars, section \in {"parsed", "library"},
         NEW list \in Seq(Files), NEW with_w, NEW p, NEW of_units, Call(list, with_w, p, of_units)
  PROVE  RowsInv'
<1>1. /\ disk' = disk /\ names' = list /\ section' = section /\ found_files' = found_files
      /\ format_type' = format_type /\ i' = i /\ stage = "idle" /\ stage' = "scan"
  BY DEF Call, environment, parserVars
<1>2. i = 1 /\ found_files = <<>> /\ format_type = "uvfits"
  BY <1>1 DEF RowsInv, StageInv
<1>3. OneFormat'
  BY <1>1, <1>2 DEF OneFormat, Formats
<1>4. DOMAIN FoundBefore(i)' = {}
  <2>1. \A m \in 1 .. i' - 1 : FALSE
    BY <1>1, <1>2
  <2> QED
    BY <2>1 DEF FoundBefore, Restrict
<1>5. Enumerates(<<>>, FoundBefore(i)')
  BY <1>4, EnumeratesNothing
<1>6. /\ i' \in 1 .. Len(names') + 1 /\ found_files' \in Seq(Files) /\ Len(found_files') < i'
  BY <1>1, <1>2
<1>7. ScanInv'
  BY <1>1, <1>2, <1>3, <1>5, <1>6 DEF ScanInv
<1>8. ConfigInv' /\ DiskInv'
  BY <1>1, RestKept, SameDisk DEF RowsInv
<1>9. StageInv'
  BY <1>1 DEF RowsInv, StageInv
<1> QED
  BY <1>1, <1>7, <1>8, <1>9 DEF RowsInv

\* What main reads from its configuration are names of files.
LEMMA AskedAreFiles ==
  ASSUME MembersInv, RowsInv, section = "parsed", Source = "simulation" => ~NoCoverage
  PROVE  measurements \in Seq(Files)
<1>1. PICK b \in Beginnings : (b.section = "library" <=> section = "library") /\ config = b.config
  BY DEF RowsInv, ConfigInv
<1>2. b.section = "file" /\ b.config # NoFile
  BY <1>1, BeginningsAssumption DEF RowsInv, ConfigInv
<1>3. section \in PastGeneral
  BY DEF PastGeneral, PastOperators, PastWavelets, PastAlgorithm, PastVersion
<1>4. Source \in {"measurements", "simulation"} /\ Got(SourceKeys)
  BY <1>3 DEF MembersInv, RowsInv, ConfigInv
<1>5. \A key \in {<<"measurements", "measurements_files">>, <<"simulation", "coverage_files">>} :
        key \in DOMAIN config =>
          \/ config[key] = Unconvertible \/ config[key] \in Seq(Files)
          \/ key[1] = "simulation" /\ Head(config[key]) = NoName
  BY <1>1, <1>2, FilesAssumption
<1>6. CASE Source = "measurements"
  <2>1. PICK key : key = <<"measurements", "measurements_files">>
    OBVIOUS
  <2>2. key \in SourceKeys
    BY <1>6, <2>1 DEF SourceKeys, Names
  <2>3. key \in DOMAIN config /\ config[key] # Unconvertible
    BY <1>4, <2>2 DEF Got, Has, Value
  <2>4. key[1] = "measurements"
    BY <2>1
  <2>5. config[key] \in Seq(Files)
    BY <1>5, <2>1, <2>3, <2>4
  <2> QED
    BY <1>6, <2>1, <2>5 DEF measurements, Value
<1>7. CASE Source = "simulation"
  <2>1. PICK key : key = <<"simulation", "coverage_files">>
    OBVIOUS
  <2>2. key \in SourceKeys
    BY <1>7, <2>1 DEF SourceKeys, Names
  <2>3. key \in DOMAIN config /\ config[key] # Unconvertible
    BY <1>4, <2>2 DEF Got, Has, Value
  <2>4. measurements = config[key]
    BY <1>7, <2>1 DEF measurements, Value
  <2>5. Head(config[key]) # NoName
    BY <1>7, <2>4 DEF NoCoverage
  <2> QED
    BY <1>5, <2>1, <2>3, <2>4, <2>5
<1> QED
  BY <1>4, <1>6, <1>7

\* main stops before it has asked for a file.
LEMMA EarlyEndKeepsRows ==
  ASSUME RowsInv, WrongVersion \/ RandomCoverage
  PROVE  RowsInv'
<1>1. /\ stage = "idle" /\ section = "parsed" /\ stage' = "ready" /\ UNCHANGED parserVars
      /\ UNCHANGED <<environment, arguments, i, found_files, format_type>>
  BY DEF WrongVersion, RandomCoverage, RightVersion, Parsed, EndWith, NotReading
<1>2. disk' = disk /\ names' = names /\ section' = section
  BY <1>1 DEF environment, arguments, parserVars
<1>3. names = <<>>
  BY <1>1 DEF RowsInv, StageInv
<1>4. StageInv'
  BY <1>1, <1>2 DEF RowsInv, StageInv
<1>5. ConfigInv' /\ DiskInv'
  BY <1>1, <1>2, RestKept, SameDisk DEF RowsInv
<1> QED
  BY <1>1, <1>2, <1>3, <1>4, <1>5 DEF RowsInv

\* At first nothing has been asked for.
LEMMA RowsInvInit == InputInit => RowsInv
<1> SUFFICES ASSUME InputInit PROVE RowsInv
  OBVIOUS
<1>1. PICK b \in Beginnings : section = b.section /\ config = b.config /\ disk = b.disk
  BY DEF InputInit
<1>2. section \in {"file", "library"}
  BY <1>1, BeginningsAssumption
<1>3. ConfigInv
  BY <1>1, <1>2 DEF ConfigInv, PastGeneral, PastOperators, PastWavelets, PastAlgorithm, PastVersion
<1>4. DiskInv
  BY <1>1, FilesAssumption DEF DiskInv
<1>5. StageInv
  BY DEF InputInit, FilesInit, StageInv
<1>6. stage = "idle"
  BY DEF InputInit, FilesInit
<1> QED
  BY <1>3, <1>4, <1>5, <1>6 DEF RowsInv

\* Nothing happens.
LEMMA SilenceKeepsRows ==
  ASSUME RowsInv, UNCHANGED inputVars
  PROVE  RowsInv'
<1>1. /\ UNCHANGED parserVars /\ UNCHANGED <<environment, arguments, reading>>
      /\ disk' = disk /\ names' = names /\ section' = section /\ found_files' = found_files
      /\ format_type' = format_type /\ stage' = stage /\ i' = i /\ uv' = uv /\ pol' = pol
      /\ w_term' = w_term /\ units' = units /\ config' = config
  BY DEF inputVars, parserVars, environment, arguments, reading
<1>2. /\ AllFound' = AllFound /\ FoundInAll' = FoundInAll /\ OneFormat' = OneFormat /\ AllRows' = AllRows
      /\ WColumnsFit' = WColumnsFit /\ (\A n : ReadSoFar(n)' = ReadSoFar(n))
      /\ (\A n : FoundBefore(n)' = FoundBefore(n)) /\ UnitsOfFormat' = UnitsOfFormat
  BY <1>1, SameFiles, SameColumns, SameNames DEF UnitsOfFormat
<1>3. AllRowsFolded' = AllRowsFolded
  <2>1. \A row : Folded(row)' = Folded(row)
    BY <1>1 DEF Folded, Value
  <2>2. ThereIn(names)' = ThereIn(names)
    BY <1>1 DEF ThereIn, Exists
  <2> QED
    BY <1>1, <2>1, <2>2, SameStored DEF AllRowsFolded
<1>4. ConfigInv' /\ DiskInv'
  BY <1>1, RestKept, SameDisk DEF RowsInv
<1>5. StageInv'
  BY <1>1 DEF RowsInv, StageInv
<1>6. stage = "scan" => ScanInv'
  <2>1. FoundBefore(i)' = FoundBefore(i)
    BY <1>1, SameNames DEF FoundBefore, Exists
  <2> QED
    BY <1>1, <1>2, <2>1 DEF RowsInv, ScanInv
<1>7. stage \in {"read", "join"} => FoundInv'
  BY <1>1, <1>2 DEF RowsInv, FoundInv
<1>8. stage = "join" => JoinInv'
  <2>1. ReadSoFar(i - 1)' = ReadSoFar(i - 1)
    BY <1>1, SameStored DEF ReadSoFar
  <2> QED
    BY <1>1, <1>2, <2>1 DEF RowsInv, JoinInv, Holds, IsResult, IsList, Exists
<1>9. stage = "returned" /\ uv.outcome = "good" /\ WColumnsFit =>
        Holds(uv, AllRows)' /\ uv'.units = UnitsOfFormat'
  BY <1>1, <1>2 DEF RowsInv, Holds, IsResult, IsList
<1>10. stage = "ready" /\ uv.outcome = "good" /\ names # <<>> /\ WColumnsFit =>
        Holds(uv, AllRowsFolded)' /\ uv'.units = UnitsOfFormat'
  BY <1>1, <1>2, <1>3 DEF RowsInv, Holds, IsResult, IsList
<1>11. stage = "read" => i' = 1
  BY <1>1 DEF RowsInv
<1> QED
  BY <1>1, <1>2, <1>4, <1>5, <1>6, <1>7, <1>8, <1>9, <1>10, <1>11 DEF RowsInv


\* The invariant holds at the beginning and in every step.
THEOREM RowsInvAlways == InputSpec => []RowsInv
<1>1. InputInit => RowsInv
  BY RowsInvInit
<1>2. MembersInv /\ RowsInv /\ [InputNext]_inputVars => RowsInv'
  <2> SUFFICES ASSUME MembersInv, RowsInv, [InputNext]_inputVars PROVE RowsInv'
    OBVIOUS
  <2>1. CASE Parse
    BY <2>1, ParseKeepsRows
  <2>2. CASE WrongVersion \/ RandomCoverage
    BY <2>2, EarlyEndKeepsRows
  <2>3. CASE ReadInput
    <3>1. /\ section = "parsed" /\ UNCHANGED parserVars
          /\ (Source = "simulation" => ~NoCoverage)
          /\ Call(measurements, w_term_member, "I", measurements_units)
      BY <2>3 DEF ReadInput, RightVersion, Parsed
    <3>2. measurements \in Seq(Files)
      BY <3>1, AskedAreFiles
    <3> QED
      BY <3>1, <3>2, CallKeepsRows
  <2>4. CASE LibraryCall
    <3>1. /\ section = "library" /\ UNCHANGED parserVars
          /\ Call(config.names, config.w_term, config.pol, config.units)
      BY <2>4 DEF LibraryCall
    <3>2. config.names \in Seq(Files)
      <4>1. PICK b \in Beginnings : b.section = "library" /\ config = b.config
        BY <3>1 DEF RowsInv, ConfigInv
      <4> QED
        BY <4>1, FilesAssumption
    <3> QED
      BY <3>1, <3>2, CallKeepsRows
  <2>5. CASE ReadOn
    <3>1. UNCHANGED parserVars /\ ReadMeasurements
      BY <2>5 DEF ReadOn
    <3> QED
      BY <3>1, SkipKeepsRows, RefuseKeepsRows, KeepKeepsRows, ChooseKeepsRows, ReadFirstKeepsRows,
         ReadNextKeepsRows, FinishKeepsRows DEF ReadMeasurements
  <2>6. CASE FoldInput
    BY <2>6, FoldKeepsRows
  <2>7. CASE LibraryReturn
    BY <2>7, ReturnKeepsRows
  <2>8. CASE Vanish
    BY <2>8, VanishKeepsRows DEF Vanish
  <2>9. CASE UNCHANGED inputVars
    BY <2>9, SilenceKeepsRows
  <2> QED
    BY <2>1, <2>2, <2>3, <2>4, <2>5, <2>6, <2>7, <2>8, <2>9 DEF InputNext, Program
<1> QED
  BY <1>1, <1>2, MembersInvAlways, PTL DEF InputSpec

\* What main and the library are given is every visibility of every file that was listed and
\* there, as often as it is there and with its own coordinates, value and weight, whatever the
\* format, the flags, the layout of the cells, the number of files and a file that is taken away
\* meanwhile (read_measurements.cc with its readers, getInputData of setup_utils.cc).
THEOREM EveryRowIsOwn == InputSpec => []OwnRows
BY RowsInvAlways, InvOwnRows, PTL
=============================================================================
