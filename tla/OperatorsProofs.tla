---------------------------- MODULE OperatorsProofs ----------------------------
(***************************************************************************)
(* Proofs about Operators for every number of ranks, every image, kernel   *)
(* and share of the visibilities: each distribution computes what a single *)
(* process would, applies the w-terms in full and has an adjoint that goes *)
(* back the same way.                                                      *)
(***************************************************************************)
EXTENDS Operators, Lists

(***************************************************************************)
(* The results of an operator, as functions of what it was given.          *)
(***************************************************************************)

\* The rank whose image a column of rank r's matrix belongs to.
Holder(r, c) ==
  IF OwnImage THEN r ELSE IF Distribution = "all_to_all" THEN c \div FtSize ELSE Root

\* The column of a cell of the image that rank h holds.
Column(h, d) == IF Distribution = "all_to_all" THEN h * FtSize + d ELSE d

\* The columns of a rank's matrix in use.
Columns(r) == UNION {MatrixRow(r, m) : m \in Rows(r)}

\* What a rank has of the transformed images, and the visibilities it computes from it.
Received(r) ==
  IF OwnImage THEN Transformed(r)
  ELSE [c \in Columns(r) |-> Transformed(Holder(r, c))[c % FtSize]]
DirectOf(r) == Degridded(r, Received(r))

\* The ranks whose visibilities come into the image of rank h, what they contribute to a
\* cell of its grid, and its part of the image.
Givers(h) == IF OwnImage THEN {h} ELSE Ranks
Contributions(h, d) ==
  UNION {Gridded(s)[Column(h, d)] : s \in {t \in Givers(h) : Column(h, d) \in Columns(t)}}
PartOf(h) ==
  IF NotANumber(h) THEN [p \in Pixels |-> {[nan |-> h]}]
  ELSE Unpadded(h, [d \in Cells |-> Contributions(h, d)])

ImageOf(r) ==
  IF Distribution = "serial" THEN PartOf(r)
  ELSE IF Distribution = "grid" THEN PartOf(Root)
  ELSE [p \in Pixels |-> UNION {PartOf(q)[p] : q \in Ranks}]

\* The call after which a rank has its visibilities and its part; 0 where it has them
\* from its own image.
DirectCall == IF OwnImage THEN 0 ELSE IF Distribution = "grid" THEN 3 ELSE 2
PartCall == IF OwnImage THEN 0 ELSE IF Distribution = "grid" THEN 4 ELSE 3

(***************************************************************************)
(* The inductive invariant.                                                *)
(***************************************************************************)

Given == choice \in Requests /\ vis \in Visibilities /\ w_stacks \in Stacks

\* A rank makes one call after the other, and none before it has its operator.
Progress(r) ==
  /\ posted[r] \in Nat /\ done[r] \in Nat
  /\ done[r] <= posted[r] /\ posted[r] <= done[r] + 1 /\ posted[r] <= Len(Calls)
  /\ pc[r] \in {"construct", "apply", "calls", "done", "threw", "crashed"}
  /\ pc[r] \notin {"calls", "done"} => posted[r] = 0
  /\ pc[r] = "done" => done[r] = Len(Calls)
  /\ pc[r] \in {"apply", "calls", "done"} => ~BadIndex(r)

\* The root knows what the ranks have asked it for.
Asking ==
  Distribution = "grid" =>
    /\ done[Root] >= 1 => sizes = [q \in Ranks |-> Len(non_empty_outers(Matrix(q)))]
    /\ done[Root] >= 2 =>
         mapping = FlattenSeq([q \in 1 .. Size |-> non_empty_outers(Matrix(q - 1))])

\* What a rank has computed after each of its calls.
Computed(r) ==
  pc[r] \in {"calls", "done"} =>
    /\ done[r] >= DirectCall => direct[r] = DirectOf(r)
    /\ done[r] >= PartCall /\ (Distribution = "grid" => r = Root) => part[r] = PartOf(r)
    /\ Distribution # "serial" /\ done[r] = Len(Calls) => image[r] = ImageOf(r)
    /\ pc[r] = "done" => image[r] = ImageOf(r)

\* The calls in which every rank waits for all have been entered by all.
Together ==
  \A r, q \in Ranks :
    /\ Distribution \in {"image", "all_to_all"} => posted[q] >= done[r]
    /\ Distribution = "grid" =>
         /\ done[Root] >= 4 => posted[q] >= 4
         /\ done[r] >= 3 => posted[Root] >= 3
         /\ done[r] >= 5 => posted[Root] >= 5

\* The results are kept for every rank.
PerRank == DOMAIN direct = Ranks /\ DOMAIN part = Ranks /\ DOMAIN image = Ranks

OperatorInv ==
  /\ TypeOK /\ PerRank
  /\ \A r \in Ranks : Progress(r) /\ Computed(r)
  /\ Asking /\ Together

(***************************************************************************)
(* The matrices.                                                           *)
(***************************************************************************)

LEMMA GridSizes ==
  /\ ftsizeu \in Nat /\ ftsizeu > 0 /\ ftsizev \in Nat /\ ftsizev > 0
  /\ FtSize \in Nat /\ FtSize > 0
  /\ Ju \in Nat /\ Jw \in Nat /\ Size \in Nat /\ Size > 0
<1>1. /\ imsizex \in Nat /\ imsizex > 0 /\ imsizey \in Nat /\ imsizey > 0
      /\ oversample_ratio \in Nat /\ oversample_ratio > 0
      /\ Ju \in Nat /\ Jw \in Nat /\ Size \in Nat /\ Size > 0
  BY ImageAssumption, SizeAssumption
<1>2. \A a, b \in Nat : a > 0 /\ b > 0 => a * b \in Nat /\ a * b > 0
  OBVIOUS
<1>3. ftsizeu \in Nat /\ ftsizeu > 0 /\ ftsizev \in Nat /\ ftsizev > 0
  BY <1>1, <1>2 DEF ftsizeu, ftsizev
<1>4. FtSize \in Nat /\ FtSize > 0
  BY <1>2, <1>3 DEF FtSize
<1> QED
  BY <1>1, <1>3, <1>4

\* A place d of the a-th grid, and back.
LEMMA PlaceAndBack ==
  ASSUME NEW n \in Nat, n > 0, NEW a \in Int, NEW d \in 0 .. n-1
  PROVE  (d + a * n) % n = d /\ (d + a * n) \div n = a
<1> DEFINE x == d + a * n
           k == x \div n
           e == x % n
<1>1. a * n \in Int /\ x \in Int /\ d \in Int
  OBVIOUS
<1>2. k \in Int /\ e \in 0 .. n-1 /\ x = n * k + e
  <2> HIDE DEF x
  <2> QED
    BY <1>1
<1>3. x = d + a * n
  OBVIOUS
<1> HIDE DEF x, k, e
<1>4. n * k + e = d + a * n
  BY <1>2, <1>3
<1>5. a = k
  <2>1. n * k \in Int /\ n * a \in Int /\ a * n = n * a /\ e \in Int /\ d \in Int
    BY <1>2
  <2>2. n * k - n * a < n /\ n * a - n * k < n
    BY <1>2, <1>4, <2>1
  <2>3. n * (k - a) = n * k - n * a /\ n * (a - k) = n * a - n * k
    BY <1>2
  <2>4. CASE k - a >= 1
    <3>1. n * (k - a) >= n
      BY <1>2, <2>4
    <3> QED
      BY <2>1, <2>2, <2>3, <3>1
  <2>5. CASE a - k >= 1
    <3>1. n * (a - k) >= n
      BY <1>2, <2>5
    <3> QED
      BY <2>1, <2>2, <2>3, <3>1
  <2> QED
    BY <1>2, <2>4, <2>5
<1>6. e = d
  <2>1. n * k = a * n /\ n * k \in Int
    BY <1>2, <1>5
  <2> QED
    BY <1>2, <1>4, <2>1
<1> QED
  BY <1>5, <1>6 DEF k, e, x

\* What is known of a rank's visibilities.
LEMMA GivenRows ==
  ASSUME Given, NEW r \in Ranks
  PROVE  /\ Len(vis[r]) \in Nat /\ Rows(r) = 1 .. Len(vis[r]) /\ IsFiniteSet(Rows(r))
         /\ \A m \in Rows(r) : /\ vis[r][m].u \in Int /\ vis[r][m].v \in Int
                               /\ vis[r][m].w \in Int /\ vis[r][m].image \in Int
<1>1. vis[r] \in Seq([u : Int, v : Int, w : Int, image : Int])
  BY VisibilitiesAssumption DEF Given
<1> DEFINE s == vis[r]
           T == [u : Int, v : Int, w : Int, image : Int]
<1>2. s \in Seq(T)
  BY <1>1
<1>3. \A x \in T : x.u \in Int /\ x.v \in Int /\ x.w \in Int /\ x.image \in Int
  OBVIOUS
<1> HIDE DEF s, T
<1>4. Len(s) \in Nat /\ DOMAIN s = 1 .. Len(s) /\ \A m \in DOMAIN s : s[m] \in T
  BY <1>2
<1>5. IsFiniteSet(1 .. Len(s))
  BY <1>4, FS_Interval
<1> QED
  BY <1>3, <1>4, <1>5 DEF s, Rows

\* The mean of the w-terms, the chirp and what is left for the kernel are numbers.
LEMMA WTermsAreNumbers ==
  ASSUME Given, NEW r \in Ranks
  PROVE  /\ MeanW(r) \in Int /\ Chirp(r) \in Int
         /\ ~BadIndex(r) => \A m \in Rows(r) : KernelW(r, m) \in Int
<1>1. MeanW(r) \in Int
  <2>1. CASE Rows(r) = {}
    BY <2>1 DEF MeanW
  <2>2. CASE Rows(r) # {}
    <3> DEFINE f == [m \in Rows(r) |-> vis[r][m].w]
               n == Len(vis[r])
    <3>1. IsFiniteSet(DOMAIN f) /\ \A m \in DOMAIN f : f[m] \in Int
      BY GivenRows
    <3>2. MeanW(r) = SumFunctionOnSet(f, DOMAIN f) \div n
      BY <2>2 DEF MeanW, SumFunction
    <3>3. n \in Nat /\ n > 0
      BY <2>2, GivenRows
    <3> HIDE DEF f, n
    <3>4. SumFunctionOnSet(f, DOMAIN f) \in Int
      BY <3>1, SumIsInteger
    <3> QED
      BY <3>2, <3>3, <3>4
  <2> QED
    BY <2>1, <2>2
<1>2. w_stacks \in [Ranks -> Int]
  BY StacksAssumption DEF Given
<1>3. Chirp(r) \in Int
  BY <1>1, <1>2 DEF Chirp
<1>4. ASSUME ~BadIndex(r), NEW m \in Rows(r)
      PROVE  KernelW(r, m) \in Int
  <2>1. vis[r][m].w \in Int /\ vis[r][m].image \in Int
    BY GivenRows
  <2>2. MeanKernelW(r, m) \in Int
    BY <1>1, <2>1 DEF MeanKernelW
  <2>3. Distribution = "all_to_all" => choice.distribute = "all_to_all"
    BY DEF Distribution
  <2>4. ASSUME Distribution = "all_to_all"
        PROVE  StackKernelW(r, m) \in Int
    <3>1. ~ (vis[r][m].image < 0) /\ ~ (vis[r][m].image > Size - 1)
      BY <1>4, <2>3, <2>4 DEF BadIndex
    <3>2. vis[r][m].image \in Ranks
      BY <2>1, <3>1, GridSizes DEF Ranks
    <3> QED
      BY <1>2, <2>1, <3>2 DEF StackKernelW
  <2> QED
    BY <2>2, <2>4 DEF KernelW
<1> QED
  BY <1>1, <1>3, <1>4

\* Taps lie on the grid, and there are finitely many.
LEMMA TapOnGrid ==
  ASSUME NEW u \in Int, NEW v \in Int, NEW ju \in Nat, NEW jv \in Nat, NEW tap \in Taps(ju, jv)
  PROVE  TapCell(u, v, ju, jv, tap, ftsizev, ftsizeu) \in Cells
<1> DEFINE row == mod(FirstTap(v, jv) + tap[2], ftsizev)
           col == mod(FirstTap(u, ju) + tap[1], ftsizeu)
           cell == TapCell(u, v, ju, jv, tap, ftsizev, ftsizeu)
<1>1. tap[1] \in Int /\ tap[2] \in Int
  BY DEF Taps
<1>2. FirstTap(u, ju) \in Int /\ FirstTap(v, jv) \in Int
  BY DEF FirstTap
<1>3. row \in 0 .. ftsizev - 1 /\ col \in 0 .. ftsizeu - 1
  BY <1>1, <1>2, GridSizes DEF mod
<1>4. cell = row * ftsizeu + col
  BY DEF TapCell, sub2ind
<1> HIDE DEF row, col, cell
<1>5. PICK k \in Nat : ftsizev = row + 1 + k
  <2>1. ftsizev - row - 1 \in Nat /\ ftsizev = row + 1 + (ftsizev - row - 1)
    BY <1>3, GridSizes
  <2> QED
    BY <2>1
<1>6. FtSize = row * ftsizeu + ftsizeu + k * ftsizeu
  BY <1>3, <1>5, GridSizes DEF FtSize
<1> DEFINE before == row * ftsizeu
           behind == k * ftsizeu
<1>7. before \in Nat /\ behind \in Nat
  BY <1>3, GridSizes
<1>8. cell = before + col /\ FtSize = before + ftsizeu + behind
  BY <1>4, <1>6
<1> HIDE DEF before, behind
<1>9. cell \in Cells
  BY <1>3, <1>7, <1>8, GridSizes DEF Cells
<1> QED
  BY <1>9 DEF cell

LEMMA TapsFinite ==
  ASSUME NEW ju \in Nat, NEW jv \in Nat
  PROVE  IsFiniteSet(Taps(ju, jv))
<1>1. IsFiniteSet(1 .. ju) /\ IsFiniteSet(1 .. jv)
  BY FS_Interval
<1> QED
  BY <1>1, FS_Product DEF Taps

\* The images of a finite set are finitely many.
LEMMA ImageFinite ==
  ASSUME NEW S, NEW f, IsFiniteSet(S)
  PROVE  IsFiniteSet({f[x] : x \in S})
<1> DEFINE T == {f[x] : x \in S}
           g == [x \in S |-> f[x]]
<1>1. g \in Surjection(S, T)
  BY DEF Surjection
<1> HIDE DEF T, g
<1>2. IsFiniteSet(T)
  BY <1>1, FS_Surjection
<1> QED
  BY <1>2 DEF T

\* The cells a visibility touches in its image.
CellsOf(r, m) == IF Projects THEN ProjectedCells(r, m) ELSE PlainCells(r, m)

LEMMA CellsOnGrid ==
  ASSUME Given, NEW r \in Ranks, ~BadIndex(r), NEW m \in Rows(r)
  PROVE  CellsOf(r, m) \subseteq Cells /\ IsFiniteSet(CellsOf(r, m))
<1> DEFINE u == vis[r][m].u
           v == vis[r][m].v
           Touched(ju, jv) == {TapCell(u, v, ju, jv, tap, ftsizev, ftsizeu) : tap \in Taps(ju, jv)}
<1>1. u \in Int /\ v \in Int
  BY GivenRows
<1>2. KernelW(r, m) \in Int
  BY WTermsAreNumbers
<1> HIDE DEF u, v
<1>3. ASSUME NEW ju \in Nat, NEW jv \in Nat
      PROVE  Touched(ju, jv) \subseteq Cells /\ IsFiniteSet(Touched(ju, jv))
  <2> DEFINE f == [tap \in Taps(ju, jv) |-> TapCell(u, v, ju, jv, tap, ftsizev, ftsizeu)]
             T == Taps(ju, jv)
  <2>1. Touched(ju, jv) \subseteq Cells
    BY <1>1, TapOnGrid
  <2>2. Touched(ju, jv) = {f[tap] : tap \in T}
    OBVIOUS
  <2>3. IsFiniteSet(T)
    BY TapsFinite
  <2> HIDE DEF f, T
  <2>4. IsFiniteSet({f[tap] : tap \in T})
    BY <2>3, ImageFinite
  <2> QED
    BY <2>1, <2>2, <2>4
<1>4. Smaller(Ju, ftsizeu) \in Nat /\ Smaller(Ju, ftsizev) \in Nat
  BY GridSizes DEF Smaller
<1>5. w_support(KernelW(r, m)) \in Nat
  <2> DEFINE k == KernelW(r, m)
  <2>1. k \in Int
    BY <1>2
  <2> HIDE DEF k
  <2>2. Magnitude(k) \in Nat
    BY <2>1 DEF Magnitude
  <2>3. w_support(k) \in Nat
    BY <2>2, GridSizes DEF w_support, Smaller
  <2> QED
    BY <2>3 DEF k
<1>6. PlainCells(r, m) = Touched(Smaller(Ju, ftsizeu), Smaller(Ju, ftsizev))
  BY DEF PlainCells, u, v
<1>7. ProjectedCells(r, m) = Touched(w_support(KernelW(r, m)), w_support(KernelW(r, m)))
  BY DEF ProjectedCells, u, v
<1> HIDE DEF Touched
<1>8. PlainCells(r, m) \subseteq Cells /\ IsFiniteSet(PlainCells(r, m))
  BY <1>3, <1>4, <1>6
<1>9. ProjectedCells(r, m) \subseteq Cells /\ IsFiniteSet(ProjectedCells(r, m))
  BY <1>3, <1>5, <1>7
<1> QED
  BY <1>8, <1>9 DEF CellsOf

\* The columns of a row: cells of the image that the visibility belongs to.
RowShape(r, m) ==
  /\ IsFiniteSet(MatrixRow(r, m))
  /\ \A c \in MatrixRow(r, m) :
       /\ c \in Int /\ Holder(r, c) \in Ranks /\ c % FtSize \in Cells
       /\ Column(Holder(r, c), c % FtSize) = c
       /\ Distribution = "all_to_all" => Holder(r, c) = vis[r][m].image
       /\ Distribution # "all_to_all" => c \in Cells /\ c % FtSize = c

\* A cell is its own remainder.
LEMMA CellInGrid == \A d \in Cells : d % FtSize = d
<1> SUFFICES ASSUME NEW d \in Cells PROVE d % FtSize = d
  OBVIOUS
<1> DEFINE n == FtSize
<1>1. n \in Nat /\ n > 0 /\ d \in 0 .. n-1
  BY GridSizes DEF Cells
<1> HIDE DEF n
<1>2. d % n = d
  BY <1>1
<1> QED
  BY <1>2 DEF n

LEMMA RowsHaveShape ==
  ASSUME Given, NEW r \in Ranks, ~BadIndex(r), NEW m \in Rows(r)
  PROVE  RowShape(r, m)
<1>1. CellsOf(r, m) \subseteq Cells /\ IsFiniteSet(CellsOf(r, m))
  BY CellsOnGrid
<1>2. \A d \in Cells : d \in Nat /\ d \in Int /\ d % FtSize = d
  BY CellInGrid, GridSizes DEF Cells
<1>3. CASE Distribution = "all_to_all"
  <2> DEFINE a == vis[r][m].image
             n == FtSize
             f == [d \in Cells |-> d + a * n]
             own == CellsOf(r, m)
  <2>1. choice.distribute = "all_to_all" /\ ~OwnImage
    BY <1>3 DEF Distribution, OwnImage
  <2>2. a \in Int /\ a \in Ranks
    <3>1. a \in Int /\ ~ (a < 0) /\ ~ (a > Size - 1)
      BY <2>1, GivenRows DEF BadIndex
    <3> HIDE DEF a
    <3> QED
      BY <3>1, GridSizes DEF Ranks
  <2>3. MatrixRow(r, m) = {f[d] : d \in own}
    BY <1>1, <1>3 DEF MatrixRow, CellsOf
  <2>4. n \in Nat /\ n > 0 /\ Cells = 0 .. n-1
    BY GridSizes DEF Cells
  <2>5. ASSUME NEW c \in MatrixRow(r, m)
        PROVE  /\ c \in Int /\ c \div FtSize = a /\ c % FtSize \in Cells
               /\ a * FtSize + (c % FtSize) = c
    <3>1. PICK d \in own : c = d + a * n
      BY <1>1, <2>3
    <3>2. d \in Cells
      BY <1>1
    <3>3. d \in 0 .. n-1
      BY <2>4, <3>2
    <3> HIDE DEF a, n, own
    <3>4. c % n = d /\ c \div n = a
      BY <2>2, <2>4, <3>1, <3>3, PlaceAndBack
    <3>5. c \in Int /\ a * n + d = c
      <4>1. a * n \in Int /\ d \in Int
        BY <2>2, <2>4, <3>3
      <4> QED
        BY <3>1, <4>1
    <3> QED
      BY <3>2, <3>4, <3>5 DEF n
  <2>6. \A c \in MatrixRow(r, m) : Holder(r, c) = a /\ Column(a, c % FtSize) = c
    <3>1. \A c : Holder(r, c) = c \div FtSize
      BY <1>3, <2>1 DEF Holder
    <3>2. \A d : Column(a, d) = a * FtSize + d
      BY <1>3 DEF Column
    <3> HIDE DEF a
    <3> QED
      BY <2>5, <3>1, <3>2
  <2>7. IsFiniteSet(MatrixRow(r, m))
    <3> HIDE DEF f, own
    <3>1. IsFiniteSet(own)
      BY <1>1 DEF own
    <3> QED
      BY <2>3, <3>1, ImageFinite
  <2> QED
    BY <1>3, <2>2, <2>5, <2>6, <2>7 DEF RowShape
<1>4. CASE Distribution # "all_to_all"
  <2>1. MatrixRow(r, m) = CellsOf(r, m)
    <3>1. MatrixRow(r, m) = {c + 0 : c \in CellsOf(r, m)}
      BY <1>4 DEF MatrixRow, CellsOf
    <3> DEFINE own == CellsOf(r, m)
    <3>2. \A c \in own : c + 0 = c
      BY <1>1, <1>2
    <3> HIDE DEF own
    <3>3. {c + 0 : c \in own} = own
      BY <3>2
    <3> QED
      BY <3>1, <3>3 DEF own
  <2>2. \A c : Holder(r, c) = r \/ Holder(r, c) = Root
    BY <1>4 DEF Holder
  <2>3. Root \in Ranks
    BY GridSizes DEF Root, Ranks
  <2>4. \A h, d : Column(h, d) = d
    BY <1>4 DEF Column
  <2> QED
    BY <1>1, <1>2, <1>4, <2>1, <2>2, <2>3, <2>4 DEF RowShape
<1> QED
  BY <1>3, <1>4

\* The columns in use, as the matrix and its ordered list have them.
LEMMA ColumnsOfMatrix ==
  ASSUME Given, NEW r \in Ranks, ~BadIndex(r)
  PROVE  /\ Columns(r) \in SUBSET Int /\ IsFiniteSet(Columns(r))
         /\ DOMAIN Matrix(r) = Rows(r) /\ \A m \in Rows(r) : Matrix(r)[m] = MatrixRow(r, m)
         /\ non_empty_outers(Matrix(r)) = Ordered(Columns(r))
<1>1. \A m \in Rows(r) : RowShape(r, m)
  BY RowsHaveShape
<1>2. DOMAIN Matrix(r) = Rows(r) /\ \A m \in Rows(r) : Matrix(r)[m] = MatrixRow(r, m)
  BY DEF Matrix
<1>3. Columns(r) \in SUBSET Int
  BY <1>1 DEF Columns, RowShape
<1>4. IsFiniteSet(Columns(r))
  <2> DEFINE T == Rows(r)
             f == [m \in T |-> MatrixRow(r, m)]
             S == {f[m] : m \in T}
  <2>1. IsFiniteSet(T)
    BY GivenRows
  <2>2. \A X \in S : IsFiniteSet(X)
    BY <1>1 DEF RowShape
  <2>3. Columns(r) = UNION S
    BY DEF Columns
  <2> HIDE DEF f, T
  <2>4. IsFiniteSet(S)
    BY <2>1, ImageFinite
  <2> HIDE DEF S
  <2>5. IsFiniteSet(UNION S)
    BY <2>2, <2>4, FS_UNION
  <2> QED
    BY <2>3, <2>5
<1>5. non_empty_outers(Matrix(r)) = Ordered(Columns(r))
  <2>1. UNION {Matrix(r)[m] : m \in DOMAIN Matrix(r)} = Columns(r)
    BY <1>2 DEF Columns
  <2> QED
    BY <2>1 DEF non_empty_outers
<1> QED
  BY <1>2, <1>3, <1>4, <1>5

\* The ordered list of the columns: each once.
LEMMA ColumnsListedOnce ==
  ASSUME Given, NEW r \in Ranks, ~BadIndex(r), NEW own, own = non_empty_outers(Matrix(r))
  PROVE  /\ own \in Seq(Columns(r)) /\ Len(own) \in Nat /\ DOMAIN own = 1 .. Len(own)
         /\ ToSet(own) = Columns(r)
         /\ \A i, j \in DOMAIN own : own[i] = own[j] => i = j
<1> DEFINE S == Columns(r)
           n == Cardinality(S)
<1>1. S \in SUBSET Int /\ IsFiniteSet(S) /\ own = Ordered(S)
  BY ColumnsOfMatrix
<1> HIDE DEF S
<1>2. /\ Ordered(S) \in [1 .. n -> S] /\ Ordered(S) \in Seq(S) /\ Len(Ordered(S)) = n
      /\ \A i, j \in 1 .. n : i < j => Ordered(S)[i] < Ordered(S)[j]
      /\ \A x \in S : \E i \in 1 .. n : Ordered(S)[i] = x
  BY <1>1, OrderedEnumerates
<1>3. n \in Nat
  BY <1>1, FS_CardinalityType
<1> HIDE DEF n
<1>4. own \in Seq(S) /\ Len(own) = n /\ DOMAIN own = 1 .. n
  BY <1>1, <1>2
<1>5. \A i, j \in 1 .. n : own[i] = own[j] => i = j
  <2>1. \A i, j \in 1 .. n : i < j \/ j < i \/ i = j
    BY <1>3
  <2>2. \A i \in 1 .. n : own[i] \in Int
    BY <1>1, <1>2
  <2>3. \A i, j \in 1 .. n : i < j => own[i] < own[j]
    BY <1>1, <1>2
  <2>4. \A i, j \in 1 .. n : i < j => own[i] # own[j]
    BY <2>2, <2>3
  <2> QED
    BY <2>1, <2>4
<1>6. {own[i] : i \in 1 .. n} = S
  BY <1>1, <1>2
<1>7. ToSet(own) = S
  BY <1>4, <1>6 DEF ToSet
<1> QED
  BY <1>3, <1>4, <1>5, <1>7 DEF S


(***************************************************************************)
(* What is joined rank after rank.                                         *)
(***************************************************************************)

\* The recursion of FlattenSeq.
Flattening(s, f) == [i \in 1 .. Len(s) |-> IF i = 1 THEN s[i] ELSE f[i-1] \o s[i]]

\* The pieces of n ranks as a sequence, and joined.
PieceList(n, pieces) == [q \in 1 .. n |-> pieces[q-1]]

\* FlattenSeq puts the pieces one behind the other.
LEMMA FlattenInPlace ==
  ASSUME NEW n \in Nat, n > 0, NEW S, NEW pieces, \A q \in 0 .. n-1 : pieces[q] \in Seq(S),
         NEW offset, AreOffsets(n, pieces, offset)
  PROVE  /\ FlattenSeq(PieceList(n, pieces)) \in Seq(S)
         /\ InPlace(n, pieces, offset, FlattenSeq(PieceList(n, pieces)))
<1> DEFINE s == PieceList(n, pieces)
           f == CHOOSE g : g = Flattening(s, g)
<1>1. DOMAIN s = 1 .. n /\ Len(s) = n /\ \A i \in 1 .. n : s[i] = pieces[i-1]
  BY DEF PieceList
<1> HIDE DEF s
<1>2. FlattenSeq(s) = f[n]
  BY <1>1 DEF FlattenSeq, Flattening
<1>3. f = Flattening(s, f)
  <2>1. PICK c : c = Appended(n, pieces, c)
    BY AppendedDefined
  <2>2. \A q \in -1 .. n-1 : c[q] = IF q = -1 THEN <<>> ELSE c[q-1] \o pieces[q]
    BY <2>1 DEF Appended
  <2> DEFINE d == [i \in 1 .. n |-> c[i-1]]
  <2>3. \A i \in 1 .. n : i-1 \in -1 .. n-1 /\ i-1 # -1 /\ i-1 \in 0 .. n-1
    OBVIOUS
  <2>4. \A i \in 1 .. n : d[i] = c[(i-1)-1] \o s[i]
    BY <1>1, <2>2, <2>3
  <2>5. d[1] = s[1]
    <3>1. 1 \in 1 .. n /\ 1-1 = 0 /\ (1-1)-1 = -1 /\ 0 \in 0 .. n-1 /\ -1 \in -1 .. n-1
      OBVIOUS
    <3>2. c[-1] = <<>>
      BY <2>2, <3>1
    <3>3. s[1] \in Seq(S)
      BY <1>1, <3>1
    <3>4. <<>> \o s[1] = s[1]
      BY <3>3
    <3> QED
      BY <2>4, <3>1, <3>2, <3>4
  <2>6. \A i \in 1 .. n : i # 1 => i-1 \in 1 .. n /\ d[i-1] = c[(i-1)-1]
    OBVIOUS
  <2> HIDE DEF d
  <2>7. \A i \in 1 .. n : d[i] = IF i = 1 THEN s[i] ELSE d[i-1] \o s[i]
    BY <2>4, <2>5, <2>6
  <2>8. d = Flattening(s, d)
    BY <1>1, <2>7 DEF Flattening, d
  <2> QED
    BY <2>8
<1> HIDE DEF f
<1> DEFINE e == [q \in -1 .. n-1 |-> IF q = -1 THEN <<>> ELSE f[q+1]]
<1>4. \A i \in 1 .. n : f[i] = IF i = 1 THEN s[i] ELSE f[i-1] \o s[i]
  BY <1>1, <1>3 DEF Flattening
<1>5. e = Appended(n, pieces, e)
  <2>1. ASSUME NEW q \in -1 .. n-1, q # -1
        PROVE  e[q] = e[q-1] \o pieces[q]
    <3>1. q + 1 \in 1 .. n /\ (q+1)-1 = q /\ q \in 0 .. n-1 /\ q-1 \in -1 .. n-1 /\ (q-1)+1 = q
      BY <2>1
    <3>2. e[q] = f[q+1] /\ s[q+1] = pieces[q]
      BY <1>1, <2>1, <3>1
    <3>3. CASE q = 0
      <4>1. e[q-1] = <<>> /\ pieces[q] \in Seq(S)
        BY <3>1, <3>3
      <4>2. <<>> \o pieces[q] = pieces[q]
        BY <4>1
      <4> QED
        BY <1>4, <3>1, <3>2, <3>3, <4>1, <4>2
    <3>4. CASE q # 0
      <4>1. e[q-1] = f[q]
        BY <3>1, <3>4
      <4>2. q + 1 # 1
        BY <3>4
      <4> HIDE DEF e
      <4>3. f[q+1] = f[(q+1)-1] \o s[q+1]
        BY <1>4, <3>1, <4>2
      <4>4. f[q+1] = f[q] \o pieces[q]
        BY <3>1, <3>2, <4>3
      <4> QED
        BY <3>2, <4>1, <4>4
    <3> QED
      BY <3>3, <3>4
  <2>2. \A q \in -1 .. n-1 : e[q] = IF q = -1 THEN <<>> ELSE e[q-1] \o pieces[q]
    BY <2>1
  <2>3. e = [q \in -1 .. n-1 |-> e[q]]
    OBVIOUS
  <2> HIDE DEF e
  <2> QED
    BY <2>2, <2>3 DEF Appended
<1>6. e[n-1] = f[n]
  <2>1. n-1 \in -1 .. n-1 /\ n-1 # -1 /\ (n-1)+1 = n
    OBVIOUS
  <2> QED
    BY <2>1
<1> HIDE DEF e
<1>7. e[n-1] \in Seq(S) /\ InPlace(n, pieces, offset, e[n-1])
  BY <1>5, PiecesInPlace
<1> QED
  BY <1>2, <1>6, <1>7 DEF s

\* The sums of the lengths are the offsets.
LEMMA SumsAreOffsets ==
  ASSUME NEW n \in Nat, NEW S, NEW pieces, \A q \in 0 .. n-1 : pieces[q] \in Seq(S),
         NEW lengths, \A q \in 0 .. n-1 : lengths[q] = Len(pieces[q]),
         NEW offset, offset = [k \in 0 .. n |-> SumUpto(lengths, k)]
  PROVE  AreOffsets(n, pieces, offset)
<1>1. \A q \in 0 .. n-1 : lengths[q] \in Nat
  OBVIOUS
<1>2. /\ SumUpto(lengths, 0) = 0 /\ \A k \in 0 .. n : SumUpto(lengths, k) \in Nat
      /\ \A k \in 0 .. n-1 : SumUpto(lengths, k+1) = SumUpto(lengths, k) + lengths[k]
  BY <1>1, SumGrows
<1>3. 0 \in 0 .. n /\ \A k \in 0 .. n-1 : k \in 0 .. n /\ k+1 \in 0 .. n
  OBVIOUS
<1> QED
  BY <1>2, <1>3 DEF AreOffsets

\* Lists of places for n ranks, their lengths, and lists of values for those places.
ArePlaces(n, N, own) == \A q \in 0 .. n-1 : own[q] \in Seq(0 .. N-1)
AreLengths(n, own, lengths) == \A q \in 0 .. n-1 : lengths[q] = Len(own[q])
AreValues(n, S, own, values) ==
  \A q \in 0 .. n-1 : values[q] \in Seq(S) /\ Len(values[q]) = Len(own[q])

\* The values at the places of all ranks, and what rank q is sent of them.
Scattered(n, own, lengths, input, q) ==
  SubSeq(Select(FlattenSeq(PieceList(n, own)), 0, input),
         SumUpto(lengths, q) + 1, SumUpto(lengths, q) + lengths[q])

\* The values of all ranks added at their places, and where they come from.
Gathered(n, N, own, values) ==
  Accumulate(FlattenSeq(PieceList(n, own)), 0, N, FlattenSeq(PieceList(n, values)))
ComesFrom(n, own, values, p, x) ==
  \E q \in 0 .. n-1 : \E j \in 1 .. Len(own[q]) : own[q][j] = p /\ x \in values[q][j]

\* Scattering: the stretch of a rank holds the values at its indices.
LEMMA ScatteredValues ==
  ASSUME NEW n \in Nat, n > 0, NEW N \in Nat, NEW own, ArePlaces(n, N, own),
         NEW lengths, AreLengths(n, own, lengths), NEW input, NEW q \in 0 .. n-1
  PROVE  \A j \in 1 .. Len(own[q]) :
           Scattered(n, own, lengths, input, q)[j] = input[own[q][j]]
<1> DEFINE sent == Scattered(n, own, lengths, input, q)
<1>01. /\ \A x \in 0 .. n-1 : own[x] \in Seq(0 .. N-1)
      /\ \A x \in 0 .. n-1 : lengths[x] = Len(own[x])
  BY DEF ArePlaces, AreLengths
<1>02. sent = SubSeq(Select(FlattenSeq(PieceList(n, own)), 0, input),
                    SumUpto(lengths, q) + 1, SumUpto(lengths, q) + lengths[q])
  BY DEF Scattered
<1> HIDE DEF sent
<1>0. \A x \in 0 .. n-1 : lengths[x] \in Nat
  <2> SUFFICES ASSUME NEW x \in 0 .. n-1 PROVE lengths[x] \in Nat
    OBVIOUS
  <2>1. lengths[x] = Len(own[x])
    BY <1>01
  <2>2. own[x] \in Seq(0 .. N-1)
    BY <1>01
  <2>3. Len(own[x]) \in Nat
    BY ONLY <2>2
  <2> QED
    BY <2>1, <2>3
<1> DEFINE mp == FlattenSeq(PieceList(n, own))
           offset == [k \in 0 .. n |-> SumUpto(lengths, k)]
           S == {input[c] : c \in 0 .. N-1}
           sel == Select(mp, 0, input)
<1>1. AreOffsets(n, own, offset)
  BY <1>01, SumsAreOffsets
<1>2. q \in 0 .. n /\ q+1 \in 0 .. n /\ n \in 0 .. n
  OBVIOUS
<1> HIDE DEF offset
<1>3. mp \in Seq(0 .. N-1) /\ InPlace(n, own, offset, mp)
  BY <1>01, <1>1, FlattenInPlace
<1>4. offset[q] = SumUpto(lengths, q) /\ offset[n] = SumUpto(lengths, n)
  BY <1>2 DEF offset
<1> HIDE DEF mp
<1>5. /\ Len(mp) = offset[n] /\ offset[q] \in Nat /\ offset[n] \in Nat
      /\ \A j \in 1 .. Len(own[q]) : offset[q] + j \in 1 .. offset[n]
                                     /\ mp[offset[q] + j] = own[q][j]
  BY <1>1, <1>2, <1>3 DEF InPlace, AreOffsets
<1>6. sel \in Seq(S) /\ Len(sel) = offset[n] /\ \A i \in 1 .. offset[n] : sel[i] = input[mp[i]]
  <2>1. DOMAIN mp = 1 .. offset[n] /\ \A i \in 1 .. offset[n] : mp[i] \in 0 .. N-1
    BY <1>3, <1>5
  <2>2. \A c \in 0 .. N-1 : c - 0 = c
    OBVIOUS
  <2>3. sel = [i \in 1 .. offset[n] |-> input[mp[i] - 0]]
    BY <2>1 DEF Select
  <2>4. \A i \in 1 .. offset[n] : mp[i] - 0 = mp[i]
    BY <2>1, <2>2
  <2>5. DOMAIN sel = 1 .. offset[n] /\ sel = [i \in 1 .. offset[n] |-> sel[i]]
        /\ \A i \in 1 .. offset[n] : sel[i] = input[mp[i] - 0]
    BY <2>3
  <2> HIDE DEF sel
  <2>6. \A i \in 1 .. offset[n] : sel[i] = input[mp[i]]
    BY <2>4, <2>5
  <2>7. \A i \in 1 .. offset[n] : sel[i] \in S
    BY <2>1, <2>6
  <2> DEFINE len == offset[n]
  <2>8. len \in Nat /\ DOMAIN sel = 1 .. len /\ sel = [i \in 1 .. len |-> sel[i]]
        /\ \A i \in 1 .. len : sel[i] \in S
    BY <1>5, <2>5, <2>7
  <2> HIDE DEF S, len
  <2>9. sel \in [1 .. len -> S]
    BY ONLY <2>8
  <2>10. sel \in Seq(S) /\ Len(sel) = len
    BY ONLY <2>8, <2>9, SeqDef
  <2> QED
    BY <2>6, <2>10 DEF len
<1>7. offset[q] + lengths[q] <= Len(sel)
  <2>1. SumUpto(lengths, q) + lengths[q] <= SumUpto(lengths, n)
    BY <1>0, SumsOrdered
  <2> QED
    BY <1>4, <1>6, <2>1
<1>8. lengths[q] \in Nat
  BY <1>0
<1> HIDE DEF sel, S
<1>9. \A j \in 1 .. lengths[q] :
        SubSeq(sel, offset[q] + 1, offset[q] + lengths[q])[j] = sel[offset[q] + j]
  <2> DEFINE b == offset[q]
             len == lengths[q]
  <2>1. b \in Nat /\ len \in Nat /\ sel \in Seq(S) /\ b + len <= Len(sel)
    BY <1>5, <1>6, <1>7, <1>8
  <2> HIDE DEF b, len
  <2>2. \A j \in 1 .. len : SubSeq(sel, b + 1, b + len)[j] = sel[b + j]
    BY ONLY <2>1, CutOut
  <2> QED
    BY <2>2 DEF b, len
<1>10. sent = SubSeq(sel, offset[q] + 1, offset[q] + lengths[q])
  BY <1>02, <1>4 DEF sel, mp
<1>11. lengths[q] = Len(own[q])
  BY <1>01
<1>12. ASSUME NEW j \in 1 .. Len(own[q])
       PROVE  sent[j] = input[own[q][j]]
  <2>1. j \in 1 .. lengths[q]
    BY <1>11
  <2>2. sent[j] = sel[offset[q] + j]
    BY ONLY <1>9, <1>10, <2>1
  <2>3. offset[q] + j \in 1 .. offset[n] /\ mp[offset[q] + j] = own[q][j]
    BY ONLY <1>5, <1>12
  <2> QED
    BY ONLY <1>6, <2>2, <2>3
<1> QED
  BY <1>12 DEF sent

\* Gathering: what the ranks have for a place comes together there, and nothing else.
LEMMA GatheredValues ==
  ASSUME NEW n \in Nat, n > 0, NEW N \in Nat, NEW S, NEW own, ArePlaces(n, N, own),
         NEW values, AreValues(n, S, own, values), NEW p \in 0 .. N-1, NEW x
  PROVE  x \in Gathered(n, N, own, values)[p] <=> ComesFrom(n, own, values, p, x)
<1> DEFINE mp == FlattenSeq(PieceList(n, own))
           w == FlattenSeq(PieceList(n, values))
           lengths == [q \in 0 .. n-1 |-> Len(own[q])]
           offset == [k \in 0 .. n |-> SumUpto(lengths, k)]
<1>1. /\ \A q \in 0 .. n-1 : own[q] \in Seq(0 .. N-1) /\ lengths[q] = Len(own[q])
      /\ \A q \in 0 .. n-1 : values[q] \in Seq(S) /\ lengths[q] = Len(values[q])
      /\ \A q \in 0 .. n-1 : Len(values[q]) = Len(own[q])
  BY DEF ArePlaces, AreValues
<1> HIDE DEF lengths
<1>2. AreOffsets(n, own, offset) /\ AreOffsets(n, values, offset)
  BY <1>1, SumsAreOffsets
<1> HIDE DEF offset
<1>3. mp \in Seq(0 .. N-1) /\ InPlace(n, own, offset, mp)
  BY <1>1, <1>2, FlattenInPlace
<1>4. w \in Seq(S) /\ InPlace(n, values, offset, w)
  BY <1>1, <1>2, FlattenInPlace
<1> HIDE DEF mp, w
<1>5. /\ DOMAIN mp = 1 .. offset[n] /\ \A i \in 1 .. offset[n] : mp[i] \in 0 .. N-1
      /\ \A i \in 1 .. offset[n] : mp[i] - 0 = mp[i]
  <2>1. \A i \in DOMAIN mp : mp[i] \in 0 .. N-1
    BY <1>3
  <2>2. DOMAIN mp = 1 .. offset[n]
    BY <1>3 DEF InPlace
  <2>3. \A c \in 0 .. N-1 : c - 0 = c
    OBVIOUS
  <2> QED
    BY <2>1, <2>2, <2>3
<1>6. Accumulate(mp, 0, N, w)[p] = UNION {w[i] : i \in {k \in 1 .. offset[n] : mp[k] = p}}
  <2>1. Accumulate(mp, 0, N, w)[p] = UNION {w[i] : i \in {k \in DOMAIN mp : mp[k] - 0 = p}}
    BY DEF Accumulate
  <2>2. {k \in DOMAIN mp : mp[k] - 0 = p} = {k \in 1 .. offset[n] : mp[k] = p}
    BY <1>5
  <2> QED
    BY <2>1, <2>2
<1>7. \A q \in 0 .. n-1 : \A j \in 1 .. Len(own[q]) :
        /\ offset[q] + j \in 1 .. offset[n]
        /\ mp[offset[q] + j] = own[q][j] /\ w[offset[q] + j] = values[q][j]
  BY <1>1, <1>3, <1>4 DEF InPlace
<1>8. \A i \in 1 .. offset[n] : \E q \in 0 .. n-1 : \E j \in 1 .. Len(own[q]) : i = offset[q] + j
  BY <1>3 DEF InPlace
<1>9. x \in Accumulate(mp, 0, N, w)[p] <=> \E i \in 1 .. offset[n] : mp[i] = p /\ x \in w[i]
  BY <1>6
<1>10. (\E i \in 1 .. offset[n] : mp[i] = p /\ x \in w[i])
         <=> \E q \in 0 .. n-1 : \E j \in 1 .. Len(own[q]) : own[q][j] = p /\ x \in values[q][j]
  <2>1. ASSUME NEW k \in 1 .. offset[n], mp[k] = p, x \in w[k]
        PROVE  \E q \in 0 .. n-1 : \E j \in 1 .. Len(own[q]) : own[q][j] = p /\ x \in values[q][j]
    <3>0. PICK q \in 0 .. n-1 : \E j \in 1 .. Len(own[q]) : k = offset[q] + j
      BY <1>8
    <3>1. PICK j \in 1 .. Len(own[q]) : k = offset[q] + j
      BY <3>0
    <3>2. mp[k] = own[q][j] /\ w[k] = values[q][j]
      BY <1>7, <3>1
    <3> QED
      BY <2>1, <3>2
  <2>2. ASSUME NEW q \in 0 .. n-1, NEW j \in 1 .. Len(own[q]), own[q][j] = p, x \in values[q][j]
        PROVE  \E i \in 1 .. offset[n] : mp[i] = p /\ x \in w[i]
    <3>1. /\ offset[q] + j \in 1 .. offset[n]
          /\ mp[offset[q] + j] = own[q][j] /\ w[offset[q] + j] = values[q][j]
      BY <1>7
    <3> QED
      BY <2>2, <3>1
  <2> QED
    BY <2>1, <2>2
<1> QED
  BY <1>9, <1>10 DEF mp, w, Gathered, ComesFrom

(***************************************************************************)
(* What the calls compute.                                                 *)
(***************************************************************************)

\* Which distribution goes with what.
LEMMA Kinds ==
  /\ Distribution = "grid" => /\ \A r : ~BadIndex(r)
                              /\ ~Projects /\ ~OwnImage
  /\ Distribution = "all_to_all" => ~OwnImage
  /\ ~OwnImage => \A r : ~NotANumber(r)
  /\ Root \in Ranks
<1>1. Distribution = "grid" => choice.distribute # "all_to_all" /\ ~Projects
  BY DEF Distribution
<1>2. Root \in Ranks
  BY GridSizes DEF Root, Ranks
<1> QED
  BY <1>1, <1>2 DEF BadIndex, OwnImage, NotANumber, TakesMean

\* The columns of the grid on the root are its cells.
LEMMA GridColumns ==
  ASSUME Given, Distribution = "grid", NEW r \in Ranks, NEW own, own = non_empty_outers(Matrix(r))
  PROVE  /\ Columns(r) \subseteq Cells /\ own \in Seq(Cells) /\ own \in Seq(0 .. FtSize - 1)
         /\ Len(own) \in Nat /\ DOMAIN own = 1 .. Len(own) /\ ToSet(own) = Columns(r)
         /\ \A c \in Columns(r) : \E i \in DOMAIN own : own[i] = c
         /\ \A i \in DOMAIN own : own[i] \in Columns(r)
         /\ \A c \in Columns(r) : Holder(r, c) = Root /\ c % FtSize = c
<1>1. ~BadIndex(r) /\ ~OwnImage
  BY Kinds
<1>2. /\ own \in Seq(Columns(r)) /\ Len(own) \in Nat /\ DOMAIN own = 1 .. Len(own)
      /\ ToSet(own) = Columns(r)
  BY <1>1, ColumnsListedOnce
<1>3. Columns(r) \subseteq Cells
  <2>1. \A m \in Rows(r) : RowShape(r, m)
    BY <1>1, RowsHaveShape
  <2>2. \A m \in Rows(r) : \A c \in MatrixRow(r, m) : c \in Cells
    BY <2>1 DEF RowShape
  <2> QED
    BY <2>2 DEF Columns
<1>4. own \in Seq(Cells)
  BY <1>2, <1>3
<1>5. \A c \in Columns(r) : \E i \in DOMAIN own : own[i] = c
  BY <1>2 DEF ToSet
<1>6. \A c \in Columns(r) : Holder(r, c) = Root /\ c % FtSize = c
  BY <1>1, <1>3, CellInGrid DEF Holder
<1>7. \A i \in DOMAIN own : own[i] \in Columns(r)
  BY <1>2
<1> QED
  BY <1>2, <1>3, <1>4, <1>5, <1>6, <1>7 DEF Cells

\* The ordered columns of every rank.
OwnColumns == [q \in Ranks |-> non_empty_outers(Matrix(q))]

\* What the root has gathered before it scatters and gathers.
Asked_sizes == sizes = [q \in Ranks |-> Len(non_empty_outers(Matrix(q)))]
Asked_indices == mapping = FlattenSeq([q \in 1 .. Size |-> non_empty_outers(Matrix(q - 1))])

LEMMA MappingIsPieces ==
  Asked_indices => mapping = FlattenSeq(PieceList(Size, OwnColumns))
<1>1. \A q \in 1 .. Size : q - 1 \in Ranks
  BY GridSizes DEF Ranks
<1>2. [q \in 1 .. Size |-> non_empty_outers(Matrix(q - 1))] = PieceList(Size, OwnColumns)
  BY <1>1 DEF PieceList, OwnColumns
<1> QED
  BY <1>2 DEF Asked_indices

\* The values received for a list of columns, as the function of the columns.
ByColumn(own, sent) == [c \in ToSet(own) |-> sent[CHOOSE i \in DOMAIN own : own[i] = c]]

\* scatter: every rank gets the cells of its own columns, wherever they are in what the
\* root sends.
LEMMA ScatterReceives ==
  ASSUME Given, Distribution = "grid", Asked_sizes, Asked_indices, NEW r \in Ranks,
         NEW own, own = non_empty_outers(Matrix(r)), NEW sent,
         sent = SubSeq(Select(mapping, 0, Transformed(Root)), Before(r) + 1, Before(r) + sizes[r])
  PROVE  ByColumn(own, sent) = Received(r)
<1> DEFINE input == Transformed(Root)
           all == OwnColumns
<1>1. Size \in Nat /\ Size > 0 /\ FtSize \in Nat /\ Ranks = 0 .. Size - 1
  BY GridSizes DEF Ranks
<1>2. \A q \in Ranks : all[q] = non_empty_outers(Matrix(q))
  BY DEF OwnColumns
<1>3. \A q \in Ranks : all[q] \in Seq(0 .. FtSize - 1)
  BY <1>2, GridColumns
<1>4. \A q \in Ranks : sizes[q] = Len(all[q])
  BY <1>2 DEF Asked_sizes
<1>5. sent = Scattered(Size, all, sizes, input, r)
  BY MappingIsPieces DEF Before, SumUpto, Scattered
<1> HIDE DEF input, all
<1>6. \A j \in 1 .. Len(all[r]) : sent[j] = input[all[r][j]]
  <2>1. ArePlaces(Size, FtSize, all) /\ AreLengths(Size, all, sizes) /\ r \in 0 .. Size - 1
    BY <1>1, <1>3, <1>4 DEF ArePlaces, AreLengths
  <2> QED
    BY ONLY <1>1, <1>5, <2>1, ScatteredValues
<1>7. all[r] = own
  BY <1>2
<1>8. /\ DOMAIN own = 1 .. Len(own) /\ ToSet(own) = Columns(r)
      /\ \A c \in Columns(r) : \E i \in DOMAIN own : own[i] = c
      /\ \A c \in Columns(r) : Holder(r, c) = Root /\ c % FtSize = c
  BY GridColumns
<1> DEFINE Place(c) == CHOOSE i \in DOMAIN own : own[i] = c
<1>9. ASSUME NEW c \in Columns(r)
      PROVE  sent[Place(c)] = input[c]
  <2>1. Place(c) \in DOMAIN own /\ own[Place(c)] = c
    BY <1>8
  <2> HIDE DEF Place
  <2>2. sent[Place(c)] = input[own[Place(c)]]
    BY <1>6, <1>7, <1>8, <2>1
  <2> QED
    BY <2>1, <2>2
<1>10. Received(r) = [c \in Columns(r) |-> Transformed(Holder(r, c))[c % FtSize]]
  BY Kinds DEF Received
<1>11. \A c \in Columns(r) : Transformed(Holder(r, c))[c % FtSize] = input[c]
  BY <1>8 DEF input
<1>12. Received(r) = [c \in Columns(r) |-> input[c]]
  BY <1>10, <1>11
<1>13. ToSet(own) = Columns(r)
  BY <1>8
<1> HIDE DEF Place
<1>14. [c \in Columns(r) |-> sent[Place(c)]] = [c \in Columns(r) |-> input[c]]
  BY <1>9
<1>15. [c \in ToSet(own) |-> sent[Place(c)]] = Received(r)
  BY <1>12, <1>13, <1>14
<1> QED
  BY <1>15 DEF Place, ByColumn

\* gather: into a cell of the grid on the root comes what the ranks contribute to it.
LEMMA GatherContributes ==
  ASSUME Given, Distribution = "grid", Asked_indices
  PROVE  Accumulate(mapping, 0, FtSize, FlattenSeq([q \in 1 .. Size |-> Sent(q - 1)]))
           = [d \in Cells |-> Contributions(Root, d)]
<1> DEFINE all == OwnColumns
           values == [q \in Ranks |-> Sent(q)]
           S == {Gridded(q)[c] : q \in Ranks, c \in Cells}
           w == FlattenSeq(PieceList(Size, values))
           whole == Accumulate(mapping, 0, FtSize, w)
<1>1. Size \in Nat /\ Size > 0 /\ FtSize \in Nat /\ Ranks = 0 .. Size - 1 /\ Cells = 0 .. FtSize - 1
  BY GridSizes DEF Ranks, Cells
<1>2. \A q \in Ranks : all[q] = non_empty_outers(Matrix(q))
  BY DEF OwnColumns
<1>3. \A q \in Ranks : all[q] \in Seq(0 .. FtSize - 1)
  BY <1>2, GridColumns
<1>4. ASSUME NEW q \in Ranks
      PROVE  /\ values[q] \in Seq(S) /\ Len(values[q]) = Len(all[q])
             /\ \A j \in 1 .. Len(all[q]) : values[q][j] = Gridded(q)[all[q][j]]
             /\ Len(all[q]) \in Nat
  <2> DEFINE own == all[q]
             n == Len(own)
             v == values[q]
  <2>1. n \in Nat /\ DOMAIN own = 1 .. n /\ \A i \in DOMAIN own : own[i] \in Cells
    BY <1>1, <1>3
  <2>2. v = [i \in DOMAIN own |-> Gridded(q)[own[i]]]
    BY <1>2 DEF Sent
  <2>3. \A i \in DOMAIN own : Gridded(q)[own[i]] \in S
    BY <2>1
  <2> HIDE DEF own, n, v, S
  <2>4. v \in [1 .. n -> S] /\ DOMAIN v = 1 .. n /\ \A j \in 1 .. n : v[j] = Gridded(q)[own[j]]
    BY <2>1, <2>2, <2>3
  <2>5. v \in Seq(S) /\ Len(v) = n
    BY ONLY <2>1, <2>4, SeqDef
  <2> QED
    BY <2>1, <2>4, <2>5 DEF own, n, v
<1>5. [q \in 1 .. Size |-> Sent(q - 1)] = PieceList(Size, values)
  <2>1. \A q \in 1 .. Size : q - 1 \in Ranks
    BY <1>1
  <2> QED
    BY <2>1 DEF PieceList
<1>6. mapping = FlattenSeq(PieceList(Size, all))
  BY MappingIsPieces
<1>7. /\ \A q \in Ranks : ToSet(all[q]) = Columns(q) /\ DOMAIN all[q] = 1 .. Len(all[q])
      /\ \A q \in Ranks : \A c \in Columns(q) : \E i \in DOMAIN all[q] : all[q][i] = c
      /\ \A q \in Ranks : \A i \in DOMAIN all[q] : all[q][i] \in Columns(q)
  BY <1>2, GridColumns
<1> HIDE DEF all, values, S
<1>8. ASSUME NEW d \in Cells, NEW x
      PROVE  x \in whole[d] <=> x \in Contributions(Root, d)
  <2>1. x \in whole[d] <=> \E q \in Ranks : \E j \in 1 .. Len(all[q]) : all[q][j] = d /\ x \in values[q][j]
    <3>1. ArePlaces(Size, FtSize, all) /\ AreValues(Size, S, all, values)
      BY <1>1, <1>3, <1>4 DEF ArePlaces, AreValues
    <3>2. d \in 0 .. FtSize - 1
      BY <1>1
    <3>3. x \in Gathered(Size, FtSize, all, values)[d] <=> ComesFrom(Size, all, values, d, x)
      BY ONLY <1>1, <3>1, <3>2, GatheredValues
    <3>4. whole = Gathered(Size, FtSize, all, values)
      BY <1>6 DEF Gathered
    <3> HIDE DEF whole, w
    <3> QED
      BY <1>1, <3>3, <3>4 DEF ComesFrom
  <2>2. Contributions(Root, d)
          = UNION {Gridded(s)[d] : s \in {t \in Ranks : d \in Columns(t)}}
    BY Kinds DEF Contributions, Givers, Column
  <2>3. ASSUME NEW q \in Ranks, NEW j \in 1 .. Len(all[q]), all[q][j] = d, x \in values[q][j]
        PROVE  d \in Columns(q) /\ x \in Gridded(q)[d]
    BY <1>4, <1>7, <2>3
  <2>4. ASSUME NEW q \in Ranks, d \in Columns(q), x \in Gridded(q)[d]
        PROVE  \E j \in 1 .. Len(all[q]) : all[q][j] = d /\ x \in values[q][j]
    <3>1. PICK j \in DOMAIN all[q] : all[q][j] = d
      BY <1>7, <2>4
    <3>2. j \in 1 .. Len(all[q])
      BY <1>7
    <3> QED
      BY <1>4, <2>4, <3>1, <3>2
  <2> QED
    BY <2>1, <2>2, <2>3, <2>4
<1>9. \A d \in Cells : whole[d] = Contributions(Root, d)
  BY <1>8
<1>10. whole = [d \in Cells |-> whole[d]]
  BY <1>1 DEF Accumulate
<1> HIDE DEF whole, w
<1>11. whole = [d \in Cells |-> Contributions(Root, d)]
  BY <1>9, <1>10
<1> QED
  BY <1>5, <1>11 DEF whole, w

\* The part that Gather computes is the root's.
LEMMA GatheredPart ==
  ASSUME Given, Distribution = "grid", Asked_indices
  PROVE  Unpadded(Root, Accumulate(mapping, 0, FtSize, FlattenSeq([q \in 1 .. Size |-> Sent(q - 1)])))
           = PartOf(Root)
  BY GatherContributes, Kinds DEF PartOf

\* An operator with an image on the rank: only its own visibilities contribute.
LEMMA OwnPartIsPart ==
  ASSUME OwnImage, NEW r \in Ranks
  PROVE  OwnPart(r) = PartOf(r) /\ Degridded(r, Transformed(r)) = DirectOf(r)
<1> DEFINE g == Gridded(r)
<1>1. DOMAIN g = Columns(r)
  BY DEF Gridded, Columns
<1>2. Distribution # "all_to_all"
  BY Kinds
<1>3. ASSUME NEW d \in Cells
      PROVE  Contributions(r, d) = IF d \in DOMAIN g THEN g[d] ELSE {}
  <2>1. Contributions(r, d) = UNION {Gridded(s)[d] : s \in {t \in {r} : d \in Columns(t)}}
    BY <1>2 DEF Contributions, Givers, Column
  <2>2. CASE d \in Columns(r)
    <3>1. {t \in {r} : d \in Columns(t)} = {r}
      BY <2>2
    <3>2. Contributions(r, d) = UNION {g}
                             \/ Contributions(r, d) = g[d]
      BY <2>1, <3>1
    <3>3. Contributions(r, d) = g[d]
      BY <2>1, <3>1
    <3> QED
      BY <1>1, <2>2, <3>3
  <2>3. CASE d \notin Columns(r)
    <3>1. {t \in {r} : d \in Columns(t)} = {}
      BY <2>3
    <3>2. Contributions(r, d) = {}
      BY <2>1, <3>1
    <3> QED
      BY <1>1, <2>3, <3>2
  <2> QED
    BY <2>2, <2>3
<1> DEFINE a == [c \in Cells |-> IF c \in DOMAIN g THEN g[c] ELSE {}]
           b == [c \in Cells |-> Contributions(r, c)]
<1>4. a = b
  <2> HIDE DEF g
  <2> QED
    BY <1>3
<1>5. OwnPart(r) = IF NotANumber(r) THEN [p \in Pixels |-> {[nan |-> r]}] ELSE Unpadded(r, a)
  BY DEF OwnPart
<1>6. PartOf(r) = IF NotANumber(r) THEN [p \in Pixels |-> {[nan |-> r]}] ELSE Unpadded(r, b)
  BY DEF PartOf
<1> HIDE DEF a, b, g
<1>7. OwnPart(r) = PartOf(r)
  BY <1>4, <1>5, <1>6
<1>8. Received(r) = Transformed(r)
  BY DEF Received
<1> QED
  BY <1>7, <1>8 DEF DirectOf

\* The all to all operator: a rank gets every cell it has a column for from the rank
\* that holds the image, and every rank contributes to every image.
LEMMA ExchangeReceives ==
  ASSUME Given, Distribution = "all_to_all", NEW r \in Ranks, ~BadIndex(r)
  PROVE  [c \in ToSet(non_empty_outers(Matrix(r))) |-> Transformed(c \div FtSize)[c % FtSize]]
           = Received(r)
<1>1. ToSet(non_empty_outers(Matrix(r))) = Columns(r)
  BY ColumnsListedOnce
<1>2. ~OwnImage
  BY Kinds
<1>3. \A c : Holder(r, c) = c \div FtSize
  BY <1>2 DEF Holder
<1> QED
  BY <1>1, <1>2, <1>3 DEF Received

LEMMA ExchangedPart ==
  ASSUME Distribution = "all_to_all", NEW r \in Ranks, NEW spread,
         spread = [q \in Ranks |-> Gridded(q)], NEW gridded,
         gridded = [c \in Cells |->
           UNION {spread[q][r * FtSize + c] : q \in {s \in Ranks : r * FtSize + c \in DOMAIN spread[s]}}]
  PROVE  Unpadded(r, gridded) = PartOf(r)
<1>1. ~OwnImage /\ ~NotANumber(r)
  BY Kinds
<1>2. \A s \in Ranks : spread[s] = Gridded(s) /\ DOMAIN spread[s] = Columns(s)
  BY DEF Gridded, Columns
<1>3. \A c \in Cells : Column(r, c) = r * FtSize + c
  BY DEF Column
<1>4. \A c \in Cells : Contributions(r, c)
        = UNION {Gridded(s)[r * FtSize + c] : s \in {t \in Ranks : r * FtSize + c \in Columns(t)}}
  BY <1>1, <1>3 DEF Contributions, Givers
<1>5. \A c \in Cells :
        {spread[q][r * FtSize + c] : q \in {s \in Ranks : r * FtSize + c \in DOMAIN spread[s]}}
          = {Gridded(s)[r * FtSize + c] : s \in {t \in Ranks : r * FtSize + c \in Columns(t)}}
  <2> SUFFICES ASSUME NEW c \in Cells
               PROVE {spread[q][r * FtSize + c] : q \in {s \in Ranks : r * FtSize + c \in DOMAIN spread[s]}}
          = {Gridded(s)[r * FtSize + c] : s \in {t \in Ranks : r * FtSize + c \in Columns(t)}}
    OBVIOUS
  <2> DEFINE k == r * FtSize + c
             A == {s \in Ranks : k \in DOMAIN spread[s]}
             B == {t \in Ranks : k \in Columns(t)}
  <2> HIDE DEF k
  <2>1. A = B
    BY <1>2
  <2>2. \A s \in A : spread[s][k] = Gridded(s)[k]
    BY <1>2
  <2> HIDE DEF A, B
  <2>3. {spread[q][k] : q \in A} = {Gridded(s)[k] : s \in B}
    BY <2>1, <2>2
  <2> QED
    BY <2>3 DEF k, A, B
<1>6. gridded = [d \in Cells |-> Contributions(r, d)]
  BY <1>4, <1>5
<1> QED
  BY <1>1, <1>6 DEF PartOf

(***************************************************************************)
(* Every step keeps the invariant.  What a rank computes depends on what   *)
(* was asked for alone, and no step changes that.                          *)
(***************************************************************************)

LEMMA SameKind ==
  ASSUME UNCHANGED Asked
  PROVE  /\ choice' = choice /\ vis' = vis /\ w_stacks' = w_stacks
         /\ Projects' = Projects /\ Distribution' = Distribution /\ OwnImage' = OwnImage
         /\ Refused' = Refused /\ Calls' = Calls /\ DirectCall' = DirectCall /\ PartCall' = PartCall
         /\ \A r : Rows(r)' = Rows(r)
         /\ \A r : BadIndex(r)' = BadIndex(r)
         /\ Given' = Given
<1>1. choice' = choice /\ vis' = vis /\ w_stacks' = w_stacks /\ square' = square
  BY DEF Asked
<1>2. Projects' = Projects
  BY <1>1 DEF Projects
<1>3. Distribution' = Distribution
  BY <1>1, <1>2 DEF Distribution
<1>4. OwnImage' = OwnImage
  BY <1>3 DEF OwnImage
<1>5. Refused' = Refused
  BY <1>1, <1>2, <1>3 DEF Refused, NoSuchOperator, StacksOnGrid, ProjectionRefused
<1>6. Calls' = Calls /\ DirectCall' = DirectCall /\ PartCall' = PartCall
  BY <1>3, <1>4 DEF Calls, DirectCall, PartCall
<1>7. \A r : Rows(r)' = Rows(r)
  BY <1>1 DEF Rows
<1>8. \A r : BadIndex(r)' = BadIndex(r)
  BY <1>1, <1>7 DEF BadIndex
<1>9. Given' = Given
  BY <1>1 DEF Given
<1> QED
  BY <1>1, <1>2, <1>3, <1>4, <1>5, <1>6, <1>7, <1>8, <1>9

LEMMA SameWTerms ==
  ASSUME UNCHANGED Asked
  PROVE  /\ \A r : NotANumber(r)' = NotANumber(r)
         /\ \A r : Chirp(r)' = Chirp(r)
         /\ \A r, m : KernelW(r, m)' = KernelW(r, m)
<1>1. /\ choice' = choice /\ vis' = vis /\ w_stacks' = w_stacks
      /\ Projects' = Projects /\ Distribution' = Distribution /\ OwnImage' = OwnImage
      /\ \A r : Rows(r)' = Rows(r)
  BY SameKind
<1>2. TakesMean' = TakesMean
  BY <1>1 DEF TakesMean, TakesMeanArrayFire
<1>3. \A r : NotANumber(r)' = NotANumber(r)
  BY <1>1, <1>2 DEF NotANumber
<1>4. \A r : MeanW(r)' = MeanW(r)
  BY <1>1 DEF MeanW
<1>5. \A r : Chirp(r)' = Chirp(r)
  BY <1>1, <1>2, <1>4 DEF Chirp
<1>6. \A r, m : StackKernelW(r, m)' = StackKernelW(r, m)
  BY <1>1 DEF StackKernelW
<1>7. \A r, m : MeanKernelW(r, m)' = MeanKernelW(r, m)
  BY <1>1, <1>4 DEF MeanKernelW
<1>8. \A r, m : KernelW(r, m)' = KernelW(r, m)
  BY <1>1, <1>6, <1>7 DEF KernelW
<1> QED
  BY <1>3, <1>5, <1>8

LEMMA SameMatrices ==
  ASSUME UNCHANGED Asked
  PROVE  /\ \A r, m : MatrixRow(r, m)' = MatrixRow(r, m)
         /\ \A r : Matrix(r)' = Matrix(r)
         /\ \A r : Columns(r)' = Columns(r)
<1>1. /\ vis' = vis /\ Projects' = Projects /\ Distribution' = Distribution
      /\ \A r : Rows(r)' = Rows(r)
  BY SameKind
<1>2. \A r, m : KernelW(r, m)' = KernelW(r, m)
  BY SameWTerms
<1>3. \A r, m : PlainCells(r, m)' = PlainCells(r, m)
  BY <1>1 DEF PlainCells
<1>4. \A r, m : ProjectedCells(r, m)' = ProjectedCells(r, m)
  BY <1>1, <1>2 DEF ProjectedCells
<1>5. \A r, m : MatrixRow(r, m)' = MatrixRow(r, m)
  BY <1>1, <1>3, <1>4 DEF MatrixRow
<1>6. \A r : Matrix(r)' = Matrix(r)
  BY <1>1, <1>5 DEF Matrix
<1>7. \A r : Columns(r)' = Columns(r)
  BY <1>1, <1>5 DEF Columns
<1> QED
  BY <1>5, <1>6, <1>7

LEMMA SameResults ==
  ASSUME UNCHANGED Asked
  PROVE  /\ \A r : DirectOf(r)' = DirectOf(r)
         /\ \A r : PartOf(r)' = PartOf(r)
         /\ \A r : ImageOf(r)' = ImageOf(r)
<1>1. /\ choice' = choice /\ Projects' = Projects /\ Distribution' = Distribution
      /\ OwnImage' = OwnImage /\ \A r : Rows(r)' = Rows(r)
  BY SameKind
<1>2. /\ \A r : NotANumber(r)' = NotANumber(r) /\ Chirp(r)' = Chirp(r)
      /\ \A r, m : KernelW(r, m)' = KernelW(r, m)
  BY SameWTerms
<1>3. /\ \A r, m : MatrixRow(r, m)' = MatrixRow(r, m)
      /\ \A r : Columns(r)' = Columns(r)
  BY SameMatrices
<1>4. \A r : Transformed(r)' = Transformed(r)
  BY <1>2 DEF Transformed
<1>5. \A r, c : Holder(r, c)' = Holder(r, c)
  BY <1>1 DEF Holder
<1>6. \A r : Received(r)' = Received(r)
  BY <1>1, <1>3, <1>4, <1>5 DEF Received
<1>7. \A r : DirectOf(r)' = DirectOf(r)
  BY <1>1, <1>2, <1>3, <1>6 DEF DirectOf, Degridded
<1>8. \A r : Gridded(r)' = Gridded(r)
  BY <1>1, <1>2, <1>3 DEF Gridded
<1>9. \A h : Givers(h)' = Givers(h)
  BY <1>1 DEF Givers
<1>10. \A h, d : Column(h, d)' = Column(h, d)
  BY <1>1 DEF Column
<1>11. \A h, d : Contributions(h, d)' = Contributions(h, d)
  BY <1>3, <1>8, <1>9, <1>10 DEF Contributions
<1>12. \A r : PartOf(r)' = PartOf(r)
  <2> SUFFICES ASSUME NEW r PROVE PartOf(r)' = PartOf(r)
    OBVIOUS
  <2> DEFINE g == [d \in Cells |-> Contributions(r, d)]
             k == IF choice.gpu THEN Chirp(r) ELSE -Chirp(r)
             none == [p \in Pixels |-> {[nan |-> r]}]
             Some(f, a) == [p \in Pixels |->
               UNION {{[rank |-> x.rank, row |-> x.row, image |-> r, w |-> x.w + a] : x \in f[c]} :
                        c \in Backward(Padded(p))}]
  <2>1. g' = g
    BY <1>11
  <2>2. k' = k
    BY <1>1, <1>2
  <2>3. PartOf(r) = IF NotANumber(r) THEN none ELSE Some(g, k)
    BY DEF PartOf, Unpadded, AdjointChirpArrayFire
  <2>4. PartOf(r)' = IF NotANumber(r)' THEN none ELSE Some(g', k')
    BY DEF PartOf, Unpadded, AdjointChirpArrayFire
  <2> HIDE DEF g, k, none, Some
  <2>5. NotANumber(r)' = NotANumber(r)
    BY <1>2
  <2> QED
    BY <2>1, <2>2, <2>3, <2>4, <2>5
<1>13. \A r : ImageOf(r)' = ImageOf(r)
  BY <1>1, <1>12 DEF ImageOf
<1> QED
  BY <1>7, <1>12, <1>13

\* The calls of every distribution.
LEMMA CallsKnown ==
  ASSUME Given
  PROVE  /\ Distribution \in {"serial", "image", "grid", "all_to_all"}
         /\ Distribution = "serial" => Calls = <<>>
         /\ Distribution = "image" => Calls = <<"all_sum_all">>
         /\ Distribution = "grid" =>
              Calls = <<"gather_sizes", "gather_indices", "scatter", "gather", "broadcast">>
         /\ Distribution = "all_to_all" =>
              Calls = <<"connect", "recv_grid", "send_grid", "all_sum_all">>
<1>1. choice.distribute \in {"serial", "image", "grid", "all_to_all"}
  BY RequestsAssumption DEF Given
<1>2. Distribution \in {"serial", "image", "grid", "all_to_all"}
  BY <1>1 DEF Distribution
<1> QED
  BY <1>2 DEF Calls

LEMMA CallNumbers ==
  ASSUME Given
  PROVE  /\ Len(Calls) \in 0 .. 5
         /\ Distribution = "serial" => Len(Calls) = 0
         /\ Distribution = "image" => Len(Calls) = 1 /\ Calls[1] = "all_sum_all"
         /\ Distribution = "grid" => /\ Len(Calls) = 5 /\ Calls[1] = "gather_sizes"
                                     /\ Calls[2] = "gather_indices" /\ Calls[3] = "scatter"
                                     /\ Calls[4] = "gather" /\ Calls[5] = "broadcast"
         /\ Distribution = "all_to_all" => /\ Len(Calls) = 4 /\ Calls[1] = "connect"
                                           /\ Calls[2] = "recv_grid" /\ Calls[3] = "send_grid"
                                           /\ Calls[4] = "all_sum_all"
<1>1. Distribution \in {"serial", "image", "grid", "all_to_all"}
  BY CallsKnown
<1>2. CASE Distribution = "serial"
  <2>1. Calls = <<>>
    BY <1>2, CallsKnown
  <2> QED
    BY <1>2, <2>1
<1>3. CASE Distribution = "image"
  <2>1. Calls = <<"all_sum_all">>
    BY <1>3, CallsKnown
  <2> QED
    BY <1>3, <2>1
<1>4. CASE Distribution = "grid"
  <2>1. Calls = <<"gather_sizes", "gather_indices", "scatter", "gather", "broadcast">>
    BY <1>4, CallsKnown
  <2> QED
    BY <1>4, <2>1
<1>5. CASE Distribution = "all_to_all"
  <2>1. Calls = <<"connect", "recv_grid", "send_grid", "all_sum_all">>
    BY <1>5, CallsKnown
  <2> QED
    BY <1>5, <2>1
<1> QED
  BY <1>1, <1>2, <1>3, <1>4, <1>5

\* The name of a call tells the distribution and which of its calls it is.
LEMMA WhichCall ==
  ASSUME Given, NEW r \in Ranks, Progress(r), NEW name, In(r, name)
  PROVE  /\ pc[r] = "calls" /\ posted[r] = done[r] + 1 /\ done[r] \in Nat
         /\ name = "gather_sizes" => Distribution = "grid" /\ posted[r] = 1
         /\ name = "gather_indices" => Distribution = "grid" /\ posted[r] = 2
         /\ name = "scatter" => Distribution = "grid" /\ posted[r] = 3
         /\ name = "gather" => Distribution = "grid" /\ posted[r] = 4
         /\ name = "broadcast" => Distribution = "grid" /\ posted[r] = 5
         /\ name = "connect" => Distribution = "all_to_all" /\ posted[r] = 1
         /\ name = "recv_grid" => Distribution = "all_to_all" /\ posted[r] = 2
         /\ name = "send_grid" => Distribution = "all_to_all" /\ posted[r] = 3
         /\ name = "all_sum_all" => \/ Distribution = "image" /\ posted[r] = 1
                                    \/ Distribution = "all_to_all" /\ posted[r] = 4
<1>1. /\ pc[r] = "calls" /\ posted[r] = done[r] + 1 /\ Calls[posted[r]] = name
      /\ posted[r] \in Nat /\ done[r] \in Nat /\ posted[r] <= Len(Calls)
  BY DEF In, Progress
<1>2. Distribution \in {"serial", "image", "grid", "all_to_all"}
  BY CallsKnown
<1> DEFINE k == posted[r]
<1>3. k \in Nat /\ k >= 1 /\ k <= Len(Calls) /\ Calls[k] = name
  BY <1>1
<1> HIDE DEF k
<1>4. Distribution # "serial"
  BY <1>3, CallNumbers
<1>5. CASE Distribution = "image"
  <2>0. Len(Calls) = 1
    BY <1>5, CallNumbers
  <2>1. k = 1
    BY ONLY <1>3, <2>0
  <2> QED
    BY <1>1, <1>3, <1>5, <2>1, CallNumbers DEF k
<1>6. CASE Distribution = "grid"
  <2>0. Len(Calls) = 5
    BY <1>6, CallNumbers
  <2>1. k = 1 \/ k = 2 \/ k = 3 \/ k = 4 \/ k = 5
    BY ONLY <1>3, <2>0
  <2>2. Calls[1] = "gather_sizes" /\ Calls[2] = "gather_indices" /\ Calls[3] = "scatter"
        /\ Calls[4] = "gather" /\ Calls[5] = "broadcast"
    BY <1>6, CallNumbers
  <2> QED
    BY <1>1, <1>3, <1>6, <2>1, <2>2 DEF k
<1>7. CASE Distribution = "all_to_all"
  <2>0. Len(Calls) = 4
    BY <1>7, CallNumbers
  <2>1. k = 1 \/ k = 2 \/ k = 3 \/ k = 4
    BY ONLY <1>3, <2>0
  <2>2. Calls[1] = "connect" /\ Calls[2] = "recv_grid" /\ Calls[3] = "send_grid"
        /\ Calls[4] = "all_sum_all"
    BY <1>7, CallNumbers
  <2> QED
    BY <1>1, <1>3, <1>7, <2>1, <2>2 DEF k
<1> QED
  BY <1>2, <1>4, <1>5, <1>6, <1>7

\* What a rank has is as before.
Same(q) ==
  /\ posted'[q] = posted[q] /\ done'[q] = done[q] /\ pc'[q] = pc[q]
  /\ direct'[q] = direct[q] /\ part'[q] = part[q] /\ image'[q] = image[q]

LEMMA SameKeeps ==
  ASSUME UNCHANGED Asked, NEW q \in Ranks, Progress(q), Computed(q), Same(q)
  PROVE  Progress(q)' /\ Computed(q)'
<1>1. /\ Distribution' = Distribution /\ Calls' = Calls /\ DirectCall' = DirectCall
      /\ PartCall' = PartCall /\ BadIndex(q)' = BadIndex(q)
  BY SameKind
<1>2. DirectOf(q)' = DirectOf(q) /\ PartOf(q)' = PartOf(q) /\ ImageOf(q)' = ImageOf(q)
  BY SameResults
<1>3. Progress(q)'
  BY <1>1 DEF Progress, Same
<1>4. Computed(q)'
  BY <1>1, <1>2 DEF Computed, Same
<1> QED
  BY <1>3, <1>4

\* The counts of the calls, as numbers.
Counts ==
  \A q \in Ranks : /\ posted[q] \in Nat /\ done[q] \in Nat
                   /\ done[q] <= posted[q] /\ posted[q] <= done[q] + 1

LEMMA InvParts ==
  ASSUME OperatorInv
  PROVE  /\ Given /\ PerRank /\ Counts /\ Asking /\ Together
         /\ \A q \in Ranks : Progress(q) /\ Computed(q)
         /\ posted \in [Ranks -> 0 .. 5] /\ done \in [Ranks -> 0 .. 5] /\ mapping \in Seq(Cells)
         /\ pc \in [Ranks -> {"construct", "apply", "calls", "done", "threw", "crashed"}]
         /\ Root \in Ranks
<1>1. Given
  BY DEF OperatorInv, TypeOK, Given
<1>2. Counts
  BY DEF OperatorInv, Progress, Counts
<1>3. Root \in Ranks
  BY GridSizes DEF Root, Ranks
<1> QED
  BY <1>1, <1>2, <1>3 DEF OperatorInv, TypeOK

\* The collective calls are entered together: a rank that returns has waited.
Waited(r) ==
  /\ Distribution \in {"image", "all_to_all"} => AllIn(r)
  /\ Distribution = "grid" => /\ r = Root /\ posted[r] = 4 => AllIn(r)
                              /\ posted[r] = 3 \/ posted[r] = 5 => RootIn(r)

LEMMA ReturnTogether ==
  ASSUME Given, UNCHANGED Asked, Counts, Together, NEW r \in Ranks, Waited(r),
         posted[r] = done[r] + 1, posted' = posted, done'[r] = done[r] + 1,
         \A q \in Ranks : q # r => done'[q] = done[q]
  PROVE  Together'
<1>1. Distribution' = Distribution
  BY SameKind
<1>2. Root \in Ranks
  BY Kinds
<1>3. \A q \in Ranks : posted[q] \in Nat /\ done[q] \in Nat /\ done'[q] \in Nat
  BY DEF Counts
<1>4. ASSUME NEW s \in Ranks, NEW q \in Ranks
      PROVE  /\ Distribution \in {"image", "all_to_all"} => posted[q] >= done'[s]
             /\ Distribution = "grid" =>
                  /\ done'[Root] >= 4 => posted[q] >= 4
                  /\ done'[s] >= 3 => posted[Root] >= 3
                  /\ done'[s] >= 5 => posted[Root] >= 5
  <2>1. /\ Distribution \in {"image", "all_to_all"} => posted[q] >= done[s]
        /\ Distribution = "grid" => /\ done[Root] >= 4 => posted[q] >= 4
                                    /\ done[s] >= 3 => posted[Root] >= 3
                                    /\ done[s] >= 5 => posted[Root] >= 5
    BY DEF Together
  <2>2. CASE Distribution \in {"image", "all_to_all"}
    <3>1. posted[q] >= posted[r]
      BY <2>2 DEF Waited, AllIn
    <3>2. Distribution # "grid"
      BY <2>2
    <3> QED
      BY <1>3, <2>1, <2>2, <3>1, <3>2
  <2>3. CASE Distribution = "grid"
    <3>1. /\ r = Root /\ posted[r] = 4 => posted[q] >= 4
          /\ posted[r] = 3 => posted[Root] >= 3
          /\ posted[r] = 5 => posted[Root] >= 5
      BY <2>3 DEF Waited, AllIn, RootIn
    <3>2. done'[Root] >= 4 => posted[q] >= 4
      <4>1. CASE r = Root
        BY <1>2, <1>3, <2>1, <2>3, <3>1, <4>1
      <4>2. CASE r # Root
        BY <1>2, <2>1, <2>3, <4>2
      <4> QED
        BY <4>1, <4>2
    <3>3. done'[s] >= 3 => posted[Root] >= 3
      BY <1>2, <1>3, <2>1, <2>3, <3>1
    <3>4. done'[s] >= 5 => posted[Root] >= 5
      BY <1>2, <1>3, <2>1, <2>3, <3>1
    <3> QED
      BY <2>3, <3>2, <3>3, <3>4
  <2>4. CASE Distribution \notin {"image", "all_to_all", "grid"}
    BY <2>4
  <2> QED
    BY <2>2, <2>3, <2>4
<1> QED
  BY <1>1, <1>4 DEF Together

LEMMA PostTogether ==
  ASSUME UNCHANGED Asked, Counts, Together, done' = done,
         \A q \in Ranks : posted'[q] \in Nat /\ posted'[q] >= posted[q]
  PROVE  Together'
<1>1. Distribution' = Distribution
  BY SameKind
<1>2. \A q \in Ranks : posted[q] \in Nat /\ done[q] \in Nat
  BY DEF Counts
<1>3. Root \in Ranks
  BY Kinds
<1> QED
  BY <1>1, <1>2, <1>3 DEF Together

\* What a returning call leaves behind, from what it has computed.
LEMMA ComputedByCall ==
  ASSUME OperatorInv, UNCHANGED Asked, NEW r \in Ranks, pc[r] = "calls", pc'[r] = "calls",
         posted[r] = done[r] + 1, done'[r] = done[r] + 1,
         direct'[r] = DirectOf(r) \/ (posted[r] # DirectCall /\ direct'[r] = direct[r]),
         \/ part'[r] = PartOf(r)
         \/ /\ posted[r] # PartCall \/ (Distribution = "grid" /\ r # Root)
            /\ part'[r] = part[r],
         image'[r] = ImageOf(r) \/ posted[r] # Len(Calls)
  PROVE  Computed(r)'
<1>1. /\ Distribution' = Distribution /\ Calls' = Calls /\ DirectCall' = DirectCall
      /\ PartCall' = PartCall
  BY SameKind
<1>2. DirectOf(r)' = DirectOf(r) /\ PartOf(r)' = PartOf(r) /\ ImageOf(r)' = ImageOf(r)
  BY SameResults
<1>3. Computed(r) /\ done[r] \in Nat /\ DirectCall \in Nat /\ PartCall \in Nat
  BY InvParts DEF Counts, DirectCall, PartCall
<1>4. done'[r] >= DirectCall => direct'[r] = DirectOf(r)
  <2>1. CASE posted[r] # DirectCall /\ direct'[r] = direct[r]
    <3>1. done'[r] >= DirectCall => done[r] >= DirectCall
      BY <1>3, <2>1
    <3> QED
      BY <1>3, <2>1, <3>1 DEF Computed
  <2> QED
    BY <2>1
<1>5. done'[r] >= PartCall /\ (Distribution = "grid" => r = Root) => part'[r] = PartOf(r)
  <2>1. CASE /\ posted[r] # PartCall \/ (Distribution = "grid" /\ r # Root)
             /\ part'[r] = part[r]
    <3>1. done'[r] >= PartCall /\ (Distribution = "grid" => r = Root) => done[r] >= PartCall
      BY <1>3, <2>1
    <3> QED
      BY <1>3, <2>1, <3>1 DEF Computed
  <2> QED
    BY <2>1
<1>6. done'[r] = Len(Calls) => image'[r] = ImageOf(r)
  OBVIOUS
<1> QED
  BY <1>1, <1>2, <1>4, <1>5, <1>6 DEF Computed

\* The root still knows what it has gathered.
LEMMA AskingKeeps ==
  ASSUME OperatorInv, UNCHANGED <<Asked, sizes, mapping>>,
         Distribution = "grid" => done'[Root] = done[Root] \/ done[Root] >= 2
  PROVE  Asking'
<1>1. UNCHANGED Asked
  OBVIOUS
<1>2. Distribution' = Distribution
  BY <1>1, SameKind
<1>3. \A q : Matrix(q)' = Matrix(q)
  BY <1>1, SameMatrices
<1>4. Asking /\ done[Root] \in Nat
  BY InvParts DEF Counts
<1>5. done[Root] >= 2 => done[Root] >= 1
  BY <1>4
<1>6. ASSUME Distribution = "grid"
      PROVE  /\ done'[Root] >= 1 => sizes = [q \in Ranks |-> Len(non_empty_outers(Matrix(q)))]
             /\ done'[Root] >= 2 =>
                  mapping = FlattenSeq([q \in 1 .. Size |-> non_empty_outers(Matrix(q - 1))])
  BY <1>4, <1>5, <1>6 DEF Asking
<1>7. [q \in Ranks |-> Len(non_empty_outers(Matrix(q)))]'
        = [q \in Ranks |-> Len(non_empty_outers(Matrix(q)))]
  BY <1>3
<1>8. FlattenSeq([q \in 1 .. Size |-> non_empty_outers(Matrix(q - 1))])'
        = FlattenSeq([q \in 1 .. Size |-> non_empty_outers(Matrix(q - 1))])
  BY <1>3
<1> QED
  BY <1>2, <1>6, <1>7, <1>8 DEF Asking

\* A call that returns to one rank.
LEMMA ReturnKeeps ==
  ASSUME OperatorInv, NEW r \in Ranks, NEW name, In(r, name), Return(r), Waited(r),
         \A q \in Ranks : q # r => /\ direct'[q] = direct[q] /\ part'[q] = part[q]
                                   /\ image'[q] = image[q],
         PerRank', mapping' \in Seq(Cells), Asking', Computed(r)'
  PROVE  OperatorInv'
<1>1. /\ Given /\ Counts /\ Together /\ \A q \in Ranks : Progress(q) /\ Computed(q)
      /\ posted \in [Ranks -> 0 .. 5] /\ done \in [Ranks -> 0 .. 5]
      /\ pc \in [Ranks -> {"construct", "apply", "calls", "done", "threw", "crashed"}]
  BY InvParts
<1>2. UNCHANGED Asked /\ posted' = posted /\ pc' = pc /\ done' = [done EXCEPT ![r] = done[r] + 1]
  BY DEF Return
<1>3. done'[r] = done[r] + 1 /\ \A q \in Ranks : q # r => done'[q] = done[q]
  BY <1>1, <1>2
<1>4. pc[r] = "calls" /\ posted[r] = done[r] + 1 /\ done[r] \in Nat
  BY <1>1, WhichCall
<1>5. Calls' = Calls /\ BadIndex(r)' = BadIndex(r) /\ choice' = choice /\ vis' = vis
      /\ w_stacks' = w_stacks
  BY <1>2, SameKind
<1>6. TypeOK'
  <2>1. done[r] + 1 \in 0 .. 5
    BY <1>1, <1>4
  <2>2. done' \in [Ranks -> 0 .. 5]
    BY <1>1, <1>2, <2>1
  <2> QED
    BY <1>1, <1>2, <1>5, <2>2 DEF TypeOK, Given
<1>7. Together'
  BY <1>1, <1>2, <1>3, <1>4, ReturnTogether
<1>8. ASSUME NEW q \in Ranks
      PROVE  Progress(q)' /\ Computed(q)'
  <2>1. CASE q # r
    <3>1. Same(q)
      BY <1>2, <1>3, <2>1 DEF Same
    <3> QED
      BY <1>1, <1>2, <3>1, SameKeeps
  <2>2. CASE q = r
    <3>1. Progress(r)'
      BY <1>1, <1>2, <1>3, <1>4, <1>5 DEF Progress
    <3> QED
      BY <2>2, <3>1
  <2> QED
    BY <2>1, <2>2
<1> QED
  BY <1>6, <1>7, <1>8 DEF OperatorInv

\* No result changes.
LEMMA ResultsKeepDomains ==
  ASSUME OperatorInv, UNCHANGED <<direct, part, image>>
  PROVE  PerRank'
BY DEF OperatorInv, PerRank

LEMMA GatherSizesKeeps ==
  ASSUME OperatorInv, NEW r \in Ranks, GatherSizes(r)
  PROVE  OperatorInv'
<1> DEFINE own == [q \in Ranks |-> Len(non_empty_outers(Matrix(q)))]
<1>1. /\ In(r, "gather_sizes") /\ Return(r) /\ UNCHANGED <<mapping, grid, direct, part, image>>
      /\ IF r = Root THEN AllIn(r) /\ sizes' = own ELSE sizes' = sizes
  BY DEF GatherSizes
<1> HIDE DEF own
<1>2. /\ Given /\ Progress(r) /\ Root \in Ranks /\ mapping \in Seq(Cells)
      /\ done \in [Ranks -> 0 .. 5] /\ Asking
  BY InvParts
<1>3. /\ pc[r] = "calls" /\ posted[r] = done[r] + 1 /\ done[r] \in Nat
      /\ Distribution = "grid" /\ posted[r] = 1
  BY <1>1, <1>2, WhichCall
<1>4. UNCHANGED Asked /\ pc'[r] = "calls" /\ done' = [done EXCEPT ![r] = done[r] + 1]
      /\ done'[r] = done[r] + 1
  BY <1>1, <1>2, <1>3 DEF Return
<1>5. Waited(r)
  BY <1>3 DEF Waited
<1>6. Computed(r)'
  <2>1. DirectCall = 3 /\ PartCall = 4 /\ Len(Calls) = 5
    BY <1>2, <1>3, Kinds, CallNumbers DEF DirectCall, PartCall
  <2> QED
    BY <1>1, <1>3, <1>4, <2>1, ComputedByCall
<1>7. Asking'
  <2>1. CASE r = Root
    <3>1. sizes' = own /\ done'[Root] = 1
      BY <1>1, <1>3, <1>4, <2>1
    <3>2. own' = own
      BY <1>4, SameMatrices DEF own
    <3> QED
      BY <3>1, <3>2 DEF Asking, own
  <2>2. CASE r # Root
    <3>1. sizes' = sizes /\ done'[Root] = done[Root]
      BY <1>1, <1>2, <1>4, <2>2
    <3> QED
      BY <1>1, <1>4, <3>1, AskingKeeps
  <2> QED
    BY <2>1, <2>2
<1>8. PerRank' /\ mapping' \in Seq(Cells)
  BY <1>1, <1>2, ResultsKeepDomains
<1> QED
  BY <1>1, <1>5, <1>6, <1>7, <1>8, ReturnKeeps

LEMMA GatherIndicesKeeps ==
  ASSUME OperatorInv, NEW r \in Ranks, GatherIndices(r)
  PROVE  OperatorInv'
<1> DEFINE all == FlattenSeq([q \in 1 .. Size |-> non_empty_outers(Matrix(q - 1))])
<1>1. /\ In(r, "gather_indices") /\ Return(r) /\ UNCHANGED <<sizes, grid, direct, part, image>>
      /\ IF r = Root THEN AllIn(r) /\ mapping' = all ELSE mapping' = mapping
  BY DEF GatherIndices
<1>2. /\ Given /\ Progress(r) /\ Root \in Ranks /\ mapping \in Seq(Cells)
      /\ done \in [Ranks -> 0 .. 5] /\ Asking
  BY InvParts
<1>3. /\ pc[r] = "calls" /\ posted[r] = done[r] + 1 /\ done[r] \in Nat
      /\ Distribution = "grid" /\ posted[r] = 2
  BY <1>1, <1>2, WhichCall
<1>4. UNCHANGED Asked /\ pc'[r] = "calls" /\ done' = [done EXCEPT ![r] = done[r] + 1]
      /\ done'[r] = done[r] + 1
  BY <1>1, <1>2, <1>3 DEF Return
<1>5. Waited(r)
  BY <1>3 DEF Waited
<1>6. Computed(r)'
  <2>1. DirectCall = 3 /\ PartCall = 4 /\ Len(Calls) = 5
    BY <1>2, <1>3, Kinds, CallNumbers DEF DirectCall, PartCall
  <2> HIDE DEF all
  <2> QED
    BY <1>1, <1>3, <1>4, <2>1, ComputedByCall
<1>7. all' = all
  <2>1. \A q : Matrix(q)' = Matrix(q)
    BY <1>4, SameMatrices
  <2> QED
    BY <2>1
<1>8. Asking'
  <2>1. CASE r = Root
    <3>1. mapping' = all /\ done[Root] = 1
      BY <1>1, <1>3, <2>1
    <3>2. sizes' = [q \in Ranks |-> Len(non_empty_outers(Matrix(q)))]
      BY <1>1, <1>2, <1>3, <3>1 DEF Asking
    <3>3. [q \in Ranks |-> Len(non_empty_outers(Matrix(q)))]'
            = [q \in Ranks |-> Len(non_empty_outers(Matrix(q)))]
      <4>1. \A q : Matrix(q)' = Matrix(q)
        BY <1>4, SameMatrices
      <4> QED
        BY <4>1
    <3> QED
      BY <1>7, <3>1, <3>2, <3>3 DEF Asking
  <2>2. CASE r # Root
    <3>1. mapping' = mapping /\ done'[Root] = done[Root]
      BY <1>1, <1>2, <1>4, <2>2
    <3> QED
      BY <1>1, <1>4, <3>1, AskingKeeps
  <2> QED
    BY <2>1, <2>2
<1>9. all \in Seq(Cells)
  <2> DEFINE own == OwnColumns
             lengths == [q \in Ranks |-> Len(own[q])]
             offset == [k \in 0 .. Size |-> SumUpto(lengths, k)]
  <2>1. Size \in Nat /\ Size > 0 /\ Ranks = 0 .. Size - 1
    BY GridSizes DEF Ranks
  <2>2. \A q \in 0 .. Size - 1 : own[q] \in Seq(Cells)
    BY <1>2, <1>3, <2>1, GridColumns DEF OwnColumns
  <2>3. \A q \in 0 .. Size - 1 : lengths[q] = Len(own[q])
    BY <2>1
  <2> HIDE DEF own, lengths
  <2>4. AreOffsets(Size, own, offset)
    BY <2>1, <2>2, <2>3, SumsAreOffsets
  <2> HIDE DEF offset
  <2>5. FlattenSeq(PieceList(Size, own)) \in Seq(Cells)
    BY <2>1, <2>2, <2>4, FlattenInPlace
  <2>6. [q \in 1 .. Size |-> non_empty_outers(Matrix(q - 1))] = PieceList(Size, own)
    <3>1. \A q \in 1 .. Size : q - 1 \in Ranks
      BY <2>1
    <3> QED
      BY <3>1 DEF PieceList, OwnColumns, own
  <2> QED
    BY <2>5, <2>6
<1> HIDE DEF all
<1>10. PerRank' /\ mapping' \in Seq(Cells)
  BY <1>1, <1>2, <1>9, ResultsKeepDomains
<1> QED
  BY <1>1, <1>5, <1>6, <1>8, <1>10, ReturnKeeps

LEMMA ScatterKeeps ==
  ASSUME OperatorInv, NEW r \in Ranks, Scatter(r)
  PROVE  OperatorInv'
<1> DEFINE sent == SubSeq(Select(mapping, 0, Transformed(Root)), Before(r) + 1, Before(r) + sizes[r])
           own == non_empty_outers(Matrix(r))
           got == ByColumn(own, sent)
<1>1. /\ In(r, "scatter") /\ RootIn(r) /\ Return(r)
      /\ direct' = [direct EXCEPT ![r] = Degridded(r, got)]
      /\ UNCHANGED <<sizes, mapping, part, image>>
  BY DEF Scatter, Receive, ByColumn
<1>2. /\ Given /\ Progress(r) /\ Root \in Ranks /\ mapping \in Seq(Cells)
      /\ done \in [Ranks -> 0 .. 5] /\ Asking /\ Counts /\ PerRank
  BY InvParts
<1>3. /\ pc[r] = "calls" /\ posted[r] = done[r] + 1 /\ done[r] \in Nat
      /\ Distribution = "grid" /\ posted[r] = 3
  BY <1>1, <1>2, WhichCall
<1>4. UNCHANGED Asked /\ pc'[r] = "calls" /\ done' = [done EXCEPT ![r] = done[r] + 1]
      /\ done'[r] = done[r] + 1
  BY <1>1, <1>2, <1>3 DEF Return
<1>5. Waited(r)
  BY <1>1, <1>3 DEF Waited
<1>6. Asked_sizes /\ Asked_indices
  <2>1. done[Root] >= 2 /\ done[Root] >= 1
    BY <1>1, <1>2, <1>3 DEF RootIn, Counts
  <2> QED
    BY <1>2, <1>3, <2>1 DEF Asking, Asked_sizes, Asked_indices
<1>7. got = Received(r)
  BY <1>2, <1>3, <1>6, ScatterReceives
<1> HIDE DEF got
<1>8. direct'[r] = DirectOf(r) /\ DOMAIN direct' = Ranks
      /\ \A q \in Ranks : q # r => direct'[q] = direct[q]
  BY <1>1, <1>2, <1>7 DEF DirectOf, PerRank
<1>9. Computed(r)'
  <2>1. DirectCall = 3 /\ PartCall = 4 /\ Len(Calls) = 5
    BY <1>2, <1>3, Kinds, CallNumbers DEF DirectCall, PartCall
  <2> QED
    BY <1>1, <1>3, <1>4, <1>8, <2>1, ComputedByCall
<1>10. Asking'
  <2>1. done'[Root] = done[Root] \/ done[Root] >= 2
    BY <1>2, <1>3, <1>4
  <2> QED
    BY <1>1, <1>4, <2>1, AskingKeeps
<1>11. PerRank' /\ mapping' \in Seq(Cells)
  BY <1>1, <1>2, <1>8 DEF PerRank
<1> QED
  BY <1>1, <1>5, <1>8, <1>9, <1>10, <1>11, ReturnKeeps

LEMMA GatherKeeps ==
  ASSUME OperatorInv, NEW r \in Ranks, Gather(r)
  PROVE  OperatorInv'
<1> DEFINE new == Unpadded(Root, Accumulate(mapping, 0, FtSize,
                                            FlattenSeq([q \in 1 .. Size |-> Sent(q - 1)])))
<1>1. /\ In(r, "gather") /\ Return(r)
      /\ IF r = Root THEN AllIn(r) /\ part' = [part EXCEPT ![r] = new] ELSE part' = part
      /\ UNCHANGED <<sizes, mapping, grid, direct, image>>
  BY DEF Gather
<1>2. /\ Given /\ Progress(r) /\ Root \in Ranks /\ mapping \in Seq(Cells)
      /\ done \in [Ranks -> 0 .. 5] /\ Asking /\ Counts /\ PerRank
  BY InvParts
<1>3. /\ pc[r] = "calls" /\ posted[r] = done[r] + 1 /\ done[r] \in Nat
      /\ Distribution = "grid" /\ posted[r] = 4
  BY <1>1, <1>2, WhichCall
<1>4. UNCHANGED Asked /\ pc'[r] = "calls" /\ done' = [done EXCEPT ![r] = done[r] + 1]
      /\ done'[r] = done[r] + 1
  BY <1>1, <1>2, <1>3 DEF Return
<1>5. Waited(r)
  BY <1>1, <1>3 DEF Waited
<1>6. r = Root => new = PartOf(Root)
  <2>1. SUFFICES ASSUME r = Root PROVE new = PartOf(Root)
    OBVIOUS
  <2>2. Asked_indices
    <3>1. done[Root] >= 2
      BY <1>3, <2>1
    <3> QED
      BY <1>2, <1>3, <3>1 DEF Asking, Asked_indices
  <2> QED
    BY <1>2, <1>3, <2>2, GatheredPart
<1> HIDE DEF new
<1>7. /\ r = Root => part'[r] = PartOf(r)
      /\ r # Root => part'[r] = part[r]
      /\ DOMAIN part' = Ranks
      /\ \A q \in Ranks : q # r => part'[q] = part[q]
  BY <1>1, <1>2, <1>6 DEF PerRank
<1>8. Computed(r)'
  <2>1. DirectCall = 3 /\ PartCall = 4 /\ Len(Calls) = 5
    BY <1>2, <1>3, Kinds, CallNumbers DEF DirectCall, PartCall
  <2>2. \/ part'[r] = PartOf(r)
        \/ (posted[r] # PartCall \/ (Distribution = "grid" /\ r # Root)) /\ part'[r] = part[r]
    BY <1>3, <1>7
  <2> QED
    BY <1>1, <1>3, <1>4, <2>1, <2>2, ComputedByCall
<1>9. Asking'
  <2>1. done'[Root] = done[Root] \/ done[Root] >= 2
    BY <1>2, <1>3, <1>4
  <2> QED
    BY <1>1, <1>4, <2>1, AskingKeeps
<1>10. PerRank' /\ mapping' \in Seq(Cells)
  BY <1>1, <1>2, <1>7 DEF PerRank
<1> QED
  BY <1>1, <1>5, <1>7, <1>8, <1>9, <1>10, ReturnKeeps

LEMMA BroadcastKeeps ==
  ASSUME OperatorInv, NEW r \in Ranks, Broadcast(r)
  PROVE  OperatorInv'
<1>1. /\ In(r, "broadcast") /\ RootIn(r) /\ Return(r)
      /\ image' = [image EXCEPT ![r] = part[Root]]
      /\ UNCHANGED <<sizes, mapping, grid, direct, part>>
  BY DEF Broadcast
<1>2. /\ Given /\ Progress(r) /\ Root \in Ranks /\ mapping \in Seq(Cells)
      /\ done \in [Ranks -> 0 .. 5] /\ Counts /\ PerRank /\ Progress(Root) /\ Computed(Root)
  BY InvParts
<1>3. /\ pc[r] = "calls" /\ posted[r] = done[r] + 1 /\ done[r] \in Nat
      /\ Distribution = "grid" /\ posted[r] = 5
  BY <1>1, <1>2, WhichCall
<1>4. UNCHANGED Asked /\ pc'[r] = "calls" /\ done' = [done EXCEPT ![r] = done[r] + 1]
      /\ done'[r] = done[r] + 1
  BY <1>1, <1>2, <1>3 DEF Return
<1>5. Waited(r)
  BY <1>1, <1>3 DEF Waited
<1>6. DirectCall = 3 /\ PartCall = 4 /\ Len(Calls) = 5
  BY <1>2, <1>3, Kinds, CallNumbers DEF DirectCall, PartCall
<1>7. part[Root] = PartOf(Root)
  <2>1. posted[Root] >= 5 /\ posted[Root] \in Nat /\ done[Root] \in Nat /\ posted[Root] <= done[Root] + 1
    BY <1>1, <1>2, <1>3 DEF RootIn, Counts
  <2>2. done[Root] >= 4 /\ posted[Root] # 0
    BY <2>1
  <2>3. pc[Root] \in {"calls", "done"}
    BY <1>2, <2>2 DEF Progress
  <2> QED
    BY <1>2, <1>6, <2>2, <2>3 DEF Computed
<1>8. image'[r] = ImageOf(r) /\ DOMAIN image' = Ranks
      /\ \A q \in Ranks : q # r => image'[q] = image[q]
  BY <1>1, <1>2, <1>3, <1>7 DEF ImageOf, PerRank
<1>9. Computed(r)'
  BY <1>1, <1>3, <1>4, <1>6, <1>8, ComputedByCall
<1>10. Asking'
  <2>1. done'[Root] = done[Root] \/ done[Root] >= 2
    BY <1>2, <1>3, <1>4
  <2> QED
    BY <1>1, <1>4, <2>1, AskingKeeps
<1>11. PerRank' /\ mapping' \in Seq(Cells)
  BY <1>1, <1>2, <1>8 DEF PerRank
<1> QED
  BY <1>1, <1>5, <1>8, <1>9, <1>10, <1>11, ReturnKeeps

LEMMA ConnectKeeps ==
  ASSUME OperatorInv, NEW r \in Ranks, Connect(r)
  PROVE  OperatorInv'
<1>1. /\ In(r, "connect") /\ AllIn(r) /\ Return(r)
      /\ UNCHANGED <<sizes, mapping, grid, direct, part, image>>
  BY DEF Connect, Results
<1>2. /\ Given /\ Progress(r) /\ mapping \in Seq(Cells) /\ done \in [Ranks -> 0 .. 5]
  BY InvParts
<1>3. /\ pc[r] = "calls" /\ posted[r] = done[r] + 1 /\ done[r] \in Nat
      /\ Distribution = "all_to_all" /\ posted[r] = 1
  BY <1>1, <1>2, WhichCall
<1>4. UNCHANGED Asked /\ pc'[r] = "calls" /\ done'[r] = done[r] + 1
  BY <1>1, <1>2, <1>3 DEF Return
<1>5. Waited(r)
  BY <1>1, <1>3 DEF Waited
<1>6. Computed(r)'
  <2>1. DirectCall = 2 /\ PartCall = 3 /\ Len(Calls) = 4
    BY <1>2, <1>3, Kinds, CallNumbers DEF DirectCall, PartCall
  <2> QED
    BY <1>1, <1>3, <1>4, <2>1, ComputedByCall
<1>7. Asking'
  BY <1>1, <1>3, <1>4, AskingKeeps
<1>8. PerRank' /\ mapping' \in Seq(Cells)
  BY <1>1, <1>2, ResultsKeepDomains
<1> QED
  BY <1>1, <1>5, <1>6, <1>7, <1>8, ReturnKeeps

LEMMA RecvGridKeeps ==
  ASSUME OperatorInv, NEW r \in Ranks, RecvGrid(r)
  PROVE  OperatorInv'
<1> DEFINE got == [c \in ToSet(non_empty_outers(Matrix(r))) |->
                     Transformed(c \div FtSize)[c % FtSize]]
<1>1. /\ In(r, "recv_grid") /\ AllIn(r) /\ Return(r)
      /\ direct' = [direct EXCEPT ![r] = Degridded(r, got)]
      /\ UNCHANGED <<sizes, mapping, part, image>>
  BY DEF RecvGrid, Receive
<1>2. /\ Given /\ Progress(r) /\ mapping \in Seq(Cells) /\ done \in [Ranks -> 0 .. 5] /\ PerRank
  BY InvParts
<1>3. /\ pc[r] = "calls" /\ posted[r] = done[r] + 1 /\ done[r] \in Nat
      /\ Distribution = "all_to_all" /\ posted[r] = 2
  BY <1>1, <1>2, WhichCall
<1>4. UNCHANGED Asked /\ pc'[r] = "calls" /\ done'[r] = done[r] + 1
  BY <1>1, <1>2, <1>3 DEF Return
<1>5. Waited(r)
  BY <1>1, <1>3 DEF Waited
<1>6. got = Received(r)
  <2>1. ~BadIndex(r)
    BY <1>2, <1>3 DEF Progress
  <2> QED
    BY <1>2, <1>3, <2>1, ExchangeReceives
<1> HIDE DEF got
<1>7. direct'[r] = DirectOf(r) /\ DOMAIN direct' = Ranks
      /\ \A q \in Ranks : q # r => direct'[q] = direct[q]
  BY <1>1, <1>2, <1>6 DEF DirectOf, PerRank
<1>8. Computed(r)'
  <2>1. DirectCall = 2 /\ PartCall = 3 /\ Len(Calls) = 4
    BY <1>2, <1>3, Kinds, CallNumbers DEF DirectCall, PartCall
  <2> QED
    BY <1>1, <1>3, <1>4, <1>7, <2>1, ComputedByCall
<1>9. Asking'
  BY <1>1, <1>3, <1>4, AskingKeeps
<1>10. PerRank' /\ mapping' \in Seq(Cells)
  BY <1>1, <1>2, <1>7 DEF PerRank
<1> QED
  BY <1>1, <1>5, <1>7, <1>8, <1>9, <1>10, ReturnKeeps

LEMMA SendGridKeeps ==
  ASSUME OperatorInv, NEW r \in Ranks, SendGrid(r)
  PROVE  OperatorInv'
<1> DEFINE spread == [q \in Ranks |-> Gridded(q)]
           gridded == [c \in Cells |->
             UNION {spread[q][r * FtSize + c] :
                      q \in {s \in Ranks : r * FtSize + c \in DOMAIN spread[s]}}]
<1>1. /\ In(r, "send_grid") /\ AllIn(r) /\ Return(r)
      /\ part' = [part EXCEPT ![r] = Unpadded(r, gridded)]
      /\ UNCHANGED <<sizes, mapping, grid, direct, image>>
  BY DEF SendGrid
<1>2. /\ Given /\ Progress(r) /\ mapping \in Seq(Cells) /\ done \in [Ranks -> 0 .. 5] /\ PerRank
  BY InvParts
<1>3. /\ pc[r] = "calls" /\ posted[r] = done[r] + 1 /\ done[r] \in Nat
      /\ Distribution = "all_to_all" /\ posted[r] = 3
  BY <1>1, <1>2, WhichCall
<1>4. UNCHANGED Asked /\ pc'[r] = "calls" /\ done'[r] = done[r] + 1
  BY <1>1, <1>2, <1>3 DEF Return
<1>5. Waited(r)
  BY <1>1, <1>3 DEF Waited
<1>6. Unpadded(r, gridded) = PartOf(r)
  BY <1>3, ExchangedPart
<1> HIDE DEF gridded, spread
<1>7. part'[r] = PartOf(r) /\ DOMAIN part' = Ranks
      /\ \A q \in Ranks : q # r => part'[q] = part[q]
  BY <1>1, <1>2, <1>6 DEF PerRank
<1>8. Computed(r)'
  <2>1. DirectCall = 2 /\ PartCall = 3 /\ Len(Calls) = 4
    BY <1>2, <1>3, Kinds, CallNumbers DEF DirectCall, PartCall
  <2> QED
    BY <1>1, <1>3, <1>4, <1>7, <2>1, ComputedByCall
<1>9. Asking'
  BY <1>1, <1>3, <1>4, AskingKeeps
<1>10. PerRank' /\ mapping' \in Seq(Cells)
  BY <1>1, <1>2, <1>7 DEF PerRank
<1> QED
  BY <1>1, <1>5, <1>7, <1>8, <1>9, <1>10, ReturnKeeps

LEMMA AllSumAllKeeps ==
  ASSUME OperatorInv, NEW r \in Ranks, AllSumAll(r)
  PROVE  OperatorInv'
<1>1. /\ In(r, "all_sum_all") /\ AllIn(r) /\ Return(r)
      /\ image' = [image EXCEPT ![r] = [p \in Pixels |-> UNION {part[q][p] : q \in Ranks}]]
      /\ UNCHANGED <<sizes, mapping, grid, direct, part>>
  BY DEF AllSumAll
<1>2. /\ Given /\ Progress(r) /\ mapping \in Seq(Cells) /\ done \in [Ranks -> 0 .. 5] /\ PerRank
      /\ Counts /\ \A q \in Ranks : Progress(q) /\ Computed(q)
  BY InvParts
<1>3. /\ pc[r] = "calls" /\ posted[r] = done[r] + 1 /\ done[r] \in Nat
      /\ \/ Distribution = "image" /\ posted[r] = 1
         \/ Distribution = "all_to_all" /\ posted[r] = 4
  BY <1>1, <1>2, WhichCall
<1>4. UNCHANGED Asked /\ pc'[r] = "calls" /\ done'[r] = done[r] + 1
  BY <1>1, <1>2, <1>3 DEF Return
<1>5. Waited(r)
  BY <1>1, <1>3 DEF Waited
<1>6. /\ Distribution = "image" => DirectCall = 0 /\ PartCall = 0
      /\ Distribution = "all_to_all" => DirectCall = 2 /\ PartCall = 3
  BY <1>2, Kinds DEF DirectCall, PartCall, OwnImage
<1>7. ASSUME NEW q \in Ranks
      PROVE  part[q] = PartOf(q)
  <2>1. /\ posted[q] >= posted[r] /\ posted[q] \in Nat /\ done[q] \in Nat
        /\ posted[q] <= done[q] + 1
    BY <1>1, <1>2 DEF AllIn, Counts
  <2>2. posted[q] # 0 /\ done[q] >= PartCall
    BY <1>3, <1>6, <2>1
  <2>3. pc[q] \in {"calls", "done"}
    BY <1>2, <2>2 DEF Progress
  <2> QED
    BY <1>2, <1>3, <2>2, <2>3 DEF Computed
<1>8. image'[r] = ImageOf(r) /\ DOMAIN image' = Ranks
      /\ \A q \in Ranks : q # r => image'[q] = image[q]
  <2>1. [p \in Pixels |-> UNION {part[q][p] : q \in Ranks}]
          = [p \in Pixels |-> UNION {PartOf(q)[p] : q \in Ranks}]
    BY <1>7
  <2>2. ImageOf(r) = [p \in Pixels |-> UNION {PartOf(q)[p] : q \in Ranks}]
    BY <1>3 DEF ImageOf
  <2> DEFINE new == [p \in Pixels |-> UNION {part[q][p] : q \in Ranks}]
  <2>3. new = ImageOf(r) /\ image' = [image EXCEPT ![r] = new]
    BY <1>1, <2>1, <2>2
  <2> HIDE DEF new
  <2> QED
    BY <1>2, <2>3 DEF PerRank
<1>9. Computed(r)'
  <2>1. posted[r] # DirectCall /\ posted[r] # PartCall
    BY <1>3, <1>6
  <2> QED
    BY <1>1, <1>3, <1>4, <1>8, <2>1, ComputedByCall
<1>10. Asking'
  BY <1>1, <1>3, <1>4, AskingKeeps
<1>11. PerRank' /\ mapping' \in Seq(Cells)
  BY <1>1, <1>2, <1>8 DEF PerRank
<1> QED
  BY <1>1, <1>5, <1>8, <1>9, <1>10, <1>11, ReturnKeeps

\* A step of one rank that is no call.
LEMMA LocalKeeps ==
  ASSUME OperatorInv, NEW r \in Ranks, UNCHANGED <<Asked, posted, done, sizes, mapping>>,
         NEW place \in {"construct", "apply", "calls", "done", "threw", "crashed"},
         pc' = [pc EXCEPT ![r] = place],
         \A q \in Ranks : q # r => /\ direct'[q] = direct[q] /\ part'[q] = part[q]
                                   /\ image'[q] = image[q],
         PerRank', Progress(r)', Computed(r)'
  PROVE  OperatorInv'
<1>1. /\ Given /\ Counts /\ Together /\ \A q \in Ranks : Progress(q) /\ Computed(q)
      /\ posted \in [Ranks -> 0 .. 5] /\ done \in [Ranks -> 0 .. 5] /\ mapping \in Seq(Cells)
      /\ pc \in [Ranks -> {"construct", "apply", "calls", "done", "threw", "crashed"}]
  BY InvParts
<1>2. UNCHANGED Asked /\ posted' = posted /\ done' = done /\ mapping' = mapping /\ sizes' = sizes
  OBVIOUS
<1>3. choice' = choice /\ vis' = vis /\ w_stacks' = w_stacks
  BY <1>2, SameKind
<1>4. pc' \in [Ranks -> {"construct", "apply", "calls", "done", "threw", "crashed"}]
  BY <1>1
<1>5. TypeOK'
  BY <1>1, <1>2, <1>3, <1>4 DEF TypeOK, Given
<1>6. Together'
  <2>1. \A q \in Ranks : posted'[q] \in Nat /\ posted'[q] >= posted[q]
    BY <1>1, <1>2 DEF Counts
  <2> QED
    BY <1>1, <1>2, <2>1, PostTogether
<1>7. Asking'
  BY <1>2, AskingKeeps
<1>8. ASSUME NEW q \in Ranks
      PROVE  Progress(q)' /\ Computed(q)'
  <2>1. CASE q # r
    <3>1. Same(q)
      BY <1>1, <1>2, <2>1 DEF Same
    <3> QED
      BY <1>1, <1>2, <3>1, SameKeeps
  <2> QED
    BY <2>1
<1> QED
  BY <1>5, <1>6, <1>7, <1>8 DEF OperatorInv

\* What the steps without a call need of the rank they are of.
LEMMA OwnState ==
  ASSUME OperatorInv, NEW r \in Ranks
  PROVE  /\ Given /\ PerRank /\ Progress(r) /\ Computed(r) /\ posted[r] \in Nat /\ done[r] \in Nat
         /\ done[r] <= posted[r] /\ posted[r] <= done[r] + 1 /\ posted[r] <= Len(Calls)
         /\ pc[r] \notin {"calls", "done"} => posted[r] = 0 /\ done[r] = 0
         /\ pc \in [Ranks -> {"construct", "apply", "calls", "done", "threw", "crashed"}]
         /\ Len(Calls) \in 0 .. 5
<1>1. Progress(r) /\ Given
  BY InvParts
<1>2. /\ posted[r] \in Nat /\ done[r] \in Nat
      /\ done[r] <= posted[r] /\ posted[r] <= done[r] + 1 /\ posted[r] <= Len(Calls)
      /\ pc[r] \notin {"calls", "done"} => posted[r] = 0
  BY <1>1 DEF Progress
<1>3. pc[r] \notin {"calls", "done"} => done[r] = 0
  BY <1>2
<1>4. Len(Calls) \in 0 .. 5
  BY <1>1, CallNumbers
<1> QED
  BY <1>1, <1>2, <1>3, <1>4, InvParts

LEMMA ConstructKeeps ==
  ASSUME OperatorInv, NEW r \in Ranks, Construct(r)
  PROVE  OperatorInv'
<1> DEFINE place == IF Refused \/ BadIndex(r) THEN "threw" ELSE "apply"
<1>1. /\ pc[r] = "construct" /\ pc' = [pc EXCEPT ![r] = place]
      /\ UNCHANGED <<Asked, posted, done, sizes, mapping, direct, part, image>>
  BY DEF Construct, Results
<1>2. /\ place \in {"threw", "apply"} /\ (place = "apply" => ~BadIndex(r))
  OBVIOUS
<1> HIDE DEF place
<1>3. PerRank /\ posted[r] = 0 /\ done[r] = 0 /\ Len(Calls) \in Nat
      /\ pc \in [Ranks -> {"construct", "apply", "calls", "done", "threw", "crashed"}]
  BY <1>1, OwnState
<1>4. pc'[r] = place
  BY <1>1, <1>3
<1>5. Calls' = Calls /\ BadIndex(r)' = BadIndex(r)
  BY <1>1, SameKind
<1>6. Progress(r)'
  BY <1>1, <1>2, <1>3, <1>4, <1>5 DEF Progress
<1>7. Computed(r)'
  BY <1>2, <1>4 DEF Computed
<1>8. PerRank'
  BY <1>1, <1>3 DEF PerRank
<1>9. place \in {"construct", "apply", "calls", "done", "threw", "crashed"}
  BY <1>2
<1> QED
  BY <1>1, <1>6, <1>7, <1>8, <1>9, LocalKeeps

LEMMA CrashKeeps ==
  ASSUME OperatorInv, NEW r \in Ranks, Crash(r)
  PROVE  OperatorInv'
<1>1. /\ pc[r] = "construct" /\ pc' = [pc EXCEPT ![r] = "crashed"]
      /\ UNCHANGED <<Asked, posted, done, sizes, mapping, direct, part, image>>
  BY DEF Crash, Results
<1>2. PerRank /\ posted[r] = 0 /\ done[r] = 0 /\ Len(Calls) \in Nat
      /\ pc \in [Ranks -> {"construct", "apply", "calls", "done", "threw", "crashed"}]
  BY <1>1, OwnState
<1>3. pc'[r] = "crashed"
  BY <1>1, <1>2
<1>4. Calls' = Calls
  BY <1>1, SameKind
<1>5. Progress(r)'
  BY <1>1, <1>2, <1>3, <1>4 DEF Progress
<1>6. Computed(r)'
  BY <1>3 DEF Computed
<1>7. PerRank'
  BY <1>1, <1>2 DEF PerRank
<1> QED
  BY <1>1, <1>5, <1>6, <1>7, LocalKeeps

LEMMA ApplyKeeps ==
  ASSUME OperatorInv, NEW r \in Ranks, Apply(r)
  PROVE  OperatorInv'
<1>1. /\ pc[r] = "apply" /\ pc' = [pc EXCEPT ![r] = "calls"]
      /\ UNCHANGED <<Asked, posted, done, sizes, mapping, image>>
      /\ OwnImage => /\ direct' = [direct EXCEPT ![r] = Degridded(r, Transformed(r))]
                     /\ part' = [part EXCEPT ![r] = OwnPart(r)]
      /\ ~OwnImage => direct' = direct /\ part' = part
  BY DEF Apply
<1>2. /\ Given /\ PerRank /\ Progress(r) /\ posted[r] = 0 /\ done[r] = 0 /\ Len(Calls) \in 0 .. 5
      /\ pc \in [Ranks -> {"construct", "apply", "calls", "done", "threw", "crashed"}]
  BY <1>1, OwnState
<1>3. pc'[r] = "calls" /\ posted'[r] = 0 /\ done'[r] = 0
  BY <1>1, <1>2
<1>4. /\ Calls' = Calls /\ BadIndex(r)' = BadIndex(r) /\ Distribution' = Distribution
      /\ DirectCall' = DirectCall /\ PartCall' = PartCall
  BY <1>1, SameKind
<1>5. Progress(r)'
  BY <1>1, <1>2, <1>3, <1>4 DEF Progress
<1>6. /\ DOMAIN direct' = Ranks /\ DOMAIN part' = Ranks /\ DOMAIN image' = Ranks
      /\ \A q \in Ranks : q # r => direct'[q] = direct[q] /\ part'[q] = part[q] /\ image'[q] = image[q]
      /\ OwnImage => direct'[r] = DirectOf(r) /\ part'[r] = PartOf(r)
  <2>1. CASE OwnImage
    <3>1. Degridded(r, Transformed(r)) = DirectOf(r) /\ OwnPart(r) = PartOf(r)
      BY <2>1, OwnPartIsPart
    <3> QED
      BY <1>1, <1>2, <2>1, <3>1 DEF PerRank
  <2>2. CASE ~OwnImage
    BY <1>1, <1>2, <2>2 DEF PerRank
  <2> QED
    BY <2>1, <2>2
<1>7. Computed(r)'
  <2>1. DirectOf(r)' = DirectOf(r) /\ PartOf(r)' = PartOf(r) /\ ImageOf(r)' = ImageOf(r)
    BY <1>1, SameResults
  <2>2. ~OwnImage => ~ (0 >= DirectCall) /\ ~ (0 >= PartCall)
    BY DEF DirectCall, PartCall
  <2>3. Distribution # "serial" => Len(Calls) # 0
    BY <1>2, CallsKnown, CallNumbers
  <2> QED
    BY <1>3, <1>4, <1>6, <2>1, <2>2, <2>3 DEF Computed
<1>8. PerRank'
  BY <1>6 DEF PerRank
<1> QED
  BY <1>1, <1>5, <1>6, <1>7, <1>8, LocalKeeps

LEMMA FinishKeeps ==
  ASSUME OperatorInv, NEW r \in Ranks, Finish(r)
  PROVE  OperatorInv'
<1> DEFINE new == IF Distribution = "serial" THEN part[r] ELSE image[r]
<1>1. /\ pc[r] = "calls" /\ done[r] = Len(Calls) /\ pc' = [pc EXCEPT ![r] = "done"]
      /\ image' = [image EXCEPT ![r] = new]
      /\ UNCHANGED <<Asked, posted, done, sizes, mapping, direct, part>>
  BY DEF Finish
<1>2. /\ Given /\ PerRank /\ Progress(r) /\ Computed(r) /\ done[r] \in Nat /\ Len(Calls) \in 0 .. 5
      /\ pc \in [Ranks -> {"construct", "apply", "calls", "done", "threw", "crashed"}]
  BY <1>1, OwnState
<1>3. pc'[r] = "done" /\ posted'[r] = posted[r] /\ done'[r] = done[r]
  BY <1>1, <1>2
<1>4. /\ Calls' = Calls /\ BadIndex(r)' = BadIndex(r) /\ Distribution' = Distribution
      /\ DirectCall' = DirectCall /\ PartCall' = PartCall
  BY <1>1, SameKind
<1>5. Progress(r)'
  BY <1>1, <1>2, <1>3, <1>4 DEF Progress
<1>6. new = ImageOf(r)
  <2>1. CASE Distribution = "serial"
    <3>1. PartCall = 0
      BY <2>1 DEF PartCall, OwnImage
    <3>2. done[r] >= PartCall /\ (Distribution = "grid" => r = Root)
      BY <1>2, <2>1, <3>1
    <3>3. part[r] = PartOf(r)
      BY <1>1, <1>2, <3>2 DEF Computed
    <3> QED
      BY <2>1, <3>3 DEF ImageOf
  <2>2. CASE Distribution # "serial"
    BY <1>1, <1>2, <2>2 DEF Computed
  <2> QED
    BY <2>1, <2>2
<1> HIDE DEF new
<1>7. /\ DOMAIN image' = Ranks /\ image'[r] = ImageOf(r)
      /\ \A q \in Ranks : q # r => direct'[q] = direct[q] /\ part'[q] = part[q] /\ image'[q] = image[q]
  BY <1>1, <1>2, <1>6 DEF PerRank
<1>8. Computed(r)'
  <2>1. DirectOf(r)' = DirectOf(r) /\ PartOf(r)' = PartOf(r) /\ ImageOf(r)' = ImageOf(r)
    BY <1>1, SameResults
  <2>2. /\ done[r] >= DirectCall => direct[r] = DirectOf(r)
        /\ done[r] >= PartCall /\ (Distribution = "grid" => r = Root) => part[r] = PartOf(r)
    BY <1>1, <1>2 DEF Computed
  <2> QED
    BY <1>1, <1>3, <1>4, <1>7, <2>1, <2>2 DEF Computed
<1>9. PerRank'
  BY <1>1, <1>2, <1>7 DEF PerRank
<1> QED
  BY <1>1, <1>5, <1>7, <1>8, <1>9, LocalKeeps

LEMMA PostKeeps ==
  ASSUME OperatorInv, NEW r \in Ranks, Post(r)
  PROVE  OperatorInv'
<1>1. /\ pc[r] = "calls" /\ posted[r] = done[r] /\ done[r] < Len(Calls)
      /\ posted' = [posted EXCEPT ![r] = posted[r] + 1]
      /\ UNCHANGED <<Asked, done, pc, sizes, mapping, direct, part, image>>
  BY DEF Post, Results
<1>2. /\ Given /\ Counts /\ Together /\ \A q \in Ranks : Progress(q) /\ Computed(q)
      /\ posted \in [Ranks -> 0 .. 5] /\ done \in [Ranks -> 0 .. 5] /\ mapping \in Seq(Cells)
      /\ pc \in [Ranks -> {"construct", "apply", "calls", "done", "threw", "crashed"}]
      /\ PerRank
  BY InvParts
<1>3. UNCHANGED Asked
  BY <1>1
<1>4. done[r] \in Nat /\ Len(Calls) \in 0 .. 5
  BY OwnState
<1>5. posted[r] + 1 \in 0 .. 5 /\ posted[r] + 1 <= Len(Calls)
  <2> DEFINE n == Len(Calls)
             k == posted[r]
  <2>1. n \in 0 .. 5 /\ k \in Nat /\ k < n
    BY <1>1, <1>4
  <2> HIDE DEF n, k
  <2>2. k + 1 \in 0 .. 5 /\ k + 1 <= n
    BY <2>1
  <2> QED
    BY <2>2 DEF n, k
<1>6. posted' \in [Ranks -> 0 .. 5] /\ posted'[r] = posted[r] + 1
      /\ \A q \in Ranks : q # r => posted'[q] = posted[q]
  BY <1>1, <1>2, <1>5
<1>7. /\ choice' = choice /\ vis' = vis /\ w_stacks' = w_stacks /\ Calls' = Calls
      /\ BadIndex(r)' = BadIndex(r) /\ Distribution' = Distribution
      /\ DirectCall' = DirectCall /\ PartCall' = PartCall
  BY <1>3, SameKind
<1>8. TypeOK'
  BY <1>1, <1>2, <1>6, <1>7 DEF TypeOK, Given
<1>9. Together'
  <2>1. \A q \in Ranks : posted[q] \in Nat
    BY <1>2 DEF Counts
  <2>2. \A q \in Ranks : posted'[q] \in Nat /\ posted'[q] >= posted[q]
    BY <1>6, <2>1
  <2> QED
    BY <1>1, <1>2, <2>2, PostTogether
<1>10. Asking'
  BY <1>1, AskingKeeps
<1>11. PerRank'
  BY <1>1, <1>2 DEF PerRank
<1>12. Progress(r)'
  BY <1>1, <1>2, <1>4, <1>5, <1>6, <1>7 DEF Progress
<1>13. Computed(r)'
  <2>1. DirectOf(r)' = DirectOf(r) /\ PartOf(r)' = PartOf(r) /\ ImageOf(r)' = ImageOf(r)
    BY <1>3, SameResults
  <2> QED
    BY <1>1, <1>2, <1>7, <2>1 DEF Computed
<1>14. ASSUME NEW q \in Ranks, q # r
       PROVE  Progress(q)' /\ Computed(q)'
  <2>1. Same(q)
    BY <1>1, <1>6, <1>14 DEF Same
  <2> QED
    BY <1>2, <1>3, <2>1, SameKeeps
<1> QED
  BY <1>8, <1>9, <1>10, <1>11, <1>12, <1>13, <1>14 DEF OperatorInv

LEMMA OperatorInvInit == ASSUME Init PROVE OperatorInv
<1>1. /\ choice \in Requests /\ vis \in Visibilities /\ w_stacks \in Stacks
      /\ posted = [q \in Ranks |-> 0] /\ done = [q \in Ranks |-> 0]
      /\ mapping = <<>> /\ pc = [q \in Ranks |-> "construct"]
      /\ direct = [q \in Ranks |-> <<>>] /\ part = [q \in Ranks |-> <<>>]
      /\ image = [q \in Ranks |-> <<>>]
  BY DEF Init
<1>2. TypeOK
  <2>1. mapping \in Seq(Cells)
    BY <1>1
  <2> QED
    BY <1>1, <2>1 DEF TypeOK
<1>3. PerRank
  BY <1>1 DEF PerRank
<1>4. Len(Calls) \in 0 .. 5
  BY <1>1, CallNumbers DEF Given
<1>5. ASSUME NEW q \in Ranks PROVE Progress(q) /\ Computed(q)
  <2>1. posted[q] = 0 /\ done[q] = 0 /\ pc[q] = "construct"
    BY <1>1
  <2> QED
    BY <1>4, <2>1 DEF Progress, Computed
<1>6. Root \in Ranks
  BY Kinds
<1>7. done[Root] = 0
  BY <1>1, <1>6
<1>8. Asking
  BY <1>7 DEF Asking
<1>9. Together
  <2>1. \A q \in Ranks : posted[q] = 0 /\ done[q] = 0
    BY <1>1
  <2> QED
    BY <1>6, <2>1 DEF Together
<1> QED
  BY <1>2, <1>3, <1>5, <1>8, <1>9 DEF OperatorInv

LEMMA OperatorInvNext ==
  ASSUME OperatorInv, [Next]_vars
  PROVE  OperatorInv'
<1>1. CASE UNCHANGED vars
  <2>1. /\ UNCHANGED <<Asked, posted, done, sizes, mapping>> /\ pc' = pc
        /\ UNCHANGED <<direct, part, image>>
    BY <1>1 DEF vars, Asked
  <2>2. Root \in Ranks /\ pc \in [Ranks -> {"construct", "apply", "calls", "done", "threw", "crashed"}]
        /\ Progress(Root) /\ Computed(Root)
    BY InvParts
  <2>3. Same(Root)
    BY <2>1 DEF Same
  <2>4. Progress(Root)' /\ Computed(Root)'
    BY <2>1, <2>2, <2>3, SameKeeps
  <2>5. pc' = [pc EXCEPT ![Root] = pc[Root]] /\
        pc[Root] \in {"construct", "apply", "calls", "done", "threw", "crashed"}
    BY <2>1, <2>2
  <2>6. PerRank'
    BY <2>1, ResultsKeepDomains
  <2> QED
    BY <2>1, <2>2, <2>4, <2>5, <2>6, LocalKeeps
<1>2. ASSUME NEW r \in Ranks, Step(r)
      PROVE  OperatorInv'
  <2>1. CASE Construct(r)
    BY <2>1, ConstructKeeps
  <2>2. CASE Crash(r)
    BY <2>2, CrashKeeps
  <2>3. CASE Apply(r)
    BY <2>3, ApplyKeeps
  <2>4. CASE Post(r)
    BY <2>4, PostKeeps
  <2>5. CASE Call(r)
    BY <2>5, GatherSizesKeeps, GatherIndicesKeeps, ScatterKeeps, GatherKeeps, BroadcastKeeps,
       ConnectKeeps, RecvGridKeeps, SendGridKeeps, AllSumAllKeeps DEF Call
  <2>6. CASE Finish(r)
    BY <2>6, FinishKeeps
  <2> QED
    BY <1>2, <2>1, <2>2, <2>3, <2>4, <2>5, <2>6 DEF Step
<1> QED
  BY <1>1, <1>2 DEF Next

\* Whatever is asked for, every rank has what its calls compute, in their order.
THEOREM OperatorInvAlways == Spec => []OperatorInv
<1>1. Init => OperatorInv
  BY OperatorInvInit
<1>2. OperatorInv /\ [Next]_vars => OperatorInv'
  BY OperatorInvNext
<1> QED
  BY <1>1, <1>2, PTL DEF Spec

\* The variables keep their types: no rank makes more calls than its operator has, and the
\* root never joins a list of cells that are not on its grid.
THEOREM TypeCorrect == Spec => []TypeOK
<1>1. OperatorInv => TypeOK
  BY DEF OperatorInv
<1> QED
  BY <1>1, OperatorInvAlways, PTL

(***************************************************************************)
(* What the results are made of.                                           *)
(***************************************************************************)

\* What a row of the matrix reads from the transformed images.
LEMMA ReceivedCells ==
  ASSUME Given, NEW r \in Ranks, ~BadIndex(r), NEW m \in Rows(r), NEW c \in MatrixRow(r, m)
  PROVE  Received(r)[c] = Transformed(Holder(r, c))[c % FtSize]
<1>1. RowShape(r, m) /\ c \in Columns(r)
  BY RowsHaveShape DEF Columns
<1>2. CASE OwnImage
  <2>1. Holder(r, c) = r /\ Received(r) = Transformed(r) /\ Distribution # "all_to_all"
    BY <1>2, Kinds DEF Holder, Received
  <2>2. c % FtSize = c
    BY <1>1, <2>1 DEF RowShape
  <2> QED
    BY <2>1, <2>2
<1>3. CASE ~OwnImage
  BY <1>1, <1>3 DEF Received
<1> QED
  BY <1>2, <1>3

\* A term of the w-terms a and k.
LEMMA TermWithKernel ==
  ASSUME NEW p, NEW h, NEW a \in Int, NEW k \in Int, NEW y,
         y = [pixel |-> p, image |-> h, w |-> a]
  PROVE  [y EXCEPT !.w = @ + k] = [pixel |-> p, image |-> h, w |-> a + k]
OBVIOUS

\* The term that the pixel p of the image on rank h contributes to row m of rank r.
TermOf(r, m, h, p) == [pixel |-> p, image |-> h, w |-> Chirp(h) + KernelW(r, m)]

\* A visibility is made of the pixels of its cells, with the chirp of the image they come
\* from and its own kernel.
LEMMA DegriddedTerms ==
  ASSUME Given, NEW r \in Ranks, ~BadIndex(r), NEW m \in Rows(r), NEW x
  PROVE  x \in DirectOf(r)[m]
           <=> \E c \in MatrixRow(r, m) : \E p \in Pixels :
                 Padded(p) = FFT[c % FtSize] /\ x = TermOf(r, m, Holder(r, c), p)
<1> DEFINE k == KernelW(r, m)
           W(y) == [y EXCEPT !.w = @ + k]
<1>1. RowShape(r, m) /\ k \in Int
  BY RowsHaveShape, WTermsAreNumbers
<1>2. DirectOf(r)[m] = {W(y) : y \in UNION {Received(r)[c] : c \in MatrixRow(r, m)}}
  BY DEF DirectOf, Degridded
<1>3. ASSUME NEW c \in MatrixRow(r, m)
      PROVE  /\ Holder(r, c) \in Ranks
             /\ Received(r)[c] = {[pixel |-> p, image |-> Holder(r, c), w |-> Chirp(Holder(r, c))] :
                                    p \in {q \in Pixels : Padded(q) = FFT[c % FtSize]}}
  <2>1. Holder(r, c) \in Ranks /\ c % FtSize \in Cells
    BY <1>1 DEF RowShape
  <2>2. Received(r)[c] = Transformed(Holder(r, c))[c % FtSize]
    BY ReceivedCells
  <2> QED
    BY <2>1, <2>2 DEF Transformed
<1>4. ASSUME NEW c \in MatrixRow(r, m), NEW p
      PROVE  W([pixel |-> p, image |-> Holder(r, c), w |-> Chirp(Holder(r, c))])
               = TermOf(r, m, Holder(r, c), p)
  <2> DEFINE h == Holder(r, c)
             a == Chirp(h)
  <2>1. a \in Int
    BY <1>3, WTermsAreNumbers
  <2>2. TermOf(r, m, h, p) = [pixel |-> p, image |-> h, w |-> a + k]
    BY DEF TermOf
  <2> HIDE DEF a, h, k
  <2>3. W([pixel |-> p, image |-> h, w |-> a]) = [pixel |-> p, image |-> h, w |-> a + k]
    BY <1>1, <2>1, TermWithKernel
  <2> QED
    BY <2>2, <2>3 DEF a, h
<1> HIDE DEF W, k
<1>5. ASSUME x \in DirectOf(r)[m]
      PROVE  \E c \in MatrixRow(r, m) : \E p \in Pixels :
               Padded(p) = FFT[c % FtSize] /\ x = TermOf(r, m, Holder(r, c), p)
  <2>1. PICK c \in MatrixRow(r, m) : \E y \in Received(r)[c] : x = W(y)
    BY <1>2, <1>5
  <2>2. PICK y \in Received(r)[c] : x = W(y)
    BY <2>1
  <2>3. PICK p \in Pixels : /\ Padded(p) = FFT[c % FtSize]
                            /\ y = [pixel |-> p, image |-> Holder(r, c), w |-> Chirp(Holder(r, c))]
    BY <1>3, <2>2
  <2>4. x = TermOf(r, m, Holder(r, c), p)
    BY <1>4, <2>2, <2>3
  <2> QED
    BY <2>3, <2>4
<1>6. ASSUME NEW c \in MatrixRow(r, m), NEW p \in Pixels, Padded(p) = FFT[c % FtSize],
             x = TermOf(r, m, Holder(r, c), p)
      PROVE  x \in DirectOf(r)[m]
  <2> DEFINE y == [pixel |-> p, image |-> Holder(r, c), w |-> Chirp(Holder(r, c))]
  <2>1. y \in Received(r)[c]
    BY <1>3, <1>6
  <2>2. x = W(y)
    BY <1>4, <1>6
  <2> HIDE DEF y
  <2> QED
    BY <1>2, <2>1, <2>2
<1> QED
  BY <1>5, <1>6

\* A rank that is done has its visibilities and its image.
LEMMA DoneRanks ==
  ASSUME OperatorInv, NEW r \in Ranks, pc[r] = "done"
  PROVE  Given /\ ~BadIndex(r) /\ direct[r] = DirectOf(r) /\ image[r] = ImageOf(r)
<1>1. Given /\ Progress(r) /\ Computed(r)
  BY InvParts
<1>2. done[r] = Len(Calls) /\ ~BadIndex(r)
  BY <1>1 DEF Progress
<1>3. done[r] >= DirectCall
  BY <1>1, <1>2, CallsKnown, CallNumbers, Kinds DEF DirectCall, OwnImage
<1> QED
  BY <1>1, <1>2, <1>3 DEF Computed

\* "Serial vs Distributed Operator": whatever the distribution, every visibility is
\* computed from exactly the pixels that the operator of a single process reads for it.
THEOREM DistributedIsSerial == Spec => []SameAsSerial
<1>1. ASSUME OperatorInv PROVE SameAsSerial
  <2> SUFFICES ASSUME NEW r \in Ranks, pc[r] = "done", NEW m \in Rows(r)
               PROVE  {x.pixel : x \in direct[r][m]}
                        = {p \in Pixels : \E c \in MatrixRow(r, m) : FFT[c % FtSize] = Padded(p)}
    BY DEF SameAsSerial
  <2>1. Given /\ ~BadIndex(r) /\ direct[r] = DirectOf(r)
    BY <1>1, DoneRanks
  <2>2. \A x : x \in direct[r][m]
                 <=> \E c \in MatrixRow(r, m) : \E p \in Pixels :
                       Padded(p) = FFT[c % FtSize] /\ x = TermOf(r, m, Holder(r, c), p)
    BY <2>1, DegriddedTerms
  <2>3. \A h, p : TermOf(r, m, h, p).pixel = p
    BY DEF TermOf
  <2> QED
    BY <2>2, <2>3
<1> QED
  BY <1>1, OperatorInvAlways, PTL

\* The chirp of the image a visibility is on and its kernel add up to its w-term.
LEMMA WTermsAddUp ==
  ASSUME Given, Projects, NEW r \in Ranks, ~BadIndex(r), NEW m \in Rows(r),
         NEW c \in MatrixRow(r, m)
  PROVE  Chirp(Holder(r, c)) + KernelW(r, m) = vis[r][m].w
<1>1. RowShape(r, m) /\ vis[r][m].w \in Int
  BY RowsHaveShape, GivenRows
<1>2. MeanW(r) \in Int /\ Chirp(Holder(r, c)) \in Int
  BY <1>1, WTermsAreNumbers DEF RowShape
<1>3. \A a, b \in Int : a + (b - a) = b
  OBVIOUS
<1>4. CASE Distribution = "all_to_all"
  <2>1. Holder(r, c) = vis[r][m].image /\ ~OwnImage
    BY <1>1, <1>4, Kinds DEF RowShape
  <2> DEFINE a == IF choice.stacking THEN w_stacks[vis[r][m].image] ELSE 0
  <2>2. Chirp(Holder(r, c)) = a
    BY <1>4, <2>1 DEF Chirp, TakesMean
  <2>3. KernelW(r, m) = vis[r][m].w - a
    BY <1>4 DEF KernelW, StackKernelW
  <2>4. a \in Int
    BY <1>2, <2>2
  <2> HIDE DEF a
  <2> QED
    BY <1>1, <1>3, <2>2, <2>3, <2>4
<1>5. CASE Distribution # "all_to_all"
  <2>1. OwnImage
    BY <1>5, CallsKnown, Kinds DEF OwnImage
  <2>2. Holder(r, c) = r
    BY <2>1 DEF Holder
  <2> DEFINE a == IF choice.stacking THEN MeanW(r) ELSE 0
  <2>3. Chirp(r) = a
    <3>1. TakesMean = (OwnImage /\ choice.stacking)
      BY DEF TakesMean, TakesMeanArrayFire
    <3> QED
      BY <1>5, <2>1, <3>1 DEF Chirp
  <2>4. KernelW(r, m) = vis[r][m].w - a
    BY <1>5 DEF KernelW, MeanKernelW
  <2>5. a \in Int
    BY <1>2
  <2> HIDE DEF a
  <2> QED
    BY <1>1, <1>3, <2>2, <2>3, <2>4, <2>5
<1> QED
  BY <1>4, <1>5

\* With w-projection, the chirp of the image and the kernel of a visibility together apply
\* its w-term in full, also where the image lies on another rank than the visibility.
THEOREM WTermsApplied == Spec => []WTermComplete
<1>1. ASSUME OperatorInv PROVE WTermComplete
  <2> SUFFICES ASSUME NEW r \in Ranks, Projects, pc[r] = "done", NEW m \in Rows(r),
                      NEW x \in direct[r][m]
               PROVE  x.w = vis[r][m].w
    BY DEF WTermComplete
  <2>1. Given /\ ~BadIndex(r) /\ direct[r] = DirectOf(r)
    BY <1>1, DoneRanks
  <2>2. PICK c \in MatrixRow(r, m) : \E p \in Pixels : x = TermOf(r, m, Holder(r, c), p)
    BY <2>1, DegriddedTerms
  <2>3. x.w = Chirp(Holder(r, c)) + KernelW(r, m)
    BY <2>2 DEF TermOf
  <2> QED
    BY <2>1, <2>3, WTermsAddUp
<1> QED
  BY <1>1, OperatorInvAlways, PTL

(***************************************************************************)
(* The adjoint.                                                            *)
(***************************************************************************)

\* The ranks whose images make up that of rank q, and those whose visibilities come back.
Holders(q) ==
  IF Distribution = "serial" THEN {q} ELSE IF Distribution = "grid" THEN {Root} ELSE Ranks
Sources(q) == IF Distribution = "serial" THEN {q} ELSE Ranks

\* What row m of rank s contributes by way of the image on rank h.
BackTerm(s, m, h) == [rank |-> s, row |-> m, image |-> h, w |-> -(Chirp(h) + KernelW(s, m))]

\* The chirp is a number and is undone, as IsAdjoint asks for.
Undone == \A s \in Ranks : ~NotANumber(s) /\ (choice.gpu => Chirp(s) = 0)

\* No visibility of the ranks lies on an image out of bounds.
InBounds(q) == \A s \in Sources(q) : s \in Ranks /\ ~BadIndex(s)

\* The ranks that give to an image, and the cells they use of it.
LEMMA GiversUse ==
  ASSUME Given, NEW q \in Ranks, InBounds(q), NEW h \in Holders(q)
  PROVE  /\ h \in Ranks /\ Givers(h) \subseteq Sources(q)
         /\ \A s \in Givers(h) : \A m \in Rows(s) : \A d \in Cells :
              Column(h, d) \in MatrixRow(s, m) => /\ Holder(s, Column(h, d)) = h
                                                  /\ Column(h, d) % FtSize = d
<1>1. Distribution \in {"serial", "image", "grid", "all_to_all"} /\ Root \in Ranks
  BY CallsKnown, Kinds
<1>2. h \in Ranks
  BY <1>1 DEF Holders
<1>3. Givers(h) \subseteq Sources(q)
  BY <1>1, <1>2 DEF Givers, Sources, Holders, OwnImage
<1>4. ASSUME NEW s \in Givers(h), NEW m \in Rows(s), NEW d \in Cells,
             Column(h, d) \in MatrixRow(s, m)
      PROVE  Holder(s, Column(h, d)) = h /\ Column(h, d) % FtSize = d
  <2>1. s \in Sources(q) /\ s \in Ranks /\ ~BadIndex(s)
    BY <1>3 DEF InBounds
  <2>2. CASE Distribution = "all_to_all"
    <3> DEFINE n == FtSize
    <3>1. n \in Nat /\ n > 0 /\ d \in 0 .. n-1 /\ h \in Int
      BY <1>2, GridSizes DEF Cells, Ranks
    <3>2. Column(h, d) = h * n + d
      BY <2>2 DEF Column
    <3> HIDE DEF n
    <3>3. h * n + d = d + h * n
      <4>1. h * n \in Int /\ d \in Int
        BY <3>1
      <4> QED
        BY <4>1
    <3>4. (d + h * n) % n = d /\ (d + h * n) \div n = h
      BY <3>1, PlaceAndBack
    <3>5. Holder(s, Column(h, d)) = Column(h, d) \div n
      BY <2>2, Kinds DEF Holder, n
    <3> QED
      BY <3>2, <3>3, <3>4, <3>5 DEF n
  <2>3. CASE Distribution # "all_to_all"
    <3>1. Column(h, d) = d
      BY <2>3 DEF Column
    <3>2. d % FtSize = d
      BY CellInGrid
    <3>3. Holder(s, d) = h
      <4>1. CASE OwnImage
        BY <4>1 DEF Holder, Givers
      <4>2. CASE ~OwnImage
        <5>1. Distribution = "grid"
          BY <1>1, <2>3, <4>2 DEF OwnImage
        <5> QED
          BY <4>2, <5>1 DEF Holder, Holders
      <4> QED
        BY <4>1, <4>2
    <3> QED
      BY <3>1, <3>2, <3>3
  <2> QED
    BY <2>2, <2>3
<1> QED
  BY <1>2, <1>3, <1>4

\* The other way round: what a row of a source reads lies on an image of a holder.
LEMMA SourcesUse ==
  ASSUME Given, NEW q \in Ranks, InBounds(q), NEW s \in Sources(q), NEW m \in Rows(s),
         NEW c \in MatrixRow(s, m)
  PROVE  /\ Holder(s, c) \in Holders(q) /\ s \in Givers(Holder(s, c)) /\ c % FtSize \in Cells
         /\ Column(Holder(s, c), c % FtSize) = c
<1>1. s \in Ranks /\ ~BadIndex(s)
  BY DEF InBounds
<1>2. RowShape(s, m)
  BY <1>1, RowsHaveShape
<1>3. Distribution \in {"serial", "image", "grid", "all_to_all"}
  BY CallsKnown
<1>4. Holder(s, c) \in Holders(q)
  <2>1. Distribution = "serial" => Holder(s, c) = s /\ s = q
    BY DEF Holder, Sources, OwnImage
  <2>2. Distribution = "grid" => Holder(s, c) = Root
    BY Kinds DEF Holder
  <2>3. Holder(s, c) \in Ranks
    BY <1>2 DEF RowShape
  <2> QED
    BY <2>1, <2>2, <2>3 DEF Holders
<1>5. s \in Givers(Holder(s, c))
  BY <1>1 DEF Givers, Holder
<1> QED
  BY <1>2, <1>4, <1>5 DEF RowShape

\* What a giver's visibilities add to a cell.
LEMMA ContributedTerms ==
  ASSUME NEW h, NEW d, NEW z
  PROVE  z \in Contributions(h, d)
           <=> \E s \in Givers(h) : \E m \in Rows(s) :
                 Column(h, d) \in MatrixRow(s, m) /\ z = [rank |-> s, row |-> m, w |-> -KernelW(s, m)]
<1> DEFINE c == Column(h, d)
<1>1. \A s : c \in Columns(s) => Gridded(s)[c]
        = {[rank |-> s, row |-> m, w |-> -KernelW(s, m)] : m \in {n \in Rows(s) : c \in MatrixRow(s, n)}}
  BY DEF Gridded, Columns
<1>2. \A s : c \in Columns(s) <=> \E m \in Rows(s) : c \in MatrixRow(s, m)
  BY DEF Columns
<1>3. Contributions(h, d) = UNION {Gridded(s)[c] : s \in {t \in Givers(h) : c \in Columns(t)}}
  BY DEF Contributions
<1> HIDE DEF c
<1>4. z \in Contributions(h, d) <=> \E s \in Givers(h) : c \in Columns(s) /\ z \in Gridded(s)[c]
  BY <1>3
<1>5. \A s : c \in Columns(s) =>
        (z \in Gridded(s)[c]
           <=> \E m \in Rows(s) : c \in MatrixRow(s, m) /\ z = [rank |-> s, row |-> m, w |-> -KernelW(s, m)])
  BY <1>1
<1>6. z \in Contributions(h, d)
        <=> \E s \in Givers(h) : \E m \in Rows(s) :
              c \in MatrixRow(s, m) /\ z = [rank |-> s, row |-> m, w |-> -KernelW(s, m)]
  BY <1>2, <1>4, <1>5
<1> QED
  BY <1>6 DEF c

\* The image on rank h is made of what the visibilities of its givers contribute to the
\* cells of the pixel, with the conjugate of the chirp.
LEMMA PartTerms ==
  ASSUME Given, Undone, NEW h \in Ranks, \A s \in Givers(h) : s \in Ranks /\ ~BadIndex(s),
         NEW p \in Pixels, NEW y
  PROVE  y \in PartOf(h)[p]
           <=> \E s \in Givers(h) : \E m \in Rows(s) : \E d \in Cells :
                 FFT[d] = Padded(p) /\ Column(h, d) \in MatrixRow(s, m) /\ y = BackTerm(s, m, h)
<1> DEFINE k == IF choice.gpu THEN Chirp(h) ELSE -Chirp(h)
           g == [d \in Cells |-> Contributions(h, d)]
           V(z) == [rank |-> z.rank, row |-> z.row, image |-> h, w |-> z.w + k]
           Z(s, m) == [rank |-> s, row |-> m, w |-> -KernelW(s, m)]
<1>1. Chirp(h) \in Int /\ ~NotANumber(h) /\ (choice.gpu => Chirp(h) = 0)
  BY WTermsAreNumbers DEF Undone
<1>2. k \in Int /\ k + Chirp(h) = 0
  <2>1. choice.gpu => k = Chirp(h)
    OBVIOUS
  <2>2. ~choice.gpu => k = -Chirp(h)
    OBVIOUS
  <2>3. \A a \in Int : -a \in Int /\ (-a) + a = 0
    OBVIOUS
  <2> HIDE DEF k
  <2>4. CASE choice.gpu
    BY <1>1, <2>1, <2>4
  <2>5. CASE ~choice.gpu
    BY <1>1, <2>2, <2>3, <2>5
  <2> QED
    BY <2>4, <2>5
<1>3. PartOf(h)[p] = UNION {{V(z) : z \in g[c]} : c \in Backward(Padded(p))}
  BY <1>1 DEF PartOf, Unpadded, AdjointChirpArrayFire
<1>4. ASSUME NEW s \in Givers(h), NEW m \in Rows(s)
      PROVE  V(Z(s, m)) = BackTerm(s, m, h)
  <2> DEFINE a == Chirp(h)
             b == KernelW(s, m)
  <2>1. a \in Int /\ b \in Int
    BY <1>1, WTermsAreNumbers
  <2>2. V(Z(s, m)) = [rank |-> s, row |-> m, image |-> h, w |-> (-b) + k] /\ k \in Int /\ k + a = 0
    BY <1>2
  <2>3. BackTerm(s, m, h) = [rank |-> s, row |-> m, image |-> h, w |-> -(a + b)]
    BY DEF BackTerm
  <2> HIDE DEF a, b, V, Z, k
  <2>4. (-b) + k = -(a + b)
    BY <2>1, <2>2
  <2> QED
    BY <2>2, <2>3, <2>4
<1>5. \A c \in Backward(Padded(p)) : c \in Cells /\ FFT[c] = Padded(p)
  BY DEF Backward
<1>6. \A d \in Cells : FFT[d] = Padded(p) => d \in Backward(Padded(p))
  BY DEF Backward
<1>7. \A d \in Cells : \A z : z \in g[d]
        <=> \E s \in Givers(h) : \E m \in Rows(s) : Column(h, d) \in MatrixRow(s, m) /\ z = Z(s, m)
  BY ContributedTerms
<1> HIDE DEF V, Z, k, g
<1>8. ASSUME y \in PartOf(h)[p]
      PROVE  \E s \in Givers(h) : \E m \in Rows(s) : \E d \in Cells :
               FFT[d] = Padded(p) /\ Column(h, d) \in MatrixRow(s, m) /\ y = BackTerm(s, m, h)
  <2>1. PICK d \in Backward(Padded(p)) : \E z \in g[d] : y = V(z)
    BY <1>3, <1>8
  <2>2. PICK z \in g[d] : y = V(z)
    BY <2>1
  <2>3. d \in Cells /\ FFT[d] = Padded(p)
    BY <1>5
  <2>4. PICK s \in Givers(h) : \E m \in Rows(s) : Column(h, d) \in MatrixRow(s, m) /\ z = Z(s, m)
    BY <1>7, <2>3
  <2>5. PICK m \in Rows(s) : Column(h, d) \in MatrixRow(s, m) /\ z = Z(s, m)
    BY <2>4
  <2>6. y = BackTerm(s, m, h)
    BY <1>4, <2>2, <2>5
  <2> QED
    BY <2>3, <2>5, <2>6
<1>9. ASSUME NEW s \in Givers(h), NEW m \in Rows(s), NEW d \in Cells,
             FFT[d] = Padded(p), Column(h, d) \in MatrixRow(s, m), y = BackTerm(s, m, h)
      PROVE  y \in PartOf(h)[p]
  <2>1. Z(s, m) \in g[d] /\ y = V(Z(s, m)) /\ d \in Backward(Padded(p))
    BY <1>4, <1>6, <1>7, <1>9
  <2> QED
    BY <1>3, <2>1
<1> QED
  BY <1>8, <1>9

\* The image of a rank: the parts of the holders.
LEMMA ImageIsParts ==
  ASSUME Given, NEW q \in Ranks, NEW p \in Pixels
  PROVE  ImageOf(q)[p] = UNION {PartOf(h)[p] : h \in Holders(q)}
<1>1. CASE Distribution = "serial"
  <2>1. ImageOf(q) = PartOf(q) /\ Holders(q) = {q}
    BY <1>1 DEF ImageOf, Holders
  <2>2. {PartOf(h)[p] : h \in {q}} = {PartOf(q)[p]}
    OBVIOUS
  <2> QED
    BY <2>1, <2>2
<1>2. CASE Distribution = "grid"
  <2>1. ImageOf(q) = PartOf(Root) /\ Holders(q) = {Root}
    BY <1>2 DEF ImageOf, Holders
  <2>2. {PartOf(h)[p] : h \in {Root}} = {PartOf(Root)[p]}
    OBVIOUS
  <2> QED
    BY <2>1, <2>2
<1>3. CASE Distribution # "serial" /\ Distribution # "grid"
  BY <1>3 DEF ImageOf, Holders
<1> QED
  BY <1>1, <1>2, <1>3

\* When a rank is done, the others have the visibilities that came into its image.
LEMMA SourcesHaveDegridded ==
  ASSUME OperatorInv, NEW q \in Ranks, pc[q] = "done"
  PROVE  InBounds(q) /\ \A s \in Sources(q) : direct[s] = DirectOf(s)
<1>1. Given /\ Counts /\ Together /\ \A s \in Ranks : Progress(s) /\ Computed(s)
  BY InvParts
<1>2. done[q] = Len(Calls) /\ Root \in Ranks
  BY <1>1, Kinds DEF Progress
<1>3. Distribution \in {"serial", "image", "grid", "all_to_all"}
  BY <1>1, CallsKnown
<1>4. ASSUME NEW s \in Sources(q)
      PROVE  s \in Ranks /\ ~BadIndex(s) /\ direct[s] = DirectOf(s)
  <2>1. s \in Ranks
    BY DEF Sources
  <2>2. CASE Distribution = "serial"
    <3>1. s = q
      BY <2>2 DEF Sources
    <3> QED
      BY <3>1, DoneRanks
  <2>3. CASE Distribution # "serial"
    <3>1. posted[s] \in Nat /\ done[s] \in Nat /\ posted[s] <= done[s] + 1
      BY <1>1, <2>1 DEF Counts
    <3>2. posted[s] # 0 /\ done[s] >= DirectCall
      <4>1. CASE Distribution = "image"
        <5>1. Len(Calls) = 1 /\ DirectCall = 0 /\ posted[s] >= done[q]
          BY <1>1, <2>1, <4>1, CallNumbers DEF Together, DirectCall, OwnImage
        <5> QED
          BY <1>2, <3>1, <5>1
      <4>2. CASE Distribution = "all_to_all"
        <5>1. Len(Calls) = 4 /\ DirectCall = 2 /\ posted[s] >= done[q]
          BY <1>1, <2>1, <4>2, CallNumbers, Kinds DEF Together, DirectCall
        <5> QED
          BY <1>2, <3>1, <5>1
      <4>3. CASE Distribution = "grid"
        <5>1. Len(Calls) = 5 /\ DirectCall = 3
          BY <1>1, <4>3, CallNumbers, Kinds DEF DirectCall
        <5>2. posted[Root] >= 5
          <6>1. done[q] >= 5
            BY <1>2, <5>1
          <6> QED
            BY <1>1, <4>3, <6>1 DEF Together
        <5>3. done[Root] >= 4
          BY <1>1, <1>2, <5>2 DEF Counts
        <5>4. posted[s] >= 4
          BY <1>1, <2>1, <4>3, <5>3 DEF Together
        <5> QED
          BY <3>1, <5>1, <5>4
      <4> QED
        BY <1>3, <2>3, <4>1, <4>2, <4>3
    <3>3. pc[s] \in {"calls", "done"}
      BY <1>1, <2>1, <3>2 DEF Progress
    <3>4. ~BadIndex(s)
      BY <1>1, <2>1, <3>3 DEF Progress
    <3>5. direct[s] = DirectOf(s)
      BY <1>1, <2>1, <3>2, <3>3 DEF Computed
    <3> QED
      BY <2>1, <3>4, <3>5
  <2> QED
    BY <2>1, <2>2, <2>3
<1> QED
  BY <1>4 DEF InBounds

\* What the adjoint should return, term by term.
LEMMA ExpectedTerms ==
  ASSUME Given, NEW q \in Ranks, InBounds(q), \A s \in Sources(q) : direct[s] = DirectOf(s),
         NEW p \in Pixels, NEW y
  PROVE  y \in Expected(q, p)
           <=> \E s \in Sources(q) : \E m \in Rows(s) : \E c \in MatrixRow(s, m) :
                 FFT[c % FtSize] = Padded(p) /\ y = BackTerm(s, m, Holder(s, c))
<1> DEFINE B(s, m, x) == [rank |-> s, row |-> m, image |-> x.image, w |-> -x.w]
<1>1. Expected(q, p) = UNION {UNION {{B(s, m, x) : x \in {z \in direct[s][m] : z.pixel = p}} :
                                       m \in Rows(s)} : s \in Sources(q)}
  BY DEF Expected, Sources
<1>2. y \in Expected(q, p)
        <=> \E s \in Sources(q) : \E m \in Rows(s) : \E x \in direct[s][m] :
              x.pixel = p /\ y = B(s, m, x)
  <2> HIDE DEF B
  <2> QED
    BY <1>1
<1>3. ASSUME NEW s \in Sources(q), NEW m \in Rows(s), NEW x
      PROVE  x \in direct[s][m]
               <=> \E c \in MatrixRow(s, m) : \E n \in Pixels :
                     Padded(n) = FFT[c % FtSize] /\ x = TermOf(s, m, Holder(s, c), n)
  <2>1. s \in Ranks /\ ~BadIndex(s) /\ direct[s] = DirectOf(s)
    BY DEF InBounds
  <2> QED
    BY <2>1, DegriddedTerms
<1>4. \A s, m, h, n : TermOf(s, m, h, n).pixel = n /\ B(s, m, TermOf(s, m, h, n)) = BackTerm(s, m, h)
  BY DEF TermOf, BackTerm
<1> HIDE DEF B
<1>5. ASSUME NEW s \in Sources(q), NEW m \in Rows(s), NEW x \in direct[s][m], x.pixel = p, y = B(s, m, x)
      PROVE  \E c \in MatrixRow(s, m) : FFT[c % FtSize] = Padded(p) /\ y = BackTerm(s, m, Holder(s, c))
  <2>1. PICK c \in MatrixRow(s, m) : \E n \in Pixels :
               Padded(n) = FFT[c % FtSize] /\ x = TermOf(s, m, Holder(s, c), n)
    BY <1>3
  <2>2. PICK n \in Pixels : Padded(n) = FFT[c % FtSize] /\ x = TermOf(s, m, Holder(s, c), n)
    BY <2>1
  <2>3. n = p
    BY <1>4, <1>5, <2>2
  <2> QED
    BY <1>4, <1>5, <2>2, <2>3
<1>6. ASSUME NEW s \in Sources(q), NEW m \in Rows(s), NEW c \in MatrixRow(s, m),
             FFT[c % FtSize] = Padded(p), y = BackTerm(s, m, Holder(s, c))
      PROVE  \E x \in direct[s][m] : x.pixel = p /\ y = B(s, m, x)
  <2> DEFINE x == TermOf(s, m, Holder(s, c), p)
  <2>1. x \in direct[s][m]
    BY <1>3, <1>6
  <2>2. x.pixel = p /\ y = B(s, m, x)
    BY <1>4, <1>6
  <2> HIDE DEF x
  <2> QED
    BY <2>1, <2>2
<1> QED
  BY <1>2, <1>5, <1>6

\* adjoint() goes back the way of the application.
LEMMA AdjointOfDone ==
  ASSUME OperatorInv, NEW q \in Ranks, pc[q] = "done", Undone, NEW p \in Pixels
  PROVE  image[q][p] = Expected(q, p)
<1>1. Given /\ image[q] = ImageOf(q)
  BY DoneRanks
<1>2. InBounds(q) /\ \A s \in Sources(q) : direct[s] = DirectOf(s)
  BY SourcesHaveDegridded
<1>3. image[q][p] = UNION {PartOf(h)[p] : h \in Holders(q)}
  BY <1>1, ImageIsParts
<1>4. ASSUME NEW h \in Holders(q), NEW y
      PROVE  y \in PartOf(h)[p]
               <=> \E s \in Givers(h) : \E m \in Rows(s) : \E d \in Cells :
                     FFT[d] = Padded(p) /\ Column(h, d) \in MatrixRow(s, m) /\ y = BackTerm(s, m, h)
  <2>1. h \in Ranks /\ Givers(h) \subseteq Sources(q)
    BY <1>1, <1>2, GiversUse
  <2>2. \A s \in Givers(h) : s \in Ranks /\ ~BadIndex(s)
    BY <1>2, <2>1 DEF InBounds
  <2> QED
    BY <1>1, <2>1, <2>2, PartTerms
<1>5. ASSUME NEW h \in Holders(q), NEW y \in PartOf(h)[p]
      PROVE  y \in Expected(q, p)
  <2>1. PICK s \in Givers(h) : \E m \in Rows(s) : \E d \in Cells :
               FFT[d] = Padded(p) /\ Column(h, d) \in MatrixRow(s, m) /\ y = BackTerm(s, m, h)
    BY <1>4
  <2>2. PICK m \in Rows(s) : \E d \in Cells :
               FFT[d] = Padded(p) /\ Column(h, d) \in MatrixRow(s, m) /\ y = BackTerm(s, m, h)
    BY <2>1
  <2>3. PICK d \in Cells : /\ FFT[d] = Padded(p) /\ Column(h, d) \in MatrixRow(s, m)
                           /\ y = BackTerm(s, m, h)
    BY <2>2
  <2>4. /\ s \in Sources(q) /\ Holder(s, Column(h, d)) = h /\ Column(h, d) % FtSize = d
    BY <1>1, <1>2, <2>3, GiversUse
  <2> QED
    BY <1>1, <1>2, <2>3, <2>4, ExpectedTerms
<1>6. ASSUME NEW y \in Expected(q, p)
      PROVE  \E h \in Holders(q) : y \in PartOf(h)[p]
  <2>1. PICK s \in Sources(q) : \E m \in Rows(s) : \E c \in MatrixRow(s, m) :
               FFT[c % FtSize] = Padded(p) /\ y = BackTerm(s, m, Holder(s, c))
    BY <1>1, <1>2, ExpectedTerms
  <2>2. PICK m \in Rows(s) : \E c \in MatrixRow(s, m) :
               FFT[c % FtSize] = Padded(p) /\ y = BackTerm(s, m, Holder(s, c))
    BY <2>1
  <2>3. PICK c \in MatrixRow(s, m) : /\ FFT[c % FtSize] = Padded(p)
                                     /\ y = BackTerm(s, m, Holder(s, c))
    BY <2>2
  <2>4. /\ Holder(s, c) \in Holders(q) /\ s \in Givers(Holder(s, c)) /\ c % FtSize \in Cells
        /\ Column(Holder(s, c), c % FtSize) = c
    BY <1>1, <1>2, SourcesUse
  <2>5. y \in PartOf(Holder(s, c))[p]
    BY <1>4, <2>3, <2>4
  <2> QED
    BY <2>4, <2>5
<1>7. \A y : y \in UNION {PartOf(h)[p] : h \in Holders(q)} <=> y \in Expected(q, p)
  BY <1>5, <1>6
<1>8. Expected(q, p) = UNION {PartOf(h)[p] : h \in Holders(q)}
  <2> DEFINE A == UNION {PartOf(h)[p] : h \in Holders(q)}
             B == Expected(q, p)
             E(s) == UNION {{[rank |-> s, row |-> m, image |-> x.image, w |-> -x.w] :
                               x \in {z \in direct[s][m] : z.pixel = p}} : m \in Rows(s)}
  <2>1. \A y : y \in A <=> y \in B
    BY <1>7
  <2>2. B = UNION {E(s) : s \in Sources(q)}
    BY DEF Expected, Sources
  <2> HIDE DEF A, B, E
  <2>3. B = A
    BY <2>1
  <2> QED
    BY <2>3 DEF A, B
<1> QED
  BY <1>3, <1>8

\* Whatever the distribution, "adjoint()" is the adjoint of the application, for every
\* number of ranks, every image, kernel and share of the visibilities.
THEOREM AdjointIsAdjoint == Spec => []IsAdjoint
<1>1. ASSUME OperatorInv PROVE IsAdjoint
  <2> SUFFICES ASSUME NEW q \in Ranks, pc[q] = "done", Undone
               PROVE  \A p \in Pixels : image[q][p] = Expected(q, p)
    BY DEF IsAdjoint, Undone
  <2> QED
    BY <1>1, AdjointOfDone
<1> QED
  BY <1>1, OperatorInvAlways, PTL
==============================================================================
