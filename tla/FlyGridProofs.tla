----------------------------- MODULE FlyGridProofs -----------------------------
(***************************************************************************)
(* Proofs about FlyGrid for every number of visibilities and threads, all  *)
(* coordinates and grids: the threads never interfere, every cell ends     *)
(* with each of its contributions once, gridding is the adjoint of         *)
(* degridding, and on an even grid the operator without a matrix is the    *)
(* gridding matrix.                                                        *)
(***************************************************************************)
EXTENDS FlyGrid, Lists

(***************************************************************************)
(* The cells.                                                              *)
(***************************************************************************)

\* All cells with a contribution: what the set-up inserts into nonZeros_set.
AllCells == {Index(m, tap) : m \in Rows, tap \in Taps(ju_max, jv_max)}

InputTypes == uv \in [Rows -> Coordinates] /\ image \in [Rows -> 0 .. Images-1]

LEMMA Sizes ==
  /\ ftsizeu \in Nat /\ ftsizeu > 0 /\ ftsizev \in Nat /\ ftsizev > 0
  /\ ju_max \in Nat /\ jv_max \in Nat /\ FtSize \in Int
<1>1. /\ ftsizeu \in Nat /\ ftsizeu > 0 /\ ftsizev \in Nat /\ ftsizev > 0 /\ Ju \in Nat
  BY GridAssumption
<1> QED
  BY <1>1 DEF ju_max, jv_max, Smaller, FtSize

\* A tap of a visibility is a pair of numbers, and its cell a number.
LEMMA CellsAreNumbers ==
  ASSUME InputTypes, NEW m \in Rows, NEW tap \in Taps(ju_max, jv_max)
  PROVE  /\ uv[m][1] \in Int /\ uv[m][2] \in Int /\ tap[1] \in Int /\ tap[2] \in Int
         /\ Index(m, tap) \in Int
<1>1. uv[m] \in Int \X Int
  BY CoordinatesAssumption DEF InputTypes
<1>2. tap \in (1 .. ju_max) \X (1 .. jv_max)
  BY DEF Taps
<1>3. uv[m][1] \in Int /\ uv[m][2] \in Int /\ tap[1] \in Int /\ tap[2] \in Int
  BY <1>1, <1>2, Sizes
<1>4. FirstTap(uv[m][1], ju_max) \in Int /\ FirstTap(uv[m][2], jv_max) \in Int
  BY <1>3, Sizes DEF FirstTap
<1>5. /\ mod(FirstTap(uv[m][2], jv_max) + tap[2], ftsizev) \in Int
      /\ mod(FirstTap(uv[m][1], ju_max) + tap[1], ftsizeu) \in Int
  BY <1>3, <1>4, Sizes DEF mod
<1>6. TapCell(uv[m][1], uv[m][2], ju_max, jv_max, tap, ftsizev, ftsizeu) \in Int
  BY <1>5, Sizes DEF TapCell, sub2ind
<1>7. image[m] \in Int
  BY ImagesAssumption DEF InputTypes
<1>8. (IF kind = "all_to_all" THEN image[m] * FtSize ELSE 0) \in Int
  BY <1>7, Sizes
<1> QED
  BY <1>3, <1>6, <1>8 DEF Index

\* Finitely many visibilities touch finitely many cells.
LEMMA CellsFinite ==
  ASSUME InputTypes
  PROVE  AllCells \in SUBSET Int /\ IsFiniteSet(AllCells)
<1> DEFINE pairs == Rows \X Taps(ju_max, jv_max)
           cell == [p \in pairs |-> Index(p[1], p[2])]
<1>1. AllCells \in SUBSET Int
  BY CellsAreNumbers DEF AllCells
<1>2. IsFiniteSet(1 .. ju_max) /\ IsFiniteSet(1 .. jv_max)
  BY Sizes, FS_Interval
<1>3. IsFiniteSet(Taps(ju_max, jv_max))
  BY <1>2, FS_Product DEF Taps
<1>4. IsFiniteSet(pairs)
  BY <1>3, RowsAssumption, FS_Product
<1>5. cell \in [pairs -> AllCells]
  BY DEF AllCells
<1>6. \A c \in AllCells : \E p \in pairs : cell[p] = c
  <2> SUFFICES ASSUME NEW c \in AllCells
               PROVE  \E p \in pairs : cell[p] = c
    OBVIOUS
  <2>1. PICK m \in Rows, tap \in Taps(ju_max, jv_max) : c = Index(m, tap)
    BY DEF AllCells
  <2>2. <<m, tap>> \in pairs /\ cell[<<m, tap>>] = c
    BY <2>1
  <2> QED
    BY <2>2
<1>7. cell \in Surjection(pairs, AllCells)
  BY <1>5, <1>6 DEF Surjection
<1> QED
  BY <1>1, <1>4, <1>7, FS_Surjection

(***************************************************************************)
(* What the set-up and degridding leave behind.                            *)
(***************************************************************************)

SetupInv ==
  /\ InputTypes
  /\ pc = "setup" => nonZeros = <<>>
  /\ pc # "setup" => nonZeros = Ordered(AllCells)
  /\ pc \notin {"setup", "ready"} => degridded = [m \in Rows |-> Reads(m)]

LEMMA SetupInvInit == Init => SetupInv
<1> SUFFICES ASSUME Init PROVE SetupInv
  OBVIOUS
<1>1. (IF kind = "all_to_all" THEN 0 .. Images-1 ELSE {0}) \subseteq 0 .. Images-1
  BY ImagesAssumption
<1> QED
  BY <1>1 DEF Init, SetupInv, InputTypes

\* What every action but the set-up and degridding keeps.
Settled == UNCHANGED <<kind, uv, image, nonZeros, degridded>>

LEMMA SetupInvKept ==
  ASSUME SetupInv, Settled, pc' = pc \/ {pc, pc'} \cap {"setup", "ready"} = {}
  PROVE  SetupInv'
<1>1. /\ kind' = kind /\ uv' = uv /\ image' = image /\ nonZeros' = nonZeros
      /\ degridded' = degridded
  BY DEF Settled
<1>2. InputTypes' /\ AllCells' = AllCells
  BY <1>1 DEF SetupInv, InputTypes, AllCells, Index
<1>3. [m \in Rows |-> Reads(m)]' = [m \in Rows |-> Reads(m)]
  BY <1>1 DEF Reads, Mapping, Index, Coefficient
<1>4. pc # "setup" => nonZeros = Ordered(AllCells)
  BY DEF SetupInv
<1>5. pc' # "setup" => nonZeros' = Ordered(AllCells')
  BY <1>1, <1>2, <1>4
<1>6. pc' \notin {"setup", "ready"} => degridded' = [m \in Rows |-> Reads(m)]'
  BY <1>1, <1>3 DEF SetupInv
<1>7. pc' = "setup" => nonZeros' = <<>>
  BY <1>1 DEF SetupInv
<1> QED
  BY <1>2, <1>5, <1>6, <1>7 DEF SetupInv

LEMMA SetupInvNext == SetupInv /\ [Next]_vars => SetupInv'
<1> SUFFICES ASSUME SetupInv, [Next]_vars PROVE SetupInv'
  OBVIOUS
<1>1. CASE Setup
  BY <1>1 DEF Setup, SetupInv, InputTypes, AllCells, Index
<1>2. CASE Degrid
  BY <1>2 DEF Degrid, SetupInv, InputTypes, AllCells, Index, Reads, Mapping, Coefficient
<1>3. CASE StartGrid
  BY <1>3, SetupInvKept DEF StartGrid, Settled
<1>4. CASE SumSegments
  BY <1>4, SetupInvKept DEF SumSegments, Settled
<1>5. CASE FillGrid
  BY <1>5, SetupInvKept DEF FillGrid, Settled
<1>6. CASE HandOver
  BY <1>6, SetupInvKept DEF HandOver, Settled
<1>7. ASSUME NEW t \in ThreadIds, ThreadStep(t)
      PROVE  SetupInv'
  <2>1. Settled /\ pc' = pc
    BY <1>7 DEF ThreadStep, Take, Load, Store, EndRow, Settled
  <2> QED
    BY <2>1, SetupInvKept
<1>8. CASE UNCHANGED vars
  BY <1>8, SetupInvKept DEF vars, Settled
<1> QED
  BY <1>1, <1>2, <1>3, <1>4, <1>5, <1>6, <1>7, <1>8 DEF Next, Caller

LEMMA SetupInvAlways == Spec => []SetupInv
  BY SetupInvInit, SetupInvNext, PTL DEF Spec

\* The cells are a sequence, and the place of a cell lies inside it.
LEMMA MappingInside ==
  ASSUME SetupInv
  PROVE  /\ Len(nonZeros) \in Nat
         /\ \A index : /\ Mapping(index) \in Nat
                       /\ Len(nonZeros) > 0 => Mapping(index) < Len(nonZeros)
<1>1. Len(nonZeros) \in Nat
  <2>1. CASE pc = "setup"
    BY <2>1 DEF SetupInv
  <2>2. CASE pc # "setup"
    <3>1. AllCells \in SUBSET Int /\ IsFiniteSet(AllCells)
      BY CellsFinite DEF SetupInv
    <3>2. Len(Ordered(AllCells)) = Cardinality(AllCells)
      BY <3>1, OrderedEnumerates
    <3> QED
      BY <2>2, <3>1, <3>2, FS_CardinalityType DEF SetupInv
  <2> QED
    BY <2>1, <2>2
<1>2. ASSUME NEW index
      PROVE  /\ Mapping(index) \in Nat
             /\ Len(nonZeros) > 0 => Mapping(index) < Len(nonZeros)
  <2> DEFINE found == {i \in 1 .. Len(nonZeros) : nonZeros[i] = index}
  <2>1. CASE found = {}
    BY <2>1, <1>1 DEF Mapping
  <2>2. CASE found # {}
    <3>1. (CHOOSE i \in found : TRUE) \in found
      BY <2>2
    <3>2. (CHOOSE i \in found : TRUE) \in 1 .. Len(nonZeros)
      BY <3>1
    <3>3. Mapping(index) = (CHOOSE i \in found : TRUE) - 1
      BY <2>2 DEF Mapping
    <3> QED
      BY <1>1, <3>2, <3>3
  <2> QED
    BY <2>1, <2>2
<1> QED
  BY <1>1, <1>2

(***************************************************************************)
(* The threads.                                                            *)
(***************************************************************************)

\* A place in the segment of a thread.
InSegment(t, at) ==
  \E c \in Nat : /\ at = c + t * Len(nonZeros)
                 /\ Len(nonZeros) > 0 => c < Len(nonZeros)

LoopInv ==
  /\ DOMAIN thread = ThreadIds
  /\ \A t \in ThreadIds :
       /\ thread[t].state \in {"idle", "taps", "loaded"}
       /\ thread[t] = [state |-> thread[t].state, row |-> thread[t].row,
                       left |-> thread[t].left, at |-> thread[t].at,
                       value |-> thread[t].value]
       /\ thread[t].state # "idle" => pc = "loop"
       /\ thread[t].state = "loaded" => InSegment(t, thread[t].at)
  /\ pc = "loop" =>
       compressed = [i \in 0 .. Len(nonZeros) * Threads - 1 |-> compressed[i]]

\* The segments of two threads have no place in common.
LEMMA SegmentsDisjoint ==
  ASSUME NEW L \in Nat, NEW s \in Nat, NEW t \in Nat, s # t,
         NEW c \in Nat, c < L, NEW d \in Nat, d < L
  PROVE  c + s * L # d + t * L
<1>1. ASSUME NEW p \in Nat, NEW q \in Nat, p < q, NEW a \in Nat, a < L, NEW b \in Nat
      PROVE  a + p * L # b + q * L
  <2>1. PICK k \in Nat : q = p + 1 + k
    <3>1. q - p - 1 \in Nat /\ q = p + 1 + (q - p - 1)
      BY <1>1
    <3> QED
      BY <3>1
  <2>2. q * L = p * L + L + k * L
    BY <2>1
  <2>3. k * L \in Nat /\ p * L \in Nat
    OBVIOUS
  <2> HIDE <2>1
  <2> DEFINE kL == k * L
             pL == p * L
             qL == q * L
  <2>4. qL = pL + L + kL /\ kL \in Nat /\ pL \in Nat
    BY <2>2, <2>3
  <2> HIDE DEF kL, pL, qL
  <2>5. a + pL # b + qL
    BY <1>1, <2>4
  <2> QED
    BY <2>5 DEF kL, pL, qL
<1>2. CASE s < t
  BY <1>1, <1>2
<1>3. CASE t < s
  BY <1>1, <1>3
<1> QED
  BY <1>2, <1>3

\* The segment of a thread lies inside the vector.
LEMMA SegmentInside ==
  ASSUME NEW L \in Nat, NEW t \in ThreadIds, NEW c \in Nat, c < L
  PROVE  c + t * L \in 0 .. L * Threads - 1
<1>1. Threads \in Nat /\ t \in Nat /\ t < Threads
  BY ThreadsAssumption DEF ThreadIds
<1>2. PICK k \in Nat : Threads = t + 1 + k
  <2>1. Threads - t - 1 \in Nat /\ Threads = t + 1 + (Threads - t - 1)
    BY <1>1
  <2> QED
    BY <2>1
<1>3. L * Threads = t * L + L + k * L
  BY <1>1, <1>2
<1>4. t * L \in Nat /\ k * L \in Nat
  BY <1>1
<1> DEFINE kL == k * L
           tL == t * L
           all == L * Threads
<1>5. all = tL + L + kL /\ tL \in Nat /\ kL \in Nat
  BY <1>3, <1>4
<1> HIDE DEF kL, tL, all
<1>6. c + tL \in 0 .. all - 1
  BY <1>5
<1> QED
  BY <1>6 DEF tL, all

LEMMA LoopInvInit == Init => LoopInv /\ NoInterference
<1> SUFFICES ASSUME Init PROVE LoopInv /\ NoInterference
  OBVIOUS
<1>1. thread = [t \in ThreadIds |-> Idle] /\ pc = "setup"
  BY DEF Init
<1>2. DOMAIN thread = ThreadIds /\ \A t \in ThreadIds : thread[t] = Idle
  BY <1>1
<1>3. /\ Idle.state = "idle"
      /\ Idle = [state |-> Idle.state, row |-> Idle.row, left |-> Idle.left,
                 at |-> Idle.at, value |-> Idle.value]
  BY DEF Idle
<1> QED
  BY <1>1, <1>2, <1>3, Zenon DEF LoopInv, NoInterference

\* One thread goes on, with what it does next of the right shape.
LEMMA ThreadMoves ==
  ASSUME LoopInv, UNCHANGED <<nonZeros, pc>>, NEW t \in ThreadIds,
         DOMAIN thread' = ThreadIds,
         \A s \in ThreadIds \ {t} : thread'[s] = thread[s],
         NEW state \in {"idle", "taps", "loaded"}, NEW row, NEW left, NEW at, NEW value,
         thread'[t] = [state |-> state, row |-> row, left |-> left, at |-> at, value |-> value],
         state # "idle" => pc = "loop",
         state = "loaded" => InSegment(t, at),
         pc = "loop" => compressed' = [i \in 0 .. Len(nonZeros) * Threads - 1 |-> compressed'[i]]
  PROVE  LoopInv'
<1>1. nonZeros' = nonZeros /\ pc' = pc
  OBVIOUS
<1>2. ASSUME NEW s \in ThreadIds
      PROVE  /\ thread'[s].state \in {"idle", "taps", "loaded"}
             /\ thread'[s] = [state |-> thread'[s].state, row |-> thread'[s].row,
                             left |-> thread'[s].left, at |-> thread'[s].at,
                             value |-> thread'[s].value]
             /\ thread'[s].state # "idle" => pc = "loop"
             /\ thread'[s].state = "loaded" => InSegment(s, thread'[s].at)
  <2>1. CASE s = t
    BY <2>1
  <2>2. CASE s # t
    <3>1. thread'[s] = thread[s]
      BY <2>2
    <3> QED
      BY <3>1 DEF LoopInv
  <2> QED
    BY <2>1, <2>2
<1>3. \A s, at_ : InSegment(s, at_)' <=> InSegment(s, at_)
  BY <1>1 DEF InSegment
<1> QED
  BY <1>1, <1>2, <1>3 DEF LoopInv, InSegment

\* The fields that a write changes, one after the other.
LEMMA FieldsChanged ==
  ASSUME LoopInv, NEW t \in ThreadIds, NEW left,
         thread' = [thread EXCEPT ![t].state = "taps", ![t].left = left]
  PROVE  /\ DOMAIN thread' = ThreadIds /\ \A s \in ThreadIds \ {t} : thread'[s] = thread[s]
         /\ thread'[t] = [state |-> "taps", row |-> thread[t].row, left |-> left,
                          at |-> thread[t].at, value |-> thread[t].value]
<1>1. DOMAIN thread = ThreadIds
  BY DEF LoopInv
<1>2. PICK st, ro, le, po, va :
        thread[t] = [state |-> st, row |-> ro, left |-> le, at |-> po, value |-> va]
  BY DEF LoopInv
<1> QED
  BY <1>1, <1>2

\* A step that changes neither the threads nor, during the loop, the shared vector.
LEMMA LoopInvQuiet ==
  ASSUME LoopInv, NoInterference, thread' = thread,
         \A t \in ThreadIds : thread[t].state = "idle",
         pc' = "loop" => compressed' = [i \in 0 .. Len(nonZeros') * Threads - 1 |-> compressed'[i]]
  PROVE  LoopInv' /\ NoInterference'
  BY DEF LoopInv, NoInterference

LEMMA LoopInvNext == SetupInv /\ LoopInv /\ NoInterference /\ [Next]_vars
                       => LoopInv' /\ NoInterference'
<1> SUFFICES ASSUME SetupInv, LoopInv, NoInterference, [Next]_vars
             PROVE  LoopInv' /\ NoInterference'
  OBVIOUS
<1> DEFINE L == Len(nonZeros)
<1>a. L \in Nat /\ Threads \in Nat /\ \A t \in ThreadIds : t \in Nat
  BY MappingInside, ThreadsAssumption DEF ThreadIds
<1>b. pc # "loop" => \A t \in ThreadIds : thread[t].state = "idle"
  BY DEF LoopInv
<1>1. CASE Setup
  BY <1>1, <1>b, LoopInvQuiet DEF Setup
<1>2. CASE Degrid
  BY <1>2, <1>b, LoopInvQuiet DEF Degrid
<1>3. CASE StartGrid
  BY <1>3, <1>b, LoopInvQuiet DEF StartGrid
<1>4. CASE SumSegments
  BY <1>4, LoopInvQuiet DEF SumSegments
<1>5. CASE FillGrid
  BY <1>5, <1>b, LoopInvQuiet DEF FillGrid
<1>6. CASE HandOver
  BY <1>6, <1>b, LoopInvQuiet DEF HandOver
<1>7. ASSUME NEW t \in ThreadIds, Take(t)
      PROVE  LoopInv' /\ NoInterference'
  <2>1. PICK m \in waiting : thread' = [thread EXCEPT ![t] =
          [Idle EXCEPT !.state = "taps", !.row = m, !.left = Taps(ju_max, jv_max)]]
    BY <1>7 DEF Take
  <2>2. UNCHANGED <<nonZeros, compressed, pc>> /\ pc = "loop"
    BY <1>7 DEF Take
  <2>3. /\ DOMAIN thread' = ThreadIds /\ \A s \in ThreadIds \ {t} : thread'[s] = thread[s]
        /\ thread'[t] = [state |-> "taps", row |-> m, left |-> Taps(ju_max, jv_max),
                         at |-> 0, value |-> EmptyBag]
    BY <2>1 DEF LoopInv, Idle
  <2>4. compressed' = [i \in 0 .. L * Threads - 1 |-> compressed'[i]]
    BY <2>2 DEF LoopInv
  <2>5. LoopInv'
    BY <2>2, <2>3, <2>4, ThreadMoves
  <2>6. NoInterference'
    BY <2>2, <2>3 DEF NoInterference
  <2> QED
    BY <2>5, <2>6
<1>8. ASSUME NEW t \in ThreadIds, EndRow(t)
      PROVE  LoopInv' /\ NoInterference'
  <2>1. /\ UNCHANGED <<nonZeros, compressed, pc>>
        /\ thread' = [thread EXCEPT ![t] = Idle]
    BY <1>8 DEF EndRow
  <2>2. /\ DOMAIN thread' = ThreadIds /\ \A s \in ThreadIds \ {t} : thread'[s] = thread[s]
        /\ thread'[t] = [state |-> "idle", row |-> 0, left |-> {}, at |-> 0,
                         value |-> EmptyBag]
    BY <2>1 DEF LoopInv, Idle
  <2>3. pc = "loop" => compressed' = [i \in 0 .. L * Threads - 1 |-> compressed'[i]]
    BY <2>1 DEF LoopInv
  <2>4. LoopInv'
    BY <2>1, <2>2, <2>3, ThreadMoves
  <2>5. NoInterference'
    BY <2>1, <2>2 DEF NoInterference
  <2> QED
    BY <2>4, <2>5
<1>9. ASSUME NEW t \in ThreadIds, Load(t)
      PROVE  LoopInv' /\ NoInterference'
  <2> DEFINE at == Place(t, thread[t].row, FirstLeft(thread[t].left))
  <2>1. InSegment(t, at)
    BY <1>a, MappingInside DEF Place, InSegment
  <2>2. thread' = [thread EXCEPT ![t].state = "loaded", ![t].at = at, ![t].value = compressed[at]]
    BY <1>9 DEF Load
  <2>3. UNCHANGED <<nonZeros, compressed, pc>> /\ pc = "loop"
    BY <1>9 DEF Load, LoopInv
  <2> HIDE DEF at
  <2> DEFINE value == compressed[at]
  <2>a. thread' = [thread EXCEPT ![t].state = "loaded", ![t].at = at, ![t].value = value]
    BY <2>2
  <2> HIDE DEF value
  <2>4. /\ DOMAIN thread' = ThreadIds /\ \A s \in ThreadIds \ {t} : thread'[s] = thread[s]
        /\ thread'[t] = [state |-> "loaded", row |-> thread[t].row,
                         left |-> thread[t].left, at |-> at, value |-> value]
    <3>1. /\ DOMAIN thread = ThreadIds
          /\ thread[t] = [state |-> thread[t].state, row |-> thread[t].row,
                          left |-> thread[t].left, at |-> thread[t].at,
                          value |-> thread[t].value]
      BY DEF LoopInv
    <3>2. PICK st, ro, le, po, va :
            thread[t] = [state |-> st, row |-> ro, left |-> le, at |-> po, value |-> va]
      BY <3>1
    <3> QED
      BY <2>a, <3>1, <3>2
  <2>5. compressed' = [i \in 0 .. L * Threads - 1 |-> compressed'[i]]
    BY <2>3 DEF LoopInv
  <2>6. LoopInv'
    BY <2>1, <2>3, <2>4, <2>5, ThreadMoves
  <2>7. NoInterference'
    BY <2>3, <2>4 DEF NoInterference, value
  <2> QED
    BY <2>6, <2>7
<1>10. ASSUME NEW t \in ThreadIds, Store(t)
      PROVE  LoopInv' /\ NoInterference'
  <2>1. PICK new : compressed' = [compressed EXCEPT ![thread[t].at] = new]
    BY <1>10 DEF Store
  <2>2. PICK left : thread' = [thread EXCEPT ![t].state = "taps", ![t].left = left]
    <3>1. \E tap : thread' = [thread EXCEPT ![t].state = "taps",
                                          ![t].left = thread[t].left \ {tap}]
      BY <1>10 DEF Store
    <3> QED
      BY <3>1
  <2>3. UNCHANGED <<nonZeros, pc>> /\ thread[t].state = "loaded" /\ pc = "loop"
    BY <1>10 DEF Store, LoopInv
  <2>4. /\ DOMAIN thread' = ThreadIds /\ \A s \in ThreadIds \ {t} : thread'[s] = thread[s]
        /\ thread'[t] = [state |-> "taps", row |-> thread[t].row, left |-> left,
                         at |-> thread[t].at, value |-> thread[t].value]
    BY <2>2, FieldsChanged, Zenon
  <2>5. compressed = [i \in 0 .. L * Threads - 1 |-> compressed[i]]
    BY <2>3 DEF LoopInv
  <2>6. compressed' = [i \in 0 .. L * Threads - 1 |-> compressed'[i]]
    BY <2>1, <2>5
  <2>7. LoopInv'
    BY <2>3, <2>4, <2>6, ThreadMoves
  <2>8. ASSUME NEW s \in ThreadIds, thread'[s].state = "loaded"
        PROVE  thread'[s].value = compressed'[thread'[s].at]
    <3>1. s # t /\ thread'[s] = thread[s] /\ thread[s].state = "loaded"
      BY <2>4, <2>8
    <3>2. thread[s].value = compressed[thread[s].at]
      BY <3>1 DEF NoInterference
    <3>3. PICK c \in Nat : thread[s].at = c + s * L /\ (L > 0 => c < L)
      BY <3>1 DEF LoopInv, InSegment
    <3>4. PICK d \in Nat : thread[t].at = d + t * L /\ (L > 0 => d < L)
      BY <2>3 DEF LoopInv, InSegment
    <3>5. CASE L = 0
      <4>1. 0 .. L * Threads - 1 = {}
        BY <1>a, <3>5
      <4>2. compressed' = compressed
        BY <2>1, <2>5, <2>6, <4>1
      <4> QED
        BY <3>1, <3>2, <4>2
    <3>6. CASE L > 0
      <4>1. thread[s].at # thread[t].at
        BY <1>a, <3>1, <3>3, <3>4, <3>6, SegmentsDisjoint
      <4>2. thread[s].at \in 0 .. L * Threads - 1
        BY <1>a, <3>3, <3>6, SegmentInside
      <4>3. compressed'[thread[s].at] = compressed[thread[s].at]
        BY <2>1, <2>5, <4>1, <4>2
      <4> QED
        BY <3>1, <3>2, <4>3
    <3> QED
      BY <1>a, <3>5, <3>6
  <2> QED
    BY <2>7, <2>8 DEF NoInterference
<1>11. CASE UNCHANGED vars
  BY <1>11 DEF vars, LoopInv, NoInterference, InSegment
<1> QED
  BY <1>1, <1>2, <1>3, <1>4, <1>5, <1>6, <1>7, <1>8, <1>9, <1>10, <1>11
     DEF Next, Caller, ThreadStep

\* Threads never interfere, for every number of them, of visibilities and of cells: the
\* shift by the segment of the thread keeps their additions apart (fly_operators.h:150).
THEOREM ThreadsNeverInterfere == Spec => []NoInterference
<1>1. SetupInv /\ LoopInv /\ NoInterference /\ [Next]_vars => LoopInv' /\ NoInterference'
  BY LoopInvNext
<1> QED
  BY <1>1, LoopInvInit, SetupInvAlways, PTL DEF Spec

(***************************************************************************)
(* Even grids.                                                             *)
(***************************************************************************)

EvenGrid == ftsizeu % 2 = 0 /\ ftsizev % 2 = 0

\* Wrapping around an even number of cells keeps the parity.
LEMMA WrapKeepsParity ==
  ASSUME NEW a \in Int, NEW e \in Nat, e > 0, e % 2 = 0
  PROVE  a % e \in Nat /\ (a % e) % 2 = a % 2
<1> DEFINE q == a \div e
           r == a % e
           half == e \div 2
           twice == half * q
<1>1. q \in Int /\ r \in Nat /\ a = e * q + r
  OBVIOUS
<1>2. half \in Int /\ e = 2 * half
  OBVIOUS
<1>3. twice \in Int
  BY <1>1, <1>2
<1>4. e * q = 2 * twice
  BY <1>1, <1>2
<1>5. a = 2 * twice + r
  BY <1>1, <1>4
<1> HIDE DEF q, r, half, twice
<1>6. a % 2 = r % 2
  BY <1>1, <1>3, <1>5
<1> QED
  BY <1>1, <1>6 DEF r

\* The sign with and without a matrix.
LEMMA SignsAgree ==
  ASSUME EvenGrid, InputTypes, NEW m \in Rows, NEW tap \in Taps(ju_max, jv_max)
  PROVE  Coefficient(m, tap)[3] = MatrixSign(uv[m][1], uv[m][2], ju_max, jv_max, tap)
<1> DEFINE a == FirstTap(uv[m][1], ju_max) + tap[1]
           b == FirstTap(uv[m][2], jv_max) + tap[2]
<1>1. uv[m][1] \in Int /\ uv[m][2] \in Int /\ tap[1] \in Int /\ tap[2] \in Int
  BY CellsAreNumbers
<1>2. a \in Int /\ b \in Int
  BY <1>1, Sizes DEF FirstTap
<1>3. MatrixSign(uv[m][1], uv[m][2], ju_max, jv_max, tap) = Parity(a + b)
  <2>1. FirstTap(uv[m][1], ju_max) \in Int /\ FirstTap(uv[m][2], jv_max) \in Int
    BY <1>1, Sizes DEF FirstTap
  <2>2. FirstTap(uv[m][1], ju_max) + tap[1] + FirstTap(uv[m][2], jv_max) + tap[2] = a + b
    BY <1>1, <2>1
  <2> QED
    BY <2>2 DEF MatrixSign
<1>4. Coefficient(m, tap)[3] = Parity(b % ftsizev) * Parity(a % ftsizeu)
  BY DEF Coefficient, WrappedSign, mod
<1> HIDE DEF a, b
<1>5. /\ (a % ftsizeu) % 2 = a % 2 /\ (b % ftsizev) % 2 = b % 2
  BY <1>2, Sizes, WrapKeepsParity DEF EvenGrid
<1>6. Parity(a % ftsizeu) = Parity(a) /\ Parity(b % ftsizev) = Parity(b)
  BY <1>5 DEF Parity
<1>7. Parity(b) * Parity(a) = Parity(a + b)
  BY <1>2 DEF Parity
<1> QED
  BY <1>3, <1>4, <1>6, <1>7

\* The number of a cell with a contribution is the place of that cell.
LEMMA MappingFindsCell ==
  ASSUME SetupInv, pc # "setup", NEW index \in AllCells
  PROVE  nonZeros[Mapping(index) + 1] = index
<1> DEFINE found == {i \in 1 .. Len(nonZeros) : nonZeros[i] = index}
<1>1. AllCells \in SUBSET Int /\ IsFiniteSet(AllCells) /\ nonZeros = Ordered(AllCells)
  BY CellsFinite DEF SetupInv
<1>2. /\ Len(nonZeros) = Cardinality(AllCells)
      /\ \E i \in 1 .. Cardinality(AllCells) : nonZeros[i] = index
  BY <1>1, OrderedEnumerates
<1>3. found # {}
  BY <1>2
<1>4. (CHOOSE i \in found : TRUE) \in found
  BY <1>3
<1>5. Mapping(index) = (CHOOSE i \in found : TRUE) - 1
  BY <1>3 DEF Mapping
<1>6. (CHOOSE i \in found : TRUE) \in Int /\ nonZeros[CHOOSE i \in found : TRUE] = index
  BY <1>4
<1> QED
  BY <1>5, <1>6

LEMMA ReadsAreMatrixRow ==
  ASSUME EvenGrid, SetupInv, pc = "done"
  PROVE  SameAsMatrix
<1> SUFFICES ASSUME NEW m \in Rows
             PROVE  {[cell |-> x.cell, sign |-> x.factor[3]] : x \in degridded[m]} = MatrixRow(m)
  BY DEF SameAsMatrix
<1> DEFINE read(tap) == [cell |-> IF kind = "serial" THEN Index(m, tap)
                                  ELSE nonZeros[Mapping(Index(m, tap)) + 1],
                         factor |-> Coefficient(m, tap)]
           term(tap) == [cell |-> Index(m, tap),
                         sign |-> MatrixSign(uv[m][1], uv[m][2], ju_max, jv_max, tap)]
<1>1. degridded[m] = {read(tap) : tap \in Taps(ju_max, jv_max)}
  BY DEF SetupInv, Reads
<1>2. MatrixRow(m) = {term(tap) : tap \in Taps(ju_max, jv_max)}
  BY DEF MatrixRow
<1>3. ASSUME NEW tap \in Taps(ju_max, jv_max)
      PROVE  [cell |-> read(tap).cell, sign |-> read(tap).factor[3]] = term(tap)
  <2>1. Index(m, tap) \in AllCells
    BY DEF AllCells
  <2>2. nonZeros[Mapping(Index(m, tap)) + 1] = Index(m, tap)
    BY <2>1, MappingFindsCell
  <2>3. read(tap).cell = Index(m, tap)
    BY <2>2
  <2>4. read(tap).factor[3] = MatrixSign(uv[m][1], uv[m][2], ju_max, jv_max, tap)
    BY SignsAgree DEF SetupInv
  <2> QED
    BY <2>3, <2>4
<1> HIDE DEF read, term
<1> QED
  BY <1>1, <1>2, <1>3

\* On a grid of even sides the operator without a matrix reads the cells of the gridding
\* matrix, with its signs, however far the taps wrap around (fly_operators.h:72, 208).
THEOREM EvenGridsMatchMatrix ==
  ASSUME EvenGrid
  PROVE  Spec => []SameAsMatrix
<1>1. SetupInv => SameAsMatrix
  <2>1. CASE pc = "done"
    BY <2>1, ReadsAreMatrixRow
  <2>2. CASE pc # "done"
    BY <2>2 DEF SameAsMatrix
  <2> QED
    BY <2>1, <2>2
<1> QED
  BY <1>1, SetupInvAlways, PTL

(***************************************************************************)
(* Bags of contributions.                                                  *)
(***************************************************************************)

\* The values of f, each as often as it is taken on hits.
Tally(hits, f) == [x \in {f[h] : h \in hits} |-> Cardinality({h \in hits : f[h] = x})]

LEMMA TallyNone == \A f : Tally({}, f) = EmptyBag
  BY DEF Tally, EmptyBag, SetToBag

LEMMA TallyOne == ASSUME NEW h, NEW f PROVE Tally({h}, f) = SetToBag({f[h]})
<1>1. {f[g] : g \in {h}} = {f[h]}
  OBVIOUS
<1>2. {g \in {h} : f[g] = f[h]} = {h}
  OBVIOUS
<1>3. Cardinality({g \in {h} : f[g] = f[h]}) = 1
  BY <1>2, FS_Singleton
<1> QED
  BY <1>1, <1>3 DEF Tally, SetToBag

LEMMA TallyJoined ==
  ASSUME NEW f, NEW A, NEW B, IsFiniteSet(A), IsFiniteSet(B), A \cap B = {}
  PROVE  Tally(A \cup B, f) = Tally(A, f) (+) Tally(B, f)
<1> DEFINE In(S, x) == {h \in S : f[h] = x}
           values(S) == {f[h] : h \in S}
           both == Tally(A, f) (+) Tally(B, f)
<1>1. values(A \cup B) = values(A) \cup values(B)
  OBVIOUS
<1>2. ASSUME NEW x
      PROVE  /\ Cardinality(In(A, x)) \in Nat /\ Cardinality(In(B, x)) \in Nat
             /\ Cardinality(In(A \cup B, x)) = Cardinality(In(A, x)) + Cardinality(In(B, x))
             /\ x \notin values(A) => Cardinality(In(A, x)) = 0
             /\ x \notin values(B) => Cardinality(In(B, x)) = 0
  <2>1. /\ In(A \cup B, x) = In(A, x) \cup In(B, x) /\ In(A, x) \cap In(B, x) = {}
        /\ In(A, x) \subseteq A /\ In(B, x) \subseteq B
    OBVIOUS
  <2>2. x \notin values(A) => In(A, x) = {}
    OBVIOUS
  <2>3. x \notin values(B) => In(B, x) = {}
    OBVIOUS
  <2> HIDE DEF In, values
  <2>4. IsFiniteSet(In(A, x)) /\ IsFiniteSet(In(B, x))
    BY <2>1, FS_Subset
  <2>5. Cardinality(In(A, x)) \in Nat /\ Cardinality(In(B, x)) \in Nat
    BY <2>4, FS_CardinalityType
  <2>6. Cardinality({}) = 0
    BY FS_EmptySet
  <2>7. Cardinality(In(A, x) \cup In(B, x)) = Cardinality(In(A, x)) + Cardinality(In(B, x))
    BY <2>1, <2>4, SizesAdd
  <2>8. Cardinality(In(A \cup B, x)) = Cardinality(In(A, x)) + Cardinality(In(B, x))
    BY <2>1, <2>7
  <2>9. /\ x \notin values(A) => Cardinality(In(A, x)) = 0
        /\ x \notin values(B) => Cardinality(In(B, x)) = 0
    BY <2>2, <2>3, <2>6
  <2> QED
    BY <2>5, <2>8, <2>9
<1>3. /\ Tally(A, f) = [x \in values(A) |-> Cardinality(In(A, x))]
      /\ Tally(B, f) = [x \in values(B) |-> Cardinality(In(B, x))]
      /\ Tally(A \cup B, f) = [x \in values(A \cup B) |-> Cardinality(In(A \cup B, x))]
  BY DEF Tally
<1> HIDE DEF In, values
<1>4. both = [x \in values(A) \cup values(B) |->
                (IF x \in values(A) THEN Cardinality(In(A, x)) ELSE 0)
                  + (IF x \in values(B) THEN Cardinality(In(B, x)) ELSE 0)]
  BY <1>3 DEF (+)
<1>5. \A x : (IF x \in values(A) THEN Cardinality(In(A, x)) ELSE 0)
               + (IF x \in values(B) THEN Cardinality(In(B, x)) ELSE 0)
             = Cardinality(In(A \cup B, x))
  BY <1>2
<1> QED
  BY <1>1, <1>3, <1>4, <1>5

(***************************************************************************)
(* Visibilities, taps and the cells they fall on.                          *)
(***************************************************************************)

Pairs == Rows \X Taps(ju_max, jv_max)
Term == [mt \in Pairs |-> [row |-> mt[1], factor |-> Coefficient(mt[1], mt[2])]]
OnCell(c) == {mt \in Pairs : Index(mt[1], mt[2]) = c}

LEMMA PairsFinite == IsFiniteSet(Pairs)
<1>1. IsFiniteSet(1 .. ju_max) /\ IsFiniteSet(1 .. jv_max)
  BY Sizes, FS_Interval
<1>2. IsFiniteSet(Taps(ju_max, jv_max))
  BY <1>1, FS_Product DEF Taps
<1> QED
  BY <1>2, RowsAssumption, FS_Product DEF Pairs

\* What a cell should get is the tally of the taps on it.
LEMMA ContributionsTallied == \A c : Contributions(c) = Tally(OnCell(c), Term)
<1> SUFFICES ASSUME NEW c PROVE Contributions(c) = Tally(OnCell(c), Term)
  OBVIOUS
<1> DEFINE term(mt) == [row |-> mt[1], factor |-> Coefficient(mt[1], mt[2])]
<1>1. \A mt \in OnCell(c) : Term[mt] = term(mt)
  BY DEF OnCell, Term
<1>2. Contributions(c) = [x \in {term(mt) : mt \in OnCell(c)} |->
                            Cardinality({mt \in OnCell(c) : x = term(mt)})]
  BY DEF Contributions, OnCell, Pairs
<1> HIDE DEF term
<1>3. {term(mt) : mt \in OnCell(c)} = {Term[mt] : mt \in OnCell(c)}
  BY <1>1
<1>4. \A x : {mt \in OnCell(c) : x = term(mt)} = {mt \in OnCell(c) : Term[mt] = x}
  BY <1>1
<1> QED
  BY <1>2, <1>3, <1>4 DEF Tally

\* The places of the cells: every cell with a contribution has one, which is its own.
LEMMA PlaceOfCell ==
  ASSUME SetupInv, pc # "setup"
  PROVE  /\ \A i, j \in 1 .. Len(nonZeros) : nonZeros[i] = nonZeros[j] => i = j
         /\ \A i \in 1 .. Len(nonZeros) : nonZeros[i] \in AllCells
         /\ DOMAIN nonZeros = 1 .. Len(nonZeros)
         /\ \A c \in AllCells : /\ Mapping(c) \in 0 .. Len(nonZeros) - 1
                                /\ nonZeros[Mapping(c) + 1] = c
<1>1. AllCells \in SUBSET Int /\ IsFiniteSet(AllCells) /\ nonZeros = Ordered(AllCells)
  BY CellsFinite DEF SetupInv
<1> DEFINE n == Cardinality(AllCells)
<1>2. /\ nonZeros \in [1 .. n -> AllCells] /\ Len(nonZeros) = n
      /\ \A i, j \in 1 .. n : i < j => nonZeros[i] < nonZeros[j]
      /\ \A c \in AllCells : \E i \in 1 .. n : nonZeros[i] = c
  BY <1>1, OrderedEnumerates
<1>3. \A i, j \in 1 .. n : nonZeros[i] = nonZeros[j] => i = j
  <2> SUFFICES ASSUME NEW i \in 1 .. n, NEW j \in 1 .. n, nonZeros[i] = nonZeros[j], i # j
               PROVE  FALSE
    OBVIOUS
  <2>1. nonZeros[i] \in Int /\ nonZeros[j] \in Int
    BY <1>1, <1>2
  <2>2. n \in Nat
    BY <1>1, FS_CardinalityType
  <2>3. i < j \/ j < i
    BY <2>2
  <2> QED
    BY <1>2, <2>1, <2>3
<1>4. ASSUME NEW c \in AllCells
      PROVE  Mapping(c) \in 0 .. Len(nonZeros) - 1 /\ nonZeros[Mapping(c) + 1] = c
  <2>1. nonZeros[Mapping(c) + 1] = c
    BY MappingFindsCell
  <2>2. n \in Nat /\ n > 0
    BY <1>1, <1>2, FS_CardinalityType
  <2>3. Mapping(c) \in Nat /\ Mapping(c) < Len(nonZeros)
    BY <1>2, <2>2, MappingInside
  <2> QED
    BY <1>2, <2>1, <2>2, <2>3
<1> QED
  BY <1>2, <1>3, <1>4

\* A visibility and a tap fall on a cell with a contribution, and on no other.
LEMMA OnCellExactly ==
  /\ \A mt \in Pairs : Index(mt[1], mt[2]) \in AllCells
  /\ \A c : c \notin AllCells => OnCell(c) = {}
  BY DEF Pairs, AllCells, OnCell

\* The loops over the taps take them one after the other.
LEMMA FirstLeftTaken ==
  ASSUME NEW taps \in SUBSET Taps(ju_max, jv_max), taps # {}
  PROVE  FirstLeft(taps) \in taps
<1>1. \A a \in taps : a[1] \in Nat /\ a[2] \in Nat
  BY Sizes DEF Taps
<1> DEFINE rows == {a[2] : a \in taps}
<1>2. rows \in SUBSET Nat /\ rows # {}
  BY <1>1
<1> HIDE DEF rows
<1>3. PICK y \in rows : \A z \in rows : y <= z
  BY <1>2, LeastElement
<1> DEFINE columns == {a[1] : a \in {b \in taps : b[2] = y}}
<1>4. columns \in SUBSET Nat /\ columns # {}
  BY <1>1, <1>3 DEF rows
<1> HIDE DEF columns
<1>5. PICK x \in columns : \A z \in columns : x <= z
  BY <1>4, LeastElement
<1>6. PICK a \in taps : a[2] = y /\ a[1] = x
  BY <1>5 DEF columns
<1>7. ASSUME NEW b \in taps
      PROVE  a[2] < b[2] \/ (a[2] = b[2] /\ a[1] <= b[1])
  <2>1. y <= b[2]
    BY <1>3 DEF rows
  <2>2. b[2] = y => x <= b[1]
    BY <1>5 DEF columns
  <2> QED
    BY <1>1, <1>6, <2>1, <2>2
<1> QED
  BY <1>6, <1>7 DEF FirstLeft

(***************************************************************************)
(* The contributions are counted.                                          *)
(***************************************************************************)

\* What thread t has added so far, if every visibility is taken by its owner.
Added(t, owner) ==
  {mt \in Pairs : /\ owner[mt[1]] = t /\ mt[1] \notin waiting
                  /\ ~(thread[t].state # "idle" /\ thread[t].row = mt[1]
                         /\ mt[2] \in thread[t].left)}

\* A thread at work is at a visibility of its own.
AtWork(t, owner) ==
  /\ thread[t].state # "idle" =>
       /\ thread[t].row \in Rows \ waiting /\ owner[thread[t].row] = t
       /\ thread[t].left \subseteq Taps(ju_max, jv_max)
  /\ thread[t].state = "loaded" =>
       /\ thread[t].left # {}
       /\ thread[t].at = Place(t, thread[t].row, FirstLeft(thread[t].left))

\* A place of its segment holds what it has added to the cell.
Segment(t, i, owner) ==
  compressed[i + t * Len(nonZeros)] = Tally(Added(t, owner) \cap OnCell(nonZeros[i+1]), Term)

Counted(owner) ==
  /\ owner \in [Rows -> ThreadIds] /\ waiting \subseteq Rows
  /\ \A t \in ThreadIds : AtWork(t, owner)
  /\ \A t \in ThreadIds : \A i \in 0 .. Len(nonZeros) - 1 : Segment(t, i, owner)

CountInv ==
  /\ pc = "loop" => \E owner : Counted(owner)
  /\ pc = "summed" =>
       summed = [i \in 0 .. Len(nonZeros) - 1 |-> Tally(OnCell(nonZeros[i+1]), Term)]
  /\ pc = "done" => /\ AllCells \subseteq DOMAIN output
                    /\ \A c \in DOMAIN output : output[c] = Tally(OnCell(c), Term)

\* The cells and their places do not change once they are found.
LEMMA CellsKept ==
  ASSUME UNCHANGED <<kind, uv, image, nonZeros>>
  PROVE  /\ Term' = Term /\ AllCells' = AllCells
         /\ \A c : OnCell(c)' = OnCell(c) /\ Mapping(c)' = Mapping(c)
         /\ \A t, m, tap : Place(t, m, tap)' = Place(t, m, tap)
<1>1. /\ \A m, tap : Index(m, tap)' = Index(m, tap)
      /\ \A m, tap : Coefficient(m, tap)' = Coefficient(m, tap)
  BY DEF Index, Coefficient
<1>2. \A c : Mapping(c)' = Mapping(c)
  BY DEF Mapping
<1>3. \A c : OnCell(c)' = OnCell(c)
  BY <1>1 DEF OnCell, Pairs
<1>4. Term' = Term /\ AllCells' = AllCells
  BY <1>1 DEF Term, Pairs, AllCells
<1>5. \A t, m, tap : Place(t, m, tap)' = Place(t, m, tap)
  BY <1>1, <1>2 DEF Place
<1> QED
  BY <1>2, <1>3, <1>4, <1>5

\* As long as a step adds nothing and leaves the vector alone.
LEMMA SegmentsKept ==
  ASSUME NEW owner, Counted(owner), UNCHANGED <<kind, uv, image, nonZeros, compressed>>,
         NEW new, \A t \in ThreadIds : Added(t, new)' = Added(t, owner)
  PROVE  \A t \in ThreadIds : \A i \in 0 .. Len(nonZeros') - 1 : Segment(t, i, new)'
<1> SUFFICES ASSUME NEW t \in ThreadIds, NEW i \in 0 .. Len(nonZeros') - 1
             PROVE  Segment(t, i, new)'
  OBVIOUS
<1>1. Segment(t, i, owner)
  BY DEF Counted
<1>2. Term' = Term /\ \A c : OnCell(c)' = OnCell(c)
  BY CellsKept
<1>3. nonZeros' = nonZeros /\ compressed' = compressed
  OBVIOUS
<1>4. Added(t, new)' = Added(t, owner)
  OBVIOUS
<1> DEFINE cell == nonZeros[i+1]
           place == i + t * Len(nonZeros)
<1>5. compressed'[place] = Tally(Added(t, owner) \cap OnCell(cell), Term)
  BY <1>1, <1>3 DEF Segment
<1>6. OnCell(nonZeros[i+1])' = OnCell(cell)
  BY <1>2, <1>3
<1> QED
  BY <1>2, <1>3, <1>4, <1>5, <1>6 DEF Segment

\* A visibility is taken: nothing of it has been added yet.
LEMMA TakeCounts ==
  ASSUME SetupInv, LoopInv, NEW owner, Counted(owner), NEW t \in ThreadIds, Take(t)
  PROVE  \E new : Counted(new)'
<1>1. PICK m \in waiting :
        /\ waiting' = waiting \ {m}
        /\ thread' = [thread EXCEPT ![t] =
             [Idle EXCEPT !.state = "taps", !.row = m, !.left = Taps(ju_max, jv_max)]]
  BY DEF Take
<1>2. UNCHANGED <<kind, uv, image, nonZeros, compressed>> /\ thread[t].state = "idle"
  BY DEF Take
<1>3. /\ \A s \in ThreadIds : s # t => thread'[s] = thread[s]
      /\ thread'[t].state = "taps" /\ thread'[t].row = m
      /\ thread'[t].left = Taps(ju_max, jv_max)
  BY <1>1 DEF LoopInv, Idle
<1> DEFINE new == [owner EXCEPT ![m] = t]
<1>4. /\ owner \in [Rows -> ThreadIds] /\ waiting \subseteq Rows
      /\ \A s \in ThreadIds : AtWork(s, owner)
  BY DEF Counted
<1>5. /\ new \in [Rows -> ThreadIds] /\ new[m] = t
      /\ \A q \in Rows : q # m => new[q] = owner[q]
  BY <1>1, <1>4
<1> HIDE DEF new
<1>6. ASSUME NEW s \in ThreadIds
      PROVE  Added(s, new)' = Added(s, owner)
  <2>1. ASSUME NEW mt \in Pairs
        PROVE  mt \in Added(s, new)' <=> mt \in Added(s, owner)
    <3>1. mt[1] \in Rows /\ mt[2] \in Taps(ju_max, jv_max)
      BY DEF Pairs
    <3>2. CASE mt[1] = m
      <4>1. mt \notin Added(s, owner)
        BY <1>1, <3>2 DEF Added
      <4>2. mt \notin Added(s, new)'
        BY <1>3, <1>5, <3>1, <3>2 DEF Added
      <4> QED
        BY <4>1, <4>2
    <3>3. CASE mt[1] # m
      BY <1>1, <1>2, <1>3, <1>5, <3>1, <3>3 DEF Added
    <3> QED
      BY <3>2, <3>3
  <2> QED
    BY <2>1 DEF Added, Pairs
<1>7. ASSUME NEW s \in ThreadIds
      PROVE  AtWork(s, new)'
  <2>1. CASE s = t
    BY <1>1, <1>3, <1>4, <1>5, <2>1 DEF AtWork
  <2>2. CASE s # t
    <3>1. thread'[s] = thread[s] /\ AtWork(s, owner)
      BY <1>3, <1>4, <2>2
    <3>2. thread[s].state = "loaded" =>
            Place(s, thread[s].row, FirstLeft(thread[s].left))'
              = Place(s, thread[s].row, FirstLeft(thread[s].left))
      BY <1>2, <3>1, CellsKept
    <3>3. \A q \in Rows \ waiting : q # m /\ q \in Rows \ waiting' /\ new[q] = owner[q]
      BY <1>1, <1>5
    <3> QED
      BY <3>1, <3>2, <3>3 DEF AtWork
  <2> QED
    BY <2>1, <2>2
<1>8. \A s \in ThreadIds : \A i \in 0 .. Len(nonZeros') - 1 : Segment(s, i, new)'
  BY <1>2, <1>6, SegmentsKept
<1>9. waiting' \subseteq Rows
  BY <1>1, <1>4
<1>10. Counted(new)'
  BY <1>5, <1>7, <1>8, <1>9 DEF Counted
<1> QED
  BY <1>10

\* Reading a cell adds nothing yet.
LEMMA LoadCounts ==
  ASSUME SetupInv, LoopInv, NEW owner, Counted(owner), NEW t \in ThreadIds, Load(t)
  PROVE  Counted(owner)'
<1> DEFINE at == Place(t, thread[t].row, FirstLeft(thread[t].left))
<1>1. /\ UNCHANGED <<kind, uv, image, nonZeros, compressed, waiting>>
      /\ thread[t].state = "taps" /\ thread[t].left # {}
      /\ thread' = [thread EXCEPT ![t].state = "loaded", ![t].at = at,
                                  ![t].value = compressed[at]]
  BY DEF Load
<1> HIDE DEF at
<1>2. /\ \A s \in ThreadIds : s # t => thread'[s] = thread[s]
      /\ thread'[t].state = "loaded" /\ thread'[t].row = thread[t].row
      /\ thread'[t].left = thread[t].left /\ thread'[t].at = at
  <2>1. PICK st, ro, le, po, va :
          thread[t] = [state |-> st, row |-> ro, left |-> le, at |-> po, value |-> va]
    BY DEF LoopInv
  <2> QED
    BY <1>1, <2>1 DEF LoopInv
<1>3. /\ owner \in [Rows -> ThreadIds] /\ waiting \subseteq Rows
      /\ \A s \in ThreadIds : AtWork(s, owner)
  BY DEF Counted
<1>4. ASSUME NEW s \in ThreadIds
      PROVE  Added(s, owner)' = Added(s, owner)
  <2>1. ASSUME NEW mt \in Pairs
        PROVE  mt \in Added(s, owner)' <=> mt \in Added(s, owner)
    BY <1>1, <1>2 DEF Added
  <2> QED
    BY <2>1 DEF Added, Pairs
<1>5. ASSUME NEW s \in ThreadIds
      PROVE  AtWork(s, owner)'
  <2>1. /\ \A m, tap : Place(s, m, tap)' = Place(s, m, tap)
        /\ AtWork(s, owner) /\ waiting' = waiting
    BY <1>1, <1>3, CellsKept
  <2>2. CASE s = t
    <3>1. (thread[t].at = Place(t, thread[t].row, FirstLeft(thread[t].left)))'
      <4>1. thread'[t].at = Place(t, thread[t].row, FirstLeft(thread[t].left))
        BY <1>2 DEF at
      <4> QED
        BY <1>2, <2>1, <2>2, <4>1
    <3> QED
      BY <1>1, <1>2, <2>1, <2>2, <3>1 DEF AtWork
  <2>3. CASE s # t
    BY <1>2, <2>1, <2>3 DEF AtWork
  <2> QED
    BY <2>2, <2>3
<1>6. \A s \in ThreadIds : \A i \in 0 .. Len(nonZeros') - 1 : Segment(s, i, owner)'
  BY <1>1, <1>4, SegmentsKept
<1> QED
  BY <1>1, <1>3, <1>5, <1>6 DEF Counted

\* Nor does the end of an iteration: all taps of the visibility have been added.
LEMMA EndRowCounts ==
  ASSUME SetupInv, LoopInv, NEW owner, Counted(owner), NEW t \in ThreadIds, EndRow(t)
  PROVE  Counted(owner)'
<1>1. /\ UNCHANGED <<kind, uv, image, nonZeros, compressed, waiting>>
      /\ thread[t].state = "taps" /\ thread[t].left = {}
      /\ thread' = [thread EXCEPT ![t] = Idle]
  BY DEF EndRow
<1>2. /\ \A s \in ThreadIds : s # t => thread'[s] = thread[s]
      /\ thread'[t].state = "idle"
  BY <1>1 DEF LoopInv, Idle
<1>3. /\ owner \in [Rows -> ThreadIds] /\ waiting \subseteq Rows
      /\ \A s \in ThreadIds : AtWork(s, owner)
  BY DEF Counted
<1>4. ASSUME NEW s \in ThreadIds
      PROVE  Added(s, owner)' = Added(s, owner)
  <2>1. ASSUME NEW mt \in Pairs
        PROVE  mt \in Added(s, owner)' <=> mt \in Added(s, owner)
    BY <1>1, <1>2 DEF Added
  <2> QED
    BY <2>1 DEF Added, Pairs
<1>5. ASSUME NEW s \in ThreadIds
      PROVE  AtWork(s, owner)'
  <2>1. /\ \A m, tap : Place(s, m, tap)' = Place(s, m, tap)
        /\ AtWork(s, owner) /\ waiting' = waiting
    BY <1>1, <1>3, CellsKept
  <2> QED
    BY <1>2, <2>1 DEF AtWork
<1>6. \A s \in ThreadIds : \A i \in 0 .. Len(nonZeros') - 1 : Segment(s, i, owner)'
  BY <1>1, <1>4, SegmentsKept
<1> QED
  BY <1>1, <1>3, <1>5, <1>6 DEF Counted

\* Writing a cell adds one contribution to one place.
LEMMA StoreCounts ==
  ASSUME SetupInv, LoopInv, NoInterference, NEW owner, Counted(owner), NEW t \in ThreadIds,
         Store(t), pc = "loop"
  PROVE  Counted(owner)'
<1> DEFINE m == thread[t].row
           left == thread[t].left
           tap == FirstLeft(left)
           mt0 == <<m, tap>>
           L == Len(nonZeros)
           at == thread[t].at
           old == compressed[at]
<1>1. /\ UNCHANGED <<kind, uv, image, nonZeros, waiting>> /\ thread[t].state = "loaded"
      /\ compressed' = [compressed EXCEPT ![at] =
           thread[t].value (+) SetToBag({[row |-> m, factor |-> Coefficient(m, tap)]})]
      /\ thread' = [thread EXCEPT ![t].state = "taps", ![t].left = left \ {tap}]
  BY DEF Store
<1>2. thread[t].value = old
  BY <1>1 DEF NoInterference
<1>3. /\ owner \in [Rows -> ThreadIds] /\ waiting \subseteq Rows
      /\ \A s \in ThreadIds : AtWork(s, owner)
      /\ \A s \in ThreadIds : \A i \in 0 .. L - 1 : Segment(s, i, owner)
  BY DEF Counted
<1>4. /\ m \in Rows \ waiting /\ owner[m] = t /\ left \subseteq Taps(ju_max, jv_max)
      /\ tap \in left /\ at = Place(t, m, tap)
  <2>1. m \in Rows \ waiting /\ owner[m] = t /\ left \subseteq Taps(ju_max, jv_max) /\ left # {}
    BY <1>1, <1>3 DEF AtWork
  <2>2. tap \in left
    BY <2>1, FirstLeftTaken
  <2> QED
    BY <1>1, <1>3, <2>1, <2>2 DEF AtWork
<1>5. mt0 \in Pairs /\ mt0[1] = m /\ mt0[2] = tap /\ Index(m, tap) \in AllCells
  BY <1>4 DEF Pairs, AllCells
<1> DEFINE j == Mapping(Index(m, tap))
<1>6. /\ L \in Nat /\ j \in 0 .. L - 1 /\ nonZeros[j+1] = Index(m, tap)
      /\ at = j + t * L
  BY <1>4, <1>5, PlaceOfCell, MappingInside DEF Place
<1>7. Term[mt0] = [row |-> m, factor |-> Coefficient(m, tap)]
  BY <1>5 DEF Term
<1>8. compressed' = [compressed EXCEPT ![at] = old (+) SetToBag({Term[mt0]})]
  BY <1>1, <1>2, <1>7
<1>9. /\ \A s \in ThreadIds : s # t => thread'[s] = thread[s]
      /\ thread'[t].state = "taps" /\ thread'[t].row = m /\ thread'[t].left = left \ {tap}
  <2>1. PICK st, ro, le, po, va :
          thread[t] = [state |-> st, row |-> ro, left |-> le, at |-> po, value |-> va]
    BY DEF LoopInv
  <2> QED
    BY <1>1, <2>1 DEF LoopInv
<1>10. ASSUME NEW mt \in Pairs, mt # mt0
       PROVE  mt[1] # m \/ mt[2] # tap
  <2>1. mt = <<mt[1], mt[2]>>
    BY DEF Pairs
  <2> QED
    BY <1>10, <2>1
<1>11. /\ mt0 \notin Added(t, owner)
       /\ Added(t, owner)' = Added(t, owner) \cup {mt0}
       /\ \A s \in ThreadIds : s # t => Added(s, owner)' = Added(s, owner)
  <2> HIDE DEF m, left, tap, mt0
  <2>1. mt0 \notin Added(t, owner)
    BY <1>1, <1>4, <1>5 DEF Added, m, left
  <2>2. ASSUME NEW mt \in Pairs
        PROVE  mt \in Added(t, owner)' <=> mt \in Added(t, owner) \cup {mt0}
    <3>1. CASE mt = mt0
      <4>1. ~(thread'[t].row = mt[1] /\ mt[2] \in thread'[t].left)
        BY <1>5, <1>9, <3>1
      <4>2. owner[mt[1]] = t /\ mt[1] \notin waiting'
        BY <1>1, <1>4, <1>5, <3>1
      <4> QED
        BY <3>1, <4>1, <4>2 DEF Added
    <3>2. CASE mt # mt0
      <4>1. mt[1] # m \/ mt[2] # tap
        BY <1>10, <3>2
      <4>2. (thread'[t].row = mt[1] /\ mt[2] \in thread'[t].left)
              <=> (thread[t].row = mt[1] /\ mt[2] \in thread[t].left)
        BY <1>9, <4>1 DEF m, left
      <4>3. mt \in Added(t, owner)' <=> mt \in Added(t, owner)
        BY <1>1, <1>9, <4>2 DEF Added
      <4> QED
        BY <3>2, <4>3
    <3> QED
      BY <3>1, <3>2
  <2>3. \A s \in ThreadIds : Added(s, owner)' \subseteq Pairs /\ Added(s, owner) \subseteq Pairs
    BY DEF Added, Pairs
  <2>4. ASSUME NEW s \in ThreadIds, s # t
        PROVE  Added(s, owner)' = Added(s, owner)
    <3>1. thread'[s] = thread[s] /\ waiting' = waiting
      BY <1>1, <1>9, <2>4
    <3>2. \A mt \in Pairs : mt \in Added(s, owner)' <=> mt \in Added(s, owner)
      BY <3>1 DEF Added
    <3> QED
      BY <2>3, <3>2
  <2>5. Added(t, owner)' = Added(t, owner) \cup {mt0}
    BY <1>5, <2>2, <2>3
  <2> QED
    BY <2>1, <2>4, <2>5
<1> HIDE DEF m, left, tap, mt0, L, at, old, j
<1>12. ASSUME NEW s \in ThreadIds
       PROVE  AtWork(s, owner)'
  <2>1. /\ \A q, a : Place(s, q, a)' = Place(s, q, a)
        /\ AtWork(s, owner) /\ waiting' = waiting
    BY <1>1, <1>3, CellsKept
  <2>2. CASE s = t
    BY <1>4, <1>9, <2>1, <2>2 DEF AtWork
  <2>3. CASE s # t
    BY <1>9, <2>1, <2>3 DEF AtWork
  <2> QED
    BY <2>2, <2>3
<1>13. ASSUME NEW s \in ThreadIds, NEW i \in 0 .. L - 1
       PROVE  compressed'[i + s * L]
                = Tally(Added(s, owner)' \cap OnCell(nonZeros[i+1]), Term)
  <2> DEFINE place == i + s * L
             c == nonZeros[i+1]
             A == Added(s, owner) \cap OnCell(c)
  <2>1. compressed[place] = Tally(A, Term)
    BY <1>3, <1>13 DEF Segment, L
  <2>2. place \in 0 .. L * Threads - 1
    BY <1>6, SegmentInside
  <2>3. compressed = [p \in 0 .. L * Threads - 1 |-> compressed[p]]
    BY DEF LoopInv, L
  <2>4. CASE s = t /\ i = j
    <3>1. place = at /\ c = Index(m, tap)
      BY <1>6, <2>4
    <3>2. mt0 \in OnCell(c)
      BY <1>5, <3>1 DEF OnCell
    <3>3. Added(s, owner)' \cap OnCell(c) = A \cup {mt0} /\ A \cap {mt0} = {}
      BY <1>11, <2>4, <3>2
    <3>4. IsFiniteSet(A) /\ IsFiniteSet({mt0})
      <4>1. A \subseteq Pairs
        BY DEF Added
      <4> QED
        BY <4>1, PairsFinite, FS_Subset, FS_Singleton
    <3>5. compressed'[place] = Tally(A, Term) (+) SetToBag({Term[mt0]})
      BY <1>8, <2>1, <2>2, <2>3, <3>1 DEF old
    <3>6. Tally({mt0}, Term) = SetToBag({Term[mt0]})
      BY TallyOne
    <3> HIDE DEF A, place, c
    <3>7. Tally(A \cup {mt0}, Term) = Tally(A, Term) (+) Tally({mt0}, Term)
      BY <3>3, <3>4, TallyJoined
    <3>8. compressed'[place] = Tally(Added(s, owner)' \cap OnCell(c), Term)
      BY <3>3, <3>5, <3>6, <3>7
    <3> QED
      BY <3>8 DEF place, c
  <2>5. CASE ~(s = t /\ i = j)
    <3>1. place # at
      <4>1. CASE s # t
        <5>1. s \in Nat /\ t \in Nat /\ i \in Nat /\ j \in Nat /\ i < L /\ j < L
          BY <1>6 DEF ThreadIds
        <5> QED
          BY <1>6, <4>1, <5>1, SegmentsDisjoint
      <4>2. CASE s = t
        <5>1. t \in Nat /\ t * L \in Int
          BY <1>6 DEF ThreadIds
        <5> DEFINE tL == t * L
        <5>2. place = i + tL /\ at = j + tL /\ tL \in Int /\ i # j
          BY <1>6, <2>5, <4>2, <5>1
        <5> HIDE DEF tL, place
        <5> QED
          BY <1>6, <5>2
      <4> QED
        BY <4>1, <4>2
    <3>2. compressed'[place] = compressed[place]
      BY <1>8, <2>2, <2>3, <3>1
    <3>3. Added(s, owner)' \cap OnCell(c) = A
      <4>1. CASE s # t
        BY <1>11, <4>1
      <4>2. CASE s = t
        <5>1. i + 1 # j + 1 /\ i + 1 \in 1 .. L /\ j + 1 \in 1 .. L
          BY <1>6, <2>5, <4>2
        <5>2. c # Index(m, tap)
          BY <1>6, <5>1, PlaceOfCell DEF L
        <5>3. mt0 \notin OnCell(c)
          BY <1>5, <5>2 DEF OnCell
        <5> QED
          BY <1>11, <4>2, <5>3
      <4> QED
        BY <4>1, <4>2
    <3> QED
      BY <2>1, <3>2, <3>3
  <2> QED
    BY <2>4, <2>5
<1>14. ASSUME NEW s \in ThreadIds, NEW i \in 0 .. Len(nonZeros') - 1
       PROVE  Segment(s, i, owner)'
  <2>1. nonZeros' = nonZeros /\ Term' = Term /\ OnCell(nonZeros[i+1])' = OnCell(nonZeros[i+1])
    BY <1>1, CellsKept
  <2>2. compressed'[i + s * L] = Tally(Added(s, owner)' \cap OnCell(nonZeros[i+1]), Term)
    BY <1>13, <2>1 DEF L
  <2> QED
    BY <2>1, <2>2 DEF Segment, L
<1> QED
  BY <1>1, <1>3, <1>12, <1>14 DEF Counted

\* At first nothing has been added, whoever is to take which visibility.
LEMMA StartCounts ==
  ASSUME SetupInv, LoopInv, StartGrid
  PROVE  \E owner : Counted(owner)'
<1> DEFINE owner == [m \in Rows |-> 0]
           L == Len(nonZeros)
<1>1. /\ UNCHANGED <<nonZeros, thread>> /\ waiting' = Rows /\ pc = "degridded"
      /\ compressed' = [p \in 0 .. L * Threads - 1 |-> EmptyBag]
  BY DEF StartGrid
<1>2. \A s \in ThreadIds : thread[s].state = "idle"
  BY <1>1 DEF LoopInv
<1>3. owner \in [Rows -> ThreadIds]
  BY ThreadsAssumption DEF ThreadIds
<1> HIDE DEF owner
<1>4. \A s \in ThreadIds : AtWork(s, owner)'
  BY <1>1, <1>2 DEF AtWork
<1>5. ASSUME NEW s \in ThreadIds, NEW i \in 0 .. Len(nonZeros') - 1
      PROVE  Segment(s, i, owner)'
  <2>1. i \in Nat /\ i < L /\ L \in Nat /\ L' = L
    BY <1>1, MappingInside
  <2>2. i + s * L \in 0 .. L * Threads - 1
    BY <2>1, SegmentInside
  <2>3. compressed'[i + s * L] = EmptyBag
    BY <1>1, <2>2
  <2>4. Added(s, owner)' = {}
    BY <1>1 DEF Added, Pairs
  <2>5. (Tally(Added(s, owner) \cap OnCell(nonZeros[i+1]), Term))' = EmptyBag
    BY <2>4, TallyNone
  <2> QED
    BY <2>1, <2>3, <2>5 DEF Segment
<1>6. Counted(owner)'
  BY <1>1, <1>3, <1>4, <1>5 DEF Counted
<1> QED
  BY <1>6

\* Two functions with the same recursion are the same: here the sum over the segments.
LEMMA SumIsUnique ==
  ASSUME NEW n \in Nat, NEW f, NEW g,
         f[0] = g[0], \A t \in Nat : t + 1 <= n /\ f[t] = g[t] => f[t+1] = g[t+1]
  PROVE  f[n] = g[n]
<1> DEFINE S == {t \in Nat : t <= n => f[t] = g[t]}
<1>1. 0 \in S
  OBVIOUS
<1>2. \A t \in Nat : t \in S => t + 1 \in S
  OBVIOUS
<1> HIDE DEF S
<1>3. n \in S
  BY <1>1, <1>2, Induction
<1> QED
  BY <1>3 DEF S

\* The segments of all threads together hold every contribution to the cell.
LEMMA SegmentsAddUp ==
  ASSUME SetupInv, LoopInv, NEW owner, Counted(owner), waiting = {},
         \A t \in ThreadIds : thread[t].state = "idle",
         NEW i \in 0 .. Len(nonZeros) - 1
  PROVE  SegmentsSummed(i) = Tally(OnCell(nonZeros[i+1]), Term)
<1> DEFINE L == Len(nonZeros)
           c == nonZeros[i+1]
           upTo(t) == {mt \in OnCell(c) : owner[mt[1]] <= t}
           ofThread(t) == {mt \in OnCell(c) : owner[mt[1]] = t}
           Upto(sum) == [t \in ThreadIds |-> IF t = 0 THEN compressed[i]
                                             ELSE sum[t-1] (+) compressed[i + t * L]]
           expected == [t \in ThreadIds |-> Tally(upTo(t), Term)]
           chosen == CHOOSE sum : sum = Upto(sum)
<1>1. SegmentsSummed(i) = chosen[Threads - 1]
  BY DEF SegmentsSummed
<1>2. /\ Threads \in Nat /\ Threads > 0 /\ L \in Nat
      /\ ThreadIds = 0 .. Threads - 1 /\ owner \in [Rows -> ThreadIds]
  BY ThreadsAssumption, MappingInside DEF ThreadIds, Counted
<1>3. \A mt \in OnCell(c) : owner[mt[1]] \in ThreadIds
  BY <1>2 DEF OnCell, Pairs
<1>4. ASSUME NEW t \in ThreadIds
      PROVE  compressed[i + t * L] = Tally(ofThread(t), Term)
  <2>1. Segment(t, i, owner)
    BY DEF Counted
  <2>2. Added(t, owner) \cap OnCell(c) = ofThread(t)
    BY DEF Added, OnCell
  <2> QED
    BY <2>1, <2>2 DEF Segment
<1>5. ASSUME NEW t \in ThreadIds
      PROVE  IsFiniteSet(upTo(t)) /\ IsFiniteSet(ofThread(t))
  <2>1. upTo(t) \subseteq Pairs /\ ofThread(t) \subseteq Pairs
    BY DEF OnCell
  <2> QED
    BY <2>1, PairsFinite, FS_Subset
<1>6. compressed[i] = Tally(upTo(0), Term)
  <2>1. 0 \in ThreadIds /\ i + 0 * L = i
    BY <1>2
  <2>2. upTo(0) = ofThread(0)
    BY <1>2, <1>3
  <2> QED
    BY <1>4, <2>1, <2>2
<1>7. ASSUME NEW t \in ThreadIds, t # 0
      PROVE  /\ t - 1 \in ThreadIds
             /\ Tally(upTo(t), Term) = Tally(upTo(t-1), Term) (+) compressed[i + t * L]
  <2>1. t - 1 \in ThreadIds
    BY <1>2, <1>7
  <2>2. upTo(t) = upTo(t-1) \cup ofThread(t) /\ upTo(t-1) \cap ofThread(t) = {}
    BY <1>2, <1>3, <1>7
  <2>3. compressed[i + t * L] = Tally(ofThread(t), Term)
    BY <1>4
  <2>4. IsFiniteSet(upTo(t-1)) /\ IsFiniteSet(ofThread(t))
    BY <1>5, <2>1
  <2> HIDE DEF upTo, ofThread
  <2>5. Tally(upTo(t-1) \cup ofThread(t), Term)
          = Tally(upTo(t-1), Term) (+) Tally(ofThread(t), Term)
    BY <2>2, <2>4, TallyJoined
  <2> QED
    BY <2>1, <2>2, <2>3, <2>5
<1> HIDE DEF upTo, ofThread
<1>8. expected = Upto(expected)
  <2>1. ASSUME NEW t \in ThreadIds
        PROVE  expected[t] = Upto(expected)[t]
    <3>1. CASE t = 0
      BY <1>6, <3>1
    <3>2. CASE t # 0
      BY <1>7, <3>2
    <3> QED
      BY <3>1, <3>2
  <2> QED
    BY <2>1
<1> HIDE DEF expected
<1>9. chosen = Upto(chosen)
  BY <1>8
<1> HIDE DEF chosen
<1>10. chosen[0] = expected[0]
  BY <1>2, <1>8, <1>9
<1>11. ASSUME NEW t \in Nat, t + 1 <= Threads - 1, chosen[t] = expected[t]
       PROVE  chosen[t+1] = expected[t+1]
  <2>1. t + 1 \in ThreadIds /\ t + 1 # 0 /\ (t + 1) - 1 = t
    BY <1>2, <1>11
  <2>2. /\ chosen[t+1] = chosen[t] (+) compressed[i + (t+1) * L]
        /\ expected[t+1] = expected[t] (+) compressed[i + (t+1) * L]
    BY <1>8, <1>9, <2>1
  <2> QED
    BY <1>11, <2>2
<1>12. chosen[Threads - 1] = expected[Threads - 1]
  <2>1. Threads - 1 \in Nat
    BY <1>2
  <2> QED
    BY <1>10, <1>11, <2>1, SumIsUnique
<1>13. expected[Threads - 1] = Tally(OnCell(c), Term)
  <2>1. upTo(Threads - 1) = OnCell(c)
    BY <1>2, <1>3 DEF upTo
  <2> QED
    BY <1>2, <2>1 DEF expected
<1> QED
  BY <1>1, <1>12, <1>13

\* The result is filled from the sums, cell by cell.
LEMMA OutputFilled ==
  ASSUME SetupInv, CountInv, pc = "summed", NEW c \in AllCells
  PROVE  summed[Mapping(c)] = Tally(OnCell(c), Term)
<1>1. Mapping(c) \in 0 .. Len(nonZeros) - 1 /\ nonZeros[Mapping(c) + 1] = c
  BY PlaceOfCell
<1>2. summed = [i \in 0 .. Len(nonZeros) - 1 |-> Tally(OnCell(nonZeros[i+1]), Term)]
  BY DEF CountInv
<1> QED
  BY <1>1, <1>2

\* Without images the cells are those of one grid.
LEMMA CellsOnGrid ==
  ASSUME SetupInv, kind = "serial"
  PROVE  AllCells \subseteq 0 .. FtSize - 1
<1> SUFFICES ASSUME NEW m \in Rows, NEW tap \in Taps(ju_max, jv_max)
             PROVE  Index(m, tap) \in 0 .. FtSize - 1
  BY DEF AllCells
<1> DEFINE row == mod(FirstTap(uv[m][2], jv_max) + tap[2], ftsizev)
           col == mod(FirstTap(uv[m][1], ju_max) + tap[1], ftsizeu)
<1>1. /\ ftsizeu \in Nat /\ ftsizeu > 0 /\ ftsizev \in Nat /\ ftsizev > 0
      /\ uv[m][1] \in Int /\ uv[m][2] \in Int /\ tap[1] \in Int /\ tap[2] \in Int
  BY Sizes, CellsAreNumbers DEF SetupInv
<1>2. FirstTap(uv[m][1], ju_max) \in Int /\ FirstTap(uv[m][2], jv_max) \in Int
  BY <1>1, Sizes DEF FirstTap
<1>3. row \in 0 .. ftsizev - 1 /\ col \in 0 .. ftsizeu - 1
  BY <1>1, <1>2 DEF mod
<1>4. Index(m, tap) = row * ftsizeu + col
  <2>1. Index(m, tap) = row * ftsizeu + col + 0
    BY DEF Index, TapCell, sub2ind
  <2>2. row * ftsizeu + col \in Int
    BY <1>1, <1>3
  <2> QED
    BY <2>1, <2>2
<1> HIDE DEF row, col
<1>5. PICK k \in Nat : ftsizev = row + 1 + k
  <2>1. ftsizev - row - 1 \in Nat /\ ftsizev = row + 1 + (ftsizev - row - 1)
    BY <1>1, <1>3
  <2> QED
    BY <2>1
<1>6. FtSize = row * ftsizeu + ftsizeu + k * ftsizeu
  BY <1>1, <1>3, <1>5 DEF FtSize
<1> DEFINE before == row * ftsizeu
           behind == k * ftsizeu
<1>7. before \in Nat /\ behind \in Nat
  BY <1>1, <1>3
<1>8. Index(m, tap) = before + col /\ FtSize = before + ftsizeu + behind
  BY <1>4, <1>6
<1> HIDE DEF before, behind
<1> QED
  BY <1>1, <1>3, <1>7, <1>8

LEMMA CountInvNext ==
  SetupInv /\ LoopInv /\ NoInterference /\ CountInv /\ [Next]_vars => CountInv'
<1> SUFFICES ASSUME SetupInv, LoopInv, NoInterference, CountInv, [Next]_vars
             PROVE  CountInv'
  OBVIOUS
<1>1. CASE Setup
  BY <1>1 DEF Setup, CountInv
<1>2. CASE Degrid
  BY <1>2 DEF Degrid, CountInv
<1>3. CASE StartGrid
  <2>1. pc' = "loop"
    BY <1>3 DEF StartGrid
  <2>2. \E owner : Counted(owner)'
    BY <1>3, StartCounts
  <2> QED
    BY <2>1, <2>2 DEF CountInv
<1>4. CASE SumSegments
  <2>1. /\ pc = "loop" /\ waiting = {} /\ \A t \in ThreadIds : thread[t].state = "idle"
        /\ summed' = [i \in 0 .. Len(nonZeros) - 1 |-> SegmentsSummed(i)]
        /\ pc' = "summed" /\ UNCHANGED <<kind, uv, image, nonZeros>>
    BY <1>4 DEF SumSegments
  <2>2. PICK owner : Counted(owner)
    BY <2>1 DEF CountInv
  <2>3. \A i \in 0 .. Len(nonZeros) - 1 :
          SegmentsSummed(i) = Tally(OnCell(nonZeros[i+1]), Term)
    BY <2>1, <2>2, SegmentsAddUp
  <2>4. summed' = [i \in 0 .. Len(nonZeros) - 1 |-> Tally(OnCell(nonZeros[i+1]), Term)]
    BY <2>1, <2>3
  <2>5. Term' = Term /\ nonZeros' = nonZeros /\ \A c : OnCell(c)' = OnCell(c)
    BY <2>1, CellsKept
  <2>6. ([i \in 0 .. Len(nonZeros) - 1 |-> Tally(OnCell(nonZeros[i+1]), Term)])'
          = [i \in 0 .. Len(nonZeros) - 1 |-> Tally(OnCell(nonZeros[i+1]), Term)]
    BY <2>5
  <2> QED
    BY <2>1, <2>4, <2>6 DEF CountInv
<1>5. CASE FillGrid \/ HandOver
  <2>1. /\ pc = "summed" /\ pc' = "done" /\ UNCHANGED <<kind, uv, image, nonZeros>>
        /\ kind = "serial" =>
             output' = [c \in 0 .. FtSize - 1 |->
               IF \E i \in DOMAIN nonZeros : nonZeros[i] = c THEN summed[Mapping(c)]
               ELSE EmptyBag]
        /\ kind # "serial" => output' = [c \in ToSet(nonZeros) |-> summed[Mapping(c)]]
    BY <1>5 DEF FillGrid, HandOver
  <2>2. ASSUME NEW c
        PROVE  (\E i \in DOMAIN nonZeros : nonZeros[i] = c) <=> c \in AllCells
    <3>1. ASSUME c \in AllCells
          PROVE  \E i \in DOMAIN nonZeros : nonZeros[i] = c
      <4>1. /\ Mapping(c) + 1 \in DOMAIN nonZeros /\ nonZeros[Mapping(c) + 1] = c
        <5>1. /\ Mapping(c) \in 0 .. Len(nonZeros) - 1 /\ nonZeros[Mapping(c) + 1] = c
              /\ DOMAIN nonZeros = 1 .. Len(nonZeros) /\ Len(nonZeros) \in Nat
          BY <2>1, <3>1, PlaceOfCell, MappingInside
        <5> QED
          BY <5>1
      <4> QED
        BY <4>1
    <3>2. \A i \in DOMAIN nonZeros : nonZeros[i] \in AllCells
      BY <2>1, PlaceOfCell
    <3> QED
      BY <3>1, <3>2
  <2>3. \A c \in AllCells : summed[Mapping(c)] = Tally(OnCell(c), Term)
    BY <2>1, OutputFilled
  <2>4. \A c : c \notin AllCells => Tally(OnCell(c), Term) = EmptyBag
    BY OnCellExactly, TallyNone
  <2>5. /\ AllCells \subseteq DOMAIN output'
        /\ \A c \in DOMAIN output' : output'[c] = Tally(OnCell(c), Term)
    <3>1. CASE kind = "serial"
      <4>1. AllCells \subseteq 0 .. FtSize - 1
        BY <3>1, CellsOnGrid
      <4>2. output' = [c \in 0 .. FtSize - 1 |->
                         IF c \in AllCells THEN summed[Mapping(c)] ELSE EmptyBag]
        BY <2>1, <2>2, <3>1
      <4> QED
        BY <2>3, <2>4, <4>1, <4>2
    <3>2. CASE kind # "serial"
      <4>1. ToSet(nonZeros) = AllCells
        BY <2>2 DEF ToSet
      <4>2. output' = [c \in AllCells |-> summed[Mapping(c)]]
        BY <2>1, <3>2, <4>1
      <4> QED
        BY <2>3, <4>2
    <3> QED
      BY <3>1, <3>2
  <2>6. Term' = Term /\ AllCells' = AllCells /\ \A c : OnCell(c)' = OnCell(c)
    BY <2>1, CellsKept
  <2> QED
    BY <2>1, <2>5, <2>6 DEF CountInv
<1>6. ASSUME NEW t \in ThreadIds, ThreadStep(t)
      PROVE  CountInv'
  <2>1. pc = "loop" /\ pc' = "loop"
    BY <1>6 DEF ThreadStep, Take, Load, Store, EndRow, LoopInv
  <2>2. PICK owner : Counted(owner)
    BY <2>1 DEF CountInv
  <2>3. \E new : Counted(new)'
    BY <1>6, <2>1, <2>2, TakeCounts, LoadCounts, StoreCounts, EndRowCounts DEF ThreadStep
  <2> QED
    BY <2>1, <2>3 DEF CountInv
<1>7. CASE UNCHANGED vars
  <2>1. UNCHANGED <<kind, uv, image, nonZeros, waiting, thread, compressed, summed, output, pc>>
    BY <1>7 DEF vars
  <2>2. /\ Term' = Term /\ AllCells' = AllCells
        /\ \A c : OnCell(c)' = OnCell(c)
        /\ \A t, m, tap : Place(t, m, tap)' = Place(t, m, tap)
    BY <2>1, CellsKept
  <2>3. ASSUME NEW owner, Counted(owner)
        PROVE  Counted(owner)'
    <3>1. \A t : Added(t, owner)' = Added(t, owner)
      BY <2>1 DEF Added, Pairs
    <3>2. \A t \in ThreadIds : \A i \in 0 .. Len(nonZeros') - 1 : Segment(t, i, owner)'
      BY <2>1, <2>3, <3>1, SegmentsKept
    <3>3. \A t \in ThreadIds : AtWork(t, owner)'
      BY <2>1, <2>2, <2>3 DEF Counted, AtWork
    <3> QED
      BY <2>1, <2>3, <3>2, <3>3 DEF Counted
  <2>4. pc' = "loop" => \E owner : Counted(owner)'
    BY <2>1, <2>3 DEF CountInv
  <2>5. (pc = "summed" =>
          summed = [i \in 0 .. Len(nonZeros) - 1 |-> Tally(OnCell(nonZeros[i+1]), Term)])'
    BY <2>1, <2>2 DEF CountInv
  <2>6. (pc = "done" => /\ AllCells \subseteq DOMAIN output
                        /\ \A c \in DOMAIN output : output[c] = Tally(OnCell(c), Term))'
    BY <2>1, <2>2 DEF CountInv
  <2> QED
    BY <2>4, <2>5, <2>6 DEF CountInv
<1> QED
  BY <1>1, <1>2, <1>3, <1>4, <1>5, <1>6, <1>7 DEF Next, Caller

\* At every time there is an assignment of the visibilities to the threads by which each
\* segment holds what its thread has added (fly_operators.h:131).
THEOREM CountInvAlways == Spec => [](SetupInv /\ LoopInv /\ NoInterference /\ CountInv)
<1>1. Init => CountInv
  BY DEF Init, CountInv
<1>2. SetupInv /\ LoopInv /\ NoInterference /\ [Next]_vars => LoopInv' /\ NoInterference'
  BY LoopInvNext
<1> QED
  BY <1>1, <1>2, CountInvNext, LoopInvInit, SetupInvAlways, PTL DEF Spec

\* Whatever the schedule of the threads and whichever constructor was called, every cell
\* ends with one contribution for each tap of a visibility on it, and the others with none
\* (fly_operators.h:138, 284, 441).
THEOREM GridHasEveryContribution == Spec => []EveryContributionOnce
<1>1. CountInv => EveryContributionOnce
  <2> SUFFICES ASSUME CountInv, pc = "done", NEW c
               PROVE  (IF c \in DOMAIN output THEN output[c] ELSE EmptyBag) = Contributions(c)
    BY DEF EveryContributionOnce
  <2>1. Contributions(c) = Tally(OnCell(c), Term)
    BY ContributionsTallied
  <2>2. CASE c \in DOMAIN output
    BY <2>1, <2>2 DEF CountInv
  <2>3. CASE c \notin DOMAIN output
    <3>1. OnCell(c) = {}
      BY <2>3, OnCellExactly DEF CountInv
    <3> QED
      BY <2>1, <2>3, <3>1, TallyNone
  <2> QED
    BY <2>2, <2>3
<1> QED
  BY <1>1, CountInvAlways, PTL

LEMMA DoneIsAdjoint == SetupInv /\ CountInv => GridIsAdjoint
<1> SUFFICES ASSUME SetupInv, CountInv, pc = "done", NEW m \in Rows, NEW c \in DOMAIN output
             PROVE  {f.factor : f \in {x \in degridded[m] : x.cell = c}}
                      = {x.factor : x \in {y \in DOMAIN output[c] : y.row = m}}
  BY DEF GridIsAdjoint
<1> DEFINE taps == {tap \in Taps(ju_max, jv_max) : Index(m, tap) = c}
           read(tap) == [cell |-> IF kind = "serial" THEN Index(m, tap)
                                  ELSE nonZeros[Mapping(Index(m, tap)) + 1],
                         factor |-> Coefficient(m, tap)]
<1>1. degridded[m] = {read(tap) : tap \in Taps(ju_max, jv_max)}
  BY DEF SetupInv, Reads
<1>2. \A tap \in Taps(ju_max, jv_max) : read(tap).cell = Index(m, tap)
  <2>1. \A tap \in Taps(ju_max, jv_max) : Index(m, tap) \in AllCells
    BY DEF AllCells
  <2> QED
    BY <2>1, PlaceOfCell
<1>3. \A tap : read(tap).factor = Coefficient(m, tap)
  OBVIOUS
<1> HIDE DEF read
<1>4. {f.factor : f \in {x \in degridded[m] : x.cell = c}} = {Coefficient(m, tap) : tap \in taps}
  BY <1>1, <1>2, <1>3
<1>5. DOMAIN output[c] = {Term[mt] : mt \in OnCell(c)}
  BY DEF CountInv, Tally
<1>6. \A mt \in OnCell(c) : /\ mt = <<mt[1], mt[2]>> /\ Term[mt].row = mt[1]
                            /\ Term[mt].factor = Coefficient(mt[1], mt[2])
  BY DEF OnCell, Pairs, Term
<1>7. \A tap : tap \in taps <=> <<m, tap>> \in OnCell(c)
  BY DEF OnCell, Pairs
<1> HIDE DEF taps
<1>8. {x.factor : x \in {y \in DOMAIN output[c] : y.row = m}} = {Coefficient(m, tap) : tap \in taps}
  <2>1. ASSUME NEW x \in DOMAIN output[c], x.row = m
        PROVE  \E tap \in taps : x.factor = Coefficient(m, tap)
    <3>1. PICK mt \in OnCell(c) : x = Term[mt]
      BY <1>5
    <3>2. mt = <<m, mt[2]>> /\ x.factor = Coefficient(m, mt[2])
      BY <1>6, <2>1, <3>1
    <3> QED
      BY <1>7, <3>1, <3>2
  <2>2. ASSUME NEW tap \in taps
        PROVE  \E x \in DOMAIN output[c] : x.row = m /\ x.factor = Coefficient(m, tap)
    <3>1. <<m, tap>> \in OnCell(c)
      BY <1>7
    <3>2. Term[<<m, tap>>] \in DOMAIN output[c]
      BY <1>5, <3>1
    <3> QED
      BY <1>6, <3>1, <3>2
  <2> QED
    BY <2>1, <2>2
<1> QED
  BY <1>4, <1>8

\* Gridding is the adjoint of degridding for every number of threads: what a visibility
\* adds to a cell has the factors with which it has read it (fly_operators.h:55, 131).
THEOREM GriddingIsAdjoint == Spec => []GridIsAdjoint
  BY CountInvAlways, DoneIsAdjoint, PTL
===============================================================================
