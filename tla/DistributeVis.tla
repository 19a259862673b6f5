---------------------------- MODULE DistributeVis ----------------------------
(***************************************************************************)
(* How a measurement set reaches the ranks of an MPI run:                  *)
(* read_measurements reads it on the root, distribute_measurements assigns *)
(* a rank to every visibility, regroup_and_scatter sorts the columns by    *)
(* rank and scatter_visibilities sends every rank its share, one           *)
(* collective call per column.  The root buffers what it sends, so it may  *)
(* run ahead of the other ranks; calls are matched by their order only.    *)
(***************************************************************************)
EXTENDS Arrangements, FiniteSets, Sequences

CONSTANTS
  Sizes,    \* numbers of ranks a run may have: comm.size()
  Counts,   \* numbers of visibilities a measurement set may hold
  SortKeys  \* values the plans sort by: w, distance from the centre, density

ASSUME SizesAssumption == Sizes \subseteq Nat \ {0}
ASSUME CountsAssumption == Counts \subseteq Nat
ASSUME SortKeysAssumption == SortKeys \subseteq Int

VARIABLES
  size,    \* the number of ranks of this run
  file,    \* what reading yields: "good", "runtime_error" or "other_error"
  plan,    \* distribute::plan, or a value that is none of them ("unknown")
  key,     \* for every visibility, the value a sorting plan compares
  spread,  \* for plan equal: whether u and v each take more than one value
  order,   \* partitions: the rank of every visibility, once distributed
  table,   \* the root's copy after regroup: original index at every position
  inbox,   \* for every rank, the buffered messages of the collectives
  result,  \* for every rank and attribute, the values received
  calls,   \* for every rank, the collective calls it has completed
  pc       \* for every rank, where it is

vars == <<size, file, plan, key, spread, order, table, inbox, result, calls, pc>>

AllRanks == UNION {0 .. s-1 : s \in Sizes}
Ranks == 0 .. size-1
Root == 0
Count == Len(key)
Data == 0 .. Count-1

\* The collective calls of the two overloads of scatter_visibilities, in order.
Columns == <<"u", "v", "w", "vis", "weights">>
Header == <<"units", "ra", "dec", "average_frequency">>
\* Faulty variant: the root leaves out the last broadcast.
RootCallsShort == <<"sizes">> \o Columns \o <<"units", "ra", "dec">>

RootCalls == <<"sizes">> \o Columns \o Header
OtherCalls == <<"sizes">> \o Columns \o Header

ColumnNames == {Columns[k] : k \in DOMAIN Columns}

(***************************************************************************)
(* distribute_measurements                                                 *)
(***************************************************************************)

\* Eigen's integer LinSpaced(n, 0, n): n values from 0 with the constant integer step
\* n / (n-1); a single value is the upper bound.  It is 0..n-1 only from n = 3 on.
LinSpaced(n) == [p \in 0 .. n-1 |-> IF n = 1 THEN 1 ELSE p * (n \div (n-1))]

SortingPlans == {"equal", "radial", "w_term"}

\* std::sort of the indices by the plan's key, smallest first; the order of equal keys
\* is not fixed.
SortedIndices ==
  {f \in Permutations(Data) : SortedBy(Data, f, [d \in Data |-> key[d+1]])}

Indices == IF plan = "none" \/ Count <= 2 THEN {LinSpaced(Count)} ELSE SortedIndices

\* equal_distribution takes the extremes of u and v and divides by their range before it
\* counts the visibilities of every cell.  No visibilities have no extremes, and with a
\* range of zero 0/0 is cast to the index of a cell.
NoHistogram == plan = "equal" /\ ~spread

\* ceil(n / number_of_nodes): visibilities of a node, but for the last one.
PartitionSize == (Count + size - 1) \div size

\* Faulty variant: the permutation used instead of its inverse.
PartitionsInverse(index) == [d \in Data |-> index[d] \div PartitionSize]

\* partitions[index(p)] = floor(p / partition_size)
Partitions(index) ==
  [d \in Data |->
     LET place == CHOOSE p \in Data : index[p] = d IN place \div PartitionSize]

TooManyNodes == Count > 0 /\ (Count - 1) \div PartitionSize > size - 1

(***************************************************************************)
(* regroup_and_scatter                                                     *)
(***************************************************************************)

ShareSize(r) == Cardinality({d \in Data : order[d] = r})

\* Where the share of rank r begins in the regrouped columns; MPI's scatterv gets
\* the shares in rank order.
Offset(r) == Cardinality({d \in Data : order[d] < r})

\* Faulty variant: every share taken from the beginning of the column.
ShareFromStart(a, r) == [p \in 1 .. ShareSize(r) |-> <<a, table[p - 1]>>]

\* The values of attribute a that the root sends to rank r.
Share(a, r) == [p \in 1 .. ShareSize(r) |-> <<a, table[Offset(r) + p - 1]>>]

Payload(a, r) ==
  IF a = "sizes" THEN <<<<a, ShareSize(r)>>>>
  ELSE IF a \in ColumnNames THEN Share(a, r)
  ELSE <<<<a, "root">>>>

Empty == [a \in ColumnNames \cup {Header[k] : k \in DOMAIN Header} |-> <<>>]

Init ==
  /\ size \in Sizes
  /\ file \in {"good", "runtime_error", "other_error"}
  /\ plan \in SortingPlans \cup {"none", "unknown"}
  /\ \E n \in Counts : key \in [1 .. n -> SortKeys]
  /\ spread \in IF plan = "equal" /\ Count > 1 THEN BOOLEAN ELSE {FALSE}
  /\ order = <<>> /\ table = <<>>
  /\ inbox = [r \in Ranks |-> <<>>]
  /\ result = [r \in Ranks |-> Empty]
  /\ calls = [r \in Ranks |-> 0]
  /\ pc = [r \in Ranks |-> IF r = Root THEN "read" ELSE "receive"]

\* Faulty variant: the root logs the error and goes on with the empty set.
ReadMeasurementsGoesOn ==
  /\ pc[Root] = "read"
  /\ pc' = [pc EXCEPT ![Root] = CASE file = "good" -> "distribute"
                                  [] file = "runtime_error" -> "returned"
                                  [] OTHER -> "threw"]
  /\ UNCHANGED <<size, file, plan, key, spread, order, table, inbox, result, calls>>

\* The root reads the file; a runtime_error aborts the whole communicator, any other
\* exception leaves read_measurements.  A single rank keeps all the data.
ReadMeasurements ==
  /\ pc[Root] = "read"
  /\ \/ /\ file = "good"
        /\ size = 1
        /\ result' = [result EXCEPT ![Root] =
             [a \in DOMAIN Empty |-> IF a \in ColumnNames
                THEN [p \in 1 .. Count |-> <<a, p-1>>] ELSE <<<<a, "root">>>>]]
        /\ pc' = [pc EXCEPT ![Root] = "returned"]
     \/ /\ file = "good"
        /\ size > 1
        /\ pc' = [pc EXCEPT ![Root] = "distribute"]
        /\ UNCHANGED result
     \/ /\ file = "runtime_error"
        /\ pc' = [r \in Ranks |-> "aborted"]
        /\ UNCHANGED result
     \/ /\ file = "other_error"
        /\ pc' = [pc EXCEPT ![Root] = "threw"]
        /\ UNCHANGED result
  /\ UNCHANGED <<size, file, plan, key, spread, order, table, inbox, calls>>

\* distribute_measurements runs outside the try block of read_measurements.  Without a
\* histogram, and with one or two visibilities, whose indices leave the data, what it
\* does is undefined.
DistributeMeasurements ==
  /\ pc[Root] = "distribute"
  /\ \/ /\ NoHistogram
        /\ pc' = [pc EXCEPT ![Root] = "undefined"]
        /\ UNCHANGED order
     \/ /\ ~NoHistogram
        /\ plan = "unknown" \/ TooManyNodes
        /\ pc' = [pc EXCEPT ![Root] = "threw"]
        /\ UNCHANGED order
     \/ /\ ~NoHistogram /\ plan # "unknown" /\ ~TooManyNodes
        /\ \E index \in Indices :
             IF \E p \in Data : index[p] \notin Data
             THEN /\ pc' = [pc EXCEPT ![Root] = "undefined"]
                  /\ UNCHANGED order
             ELSE /\ order' = Partitions(index)
                  /\ pc' = [pc EXCEPT ![Root] = "regroup"]
  /\ UNCHANGED <<size, file, plan, key, spread, table, inbox, result, calls>>

\* regroup_and_scatter: every group must be a rank; regroup then sorts all columns.
RegroupColumns ==
  /\ pc[Root] = "regroup"
  /\ IF \E d \in Data : order[d] > size
     THEN /\ pc' = [pc EXCEPT ![Root] = "threw"]
          /\ UNCHANGED table
     ELSE /\ table' \in {f \in Permutations(Data) : SortedBy(Data, f, order)}
          /\ pc' = [pc EXCEPT ![Root] = "send"]
  /\ UNCHANGED <<size, file, plan, key, spread, order, inbox, result, calls>>

CallsOf(r) == IF r = Root THEN RootCalls ELSE OtherCalls

Complete(r) == IF calls[r] + 1 = Len(CallsOf(r)) THEN "returned" ELSE pc[r]

Store(r, a, values) ==
  result' = IF a = "sizes" THEN result
            ELSE [result EXCEPT ![r] = [@ EXCEPT ![a] = values]]

\* One collective call of the root: a message to every other rank, its own share kept.
RootCall ==
  /\ pc[Root] = "send"
  /\ LET a == CallsOf(Root)[calls[Root] + 1]
     IN  /\ inbox' = [r \in Ranks |->
              IF r = Root THEN <<>> ELSE Append(inbox[r], Payload(a, r))]
         /\ Store(Root, a, Payload(a, Root))
  /\ calls' = [calls EXCEPT ![Root] = @ + 1]
  /\ pc' = [pc EXCEPT ![Root] = Complete(Root)]
  /\ UNCHANGED <<size, file, plan, key, spread, order, table>>

\* The matching call of another rank, which waits for the message of the root.
OtherCall(r) ==
  /\ pc[r] = "receive"
  /\ inbox[r] # <<>>
  /\ Store(r, CallsOf(r)[calls[r] + 1], Head(inbox[r]))
  /\ inbox' = [inbox EXCEPT ![r] = Tail(@)]
  /\ calls' = [calls EXCEPT ![r] = @ + 1]
  /\ pc' = [pc EXCEPT ![r] = Complete(r)]
  /\ UNCHANGED <<size, file, plan, key, spread, order, table>>

RootStep == ReadMeasurements \/ DistributeMeasurements \/ RegroupColumns \/ RootCall

Next == RootStep \/ \E r \in Ranks \ {Root} : OtherCall(r)

Spec ==
  /\ Init /\ [][Next]_vars
  /\ WF_vars(RootStep)
  /\ \A r \in AllRanks \ {Root} : WF_vars(r \in Ranks /\ OtherCall(r))

------------------------------------------------------------------------------

PCs == {"read", "distribute", "regroup", "send", "receive", "returned",
        "aborted", "threw", "undefined"}

TypeOK ==
  /\ \E n \in Counts : key \in [1 .. n -> SortKeys]
  /\ spread \in BOOLEAN
  /\ order # <<>> => order \in [Data -> Ranks]
  /\ table # <<>> => table \in Permutations(Data)
  /\ \A r \in Ranks : Len(inbox[r]) <= Len(RootCalls)
  /\ DOMAIN result = Ranks
  /\ calls \in [Ranks -> 0 .. Len(RootCalls)]
  /\ pc \in [Ranks -> PCs]

\* A rank that returned holds the visibilities the plan assigned to it, each of them
\* once, and none of another rank.  The rows survive the five separate scatters: the
\* entries of u, v, w, vis and weights at one place are those of one visibility, and the
\* header is that of the root.
EveryVisibilityOnce ==
  \A r \in Ranks : pc[r] = "returned" =>
    /\ \A d \in Data :
         Cardinality({k \in DOMAIN result[r]["u"] :
                        \A a \in ColumnNames : k \in DOMAIN result[r][a] /\ result[r][a][k] = <<a, d>>})
           = IF size = 1 \/ order[d] = r THEN 1 ELSE 0
    /\ \A a \in ColumnNames :
         Len(result[r][a]) = Cardinality({d \in Data : size = 1 \/ order[d] = r})
    /\ \A k \in DOMAIN Header : result[r][Header[k]] = <<<<Header[k], "root">>>>

\* The plans that sort give every rank a range of the sorted quantity: the ranges of two
\* ranks do not overlap.  (Which rank gets the smallest values is left open: the code
\* sorts upwards, the comment of w_distribution says "from w_max to w_min".)  And with
\* every plan no rank gets more than its part, rounded up.
SharesAreRanges ==
  order # <<>> =>
    /\ plan \in SortingPlans =>
         \A r, q \in Ranks : r # q =>
           \/ \A d, e \in Data : order[d] = r /\ order[e] = q => key[d+1] <= key[e+1]
           \/ \A d, e \in Data : order[d] = r /\ order[e] = q => key[d+1] >= key[e+1]
    /\ \A r \in Ranks : ShareSize(r) <= PartitionSize

\* What distribute_measurements can work with: a plan of the enumeration, indices within
\* the data and, for the plan by density, a range of u and of v.
Distributable == plan # "unknown" /\ Count \notin {1, 2} /\ ~NoHistogram

\* If the file is good, every rank gets its share, however far the root runs ahead.
Delivered ==
  file = "good" /\ (size = 1 \/ Distributable)
    ~> \A r \in Ranks : pc[r] = "returned"

\* Whatever comes of reading and distributing, no rank goes on with its share while
\* another is left waiting for its own: where the root fails nobody returns, and where
\* one rank has returned the others do.
NoneReturnsAlone ==
  (\E r \in Ranks : pc[r] = "returned") ~> (\A r \in Ranks : pc[r] = "returned")
==============================================================================
