------------------------------- MODULE Regroup -------------------------------
(***************************************************************************)
(* utilities::regroup (mpi_utilities.cc): the in-place rearrangement of    *)
(* the columns of a set of visibilities so that the data of every group    *)
(* is contiguous.  The loop follows cycles: a datum found outside its      *)
(* segment is exchanged with the first entry of its own segment that is    *)
(* not yet in place.  Positions are 0-based, as in the code.               *)
(***************************************************************************)
EXTENDS Integers, FiniteSets

CONSTANTS
  N,          \* number of visibilities: uv_params.size()
  Lengths,    \* lengths the groups_ argument may have
  MaxGroups,  \* max_groups
  Keys,       \* group keys that may appear in groups_
  Arrays      \* the arrays exchanged together: u, v, w, vis, weights, image_index

ASSUME NAssumption == N \in Nat
ASSUME MaxGroupsAssumption == MaxGroups \in Nat \ {0}
ASSUME KeysAssumption == Keys \subseteq Nat
ASSUME LengthsAssumption == Lengths \subseteq Nat /\ \A l \in Lengths : l >= N
ASSUME ArraysAssumption == Arrays # {}

VARIABLES
  given,    \* groups_, the argument
  groups,   \* the local copy of groups_ that is sorted
  column,   \* for every column, the original index of the datum at a position
  indices,  \* for every key, the next entry of its segment to fill
  i,        \* the loop variable
  phase     \* "start", "loop", "done", "rejected", "thrown" or "pastEnd"

regroupVars == <<given, groups, column, indices, i, phase>>

Pos == 0 .. N-1

\* Keys of the std::map sizes: all of 0..max_groups-1 and every key met in groups_.
Mapped == (0 .. MaxGroups-1) \cup {given[p] : p \in DOMAIN given}

\* Bounds of the segment of key g: where it begins and where it ends (exclusive).
Start(g) == Cardinality({p \in DOMAIN given : given[p] < g})
End(g) == Cardinality({p \in DOMAIN given : given[p] <= g})

\* Faulty variant: i <= end instead of i < end.
ExpectedOffByOne(k) == Cardinality({g \in Mapped : End(g) < k})

\* The lambda expected: how many segments end at or before k.  This is the rank
\* of the segment of k among the map's keys, not the key itself.
Expected(k) == Cardinality({g \in Mapped : End(g) <= k})

TotalSize == Cardinality(DOMAIN given)

RegroupInit ==
  /\ \E l \in Lengths : given \in [0 .. l-1 -> Keys]
  /\ groups = given
  /\ column = [c \in Arrays |-> [p \in Pos |-> p]]
  /\ indices = [g \in Mapped |-> Start(g)]
  /\ i = 0
  /\ phase = "start"

\* Faulty variant: the comparison of the ends left out.
CheckEndsDropped ==
  /\ phase = "start"
  /\ phase' = "loop"
  /\ UNCHANGED <<given, groups, column, indices, i>>

\* The last segment ends at the length of groups_, which must not exceed the data.
CheckEnds ==
  /\ phase = "start"
  /\ phase' = IF TotalSize > N THEN "rejected" ELSE "loop"
  /\ UNCHANGED <<given, groups, column, indices, i>>

Misplaced ==
  /\ phase = "loop"
  /\ i < N
  /\ groups[i] # Expected(i)

Swapper == indices[groups[i]]

\* Faulty variant: a datum of a later group accepted.
AdvanceAtLeast ==
  /\ phase = "loop"
  /\ i < N
  /\ groups[i] >= Expected(i)
  /\ i' = i + 1
  /\ UNCHANGED <<given, groups, column, indices, phase>>

\* The entry at i already belongs to the segment of i.
Advance ==
  /\ phase = "loop"
  /\ i < N
  /\ groups[i] = Expected(i)
  /\ i' = i + 1
  /\ UNCHANGED <<given, groups, column, indices, phase>>

\* Faulty variant: the free entry is not moved on.
SkipPlacedStuck == Misplaced /\ Swapper < N /\ groups[Swapper] = Expected(Swapper)
                   /\ UNCHANGED regroupVars

\* The candidate entry of the segment already holds a datum of that segment.
SkipPlaced ==
  /\ Misplaced
  /\ Swapper < N
  /\ groups[Swapper] = Expected(Swapper)
  /\ indices' = [indices EXCEPT ![groups[i]] = @ + 1]
  /\ UNCHANGED <<given, groups, column, i, phase>>

Exchange(f, p, q) == [f EXCEPT ![p] = f[q], ![q] = f[p]]

\* Faulty variant: one array is not swapped.
SwapInForgetsColumn ==
  /\ Misplaced
  /\ Swapper < N
  /\ groups[Swapper] # Expected(Swapper)
  /\ groups' = Exchange(groups, i, Swapper)
  /\ column' = [c \in Arrays |->
       IF c = "image_index" THEN column[c] ELSE Exchange(column[c], i, Swapper)]
  /\ indices' = [indices EXCEPT ![groups[i]] = @ + 1]
  /\ UNCHANGED <<given, i, phase>>

\* Put the datum at i into its segment, in every column.
SwapIn ==
  /\ Misplaced
  /\ Swapper < N
  /\ groups[Swapper] # Expected(Swapper)
  /\ groups' = Exchange(groups, i, Swapper)
  /\ column' = [c \in Arrays |-> Exchange(column[c], i, Swapper)]
  /\ indices' = [indices EXCEPT ![groups[i]] = @ + 1]
  /\ UNCHANGED <<given, i, phase>>

\* groups[swapper] is read before swapper is compared with the size.  Past the end
\* of the vector the value is arbitrary: either it is not the expected one and the
\* comparison throws, or the code goes on reading beyond the vector.
ReadPastEnd ==
  /\ Misplaced
  /\ Swapper >= N
  /\ phase' \in {"thrown", "pastEnd"}
  /\ UNCHANGED <<given, groups, column, indices, i>>

Finish ==
  /\ phase = "loop"
  /\ i >= N
  /\ phase' = "done"
  /\ UNCHANGED <<given, groups, column, indices, i>>

RegroupNext ==
  \/ CheckEnds
  \/ Advance
  \/ SkipPlaced
  \/ SwapIn
  \/ ReadPastEnd
  \/ Finish

RegroupSpec == RegroupInit /\ [][RegroupNext]_regroupVars /\ WF_regroupVars(RegroupNext)

------------------------------------------------------------------------------

RegroupTypeOK ==
  /\ \E l \in Lengths : given \in [0 .. l-1 -> Keys]
  /\ groups \in [DOMAIN given -> Mapped]
  /\ column \in [Arrays -> [Pos -> Pos]]
  /\ indices \in [Mapped -> Nat]
  /\ i \in 0..N
  /\ phase \in {"start", "loop", "done", "rejected", "thrown", "pastEnd"}

\* The keys the callers of regroup pass: ranks, or plan indices below max_groups.
KeysFit == \A p \in DOMAIN given : given[p] < MaxGroups

\* No datum is lost or repeated in a column: whatever the keys, at every step each
\* column is a permutation of what the caller passed (the swaps of regroup).
Conserved ==
  \A c \in Arrays, p, q \in Pos : column[c][p] = column[c][q] => p = q

\* The columns move together and with the groups: at every step a position holds
\* the u, v, w, vis, weight and image index of one datum, whose group is groups[p].
Aligned ==
  \A c, d \in Arrays, p \in Pos :
    /\ column[c][p] = column[d][p]
    /\ groups[p] = given[column[c][p]]

\* With keys below max_groups the unchecked read groups[swapper] is in bounds: the
\* free entry of a segment never reaches the end of that segment while a datum of the
\* segment is still elsewhere.
InBounds ==
  KeysFit => /\ phase \notin {"thrown", "pastEnd"}
             /\ Misplaced => Swapper < End(groups[i])

\* What regroup_and_scatter relies on to cut the columns by the group sizes: at the
\* end the segment of every key holds the data of that key.
SegmentsHold ==
  KeysFit /\ phase = "done" =>
    \A g \in Mapped : \A p \in Start(g) .. End(g)-1 : groups[p] = g

\* The documentation of regroup in mpi_utilities.h, for keys below max_groups: the data
\* of the group with the smallest key comes first, then the next smallest key.
SmallestKeyFirst ==
  KeysFit /\ phase = "done" => \A p, q \in Pos : p < q => groups[p] <= groups[q]

\* The inductive invariant of the loop, conjunct by conjunct: past the check of the
\* ends groups_ is as long as the data; the entries before i are where they belong;
\* and with keys below max_groups the entries of a segment before its next free one
\* are filled, while exchanging data changes no group's size.
Checked == phase \in {"loop", "done"} => DOMAIN given = Pos
Passed ==
  /\ \A p \in 0 .. i-1 : groups[p] = Expected(p)
  /\ phase = "done" => i = N
  /\ phase = "start" => i = 0
Filled ==
  \A g \in Mapped :
    /\ Start(g) <= indices[g] /\ indices[g] <= End(g)
    /\ \A p \in Start(g) .. indices[g]-1 : groups[p] = g
Counted ==
  \A g \in Mapped :
    Cardinality({p \in DOMAIN given : groups[p] = g}) = End(g) - Start(g)

IInv ==
  /\ RegroupTypeOK
  /\ Checked
  /\ Passed
  /\ KeysFit /\ DOMAIN given = Pos => Filled /\ Counted
  /\ KeysFit => phase \notin {"thrown", "pastEnd"}

\* The entries before i are final: a later exchange of the cycle never takes back
\* a datum the loop has already accepted.
PassedIsFinal ==
  [][\A p \in 0 .. i-1 : \A c \in Arrays : column'[c][p] = column[c][p]]_regroupVars

\* The while loop ends, whatever the keys, although i stays put when data are exchanged.
Termination == <>(phase \notin {"start", "loop"})

------------------------------------------------------------------------------
(***************************************************************************)
(* Regroup implements Partition: the caller sees the data when the loop    *)
(* has ended.                                                              *)
(***************************************************************************)
Seen == IF phase = "done" THEN column ELSE [c \in Arrays |-> [p \in Pos |-> p]]

Outcome ==
  CASE phase = "done" -> "arranged"
    [] phase = "rejected" -> "refused"
    [] OTHER -> "asked"

Promise == INSTANCE Partition WITH Columns <- Arrays, table <- Seen, status <- Outcome

\* regroup delivers what its documentation says: all columns permuted alike in one
\* visible step and, with keys below max_groups, sorted by group; or an exception and
\* the data untouched.
ImplementsPartition == Promise!Spec
==============================================================================
