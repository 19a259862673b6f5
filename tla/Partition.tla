------------------------------ MODULE Partition ------------------------------
(***************************************************************************)
(* What regroup promises its callers: in one step, all the columns of a    *)
(* data set are permuted alike so that the data of every group is          *)
(* contiguous and the groups follow one another by increasing key.         *)
(* Arrays of groups that do not match the data are refused.  Keys of       *)
(* MaxGroups or more leave the order open, or bring no result at all.      *)
(***************************************************************************)
EXTENDS Arrangements

CONSTANTS
  N,          \* number of data
  Lengths,    \* lengths the array of groups may have
  MaxGroups,  \* the keys of the groups asked for lie below
  Keys,       \* group keys
  Columns     \* columns of the data set

VARIABLES
  given,    \* the group of every datum
  table,    \* for every column, the original index of the datum at a position
  status    \* "asked", "arranged" or "refused"

vars == <<given, table, status>>

Pos == 0 .. N-1

Init ==
  /\ \E l \in Lengths : given \in [0 .. l-1 -> Keys]
  /\ table = [c \in Columns |-> [p \in Pos |-> p]]
  /\ status = "asked"

KeysFit == \A p \in DOMAIN given : given[p] < MaxGroups

Arrange ==
  /\ status = "asked"
  /\ DOMAIN given = Pos
  /\ \E f \in Permutations(Pos) :
       /\ KeysFit => SortedBy(Pos, f, given)
       /\ table' = [c \in Columns |-> f]
  /\ status' = "arranged"
  /\ UNCHANGED given

Refuse ==
  /\ status = "asked"
  /\ DOMAIN given # Pos
  /\ status' = "refused"
  /\ UNCHANGED <<given, table>>

Next == Arrange \/ Refuse

Spec == Init /\ [][Next]_vars
==============================================================================
