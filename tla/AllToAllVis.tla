------------------------------ MODULE AllToAllVis ------------------------------
(***************************************************************************)
(* regroup_and_all_to_all: every rank regroups its visibilities by the     *)
(* rank they go to, and the ranks exchange them with one all_to_allv per   *)
(* column and one for the index of the image they belong to.  The k-th     *)
(* collective call of a rank meets the k-th call of the others, whatever   *)
(* the columns are.                                                        *)
(***************************************************************************)
EXTENDS StackedRanks, Arrangements

VARIABLES
  indexFirst, \* whether make_tuple evaluates the exchange of the index first
  copy,      \* for every rank, its columns after regroup: own index at every position
  sizes,     \* for every rank, how many of its visibilities go to each rank
  posted,    \* for every rank, the number of the collective call it is in
  result     \* for every rank and column, the values received

exchangeVars == <<indexFirst, copy, sizes, posted, result>>

Count(r) == Len(groups[r])
Data(r) == 0 .. Count(r) - 1

Columns == <<"u", "v", "w", "vis", "weights">>
Header == <<"units", "ra", "dec", "average_frequency">>

\* Faulty variant: rank 0 exchanges v before u.
CallsInOtherOrder(r) ==
  IF r = Root THEN <<"v", "u", "w", "vis", "weights">> \o Header \o <<"image_index">>
  ELSE Columns \o Header \o <<"image_index">>

\* The calls in order.  The two arguments of make_tuple may be evaluated either way
\* round, the same one on all ranks: they run one program.
Calls(r) ==
  IF indexFirst THEN <<"image_index">> \o Columns \o Header
  ELSE Columns \o Header \o <<"image_index">>

PerVisibility == {Columns[k] : k \in DOMAIN Columns} \cup {"image_index"}
HeaderFields == {Header[k] : k \in DOMAIN Header}
Last == Len(Columns) + Len(Header) + 1

ExchangeInit ==
  /\ indexFirst \in BOOLEAN
  /\ copy = [r \in Ranks |-> <<>>]
  /\ sizes = [r \in Ranks |-> [q \in Ranks |-> 0]]
  /\ posted = [r \in Ranks |-> 0]
  /\ result = [r \in Ranks |-> [a \in PerVisibility \cup HeaderFields |-> <<>>]]

GroupSize(r, g) == Cardinality({d \in Data(r) : groups[r][d + 1] = g})

\* Faulty variant: a group that is no rank is let through by a check that is one off.
RegroupColumnsOffByOne(r) ==
  /\ pc[r] = "regroup"
  /\ \E f \in Permutations(Data(r)) :
       /\ SortedBy(Data(r), f, [d \in Data(r) |-> groups[r][d + 1]])
       /\ copy' = [copy EXCEPT ![r] = f]
  /\ IF \E d \in Data(r) : groups[r][d + 1] > Size
     THEN /\ pc' = [pc EXCEPT ![r] = "threw"]
          /\ UNCHANGED <<sizes, posted>>
     ELSE /\ sizes' = [sizes EXCEPT ![r] = [q \in Ranks |-> GroupSize(r, q)]]
          /\ posted' = [posted EXCEPT ![r] = 1]
          /\ pc' = [pc EXCEPT ![r] = "exchange"]
  /\ UNCHANGED <<groups, indexFirst, result>>

\* regroup on the copies of the columns and of the index, then the count of what goes
\* where, which refuses a group that is no rank; then the first exchange is entered.
RegroupColumns(r) ==
  /\ pc[r] = "regroup"
  /\ \E f \in Permutations(Data(r)) :
       /\ SortedBy(Data(r), f, [d \in Data(r) |-> groups[r][d + 1]])
       /\ copy' = [copy EXCEPT ![r] = f]
  /\ IF \E d \in Data(r) : groups[r][d + 1] >= Size
     THEN /\ pc' = [pc EXCEPT ![r] = "threw"]
          /\ UNCHANGED <<sizes, posted>>
     ELSE /\ sizes' = [sizes EXCEPT ![r] = [q \in Ranks |-> GroupSize(r, q)]]
          /\ posted' = [posted EXCEPT ![r] = 1]
          /\ pc' = [pc EXCEPT ![r] = "exchange"]
  /\ UNCHANGED <<groups, indexFirst, result>>

Offset(q, r) == Cardinality({d \in Data(q) : groups[q][d + 1] < r})

\* What rank q sends to rank r in the exchange of column a: the segment of the
\* regrouped column that the sizes give to r.
Segment(q, a, r) == [p \in 1 .. sizes[q][r] |-> <<a, q, copy[q][Offset(q, r) + p - 1]>>]

\* all_to_allv appends the segments in the order of the ranks that sent them.
Received(k, r) ==
  LET from[q \in -1 .. Size-1] ==
        IF q = -1 THEN <<>> ELSE from[q-1] \o Segment(q, Calls(q)[k], r)
  IN  from[Size-1]

\* The call rank r is in returns: an exchange needs every rank in it, a broadcast the
\* root; the rank goes straight on to its next call.
Return(r) ==
  /\ pc[r] = "exchange"
  /\ LET k == posted[r]
         a == Calls(r)[k]
     IN  /\ \/ /\ a \in PerVisibility
               /\ \A q \in Ranks : posted[q] >= k
               /\ result' = [result EXCEPT ![r][a] = Received(k, r)]
            \/ /\ a \in HeaderFields
               /\ posted[Root] >= k
               /\ result' = [result EXCEPT ![r][a] = <<<<Calls(Root)[k], Root>>>>]
         /\ IF k = Last
            THEN pc' = [pc EXCEPT ![r] = "returned"] /\ UNCHANGED posted
            ELSE posted' = [posted EXCEPT ![r] = @ + 1] /\ UNCHANGED pc
  /\ UNCHANGED <<groups, indexFirst, copy, sizes>>

Exchanging(r) == RegroupColumns(r) \/ Return(r)
===============================================================================
