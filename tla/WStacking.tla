------------------------------- MODULE WStacking -------------------------------
(***************************************************************************)
(* w_stacking_with_all_to_all and w_stacking: the visibilities of all      *)
(* ranks change places, together with the index of the image (the w-stack) *)
(* they belong to.  The first deals them out by the cost of their kernels  *)
(* (WSupport) and exchanges them by the groups this gives (AllToAllVis);   *)
(* the second, and any other caller of regroup_and_all_to_all, brings the  *)
(* groups along.  The stacks are those of KMeans; of the stack of a        *)
(* visibility only the cost of its kernel matters here.                    *)
(***************************************************************************)
EXTENDS WSupport, AllToAllVis

CONSTANT Given   \* the groups a caller of regroup_and_all_to_all may bring along

ASSUME GivenAssumption ==
  \A f \in Given : DOMAIN f = Ranks /\ \A r \in Ranks : f[r] \in Seq(Nat) /\ Len(f[r]) <= MaxLocal

VARIABLE entry   \* the function that all ranks call

vars == <<entry, groups, pc, dealVars, exchangeVars>>

\* w_stacking_with_all_to_all, once the stacks are known.
DealFirst ==
  /\ entry = "w_stacking_with_all_to_all"
  /\ \E costs \in Costs : DealInit(costs)
  /\ groups = OwnGroup
  /\ pc = [r \in Ranks |-> "sum"]

\* w_stacking has the labels of KMeans for groups, another caller what it likes.
GroupsGiven ==
  /\ entry = "regroup_and_all_to_all"
  /\ DealInit([r \in Ranks |-> <<>>])
  /\ groups \in Given
  /\ pc = [r \in Ranks |-> "regroup"]

Init == (DealFirst \/ GroupsGiven) /\ ExchangeInit

Step(r) ==
  \/ Dealing(r) /\ UNCHANGED <<entry, exchangeVars>>
  \/ Exchanging(r) /\ UNCHANGED <<entry, dealVars>>

Next == \E r \in Ranks : Step(r)

\* A rank that can go on does so; an MPI call returns once its condition holds.
Spec == Init /\ [][Next]_vars /\ \A r \in Ranks : WF_vars(Step(r))

------------------------------------------------------------------------------

TypeOK ==
  /\ entry \in {"w_stacking_with_all_to_all", "regroup_and_all_to_all"}
  /\ cost \in Costs \cup {[r \in Ranks |-> <<>>]} /\ \A r \in Ranks : groups[r] \in Seq(Nat)
  /\ offered \subseteq Ranks
  /\ all_total \in [Ranks -> Nat] /\ coeff_sum \in [Ranks -> Nat]
  /\ group \in [Ranks -> 0 .. Size] /\ rank \in [Ranks -> 0 .. Size]
  /\ Len(log) <= 3 * Size /\ heard \in [Ranks -> 0 .. 3 * Size]
  /\ indexFirst \in BOOLEAN
  /\ \A r \in Ranks : copy[r] # <<>> => copy[r] \in Permutations(Data(r))
  /\ sizes \in [Ranks -> [Ranks -> 0 .. MaxLocal]]
  /\ posted \in [Ranks -> 0 .. Last]
  /\ pc \in [Ranks -> {"sum", "average", "size", "handover", "next", "regroup",
                       "exchange", "returned", "threw"}]

\* The visibilities of the ranks that have had their turn.
Places == {ri \in Ranks \X (1 .. MaxLocal) : ri[2] \in DOMAIN groups[ri[1]]}
GroupOf(p) == groups[p[1]][p[2]]
CostOf(p) == cost[p[1]][p[2]]
Precedes(p, q) == p[1] < q[1] \/ (p[1] = q[1] /\ p[2] < q[2])
Settled ==
  IF entry = "regroup_and_all_to_all" THEN {}
  ELSE {p \in Places : \/ rank[p[1]] > p[1]
                       \/ rank[p[1]] = p[1] /\ pc[p[1]] \in {"handover", "next"}}

\* The ranks deal as one: along the visibilities of all the ranks in rank order the
\* group never goes back and never skips one, although every rank has its own copies of
\* the running sum and of the group.
OneSequence ==
  \A p, q \in Settled : Precedes(p, q) =>
    /\ GroupOf(p) <= GroupOf(q)
    /\ GroupOf(q) - GroupOf(p) <= Cardinality({x \in Settled : Precedes(p, x) /\ ~ Precedes(q, x)})

\* "Indicies to evenly distribute kernel coefficients values across nodes": no rank ends
\* up with visibilities that cost more than the relaxed average, unless it is a single
\* one or the rank is the last, whoever held them before the exchange.
Load(r) == SumFunction([k \in DOMAIN result[r]["u"] |->
                          cost[result[r]["u"][k][2]][result[r]["u"][k][3] + 1]])
EvenLoad ==
  entry = "w_stacking_with_all_to_all" =>
    \A r \in 0 .. Size-2 : pc[r] = "returned" =>
      \/ ~ Exceeds(Load(r), TotalCost)
      \/ Len(result[r]["u"]) = 1

\* The rows survive six separate exchanges: a rank that returned holds every visibility
\* whose group it is, of any rank, once, and no other; the k-th entries of all columns,
\* and of the image index, are those of one visibility; the header is the root's.
Exchanged ==
  \A r \in Ranks : pc[r] = "returned" =>
    /\ \A q \in Ranks : \A d \in Data(q) :
         Cardinality({k \in DOMAIN result[r]["u"] : result[r]["u"][k] = <<"u", q, d>>})
           = IF groups[q][d + 1] = r THEN 1 ELSE 0
    /\ \A a \in PerVisibility :
         result[r][a] = [k \in DOMAIN result[r]["u"] |->
                           <<a, result[r]["u"][k][2], result[r]["u"][k][3]>>]
    /\ \A a \in HeaderFields : result[r][a] = <<<<a, Root>>>>

NotARank == \E q \in Ranks : \E d \in Data(q) : groups[q][d + 1] >= Size

\* No visibility is left behind unnoticed: when a rank has a group that is no rank, no
\* rank returns as if all data had been exchanged.
NothingLostSilently == NotARank => \A r \in Ranks : pc[r] # "returned"

\* Every rank gets through its own turn and those of all the others, and through the
\* exchanges, in whatever order the ranks enter and leave the calls; none throws "Group
\* number out of bounds", which would leave the others in a broadcast.
EveryRankReturns == NotARank \/ <>(\A r \in Ranks : pc[r] = "returned")
==============================================================================
