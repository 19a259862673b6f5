------------------------------- MODULE WSupport -------------------------------
(***************************************************************************)
(* w_support of distribute.cc: every visibility costs some number of       *)
(* kernel coefficients, and the visibilities are dealt out to groups of    *)
(* about equal cost.  One rank after the other walks through its own       *)
(* visibilities; the running sum and the group are handed on by broadcast. *)
(* The k-th broadcast of the communicator is an entry of the log, written  *)
(* by its root and read by the others.  Afterwards the rank is in          *)
(* regroup_and_all_to_all.                                                 *)
(***************************************************************************)
EXTENDS StackedRanks

CONSTANTS
  Costs,    \* for every rank, w_support squared of its visibilities: their coefficients
  Fill      \* fill_relaxation, in percent of the average

ASSUME CostsAssumption ==
  \A f \in Costs : DOMAIN f = Ranks /\ \A r \in Ranks : f[r] \in Seq(Nat) /\ Len(f[r]) <= MaxLocal
ASSUME FillAssumption == Fill \in Nat

VARIABLES
  cost,      \* for every rank, the cost of each of its visibilities
  offered,   \* ranks that have called all_sum_all
  all_total, \* for every rank, what all_sum_all returned
  coeff_sum, \* for every rank, its copy of the cost of the current group
  group,     \* for every rank, its copy of the current group
  rank,      \* for every rank, the rank whose turn it is
  log,       \* the broadcasts so far
  heard      \* for every rank, the number of broadcasts it has completed

dealVars == <<cost, offered, all_total, coeff_sum, group, rank, log, heard>>

coeff_total(r) == SumFunction(cost[r])
TotalCost == SumFunction([r \in Ranks |-> coeff_total(r)])

\* cost + coeff_sum > coeff_average * (1 + fill_relaxation)
Exceeds(sum, all) == sum * Size * 100 > all * (100 + Fill)

\* On entry: nothing dealt yet, every visibility in the group of its own rank.
DealInit(costs) ==
  /\ cost = costs
  /\ offered = {}
  /\ all_total = [r \in Ranks |-> 0]
  /\ coeff_sum = [r \in Ranks |-> 0]
  /\ group = [r \in Ranks |-> 0]
  /\ rank = [r \in Ranks |-> 0]
  /\ log = <<>>
  /\ heard = [r \in Ranks |-> 0]

OwnGroup == [r \in Ranks |-> [i \in DOMAIN cost[r] |-> r]]

\* Every rank calls all_sum_all with its own total, and gets the sum once all have.
OfferTotal(r) ==
  /\ pc[r] = "sum"
  /\ offered' = offered \cup {r}
  /\ pc' = [pc EXCEPT ![r] = "average"]
  /\ UNCHANGED <<cost, all_total, groups, coeff_sum, group, rank, log, heard>>

ReceiveTotal(r) ==
  /\ pc[r] = "average"
  /\ offered = Ranks
  /\ all_total' = [all_total EXCEPT ![r] = TotalCost]
  /\ pc' = [pc EXCEPT ![r] = "size"]
  /\ UNCHANGED <<cost, offered, groups, coeff_sum, group, rank, log, heard>>

\* Faulty variant: the limit on the number of groups is one too high.
DealTooManyGroups(s, c, all) ==
  IF s.group < Size /\ Exceeds(c + s.sum, all)
  THEN [group |-> s.group + 1, sum |-> c]
  ELSE [group |-> s.group, sum |-> c + s.sum]

\* One visibility of cost c: the next group when it does not fit, except that the last
\* group takes all that is left.
Deal(s, c, all) ==
  IF s.group < Size - 1 /\ Exceeds(c + s.sum, all)
  THEN [group |-> s.group + 1, sum |-> c]
  ELSE [group |-> s.group, sum |-> c + s.sum]

\* The loop of the rank whose turn it is: after[i] is the state once i visibilities
\* have been dealt.
Dealt(r) ==
  LET after[i \in 0 .. Len(cost[r])] ==
        IF i = 0 THEN [group |-> group[r], sum |-> coeff_sum[r]]
        ELSE Deal(after[i-1], cost[r][i], all_total[r])
  IN  after

\* The next broadcast of rank r: written to the log by its root, the rank whose turn
\* it is, and read from it by the others once it is there.
Sends(r, value) == rank[r] = r /\ log' = Append(log, value)
Reads(r) == rank[r] # r /\ Len(log) > heard[r] /\ UNCHANGED log
Heard(r) == log'[heard[r] + 1]
Hear(r) == heard' = [heard EXCEPT ![r] = @ + 1]

\* The size of the data of the rank whose turn it is, and its loop.
DealOut(r) ==
  /\ pc[r] = "size"
  /\ Sends(r, <<"size", Len(cost[r])>>) \/ Reads(r)
  /\ Hear(r)
  /\ IF rank[r] = r
     THEN LET after == Dealt(r)
              last == after[Len(cost[r])]
          IN  /\ groups' = [groups EXCEPT ![r] = [i \in DOMAIN @ |-> after[i].group]]
              /\ group' = [group EXCEPT ![r] = last.group]
              /\ coeff_sum' = [coeff_sum EXCEPT ![r] = last.sum]
     ELSE UNCHANGED <<groups, group, coeff_sum>>
  /\ pc' = [pc EXCEPT ![r] = IF group'[r] > Size - 1 THEN "threw" ELSE "handover"]
  /\ UNCHANGED <<cost, offered, all_total, rank>>

\* Faulty variant: the running sum starts afresh on every rank.
HandOverSumForgets(r) ==
  /\ pc[r] = "handover"
  /\ Sends(r, <<"coeff_sum", coeff_sum[r]>>) \/ Reads(r)
  /\ Hear(r)
  /\ coeff_sum' = [coeff_sum EXCEPT ![r] = 0]
  /\ pc' = [pc EXCEPT ![r] = "next"]
  /\ UNCHANGED <<cost, offered, all_total, groups, group, rank>>

\* The broadcast of coeff_sum.
HandOverSum(r) ==
  /\ pc[r] = "handover"
  /\ Sends(r, <<"coeff_sum", coeff_sum[r]>>) \/ Reads(r)
  /\ Hear(r)
  /\ coeff_sum' = [coeff_sum EXCEPT ![r] = Heard(r)[2]]
  /\ pc' = [pc EXCEPT ![r] = "next"]
  /\ UNCHANGED <<cost, offered, all_total, groups, group, rank>>

\* Faulty variant: only the rank whose turn it is keeps the group.
HandOverGroupForgets(r) ==
  /\ pc[r] = "next"
  /\ Sends(r, <<"group", group[r]>>) \/ Reads(r)
  /\ Hear(r)
  /\ rank' = [rank EXCEPT ![r] = @ + 1]
  /\ pc' = [pc EXCEPT ![r] = IF rank[r] = Size - 1 THEN "regroup" ELSE "size"]
  /\ UNCHANGED <<cost, offered, all_total, groups, coeff_sum, group>>

\* The broadcast of group, which ends the turn.
HandOverGroup(r) ==
  /\ pc[r] = "next"
  /\ Sends(r, <<"group", group[r]>>) \/ Reads(r)
  /\ Hear(r)
  /\ group' = [group EXCEPT ![r] = Heard(r)[2]]
  /\ rank' = [rank EXCEPT ![r] = @ + 1]
  /\ pc' = [pc EXCEPT ![r] = IF rank[r] = Size - 1 THEN "regroup" ELSE "size"]
  /\ UNCHANGED <<cost, offered, all_total, groups, coeff_sum>>

Dealing(r) ==
  \/ OfferTotal(r) \/ ReceiveTotal(r)
  \/ DealOut(r) \/ HandOverSum(r) \/ HandOverGroup(r)
===============================================================================
