-------------------------------- MODULE KMeans --------------------------------
(***************************************************************************)
(* kmeans_algo: the w terms of all ranks are clustered around              *)
(* number_of_nodes centres.  Every rank labels its own visibilities; sums  *)
(* and counts of a cluster go through all_sum_all, so that every rank      *)
(* computes the same centre and takes the same decision to stop.  The      *)
(* serial overload is the function SerialRun.  Reals are fractions         *)
(* <<numerator, denominator>>, where the denominator 0 stands for the      *)
(* infinite or undefined result of a division by zero; the cost is the     *)
(* default one, the square.                                                *)
(***************************************************************************)
EXTENDS MpiRanks, FiniteSetsExt

CONSTANTS
  Centres,    \* number_of_nodes: how many clusters
  Iters,      \* iters: the most iterations
  RelDiff,    \* rel_diff, a fraction
  WValues     \* values of w

ASSUME CentresAssumption == Centres \in Nat \ {0}
ASSUME ItersAssumption == Iters \in Nat
ASSUME RelDiffAssumption == RelDiff \in Nat \X (Nat \ {0}) /\ RelDiff[1] <= RelDiff[2]
ASSUME ValuesAssumption == WValues \subseteq Int

VARIABLES
  w,        \* for every rank, its w terms
  wmin,     \* for every rank, the smallest w it knows of, its own at first
  wmax,     \* for every rank, the largest
  w_node,   \* for every rank, the cluster of each of its visibilities
  w_centre, \* for every rank, its copy of the centres
  w_sum,    \* for every rank and cluster, the sum of its own w
  w_count,  \* for every rank and cluster, the number of its own visibilities
  total,    \* for every rank, what all_sum_all returned: <<sum, count>>
  diff,     \* for every rank, the accumulated relative difference
  iter,     \* for every rank, n
  node,     \* for every rank, j
  labelled  \* history: for every iteration, the centres and how all the ranks labelled
            \* their visibilities with them

kmeansVars == <<w, wmin, wmax, w_node, w_centre, w_sum, w_count, total, diff, iter, node,
                labelled, pc>>

Nodes == 0 .. Centres-1

(***************************************************************************)
(* Fractions                                                               *)
(***************************************************************************)
Abs(x) == IF x < 0 THEN -x ELSE x
Plus(a, b) == <<a[1] * b[2] + b[1] * a[2], a[2] * b[2]>>
Less(a, b) == a[2] # 0 /\ b[2] # 0 /\ a[1] * b[2] < b[1] * a[2]

\* |a - b| / |b * number_of_nodes|
RelativeChange(a, b) ==
  <<Abs(a[1] * b[2] - b[1] * a[2]), a[2] * Abs(b[1]) * Centres>>

\* cost(x - c), the square of the distance.
Cost(x, c) == <<(x * c[2] - c[1]) * (x * c[2] - c[1]), c[2] * c[2]>>

(***************************************************************************)
(* The two loops of an iteration                                           *)
(***************************************************************************)

\* The scan for the smallest cost, which starts from 2 * cost(wmax - wmin): the first
\* cluster of least cost, and the label of before when no cost is below the start.
Label(x, was, centre, lo, hi) ==
  LET cost == [j \in Nodes |-> Cost(x, centre[j])]
      near == {j \in Nodes : /\ \A k \in Nodes : ~ Less(cost[k], cost[j])
                             /\ Less(cost[j], <<2 * (hi - lo) * (hi - lo), 1>>)}
  IN  IF near = {} THEN was ELSE Min(near)

Labels(x, was, centre, lo, hi) ==
  [i \in DOMAIN x |-> Label(x[i], was[i], centre, lo, hi)]

Members(labels, j) == {i \in DOMAIN labels : labels[i] = j}
SumOf(x, labels, j) == SumFunctionOnSet(x, Members(labels, j))
CountOf(labels, j) == Cardinality(Members(labels, j))

\* Faulty variant: the sum is divided by one more than the number of members.
MeanOneTooMany(sum, count) == <<sum, count + 1>>

\* The mean of a cluster; the centre of an empty one becomes zero.
Mean(sum, count) == IF count > 0 THEN <<sum, count>> ELSE <<0, 1>>

FirstCentres(lo, hi) == [i \in Nodes |-> <<i * (hi - lo) + Centres * lo, Centres>>]

(***************************************************************************)
(* The serial overload                                                     *)
(***************************************************************************)
Lowest(x) == Min({x[i] : i \in DOMAIN x})
Highest(x) == Max({x[i] : i \in DOMAIN x})

\* diff after each cluster.
Changes(old, new, start) ==
  LET acc[j \in -1 .. Centres-1] ==
        IF j = -1 THEN start ELSE Plus(acc[j-1], RelativeChange(new[j], old[j]))
  IN  acc

\* Before the first iteration diff is 1, before the others 0.
FirstDiff(n) == IF n = 1 THEN <<1, 1>> ELSE <<0, 1>>

SerialStep(x, before, n) ==
  LET labels == Labels(x, before.w_node, before.w_centre, Lowest(x), Highest(x))
      means == [j \in Nodes |-> Mean(SumOf(x, labels, j), CountOf(labels, j))]
  IN  [w_node |-> labels, w_centre |-> means,
       converged |-> Less(Changes(before.w_centre, means, FirstDiff(n))[Centres-1], RelDiff)]

\* The labels and centres after at most n iterations on the w terms x.
SerialAfter(x) ==
  LET after[n \in 0 .. Iters] ==
        IF n = 0 THEN [w_node |-> [i \in DOMAIN x |-> 0],
                       w_centre |-> FirstCentres(Lowest(x), Highest(x)),
                       converged |-> FALSE]
        ELSE LET before == after[n-1]
             IN  IF before.converged THEN before ELSE SerialStep(x, before, n)
  IN  after

SerialRun(x) == SerialAfter(x)[Iters]

(***************************************************************************)
(* The MPI overload                                                        *)
(***************************************************************************)
Zeros == [j \in Nodes |-> 0]

KMeansInit ==
  /\ \E length \in [Ranks -> 0 .. MaxLocal] :
       w \in {f \in [Ranks -> UNION {[1 .. n -> WValues] : n \in 0 .. MaxLocal}] :
                \A r \in Ranks : Len(f[r]) = length[r]}
  /\ wmin = [r \in Ranks |-> IF w[r] = <<>> THEN 0 ELSE Lowest(w[r])]
  /\ wmax = [r \in Ranks |-> IF w[r] = <<>> THEN 0 ELSE Highest(w[r])]
  /\ w_node = [r \in Ranks |-> [i \in DOMAIN w[r] |-> 0]]
  /\ w_centre = [r \in Ranks |-> [j \in Nodes |-> <<0, 1>>]]
  /\ w_sum = [r \in Ranks |-> Zeros] /\ w_count = [r \in Ranks |-> Zeros]
  /\ total = [r \in Ranks |-> <<0, 0>>]
  /\ diff = [r \in Ranks |-> <<1, 1>>]
  /\ iter = [r \in Ranks |-> 0] /\ node = [r \in Ranks |-> 0]
  /\ labelled = <<>>
  /\ pc = [r \in Ranks |-> "min"]

\* A collective returns when every rank has called it.
AllAt(call) == \A r \in Ranks : pc[r] = call
Proceed(to) == pc' = [r \in Ranks |-> to]

\* w.minCoeff() of no visibilities: an assertion, or a read through a null pointer.  The
\* rank ends before it calls the reduction.
EndWithoutData(r) ==
  /\ pc[r] = "min" /\ w[r] = <<>>
  /\ pc' = [pc EXCEPT ![r] = "ended"]
  /\ UNCHANGED <<w, wmin, wmax, w_node, w_centre, w_sum, w_count, total, diff, iter, node,
                 labelled>>

\* all_reduce of w.minCoeff() with MPI_MIN.
ReduceMin ==
  /\ AllAt("min") /\ \A r \in Ranks : w[r] # <<>>
  /\ wmin' = [r \in Ranks |-> Min({wmin[q] : q \in Ranks})]
  /\ Proceed("max")
  /\ UNCHANGED <<w, wmax, w_node, w_centre, w_sum, w_count, total, diff, iter, node, labelled>>

\* all_reduce of w.maxCoeff() with MPI_MAX, and the centres spread over the range.
ReduceMax ==
  /\ AllAt("max")
  /\ wmax' = [r \in Ranks |-> Max({wmax[q] : q \in Ranks})]
  /\ w_centre' = [r \in Ranks |-> FirstCentres(wmin[r], wmax'[r])]
  /\ Proceed("label")
  /\ UNCHANGED <<w, wmin, w_node, w_sum, w_count, total, diff, iter, node, labelled>>

\* The loop over the visibilities of rank r, or its return after the last iteration.
LabelOwn(r) ==
  /\ pc[r] = "label"
  /\ IF iter[r] = Iters
     THEN /\ pc' = [pc EXCEPT ![r] = "returned"]
          /\ UNCHANGED <<w_node, w_sum, w_count, node>>
     ELSE LET labels == Labels(w[r], w_node[r], w_centre[r], wmin[r], wmax[r])
          IN  /\ w_node' = [w_node EXCEPT ![r] = labels]
              /\ w_sum' = [w_sum EXCEPT ![r] =
                    [j \in Nodes |-> @[j] + SumOf(w[r], labels, j)]]
              /\ w_count' = [w_count EXCEPT ![r] =
                    [j \in Nodes |-> @[j] + CountOf(labels, j)]]
              /\ node' = [node EXCEPT ![r] = 0]
              /\ pc' = [pc EXCEPT ![r] = "sum"]
  /\ UNCHANGED <<w, wmin, wmax, w_centre, total, diff, iter, labelled>>

\* all_sum_all of the sums of cluster j: the j-th call of every rank.
SumCluster ==
  /\ AllAt("sum")
  /\ total' = [r \in Ranks |->
       <<SumFunction([q \in Ranks |-> w_sum[q][node[q]]]), total[r][2]>>]
  /\ labelled' = IF node[0] = 0
                 THEN Append(labelled, [w_centre |-> w_centre[0], w_node |-> w_node])
                 ELSE labelled
  /\ Proceed("count")
  /\ UNCHANGED <<w, wmin, wmax, w_node, w_centre, w_sum, w_count, diff, iter, node>>

CountCluster ==
  /\ AllAt("count")
  /\ total' = [r \in Ranks |->
       <<total[r][1], SumFunction([q \in Ranks |-> w_count[q][node[q]]])>>]
  /\ Proceed("update")
  /\ UNCHANGED <<w, wmin, wmax, w_node, w_centre, w_sum, w_count, diff, iter, node, labelled>>

\* After the last cluster: stop if the centres hardly moved, else the next iteration.
Decide(r, change) ==
  IF node[r] < Centres - 1
  THEN /\ node' = [node EXCEPT ![r] = @ + 1]
       /\ diff' = [diff EXCEPT ![r] = change]
       /\ pc' = [pc EXCEPT ![r] = "sum"]
       /\ UNCHANGED iter
  ELSE /\ IF Less(change, RelDiff)
          THEN /\ pc' = [pc EXCEPT ![r] = "returned"]
               /\ diff' = [diff EXCEPT ![r] = change]
               /\ UNCHANGED iter
          ELSE /\ pc' = [pc EXCEPT ![r] = "label"]
               /\ diff' = [diff EXCEPT ![r] = <<0, 1>>]
               /\ iter' = [iter EXCEPT ![r] = @ + 1]
       /\ UNCHANGED node

\* Faulty variants: the sums of an iteration carried into the next one, and the
\* decision to stop taken from the clusters the rank has data in.
UpdateNoReset(r) ==
  /\ pc[r] = "update"
  /\ LET j == node[r]
         mean == Mean(total[r][1], total[r][2])
     IN  /\ w_centre' = [w_centre EXCEPT ![r][j] = mean]
         /\ Decide(r, Plus(diff[r], RelativeChange(mean, w_centre[r][j])))
  /\ UNCHANGED <<w, wmin, wmax, w_node, w_sum, w_count, total, labelled>>
UpdateDecidesAlone(r) ==
  /\ pc[r] = "update"
  /\ LET j == node[r]
         mean == Mean(total[r][1], total[r][2])
         change == IF w_count[r][j] > 0 THEN RelativeChange(mean, w_centre[r][j]) ELSE <<0, 1>>
     IN  /\ w_centre' = [w_centre EXCEPT ![r][j] = mean]
         /\ w_sum' = [w_sum EXCEPT ![r][j] = 0]
         /\ w_count' = [w_count EXCEPT ![r][j] = 0]
         /\ Decide(r, Plus(diff[r], change))
  /\ UNCHANGED <<w, wmin, wmax, w_node, total, labelled>>

\* The rest of the loop over clusters: the change of centre j, the new centre, the
\* counters reset.
Update(r) ==
  /\ pc[r] = "update"
  /\ LET j == node[r]
         mean == Mean(total[r][1], total[r][2])
     IN  /\ w_centre' = [w_centre EXCEPT ![r][j] = mean]
         /\ w_sum' = [w_sum EXCEPT ![r][j] = 0]
         /\ w_count' = [w_count EXCEPT ![r][j] = 0]
         /\ Decide(r, Plus(diff[r], RelativeChange(mean, w_centre[r][j])))
  /\ UNCHANGED <<w, wmin, wmax, w_node, total, labelled>>

Collective == ReduceMin \/ ReduceMax \/ SumCluster \/ CountCluster
Own(r) == EndWithoutData(r) \/ LabelOwn(r) \/ Update(r)
KMeansNext == Collective \/ \E r \in Ranks : Own(r)

\* The MPI progress rule: a collective all ranks have called returns; and a rank that
\* is not in a call goes on.
KMeansSpec ==
  /\ KMeansInit /\ [][KMeansNext]_kmeansVars
  /\ WF_kmeansVars(Collective)
  /\ \A r \in Ranks : WF_kmeansVars(Own(r))

------------------------------------------------------------------------------

Fractions == Int \X Int

KMeansTypeOK ==
  /\ \A r \in Ranks : w[r] \in [DOMAIN w[r] -> WValues] /\ DOMAIN w_node[r] = DOMAIN w[r]
  /\ wmin \in [Ranks -> Int] /\ wmax \in [Ranks -> Int]
  /\ \A r \in Ranks : \A i \in DOMAIN w_node[r] : w_node[r][i] \in Nodes
  /\ w_centre \in [Ranks -> [Nodes -> Int \X (Nat \ {0})]]
  /\ w_sum \in [Ranks -> [Nodes -> Int]] /\ w_count \in [Ranks -> [Nodes -> Nat]]
  /\ total \in [Ranks -> Int \X Nat]
  /\ diff \in [Ranks -> Nat \X Nat]
  /\ iter \in [Ranks -> 0 .. Iters] /\ node \in [Ranks -> Nodes]
  /\ pc \in [Ranks -> {"min", "max", "label", "sum", "count", "update", "returned", "ended"}]

AllReturned == \A r \in Ranks : pc[r] = "returned"

Everywhere == UNION {{r} \X DOMAIN w[r] : r \in Ranks}

\* A denominator common to all the centres.
Scale(centre) ==
  LET upto[j \in -1 .. Centres-1] == IF j = -1 THEN 1 ELSE upto[j-1] * centre[j][2]
  IN  upto[Centres-1]

\* How far a visibility is from its centre, scaled up, and the cost of all.
ScaledGap(x, scale, centre, labels) ==
  LET c == centre[labels[x[1]][x[2]]]
  IN  w[x[1]][x[2]] * scale - c[1] * (scale \div c[2])
ClusteringCost(centre, labels) ==
  LET scale == Scale(centre)
      gap == [x \in Everywhere |-> ScaledGap(x, scale, centre, labels)]
  IN  <<SumFunction([x \in Everywhere |-> gap[x] * gap[x]]), scale * scale>>

\* Clustering makes progress: the total cost of the labelling, over all the ranks, is
\* never above that of the iteration before, although empty clusters jump to zero.
CostNeverRises ==
  \A k \in DOMAIN labelled \ {1} :
    ~ Less(ClusteringCost(labelled[k-1].w_centre, labelled[k-1].w_node),
           ClusteringCost(labelled[k].w_centre, labelled[k].w_node))

\* The visibilities of all ranks in rank order.
InRankOrder(f) ==
  LET upto[r \in -1 .. Size-1] == IF r = -1 THEN <<>> ELSE upto[r-1] \o f[r]
  IN  upto[Size-1]

SameFraction(a, b) == a[1] * b[2] = b[1] * a[2]

\* tests/kmeans.cc: "Check that serial and mpi kmeans give the same results": the labels
\* of a run on any split of the data, and the centres on every rank, are those of the
\* serial overload.
MatchesSerial ==
  AllReturned /\ (\A r \in Ranks : w[r] # <<>>) =>
    LET serial == SerialRun(InRankOrder(w))
    IN  /\ InRankOrder(w_node) = serial.w_node
        /\ \A r \in Ranks, j \in Nodes : SameFraction(w_centre[r][j], serial.w_centre[j])

\* If every rank has visibilities, none ever waits for a call that another one does not
\* make: all of them return.  (A rank without any ends and leaves the others waiting.)
EveryRankClusters == (\A r \in Ranks : w[r] # <<>>) => <>AllReturned
==============================================================================
