---------------------------- MODULE WStackingProofs ----------------------------
(***************************************************************************)
(* Proofs about WStacking and KMeans, for every number of ranks and every  *)
(* distribution of the visibilities.  WStacking, for every costs and every *)
(* groups that a caller of regroup_and_all_to_all brings along: the turns  *)
(* in which the ranks deal out their visibilities follow one another       *)
(* through the log of the broadcasts, no group but the last costs more     *)
(* than the relaxed average, and the six exchanges afterwards move whole   *)
(* visibilities.  KMeans, for every w terms: the ranks go through the      *)
(* iterations of the serial overload, and the cost of the clusters never   *)
(* rises.                                                                  *)
(***************************************************************************)
EXTENDS WStacking, KMeans, Lists

(***************************************************************************)
(* The inductive invariant.                                                *)
(***************************************************************************)

\* Where a rank is once the visibilities are dealt out.
Through == {"regroup", "exchange", "returned", "threw"}

\* The group with which the turn of rank t begins: what the broadcast before it said.
GroupAt(t) == IF t = 0 THEN 0 ELSE log[3 * t][2]

\* The group with which the turn of rank t ends.
EndOf(t) == IF groups[t] = <<>> THEN GroupAt(t) ELSE groups[t][Len(groups[t])]

\* Rank r has dealt out its visibilities.
Had(r) == heard[r] >= 3 * r + 1

\* Three broadcasts make a turn: their number says where a rank is.
Stage(r) ==
  \/ pc[r] \in {"sum", "average"} /\ rank[r] = 0 /\ heard[r] = 0
  \/ pc[r] = "size" /\ rank[r] \in Ranks /\ heard[r] = 3 * rank[r]
  \/ pc[r] = "handover" /\ rank[r] \in Ranks /\ heard[r] = 3 * rank[r] + 1
  \/ pc[r] = "next" /\ rank[r] \in Ranks /\ heard[r] = 3 * rank[r] + 2
  \/ pc[r] \in Through /\ rank[r] = Size /\ heard[r] = 3 * Size

\* Nobody has heard what was not said, no broadcast of the turn of r or a later one is
\* there before r comes to it, and in its own turn r has heard all there is.
Turn(r) ==
  /\ heard[r] <= Len(log)
  /\ heard[r] < 3 * r => Len(log) <= 3 * r
  /\ 3 * r <= heard[r] /\ heard[r] < 3 * r + 3 => Len(log) = heard[r]

\* The groups of rank r begin where its turn does and go up one by one.
Stepwise(r) ==
  /\ \A i \in DOMAIN groups[r] : groups[r][i] \in 0 .. Size-1
  /\ groups[r] # <<>> => groups[r][1] - GroupAt(r) \in {0, 1}
  /\ \A i \in DOMAIN groups[r] : i > 1 => groups[r][i] - groups[r][i-1] \in {0, 1}

\* The copy of the group that rank r has: in the middle of its own turn the one with
\* which this ends, else the one with which the turn it is at begins.
KnowsGroup(r) ==
  group[r] = IF heard[r] = 3 * r + 1 \/ heard[r] = 3 * r + 2 THEN EndOf(r) ELSE GroupAt(rank[r])

\* What a broadcast says.
Said == {"size", "coeff_sum", "group"} \X Nat

DealtSoFar ==
  /\ log \in Seq(Said)
  /\ \A t \in 0 .. Size : 3 * t <= Len(log) => GroupAt(t) \in 0 .. Size-1
  /\ \A t \in Ranks : 3 * t + 3 <= Len(log) => GroupAt(t + 1) = EndOf(t)
  /\ \A r \in Ranks : /\ Stage(r) /\ Turn(r) /\ KnowsGroup(r) /\ coeff_sum[r] \in Nat
                      /\ Had(r) => Stepwise(r)
                      /\ cost[r] \in Seq(Nat) /\ Len(groups[r]) = Len(cost[r])

\* Rank r has regrouped its visibilities and knows what goes where; no group is no rank.
Ready(r) ==
  /\ \A d \in Data(r) : groups[r][d + 1] < Size
  /\ copy[r] \in Permutations(Data(r))
  /\ SortedBy(Data(r), copy[r], [d \in Data(r) |-> groups[r][d + 1]])
  /\ sizes[r] = [q \in Ranks |-> GroupSize(r, q)]

\* The number of collective calls that rank r has returned from.
Completed(r) == IF pc[r] = "returned" THEN Last ELSE posted[r] - 1

\* What the k-th call gave rank r is still what it would give: an exchange has needed
\* all the ranks, and what they put into it does not change any more.
Holds(r, k) ==
  /\ Calls(r)[k] \in PerVisibility =>
       /\ \A q \in Ranks : posted[q] >= 1
       /\ result[r][Calls(r)[k]] = Received(k, r)
  /\ Calls(r)[k] \in HeaderFields => result[r][Calls(r)[k]] = <<<<Calls(r)[k], Root>>>>

\* Rank r in the exchanges.
Exchanges(r) ==
  /\ groups[r] \in Seq(Nat) /\ Len(groups[r]) <= MaxLocal
  /\ posted[r] \in 0 .. Last
  /\ posted[r] >= 1 <=> pc[r] \in {"exchange", "returned"}
  /\ pc[r] = "returned" => posted[r] = Last
  /\ posted[r] >= 1 => Ready(r)
  /\ DOMAIN result[r] = PerVisibility \cup HeaderFields
  /\ \A k \in 1 .. Completed(r) : Holds(r, k)

\* Every rank has its part of every variable.
Shape ==
  /\ DOMAIN groups = Ranks /\ DOMAIN pc = Ranks /\ DOMAIN cost = Ranks
  /\ DOMAIN coeff_sum = Ranks /\ DOMAIN group = Ranks /\ DOMAIN rank = Ranks
  /\ DOMAIN heard = Ranks /\ DOMAIN copy = Ranks /\ DOMAIN sizes = Ranks
  /\ DOMAIN posted = Ranks /\ DOMAIN result = Ranks

StackInv ==
  /\ indexFirst \in BOOLEAN
  /\ Shape
  /\ \/ entry = "w_stacking_with_all_to_all" /\ DealtSoFar
     \/ entry = "regroup_and_all_to_all" /\ \A r \in Ranks : pc[r] \in Through
  /\ \A r \in Ranks : Exchanges(r)

(***************************************************************************)
(* The collective calls.                                                   *)
(***************************************************************************)

LEMMA RanksAre == Size \in Nat /\ Size > 1 /\ Ranks = 0 .. Size-1 /\ Root = 0 /\ Root \in Ranks
  BY SizeAssumption, SeveralAssumption DEF Ranks, Root

LEMMA NamesAre ==
  /\ PerVisibility = {"u", "v", "w", "vis", "weights", "image_index"}
  /\ HeaderFields = {"units", "ra", "dec", "average_frequency"}
  /\ Last = 10
<1>1. Len(Columns) = 5 /\ Len(Header) = 4
  BY DEF Columns, Header
<1>2. DOMAIN Columns = 1 .. 5 /\ DOMAIN Header = 1 .. 4
  BY DEF Columns, Header
<1>3. /\ Columns[1] = "u" /\ Columns[2] = "v" /\ Columns[3] = "w" /\ Columns[4] = "vis"
      /\ Columns[5] = "weights"
      /\ Header[1] = "units" /\ Header[2] = "ra" /\ Header[3] = "dec"
      /\ Header[4] = "average_frequency"
  BY DEF Columns, Header
<1>4. 1 .. 5 = {1, 2, 3, 4, 5} /\ 1 .. 4 = {1, 2, 3, 4}
  OBVIOUS
<1>5. PerVisibility = {Columns[k] : k \in {1, 2, 3, 4, 5}} \cup {"image_index"}
  BY <1>2, <1>4 DEF PerVisibility
<1>6. HeaderFields = {Header[k] : k \in {1, 2, 3, 4}}
  BY <1>2, <1>4 DEF HeaderFields
<1>7. {Columns[k] : k \in {1, 2, 3, 4, 5}} = {"u", "v", "w", "vis", "weights"}
  BY <1>3
<1>8. {Header[k] : k \in {1, 2, 3, 4}} = {"units", "ra", "dec", "average_frequency"}
  BY <1>3
<1>9. PerVisibility = {"u", "v", "w", "vis", "weights", "image_index"}
  BY <1>5, <1>7
<1>10. HeaderFields = {"units", "ra", "dec", "average_frequency"}
  BY <1>6, <1>8
<1> QED
  BY <1>1, <1>9, <1>10 DEF Last

\* The calls of a rank, whichever argument of make_tuple comes first.
LEMMA CallsListed ==
  ASSUME indexFirst \in BOOLEAN
  PROVE  \A r : Calls(r) =
           IF indexFirst
           THEN <<"image_index", "u", "v", "w", "vis", "weights", "units", "ra", "dec",
                  "average_frequency">>
           ELSE <<"u", "v", "w", "vis", "weights", "units", "ra", "dec",
                  "average_frequency", "image_index">>
<1> DEFINE names == {"u", "v", "w", "vis", "weights", "units", "ra", "dec",
                     "average_frequency", "image_index"}
           five == <<"u", "v", "w", "vis", "weights">>
           four == <<"units", "ra", "dec", "average_frequency">>
           one == <<"image_index">>
           nine == <<"u", "v", "w", "vis", "weights", "units", "ra", "dec", "average_frequency">>
           six == <<"image_index", "u", "v", "w", "vis", "weights">>
           front == <<"image_index", "u", "v", "w", "vis", "weights", "units", "ra", "dec",
                      "average_frequency">>
           back == <<"u", "v", "w", "vis", "weights", "units", "ra", "dec",
                     "average_frequency", "image_index">>
<1>1. /\ five \in Seq(names) /\ Len(five) = 5 /\ four \in Seq(names) /\ Len(four) = 4
      /\ one \in Seq(names) /\ Len(one) = 1
  OBVIOUS
<1>2. nine \in Seq(names) /\ Len(nine) = 9 /\ six \in Seq(names) /\ Len(six) = 6
  OBVIOUS
<1>3. front \in Seq(names) /\ Len(front) = 10 /\ back \in Seq(names) /\ Len(back) = 10
  OBVIOUS
<1>4. five \o four = nine
  <2>1. \A k \in 1 .. 5 : nine[k] = five[k]
    OBVIOUS
  <2>2. \A k \in 1 .. 4 : nine[5 + k] = four[k]
    OBVIOUS
  <2> HIDE DEF names, five, four, nine
  <2>3. \A k \in 1 .. Len(five) : nine[k] = five[k]
    BY <1>1, <1>2, <2>1
  <2>4. \A k \in 1 .. Len(four) : nine[Len(five) + k] = four[k]
    BY <1>1, <1>2, <2>2
  <2>5. Len(nine) = Len(five) + Len(four)
    BY <1>1, <1>2, <1>3
  <2> QED
    BY <1>1, <1>2, <2>3, <2>4, <2>5, Continued
<1>5. nine \o one = back
  <2>1. \A k \in 1 .. 9 : back[k] = nine[k]
    OBVIOUS
  <2>2. \A k \in 1 .. 1 : back[9 + k] = one[k]
    OBVIOUS
  <2> HIDE DEF names, nine, one, back
  <2>3. \A k \in 1 .. Len(nine) : back[k] = nine[k]
    BY <1>1, <1>2, <2>1
  <2>4. \A k \in 1 .. Len(one) : back[Len(nine) + k] = one[k]
    BY <1>1, <1>2, <2>2
  <2>5. Len(back) = Len(nine) + Len(one)
    BY <1>1, <1>2, <1>3
  <2> QED
    BY <1>1, <1>2, <1>3, <2>3, <2>4, <2>5, Continued
<1>6. one \o five = six
  <2>1. \A k \in 1 .. 1 : six[k] = one[k]
    OBVIOUS
  <2>2. \A k \in 1 .. 5 : six[1 + k] = five[k]
    OBVIOUS
  <2> HIDE DEF names, five, one, six
  <2>3. \A k \in 1 .. Len(one) : six[k] = one[k]
    BY <1>1, <1>2, <2>1
  <2>4. \A k \in 1 .. Len(five) : six[Len(one) + k] = five[k]
    BY <1>1, <1>2, <2>2
  <2>5. Len(six) = Len(one) + Len(five)
    BY <1>1, <1>2, <1>3
  <2> QED
    BY <1>1, <1>2, <2>3, <2>4, <2>5, Continued
<1>7. six \o four = front
  <2>1. \A k \in 1 .. 6 : front[k] = six[k]
    OBVIOUS
  <2>2. \A k \in 1 .. 4 : front[6 + k] = four[k]
    OBVIOUS
  <2> HIDE DEF names, six, four, front
  <2>3. \A k \in 1 .. Len(six) : front[k] = six[k]
    BY <1>1, <1>2, <2>1
  <2>4. \A k \in 1 .. Len(four) : front[Len(six) + k] = four[k]
    BY <1>1, <1>2, <2>2
  <2>5. Len(front) = Len(six) + Len(four)
    BY <1>1, <1>2, <1>3
  <2> QED
    BY <1>1, <1>2, <1>3, <2>3, <2>4, <2>5, Continued
<1>8. Columns = five /\ Header = four
  BY DEF Columns, Header
<1> HIDE DEF five, four, one, nine, six, front, back
<1>9. \A r : Calls(r) = IF indexFirst THEN one \o five \o four ELSE five \o four \o one
  BY <1>8 DEF Calls, one
<1>10. \A r : Calls(r) = IF indexFirst THEN front ELSE back
  BY <1>4, <1>5, <1>6, <1>7, <1>9
<1> QED
  BY <1>10 DEF front, back

\* There are ten, each for another field, and the first is an exchange.
LEMMA CallsDiffer ==
  ASSUME indexFirst \in BOOLEAN
  PROVE  /\ \A r, q : Calls(r) = Calls(q)
         /\ \A r : \A j, k \in 1 .. 10 : Calls(r)[j] = Calls(r)[k] => j = k
         /\ \A r : \A k \in 1 .. 10 : Calls(r)[k] \in PerVisibility \cup HeaderFields
         /\ \A r : \A a \in PerVisibility \cup HeaderFields : \E k \in 1 .. 10 : Calls(r)[k] = a
         /\ \A r : Calls(r)[1] \in PerVisibility
         /\ PerVisibility \cap HeaderFields = {}
<1> DEFINE L == Calls(0)
<1>1. \A r : Calls(r) = L
  BY CallsListed
<1>2. 1 .. 10 = {1, 2, 3, 4, 5, 6, 7, 8, 9, 10}
  OBVIOUS
<1>3. CASE indexFirst
  <2>1. /\ L[1] = "image_index" /\ L[2] = "u" /\ L[3] = "v" /\ L[4] = "w" /\ L[5] = "vis"
        /\ L[6] = "weights" /\ L[7] = "units" /\ L[8] = "ra" /\ L[9] = "dec"
        /\ L[10] = "average_frequency"
    BY <1>3, CallsListed
  <2> HIDE DEF L
  <2> QED
    BY <1>1, <1>2, <2>1, NamesAre
<1>4. CASE ~indexFirst
  <2>1. /\ L[1] = "u" /\ L[2] = "v" /\ L[3] = "w" /\ L[4] = "vis" /\ L[5] = "weights"
        /\ L[6] = "units" /\ L[7] = "ra" /\ L[8] = "dec" /\ L[9] = "average_frequency"
        /\ L[10] = "image_index"
    BY <1>4, CallsListed
  <2> HIDE DEF L
  <2> QED
    BY <1>1, <1>2, <2>1, NamesAre
<1> QED
  BY <1>3, <1>4

(***************************************************************************)
(* The turns of w_support.                                                 *)
(***************************************************************************)

\* The loop of w_support over visibilities of cost c, from a state s of group and sum.
DealFrom(s, c, all) ==
  LET after[i \in 0 .. Len(c)] == IF i = 0 THEN s ELSE Deal(after[i-1], c[i], all)
  IN  after

\* The loop as a recursion.
LEMMA DealFromDefined ==
  ASSUME NEW s, NEW all, NEW costs \in Seq(Nat)
  PROVE  /\ DealFrom(s, costs, all)[0] = s
         /\ \A i \in 1 .. Len(costs) :
              DealFrom(s, costs, all)[i] = Deal(DealFrom(s, costs, all)[i-1], costs[i], all)
<1> DEFINE n == Len(costs)
           Next1(c, i) == IF i = 0 THEN s ELSE Deal(c[i-1], costs[i], all)
           Upto(c, m) == [i \in 0 .. m |-> Next1(c, i)]
           Solved == {m \in Nat : \E c : c = Upto(c, m)}
<1>1. 0 \in Solved
  <2>1. Upto(<<>>, 0) = Upto(Upto(<<>>, 0), 0)
    OBVIOUS
  <2>2. QED
    BY <2>1
<1>2. \A m \in Nat : m \in Solved => m+1 \in Solved
  <2>1. SUFFICES ASSUME NEW m \in Nat, m \in Solved PROVE m+1 \in Solved
    OBVIOUS
  <2>2. PICK c : c = Upto(c, m)
    BY <2>1
  <2> DEFINE d == Upto(c, m+1)
  <2>3. \A i \in 0 .. m : c[i] = d[i]
    <3>1. \A i \in 0 .. m : c[i] = Next1(c, i)
      BY <2>2
    <3>2. QED
      BY <3>1
  <2>4. Upto(d, m+1) = Upto(c, m+1)
    <3> HIDE DEF d
    <3>1. \A i \in 0 .. m+1 : i # 0 => d[i-1] = c[i-1]
      BY <2>3
    <3>2. QED
      BY <3>1
  <2>5. d = Upto(d, m+1)
    <3> HIDE DEF Upto
    <3>1. QED
      BY <2>4
  <2> HIDE DEF d, Upto
  <2>6. QED
    BY <2>5
<1>3. n \in Nat /\ n \in Solved
  <2>1. n \in Nat
    OBVIOUS
  <2> HIDE DEF Solved, n
  <2>2. QED
    BY <1>1, <1>2, <2>1, Induction
<1>4. PICK c : c = Upto(c, n)
  BY <1>3
<1>5. DealFrom(s, costs, all) = Upto(DealFrom(s, costs, all), n)
  BY <1>4 DEF DealFrom
<1> DEFINE F == DealFrom(s, costs, all)
<1> HIDE DEF F, n
<1>6. \A i \in 0 .. n : F[i] = Next1(F, i)
  BY <1>5 DEF F
<1>7. QED
  BY <1>3, <1>6 DEF F, n

LEMMA DealtDefined ==
  ASSUME NEW r, cost[r] \in Seq(Nat)
  PROVE  /\ Dealt(r)[0] = [group |-> group[r], sum |-> coeff_sum[r]]
         /\ \A i \in 1 .. Len(cost[r]) :
              Dealt(r)[i] = Deal(Dealt(r)[i-1], cost[r][i], all_total[r])
<1>1. Dealt(r) = DealFrom([group |-> group[r], sum |-> coeff_sum[r]], cost[r], all_total[r])
  BY DEF Dealt, DealFrom
<1> QED
  BY <1>1, DealFromDefined

\* Along the loop the group stays or goes up by one, and stays below the number of ranks.
LEMMA DealtSteps ==
  ASSUME NEW r, cost[r] \in Seq(Nat), group[r] \in 0 .. Size-1, coeff_sum[r] \in Nat
  PROVE  /\ Dealt(r)[0].group = group[r]
         /\ \A i \in 0 .. Len(cost[r]) :
              Dealt(r)[i].group \in 0 .. Size-1 /\ Dealt(r)[i].sum \in Nat
         /\ \A i \in 1 .. Len(cost[r]) : Dealt(r)[i].group - Dealt(r)[i-1].group \in {0, 1}
<1> DEFINE n == Len(cost[r])
           F == Dealt(r)
           Fine == {i \in Nat : i <= n => F[i].group \in 0 .. Size-1 /\ F[i].sum \in Nat}
<1>1. /\ F[0] = [group |-> group[r], sum |-> coeff_sum[r]]
      /\ \A i \in 1 .. n : F[i] = Deal(F[i-1], cost[r][i], all_total[r])
  BY DealtDefined
<1>2. n \in Nat /\ \A i \in 1 .. n : cost[r][i] \in Nat
  OBVIOUS
<1> HIDE DEF F, n
<1>3. ASSUME NEW i \in 1 .. n, F[i-1].group \in 0 .. Size-1, F[i-1].sum \in Nat
      PROVE  /\ F[i].group \in 0 .. Size-1 /\ F[i].sum \in Nat
             /\ F[i].group - F[i-1].group \in {0, 1}
  <2> DEFINE g == F[i-1].group
             s == F[i-1].sum
             c == cost[r][i]
  <2>1. F[i] = IF g < Size - 1 /\ Exceeds(c + s, all_total[r])
               THEN [group |-> g + 1, sum |-> c] ELSE [group |-> g, sum |-> c + s]
    BY <1>1 DEF Deal
  <2>2. c \in Nat /\ g \in 0 .. Size-1 /\ s \in Nat
    BY <1>2, <1>3
  <2> HIDE DEF g, s, c
  <2>3. CASE g < Size - 1 /\ Exceeds(c + s, all_total[r])
    <3>1. F[i].group = g + 1 /\ F[i].sum = c
      BY <2>1, <2>3
    <3>2. g + 1 \in 0 .. Size-1 /\ (g + 1) - g = 1
      BY <2>2, <2>3, RanksAre
    <3> QED
      BY <2>2, <3>1, <3>2 DEF g
  <2>4. CASE ~(g < Size - 1 /\ Exceeds(c + s, all_total[r]))
    <3>1. F[i].group = g /\ F[i].sum = c + s
      BY <2>1, <2>4
    <3> QED
      BY <2>2, <3>1, RanksAre DEF g
  <2> QED
    BY <2>3, <2>4
<1>4. 0 \in Fine
  BY <1>1
<1>5. \A i \in Nat : i \in Fine => i+1 \in Fine
  <2> SUFFICES ASSUME NEW i \in Nat, i \in Fine, i + 1 <= n
               PROVE  F[i+1].group \in 0 .. Size-1 /\ F[i+1].sum \in Nat
    OBVIOUS
  <2>1. i + 1 \in 1 .. n /\ (i + 1) - 1 = i /\ i <= n
    BY <1>2
  <2> QED
    BY <1>3, <2>1
<1>6. Nat \subseteq Fine
  <2> HIDE DEF Fine
  <2> QED
    BY <1>4, <1>5, Induction
<1>7. \A i \in 0 .. n : F[i].group \in 0 .. Size-1 /\ F[i].sum \in Nat
  BY <1>6
<1>8. \A i \in 1 .. n : i - 1 \in 0 .. n
  BY <1>2
<1>9. \A i \in 1 .. n : F[i].group - F[i-1].group \in {0, 1}
  BY <1>3, <1>7, <1>8
<1>10. F[0].group = group[r]
  BY <1>1
<1> QED
  BY <1>7, <1>9, <1>10 DEF F, n

\* One broadcast of rank r: it appends to the log when it is the root, else it reads on.
LEMMA BroadcastKeepsTurns ==
  ASSUME DealtSoFar, Shape, NEW r \in Ranks, NEW v \in Said,
         Sends(r, v) \/ Reads(r), Hear(r), rank[r] \in Ranks,
         heard[r] \in 3 * rank[r] .. 3 * rank[r] + 2
  PROVE  /\ log' \in Seq(Said) /\ Len(log) <= Len(log')
         /\ \A k \in 1 .. Len(log) : log'[k] = log[k]
         /\ DOMAIN heard' = Ranks /\ heard'[r] = heard[r] + 1
         /\ \A q \in Ranks : q # r => heard'[q] = heard[q]
         /\ heard[r] \in Nat /\ heard[r] + 1 <= Len(log')
         /\ \A q \in Ranks : Turn(q)'
         /\ rank[r] = r => /\ Len(log) = heard[r] /\ Len(log') = heard[r] + 1
                           /\ log'[heard[r] + 1] = v
         /\ rank[r] # r => log' = log
<1>1. r \in Nat /\ rank[r] \in Nat /\ heard[r] \in Nat
  BY RanksAre
<1>2. \A q \in Ranks : Turn(q)
  BY DEF DealtSoFar
<1>3. log \in Seq(Said) /\ Len(log) \in Nat
  BY DEF DealtSoFar
<1>4. /\ DOMAIN heard' = Ranks /\ heard'[r] = heard[r] + 1
      /\ \A q \in Ranks : q # r => heard'[q] = heard[q]
  BY DEF Hear, Shape
<1>5. \A q \in Ranks : q \in Nat /\ heard[q] \in Nat
  <2> SUFFICES ASSUME NEW q \in Ranks PROVE q \in Nat /\ heard[q] \in Nat
    OBVIOUS
  <2>1. Stage(q)
    BY DEF DealtSoFar
  <2>2. q \in Nat /\ Size \in Nat /\ \A s \in Ranks : s \in Nat
    BY RanksAre
  <2>3. rank[q] \in Ranks \/ rank[q] = Size \/ rank[q] = 0
    BY <2>1 DEF Stage
  <2>4. rank[q] \in Nat
    <3>1. CASE rank[q] \in Ranks
      BY <2>2, <3>1
    <3>2. CASE rank[q] = Size \/ rank[q] = 0
      BY <2>2, <3>2
    <3> QED
      BY <2>3, <3>1, <3>2
  <2>5. \/ heard[q] = 0 \/ heard[q] = 3 * rank[q] \/ heard[q] = 3 * rank[q] + 1
        \/ heard[q] = 3 * rank[q] + 2 \/ heard[q] = 3 * Size
    BY <2>1 DEF Stage
  <2> QED
    BY <2>2, <2>4, <2>5
<1>6. CASE rank[r] = r
  <2>1. log' = Append(log, v)
    BY <1>6 DEF Sends, Reads
  <2>2. Len(log) = heard[r]
    BY <1>1, <1>2, <1>6 DEF Turn
  <2>3. /\ log' \in Seq(Said) /\ Len(log') = Len(log) + 1
        /\ \A k \in 1 .. Len(log) : log'[k] = log[k]
        /\ log'[Len(log) + 1] = v
    BY <1>3, <2>1, AppendProperties
  <2>4. ASSUME NEW q \in Ranks PROVE Turn(q)'
    <3>0. q \in Nat /\ heard[q] \in Nat
      BY <1>5
    <3>1. CASE q = r
      BY <1>1, <1>3, <1>4, <1>6, <2>2, <2>3, <3>1 DEF Turn
    <3>2. CASE q < r
      <4>1. 3 * q + 3 <= 3 * r /\ heard'[q] = heard[q]
        BY <1>1, <1>4, <1>5, <3>2
      <4>2. heard[q] >= 3 * q + 3
        <5>0. Len(log) >= 3 * r
          BY <1>1, <1>6, <2>2
        <5>1. heard[q] < 3 * q => Len(log) <= 3 * q
          BY <1>2 DEF Turn
        <5>2. 3 * q <= heard[q] /\ heard[q] < 3 * q + 3 => Len(log) = heard[q]
          BY <1>2 DEF Turn
        <5>3. q \in Int /\ r \in Int /\ heard[q] \in Int /\ Len(log) \in Int
          BY <1>1, <1>3, <3>0
        <5> QED
          BY <4>1, <5>0, <5>1, <5>2, <5>3, SMTT(60)
      <4>3. heard[q] <= Len(log)
        BY <1>2 DEF Turn
      <4> QED
        <5>1. Len(log') = Len(log) + 1 /\ heard'[q] = heard[q]
          BY <2>3, <4>1
        <5>2. /\ heard'[q] <= Len(log')
              /\ ~(heard'[q] < 3 * q) /\ ~(heard'[q] < 3 * q + 3)
          BY <1>3, <3>0, <4>2, <4>3, <5>1
        <5> QED
          BY <5>2 DEF Turn
    <3>3. CASE r < q
      <4>1. 3 * r + 3 <= 3 * q /\ heard'[q] = heard[q]
        BY <1>1, <1>4, <1>5, <3>3
      <4>2. heard[q] < 3 * q /\ heard[q] <= Len(log)
        <5>1. heard[q] <= Len(log) /\ Len(log) < 3 * r + 3
          BY <1>1, <1>2, <1>6, <2>2 DEF Turn
        <5> QED
          BY <1>1, <1>3, <3>0, <4>1, <5>1
      <4>3. Len(log') <= 3 * q
        <5>1. Len(log) < 3 * r + 3
          BY <1>1, <1>6, <2>2
        <5> QED
          BY <1>1, <1>3, <2>3, <3>0, <4>1, <5>1
      <4> QED
        BY <1>3, <2>3, <3>0, <4>1, <4>2, <4>3 DEF Turn
    <3> QED
      BY <1>1, <3>0, <3>1, <3>2, <3>3
  <2> QED
    BY <1>1, <1>3, <1>4, <1>6, <2>2, <2>3, <2>4
<1>7. CASE rank[r] # r
  <2>1. log' = log /\ Len(log) > heard[r]
    BY <1>7 DEF Sends, Reads
  <2>2. ASSUME NEW q \in Ranks PROVE Turn(q)'
    <3>1. CASE q # r
      BY <1>2, <1>4, <2>1, <3>1 DEF Turn
    <3>2. CASE q = r
      <4>1. CASE rank[r] < r
        <5>1. 3 * rank[r] + 3 <= 3 * r
          BY <1>1, <4>1
        <5>2. heard[r] < 3 * r /\ Len(log) <= 3 * r
          BY <1>1, <1>2, <5>1 DEF Turn
        <5> QED
          BY <1>1, <1>3, <1>4, <2>1, <3>2, <5>2 DEF Turn
      <4>2. CASE r < rank[r]
        <5>1. 3 * r + 3 <= 3 * rank[r] /\ 3 * r + 3 <= heard[r]
          BY <1>1, <4>2
        <5> QED
          BY <1>1, <1>3, <1>4, <2>1, <3>2, <5>1 DEF Turn
      <4> QED
        BY <1>1, <1>7, <4>1, <4>2
    <3> QED
      BY <3>1, <3>2
  <2> QED
    BY <1>1, <1>3, <1>4, <1>7, <2>1, <2>2
<1> QED
  BY <1>6, <1>7

\* What a rank knows by its place.
LEMMA StageFacts ==
  ASSUME DealtSoFar, NEW r \in Ranks
  PROVE  /\ r \in Nat /\ rank[r] \in Nat /\ heard[r] \in Nat /\ Len(log) \in Nat
         /\ 3 * rank[r] <= heard[r] /\ heard[r] <= Len(log)
         /\ pc[r] \notin Through =>
              rank[r] \in Ranks /\ heard[r] \in 3 * rank[r] .. 3 * rank[r] + 2
<1> DEFINE k == rank[r]
           h == heard[r]
<1>1. r \in Nat /\ Size \in Nat /\ 0 \in Ranks /\ \A s \in Ranks : s \in Nat
  BY RanksAre
<1>2. Stage(r) /\ h <= Len(log) /\ Len(log) \in Nat
  BY DEF DealtSoFar, Turn
<1>3. \/ k \in Ranks /\ (h = 3 * k \/ h = 3 * k + 1 \/ h = 3 * k + 2)
      \/ pc[r] \in Through /\ k = Size /\ h = 3 * Size
  <2>1. pc[r] \in {"sum", "average"} /\ k = 0 /\ h = 0 => k \in Ranks /\ h = 3 * k
    BY <1>1
  <2> QED
    BY <1>2, <2>1 DEF Stage
<1> HIDE DEF k, h
<1>4. CASE k \in Ranks /\ (h = 3 * k \/ h = 3 * k + 1 \/ h = 3 * k + 2)
  <2>1. k \in Nat
    BY <1>1, <1>4
  <2>2. h \in 3 * k .. 3 * k + 2 /\ h \in Nat /\ 3 * k <= h
    BY <1>4, <2>1
  <2>3. h \in Nat /\ 3 * k <= h /\ k \in Ranks /\ k \in Nat /\ r \in Nat /\ Len(log) \in Nat
    BY <1>1, <1>2, <1>4, <2>1, <2>2
  <2> QED
    BY <1>2, <2>2, <2>3 DEF k, h
<1>5. CASE pc[r] \in Through /\ k = Size /\ h = 3 * Size
  <2>1. k \in Nat /\ h \in Nat /\ 3 * k <= h
    BY <1>1, <1>5
  <2> QED
    BY <1>1, <1>2, <1>5, <2>1 DEF k, h
<1> QED
  BY <1>3, <1>4, <1>5

\* The log only grows: what it said of the beginning of a turn stays.
LEMMA GroupAtKept ==
  ASSUME Len(log) \in Nat, \A k \in 1 .. Len(log) : log'[k] = log[k],
         NEW t \in Nat, 3 * t <= Len(log)
  PROVE  GroupAt(t)' = GroupAt(t)
<1>1. CASE t = 0
  BY <1>1 DEF GroupAt
<1>2. CASE t # 0
  <2>1. 3 * t \in 1 .. Len(log)
    BY <1>2
  <2>2. log'[3 * t] = log[3 * t]
    BY <2>1
  <2> QED
    BY <1>2, <2>2 DEF GroupAt
<1> QED
  BY <1>1, <1>2

\* A rank that takes no part in a step knows afterwards what it knew before.
LEMMA OthersKeep ==
  ASSUME DealtSoFar, \A k \in 1 .. Len(log) : log'[k] = log[k],
         NEW q \in Ranks, heard'[q] = heard[q], rank'[q] = rank[q], pc'[q] = pc[q],
         group'[q] = group[q], groups'[q] = groups[q], coeff_sum'[q] = coeff_sum[q],
         cost'[q] = cost[q]
  PROVE  /\ Stage(q)' /\ KnowsGroup(q)' /\ coeff_sum'[q] \in Nat
         /\ (Had(q) => Stepwise(q))'
         /\ cost'[q] \in Seq(Nat) /\ Len(groups'[q]) = Len(cost'[q])
         /\ 3 * q <= Len(log) => EndOf(q)' = EndOf(q)
<1>1. /\ q \in Nat /\ rank[q] \in Nat /\ heard[q] \in Nat /\ Len(log) \in Nat
      /\ 3 * rank[q] <= heard[q] /\ heard[q] <= Len(log)
  BY StageFacts
<1>2. /\ Stage(q) /\ KnowsGroup(q) /\ coeff_sum[q] \in Nat /\ (Had(q) => Stepwise(q))
      /\ cost[q] \in Seq(Nat) /\ Len(groups[q]) = Len(cost[q])
  BY DEF DealtSoFar
<1>3. Stage(q)'
  BY <1>2 DEF Stage
<1>4. GroupAt(rank[q])' = GroupAt(rank[q])
  <2>1. 3 * rank[q] <= Len(log)
    BY <1>1
  <2>2. \A t \in Nat : 3 * t <= Len(log) => GroupAt(t)' = GroupAt(t)
    BY <1>1, GroupAtKept
  <2>3. (IF rank[q] = 0 THEN 0 ELSE log'[3 * rank[q]][2])
          = (IF rank[q] = 0 THEN 0 ELSE log[3 * rank[q]][2])
    <3>1. CASE rank[q] = 0
      BY <3>1
    <3>2. CASE rank[q] # 0
      <4>1. 3 * rank[q] \in 1 .. Len(log)
        BY <1>1, <2>1, <3>2
      <4> QED
        BY <3>2, <4>1
    <3> QED
      BY <3>1, <3>2
  <2> QED
    BY <2>3 DEF GroupAt
<1>5. 3 * q <= Len(log) => GroupAt(q)' = GroupAt(q)
  BY <1>1, GroupAtKept
<1>6. 3 * q <= Len(log) => EndOf(q)' = EndOf(q)
  BY <1>5 DEF EndOf
<1>7. KnowsGroup(q)'
  <2>1. heard[q] = 3 * q + 1 \/ heard[q] = 3 * q + 2 => EndOf(q)' = EndOf(q)
    BY <1>1, <1>6
  <2> QED
    BY <1>2, <1>4, <2>1 DEF KnowsGroup
<1>8. (Had(q) => Stepwise(q))'
  <2>1. Had(q)' = Had(q)
    BY DEF Had
  <2>2. ASSUME Had(q) PROVE Stepwise(q)'
    <3>1. GroupAt(q)' = GroupAt(q)
      BY <1>1, <1>5, <2>2 DEF Had
    <3> QED
      BY <1>2, <2>2, <3>1 DEF Stepwise
  <2> QED
    BY <2>1, <2>2
<1> QED
  BY <1>2, <1>3, <1>6, <1>7, <1>8

LEMMA TotalsKeep ==
  ASSUME DealtSoFar, Shape, NEW r \in Ranks, OfferTotal(r) \/ ReceiveTotal(r),
         UNCHANGED <<copy, sizes, posted, result>>
  PROVE  DealtSoFar' /\ Shape' /\ pc'[r] \notin Through /\ groups' = groups
<1>1. /\ pc[r] \in {"sum", "average"} /\ pc'[r] \in {"average", "size"}
      /\ DOMAIN pc' = Ranks /\ \A q \in Ranks : q # r => pc'[q] = pc[q]
      /\ UNCHANGED <<cost, groups, coeff_sum, group, rank, log, heard>>
  BY DEF OfferTotal, ReceiveTotal, Shape
<1>2. \A t : GroupAt(t)' = GroupAt(t) /\ EndOf(t)' = EndOf(t)
  BY <1>1 DEF GroupAt, EndOf
<1>3. \A q \in Ranks : /\ Turn(q)' = Turn(q) /\ KnowsGroup(q)' = KnowsGroup(q)
                       /\ Had(q)' = Had(q) /\ Stepwise(q)' = Stepwise(q)
  BY <1>1, <1>2 DEF Turn, KnowsGroup, Had, Stepwise
<1>4. \A q \in Ranks : q # r => Stage(q)' = Stage(q)
  BY <1>1 DEF Stage
<1>5. Stage(r)'
  <2>1. rank[r] = 0 /\ heard[r] = 0 /\ 0 \in Ranks
    BY <1>1, RanksAre DEF DealtSoFar, Stage, Through
  <2> QED
    BY <1>1, <2>1 DEF Stage
<1>6. DealtSoFar'
  BY <1>1, <1>2, <1>3, <1>4, <1>5 DEF DealtSoFar
<1>7. Shape'
  BY <1>1 DEF Shape
<1> QED
  BY <1>1, <1>6, <1>7 DEF Through

\* The turn of rank r begins: it deals out its visibilities, or another rank does.
LEMMA DealOutKeeps ==
  ASSUME DealtSoFar, Shape, NEW r \in Ranks, DealOut(r),
         groups[r] \in Seq(Nat), UNCHANGED <<copy, sizes, posted, result>>
  PROVE  /\ DealtSoFar' /\ Shape' /\ pc'[r] \notin Through
         /\ \A q \in Ranks : q # r => groups'[q] = groups[q]
         /\ groups'[r] \in Seq(Nat) /\ Len(groups'[r]) = Len(groups[r])
<1> DEFINE n == Len(cost[r])
           own == <<"size", n>>
           F == Dealt(r)
<1>1a. pc[r] = "size" /\ Hear(r) /\ UNCHANGED <<cost, rank>>
  BY DEF DealOut
<1>1b. Sends(r, own) \/ Reads(r)
  BY DEF DealOut
<1>2. /\ r \in Nat /\ rank[r] \in Nat /\ heard[r] \in Nat /\ Len(log) \in Nat
      /\ rank[r] \in Ranks /\ heard[r] = 3 * rank[r] /\ heard[r] <= Len(log)
  BY <1>1a, StageFacts DEF DealtSoFar, Stage, Through
<1>3. cost[r] \in Seq(Nat) /\ n \in Nat /\ Len(groups[r]) = n /\ coeff_sum[r] \in Nat
  BY DEF DealtSoFar
<1>4. own \in Said
  BY <1>3 DEF Said
<1>5. /\ log' \in Seq(Said) /\ Len(log) <= Len(log')
      /\ \A k \in 1 .. Len(log) : log'[k] = log[k]
      /\ DOMAIN heard' = Ranks /\ heard'[r] = heard[r] + 1
      /\ \A q \in Ranks : q # r => heard'[q] = heard[q]
      /\ heard[r] + 1 <= Len(log')
      /\ \A q \in Ranks : Turn(q)'
      /\ rank[r] = r => Len(log) = heard[r] /\ Len(log') = heard[r] + 1
      /\ rank[r] # r => log' = log
  <2>1. heard[r] \in 3 * rank[r] .. 3 * rank[r] + 2
    BY <1>2
  <2> HIDE DEF own
  <2> QED
    BY <1>1a, <1>1b, <1>2, <1>4, <2>1, BroadcastKeepsTurns
<1>6. group[r] = GroupAt(rank[r]) /\ group[r] \in 0 .. Size-1
  <2>1. KnowsGroup(r) /\ ~(heard[r] = 3 * r + 1 \/ heard[r] = 3 * r + 2)
    BY <1>2 DEF DealtSoFar
  <2>2. group[r] = GroupAt(rank[r])
    BY <2>1 DEF KnowsGroup
  <2>3. rank[r] \in 0 .. Size /\ 3 * rank[r] <= Len(log)
    BY <1>2, RanksAre
  <2> QED
    BY <2>2, <2>3 DEF DealtSoFar
<1>7. /\ F[0].group = group[r]
      /\ \A i \in 0 .. n : F[i].group \in 0 .. Size-1 /\ F[i].sum \in Nat
      /\ \A i \in 1 .. n : F[i].group - F[i-1].group \in {0, 1}
  BY <1>3, <1>6, DealtSteps
<1>8. /\ \A q \in Ranks : q # r => /\ groups'[q] = groups[q] /\ group'[q] = group[q]
                                   /\ coeff_sum'[q] = coeff_sum[q] /\ pc'[q] = pc[q]
      /\ Shape'
  BY <1>5 DEF DealOut, Shape
<1>9. rank[r] = r =>
        /\ groups'[r] = [i \in DOMAIN groups[r] |-> F[i].group]
        /\ group'[r] = F[n].group /\ coeff_sum'[r] = F[n].sum
  BY DEF DealOut, Shape
<1>10. rank[r] # r => groups' = groups /\ group' = group /\ coeff_sum' = coeff_sum
  BY DEF DealOut
<1> HIDE DEF F, n, own
<1>11. /\ group'[r] \in 0 .. Size-1 /\ coeff_sum'[r] \in Nat
  BY <1>3, <1>6, <1>7, <1>9, <1>10
<1>12. pc'[r] = "handover"
  <2>1. pc'[r] = IF group'[r] > Size - 1 THEN "threw" ELSE "handover"
    BY DEF DealOut, Shape
  <2>2. ~(group'[r] > Size - 1)
    BY <1>11, RanksAre
  <2> QED
    BY <2>1, <2>2
<1>13. /\ groups'[r] \in Seq(Nat) /\ Len(groups'[r]) = n
       /\ rank[r] = r => \A i \in 1 .. n : groups'[r][i] = F[i].group
  <2>1. CASE rank[r] # r
    BY <1>3, <1>10, <2>1
  <2>2. CASE rank[r] = r
    <3>1. DOMAIN groups[r] = 1 .. n
      BY <1>3
    <3>2. groups'[r] = [i \in 1 .. n |-> F[i].group]
      BY <1>9, <2>2, <3>1
    <3>3. \A i \in 1 .. n : F[i].group \in Nat
      BY <1>3, <1>7, RanksAre
    <3>4. groups'[r] \in [1 .. n -> Nat] /\ n \in Nat
      BY <1>3, <3>2, <3>3
    <3>5. groups'[r] \in Seq(Nat) /\ Len(groups'[r]) = n
      <4> DEFINE g == groups'[r]
      <4>1. g \in [1 .. n -> Nat] /\ n \in Nat
        BY <3>4
      <4> HIDE DEF g, n
      <4> QED
        BY ONLY <4>1 DEF g
    <3>6. \A i \in 1 .. n : groups'[r][i] = F[i].group
      BY <3>2
    <3> QED
      BY <3>5, <3>6
  <2> QED
    BY <2>1, <2>2
<1>14. \A t \in Nat : 3 * t <= Len(log) => GroupAt(t)' = GroupAt(t)
  BY <1>2, <1>5, GroupAtKept
<1>15. ASSUME NEW q \in Ranks, q # r
       PROVE  /\ Stage(q)' /\ KnowsGroup(q)' /\ coeff_sum'[q] \in Nat
              /\ (Had(q) => Stepwise(q))'
              /\ cost'[q] \in Seq(Nat) /\ Len(groups'[q]) = Len(cost'[q])
              /\ 3 * q <= Len(log) => EndOf(q)' = EndOf(q)
  BY <1>1a, <1>5, <1>8, <1>15, OthersKeep
<1>16. Stage(r)'
  BY <1>1a, <1>2, <1>5, <1>12 DEF Stage
<1>17. rank[r] = r => Stepwise(r)' /\ group'[r] = EndOf(r)' /\ GroupAt(r)' = group[r]
  <2> SUFFICES ASSUME rank[r] = r
               PROVE  Stepwise(r)' /\ group'[r] = EndOf(r)' /\ GroupAt(r)' = group[r]
    OBVIOUS
  <2>1. GroupAt(r)' = group[r]
    BY <1>2, <1>5, <1>6, <1>14
  <2>2. DOMAIN groups'[r] = 1 .. n /\ \A i \in 1 .. n : groups'[r][i] = F[i].group
    BY <1>13
  <2>3. groups'[r] # <<>> <=> n # 0
    BY <1>3, <1>13
  <2>4. CASE n = 0
    <3>1. groups'[r] = <<>>
      BY <2>3, <2>4
    <3>2. EndOf(r)' = group[r] /\ group'[r] = group[r]
      BY <1>7, <1>9, <2>1, <2>4, <3>1 DEF EndOf
    <3>3. Stepwise(r)'
      BY <2>2, <2>4, <3>1 DEF Stepwise
    <3> QED
      BY <2>1, <3>2, <3>3
  <2>5. CASE n # 0
    <3>1. 1 \in 1 .. n /\ n \in 1 .. n /\ 1 - 1 = 0
      BY <1>3, <2>5
    <3>2. EndOf(r)' = F[n].group
      BY <1>13, <2>2, <2>3, <2>5, <3>1 DEF EndOf
    <3>3. groups'[r][1] - GroupAt(r)' \in {0, 1}
      <4>1. groups'[r][1] = F[1].group
        BY <2>2, <3>1
      <4>2. F[1].group - F[0].group \in {0, 1}
        BY <1>7, <3>1
      <4> QED
        BY <1>7, <2>1, <4>1, <4>2
    <3>4. ASSUME NEW i \in 1 .. n, i > 1 PROVE groups'[r][i] - groups'[r][i-1] \in {0, 1}
      <4>1. i - 1 \in 1 .. n
        BY <1>3, <3>4
      <4> QED
        BY <1>7, <2>2, <4>1
    <3>5. \A i \in 1 .. n : groups'[r][i] \in 0 .. Size-1
      <4>1. \A i \in 1 .. n : i \in 0 .. n
        BY <1>3
      <4> QED
        BY <1>7, <2>2, <4>1
    <3> QED
      BY <1>9, <2>1, <2>2, <3>2, <3>3, <3>4, <3>5 DEF Stepwise
  <2> QED
    BY <1>3, <2>4, <2>5
<1>18. KnowsGroup(r)' /\ (Had(r) => Stepwise(r))'
  <2>1. CASE rank[r] = r
    <3>1. heard'[r] = 3 * r + 1
      BY <1>2, <1>5, <2>1
    <3> QED
      BY <1>17, <2>1, <3>1 DEF KnowsGroup
  <2>2. CASE rank[r] # r
    <3>1. log' = log /\ groups' = groups /\ group' = group /\ heard'[r] = 3 * rank[r] + 1
      BY <1>2, <1>5, <1>10, <2>2
    <3>2. heard'[r] # 3 * r + 1 /\ heard'[r] # 3 * r + 2
      BY <1>2, <2>2, <3>1
    <3>3. GroupAt(rank[r])' = GroupAt(rank[r]) /\ rank' = rank /\ GroupAt(r)' = GroupAt(r)
      BY <1>1a, <3>1 DEF GroupAt
    <3>4. KnowsGroup(r)'
      BY <1>6, <3>1, <3>2, <3>3 DEF KnowsGroup
    <3>5. Had(r)' => Had(r)
      BY <1>2, <2>2, <3>1 DEF Had
    <3>6. (Had(r) => Stepwise(r))'
      BY <3>1, <3>3, <3>5 DEF DealtSoFar, Stepwise
    <3> QED
      BY <3>4, <3>6
  <2> QED
    BY <2>1, <2>2
<1>18a. Len(log') \in Nat /\ \A t \in Nat : 3 * t <= Len(log') => 3 * t <= Len(log)
  <2>1. CASE rank[r] = r
    BY <1>2, <1>5, <2>1
  <2>2. CASE rank[r] # r
    BY <1>2, <1>5, <2>2
  <2> QED
    BY <2>1, <2>2
<1>19. \A t \in 0 .. Size : 3 * t <= Len(log') => GroupAt(t)' \in 0 .. Size-1
  <2> SUFFICES ASSUME NEW t \in 0 .. Size, 3 * t <= Len(log') PROVE GroupAt(t)' \in 0 .. Size-1
    OBVIOUS
  <2>1. t \in Nat
    BY RanksAre
  <2>2. 3 * t <= Len(log)
    BY <1>18a, <2>1
  <2> QED
    BY <1>14, <2>1, <2>2 DEF DealtSoFar
<1>20. \A t \in Ranks : 3 * t + 3 <= Len(log') => GroupAt(t + 1)' = EndOf(t)'
  <2> SUFFICES ASSUME NEW t \in Ranks, 3 * t + 3 <= Len(log') PROVE GroupAt(t + 1)' = EndOf(t)'
    OBVIOUS
  <2>1. t \in Nat /\ t + 1 \in Nat
    BY RanksAre
  <2>2. 3 * (t + 1) <= Len(log) /\ 3 * t + 3 <= Len(log) /\ 3 * t <= Len(log)
    <3>1. 3 * (t + 1) <= Len(log') /\ 3 * t <= Len(log')
      BY <1>18a, <2>1
    <3>2. 3 * (t + 1) <= Len(log) /\ 3 * t <= Len(log)
      BY <1>18a, <2>1, <3>1
    <3> QED
      BY <2>1, <3>2
  <2>3. GroupAt(t + 1)' = GroupAt(t + 1) /\ GroupAt(t + 1) = EndOf(t)
    BY <1>14, <2>1, <2>2 DEF DealtSoFar
  <2>4. CASE t = r
    <3>1. rank[r] # r
      BY <1>2, <1>5, <2>2, <2>4
    <3>2. EndOf(r)' = EndOf(r)
      BY <1>5, <1>10, <3>1 DEF EndOf, GroupAt
    <3> QED
      BY <2>3, <2>4, <3>2
  <2>5. CASE t # r
    BY <1>15, <2>2, <2>3, <2>5
  <2> QED
    BY <2>4, <2>5
<1>21. Len(groups'[r]) = Len(cost'[r]) /\ cost'[r] \in Seq(Nat)
  BY <1>1a, <1>3, <1>13 DEF n
<1>22. DealtSoFar'
  <2>1. ASSUME NEW q \in Ranks
        PROVE  /\ Stage(q)' /\ KnowsGroup(q)' /\ coeff_sum'[q] \in Nat
               /\ (Had(q) => Stepwise(q))'
               /\ cost'[q] \in Seq(Nat) /\ Len(groups'[q]) = Len(cost'[q])
    BY <1>11, <1>15, <1>16, <1>18, <1>21
  <2> QED
    BY <1>5, <1>19, <1>20, <2>1 DEF DealtSoFar
<1> QED
  BY <1>3, <1>8, <1>12, <1>13, <1>22 DEF Through

\* The sum is handed on.
LEMMA HandOverSumKeeps ==
  ASSUME DealtSoFar, Shape, NEW r \in Ranks, HandOverSum(r),
         UNCHANGED <<copy, sizes, posted, result>>
  PROVE  DealtSoFar' /\ Shape' /\ pc'[r] \notin Through /\ groups' = groups
<1> DEFINE own == <<"coeff_sum", coeff_sum[r]>>
<1>1. /\ pc[r] = "handover" /\ pc' = [pc EXCEPT ![r] = "next"] /\ Hear(r)
      /\ coeff_sum' = [coeff_sum EXCEPT ![r] = log'[heard[r] + 1][2]]
      /\ UNCHANGED <<cost, groups, group, rank>>
  BY DEF HandOverSum, Heard
<1>2. Sends(r, own) \/ Reads(r)
  BY DEF HandOverSum
<1>3. /\ r \in Nat /\ rank[r] \in Nat /\ heard[r] \in Nat /\ Len(log) \in Nat
      /\ rank[r] \in Ranks /\ heard[r] = 3 * rank[r] + 1 /\ heard[r] <= Len(log)
  BY <1>1, StageFacts DEF DealtSoFar, Stage, Through
<1>4. own \in Said
  BY DEF Said, DealtSoFar
<1>5. /\ log' \in Seq(Said) /\ Len(log) <= Len(log')
      /\ \A k \in 1 .. Len(log) : log'[k] = log[k]
      /\ DOMAIN heard' = Ranks /\ heard'[r] = heard[r] + 1
      /\ \A q \in Ranks : q # r => heard'[q] = heard[q]
      /\ heard[r] + 1 <= Len(log')
      /\ \A q \in Ranks : Turn(q)'
      /\ rank[r] = r => Len(log) = heard[r] /\ Len(log') = heard[r] + 1
      /\ rank[r] # r => log' = log
  <2>1. heard[r] \in 3 * rank[r] .. 3 * rank[r] + 2
    BY <1>3
  <2> HIDE DEF own
  <2> QED
    BY <1>1, <1>2, <1>3, <1>4, <2>1, BroadcastKeepsTurns
<1>6. /\ Shape' /\ pc'[r] = "next" /\ coeff_sum'[r] = log'[heard[r] + 1][2]
      /\ \A q \in Ranks : q # r => coeff_sum'[q] = coeff_sum[q] /\ pc'[q] = pc[q]
  BY <1>1, <1>5 DEF Shape
<1>7. coeff_sum'[r] \in Nat
  <2>1. heard[r] + 1 \in 1 .. Len(log')
    BY <1>3, <1>5
  <2>2. log'[heard[r] + 1] \in Said
    BY <1>5, <2>1
  <2> QED
    BY <1>6, <2>2 DEF Said
<1>8. \A t \in Nat : 3 * t <= Len(log) => GroupAt(t)' = GroupAt(t)
  BY <1>3, <1>5, GroupAtKept
<1>9. \A t \in Nat : 3 * t <= Len(log') => 3 * t <= Len(log)
  <2>1. CASE rank[r] = r
    BY <1>3, <1>5, <2>1
  <2>2. CASE rank[r] # r
    BY <1>5, <2>2
  <2> QED
    BY <2>1, <2>2
<1>10. ASSUME NEW q \in Ranks, q # r
       PROVE  /\ Stage(q)' /\ KnowsGroup(q)' /\ coeff_sum'[q] \in Nat
              /\ (Had(q) => Stepwise(q))'
              /\ cost'[q] \in Seq(Nat) /\ Len(groups'[q]) = Len(cost'[q])
  BY <1>1, <1>5, <1>6, <1>10, OthersKeep
<1>11. \A t \in Ranks : 3 * t <= Len(log) => EndOf(t)' = EndOf(t)
  <2> SUFFICES ASSUME NEW t \in Ranks, 3 * t <= Len(log) PROVE EndOf(t)' = EndOf(t)
    OBVIOUS
  <2>1. GroupAt(t)' = GroupAt(t)
    BY <1>8, RanksAre
  <2> QED
    BY <1>1, <2>1 DEF EndOf
<1>12. Stage(r)'
  BY <1>1, <1>3, <1>5, <1>6 DEF Stage
<1>13. KnowsGroup(r)' /\ (Had(r) => Stepwise(r))'
  <2>1. GroupAt(rank[r])' = GroupAt(rank[r]) /\ rank' = rank
    <3>1. 3 * rank[r] <= Len(log)
      BY <1>3
    <3>2. (IF rank[r] = 0 THEN 0 ELSE log'[3 * rank[r]][2])
            = (IF rank[r] = 0 THEN 0 ELSE log[3 * rank[r]][2])
      <4>1. rank[r] # 0 => 3 * rank[r] \in 1 .. Len(log)
        BY <1>3, <3>1
      <4> QED
        BY <1>5, <4>1
    <3> QED
      BY <1>1, <3>2 DEF GroupAt
  <2>2. KnowsGroup(r)
    BY DEF DealtSoFar
  <2>3. CASE rank[r] = r
    <3>1. heard[r] = 3 * r + 1 /\ heard'[r] = 3 * r + 2 /\ 3 * r <= Len(log)
      BY <1>3, <1>5, <2>3
    <3>2. EndOf(r)' = EndOf(r) /\ GroupAt(r)' = GroupAt(r)
      BY <1>3, <1>8, <1>11, <3>1
    <3>3. KnowsGroup(r)'
      BY <1>1, <2>2, <3>1, <3>2 DEF KnowsGroup
    <3>4. Had(r) /\ Stepwise(r)
      BY <1>3, <3>1 DEF Had, DealtSoFar
    <3>5. Stepwise(r)'
      BY <1>1, <3>2, <3>4 DEF Stepwise
    <3> QED
      BY <3>3, <3>5
  <2>4. CASE rank[r] # r
    <3>1. /\ heard[r] # 3 * r + 1 /\ heard[r] # 3 * r + 2
          /\ heard'[r] # 3 * r + 1 /\ heard'[r] # 3 * r + 2
      BY <1>3, <1>5, <2>4
    <3>2. KnowsGroup(r)'
      BY <1>1, <2>1, <2>2, <3>1 DEF KnowsGroup
    <3>3. log' = log
      BY <1>5, <2>4
    <3>4. Had(r)' => Had(r)
      BY <1>3, <1>5, <2>4 DEF Had
    <3>5. (Had(r) => Stepwise(r))'
      BY <1>1, <3>3, <3>4 DEF DealtSoFar, Stepwise, GroupAt
    <3> QED
      BY <3>2, <3>5
  <2> QED
    BY <2>3, <2>4
<1>14. \A t \in 0 .. Size : 3 * t <= Len(log') => GroupAt(t)' \in 0 .. Size-1
  <2> SUFFICES ASSUME NEW t \in 0 .. Size, 3 * t <= Len(log') PROVE GroupAt(t)' \in 0 .. Size-1
    OBVIOUS
  <2>1. t \in Nat
    BY RanksAre
  <2>2. 3 * t <= Len(log)
    BY <1>9, <2>1
  <2> QED
    BY <1>8, <2>1, <2>2 DEF DealtSoFar
<1>15. \A t \in Ranks : 3 * t + 3 <= Len(log') => GroupAt(t + 1)' = EndOf(t)'
  <2> SUFFICES ASSUME NEW t \in Ranks, 3 * t + 3 <= Len(log') PROVE GroupAt(t + 1)' = EndOf(t)'
    OBVIOUS
  <2>1. t \in Nat /\ t + 1 \in Nat /\ Len(log') \in Nat
    BY <1>5, RanksAre
  <2>2. 3 * (t + 1) <= Len(log) /\ 3 * t <= Len(log)
    <3>1. 3 * (t + 1) <= Len(log') /\ 3 * t <= Len(log')
      BY <2>1
    <3> QED
      BY <1>9, <2>1, <3>1
  <2>3. GroupAt(t + 1)' = GroupAt(t + 1) /\ EndOf(t)' = EndOf(t)
    BY <1>8, <1>11, <2>1, <2>2
  <2>4. 3 * t + 3 <= Len(log)
    BY <1>3, <2>1, <2>2
  <2> QED
    BY <2>3, <2>4 DEF DealtSoFar
<1>16. DealtSoFar'
  <2>1. ASSUME NEW q \in Ranks
        PROVE  /\ Stage(q)' /\ KnowsGroup(q)' /\ coeff_sum'[q] \in Nat
               /\ (Had(q) => Stepwise(q))'
               /\ cost'[q] \in Seq(Nat) /\ Len(groups'[q]) = Len(cost'[q])
    <3>1. CASE q # r
      BY <1>10, <3>1
    <3>2. cost'[r] \in Seq(Nat) /\ Len(groups'[r]) = Len(cost'[r])
      BY <1>1 DEF DealtSoFar
    <3> QED
      BY <1>7, <1>12, <1>13, <3>1, <3>2
  <2> QED
    BY <1>5, <1>14, <1>15, <2>1 DEF DealtSoFar
<1> QED
  BY <1>1, <1>6, <1>16 DEF Through

\* The group is handed on, which ends the turn.
LEMMA HandOverGroupKeeps ==
  ASSUME DealtSoFar, Shape, NEW r \in Ranks, HandOverGroup(r), groups[r] \in Seq(Nat),
         UNCHANGED <<copy, sizes, posted, result>>
  PROVE  DealtSoFar' /\ Shape' /\ pc'[r] \in {"size", "regroup"} /\ groups' = groups
<1> DEFINE own == <<"group", group[r]>>
<1>1. /\ pc[r] = "next" /\ Hear(r)
      /\ pc' = [pc EXCEPT ![r] = IF rank[r] = Size - 1 THEN "regroup" ELSE "size"]
      /\ group' = [group EXCEPT ![r] = log'[heard[r] + 1][2]]
      /\ rank' = [rank EXCEPT ![r] = @ + 1]
      /\ UNCHANGED <<cost, groups, coeff_sum>>
  BY DEF HandOverGroup, Heard
<1>2. Sends(r, own) \/ Reads(r)
  BY DEF HandOverGroup
<1>3. /\ r \in Nat /\ rank[r] \in Nat /\ heard[r] \in Nat /\ Len(log) \in Nat
      /\ rank[r] \in Ranks /\ heard[r] = 3 * rank[r] + 2 /\ heard[r] <= Len(log)
  BY <1>1, StageFacts DEF DealtSoFar, Stage, Through
<1>4. ASSUME NEW t \in Ranks, 3 * t <= Len(log) PROVE GroupAt(t) \in 0 .. Size-1
  <2>1. t \in 0 .. Size
    BY RanksAre
  <2> QED
    BY <1>4, <2>1 DEF DealtSoFar
<1>5. /\ group[r] \in 0 .. Size-1
      /\ rank[r] = r => group[r] = EndOf(r) /\ Had(r) /\ Stepwise(r) /\ 3 * r <= Len(log)
  <2>1. KnowsGroup(r)
    BY DEF DealtSoFar
  <2>2. CASE rank[r] # r
    <3>1. group[r] = GroupAt(rank[r])
      BY <1>3, <2>1, <2>2 DEF KnowsGroup
    <3>2. 3 * rank[r] <= Len(log)
      BY <1>3
    <3> QED
      BY <1>3, <1>4, <2>2, <3>1, <3>2
  <2>3. CASE rank[r] = r
    <3>1. heard[r] = 3 * r + 2 /\ 3 * r <= Len(log)
      BY <1>3, <2>3
    <3>2. group[r] = EndOf(r)
      BY <2>1, <3>1 DEF KnowsGroup
    <3>3. Had(r) /\ Stepwise(r)
      BY <1>3, <3>1 DEF Had, DealtSoFar
    <3>4. EndOf(r) \in 0 .. Size-1
      <4>1. CASE groups[r] = <<>>
        BY <1>4, <3>1, <4>1 DEF EndOf
      <4>2. CASE groups[r] # <<>>
        <5>1. Len(groups[r]) \in DOMAIN groups[r]
          BY <4>2
        <5> QED
          BY <3>3, <4>2, <5>1 DEF EndOf, Stepwise
      <4> QED
        BY <4>1, <4>2
    <3> QED
      BY <3>1, <3>2, <3>3, <3>4
  <2> QED
    BY <2>2, <2>3
<1>6. own \in Said
  BY <1>5, RanksAre DEF Said
<1>7. /\ log' \in Seq(Said) /\ Len(log) <= Len(log')
      /\ \A k \in 1 .. Len(log) : log'[k] = log[k]
      /\ DOMAIN heard' = Ranks /\ heard'[r] = heard[r] + 1
      /\ \A q \in Ranks : q # r => heard'[q] = heard[q]
      /\ heard[r] + 1 <= Len(log')
      /\ \A q \in Ranks : Turn(q)'
      /\ rank[r] = r => /\ Len(log) = heard[r] /\ Len(log') = heard[r] + 1
                        /\ log'[heard[r] + 1] = own
      /\ rank[r] # r => log' = log
  <2>1. heard[r] \in 3 * rank[r] .. 3 * rank[r] + 2
    BY <1>3
  <2> HIDE DEF own
  <2> QED
    BY <1>1, <1>2, <1>3, <1>6, <2>1, BroadcastKeepsTurns
<1>8. /\ Shape' /\ pc'[r] \in {"size", "regroup"}
      /\ pc'[r] = IF rank[r] = Size - 1 THEN "regroup" ELSE "size"
      /\ rank'[r] = rank[r] + 1 /\ group'[r] = log'[heard[r] + 1][2]
      /\ \A q \in Ranks : q # r => /\ group'[q] = group[q] /\ pc'[q] = pc[q]
                                   /\ rank'[q] = rank[q]
  BY <1>1, <1>7 DEF Shape
<1>9. GroupAt(rank[r])' = log'[heard[r] + 1][2]
  <2>0. rank'[r] = rank[r] + 1 /\ rank[r] \in Nat /\ heard[r] = 3 * rank[r] + 2
    BY <1>3, <1>8
  <2>1. 3 * rank'[r] = heard[r] + 1 /\ rank'[r] # 0
    BY <2>0
  <2>2. (IF rank'[r] = 0 THEN 0 ELSE log'[3 * rank'[r]][2]) = log'[heard[r] + 1][2]
    BY <2>1
  <2> QED
    BY <2>2 DEF GroupAt
<1>10. \A t \in Nat : 3 * t <= Len(log) => GroupAt(t)' = GroupAt(t)
  BY <1>3, <1>7, GroupAtKept
<1>11. \A t \in Ranks : 3 * t <= Len(log) => EndOf(t)' = EndOf(t)
  <2> SUFFICES ASSUME NEW t \in Ranks, 3 * t <= Len(log) PROVE EndOf(t)' = EndOf(t)
    OBVIOUS
  <2>1. GroupAt(t)' = GroupAt(t)
    BY <1>10, RanksAre
  <2> QED
    BY <1>1, <2>1 DEF EndOf
<1>12. rank[r] = r => GroupAt(r + 1)' = group[r] /\ 3 * r + 2 = Len(log)
  <2> SUFFICES ASSUME rank[r] = r PROVE GroupAt(r + 1)' = group[r] /\ 3 * r + 2 = Len(log)
    OBVIOUS
  <2>1. 3 * (r + 1) = heard[r] + 1 /\ r + 1 # 0 /\ 3 * r + 2 = Len(log)
    BY <1>3, <1>7
  <2>2. log'[3 * (r + 1)][2] = group[r]
    BY <1>7, <2>1
  <2> QED
    BY <2>1, <2>2 DEF GroupAt
<1>13. ASSUME NEW q \in Ranks, q # r
       PROVE  /\ Stage(q)' /\ KnowsGroup(q)' /\ coeff_sum'[q] \in Nat
              /\ (Had(q) => Stepwise(q))'
              /\ cost'[q] \in Seq(Nat) /\ Len(groups'[q]) = Len(cost'[q])
  BY <1>1, <1>7, <1>8, <1>13, OthersKeep
<1>14. Stage(r)'
  <2>1. CASE rank[r] = Size - 1
    <3>1. rank'[r] = Size /\ heard'[r] = 3 * Size /\ pc'[r] = "regroup"
      BY <1>3, <1>7, <1>8, <2>1, RanksAre
    <3> QED
      BY <3>1 DEF Stage, Through
  <2>2. CASE rank[r] # Size - 1
    <3>1. rank'[r] \in Ranks /\ heard'[r] = 3 * rank'[r] /\ pc'[r] = "size"
      <4>1. /\ rank'[r] = rank[r] + 1 /\ heard'[r] = heard[r] + 1 /\ heard[r] = 3 * rank[r] + 2
            /\ pc'[r] = "size"
        BY <1>3, <1>7, <1>8, <2>2
      <4>2. rank[r] \in 0 .. Size-1 /\ Size \in Nat /\ Ranks = 0 .. Size-1
        BY <1>3, RanksAre
      <4>3. 3 * rank'[r] = heard'[r]
        <5> DEFINE k == rank[r]
        <5>1. k \in Int /\ rank'[r] = k + 1 /\ heard'[r] = (3 * k + 2) + 1
          BY <4>1, <4>2
        <5> HIDE DEF k
        <5> QED
          BY <5>1
      <4>4. rank'[r] \in Ranks
        <5> DEFINE k == rank[r]
        <5>1. k \in 0 .. Size-1 /\ k # Size - 1 /\ rank'[r] = k + 1
          BY <2>2, <4>1, <4>2
        <5> HIDE DEF k
        <5> QED
          BY <4>2, <5>1
      <4> QED
        BY <4>1, <4>3, <4>4
    <3> QED
      BY <3>1 DEF Stage
  <2> QED
    BY <2>1, <2>2
<1>15. KnowsGroup(r)' /\ (Had(r) => Stepwise(r))'
  <2>1. heard'[r] = 3 * rank[r] + 3
    BY <1>3, <1>7
  <2>2. heard'[r] # 3 * r + 1 /\ heard'[r] # 3 * r + 2
    BY <1>3, <2>1
  <2>3. KnowsGroup(r)'
    BY <1>8, <1>9, <2>2 DEF KnowsGroup
  <2>4. CASE rank[r] = r
    <3>1. GroupAt(r)' = GroupAt(r)
      BY <1>3, <1>5, <1>10, <2>4
    <3>2. Stepwise(r)'
      BY <1>1, <1>5, <2>4, <3>1 DEF Stepwise
    <3> QED
      BY <2>3, <3>2
  <2>5. CASE rank[r] # r
    <3>1. log' = log
      BY <1>7, <2>5
    <3>2. Had(r)' => Had(r)
      BY <1>3, <2>1, <2>5 DEF Had
    <3>3. (Had(r) => Stepwise(r))'
      BY <1>1, <3>1, <3>2 DEF DealtSoFar, Stepwise, GroupAt
    <3> QED
      BY <2>3, <3>3
  <2> QED
    BY <2>4, <2>5
<1>16. \A t \in Nat : 3 * t <= Len(log') => 3 * t <= Len(log) \/ (rank[r] = r /\ t = r + 1)
  <2>1. CASE rank[r] = r
    BY <1>3, <1>7, <2>1
  <2>2. CASE rank[r] # r
    BY <1>7, <2>2
  <2> QED
    BY <2>1, <2>2
<1>17. \A t \in 0 .. Size : 3 * t <= Len(log') => GroupAt(t)' \in 0 .. Size-1
  <2> SUFFICES ASSUME NEW t \in 0 .. Size, 3 * t <= Len(log') PROVE GroupAt(t)' \in 0 .. Size-1
    OBVIOUS
  <2>1. t \in Nat
    BY RanksAre
  <2>2. CASE 3 * t <= Len(log)
    BY <1>10, <2>1, <2>2 DEF DealtSoFar
  <2>3. CASE rank[r] = r /\ t = r + 1
    BY <1>5, <1>12, <2>3
  <2> QED
    BY <1>16, <2>1, <2>2, <2>3
<1>18. \A t \in Ranks : 3 * t + 3 <= Len(log') => GroupAt(t + 1)' = EndOf(t)'
  <2> SUFFICES ASSUME NEW t \in Ranks, 3 * t + 3 <= Len(log') PROVE GroupAt(t + 1)' = EndOf(t)'
    OBVIOUS
  <2>1. t \in Nat /\ t + 1 \in Nat /\ Len(log') \in Nat
    BY <1>7, RanksAre
  <2>2. 3 * (t + 1) <= Len(log') /\ 3 * (t + 1) = 3 * t + 3
    BY <2>1
  <2>3. CASE 3 * (t + 1) <= Len(log)
    <3>1. 3 * t <= Len(log) /\ 3 * t + 3 <= Len(log)
      BY <1>3, <2>1, <2>3
    <3>2. GroupAt(t + 1)' = GroupAt(t + 1) /\ EndOf(t)' = EndOf(t)
      BY <1>10, <1>11, <2>1, <2>3, <3>1
    <3> QED
      BY <3>1, <3>2 DEF DealtSoFar
  <2>4. CASE rank[r] = r /\ t + 1 = r + 1
    <3>1. t = r
      BY <1>3, <2>1, <2>4
    <3>2. EndOf(r)' = EndOf(r)
      BY <1>5, <1>11, <2>4
    <3>3. GroupAt(r + 1)' = EndOf(r)
      BY <1>5, <1>12, <2>4
    <3> QED
      BY <3>1, <3>2, <3>3
  <2> QED
    BY <1>16, <2>1, <2>2, <2>3, <2>4
<1>19. DealtSoFar'
  <2>1. ASSUME NEW q \in Ranks
        PROVE  /\ Stage(q)' /\ KnowsGroup(q)' /\ coeff_sum'[q] \in Nat
               /\ (Had(q) => Stepwise(q))'
               /\ cost'[q] \in Seq(Nat) /\ Len(groups'[q]) = Len(cost'[q])
    <3>1. CASE q # r
      BY <1>13, <3>1
    <3>2. /\ cost'[r] \in Seq(Nat) /\ Len(groups'[r]) = Len(cost'[r])
          /\ coeff_sum'[r] \in Nat
      BY <1>1 DEF DealtSoFar
    <3> QED
      BY <1>14, <1>15, <3>1, <3>2
  <2> QED
    BY <1>7, <1>17, <1>18, <2>1 DEF DealtSoFar
<1> QED
  BY <1>1, <1>8, <1>19

(***************************************************************************)
(* The invariant holds in every step.                                      *)
(***************************************************************************)

\* The first call is an exchange: nobody has returned from a call before all are in it.
LEMMA NobodyAhead ==
  ASSUME StackInv, NEW s \in Ranks, posted[s] = 0
  PROVE  \A q \in Ranks : Completed(q) \in Int /\ Completed(q) < 1
<1> SUFFICES ASSUME NEW q \in Ranks PROVE Completed(q) \in Int /\ Completed(q) < 1
  OBVIOUS
<1>1. indexFirst \in BOOLEAN /\ posted[q] \in 0 .. Last /\ Last = 10
  BY NamesAre DEF StackInv, Exchanges
<1>2. Completed(q) \in Int
  BY <1>1 DEF Completed
<1>3. CASE Completed(q) >= 1
  <2>1. 1 \in 1 .. Completed(q)
    BY <1>2, <1>3
  <2>2. Holds(q, 1)
    BY <2>1 DEF StackInv, Exchanges
  <2>3. posted[s] >= 1
    BY <1>1, <2>2, CallsDiffer DEF Holds
  <2> QED
    BY <2>3
<1> QED
  BY <1>2, <1>3

\* A rank that has returned from no call and takes no part in a step.
LEMMA WaitingKeeps ==
  ASSUME NEW q, Exchanges(q), Completed(q) \in Int, Completed(q) < 1,
         groups'[q] = groups[q], pc'[q] = pc[q],
         copy'[q] = copy[q], sizes'[q] = sizes[q], posted'[q] = posted[q],
         DOMAIN result'[q] = DOMAIN result[q]
  PROVE  Exchanges(q)'
<1>1. Completed(q)' = Completed(q)
  BY DEF Completed
<1>2. \A k \in 1 .. Completed(q)' : Holds(q, k)'
  BY <1>1
<1>3. Data(q)' = Data(q) /\ \A g : GroupSize(q, g)' = GroupSize(q, g)
  BY DEF Data, Count, GroupSize
<1>4. Ready(q)' = Ready(q)
  BY <1>3 DEF Ready
<1> QED
  BY <1>2, <1>4 DEF Exchanges

\* A step of the dealing.
LEMMA DealingKeeps ==
  ASSUME StackInv, NEW r \in Ranks, Dealing(r), UNCHANGED <<entry, exchangeVars>>
  PROVE  StackInv'
<1>1. /\ UNCHANGED <<indexFirst, copy, sizes, posted, result>> /\ entry' = entry
  BY DEF exchangeVars
<1>2. pc[r] \notin Through
  BY DEF Dealing, OfferTotal, ReceiveTotal, DealOut, HandOverSum, HandOverGroup, Through
<1>3. entry = "w_stacking_with_all_to_all" /\ DealtSoFar /\ Shape /\ indexFirst \in BOOLEAN
  BY <1>2 DEF StackInv
<1>4. groups[r] \in Seq(Nat) /\ Len(groups[r]) <= MaxLocal /\ Exchanges(r)
  BY DEF StackInv, Exchanges
<1>5. /\ DealtSoFar' /\ Shape' /\ pc'[r] \notin {"exchange", "returned"}
      /\ \A q \in Ranks : q # r => groups'[q] = groups[q]
      /\ groups'[r] \in Seq(Nat) /\ Len(groups'[r]) = Len(groups[r])
  <2>1. CASE OfferTotal(r) \/ ReceiveTotal(r)
    BY <1>1, <1>3, <1>4, <2>1, TotalsKeep DEF Through
  <2>2. CASE DealOut(r)
    BY <1>1, <1>3, <1>4, <2>2, DealOutKeeps DEF Through
  <2>3. CASE HandOverSum(r)
    BY <1>1, <1>3, <1>4, <2>3, HandOverSumKeeps DEF Through
  <2>4. CASE HandOverGroup(r)
    BY <1>1, <1>3, <1>4, <2>4, HandOverGroupKeeps
  <2> QED
    BY <2>1, <2>2, <2>3, <2>4 DEF Dealing
<1>6. \A q \in Ranks : q # r => pc'[q] = pc[q]
  BY <1>3 DEF Shape, Dealing, OfferTotal, ReceiveTotal, DealOut, HandOverSum, HandOverGroup
<1>7. posted[r] = 0
  BY <1>2, <1>4, NamesAre DEF Exchanges, Through
<1>8. \A q \in Ranks : Completed(q) \in Int /\ Completed(q) < 1
  BY <1>7, NobodyAhead
<1>9. ASSUME NEW q \in Ranks, q # r PROVE Exchanges(q)'
  <2>1. Exchanges(q) /\ groups'[q] = groups[q] /\ pc'[q] = pc[q]
    BY <1>5, <1>6, <1>9 DEF StackInv
  <2> QED
    BY <1>1, <1>8, <2>1, WaitingKeeps
<1>10. Exchanges(r)'
  <2>1. posted'[r] = 0 /\ Completed(r)' = 0 - 1
    BY <1>1, <1>5, <1>7 DEF Completed
  <2>2. \A k \in 1 .. Completed(r)' : Holds(r, k)'
    BY <2>1
  <2>3. groups'[r] \in Seq(Nat) /\ Len(groups'[r]) <= MaxLocal
    BY <1>4, <1>5
  <2>4. posted'[r] \in 0 .. Last /\ DOMAIN result'[r] = PerVisibility \cup HeaderFields
    BY <1>1, <1>4 DEF Exchanges
  <2> QED
    BY <1>5, <2>1, <2>2, <2>3, <2>4 DEF Exchanges
<1> QED
  BY <1>1, <1>3, <1>5, <1>9, <1>10 DEF StackInv

\* What was dealt out stays when a rank that is through with it goes on.
LEMMA DealtKept ==
  ASSUME DealtSoFar, DOMAIN pc = Ranks, NEW r \in Ranks, pc[r] \in Through,
         UNCHANGED <<groups, dealVars>>,
         DOMAIN pc' = Ranks, pc'[r] \in Through, \A q \in Ranks : q # r => pc'[q] = pc[q]
  PROVE  DealtSoFar'
<1>1. UNCHANGED <<groups, cost, coeff_sum, group, rank, log, heard>>
  BY DEF dealVars
<1>2. \A t : GroupAt(t)' = GroupAt(t) /\ EndOf(t)' = EndOf(t)
  BY <1>1 DEF GroupAt, EndOf
<1>3. \A q \in Ranks : /\ Turn(q)' = Turn(q) /\ KnowsGroup(q)' = KnowsGroup(q)
                       /\ Had(q)' = Had(q) /\ Stepwise(q)' = Stepwise(q)
  BY <1>1, <1>2 DEF Turn, KnowsGroup, Had, Stepwise
<1>4. \A q \in Ranks : q # r => Stage(q)' = Stage(q)
  BY <1>1 DEF Stage
<1>5. Stage(r)'
  <2>1. rank[r] = Size /\ heard[r] = 3 * Size
    BY DEF DealtSoFar, Stage, Through
  <2> QED
    BY <1>1, <2>1 DEF Stage
<1> QED
  BY <1>1, <1>2, <1>3, <1>4, <1>5 DEF DealtSoFar

LEMMA RegroupKeeps ==
  ASSUME StackInv, NEW r \in Ranks, RegroupColumns(r), UNCHANGED <<entry, dealVars>>
  PROVE  StackInv'
<1>1. /\ pc[r] = "regroup" /\ UNCHANGED <<groups, indexFirst, result>>
      /\ UNCHANGED <<cost, coeff_sum, group, rank, log, heard>>
  BY DEF RegroupColumns, dealVars
<1>2. Shape /\ Exchanges(r) /\ groups[r] \in Seq(Nat)
  BY DEF StackInv, Exchanges
<1>3. posted[r] = 0
  BY <1>1, <1>2, NamesAre DEF Exchanges
<1>4. \A q \in Ranks : Completed(q) \in Int /\ Completed(q) < 1
  BY <1>3, NobodyAhead
<1>5. PICK f \in Permutations(Data(r)) :
        /\ SortedBy(Data(r), f, [d \in Data(r) |-> groups[r][d + 1]])
        /\ copy' = [copy EXCEPT ![r] = f]
  BY DEF RegroupColumns
<1> DEFINE Foreign == \E d \in Data(r) : groups[r][d + 1] >= Size
<1>6. Foreign => pc' = [pc EXCEPT ![r] = "threw"] /\ UNCHANGED <<sizes, posted>>
  BY DEF RegroupColumns
<1>7. ~Foreign =>
        /\ sizes' = [sizes EXCEPT ![r] = [q \in Ranks |-> GroupSize(r, q)]]
        /\ posted' = [posted EXCEPT ![r] = 1]
        /\ pc' = [pc EXCEPT ![r] = "exchange"]
  BY DEF RegroupColumns
<1>8. /\ Shape' /\ pc'[r] \in Through
      /\ \A q \in Ranks : q # r => /\ pc'[q] = pc[q] /\ copy'[q] = copy[q]
                                   /\ sizes'[q] = sizes[q] /\ posted'[q] = posted[q]
  <2>1. CASE Foreign
    BY <1>1, <1>2, <1>5, <1>6, <2>1 DEF Shape, Through
  <2>2. CASE ~Foreign
    BY <1>1, <1>2, <1>5, <1>7, <2>2 DEF Shape, Through
  <2> QED
    BY <2>1, <2>2
<1>9. ASSUME NEW q \in Ranks, q # r PROVE Exchanges(q)'
  <2>1. Exchanges(q)
    BY DEF StackInv
  <2> QED
    BY <1>1, <1>4, <1>8, <1>9, <2>1, WaitingKeeps
<1>10. Exchanges(r)'
  <2>1. DOMAIN result'[r] = PerVisibility \cup HeaderFields /\ groups'[r] \in Seq(Nat)
        /\ Len(groups'[r]) <= MaxLocal
    BY <1>1, <1>2 DEF Exchanges
  <2>2. CASE Foreign
    <3>1. pc'[r] = "threw" /\ posted'[r] = 0
      BY <1>2, <1>3, <1>6, <2>2 DEF Shape
    <3>2. Completed(r)' = 0 - 1
      BY <3>1 DEF Completed
    <3>3. \A k \in 1 .. Completed(r)' : Holds(r, k)'
      BY <3>2
    <3> QED
      BY <2>1, <3>1, <3>3, NamesAre DEF Exchanges
  <2>3. CASE ~Foreign
    <3>1. /\ pc'[r] = "exchange" /\ posted'[r] = 1 /\ copy'[r] = f
          /\ sizes'[r] = [q \in Ranks |-> GroupSize(r, q)]
      BY <1>2, <1>5, <1>7, <2>3 DEF Shape
    <3>2. Data(r)' = Data(r) /\ \A g : GroupSize(r, g)' = GroupSize(r, g)
      BY <1>1 DEF Data, Count, GroupSize
    <3>3. \A d \in Data(r) : groups[r][d + 1] < Size
      <4>1. \A d \in Data(r) : d + 1 \in 1 .. Len(groups[r])
        BY <1>2 DEF Data, Count
      <4>2. \A d \in Data(r) : groups[r][d + 1] \in Nat
        BY <1>2, <4>1
      <4> QED
        BY <2>3, <4>2, RanksAre
    <3>4. Ready(r)'
      BY <1>1, <1>5, <3>1, <3>2, <3>3 DEF Ready
    <3>5. Completed(r)' = 0
      BY <3>1 DEF Completed
    <3>6. \A k \in 1 .. Completed(r)' : Holds(r, k)'
      BY <3>5
    <3> QED
      BY <2>1, <3>1, <3>4, <3>6, NamesAre DEF Exchanges
  <2> QED
    BY <2>2, <2>3
<1>11. \/ entry' = "w_stacking_with_all_to_all" /\ DealtSoFar'
       \/ entry' = "regroup_and_all_to_all" /\ \A q \in Ranks : pc'[q] \in Through
  <2>1. CASE entry = "w_stacking_with_all_to_all" /\ DealtSoFar
    <3>1. DealtSoFar'
      BY <1>1, <1>2, <1>8, <2>1, DealtKept DEF Shape, Through
    <3> QED
      BY <2>1, <3>1
  <2>2. CASE entry = "regroup_and_all_to_all" /\ \A q \in Ranks : pc[q] \in Through
    BY <1>8, <2>2
  <2> QED
    BY <2>1, <2>2 DEF StackInv
<1> QED
  BY <1>1, <1>8, <1>9, <1>10, <1>11 DEF StackInv

\* What the ranks exchange is settled when they have regrouped.
LEMMA ReceivedKept ==
  ASSUME UNCHANGED <<groups, indexFirst, copy, sizes>>
  PROVE  /\ \A q : Calls(q)' = Calls(q)
         /\ \A k, q : Received(k, q)' = Received(k, q)
         /\ \A q \in Ranks : Ready(q)' = Ready(q)
<1>1. \A q : Calls(q)' = Calls(q)
  BY DEF Calls
<1>2. \A q : Data(q)' = Data(q) /\ \A g : GroupSize(q, g)' = GroupSize(q, g)
  BY DEF Data, Count, GroupSize
<1>3. \A q, r : Offset(q, r)' = Offset(q, r)
  BY <1>2 DEF Offset
<1>4. \A q, a, r : Segment(q, a, r)' = Segment(q, a, r)
  BY <1>3 DEF Segment
<1>5. \A k, q : Received(k, q)' = Received(k, q)
  BY <1>1, <1>4 DEF Received
<1>6. \A q \in Ranks : Ready(q)' = Ready(q)
  BY <1>2 DEF Ready
<1> QED
  BY <1>1, <1>5, <1>6

LEMMA ReturnKeeps ==
  ASSUME StackInv, NEW r \in Ranks, Return(r), UNCHANGED <<entry, dealVars>>
  PROVE  StackInv'
<1> DEFINE k == posted[r]
           a == Calls(r)[k]
<1>1. /\ pc[r] = "exchange" /\ UNCHANGED <<groups, indexFirst, copy, sizes>>
      /\ UNCHANGED <<cost, coeff_sum, group, rank, log, heard>>
  BY DEF Return, dealVars
<1>2. Shape /\ Exchanges(r) /\ indexFirst \in BOOLEAN /\ Last = 10
  BY NamesAre DEF StackInv
<1>3. k \in 1 .. 10
  BY <1>1, <1>2 DEF Exchanges
<1>4. \/ /\ a \in PerVisibility
         /\ \A q \in Ranks : posted[q] >= k
         /\ result' = [result EXCEPT ![r][a] = Received(k, r)]
      \/ /\ a \in HeaderFields
         /\ result' = [result EXCEPT ![r][a] = <<<<Calls(Root)[k], Root>>>>]
  BY DEF Return
<1>5. IF k = Last
      THEN pc' = [pc EXCEPT ![r] = "returned"] /\ UNCHANGED posted
      ELSE posted' = [posted EXCEPT ![r] = @ + 1] /\ UNCHANGED pc
  BY DEF Return
<1>6. /\ \A q : Calls(q)' = Calls(q)
      /\ \A j, q : Received(j, q)' = Received(j, q)
      /\ \A q \in Ranks : Ready(q)' = Ready(q)
  BY <1>1, ReceivedKept
<1>7. /\ \A j \in 1 .. 10 : Calls(r)[j] = a => j = k
      /\ Calls(Root)[k] = a /\ PerVisibility \cap HeaderFields = {}
      /\ a \in PerVisibility \cup HeaderFields
      /\ \A j \in 1 .. 10 : Calls(r)[j] \in PerVisibility \cup HeaderFields
  BY <1>2, <1>3, CallsDiffer
<1>8. \A q \in Ranks : posted[q] \in 0 .. 10
  BY NamesAre DEF StackInv, Exchanges
<1> HIDE DEF k, a
<1>9. /\ Shape' /\ pc'[r] \in {"exchange", "returned"}
      /\ \A q \in Ranks : q # r => /\ pc'[q] = pc[q] /\ posted'[q] = posted[q]
                                   /\ result'[q] = result[q]
      /\ DOMAIN result'[r] = DOMAIN result[r]
      /\ \A b \in DOMAIN result[r] : b # a => result'[r][b] = result[r][b]
  <2>1. DOMAIN posted' = Ranks /\ DOMAIN pc' = Ranks /\ pc'[r] \in {"exchange", "returned"}
        /\ \A q \in Ranks : q # r => pc'[q] = pc[q] /\ posted'[q] = posted[q]
    <3>1. CASE k = Last
      BY <1>2, <1>5, <3>1 DEF Shape
    <3>2. CASE k # Last
      BY <1>1, <1>2, <1>5, <3>2 DEF Shape
    <3> QED
      BY <3>1, <3>2
  <2>2. /\ DOMAIN result' = Ranks /\ DOMAIN result'[r] = DOMAIN result[r]
        /\ \A q \in Ranks : q # r => result'[q] = result[q]
        /\ \A b \in DOMAIN result[r] : b # a => result'[r][b] = result[r][b]
    BY <1>2, <1>4 DEF Shape
  <2> QED
    BY <1>1, <1>2, <2>1, <2>2 DEF Shape
<1>10. /\ \A q \in Ranks : posted[q] >= 1 => posted'[q] >= 1
       /\ \A q \in Ranks : posted'[q] >= 1 => posted[q] >= 1
       /\ posted'[r] \in 0 .. Last /\ posted'[r] >= 1
       /\ Completed(r) = k - 1 /\ Completed(r)' = k
       /\ pc'[r] = "returned" => posted'[r] = Last
  <2>1. CASE k = Last
    <3>1. pc'[r] = "returned" /\ posted' = posted
      BY <1>2, <1>5, <2>1 DEF Shape
    <3> QED
      BY <1>1, <1>2, <1>3, <2>1, <3>1 DEF Completed, k
  <2>2. CASE k # Last
    <3>1. pc' = pc /\ posted'[r] = k + 1
      BY <1>2, <1>5, <2>2 DEF Shape, k
    <3>2. Completed(r) = k - 1 /\ Completed(r)' = k
      BY <1>1, <1>3, <3>1 DEF Completed, k
    <3>3. posted'[r] >= 1 /\ posted[r] >= 1 /\ posted'[r] \in 0 .. Last
      BY <1>2, <1>3, <2>2, <3>1 DEF k
    <3>4. \A q \in Ranks : posted[q] >= 1 <=> posted'[q] >= 1
      BY <1>9, <3>3
    <3> QED
      BY <1>1, <3>1, <3>2, <3>3, <3>4
  <2> QED
    BY <2>1, <2>2
<1>11. ASSUME NEW q \in Ranks, q # r PROVE Exchanges(q)'
  <2>1. Exchanges(q)
    BY DEF StackInv
  <2>2. Completed(q)' = Completed(q)
    BY <1>9, <1>11 DEF Completed
  <2>3. ASSUME NEW j \in 1 .. Completed(q) PROVE Holds(q, j)'
    <3>1. Holds(q, j)
      BY <2>1 DEF Exchanges
    <3> QED
      BY <1>6, <1>9, <1>10, <1>11, <3>1 DEF Holds
  <2> QED
    BY <1>1, <1>6, <1>9, <1>10, <1>11, <2>1, <2>2, <2>3 DEF Exchanges
<1>12. Exchanges(r)'
  <2>1. ASSUME NEW j \in 1 .. k PROVE Holds(r, j)'
    <3>1. CASE j # k
      <4>1. j \in 1 .. k - 1 /\ j \in 1 .. 10
        BY <1>3, <3>1
      <4>2. Holds(r, j)
        BY <1>2, <1>10, <4>1 DEF Exchanges
      <4>3. Calls(r)[j] # a /\ Calls(r)[j] \in DOMAIN result[r]
        BY <1>2, <1>7, <3>1, <4>1 DEF Exchanges
      <4>4. result'[r][Calls(r)[j]] = result[r][Calls(r)[j]]
        BY <1>9, <4>3
      <4> QED
        BY <1>6, <1>10, <4>2, <4>4 DEF Holds
    <3>2. CASE j = k
      <4>1. a = Calls(r)[k] /\ r \in DOMAIN result /\ a \in DOMAIN result[r]
        BY <1>2, <1>7 DEF a, Shape, Exchanges
      <4>2. CASE a \in PerVisibility
        <5>1. /\ \A q \in Ranks : posted[q] >= k
              /\ result' = [result EXCEPT ![r][a] = Received(k, r)]
          BY <1>4, <1>7, <4>2
        <5>2. result'[r][a] = Received(k, r)
          BY <4>1, <5>1
        <5>3. \A q \in Ranks : posted'[q] >= 1
          BY <1>3, <1>8, <1>10, <5>1
        <5>4. a \notin HeaderFields
          BY <1>7, <4>2
        <5> QED
          BY <1>6, <3>2, <4>1, <5>2, <5>3, <5>4 DEF Holds
      <4>3. CASE a \in HeaderFields
        <5>1. result' = [result EXCEPT ![r][a] = <<<<Calls(Root)[k], Root>>>>]
          BY <1>4, <1>7, <4>3
        <5>2. result'[r][a] = <<<<a, Root>>>>
          BY <1>7, <4>1, <5>1
        <5>3. a \notin PerVisibility
          BY <1>7, <4>3
        <5> QED
          BY <1>6, <3>2, <4>1, <5>2, <5>3 DEF Holds, Root
      <4> QED
        BY <1>7, <4>2, <4>3
    <3> QED
      BY <3>1, <3>2
  <2> QED
    BY <1>1, <1>2, <1>6, <1>9, <1>10, <2>1 DEF Exchanges
<1>13. \/ entry' = "w_stacking_with_all_to_all" /\ DealtSoFar'
       \/ entry' = "regroup_and_all_to_all" /\ \A q \in Ranks : pc'[q] \in Through
  <2>0. pc'[r] \in Through /\ pc[r] \in Through
    BY <1>1, <1>9 DEF Through
  <2>1. CASE entry = "w_stacking_with_all_to_all" /\ DealtSoFar
    <3>1. DealtSoFar'
      BY <1>1, <1>2, <1>9, <2>0, <2>1, DealtKept DEF Shape
    <3> QED
      BY <2>1, <3>1
  <2>2. CASE entry = "regroup_and_all_to_all" /\ \A q \in Ranks : pc[q] \in Through
    BY <1>9, <2>0, <2>2
  <2> QED
    BY <2>1, <2>2 DEF StackInv
<1> QED
  BY <1>1, <1>2, <1>9, <1>11, <1>12, <1>13 DEF StackInv

LEMMA StackInvInit == Init => StackInv
<1> SUFFICES ASSUME Init PROVE StackInv
  OBVIOUS
<1>1. /\ indexFirst \in BOOLEAN
      /\ copy = [r \in Ranks |-> <<>>]
      /\ sizes = [r \in Ranks |-> [q \in Ranks |-> 0]]
      /\ posted = [r \in Ranks |-> 0]
      /\ result = [r \in Ranks |-> [a \in PerVisibility \cup HeaderFields |-> <<>>]]
  BY DEF Init, ExchangeInit
<1>2. CASE DealFirst
  <2>1. PICK costs \in Costs : DealInit(costs)
    BY <1>2 DEF DealFirst
  <2>2. /\ entry = "w_stacking_with_all_to_all" /\ pc = [r \in Ranks |-> "sum"]
        /\ groups = [r \in Ranks |-> [i \in DOMAIN cost[r] |-> r]]
    BY <1>2 DEF DealFirst, OwnGroup
  <2>3. /\ cost = costs /\ log = <<>>
        /\ coeff_sum = [r \in Ranks |-> 0] /\ group = [r \in Ranks |-> 0]
        /\ rank = [r \in Ranks |-> 0] /\ heard = [r \in Ranks |-> 0]
    BY <2>1 DEF DealInit
  <2>4. DOMAIN cost = Ranks /\ \A r \in Ranks : cost[r] \in Seq(Nat) /\ Len(cost[r]) <= MaxLocal
    BY <2>3, CostsAssumption
  <2>5. ASSUME NEW r \in Ranks
        PROVE  groups[r] \in Seq(Nat) /\ Len(groups[r]) = Len(cost[r])
    <3>1. DOMAIN cost[r] = 1 .. Len(cost[r]) /\ Len(cost[r]) \in Nat /\ r \in Nat
      BY <2>4, RanksAre
    <3>2. groups[r] = [i \in 1 .. Len(cost[r]) |-> r]
      BY <2>2, <3>1
    <3> QED
      BY <3>1, <3>2
  <2>6. Shape
    BY <1>1, <2>2, <2>3, <2>4 DEF Shape
  <2>7. log \in Seq(Said) /\ Len(log) = 0 /\ 0 \in 0 .. Size-1
    BY <2>3, RanksAre
  <2>8. ASSUME NEW r \in Ranks
        PROVE  /\ Stage(r) /\ Turn(r) /\ KnowsGroup(r) /\ coeff_sum[r] \in Nat
               /\ ~Had(r) /\ r \in Nat
    <3>1. r \in Nat /\ heard[r] = 0 /\ rank[r] = 0 /\ pc[r] = "sum" /\ group[r] = 0 /\ coeff_sum[r] = 0
      BY <2>2, <2>3, RanksAre
    <3>2. Stage(r)
      BY <3>1 DEF Stage
    <3>3. Turn(r) /\ ~Had(r)
      BY <2>7, <3>1 DEF Turn, Had
    <3>4. heard[r] # 3 * r + 1 /\ heard[r] # 3 * r + 2
      BY <3>1
    <3>5. KnowsGroup(r)
      BY <3>1, <3>4 DEF KnowsGroup, GroupAt
    <3> QED
      BY <3>1, <3>2, <3>3, <3>5
  <2>9. \A t \in 0 .. Size : 3 * t <= Len(log) => GroupAt(t) \in 0 .. Size-1
    <3> SUFFICES ASSUME NEW t \in 0 .. Size, 3 * t <= Len(log) PROVE GroupAt(t) \in 0 .. Size-1
      OBVIOUS
    <3>1. t = 0
      BY <2>7, RanksAre
    <3> QED
      BY <2>7, <3>1 DEF GroupAt
  <2>10. \A t \in Ranks : ~(3 * t + 3 <= Len(log))
    BY <2>7, RanksAre
  <2>11. DealtSoFar
    BY <2>4, <2>5, <2>7, <2>8, <2>9, <2>10 DEF DealtSoFar
  <2>12. ASSUME NEW r \in Ranks PROVE Exchanges(r)
    <3>1. posted[r] = 0 /\ pc[r] = "sum" /\ DOMAIN result[r] = PerVisibility \cup HeaderFields
      BY <1>1, <2>2
    <3>2. Completed(r) = 0 - 1
      BY <3>1 DEF Completed
    <3>3. Len(groups[r]) <= MaxLocal
      BY <2>4, <2>5
    <3> QED
      BY <2>5, <3>1, <3>2, <3>3, NamesAre DEF Exchanges
  <2> QED
    BY <1>1, <2>2, <2>6, <2>11, <2>12 DEF StackInv
<1>3. CASE GroupsGiven
  <2>1. /\ entry = "regroup_and_all_to_all" /\ pc = [r \in Ranks |-> "regroup"] /\ groups \in Given
        /\ DealInit([r \in Ranks |-> <<>>])
    BY <1>3 DEF GroupsGiven
  <2>2. /\ cost = [r \in Ranks |-> <<>>]
        /\ coeff_sum = [r \in Ranks |-> 0] /\ group = [r \in Ranks |-> 0]
        /\ rank = [r \in Ranks |-> 0] /\ heard = [r \in Ranks |-> 0]
    BY <2>1 DEF DealInit
  <2>3. /\ DOMAIN groups = Ranks
        /\ \A r \in Ranks : groups[r] \in Seq(Nat) /\ Len(groups[r]) <= MaxLocal
    BY <2>1, GivenAssumption
  <2>4. Shape
    BY <1>1, <2>1, <2>2, <2>3 DEF Shape
  <2>5. ASSUME NEW r \in Ranks PROVE Exchanges(r)
    <3>1. posted[r] = 0 /\ pc[r] = "regroup" /\ DOMAIN result[r] = PerVisibility \cup HeaderFields
      BY <1>1, <2>1
    <3>2. Completed(r) = 0 - 1
      BY <3>1 DEF Completed
    <3> QED
      BY <2>3, <3>1, <3>2, NamesAre DEF Exchanges
  <2> QED
    BY <1>1, <2>1, <2>4, <2>5 DEF StackInv, Through
<1> QED
  BY <1>2, <1>3 DEF Init

LEMMA StackInvNext == StackInv /\ [Next]_vars => StackInv'
<1>1. ASSUME StackInv, UNCHANGED vars PROVE StackInv'
  <2>1. /\ UNCHANGED <<entry, groups, pc, cost, coeff_sum, group, rank, log, heard>>
        /\ UNCHANGED <<indexFirst, copy, sizes, posted, result>>
    BY <1>1 DEF vars, dealVars, exchangeVars
  <2>2. \A t : GroupAt(t)' = GroupAt(t) /\ EndOf(t)' = EndOf(t)
    BY <2>1 DEF GroupAt, EndOf
  <2>3. \A q \in Ranks : /\ Turn(q)' = Turn(q) /\ KnowsGroup(q)' = KnowsGroup(q)
                         /\ Had(q)' = Had(q) /\ Stepwise(q)' = Stepwise(q)
                         /\ Stage(q)' = Stage(q)
    BY <2>1, <2>2 DEF Turn, KnowsGroup, Had, Stepwise, Stage
  <2>4. DealtSoFar' = DealtSoFar
    BY <2>1, <2>2, <2>3 DEF DealtSoFar
  <2>5. \A q \in Ranks : Exchanges(q)' = Exchanges(q)
    <3>1. /\ \A q : Calls(q)' = Calls(q)
          /\ \A k, q : Received(k, q)' = Received(k, q)
          /\ \A q \in Ranks : Ready(q)' = Ready(q)
      BY <2>1, ReceivedKept
    <3>2. \A q \in Ranks : Completed(q)' = Completed(q) /\ \A k : Holds(q, k)' = Holds(q, k)
      BY <2>1, <3>1 DEF Completed, Holds
    <3> QED
      BY <2>1, <3>1, <3>2 DEF Exchanges
  <2>6. Shape'
    BY <1>1, <2>1 DEF Shape, StackInv
  <2> QED
    BY <1>1, <2>1, <2>4, <2>5, <2>6 DEF StackInv
<1>2. ASSUME StackInv, Next PROVE StackInv'
  <2>1. PICK r \in Ranks : Step(r)
    BY <1>2 DEF Next
  <2>2. CASE Dealing(r) /\ UNCHANGED <<entry, exchangeVars>>
    BY <1>2, <2>2, DealingKeeps
  <2>3. CASE RegroupColumns(r) /\ UNCHANGED <<entry, dealVars>>
    BY <1>2, <2>3, RegroupKeeps
  <2>4. CASE Return(r) /\ UNCHANGED <<entry, dealVars>>
    BY <1>2, <2>4, ReturnKeeps
  <2> QED
    BY <2>1, <2>2, <2>3, <2>4 DEF Step, Exchanging
<1> QED
  BY <1>1, <1>2

\* The turns and the exchanges are as StackInv says in every state, for every number of
\* ranks, all costs of their visibilities and all groups brought along.
THEOREM StackInvAlways == Spec => []StackInv
  BY StackInvInit, StackInvNext, PTL DEF Spec

(***************************************************************************)
(* What the exchanges deliver.                                             *)
(***************************************************************************)

\* A rank that has returned has been in an exchange with all the others.
LEMMA ReturnedMetAll ==
  ASSUME StackInv, NEW r \in Ranks, pc[r] = "returned"
  PROVE  /\ \A q \in Ranks : posted[q] >= 1 /\ Ready(q)
         /\ \A k \in 1 .. 10 : Holds(r, k)
<1>1. Exchanges(r) /\ Completed(r) = 10 /\ indexFirst \in BOOLEAN
  BY NamesAre DEF StackInv, Completed
<1>2. \A k \in 1 .. 10 : Holds(r, k)
  BY <1>1 DEF Exchanges
<1>3. Holds(r, 1) /\ Calls(r)[1] \in PerVisibility
  BY <1>1, <1>2, CallsDiffer
<1>4. \A q \in Ranks : posted[q] >= 1
  BY <1>3 DEF Holds
<1>5. \A q \in Ranks : Ready(q)
  BY <1>4 DEF StackInv, Exchanges
<1> QED
  BY <1>2, <1>4, <1>5

\* No visibility is left behind unnoticed (regroup_and_all_to_all): as soon as one of
\* them has a group that is no rank, no rank ever returns.
THEOREM NothingLost == Spec => []NothingLostSilently
<1>1. StackInv => NothingLostSilently
  <2> SUFFICES ASSUME StackInv, NotARank, NEW r \in Ranks, pc[r] = "returned" PROVE FALSE
    BY DEF NothingLostSilently
  <2>1. PICK q \in Ranks : \E d \in Data(q) : groups[q][d + 1] >= Size
    BY DEF NotARank
  <2>2. PICK d \in Data(q) : groups[q][d + 1] >= Size
    BY <2>1
  <2>3. groups[q][d + 1] < Size
    BY ReturnedMetAll DEF Ready
  <2>4. groups[q] \in Seq(Nat)
    BY DEF StackInv, Exchanges
  <2>5. d + 1 \in 1 .. Len(groups[q])
    BY <2>4 DEF Data, Count
  <2>6. groups[q][d + 1] \in Nat /\ Size \in Nat
    BY <2>4, <2>5, RanksAre
  <2> QED
    BY <2>2, <2>3, <2>6
<1> QED
  BY <1>1, StackInvAlways, PTL

\* The visibilities of a rank that go to another are a stretch of the regrouped ones.
LEMMA SegmentIsStretch ==
  ASSUME NEW q \in Ranks, NEW r \in Ranks, groups[q] \in Seq(Nat), Ready(q)
  PROVE  /\ Offset(q, r) \in Nat /\ sizes[q][r] \in Nat
         /\ Offset(q, r) + sizes[q][r] <= Count(q) /\ Count(q) \in Nat
         /\ \A p \in Data(q) : groups[q][copy[q][p] + 1] = r
                                 <=> Offset(q, r) <= p /\ p < Offset(q, r) + sizes[q][r]
<1> DEFINE n == Count(q)
           f == copy[q]
           g == [d \in 0 .. n-1 |-> groups[q][d + 1]]
           Equal == {d \in 0 .. n-1 : g[d] = r}
<1>1. n \in Nat /\ r \in Nat /\ Data(q) = 0 .. n-1
  BY RanksAre DEF Count, Data
<1>2. \A d \in 0 .. n-1 : d + 1 \in 1 .. Len(groups[q])
  BY <1>1 DEF Count
<1>3. \A d \in 0 .. n-1 : groups[q][d + 1] \in Nat
  BY <1>2
<1>4. g \in [0 .. n-1 -> Int]
  BY <1>3
<1>5. /\ f \in [0 .. n-1 -> 0 .. n-1]
      /\ \A i, j \in 0 .. n-1 : f[i] = f[j] => i = j
  BY <1>1 DEF Ready, Permutations
<1>6. \A i, j \in 0 .. n-1 : i < j => g[f[i]] <= g[f[j]]
  BY <1>1 DEF Ready, SortedBy
<1>7. Offset(q, r) = Cardinality(Below(n, g, r))
  <2>1. {d \in 0 .. n-1 : groups[q][d + 1] < r} = {d \in 0 .. n-1 : g[d] < r}
    OBVIOUS
  <2> QED
    BY <1>1, <2>1 DEF Offset, Below
<1>8. sizes[q][r] = Cardinality(Equal)
  <2>1. {d \in 0 .. n-1 : groups[q][d + 1] = r} = Equal
    OBVIOUS
  <2>2. sizes[q][r] = GroupSize(q, r)
    BY DEF Ready
  <2>3. GroupSize(q, r) = Cardinality({d \in 0 .. n-1 : groups[q][d + 1] = r})
    BY <1>1 DEF GroupSize
  <2> HIDE DEF n, f, g, Equal
  <2> QED
    BY <2>1, <2>2, <2>3
<1> HIDE DEF n, f, g
<1>9. /\ IsFiniteSet(0 .. n-1) /\ Cardinality(0 .. n-1) = n
      /\ \A S \in SUBSET (0 .. n-1) : IsFiniteSet(S) /\ Cardinality(S) <= n /\ Cardinality(S) \in Nat
  <2>1. IsFiniteSet(0 .. n-1) /\ Cardinality(0 .. n-1) = n
    BY <1>1, FS_Interval
  <2>2. ASSUME NEW S \in SUBSET (0 .. n-1)
        PROVE  IsFiniteSet(S) /\ Cardinality(S) <= n /\ Cardinality(S) \in Nat
    <3>1. IsFiniteSet(S) /\ Cardinality(S) <= Cardinality(0 .. n-1)
      BY <2>1, FS_Subset
    <3>2. Cardinality(S) \in Nat
      BY <3>1, FS_CardinalityType
    <3> QED
      BY <2>1, <3>1, <3>2
  <2> QED
    BY <2>1, <2>2
<1>10. Below(n, g, r) \in SUBSET (0 .. n-1) /\ Equal \in SUBSET (0 .. n-1)
  BY DEF Below
<1>11. Cardinality(Below(n, g, r + 1)) = Cardinality(Below(n, g, r)) + Cardinality(Equal)
  <2>1. Below(n, g, r) \cap Equal = {}
    BY <1>1, <1>4 DEF Below
  <2>2. Below(n, g, r + 1) = Below(n, g, r) \cup Equal
    BY <1>1, <1>4 DEF Below
  <2> HIDE DEF Equal
  <2> QED
    BY <1>9, <1>10, <2>1, <2>2, SizesAdd
<1>12. Below(n, g, r + 1) \in SUBSET (0 .. n-1)
  BY DEF Below
<1>13. \A p \in 0 .. n-1 : g[f[p]] < r <=> p < Cardinality(Below(n, g, r))
  <2>1. r \in Int
    BY <1>1
  <2> QED
    BY <1>1, <1>4, <1>5, <1>6, <2>1, SortedPlaces
<1>14. \A p \in 0 .. n-1 : g[f[p]] < r + 1 <=> p < Cardinality(Below(n, g, r + 1))
  <2>1. r + 1 \in Int
    BY <1>1
  <2> QED
    BY <1>1, <1>4, <1>5, <1>6, <2>1, SortedPlaces
<1>15. \A p \in 0 .. n-1 : g[f[p]] \in Int /\ g[f[p]] = groups[q][copy[q][p] + 1]
  BY <1>4, <1>5 DEF f, g
<1>16. /\ Offset(q, r) \in Nat /\ sizes[q][r] \in Nat
       /\ Cardinality(Below(n, g, r + 1)) = Offset(q, r) + sizes[q][r]
       /\ Offset(q, r) + sizes[q][r] <= n
  <2> HIDE DEF Equal
  <2> QED
    BY <1>7, <1>8, <1>9, <1>10, <1>11, <1>12
<1>17. ASSUME NEW p \in Data(q)
       PROVE  groups[q][copy[q][p] + 1] = r <=> Offset(q, r) <= p /\ p < Offset(q, r) + sizes[q][r]
  <2>1. p \in 0 .. n-1 /\ p \in Int
    BY <1>1
  <2>2. /\ g[f[p]] \in Int /\ g[f[p]] = groups[q][copy[q][p] + 1]
        /\ g[f[p]] < r <=> p < Offset(q, r)
    BY <1>7, <1>13, <1>15, <2>1
  <2>3. g[f[p]] < r + 1 <=> p < Offset(q, r) + sizes[q][r]
    BY <1>14, <1>16, <2>1
  <2>4. PICK x : x = g[f[p]] /\ x \in Int /\ r \in Int
    BY <1>1, <2>2
  <2>5. (x < r <=> p < Offset(q, r)) /\ (x < r + 1 <=> p < Offset(q, r) + sizes[q][r])
    BY <2>2, <2>3, <2>4
  <2>6. x = r <=> ~(x < r) /\ x < r + 1
    BY <2>4
  <2>7. Offset(q, r) <= p <=> ~(p < Offset(q, r))
    BY <1>16, <2>1
  <2>8. groups[q][copy[q][p] + 1] = x
    BY <2>2, <2>4
  <2> QED
    BY <2>5, <2>6, <2>7, <2>8
<1> QED
  BY <1>1, <1>16, <1>17 DEF n

\* An entry of a column: the field, the rank it comes from, its place there.
Entry(a) == {a} \X Ranks \X Nat

\* A segment holds each of the visibilities that go to r once, and nothing else.
LEMMA SegmentHolds ==
  ASSUME NEW q \in Ranks, NEW r \in Ranks, groups[q] \in Seq(Nat), Ready(q), NEW a
  PROVE  /\ Segment(q, a, r) \in Seq(Entry(a))
         /\ \A s \in Ranks : \A d \in Nat :
              Occurrences(Segment(q, a, r), <<a, s, d>>)
                = IF s = q /\ d \in Data(q) /\ groups[q][d + 1] = r THEN 1 ELSE 0
<1> DEFINE n == Count(q)
           o == Offset(q, r)
           m == sizes[q][r]
           f == copy[q]
           seg == Segment(q, a, r)
<1>1. /\ o \in Nat /\ m \in Nat /\ o + m <= n /\ n \in Nat
      /\ \A p \in 0 .. n-1 : groups[q][f[p] + 1] = r <=> o <= p /\ p < o + m
      /\ Data(q) = 0 .. n-1
  BY SegmentIsStretch DEF Data
<1>2. /\ f \in [0 .. n-1 -> 0 .. n-1]
      /\ \A i, j \in 0 .. n-1 : f[i] = f[j] => i = j
  BY <1>1 DEF Ready, Permutations
<1>3. seg = [p \in 1 .. m |-> <<a, q, f[o + p - 1]>>]
  BY DEF Segment
<1> HIDE DEF n, o, m, f, seg
<1>4. \A p \in 1 .. m : o + p - 1 \in 0 .. n-1 /\ o <= o + p - 1 /\ o + p - 1 < o + m
  BY <1>1
<1>5. \A p \in 1 .. m : f[o + p - 1] \in 0 .. n-1
  BY <1>2, <1>4
<1>6. seg \in [1 .. m -> Entry(a)]
  BY <1>3, <1>5 DEF Entry
<1>7. seg \in Seq(Entry(a)) /\ DOMAIN seg = 1 .. m
  BY <1>1, <1>6
<1>8. ASSUME NEW s \in Ranks, NEW d \in Nat
      PROVE  Occurrences(seg, <<a, s, d>>)
               = IF s = q /\ d \in 0 .. n-1 /\ groups[q][d + 1] = r THEN 1 ELSE 0
  <2> DEFINE S == {p \in DOMAIN seg : seg[p] = <<a, s, d>>}
  <2>1. \A p : p \in S <=> p \in 1 .. m /\ q = s /\ f[o + p - 1] = d
    BY <1>3, <1>7
  <2>2. CASE s = q /\ d \in 0 .. n-1 /\ groups[q][d + 1] = r
    <3>1. PICK p \in 0 .. n-1 : f[p] = d
      <4>1. \A e \in 0 .. n-1 : \E p \in 0 .. n-1 : f[p] = e
        BY <1>1, <1>2, EveryPlaceTaken
      <4> QED
        BY <2>2, <4>1
    <3>2. o <= p /\ p < o + m
      BY <1>1, <2>2, <3>1
    <3>3. p - o + 1 \in 1 .. m /\ o + (p - o + 1) - 1 = p
      BY <1>1, <3>2
    <3>4. p - o + 1 \in S
      BY <2>1, <2>2, <3>1, <3>3
    <3>5. ASSUME NEW t \in S PROVE t = p - o + 1
      <4>1. t \in 1 .. m /\ f[o + t - 1] = f[p] /\ o + t - 1 \in 0 .. n-1
        BY <1>4, <2>1, <3>1, <3>5
      <4>2. o + t - 1 = p
        BY <1>2, <4>1
      <4> QED
        BY <1>1, <4>1, <4>2
    <3>6. S = {p - o + 1}
      BY <3>4, <3>5
    <3>7. Cardinality(S) = 1
      BY <3>6, FS_Singleton
    <3> QED
      BY <2>2, <3>7 DEF Occurrences
  <2>3. CASE ~(s = q /\ d \in 0 .. n-1 /\ groups[q][d + 1] = r)
    <3>1. S = {}
      <4> SUFFICES ASSUME NEW t \in S PROVE FALSE
        OBVIOUS
      <4>1. t \in 1 .. m /\ q = s /\ f[o + t - 1] = d
        BY <2>1
      <4>2. groups[q][f[o + t - 1] + 1] = r /\ f[o + t - 1] \in 0 .. n-1
        BY <1>1, <1>4, <1>5, <4>1
      <4> QED
        BY <2>3, <4>1, <4>2
    <3>2. Cardinality(S) = 0
      BY <3>1, FS_EmptySet
    <3> QED
      BY <2>3, <3>2 DEF Occurrences
  <2> QED
    BY <2>2, <2>3
<1> QED
  BY <1>1, <1>7, <1>8 DEF seg

\* What rank r has from the ranks up to q in its k-th call.
Came(k, r) ==
  LET from[q \in -1 .. Size-1] ==
        IF q = -1 THEN <<>> ELSE from[q-1] \o Segment(q, Calls(q)[k], r)
  IN  from

LEMMA CameDefined ==
  ASSUME NEW k, NEW r
  PROVE  /\ Came(k, r)[-1] = <<>>
         /\ \A q \in Ranks : Came(k, r)[q] = Came(k, r)[q-1] \o Segment(q, Calls(q)[k], r)
         /\ Received(k, r) = Came(k, r)[Size-1]
<1> DEFINE Next1(c, q) == IF q = -1 THEN <<>> ELSE c[q-1] \o Segment(q, Calls(q)[k], r)
           Upto(c, m) == [q \in -1 .. m-1 |-> Next1(c, q)]
           Solved == {m \in Nat : \E c : c = Upto(c, m)}
<1>1. 0 \in Solved
  <2>1. Upto(<<>>, 0) = Upto(Upto(<<>>, 0), 0)
    OBVIOUS
  <2>2. QED
    BY <2>1
<1>2. \A m \in Nat : m \in Solved => m+1 \in Solved
  <2>1. SUFFICES ASSUME NEW m \in Nat, m \in Solved PROVE m+1 \in Solved
    OBVIOUS
  <2>2. PICK c : c = Upto(c, m)
    BY <2>1
  <2> DEFINE d == Upto(c, m+1)
  <2>3. \A q \in -1 .. m-1 : c[q] = d[q]
    <3>1. \A q \in -1 .. m-1 : c[q] = Next1(c, q)
      BY <2>2
    <3>2. QED
      BY <3>1
  <2>4. Upto(d, m+1) = Upto(c, m+1)
    <3> HIDE DEF d
    <3>1. \A q \in -1 .. (m+1)-1 : q # -1 => d[q-1] = c[q-1]
      BY <2>3
    <3>2. QED
      BY <3>1
  <2>5. d = Upto(d, m+1)
    <3> HIDE DEF Upto
    <3>1. QED
      BY <2>4
  <2> HIDE DEF d, Upto
  <2>6. QED
    BY <2>5
<1>3. Size \in Solved
  <2> HIDE DEF Solved
  <2>1. QED
    BY <1>1, <1>2, RanksAre, Induction
<1>4. PICK c : c = Upto(c, Size)
  BY <1>3
<1>5. Came(k, r) = Upto(Came(k, r), Size)
  BY <1>4 DEF Came
<1>6. Received(k, r) = Came(k, r)[Size-1]
  BY DEF Received, Came
<1> DEFINE F == Came(k, r)
<1> HIDE DEF F
<1>7. \A q \in -1 .. Size-1 : F[q] = Next1(F, q)
  BY <1>5 DEF F
<1>8. F[-1] = <<>>
  BY <1>7, RanksAre
<1>9. \A q \in Ranks : F[q] = F[q-1] \o Segment(q, Calls(q)[k], r)
  <2> SUFFICES ASSUME NEW q \in Ranks PROVE F[q] = F[q-1] \o Segment(q, Calls(q)[k], r)
    OBVIOUS
  <2>1. q \in -1 .. Size-1 /\ q # -1
    BY RanksAre
  <2> QED
    BY <1>7, <2>1
<1> QED
  BY <1>6, <1>8, <1>9 DEF F

\* The same, for a call in which every rank sends the column a.
ColumnComes(k, r, a) ==
  /\ Came(k, r)[-1] = <<>>
  /\ Received(k, r) = Came(k, r)[Size-1]
  /\ \A q \in Ranks : Came(k, r)[q] = Came(k, r)[q-1] \o Segment(q, a, r)

LEMMA CameOfColumn ==
  ASSUME NEW k, NEW r, NEW a, \A q : Calls(q)[k] = a
  PROVE  ColumnComes(k, r, a)
<1>1. /\ Came(k, r)[-1] = <<>>
      /\ Received(k, r) = Came(k, r)[Size-1]
      /\ \A q \in Ranks : Came(k, r)[q] = Came(k, r)[q-1] \o Segment(q, Calls(q)[k], r)
  BY CameDefined
<1>2. ASSUME NEW q \in Ranks
      PROVE  Came(k, r)[q] = Came(k, r)[q-1] \o Segment(q, a, r)
  <2>1. Calls(q)[k] = a
    OBVIOUS
  <2>2. Came(k, r)[q] = Came(k, r)[q-1] \o Segment(q, Calls(q)[k], r)
    BY <1>1
  <2> QED
    BY <2>1, <2>2, Zenon
<1> QED
  BY <1>1, <1>2 DEF ColumnComes

\* The column holds each of the visibilities of the group of r once.
HasItsGroup(r, a, column) ==
  \A s \in Ranks : \A d \in Data(s) :
    Occurrences(column, <<a, s, d>>) = IF groups[s][d + 1] = r THEN 1 ELSE 0

\* Rank r receives each of the visibilities of its group once, and nothing else.
LEMMA ReceivedOnce ==
  ASSUME StackInv, \A q \in Ranks : Ready(q), NEW r \in Ranks, NEW k, NEW a,
         \A q : Calls(q)[k] = a
  PROVE  /\ HasItsGroup(r, a, Received(k, r)) /\ Received(k, r) \in Seq(Entry(a))
         /\ \A s \in Ranks : \A d \in Nat \ Data(s) : Occurrences(Received(k, r), <<a, s, d>>) = 0
<1> DEFINE F == Came(k, r)
           Once(m, s, d) == Occurrences(F[m-1], <<a, s, d>>)
                              = IF s < m /\ d \in Data(s) /\ groups[s][d + 1] = r
                                THEN 1 ELSE 0
           Fine == {m \in Nat : m <= Size =>
                      /\ F[m-1] \in Seq(Entry(a))
                      /\ \A s \in Ranks : \A d \in Nat : Once(m, s, d)}
<1>1. /\ F[-1] = <<>> /\ Received(k, r) = F[Size-1]
      /\ \A q \in Ranks : F[q] = F[q-1] \o Segment(q, a, r)
  <2>1. ColumnComes(k, r, a)
    BY CameOfColumn
  <2> QED
    BY <2>1 DEF ColumnComes
<1> HIDE DEF F
<1>2. \A s \in Ranks : s \in Nat /\ s < Size /\ groups[s] \in Seq(Nat) /\ Ready(s)
  BY RanksAre DEF StackInv, Exchanges
<1>3. \A s \in Ranks : \A d \in Data(s) : d \in Nat
  BY <1>2 DEF Data, Count
<1>4. 0 \in Fine
  <2>1. F[0-1] = <<>>
    BY <1>1
  <2>2. <<>> \in Seq(Entry(a)) /\ \A x : Occurrences(<<>>, x) = 0
    <3>1. \A x : {i \in DOMAIN <<>> : <<>>[i] = x} = {}
      OBVIOUS
    <3> QED
      BY <3>1, FS_EmptySet DEF Occurrences
  <2>3. \A s \in Ranks : ~(s < 0)
    BY <1>2
  <2> QED
    BY <2>1, <2>2, <2>3
<1>5. ASSUME NEW m \in Nat, m \in Fine PROVE m+1 \in Fine
  <2> SUFFICES ASSUME m + 1 <= Size
               PROVE  /\ F[m] \in Seq(Entry(a))
                      /\ \A s \in Ranks : \A d \in Nat : Once(m+1, s, d)
    <3>1. (m + 1) - 1 = m
      OBVIOUS
    <3> QED
      BY <3>1
  <2>1. m \in Ranks /\ m <= Size
    BY RanksAre
  <2>2. F[m] = F[m-1] \o Segment(m, a, r)
    BY <1>1, <2>1
  <2>3. F[m-1] \in Seq(Entry(a)) /\ \A s \in Ranks : \A d \in Nat : Once(m, s, d)
    BY <1>5, <2>1
  <2>4. /\ Segment(m, a, r) \in Seq(Entry(a))
        /\ \A s \in Ranks : \A d \in Nat :
             Occurrences(Segment(m, a, r), <<a, s, d>>)
               = IF s = m /\ d \in Data(m) /\ groups[m][d + 1] = r THEN 1 ELSE 0
    BY <1>2, <2>1, SegmentHolds
  <2>5. F[m] \in Seq(Entry(a))
    BY <2>2, <2>3, <2>4
  <2>6. ASSUME NEW s \in Ranks, NEW d \in Nat PROVE Once(m+1, s, d)
    <3> DEFINE x == <<a, s, d>>
    <3>1. Occurrences(F[m], x) = Occurrences(F[m-1], x) + Occurrences(Segment(m, a, r), x)
      BY <2>2, <2>3, <2>4, OccurrencesConcat
    <3>2. Occurrences(F[m-1], x)
            = IF s < m /\ d \in Data(s) /\ groups[s][d + 1] = r THEN 1 ELSE 0
      BY <2>3
    <3>3. Occurrences(Segment(m, a, r), x)
            = IF s = m /\ d \in Data(m) /\ groups[m][d + 1] = r THEN 1 ELSE 0
      BY <1>3, <2>4
    <3> HIDE DEF x
    <3>4. Occurrences(F[m], x)
            = IF s < m + 1 /\ d \in Data(s) /\ groups[s][d + 1] = r THEN 1 ELSE 0
      <4>1. CASE s = m
        BY <1>2, <3>1, <3>2, <3>3, <4>1
      <4>2. CASE s # m
        BY <1>2, <3>1, <3>2, <3>3, <4>2
      <4> QED
        BY <4>1, <4>2
    <3>5. (m + 1) - 1 = m
      OBVIOUS
    <3> QED
      BY <3>4, <3>5 DEF x
  <2> QED
    BY <2>5, <2>6
<1>6. Nat \subseteq Fine
  <2> HIDE DEF Fine
  <2> QED
    BY <1>4, <1>5, Induction
<1>7. Size \in Nat /\ Size \in Fine
  BY <1>6, RanksAre
<1>8. /\ F[Size-1] \in Seq(Entry(a))
      /\ \A s \in Ranks : \A d \in Nat : Once(Size, s, d)
  BY <1>7
<1>9. \A s \in Ranks : \A d \in Nat :
        Occurrences(F[Size-1], <<a, s, d>>)
          = IF d \in Data(s) /\ groups[s][d + 1] = r THEN 1 ELSE 0
  <2> SUFFICES ASSUME NEW s \in Ranks, NEW d \in Nat
               PROVE  Occurrences(F[Size-1], <<a, s, d>>)
                        = IF d \in Data(s) /\ groups[s][d + 1] = r THEN 1 ELSE 0
    OBVIOUS
  <2>1. Once(Size, s, d) /\ s < Size
    BY <1>2, <1>8
  <2> QED
    BY <2>1
<1>10. \A s \in Ranks : \A d \in Data(s) :
         Occurrences(F[Size-1], <<a, s, d>>) = IF groups[s][d + 1] = r THEN 1 ELSE 0
  BY <1>3, <1>9
<1> QED
  BY <1>1, <1>8, <1>9, <1>10 DEF HasItsGroup

\* The column s of another field.
Relabel(b, s) == [k \in DOMAIN s |-> <<b, s[k][2], s[k][3]>>]

LEMMA RelabelConcat ==
  ASSUME NEW T, NEW s \in Seq(T), NEW t \in Seq(T), NEW b
  PROVE  Relabel(b, s \o t) = Relabel(b, s) \o Relabel(b, t)
<1> DEFINE n == Len(s)
           m == Len(t)
           st == s \o t
           R == {Relabel(b, st)[k] : k \in 1 .. n + m} \cup {Relabel(b, s)[k] : k \in 1 .. n}
                  \cup {Relabel(b, t)[k] : k \in 1 .. m}
<1>1. /\ n \in Nat /\ m \in Nat /\ DOMAIN s = 1 .. n /\ DOMAIN t = 1 .. m
      /\ DOMAIN st = 1 .. n + m
      /\ \A k \in 1 .. n + m : st[k] = IF k <= n THEN s[k] ELSE t[k - n]
  BY ConcatProperties
<1> HIDE DEF n, m, st
<1>2. /\ Relabel(b, st) = [k \in 1 .. n + m |-> <<b, st[k][2], st[k][3]>>]
      /\ Relabel(b, s) = [k \in 1 .. n |-> <<b, s[k][2], s[k][3]>>]
      /\ Relabel(b, t) = [k \in 1 .. m |-> <<b, t[k][2], t[k][3]>>]
  BY <1>1 DEF Relabel
<1>3. /\ Relabel(b, st) \in [1 .. n + m -> R] /\ Relabel(b, s) \in [1 .. n -> R]
      /\ Relabel(b, t) \in [1 .. m -> R]
  BY <1>2
<1> HIDE DEF R
<1>4. /\ Relabel(b, st) \in Seq(R) /\ Len(Relabel(b, st)) = n + m
      /\ Relabel(b, s) \in Seq(R) /\ Len(Relabel(b, s)) = n
      /\ Relabel(b, t) \in Seq(R) /\ Len(Relabel(b, t)) = m
  BY <1>1, <1>3
<1>5. \A k \in 1 .. n : Relabel(b, st)[k] = Relabel(b, s)[k]
  <2> SUFFICES ASSUME NEW k \in 1 .. n PROVE Relabel(b, st)[k] = Relabel(b, s)[k]
    OBVIOUS
  <2>1. k \in 1 .. n + m /\ k <= n
    BY <1>1
  <2>2. st[k] = s[k]
    BY <1>1, <2>1
  <2> QED
    BY <1>2, <2>1, <2>2
<1>6. \A k \in 1 .. m : Relabel(b, st)[n + k] = Relabel(b, t)[k]
  <2> SUFFICES ASSUME NEW k \in 1 .. m PROVE Relabel(b, st)[n + k] = Relabel(b, t)[k]
    OBVIOUS
  <2>1. n + k \in 1 .. n + m /\ ~(n + k <= n) /\ (n + k) - n = k
    BY <1>1
  <2>2. st[n + k] = t[k]
    BY <1>1, <2>1
  <2> QED
    BY <1>2, <2>1, <2>2
<1>7. Relabel(b, s) \o Relabel(b, t) = Relabel(b, st)
  BY <1>4, <1>5, <1>6, Continued
<1> QED
  BY <1>7 DEF st

\* Whatever the columns are, rank r receives the same visibilities in the same order.
LEMMA ColumnsAlike ==
  ASSUME StackInv, \A q \in Ranks : Ready(q), NEW r \in Ranks, NEW k, NEW a,
         \A q : Calls(q)[k] = a, NEW j, NEW b, \A q : Calls(q)[j] = b
  PROVE  Received(j, r) = Relabel(b, Received(k, r))
<1> DEFINE F == Came(k, r)
           G == Came(j, r)
           Fine == {m \in Nat : m <= Size => F[m-1] \in Seq(Entry(a)) /\ G[m-1] = Relabel(b, F[m-1])}
<1>1. /\ F[-1] = <<>> /\ Received(k, r) = F[Size-1]
      /\ \A q \in Ranks : F[q] = F[q-1] \o Segment(q, a, r)
  <2>1. ColumnComes(k, r, a)
    BY CameOfColumn
  <2> QED
    BY <2>1 DEF ColumnComes
<1>2. /\ G[-1] = <<>> /\ Received(j, r) = G[Size-1]
      /\ \A q \in Ranks : G[q] = G[q-1] \o Segment(q, b, r)
  <2>1. ColumnComes(j, r, b)
    BY CameOfColumn
  <2> QED
    BY <2>1 DEF ColumnComes
<1>3. ASSUME NEW q \in Ranks
      PROVE  Segment(q, a, r) \in Seq(Entry(a)) /\ Segment(q, b, r) = Relabel(b, Segment(q, a, r))
  <2>1. groups[q] \in Seq(Nat)
    BY DEF StackInv, Exchanges
  <2>2. Segment(q, a, r) \in Seq(Entry(a))
    BY <2>1, SegmentHolds
  <2>3. Segment(q, b, r) = Relabel(b, Segment(q, a, r))
    BY DEF Segment, Relabel
  <2> QED
    BY <2>2, <2>3
<1> HIDE DEF F, G
<1>4. 0 \in Fine
  <2>1. <<>> \in Seq(Entry(a)) /\ Relabel(b, <<>>) = <<>>
    BY DEF Relabel
  <2>2. F[0-1] = <<>> /\ G[0-1] = <<>>
    BY <1>1, <1>2
  <2> QED
    BY <2>1, <2>2
<1>5. ASSUME NEW m \in Nat, m \in Fine PROVE m+1 \in Fine
  <2> SUFFICES ASSUME m + 1 <= Size PROVE F[m] \in Seq(Entry(a)) /\ G[m] = Relabel(b, F[m])
    <3>1. (m + 1) - 1 = m
      OBVIOUS
    <3> QED
      BY <3>1
  <2>1. m \in Ranks /\ m <= Size
    BY RanksAre
  <2>2. F[m-1] \in Seq(Entry(a)) /\ G[m-1] = Relabel(b, F[m-1])
    BY <1>5, <2>1
  <2>3. F[m] = F[m-1] \o Segment(m, a, r) /\ G[m] = G[m-1] \o Segment(m, b, r)
    BY <1>1, <1>2, <2>1
  <2>4. Relabel(b, F[m]) = Relabel(b, F[m-1]) \o Relabel(b, Segment(m, a, r))
    <3> DEFINE s == F[m-1]
               t == Segment(m, a, r)
    <3>1. s \in Seq(Entry(a)) /\ t \in Seq(Entry(a))
      BY <1>3, <2>1, <2>2
    <3> HIDE DEF s, t
    <3>2. Relabel(b, s \o t) = Relabel(b, s) \o Relabel(b, t)
      BY <3>1, RelabelConcat
    <3>3. F[m] = s \o t
      BY <2>3 DEF s, t
    <3>4. Relabel(b, F[m]) = Relabel(b, s) \o Relabel(b, t)
      BY <3>2, <3>3
    <3> QED
      BY <3>4 DEF s, t
  <2>5. /\ Segment(m, a, r) \in Seq(Entry(a))
        /\ Segment(m, b, r) = Relabel(b, Segment(m, a, r))
    BY <1>3, <2>1
  <2>6. F[m] \in Seq(Entry(a))
    BY <2>2, <2>3, <2>5
  <2>7. G[m] = Relabel(b, F[m])
    BY <2>2, <2>3, <2>4, <2>5
  <2> QED
    BY <2>6, <2>7
<1>6. Nat \subseteq Fine
  <2> HIDE DEF Fine
  <2> QED
    BY <1>4, <1>5, Induction
<1>7. Size \in Nat /\ Size \in Fine
  BY <1>6, RanksAre
<1>8. G[Size-1] = Relabel(b, F[Size-1])
  BY <1>7
<1> QED
  BY <1>1, <1>2, <1>8

\* The rows survive six separate exchanges (all_to_allv of every column and of the index
\* of the image): a rank that returned holds every visibility whose group it is, of any
\* rank, once, and the k-th entries of all columns are those of one visibility.
THEOREM RowsSurviveTheExchange == Spec => []Exchanged
<1>1. StackInv => Exchanged
  <2> SUFFICES ASSUME StackInv, NEW r \in Ranks, pc[r] = "returned"
               PROVE  /\ HasItsGroup(r, "u", result[r]["u"])
                      /\ \A a \in PerVisibility : result[r][a] = Relabel(a, result[r]["u"])
                      /\ \A a \in HeaderFields : result[r][a] = <<<<a, Root>>>>
    BY DEF Exchanged, Relabel, HasItsGroup, Occurrences
  <2>1. \A q \in Ranks : Ready(q)
    BY ReturnedMetAll
  <2>2. \A k \in 1 .. 10 : Holds(r, k)
    BY ReturnedMetAll
  <2>3. /\ \A s, q : Calls(s) = Calls(q)
        /\ \A a \in PerVisibility \cup HeaderFields : \E k \in 1 .. 10 : Calls(r)[k] = a
    BY CallsDiffer DEF StackInv
  <2>4. "u" \in PerVisibility
    BY NamesAre
  <2>5. PICK k \in 1 .. 10 : Calls(r)[k] = "u"
    BY <2>3, <2>4
  <2>6. result[r]["u"] = Received(k, r)
    BY <2>2, <2>4, <2>5 DEF Holds
  <2>7. \A q : Calls(q)[k] = "u"
    BY <2>3, <2>5
  <2>8. HasItsGroup(r, "u", result[r]["u"])
    <3>1. HasItsGroup(r, "u", Received(k, r))
      BY <2>1, <2>7, ReceivedOnce
    <3> QED
      BY <2>6, <3>1
  <2>9. ASSUME NEW a \in PerVisibility PROVE result[r][a] = Relabel(a, result[r]["u"])
    <3>1. PICK j \in 1 .. 10 : Calls(r)[j] = a
      BY <2>3
    <3>2. result[r][a] = Received(j, r)
      BY <2>2, <3>1 DEF Holds
    <3>3. \A q : Calls(q)[j] = a
      BY <2>3, <3>1
    <3>4. Received(j, r) = Relabel(a, Received(k, r))
      BY <2>1, <2>7, <3>3, ColumnsAlike
    <3> QED
      BY <2>6, <3>2, <3>4
  <2>10. ASSUME NEW a \in HeaderFields PROVE result[r][a] = <<<<a, Root>>>>
    <3>1. PICK j \in 1 .. 10 : Calls(r)[j] = a
      BY <2>3
    <3> QED
      BY <2>2, <3>1 DEF Holds
  <2> QED
    BY <2>8, <2>9, <2>10
<1> QED
  BY <1>1, StackInvAlways, PTL

(***************************************************************************)
(* The ranks deal as one.                                                  *)
(***************************************************************************)

\* The group after the first j visibilities of rank t.
After(t, j) == IF j = 0 THEN GroupAt(t) ELSE groups[t][j]

\* The visibilities dealt out after p, up to the j-th of rank t.
Since(p, t, j) ==
  {x \in Settled : Precedes(p, x) /\ (x[1] < t \/ (x[1] = t /\ x[2] <= j))}

\* From p to there the group went up by at most one for each visibility.
Climbed(p, t, j) == After(t, j) - GroupOf(p) \in 0 .. Cardinality(Since(p, t, j))

\* The ranks that have dealt out their visibilities are the first ones, and everything
\* that was said in their turns but the last is known.
LEMMA EarlierHad ==
  ASSUME DealtSoFar, NEW r \in Ranks, Had(r), NEW s \in Ranks, s < r
  PROVE  Had(s) /\ GroupAt(s + 1) = EndOf(s)
<1>1. /\ r \in Nat /\ s \in Nat /\ heard[r] \in Nat /\ heard[s] \in Nat /\ Len(log) \in Nat
      /\ heard[r] <= Len(log)
  BY StageFacts
<1>2. Turn(s) /\ (3 * s + 3 <= Len(log) => GroupAt(s + 1) = EndOf(s))
  BY DEF DealtSoFar
<1>3. 3 * r + 1 <= Len(log) /\ 3 * s + 3 <= 3 * r
  BY <1>1 DEF Had
<1>4. heard[s] >= 3 * s + 3
  BY <1>1, <1>2, <1>3 DEF Turn
<1> QED
  BY <1>1, <1>2, <1>3, <1>4 DEF Had

LEMMA SettledAre ==
  ASSUME StackInv, entry # "regroup_and_all_to_all"
  PROVE  /\ DealtSoFar
         /\ \A x : x \in Settled <=> x \in Places /\ Had(x[1])
         /\ \A x \in Places : /\ x[1] \in Ranks /\ x[2] \in DOMAIN groups[x[1]]
                              /\ x = <<x[1], x[2]>>
         /\ \A t \in Ranks : \A j \in DOMAIN groups[t] : <<t, j>> \in Places
         /\ \A t \in Ranks : groups[t] \in Seq(Nat)
         /\ IsFiniteSet(Settled)
<1>1. DealtSoFar /\ \A t \in Ranks : groups[t] \in Seq(Nat) /\ Len(groups[t]) <= MaxLocal
  BY DEF StackInv, Exchanges
<1>2. ASSUME NEW t \in Ranks
      PROVE  (rank[t] > t \/ (rank[t] = t /\ pc[t] \in {"handover", "next"})) <=> Had(t)
  <2>1. /\ t \in Nat /\ rank[t] \in Nat /\ heard[t] \in Nat /\ 3 * rank[t] <= heard[t]
        /\ pc[t] \notin Through => heard[t] <= 3 * rank[t] + 2
    BY <1>1, StageFacts
  <2>2. Stage(t) /\ t < Size /\ Size \in Nat
    BY <1>1, RanksAre DEF DealtSoFar
  <2>3. CASE pc[t] \in Through
    <3>1. rank[t] = Size /\ heard[t] = 3 * Size
      BY <2>2, <2>3 DEF Stage, Through
    <3> QED
      BY <2>1, <2>2, <3>1 DEF Had
  <2>4. CASE pc[t] \in {"handover", "next"}
    <3>1. heard[t] = 3 * rank[t] + 1 \/ heard[t] = 3 * rank[t] + 2
      BY <2>2, <2>4 DEF Stage, Through
    <3> QED
      BY <2>1, <2>4, <3>1 DEF Had
  <2>5. CASE pc[t] \notin Through /\ pc[t] \notin {"handover", "next"}
    <3>1. heard[t] = 3 * rank[t]
      BY <2>1, <2>2, <2>5 DEF Stage
    <3> QED
      BY <2>1, <2>5, <3>1 DEF Had
  <2> QED
    BY <2>3, <2>4, <2>5
<1>3. \A x \in Places : x[1] \in Ranks /\ x[2] \in DOMAIN groups[x[1]] /\ x = <<x[1], x[2]>>
  BY DEF Places
<1>4. \A x : x \in Settled <=> x \in Places /\ Had(x[1])
  BY <1>2, <1>3 DEF Settled
<1>5. \A t \in Ranks : \A j \in DOMAIN groups[t] : <<t, j>> \in Places
  <2> SUFFICES ASSUME NEW t \in Ranks, NEW j \in DOMAIN groups[t] PROVE <<t, j>> \in Places
    OBVIOUS
  <2>1. j \in 1 .. MaxLocal
    BY <1>1, MaxLocalAssumption
  <2> QED
    BY <2>1 DEF Places
<1>6. IsFiniteSet(Settled)
  <2>1. IsFiniteSet(Ranks) /\ IsFiniteSet(1 .. MaxLocal)
    BY RanksAre, MaxLocalAssumption, FS_Interval
  <2>2. IsFiniteSet(Ranks \X (1 .. MaxLocal))
    BY <2>1, FS_Product
  <2>3. Settled \subseteq Ranks \X (1 .. MaxLocal)
    BY DEF Settled, Places
  <2> QED
    BY <2>2, <2>3, FS_Subset
<1> QED
  BY <1>1, <1>3, <1>4, <1>5, <1>6

\* One visibility further in the same rank.
LEMMA ClimbOne ==
  ASSUME StackInv, entry # "regroup_and_all_to_all", NEW p \in Settled, NEW t \in Ranks, Had(t),
         NEW j \in Nat, j + 1 \in DOMAIN groups[t], Precedes(p, <<t, j + 1>>), Climbed(p, t, j)
  PROVE  Climbed(p, t, j + 1)
<1> DEFINE x == <<t, j + 1>>
           S == Since(p, t, j)
           n == Cardinality(S)
<1>1. DealtSoFar /\ groups[t] \in Seq(Nat) /\ IsFiniteSet(Settled) /\ x \in Settled
  BY SettledAre
<1>2. t \in Nat /\ p[1] \in Ranks /\ p[2] \in DOMAIN groups[p[1]] /\ groups[p[1]] \in Seq(Nat)
  BY SettledAre, RanksAre
<1>3. Since(p, t, j + 1) = S \cup {x} /\ x \notin S
  <2>1. \A y \in Settled : y[2] \in Nat /\ y = <<y[1], y[2]>>
    BY SettledAre
  <2>2. ASSUME NEW y \in Settled
        PROVE  y[1] = t /\ y[2] <= j + 1 <=> (y[1] = t /\ y[2] <= j) \/ y = x
    BY <2>1
  <2>3. x[1] = t /\ x[2] = j + 1
    OBVIOUS
  <2>4. \A y : y \in Since(p, t, j + 1) <=> y \in S \/ y = x
    BY <1>1, <1>2, <2>2, <2>3 DEF Since
  <2>5. x \notin S
    BY <1>2, <2>3 DEF Since
  <2> HIDE DEF S, x
  <2> QED
    BY <2>4, <2>5
<1>4. IsFiniteSet(S) /\ n \in Nat
  <2>1. S \subseteq Settled
    BY DEF Since
  <2> QED
    BY <1>1, <2>1, FS_Subset, FS_CardinalityType
<1>5. Cardinality(Since(p, t, j + 1)) = n + 1
  <2> HIDE DEF S, x
  <2> QED
    BY <1>3, <1>4, FS_AddElement DEF n
<1>6. Stepwise(t)
  BY <1>1 DEF DealtSoFar
<1>7. After(t, j + 1) - After(t, j) \in {0, 1} /\ After(t, j) \in Int /\ After(t, j + 1) \in Int
  <2>1. CASE j = 0
    <3>1. GroupAt(t) \in Nat /\ groups[t] # <<>> /\ groups[t][1] \in Nat
      <4>1. 3 * t <= Len(log) /\ Len(log) \in Nat
        <5>1. heard[t] \in Nat /\ Len(log) \in Nat /\ heard[t] <= Len(log)
          BY <1>1, StageFacts
        <5> QED
          BY <1>2, <5>1 DEF Had
      <4>2. GroupAt(t) \in 0 .. Size-1
        BY <1>1, <4>1, RanksAre DEF DealtSoFar
      <4> QED
        BY <1>1, <2>1, <4>2
    <3> QED
      BY <1>6, <2>1, <3>1 DEF Stepwise, After
  <2>2. CASE j # 0
    <3>1. j \in DOMAIN groups[t] /\ j + 1 > 1 /\ (j + 1) - 1 = j /\ j + 1 # 0
      BY <1>1, <2>2
    <3>2. groups[t][j + 1] - groups[t][j] \in {0, 1}
      <4>1. \A k \in DOMAIN groups[t] : k > 1 => groups[t][k] - groups[t][k-1] \in {0, 1}
        BY <1>6 DEF Stepwise
      <4> QED
        BY <3>1, <4>1
    <3>3. groups[t][j] \in Nat /\ groups[t][j + 1] \in Nat
      BY <1>1, <3>1, ElementOfSeq
    <3> QED
      BY <2>2, <3>1, <3>2, <3>3 DEF After
  <2> QED
    BY <2>1, <2>2
<1>8. GroupOf(p) \in Int
  BY <1>2 DEF GroupOf
<1>9. After(t, j) - GroupOf(p) \in 0 .. n
  BY DEF Climbed
<1> HIDE DEF n, S, x
<1> QED
  BY <1>4, <1>5, <1>7, <1>8, <1>9 DEF Climbed

\* Along the rest of a rank.
LEMMA ClimbRank ==
  ASSUME StackInv, entry # "regroup_and_all_to_all", NEW p \in Settled, NEW t \in Ranks, Had(t),
         NEW i \in Nat, i <= Len(groups[t]), Climbed(p, t, i),
         \A j \in DOMAIN groups[t] : j > i => Precedes(p, <<t, j>>)
  PROVE  \A j \in i .. Len(groups[t]) : Climbed(p, t, j)
<1> DEFINE Fine == {m \in Nat : i + m <= Len(groups[t]) => Climbed(p, t, i + m)}
<1>1. groups[t] \in Seq(Nat)
  BY SettledAre
<1>2. 0 \in Fine
  OBVIOUS
<1>3. ASSUME NEW m \in Nat, m \in Fine PROVE m + 1 \in Fine
  <2> SUFFICES ASSUME i + m + 1 <= Len(groups[t]) PROVE Climbed(p, t, i + m + 1)
    <3>1. i + (m + 1) = i + m + 1
      OBVIOUS
    <3> QED
      BY <3>1
  <2>1. i + m \in Nat /\ i + m <= Len(groups[t]) /\ i + m + 1 \in DOMAIN groups[t] /\ i + m + 1 > i
    BY <1>1
  <2>2. Climbed(p, t, i + m) /\ Precedes(p, <<t, i + m + 1>>)
    BY <1>3, <2>1
  <2> QED
    BY <2>1, <2>2, ClimbOne
<1>4. Nat \subseteq Fine
  <2> HIDE DEF Fine
  <2> QED
    BY <1>2, <1>3, Induction
<1>5. ASSUME NEW j \in i .. Len(groups[t]) PROVE Climbed(p, t, j)
  <2>1. j - i \in Nat /\ i + (j - i) = j /\ j <= Len(groups[t])
    BY <1>1
  <2>2. j - i \in Fine
    BY <1>4, <2>1
  <2> QED
    BY <2>1, <2>2
<1> QED
  BY <1>5

\* From the last visibility of a rank into the turn of the next one.
LEMMA ClimbOver ==
  ASSUME StackInv, entry # "regroup_and_all_to_all", NEW p \in Settled, NEW t \in Ranks,
         t + 1 \in Ranks, Had(t + 1), Climbed(p, t, Len(groups[t]))
  PROVE  Climbed(p, t + 1, 0)
<1>1. /\ DealtSoFar /\ t \in Nat /\ \A s \in Ranks : s \in Nat /\ groups[s] \in Seq(Nat)
      /\ \A x \in Settled : x[1] \in Ranks /\ x[2] \in DOMAIN groups[x[1]]
  BY SettledAre, RanksAre
<1>2. GroupAt(t + 1) = EndOf(t)
  BY <1>1, EarlierHad
<1>3. After(t + 1, 0) = After(t, Len(groups[t]))
  BY <1>1, <1>2 DEF After, EndOf
<1>4. Since(p, t + 1, 0) = Since(p, t, Len(groups[t]))
  <2>1. ASSUME NEW x \in Settled
        PROVE  x[1] < t + 1 \/ (x[1] = t + 1 /\ x[2] <= 0)
                 <=> x[1] < t \/ (x[1] = t /\ x[2] <= Len(groups[t]))
    <3>1. x[1] \in Nat /\ x[2] \in DOMAIN groups[x[1]] /\ groups[x[1]] \in Seq(Nat)
      BY <1>1
    <3>2. x[2] \in 1 .. Len(groups[x[1]]) /\ Len(groups[x[1]]) \in Nat
      <4> DEFINE g == groups[x[1]]
      <4>1. g \in Seq(Nat) /\ x[2] \in DOMAIN g
        BY <3>1
      <4> HIDE DEF g
      <4>2. x[2] \in 1 .. Len(g) /\ Len(g) \in Nat
        BY <4>1
      <4> QED
        BY <4>2 DEF g
    <3>3. ~(x[1] = t + 1 /\ x[2] <= 0)
      BY <3>2
    <3>4. x[1] = t => x[2] <= Len(groups[t])
      BY <3>2
    <3>5. x[1] < t + 1 <=> x[1] < t \/ x[1] = t
      BY <1>1, <3>1
    <3> QED
      BY <3>3, <3>4, <3>5
  <2> QED
    BY <2>1 DEF Since
<1> QED
  BY <1>3, <1>4 DEF Climbed

\* The ranks deal as one (w_support): every rank has its own copies of the running sum
\* and of the group, handed on by broadcasts, and yet along the visibilities of all ranks
\* in rank order the group never goes back and never skips one.
THEOREM RanksDealAsOne == Spec => []OneSequence
<1>1. StackInv => OneSequence
  <2> SUFFICES ASSUME StackInv, NEW p \in Settled, NEW q \in Settled, Precedes(p, q)
               PROVE  /\ GroupOf(p) <= GroupOf(q)
                      /\ GroupOf(q) - GroupOf(p)
                           <= Cardinality({x \in Settled : Precedes(p, x) /\ ~ Precedes(q, x)})
    BY DEF OneSequence
  <2> DEFINE s == p[1]
             i == p[2]
             t == q[1]
             j == q[2]
             Start(m) == IF m = s THEN i ELSE 0
             Fine == {m \in Nat : m \in Ranks /\ s <= m /\ Had(m) =>
                        \A k \in Start(m) .. Len(groups[m]) : Climbed(p, m, k)}
  <2>1. entry # "regroup_and_all_to_all"
    BY DEF Settled
  <2>2. /\ DealtSoFar
        /\ \A m \in Ranks : m \in Nat /\ groups[m] \in Seq(Nat)
        /\ \A x \in Settled : /\ x[1] \in Ranks /\ x[2] \in DOMAIN groups[x[1]]
                              /\ Had(x[1]) /\ x = <<x[1], x[2]>>
        /\ IsFiniteSet(Settled)
    BY <2>1, SettledAre, RanksAre
  <2>3. /\ s \in Ranks /\ s \in Nat /\ i \in 1 .. Len(groups[s]) /\ Len(groups[s]) \in Nat
        /\ p = <<s, i>> /\ groups[s][i] \in Nat
    BY <2>2
  <2>4. /\ t \in Ranks /\ t \in Nat /\ j \in 1 .. Len(groups[t]) /\ Len(groups[t]) \in Nat
        /\ q = <<t, j>> /\ Had(t) /\ groups[t][j] \in Nat
    BY <2>2
  <2>5. (s < t \/ (s = t /\ i < j)) /\ GroupOf(p) = groups[s][i] /\ GroupOf(q) = groups[t][j]
    BY DEF Precedes, GroupOf
  <2>6. \A m \in Ranks : \A k \in Nat : (s < m \/ (s = m /\ i < k)) => Precedes(p, <<m, k>>)
    BY DEF Precedes
  <2> HIDE DEF s, i, t, j
  <2>7. Had(s) => \A k \in i .. Len(groups[s]) : Climbed(p, s, k)
    <3>1. Climbed(p, s, i)
      <4>1. Since(p, s, i) = {}
        <5>1. \A x \in Settled : x[1] \in Nat /\ x[2] \in Nat
          BY <2>2
        <5> QED
          BY <2>3, <5>1 DEF Since, Precedes, s, i
      <4>2. Cardinality(Since(p, s, i)) = 0
        BY <4>1, FS_EmptySet
      <4>3. After(s, i) = groups[s][i]
        BY <2>3 DEF After
      <4> QED
        BY <2>3, <2>5, <4>2, <4>3 DEF Climbed
    <3>2. \A k \in DOMAIN groups[s] : k > i => Precedes(p, <<s, k>>)
      <4>1. \A k \in DOMAIN groups[s] : k \in Nat
        BY <2>2, <2>3
      <4> QED
        BY <2>3, <2>6, <4>1
    <3>3. i \in Nat /\ i <= Len(groups[s])
      BY <2>3
    <3> QED
      BY <2>1, <2>3, <3>1, <3>2, <3>3, ClimbRank
  <2>8. \A m \in Nat : m < s => m \in Fine
    BY <2>3
  <2>9. s \in Fine
    BY <2>3, <2>7
  <2>10. ASSUME NEW m \in Nat, m \in Fine PROVE m + 1 \in Fine
    <3>1. CASE m + 1 <= s
      <4>1. m + 1 = s \/ m + 1 < s
        BY <2>3, <3>1
      <4> QED
        BY <2>8, <2>9, <4>1
    <3>2. CASE m + 1 > s
      <4> SUFFICES ASSUME m + 1 \in Ranks, Had(m + 1)
                   PROVE  \A k \in 0 .. Len(groups[m + 1]) : Climbed(p, m + 1, k)
        BY <2>3, <3>2
      <4>1. m \in Ranks /\ s <= m
        BY <2>3, <3>2, RanksAre
      <4>2. Had(m) /\ Len(groups[m]) \in Nat /\ groups[m + 1] \in Seq(Nat)
        BY <2>2, <4>1, EarlierHad
      <4>3. Climbed(p, m, Len(groups[m]))
        <5>1. Len(groups[m]) \in Start(m) .. Len(groups[m])
          BY <2>3, <4>2
        <5> QED
          BY <2>10, <4>1, <4>2, <5>1
      <4>4. Climbed(p, m + 1, 0)
        BY <2>1, <4>1, <4>3, ClimbOver
      <4>5. \A k \in DOMAIN groups[m + 1] : k > 0 => Precedes(p, <<m + 1, k>>)
        <5>1. \A k \in DOMAIN groups[m + 1] : k \in Nat
          BY <4>2
        <5> QED
          BY <2>3, <2>6, <3>2, <5>1
      <4>6. 0 <= Len(groups[m + 1]) /\ 0 \in Nat
        BY <4>2
      <4> QED
        BY <2>1, <4>4, <4>5, <4>6, ClimbRank
    <3> QED
      BY <2>3, <3>1, <3>2
  <2>11. t \in Fine
    <3>1. 0 \in Fine
      BY <2>3, <2>8, <2>9
    <3> HIDE DEF Fine
    <3>2. Nat \subseteq Fine
      BY <2>10, <3>1, Induction
    <3> QED
      BY <2>4, <3>2
  <2>12. Climbed(p, t, j)
    <3>1. \A k \in Start(t) .. Len(groups[t]) : Climbed(p, t, k)
      BY <2>3, <2>4, <2>5, <2>11
    <3>2. j \in Start(t) .. Len(groups[t])
      BY <2>3, <2>4, <2>5
    <3> QED
      BY <3>1, <3>2
  <2>13. Since(p, t, j) = {x \in Settled : Precedes(p, x) /\ ~ Precedes(q, x)}
    <3>1. \A x \in Settled : x[1] \in Nat /\ x[2] \in Nat
      BY <2>2
    <3>2. \A x \in Settled : ~ Precedes(q, x) <=> x[1] < t \/ (x[1] = t /\ x[2] <= j)
      BY <2>4, <3>1 DEF Precedes, t, j
    <3> QED
      BY <3>2 DEF Since
  <2>14. After(t, j) = GroupOf(q) /\ GroupOf(q) \in Nat /\ GroupOf(p) \in Nat
    BY <2>3, <2>4, <2>5 DEF After
  <2>15. Cardinality(Since(p, t, j)) \in Nat
    <3>1. Since(p, t, j) \subseteq Settled
      BY DEF Since
    <3> QED
      BY <2>2, <3>1, FS_Subset, FS_CardinalityType
  <2>16. GroupOf(q) - GroupOf(p) \in 0 .. Cardinality(Since(p, t, j))
    BY <2>12, <2>14 DEF Climbed
  <2>17. GroupOf(p) <= GroupOf(q) /\ GroupOf(q) - GroupOf(p) <= Cardinality(Since(p, t, j))
    BY <2>14, <2>15, <2>16
  <2> QED
    BY <2>13, <2>17
<1> QED
  BY <1>1, StackInvAlways, PTL

(***************************************************************************)
(* The load of the groups.                                                 *)
(***************************************************************************)

\* The running sum with which the turn of rank t begins: what was said in the one before it.
SumAt(t) == IF t = 0 THEN 0 ELSE log[3 * t - 1][2]

\* The loop of rank t, from what the log says.
Run(t) == DealFrom([group |-> GroupAt(t), sum |-> SumAt(t)], cost[t], TotalCost)
RunSum(t) == Run(t)[Len(cost[t])].sum

\* The copy of the running sum that rank r has.
KnowsSum(r) ==
  coeff_sum[r] = IF heard[r] = 3 * r + 1 THEN RunSum(r)
                 ELSE IF heard[r] = 3 * rank[r] + 2 THEN SumAt(rank[r] + 1) ELSE SumAt(rank[r])

\* Rank r knows the same total as all others and has dealt from the sum and the group it
\* was handed.
LoadOf(r) ==
  /\ pc[r] \notin {"sum", "average"} => all_total[r] = TotalCost
  /\ KnowsSum(r)
  /\ Had(r) => \A i \in DOMAIN groups[r] : groups[r][i] = Run(r)[i].group

\* The sum with which the turn of rank t ended is handed on.
SumSaid(t) == 3 * t + 2 <= Len(log) => SumAt(t + 1) = RunSum(t)

LoadInv ==
  entry = "w_stacking_with_all_to_all" =>
    DOMAIN all_total = Ranks /\ \A r \in Ranks : LoadOf(r) /\ SumSaid(r)

\* What the log said stays.
LEMMA SumAtKept ==
  ASSUME Len(log) \in Nat, \A k \in 1 .. Len(log) : log'[k] = log[k],
         NEW t \in Nat, 3 * t <= Len(log) + 1
  PROVE  SumAt(t)' = SumAt(t)
<1>1. CASE t = 0
  BY <1>1 DEF SumAt
<1>2. CASE t # 0
  <2>1. 3 * t - 1 \in 1 .. Len(log)
    BY <1>2
  <2>2. log'[3 * t - 1] = log[3 * t - 1]
    BY <2>1
  <2> QED
    BY <1>2, <2>2 DEF SumAt
<1> QED
  BY <1>1, <1>2

LEMMA RunKept ==
  ASSUME Len(log) \in Nat, \A k \in 1 .. Len(log) : log'[k] = log[k], cost' = cost,
         NEW t \in Nat, 3 * t <= Len(log)
  PROVE  Run(t)' = Run(t) /\ RunSum(t)' = RunSum(t)
<1>1. GroupAt(t)' = GroupAt(t)
  BY GroupAtKept
<1>2. SumAt(t)' = SumAt(t)
  <2>1. 3 * t <= Len(log) + 1
    OBVIOUS
  <2> QED
    BY <2>1, SumAtKept
<1>3. TotalCost' = TotalCost
  BY DEF TotalCost, coeff_total
<1>4. Run(t)' = Run(t)
  BY <1>1, <1>2, <1>3 DEF Run
<1> QED
  BY <1>4 DEF RunSum

\* A rank that takes no part in a step knows the same sum afterwards.
LEMMA LoadOfKept ==
  ASSUME DealtSoFar, \A k \in 1 .. Len(log) : log'[k] = log[k], cost' = cost,
         NEW q \in Ranks, heard'[q] = heard[q], rank'[q] = rank[q], pc'[q] = pc[q],
         groups'[q] = groups[q], coeff_sum'[q] = coeff_sum[q], all_total'[q] = all_total[q],
         LoadOf(q)
  PROVE  LoadOf(q)'
<1>1. /\ q \in Nat /\ rank[q] \in Nat /\ heard[q] \in Nat /\ Len(log) \in Nat
      /\ 3 * rank[q] <= heard[q] /\ heard[q] <= Len(log)
  BY StageFacts
<1>2. TotalCost' = TotalCost
  BY DEF TotalCost, coeff_total
<1>3. heard[q] >= 3 * q + 1 => Run(q)' = Run(q) /\ RunSum(q)' = RunSum(q)
  <2>1. heard[q] >= 3 * q + 1 => 3 * q <= Len(log)
    BY <1>1
  <2> QED
    BY <1>1, <2>1, RunKept
<1>4. SumAt(rank[q])' = SumAt(rank[q]) /\ rank'[q] = rank[q]
  <2>1. 3 * rank[q] <= Len(log) + 1
    BY <1>1
  <2>2. \A t \in Nat : 3 * t <= Len(log) + 1 =>
           (IF t = 0 THEN 0 ELSE log'[3 * t - 1][2]) = (IF t = 0 THEN 0 ELSE log[3 * t - 1][2])
    BY <1>1, SumAtKept DEF SumAt
  <2> QED
    BY <1>1, <2>1, <2>2 DEF SumAt
<1>5. heard[q] = 3 * rank[q] + 2 => SumAt(rank[q] + 1)' = SumAt(rank[q] + 1)
  <2> DEFINE t == rank[q] + 1
  <2>1. heard[q] = 3 * rank[q] + 2 => 3 * t <= Len(log) + 1
    BY <1>1
  <2>2. t \in Nat /\ t' = t
    BY <1>1
  <2>3. heard[q] = 3 * rank[q] + 2 =>
          (IF t = 0 THEN 0 ELSE log'[3 * t - 1][2]) = (IF t = 0 THEN 0 ELSE log[3 * t - 1][2])
    <3> HIDE DEF t
    <3> QED
      BY <1>1, <2>1, <2>2, SumAtKept DEF SumAt
  <2> QED
    BY <1>4, <2>3 DEF SumAt
<1>6. KnowsSum(q)'
  <2>1. heard[q] = 3 * q + 1 => RunSum(q)' = RunSum(q)
    BY <1>1, <1>3
  <2> QED
    BY <1>4, <1>5, <2>1 DEF LoadOf, KnowsSum
<1>7. (Had(q) => \A i \in DOMAIN groups[q] : groups[q][i] = Run(q)[i].group)'
  BY <1>3 DEF LoadOf, Had
<1> QED
  BY <1>2, <1>6, <1>7 DEF LoadOf

\* A sum that was handed on stays what it was.
LEMMA SumSaidKept ==
  ASSUME Len(log) \in Nat, \A k \in 1 .. Len(log) : log'[k] = log[k], cost' = cost,
         NEW t \in Nat, SumSaid(t), 3 * t + 2 <= Len(log)
  PROVE  SumSaid(t)'
<1>1. t + 1 \in Nat /\ 3 * (t + 1) <= Len(log) + 1 /\ 3 * t <= Len(log)
  OBVIOUS
<1>2. RunSum(t)' = RunSum(t)
  BY <1>1, RunKept
<1>3. SumAt(t + 1)' = SumAt(t + 1)
  <2>1. t + 1 # 0 /\ 3 * (t + 1) - 1 \in 1 .. Len(log)
    BY <1>1
  <2>2. log'[3 * (t + 1) - 1] = log[3 * (t + 1) - 1]
    BY <2>1
  <2> QED
    BY <2>1, <2>2 DEF SumAt
<1> QED
  BY <1>2, <1>3 DEF SumSaid

LEMMA LoadInvInit == Init => LoadInv
<1> SUFFICES ASSUME Init, entry = "w_stacking_with_all_to_all" PROVE LoadInv
  BY DEF LoadInv
<1>1. PICK costs \in Costs : DealInit(costs)
  BY DEF Init, DealFirst, GroupsGiven
<1>2. /\ pc = [r \in Ranks |-> "sum"] /\ all_total = [r \in Ranks |-> 0]
      /\ coeff_sum = [r \in Ranks |-> 0] /\ rank = [r \in Ranks |-> 0]
      /\ heard = [r \in Ranks |-> 0] /\ log = <<>>
  BY <1>1 DEF Init, DealFirst, GroupsGiven, DealInit
<1>3. ASSUME NEW r \in Ranks PROVE LoadOf(r) /\ SumSaid(r)
  <2>1. r \in Nat /\ Len(log) = 0
    BY <1>2, RanksAre
  <2>2. pc[r] = "sum" /\ coeff_sum[r] = 0 /\ rank[r] = 0 /\ heard[r] = 0
    BY <1>2
  <2>3. KnowsSum(r)
    BY <2>1, <2>2 DEF KnowsSum, SumAt
  <2>4. ~Had(r) /\ ~(3 * r + 2 <= Len(log))
    BY <2>1, <2>2 DEF Had
  <2> QED
    BY <2>2, <2>3, <2>4 DEF LoadOf, SumSaid
<1> QED
  BY <1>2, <1>3 DEF LoadInv

\* The total of the costs arrives.
LEMMA TotalsKeepLoad ==
  ASSUME DealtSoFar, Shape, DOMAIN all_total = Ranks, NEW r \in Ranks,
         OfferTotal(r) \/ ReceiveTotal(r), \A q \in Ranks : LoadOf(q) /\ SumSaid(q)
  PROVE  DOMAIN all_total' = Ranks /\ \A q \in Ranks : LoadOf(q)' /\ SumSaid(q)'
<1>1. /\ UNCHANGED <<cost, groups, coeff_sum, group, rank, log, heard>>
      /\ DOMAIN all_total' = Ranks
      /\ \A q \in Ranks : q # r => pc'[q] = pc[q] /\ all_total'[q] = all_total[q]
      /\ pc'[r] \notin {"sum", "average"} => all_total'[r] = TotalCost
  BY DEF OfferTotal, ReceiveTotal, Shape
<1>2. TotalCost' = TotalCost /\ \A t : GroupAt(t)' = GroupAt(t) /\ SumAt(t)' = SumAt(t)
  BY <1>1 DEF TotalCost, coeff_total, GroupAt, SumAt
<1>3. \A t : Run(t)' = Run(t)
  BY <1>1, <1>2 DEF Run
<1>4. \A t : RunSum(t)' = RunSum(t)
  BY <1>1, <1>3 DEF RunSum
<1>5. \A q \in Ranks : /\ KnowsSum(q)' = KnowsSum(q) /\ SumSaid(q)' = SumSaid(q)
                       /\ Had(q)' = Had(q)
  BY <1>1, <1>2, <1>4 DEF KnowsSum, SumSaid, Had
<1>6. ASSUME NEW q \in Ranks PROVE LoadOf(q)'
  <2>1. pc'[q] \notin {"sum", "average"} => all_total'[q] = TotalCost'
    BY <1>1, <1>2 DEF LoadOf
  <2> QED
    BY <1>1, <1>3, <1>5, <2>1 DEF LoadOf
<1> QED
  BY <1>1, <1>5, <1>6

\* A rank deals out its visibilities, or another rank does.
LEMMA DealOutKeepsLoad ==
  ASSUME DealtSoFar, Shape, DOMAIN all_total = Ranks, NEW r \in Ranks, DealOut(r),
         groups[r] \in Seq(Nat), \A q \in Ranks : LoadOf(q) /\ SumSaid(q)
  PROVE  DOMAIN all_total' = Ranks /\ \A q \in Ranks : LoadOf(q)' /\ SumSaid(q)'
<1> DEFINE n == Len(cost[r])
           own == <<"size", n>>
           F == Dealt(r)
<1>1. pc[r] = "size" /\ Hear(r) /\ UNCHANGED <<cost, rank, all_total>>
  BY DEF DealOut
<1>2. Sends(r, own) \/ Reads(r)
  BY DEF DealOut
<1>3. /\ r \in Nat /\ rank[r] \in Nat /\ heard[r] \in Nat /\ Len(log) \in Nat
      /\ rank[r] \in Ranks /\ heard[r] = 3 * rank[r] /\ heard[r] <= Len(log)
  BY <1>1, StageFacts DEF DealtSoFar, Stage, Through
<1>4. cost[r] \in Seq(Nat) /\ n \in Nat /\ Len(groups[r]) = n /\ coeff_sum[r] \in Nat
  BY DEF DealtSoFar
<1>5. own \in Said
  BY <1>4 DEF Said
<1>6. /\ Len(log) <= Len(log') /\ \A k \in 1 .. Len(log) : log'[k] = log[k]
      /\ heard'[r] = heard[r] + 1
      /\ \A q \in Ranks : q # r => heard'[q] = heard[q]
      /\ rank[r] = r => Len(log) = heard[r] /\ Len(log') = heard[r] + 1
      /\ rank[r] # r => log' = log
  <2>1. heard[r] \in 3 * rank[r] .. 3 * rank[r] + 2
    BY <1>3
  <2> HIDE DEF own
  <2> QED
    BY <1>1, <1>2, <1>3, <1>5, <2>1, BroadcastKeepsTurns
<1>7. \A q \in Ranks : q # r => /\ groups'[q] = groups[q] /\ coeff_sum'[q] = coeff_sum[q]
                                /\ pc'[q] = pc[q]
  BY DEF DealOut, Shape
<1>8. rank[r] = r => /\ groups'[r] = [i \in DOMAIN groups[r] |-> F[i].group]
                     /\ coeff_sum'[r] = F[n].sum
  BY DEF DealOut, Shape
<1>9. rank[r] # r => groups' = groups /\ coeff_sum' = coeff_sum
  BY DEF DealOut
<1>10. all_total[r] = TotalCost /\ coeff_sum[r] = SumAt(rank[r]) /\ group[r] = GroupAt(rank[r])
  <2>1. LoadOf(r) /\ KnowsGroup(r)
    BY DEF DealtSoFar
  <2>2. heard[r] # 3 * r + 1 /\ heard[r] # 3 * r + 2 /\ heard[r] # 3 * rank[r] + 2
    BY <1>3
  <2> QED
    BY <1>1, <2>1, <2>2 DEF LoadOf, KnowsSum, KnowsGroup
<1>11. 3 * rank[r] <= Len(log) /\ Run(rank[r])' = Run(rank[r]) /\ RunSum(rank[r])' = RunSum(rank[r])
  <2>1. 3 * rank[r] <= Len(log)
    BY <1>3
  <2>2. \A t \in Nat : 3 * t <= Len(log) => Run(t)' = Run(t) /\ RunSum(t)' = RunSum(t)
    BY <1>1, <1>3, <1>6, RunKept
  <2>3. rank' = rank
    BY <1>1
  <2> QED
    BY <1>3, <2>1, <2>2, <2>3 DEF Run, RunSum
<1>12. rank[r] = r => F = Run(r)
  BY <1>10 DEF Dealt, Run, DealFrom
<1>13. TotalCost' = TotalCost
  BY <1>1 DEF TotalCost, coeff_total
<1>14. \A t \in Nat : 3 * t + 2 <= Len(log') => 3 * t + 2 <= Len(log)
  <2>1. CASE rank[r] = r
    <3>1. Len(log) = 3 * r /\ Len(log') = 3 * r + 1
      BY <1>3, <1>6, <2>1
    <3>2. \A t \in Nat : 3 * t + 2 <= 3 * r + 1 => 3 * t + 2 <= 3 * r
      BY <1>3
    <3> QED
      BY <3>1, <3>2
  <2>2. CASE rank[r] # r
    BY <1>6, <2>2
  <2> QED
    BY <2>1, <2>2
<1>15. \A q \in Ranks : SumSaid(q)'
  <2> SUFFICES ASSUME NEW q \in Ranks, 3 * q + 2 <= Len(log') PROVE SumSaid(q)'
    BY DEF SumSaid
  <2>1. q \in Nat /\ 3 * q + 2 <= Len(log)
    BY <1>14, RanksAre
  <2> QED
    BY <1>1, <1>3, <1>6, <2>1, SumSaidKept
<1>16. \A q \in Ranks : q # r => LoadOf(q)'
  BY <1>1, <1>6, <1>7, LoadOfKept
<1> HIDE DEF F, n, own
<1>17. LoadOf(r)'
  <2>1. CASE rank[r] = r
    <3>1. heard'[r] = 3 * r + 1 /\ Run(r)' = Run(r) /\ RunSum(r)' = RunSum(r)
      <4>1. 3 * r <= Len(log)
        BY <1>11, <2>1
      <4> QED
        BY <1>1, <1>3, <1>6, <2>1, <4>1, RunKept
    <3>2. KnowsSum(r)'
      BY <1>8, <1>12, <2>1, <3>1 DEF KnowsSum, RunSum, n
    <3>3. \A i \in DOMAIN groups'[r] : groups'[r][i] = Run(r)'[i].group
      BY <1>8, <1>12, <2>1, <3>1
    <3> QED
      BY <1>1, <1>10, <1>13, <3>2, <3>3 DEF LoadOf
  <2>2. CASE rank[r] # r
    <3>1. log' = log /\ groups' = groups /\ coeff_sum' = coeff_sum /\ heard'[r] = 3 * rank[r] + 1
      BY <1>3, <1>6, <1>9, <2>2
    <3>2. heard'[r] # 3 * r + 1 /\ heard'[r] # 3 * rank[r] + 2
      BY <1>3, <2>2, <3>1
    <3>3. \A t : SumAt(t)' = SumAt(t) /\ GroupAt(t)' = GroupAt(t)
      BY <3>1 DEF SumAt, GroupAt
    <3>4. Run(r)' = Run(r)
      BY <1>1, <1>13, <3>3 DEF Run
    <3>5. KnowsSum(r)'
      BY <1>1, <1>10, <3>1, <3>2, <3>3 DEF KnowsSum
    <3>6. Had(r)' => Had(r)
      BY <1>3, <2>2, <3>1 DEF Had
    <3> QED
      BY <1>1, <1>10, <1>13, <3>1, <3>4, <3>5, <3>6 DEF LoadOf
  <2> QED
    BY <2>1, <2>2
<1> QED
  BY <1>1, <1>15, <1>16, <1>17

\* The sum is handed on.
LEMMA HandOverSumKeepsLoad ==
  ASSUME DealtSoFar, Shape, DOMAIN all_total = Ranks, NEW r \in Ranks, HandOverSum(r),
         \A q \in Ranks : LoadOf(q) /\ SumSaid(q)
  PROVE  DOMAIN all_total' = Ranks /\ \A q \in Ranks : LoadOf(q)' /\ SumSaid(q)'
<1> DEFINE own == <<"coeff_sum", coeff_sum[r]>>
<1>1. /\ pc[r] = "handover" /\ pc' = [pc EXCEPT ![r] = "next"] /\ Hear(r)
      /\ coeff_sum' = [coeff_sum EXCEPT ![r] = log'[heard[r] + 1][2]]
      /\ UNCHANGED <<cost, groups, rank, all_total>>
  BY DEF HandOverSum, Heard
<1>2. Sends(r, own) \/ Reads(r)
  BY DEF HandOverSum
<1>3. /\ r \in Nat /\ rank[r] \in Nat /\ heard[r] \in Nat /\ Len(log) \in Nat
      /\ rank[r] \in Ranks /\ heard[r] = 3 * rank[r] + 1 /\ heard[r] <= Len(log)
  BY <1>1, StageFacts DEF DealtSoFar, Stage, Through
<1>4. own \in Said
  BY DEF Said, DealtSoFar
<1>5. /\ Len(log) <= Len(log') /\ \A k \in 1 .. Len(log) : log'[k] = log[k]
      /\ heard'[r] = heard[r] + 1
      /\ \A q \in Ranks : q # r => heard'[q] = heard[q]
      /\ rank[r] = r => /\ Len(log) = heard[r] /\ Len(log') = heard[r] + 1
                        /\ log'[heard[r] + 1] = own
      /\ rank[r] # r => log' = log
  <2>1. heard[r] \in 3 * rank[r] .. 3 * rank[r] + 2
    BY <1>3
  <2> HIDE DEF own
  <2>2. /\ DealtSoFar /\ Shape /\ own \in Said /\ (Sends(r, own) \/ Reads(r)) /\ Hear(r)
        /\ rank[r] \in Ranks /\ heard[r] \in 3 * rank[r] .. 3 * rank[r] + 2
    BY <1>1, <1>2, <1>3, <1>4, <2>1
  <2> QED
    BY <2>2, BroadcastKeepsTurns
<1>6. /\ pc'[r] = "next" /\ coeff_sum'[r] = log'[heard[r] + 1][2]
      /\ \A q \in Ranks : q # r => coeff_sum'[q] = coeff_sum[q] /\ pc'[q] = pc[q]
  BY <1>1 DEF Shape
<1>7. TotalCost' = TotalCost
  BY <1>1 DEF TotalCost, coeff_total
<1>8. LoadOf(r) /\ all_total[r] = TotalCost
  BY <1>1 DEF LoadOf
<1>9. ASSUME NEW q \in Ranks, 3 * q + 2 <= Len(log') PROVE SumSaid(q)'
  <2>1. q \in Nat
    BY RanksAre
  <2>2. CASE 3 * q + 2 <= Len(log)
    BY <1>1, <1>3, <1>5, <2>1, <2>2, SumSaidKept
  <2>3. CASE ~(3 * q + 2 <= Len(log))
    <3>1. rank[r] = r
      BY <1>5, <1>9, <2>3
    <3>2. Len(log) = 3 * r + 1 /\ Len(log') = 3 * r + 2
      BY <1>3, <1>5, <3>1
    <3>3. q = r
      BY <1>3, <1>9, <2>1, <2>3, <3>2
    <3>4. RunSum(r)' = RunSum(r)
      <4>1. 3 * r <= Len(log)
        BY <1>3, <3>2
      <4> QED
        BY <1>1, <1>3, <1>5, <4>1, RunKept
    <3>5. coeff_sum[r] = RunSum(r)
      BY <1>3, <1>8, <3>1 DEF LoadOf, KnowsSum
    <3>6. SumAt(r + 1)' = coeff_sum[r]
      <4>1. 3 * (r + 1) - 1 = heard[r] + 1 /\ r + 1 # 0
        BY <1>3, <3>1
      <4>2. SumAt(r + 1)' = log'[heard[r] + 1][2]
        BY <4>1 DEF SumAt
      <4> QED
        BY <1>5, <3>1, <4>2
    <3> QED
      BY <3>3, <3>4, <3>5, <3>6 DEF SumSaid
  <2> QED
    BY <2>2, <2>3
<1>10. \A q \in Ranks : q # r => LoadOf(q)'
  BY <1>1, <1>5, <1>6, LoadOfKept
<1> HIDE DEF own
<1>11. KnowsSum(r)'
  <2>1. heard'[r] = 3 * rank'[r] + 2 /\ heard'[r] # 3 * r + 1
    BY <1>1, <1>3, <1>5
  <2>2. 3 * (rank[r] + 1) - 1 = heard[r] + 1 /\ rank[r] + 1 # 0 /\ rank' = rank
    BY <1>1, <1>3
  <2>3. SumAt(rank[r] + 1)' = log'[heard[r] + 1][2]
    BY <2>2 DEF SumAt
  <2> QED
    BY <1>6, <2>1, <2>2, <2>3 DEF KnowsSum
<1>12. (Had(r) => \A i \in DOMAIN groups[r] : groups[r][i] = Run(r)[i].group)'
  <2> SUFFICES ASSUME Had(r)'
               PROVE  (\A i \in DOMAIN groups[r] : groups[r][i] = Run(r)[i].group)'
    OBVIOUS
  <2>1. Had(r)
    BY <1>3, <1>5 DEF Had
  <2>2. 3 * r <= Len(log)
    BY <1>3, <2>1 DEF Had
  <2>3. Run(r)' = Run(r)
    BY <1>1, <1>3, <1>5, <2>2, RunKept
  <2> QED
    BY <1>1, <1>8, <2>1, <2>3 DEF LoadOf
<1>13. LoadOf(r)'
  BY <1>1, <1>7, <1>8, <1>11, <1>12 DEF LoadOf
<1> QED
  BY <1>1, <1>9, <1>10, <1>13 DEF SumSaid

\* The group is handed on.
LEMMA HandOverGroupKeepsLoad ==
  ASSUME DealtSoFar, Shape, DOMAIN all_total = Ranks, NEW r \in Ranks, HandOverGroup(r),
         \A q \in Ranks : LoadOf(q) /\ SumSaid(q)
  PROVE  DOMAIN all_total' = Ranks /\ \A q \in Ranks : LoadOf(q)' /\ SumSaid(q)'
<1> DEFINE own == <<"group", group[r]>>
<1>1. /\ pc[r] = "next" /\ Hear(r)
      /\ pc' = [pc EXCEPT ![r] = IF rank[r] = Size - 1 THEN "regroup" ELSE "size"]
      /\ rank' = [rank EXCEPT ![r] = @ + 1]
      /\ UNCHANGED <<cost, groups, coeff_sum, all_total>>
  BY DEF HandOverGroup
<1>2. Sends(r, own) \/ Reads(r)
  BY DEF HandOverGroup
<1>3. /\ r \in Nat /\ rank[r] \in Nat /\ heard[r] \in Nat /\ Len(log) \in Nat
      /\ rank[r] \in Ranks /\ heard[r] = 3 * rank[r] + 2 /\ heard[r] <= Len(log)
  BY <1>1, StageFacts DEF DealtSoFar, Stage, Through
<1>4. own \in Said
  <2>1. KnowsGroup(r)
    BY DEF DealtSoFar
  <2>2. rank[r] \in 0 .. Size /\ 3 * rank[r] <= Len(log)
    BY <1>3, RanksAre
  <2>3. GroupAt(rank[r]) \in Nat
    <3>1. GroupAt(rank[r]) \in 0 .. Size-1
      BY <2>2 DEF DealtSoFar
    <3> QED
      BY <3>1, RanksAre
  <2>4. rank[r] = r => EndOf(r) \in Nat
    <3> SUFFICES ASSUME rank[r] = r PROVE EndOf(r) \in Nat
      OBVIOUS
    <3>1. Had(r)
      BY <1>3 DEF Had
    <3>2. Stepwise(r) /\ Len(groups[r]) = Len(cost[r]) /\ cost[r] \in Seq(Nat)
      BY <3>1 DEF DealtSoFar
    <3>3. CASE groups[r] = <<>>
      BY <2>3, <3>3 DEF EndOf
    <3>4. CASE groups[r] # <<>> /\ Len(groups[r]) \in DOMAIN groups[r]
      BY <3>2, <3>4, RanksAre DEF EndOf, Stepwise
    <3>5. groups[r] = <<>> \/ Len(groups[r]) \in DOMAIN groups[r]
      OBVIOUS
    <3> QED
      BY <3>3, <3>4, <3>5
  <2>5. group[r] \in Nat
    BY <1>3, <2>1, <2>3, <2>4 DEF KnowsGroup
  <2> QED
    BY <2>5 DEF Said
<1>5. /\ Len(log) <= Len(log') /\ \A k \in 1 .. Len(log) : log'[k] = log[k]
      /\ heard'[r] = heard[r] + 1
      /\ \A q \in Ranks : q # r => heard'[q] = heard[q]
      /\ rank[r] = r => Len(log) = heard[r] /\ Len(log') = heard[r] + 1
      /\ rank[r] # r => log' = log
  <2>1. heard[r] \in 3 * rank[r] .. 3 * rank[r] + 2
    BY <1>3
  <2> HIDE DEF own
  <2>2. /\ DealtSoFar /\ Shape /\ own \in Said /\ (Sends(r, own) \/ Reads(r)) /\ Hear(r)
        /\ rank[r] \in Ranks /\ heard[r] \in 3 * rank[r] .. 3 * rank[r] + 2
    BY <1>1, <1>2, <1>3, <1>4, <2>1
  <2> QED
    BY <2>2, BroadcastKeepsTurns
<1>6. /\ rank'[r] = rank[r] + 1
      /\ \A q \in Ranks : q # r => rank'[q] = rank[q] /\ pc'[q] = pc[q]
  BY <1>1 DEF Shape
<1>7. TotalCost' = TotalCost
  BY <1>1 DEF TotalCost, coeff_total
<1>8. LoadOf(r) /\ all_total[r] = TotalCost
  BY <1>1 DEF LoadOf
<1>9. ASSUME NEW q \in Ranks, 3 * q + 2 <= Len(log') PROVE SumSaid(q)'
  <2>1. q \in Nat
    BY RanksAre
  <2>2. 3 * q + 2 <= Len(log)
    <3>1. CASE rank[r] = r
      <4>1. Len(log) = 3 * r + 2 /\ Len(log') = 3 * r + 3
        BY <1>3, <1>5, <3>1
      <4> QED
        BY <1>3, <1>9, <2>1, <4>1
    <3>2. CASE rank[r] # r
      BY <1>5, <1>9, <3>2
    <3> QED
      BY <3>1, <3>2
  <2> QED
    BY <1>1, <1>3, <1>5, <2>1, <2>2, SumSaidKept
<1>10. \A q \in Ranks : q # r => LoadOf(q)'
  BY <1>1, <1>5, <1>6, LoadOfKept
<1> HIDE DEF own
<1>11. KnowsSum(r)'
  <2>1. heard'[r] # 3 * r + 1 /\ heard'[r] # 3 * rank'[r] + 2
    <3>1. \A h, k, j \in Int : h = 3 * k + 2 /\ j = k + 1 =>
            h + 1 = 3 * k + 3 /\ 3 * j + 2 = 3 * k + 5
      OBVIOUS
    <3>2. heard'[r] = 3 * rank[r] + 3 /\ 3 * rank'[r] + 2 = 3 * rank[r] + 5
      <4>1. heard[r] \in Int /\ rank[r] \in Int /\ rank'[r] \in Int /\ rank'[r] = rank[r] + 1
        BY <1>3, <1>6
      <4>2. heard[r] + 1 = 3 * rank[r] + 3 /\ 3 * rank'[r] + 2 = 3 * rank[r] + 5
        BY <1>3, <3>1, <4>1
      <4> QED
        BY <1>5, <4>2
    <3> QED
      BY <1>3, <3>2
  <2>2. coeff_sum[r] = SumAt(rank[r] + 1)
    <3>1. heard[r] # 3 * r + 1
      BY <1>3
    <3> QED
      BY <1>3, <1>8, <3>1 DEF LoadOf, KnowsSum
  <2>3. SumAt(rank[r])' = SumAt(rank[r] + 1)
    <3>1. /\ rank[r] + 1 # 0 /\ 3 * (rank[r] + 1) - 1 = heard[r]
          /\ heard[r] \in 1 .. Len(log)
      BY <1>3
    <3>2. log'[heard[r]] = log[heard[r]]
      BY <1>5, <3>1
    <3>3. (IF rank'[r] = 0 THEN 0 ELSE log'[3 * rank'[r] - 1][2]) = log[heard[r]][2]
      BY <1>6, <3>1, <3>2
    <3>4. SumAt(rank[r] + 1) = log[heard[r]][2]
      BY <3>1 DEF SumAt
    <3> QED
      BY <3>3, <3>4 DEF SumAt
  <2> QED
    BY <1>1, <1>6, <2>1, <2>2, <2>3 DEF KnowsSum
<1>12. (Had(r) => \A i \in DOMAIN groups[r] : groups[r][i] = Run(r)[i].group)'
  <2> SUFFICES ASSUME Had(r)'
               PROVE  (\A i \in DOMAIN groups[r] : groups[r][i] = Run(r)[i].group)'
    OBVIOUS
  <2>1. Had(r)
    BY <1>3, <1>5 DEF Had
  <2>2. 3 * r <= Len(log)
    BY <1>3, <2>1 DEF Had
  <2>3. Run(r)' = Run(r)
    BY <1>1, <1>3, <1>5, <2>2, RunKept
  <2> QED
    BY <1>1, <1>8, <2>1, <2>3 DEF LoadOf
<1>13. LoadOf(r)'
  BY <1>1, <1>7, <1>8, <1>11, <1>12 DEF LoadOf
<1> QED
  BY <1>1, <1>9, <1>10, <1>13 DEF SumSaid

LEMMA LoadInvNext == StackInv /\ LoadInv /\ [Next]_vars => LoadInv'
<1>1. ASSUME LoadInv, UNCHANGED <<entry, groups, cost, all_total, coeff_sum, rank, log, heard>>,
             \A r \in Ranks : pc'[r] = pc[r] \/ pc[r] \in Through
      PROVE  LoadInv'
  <2>1. TotalCost' = TotalCost /\ \A t : GroupAt(t)' = GroupAt(t) /\ SumAt(t)' = SumAt(t)
    BY <1>1 DEF TotalCost, coeff_total, GroupAt, SumAt
  <2>2. \A t : Run(t)' = Run(t)
    BY <1>1, <2>1 DEF Run
  <2>3. \A t : RunSum(t)' = RunSum(t)
    BY <1>1, <2>2 DEF RunSum
  <2>4. \A q \in Ranks : /\ KnowsSum(q)' = KnowsSum(q) /\ SumSaid(q)' = SumSaid(q)
                         /\ Had(q)' = Had(q)
    BY <1>1, <2>1, <2>3 DEF KnowsSum, SumSaid, Had
  <2>5. ASSUME entry = "w_stacking_with_all_to_all", NEW q \in Ranks PROVE LoadOf(q)'
    <3>1. LoadOf(q) /\ (pc[q] \notin {"sum", "average"} => all_total[q] = TotalCost)
      BY <1>1, <2>5 DEF LoadInv, LoadOf
    <3>2. pc'[q] \notin {"sum", "average"} => pc[q] \notin {"sum", "average"}
      BY <1>1 DEF Through
    <3>3. pc'[q] \notin {"sum", "average"} => all_total'[q] = TotalCost'
      BY <1>1, <2>1, <3>1, <3>2
    <3>4. Run(q)' = Run(q) /\ KnowsSum(q)' = KnowsSum(q) /\ Had(q)' = Had(q)
      BY <2>2, <2>4
    <3>5. (Had(q) => \A i \in DOMAIN groups[q] : groups[q][i] = Run(q)[i].group)'
      BY <1>1, <3>1, <3>4 DEF LoadOf
    <3> QED
      BY <3>1, <3>3, <3>4, <3>5 DEF LoadOf
  <2> QED
    BY <1>1, <2>4, <2>5 DEF LoadInv
<1>2. ASSUME StackInv, LoadInv, UNCHANGED vars PROVE LoadInv'
  BY <1>1, <1>2 DEF vars, dealVars
<1>3. ASSUME StackInv, LoadInv, NEW r \in Ranks, Dealing(r), UNCHANGED <<entry, exchangeVars>>
      PROVE  LoadInv'
  <2> SUFFICES ASSUME entry' = "w_stacking_with_all_to_all" PROVE LoadInv'
    BY DEF LoadInv
  <2>1. entry = "w_stacking_with_all_to_all" /\ entry' = entry
    BY <1>3
  <2>2. /\ DealtSoFar /\ Shape /\ groups[r] \in Seq(Nat)
        /\ DOMAIN all_total = Ranks /\ \A q \in Ranks : LoadOf(q) /\ SumSaid(q)
    BY <1>3, <2>1 DEF StackInv, LoadInv, Exchanges
  <2>3. DOMAIN all_total' = Ranks /\ \A q \in Ranks : LoadOf(q)' /\ SumSaid(q)'
    BY <1>3, <2>2, TotalsKeepLoad, DealOutKeepsLoad, HandOverSumKeepsLoad,
       HandOverGroupKeepsLoad DEF Dealing
  <2> QED
    BY <2>3 DEF LoadInv
<1>4. ASSUME StackInv, LoadInv, NEW r \in Ranks, Exchanging(r), UNCHANGED <<entry, dealVars>>
      PROVE  LoadInv'
  <2>1. pc[r] \in {"regroup", "exchange"} /\ groups' = groups
        /\ \A q \in Ranks : q # r => pc'[q] = pc[q]
    BY <1>4 DEF Exchanging, RegroupColumns, Return, StackInv, Shape
  <2>2. \A q \in Ranks : pc'[q] = pc[q] \/ pc[q] \in Through
    BY <2>1 DEF Through
  <2>3. UNCHANGED <<entry, groups, cost, all_total, coeff_sum, rank, log, heard>>
    BY <1>4, <2>1 DEF dealVars
  <2> QED
    BY <1>1, <1>4, <2>2, <2>3
<1> QED
  BY <1>2, <1>3, <1>4 DEF Next, Step

\* Every rank deals out its visibilities from the sum and the group with which the rank
\* before it ended, although each has its own copies of them.
THEOREM LoadInvAlways == Spec => [](StackInv /\ LoadInv)
<1>1. StackInv /\ LoadInv /\ [Next]_vars => (StackInv /\ LoadInv)'
  BY StackInvNext, LoadInvNext
<1> QED
  BY <1>1, StackInvInit, LoadInvInit, PTL DEF Spec

\* The visibilities of group g up to the j-th of rank t.
InGroup(g, t, j) ==
  {x \in Places : GroupOf(x) = g /\ (x[1] < t \/ (x[1] = t /\ x[2] <= j))}

\* What some visibilities cost, as the size of a set: a portion for each coefficient.
AllCosts == [x \in Places |-> CostOf(x)]
Weight(S) == Cardinality(Portions(AllCosts, S))

\* A group that is not too heavy, or has a single visibility that is.
Light(S) == ~Exceeds(Weight(S), TotalCost) \/ Cardinality(S) = 1

\* Up to the j-th visibility of rank t no group but the last is too heavy, and the running sum
\* is what the current group costs.
Balanced(t, j) ==
  /\ \A g \in 0 .. Size-2 : Light(InGroup(g, t, j))
  /\ \A g \in 0 .. Size-1 : g > Run(t)[j].group => InGroup(g, t, j) = {}
  /\ Weight(InGroup(Run(t)[j].group, t, j)) = Run(t)[j].sum

\* Every rank has had its turn.
AllDealt ==
  /\ entry = "w_stacking_with_all_to_all" /\ StackInv /\ LoadInv
  /\ \A r \in Ranks : Had(r)

\* The total of the costs is a natural number.
LEMMA TotalIsNatural ==
  ASSUME \A r \in Ranks : cost[r] \in Seq(Nat)
  PROVE  TotalCost \in Nat
<1> DEFINE f == [r \in Ranks |-> coeff_total(r)]
<1>1. ASSUME NEW r \in Ranks PROVE coeff_total(r) \in Nat
  <2> DEFINE c == cost[r]
             T == DOMAIN c
  <2>1. IsFiniteSet(T) /\ \A x \in T : c[x] \in Nat
    <3>1. c \in Seq(Nat)
      OBVIOUS
    <3> HIDE DEF c
    <3>2. T = 1 .. Len(c) /\ Len(c) \in Nat
      BY <3>1
    <3>3. \A x \in T : c[x] \in Nat
      BY <3>1
    <3>4. IsFiniteSet(1 .. Len(c))
      BY <3>2, FS_Interval
    <3> QED
      BY <3>2, <3>3, <3>4
  <2>2. coeff_total(r) = SumFunctionOnSet(c, T)
    BY DEF coeff_total, SumFunction
  <2> HIDE DEF c, T
  <2> QED
    BY <2>1, <2>2, SumIsSize, FS_CardinalityType
<1>2. IsFiniteSet(Ranks) /\ \A x \in Ranks : f[x] \in Nat
  <2>1. IsFiniteSet(Ranks)
    BY RanksAre, FS_Interval
  <2>2. \A x \in Ranks : f[x] = coeff_total(x)
    OBVIOUS
  <2> HIDE DEF f
  <2> QED
    BY <1>1, <2>1, <2>2
<1>3. TotalCost = SumFunctionOnSet(f, Ranks)
  BY DEF TotalCost, SumFunction
<1> HIDE DEF f
<1> QED
  BY <1>2, <1>3, SumIsSize, FS_CardinalityType

\* Once all is dealt out.
LEMMA PlacesAre ==
  ASSUME AllDealt
  PROVE  /\ DealtSoFar /\ IsFiniteSet(Places)
         /\ \A x \in Places : /\ x[1] \in Ranks /\ x[2] \in DOMAIN groups[x[1]]
                              /\ x = <<x[1], x[2]>> /\ AllCosts[x] \in Nat /\ x[2] \in Nat
         /\ \A t \in Ranks : /\ t \in Nat /\ groups[t] \in Seq(Nat) /\ cost[t] \in Seq(Nat)
                             /\ DOMAIN groups[t] = 1 .. Len(cost[t]) /\ Len(cost[t]) \in Nat
                             /\ \A j \in DOMAIN groups[t] :
                                  /\ <<t, j>> \in Places /\ AllCosts[<<t, j>>] = cost[t][j]
                                  /\ groups[t][j] = Run(t)[j].group /\ groups[t][j] \in 0 .. Size-1
         /\ TotalCost \in Nat
<1>1. /\ DealtSoFar
      /\ \A x \in Places : x[1] \in Ranks /\ x[2] \in DOMAIN groups[x[1]] /\ x = <<x[1], x[2]>>
      /\ \A t \in Ranks : \A j \in DOMAIN groups[t] : <<t, j>> \in Places
      /\ \A t \in Ranks : groups[t] \in Seq(Nat) /\ t \in Nat
      /\ IsFiniteSet(Settled) /\ \A x : x \in Settled <=> x \in Places /\ Had(x[1])
  BY SettledAre, RanksAre DEF AllDealt
<1>2. Places = Settled
  BY <1>1 DEF AllDealt
<1>3. ASSUME NEW t \in Ranks
      PROVE  /\ cost[t] \in Seq(Nat) /\ DOMAIN groups[t] = 1 .. Len(cost[t]) /\ Len(cost[t]) \in Nat
             /\ \A j \in DOMAIN groups[t] :
                  /\ cost[t][j] \in Nat /\ groups[t][j] = Run(t)[j].group
                  /\ groups[t][j] \in 0 .. Size-1 /\ j \in Nat
  <2>1. /\ cost[t] \in Seq(Nat) /\ Len(groups[t]) = Len(cost[t]) /\ groups[t] \in Seq(Nat)
        /\ Stepwise(t) /\ LoadOf(t)
    BY <1>1 DEF AllDealt, DealtSoFar, LoadInv
  <2>2. DOMAIN groups[t] = 1 .. Len(cost[t]) /\ Len(cost[t]) \in Nat
    BY <2>1
  <2>3. \A j \in 1 .. Len(cost[t]) : cost[t][j] \in Nat
    BY <2>1
  <2>4. \A j \in DOMAIN groups[t] : groups[t][j] = Run(t)[j].group
    BY <2>1 DEF AllDealt, LoadOf
  <2> QED
    BY <2>1, <2>2, <2>3, <2>4 DEF Stepwise
<1>4. \A x \in Places : AllCosts[x] = cost[x[1]][x[2]]
  BY DEF AllCosts, CostOf
<1>5. \A x \in Places : AllCosts[x] \in Nat /\ x[2] \in Nat
  BY <1>1, <1>3, <1>4
<1>6. \A t \in Ranks : \A j \in DOMAIN groups[t] : AllCosts[<<t, j>>] = cost[t][j]
  BY <1>1, <1>4
<1>7. TotalCost \in Nat
  BY <1>3, TotalIsNatural
<1> QED
  BY <1>1, <1>2, <1>3, <1>5, <1>6, <1>7

\* One visibility more costs as much more.
LEMMA WeightAdds ==
  ASSUME AllDealt, NEW S \in SUBSET Places
  PROVE  /\ IsFiniteSet(S) /\ IsFiniteSet(Portions(AllCosts, S)) /\ Weight(S) \in Nat
         /\ \A x \in Places : x \notin S => /\ Weight(S \cup {x}) = AllCosts[x] + Weight(S)
                                            /\ Cardinality(S \cup {x}) = Cardinality(S) + 1
<1>1. IsFiniteSet(Places) /\ \A x \in Places : AllCosts[x] \in Nat
  BY PlacesAre
<1>2. \A T \in SUBSET Places : IsFiniteSet(T) /\ IsFiniteSet(Portions(AllCosts, T))
  <2> SUFFICES ASSUME NEW T \in SUBSET Places
               PROVE  IsFiniteSet(T) /\ IsFiniteSet(Portions(AllCosts, T))
    OBVIOUS
  <2>1. IsFiniteSet(T) /\ \A x \in T : AllCosts[x] \in Nat
    BY <1>1, FS_Subset
  <2> QED
    BY <2>1, SumIsSize
<1>3. ASSUME NEW x \in Places, x \notin S
      PROVE  /\ Weight(S \cup {x}) = AllCosts[x] + Weight(S)
             /\ Cardinality(S \cup {x}) = Cardinality(S) + 1
  <2> DEFINE T == S \cup {x}
  <2>1. T \ {x} = S /\ x \in T /\ T \in SUBSET Places
    BY <1>3
  <2> HIDE DEF T
  <2>2. Cardinality(Portions(AllCosts, T)) = AllCosts[x] + Cardinality(Portions(AllCosts, T \ {x}))
    <3>1. x \in T /\ AllCosts[x] \in Nat /\ IsFiniteSet(Portions(AllCosts, T \ {x}))
      BY <1>1, <1>2, <2>1
    <3> DEFINE f == AllCosts
    <3> HIDE DEF f
    <3>2. x \in T /\ f[x] \in Nat /\ IsFiniteSet(Portions(f, T \ {x}))
      BY <3>1 DEF f
    <3>3. Cardinality(Portions(f, T)) = f[x] + Cardinality(Portions(f, T \ {x}))
      BY ONLY <3>2, PortionsOf
    <3> QED
      BY <3>3 DEF f
  <2>3. Weight(T) = AllCosts[x] + Weight(S)
    BY <2>1, <2>2 DEF Weight
  <2>4. Cardinality(S \cup {x}) = Cardinality(S) + 1
    BY <1>2, <1>3, FS_AddElement
  <2> QED
    BY <2>3, <2>4 DEF T
<1> QED
  BY <1>2, <1>3, FS_CardinalityType DEF Weight

LEMMA NothingWeighsNothing == Weight({}) = 0 /\ (TotalCost \in Nat => Light({}))
<1>1. Portions(AllCosts, {}) = {}
  BY DEF Portions
<1>2. Weight({}) = 0
  BY <1>1, FS_EmptySet DEF Weight
<1>3. ASSUME TotalCost \in Nat PROVE ~Exceeds(0, TotalCost)
  <2>1. TotalCost * (100 + Fill) \in Nat
    BY <1>3, FillAssumption
  <2>2. 0 * Size * 100 = 0
    BY RanksAre
  <2> QED
    BY <2>1, <2>2 DEF Exceeds
<1> QED
  BY <1>2, <1>3 DEF Light

LEMMA RunSteps ==
  ASSUME AllDealt, NEW t \in Ranks
  PROVE  /\ Run(t)[0] = [group |-> GroupAt(t), sum |-> SumAt(t)]
         /\ \A i \in 1 .. Len(cost[t]) : Run(t)[i] = Deal(Run(t)[i-1], cost[t][i], TotalCost)
<1>1. cost[t] \in Seq(Nat)
  BY PlacesAre
<1> QED
  BY <1>1, DealFromDefined DEF Run

\* The groups with one visibility more.
LEMMA GroupsGrow ==
  ASSUME AllDealt, NEW t \in Ranks, NEW j \in Nat, j + 1 \in DOMAIN groups[t]
  PROVE  \A g : /\ <<t, j + 1>> \notin InGroup(g, t, j)
                /\ InGroup(g, t, j + 1) = IF g = groups[t][j + 1]
                                          THEN InGroup(g, t, j) \cup {<<t, j + 1>>}
                                          ELSE InGroup(g, t, j)
<1> DEFINE x == <<t, j + 1>>
<1>1. x \in Places /\ x[1] = t /\ x[2] = j + 1 /\ GroupOf(x) = groups[t][j + 1] /\ t \in Nat
  BY PlacesAre DEF GroupOf
<1>2. ASSUME NEW y \in Places
      PROVE  (y[1] < t \/ (y[1] = t /\ y[2] <= j + 1)) <=> (y[1] < t \/ (y[1] = t /\ y[2] <= j)) \/ y = x
  <2>1. y[1] \in Ranks /\ y[2] \in Nat /\ y = <<y[1], y[2]>>
    BY PlacesAre
  <2> QED
    BY <2>1
<1> HIDE DEF x
<1>3. \A g : x \notin InGroup(g, t, j)
  BY <1>1 DEF InGroup
<1>4. ASSUME NEW g, NEW y
      PROVE  y \in InGroup(g, t, j + 1)
               <=> y \in InGroup(g, t, j) \/ (y = x /\ g = groups[t][j + 1])
  BY <1>1, <1>2 DEF InGroup
<1>5. ASSUME NEW g
      PROVE  InGroup(g, t, j + 1) = IF g = groups[t][j + 1] THEN InGroup(g, t, j) \cup {x}
                                    ELSE InGroup(g, t, j)
  <2>1. CASE g = groups[t][j + 1]
    BY <1>4, <2>1
  <2>2. CASE g # groups[t][j + 1]
    BY <1>4, <2>2
  <2> QED
    BY <2>1, <2>2
<1> QED
  BY <1>3, <1>5 DEF x

\* One visibility further in the same rank.
LEMMA BalancedOne ==
  ASSUME AllDealt, NEW t \in Ranks, NEW j \in Nat, j + 1 \in DOMAIN groups[t], Balanced(t, j),
         Run(t)[j].group \in 0 .. Size-1
  PROVE  Balanced(t, j + 1) /\ Run(t)[j + 1].group \in 0 .. Size-1
<1> DEFINE x == <<t, j + 1>>
           c == cost[t][j + 1]
           g == Run(t)[j].group
           s == Run(t)[j].sum
           h == Run(t)[j + 1].group
           In(k) == InGroup(k, t, j)
           New(k) == InGroup(k, t, j + 1)
<1>1. /\ x \in Places /\ AllCosts[x] = c /\ groups[t][j + 1] = h /\ h \in 0 .. Size-1
      /\ TotalCost \in Nat /\ c \in Nat
  <2>1. \A i \in DOMAIN groups[t] :
          /\ <<t, i>> \in Places /\ AllCosts[<<t, i>>] = cost[t][i]
          /\ groups[t][i] = Run(t)[i].group /\ groups[t][i] \in 0 .. Size-1
    BY PlacesAre
  <2>2. TotalCost \in Nat /\ \A y \in Places : AllCosts[y] \in Nat
    BY PlacesAre
  <2> QED
    BY <2>1, <2>2
<1>2. \A k : x \notin In(k) /\ In(k) \in SUBSET Places
  <2>1. \A k : x \notin In(k)
    BY GroupsGrow
  <2>2. \A k : In(k) \in SUBSET Places
    BY DEF InGroup
  <2> QED
    BY <2>1, <2>2
<1>3. New(h) = In(h) \cup {x} /\ \A k : k # h => New(k) = In(k)
  <2>1. \A k : New(k) = IF k = groups[t][j + 1] THEN In(k) \cup {x} ELSE In(k)
    BY GroupsGrow
  <2>2. groups[t][j + 1] = h
    BY <1>1
  <2> HIDE DEF New, In, h, x
  <2> QED
    BY <2>1, <2>2
<1>4. Weight(New(h)) = c + Weight(In(h)) /\ Cardinality(New(h)) = Cardinality(In(h)) + 1
  <2> DEFINE S == In(h)
  <2>1. S \in SUBSET Places /\ x \notin S /\ New(h) = S \cup {x}
    BY <1>2, <1>3
  <2> HIDE DEF S, x, c, New
  <2> QED
    BY <1>1, <2>1, WeightAdds DEF S
<1>5. Run(t)[j + 1] = IF g < Size - 1 /\ Exceeds(c + s, TotalCost)
                      THEN [group |-> g + 1, sum |-> c] ELSE [group |-> g, sum |-> c + s]
  <2>1. j + 1 \in 1 .. Len(cost[t]) /\ (j + 1) - 1 = j
    <3>1. DOMAIN groups[t] = 1 .. Len(cost[t])
      BY PlacesAre
    <3> QED
      BY <3>1
  <2>2. Run(t)[j + 1] = Deal(Run(t)[j], c, TotalCost)
    <3>1. \A i \in 1 .. Len(cost[t]) : Run(t)[i] = Deal(Run(t)[i-1], cost[t][i], TotalCost)
      BY RunSteps
    <3> QED
      BY <2>1, <3>1
  <2> QED
    BY <2>2 DEF Deal
<1>6. /\ \A k \in 0 .. Size-2 : Light(In(k))
      /\ \A k \in 0 .. Size-1 : k > g => In(k) = {}
      /\ Weight(In(g)) = s
  BY DEF Balanced
<1>7. g \in 0 .. Size-1
  OBVIOUS
<1> HIDE DEF x, c, g, s, In, New
<1>8. CASE g < Size - 1 /\ Exceeds(c + s, TotalCost)
  <2>1. h = g + 1 /\ Run(t)[j + 1].sum = c
    BY <1>5, <1>8
  <2>2. In(h) = {}
    BY <1>1, <1>6, <1>7, <2>1
  <2>3. Weight(New(h)) = c /\ Cardinality(New(h)) = 1
    <3>1. Cardinality({}) = 0 /\ Weight({}) = 0
      BY FS_EmptySet, NothingWeighsNothing
    <3> QED
      BY <1>1, <1>4, <2>2, <3>1
  <2>4. \A k \in 0 .. Size-2 : Light(New(k))
    BY <1>3, <1>6, <2>3 DEF Light
  <2>5. \A k \in 0 .. Size-1 : k > h => New(k) = {}
    <3> SUFFICES ASSUME NEW k \in 0 .. Size-1, k > h PROVE New(k) = {}
      OBVIOUS
    <3>1. k > g /\ k # h
      BY <1>1, <1>7, <2>1
    <3> QED
      BY <1>3, <1>6, <3>1
  <2> QED
    BY <1>1, <2>1, <2>3, <2>4, <2>5 DEF Balanced, New
<1>9. CASE ~(g < Size - 1 /\ Exceeds(c + s, TotalCost))
  <2>1. h = g /\ Run(t)[j + 1].sum = c + s
    BY <1>5, <1>9
  <2>2. Weight(New(h)) = c + s
    BY <1>4, <1>6, <2>1
  <2>3. \A k \in 0 .. Size-2 : Light(New(k))
    <3> SUFFICES ASSUME NEW k \in 0 .. Size-2 PROVE Light(New(k))
      OBVIOUS
    <3>1. CASE k = h
      <4>1. g < Size - 1
        BY <1>7, <2>1, <3>1, RanksAre
      <4> QED
        BY <1>9, <2>2, <3>1, <4>1 DEF Light
    <3>2. CASE k # h
      BY <1>3, <1>6, <3>2
    <3> QED
      BY <3>1, <3>2
  <2>4. \A k \in 0 .. Size-1 : k > h => New(k) = {}
    <3> SUFFICES ASSUME NEW k \in 0 .. Size-1, k > h PROVE New(k) = {}
      OBVIOUS
    <3>1. k > g /\ k # h
      BY <1>1, <1>7, <2>1
    <3> QED
      BY <1>3, <1>6, <3>1
  <2> QED
    BY <1>1, <2>1, <2>2, <2>3, <2>4 DEF Balanced, New
<1> QED
  BY <1>8, <1>9

\* From the last visibility of a rank into the turn of the next one.
LEMMA BalancedOver ==
  ASSUME AllDealt, NEW t \in Ranks, t + 1 \in Ranks, Balanced(t, Len(cost[t])),
         Run(t)[Len(cost[t])].group \in 0 .. Size-1
  PROVE  Balanced(t + 1, 0) /\ Run(t + 1)[0].group \in 0 .. Size-1
<1> DEFINE n == Len(cost[t])
<1>1. /\ DealtSoFar /\ t \in Nat /\ n \in Nat /\ DOMAIN groups[t] = 1 .. n
      /\ groups[t] \in Seq(Nat)
  BY PlacesAre
<1>2. GroupAt(t + 1) = EndOf(t) /\ SumAt(t + 1) = RunSum(t)
  <2>1. Had(t + 1) /\ t < t + 1 /\ t + 1 \in Nat
    BY <1>1 DEF AllDealt
  <2>2. GroupAt(t + 1) = EndOf(t)
    BY <1>1, <2>1, EarlierHad
  <2>3. SumSaid(t)
    BY DEF AllDealt, LoadInv
  <2>4. /\ heard[t + 1] \in Nat /\ Len(log) \in Nat /\ heard[t + 1] <= Len(log)
    BY <1>1, StageFacts
  <2>5. 3 * t + 2 <= Len(log)
    BY <1>1, <2>1, <2>4 DEF Had
  <2> QED
    BY <2>2, <2>3, <2>5 DEF SumSaid
<1>3. EndOf(t) = Run(t)[n].group
  <2>1. CASE n = 0
    <3>1. groups[t] = <<>>
      <4> DEFINE q == groups[t]
      <4>1. q \in Seq(Nat) /\ DOMAIN q = 1 .. 0
        BY <1>1, <2>1
      <4> HIDE DEF q
      <4>2. ~(Len(q) \in Nat \ {0})
        BY <4>1
      <4>3. q = <<>>
        BY <4>1, <4>2, EmptySeq
      <4> QED
        BY <4>3 DEF q
    <3>2. Run(t)[0] = [group |-> GroupAt(t), sum |-> SumAt(t)]
      BY RunSteps
    <3> HIDE DEF n
    <3>3. Run(t)[n].group = GroupAt(t)
      BY <2>1, <3>2
    <3> QED
      BY <3>1, <3>3 DEF EndOf
  <2>2. CASE n # 0
    <3>1. n \in DOMAIN groups[t] /\ groups[t] # <<>> /\ Len(groups[t]) = n
      <4> HIDE DEF n
      <4>1. n \in DOMAIN groups[t]
        BY <1>1, <2>2
      <4> QED
        BY <1>1, <4>1
    <3>2. groups[t][n] = Run(t)[n].group
      BY <3>1, PlacesAre
    <3> QED
      BY <3>1, <3>2 DEF EndOf
  <2> QED
    BY <2>1, <2>2
<1>4. Run(t + 1)[0].group = Run(t)[n].group /\ Run(t + 1)[0].sum = Run(t)[n].sum
  <2>1. Run(t + 1)[0] = [group |-> GroupAt(t + 1), sum |-> SumAt(t + 1)]
    <3> DEFINE u == t + 1
    <3>1. u \in Ranks
      OBVIOUS
    <3> HIDE DEF u
    <3>2. Run(u)[0] = [group |-> GroupAt(u), sum |-> SumAt(u)]
      BY <3>1, RunSteps
    <3> QED
      BY <3>2 DEF u
  <2>2. RunSum(t) = Run(t)[n].sum
    BY DEF RunSum
  <2> HIDE DEF n
  <2> QED
    BY <1>2, <1>3, <2>1, <2>2
<1>5. ASSUME NEW g PROVE InGroup(g, t + 1, 0) = InGroup(g, t, n)
  <2>1. ASSUME NEW x \in Places
        PROVE  (x[1] < t + 1 \/ (x[1] = t + 1 /\ x[2] <= 0)) <=> (x[1] < t \/ (x[1] = t /\ x[2] <= n))
    <3>1. /\ x[1] \in Nat /\ x[2] \in 1 .. Len(cost[x[1]]) /\ Len(cost[x[1]]) \in Nat
      BY PlacesAre
    <3>2. x[2] > 0 /\ (x[1] = t => x[2] <= n) /\ x[2] \in Nat
      BY <3>1
    <3> QED
      BY <1>1, <3>1, <3>2
  <2> QED
    BY <2>1 DEF InGroup
<1> HIDE DEF n
<1> QED
  BY <1>4, <1>5 DEF Balanced, n

\* After each visibility of each rank.
LEMMA AlwaysBalanced ==
  ASSUME AllDealt, NEW t \in Ranks, NEW j \in 0 .. Len(cost[t])
  PROVE  Balanced(t, j)
<1> DEFINE Good(m, k) == Balanced(m, k) /\ Run(m)[k].group \in 0 .. Size-1
           Fine == {m \in Nat : m \in Ranks => \A k \in 0 .. Len(cost[m]) : Good(m, k)}
<1>1. ASSUME NEW m \in Ranks, Good(m, 0) PROVE \A k \in 0 .. Len(cost[m]) : Good(m, k)
  <2> DEFINE Upto == {k \in Nat : k <= Len(cost[m]) => Good(m, k)}
  <2>1. DOMAIN groups[m] = 1 .. Len(cost[m]) /\ Len(cost[m]) \in Nat
    BY PlacesAre
  <2>2. 0 \in Upto
    BY <1>1
  <2>3. ASSUME NEW k \in Nat, k \in Upto PROVE k + 1 \in Upto
    <3> SUFFICES ASSUME k + 1 <= Len(cost[m]) PROVE Good(m, k + 1)
      OBVIOUS
    <3>1. k + 1 \in DOMAIN groups[m] /\ Good(m, k)
      BY <2>1, <2>3
    <3> QED
      BY <3>1, BalancedOne
  <2> HIDE DEF Upto
  <2>4. \A k \in Nat : k \in Upto
    BY <2>2, <2>3, Induction
  <2> QED
    BY <2>4 DEF Upto
<1>2. Good(0, 0)
  <2>1. 0 \in Ranks /\ Run(0)[0] = [group |-> 0, sum |-> 0]
    BY RanksAre, RunSteps DEF GroupAt, SumAt
  <2>2. \A g : InGroup(g, 0, 0) = {}
    <3>1. \A x \in Places : x[1] \in Nat /\ x[2] \in 1 .. Len(cost[x[1]]) /\ Len(cost[x[1]]) \in Nat
      BY PlacesAre
    <3>2. \A x \in Places : ~(x[1] < 0) /\ ~(x[2] <= 0)
      BY <3>1
    <3> QED
      BY <3>2 DEF InGroup
  <2>3. TotalCost \in Nat
    BY PlacesAre
  <2>4. Weight({}) = 0 /\ Light({})
    BY <2>3, NothingWeighsNothing
  <2>5. Run(0)[0].group = 0 /\ Run(0)[0].sum = 0 /\ 0 \in 0 .. Size-1
    BY <2>1, RanksAre
  <2> QED
    BY <2>2, <2>4, <2>5 DEF Balanced
<1> HIDE DEF Good
<1>3. 0 \in Fine
  BY <1>1, <1>2
<1>4. ASSUME NEW m \in Nat, m \in Fine PROVE m + 1 \in Fine
  <2> SUFFICES ASSUME m + 1 \in Ranks PROVE \A k \in 0 .. Len(cost[m + 1]) : Good(m + 1, k)
    OBVIOUS
  <2>1. m \in Ranks /\ Len(cost[m]) \in 0 .. Len(cost[m])
    <3>1. m \in Ranks
      BY RanksAre
    <3> QED
      BY <3>1, PlacesAre
  <2>2. Good(m, Len(cost[m]))
    BY <1>4, <2>1
  <2>3. Good(m + 1, 0)
    BY <2>1, <2>2, BalancedOver DEF Good
  <2> QED
    BY <1>1, <2>3
<1> HIDE DEF Fine
<1>5. \A m \in Nat : m \in Fine
  BY <1>3, <1>4, Induction
<1>6. t \in Nat
  BY RanksAre
<1> QED
  BY <1>5, <1>6 DEF Fine, Good

\* A column of result once more, as places.
ItsPlaces(r) == {x \in Places : GroupOf(x) = r}

\* Who has returned from the exchanges has met all the others there.
LEMMA ReturnedMeansDealt ==
  ASSUME StackInv, LoadInv, entry = "w_stacking_with_all_to_all", NEW r \in Ranks,
         pc[r] = "returned"
  PROVE  AllDealt
<1>1. DealtSoFar
  BY DEF StackInv
<1>2. ASSUME NEW q \in Ranks PROVE Had(q)
  <2>1. posted[q] >= 1
    BY ReturnedMetAll
  <2>2. pc[q] \in {"exchange", "returned"}
    BY <2>1 DEF StackInv, Exchanges
  <2>3. Stage(q)
    BY <1>1 DEF DealtSoFar
  <2>4. heard[q] = 3 * Size
    BY <2>2, <2>3 DEF Stage
  <2>5. q \in Nat /\ q < Size /\ Size \in Nat
    BY RanksAre
  <2> QED
    BY <2>4, <2>5 DEF Had
<1> QED
  BY <1>2 DEF AllDealt

\* What a rank that returned holds are the visibilities of its group.
LEMMA HeldPlaces ==
  ASSUME AllDealt, NEW r \in Ranks, pc[r] = "returned", NEW u, u = result[r]["u"]
  PROVE  /\ u \in Seq(Entry("u"))
         /\ \A k \in DOMAIN u : <<u[k][2], u[k][3] + 1>> \in ItsPlaces(r)
         /\ \A k, l \in DOMAIN u : u[k][2] = u[l][2] /\ u[k][3] + 1 = u[l][3] + 1 => k = l
         /\ \A x \in ItsPlaces(r) : \E k \in DOMAIN u : <<u[k][2], u[k][3] + 1>> = x
<1>1. /\ u \in Seq(Entry("u"))
      /\ \A s \in Ranks : \A d \in Data(s) :
           Occurrences(u, <<"u", s, d>>) = IF groups[s][d + 1] = r THEN 1 ELSE 0
      /\ \A s \in Ranks : \A d \in Nat \ Data(s) : Occurrences(u, <<"u", s, d>>) = 0
  <2>1. /\ StackInv /\ \A q \in Ranks : Ready(q)
        /\ \A k \in 1 .. 10 : Holds(r, k)
    BY ReturnedMetAll DEF AllDealt
  <2>2. /\ \A s, q : Calls(s) = Calls(q)
        /\ \A a \in PerVisibility \cup HeaderFields : \E k \in 1 .. 10 : Calls(r)[k] = a
    BY <2>1, CallsDiffer DEF StackInv
  <2>3. "u" \in PerVisibility
    BY NamesAre
  <2>4. PICK k \in 1 .. 10 : Calls(r)[k] = "u"
    BY <2>2, <2>3
  <2>5. u = Received(k, r)
    BY <2>1, <2>3, <2>4 DEF Holds
  <2>6. \A q : Calls(q)[k] = "u"
    BY <2>2, <2>4
  <2>7. /\ HasItsGroup(r, "u", u) /\ u \in Seq(Entry("u"))
        /\ \A s \in Ranks : \A d \in Nat \ Data(s) : Occurrences(u, <<"u", s, d>>) = 0
    BY <2>1, <2>5, <2>6, ReceivedOnce
  <2> QED
    BY <2>7 DEF HasItsGroup
<1>2. /\ \A s \in Ranks : \A d \in Nat : d \in Data(s) <=> d + 1 \in DOMAIN groups[s]
      /\ \A x \in Places : /\ x[1] \in Ranks /\ x[2] \in DOMAIN groups[x[1]]
                           /\ x = <<x[1], x[2]>> /\ x[2] \in Nat
      /\ \A s \in Ranks : \A j \in DOMAIN groups[s] : <<s, j>> \in Places /\ j \in Nat \ {0}
  <2>1. \A s \in Ranks : groups[s] \in Seq(Nat)
    BY PlacesAre
  <2>2. \A s \in Ranks : DOMAIN groups[s] = 1 .. Count(s) /\ Count(s) \in Nat
    BY <2>1 DEF Count
  <2>3. \A s \in Ranks : \A d \in Nat : d \in Data(s) <=> d + 1 \in DOMAIN groups[s]
    BY <2>2 DEF Data
  <2>4. \A s \in Ranks : \A j \in DOMAIN groups[s] : j \in Nat \ {0}
    BY <2>2
  <2> QED
    BY <2>3, <2>4, PlacesAre
<1>3. \A x : {k \in DOMAIN u : u[k] = x} \in SUBSET (DOMAIN u) /\ IsFiniteSet({k \in DOMAIN u : u[k] = x})
  <2>1. DOMAIN u = 1 .. Len(u) /\ Len(u) \in Nat
    BY <1>1
  <2>2. IsFiniteSet(DOMAIN u)
    BY <2>1, FS_Interval
  <2> QED
    BY <2>2, FS_Subset
<1>4. ASSUME NEW k \in DOMAIN u
      PROVE  /\ u[k][2] \in Ranks /\ u[k][3] \in Data(u[k][2]) /\ u[k][3] \in Nat
             /\ u[k] = <<"u", u[k][2], u[k][3]>> /\ groups[u[k][2]][u[k][3] + 1] = r
  <2> DEFINE s == u[k][2]
             d == u[k][3]
             S == {i \in DOMAIN u : u[i] = u[k]}
  <2>1. u[k] \in Entry("u")
    BY <1>1, ElementOfSeq
  <2>2. s \in Ranks /\ d \in Nat /\ u[k] = <<"u", s, d>>
    BY <2>1 DEF Entry
  <2>3. Occurrences(u, <<"u", s, d>>) # 0
    <3>1. k \in S /\ IsFiniteSet(S)
      BY <1>3
    <3>2. Cardinality(S) # 0
      BY <3>1, FS_EmptySet
    <3>3. Occurrences(u, u[k]) = Cardinality(S)
      BY DEF Occurrences
    <3> QED
      BY <2>2, <3>2, <3>3
  <2>4. d \in Data(s) /\ groups[s][d + 1] = r
    BY <1>1, <2>2, <2>3
  <2> QED
    BY <2>2, <2>4
<1>5. \A k \in DOMAIN u : <<u[k][2], u[k][3] + 1>> \in ItsPlaces(r)
  <2> SUFFICES ASSUME NEW k \in DOMAIN u PROVE <<u[k][2], u[k][3] + 1>> \in ItsPlaces(r)
    OBVIOUS
  <2>1. u[k][3] + 1 \in DOMAIN groups[u[k][2]]
    BY <1>2, <1>4
  <2>2. <<u[k][2], u[k][3] + 1>> \in Places
    BY <1>2, <1>4, <2>1
  <2> QED
    BY <1>4, <2>2 DEF ItsPlaces, GroupOf
<1>6. ASSUME NEW k \in DOMAIN u, NEW l \in DOMAIN u, u[k][2] = u[l][2], u[k][3] + 1 = u[l][3] + 1
      PROVE  k = l
  <2> DEFINE S == {i \in DOMAIN u : u[i] = u[k]}
  <2>1. u[k][3] = u[l][3]
    BY <1>4, <1>6
  <2>2. u[l] = u[k]
    BY <1>4, <1>6, <2>1
  <2>3. Occurrences(u, u[k]) = 1
    BY <1>1, <1>4
  <2>4. Cardinality(S) = 1
    BY <2>3 DEF Occurrences
  <2>5. IsFiniteSet(S) /\ k \in S /\ l \in S
    BY <1>3, <2>2
  <2> HIDE DEF S
  <2>6. PICK x : S = {x}
    BY <2>4, <2>5, FS_Singleton
  <2> QED
    BY <2>5, <2>6
<1>7. ASSUME NEW x \in ItsPlaces(r)
      PROVE  \E k \in DOMAIN u : <<u[k][2], u[k][3] + 1>> = x
  <2> DEFINE s == x[1]
             d == x[2] - 1
             S == {i \in DOMAIN u : u[i] = <<"u", s, d>>}
  <2>1. x \in Places /\ groups[x[1]][x[2]] = r
    BY DEF ItsPlaces, GroupOf
  <2>2. /\ s \in Ranks /\ x[2] \in DOMAIN groups[s] /\ x[2] \in Nat \ {0} /\ x = <<s, x[2]>>
    BY <1>2, <2>1
  <2>3. d \in Nat /\ d + 1 = x[2]
    BY <2>2
  <2>4. d \in Data(s) /\ groups[s][d + 1] = r
    BY <1>2, <2>1, <2>2, <2>3
  <2>5. Cardinality(S) = 1
    BY <1>1, <2>2, <2>4 DEF Occurrences
  <2>6. PICK k : k \in S
    BY <2>5, FS_EmptySet
  <2>7. u[k][2] = s /\ u[k][3] = d
    BY <2>6
  <2> QED
    BY <2>2, <2>3, <2>6, <2>7
<1> QED
  BY <1>1, <1>5, <1>6, <1>7

\* What a rank that returned has to do is what its group weighs.
LEMMA LoadIsWeight ==
  ASSUME AllDealt, NEW r \in Ranks, pc[r] = "returned"
  PROVE  /\ Load(r) = Weight(ItsPlaces(r))
         /\ Len(result[r]["u"]) = Cardinality(ItsPlaces(r))
<1> DEFINE u == result[r]["u"]
           D == DOMAIN u
           p == [k \in D |-> <<u[k][2], u[k][3] + 1>>]
           h == [k \in D |-> cost[u[k][2]][u[k][3] + 1]]
           B == ItsPlaces(r)
<1>1. /\ u \in Seq(Entry("u"))
      /\ \A k \in D : <<u[k][2], u[k][3] + 1>> \in B
      /\ \A k, l \in D : u[k][2] = u[l][2] /\ u[k][3] + 1 = u[l][3] + 1 => k = l
      /\ \A x \in B : \E k \in D : <<u[k][2], u[k][3] + 1>> = x
  BY HeldPlaces
<1>2. D = 1 .. Len(u) /\ Len(u) \in Nat
  BY <1>1
<1>3. IsFiniteSet(D) /\ Cardinality(D) = Len(u)
  BY <1>2, FS_Interval
<1>4. /\ p \in [D -> B] /\ \A x, y \in D : p[x] = p[y] => x = y
      /\ \A z \in B : \E x \in D : p[x] = z
  BY <1>1
<1>5. \A k \in D : h[k] = AllCosts[p[k]] /\ h[k] \in Nat
  <2> SUFFICES ASSUME NEW k \in D PROVE h[k] = AllCosts[p[k]] /\ h[k] \in Nat
    OBVIOUS
  <2>1. p[k] \in Places
    BY <1>1 DEF ItsPlaces
  <2>2. AllCosts[p[k]] = CostOf(p[k]) /\ AllCosts[p[k]] \in Nat
    BY <2>1, PlacesAre DEF AllCosts
  <2>3. CostOf(p[k]) = h[k]
    BY DEF CostOf
  <2> QED
    BY <2>2, <2>3
<1>6. Load(r) = SumFunctionOnSet(h, D)
  BY DEF Load, SumFunction
<1> HIDE DEF p, h, B, D
<1>7. Cardinality(B) = Len(u)
  BY ONLY <1>3, <1>4, SameSize
<1>8. IsFiniteSet(Portions(h, D)) /\ SumFunctionOnSet(h, D) = Cardinality(Portions(h, D))
  BY <1>3, <1>5, SumIsSize
<1>9. Cardinality(Portions(AllCosts, B)) = Cardinality(Portions(h, D))
  <2> DEFINE g == AllCosts
  <2>1. \A k \in D : h[k] = g[p[k]]
    BY <1>5
  <2> HIDE DEF g
  <2>2. Cardinality(Portions(g, B)) = Cardinality(Portions(h, D))
    BY ONLY <1>4, <1>8, <2>1, PortionsMoved
  <2> QED
    BY <2>2 DEF g
<1> QED
  BY <1>6, <1>7, <1>8, <1>9 DEF Weight, B

\* The work is even (w_support, "evenly distribute kernel coefficients values across
\* nodes"): whatever the costs and whoever held them before, no rank but the last comes
\* back from the exchanges with visibilities that cost more than the relaxed average,
\* unless it is a single one.
THEOREM LoadsAreEven == Spec => []EvenLoad
<1>1. StackInv /\ LoadInv => EvenLoad
  <2> SUFFICES ASSUME StackInv, LoadInv, entry = "w_stacking_with_all_to_all",
                      NEW r \in 0 .. Size-2, pc[r] = "returned"
               PROVE  ~Exceeds(Load(r), TotalCost) \/ Len(result[r]["u"]) = 1
    BY DEF EvenLoad
  <2> DEFINE t == Size-1
             n == Len(cost[t])
  <2>1. r \in Ranks /\ t \in Ranks /\ t \in Nat /\ \A s \in Ranks : s \in Nat /\ s <= t
    BY RanksAre
  <2>2. AllDealt
    BY <2>1, ReturnedMeansDealt
  <2>3. n \in 0 .. Len(cost[t])
    BY <2>1, <2>2, PlacesAre
  <2>4. Balanced(t, n)
    BY <2>1, <2>2, <2>3, AlwaysBalanced
  <2>5. InGroup(r, t, n) = ItsPlaces(r)
    <3>1. ASSUME NEW x \in Places PROVE x[1] < t \/ (x[1] = t /\ x[2] <= n)
      <4>1. x[1] \in Ranks /\ x[2] \in DOMAIN groups[x[1]] /\ x[2] \in Nat
        BY <2>2, PlacesAre
      <4>2. DOMAIN groups[x[1]] = 1 .. Len(cost[x[1]]) /\ Len(cost[x[1]]) \in Nat
        BY <2>2, <4>1, PlacesAre
      <4>3. x[1] \in Nat /\ x[1] <= t /\ x[2] <= Len(cost[x[1]])
        <5>1. x[1] \in Nat /\ x[1] <= t
          BY <2>1, <4>1
        <5>2. x[2] <= Len(cost[x[1]])
          BY <4>1, <4>2
        <5> QED
          BY <5>1, <5>2
      <4>4. CASE x[1] = t
        BY <4>3, <4>4
      <4>5. CASE x[1] # t
        <5> HIDE DEF t
        <5> QED
          BY <2>1, <4>3, <4>5
      <4> QED
        BY <4>4, <4>5
    <3> QED
      BY <3>1 DEF InGroup, ItsPlaces
  <2>6. Light(ItsPlaces(r))
    BY <2>4, <2>5 DEF Balanced
  <2>7. /\ Load(r) = Weight(ItsPlaces(r))
        /\ Len(result[r]["u"]) = Cardinality(ItsPlaces(r))
    BY <2>1, <2>2, LoadIsWeight
  <2> QED
    BY <2>6, <2>7 DEF Light
<1> QED
  BY <1>1, LoadInvAlways, PTL

(***************************************************************************)
(* The clusters: the visibilities of all ranks in rank order.              *)
(***************************************************************************)

\* w terms of all ranks; the place after which those of rank r begin.
AllW == InRankOrder(w)
Before(r) == SumUpto([q \in Ranks |-> Len(w[q])], r)

\* Every rank has w terms.
Filled == w \in [Ranks -> Seq(Int)] /\ \A r \in Ranks : w[r] # <<>>

\* Each of the ranks has a list f[r] as long as w[r], and s is all of them joined.
Laid(f, s) ==
  /\ DOMAIN s = 1 .. Before(Size)
  /\ \A r \in Ranks : \A i \in DOMAIN w[r] : s[Before(r) + i] = f[r][i]

LEMMA RanksBegin ==
  ASSUME Filled
  PROVE  /\ Size \in Nat /\ Size > 0 /\ Before(0) = 0
         /\ \A r \in 0 .. Size : Before(r) \in Nat
         /\ \A r \in Ranks : /\ r \in Nat /\ r + 1 \in 0 .. Size
                             /\ Before(r + 1) = Before(r) + Len(w[r])
                             /\ DOMAIN w[r] = 1 .. Len(w[r]) /\ Len(w[r]) \in Nat /\ Len(w[r]) > 0
<1> DEFINE f == [q \in Ranks |-> Len(w[q])]
<1>1. Size \in Nat /\ Size > 0 /\ Ranks = 0 .. Size-1
  BY SizeAssumption DEF Ranks
<1>2. \A r \in Ranks : /\ w[r] \in Seq(Int) /\ w[r] # <<>>
  BY DEF Filled
<1>3. \A s \in Seq(Int) : s # <<>> => DOMAIN s = 1 .. Len(s) /\ Len(s) \in Nat /\ Len(s) > 0
  <2> SUFFICES ASSUME NEW s \in Seq(Int), s # <<>>
               PROVE  DOMAIN s = 1 .. Len(s) /\ Len(s) \in Nat /\ Len(s) > 0
    OBVIOUS
  <2>1. DOMAIN s = 1 .. Len(s) /\ Len(s) \in Nat
    OBVIOUS
  <2>2. Len(s) # 0
    BY EmptySeq
  <2> QED
    BY <2>1, <2>2
<1>4. \A x \in 0 .. Size-1 : f[x] \in Nat /\ f[x] = Len(w[x])
  BY <1>1, <1>2, <1>3
<1>5. \A r \in 0 .. Size : Before(r) = SumUpto(f, r)
  BY DEF Before
<1> HIDE DEF f
<1>6. /\ SumUpto(f, 0) = 0 /\ \A k \in 0 .. Size : SumUpto(f, k) \in Nat
      /\ \A k \in 0 .. Size-1 : SumUpto(f, k+1) = SumUpto(f, k) + f[k]
  BY <1>1, <1>4, SumGrows
<1>7. \A k \in 0 .. Size-1 : k \in Nat /\ k + 1 \in 0 .. Size /\ k \in 0 .. Size
  BY <1>1
<1>8. 0 \in 0 .. Size
  BY <1>1
<1>9. \A k \in 0 .. Size-1 : Before(k + 1) = Before(k) + Len(w[k])
  BY <1>4, <1>5, <1>6, <1>7
<1>10. Before(0) = 0 /\ \A k \in 0 .. Size : Before(k) \in Nat
  BY <1>5, <1>6, <1>8
<1>11. \A r \in Ranks : DOMAIN w[r] = 1 .. Len(w[r]) /\ Len(w[r]) \in Nat /\ Len(w[r]) > 0
  BY <1>2, <1>3
<1> QED
  BY <1>1, <1>7, <1>9, <1>10, <1>11

\* In rank order the entries of the ranks are joined, and nothing else is there.
LEMMA InRankOrderLaid ==
  ASSUME Filled, NEW S, NEW f, \A r \in Ranks : f[r] \in Seq(S) /\ Len(f[r]) = Len(w[r])
  PROVE  InRankOrder(f) \in Seq(S) /\ Laid(f, InRankOrder(f))
<1> DEFINE c == CHOOSE from : from = Appended(Size, f, from)
           offset == [k \in 0 .. Size |-> Before(k)]
<1>1. Size \in Nat /\ Ranks = 0 .. Size-1
  BY RanksBegin DEF Ranks
<1>2. InRankOrder(f) = c[Size-1]
  BY DEF InRankOrder, Appended
<1>3. c = Appended(Size, f, c)
  BY <1>1, AppendedDefined
<1>4. AreOffsets(Size, f, offset)
  <2>1. \A k \in 0 .. Size : offset[k] = Before(k)
    OBVIOUS
  <2>2. 0 \in 0 .. Size /\ \A k \in 0 .. Size-1 : k \in 0 .. Size /\ k + 1 \in 0 .. Size
    BY <1>1
  <2>3. Before(0) = 0 /\ \A k \in 0 .. Size : Before(k) \in Nat
    BY RanksBegin
  <2>4. \A k \in 0 .. Size-1 : Before(k + 1) = Before(k) + Len(f[k])
    BY <1>1, RanksBegin
  <2> HIDE DEF offset
  <2> QED
    BY <2>1, <2>2, <2>3, <2>4 DEF AreOffsets
<1> HIDE DEF c
<1>5. c[Size-1] \in Seq(S) /\ InPlace(Size, f, offset, c[Size-1])
  BY <1>1, <1>3, <1>4, PiecesInPlace
<1>6. offset[Size] = Before(Size) /\ \A r \in Ranks : offset[r] = Before(r)
  BY <1>1
<1> HIDE DEF offset
<1>7. DOMAIN c[Size-1] = 1 .. Before(Size)
  BY <1>5, <1>6 DEF InPlace
<1>8. ASSUME NEW r \in Ranks, NEW i \in DOMAIN w[r] PROVE c[Size-1][Before(r) + i] = f[r][i]
  <2>1. i \in 1 .. Len(f[r])
    BY RanksBegin
  <2> QED
    BY <1>1, <1>5, <1>6, <2>1 DEF InPlace
<1> QED
  BY <1>2, <1>5, <1>7, <1>8 DEF Laid

\* Every place belongs to one entry of one rank.
LEMMA PlacesShared ==
  ASSUME Filled
  PROVE  /\ \A r \in Ranks : \A i \in DOMAIN w[r] :
              /\ Before(r) + i \in 1 .. Before(Size)
              /\ Before(r) + i \in Before(r) + 1 .. Before(r + 1)
         /\ \A k \in 1 .. Before(Size) :
              \E r \in Ranks : \E i \in DOMAIN w[r] : k = Before(r) + i
<1> DEFINE Fine == {n \in Nat : n <= Size =>
                      /\ \A r \in Ranks : r < n => Before(r + 1) <= Before(n)
                      /\ \A k \in 1 .. Before(n) :
                           \E r \in Ranks : \E i \in DOMAIN w[r] : k = Before(r) + i}
<1>1. Size \in Nat /\ Ranks = 0 .. Size-1 /\ Before(0) = 0
  BY RanksBegin DEF Ranks
<1>2. /\ \A r \in 0 .. Size : Before(r) \in Nat
      /\ \A r \in Ranks : /\ r \in Nat /\ r + 1 \in 0 .. Size /\ r \in 0 .. Size
                          /\ Before(r + 1) = Before(r) + Len(w[r])
                          /\ DOMAIN w[r] = 1 .. Len(w[r]) /\ Len(w[r]) \in Nat
  BY <1>1, RanksBegin
<1>3. 0 \in Fine
  <2>1. 1 .. Before(0) = {} /\ \A r \in Ranks : ~(r < 0)
    BY <1>1, <1>2
  <2> QED
    BY <2>1
<1>4. \A n \in Nat : n \in Fine => n + 1 \in Fine
  <2> SUFFICES ASSUME NEW n \in Nat, n \in Fine, n + 1 <= Size
               PROVE  /\ \A r \in Ranks : r < n + 1 => Before(r + 1) <= Before(n + 1)
                      /\ \A k \in 1 .. Before(n + 1) :
                           \E r \in Ranks : \E i \in DOMAIN w[r] : k = Before(r) + i
    OBVIOUS
  <2>1. n \in Ranks /\ n <= Size
    BY <1>1
  <2>2. /\ \A r \in Ranks : r < n => Before(r + 1) <= Before(n)
        /\ \A k \in 1 .. Before(n) : \E r \in Ranks : \E i \in DOMAIN w[r] : k = Before(r) + i
    BY <2>1
  <2>3. /\ Before(n + 1) = Before(n) + Len(w[n]) /\ Before(n) \in Nat /\ Before(n + 1) \in Nat
        /\ Len(w[n]) \in Nat /\ DOMAIN w[n] = 1 .. Len(w[n])
    BY <1>2, <2>1
  <2>4. ASSUME NEW r \in Ranks, r < n + 1 PROVE Before(r + 1) <= Before(n + 1)
    <3>1. Before(r + 1) \in Nat /\ r \in Nat
      BY <1>2
    <3>2. CASE r = n
      BY <2>3, <3>2
    <3>3. CASE r # n
      <4>1. r < n
        BY <2>4, <3>1, <3>3
      <4> QED
        BY <2>2, <2>3, <3>1, <4>1
    <3> QED
      BY <3>2, <3>3
  <2>5. ASSUME NEW k \in 1 .. Before(n + 1)
        PROVE  \E r \in Ranks : \E i \in DOMAIN w[r] : k = Before(r) + i
    <3>1. CASE k <= Before(n)
      <4>1. k \in 1 .. Before(n)
        BY <2>3, <3>1
      <4> QED
        BY <2>2, <4>1
    <3>2. CASE ~(k <= Before(n))
      <4>1. k - Before(n) \in DOMAIN w[n] /\ k = Before(n) + (k - Before(n))
        BY <2>3, <3>2
      <4> QED
        BY <2>1, <4>1
    <3> QED
      BY <3>1, <3>2
  <2> QED
    BY <2>4, <2>5
<1> HIDE DEF Fine
<1>5. \A n \in Nat : n \in Fine
  BY <1>3, <1>4, Induction
<1>6. /\ \A r \in Ranks : r < Size => Before(r + 1) <= Before(Size)
      /\ \A k \in 1 .. Before(Size) :
           \E r \in Ranks : \E i \in DOMAIN w[r] : k = Before(r) + i
  BY <1>1, <1>5 DEF Fine
<1>7. ASSUME NEW r \in Ranks, NEW i \in DOMAIN w[r]
      PROVE  /\ Before(r) + i \in 1 .. Before(Size)
             /\ Before(r) + i \in Before(r) + 1 .. Before(r + 1)
  <2>1. /\ Before(r + 1) <= Before(Size) /\ Before(r + 1) = Before(r) + Len(w[r])
        /\ Before(r) \in Nat /\ Before(r + 1) \in Nat /\ Len(w[r]) \in Nat /\ Before(Size) \in Nat
    BY <1>1, <1>2, <1>6
  <2>2. i \in 1 .. Len(w[r])
    BY <1>2
  <2> HIDE DEF Before
  <2> QED
    BY <2>1, <2>2
<1> QED
  BY <1>6, <1>7

\* A finite set of integers has a smallest and a largest member, and only one of each.
LEMMA Extremes ==
  ASSUME NEW S \in SUBSET Int, IsFiniteSet(S), S # {}
  PROVE  /\ Min(S) \in S /\ \A y \in S : Min(S) <= y
         /\ Max(S) \in S /\ \A y \in S : y <= Max(S)
<1>1. ASSUME NEW T \in SUBSET Int, IsFiniteSet(T), T # {}
      PROVE  \E x \in T : \A y \in T : x <= y
  <2>1. Cardinality(T) \in Nat /\ Cardinality(T) # 0
    BY <1>1, FS_CardinalityType, FS_EmptySet
  <2>2. 1 \in 1 .. Cardinality(T) /\ 1 - 1 = 0
    BY <2>1
  <2>3. PICK x \in T : Rank(T, x) = 0
    BY <1>1, <2>2, RankIsBijective
  <2>4. {y \in T : y < x} = {}
    <3>1. IsFiniteSet({y \in T : y < x})
      BY <1>1, FS_Subset
    <3> QED
      BY <2>3, <3>1, FS_EmptySet DEF Rank
  <2>5. \A y \in T : ~(y < x) /\ y \in Int /\ x \in Int
    BY <2>4
  <2> QED
    BY <2>5
<1>2. PICK x \in S : \A y \in S : x <= y
  BY <1>1
<1>3. \E x1 \in S : \A y \in S : x1 >= y
  <2> DEFINE h == [y \in S |-> -y]
             T == {-y : y \in S}
  <2>1. h \in Surjection(S, T)
    BY DEF Surjection
  <2>2. T \in SUBSET Int /\ T # {}
    OBVIOUS
  <2>3. IsFiniteSet(T)
    <3> HIDE DEF h, T
    <3> QED
      BY <2>1, FS_Surjection
  <2>4. PICK m \in T : \A y \in T : m <= y
    BY <1>1, <2>2, <2>3
  <2>5. PICK z \in S : m = -z
    OBVIOUS
  <2>6. \A y \in S : z >= y
    <3> SUFFICES ASSUME NEW y \in S PROVE z >= y
      OBVIOUS
    <3>1. -z <= -y
      BY <2>4, <2>5
    <3>2. z \in Int /\ y \in Int
      OBVIOUS
    <3> QED
      BY <3>1, <3>2
  <2> QED
    BY <2>6
<1> QED
  BY <1>2, <1>3 DEF Min, Max

LEMMA ExtremeOnce ==
  ASSUME NEW S \in SUBSET Int
  PROVE  /\ \A m \in S : (\A y \in S : m <= y) => Min(S) = m
         /\ \A m \in S : (\A y \in S : y <= m) => Max(S) = m
<1>1. ASSUME NEW m \in S, \A y \in S : m <= y PROVE Min(S) = m
  <2>1. Min(S) \in S /\ \A y \in S : Min(S) <= y
    BY <1>1 DEF Min
  <2>2. Min(S) <= m /\ m <= Min(S) /\ Min(S) \in Int /\ m \in Int
    BY <1>1, <2>1
  <2> QED
    BY <2>2
<1>2. ASSUME NEW m \in S, \A y \in S : y <= m PROVE Max(S) = m
  <2>1. Max(S) \in S /\ \A y \in S : Max(S) >= y
    <3>1. \A y \in S : m >= y
      <4>1. \A y \in S : y <= m /\ y \in Int /\ m \in Int
        BY <1>2
      <4> QED
        BY <4>1
    <3> QED
      BY <3>1 DEF Max
  <2>2. Max(S) >= m /\ m >= Max(S) /\ Max(S) \in Int /\ m \in Int
    BY <1>2, <2>1
  <2> QED
    BY <2>2
<1> QED
  BY <1>1, <1>2

\* A list has finitely many entries.
LEMMA EntriesFinite ==
  ASSUME Filled
  PROVE  /\ \A r \in Ranks : w[r] \in Seq(Int) /\ IsFiniteSet({w[r][i] : i \in DOMAIN w[r]})
                             /\ {w[r][i] : i \in DOMAIN w[r]} # {}
         /\ AllW \in Seq(Int) /\ Laid(w, AllW)
<1>1. \A r \in Ranks : w[r] \in Seq(Int) /\ Len(w[r]) = Len(w[r])
  BY DEF Filled
<1>2. AllW \in Seq(Int) /\ Laid(w, AllW)
  BY <1>1, InRankOrderLaid DEF AllW
<1>3. ASSUME NEW r \in Ranks
      PROVE  IsFiniteSet({w[r][i] : i \in DOMAIN w[r]}) /\ {w[r][i] : i \in DOMAIN w[r]} # {}
  <2> DEFINE D == DOMAIN w[r]
             V == {w[r][i] : i \in D}
             h == [i \in D |-> w[r][i]]
  <2>1. D = 1 .. Len(w[r]) /\ Len(w[r]) \in Nat /\ Len(w[r]) > 0
    BY RanksBegin
  <2>2. IsFiniteSet(D) /\ 1 \in D
    BY <2>1, FS_Interval
  <2>3. h \in Surjection(D, V)
    BY DEF Surjection
  <2>4. V # {}
    BY <2>2
  <2> HIDE DEF D, V, h
  <2>5. IsFiniteSet(V)
    BY <2>2, <2>3, FS_Surjection
  <2> QED
    BY <2>4, <2>5 DEF V, D
<1> QED
  BY <1>1, <1>2, <1>3

\* The range of the w terms of all ranks, from those of the ranks.
LEMMA RangeOfAll ==
  ASSUME Filled
  PROVE  /\ Lowest(AllW) = Min({Lowest(w[q]) : q \in Ranks})
         /\ Highest(AllW) = Max({Highest(w[q]) : q \in Ranks})
<1> DEFINE V(r) == {w[r][i] : i \in DOMAIN w[r]}
           A == {AllW[k] : k \in DOMAIN AllW}
           L == {Lowest(w[q]) : q \in Ranks}
           H == {Highest(w[q]) : q \in Ranks}
<1>1. \A r \in Ranks : V(r) \in SUBSET Int /\ IsFiniteSet(V(r)) /\ V(r) # {}
  <2> SUFFICES ASSUME NEW r \in Ranks
               PROVE  V(r) \in SUBSET Int /\ IsFiniteSet(V(r)) /\ V(r) # {}
    OBVIOUS
  <2>1. IsFiniteSet(V(r)) /\ V(r) # {}
    BY EntriesFinite
  <2>2. w[r] \in Seq(Int)
    BY EntriesFinite
  <2>3. \A i \in DOMAIN w[r] : w[r][i] \in Int
    BY <2>2
  <2> QED
    BY <2>1, <2>3
<1>2. /\ \A r \in Ranks : V(r) \in SUBSET A
      /\ \A x \in A : \E r \in Ranks : x \in V(r)
  <2>1. Laid(w, AllW) /\ DOMAIN AllW = 1 .. Before(Size)
    BY EntriesFinite DEF Laid
  <2>2. ASSUME NEW r \in Ranks, NEW i \in DOMAIN w[r] PROVE w[r][i] \in A
    <3>1. Before(r) + i \in DOMAIN AllW /\ AllW[Before(r) + i] = w[r][i]
      BY <2>1, PlacesShared DEF Laid
    <3> QED
      BY <3>1
  <2>3. ASSUME NEW k \in DOMAIN AllW PROVE \E r \in Ranks : AllW[k] \in V(r)
    <3>1. PICK r \in Ranks : \E i \in DOMAIN w[r] : k = Before(r) + i
      BY <2>1, PlacesShared
    <3>2. PICK i \in DOMAIN w[r] : k = Before(r) + i
      BY <3>1
    <3>3. AllW[k] = w[r][i]
      BY <2>1, <3>2 DEF Laid
    <3> QED
      BY <3>3
  <2> QED
    BY <2>2, <2>3
<1>3. \A r \in Ranks : /\ Lowest(w[r]) \in V(r) /\ \A y \in V(r) : Lowest(w[r]) <= y
                       /\ Highest(w[r]) \in V(r) /\ \A y \in V(r) : y <= Highest(w[r])
  <2> SUFFICES ASSUME NEW r \in Ranks
               PROVE  /\ Lowest(w[r]) \in V(r) /\ \A y \in V(r) : Lowest(w[r]) <= y
                      /\ Highest(w[r]) \in V(r) /\ \A y \in V(r) : y <= Highest(w[r])
    OBVIOUS
  <2>1. Lowest(w[r]) = Min(V(r)) /\ Highest(w[r]) = Max(V(r))
    BY DEF Lowest, Highest
  <2> HIDE DEF V
  <2> QED
    BY <1>1, <2>1, Extremes
<1>4. /\ A \in SUBSET Int
      /\ \A r \in Ranks : Lowest(w[r]) \in Int /\ Highest(w[r]) \in Int
  BY <1>1, <1>2, <1>3
<1>5. Lowest(AllW) = Min(A) /\ Highest(AllW) = Max(A)
  BY DEF Lowest, Highest
<1>6. IsFiniteSet(Ranks) /\ 0 \in Ranks
  <2>1. 0 \in Int /\ Size-1 \in Int /\ 0 \in 0 .. Size-1
    BY RanksBegin
  <2> QED
    BY <2>1, FS_Interval DEF Ranks
<1>7. IsFiniteSet(L) /\ L # {} /\ L \in SUBSET Int
  <2> DEFINE h == [q \in Ranks |-> Lowest(w[q])]
  <2>1. h \in Surjection(Ranks, L)
    BY DEF Surjection
  <2> HIDE DEF h
  <2>2. IsFiniteSet(L)
    BY <1>6, <2>1, FS_Surjection
  <2> QED
    BY <1>4, <1>6, <2>2
<1>8. IsFiniteSet(H) /\ H # {} /\ H \in SUBSET Int
  <2> DEFINE h == [q \in Ranks |-> Highest(w[q])]
  <2>1. h \in Surjection(Ranks, H)
    BY DEF Surjection
  <2> HIDE DEF h
  <2>2. IsFiniteSet(H)
    BY <1>6, <2>1, FS_Surjection
  <2> QED
    BY <1>4, <1>6, <2>2
<1>9. \A q \in Ranks : Lowest(w[q]) \in L /\ Highest(w[q]) \in H
  OBVIOUS
<1>10. /\ \A x \in L : \E q \in Ranks : x = Lowest(w[q])
       /\ \A x \in H : \E q \in Ranks : x = Highest(w[q])
  OBVIOUS
<1> HIDE DEF A, L, H, V
<1>11. /\ Min(L) \in L /\ \A y \in L : Min(L) <= y
       /\ Max(H) \in H /\ \A y \in H : y <= Max(H)
  BY <1>7, <1>8, Extremes
<1>12. Min(L) \in A /\ \A y \in A : Min(L) <= y
  <2>1. Min(L) \in A
    BY <1>2, <1>3, <1>10, <1>11
  <2>2. ASSUME NEW y \in A PROVE Min(L) <= y
    <3>1. PICK r \in Ranks : y \in V(r)
      BY <1>2
    <3>2. Min(L) <= Lowest(w[r]) /\ Lowest(w[r]) <= y
      BY <1>3, <1>9, <1>11, <3>1
    <3>3. Min(L) \in Int /\ Lowest(w[r]) \in Int /\ y \in Int
      BY <1>4, <2>1
    <3> QED
      BY <3>2, <3>3
  <2> QED
    BY <2>1, <2>2
<1>13. Max(H) \in A /\ \A y \in A : y <= Max(H)
  <2>1. Max(H) \in A
    BY <1>2, <1>3, <1>10, <1>11
  <2>2. ASSUME NEW y \in A PROVE y <= Max(H)
    <3>1. PICK r \in Ranks : y \in V(r)
      BY <1>2
    <3>2. Highest(w[r]) <= Max(H) /\ y <= Highest(w[r])
      BY <1>3, <1>9, <1>11, <3>1
    <3>3. Max(H) \in Int /\ Highest(w[r]) \in Int /\ y \in Int
      BY <1>4, <2>1
    <3> QED
      BY <3>2, <3>3
  <2> QED
    BY <2>1, <2>2
<1>14. Min(A) = Min(L) /\ Max(A) = Max(H)
  BY <1>4, <1>12, <1>13, ExtremeOnce
<1> QED
  BY <1>5, <1>14 DEF L, H

\* The sum over the members of a cluster is that of the sums of the ranks.
LEMMA ClusterSums ==
  ASSUME Filled, NEW g, NEW x, Laid(g, x), NEW own, NEW labels, Laid(own, labels), NEW j,
         \A r \in Ranks : DOMAIN own[r] = DOMAIN w[r] /\ \A i \in DOMAIN w[r] : g[r][i] \in Int
  PROVE  SumFunctionOnSet(x, Members(labels, j))
           = SumFunctionOnSet([q \in Ranks |-> SumFunctionOnSet(g[q], Members(own[q], j))], Ranks)
<1> DEFINE M == Members(labels, j)
           h == [q \in Ranks |-> SumFunctionOnSet(g[q], Members(own[q], j))]
           T(n) == {k \in M : k <= Before(n)}
           Upto(n) == SumFunctionOnSet(x, T(n)) = SumFunctionOnSet(h, 0 .. n-1)
           Fine == {n \in Nat : n <= Size => Upto(n)}
<1>1. Size \in Nat /\ Ranks = 0 .. Size-1 /\ Before(0) = 0
  BY RanksBegin DEF Ranks
<1>2. /\ \A r \in 0 .. Size : Before(r) \in Nat
      /\ \A r \in Ranks : /\ r \in Nat /\ r + 1 \in 0 .. Size /\ r \in 0 .. Size
                          /\ Before(r + 1) = Before(r) + Len(w[r])
                          /\ DOMAIN w[r] = 1 .. Len(w[r]) /\ Len(w[r]) \in Nat
  BY <1>1, RanksBegin
<1>3. M \in SUBSET (1 .. Before(Size)) /\ \A k \in 1 .. Before(Size) : k \in M <=> labels[k] = j
  BY DEF Laid, Members
<1>4. Before(Size) \in Nat
  BY <1>1, <1>2
<1>5. \A k \in M : x[k] \in Int
  <2> SUFFICES ASSUME NEW k \in M PROVE x[k] \in Int
    OBVIOUS
  <2>1. k \in 1 .. Before(Size)
    BY <1>3
  <2>2. PICK r \in Ranks : \E i \in DOMAIN w[r] : k = Before(r) + i
    BY <2>1, PlacesShared
  <2>3. PICK i \in DOMAIN w[r] : k = Before(r) + i
    BY <2>2
  <2>4. x[k] = g[r][i]
    BY <2>3 DEF Laid
  <2> QED
    BY <2>4
<1>6. \A n \in 0 .. Size : IsFiniteSet(T(n)) /\ T(n) \in SUBSET M
  <2>1. IsFiniteSet(1 .. Before(Size))
    BY <1>4, FS_Interval
  <2>2. IsFiniteSet(M)
    BY <1>3, <2>1, FS_Subset
  <2> QED
    BY <2>2, FS_Subset
<1>7. \A r \in Ranks : /\ IsFiniteSet(Members(own[r], j)) /\ Members(own[r], j) \in SUBSET DOMAIN w[r]
                       /\ \A i \in DOMAIN w[r] : i \in Members(own[r], j) <=> own[r][i] = j
  <2> SUFFICES ASSUME NEW r \in Ranks
               PROVE  /\ IsFiniteSet(Members(own[r], j)) /\ Members(own[r], j) \in SUBSET DOMAIN w[r]
                      /\ \A i \in DOMAIN w[r] : i \in Members(own[r], j) <=> own[r][i] = j
    OBVIOUS
  <2>1. Members(own[r], j) = {i \in DOMAIN w[r] : own[r][i] = j}
    BY DEF Members
  <2>2. IsFiniteSet(DOMAIN w[r])
    <3>1. DOMAIN w[r] = 1 .. Len(w[r]) /\ 1 \in Int /\ Len(w[r]) \in Int
      BY <1>2
    <3> QED
      BY <3>1, FS_Interval
  <2> QED
    BY <2>1, <2>2, FS_Subset
<1>8. \A r \in Ranks : h[r] = SumFunctionOnSet(g[r], Members(own[r], j)) /\ h[r] \in Int
  <2> SUFFICES ASSUME NEW r \in Ranks PROVE SumFunctionOnSet(g[r], Members(own[r], j)) \in Int
    OBVIOUS
  <2> DEFINE f == g[r]
             S == Members(own[r], j)
  <2>1. IsFiniteSet(S) /\ \A i \in S : f[i] \in Int
    BY <1>7
  <2> HIDE DEF f, S
  <2>2. SumFunctionOnSet(f, S) \in Int
    BY <2>1, SumIsInteger
  <2> QED
    BY <2>2 DEF f, S
<1> HIDE DEF h, M
<1>9. 0 \in Fine
  <2>1. T(0) = {}
    <3>1. \A k \in M : k \in Int /\ 1 <= k
      BY <1>3, <1>4
    <3>2. \A k \in M : ~(k <= Before(0))
      BY <1>1, <3>1
    <3> QED
      BY <3>2
  <2>2. 0 .. 0-1 = {}
    OBVIOUS
  <2> QED
    BY <2>1, <2>2, SumOfNone
<1>10. \A n \in Nat : n \in Fine => n + 1 \in Fine
  <2> SUFFICES ASSUME NEW n \in Nat, n \in Fine, n + 1 <= Size
               PROVE  Upto(n + 1)
    <3> HIDE DEF Upto
    <3> QED
      OBVIOUS
  <2>1. n \in Ranks /\ n <= Size /\ n \in 0 .. Size /\ n + 1 \in 0 .. Size
    BY <1>1
  <2>2. SumFunctionOnSet(x, T(n)) = SumFunctionOnSet(h, 0 .. n-1)
    BY <2>1
  <2> DEFINE S == T(n)
             N == {k \in M : Before(n) < k /\ k <= Before(n + 1)}
             O == Members(own[n], j)
             f == g[n]
             p == [i \in O |-> Before(n) + i]
  <2>3. /\ Before(n) \in Nat /\ Before(n + 1) \in Nat /\ Len(w[n]) \in Nat
        /\ Before(n + 1) = Before(n) + Len(w[n]) /\ DOMAIN w[n] = 1 .. Len(w[n])
    BY <1>2, <2>1
  <2>4. /\ \A i \in DOMAIN w[n] : /\ Before(n) + i \in 1 .. Before(Size)
                                  /\ labels[Before(n) + i] = own[n][i]
                                  /\ x[Before(n) + i] = f[i]
    BY <2>1, PlacesShared DEF Laid
  <2>5. /\ p \in [O -> N] /\ \A i \in O : f[i] = x[p[i]] /\ f[i] \in Int
    <3> SUFFICES ASSUME NEW i \in O
                 PROVE  Before(n) + i \in N /\ f[i] = x[Before(n) + i] /\ f[i] \in Int
      OBVIOUS
    <3>1. i \in DOMAIN w[n] /\ own[n][i] = j
      BY <1>7, <2>1
    <3>2. Before(n) + i \in M
      BY <1>3, <2>4, <3>1
    <3>3. Before(n) < Before(n) + i /\ Before(n) + i <= Before(n + 1)
      BY <2>3, <3>1
    <3> QED
      BY <2>1, <2>4, <3>1, <3>2, <3>3
  <2>6. \A i, k \in O : p[i] = p[k] => i = k
    <3> SUFFICES ASSUME NEW i \in O, NEW k \in O, Before(n) + i = Before(n) + k PROVE i = k
      OBVIOUS
    <3>1. i \in 1 .. Len(w[n]) /\ k \in 1 .. Len(w[n])
      BY <1>7, <2>1, <2>3
    <3> QED
      BY <2>3, <3>1
  <2>7. \A k \in N : \E i \in O : p[i] = k
    <3> SUFFICES ASSUME NEW k \in N PROVE \E i \in O : Before(n) + i = k
      OBVIOUS
    <3>1. k \in 1 .. Before(Size) /\ labels[k] = j
      BY <1>3
    <3>2. k - Before(n) \in DOMAIN w[n] /\ Before(n) + (k - Before(n)) = k
      BY <1>4, <2>3, <3>1
    <3>3. own[n][k - Before(n)] = j
      BY <2>4, <3>1, <3>2
    <3>4. k - Before(n) \in O
      BY <1>7, <2>1, <3>2, <3>3
    <3> QED
      BY <3>2, <3>4
  <2>8. T(n + 1) = S \cup N /\ S \cap N = {}
    <3>1. \A k \in M : k \in Int
      BY <1>3
    <3> QED
      BY <2>3, <3>1
  <2>9. IsFiniteSet(O)
    BY <1>7, <2>1
  <2>10. IsFiniteSet(S) /\ IsFiniteSet(N) /\ \A k \in S \cup N : x[k] \in Int
    <3>1. IsFiniteSet(T(n + 1)) /\ IsFiniteSet(T(n)) /\ N \in SUBSET T(n + 1)
      BY <1>6, <2>1, <2>8
    <3>2. IsFiniteSet(N)
      BY <3>1, FS_Subset
    <3> QED
      BY <1>5, <3>1, <3>2
  <2>11. h[n] = SumFunctionOnSet(f, O) /\ h[n] \in Int
    BY <1>8, <2>1
  <2> HIDE DEF S, N, O, f, p
  <2>12. SumFunctionOnSet(x, N) = SumFunctionOnSet(f, O)
    BY ONLY <2>5, <2>6, <2>7, <2>9, SumMoved
  <2>13. SumFunctionOnSet(x, S \cup N) = SumFunctionOnSet(x, S) + SumFunctionOnSet(x, N)
    BY ONLY <2>8, <2>10, SumsAdd
  <2>14. SumFunctionOnSet(h, 0 .. n) = h[n] + SumFunctionOnSet(h, 0 .. n-1)
    <3> DEFINE R == 0 .. n
    <3>1. R \ {n} = 0 .. n-1 /\ n \in R /\ \A r \in R : r \in Ranks
      BY <1>1, <2>1
    <3>2. IsFiniteSet(R) /\ \A r \in R : h[r] \in Int
      BY <1>8, <3>1, FS_Interval
    <3> HIDE DEF R
    <3>3. SumFunctionOnSet(h, R) = h[n] + SumFunctionOnSet(h, R \ {n})
      BY <3>1, <3>2, SumFirst
    <3> QED
      BY <3>1, <3>3 DEF R
  <2>15. SumFunctionOnSet(x, S) \in Int
    BY <2>10, SumIsInteger
  <2>16. (n + 1) - 1 = n
    OBVIOUS
  <2>17. SumFunctionOnSet(x, S \cup N) = SumFunctionOnSet(h, 0 .. n)
    <3>1. SumFunctionOnSet(x, S) = SumFunctionOnSet(h, 0 .. n-1)
      BY <2>2 DEF S
    <3> QED
      BY <2>11, <2>12, <2>13, <2>14, <2>15, <3>1
  <2> QED
    BY <2>8, <2>16, <2>17
<1> HIDE DEF Fine
<1>11. \A n \in Nat : n \in Fine
  BY <1>9, <1>10, Induction
<1>12. SumFunctionOnSet(x, T(Size)) = SumFunctionOnSet(h, Ranks)
  BY <1>1, <1>11 DEF Fine
<1>13. T(Size) = M
  <2>1. \A k \in M : k <= Before(Size)
    BY <1>3, <1>4
  <2> QED
    BY <2>1
<1> QED
  BY <1>12, <1>13 DEF M, h

(***************************************************************************)
(* What a rank holds, in terms of the serial run on the w terms of all.    *)
(***************************************************************************)

\* What the serial overload holds after at most m iterations.
Serial(m) == SerialAfter(AllW)[m]

\* The part of rank r in a list of all visibilities.
PartOf(s, r) == [i \in DOMAIN w[r] |-> s[Before(r) + i]]

\* The range of w: the own one, then the smallest of all, then the largest too.
RangeKnown(r) ==
  /\ wmin[r] = (IF pc[r] = "min" THEN Lowest(w[r]) ELSE Lowest(AllW))
  /\ wmax[r] = (IF pc[r] \in {"min", "max"} THEN Highest(w[r]) ELSE Highest(AllW))

\* Before the centres are spread.
Beginning(r) ==
  pc[r] \in {"min", "max"} =>
    /\ iter[r] = 0 /\ node[r] = 0 /\ diff[r] = <<1, 1>>
    /\ w_node[r] = [i \in DOMAIN w[r] |-> 0]
    /\ w_sum[r] = Zeros /\ w_count[r] = Zeros

\* Between two iterations: labels and centres of the serial run, which goes on.
Between(r) ==
  pc[r] = "label" =>
    /\ w_node[r] = PartOf(Serial(iter[r]).w_node, r)
    /\ w_centre[r] = Serial(iter[r]).w_centre
    /\ w_sum[r] = Zeros /\ w_count[r] = Zeros
    /\ diff[r] = FirstDiff(iter[r] + 1)
    /\ ~ Serial(iter[r]).converged

\* In an iteration: the labels of the serial run's next state, its centres below the
\* cluster the loop is at, and the sums of the clusters that are left.
InIteration(r) ==
  LET old == Serial(iter[r])
      new == Serial(iter[r] + 1)
  IN  pc[r] \in {"sum", "count", "update"} =>
        /\ iter[r] < Iters /\ ~ old.converged
        /\ w_node[r] = PartOf(new.w_node, r)
        /\ w_centre[r] = [k \in Nodes |-> IF k < node[r] THEN new.w_centre[k] ELSE old.w_centre[k]]
        /\ w_sum[r] = [k \in Nodes |-> IF k < node[r] THEN 0 ELSE SumOf(w[r], w_node[r], k)]
        /\ w_count[r] = [k \in Nodes |-> IF k < node[r] THEN 0 ELSE CountOf(w_node[r], k)]
        /\ diff[r] = Changes(old.w_centre, new.w_centre, FirstDiff(iter[r] + 1))[node[r] - 1]

\* What the collectives of an iteration returned.
TotalsKnown(r) ==
  LET labels == Serial(iter[r] + 1).w_node
  IN  /\ pc[r] \in {"count", "update"} => total[r][1] = SumOf(AllW, labels, node[r])
      /\ pc[r] = "update" => total[r][2] = CountOf(labels, node[r])

\* At the end.
Done(r) ==
  pc[r] = "returned" =>
    /\ w_node[r] = PartOf(Serial(Iters).w_node, r)
    /\ w_centre[r] = Serial(Iters).w_centre

\* The iteration and the cluster of the next collective of rank r.
NextCall(r) ==
  IF pc[r] = "update" /\ node[r] < Centres-1 THEN <<iter[r], node[r] + 1>>
  ELSE IF pc[r] = "update" \/ (pc[r] = "returned" /\ iter[r] # Iters) THEN <<iter[r] + 1, 0>>
  ELSE IF pc[r] \in {"sum", "count"} THEN <<iter[r], node[r]>>
  ELSE <<iter[r], 0>>

\* The functions of the ranks have the ranks as domain.
Shaped ==
  /\ DOMAIN wmin = Ranks /\ DOMAIN wmax = Ranks /\ DOMAIN w_node = Ranks /\ DOMAIN w_centre = Ranks
  /\ DOMAIN w_sum = Ranks /\ DOMAIN w_count = Ranks /\ DOMAIN total = Ranks
  /\ DOMAIN diff = Ranks
  /\ iter \in [Ranks -> 0 .. Iters] /\ node \in [Ranks -> Nodes]
  /\ pc \in [Ranks -> {"min", "max", "label", "sum", "count", "update", "returned", "ended"}]

\* Rank r follows the serial run.
Follows(r) ==
  RangeKnown(r) /\ Beginning(r) /\ Between(r) /\ InIteration(r) /\ TotalsKnown(r) /\ Done(r)

\* The inductive invariant: if all the ranks have data, they follow the serial run and
\* are at the same call.
FollowInv ==
  /\ w \in [Ranks -> Seq(Int)]
  /\ Filled => /\ Shaped
               /\ \A r \in Ranks : Follows(r)
               /\ \A q, r \in Ranks : NextCall(q) = NextCall(r)

\* The recursion of Changes has a solution.
LEMMA ChangesDefined ==
  ASSUME NEW old, NEW new, NEW start
  PROVE  /\ Changes(old, new, start)[-1] = start
         /\ \A j \in Nodes : Changes(old, new, start)[j] =
                               Plus(Changes(old, new, start)[j-1], RelativeChange(new[j], old[j]))
<1> DEFINE More(x, j) == Plus(x, RelativeChange(new[j], old[j]))
           Upto(c, k) == [j \in -1 .. k-1 |-> IF j = -1 THEN start ELSE More(c[j-1], j)]
           Solved == {k \in Nat : \E c : c = Upto(c, k)}
           C == Changes(old, new, start)
<1>1. C = CHOOSE c : c = Upto(c, Centres)
  BY DEF Changes
<1>2. Centres \in Nat /\ -1 \in -1 .. Centres-1
      /\ \A j \in Nodes : j \in -1 .. Centres-1 /\ j # -1
  BY CentresAssumption DEF Nodes
<1> HIDE DEF C, More
<1>3. 0 \in Solved
  <2> DEFINE c == [j \in -1 .. 0-1 |-> start]
  <2>1. c = Upto(c, 0)
    OBVIOUS
  <2> QED
    BY <2>1
<1>4. \A k \in Nat : k \in Solved => k + 1 \in Solved
  <2> SUFFICES ASSUME NEW k \in Nat, k \in Solved PROVE k + 1 \in Solved
    OBVIOUS
  <2>1. PICK c : c = Upto(c, k)
    OBVIOUS
  <2> DEFINE d == Upto(c, k + 1)
  <2>2. \A j \in -1 .. k-1 : c[j] = d[j]
    <3>1. \A j \in -1 .. k-1 : c[j] = IF j = -1 THEN start ELSE More(c[j-1], j)
      BY <2>1
    <3> QED
      BY <3>1
  <2>3. Upto(d, k + 1) = Upto(c, k + 1)
    <3> HIDE DEF d
    <3>1. \A j \in -1 .. k : j # -1 => d[j-1] = c[j-1]
      BY <2>2
    <3> QED
      BY <3>1
  <2>4. d = Upto(d, k + 1)
    BY <2>3
  <2> HIDE DEF d
  <2> QED
    BY <2>4
<1>5. Centres \in Solved
  <2> HIDE DEF Solved
  <2> QED
    BY <1>2, <1>3, <1>4, Induction
<1>6. C = Upto(C, Centres)
  <2> HIDE DEF Upto
  <2> QED
    BY <1>1, <1>5
<1>7. \A j \in -1 .. Centres-1 : C[j] = IF j = -1 THEN start ELSE More(C[j-1], j)
  BY <1>6
<1> QED
  BY <1>2, <1>7 DEF C, More

\* That of the serial run has a solution.
LEMMA SerialDefined ==
  ASSUME NEW x
  PROVE  /\ SerialAfter(x)[0] = [w_node |-> [i \in DOMAIN x |-> 0],
                                 w_centre |-> FirstCentres(Lowest(x), Highest(x)),
                                 converged |-> FALSE]
         /\ \A n \in 1 .. Iters :
              SerialAfter(x)[n] = IF SerialAfter(x)[n-1].converged THEN SerialAfter(x)[n-1]
                                  ELSE SerialStep(x, SerialAfter(x)[n-1], n)
<1> DEFINE Start == [w_node |-> [i \in DOMAIN x |-> 0],
                     w_centre |-> FirstCentres(Lowest(x), Highest(x)), converged |-> FALSE]
           More(b, n) == IF b.converged THEN b ELSE SerialStep(x, b, n)
           Upto(c, k) == [n \in 0 .. k |-> IF n = 0 THEN Start ELSE More(c[n-1], n)]
           Solved == {k \in Nat : \E c : c = Upto(c, k)}
           C == SerialAfter(x)
<1>1. C = CHOOSE c : c = Upto(c, Iters)
  BY DEF SerialAfter
<1>2. Iters \in Nat /\ 0 \in 0 .. Iters /\ \A n \in 1 .. Iters : n \in 0 .. Iters /\ n # 0
  BY ItersAssumption
<1> HIDE DEF C, More, Start
<1>3. 0 \in Solved
  <2> DEFINE c == [n \in 0 .. 0 |-> Start]
  <2>1. c = Upto(c, 0)
    OBVIOUS
  <2> QED
    BY <2>1
<1>4. \A k \in Nat : k \in Solved => k + 1 \in Solved
  <2> SUFFICES ASSUME NEW k \in Nat, k \in Solved PROVE k + 1 \in Solved
    OBVIOUS
  <2>1. PICK c : c = Upto(c, k)
    OBVIOUS
  <2> DEFINE d == Upto(c, k + 1)
  <2>2. \A n \in 0 .. k : c[n] = d[n]
    <3>1. \A n \in 0 .. k : c[n] = IF n = 0 THEN Start ELSE More(c[n-1], n)
      BY <2>1
    <3> QED
      BY <3>1
  <2>3. Upto(d, k + 1) = Upto(c, k + 1)
    <3> HIDE DEF d
    <3>1. \A n \in 0 .. k + 1 : n # 0 => d[n-1] = c[n-1]
      BY <2>2
    <3> QED
      BY <3>1
  <2>4. d = Upto(d, k + 1)
    BY <2>3
  <2> HIDE DEF d
  <2> QED
    BY <2>4
<1>5. Iters \in Solved
  <2> HIDE DEF Solved
  <2> QED
    BY <1>2, <1>3, <1>4, Induction
<1>6. C = Upto(C, Iters)
  <2> HIDE DEF Upto
  <2> QED
    BY <1>1, <1>5
<1>7. \A n \in 0 .. Iters : C[n] = IF n = 0 THEN Start ELSE More(C[n-1], n)
  BY <1>6
<1> QED
  BY <1>2, <1>7 DEF C, More, Start

\* The serial run, step by step.
LEMMA SerialSteps ==
  /\ Serial(0) = [w_node |-> [i \in DOMAIN AllW |-> 0],
                  w_centre |-> FirstCentres(Lowest(AllW), Highest(AllW)), converged |-> FALSE]
  /\ \A m \in 0 .. Iters-1 :
       Serial(m + 1) = IF Serial(m).converged THEN Serial(m) ELSE SerialStep(AllW, Serial(m), m + 1)
<1>1. \A m \in 0 .. Iters-1 : m + 1 \in 1 .. Iters /\ (m + 1) - 1 = m
  BY ItersAssumption
<1> QED
  BY <1>1, SerialDefined DEF Serial

\* One that has converged stays what it is.
LEMMA ConvergedStays ==
  ASSUME NEW m \in 0 .. Iters, Serial(m).converged
  PROVE  Serial(Iters) = Serial(m)
<1> DEFINE Fine == {k \in Nat : m + k <= Iters => Serial(m + k) = Serial(m)}
<1>1. m \in Nat /\ Iters \in Nat /\ m <= Iters
  BY ItersAssumption
<1>2. 0 \in Fine
  BY <1>1
<1>3. \A k \in Nat : k \in Fine => k + 1 \in Fine
  <2> SUFFICES ASSUME NEW k \in Nat, k \in Fine, m + (k + 1) <= Iters
               PROVE  Serial(m + (k + 1)) = Serial(m)
    OBVIOUS
  <2>1. m + k \in 0 .. Iters-1 /\ m + (k + 1) = (m + k) + 1 /\ m + k <= Iters
    BY <1>1
  <2>2. Serial(m + k) = Serial(m)
    BY <2>1
  <2>3. Serial((m + k) + 1) = Serial(m + k)
    BY <2>1, <2>2, SerialSteps
  <2> QED
    BY <2>1, <2>2, <2>3
<1> HIDE DEF Fine
<1>4. Iters - m \in Fine /\ m + (Iters - m) = Iters
  <2>1. Iters - m \in Nat
    BY <1>1
  <2> QED
    BY <1>1, <1>2, <1>3, <2>1, Induction
<1> QED
  BY <1>1, <1>4 DEF Fine

\* The parts of a list of all visibilities are laid out in rank order.
LEMMA PartsLaid ==
  ASSUME Filled, NEW s, DOMAIN s = DOMAIN AllW, NEW own,
         \A r \in Ranks : own[r] = PartOf(s, r)
  PROVE  Laid(own, s)
<1>1. DOMAIN s = 1 .. Before(Size)
  <2>1. Laid(w, AllW)
    BY EntriesFinite
  <2> QED
    BY <2>1 DEF Laid
<1>2. ASSUME NEW r \in Ranks, NEW i \in DOMAIN w[r] PROVE own[r][i] = s[Before(r) + i]
  <2>1. own[r] = PartOf(s, r)
    OBVIOUS
  <2>2. PartOf(s, r)[i] = s[Before(r) + i]
    BY DEF PartOf
  <2> QED
    BY <2>1, <2>2
<1> QED
  BY ONLY <1>1, <1>2, Zenon DEF Laid

\* The collectives of the sums and counts return those of all visibilities.
LEMMA TotalsAgree ==
  ASSUME Filled, NEW s, DOMAIN s = DOMAIN AllW, NEW own,
         \A r \in Ranks : own[r] = PartOf(s, r), NEW j
  PROVE  /\ SumFunction([q \in Ranks |-> SumOf(w[q], own[q], j)]) = SumOf(AllW, s, j)
         /\ SumFunction([q \in Ranks |-> CountOf(own[q], j)]) = CountOf(s, j)
<1>1. Laid(own, s) /\ Laid(w, AllW)
  BY PartsLaid, EntriesFinite
<1>2. \A r \in Ranks : DOMAIN own[r] = DOMAIN w[r]
  BY DEF PartOf
<1>3. \A r \in Ranks : \A i \in DOMAIN w[r] : w[r][i] \in Int
  <2> SUFFICES ASSUME NEW r \in Ranks PROVE \A i \in DOMAIN w[r] : w[r][i] \in Int
    OBVIOUS
  <2>1. w[r] \in Seq(Int)
    BY DEF Filled
  <2> QED
    BY <2>1
<1>4. SumFunction([q \in Ranks |-> SumOf(w[q], own[q], j)]) = SumOf(AllW, s, j)
  <2>1. SumFunctionOnSet(AllW, Members(s, j))
          = SumFunctionOnSet([q \in Ranks |-> SumFunctionOnSet(w[q], Members(own[q], j))], Ranks)
    BY <1>1, <1>2, <1>3, ClusterSums
  <2> QED
    BY <2>1 DEF SumOf, SumFunction
<1> DEFINE one == [q \in Ranks |-> [i \in DOMAIN w[q] |-> 1]]
           ones == [k \in DOMAIN AllW |-> 1]
<1>5. Laid(one, ones)
  BY <1>1, PlacesShared DEF Laid
<1>6. \A r \in Ranks : \A i \in DOMAIN w[r] : one[r][i] = 1
  OBVIOUS
<1>7. SumFunctionOnSet(ones, Members(s, j))
        = SumFunctionOnSet([q \in Ranks |-> SumFunctionOnSet(one[q], Members(own[q], j))], Ranks)
  <2> HIDE DEF one, ones
  <2>1. \A r \in Ranks : \A i \in DOMAIN w[r] : one[r][i] \in Int
    BY <1>6
  <2> QED
    BY <1>1, <1>2, <1>5, <2>1, ClusterSums
<1>8. SumFunctionOnSet(ones, Members(s, j)) = CountOf(s, j)
  <2> DEFINE M == Members(s, j)
  <2>1. M \in SUBSET DOMAIN AllW
    BY DEF Members
  <2>2. IsFiniteSet(M)
    <3>1. DOMAIN AllW = 1 .. Before(Size) /\ 1 \in Int /\ Before(Size) \in Int
      BY <1>1, RanksBegin DEF Laid
    <3> QED
      BY <2>1, <3>1, FS_Interval, FS_Subset
  <2>3. \A k \in M : ones[k] = 1
    BY <2>1
  <2> HIDE DEF M, ones
  <2>4. SumFunctionOnSet(ones, M) = Cardinality(M)
    BY <2>2, <2>3, SumOfOnes
  <2> QED
    BY <2>4 DEF M, CountOf
<1>9. \A q \in Ranks : SumFunctionOnSet(one[q], Members(own[q], j)) = CountOf(own[q], j)
  <2> SUFFICES ASSUME NEW q \in Ranks
               PROVE  SumFunctionOnSet(one[q], Members(own[q], j)) = CountOf(own[q], j)
    OBVIOUS
  <2> DEFINE M == Members(own[q], j)
             f == one[q]
  <2>1. M \in SUBSET DOMAIN w[q]
    BY <1>2 DEF Members
  <2>2. IsFiniteSet(M)
    <3>1. DOMAIN w[q] = 1 .. Len(w[q]) /\ 1 \in Int /\ Len(w[q]) \in Int
      BY RanksBegin
    <3> QED
      BY <2>1, <3>1, FS_Interval, FS_Subset
  <2>3. \A k \in M : f[k] = 1
    BY <1>6, <2>1
  <2> HIDE DEF M, f
  <2>4. SumFunctionOnSet(f, M) = Cardinality(M)
    BY <2>2, <2>3, SumOfOnes
  <2> QED
    BY <2>4 DEF M, f, CountOf
<1> HIDE DEF one, ones
<1>10. SumFunction([q \in Ranks |-> CountOf(own[q], j)]) = CountOf(s, j)
  BY <1>7, <1>8, <1>9 DEF SumFunction
<1> QED
  BY <1>4, <1>10

(***************************************************************************)
(* The invariant is kept.                                                  *)
(***************************************************************************)

\* The data stay what they are, and so does what is defined by them.
LEMMA SameData ==
  ASSUME w' = w
  PROVE  /\ AllW' = AllW /\ Filled' = Filled
         /\ \A m : Serial(m)' = Serial(m)
         /\ \A r : Before(r)' = Before(r)
         /\ \A s, r : PartOf(s, r)' = PartOf(s, r)
<1>1. AllW' = AllW /\ Filled' = Filled
  BY DEF AllW, InRankOrder, Filled
<1>2. \A m : Serial(m)' = Serial(m)
  BY <1>1 DEF Serial
<1>3. \A r : Before(r)' = Before(r)
  BY DEF Before
<1> QED
  BY <1>1, <1>2, <1>3 DEF PartOf

\* A step that leaves a rank alone leaves it where it follows the serial run.
LEMMA LeftAlone ==
  ASSUME NEW q, w' = w, wmin'[q] = wmin[q], wmax'[q] = wmax[q], w_node'[q] = w_node[q],
         w_centre'[q] = w_centre[q], w_sum'[q] = w_sum[q], w_count'[q] = w_count[q],
         total'[q] = total[q], diff'[q] = diff[q], iter'[q] = iter[q], node'[q] = node[q],
         pc'[q] = pc[q]
  PROVE  Follows(q)' = Follows(q) /\ NextCall(q)' = NextCall(q)
<1>1. AllW' = AllW /\ (\A m : Serial(m)' = Serial(m)) /\ (\A s, r : PartOf(s, r)' = PartOf(s, r))
  BY SameData
<1>2. RangeKnown(q)' = RangeKnown(q)
  BY <1>1 DEF RangeKnown
<1>3. Beginning(q)' = Beginning(q)
  BY DEF Beginning
<1>4. Between(q)' = Between(q)
  BY <1>1 DEF Between
<1>5. InIteration(q)' = InIteration(q)
  BY <1>1 DEF InIteration
<1>6. TotalsKnown(q)' = TotalsKnown(q)
  BY <1>1 DEF TotalsKnown
<1>7. Done(q)' = Done(q)
  BY <1>1 DEF Done
<1>8. NextCall(q)' = NextCall(q)
  BY DEF NextCall
<1> QED
  BY <1>2, <1>3, <1>4, <1>5, <1>6, <1>7, <1>8 DEF Follows

LEMMA FollowBegins == KMeansInit => FollowInv
<1> SUFFICES ASSUME KMeansInit PROVE FollowInv
  OBVIOUS
<1>1. w \in [Ranks -> Seq(Int)]
  <2>1. w \in [Ranks -> UNION {[1 .. n -> WValues] : n \in 0 .. MaxLocal}]
    BY DEF KMeansInit
  <2>2. \A s \in UNION {[1 .. n -> WValues] : n \in 0 .. MaxLocal} : s \in Seq(Int)
    <3> SUFFICES ASSUME NEW n \in 0 .. MaxLocal, NEW s \in [1 .. n -> WValues] PROVE s \in Seq(Int)
      OBVIOUS
    <3>1. n \in Nat
      BY MaxLocalAssumption
    <3>2. s \in [1 .. n -> Int]
      BY ValuesAssumption
    <3> QED
      BY <3>1, <3>2
  <2> QED
    BY <2>1, <2>2
<1>2. ASSUME Filled
      PROVE  /\ Shaped
             /\ \A r \in Ranks : Follows(r)
             /\ \A q, r \in Ranks : NextCall(q) = NextCall(r)
  <2>1. 0 \in 0 .. Iters /\ 0 \in Nodes
    BY ItersAssumption, CentresAssumption DEF Nodes
  <2>2. Shaped
    BY <2>1 DEF Shaped, KMeansInit
  <2>3. ASSUME NEW r \in Ranks
        PROVE  /\ pc[r] = "min" /\ iter[r] = 0 /\ node[r] = 0 /\ diff[r] = <<1, 1>>
               /\ w_node[r] = [i \in DOMAIN w[r] |-> 0]
               /\ w_sum[r] = Zeros /\ w_count[r] = Zeros
               /\ wmin[r] = Lowest(w[r]) /\ wmax[r] = Highest(w[r])
    BY <1>2 DEF KMeansInit, Filled
  <2>4. \A r \in Ranks : Follows(r)
    BY <2>3 DEF Follows, RangeKnown, Beginning, Between, InIteration, TotalsKnown, Done
  <2>5. \A r \in Ranks : NextCall(r) = <<0, 0>>
    BY <2>3 DEF NextCall
  <2> QED
    BY <2>2, <2>4, <2>5
<1> QED
  BY <1>1, <1>2 DEF FollowInv

\* What a step is to show: FollowInv, for ranks with data.
Following ==
  Shaped /\ (\A r \in Ranks : Follows(r)) /\ (\A q, r \in Ranks : NextCall(q) = NextCall(r))

LEMMA ReduceMinFollows ==
  ASSUME Filled, Following, ReduceMin
  PROVE  Following'
<1>1. w' = w /\ \A r \in Ranks : pc[r] = "min" /\ pc'[r] = "max"
  BY DEF ReduceMin, AllAt, Proceed
<1>2. \A r \in Ranks : Follows(r)
  BY DEF Following
<1>3. /\ AllW' = AllW /\ (\A m : Serial(m)' = Serial(m))
      /\ (\A s, r : PartOf(s, r)' = PartOf(s, r))
  BY <1>1, SameData
<1>4. \A r \in Ranks : wmin'[r] = Lowest(AllW)
  <2>1. \A q \in Ranks : wmin[q] = Lowest(w[q])
    BY <1>1, <1>2 DEF Follows, RangeKnown
  <2>2. {wmin[q] : q \in Ranks} = {Lowest(w[q]) : q \in Ranks}
    BY <2>1
  <2> QED
    BY <2>2, RangeOfAll DEF ReduceMin
<1>5. Shaped'
  BY DEF Following, Shaped, ReduceMin, Proceed
<1>6. ASSUME NEW r \in Ranks PROVE Follows(r)' /\ NextCall(r)' = <<0, 0>>
  <2>1. pc[r] = "min" /\ pc'[r] = "max" /\ Follows(r) /\ wmin'[r] = Lowest(AllW)
    BY <1>1, <1>2, <1>4
  <2>2. RangeKnown(r)'
    BY <1>1, <1>3, <2>1 DEF Follows, RangeKnown, ReduceMin
  <2>3. Beginning(r)' /\ iter'[r] = 0
    BY <1>1, <2>1 DEF Follows, Beginning, ReduceMin
  <2>4. Between(r)' /\ InIteration(r)' /\ TotalsKnown(r)' /\ Done(r)'
    BY <2>1 DEF Between, InIteration, TotalsKnown, Done
  <2> QED
    BY <2>1, <2>2, <2>3, <2>4 DEF Follows, NextCall
<1> QED
  BY <1>5, <1>6 DEF Following

LEMMA ReduceMaxFollows ==
  ASSUME Filled, Following, ReduceMax
  PROVE  Following'
<1>1. w' = w /\ \A r \in Ranks : pc[r] = "max" /\ pc'[r] = "label"
  BY DEF ReduceMax, AllAt, Proceed
<1>2. \A r \in Ranks : Follows(r)
  BY DEF Following
<1>3. /\ AllW' = AllW /\ (\A m : Serial(m)' = Serial(m))
      /\ (\A s, r : PartOf(s, r)' = PartOf(s, r))
  BY <1>1, SameData
<1>4. \A r \in Ranks : wmax'[r] = Highest(AllW) /\ wmin[r] = Lowest(AllW)
  <2>1. \A q \in Ranks : wmax[q] = Highest(w[q]) /\ wmin[q] = Lowest(AllW)
    BY <1>1, <1>2 DEF Follows, RangeKnown
  <2>2. {wmax[q] : q \in Ranks} = {Highest(w[q]) : q \in Ranks}
    BY <2>1
  <2> QED
    BY <2>1, <2>2, RangeOfAll DEF ReduceMax
<1>5. Shaped'
  BY DEF Following, Shaped, ReduceMax, Proceed
<1>6. Serial(0) = [w_node |-> [i \in DOMAIN AllW |-> 0],
                   w_centre |-> FirstCentres(Lowest(AllW), Highest(AllW)), converged |-> FALSE]
  BY SerialSteps
<1>7. ASSUME NEW r \in Ranks PROVE Follows(r)' /\ NextCall(r)' = <<0, 0>>
  <2>1. /\ pc[r] = "max" /\ pc'[r] = "label" /\ Follows(r)
        /\ wmax'[r] = Highest(AllW) /\ wmin[r] = Lowest(AllW)
    BY <1>1, <1>2, <1>4
  <2>2. RangeKnown(r)'
    BY <1>1, <1>3, <2>1 DEF RangeKnown, ReduceMax
  <2>3. /\ iter[r] = 0 /\ diff[r] = <<1, 1>> /\ w_node[r] = [i \in DOMAIN w[r] |-> 0]
        /\ w_sum[r] = Zeros /\ w_count[r] = Zeros
    BY <2>1 DEF Follows, Beginning
  <2>4. /\ iter'[r] = 0 /\ diff'[r] = <<1, 1>> /\ w_node'[r] = w_node[r]
        /\ w_sum'[r] = Zeros /\ w_count'[r] = Zeros
        /\ w_centre'[r] = FirstCentres(Lowest(AllW), Highest(AllW))
    BY <2>1, <2>3 DEF ReduceMax
  <2>5. w_node[r] = PartOf(Serial(0).w_node, r)
    <3>1. Laid(w, AllW)
      BY EntriesFinite
    <3>2. \A i \in DOMAIN w[r] : Before(r) + i \in DOMAIN AllW
      BY <3>1, PlacesShared DEF Laid
    <3> QED
      BY <1>6, <2>3, <3>2 DEF PartOf
  <2>6. Between(r)'
    <3>1. FirstDiff(0 + 1) = <<1, 1>>
      BY DEF FirstDiff
    <3>2. Serial(0).w_centre = FirstCentres(Lowest(AllW), Highest(AllW)) /\ ~ Serial(0).converged
      BY <1>6
    <3> QED
      BY <1>3, <2>4, <2>5, <3>1, <3>2 DEF Between
  <2>7. Beginning(r)' /\ InIteration(r)' /\ TotalsKnown(r)' /\ Done(r)'
    BY <2>1 DEF Beginning, InIteration, TotalsKnown, Done
  <2> QED
    BY <2>1, <2>2, <2>4, <2>6, <2>7 DEF Follows, NextCall
<1> QED
  BY <1>5, <1>7 DEF Following

\* All ranks that are at the same call are in the same iteration and at the same cluster.
LEMMA SameCall ==
  ASSUME Following, NEW q \in Ranks, NEW r \in Ranks, NEW call \in {"sum", "count"},
         pc[q] = call, pc[r] = call
  PROVE  iter[q] = iter[r] /\ node[q] = node[r]
<1>1. NextCall(q) = NextCall(r)
  BY DEF Following
<1>2. NextCall(q) = <<iter[q], node[q]>> /\ NextCall(r) = <<iter[r], node[r]>>
  BY DEF NextCall
<1>3. <<iter[q], node[q]>> = <<iter[r], node[r]>>
  BY <1>1, <1>2
<1> QED
  BY ONLY <1>3

\* The state of an iteration that the serial run goes through.
LEMMA SerialIteration ==
  ASSUME NEW m \in 0 .. Iters-1, ~ Serial(m).converged
  PROVE  /\ Serial(m + 1) = SerialStep(AllW, Serial(m), m + 1)
         /\ Serial(m + 1).w_node = Labels(AllW, Serial(m).w_node, Serial(m).w_centre,
                                          Lowest(AllW), Highest(AllW))
         /\ Serial(m + 1).w_centre =
              [j \in Nodes |-> Mean(SumOf(AllW, Serial(m + 1).w_node, j),
                                    CountOf(Serial(m + 1).w_node, j))]
         /\ Serial(m + 1).converged =
              Less(Changes(Serial(m).w_centre, Serial(m + 1).w_centre, FirstDiff(m + 1))[Centres-1],
                   RelDiff)
         /\ DOMAIN Serial(m + 1).w_node = DOMAIN AllW
<1>1. Serial(m + 1) = SerialStep(AllW, Serial(m), m + 1)
  BY SerialSteps
<1> DEFINE labels == Labels(AllW, Serial(m).w_node, Serial(m).w_centre, Lowest(AllW), Highest(AllW))
           means == [j \in Nodes |-> Mean(SumOf(AllW, labels, j), CountOf(labels, j))]
           stop == Less(Changes(Serial(m).w_centre, means, FirstDiff(m + 1))[Centres-1], RelDiff)
<1>2. DOMAIN labels = DOMAIN AllW
  BY DEF Labels
<1>3. Serial(m + 1) = [w_node |-> labels, w_centre |-> means, converged |-> stop]
  BY <1>1 DEF SerialStep
<1> HIDE DEF labels, means, stop
<1>4. /\ Serial(m + 1).w_node = labels /\ Serial(m + 1).w_centre = means
      /\ Serial(m + 1).converged = stop
  BY <1>3
<1>5. means = [j \in Nodes |-> Mean(SumOf(AllW, labels, j), CountOf(labels, j))]
  BY DEF means
<1>6. stop = Less(Changes(Serial(m).w_centre, means, FirstDiff(m + 1))[Centres-1], RelDiff)
  BY DEF stop
<1> QED
  BY <1>1, <1>2, <1>4, <1>5, <1>6 DEF labels

LEMMA SumClusterFollows ==
  ASSUME Filled, Following, SumCluster
  PROVE  Following'
<1>1. w' = w /\ \A r \in Ranks : pc[r] = "sum" /\ pc'[r] = "count"
  BY DEF SumCluster, AllAt, Proceed
<1>2. \A r \in Ranks : Follows(r) /\ iter[r] \in 0 .. Iters /\ node[r] \in Nodes
  BY DEF Following, Shaped
<1>3. /\ AllW' = AllW /\ (\A m : Serial(m)' = Serial(m))
      /\ (\A s, r : PartOf(s, r)' = PartOf(s, r))
  BY <1>1, SameData
<1>4. Shaped'
  BY DEF Following, Shaped, SumCluster, Proceed
<1>5. ASSUME NEW r \in Ranks
      PROVE  SumFunction([q \in Ranks |-> w_sum[q][node[q]]])
               = SumOf(AllW, Serial(iter[r] + 1).w_node, node[r])
  <2> DEFINE s == Serial(iter[r] + 1).w_node
             own == [q \in Ranks |-> w_node[q]]
             j == node[r]
  <2>1. iter[r] \in 0 .. Iters-1 /\ ~ Serial(iter[r]).converged
    <3>1. iter[r] < Iters /\ ~ Serial(iter[r]).converged
      BY <1>1, <1>2 DEF Follows, InIteration
    <3>2. iter[r] \in 0 .. Iters
      BY <1>2
    <3> QED
      BY <3>1, <3>2, ItersAssumption
  <2>2. DOMAIN s = DOMAIN AllW
    BY <2>1, SerialIteration
  <2>3. \A q \in Ranks : iter[q] = iter[r] /\ node[q] = j
    <3>1. "sum" \in {"sum", "count"}
      OBVIOUS
    <3> QED
      BY <1>1, <3>1, SameCall
  <2>4. \A q \in Ranks : own[q] = PartOf(s, q)
    BY <1>1, <1>2, <2>3 DEF Follows, InIteration
  <2>5. \A q \in Ranks : w_sum[q][node[q]] = SumOf(w[q], own[q], j)
    <3> SUFFICES ASSUME NEW q \in Ranks PROVE w_sum[q][node[q]] = SumOf(w[q], own[q], j)
      OBVIOUS
    <3>1. w_sum[q] = [k \in Nodes |-> IF k < node[q] THEN 0 ELSE SumOf(w[q], w_node[q], k)]
      BY <1>1, <1>2 DEF Follows, InIteration
    <3>2. node[q] = j /\ j \in Nodes /\ ~(j < j) /\ own[q] = w_node[q]
      <4>1. j \in Nodes
        BY <1>2
      <4>2. j \in Int
        BY <4>1, CentresAssumption DEF Nodes
      <4>3. ~(j < j)
        BY <4>2
      <4> QED
        BY <2>3, <4>1, <4>3
    <3> HIDE DEF own, j
    <3> QED
      BY <3>1, <3>2
  <2> HIDE DEF s, own, j
  <2>6. SumFunction([q \in Ranks |-> SumOf(w[q], own[q], j)]) = SumOf(AllW, s, j)
    BY <2>2, <2>4, TotalsAgree
  <2>7. [q \in Ranks |-> w_sum[q][node[q]]] = [q \in Ranks |-> SumOf(w[q], own[q], j)]
    BY <2>5
  <2> QED
    BY <2>6, <2>7 DEF s, j
<1>6. ASSUME NEW r \in Ranks PROVE Follows(r)' /\ NextCall(r)' = NextCall(r)
  <2>1. pc[r] = "sum" /\ pc'[r] = "count" /\ Follows(r)
    BY <1>1, <1>2
  <2>2. /\ wmin'[r] = wmin[r] /\ wmax'[r] = wmax[r] /\ w_node'[r] = w_node[r]
        /\ w_centre'[r] = w_centre[r] /\ w_sum'[r] = w_sum[r] /\ w_count'[r] = w_count[r]
        /\ diff'[r] = diff[r] /\ iter'[r] = iter[r] /\ node'[r] = node[r]
    BY DEF SumCluster
  <2>3. total'[r][1] = SumOf(AllW, Serial(iter[r] + 1).w_node, node[r])
    BY <1>5 DEF SumCluster
  <2>4. RangeKnown(r)'
    BY <1>1, <1>3, <2>1, <2>2 DEF Follows, RangeKnown
  <2>5. InIteration(r)'
    BY <1>1, <1>3, <2>1, <2>2 DEF Follows, InIteration
  <2>6. TotalsKnown(r)'
    BY <1>3, <2>1, <2>2, <2>3 DEF TotalsKnown
  <2>7. Beginning(r)' /\ Between(r)' /\ Done(r)'
    BY <2>1 DEF Beginning, Between, Done
  <2>8. NextCall(r)' = NextCall(r)
    BY <2>1, <2>2 DEF NextCall
  <2> QED
    BY <2>4, <2>5, <2>6, <2>7, <2>8 DEF Follows
<1>7. \A q, r \in Ranks : NextCall(q)' = NextCall(r)'
  BY <1>6 DEF Following
<1> QED
  BY <1>4, <1>6, <1>7 DEF Following

LEMMA CountClusterFollows ==
  ASSUME Filled, Following, CountCluster
  PROVE  Following'
<1>1. w' = w /\ \A r \in Ranks : pc[r] = "count" /\ pc'[r] = "update"
  BY DEF CountCluster, AllAt, Proceed
<1>2. \A r \in Ranks : Follows(r) /\ iter[r] \in 0 .. Iters /\ node[r] \in Nodes
  BY DEF Following, Shaped
<1>3. /\ AllW' = AllW /\ (\A m : Serial(m)' = Serial(m))
      /\ (\A s, r : PartOf(s, r)' = PartOf(s, r))
  BY <1>1, SameData
<1>4. Shaped'
  BY DEF Following, Shaped, CountCluster, Proceed
<1>5. \A q, r \in Ranks : iter[q] = iter[r] /\ node[q] = node[r]
  <2>1. "count" \in {"sum", "count"}
    OBVIOUS
  <2> QED
    BY <1>1, <2>1, SameCall
<1>6. ASSUME NEW r \in Ranks
      PROVE  SumFunction([q \in Ranks |-> w_count[q][node[q]]])
               = CountOf(Serial(iter[r] + 1).w_node, node[r])
  <2> DEFINE s == Serial(iter[r] + 1).w_node
             own == [q \in Ranks |-> w_node[q]]
             j == node[r]
  <2>1. iter[r] \in 0 .. Iters-1 /\ ~ Serial(iter[r]).converged
    <3>1. iter[r] < Iters /\ ~ Serial(iter[r]).converged
      BY <1>1, <1>2 DEF Follows, InIteration
    <3>2. iter[r] \in 0 .. Iters
      BY <1>2
    <3> QED
      BY <3>1, <3>2, ItersAssumption
  <2>2. DOMAIN s = DOMAIN AllW
    BY <2>1, SerialIteration
  <2>3. \A q \in Ranks : iter[q] = iter[r] /\ node[q] = j
    BY <1>5
  <2>4. \A q \in Ranks : own[q] = PartOf(s, q)
    BY <1>1, <1>2, <2>3 DEF Follows, InIteration
  <2>5. \A q \in Ranks : w_count[q][node[q]] = CountOf(own[q], j)
    <3> SUFFICES ASSUME NEW q \in Ranks PROVE w_count[q][node[q]] = CountOf(own[q], j)
      OBVIOUS
    <3>1. w_count[q] = [k \in Nodes |-> IF k < node[q] THEN 0 ELSE CountOf(w_node[q], k)]
      BY <1>1, <1>2 DEF Follows, InIteration
    <3>2. node[q] = j /\ j \in Nodes /\ ~(j < j) /\ own[q] = w_node[q]
      <4>1. j \in Nodes
        BY <1>2
      <4>2. j \in Int
        BY <4>1, CentresAssumption DEF Nodes
      <4>3. ~(j < j)
        BY <4>2
      <4> QED
        BY <2>3, <4>1, <4>3
    <3> HIDE DEF own, j
    <3> QED
      BY <3>1, <3>2
  <2> HIDE DEF s, own, j
  <2>6. SumFunction([q \in Ranks |-> CountOf(own[q], j)]) = CountOf(s, j)
    BY <2>2, <2>4, TotalsAgree
  <2>7. [q \in Ranks |-> w_count[q][node[q]]] = [q \in Ranks |-> CountOf(own[q], j)]
    BY <2>5
  <2> QED
    BY <2>6, <2>7 DEF s, j
<1>7. ASSUME NEW r \in Ranks PROVE Follows(r)'
  <2>1. pc[r] = "count" /\ pc'[r] = "update" /\ Follows(r)
    BY <1>1, <1>2
  <2>2. /\ wmin'[r] = wmin[r] /\ wmax'[r] = wmax[r] /\ w_node'[r] = w_node[r]
        /\ w_centre'[r] = w_centre[r] /\ w_sum'[r] = w_sum[r] /\ w_count'[r] = w_count[r]
        /\ diff'[r] = diff[r] /\ iter'[r] = iter[r] /\ node'[r] = node[r]
    BY DEF CountCluster
  <2>3. /\ total'[r][1] = total[r][1]
        /\ total'[r][2] = CountOf(Serial(iter[r] + 1).w_node, node[r])
    BY <1>6 DEF CountCluster
  <2>4. RangeKnown(r)'
    BY <1>1, <1>3, <2>1, <2>2 DEF Follows, RangeKnown
  <2>5. InIteration(r)'
    BY <1>1, <1>3, <2>1, <2>2 DEF Follows, InIteration
  <2>6. TotalsKnown(r)'
    BY <1>3, <2>1, <2>2, <2>3 DEF Follows, TotalsKnown
  <2>7. Beginning(r)' /\ Between(r)' /\ Done(r)'
    BY <2>1 DEF Beginning, Between, Done
  <2> QED
    BY <2>4, <2>5, <2>6, <2>7 DEF Follows
<1>8. \A q, r \in Ranks : NextCall(q)' = NextCall(r)'
  <2> SUFFICES ASSUME NEW q \in Ranks, NEW r \in Ranks PROVE NextCall(q)' = NextCall(r)'
    OBVIOUS
  <2>1. iter[q] = iter[r] /\ node[q] = node[r] /\ pc'[q] = "update" /\ pc'[r] = "update"
    BY <1>1, <1>5
  <2>2. iter' = iter /\ node' = node
    BY DEF CountCluster
  <2> QED
    BY <2>1, <2>2 DEF NextCall
<1> QED
  BY <1>4, <1>7, <1>8 DEF Following

\* The serial run has a centre for every cluster.
LEMMA CentresKnown ==
  ASSUME NEW m \in 0 .. Iters
  PROVE  Serial(m).w_centre = [k \in Nodes |-> Serial(m).w_centre[k]]
<1> DEFINE Has(c) == c = [k \in Nodes |-> c[k]]
           Fine == {n \in Nat : n <= Iters => Has(Serial(n).w_centre)}
<1>1. 0 \in Fine
  <2>1. Serial(0).w_centre = FirstCentres(Lowest(AllW), Highest(AllW))
    BY SerialSteps
  <2> QED
    BY <2>1 DEF FirstCentres
<1>2. \A n \in Nat : n \in Fine => n + 1 \in Fine
  <2> HIDE DEF Has
  <2> SUFFICES ASSUME NEW n \in Nat, n \in Fine, n + 1 <= Iters
               PROVE  Has(Serial(n + 1).w_centre)
    OBVIOUS
  <2>1. n \in 0 .. Iters-1 /\ n <= Iters
    BY ItersAssumption
  <2>2. Has(Serial(n).w_centre)
    BY <2>1
  <2>3. CASE Serial(n).converged
    <3>1. Serial(n + 1) = Serial(n)
      BY <2>1, <2>3, SerialSteps
    <3> QED
      BY <2>2, <3>1
  <2>4. CASE ~ Serial(n).converged
    <3>1. Serial(n + 1).w_centre =
            [j \in Nodes |-> Mean(SumOf(AllW, Serial(n + 1).w_node, j),
                                  CountOf(Serial(n + 1).w_node, j))]
      BY <2>1, <2>4, SerialIteration
    <3> QED
      BY <3>1 DEF Has
  <2> QED
    BY <2>3, <2>4
<1> HIDE DEF Fine
<1>3. m \in Nat /\ m <= Iters /\ m \in Fine
  BY <1>1, <1>2, Induction, ItersAssumption
<1> QED
  BY <1>3 DEF Fine

\* The labels of a rank are its part of the serial run's.
LEMMA OwnLabels ==
  ASSUME Filled, NEW r \in Ranks, NEW s, NEW centre, NEW lo, NEW hi
  PROVE  Labels(w[r], PartOf(s, r), centre, lo, hi) = PartOf(Labels(AllW, s, centre, lo, hi), r)
<1>1. DOMAIN AllW = 1 .. Before(Size) /\ \A i \in DOMAIN w[r] : AllW[Before(r) + i] = w[r][i]
  BY EntriesFinite DEF Laid
<1>2. \A i \in DOMAIN w[r] : Before(r) + i \in DOMAIN AllW
  BY <1>1, PlacesShared
<1>3. \A i \in DOMAIN w[r] :
        Label(w[r][i], PartOf(s, r)[i], centre, lo, hi)
          = Labels(AllW, s, centre, lo, hi)[Before(r) + i]
  BY <1>1, <1>2 DEF Labels, PartOf
<1> QED
  BY <1>3 DEF Labels, PartOf

LEMMA LabelOwnFollows ==
  ASSUME Filled, Following, NEW r \in Ranks, LabelOwn(r)
  PROVE  Following'
<1>1. w' = w /\ pc[r] = "label" /\ pc \in [Ranks -> {"min", "max", "label", "sum", "count", "update", "returned", "ended"}]
  BY DEF LabelOwn, Following, Shaped
<1>2. Follows(r) /\ iter[r] \in 0 .. Iters /\ node[r] \in Nodes
  BY DEF Following, Shaped
<1>3. /\ AllW' = AllW /\ (\A m : Serial(m)' = Serial(m))
      /\ (\A s, q : PartOf(s, q)' = PartOf(s, q))
  BY <1>1, SameData
<1>4. Shaped'
  <2>1. 0 \in Nodes
    BY CentresAssumption DEF Nodes
  <2> QED
    BY <2>1 DEF Following, Shaped, LabelOwn
<1>5. ASSUME NEW q \in Ranks, q # r PROVE Follows(q)' = Follows(q) /\ NextCall(q)' = NextCall(q)
  <2>1. /\ wmin'[q] = wmin[q] /\ wmax'[q] = wmax[q] /\ w_node'[q] = w_node[q]
        /\ w_centre'[q] = w_centre[q] /\ w_sum'[q] = w_sum[q] /\ w_count'[q] = w_count[q]
        /\ total'[q] = total[q] /\ diff'[q] = diff[q] /\ iter'[q] = iter[q]
        /\ node'[q] = node[q] /\ pc'[q] = pc[q]
    BY <1>5 DEF LabelOwn, Following, Shaped
  <2> QED
    BY <1>1, <2>1, LeftAlone
<1>6. /\ w_node[r] = PartOf(Serial(iter[r]).w_node, r)
      /\ w_centre[r] = Serial(iter[r]).w_centre
      /\ w_sum[r] = Zeros /\ w_count[r] = Zeros
      /\ diff[r] = FirstDiff(iter[r] + 1)
      /\ ~ Serial(iter[r]).converged
      /\ wmin[r] = Lowest(AllW) /\ wmax[r] = Highest(AllW)
  BY <1>1, <1>2 DEF Follows, Between, RangeKnown
<1>7. Follows(r)' /\ NextCall(r)' = NextCall(r)
  <2>1. CASE iter[r] = Iters
    <3>1. /\ pc'[r] = "returned" /\ w_node' = w_node /\ w_centre' = w_centre /\ iter' = iter
          /\ wmin' = wmin /\ wmax' = wmax
      BY <1>1, <2>1 DEF LabelOwn
    <3>2. Done(r)'
      BY <1>3, <1>6, <2>1, <3>1 DEF Done
    <3>3. RangeKnown(r)'
      BY <1>1, <1>3, <1>6, <3>1 DEF RangeKnown
    <3>4. Beginning(r)' /\ Between(r)' /\ InIteration(r)' /\ TotalsKnown(r)'
      BY <3>1 DEF Beginning, Between, InIteration, TotalsKnown
    <3>5. NextCall(r)' = NextCall(r)
      BY <1>1, <2>1, <3>1 DEF NextCall
    <3> QED
      BY <3>2, <3>3, <3>4, <3>5 DEF Follows
  <2>2. CASE iter[r] # Iters
    <3> DEFINE old == Serial(iter[r])
               new == Serial(iter[r] + 1)
               labels == Labels(w[r], w_node[r], w_centre[r], wmin[r], wmax[r])
    <3>1. iter[r] \in 0 .. Iters-1 /\ iter[r] < Iters
      BY <1>2, <2>2, ItersAssumption
    <3>2. labels = PartOf(new.w_node, r)
      <4>1. labels = Labels(w[r], PartOf(old.w_node, r), old.w_centre, Lowest(AllW), Highest(AllW))
        BY <1>6
      <4>2. new.w_node = Labels(AllW, old.w_node, old.w_centre, Lowest(AllW), Highest(AllW))
        BY <1>6, <3>1, SerialIteration
      <4> QED
        BY <4>1, <4>2, OwnLabels
    <3>3. /\ pc'[r] = "sum" /\ w_node'[r] = labels /\ w_centre'[r] = old.w_centre
          /\ iter'[r] = iter[r] /\ node'[r] = 0 /\ diff'[r] = diff[r]
          /\ wmin'[r] = wmin[r] /\ wmax'[r] = wmax[r]
          /\ w_sum'[r] = [j \in Nodes |-> w_sum[r][j] + SumOf(w[r], labels, j)]
          /\ w_count'[r] = [j \in Nodes |-> w_count[r][j] + CountOf(labels, j)]
      BY <1>1, <1>6, <2>2 DEF LabelOwn, Following, Shaped
    <3> HIDE DEF old, new, labels
    <3>4. \A j \in Nodes : SumOf(w[r], labels, j) \in Int /\ CountOf(labels, j) \in Int
      <4> SUFFICES ASSUME NEW j \in Nodes
                   PROVE  SumOf(w[r], labels, j) \in Int /\ CountOf(labels, j) \in Int
        OBVIOUS
      <4> DEFINE M == Members(labels, j)
                 f == w[r]
      <4>1. DOMAIN labels = DOMAIN f
        BY <3>2 DEF PartOf
      <4>2. M \in SUBSET DOMAIN f
        BY <4>1 DEF Members
      <4>3. IsFiniteSet(M)
        <5>1. DOMAIN w[r] = 1 .. Len(w[r]) /\ 1 \in Int /\ Len(w[r]) \in Int
          BY RanksBegin
        <5> QED
          BY <4>2, <5>1, FS_Interval, FS_Subset
      <4>4. f \in Seq(Int)
        BY DEF Filled
      <4>5. \A i \in M : f[i] \in Int
        BY <4>2, <4>4
      <4> HIDE DEF M, f
      <4>6. SumFunctionOnSet(f, M) \in Int
        BY <4>3, <4>5, SumIsInteger
      <4>7. Cardinality(M) \in Int
        BY <4>3, FS_CardinalityType
      <4> QED
        BY <4>6, <4>7 DEF M, f, SumOf, CountOf
    <3>5. /\ w_sum'[r] = [j \in Nodes |-> IF j < 0 THEN 0 ELSE SumOf(w[r], labels, j)]
          /\ w_count'[r] = [j \in Nodes |-> IF j < 0 THEN 0 ELSE CountOf(labels, j)]
      <4>1. \A j \in Nodes : /\ ~(j < 0)
                             /\ w_sum[r][j] + SumOf(w[r], labels, j) = SumOf(w[r], labels, j)
                             /\ w_count[r][j] + CountOf(labels, j) = CountOf(labels, j)
        <5>1. \A j \in Nodes : ~(j < 0) /\ w_sum[r][j] = 0 /\ w_count[r][j] = 0
          BY <1>6, CentresAssumption DEF Zeros, Nodes
        <5>2. \A x \in Int : 0 + x = x
          OBVIOUS
        <5> QED
          BY <3>4, <5>1, <5>2
      <4> QED
        BY <3>3, <4>1
    <3>6. old.w_centre = [k \in Nodes |-> IF k < 0 THEN new.w_centre[k] ELSE old.w_centre[k]]
      <4>1. \A k \in Nodes : ~(k < 0)
        BY CentresAssumption DEF Nodes
      <4>2. old.w_centre = [k \in Nodes |-> old.w_centre[k]]
        BY <1>2, CentresKnown DEF old
      <4> QED
        BY <4>1, <4>2
    <3>7. diff[r] = Changes(old.w_centre, new.w_centre, FirstDiff(iter[r] + 1))[0 - 1]
      <4>1. 0 - 1 = -1
        OBVIOUS
      <4> QED
        BY <1>6, <4>1, ChangesDefined
    <3>8. InIteration(r)'
      BY <1>1, <1>3, <1>6, <3>1, <3>2, <3>3, <3>5, <3>6, <3>7 DEF InIteration, old, new
    <3>9. RangeKnown(r)'
      BY <1>3, <1>6, <3>3 DEF RangeKnown
    <3>10. Beginning(r)' /\ Between(r)' /\ TotalsKnown(r)' /\ Done(r)'
      BY <3>3 DEF Beginning, Between, TotalsKnown, Done
    <3>11. NextCall(r)' = NextCall(r)
      BY <1>1, <3>3 DEF NextCall
    <3> QED
      BY <3>8, <3>9, <3>10, <3>11 DEF Follows
  <2> QED
    BY <2>1, <2>2
<1>8. \A q \in Ranks : Follows(q)' /\ NextCall(q)' = NextCall(q)
  BY <1>5, <1>7 DEF Following
<1> QED
  BY <1>4, <1>8 DEF Following

LEMMA UpdateFollows ==
  ASSUME Filled, Following, NEW r \in Ranks, Update(r)
  PROVE  Following'
<1> DEFINE m == iter[r]
           j == node[r]
           old == Serial(m)
           new == Serial(m + 1)
           changes == Changes(old.w_centre, new.w_centre, FirstDiff(m + 1))
           Mixed(n) == [k \in Nodes |-> IF k < n THEN new.w_centre[k] ELSE old.w_centre[k]]
           SumsLeft(n) == [k \in Nodes |-> IF k < n THEN 0 ELSE SumOf(w[r], w_node[r], k)]
           CountsLeft(n) == [k \in Nodes |-> IF k < n THEN 0 ELSE CountOf(w_node[r], k)]
           mean == Mean(total[r][1], total[r][2])
           change == Plus(diff[r], RelativeChange(mean, w_centre[r][j]))
<1>1. w' = w /\ pc[r] = "update" /\ Follows(r) /\ m \in 0 .. Iters /\ j \in Nodes
  BY DEF Update, Following, Shaped
<1>2. /\ AllW' = AllW /\ (\A n : Serial(n)' = Serial(n))
      /\ (\A s, q : PartOf(s, q)' = PartOf(s, q))
  BY <1>1, SameData
<1>3. Shaped'
  <2>1. \A x \in 0 .. Iters : x # Iters => x + 1 \in 0 .. Iters
    BY ItersAssumption
  <2>2. m # Iters
    <3>1. m < Iters
      BY <1>1 DEF Follows, InIteration
    <3> QED
      BY <1>1, <3>1, ItersAssumption
  <2>3. m + 1 \in 0 .. Iters
    BY <1>1, <2>1, <2>2
  <2>4. j < Centres-1 => j + 1 \in Nodes
    BY <1>1, CentresAssumption DEF Nodes
  <2>5. iter' \in [Ranks -> 0 .. Iters] /\ node' \in [Ranks -> Nodes]
    BY <2>3, <2>4 DEF Update, Decide, Following, Shaped
  <2>6. pc' \in [Ranks -> {"min", "max", "label", "sum", "count", "update", "returned", "ended"}]
    BY DEF Update, Decide, Following, Shaped
  <2> QED
    BY <2>5, <2>6 DEF Following, Shaped, Update, Decide
<1>4. ASSUME NEW q \in Ranks, q # r PROVE Follows(q)' = Follows(q) /\ NextCall(q)' = NextCall(q)
  <2>1. /\ wmin'[q] = wmin[q] /\ wmax'[q] = wmax[q] /\ w_node'[q] = w_node[q]
        /\ w_centre'[q] = w_centre[q] /\ w_sum'[q] = w_sum[q] /\ w_count'[q] = w_count[q]
        /\ total'[q] = total[q]
    BY <1>4 DEF Update, Following, Shaped
  <2>2. /\ diff'[q] = diff[q] /\ iter'[q] = iter[q] /\ node'[q] = node[q] /\ pc'[q] = pc[q]
    BY <1>4 DEF Update, Decide, Following, Shaped
  <2> QED
    BY <1>1, <2>1, <2>2, LeftAlone
<1>5. /\ m \in 0 .. Iters-1 /\ m \in Int /\ j \in Int /\ 0 <= j /\ j <= Centres-1 /\ Centres \in Int
      /\ m < Iters /\ Iters \in Nat
  <2>1. m < Iters
    BY <1>1 DEF Follows, InIteration
  <2> QED
    BY <1>1, <2>1, ItersAssumption, CentresAssumption DEF Nodes
<1>6. /\ ~ old.converged /\ w_node[r] = PartOf(new.w_node, r)
      /\ w_centre[r] = Mixed(j) /\ w_sum[r] = SumsLeft(j) /\ w_count[r] = CountsLeft(j)
      /\ diff[r] = changes[j - 1]
      /\ total[r][1] = SumOf(AllW, new.w_node, j) /\ total[r][2] = CountOf(new.w_node, j)
      /\ wmin[r] = Lowest(AllW) /\ wmax[r] = Highest(AllW)
  BY <1>1 DEF Follows, InIteration, TotalsKnown, RangeKnown
<1>7. /\ new.w_centre =
           [k \in Nodes |-> Mean(SumOf(AllW, new.w_node, k), CountOf(new.w_node, k))]
      /\ new.converged = Less(changes[Centres-1], RelDiff)
  BY <1>5, <1>6, SerialIteration
<1>8. mean = new.w_centre[j] /\ change = changes[j]
  <2>1. mean = new.w_centre[j]
    BY <1>1, <1>6, <1>7
  <2>2. w_centre[r][j] = old.w_centre[j]
    <3>1. ~(j < j)
      BY <1>5
    <3> QED
      BY <1>1, <1>6, <3>1
  <2>3. changes[j] = Plus(changes[j - 1], RelativeChange(new.w_centre[j], old.w_centre[j]))
    BY <1>1, ChangesDefined
  <2> HIDE DEF changes, new, old, mean, j
  <2> QED
    BY <1>6, <2>1, <2>2, <2>3
<1>9. /\ w_node' = w_node /\ wmin' = wmin /\ wmax' = wmax /\ total' = total
      /\ w_centre'[r] = [w_centre[r] EXCEPT ![j] = mean]
      /\ w_sum'[r] = [w_sum[r] EXCEPT ![j] = 0] /\ w_count'[r] = [w_count[r] EXCEPT ![j] = 0]
      /\ Decide(r, change)
  BY DEF Update, Following, Shaped
<1> HIDE DEF changes, mean, change
<1>10. /\ w_centre'[r] = Mixed(j + 1) /\ w_sum'[r] = SumsLeft(j + 1)
       /\ w_count'[r] = CountsLeft(j + 1)
  <2>1. \A k \in Nodes : /\ k = j => k < j + 1
                         /\ k # j => (k < j + 1 <=> k < j)
    BY <1>5, CentresAssumption DEF Nodes
  <2> HIDE DEF old, new, j
  <2>2. [Mixed(j) EXCEPT ![j] = new.w_centre[j]] = Mixed(j + 1)
    BY <1>1, <2>1
  <2>3. [SumsLeft(j) EXCEPT ![j] = 0] = SumsLeft(j + 1)
    BY <1>1, <2>1
  <2>4. [CountsLeft(j) EXCEPT ![j] = 0] = CountsLeft(j + 1)
    BY <1>1, <2>1
  <2> HIDE DEF Mixed, SumsLeft, CountsLeft
  <2> QED
    BY <1>6, <1>8, <1>9, <2>2, <2>3, <2>4
<1>11. Follows(r)' /\ NextCall(r)' = NextCall(r)
  <2>1. CASE j < Centres-1
    <3>1. /\ pc'[r] = "sum" /\ node'[r] = j + 1 /\ diff'[r] = changes[j] /\ iter'[r] = m
      BY <1>8, <1>9, <2>1 DEF Decide, Following, Shaped
    <3>2. changes[j] = changes[(j + 1) - 1]
      BY <1>5
    <3>3. InIteration(r)'
      <4>1. Serial(iter[r])' = old /\ Serial(iter[r] + 1)' = new
        BY <1>2, <3>1
      <4>2. w_node'[r] = PartOf(Serial(iter[r] + 1).w_node, r)'
        BY <1>2, <1>6, <1>9, <4>1
      <4>3. w_centre'[r] = [k \in Nodes |-> IF k < node'[r] THEN new.w_centre[k] ELSE old.w_centre[k]]
        BY <1>10, <3>1
      <4>4. /\ w_sum'[r] = [k \in Nodes |-> IF k < node'[r] THEN 0 ELSE SumOf(w'[r], w_node'[r], k)]
            /\ w_count'[r] = [k \in Nodes |-> IF k < node'[r] THEN 0 ELSE CountOf(w_node'[r], k)]
        BY <1>1, <1>9, <1>10, <3>1
      <4>5. diff'[r] = Changes(old.w_centre, new.w_centre, FirstDiff(iter'[r] + 1))[node'[r] - 1]
        BY <3>1, <3>2 DEF changes
      <4>6. iter'[r] < Iters /\ ~ old.converged
        BY <1>5, <1>6, <3>1
      <4> HIDE DEF old, new
      <4> QED
        BY <4>1, <4>2, <4>3, <4>4, <4>5, <4>6 DEF InIteration
    <3>4. RangeKnown(r)'
      BY <1>2, <1>6, <1>9, <3>1 DEF RangeKnown
    <3>5. Beginning(r)' /\ Between(r)' /\ TotalsKnown(r)' /\ Done(r)'
      BY <3>1 DEF Beginning, Between, TotalsKnown, Done
    <3>6. NextCall(r)' = NextCall(r)
      BY <1>1, <2>1, <3>1 DEF NextCall
    <3> QED
      BY <3>3, <3>4, <3>5, <3>6 DEF Follows
  <2>2. CASE ~(j < Centres-1)
    <3>1. j = Centres-1 /\ j + 1 = Centres /\ \A k \in Nodes : k < j + 1
      BY <1>5, <2>2, CentresAssumption DEF Nodes
    <3>2. Mixed(j + 1) = new.w_centre /\ SumsLeft(j + 1) = Zeros /\ CountsLeft(j + 1) = Zeros
      <4>1. Mixed(j + 1) = new.w_centre
        BY <1>7, <3>1
      <4> QED
        BY <3>1, <4>1 DEF Zeros
    <3>3. change = changes[Centres-1] /\ (new.converged <=> Less(change, RelDiff))
      BY <1>7, <1>8, <3>1
    <3>4. /\ w_centre'[r] = new.w_centre /\ w_sum'[r] = Zeros /\ w_count'[r] = Zeros
          /\ w_node'[r] = PartOf(new.w_node, r)
      BY <1>6, <1>9, <1>10, <3>2
    <3> HIDE DEF Mixed, SumsLeft, CountsLeft
    <3>5. CASE Less(change, RelDiff)
      <4>1. pc'[r] = "returned" /\ iter'[r] = m
        BY <1>9, <2>2, <3>5 DEF Decide, Following, Shaped
      <4>2. Serial(Iters) = new
        <5>1. m + 1 \in 0 .. Iters /\ Serial(m + 1).converged
          BY <1>5, <3>3, <3>5
        <5> QED
          BY <5>1, ConvergedStays
      <4>3. Done(r)'
        BY <1>2, <3>4, <4>1, <4>2 DEF Done
      <4>4. RangeKnown(r)'
        BY <1>2, <1>6, <1>9, <4>1 DEF RangeKnown
      <4>5. Beginning(r)' /\ Between(r)' /\ InIteration(r)' /\ TotalsKnown(r)'
        BY <4>1 DEF Beginning, Between, InIteration, TotalsKnown
      <4>6. NextCall(r)' = NextCall(r)
        <5>1. m # Iters
          BY <1>5
        <5> QED
          BY <1>1, <2>2, <4>1, <5>1 DEF NextCall
      <4> QED
        BY <4>3, <4>4, <4>5, <4>6 DEF Follows
    <3>6. CASE ~ Less(change, RelDiff)
      <4>1. pc'[r] = "label" /\ iter'[r] = m + 1 /\ diff'[r] = <<0, 1>>
        BY <1>9, <2>2, <3>6 DEF Decide, Following, Shaped
      <4>2. FirstDiff((m + 1) + 1) = <<0, 1>>
        <5>1. (m + 1) + 1 # 1
          BY <1>5
        <5> QED
          BY <5>1 DEF FirstDiff
      <4>3. Between(r)'
        BY <1>2, <3>3, <3>4, <3>6, <4>1, <4>2 DEF Between
      <4>4. RangeKnown(r)'
        BY <1>2, <1>6, <1>9, <4>1 DEF RangeKnown
      <4>5. Beginning(r)' /\ InIteration(r)' /\ TotalsKnown(r)' /\ Done(r)'
        BY <4>1 DEF Beginning, InIteration, TotalsKnown, Done
      <4>6. NextCall(r)' = NextCall(r)
        BY <1>1, <2>2, <4>1 DEF NextCall
      <4> QED
        BY <4>3, <4>4, <4>5, <4>6 DEF Follows
    <3> QED
      BY <3>5, <3>6
  <2> QED
    BY <2>1, <2>2
<1>12. \A q \in Ranks : Follows(q)' /\ NextCall(q)' = NextCall(q)
  BY <1>4, <1>11 DEF Following
<1> QED
  BY <1>3, <1>12 DEF Following

\* Every step keeps the invariant.
LEMMA FollowKept ==
  ASSUME FollowInv, [KMeansNext]_kmeansVars
  PROVE  FollowInv'
<1>1. w' = w
  BY DEF KMeansNext, kmeansVars, Collective, Own, ReduceMin, ReduceMax, SumCluster, CountCluster,
         EndWithoutData, LabelOwn, Update
<1>2. Filled' = Filled /\ w' \in [Ranks -> Seq(Int)]
  BY <1>1, SameData DEF FollowInv
<1>3. ASSUME Filled PROVE Following'
  <2>1. Following
    BY <1>3 DEF FollowInv, Following
  <2>2. CASE ReduceMin
    BY <1>3, <2>1, <2>2, ReduceMinFollows
  <2>3. CASE ReduceMax
    BY <1>3, <2>1, <2>3, ReduceMaxFollows
  <2>4. CASE SumCluster
    BY <1>3, <2>1, <2>4, SumClusterFollows
  <2>5. CASE CountCluster
    BY <1>3, <2>1, <2>5, CountClusterFollows
  <2>6. ASSUME NEW r \in Ranks, LabelOwn(r) PROVE Following'
    BY <1>3, <2>1, <2>6, LabelOwnFollows
  <2>7. ASSUME NEW r \in Ranks, Update(r) PROVE Following'
    BY <1>3, <2>1, <2>7, UpdateFollows
  <2>8. \A r \in Ranks : ~ EndWithoutData(r)
    BY <1>3 DEF Filled, EndWithoutData
  <2>9. CASE UNCHANGED kmeansVars
    <3>1. \A q \in Ranks : Follows(q)' = Follows(q) /\ NextCall(q)' = NextCall(q)
      BY <2>9, LeftAlone DEF kmeansVars
    <3>2. Shaped' = Shaped
      BY <2>9 DEF kmeansVars, Shaped
    <3> QED
      BY <2>1, <3>1, <3>2 DEF Following
  <2> QED
    BY <2>2, <2>3, <2>4, <2>5, <2>6, <2>7, <2>8, <2>9 DEF KMeansNext, Collective, Own
<1> QED
  BY <1>2, <1>3 DEF FollowInv, Following

\* What rank r knows of the data, its labels and its centres are at every call those of
\* the serial run on the data of all ranks, and all ranks are at the same call.
THEOREM FollowInvAlways == KMeansSpec => []FollowInv
<1>1. FollowInv /\ [KMeansNext]_kmeansVars => FollowInv'
  BY FollowKept
<1> QED
  BY <1>1, FollowBegins, PTL DEF KMeansSpec

\* Lists that lie in the same way are the same.
LEMMA LaidOnce ==
  ASSUME Filled, NEW S, NEW s, NEW x \in Seq(S), NEW own, s = [k \in 1 .. Before(Size) |-> s[k]],
         Laid(own, s), Laid(own, x)
  PROVE  x = s
<1>1. x = [k \in 1 .. Before(Size) |-> x[k]]
  <2>1. DOMAIN x = 1 .. Before(Size) /\ x = [k \in DOMAIN x |-> x[k]]
    BY DEF Laid
  <2> QED
    BY <2>1
<1>2. \A k \in 1 .. Before(Size) : x[k] = s[k]
  <2> SUFFICES ASSUME NEW k \in 1 .. Before(Size) PROVE x[k] = s[k]
    OBVIOUS
  <2>1. PICK r \in Ranks : \E i \in DOMAIN w[r] : k = Before(r) + i
    BY PlacesShared
  <2>2. PICK i \in DOMAIN w[r] : k = Before(r) + i
    BY <2>1
  <2> QED
    BY <2>2 DEF Laid
<1> QED
  BY <1>1, <1>2

\* The serial run has a label for every visibility.
LEMMA LabelsKnown ==
  ASSUME NEW m \in 0 .. Iters
  PROVE  Serial(m).w_node = [k \in DOMAIN AllW |-> Serial(m).w_node[k]]
<1> DEFINE Has(c) == c = [k \in DOMAIN AllW |-> c[k]]
           Fine == {n \in Nat : n <= Iters => Has(Serial(n).w_node)}
<1>1. 0 \in Fine
  <2>1. Serial(0).w_node = [i \in DOMAIN AllW |-> 0]
    BY SerialSteps
  <2> QED
    BY <2>1
<1>2. \A n \in Nat : n \in Fine => n + 1 \in Fine
  <2> HIDE DEF Has
  <2> SUFFICES ASSUME NEW n \in Nat, n \in Fine, n + 1 <= Iters
               PROVE  Has(Serial(n + 1).w_node)
    OBVIOUS
  <2>1. n \in 0 .. Iters-1 /\ n <= Iters
    BY ItersAssumption
  <2>2. Has(Serial(n).w_node)
    BY <2>1
  <2>3. CASE Serial(n).converged
    <3>1. Serial(n + 1) = Serial(n)
      BY <2>1, <2>3, SerialSteps
    <3> QED
      BY <2>2, <3>1
  <2>4. CASE ~ Serial(n).converged
    <3>1. Serial(n + 1).w_node = Labels(AllW, Serial(n).w_node, Serial(n).w_centre,
                                        Lowest(AllW), Highest(AllW))
      BY <2>1, <2>4, SerialIteration
    <3> QED
      BY <3>1 DEF Has, Labels
  <2> QED
    BY <2>3, <2>4
<1> HIDE DEF Fine
<1>3. m \in Nat /\ m <= Iters /\ m \in Fine
  BY <1>1, <1>2, Induction, ItersAssumption
<1> QED
  BY <1>3 DEF Fine

\* tests/kmeans.cc: if every rank has data, the labels of all ranks in rank order and
\* the centres of every rank are, when all have returned, those the serial overload of
\* kmeans_algo computes from the w terms of all.
THEOREM ClustersLikeSerial == KMeansSpec => []MatchesSerial
<1>1. FollowInv => MatchesSerial
  <2> SUFFICES ASSUME FollowInv, AllReturned, \A r \in Ranks : w[r] # <<>>
               PROVE  LET serial == SerialRun(InRankOrder(w))
                      IN  /\ InRankOrder(w_node) = serial.w_node
                          /\ \A r \in Ranks, j \in Nodes :
                               SameFraction(w_centre[r][j], serial.w_centre[j])
    BY DEF MatchesSerial
  <2>1. Filled
    BY DEF FollowInv, Filled
  <2>2. \A r \in Ranks : /\ w_node[r] = PartOf(Serial(Iters).w_node, r)
                         /\ w_centre[r] = Serial(Iters).w_centre
    BY <2>1 DEF FollowInv, Follows, Done, AllReturned
  <2> DEFINE s == Serial(Iters).w_node
             S == {s[k] : k \in DOMAIN AllW}
  <2>3. Iters \in 0 .. Iters
    BY ItersAssumption
  <2>4. s = [k \in DOMAIN AllW |-> s[k]] /\ DOMAIN AllW = 1 .. Before(Size)
    BY <2>1, <2>3, LabelsKnown, EntriesFinite DEF Laid
  <2>5. DOMAIN s = DOMAIN AllW
    BY <2>4
  <2> HIDE DEF s
  <2>6. Laid(w_node, s)
    BY <2>1, <2>2, <2>5, PartsLaid DEF s
  <2>7. \A r \in Ranks : w_node[r] \in Seq(S) /\ Len(w_node[r]) = Len(w[r])
    <3> SUFFICES ASSUME NEW r \in Ranks PROVE w_node[r] \in Seq(S) /\ Len(w_node[r]) = Len(w[r])
      OBVIOUS
    <3>1. DOMAIN w[r] = 1 .. Len(w[r]) /\ Len(w[r]) \in Nat
      BY <2>1, RanksBegin
    <3>2. w_node[r] = [i \in 1 .. Len(w[r]) |-> s[Before(r) + i]]
      BY <2>2, <3>1 DEF PartOf, s
    <3>3. \A i \in 1 .. Len(w[r]) : s[Before(r) + i] \in S
      BY <2>1, <2>4, <3>1, PlacesShared
    <3> HIDE DEF S
    <3>4. w_node[r] \in [1 .. Len(w[r]) -> S]
      BY <3>2, <3>3
    <3> QED
      BY <3>1, <3>4
  <2>8. InRankOrder(w_node) \in Seq(S) /\ Laid(w_node, InRankOrder(w_node))
    <3> HIDE DEF S
    <3> QED
      BY <2>1, <2>7, InRankOrderLaid
  <2>9. InRankOrder(w_node) = s
    <3>1. s = [k \in 1 .. Before(Size) |-> s[k]]
      BY <2>4
    <3> HIDE DEF S
    <3> QED
      BY <2>1, <2>6, <2>8, <3>1, LaidOnce
  <2>10. SerialRun(InRankOrder(w)) = Serial(Iters)
    BY DEF SerialRun, Serial, AllW
  <2> QED
    BY <2>2, <2>9, <2>10 DEF SameFraction, s
<1> QED
  BY <1>1, FollowInvAlways, PTL
(***************************************************************************)
(* The cost of the clusters: what a rank holds in terms of the history of  *)
(* the labels, with or without data on every rank.                         *)
(***************************************************************************)

\* The means of the clusters, over all ranks.
MeansOf(labels) ==
  [j \in Nodes |-> Mean(SumFunction([q \in Ranks |-> SumOf(w[q], labels[q], j)]),
                        SumFunction([q \in Ranks |-> CountOf(labels[q], j)]))]

\* Labels and centres after m iterations, and the labels of the next one.
LabelsAfter(m) == IF m = 0 THEN [r \in Ranks |-> [i \in DOMAIN w[r] |-> 0]] ELSE labelled[m].w_node
CentresAfter(m) == IF m = 0 THEN FirstCentres(wmin[0], wmax[0]) ELSE MeansOf(labelled[m].w_node)
NextLabels(m, r) == Labels(w[r], LabelsAfter(m)[r], CentresAfter(m), wmin[r], wmax[r])

\* diff of the (m+1)-th iteration, and whether the centres hardly moved in the m-th.
ChangesIn(m) == Changes(CentresAfter(m), CentresAfter(m + 1), FirstDiff(m + 1))
Converged(m) == m # 0 /\ Less(ChangesIn(m - 1)[Centres-1], RelDiff)

\* The number of labellings that have been through a collective call of rank r.
Labellings(r) ==
  IF pc[r] \in {"count", "update"} \/ (pc[r] = "sum" /\ node[r] # 0) \/ (pc[r] = "returned" /\ iter[r] # Iters)
  THEN iter[r] + 1 ELSE iter[r]

\* The range is an integer, and the same on all ranks when it has been reduced.
RangeShared(r) ==
  /\ wmin[r] \in Int /\ wmax[r] \in Int
  /\ pc[r] \notin {"min", "ended"} => wmin[r] = wmin[0]
  /\ pc[r] \notin {"min", "max", "ended"} => wmax[r] = wmax[0]

BeforeFirst(r) ==
  pc[r] \in {"min", "max", "ended"} =>
    /\ iter[r] = 0 /\ node[r] = 0 /\ diff[r] = <<1, 1>>
    /\ w_node[r] = [i \in DOMAIN w[r] |-> 0]
    /\ w_sum[r] = Zeros /\ w_count[r] = Zeros

BeforeLabelling(r) ==
  pc[r] = "label" =>
    /\ w_node[r] = LabelsAfter(iter[r])[r] /\ w_centre[r] = CentresAfter(iter[r])
    /\ w_sum[r] = Zeros /\ w_count[r] = Zeros
    /\ diff[r] = FirstDiff(iter[r] + 1) /\ ~ Converged(iter[r])

InUpdates(r) ==
  pc[r] \in {"sum", "count", "update"} =>
    /\ iter[r] < Iters /\ ~ Converged(iter[r])
    /\ w_node[r] = NextLabels(iter[r], r)
    /\ w_centre[r] = [k \in Nodes |-> IF k < node[r] THEN CentresAfter(iter[r] + 1)[k]
                                      ELSE CentresAfter(iter[r])[k]]
    /\ w_sum[r] = [k \in Nodes |-> IF k < node[r] THEN 0 ELSE SumOf(w[r], w_node[r], k)]
    /\ w_count[r] = [k \in Nodes |-> IF k < node[r] THEN 0 ELSE CountOf(w_node[r], k)]
    /\ diff[r] = ChangesIn(iter[r])[node[r] - 1]

TotalsReduced(r) ==
  LET labels == labelled[iter[r] + 1].w_node
  IN  /\ pc[r] \in {"count", "update"} =>
           total[r][1] = SumFunction([q \in Ranks |-> SumOf(w[q], labels[q], node[r])])
      /\ pc[r] = "update" =>
           total[r][2] = SumFunction([q \in Ranks |-> CountOf(labels[q], node[r])])

\* Every labelling so far was done with the centres that the one before it led to.
HistoryOf(k) ==
  /\ labelled[k] = [w_centre |-> CentresAfter(k - 1), w_node |-> [r \in Ranks |-> NextLabels(k - 1, r)]]
  /\ ~ Converged(k - 1)

Keeps(r) ==
  /\ RangeShared(r) /\ BeforeFirst(r) /\ BeforeLabelling(r) /\ InUpdates(r) /\ TotalsReduced(r)
  /\ Len(labelled) = Labellings(r)

\* The inductive invariant.
HistoryInv ==
  /\ w \in [Ranks -> Seq(Int)] /\ Shaped
  /\ w_node = [r \in Ranks |-> w_node[r]]
  /\ labelled \in Seq({labelled[k] : k \in DOMAIN labelled})
  /\ \A k \in 1 .. Len(labelled) : HistoryOf(k)
  /\ \A r \in Ranks : Keeps(r)
  /\ \A q, r \in Ranks : NextCall(q) = NextCall(r)

(***************************************************************************)
(* What is defined by the history.                                         *)
(***************************************************************************)

\* The labellings so far say what they said when another one is appended.
LEMMA HistoryGrows ==
  ASSUME NEW n \in Nat, w' = w, wmin' = wmin, wmax' = wmax,
         \A k \in 1 .. n : labelled'[k] = labelled[k]
  PROVE  /\ \A labels : MeansOf(labels)' = MeansOf(labels)
         /\ \A m \in 0 .. n : /\ LabelsAfter(m)' = LabelsAfter(m) /\ CentresAfter(m)' = CentresAfter(m)
                              /\ \A r \in Ranks : NextLabels(m, r)' = NextLabels(m, r)
         /\ \A m \in 0 .. n : Converged(m)' = Converged(m)
         /\ \A m \in 0 .. n : m < n => ChangesIn(m)' = ChangesIn(m)
         /\ \A k \in 1 .. n : HistoryOf(k)' = HistoryOf(k)
<1>1. \A labels : MeansOf(labels)' = MeansOf(labels)
  BY DEF MeansOf
<1>2. \A m \in 0 .. n : LabelsAfter(m)' = LabelsAfter(m) /\ CentresAfter(m)' = CentresAfter(m)
  <2> SUFFICES ASSUME NEW m \in 0 .. n
               PROVE  LabelsAfter(m)' = LabelsAfter(m) /\ CentresAfter(m)' = CentresAfter(m)
    OBVIOUS
  <2>1. CASE m = 0
    BY <2>1 DEF LabelsAfter, CentresAfter
  <2>2. CASE m # 0
    <3>1. m \in 1 .. n
      BY <2>2
    <3>2. labelled'[m] = labelled[m]
      BY <3>1
    <3> QED
      BY <1>1, <2>2, <3>2 DEF LabelsAfter, CentresAfter
  <2> QED
    BY <2>1, <2>2
<1>3. \A m \in 0 .. n : \A r \in Ranks : NextLabels(m, r)' = NextLabels(m, r)
  BY <1>2 DEF NextLabels
<1>4. \A m \in 0 .. n : m < n => ChangesIn(m)' = ChangesIn(m)
  <2> SUFFICES ASSUME NEW m \in 0 .. n, m < n PROVE ChangesIn(m)' = ChangesIn(m)
    OBVIOUS
  <2>1. m + 1 \in 0 .. n
    OBVIOUS
  <2> QED
    BY <1>2, <2>1 DEF ChangesIn
<1>5. \A m \in 0 .. n : Converged(m)' = Converged(m)
  <2> SUFFICES ASSUME NEW m \in 0 .. n PROVE Converged(m)' = Converged(m)
    OBVIOUS
  <2>1. m # 0 => m - 1 \in 0 .. n /\ m - 1 < n
    OBVIOUS
  <2> QED
    BY <1>4, <2>1 DEF Converged
<1>6. \A k \in 1 .. n : HistoryOf(k)' = HistoryOf(k)
  <2> SUFFICES ASSUME NEW k \in 1 .. n PROVE HistoryOf(k)' = HistoryOf(k)
    OBVIOUS
  <2>1. k - 1 \in 0 .. n
    OBVIOUS
  <2>2. /\ labelled'[k] = labelled[k] /\ CentresAfter(k - 1)' = CentresAfter(k - 1)
        /\ Converged(k - 1)' = Converged(k - 1)
        /\ \A r \in Ranks : NextLabels(k - 1, r)' = NextLabels(k - 1, r)
    BY <1>2, <1>3, <1>5, <2>1
  <2>3. [r \in Ranks |-> NextLabels(k - 1, r)]' = [r \in Ranks |-> NextLabels(k - 1, r)]
    BY <2>2
  <2> QED
    BY <2>2, <2>3 DEF HistoryOf
<1> QED
  BY <1>1, <1>2, <1>3, <1>4, <1>5, <1>6

\* And all of it stays when none is appended.
LEMMA HistoryStays ==
  ASSUME w' = w, wmin' = wmin, wmax' = wmax, labelled' = labelled
  PROVE  /\ \A labels : MeansOf(labels)' = MeansOf(labels)
         /\ \A m : LabelsAfter(m)' = LabelsAfter(m) /\ CentresAfter(m)' = CentresAfter(m)
         /\ \A m, r : NextLabels(m, r)' = NextLabels(m, r)
         /\ \A m : Converged(m)' = Converged(m) /\ ChangesIn(m)' = ChangesIn(m)
         /\ \A k : HistoryOf(k)' = HistoryOf(k)
<1>1. \A labels : MeansOf(labels)' = MeansOf(labels)
  BY DEF MeansOf
<1>2. \A m : LabelsAfter(m)' = LabelsAfter(m) /\ CentresAfter(m)' = CentresAfter(m)
  BY <1>1 DEF LabelsAfter, CentresAfter
<1>3. \A m, r : NextLabels(m, r)' = NextLabels(m, r)
  BY <1>2 DEF NextLabels
<1>4. \A m : ChangesIn(m)' = ChangesIn(m)
  BY <1>2 DEF ChangesIn
<1>5. \A m : Converged(m)' = Converged(m)
  BY <1>4 DEF Converged
<1> QED
  BY <1>1, <1>2, <1>3, <1>4, <1>5 DEF HistoryOf

\* A step that leaves a rank and the history alone leaves what the rank holds.
LEMMA KeptAlone ==
  ASSUME NEW q, w' = w, wmin' = wmin, wmax' = wmax, labelled' = labelled, w_node'[q] = w_node[q],
         w_centre'[q] = w_centre[q], w_sum'[q] = w_sum[q], w_count'[q] = w_count[q],
         total'[q] = total[q], diff'[q] = diff[q], iter'[q] = iter[q], node'[q] = node[q],
         pc'[q] = pc[q]
  PROVE  Keeps(q)' = Keeps(q) /\ NextCall(q)' = NextCall(q)
<1>1. /\ \A m : LabelsAfter(m)' = LabelsAfter(m) /\ CentresAfter(m)' = CentresAfter(m)
      /\ \A m, r : NextLabels(m, r)' = NextLabels(m, r)
      /\ \A m : Converged(m)' = Converged(m) /\ ChangesIn(m)' = ChangesIn(m)
  BY HistoryStays
<1>2. RangeShared(q)' = RangeShared(q)
  BY DEF RangeShared
<1>3. BeforeFirst(q)' = BeforeFirst(q)
  BY DEF BeforeFirst
<1>4. BeforeLabelling(q)' = BeforeLabelling(q)
  BY <1>1 DEF BeforeLabelling
<1>5. InUpdates(q)' = InUpdates(q)
  BY <1>1 DEF InUpdates
<1>6. TotalsReduced(q)' = TotalsReduced(q)
  BY DEF TotalsReduced
<1>7. Labellings(q)' = Labellings(q)
  BY DEF Labellings
<1>8. NextCall(q)' = NextCall(q)
  BY DEF NextCall
<1> QED
  BY <1>2, <1>3, <1>4, <1>5, <1>6, <1>7, <1>8 DEF Keeps

(***************************************************************************)
(* The invariant of the history is kept.                                   *)
(***************************************************************************)

\* The sequences are made of what they hold.
LEMMA OfItsEntries ==
  ASSUME NEW T, NEW s \in Seq(T)
  PROVE  s \in Seq({s[k] : k \in DOMAIN s})
<1>1. s \in [1 .. Len(s) -> {s[k] : k \in DOMAIN s}] /\ Len(s) \in Nat
  OBVIOUS
<1> QED
  BY <1>1

\* There is a root, and the ranks are finitely many.
LEMMA RootExists == 0 \in Ranks /\ IsFiniteSet(Ranks)
<1>1. 0 \in Int /\ Size-1 \in Int /\ Size > 0
  BY SizeAssumption
<1>2. IsFiniteSet(0 .. Size-1)
  BY <1>1, FS_Interval
<1>3. 0 \in 0 .. Size-1
  BY SizeAssumption
<1> QED
  BY <1>2, <1>3 DEF Ranks

\* The extremes of w terms are among them.
LEMMA OwnRange ==
  ASSUME NEW x \in Seq(Int), x # <<>>
  PROVE  Lowest(x) \in Int /\ Highest(x) \in Int
<1> DEFINE S == {x[k] : k \in DOMAIN x}
           f == [k \in DOMAIN x |-> x[k]]
<1>1. Len(x) \in Nat /\ DOMAIN x = 1 .. Len(x) /\ Len(x) # 0 /\ \A k \in DOMAIN x : x[k] \in Int
  BY EmptySeq
<1>2. 1 \in DOMAIN x /\ IsFiniteSet(DOMAIN x)
  BY <1>1, FS_Interval
<1>3. S \in SUBSET Int /\ S # {}
  BY <1>1, <1>2
<1>4. f \in Surjection(DOMAIN x, S)
  BY DEF Surjection
<1> HIDE DEF S, f
<1>5. IsFiniteSet(S)
  BY <1>2, <1>4, FS_Surjection
<1>6. Min(S) \in Int /\ Max(S) \in Int
  BY <1>3, <1>5, Extremes
<1> QED
  BY <1>6 DEF Lowest, Highest, S

LEMMA HistoryBegins == KMeansInit => HistoryInv
<1> SUFFICES ASSUME KMeansInit PROVE HistoryInv
  OBVIOUS
<1>1. w \in [Ranks -> Seq(Int)]
  BY FollowBegins DEF FollowInv
<1>2. 0 \in 0 .. Iters /\ 0 \in Nodes
  BY ItersAssumption, CentresAssumption DEF Nodes
<1>3. Shaped
  BY <1>2 DEF Shaped, KMeansInit
<1>4. ASSUME NEW r \in Ranks
      PROVE  /\ pc[r] = "min" /\ iter[r] = 0 /\ node[r] = 0 /\ diff[r] = <<1, 1>>
             /\ w_node[r] = [i \in DOMAIN w[r] |-> 0]
             /\ w_sum[r] = Zeros /\ w_count[r] = Zeros
             /\ wmin[r] \in Int /\ wmax[r] \in Int
  <2>1. w[r] \in Seq(Int)
    BY <1>1
  <2>2. w[r] # <<>> => Lowest(w[r]) \in Int /\ Highest(w[r]) \in Int
    BY <2>1, OwnRange
  <2> QED
    BY <2>2 DEF KMeansInit
<1>5. labelled = <<>>
  BY DEF KMeansInit
<1>6. labelled \in Seq({labelled[k] : k \in DOMAIN labelled}) /\ Len(labelled) = 0
  BY <1>5, EmptySeq
<1>7. \A r \in Ranks : Keeps(r)
  BY <1>4, <1>6 DEF Keeps, RangeShared, BeforeFirst, BeforeLabelling, InUpdates, TotalsReduced,
                    Labellings
<1>8. \A r \in Ranks : NextCall(r) = <<0, 0>>
  BY <1>4 DEF NextCall
<1>9. \A k \in 1 .. Len(labelled) : HistoryOf(k)
  BY <1>6
<1>10. w_node = [r \in Ranks |-> w_node[r]]
  BY DEF KMeansInit
<1> QED
  BY <1>1, <1>3, <1>6, <1>7, <1>8, <1>9, <1>10 DEF HistoryInv

\* The first reductions: before them nothing has been labelled.
LEMMA NothingLabelled ==
  ASSUME HistoryInv, NEW call \in {"min", "max"}, AllAt(call)
  PROVE  labelled = <<>> /\ Len(labelled) = 0
<1>1. 0 \in Ranks
  BY RootExists
<1>2. Keeps(0) /\ pc[0] = call
  BY <1>1 DEF HistoryInv, AllAt
<1>3. Len(labelled) = 0
  BY <1>2 DEF Keeps, Labellings, BeforeFirst
<1> QED
  BY <1>3 DEF HistoryInv

LEMMA ReduceMinKeeps ==
  ASSUME HistoryInv, ReduceMin
  PROVE  HistoryInv'
<1>1. /\ w' = w /\ labelled' = labelled /\ \A r \in Ranks : pc[r] = "min" /\ pc'[r] = "max"
  BY DEF ReduceMin, AllAt, Proceed
<1>2. Len(labelled) = 0 /\ 0 \in Ranks
  BY NothingLabelled, RootExists DEF ReduceMin
<1>3. \A r \in Ranks : wmin'[r] \in Int /\ wmin'[r] = wmin'[0]
  <2> DEFINE S == {wmin[q] : q \in Ranks}
  <2>1. \A r \in Ranks : wmin[r] \in Int
    BY DEF HistoryInv, Keeps, RangeShared
  <2>2. S \in SUBSET Int /\ S # {}
    BY <1>2, <2>1
  <2>3. IsFiniteSet(S)
    <3> DEFINE f == [q \in Ranks |-> wmin[q]]
    <3>1. f \in Surjection(Ranks, S)
      BY DEF Surjection
    <3>2. IsFiniteSet(Ranks)
      BY RootExists
    <3> HIDE DEF f, S
    <3> QED
      BY <3>1, <3>2, FS_Surjection
  <2>4. Min(S) \in Int
    <3> HIDE DEF S
    <3> QED
      BY <2>2, <2>3, Extremes
  <2> QED
    BY <1>2, <2>4 DEF ReduceMin
<1>4. Shaped'
  BY DEF HistoryInv, Shaped, ReduceMin, Proceed
<1>5. ASSUME NEW r \in Ranks PROVE Keeps(r)' /\ NextCall(r)' = <<0, 0>>
  <2>1. pc[r] = "min" /\ pc'[r] = "max" /\ Keeps(r)
    BY <1>1 DEF HistoryInv
  <2>2. RangeShared(r)'
    BY <1>3, <2>1 DEF Keeps, RangeShared, ReduceMin
  <2>3. BeforeFirst(r)' /\ iter'[r] = 0
    BY <1>1, <2>1 DEF Keeps, BeforeFirst, ReduceMin
  <2>4. BeforeLabelling(r)' /\ InUpdates(r)' /\ TotalsReduced(r)'
    BY <2>1 DEF BeforeLabelling, InUpdates, TotalsReduced
  <2>5. Len(labelled') = Labellings(r)'
    BY <1>1, <1>2, <2>1, <2>3 DEF Labellings
  <2> QED
    BY <2>1, <2>2, <2>3, <2>4, <2>5 DEF Keeps, NextCall
<1>6. w' \in [Ranks -> Seq(Int)] /\ (labelled \in Seq({labelled[k] : k \in DOMAIN labelled}))'
  BY <1>1 DEF HistoryInv
<1>7. \A k \in 1 .. Len(labelled') : HistoryOf(k)'
  BY <1>1, <1>2
<1>8. (w_node = [r \in Ranks |-> w_node[r]])'
  BY DEF HistoryInv, ReduceMin
<1> QED
  BY <1>4, <1>5, <1>6, <1>7, <1>8 DEF HistoryInv

LEMMA ReduceMaxKeeps ==
  ASSUME HistoryInv, ReduceMax
  PROVE  HistoryInv'
<1>1. /\ w' = w /\ labelled' = labelled /\ \A r \in Ranks : pc[r] = "max" /\ pc'[r] = "label"
  BY DEF ReduceMax, AllAt, Proceed
<1>2. Len(labelled) = 0 /\ 0 \in Ranks
  BY NothingLabelled, RootExists DEF ReduceMax
<1>3. \A r \in Ranks : wmax'[r] \in Int /\ wmax'[r] = wmax'[0]
  <2> DEFINE S == {wmax[q] : q \in Ranks}
  <2>1. \A r \in Ranks : wmax[r] \in Int
    BY DEF HistoryInv, Keeps, RangeShared
  <2>2. S \in SUBSET Int /\ S # {}
    BY <1>2, <2>1
  <2>3. IsFiniteSet(S)
    <3> DEFINE f == [q \in Ranks |-> wmax[q]]
    <3>1. f \in Surjection(Ranks, S)
      BY DEF Surjection
    <3>2. IsFiniteSet(Ranks)
      BY RootExists
    <3> HIDE DEF f, S
    <3> QED
      BY <3>1, <3>2, FS_Surjection
  <2>4. Max(S) \in Int
    <3> HIDE DEF S
    <3> QED
      BY <2>2, <2>3, Extremes
  <2> QED
    BY <1>2, <2>4 DEF ReduceMax
<1>4. Shaped'
  BY DEF HistoryInv, Shaped, ReduceMax, Proceed
<1>5. ASSUME NEW r \in Ranks PROVE Keeps(r)' /\ NextCall(r)' = <<0, 0>>
  <2>1. pc[r] = "max" /\ pc'[r] = "label" /\ Keeps(r)
    BY <1>1 DEF HistoryInv
  <2>2. RangeShared(r)'
    BY <1>3, <2>1 DEF Keeps, RangeShared, ReduceMax
  <2>3. /\ iter'[r] = 0 /\ diff'[r] = <<1, 1>> /\ w_node'[r] = [i \in DOMAIN w[r] |-> 0]
        /\ w_sum'[r] = Zeros /\ w_count'[r] = Zeros
        /\ w_centre'[r] = FirstCentres(wmin'[r], wmax'[r])
    BY <2>1 DEF Keeps, BeforeFirst, ReduceMax
  <2>4. wmin'[r] = wmin'[0] /\ wmax'[r] = wmax'[0]
    BY <1>2, <2>1, <2>2 DEF RangeShared
  <2>5. BeforeLabelling(r)'
    <3>1. LabelsAfter(0)'[r] = [i \in DOMAIN w[r] |-> 0]
      BY <1>1 DEF LabelsAfter
    <3>2. CentresAfter(0)' = FirstCentres(wmin'[0], wmax'[0])
      BY DEF CentresAfter
    <3>3. FirstDiff(0 + 1) = <<1, 1>>
      BY DEF FirstDiff
    <3>4. ~ Converged(0)'
      BY DEF Converged
    <3>5. /\ (w_node[r] = LabelsAfter(iter[r])[r])' /\ (w_centre[r] = CentresAfter(iter[r]))'
          /\ (diff[r] = FirstDiff(iter[r] + 1))' /\ (~ Converged(iter[r]))'
      BY <2>3, <2>4, <3>1, <3>2, <3>3, <3>4
    <3> QED
      BY <2>3, <3>5 DEF BeforeLabelling
  <2>6. BeforeFirst(r)' /\ InUpdates(r)' /\ TotalsReduced(r)'
    BY <2>1 DEF BeforeFirst, InUpdates, TotalsReduced
  <2>7. Len(labelled') = Labellings(r)'
    BY <1>1, <1>2, <2>1, <2>3 DEF Labellings
  <2> QED
    BY <2>1, <2>2, <2>3, <2>5, <2>6, <2>7 DEF Keeps, NextCall
<1>6. w' \in [Ranks -> Seq(Int)] /\ (labelled \in Seq({labelled[k] : k \in DOMAIN labelled}))'
  BY <1>1 DEF HistoryInv
<1>7. \A k \in 1 .. Len(labelled') : HistoryOf(k)'
  BY <1>1, <1>2
<1>8. (w_node = [r \in Ranks |-> w_node[r]])'
  BY DEF HistoryInv, ReduceMax
<1> QED
  BY <1>4, <1>5, <1>6, <1>7, <1>8 DEF HistoryInv

\* The ranks that are at the same call are in the same iteration and at the same cluster.
LEMMA SamePlace ==
  ASSUME HistoryInv, NEW q \in Ranks, NEW r \in Ranks, NEW call \in {"sum", "count"},
         pc[q] = call, pc[r] = call
  PROVE  iter[q] = iter[r] /\ node[q] = node[r]
<1>1. NextCall(q) = NextCall(r)
  BY DEF HistoryInv
<1>2. NextCall(q) = <<iter[q], node[q]>> /\ NextCall(r) = <<iter[r], node[r]>>
  BY DEF NextCall
<1>3. <<iter[q], node[q]>> = <<iter[r], node[r]>>
  BY <1>1, <1>2
<1> QED
  BY ONLY <1>3

\* There is a centre for every cluster.
LEMMA CentreOfEach == \A m : CentresAfter(m) = [k \in Nodes |-> CentresAfter(m)[k]]
<1> SUFFICES ASSUME NEW m PROVE CentresAfter(m) = [k \in Nodes |-> CentresAfter(m)[k]]
  OBVIOUS
<1>1. CASE m = 0
  BY <1>1 DEF CentresAfter, FirstCentres
<1>2. CASE m # 0
  BY <1>2 DEF CentresAfter, MeansOf
<1> QED
  BY <1>1, <1>2

\* The labels with which the ranks sum up are the last of the history.
LEMMA SumClusterKeeps ==
  ASSUME HistoryInv, SumCluster
  PROVE  HistoryInv'
<1>0. PICK n, j : n = iter[0] /\ j = node[0]
  OBVIOUS
<1> DEFINE labelling == [w_centre |-> w_centre[0], w_node |-> w_node]
<1>1. /\ w' = w /\ wmin' = wmin /\ wmax' = wmax /\ \A r \in Ranks : pc[r] = "sum" /\ pc'[r] = "count"
      /\ w_node' = w_node /\ w_centre' = w_centre /\ w_sum' = w_sum /\ w_count' = w_count
      /\ diff' = diff /\ iter' = iter /\ node' = node
  BY DEF SumCluster, AllAt, Proceed
<1>2. 0 \in Ranks /\ \A r \in Ranks : Keeps(r) /\ iter[r] \in 0 .. Iters /\ node[r] \in Nodes
  BY RootExists DEF HistoryInv, Shaped
<1>3. \A r \in Ranks : iter[r] = n /\ node[r] = j
  <2>1. "sum" \in {"sum", "count"}
    OBVIOUS
  <2> QED
    BY <1>0, <1>1, <1>2, <2>1, SamePlace
<1>4. Shaped'
  BY DEF HistoryInv, Shaped, SumCluster, Proceed
<1>5. /\ n \in Nat /\ n < Iters /\ n + 1 \in Nat /\ j \in Nodes /\ j \in Int /\ j >= 0
  <2>1. n < Iters
    BY <1>0, <1>1, <1>2 DEF Keeps, InUpdates
  <2> QED
    BY <1>0, <1>2, <2>1, CentresAssumption, ItersAssumption DEF Nodes
<1>6. \A r \in Ranks :
        /\ ~ Converged(n) /\ w_node[r] = NextLabels(n, r)
        /\ w_centre[r] = [k \in Nodes |-> IF k < j THEN CentresAfter(n + 1)[k] ELSE CentresAfter(n)[k]]
        /\ w_sum[r] = [k \in Nodes |-> IF k < j THEN 0 ELSE SumOf(w[r], w_node[r], k)]
        /\ w_count[r] = [k \in Nodes |-> IF k < j THEN 0 ELSE CountOf(w_node[r], k)]
        /\ diff[r] = ChangesIn(n)[j - 1]
  <2> SUFFICES ASSUME NEW r \in Ranks
               PROVE  /\ ~ Converged(iter[r]) /\ w_node[r] = NextLabels(iter[r], r)
                      /\ w_centre[r] = [k \in Nodes |-> IF k < node[r] THEN CentresAfter(iter[r] + 1)[k]
                                                        ELSE CentresAfter(iter[r])[k]]
                      /\ w_sum[r] = [k \in Nodes |-> IF k < node[r] THEN 0 ELSE SumOf(w[r], w_node[r], k)]
                      /\ w_count[r] = [k \in Nodes |-> IF k < node[r] THEN 0 ELSE CountOf(w_node[r], k)]
                      /\ diff[r] = ChangesIn(iter[r])[node[r] - 1]
    BY <1>3
  <2>1. pc[r] = "sum" /\ InUpdates(r)
    BY <1>1, <1>2 DEF Keeps
  <2> QED
    BY <2>1 DEF InUpdates
<1>7. w_node = [r \in Ranks |-> NextLabels(n, r)]
  BY <1>6 DEF HistoryInv
<1>8. labelled' = (IF j = 0 THEN Append(labelled, labelling) ELSE labelled)
  BY <1>0 DEF SumCluster
<1> DEFINE T == {labelled[k] : k \in DOMAIN labelled}
<1>9. labelled \in Seq(T) /\ Len(labelled) = (IF j = 0 THEN n ELSE n + 1)
      /\ \A k \in 1 .. Len(labelled) : HistoryOf(k)
  <2>1. Len(labelled) = Labellings(0)
    BY <1>2 DEF Keeps
  <2>2. Labellings(0) = (IF j = 0 THEN n ELSE n + 1)
    BY <1>0, <1>1, <1>2 DEF Labellings
  <2> QED
    BY <2>1, <2>2 DEF HistoryInv
<1> HIDE DEF labelling, T
<1>10. /\ Len(labelled') = n + 1 /\ labelled'[n + 1].w_node = w_node
       /\ \A k \in 1 .. Len(labelled) : labelled'[k] = labelled[k]
       /\ (labelled \in Seq({labelled[k] : k \in DOMAIN labelled}))'
  <2>1. CASE j = 0
    <3>1. labelled' = Append(labelled, labelling) /\ Len(labelled) = n
      BY <1>8, <1>9, <2>1
    <3>2. labelled \in Seq(T \cup {labelling}) /\ labelling \in T \cup {labelling}
      BY <1>9
    <3>3. /\ labelled' \in Seq(T \cup {labelling}) /\ Len(labelled') = n + 1 /\ labelled'[n + 1] = labelling
          /\ \A k \in 1 .. Len(labelled) : labelled'[k] = labelled[k]
      <4> DEFINE U == T \cup {labelling}
      <4>1. labelled \in Seq(U) /\ labelling \in U
        BY <3>2
      <4> HIDE DEF U
      <4> QED
        BY <3>1, <4>1 DEF U
    <3>4. labelling.w_node = w_node
      BY DEF labelling
    <3>5. labelled' \in Seq({labelled'[k] : k \in DOMAIN labelled'})
      BY <3>3, OfItsEntries
    <3> QED
      BY <3>3, <3>4, <3>5
  <2>2. CASE j # 0
    <3>1. labelled' = labelled /\ Len(labelled) = n + 1
      BY <1>8, <1>9, <2>2
    <3>2. n + 1 \in 1 .. Len(labelled) /\ (n + 1) - 1 = n
      BY <1>5, <3>1
    <3>3. labelled[n + 1] = [w_centre |-> CentresAfter(n), w_node |-> [r \in Ranks |-> NextLabels(n, r)]]
      <4>1. HistoryOf(n + 1)
        BY <1>9, <3>2
      <4> QED
        BY <3>2, <4>1 DEF HistoryOf
    <3>4. labelled[n + 1].w_node = w_node
      BY <1>7, <3>3
    <3>5. (labelled \in Seq({labelled[k] : k \in DOMAIN labelled}))'
      BY <3>1 DEF HistoryInv
    <3> QED
      BY <3>1, <3>4, <3>5
  <2> QED
    BY <2>1, <2>2
<1>11. /\ CentresAfter(n)' = CentresAfter(n) /\ LabelsAfter(n)' = LabelsAfter(n)
       /\ (\A r \in Ranks : NextLabels(n, r)' = NextLabels(n, r))
       /\ Converged(n)' = Converged(n) /\ (j # 0 => CentresAfter(n + 1)' = CentresAfter(n + 1))
       /\ (j # 0 => ChangesIn(n)' = ChangesIn(n))
       /\ \A k \in 1 .. Len(labelled) : HistoryOf(k)' = HistoryOf(k)
  <2>1. CASE j = 0
    <3>1. Len(labelled) = n
      BY <1>9, <2>1
    <3>2. n \in Nat /\ (\A k \in 1 .. n : labelled'[k] = labelled[k]) /\ n \in 0 .. n
      BY <1>5, <1>10, <3>1
    <3>3. w' = w /\ wmin' = wmin /\ wmax' = wmax
      BY <1>1
    <3> QED
      BY <2>1, <3>1, <3>2, <3>3, HistoryGrows
  <2>2. CASE j # 0
    <3>1. labelled' = labelled
      BY <1>8, <2>2
    <3> QED
      BY <1>1, <3>1, HistoryStays
  <2> QED
    BY <2>1, <2>2
<1>12. \A k \in 1 .. Len(labelled') : HistoryOf(k)'
  <2>1. CASE j = 0
    <3>1. labelled'[n + 1] = [w_centre |-> CentresAfter(n), w_node |-> [r \in Ranks |-> NextLabels(n, r)]]
      <4>1. w_centre[0] = CentresAfter(n)
        <5>1. \A k \in Nodes : ~(k < j)
          BY <2>1, CentresAssumption DEF Nodes
        <5> QED
          BY <1>2, <1>6, <5>1, CentreOfEach
      <4>2. labelled'[n + 1] = labelling
        <5>1. labelled' = Append(labelled, labelling) /\ Len(labelled) = n
          BY <1>8, <1>9, <2>1
        <5> QED
          BY <1>9, <5>1
      <4> QED
        BY <1>7, <4>1, <4>2 DEF labelling
    <3>2. HistoryOf(n + 1)'
      <4>1. (n + 1) - 1 = n
        BY <1>5
      <4>2. [r \in Ranks |-> NextLabels(n, r)]' = [r \in Ranks |-> NextLabels(n, r)]
        BY <1>11
      <4>3. ~ Converged(n)
        BY <1>2, <1>6
      <4> QED
        BY <1>11, <3>1, <4>1, <4>2, <4>3 DEF HistoryOf
    <3>3. Len(labelled') = n + 1 /\ Len(labelled) = n
      BY <1>9, <1>10, <2>1
    <3>4. \A k \in 1 .. Len(labelled') : k = n + 1 \/ k \in 1 .. Len(labelled)
      BY <1>5, <3>3
    <3>5. \A k \in 1 .. Len(labelled) : HistoryOf(k)'
      BY <1>9, <1>11
    <3> QED
      BY <3>2, <3>4, <3>5
  <2>2. CASE j # 0
    <3>1. Len(labelled') = Len(labelled)
      BY <1>8, <2>2
    <3> QED
      BY <1>9, <1>11, <3>1
  <2> QED
    BY <2>1, <2>2
<1>13. ASSUME NEW r \in Ranks PROVE Keeps(r)' /\ NextCall(r)' = NextCall(r)
  <2>1. /\ pc[r] = "sum" /\ pc'[r] = "count" /\ Keeps(r) /\ iter[r] = n /\ node[r] = j
        /\ iter'[r] = n /\ node'[r] = j
    BY <1>1, <1>2, <1>3
  <2>2. RangeShared(r)'
    BY <1>1, <2>1 DEF Keeps, RangeShared
  <2>3. InUpdates(r)'
    <3>1. [k \in Nodes |-> IF k < j THEN CentresAfter(n + 1)[k] ELSE CentresAfter(n)[k]]
            = [k \in Nodes |-> IF k < j THEN CentresAfter(n + 1)'[k] ELSE CentresAfter(n)'[k]]
      <4>1. CASE j = 0
        <5>1. \A k \in Nodes : ~(k < j)
          BY <4>1, CentresAssumption DEF Nodes
        <5> QED
          BY <1>11, <5>1
      <4>2. CASE j # 0
        BY <1>11, <4>2
      <4> QED
        BY <4>1, <4>2
    <3>2. ChangesIn(n)[j - 1] = ChangesIn(n)'[j - 1]
      <4>1. CASE j = 0
        <5>1. j - 1 = -1
          BY <4>1
        <5>2. ChangesIn(n)[-1] = FirstDiff(n + 1) /\ ChangesIn(n)'[-1] = FirstDiff(n + 1)
          BY ChangesDefined DEF ChangesIn
        <5> QED
          BY <5>1, <5>2
      <4>2. CASE j # 0
        BY <1>11, <4>2
      <4> QED
        BY <4>1, <4>2
    <3>3. /\ w_node'[r] = NextLabels(n, r)' /\ ~ Converged(n)'
          /\ w_centre'[r] = [k \in Nodes |-> IF k < j THEN CentresAfter(n + 1)'[k] ELSE CentresAfter(n)'[k]]
          /\ diff'[r] = ChangesIn(n)'[j - 1]
      BY <1>1, <1>6, <1>11, <3>1, <3>2
    <3>4. /\ w_sum'[r] = [k \in Nodes |-> IF k < j THEN 0 ELSE SumOf(w'[r], w_node'[r], k)]
          /\ w_count'[r] = [k \in Nodes |-> IF k < j THEN 0 ELSE CountOf(w_node'[r], k)]
      BY <1>1, <1>6
    <3>5. iter'[r] < Iters
      BY <1>5, <2>1
    <3>6. /\ (w_node[r] = NextLabels(iter[r], r))' /\ (~ Converged(iter[r]))'
          /\ (w_centre[r] = [k \in Nodes |-> IF k < node[r] THEN CentresAfter(iter[r] + 1)[k]
                                              ELSE CentresAfter(iter[r])[k]])'
          /\ (diff[r] = ChangesIn(iter[r])[node[r] - 1])'
      BY <2>1, <3>3
    <3>7. /\ (w_sum[r] = [k \in Nodes |-> IF k < node[r] THEN 0 ELSE SumOf(w[r], w_node[r], k)])'
          /\ (w_count[r] = [k \in Nodes |-> IF k < node[r] THEN 0 ELSE CountOf(w_node[r], k)])'
      BY <2>1, <3>4
    <3> QED
      BY <3>5, <3>6, <3>7 DEF InUpdates
  <2>4. TotalsReduced(r)'
    <3>1. [q \in Ranks |-> w_sum[q][node[q]]] = [q \in Ranks |-> SumOf(w[q], w_node[q], j)]
      <4>1. \A q \in Ranks : w_sum[q][node[q]] = SumOf(w[q], w_node[q], j)
        <5>1. \A q \in Ranks : w_sum[q][j] = SumOf(w[q], w_node[q], j)
          <6> SUFFICES ASSUME NEW q \in Ranks PROVE w_sum[q][j] = SumOf(w[q], w_node[q], j)
            OBVIOUS
          <6>1. ~(j < j) /\ j \in Nodes
            BY <1>5
          <6>2. w_sum[q] = [k \in Nodes |-> IF k < j THEN 0 ELSE SumOf(w[q], w_node[q], k)]
            BY <1>6
          <6> QED
            BY <6>1, <6>2
        <5> QED
          BY <1>3, <5>1
      <4> QED
        BY <4>1
    <3>2. total'[r][1] = SumFunction([q \in Ranks |-> SumOf(w[q], w_node[q], j)])
      BY <3>1 DEF SumCluster
    <3> QED
      BY <1>1, <1>10, <2>1, <3>2 DEF TotalsReduced
  <2>5. BeforeFirst(r)' /\ BeforeLabelling(r)'
    BY <2>1 DEF BeforeFirst, BeforeLabelling
  <2>6. Len(labelled') = Labellings(r)'
    BY <1>10, <2>1 DEF Labellings
  <2>7. NextCall(r)' = NextCall(r)
    BY <1>1, <2>1 DEF NextCall
  <2> QED
    BY <2>2, <2>3, <2>4, <2>5, <2>6, <2>7 DEF Keeps
<1>14. \A q, r \in Ranks : NextCall(q)' = NextCall(r)'
  BY <1>13 DEF HistoryInv
<1>15. w' \in [Ranks -> Seq(Int)]
  BY <1>1 DEF HistoryInv
<1>16. (w_node = [r \in Ranks |-> w_node[r]])'
  BY <1>1 DEF HistoryInv
<1> QED
  BY <1>4, <1>10, <1>12, <1>13, <1>14, <1>15, <1>16 DEF HistoryInv

LEMMA CountClusterKeeps ==
  ASSUME HistoryInv, CountCluster
  PROVE  HistoryInv'
<1>0. PICK n, j : n = iter[0] /\ j = node[0]
  OBVIOUS
<1>1. /\ w' = w /\ wmin' = wmin /\ wmax' = wmax /\ \A r \in Ranks : pc[r] = "count" /\ pc'[r] = "update"
      /\ w_node' = w_node /\ w_centre' = w_centre /\ w_sum' = w_sum /\ w_count' = w_count
      /\ diff' = diff /\ iter' = iter /\ node' = node /\ labelled' = labelled
  BY DEF CountCluster, AllAt, Proceed
<1>2. 0 \in Ranks /\ \A r \in Ranks : Keeps(r) /\ iter[r] \in 0 .. Iters /\ node[r] \in Nodes
  BY RootExists DEF HistoryInv, Shaped
<1>3. \A r \in Ranks : iter[r] = n /\ node[r] = j
  <2>1. "count" \in {"sum", "count"}
    OBVIOUS
  <2> QED
    BY <1>0, <1>1, <1>2, <2>1, SamePlace
<1>4. Shaped'
  BY DEF HistoryInv, Shaped, CountCluster, Proceed
<1>5. n \in Nat /\ n + 1 \in Nat /\ n + 1 >= 1 /\ j \in Nodes /\ j \in Int
  BY <1>0, <1>2, CentresAssumption, ItersAssumption DEF Nodes
<1>6. labelled[n + 1].w_node = [q \in Ranks |-> NextLabels(n, q)]
  <2>1. Len(labelled) = n + 1
    BY <1>0, <1>1, <1>2 DEF Keeps, Labellings
  <2>2. n + 1 \in 1 .. Len(labelled) /\ (n + 1) - 1 = n
    BY <1>5, <2>1
  <2>3. HistoryOf(n + 1)
    BY <2>2 DEF HistoryInv
  <2>4. labelled[n + 1] = [w_centre |-> CentresAfter(n), w_node |-> [q \in Ranks |-> NextLabels(n, q)]]
    BY <2>2, <2>3 DEF HistoryOf
  <2> QED
    BY <2>4
<1>7. \A q \in Ranks : w_count[q][node[q]] = CountOf(labelled[n + 1].w_node[q], j)
  <2> SUFFICES ASSUME NEW q \in Ranks
               PROVE  w_count[q][node[q]] = CountOf(labelled[n + 1].w_node[q], j)
    OBVIOUS
  <2>1. /\ w_node[q] = NextLabels(iter[q], q)
        /\ w_count[q] = [k \in Nodes |-> IF k < node[q] THEN 0 ELSE CountOf(w_node[q], k)]
    <3>1. InUpdates(q) /\ pc[q] = "count"
      BY <1>1, <1>2 DEF Keeps
    <3> QED
      BY <3>1 DEF InUpdates
  <2>2. iter[q] = n /\ node[q] = j /\ ~(j < j) /\ j \in Nodes
    BY <1>3, <1>5
  <2>3. w_count[q][j] = CountOf(NextLabels(n, q), j)
    BY <2>1, <2>2
  <2> QED
    BY <1>6, <2>2, <2>3
<1>8. ASSUME NEW r \in Ranks PROVE Keeps(r)'
  <2>1. /\ pc[r] = "count" /\ pc'[r] = "update" /\ Keeps(r) /\ iter[r] = n /\ node[r] = j
        /\ iter'[r] = n /\ node'[r] = j
    BY <1>1, <1>2, <1>3
  <2>2. /\ \A m : LabelsAfter(m)' = LabelsAfter(m) /\ CentresAfter(m)' = CentresAfter(m)
        /\ \A m, q : NextLabels(m, q)' = NextLabels(m, q)
        /\ \A m : Converged(m)' = Converged(m) /\ ChangesIn(m)' = ChangesIn(m)
    BY <1>1, HistoryStays
  <2>3. RangeShared(r)'
    BY <1>1, <2>1 DEF Keeps, RangeShared
  <2>4. InUpdates(r)'
    BY <1>1, <2>1, <2>2 DEF Keeps, InUpdates
  <2>5. TotalsReduced(r)'
    <3>1. total'[r][2] = SumFunction([q \in Ranks |-> CountOf(labelled[n + 1].w_node[q], j)])
      BY <1>7 DEF CountCluster
    <3>2. total'[r][1] = total[r][1]
      BY DEF CountCluster
    <3>3. total[r][1] = SumFunction([q \in Ranks |-> SumOf(w[q], labelled[n + 1].w_node[q], j)])
      BY <2>1 DEF Keeps, TotalsReduced
    <3> QED
      BY <1>1, <2>1, <3>1, <3>2, <3>3 DEF TotalsReduced
  <2>6. BeforeFirst(r)' /\ BeforeLabelling(r)'
    BY <2>1 DEF BeforeFirst, BeforeLabelling
  <2>7. Len(labelled') = Labellings(r)'
    BY <1>1, <2>1 DEF Keeps, Labellings
  <2> QED
    BY <2>3, <2>4, <2>5, <2>6, <2>7 DEF Keeps
<1>9. \A q, r \in Ranks : NextCall(q)' = NextCall(r)'
  <2>1. \A r \in Ranks : pc'[r] = "update" /\ iter'[r] = n /\ node'[r] = j
    BY <1>1, <1>3
  <2> QED
    BY <2>1 DEF NextCall
<1>10. /\ w' \in [Ranks -> Seq(Int)] /\ (w_node = [r \in Ranks |-> w_node[r]])'
       /\ (labelled \in Seq({labelled[k] : k \in DOMAIN labelled}))'
  BY <1>1 DEF HistoryInv
<1>11. \A k \in 1 .. Len(labelled') : HistoryOf(k)'
  <2>1. \A k : HistoryOf(k)' = HistoryOf(k)
    BY <1>1, HistoryStays
  <2> QED
    BY <1>1, <2>1 DEF HistoryInv
<1> QED
  BY <1>4, <1>8, <1>9, <1>10, <1>11 DEF HistoryInv

\* A rank that is on its own leaves the history alone.
LEMMA HistoryKeptAlone ==
  ASSUME HistoryInv, w' = w, wmin' = wmin, wmax' = wmax, labelled' = labelled,
         (w_node = [r \in Ranks |-> w_node[r]])', Shaped',
         \A q \in Ranks : Keeps(q)' /\ NextCall(q)' = NextCall(q)
  PROVE  HistoryInv'
<1>1. w' \in [Ranks -> Seq(Int)] /\ (labelled \in Seq({labelled[k] : k \in DOMAIN labelled}))'
  BY DEF HistoryInv
<1>2. \A k \in 1 .. Len(labelled') : HistoryOf(k)'
  <2>1. \A k : HistoryOf(k)' = HistoryOf(k)
    BY HistoryStays
  <2> QED
    BY <2>1 DEF HistoryInv
<1>3. \A q, r \in Ranks : NextCall(q)' = NextCall(r)'
  BY DEF HistoryInv
<1> QED
  BY <1>1, <1>2, <1>3 DEF HistoryInv

\* Sums and counts of labels are integers.
LEMMA OwnSums ==
  ASSUME NEW x \in Seq(Int), NEW labels, DOMAIN labels = DOMAIN x, NEW j
  PROVE  /\ SumOf(x, labels, j) \in Int /\ CountOf(labels, j) \in Nat
         /\ IsFiniteSet(Members(labels, j)) /\ Members(labels, j) \in SUBSET DOMAIN x
<1> DEFINE M == Members(labels, j)
<1>1. M \in SUBSET DOMAIN x
  BY DEF Members
<1>2. DOMAIN x = 1 .. Len(x) /\ 1 \in Int /\ Len(x) \in Int /\ \A i \in DOMAIN x : x[i] \in Int
  OBVIOUS
<1>3. IsFiniteSet(DOMAIN x)
  BY <1>2, FS_Interval
<1>4. IsFiniteSet(M)
  BY <1>1, <1>3, FS_Subset
<1>5. \A i \in M : x[i] \in Int
  BY <1>1, <1>2
<1> HIDE DEF M
<1>6. SumFunctionOnSet(x, M) \in Int
  BY <1>4, <1>5, SumIsInteger
<1>7. Cardinality(M) \in Nat
  BY <1>4, FS_CardinalityType
<1> QED
  BY <1>1, <1>4, <1>6, <1>7 DEF M, SumOf, CountOf

LEMMA LabelOwnKeeps ==
  ASSUME HistoryInv, NEW r \in Ranks, LabelOwn(r)
  PROVE  HistoryInv'
<1>0. PICK n : n = iter[r]
  OBVIOUS
<1>1. /\ w' = w /\ wmin' = wmin /\ wmax' = wmax /\ labelled' = labelled /\ pc[r] = "label"
      /\ w_centre' = w_centre /\ diff' = diff /\ iter' = iter /\ total' = total
  BY DEF LabelOwn
<1>2. Keeps(r) /\ n \in 0 .. Iters /\ n \in Nat
  BY <1>0, ItersAssumption DEF HistoryInv, Shaped
<1>3. Shaped'
  <2>1. 0 \in Nodes
    BY CentresAssumption DEF Nodes
  <2>2. Shaped
    BY DEF HistoryInv
  <2> QED
    BY <2>1, <2>2 DEF Shaped, LabelOwn
<1>4. (w_node = [q \in Ranks |-> w_node[q]])'
  BY DEF HistoryInv, LabelOwn
<1>5. ASSUME NEW q \in Ranks, q # r PROVE Keeps(q)' /\ NextCall(q)' = NextCall(q)
  <2>1. /\ w_node'[q] = w_node[q] /\ w_centre'[q] = w_centre[q] /\ w_sum'[q] = w_sum[q]
        /\ w_count'[q] = w_count[q] /\ total'[q] = total[q] /\ diff'[q] = diff[q]
        /\ iter'[q] = iter[q] /\ node'[q] = node[q] /\ pc'[q] = pc[q]
    BY <1>5 DEF LabelOwn, HistoryInv, Shaped
  <2>2. Keeps(q)' = Keeps(q) /\ NextCall(q)' = NextCall(q)
    BY <1>1, <2>1, KeptAlone
  <2> QED
    BY <2>2 DEF HistoryInv
<1>6. /\ \A m : LabelsAfter(m)' = LabelsAfter(m) /\ CentresAfter(m)' = CentresAfter(m)
      /\ \A m, q : NextLabels(m, q)' = NextLabels(m, q)
      /\ \A m : Converged(m)' = Converged(m) /\ ChangesIn(m)' = ChangesIn(m)
  BY <1>1, HistoryStays
<1>7. /\ w_node[r] = LabelsAfter(n)[r] /\ w_centre[r] = CentresAfter(n)
      /\ w_sum[r] = Zeros /\ w_count[r] = Zeros
      /\ diff[r] = FirstDiff(n + 1) /\ ~ Converged(n)
      /\ Len(labelled) = n
  BY <1>0, <1>1, <1>2 DEF Keeps, BeforeLabelling, Labellings
<1>8. Keeps(r)' /\ NextCall(r)' = NextCall(r)
  <2>1. CASE n = Iters
    <3>1. pc'[r] = "returned" /\ iter'[r] = n
      BY <1>0, <1>1, <2>1 DEF LabelOwn, HistoryInv, Shaped
    <3>2. RangeShared(r)'
      BY <1>1, <1>2, <3>1 DEF Keeps, RangeShared
    <3>3. BeforeFirst(r)' /\ BeforeLabelling(r)' /\ InUpdates(r)' /\ TotalsReduced(r)'
      BY <3>1 DEF BeforeFirst, BeforeLabelling, InUpdates, TotalsReduced
    <3>4. Len(labelled') = Labellings(r)'
      BY <1>1, <1>7, <2>1, <3>1 DEF Labellings
    <3>5. NextCall(r)' = NextCall(r)
      BY <1>0, <1>1, <2>1, <3>1 DEF NextCall
    <3> QED
      BY <3>2, <3>3, <3>4, <3>5 DEF Keeps
  <2>2. CASE n # Iters
    <3> DEFINE labels == Labels(w[r], w_node[r], w_centre[r], wmin[r], wmax[r])
    <3>1. n < Iters
      BY <1>2, <2>2, ItersAssumption
    <3>2. labels = NextLabels(n, r) /\ DOMAIN labels = DOMAIN w[r]
      BY <1>7 DEF NextLabels, Labels
    <3>3. /\ pc'[r] = "sum" /\ w_node'[r] = labels /\ iter'[r] = n /\ node'[r] = 0
          /\ w_centre'[r] = w_centre[r] /\ diff'[r] = diff[r]
          /\ w_sum'[r] = [j \in Nodes |-> w_sum[r][j] + SumOf(w[r], labels, j)]
          /\ w_count'[r] = [j \in Nodes |-> w_count[r][j] + CountOf(labels, j)]
      BY <1>0, <1>1, <2>2 DEF LabelOwn, HistoryInv, Shaped
    <3> HIDE DEF labels
    <3>4. \A k \in Nodes : ~(k < 0)
      BY CentresAssumption DEF Nodes
    <3>5. \A j \in Nodes : SumOf(w[r], labels, j) \in Int /\ CountOf(labels, j) \in Nat
      <4>1. w[r] \in Seq(Int)
        BY DEF HistoryInv
      <4> QED
        BY <3>2, <4>1, OwnSums
    <3>6. /\ w_sum'[r] = [j \in Nodes |-> IF j < 0 THEN 0 ELSE SumOf(w[r], labels, j)]
          /\ w_count'[r] = [j \in Nodes |-> IF j < 0 THEN 0 ELSE CountOf(labels, j)]
      <4>1. \A j \in Nodes : /\ w_sum[r][j] + SumOf(w[r], labels, j) = SumOf(w[r], labels, j)
                             /\ w_count[r][j] + CountOf(labels, j) = CountOf(labels, j)
        <5>1. \A j \in Nodes : w_sum[r][j] = 0 /\ w_count[r][j] = 0
          BY <1>7 DEF Zeros
        <5>2. \A x \in Int : 0 + x = x
          OBVIOUS
        <5> QED
          BY <3>5, <5>1, <5>2
      <4> QED
        BY <3>3, <3>4, <4>1
    <3>7. w_centre[r] = [k \in Nodes |-> IF k < 0 THEN CentresAfter(n + 1)[k] ELSE CentresAfter(n)[k]]
      BY <1>7, <3>4, CentreOfEach
    <3>8. diff[r] = ChangesIn(n)[0 - 1]
      <4>1. 0 - 1 = -1
        OBVIOUS
      <4> QED
        BY <1>7, <4>1, ChangesDefined DEF ChangesIn
    <3>9. InUpdates(r)'
      <4>1. /\ (iter[r] < Iters)' /\ (~ Converged(iter[r]))' /\ (w_node[r] = NextLabels(iter[r], r))'
            /\ (w_centre[r] = [k \in Nodes |-> IF k < node[r] THEN CentresAfter(iter[r] + 1)[k]
                                               ELSE CentresAfter(iter[r])[k]])'
            /\ (diff[r] = ChangesIn(iter[r])[node[r] - 1])'
        BY <1>6, <1>7, <3>1, <3>2, <3>3, <3>7, <3>8
      <4>2. /\ (w_sum[r] = [k \in Nodes |-> IF k < node[r] THEN 0 ELSE SumOf(w[r], w_node[r], k)])'
            /\ (w_count[r] = [k \in Nodes |-> IF k < node[r] THEN 0 ELSE CountOf(w_node[r], k)])'
        BY <1>1, <3>3, <3>6
      <4> QED
        BY <4>1, <4>2 DEF InUpdates
    <3>10. RangeShared(r)'
      BY <1>1, <1>2, <3>3 DEF Keeps, RangeShared
    <3>11. BeforeFirst(r)' /\ BeforeLabelling(r)' /\ TotalsReduced(r)'
      BY <3>3 DEF BeforeFirst, BeforeLabelling, TotalsReduced
    <3>12. Len(labelled') = Labellings(r)'
      BY <1>1, <1>7, <3>3 DEF Labellings
    <3>13. NextCall(r)' = NextCall(r)
      BY <1>0, <1>1, <3>3 DEF NextCall
    <3> QED
      BY <3>9, <3>10, <3>11, <3>12, <3>13 DEF Keeps
  <2> QED
    BY <2>1, <2>2
<1>9. \A q \in Ranks : Keeps(q)' /\ NextCall(q)' = NextCall(q)
  BY <1>5, <1>8
<1> QED
  BY <1>1, <1>3, <1>4, <1>9, HistoryKeptAlone

LEMMA UpdateKeeps ==
  ASSUME HistoryInv, NEW r \in Ranks, Update(r)
  PROVE  HistoryInv'
<1>0. PICK n, j : n = iter[r] /\ j = node[r]
  OBVIOUS
<1> DEFINE old == CentresAfter(n)
           new == CentresAfter(n + 1)
           changes == Changes(old, new, FirstDiff(n + 1))
           Mixed(k) == [i \in Nodes |-> IF i < k THEN new[i] ELSE old[i]]
           SumsLeft(k) == [i \in Nodes |-> IF i < k THEN 0 ELSE SumOf(w[r], w_node[r], i)]
           CountsLeft(k) == [i \in Nodes |-> IF i < k THEN 0 ELSE CountOf(w_node[r], i)]
           mean == Mean(total[r][1], total[r][2])
           change == Plus(diff[r], RelativeChange(mean, w_centre[r][j]))
<1>1. /\ w' = w /\ wmin' = wmin /\ wmax' = wmax /\ labelled' = labelled /\ pc[r] = "update"
      /\ w_node' = w_node /\ total' = total
      /\ w_centre'[r] = [w_centre[r] EXCEPT ![j] = mean]
      /\ w_sum'[r] = [w_sum[r] EXCEPT ![j] = 0] /\ w_count'[r] = [w_count[r] EXCEPT ![j] = 0]
      /\ Decide(r, change)
  BY <1>0 DEF Update, HistoryInv, Shaped
<1>2. Keeps(r) /\ n \in 0 .. Iters /\ j \in Nodes /\ Shaped
  BY <1>0 DEF HistoryInv, Shaped
<1>3. /\ n < Iters /\ ~ Converged(n) /\ w_node[r] = NextLabels(n, r)
      /\ w_centre[r] = Mixed(j) /\ w_sum[r] = SumsLeft(j) /\ w_count[r] = CountsLeft(j)
      /\ diff[r] = changes[j - 1]
  <2>1. InUpdates(r) /\ pc[r] \in {"sum", "count", "update"}
    BY <1>1, <1>2 DEF Keeps
  <2> QED
    BY <1>0, <2>1 DEF InUpdates, ChangesIn
<1>4. /\ n \in Nat /\ n + 1 \in 0 .. Iters /\ n # Iters /\ n + 1 # 0 /\ (n + 1) - 1 = n
      /\ n + 1 >= 1 /\ (n + 1) + 1 # 1
      /\ j \in Int /\ 0 <= j /\ j <= Centres-1 /\ Centres \in Int
  <2>1. n < Iters
    BY <1>3
  <2> QED
    BY <1>2, <2>1, ItersAssumption, CentresAssumption DEF Nodes
<1>5. Len(labelled) = n + 1
  BY <1>0, <1>1, <1>2 DEF Keeps, Labellings
<1>6. /\ total[r][1] = SumFunction([q \in Ranks |-> SumOf(w[q], labelled[n + 1].w_node[q], j)])
      /\ total[r][2] = SumFunction([q \in Ranks |-> CountOf(labelled[n + 1].w_node[q], j)])
  BY <1>0, <1>1, <1>2 DEF Keeps, TotalsReduced
<1>7. mean = new[j] /\ change = changes[j]
  <2>1. mean = new[j]
    BY <1>2, <1>4, <1>6 DEF CentresAfter, MeansOf
  <2>2. w_centre[r][j] = old[j]
    <3>1. ~(j < j)
      BY <1>4
    <3> QED
      BY <1>2, <1>3, <3>1
  <2>3. changes[j] = Plus(changes[j - 1], RelativeChange(new[j], old[j]))
    BY <1>2, ChangesDefined
  <2> HIDE DEF changes, new, old, mean
  <2> QED
    BY <1>3, <2>1, <2>2, <2>3
<1>8. /\ \A m : LabelsAfter(m)' = LabelsAfter(m) /\ CentresAfter(m)' = CentresAfter(m)
      /\ \A m, q : NextLabels(m, q)' = NextLabels(m, q)
      /\ \A m : Converged(m)' = Converged(m) /\ ChangesIn(m)' = ChangesIn(m)
  BY <1>1, HistoryStays
<1>9. Shaped'
  <2>1. j < Centres-1 => j + 1 \in Nodes
    BY <1>4 DEF Nodes
  <2>2. iter' \in [Ranks -> 0 .. Iters] /\ node' \in [Ranks -> Nodes]
    BY <1>0, <1>2, <1>4, <2>1 DEF Update, Decide, Shaped
  <2>3. pc' \in [Ranks -> {"min", "max", "label", "sum", "count", "update", "returned", "ended"}]
    BY <1>2 DEF Update, Decide, Shaped
  <2> QED
    BY <1>2, <2>2, <2>3 DEF Shaped, Update, Decide
<1>10. ASSUME NEW q \in Ranks, q # r PROVE Keeps(q)' /\ NextCall(q)' = NextCall(q)
  <2>1. /\ w_node'[q] = w_node[q] /\ w_centre'[q] = w_centre[q] /\ w_sum'[q] = w_sum[q]
        /\ w_count'[q] = w_count[q] /\ total'[q] = total[q]
    BY <1>2, <1>10 DEF Update, Shaped
  <2>2. diff'[q] = diff[q] /\ iter'[q] = iter[q] /\ node'[q] = node[q] /\ pc'[q] = pc[q]
    BY <1>2, <1>10 DEF Update, Decide, Shaped
  <2>3. Keeps(q)' = Keeps(q) /\ NextCall(q)' = NextCall(q)
    BY <1>1, <2>1, <2>2, KeptAlone
  <2> QED
    BY <2>3 DEF HistoryInv
<1> HIDE DEF changes, mean, change
<1>11. /\ w_centre'[r] = Mixed(j + 1) /\ w_sum'[r] = SumsLeft(j + 1)
       /\ w_count'[r] = CountsLeft(j + 1)
  <2>1. \A k \in Nodes : /\ k = j => k < j + 1
                         /\ k # j => (k < j + 1 <=> k < j)
    BY <1>4, CentresAssumption DEF Nodes
  <2> HIDE DEF old, new
  <2>2. [Mixed(j) EXCEPT ![j] = new[j]] = Mixed(j + 1)
    BY <1>2, <2>1
  <2>3. [SumsLeft(j) EXCEPT ![j] = 0] = SumsLeft(j + 1)
    BY <1>2, <2>1
  <2>4. [CountsLeft(j) EXCEPT ![j] = 0] = CountsLeft(j + 1)
    BY <1>2, <2>1
  <2> HIDE DEF Mixed, SumsLeft, CountsLeft
  <2> QED
    BY <1>1, <1>3, <1>7, <2>2, <2>3, <2>4
<1>12. Keeps(r)' /\ NextCall(r)' = NextCall(r)
  <2>1. CASE j < Centres-1
    <3>1. /\ pc'[r] = "sum" /\ node'[r] = j + 1 /\ diff'[r] = changes[j] /\ iter'[r] = n
      BY <1>0, <1>1, <1>2, <1>7, <2>1 DEF Decide, Shaped
    <3>2. changes[j] = changes[(j + 1) - 1]
      BY <1>4
    <3>3. InUpdates(r)'
      <4>1. /\ (iter[r] < Iters)' /\ (~ Converged(iter[r]))' /\ (w_node[r] = NextLabels(iter[r], r))'
        BY <1>1, <1>3, <1>8, <3>1
      <4>2. (w_centre[r] = [k \in Nodes |-> IF k < node[r] THEN CentresAfter(iter[r] + 1)[k]
                                            ELSE CentresAfter(iter[r])[k]])'
        BY <1>8, <1>11, <3>1
      <4>3. /\ (w_sum[r] = [k \in Nodes |-> IF k < node[r] THEN 0 ELSE SumOf(w[r], w_node[r], k)])'
            /\ (w_count[r] = [k \in Nodes |-> IF k < node[r] THEN 0 ELSE CountOf(w_node[r], k)])'
        BY <1>1, <1>11, <3>1
      <4>4. (diff[r] = ChangesIn(iter[r])[node[r] - 1])'
        <5>1. ChangesIn(n) = changes
          BY DEF ChangesIn, changes
        <5>2. ChangesIn(iter[r])' = changes
          BY <1>8, <3>1, <5>1
        <5> QED
          BY <3>1, <3>2, <5>2
      <4> QED
        BY <4>1, <4>2, <4>3, <4>4 DEF InUpdates
    <3>4. RangeShared(r)'
      BY <1>1, <1>2, <3>1 DEF Keeps, RangeShared
    <3>5. BeforeFirst(r)' /\ BeforeLabelling(r)' /\ TotalsReduced(r)'
      BY <3>1 DEF BeforeFirst, BeforeLabelling, TotalsReduced
    <3>6. Len(labelled') = Labellings(r)'
      <4>1. j + 1 # 0
        BY <1>4
      <4> QED
        BY <1>1, <1>5, <3>1, <4>1 DEF Labellings
    <3>7. NextCall(r)' = NextCall(r)
      BY <1>0, <1>1, <2>1, <3>1 DEF NextCall
    <3> QED
      BY <3>3, <3>4, <3>5, <3>6, <3>7 DEF Keeps
  <2>2. CASE ~(j < Centres-1)
    <3>1. j = Centres-1 /\ j + 1 = Centres /\ \A k \in Nodes : k < j + 1
      BY <1>4, <2>2, CentresAssumption DEF Nodes
    <3>2. Mixed(j + 1) = new /\ SumsLeft(j + 1) = Zeros /\ CountsLeft(j + 1) = Zeros
      <4>1. Mixed(j + 1) = new
        BY <3>1, CentreOfEach
      <4> QED
        BY <3>1, <4>1 DEF Zeros
    <3>3. change = changes[Centres-1] /\ (Converged(n + 1) <=> Less(change, RelDiff))
      BY <1>4, <1>7, <3>1 DEF Converged, ChangesIn, changes
    <3>4. /\ w_centre'[r] = new /\ w_sum'[r] = Zeros /\ w_count'[r] = Zeros
      BY <1>11, <3>2
    <3>5. w_node'[r] = LabelsAfter(n + 1)[r]
      <4>1. labelled[n + 1] = [w_centre |-> CentresAfter(n), w_node |-> [q \in Ranks |-> NextLabels(n, q)]]
        <5>1. n + 1 \in 1 .. Len(labelled)
          BY <1>4, <1>5
        <5>2. HistoryOf(n + 1)
          BY <5>1 DEF HistoryInv
        <5> QED
          BY <1>4, <5>2 DEF HistoryOf
      <4>2. LabelsAfter(n + 1) = [q \in Ranks |-> NextLabels(n, q)]
        BY <1>4, <4>1 DEF LabelsAfter
      <4> QED
        BY <1>1, <1>3, <4>2
    <3> HIDE DEF Mixed, SumsLeft, CountsLeft
    <3>6. CASE Less(change, RelDiff)
      <4>1. pc'[r] = "returned" /\ iter'[r] = n
        BY <1>0, <1>1, <1>2, <2>2, <3>6 DEF Decide, Shaped
      <4>2. RangeShared(r)'
        BY <1>1, <1>2, <4>1 DEF Keeps, RangeShared
      <4>3. BeforeFirst(r)' /\ BeforeLabelling(r)' /\ InUpdates(r)' /\ TotalsReduced(r)'
        BY <4>1 DEF BeforeFirst, BeforeLabelling, InUpdates, TotalsReduced
      <4>4. Len(labelled') = Labellings(r)'
        BY <1>1, <1>4, <1>5, <4>1 DEF Labellings
      <4>5. NextCall(r)' = NextCall(r)
        BY <1>0, <1>1, <1>4, <2>2, <4>1 DEF NextCall
      <4> QED
        BY <4>2, <4>3, <4>4, <4>5 DEF Keeps
    <3>7. CASE ~ Less(change, RelDiff)
      <4>1. pc'[r] = "label" /\ iter'[r] = n + 1 /\ diff'[r] = <<0, 1>>
        BY <1>0, <1>1, <1>2, <2>2, <3>7 DEF Decide, Shaped
      <4>2. FirstDiff((n + 1) + 1) = <<0, 1>>
        BY <1>4 DEF FirstDiff
      <4>3. BeforeLabelling(r)'
        <5>1. /\ (w_node[r] = LabelsAfter(iter[r])[r])' /\ (w_centre[r] = CentresAfter(iter[r]))'
              /\ (diff[r] = FirstDiff(iter[r] + 1))' /\ (~ Converged(iter[r]))'
          BY <1>8, <3>3, <3>4, <3>5, <3>7, <4>1, <4>2
        <5> QED
          BY <3>4, <5>1 DEF BeforeLabelling
      <4>4. RangeShared(r)'
        BY <1>1, <1>2, <4>1 DEF Keeps, RangeShared
      <4>5. BeforeFirst(r)' /\ InUpdates(r)' /\ TotalsReduced(r)'
        BY <4>1 DEF BeforeFirst, InUpdates, TotalsReduced
      <4>6. Len(labelled') = Labellings(r)'
        BY <1>1, <1>5, <4>1 DEF Labellings
      <4>7. NextCall(r)' = NextCall(r)
        BY <1>0, <1>1, <2>2, <4>1 DEF NextCall
      <4> QED
        BY <4>3, <4>4, <4>5, <4>6, <4>7 DEF Keeps
    <3> QED
      BY <3>6, <3>7
  <2> QED
    BY <2>1, <2>2
<1>13. (w_node = [q \in Ranks |-> w_node[q]])'
  BY <1>1 DEF HistoryInv
<1>14. \A q \in Ranks : Keeps(q)' /\ NextCall(q)' = NextCall(q)
  BY <1>10, <1>12
<1> QED
  BY <1>1, <1>9, <1>13, <1>14, HistoryKeptAlone

\* A rank that ends leaves the history and the other ranks alone.
LEMMA EndKeeps ==
  ASSUME HistoryInv, NEW r \in Ranks, EndWithoutData(r)
  PROVE  HistoryInv'
<1>1. /\ UNCHANGED <<w, wmin, wmax, w_node, w_centre, w_sum, w_count, total, diff, iter, node, labelled>>
      /\ pc[r] = "min" /\ pc' = [pc EXCEPT ![r] = "ended"]
  BY DEF EndWithoutData
<1>2. Shaped /\ Keeps(r)
  BY DEF HistoryInv
<1>3. pc'[r] = "ended" /\ \A q \in Ranks : q # r => pc'[q] = pc[q]
  BY <1>1, <1>2 DEF Shaped
<1>4. Shaped'
  BY <1>1, <1>2 DEF Shaped
<1>5. Keeps(r)' /\ NextCall(r)' = NextCall(r)
  <2>1. RangeShared(r)' /\ BeforeFirst(r)'
    BY <1>1, <1>2, <1>3 DEF Keeps, RangeShared, BeforeFirst
  <2>2. BeforeLabelling(r)' /\ InUpdates(r)' /\ TotalsReduced(r)'
    BY <1>3 DEF BeforeLabelling, InUpdates, TotalsReduced
  <2>3. Labellings(r)' = Labellings(r) /\ NextCall(r)' = NextCall(r)
    BY <1>1, <1>3 DEF Labellings, NextCall
  <2> QED
    BY <1>1, <1>2, <2>1, <2>2, <2>3 DEF Keeps
<1>6. \A q \in Ranks : Keeps(q)' /\ NextCall(q)' = NextCall(q)
  <2> SUFFICES ASSUME NEW q \in Ranks, q # r PROVE Keeps(q)' /\ NextCall(q)' = NextCall(q)
    BY <1>5
  <2>1. Keeps(q)' = Keeps(q) /\ NextCall(q)' = NextCall(q)
    BY <1>1, <1>3, KeptAlone
  <2> QED
    BY <2>1 DEF HistoryInv
<1>7. (w_node = [q \in Ranks |-> w_node[q]])'
  BY <1>1 DEF HistoryInv
<1> QED
  BY <1>1, <1>4, <1>6, <1>7, HistoryKeptAlone

LEMMA HistoryKept ==
  ASSUME HistoryInv, [KMeansNext]_kmeansVars
  PROVE  HistoryInv'
<1>1. CASE ReduceMin
  BY <1>1, ReduceMinKeeps
<1>2. CASE ReduceMax
  BY <1>2, ReduceMaxKeeps
<1>3. CASE SumCluster
  BY <1>3, SumClusterKeeps
<1>4. CASE CountCluster
  BY <1>4, CountClusterKeeps
<1>5. ASSUME NEW r \in Ranks, LabelOwn(r) PROVE HistoryInv'
  BY <1>5, LabelOwnKeeps
<1>6. ASSUME NEW r \in Ranks, Update(r) PROVE HistoryInv'
  BY <1>6, UpdateKeeps
<1>7. ASSUME NEW r \in Ranks, EndWithoutData(r) PROVE HistoryInv'
  BY <1>7, EndKeeps
<1>8. CASE UNCHANGED kmeansVars
  <2>1. w' = w /\ wmin' = wmin /\ wmax' = wmax /\ labelled' = labelled /\ w_node' = w_node
    BY <1>8 DEF kmeansVars
  <2>2. \A q \in Ranks : Keeps(q)' = Keeps(q) /\ NextCall(q)' = NextCall(q)
    BY <1>8, KeptAlone DEF kmeansVars
  <2>3. Shaped' = Shaped
    BY <1>8 DEF kmeansVars, Shaped
  <2>4. /\ (w_node = [q \in Ranks |-> w_node[q]])' /\ Shaped'
        /\ \A q \in Ranks : Keeps(q)' /\ NextCall(q)' = NextCall(q)
    BY <2>1, <2>2, <2>3 DEF HistoryInv
  <2> QED
    BY <2>1, <2>4, HistoryKeptAlone
<1> QED
  BY <1>1, <1>2, <1>3, <1>4, <1>5, <1>6, <1>7, <1>8 DEF KMeansNext, Collective, Own

\* Every labelling is done with the means of the labelling before it, on every rank and
\* over the visibilities of all ranks.
THEOREM HistoryInvAlways == KMeansSpec => []HistoryInv
<1>1. HistoryInv /\ [KMeansNext]_kmeansVars => HistoryInv'
  BY HistoryKept
<1> QED
  BY <1>1, HistoryBegins, PTL DEF KMeansSpec

(***************************************************************************)
(* The cost of a labelling.                                                *)
(***************************************************************************)

\* The centres are fractions.
Proper(centre) == \A j \in Nodes : /\ centre[j][1] \in Int
                                   /\ centre[j][2] \in Nat \ {0}

\* Every visibility of every rank has a label.
Complete(labels) ==
  \A r \in Ranks : DOMAIN labels[r] = DOMAIN w[r] /\ \A i \in DOMAIN w[r] : labels[r][i] \in Nodes

Squares(centre, labels) ==
  [x \in Everywhere |-> ScaledGap(x, Scale(centre), centre, labels)
                          * ScaledGap(x, Scale(centre), centre, labels)]

\* The recursion of Scale has a solution, a multiple of all the denominators.
LEMMA ScaleDefined ==
  ASSUME NEW centre, Proper(centre)
  PROVE  /\ Scale(centre) \in Nat \ {0}
         /\ \A j \in Nodes : /\ Scale(centre) \div centre[j][2] \in Nat \ {0}
                             /\ centre[j][2] * (Scale(centre) \div centre[j][2]) = Scale(centre)
<1> DEFINE Upto(c, k) == [j \in -1 .. k-1 |-> IF j = -1 THEN 1 ELSE c[j-1] * centre[j][2]]
           Solved == {k \in Nat : \E c : c = Upto(c, k)}
           C == CHOOSE c : c = Upto(c, Centres)
<1>1. Scale(centre) = C[Centres-1]
  BY DEF Scale
<1>2. Centres \in Nat /\ Centres > 0 /\ -1 \in -1 .. Centres-1
      /\ \A j \in Nodes : j \in -1 .. Centres-1 /\ j # -1 /\ j \in Nat /\ j + 1 <= Centres
  BY CentresAssumption DEF Nodes
<1> HIDE DEF C
<1>3. 0 \in Solved
  <2> DEFINE c == [j \in -1 .. 0-1 |-> 1]
  <2>1. c = Upto(c, 0)
    OBVIOUS
  <2> QED
    BY <2>1
<1>4. \A k \in Nat : k \in Solved => k + 1 \in Solved
  <2> SUFFICES ASSUME NEW k \in Nat, k \in Solved PROVE k + 1 \in Solved
    OBVIOUS
  <2>1. PICK c : c = Upto(c, k)
    OBVIOUS
  <2> DEFINE d == Upto(c, k + 1)
  <2>2. \A j \in -1 .. k-1 : c[j] = d[j]
    <3>1. \A j \in -1 .. k-1 : c[j] = IF j = -1 THEN 1 ELSE c[j-1] * centre[j][2]
      BY <2>1
    <3> QED
      BY <3>1
  <2>3. Upto(d, k + 1) = Upto(c, k + 1)
    <3> HIDE DEF d
    <3>1. \A j \in -1 .. k : j # -1 => d[j-1] = c[j-1]
      BY <2>2
    <3> QED
      BY <3>1
  <2>4. d = Upto(d, k + 1)
    BY <2>3
  <2> HIDE DEF d
  <2> QED
    BY <2>4
<1>5. Centres \in Solved
  <2> HIDE DEF Solved
  <2> QED
    BY <1>2, <1>3, <1>4, Induction
<1>6. C = Upto(C, Centres)
  <2> HIDE DEF Upto
  <2> QED
    BY <1>5 DEF C
<1>7. \A j \in -1 .. Centres-1 : C[j] = IF j = -1 THEN 1 ELSE C[j-1] * centre[j][2]
  BY <1>6
<1> DEFINE Multiple(k) == /\ C[k-1] \in Nat \ {0}
                          /\ \A j \in 0 .. k-1 : \E q \in Nat : C[k-1] = centre[j][2] * q
           Fine == {k \in Nat : k <= Centres => Multiple(k)}
<1>8. 0 \in Fine
  <2>1. C[0-1] = 1
    BY <1>2, <1>7
  <2> QED
    BY <2>1
<1>9. \A k \in Nat : k \in Fine => k + 1 \in Fine
  <2> SUFFICES ASSUME NEW k \in Nat, k \in Fine, k + 1 <= Centres PROVE Multiple(k + 1)
    OBVIOUS
  <2>1. Multiple(k)
    BY <1>2
  <2>2. k \in Nodes /\ k \in -1 .. Centres-1 /\ k # -1 /\ (k + 1) - 1 = k
    BY <1>2 DEF Nodes
  <2>3. C[k] = C[k-1] * centre[k][2] /\ centre[k][2] \in Nat \ {0}
    BY <1>7, <2>2 DEF Proper
  <2>4. C[k] \in Nat \ {0}
    <3>1. \A a, b \in Nat \ {0} : a * b \in Nat \ {0}
      <4> SUFFICES ASSUME NEW a \in Nat \ {0}, NEW b \in Nat \ {0} PROVE a * b \in Nat \ {0}
        OBVIOUS
      <4>1. a * b > 0 /\ a * b \in Int
        OBVIOUS
      <4> QED
        BY <4>1
    <3> QED
      BY <2>1, <2>3, <3>1
  <2>5. ASSUME NEW j \in 0 .. k PROVE \E q \in Nat : C[k] = centre[j][2] * q
    <3>1. j \in Nodes
      BY <1>2 DEF Nodes
    <3>2. centre[j][2] \in Nat \ {0}
      BY <3>1 DEF Proper
    <3>3. CASE j = k
      <4>1. C[k-1] \in Nat /\ C[k] = centre[j][2] * C[k-1]
        BY <2>1, <2>3, <3>3
      <4> QED
        BY <4>1
    <3>4. CASE j # k
      <4>1. j \in 0 .. k-1
        BY <3>4
      <4>2. PICK q \in Nat : C[k-1] = centre[j][2] * q
        BY <2>1, <4>1
      <4>3. (centre[j][2] * q) * centre[k][2] = centre[j][2] * (q * centre[k][2])
        BY <2>3, <3>2
      <4>4. q * centre[k][2] \in Nat
        BY <2>3
      <4> QED
        BY <2>3, <4>2, <4>3, <4>4
    <3> QED
      BY <3>3, <3>4
  <2> QED
    BY <2>2, <2>4, <2>5
<1>10. Centres \in Fine
  <2> HIDE DEF Fine
  <2> QED
    BY <1>2, <1>8, <1>9, Induction
<1>11. Multiple(Centres)
  BY <1>2, <1>10
<1> DEFINE S == Scale(centre)
<1>12. S \in Nat \ {0}
  BY <1>1, <1>11
<1>13. ASSUME NEW j \in Nodes
       PROVE  S \div centre[j][2] \in Nat \ {0} /\ centre[j][2] * (S \div centre[j][2]) = S
  <2>1. centre[j][2] \in Nat \ {0}
    BY DEF Proper
  <2>2. PICK q \in Nat : S = centre[j][2] * q
    BY <1>1, <1>11 DEF Nodes
  <2>3. S \div centre[j][2] = q
    BY <2>1, <2>2, Divided
  <2>4. q # 0
    <3>1. q = 0 => centre[j][2] * q = 0
      BY <2>1
    <3> QED
      BY <1>12, <2>2, <3>1
  <2> QED
    BY <2>2, <2>3, <2>4
<1> QED
  BY <1>12, <1>13

\* What the gaps are made of.
LEMMA GapKnown ==
  ASSUME w \in [Ranks -> Seq(Int)], NEW centre, Proper(centre), NEW labels, Complete(labels),
         NEW x \in Everywhere
  PROVE  LET j == labels[x[1]][x[2]]
             d == centre[j][2]
             s == Scale(centre) \div d
         IN  /\ x[1] \in Ranks /\ x[2] \in DOMAIN w[x[1]] /\ w[x[1]][x[2]] \in Int
             /\ j \in Nodes /\ centre[j][1] \in Int /\ d \in Nat \ {0} /\ s \in Nat \ {0}
             /\ d * s = Scale(centre)
             /\ ScaledGap(x, Scale(centre), centre, labels) = (w[x[1]][x[2]] * d - centre[j][1]) * s
             /\ ScaledGap(x, Scale(centre), centre, labels) \in Int
<1> DEFINE j == labels[x[1]][x[2]]
           c == centre[j]
           S == Scale(centre)
           s == S \div c[2]
           y == w[x[1]][x[2]]
<1>1. x[1] \in Ranks /\ x[2] \in DOMAIN w[x[1]]
  <2>1. PICK r \in Ranks : x \in {r} \X DOMAIN w[r]
    BY DEF Everywhere
  <2> QED
    BY <2>1
<1>2. y \in Int
  BY <1>1
<1>3. j \in Nodes
  BY <1>1 DEF Complete
<1>4. c[1] \in Int /\ c[2] \in Nat \ {0}
  BY <1>3 DEF Proper
<1>5. s \in Nat \ {0} /\ c[2] * s = S /\ S \in Nat \ {0}
  BY <1>3, ScaleDefined
<1>6. ScaledGap(x, S, centre, labels) = y * S - c[1] * s
  BY DEF ScaledGap
<1> HIDE DEF j, c, S, s, y
<1>7. y * S - c[1] * s = (y * c[2] - c[1]) * s /\ y * S - c[1] * s \in Int
  <2>1. \A a, b, d, t \in Int : /\ a * (d * t) - b * t = (a * d - b) * t
                                /\ a * (d * t) - b * t \in Int
    OBVIOUS
  <2>2. y \in Int /\ c[1] \in Int /\ c[2] \in Int /\ s \in Int
    BY <1>2, <1>4, <1>5
  <2>3. y * (c[2] * s) - c[1] * s = (y * c[2] - c[1]) * s /\ y * (c[2] * s) - c[1] * s \in Int
    BY <2>1, <2>2
  <2> QED
    BY <1>5, <2>3
<1> QED
  BY <1>1, <1>2, <1>3, <1>4, <1>5, <1>6, <1>7 DEF j, c, S, s, y

\* A label is that of a centre that is not further away.
LEMMA NearestIsNearer ==
  ASSUME NEW centre, Proper(centre), NEW x \in Int, NEW was \in Nodes, NEW lo, NEW hi
  PROVE  LET j == Label(x, was, centre, lo, hi)
         IN  /\ j \in Nodes
             /\ ((x * centre[j][2] - centre[j][1]) * (x * centre[j][2] - centre[j][1]))
                    * (centre[was][2] * centre[was][2])
                  <= ((x * centre[was][2] - centre[was][1]) * (x * centre[was][2] - centre[was][1]))
                       * (centre[j][2] * centre[j][2])
<1> DEFINE price == [k \in Nodes |-> Cost(x, centre[k])]
           near == {k \in Nodes : /\ \A i \in Nodes : ~ Less(price[i], price[k])
                                  /\ Less(price[k], <<2 * (hi - lo) * (hi - lo), 1>>)}
           j == Label(x, was, centre, lo, hi)
           Top(k) == (x * centre[k][2] - centre[k][1]) * (x * centre[k][2] - centre[k][1])
           Bottom(k) == centre[k][2] * centre[k][2]
<1>1. \A k \in Nodes : price[k] = <<Top(k), Bottom(k)>>
  BY DEF Cost
<1>2. \A k \in Nodes : Top(k) \in Int /\ Bottom(k) \in Int /\ Bottom(k) # 0
  <2> SUFFICES ASSUME NEW k \in Nodes PROVE Top(k) \in Int /\ Bottom(k) \in Int /\ Bottom(k) # 0
    OBVIOUS
  <2>1. centre[k][1] \in Int /\ centre[k][2] \in Int /\ centre[k][2] # 0
    BY DEF Proper
  <2>2. \A a, b, d \in Int : (a * d - b) * (a * d - b) \in Int /\ d * d \in Int /\ (d # 0 => d * d # 0)
    OBVIOUS
  <2> QED
    BY <2>1, <2>2
<1>3. j = IF near = {} THEN was ELSE Min(near)
  BY DEF Label
<1>4. j \in Nodes /\ ~ Less(price[was], price[j])
  <2>1. CASE near = {}
    <3>1. ~ Less(price[was], price[was])
      <4>1. price[was] = <<Top(was), Bottom(was)>> /\ Top(was) \in Int /\ Bottom(was) \in Int
        BY <1>1, <1>2
      <4> HIDE DEF price, Top, Bottom
      <4> QED
        BY <4>1 DEF Less
    <3> QED
      BY <1>3, <2>1, <3>1
  <2>2. CASE near # {}
    <3>1. near \in SUBSET Nodes /\ Nodes \in SUBSET Int /\ IsFiniteSet(Nodes)
      <4>1. 0 \in Int /\ Centres-1 \in Int
        BY CentresAssumption
      <4>2. IsFiniteSet(0 .. Centres-1)
        BY <4>1, FS_Interval
      <4> QED
        BY <4>1, <4>2 DEF Nodes
    <3>2. IsFiniteSet(near) /\ near \in SUBSET Int
      BY <3>1, FS_Subset
    <3>3. \A k \in near : k \in Nodes /\ \A i \in Nodes : ~ Less(price[i], price[k])
      OBVIOUS
    <3> HIDE DEF near, price
    <3>4. Min(near) \in near
      BY <2>2, <3>2, Extremes
    <3> QED
      BY <1>3, <2>2, <3>3, <3>4
  <2> QED
    BY <2>1, <2>2
<1>5. price[was] = <<Top(was), Bottom(was)>> /\ price[j] = <<Top(j), Bottom(j)>>
  BY <1>1, <1>4
<1>6. /\ Top(was) \in Int /\ Bottom(was) \in Int /\ Bottom(was) # 0
      /\ Top(j) \in Int /\ Bottom(j) \in Int /\ Bottom(j) # 0
  BY <1>2, <1>4
<1> HIDE DEF price, j, Top, Bottom
<1>7. ~(Top(was) * Bottom(j) < Top(j) * Bottom(was))
  BY <1>4, <1>5, <1>6 DEF Less
<1>8. Top(j) * Bottom(was) <= Top(was) * Bottom(j)
  <2>1. Top(was) * Bottom(j) \in Int /\ Top(j) * Bottom(was) \in Int
    BY <1>6
  <2> QED
    BY <1>7, <2>1
<1> QED
  BY <1>4, <1>8 DEF j, Top, Bottom

\* The labels that the loop over the visibilities gives.
NextOf(labels, centre, next) ==
  \A r \in Ranks : next[r] = Labels(w[r], labels[r], centre, wmin[r], wmax[r])

LEMMA StaysComplete ==
  ASSUME w \in [Ranks -> Seq(Int)], NEW centre, Proper(centre), NEW labels, Complete(labels),
         NEW next, NextOf(labels, centre, next)
  PROVE  Complete(next)
<1> SUFFICES ASSUME NEW r \in Ranks
             PROVE  /\ DOMAIN next[r] = DOMAIN w[r]
                    /\ \A i \in DOMAIN w[r] : next[r][i] \in Nodes
  BY DEF Complete
<1>1. next[r] = [i \in DOMAIN w[r] |-> Label(w[r][i], labels[r][i], centre, wmin[r], wmax[r])]
  BY DEF NextOf, Labels
<1>2. ASSUME NEW i \in DOMAIN w[r] PROVE next[r][i] \in Nodes
  <2>1. w[r][i] \in Int /\ labels[r][i] \in Nodes
    BY DEF Complete
  <2>2. Label(w[r][i], labels[r][i], centre, wmin[r], wmax[r]) \in Nodes
    BY <2>1, NearestIsNearer
  <2> QED
    BY <1>1, <2>2
<1> QED
  BY <1>1, <1>2

\* Relabelling costs no more.
LEMMA RelabellingGains ==
  ASSUME w \in [Ranks -> Seq(Int)], NEW centre, Proper(centre), NEW labels, Complete(labels),
         NEW next, NextOf(labels, centre, next), NEW x \in Everywhere
  PROVE  /\ Squares(centre, next)[x] \in Int /\ Squares(centre, labels)[x] \in Int
         /\ Squares(centre, next)[x] <= Squares(centre, labels)[x]
<1> DEFINE was == labels[x[1]][x[2]]
           j == next[x[1]][x[2]]
           y == w[x[1]][x[2]]
           S == Scale(centre)
           d == centre[j][2]
           s == S \div d
           e == centre[was][2]
           t == S \div e
           u == y * d - centre[j][1]
           v == y * e - centre[was][1]
<1>1. Complete(next)
  BY StaysComplete
<1>2. /\ x[1] \in Ranks /\ x[2] \in DOMAIN w[x[1]] /\ y \in Int
      /\ was \in Nodes /\ centre[was][1] \in Int /\ e \in Nat \ {0} /\ t \in Nat \ {0} /\ e * t = S
      /\ ScaledGap(x, S, centre, labels) = v * t
  BY GapKnown
<1>3. /\ j \in Nodes /\ centre[j][1] \in Int /\ d \in Nat \ {0} /\ s \in Nat \ {0} /\ d * s = S
      /\ ScaledGap(x, S, centre, next) = u * s
  BY <1>1, GapKnown
<1>4. (u * u) * (e * e) <= (v * v) * (d * d)
  <2>1. j = Label(y, was, centre, wmin[x[1]], wmax[x[1]])
    BY <1>2 DEF NextOf, Labels
  <2> HIDE DEF j
  <2> QED
    BY <1>2, <2>1, NearestIsNearer
<1>5. Squares(centre, next)[x] = (u * s) * (u * s) /\ Squares(centre, labels)[x] = (v * t) * (v * t)
  BY <1>2, <1>3 DEF Squares
<1>6. u \in Int /\ v \in Int /\ d \in Int /\ d > 0 /\ s \in Int /\ s > 0 /\ e \in Int /\ e > 0
      /\ t \in Int /\ t > 0 /\ d * s = e * t
  <2>1. u \in Int /\ v \in Int
    <3>1. \A a, b, c \in Int : a * b - c \in Int
      OBVIOUS
    <3>2. /\ y \in Int /\ d \in Int /\ e \in Int
          /\ centre[j][1] \in Int /\ centre[was][1] \in Int
      <4> HIDE DEF was, j, y, S, d, e, s, t
      <4> QED
        BY <1>2, <1>3
    <3> HIDE DEF was, j, y, S, d, e
    <3> QED
      BY <3>1, <3>2
  <2> HIDE DEF was, j, y, S
  <2> HIDE DEF d, s, e, t, u, v
  <2> QED
    BY <1>2, <1>3, <2>1
<1> HIDE DEF was, j, y, S, d, s, e, t, u, v
<1>7. (u * s) * (u * s) <= (v * t) * (v * t)
  BY <1>4, <1>6, SquaresWidened
<1>8. (u * s) * (u * s) \in Int /\ (v * t) * (v * t) \in Int
  BY <1>6
<1> QED
  BY <1>5, <1>7, <1>8

LEMMA EverywhereFinite ==
  ASSUME w \in [Ranks -> Seq(Int)]
  PROVE  IsFiniteSet(Everywhere)
<1> DEFINE D == [q \in 0 .. Size-1 |-> DOMAIN w[q]]
           f == [x \in Everywhere |-> 1]
           own == [q \in 0 .. Size-1 |-> [d \in D[q] |-> 1]]
           h == [q \in 0 .. Size-1 |-> SumFunctionOnSet(own[q], D[q])]
<1>1. Size \in Nat /\ Ranks = 0 .. Size-1
  BY SizeAssumption DEF Ranks
<1>2. \A q \in 0 .. Size-1 : D[q] = DOMAIN w[q] /\ IsFiniteSet(D[q])
  <2> SUFFICES ASSUME NEW q \in 0 .. Size-1 PROVE IsFiniteSet(DOMAIN w[q])
    OBVIOUS
  <2>1. DOMAIN w[q] = 1 .. Len(w[q]) /\ 1 \in Int /\ Len(w[q]) \in Int
    BY <1>1
  <2> QED
    BY <2>1, FS_Interval
<1>3. Everywhere = UNION {{q} \X D[q] : q \in 0 .. Size-1}
  BY <1>1, <1>2 DEF Everywhere
<1>4. \A q \in 0 .. Size-1 : \A d \in D[q] : own[q][d] = f[<<q, d>>] /\ f[<<q, d>>] \in Int
  <2> HIDE DEF D
  <2> SUFFICES ASSUME NEW q \in 0 .. Size-1, NEW d \in D[q]
               PROVE  own[q][d] = f[<<q, d>>] /\ f[<<q, d>>] \in Int
    OBVIOUS
  <2>1. <<q, d>> \in Everywhere
    BY <1>3
  <2> QED
    BY <2>1
<1> HIDE DEF D, f, own
<1>5. \A q \in 0 .. Size-1 : h[q] = SumFunctionOnSet(own[q], D[q])
  OBVIOUS
<1> HIDE DEF h
<1>6. \A q \in 0 .. Size-1 : IsFiniteSet(D[q])
  BY <1>2
<1> DEFINE T == Everywhere
<1>7. /\ \A q \in 0 .. Size-1 : \A d \in D[q] : <<q, d>> \in T
      /\ \A x \in T : \E q \in 0 .. Size-1 : \E d \in D[q] : x = <<q, d>>
  BY <1>3
<1> HIDE DEF T
<1>8. SumsOf(h, Size, own, D, T, f)
  BY ONLY <1>4, <1>5, <1>6, <1>7 DEF SumsOf
<1>9. IsFiniteSet(T)
  BY ONLY <1>1, <1>8, SumOfSums
<1> QED
  BY <1>9 DEF T

\* The members of a cluster on all ranks.
Cluster(labels, j) == {x \in Everywhere : labels[x[1]][x[2]] = j}

LEMMA ClusterOverRanks ==
  ASSUME w \in [Ranks -> Seq(Int)], NEW labels, Complete(labels), NEW j \in Nodes,
         NEW f, \A x \in Cluster(labels, j) : f[x] = w[x[1]][x[2]]
  PROVE  /\ IsFiniteSet(Cluster(labels, j))
         /\ MeansOf(labels)[j] = Mean(SumFunctionOnSet(f, Cluster(labels, j)),
                                      Cardinality(Cluster(labels, j)))
<1> DEFINE D == [q \in 0 .. Size-1 |-> Members(labels[q], j)]
           one == [x \in Everywhere |-> 1]
           T == Cluster(labels, j)
           ownOne == [q \in 0 .. Size-1 |-> [d \in D[q] |-> 1]]
           own == [q \in 0 .. Size-1 |-> w[q]]
           ones == [q \in Ranks |-> CountOf(labels[q], j)]
           sums == [q \in Ranks |-> SumOf(w[q], labels[q], j)]
<1>1. Size \in Nat /\ Ranks = 0 .. Size-1
  BY SizeAssumption DEF Ranks
<1>2. \A q \in 0 .. Size-1 :
        /\ D[q] = Members(labels[q], j) /\ IsFiniteSet(D[q])
        /\ D[q] \in SUBSET DOMAIN w[q]
        /\ \A d \in D[q] : labels[q][d] = j
        /\ \A d \in DOMAIN w[q] : labels[q][d] = j => d \in D[q]
        /\ \A d \in DOMAIN w[q] : w[q][d] \in Int
  <2> SUFFICES ASSUME NEW q \in 0 .. Size-1
               PROVE  /\ D[q] = Members(labels[q], j) /\ IsFiniteSet(D[q])
                      /\ D[q] \in SUBSET DOMAIN w[q]
                      /\ \A d \in D[q] : labels[q][d] = j
                      /\ \A d \in DOMAIN w[q] : labels[q][d] = j => d \in D[q]
                      /\ \A d \in DOMAIN w[q] : w[q][d] \in Int
    OBVIOUS
  <2>1. w[q] \in Seq(Int) /\ DOMAIN labels[q] = DOMAIN w[q]
    BY <1>1 DEF Complete
  <2>2. IsFiniteSet(Members(labels[q], j)) /\ Members(labels[q], j) \in SUBSET DOMAIN w[q]
    BY <2>1, OwnSums
  <2>3. D[q] = Members(labels[q], j) /\ \A d \in DOMAIN w[q] : w[q][d] \in Int
    BY <2>1
  <2>4. /\ \A d \in Members(labels[q], j) : labels[q][d] = j
        /\ \A d \in DOMAIN w[q] : labels[q][d] = j => d \in Members(labels[q], j)
    BY <2>1 DEF Members
  <2> HIDE DEF D
  <2> QED
    BY <2>2, <2>3, <2>4
<1>3. T = UNION {{q} \X D[q] : q \in 0 .. Size-1}
  <2> HIDE DEF D
  <2>1. ASSUME NEW x \in T PROVE x \in UNION {{q} \X D[q] : q \in 0 .. Size-1}
    <3>1. PICK q \in 0 .. Size-1 : x \in {q} \X DOMAIN w[q]
      BY <1>1 DEF Cluster, Everywhere
    <3>2. x[1] = q /\ x[2] \in DOMAIN w[q] /\ x = <<x[1], x[2]>>
      BY <3>1
    <3>3. x[2] \in D[q]
      BY <1>2, <3>2 DEF Cluster
    <3> QED
      BY <3>2, <3>3
  <2>2. ASSUME NEW q \in 0 .. Size-1, NEW x \in {q} \X D[q] PROVE x \in T
    <3>1. x[1] = q /\ x[2] \in D[q] /\ x = <<x[1], x[2]>>
      OBVIOUS
    <3>2. x[2] \in DOMAIN w[q] /\ labels[q][x[2]] = j
      BY <1>2, <3>1
    <3>3. x \in {q} \X DOMAIN w[q]
      BY <3>1, <3>2
    <3>4. x \in Everywhere
      BY <1>1, <3>3 DEF Everywhere
    <3> QED
      BY <3>1, <3>2, <3>4 DEF Cluster
  <2> QED
    BY <2>1, <2>2
<1>4. \A q \in 0 .. Size-1 : \A d \in D[q] :
        <<q, d>> \in T /\ one[<<q, d>>] = 1 /\ f[<<q, d>>] = w[q][d] /\ w[q][d] \in Int
  <2> SUFFICES ASSUME NEW q \in 0 .. Size-1, NEW d \in D[q]
               PROVE  <<q, d>> \in T /\ one[<<q, d>>] = 1 /\ f[<<q, d>>] = w[q][d] /\ w[q][d] \in Int
    OBVIOUS
  <2> HIDE DEF D
  <2>1. <<q, d>> \in T
    BY <1>3
  <2>2. <<q, d>> \in Everywhere
    BY <2>1 DEF Cluster
  <2> QED
    BY <1>2, <2>1, <2>2
<1> HIDE DEF T
<1>5. \A q \in 0 .. Size-1 : /\ ones[q] = SumFunctionOnSet(ownOne[q], D[q])
                           /\ sums[q] = SumFunctionOnSet(own[q], D[q])
  <2> SUFFICES ASSUME NEW q \in 0 .. Size-1
               PROVE  /\ ones[q] = SumFunctionOnSet(ownOne[q], D[q])
                      /\ sums[q] = SumFunctionOnSet(own[q], D[q])
    OBVIOUS
  <2> DEFINE a == ownOne[q]
             M == D[q]
  <2>1. \A d \in M : a[d] = 1
    OBVIOUS
  <2>2. IsFiniteSet(M) /\ M = Members(labels[q], j) /\ q \in Ranks /\ own[q] = w[q]
    BY <1>1, <1>2
  <2>3. ones[q] = Cardinality(M) /\ sums[q] = SumFunctionOnSet(own[q], M)
    BY <2>2 DEF CountOf, SumOf
  <2> HIDE DEF a, M, ones, sums, own
  <2>4. SumFunctionOnSet(a, M) = Cardinality(M)
    BY <2>1, <2>2, SumOfOnes
  <2> QED
    BY <2>3, <2>4 DEF a, M
<1>6. \A x \in T : one[x] = 1
  BY DEF T, Cluster
<1>7. /\ \A q \in 0 .. Size-1 : IsFiniteSet(D[q])
      /\ \A q \in 0 .. Size-1 : \A d \in D[q] :
           ownOne[q][d] = one[<<q, d>>] /\ one[<<q, d>>] \in Int
      /\ \A q \in 0 .. Size-1 : \A d \in D[q] : own[q][d] = f[<<q, d>>] /\ f[<<q, d>>] \in Int
  <2>1. \A q \in 0 .. Size-1 : \A d \in D[q] : ownOne[q][d] = 1
    OBVIOUS
  <2>2. \A q \in 0 .. Size-1 : own[q] = w[q]
    OBVIOUS
  <2> HIDE DEF D, one, ownOne, own
  <2>3. /\ \A q \in 0 .. Size-1 : IsFiniteSet(D[q])
        /\ \A q \in 0 .. Size-1 : \A d \in D[q] :
             one[<<q, d>>] = 1 /\ f[<<q, d>>] = w[q][d] /\ w[q][d] \in Int
    BY <1>2, <1>4
  <2> QED
    BY ONLY <2>1, <2>2, <2>3
<1>8. DOMAIN ones = 0 .. Size-1 /\ DOMAIN sums = 0 .. Size-1
  BY <1>1
<1> HIDE DEF D, one, ones, sums, own, ownOne
<1>9. /\ \A q \in 0 .. Size-1 : \A d \in D[q] : <<q, d>> \in T
      /\ \A x \in T : \E q \in 0 .. Size-1 : \E d \in D[q] : x = <<q, d>>
  BY <1>3
<1>10. /\ \A q \in 0 .. Size-1 : ones[q] = SumFunctionOnSet(ownOne[q], D[q])
      /\ \A q \in 0 .. Size-1 : sums[q] = SumFunctionOnSet(own[q], D[q])
  BY <1>5
<1>11. SumsOf(ones, Size, ownOne, D, T, one) /\ SumsOf(sums, Size, own, D, T, f)
  BY ONLY <1>9, <1>10, <1>7 DEF SumsOf
<1>12. IsFiniteSet(T) /\ SumFunctionOnSet(one, T) = SumFunctionOnSet(ones, 0 .. Size-1)
  BY ONLY <1>1, <1>11, SumOfSums
<1>13. SumFunctionOnSet(f, T) = SumFunctionOnSet(sums, 0 .. Size-1)
  BY ONLY <1>1, <1>11, SumOfSums
<1>14. SumFunctionOnSet(one, T) = Cardinality(T)
  BY <1>6, <1>12, SumOfOnes
<1>15. SumFunction(ones) = SumFunctionOnSet(ones, 0 .. Size-1)
       /\ SumFunction(sums) = SumFunctionOnSet(sums, 0 .. Size-1)
  BY <1>8 DEF SumFunction
<1>16. MeansOf(labels)[j] = Mean(SumFunction(sums), SumFunction(ones))
  BY DEF MeansOf, sums, ones
<1> QED
  BY <1>12, <1>13, <1>14, <1>15, <1>16 DEF T

\* The mean of a cluster times its size is the sum of its members, and an empty cluster
\* has a centre as well.
LEMMA MeanOfCluster ==
  ASSUME w \in [Ranks -> Seq(Int)], NEW labels, Complete(labels), NEW j \in Nodes,
         NEW f, \A x \in Cluster(labels, j) : f[x] = w[x[1]][x[2]] /\ f[x] \in Int
  PROVE  /\ MeansOf(labels)[j][1] \in Int /\ MeansOf(labels)[j][2] \in Nat \ {0}
         /\ IsFiniteSet(Cluster(labels, j)) /\ Cardinality(Cluster(labels, j)) \in Nat
         /\ SumFunctionOnSet(f, Cluster(labels, j)) \in Int
         /\ Cardinality(Cluster(labels, j)) * MeansOf(labels)[j][1]
              = MeansOf(labels)[j][2] * SumFunctionOnSet(f, Cluster(labels, j))
<1> DEFINE T == Cluster(labels, j)
           n == Cardinality(T)
           m == SumFunctionOnSet(f, T)
           c == MeansOf(labels)[j]
<1>1. IsFiniteSet(T) /\ Cardinality(T) = n /\ SumFunctionOnSet(f, T) = m
  BY ClusterOverRanks
<1>2. c = Mean(m, n)
  BY ClusterOverRanks
<1>3. \A x \in T : f[x] \in Int
  OBVIOUS
<1> HIDE DEF T, n, m, c
<1>4. n \in Nat /\ m \in Int
  <2>1. Cardinality(T) \in Nat
    BY <1>1, FS_CardinalityType
  <2>2. SumFunctionOnSet(f, T) \in Int
    BY <1>1, <1>3, SumIsInteger
  <2> QED
    BY <1>1, <2>1, <2>2
<1>5. CASE n > 0
  <2>1. c = <<m, n>>
    BY <1>2, <1>5 DEF Mean
  <2>2. c[1] = m /\ c[2] = n /\ n \in Nat \ {0} /\ n * m = n * m
    BY <1>4, <1>5, <2>1
  <2> QED
    BY <1>1, <1>4, <2>2 DEF T, c
<1>6. CASE ~(n > 0)
  <2>1. n = 0 /\ c = <<0, 1>>
    BY <1>2, <1>4, <1>6 DEF Mean
  <2>2. T = {}
    BY <1>1, <2>1, FS_EmptySet
  <2>3. m = 0
    BY <1>1, <2>2, SumOfNone
  <2>4. c[1] = 0 /\ c[2] = 1 /\ 0 * 0 = 1 * 0 /\ 0 \in Int /\ 1 \in Nat \ {0}
    BY <2>1
  <2> QED
    BY <1>1, <1>4, <2>1, <2>3, <2>4 DEF T, c
<1> QED
  BY <1>4, <1>5, <1>6

LEMMA MeansProper ==
  ASSUME w \in [Ranks -> Seq(Int)], NEW labels, Complete(labels)
  PROVE  Proper(MeansOf(labels))
<1> SUFFICES ASSUME NEW j \in Nodes
             PROVE  MeansOf(labels)[j][1] \in Int /\ MeansOf(labels)[j][2] \in Nat \ {0}
  BY DEF Proper
<1> DEFINE f == [x \in Everywhere |-> w[x[1]][x[2]]]
<1>1. \A x \in Cluster(labels, j) : f[x] = w[x[1]][x[2]] /\ f[x] \in Int
  <2> SUFFICES ASSUME NEW x \in Cluster(labels, j) PROVE f[x] = w[x[1]][x[2]] /\ f[x] \in Int
    OBVIOUS
  <2>1. x \in Everywhere
    BY DEF Cluster
  <2>2. PICK r \in Ranks : x \in {r} \X DOMAIN w[r]
    BY <2>1 DEF Everywhere
  <2>3. x[1] = r /\ x[2] \in DOMAIN w[r] /\ w[r] \in Seq(Int)
    BY <2>2
  <2>4. w[r][x[2]] \in Int
    BY <2>3
  <2> QED
    BY <2>1, <2>3, <2>4
<1> HIDE DEF f
<1> QED
  BY <1>1, MeanOfCluster

\* Numbers of one cluster with a common scale: the gap to a centre, scaled up again.
LEMMA Rescaled ==
  ASSUME NEW y \in Int, NEW c \in Int, NEW d \in Int, NEW s \in Int, NEW S \in Int, d * s = S,
         NEW R \in Int, NEW g, g = (y * d - c) * s
  PROVE  (R * R) * (g * g) = (y * (S * R) - (c * s) * R) * (y * (S * R) - (c * s) * R)
<1>1. g * R = y * (S * R) - (c * s) * R /\ g \in Int
  OBVIOUS
<1>2. (R * R) * (g * g) = (g * R) * (g * R)
  BY <1>1
<1> QED
  BY <1>1, <1>2

\* For given labels no centres cost less than the means.
LEMMA MeansGain ==
  ASSUME w \in [Ranks -> Seq(Int)], NEW labels, Complete(labels), NEW old, Proper(old)
  PROVE  LET new == MeansOf(labels)
         IN  (Scale(old) * Scale(old)) * SumFunctionOnSet(Squares(new, labels), Everywhere)
               <= (Scale(new) * Scale(new)) * SumFunctionOnSet(Squares(old, labels), Everywhere)
<1> DEFINE new == MeansOf(labels)
           S == Scale(new)
           R == Scale(old)
           a == Squares(new, labels)
           b == Squares(old, labels)
           f == [x \in Everywhere |-> w[x[1]][x[2]]]
           big == [x \in Everywhere |-> (S * R) * f[x]]
           g == [x \in Everywhere |-> (R * R) * a[x]]
           h == [x \in Everywhere |-> (S * S) * b[x]]
           part == [x \in Everywhere |-> labels[x[1]][x[2]]]
<1>1. Proper(new)
  BY MeansProper
<1>2. S \in Int /\ R \in Int /\ S * R \in Int /\ R * R \in Int /\ S * S \in Int
  <2>1. S \in Nat /\ R \in Nat
    BY <1>1, ScaleDefined
  <2> HIDE DEF S, R
  <2> QED
    BY <2>1
<1>3. IsFiniteSet(Everywhere)
  BY EverywhereFinite
<1>4. ASSUME NEW x \in Everywhere
      PROVE  LET j == part[x]
             IN  /\ j \in Nodes /\ f[x] = w[x[1]][x[2]] /\ f[x] \in Int
                 /\ big[x] \in Int /\ big[x] = (S * R) * f[x]
                 /\ a[x] \in Int /\ b[x] \in Int /\ g[x] = (R * R) * a[x] /\ h[x] = (S * S) * b[x]
                 /\ g[x] \in Int /\ h[x] \in Int
                 /\ g[x] = (big[x] - (new[j][1] * (S \div new[j][2])) * R)
                             * (big[x] - (new[j][1] * (S \div new[j][2])) * R)
                 /\ h[x] = (big[x] - (old[j][1] * (R \div old[j][2])) * S)
                             * (big[x] - (old[j][1] * (R \div old[j][2])) * S)
  <2> DEFINE j == labels[x[1]][x[2]]
             y == w[x[1]][x[2]]
             s == S \div new[j][2]
             t == R \div old[j][2]
             p == ScaledGap(x, S, new, labels)
             q == ScaledGap(x, R, old, labels)
             c == new[j][1]
             d == new[j][2]
             e == old[j][1]
             k == old[j][2]
  <2>1. /\ y \in Int /\ j \in Nodes /\ c \in Int /\ d \in Nat \ {0} /\ s \in Nat \ {0} /\ d * s = S
        /\ p = (y * d - c) * s /\ p \in Int
    BY <1>1, GapKnown
  <2>2. /\ e \in Int /\ k \in Nat \ {0} /\ t \in Nat \ {0} /\ k * t = R
        /\ q = (y * k - e) * t /\ q \in Int
    BY GapKnown
  <2>3. a[x] = p * p /\ b[x] = q * q /\ f[x] = y /\ part[x] = j
    BY DEF Squares
  <2>4. /\ big[x] = (S * R) * f[x] /\ g[x] = (R * R) * a[x] /\ h[x] = (S * S) * b[x]
    OBVIOUS
  <2>5. c \in Int /\ d \in Int /\ s \in Int /\ e \in Int /\ k \in Int /\ t \in Int
    <3> HIDE DEF c, d, s, e, k, t
    <3> QED
      BY <2>1, <2>2
  <2>6. part[x] \in Nodes /\ new[part[x]][1] = c /\ S \div new[part[x]][2] = s
        /\ old[part[x]][1] = e /\ R \div old[part[x]][2] = t
    BY <2>1, <2>3
  <2> HIDE DEF j, y, s, t, p, q, c, d, e, k, S, R, a, b, f, big, g, h, part, new
  <2>7. (R * R) * (p * p) = (y * (S * R) - (c * s) * R) * (y * (S * R) - (c * s) * R)
    BY <1>2, <2>1, <2>5, Rescaled
  <2>8. (S * S) * (q * q) = (y * (R * S) - (e * t) * S) * (y * (R * S) - (e * t) * S)
    BY <1>2, <2>1, <2>2, <2>5, Rescaled
  <2>9. y * (S * R) = (S * R) * y /\ y * (R * S) = (S * R) * y /\ (S * R) * y \in Int
        /\ p * p \in Int /\ q * q \in Int
    BY <1>2, <2>1, <2>2
  <2>10. (R * R) * (p * p) \in Int /\ (S * S) * (q * q) \in Int
    BY <1>2, <2>9
  <2> DEFINE Y == (S * R) * y
             M == (c * s) * R
             E == (e * t) * S
  <2>11. (R * R) * (p * p) = (Y - M) * (Y - M) /\ (S * S) * (q * q) = (Y - E) * (Y - E) /\ Y \in Int
    BY <2>7, <2>8, <2>9
  <2>12. g[x] = (R * R) * (p * p) /\ h[x] = (S * S) * (q * q) /\ big[x] = Y
         /\ a[x] \in Int /\ b[x] \in Int
    BY <2>3, <2>4, <2>9
  <2>13. /\ (new[part[x]][1] * (S \div new[part[x]][2])) * R = M
         /\ (old[part[x]][1] * (R \div old[part[x]][2])) * S = E
    BY <2>6
  <2>14. g[x] \in Int /\ h[x] \in Int
    BY <2>10, <2>12
  <2> HIDE DEF Y, M, E
  <2>15. g[x] = (big[x] - M) * (big[x] - M) /\ h[x] = (big[x] - E) * (big[x] - E) /\ big[x] \in Int
    BY <2>11, <2>12
  <2>16. f[x] = w[x[1]][x[2]] /\ f[x] \in Int
    BY <2>1, <2>3 DEF y
  <2> QED
    BY <2>4, <2>6, <2>12, <2>13, <2>14, <2>15, <2>16
<1>5. ASSUME NEW j \in Nodes
      PROVE  SumFunctionOnSet(g, Cluster(labels, j)) <= SumFunctionOnSet(h, Cluster(labels, j))
  <2> DEFINE T == Cluster(labels, j)
             c == new[j][1]
             d == new[j][2]
             s == S \div d
             m == (c * s) * R
             e == (old[j][1] * (R \div old[j][2])) * S
             n == Cardinality(T)
             F == SumFunctionOnSet(f, T)
  <2>1. T \in SUBSET Everywhere /\ \A x \in T : part[x] = j
    BY DEF Cluster
  <2>2. \A x \in T : f[x] = w[x[1]][x[2]] /\ f[x] \in Int
    <3> HIDE DEF f
    <3> QED
      BY <1>4, <2>1
  <2>3. c \in Int /\ d \in Nat \ {0} /\ IsFiniteSet(T) /\ n \in Nat /\ F \in Int /\ n * c = d * F
    <3> HIDE DEF f
    <3> QED
      BY <2>2, MeanOfCluster
  <2>4. s \in Nat /\ d * s = S
    BY <1>1, ScaleDefined
  <2>5. e \in Int
    <3>1. old[j][1] \in Int /\ R \div old[j][2] \in Nat
      BY ScaleDefined DEF Proper
    <3> HIDE DEF R, S
    <3> QED
      BY <1>2, <3>1
  <2>6. \A x \in T : /\ big[x] \in Int /\ g[x] = (big[x] - m) * (big[x] - m)
                     /\ h[x] = (big[x] - e) * (big[x] - e)
                     /\ big[x] = (S * R) * f[x] /\ f[x] \in Int
    <3> SUFFICES ASSUME NEW x \in T
                 PROVE  /\ big[x] \in Int /\ g[x] = (big[x] - m) * (big[x] - m)
                        /\ h[x] = (big[x] - e) * (big[x] - e)
                        /\ big[x] = (S * R) * f[x] /\ f[x] \in Int
      OBVIOUS
    <3> HIDE DEF T, S, R, new, a, b, f, big, g, h, part
    <3>1. x \in Everywhere /\ part[x] = j
      BY <2>1
    <3> QED
      BY <1>4, <3>1
  <2> HIDE DEF T, c, d, s, e, n, F, S, R, new, a, b, f, big, g, h, part
  <2>7. m \in Int
    BY <1>2, <2>3, <2>4
  <2>8. n * m = SumFunctionOnSet(big, T)
    <3>1. SumFunctionOnSet(big, T) = (S * R) * F
      <4> DEFINE K == S * R
      <4>1. K \in Int /\ IsFiniteSet(T) /\ \A x \in T : f[x] \in Int /\ big[x] = K * f[x]
        BY <1>2, <2>3, <2>6
      <4> HIDE DEF K
      <4>2. SumFunctionOnSet(big, T) = K * SumFunctionOnSet(f, T)
        BY ONLY <4>1, SumScaled
      <4> QED
        BY <4>2 DEF K, F
    <3>2. n * m = ((n * c) * s) * R
      BY <1>2, <2>3, <2>4
    <3>3. ((n * c) * s) * R = ((d * s) * R) * F
      BY <1>2, <2>3, <2>4
    <3> QED
      BY <2>4, <3>1, <3>2, <3>3
  <2> HIDE DEF m
  <2>9. Cardinality(T) * m = SumFunctionOnSet(big, T)
    BY <2>8 DEF n
  <2>10. SumFunctionOnSet(g, T) <= SumFunctionOnSet(h, T)
    BY <2>3, <2>5, <2>6, <2>7, <2>9, MeanIsLeast
  <2> QED
    BY <2>10 DEF T
<1>6. SumFunctionOnSet(g, Everywhere) <= SumFunctionOnSet(h, Everywhere)
  <2> DEFINE U == Everywhere
  <2>1. \A x \in U : part[x] \in 0 .. Centres-1 /\ g[x] \in Int /\ h[x] \in Int
    <3> HIDE DEF S, R, new, a, b, f, big, g, h, part
    <3> QED
      BY <1>4 DEF Nodes
  <2>2. \A j \in 0 .. Centres-1 : \A V : (\A x : x \in V <=> x \in U /\ part[x] = j)
                                         => SumFunctionOnSet(g, V) <= SumFunctionOnSet(h, V)
    <3> SUFFICES ASSUME NEW j \in 0 .. Centres-1, NEW V, \A x : x \in V <=> x \in U /\ part[x] = j
                 PROVE  SumFunctionOnSet(g, V) <= SumFunctionOnSet(h, V)
      OBVIOUS
    <3>1. V = Cluster(labels, j)
      <4>1. \A x : x \in Cluster(labels, j) <=> x \in U /\ part[x] = j
        BY DEF Cluster
      <4> HIDE DEF U, part
      <4> QED
        BY <4>1
    <3>2. j \in Nodes
      BY DEF Nodes
    <3> HIDE DEF U, g, h, part
    <3> QED
      BY <1>5, <3>1, <3>2
  <2>3. Centres \in Nat /\ IsFiniteSet(U)
    BY <1>3, CentresAssumption
  <2> HIDE DEF U, S, R, new, a, b, f, big, g, h, part
  <2>4. SumFunctionOnSet(g, U) <= SumFunctionOnSet(h, U)
    BY <2>1, <2>2, <2>3, SumsByParts
  <2> QED
    BY <2>4 DEF U
<1>7. /\ \A x \in Everywhere : a[x] \in Int /\ g[x] = (R * R) * a[x]
      /\ \A x \in Everywhere : b[x] \in Int /\ h[x] = (S * S) * b[x]
  <2> HIDE DEF S, R, new, a, b, f, big, g, h, part
  <2> QED
    BY <1>4
<1> HIDE DEF S, R, new, a, b, f, big, g, h, part
<1> DEFINE RR == R * R
           SS == S * S
<1> DEFINE U == Everywhere
<1>9. RR \in Int /\ IsFiniteSet(U) /\ \A x \in U : a[x] \in Int /\ g[x] = RR * a[x]
  BY <1>2, <1>3, <1>7
<1>10. SS \in Int /\ IsFiniteSet(U) /\ \A x \in U : b[x] \in Int /\ h[x] = SS * b[x]
  BY <1>2, <1>3, <1>7
<1> HIDE DEF RR, SS, U
<1>11. /\ SumFunctionOnSet(g, U) = RR * SumFunctionOnSet(a, U)
       /\ SumFunctionOnSet(h, U) = SS * SumFunctionOnSet(b, U)
  <2>1. SumFunctionOnSet(g, U) = RR * SumFunctionOnSet(a, U)
    BY ONLY <1>9, SumScaled
  <2>2. SumFunctionOnSet(h, U) = SS * SumFunctionOnSet(b, U)
    BY ONLY <1>10, SumScaled
  <2> QED
    BY <2>1, <2>2
<1>12. RR * SumFunctionOnSet(a, U) <= SS * SumFunctionOnSet(b, U)
  BY <1>6, <1>11 DEF U
<1> QED
  BY <1>12 DEF RR, SS, S, R, a, b, new, U

\* All the labellings are complete, and their centres are fractions.
LEMMA AllProper ==
  ASSUME HistoryInv, NEW m \in 0 .. Len(labelled)
  PROVE  Proper(CentresAfter(m)) /\ Complete(LabelsAfter(m))
<1> DEFINE Fine == {n \in Nat : n <= Len(labelled) =>
                      Proper(CentresAfter(n)) /\ Complete(LabelsAfter(n))}
<1>1. w \in [Ranks -> Seq(Int)] /\ Len(labelled) \in Nat
  BY DEF HistoryInv
<1>2. 0 \in Fine
  <2>1. wmin[0] \in Int /\ wmax[0] \in Int
    BY RootExists DEF HistoryInv, Keeps, RangeShared
  <2>2. Proper(CentresAfter(0))
    <3> SUFFICES ASSUME NEW j \in Nodes
                 PROVE  CentresAfter(0)[j][1] \in Int /\ CentresAfter(0)[j][2] \in Nat \ {0}
      BY DEF Proper
    <3>1. CentresAfter(0)[j] = <<j * (wmax[0] - wmin[0]) + Centres * wmin[0], Centres>>
      BY DEF CentresAfter, FirstCentres
    <3>2. j \in Int /\ Centres \in Nat \ {0}
      BY CentresAssumption DEF Nodes
    <3>3. j * (wmax[0] - wmin[0]) + Centres * wmin[0] \in Int
      BY <2>1, <3>2
    <3> QED
      BY <3>1, <3>2, <3>3
  <2>3. Complete(LabelsAfter(0))
    <3>1. 0 \in Nodes
      BY CentresAssumption DEF Nodes
    <3> QED
      BY <3>1 DEF Complete, LabelsAfter
  <2> QED
    BY <2>2, <2>3
<1>3. \A n \in Nat : n \in Fine => n + 1 \in Fine
  <2> SUFFICES ASSUME NEW n \in Nat, n \in Fine, n + 1 <= Len(labelled)
               PROVE  Proper(CentresAfter(n + 1)) /\ Complete(LabelsAfter(n + 1))
    OBVIOUS
  <2>1. n + 1 \in 1 .. Len(labelled) /\ (n + 1) - 1 = n /\ n + 1 # 0 /\ n <= Len(labelled)
    BY <1>1
  <2>2. Proper(CentresAfter(n)) /\ Complete(LabelsAfter(n))
    BY <2>1
  <2>3. HistoryOf(n + 1)
    BY <2>1 DEF HistoryInv
  <2>4. LabelsAfter(n + 1) = [r \in Ranks |-> NextLabels(n, r)]
    BY <2>1, <2>3 DEF HistoryOf, LabelsAfter
  <2>5. NextOf(LabelsAfter(n), CentresAfter(n), LabelsAfter(n + 1))
    BY <2>4 DEF NextOf, NextLabels
  <2>6. Complete(LabelsAfter(n + 1))
    BY <1>1, <2>2, <2>5, StaysComplete
  <2>7. CentresAfter(n + 1) = MeansOf(LabelsAfter(n + 1))
    BY <2>1 DEF CentresAfter, LabelsAfter
  <2>8. Proper(MeansOf(LabelsAfter(n + 1)))
    BY <1>1, <2>6, MeansProper
  <2> QED
    BY <2>6, <2>7, <2>8
<1>4. m \in Nat /\ m <= Len(labelled)
  BY <1>1
<1>5. m \in Fine
  <2> HIDE DEF Fine
  <2> QED
    BY <1>2, <1>3, <1>4, Induction
<1> QED
  BY <1>4, <1>5

LEMMA CostKnown ==
  ASSUME NEW centre, NEW labels
  PROVE  ClusteringCost(centre, labels) =
           <<SumFunctionOnSet(Squares(centre, labels), Everywhere), Scale(centre) * Scale(centre)>>
<1> DEFINE scale == Scale(centre)
           gap == [x \in Everywhere |-> ScaledGap(x, scale, centre, labels)]
           square == [x \in Everywhere |-> gap[x] * gap[x]]
<1>1. ClusteringCost(centre, labels) = <<SumFunction(square), scale * scale>>
  BY DEF ClusteringCost
<1>2. square = Squares(centre, labels)
  BY DEF Squares
<1>3. DOMAIN square = Everywhere
  OBVIOUS
<1> HIDE DEF square
<1>4. SumFunction(square) = SumFunctionOnSet(square, Everywhere)
  BY <1>3 DEF SumFunction
<1> QED
  BY <1>1, <1>2, <1>4

\* The means of the labels cost no more than the centres they were labelled with, and
\* the new labels no more than the old ones.
LEMMA CostFalls == HistoryInv => CostNeverRises
<1> SUFFICES ASSUME HistoryInv, NEW k \in DOMAIN labelled \ {1}
             PROVE  ~ Less(ClusteringCost(labelled[k-1].w_centre, labelled[k-1].w_node),
                           ClusteringCost(labelled[k].w_centre, labelled[k].w_node))
  BY DEF CostNeverRises
<1> DEFINE n == k - 1
           old == CentresAfter(n - 1)
           new == CentresAfter(n)
           labels == LabelsAfter(n)
           next == labelled[k].w_node
<1>1. w \in [Ranks -> Seq(Int)]
  BY DEF HistoryInv
<1>2. /\ n \in 1 .. Len(labelled) /\ k \in 1 .. Len(labelled) /\ n # 0
      /\ n \in 0 .. Len(labelled) /\ n - 1 \in 0 .. Len(labelled)
  <2>1. DOMAIN labelled = 1 .. Len(labelled) /\ Len(labelled) \in Nat
    BY DEF HistoryInv
  <2> QED
    BY <2>1
<1>3. /\ labelled[n] = [w_centre |-> old, w_node |-> [r \in Ranks |-> NextLabels(n - 1, r)]]
      /\ labelled[k] = [w_centre |-> new, w_node |-> [r \in Ranks |-> NextLabels(n, r)]]
  BY <1>2 DEF HistoryInv, HistoryOf
<1>4. labels = labelled[n].w_node /\ new = MeansOf(labels)
  BY <1>2 DEF LabelsAfter, CentresAfter
<1>5. Proper(old) /\ Proper(new) /\ Complete(labels)
  BY <1>2, AllProper
<1>6. labelled[n].w_centre = old /\ labelled[k].w_centre = new
      /\ next = [r \in Ranks |-> NextLabels(n, r)]
  BY <1>3
<1>7. NextOf(labels, new, next)
  BY <1>6 DEF NextOf, NextLabels
<1> DEFINE R == Scale(old)
           S == Scale(new)
           A == SumFunctionOnSet(Squares(old, labels), Everywhere)
           B == SumFunctionOnSet(Squares(new, labels), Everywhere)
           C == SumFunctionOnSet(Squares(new, next), Everywhere)
<1>8. /\ ClusteringCost(labelled[k-1].w_centre, labelled[k-1].w_node) = <<A, R * R>>
      /\ ClusteringCost(labelled[k].w_centre, labelled[k].w_node) = <<C, S * S>>
  <2> HIDE DEF old, new, labels, next
  <2> QED
    BY <1>4, <1>6, CostKnown DEF next
<1> HIDE DEF n, old, new, labels, next
<1>9. (R * R) * B <= (S * S) * A
  BY <1>1, <1>4, <1>5, MeansGain
<1>10. C <= B /\ C \in Int /\ B \in Int
  <2> DEFINE f == Squares(new, next)
             g == Squares(new, labels)
             U == Everywhere
  <2>1. \A x \in U : f[x] \in Int /\ g[x] \in Int /\ f[x] <= g[x]
    BY <1>1, <1>5, <1>7, RelabellingGains
  <2>2. IsFiniteSet(U)
    BY <1>1, EverywhereFinite
  <2> HIDE DEF f, g, U
  <2>3. SumFunctionOnSet(f, U) <= SumFunctionOnSet(g, U)
    BY <2>1, <2>2, SumsCompare
  <2>4. SumFunctionOnSet(f, U) \in Int /\ SumFunctionOnSet(g, U) \in Int
    BY <2>1, <2>2, SumIsInteger
  <2> QED
    BY <2>3, <2>4 DEF f, g, U
<1>11. A \in Int
  <2> DEFINE f == Squares(old, labels)
             U == Everywhere
  <2>1. \A x \in U : f[x] \in Int
    <3> SUFFICES ASSUME NEW x \in U PROVE f[x] \in Int
      OBVIOUS
    <3>1. ScaledGap(x, R, old, labels) \in Int
      BY <1>1, <1>5, GapKnown
    <3>2. f[x] = ScaledGap(x, R, old, labels) * ScaledGap(x, R, old, labels)
      BY DEF Squares
    <3> HIDE DEF f, R
    <3> QED
      BY <3>1, <3>2
  <2>2. IsFiniteSet(U)
    BY <1>1, EverywhereFinite
  <2> HIDE DEF f, U
  <2>3. SumFunctionOnSet(f, U) \in Int
    BY <2>1, <2>2, SumIsInteger
  <2> QED
    BY <2>3 DEF f, U
<1>12. R \in Nat \ {0} /\ S \in Nat \ {0}
  BY <1>5, ScaleDefined
<1> HIDE DEF A, B, C, R, S
<1> DEFINE RR == R * R
           SS == S * S
<1>13. RR \in Int /\ RR > 0 /\ SS \in Int
  BY <1>12
<1>14. RR * B <= SS * A
  BY <1>9
<1> HIDE DEF RR, SS
<1>15. ~(A * SS < C * RR)
  <2>1. C * RR <= B * RR
    BY <1>10, <1>13, ProductsOrdered
  <2>2. B * RR = RR * B /\ A * SS = SS * A /\ C * RR \in Int /\ RR * B \in Int /\ SS * A \in Int
    BY <1>10, <1>11, <1>13
  <2> QED
    BY <1>14, <2>1, <2>2
<1>16. ~ Less(<<A, RR>>, <<C, SS>>)
  BY <1>15 DEF Less
<1> QED
  BY <1>8, <1>16 DEF RR, SS

\* Clustering makes progress, whatever the w terms and whichever ranks hold them.
THEOREM ClusteringMakesProgress == KMeansSpec => []CostNeverRises
<1> QED
  BY HistoryInvAlways, CostFalls, PTL
================================================================================
