-------------------------- MODULE DistributeVisProofs --------------------------
(***************************************************************************)
(* Proofs about DistributeVis for every number of ranks and visibilities   *)
(* and every quantity the plans sort by: a rank that returns holds the     *)
(* visibilities of its share, each of them once and whole, however far the *)
(* root runs ahead of the other ranks; and the shares follow the quantity. *)
(***************************************************************************)
EXTENDS DistributeVis, Regroup, Lists

(***************************************************************************)
(* The inductive invariant.                                                *)
(***************************************************************************)

Given ==
  /\ size \in Sizes /\ file \in {"good", "runtime_error", "other_error"}
  /\ plan \in SortingPlans \cup {"none", "unknown"}
  /\ \E n \in Counts : key \in [1 .. n -> SortKeys]
  /\ spread \in BOOLEAN

\* The root has not begun to send.
Before == pc[Root] \in {"read", "distribute", "regroup", "threw", "undefined"}
Sending == pc[Root] = "send" \/ (pc[Root] = "returned" /\ size > 1)

\* The assignment to the ranks: a rank for every visibility, in the order of the plan, and
\* no rank has more than its part.
Assigned ==
  /\ order \in [Data -> Ranks]
  /\ \A r \in Ranks : ShareSize(r) <= PartitionSize
  /\ plan \in SortingPlans => \A d, e \in Data : order[d] < order[e] => key[d+1] <= key[e+1]

\* The columns are regrouped by rank.
Regrouped == table \in Permutations(Data) /\ SortedBy(Data, table, order)

Stages ==
  /\ order # <<>> => Assigned
  /\ pc[Root] = "regroup" \/ Sending => Assigned
  /\ Sending => Regrouped
  /\ pc[Root] \in {"distribute", "regroup", "undefined"} => size > 1
  /\ pc[Root] = "send" => size > 1

\* A rank has stored what it has received, and the messages it has not taken yet are
\* those of the calls that the root has made since.
Collective(r) ==
  /\ calls[r] \in 0 .. 10
  /\ DOMAIN result[r] = DOMAIN Empty
  /\ \A k \in 2 .. calls[r] : result[r][RootCalls[k]] = Payload(RootCalls[k], r)

Pending(r) ==
  /\ calls[r] <= calls[Root]
  /\ inbox[r] \in Seq({Payload(RootCalls[k], r) : k \in 1 .. 10})
  /\ Len(inbox[r]) = calls[Root] - calls[r]
  /\ \A k \in 1 .. Len(inbox[r]) : inbox[r][k] = Payload(RootCalls[calls[r] + k], r)

\* What a single rank keeps: everything, as it was read.
Everything ==
  [a \in DOMAIN Empty |-> IF a \in ColumnNames THEN [p \in 1 .. Count |-> <<a, p-1>>]
                          ELSE <<<<a, "root">>>>]

Progress(r) ==
  /\ r # Root => pc[r] \in {"receive", "returned", "aborted"}
  /\ r = Root => pc[r] \in {"read", "distribute", "regroup", "send", "returned", "aborted",
                            "threw", "undefined"}
  /\ pc[r] \in {"receive", "send"} => calls[r] < 10
  /\ pc[r] = "returned" => calls[r] = 10 \/ (size = 1 /\ result[r] = Everything)

ScatterInv ==
  /\ Given /\ Stages
  /\ DOMAIN inbox = Ranks /\ DOMAIN result = Ranks /\ DOMAIN calls = Ranks /\ DOMAIN pc = Ranks
  /\ ~Sending => calls[Root] = 0
  /\ \A r \in Ranks : Collective(r) /\ Progress(r)
  /\ \A r \in Ranks \ {Root} : Pending(r)

(***************************************************************************)
(* The calls and the types.                                                *)
(***************************************************************************)

\* The ten collective calls, the same for every rank.
LEMMA CallsListed ==
  /\ RootCalls = <<"sizes", "u", "v", "w", "vis", "weights", "units", "ra", "dec",
                   "average_frequency">>
  /\ OtherCalls = RootCalls /\ \A r : CallsOf(r) = RootCalls
<1> DEFINE names == {"sizes", "u", "v", "w", "vis", "weights", "units", "ra", "dec",
                     "average_frequency"}
           first == <<"sizes">>
           both == <<"sizes", "u", "v", "w", "vis", "weights">>
           all == <<"sizes", "u", "v", "w", "vis", "weights", "units", "ra", "dec",
                    "average_frequency">>
<1>1. first \in Seq(names) /\ Len(first) = 1 /\ first[1] = "sizes"
  OBVIOUS
<1>2. Columns \in Seq(names) /\ Len(Columns) = 5 /\ Columns[1] = "u" /\ Columns[2] = "v"
      /\ Columns[3] = "w" /\ Columns[4] = "vis" /\ Columns[5] = "weights"
  BY DEF Columns
<1>3. /\ Header \in Seq(names) /\ Len(Header) = 4 /\ Header[1] = "units" /\ Header[2] = "ra"
      /\ Header[3] = "dec" /\ Header[4] = "average_frequency"
  BY DEF Header
<1>4. /\ both \in Seq(names) /\ Len(both) = 6 /\ both[1] = "sizes" /\ both[2] = "u"
      /\ both[3] = "v" /\ both[4] = "w" /\ both[5] = "vis" /\ both[6] = "weights"
  OBVIOUS
<1>5. /\ all \in Seq(names) /\ Len(all) = 10 /\ all[1] = "sizes" /\ all[2] = "u"
      /\ all[3] = "v" /\ all[4] = "w" /\ all[5] = "vis" /\ all[6] = "weights"
      /\ all[7] = "units" /\ all[8] = "ra" /\ all[9] = "dec" /\ all[10] = "average_frequency"
  OBVIOUS
<1>6. RootCalls = (first \o Columns) \o Header /\ OtherCalls = (first \o Columns) \o Header
  BY DEF RootCalls, OtherCalls
<1> HIDE DEF names, first, both, all
<1>7. first \o Columns = both
  <2>1. \A k \in 1 .. Len(first) : both[k] = first[k]
    BY <1>1, <1>4
  <2>2. \A k \in 1 .. Len(Columns) : both[Len(first) + k] = Columns[k]
    <3> SUFFICES ASSUME NEW k \in 1 .. 5 PROVE both[1 + k] = Columns[k]
      BY <1>1, <1>2
    <3>1. k = 1 \/ k = 2 \/ k = 3 \/ k = 4 \/ k = 5
      OBVIOUS
    <3> QED
      BY <1>2, <1>4, <3>1
  <2>3. Len(both) = Len(first) + Len(Columns)
    BY <1>1, <1>2, <1>4
  <2> QED
    BY <1>1, <1>2, <1>4, <2>1, <2>2, <2>3, Continued
<1>8. both \o Header = all
  <2>1. \A k \in 1 .. Len(both) : all[k] = both[k]
    <3> SUFFICES ASSUME NEW k \in 1 .. 6 PROVE all[k] = both[k]
      BY <1>4
    <3>1. k = 1 \/ k = 2 \/ k = 3 \/ k = 4 \/ k = 5 \/ k = 6
      OBVIOUS
    <3> QED
      BY <1>4, <1>5, <3>1
  <2>2. \A k \in 1 .. Len(Header) : all[Len(both) + k] = Header[k]
    <3> SUFFICES ASSUME NEW k \in 1 .. 4 PROVE all[6 + k] = Header[k]
      BY <1>3, <1>4
    <3>1. k = 1 \/ k = 2 \/ k = 3 \/ k = 4
      OBVIOUS
    <3> QED
      BY <1>3, <1>5, <3>1
  <2>3. Len(all) = Len(both) + Len(Header)
    BY <1>3, <1>4, <1>5
  <2> QED
    BY <1>3, <1>4, <1>5, <2>1, <2>2, <2>3, Continued
<1>9. RootCalls = all /\ OtherCalls = RootCalls
  BY <1>6, <1>7, <1>8
<1>10. \A r : CallsOf(r) = RootCalls
  BY <1>9 DEF CallsOf
<1> QED
  BY <1>9, <1>10 DEF all

LEMMA NamesAre ==
  /\ ColumnNames = {"u", "v", "w", "vis", "weights"}
  /\ DOMAIN Header = 1 .. 4
  /\ DOMAIN Empty = {"u", "v", "w", "vis", "weights", "units", "ra", "dec",
                     "average_frequency"}
<1>1. ColumnNames = {"u", "v", "w", "vis", "weights"}
  BY DEF ColumnNames, Columns
<1>2. DOMAIN Header = 1 .. 4
  BY DEF Header
<1>3. {Header[k] : k \in DOMAIN Header} = {"units", "ra", "dec", "average_frequency"}
  BY DEF Header
<1>4. DOMAIN Empty = ColumnNames \cup {Header[k] : k \in DOMAIN Header}
  BY DEF Empty
<1> QED
  BY <1>1, <1>2, <1>3, <1>4

LEMMA CallsDiffer ==
  /\ Len(RootCalls) = 10 /\ RootCalls[1] = "sizes"
  /\ \A k, l \in 1 .. 10 : RootCalls[k] = RootCalls[l] => k = l
  /\ \A k \in 2 .. 10 : RootCalls[k] \in DOMAIN Empty /\ RootCalls[k] # "sizes"
  /\ \A a \in DOMAIN Empty : \E k \in 2 .. 10 : RootCalls[k] = a
<1> DEFINE L == RootCalls
<1>1. /\ Len(L) = 10 /\ L[1] = "sizes" /\ L[2] = "u" /\ L[3] = "v" /\ L[4] = "w"
      /\ L[5] = "vis" /\ L[6] = "weights" /\ L[7] = "units" /\ L[8] = "ra" /\ L[9] = "dec"
      /\ L[10] = "average_frequency"
  BY CallsListed
<1>2. /\ \A k \in 1 .. 10 : k \in {1, 2, 3, 4, 5, 6, 7, 8, 9, 10}
      /\ \A k \in 2 .. 10 : k \in {2, 3, 4, 5, 6, 7, 8, 9, 10}
      /\ {2, 3, 4, 5, 6, 7, 8, 9, 10} \subseteq 2 .. 10
  OBVIOUS
<1> HIDE DEF L
<1>3. \A k, l \in {1, 2, 3, 4, 5, 6, 7, 8, 9, 10} : L[k] = L[l] => k = l
  BY <1>1
<1>4. \A k \in {2, 3, 4, 5, 6, 7, 8, 9, 10} : L[k] \in DOMAIN Empty /\ L[k] # "sizes"
  BY <1>1, NamesAre
<1>5. \A a \in DOMAIN Empty : \E k \in {2, 3, 4, 5, 6, 7, 8, 9, 10} : L[k] = a
  BY <1>1, NamesAre
<1> QED
  BY <1>1, <1>2, <1>3, <1>4, <1>5 DEF L

LEMMA GivenTypes ==
  ASSUME Given
  PROVE  /\ size \in Nat /\ size > 0 /\ Root \in Ranks
         /\ Count \in Nat /\ key \in [1 .. Count -> Int]
         /\ \A d \in Data : d + 1 \in 1 .. Count
<1>1. PICK n \in Counts : key \in [1 .. n -> SortKeys]
  BY DEF Given
<1>2. n \in Nat
  BY CountsAssumption
<1>3. key \in [1 .. n -> Int]
  BY <1>1, SortKeysAssumption
<1>4. Count = n
  BY <1>2, <1>3 DEF Count
<1>5. size \in Nat /\ size > 0
  BY SizesAssumption DEF Given
<1>6. Root \in Ranks
  BY <1>5 DEF Root, Ranks
<1> QED
  BY <1>2, <1>3, <1>4, <1>5, <1>6 DEF Data

(***************************************************************************)
(* The assignment to the ranks.                                            *)
(***************************************************************************)

\* A smaller number does not have a larger quotient.
LEMMA QuotientGrows ==
  ASSUME NEW a \in Nat, NEW b \in Nat, a <= b, NEW s \in Nat, s > 0
  PROVE  a \div s \in Nat /\ a \div s <= b \div s
<1> DEFINE qa == a \div s
           ra == a % s
           qb == b \div s
           rb == b % s
<1>1. qa \in Int /\ ra \in Nat /\ ra < s /\ a = s * qa + ra /\ qa >= 0
  OBVIOUS
<1>2. qb \in Int /\ rb \in Nat /\ rb < s /\ b = s * qb + rb /\ qb >= 0
  OBVIOUS
<1> HIDE DEF qa, ra, qb, rb
<1>3. qa <= qb
  <2> SUFFICES ASSUME qb + 1 <= qa PROVE FALSE
    BY <1>1, <1>2
  <2>1. PICK k \in Nat : qa = qb + 1 + k
    <3>1. qa - qb - 1 \in Nat /\ qa = qb + 1 + (qa - qb - 1)
      BY <1>1, <1>2
    <3> QED
      BY <3>1
  <2>2. s * qa = s * qb + s + s * k
    BY <1>2, <2>1
  <2>3. s * k \in Nat /\ s * qb \in Nat /\ s * qa \in Nat
    BY <1>1, <1>2
  <2> DEFINE sk == s * k
             sqb == s * qb
             sqa == s * qa
  <2>4. sqa = sqb + s + sk /\ sk \in Nat /\ sqb \in Nat /\ a = sqa + ra /\ b = sqb + rb
    BY <1>1, <1>2, <2>2, <2>3
  <2> HIDE DEF sk, sqb, sqa
  <2> QED
    BY <1>1, <1>2, <2>4
<1> QED
  BY <1>1, <1>3 DEF qa, qb

LEMMA PartitionSizePositive ==
  ASSUME Given, Count > 0
  PROVE  PartitionSize \in Nat /\ PartitionSize > 0
<1> DEFINE x == Count + size - 1
           q == x \div size
           b == x % size
<1>1. size \in Nat /\ size > 0 /\ x \in Nat /\ x >= size
  BY GivenTypes
<1> HIDE DEF x
<1>2. q \in Int /\ q >= 0 /\ b \in Nat /\ b < size /\ x = size * q + b
  BY <1>1
<1> HIDE DEF q, b
<1>3. q # 0
  <2> SUFFICES ASSUME q = 0 PROVE FALSE
    OBVIOUS
  <2>1. size * q = 0
    BY <1>1
  <2> QED
    BY <1>1, <1>2, <2>1
<1> QED
  BY <1>2, <1>3 DEF PartitionSize, q, x

\* Unless there are no data at all, the indices are a rearrangement of the data.
LEMMA IndexRearranges ==
  ASSUME Given, NEW index \in Indices, \A p \in Data : index[p] \in Data, Count > 0
  PROVE  /\ index \in Permutations(Data)
         /\ plan \in SortingPlans => SortedBy(Data, index, [d \in Data |-> key[d+1]])
<1>1. Count \in Nat
  BY GivenTypes
<1>2. CASE plan = "none" \/ Count <= 2
  <2>1. index = [p \in 0 .. Count-1 |-> IF Count = 1 THEN 1 ELSE p * (Count \div (Count-1))]
    BY <1>2 DEF Indices, LinSpaced
  <2>2. Count # 1
    <3> SUFFICES ASSUME Count = 1 PROVE FALSE
      OBVIOUS
    <3>1. Data = {0} /\ index[0] = 1
      BY <2>1 DEF Data
    <3> QED
      BY <3>1
  <2>3. Count # 2
    <3> SUFFICES ASSUME Count = 2 PROVE FALSE
      OBVIOUS
    <3>1. Count \div (Count-1) = 2 /\ 1 \in 0 .. Count-1
      OBVIOUS
    <3>2. index[1] = 2 /\ 2 \notin Data
      BY <2>1, <3>1 DEF Data
    <3>3. 1 \in Data
      BY DEF Data
    <3> QED
      BY <3>2, <3>3
  <2>4. Count >= 3
    BY <1>1, <2>2, <2>3
  <2>5. Count \div (Count-1) = 1
    <3> DEFINE m == Count - 1
               q == Count \div m
               b == Count % m
    <3>1. m \in Nat /\ m >= 2 /\ Count = m + 1
      BY <1>1, <2>4
    <3> HIDE DEF m
    <3>2. q \in Int /\ q >= 0 /\ b \in Nat /\ b < m /\ Count = m * q + b
      BY <1>1, <3>1
    <3> HIDE DEF q, b
    <3>3. q # 0
      BY <3>1, <3>2
    <3>4. q < 2
      <4> SUFFICES ASSUME q >= 2 PROVE FALSE
        BY <3>2
      <4>1. PICK k \in Nat : q = 2 + k
        <5>1. q - 2 \in Nat /\ q = 2 + (q - 2)
          BY <3>2
        <5> QED
          BY <5>1
      <4>2. m * q = 2 * m + m * k /\ m * k \in Nat
        BY <3>1, <4>1
      <4> DEFINE mk == m * k
                 mq == m * q
      <4>3. mq = 2 * m + mk /\ mk \in Nat /\ Count = mq + b
        BY <3>2, <4>2
      <4> HIDE DEF mk, mq
      <4> QED
        BY <3>1, <3>2, <4>3
    <3>5. q = 1
      BY <3>2, <3>3, <3>4
    <3> QED
      BY <3>5 DEF q, m
  <2>6. index = [p \in Data |-> p]
    <3>1. \A p \in 0 .. Count-1 : p * 1 = p
      BY <1>1
    <3>2. index = [p \in 0 .. Count-1 |-> p * 1]
      BY <2>1, <2>2, <2>5
    <3> QED
      BY <3>1, <3>2 DEF Data
  <2>7. index \in Permutations(Data)
    BY <2>6 DEF Permutations
  <2>8. plan \notin SortingPlans
    BY <1>1, <1>2, <2>4 DEF SortingPlans
  <2> QED
    BY <2>7, <2>8
<1>3. CASE ~(plan = "none" \/ Count <= 2)
  BY <1>3 DEF Indices, SortedIndices
<1> QED
  BY <1>2, <1>3

LEMMA PartitionsAssign ==
  ASSUME Given, NEW index \in Indices, \A p \in Data : index[p] \in Data, ~TooManyNodes,
         order' = Partitions(index), UNCHANGED <<size, plan, key>>
  PROVE  Assigned'
<1>1. size \in Nat /\ size > 0 /\ Count \in Nat /\ key \in [1 .. Count -> Int]
      /\ \A d \in Data : d + 1 \in 1 .. Count
  BY GivenTypes
<1>2. Data' = Data /\ Ranks' = Ranks
  BY DEF Data, Ranks, Count
<1>3. CASE Count = 0
  <2>1. Data = {}
    BY <1>3 DEF Data
  <2>2. PartitionSize \in Nat
    <3>1. Count + size - 1 = size - 1 /\ size - 1 \in Nat /\ (size - 1) \div size \in Nat
      BY <1>1, <1>3
    <3> QED
      BY <3>1 DEF PartitionSize
  <2>3. \A r : ShareSize(r)' = 0
    <3> SUFFICES ASSUME NEW r PROVE ShareSize(r)' = 0
      OBVIOUS
    <3>1. {d \in Data : order'[d] = r} = {}
      BY <2>1
    <3> QED
      BY <1>2, <3>1, FS_EmptySet DEF ShareSize
  <2>4. PartitionSize' = PartitionSize
    BY DEF PartitionSize, Count
  <2>5. \A r \in Ranks' : ShareSize(r)' <= PartitionSize'
    BY <2>2, <2>3, <2>4
  <2> QED
    BY <1>2, <2>1, <2>5 DEF Assigned, Partitions
<1>4. CASE Count > 0
  <2> DEFINE PS == PartitionSize
             place == [d \in Data |-> CHOOSE p \in Data : index[p] = d]
  <2>1. PS \in Nat /\ PS > 0
    BY <1>4, PartitionSizePositive
  <2>2. /\ index \in [Data -> Data] /\ \A p, q \in Data : index[p] = index[q] => p = q
        /\ plan \in SortingPlans => SortedBy(Data, index, [d \in Data |-> key[d+1]])
    BY <1>4, IndexRearranges DEF Permutations
  <2>3. \A d \in Data : place[d] \in Data /\ index[place[d]] = d
    <3>1. \A d \in Data : \E p \in Data : index[p] = d
      BY <1>1, <2>2, EveryPlaceTaken DEF Data
    <3> QED
      BY <3>1
  <2>4. order' = [d \in Data |-> place[d] \div PS]
    BY DEF Partitions
  <2>5. \A d \in Data : d \in Nat /\ d <= Count - 1 /\ Count - 1 \in Nat
    BY <1>1, <1>4 DEF Data
  <2>6. (Count - 1) \div PS <= size - 1
    <3>1. (Count - 1) \div PS \in Int
      BY <1>1, <2>1
    <3> QED
      BY <1>1, <1>4, <3>1 DEF TooManyNodes
  <2> HIDE DEF PS, place
  <2>7. ASSUME NEW d \in Data
        PROVE  order'[d] \in Ranks
    <3> DEFINE p == place[d]
    <3>1. p \in Nat /\ p <= Count - 1 /\ Count - 1 \in Nat
      BY <2>3, <2>5
    <3> HIDE DEF p
    <3>2. p \div PS \in Nat /\ p \div PS <= (Count - 1) \div PS
      BY <2>1, <3>1, QuotientGrows
    <3>3. (Count - 1) \div PS \in Int
      BY <1>1, <2>1
    <3>4. p \div PS \in 0 .. size - 1
      BY <1>1, <2>6, <3>2, <3>3
    <3> QED
      BY <2>4, <3>4 DEF Ranks, p
  <2>8. ASSUME plan \in SortingPlans, NEW d \in Data, NEW e \in Data, order'[d] < order'[e]
        PROVE  key[d+1] <= key[e+1]
    <3> DEFINE p == place[d]
               q == place[e]
    <3>1. p \in Data /\ q \in Data /\ p \in Nat /\ q \in Nat /\ index[p] = d /\ index[q] = e
      BY <2>3, <2>5
    <3>2. p \div PS < q \div PS
      BY <2>4, <2>8
    <3> HIDE DEF p, q
    <3>3. p < q
      <4> SUFFICES ASSUME q <= p PROVE FALSE
        BY <3>1
      <4>1. q \div PS \in Nat /\ q \div PS <= p \div PS
        BY <2>1, <3>1, QuotientGrows
      <4>2. p \div PS \in Int
        BY <2>1, <3>1
      <4> QED
        BY <3>2, <4>1, <4>2
    <3> QED
      BY <2>2, <2>8, <3>1, <3>3 DEF SortedBy
  <2>9. order' \in [Data -> Ranks]
    BY <2>4, <2>7
  <2>10. ASSUME NEW r \in Ranks
         PROVE  ShareSize(r)' <= PartitionSize'
    <3> DEFINE S == {d \in Data : order'[d] = r}
               T == r * PS .. r * PS + PS - 1
    <3>1. r \in Nat /\ r * PS \in Nat
      BY <1>1, <2>1 DEF Ranks
    <3>2. ASSUME NEW d \in S
          PROVE  place[d] \in T
      <4> DEFINE p == place[d]
                 b == p % PS
                 rPS == r * PS
      <4>1. p \in Nat /\ p \div PS = r
        BY <2>3, <2>4, <2>5
      <4> HIDE DEF p
      <4>2. p = PS * (p \div PS) + b /\ b \in Nat /\ b < PS
        BY <2>1, <4>1
      <4>3. PS * r = r * PS
        BY <2>1, <3>1
      <4> HIDE DEF b
      <4>4. p = rPS + b
        BY <4>1, <4>2, <4>3
      <4> HIDE DEF rPS
      <4>5. rPS \in Nat
        BY <3>1 DEF rPS
      <4>6. p \in rPS .. rPS + PS - 1
        BY <2>1, <4>2, <4>4, <4>5
      <4> QED
        BY <4>6 DEF p, rPS
    <3>3. \A d, e \in S : place[d] = place[e] => d = e
      BY <2>3
    <3>4. IsFiniteSet(T) /\ Cardinality(T) = PS
      <4> DEFINE a == r * PS
      <4>1. a \in Nat /\ a + PS - 1 \in Int
        BY <2>1, <3>1
      <4> HIDE DEF a
      <4>2. /\ IsFiniteSet(a .. a + PS - 1)
            /\ Cardinality(a .. a + PS - 1) = IF a > a + PS - 1 THEN 0 ELSE (a + PS - 1) - a + 1
        BY <4>1, FS_Interval
      <4>3. ~(a > a + PS - 1) /\ (a + PS - 1) - a + 1 = PS
        BY <2>1, <4>1
      <4> QED
        BY <4>2, <4>3 DEF a
    <3> DEFINE f == [d \in S |-> place[d]]
    <3>5. f \in Injection(S, T)
      BY <3>2, <3>3 DEF Injection, IsInjective
    <3> HIDE DEF S, T, f
    <3>6. IsFiniteSet(S) /\ Cardinality(S) <= Cardinality(T)
      BY <3>4, <3>5, FS_Injection
    <3>7. ShareSize(r)' = Cardinality(S)
      BY <1>2 DEF ShareSize, S
    <3>8. PartitionSize' = PS
      BY DEF PartitionSize, Count, PS
    <3> QED
      BY <3>4, <3>6, <3>7, <3>8
  <2> QED
    BY <1>2, <2>8, <2>9, <2>10 DEF Assigned
<1> QED
  BY <1>1, <1>3, <1>4

(***************************************************************************)
(* The invariant holds at first, and while the root prepares the data.     *)
(***************************************************************************)

LEMMA ScatterInvInit == Init => ScatterInv
<1> SUFFICES ASSUME Init PROVE ScatterInv
  OBVIOUS
<1>1. Given
  BY DEF Init, Given
<1>2. size \in Nat /\ size > 0 /\ Root \in Ranks /\ Root = 0
  BY <1>1, GivenTypes DEF Root
<1>3. /\ order = <<>> /\ inbox = [r \in Ranks |-> <<>>] /\ result = [r \in Ranks |-> Empty]
      /\ calls = [r \in Ranks |-> 0]
      /\ pc = [r \in Ranks |-> IF r = Root THEN "read" ELSE "receive"]
  BY DEF Init
<1>4. pc[Root] = "read" /\ calls[Root] = 0 /\ ~Sending
  BY <1>2, <1>3 DEF Sending
<1>5. Stages
  BY <1>3, <1>4 DEF Stages
<1>6. ASSUME NEW r \in Ranks
      PROVE  Collective(r) /\ Progress(r)
  <2>1. calls[r] = 0 /\ result[r] = Empty
    BY <1>3
  <2>2. Collective(r)
    BY <2>1 DEF Collective
  <2>3. Progress(r)
    BY <1>3, <2>1 DEF Progress
  <2> QED
    BY <2>2, <2>3
<1>7. ASSUME NEW r \in Ranks \ {Root}
      PROVE  Pending(r)
  <2>1. calls[r] = 0 /\ inbox[r] = <<>>
    BY <1>3
  <2>2. <<>> \in Seq({Payload(RootCalls[k], r) : k \in 1 .. 10}) /\ Len(<<>>) = 0
    BY EmptySeq
  <2> QED
    BY <1>4, <2>1, <2>2 DEF Pending
<1> QED
  BY <1>1, <1>3, <1>4, <1>5, <1>6, <1>7 DEF ScatterInv

\* Before the root sends, nobody has made a call and nothing is under way.
LEMMA NothingSent ==
  ASSUME ScatterInv, ~Sending
  PROVE  /\ calls[Root] = 0
         /\ \A r \in Ranks : calls[r] = 0
         /\ \A r \in Ranks \ {Root} : inbox[r] = <<>>
<1>1. calls[Root] = 0
  BY DEF ScatterInv
<1>2. ASSUME NEW r \in Ranks \ {Root}
      PROVE  calls[r] = 0 /\ inbox[r] = <<>>
  <2>1. Pending(r) /\ Collective(r)
    BY DEF ScatterInv
  <2>2. calls[r] = 0
    BY <1>1, <2>1 DEF Pending, Collective
  <2>3. inbox[r] \in Seq({Payload(RootCalls[k], r) : k \in 1 .. 10}) /\ Len(inbox[r]) = 0
    BY <1>1, <2>1, <2>2 DEF Pending
  <2> DEFINE S == {Payload(RootCalls[k], r) : k \in 1 .. 10}
             box == inbox[r]
  <2>4. box \in Seq(S) /\ Len(box) = 0
    BY <2>3
  <2> HIDE DEF S, box
  <2>5. box = <<>>
    BY <2>4
  <2> QED
    BY <2>2, <2>5 DEF box
<1> QED
  BY <1>1, <1>2

\* Whatever the root prepares, as long as no call is made.
LEMMA StillNothingSent ==
  ASSUME ScatterInv, ~Sending, UNCHANGED <<size, inbox, calls>>,
         \A r \in Ranks : DOMAIN result'[r] = DOMAIN Empty
  PROVE  /\ Ranks' = Ranks /\ \A r \in Ranks : Collective(r)'
         /\ \A r \in Ranks \ {Root} : Pending(r)'
<1>1. Ranks' = Ranks /\ Root' = Root
  BY DEF Ranks, Root
<1>2. /\ calls'[Root] = 0 /\ \A r \in Ranks : calls'[r] = 0
      /\ \A r \in Ranks \ {Root} : inbox'[r] = <<>>
  BY NothingSent
<1>3. ASSUME NEW r \in Ranks
      PROVE  Collective(r)'
  BY <1>2 DEF Collective
<1>4. ASSUME NEW r \in Ranks \ {Root}
      PROVE  Pending(r)'
  <2>1. Len(<<>>) = 0 /\ \A S : <<>> \in Seq(S)
    BY EmptySeq
  <2>2. \A k \in 1 .. Len(inbox'[r]) : inbox'[r][k] = Payload(RootCalls[calls[r] + k], r)'
    BY <1>2, <2>1
  <2>3. calls'[r] <= calls'[Root] /\ Len(inbox'[r]) = calls'[Root] - calls'[r]
    BY <1>2, <2>1
  <2>4. (inbox[r] \in Seq({Payload(RootCalls[k], r) : k \in 1 .. 10}))'
    BY <1>2, <2>1
  <2> QED
    BY <1>1, <2>2, <2>3, <2>4 DEF Pending
<1> QED
  BY <1>1, <1>3, <1>4

LEMMA ReadKeeps == ScatterInv /\ ReadMeasurements => ScatterInv'
<1> SUFFICES ASSUME ScatterInv, ReadMeasurements PROVE ScatterInv'
  OBVIOUS
<1>1. /\ pc[Root] = "read" /\ UNCHANGED <<size, file, plan, key, spread, order, table, inbox, calls>>
      /\ ~Sending
  BY DEF ReadMeasurements, Sending
<1>2. Given /\ Root \in Ranks /\ size \in Nat /\ size > 0
  BY GivenTypes DEF ScatterInv
<1>3. DOMAIN result = Ranks /\ DOMAIN pc = Ranks /\ DOMAIN inbox = Ranks /\ DOMAIN calls = Ranks
      /\ \A r \in Ranks : DOMAIN result[r] = DOMAIN Empty /\ Progress(r)
  BY DEF ScatterInv, Collective
<1>4. Ranks' = Ranks /\ Data' = Data /\ Everything' = Everything
  BY <1>1 DEF Ranks, Data, Count, Everything
<1>5. Given'
  BY <1>1, <1>2 DEF Given
<1>6. Assigned' <=> Assigned
  BY <1>1, <1>4 DEF Assigned, ShareSize, PartitionSize, Count
<1>7. order # <<>> => Assigned
  BY DEF ScatterInv, Stages
<1>8. \A r \in Ranks : calls[r] = 0
  BY <1>1, NothingSent
<1>9. CASE size = 1 /\ file = "good"
  <2>1. result' = [result EXCEPT ![Root] = Everything] /\ pc' = [pc EXCEPT ![Root] = "returned"]
    <3>1. ~(size > 1)
      BY <1>9
    <3>2. file # "runtime_error" /\ file # "other_error"
      BY <1>9
    <3> QED
      BY <1>9, <3>1, <3>2, Zenon DEF ReadMeasurements, Everything
  <2>2. /\ DOMAIN result' = Ranks /\ DOMAIN pc' = Ranks
        /\ pc'[Root] = "returned" /\ result'[Root] = Everything
        /\ \A r \in Ranks : r # Root => result'[r] = result[r] /\ pc'[r] = pc[r]
    BY <1>2, <1>3, <2>1
  <2>3. DOMAIN Everything = DOMAIN Empty
    BY DEF Everything
  <2>4. \A r \in Ranks : DOMAIN result'[r] = DOMAIN Empty
    BY <1>3, <2>2, <2>3
  <2>5. ~Sending'
    BY <1>1, <1>9, <2>2 DEF Sending
  <2>6. Stages'
    BY <1>1, <1>6, <1>7, <2>2, <2>5 DEF Stages
  <2>7. \A r \in Ranks : Progress(r)'
    BY <1>1, <1>3, <1>4, <1>9, <2>2 DEF Progress
  <2> QED
    BY <1>1, <1>3, <1>4, <1>5, <1>8, <1>2, <2>2, <2>4, <2>5, <2>6, <2>7, StillNothingSent
       DEF ScatterInv
<1>10. CASE ~(size = 1 /\ file = "good")
  <2>1. /\ result' = result
        /\ \/ size > 1 /\ pc' = [pc EXCEPT ![Root] = "distribute"]
           \/ pc' = [r \in Ranks |-> "aborted"]
           \/ pc' = [pc EXCEPT ![Root] = "threw"]
    BY <1>10 DEF ReadMeasurements
  <2>2. /\ DOMAIN pc' = Ranks
        /\ \/ size > 1 /\ pc'[Root] = "distribute"
           \/ pc'[Root] = "aborted" \/ pc'[Root] = "threw"
        /\ \A r \in Ranks : r # Root => pc'[r] = pc[r] \/ pc'[r] = "aborted"
    BY <1>2, <1>3, <2>1
  <2>3. ~Sending'
    BY <2>2 DEF Sending
  <2>4. Stages'
    BY <1>1, <1>6, <1>7, <2>2, <2>3 DEF Stages
  <2>5. \A r \in Ranks : Progress(r)'
    BY <1>1, <1>3, <1>4, <2>1, <2>2 DEF Progress
  <2>6. \A r \in Ranks : DOMAIN result'[r] = DOMAIN Empty
    BY <1>3, <2>1
  <2> QED
    BY <1>1, <1>2, <1>3, <1>4, <1>5, <1>8, <2>1, <2>2, <2>3, <2>4, <2>5, <2>6, StillNothingSent
       DEF ScatterInv
<1> QED
  BY <1>9, <1>10

LEMMA DistributeKeeps == ScatterInv /\ DistributeMeasurements => ScatterInv'
<1> SUFFICES ASSUME ScatterInv, DistributeMeasurements PROVE ScatterInv'
  OBVIOUS
<1>1. /\ pc[Root] = "distribute" /\ ~Sending
      /\ UNCHANGED <<size, file, plan, key, spread, table, inbox, result, calls>>
  BY DEF DistributeMeasurements, Sending
<1>2. Given /\ Root \in Ranks /\ size > 1
  BY <1>1, GivenTypes DEF ScatterInv, Stages
<1>3. DOMAIN result = Ranks /\ DOMAIN pc = Ranks /\ DOMAIN inbox = Ranks /\ DOMAIN calls = Ranks
      /\ \A r \in Ranks : DOMAIN result[r] = DOMAIN Empty /\ Progress(r)
  BY DEF ScatterInv, Collective
<1>4. Ranks' = Ranks /\ Data' = Data /\ Everything' = Everything
  BY <1>1 DEF Ranks, Data, Count, Everything
<1>5. Given'
  BY <1>1, <1>2 DEF Given
<1>6. order # <<>> => Assigned
  BY DEF ScatterInv, Stages
<1>7. calls[Root] = 0
  BY <1>1, NothingSent
<1>8. \/ pc' = [pc EXCEPT ![Root] = "threw"] /\ order' = order
      \/ pc' = [pc EXCEPT ![Root] = "undefined"] /\ order' = order
      \/ pc' = [pc EXCEPT ![Root] = "regroup"] /\ Assigned'
  <2>1. CASE NoHistogram \/ plan = "unknown" \/ TooManyNodes
    BY <2>1 DEF DistributeMeasurements
  <2>2. CASE ~(NoHistogram \/ plan = "unknown" \/ TooManyNodes)
    <3>1. PICK index \in Indices :
            IF \E p \in Data : index[p] \notin Data
            THEN pc' = [pc EXCEPT ![Root] = "undefined"] /\ order' = order
            ELSE order' = Partitions(index) /\ pc' = [pc EXCEPT ![Root] = "regroup"]
      BY <2>2 DEF DistributeMeasurements
    <3>2. CASE \E p \in Data : index[p] \notin Data
      BY <3>1, <3>2
    <3>3. CASE ~(\E p \in Data : index[p] \notin Data)
      <4>1. order' = Partitions(index) /\ pc' = [pc EXCEPT ![Root] = "regroup"]
        BY <3>1, <3>3
      <4>2. Assigned'
        BY <1>1, <1>2, <2>2, <3>3, <4>1, PartitionsAssign
      <4> QED
        BY <4>1, <4>2
    <3> QED
      BY <3>2, <3>3
  <2> QED
    BY <2>1, <2>2
<1>9. /\ DOMAIN pc' = Ranks /\ pc'[Root] \in {"threw", "undefined", "regroup"}
      /\ \A r \in Ranks : r # Root => pc'[r] = pc[r]
  BY <1>2, <1>3, <1>8
<1>10. (order' # <<>> \/ pc'[Root] = "regroup") => Assigned'
  <2>1. CASE order' = order /\ pc'[Root] # "regroup"
    <3>1. Assigned' <=> Assigned
      BY <1>1, <1>4, <2>1 DEF Assigned, ShareSize, PartitionSize, Count
    <3> QED
      BY <1>6, <2>1, <3>1
  <2> QED
    BY <1>2, <1>3, <1>8, <2>1
<1>11. ~Sending'
  BY <1>9 DEF Sending
<1>12. Stages'
  BY <1>1, <1>2, <1>9, <1>10, <1>11 DEF Stages
<1>13. \A r \in Ranks : Progress(r)'
  BY <1>1, <1>3, <1>4, <1>9 DEF Progress
<1>14. \A r \in Ranks : DOMAIN result'[r] = DOMAIN Empty
  BY <1>1, <1>3
<1> QED
  BY <1>1, <1>2, <1>3, <1>4, <1>5, <1>7, <1>9, <1>11, <1>12, <1>13, <1>14, StillNothingSent
     DEF ScatterInv

LEMMA RegroupKeeps == ScatterInv /\ RegroupColumns => ScatterInv'
<1> SUFFICES ASSUME ScatterInv, RegroupColumns PROVE ScatterInv'
  OBVIOUS
<1>1. /\ pc[Root] = "regroup" /\ ~Sending
      /\ UNCHANGED <<size, file, plan, key, spread, order, inbox, result, calls>>
  BY DEF RegroupColumns, Sending
<1>2. Given /\ Root \in Ranks /\ size > 1 /\ Assigned
  BY <1>1, GivenTypes DEF ScatterInv, Stages
<1>3. DOMAIN result = Ranks /\ DOMAIN pc = Ranks /\ DOMAIN inbox = Ranks /\ DOMAIN calls = Ranks
      /\ \A r \in Ranks : DOMAIN result[r] = DOMAIN Empty /\ Progress(r)
  BY DEF ScatterInv, Collective
<1>4. Ranks' = Ranks /\ Data' = Data /\ Everything' = Everything
  BY <1>1 DEF Ranks, Data, Count, Everything
<1>5. Given' /\ Assigned'
  BY <1>1, <1>2, <1>4 DEF Given, Assigned, ShareSize, PartitionSize, Count
<1>6. calls[Root] = 0 /\ calls'[Root] = 0
  BY <1>1, NothingSent
<1>7. \/ pc' = [pc EXCEPT ![Root] = "threw"]
      \/ pc' = [pc EXCEPT ![Root] = "send"] /\ Regrouped'
  BY <1>1, <1>4 DEF RegroupColumns, Regrouped
<1>8. /\ DOMAIN pc' = Ranks /\ pc'[Root] \in {"threw", "send"}
      /\ pc'[Root] = "send" => Regrouped'
      /\ \A r \in Ranks : r # Root => pc'[r] = pc[r]
  BY <1>2, <1>3, <1>7
<1>9. Stages'
  BY <1>1, <1>2, <1>5, <1>8 DEF Stages, Sending
<1>10. \A r \in Ranks : Progress(r)'
  BY <1>1, <1>3, <1>4, <1>6, <1>8 DEF Progress
<1>11. \A r \in Ranks : DOMAIN result'[r] = DOMAIN Empty
  BY <1>1, <1>3
<1> QED
  BY <1>1, <1>2, <1>3, <1>4, <1>5, <1>6, <1>8, <1>9, <1>10, <1>11, StillNothingSent
     DEF ScatterInv

(***************************************************************************)
(* The invariant holds while the calls are made.                           *)
(***************************************************************************)

\* Once the data are regrouped, what is sent does not change any more.
LEMMA PayloadKept ==
  ASSUME UNCHANGED <<size, plan, key, order, table>>
  PROVE  /\ Ranks' = Ranks /\ Data' = Data /\ Everything' = Everything
         /\ \A a, r : Payload(a, r)' = Payload(a, r)
         /\ Assigned' <=> Assigned
         /\ Regrouped' <=> Regrouped
<1>1. Ranks' = Ranks /\ Data' = Data /\ Everything' = Everything
  BY DEF Ranks, Data, Count, Everything
<1>2. \A r : ShareSize(r)' = ShareSize(r) /\ Offset(r)' = Offset(r)
  BY <1>1 DEF ShareSize, Offset
<1>3. \A a, r : Share(a, r)' = Share(a, r)
  BY <1>2 DEF Share
<1>4. \A a, r : Payload(a, r)' = Payload(a, r)
  BY <1>2, <1>3 DEF Payload
<1> QED
  BY <1>1, <1>4 DEF Assigned, Regrouped, ShareSize, PartitionSize, Count

\* A call stores what was sent under the name of the call, and nothing else.
LEMMA StoreKeeps ==
  ASSUME NEW r \in Ranks, Collective(r), calls[r] < 10, DOMAIN result = Ranks,
         UNCHANGED <<size, plan, key, order, table>>, calls'[r] = calls[r] + 1,
         NEW a, a = RootCalls[calls[r] + 1], Store(r, a, Payload(a, r))
  PROVE  /\ Collective(r)' /\ DOMAIN result' = Ranks
         /\ \A q \in Ranks : q # r => result'[q] = result[q]
<1> DEFINE n == calls[r]
           P == Payload(a, r)
<1>1. n \in 0 .. 9 /\ n + 1 \in 1 .. 10 /\ DOMAIN result[r] = DOMAIN Empty
  BY DEF Collective
<1>2. \A k \in 2 .. n : result[r][RootCalls[k]] = Payload(RootCalls[k], r)
  BY DEF Collective
<1>3. result' = IF a = "sizes" THEN result ELSE [result EXCEPT ![r] = [result[r] EXCEPT ![a] = P]]
  BY DEF Store
<1>4. \A b, q : Payload(b, q)' = Payload(b, q)
  BY PayloadKept
<1> HIDE DEF P, n
<1>5. /\ DOMAIN result' = Ranks /\ \A q \in Ranks : q # r => result'[q] = result[q]
      /\ DOMAIN result'[r] = DOMAIN Empty
  BY <1>1, <1>3
<1>6. \A k \in 2 .. n + 1 : result'[r][RootCalls[k]] = Payload(RootCalls[k], r)
  <2> SUFFICES ASSUME NEW k \in 2 .. n + 1
               PROVE  result'[r][RootCalls[k]] = Payload(RootCalls[k], r)
    OBVIOUS
  <2>1. k \in 2 .. 10 /\ k \in 1 .. 10 /\ RootCalls[k] \in DOMAIN Empty /\ RootCalls[k] # "sizes"
    BY <1>1, CallsDiffer
  <2>2. CASE k = n + 1
    <3>1. RootCalls[k] = a
      BY <2>2 DEF n
    <3>2. result'[r] = [result[r] EXCEPT ![a] = P]
      BY <1>3, <2>1, <3>1
    <3> QED
      BY <1>1, <2>1, <3>1, <3>2 DEF P
  <2>3. CASE k # n + 1
    <3>1. k \in 2 .. n
      BY <1>1, <2>3
    <3>2. RootCalls[k] # a
      BY <1>1, <2>1, <2>3, CallsDiffer DEF n
    <3>3. result'[r][RootCalls[k]] = result[r][RootCalls[k]]
      BY <1>1, <1>3, <2>1, <3>2
    <3> QED
      BY <1>2, <3>1, <3>3
  <2> QED
    BY <2>2, <2>3
<1>7. calls'[r] \in 0 .. 10 /\ calls'[r] = n + 1
  BY <1>1 DEF n
<1>8. \A k \in 2 .. calls'[r] : result'[r][RootCalls[k]] = Payload(RootCalls[k], r)'
  BY <1>4, <1>6, <1>7
<1>9. Collective(r)'
  BY <1>5, <1>7, <1>8 DEF Collective
<1> QED
  BY <1>5, <1>9

\* A rank that makes no call keeps what it has stored.
LEMMA CollectiveKept ==
  ASSUME NEW q, Collective(q), UNCHANGED <<size, plan, key, order, table>>,
         calls'[q] = calls[q], result'[q] = result[q]
  PROVE  Collective(q)'
<1>1. \A b, p : Payload(b, p)' = Payload(b, p)
  BY PayloadKept
<1> QED
  BY <1>1 DEF Collective

\* The root's next message waits behind the others.
LEMMA PendingAppended ==
  ASSUME NEW r, Pending(r), Collective(r), UNCHANGED <<size, plan, key, order, table>>,
         calls[Root] \in 0 .. 9, calls'[Root] = calls[Root] + 1, calls'[r] = calls[r],
         NEW a, a = RootCalls[calls[Root] + 1], inbox'[r] = Append(inbox[r], Payload(a, r))
  PROVE  Pending(r)'
<1> DEFINE S == {Payload(RootCalls[k], r) : k \in 1 .. 10}
           box == inbox[r]
           x == Payload(a, r)
           n == calls[Root]
           m == calls[r]
<1>1. /\ box \in Seq(S) /\ Len(box) = n - m /\ m <= n /\ m \in 0 .. 10
      /\ \A k \in 1 .. Len(box) : box[k] = Payload(RootCalls[m + k], r)
  BY DEF Pending, Collective
<1>2. n \in 0 .. 9 /\ x \in S /\ x = Payload(RootCalls[n + 1], r)
  <2>1. n + 1 \in 1 .. 10
    OBVIOUS
  <2> QED
    BY <2>1
<1>3. \A b, p : Payload(b, p)' = Payload(b, p)
  BY PayloadKept
<1>4. S' = S
  BY <1>3
<1>5. inbox'[r] = Append(box, x) /\ calls'[Root] = n + 1 /\ calls'[r] = m /\ Root' = Root
  BY DEF Root
<1> HIDE DEF S, box, x, n, m
<1>6. /\ Append(box, x) \in Seq(S) /\ Len(Append(box, x)) = Len(box) + 1
      /\ \A k \in 1 .. Len(box) : Append(box, x)[k] = box[k]
      /\ Append(box, x)[Len(box) + 1] = x
  BY <1>1, <1>2, AppendProperties
<1>7. /\ inbox'[r] \in Seq(S) /\ Len(inbox'[r]) = n + 1 - m
      /\ m <= n + 1
  BY <1>1, <1>2, <1>5, <1>6
<1>8. ASSUME NEW k \in 1 .. Len(inbox'[r])
      PROVE  inbox'[r][k] = Payload(RootCalls[m + k], r)
  <2>1. CASE k \in 1 .. Len(box)
    BY <1>1, <1>5, <1>6, <2>1
  <2>2. CASE k \notin 1 .. Len(box)
    <3>1. k = Len(box) + 1 /\ m + k = n + 1
      BY <1>1, <1>2, <1>7, <2>2
    <3> QED
      BY <1>2, <1>5, <1>6, <3>1
  <2> QED
    BY <2>1, <2>2
<1>9. (\A k \in 1 .. Len(inbox[r]) : inbox[r][k] = Payload(RootCalls[calls[r] + k], r))'
  BY <1>3, <1>5, <1>8
<1>10. (inbox[r] \in Seq({Payload(RootCalls[k], r) : k \in 1 .. 10}))'
  BY <1>4, <1>7 DEF S
<1>11. calls'[r] <= calls'[Root] /\ Len(inbox'[r]) = calls'[Root] - calls'[r]
  <2>1. calls'[r] = m /\ calls'[Root] = n + 1 /\ m \in Int /\ n \in Int
    BY <1>1, <1>2, <1>5
  <2>2. Len(inbox'[r]) = n + 1 - m /\ m <= n + 1
    BY <1>7
  <2> QED
    BY <2>1, <2>2
<1> QED
  BY <1>5, <1>9, <1>10, <1>11 DEF Pending

\* A rank takes the oldest message, and the others move up.
LEMMA PendingTaken ==
  ASSUME NEW r, Pending(r), Collective(r), UNCHANGED <<size, plan, key, order, table>>,
         inbox[r] # <<>>, calls[Root] \in Nat, calls'[Root] = calls[Root],
         calls'[r] = calls[r] + 1, inbox'[r] = Tail(inbox[r])
  PROVE  Pending(r)' /\ Head(inbox[r]) = Payload(RootCalls[calls[r] + 1], r)
<1> DEFINE S == {Payload(RootCalls[k], r) : k \in 1 .. 10}
           box == inbox[r]
           rest == Tail(inbox[r])
           first == Head(inbox[r])
           n == calls[Root]
           m == calls[r]
<1>1. /\ box \in Seq(S) /\ Len(box) = n - m /\ m <= n /\ m \in 0 .. 10 /\ n \in Nat /\ box # <<>>
      /\ \A k \in 1 .. Len(box) : box[k] = Payload(RootCalls[m + k], r)
  BY DEF Pending, Collective
<1>2. \A b, p : Payload(b, p)' = Payload(b, p)
  BY PayloadKept
<1>3. S' = S
  BY <1>2
<1>4. inbox'[r] = rest /\ calls'[Root] = n /\ calls'[r] = m + 1 /\ Root' = Root
  BY DEF Root
<1> HIDE DEF S, n, m
<1>5. /\ rest \in Seq(S) /\ Len(rest) = Len(box) - 1
      /\ \A k \in 1 .. Len(rest) : rest[k] = box[k + 1]
  BY <1>1, HeadTailProperties
<1>6. first = box[1]
  BY <1>1
<1> HIDE DEF box, rest, first
<1>7. Len(box) \in Nat /\ Len(box) > 0 /\ first = Payload(RootCalls[m + 1], r)
  <2>1. Len(box) \in Nat /\ Len(box) > 0
    BY <1>1
  <2>2. box[1] = Payload(RootCalls[m + 1], r)
    BY <1>1, <2>1
  <2> QED
    BY <1>6, <2>1, <2>2
<1>8. ASSUME NEW k \in 1 .. Len(inbox'[r])
      PROVE  inbox'[r][k] = Payload(RootCalls[m + 1 + k], r)
  <2>1. k + 1 \in 1 .. Len(box) /\ inbox'[r][k] = box[k + 1]
    <3>1. k \in 1 .. Len(rest)
      BY <1>4
    <3>2. k + 1 \in 1 .. Len(box)
      BY <1>5, <1>7, <3>1
    <3> QED
      BY <1>4, <1>5, <3>1, <3>2
  <2>2. box[k + 1] = Payload(RootCalls[m + (k + 1)], r)
    BY <1>1, <2>1
  <2>3. m + (k + 1) = m + 1 + k
    BY <1>1, <2>1
  <2> QED
    BY <2>1, <2>2, <2>3
<1>9. (\A k \in 1 .. Len(inbox[r]) : inbox[r][k] = Payload(RootCalls[calls[r] + k], r))'
  BY <1>2, <1>4, <1>8
<1>10. (inbox[r] \in Seq({Payload(RootCalls[k], r) : k \in 1 .. 10}))'
  BY <1>3, <1>4, <1>5 DEF S
<1>11. calls'[r] <= calls'[Root] /\ Len(inbox'[r]) = calls'[Root] - calls'[r]
  <2>1. m + 1 <= n /\ Len(box) - 1 = n - (m + 1)
    BY <1>1, <1>7
  <2>2. Len(inbox'[r]) = Len(box) - 1
    BY <1>4, <1>5
  <2> QED
    BY <1>4, <2>1, <2>2
<1> QED
  BY <1>4, <1>7, <1>9, <1>10, <1>11 DEF Pending, first, m

\* The messages of a rank that takes part in no call.
LEMMA PendingKept ==
  ASSUME NEW q, Pending(q), UNCHANGED <<size, plan, key, order, table>>,
         calls'[Root] = calls[Root], calls'[q] = calls[q], inbox'[q] = inbox[q]
  PROVE  Pending(q)'
<1>1. \A b, p : Payload(b, p)' = Payload(b, p)
  BY PayloadKept
<1>2. Root' = Root
  BY DEF Root
<1> QED
  BY <1>1, <1>2 DEF Pending

\* What a rank keeps of its progress with a further call.
LEMMA ProgressMade ==
  ASSUME NEW r \in Ranks, Progress(r), calls[r] \in 0 .. 9, calls'[r] = calls[r] + 1,
         pc[r] = (IF r = Root THEN "send" ELSE "receive"), pc'[r] = Complete(r),
         UNCHANGED size
  PROVE  /\ Progress(r)' /\ Root' = Root
         /\ pc'[r] = pc[r] \/ pc'[r] = "returned"
<1>1. Root' = Root
  BY DEF Root
<1>2. Len(CallsOf(r)) = 10
  BY CallsListed, CallsDiffer
<1>3. Complete(r) = IF calls[r] + 1 = 10 THEN "returned" ELSE pc[r]
  BY <1>2 DEF Complete
<1>4. CASE calls[r] + 1 = 10
  BY <1>1, <1>3, <1>4 DEF Progress
<1>5. CASE calls[r] + 1 # 10
  <2>1. calls'[r] < 10
    BY <1>5
  <2> QED
    BY <1>1, <1>3, <1>5, <2>1 DEF Progress
<1> QED
  BY <1>4, <1>5, <1>1

\* A rank that makes no call stays where it is.
LEMMA ProgressKept ==
  ASSUME NEW q, Progress(q), UNCHANGED <<size, key>>,
         calls'[q] = calls[q], result'[q] = result[q], pc'[q] = pc[q]
  PROVE  Progress(q)'
<1>1. Root' = Root /\ Everything' = Everything
  BY DEF Root, Everything, Count
<1> QED
  BY <1>1 DEF Progress

LEMMA RootCallKeeps == ScatterInv /\ RootCall => ScatterInv'
<1> SUFFICES ASSUME ScatterInv, RootCall PROVE ScatterInv'
  OBVIOUS
<1> DEFINE n == calls[Root]
           a == RootCalls[n + 1]
<1>1. pc[Root] = "send" /\ UNCHANGED <<size, file, plan, key, spread, order, table>> /\ Sending
  BY DEF RootCall, Sending
<1>2. Given /\ Root \in Ranks /\ size > 1 /\ Assigned /\ Regrouped
  BY <1>1, GivenTypes DEF ScatterInv, Stages
<1>3. /\ DOMAIN result = Ranks /\ DOMAIN pc = Ranks /\ DOMAIN inbox = Ranks /\ DOMAIN calls = Ranks
      /\ \A r \in Ranks : Collective(r) /\ Progress(r)
      /\ \A r \in Ranks \ {Root} : Pending(r)
  BY DEF ScatterInv
<1>4. n \in 0 .. 9
  BY <1>1, <1>2, <1>3 DEF Collective, Progress
<1>5. /\ inbox' = [r \in Ranks |-> IF r = Root THEN <<>> ELSE Append(inbox[r], Payload(a, r))]
      /\ Store(Root, a, Payload(a, Root))
      /\ calls' = [calls EXCEPT ![Root] = n + 1] /\ pc' = [pc EXCEPT ![Root] = Complete(Root)]
  BY CallsListed DEF RootCall
<1> HIDE DEF n, a
<1>6. /\ DOMAIN inbox' = Ranks /\ DOMAIN calls' = Ranks /\ DOMAIN pc' = Ranks
      /\ calls'[Root] = n + 1 /\ pc'[Root] = Complete(Root)
      /\ \A r \in Ranks \ {Root} :
           inbox'[r] = Append(inbox[r], Payload(a, r)) /\ calls'[r] = calls[r] /\ pc'[r] = pc[r]
  BY <1>2, <1>3, <1>5
<1>7. /\ Collective(Root)' /\ DOMAIN result' = Ranks
      /\ \A q \in Ranks : q # Root => result'[q] = result[q]
  BY <1>1, <1>2, <1>3, <1>4, <1>5, <1>6, StoreKeeps DEF n, a
<1>8. Progress(Root)' /\ Root' = Root /\ (pc'[Root] = "send" \/ pc'[Root] = "returned")
  BY <1>1, <1>2, <1>3, <1>4, <1>6, ProgressMade DEF n
<1>9. ASSUME NEW q \in Ranks \ {Root}
      PROVE  Collective(q)' /\ Progress(q)' /\ Pending(q)'
  <2>1. Collective(q) /\ Progress(q) /\ Pending(q)
    BY <1>3
  <2>2. result'[q] = result[q] /\ calls'[q] = calls[q] /\ pc'[q] = pc[q]
    BY <1>6, <1>7
  <2>3. Collective(q)'
    BY <1>1, <2>1, <2>2, CollectiveKept
  <2>4. Progress(q)'
    BY <1>1, <2>1, <2>2, ProgressKept
  <2>5. Pending(q)'
    BY <1>1, <1>4, <1>6, <2>1, <2>2, PendingAppended DEF n, a
  <2> QED
    BY <2>3, <2>4, <2>5
<1>10. Ranks' = Ranks /\ Data' = Data /\ Assigned' /\ Regrouped'
  BY <1>1, <1>2, PayloadKept
<1>11. Given' /\ Sending'
  BY <1>1, <1>2, <1>8 DEF Given, Sending
<1>12. Stages'
  BY <1>1, <1>2, <1>8, <1>10 DEF Stages
<1> QED
  BY <1>6, <1>7, <1>8, <1>9, <1>10, <1>11, <1>12 DEF ScatterInv

LEMMA OtherCallKeeps ==
  ASSUME ScatterInv, NEW r \in Ranks \ {Root}, OtherCall(r)
  PROVE  ScatterInv'
<1> DEFINE a == RootCalls[calls[r] + 1]
<1>1. /\ pc[r] = "receive" /\ inbox[r] # <<>>
      /\ UNCHANGED <<size, file, plan, key, spread, order, table>>
  BY DEF OtherCall
<1>2. Sending
  BY <1>1, NothingSent
<1>3. Given /\ Root \in Ranks /\ Stages
  BY GivenTypes DEF ScatterInv
<1>4. /\ DOMAIN result = Ranks /\ DOMAIN pc = Ranks /\ DOMAIN inbox = Ranks /\ DOMAIN calls = Ranks
      /\ \A q \in Ranks : Collective(q) /\ Progress(q)
      /\ \A q \in Ranks \ {Root} : Pending(q)
  BY DEF ScatterInv
<1>5. calls[r] \in 0 .. 9 /\ calls[Root] \in Nat
  BY <1>1, <1>3, <1>4 DEF Collective, Progress
<1>6. /\ inbox' = [inbox EXCEPT ![r] = Tail(inbox[r])]
      /\ Store(r, a, Head(inbox[r]))
      /\ calls' = [calls EXCEPT ![r] = calls[r] + 1] /\ pc' = [pc EXCEPT ![r] = Complete(r)]
  BY CallsListed DEF OtherCall
<1> HIDE DEF a
<1>7. /\ DOMAIN inbox' = Ranks /\ DOMAIN calls' = Ranks /\ DOMAIN pc' = Ranks
      /\ inbox'[r] = Tail(inbox[r]) /\ calls'[r] = calls[r] + 1 /\ pc'[r] = Complete(r)
      /\ \A q \in Ranks : q # r => inbox'[q] = inbox[q] /\ calls'[q] = calls[q] /\ pc'[q] = pc[q]
  BY <1>4, <1>6
<1>8. calls'[Root] = calls[Root] /\ pc'[Root] = pc[Root] /\ r # Root
  BY <1>3, <1>7
<1>9. Pending(r)' /\ Head(inbox[r]) = Payload(a, r)
  BY <1>1, <1>4, <1>5, <1>7, <1>8, PendingTaken DEF a
<1>10. /\ Collective(r)' /\ DOMAIN result' = Ranks
       /\ \A q \in Ranks : q # r => result'[q] = result[q]
  <2>1. Store(r, a, Payload(a, r))
    BY <1>6, <1>9
  <2> QED
    BY <1>1, <1>4, <1>5, <1>7, <2>1, StoreKeeps DEF a
<1>11. Progress(r)' /\ Root' = Root
  BY <1>1, <1>4, <1>5, <1>7, <1>8, ProgressMade
<1>12. ASSUME NEW q \in Ranks, q # r
       PROVE  Collective(q)' /\ Progress(q)' /\ (q # Root => Pending(q)')
  <2>1. Collective(q) /\ Progress(q) /\ (q # Root => Pending(q))
    BY <1>4
  <2>2. result'[q] = result[q] /\ calls'[q] = calls[q] /\ pc'[q] = pc[q] /\ inbox'[q] = inbox[q]
    BY <1>7, <1>10, <1>12
  <2>3. Collective(q)'
    BY <1>1, <2>1, <2>2, CollectiveKept
  <2>4. Progress(q)'
    BY <1>1, <2>1, <2>2, ProgressKept
  <2>5. q # Root => Pending(q)'
    BY <1>1, <1>8, <2>1, <2>2, PendingKept
  <2> QED
    BY <2>3, <2>4, <2>5
<1>13. /\ Ranks' = Ranks /\ Data' = Data /\ (Assigned' <=> Assigned)
       /\ (Regrouped' <=> Regrouped)
  BY <1>1, PayloadKept
<1>14. Given' /\ Sending'
  BY <1>1, <1>2, <1>3, <1>8, <1>11 DEF Given, Sending
<1>15. Stages'
  BY <1>1, <1>2, <1>3, <1>8, <1>11, <1>13, <1>14 DEF Stages
<1> QED
  BY <1>7, <1>9, <1>10, <1>11, <1>12, <1>13, <1>14, <1>15 DEF ScatterInv

LEMMA ScatterInvNext == ScatterInv /\ [Next]_vars => ScatterInv'
<1>1. ASSUME ScatterInv, UNCHANGED vars
      PROVE  ScatterInv'
  <2>1. /\ UNCHANGED <<size, plan, key, order, table>>
        /\ UNCHANGED <<file, spread, inbox, result, calls, pc>> /\ Root' = Root
    BY <1>1 DEF vars, Root
  <2>2. /\ Given /\ Stages
        /\ DOMAIN inbox = Ranks /\ DOMAIN result = Ranks /\ DOMAIN calls = Ranks /\ DOMAIN pc = Ranks
        /\ (~Sending => calls[Root] = 0)
        /\ \A r \in Ranks : Collective(r) /\ Progress(r)
        /\ \A r \in Ranks \ {Root} : Pending(r)
    BY <1>1 DEF ScatterInv
  <2>3. /\ Ranks' = Ranks /\ Data' = Data /\ (Assigned' <=> Assigned)
        /\ (Regrouped' <=> Regrouped)
    BY <2>1, PayloadKept
  <2>4. \A r \in Ranks : Collective(r)' /\ Progress(r)'
    BY <2>1, <2>2, CollectiveKept, ProgressKept
  <2>5. \A r \in Ranks \ {Root} : Pending(r)'
    BY <2>1, <2>2, PendingKept
  <2>6. Given' /\ (Sending' <=> Sending)
    BY <2>1, <2>2 DEF Given, Sending
  <2>7. Stages'
    BY <2>1, <2>2, <2>3, <2>6 DEF Stages
  <2> QED
    BY <2>1, <2>2, <2>3, <2>4, <2>5, <2>6, <2>7 DEF ScatterInv
<1> QED
  BY <1>1, ReadKeeps, DistributeKeeps, RegroupKeeps, RootCallKeeps, OtherCallKeeps
     DEF Next, RootStep

\* However far the root runs ahead of the other ranks, what a rank has stored is what the
\* root has sent it under the same name, and what it has still to take are the messages of
\* the calls it has not made (mpi/communicator.h: all calls are collective).
THEOREM ScatterInvAlways == Spec => []ScatterInv
  BY ScatterInvInit, ScatterInvNext, PTL DEF Spec

(***************************************************************************)
(* What the ranks hold in the end.                                         *)
(***************************************************************************)

\* The visibilities of a rank lie side by side in the regrouped columns, where MPI's
\* scatterv looks for them: behind those of the ranks before it.
LEMMA SharesAreStretches ==
  ASSUME Given, Assigned, Regrouped, NEW r \in Ranks
  PROVE  /\ Offset(r) \in Nat /\ ShareSize(r) \in Nat /\ Offset(r) + ShareSize(r) <= Count
         /\ \A p \in Data :
              order[table[p]] = r <=> Offset(r) <= p /\ p < Offset(r) + ShareSize(r)
<1>1. Count \in Nat /\ r \in Int /\ r + 1 \in Int /\ Data = 0 .. Count - 1
  BY GivenTypes DEF Ranks, Data
<1>2. order \in [0 .. Count - 1 -> Int]
  BY <1>1 DEF Assigned, Ranks
<1>3. /\ table \in [0 .. Count - 1 -> 0 .. Count - 1]
      /\ \A p, q \in 0 .. Count - 1 : table[p] = table[q] => p = q
      /\ \A p, q \in 0 .. Count - 1 : p < q => order[table[p]] <= order[table[q]]
  BY <1>1 DEF Regrouped, Permutations, SortedBy
<1> DEFINE D == 0 .. Count - 1
           Earlier == Below(Count, order, r)
           Later == Below(Count, order, r + 1)
           Mine == {d \in D : order[d] = r}
<1>4. /\ Cardinality(Earlier) \in Nat
      /\ \A p \in D : order[table[p]] < r <=> p < Cardinality(Earlier)
  BY <1>1, <1>2, <1>3, SortedPlaces
<1>5. /\ Cardinality(Later) \in Nat
      /\ \A p \in D : order[table[p]] < r + 1 <=> p < Cardinality(Later)
  BY <1>1, <1>2, <1>3, SortedPlaces
<1>6. /\ Earlier \subseteq D /\ Later \subseteq D /\ Mine \subseteq D
      /\ Later = Earlier \cup Mine /\ Earlier \cap Mine = {}
  BY <1>1, <1>2 DEF Below
<1>7. Offset(r) = Cardinality(Earlier) /\ ShareSize(r) = Cardinality(Mine)
  BY <1>1 DEF Offset, ShareSize, Below
<1>8. \A p \in D : order[table[p]] \in Int /\ p \in Int
  BY <1>2, <1>3
<1>9. IsFiniteSet(D) /\ Cardinality(D) = Count
  BY <1>1, FS_Interval
<1> HIDE DEF D, Earlier, Later, Mine
<1>10. /\ IsFiniteSet(Earlier) /\ IsFiniteSet(Mine) /\ Cardinality(Mine) \in Nat
       /\ Cardinality(Later) <= Count
  BY <1>6, <1>9, FS_Subset, FS_CardinalityType
<1>11. Cardinality(Later) = Cardinality(Earlier) + Cardinality(Mine)
  <2>1. Cardinality(Earlier \cup Mine) = Cardinality(Earlier) + Cardinality(Mine)
    BY <1>6, <1>10, SizesAdd
  <2> QED
    BY <1>6, <2>1
<1>12. \A p \in D : order[table[p]] = r <=> ~(order[table[p]] < r) /\ order[table[p]] < r + 1
  BY <1>1, <1>8
<1>13. \A p \in D : order[table[p]] = r <=>
         Offset(r) <= p /\ p < Offset(r) + ShareSize(r)
  BY <1>4, <1>5, <1>7, <1>8, <1>10, <1>11, <1>12
<1> QED
  BY <1>1, <1>4, <1>7, <1>10, <1>11, <1>13 DEF D

\* A rank other than a single one has returned: all its calls are made.
LEMMA ReturnedHoldsPayloads ==
  ASSUME ScatterInv, NEW r \in Ranks, pc[r] = "returned", ~(size = 1 /\ result[r] = Everything)
  PROVE  /\ size # 1 /\ Assigned /\ Regrouped
         /\ \A a \in DOMAIN Empty : result[r][a] = Payload(a, r)
<1>1. calls[r] = 10
  BY DEF ScatterInv, Progress
<1>2. calls[Root] # 0
  <2>1. CASE r = Root
    BY <1>1, <2>1
  <2>2. CASE r # Root
    <3>1. calls[r] <= calls[Root]
      BY <2>2 DEF ScatterInv, Pending
    <3> QED
      BY <1>1, <3>1
  <2> QED
    BY <2>1, <2>2
<1>3. Sending /\ Given
  BY <1>2 DEF ScatterInv
<1>4. size # 1 /\ Assigned /\ Regrouped
  <2>1. size > 1 /\ size \in Nat
    BY <1>3, GivenTypes DEF ScatterInv, Stages, Sending
  <2> QED
    BY <1>3, <2>1 DEF ScatterInv, Stages
<1>5. \A k \in 2 .. 10 : result[r][RootCalls[k]] = Payload(RootCalls[k], r)
  BY <1>1 DEF ScatterInv, Collective
<1> QED
  BY <1>4, <1>5, CallsDiffer

LEMMA InvEveryVisibilityOnce == ScatterInv => EveryVisibilityOnce
<1> SUFFICES ASSUME ScatterInv, NEW r \in Ranks, pc[r] = "returned"
             PROVE
    /\ \A d \in Data :
         Cardinality({k \in DOMAIN result[r]["u"] :
                        \A a \in ColumnNames : k \in DOMAIN result[r][a] /\ result[r][a][k] = <<a, d>>})
           = IF size = 1 \/ order[d] = r THEN 1 ELSE 0
    /\ \A a \in ColumnNames :
         Len(result[r][a]) = Cardinality({d \in Data : size = 1 \/ order[d] = r})
    /\ \A k \in DOMAIN Header : result[r][Header[k]] = <<<<Header[k], "root">>>>
  BY DEF EveryVisibilityOnce
<1> DEFINE At(d) == {k \in DOMAIN result[r]["u"] :
                       \A a \in ColumnNames : k \in DOMAIN result[r][a] /\ result[r][a][k] = <<a, d>>}
<1>1. /\ Given /\ "u" \in ColumnNames /\ ColumnNames \subseteq DOMAIN Empty
      /\ \A k \in DOMAIN Header : Header[k] \in DOMAIN Empty /\ Header[k] \notin ColumnNames
      /\ \A k \in DOMAIN Header : Header[k] # "sizes"
      /\ \A a \in ColumnNames : a # "sizes"
  <2>1. \A k \in DOMAIN Header : Header[k] \in {"units", "ra", "dec", "average_frequency"}
    BY DEF Header
  <2> QED
    BY <2>1, NamesAre DEF ScatterInv
<1>2. Count \in Nat /\ Data = 0 .. Count - 1
  BY <1>1, GivenTypes DEF Data
<1>3. CASE size = 1 /\ result[r] = Everything
  <2>1. \A a \in ColumnNames : result[r][a] = [p \in 1 .. Count |-> <<a, p-1>>]
    BY <1>1, <1>3 DEF Everything
  <2>2. ASSUME NEW d \in Data
        PROVE  Cardinality(At(d)) = 1
    <3>1. d + 1 \in 1 .. Count /\ d \in Int
      BY <1>2
    <3>2. At(d) \subseteq 1 .. Count
      BY <1>1, <2>1
    <3>3. \A k \in 1 .. Count : k - 1 = d <=> k = d + 1
      BY <3>1
    <3>4. \A k \in 1 .. Count :
            k \in At(d) <=> \A a \in ColumnNames : <<a, k-1>> = <<a, d>>
      <4> SUFFICES ASSUME NEW k \in 1 .. Count
                   PROVE  k \in At(d) <=> \A a \in ColumnNames : <<a, k-1>> = <<a, d>>
        OBVIOUS
      <4>1. \A a \in ColumnNames : k \in DOMAIN result[r][a] /\ result[r][a][k] = <<a, k-1>>
        BY <2>1
      <4> QED
        BY <1>1, <4>1
    <3>5. \A k \in 1 .. Count :
            (\A a \in ColumnNames : <<a, k-1>> = <<a, d>>) <=> k - 1 = d
      BY <1>1
    <3> HIDE DEF At
    <3>6. At(d) = {d + 1}
      BY <3>1, <3>2, <3>3, <3>4, <3>5
    <3> QED
      BY <3>6, FS_Singleton
  <2>3. ASSUME NEW a \in ColumnNames
        PROVE  Len(result[r][a]) = Cardinality({d \in Data : size = 1 \/ order[d] = r})
    <3>1. {d \in Data : size = 1 \/ order[d] = r} = 0 .. Count - 1
      BY <1>2, <1>3
    <3>2. Cardinality(0 .. Count - 1) = Count
      BY <1>2, FS_Interval
    <3>3. Len([p \in 1 .. Count |-> <<a, p-1>>]) = Count
      BY <1>2
    <3> QED
      BY <2>1, <3>1, <3>2, <3>3
  <2>4. \A k \in DOMAIN Header : result[r][Header[k]] = <<<<Header[k], "root">>>>
    BY <1>1, <1>3 DEF Everything
  <2> QED
    BY <1>3, <2>2, <2>3, <2>4
<1>4. CASE ~(size = 1 /\ result[r] = Everything)
  <2> DEFINE off == Offset(r)
             sz == ShareSize(r)
  <2>1. /\ size # 1 /\ Assigned /\ Regrouped
        /\ \A a \in DOMAIN Empty : result[r][a] = Payload(a, r)
    BY <1>4, ReturnedHoldsPayloads
  <2>2. \A a \in ColumnNames : result[r][a] = [p \in 1 .. sz |-> <<a, table[off + p - 1]>>]
    BY <1>1, <2>1 DEF Payload, Share
  <2>3. /\ off \in Nat /\ sz \in Nat /\ off + sz <= Count
        /\ \A p \in Data : order[table[p]] = r <=> off <= p /\ p < off + sz
    BY <1>1, <2>1, SharesAreStretches
  <2>4. /\ table \in [Data -> Data] /\ \A p, q \in Data : table[p] = table[q] => p = q
        /\ \A d \in Data : \E p \in Data : table[p] = d
    <3>1. table \in [Data -> Data] /\ \A p, q \in Data : table[p] = table[q] => p = q
      BY <2>1 DEF Regrouped, Permutations
    <3>2. \A d \in 0 .. Count - 1 : \E p \in 0 .. Count - 1 : table[p] = d
      BY <1>2, <3>1, EveryPlaceTaken, Zenon
    <3> QED
      BY <1>2, <3>1, <3>2
  <2>5. sz = Cardinality({d \in Data : order[d] = r})
    BY DEF ShareSize
  <2> HIDE DEF off, sz
  <2>6. ASSUME NEW d \in Data, NEW k \in 1 .. sz
        PROVE  k \in At(d) <=> table[off + k - 1] = d
    <3>1. \A a \in ColumnNames : k \in DOMAIN result[r][a]
            /\ result[r][a][k] = <<a, table[off + k - 1]>>
      BY <2>2
    <3>2. k \in At(d) <=> \A a \in ColumnNames : <<a, table[off + k - 1]>> = <<a, d>>
      BY <1>1, <3>1
    <3> QED
      BY <1>1, <3>2
  <2>7. \A d \in Data : At(d) \subseteq 1 .. sz
    BY <1>1, <2>2
  <2> HIDE DEF At
  <2>8. ASSUME NEW d \in Data, order[d] = r
        PROVE  Cardinality(At(d)) = 1
    <3>1. PICK p \in Data : table[p] = d
      BY <2>4
    <3>2. off <= p /\ p < off + sz /\ p \in Nat
      BY <1>2, <2>3, <2>8, <3>1
    <3>3. p - off + 1 \in 1 .. sz /\ off + (p - off + 1) - 1 = p
      BY <2>3, <3>2
    <3>4. p - off + 1 \in At(d)
      BY <2>6, <3>1, <3>3
    <3>5. ASSUME NEW k \in At(d)
          PROVE  k = p - off + 1
      <4>1. k \in 1 .. sz /\ table[off + k - 1] = d
        BY <2>6, <2>7, <3>5
      <4>2. off + k - 1 \in Data
        BY <1>2, <2>3, <4>1
      <4>3. off + k - 1 = p
        BY <2>4, <3>1, <4>1, <4>2
      <4> QED
        BY <2>3, <3>2, <4>1, <4>3
    <3>6. At(d) = {p - off + 1}
      BY <3>4, <3>5
    <3> QED
      BY <3>6, FS_Singleton
  <2>9. ASSUME NEW d \in Data, order[d] # r
        PROVE  Cardinality(At(d)) = 0
    <3>1. ASSUME NEW k \in At(d) PROVE FALSE
      <4>1. k \in 1 .. sz /\ table[off + k - 1] = d
        BY <2>6, <2>7, <3>1
      <4>2. off + k - 1 \in Data /\ off <= off + k - 1 /\ off + k - 1 < off + sz
        BY <1>2, <2>3, <4>1
      <4> QED
        BY <2>3, <2>9, <4>1, <4>2
    <3>2. At(d) = {}
      BY <3>1
    <3> QED
      BY <3>2, FS_EmptySet
  <2>10. ASSUME NEW a \in ColumnNames
         PROVE  Len(result[r][a]) = Cardinality({d \in Data : size = 1 \/ order[d] = r})
    <3>1. Len([p \in 1 .. sz |-> <<a, table[off + p - 1]>>]) = sz
      BY <2>3
    <3>2. {d \in Data : size = 1 \/ order[d] = r} = {d \in Data : order[d] = r}
      BY <2>1
    <3> QED
      BY <2>2, <2>5, <3>1, <3>2
  <2>11. \A k \in DOMAIN Header : result[r][Header[k]] = <<<<Header[k], "root">>>>
    BY <1>1, <2>1 DEF Payload
  <2>12. \A d \in Data : Cardinality(At(d)) = IF size = 1 \/ order[d] = r THEN 1 ELSE 0
    BY <2>1, <2>8, <2>9
  <2> QED
    BY <2>10, <2>11, <2>12 DEF At
<1> QED
  BY <1>3, <1>4

\* A rank that returns from read_measurements holds every visibility assigned to it once,
\* no other, with the five columns aligned although each travels in a scatter of its own,
\* and the root's header (read_measurements.cc:107, distribute.h:24, utilities.cc:61).
THEOREM VisibilitiesDeliveredOnce == Spec => []EveryVisibilityOnce
  BY ScatterInvAlways, InvEveryVisibilityOnce, PTL

\* With a sorting plan every rank gets a stretch of the sorted quantity, whatever order
\* std::sort leaves equal values in, and with every plan at most its part, rounded up
\* (distribute.cc:12, :16).
THEOREM RangesAreShared == Spec => []SharesAreRanges
<1>1. ScatterInv => SharesAreRanges
  <2> SUFFICES ASSUME ScatterInv, order # <<>> PROVE SharesAreRanges
    BY DEF SharesAreRanges
  <2>1. Assigned /\ size \in Nat /\ key \in [1 .. Count -> Int]
        /\ \A d \in Data : d + 1 \in 1 .. Count
    BY GivenTypes DEF ScatterInv, Stages
  <2>2. ASSUME plan \in SortingPlans, NEW r \in Ranks, NEW q \in Ranks, r # q
        PROVE  \/ \A d, e \in Data : order[d] = r /\ order[e] = q => key[d+1] <= key[e+1]
               \/ \A d, e \in Data : order[d] = r /\ order[e] = q => key[d+1] >= key[e+1]
    <3>1. r < q \/ q < r
      BY <2>1, <2>2 DEF Ranks
    <3>2. CASE r < q
      BY <2>1, <2>2, <3>2 DEF Assigned
    <3>3. CASE q < r
      <4>1. \A d, e \in Data : order[d] = r /\ order[e] = q => key[e+1] <= key[d+1]
        BY <2>1, <2>2, <3>3 DEF Assigned
      <4>2. \A d \in Data : key[d+1] \in Int
        BY <2>1
      <4>3. \A d, e \in Data : order[d] = r /\ order[e] = q => key[d+1] >= key[e+1]
        BY <4>1, <4>2
      <4> QED
        BY <4>3
    <3> QED
      BY <3>1, <3>2, <3>3
  <2> QED
    BY <2>1, <2>2 DEF SharesAreRanges, Assigned
<1> QED
  BY <1>1, ScatterInvAlways, PTL

------------------------------------------------------------------------------
(***************************************************************************)
(* The segments.                                                           *)
(***************************************************************************)

\* Keys are natural numbers, so they are ordered.
LEMMA GivenKeys ==
  ASSUME given \in [Pos -> Keys]
  PROVE  DOMAIN given = Pos /\ \A p \in Pos : given[p] \in Nat
<1>1. \A k \in Keys : k \in Nat
  BY KeysAssumption
<1> QED
  BY <1>1

\* Sets of positions are finite and at most as large as the data.
LEMMA PosFinite ==
  /\ IsFiniteSet(Pos) /\ Cardinality(Pos) = N
  /\ \A S \in SUBSET Pos :
       IsFiniteSet(S) /\ Cardinality(S) \in Nat /\ Cardinality(S) <= N
<1>1. IsFiniteSet(Pos) /\ Cardinality(Pos) = N
  BY NAssumption, FS_Interval DEF Pos
<1>2. ASSUME NEW S \in SUBSET Pos
      PROVE  IsFiniteSet(S) /\ Cardinality(S) \in Nat /\ Cardinality(S) <= N
  <2>1. IsFiniteSet(S) /\ Cardinality(S) <= N
    BY <1>1, FS_Subset
  <2> QED
    BY <2>1, FS_CardinalityType
<1> QED
  BY <1>1, <1>2

\* The bounds of a segment are natural numbers and no segment ends past the data.
LEMMA SegmentTypes ==
  ASSUME given \in [Pos -> Keys], NEW g \in Int
  PROVE  /\ Start(g) \in Nat /\ End(g) \in Nat
         /\ Start(g) <= End(g) /\ End(g) <= N
<1> DEFINE Smaller == {p \in DOMAIN given : given[p] < g}
           UpTo == {p \in DOMAIN given : given[p] <= g}
<1>1. UpTo \subseteq Pos /\ Smaller \subseteq UpTo
  BY GivenKeys
<1>2. IsFiniteSet(UpTo) /\ Cardinality(UpTo) <= N
  BY <1>1, PosFinite
<1>3. IsFiniteSet(Smaller) /\ Cardinality(Smaller) <= Cardinality(UpTo)
  BY <1>1, <1>2, FS_Subset
<1>4. Cardinality(UpTo) \in Nat /\ Cardinality(Smaller) \in Nat
  BY <1>2, <1>3, FS_CardinalityType
<1> QED
  BY <1>2, <1>3, <1>4 DEF Start, End

\* The segment of a smaller key ends before the segment of a larger one begins.
LEMMA SegmentOrder ==
  ASSUME given \in [Pos -> Keys], NEW g \in Int, NEW h \in Int, g < h
  PROVE  End(g) <= Start(h)
<1> DEFINE UpToG == {p \in DOMAIN given : given[p] <= g}
           BelowH == {p \in DOMAIN given : given[p] < h}
<1>1. BelowH \subseteq Pos /\ UpToG \subseteq BelowH
  BY GivenKeys
<1>2. IsFiniteSet(BelowH)
  BY <1>1, PosFinite
<1>3. Cardinality(UpToG) <= Cardinality(BelowH)
  BY <1>1, <1>2, FS_Subset
<1> QED
  BY <1>3 DEF Start, End

\* The size of a segment is the number of data of its key.
LEMMA SegmentSize ==
  ASSUME given \in [Pos -> Keys], NEW g \in Int
  PROVE  Cardinality({p \in DOMAIN given : given[p] = g}) = End(g) - Start(g)
<1> DEFINE Smaller == {p \in DOMAIN given : given[p] < g}
           Equal == {p \in DOMAIN given : given[p] = g}
           UpTo == {p \in DOMAIN given : given[p] <= g}
<1>1. Smaller \subseteq Pos /\ Equal \subseteq Pos
  OBVIOUS
<1>2. IsFiniteSet(Smaller) /\ IsFiniteSet(Equal)
  BY <1>1, PosFinite
<1>3. UpTo = Smaller \cup Equal /\ Smaller \cap Equal = {}
  BY GivenKeys
<1>4. Cardinality(UpTo) = Cardinality(Smaller) + Cardinality(Equal) - Cardinality({})
  BY <1>2, <1>3, FS_Union
<1>5. Cardinality(Smaller) \in Nat /\ Cardinality(Equal) \in Nat /\ Cardinality({}) = 0
  BY <1>2, FS_CardinalityType, FS_EmptySet
<1> QED
  BY <1>4, <1>5 DEF Start, End

\* With keys below max_groups the map has the keys 0..max_groups-1 and no others.
LEMMA MappedKeys ==
  ASSUME given \in [Pos -> Keys], KeysFit
  PROVE  Mapped = 0 .. MaxGroups-1
<1>1. \A p \in Pos : given[p] \in 0 .. MaxGroups-1
  BY GivenKeys, MaxGroupsAssumption DEF KeysFit
<1> QED
  BY <1>1 DEF Mapped

\* Then the lambda expected returns the key whose segment contains the position:
\* ordinals and keys coincide.
LEMMA ExpectedInSegment ==
  ASSUME given \in [Pos -> Keys], KeysFit, NEW g \in Mapped, NEW k \in Int,
         Start(g) <= k, k < End(g)
  PROVE  Expected(k) = g
<1>1. Mapped = 0 .. MaxGroups-1
  BY MappedKeys
<1>2. g \in Nat /\ g < MaxGroups
  BY <1>1, MaxGroupsAssumption
<1>3. ASSUME NEW h \in 0 .. MaxGroups-1
      PROVE  End(h) <= k <=> h < g
  <2>1. CASE h < g
    BY <2>1, <1>2, SegmentOrder, SegmentTypes
  <2>2. CASE h = g
    BY <2>2, <1>2, SegmentTypes
  <2>3. CASE h > g
    <3>1. End(g) <= Start(h) /\ Start(h) <= End(h)
      BY <2>3, <1>2, SegmentOrder, SegmentTypes
    <3> QED
      BY <2>3, <3>1, <1>2, SegmentTypes
  <2> QED
    BY <2>1, <2>2, <2>3, <1>2
<1>4. {h \in Mapped : End(h) <= k} = 0 .. g-1
  BY <1>1, <1>2, <1>3, MaxGroupsAssumption
<1>5. Cardinality(0 .. g-1) = g
  BY <1>2, FS_Interval
<1> QED
  BY <1>4, <1>5 DEF Expected

\* Nothing a step of the loop changes moves a segment.
LEMMA Frozen ==
  ASSUME given' = given
  PROVE  /\ Mapped' = Mapped /\ KeysFit' = KeysFit
         /\ \A g : Start(g)' = Start(g) /\ End(g)' = End(g)
         /\ \A k : Expected(k)' = Expected(k)
BY DEF Mapped, KeysFit, Start, End, Expected

(***************************************************************************)
(* Types, conservation and alignment: whatever the keys.                   *)
(***************************************************************************)

\* RegroupTypeOK with the facts about the domains that every step needs.
LEMMA TypeFacts ==
  ASSUME RegroupTypeOK
  PROVE  /\ Pos \subseteq DOMAIN given
         /\ \A p \in DOMAIN given : given[p] \in Mapped /\ groups[p] \in Mapped
         /\ Mapped \subseteq Nat
         /\ i \in Int
<1>1. PICK l \in Lengths : given \in [0 .. l-1 -> Keys]
  BY DEF RegroupTypeOK
<1>2. l \in Nat /\ l >= N
  BY LengthsAssumption
<1>3. Pos \subseteq DOMAIN given
  BY <1>1, <1>2, NAssumption DEF Pos
<1>4. \A k \in Keys : k \in Nat
  BY KeysAssumption
<1>5. \A p \in DOMAIN given : given[p] \in Keys
  BY <1>1
<1>6. Mapped \subseteq Nat
  BY <1>4, <1>5, MaxGroupsAssumption DEF Mapped
<1>7. \A p \in DOMAIN given : given[p] \in Mapped
  BY DEF Mapped
<1> QED
  BY <1>3, <1>6, <1>7, NAssumption DEF RegroupTypeOK

\* The positions a swap exchanges lie in the arrays.
LEMMA SwapPositions ==
  ASSUME RegroupTypeOK, SwapIn
  PROVE  i \in Pos /\ Swapper \in Pos /\ groups[i] \in Mapped
<1>1. i \in Pos
  BY TypeFacts, NAssumption DEF SwapIn, Misplaced, Pos, RegroupTypeOK
<1>2. groups[i] \in Mapped
  BY <1>1, TypeFacts
<1>3. Swapper \in Pos
  BY <1>2, NAssumption DEF SwapIn, Swapper, RegroupTypeOK, Pos
<1> QED
  BY <1>1, <1>2, <1>3

\* An exchange of two entries of a function.
LEMMA ExchangeFacts ==
  ASSUME NEW S, NEW T, NEW f \in [S -> T], NEW p \in S, NEW q \in S
  PROVE  /\ Exchange(f, p, q) \in [S -> T]
         /\ Exchange(f, p, q)[p] = f[q]
         /\ Exchange(f, p, q)[q] = f[p]
         /\ \A r \in S \ {p, q} : Exchange(f, p, q)[r] = f[r]
BY DEF Exchange

\* What has no repetition has none after an exchange.
LEMMA ExchangeOneToOne ==
  ASSUME NEW S, NEW T, NEW f \in [S -> T], NEW p \in S, NEW q \in S,
         \A x, y \in S : f[x] = f[y] => x = y,
         NEW x \in S, NEW y \in S, Exchange(f, p, q)[x] = Exchange(f, p, q)[y]
  PROVE  x = y
<1> DEFINE g == Exchange(f, p, q)
<1>1. g[p] = f[q] /\ g[q] = f[p] /\ \A r \in S \ {p, q} : g[r] = f[r]
  BY DEF Exchange
<1> HIDE DEF g
<1>2. g[x] = g[y]
  BY DEF g
<1> QED
  BY <1>1, <1>2

\* The initial states have the types of RegroupTypeOK.
LEMMA TypeCorrectInit == RegroupInit => RegroupTypeOK
<1> SUFFICES ASSUME RegroupInit PROVE RegroupTypeOK
  OBVIOUS
<1>1. PICK l \in Lengths : given \in [0 .. l-1 -> Keys]
  BY DEF RegroupInit
<1>2. groups \in [DOMAIN given -> Mapped]
  BY DEF RegroupInit, Mapped
<1>3. column \in [Arrays -> [Pos -> Pos]]
  BY DEF RegroupInit
<1>4. indices \in [Mapped -> Nat]
  <2>1. l \in Nat /\ IsFiniteSet(0 .. l-1)
    BY LengthsAssumption, FS_Interval
  <2>2. ASSUME NEW g \in Mapped
        PROVE  Start(g) \in Nat
    <3>1. {p \in DOMAIN given : given[p] < g} \subseteq 0 .. l-1
      BY <1>1
    <3>2. IsFiniteSet({p \in DOMAIN given : given[p] < g})
      BY <3>1, <2>1, FS_Subset
    <3> QED
      BY <3>2, FS_CardinalityType DEF Start
  <2> QED
    BY <2>2 DEF RegroupInit
<1> QED
  BY <1>1, <1>2, <1>3, <1>4, NAssumption DEF RegroupInit, RegroupTypeOK

\* Every step of regroup preserves the types.
LEMMA TypeCorrectStep == RegroupTypeOK /\ [RegroupNext]_regroupVars => RegroupTypeOK'
<1> SUFFICES ASSUME RegroupTypeOK, [RegroupNext]_regroupVars PROVE RegroupTypeOK'
  OBVIOUS
<1> USE DEF RegroupTypeOK
<1>1. CASE CheckEnds
  BY <1>1 DEF CheckEnds, Mapped
<1>2. CASE Advance
  BY <1>2, NAssumption DEF Advance, Mapped
<1>3. CASE SkipPlaced
  <2>1. groups[i] \in Mapped
    <3>1. i < N
      BY ONLY <1>3 DEF SkipPlaced, Misplaced
    <3>2. i \in Pos
      BY <3>1, NAssumption DEF Pos
    <3> HIDE DEF RegroupTypeOK
    <3> QED
      BY <3>2, TypeFacts
  <2>2. indices' \in [Mapped -> Nat]
    BY <1>3, <2>1 DEF SkipPlaced
  <2> QED
    BY <1>3, <2>2, Frozen DEF SkipPlaced
<1>4. CASE SwapIn
  <2>1. i \in Pos /\ Swapper \in Pos /\ groups[i] \in Mapped
    BY <1>4, SwapPositions
  <2>2. groups' \in [DOMAIN given -> Mapped]
    BY <1>4, <2>1, TypeFacts, ExchangeFacts DEF SwapIn
  <2>3. column' \in [Arrays -> [Pos -> Pos]]
    BY <1>4, <2>1, ExchangeFacts DEF SwapIn
  <2>4. indices' \in [Mapped -> Nat]
    BY <1>4, <2>1 DEF SwapIn
  <2> QED
    BY <1>4, <2>2, <2>3, <2>4, Frozen DEF SwapIn
<1>5. CASE ReadPastEnd
  BY <1>5 DEF ReadPastEnd, Mapped
<1>6. CASE Finish
  BY <1>6 DEF Finish, Mapped
<1>7. CASE UNCHANGED regroupVars
  BY <1>7 DEF regroupVars, Mapped
<1> QED
  BY <1>1, <1>2, <1>3, <1>4, <1>5, <1>6, <1>7 DEF RegroupNext

\* The types of the state of regroup are an invariant, for every number of data,
\* of groups and of columns and for all keys.
THEOREM TypeCorrect == RegroupSpec => []RegroupTypeOK
BY TypeCorrectInit, TypeCorrectStep, PTL DEF RegroupSpec

\* Whatever the keys, regroup never loses or repeats a datum of a column.
THEOREM DataConserved == RegroupSpec => []Conserved
<1>1. RegroupInit => Conserved
  BY DEF RegroupInit, Conserved
<1>2. RegroupTypeOK /\ Conserved /\ [RegroupNext]_regroupVars => Conserved'
  <2> SUFFICES ASSUME RegroupTypeOK, Conserved, [RegroupNext]_regroupVars PROVE Conserved'
    OBVIOUS
  <2>1. CASE SwapIn
    <3> SUFFICES ASSUME NEW c \in Arrays, NEW p \in Pos, NEW q \in Pos,
                        column'[c][p] = column'[c][q]
                 PROVE  p = q
      BY DEF Conserved
    <3>1. i \in Pos /\ Swapper \in Pos
      BY <2>1, SwapPositions
    <3>2. column[c] \in [Pos -> Pos] /\ column'[c] = Exchange(column[c], i, Swapper)
      BY <2>1 DEF SwapIn, RegroupTypeOK
    <3>3. column[c] \in [Pos -> Pos] /\ \A x, y \in Pos : column[c][x] = column[c][y] => x = y
      BY DEF RegroupTypeOK, Conserved
    <3>4. Exchange(column[c], i, Swapper)[p] = Exchange(column[c], i, Swapper)[q]
      BY <3>2
    <3> DEFINE f == column[c]
    <3> HIDE DEF f
    <3>5. f \in [Pos -> Pos] /\ \A x, y \in Pos : f[x] = f[y] => x = y
      BY <3>3 DEF f
    <3>6. Exchange(f, i, Swapper)[p] = Exchange(f, i, Swapper)[q]
      BY <3>4 DEF f
    <3> QED
      BY <3>1, <3>5, <3>6, ExchangeOneToOne
  <2>2. CASE UNCHANGED column
    BY <2>2 DEF Conserved
  <2> QED
    BY <2>1, <2>2 DEF RegroupNext, regroupVars, CheckEnds, Advance, SkipPlaced, ReadPastEnd, Finish
<1> QED
  BY <1>1, <1>2, TypeCorrect, PTL DEF RegroupSpec

\* Whatever the keys, the columns stay aligned with one another and with the groups.
THEOREM ColumnsAligned == RegroupSpec => []Aligned
<1>1. RegroupInit => Aligned
  BY DEF RegroupInit, Aligned
<1>2. RegroupTypeOK /\ Aligned /\ [RegroupNext]_regroupVars => Aligned'
  <2> SUFFICES ASSUME RegroupTypeOK, Aligned, [RegroupNext]_regroupVars PROVE Aligned'
    OBVIOUS
  <2>1. CASE SwapIn
    <3> SUFFICES ASSUME NEW c \in Arrays, NEW d \in Arrays, NEW p \in Pos
                 PROVE  /\ column'[c][p] = column'[d][p]
                        /\ groups'[p] = given'[column'[c][p]]
      BY DEF Aligned
    <3>1. i \in Pos /\ Swapper \in Pos
      BY <2>1, SwapPositions
    <3>2. /\ column[c] \in [Pos -> Pos] /\ column'[c] = Exchange(column[c], i, Swapper)
          /\ column[d] \in [Pos -> Pos] /\ column'[d] = Exchange(column[d], i, Swapper)
      BY <2>1 DEF SwapIn, RegroupTypeOK
    <3>3. /\ groups \in [DOMAIN given -> Mapped] /\ Pos \subseteq DOMAIN given
          /\ groups' = Exchange(groups, i, Swapper) /\ given' = given
      BY <2>1, TypeFacts DEF SwapIn, RegroupTypeOK
    <3> DEFINE from == IF p = i THEN Swapper ELSE IF p = Swapper THEN i ELSE p
    <3>4. from \in Pos
      BY <3>1
    <3>5. column'[c][p] = column[c][from] /\ column'[d][p] = column[d][from]
      BY <3>1, <3>2 DEF Exchange
    <3>6. groups'[p] = groups[from]
      BY <3>1, <3>3 DEF Exchange
    <3> QED
      BY <3>3, <3>4, <3>5, <3>6 DEF Aligned
  <2>2. CASE UNCHANGED <<given, groups, column>>
    BY <2>2 DEF Aligned
  <2> QED
    BY <2>1, <2>2 DEF RegroupNext, regroupVars, CheckEnds, Advance, SkipPlaced, ReadPastEnd, Finish
<1> QED
  BY <1>1, <1>2, TypeCorrect, PTL DEF RegroupSpec

(***************************************************************************)
(* Keys below max_groups: the loop stays in bounds and fills the segments. *)
(***************************************************************************)

\* While a datum of a group is outside its segment, the segment has a free entry:
\* otherwise the group would have one datum more than the segment has entries.
LEMMA FreeEntry ==
  ASSUME IInv, KeysFit, Misplaced
  PROVE  /\ groups[i] \in Mapped
         /\ Start(groups[i]) <= Swapper /\ Swapper < End(groups[i])
         /\ Swapper \in Pos
         /\ Expected(Swapper) = groups[i]
<1> DEFINE g == groups[i]
           Held == {p \in DOMAIN given : groups[p] = g}
           Segment == Start(g) .. End(g)-1
<1>1. given \in [Pos -> Keys] /\ DOMAIN given = Pos
  BY DEF IInv, Checked, RegroupTypeOK, Misplaced
<1>2. i \in Pos
  BY NAssumption DEF Misplaced, Pos, IInv, RegroupTypeOK
<1>3. g \in Mapped /\ g \in Int
  BY <1>1, <1>2, TypeFacts DEF IInv
<1>4. /\ Start(g) \in Nat /\ End(g) \in Nat
      /\ Start(g) <= End(g) /\ End(g) <= N
  BY <1>1, <1>3, SegmentTypes
<1>5. /\ Start(g) <= Swapper /\ Swapper <= End(g) /\ Swapper \in Nat
      /\ \A p \in Start(g) .. Swapper-1 : groups[p] = g
      /\ Cardinality(Held) = End(g) - Start(g)
  BY <1>1, <1>3 DEF IInv, Filled, Counted, RegroupTypeOK, Swapper
<1>6. i \notin Segment
  BY <1>1, <1>2, <1>3, <1>4, ExpectedInSegment DEF Misplaced, Pos
<1>7. Swapper # End(g)
  <2> SUFFICES ASSUME Swapper = End(g) PROVE FALSE
    OBVIOUS
  <2>1. Segment \cup {i} \subseteq Held
    BY <1>1, <1>2, <1>4, <1>5, NAssumption DEF Pos
  <2>2. IsFiniteSet(Held)
    BY <1>1, PosFinite
  <2>3. Cardinality(Segment \cup {i}) <= Cardinality(Held)
    BY <2>1, <2>2, FS_Subset
  <2>4. IsFiniteSet(Segment) /\ Cardinality(Segment) = End(g) - Start(g)
    <3>1. Start(g) \in Int /\ End(g)-1 \in Int
      BY <1>4
    <3>2. /\ IsFiniteSet(Segment)
          /\ Cardinality(Segment) =
               IF Start(g) > End(g)-1 THEN 0 ELSE (End(g)-1) - Start(g) + 1
      BY <3>1, FS_Interval
    <3> QED
      BY <3>2, <1>4
  <2>5. Cardinality(Segment \cup {i}) = End(g) - Start(g) + 1
    BY <2>4, <1>6, FS_AddElement
  <2> QED
    BY <2>3, <2>5, <1>4, <1>5
<1>8. Expected(Swapper) = g
  BY <1>1, <1>3, <1>4, <1>5, <1>7, ExpectedInSegment
<1> QED
  BY <1>3, <1>4, <1>5, <1>7, <1>8, NAssumption DEF Pos

\* An exchange moves one datum of each of two groups: no group changes its size.
LEMMA SwapKeepsSizes ==
  ASSUME IInv, KeysFit, SwapIn, NEW h \in Mapped
  PROVE  Cardinality({p \in Pos : groups'[p] = h}) = Cardinality({p \in Pos : groups[p] = h})
<1> DEFINE g == groups[i]
           k == groups[Swapper]
           Held == {p \in Pos : groups[p] = h}
           HeldAfter == {p \in Pos : groups'[p] = h}
<1>1. Misplaced /\ DOMAIN given = Pos
  BY DEF SwapIn, Misplaced, IInv, Checked
<1>2. i \in Pos /\ Swapper \in Pos /\ g # k
  BY <1>1, FreeEntry, SwapPositions DEF SwapIn, IInv
<1>3. groups \in [Pos -> Mapped] /\ groups' = Exchange(groups, i, Swapper)
  BY <1>1 DEF SwapIn, IInv, RegroupTypeOK
<1>4. IsFiniteSet(Held) /\ Cardinality(Held) \in Nat
  BY PosFinite
<1>5. CASE h = g
  <2>1. HeldAfter = (Held \ {i}) \cup {Swapper} /\ i \in Held /\ Swapper \notin Held
    BY <1>2, <1>3, <1>5 DEF Exchange
  <2>2. IsFiniteSet(Held \ {i}) /\ Cardinality(Held \ {i}) = Cardinality(Held) - 1
    BY <1>4, <2>1, FS_RemoveElement
  <2>3. Cardinality(HeldAfter) = Cardinality(Held \ {i}) + 1
    BY <2>1, <2>2, FS_AddElement
  <2> QED
    BY <2>2, <2>3, <1>4
<1>6. CASE h = k
  <2>1. HeldAfter = (Held \ {Swapper}) \cup {i} /\ Swapper \in Held /\ i \notin Held
    BY <1>2, <1>3, <1>6 DEF Exchange
  <2>2. IsFiniteSet(Held \ {Swapper}) /\ Cardinality(Held \ {Swapper}) = Cardinality(Held) - 1
    BY <1>4, <2>1, FS_RemoveElement
  <2>3. Cardinality(HeldAfter) = Cardinality(Held \ {Swapper}) + 1
    BY <2>1, <2>2, FS_AddElement
  <2> QED
    BY <2>2, <2>3, <1>4
<1>7. CASE h # g /\ h # k
  <2>1. HeldAfter = Held
    BY <1>2, <1>3, <1>7 DEF Exchange
  <2> QED
    BY <2>1
<1> QED
  BY <1>5, <1>6, <1>7

\* When the check of the ends lets the loop start, groups_ is as long as the data.
LEMMA CheckedLength ==
  ASSUME RegroupTypeOK, CheckEnds
  PROVE  Checked'
<1>1. PICK l \in Lengths : given \in [0 .. l-1 -> Keys]
  BY DEF RegroupTypeOK
<1>2. l \in Nat /\ l >= N /\ TotalSize = l
  BY <1>1, LengthsAssumption, FS_Interval DEF TotalSize
<1> QED
  BY <1>1, <1>2, NAssumption DEF CheckEnds, Checked, Pos

\* Segment bounds and free entries are integers.
LEMMA SegmentInt ==
  ASSUME IInv, DOMAIN given = Pos
  PROVE  \A g \in Mapped : /\ g \in Nat /\ indices[g] \in Nat
                           /\ Start(g) \in Nat /\ End(g) \in Nat /\ End(g) <= N
<1> TAKE g \in Mapped
<1>1. given \in [Pos -> Keys]
  BY DEF IInv, RegroupTypeOK
<1>2. g \in Nat /\ indices[g] \in Nat
  BY TypeFacts DEF IInv, RegroupTypeOK
<1> QED
  BY <1>1, <1>2, SegmentTypes

\* A swap fills one more entry of the segment of the datum at i and takes nothing
\* back from the filled part of any segment.
LEMMA FilledAfterSwap ==
  ASSUME IInv, KeysFit, SwapIn
  PROVE  \A g \in Mapped :
           /\ Start(g) <= indices'[g] /\ indices'[g] <= End(g)
           /\ \A p \in Start(g) .. indices'[g]-1 : groups'[p] = g
<1> SUFFICES ASSUME NEW g \in Mapped
             PROVE  /\ Start(g) <= indices'[g] /\ indices'[g] <= End(g)
                    /\ \A p \in Start(g) .. indices'[g]-1 : groups'[p] = g
  OBVIOUS
<1>1. /\ groups[i] \in Mapped /\ Start(groups[i]) <= Swapper /\ Swapper < End(groups[i])
      /\ Swapper \in Pos /\ Expected(Swapper) = groups[i]
      /\ i \in Pos /\ DOMAIN given = Pos
  BY FreeEntry, SwapPositions DEF SwapIn, IInv, Checked, Misplaced
<1>2. /\ groups \in [Pos -> Mapped] /\ indices \in [Mapped -> Nat] /\ given \in [Pos -> Keys]
      /\ groups' = Exchange(groups, i, Swapper)
      /\ indices' = [indices EXCEPT ![groups[i]] = @ + 1]
  BY <1>1 DEF SwapIn, IInv, RegroupTypeOK
<1>3. /\ Start(g) <= indices[g] /\ indices[g] <= End(g)
      /\ \A p \in Start(g) .. indices[g]-1 : groups[p] = g
  BY <1>1 DEF IInv, Filled
<1>4. /\ g \in Nat /\ indices[g] \in Nat
      /\ Start(g) \in Nat /\ End(g) \in Nat /\ End(g) <= N
  BY <1>1, SegmentInt
<1>5. ASSUME NEW p \in Start(g) .. indices[g]-1
      PROVE  p \in Pos /\ p # i /\ p # Swapper
  <2>1. p \in Pos /\ groups[p] = g /\ Expected(p) = g
    BY <1>2, <1>3, <1>4, ExpectedInSegment, NAssumption DEF Pos
  <2> QED
    BY <2>1 DEF SwapIn, Misplaced
<1>6. \A p \in Start(g) .. indices[g]-1 : groups'[p] = g
  BY <1>1, <1>2, <1>3, <1>5 DEF Exchange
<1>7. CASE g = groups[i]
  <2>1. indices'[g] = indices[g] + 1 /\ Swapper = indices[g]
    BY <1>2, <1>7 DEF Swapper
  <2>2. groups'[Swapper] = g
    BY <1>1, <1>2, <1>7 DEF Exchange
  <2> QED
    BY <1>1, <1>3, <1>4, <1>6, <1>7, <2>1, <2>2
<1>8. CASE g # groups[i]
  BY <1>2, <1>3, <1>6, <1>8
<1> QED
  BY <1>7, <1>8

\* A swap touches neither entry before i: i itself is not before i, and the free
\* entry would be in place already.
LEMMA PassedAfterSwap ==
  ASSUME IInv, SwapIn
  PROVE  /\ i' = i /\ phase' = "loop"
         /\ \A p \in 0 .. i-1 :
              /\ p \in Pos /\ p # i /\ p # Swapper
              /\ groups'[p] = Expected(p)
<1>1. i \in Pos /\ Swapper \in Pos /\ DOMAIN given = Pos /\ i' = i /\ phase' = "loop"
  BY SwapPositions DEF SwapIn, IInv, Checked, Misplaced
<1>2. groups \in [Pos -> Mapped] /\ groups' = Exchange(groups, i, Swapper)
  BY <1>1 DEF SwapIn, IInv, RegroupTypeOK
<1>3. ASSUME NEW p \in 0 .. i-1
      PROVE  p \in Pos /\ p # i /\ p # Swapper /\ groups[p] = Expected(p)
  <2>1. p \in Pos /\ p # i
    BY <1>1, NAssumption DEF Pos
  <2>2. groups[p] = Expected(p)
    BY DEF IInv, Passed
  <2> QED
    BY <2>1, <2>2 DEF SwapIn
<1>4. \A p \in 0 .. i-1 : groups'[p] = groups[p]
  BY <1>1, <1>2, <1>3 DEF Exchange
<1> QED
  BY <1>1, <1>3, <1>4

\* IInv is inductive.
THEOREM IInvInvariant == RegroupSpec => []IInv
<1>1. RegroupInit => IInv
  <2> SUFFICES ASSUME RegroupInit PROVE IInv
    OBVIOUS
  <2>1. RegroupTypeOK
    BY TypeCorrectInit
  <2>2. ASSUME DOMAIN given = Pos
        PROVE  Filled /\ Counted
    <3>1. given \in [Pos -> Keys] /\ groups = given
      BY <2>2 DEF RegroupInit
    <3>2. \A g \in Mapped : g \in Int /\ indices[g] = Start(g)
      BY <2>1, TypeFacts DEF RegroupInit
    <3>3. Filled
      BY <3>1, <3>2, SegmentTypes DEF Filled
    <3>4. Counted
      BY <3>1, <3>2, SegmentSize DEF Counted
    <3> QED
      BY <3>3, <3>4
  <2> QED
    BY <2>1, <2>2, NAssumption DEF RegroupInit, IInv, Checked, Passed
<1>2. IInv /\ [RegroupNext]_regroupVars => IInv'
  <2> SUFFICES ASSUME IInv, [RegroupNext]_regroupVars PROVE IInv'
    OBVIOUS
  <2>1. RegroupTypeOK'
    BY TypeCorrectStep DEF IInv
  <2>2. /\ given' = given /\ Mapped' = Mapped /\ KeysFit' = KeysFit
        /\ \A g : Start(g)' = Start(g) /\ End(g)' = End(g)
        /\ \A k : Expected(k)' = Expected(k)
    BY Frozen DEF RegroupNext, regroupVars, CheckEnds, Advance, SkipPlaced, SwapIn, ReadPastEnd, Finish
  <2>3. CASE CheckEnds
    <3>1. Checked'
      BY <2>3, CheckedLength DEF IInv
    <3> QED
      BY <2>1, <2>2, <2>3, <3>1 DEF CheckEnds, IInv, Filled, Counted, Passed
  <2>4. CASE Advance
    <3>1. Passed'
      BY <2>2, <2>4, NAssumption DEF Advance, Passed, IInv, RegroupTypeOK
    <3> QED
      BY <2>1, <2>2, <2>4, <3>1 DEF Advance, IInv, Checked, Filled, Counted
  <2>5. CASE SkipPlaced
    <3>1. DOMAIN given = Pos /\ Checked' /\ Passed' /\ phase' = "loop"
      BY <2>2, <2>5 DEF SkipPlaced, Misplaced, IInv, Checked, Passed
    <3>2. ASSUME KeysFit
          PROVE  Filled' /\ Counted'
      <4>1. /\ groups[i] \in Mapped /\ Swapper < End(groups[i]) /\ Swapper \in Int
            /\ groups[Swapper] = groups[i]
        BY <2>5, <3>1, <3>2, FreeEntry DEF SkipPlaced, Pos
      <4>2. Filled'
        BY <2>2, <2>5, <3>1, <3>2, <4>1, SegmentInt
           DEF SkipPlaced, Swapper, Filled, IInv, RegroupTypeOK
      <4> QED
        BY <2>2, <2>5, <3>1, <3>2, <4>2 DEF SkipPlaced, Counted, IInv
    <3> QED
      BY <2>1, <2>2, <3>1, <3>2 DEF IInv
  <2>6. CASE SwapIn
    <3>1. DOMAIN given = Pos /\ Checked' /\ Passed' /\ phase' = "loop"
      BY <2>2, <2>6, PassedAfterSwap DEF SwapIn, Misplaced, IInv, Checked, Passed
    <3>2. ASSUME KeysFit
          PROVE  Filled' /\ Counted'
      <4>1. Filled'
        BY <2>2, <2>6, <3>2, FilledAfterSwap DEF Filled
      <4>2. Counted'
        BY <2>2, <2>6, <3>1, <3>2, SwapKeepsSizes DEF Counted, IInv
      <4> QED
        BY <4>1, <4>2
    <3> QED
      BY <2>1, <2>2, <3>1, <3>2 DEF IInv
  <2>7. CASE ReadPastEnd
    <3>1. Checked' /\ Passed'
      BY <2>2, <2>7 DEF ReadPastEnd, Misplaced, IInv, Checked, Passed
    <3>2. ~ KeysFit
      <4> SUFFICES ASSUME KeysFit PROVE FALSE
        OBVIOUS
      <4>1. Swapper < N /\ Swapper \in Int
        BY <2>7, FreeEntry, NAssumption DEF ReadPastEnd, Pos
      <4> QED
        BY <2>7, <4>1, NAssumption DEF ReadPastEnd
    <3> QED
      BY <2>1, <2>2, <3>1, <3>2 DEF IInv
  <2>8. CASE Finish
    BY <2>1, <2>2, <2>8, NAssumption DEF Finish, IInv, Checked, Filled, Counted, Passed, RegroupTypeOK
  <2>9. CASE UNCHANGED regroupVars
    BY <2>1, <2>2, <2>9 DEF regroupVars, IInv, Checked, Filled, Counted, Passed
  <2> QED
    BY <2>3, <2>4, <2>5, <2>6, <2>7, <2>8, <2>9 DEF RegroupNext
<1> QED
  BY <1>1, <1>2, PTL DEF RegroupSpec

\* For every number of data and of groups: as long as the keys are below max_groups
\* the unchecked read groups[swapper] never leaves the segment of the datum at i.
THEOREM SwapperInBounds == RegroupSpec => []InBounds
<1>1. IInv => InBounds
  BY FreeEntry DEF InBounds, IInv
<1> QED
  BY <1>1, IInvInvariant, PTL

\* At the end every entry belongs to the segment it is in.
LEMMA DoneMeansPlaced ==
  ASSUME IInv, phase = "done"
  PROVE  /\ DOMAIN given = Pos /\ given \in [Pos -> Keys]
         /\ \A p \in Pos : groups[p] = Expected(p)
BY NAssumption DEF IInv, Checked, Passed, RegroupTypeOK, Pos

\* The cut by group sizes made by the scatter is right for all keys below max_groups.
THEOREM SegmentsHoldTheirGroup == RegroupSpec => []SegmentsHold
<1>1. IInv => SegmentsHold
  <2> SUFFICES ASSUME IInv, KeysFit, phase = "done",
                      NEW g \in Mapped, NEW p \in Start(g) .. End(g)-1
               PROVE  groups[p] = g
    BY DEF SegmentsHold
  <2>1. DOMAIN given = Pos /\ given \in [Pos -> Keys]
    BY DoneMeansPlaced
  <2>2. Start(g) \in Nat /\ End(g) \in Nat /\ End(g) <= N
    BY <2>1, SegmentInt
  <2>3. p \in Pos /\ Start(g) <= p /\ p < End(g)
    BY <2>2, NAssumption DEF Pos
  <2>4. Expected(p) = g
    BY <2>1, <2>2, <2>3, ExpectedInSegment DEF Pos
  <2> QED
    BY <2>3, <2>4, DoneMeansPlaced
<1> QED
  BY <1>1, IInvInvariant, PTL

\* The lambda expected never decreases along the positions.
LEMMA ExpectedMonotone ==
  ASSUME given \in [Pos -> Keys], KeysFit, NEW p \in Pos, NEW q \in Pos, p < q
  PROVE  Expected(p) <= Expected(q)
<1> DEFINE EndedAt(k) == {g \in Mapped : End(g) <= k}
<1>1. Mapped = 0 .. MaxGroups-1
  BY MappedKeys
<1>2. IsFiniteSet(Mapped)
  BY <1>1, MaxGroupsAssumption, FS_Interval
<1>3. ASSUME NEW g \in Mapped
      PROVE  End(g) \in Nat
  <2>1. g \in Int
    BY <1>1, MaxGroupsAssumption
  <2> QED
    BY <2>1, SegmentTypes
<1>4. EndedAt(p) \subseteq EndedAt(q) /\ EndedAt(q) \subseteq Mapped
  BY <1>3 DEF Pos
<1>5. IsFiniteSet(EndedAt(q))
  BY <1>2, <1>4, FS_Subset
<1>6. Cardinality(EndedAt(p)) <= Cardinality(EndedAt(q))
  BY <1>4, <1>5, FS_Subset
<1> QED
  BY <1>6 DEF Expected

\* The documented order holds for every input whose keys are below max_groups.
THEOREM KeysInOrder == RegroupSpec => []SmallestKeyFirst
<1>1. IInv => SmallestKeyFirst
  BY DoneMeansPlaced, ExpectedMonotone DEF SmallestKeyFirst, IInv
<1> QED
  BY <1>1, IInvInvariant, PTL

\* No step of regroup rewrites an entry the loop has passed.
THEOREM PassedEntriesFinal == RegroupSpec => PassedIsFinal
<1>1. IInv /\ [RegroupNext]_regroupVars
        => [\A p \in 0 .. i-1 : \A c \in Arrays : column'[c][p] = column[c][p]]_regroupVars
  <2> SUFFICES ASSUME IInv, RegroupNext, NEW p \in 0 .. i-1, NEW c \in Arrays
               PROVE  column'[c][p] = column[c][p]
    OBVIOUS
  <2>1. CASE SwapIn
    <3>1. i \in Pos /\ Swapper \in Pos
      BY <2>1, SwapPositions DEF IInv
    <3>2. p \in Pos /\ p # i /\ p # Swapper
      BY <2>1, PassedAfterSwap
    <3>3. column[c] \in [Pos -> Pos] /\ column'[c] = Exchange(column[c], i, Swapper)
      BY <2>1 DEF SwapIn, IInv, RegroupTypeOK
    <3> QED
      BY <3>1, <3>2, <3>3 DEF Exchange
  <2>2. CASE UNCHANGED column
    BY <2>2
  <2> QED
    BY <2>1, <2>2 DEF RegroupNext, CheckEnds, Advance, SkipPlaced, ReadPastEnd, Finish
<1> QED
  BY <1>1, IInvInvariant, PTL DEF RegroupSpec, PassedIsFinal

(***************************************************************************)
(* Refinement: regroup implements Partition.                               *)
(***************************************************************************)

\* What the abstract step needs: the loop leaves one sorted permutation in all columns.
LEMMA FinishArranges ==
  ASSUME IInv, Conserved, Aligned, SmallestKeyFirst', Finish
  PROVE  Promise!Arrange
<1>1. DOMAIN given = Pos /\ phase = "loop" /\ phase' = "done" /\ column' = column /\ given' = given
      /\ groups' = groups
  BY DEF Finish, IInv, Checked
<1>2. PICK c \in Arrays : TRUE
  BY ArraysAssumption
<1>3. column[c] \in [Pos -> Pos] /\ column \in [Arrays -> [Pos -> Pos]]
  BY DEF IInv, RegroupTypeOK
<1>4. column = [d \in Arrays |-> column[c]]
  <2>1. ASSUME NEW d \in Arrays PROVE column[d] = column[c]
    BY <1>3 DEF Aligned
  <2> QED
    BY <1>3, <2>1
<1>5. column[c] \in Promise!Permutations(Pos)
  BY <1>3 DEF Conserved, Promise!Permutations
<1>6. Promise!KeysFit => Promise!SortedBy(Pos, column[c], given)
  BY <1>1, Frozen DEF Aligned, SmallestKeyFirst, KeysFit, Promise!KeysFit, Promise!SortedBy, Pos
<1>7. Outcome = "asked" /\ Outcome' = "arranged" /\ Seen' = column
  BY <1>1 DEF Outcome, Seen
<1> QED
  BY <1>1, <1>4, <1>5, <1>6, <1>7 DEF Promise!Arrange, Promise!Pos, Pos

\* A refusal happens exactly when the array of groups does not match the data.
LEMMA CheckRefuses ==
  ASSUME RegroupTypeOK, CheckEnds
  PROVE  Promise!Refuse \/ UNCHANGED <<given, Seen, Outcome>>
<1>1. PICK l \in Lengths : given \in [0 .. l-1 -> Keys]
  BY DEF RegroupTypeOK
<1>2. l \in Nat /\ l >= N /\ TotalSize = l
  BY <1>1, LengthsAssumption, FS_Interval DEF TotalSize
<1>3. CASE l > N
  <2>1. N \in DOMAIN given /\ N \notin Pos
    BY <1>1, <1>2, <1>3, NAssumption DEF Pos
  <2>2. phase = "start" /\ phase' = "rejected" /\ UNCHANGED <<given, column>>
    BY <1>2, <1>3, NAssumption DEF CheckEnds
  <2> QED
    BY <2>1, <2>2 DEF Promise!Refuse, Promise!Pos, Pos, Outcome, Seen
<1>4. CASE ~(l > N)
  BY <1>2, <1>4, NAssumption DEF CheckEnds, Outcome, Seen
<1> QED
  BY <1>3, <1>4

\* Detailed steps map to the abstract arrangement, to the abstract refusal or to a
\* stutter: regroup implements Partition whatever the keys.
THEOREM RegroupImplementsPartition == RegroupSpec => ImplementsPartition
<1>1. RegroupInit => Promise!Init
  BY DEF RegroupInit, Promise!Init, Promise!Pos, Pos, Seen, Outcome
<1>2. IInv /\ Conserved /\ Aligned /\ SmallestKeyFirst' /\ [RegroupNext]_regroupVars
        => [Promise!Next]_(Promise!vars)
  <2> SUFFICES ASSUME IInv, Conserved, Aligned, SmallestKeyFirst', [RegroupNext]_regroupVars
               PROVE  Promise!Next \/ UNCHANGED <<given, Seen, Outcome>>
    BY DEF Promise!vars
  <2>1. CASE CheckEnds
    BY <2>1, CheckRefuses DEF Promise!Next, IInv
  <2>2. CASE Finish
    BY <2>2, FinishArranges DEF Promise!Next
  <2>3. CASE Advance \/ SkipPlaced \/ SwapIn
    BY <2>3 DEF Advance, SkipPlaced, SwapIn, Misplaced, Seen, Outcome
  <2>4. CASE ReadPastEnd
    BY <2>4 DEF ReadPastEnd, Misplaced, Seen, Outcome
  <2>5. CASE UNCHANGED regroupVars
    BY <2>5 DEF regroupVars, Seen, Outcome
  <2> QED
    BY <2>1, <2>2, <2>3, <2>4, <2>5 DEF RegroupNext
<1> QED
  BY <1>1, <1>2, IInvInvariant, DataConserved, ColumnsAligned, KeysInOrder, PTL
     DEF RegroupSpec, ImplementsPartition, Promise!Spec
==============================================================================
