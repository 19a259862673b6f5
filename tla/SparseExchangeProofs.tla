-------------------------- MODULE SparseExchangeProofs --------------------------
(***************************************************************************)
(* Proofs about SparseExchange for every number of ranks, every square     *)
(* grid and every gridding matrix: what a rank receives are the entries    *)
(* its matrix has columns for, in their order, and what it is sent for its *)
(* grid comes from the visibilities that are computed from the entry.      *)
(***************************************************************************)
EXTENDS SparseExchange, Lists

(***************************************************************************)
(* The entries of an ordered list that lie on one node.                    *)
(***************************************************************************)

LEMMA GridSizes ==
  /\ N \in Nat /\ N > 0 /\ Size \in Nat /\ Size > 0
  /\ Ranks = 0 .. Size-1 /\ N * Size \in Nat
<1>1. ftsizeu \in Nat /\ ftsizeu > 0 /\ Size \in Nat /\ Size > 0
  BY GridAssumption, SizeAssumption
<1>2. N \in Nat /\ N > 0
  BY <1>1 DEF N
<1> HIDE DEF N
<1> QED
  BY <1>1, <1>2 DEF Ranks

\* The node of an entry of the long vector, and that it grows with the entry.
LEMMA NodeOfEntry ==
  ASSUME NEW n \in Nat, n > 0, NEW k \in Nat, NEW x \in 0 .. n * k - 1
  PROVE  /\ x \div n \in 0 .. k-1
         /\ \A r \in Int : x \div n = r <=> x \in r * n .. r * n + n - 1
<1> DEFINE d == x \div n
<1>1. d \in Int /\ n * d <= x /\ x < n * d + n /\ x \in Nat /\ x < n * k
  <2>1. n * k \in Int /\ x \in Int
    OBVIOUS
  <2> QED
    BY <2>1
<1> HIDE DEF d
<1>2. ASSUME NEW r \in Int
      PROVE  d = r <=> x \in r * n .. r * n + n - 1
  <2>1. r * n = n * r /\ n * r \in Int /\ n * d \in Int
    BY <1>1
  <2>2. d = r => n * d = n * r
    OBVIOUS
  <2>3. d <= r - 1 => n * d + n <= n * r
    <3>1. n * (d + 1) = n * d + n
      BY <1>1
    <3>2. d + 1 <= r => n * (d + 1) <= n * r
      BY <1>1
    <3> QED
      BY <1>1, <3>1, <3>2
  <2>4. r + 1 <= d => n * r + n <= n * d
    <3>1. n * (r + 1) = n * r + n
      BY <1>1
    <3>2. r + 1 <= d => n * (r + 1) <= n * d
      BY <1>1
    <3> QED
      BY <1>1, <3>1, <3>2
  <2> QED
    BY <1>1, <2>1, <2>2, <2>3, <2>4
<1>3. 0 <= d
  <2>1. d + 1 <= 0 => n * (d + 1) <= 0
    BY <1>1
  <2>2. n * (d + 1) = n * d + n
    BY <1>1
  <2> QED
    BY <1>1, <2>1, <2>2
<1>4. d < k
  <2>1. k <= d => n * k <= n * d
    BY <1>1
  <2> QED
    BY <1>1, <2>1
<1> QED
  BY <1>1, <1>2, <1>3, <1>4 DEF d

\* Of two entries the larger lies on no earlier node.
LEMMA NodesGrow ==
  ASSUME NEW n \in Nat, n > 0, NEW x \in Nat, NEW y \in Nat, x < y
  PROVE  x \div n <= y \div n
<1> DEFINE d == x \div n
           e == y \div n
<1>1. d \in Int /\ n * d <= x /\ x < n * d + n /\ e \in Int /\ n * e <= y /\ y < n * e + n
  OBVIOUS
<1> HIDE DEF d, e
<1>2. e + 1 <= d => n * (e + 1) <= n * d
  BY <1>1
<1>3. n * (e + 1) = n * e + n
  BY <1>1
<1> QED
  BY <1>1, <1>2, <1>3 DEF d, e

\* A list of entries of the long vector in increasing order.
IndexList(s) ==
  /\ s \in Seq(0 .. N * Size - 1)
  /\ \A i, j \in 1 .. Len(s) : i < j => s[i] < s[j]

Nodes(s) == [p \in 0 .. Len(s) - 1 |-> s[p+1] \div N]

\* How many of its entries lie on the nodes before q.
Cut(s, q) == Cardinality(Below(Len(s), Nodes(s), q))

\* The entries on the nodes before q are the first ones, up to the cut.
LEMMA CutsAtNodes ==
  ASSUME NEW s, IndexList(s)
  PROVE  /\ Cut(s, 0) = 0 /\ Cut(s, Size) = Len(s)
         /\ \A q \in 0 .. Size : Cut(s, q) \in 0 .. Len(s)
         /\ \A q \in 0 .. Size-1 : Cut(s, q) <= Cut(s, q+1)
         /\ \A i \in 1 .. Len(s) : s[i] \in Nat /\ s[i] \div N \in 0 .. Size-1
         /\ \A q \in 0 .. Size : \A i \in 1 .. Len(s) : s[i] \div N < q <=> i <= Cut(s, q)
<1> DEFINE L == Len(s)
           D == 0 .. L-1
           g == Nodes(s)
           f == [p \in D |-> p]
<1>1. L \in Nat /\ s \in Seq(0 .. N * Size - 1)
  BY DEF IndexList
<1>2. \A i \in 1 .. L : s[i] \in 0 .. N * Size - 1 /\ s[i] \in Nat
  BY <1>1, GridSizes
<1>3. \A i \in 1 .. L : s[i] \div N \in 0 .. Size-1
  BY <1>2, NodeOfEntry, GridSizes
<1>4. \A i, j \in 1 .. L : i < j => s[i] \div N <= s[j] \div N
  BY <1>2, NodesGrow, GridSizes DEF IndexList
<1>5. \A p \in D : p + 1 \in 1 .. L /\ g[p] = s[p+1] \div N
  BY <1>1 DEF Nodes
<1>6. g \in [D -> Int]
  <2>1. g = [p \in D |-> g[p]]
    BY DEF Nodes
  <2>2. \A p \in D : g[p] \in Int
    BY <1>3, <1>5
  <2> QED
    BY <2>1, <2>2
<1>7. \A p, q \in D : p < q => g[f[p]] <= g[f[q]]
  BY <1>1, <1>4, <1>5
<1>8. \A q \in Int : /\ Cardinality(Below(L, g, q)) \in Nat
                     /\ \A p \in D : g[f[p]] < q <=> p < Cardinality(Below(L, g, q))
  <2>1. f \in [D -> D] /\ \A p, q \in D : f[p] = f[q] => p = q
    OBVIOUS
  <2> HIDE DEF g, f, L
  <2> QED
    BY <1>1, <1>6, <1>7, <2>1, SortedPlaces
<1>9. \A q \in Int : Cut(s, q) \in Nat /\ \A i \in 1 .. L : s[i] \div N < q <=> i <= Cut(s, q)
  <2> SUFFICES ASSUME NEW q \in Int
               PROVE  Cut(s, q) \in Nat /\ \A i \in 1 .. L : s[i] \div N < q <=> i <= Cut(s, q)
    OBVIOUS
  <2>1. Cut(s, q) \in Nat /\ \A p \in D : g[p] < q <=> p < Cut(s, q)
    BY <1>8 DEF Cut
  <2>2. ASSUME NEW i \in 1 .. L PROVE s[i] \div N < q <=> i <= Cut(s, q)
    <3>1. i - 1 \in D /\ (i - 1) + 1 = i
      BY <1>1
    <3>2. g[i - 1] = s[i] \div N
      BY <1>5, <3>1
    <3>3. g[i - 1] < q <=> i - 1 < Cut(s, q)
      BY <2>1, <3>1
    <3> QED
      BY <2>1, <3>1, <3>2, <3>3
  <2> QED
    BY <2>1, <2>2
<1>10. \A q \in Int : Cut(s, q) <= L
  <2> SUFFICES ASSUME NEW q \in Int PROVE Cut(s, q) <= L
    OBVIOUS
  <2>1. Below(L, g, q) \in SUBSET D
    BY DEF Below
  <2>2. IsFiniteSet(D) /\ Cardinality(D) = L
    <3>1. L \in Nat /\ L - 1 \in Int /\ 0 \in Int
      BY <1>1
    <3> HIDE DEF L
    <3> QED
      BY <3>1, FS_Interval
  <2> QED
    BY <2>1, <2>2, FS_Subset DEF Cut
<1>11. Cut(s, 0) = 0
  <2>1. \A i \in 1 .. L : ~ (s[i] \div N < 0)
    BY <1>3
  <2>2. Cut(s, 0) \in Nat /\ Cut(s, 0) <= L
    BY <1>9, <1>10
  <2>3. Cut(s, 0) \in 1 .. L => s[Cut(s, 0)] \div N < 0
    BY <1>9
  <2> QED
    BY <1>1, <2>1, <2>2, <2>3
<1>12. Cut(s, Size) = L
  <2>1. Size \in Int /\ Cut(s, Size) \in Nat /\ Cut(s, Size) <= L
    BY <1>9, <1>10, GridSizes
  <2>2. L \in 1 .. L => L <= Cut(s, Size)
    <3>1. L \in 1 .. L => s[L] \div N < Size
      BY <1>3, GridSizes
    <3> HIDE DEF L
    <3> QED
      BY <1>9, <2>1, <3>1
  <2> QED
    BY <1>1, <2>1, <2>2
<1>13. ASSUME NEW q \in 0 .. Size-1 PROVE Cut(s, q) <= Cut(s, q+1)
  <2>1. /\ q \in Int /\ q+1 \in Int /\ Cut(s, q) \in Nat /\ Cut(s, q+1) \in Nat /\ Cut(s, q) <= L
    <3>1. q \in Int /\ q+1 \in Int
      OBVIOUS
    <3> QED
      BY <1>9, <1>10, <3>1
  <2>2. ASSUME Cut(s, q) \in 1 .. L PROVE Cut(s, q) <= Cut(s, q+1)
    <3>1. s[Cut(s, q)] \div N < q
      <4> HIDE DEF L
      <4>1. Cut(s, q) <= Cut(s, q)
        BY <2>1
      <4> QED
        BY <1>9, <2>1, <2>2, <4>1
    <3>2. s[Cut(s, q)] \div N \in Int
      BY <1>3, <2>2
    <3>3. s[Cut(s, q)] \div N < q + 1
      BY <2>1, <3>1, <3>2
    <3> QED
      BY <1>9, <2>1, <2>2, <3>3
  <2> QED
    BY <1>1, <2>1, <2>2
<1>14. \A q \in 0 .. Size : q \in Int
  OBVIOUS
<1>15. \A q \in 0 .. Size : Cut(s, q) \in 0 .. L
  <2> HIDE DEF L
  <2> QED
    BY <1>1, <1>9, <1>10, <1>14
<1> QED
  BY <1>2, <1>3, <1>9, <1>11, <1>12, <1>13, <1>14, <1>15

(***************************************************************************)
(* The single pass counts the entries of every node.                       *)
(***************************************************************************)

First(d, g) == [x \in 1 .. g |-> d[x]]
Zeros(k) == [x \in 1 .. k |-> 0]

\* Of the first g sizes all after the one of node h are zeros.
ZerosAfter(n, d, h, g, c) ==
  /\ n \in Nat /\ d \in [1 .. n -> Nat] /\ h \in 0 .. n-1 /\ g \in 1 .. n /\ h < g
  /\ c \in Nat /\ c = d[h+1] /\ \A x \in h+2 .. g : d[x] = 0

\* An append and some zeros make the sizes up to node g out of those up to node h.
LEMMA FilledUp ==
  ASSUME NEW n, NEW d, NEW h, NEW g, NEW c, ZerosAfter(n, d, h, g, c)
  PROVE  Append(First(d, h), c) \o Zeros(g - h - 1) = First(d, g)
<1>0. /\ n \in Nat /\ d \in [1 .. n -> Nat] /\ h \in 0 .. n-1 /\ g \in 1 .. n /\ h < g
      /\ c \in Nat /\ c = d[h+1] /\ \A x \in h+2 .. g : d[x] = 0
  BY DEF ZerosAfter
<1> USE <1>0
<1> DEFINE f == Append(First(d, h), c)
           z == Zeros(g - h - 1)
           w == First(d, g)
<1>1. f \in Seq(Nat) /\ Len(f) = h + 1 /\ \A x \in 1 .. h + 1 : f[x] = d[x]
  <2> DEFINE b == First(d, h)
  <2>1. b \in Seq(Nat) /\ Len(b) = h /\ \A x \in 1 .. h : b[x] = d[x]
    BY DEF First
  <2> HIDE DEF b
  <2>2. /\ Append(b, c) \in Seq(Nat) /\ Len(Append(b, c)) = h + 1
        /\ \A x \in 1 .. h + 1 : Append(b, c)[x] = IF x <= h THEN b[x] ELSE c
    BY <2>1
  <2> QED
    BY <2>1, <2>2 DEF b
<1>2. z \in Seq(Nat) /\ Len(z) = g - h - 1 /\ \A x \in 1 .. g - h - 1 : z[x] = 0
  BY g - h - 1 \in Nat DEF Zeros
<1>3. w \in Seq(Nat) /\ Len(w) = g /\ \A x \in 1 .. g : w[x] = d[x]
  BY DEF First
<1> HIDE DEF f, z, w
<1>4. Len(w) = Len(f) + Len(z)
  BY <1>1, <1>2, <1>3
<1>5. \A k \in 1 .. Len(f) : w[k] = f[k]
  BY <1>1, <1>3
<1>6. ASSUME NEW k \in 1 .. Len(z) PROVE w[Len(f) + k] = z[k]
  <2>1. k \in 1 .. g - h - 1 /\ z[k] = 0
    BY <1>2
  <2>2. Len(f) + k \in h+2 .. g /\ Len(f) + k \in 1 .. g
    BY <1>1, <2>1
  <2> QED
    BY <1>3, <2>1, <2>2
<1>7. f \o z = w
  BY <1>1, <1>2, <1>3, <1>4, <1>5, <1>6, Continued
<1> QED
  BY <1>7 DEF f, z, w

\* One entry of the pass, and what is made of its end.
Counted(t, g) ==
  IF g = t.group THEN [t EXCEPT !.count = @ + 1]
  ELSE [group |-> g, count |-> 1,
        sizes |-> Append(t.sizes, t.count) \o Zeros(g - t.group - 1)]
CountedAll(s, c) ==
  [i \in 0 .. Len(s) |->
    IF i = 0 THEN [group |-> 0, count |-> 0, sizes |-> <<>>]
    ELSE Counted(c[i-1], s[i] \div N)]
AllNodes(t) == Append(t.sizes, t.count) \o Zeros(Size - t.group - 1)

LEMMA PassUnfolded ==
  \A s : RecvSizes(s)
    = [r \in Ranks |-> AllNodes((CHOOSE c : c = CountedAll(s, c))[Len(s)])[r + 1]]
  BY DEF RecvSizes, AllNodes, CountedAll, Counted, Zeros

\* As many entries as lie on each node, the first one counted as 1.
PerNode(s) == [x \in 1 .. Size |-> Cut(s, x) - Cut(s, x-1)]

\* The node of the last of the first i entries, and the pass after i entries.
LastNode(s, i) == IF i = 0 THEN 0 ELSE s[i] \div N
PassAfter(s, i) ==
  [group |-> LastNode(s, i), count |-> i - Cut(s, LastNode(s, i)),
   sizes |-> First(PerNode(s), LastNode(s, i))]

\* A node holds a natural number of entries, the last entry lies on a node.
LEMMA PerNodeTypes ==
  ASSUME NEW s, IndexList(s)
  PROVE  /\ PerNode(s) \in [1 .. Size -> Nat]
         /\ \A x \in 1 .. Size : PerNode(s)[x] = Cut(s, x) - Cut(s, x-1)
         /\ \A i \in 0 .. Len(s) : LastNode(s, i) \in 0 .. Size-1
<1>1. ASSUME NEW x \in 1 .. Size PROVE Cut(s, x) - Cut(s, x-1) \in Nat
  <2>1. x - 1 \in 0 .. Size-1 /\ (x-1) + 1 = x /\ x \in 0 .. Size /\ x-1 \in 0 .. Size
    BY GridSizes
  <2>2. Cut(s, x-1) <= Cut(s, x) /\ Cut(s, x-1) \in 0 .. Len(s) /\ Cut(s, x) \in 0 .. Len(s)
    BY <2>1, CutsAtNodes
  <2> QED
    BY <2>2
<1>2. \A i \in 0 .. Len(s) : LastNode(s, i) \in 0 .. Size-1
  <2> SUFFICES ASSUME NEW i \in 0 .. Len(s) PROVE LastNode(s, i) \in 0 .. Size-1
    OBVIOUS
  <2>1. CASE i = 0
    BY <2>1, GridSizes DEF LastNode
  <2>2. CASE i # 0
    <3>1. i \in 1 .. Len(s)
      BY <2>2
    <3> QED
      BY <2>2, <3>1, CutsAtNodes DEF LastNode
  <2> QED
    BY <2>1, <2>2
<1> QED
  BY <1>1, <1>2 DEF PerNode

LEMMA NextCount ==
  \A a, b, c : [[group |-> a, count |-> b, sizes |-> c] EXCEPT !.count = @ + 1]
                = [group |-> a, count |-> b + 1, sizes |-> c]
  OBVIOUS

\* One turn of the pass leads from the state after i - 1 entries to that after i.
LEMMA OneEntry ==
  ASSUME NEW s, IndexList(s), NEW i \in 1 .. Len(s)
  PROVE  Counted(PassAfter(s, i-1), s[i] \div N) = PassAfter(s, i)
<1> DEFINE h == LastNode(s, i-1)
           g == LastNode(s, i)
           d == PerNode(s)
           C(x) == Cut(s, x)
<1>1. Len(s) \in Nat /\ i \in Nat /\ i > 0 /\ i - 1 \in 0 .. Len(s) /\ i \in 0 .. Len(s)
  BY DEF IndexList
<1>2. h \in 0 .. Size-1 /\ g \in 0 .. Size-1 /\ g = s[i] \div N
  BY <1>1, PerNodeTypes DEF LastNode
<1>3. \A x \in 0 .. Size : C(x) \in Nat
  BY CutsAtNodes, <1>1
<1>4. \A x \in 0 .. Size : x <= g => C(x) <= i - 1
  <2> SUFFICES ASSUME NEW x \in 0 .. Size, x <= g PROVE C(x) <= i - 1
    OBVIOUS
  <2>1. s[i] \div N < x <=> i <= C(x)
    BY CutsAtNodes
  <2>2. ~ (g < x)
    BY <1>2
  <2> HIDE DEF g, C
  <2> QED
    BY <1>1, <1>2, <1>3, <2>1, <2>2
<1>5. \A x \in 0 .. Size : h < x => i - 1 <= C(x)
  <2> SUFFICES ASSUME NEW x \in 0 .. Size, h < x PROVE i - 1 <= C(x)
    OBVIOUS
  <2>1. CASE i - 1 = 0
    BY <1>3, <2>1
  <2>2. CASE i - 1 # 0
    <3>1. i - 1 \in 1 .. Len(s) /\ h = s[i-1] \div N
      BY <1>1, <2>2 DEF LastNode
    <3>2. s[i-1] \div N < x <=> i - 1 <= C(x)
      BY <3>1, CutsAtNodes
    <3> QED
      BY <3>1, <3>2
  <2> QED
    BY <2>1, <2>2
<1>6. h <= g
  <2>1. CASE i - 1 = 0
    <3>1. h = 0
      BY <2>1 DEF LastNode
    <3> HIDE DEF h, g
    <3> QED
      BY <1>2, <3>1
  <2>2. CASE i - 1 # 0
    <3>1. i - 1 \in 1 .. Len(s) /\ h = s[i-1] \div N /\ i - 1 < i
      BY <1>1, <2>2 DEF LastNode
    <3>2. s[i-1] < s[i] /\ s[i-1] \in Nat /\ s[i] \in Nat
      BY <3>1, CutsAtNodes DEF IndexList
    <3>3. s[i-1] \div N <= s[i] \div N
      BY <3>2, NodesGrow, GridSizes
    <3> QED
      BY <1>2, <3>1, <3>3
  <2> QED
    BY <2>1, <2>2
<1>7. d \in [1 .. Size -> Nat] /\ \A x \in 1 .. Size : d[x] = C(x) - C(x-1)
  BY PerNodeTypes
<1>8. /\ PassAfter(s, i-1) = [group |-> h, count |-> i - 1 - C(h), sizes |-> First(d, h)]
      /\ PassAfter(s, i) = [group |-> g, count |-> i - C(g), sizes |-> First(d, g)]
  BY DEF PassAfter
<1> HIDE DEF h, g, d, C
<1>9. CASE g = h
  <2>1. i - 1 - C(h) + 1 = i - C(g)
    <3>1. h \in 0 .. Size
      BY <1>2, GridSizes
    <3>2. C(h) \in Nat /\ C(g) = C(h)
      BY <1>3, <1>9, <3>1
    <3> QED
      BY <1>1, <3>2
  <2> DEFINE t == [group |-> h, count |-> i - 1 - C(h), sizes |-> First(d, h)]
  <2>2. Counted(t, g) = [t EXCEPT !.count = @ + 1]
    BY <1>9 DEF Counted
  <2>3. [t EXCEPT !.count = @ + 1]
          = [group |-> h, count |-> i - 1 - C(h) + 1, sizes |-> First(d, h)]
    BY NextCount
  <2> QED
    BY <1>2, <1>8, <1>9, <2>1, <2>2, <2>3
<1>10. CASE g # h
  <2>1. h < g /\ h + 1 \in 1 .. Size /\ g \in 1 .. Size /\ h \in 0 .. Size-1 /\ Size \in Nat
    BY <1>2, <1>6, <1>10, GridSizes
  <2>2. \A x \in h + 1 .. g : C(x) = i - 1
    <3> SUFFICES ASSUME NEW x \in h + 1 .. g PROVE C(x) = i - 1
      OBVIOUS
    <3>1. x \in 0 .. Size /\ x <= g /\ h < x
      BY <2>1
    <3>2. C(x) <= i - 1 /\ i - 1 <= C(x) /\ C(x) \in Nat
      BY <1>3, <1>4, <1>5, <3>1
    <3> QED
      BY <1>1, <3>2
  <2>3. i - 1 - C(h) = d[h + 1] /\ i - 1 - C(h) \in Nat
    <3>1. d[h + 1] = C(h + 1) - C(h)
      <4>1. (h + 1) - 1 = h
        BY <2>1
      <4> QED
        BY <1>7, <2>1, <4>1
    <3>2. C(h + 1) = i - 1
      BY <2>1, <2>2
    <3> QED
      BY <1>7, <2>1, <3>1, <3>2
  <2>4. \A x \in h + 2 .. g : d[x] = 0
    <3> SUFFICES ASSUME NEW x \in h + 2 .. g PROVE d[x] = 0
      OBVIOUS
    <3>1. x \in 1 .. Size /\ x \in h + 1 .. g /\ x - 1 \in h + 1 .. g
      BY <2>1
    <3>2. d[x] = C(x) - C(x-1) /\ C(x) = i - 1 /\ C(x-1) = i - 1
      BY <1>7, <2>2, <3>1
    <3> QED
      BY <1>1, <3>2
  <2> DEFINE c == i - 1 - C(h)
             t == [group |-> h, count |-> c, sizes |-> First(d, h)]
  <2>5. Append(First(d, h), c) \o Zeros(g - h - 1) = First(d, g)
    <3>1. c \in Nat /\ c = d[h + 1]
      BY <2>3
    <3> HIDE DEF c
    <3>2. ZerosAfter(Size, d, h, g, c)
      BY <1>7, <2>1, <2>4, <3>1 DEF ZerosAfter
    <3> QED
      BY ONLY <3>2, FilledUp
  <2>6. i - C(g) = 1
    <3>1. C(g) = i - 1
      BY <2>1, <2>2
    <3> QED
      BY <1>1, <3>1
  <2>7. Counted(t, g) = [group |-> g, count |-> 1,
                         sizes |-> Append(First(d, h), c) \o Zeros(g - h - 1)]
    BY <1>10 DEF Counted
  <2> QED
    BY <1>2, <1>8, <2>5, <2>6, <2>7
<1> QED
  BY <1>9, <1>10

\* The single pass of all_to_all_recv_sizes counts the entries of every node, those of
\* nodes without any and of the nodes behind the last one included.
LEMMA SizesCounted ==
  ASSUME NEW s, IndexList(s)
  PROVE  /\ RecvSizes(s) = [q \in Ranks |-> Cut(s, q+1) - Cut(s, q)]
         /\ RecvSizes(s) \in [Ranks -> Nat]
<1> DEFINE L == Len(s)
           d == PerNode(s)
           expected == [i \in 0 .. L |-> PassAfter(s, i)]
           chosen == CHOOSE c : c = CountedAll(s, c)
           g == LastNode(s, L)
           t == PassAfter(s, L)
<1>1. L \in Nat /\ L \in 0 .. L
  BY DEF IndexList
<1>2. PassAfter(s, 0) = [group |-> 0, count |-> 0, sizes |-> <<>>]
  <2>1. LastNode(s, 0) = 0 /\ Cut(s, 0) = 0 /\ First(d, 0) = <<>>
    BY CutsAtNodes DEF LastNode, First
  <2> QED
    BY <2>1 DEF PassAfter
<1>3. expected = CountedAll(s, expected)
  <2>1. ASSUME NEW i \in 0 .. L, i # 0
        PROVE  PassAfter(s, i) = Counted(expected[i-1], s[i] \div N)
    <3>1. i \in 1 .. L /\ i - 1 \in 0 .. L
      BY <1>1, <2>1
    <3>2. expected[i-1] = PassAfter(s, i-1)
      BY <3>1
    <3> QED
      BY <3>1, <3>2, OneEntry
  <2>2. \A i \in 0 .. L : expected[i] = PassAfter(s, i)
    OBVIOUS
  <2>3. expected = [i \in 0 .. L |-> expected[i]]
    OBVIOUS
  <2> HIDE DEF expected
  <2>4. \A i \in 0 .. L :
          expected[i] = IF i = 0 THEN [group |-> 0, count |-> 0, sizes |-> <<>>]
                        ELSE Counted(expected[i-1], s[i] \div N)
    BY <1>2, <2>1, <2>2
  <2> QED
    BY <2>3, <2>4 DEF CountedAll
<1> HIDE DEF expected
<1>4. chosen = CountedAll(s, chosen)
  BY <1>3
<1> HIDE DEF chosen
<1>5. chosen[0] = expected[0]
  <2>1. 0 \in 0 .. L
    BY <1>1
  <2> QED
    BY <1>3, <1>4, <2>1 DEF CountedAll
<1>6. ASSUME NEW i \in Nat, i + 1 <= L, chosen[i] = expected[i]
      PROVE  chosen[i+1] = expected[i+1]
  <2>1. i + 1 \in 0 .. L /\ i + 1 # 0 /\ (i + 1) - 1 = i
    BY <1>1, <1>6
  <2>2. /\ chosen[i+1] = Counted(chosen[i], s[i+1] \div N)
        /\ expected[i+1] = Counted(expected[i], s[i+1] \div N)
    BY <1>3, <1>4, <2>1 DEF CountedAll
  <2> QED
    BY <1>6, <2>2
<1>7. chosen[L] = expected[L]
  <2> DEFINE T == {i \in Nat : i <= L => chosen[i] = expected[i]}
  <2>1. 0 \in T
    BY <1>5
  <2>2. \A i \in Nat : i \in T => i + 1 \in T
    BY <1>1, <1>6
  <2> HIDE DEF T
  <2>3. L \in T
    BY <1>1, <2>1, <2>2, Induction
  <2> QED
    BY <1>1, <2>3 DEF T
<1>8. expected[L] = t
  BY <1>1 DEF expected
<1>9. AllNodes(t) = d
  <2>1. /\ d \in [1 .. Size -> Nat] /\ g \in 0 .. Size-1
        /\ \A x \in 1 .. Size : d[x] = Cut(s, x) - Cut(s, x-1)
    BY <1>1, PerNodeTypes
  <2>2. /\ Size \in Nat /\ Size \in 1 .. Size /\ g < Size
    BY <2>1, GridSizes
  <2>3. \A x \in g + 1 .. Size : Cut(s, x) = L
    <3> SUFFICES ASSUME NEW x \in g + 1 .. Size PROVE Cut(s, x) = L
      OBVIOUS
    <3>1. x \in 0 .. Size /\ g < x
      BY <2>1, <2>2
    <3>2. Cut(s, x) \in 0 .. L
      BY <3>1, CutsAtNodes
    <3>3. L # 0 => L <= Cut(s, x)
      <4>1. L # 0 => L \in 1 .. L /\ g = s[L] \div N
        BY <1>1 DEF LastNode
      <4> QED
        BY <3>1, <4>1, CutsAtNodes
    <3> QED
      BY <1>1, <3>2, <3>3
  <2> DEFINE c == L - Cut(s, g)
  <2>4. c \in Nat /\ c = d[g + 1]
    <3>1. g + 1 \in 1 .. Size /\ (g + 1) - 1 = g /\ g + 1 \in g + 1 .. Size
      BY <2>1, <2>2
    <3>2. d[g + 1] = Cut(s, g + 1) - Cut(s, g) /\ Cut(s, g + 1) = L
      BY <2>1, <2>3, <3>1
    <3>3. d[g + 1] \in Nat
      BY <2>1, <3>1
    <3> QED
      BY <3>2, <3>3
  <2>5. \A x \in g + 2 .. Size : d[x] = 0
    <3> SUFFICES ASSUME NEW x \in g + 2 .. Size PROVE d[x] = 0
      OBVIOUS
    <3>1. x \in 1 .. Size /\ x \in g + 1 .. Size /\ x - 1 \in g + 1 .. Size
      <4>1. g \in Nat /\ Size \in Nat
        BY <2>1, <2>2
      <4> QED
        BY ONLY <4>1
    <3>2. d[x] = Cut(s, x) - Cut(s, x-1) /\ Cut(s, x) = L /\ Cut(s, x-1) = L
      BY <2>1, <2>3, <3>1
    <3> QED
      BY <1>1, <3>2
  <2>6. t = [group |-> g, count |-> c, sizes |-> First(d, g)]
    BY DEF PassAfter
  <2>7. AllNodes(t) = Append(First(d, g), c) \o Zeros(Size - g - 1)
    BY <2>6 DEF AllNodes
  <2> HIDE DEF c, g, t, d
  <2>8. AllNodes(t) = First(d, Size)
    <3>1. ZerosAfter(Size, d, g, Size, c)
      BY <2>1, <2>2, <2>4, <2>5 DEF ZerosAfter
    <3>2. Append(First(d, g), c) \o Zeros(Size - g - 1) = First(d, Size)
      BY ONLY <3>1, FilledUp
    <3> QED
      BY <2>7, <3>2
  <2>9. First(d, Size) = d
    BY <2>1 DEF First
  <2> QED
    BY <2>8, <2>9
<1>10. RecvSizes(s) = [q \in Ranks |-> d[q + 1]]
  BY <1>7, <1>8, <1>9, PassUnfolded DEF chosen
<1>11. ASSUME NEW q \in Ranks
       PROVE  d[q + 1] = Cut(s, q+1) - Cut(s, q) /\ d[q + 1] \in Nat
  <2>1. q + 1 \in 1 .. Size /\ (q + 1) - 1 = q
    BY GridSizes
  <2> QED
    BY <2>1, PerNodeTypes
<1> QED
  BY <1>10, <1>11

(***************************************************************************)
(* What the collective exchanges deliver.                                  *)
(***************************************************************************)

\* The node of an entry is computed from the width of the grids, so that the grids have
\* to be square (operators.h:588).
Square == ftsizeu = ftsizev

\* The columns of a matrix are such a list, which names every stored entry.
LEMMA ListOfColumns ==
  ASSUME Square, NEW m \in Patterns
  PROVE  /\ SparseMatrix(m) /\ IndexList(non_empty_outers(m))
         /\ m \in [DOMAIN m -> SUBSET Nat]
         /\ \A k \in DOMAIN m : \A c \in m[k] :
              \E i \in 1 .. Len(non_empty_outers(m)) : non_empty_outers(m)[i] = c
<1> DEFINE S == UNION {m[k] : k \in DOMAIN m}
           Long == 0 .. N * Size - 1
<1>1. m \in [DOMAIN m -> SUBSET Long]
  <2>1. ftsizeu * ftsizev * Size = N * Size
    BY DEF Square, N
  <2> QED
    BY <2>1, PatternsAssumption
<1>2. IsFiniteSet(Long) /\ Long \subseteq Nat
  <2> DEFINE n == N * Size
  <2>1. n \in Nat
    BY GridSizes
  <2> HIDE DEF n
  <2>2. IsFiniteSet(0 .. n - 1) /\ 0 .. n - 1 \subseteq Nat
    BY <2>1, FS_Interval
  <2> QED
    BY <2>2 DEF n
<1> HIDE DEF Long
<1>3. S \subseteq Long
  BY <1>1
<1>4. IsFiniteSet(S) /\ S \subseteq Nat /\ S \subseteq Int
  <2> HIDE DEF S
  <2>1. S \in SUBSET Long
    BY <1>3
  <2>2. IsFiniteSet(S)
    BY ONLY <1>2, <2>1, FS_Subset
  <2> QED
    BY <1>2, <1>3, <2>2
<1>5. SparseMatrix(m)
  BY <1>1, <1>2, <1>4 DEF SparseMatrix
<1>6. non_empty_outers(m) = Ordered(S)
  BY DEF non_empty_outers
<1>7. m \in [DOMAIN m -> SUBSET Nat]
  BY <1>1, <1>2
<1>8. \A k \in DOMAIN m : \A c \in m[k] : c \in S
  OBVIOUS
<1> HIDE DEF S
<1>9. /\ Ordered(S) \in Seq(S) /\ Len(Ordered(S)) = Cardinality(S)
      /\ \A i, j \in 1 .. Cardinality(S) : i < j => Ordered(S)[i] < Ordered(S)[j]
      /\ \A x \in S : \E i \in 1 .. Cardinality(S) : Ordered(S)[i] = x
  BY <1>4, OrderedEnumerates
<1>10. Ordered(S) \in Seq(Long)
  BY <1>3, <1>9, SeqMonotonic
<1> QED
  BY <1>5, <1>6, <1>7, <1>8, <1>9, <1>10 DEF IndexList, Long

\* The sums over the sizes of a rank are the places where its list is cut.
LEMMA BeforeIsCut ==
  ASSUME NEW s, IndexList(s)
  PROVE  /\ \A q \in 0 .. Size : Before(RecvSizes(s), q) = Cut(s, q)
         /\ \A q \in Ranks : /\ RecvSizes(s)[q] = Cut(s, q+1) - Cut(s, q)
                             /\ Cut(s, q) + RecvSizes(s)[q] <= Len(s)
<1> DEFINE f == RecvSizes(s)
           T == {q \in Nat : q <= Size => SumUpto(f, q) = Cut(s, q)}
<1>1. Size \in Nat /\ Ranks = 0 .. Size-1 /\ \A q \in 0 .. Size-1 : f[q] \in Nat
  BY GridSizes, SizesCounted
<1>2. \A q \in Ranks : f[q] = Cut(s, q+1) - Cut(s, q)
  BY SizesCounted
<1>3. \A q \in 0 .. Size : Cut(s, q) \in Nat /\ Cut(s, q) <= Len(s)
  BY CutsAtNodes DEF IndexList
<1>4. Cut(s, 0) = 0
  BY CutsAtNodes
<1> HIDE DEF f
<1>5. SumUpto(f, 0) = 0 /\ \A k \in 0 .. Size-1 : SumUpto(f, k+1) = SumUpto(f, k) + f[k]
  BY <1>1, SumGrows
<1>6. 0 \in T
  BY <1>4, <1>5
<1>7. \A q \in Nat : q \in T => q + 1 \in T
  <2> SUFFICES ASSUME NEW q \in Nat, q \in T, q + 1 <= Size PROVE SumUpto(f, q+1) = Cut(s, q+1)
    OBVIOUS
  <2>1. q \in 0 .. Size-1 /\ q \in 0 .. Size /\ q + 1 \in 0 .. Size /\ SumUpto(f, q) = Cut(s, q)
    BY <1>1
  <2>2. SumUpto(f, q+1) = SumUpto(f, q) + f[q] /\ f[q] = Cut(s, q+1) - Cut(s, q)
    BY <1>1, <1>2, <1>5, <2>1
  <2>3. Cut(s, q) \in Nat /\ Cut(s, q+1) \in Nat
    BY <1>3, <2>1
  <2> QED
    BY <2>1, <2>2, <2>3
<1> HIDE DEF T
<1>8. \A q \in Nat : q \in T
  BY <1>6, <1>7, Induction
<1>9. \A q \in 0 .. Size : SumUpto(f, q) = Cut(s, q)
  BY <1>1, <1>8 DEF T
<1>10. ASSUME NEW q \in Ranks PROVE Cut(s, q) + f[q] <= Len(s)
  <2>1. q \in 0 .. Size /\ q + 1 \in 0 .. Size
    BY <1>1
  <2> QED
    BY <1>2, <1>3, <2>1
<1> QED
  BY <1>2, <1>9, <1>10 DEF SumUpto, Before, f

\* What every rank cuts out of its data for rank r.
Pieces(data, sizes, r) ==
  [q \in Ranks |-> SubSeq(data[q], Before(sizes[q], r) + 1, Before(sizes[q], r) + sizes[q][r])]

\* How much rank r gets from every rank.
Amounts(sizes, r) == [q \in Ranks |-> sizes[q][r]]

LEMMA Retyped ==
  ASSUME NEW S, NEW T, NEW w \in Seq(S), \A i \in 1 .. Len(w) : w[i] \in T
  PROVE  w \in Seq(T)
<1>1. w = [i \in 1 .. Len(w) |-> w[i]] /\ Len(w) \in Nat
  OBVIOUS
<1> DEFINE n == Len(w)
<1>2. w = [i \in 1 .. n |-> w[i]] /\ n \in Nat /\ \A i \in 1 .. n : w[i] \in T
  BY <1>1
<1> HIDE DEF n
<1>3. [i \in 1 .. n |-> w[i]] \in Seq(T)
  BY ONLY <1>2, IsASeq
<1> QED
  BY <1>2, <1>3

\* What every rank has for rank r is there to be cut out.
Cuttable(S, data, sizes, r) ==
  \A q \in Ranks : /\ data[q] \in Seq(S)
                   /\ sizes[q][r] \in Nat /\ Before(sizes[q], r) \in Nat
                   /\ Before(sizes[q], r) + sizes[q][r] <= Len(data[q])

\* w is what rank r gets: the pieces of all ranks, one after the other.
Delivers(data, sizes, r, w) ==
  /\ Len(w) = SumUpto(Amounts(sizes, r), Size)
  /\ \A q \in Ranks : \A j \in 1 .. sizes[q][r] :
       /\ SumUpto(Amounts(sizes, r), q) + j \in 1 .. Len(w)
       /\ w[SumUpto(Amounts(sizes, r), q) + j] = data[q][Before(sizes[q], r) + j]
  /\ \A i \in 1 .. Len(w) :
       \E q \in Ranks : \E j \in 1 .. sizes[q][r] : i = SumUpto(Amounts(sizes, r), q) + j

\* What rank r receives has the pieces of all ranks at the sums of their sizes.
LEMMA Received ==
  ASSUME NEW S, NEW data, NEW sizes, NEW r \in Ranks, Cuttable(S, data, sizes, r),
         NEW c, c = Appended(Size, Pieces(data, sizes, r), c)
  PROVE  c[Size-1] \in Seq(S) /\ Delivers(data, sizes, r, c[Size-1])
<1> DEFINE p == Pieces(data, sizes, r)
           f == Amounts(sizes, r)
           offset == [k \in 0 .. Size |-> SumUpto(f, k)]
<1>1. Size \in Nat /\ Size > 0 /\ Ranks = 0 .. Size-1
  BY GridSizes
<1>2. ASSUME NEW q \in Ranks
      PROVE  /\ p[q] \in Seq(S) /\ Len(p[q]) = f[q] /\ f[q] = sizes[q][r] /\ f[q] \in Nat
             /\ \A j \in 1 .. sizes[q][r] : p[q][j] = data[q][Before(sizes[q], r) + j]
  <2> DEFINE d == data[q]
             b == Before(sizes[q], r)
             n == sizes[q][r]
  <2>1. d \in Seq(S) /\ b \in Nat /\ n \in Nat /\ b + n <= Len(d)
    BY DEF Cuttable
  <2>2. p[q] = SubSeq(d, b + 1, b + n) /\ f[q] = n
    BY DEF Pieces, Amounts
  <2> HIDE DEF d, b, n, p, f
  <2>3. /\ SubSeq(d, b + 1, b + n) \in Seq(S) /\ Len(SubSeq(d, b + 1, b + n)) = n
        /\ \A j \in 1 .. n : SubSeq(d, b + 1, b + n)[j] = d[b + j]
    BY <2>1, CutOut
  <2> QED
    BY <2>1, <2>2, <2>3 DEF d, b, n
<1> HIDE DEF p, f
<1>3. /\ SumUpto(f, 0) = 0 /\ \A k \in 0 .. Size : SumUpto(f, k) \in Nat
      /\ \A k \in 0 .. Size-1 : SumUpto(f, k+1) = SumUpto(f, k) + f[k]
  <2>1. \A q \in 0 .. Size-1 : f[q] \in Nat
    BY <1>1, <1>2
  <2> QED
    BY ONLY <1>1, <2>1, SumGrows
<1>4. /\ \A k \in 0 .. Size : offset[k] = SumUpto(f, k)
      /\ \A k \in 0 .. Size : offset[k] \in Nat
      /\ offset[0] = 0
      /\ \A k \in 0 .. Size-1 : offset[k+1] = offset[k] + Len(p[k])
  <2>1. \A k \in 0 .. Size : offset[k] = SumUpto(f, k)
    OBVIOUS
  <2> HIDE DEF offset
  <2>2. \A k \in 0 .. Size-1 : k \in 0 .. Size /\ k + 1 \in 0 .. Size
    BY <1>1
  <2>3. ASSUME NEW k \in 0 .. Size-1 PROVE offset[k+1] = offset[k] + Len(p[k])
    <3>1. k \in Ranks
      BY <1>1
    <3>2. Len(p[k]) = f[k] /\ SumUpto(f, k+1) = SumUpto(f, k) + f[k]
      BY <1>2, <1>3, <3>1
    <3> QED
      BY <2>1, <2>2, <3>2
  <2>4. 0 \in 0 .. Size
    BY <1>1
  <2> QED
    BY <1>3, <2>1, <2>3, <2>4
<1> HIDE DEF offset
<1>5. AreOffsets(Size, p, offset) /\ \A q \in 0 .. Size-1 : p[q] \in Seq(S)
  BY <1>1, <1>2, <1>4 DEF AreOffsets
<1>6. c = Appended(Size, p, c)
  BY DEF p
<1> DEFINE w == c[Size-1]
<1>7. w \in Seq(S) /\ InPlace(Size, p, offset, w)
  BY ONLY <1>1, <1>5, <1>6, PiecesInPlace
<1>8. \A q \in Ranks : offset[q] = SumUpto(f, q)
  BY <1>1, <1>4
<1>9. offset[Size] = SumUpto(f, Size)
  BY <1>1, <1>4
<1> HIDE DEF w
<1>10. Len(w) = SumUpto(f, Size)
  BY <1>7, <1>9 DEF InPlace
<1>11. ASSUME NEW q \in Ranks, NEW j \in 1 .. sizes[q][r]
       PROVE  /\ SumUpto(f, q) + j \in 1 .. Len(w)
              /\ w[SumUpto(f, q) + j] = data[q][Before(sizes[q], r) + j]
  <2>1. j \in 1 .. Len(p[q]) /\ q \in 0 .. Size-1
    BY <1>1, <1>2
  <2>2. offset[q] + j \in 1 .. offset[Size] /\ w[offset[q] + j] = p[q][j]
    BY <1>7, <2>1 DEF InPlace
  <2> QED
    BY <1>2, <1>8, <1>9, <1>10, <2>2
<1>12. ASSUME NEW i \in 1 .. Len(w)
       PROVE  \E q \in Ranks : \E j \in 1 .. sizes[q][r] : i = SumUpto(f, q) + j
  <2>1. PICK q \in 0 .. Size-1 : \E j \in 1 .. Len(p[q]) : i = offset[q] + j
    BY <1>7, <1>9, <1>10 DEF InPlace
  <2>2. q \in Ranks /\ Len(p[q]) = sizes[q][r] /\ offset[q] = SumUpto(f, q)
    BY <1>1, <1>2, <1>8
  <2> QED
    BY <2>1, <2>2
<1> QED
  BY <1>7, <1>10, <1>11, <1>12 DEF f, w, Delivers

\* The ordered columns of a rank, and how many entries every rank asks rank r for.
Columns(m) == non_empty_outers(m)
Asked(mx, r) == [q \in Ranks |-> RecvSizes(Columns(mx[q]))[r]]

\* mp lists, rank after rank, the columns that lie on the grid of rank r.
Mapped(mx, r, mp) ==
  /\ mp \in Seq(r * N .. r * N + N - 1)
  /\ Len(mp) = SumUpto(Asked(mx, r), Size)
  /\ \A q \in Ranks : \A j \in 1 .. Asked(mx, r)[q] :
       /\ SumUpto(Asked(mx, r), q) + j \in 1 .. Len(mp)
       /\ mp[SumUpto(Asked(mx, r), q) + j] = Columns(mx[q])[Cut(Columns(mx[q]), r) + j]
  /\ \A i \in 1 .. Len(mp) :
       \E q \in Ranks : \E j \in 1 .. Asked(mx, r)[q] : i = SumUpto(Asked(mx, r), q) + j

\* The columns of a rank between two cuts are those that lie on the node.
LEMMA ColumnsOnNode ==
  ASSUME Square, NEW m \in Patterns, NEW r \in Ranks
  PROVE  /\ IndexList(Columns(m)) /\ r \in 0 .. Size /\ r + 1 \in 0 .. Size
         /\ RecvSizes(Columns(m))[r] \in Nat /\ Cut(Columns(m), r) \in Nat
         /\ Before(RecvSizes(Columns(m)), r) = Cut(Columns(m), r)
         /\ Cut(Columns(m), r) + RecvSizes(Columns(m))[r] <= Len(Columns(m))
         /\ \A i \in 1 .. Len(Columns(m)) :
              Columns(m)[i] \in r * N .. r * N + N - 1
                <=> \E j \in 1 .. RecvSizes(Columns(m))[r] : i = Cut(Columns(m), r) + j
<1> DEFINE I == Columns(m)
           a == Cut(I, r)
           b == Cut(I, r+1)
           n == RecvSizes(I)[r]
<1>1. IndexList(I)
  BY ListOfColumns DEF Columns
<1>2. Size \in Nat /\ r \in 0 .. Size-1 /\ r \in 0 .. Size /\ r + 1 \in 0 .. Size /\ r \in Int
      /\ N \in Nat /\ N > 0 /\ Ranks = 0 .. Size-1
  BY GridSizes
<1> HIDE DEF I
<1>3. a \in 0 .. Len(I) /\ b \in 0 .. Len(I) /\ Len(I) \in Nat
  BY <1>1, <1>2, CutsAtNodes DEF IndexList
<1>4. n = b - a /\ n \in Nat /\ Before(RecvSizes(I), r) = a /\ a + n <= Len(I)
  BY <1>1, <1>2, BeforeIsCut, SizesCounted
<1>5. ASSUME NEW i \in 1 .. Len(I)
      PROVE  I[i] \in r * N .. r * N + N - 1 <=> \E j \in 1 .. n : i = a + j
  <2> DEFINE x == I[i]
  <2>1. x \in 0 .. N * Size - 1 /\ x \div N \in 0 .. Size-1
        /\ (x \div N < r <=> i <= a) /\ (x \div N < r + 1 <=> i <= b)
    <3>1. I \in Seq(0 .. N * Size - 1)
      BY <1>1 DEF IndexList
    <3>2. x \in 0 .. N * Size - 1
      <4> DEFINE T == 0 .. N * Size - 1
      <4> HIDE DEF T
      <4>1. I \in Seq(T)
        BY <3>1 DEF T
      <4>2. x \in T
        BY <4>1
      <4> QED
        BY <4>2 DEF T
    <3>3. x \div N \in 0 .. Size-1
      BY <1>1, CutsAtNodes
    <3>4. (x \div N < r <=> i <= a) /\ (x \div N < r + 1 <=> i <= b)
      BY <1>1, <1>2, CutsAtNodes
    <3> QED
      BY <3>2, <3>3, <3>4
  <2>2. x \div N = r <=> x \in r * N .. r * N + N - 1
    BY <1>2, <2>1, NodeOfEntry
  <2> HIDE DEF x, a, b, n
  <2>3. x \div N = r <=> (~ (i <= a) /\ i <= b)
    <3> DEFINE d == x \div N
    <3>1. d \in 0 .. Size-1 /\ (d < r <=> i <= a) /\ (d < r + 1 <=> i <= b)
      BY <2>1
    <3> HIDE DEF d
    <3>2. d = r <=> (~ (d < r) /\ d < r + 1)
      BY <1>2, <3>1
    <3> QED
      BY <3>1, <3>2 DEF d
  <2>4. (~ (i <= a) /\ i <= b) => i - a \in 1 .. n /\ i = a + (i - a)
    BY <1>3, <1>4
  <2>5. \A j \in 1 .. n : i = a + j => ~ (i <= a) /\ i <= b
    BY <1>3, <1>4
  <2> QED
    BY <2>2, <2>3, <2>4, <2>5 DEF x
<1> QED
  BY <1>1, <1>2, <1>3, <1>4, <1>5 DEF I

\* The exchange of the indices leaves every rank the map of what it is asked for.
LEMMA MapsDelivered ==
  ASSUME Square, NEW mx \in [Ranks -> Patterns], NEW r \in Ranks,
         NEW data, \A q \in Ranks : data[q] = Columns(mx[q]),
         NEW sizes, \A q \in Ranks : sizes[q] = RecvSizes(Columns(mx[q])),
         NEW c, c = Appended(Size, Pieces(data, sizes, r), c)
  PROVE  Mapped(mx, r, c[Size-1])
<1> DEFINE S == 0 .. N * Size - 1
           w == c[Size-1]
           f == Asked(mx, r)
           Own == r * N .. r * N + N - 1
<1>1. ASSUME NEW q \in Ranks
      PROVE  /\ data[q] \in Seq(S) /\ data[q] = Columns(mx[q])
             /\ sizes[q][r] \in Nat /\ f[q] = sizes[q][r]
             /\ Before(sizes[q], r) \in Nat /\ Before(sizes[q], r) = Cut(Columns(mx[q]), r)
             /\ Before(sizes[q], r) + sizes[q][r] <= Len(data[q])
             /\ \A j \in 1 .. sizes[q][r] : data[q][Before(sizes[q], r) + j] \in Own
  <2> DEFINE m == mx[q]
             I == Columns(m)
  <2>1. m \in Patterns /\ data[q] = I /\ sizes[q] = RecvSizes(I)
    OBVIOUS
  <2>2. f[q] = RecvSizes(I)[r]
    BY DEF Asked
  <2> HIDE DEF m, S, f
  <2>3. /\ IndexList(I) /\ RecvSizes(I)[r] \in Nat /\ Cut(I, r) \in Nat
        /\ Before(RecvSizes(I), r) = Cut(I, r) /\ Cut(I, r) + RecvSizes(I)[r] <= Len(I)
        /\ \A i \in 1 .. Len(I) :
             I[i] \in Own <=> \E j \in 1 .. RecvSizes(I)[r] : i = Cut(I, r) + j
    BY <2>1, ColumnsOnNode
  <2> HIDE DEF I, Own
  <2>4. I \in Seq(S) /\ Len(I) \in Nat
    BY <2>3 DEF IndexList, S
  <2>5. ASSUME NEW j \in 1 .. RecvSizes(I)[r] PROVE I[Cut(I, r) + j] \in Own
    <3>1. Cut(I, r) + j \in 1 .. Len(I)
      BY <2>3, <2>4
    <3> QED
      BY <2>3, <3>1
  <2> QED
    BY <2>1, <2>2, <2>3, <2>4, <2>5 DEF I, m
<1> HIDE DEF S, f, Own
<1>2. w \in Seq(S) /\ Delivers(data, sizes, r, w)
  <2>1. Cuttable(S, data, sizes, r)
    BY <1>1 DEF Cuttable
  <2> QED
    BY <2>1, Received
<1>3. Amounts(sizes, r) = f
  <2>1. f = [q \in Ranks |-> f[q]]
    BY DEF f, Asked
  <2> QED
    BY <1>1, <2>1 DEF Amounts
<1> HIDE DEF w
<1>4. ASSUME NEW i \in 1 .. Len(w) PROVE w[i] \in Own
  <2>1. PICK q \in Ranks : \E j \in 1 .. sizes[q][r] : i = SumUpto(f, q) + j
    BY <1>2, <1>3 DEF Delivers
  <2>2. PICK j \in 1 .. sizes[q][r] : i = SumUpto(f, q) + j
    BY <2>1
  <2> QED
    BY <1>1, <1>2, <1>3, <2>2 DEF Delivers
<1>5. w \in Seq(Own)
  BY <1>2, <1>4, Retyped
<1>6. Len(w) = SumUpto(f, Size)
  BY <1>2, <1>3 DEF Delivers
<1>7. ASSUME NEW q \in Ranks, NEW j \in 1 .. f[q]
      PROVE  /\ SumUpto(f, q) + j \in 1 .. Len(w)
             /\ w[SumUpto(f, q) + j] = Columns(mx[q])[Cut(Columns(mx[q]), r) + j]
  <2>1. j \in 1 .. sizes[q][r]
    BY <1>1
  <2>2. /\ SumUpto(f, q) + j \in 1 .. Len(w)
        /\ w[SumUpto(f, q) + j] = data[q][Before(sizes[q], r) + j]
    BY <1>2, <1>3, <2>1 DEF Delivers
  <2> QED
    BY <1>1, <2>2
<1>8. ASSUME NEW i \in 1 .. Len(w)
      PROVE  \E q \in Ranks : \E j \in 1 .. f[q] : i = SumUpto(f, q) + j
  BY <1>1, <1>2, <1>3 DEF Delivers
<1> QED
  BY <1>5, <1>6, <1>7, <1>8 DEF Mapped, w, f, Own

\* The entries of the long vector at a list of indices.
Entries(mp) == [i \in DOMAIN mp |-> {mp[i]}]

\* The entries sent along these maps, times the compressed matrix, are the full product.
LEMMA EntriesDelivered ==
  ASSUME Square, NEW mx \in [Ranks -> Patterns], NEW r \in Ranks,
         NEW maps, \A q \in Ranks : Mapped(mx, q, maps[q]),
         NEW data, \A q \in Ranks : data[q] = Entries(maps[q]),
         NEW sizes, \A q \in Ranks : sizes[q] = Asked(mx, q),
         NEW c, c = Appended(Size, Pieces(data, sizes, r), c)
  PROVE  Multiply(compress_outer(mx[r]), c[Size-1]) = mx[r]
<1> DEFINE m == mx[r]
           I == Columns(m)
           w == c[Size-1]
           L == Len(I)
           s == RecvSizes(I)
<1>1. m \in Patterns /\ Size \in Nat /\ Ranks = 0 .. Size-1 /\ r \in 0 .. Size
  BY GridSizes
<1>2. /\ IndexList(I) /\ m \in [DOMAIN m -> SUBSET Nat]
      /\ \A k \in DOMAIN m : \A x \in m[k] : \E i \in 1 .. L : I[i] = x
  BY <1>1, ListOfColumns DEF Columns
<1> HIDE DEF I, m
<1>3. ASSUME NEW q \in Ranks
      PROVE  /\ data[q] \in Seq(SUBSET Int) /\ sizes[q][r] \in Nat /\ sizes[q][r] = s[q]
             /\ Before(sizes[q], r) \in Nat /\ Before(sizes[q], r) = SumUpto(sizes[q], r)
             /\ Before(sizes[q], r) + sizes[q][r] <= Len(data[q])
             /\ \A j \in 1 .. s[q] :
                  data[q][Before(sizes[q], r) + j] = {I[Cut(I, q) + j]}
  <2> DEFINE mp == maps[q]
             f == Asked(mx, q)
             d == data[q]
             T == q * N .. q * N + N - 1
  <2>1. Mapped(mx, q, mp) /\ d = [i \in DOMAIN mp |-> {mp[i]}] /\ sizes[q] = f
    BY DEF Entries
  <2>2. f[r] = s[q] /\ \A p \in Ranks : f[p] = RecvSizes(Columns(mx[p]))[q]
    BY DEF Asked, I, m
  <2>3. \A p \in 0 .. Size-1 : f[p] \in Nat
    <3> SUFFICES ASSUME NEW p \in Ranks PROVE f[p] \in Nat
      BY <1>1
    <3>1. mx[p] \in Patterns
      OBVIOUS
    <3> QED
      BY <2>2, <3>1, ColumnsOnNode
  <2> HIDE DEF f
  <2>4. \A k \in 0 .. Size : SumUpto(f, k) \in Nat
    BY ONLY <1>1, <2>3, SumGrows
  <2>5. /\ mp \in Seq(T) /\ Len(mp) = SumUpto(f, Size)
        /\ \A j \in 1 .. s[q] : /\ SumUpto(f, r) + j \in 1 .. Len(mp)
                               /\ mp[SumUpto(f, r) + j] = I[Cut(I, q) + j]
    BY <2>1, <2>2 DEF Mapped, f, I, m
  <2> HIDE DEF T, mp, s, d
  <2>6. SumUpto(f, r) \in Nat /\ s[q] \in Nat /\ Len(mp) \in Nat
    <3>1. SumUpto(f, r) \in Nat
      BY <1>1, <2>4
    <3>2. s[q] \in Nat
      BY <1>1, <2>2, <2>3
    <3> QED
      BY <2>5, <3>1, <3>2
  <2>7. SumUpto(f, r) + s[q] <= Len(mp)
    <3>1. r \in 0 .. Size-1
      BY <1>1
    <3>2. SumUpto(f, r) + f[r] <= SumUpto(f, Size)
      BY ONLY <1>1, <2>3, <3>1, SumsOrdered
    <3> QED
      BY <2>2, <2>5, <3>2
  <2>8. Before(f, r) = SumUpto(f, r)
    BY DEF Before, SumUpto
  <2>9. d \in Seq(SUBSET Int) /\ Len(d) = Len(mp) /\ \A i \in 1 .. Len(mp) : d[i] = {mp[i]}
    <3> DEFINE n == Len(mp)
    <3>1. T \subseteq Int
      BY DEF T
    <3>2. n \in Nat /\ DOMAIN mp = 1 .. n /\ \A i \in 1 .. n : {mp[i]} \in SUBSET Int
      <4>1. mp \in Seq(T)
        BY <2>5
      <4>2. n \in Nat /\ DOMAIN mp = 1 .. n /\ \A i \in 1 .. n : mp[i] \in T
        BY ONLY <4>1
      <4> QED
        BY ONLY <3>1, <4>2
    <3> HIDE DEF n
    <3>3. d = [i \in 1 .. n |-> {mp[i]}]
      BY <2>1, <3>2
    <3>4. [i \in 1 .. n |-> {mp[i]}] \in Seq(SUBSET Int)
      BY ONLY <3>2, IsASeq
    <3> QED
      BY <3>2, <3>3, <3>4 DEF n
  <2> QED
    BY <2>1, <2>2, <2>5, <2>6, <2>7, <2>8, <2>9 DEF d, mp
<1>4. w \in Seq(SUBSET Int) /\ Delivers(data, sizes, r, w)
  <2>1. Cuttable(SUBSET Int, data, sizes, r)
    BY <1>3 DEF Cuttable
  <2> QED
    BY <2>1, Received
<1>5. \A q \in Ranks : Amounts(sizes, r)[q] = s[q]
  BY <1>3 DEF Amounts
<1>6. \A q \in 0 .. Size : SumUpto(Amounts(sizes, r), q) = Cut(I, q)
  <2>1. s = [q \in Ranks |-> s[q]]
    BY <1>2, SizesCounted
  <2>2. Amounts(sizes, r) = s
    BY <1>3, <2>1 DEF Amounts
  <2>3. \A q \in 0 .. Size : Before(s, q) = Cut(I, q)
    BY <1>2, BeforeIsCut
  <2> QED
    BY <2>2, <2>3 DEF Before, SumUpto
<1> HIDE DEF w
<1>7. Len(w) = L
  <2>1. SumUpto(Amounts(sizes, r), Size) = Cut(I, Size) /\ Cut(I, Size) = L
    BY <1>1, <1>2, <1>6, CutsAtNodes
  <2> QED
    BY <1>4, <2>1 DEF Delivers
<1> HIDE DEF L
<1>8. ASSUME NEW i \in 1 .. L PROVE w[i] = {I[i]}
  <2>1. PICK q \in Ranks : \E j \in 1 .. sizes[q][r] : i = SumUpto(Amounts(sizes, r), q) + j
    BY <1>4, <1>7 DEF Delivers
  <2>2. PICK j \in 1 .. sizes[q][r] : i = SumUpto(Amounts(sizes, r), q) + j
    BY <2>1
  <2>3. SumUpto(Amounts(sizes, r), q) = Cut(I, q) /\ j \in 1 .. s[q]
    BY <1>1, <1>3, <1>6, <2>2
  <2>4. w[i] = data[q][Before(sizes[q], r) + j]
    BY <1>4, <2>2 DEF Delivers
  <2> QED
    BY <1>3, <2>2, <2>3, <2>4
<1>9. /\ DOMAIN compress_outer(m) = DOMAIN m
      /\ \A k \in DOMAIN m : compress_outer(m)[k] = {i \in 1 .. L : I[i] \in m[k]}
  <2>1. DOMAIN I = 1 .. L
    BY <1>2 DEF IndexList, L
  <2> QED
    BY <2>1 DEF compress_outer, I, Columns
<1>10. ASSUME NEW k \in DOMAIN m
       PROVE  UNION {w[x] : x \in compress_outer(m)[k]} = m[k]
  <2>1. \A i \in compress_outer(m)[k] : w[i] = {I[i]} /\ I[i] \in m[k]
    BY <1>8, <1>9
  <2>2. \A x \in m[k] : \E i \in compress_outer(m)[k] : I[i] = x
    <3> SUFFICES ASSUME NEW x \in m[k] PROVE \E i \in compress_outer(m)[k] : I[i] = x
      OBVIOUS
    <3>1. PICK i \in 1 .. L : I[i] = x
      BY <1>2 DEF L
    <3> QED
      BY <1>9, <3>1
  <2> QED
    BY <2>1, <2>2
<1>11. Multiply(compress_outer(m), w) = [k \in DOMAIN m |-> m[k]]
  BY <1>9, <1>10 DEF Multiply
<1> QED
  BY <1>2, <1>11 DEF w, m

\* The visibilities of a rank that are computed from an entry of the long vector.
Wanting(mx, q, x) == {<<q, k>> : k \in {j \in DOMAIN mx[q] : x \in mx[q][j]}}

Contributions(mx, x) == UNION {Wanting(mx, q, x) : q \in Ranks}

\* What a rank has to add at every one of its columns.
Sums(mx, q) == [i \in DOMAIN Columns(mx[q]) |-> Wanting(mx, q, Columns(mx[q])[i])]

\* What is sent back along the maps, added up, is what every visibility computed from the
\* entry contributes.
LEMMA ContributionsDelivered ==
  ASSUME Square, NEW mx \in [Ranks -> Patterns], NEW r \in Ranks,
         NEW mp, Mapped(mx, r, mp),
         NEW data, \A q \in Ranks : data[q] = Sums(mx, q),
         NEW sizes, \A q \in Ranks : sizes[q] = RecvSizes(Columns(mx[q])),
         NEW c, c = Appended(Size, Pieces(data, sizes, r), c),
         NEW p \in 0 .. N-1
  PROVE  Accumulate(mp, r * N, N, c[Size-1])[p] = Contributions(mx, r * N + p)
<1> DEFINE S == SUBSET UNION {{q} \X DOMAIN mx[q] : q \in Ranks}
           w == c[Size-1]
           f == Asked(mx, r)
           x == r * N + p
<1>1. /\ Size \in Nat /\ Ranks = 0 .. Size-1 /\ r \in Int /\ N \in Nat
      /\ x \in r * N .. r * N + N - 1 /\ x \in Int /\ r * N \in Int /\ x - r * N = p
  <2>1. r \in Int /\ N \in Nat /\ Size \in Nat /\ Ranks = 0 .. Size-1
    BY GridSizes
  <2> DEFINE b == r * N
  <2>2. b \in Int
    BY <2>1
  <2> HIDE DEF b
  <2>3. b + p \in b .. b + N - 1 /\ b + p \in Int /\ (b + p) - b = p
    BY <2>1, <2>2
  <2> QED
    BY <2>1, <2>2, <2>3 DEF b
<1> HIDE DEF x
<1>2. ASSUME NEW q \in Ranks
      PROVE  /\ sizes[q][r] \in Nat /\ sizes[q][r] = f[q]
             /\ Before(sizes[q], r) \in Nat /\ Before(sizes[q], r) = Cut(Columns(mx[q]), r)
             /\ Before(sizes[q], r) + sizes[q][r] <= Len(Columns(mx[q]))
             /\ Len(Columns(mx[q])) \in Nat
             /\ DOMAIN Columns(mx[q]) = 1 .. Len(Columns(mx[q]))
             /\ \A i \in 1 .. Len(Columns(mx[q])) :
                  x = Columns(mx[q])[i] => \E j \in 1 .. sizes[q][r] : i = Before(sizes[q], r) + j
  <2> DEFINE m == mx[q]
             I == Columns(m)
  <2>1. m \in Patterns /\ sizes[q] = RecvSizes(I)
    OBVIOUS
  <2>2. f[q] = RecvSizes(I)[r]
    BY DEF Asked
  <2> HIDE DEF m, f
  <2>3. /\ IndexList(I) /\ RecvSizes(I)[r] \in Nat /\ Cut(I, r) \in Nat
        /\ Before(RecvSizes(I), r) = Cut(I, r) /\ Cut(I, r) + RecvSizes(I)[r] <= Len(I)
        /\ \A i \in 1 .. Len(I) :
             I[i] \in r * N .. r * N + N - 1 <=> \E j \in 1 .. RecvSizes(I)[r] : i = Cut(I, r) + j
    BY <2>1, ColumnsOnNode
  <2> HIDE DEF I
  <2>4. Len(I) \in Nat /\ DOMAIN I = 1 .. Len(I)
    BY <2>3 DEF IndexList
  <2> QED
    BY <1>1, <2>1, <2>2, <2>3, <2>4 DEF I, m
<1> HIDE DEF f
<1>3. /\ \A q \in Ranks : data[q] \in Seq(S) /\ Len(data[q]) = Len(Columns(mx[q]))
      /\ \A q \in Ranks : \A i \in 1 .. Len(Columns(mx[q])) :
           data[q][i] = Wanting(mx, q, Columns(mx[q])[i])
  <2> SUFFICES ASSUME NEW q \in Ranks
               PROVE  /\ data[q] \in Seq(S) /\ Len(data[q]) = Len(Columns(mx[q]))
                      /\ \A i \in 1 .. Len(Columns(mx[q])) :
                           data[q][i] = Wanting(mx, q, Columns(mx[q])[i])
    OBVIOUS
  <2> DEFINE I == Columns(mx[q])
             n == Len(I)
             d == data[q]
             e == [i \in 1 .. n |-> Wanting(mx, q, I[i])]
  <2>1. n \in Nat /\ d = e
    BY <1>2 DEF Sums
  <2>2. \A i \in 1 .. n : Wanting(mx, q, I[i]) \in S
    BY DEF Wanting
  <2> HIDE DEF S, I, n
  <2>3. e \in Seq(S)
    BY ONLY <2>1, <2>2, IsASeq
  <2>4. DOMAIN e = 1 .. n /\ \A i \in 1 .. n : e[i] = Wanting(mx, q, I[i])
    OBVIOUS
  <2> HIDE DEF d, e
  <2>5. Len(e) = n
    BY <2>1, <2>3, <2>4
  <2> QED
    BY <2>1, <2>3, <2>4, <2>5 DEF d, I, n
<1> HIDE DEF S
<1>4. w \in Seq(S) /\ Delivers(data, sizes, r, w)
  <2>1. Cuttable(S, data, sizes, r)
    BY <1>2, <1>3 DEF Cuttable
  <2> QED
    BY <2>1, Received
<1>5. Amounts(sizes, r) = f
  <2>1. f = [q \in Ranks |-> f[q]]
    BY DEF f, Asked
  <2> QED
    BY <1>2, <2>1 DEF Amounts
<1> HIDE DEF w
<1>6. /\ mp \in Seq(r * N .. r * N + N - 1) /\ Len(mp) = Len(w)
      /\ \A q \in Ranks : \A j \in 1 .. f[q] :
           mp[SumUpto(f, q) + j] = Columns(mx[q])[Cut(Columns(mx[q]), r) + j]
  BY <1>4, <1>5 DEF Delivers, Mapped, f
<1>7. ASSUME NEW q \in Ranks, NEW j \in 1 .. f[q]
      PROVE  /\ SumUpto(f, q) + j \in 1 .. Len(w)
             /\ w[SumUpto(f, q) + j] = Wanting(mx, q, mp[SumUpto(f, q) + j])
             /\ mp[SumUpto(f, q) + j] = Columns(mx[q])[Before(sizes[q], r) + j]
  <2>1. j \in 1 .. sizes[q][r] /\ Before(sizes[q], r) = Cut(Columns(mx[q]), r)
    BY <1>2
  <2>2. mp[SumUpto(f, q) + j] = Columns(mx[q])[Before(sizes[q], r) + j]
    BY <1>6, <2>1
  <2>3. /\ SumUpto(f, q) + j \in 1 .. Len(w)
        /\ w[SumUpto(f, q) + j] = data[q][Before(sizes[q], r) + j]
    BY <1>4, <1>5, <2>1 DEF Delivers
  <2>4. Before(sizes[q], r) + j \in 1 .. Len(Columns(mx[q]))
    BY <1>2, <2>1
  <2>5. data[q][Before(sizes[q], r) + j] = Wanting(mx, q, Columns(mx[q])[Before(sizes[q], r) + j])
    BY <1>3, <2>4
  <2> QED
    BY <2>2, <2>3, <2>5
<1> DEFINE hits == {i \in DOMAIN mp : mp[i] - r * N = p}
<1>8. hits = {i \in 1 .. Len(w) : mp[i] = x}
  <2> DEFINE b == r * N
             T == b .. b + N - 1
  <2>1. b \in Int /\ x = b + p
    BY <1>1 DEF x
  <2>2. DOMAIN mp = 1 .. Len(w) /\ \A i \in 1 .. Len(w) : mp[i] \in T
    <3>1. mp \in Seq(T) /\ Len(mp) = Len(w)
      BY <1>6
    <3> HIDE DEF T
    <3> QED
      BY <3>1
  <2> HIDE DEF b
  <2>3. \A i \in 1 .. Len(w) : mp[i] \in Int
    BY <1>1, <2>1, <2>2
  <2>4. \A i \in 1 .. Len(w) : mp[i] - b = p <=> mp[i] = b + p
    BY <2>1, <2>3
  <2> QED
    BY <2>1, <2>2, <2>4 DEF b
<1>9. ASSUME NEW i \in hits PROVE \E q \in Ranks : w[i] = Wanting(mx, q, x)
  <2>1. i \in 1 .. Len(w) /\ mp[i] = x
    BY <1>8
  <2>2. PICK q \in Ranks : \E j \in 1 .. sizes[q][r] : i = SumUpto(f, q) + j
    BY <1>4, <1>5, <2>1 DEF Delivers
  <2>3. PICK j \in 1 .. sizes[q][r] : i = SumUpto(f, q) + j
    BY <2>2
  <2> QED
    BY <1>2, <1>7, <2>1, <2>3
<1>10. ASSUME NEW q \in Ranks, NEW v \in Wanting(mx, q, x)
       PROVE  \E i \in hits : w[i] = Wanting(mx, q, x)
  <2>1. PICK k \in DOMAIN mx[q] : x \in mx[q][k]
    BY DEF Wanting
  <2>2. mx[q] \in Patterns
    OBVIOUS
  <2>3. PICK i \in 1 .. Len(Columns(mx[q])) : Columns(mx[q])[i] = x
    BY <2>1, <2>2, ListOfColumns DEF Columns
  <2>4. PICK j \in 1 .. sizes[q][r] : i = Before(sizes[q], r) + j
    BY <1>2, <2>3
  <2>5. j \in 1 .. f[q]
    BY <1>2
  <2>6. /\ SumUpto(f, q) + j \in 1 .. Len(w) /\ mp[SumUpto(f, q) + j] = x
        /\ w[SumUpto(f, q) + j] = Wanting(mx, q, x)
    BY <1>7, <2>3, <2>4, <2>5
  <2> QED
    BY <1>8, <2>6
<1> HIDE DEF hits
<1>11. UNION {w[i] : i \in hits} = UNION {Wanting(mx, q, x) : q \in Ranks}
  BY <1>9, <1>10
<1>12. Accumulate(mp, r * N, N, w)[p] = UNION {w[i] : i \in hits}
  BY DEF Accumulate, hits
<1> QED
  BY <1>11, <1>12 DEF w, x, Contributions

(***************************************************************************)
(* The invariant.                                                          *)
(***************************************************************************)

\* A rank that has not counted, or refused, enters no call; a call is entered before it
\* returns, and after the last one nothing is left to enter.
Progress(r) ==
  /\ posted[r] \in {done[r], done[r] + 1}
  /\ pc[r] \in {"sizes", "threw"} => posted[r] = 0
  /\ pc[r] = "calls" => done[r] < LastCall
  /\ pc[r] = "done" => done[r] = LastCall

\* What a rank holds once the calls that fill it have returned.
Results(r) ==
  /\ pc[r] \in {"calls", "done"} => recv_sizes[r] = RecvSizes(Columns(matrix[r]))
  /\ done[r] >= 1 => Mapped(matrix, r, mapping[r])
  /\ done[r] >= r + 2 => send_sizes[r] = Asked(matrix, r)
  /\ done[r] >= Size + 2 => degridded[r] = matrix[r]
  /\ done[r] >= LastCall => \A p \in 0 .. N-1 :
       gridded[r][p] = Contributions(matrix, r * N + p)

\* One entry for every rank.
OnePerRank ==
  /\ mapping = [r \in Ranks |-> mapping[r]]
  /\ degridded = [r \in Ranks |-> degridded[r]] /\ gridded = [r \in Ranks |-> gridded[r]]

ExchangeInv == TypeOK /\ OnePerRank /\ \A r \in Ranks : Progress(r) /\ Results(r)

(***************************************************************************)
(* The three exchanges of the operators.                                   *)
(***************************************************************************)

\* The same three facts about the operators as the actions use them.
LEMMA IndicesExchanged ==
  ASSUME Square, matrix \in [Ranks -> Patterns], NEW r \in Ranks,
         \A q \in Ranks : recv_sizes[q] = RecvSizes(Columns(matrix[q]))
  PROVE  Mapped(matrix, r, Exchange(local_indices, recv_sizes, r))
<1> DEFINE data == [q \in Ranks |-> local_indices(q)]
           sizes == recv_sizes
           P == Pieces(data, sizes, r)
           Body(c) == [q \in -1 .. Size-1 |->
             IF q = -1 THEN <<>>
             ELSE c[q-1] \o SubSeq(local_indices(q), Before(sizes[q], r) + 1,
                                   Before(sizes[q], r) + sizes[q][r])]
           from == CHOOSE c : c = Body(c)
<1>1. Size \in Nat /\ Ranks = 0 .. Size-1 /\ \A q \in -1 .. Size-1 : q # -1 => q \in Ranks
  BY GridSizes
<1>2. \A q \in Ranks :
        P[q] = SubSeq(local_indices(q), Before(sizes[q], r) + 1, Before(sizes[q], r) + sizes[q][r])
  BY DEF Pieces
<1> HIDE DEF P
<1>3. \A c : Body(c) = Appended(Size, P, c)
  BY <1>1, <1>2 DEF Appended
<1> HIDE DEF Body
<1>4. \E c : c = Body(c)
  BY <1>1, <1>3, AppendedDefined
<1>5. from = Body(from)
  BY <1>4
<1>6. Exchange(local_indices, sizes, r) = from[Size-1]
  BY DEF Exchange, Body
<1> HIDE DEF from, sizes
<1>7. from = Appended(Size, Pieces(data, sizes, r), from)
  BY <1>3, <1>5 DEF P
<1>8. \A q \in Ranks : data[q] = Columns(matrix[q])
  BY DEF local_indices, Columns
<1>9. \A q \in Ranks : sizes[q] = RecvSizes(Columns(matrix[q]))
  BY DEF sizes
<1> HIDE DEF data
<1>10. Mapped(matrix, r, from[Size-1])
  BY <1>7, <1>8, <1>9, MapsDelivered
<1> QED
  BY <1>6, <1>10 DEF sizes

LEMMA EntriesExchanged ==
  ASSUME Square, matrix \in [Ranks -> Patterns], NEW r \in Ranks,
         \A q \in Ranks : Mapped(matrix, q, mapping[q]) /\ send_sizes[q] = Asked(matrix, q)
  PROVE  Multiply(compress_outer(matrix[r]), Exchange(Selected, send_sizes, r)) = matrix[r]
<1> DEFINE data == [q \in Ranks |-> Selected(q)]
           sizes == send_sizes
           P == Pieces(data, sizes, r)
           Body(c) == [q \in -1 .. Size-1 |->
             IF q = -1 THEN <<>>
             ELSE c[q-1] \o SubSeq(Selected(q), Before(sizes[q], r) + 1,
                                   Before(sizes[q], r) + sizes[q][r])]
           from == CHOOSE c : c = Body(c)
<1>1. Size \in Nat /\ Ranks = 0 .. Size-1 /\ \A q \in -1 .. Size-1 : q # -1 => q \in Ranks
  BY GridSizes
<1>2. \A q \in Ranks :
        P[q] = SubSeq(Selected(q), Before(sizes[q], r) + 1, Before(sizes[q], r) + sizes[q][r])
  BY DEF Pieces
<1> HIDE DEF P
<1>3. \A c : Body(c) = Appended(Size, P, c)
  BY <1>1, <1>2 DEF Appended
<1> HIDE DEF Body
<1>4. \E c : c = Body(c)
  BY <1>1, <1>3, AppendedDefined
<1>5. from = Body(from)
  BY <1>4
<1>6. Exchange(Selected, sizes, r) = from[Size-1]
  BY DEF Exchange, Body
<1> HIDE DEF from, sizes
<1>7. from = Appended(Size, Pieces(data, sizes, r), from)
  BY <1>3, <1>5 DEF P
<1>8. ASSUME NEW q \in Ranks
      PROVE  data[q] = Entries(mapping[q])
  <2> DEFINE mp == mapping[q]
             b == q * N
             T == b .. b + N - 1
  <2>1. q \in Int /\ N \in Nat /\ FtSize = N /\ start(q) = b
    BY GridSizes DEF FtSize, N, Square, start
  <2>2. b \in Int
    BY <2>1
  <2>3. mp \in Seq(T)
    BY DEF Mapped
  <2> HIDE DEF T, mp, b
  <2>4. \A i \in DOMAIN mp : mp[i] \in T
    BY <2>3
  <2>5. ASSUME NEW i \in DOMAIN mp
        PROVE  Grid(q)[mp[i] - start(q)] = {mp[i]}
    <3> DEFINE x == mp[i]
    <3>1. x \in b .. b + N - 1
      BY <2>4 DEF T
    <3> HIDE DEF x
    <3>2. x - b \in 0 .. N - 1 /\ b + (x - b) = x
      BY <2>1, <2>2, <3>1
    <3>3. Grid(q) = [p \in 0 .. N-1 |-> {b + p}]
      BY <2>1 DEF Grid, b
    <3>4. Grid(q)[x - b] = {b + (x - b)}
      BY <3>2, <3>3
    <3> QED
      BY <2>1, <3>2, <3>4 DEF x
  <2>6. data[q] = [i \in DOMAIN mp |-> Grid(q)[mp[i] - start(q)]]
    BY DEF Selected, Select, mp
  <2> QED
    BY <2>5, <2>6 DEF Entries, mp
<1>9. \A q \in Ranks : sizes[q] = Asked(matrix, q) /\ Mapped(matrix, q, mapping[q])
  BY DEF sizes
<1> HIDE DEF data
<1>10. Multiply(compress_outer(matrix[r]), from[Size-1]) = matrix[r]
  BY <1>7, <1>8, <1>9, EntriesDelivered
<1> QED
  BY <1>6, <1>10 DEF sizes

LEMMA ContributionsExchanged ==
  ASSUME Square, matrix \in [Ranks -> Patterns], NEW r \in Ranks,
         Mapped(matrix, r, mapping[r]),
         \A q \in Ranks : recv_sizes[q] = RecvSizes(Columns(matrix[q]))
  PROVE  \A p \in 0 .. N-1 :
           Accumulate(mapping[r], start(r), N, Exchange(Spread, recv_sizes, r))[p]
             = Contributions(matrix, r * N + p)
<1> DEFINE data == [q \in Ranks |-> Spread(q)]
           sizes == recv_sizes
           P == Pieces(data, sizes, r)
           Body(c) == [q \in -1 .. Size-1 |->
             IF q = -1 THEN <<>>
             ELSE c[q-1] \o SubSeq(Spread(q), Before(sizes[q], r) + 1,
                                   Before(sizes[q], r) + sizes[q][r])]
           from == CHOOSE c : c = Body(c)
<1>1. Size \in Nat /\ Ranks = 0 .. Size-1 /\ \A q \in -1 .. Size-1 : q # -1 => q \in Ranks
  BY GridSizes
<1>2. \A q \in Ranks :
        P[q] = SubSeq(Spread(q), Before(sizes[q], r) + 1, Before(sizes[q], r) + sizes[q][r])
  BY DEF Pieces
<1> HIDE DEF P
<1>3. \A c : Body(c) = Appended(Size, P, c)
  BY <1>1, <1>2 DEF Appended
<1> HIDE DEF Body
<1>4. \E c : c = Body(c)
  BY <1>1, <1>3, AppendedDefined
<1>5. from = Body(from)
  BY <1>4
<1>6. Exchange(Spread, sizes, r) = from[Size-1]
  BY DEF Exchange, Body
<1> HIDE DEF from, sizes
<1>7. from = Appended(Size, Pieces(data, sizes, r), from)
  BY <1>3, <1>5 DEF P
<1>8. ASSUME NEW q \in Ranks
      PROVE  data[q] = Sums(matrix, q)
  <2> DEFINE m == matrix[q]
             I == Columns(m)
  <2>1. /\ DOMAIN compress_outer(m) = DOMAIN m
        /\ \A k \in DOMAIN m : compress_outer(m)[k] = {i \in DOMAIN I : I[i] \in m[k]}
    BY DEF compress_outer, Columns
  <2>2. data[q] = MultiplyAdjoint(compress_outer(m), DOMAIN I, Visibilities(q))
    BY DEF Spread, local_indices, Columns
  <2>3. Visibilities(q) = [k \in DOMAIN m |-> {<<q, k>>}]
    BY DEF Visibilities
  <2> HIDE DEF I, m
  <2>4. ASSUME NEW i \in DOMAIN I
        PROVE  UNION {Visibilities(q)[k] : k \in {j \in DOMAIN m : i \in compress_outer(m)[j]}}
                 = {<<q, k>> : k \in {j \in DOMAIN m : I[i] \in m[j]}}
    <3>1. \A j \in DOMAIN m : i \in compress_outer(m)[j] <=> I[i] \in m[j]
      BY <2>1
    <3> DEFINE K == {j \in DOMAIN m : i \in compress_outer(m)[j]}
    <3>2. K = {j \in DOMAIN m : I[i] \in m[j]}
      BY <3>1
    <3>3. \A k \in K : Visibilities(q)[k] = {<<q, k>>}
      BY <2>3
    <3> HIDE DEF K
    <3>4. UNION {Visibilities(q)[k] : k \in K} = {<<q, k>> : k \in K}
      BY <3>3
    <3> QED
      BY <3>2, <3>4 DEF K
  <2>5. MultiplyAdjoint(compress_outer(m), DOMAIN I, Visibilities(q))
          = [i \in DOMAIN I |->
               UNION {Visibilities(q)[k] : k \in {j \in DOMAIN m : i \in compress_outer(m)[j]}}]
    BY <2>1 DEF MultiplyAdjoint
  <2>6. \A i \in DOMAIN I : Wanting(matrix, q, I[i])
                              = {<<q, k>> : k \in {j \in DOMAIN m : I[i] \in m[j]}}
    BY DEF Wanting, m
  <2> QED
    BY <2>2, <2>4, <2>5, <2>6 DEF Sums, I, m
<1>9. \A q \in Ranks : sizes[q] = RecvSizes(Columns(matrix[q]))
  BY DEF sizes
<1> HIDE DEF data
<1>10. \A p \in 0 .. N-1 : Accumulate(mapping[r], r * N, N, from[Size-1])[p]
                            = Contributions(matrix, r * N + p)
  BY <1>7, <1>8, <1>9, ContributionsDelivered
<1> QED
  BY <1>6, <1>10 DEF sizes, start

(***************************************************************************)
(* Every step keeps the invariant.                                         *)
(***************************************************************************)

\* What makes up the part of a rank in the invariant.
Same(q) ==
  /\ posted'[q] = posted[q] /\ done'[q] = done[q] /\ pc'[q] = pc[q]
  /\ recv_sizes'[q] = recv_sizes[q] /\ send_sizes'[q] = send_sizes[q]
  /\ mapping'[q] = mapping[q] /\ degridded'[q] = degridded[q] /\ gridded'[q] = gridded[q]

LEMMA SameKeeps ==
  ASSUME NEW q \in Ranks, Progress(q), Results(q), matrix' = matrix, Same(q)
  PROVE  Progress(q)' /\ Results(q)'
<1>1. Progress(q)'
  BY DEF Progress, Same, LastCall
<1>2. Results(q)'
  BY DEF Results, Same, LastCall
<1> QED
  BY <1>1, <1>2

\* A rank in a collective call has counted; so have all if all have entered one.
LEMMA InCall ==
  ASSUME ExchangeInv, NEW q \in Ranks, posted[q] >= 1
  PROVE  /\ pc[q] \in {"calls", "done"} /\ recv_sizes[q] = RecvSizes(Columns(matrix[q]))
         /\ posted[q] \in Nat /\ done[q] \in Nat /\ done[q] >= posted[q] - 1
         /\ posted[q] # done[q] => pc[q] = "calls" /\ done[q] < LastCall
<1>1. Progress(q) /\ Results(q) /\ posted[q] \in 0 .. LastCall /\ done[q] \in 0 .. LastCall
      /\ pc[q] \in {"sizes", "calls", "done", "threw"}
  BY DEF ExchangeInv, TypeOK
<1>2. LastCall \in Nat
  BY GridSizes DEF LastCall
<1> QED
  BY <1>1, <1>2 DEF Progress, Results

LEMMA InvInit == ASSUME Init PROVE ExchangeInv
<1>1. Size \in Nat /\ Size > 0 /\ LastCall = Size + 3 /\ LastCall \in Nat /\ Ranks = 0 .. Size-1
  BY GridSizes DEF LastCall
<1>2. TypeOK /\ OnePerRank
  BY <1>1 DEF Init, TypeOK, OnePerRank
<1>3. ASSUME NEW r \in Ranks PROVE Progress(r) /\ Results(r)
  BY <1>1, <1>3 DEF Init, Progress, Results
<1> QED
  BY <1>2, <1>3 DEF ExchangeInv

LEMMA CountKeeps ==
  ASSUME Square, ExchangeInv, NEW r \in Ranks, CountReceives(r)
  PROVE  ExchangeInv'
<1> DEFINE s == RecvSizes(Columns(matrix[r]))
<1>1. s \in [Ranks -> Nat] /\ local_indices(r) = Columns(matrix[r])
  <2>1. matrix[r] \in Patterns
    BY DEF ExchangeInv, TypeOK
  <2>2. IndexList(Columns(matrix[r]))
    BY <2>1, ListOfColumns DEF Columns
  <2> QED
    BY <2>2, SizesCounted DEF local_indices, Columns
<1> HIDE DEF s
<1>2. /\ pc[r] = "sizes" /\ matrix' = matrix /\ storageMax' = storageMax
      /\ UNCHANGED <<send_sizes, mapping, posted, done, degridded, gridded>>
      /\ \/ pc' = [pc EXCEPT ![r] = "threw"] /\ recv_sizes' = recv_sizes
         \/ /\ pc' = [pc EXCEPT ![r] = "calls"]
            /\ recv_sizes' = [recv_sizes EXCEPT ![r] = s]
  BY <1>1 DEF CountReceives, s
<1>3. /\ TypeOK /\ OnePerRank /\ \A q \in Ranks : Progress(q) /\ Results(q)
      /\ LastCall \in Nat /\ LastCall > 0 /\ Ranks = 0 .. Size-1 /\ Size \in Nat
      /\ LastCall = Size + 3
  BY GridSizes DEF ExchangeInv, LastCall
<1>4. TypeOK'
  <2>1. recv_sizes' \in [Ranks -> [Ranks -> Nat]]
    <3>1. recv_sizes \in [Ranks -> [Ranks -> Nat]]
      BY <1>3 DEF TypeOK
    <3> QED
      BY <1>1, <1>2, <3>1
  <2>2. pc' \in [Ranks -> {"sizes", "calls", "done", "threw"}]
    <3>1. pc \in [Ranks -> {"sizes", "calls", "done", "threw"}]
      BY <1>3 DEF TypeOK
    <3> QED
      BY <1>2, <3>1
  <2> QED
    BY <1>2, <1>3, <2>1, <2>2 DEF TypeOK, start
<1>5. OnePerRank'
  BY <1>2, <1>3 DEF OnePerRank
<1>6. ASSUME NEW q \in Ranks, q # r PROVE Progress(q)' /\ Results(q)'
  <2>1. Same(q)
    BY <1>2, <1>3, <1>6 DEF Same, TypeOK
  <2> QED
    BY <1>2, <1>3, <2>1, SameKeeps
<1>7. posted[r] = 0 /\ done[r] = 0 /\ posted'[r] = 0 /\ done'[r] = 0
  BY <1>2, <1>3 DEF Progress, TypeOK
<1>8. Progress(r)'
  BY <1>2, <1>3, <1>7 DEF Progress, TypeOK, LastCall
<1>9. Results(r)'
  <2>1. pc'[r] \in {"calls", "done"} => recv_sizes'[r] = s
    BY <1>2, <1>3 DEF TypeOK
  <2>2. ~ (0 >= 1) /\ ~ (0 >= r + 2) /\ ~ (0 >= Size + 2) /\ ~ (0 >= LastCall)
    BY <1>3
  <2> QED
    BY <1>2, <1>7, <2>1, <2>2 DEF Results, LastCall, s
<1> QED
  BY <1>4, <1>5, <1>6, <1>8, <1>9 DEF ExchangeInv

LEMMA PostKeeps ==
  ASSUME ExchangeInv, NEW r \in Ranks, Post(r)
  PROVE  ExchangeInv'
<1>1. /\ pc[r] = "calls" /\ posted[r] = done[r] /\ matrix' = matrix /\ storageMax' = storageMax
      /\ posted' = [posted EXCEPT ![r] = posted[r] + 1]
      /\ UNCHANGED <<recv_sizes, send_sizes, mapping, done, degridded, gridded, pc>>
  BY DEF Post
<1>2. /\ TypeOK /\ OnePerRank /\ \A q \in Ranks : Progress(q) /\ Results(q)
      /\ LastCall \in Nat
  BY GridSizes DEF ExchangeInv, LastCall
<1>3. posted[r] + 1 \in 0 .. LastCall /\ done[r] < LastCall
      /\ posted \in [Ranks -> 0 .. LastCall] /\ done \in [Ranks -> 0 .. LastCall]
  BY <1>1, <1>2 DEF TypeOK, Progress
<1>4. posted' \in [Ranks -> 0 .. LastCall]
  BY <1>1, <1>3
<1>5. TypeOK'
  BY <1>1, <1>2, <1>4 DEF TypeOK, LastCall, start
<1>6. OnePerRank'
  BY <1>1, <1>2 DEF OnePerRank
<1>7. ASSUME NEW q \in Ranks, q # r PROVE Progress(q)' /\ Results(q)'
  <2>1. Same(q)
    BY <1>1, <1>3, <1>7 DEF Same
  <2> QED
    BY <1>1, <1>2, <2>1, SameKeeps
<1>8. Progress(r)'
  <2>1. posted'[r] = done[r] + 1
    BY <1>1, <1>3
  <2> QED
    BY <1>1, <1>3, <2>1 DEF Progress, LastCall
<1>9. Results(r)'
  BY <1>1, <1>2 DEF Results, LastCall
<1> QED
  BY <1>5, <1>6, <1>7, <1>8, <1>9 DEF ExchangeInv

\* The part of the return from a call that all calls have in common.
LEMMA FinishKeeps ==
  ASSUME ExchangeInv, NEW r \in Ranks, posted[r] >= 1, done[r] = posted[r] - 1, Finish(r)
  PROVE  /\ pc[r] = "calls" /\ matrix' = matrix /\ storageMax' = storageMax
         /\ recv_sizes' = recv_sizes /\ done'[r] = posted[r] /\ posted'[r] = posted[r]
         /\ Progress(r)' /\ recv_sizes'[r] = RecvSizes(Columns(matrix[r]))
         /\ posted' \in [Ranks -> 0 .. LastCall] /\ done' \in [Ranks -> 0 .. LastCall]
         /\ pc' \in [Ranks -> {"sizes", "calls", "done", "threw"}]
         /\ \A q \in Ranks : q # r =>
              posted'[q] = posted[q] /\ done'[q] = done[q] /\ pc'[q] = pc[q]
<1>1. /\ posted \in [Ranks -> 0 .. LastCall] /\ done \in [Ranks -> 0 .. LastCall]
      /\ pc \in [Ranks -> {"sizes", "calls", "done", "threw"}] /\ LastCall \in Nat
  <2>1. LastCall \in Nat
    BY GridSizes DEF LastCall
  <2> QED
    BY <2>1 DEF ExchangeInv, TypeOK
<1>2. pc[r] = "calls" /\ done[r] < LastCall /\ recv_sizes[r] = RecvSizes(Columns(matrix[r]))
  BY <1>1, InCall
<1>3. /\ matrix' = matrix /\ storageMax' = storageMax /\ recv_sizes' = recv_sizes
      /\ posted' = posted /\ done' = [done EXCEPT ![r] = done[r] + 1]
      /\ pc' = [pc EXCEPT ![r] = IF posted[r] = LastCall THEN "done" ELSE "calls"]
  BY DEF Finish
<1>4. done[r] + 1 = posted[r] /\ posted[r] \in 0 .. LastCall
  BY <1>1
<1>5. done'[r] = posted[r] /\ pc'[r] = IF posted[r] = LastCall THEN "done" ELSE "calls"
  BY <1>1, <1>3, <1>4
<1>6. done' \in [Ranks -> 0 .. LastCall] /\ pc' \in [Ranks -> {"sizes", "calls", "done", "threw"}]
  BY <1>1, <1>3, <1>4
<1>7. Progress(r)'
  BY <1>1, <1>3, <1>4, <1>5 DEF Progress, LastCall
<1>8. \A q \in Ranks : q # r => posted'[q] = posted[q] /\ done'[q] = done[q] /\ pc'[q] = pc[q]
  BY <1>1, <1>3
<1> QED
  BY <1>1, <1>2, <1>3, <1>5, <1>6, <1>7, <1>8

LEMMA IndicesKeep ==
  ASSUME Square, ExchangeInv, NEW r \in Ranks, ExchangeIndices(r)
  PROVE  ExchangeInv'
<1> DEFINE w == Exchange(local_indices, recv_sizes, r)
<1>1. /\ posted[r] >= 1 /\ done[r] = posted[r] - 1 /\ posted[r] = 1 /\ Finish(r)
      /\ \A q \in Ranks : posted[q] >= 1
      /\ mapping' = [mapping EXCEPT ![r] = w]
      /\ UNCHANGED <<send_sizes, degridded, gridded>>
  BY DEF ExchangeIndices, Entered, AllPosted
<1>2. /\ TypeOK /\ OnePerRank /\ \A q \in Ranks : Progress(q) /\ Results(q)
      /\ Ranks = 0 .. Size-1 /\ Size \in Nat /\ Size > 0 /\ LastCall = Size + 3
      /\ matrix \in [Ranks -> Patterns]
  BY GridSizes DEF ExchangeInv, LastCall, TypeOK
<1>3. Mapped(matrix, r, w)
  <2>1. \A q \in Ranks : recv_sizes[q] = RecvSizes(Columns(matrix[q]))
    BY <1>1, InCall
  <2> QED
    BY <1>2, <2>1, IndicesExchanged
<1> HIDE DEF w
<1>4. /\ pc[r] = "calls" /\ matrix' = matrix /\ storageMax' = storageMax
      /\ recv_sizes' = recv_sizes /\ done'[r] = 1
      /\ Progress(r)' /\ recv_sizes'[r] = RecvSizes(Columns(matrix[r]))
      /\ posted' \in [Ranks -> 0 .. LastCall] /\ done' \in [Ranks -> 0 .. LastCall]
      /\ pc' \in [Ranks -> {"sizes", "calls", "done", "threw"}]
      /\ \A q \in Ranks : q # r =>
           posted'[q] = posted[q] /\ done'[q] = done[q] /\ pc'[q] = pc[q]
  BY <1>1, FinishKeeps
<1>5. /\ mapping'[r] = w /\ \A q \in Ranks : q # r => mapping'[q] = mapping[q]
      /\ mapping' = [q \in Ranks |-> mapping'[q]]
  BY <1>1, <1>2 DEF OnePerRank
<1>6. TypeOK'
  <2>1. w \in Seq(start(r) .. start(r) + N - 1)
    BY <1>3 DEF Mapped, start
  <2>2. \A q \in Ranks : mapping'[q] \in Seq(start(q) .. start(q) + N - 1)
    BY <1>2, <1>5, <2>1 DEF TypeOK
  <2> QED
    BY <1>1, <1>2, <1>4, <2>2 DEF TypeOK, LastCall, start
<1>7. OnePerRank'
  BY <1>1, <1>2, <1>5 DEF OnePerRank
<1>8. ASSUME NEW q \in Ranks, q # r PROVE Progress(q)' /\ Results(q)'
  <2>1. Same(q)
    BY <1>1, <1>4, <1>5, <1>8 DEF Same
  <2> QED
    BY <1>2, <1>4, <2>1, SameKeeps
<1>9. Results(r)'
  <2>1. ~ (1 >= r + 2) /\ ~ (1 >= Size + 2) /\ ~ (1 >= LastCall)
    BY <1>2
  <2> QED
    BY <1>3, <1>4, <1>5, <2>1 DEF Results, LastCall
<1> QED
  BY <1>4, <1>6, <1>7, <1>8, <1>9 DEF ExchangeInv

LEMMA GathersKeep ==
  ASSUME Square, ExchangeInv, NEW r \in Ranks, GatherSizes(r)
  PROVE  ExchangeInv'
<1> DEFINE w == [q \in Ranks |-> recv_sizes[q][r]]
<1>1. PICK k \in 2 .. Size + 1 :
        /\ Entered(r, k)
        /\ IF r = GatherRoot(k)
           THEN AllPosted(k) /\ send_sizes' = [send_sizes EXCEPT ![r] = w]
           ELSE UNCHANGED send_sizes
  BY DEF GatherSizes
<1>2. /\ TypeOK /\ OnePerRank /\ \A q \in Ranks : Progress(q) /\ Results(q)
      /\ Ranks = 0 .. Size-1 /\ Size \in Nat /\ Size > 0 /\ LastCall = Size + 3
      /\ matrix \in [Ranks -> Patterns] /\ send_sizes \in [Ranks -> [Ranks -> Nat]]
      /\ recv_sizes \in [Ranks -> [Ranks -> Nat]]
  BY GridSizes DEF ExchangeInv, LastCall, TypeOK
<1>3. /\ posted[r] >= 1 /\ done[r] = posted[r] - 1 /\ posted[r] = k /\ done[r] = k - 1
      /\ Finish(r) /\ UNCHANGED <<mapping, degridded, gridded>>
  BY <1>1, <1>2 DEF GatherSizes, Entered
<1>4. /\ pc[r] = "calls" /\ matrix' = matrix /\ storageMax' = storageMax
      /\ recv_sizes' = recv_sizes /\ done'[r] = k
      /\ Progress(r)' /\ recv_sizes'[r] = RecvSizes(Columns(matrix[r]))
      /\ posted' \in [Ranks -> 0 .. LastCall] /\ done' \in [Ranks -> 0 .. LastCall]
      /\ pc' \in [Ranks -> {"sizes", "calls", "done", "threw"}]
      /\ \A q \in Ranks : q # r =>
           posted'[q] = posted[q] /\ done'[q] = done[q] /\ pc'[q] = pc[q]
  BY <1>3, FinishKeeps
<1>5. w \in [Ranks -> Nat]
  BY <1>2
<1>6. r = k - 2 => w = Asked(matrix, r)
  <2> SUFFICES ASSUME r = k - 2 PROVE w = Asked(matrix, r)
    OBVIOUS
  <2>1. \A q \in Ranks : posted[q] >= 1
    <3>1. AllPosted(k) /\ posted \in [Ranks -> 0 .. LastCall]
      BY <1>1, <1>2 DEF GatherRoot, TypeOK
    <3>2. \A q \in Ranks : posted[q] >= k /\ posted[q] \in 0 .. LastCall
      BY <3>1 DEF AllPosted
    <3>3. k >= 1 /\ k \in Nat
      BY <1>2
    <3> QED
      BY <3>2, <3>3
  <2>2. \A q \in Ranks : recv_sizes[q] = RecvSizes(Columns(matrix[q]))
    BY <2>1, InCall
  <2> QED
    BY <2>2 DEF Asked
<1> HIDE DEF w
<1>7. /\ \A q \in Ranks : q # r => send_sizes'[q] = send_sizes[q]
      /\ send_sizes' \in [Ranks -> [Ranks -> Nat]]
      /\ IF r = k - 2 THEN send_sizes'[r] = w ELSE send_sizes'[r] = send_sizes[r]
  BY <1>1, <1>2, <1>5 DEF GatherRoot
<1>8. TypeOK'
  BY <1>2, <1>3, <1>4, <1>7 DEF TypeOK, LastCall, start
<1>9. OnePerRank'
  BY <1>2, <1>3 DEF OnePerRank
<1>10. ASSUME NEW q \in Ranks, q # r PROVE Progress(q)' /\ Results(q)'
  <2>1. Same(q)
    BY <1>3, <1>4, <1>7, <1>10 DEF Same
  <2> QED
    BY <1>2, <1>4, <2>1, SameKeeps
<1>11. Results(r)'
  <2>1. k >= 1 /\ k - 1 >= 1 /\ ~ (k >= Size + 2) /\ ~ (k >= LastCall)
        /\ (k >= r + 2 => r = k - 2 \/ k - 1 >= r + 2)
    BY <1>2
  <2>2. Mapped(matrix, r, mapping[r]) /\ (k - 1 >= r + 2 => send_sizes[r] = Asked(matrix, r))
    BY <1>2, <1>3, <2>1 DEF Results
  <2>3. k >= r + 2 => send_sizes'[r] = Asked(matrix, r)
    BY <1>6, <1>7, <2>1, <2>2
  <2> QED
    BY <1>3, <1>4, <2>1, <2>2, <2>3 DEF Results, LastCall
<1> QED
  BY <1>4, <1>8, <1>9, <1>10, <1>11 DEF ExchangeInv

LEMMA DegridKeeps ==
  ASSUME Square, ExchangeInv, NEW r \in Ranks, Degrid(r)
  PROVE  ExchangeInv'
<1> DEFINE w == Multiply(compress_outer(matrix[r]), Exchange(Selected, send_sizes, r))
<1>1. /\ posted[r] = Size + 2 /\ done[r] = Size + 2 - 1 /\ Finish(r)
      /\ \A q \in Ranks : posted[q] >= Size + 2
      /\ degridded' = [degridded EXCEPT ![r] = w]
      /\ UNCHANGED <<send_sizes, mapping, gridded>>
  <2>1. Entered(r, Size + 2) /\ AllPosted(Size + 2)
    BY DEF Degrid
  <2>2. Finish(r) /\ UNCHANGED <<send_sizes, mapping, gridded>>
    BY DEF Degrid
  <2>3. degridded' = [degridded EXCEPT ![r] = w]
    BY DEF Degrid
  <2>4. posted[r] = Size + 2 /\ done[r] = Size + 2 - 1
    BY <2>1, SizeAssumption DEF Entered
  <2>5. \A q \in Ranks : posted[q] >= Size + 2
    BY <2>1 DEF AllPosted
  <2> HIDE DEF w
  <2> QED
    BY <2>2, <2>3, <2>4, <2>5
<1>2. /\ TypeOK /\ OnePerRank /\ \A q \in Ranks : Progress(q) /\ Results(q)
      /\ Ranks = 0 .. Size-1 /\ Size \in Nat /\ Size > 0 /\ LastCall = Size + 3
      /\ matrix \in [Ranks -> Patterns]
  BY GridSizes DEF ExchangeInv, LastCall, TypeOK
<1>3. /\ pc[r] = "calls" /\ matrix' = matrix /\ storageMax' = storageMax
      /\ recv_sizes' = recv_sizes /\ done'[r] = Size + 2
      /\ Progress(r)' /\ recv_sizes'[r] = RecvSizes(Columns(matrix[r]))
      /\ posted' \in [Ranks -> 0 .. LastCall] /\ done' \in [Ranks -> 0 .. LastCall]
      /\ pc' \in [Ranks -> {"sizes", "calls", "done", "threw"}]
      /\ \A q \in Ranks : q # r =>
           posted'[q] = posted[q] /\ done'[q] = done[q] /\ pc'[q] = pc[q]
  <2>1. posted[r] >= 1 /\ done[r] = posted[r] - 1
    BY <1>1, <1>2
  <2> QED
    BY <1>1, <2>1, FinishKeeps
<1>4. ASSUME NEW q \in Ranks
      PROVE  Mapped(matrix, q, mapping[q]) /\ send_sizes[q] = Asked(matrix, q)
  <2>1. posted[q] >= Size + 2 /\ posted[q] \in 0 .. LastCall /\ done[q] \in 0 .. LastCall
        /\ posted[q] \in {done[q], done[q] + 1}
    BY <1>1, <1>2 DEF TypeOK, Progress
  <2>2. done[q] >= 1 /\ done[q] >= q + 2
    BY <1>2, <2>1
  <2> QED
    BY <1>2, <2>2 DEF Results
<1>5. w = matrix[r]
  BY <1>2, <1>4, EntriesExchanged
<1> HIDE DEF w
<1>6. /\ degridded'[r] = w /\ \A q \in Ranks : q # r => degridded'[q] = degridded[q]
      /\ degridded' = [q \in Ranks |-> degridded'[q]]
  BY <1>1, <1>2 DEF OnePerRank
<1>7. TypeOK'
  BY <1>1, <1>2, <1>3 DEF TypeOK, LastCall, start
<1>8. OnePerRank'
  BY <1>1, <1>2, <1>6 DEF OnePerRank
<1>9. ASSUME NEW q \in Ranks, q # r PROVE Progress(q)' /\ Results(q)'
  <2>1. Same(q)
    BY <1>1, <1>3, <1>6, <1>9 DEF Same
  <2> QED
    BY <1>2, <1>3, <2>1, SameKeeps
<1>10. Results(r)'
  <2>1. ~ (Size + 2 >= LastCall)
    BY <1>2
  <2> QED
    BY <1>1, <1>3, <1>4, <1>5, <1>6, <2>1 DEF Results, LastCall
<1> QED
  BY <1>3, <1>7, <1>8, <1>9, <1>10 DEF ExchangeInv

LEMMA GridKeeps ==
  ASSUME Square, ExchangeInv, NEW r \in Ranks, GridBack(r)
  PROVE  ExchangeInv'
<1> DEFINE w == Accumulate(mapping[r], start(r), N, Exchange(Spread, recv_sizes, r))
<1>1. /\ posted[r] = Size + 3 /\ done[r] = Size + 3 - 1 /\ Finish(r)
      /\ \A q \in Ranks : posted[q] >= Size + 3
      /\ gridded' = [gridded EXCEPT ![r] = w]
      /\ UNCHANGED <<send_sizes, mapping, degridded>>
  <2>1. Entered(r, Size + 3) /\ AllPosted(Size + 3)
    BY DEF GridBack
  <2>2. Finish(r) /\ UNCHANGED <<send_sizes, mapping, degridded>>
    BY DEF GridBack
  <2>3. gridded' = [gridded EXCEPT ![r] = w]
    BY DEF GridBack
  <2>4. posted[r] = Size + 3 /\ done[r] = Size + 3 - 1
    BY <2>1, SizeAssumption DEF Entered
  <2>5. \A q \in Ranks : posted[q] >= Size + 3
    BY <2>1 DEF AllPosted
  <2> HIDE DEF w
  <2> QED
    BY <2>2, <2>3, <2>4, <2>5
<1>2. /\ TypeOK /\ OnePerRank /\ \A q \in Ranks : Progress(q) /\ Results(q)
      /\ Ranks = 0 .. Size-1 /\ Size \in Nat /\ Size > 0 /\ LastCall = Size + 3
      /\ matrix \in [Ranks -> Patterns]
  BY GridSizes DEF ExchangeInv, LastCall, TypeOK
<1>3. /\ pc[r] = "calls" /\ matrix' = matrix /\ storageMax' = storageMax
      /\ recv_sizes' = recv_sizes /\ done'[r] = Size + 3
      /\ Progress(r)' /\ recv_sizes'[r] = RecvSizes(Columns(matrix[r]))
      /\ posted' \in [Ranks -> 0 .. LastCall] /\ done' \in [Ranks -> 0 .. LastCall]
      /\ pc' \in [Ranks -> {"sizes", "calls", "done", "threw"}]
      /\ \A q \in Ranks : q # r =>
           posted'[q] = posted[q] /\ done'[q] = done[q] /\ pc'[q] = pc[q]
  <2>1. posted[r] >= 1 /\ done[r] = posted[r] - 1
    BY <1>1, <1>2
  <2> QED
    BY <1>1, <2>1, FinishKeeps
<1>4. \A q \in Ranks : recv_sizes[q] = RecvSizes(Columns(matrix[q]))
  <2>1. \A q \in Ranks : posted[q] >= 1
    <3>1. \A q \in Ranks : posted[q] >= Size + 3 /\ posted[q] \in 0 .. LastCall
      BY <1>1, <1>2 DEF TypeOK
    <3> QED
      BY <1>2, <3>1
  <2> QED
    BY <2>1, InCall
<1>5. /\ Mapped(matrix, r, mapping[r]) /\ send_sizes[r] = Asked(matrix, r)
      /\ degridded[r] = matrix[r]
  <2>1. done[r] >= 1 /\ done[r] >= r + 2 /\ done[r] >= Size + 2
    BY <1>1, <1>2
  <2> QED
    BY <1>2, <2>1 DEF Results
<1>6. \A p \in 0 .. N-1 : w[p] = Contributions(matrix, r * N + p)
  BY <1>2, <1>4, <1>5, ContributionsExchanged
<1> HIDE DEF w
<1>7. /\ gridded'[r] = w /\ \A q \in Ranks : q # r => gridded'[q] = gridded[q]
      /\ gridded' = [q \in Ranks |-> gridded'[q]]
  BY <1>1, <1>2 DEF OnePerRank
<1>8. TypeOK'
  BY <1>1, <1>2, <1>3 DEF TypeOK, LastCall, start
<1>9. OnePerRank'
  BY <1>1, <1>2, <1>7 DEF OnePerRank
<1>10. ASSUME NEW q \in Ranks, q # r PROVE Progress(q)' /\ Results(q)'
  <2>1. Same(q)
    BY <1>1, <1>3, <1>7, <1>10 DEF Same
  <2> QED
    BY <1>2, <1>3, <2>1, SameKeeps
<1>11. Results(r)'
  BY <1>1, <1>3, <1>5, <1>6, <1>7 DEF Results, LastCall, Contributions
<1> QED
  BY <1>3, <1>8, <1>9, <1>10, <1>11 DEF ExchangeInv

(***************************************************************************)
(* The theorems.                                                           *)
(***************************************************************************)

LEMMA InvNext == ASSUME Square, ExchangeInv, [Next]_vars PROVE ExchangeInv'
<1>1. CASE UNCHANGED vars
  BY <1>1 DEF vars, ExchangeInv, TypeOK, OnePerRank, Progress, Results, LastCall, start
<1>2. ASSUME NEW r \in Ranks, Step(r) PROVE ExchangeInv'
  BY <1>2, CountKeeps, PostKeeps, IndicesKeep, GathersKeep, DegridKeeps, GridKeeps DEF Step
<1> QED
  BY <1>1, <1>2 DEF Next

\* The invariant holds in every reachable state: what a rank holds after each call is
\* determined by the gridding matrices of all ranks, at whatever speed the ranks go.
THEOREM ExchangeInvAlways == ASSUME Square PROVE Spec => []ExchangeInv
<1>1. Init => ExchangeInv
  BY InvInit
<1>2. ExchangeInv /\ [Next]_vars => ExchangeInv'
  BY InvNext
<1> QED
  BY <1>1, <1>2, PTL DEF Spec

\* On square grids degridding over the ranks is the product of the full matrix with the
\* long vector of all grids: the compressed columns, the single pass over their nodes
\* and the three exchanges bring every rank the entries its columns stand for, in order.
THEOREM DegriddingComplete == ASSUME Square PROVE Spec => []DegridsFullVector
<1>1. ExchangeInv => DegridsFullVector
  BY DEF ExchangeInv, Results, DegridsFullVector
<1> QED
  BY <1>1, ExchangeInvAlways, PTL

\* On square grids gridding over the ranks is the adjoint: an entry gets what every
\* visibility that was computed from it sends back, and nothing else.
THEOREM GriddingIsAdjoint == ASSUME Square PROVE Spec => []GridIsAdjoint
<1>1. ASSUME ExchangeInv PROVE GridIsAdjoint
  <2> DEFINE Hit(x) == {rk \in UNION {{r} \X DOMAIN matrix[r] : r \in Ranks} :
                         x \in matrix[rk[1]][rk[2]]}
  <2>1. ASSUME NEW x PROVE Contributions(matrix, x) = Hit(x)
    BY DEF Contributions, Wanting
  <2> HIDE DEF Hit
  <2>2. FtSize = N /\ LastCall \in Nat
    BY GridSizes DEF FtSize, N, Square, LastCall
  <2>3. ASSUME NEW q \in Ranks, pc[q] = "done", NEW p \in 0 .. N-1
        PROVE  gridded[q][p] = Hit(q * N + p)
    <3>1. done[q] = LastCall /\ Results(q)
      BY <1>1, <2>3 DEF ExchangeInv, Progress
    <3>2. gridded[q][p] = Contributions(matrix, q * N + p)
      BY <2>2, <3>1 DEF Results
    <3> QED
      BY <2>1, <3>2
  <2> QED
    BY <2>2, <2>3 DEF GridIsAdjoint, Hit
<1> QED
  BY <1>1, ExchangeInvAlways, PTL
==============================================================================
