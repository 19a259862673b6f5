-------------------------------- MODULE Lists --------------------------------
(***************************************************************************)
(* Induction over the natural numbers, and what it shows of lists: the     *)
(* elements of a list that lie in a set, in their order, and how they      *)
(* change when the list is extended, joined or shortened; where the        *)
(* elements of an array are once it is sorted; what the re-indexing        *)
(* helpers of IndexMapping return; how sums add up and compare, and that   *)
(* the mean has the least sum of squared distances; and where the pieces   *)
(* of a list are that were appended one after the other.                   *)
(***************************************************************************)
EXTENDS Sublists, IndexMapping, FiniteSetTheorems, SequenceTheorems, TLAPS

------------------------------------------------------------------------------

\* A set that holds 0 and the successor of each of its numbers holds every natural
\* number: else the numbers up to n that are missing could be mapped one to one onto
\* themselves without n.
LEMMA Induction ==
  ASSUME NEW S, 0 \in S, \A n \in Nat : n \in S => n+1 \in S
  PROVE  Nat \subseteq S
<1>1. SUFFICES ASSUME NEW n \in Nat, n \notin S PROVE FALSE
  OBVIOUS
<1> DEFINE T == {x \in 0 .. n : x \notin S}
           f == [x \in T |-> x-1]
<1>2. IsFiniteSet(T)
  <2>1. IsFiniteSet(0 .. n)
    BY FS_Interval
  <2>2. QED
    BY <2>1, FS_Subset
<1>3. \A x \in T : x \in Nat /\ x # 0 /\ x-1 \in T
  <2>1. SUFFICES ASSUME NEW x \in T PROVE x \in Nat /\ x # 0 /\ x-1 \in T
    OBVIOUS
  <2>2. x \in 0 .. n /\ x # 0 /\ x \notin S
    OBVIOUS
  <2>3. x-1 \in Nat /\ x-1 \in 0 .. n /\ (x-1) + 1 = x
    BY <2>2
  <2>4. x-1 \notin S
    BY <2>2, <2>3
  <2>5. QED
    BY <2>2, <2>3, <2>4
<1>4. f \in Injection(T, T)
  <2>1. f \in [T -> T]
    BY <1>3
  <2>2. \A x, y \in T : f[x] = f[y] => x = y
    BY <1>3
  <2>3. QED
    BY <2>1, <2>2 DEF Injection, IsInjective
<1>5. f \in Surjection(T, T)
  BY <1>2, <1>4, FS_Injection
<1>6. n \in T
  BY <1>1
<1>7. PICK x \in T : f[x] = n
  BY <1>5, <1>6 DEF Surjection
<1>8. QED
  BY <1>1, <1>3, <1>7

\* A set of natural numbers has a least element.
LEMMA LeastElement ==
  ASSUME NEW S \in SUBSET Nat, S # {}
  PROVE  \E x \in S : \A y \in S : x <= y
<1> SUFFICES ASSUME ~ \E x \in S : \A y \in S : x <= y PROVE FALSE
  OBVIOUS
<1> DEFINE T == {n \in Nat : \A x \in S : n <= x}
<1>1. 0 \in T
  OBVIOUS
<1>2. \A n \in Nat : n \in T => n+1 \in T
  <2> SUFFICES ASSUME NEW n \in Nat, n \in T, NEW x \in S PROVE n+1 <= x
    OBVIOUS
  <2>1. n <= x /\ x \in Nat
    OBVIOUS
  <2>2. n # x
    OBVIOUS
  <2> QED
    BY <2>1, <2>2
<1> HIDE DEF T
<1>3. Nat \subseteq T
  BY <1>1, <1>2, Induction
<1>4. PICK x : x \in S
  OBVIOUS
<1>5. x \in Nat /\ x+1 \in Nat
  BY <1>4
<1>6. x+1 <= x
  BY <1>3, <1>4, <1>5 DEF T
<1> QED
  BY <1>5, <1>6

\* The recursion of Filtered has a solution.
LEMMA FilteredDefined ==
  ASSUME NEW T, NEW s \in Seq(T), NEW S
  PROVE  /\ Filtered(s, S)[0] = <<>>
         /\ \A i \in 1 .. Len(s) :
              Filtered(s, S)[i] = IF s[i] \in S THEN Append(Filtered(s, S)[i-1], s[i])
                                  ELSE Filtered(s, S)[i-1]
<1> DEFINE Step(c, i) == IF i = 0 THEN <<>>
                         ELSE IF s[i] \in S THEN Append(c[i-1], s[i]) ELSE c[i-1]
           Upto(c, m) == [i \in 0 .. m |-> Step(c, i)]
           Solved == {n \in Nat : \E c : c = Upto(c, n)}
<1>1. 0 \in Solved
  <2>1. Upto(<<>>, 0) = Upto(Upto(<<>>, 0), 0)
    OBVIOUS
  <2>2. QED
    BY <2>1
<1>2. \A n \in Nat : n \in Solved => n+1 \in Solved
  <2>1. SUFFICES ASSUME NEW n \in Nat, n \in Solved PROVE n+1 \in Solved
    OBVIOUS
  <2>2. PICK c : c = Upto(c, n)
    BY <2>1
  <2> DEFINE d == Upto(c, n+1)
  <2>3. \A i \in 0 .. n : c[i] = d[i]
    <3>1. \A i \in 0 .. n : c[i] = Step(c, i)
      BY <2>2
    <3>2. QED
      BY <3>1
  <2>4. Upto(d, n+1) = Upto(c, n+1)
    <3> HIDE DEF d
    <3>1. \A i \in 0 .. n+1 : i # 0 => d[i-1] = c[i-1]
      BY <2>3
    <3>2. QED
      BY <3>1
  <2>5. d = Upto(d, n+1)
    <3> HIDE DEF Upto
    <3>1. QED
      BY <2>4
  <2> HIDE DEF d, Upto
  <2>6. QED
    BY <2>5
<1>3. Len(s) \in Solved
  <2> HIDE DEF Solved
  <2>1. QED
    BY <1>1, <1>2, Induction
<1>4. PICK c : c = Upto(c, Len(s))
  BY <1>3
<1>5. Filtered(s, S) = Upto(Filtered(s, S), Len(s))
  BY <1>4 DEF Filtered
<1>6. QED
  <2> DEFINE F == Filtered(s, S)
  <2> HIDE DEF F
  <2>1. \A i \in 0 .. Len(s) : F[i] = Step(F, i)
    BY <1>5 DEF F
  <2>2. Len(s) \in Nat
    OBVIOUS
  <2>3. QED
    BY <2>1, <2>2 DEF F

\* The elements kept of the first n elements depend on these alone.
LEMMA FilteredPrefix ==
  ASSUME NEW T, NEW s \in Seq(T), NEW t \in Seq(T), NEW S,
         Len(s) <= Len(t), \A i \in 1 .. Len(s) : s[i] = t[i]
  PROVE  \A n \in 0 .. Len(s) : Filtered(s, S)[n] = Filtered(t, S)[n]
<1> DEFINE F == Filtered(s, S)
           G == Filtered(t, S)
           Same == {n \in Nat : n <= Len(s) => F[n] = G[n]}
<1>1. F[0] = G[0]
  BY FilteredDefined
<1>2. \A i \in 1 .. Len(s) : /\ F[i] = IF s[i] \in S THEN Append(F[i-1], s[i]) ELSE F[i-1]
                             /\ G[i] = IF t[i] \in S THEN Append(G[i-1], t[i]) ELSE G[i-1]
  <2>1. \A i \in 1 .. Len(s) : i \in 1 .. Len(t)
    OBVIOUS
  <2>2. QED
    BY <2>1, FilteredDefined
<1> HIDE DEF F, G
<1>3. 0 \in Same
  BY <1>1
<1>4. \A n \in Nat : n \in Same => n+1 \in Same
  BY <1>2
<1>5. Nat \subseteq Same
  <2> HIDE DEF Same
  <2>1. QED
    BY <1>3, <1>4, Induction
<1>6. QED
  BY <1>5 DEF F, G

LEMMA KeptEmpty == \A S : Kept(<<>>, S) = <<>>
<1>1. SUFFICES ASSUME NEW S PROVE Kept(<<>>, S) = <<>>
  OBVIOUS
<1> DEFINE none == <<>>
<1>2. none \in Seq({}) /\ Len(none) = 0
  OBVIOUS
<1>3. Filtered(none, S)[0] = <<>>
  <2>1. none \in Seq({})
    BY <1>2
  <2> HIDE DEF none
  <2>2. QED
    BY ONLY <2>1, FilteredDefined
<1>4. QED
  BY <1>2, <1>3 DEF Kept

LEMMA KeptAppend ==
  ASSUME NEW T, NEW s \in Seq(T), NEW x \in T, NEW S
  PROVE  Kept(Append(s, x), S) = IF x \in S THEN Append(Kept(s, S), x) ELSE Kept(s, S)
<1> DEFINE t == Append(s, x)
           n == Len(s)
<1>1. /\ t \in Seq(T) /\ Len(t) = n + 1 /\ n \in Nat
      /\ \A i \in 1 .. n : s[i] = t[i]
      /\ t[n+1] = x
  BY AppendProperties
<1> HIDE DEF t
<1>2. Filtered(t, S)[n+1] = IF x \in S THEN Append(Filtered(t, S)[n], x) ELSE Filtered(t, S)[n]
  BY <1>1, FilteredDefined
<1>3. Filtered(s, S)[n] = Filtered(t, S)[n]
  BY <1>1, FilteredPrefix
<1>4. QED
  BY <1>1, <1>2, <1>3 DEF Kept, t

\* What a list keeps is a list of its elements.
LEMMA KeptType ==
  ASSUME NEW T, NEW s \in Seq(T), NEW S
  PROVE  Kept(s, S) \in Seq(T)
<1> DEFINE F == Filtered(s, S)
           Fine == {n \in Nat : n <= Len(s) => F[n] \in Seq(T)}
<1>1. F[0] = <<>>
  BY FilteredDefined
<1>2. \A i \in 1 .. Len(s) : F[i] = IF s[i] \in S THEN Append(F[i-1], s[i]) ELSE F[i-1]
  BY FilteredDefined
<1> HIDE DEF F
<1>3. 0 \in Fine
  BY <1>1, EmptySeq
<1>4. \A n \in Nat : n \in Fine => n+1 \in Fine
  <2>1. SUFFICES ASSUME NEW n \in Nat, n \in Fine, n+1 <= Len(s)
                 PROVE  F[n+1] \in Seq(T)
    OBVIOUS
  <2>2. F[n] \in Seq(T) /\ s[n+1] \in T
    BY <2>1
  <2>3. F[n+1] = IF s[n+1] \in S THEN Append(F[n], s[n+1]) ELSE F[n]
    BY <1>2, <2>1
  <2>4. CASE s[n+1] \in S
    BY <2>2, <2>3, <2>4, AppendProperties
  <2>5. CASE s[n+1] \notin S
    BY <2>2, <2>3, <2>5
  <2>6. QED
    BY <2>4, <2>5
<1>5. Nat \subseteq Fine
  <2> HIDE DEF Fine
  <2>1. QED
    BY <1>3, <1>4, Induction
<1>6. Len(s) \in Nat /\ Len(s) \in Fine
  BY <1>5
<1>7. QED
  BY <1>6 DEF Kept, F

\* An element appended to a join is appended to its second list.  The names keep the
\* instance of the lemma recognisable where it is cited.
Joined(s, t) == s \o t
Extended(s, x) == Append(s, x)

LEMMA ExtendedJoined ==
  ASSUME NEW T, NEW s \in Seq(T), NEW t \in Seq(T), NEW x \in T
  PROVE  Extended(Joined(s, t), x) = Joined(s, Extended(t, x))
BY DEF Joined, Extended

\* Two lists joined keep what the first keeps and then what the second keeps.
LEMMA KeptConcat ==
  ASSUME NEW T, NEW s \in Seq(T), NEW t \in Seq(T), NEW S
  PROVE  Kept(s \o t, S) = Kept(s, S) \o Kept(t, S)
<1> DEFINE Joins(u) == Kept(s \o u, S) = Kept(s, S) \o Kept(u, S)
           Fine == {n \in Nat : \A u \in Seq(T) : Len(u) = n => Joins(u)}
<1>1. Kept(s, S) \in Seq(T)
  BY KeptType
<1>2. 0 \in Fine
  <2>1. SUFFICES ASSUME NEW u \in Seq(T), Len(u) = 0 PROVE Joins(u)
    OBVIOUS
  <2>2. u = <<>>
    BY <2>1
  <2>3. s \o <<>> = s /\ Kept(s, S) \o <<>> = Kept(s, S)
    BY <1>1, ConcatEmptySeq
  <2>4. QED
    BY <2>2, <2>3, KeptEmpty
<1>3. \A n \in Nat : n \in Fine => n+1 \in Fine
  <2> HIDE DEF Joins
  <2>1. SUFFICES ASSUME NEW n \in Nat, n \in Fine, NEW u \in Seq(T), Len(u) = n+1
                 PROVE  Joins(u)
    OBVIOUS
  <2>2. PICK v \in Seq(T), x \in T : u = Append(v, x)
    <3>1. u # <<>>
      BY <2>1
    <3>2. QED
      BY <3>1, SequenceEmptyOrAppend
  <2>3. Len(v) = n
    BY <2>1, <2>2
  <2>4. Joins(v)
    BY <2>1, <2>3
  <2> DEFINE p == s \o v
  <2>5. s \o u = Append(p, x) /\ p \in Seq(T)
    BY <2>2
  <2> HIDE DEF p
  <2>6. Kept(s \o u, S) = IF x \in S THEN Append(Kept(p, S), x) ELSE Kept(p, S)
    <3>1. Kept(Append(p, x), S) = IF x \in S THEN Append(Kept(p, S), x) ELSE Kept(p, S)
      BY <2>5, KeptAppend
    <3>2. QED
      BY <2>5, <3>1
  <2>7. Kept(u, S) = IF x \in S THEN Append(Kept(v, S), x) ELSE Kept(v, S)
    BY <2>2, KeptAppend
  <2>8. Kept(v, S) \in Seq(T)
    BY KeptType
  <2>9. Kept(p, S) = Kept(s, S) \o Kept(v, S)
    BY <2>4 DEF p, Joins
  <2>10. CASE x \in S
    <3>1. Extended(Joined(Kept(s, S), Kept(v, S)), x)
            = Joined(Kept(s, S), Extended(Kept(v, S), x))
      BY <1>1, <2>8, ExtendedJoined
    <3>2. QED
      BY <2>6, <2>7, <2>9, <2>10, <3>1 DEF Joins, Joined, Extended
  <2>11. CASE x \notin S
    BY <2>6, <2>7, <2>9, <2>11 DEF Joins
  <2>12. QED
    BY <2>10, <2>11
<1>4. Nat \subseteq Fine
  <2> HIDE DEF Fine
  <2>1. QED
    BY <1>2, <1>3, Induction
<1>5. Len(t) \in Nat
  OBVIOUS
<1>6. QED
  BY <1>4, <1>5

\* A single element is kept or not.
LEMMA KeptOne ==
  ASSUME NEW T, NEW x \in T, NEW S
  PROVE  Kept(<<x>>, S) = IF x \in S THEN <<x>> ELSE <<>>
<1> DEFINE e == <<>>
<1>1. <<x>> = Append(e, x) /\ e \in Seq(T) /\ Kept(e, S) = e
  BY KeptEmpty
<1> HIDE DEF e
<1>2. Kept(Append(e, x), S) = IF x \in S THEN Append(e, x) ELSE e
  BY <1>1, KeptAppend
<1>3. QED
  BY <1>1, <1>2 DEF e

\* A list without its head keeps the same but for the head.
LEMMA KeptTail ==
  ASSUME NEW T, NEW s \in Seq(T), s # <<>>, NEW S
  PROVE  /\ Head(s) \in T /\ Tail(s) \in Seq(T)
         /\ Kept(s, S) = IF Head(s) \in S THEN <<Head(s)>> \o Kept(Tail(s), S)
                         ELSE Kept(Tail(s), S)
<1> DEFINE h == <<Head(s)>>
           t == Tail(s)
<1>1. Head(s) \in T /\ h \in Seq(T) /\ t \in Seq(T) /\ s = h \o t
  OBVIOUS
<1>2. Kept(h, S) = IF Head(s) \in S THEN h ELSE <<>>
  BY <1>1, KeptOne
<1> HIDE DEF h, t
<1>3. Kept(s, S) = Kept(h, S) \o Kept(t, S)
  BY <1>1, KeptConcat
<1>4. Kept(t, S) \in Seq(T)
  BY <1>1, KeptType
<1>5. <<>> \o Kept(t, S) = Kept(t, S)
  BY <1>4, ConcatEmptySeq
<1>6. QED
  BY <1>1, <1>2, <1>3, <1>5 DEF h, t

\* A list keeps nothing exactly when none of its elements lies in the set.
LEMMA KeptRest ==
  ASSUME NEW T, NEW s \in Seq(T), s # <<>>, NEW S, Head(s) \notin S
  PROVE  Kept(s, S) = Kept(Tail(s), S)
<1> DEFINE h == Head(s)
           first == <<Head(s)>> \o Kept(Tail(s), S)
           rest == Kept(Tail(s), S)
<1>1. Kept(s, S) = IF h \in S THEN first ELSE rest
  <2>1. s \in Seq(T) /\ s # <<>>
    OBVIOUS
  <2> QED
    BY ONLY <2>1, KeptTail
<1> HIDE DEF first, rest
<1>2. QED
  BY <1>1 DEF rest

LEMMA KeptNothing ==
  ASSUME NEW T, NEW s \in Seq(T), NEW S
  PROVE  Kept(s, S) = <<>> <=> \A k \in 1 .. Len(s) : s[k] \notin S
<1> DEFINE F == Filtered(s, S)
           Fine == {n \in Nat : n <= Len(s) =>
                      /\ F[n] \in Seq(T)
                      /\ F[n] = <<>> <=> \A k \in 1 .. n : s[k] \notin S}
<1>1. F[0] = <<>>
  BY FilteredDefined
<1>2. \A i \in 1 .. Len(s) : F[i] = IF s[i] \in S THEN Append(F[i-1], s[i]) ELSE F[i-1]
  BY FilteredDefined
<1> HIDE DEF F
<1>3. 0 \in Fine
  <2>1. F[0] \in Seq(T) /\ F[0] = <<>> /\ 1 .. 0 = {}
    BY <1>1
  <2>2. QED
    BY <2>1
<1>4. \A n \in Nat : n \in Fine => n+1 \in Fine
  <2>1. SUFFICES ASSUME NEW n \in Nat, n \in Fine, n+1 <= Len(s)
                 PROVE  /\ F[n+1] \in Seq(T)
                        /\ F[n+1] = <<>> <=> \A k \in 1 .. n+1 : s[k] \notin S
    OBVIOUS
  <2>2. F[n] \in Seq(T) /\ s[n+1] \in T
    BY <2>1
  <2>3. F[n] = <<>> <=> \A k \in 1 .. n : s[k] \notin S
    BY <2>1
  <2>4. F[n+1] = IF s[n+1] \in S THEN Append(F[n], s[n+1]) ELSE F[n]
    BY <1>2, <2>1
  <2>5. 1 .. n+1 = (1 .. n) \cup {n+1}
    OBVIOUS
  <2>6. CASE s[n+1] \in S
    <3>1. F[n+1] \in Seq(T) /\ F[n+1] # <<>>
      BY <2>2, <2>4, <2>6, AppendProperties
    <3>2. QED
      BY <3>1, <2>5, <2>6
  <2>7. CASE s[n+1] \notin S
    BY <2>2, <2>3, <2>4, <2>5, <2>7
  <2>8. QED
    BY <2>6, <2>7
<1>5. Nat \subseteq Fine
  <2> HIDE DEF Fine
  <2>1. QED
    BY <1>3, <1>4, Induction
<1>6. Len(s) \in Nat /\ Len(s) \in Fine
  BY <1>5
<1>7. QED
  BY <1>6 DEF Kept, F

\* KeptConcat for the names of a join, and what follows of lists without common elements.
LEMMA KeptJoined ==
  ASSUME NEW T, NEW s \in Seq(T), NEW t \in Seq(T), NEW S
  PROVE  /\ Joined(s, t) \in Seq(T)
         /\ Kept(Joined(s, t), S) = Joined(Kept(s, S), Kept(t, S))
<1>1. s \o t \in Seq(T)
  OBVIOUS
<1>2. Kept(s \o t, S) = Kept(s, S) \o Kept(t, S)
  BY KeptConcat
<1>3. QED
  BY <1>1, <1>2 DEF Joined

LEMMA KeptNone ==
  ASSUME NEW T, NEW S, T \cap S = {}, NEW s \in Seq(T)
  PROVE  Kept(s, S) = <<>>
<1>1. \A k \in 1 .. Len(s) : s[k] \notin S
  OBVIOUS
<1>2. QED
  BY <1>1, KeptNothing

LEMMA JoinedEmpty ==
  ASSUME NEW T, NEW s \in Seq(T), NEW t \in Seq(T)
  PROVE  /\ s = <<>> => Joined(s, t) = t
         /\ t = <<>> => Joined(s, t) = s
         /\ s # <<>> \/ t # <<>> => Joined(s, t) # <<>>
         /\ Len(Joined(s, t)) = Len(s) + Len(t)
BY DEF Joined

LEMMA JoinedOnce ==
  ASSUME NEW T, NEW s \in Seq(T), NEW t \in Seq(T), NEW a \in T, NEW b \in T,
         Joined(<<a>>, s) = Joined(<<b>>, t)
  PROVE  a = b /\ s = t
<1>1. /\ <<a>> \o s = <<b>> \o t
      /\ Head(<<a>> \o s) = a /\ Head(<<b>> \o t) = b
      /\ Tail(<<a>> \o s) = s /\ Tail(<<b>> \o t) = t
  BY DEF Joined
<1>2. QED
  BY <1>1

LEMMA JoinedShort ==
  ASSUME NEW x, NEW y, NEW z
  PROVE  Joined(<<x>>, <<y>>) = <<x, y>> /\ Joined(<<x, y>>, <<z>>) = <<x, y, z>>
<1> DEFINE T == {x, y, z}
           two == <<x, y>>
           three == <<x, y, z>>
<1>1. /\ <<x>> \in Seq(T) /\ <<y>> \in Seq(T) /\ <<z>> \in Seq(T)
      /\ two \in Seq(T) /\ three \in Seq(T)
  OBVIOUS
<1>2. /\ Len(<<x>>) = 1 /\ Len(<<y>>) = 1 /\ Len(<<z>>) = 1 /\ Len(two) = 2 /\ Len(three) = 3
      /\ <<x>>[1] = x /\ <<y>>[1] = y /\ <<z>>[1] = z /\ two[1] = x /\ two[2] = y
      /\ three[1] = x /\ three[2] = y /\ three[3] = z
  OBVIOUS
<1>3. /\ <<x>> \o <<y>> \in Seq(T) /\ Len(<<x>> \o <<y>>) = 2
      /\ (<<x>> \o <<y>>)[1] = x /\ (<<x>> \o <<y>>)[2] = y
  BY <1>1, <1>2, ConcatProperties
<1>4. /\ two \o <<z>> \in Seq(T) /\ Len(two \o <<z>>) = 3
      /\ (two \o <<z>>)[1] = x /\ (two \o <<z>>)[2] = y /\ (two \o <<z>>)[3] = z
  BY <1>1, <1>2, ConcatProperties
<1> HIDE DEF two, three
<1>5. <<x>> \o <<y>> = two
  <2> DEFINE j == <<x>> \o <<y>>
  <2>1. j \in Seq(T) /\ Len(j) = 2 /\ j[1] = x /\ j[2] = y
    BY <1>3
  <2> HIDE DEF j
  <2>2. j = two
    BY <1>1, <1>2, <2>1, SeqEqual
  <2>3. QED
    BY <2>2 DEF j
<1>6. two \o <<z>> = three
  BY <1>1, <1>2, <1>4, SeqEqual
<1>7. QED
  BY <1>5, <1>6 DEF two, three, Joined

LEMMA JoinedAssociative ==
  ASSUME NEW T, NEW s \in Seq(T), NEW t \in Seq(T), NEW u \in Seq(T)
  PROVE  Joined(Joined(s, t), u) = Joined(s, Joined(t, u))
BY DEF Joined

LEMMA OccurrencesFinite ==
  ASSUME NEW T, NEW s \in Seq(T), NEW x
  PROVE  /\ IsFiniteSet({k \in DOMAIN s : s[k] = x})
         /\ Occurrences(s, x) \in Nat
<1>1. DOMAIN s = 1 .. Len(s) /\ Len(s) \in Nat
  OBVIOUS
<1>2. IsFiniteSet(DOMAIN s)
  BY <1>1, FS_Interval
<1>3. IsFiniteSet({k \in DOMAIN s : s[k] = x})
  BY <1>2, FS_Subset
<1>4. QED
  BY <1>3, FS_CardinalityType DEF Occurrences

LEMMA OccurrencesAppend ==
  ASSUME NEW T, NEW s \in Seq(T), NEW y \in T, NEW x
  PROVE  Occurrences(Append(s, y), x) = Occurrences(s, x) + (IF y = x THEN 1 ELSE 0)
<1> DEFINE t == Append(s, y)
           n == Len(s) + 1
           S == {k \in DOMAIN s : s[k] = x}
<1>1. /\ DOMAIN s = 1 .. Len(s) /\ Len(s) \in Nat /\ DOMAIN t = 1 .. n
      /\ \A k \in 1 .. Len(s) : t[k] = s[k]
      /\ t[n] = y
  BY AppendProperties
<1>2. IsFiniteSet(S) /\ n \notin S /\ Cardinality(S) \in Nat
  <2>1. IsFiniteSet(S)
    BY OccurrencesFinite
  <2>2. n \notin S
    BY <1>1
  <2>3. QED
    BY <2>1, <2>2, FS_CardinalityType
<1>3. CASE y = x
  <2>1. {k \in DOMAIN t : t[k] = x} = S \cup {n}
    BY <1>1, <1>3
  <2>2. Cardinality(S \cup {n}) = Cardinality(S) + 1
    BY <1>2, FS_AddElement
  <2>3. QED
    BY <1>3, <2>1, <2>2 DEF Occurrences
<1>4. CASE y # x
  <2>1. {k \in DOMAIN t : t[k] = x} = S
    BY <1>1, <1>4
  <2>2. Occurrences(t, x) = Cardinality(S) /\ Occurrences(s, x) = Cardinality(S)
    BY <2>1 DEF Occurrences
  <2>3. QED
    BY <1>2, <1>4, <2>2
<1>5. QED
  BY <1>3, <1>4

\* A list is the join of two others if it continues the first with the second.
LEMMA Continued ==
  ASSUME NEW S, NEW f \in Seq(S), NEW g \in Seq(S), NEW h \in Seq(S),
         Len(h) = Len(f) + Len(g),
         \A k \in 1 .. Len(f) : h[k] = f[k],
         \A k \in 1 .. Len(g) : h[Len(f) + k] = g[k]
  PROVE  f \o g = h
<1> DEFINE fg == f \o g
           n == Len(f)
           t == Len(g)
<1>1. /\ fg \in Seq(S) /\ Len(fg) = n + t
      /\ \A k \in 1 .. n + t : fg[k] = IF k <= n THEN f[k] ELSE g[k - n]
  BY ConcatProperties
<1>2. n \in Nat /\ t \in Nat
  OBVIOUS
<1> HIDE DEF fg, n, t
<1>3. ASSUME NEW k \in 1 .. n + t
      PROVE  fg[k] = h[k]
  <2>1. CASE k <= n
    <3>1. fg[k] = f[k]
      BY <1>1, <2>1
    <3>2. k \in 1 .. n
      BY <1>2, <2>1
    <3> QED
      BY <3>1, <3>2 DEF n
  <2>2. CASE ~(k <= n)
    <3>1. k - n \in 1 .. t /\ n + (k - n) = k
      BY <1>2, <2>2
    <3>2. fg[k] = g[k - n]
      BY <1>1, <2>2
    <3>3. h[n + (k - n)] = g[k - n]
      BY <3>1 DEF n, t
    <3> QED
      BY <3>1, <3>2, <3>3
  <2> QED
    BY <2>1, <2>2
<1>4. Len(fg) = Len(h) /\ Len(fg) = n + t
  BY <1>1 DEF n, t
<1>5. fg = h
  BY <1>1, <1>3, <1>4, SeqEqual
<1> QED
  BY <1>5 DEF fg

------------------------------------------------------------------------------

\* Two sets without a common element.
LEMMA SizesAdd ==
  ASSUME NEW A, NEW B, IsFiniteSet(A), IsFiniteSet(B), A \cap B = {}
  PROVE  Cardinality(A \cup B) = Cardinality(A) + Cardinality(B)
<1> DEFINE a == Cardinality(A)
           b == Cardinality(B)
           none == Cardinality({})
<1>1. a \in Nat /\ b \in Nat /\ none = 0
  BY FS_CardinalityType, FS_EmptySet
<1>2. Cardinality(A \cup B) = a + b - none
  BY FS_Union
<1> HIDE DEF a, b, none
<1>3. Cardinality(A \cup B) = a + b
  BY <1>1, <1>2
<1> QED
  BY <1>3 DEF a, b

\* Sets that are mapped one to one onto each other have the same size.
LEMMA SameSize ==
  ASSUME NEW A, NEW B, IsFiniteSet(A), NEW f \in [A -> B],
         \A x, y \in A : f[x] = f[y] => x = y, \A z \in B : \E x \in A : f[x] = z
  PROVE  IsFiniteSet(B) /\ Cardinality(B) = Cardinality(A)
<1>1. f \in Surjection(A, B)
  BY DEF Surjection
<1>2. f \in Injection(A, B)
  BY DEF Injection, IsInjective
<1> QED
  BY <1>1, <1>2, FS_Surjection

\* A rearrangement of finitely many places misses none of them.
LEMMA EveryPlaceTaken ==
  ASSUME NEW n \in Nat, NEW f \in [0 .. n-1 -> 0 .. n-1],
         \A p, q \in 0 .. n-1 : f[p] = f[q] => p = q
  PROVE  \A d \in 0 .. n-1 : \E p \in 0 .. n-1 : f[p] = d
<1>1. IsFiniteSet(0 .. n-1)
  BY FS_Interval
<1>2. f \in Injection(0 .. n-1, 0 .. n-1)
  BY DEF Injection, IsInjective
<1>3. f \in Surjection(0 .. n-1, 0 .. n-1)
  BY <1>1, <1>2, FS_Injection
<1> QED
  BY <1>3 DEF Surjection

\* How often x occurs in two lists joined.
LEMMA OccurrencesConcat ==
  ASSUME NEW T, NEW s \in Seq(T), NEW t \in Seq(T), NEW x
  PROVE  Occurrences(s \o t, x) = Occurrences(s, x) + Occurrences(t, x)
<1> DEFINE n == Len(s)
           m == Len(t)
           st == s \o t
           A == {k \in DOMAIN s : s[k] = x}
           B == {k \in DOMAIN t : t[k] = x}
           C == {k \in n + 1 .. n + m : t[k - n] = x}
           shift == [k \in B |-> n + k]
<1>1. /\ n \in Nat /\ m \in Nat /\ DOMAIN s = 1 .. n /\ DOMAIN t = 1 .. m
      /\ DOMAIN st = 1 .. n + m
      /\ \A k \in 1 .. n + m : st[k] = IF k <= n THEN s[k] ELSE t[k - n]
  BY ConcatProperties
<1>2. IsFiniteSet(A) /\ IsFiniteSet(B)
  BY OccurrencesFinite
<1> HIDE DEF st, n, m
<1>3. {k \in DOMAIN st : st[k] = x} = A \cup C
  BY <1>1
<1>4. A \cap C = {}
  BY <1>1
<1>5. shift \in [B -> C]
  BY <1>1
<1>6. \A j, k \in B : shift[j] = shift[k] => j = k
  BY <1>1
<1>7. \A c \in C : \E k \in B : shift[k] = c
  <2> SUFFICES ASSUME NEW c \in C PROVE \E k \in B : shift[k] = c
    OBVIOUS
  <2>1. c - n \in B /\ shift[c - n] = c
    BY <1>1
  <2> QED
    BY <2>1
<1> HIDE DEF A, B, C, shift
<1>8. IsFiniteSet(C) /\ Cardinality(C) = Cardinality(B)
  BY <1>2, <1>5, <1>6, <1>7, SameSize
<1>9. Cardinality(A \cup C) = Cardinality(A) + Cardinality(C)
  BY <1>2, <1>4, <1>8, SizesAdd
<1> QED
  BY <1>3, <1>8, <1>9 DEF Occurrences, A, B, st

\* A set of places that has with a place all those before it is an initial stretch.
LEMMA InitialStretch ==
  ASSUME NEW n \in Nat, NEW S \in SUBSET (0 .. n-1),
         \A p \in S : \A q \in 0 .. n-1 : q < p => q \in S
  PROVE  Cardinality(S) \in Nat /\ S = 0 .. Cardinality(S) - 1
<1> DEFINE m == Cardinality(S)
<1>1. IsFiniteSet(0 .. n-1)
  BY FS_Interval
<1>2. IsFiniteSet(S)
  BY <1>1, FS_Subset
<1>3. m \in Nat
  BY <1>2, FS_CardinalityType
<1>4. ASSUME NEW p \in S
      PROVE  p \in 0 .. m - 1
  <2>1. p \in Nat /\ 0 .. p \subseteq S
    <3>1. p \in 0 .. n-1
      OBVIOUS
    <3>2. \A q \in 0 .. p : q \in 0 .. n-1 /\ (q < p \/ q = p)
      BY <3>1
    <3> QED
      BY <3>1, <3>2
  <2>2. Cardinality(0 .. p) = p + 1
    BY <2>1, FS_Interval
  <2>3. Cardinality(0 .. p) <= m
    BY <1>2, <2>1, FS_Subset
  <2> HIDE DEF m
  <2> QED
    BY <1>3, <2>1, <2>2, <2>3
<1>5. S \subseteq 0 .. m - 1
  BY <1>4
<1>6. IsFiniteSet(0 .. m - 1) /\ Cardinality(0 .. m - 1) = m
  <2> HIDE DEF m
  <2> QED
    BY <1>3, FS_Interval
<1>7. S = 0 .. m - 1
  BY <1>5, <1>6, FS_Subset
<1> QED
  BY <1>3, <1>7

\* The elements that g gives a value below k.
Below(n, g, k) == {d \in 0 .. n-1 : g[d] < k}

\* In an array that is sorted by g, the elements with a value below k stand first.
LEMMA SortedPlaces ==
  ASSUME NEW n \in Nat, NEW f \in [0 .. n-1 -> 0 .. n-1],
         \A p, q \in 0 .. n-1 : f[p] = f[q] => p = q,
         NEW g \in [0 .. n-1 -> Int],
         \A p, q \in 0 .. n-1 : p < q => g[f[p]] <= g[f[q]],
         NEW k \in Int
  PROVE  /\ Cardinality(Below(n, g, k)) \in Nat
         /\ \A p \in 0 .. n-1 : g[f[p]] < k <=> p < Cardinality(Below(n, g, k))
<1> DEFINE D == 0 .. n-1
           Low == {d \in D : g[d] < k}
           Places == {p \in D : g[f[p]] < k}
           place == [p \in Places |-> f[p]]
<1>1. IsFiniteSet(Places)
  <2>1. IsFiniteSet(D)
    BY FS_Interval
  <2> QED
    BY <2>1, FS_Subset
<1>2. place \in [Places -> Low]
  OBVIOUS
<1>3. \A p, q \in Places : place[p] = place[q] => p = q
  OBVIOUS
<1>4. \A d \in Low : \E p \in Places : place[p] = d
  <2> SUFFICES ASSUME NEW d \in Low PROVE \E p \in Places : place[p] = d
    OBVIOUS
  <2>1. PICK p \in D : f[p] = d
    <3>1. \A e \in 0 .. n-1 : \E p \in 0 .. n-1 : f[p] = e
      BY EveryPlaceTaken, Zenon
    <3> QED
      BY <3>1
  <2>2. p \in Places /\ place[p] = d
    BY <2>1
  <2> QED
    BY <2>2
<1>5. Cardinality(Low) = Cardinality(Places)
  <2> HIDE DEF Places, Low, place
  <2> QED
    BY <1>1, <1>2, <1>3, <1>4, SameSize
<1>6. \A p \in Places : \A q \in D : q < p => q \in Places
  <2> SUFFICES ASSUME NEW p \in Places, NEW q \in D, q < p PROVE q \in Places
    OBVIOUS
  <2>1. g[f[q]] <= g[f[p]] /\ g[f[p]] < k /\ g[f[q]] \in Int /\ g[f[p]] \in Int
    OBVIOUS
  <2> QED
    BY <2>1
<1>7. Cardinality(Places) \in Nat /\ Places = 0 .. Cardinality(Places) - 1
  BY <1>6, InitialStretch
<1>8. \A p \in D : g[f[p]] < k <=> p \in Places
  OBVIOUS
<1> HIDE DEF Places, Low
<1>9. \A p \in D : p \in Places <=> p < Cardinality(Places)
  BY <1>7
<1>10. Cardinality(Low) \in Nat /\ \A p \in D : g[f[p]] < k <=> p < Cardinality(Low)
  BY <1>5, <1>7, <1>8, <1>9
<1> QED
  BY <1>10 DEF Low, Below

------------------------------------------------------------------------------

\* How many elements of a set are smaller than x.
Rank(S, x) == Cardinality({y \in S : y < x})

\* The rank is a natural number below the size of the set, and a larger element has a
\* larger one.
LEMMA RankGrows ==
  ASSUME NEW S \in SUBSET Int, IsFiniteSet(S)
  PROVE  /\ \A x \in S : Rank(S, x) \in Nat /\ Rank(S, x) < Cardinality(S)
         /\ \A x, z \in S : x < z => Rank(S, x) < Rank(S, z)
         /\ \A x, z \in S : Rank(S, x) = Rank(S, z) => x = z
<1>1. ASSUME NEW x \in S
      PROVE  /\ IsFiniteSet({y \in S : y < x}) /\ Rank(S, x) \in Nat
             /\ Rank(S, x) < Cardinality(S)
  <2> DEFINE Smaller == {y \in S : y < x}
  <2>1. Smaller \in SUBSET S /\ Smaller # S
    OBVIOUS
  <2>2. /\ IsFiniteSet(Smaller) /\ Cardinality(Smaller) <= Cardinality(S)
        /\ Cardinality(S) = Cardinality(Smaller) => S = Smaller
    BY <2>1, FS_Subset
  <2>3. Cardinality(Smaller) \in Nat /\ Cardinality(S) \in Nat
    BY <2>2, FS_CardinalityType
  <2> QED
    BY <2>1, <2>2, <2>3 DEF Rank
<1>2. ASSUME NEW x \in S, NEW z \in S, x < z
      PROVE  Rank(S, x) < Rank(S, z)
  <2> DEFINE BelowX == {y \in S : y < x}
             BelowZ == {y \in S : y < z}
  <2>1. BelowX \in SUBSET BelowZ /\ BelowX # BelowZ
    <3>1. x \in BelowZ /\ x \notin BelowX
      BY <1>2
    <3>2. \A y \in S : y < x => y < z
      BY <1>2
    <3> QED
      BY <3>1, <3>2
  <2>2. IsFiniteSet(BelowZ)
    BY <1>1
  <2>3. /\ Cardinality(BelowX) <= Cardinality(BelowZ)
        /\ Cardinality(BelowZ) = Cardinality(BelowX) => BelowZ = BelowX
    BY <2>1, <2>2, FS_Subset
  <2>4. Rank(S, x) \in Nat /\ Rank(S, z) \in Nat
    BY <1>1
  <2> QED
    BY <2>1, <2>3, <2>4 DEF Rank
<1>3. ASSUME NEW x \in S, NEW z \in S, Rank(S, x) = Rank(S, z)
      PROVE  x = z
  <2>1. x \in Int /\ z \in Int /\ Rank(S, x) \in Nat
    BY <1>1
  <2>2. ~(x < z) /\ ~(z < x)
    BY <1>2, <1>3, <2>1
  <2> QED
    BY <2>1, <2>2
<1> QED
  BY <1>1, <1>2, <1>3

\* The places in the order are 0 .. n-1, each of one element.
LEMMA RankIsBijective ==
  ASSUME NEW S \in SUBSET Int, IsFiniteSet(S)
  PROVE  \A i \in 1 .. Cardinality(S) : \E x \in S : Rank(S, x) = i - 1
<1> DEFINE n == Cardinality(S)
           place == [x \in S |-> Rank(S, x) + 1]
<1>1. n \in Nat
  BY FS_CardinalityType
<1>2. IsFiniteSet(1 .. n) /\ Cardinality(1 .. n) = n
  BY <1>1, FS_Interval
<1>3. \A x \in S : Rank(S, x) \in Nat /\ Rank(S, x) < n
  BY RankGrows
<1>4. place \in [S -> 1 .. n]
  BY <1>1, <1>3
<1>5. \A x, z \in S : place[x] = place[z] => x = z
  BY <1>3, RankGrows
<1>6. place \in Injection(S, 1 .. n)
  BY <1>4, <1>5 DEF Injection, IsInjective
<1>7. place \in Surjection(S, 1 .. n)
  BY <1>2, <1>6, FS_Injection
<1>8. \A i \in 1 .. n : \E x \in S : place[x] = i
  BY <1>7 DEF Surjection
<1> QED
  BY <1>3, <1>8

\* Ordered lists every element of a finite set once, in increasing order: what the code
\* relies on std::set and std::sort for.
THEOREM OrderedEnumerates ==
  ASSUME NEW S \in SUBSET Int, IsFiniteSet(S)
  PROVE  /\ Ordered(S) \in [1 .. Cardinality(S) -> S]
         /\ Ordered(S) \in Seq(S) /\ Len(Ordered(S)) = Cardinality(S)
         /\ \A i, j \in 1 .. Cardinality(S) : i < j => Ordered(S)[i] < Ordered(S)[j]
         /\ \A x \in S : \E i \in 1 .. Cardinality(S) : Ordered(S)[i] = x
<1> DEFINE n == Cardinality(S)
<1>1. n \in Nat
  BY FS_CardinalityType
<1>2. ASSUME NEW i \in 1 .. n
      PROVE  Ordered(S)[i] \in S /\ Rank(S, Ordered(S)[i]) = i - 1
  <2>1. \E x \in S : Cardinality({y \in S : y < x}) = i - 1
    BY RankIsBijective DEF Rank
  <2>2. Ordered(S)[i] = CHOOSE x \in S : Cardinality({y \in S : y < x}) = i - 1
    BY DEF Ordered
  <2> QED
    BY <2>1, <2>2 DEF Rank
<1>3. Ordered(S) = [i \in 1 .. n |-> CHOOSE x \in S : Cardinality({y \in S : y < x}) = i - 1]
  BY DEF Ordered
<1>4. Ordered(S) \in [1 .. n -> S]
  <2>1. \A i \in 1 .. n : (CHOOSE x \in S : Cardinality({y \in S : y < x}) = i - 1) \in S
    BY RankIsBijective DEF Rank
  <2> QED
    BY <1>3, <2>1
<1>5. Ordered(S) \in Seq(S) /\ Len(Ordered(S)) = n
  BY <1>1, <1>4
<1>6. ASSUME NEW i \in 1 .. n, NEW j \in 1 .. n, i < j
      PROVE  Ordered(S)[i] < Ordered(S)[j]
  <2>1. Ordered(S)[i] \in Int /\ Ordered(S)[j] \in Int
    BY <1>2
  <2>2. CASE Ordered(S)[j] < Ordered(S)[i]
    <3>1. Rank(S, Ordered(S)[j]) < Rank(S, Ordered(S)[i])
      BY <1>2, <2>2, RankGrows
    <3> QED
      BY <3>1, <1>2, <1>6
  <2>3. CASE Ordered(S)[j] = Ordered(S)[i]
    BY <1>2, <1>6, <2>3
  <2> QED
    BY <2>1, <2>2, <2>3
<1>7. ASSUME NEW x \in S
      PROVE  \E i \in 1 .. n : Ordered(S)[i] = x
  <2> DEFINE i == Rank(S, x) + 1
  <2>1. i \in 1 .. n
    BY <1>1, RankGrows
  <2>2. Ordered(S)[i] \in S /\ Rank(S, Ordered(S)[i]) = Rank(S, x)
    BY <1>2, <2>1, RankGrows
  <2>3. Ordered(S)[i] = x
    <3>1. \A z \in S : Rank(S, z) = Rank(S, x) => z = x
      BY RankGrows
    <3> QED
      BY <2>2, <3>1
  <2> QED
    BY <2>1, <2>3
<1> QED
  BY <1>4, <1>5, <1>6, <1>7

\* A sparse matrix with finitely many columns in use.
SparseMatrix(matrix) ==
  /\ IsFiniteSet(UNION {matrix[k] : k \in DOMAIN matrix})
  /\ \A k \in DOMAIN matrix : matrix[k] \subseteq Int

\* The columns in use are listed by non_empty_outers, each at one position.
LEMMA ColumnsListed ==
  ASSUME NEW matrix, SparseMatrix(matrix)
  PROVE  LET indices == non_empty_outers(matrix)
         IN  /\ \A i \in DOMAIN indices : indices[i] \in Int
             /\ \A i, j \in DOMAIN indices : indices[i] = indices[j] => i = j
             /\ \A k \in DOMAIN matrix : \A c \in matrix[k] :
                  \E i \in DOMAIN indices : indices[i] = c
<1> DEFINE S == UNION {matrix[k] : k \in DOMAIN matrix}
           indices == non_empty_outers(matrix)
<1>1. S \in SUBSET Int /\ IsFiniteSet(S) /\ indices = Ordered(S)
  BY DEF SparseMatrix, non_empty_outers
<1>2. Cardinality(S) \in Nat
  BY <1>1, FS_CardinalityType
<1> HIDE DEF S, indices
<1>3. /\ Ordered(S) \in [1 .. Cardinality(S) -> S]
      /\ \A i, j \in 1 .. Cardinality(S) : i < j => Ordered(S)[i] < Ordered(S)[j]
      /\ \A x \in S : \E i \in 1 .. Cardinality(S) : Ordered(S)[i] = x
  BY <1>1, OrderedEnumerates
<1>4. DOMAIN indices = 1 .. Cardinality(S)
  BY <1>1, <1>3
<1>5. \A i \in DOMAIN indices : indices[i] \in Int
  BY <1>1, <1>3, <1>4
<1>6. \A i, j \in DOMAIN indices : indices[i] = indices[j] => i = j
  BY <1>1, <1>2, <1>3, <1>4, <1>5
<1>7. \A k \in DOMAIN matrix : matrix[k] \subseteq S
  BY DEF S
<1>8. \A k \in DOMAIN matrix : \A c \in matrix[k] : \E i \in DOMAIN indices : indices[i] = c
  BY <1>1, <1>3, <1>4, <1>7
<1> QED
  BY <1>5, <1>6, <1>8 DEF indices

\* Degridding with the compressed matrix (utilities.h, sparse_multiply_matrix, after
\* IndexMapping::operator()): the cells selected for the columns in use give every row
\* the product with the whole vector, for every matrix, vector and start index.
THEOREM CompressedProduct ==
  ASSUME NEW matrix, SparseMatrix(matrix), NEW start \in Int, NEW x
  PROVE  Multiply(compress_outer(matrix), Select(non_empty_outers(matrix), start, x))
           = [k \in DOMAIN matrix |-> UNION {x[c - start] : c \in matrix[k]}]
<1> DEFINE indices == non_empty_outers(matrix)
           selected == Select(indices, start, x)
           compressed == compress_outer(matrix)
<1>1. /\ DOMAIN compressed = DOMAIN matrix
      /\ \A k \in DOMAIN matrix : compressed[k] = {i \in DOMAIN indices : indices[i] \in matrix[k]}
  BY DEF compress_outer
<1>2. \A i \in DOMAIN indices : selected[i] = x[indices[i] - start]
  BY DEF Select
<1>3. \A k \in DOMAIN matrix : \A c \in matrix[k] : \E i \in DOMAIN indices : indices[i] = c
  BY ColumnsListed
<1>4. Multiply(compressed, selected) = [k \in DOMAIN compressed |-> UNION {selected[i] : i \in compressed[k]}]
  BY DEF Multiply
<1> HIDE DEF indices, selected, compressed
<1>5. ASSUME NEW k \in DOMAIN matrix
      PROVE  {selected[i] : i \in compressed[k]} = {x[c - start] : c \in matrix[k]}
  <2>1. ASSUME NEW i \in compressed[k]
        PROVE  \E c \in matrix[k] : selected[i] = x[c - start]
    BY <1>1, <1>2
  <2>2. ASSUME NEW c \in matrix[k]
        PROVE  \E i \in compressed[k] : selected[i] = x[c - start]
    <3>1. PICK i \in DOMAIN indices : indices[i] = c
      BY <1>3
    <3>2. i \in compressed[k] /\ selected[i] = x[c - start]
      BY <1>1, <1>2, <3>1
    <3> QED
      BY <3>2
  <2> QED
    BY <2>1, <2>2
<1>6. Multiply(compressed, selected) = [k \in DOMAIN matrix |-> UNION {x[c - start] : c \in matrix[k]}]
  BY <1>1, <1>4, <1>5
<1> QED
  BY <1>6 DEF indices, selected, compressed

\* Gridding with it (IndexMapping::adjoint): what the compressed adjoint gives for the
\* columns in use, added at their indices, is the product with the whole adjoint.
THEOREM CompressedAdjoint ==
  ASSUME NEW matrix, SparseMatrix(matrix), NEW N \in Nat, NEW y
  PROVE  Accumulate(non_empty_outers(matrix), 0, N,
                    MultiplyAdjoint(compress_outer(matrix), DOMAIN non_empty_outers(matrix), y))
           = MultiplyAdjoint(matrix, 0 .. N-1, y)
<1> DEFINE indices == non_empty_outers(matrix)
           compressed == compress_outer(matrix)
           sums == MultiplyAdjoint(compressed, DOMAIN indices, y)
           Hits(p) == {i \in DOMAIN indices : indices[i] - 0 = p}
<1>1. /\ DOMAIN compressed = DOMAIN matrix
      /\ \A k \in DOMAIN matrix : compressed[k] = {i \in DOMAIN indices : indices[i] \in matrix[k]}
  BY DEF compress_outer
<1>2. \A i \in DOMAIN indices : sums[i] = UNION {y[k] : k \in {j \in DOMAIN compressed : i \in compressed[j]}}
  BY DEF MultiplyAdjoint
<1>3. /\ \A i \in DOMAIN indices : indices[i] \in Int
      /\ \A i, j \in DOMAIN indices : indices[i] = indices[j] => i = j
      /\ \A k \in DOMAIN matrix : \A c \in matrix[k] : \E i \in DOMAIN indices : indices[i] = c
  BY ColumnsListed
<1>4. Accumulate(indices, 0, N, sums) = [p \in 0 .. N-1 |-> UNION {sums[i] : i \in Hits(p)}]
  BY DEF Accumulate
<1>5. MultiplyAdjoint(matrix, 0 .. N-1, y)
        = [p \in 0 .. N-1 |-> UNION {y[k] : k \in {j \in DOMAIN matrix : p \in matrix[j]}}]
  BY DEF MultiplyAdjoint
<1> HIDE DEF indices, compressed, sums
<1>6. ASSUME NEW p \in 0 .. N-1
      PROVE  UNION {sums[i] : i \in Hits(p)}
               = UNION {y[k] : k \in {j \in DOMAIN matrix : p \in matrix[j]}}
  <2>1. CASE \E i \in DOMAIN indices : indices[i] = p
    <3>1. PICK i \in DOMAIN indices : indices[i] = p
      BY <2>1
    <3>2. Hits(p) = {i}
      BY <1>3, <3>1
    <3>3. {j \in DOMAIN compressed : i \in compressed[j]} = {j \in DOMAIN matrix : p \in matrix[j]}
      BY <1>1, <3>1
    <3> QED
      BY <1>2, <3>2, <3>3
  <2>2. CASE ~ \E i \in DOMAIN indices : indices[i] = p
    <3>1. Hits(p) = {}
      BY <1>3, <2>2
    <3>2. {j \in DOMAIN matrix : p \in matrix[j]} = {}
      BY <1>3, <2>2
    <3> QED
      BY <3>1, <3>2
  <2> QED
    BY <2>1, <2>2
<1>7. Accumulate(indices, 0, N, sums) = MultiplyAdjoint(matrix, 0 .. N-1, y)
  BY <1>4, <1>5, <1>6
<1> QED
  BY <1>7 DEF indices, compressed, sums

(***************************************************************************)
(* Sums.                                                                   *)
(***************************************************************************)

\* As many pairs for every member of T as f gives it.
Portions(f, T) == UNION {{x} \X (1 .. f[x]) : x \in T}

\* Faster to cite than the definitions of the folds: the sum takes one member after the
\* other.
SumSolution(f, T) ==
  CHOOSE iter : iter = [s \in SUBSET T |->
    IF s = {} THEN 0 ELSE f[CHOOSE x \in s : TRUE] + iter[s \ {CHOOSE x \in s : TRUE}]]

LEMMA SumUnfolded == \A f, T : SumFunctionOnSet(f, T) = SumSolution(f, T)[T]
  BY DEF SumFunctionOnSet, FoldFunctionOnSet, MapThenFoldSet, SumSolution

\* The portions of one member more are as many more as f gives it.
LEMMA PortionsOf ==
  ASSUME NEW f, NEW T, NEW x \in T, f[x] \in Nat, IsFiniteSet(Portions(f, T \ {x}))
  PROVE  /\ IsFiniteSet(Portions(f, T))
         /\ Cardinality(Portions(f, T)) = f[x] + Cardinality(Portions(f, T \ {x}))
<1> DEFINE own == {x} \X (1 .. f[x])
           g == [i \in 1 .. f[x] |-> <<x, i>>]
           rest == Portions(f, T \ {x})
<1>1. IsFiniteSet(own) /\ Cardinality(own) = f[x]
  <2> DEFINE n == f[x]
             K == 1 .. n
  <2>1. IsFiniteSet(K) /\ Cardinality(K) = n
    <3>1. n \in Nat /\ 1 \in Int
      OBVIOUS
    <3> HIDE DEF n
    <3>2. IsFiniteSet(1 .. n) /\ Cardinality(1 .. n) = IF 1 > n THEN 0 ELSE n - 1 + 1
      BY ONLY <3>1, FS_Interval
    <3> QED
      BY <3>1, <3>2
  <2>2. /\ g \in [K -> own] /\ \A i, j \in K : g[i] = g[j] => i = j
        /\ \A z \in own : \E i \in K : g[i] = z
    OBVIOUS
  <2> HIDE DEF own, g, n, K
  <2>3. IsFiniteSet(own) /\ Cardinality(own) = Cardinality(K)
    BY ONLY <2>1, <2>2, SameSize
  <2> QED
    BY <2>1, <2>3 DEF n
<1>2. Portions(f, T) = own \cup rest
  BY DEF Portions
<1>3. own \cap rest = {}
  BY DEF Portions
<1> HIDE DEF own, rest
<1>4. IsFiniteSet(own \cup rest) /\ Cardinality(own \cup rest) = f[x] + Cardinality(rest)
  BY <1>1, <1>3, SizesAdd, FS_Union DEF rest
<1> QED
  BY <1>2, <1>4 DEF rest

\* Counted by other members, there are as many portions.
LEMMA PortionsMoved ==
  ASSUME NEW f, NEW A, NEW g, NEW B, IsFiniteSet(Portions(f, A)), NEW p \in [A -> B],
         \A x, y \in A : p[x] = p[y] => x = y, \A z \in B : \E x \in A : p[x] = z,
         \A x \in A : f[x] = g[p[x]]
  PROVE  Cardinality(Portions(g, B)) = Cardinality(Portions(f, A))
<1> DEFINE m == [z \in Portions(f, A) |-> <<p[z[1]], z[2]>>]
<1>1. /\ \A z \in Portions(f, A) : z = <<z[1], z[2]>> /\ z[1] \in A /\ z[2] \in 1 .. f[z[1]]
      /\ \A z \in Portions(g, B) : z = <<z[1], z[2]>> /\ z[1] \in B /\ z[2] \in 1 .. g[z[1]]
  BY DEF Portions
<1>2. /\ \A x \in A : \A i \in 1 .. f[x] : <<x, i>> \in Portions(f, A)
      /\ \A x \in B : \A i \in 1 .. g[x] : <<x, i>> \in Portions(g, B)
  BY DEF Portions
<1>3. m \in [Portions(f, A) -> Portions(g, B)]
  <2>1. ASSUME NEW z \in Portions(f, A) PROVE <<p[z[1]], z[2]>> \in Portions(g, B)
    BY <1>1, <1>2
  <2> QED
    BY <2>1
<1>4. ASSUME NEW x \in Portions(f, A), NEW y \in Portions(f, A), m[x] = m[y] PROVE x = y
  <2>1. p[x[1]] = p[y[1]] /\ x[2] = y[2]
    BY <1>4
  <2> QED
    BY <1>1, <2>1
<1>5. ASSUME NEW z \in Portions(g, B) PROVE \E x \in Portions(f, A) : m[x] = z
  <2>1. PICK x \in A : p[x] = z[1]
    BY <1>1
  <2>2. <<x, z[2]>> \in Portions(f, A)
    BY <1>1, <1>2, <2>1
  <2>3. m[<<x, z[2]>>] = z
    BY <1>1, <2>1, <2>2
  <2> QED
    BY <2>2, <2>3
<1> DEFINE P == Portions(f, A)
           Q == Portions(g, B)
<1>6. /\ IsFiniteSet(P) /\ m \in [P -> Q]
      /\ \A x, y \in P : m[x] = m[y] => x = y
      /\ \A z \in Q : \E x \in P : m[x] = z
  BY <1>3, <1>4, <1>5
<1> HIDE DEF m, P, Q
<1>7. Cardinality(Q) = Cardinality(P)
  BY ONLY <1>6, SameSize
<1> QED
  BY <1>7 DEF P, Q

\* The portions of a finite set, and their number as the sum.
LEMMA SumIsSize ==
  ASSUME NEW f, NEW T, IsFiniteSet(T), \A x \in T : f[x] \in Nat
  PROVE  /\ IsFiniteSet(Portions(f, T))
         /\ SumFunctionOnSet(f, T) = Cardinality(Portions(f, T))
<1> DEFINE Good(s) == IsFiniteSet(Portions(f, s))
           S == {n \in Nat : \A s \in SUBSET T : Cardinality(s) = n => Good(s)}
           pick(s) == CHOOSE x \in s : TRUE
           Body(g) == [s \in SUBSET T |-> IF s = {} THEN 0 ELSE f[pick(s)] + g[s \ {pick(s)}]]
           closed == [s \in SUBSET T |-> Cardinality(Portions(f, s))]
           iter == SumSolution(f, T)
           Same == {n \in Nat : \A s \in SUBSET T : Cardinality(s) = n => iter[s] = closed[s]}
<1>1. \A s \in SUBSET T : IsFiniteSet(s) /\ Cardinality(s) \in Nat
  BY FS_Subset, FS_CardinalityType
<1>2. ASSUME NEW s \in SUBSET T, s # {}
      PROVE  /\ pick(s) \in s /\ s \ {pick(s)} \in SUBSET T
             /\ Cardinality(s \ {pick(s)}) = Cardinality(s) - 1
             /\ Cardinality(s) # 0
  BY <1>1, <1>2, FS_RemoveElement, FS_EmptySet
<1>3. Portions(f, {}) = {}
  BY DEF Portions
<1>4. \A s \in SUBSET T : Good(s)
  <2>1. 0 \in S
    BY <1>1, <1>3, FS_EmptySet
  <2>2. \A n \in Nat : n \in S => n + 1 \in S
    <3> SUFFICES ASSUME NEW n \in Nat, n \in S, NEW s \in SUBSET T, Cardinality(s) = n + 1
                 PROVE  Good(s)
      OBVIOUS
    <3>1. s # {}
      BY FS_EmptySet
    <3>2. Good(s \ {pick(s)})
      BY <1>2, <3>1
    <3> HIDE DEF pick
    <3> QED
      BY <1>2, <3>1, <3>2, PortionsOf
  <2> HIDE DEF S, Good
  <2>3. \A n \in Nat : n \in S
    BY <2>1, <2>2, Induction
  <2> QED
    BY <1>1, <2>3 DEF S
<1>5. ASSUME NEW s \in SUBSET T, s # {}
      PROVE  closed[s] = f[pick(s)] + closed[s \ {pick(s)}]
  <2>1. IsFiniteSet(Portions(f, s \ {pick(s)})) /\ f[pick(s)] \in Nat /\ pick(s) \in s
    BY <1>2, <1>4, <1>5
  <2> HIDE DEF pick
  <2>2. Cardinality(Portions(f, s)) = f[pick(s)] + Cardinality(Portions(f, s \ {pick(s)}))
    BY <2>1, PortionsOf
  <2> QED
    BY <1>2, <1>5, <2>2
<1>6. closed[{}] = 0
  BY <1>3, FS_EmptySet
<1> HIDE DEF closed
<1>7. closed = Body(closed)
  <2>1. closed = [s \in SUBSET T |-> closed[s]]
    BY DEF closed
  <2>2. \A s \in SUBSET T : closed[s] = IF s = {} THEN 0 ELSE f[pick(s)] + closed[s \ {pick(s)}]
    BY <1>5, <1>6
  <2> HIDE DEF pick
  <2> QED
    BY <2>1, <2>2
<1>8. iter = Body(iter)
  BY <1>7 DEF SumSolution
<1> HIDE DEF iter
<1>9. \A s \in SUBSET T : iter[s] = IF s = {} THEN 0 ELSE f[pick(s)] + iter[s \ {pick(s)}]
  <2> HIDE DEF pick
  <2> QED
    BY <1>8
<1>10. \A s \in SUBSET T : iter[s] = closed[s]
  <2>0. \A n \in Nat : \A s : Cardinality(s) = n + 1 => s # {}
    BY FS_EmptySet
  <2>1. 0 \in Same
    BY <1>1, <1>6, <1>9, FS_EmptySet
  <2>2. \A n \in Nat : n \in Same => n + 1 \in Same
    <3> SUFFICES ASSUME NEW n \in Nat, n \in Same, NEW s \in SUBSET T, Cardinality(s) = n + 1
                 PROVE  iter[s] = closed[s]
      OBVIOUS
    <3>1. s # {}
      BY <2>0
    <3> HIDE DEF pick
    <3>2. s \ {pick(s)} \in SUBSET T /\ Cardinality(s \ {pick(s)}) = n
      <4>1. Cardinality(s \ {pick(s)}) = Cardinality(s) - 1 /\ s \ {pick(s)} \in SUBSET T
        BY <1>2, <3>1
      <4> QED
        BY <4>1
    <3>3. iter[s \ {pick(s)}] = closed[s \ {pick(s)}]
      BY <3>2
    <3> QED
      BY <1>5, <1>9, <3>1, <3>3
  <2> HIDE DEF Same
  <2>3. \A n \in Nat : n \in Same
    BY <2>1, <2>2, Induction
  <2> QED
    BY <1>1, <2>3 DEF Same
<1> QED
  BY <1>4, <1>10, SumUnfolded DEF iter, closed

\* One step of the sum, from the sums g over smaller sets.
SumStep(f, s, g) ==
  IF s = {} THEN 0 ELSE f[CHOOSE x \in s : TRUE] + g[s \ {CHOOSE x \in s : TRUE}]

\* The recursion of the sum has a solution, whatever is added.
LEMMA SumDefined ==
  ASSUME NEW f, NEW T, IsFiniteSet(T)
  PROVE  \A s \in SUBSET T : SumSolution(f, T)[s] = SumStep(f, s, SumSolution(f, T))
<1> DEFINE Small(n) == {s \in SUBSET T : Cardinality(s) <= n}
           Body(n, g) == [s \in Small(n) |-> SumStep(f, s, g)]
           Solved == {n \in Nat : \E g : g = Body(n, g)}
<1>1. \A s \in SUBSET T : IsFiniteSet(s) /\ Cardinality(s) \in Nat /\ Cardinality(s) <= Cardinality(T)
  BY FS_Subset, FS_CardinalityType
<1>2. ASSUME NEW n \in Nat, NEW s \in Small(n + 1), s # {}, NEW x \in s
      PROVE  s \ {x} \in Small(n)
  <2>1. /\ s \in SUBSET T /\ Cardinality(s) \in Nat /\ Cardinality(s) <= n + 1
        /\ Cardinality(s \ {x}) = Cardinality(s) - 1
    BY <1>1, <1>2, FS_RemoveElement
  <2>2. s \ {x} \in SUBSET T /\ Cardinality(s \ {x}) <= n
    BY <2>1
  <2> QED
    BY <2>2
<1>3. 0 \in Solved
  <2> DEFINE g == [s \in Small(0) |-> 0]
  <2>1. \A s \in Small(0) : s = {}
    <3>1. \A s \in Small(0) : IsFiniteSet(s) /\ Cardinality(s) = 0
      BY <1>1
    <3> QED
      BY <3>1, FS_EmptySet
  <2>2. g = Body(0, g)
    BY <2>1 DEF SumStep
  <2> QED
    BY <2>2
<1>4. \A n \in Nat : n \in Solved => n + 1 \in Solved
  <2> SUFFICES ASSUME NEW n \in Nat, n \in Solved PROVE n + 1 \in Solved
    OBVIOUS
  <2>1. PICK g : g = Body(n, g)
    OBVIOUS
  <2> DEFINE h == Body(n + 1, g)
  <2>2. \A s \in Small(n) : h[s] = g[s]
    <3>1. \A s \in Small(n) : s \in Small(n + 1)
      BY <1>1
    <3> QED
      BY <2>1, <3>1
  <2>3. ASSUME NEW s \in Small(n + 1)
        PROVE  SumStep(f, s, h) = SumStep(f, s, g)
    <3>1. CASE s = {}
      BY <3>1 DEF SumStep
    <3>2. CASE s # {}
      <4> DEFINE x == CHOOSE y \in s : TRUE
      <4>1. x \in s
        BY <3>2
      <4>2. SumStep(f, s, h) = f[x] + h[s \ {x}] /\ SumStep(f, s, g) = f[x] + g[s \ {x}]
        BY <3>2 DEF SumStep
      <4> HIDE DEF x, h
      <4>3. h[s \ {x}] = g[s \ {x}]
        BY <1>2, <2>2, <3>2, <4>1
      <4> QED
        BY <4>2, <4>3
    <3> QED
      BY <3>1, <3>2
  <2> HIDE DEF Small
  <2>4. h = Body(n + 1, h)
    <3>1. Body(n + 1, h) = h
      <4> HIDE DEF h
      <4>1. Body(n + 1, h) = Body(n + 1, g)
        BY <2>3
      <4> QED
        BY <4>1 DEF h
    <3> QED
      BY <3>1
  <2> HIDE DEF h, Body
  <2> QED
    BY <2>4
<1>5. Cardinality(T) \in Nat
  BY FS_CardinalityType
<1>6. PICK g : g = Body(Cardinality(T), g)
  <2> HIDE DEF Solved
  <2>1. Cardinality(T) \in Solved
    BY <1>3, <1>4, <1>5, Induction
  <2> QED
    BY <2>1 DEF Solved
<1>7. Small(Cardinality(T)) = SUBSET T
  BY <1>1
<1>8. g = [s \in SUBSET T |-> SumStep(f, s, g)]
  BY <1>6, <1>7
<1>9. SumSolution(f, T) = CHOOSE iter : iter = [s \in SUBSET T |-> SumStep(f, s, iter)]
  BY DEF SumSolution, SumStep
<1>10. SumSolution(f, T) = [s \in SUBSET T |-> SumStep(f, s, SumSolution(f, T))]
  BY <1>8, <1>9
<1> QED
  BY <1>10

\* A sum of integers is one.
LEMMA SumIsInteger ==
  ASSUME NEW f, NEW T, IsFiniteSet(T), \A x \in T : f[x] \in Int
  PROVE  SumFunctionOnSet(f, T) \in Int
<1> DEFINE iter == SumSolution(f, T)
           S == {n \in Nat : \A s \in SUBSET T : Cardinality(s) = n => iter[s] \in Int}
<1>1. \A s \in SUBSET T : iter[s] = SumStep(f, s, iter)
  BY SumDefined
<1>2. \A s \in SUBSET T : IsFiniteSet(s) /\ Cardinality(s) \in Nat
  BY FS_Subset, FS_CardinalityType
<1> HIDE DEF iter
<1>3. 0 \in S
  <2>1. \A s \in SUBSET T : Cardinality(s) = 0 => s = {}
    BY <1>2, FS_EmptySet
  <2>2. iter[{}] = 0
    <3>1. {} \in SUBSET T
      OBVIOUS
    <3> QED
      BY <1>1, <3>1 DEF SumStep
  <2> QED
    BY <2>1, <2>2
<1>4. \A n \in Nat : n \in S => n + 1 \in S
  <2> SUFFICES ASSUME NEW n \in Nat, n \in S, NEW s \in SUBSET T, Cardinality(s) = n + 1
               PROVE  iter[s] \in Int
    OBVIOUS
  <2> DEFINE x == CHOOSE y \in s : TRUE
  <2>1. s # {}
    <3>1. Cardinality({}) = 0 /\ n + 1 # 0
      BY FS_EmptySet
    <3> QED
      BY <3>1
  <2>2. x \in s
    BY <2>1
  <2>3. iter[s] = f[x] + iter[s \ {x}]
    BY <1>1, <2>1 DEF SumStep
  <2> HIDE DEF x
  <2>4. s \ {x} \in SUBSET T /\ Cardinality(s \ {x}) = n
    <3>1. Cardinality(s \ {x}) = Cardinality(s) - 1
      BY <1>2, <2>2, FS_RemoveElement
    <3> QED
      BY <3>1
  <2>5. f[x] \in Int /\ iter[s \ {x}] \in Int
    BY <2>2, <2>4
  <2> QED
    BY <2>3, <2>5
<1> HIDE DEF S
<1>5. Cardinality(T) \in S
  BY <1>2, <1>3, <1>4, Induction
<1>6. iter[T] \in Int
  BY <1>2, <1>5 DEF S
<1> QED
  BY <1>6, SumUnfolded DEF iter

\* Two solutions, over different sets, agree: the sum over a set does not depend on the
\* set it is taken in.
LEMMA SumInside ==
  ASSUME NEW f, NEW T, IsFiniteSet(T), NEW s \in SUBSET T
  PROVE  SumFunctionOnSet(f, s) = SumSolution(f, T)[s]
<1> DEFINE a == SumSolution(f, s)
           b == SumSolution(f, T)
           Same == {n \in Nat : \A u \in SUBSET s : Cardinality(u) = n => a[u] = b[u]}
<1>1. IsFiniteSet(s) /\ \A u \in SUBSET s : IsFiniteSet(u) /\ Cardinality(u) \in Nat /\ u \in SUBSET T
  BY FS_Subset, FS_CardinalityType
<1>2. /\ \A u \in SUBSET s : a[u] = SumStep(f, u, a)
      /\ \A u \in SUBSET s : b[u] = SumStep(f, u, b)
  BY <1>1, SumDefined
<1> HIDE DEF a, b
<1>3. 0 \in Same
  <2> SUFFICES ASSUME NEW u \in SUBSET s, Cardinality(u) = 0 PROVE a[u] = b[u]
    OBVIOUS
  <2>1. u = {}
    BY <1>1, FS_EmptySet
  <2> QED
    BY <1>2, <2>1 DEF SumStep
<1>4. \A n \in Nat : n \in Same => n + 1 \in Same
  <2> SUFFICES ASSUME NEW n \in Nat, n \in Same, NEW u \in SUBSET s, Cardinality(u) = n + 1
               PROVE  a[u] = b[u]
    OBVIOUS
  <2> DEFINE x == CHOOSE y \in u : TRUE
             v == u \ {x}
  <2>1. u # {}
    BY FS_EmptySet
  <2>2. x \in u
    BY <2>1
  <2>3. v \in SUBSET s /\ Cardinality(v) = n
    <3>1. Cardinality(v) = Cardinality(u) - 1
      BY <1>1, <2>2, FS_RemoveElement
    <3> QED
      BY <3>1
  <2>4. a[v] = b[v]
    BY <2>3
  <2>5. a[u] = f[x] + a[v] /\ b[u] = f[x] + b[v]
    BY <1>2, <2>1 DEF SumStep
  <2> QED
    BY <2>4, <2>5
<1> HIDE DEF Same
<1>5. \A n \in Nat : n \in Same
  BY <1>3, <1>4, Induction
<1>6. a[s] = b[s]
  <2>1. Cardinality(s) \in Same
    BY <1>1, <1>5
  <2> QED
    BY <2>1 DEF Same
<1> QED
  BY <1>6, SumUnfolded DEF a, b

\* A sum of integers may begin with any member.
LEMMA SumFirst ==
  ASSUME NEW f, NEW T, IsFiniteSet(T), \A x \in T : f[x] \in Int, NEW x \in T
  PROVE  SumFunctionOnSet(f, T) = f[x] + SumFunctionOnSet(f, T \ {x})
<1> DEFINE a == SumSolution(f, T)
           AnyFirst(u) == \A y \in u : a[u] = f[y] + a[u \ {y}]
           Fine == {n \in Nat : \A u \in SUBSET T : Cardinality(u) = n => AnyFirst(u)}
<1>1. \A u \in SUBSET T : IsFiniteSet(u) /\ Cardinality(u) \in Nat
  BY FS_Subset, FS_CardinalityType
<1>2. \A u \in SUBSET T : a[u] = SumStep(f, u, a)
  BY SumDefined
<1>3. \A u \in SUBSET T : a[u] = SumFunctionOnSet(f, u) /\ a[u] \in Int
  <2> SUFFICES ASSUME NEW u \in SUBSET T PROVE a[u] = SumFunctionOnSet(f, u) /\ a[u] \in Int
    OBVIOUS
  <2>1. a[u] = SumFunctionOnSet(f, u)
    BY SumInside
  <2>2. IsFiniteSet(u) /\ \A y \in u : f[y] \in Int
    BY <1>1
  <2>3. SumFunctionOnSet(f, u) \in Int
    BY <2>2, SumIsInteger
  <2> QED
    BY <2>1, <2>3
<1> HIDE DEF a
<1>4. 0 \in Fine
  <2> SUFFICES ASSUME NEW u \in SUBSET T, Cardinality(u) = 0 PROVE u = {}
    OBVIOUS
  <2> QED
    BY <1>1, FS_EmptySet
<1>5. \A n \in Nat : n \in Fine => n + 1 \in Fine
  <2> SUFFICES ASSUME NEW n \in Nat, n \in Fine, NEW u \in SUBSET T, Cardinality(u) = n + 1
               PROVE  AnyFirst(u)
    <3> HIDE DEF AnyFirst
    <3> QED
      OBVIOUS
  <2> SUFFICES ASSUME NEW y \in u PROVE a[u] = f[y] + a[u \ {y}]
    OBVIOUS
  <2> DEFINE c == CHOOSE z \in u : TRUE
  <2>1. c \in u /\ u # {}
    OBVIOUS
  <2>2. a[u] = f[c] + a[u \ {c}]
    BY <1>2, <2>1 DEF SumStep
  <2> HIDE DEF c
  <2>3. CASE c = y
    BY <2>2, <2>3
  <2>4. CASE c # y
    <3> DEFINE uc == u \ {c}
               uy == u \ {y}
               both == u \ {c, y}
    <3>1. /\ uc \in SUBSET T /\ uy \in SUBSET T /\ both \in SUBSET T /\ y \in uc /\ c \in uy
          /\ uc \ {y} = both /\ uy \ {c} = both
      BY <2>1, <2>4
    <3>2. Cardinality(uc) = n /\ Cardinality(uy) = n
      <4>1. Cardinality(uc) = Cardinality(u) - 1 /\ Cardinality(uy) = Cardinality(u) - 1
        <5>1. IsFiniteSet(u) /\ y \in u
          BY <1>1
        <5> QED
          BY <2>1, <5>1, FS_RemoveElement
      <4>2. (n + 1) - 1 = n
        OBVIOUS
      <4> QED
        BY <4>1, <4>2
    <3> HIDE DEF uc, uy, both
    <3>3. a[uc] = f[y] + a[both] /\ a[uy] = f[c] + a[both]
      <4>1. AnyFirst(uc) /\ AnyFirst(uy)
        <5> HIDE DEF AnyFirst
        <5> QED
          BY <3>1, <3>2
      <4> QED
        BY <3>1, <4>1
    <3>4. a[both] \in Int /\ f[y] \in Int /\ f[c] \in Int
      BY <1>3, <2>1, <3>1
    <3>5. a[u] = f[c] + a[uc]
      BY <2>2 DEF uc
    <3>6. a[u] = f[y] + a[uy]
      BY <3>3, <3>4, <3>5
    <3> QED
      BY <3>6 DEF uy
  <2> QED
    BY <2>3, <2>4
<1> HIDE DEF Fine
<1>6. \A n \in Nat : n \in Fine
  BY <1>4, <1>5, Induction
<1>7. a[T] = f[x] + a[T \ {x}]
  <2>1. Cardinality(T) \in Fine /\ T \in SUBSET T
    BY <1>1, <1>6
  <2> QED
    BY <2>1 DEF Fine
<1> QED
  BY <1>3, <1>7

LEMMA SumOfNone == \A f : SumFunctionOnSet(f, {}) = 0
<1> SUFFICES ASSUME NEW f PROVE SumFunctionOnSet(f, {}) = 0
  OBVIOUS
<1>1. IsFiniteSet({}) /\ {} \in SUBSET {}
  BY FS_EmptySet
<1>2. SumSolution(f, {})[{}] = SumStep(f, {}, SumSolution(f, {}))
  BY <1>1, SumDefined
<1> QED
  BY <1>2, SumUnfolded DEF SumStep

\* Sums over disjoint sets add up.
LEMMA SumsAdd ==
  ASSUME NEW f, NEW S, NEW T, IsFiniteSet(S), IsFiniteSet(T), S \cap T = {},
         \A x \in S \cup T : f[x] \in Int
  PROVE  SumFunctionOnSet(f, S \cup T) = SumFunctionOnSet(f, S) + SumFunctionOnSet(f, T)
<1> DEFINE sum(u) == SumFunctionOnSet(f, u)
           Fine == {n \in Nat : \A u \in SUBSET T : Cardinality(u) = n => sum(S \cup u) = sum(S) + sum(u)}
<1>1. \A u \in SUBSET T : IsFiniteSet(u) /\ Cardinality(u) \in Nat /\ IsFiniteSet(S \cup u)
  BY FS_Subset, FS_CardinalityType, FS_Union
<1>2. \A u \in SUBSET T : sum(u) \in Int /\ sum(S) \in Int /\ sum(S \cup u) \in Int
  <2> SUFFICES ASSUME NEW u \in SUBSET T
               PROVE  sum(u) \in Int /\ sum(S) \in Int /\ sum(S \cup u) \in Int
    OBVIOUS
  <2>2. \A x \in u : f[x] \in Int
    OBVIOUS
  <2>3. sum(u) \in Int
    BY <1>1, <2>2, SumIsInteger
  <2>4. \A x \in S : f[x] \in Int
    OBVIOUS
  <2>5. sum(S) \in Int
    BY <2>4, SumIsInteger
  <2> DEFINE v == S \cup u
  <2>6. IsFiniteSet(v) /\ \A x \in v : f[x] \in Int
    BY <1>1
  <2> HIDE DEF v
  <2>7. sum(v) \in Int
    BY <2>6, SumIsInteger
  <2> QED
    BY <2>3, <2>5, <2>7 DEF v
<1>3. 0 \in Fine
  <2> SUFFICES ASSUME NEW u \in SUBSET T, Cardinality(u) = 0 PROVE sum(S \cup u) = sum(S) + sum(u)
    OBVIOUS
  <2>1. u = {} /\ S \cup u = S
    BY <1>1, FS_EmptySet
  <2>2. sum(u) = 0
    BY <2>1, SumOfNone
  <2> QED
    BY <1>2, <2>1, <2>2
<1>4. \A n \in Nat : n \in Fine => n + 1 \in Fine
  <2> SUFFICES ASSUME NEW n \in Nat, n \in Fine, NEW u \in SUBSET T, Cardinality(u) = n + 1
               PROVE  sum(S \cup u) = sum(S) + sum(u)
    OBVIOUS
  <2>1. u # {}
    BY FS_EmptySet
  <2>2. PICK x : x \in u
    BY <2>1
  <2> DEFINE v == u \ {x}
             Sv == S \cup v
             Su == S \cup u
  <2>3. /\ v \in SUBSET T /\ x \in Su /\ Su \ {x} = Sv /\ IsFiniteSet(Su)
        /\ \A y \in Su : f[y] \in Int
    BY <1>1, <2>2
  <2>4. Cardinality(v) = n
    <3>1. Cardinality(v) = Cardinality(u) - 1
      BY <1>1, <2>2, FS_RemoveElement
    <3> QED
      BY <3>1
  <2>5. sum(Sv) = sum(S) + sum(v)
    BY <2>3, <2>4
  <2>6. IsFiniteSet(u) /\ \A y \in u : f[y] \in Int
    BY <1>1
  <2>7. sum(u) = f[x] + sum(v)
    BY <2>2, <2>6, SumFirst
  <2>8. f[x] \in Int /\ sum(S) \in Int /\ sum(v) \in Int
    BY <1>2, <2>2, <2>3
  <2> HIDE DEF v, Sv, Su
  <2>9. sum(Su) = f[x] + sum(Su \ {x})
    BY <2>3, SumFirst
  <2>10. sum(Su) = sum(S) + sum(u)
    BY <2>3, <2>5, <2>7, <2>8, <2>9
  <2> QED
    BY <2>10 DEF Su
<1> HIDE DEF Fine
<1>5. \A n \in Nat : n \in Fine
  BY <1>3, <1>4, Induction
<1>6. Cardinality(T) \in Fine /\ T \in SUBSET T
  BY <1>1, <1>5
<1> QED
  BY <1>6 DEF Fine

\* Whatever the members are called, the sum is the same.
LEMMA SumMoved ==
  ASSUME NEW f, NEW A, NEW g, NEW B, IsFiniteSet(A), NEW p \in [A -> B],
         \A x, y \in A : p[x] = p[y] => x = y, \A z \in B : \E x \in A : p[x] = z,
         \A x \in A : f[x] = g[p[x]] /\ f[x] \in Int
  PROVE  SumFunctionOnSet(g, B) = SumFunctionOnSet(f, A)
<1> DEFINE Image(u) == {p[x] : x \in u}
           Moves(u) == SumFunctionOnSet(g, Image(u)) = SumFunctionOnSet(f, u)
           Fine == {n \in Nat : \A u \in SUBSET A : Cardinality(u) = n => Moves(u)}
<1>1. \A u \in SUBSET A : IsFiniteSet(u) /\ Cardinality(u) \in Nat
  BY FS_Subset, FS_CardinalityType
<1>2. 0 \in Fine
  <2> SUFFICES ASSUME NEW u \in SUBSET A, Cardinality(u) = 0
               PROVE  SumFunctionOnSet(g, Image(u)) = SumFunctionOnSet(f, u)
    OBVIOUS
  <2>1. u = {}
    BY <1>1, FS_EmptySet
  <2>2. Image(u) = {}
    BY <2>1
  <2> QED
    BY <2>1, <2>2, SumOfNone
<1>3. \A n \in Nat : n \in Fine => n + 1 \in Fine
  <2> SUFFICES ASSUME NEW n \in Nat, n \in Fine, NEW u \in SUBSET A, Cardinality(u) = n + 1
               PROVE  Moves(u)
    <3> HIDE DEF Moves
    <3> QED
      OBVIOUS
  <2>1. u # {}
    BY FS_EmptySet
  <2>2. PICK x : x \in u
    BY <2>1
  <2> DEFINE v == u \ {x}
             I == Image(u)
             J == Image(v)
  <2>3. v \in SUBSET A /\ Cardinality(v) = n
    <3>1. Cardinality(v) = Cardinality(u) - 1
      BY <1>1, <2>2, FS_RemoveElement
    <3> QED
      BY <3>1
  <2>4. SumFunctionOnSet(g, J) = SumFunctionOnSet(f, v)
    BY <2>3
  <2>5. p[x] \in I /\ I \ {p[x]} = J
    BY <2>2
  <2>6. IsFiniteSet(I) /\ \A y \in I : g[y] \in Int
    <3>1. IsFiniteSet(I)
      <4> DEFINE h == [y \in u |-> p[y]]
      <4>1. h \in Surjection(u, I)
        BY DEF Surjection
      <4> HIDE DEF h
      <4> QED
        BY <1>1, <4>1, FS_Surjection
    <3> QED
      BY <3>1
  <2>7. IsFiniteSet(u) /\ \A y \in u : f[y] \in Int
    BY <1>1
  <2>8. SumFunctionOnSet(f, u) = f[x] + SumFunctionOnSet(f, v)
    BY <2>2, <2>7, SumFirst
  <2> HIDE DEF I, J, v
  <2>9. SumFunctionOnSet(g, I) = g[p[x]] + SumFunctionOnSet(g, I \ {p[x]})
    BY <2>5, <2>6, SumFirst
  <2>10. SumFunctionOnSet(g, I) = SumFunctionOnSet(f, u)
    BY <2>2, <2>4, <2>5, <2>8, <2>9
  <2> QED
    BY <2>10 DEF I
<1> HIDE DEF Fine
<1>4. \A n \in Nat : n \in Fine
  BY <1>2, <1>3, Induction
<1>5. Cardinality(A) \in Fine
  BY <1>1, <1>4
<1>6. SumFunctionOnSet(g, Image(A)) = SumFunctionOnSet(f, A)
  BY <1>5 DEF Fine
<1>7. Image(A) = B
  OBVIOUS
<1> QED
  BY <1>6, <1>7

\* Adding up ones is counting.
LEMMA SumOfOnes ==
  ASSUME NEW f, NEW T, IsFiniteSet(T), \A x \in T : f[x] = 1
  PROVE  SumFunctionOnSet(f, T) = Cardinality(T)
<1> DEFINE Fine == {n \in Nat : \A u \in SUBSET T : Cardinality(u) = n => SumFunctionOnSet(f, u) = n}
<1>1. \A u \in SUBSET T : IsFiniteSet(u) /\ Cardinality(u) \in Nat
  BY FS_Subset, FS_CardinalityType
<1>2. 0 \in Fine
  <2> SUFFICES ASSUME NEW u \in SUBSET T, Cardinality(u) = 0 PROVE SumFunctionOnSet(f, u) = 0
    OBVIOUS
  <2>1. u = {}
    BY <1>1, FS_EmptySet
  <2> QED
    BY <2>1, SumOfNone
<1>3. \A n \in Nat : n \in Fine => n + 1 \in Fine
  <2> SUFFICES ASSUME NEW n \in Nat, n \in Fine, NEW u \in SUBSET T, Cardinality(u) = n + 1
               PROVE  SumFunctionOnSet(f, u) = n + 1
    OBVIOUS
  <2>1. u # {}
    BY FS_EmptySet
  <2>2. PICK x : x \in u
    BY <2>1
  <2>3. Cardinality(u \ {x}) = Cardinality(u) - 1 /\ u \ {x} \in SUBSET T
    BY <1>1, <2>2, FS_RemoveElement
  <2>4. Cardinality(u \ {x}) = n
    BY <2>3
  <2>5. SumFunctionOnSet(f, u \ {x}) = n
    BY <2>3, <2>4
  <2>6. IsFiniteSet(u) /\ \A y \in u : f[y] \in Int
    BY <1>1
  <2>7. SumFunctionOnSet(f, u) = f[x] + SumFunctionOnSet(f, u \ {x})
    BY <2>2, <2>6, SumFirst
  <2>8. f[x] = 1
    BY <2>2
  <2> QED
    BY <2>5, <2>7, <2>8
<1> HIDE DEF Fine
<1>4. \A n \in Nat : n \in Fine
  BY <1>2, <1>3, Induction
<1>5. Cardinality(T) \in Fine
  BY <1>1, <1>4
<1> QED
  BY <1>5 DEF Fine

\* The sum over the first k numbers.
SumUpto(f, k) == SumFunctionOnSet(f, 0 .. k-1)

\* The sum over the first numbers, in steps.
LEMMA SumGrows ==
  ASSUME NEW n \in Nat, NEW f, \A x \in 0 .. n-1 : f[x] \in Nat
  PROVE  /\ SumUpto(f, 0) = 0 /\ \A k \in 0 .. n : SumUpto(f, k) \in Nat
         /\ \A k \in 0 .. n-1 : SumUpto(f, k+1) = SumUpto(f, k) + f[k]
<1>1. ASSUME NEW k \in 0 .. n
      PROVE  /\ IsFiniteSet(Portions(f, 0 .. k-1)) /\ SumUpto(f, k) \in Nat
             /\ SumUpto(f, k) = Cardinality(Portions(f, 0 .. k-1))
  <2>1. IsFiniteSet(0 .. k-1) /\ \A x \in 0 .. k-1 : f[x] \in Nat
    BY FS_Interval
  <2> QED
    BY <2>1, SumIsSize, FS_CardinalityType DEF SumUpto
<1>2. SumUpto(f, 0) = 0
  <2>1. 0 .. 0-1 = {} /\ 0 \in 0 .. n
    OBVIOUS
  <2>2. Portions(f, 0 .. 0-1) = {}
    BY <2>1 DEF Portions
  <2> QED
    BY <1>1, <2>1, <2>2, FS_EmptySet
<1>3. ASSUME NEW k \in 0 .. n-1
      PROVE  SumUpto(f, k+1) = SumUpto(f, k) + f[k]
  <2>1. k \in 0 .. n /\ k+1 \in 0 .. n /\ (k+1)-1 = k /\ k \in 0 .. k /\ (0 .. k) \ {k} = 0 .. k-1
    OBVIOUS
  <2>2. f[k] \in Nat /\ IsFiniteSet(Portions(f, (0 .. k) \ {k}))
    BY <1>1, <2>1
  <2> DEFINE T == 0 .. k
  <2>3. Cardinality(Portions(f, T)) = f[k] + Cardinality(Portions(f, T \ {k}))
    <3>1. k \in T /\ f[k] \in Nat /\ IsFiniteSet(Portions(f, T \ {k}))
      BY <2>1, <2>2
    <3> HIDE DEF T
    <3> QED
      BY <3>1, PortionsOf
  <2>4. SumUpto(f, k+1) = Cardinality(Portions(f, 0 .. k)) /\ SumUpto(f, k) \in Nat
        /\ SumUpto(f, k) = Cardinality(Portions(f, (0 .. k) \ {k}))
    BY <1>1, <2>1
  <2> QED
    BY <2>2, <2>3, <2>4
<1> QED
  BY <1>1, <1>2, <1>3

\* Any summand lies below the sum over all.
LEMMA SumsOrdered ==
  ASSUME NEW n \in Nat, NEW f, \A x \in 0 .. n-1 : f[x] \in Nat, NEW k \in 0 .. n-1
  PROVE  SumUpto(f, k) + f[k] <= SumUpto(f, n)
<1> DEFINE T == 0 .. n-1
           s == 0 .. (k+1)-1
<1>1. s \subseteq T /\ IsFiniteSet(T) /\ \A x \in T : f[x] \in Nat
  BY FS_Interval
<1>2. IsFiniteSet(s) /\ \A x \in s : f[x] \in Nat
  BY <1>1, FS_Subset
<1>3. SumUpto(f, n) = SumFunctionOnSet(f, T) /\ SumUpto(f, k+1) = SumFunctionOnSet(f, s)
  BY DEF SumUpto
<1> HIDE DEF T, s
<1>4. /\ IsFiniteSet(Portions(f, T)) /\ SumUpto(f, n) = Cardinality(Portions(f, T))
      /\ SumUpto(f, k+1) = Cardinality(Portions(f, s))
  BY <1>1, <1>2, <1>3, SumIsSize
<1>5. Portions(f, s) \in SUBSET Portions(f, T)
  BY <1>1 DEF Portions
<1>6. SumUpto(f, k+1) <= SumUpto(f, n)
  BY <1>4, <1>5, FS_Subset
<1>7. SumUpto(f, k+1) = SumUpto(f, k) + f[k]
  BY SumGrows
<1> QED
  BY <1>6, <1>7

(***************************************************************************)
(* What is appended piece after piece.                                     *)
(***************************************************************************)

\* The recursion that appends n pieces.
Appended(n, pieces, c) ==
  [q \in -1 .. n-1 |-> IF q = -1 THEN <<>> ELSE c[q-1] \o pieces[q]]

\* It has a solution, so that the one a recursive function chooses is one.
LEMMA AppendedDefined ==
  ASSUME NEW n \in Nat, NEW pieces
  PROVE  \E c : c = Appended(n, pieces, c)
<1> DEFINE Solved == {k \in Nat : \E c : c = Appended(k, pieces, c)}
<1>1. 0 \in Solved
  <2> DEFINE c == [q \in -1 .. 0-1 |-> <<>>]
  <2>1. c = Appended(0, pieces, c)
    BY DEF Appended
  <2> QED
    BY <2>1
<1>2. \A k \in Nat : k \in Solved => k + 1 \in Solved
  <2> SUFFICES ASSUME NEW k \in Nat, k \in Solved PROVE k + 1 \in Solved
    OBVIOUS
  <2>1. PICK c : c = Appended(k, pieces, c)
    OBVIOUS
  <2> DEFINE d == Appended(k + 1, pieces, c)
  <2>2. \A q \in -1 .. k-1 : c[q] = d[q]
    <3>1. \A q \in -1 .. k-1 : c[q] = IF q = -1 THEN <<>> ELSE c[q-1] \o pieces[q]
      BY <2>1 DEF Appended
    <3> QED
      BY <3>1 DEF Appended
  <2>3. Appended(k + 1, pieces, d) = Appended(k + 1, pieces, c)
    <3> HIDE DEF d
    <3>1. \A q \in -1 .. k : q # -1 => d[q-1] = c[q-1]
      BY <2>2
    <3> QED
      BY <3>1 DEF Appended
  <2>4. d = Appended(k + 1, pieces, d)
    BY <2>3
  <2> HIDE DEF d
  <2> QED
    BY <2>4
<1> HIDE DEF Solved
<1>3. n \in Solved
  BY <1>1, <1>2, Induction
<1> QED
  BY <1>3 DEF Solved

\* The place after which every piece begins, and after which the last ends.
AreOffsets(n, pieces, offset) ==
  /\ \A k \in 0 .. n : offset[k] \in Nat
  /\ offset[0] = 0
  /\ \A k \in 0 .. n-1 : offset[k+1] = offset[k] + Len(pieces[k])

\* Every piece is where its offset says, and there is nothing else.
InPlace(n, pieces, offset, whole) ==
  /\ Len(whole) = offset[n]
  /\ \A q \in 0 .. n-1 : \A j \in 1 .. Len(pieces[q]) :
       offset[q] + j \in 1 .. offset[n] /\ whole[offset[q] + j] = pieces[q][j]
  /\ \A i \in 1 .. offset[n] :
       \E q \in 0 .. n-1 : \E j \in 1 .. Len(pieces[q]) : i = offset[q] + j

\* What is appended has every piece at its offset.
LEMMA PiecesInPlace ==
  ASSUME NEW n \in Nat, NEW S, NEW pieces, \A q \in 0 .. n-1 : pieces[q] \in Seq(S),
         NEW offset, AreOffsets(n, pieces, offset), NEW c, c = Appended(n, pieces, c)
  PROVE  c[n-1] \in Seq(S) /\ InPlace(n, pieces, offset, c[n-1])
<1> USE DEF AreOffsets
<1> DEFINE Placed(k) == /\ c[k-1] \in Seq(S) /\ Len(c[k-1]) = offset[k]
                        /\ \A q \in 0 .. k-1 : \A j \in 1 .. Len(pieces[q]) :
                             /\ offset[q] + j \in 1 .. offset[k]
                             /\ c[k-1][offset[q] + j] = pieces[q][j]
                        /\ \A i \in 1 .. offset[k] :
                             \E q \in 0 .. k-1 : \E j \in 1 .. Len(pieces[q]) : i = offset[q] + j
           T == {k \in Nat : k <= n => Placed(k)}
<1>1. c[-1] = <<>> /\ \A q \in 0 .. n-1 : c[q] = c[q-1] \o pieces[q]
  <2>1. \A q \in -1 .. n-1 : c[q] = Appended(n, pieces, c)[q]
    OBVIOUS
  <2>2. \A q \in -1 .. n-1 : c[q] = IF q = -1 THEN <<>> ELSE c[q-1] \o pieces[q]
    BY <2>1 DEF Appended
  <2>3. -1 \in -1 .. n-1 /\ \A q \in 0 .. n-1 : q \in -1 .. n-1 /\ q # -1
    OBVIOUS
  <2> QED
    BY <2>2, <2>3
<1>2. Placed(0)
  <2>1. 0-1 = -1 /\ 0 .. 0-1 = {} /\ 1 .. 0 = {} /\ offset[0] = 0
    OBVIOUS
  <2>2. c[0-1] = <<>> /\ <<>> \in Seq(S) /\ Len(<<>>) = 0
    BY <1>1, <2>1
  <2> QED
    BY <2>1, <2>2
<1>3. ASSUME NEW k \in 0 .. n-1, Placed(k)
      PROVE  Placed(k+1)
  <2> DEFINE before == c[k-1]
             own == pieces[k]
             a == offset[k]
             b == Len(own)
             whole == c[(k+1)-1]
  <2>1. before \in Seq(S) /\ own \in Seq(S) /\ Len(before) = a /\ whole = before \o own
    <3>1. (k+1)-1 = k
      OBVIOUS
    <3> QED
      BY <1>1, <1>3, <3>1
  <2>2. /\ whole \in Seq(S) /\ Len(whole) = a + b
        /\ \A i \in 1 .. a + b : whole[i] = IF i <= a THEN before[i] ELSE own[i - a]
    <3>1. /\ before \o own \in Seq(S) /\ Len(before \o own) = Len(before) + Len(own)
          /\ \A i \in 1 .. Len(before) + Len(own) :
               (before \o own)[i] = IF i <= Len(before) THEN before[i] ELSE own[i - Len(before)]
      <4>1. before \in Seq(S) /\ own \in Seq(S)
        BY <2>1
      <4> HIDE DEF before, own, a, b
      <4> QED
        BY ONLY <4>1, ConcatProperties, Zenon
    <3> HIDE DEF before, own, whole, a
    <3> QED
      BY <2>1, <3>1
  <2>3. a \in Nat /\ b \in Nat /\ offset[k+1] = a + b
    BY <2>1
  <2>4. \A q \in 0 .. (k+1)-1 : q = k \/ q \in 0 .. k-1
    OBVIOUS
  <2>5. \A q \in 0 .. k-1 : \A j \in 1 .. Len(pieces[q]) :
          offset[q] + j \in 1 .. a /\ before[offset[q] + j] = pieces[q][j]
    BY <1>3
  <2>6. \A i \in 1 .. a : \E q \in 0 .. k-1 : \E j \in 1 .. Len(pieces[q]) : i = offset[q] + j
    BY <1>3
  <2>7. \A j \in 1 .. b : pieces[k][j] = own[j]
    OBVIOUS
  <2>8. 0 .. (k+1)-1 = 0 .. k /\ k \in 0 .. k /\ 0 .. k-1 \subseteq 0 .. k
    OBVIOUS
  <2> HIDE DEF before, whole, a, b
  <2>9. ASSUME NEW q \in 0 .. (k+1)-1, NEW j \in 1 .. Len(pieces[q])
        PROVE  offset[q] + j \in 1 .. a + b /\ whole[offset[q] + j] = pieces[q][j]
    <3>1. CASE q = k
      <4>1. offset[q] = a /\ j \in 1 .. b
        BY <3>1 DEF a, b
      <4>2. a + j \in 1 .. a + b /\ ~ (a + j <= a) /\ (a + j) - a = j
        BY <2>3, <4>1
      <4> QED
        BY <2>2, <3>1, <4>1, <4>2
    <3>2. CASE q \in 0 .. k-1
      <4>1. offset[q] + j \in 1 .. a /\ before[offset[q] + j] = pieces[q][j]
        BY <2>5, <3>2
      <4>2. offset[q] + j \in 1 .. a + b /\ offset[q] + j <= a
        BY <2>3, <4>1
      <4> QED
        BY <2>2, <4>1, <4>2
    <3> QED
      BY <2>4, <3>1, <3>2
  <2>10. ASSUME NEW i \in 1 .. a + b
         PROVE  \E q \in 0 .. (k+1)-1 : \E j \in 1 .. Len(pieces[q]) : i = offset[q] + j
    <3>1. CASE i <= a
      <4>1. i \in 1 .. a
        BY <2>3, <3>1
      <4> QED
        BY <2>6, <2>8, <4>1
    <3>2. CASE ~ (i <= a)
      <4>1. i - a \in 1 .. b /\ i = a + (i - a)
        BY <2>3, <3>2
      <4> QED
        BY <2>8, <4>1 DEF a, b
    <3> QED
      BY <3>1, <3>2
  <2>11. whole \in Seq(S) /\ Len(whole) = offset[k+1]
    BY <2>2, <2>3
  <2> QED
    BY <2>3, <2>9, <2>10, <2>11 DEF whole
<1>4. 0 \in T
  BY <1>2
<1>5. \A k \in Nat : k \in T => k + 1 \in T
  <2> HIDE DEF Placed
  <2> SUFFICES ASSUME NEW k \in Nat, k \in T, k + 1 <= n PROVE Placed(k + 1)
    OBVIOUS
  <2>1. k \in 0 .. n-1 /\ Placed(k)
    OBVIOUS
  <2> QED
    BY <1>3, <2>1
<1> HIDE DEF T
<1>6. n \in T
  BY <1>4, <1>5, Induction
<1>7. Placed(n)
  <2> HIDE DEF Placed
  <2> QED
    BY <1>6 DEF T
<1> QED
  BY <1>7 DEF InPlace

\* A stretch cut out of a list.
LEMMA CutOut ==
  ASSUME NEW S, NEW d \in Seq(S), NEW b \in Nat, NEW n \in Nat, b + n <= Len(d)
  PROVE  /\ SubSeq(d, b + 1, b + n) \in Seq(S) /\ Len(SubSeq(d, b + 1, b + n)) = n
         /\ \A j \in 1 .. n : SubSeq(d, b + 1, b + n)[j] = d[b + j]
<1> DEFINE from == b + 1
           to == b + n
<1>1. from \in Int /\ to \in Int /\ \A i \in from .. to : d[i] \in S
  OBVIOUS
<1>2. /\ (IF from <= to THEN to - from + 1 ELSE 0) = n /\ to - from + 1 = n
      /\ \A j \in 1 .. n : from + j - 1 = b + j
  OBVIOUS
<1> HIDE DEF from, to
<1> DEFINE w == SubSeq(d, from, to)
<1>3. w \in Seq(S)
  BY ONLY <1>1, SubSeqProperties
<1>4. Len(w) = n
  BY <1>1, <1>2
<1>5. \A j \in 1 .. n : w[j] = d[b + j]
  BY <1>1, <1>2
<1> QED
  BY <1>3, <1>4, <1>5 DEF from, to

\* Induction over the parts of a finite set: a set of parts that has the empty one, and a
\* part when it has it without one of its members, has the whole.
LEMMA PartsInduction ==
  ASSUME NEW T, IsFiniteSet(T), NEW P, {} \in P,
         \A u \in SUBSET T : \A x \in u : u \ {x} \in P => u \in P
  PROVE  T \in P
<1> DEFINE Fine == {n \in Nat : \A u \in SUBSET T : Cardinality(u) = n => u \in P}
<1>1. \A u \in SUBSET T : IsFiniteSet(u) /\ Cardinality(u) \in Nat
  BY FS_Subset, FS_CardinalityType
<1>2. 0 \in Fine
  <2> SUFFICES ASSUME NEW u \in SUBSET T, Cardinality(u) = 0 PROVE u \in P
    OBVIOUS
  <2>1. u = {}
    BY <1>1, FS_EmptySet
  <2> QED
    BY <2>1
<1>3. \A n \in Nat : n \in Fine => n + 1 \in Fine
  <2> SUFFICES ASSUME NEW n \in Nat, n \in Fine, NEW u \in SUBSET T, Cardinality(u) = n + 1
               PROVE  u \in P
    OBVIOUS
  <2>1. u # {}
    BY FS_EmptySet
  <2>2. PICK x : x \in u
    BY <2>1
  <2>3. Cardinality(u \ {x}) = Cardinality(u) - 1 /\ u \ {x} \in SUBSET T
    BY <1>1, <2>2, FS_RemoveElement
  <2>4. u \ {x} \in P
    BY <2>3
  <2> QED
    BY <2>2, <2>4
<1> HIDE DEF Fine
<1>4. \A n \in Nat : n \in Fine
  BY <1>2, <1>3, Induction
<1>5. Cardinality(T) \in Fine
  BY <1>1, <1>4
<1> QED
  BY <1>5 DEF Fine

\* Sums of what is nowhere larger are not larger.
LEMMA SumsCompare ==
  ASSUME NEW f, NEW g, NEW T, IsFiniteSet(T), \A x \in T : f[x] \in Int /\ g[x] \in Int /\ f[x] <= g[x]
  PROVE  SumFunctionOnSet(f, T) <= SumFunctionOnSet(g, T)
<1> DEFINE P == {u \in SUBSET T : SumFunctionOnSet(f, u) <= SumFunctionOnSet(g, u)}
<1>1. {} \in P
  <2>1. 0 <= 0
    OBVIOUS
  <2> QED
    BY <2>1, SumOfNone
<1>2. \A u \in SUBSET T : \A x \in u : u \ {x} \in P => u \in P
  <2> SUFFICES ASSUME NEW u \in SUBSET T, NEW x \in u, u \ {x} \in P
               PROVE  SumFunctionOnSet(f, u) <= SumFunctionOnSet(g, u)
    OBVIOUS
  <2>1. IsFiniteSet(u) /\ IsFiniteSet(u \ {x}) /\ \A y \in u : f[y] \in Int /\ g[y] \in Int
    BY FS_Subset
  <2>2. /\ SumFunctionOnSet(f, u) = f[x] + SumFunctionOnSet(f, u \ {x})
        /\ SumFunctionOnSet(g, u) = g[x] + SumFunctionOnSet(g, u \ {x})
    BY <2>1, SumFirst
  <2>3. SumFunctionOnSet(f, u \ {x}) \in Int /\ SumFunctionOnSet(g, u \ {x}) \in Int
    BY <2>1, SumIsInteger
  <2>4. /\ SumFunctionOnSet(f, u \ {x}) <= SumFunctionOnSet(g, u \ {x})
        /\ f[x] \in Int /\ g[x] \in Int /\ f[x] <= g[x]
    OBVIOUS
  <2> QED
    BY <2>2, <2>3, <2>4
<1> HIDE DEF P
<1>3. T \in P
  BY <1>1, <1>2, PartsInduction
<1> QED
  BY <1>3 DEF P

\* The sum of the same over each.
LEMMA SumsSame ==
  ASSUME NEW f, NEW g, NEW T, IsFiniteSet(T), \A x \in T : f[x] \in Int /\ f[x] = g[x]
  PROVE  SumFunctionOnSet(f, T) = SumFunctionOnSet(g, T)
<1>1. \A x \in T : g[x] \in Int /\ f[x] <= g[x] /\ g[x] <= f[x]
  OBVIOUS
<1>2. SumFunctionOnSet(f, T) <= SumFunctionOnSet(g, T) /\ SumFunctionOnSet(g, T) <= SumFunctionOnSet(f, T)
  BY <1>1, SumsCompare
<1>3. SumFunctionOnSet(f, T) \in Int /\ SumFunctionOnSet(g, T) \in Int
  BY <1>1, SumIsInteger
<1> QED
  BY <1>2, <1>3

\* A factor goes before the sum.
LEMMA SumScaled ==
  ASSUME NEW f, NEW g, NEW c \in Int, NEW T, IsFiniteSet(T),
         \A x \in T : f[x] \in Int /\ g[x] = c * f[x]
  PROVE  SumFunctionOnSet(g, T) = c * SumFunctionOnSet(f, T)
<1> DEFINE P == {u \in SUBSET T : SumFunctionOnSet(g, u) = c * SumFunctionOnSet(f, u)}
<1>1. {} \in P
  BY SumOfNone
<1>2. \A u \in SUBSET T : \A x \in u : u \ {x} \in P => u \in P
  <2> SUFFICES ASSUME NEW u \in SUBSET T, NEW x \in u, u \ {x} \in P
               PROVE  SumFunctionOnSet(g, u) = c * SumFunctionOnSet(f, u)
    OBVIOUS
  <2>1. IsFiniteSet(u) /\ IsFiniteSet(u \ {x}) /\ \A y \in u : f[y] \in Int /\ g[y] \in Int
    BY FS_Subset
  <2>2. /\ SumFunctionOnSet(f, u) = f[x] + SumFunctionOnSet(f, u \ {x})
        /\ SumFunctionOnSet(g, u) = g[x] + SumFunctionOnSet(g, u \ {x})
    BY <2>1, SumFirst
  <2>3. SumFunctionOnSet(f, u \ {x}) \in Int
    BY <2>1, SumIsInteger
  <2>4. SumFunctionOnSet(g, u \ {x}) = c * SumFunctionOnSet(f, u \ {x}) /\ f[x] \in Int /\ g[x] = c * f[x]
    OBVIOUS
  <2>5. \A a, b \in Int : c * a + c * b = c * (a + b)
    OBVIOUS
  <2> QED
    BY <2>2, <2>3, <2>4, <2>5
<1> HIDE DEF P
<1>3. T \in P
  BY <1>1, <1>2, PartsInduction
<1> QED
  BY <1>3 DEF P

\* The squares of the distances from e: the squares, less 2 e times the sum, and e squared
\* for each.
LEMMA SquaredDistances ==
  ASSUME NEW f, NEW q, NEW g, NEW e \in Int, NEW T, IsFiniteSet(T),
         \A x \in T : f[x] \in Int /\ q[x] = f[x] * f[x] /\ g[x] = (f[x] - e) * (f[x] - e)
  PROVE  SumFunctionOnSet(g, T)
           = SumFunctionOnSet(q, T) - 2 * (e * SumFunctionOnSet(f, T)) + Cardinality(T) * (e * e)
<1> DEFINE G(u) == SumFunctionOnSet(g, u)
           Q(u) == SumFunctionOnSet(q, u)
           F(u) == SumFunctionOnSet(f, u)
           P == {u \in SUBSET T : G(u) = Q(u) - 2 * (e * F(u)) + Cardinality(u) * (e * e)}
<1>1. {} \in P
  <2>1. G({}) = 0 /\ Q({}) = 0 /\ F({}) = 0 /\ Cardinality({}) = 0
    BY SumOfNone, FS_EmptySet
  <2>2. 0 * (e * e) = 0 /\ e * 0 = 0
    OBVIOUS
  <2> QED
    BY <2>1, <2>2
<1>2. \A u \in SUBSET T : \A x \in u : u \ {x} \in P => u \in P
  <2> SUFFICES ASSUME NEW u \in SUBSET T, NEW x \in u, u \ {x} \in P
               PROVE  G(u) = Q(u) - 2 * (e * F(u)) + Cardinality(u) * (e * e)
    OBVIOUS
  <2> DEFINE v == u \ {x}
  <2>1. f[x] \in Int /\ q[x] = f[x] * f[x] /\ g[x] = (f[x] - e) * (f[x] - e)
    OBVIOUS
  <2>2. \A y \in T : q[y] \in Int /\ g[y] \in Int
    <3> SUFFICES ASSUME NEW y \in T PROVE q[y] \in Int /\ g[y] \in Int
      OBVIOUS
    <3>1. f[y] \in Int /\ q[y] = f[y] * f[y] /\ g[y] = (f[y] - e) * (f[y] - e)
      OBVIOUS
    <3> QED
      BY <3>1
  <2>3. IsFiniteSet(u) /\ IsFiniteSet(v)
        /\ (\A y \in u : f[y] \in Int /\ q[y] \in Int /\ g[y] \in Int)
        /\ (\A y \in v : f[y] \in Int /\ q[y] \in Int /\ g[y] \in Int)
    BY <2>2, FS_Subset
  <2>4. G(v) = Q(v) - 2 * (e * F(v)) + Cardinality(v) * (e * e)
    OBVIOUS
  <2>5. Cardinality(v) \in Int /\ Cardinality(u) \in Int /\ Cardinality(u) = Cardinality(v) + 1
    <3>1. Cardinality(v) = Cardinality(u) - 1
      BY <2>3, FS_RemoveElement
    <3>2. Cardinality(u) \in Nat
      BY <2>3, FS_CardinalityType
    <3> HIDE DEF v
    <3> QED
      BY ONLY <3>1, <3>2
  <2> HIDE DEF v
  <2>6. G(u) = g[x] + G(v) /\ Q(u) = q[x] + Q(v) /\ F(u) = f[x] + F(v)
    BY <2>3, SumFirst DEF v
  <2>7. G(v) \in Int /\ Q(v) \in Int /\ F(v) \in Int
    BY <2>3, SumIsInteger
  <2> HIDE DEF G, Q, F
  <2> DEFINE a == f[x]
             n == Cardinality(v)
             s == F(v)
  <2>8. a \in Int /\ n \in Int /\ s \in Int
    BY <2>1, <2>5, <2>7
  <2>9. g[x] = q[x] - 2 * (e * a) + e * e /\ q[x] \in Int
    <3> HIDE DEF n, s
    <3>1. g[x] = (a - e) * (a - e) /\ q[x] = a * a
      BY <2>1
    <3> HIDE DEF a
    <3>2. (a - e) * (a - e) = a * a - 2 * (e * a) + e * e
      BY <2>8
    <3> QED
      BY <2>8, <3>1, <3>2
  <2> HIDE DEF a, n, s
  <2>10. e * (a + s) = e * a + e * s /\ (n + 1) * (e * e) = n * (e * e) + e * e
    BY <2>8
  <2>11. F(u) = a + s /\ Cardinality(u) = n + 1 /\ G(v) = Q(v) - 2 * (e * s) + n * (e * e)
    BY <2>4, <2>5, <2>6 DEF a, n, s
  <2> DEFINE ea == e * a
             es == e * s
             ee == e * e
             nee == n * (e * e)
  <2>12. ea \in Int /\ es \in Int /\ ee \in Int /\ nee \in Int
    BY <2>8
  <2>13. /\ e * F(u) = ea + es /\ Cardinality(u) * (e * e) = nee + ee
         /\ G(v) = Q(v) - 2 * es + nee /\ g[x] = q[x] - 2 * ea + ee
         /\ G(u) = g[x] + G(v) /\ Q(u) = q[x] + Q(v)
    BY <2>6, <2>9, <2>10, <2>11
  <2> HIDE DEF ea, es, ee, nee
  <2> QED
    BY <2>7, <2>9, <2>12, <2>13
<1> HIDE DEF P
<1>3. T \in P
  BY <1>1, <1>2, PartsInduction
<1> QED
  BY <1>3 DEF P

\* The mean m has the least sum of squared distances.
LEMMA MeanIsLeast ==
  ASSUME NEW f, NEW g, NEW h, NEW m \in Int, NEW e \in Int, NEW T, IsFiniteSet(T),
         \A x \in T : /\ f[x] \in Int /\ g[x] = (f[x] - m) * (f[x] - m)
                      /\ h[x] = (f[x] - e) * (f[x] - e),
         Cardinality(T) * m = SumFunctionOnSet(f, T)
  PROVE  SumFunctionOnSet(g, T) <= SumFunctionOnSet(h, T)
<1> DEFINE q == [x \in T |-> f[x] * f[x]]
           n == Cardinality(T)
           Q == SumFunctionOnSet(q, T)
           F == SumFunctionOnSet(f, T)
<1>1. n \in Nat
  BY FS_CardinalityType
<1>2. \A x \in T : q[x] = f[x] * f[x] /\ q[x] \in Int
  <2> SUFFICES ASSUME NEW x \in T PROVE q[x] = f[x] * f[x] /\ q[x] \in Int
    OBVIOUS
  <2>1. f[x] \in Int
    OBVIOUS
  <2> QED
    BY <2>1
<1> HIDE DEF q
<1>3. Q \in Int
  BY <1>2, SumIsInteger
<1>4. SumFunctionOnSet(g, T) = Q - 2 * (m * F) + n * (m * m)
  BY <1>2, SquaredDistances
<1>5. SumFunctionOnSet(h, T) = Q - 2 * (e * F) + n * (e * e)
  BY <1>2, SquaredDistances
<1>6. F = n * m
  OBVIOUS
<1> HIDE DEF n, Q, F
<1>7. n * ((e - m) * (e - m)) >= 0
  <2>1. (e - m) * (e - m) \in Nat
    <3> DEFINE d == e - m
    <3>1. d \in Int
      OBVIOUS
    <3> HIDE DEF d
    <3>2. d * d \in Int /\ d * d >= 0
      BY <3>1
    <3>3. d * d \in Nat
      BY <3>2
    <3> QED
      BY <3>3 DEF d
  <2> DEFINE s == (e - m) * (e - m)
  <2> HIDE DEF s
  <2>2. n * s >= 0
    BY <1>1, <2>1 DEF s
  <2> QED
    BY <2>2 DEF s
<1>8. n * ((e - m) * (e - m)) = n * (e * e) - 2 * (e * (n * m)) + n * (m * m)
  BY <1>1
<1>9. m * (n * m) = n * (m * m)
  BY <1>1
<1> DEFINE nee == n * (e * e)
           enm == e * (n * m)
           nmm == n * (m * m)
<1>10. nee \in Int /\ enm \in Int /\ nmm \in Int
  BY <1>1
<1>11. /\ SumFunctionOnSet(g, T) = Q - 2 * nmm + nmm /\ SumFunctionOnSet(h, T) = Q - 2 * enm + nee
       /\ nee - 2 * enm + nmm >= 0
  BY <1>4, <1>5, <1>6, <1>7, <1>8, <1>9
<1> HIDE DEF nee, enm, nmm
<1> QED
  BY <1>3, <1>10, <1>11

\* Sums along the second of two coordinates, then along the first.
SumsOf(h, n, own, D, T, f) ==
  /\ \A q \in 0 .. n-1 : h[q] = SumFunctionOnSet(own[q], D[q]) /\ IsFiniteSet(D[q])
  /\ \A q \in 0 .. n-1 : \A d \in D[q] :
       <<q, d>> \in T /\ own[q][d] = f[<<q, d>>] /\ f[<<q, d>>] \in Int
  /\ \A x \in T : \E q \in 0 .. n-1 : \E d \in D[q] : x = <<q, d>>

LEMMA SumOfSums ==
  ASSUME NEW n \in Nat, NEW h, NEW own, NEW D, NEW T, NEW f, SumsOf(h, n, own, D, T, f)
  PROVE  IsFiniteSet(T) /\ SumFunctionOnSet(f, T) = SumFunctionOnSet(h, 0 .. n-1)
<1>0. /\ \A q \in 0 .. n-1 : h[q] = SumFunctionOnSet(own[q], D[q]) /\ IsFiniteSet(D[q])
      /\ \A q \in 0 .. n-1 : \A d \in D[q] :
           <<q, d>> \in T /\ own[q][d] = f[<<q, d>>] /\ f[<<q, d>>] \in Int
      /\ \A x \in T : \E q \in 0 .. n-1 : \E d \in D[q] : x = <<q, d>>
  BY DEF SumsOf
<1> USE <1>0
<1> DEFINE S(k) == UNION {{q} \X D[q] : q \in 0 .. k-1}
           Fine == {k \in Nat : k <= n => /\ IsFiniteSet(S(k))
                                          /\ SumFunctionOnSet(f, S(k)) = SumFunctionOnSet(h, 0 .. k-1)}
<1>1. \A q \in 0 .. n-1 : h[q] \in Int
  <2> SUFFICES ASSUME NEW q \in 0 .. n-1 PROVE h[q] \in Int
    OBVIOUS
  <2> DEFINE g == own[q]
  <2>1. \A d \in D[q] : g[d] \in Int
    OBVIOUS
  <2>2. IsFiniteSet(D[q]) /\ h[q] = SumFunctionOnSet(g, D[q])
    OBVIOUS
  <2> HIDE DEF g
  <2> QED
    BY <2>1, <2>2, SumIsInteger
<1>2. 0 \in Fine
  <2>1. 0 .. 0-1 = {}
    OBVIOUS
  <2>2. S(0) = {}
    BY <2>1
  <2> HIDE DEF S
  <2>3. IsFiniteSet(S(0)) /\ SumFunctionOnSet(f, S(0)) = SumFunctionOnSet(h, 0 .. 0-1)
    BY <2>1, <2>2, SumOfNone, FS_EmptySet
  <2> QED
    BY <2>3
<1>3. \A k \in Nat : k \in Fine => k + 1 \in Fine
  <2> SUFFICES ASSUME NEW k \in Nat, k \in Fine, k + 1 <= n
               PROVE  /\ IsFiniteSet(S(k + 1))
                      /\ SumFunctionOnSet(f, S(k + 1)) = SumFunctionOnSet(h, 0 .. (k + 1)-1)
    <3> HIDE <1>0
    <3> HIDE DEF S
    <3> QED
      OBVIOUS
  <2> DEFINE N == {k} \X D[k]
             g == own[k]
             A == D[k]
             place == [d \in D[k] |-> <<k, d>>]
  <2>1. k <= n /\ k \in 0 .. n-1 /\ (\A q \in 0 .. k-1 : q \in 0 .. n-1)
    OBVIOUS
  <2>2. IsFiniteSet(S(k)) /\ SumFunctionOnSet(f, S(k)) = SumFunctionOnSet(h, 0 .. k-1)
    BY <2>1
  <2>3. S(k + 1) = S(k) \cup N /\ S(k) \cap N = {}
    <3>1. 0 .. (k + 1)-1 = (0 .. k-1) \cup {k} /\ k \notin 0 .. k-1
      OBVIOUS
    <3> QED
      BY <3>1
  <2>4. /\ place \in [D[k] -> N]
        /\ \A x, y \in D[k] : place[x] = place[y] => x = y
        /\ \A z \in N : \E x \in D[k] : place[x] = z
        /\ \A x \in D[k] : g[x] = f[place[x]] /\ g[x] \in Int
        /\ IsFiniteSet(D[k])
    BY <2>1
  <2>5. \A x \in S(k) \cup N : f[x] \in Int
    <3> SUFFICES ASSUME NEW x \in S(k) \cup N PROVE f[x] \in Int
      OBVIOUS
    <3>1. PICK q \in 0 .. n-1 : x \in {q} \X D[q]
      BY <2>1
    <3>2. PICK d \in D[q] : x = <<q, d>>
      BY <3>1
    <3> QED
      BY <3>2
  <2>6. h[k] = SumFunctionOnSet(g, D[k])
    BY <2>1
  <2> HIDE DEF S, N, g, place
  <2>7. SumFunctionOnSet(f, N) = h[k]
    <3>1. SumFunctionOnSet(f, N) = SumFunctionOnSet(g, D[k])
      BY <2>4, SumMoved
    <3> QED
      BY <2>6, <3>1
  <2>8. IsFiniteSet(N)
    <3>1. place \in Surjection(D[k], N)
      BY <2>4 DEF Surjection
    <3>2. IsFiniteSet(A) /\ place \in Surjection(A, N)
      BY <2>4, <3>1
    <3> HIDE DEF A
    <3> QED
      BY ONLY <3>2, FS_Surjection
  <2>9. IsFiniteSet(S(k + 1))
    BY ONLY <2>2, <2>3, <2>8, FS_Union
  <2>10. SumFunctionOnSet(f, S(k + 1)) = SumFunctionOnSet(f, S(k)) + SumFunctionOnSet(f, N)
    BY <2>2, <2>3, <2>5, <2>8, SumsAdd
  <2>11. SumFunctionOnSet(h, 0 .. k) = h[k] + SumFunctionOnSet(h, 0 .. k-1)
    <3> DEFINE R == 0 .. k
    <3>1. R \ {k} = 0 .. k-1 /\ k \in R /\ \A r \in R : r \in 0 .. n-1
      BY <2>1
    <3>2. IsFiniteSet(R) /\ \A r \in R : h[r] \in Int
      BY <1>1, <3>1, FS_Interval
    <3> HIDE DEF R
    <3>3. SumFunctionOnSet(h, R) = h[k] + SumFunctionOnSet(h, R \ {k})
      BY ONLY <3>1, <3>2, SumFirst
    <3> QED
      BY <3>1, <3>3 DEF R
  <2>12. SumFunctionOnSet(f, S(k)) \in Int /\ h[k] \in Int
    <3>1. SumFunctionOnSet(f, S(k)) \in Int
      BY <2>2, <2>5, SumIsInteger
    <3> QED
      BY <1>1, <2>1, <3>1
  <2>13. (k + 1) - 1 = k
    OBVIOUS
  <2> QED
    BY <2>2, <2>7, <2>9, <2>10, <2>11, <2>12, <2>13
<1> HIDE DEF Fine
<1>4. \A k \in Nat : k \in Fine
  BY <1>2, <1>3, Induction
<1>5. n \in Fine
  BY <1>4
<1>6. S(n) = T
  <2>1. ASSUME NEW x \in T PROVE x \in S(n)
    <3>1. PICK q \in 0 .. n-1 : \E d \in D[q] : x = <<q, d>>
      OBVIOUS
    <3>2. x \in {q} \X D[q]
      BY <3>1
    <3> QED
      BY <3>2
  <2>2. ASSUME NEW x \in S(n) PROVE x \in T
    <3>1. PICK q \in 0 .. n-1 : x \in {q} \X D[q]
      OBVIOUS
    <3>2. PICK d \in D[q] : x = <<q, d>>
      BY <3>1
    <3> QED
      BY <3>2
  <2> HIDE DEF S
  <2> QED
    BY ONLY <2>1, <2>2
<1>7. n <= n
  OBVIOUS
<1> HIDE DEF S
<1> QED
  BY <1>5, <1>6, <1>7 DEF Fine

(***************************************************************************)
(* Products and fractions.                                                 *)
(***************************************************************************)

LEMMA ProductsOrdered ==
  ASSUME NEW a \in Int, NEW b \in Int, NEW t \in Int, t > 0
  PROVE  a <= b <=> a * t <= b * t
<1>1. CASE a <= b
  <2>1. (b - a) * t >= 0
    BY <1>1
  <2>2. (b - a) * t = b * t - a * t
    OBVIOUS
  <2> QED
    BY <1>1, <2>1, <2>2
<1>2. CASE ~(a <= b)
  <2>1. a - b >= 1
    BY <1>2
  <2>2. (a - b) * t > 0
    BY <2>1
  <2>3. (a - b) * t = a * t - b * t
    OBVIOUS
  <2> QED
    BY <1>2, <2>2, <2>3
<1> QED
  BY <1>1, <1>2

\* The quotient of a multiple.
LEMMA Divided ==
  ASSUME NEW d \in Nat \ {0}, NEW q \in Nat
  PROVE  (d * q) \div d = q
<1> DEFINE p == (d * q) \div d
<1>1. d * q \in Int
  OBVIOUS
<1>2. p \in Int /\ p * d <= d * q /\ d * q < p * d + d
  <2>1. \A x \in Int : x \div d \in Int /\ d * (x \div d) <= x /\ x < d * (x \div d) + d
    OBVIOUS
  <2> QED
    BY <1>1, <2>1
<1> HIDE DEF p
<1>3. q * d = d * q /\ p * d + d = (p + 1) * d /\ q * d <= d * q
  BY <1>2
<1>4. p <= q
  <2>1. p * d <= q * d
    BY <1>2, <1>3
  <2> QED
    BY <1>2, <2>1, ProductsOrdered
<1>5. q < p + 1
  <2>1. ~((p + 1) * d <= q * d)
    <3>1. (p + 1) * d \in Int /\ q * d \in Int /\ q * d < (p + 1) * d
      BY <1>2, <1>3
    <3> QED
      BY <3>1
  <2>2. p + 1 \in Int
    BY <1>2
  <2>3. ~(p + 1 <= q)
    BY <2>1, <2>2, ProductsOrdered
  <2> QED
    BY <2>2, <2>3
<1>6. p = q
  BY <1>2, <1>4, <1>5
<1> QED
  BY <1>6 DEF p

\* A fraction with a smaller square stays smaller with a common denominator.
LEMMA SquaresWidened ==
  ASSUME NEW u \in Int, NEW d \in Int, NEW s \in Int, d > 0, s > 0,
         NEW v \in Int, NEW e \in Int, NEW t \in Int, e > 0, t > 0, d * s = e * t,
         (u * u) * (e * e) <= (v * v) * (d * d)
  PROVE  (u * s) * (u * s) <= (v * t) * (v * t)
<1> DEFINE S == d * s
<1>1. S \in Int /\ S > 0 /\ S = e * t
  OBVIOUS
<1>2. (s * t) * (s * t) > 0 /\ (s * t) * (s * t) \in Int
  <2>1. s * t > 0 /\ s * t \in Int
    OBVIOUS
  <2> HIDE DEF S
  <2> QED
    BY <2>1
<1>3. (u * u) * (e * e) \in Int /\ (v * v) * (d * d) \in Int
  OBVIOUS
<1>4. ((u * u) * (e * e)) * ((s * t) * (s * t)) <= ((v * v) * (d * d)) * ((s * t) * (s * t))
  BY <1>2, <1>3, ProductsOrdered
<1>5. ((u * u) * (e * e)) * ((s * t) * (s * t)) = ((u * s) * (u * s)) * ((e * t) * (e * t))
  OBVIOUS
<1>6. ((v * v) * (d * d)) * ((s * t) * (s * t)) = ((v * t) * (v * t)) * ((d * s) * (d * s))
  OBVIOUS
<1>7. ((u * s) * (u * s)) * (S * S) <= ((v * t) * (v * t)) * (S * S)
  BY <1>4, <1>5, <1>6
<1> HIDE DEF S
<1>8. S * S > 0 /\ S * S \in Int /\ (u * s) * (u * s) \in Int /\ (v * t) * (v * t) \in Int
  BY <1>1
<1> QED
  BY <1>7, <1>8, ProductsOrdered

\* Sums that are no more on every part are no more on the whole.
LEMMA SumsByParts ==
  ASSUME NEW T, IsFiniteSet(T), NEW n \in Nat, NEW part, \A x \in T : part[x] \in 0 .. n-1,
         NEW f, NEW g, \A x \in T : f[x] \in Int /\ g[x] \in Int,
         \A j \in 0 .. n-1 : \A V : (\A x : x \in V <=> x \in T /\ part[x] = j)
                                    => SumFunctionOnSet(f, V) <= SumFunctionOnSet(g, V)
  PROVE  SumFunctionOnSet(f, T) <= SumFunctionOnSet(g, T)
<1> DEFINE U(k) == {x \in T : part[x] < k}
           Fine == {k \in Nat : k <= n => SumFunctionOnSet(f, U(k)) <= SumFunctionOnSet(g, U(k))}
<1>1. 0 \in Fine
  <2>1. U(0) = {}
    OBVIOUS
  <2>2. SumFunctionOnSet(f, U(0)) = 0 /\ SumFunctionOnSet(g, U(0)) = 0
    BY <2>1, SumOfNone
  <2> HIDE DEF U
  <2> QED
    BY <2>2
<1>2. \A k \in Nat : k \in Fine => k + 1 \in Fine
  <2> SUFFICES ASSUME NEW k \in Nat, k \in Fine, k + 1 <= n
               PROVE  SumFunctionOnSet(f, U(k + 1)) <= SumFunctionOnSet(g, U(k + 1))
    OBVIOUS
  <2> DEFINE V == {x \in T : part[x] = k}
  <2>1. U(k + 1) = U(k) \cup V /\ U(k) \cap V = {}
    OBVIOUS
  <2>2. SumFunctionOnSet(f, U(k)) <= SumFunctionOnSet(g, U(k))
    OBVIOUS
  <2>3. SumFunctionOnSet(f, V) <= SumFunctionOnSet(g, V)
    <3>1. k \in 0 .. n-1 /\ \A x : x \in V <=> x \in T /\ part[x] = k
      OBVIOUS
    <3> HIDE DEF V
    <3> QED
      BY <3>1
  <2>4. U(k) \in SUBSET T /\ V \in SUBSET T
    OBVIOUS
  <2>5. IsFiniteSet(U(k)) /\ IsFiniteSet(V)
    BY <2>4, FS_Subset
  <2> HIDE DEF U, V
  <2>6. /\ \A x \in U(k) \cup V : f[x] \in Int /\ g[x] \in Int
        /\ \A x \in U(k) : f[x] \in Int /\ g[x] \in Int
        /\ \A x \in V : f[x] \in Int /\ g[x] \in Int
    BY <2>4
  <2>7. /\ SumFunctionOnSet(f, U(k) \cup V) = SumFunctionOnSet(f, U(k)) + SumFunctionOnSet(f, V)
        /\ SumFunctionOnSet(g, U(k) \cup V) = SumFunctionOnSet(g, U(k)) + SumFunctionOnSet(g, V)
    BY <2>1, <2>5, <2>6, SumsAdd
  <2>8. /\ SumFunctionOnSet(f, U(k)) \in Int /\ SumFunctionOnSet(f, V) \in Int
        /\ SumFunctionOnSet(g, U(k)) \in Int /\ SumFunctionOnSet(g, V) \in Int
    BY <2>5, <2>6, SumIsInteger
  <2> QED
    BY <2>1, <2>2, <2>3, <2>7, <2>8
<1>3. U(n) = T
  OBVIOUS
<1>4. n \in Fine
  <2> HIDE DEF Fine
  <2> QED
    BY <1>1, <1>2, Induction
<1> QED
  BY <1>3, <1>4

(***************************************************************************)
(* Lists that take the values of a function, one of each place.            *)
(***************************************************************************)

\* The list s of length n has, in this order, the values at the places of f that b names.
InOrder(b, n, s, f) ==
  /\ b \in [1 .. n -> DOMAIN f]
  /\ \A x, y \in 1 .. n : b[x] = b[y] => x = y
  /\ \A p \in DOMAIN f : \E x \in 1 .. n : b[x] = p
  /\ \A x \in 1 .. n : s[x] = f[b[x]]

\* The places of f can be gone through one after the other so that s lists the values there.
Enumerates(s, f) == \E b : InOrder(b, Len(s), s, f)

\* Then every value occurs in s as often as among the values of f.
LEMMA EnumeratedOften ==
  ASSUME NEW T, NEW s \in Seq(T), NEW f, Enumerates(s, f), NEW v
  PROVE  Occurrences(s, v) = Occurrences(f, v)
<1>1. PICK b : InOrder(b, Len(s), s, f)
  BY DEF Enumerates
<1>2. DOMAIN s = 1 .. Len(s)
  OBVIOUS
<1> DEFINE A == {x \in DOMAIN s : s[x] = v}
           B == {p \in DOMAIN f : f[p] = v}
           c == [x \in A |-> b[x]]
<1>3. IsFiniteSet(A)
  BY OccurrencesFinite
<1>4. c \in [A -> B] /\ \A x, y \in A : c[x] = c[y] => x = y
  BY <1>1, <1>2 DEF InOrder
<1>5. \A p \in B : \E x \in A : c[x] = p
  BY <1>1, <1>2 DEF InOrder
<1> HIDE DEF A, B, c
<1>6. Cardinality(B) = Cardinality(A)
  BY <1>3, <1>4, <1>5, SameSize
<1> QED
  BY <1>6 DEF Occurrences, A, B

\* A list enumerates itself.
LEMMA EnumeratesItself ==
  ASSUME NEW T, NEW s \in Seq(T)
  PROVE  Enumerates(s, s)
<1> DEFINE b == [x \in 1 .. Len(s) |-> x]
<1>1. DOMAIN s = 1 .. Len(s)
  OBVIOUS
<1>2. InOrder(b, Len(s), s, s)
  BY <1>1 DEF InOrder
<1> QED
  BY <1>2 DEF Enumerates

\* The map i takes the places of f to places of e with the same values, one to one.
Embeds(i, f, e) ==
  /\ \A p \in DOMAIN f : i[p] \in DOMAIN e /\ e[i[p]] = f[p]
  /\ \A p, q \in DOMAIN f : i[p] = i[q] => p = q

\* The values at other places.
LEMMA EnumeratesElsewhere ==
  ASSUME NEW s, NEW f, Enumerates(s, f), NEW g, NEW h, Embeds(h, f, g),
         \A r \in DOMAIN g : \E p \in DOMAIN f : h[p] = r
  PROVE  Enumerates(s, g)
<1>1. PICK b : InOrder(b, Len(s), s, f)
  BY DEF Enumerates
<1> DEFINE n == Len(s)
<1> HIDE DEF n
<1> DEFINE c == [x \in 1 .. n |-> h[b[x]]]
<1>2. InOrder(c, n, s, g)
  BY <1>1 DEF n, InOrder, Embeds
<1> HIDE DEF c
<1> QED
  BY <1>2 DEF Enumerates, n

\* Other values at the same places.
LEMMA EnumeratesMapped ==
  ASSUME NEW s, NEW f, Enumerates(s, f), NEW t, Len(t) = Len(s), NEW g, DOMAIN g = DOMAIN f,
         \A x \in 1 .. Len(s) : \A p \in DOMAIN f : s[x] = f[p] => t[x] = g[p]
  PROVE  Enumerates(t, g)
<1>1. PICK b : InOrder(b, Len(s), s, f)
  BY DEF Enumerates
<1>2. InOrder(b, Len(t), t, g)
  BY <1>1 DEF InOrder
<1> QED
  BY <1>2 DEF Enumerates

\* Every place of e is taken by one of the two maps, and none by both.
Divide(i, f, j, g, e) ==
  /\ \A p \in DOMAIN f : \A q \in DOMAIN g : i[p] # j[q]
  /\ \A r \in DOMAIN e : (\E p \in DOMAIN f : i[p] = r) \/ (\E q \in DOMAIN g : j[q] = r)

\* Two lists joined enumerate two functions with separate places.
LEMMA EnumeratesJoined ==
  ASSUME NEW T, NEW s \in Seq(T), NEW t \in Seq(T), NEW f, NEW g, Enumerates(s, f), Enumerates(t, g),
         NEW e, NEW i, NEW j, Embeds(i, f, e), Embeds(j, g, e), Divide(i, f, j, g, e)
  PROVE  Enumerates(s \o t, e)
<1> DEFINE n == Len(s)
           m == Len(t)
           st == s \o t
<1>1. /\ n \in Nat /\ m \in Nat /\ Len(st) = n + m
      /\ \A x \in 1 .. n + m : st[x] = IF x <= n THEN s[x] ELSE t[x - n]
  BY ConcatProperties
<1>2. PICK b : InOrder(b, n, s, f)
  BY DEF Enumerates
<1>3. PICK c : InOrder(c, m, t, g)
  BY DEF Enumerates
<1> HIDE DEF n, m, st
<1> DEFINE d == [x \in 1 .. n + m |-> IF x <= n THEN i[b[x]] ELSE j[c[x - n]]]
<1>4. \A x \in 1 .. n + m : (x <= n /\ x \in 1 .. n) \/ (~(x <= n) /\ x - n \in 1 .. m)
  BY <1>1
<1>5. \A x \in 1 .. n : x \in 1 .. n + m /\ x <= n
  BY <1>1
<1>6. \A x \in 1 .. m : n + x \in 1 .. n + m /\ ~(n + x <= n) /\ (n + x) - n = x
  BY <1>1
<1>7. d \in [1 .. n + m -> DOMAIN e] /\ \A x \in 1 .. n + m : st[x] = e[d[x]]
  <2> SUFFICES ASSUME NEW x \in 1 .. n + m PROVE d[x] \in DOMAIN e /\ st[x] = e[d[x]]
    OBVIOUS
  <2>1. CASE x <= n
    <3>1. d[x] = i[b[x]] /\ st[x] = s[x] /\ b[x] \in DOMAIN f /\ s[x] = f[b[x]]
      BY <1>1, <1>2, <1>4, <2>1 DEF InOrder, Embeds, Divide
    <3> QED
      BY <3>1 DEF Embeds
  <2>2. CASE ~(x <= n)
    <3>1. d[x] = j[c[x - n]] /\ st[x] = t[x - n] /\ c[x - n] \in DOMAIN g /\ t[x - n] = g[c[x - n]]
      BY <1>1, <1>3, <1>4, <2>2 DEF InOrder, Embeds, Divide
    <3> QED
      BY <3>1 DEF Embeds
  <2> QED
    BY <2>1, <2>2
<1>8. \A x, y \in 1 .. n + m : d[x] = d[y] => x = y
  <2> SUFFICES ASSUME NEW x \in 1 .. n + m, NEW y \in 1 .. n + m, d[x] = d[y] PROVE x = y
    OBVIOUS
  <2>1. CASE x <= n /\ y <= n
    BY <1>2, <1>4, <2>1 DEF InOrder, Embeds, Divide
  <2>2. CASE ~(x <= n) /\ ~(y <= n)
    <3>1. x - n \in 1 .. m /\ y - n \in 1 .. m /\ j[c[x - n]] = j[c[y - n]]
      BY <1>4, <2>2
    <3>2. x - n = y - n
      BY <1>3, <3>1 DEF InOrder, Embeds, Divide
    <3> QED
      BY <1>1, <3>2
  <2>3. CASE (x <= n /\ ~(y <= n)) \/ (~(x <= n) /\ y <= n)
    BY <1>2, <1>3, <1>4, <2>3 DEF InOrder, Embeds, Divide
  <2> QED
    BY <2>1, <2>2, <2>3
<1>9. \A r \in DOMAIN e : \E x \in 1 .. n + m : d[x] = r
  <2> SUFFICES ASSUME NEW r \in DOMAIN e PROVE \E x \in 1 .. n + m : d[x] = r
    OBVIOUS
  <2>1. CASE \E p \in DOMAIN f : i[p] = r
    BY <1>2, <1>5, <2>1 DEF InOrder, Embeds, Divide
  <2>2. CASE \E q \in DOMAIN g : j[q] = r
    <3>1. PICK x \in 1 .. m : j[c[x]] = r
      BY <1>3, <2>2 DEF InOrder, Embeds, Divide
    <3>2. d[n + x] = r
      BY <1>6, <3>1
    <3> QED
      BY <1>6, <3>2
  <2>3. (\E p \in DOMAIN f : i[p] = r) \/ (\E q \in DOMAIN g : j[q] = r)
    BY DEF Divide
  <2> HIDE DEF d
  <2> QED
    BY <2>1, <2>2, <2>3
<1>10. InOrder(d, Len(st), st, e)
  BY <1>1, <1>7, <1>8, <1>9 DEF InOrder
<1> QED
  BY <1>10 DEF Enumerates, st

\* An element more, at a place of its own.
LEMMA EnumeratesAppended ==
  ASSUME NEW T, NEW s \in Seq(T), NEW y \in T, NEW f, Enumerates(s, f), NEW e, NEW p, p \notin DOMAIN f,
         DOMAIN e = DOMAIN f \cup {p}, e[p] = y, \A q \in DOMAIN f : e[q] = f[q]
  PROVE  Enumerates(Append(s, y), e)
<1> DEFINE n == Len(s)
           t == Append(s, y)
<1>1. PICK b : InOrder(b, n, s, f)
  BY DEF Enumerates
<1>2. n \in Nat /\ Len(t) = n + 1 /\ t[n+1] = y /\ \A x \in 1 .. n : t[x] = s[x]
  BY AppendProperties
<1> HIDE DEF n, t
<1> DEFINE d == [x \in 1 .. n + 1 |-> IF x = n + 1 THEN p ELSE b[x]]
<1>3. \A x \in 1 .. n + 1 : x = n + 1 \/ (x # n + 1 /\ x \in 1 .. n)
  BY <1>2
<1>4. n + 1 \in 1 .. n + 1 /\ \A x \in 1 .. n : x \in 1 .. n + 1 /\ x # n + 1
  BY <1>2
<1>5. InOrder(d, n + 1, t, e)
  <2>1. d \in [1 .. n + 1 -> DOMAIN e]
    BY <1>1, <1>3 DEF InOrder
  <2>2. \A x, y_1 \in 1 .. n + 1 : d[x] = d[y_1] => x = y_1
    <3> SUFFICES ASSUME NEW x \in 1 .. n + 1, NEW z \in 1 .. n + 1, d[x] = d[z] PROVE x = z
      OBVIOUS
    <3>1. CASE x # n + 1 /\ z # n + 1
      <4>1. x \in 1 .. n /\ z \in 1 .. n /\ b[x] = b[z]
        BY <1>3, <3>1
      <4> QED
        BY <1>1, <4>1 DEF InOrder
    <3>2. CASE x = n + 1 \/ z = n + 1
      <4>1. \A w \in 1 .. n + 1 : w # n + 1 => d[w] \in DOMAIN f
        BY <1>1, <1>3 DEF InOrder
      <4>2. d[n+1] = p
        BY <1>4
      <4> QED
        BY <3>2, <4>1, <4>2
    <3> QED
      BY <3>1, <3>2
  <2>3. \A q \in DOMAIN e : \E x \in 1 .. n + 1 : d[x] = q
    BY <1>1, <1>4 DEF InOrder
  <2>4. \A x \in 1 .. n + 1 : t[x] = e[d[x]]
    <3> SUFFICES ASSUME NEW x \in 1 .. n + 1 PROVE t[x] = e[d[x]]
      OBVIOUS
    <3>1. CASE x = n + 1
      BY <1>2, <3>1
    <3>2. CASE x # n + 1
      <4>1. x \in 1 .. n /\ d[x] = b[x]
        BY <1>3, <3>2
      <4> QED
        BY <1>1, <1>2, <4>1 DEF InOrder
    <3> QED
      BY <3>1, <3>2
  <2> HIDE DEF d
  <2> QED
    BY <2>1, <2>2, <2>3, <2>4 DEF InOrder
<1> QED
  BY <1>2, <1>5 DEF Enumerates, t

\* No element and no place.
LEMMA EnumeratesNothing ==
  ASSUME NEW f, DOMAIN f = {}
  PROVE  Enumerates(<<>>, f)
<1>1. InOrder(<<>>, 0, <<>>, f)
  <2>1. 1 .. 0 = {} /\ <<>> \in [1 .. 0 -> DOMAIN f]
    OBVIOUS
  <2> QED
    BY <2>1 DEF InOrder
<1>2. Len(<<>>) = 0
  OBVIOUS
<1> QED
  BY <1>1, <1>2 DEF Enumerates

\* The elements that are kept are those at the places where the list has one of them.
LEMMA EnumeratesKept ==
  ASSUME NEW T, NEW s \in Seq(T), NEW S
  PROVE  Enumerates(Kept(s, S), Restrict(s, {x \in DOMAIN s : s[x] \in S}))
<1> DEFINE F == Filtered(s, S)
           At(n) == Restrict(s, {x \in 1 .. n : s[x] \in S})
           Fine == {n \in Nat : n <= Len(s) => F[n] \in Seq(T) /\ Enumerates(F[n], At(n))}
<1>1. F[0] = <<>>
  BY FilteredDefined
<1>2. \A x \in 1 .. Len(s) : F[x] = IF s[x] \in S THEN Append(F[x-1], s[x]) ELSE F[x-1]
  BY FilteredDefined
<1> HIDE DEF F
<1>3. 0 \in Fine
  <2>1. DOMAIN At(0) = {}
    BY DEF Restrict
  <2> QED
    BY <1>1, <2>1, EnumeratesNothing, EmptySeq
<1>4. \A n \in Nat : n \in Fine => n+1 \in Fine
  <2> SUFFICES ASSUME NEW n \in Nat, n \in Fine, n+1 <= Len(s)
               PROVE  F[n+1] \in Seq(T) /\ Enumerates(F[n+1], At(n+1))
    OBVIOUS
  <2>1. F[n] \in Seq(T) /\ s[n+1] \in T /\ Enumerates(F[n], At(n))
    OBVIOUS
  <2>2. F[n+1] = IF s[n+1] \in S THEN Append(F[n], s[n+1]) ELSE F[n]
    BY <1>2
  <2>3. CASE s[n+1] \in S
    <3>1. n+1 \notin DOMAIN At(n) /\ DOMAIN At(n+1) = DOMAIN At(n) \cup {n+1}
      BY <2>3 DEF Restrict
    <3>2. At(n+1)[n+1] = s[n+1] /\ \A q \in DOMAIN At(n) : At(n+1)[q] = At(n)[q]
      BY <2>3 DEF Restrict
    <3> HIDE DEF At
    <3>3. Enumerates(Append(F[n], s[n+1]), At(n+1))
      BY <2>1, <3>1, <3>2, EnumeratesAppended
    <3> QED
      BY <2>1, <2>2, <2>3, <3>3, AppendProperties
  <2>4. CASE s[n+1] \notin S
    <3>1. {x \in 1 .. n : s[x] \in S} = {x \in 1 .. n+1 : s[x] \in S}
      BY <2>4
    <3> QED
      BY <2>1, <2>2, <2>4, <3>1
  <2> QED
    BY <2>3, <2>4
<1>5. Nat \subseteq Fine
  <2> HIDE DEF Fine
  <2> QED
    BY <1>3, <1>4, Induction
<1>6. Enumerates(F[Len(s)], At(Len(s)))
  <2>1. Len(s) \in Nat
    OBVIOUS
  <2> QED
    BY <1>5, <2>1
<1>7. DOMAIN s = 1 .. Len(s)
  OBVIOUS
<1> QED
  BY <1>6, <1>7 DEF Kept, F

\* The places of several functions as one.
LEMMA PlacesSideBySide ==
  ASSUME NEW F
  PROVE  /\ \A p \in DOMAIN SideBySide(F) :
              /\ p[1] \in DOMAIN F /\ p[2] \in DOMAIN F[p[1]] /\ p = <<p[1], p[2]>>
              /\ SideBySide(F)[p] = F[p[1]][p[2]]
         /\ \A a \in DOMAIN F : \A x \in DOMAIN F[a] :
              <<a, x>> \in DOMAIN SideBySide(F) /\ SideBySide(F)[<<a, x>>] = F[a][x]
<1> DEFINE D == UNION {{a} \X DOMAIN F[a] : a \in DOMAIN F}
<1>1. SideBySide(F) = [p \in D |-> F[p[1]][p[2]]]
  BY DEF SideBySide
<1>2. \A p \in D : p[1] \in DOMAIN F /\ p[2] \in DOMAIN F[p[1]] /\ p = <<p[1], p[2]>>
  <2> SUFFICES ASSUME NEW a \in DOMAIN F, NEW p \in {a} \X DOMAIN F[a]
               PROVE  p[1] \in DOMAIN F /\ p[2] \in DOMAIN F[p[1]] /\ p = <<p[1], p[2]>>
    OBVIOUS
  <2> QED
    OBVIOUS
<1>3. \A a \in DOMAIN F : \A x \in DOMAIN F[a] : <<a, x>> \in D
  OBVIOUS
<1> HIDE DEF D
<1>4. DOMAIN SideBySide(F) = D /\ \A p \in D : SideBySide(F)[p] = F[p[1]][p[2]]
  BY <1>1
<1> QED
  BY <1>2, <1>3, <1>4

\* A list joined to the others' enumerates one function more.
LEMMA EnumeratesOneMore ==
  ASSUME NEW T, NEW s \in Seq(T), NEW t \in Seq(T), NEW F, Enumerates(s, SideBySide(F)),
         NEW G, NEW a, a \notin DOMAIN F, DOMAIN G = DOMAIN F \cup {a}, Enumerates(t, G[a]),
         \A c \in DOMAIN F : G[c] = F[c]
  PROVE  Enumerates(s \o t, SideBySide(G))
<1> DEFINE f == SideBySide(F)
           e == SideBySide(G)
<1>1. PICK i : i = [p \in DOMAIN f |-> p]
  OBVIOUS
<1>2. PICK j : j = [x \in DOMAIN G[a] |-> <<a, x>>]
  OBVIOUS
<1>3. DOMAIN i = DOMAIN f /\ DOMAIN j = DOMAIN G[a]
  BY <1>1, <1>2
<1>4. \A p \in DOMAIN f : i[p] = p /\ p[1] \in DOMAIN F /\ p \in DOMAIN e /\ e[p] = f[p]
  <2> SUFFICES ASSUME NEW p \in DOMAIN f
               PROVE  i[p] = p /\ p[1] \in DOMAIN F /\ p \in DOMAIN e /\ e[p] = f[p]
    OBVIOUS
  <2>1. /\ p[1] \in DOMAIN F /\ p[2] \in DOMAIN F[p[1]] /\ p = <<p[1], p[2]>>
        /\ f[p] = F[p[1]][p[2]]
    BY PlacesSideBySide
  <2>2. p[1] \in DOMAIN G /\ p[2] \in DOMAIN G[p[1]] /\ G[p[1]][p[2]] = f[p]
    BY <2>1
  <2>3. <<p[1], p[2]>> \in DOMAIN e /\ e[<<p[1], p[2]>>] = G[p[1]][p[2]]
    BY <2>2, PlacesSideBySide
  <2> QED
    BY <1>1, <2>1, <2>2, <2>3
<1>5. \A x \in DOMAIN G[a] : j[x] = <<a, x>> /\ <<a, x>> \in DOMAIN e /\ e[<<a, x>>] = G[a][x]
  BY <1>2, PlacesSideBySide
<1>6. \A p \in DOMAIN e : p \in DOMAIN f \/ \E x \in DOMAIN G[a] : <<a, x>> = p
  <2> SUFFICES ASSUME NEW p \in DOMAIN e PROVE p \in DOMAIN f \/ \E x \in DOMAIN G[a] : <<a, x>> = p
    OBVIOUS
  <2>1. p[1] \in DOMAIN G /\ p[2] \in DOMAIN G[p[1]] /\ p = <<p[1], p[2]>>
    BY PlacesSideBySide
  <2>2. CASE p[1] = a
    BY <2>1, <2>2
  <2>3. CASE p[1] # a
    <3>1. p[1] \in DOMAIN F /\ p[2] \in DOMAIN F[p[1]]
      BY <2>1, <2>3
    <3>2. <<p[1], p[2]>> \in DOMAIN f
      BY <3>1, PlacesSideBySide
    <3> QED
      BY <2>1, <3>2
  <2> QED
    BY <2>2, <2>3
<1>7. Embeds(i, f, e)
  BY <1>4 DEF Embeds
<1>8. Embeds(j, G[a], e)
  <2> SUFFICES ASSUME NEW x \in DOMAIN G[a], NEW y \in DOMAIN G[a], j[x] = j[y] PROVE x = y
    BY <1>5 DEF Embeds
  <2>1. <<a, x>> = <<a, y>>
    BY <1>5
  <2> QED
    BY <2>1
<1> HIDE DEF e, f
<1>9. Divide(i, f, j, G[a], e)
  <2>1. \A p \in DOMAIN f : \A x \in DOMAIN G[a] : i[p] # j[x]
    <3> TAKE p \in DOMAIN f
    <3> TAKE x \in DOMAIN G[a]
    <3>1. i[p] = p /\ p[1] # a /\ j[x] = <<a, x>>
      BY <1>4, <1>5
    <3>2. <<a, x>>[1] = a
      OBVIOUS
    <3> QED
      BY <3>1, <3>2
  <2>2. \A p \in DOMAIN e : (\E q \in DOMAIN f : i[q] = p) \/ (\E x \in DOMAIN G[a] : j[x] = p)
    BY <1>4, <1>5, <1>6
  <2> QED
    BY <2>1, <2>2 DEF Divide
<1>10. Enumerates(s, f)
  BY DEF f
<1>11. Enumerates(s \o t, e)
  BY <1>7, <1>8, <1>9, <1>10, EnumeratesJoined
<1> QED
  BY <1>11 DEF e

\* The functions under other names.
LEMMA EnumeratesRenamed ==
  ASSUME NEW s, NEW F, Enumerates(s, SideBySide(F)), NEW G, NEW h \in [DOMAIN F -> DOMAIN G],
         \A a, c \in DOMAIN F : h[a] = h[c] => a = c, \A d \in DOMAIN G : \E a \in DOMAIN F : h[a] = d,
         \A a \in DOMAIN F : F[a] = G[h[a]]
  PROVE  Enumerates(s, SideBySide(G))
<1> DEFINE f == SideBySide(F)
           g == SideBySide(G)
<1>1. PICK m : m = [p \in DOMAIN f |-> <<h[p[1]], p[2]>>]
  OBVIOUS
<1>2. \A p \in DOMAIN f : /\ p[1] \in DOMAIN F /\ p[2] \in DOMAIN F[p[1]] /\ p = <<p[1], p[2]>>
                          /\ f[p] = F[p[1]][p[2]]
  BY PlacesSideBySide
<1>3. \A p \in DOMAIN f : m[p] \in DOMAIN g /\ f[p] = g[m[p]]
  <2> SUFFICES ASSUME NEW p \in DOMAIN f PROVE m[p] \in DOMAIN g /\ f[p] = g[m[p]]
    OBVIOUS
  <2>1. /\ p[1] \in DOMAIN F /\ p[2] \in DOMAIN F[p[1]] /\ f[p] = F[p[1]][p[2]]
        /\ h[p[1]] \in DOMAIN G /\ F[p[1]] = G[h[p[1]]]
    BY <1>2
  <2>2. <<h[p[1]], p[2]>> \in DOMAIN g /\ g[<<h[p[1]], p[2]>>] = G[h[p[1]]][p[2]]
    BY <2>1, PlacesSideBySide
  <2> QED
    BY <1>1, <2>1, <2>2
<1>4. \A p, q \in DOMAIN f : m[p] = m[q] => p = q
  <2> SUFFICES ASSUME NEW p \in DOMAIN f, NEW q \in DOMAIN f, m[p] = m[q] PROVE p = q
    OBVIOUS
  <2>1. <<h[p[1]], p[2]>> = <<h[q[1]], q[2]>>
    BY <1>1
  <2>2. h[p[1]] = h[q[1]] /\ p[2] = q[2]
    BY <2>1
  <2> QED
    BY <1>2, <2>2
<1>5. \A r \in DOMAIN g : \E p \in DOMAIN f : m[p] = r
  <2> SUFFICES ASSUME NEW r \in DOMAIN g PROVE \E p \in DOMAIN f : m[p] = r
    OBVIOUS
  <2>1. r[1] \in DOMAIN G /\ r[2] \in DOMAIN G[r[1]] /\ r = <<r[1], r[2]>>
    BY PlacesSideBySide
  <2>2. PICK a \in DOMAIN F : h[a] = r[1]
    BY <2>1
  <2>3. r[2] \in DOMAIN F[a]
    BY <2>1, <2>2
  <2>4. <<a, r[2]>> \in DOMAIN f
    BY <2>3, PlacesSideBySide
  <2>5. m[<<a, r[2]>>] = <<h[a], r[2]>>
    BY <1>1, <2>4
  <2> QED
    BY <2>1, <2>2, <2>4, <2>5
<1>6. Embeds(m, f, g)
  BY <1>3, <1>4 DEF Embeds
<1> HIDE DEF f, g
<1>7. Enumerates(s, f)
  BY DEF f
<1>8. Enumerates(s, g)
  BY <1>5, <1>6, <1>7, EnumeratesElsewhere
<1> QED
  BY <1>8 DEF g

=============================================================================
