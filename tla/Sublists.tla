------------------------------ MODULE Sublists ------------------------------
(***************************************************************************)
(* The elements of a list that pass a test, in their order; how often a    *)
(* value occurs in a list; and several lists as one.                       *)
(***************************************************************************)
EXTENDS Integers, Sequences, FiniteSets

\* Filtered(s, S)[i]: the elements of S among the first i elements of s, in order.
Filtered(s, S) ==
  LET kept[i \in 0 .. Len(s)] ==
        IF i = 0 THEN <<>>
        ELSE IF s[i] \in S THEN Append(kept[i-1], s[i]) ELSE kept[i-1]
  IN  kept

\* The elements of the list s that lie in S, in their order.
Kept(s, S) == Filtered(s, S)[Len(s)]

\* How often a value occurs in a list, or among the values of any other function.
Occurrences(f, x) == Cardinality({k \in DOMAIN f : f[k] = x})

\* Several functions as one: the value at <<a, b>> is the a-th function's at b.
SideBySide(F) == [p \in UNION {{a} \X DOMAIN F[a] : a \in DOMAIN F} |-> F[p[1]][p[2]]]
=============================================================================
