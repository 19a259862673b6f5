---------------------------- MODULE Arrangements -----------------------------
(***************************************************************************)
(* Rearrangements of the positions of an array, shared by the modules that *)
(* sort, regroup or redistribute visibilities.                             *)
(***************************************************************************)
EXTENDS Integers

Permutations(S) == {f \in [S -> S] : \A p, q \in S : f[p] = f[q] => p = q}

\* Position p of the rearranged array holds element f[p]; the attribute g of the
\* elements does not decrease along the positions S.
SortedBy(S, f, g) == \A p, q \in S : p < q => g[f[p]] <= g[f[q]]
==============================================================================
