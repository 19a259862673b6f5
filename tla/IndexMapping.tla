------------------------------ MODULE IndexMapping ------------------------------
(***************************************************************************)
(* IndexMapping.h: vectors re-indexed by a list of indices, and the sparse *)
(* matrices they come from.  A matrix is the function from its rows to the *)
(* sets of its columns with a stored entry; a value is a set of tags, so   *)
(* that a sum is a union.                                                  *)
(***************************************************************************)
EXTENDS Integers, Sequences, FiniteSets

\* The elements of a std::set in their order.
Ordered(S) ==
  [i \in 1 .. Cardinality(S) |-> CHOOSE x \in S : Cardinality({y \in S : y < x}) = i - 1]

\* non_empty_outers: the columns with an entry, in the increasing order of std::set.
non_empty_outers(matrix) == Ordered(UNION {matrix[k] : k \in DOMAIN matrix})

\* operator(): the input at every index, in the order of the list.
Select(indices, start, input) == [i \in DOMAIN indices |-> input[indices[i] - start]]

\* Faulty variant: the start is not taken off.
AccumulateNoStart(indices, start, N, input) ==
  [p \in 0 .. N-1 |-> UNION {input[i] : i \in {j \in DOMAIN indices : indices[j] = p}}]

\* adjoint: a vector of size N where every input is added at its index.
Accumulate(indices, start, N, input) ==
  [p \in 0 .. N-1 |-> UNION {input[i] : i \in {j \in DOMAIN indices : indices[j] - start = p}}]

\* Faulty variant: the columns are numbered one too far.
compress_outer_late(matrix) ==
  LET indices == non_empty_outers(matrix)
  IN  [k \in DOMAIN matrix |-> {IF i = Len(indices) THEN 1 ELSE i + 1 :
                                  i \in {j \in DOMAIN indices : indices[j] \in matrix[k]}}]

\* compress_outer: the same matrix with the empty columns removed.  Column numbers of
\* the result start at one here, as positions of a sequence do.
compress_outer(matrix) ==
  LET indices == non_empty_outers(matrix)
  IN  [k \in DOMAIN matrix |-> {i \in DOMAIN indices : indices[i] \in matrix[k]}]

\* sparse_multiply_matrix with a matrix, and with its adjoint.
Multiply(matrix, x) == [k \in DOMAIN matrix |-> UNION {x[c] : c \in matrix[k]}]
MultiplyAdjoint(matrix, columns, y) ==
  [c \in columns |-> UNION {y[k] : k \in {j \in DOMAIN matrix : c \in matrix[j]}}]
==============================================================================
