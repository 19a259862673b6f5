----------------------------- MODULE StackedRanks -----------------------------
(***************************************************************************)
(* What the parts of w_stacking_with_all_to_all share on every rank: the   *)
(* groups of its visibilities, which w_support computes and the exchange   *)
(* sends them by, and the place in the program.                            *)
(***************************************************************************)
EXTENDS MpiRanks

\* Only several ranks exchange: there are as many groups as ranks.
ASSUME SeveralAssumption == Size > 1

VARIABLE groups   \* for every rank, the group of each of its visibilities

Root == 0
===============================================================================
