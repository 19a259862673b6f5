----------------------------- MODULE MCWStacking -----------------------------
(***************************************************************************)
(* An instance of WStacking for TLC: three ranks with no, one or two       *)
(* visibilities that are cheap or expensive, four at most in all, no       *)
(* relaxation, as the tests of the code call it; and two visibilities in   *)
(* all with groups that are ranks or one past the last.                    *)
(***************************************************************************)
EXTENDS WStacking

Local(S) == [Ranks -> UNION {[1 .. n -> S] : n \in 0 .. MaxLocal}]
Total(f) == SumFunction([r \in Ranks |-> Len(f[r])])
MCCosts == {f \in Local({1, 4}) : Total(f) <= 4}
MCGiven == {f \in Local(0 .. 3) : Total(f) = 2}
==============================================================================
