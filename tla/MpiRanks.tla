------------------------------- MODULE MpiRanks -------------------------------
(***************************************************************************)
(* The ranks of a communicator, which all run the functions of             *)
(* distribute.cc on their own visibilities.                                *)
(***************************************************************************)
EXTENDS Integers, Sequences, FiniteSets, Functions

CONSTANTS
  Size,      \* number of ranks: comm.size()
  MaxLocal   \* bound: the most visibilities on a rank

ASSUME SizeAssumption == Size \in Nat \ {0}
ASSUME MaxLocalAssumption == MaxLocal \in Nat

VARIABLE pc   \* for every rank, where it is

Ranks == 0 .. Size-1
===============================================================================
