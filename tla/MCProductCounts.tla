-------------------------- MODULE MCProductCounts --------------------------
(***************************************************************************)
(* Instances of ProductCounts for TLC.                                     *)
(***************************************************************************)
EXTENDS ProductCounts, TLC

CONSTANTS u1, u2, p1, p9, c1, c2, c3, f1, f2, f3

\* Users, calls and flushes are interchangeable.
Symmetry == Permutations(Users) \cup Permutations(Calls) \cup Permutations(Flushes)
=============================================================================
