--------------------------- MODULE MCAuthSession ---------------------------
(***************************************************************************)
(* Instances of AuthSession for TLC.                                       *)
(***************************************************************************)
EXTENDS AuthSession, TLC

CONSTANTS l1, l2, r1, r2, r3, c1, c2

\* The refreshes, and the callers, are interchangeable.
Symmetry == Permutations(Logins) \cup Permutations(Refreshers) \cup Permutations(Callers)
=============================================================================
