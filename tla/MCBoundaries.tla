---------------------------- MODULE MCBoundaries ----------------------------
(***************************************************************************)
(* The enforcers on small instances.                                       *)
(***************************************************************************)
EXTENDS Boundaries, TLC

Symmetry == Permutations(Procs) \cup Permutations(Endpoints)
===========================================================================
