--------------------------- MODULE MCAuthorization ---------------------------
(***************************************************************************)
(* Authorization for TLC.                                                  *)
(***************************************************************************)
EXTENDS Authorization, TLC

\* Handlers and processes are not told apart.
Symmetry == Permutations(Handlers) \cup Permutations(Pids)
=============================================================================
