------------------------- MODULE MCExecutionLeases -------------------------
(***************************************************************************)
(* ExecutionLeases for TLC: no definition of it names a worker.            *)
(***************************************************************************)
EXTENDS ExecutionLeases, TLC

WorkerSymmetry == Permutations(Workers)
=============================================================================
