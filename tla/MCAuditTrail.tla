----------------------------- MODULE MCAuditTrail -----------------------------
(* An instance of AuditTrail: the callers are interchangeable. *)
EXTENDS AuditTrail, TLC

Symmetry == Permutations(Callers)
=============================================================================
