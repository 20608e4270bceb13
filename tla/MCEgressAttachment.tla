------------------------- MODULE MCEgressAttachment -------------------------
(***************************************************************************)
(* The eBPF boundary on small instances.                                   *)
(***************************************************************************)
EXTENDS EgressAttachment, TLC

\* Neither links nor slots for control programs are told apart.
Symmetry == Permutations(Links) \cup Permutations(Programs)
=============================================================================
