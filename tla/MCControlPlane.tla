-------------------------- MODULE MCControlPlane --------------------------
(***************************************************************************)
(* The control plane on small instances.                                   *)
(***************************************************************************)
EXTENDS ControlPlane

\* Everything that may go wrong in one behaviour.
AllAtOnce == {Disturbances}

\* A clock that moves forward, with the other disturbances together, and with
\* those alone under which a containment stays recoverable.
ForwardClock == {Disturbances \ {"clock"}, {"recontain"}, {"storage"}}

Undisturbed == {{}}
OnlyRecontained == {{"recontain"}}

\* An operator who keeps a registered agent's list of enforcers as it is.
NoReconfiguration == registered /\ registered' => active' = active
===========================================================================
