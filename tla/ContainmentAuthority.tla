------------------------ MODULE ContainmentAuthority ------------------------
(***************************************************************************)
(* What the control plane promises about ONE agent, with no storage, no    *)
(* runtime epochs, no enforcers and no locks: when the agent may execute.  *)
(* A containment that has reached durable storage is a debt (`owed').  An  *)
(* agent that owes a containment becomes executable again only through a   *)
(* recovery granted for that containment; crashes, restarts and storage    *)
(* failures can take authority away but never give it back.                *)
(*                                                                         *)
(* ControlPlane is the detailed specification and implements this one.     *)
(***************************************************************************)
VARIABLES
  exec,     \* the agent may execute: registered, with an ACTIVE runtime
  owed,     \* a durably recorded containment has not been recovered from
  granted   \* a recovery authorization for the present containment is held

authVars == <<exec, owed, granted>>

Init ==
  /\ exec = FALSE
  /\ owed = FALSE
  /\ granted = FALSE

\* A containment reaches durable storage.  The fence is written before the
\* runtime is stopped, so the agent may still be executing for a moment.
Record ==
  /\ owed' = TRUE
  /\ UNCHANGED <<exec, granted>>

\* The runtime is contained or halted, or the controller goes away.
Revoke ==
  /\ exec' = FALSE
  /\ granted' = FALSE
  /\ UNCHANGED owed

\* A registration admits an executable runtime: nothing may be owed.
Admit ==
  /\ ~exec /\ ~owed
  /\ exec' = TRUE
  /\ UNCHANGED <<owed, granted>>

\* A recovery authorization is issued for a contained agent.
Grant ==
  /\ ~exec /\ owed
  /\ granted' = TRUE
  /\ UNCHANGED <<exec, owed>>

\* The only way out of a debt.
Recover ==
  /\ ~exec /\ owed /\ granted
  /\ exec' = TRUE
  /\ owed' = FALSE
  /\ granted' = FALSE

Next == Record \/ Revoke \/ Admit \/ Grant \/ Recover

Spec == Init /\ [][Next]_authVars

\* An agent does not go on executing under a recorded containment.
FairSpec == Spec /\ WF_authVars(exec /\ owed /\ Revoke)
=============================================================================
