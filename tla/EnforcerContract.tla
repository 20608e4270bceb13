-------------------------- MODULE EnforcerContract --------------------------
(***************************************************************************)
(* What the control plane asks of an external enforcer.  A call moves the  *)
(* boundary towards what it is for or not at all, and a certified answer   *)
(* is true and stays true until the next call.  An answer that is not      *)
(* certified says nothing.  While somebody else works on the boundary      *)
(* ("disturbed"), nothing is promised.                                     *)
(***************************************************************************)
VARIABLES
  inForce,  \* the boundary is durably in force
  answer,   \* the certified answer of the last call: "contained", "released",
            \*   or "none"
  calling   \* the call in progress: "contain", "release", or "none"

vars == <<inForce, answer, calling>>

Init == /\ inForce = FALSE /\ answer = "none" /\ calling = "none"

\* A call begins, or fails at once.
Begin ==
  /\ calling \in {"none", "disturbed"}
  /\ calling' \in {"contain", "release", "none"}
  /\ answer' = "none"
  /\ UNCHANGED inForce

Move ==
  /\ \/ calling = "contain" /\ inForce' = TRUE
     \/ calling = "release" /\ inForce' = FALSE
  /\ UNCHANGED <<answer, calling>>

Certify ==
  /\ \/ calling = "contain" /\ inForce /\ answer' = "contained"
     \/ calling = "release" /\ ~inForce /\ answer' = "released"
  /\ calling' = "none"
  /\ UNCHANGED inForce

\* The call fails or times out, or its caller dies.
Fail ==
  /\ calling # "none"
  /\ calling' = "none"
  /\ UNCHANGED <<inForce, answer>>

Disturb ==
  /\ calling # "none"
  /\ calling' = "disturbed"
  /\ UNCHANGED <<inForce, answer>>

Drift ==
  /\ calling = "disturbed" /\ calling' \in {"disturbed", "none"}
  /\ inForce' \in BOOLEAN
  /\ UNCHANGED answer

Next == Begin \/ Move \/ Certify \/ Fail \/ Disturb \/ Drift

Spec == Init /\ [][Next]_vars
=============================================================================
