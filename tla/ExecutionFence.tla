--------------------------- MODULE ExecutionFence ---------------------------
(***************************************************************************)
(* What a runtime fence promises to whoever contains or halts an agent.    *)
(* An effect starts only with a lease that is live, and never beside       *)
(* another one.  Closing the fence spends every live lease for good and    *)
(* waits for the effect in flight, unless that effect closed the fence     *)
(* itself.                                                                 *)
(***************************************************************************)
CONSTANT Threads

VARIABLES
  open,     \* the agent may act
  live,     \* leases that start an effect
  spent,    \* leases handed out before the fence was last closed
  inFlight  \* the effect started and not ended, if any: its thread, its
            \*   lease, and whether it closed the fence itself

vars == <<open, live, spent, inFlight>>

Init == /\ open = TRUE /\ live = {} /\ spent = {} /\ inFlight = {}

Grant ==
  /\ open
  /\ live \subseteq live'
  /\ live' \cap spent = {}
  /\ UNCHANGED <<open, spent, inFlight>>

Start(w) ==
  /\ inFlight = {}
  /\ \E l \in live : inFlight' = {[by |-> w, lease |-> l, closed |-> FALSE]}
  /\ UNCHANGED <<open, live, spent>>

Finish ==
  /\ inFlight' = {}
  /\ UNCHANGED <<open, live, spent>>

Spend ==
  /\ open
  /\ open' = FALSE
  /\ spent' = spent \cup live
  /\ live' = {}

\* Whoever closes the fence waits for the effect in flight to end ...
Close ==
  /\ inFlight = {}
  /\ Spend
  /\ UNCHANGED inFlight

\* ... unless it is that effect.
CloseWithin ==
  /\ \E x \in inFlight : inFlight' = {[x EXCEPT !.closed = TRUE]}
  /\ Spend

Reopen ==
  /\ ~open
  /\ inFlight = {}
  /\ open' = TRUE
  /\ UNCHANGED <<live, spent, inFlight>>

Next ==
  \/ \E w \in Threads : Start(w)
  \/ Grant \/ Finish \/ Close \/ CloseWithin \/ Reopen

Spec == Init /\ [][Next]_vars
=============================================================================
