-------------------------- MODULE BoundariesProofs --------------------------
(***************************************************************************)
(* Proofs about Boundaries, for any set of processes and endpoints, with   *)
(* or without requests taken late.                                         *)
(***************************************************************************)
EXTENDS Boundaries, TLAPS

USE BoundariesConstants

\* Nothing is certified at the start.
LEMMA InitInv == Init => IInv
BY DEF Init, IInv, TypeOK, StepInv, ContainInv, ReleaseInv, VerdictInv, Ops, PCs, Policies

\* Every step of the controller, of its enforcers and of those who meddle
\* keeps what the sweep in progress and the newest report rely on.
LEMMA NextInv == IInv /\ [Next]_vars => IInv'
<1> SUFFICES ASSUME IInv, [Next]_vars PROVE IInv'
  OBVIOUS
<1> USE DEF IInv, TypeOK, StepInv, ContainInv, ReleaseInv, VerdictInv, Ops, PCs, Policies,
            Requests, ContainSteps, ReleaseSteps, kernel, cluster, controller, Empty, Identified
<1>1. CASE Contain
  BY <1>1 DEF Contain, Begin
<1>2. CASE Recover
  BY <1>2 DEF Recover, Begin
<1>3. CASE Kill
  BY <1>3 DEF Kill, Succeed, Fail
<1>4. CASE AwaitEmpty
  BY <1>4 DEF AwaitEmpty, Succeed, Fail
<1>5. CASE CheckEmpty
  BY <1>5 DEF CheckEmpty, Succeed, Fail
<1>6. CASE Apply
  BY <1>6 DEF Apply, Applied, Refused, Succeed, Fail
<1>7. CASE GetPolicy
  BY <1>7 DEF GetPolicy, MatchesContainmentPolicy, Succeed, Fail
<1>8. CASE CheckEndpoints
  BY <1>8 DEF CheckEndpoints, ReportsBoth, Succeed, Fail
<1>9. CASE Delete
  BY <1>9 DEF Delete, Refused, Succeed, Fail
<1>10. CASE CheckGone
  BY <1>10 DEF CheckGone, Succeed, Fail
<1>11. CASE FinishContain
  BY <1>11 DEF FinishContain, Report
<1>12. CASE Activate
  BY <1>12 DEF Activate, Report
<1>13. CASE Compensate
  BY <1>13 DEF Compensate
<1>14. CASE Crash
  BY <1>14 DEF Crash
<1>15. ASSUME NEW p \in Procs, Fork(p) PROVE IInv'
  BY <1>15 DEF Fork, Move
<1>16. ASSUME NEW p \in Procs, Die(p) PROVE IInv'
  <2>1. PICK from \in {"dying", "running"} : Move(p, from, "out")
    BY <1>16 DEF Die
  <2>2. procs' \in [Procs -> {"out", "running", "dying"}] /\ (Empty => Empty')
    BY <2>1 DEF Move
  <2>3. UNCHANGED <<state, op, pc, failed, verdict, same, policy, denied, stray, disturbed>>
    BY <1>16 DEF Die, Move
  <2> HIDE DEF Empty
  <2> QED
    BY <2>2, <2>3
<1>17. ASSUME NEW p \in Procs, AttachWorkload(p) PROVE IInv'
  BY <1>17 DEF AttachWorkload, Move
<1>18. CASE ChangeIdentity
  <2>1. TypeOK'
    BY <1>18 DEF ChangeIdentity
  <2>2. UNCHANGED <<state, op, pc, failed, verdict, procs, policy, denied, stray, disturbed>>
    BY <1>18 DEF ChangeIdentity
  <2> QED
    BY <2>1, <2>2
<1>19. CASE Alter
  BY <1>19 DEF Alter
<1>20. ASSUME NEW r \in Requests, TakeStray(r) PROVE IInv'
  BY <1>20 DEF TakeStray, Applied
<1>21. ASSUME NEW e \in Endpoints, Realize(e) PROVE IInv'
  BY <1>21 DEF Realize
<1>22. CASE UNCHANGED vars
  BY <1>22 DEF vars
<1> QED
  BY <1>1, <1>2, <1>3, <1>4, <1>5, <1>6, <1>7, <1>8, <1>9, <1>10, <1>11, <1>12, <1>13, <1>14,
     <1>15, <1>16, <1>17, <1>18, <1>19, <1>20, <1>21, <1>22
  DEF Next, Step

\* The invariant from which the theorems below follow.
THEOREM Invariance == Spec => []IInv
BY InitInv, NextInv, PTL DEF Spec

\* A containment certified, or a compensation reported as verified, is in force
\* as long as nobody meddles, unless another policy speaks for an endpoint.
THEOREM Certified == Spec => []CertifiedIsEnforced
<1>1. IInv => CertifiedIsEnforced
  BY DEF IInv, TypeOK, VerdictInv, CertifiedIsEnforced, VerifiedIsEnforced, InForce
<1> QED
  BY Invariance, <1>1, PTL

\* What a certificate means whatever other policies select: as long as nobody
\* meddles after a containment certified, or a compensation reported as verified,
\* no process is alive, the containment policy is there, and an endpoint that is
\* not cut off is one that another policy answered for (containment.py: contain;
\* cilium_enforcer.py: verify_contained).
THEOREM OnlyOthersAreReached ==
  Spec => [](verdict \in {"certified", "restored"} /\ op = "none" /\ ~disturbed =>
               /\ Empty /\ policy = "containment"
               /\ Endpoints \ denied \subseteq Others)
<1>1. IInv =>
        (verdict \in {"certified", "restored"} /\ op = "none" /\ ~disturbed =>
           /\ Empty /\ policy = "containment"
           /\ Endpoints \ denied \subseteq Others)
  BY DEF IInv, VerdictInv
<1> QED
  BY Invariance, <1>1, PTL

\* Only the end of a sweep that released both boundaries activates the runtime.
THEOREM ReleasedFirst == Spec => RecoveryReleasesFirst
<1> DEFINE A == state = "CONTAINED" /\ state' = "ACTIVE" =>
                  Empty /\ (disturbed \/ policy = "absent")
<1>1. IInv /\ [Next]_vars => [A]_vars
  <2> SUFFICES ASSUME IInv, [Next]_vars, state = "CONTAINED", state' = "ACTIVE"
               PROVE  Empty /\ (disturbed \/ policy = "absent")
    OBVIOUS
  <2>1. Activate
    BY DEF Next, Step, vars, kernel, cluster, controller, Contain, Recover, Begin, Kill, AwaitEmpty,
       CheckEmpty, Apply, GetPolicy, CheckEndpoints, Delete, CheckGone, Succeed, Fail, FinishContain,
       Report, Compensate, Crash, Fork, Die, AttachWorkload, Move, ChangeIdentity, Alter, TakeStray,
       Realize
  <2> QED
    BY <2>1 DEF Activate, IInv, ReleaseInv
<1> QED
  BY Invariance, <1>1, PTL DEF Spec, RecoveryReleasesFirst
=============================================================================
