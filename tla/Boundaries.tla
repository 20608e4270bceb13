----------------------------- MODULE Boundaries -----------------------------
(***************************************************************************)
(* ContainmentController over its two-enforcer deployment: a cgroup whose  *)
(* processes are killed, and a CiliumNetworkPolicy that denies all traffic *)
(* of the workload's endpoints.  The kill is asynchronous, the cluster     *)
(* realizes a policy when it gets to it, kubectl may fail after the API    *)
(* server has taken a request or before, and others work on the same       *)
(* cgroup and the same objects.  One call of the controller runs at a      *)
(* time; `pc' names the enforcer call it makes next.                       *)
(***************************************************************************)
CONSTANTS
  Procs,      \* processes
  Endpoints,  \* the Cilium endpoints the agent's selector matches
  Others,     \* those of them that some other policy selects too
  Late        \* may the API server take a request kubectl has given up on?

ASSUME BoundariesConstants ==
  /\ Endpoints # {} /\ Others \subseteq Endpoints
  /\ Late \in BOOLEAN

VARIABLES
  state,      \* the runtime: "ACTIVE" or "CONTAINED"
  op,         \* the sweep in progress: "contain", "release", "recontain", "none"
  pc,         \* its next step
  failed,     \* it has noted a failure
  verdict,    \* what the newest report claims
  procs,      \* where each process is: out of the cgroup, "running" or "dying"
  same,       \* the directory has the identity the enforcer has recorded
  policy,     \* the live policy object
  denied,     \* endpoints whose datapath denies all traffic
  stray,      \* requests that were given up on and may still be taken
  disturbed   \* history: others meddled since the last call began

kernel == <<procs, same>>
cluster == <<policy, denied, stray>>
controller == <<state, op, pc, failed, verdict>>
vars == <<state, op, pc, failed, verdict, procs, same, policy, denied, stray,
          disturbed>>

Ops == {"contain", "release", "recontain", "none"}
PCs == {"idle", "kill", "wait", "apply", "get", "endpoints",
        "delete", "gone", "empty", "still_empty", "finish"}
Requests == {"apply", "delete"}
Policies == {"absent", "containment", "altered"}

TypeOK ==
  /\ state \in {"ACTIVE", "CONTAINED"}
  /\ op \in Ops /\ pc \in PCs /\ failed \in BOOLEAN
  /\ verdict \in {"none", "certified", "restored", "degraded", "recovered"}
  /\ procs \in [Procs -> {"out", "running", "dying"}]
  /\ same \in BOOLEAN
  /\ policy \in Policies
  /\ denied \subseteq Endpoints
  /\ stray \subseteq Requests
  /\ disturbed \in BOOLEAN

Init ==
  /\ state = "ACTIVE" /\ op = "none" /\ pc = "idle" /\ failed = FALSE
  /\ verdict = "none"
  /\ procs \in [Procs -> {"out", "running"}] /\ same = TRUE
  /\ policy = "absent" /\ denied = {} /\ stray = {}
  /\ disturbed = FALSE

\* cgroup.events says "populated 0".
Empty == \A p \in Procs : procs[p] = "out"

(***************************************************************************)
(* Calls of the controller                                                 *)
(***************************************************************************)
Begin(sweep, first) ==
  /\ op = "none"
  /\ op' = sweep /\ pc' = first
  /\ disturbed' = (stray # {})

\* contain: fence first; the stages before the enforcers may fail.
Contain ==
  /\ Begin("contain", "kill")
  /\ state' = "CONTAINED"
  /\ failed' \in BOOLEAN
  /\ UNCHANGED <<verdict, kernel, cluster>>

\* recover: external boundaries first, whatever the runtime's state and the
\* capability are.
Recover ==
  /\ Begin("release", "delete")
  /\ failed' = FALSE
  /\ UNCHANGED <<state, verdict, kernel, cluster>>

\* One enforcer's part in a sweep of contain, release_enforcers or
\* recontain_enforcers: verified, or noted as failed; the next one is called
\* either way.
Succeed(from, to) ==
  /\ pc = from /\ pc' = to
  /\ UNCHANGED <<state, op, failed, verdict, disturbed>>

Fail(from, to) ==
  /\ pc = from /\ pc' = to /\ failed' = TRUE
  /\ UNCHANGED <<state, op, verdict, disturbed>>

(***************************************************************************)
(* The cgroup enforcer.  Every call checks the identity first; any file    *)
(* operation may fail.                                                     *)
(***************************************************************************)
\* Device, inode and ctime are those recorded, the control files exist.
Identified == same

Kill ==
  \/ /\ Identified
     /\ Succeed("kill", "wait")
     /\ procs' = [p \in Procs |-> IF procs[p] = "running" THEN "dying" ELSE procs[p]]
     /\ UNCHANGED <<same, cluster>>
  \/ /\ Fail("kill", "apply")
     /\ UNCHANGED <<kernel, cluster>>

SlipAwaitEmpty ==  \* a workload that has no running process left is enough
  /\ \/ Identified /\ (\A p \in Procs : procs[p] # "running") /\ Succeed("wait", "apply")
     \/ Fail("wait", "apply")
  /\ UNCHANGED <<kernel, cluster>>

\* verify_contained polls for two seconds; what counts is one observation of
\* an empty cgroup.
AwaitEmpty ==
  /\ \/ Identified /\ Empty /\ Succeed("wait", "apply")
     \/ Fail("wait", "apply")
  /\ UNCHANGED <<kernel, cluster>>

\* release and verify_released change nothing: they want the cgroup empty.
CheckEmpty ==
  /\ \/ Identified /\ Empty /\ Succeed("empty", "still_empty")
     \/ Fail("empty", "finish")
     \/ Identified /\ Empty /\ Succeed("still_empty", "finish")
     \/ Fail("still_empty", "finish")
  /\ UNCHANGED <<kernel, cluster>>

(***************************************************************************)
(* The Cilium enforcer.  A request kubectl reports as failed may have been *)
(* taken nevertheless, or may still be.                                    *)
(***************************************************************************)
Refused(request, effects) ==
  \/ policy' \in {policy} \cup effects /\ UNCHANGED stray
  \/ Late /\ stray' = stray \cup {request} /\ UNCHANGED policy

\* A server-side apply puts removed fields back, leaves added ones alone and
\* conflicts with those another manager has changed.
Applied == IF policy = "altered" THEN {"altered", "containment"} ELSE {"containment"}

Apply ==
  /\ \/ Succeed("apply", "get") /\ policy' \in Applied /\ UNCHANGED stray
     \/ Fail("apply", "finish") /\ Refused("apply", Applied)
  /\ UNCHANGED <<kernel, denied>>

\* Name, labels, selector and both deny rules of the live object.
MatchesContainmentPolicy == policy = "containment"

\* verify_contained: the live object must be the containment policy, ...
GetPolicy ==
  /\ \/ MatchesContainmentPolicy /\ Succeed("get", "endpoints")
     \/ Fail("get", "finish")
  /\ UNCHANGED <<kernel, cluster>>

\* An endpoint reports "both" when any policy covers both directions.
ReportsBoth(e) == e \in denied \cup Others

\* ... and every endpoint must report that enforcement is on.
CheckEndpoints ==
  /\ \/ (\A e \in Endpoints : ReportsBoth(e)) /\ Succeed("endpoints", "finish")
     \/ Fail("endpoints", "finish")
  /\ UNCHANGED <<kernel, cluster>>

SlipDelete ==  \* the exit status of kubectl delete is not looked at
  /\ \/ Succeed("delete", "gone") /\ policy' = "absent" /\ UNCHANGED stray
     \/ Succeed("delete", "gone") /\ Refused("delete", {"absent"})
  /\ UNCHANGED <<kernel, denied>>

Delete ==
  /\ \/ Succeed("delete", "gone") /\ policy' = "absent" /\ UNCHANGED stray
     \/ Fail("delete", "empty") /\ Refused("delete", {"absent"})
  /\ UNCHANGED <<kernel, denied>>

\* verify_released takes an error that says "not found" of anything, such as a
\* missing credential helper, for the absence of the policy.
CheckGone ==
  /\ \/ Succeed("gone", "empty")
     \/ Fail("gone", "empty")
  /\ UNCHANGED <<kernel, cluster>>

(***************************************************************************)
(* The ends of the sweeps                                                  *)
(***************************************************************************)
Report(claim) ==
  /\ op' = "none" /\ pc' = "idle" /\ failed' = FALSE
  /\ verdict' = claim
  /\ UNCHANGED <<kernel, cluster, disturbed>>

FinishContain ==
  /\ pc = "finish" /\ op \in {"contain", "recontain"}
  /\ Report(IF failed THEN "degraded"
            ELSE IF op = "contain" THEN "certified" ELSE "restored")
  /\ UNCHANGED state

\* Runtime.recover may refuse: it wants a contained runtime, its own
\* capability and the right epoch.
Activate ==
  /\ pc = "finish" /\ op = "release" /\ ~failed
  /\ state = "CONTAINED"
  /\ state' = "ACTIVE"
  /\ Report("recovered")

\* A failed release, or a refusal: contain the boundaries again.
Compensate ==
  /\ pc = "finish" /\ op = "release"
  /\ op' = "recontain" /\ pc' = "kill" /\ failed' = FALSE
  /\ UNCHANGED <<state, verdict, kernel, cluster, disturbed>>

\* The controller dies, and with it every report; kubectl may live on.  A new
\* enforcer records the identity it finds.
Crash ==
  /\ op' = "none" /\ pc' = "idle" /\ failed' = FALSE
  /\ verdict' = "none"
  /\ same' = TRUE
  /\ stray' \in {stray} \cup {stray \cup {r} : r \in IF Late THEN {pc} \cap Requests ELSE {}}
  /\ UNCHANGED <<state, procs, policy, denied, disturbed>>

Step ==
  \/ Kill \/ AwaitEmpty \/ CheckEmpty
  \/ Apply \/ GetPolicy \/ CheckEndpoints \/ Delete \/ CheckGone
  \/ FinishContain \/ Activate \/ Compensate

(***************************************************************************)
(* The kernel, the cluster, and others                                     *)
(***************************************************************************)
Move(p, from, to) ==
  /\ procs[p] = from
  /\ procs' = [procs EXCEPT ![p] = to]
  /\ UNCHANGED <<controller, same, cluster>>

\* A process that is being killed does not fork.
Fork(p) ==
  /\ \E q \in Procs : procs[q] = "running"
  /\ Move(p, "out", "running")
  /\ UNCHANGED disturbed

Die(p) == (Move(p, "dying", "out") \/ Move(p, "running", "out")) /\ UNCHANGED disturbed

\* attach_workload, under the service lock; it does not ask for the state of
\* the runtime.
AttachWorkload(p) ==
  /\ op = "none"
  /\ Move(p, "out", "running")
  /\ disturbed' = TRUE

\* The directory was made again, or the kernel shows another ctime for it.
ChangeIdentity ==
  /\ same' = FALSE
  /\ UNCHANGED <<controller, procs, cluster, disturbed>>

\* Somebody else edits, deletes or creates the policy object.
Alter ==
  /\ policy' \in {"absent", "altered"} \ {policy}
  /\ disturbed' = TRUE
  /\ UNCHANGED <<controller, kernel, denied, stray>>

TakeStray(r) ==
  /\ r \in stray
  /\ policy' \in IF r = "delete" THEN {"absent"} ELSE Applied
  /\ stray' = stray \ {r}
  /\ disturbed' = TRUE
  /\ UNCHANGED <<controller, kernel, denied>>

\* The agent of a node brings an endpoint in line with the policy object.
Realize(e) ==
  /\ denied' = IF policy = "containment" THEN denied \cup {e} ELSE denied \ {e}
  /\ UNCHANGED <<controller, kernel, policy, stray, disturbed>>

Next ==
  \/ Contain \/ Recover \/ Step \/ Crash
  \/ \E p \in Procs : Fork(p) \/ Die(p) \/ AttachWorkload(p)
  \/ ChangeIdentity \/ Alter
  \/ \E r \in Requests : TakeStray(r)
  \/ \E e \in Endpoints : Realize(e)

Spec == Init /\ [][Next]_vars

(***************************************************************************)
(* Properties                                                              *)
(***************************************************************************)
InForce == Empty /\ policy = "containment" /\ denied = Endpoints

\* enforcer.py's "Verify that containment is actually established": as long as
\* nobody meddles, a containment certified, or a recovery whose compensation is
\* reported as verified, leaves no process alive and every endpoint cut off.
VerifiedIsEnforced ==
  verdict \in {"certified", "restored"} /\ op = "none" /\ ~disturbed => InForce

\* It holds when no other policy makes an endpoint report enforcement.
CertifiedIsEnforced == Others = {} => VerifiedIsEnforced

\* recover's "release external enforcement before allowing runtime recovery":
\* whatever fails, times out or reads wrong, the runtime becomes ACTIVE only
\* when no contained process is left and, as long as nobody meddles, the policy
\* object is gone.
RecoveryReleasesFirst ==
  [][state = "CONTAINED" /\ state' = "ACTIVE" =>
       Empty /\ (disturbed \/ policy = "absent")]_vars

(***************************************************************************)
(* The inductive invariant                                                 *)
(***************************************************************************)
ContainSteps == {"kill", "wait", "apply", "get", "endpoints", "finish"}
ReleaseSteps == {"delete", "gone", "empty", "still_empty", "finish"}

StepInv ==
  /\ op = "none" => pc = "idle"
  /\ op \in {"contain", "recontain"} => pc \in ContainSteps
  /\ op = "release" => pc \in ReleaseSteps

\* What a sweep that has noted no failure has achieved so far.
ContainInv ==
  op \in {"contain", "recontain"} /\ ~failed =>
    /\ pc \in ContainSteps \ {"kill", "wait"} => Empty
    /\ ~disturbed /\ pc \in {"endpoints", "finish"} => policy = "containment"
    /\ ~disturbed /\ pc = "finish" => Endpoints \subseteq denied \cup Others

ReleaseInv ==
  op = "release" /\ ~failed =>
    /\ pc \in {"still_empty", "finish"} => Empty
    /\ ~disturbed /\ pc # "delete" => policy = "absent"

\* An undisturbed boundary stays as it was verified.
VerdictInv ==
  verdict \in {"certified", "restored"} /\ op = "none" /\ ~disturbed =>
    /\ Empty /\ policy = "containment"
    /\ Endpoints \subseteq denied \cup Others

IInv == TypeOK /\ StepInv /\ ContainInv /\ ReleaseInv /\ VerdictInv
=============================================================================
