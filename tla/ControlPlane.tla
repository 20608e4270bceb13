---------------------------- MODULE ControlPlane ----------------------------
(***************************************************************************)
(* The containment control plane of one agent: ContainmentService over the *)
(* Runtime, the durable fence and incident registries, and the external    *)
(* enforcers, with crashes, restarts, failing writes and failing           *)
(* enforcers, and HALT decisions that act outside the service lock.        *)
(*                                                                         *)
(* Agents share nothing but the service lock, so one agent is modelled.    *)
(* An operation that holds the service lock is a sequence of steps, one    *)
(* per durable write, runtime transition or enforcer call; `pc' says which *)
(* comes next.  Every registry write goes to a new file that replaces the  *)
(* old one before the in-memory copy is swapped, so a registry has one     *)
(* value, which is the durable one, and a failed write leaves it alone.    *)
(***************************************************************************)
EXTENDS Integers

CONSTANTS
  NumEnforcers,   \* length of the list of external enforcers
  Untimed,        \* those of them whose calls carry no timeout, as kubectl's
  MaxEpoch,       \* bound: no containment starts at or above this epoch
  MaxHalts,       \* bound on HALT decisions in flight outside the lock
  Settings        \* the sets of disturbances a behaviour may be exposed to

(***************************************************************************)
(* What may disturb a behaviour besides crashes and failing enforcers:     *)
(* HALT decisions, containments of an agent that is not ACTIVE, failing    *)
(* writes to a registry, and a wall clock that repeats or steps back.      *)
(***************************************************************************)
Disturbances == {"halt", "recontain", "storage", "clock"}

ASSUME ConstantsAssumption ==
  /\ NumEnforcers \in Nat
  /\ Untimed \subseteq 1..NumEnforcers
  /\ MaxEpoch \in Nat
  /\ MaxHalts \in Nat
  /\ Settings \subseteq SUBSET Disturbances

Enforcers == 1..NumEnforcers

\* Epochs are never negative (prepare and record_containment refuse it), so
\* -1 stands for "no record".
NoEpoch == -1
NoIncident == [id |-> NoEpoch, epoch |-> NoEpoch, state |-> "NONE"]

RuntimeStates == {"ACTIVE", "HALTED", "CONTAINED"}
ContainedStates == {"CONTAINED", "PROOF_DEGRADED"}
IncidentStates == ContainedStates \cup {"RECOVERED"}
Incidents == [id : Nat, epoch : Nat, state : IncidentStates] \cup {NoIncident}

VARIABLES
  setting,    \* the disturbances of this behaviour; never changes
  fence,      \* the durable fence: an epoch or NoEpoch
  ids,        \* incident ids on record; an id is agent + requested epoch
  latest,     \* the incident with the greatest created_at, or NoIncident
  state,      \* the runtime; after a crash or an unregister, the runtime
  epoch,      \*   the operator still knows of
  enforced,   \* which external boundaries really are in force
  registered, \* the service manages the agent
  active,     \* the enforcers of the managed containment controller
  auths,      \* recovery authorizations ever handed out
  pc,         \* next step of the operation that holds the service lock
  target,     \* the containment epoch that operation is about
  todo,       \* enforcers its current sweep has still to visit
  failed,     \* a step of the current sweep or compensation has failed
  halts,      \* HALT decisions taken under the lock and not yet applied
  owed        \* history: a durably recorded containment is unrecovered

storage == <<fence, ids, latest, owed>>
runtime == <<state, epoch>>
service == <<registered, active, auths>>
operation == <<pc, target, todo, failed>>
vars == <<setting, fence, ids, latest, state, epoch, enforced, registered,
          active, auths, pc, target, todo, failed, halts, owed>>

(***************************************************************************)
(* `live': the authorization holds the managed recovery capability object. *)
(* `fresh' is history: issued since the last registration or recovery.     *)
(***************************************************************************)
Authorizations == [epoch : Nat, live : BOOLEAN, fresh : BOOLEAN]

PCs == {"idle", "fencing", "enforcing", "proving",
        "releasing", "refencing", "admitting", "activating",
        "undo_fence", "undo_incident", "recontaining", "reconciling", "authorizing"}

TypeOK ==
  /\ setting \in Settings
  /\ fence \in Nat \cup {NoEpoch}
  /\ ids \subseteq Nat
  /\ latest \in Incidents
  /\ state \in RuntimeStates
  /\ epoch \in Nat
  /\ enforced \in [Enforcers -> BOOLEAN]
  /\ registered \in BOOLEAN
  /\ active \subseteq Enforcers
  /\ auths \subseteq Authorizations
  /\ pc \in PCs
  /\ target \in Nat \cup {NoEpoch}
  /\ todo \subseteq Enforcers
  /\ failed \in BOOLEAN
  /\ halts \in Nat
  /\ owed \in BOOLEAN

Init ==
  /\ setting \in Settings
  /\ fence = NoEpoch /\ ids = {} /\ latest = NoIncident /\ owed = FALSE
  /\ state = "ACTIVE" /\ epoch = 0
  /\ enforced = [k \in Enforcers |-> FALSE]
  /\ registered = FALSE /\ active = {} /\ auths = {}
  /\ pc = "idle" /\ target = NoEpoch /\ todo = {} /\ failed = FALSE
  /\ halts = 0

Executable == registered /\ state = "ACTIVE"

(***************************************************************************)
(* Durable writes.  `owed' is raised by every write that makes a           *)
(* containment durable.                                                    *)
(***************************************************************************)
PrepareFence(e) ==
  /\ fence' = e
  /\ owed' = TRUE

IncidentRecord(i, e) == [id |-> i, epoch |-> e, state |-> "CONTAINED"]

\* record_containment refuses an id that exists.  latest_for_agent takes the
\* first of the greatest created_at, so a new record whose timestamp is not
\* greater than the latest one's is never seen as the latest.
RecordContainment(i, e) ==
  /\ i \notin ids
  /\ ids' = ids \cup {i}
  /\ owed' = TRUE
  /\ \/ latest' = IncidentRecord(i, e)
     \/ latest # NoIncident /\ "clock" \in setting /\ latest' = latest

SlipSetIncidentState(s) ==  \* takes the runtime's epoch instead of keeping the record's
  latest' = [latest EXCEPT !.state = s, !.epoch = epoch]

SetIncidentState(s) == latest' = [latest EXCEPT !.state = s]

RecoveryEpoch(incident) == incident.epoch + 1

(***************************************************************************)
(* The operation that holds the service lock.                              *)
(***************************************************************************)
Begin(step, e, sweep) ==
  /\ registered /\ pc = "idle"
  /\ pc' = step /\ target' = e /\ todo' = sweep /\ failed' = FALSE

Goto(from, to) ==
  /\ pc = from
  /\ pc' = to
  /\ UNCHANGED <<target, todo, failed>>

Return == pc' = "idle" /\ target' = NoEpoch /\ todo' = {} /\ failed' = FALSE

(***************************************************************************)
(* Registration.  The operator supplies no controller ("none": the service *)
(* creates a Runtime), a controller around the runtime that is still known *)
(* ("same"), or one around a runtime built for the occasion ("other"),     *)
(* which is new or restored as contained.  An ACTIVE runtime above epoch 0 *)
(* is only ever attested truthfully.                                       *)
(***************************************************************************)
Unsupplied == [kind |-> "none", state |-> "ACTIVE", epoch |-> 0]

Offers ==
  {Unsupplied,
   [kind |-> "same", state |-> state, epoch |-> epoch],
   [kind |-> "other", state |-> "ACTIVE", epoch |-> 0]}
  \cup [kind : {"other"}, state : {"CONTAINED"}, epoch : 0..MaxEpoch]

SlipIncidentMissing ==  \* forgets the fence left by a newer containment
  fence # NoEpoch /\ latest = NoIncident

\* A fence with no incident, or newer than the recovery on record: the
\* containment was interrupted before its incident was written.
IncidentMissing ==
  /\ fence # NoEpoch
  /\ \/ latest = NoIncident
     \/ latest.state = "RECOVERED" /\ fence > RecoveryEpoch(latest)

\* A fence at the epoch of a RECOVERED incident: a recovery was rolled back
\* and the incident's own rollback was lost.
RollbackUnfinished ==
  /\ fence # NoEpoch
  /\ latest.state = "RECOVERED" /\ latest.epoch = fence

FenceConflicts ==
  /\ fence # NoEpoch /\ latest.state = "RECOVERED"
  /\ ~IncidentMissing /\ ~RollbackUnfinished

\* RECOVERED on record, but the operator attests a runtime that is still
\* contained at the old epoch: the recovery is aborted.
AbortsRecovery(o) ==
  /\ fence = NoEpoch /\ latest.state = "RECOVERED"
  /\ o.kind # "none" /\ o.state = "CONTAINED" /\ o.epoch = latest.epoch

\* The first write of register: bring the incidents in line with the fence.
RepairIncident ==
  \/ /\ IncidentMissing
     /\ RecordContainment(fence, fence)
  \/ /\ RollbackUnfinished
     /\ SetIncidentState("CONTAINED") /\ owed' = TRUE
     /\ UNCHANGED ids
  \/ /\ ~IncidentMissing /\ ~RollbackUnfinished /\ ~FenceConflicts
     /\ UNCHANGED <<ids, latest, owed>>

\* A supplied runtime must be stopped, and if contained, contained at e.
ContainedAt(o, e) == o.state # "ACTIVE" /\ (o.state = "CONTAINED" => o.epoch = e)

\* The checks of register against `incident', the latest one once repaired.
Accepts(o, incident) ==
  /\ fence # NoEpoch =>
       o.kind = "none" \/ ContainedAt(o, fence)
  /\ fence = NoEpoch /\ incident.state = "RECOVERED" =>
       /\ o.kind # "none"
       /\ \/ AbortsRecovery(o)
          \/ o.state = "ACTIVE" /\ o.epoch = RecoveryEpoch(incident)
  /\ incident.state \in ContainedStates =>
       IF o.kind = "none" THEN fence \in {NoEpoch, incident.epoch}
                          ELSE ContainedAt(o, incident.epoch)

SlipRestored(o, incident) == o  \* a rebuilt runtime is not contained again

SlipRestoredEpoch(o, incident) ==  \* contained again, but at epoch 0
  IF o.kind = "none" /\ (fence # NoEpoch \/ incident.state \in ContainedStates)
  THEN [o EXCEPT !.state = "CONTAINED"] ELSE o

\* The runtime registered for offer o.
Restored(o, incident) ==
  IF o.kind # "none" THEN o
  ELSE IF fence # NoEpoch THEN [o EXCEPT !.state = "CONTAINED", !.epoch = fence]
  ELSE IF incident.state \in ContainedStates
       THEN [o EXCEPT !.state = "CONTAINED", !.epoch = incident.epoch]
       ELSE o

SlipRotate(A) == A  \* the old capability stays current

\* A capability object that was replaced never becomes current again.
Rotate(A) == {[a EXCEPT !.live = FALSE] : a \in A}
Age(A) == {[a EXCEPT !.fresh = FALSE] : a \in A}

\* register, all its writes succeeding.
Register(o, S) ==
  /\ ~registered /\ pc = "idle"
  /\ o.kind = "none" => S = {}
  /\ IF AbortsRecovery(o)
     THEN /\ SetIncidentState("CONTAINED")
          /\ PrepareFence(latest.epoch)
          /\ UNCHANGED ids
     ELSE /\ RepairIncident
          /\ IF fence = NoEpoch /\ latest.state \in ContainedStates
             THEN fence' = latest.epoch
             ELSE UNCHANGED fence
  /\ Accepts(o, IF AbortsRecovery(o) THEN latest ELSE latest')
  /\ state' = Restored(o, latest').state
  /\ epoch' = Restored(o, latest').epoch
  /\ registered' = TRUE
  /\ active' = S
  /\ auths' = Age(Rotate(auths))
  /\ halts' = IF o.kind = "same" THEN halts ELSE 0
  /\ UNCHANGED <<enforced, operation>>

\* register made a first write and then raised, or the process died.
RegisterInterrupted ==
  /\ ~registered /\ pc = "idle"
  /\ \/ /\ RepairIncident
        /\ UNCHANGED fence
     \/ /\ \E o \in Offers : AbortsRecovery(o)
        /\ SetIncidentState("CONTAINED") /\ owed' = TRUE
        /\ UNCHANGED <<fence, ids>>
     \/ /\ fence = NoEpoch /\ latest.state \in ContainedStates
        /\ PrepareFence(latest.epoch)
        /\ UNCHANGED <<ids, latest>>
  /\ UNCHANGED <<runtime, enforced, service, operation, halts>>

Unregister ==
  /\ registered /\ pc = "idle"
  /\ registered' = FALSE
  /\ active' = {}
  /\ UNCHANGED <<storage, runtime, enforced, auths, operation, halts>>

\* configure_containment: another controller around the same runtime.
Configure(S) ==
  /\ registered /\ pc = "idle"
  /\ active' = S
  /\ UNCHANGED <<storage, runtime, enforced, registered, auths, operation, halts>>

(***************************************************************************)
(* HALT: decided on an ACTIVE runtime (under the service lock by authorize, *)
(* under no lock by the gateway), applied later and without the lock.      *)
(***************************************************************************)
DecideHalt ==
  /\ registered /\ state = "ACTIVE"
  /\ "halt" \in setting /\ halts < MaxHalts
  /\ halts' = halts + 1
  /\ UNCHANGED <<storage, runtime, enforced, service, operation>>

Halt ==
  /\ halts > 0
  /\ halts' = halts - 1
  /\ state' = "HALTED"
  /\ epoch' = epoch + 1
  /\ UNCHANGED <<storage, enforced, service, operation>>

(***************************************************************************)
(* Enforcer calls, one enforcer per step, in list order when containing    *)
(* and in reverse order when releasing.  A call that fails (or whose       *)
(* verification fails) may or may not have moved the boundary.             *)
(***************************************************************************)
SlipFirst(k) == k \in todo /\ \A j \in todo : k < j  \* off by one

First(k) == k \in todo /\ \A j \in todo : k <= j
Final(k) == k \in todo /\ \A j \in todo : j <= k

SlipVisit(k, goal) ==  \* a failing call is not noted
  /\ todo' = todo \ {k}
  /\ \E b \in {enforced[k], goal} : enforced' = [enforced EXCEPT ![k] = b]
  /\ UNCHANGED <<storage, runtime, service, pc, target, failed, halts>>

Visit(k, goal) ==
  /\ todo' = todo \ {k}
  /\ \/ enforced' = [enforced EXCEPT ![k] = goal] /\ UNCHANGED failed
     \/ \E b \in {enforced[k], goal} :
          enforced' = [enforced EXCEPT ![k] = b] /\ failed' = TRUE
  /\ UNCHANGED <<storage, runtime, service, pc, target, halts>>

ContainingSteps == {"enforcing", "recontaining", "reconciling", "authorizing"}

ContainEnforcer ==
  /\ pc \in ContainingSteps
  /\ \E k \in Enforcers : First(k) /\ Visit(k, TRUE)

ReleaseEnforcer ==
  /\ pc = "releasing"
  /\ \E k \in Enforcers : Final(k) /\ Visit(k, FALSE)

(***************************************************************************)
(* contain                                                                 *)
(***************************************************************************)
\* The next epoch is read and the fence prepared; a failed write is noted
\* and containment goes on without it.
BeginContain ==
  /\ epoch < MaxEpoch
  /\ "recontain" \in setting \/ state = "ACTIVE"
  /\ Begin("fencing", epoch + 1, {})
  /\ \/ PrepareFence(epoch + 1)
     \/ "storage" \in setting /\ UNCHANGED <<fence, owed>>
  /\ UNCHANGED <<ids, latest, runtime, enforced, service, halts>>

SlipContainRuntime ==  \* the epoch advances but the state does not
  /\ pc = "fencing"
  /\ epoch' = epoch + 1
  /\ pc' = "enforcing" /\ todo' = active
  /\ UNCHANGED <<storage, state, enforced, service, target, failed, halts>>

\* The runtime is fenced, then capabilities, credentials, egress and
\* processes are revoked; any of those stages may fail.
ContainRuntime ==
  /\ pc = "fencing"
  /\ state' = "CONTAINED"
  /\ epoch' = epoch + 1
  /\ pc' = "enforcing"
  /\ todo' = active
  /\ failed' \in BOOLEAN
  /\ UNCHANGED <<storage, enforced, service, target, halts>>

\* The report takes the runtime's epoch once every stage has run; the
\* incident is recorded under the id that was requested.
RecordIncident ==
  /\ pc = "enforcing" /\ todo = {}
  /\ pc' = "proving"
  /\ \/ RecordContainment(target, epoch)
     \/ /\ "storage" \in setting \/ target \in ids
        /\ UNCHANGED <<ids, latest, owed>>
  /\ UNCHANGED <<fence, runtime, enforced, service, target, todo, failed, halts>>

\* The audit record; if it fails, the incident on record under that id is
\* marked, in a write that may fail too.
RecordProof ==
  /\ pc = "proving"
  /\ Return
  /\ \/ UNCHANGED <<latest, owed>>
     \/ /\ latest.id = target
        /\ SetIncidentState("PROOF_DEGRADED") /\ owed' = TRUE
  /\ UNCHANGED <<fence, ids, runtime, enforced, service, halts>>

\* attach_proof, called by evidence consumers under no service lock.
AttachProof ==
  /\ latest.state \in ContainedStates
  /\ SetIncidentState("CONTAINED")
  /\ UNCHANGED <<fence, ids, owed, runtime, enforced, service, operation, halts>>

(***************************************************************************)
(* reconcile_containment and issue_recovery_authorization                  *)
(***************************************************************************)
DurablyContained ==
  /\ latest.state \in ContainedStates
  /\ state = "CONTAINED"
  /\ epoch = latest.epoch

BeginReconcile(step) ==
  /\ DurablyContained
  /\ fence = latest.epoch
  /\ Begin(step, latest.epoch, active)
  /\ UNCHANGED <<storage, runtime, enforced, service, halts>>

Reconcile == BeginReconcile("reconciling")
IssueRecoveryAuthorization == BeginReconcile("authorizing")

FinishReconcile ==
  /\ pc \in {"reconciling", "authorizing"} /\ todo = {}
  /\ Return
  /\ auths' = IF pc = "authorizing" /\ ~failed
              THEN auths \cup {[epoch |-> target, live |-> TRUE, fresh |-> TRUE]}
              ELSE auths
  /\ UNCHANGED <<storage, runtime, enforced, registered, active, halts>>

(***************************************************************************)
(* recover                                                                 *)
(***************************************************************************)
\* The authorization and the durable state are checked and the fence is
\* cleared; if that write fails nothing has happened.
BeginRecover(a) ==
  /\ a.live
  /\ a.epoch = latest.epoch
  /\ DurablyContained
  /\ Begin("releasing", latest.epoch, active)
  /\ fence' = NoEpoch
  /\ UNCHANGED <<ids, latest, owed, runtime, enforced, service, halts>>

SlipFinishRelease ==  \* goes on whatever the releases returned
  /\ pc = "releasing" /\ todo = {}
  /\ pc' = "admitting"
  /\ UNCHANGED <<storage, runtime, enforced, service, target, todo, failed, halts>>

FinishRelease ==
  /\ pc = "releasing" /\ todo = {}
  /\ pc' = IF failed THEN "refencing" ELSE "admitting"
  /\ UNCHANGED <<storage, runtime, enforced, service, target, todo, failed, halts>>

SlipRefence ==  \* raises without putting the fence back
  /\ pc = "refencing"
  /\ Return
  /\ UNCHANGED <<storage, runtime, enforced, service, halts>>

\* Some boundary could not be released: put the fence back and raise.
Refence ==
  /\ pc = "refencing"
  /\ Return
  /\ \/ PrepareFence(target)
     \/ "storage" \in setting /\ UNCHANGED <<fence, owed>>
  /\ UNCHANGED <<ids, latest, runtime, enforced, service, halts>>

MarkRecovered ==
  /\ \/ Goto("admitting", "activating") /\ SetIncidentState("RECOVERED")
     \/ "storage" \in setting /\ Goto("admitting", "undo_fence") /\ UNCHANGED latest
  /\ UNCHANGED <<fence, ids, owed, runtime, enforced, service, halts>>

SlipRuntimeRecoverable == TRUE  \* trusts what the caller checked

\* Runtime.recover checks the state and epoch again, under its own lock.
RuntimeRecoverable == state = "CONTAINED" /\ epoch = target

Activate ==
  /\ pc = "activating"
  /\ RuntimeRecoverable
  /\ state' = "ACTIVE"
  /\ epoch' = epoch + 1
  /\ auths' = Age(Rotate(auths))
  /\ owed' = FALSE
  /\ Return
  /\ UNCHANGED <<fence, ids, latest, enforced, registered, active, halts>>

ActivationFails ==
  /\ ~RuntimeRecoverable
  /\ Goto("activating", "undo_fence")
  /\ UNCHANGED <<storage, runtime, enforced, service, halts>>

SlipUndoFence ==  \* a failed write is swallowed
  /\ pc = "undo_fence"
  /\ pc' = "undo_incident"
  /\ \/ PrepareFence(target)
     \/ "storage" \in setting /\ UNCHANGED <<fence, owed>>
  /\ UNCHANGED <<ids, latest, runtime, enforced, service, target, todo, failed, halts>>

\* Compensation: fence, incident, external boundaries; each may fail.
UndoFence ==
  /\ pc = "undo_fence"
  /\ pc' = "undo_incident"
  /\ \/ PrepareFence(target) /\ UNCHANGED failed
     \/ "storage" \in setting /\ UNCHANGED <<fence, owed>> /\ failed' = TRUE
  /\ UNCHANGED <<ids, latest, runtime, enforced, service, target, todo, halts>>

UndoIncident ==
  /\ pc = "undo_incident"
  /\ pc' = "recontaining"
  /\ todo' = active
  /\ \/ latest.state # "RECOVERED" /\ UNCHANGED <<latest, owed, failed>>
     \/ /\ latest.state = "RECOVERED"
        /\ SetIncidentState("CONTAINED") /\ owed' = TRUE
        /\ UNCHANGED failed
     \/ /\ latest.state = "RECOVERED" /\ "storage" \in setting
        /\ UNCHANGED <<latest, owed>> /\ failed' = TRUE
  /\ UNCHANGED <<fence, ids, runtime, enforced, service, target, halts>>

FinishRecontain ==
  /\ pc = "recontaining" /\ todo = {}
  /\ Return
  /\ UNCHANGED <<storage, runtime, enforced, service, halts>>

\* The controller process dies.  Durable state, external boundaries and the
\* authorizations already handed out survive it.
Crash ==
  /\ registered' = FALSE
  /\ active' = {}
  /\ halts' = 0
  /\ Return
  /\ UNCHANGED <<storage, runtime, enforced, auths>>

\* The steps the thread holding the service lock takes by itself.
Advance ==
  \/ ContainEnforcer \/ ReleaseEnforcer
  \/ ContainRuntime \/ RecordIncident \/ RecordProof
  \/ FinishReconcile
  \/ FinishRelease \/ Refence \/ MarkRecovered \/ Activate \/ ActivationFails
  \/ UndoFence \/ UndoIncident \/ FinishRecontain

Step ==
  \/ \E o \in Offers, S \in SUBSET Enforcers : Register(o, S)
  \/ RegisterInterrupted
  \/ Unregister
  \/ \E S \in SUBSET Enforcers : Configure(S)
  \/ DecideHalt \/ Halt
  \/ BeginContain
  \/ Reconcile \/ IssueRecoveryAuthorization
  \/ \E a \in auths : BeginRecover(a)
  \/ Advance
  \/ AttachProof
  \/ Crash

Next == Step /\ UNCHANGED setting

Spec == Init /\ [][Next]_vars

\* The operation is in a call of an enforcer that may never return.
Hanging ==
  \E k \in Untimed :
    \/ pc \in ContainingSteps /\ First(k)
    \/ pc = "releasing" /\ Final(k)

\* The lock holder keeps running unless an enforcer without a timeout keeps it;
\* nobody else is obliged to do anything.
FairSpec == Spec /\ WF_vars(~Hanging /\ Advance /\ UNCHANGED setting)

(***************************************************************************)
(* Properties                                                              *)
(***************************************************************************)

\* Whatever crashes, restarts, storage failures and halts happen in between,
\* an agent that owes a durable containment never executes again until an
\* authorized recovery has activated it.
ContainmentSticks ==
  owed /\ Executable => pc = "fencing"

\* recover would accept an authorization someone holds.
Granted ==
  /\ registered /\ state = "CONTAINED"
  /\ \E a \in auths : a.live /\ a.epoch = epoch

\* `owed' is the authority's own.
Authority == INSTANCE ContainmentAuthority WITH exec <- Executable, granted <- Granted

\* The service, with its crashes and failing writes, does what the authority
\* of ContainmentAuthority does, and no step of it does anything else.
ImplementsAuthority == Authority!Spec
FulfilsAuthority == Authority!FairSpec

\* record_containment refuses an incident id that exists.  While the clock only
\* moves forward that never loses a containment: the refused id is the one the
\* latest, unrecovered incident has.
RefusedIncidentIsKnown ==
  "clock" \notin setting /\ pc \in {"fencing", "enforcing"} /\ target \in ids =>
    latest.id = target /\ latest.state \in ContainedStates

\* A containment certified by its report holds: every boundary of the
\* controller is in force and the runtime cannot execute.
CertificateIsTrue ==
  pc = "proving" /\ ~failed =>
    state # "ACTIVE" /\ \A k \in active : enforced[k]

Activates == registered /\ state # "ACTIVE" /\ state' = "ACTIVE"

\* recover activates the runtime only under an authorization issued for this
\* containment since the last registration or recovery, however many epochs,
\* halts, failed attempts or restarts lie between issuing and using it.
ActivationIsAuthorized ==
  [][Activates => \E a \in auths : a.fresh /\ a.epoch = epoch]_vars

\* Recovery is ordered: when the runtime becomes ACTIVE the fence is durably
\* gone, the incident durably RECOVERED for the epoch being entered, and every
\* boundary of the controller released.
ActivationIsLast ==
  [][Activates =>
       /\ fence = NoEpoch
       /\ latest.state = "RECOVERED" /\ RecoveryEpoch(latest) = epoch'
       /\ \A k \in active : ~enforced[k]]_vars

\* SECURITY_CONTRACT's compensation: a recovery that aborts after release and
\* reports no compensation failure has put everything back.
CleanAbortRestores ==
  pc = "recontaining" /\ ~failed =>
    /\ fence = target
    /\ latest.state \in ContainedStates /\ latest.epoch = target
    /\ \A k \in active \ todo : enforced[k]

\* While storage and clock work and nothing is halted, an agent at rest under a
\* durable containment can be recovered where it is: fence, incident and runtime
\* agree on the epoch, so issue_recovery_authorization is not refused.
ContainedIsRecoverable ==
  /\ setting \subseteq {"recontain"}
  /\ pc = "idle" /\ registered /\ state = "CONTAINED" /\ owed
  =>
    DurablyContained /\ fence = epoch

\* An agent whose containment is on record can be registered again after a
\* restart, in the state the record says, without the operator supplying a
\* runtime ("reconstruct an explicit incident ... and require the normal
\* external reconciliation path").
RestartAdmits ==
  ~registered /\ (fence # NoEpoch \/ latest.state \in ContainedStates) =>
    /\ ~FenceConflicts
    /\ IncidentMissing => fence \notin ids
    /\ ~IncidentMissing => Accepts(Unsupplied, latest)

\* It holds however writes fail, as long as no agent is contained twice or
\* halted and the clock moves forward.
RestartAdmitsContained == setting \subseteq {"storage"} => RestartAdmits

\* SECURITY_CONTRACT's "controller recovery restores a known containment state
\* after supported partial failures": a recovery that aborts because some
\* boundary could not be released puts the others back.
AbortedReleaseRestores ==
  [][pc = "refencing" /\ pc' = "idle" /\ registered'
       => \A k \in active : enforced'[k]]_vars

\* Every operation of the service returns, however its steps fail, or ends up
\* in a call of an enforcer that has no timeout: kubectl is run without one,
\* and one that hangs keeps the service lock (cilium_enforcer.py:
\* _kubectl_runner).  The calls of all other enforcers return or raise.
OperationsReturn == (pc # "idle") ~> (pc = "idle" \/ Hanging)

(***************************************************************************)
(* The inductive invariant behind the safety properties.                   *)
(***************************************************************************)
Contained == latest.state \in ContainedStates

Releasing == {"releasing", "refencing", "admitting"}
Recovering == Releasing \cup {"activating", "undo_fence", "undo_incident", "recontaining"}

\* An operation past its runtime fence holds a managed, stopped runtime and
\* knows its epoch.
OperationInv ==
  /\ pc # "idle" => registered /\ target # NoEpoch
  /\ pc \notin {"idle", "fencing"} => state # "ACTIVE"

\* Every record of a containment is a debt; a debt is either on record or
\* its recovery was committed and the runtime was not activated yet.
DebtInv ==
  /\ fence # NoEpoch \/ Contained => owed
  /\ owed =>
       \/ fence # NoEpoch
       \/ Contained
       \/ latest.state = "RECOVERED" /\ state # "ACTIVE"

\* Nothing executes under a debt, or under an incident even while fencing.
AdmissionInv ==
  Executable =>
    /\ owed => pc = "fencing"
    /\ ~Contained

\* The recovery transaction: what each of its steps has already settled.
RecoveryInv ==
  /\ pc \in Recovering =>
       /\ owed
       /\ latest # NoIncident /\ latest.epoch = target
       /\ \E a \in auths : a.live /\ a.epoch = target
  /\ pc \in Releasing => Contained
  /\ pc \in Releasing \cup {"activating", "undo_fence"} => fence = NoEpoch
  /\ pc = "activating" => latest.state = "RECOVERED"

\* A current authorization was issued since the last registration or
\* recovery, for an epoch the runtime has already reached.
AuthorizationInv ==
  /\ \A a \in auths : a.live => a.fresh
  /\ registered => \A a \in auths : a.live => a.epoch <= epoch
  /\ pc \in Recovering \cup {"reconciling", "authorizing"} => owed /\ target <= epoch

\* What a sweep over the enforcers has achieved so far.
SweepInv ==
  /\ pc \in {"enforcing", "recontaining"} /\ ~failed =>
       \A k \in active \ todo : enforced[k]
  /\ pc = "proving" /\ ~failed => \A k \in active : enforced[k]
  /\ pc = "releasing" /\ ~failed => \A k \in active \ todo : ~enforced[k]
  /\ pc \in {"admitting", "activating"} => \A k \in active : ~enforced[k]

\* What the compensation has put back, unless it noted a failure.
UndoInv ==
  /\ pc \in {"undo_incident", "recontaining"} /\ ~failed => fence = target
  /\ pc = "recontaining" /\ ~failed => Contained

IInv ==
  /\ TypeOK
  /\ OperationInv /\ DebtInv /\ AdmissionInv
  /\ RecoveryInv /\ AuthorizationInv /\ SweepInv /\ UndoInv
=============================================================================
