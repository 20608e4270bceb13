------------------------- MODULE ControlPlaneProofs -------------------------
(***************************************************************************)
(* Proofs about ControlPlane, for every number of enforcers, every epoch   *)
(* bound and every set of disturbances.                                    *)
(***************************************************************************)
EXTENDS ControlPlane, FiniteSetTheorems, TLAPS

USE ConstantsAssumption DEF NoEpoch

(***************************************************************************)
(* What the operator can offer to register.                                *)
(***************************************************************************)

\* An offered runtime has a well-formed state and epoch; a created one is new,
\* "same" is the runtime still known, and one attested ACTIVE is at epoch 0.
LEMMA OfferFacts ==
  ASSUME TypeOK, NEW o \in Offers
  PROVE  /\ o.state \in RuntimeStates /\ o.epoch \in Nat
         /\ o = [kind |-> o.kind, state |-> o.state, epoch |-> o.epoch]
         /\ o.kind \in {"none", "same", "other"}
         /\ o.kind = "none" => o = Unsupplied
         /\ o.kind = "same" => o.state = state /\ o.epoch = epoch
         /\ o.kind = "other" /\ o.state # "CONTAINED" => o.state = "ACTIVE" /\ o.epoch = 0
<1>1. 0..MaxEpoch \subseteq Nat
  OBVIOUS
<1>2. CASE o = Unsupplied
  BY <1>2 DEF Unsupplied, RuntimeStates
<1>3. CASE o = [kind |-> "same", state |-> state, epoch |-> epoch]
  BY <1>3 DEF TypeOK, Unsupplied
<1>4. CASE o = [kind |-> "other", state |-> "ACTIVE", epoch |-> 0]
  BY <1>4 DEF RuntimeStates
<1>5. CASE o \in [kind : {"other"}, state : {"CONTAINED"}, epoch : 0..MaxEpoch]
  BY <1>1, <1>5 DEF RuntimeStates
<1> QED
  BY <1>2, <1>3, <1>4, <1>5 DEF Offers

\* Registering an offer yields a well-formed runtime.
LEMMA RestoredType ==
  ASSUME TypeOK, NEW o \in Offers,
         NEW incident \in Incidents
  PROVE  Restored(o, incident).state \in RuntimeStates /\ Restored(o, incident).epoch \in Nat
<1>1. fence # NoEpoch => fence \in Nat
  BY DEF TypeOK
<1>2. incident.state \in ContainedStates => incident.epoch \in Nat
  BY DEF Incidents, NoIncident, ContainedStates
<1>3. CASE o.kind # "none"
  BY <1>3, OfferFacts DEF Restored
<1>4. CASE o.kind = "none"
  BY <1>1, <1>2, <1>4, OfferFacts DEF Restored, Unsupplied, RuntimeStates
<1> QED
  BY <1>3, <1>4

\* The authorizations left over by a rotation or a recovery are authorizations.
LEMMA AuthorizationType ==
  ASSUME NEW A \in SUBSET Authorizations
  PROVE  Age(Rotate(A)) \subseteq Authorizations
<1>1. Rotate(A) \subseteq Authorizations
  BY DEF Rotate, Authorizations
<1> QED
  BY <1>1 DEF Age, Authorizations

(***************************************************************************)
(* Type correctness                                                        *)
(***************************************************************************)
LEMMA IncidentStateType ==
  ASSUME latest \in Incidents, latest # NoIncident, NEW s \in IncidentStates, SetIncidentState(s)
  PROVE  latest' \in Incidents
BY DEF Incidents, SetIncidentState

\* A recorded incident is an incident, and the agent owes a recovery.
LEMMA RecordContainmentType ==
  ASSUME latest \in Incidents, ids \subseteq Nat, NEW i \in Nat, NEW e \in Nat, RecordContainment(i, e)
  PROVE  latest' \in Incidents /\ ids' \subseteq Nat /\ owed' = TRUE
<1>1. IncidentRecord(i, e) \in Incidents
  BY DEF Incidents, IncidentRecord, IncidentStates, ContainedStates
<1>2. latest' \in {latest, IncidentRecord(i, e)}
  BY DEF RecordContainment
<1> QED
  BY <1>1, <1>2 DEF RecordContainment

\* A new containment is the latest incident, unless the clock hides it behind
\* an older one.
LEMMA RecordedIsLatest ==
  ASSUME TypeOK, NEW i \in Nat, NEW e \in Nat, RecordContainment(i, e)
  PROVE  latest'.state \in ContainedStates \/ (latest'.state = "RECOVERED" /\ latest' = latest)
<1>1. IncidentRecord(i, e).state \in ContainedStates
  BY DEF IncidentRecord, ContainedStates
<1>2. CASE latest # NoIncident /\ latest' = latest
  BY <1>2 DEF TypeOK, Incidents, IncidentStates
<1>3. \/ latest' = IncidentRecord(i, e)
      \/ latest # NoIncident /\ latest' = latest
  BY DEF RecordContainment
<1> QED
  BY <1>1, <1>2, <1>3

\* The repairs of register leave well-formed records and forgive no debt.
LEMMA RepairIncidentType ==
  ASSUME TypeOK, RepairIncident
  PROVE  /\ latest' \in Incidents /\ ids' \subseteq Nat /\ owed' \in {owed, TRUE}
<1>1. CASE IncidentMissing /\ RecordContainment(fence, fence)
  BY <1>1, RecordContainmentType DEF TypeOK, IncidentMissing
<1>2. CASE RollbackUnfinished /\ SetIncidentState("CONTAINED") /\ owed' = TRUE /\ UNCHANGED ids
  <2>1. latest # NoIncident /\ "CONTAINED" \in IncidentStates
    BY <1>2 DEF RollbackUnfinished, NoIncident, IncidentStates, ContainedStates
  <2> QED
    BY <1>2, <2>1, IncidentStateType DEF TypeOK
<1> QED
  BY <1>1, <1>2 DEF TypeOK, RepairIncident

\* No agent is registered, and nothing is recorded.
LEMMA InitType == Init => TypeOK
<1> SUFFICES ASSUME Init PROVE TypeOK
  OBVIOUS
<1> USE DEF Init
<1>1. latest \in Incidents
  BY DEF Incidents
<1>2. state \in RuntimeStates /\ pc \in PCs
  BY DEF RuntimeStates, PCs
<1>3. fence \in Nat \cup {NoEpoch} /\ ids \subseteq Nat /\ epoch \in Nat /\ halts \in Nat /\ target \in Nat \cup {NoEpoch}
  OBVIOUS
<1>4. enforced \in [Enforcers -> BOOLEAN]
  OBVIOUS
<1>5. /\ registered \in BOOLEAN /\ failed \in BOOLEAN /\ owed \in BOOLEAN
      /\ active \subseteq Enforcers /\ todo \subseteq Enforcers /\ auths \subseteq Authorizations
  OBVIOUS
<1> QED
  BY <1>1, <1>2, <1>3, <1>4, <1>5 DEF TypeOK

\* Every step of an operation keeps the types.
LEMMA NextType == IInv /\ [Next]_vars => TypeOK'
<1> SUFFICES ASSUME IInv, [Next]_vars PROVE TypeOK'
  OBVIOUS
<1>ty. TypeOK
  BY DEF IInv
<1>op. /\ pc # "idle" => target \in Nat
       /\ pc = "admitting" => latest # NoIncident
  BY DEF IInv, OperationInv, RecoveryInv, Recovering, Releasing, TypeOK
<1>set. setting' = setting
  BY DEF Next, vars
<1> USE <1>set DEF TypeOK, operation, storage, runtime, service, Return, Begin, Goto, PrepareFence
<1>inc. latest \in Incidents
  BY <1>ty
<1>con. latest.state \in ContainedStates =>
          latest # NoIncident /\ latest.epoch \in Nat /\ latest.id \in Nat
  BY <1>ty DEF Incidents, NoIncident, ContainedStates
<1>states. "CONTAINED" \in IncidentStates /\ "PROOF_DEGRADED" \in IncidentStates /\ "RECOVERED" \in IncidentStates
  BY DEF IncidentStates, ContainedStates
<1>aborts. ASSUME NEW o \in Offers, AbortsRecovery(o)
           PROVE  latest # NoIncident /\ latest.epoch \in Nat /\ "CONTAINED" \in IncidentStates
  BY <1>ty, <1>aborts DEF AbortsRecovery, Incidents, NoIncident, IncidentStates, ContainedStates
<1>1. ASSUME NEW o \in Offers, NEW S \in SUBSET Enforcers, Register(o, S)
      PROVE  TypeOK'
  <2>1. latest' \in Incidents /\ ids' \subseteq Nat /\ owed' \in BOOLEAN
    <3>1. CASE AbortsRecovery(o)
      BY <1>1, <1>ty, <1>aborts, <3>1, IncidentStateType DEF Register
    <3>2. CASE ~AbortsRecovery(o)
      BY <1>1, <1>ty, <3>2, RepairIncidentType DEF Register
    <3> QED
      BY <3>1, <3>2
  <2>2. fence' \in Nat \cup {NoEpoch}
    BY <1>1, <1>ty, <1>con, <1>aborts DEF Register
  <2>3. state' \in RuntimeStates /\ epoch' \in Nat
    BY <1>1, <1>ty, <2>1, RestoredType DEF Register
  <2>4. auths' \subseteq Authorizations
    BY <1>1, <1>ty, AuthorizationType DEF Register
  <2> QED
    BY <1>1, <1>ty, <2>1, <2>2, <2>3, <2>4 DEF Register
<1>2. CASE RegisterInterrupted
  <2>1. latest' \in Incidents /\ ids' \subseteq Nat /\ owed' \in BOOLEAN /\ fence' \in Nat \cup {NoEpoch}
    <3>1. CASE RepairIncident /\ UNCHANGED fence
      BY <1>ty, <3>1, RepairIncidentType
    <3>2. CASE (\E o \in Offers : AbortsRecovery(o)) /\ SetIncidentState("CONTAINED") /\ owed' = TRUE /\ UNCHANGED <<fence, ids>>
      BY <1>ty, <1>aborts, <3>2, IncidentStateType
    <3>3. CASE latest.state \in ContainedStates /\ PrepareFence(latest.epoch) /\ UNCHANGED <<ids, latest>>
      BY <1>ty, <1>con, <3>3
    <3> QED
      BY <1>2, <3>1, <3>2, <3>3 DEF RegisterInterrupted
  <2> QED
    BY <1>2, <1>ty, <2>1 DEF RegisterInterrupted
<1>3. CASE Unregister
  BY <1>3, <1>ty DEF Unregister
<1>4. ASSUME NEW S \in SUBSET Enforcers, Configure(S)
      PROVE  TypeOK'
  BY <1>4, <1>ty DEF Configure
<1>5. CASE DecideHalt
  BY <1>5, <1>ty DEF DecideHalt
<1>6. CASE Halt
  BY <1>6, <1>ty DEF Halt, RuntimeStates
<1>7. CASE BeginContain
  <2>1. epoch + 1 \in Nat
    BY <1>ty
  <2> QED
    BY <1>7, <1>ty, <2>1 DEF BeginContain, PCs
<1>8. CASE Reconcile \/ IssueRecoveryAuthorization
  BY <1>8, <1>ty, <1>con DEF Reconcile, IssueRecoveryAuthorization, BeginReconcile, DurablyContained, PCs
<1>9. ASSUME NEW a \in auths, BeginRecover(a)
      PROVE  TypeOK'
  BY <1>9, <1>ty, <1>con DEF BeginRecover, DurablyContained, PCs
<1>10. CASE ContainEnforcer \/ ReleaseEnforcer
  BY <1>10, <1>ty DEF ContainEnforcer, ReleaseEnforcer, Visit
<1>11. CASE ContainRuntime
  BY <1>11, <1>ty DEF ContainRuntime, RuntimeStates, PCs
<1>12. CASE RecordIncident
  BY <1>12, <1>ty, <1>op, <1>inc, RecordContainmentType DEF RecordIncident, PCs
<1>13. CASE RecordProof
  <2>1. CASE UNCHANGED <<latest, owed>>
    BY <1>13, <1>ty, <2>1 DEF RecordProof, PCs
  <2>2. CASE latest.id = target /\ SetIncidentState("PROOF_DEGRADED") /\ owed' = TRUE
    <3>1. latest # NoIncident
      BY <1>13, <1>op, <2>2 DEF RecordProof, NoIncident
    <3>2. latest' \in Incidents
      BY <1>ty, <1>states, <2>2, <3>1, IncidentStateType
    <3> QED
      BY <1>13, <1>ty, <2>2, <3>2 DEF RecordProof, PCs
  <2> QED
    BY <1>13, <2>1, <2>2 DEF RecordProof
<1>14. CASE FinishReconcile
  <2>1. auths' \subseteq Authorizations
    <3>1. [epoch |-> target, live |-> TRUE, fresh |-> TRUE] \in Authorizations
      BY <1>14, <1>op DEF FinishReconcile, Authorizations
    <3> QED
      BY <1>14, <1>ty, <3>1 DEF FinishReconcile
  <2> QED
    BY <1>14, <1>ty, <2>1 DEF FinishReconcile, PCs
<1>15. CASE FinishRelease
  BY <1>15, <1>ty DEF FinishRelease, PCs
<1>16. CASE Refence
  BY <1>16, <1>ty, <1>op DEF Refence, PCs
<1>17. CASE MarkRecovered
  <2>1. latest' \in Incidents
    BY <1>17, <1>ty, <1>op, <1>states, IncidentStateType DEF MarkRecovered
  <2> QED
    BY <1>17, <1>ty, <2>1 DEF MarkRecovered, PCs
<1>18. CASE Activate
  <2>1. auths' \subseteq Authorizations
    BY <1>18, <1>ty, AuthorizationType DEF Activate
  <2>2. epoch' \in Nat /\ state' \in RuntimeStates
    BY <1>18, <1>ty DEF Activate, RuntimeStates
  <2> QED
    BY <1>18, <1>ty, <2>1, <2>2 DEF Activate, PCs
<1>19. CASE ActivationFails
  BY <1>19, <1>ty DEF ActivationFails, PCs
<1>20. CASE UndoFence
  BY <1>20, <1>ty, <1>op DEF UndoFence, PCs
<1>21. CASE UndoIncident
  <2>1. latest.state = "RECOVERED" => latest # NoIncident
    BY DEF NoIncident
  <2>2. latest' \in Incidents
    BY <1>21, <1>ty, <1>states, <2>1, IncidentStateType DEF UndoIncident
  <2> QED
    BY <1>21, <1>ty, <2>2 DEF UndoIncident, PCs
<1>22. CASE FinishRecontain
  BY <1>22, <1>ty DEF FinishRecontain, PCs
<1>23. CASE AttachProof
  BY <1>23, <1>ty, <1>inc, <1>con, IncidentStateType DEF AttachProof, IncidentStates, ContainedStates
<1>24. CASE Crash
  BY <1>24, <1>ty DEF Crash, PCs
<1>25. CASE UNCHANGED vars
  BY <1>25, <1>ty DEF vars
<1> QED
  BY <1>1, <1>ty, <1>2, <1>3, <1>4, <1>5, <1>6, <1>7, <1>8, <1>9, <1>10, <1>11, <1>12, <1>13, <1>14,
     <1>15, <1>16, <1>17, <1>18, <1>19, <1>20, <1>21, <1>22, <1>23, <1>24, <1>25
  DEF Next, Step, Advance

(***************************************************************************)
(* The inductive invariant                                                 *)
(***************************************************************************)
\* At the start nothing is owed.
LEMMA InitInv == Init => IInv
<1> SUFFICES ASSUME Init PROVE IInv
  OBVIOUS
<1>1. TypeOK
  BY InitType
<1>2. latest.state \notin ContainedStates
  BY DEF Init, NoIncident, ContainedStates
<1> QED
  BY <1>1, <1>2
  DEF Init, IInv, OperationInv, DebtInv, AdmissionInv, RecoveryInv, AuthorizationInv, SweepInv, UndoInv,
      Executable, Contained, Releasing, Recovering

\* Rotating the capability leaves no current authorization behind.
LEMMA RetiredAreDead ==
  ASSUME NEW A \in SUBSET Authorizations
  PROVE  \A a \in Age(Rotate(A)) : ~a.live
<1>1. \A a \in Rotate(A) : ~a.live /\ a \in Authorizations
  BY DEF Rotate, Authorizations
<1> QED
  BY <1>1 DEF Age, Authorizations

\* A registration neither forgives a debt nor makes a debtor executable.
LEMMA RegisterSettles ==
  ASSUME IInv, NEW o \in Offers, NEW S \in SUBSET Enforcers, Register(o, S)
  PROVE  /\ owed => owed'
         /\ fence' # NoEpoch \/ Contained' => owed'
         /\ owed' => state' # "ACTIVE" /\ (fence' # NoEpoch \/ Contained')
<1>ty. TypeOK
  BY DEF IInv
<1>debt. DebtInv
  BY DEF IInv
<1>inc. latest.state \in ContainedStates \cup {"RECOVERED"} => latest.epoch \in Nat /\ latest # NoIncident
  BY <1>ty DEF TypeOK, Incidents, NoIncident, ContainedStates
<1>1. CASE AbortsRecovery(o)
  <2>1. latest'.state = "CONTAINED" /\ owed' = TRUE
    BY <1>1, <1>ty, <1>inc DEF Register, AbortsRecovery, SetIncidentState, PrepareFence, TypeOK, Incidents
  <2>2. state' = "CONTAINED"
    BY <1>1 DEF Register, AbortsRecovery, Restored
  <2> QED
    BY <2>1, <2>2 DEF Contained, ContainedStates
<1>2. CASE ~AbortsRecovery(o) /\ fence # NoEpoch
  <2>1. fence' = fence
    BY <1>2 DEF Register
  <2>2. owed' = TRUE
    BY <1>2, <1>debt DEF Register, RepairIncident, RecordContainment, DebtInv
  <2>3. state' # "ACTIVE"
    BY <1>2 DEF Register, Accepts, ContainedAt, Restored
  <2> QED
    BY <1>2, <2>1, <2>2, <2>3
<1>3. CASE ~AbortsRecovery(o) /\ fence = NoEpoch
  <2>1. UNCHANGED <<latest, owed>>
    BY <1>3 DEF Register, RepairIncident, IncidentMissing, RollbackUnfinished
  <2>2. CASE Contained
    <3>1. fence' = latest.epoch /\ owed
      BY <1>3, <1>debt, <2>2 DEF Register, DebtInv, Contained
    <3>2. state' # "ACTIVE"
      BY <1>3, <2>1, <2>2 DEF Register, Accepts, ContainedAt, Restored, Contained
    <3> QED
      BY <2>1, <2>2, <3>1, <3>2 DEF Contained
  <2>3. CASE ~Contained
    <3>1. fence' = NoEpoch
      BY <1>3, <2>3 DEF Register, Contained
    <3>2. ASSUME owed PROVE FALSE
      <4>1. latest.state = "RECOVERED" /\ state # "ACTIVE"
        BY <1>3, <1>debt, <2>3, <3>2 DEF DebtInv
      <4>2. o.kind # "none" /\ o.state = "ACTIVE" /\ o.epoch = latest.epoch + 1
        BY <1>3, <2>1, <4>1 DEF Register, Accepts, RecoveryEpoch
      <4>3. o.kind = "other" /\ o.epoch = 0
        BY <1>ty, <4>1, <4>2, OfferFacts
      <4> QED
        BY <1>inc, <4>1, <4>2, <4>3
    <3> QED
      BY <2>1, <2>3, <3>1, <3>2 DEF Contained
  <2> QED
    BY <2>2, <2>3
<1> QED
  BY <1>1, <1>2, <1>3

\* Every step of an operation keeps the invariant, part by part.
LEMMA NextInv == IInv /\ [Next]_vars => IInv'
<1> SUFFICES ASSUME IInv, [Next]_vars PROVE IInv'
  OBVIOUS
<1>ty. TypeOK
  BY DEF IInv
<1>ty1. TypeOK'
  BY NextType
<1>num. /\ epoch \in Nat
        /\ fence # NoEpoch => fence \in Nat
        /\ target # NoEpoch => target \in Nat
        /\ \A a \in auths : a.epoch \in Nat
  BY <1>ty DEF TypeOK, Authorizations
<1>inc. /\ latest # NoIncident =>
             /\ latest.epoch \in Nat
             /\ latest.state \in ContainedStates \/ latest.state = "RECOVERED"
        /\ latest.state \in ContainedStates => latest # NoIncident /\ latest.state # "RECOVERED"
        /\ latest.state = "RECOVERED" => latest # NoIncident
  BY <1>ty DEF TypeOK, Incidents, IncidentStates, ContainedStates, NoIncident
<1>con. ASSUME latest # NoIncident, NEW s \in IncidentStates, SetIncidentState(s)
        PROVE  /\ latest'.state = s /\ latest'.epoch = latest.epoch /\ latest'.id = latest.id
               /\ latest' # NoIncident
  BY <1>ty, <1>con DEF TypeOK, Incidents, SetIncidentState, NoIncident, IncidentStates, ContainedStates
<1>st. /\ "CONTAINED" \in ContainedStates /\ "PROOF_DEGRADED" \in ContainedStates
       /\ "RECOVERED" \notin ContainedStates /\ ContainedStates \subseteq IncidentStates
       /\ "RECOVERED" \in IncidentStates
  BY DEF ContainedStates, IncidentStates
<1> USE DEF IInv, OperationInv, DebtInv, AdmissionInv, RecoveryInv, AuthorizationInv, SweepInv, UndoInv,
            Executable, Contained, Releasing, Recovering,
            operation, storage, runtime, service, Return, Begin, Goto, PrepareFence
<1>1. ASSUME NEW o \in Offers, NEW S \in SUBSET Enforcers, Register(o, S)
      PROVE  IInv'
  <2>1. \A a \in auths' : ~a.live
    BY <1>1, <1>ty, RetiredAreDead DEF Register, TypeOK
  <2>2. pc' = "idle" /\ registered'
    BY <1>1 DEF Register
  <2>3. DebtInv' /\ AdmissionInv'
    BY <1>1, RegisterSettles
  <2> QED
    BY <1>ty1, <2>1, <2>2, <2>3
<1>2. CASE RegisterInterrupted
  <2>1. CASE RepairIncident /\ UNCHANGED fence
    <3>1. /\ fence # NoEpoch => owed
          /\ latest'.state \in ContainedStates => owed'
          /\ owed => owed'
          /\ owed' => fence # NoEpoch \/ (latest' = latest /\ owed' = owed)
      BY <2>1, <1>ty, <1>ty1, <1>inc, <1>con, <1>st, RecordContainmentType
      DEF RepairIncident, IncidentMissing, RollbackUnfinished, RecordContainment, IncidentRecord
    <3> QED
      BY <1>2, <2>1, <3>1, <1>ty1, <1>num DEF RegisterInterrupted
  <2>2. CASE (\E o \in Offers : AbortsRecovery(o)) /\ SetIncidentState("CONTAINED") /\ owed' = TRUE /\ UNCHANGED <<fence, ids>>
    BY <1>2, <2>2, <1>ty1, <1>num, <1>inc, <1>con, <1>st DEF RegisterInterrupted, AbortsRecovery
  <2>3. CASE latest.state \in ContainedStates /\ PrepareFence(latest.epoch) /\ UNCHANGED <<ids, latest>>
    BY <1>2, <2>3, <1>ty1, <1>num, <1>inc DEF RegisterInterrupted
  <2> QED
    BY <1>2, <2>1, <2>2, <2>3 DEF RegisterInterrupted
<1>3. CASE Unregister
  BY <1>3, <1>ty1, <1>num, <1>inc, <1>con, <1>st DEF Unregister
<1>4. ASSUME NEW S \in SUBSET Enforcers, Configure(S)
      PROVE  IInv'
  BY <1>4, <1>ty1, <1>num, <1>inc, <1>con, <1>st DEF Configure
<1>5. CASE DecideHalt
  BY <1>5, <1>ty1, <1>num, <1>inc, <1>con, <1>st DEF DecideHalt
<1>6. CASE Halt
  BY <1>6, <1>ty1, <1>num, <1>inc, <1>con, <1>st DEF Halt
<1>7. CASE BeginContain
  BY <1>7, <1>ty1, <1>num, <1>inc, <1>con, <1>st DEF BeginContain
<1>8. CASE Reconcile \/ IssueRecoveryAuthorization
  BY <1>8, <1>ty1, <1>num, <1>inc, <1>con, <1>st DEF Reconcile, IssueRecoveryAuthorization, BeginReconcile, DurablyContained
<1>9. ASSUME NEW a \in auths, BeginRecover(a)
      PROVE  IInv'
  BY <1>9, <1>ty1, <1>num, <1>inc, <1>con, <1>st DEF BeginRecover, DurablyContained
<1>10. CASE ContainEnforcer \/ ReleaseEnforcer
  <2> SUFFICES ASSUME NEW k \in todo, NEW goal \in BOOLEAN, Visit(k, goal),
                      pc = "releasing" <=> goal = FALSE,
                      pc \in ContainingSteps \cup {"releasing"}
               PROVE  IInv'
    BY <1>10 DEF ContainEnforcer, ReleaseEnforcer, First, Final, ContainingSteps
  <2>1. SweepInv'
    BY <1>ty, <1>ty1 DEF Visit, TypeOK, ContainingSteps
  <2> QED
    BY <2>1, <1>ty1 DEF Visit
<1>11. CASE ContainRuntime
  BY <1>11, <1>ty1, <1>num, <1>inc, <1>con, <1>st DEF ContainRuntime
<1>12. CASE RecordIncident
  <2>1. CASE RecordContainment(target, epoch)
    <3>1. latest'.state \in ContainedStates \/ (latest'.state = "RECOVERED" /\ latest' = latest)
      BY <1>12, <1>ty, <1>num, <2>1, RecordedIsLatest DEF RecordIncident
    <3>2. owed' = TRUE
      BY <2>1 DEF RecordContainment
    <3> QED
      BY <1>12, <3>1, <3>2, <1>ty1, <1>num, <1>inc, <1>st DEF RecordIncident
  <2>2. CASE UNCHANGED <<ids, latest, owed>>
    BY <1>12, <2>2, <1>ty1, <1>num DEF RecordIncident
  <2> QED
    BY <1>12, <2>1, <2>2 DEF RecordIncident
<1>13. CASE RecordProof
  <2>1. CASE UNCHANGED <<latest, owed>>
    BY <1>13, <2>1, <1>ty1, <1>num DEF RecordProof
  <2>2. CASE latest.id = target /\ SetIncidentState("PROOF_DEGRADED") /\ owed' = TRUE
    <3>1. latest # NoIncident
      BY <1>13, <2>2 DEF RecordProof, NoIncident
    <3>2. latest'.state \in ContainedStates /\ latest' # NoIncident
      BY <2>2, <3>1, <1>con, <1>st
    <3> QED
      BY <1>13, <2>2, <3>2, <1>ty1, <1>num DEF RecordProof
  <2> QED
    BY <1>13, <2>1, <2>2 DEF RecordProof
<1>14. CASE FinishReconcile
  BY <1>14, <1>ty1, <1>num, <1>inc, <1>con, <1>st DEF FinishReconcile
<1>15. CASE FinishRelease
  BY <1>15, <1>ty1, <1>num, <1>inc, <1>con, <1>st DEF FinishRelease
<1>16. CASE Refence
  BY <1>16, <1>ty1, <1>num, <1>inc, <1>con, <1>st DEF Refence
<1>17. CASE MarkRecovered
  BY <1>17, <1>ty1, <1>num, <1>inc, <1>con, <1>st DEF MarkRecovered
<1>18. CASE Activate
  <2>1. \A a \in auths' : ~a.live
    BY <1>18, <1>ty, RetiredAreDead DEF Activate, TypeOK
  <2>2. fence = NoEpoch /\ latest.state = "RECOVERED"
    BY <1>18 DEF Activate
  <2>3. DebtInv' /\ AdmissionInv'
    BY <1>18, <1>st, <2>2 DEF Activate
  <2> QED
    BY <1>18, <2>1, <2>3, <1>ty1, <1>num DEF Activate
<1>19. CASE ActivationFails
  BY <1>19, <1>ty1, <1>num, <1>inc, <1>con, <1>st DEF ActivationFails
<1>20. CASE UndoFence
  BY <1>20, <1>ty1, <1>num, <1>inc, <1>con, <1>st DEF UndoFence
<1>21. CASE UndoIncident
  BY <1>21, <1>ty1, <1>num, <1>inc, <1>con, <1>st DEF UndoIncident
<1>22. CASE FinishRecontain
  BY <1>22, <1>ty1, <1>num, <1>inc, <1>con, <1>st DEF FinishRecontain
<1>23. CASE AttachProof
  BY <1>23, <1>ty1, <1>num, <1>inc, <1>con, <1>st DEF AttachProof
<1>24. CASE Crash
  BY <1>24, <1>ty1, <1>num, <1>inc, <1>con, <1>st DEF Crash
<1>25. CASE UNCHANGED vars
  BY <1>25, <1>ty1, <1>num, <1>inc, <1>con, <1>st DEF vars, TypeOK
<1> QED
  BY <1>1, <1>2, <1>3, <1>4, <1>5, <1>6, <1>7, <1>8, <1>9, <1>10, <1>11, <1>12, <1>13, <1>14,
     <1>15, <1>16, <1>17, <1>18, <1>19, <1>20, <1>21, <1>22, <1>23, <1>24, <1>25
  DEF Next, Step, Advance

\* The invariant from which every theorem below follows.
THEOREM Invariance == Spec => []IInv
BY InitInv, NextInv, PTL DEF Spec

\* Every variable keeps the type it is declared with, whatever crashes, failing
\* writes and failing enforcers do.
THEOREM TypeCorrect == Spec => []TypeOK
<1>1. IInv => TypeOK
  BY DEF IInv
<1> QED
  BY Invariance, <1>1, PTL

\* An agent that owes a durable containment does not execute until an
\* authorized recovery has activated it, through every crash and restart.
THEOREM Sticking == Spec => []ContainmentSticks
<1>1. IInv => ContainmentSticks
  BY DEF IInv, AdmissionInv, ContainmentSticks
<1> QED
  BY Invariance, <1>1, PTL

\* A containment its report certifies is in force.
THEOREM Certification == Spec => []CertificateIsTrue
<1>1. IInv => CertificateIsTrue
  BY DEF IInv, OperationInv, SweepInv, CertificateIsTrue
<1> QED
  BY Invariance, <1>1, PTL

\* A recovery that aborts without noting a compensation failure has put fence,
\* incident and boundaries back.
THEOREM Compensation == Spec => []CleanAbortRestores
<1>1. IInv => CleanAbortRestores
  BY DEF IInv, RecoveryInv, SweepInv, UndoInv, Recovering, Contained, CleanAbortRestores
<1> QED
  BY Invariance, <1>1, PTL

(***************************************************************************)
(* Activation                                                              *)
(***************************************************************************)

\* Only recover activates a managed runtime that was stopped.
LEMMA OnlyActivate ==
  ASSUME IInv, [Next]_vars, Activates
  PROVE  Activate
<1> USE DEF Activates, operation, storage, runtime, service
<1> QED
  BY DEF Next, Step, Advance, vars, Register, RegisterInterrupted, Unregister, Configure, DecideHalt, Halt,
     BeginContain, Reconcile, IssueRecoveryAuthorization, BeginReconcile, BeginRecover,
     ContainEnforcer, ReleaseEnforcer, Visit, ContainRuntime, RecordIncident, RecordProof,
     FinishReconcile, FinishRelease, Refence, MarkRecovered, ActivationFails,
     UndoFence, UndoIncident, FinishRecontain, AttachProof, Crash

\* The runtime becomes ACTIVE only under an authorization that was issued for
\* this containment since the last registration or recovery.
THEOREM Authorized == Spec => ActivationIsAuthorized
<1>1. IInv /\ [Next]_vars => [Activates => \E a \in auths : a.fresh /\ a.epoch = epoch]_vars
  <2> SUFFICES ASSUME IInv, [Next]_vars, Activates
               PROVE  \E a \in auths : a.fresh /\ a.epoch = epoch
    OBVIOUS
  <2>1. pc = "activating" /\ epoch = target
    BY OnlyActivate DEF Activate, RuntimeRecoverable
  <2> QED
    BY <2>1 DEF IInv, RecoveryInv, AuthorizationInv, Recovering
<1> QED
  BY Invariance, <1>1, PTL DEF Spec, ActivationIsAuthorized

\* When the runtime becomes ACTIVE everything else has been settled: no fence,
\* a RECOVERED incident of the epoch entered, no boundary in force.
THEOREM LastStep == Spec => ActivationIsLast
<1> DEFINE A == Activates =>
                  /\ fence = NoEpoch
                  /\ latest.state = "RECOVERED" /\ RecoveryEpoch(latest) = epoch'
                  /\ \A k \in active : ~enforced[k]
<1>1. IInv /\ [Next]_vars => [A]_vars
  <2> SUFFICES ASSUME IInv, [Next]_vars, Activates PROVE A
    OBVIOUS
  <2>1. pc = "activating" /\ epoch = target /\ epoch' = epoch + 1
    BY OnlyActivate DEF Activate, RuntimeRecoverable
  <2> QED
    BY <2>1 DEF IInv, RecoveryInv, SweepInv, Recovering, RecoveryEpoch
<1> QED
  BY Invariance, <1>1, PTL DEF Spec, ActivationIsLast

(***************************************************************************)
(* The service implements the authority                                    *)
(***************************************************************************)

\* Every step of the service is a step of the authority or changes nothing the
\* authority can see.
LEMMA NextImplements ==
  ASSUME IInv, IInv', [Next]_vars
  PROVE  [Authority!Next]_(Authority!authVars)
<1>op. OperationInv /\ DebtInv /\ AdmissionInv /\ RecoveryInv /\ AuthorizationInv
  BY DEF IInv
<1>num. epoch \in Nat /\ owed \in BOOLEAN /\ owed' \in BOOLEAN /\ \A a \in auths : a.epoch \in Nat
  BY DEF IInv, TypeOK, Authorizations
<1> USE DEF Authority!Next, Authority!authVars, Executable, Granted,
            operation, storage, runtime, service, Return, Begin, Goto, PrepareFence
<1>stutter. ASSUME UNCHANGED <<registered, state, epoch, auths>>, owed' \in {owed, TRUE}
            PROVE  [Authority!Next]_(Authority!authVars)
  BY <1>stutter DEF Authority!Record
<1>revoke. ASSUME ~Executable', ~Granted', UNCHANGED owed
           PROVE  [Authority!Next]_(Authority!authVars)
  BY <1>revoke DEF Authority!Revoke
<1>1. ASSUME NEW o \in Offers, NEW S \in SUBSET Enforcers, Register(o, S)
      PROVE  [Authority!Next]_(Authority!authVars)
  <2>1. ~Executable /\ ~Granted /\ ~Granted'
    BY <1>1, RetiredAreDead DEF Register, IInv, TypeOK
  <2>2. CASE owed'
    BY <1>1, <1>num, <2>1, <2>2, RegisterSettles DEF Authority!Record
  <2>3. CASE ~owed'
    BY <1>1, <1>num, <2>1, <2>3, RegisterSettles DEF Authority!Admit
  <2> QED
    BY <2>2, <2>3
<1>2. CASE RegisterInterrupted
  BY <1>2, <1>stutter DEF RegisterInterrupted, RepairIncident, RecordContainment
<1>3. CASE Unregister
  BY <1>3, <1>revoke DEF Unregister
<1>4. ASSUME NEW S \in SUBSET Enforcers, Configure(S)
      PROVE  [Authority!Next]_(Authority!authVars)
  BY <1>4, <1>stutter DEF Configure
<1>5. CASE DecideHalt
  BY <1>5, <1>stutter DEF DecideHalt
<1>6. CASE Halt
  BY <1>6, <1>revoke DEF Halt
<1>7. CASE BeginContain
  BY <1>7, <1>stutter DEF BeginContain
<1>8. CASE Reconcile \/ IssueRecoveryAuthorization
  BY <1>8, <1>stutter DEF Reconcile, IssueRecoveryAuthorization, BeginReconcile
<1>9. ASSUME NEW a \in auths, BeginRecover(a)
      PROVE  [Authority!Next]_(Authority!authVars)
  BY <1>9, <1>stutter DEF BeginRecover
<1>10. CASE ContainEnforcer \/ ReleaseEnforcer
  BY <1>10, <1>stutter DEF ContainEnforcer, ReleaseEnforcer, Visit
<1>11. CASE ContainRuntime
  <2>1. registered /\ \A a \in auths : a.live => a.epoch # epoch + 1
    BY <1>11, <1>op, <1>num DEF ContainRuntime, OperationInv, AuthorizationInv
  <2> QED
    BY <1>11, <1>revoke, <2>1 DEF ContainRuntime
<1>12. CASE RecordIncident
  BY <1>12, <1>stutter DEF RecordIncident, RecordContainment
<1>13. CASE RecordProof
  BY <1>13, <1>stutter DEF RecordProof
<1>14. CASE FinishReconcile
  <2>1. ~Executable /\ ~Executable' /\ owed /\ owed'
    BY <1>14, <1>op DEF FinishReconcile, OperationInv, AuthorizationInv
  <2>2. Granted => Granted'
    BY <1>14 DEF FinishReconcile
  <2> QED
    BY <1>14, <2>1, <2>2 DEF FinishReconcile, Authority!Grant
<1>15. CASE FinishRelease
  BY <1>15, <1>stutter DEF FinishRelease
<1>16. CASE Refence
  BY <1>16, <1>stutter DEF Refence
<1>17. CASE MarkRecovered
  BY <1>17, <1>stutter DEF MarkRecovered
<1>18. CASE Activate
  <2>1. ~Executable /\ owed /\ Granted
    BY <1>18, <1>op DEF Activate, RuntimeRecoverable, OperationInv, RecoveryInv, Recovering
  <2>2. Executable' /\ owed' = FALSE /\ ~Granted'
    BY <1>18, <1>op DEF Activate, OperationInv
  <2> QED
    BY <2>1, <2>2 DEF Authority!Recover
<1>19. CASE ActivationFails
  BY <1>19, <1>stutter DEF ActivationFails
<1>20. CASE UndoFence
  BY <1>20, <1>stutter DEF UndoFence
<1>21. CASE UndoIncident
  BY <1>21, <1>stutter DEF UndoIncident
<1>22. CASE FinishRecontain
  BY <1>22, <1>stutter DEF FinishRecontain
<1>23. CASE AttachProof
  BY <1>23, <1>stutter DEF AttachProof
<1>24. CASE Crash
  BY <1>24, <1>revoke DEF Crash
<1>25. CASE UNCHANGED vars
  BY <1>25, <1>stutter DEF vars
<1> QED
  BY <1>1, <1>2, <1>3, <1>4, <1>5, <1>6, <1>7, <1>8, <1>9, <1>10, <1>11, <1>12, <1>13, <1>14,
     <1>15, <1>16, <1>17, <1>18, <1>19, <1>20, <1>21, <1>22, <1>23, <1>24, <1>25
  DEF Next, Step, Advance

\* The service implements the authority: a debt is only ever paid by a granted
\* recovery, for any number of enforcers, epochs and halts.
THEOREM Implementation == Spec => ImplementsAuthority
<1>1. Init => Authority!Init
  BY DEF Init, Authority!Init, Executable, Granted
<1>2. IInv /\ IInv' /\ [Next]_vars => [Authority!Next]_(Authority!authVars)
  BY NextImplements
<1> QED
  BY Invariance, <1>1, <1>2, PTL DEF Spec, ImplementsAuthority, Authority!Spec

(***************************************************************************)
(* The records and the epochs, under disturbances that leave them coherent *)
(***************************************************************************)

\* While the clock only moves forward the latest incident has the greatest
\* epoch on record, and no id is ahead of the runtime by more than the one
\* epoch a containment that was cut short has prepared.
IdsInv ==
  "clock" \notin setting =>
    /\ latest = NoIncident => ids = {}
    /\ latest # NoIncident => latest.id \in ids /\ \A i \in ids : i <= latest.epoch
    /\ \A i \in ids : i <= epoch + 1 /\ (i = epoch + 1 => latest.id = i /\ Contained)
    /\ fence <= epoch + 1 /\ latest.epoch <= epoch + 1
    /\ pc = "fencing" => target <= epoch + 1
    /\ pc \in {"enforcing", "proving"} => target <= epoch /\ \A i \in ids : i <= epoch
    /\ pc \in {"fencing", "enforcing"} /\ target \in ids => latest.id = target /\ Contained

\* The latest incident, what it holds and how a write of it changes it.
LEMMA LatestFacts ==
  ASSUME TypeOK
  PROVE  /\ latest = NoIncident => latest.epoch = NoEpoch /\ latest.id = NoEpoch /\ latest.state = "NONE"
         /\ latest # NoIncident =>
              /\ latest.epoch \in Nat /\ latest.id \in Nat
              /\ latest.state \in ContainedStates \/ latest.state = "RECOVERED"
         /\ \A s \in IncidentStates : latest # NoIncident /\ SetIncidentState(s) =>
              /\ latest' # NoIncident /\ latest'.state = s
              /\ latest'.epoch = latest.epoch /\ latest'.id = latest.id
         /\ "CONTAINED" \in ContainedStates /\ "PROOF_DEGRADED" \in ContainedStates
         /\ "RECOVERED" \notin ContainedStates /\ "NONE" \notin ContainedStates
         /\ ContainedStates \cup {"RECOVERED"} \subseteq IncidentStates
<1>1. ContainedStates \cup {"RECOVERED"} \subseteq IncidentStates
  BY DEF IncidentStates
<1>2. ASSUME latest # NoIncident, NEW s \in IncidentStates, SetIncidentState(s)
      PROVE  /\ latest' # NoIncident /\ latest'.state = s
             /\ latest'.epoch = latest.epoch /\ latest'.id = latest.id
  BY <1>2 DEF TypeOK, Incidents, SetIncidentState, NoIncident, IncidentStates, ContainedStates
<1> QED
  BY <1>1, <1>2 DEF TypeOK, Incidents, NoIncident, IncidentStates, ContainedStates

\* With a clock that moves forward a new record is the latest one.
LEMMA RecordedForward ==
  ASSUME NEW i \in Nat, NEW e \in Nat, "clock" \notin setting, RecordContainment(i, e)
  PROVE  /\ i \notin ids /\ ids' = ids \cup {i} /\ owed' = TRUE
         /\ latest' # NoIncident
         /\ latest'.id = i /\ latest'.epoch = e /\ latest'.state = "CONTAINED"
BY DEF RecordContainment, IncidentRecord, NoIncident

\* What register makes of the records, when it accepts an offer.
LEMMA RegisterCases ==
  ASSUME TypeOK, "clock" \notin setting, NEW o \in Offers, NEW S \in SUBSET Enforcers, Register(o, S)
  PROVE  \/ /\ AbortsRecovery(o) /\ UNCHANGED ids
            /\ latest'.id = latest.id /\ latest'.epoch = latest.epoch /\ latest'.state = "CONTAINED"
            /\ latest # NoIncident /\ latest' # NoIncident
            /\ fence' = latest.epoch /\ epoch' = latest.epoch /\ state' = "CONTAINED"
         \/ /\ IncidentMissing /\ fence \notin ids /\ ids' = ids \cup {fence} /\ fence' = fence
            /\ latest'.id = fence /\ latest'.epoch = fence /\ latest'.state = "CONTAINED"
            /\ latest' # NoIncident
            /\ \/ UNCHANGED epoch /\ state' = "HALTED"
               \/ epoch' = fence /\ state' = "CONTAINED"
         \/ /\ RollbackUnfinished /\ UNCHANGED <<ids, fence>>
            /\ latest'.id = latest.id /\ latest'.epoch = latest.epoch /\ latest'.state = "CONTAINED"
            /\ latest # NoIncident /\ latest' # NoIncident
            /\ \/ UNCHANGED epoch /\ state' = "HALTED"
               \/ epoch' = fence /\ state' = "CONTAINED"
         \/ /\ Contained /\ UNCHANGED <<ids, latest>>
            /\ \/ fence' \in {fence, latest.epoch} /\ UNCHANGED epoch /\ state' = "HALTED"
               \/ fence' = latest.epoch /\ epoch' = latest.epoch /\ state' = "CONTAINED"
         \/ /\ latest = NoIncident /\ fence = NoEpoch /\ UNCHANGED <<ids, latest, fence, owed>>
         \/ /\ latest.state = "RECOVERED" /\ fence = NoEpoch /\ UNCHANGED <<ids, latest, fence, owed>>
            /\ UNCHANGED epoch /\ state' = "ACTIVE" /\ epoch = latest.epoch + 1
<1>inc. TypeOK
  OBVIOUS
<1>off. /\ o.state \in RuntimeStates
        /\ o.kind = "none" => o = Unsupplied
        /\ o.kind = "same" => o.state = state /\ o.epoch = epoch
        /\ o.kind \in {"none", "same", "other"}
        /\ o.kind = "other" /\ o.state # "CONTAINED" => o.state = "ACTIVE" /\ o.epoch = 0
  BY OfferFacts
<1>reg. /\ Accepts(o, IF AbortsRecovery(o) THEN latest ELSE latest')
        /\ state' = Restored(o, latest').state /\ epoch' = Restored(o, latest').epoch
  BY DEF Register
<1>1. CASE AbortsRecovery(o)
  <2>1. latest # NoIncident
    BY <1>1, LatestFacts DEF AbortsRecovery
  <2>2. /\ latest' # NoIncident /\ latest'.state = "CONTAINED"
        /\ latest'.epoch = latest.epoch /\ latest'.id = latest.id
    BY <1>1, <2>1, LatestFacts DEF Register
  <2>3. epoch' = latest.epoch /\ state' = "CONTAINED"
    BY <1>1, <1>reg DEF Restored, AbortsRecovery
  <2> QED
    BY <1>1, <2>1, <2>2, <2>3 DEF Register, PrepareFence
<1>2. CASE ~AbortsRecovery(o) /\ fence # NoEpoch
  <2>1. fence' = fence /\ RepairIncident /\ Accepts(o, latest')
    BY <1>2 DEF Register
  <2>2. \/ UNCHANGED epoch /\ state' = "HALTED"
        \/ epoch' = fence /\ state' = "CONTAINED"
    <3>1. CASE o.kind = "none"
      BY <1>2, <1>off, <1>reg, <3>1 DEF Restored, Unsupplied
    <3>2. CASE o.kind # "none"
      BY <1>2, <1>off, <1>reg, <2>1, <3>2 DEF Restored, Accepts, ContainedAt, RuntimeStates
    <3> QED
      BY <3>1, <3>2
  <2>3. CASE IncidentMissing
    <3>1. RecordContainment(fence, fence) /\ fence \in Nat
      BY <2>1, <2>3, LatestFacts DEF RepairIncident, RollbackUnfinished, IncidentMissing, TypeOK, RecoveryEpoch
    <3> QED
      BY <2>1, <2>2, <2>3, <3>1, RecordedForward
  <2>4. CASE RollbackUnfinished
    <3>1. latest # NoIncident
      BY <2>4, LatestFacts DEF RollbackUnfinished
    <3>2. SetIncidentState("CONTAINED") /\ UNCHANGED ids
      BY <2>1, <2>4, <3>1, LatestFacts DEF RepairIncident, RollbackUnfinished, IncidentMissing, RecoveryEpoch
    <3> QED
      BY <2>1, <2>2, <2>4, <3>1, <3>2, LatestFacts
  <2>5. CASE ~IncidentMissing /\ ~RollbackUnfinished
    <3>1. ~FenceConflicts /\ UNCHANGED <<ids, latest, owed>>
      BY <2>1, <2>5 DEF RepairIncident
    <3>2. Contained
      BY <1>2, <2>5, <3>1, LatestFacts DEF FenceConflicts, IncidentMissing, Contained
    <3>3. fence = latest.epoch \/ state' = "HALTED"
      BY <1>off, <1>2, <1>reg, <2>1, <3>1, <3>2 DEF Accepts, ContainedAt, Contained, Restored, RuntimeStates
    <3> QED
      BY <2>1, <2>2, <3>1, <3>2, <3>3
  <2> QED
    BY <2>3, <2>4, <2>5
<1>3. CASE ~AbortsRecovery(o) /\ fence = NoEpoch
  <2>1. UNCHANGED <<ids, latest, owed>>
    BY <1>3 DEF Register, RepairIncident, IncidentMissing, RollbackUnfinished
  <2>2. CASE Contained
    <3>1. fence' = latest.epoch
      BY <1>3, <2>2 DEF Register, Contained
    <3>2. \/ UNCHANGED epoch /\ state' = "HALTED"
          \/ epoch' = latest.epoch /\ state' = "CONTAINED"
      BY <1>3, <1>off, <1>reg, <2>1, <2>2 DEF Accepts, ContainedAt, Contained, Restored, RuntimeStates, Unsupplied
    <3> QED
      BY <2>1, <2>2, <3>1, <3>2
  <2>3. CASE ~Contained
    <3>1. fence' = fence
      BY <1>3, <2>3 DEF Register, Contained
    <3>2. CASE latest = NoIncident
      BY <1>3, <2>1, <3>1, <3>2
    <3>3. CASE latest # NoIncident
      <4>1. latest.state = "RECOVERED"
        BY <2>3, <3>3, LatestFacts DEF Contained
      <4>2. o.kind # "none" /\ o.state = "ACTIVE" /\ o.epoch = latest.epoch + 1
        BY <1>3, <1>reg, <2>1, <4>1 DEF Accepts, RecoveryEpoch
      <4>3. o.kind = "same"
        BY <1>off, <3>3, <4>2, LatestFacts
      <4> QED
        BY <1>3, <1>off, <1>reg, <2>1, <3>1, <4>1, <4>2, <4>3 DEF Restored
    <3> QED
      BY <3>2, <3>3
  <2> QED
    BY <2>2, <2>3
<1> QED
  BY <1>1, <1>2, <1>3

\* A registration that was cut short after its first write.
LEMMA InterruptedCases ==
  ASSUME TypeOK, "clock" \notin setting, RegisterInterrupted
  PROVE  \/ /\ IncidentMissing /\ fence \notin ids /\ ids' = ids \cup {fence} /\ fence' = fence
            /\ latest'.id = fence /\ latest'.epoch = fence /\ latest'.state = "CONTAINED"
            /\ latest' # NoIncident
         \/ /\ RollbackUnfinished \/ \E o \in Offers : AbortsRecovery(o)
            /\ UNCHANGED <<ids, fence>>
            /\ latest'.id = latest.id /\ latest'.epoch = latest.epoch /\ latest'.state = "CONTAINED"
            /\ latest # NoIncident /\ latest' # NoIncident
         \/ Contained /\ fence = NoEpoch /\ UNCHANGED <<ids, latest>> /\ fence' = latest.epoch
         \/ UNCHANGED <<ids, latest, fence>>
<1>1. CASE RepairIncident /\ UNCHANGED fence
  <2>1. CASE IncidentMissing /\ RecordContainment(fence, fence)
    BY <1>1, <2>1, RecordedForward DEF IncidentMissing, TypeOK
  <2>2. CASE RollbackUnfinished /\ SetIncidentState("CONTAINED") /\ UNCHANGED ids
    <3>1. latest # NoIncident
      BY <2>2, LatestFacts DEF RollbackUnfinished
    <3> QED
      BY <1>1, <2>2, <3>1, LatestFacts
  <2> QED
    BY <1>1, <2>1, <2>2 DEF RepairIncident
<1>2. CASE /\ \E o \in Offers : AbortsRecovery(o)
           /\ SetIncidentState("CONTAINED") /\ UNCHANGED <<fence, ids>>
  <2>1. latest # NoIncident
    BY <1>2, LatestFacts DEF AbortsRecovery
  <2> QED
    BY <1>2, <2>1, LatestFacts
<1> QED
  BY <1>1, <1>2 DEF RegisterInterrupted, PrepareFence, Contained

\* The steps that touch neither the records nor the epoch, and start no
\* containment.
Calm ==
  /\ UNCHANGED <<fence, ids, latest, epoch>>
  /\ \/ UNCHANGED <<pc, target>>
     \/ pc' \notin {"fencing", "enforcing", "proving"}

LEMMA CalmSteps ==
  \/ Unregister \/ (\E S \in SUBSET Enforcers : Configure(S)) \/ DecideHalt
  \/ Reconcile \/ IssueRecoveryAuthorization
  \/ ContainEnforcer \/ ReleaseEnforcer \/ FinishReconcile \/ FinishRelease
  \/ ActivationFails \/ FinishRecontain \/ Crash \/ UNCHANGED vars
  => Calm
BY DEF Calm, Unregister, Configure, DecideHalt, Reconcile, IssueRecoveryAuthorization, BeginReconcile,
       Begin, ContainEnforcer, ReleaseEnforcer, Visit, FinishReconcile, FinishRelease, ActivationFails,
       Goto, FinishRecontain, Return, Crash, vars, storage, runtime, operation

\* Every step keeps the ids and epochs on record in step with the runtime.
LEMMA IdsNext == IInv /\ IdsInv /\ [Next]_vars => IdsInv'
<1> SUFFICES ASSUME IInv, IdsInv, [Next]_vars, "clock" \notin setting PROVE IdsInv'
  BY DEF IdsInv, Next, vars
<1>ty. TypeOK
  BY DEF IInv
<1>set. setting' = setting
  BY DEF Next, vars
<1>num. /\ epoch \in Nat /\ ids \subseteq Nat
        /\ fence # NoEpoch => fence \in Nat
        /\ pc # "idle" => target \in Nat
        /\ pc \in Recovering => target <= epoch /\ latest # NoIncident /\ latest.epoch = target
  BY <1>ty DEF TypeOK, IInv, OperationInv, AuthorizationInv, RecoveryInv
<1>lat. /\ latest = NoIncident => latest.epoch = NoEpoch /\ latest.id = NoEpoch /\ latest.state = "NONE"
        /\ latest # NoIncident =>
              /\ latest.epoch \in Nat /\ latest.id \in Nat
              /\ latest.state \in ContainedStates \/ latest.state = "RECOVERED"
        /\ "CONTAINED" \in ContainedStates /\ "RECOVERED" \notin ContainedStates
        /\ "NONE" \notin ContainedStates
  BY <1>ty, LatestFacts
<1>old. /\ latest = NoIncident => ids = {}
        /\ latest # NoIncident => latest.id \in ids /\ \A i \in ids : i <= latest.epoch
        /\ \A i \in ids : i <= epoch + 1 /\ (i = epoch + 1 => latest.id = i /\ Contained)
        /\ fence <= epoch + 1 /\ latest.epoch <= epoch + 1
        /\ pc = "fencing" => target <= epoch + 1
        /\ pc \in {"enforcing", "proving"} => target <= epoch /\ \A i \in ids : i <= epoch
        /\ pc \in {"fencing", "enforcing"} /\ target \in ids => latest.id = target /\ Contained
  BY DEF IdsInv
<1>new. PICK e \in Nat, f \in Int : epoch' = e /\ fence' = f
  BY NextType DEF TypeOK
<1> USE <1>set DEF storage, runtime, service, operation, PrepareFence, Return, Begin, Goto, Contained, IdsInv
<1>0. CASE Calm
  BY <1>0, <1>old DEF Calm
<1>1. ASSUME NEW o \in Offers, NEW S \in SUBSET Enforcers, Register(o, S)
      PROVE  IdsInv'
  <2>1. pc' = "idle"
    BY <1>1 DEF Register
  <2>2. CASE /\ AbortsRecovery(o) /\ UNCHANGED ids
             /\ latest'.id = latest.id /\ latest'.epoch = latest.epoch /\ latest'.state = "CONTAINED"
             /\ latest # NoIncident /\ latest' # NoIncident
             /\ fence' = latest.epoch /\ epoch' = latest.epoch
    BY <1>num, <1>new, <1>lat, <1>old, <2>1, <2>2
  <2>3. CASE /\ IncidentMissing /\ fence \notin ids /\ ids' = ids \cup {fence} /\ fence' = fence
             /\ latest'.id = fence /\ latest'.epoch = fence /\ latest'.state = "CONTAINED"
             /\ latest' # NoIncident
             /\ UNCHANGED epoch \/ epoch' = fence
    <3>1. fence \in Nat /\ \A i \in ids : i < fence
      BY <1>num, <1>new, <1>lat, <1>old, <2>3 DEF IncidentMissing, RecoveryEpoch
    <3> QED
      BY <1>num, <1>new, <1>lat, <1>old, <2>1, <2>3, <3>1
  <2>4. CASE /\ RollbackUnfinished /\ UNCHANGED <<ids, fence>>
             /\ latest'.id = latest.id /\ latest'.epoch = latest.epoch /\ latest'.state = "CONTAINED"
             /\ latest # NoIncident /\ latest' # NoIncident
             /\ UNCHANGED epoch \/ epoch' = fence
    BY <1>num, <1>new, <1>lat, <1>old, <2>1, <2>4 DEF RollbackUnfinished
  <2>5. CASE /\ Contained /\ UNCHANGED <<ids, latest>>
             /\ \/ fence' \in {fence, latest.epoch} /\ UNCHANGED epoch
                \/ fence' = latest.epoch /\ epoch' = latest.epoch
    BY <1>num, <1>new, <1>lat, <1>old, <2>1, <2>5
  <2>6. CASE latest = NoIncident /\ fence = NoEpoch /\ UNCHANGED <<ids, latest, fence>>
    BY <1>num, <1>new, <1>lat, <1>old, <2>1, <2>6
  <2>7. CASE UNCHANGED <<ids, latest, fence, epoch>>
    BY <1>old, <2>1, <2>7
  <2> QED
    BY <1>1, <1>ty, <2>2, <2>3, <2>4, <2>5, <2>6, <2>7, RegisterCases
<1>2. CASE RegisterInterrupted
  <2>1. UNCHANGED <<epoch, pc, target>> /\ pc = "idle"
    BY <1>2 DEF RegisterInterrupted
  <2>2. CASE /\ IncidentMissing /\ fence \notin ids /\ ids' = ids \cup {fence} /\ fence' = fence
             /\ latest'.id = fence /\ latest'.epoch = fence /\ latest'.state = "CONTAINED"
             /\ latest' # NoIncident
    <3>1. fence \in Nat /\ \A i \in ids : i < fence
      BY <1>num, <1>new, <1>lat, <1>old, <2>2 DEF IncidentMissing, RecoveryEpoch
    <3> QED
      BY <1>num, <1>new, <1>lat, <1>old, <2>1, <2>2, <3>1
  <2>3. CASE /\ UNCHANGED <<ids, fence>>
             /\ latest'.id = latest.id /\ latest'.epoch = latest.epoch /\ latest'.state = "CONTAINED"
             /\ latest # NoIncident /\ latest' # NoIncident
    BY <1>num, <1>new, <1>lat, <1>old, <2>1, <2>3
  <2>4. CASE UNCHANGED <<ids, latest>> /\ fence' \in {fence, latest.epoch}
    BY <1>num, <1>new, <1>lat, <1>old, <2>1, <2>4
  <2> QED
    BY <1>2, <1>ty, <2>2, <2>3, <2>4, InterruptedCases
<1>3. CASE Halt
  BY <1>3, <1>num, <1>new, <1>lat, <1>old DEF Halt
<1>4. CASE BeginContain
  BY <1>4, <1>num, <1>new, <1>lat, <1>old DEF BeginContain
<1>5. ASSUME NEW a \in auths, BeginRecover(a) PROVE IdsInv'
  BY <1>5, <1>num, <1>new, <1>lat, <1>old DEF BeginRecover
<1>6. CASE ContainRuntime
  BY <1>6, <1>num, <1>new, <1>lat, <1>old DEF ContainRuntime
<1>7. CASE RecordIncident
  <2>1. CASE RecordContainment(target, epoch)
    <3>1. target \in Nat /\ target <= epoch /\ \A i \in ids : i <= epoch
      BY <1>7, <1>num, <1>old DEF RecordIncident
    <3>2. /\ ids' = ids \cup {target} /\ latest' # NoIncident
          /\ latest'.id = target /\ latest'.epoch = epoch /\ latest'.state = "CONTAINED"
      BY <1>num, <2>1, <3>1, RecordedForward
    <3>3. pc' = "proving" /\ UNCHANGED <<fence, epoch, target>>
      BY <1>7 DEF RecordIncident
    <3>4. \A i \in ids' : i \in Nat /\ i <= epoch
      BY <1>num, <3>1, <3>2
    <3> QED
      BY <1>num, <1>new, <1>lat, <1>old, <3>1, <3>2, <3>3, <3>4
  <2>2. CASE UNCHANGED <<ids, latest>>
    BY <1>7, <1>old, <2>2 DEF RecordIncident
  <2> QED
    BY <1>7, <2>1, <2>2 DEF RecordIncident
<1>8. CASE RecordProof \/ AttachProof \/ MarkRecovered \/ UndoIncident
  <2>1. UNCHANGED <<fence, ids, epoch>>
    BY <1>8 DEF RecordProof, AttachProof, MarkRecovered, UndoIncident
  <2>2. \/ UNCHANGED <<pc, target>> /\ (Contained => Contained')
        \/ pc' = "idle" /\ (Contained => Contained')
        \/ pc' \notin {"fencing", "enforcing", "proving"} /\ latest.epoch <= epoch
    <3>1. pc \in {"admitting", "undo_incident"} => latest.epoch <= epoch
      BY <1>num DEF Recovering, Releasing
    <3>2. latest # NoIncident /\ SetIncidentState("PROOF_DEGRADED") => Contained'
      BY <1>ty, LatestFacts
    <3>3. latest # NoIncident /\ SetIncidentState("CONTAINED") => Contained'
      BY <1>ty, LatestFacts
    <3>4. CASE RecordProof
      BY <1>lat, <1>num, <1>new, <3>2, <3>4 DEF RecordProof, NoIncident
    <3>5. CASE AttachProof
      BY <1>lat, <3>3, <3>5 DEF AttachProof
    <3>6. CASE MarkRecovered \/ UndoIncident
      BY <3>1, <3>6 DEF MarkRecovered, UndoIncident
    <3> QED
      BY <1>8, <3>4, <3>5, <3>6
  <2>3. /\ latest'.id = latest.id /\ latest'.epoch = latest.epoch
        /\ latest' = NoIncident <=> latest = NoIncident
    <3>1. UNCHANGED latest \/ \E s \in IncidentStates : latest # NoIncident /\ SetIncidentState(s)
      <4>1. latest.state \in ContainedStates \cup {"RECOVERED"} => latest # NoIncident
        BY <1>lat
      <4>2. pc \in {"proving", "admitting"} /\ latest.id = target => latest # NoIncident
        BY <1>lat, <1>num
      <4>3. pc = "admitting" => latest # NoIncident
        BY <1>num DEF Recovering, Releasing
      <4>4. "CONTAINED" \in IncidentStates /\ "PROOF_DEGRADED" \in IncidentStates /\ "RECOVERED" \in IncidentStates
        BY DEF IncidentStates, ContainedStates
      <4> QED
        BY <1>8, <4>1, <4>2, <4>3, <4>4 DEF RecordProof, AttachProof, MarkRecovered, UndoIncident
    <3> QED
      BY <1>ty, <3>1, LatestFacts
  <2> QED
    BY <1>num, <1>new, <1>lat, <1>old, <2>1, <2>2, <2>3
<1>9. CASE Refence \/ UndoFence
  <2>1. target <= epoch
    BY <1>9, <1>num DEF Refence, UndoFence, Recovering, Releasing
  <2>2. UNCHANGED <<ids, latest, epoch>> /\ pc' \notin {"fencing", "enforcing", "proving"}
    BY <1>9 DEF Refence, UndoFence
  <2>3. fence' = target \/ fence' = fence
    BY <1>9 DEF Refence, UndoFence
  <2>4. target \in Nat
    BY <1>9, <1>num DEF Refence, UndoFence
  <2> QED
    BY <1>num, <1>new, <1>old, <2>1, <2>2, <2>3, <2>4
<1>10. CASE Activate
  BY <1>10, <1>num, <1>new, <1>lat, <1>old DEF Activate
<1> QED
  BY <1>0, <1>1, <1>2, <1>3, <1>4, <1>5, <1>6, <1>7, <1>8, <1>9, <1>10, CalmSteps DEF Next, Step, Advance

\* As long as the clock moves forward, record_containment refuses an id only
\* when that id is on record as the latest, unrecovered containment
\* (incident_state.py), so that the refusal loses nothing.
THEOREM Refused == Spec => []RefusedIncidentIsKnown
<1>1. Init => IdsInv
  BY DEF Init, IdsInv, NoIncident
<1>2. IInv /\ IdsInv => RefusedIncidentIsKnown
  BY DEF IdsInv, RefusedIncidentIsKnown, Contained
<1> QED
  BY Invariance, <1>1, <1>2, IdsNext, PTL DEF Spec

\* Fence, incident and runtime agree on one epoch.
Settled == DurablyContained /\ fence = epoch

\* Nothing is halted, and every write and the clock work: the operation that
\* holds the lock knows where fence, incident and runtime stand, and leaves
\* them settled.
QuietInv ==
  setting \subseteq {"recontain"} =>
    /\ halts = 0
    /\ latest # NoIncident => latest.id = latest.epoch
    /\ pc = "fencing" => target = epoch + 1 /\ fence = target
    /\ pc \in {"enforcing", "proving"} => state = "CONTAINED" /\ epoch = target /\ fence = epoch
    /\ pc = "proving" => Contained /\ latest.epoch = epoch
    /\ pc \in Recovering => state = "CONTAINED" /\ epoch = target
    /\ pc \notin {"undo_fence", "undo_incident", "recontaining"}
    /\ pc \in {"reconciling", "authorizing"} => Settled
    /\ pc = "idle" /\ registered /\ state = "CONTAINED" /\ owed => Settled

\* Nothing is halted or contained twice and the clock works: whatever writes
\* fail, a fence belongs to the latest incident or is newer than its recovery.
OnceInv ==
  setting \subseteq {"storage"} =>
    /\ halts = 0
    /\ registered /\ state = "ACTIVE" /\ latest.state = "RECOVERED" => latest.epoch < epoch
    /\ pc = "fencing" => state = "ACTIVE" /\ target = epoch + 1
    /\ pc \in {"enforcing", "proving"} => epoch = target
    /\ pc \in {"fencing", "enforcing", "proving", "undo_incident"} => fence \in {NoEpoch, target}
    /\ pc \in {"fencing", "enforcing", "proving"} /\ latest.state = "RECOVERED" =>
         latest.epoch + 1 < target
    /\ fence # NoEpoch =>
         \/ latest = NoIncident
         \/ fence = latest.epoch
         \/ latest.state = "RECOVERED" /\ fence > latest.epoch + 1

\* The steps that change the latest incident's state only.
LEMMA Restated ==
  ASSUME TypeOK, RecordProof \/ AttachProof \/ MarkRecovered \/ UndoIncident,
         pc # "idle" => target \in Nat, pc = "admitting" => latest # NoIncident
  PROVE  /\ UNCHANGED <<fence, ids, state, epoch, registered, halts>>
         /\ latest'.id = latest.id /\ latest'.epoch = latest.epoch
         /\ latest' = NoIncident <=> latest = NoIncident
         /\ UNCHANGED latest \/ latest' # NoIncident
         /\ MarkRecovered => UNCHANGED latest \/ latest'.state = "RECOVERED"
         /\ ~MarkRecovered => UNCHANGED latest \/ latest'.state \in ContainedStates
<1>1. latest.state \in ContainedStates \cup {"RECOVERED"} => latest # NoIncident
  BY LatestFacts
<1>2. pc \in {"proving", "admitting"} /\ latest.id = target => latest # NoIncident
  BY LatestFacts
<1>3. "CONTAINED" \in IncidentStates /\ "PROOF_DEGRADED" \in IncidentStates /\ "RECOVERED" \in IncidentStates
  BY LatestFacts
<1>4. \/ UNCHANGED latest
      \/ latest # NoIncident /\ SetIncidentState("RECOVERED") /\ MarkRecovered
      \/ latest # NoIncident /\ SetIncidentState("CONTAINED") /\ ~MarkRecovered
      \/ latest # NoIncident /\ SetIncidentState("PROOF_DEGRADED") /\ ~MarkRecovered
  <2>1. CASE MarkRecovered
    BY <2>1 DEF MarkRecovered, Goto
  <2>2. CASE ~MarkRecovered
    BY <1>1, <1>2, <2>2 DEF RecordProof, AttachProof, UndoIncident
  <2> QED
    BY <2>1, <2>2
<1>5. UNCHANGED <<fence, ids, state, epoch, registered, halts>>
  BY DEF RecordProof, AttachProof, MarkRecovered, UndoIncident, runtime, service
<1> QED
  BY <1>3, <1>4, <1>5, LatestFacts

\* Every step keeps what an undisturbed service has settled.
LEMMA QuietNext == IInv /\ IdsInv /\ QuietInv /\ [Next]_vars => QuietInv'
<1> SUFFICES ASSUME IInv, IdsInv, QuietInv, [Next]_vars, setting \subseteq {"recontain"} PROVE QuietInv'
  BY DEF QuietInv, Next, vars
<1>ty. TypeOK
  BY DEF IInv
<1>set. setting' = setting /\ "storage" \notin setting /\ "clock" \notin setting /\ "halt" \notin setting
  BY DEF Next, vars
<1>num. /\ epoch \in Nat
        /\ pc # "idle" => target \in Nat
        /\ pc \in Recovering => owed /\ latest # NoIncident /\ latest.epoch = target
        /\ pc \in Releasing => Contained
        /\ pc # "idle" => registered
  BY <1>ty DEF TypeOK, IInv, OperationInv, RecoveryInv
<1>lat. /\ latest = NoIncident => latest.epoch = NoEpoch /\ latest.state = "NONE"
        /\ latest # NoIncident => latest.epoch \in Nat
        /\ "CONTAINED" \in ContainedStates /\ "NONE" \notin ContainedStates
  BY <1>ty, LatestFacts
<1>old. /\ halts = 0
        /\ latest # NoIncident => latest.id = latest.epoch
        /\ pc = "fencing" => target = epoch + 1 /\ fence = target
        /\ pc \in {"enforcing", "proving"} => state = "CONTAINED" /\ epoch = target /\ fence = epoch
        /\ pc = "proving" => Contained /\ latest.epoch = epoch
        /\ pc \in Recovering => state = "CONTAINED" /\ epoch = target
        /\ pc \notin {"undo_fence", "undo_incident", "recontaining"}
        /\ pc \in {"reconciling", "authorizing"} => Settled
        /\ pc = "idle" /\ registered /\ state = "CONTAINED" /\ owed => Settled
  BY DEF QuietInv
<1> USE <1>set DEF storage, runtime, service, operation, PrepareFence, Return, Begin, Goto, Contained,
                   QuietInv, Settled, DurablyContained
<1>1. ASSUME NEW o \in Offers, NEW S \in SUBSET Enforcers, Register(o, S)
      PROVE  QuietInv'
  <2>1. pc' = "idle" /\ halts' = 0
    BY <1>1, <1>old DEF Register
  <2>2. CASE latest = NoIncident /\ fence = NoEpoch /\ UNCHANGED <<ids, latest, fence, owed>>
    <3>1. ~owed
      BY <1>lat, <2>2 DEF IInv, DebtInv
    <3> QED
      BY <1>old, <2>1, <2>2, <3>1 DEF Recovering, Releasing
  <2>3. /\ latest' # NoIncident => latest'.id = latest'.epoch
        /\ \/ state' # "CONTAINED"
           \/ latest'.state \in ContainedStates /\ epoch' = latest'.epoch /\ fence' = epoch'
           \/ latest = NoIncident /\ fence = NoEpoch /\ UNCHANGED <<ids, latest, fence, owed>>
    BY <1>1, <1>ty, <1>old, <1>lat, RegisterCases DEF RollbackUnfinished
  <2> QED
    BY <2>1, <2>2, <2>3 DEF Recovering, Releasing
<1>2. CASE RegisterInterrupted
  <2>1. UNCHANGED <<registered, halts, pc>> /\ pc = "idle" /\ ~registered
    BY <1>2 DEF RegisterInterrupted
  <2>2. latest' # NoIncident => latest'.id = latest'.epoch
    BY <1>2, <1>ty, <1>old, InterruptedCases
  <2> QED
    BY <1>old, <2>1, <2>2 DEF Recovering, Releasing
<1>3. CASE Unregister \/ (\E S \in SUBSET Enforcers : Configure(S)) \/ Crash
  BY <1>3, <1>old DEF Unregister, Configure, Crash, Recovering, Releasing
<1>4. CASE DecideHalt \/ Halt
  BY <1>4, <1>old DEF DecideHalt, Halt
<1>5. CASE Reconcile \/ IssueRecoveryAuthorization
  BY <1>5, <1>old DEF Reconcile, IssueRecoveryAuthorization, BeginReconcile, Recovering, Releasing
<1>6. CASE ContainEnforcer \/ ReleaseEnforcer
  BY <1>6, <1>old DEF ContainEnforcer, ReleaseEnforcer, Visit
<1>7. CASE FinishReconcile
  BY <1>7, <1>old DEF FinishReconcile, Recovering, Releasing
<1>8. CASE FinishRelease
  BY <1>8, <1>old DEF FinishRelease, Recovering, Releasing
<1>9. CASE ActivationFails \/ FinishRecontain \/ UndoFence \/ UndoIncident
  BY <1>9, <1>old DEF ActivationFails, RuntimeRecoverable, FinishRecontain, UndoFence, UndoIncident, Recovering
<1>10. CASE BeginContain
  BY <1>10, <1>old DEF BeginContain, Recovering, Releasing
<1>11. ASSUME NEW a \in auths, BeginRecover(a) PROVE QuietInv'
  BY <1>11, <1>old DEF BeginRecover
<1>12. CASE ContainRuntime
  BY <1>12, <1>num, <1>old DEF ContainRuntime, Recovering, Releasing
<1>13. CASE RecordIncident
  <2>1. CASE RecordContainment(target, epoch)
    <3>1. target \in Nat
      BY <1>13, <1>num DEF RecordIncident
    <3>2. /\ latest'.id = target /\ latest'.epoch = epoch /\ latest'.state = "CONTAINED"
      BY <1>num, <2>1, <3>1, RecordedForward
    <3> QED
      BY <1>13, <1>old, <1>lat, <3>2 DEF RecordIncident, Recovering, Releasing
  <2>2. CASE target \in ids /\ UNCHANGED latest
    <3>1. latest.id = target /\ Contained
      BY <1>13, <2>2 DEF IdsInv, RecordIncident
    <3> QED
      BY <1>13, <1>old, <1>lat, <2>2, <3>1 DEF RecordIncident, Recovering, Releasing
  <2> QED
    BY <1>13, <2>1, <2>2 DEF RecordIncident
<1>14. CASE RecordProof \/ AttachProof \/ MarkRecovered
  <2>1. /\ UNCHANGED <<fence, ids, state, epoch, registered, halts>>
        /\ latest'.id = latest.id /\ latest'.epoch = latest.epoch
        /\ latest' = NoIncident <=> latest = NoIncident
        /\ ~MarkRecovered => UNCHANGED latest \/ latest'.state \in ContainedStates
    BY <1>14, <1>ty, <1>num, Restated DEF Recovering, Releasing
  <2>2. CASE RecordProof
    BY <1>old, <2>1, <2>2 DEF RecordProof, MarkRecovered, Recovering, Releasing
  <2>3. CASE AttachProof
    <3>1. UNCHANGED <<pc, target, owed>> /\ latest'.state = "CONTAINED"
      BY <1>ty, <1>lat, <2>3, LatestFacts DEF AttachProof
    <3> QED
      BY <1>old, <1>lat, <2>1, <3>1
  <2>4. CASE MarkRecovered
    BY <1>old, <2>1, <2>4 DEF MarkRecovered, Recovering, Releasing
  <2> QED
    BY <1>14, <2>2, <2>3, <2>4
<1>15. CASE Refence
  BY <1>15, <1>num, <1>old DEF Refence, Recovering, Releasing
<1>16. CASE Activate
  BY <1>16, <1>old DEF Activate, Recovering, Releasing
<1>17. CASE UNCHANGED vars
  BY <1>17, <1>old DEF vars
<1> QED
  BY <1>1, <1>2, <1>3, <1>4, <1>5, <1>6, <1>7, <1>8, <1>9, <1>10, <1>11, <1>12, <1>13, <1>14,
     <1>15, <1>16, <1>17 DEF Next, Step, Advance

\* Without faults, whatever reconciles or contains again, a contained runtime at
\* rest agrees with fence and incident on one epoch, which is what recover asks
\* for (control.py: recover,
\* reconcile_containment).
THEOREM Recoverable == Spec => []ContainedIsRecoverable
<1>1. Init => IdsInv /\ QuietInv
  BY DEF Init, IdsInv, QuietInv, NoIncident, Recovering, Releasing
<1>2. QuietInv => ContainedIsRecoverable
  BY DEF QuietInv, Settled, ContainedIsRecoverable
<1> QED
  BY Invariance, <1>1, <1>2, IdsNext, QuietNext, PTL DEF Spec

\* Every step keeps the fence in line with the latest incident.
LEMMA OnceNext == IInv /\ IdsInv /\ OnceInv /\ [Next]_vars => OnceInv'
<1> SUFFICES ASSUME IInv, IdsInv, OnceInv, [Next]_vars, setting \subseteq {"storage"} PROVE OnceInv'
  BY DEF OnceInv, Next, vars
<1>ty. TypeOK
  BY DEF IInv
<1>set. setting' = setting /\ "recontain" \notin setting /\ "clock" \notin setting /\ "halt" \notin setting
  BY DEF Next, vars
<1>num. /\ epoch \in Nat
        /\ fence # NoEpoch => fence \in Nat
        /\ pc # "idle" => target \in Nat /\ registered
        /\ pc \in Recovering => latest # NoIncident /\ latest.epoch = target
        /\ pc \in Releasing \cup {"activating", "undo_fence"} => fence = NoEpoch
        /\ pc \notin {"idle", "fencing"} => state # "ACTIVE"
  BY <1>ty DEF TypeOK, IInv, OperationInv, RecoveryInv
<1>lat. /\ latest = NoIncident => latest.epoch = NoEpoch /\ latest.state = "NONE"
        /\ latest # NoIncident =>
              /\ latest.epoch \in Nat
              /\ latest.state \in ContainedStates \/ latest.state = "RECOVERED"
        /\ "CONTAINED" \in ContainedStates /\ "NONE" \notin ContainedStates /\ "RECOVERED" \notin ContainedStates
  BY <1>ty, LatestFacts
<1>old. /\ halts = 0
        /\ registered /\ state = "ACTIVE" /\ latest.state = "RECOVERED" => latest.epoch < epoch
        /\ pc = "fencing" => state = "ACTIVE" /\ target = epoch + 1
        /\ pc \in {"enforcing", "proving"} => epoch = target
        /\ pc \in {"fencing", "enforcing", "proving", "undo_incident"} => fence \in {NoEpoch, target}
        /\ pc \in {"fencing", "enforcing", "proving"} /\ latest.state = "RECOVERED" =>
             latest.epoch + 1 < target
        /\ fence # NoEpoch =>
             \/ latest = NoIncident
             \/ fence = latest.epoch
             \/ latest.state = "RECOVERED" /\ fence > latest.epoch + 1
  BY DEF OnceInv
<1> USE <1>set DEF storage, runtime, service, operation, PrepareFence, Return, Begin, Goto, Contained,
                   OnceInv, DurablyContained
<1>1. ASSUME NEW o \in Offers, NEW S \in SUBSET Enforcers, Register(o, S)
      PROVE  OnceInv'
  <2>1. pc' = "idle" /\ halts' = 0
    BY <1>1, <1>old DEF Register
  <2>2. \/ latest'.state = "CONTAINED" /\ fence' = latest'.epoch
        \/ UNCHANGED latest /\ latest.state # "RECOVERED" /\ fence' \in {fence, latest.epoch}
        \/ /\ latest.state = "RECOVERED" /\ fence' = NoEpoch /\ UNCHANGED <<latest, epoch>>
           /\ epoch = latest.epoch + 1
    BY <1>1, <1>ty, <1>lat, RegisterCases DEF RollbackUnfinished
  <2> QED
    BY <1>num, <1>lat, <1>old, <2>1, <2>2
<1>2. CASE RegisterInterrupted
  <2>1. UNCHANGED <<registered, halts, pc>> /\ pc = "idle" /\ ~registered
    BY <1>2 DEF RegisterInterrupted
  <2>2. \/ latest'.state = "CONTAINED" /\ fence' = latest'.epoch
        \/ latest'.state = "CONTAINED" /\ fence' = NoEpoch
        \/ UNCHANGED latest /\ fence' \in {fence, latest.epoch}
    <3>1. (\E o \in Offers : AbortsRecovery(o)) => fence = NoEpoch
      BY DEF AbortsRecovery
    <3> QED
      BY <1>2, <1>ty, <3>1, InterruptedCases DEF RollbackUnfinished
  <2> QED
    BY <1>lat, <1>old, <2>1, <2>2
<1>3. CASE Unregister \/ (\E S \in SUBSET Enforcers : Configure(S)) \/ Crash
  BY <1>3, <1>old DEF Unregister, Configure, Crash
<1>4. CASE DecideHalt \/ Halt
  BY <1>4, <1>old DEF DecideHalt, Halt
<1>5. CASE Reconcile \/ IssueRecoveryAuthorization
  BY <1>5, <1>old DEF Reconcile, IssueRecoveryAuthorization, BeginReconcile
<1>6. CASE ContainEnforcer \/ ReleaseEnforcer
  BY <1>6, <1>old DEF ContainEnforcer, ReleaseEnforcer, Visit
<1>7. CASE FinishReconcile \/ FinishRelease \/ ActivationFails \/ FinishRecontain
  BY <1>7, <1>old DEF FinishReconcile, FinishRelease, ActivationFails, FinishRecontain
<1>8. CASE BeginContain
  <2>1. state = "ACTIVE" /\ registered /\ pc = "idle"
    BY <1>8 DEF BeginContain
  <2>2. fence = NoEpoch /\ ~Contained
    BY <2>1 DEF IInv, AdmissionInv, DebtInv, Executable
  <2>3. latest = NoIncident \/ (latest.state = "RECOVERED" /\ latest.epoch + 1 < epoch + 1)
    BY <1>num, <1>lat, <1>old, <2>1, <2>2
  <2>4. /\ pc' = "fencing" /\ target' = epoch + 1 /\ fence' \in {NoEpoch, epoch + 1}
        /\ UNCHANGED <<latest, state, epoch, registered, halts>>
    BY <1>8, <2>2 DEF BeginContain
  <2> QED
    BY <1>num, <1>lat, <1>old, <2>1, <2>3, <2>4
<1>9. ASSUME NEW a \in auths, BeginRecover(a) PROVE OnceInv'
  BY <1>9, <1>old DEF BeginRecover
<1>10. CASE ContainRuntime
  BY <1>10, <1>num, <1>old DEF ContainRuntime
<1>11. CASE RecordIncident
  <2>1. CASE RecordContainment(target, epoch)
    <3>1. target \in Nat
      BY <1>11, <1>num DEF RecordIncident
    <3>2. /\ latest'.epoch = epoch /\ latest'.state = "CONTAINED"
      BY <1>num, <2>1, <3>1, RecordedForward
    <3> QED
      BY <1>11, <1>num, <1>old, <1>lat, <3>2 DEF RecordIncident
  <2>2. CASE UNCHANGED latest
    BY <1>11, <1>old, <2>2 DEF RecordIncident
  <2> QED
    BY <1>11, <2>1, <2>2 DEF RecordIncident
<1>12. CASE RecordProof \/ AttachProof \/ MarkRecovered \/ UndoIncident
  <2>1. /\ UNCHANGED <<fence, ids, state, epoch, registered, halts>>
        /\ latest'.id = latest.id /\ latest'.epoch = latest.epoch
        /\ latest' = NoIncident <=> latest = NoIncident
        /\ UNCHANGED latest \/ latest' # NoIncident
        /\ ~MarkRecovered => UNCHANGED latest \/ latest'.state \in ContainedStates
    BY <1>12, <1>ty, <1>num, Restated DEF Recovering, Releasing
  <2>2. CASE RecordProof
    <3>1. UNCHANGED latest \/ latest.state # "RECOVERED"
      <4> SUFFICES ASSUME latest.id = target, latest.state = "RECOVERED" PROVE FALSE
        BY <2>2 DEF RecordProof
      <4>1. latest # NoIncident /\ latest.id \in ids
        BY <1>lat DEF IdsInv
      <4>2. latest.id <= latest.epoch /\ latest.epoch + 1 < target
        BY <1>old, <2>2, <4>1 DEF IdsInv, RecordProof
      <4> QED
        BY <1>num, <1>lat, <2>2, <4>1, <4>2 DEF RecordProof
    <3>2. ~MarkRecovered
      BY <2>2 DEF RecordProof, MarkRecovered
    <3> QED
      BY <1>old, <1>lat, <2>1, <2>2, <3>1, <3>2 DEF RecordProof
  <2>3. CASE AttachProof
    <3>1. UNCHANGED <<pc, target>> /\ latest'.state = "CONTAINED" /\ latest.state # "RECOVERED"
      BY <1>ty, <1>lat, <2>3, LatestFacts DEF AttachProof
    <3> QED
      BY <1>old, <1>lat, <2>1, <3>1
  <2>4. CASE MarkRecovered
    BY <1>old, <1>num, <2>1, <2>4 DEF MarkRecovered, Recovering, Releasing
  <2>5. CASE UndoIncident
    BY <1>old, <1>num, <1>lat, <2>1, <2>5 DEF UndoIncident, MarkRecovered, Recovering
  <2> QED
    BY <1>12, <2>2, <2>3, <2>4, <2>5
<1>13. CASE Refence \/ UndoFence
  <2>1. target = latest.epoch /\ fence = NoEpoch
    BY <1>13, <1>num DEF Refence, UndoFence, Recovering, Releasing
  <2> QED
    BY <1>13, <1>num, <1>old, <2>1 DEF Refence, UndoFence
<1>14. CASE Activate
  <2>1. epoch = latest.epoch /\ fence = NoEpoch
    BY <1>14, <1>num DEF Activate, RuntimeRecoverable, Recovering, Releasing
  <2> QED
    BY <1>14, <1>num, <1>old, <2>1 DEF Activate
<1>15. CASE UNCHANGED vars
  BY <1>15, <1>old DEF vars
<1> QED
  BY <1>1, <1>2, <1>3, <1>4, <1>5, <1>6, <1>7, <1>8, <1>9, <1>10, <1>11, <1>12, <1>13, <1>14,
     <1>15 DEF Next, Step, Advance

\* However writes of the registries fail and whenever the process dies, a
\* containment on record can be registered again after a restart (control.py:
\* register).
THEOREM Readmission == Spec => []RestartAdmitsContained
<1>1. Init => IdsInv /\ OnceInv
  BY DEF Init, IdsInv, OnceInv, NoIncident
<1>2. IInv /\ IdsInv /\ OnceInv => RestartAdmitsContained
  <2> SUFFICES ASSUME IInv, IdsInv, OnceInv, setting \subseteq {"storage"}, ~registered,
                      fence # NoEpoch \/ Contained
               PROVE  /\ ~FenceConflicts
                      /\ IncidentMissing => fence \notin ids
                      /\ ~IncidentMissing => Accepts(Unsupplied, latest)
    BY DEF RestartAdmitsContained, RestartAdmits, Contained
  <2>1. /\ latest = NoIncident => ids = {} /\ latest.state = "NONE"
        /\ latest # NoIncident => latest.epoch \in Nat /\ \A i \in ids : i <= latest.epoch
        /\ "RECOVERED" \notin ContainedStates /\ "NONE" \notin ContainedStates
        /\ ids \subseteq Nat /\ (fence # NoEpoch => fence \in Nat)
    BY LatestFacts DEF IInv, TypeOK, IdsInv
  <2>2. fence # NoEpoch =>
          \/ latest = NoIncident
          \/ fence = latest.epoch
          \/ latest.state = "RECOVERED" /\ fence > latest.epoch + 1
    BY DEF OnceInv
  <2>3. ~FenceConflicts
    BY <2>1, <2>2 DEF FenceConflicts, IncidentMissing, RollbackUnfinished, RecoveryEpoch
  <2>4. IncidentMissing => fence \notin ids
    BY <2>1 DEF IncidentMissing, RecoveryEpoch
  <2>5. Accepts(Unsupplied, latest)
    BY <2>1, <2>2 DEF Accepts, Unsupplied, Contained
  <2> QED
    BY <2>3, <2>4, <2>5
<1> QED
  BY Invariance, <1>1, <1>2, IdsNext, OnceNext, PTL DEF Spec

(***************************************************************************)
(* Every operation ends                                                    *)
(***************************************************************************)

\* How far the step at hand is from the end of its operation
\* (control.py: contain, reconcile_containment, recover).
Rank(step) ==
  CASE step = "idle" -> 0
    [] step \in {"proving", "refencing", "recontaining", "reconciling", "authorizing"} -> 1
    [] step \in {"enforcing", "undo_incident"} -> 2
    [] step \in {"fencing", "undo_fence"} -> 3
    [] step = "activating" -> 4
    [] step = "admitting" -> 5
    [] step = "releasing" -> 6

\* More than the steps the operation still takes by itself: a stage visits at
\* most every enforcer before it gives way to a later one.
Left == Rank(pc) * (NumEnforcers + 1) + Cardinality(todo)

\* A sweep visits a finite number of enforcers, each of them once.
LEMMA SweepsAreFinite ==
  ASSUME NEW S \in SUBSET Enforcers
  PROVE  /\ Cardinality(S) \in 0..NumEnforcers
         /\ \A k \in S : Cardinality(S \ {k}) = Cardinality(S) - 1
<1>1. IsFiniteSet(Enforcers) /\ Cardinality(Enforcers) = NumEnforcers
  BY FS_Interval DEF Enforcers
<1>2. IsFiniteSet(S) /\ Cardinality(S) <= NumEnforcers
  BY <1>1, FS_Subset
<1> QED
  BY <1>2, FS_CardinalityType, FS_RemoveElement

\* Going to a later stage outweighs any sweep it starts.
LEMMA LaterIsNearer ==
  ASSUME NEW r \in 0..6, NEW q \in 0..6, q < r,
         NEW a \in 0..NumEnforcers, NEW b \in 0..NumEnforcers
  PROVE  q * (NumEnforcers + 1) + b < r * (NumEnforcers + 1) + a
<1>1. PICK m \in Nat : m = NumEnforcers + 1
  OBVIOUS
<1>2. q * m + m <= r * m
  <2>1. q \in {0, 1, 2, 3, 4, 5} /\ r \in {1, 2, 3, 4, 5, 6}
    OBVIOUS
  <2> QED
    BY <1>1, <2>1
<1>3. b < m /\ 0 <= a
  BY <1>1
<1>4. PICK x \in Nat, y \in Nat : x = q * m /\ y = r * m
  OBVIOUS
<1>5. x + b < y + a
  BY <1>1, <1>2, <1>3, <1>4
<1> QED
  BY <1>1, <1>4, <1>5

\* Each step of the thread that holds the service lock, whether its call or
\* its write succeeds or fails, ends the operation or brings it nearer its end.
LEMMA AdvanceIsNearer ==
  ASSUME IInv, TypeOK', Advance
  PROVE  pc' = "idle" \/ Left' < Left
<1> USE DEF operation, storage, runtime, service
<1>1. /\ todo \in SUBSET Enforcers /\ todo' \in SUBSET Enforcers
      /\ Cardinality(todo) \in 0..NumEnforcers /\ Cardinality(todo') \in 0..NumEnforcers
  BY SweepsAreFinite DEF IInv, TypeOK
<1>2. CASE ContainEnforcer \/ ReleaseEnforcer
  <2>1. PICK k \in todo : todo' = todo \ {k} /\ pc' = pc
    BY <1>2 DEF ContainEnforcer, ReleaseEnforcer, Visit, First, Final
  <2>2. Cardinality(todo') = Cardinality(todo) - 1
    BY <1>1, <2>1, SweepsAreFinite
  <2>3. Rank(pc) \in Int
    BY DEF IInv, TypeOK, PCs, Rank
  <2>4. PICK x \in Int : x = Rank(pc) * (NumEnforcers + 1)
    BY <2>3
  <2> QED
    BY <1>1, <2>1, <2>2, <2>4 DEF Left
<1>3. ASSUME NEW q \in 0..6, NEW r \in 0..6, q < r, Rank(pc) = r, Rank(pc') = q
      PROVE  Left' < Left
  BY <1>1, <1>3, LaterIsNearer DEF Left
<1>4. CASE ContainRuntime
  BY <1>3, <1>4 DEF ContainRuntime, Rank
<1>5. CASE RecordIncident
  BY <1>3, <1>5 DEF RecordIncident, Rank
<1>6. CASE FinishRelease
  BY <1>3, <1>6 DEF FinishRelease, Rank
<1>7. CASE MarkRecovered
  BY <1>3, <1>7 DEF MarkRecovered, Goto, Rank
<1>8. CASE ActivationFails
  BY <1>3, <1>8 DEF ActivationFails, Goto, Rank
<1>9. CASE UndoFence
  BY <1>3, <1>9 DEF UndoFence, Rank
<1>10. CASE UndoIncident
  BY <1>3, <1>10 DEF UndoIncident, Rank
<1>11. CASE RecordProof \/ FinishReconcile \/ Refence \/ Activate \/ FinishRecontain
  BY <1>11 DEF RecordProof, FinishReconcile, Refence, Activate, FinishRecontain, Return
<1> QED
  BY <1>2, <1>4, <1>5, <1>6, <1>7, <1>8, <1>9, <1>10, <1>11 DEF Advance

\* A step while an operation holds the service lock ends the operation, brings
\* it nearer its end, or leaves it and the enforcers it works on alone.
StepsToTheEnd ==
  pc # "idle" =>
    \/ pc' = "idle"
    \/ Advance /\ Left' < Left
    \/ ~Advance /\ UNCHANGED <<operation, active>>

\* However its writes and its calls of enforcers fail, and whatever is decided
\* or attached meanwhile, an operation is over after a number of its own steps
\* that is known when it begins: no failure makes it start over
\* (control.py: contain, reconcile_containment, recover).
THEOREM OperationsAreFinite == Spec => [][StepsToTheEnd]_vars
<1>1. IInv /\ IInv' /\ [Next]_vars => [StepsToTheEnd]_vars
  <2> SUFFICES ASSUME IInv, IInv', Next, pc # "idle", pc' # "idle"
               PROVE  \/ Advance /\ Left' < Left
                      \/ ~Advance /\ UNCHANGED <<operation, active>>
    BY DEF StepsToTheEnd
  <2>1. TypeOK' /\ Left \in Int
    <3>1. Cardinality(todo) \in Int
      BY SweepsAreFinite DEF IInv, TypeOK
    <3>2. Rank(pc) \in Int
      BY DEF IInv, TypeOK, PCs, Rank
    <3> QED
      BY <3>1, <3>2 DEF IInv, Left
  <2>2. CASE Advance
    BY <2>1, <2>2, AdvanceIsNearer
  <2>3. CASE ~Advance
    <3>1. DecideHalt \/ Halt \/ AttachProof
      BY <2>3 DEF Next, Step, Register, RegisterInterrupted, Unregister, Configure, BeginContain,
         Reconcile, IssueRecoveryAuthorization, BeginReconcile, BeginRecover, Begin, Crash, Return
    <3> QED
      BY <2>3, <3>1 DEF DecideHalt, Halt, AttachProof, operation, service
  <2> QED
    BY <2>2, <2>3
<1> QED
  BY Invariance, <1>1, PTL DEF Spec

=============================================================================
