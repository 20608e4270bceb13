----------------------- MODULE ExecutionLeasesProofs -----------------------
(***************************************************************************)
(* The invariant of ExecutionLeases is inductive, the safety properties    *)
(* follow from it, and the fence is what ExecutionFence promises, for any  *)
(* set of threads, credentials and connections.                            *)
(***************************************************************************)
EXTENDS ExecutionLeases, TLAPS

USE LeaseConstants

\* The fields of a lease handed out, and of the lease it is bound to.
LEMMA RuntimeLeaseType ==
  ASSUME NEW l \in CredentialLeases
  PROVE  RuntimeLease(l) \in Leases
  BY DEF CredentialLeases, Leases, RuntimeLease

\* Types are preserved by every step (runtime.py, gateway.py,
\* credentials.py, egress.py).
LEMMA NextType ==
  ASSUME TypeOK, [Next]_vars
  PROVE  TypeOK'
<1> USE DEF TypeOK, runtime, store, authority, worker, kept, controller, Goto,
            Leave, WorkerPCs, ControllerPCs, RuntimeStates, Holders
<1>cur. CurrentLease \in Leases
  BY DEF CurrentLease, Leases
<1>no. NoLease \in Leases
  BY DEF NoLease, Leases
<1>1. ASSUME NEW w \in Workers, AcquireLease(w) \/ Execute(w)
      PROVE  TypeOK'
  BY <1>1, <1>cur, <1>no DEF AcquireLease, Execute, TakeLease
<1>2. ASSUME NEW w \in Workers, ExecuteWithLease(w) \/ Authorize(w) \/ Evaluate(w)
      PROVE  TypeOK'
  BY <1>2 DEF ExecuteWithLease, Authorize, Evaluate
<1>3. ASSUME NEW w \in Workers, Halt(w) \/ HaltInside(w)
      PROVE  TypeOK'
  <2>1. CASE Halt(w)
    BY <2>1 DEF Halt, Fence, NewProof
  <2>2. CASE HaltInside(w)
    BY <2>2 DEF HaltInside, Fence, NewProof
  <2> QED BY <1>3, <2>1, <2>2
<1>4. ASSUME NEW w \in Workers, Start(w) \/ Finish(w)
      PROVE  TypeOK'
  <2>1. CASE Start(w)
    BY <2>1 DEF Start, LeaseValid
  <2>2. CASE Finish(w)
    BY <2>2 DEF Finish
  <2> QED BY <1>4, <2>1, <2>2
<1>5. ASSUME NEW w \in Workers, NEW c \in Credentials, Issue(w, c)
      PROVE  TypeOK'
  <2>1. /\ [id |-> c, epoch |-> epoch, proof |-> proof, at |-> gen]
             \in CredentialLeases
        /\ [id |-> c, epoch |-> cepoch[c], proof |-> 0, at |-> 0]
             \in CredentialLeases
    BY DEF CredentialLeases
  <2> QED BY <1>5, <2>1, RuntimeLeaseType DEF Issue, Hand
<1>6. ASSUME NEW w \in Workers, NEW l \in handed, Use(w, l)
      PROVE  TypeOK'
  BY <1>6, RuntimeLeaseType DEF Use
<1>7. ASSUME NEW w \in Workers, Used(w) \/ CallStore(w) \/ FinishCall(w)
      PROVE  TypeOK'
  BY <1>7 DEF Used, CallStore, FinishCall
<1>8. ASSUME NEW w \in Workers, RegisterConnection(w) \/ LockBroker(w)
                                \/ CheckExecutable(w)
      PROVE  TypeOK'
  BY <1>8 DEF RegisterConnection, LockBroker, CheckExecutable, GoBack
<1>9. ASSUME NEW w \in Workers, NEW k \in Connections, AddConnection(w, k)
      PROVE  TypeOK'
  BY <1>9 DEF AddConnection, GoBack
<1>10. ASSUME NEW c \in Credentials, Revoke(c)
       PROVE  TypeOK'
  BY <1>10 DEF Revoke, LeasesOf
<1>11. ASSUME NEW k \in Connections, UnregisterConnection(k)
       PROVE  TypeOK'
  BY <1>11 DEF UnregisterConnection
<1>12. CASE BeginContain \/ FenceRuntime
  <2>1. CASE BeginContain
    BY <2>1 DEF BeginContain
  <2>2. CASE FenceRuntime
    BY <2>2 DEF FenceRuntime, Fence, NewProof
  <2> QED BY <1>12, <2>1, <2>2
<1>13. CASE RevokeAll
  <2>1. \A c \in Credentials : cepoch[c] + 1 \in Nat
    BY DEF TypeOK
  <2>2. cepoch' \in [Credentials -> Nat]
    BY <1>13, <2>1 DEF RevokeAll
  <2>3. creds' \subseteq Credentials /\ handed' = handed /\ revoked' \subseteq handed
    BY <1>13 DEF RevokeAll, LeasesOf
  <2>4. swept' \subseteq {"credentials", "connections"} /\ cpc' \in ControllerPCs
    BY <1>13 DEF RevokeAll
  <2>5. UNCHANGED <<runtime, rt, st, eg, authority, conns, worker>>
    BY <1>13 DEF RevokeAll
  <2> QED BY <2>2, <2>3, <2>4, <2>5
<1>14. CASE TerminateAll
  BY <1>14 DEF TerminateAll
<1>15. CASE Recover
  BY <1>15 DEF Recover, NewProof
<1>16. ASSUME NEW e \in DurableEpochs, RestoreContained(e)
       PROVE  TypeOK'
  BY <1>16 DEF RestoreContained, NewProof
<1>17. CASE UNCHANGED vars
  BY <1>17 DEF vars
<1> QED
  BY <1>1, <1>2, <1>3, <1>4, <1>5, <1>6, <1>7, <1>8, <1>9, <1>10, <1>11,
     <1>12, <1>13, <1>14, <1>15, <1>16, <1>17 DEF Next, WorkerStep

\* Every step keeps the account of who holds which lock.
LEMMA NextLock ==
  ASSUME TypeOK, LockInv, [Next]_vars
  PROVE  LockInv'
<1> USE DEF LockInv, Acting, Registering, Holders, runtime, store, authority,
            worker, kept, controller
<1>pc. pc \in [Workers -> WorkerPCs] /\ rt \in Holders /\ st \in Holders
       /\ eg \in Holders
  BY DEF TypeOK
<1>1. ASSUME NEW w \in Workers, AcquireLease(w)
      PROVE  LockInv'
  BY <1>1 DEF AcquireLease, TakeLease
<1>2. ASSUME NEW w \in Workers,
             Execute(w) \/ ExecuteWithLease(w) \/ Authorize(w) \/ Evaluate(w)
             \/ Halt(w)
      PROVE  LockInv'
  <2>1. /\ rt # w /\ eg # w
        /\ st = w => ~Bound /\ ActInside
    BY <1>2, <1>pc DEF Execute, ExecuteWithLease, Authorize, Evaluate, Halt,
                       MayAct
  <2>2. PICK s \in {"authorizing", "evaluating", "starting", "halting",
                    IF st = w THEN "using" ELSE "idle"} :
          Goto(w, s)
    BY <1>2 DEF Execute, ExecuteWithLease, Authorize, Evaluate, Halt, Leave
  <2>3. UNCHANGED <<rt, st, eg>>
    BY <1>2 DEF Execute, ExecuteWithLease, Authorize, Evaluate, Halt
  <2>4. pc' = [pc EXCEPT ![w] = s]
    BY <2>2 DEF Goto
  <2> QED BY <1>pc, <2>1, <2>3, <2>4
<1>4. ASSUME NEW w \in Workers, Start(w)
      PROVE  LockInv'
  BY <1>4, <1>pc DEF Start, Goto, Leave
<1>5. ASSUME NEW w \in Workers, Finish(w)
      PROVE  LockInv'
  BY <1>5, <1>pc DEF Finish, Goto, Leave
<1>6. ASSUME NEW w \in Workers, HaltInside(w)
      PROVE  LockInv'
  BY <1>6, <1>pc DEF HaltInside, Goto
<1>7. ASSUME NEW w \in Workers, NEW l \in handed, Use(w, l)
      PROVE  LockInv'
  BY <1>7, <1>pc DEF Use, StoreFree, Goto
<1>8. ASSUME NEW w \in Workers, Used(w)
      PROVE  LockInv'
  BY <1>8, <1>pc DEF Used, Goto
<1>9. ASSUME NEW w \in Workers, RegisterConnection(w)
      PROVE  LockInv'
  BY <1>9, <1>pc DEF RegisterConnection, Goto, Nested, Inside
<1>10. ASSUME NEW w \in Workers, LockBroker(w)
       PROVE  LockInv'
  BY <1>10, <1>pc DEF LockBroker, Goto
<1>11. ASSUME NEW w \in Workers, CheckExecutable(w)
       PROVE  LockInv'
  BY <1>11, <1>pc DEF CheckExecutable, Goto, GoBack, Leave, Inside
<1>12. ASSUME NEW w \in Workers, NEW k \in Connections, AddConnection(w, k)
       PROVE  LockInv'
  BY <1>12, <1>pc DEF AddConnection, Goto, GoBack, Leave, Inside
<1>13. ASSUME UNCHANGED <<pc, rt, st, eg>>
       PROVE  LockInv'
  BY <1>13
<1>14. ASSUME NEW w \in Workers, NEW c \in Credentials, Issue(w, c)
       PROVE  LockInv'
  <2>1. /\ UNCHANGED <<rt, st, eg>>
        /\ pc' = [pc EXCEPT ![w] = IF pc[w] = "store" THEN "running" ELSE pc[w]]
        /\ pc[w] \in {"idle", "store", "using"}
        /\ st = w => pc[w] # "store"
    BY <1>14, <1>pc DEF Issue, Goto
  <2> QED BY <1>pc, <2>1
<1>3. ASSUME NEW w \in Workers, CallStore(w) \/ FinishCall(w)
      PROVE  LockInv'
  BY <1>3, <1>pc DEF CallStore, FinishCall, Goto, Nested, Inside
<1>15. ASSUME NEW c \in Credentials, Revoke(c)
       PROVE  UNCHANGED <<pc, rt, st, eg>>
  BY <1>15 DEF Revoke
<1>16. ASSUME NEW k \in Connections, UnregisterConnection(k)
       PROVE  UNCHANGED <<pc, rt, st, eg>>
  BY <1>16 DEF UnregisterConnection
<1>17. ASSUME BeginContain \/ FenceRuntime \/ RevokeAll \/ TerminateAll \/ Recover
       PROVE  UNCHANGED <<pc, rt, st, eg>>
  BY <1>17 DEF BeginContain, FenceRuntime, RevokeAll, TerminateAll, Recover
<1>18. ASSUME NEW e \in DurableEpochs, RestoreContained(e)
       PROVE  UNCHANGED <<pc, rt, st, eg>>
  BY <1>18 DEF RestoreContained
<1>19. UNCHANGED vars => UNCHANGED <<pc, rt, st, eg>>
  BY DEF vars
<1> QED
  BY <1>1, <1>2, <1>4, <1>5, <1>6, <1>7, <1>8, <1>9, <1>10, <1>11,
     <1>12, <1>13, <1>14, <1>3, <1>15, <1>16, <1>17, <1>18, <1>19
     DEF Next, WorkerStep

(***************************************************************************)
(* The runtime changes state by exactly these steps.                       *)
(***************************************************************************)
Rotation ==
  \/ \E w \in Workers : Halt(w) \/ HaltInside(w)
  \/ FenceRuntime \/ Recover
  \/ \E e \in DurableEpochs : RestoreContained(e)

\* Such a step makes a new proof and hands nothing out; it waits for the
\* runtime's lock, unless it is taken by the executor that has the lock.
LEMMA RotationFacts ==
  ASSUME Rotation
  PROVE  /\ gen' = gen + 1 /\ proof' = proof + 1
         /\ UNCHANGED <<rt, eg, issued, under, lease, granted, store, conns>>
         /\ rt = None \/ \E w \in Workers : HaltInside(w)
  BY DEF Rotation, Halt, HaltInside, FenceRuntime, Recover, RestoreContained,
         Fence, NewProof, store, authority, worker, kept, controller

\* Every other step leaves the runtime and the leases alone, or hands out a
\* lease of the current generation.
LEMMA OtherSteps ==
  ASSUME [Next]_vars, ~Rotation
  PROVE  /\ UNCHANGED runtime
         /\ \/ UNCHANGED <<issued, lease, handed>>
            \/ \E w \in Workers : AcquireLease(w) \/ Execute(w)
            \/ \E w \in Workers, c \in Credentials : Issue(w, c)
<1> USE DEF runtime, store, authority, worker, kept, controller
<1>1. ASSUME NEW w \in Workers, AcquireLease(w) \/ Execute(w)
      PROVE  UNCHANGED runtime
  BY <1>1 DEF AcquireLease, Execute
<1>2. ASSUME NEW w \in Workers, NEW c \in Credentials, Issue(w, c)
      PROVE  UNCHANGED runtime
  BY <1>2 DEF Issue
<1>3. ASSUME NEW w \in Workers,
             \/ ExecuteWithLease(w) \/ Authorize(w) \/ Evaluate(w) \/ Start(w)
             \/ Finish(w) \/ Used(w) \/ CallStore(w) \/ FinishCall(w)
             \/ RegisterConnection(w) \/ LockBroker(w) \/ CheckExecutable(w)
             \/ \E l \in handed : Use(w, l)
             \/ \E k \in Connections : AddConnection(w, k)
      PROVE  UNCHANGED <<runtime, issued, lease, handed>>
  BY <1>3 DEF ExecuteWithLease, Authorize, Evaluate, Start, Finish, Used,
              CallStore, FinishCall, RegisterConnection, LockBroker,
              CheckExecutable, Use, AddConnection
<1>4. ASSUME \/ BeginContain \/ RevokeAll \/ TerminateAll
             \/ \E c \in Credentials : Revoke(c)
             \/ \E k \in Connections : UnregisterConnection(k)
             \/ UNCHANGED vars
      PROVE  UNCHANGED <<runtime, issued, lease, handed>>
  BY <1>4 DEF BeginContain, RevokeAll, TerminateAll, Revoke,
              UnregisterConnection, vars
<1> QED
  BY <1>1, <1>2, <1>3, <1>4 DEF Next, WorkerStep, Rotation

\* A lease handed out stays good for exactly its own generation.
LEMMA NextLease ==
  ASSUME TypeOK, LeaseInv, [Next]_vars
  PROVE  LeaseInv'
<1>num. epoch \in Nat /\ proof \in Nat /\ gen \in Nat /\ issued \subseteq Leases
        /\ \A l \in Leases : l.at \in Nat
  BY DEF TypeOK, Leases
<1>1. CASE Rotation
  <2>1. /\ gen' = gen + 1 /\ proof' = proof + 1
        /\ issued' = issued /\ lease' = lease /\ handed' = handed
    BY <1>1, RotationFacts DEF store
  <2>2. \A l \in issued : l.at <= gen' /\ l.at # gen'
    BY <1>num, <2>1 DEF LeaseInv
  <2> QED BY <1>num, <2>1, <2>2 DEF LeaseInv
<1>2. CASE UNCHANGED runtime /\ UNCHANGED <<issued, lease, handed>>
  BY <1>2 DEF LeaseInv, runtime
<1>3. ASSUME UNCHANGED runtime, state = "ACTIVE",
             issued' = issued \cup {CurrentLease}
      PROVE  \A l \in issued' :
               /\ l.at <= gen'
               /\ l.proof = l.at + 1
               /\ l.at = gen' => l.epoch = epoch' /\ state' = "ACTIVE"
  BY <1>num, <1>3 DEF LeaseInv, runtime, CurrentLease
<1>4. ASSUME NEW w \in Workers, AcquireLease(w) \/ Execute(w)
      PROVE  LeaseInv'
  <2>1. UNCHANGED runtime /\ handed' = handed
    BY <1>4 DEF AcquireLease, Execute, store
  <2>2. CASE state = "ACTIVE"
    <3>1. /\ issued' = issued \cup {CurrentLease}
          /\ lease' = [lease EXCEPT ![w] = CurrentLease]
      BY <1>4, <2>2 DEF AcquireLease, Execute, TakeLease
    <3>2. \A v \in Workers : lease'[v] \in issued' \cup {NoLease}
      BY <3>1 DEF LeaseInv, TypeOK
    <3> QED BY <1>3, <2>1, <2>2, <3>1, <3>2 DEF LeaseInv, runtime
  <2>3. CASE state # "ACTIVE"
    <3>1. issued' = issued /\ lease' = [lease EXCEPT ![w] = NoLease]
      BY <1>4, <2>3 DEF AcquireLease, Execute, TakeLease
    <3>2. \A v \in Workers : lease'[v] \in issued' \cup {NoLease}
      BY <3>1 DEF LeaseInv, TypeOK
    <3> QED BY <2>1, <3>1, <3>2 DEF LeaseInv, runtime
  <2> QED BY <2>2, <2>3
<1>5. ASSUME NEW w \in Workers, NEW c \in Credentials, Issue(w, c)
      PROVE  LeaseInv'
  <2>1. UNCHANGED runtime /\ lease' = lease
    BY <1>5 DEF Issue, kept
  <2>2. CASE Bound
    <3> DEFINE l == [id |-> c, epoch |-> epoch, proof |-> proof, at |-> gen]
    <3>1. /\ issued' = issued \cup {RuntimeLease(l)} /\ handed' = handed \cup {l}
          /\ state = "ACTIVE"
      BY <1>5, <2>2 DEF Issue, Hand
    <3>2. RuntimeLease(l) = CurrentLease
      BY DEF RuntimeLease, CurrentLease
    <3> HIDE DEF l
    <3> QED BY <1>3, <2>1, <3>1, <3>2 DEF LeaseInv, runtime
  <2>3. CASE ~Bound
    <3>1. issued' = issued
      BY <1>5, <2>3 DEF Issue, Hand
    <3> QED BY <2>1, <2>3, <3>1 DEF LeaseInv, runtime
  <2> QED BY <2>2, <2>3
<1> QED
  BY <1>1, <1>2, <1>4, <1>5, OtherSteps

\* A lease a worker holds is of this generation or an earlier one, and good
\* only in the former case.
LEMMA HeldLease ==
  ASSUME TypeOK, LeaseInv, NEW w \in Workers
  PROVE  /\ lease[w].at \in Nat /\ lease[w].at <= gen
         /\ LeaseValid(lease[w]) => lease[w].at = gen
<1>1. gen \in Nat /\ proof = gen + 1
  BY DEF TypeOK, LeaseInv
<1>2. CASE lease[w] = NoLease
  BY <1>1, <1>2 DEF NoLease, LeaseValid
<1>3. CASE lease[w] \in issued
  <2>1. lease[w].at \in Nat
    BY <1>3 DEF TypeOK, Leases
  <2>2. lease[w].at <= gen /\ lease[w].proof = lease[w].at + 1
    BY <1>3 DEF LeaseInv
  <2> QED BY <1>1, <2>1, <2>2 DEF LeaseValid
<1> QED BY <1>2, <1>3 DEF LeaseInv

\* The gateway starts an action in the generation it was allowed in, and a
\* change of the runtime waits until it has ended.
LEMMA NextInFlight ==
  ASSUME TypeOK, LockInv, LeaseInv, GrantInv, InFlightIsAdmitted, [Next]_vars
  PROVE  GrantInv' /\ InFlightIsAdmitted'
<1> USE DEF runtime, store, authority, worker, kept, controller
<1>ty. /\ pc \in [Workers -> WorkerPCs] /\ lease \in [Workers -> Leases]
       /\ granted \in [Workers -> Nat] /\ gen \in Nat
       /\ \A v \in Workers : granted[v] \in Nat /\ lease[v].at \in Nat
  BY HeldLease DEF TypeOK
<1>none. rt = None => \A v \in Workers : rt # v
  OBVIOUS
<1>1. CASE Rotation
  <2>1. /\ gen' = gen + 1
        /\ UNCHANGED <<rt, lease, granted>>
        /\ rt = None \/ \E w \in Workers : HaltInside(w)
    BY <1>1, RotationFacts
  <2>2. \A v \in Workers : pc'[v] = "starting" => pc[v] = "starting"
    BY <1>1, <1>ty DEF Rotation, Halt, HaltInside, FenceRuntime, Recover,
                      RestoreContained, Goto, Leave
  <2>3. GrantInv'
    BY <1>ty, <2>1, <2>2 DEF GrantInv
  <2>4. ASSUME NEW w \in Workers, HaltInside(w)
        PROVE  rt = w /\ pc'[w] = "fenced_inside"
    BY <1>ty, <2>4 DEF HaltInside, Goto, LockInv
  <2>5. InFlightIsAdmitted'
    BY <1>none, <2>1, <2>4 DEF InFlightIsAdmitted, Inside, UsesBound
  <2> QED BY <2>3, <2>5
<1>2. ASSUME ~Rotation
      PROVE  UNCHANGED runtime
  BY <1>2, OtherSteps
<1>3. ASSUME NEW w \in Workers, AcquireLease(w) \/ Execute(w)
      PROVE  GrantInv' /\ InFlightIsAdmitted'
  <2>1. /\ rt = None /\ rt' = rt /\ granted' = granted
        /\ gen' = gen
        /\ \A v \in Workers \ {w} : lease'[v] = lease[v] /\ pc'[v] = pc[v]
        /\ pc'[w] # "starting"
    BY <1>3, <1>ty DEF AcquireLease, Execute, TakeLease, MayAct,
                       Goto
  <2> QED BY <1>none, <2>1 DEF GrantInv, InFlightIsAdmitted, Inside
<1>4. ASSUME NEW w \in Workers, Evaluate(w)
      PROVE  GrantInv' /\ InFlightIsAdmitted'
  <2>1. /\ pc[w] = "evaluating"
        /\ UNCHANGED <<rt, st, lease, state, epoch, proof, gen>>
        /\ \A v \in Workers \ {w} : granted'[v] = granted[v] /\ pc'[v] = pc[v]
        /\ granted'[w] \in {granted[w], gen}
        /\ pc'[w] = "starting" => granted'[w] = gen
    BY <1>4, <1>ty DEF Evaluate, Goto, Leave
  <2>2. rt # w
    BY <2>1 DEF LockInv, Registering
  <2>3. lease[w].at <= gen
    BY HeldLease
  <2>4. GrantInv'
    BY <1>ty, <2>1, <2>3 DEF GrantInv
  <2>5. InFlightIsAdmitted'
    BY <2>1, <2>2 DEF InFlightIsAdmitted, Inside, LeaseValid, UsesBound
  <2> QED BY <2>4, <2>5
<1>5. ASSUME NEW w \in Workers, Start(w)
      PROVE  GrantInv' /\ InFlightIsAdmitted'
  <2>1. /\ pc[w] = "starting" /\ rt = None
        /\ UNCHANGED <<lease, granted, state, epoch, proof, gen>>
        /\ \A v \in Workers \ {w} : pc'[v] = pc[v] /\ rt' # v
        /\ pc'[w] # "starting"
        /\ rt' = w => LeaseValid(lease[w])
    BY <1>5, <1>ty DEF Start, Goto, Leave
  <2>2. LeaseValid(lease[w]) => lease[w].at = gen /\ granted[w] = gen
    BY <1>ty, <2>1, HeldLease DEF GrantInv
  <2>3. GrantInv'
    BY <2>1 DEF GrantInv
  <2>4. InFlightIsAdmitted'
    BY <2>1, <2>2 DEF InFlightIsAdmitted, Inside, LeaseValid
  <2> QED BY <2>3, <2>4
<1>step. ASSUME NEW w \in Workers,
                /\ UNCHANGED <<lease, granted, state, epoch, proof, gen>>
                /\ \A v \in Workers \ {w} : /\ pc'[v] = pc[v]
                                            /\ rt' = v => rt = v
                                            /\ st' = v <=> st = v
                /\ pc'[w] # "starting"
                /\ \/ rt' # w
                   \/ rt = w /\ ~UsesBound(w) /\ pc[w] # "fenced_inside"
                   \/ UsesBound(w)'
         PROVE  GrantInv' /\ InFlightIsAdmitted'
  <2>1. GrantInv'
    BY <1>step DEF GrantInv
  <2>2. ASSUME NEW v \in Workers \ {w}
        PROVE  UsesBound(v)' <=> UsesBound(v)
    BY <1>step DEF UsesBound
  <2>3. InFlightIsAdmitted'
    BY <1>step, <2>2 DEF InFlightIsAdmitted, Inside, LeaseValid
  <2> QED BY <2>1, <2>3
<1> DEFINE Step(w) ==
      /\ UNCHANGED <<lease, granted, state, epoch, proof, gen>>
      /\ \A v \in Workers \ {w} : /\ pc'[v] = pc[v]
                                  /\ rt' = v => rt = v
                                  /\ st' = v <=> st = v
      /\ pc'[w] # "starting"
      /\ \/ rt' # w
         \/ rt = w /\ ~UsesBound(w) /\ pc[w] # "fenced_inside"
         \/ UsesBound(w)'
<1>6. ASSUME NEW w \in Workers, ExecuteWithLease(w) \/ Authorize(w) \/ Finish(w)
      PROVE  Step(w)
  <2>1. rt' # w
    BY <1>6, <1>none, <1>ty DEF ExecuteWithLease, Authorize, Finish
  <2> QED
    BY <1>6, <1>ty, <2>1 DEF ExecuteWithLease, Authorize, Finish, MayAct, Goto,
                             Leave
<1>11. ASSUME NEW w \in Workers, Used(w)
       PROVE  Step(w)
  BY <1>11, <1>ty DEF Used, Goto, UsesBound, LockInv
<1>12. ASSUME NEW w \in Workers, CallStore(w) \/ FinishCall(w)
       PROVE  Step(w)
  BY <1>12, <1>ty DEF CallStore, FinishCall, Goto, UsesBound, Nested, Inside,
                      LockInv, Registering, Acting
<1>13. ASSUME NEW w \in Workers, NEW c \in Credentials, Issue(w, c)
       PROVE  Step(w)
  BY <1>13, <1>ty DEF Issue, Goto, UsesBound, LockInv, Registering, Acting
<1>14. ASSUME NEW w \in Workers, NEW l \in handed, Use(w, l)
       PROVE  Step(w)
  BY <1>14, <1>ty DEF Use, StoreFree, Goto, UsesBound, LockInv
<1>15. ASSUME NEW w \in Workers, RegisterConnection(w) \/ LockBroker(w)
       PROVE  Step(w)
  BY <1>15, <1>ty DEF RegisterConnection, LockBroker, Goto, UsesBound, Nested,
                      Inside, LockInv, Registering, Acting
<1>16. ASSUME NEW w \in Workers, CheckExecutable(w)
       PROVE  Step(w)
  BY <1>16, <1>ty DEF CheckExecutable, GoBack, Leave, Goto, UsesBound, Inside,
                      LockInv, Registering, Acting
<1>17. ASSUME NEW w \in Workers, NEW k \in Connections, AddConnection(w, k)
       PROVE  Step(w)
  BY <1>17, <1>ty DEF AddConnection, GoBack, Leave, Goto, UsesBound, Inside,
                      LockInv, Registering, Acting
<1>7. ASSUME UNCHANGED <<pc, rt, st, lease, granted, state, epoch, proof, gen>>
      PROVE  GrantInv' /\ InFlightIsAdmitted'
  BY <1>7 DEF GrantInv, InFlightIsAdmitted, Inside, LeaseValid, UsesBound
<1>9. ASSUME \/ BeginContain \/ RevokeAll \/ TerminateAll
             \/ \E c \in Credentials : Revoke(c)
             \/ \E k \in Connections : UnregisterConnection(k)
             \/ UNCHANGED vars
      PROVE  UNCHANGED <<pc, rt, st, lease, granted, state, epoch, proof, gen>>
  BY <1>9 DEF BeginContain, RevokeAll, TerminateAll, Revoke,
              UnregisterConnection, vars
<1>10. ASSUME NEW w \in Workers, Step(w)
       PROVE  GrantInv' /\ InFlightIsAdmitted'
  BY <1>10, <1>step
<1> HIDE DEF Step
<1> QED
  BY <1>1, <1>3, <1>4, <1>5, <1>6, <1>7, <1>9, <1>10, <1>11, <1>12, <1>13,
     <1>14, <1>15, <1>16, <1>17 DEF Next, WorkerStep, Rotation

\* In a store without a runtime the epoch of a credential only grows, and
\* grows with every revocation.
LEMMA NextRevocation ==
  ASSUME TypeOK, RevocationInv, [Next]_vars
  PROVE  RevocationInv'
<1> USE DEF runtime, store, authority, worker, kept, controller
<1>b. SUFFICES ASSUME ~Bound
               PROVE  RevocationInv'
  BY DEF RevocationInv
<1>ty. /\ cepoch \in [Credentials -> Nat] /\ handed \subseteq CredentialLeases
       /\ revoked \subseteq handed
       /\ \A l \in handed : l.id \in Credentials /\ l.epoch \in Nat
       /\ \A c \in Credentials : cepoch[c] \in Nat
  BY DEF TypeOK, CredentialLeases
<1>1. ASSUME NEW w \in Workers, NEW c \in Credentials, Issue(w, c)
      PROVE  RevocationInv'
  <2> DEFINE l == [id |-> c, epoch |-> cepoch[c], proof |-> 0, at |-> 0]
  <2>1. handed' = handed \cup {l} /\ revoked' = revoked /\ cepoch' = cepoch
    BY <1>1, <1>b DEF Issue, Hand
  <2>2. l.id = c /\ l.epoch = cepoch[c]
    OBVIOUS
  <2> HIDE DEF l
  <2> QED BY <1>b, <1>ty, <2>1, <2>2 DEF RevocationInv
<1>2. ASSUME NEW c \in Credentials, Revoke(c)
      PROVE  RevocationInv'
  BY <1>2, <1>b, <1>ty DEF Revoke, LeasesOf, RevocationInv
<1>3. CASE RevokeAll
  <2>1. CASE UNCHANGED store
    BY <2>1 DEF RevocationInv
  <2>2. CASE ~UNCHANGED store
    <3>1. /\ \A c \in Credentials :
               cepoch'[c] = IF c \in creds THEN cepoch[c] + 1 ELSE cepoch[c]
          /\ revoked' = revoked \cup LeasesOf(creds) /\ handed' = handed
      BY <1>3, <2>2 DEF RevokeAll
    <3> QED BY <1>b, <1>ty, <3>1 DEF RevocationInv, LeasesOf
  <2> QED BY <2>1, <2>2
<1>4. ASSUME UNCHANGED <<cepoch, handed, revoked>>
      PROVE  RevocationInv'
  BY <1>4 DEF RevocationInv
<1>5. ASSUME NEW w \in Workers,
             \/ AcquireLease(w) \/ Execute(w) \/ ExecuteWithLease(w)
             \/ Authorize(w) \/ Evaluate(w) \/ Start(w) \/ Finish(w)
             \/ Used(w) \/ CallStore(w) \/ FinishCall(w)
             \/ RegisterConnection(w) \/ LockBroker(w)
             \/ CheckExecutable(w)
             \/ \E k \in Connections : AddConnection(w, k)
      PROVE  UNCHANGED store
  BY <1>5 DEF AcquireLease, Execute, ExecuteWithLease, Authorize, Evaluate,
              Start, Finish, Used, CallStore, FinishCall, RegisterConnection, LockBroker,
              CheckExecutable, AddConnection
<1>6. ASSUME NEW w \in Workers, NEW l \in handed, Use(w, l)
      PROVE  UNCHANGED store
  BY <1>6 DEF Use
<1>7. ASSUME \/ BeginContain \/ TerminateAll
             \/ \E k \in Connections : UnregisterConnection(k)
             \/ UNCHANGED vars
      PROVE  UNCHANGED store
  BY <1>7 DEF BeginContain, TerminateAll, UnregisterConnection, vars
<1>8. Rotation => UNCHANGED store
  BY RotationFacts
<1> QED
  BY <1>1, <1>2, <1>3, <1>4, <1>5, <1>6, <1>7, <1>8 DEF Next, WorkerStep, Rotation

\* What was swept stays swept: a registration is judged and entered under
\* the broker's lock, and a bound store issues to an ACTIVE runtime only.
LEMMA NextSweep ==
  ASSUME TypeOK, LockInv, SweepInv, SweptStaysEmpty, [Next]_vars
  PROVE  SweepInv' /\ SweptStaysEmpty'
<1> USE DEF runtime, store, authority, worker, kept, controller
<1>pc. pc \in [Workers -> WorkerPCs]
  BY DEF TypeOK
<1>1. ASSUME UNCHANGED <<state, cpc, swept>>,
             \A v \in Workers : pc'[v] = "adding" => pc[v] = "adding",
             conns' \subseteq conns,
             creds' \subseteq creds
      PROVE  SweepInv' /\ SweptStaysEmpty'
  BY <1>1 DEF SweepInv, SweptStaysEmpty
<1>2. ASSUME NEW w \in Workers,
             \/ AcquireLease(w) \/ Execute(w) \/ ExecuteWithLease(w)
             \/ Authorize(w) \/ Evaluate(w) \/ Start(w) \/ Finish(w)
             \/ Used(w) \/ CallStore(w) \/ FinishCall(w)
             \/ RegisterConnection(w) \/ LockBroker(w)
             \/ \E l \in handed : Use(w, l)
      PROVE  SweepInv' /\ SweptStaysEmpty'
  <2>1. UNCHANGED <<state, cpc, swept, conns, creds>>
    BY <1>2 DEF AcquireLease, Execute, ExecuteWithLease, Authorize, Evaluate,
                Start, Finish, Used, CallStore, FinishCall, RegisterConnection,
                LockBroker, Use
  <2>2. \A v \in Workers : pc'[v] = "adding" => pc[v] = "adding"
    BY <1>2, <1>pc DEF AcquireLease, Execute, ExecuteWithLease, Authorize,
       Evaluate, Start, Finish, Used, CallStore, FinishCall,
       RegisterConnection, LockBroker, Use, Goto, Leave
  <2> QED BY <1>1, <2>1, <2>2
<1>3. ASSUME NEW w \in Workers, Halt(w)
      PROVE  SweepInv' /\ SweptStaysEmpty'
  BY <1>3, <1>pc DEF Halt, Fence, Goto, Leave, SweepInv, SweptStaysEmpty
<1>4. ASSUME NEW w \in Workers, HaltInside(w)
      PROVE  SweepInv' /\ SweptStaysEmpty'
  BY <1>4, <1>pc DEF HaltInside, Fence, Goto, SweepInv, SweptStaysEmpty
<1>5. ASSUME NEW w \in Workers, NEW c \in Credentials, Issue(w, c)
      PROVE  SweepInv' /\ SweptStaysEmpty'
  BY <1>5, <1>pc DEF Issue, Hand, Goto, SweepInv, SweptStaysEmpty
<1>6. ASSUME NEW w \in Workers, CheckExecutable(w)
      PROVE  SweepInv' /\ SweptStaysEmpty'
  <2>1. UNCHANGED <<state, cpc, swept, conns, creds>>
    BY <1>6 DEF CheckExecutable
  <2>2. CASE state = "ACTIVE"
    BY <2>1, <2>2 DEF SweepInv, SweptStaysEmpty
  <2>3. CASE state # "ACTIVE"
    <3>1. \A v \in Workers : pc'[v] = "adding" => pc[v] = "adding"
      BY <1>6, <1>pc, <2>3 DEF CheckExecutable, GoBack, Leave, Goto
    <3> QED BY <1>1, <2>1, <3>1
  <2> QED BY <2>2, <2>3
<1>7. ASSUME NEW w \in Workers, NEW k \in Connections, AddConnection(w, k)
      PROVE  SweepInv' /\ SweptStaysEmpty'
  <2>1. pc[w] = "adding" /\ UNCHANGED <<state, cpc, swept, creds>>
    BY <1>7 DEF AddConnection
  <2>2. \A v \in Workers : pc'[v] = "adding" => pc[v] = "adding"
    BY <1>7, <1>pc DEF AddConnection, GoBack, Leave, Goto
  <2> QED BY <2>1, <2>2 DEF SweepInv, SweptStaysEmpty
<1>8. ASSUME NEW c \in Credentials, Revoke(c)
      PROVE  SweepInv' /\ SweptStaysEmpty'
  BY <1>1, <1>8 DEF Revoke
<1>9. ASSUME NEW k \in Connections, UnregisterConnection(k)
      PROVE  SweepInv' /\ SweptStaysEmpty'
  BY <1>1, <1>9 DEF UnregisterConnection
<1>10. CASE BeginContain
  BY <1>10 DEF BeginContain, SweepInv, SweptStaysEmpty
<1>11. CASE FenceRuntime
  BY <1>11 DEF FenceRuntime, Fence, SweepInv, SweptStaysEmpty
<1>12. CASE RevokeAll
  BY <1>12 DEF RevokeAll, SweepInv, SweptStaysEmpty
<1>13. CASE TerminateAll
  <2>1. \A v \in Workers : pc[v] # "adding"
    BY <1>13 DEF TerminateAll, LockInv
  <2> QED BY <1>13, <2>1 DEF TerminateAll, SweepInv, SweptStaysEmpty
<1>14. CASE Recover
  BY <1>14 DEF Recover, SweepInv, SweptStaysEmpty
<1>15. ASSUME NEW e \in DurableEpochs, RestoreContained(e)
       PROVE  SweepInv' /\ SweptStaysEmpty'
  BY <1>15 DEF RestoreContained, SweepInv, SweptStaysEmpty
<1>16. CASE UNCHANGED vars
  BY <1>1, <1>16 DEF vars
<1> QED
  BY <1>2, <1>3, <1>4, <1>5, <1>6, <1>7, <1>8, <1>9, <1>10, <1>11, <1>12,
     <1>13, <1>14, <1>15, <1>16 DEF Next, WorkerStep

\* An agent starts without leases, credentials or connections, and with
\* every lock free (runtime.py, credentials.py, egress.py: __init__).
LEMMA InitInv == Init => IInv
<1> SUFFICES ASSUME Init
             PROVE  IInv
  OBVIOUS
<1> USE DEF Init
<1>1. TypeOK
  BY DEF TypeOK, RuntimeStates, Holders, Leases, NoLease, WorkerPCs,
         ControllerPCs
<1>2. LockInv
  BY DEF LockInv
<1>3. LeaseInv
  BY DEF LeaseInv
<1>4. GrantInv /\ InFlightIsAdmitted
  BY DEF GrantInv, InFlightIsAdmitted, Inside
<1>5. RevocationInv /\ SweepInv /\ SweptStaysEmpty
  BY DEF RevocationInv, SweepInv, SweptStaysEmpty
<1> QED BY <1>1, <1>2, <1>3, <1>4, <1>5 DEF IInv

\* The invariant holds in every reachable state, for any set of threads
\* (runtime.py, gateway.py, credentials.py, egress.py).
THEOREM Invariance == Spec => []IInv
<1>1. IInv /\ [Next]_vars => IInv'
  BY NextType, NextLock, NextLease, NextInFlight, NextRevocation, NextSweep
     DEF IInv
<1> QED BY <1>1, InitInv, PTL DEF Spec

\* Every variable keeps its type (runtime.py, credentials.py, egress.py).
THEOREM TypeCorrect == Spec => []TypeOK
<1>1. IInv => TypeOK
  BY DEF IInv
<1> QED BY <1>1, Invariance, PTL

\* An effect of the gateway in flight was admitted in the generation it runs
\* in (gateway.py: execute_with_lease, execute; runtime.py:
\* execute_if_active).
THEOREM EffectsAreAdmitted == Spec => []InFlightIsAdmitted
<1>1. IInv => InFlightIsAdmitted
  BY DEF IInv
<1> QED BY <1>1, Invariance, PTL

\* Containment's sweep is not undone by a thread that was half-way through
\* (egress.py: register_connection, terminate_all; credentials.py: issue).
THEOREM SweepHolds == Spec => []SweptStaysEmpty
<1>1. IInv => SweptStaysEmpty
  BY DEF IInv
<1> QED BY <1>1, Invariance, PTL

\* In a store given its runtime, the fence alone makes every credential
\* lease of an earlier generation stale (credentials.py: valid;
\* runtime.py: lease_valid).
THEOREM BoundLeasesGoStale ==
  ASSUME Bound
  PROVE  Spec => []FenceStalesCredentials
<1>1. IInv => FenceStalesCredentials
  <2> SUFFICES ASSUME IInv, NEW l \in handed, l.at # gen
               PROVE  ~CredentialValid(l)
    BY DEF FenceStalesCredentials
  <2>1. RuntimeLease(l) \in issued /\ proof = gen + 1
    BY DEF IInv, LeaseInv
  <2>2. RuntimeLease(l).proof = RuntimeLease(l).at + 1
    BY <2>1 DEF IInv, LeaseInv
  <2>3. l.at \in Nat /\ gen \in Nat
    BY DEF IInv, TypeOK, CredentialLeases
  <2> QED BY <2>1, <2>2, <2>3 DEF CredentialValid, LeaseValid, RuntimeLease
<1> QED BY <1>1, Invariance, PTL

\* In a store without a runtime, a revoked lease is never accepted again
\* (credentials.py: revoke, revoke_all, valid).
THEOREM UnboundRevocationHolds ==
  ASSUME ~Bound
  PROVE  Spec => []RevokedIsDead
<1>1. IInv => RevokedIsDead
  <2> SUFFICES ASSUME IInv, NEW l \in revoked
               PROVE  ~CredentialValid(l)
    BY DEF RevokedIsDead
  <2>1. l.epoch < cepoch[l.id]
    BY DEF IInv, RevocationInv
  <2>2. l.epoch \in Nat /\ cepoch[l.id] \in Nat
    BY DEF IInv, TypeOK, CredentialLeases
  <2> QED BY <2>1, <2>2 DEF CredentialValid
<1> QED BY <1>1, Invariance, PTL

\* A circle holds the executor under the runtime's lock, which waits for the
\* broker's lock or for that of an unbound store.
LEMMA CircleShape ==
  ASSUME TypeOK, LockInv, NEW S \in SUBSET LockHolders, Circular(S)
  PROVE  /\ rt \in S
         /\ \A w \in S : \/ Blocker(w) = rt
                        \/ w = rt
                        \/ pc[w] = "broker"
         /\ "broker" \in {pc[w] : w \in S} =>
              eg \in S /\ pc[eg] = "checking" /\ Blocker(eg) = rt /\ eg # rt
         /\ \/ pc[rt] = "broker"
            \/ pc[rt] = "store" /\ st \in S /\ st # rt /\ ~Bound
<1>ty. /\ rt \in Holders /\ st \in Holders /\ eg \in Holders
       /\ S \subseteq {rt, st, eg} /\ S \subseteq Workers
       /\ \A w \in S : Waits(w) /\ Blocker(w) \in S
  BY DEF TypeOK, LockHolders, Holders, Circular
<1>1. ASSUME NEW w \in S, pc[w] = "broker"
      PROVE  eg \in S /\ pc[eg] = "checking" /\ Blocker(eg) = rt /\ eg # rt
             /\ rt \in S
  <2>1. Blocker(w) = eg
    BY <1>1 DEF Blocker
  <2>2. eg \in S /\ eg \in Workers /\ Waits(eg) /\ Blocker(eg) \in S
    BY <1>ty, <2>1
  <2>3. pc[eg] \in {"checking", "adding"}
    BY <2>2 DEF LockInv
  <2>4. pc[eg] = "checking" /\ Blocker(eg) = rt
    BY <2>2, <2>3 DEF Waits, Blocker
  <2> QED BY <2>2, <2>4 DEF Waits
<1>2. ASSUME NEW w \in S
      PROVE  \/ Blocker(w) = rt
             \/ pc[w] = "broker"
             \/ pc[w] = "store" /\ w = rt /\ Blocker(w) = st
  BY <1>ty, <1>2 DEF Blocker, Waits, LockInv
<1>3. rt \in S
  <2>1. PICK w \in S : TRUE
    BY DEF Circular
  <2> QED BY <1>ty, <1>1, <1>2, <2>1
<1>4. \/ pc[rt] = "broker"
      \/ pc[rt] = "store" /\ st \in S /\ st # rt
  BY <1>ty, <1>2, <1>3 DEF Waits
<1>5. ASSUME pc[rt] = "store", st \in S, st # rt
      PROVE  ~Bound
  BY <1>ty, <1>5 DEF LockInv, Acting, Registering
<1>6. \A w \in S : Blocker(w) = rt \/ w = rt \/ pc[w] = "broker"
  BY <1>2
<1>7. "broker" \in {pc[w] : w \in S} =>
        eg \in S /\ pc[eg] = "checking" /\ Blocker(eg) = rt /\ eg # rt
  BY <1>1
<1> QED BY <1>3, <1>4, <1>5, <1>6, <1>7

\* Threads wait for each other only in a circle through the runtime's lock:
\* an executor under it registers a connection, or calls an unbound store, and
\* the holder of the broker's or the store's lock wants the runtime's
\* (egress.py: register_connection; runtime.py: execute_if_active;
\* credentials.py: execute_if_valid).
THEOREM LocksAreOrdered == Spec => []CirclesPassTheRuntime
<1>1. IInv => CirclesPassTheRuntime
  <2> SUFFICES ASSUME TypeOK, LockInv, NEW S \in SUBSET LockHolders, Circular(S)
               PROVE  /\ rt # None
                      /\ pc[rt] = "broker" \/ (pc[rt] = "store" /\ ~Bound)
                      /\ \E w \in LockHolders \ {rt} : Blocker(w) = rt
                      /\ Bound => pc[eg] = "checking"
    BY DEF IInv, CirclesPassTheRuntime, Circle
  <2>1. CASE pc[rt] = "broker"
    <3>1. /\ rt \in S /\ eg \in S
          /\ pc[eg] = "checking" /\ Blocker(eg) = rt /\ eg # rt
      BY <2>1, CircleShape
    <3> QED BY <2>1, <3>1 DEF LockHolders
  <2>2. CASE pc[rt] = "store" /\ st \in S /\ st # rt /\ ~Bound
    <3>1. rt \in S /\ (Blocker(st) = rt \/ pc[st] = "broker")
      BY <2>2, CircleShape
    <3>2. CASE Blocker(st) = rt
      BY <2>2, <3>1, <3>2 DEF LockHolders
    <3>3. CASE pc[st] = "broker"
      <4>1. eg \in S /\ Blocker(eg) = rt /\ eg # rt
        BY <2>2, <3>3, CircleShape
      <4> QED BY <2>2, <3>1, <4>1 DEF LockHolders
    <3> QED BY <3>1, <3>2, <3>3
  <2> QED BY <2>1, <2>2, CircleShape
<1> QED BY <1>1, Invariance, PTL

(***************************************************************************)
(* A circle of locks needs executors that call what they run under.        *)
(***************************************************************************)

\* A thread that registers a connection is in no executor
\* (egress.py: register_connection called outside execute_if_active and
\* execute_if_valid).
RegisteringOutside == \A w \in Workers : pc[w] \in Registering => w \notin {rt, st}

\* Unless executors register connections themselves, nobody does so under the
\* runtime's lock or the store's.
LEMMA NextRegistering ==
  ASSUME TypeOK, LockInv, ~RegisterInside, RegisteringOutside, [Next]_vars
  PROVE  RegisteringOutside'
<1> USE DEF RegisteringOutside, Registering, runtime, store, authority, worker, kept,
            controller
<1>pc. pc \in [Workers -> WorkerPCs] /\ rt \in Holders /\ st \in Holders
  BY DEF TypeOK
<1>1. ASSUME NEW w \in Workers, NEW s \in WorkerPCs \ Registering,
             Goto(w, s), rt' \in {rt, w, None}, st' \in {st, w, None}
      PROVE  RegisteringOutside'
  BY <1>1, <1>pc DEF Goto, Holders
<1>2. ASSUME UNCHANGED <<pc, rt, st>>
      PROVE  RegisteringOutside'
  BY <1>2
<1>3. ASSUME NEW w \in Workers, AcquireLease(w)
      PROVE  RegisteringOutside'
  BY <1>2, <1>3 DEF AcquireLease
<1>4. ASSUME NEW w \in Workers,
             \/ Execute(w) \/ ExecuteWithLease(w) \/ Authorize(w) \/ Evaluate(w)
             \/ Halt(w) \/ Start(w) \/ Finish(w) \/ HaltInside(w)
             \/ \E c \in Credentials : Issue(w, c)
             \/ \E l \in handed : Use(w, l)
             \/ Used(w) \/ CallStore(w) \/ FinishCall(w)
             \/ \E k \in Connections : AddConnection(w, k)
      PROVE  RegisteringOutside'
  <2>1. PICK s \in WorkerPCs \ Registering : Goto(w, s)
    <3>1. CASE \/ Execute(w) \/ ExecuteWithLease(w) \/ Authorize(w) \/ Evaluate(w)
               \/ Halt(w) \/ Start(w) \/ Finish(w) \/ HaltInside(w)
      BY <3>1 DEF Execute, ExecuteWithLease, Authorize, Evaluate, Halt, Start,
         Finish, HaltInside, Leave, WorkerPCs
    <3>2. CASE \E c \in Credentials : Issue(w, c)
      BY <3>2 DEF Issue, WorkerPCs
    <3>3. CASE \/ \E l \in handed : Use(w, l)
               \/ Used(w) \/ CallStore(w) \/ FinishCall(w)
               \/ \E k \in Connections : AddConnection(w, k)
      BY <3>3 DEF Use, Used, CallStore, FinishCall, AddConnection, GoBack, Leave,
         WorkerPCs
    <3> QED BY <1>4, <3>1, <3>2, <3>3
  <2>2. rt' \in {rt, w, None} /\ st' \in {st, w, None}
    BY <1>4 DEF Execute, ExecuteWithLease, Authorize, Evaluate, Halt, Start, Finish,
       HaltInside, Issue, Use, Used, CallStore, FinishCall, AddConnection
  <2> QED BY <1>1, <2>1, <2>2
<1>5. ASSUME NEW w \in Workers, RegisterConnection(w)
      PROVE  RegisteringOutside'
  <2>1. w \notin {rt, st} /\ UNCHANGED <<rt, st>>
    BY <1>5 DEF RegisterConnection, LockInv, Acting
  <2> QED BY <1>5, <1>pc, <2>1 DEF RegisterConnection, Goto
<1>6. ASSUME NEW w \in Workers, LockBroker(w) \/ CheckExecutable(w)
      PROVE  RegisteringOutside'
  <2>1. pc[w] \in {"broker", "checking"} /\ UNCHANGED <<rt, st>>
    BY <1>6 DEF LockBroker, CheckExecutable
  <2>2. PICK s : Goto(w, s)
    BY <1>6 DEF LockBroker, CheckExecutable, GoBack, Leave
  <2> QED BY <1>pc, <2>1, <2>2 DEF Goto
<1>7. ASSUME \/ \E c \in Credentials : Revoke(c)
             \/ \E k \in Connections : UnregisterConnection(k)
             \/ BeginContain \/ FenceRuntime \/ RevokeAll \/ TerminateAll
             \/ Recover
             \/ \E e \in DurableEpochs : RestoreContained(e)
             \/ UNCHANGED vars
      PROVE  RegisteringOutside'
  BY <1>2, <1>7 DEF Revoke, UnregisterConnection, BeginContain, FenceRuntime, RevokeAll,
     TerminateAll, Recover, RestoreContained, vars
<1> QED
  BY <1>3, <1>4, <1>5, <1>6, <1>7 DEF Next, WorkerStep

\* As long as executors do not register connections themselves, and those of
\* an unbound store do not call the gateway, the locks of the runtime, the
\* store and the broker never deadlock, for any number of threads
\* (egress.py: register_connection; runtime.py: execute_if_active;
\* credentials.py: execute_if_valid; containment.py: contain).
THEOREM CallingOutsideIsSafe ==
  ASSUME ~RegisterInside, Bound \/ ~ActInside
  PROVE  Spec => []~Circle
<1>1. Init => RegisteringOutside
  BY DEF Init, RegisteringOutside, Registering
<1>2. IInv /\ RegisteringOutside /\ [Next]_vars => RegisteringOutside'
  BY NextRegistering DEF IInv
<1>3. IInv /\ RegisteringOutside => ~Circle
  <2> SUFFICES ASSUME TypeOK, LockInv, RegisteringOutside,
                      NEW S \in SUBSET LockHolders, Circular(S)
               PROVE  FALSE
    BY DEF IInv, Circle
  <2>1. rt \in S /\ rt \in Workers /\ S \subseteq Workers
    BY CircleShape DEF TypeOK, LockHolders, Holders
  <2>2. pc[rt] # "broker"
    BY <2>1 DEF RegisteringOutside, Registering
  <2>3. st \in S /\ st \in Workers /\ ~Bound
    BY <2>1, <2>2, CircleShape
  <2>4. pc[st] \in {"using", "using_inside"}
    BY <2>3 DEF LockInv, RegisteringOutside
  <2>5. Waits(st)
    BY <2>3 DEF Circular
  <2> QED BY <2>4, <2>5 DEF Waits, Blocker
<1> QED BY <1>1, <1>2, <1>3, Invariance, PTL DEF Spec

(***************************************************************************)
(* What makes a lease of a bound store acceptable again.                   *)
(***************************************************************************)

\* An issued credential has the epoch of every lease of this generation on it
\* (credentials.py: issue).
CurrentLeases ==
  \A l \in handed : l.at = gen /\ l.id \in creds => cepoch[l.id] = l.epoch

\* The steps that change what the store has issued, besides a rotation, which
\* leaves the store alone.
LEMMA StoreSteps ==
  ASSUME [Next]_vars, ~Rotation
  PROVE  \/ UNCHANGED store
         \/ \E w \in Workers, c \in Credentials : Issue(w, c)
         \/ \E c \in Credentials : Revoke(c)
         \/ RevokeAll
<1> USE DEF store, worker, kept, controller
<1>1. ASSUME NEW w \in Workers,
             \/ AcquireLease(w) \/ Execute(w) \/ ExecuteWithLease(w) \/ Authorize(w)
             \/ Evaluate(w) \/ Start(w) \/ Finish(w) \/ Used(w)
             \/ CallStore(w) \/ FinishCall(w)
             \/ RegisterConnection(w) \/ LockBroker(w) \/ CheckExecutable(w)
             \/ \E l \in handed : Use(w, l)
             \/ \E k \in Connections : AddConnection(w, k)
      PROVE  UNCHANGED store
  BY <1>1 DEF AcquireLease, Execute, ExecuteWithLease, Authorize, Evaluate, Start,
     Finish, Used, CallStore, FinishCall, RegisterConnection, LockBroker,
     CheckExecutable, Use, AddConnection
<1>2. ASSUME \/ BeginContain \/ TerminateAll
             \/ \E k \in Connections : UnregisterConnection(k)
             \/ UNCHANGED vars
      PROVE  UNCHANGED store
  BY <1>2 DEF BeginContain, TerminateAll, UnregisterConnection, vars
<1> QED BY <1>1, <1>2 DEF Next, WorkerStep, Rotation

\* A bound store hands leases out under the runtime's current epoch.
LEMMA NextCurrent ==
  ASSUME Bound, TypeOK, LeaseInv, CurrentLeases, [Next]_vars
  PROVE  CurrentLeases'
<1>ty. /\ cepoch \in [Credentials -> Nat] /\ gen \in Nat
       /\ \A l \in handed : l.id \in Credentials /\ l.at \in Nat
       /\ \A l \in handed : l.at <= gen /\ (l.at = gen => l.epoch = epoch)
  BY DEF TypeOK, CredentialLeases, LeaseInv, RuntimeLease
<1>1. CASE Rotation
  <2>1. gen' = gen + 1 /\ handed' = handed
    BY <1>1, RotationFacts DEF store
  <2> QED BY <1>ty, <2>1 DEF CurrentLeases
<1>2. CASE ~Rotation
  <2>1. gen' = gen
    BY <1>2, OtherSteps DEF runtime
  <2>2. ASSUME NEW w \in Workers, NEW c \in Credentials, Issue(w, c)
        PROVE  CurrentLeases'
    <3> DEFINE new == [id |-> c, epoch |-> epoch, proof |-> proof, at |-> gen]
    <3>1. /\ handed' = handed \cup {new} /\ creds' = creds \cup {c}
          /\ cepoch' = [cepoch EXCEPT ![c] = epoch]
      BY <2>2 DEF Issue, Hand
    <3>2. new.id = c /\ new.epoch = epoch
      OBVIOUS
    <3> HIDE DEF new
    <3> QED BY <1>ty, <2>1, <3>1, <3>2 DEF CurrentLeases
  <2>3. ASSUME NEW c \in Credentials, Revoke(c)
        PROVE  CurrentLeases'
    BY <1>ty, <2>1, <2>3 DEF Revoke, CurrentLeases
  <2>4. CASE RevokeAll
    BY <1>ty, <2>1, <2>4 DEF RevokeAll, CurrentLeases, store
  <2>5. CASE UNCHANGED store
    BY <2>1, <2>5 DEF store, CurrentLeases
  <2> QED BY <1>2, <2>2, <2>3, <2>4, <2>5, StoreSteps
<1> QED BY <1>1, <1>2

\* A lease that is not accepted becomes acceptable only when it is of the
\* runtime's present generation and its credential, revoked since, is issued
\* anew.
RevivedByReissue ==
  \A l \in handed :
    ~CredentialValid(l) /\ CredentialValid(l)' =>
      /\ UNCHANGED gen /\ l.at = gen
      /\ l.id \notin creds
      /\ \E w \in Workers : Issue(w, l.id)

\* In a store given its runtime, which takes the epoch of a lease from the
\* runtime and so may hand out the epoch of a revoked lease again, nothing but
\* issuing the same credential in the same generation revives a lease: neither
\* recovery nor restoration does (credentials.py: issue, valid; runtime.py:
\* recover, restore_contained).
THEOREM OnlyReissueRevives ==
  ASSUME Bound
  PROVE  Spec => [][RevivedByReissue]_vars
<1>1. Init => CurrentLeases
  BY DEF Init, CurrentLeases
<1>2. IInv /\ CurrentLeases /\ [Next]_vars => CurrentLeases'
  BY NextCurrent DEF IInv
<1>3. IInv /\ CurrentLeases /\ IInv' /\ [Next]_vars => [RevivedByReissue]_vars
  <2> SUFFICES ASSUME TypeOK, LeaseInv, LeaseInv', CurrentLeases, [Next]_vars,
                      NEW l \in handed, ~CredentialValid(l), CredentialValid(l)'
               PROVE  /\ UNCHANGED gen /\ l.at = gen
                      /\ l.id \notin creds
                      /\ \E w \in Workers : Issue(w, l.id)
    BY DEF IInv, RevivedByReissue
  <2>1. /\ gen \in Nat /\ l.at \in Nat /\ l.id \in Credentials
        /\ cepoch \in [Credentials -> Nat]
    BY DEF TypeOK, CredentialLeases
  <2>2. l.proof = l.at + 1 /\ l.at <= gen
    BY DEF LeaseInv, RuntimeLease
  <2>3. /\ l.epoch = epoch' /\ l.proof = proof' /\ state' = "ACTIVE" /\ proof' = gen' + 1
        /\ l.id \in creds' /\ l.epoch = cepoch'[l.id]
    BY DEF CredentialValid, LeaseValid, RuntimeLease, LeaseInv
  <2>4. ~Rotation
    <3>1. SUFFICES ASSUME gen' = gen + 1 PROVE FALSE
      BY RotationFacts
    <3> QED BY <2>1, <2>2, <2>3, <3>1
  <2>5. UNCHANGED runtime
    BY <2>4, OtherSteps
  <2>6. l.at = gen /\ UNCHANGED gen /\ ~(l.id \in creds /\ l.epoch = cepoch[l.id])
    <3>1. proof = gen + 1 /\ UNCHANGED gen /\ proof' = proof
      BY <2>5 DEF LeaseInv, runtime
    <3>2. l.at = gen
      BY <2>1, <2>2, <2>3, <3>1
    <3> QED BY <2>3, <2>5, <3>1, <3>2 DEF CredentialValid, LeaseValid, RuntimeLease, runtime
  <2>7. l.id \notin creds
    BY <2>6 DEF CurrentLeases
  <2>8. ASSUME NEW w \in Workers, NEW c \in Credentials, Issue(w, c)
        PROVE  c = l.id
    BY <2>3, <2>7, <2>8 DEF Issue
  <2>9. ASSUME NEW c \in Credentials, Revoke(c)
        PROVE  FALSE
    BY <2>3, <2>7, <2>9 DEF Revoke
  <2>10. ~RevokeAll
    BY <2>3, <2>7 DEF RevokeAll, store
  <2>11. ~UNCHANGED store
    BY <2>3, <2>7 DEF store
  <2> QED BY <2>4, <2>6, <2>7, <2>8, <2>9, <2>10, <2>11, StoreSteps
<1> QED BY <1>1, <1>2, <1>3, Invariance, PTL DEF Spec

(***************************************************************************)
(* Refinement.  The fence seen through ExecutionFence.                     *)
(***************************************************************************)
Open == state = "ACTIVE"
Live == {l \in issued : LeaseValid(l)}
Spent == {l \in issued : l.at # gen}

\* The leases that start an effect are those of the current generation.
LEMMA LiveAndSpent ==
  ASSUME TypeOK, LeaseInv
  PROVE  /\ \A l \in issued : LeaseValid(l) <=> l.at = gen
         /\ Live = issued \ Spent
         /\ ~Open => Live = {}
<1>1. \A l \in issued : l.at \in Nat /\ gen \in Nat
  BY DEF TypeOK, Leases
<1>2. \A l \in issued : LeaseValid(l) <=> l.at = gen
  BY <1>1 DEF LeaseInv, LeaseValid
<1> QED BY <1>2 DEF Live, Spent, Open, LeaseValid

\* A fresh runtime has handed out nothing (runtime.py: __init__).
LEMMA RefinedInit == Init => Promise!Init
  BY DEF Init, Promise!Init, Effects

\* A change of state closes the fence, reopens it, or finds it closed
\* (runtime.py: halt, contain, recover, restore_contained).
LEMMA RefinedRotation ==
  ASSUME TypeOK, LockInv, LeaseInv, InFlightIsAdmitted, Rotation
  PROVE  \/ /\ Open /\ Open' = FALSE
            /\ Spent' = Spent \cup Live /\ Live' = {}
            /\ \/ Effects = {} /\ Effects' = {}
               \/ \E x \in Effects : Effects' = {[x EXCEPT !.closed = TRUE]}
         \/ /\ ~Open /\ Effects = {} /\ Open' = TRUE
            /\ Live' = Live /\ Spent' = Spent /\ Effects' = Effects
         \/ /\ ~Open /\ ~Open'
            /\ Live' = Live /\ Spent' = Spent /\ Effects' = Effects
<1>1. /\ gen' = gen + 1
      /\ UNCHANGED <<rt, issued, under>>
      /\ rt = None \/ \E w \in Workers : HaltInside(w)
  BY RotationFacts
<1>2. \A l \in issued : l.at \in Nat /\ l.at <= gen /\ gen \in Nat
  BY DEF TypeOK, Leases, LeaseInv
<1>3. \A l \in issued : l.at # gen'
  BY <1>1, <1>2
<1>4. Spent' = issued /\ Live' = {}
  <2>1. Spent' = issued
    BY <1>1, <1>3 DEF Spent
  <2>2. \A l \in issued : l.proof # proof'
    BY <1>1, <1>2, <1>3, RotationFacts DEF LeaseInv
  <2>3. Live' = {}
    BY <1>1, <2>2 DEF Live, LeaseValid
  <2> QED BY <2>1, <2>3
<1>5. Spent' = Spent \cup Live
  BY <1>4, LiveAndSpent DEF Spent
<1>6. ~Open => Live' = Live /\ Spent' = Spent
  BY <1>4, <1>5, LiveAndSpent
<1>7. rt = None => Effects = {} /\ Effects' = {}
  BY <1>1 DEF Effects
<1>8. CASE Recover
  BY <1>4, <1>6, <1>7, <1>8 DEF Recover, Open
<1>9. ASSUME NEW w \in Workers, HaltInside(w)
      PROVE  Open /\ \E x \in Effects : Effects' = {[x EXCEPT !.closed = TRUE]}
  <2>1. pc[w] = "running" /\ rt = w
    BY <1>9 DEF HaltInside, LockInv
  <2>2. Open
    BY <2>1 DEF InFlightIsAdmitted, Inside, UsesBound, LockInv, Acting,
                LeaseValid, Open
  <2>3. Effects = {[by |-> w, lease |-> under, closed |-> FALSE]}
    BY <2>1 DEF Effects
  <2>4. Effects' = {[by |-> w, lease |-> under, closed |-> TRUE]}
    BY <1>1, <1>9, <2>1 DEF Effects, HaltInside, Goto, TypeOK
  <2> QED BY <2>2, <2>3, <2>4
<1>10. CASE ~Recover
  <2>1. Open' = FALSE
    BY <1>1, <1>10 DEF Rotation, Halt, HaltInside, FenceRuntime,
                       RestoreContained, Fence, Open
  <2> QED BY <1>1, <1>4, <1>5, <1>6, <1>7, <1>9, <2>1
<1> QED BY <1>8, <1>10

\* Handing out a lease adds a live one (runtime.py: acquire_lease,
\* issue_if_active).
LEMMA RefinedGrant ==
  ASSUME TypeOK, LeaseInv, state = "ACTIVE", UNCHANGED runtime,
         issued' = issued \cup {CurrentLease}
  PROVE  /\ Open /\ Open' = Open
         /\ Live \subseteq Live' /\ Live' \cap Spent = {}
         /\ Spent' = Spent
<1>1. gen' = gen /\ epoch' = epoch /\ proof' = proof /\ state' = state
  BY DEF runtime
<1>2. CurrentLease.at = gen
  BY DEF CurrentLease
<1>3. Spent' = Spent
  BY <1>1, <1>2 DEF Spent
<1>4. Live' = Live \cup {l \in {CurrentLease} : LeaseValid(l)}
  BY <1>1 DEF Live, LeaseValid
<1>5. Live' \cap Spent = {}
  BY <1>2, <1>4, LiveAndSpent DEF Spent
<1> QED BY <1>1, <1>3, <1>4, <1>5 DEF Open

\* A step that leaves the locks alone and fences nothing from within leaves
\* the effect in flight alone.
LEMMA SameEffect ==
  ASSUME TypeOK, UNCHANGED <<rt, under>>,
         \A v \in Workers : (pc'[v] = "fenced_inside") <=> (pc[v] = "fenced_inside")
  PROVE  Effects' = Effects
  BY DEF Effects, TypeOK, Holders

\* Steps that do not change the runtime start an effect under a live lease,
\* end one, or leave it alone (runtime.py: execute_if_active;
\* credentials.py: execute_if_valid).
LEMMA RefinedEffect ==
  ASSUME TypeOK, LockInv, LeaseInv, [Next]_vars, ~Rotation
  PROVE  \/ /\ \E w \in Workers, l \in Live :
                 /\ Effects = {}
                 /\ Effects' = {[by |-> w, lease |-> l, closed |-> FALSE]}
            /\ UNCHANGED issued
         \/ Effects' = {} /\ UNCHANGED issued
         \/ Effects' = Effects
<1> USE DEF store, authority, worker, kept, controller
<1>pc. pc \in [Workers -> WorkerPCs]
  BY DEF TypeOK
<1>1. ASSUME NEW w \in Workers, Start(w), rt' # rt
      PROVE  /\ \E l \in Live :
                  /\ Effects = {}
                  /\ Effects' = {[by |-> w, lease |-> l, closed |-> FALSE]}
             /\ UNCHANGED issued
  <2>1. /\ rt = None /\ LeaseValid(lease[w]) /\ rt' = w /\ under' = lease[w]
        /\ pc'[w] = "running" /\ UNCHANGED issued
    BY <1>1, <1>pc DEF Start, Goto
  <2>2. lease[w] # NoLease
    BY <2>1 DEF LeaseInv, LeaseValid, NoLease, TypeOK
  <2>3. lease[w] \in Live
    BY <2>1, <2>2 DEF LeaseInv, Live
  <2> QED BY <2>1, <2>3 DEF Effects
<1>2. ASSUME NEW w \in Workers, NEW l \in handed, Use(w, l), Bound, pc[w] = "idle"
      PROVE  /\ \E m \in Live :
                  /\ Effects = {}
                  /\ Effects' = {[by |-> w, lease |-> m, closed |-> FALSE]}
             /\ UNCHANGED issued
  <2>1. /\ rt \in {None, w} /\ LeaseValid(RuntimeLease(l))
        /\ rt' = w /\ under' = RuntimeLease(l)
        /\ pc'[w] = "using" /\ UNCHANGED issued
    BY <1>2, <1>pc DEF Use, StoreFree, CredentialValid, Goto
  <2>2. rt = None
    BY <1>2, <2>1 DEF LockInv, Registering
  <2>3. RuntimeLease(l) \in Live
    BY <1>2, <2>1 DEF LeaseInv, Live
  <2> QED BY <2>1, <2>2, <2>3 DEF Effects
<1>3. ASSUME NEW w \in Workers, NEW l \in handed, Use(w, l),
             ~(Bound /\ pc[w] = "idle")
      PROVE  Effects' = Effects
  BY <1>3, <1>pc, SameEffect DEF Use, Goto
<1>4. ASSUME NEW w \in Workers, Finish(w)
      PROVE  Effects' = {} /\ UNCHANGED issued
  BY <1>4 DEF Finish, Effects
<1>5. ASSUME NEW w \in Workers, Used(w)
      PROVE  (Effects' = {} /\ UNCHANGED issued) \/ Effects' = Effects
  <2>1. CASE rt' = None
    BY <1>5, <2>1 DEF Used, Effects
  <2>2. CASE rt' # None
    <3>1. UNCHANGED <<rt, under>>
      BY <1>5, <2>2 DEF Used
    <3> QED BY <1>5, <1>pc, <3>1, SameEffect DEF Used, Goto
  <2> QED BY <2>1, <2>2
<1>6. ASSUME NEW w \in Workers, Start(w), rt' = rt
      PROVE  Effects' = Effects
  BY <1>6, <1>pc, SameEffect DEF Start, Goto, Leave
<1>7. ASSUME NEW w \in Workers,
             \/ AcquireLease(w) \/ Execute(w) \/ ExecuteWithLease(w)
             \/ Authorize(w) \/ Evaluate(w)
             \/ \E c \in Credentials : Issue(w, c)
      PROVE  Effects' = Effects
  BY <1>7, <1>pc, SameEffect DEF AcquireLease, Execute, ExecuteWithLease,
     Authorize, Evaluate, Issue, MayAct, Goto, Leave
<1>8. ASSUME NEW w \in Workers,
             \/ RegisterConnection(w) \/ LockBroker(w) \/ CheckExecutable(w)
             \/ CallStore(w) \/ FinishCall(w)
             \/ \E k \in Connections : AddConnection(w, k)
      PROVE  Effects' = Effects
  BY <1>8, <1>pc, SameEffect DEF RegisterConnection, LockBroker,
     CheckExecutable, CallStore, FinishCall, AddConnection, Goto, GoBack, Leave
<1>9. ASSUME \/ BeginContain \/ RevokeAll \/ TerminateAll
             \/ \E c \in Credentials : Revoke(c)
             \/ \E k \in Connections : UnregisterConnection(k)
             \/ UNCHANGED vars
      PROVE  Effects' = Effects
  BY <1>9, SameEffect DEF BeginContain, RevokeAll, TerminateAll, Revoke,
     UnregisterConnection, vars
<1> QED
  BY <1>1, <1>2, <1>3, <1>4, <1>5, <1>6, <1>7, <1>8, <1>9
     DEF Next, WorkerStep, Rotation

\* A step that hands out a lease does so for an ACTIVE runtime; the others
\* do not touch the leases (runtime.py: acquire_lease, issue_if_active).
LEMMA IssuedSteps ==
  ASSUME [Next]_vars, ~Rotation, ~UNCHANGED issued
  PROVE  /\ state = "ACTIVE" /\ UNCHANGED runtime
         /\ issued' = issued \cup {CurrentLease}
<1>1. \/ \E w \in Workers : AcquireLease(w) \/ Execute(w)
      \/ \E w \in Workers, c \in Credentials : Issue(w, c)
  BY OtherSteps
<1>2. ASSUME NEW w \in Workers, AcquireLease(w) \/ Execute(w)
      PROVE  /\ state = "ACTIVE" /\ UNCHANGED runtime
             /\ issued' = issued \cup {CurrentLease}
  BY <1>2 DEF AcquireLease, Execute, TakeLease, runtime
<1>3. ASSUME NEW w \in Workers, NEW c \in Credentials, Issue(w, c)
      PROVE  /\ state = "ACTIVE" /\ UNCHANGED runtime
             /\ issued' = issued \cup {CurrentLease}
  BY <1>3 DEF Issue, Hand, RuntimeLease, CurrentLease, runtime
<1> QED BY <1>1, <1>2, <1>3

\* The runtime, the gateway and the credential store keep the promise of
\* the fence: every effect starts with a live lease and beside no other, a
\* fence waits for the effect of another thread, and spent leases stay so
\* (runtime.py: execute_if_active, halt, contain, recover).
THEOREM Implementation == Spec => ImplementsFence
<1>1. IInv /\ [Next]_vars => [Promise!Next]_(Promise!vars)
  <2> SUFFICES ASSUME IInv, [Next]_vars
               PROVE  [Promise!Next]_(Promise!vars)
    OBVIOUS
  <2>1. TypeOK /\ LockInv /\ LeaseInv /\ InFlightIsAdmitted
    BY DEF IInv
  <2> USE DEF Promise!Next, Promise!vars
  <2>2. CASE Rotation
    BY <2>1, <2>2, RefinedRotation
       DEF Promise!Close, Promise!CloseWithin, Promise!Spend, Promise!Reopen,
           Open, Live, Spent
  <2>3. CASE ~Rotation /\ UNCHANGED issued
    <3>1. UNCHANGED <<Open, Live, Spent>>
      BY <2>3, OtherSteps DEF runtime, Open, Live, Spent, LeaseValid
    <3> QED BY <2>1, <2>3, <3>1, RefinedEffect
               DEF Promise!Start, Promise!Finish, Open, Live, Spent
  <2>4. CASE ~Rotation /\ ~UNCHANGED issued
    <3>1. /\ state = "ACTIVE" /\ UNCHANGED runtime
          /\ issued' = issued \cup {CurrentLease}
      BY <2>4, IssuedSteps
    <3>2. Effects' = Effects
      BY <2>1, <2>4, RefinedEffect
    <3> QED BY <2>1, <3>1, <3>2, RefinedGrant
               DEF Promise!Grant, Open, Live, Spent
  <2> QED BY <2>2, <2>3, <2>4
<1> QED BY <1>1, RefinedInit, Invariance, PTL DEF Spec, ImplementsFence, Promise!Spec
=============================================================================
