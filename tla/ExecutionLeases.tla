-------------------------- MODULE ExecutionLeases --------------------------
(***************************************************************************)
(* How the threads of one agent act: Runtime's execution leases, the       *)
(* ActionGateway, the CredentialStore and the EgressController, while a    *)
(* controller contains, recovers or restores the runtime.                  *)
(*                                                                         *)
(* Each of the runtime, the store and the broker has a re-entrant lock; a  *)
(* variable names its holder.  A section that takes one lock and calls     *)
(* nothing is a single step enabled when the lock is free.  Callbacks run  *)
(* under the locks and are made of several steps.  The containment         *)
(* controller is called under the service lock, so one thread, `cpc',      *)
(* stands for all its callers.                                             *)
(***************************************************************************)
EXTENDS Integers

CONSTANTS
  Workers,          \* threads that act for the agent
  Credentials,      \* credential ids
  Connections,      \* connection ids
  None,             \* nobody holds the lock
  Bound,            \* the credential store was given the runtime
  RevocationFails,  \* may the credential backend refuse to revoke?
  RegisterInside,   \* do executors register connections themselves?
  ActInside,        \* do executors of an unbound store call the gateway?
  DurableEpochs,    \* bound: epochs a runtime may be restored at
  MaxFences,        \* bound: no fence begins at or above this many changes
  MaxRecovered,     \* bound: nor a recovery at or above this many
  MaxRevoked        \* bound: a credential's epoch below which it is revoked

ASSUME LeaseConstants ==
  /\ None \notin Workers
  /\ Bound \in BOOLEAN
  /\ RevocationFails \in BOOLEAN
  /\ RegisterInside \in BOOLEAN
  /\ ActInside \in BOOLEAN
  /\ DurableEpochs \subseteq Nat
  /\ MaxFences \in Nat
  /\ MaxRecovered \in Nat
  /\ MaxRevoked \in Nat

VARIABLES
  state, epoch,     \* the runtime
  proof,            \* the runtime's lease proof object, numbered by creation
  gen,              \* history: how often the runtime changed state
  rt, st, eg,       \* holders of the runtime, store and broker locks
  issued,           \* history: runtime leases handed out
  under,            \* history: the lease the last effect started with
  creds, cepoch,    \* the credential store
  handed, revoked,  \* history: credential leases handed out, and revoked
  conns,            \* registered connections of the agent
  pc, lease,        \* per worker: next step, execution lease it holds
  granted,          \* history, per worker: gen when the policy allowed it
  cpc,              \* next step of the containment controller
  swept             \* history: what containment swept since the recovery

runtime == <<state, epoch, proof, gen>>
store == <<creds, cepoch, handed, revoked>>
authority == <<issued, under>>
kept == <<lease, granted>>
worker == <<pc, kept>>
controller == <<cpc, swept>>
vars == <<state, epoch, proof, gen, rt, st, eg, issued, under, creds, cepoch,
          handed, revoked, conns, pc, lease, granted, cpc, swept>>

(***************************************************************************)
(* `at' is history: the generation in which the lease was handed out.      *)
(* Proof 0 is Python's None, carried by leases no runtime has signed,      *)
(* which belong to no generation.                                          *)
(***************************************************************************)
Leases == [epoch : Nat, proof : Nat, at : Nat]
CredentialLeases == [id : Credentials, epoch : Nat, proof : Nat, at : Nat]
NoLease == [epoch |-> 0, proof |-> 0, at |-> 0]
RuntimeLease(l) == [epoch |-> l.epoch, proof |-> l.proof, at |-> l.at]

Holders == Workers \cup {None}
RuntimeStates == {"ACTIVE", "HALTED", "CONTAINED"}
WorkerPCs == {"idle", "authorizing", "evaluating", "starting", "halting",
              "running", "fenced_inside", "store", "using", "using_inside",
              "broker", "checking", "adding"}
ControllerPCs == {"idle", "fencing", "revoking", "terminating"}

TypeOK ==
  /\ state \in RuntimeStates /\ epoch \in Nat /\ proof \in Nat /\ gen \in Nat
  /\ rt \in Holders /\ st \in Holders /\ eg \in Holders
  /\ issued \subseteq Leases /\ under \in Leases
  /\ creds \subseteq Credentials /\ cepoch \in [Credentials -> Nat]
  /\ handed \subseteq CredentialLeases /\ revoked \subseteq handed
  /\ conns \subseteq Connections
  /\ pc \in [Workers -> WorkerPCs]
  /\ lease \in [Workers -> Leases]
  /\ granted \in [Workers -> Nat]
  /\ cpc \in ControllerPCs
  /\ swept \subseteq {"credentials", "connections"}

Init ==
  /\ state = "ACTIVE" /\ epoch = 0 /\ proof = 1 /\ gen = 0
  /\ rt = None /\ st = None /\ eg = None
  /\ issued = {} /\ under = NoLease
  /\ creds = {} /\ cepoch = [c \in Credentials |-> 0]
  /\ handed = {} /\ revoked = {}
  /\ conns = {}
  /\ pc = [w \in Workers |-> "idle"]
  /\ lease = [w \in Workers |-> NoLease]
  /\ granted = [w \in Workers |-> 0]
  /\ cpc = "idle" /\ swept = {}

Goto(w, s) == pc' = [pc EXCEPT ![w] = s]

\* An executor holds the runtime lock, so w is inside one when it has it.
Inside(w) == rt = w

\* Calls nest one deep: an executor that another executor led to calls
\* nothing itself, except that its gateway may halt the runtime.
Nested(w) == Inside(w) /\ st = w

\* An executor of an unbound store holds the store's lock only, so it may
\* call the gateway as a thread from outside does.
MayAct(w) == pc[w] = "idle" \/ (pc[w] = "using" /\ ~Bound /\ ActInside)
Leave(w) == Goto(w, IF st = w THEN "using" ELSE "idle")
GoBack(w) ==
  IF Inside(w) /\ st # w THEN Goto(w, "running") ELSE Leave(w)

(***************************************************************************)
(* Runtime.                                                                *)
(***************************************************************************)
LeaseValid(l) ==
  /\ l.epoch = epoch
  /\ l.proof = proof
  /\ state = "ACTIVE"

\* Every change of state makes a new proof object.
NewProof ==
  /\ proof' = proof + 1
  /\ gen' = gen + 1

\* halt and contain
Fence(s) ==
  /\ state' = s
  /\ epoch' = epoch + 1
  /\ NewProof

CurrentLease == [epoch |-> epoch, proof |-> proof, at |-> gen]

(***************************************************************************)
(* Gateway.  acquire_lease, execute_with_lease and execute_egress, whose   *)
(* leases are the same, and execute, which acquires its own.               *)
(***************************************************************************)
TakeLease(w) ==
  /\ rt = None
  /\ IF state = "ACTIVE"
     THEN /\ lease' = [lease EXCEPT ![w] = CurrentLease]
          /\ issued' = issued \cup {CurrentLease}
     ELSE /\ lease' = [lease EXCEPT ![w] = NoLease]
          /\ UNCHANGED issued

AcquireLease(w) ==
  /\ MayAct(w)
  /\ TakeLease(w)
  /\ UNCHANGED <<runtime, rt, st, eg, under, store, conns, pc, granted,
                 controller>>

\* Without a lease, execute still asks for the decision.
Execute(w) ==
  /\ MayAct(w)
  /\ TakeLease(w)
  /\ Goto(w, "authorizing")
  /\ UNCHANGED <<runtime, rt, st, eg, under, store, conns, granted,
                 controller>>

ExecuteWithLease(w) ==
  /\ MayAct(w)
  /\ rt = None
  /\ LeaseValid(lease[w])
  /\ Goto(w, "authorizing")
  /\ UNCHANGED <<runtime, rt, st, eg, authority, store, conns, kept,
                 controller>>

Authorize(w) ==
  /\ pc[w] = "authorizing"
  /\ rt = None
  /\ IF state = "ACTIVE" THEN Goto(w, "evaluating") ELSE Leave(w)
  /\ UNCHANGED <<runtime, rt, st, eg, authority, store, conns, kept,
                 controller>>

\* The policy's answer: ALLOW, HALT, or anything else.
Evaluate(w) ==
  /\ pc[w] = "evaluating"
  /\ \/ /\ IF lease[w] = NoLease THEN Leave(w) ELSE Goto(w, "starting")
        /\ granted' = [granted EXCEPT ![w] = gen]
     \/ /\ gen < MaxFences
        /\ Goto(w, "halting")
        /\ UNCHANGED granted
     \/ /\ Leave(w)
        /\ UNCHANGED granted
  /\ UNCHANGED <<runtime, rt, st, eg, authority, store, conns, lease,
                 controller>>

Halt(w) ==
  /\ pc[w] = "halting"
  /\ rt = None
  /\ Fence("HALTED")
  /\ Leave(w)
  /\ UNCHANGED <<rt, st, eg, authority, store, conns, kept, controller>>

\* Slip: only the state is checked under the lock, as authorize did.
SlipStart(w) ==
  /\ pc[w] = "starting"
  /\ rt = None
  /\ IF state = "ACTIVE"
     THEN Goto(w, "running") /\ rt' = w /\ under' = lease[w]
     ELSE Leave(w) /\ UNCHANGED <<rt, under>>
  /\ UNCHANGED <<runtime, st, eg, issued, store, conns, kept, controller>>

\* execute_if_active: the executor runs with the lock held.
Start(w) ==
  /\ pc[w] = "starting"
  /\ rt = None
  /\ IF LeaseValid(lease[w])
     THEN Goto(w, "running") /\ rt' = w /\ under' = lease[w]
     ELSE Leave(w) /\ UNCHANGED <<rt, under>>
  /\ UNCHANGED <<runtime, st, eg, issued, store, conns, kept, controller>>

\* The executor returns or raises.
Finish(w) ==
  /\ pc[w] \in {"running", "fenced_inside"}
  /\ rt' = None
  /\ Leave(w)
  /\ UNCHANGED <<runtime, st, eg, authority, store, conns, kept, controller>>

\* The lock is re-entrant: an executor whose own nested action is judged
\* HALT fences the runtime it runs on, and goes on.
HaltInside(w) ==
  /\ pc[w] = "running"
  /\ gen < MaxFences
  /\ Fence("HALTED")
  /\ Goto(w, "fenced_inside")
  /\ UNCHANGED <<rt, st, eg, authority, store, conns, kept, controller>>

(***************************************************************************)
(* CredentialStore.  A bound store takes the runtime's lock first, and     *)
(* nobody else holds its own meanwhile, so taking both is one step.  An    *)
(* executor of the gateway that calls an unbound store waits for its lock  *)
(* with the runtime's in hand.                                             *)
(***************************************************************************)
StoreFree(w) == st \in {None, w} /\ (Bound => rt \in {None, w})

CallStore(w) ==
  /\ pc[w] = "running"
  /\ ~Nested(w)
  /\ Goto(w, "store")
  /\ UNCHANGED <<runtime, rt, st, eg, authority, store, conns, kept,
                 controller>>

\* valid, or execute_if_valid of a lease that is not
FinishCall(w) ==
  /\ pc[w] = "store"
  /\ StoreFree(w)
  /\ Goto(w, "running")
  /\ UNCHANGED <<runtime, rt, st, eg, authority, store, conns, kept,
                 controller>>

Hand(l) ==
  /\ handed' = handed \cup {l}
  /\ issued' = IF Bound THEN issued \cup {RuntimeLease(l)} ELSE issued

Issue(w, c) ==
  /\ pc[w] \in {"idle", "store", "using"}
  /\ StoreFree(w)
  /\ Bound => state = "ACTIVE"
  /\ creds' = creds \cup {c}
  /\ IF Bound
     THEN /\ cepoch' = [cepoch EXCEPT ![c] = epoch]
          /\ Hand([id |-> c, epoch |-> epoch, proof |-> proof, at |-> gen])
     ELSE /\ UNCHANGED cepoch
          /\ Hand([id |-> c, epoch |-> cepoch[c], proof |-> 0, at |-> 0])
  /\ Goto(w, IF pc[w] = "store" THEN "running" ELSE pc[w])
  /\ UNCHANGED <<runtime, rt, st, eg, under, revoked, conns, kept, controller>>

LeasesOf(S) == {l \in handed : l.id \in S}

Revoke(c) ==
  /\ st = None
  /\ cepoch[c] < MaxRevoked
  /\ creds' = creds \ {c}
  /\ cepoch' = [cepoch EXCEPT ![c] = @ + 1]
  /\ revoked' = revoked \cup LeasesOf({c})
  /\ UNCHANGED <<runtime, rt, st, eg, authority, handed, conns, worker,
                 controller>>

\* Slip: only the store is asked, not the runtime the lease is bound to.
SlipCredentialValid(l) ==
  /\ l.id \in creds
  /\ l.epoch = cepoch[l.id]

CredentialValid(l) ==
  /\ Bound => LeaseValid(RuntimeLease(l))
  /\ l.id \in creds
  /\ l.epoch = cepoch[l.id]

\* execute_if_valid, from outside or from an executor of the gateway
Use(w, l) ==
  /\ pc[w] \in {"idle", "store"}
  /\ st = None
  /\ StoreFree(w)
  /\ CredentialValid(l)
  /\ st' = w
  /\ IF Bound /\ pc[w] = "idle"
     THEN rt' = w /\ under' = RuntimeLease(l)
     ELSE UNCHANGED <<rt, under>>
  /\ Goto(w, IF pc[w] = "store" THEN "using_inside" ELSE "using")
  /\ UNCHANGED <<runtime, eg, issued, store, conns, kept, controller>>

\* Slip: the store's lock is released, the runtime's is kept.
SlipUsed(w) ==
  /\ pc[w] \in {"using", "using_inside"}
  /\ st' = None
  /\ Goto(w, IF pc[w] = "using" THEN "idle" ELSE "running")
  /\ UNCHANGED <<runtime, rt, eg, authority, store, conns, kept, controller>>

Used(w) ==
  /\ pc[w] \in {"using", "using_inside"}
  /\ st' = None
  /\ \/ pc[w] = "using" /\ Goto(w, "idle") /\ rt' = IF Bound THEN None ELSE rt
     \/ pc[w] = "using_inside" /\ Goto(w, "running") /\ UNCHANGED rt
  /\ UNCHANGED <<runtime, eg, authority, store, conns, kept, controller>>

(***************************************************************************)
(* EgressController.  register_connection takes the broker's lock, and     *)
(* under it the runtime's to read can_execute.                             *)
(***************************************************************************)
RegisterConnection(w) ==
  /\ pc[w] = "idle" \/ (RegisterInside /\ pc[w] \in {"running", "using"})
  /\ pc[w] = "running" => ~Nested(w)
  /\ Goto(w, "broker")
  /\ UNCHANGED <<runtime, rt, st, eg, authority, store, conns, kept,
                 controller>>

\* Slip: the state is checked before the broker's lock is taken.
SlipLockBroker(w) ==
  /\ pc[w] = "broker"
  /\ eg = None
  /\ Goto(w, "checking")
  /\ UNCHANGED <<runtime, rt, st, eg, authority, store, conns, kept,
                 controller>>

LockBroker(w) ==
  /\ pc[w] = "broker"
  /\ eg = None
  /\ eg' = w
  /\ Goto(w, "checking")
  /\ UNCHANGED <<runtime, rt, st, authority, store, conns, kept, controller>>

\* Slip: the runtime's lock is not re-entrant.
SlipCheckExecutable(w) ==
  /\ pc[w] = "checking"
  /\ rt = None
  /\ IF state = "ACTIVE"
     THEN Goto(w, "adding") /\ UNCHANGED eg
     ELSE GoBack(w) /\ eg' = None
  /\ UNCHANGED <<runtime, rt, st, authority, store, conns, lease, granted,
                 controller>>

CheckExecutable(w) ==
  /\ pc[w] = "checking"
  /\ rt \in {None, w}
  /\ IF state = "ACTIVE"
     THEN Goto(w, "adding") /\ UNCHANGED eg
     ELSE GoBack(w) /\ eg' = None
  /\ UNCHANGED <<runtime, rt, st, authority, store, conns, lease, granted,
                 controller>>

AddConnection(w, k) ==
  /\ pc[w] = "adding"
  /\ conns' = conns \cup {k}
  /\ eg' = None
  /\ GoBack(w)
  /\ UNCHANGED <<runtime, rt, st, authority, store, lease, granted,
                 controller>>

UnregisterConnection(k) ==
  /\ eg = None
  /\ conns' = conns \ {k}
  /\ UNCHANGED <<runtime, rt, st, eg, authority, store, worker, controller>>

(***************************************************************************)
(* ContainmentController.contain, its stages in order.                     *)
(***************************************************************************)
BeginContain ==
  /\ cpc = "idle"
  /\ gen < MaxFences
  /\ cpc' = "fencing"
  /\ UNCHANGED <<runtime, rt, st, eg, authority, store, conns, worker, swept>>

\* Slip: containment does not wait for the effect in flight.
SlipFenceRuntime ==
  /\ cpc = "fencing"
  /\ Fence("CONTAINED")
  /\ cpc' = "revoking"
  /\ UNCHANGED <<rt, st, eg, authority, store, conns, worker, swept>>

FenceRuntime ==
  /\ cpc = "fencing"
  /\ rt = None
  /\ Fence("CONTAINED")
  /\ cpc' = "revoking"
  /\ UNCHANGED <<rt, st, eg, authority, store, conns, worker, swept>>

\* Slip: the credentials go, their epochs stay.
SlipRevokeAll ==
  /\ cpc = "revoking"
  /\ st = None
  /\ cpc' = "terminating"
  /\ creds' = {}
  /\ revoked' = revoked \cup LeasesOf(creds)
  /\ swept' = swept \cup {"credentials"}
  /\ UNCHANGED <<runtime, rt, st, eg, authority, cepoch, handed, conns, worker>>

\* revoke_all has the lock before anything can fail.  A stage that raises is
\* a failure of the report; the next one runs.
RevokeAll ==
  /\ cpc = "revoking"
  /\ st = None
  /\ cpc' = "terminating"
  /\ \/ /\ cepoch' = [c \in Credentials |->
                       IF c \in creds THEN cepoch[c] + 1 ELSE cepoch[c]]
        /\ creds' = {}
        /\ revoked' = revoked \cup LeasesOf(creds)
        /\ swept' = swept \cup {"credentials"}
        /\ UNCHANGED handed
     \/ RevocationFails /\ UNCHANGED <<store, swept>>
  /\ UNCHANGED <<runtime, rt, st, eg, authority, conns, worker>>

\* Slip: containment waits until the connections have gone by themselves.
SlipTerminateAll ==
  /\ cpc = "terminating"
  /\ eg = None
  /\ conns = {}
  /\ swept' = swept \cup {"connections"}
  /\ cpc' = "idle"
  /\ UNCHANGED <<runtime, rt, st, eg, authority, store, conns, worker>>

\* The registry is emptied under the lock, the terminators run without it;
\* one that raises is skipped, and its connection is off the registry.
TerminateAll ==
  /\ cpc = "terminating"
  /\ eg = None
  /\ conns' = {}
  /\ swept' = swept \cup {"connections"}
  /\ cpc' = "idle"
  /\ UNCHANGED <<runtime, rt, st, eg, authority, store, worker>>

\* Runtime.recover; ControlPlane says when the service calls it.
Recover ==
  /\ cpc = "idle"
  /\ gen < MaxRecovered
  /\ state = "CONTAINED"
  /\ rt = None
  /\ state' = "ACTIVE"
  /\ epoch' = epoch + 1
  /\ NewProof
  /\ swept' = {}
  /\ UNCHANGED <<rt, st, eg, authority, store, conns, worker, cpc>>

\* Runtime.restore_contained of a runtime that was ACTIVE: the durable epoch
\* may be any, below the runtime's own too.
RestoreContained(e) ==
  /\ cpc = "idle"
  /\ gen < MaxFences
  /\ state = "ACTIVE"
  /\ rt = None
  /\ state' = "CONTAINED"
  /\ epoch' = e
  /\ NewProof
  /\ UNCHANGED <<rt, st, eg, authority, store, conns, worker, controller>>

(***************************************************************************)
(* Specification.                                                          *)
(***************************************************************************)
WorkerStep(w) ==
  \/ AcquireLease(w) \/ Execute(w) \/ ExecuteWithLease(w)
  \/ Authorize(w) \/ Evaluate(w) \/ Halt(w)
  \/ Start(w) \/ Finish(w) \/ HaltInside(w)
  \/ \E c \in Credentials : Issue(w, c)
  \/ \E l \in handed : Use(w, l)
  \/ Used(w) \/ CallStore(w) \/ FinishCall(w)
  \/ RegisterConnection(w) \/ LockBroker(w) \/ CheckExecutable(w)
  \/ \E k \in Connections : AddConnection(w, k)

Next ==
  \/ \E w \in Workers : WorkerStep(w)
  \/ \E c \in Credentials : Revoke(c)
  \/ \E k \in Connections : UnregisterConnection(k)
  \/ BeginContain \/ FenceRuntime \/ RevokeAll \/ TerminateAll
  \/ Recover
  \/ \E e \in DurableEpochs : RestoreContained(e)

Spec == Init /\ [][Next]_vars

(***************************************************************************)
(* Whoever waits for a lock that is released again and again gets it, and  *)
(* what runs under a lock ends: executors return.                          *)
(***************************************************************************)
ContinueContain == FenceRuntime \/ RevokeAll \/ TerminateAll

\* The executor that holds the thread's first lock returns.
Release(w) ==
  \/ Finish(w) /\ ~Nested(w)
  \/ Used(w) /\ pc[w] = "using"

ContinueWorker(w) ==
  \/ Authorize(w) \/ Evaluate(w) \/ Halt(w) \/ Start(w)
  \/ (Finish(w) \/ Used(w)) /\ Nested(w)
  \/ FinishCall(w) \/ LockBroker(w) \/ CheckExecutable(w)
  \/ \E k \in Connections : AddConnection(w, k)

FairSpec ==
  /\ Spec
  /\ SF_vars(ContinueContain)
  /\ \A w \in Workers : SF_vars(Release(w)) /\ SF_vars(ContinueWorker(w))

(***************************************************************************)
(* Properties.                                                             *)
(***************************************************************************)

\* A use of a bound store holds the runtime's lock without the gateway.
UsesBound(w) == Bound /\ st = w /\ pc[w] # "using_inside"

\* An effect the gateway started runs in the generation in which the policy
\* allowed it, under a lease of that generation: between the ALLOW and the
\* end of the executor no containment, halt or recovery came in, except a
\* halt by the executor itself (gateway.py: execute, execute_with_lease,
\* execute_egress).
InFlightIsAdmitted ==
  \A w \in Workers :
    Inside(w) /\ ~UsesBound(w) /\ pc[w] # "fenced_inside" =>
      LeaseValid(lease[w]) /\ lease[w].at = gen /\ granted[w] = gen

\* Once the fence is raised every credential lease handed out before is
\* stale, whatever becomes of the later stages, and stays so after recovery
\* or restoration (containment.py: contain, the comment on the fence).
FenceStalesCredentials ==
  \A l \in handed : l.at # gen => ~CredentialValid(l)

\* A revoked credential lease is never accepted again, although the same
\* credential may be issued anew (credentials.py: revoke, revoke_all).
RevokedIsDead == \A l \in revoked : ~CredentialValid(l)

\* What containment swept away stays away until the recovery, although
\* threads were half-way through registering or issuing when it swept
\* (egress.py: register_connection, credentials.py: issue).
SweptStaysEmpty ==
  /\ "connections" \in swept => conns = {}
  /\ Bound /\ "credentials" \in swept => creds = {}

LockHolders == {rt, st, eg} \ {None}

\* The holder of the lock that w, having others, cannot go on without.
Blocker(w) ==
  CASE pc[w] = "broker" -> eg
    [] pc[w] \in {"checking", "authorizing", "halting", "starting"} -> rt
    [] pc[w] = "store" -> st
    [] OTHER -> None

\* The locks are re-entrant: nobody waits for itself.
Waits(w) == Blocker(w) \notin {None, w}

Circular(S) == S # {} /\ \A w \in S : Waits(w) /\ Blocker(w) \in S

\* Holders of locks that wait for each other, and so for ever.
Circle == \E S \in SUBSET LockHolders : Circular(S)

\* Every circle goes through the runtime's lock: its holder, an executor,
\* registers a connection or calls an unbound store, and whoever has the
\* lock it waits for, or the one that one waits for, wants the runtime's: to
\* read can_execute, or because an executor of an unbound store asks the
\* gateway (runtime.py: execute_if_active, egress.py: register_connection,
\* credentials.py: execute_if_valid).
CirclesPassTheRuntime ==
  Circle =>
    /\ rt # None
    /\ pc[rt] = "broker" \/ (pc[rt] = "store" /\ ~Bound)
    /\ \E w \in LockHolders \ {rt} : Blocker(w) = rt
    /\ Bound => pc[eg] = "checking"

\* Nothing but a wait for a lock stops a thread that holds one, and only
\* calls from inside an executor close a circle
\* (egress.py: register_connection, credentials.py: execute_if_valid).
OnlyNestedCallsDeadlock ==
  /\ \A w \in LockHolders : Waits(w) <=> ~ENABLED WorkerStep(w)
  /\ CirclesPassTheRuntime

\* A containment that has begun returns, unless threads that call each other's
\* components from inside executors have closed a circle
\* (containment.py: contain).
ContainReturns == cpc # "idle" ~> (cpc = "idle" \/ Circle)

(***************************************************************************)
(* The inductive invariant.                                                *)
(***************************************************************************)

\* Where a thread may be when it called the gateway, and where it is while it
\* registers a connection.
Acting == {"authorizing", "evaluating", "starting", "halting", "running",
           "fenced_inside"}
Registering == {"broker", "checking", "adding"}

\* Which thread is where when a lock is held.
LockInv ==
  \A w \in Workers :
    /\ pc[w] \in {"running", "fenced_inside", "store", "using_inside"} =>
         rt = w
    /\ rt = w => pc[w] \in {"running", "fenced_inside", "store", "using",
                            "using_inside"} \cup Registering
    /\ pc[w] \in {"using", "using_inside"} => st = w
    /\ st = w =>
         pc[w] \in {"using", "using_inside"} \cup Acting \cup Registering
    /\ st = w /\ pc[w] \in Acting => ~Bound /\ ActInside
    /\ st = w /\ pc[w] \in {"using"} \cup Registering => (rt = w <=> Bound)
    /\ pc[w] \in {"checking", "adding"} <=> eg = w

\* A lease that was handed out is good for exactly its own generation.
LeaseInv ==
  /\ proof = gen + 1
  /\ \A l \in issued :
       /\ l.at <= gen
       /\ l.proof = l.at + 1
       /\ l.at = gen => l.epoch = epoch /\ state = "ACTIVE"
  /\ \A w \in Workers : lease[w] \in issued \cup {NoLease}
  /\ Bound => \A l \in handed : RuntimeLease(l) \in issued

\* A worker about to start holds a lease of the generation its action was
\* allowed in, or an older lease than that.
GrantInv ==
  \A w \in Workers :
    /\ granted[w] <= gen
    /\ pc[w] = "starting" => lease[w].at <= granted[w]

\* Without a runtime, only revocation tells old leases from new ones.
RevocationInv ==
  ~Bound => /\ \A l \in handed : l.epoch <= cepoch[l.id]
            /\ \A l \in revoked : l.epoch < cepoch[l.id]

\* Nobody is about to add a connection that was judged before the sweep.
SweepInv ==
  /\ cpc \in {"revoking", "terminating"} => state # "ACTIVE"
  /\ swept # {} => state # "ACTIVE"
  /\ "connections" \in swept => \A w \in Workers : pc[w] # "adding"

\* Together with the properties that are not inductive alone, the invariant
\* that is (runtime.py, gateway.py, credentials.py, egress.py).
IInv ==
  /\ TypeOK
  /\ LockInv
  /\ LeaseInv
  /\ GrantInv
  /\ RevocationInv
  /\ SweepInv
  /\ InFlightIsAdmitted
  /\ SweptStaysEmpty

(***************************************************************************)
(* Every effect through the gateway, and every use of a credential of a    *)
(* bound store, starts with a live lease and holds up whoever fences.      *)
(***************************************************************************)
Effects ==
  IF rt = None THEN {}
  ELSE {[by |-> rt, lease |-> under, closed |-> pc[rt] = "fenced_inside"]}

Promise == INSTANCE ExecutionFence WITH
  Threads <- Workers,
  open <- state = "ACTIVE",
  live <- {l \in issued : LeaseValid(l)},
  spent <- {l \in issued : l.at # gen},
  inFlight <- Effects

\* The runtime, its gateway and its credential store keep the promise of the
\* fence (runtime.py: execute_if_active, contain, halt, recover).
ImplementsFence == Promise!Spec
=============================================================================
