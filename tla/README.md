# Verification of AgentContainment

AgentContainment is a controller that registers AI agents, authorizes their
actions, and *contains* an agent when it misbehaves: the agent's runtime is
fenced, its authority revoked, host boundaries (cgroup kill, eBPF or Cilium
egress blocks) put in force, and the fact written to durable storage. Only an
authorized recovery makes the agent executable again. These modules model that
controller, check it with TLC on small instances and prove its safety with
TLAPS for every instance.

All source paths below are relative to `src/src/agent_containment/`.

## 1. The system

| Component | State it keeps | Operations | What makes it correct |
|---|---|---|---|
| `ContainmentService` (`control.py`) | the managed agents (runtime, controller, policy, recovery capability, identity digest), pending reviews, one service lock | `register`, `unregister`, `configure_containment`, `contain`, `reconcile_containment`, `issue_recovery_authorization`, `recover`, identity and authorization calls, reviews | an agent never executes under a durable containment; recovery is authorized, ordered and compensated; what is durable can be recovered from |
| `Runtime` (`runtime.py`) | state, epoch, lease proof, recovery capability, its own lock | `halt`, `contain`, `restore_contained`, `recover`, leases, `execute_if_active` | epochs only grow; a lease of an older epoch is worthless |
| `RuntimeFenceRegistry` (`runtime_fence.py`) | agent -> fenced epoch, in one file | `prepare`, `get`, `clear` | memory and file agree; a failed write changes nothing |
| `IncidentRegistry` (`incident_state.py`) | incident records, in one file | `record_containment`, `mark_proof_degraded`, `restore_contained`, `mark_recovered`, `attach_proof`, `latest_for_agent` | an id is recorded once; the latest incident tells the truth |
| `ContainmentController` (`containment.py`), `Enforcer` protocol (`enforcer.py`) | list of enforcers, last reports | `contain`, `release_enforcers`, `recontain_enforcers`, `recover` | no certified report of a boundary that is not in force |
| Gateway, credentials, egress broker (`gateway.py`, `credentials.py`, `egress.py`, `process.py`) | leases, tokens, connections | `authorize`, `execute`, `issue`, `revoke_all`, `terminate_all` | nothing starts after the fence |
| Policy engine (`policy.py`) | bounded history of actions | `evaluate` | sequence rules catch what they are for |
| Identity, authorization, review (`control.py`, `review.py`, `verification_signal.py`) | token digests, review requests | `issue_identity_token`, `authorize`, `approve_review`, ... | no ALLOW for an agent that may not act |
| Agent tree (`agent_tree.py`) | parent -> children | `register_root`, `spawn`, `contain` | containing an agent contains its descendants |
| Host enforcers (`cgroup_enforcer.py`, `egress_enforcement.py`, `linux_supervisor.py`, `src/ebpf/ctl.c`), Cilium (`cilium_enforcer.py`) | kernel and cluster objects | attach, detach, verify | they implement the Enforcer contract |
| Audit, evidence chain, receipts (`audit.py`, `evidence_chain.py`, `incident_evidence.py`, `proof_receipt.py`) | hash-chained logs, seen receipts | append, verify | tampering before the last event and replay are detected |
| Transport, daemon, client (`transport.py`, `daemon.py`, `client.py`, `bootstrap.py`) | connections, handler threads | one request per connection | bounded handlers, authenticated peers |
| Regression, replay, adapters, observations | traces, exported records | format conversion | no control-plane state |

How they interact. Handler threads of the transport call the service; the
service serializes its operations by one lock and calls, while holding it, the
registries, the containment controller and through it the runtime and the
enforcers. The runtime has a lock of its own, because the gateway and the
authorization path act on it *without* the service lock. The registries are the
only state that survives the controller process; the enforcers' boundaries and
the authorizations already handed out survive it too.

Behaviour that is hard to test: a crash between any two of the up to four
durable writes of an operation; a write or an enforcer failing half-way, and the
compensation failing as well; a HALT decided under the lock and applied after it
was released; stale recovery authorizations; an identity checked before a call
made without the lock and used after it; a control program that outlives the
controller that started it; incidents ordered by wall-clock time; kills and
network policies that take effect when kernel and cluster get to them; a child
spawned beside a sweep over its ancestors; a bounded history shared by racing
requests; a log whose writes stop halfway. `PROJECT.json` lists every hazard with its line.

## 2. Modules

| Module | Content |
|---|---|
| `ContainmentAuthority` | abstract specification: when an agent may execute (`exec`), what it owes (`owed`), whether a recovery is `granted` |
| `ControlPlane` | the service, runtime, registries and enforcers of one agent, step by step; its properties; its inductive invariant |
| `MCControlPlane` | the sets of disturbances TLC uses, and one constraint on operators |
| `ControlPlaneProofs` | the theorems about `ControlPlane` |
| `ExecutionFence` | abstract specification: effects start with live leases, one at a time; closing the fence waits for the effect in flight, unless that effect closes it, and spends the leases |
| `ExecutionLeases` | the threads of one agent: runtime leases, gateway, credential store, egress broker, and a containment running through them |
| `MCExecutionLeases` | the symmetry of the threads, for TLC |
| `ExecutionLeasesProofs` | the theorems about `ExecutionLeases` |
| `EnforcerContract` | abstract specification: what the control plane asks of an external enforcer |
| `EgressAttachment` | the eBPF egress enforcer, its control programs and the kernel's link and pin, one system call at a time |
| `MCEgressAttachment` | the symmetry of programs and links, for TLC |
| `EgressAttachmentProofs` | the theorems about `EgressAttachment` |
| `Boundaries` | the containment controller over a cgroup and a Cilium policy, one enforcer call at a time, with the kernel, the API server and the nodes beside it |
| `MCBoundaries` | the symmetry of processes and endpoints, for TLC |
| `BoundariesProofs` | the theorems about `Boundaries` |
| `Authorization` | identity tokens, `authorize` and `authorize_verified`, the register command, reviews |
| `MCAuthorization` | the symmetry of handlers and processes, for TLC |
| `AuthorizationProofs` | the theorems about `Authorization` |
| `PolicyEngine` | `PolicyEngine.evaluate` as operators, and the reference its matching is compared with |
| `Requests` | connections, slots and threads of the transport, the gateway beside them, and the policy's history they share |
| `MCRequests` | the operations, risks and rules TLC uses |
| `RequestsProofs` | the theorems about `Requests` |
| `AgentTree` | parents and children, `spawn` and a recursive `contain` under the tree's lock, everything else without it |
| `AgentTreeProofs` | the theorems about `AgentTree` |
| `AuditTrail` | the hash-chained audit log, a file others can change, and what `authorize` and `contain` do when it fails |
| `MCAuditTrail` | the symmetry of callers, for TLC |
| `AuditTrailProofs` | the theorems about `AuditTrail` |

`ControlPlane` and `ExecutionLeases` describe the same `Runtime` from two sides.
The first has durable storage, crashes and every guard of the service, and takes
each runtime transition as one step; the second has the threads and the locks
that make it one step, and takes from the service only when it may call
`contain`, `recover` and `restore_contained`. `ControlPlane`'s "not executable
means no effect" is what `ExecutionFence` promises and `ExecutionLeases` is shown
to keep. `Authorization` is a third side: the same registration, runtime and
containment, reduced to what decides over a request. `EgressAttachment` is what
stands behind one element of `ControlPlane`'s `enforced`: `ContainEnforcer` and
`ReleaseEnforcer` assume that a report of success is true, which is
`EnforcerContract`, and `EgressAttachment` is shown to implement that.
`Boundaries` is what stands behind two other elements of it, and takes
`ContainmentController`'s own loop apart: what a `failed` sweep of
`ControlPlane` may have done to a boundary is here the sum of what kubectl, the
kernel and other people do. `Requests` is in front of `Authorization`: how a
request gets a thread and the lock, and what the policy, which there may answer
anything, answers. `AuditTrail` takes apart `ControlPlane`'s `RecordProof`, and
`AgentTree` has many of `ExecutionLeases`' runtimes, each reduced to its state
and who executes under its lock.

### ControlPlane and the code

Agents share the service lock and the registry files but no other state, so one
agent is modelled. An operation that holds the service lock is a sequence of
steps, one for each durable write, runtime transition or enforcer call; `pc`
names the next one, `target`, `todo`, `failed` are its local variables
(`incident.containment_epoch` or `next_epoch`, the rest of the loop over the
enforcers, "the list of failures is not empty").

| Variable | Code |
|---|---|
| `setting` | no code: which disturbances this behaviour is exposed to, chosen from `Settings` at the start |
| `fence` | `RuntimeFenceRegistry._records[agent]`; memory equals file, since the file is replaced first |
| `ids`, `latest` | keys of `IncidentRegistry._records`, and what `latest_for_agent` returns |
| `state`, `epoch` | `Runtime._state`, `_epoch`; `PAUSED` is never assigned by the code |
| `enforced` | whether each external boundary really is in force (external) |
| `registered`, `active` | the agent is in `_agents`; the enforcers of its controller |
| `auths` | every `RecoveryAuthorization` returned so far; `live`: its capability is the managed one |
| `halts` | HALT decisions between `policy.evaluate` and `runtime.halt()` |
| `owed` | history: a write made a containment durable and no recovery followed |

| Action | Code |
|---|---|
| `Register`, `RegisterInterrupted` | `register`; the second is the same call dying or raising after its first durable write |
| `Unregister`, `Configure` | `unregister`, `configure_containment` |
| `DecideHalt`, `Halt` | `authorize` / `Gateway.authorize` returning HALT, and the `runtime.halt()` that follows outside the lock |
| `BeginContain`, `ContainRuntime`, `ContainEnforcer`, `RecordIncident`, `RecordProof` | `contain`: fence write, `Runtime.contain` and revocations, one enforcer each, incident write, audit and proof state |
| `Reconcile`, `IssueRecoveryAuthorization`, `FinishReconcile` | the two calls that sweep the enforcers before trusting the boundaries |
| `BeginRecover`, `ReleaseEnforcer`, `FinishRelease`, `Refence`, `MarkRecovered`, `Activate` | `recover`: checks and fence clear, releases in reverse order, incident write, `Runtime.recover` |
| `ActivationFails`, `UndoFence`, `UndoIncident`, `FinishRecontain` | its compensation |
| `AttachProof` | `attach_proof`, which takes no service lock |
| `Crash` | the controller process dies at any step |

Abstractions. Agent ids, reasons, timestamps and reports are dropped, except
that a new incident may have a timestamp that is not greater than the latest
one's (disturbance `clock`; the others are `halt`, `recontain` and `storage`:
HALT decisions, containments of an agent that is not ACTIVE, failing writes).
A property that holds under some disturbances only says so by `setting`, so one
run checks it beside those that hold under all. Epoch `-1` stands for "no record" (the registries
refuse negative epochs). The stages of `ContainmentController.contain` between
the runtime fence and the enforcers only matter by whether one of them failed.
An enforcer call that fails, or whose verification fails, may or may not have
moved the boundary. After a crash the operator may register the agent with no
controller, with one around a runtime in the state the old one had, with one
around a new runtime, or with one around a runtime restored as contained at any
epoch; an operator who attests a runtime ACTIVE above epoch 0 is trusted to tell
the truth, which `register` itself says it relies on.

### ExecutionLeases and the code

`runtime.py`, `credentials.py` and `egress.py` each have one `RLock`; `rt`, `st`
and `eg` name the threads that hold them. A section that calls nothing under its
lock is one step, enabled when the lock is free. What runs a callback under the
lock is several: `Start` / `Finish` and `Use` / `Used` surround an executor,
`RegisterConnection`, `LockBroker`, `CheckExecutable`, `AddConnection` are the
lines of `register_connection`. Locks are re-entrant: an executor of the gateway (a
thread with `rt` = itself) may call the store, register connections, and halt its
own runtime. An executor of a store without a runtime has the store's lock only,
so it may also call the gateway like a thread from outside, and wait there for the
runtime's (`ActInside`); calls nest one deep.

| Variable | Code |
|---|---|
| `state`, `epoch`, `proof` | `Runtime._state`, `_epoch`, `_lease_proof` (the objects numbered by creation; 0 is `None`) |
| `creds`, `cepoch` | `CredentialStore.credentials`, `_epochs` (a missing key is 0, as `get(id, 0)` reads it) |
| `conns` | `EgressController._connections` of the agent |
| `rt`, `st`, `eg` | the thread that holds the lock of the runtime, the store, the broker |
| `pc`, `lease` | per thread: where it is, and the `ExecutionLease` it last acquired |
| `cpc` | the stage of `ContainmentController.contain`; callers hold the service lock, so one at a time |
| `gen`, `issued`, `handed`, `revoked`, `under`, `granted`, `swept` | history: changes of state so far; runtime and credential leases handed out; those revoked; the lease of the last effect; when the policy allowed each thread's action; what containment swept since the recovery |

| Action | Code |
|---|---|
| `AcquireLease`, `Execute`, `ExecuteWithLease` | the entry points of the gateway; `execute_egress` takes the same steps as `execute_with_lease` |
| `Authorize`, `Evaluate`, `Halt`, `HaltInside` | `authorize`: the look at `can_execute`, the policy's answer (any), a HALT |
| `Start`, `Finish` | `Runtime.execute_if_active` around the executor |
| `Issue`, `Revoke`, `Use`, `Used` | `CredentialStore`, with (`Bound`) or without a runtime |
| `CallStore`, `FinishCall` | an executor of the gateway calls the store and waits for its lock (`Issue` and `Use` go on from there too); a call that hands out nothing |
| `RegisterConnection` ... `UnregisterConnection` | the broker's registry |
| `BeginContain`, `FenceRuntime`, `RevokeAll`, `TerminateAll` | the stages of `contain` that touch these parts; `RevokeAll` may raise, but has the store's lock first (`credentials.py:53`) |
| `Recover`, `RestoreContained` | `Runtime.recover`, and `restore_contained` of an ACTIVE runtime at any epoch |

Abstractions. One agent (the checks of agent ids compare with a constant); the
policy may answer anything; the decision history is left out; a thread keeps one
lease, the last it acquired; an executor that halted its runtime only returns
(everything else it may do is refused), and one inside another executor calls
nothing but the gateway's `halt`; an executor under the runtime's lock does not nest a
second executor of the gateway, and none calls the service. A terminator that raises
leaves the registry as one that does not, so terminators have no step.

### EgressAttachment and the code

`egress_enforcement.py` runs the control program `src/ebpf/ctl.c`, one run after
another because the service lock is held, each with a timeout. The program is a
sequence of system calls, each a step, and may be killed between any two.

| Variable | Code |
|---|---|
| `pin`, `attached` | the file `egress_link` and the links attached to the cgroup: kernel objects both sides see |
| `ctl` | the running control programs: command, next system call, link they have open |
| `call`, `child` | the method the enforcer is in, and the program `subprocess.run` waits for |
| `proven` | `_release_verified` |
| `answer` | the certified answer of the last call, as `_run_enforcers` and `release_enforcers` would report it |
| `alone` | history: no program of an earlier controller ran when the last call began |

| Action | Code |
|---|---|
| `Contain` | `contain`: adopts a pin by `verify`, or runs `attach`; on success `Answered` goes on with `verify_contained` (`containment.py` 239-260) |
| `Release`, `CheckReleased` | `release` and `verify_released` (`containment.py` 283-302) |
| `Timeout`, `Crash` | `subprocess.run` kills its child; the controller dies, with or without its child |
| `Access`, `Attach`, `Pin`, `Cleanup` | `attach` of `ctl.c`, with the `unlink` of its error path |
| `Open`, `Query` | `verify`, and the beginning of `detach` |
| `Unlink`, `Recheck` | the rest of `detach` |
| `Reap` | the kernel detaches a link nothing refers to (external), at once or later |

Abstractions. Any system call may fail; opening the cgroup, loading and attaching
are one step, because nothing another program sees changes before the attachment.
The identity of the cgroup a link belongs to is not modelled: where `ctl.c`
compares it, the step may fail.

### Authorization and the code

What the service does under its lock is one step here (`ControlPlane` takes those
steps apart). What is not under the lock is several: `authorize` leaves the lock
to ask for the peer's cgroup and applies a HALT after it gave the lock back, and
the transport's register command is four calls and, when one fails, a fifth.

| Variable | Code |
|---|---|
| `registered`, `workload`, `ident` | the agent is in `_agents`; its `identity_cgroup`, `identity_digest` (by the number of the token) and `identity_pid` |
| `rid`, `state`, `epoch` | its `Runtime` (numbered by creation) and that runtime's fields |
| `record` | what the durable registries say of it, reduced to what `register` asks |
| `dir` | the agent's cgroup exists on the host (external) |
| `minted` | tokens issued; they are random, so here they are 1, 2, ... |
| `pc`, `seen` | per handler: the next step and what `authorize` remembers of its snapshot |
| `review` | the state of each `ReviewRequest` |
| `spent`, `allowed`, `overtaken`, `owner`, `intruded`, `said` | history: dead tokens; handlers just told ALLOW; handlers behind whose snapshot the agent changed; who is registering the agent, and whose work was undone by another; verdicts told |

| Action | Code |
|---|---|
| `Register`, `Unregister`, `CreateWorkload`, `IssueIdentityToken`, `Contain`, `Recover` | the service's calls, made by operators |
| `Authorize`, `CheckMembership`, `Decide`, `Halt` | `authorize`: snapshot and first checks, `cgroup_membership`, revalidation and policy, the HALT |
| `Judge` | the rest of `authorize_verified`: the verifier's disposition |
| `RegisterWorkload`, `CreateFor`, `AttachFor`, `IssueFor`, `CleanUp` | the register command of the transport |
| `View`, `ApproveReview`, `EscalateReview` | the review calls; each looks at the clock first |
| `RemoveCgroup`, `Crash` | someone removes the cgroup on the host; the controller dies |

Abstractions. A request that is denied changes nothing, so it has no step. The
policy and the verifier may answer anything, the membership check may fail at any
time, a clock may find a pending review expired. A supervisor is configured. The
durable records are `ControlPlane`'s; here a containment may fail to write
them, and a recovery is the one step that ends it.

### Boundaries and the code

One call of the controller runs at a time (the service lock); its sweep visits
the cgroup first and the Cilium enforcer second, or the other way round to
release. `op` is the sweep, `pc` the enforcer call it makes next.

| Variable | Code |
|---|---|
| `state` | the runtime, as far as `ContainmentController.contain` and `recover` ask |
| `op`, `pc`, `failed`, `verdict` | the sweep, its next step, its list of failures, and what the report says |
| `procs` | where each process is; `cgroup.kill` makes it `dying`, which takes time (external) |
| `same` | the directory has the device, inode and ctime recorded by `CgroupEnforcer.__init__` |
| `policy`, `denied` | the live CiliumNetworkPolicy, and the endpoints whose node has realized it (external) |
| `stray` | requests kubectl gave up on that the API server may still take (external) |
| `disturbed` | history: somebody else touched cgroup or policy since the call began |

| Action | Code |
|---|---|
| `Contain`, `FinishContain` | `containment.py` `contain`, `_run_enforcers` and its report |
| `Recover`, `Activate`, `Compensate` | `recover` of the controller: releases, `Runtime.recover`, `recontain_enforcers` |
| `Kill`, `AwaitEmpty`, `CheckEmpty` | `CgroupEnforcer.contain`, `verify_contained`, `release` and `verify_released` |
| `Apply`, `GetPolicy`, `CheckEndpoints`, `Delete`, `CheckGone` | the kubectl calls of the Cilium enforcer |
| `Crash` | the process dies; kubectl may outlive it |
| `Fork`, `Die`, `ChangeIdentity`, `Alter`, `TakeStray`, `Realize`, `AttachWorkload` | kernel, cluster, other people, and the supervisor's attach |

Abstractions. The policy object is the containment policy, altered, or absent;
the comparison of its fields is `MatchesContainmentPolicy`. An apply on an altered
policy restores it or leaves it altered (`Applied`: a server-side apply puts removed
fields back and leaves fields others added), and may conflict. `TakeStray` is a late
request, in any order with later ones. A process that is being killed does not
fork.

### PolicyEngine, Requests and the code

`PolicyEngine` has no state: `Matches` is the loop of
`evaluate` over the remembered operations and the next one,
`Allowed` and `Refusal` the order in which `evaluate` refuses, `Remembered` the
append to the bounded deque. `Occurs` says the same without a loop.

| Variable | Code |
|---|---|
| `phase` | per connection or gateway call: in the backlog, read by a handler, at the policy, answering |
| `op`, `risk`, `view` | the action asked for, and the history its evaluation read |
| `slots` | the semaphore of `UnixControlServer` |
| `listening` | the accept loop runs |
| `lock` | the connection whose handler holds the service lock |
| `history`, `past` | the engine's deque; history: everything ever allowed |
| `active` | the runtime is ACTIVE |
| `refused`, `late` | history: a HALT was answered; the calls made after it |
| `gatewayed` | does an `ActionGateway` share the engine with the service? |

| Action | Code |
|---|---|
| `Call` | a client connects and sends, or a program asks its gateway |
| `Accept`, `Receive`, `Reject` | `serve_forever` and the handler: a slot, `server_busy`, or a thread that cannot be started, which loses the slot and ends the loop; a request, or a stall, a hang-up, garbage |
| `Reset` | the daemon closes the socket once the loop has ended |
| `Look`, `Record` | `evaluate`: what it reads, what it appends; apart, because the gateway has no lock around the two |
| `Halt`, `Answer` | `runtime.halt()` after the lock; the response and the release of the slot |

Abstractions. The identity and proof checks of `authorize` are
`Authorization`'s; every refusal but a HALT is the same; requests other than
`authorize` change nothing here.

### AgentTree and the code

`agent_tree.py` has one lock, held over all of `spawn` and all of `contain`. The
runtimes and controllers of the nodes do not take it.

| Variable | Code |
|---|---|
| `nodes`, `parent` | `_nodes`; the links both ways |
| `state`, `caps` | each node's `Runtime` and capability set |
| `tree` | the thread in the tree's lock |
| `pc`, `job`, `todo` | what each thread is doing, for which node, and its stack of nodes to contain |
| `executes` | the node whose executor a thread is, with that runtime's lock |
| `covered`, `freed` | history: nodes swept and not recovered since; nodes recovered since they were swept |
| `nested` | may executors call the tree? |

| Action | Code |
|---|---|
| `RegisterRoot` | `register_root` |
| `Call`, `Enter`, `Judge`, `Inherit`, `Adopt` | `spawn`: lock and look-up, `can_execute`, the capabilities, the child |
| `Enter`, `Fence`, `Revoke`, `Sweep` | the recursive `contain`: each node's runtime fence (which waits for its executor), its capabilities, the next descendant |
| `Direct` | `ContainmentController.contain` of one node, without the tree |
| `Execute`, `Return`, `Halt`, `Recover` | the gateway's executors, and the runtime calls |

### AuditTrail and the code

`audit.py` reads the whole file twice for each event (`verify`, then the last
line) and appends one line. `register`, the workload calls and `authorize` let a
failure out as an exception, and `authorize` stands for them.

| Variable | Code |
|---|---|
| `lines`, `ended` | the file's lines, and whether the last one has its line end |
| `lock`, `event` | the lock of the `AuditLog` and the line its holder has built |
| `call`, `incident` | where each call is; the state of the incident a containment recorded |
| `written`, `cut`, `returned`, `glued`, `forked`, `changes` | history: events written whole, in one line; calls whose own text breaks their line; calls that returned; text behind a line without its end; an event that does not continue what was written when it lands; changes from outside |

| Action | Code |
|---|---|
| `Authorize`, `Contain` | a call reaches `audit.record` |
| `Verify`, `Compose`, `Write` | `record`; a write reaches the file whole, without its line end, in part, or not at all; what it wrote is read back as one line or, when the text holds a line break of `splitlines`, as pieces (`Whole`, `Parts`) |
| `Answer`, `GiveUp`, `Degrade` | the call returns; raises; `contain` calls `mark_proof_degraded`, which may raise |
| `Crash`, `Change` | the process dies; somebody deletes, exchanges, edits or reinserts lines, or rewrites or adds one with the hash that is right for its place (`Forged`) |

Abstractions. A hash is the content it is computed from, so equal hashes mean
equal contents; nothing is secret about it, so whoever changes the file computes it
as `record` does. Any call's text may break its line: `json.dumps` leaves U+0085,
U+2028 and U+2029 as they are (`audit.py:15`), `splitlines` breaks there (`audit.py:44`,
77), and the transport takes any string for an action id. The pieces of a broken
event are no JSON, and two stand for any number. The event of `recover` is left out:
`recover` swallows a failure
to write it without a mark, as it does for the governance event.

## 3. Properties

`ControlPlane`:

* `ContainmentSticks`: no execution under a durable
  containment, except in the step between fence write and runtime transition;
* `ImplementsAuthority` / `FulfilsAuthority`: the service implements
  `ContainmentAuthority` with `exec` = registered and ACTIVE, `granted` = someone
  holds an authorization `recover` would accept, `owed` = the history variable;
* `CertificateIsTrue`: a certified report is backed by boundaries in force;
* `ActivationIsAuthorized`, `ActivationIsLast`, `CleanAbortRestores`: recovery
  is authorized for *this* containment, ordered, and compensated;
* `RefusedIncidentIsKnown`: the incident id `record_containment` refuses is the
  id of the unrecovered latest incident, so the refusal loses nothing;
* `ContainedIsRecoverable`, `RestartAdmitsContained`: no dead end, in place and
  over a restart, under the disturbances they name (`RestartAdmits` is the
  second without them, and is violated);
* `OperationsReturn`: every operation gives the service lock back, or has called
  an enforcer that runs without a timeout and hangs.

`ExecutionLeases`:

* `InFlightIsAdmitted`: what the gateway started runs in the generation in which
  the policy allowed it, under a lease of that generation;
* `ImplementsFence`: runtime, gateway and a bound store implement
  `ExecutionFence`: effects exclude each other, start with live leases only, and
  a containment waits for them;
* `FenceStalesCredentials`, `RevokedIsDead`: which credential leases the fence,
  and a revocation, make worthless for good;
* `SweptStaysEmpty`: no thread half-way through a registration or an issue puts
  something behind the sweep;
* `OnlyNestedCallsDeadlock`: what the circles of locks have in common: one of
  their threads is an executor under the runtime's lock that calls the broker, or
  a store without a runtime;
* `ContainReturns`: a containment gets through, unless such a circle has closed.

`EgressAttachment`:

* `ContainedIsInForce`, `ReleasedIsOpen`: a certified answer is true when given
  and stays true until the next call, however its control programs are killed,
  time out or fail;
* `ContainKeepsThePin`: nothing but a release removes a pinned link;
* `ImplementsContract`: the enforcer implements `EnforcerContract` with
  `inForce` = there is a pin and its link is attached.

They speak of calls that began with no orphan running (`alone`, `Undisturbed`).
Without that they do not hold: an orphaned `attach` whose `bpf_link__pin` found
the new controller's pin unlinks that pin (`ctl.c:96`), and an orphaned `detach`
finishes its work after a containment was certified (`ctl.c:140`). The code has no
lock against it; that no control program outlives its controller has to come
from the service manager, which kills the unit's whole control group.

`Authorization`:

* `AllowIsCurrent`: an ALLOW is as current as if the lock had been held
  throughout, although it was not;
* `SpentTokensStayDead`: no ALLOW for a token of before a containment, a rotation
  or another registration, after recovery either;
* `CleanUpIsOwn`: the transport's clean-up, which goes by agent id, removes no
  registration but its own, provided nobody unregistered the agent in the middle
  of the command (then it may: the code cannot tell the two registrations apart);
* `OneVerdict`: of operators racing to decide a review, none is told ALLOW if
  another is told that it was escalated.

`Boundaries`:

* `CertifiedIsEnforced`: while nobody meddles, a certified containment, and a
  compensation reported as verified, leave no process alive and every endpoint
  cut off, although kill and realization are asynchronous and kubectl's answers
  may be wrong either way;
* `RecoveryReleasesFirst`: a recovery does not activate the runtime before the
  boundaries were found released, whatever failed, was compensated or read wrong.

`Requests`:

* `NoForbiddenChain`: no stretch of allowed operations the engine could
  remember contains a forbidden sequence, however connections interleave;
* `MatchesIsExact`: the engine's single pass decides what its definition says, on
  every sequence of operations that can be allowed;
* `HaltIsFinal`: nothing asked after a HALT was answered is allowed, although
  the HALT is applied outside the lock, and by the gateway too;
* `SlotsComeBack`, `CallsEnd`: while the accept loop runs, no connection keeps its
  slot; none waits for ever.

`AgentTree`:

* `NoOrphan`: when no sweep is under way, no child of a node that a sweep
  contained escaped it, whatever was spawned, contained, halted or recovered
  beside it;
* `ContainReturns`: a sweep returns, although it waits for executors while it
  holds the tree's lock, provided no executor calls the tree and no enforcer hangs.

`AuditTrail`:

* `VerifiedIsWritten`: in a file that verifies, every event of record and all that
  stands before it is what was written; only behind the last such event can lines be
  missing or forged;
* `ReturnedIsEvidenced`: what returned is on record, or its incident says that
  it is not, unless its own text broke its line.

## 4. Runs

| Run | Bounds | Shows |
|---|---|---|
| `core` | 2 enforcers, `MaxEpoch` 3, 1 HALT in flight, all failures, any clock | the safety properties, the inductive invariant and the refinement |
| `live` | 2 enforcers, one of them without a timeout, `MaxEpoch` 3, 1 HALT, forward clock; all other disturbances at once, or only `recontain`, or only `storage`; under `FairSpec` | `OperationsReturn`, `FulfilsAuthority`, `RefusedIncidentIsKnown`, `ContainedIsRecoverable`, `RestartAdmitsContained` |
| `restart_recontained` | 1 enforcer, `MaxEpoch` 3, disturbance `recontain` | `RestartAdmits` is violated |
| `partial_release` | 2 enforcers, enforcers not reconfigured | `AbortedReleaseRestores` is violated |
| `leases` | 2 threads, 1 credential, 1 connection, `MaxFences` 2, `MaxRecovered` 4, `MaxRevoked` 2, bound store, executors may register | `InFlightIsAdmitted`, `SweptStaysEmpty`, `OnlyNestedCallsDeadlock`, `FenceStalesCredentials`, the invariant, the refinement |
| `drain` | 2 threads, 1 credential, 1 connection, `MaxFences` 1, no recovery, store without runtime, executors may register, use credentials and call the gateway, revocation may fail, under `FairSpec` | `ContainReturns`, `OnlyNestedCallsDeadlock`; `RevokedIsDead` |
| `egress` | 3 control programs at a time, 4 links, orphans | `ContainedIsInForce`, `ReleasedIsOpen`, `ContainKeepsThePin`, the refinement |
| `authorization` | 2 handlers, 2 processes, 1 review, `MaxTokens` 2, `MaxEpoch` 1, `MaxRuntimes` 2 | `AllowIsCurrent`, `SpentTokensStayDead`, `CleanUpIsOwn`, `OneVerdict` |
| `boundaries` | 2 processes, 2 endpoints, no other policy, late requests | `CertifiedIsEnforced`, `RecoveryReleasesFirst` |
| `tree` | 2 agents, 2 threads, 1 capability, with and without nested calls, under `FairSpec` | `NoOrphan`, `ContainReturns` |
| `requests` | 3 connections, 1 gateway, 2 slots, 2 operations, 2 rules, `HistoryLimit` 1, `MaxRequests` 3, with and without the gateway, under `FairSpec` | `NoForbiddenChain`, `MatchesIsExact`, `HaltIsFinal`, `SlotsComeBack`, `CallsEnd` |
| `audit` | 2 callers, `MaxCalls` 3, `MaxChanges` 1 | `VerifiedIsWritten`, `ReturnedIsEvidenced` |

Why the bounds are enough for `ControlPlane`. A containment and its recovery take two epochs, so
`MaxEpoch` 3 covers a containment, its recovery and a second containment, plus
the epochs halts add. Two enforcers are the least for
which a sweep can succeed on one and fail or hang on the other and for which the
order of sweeping shows. One HALT in flight is enough to fall between any two steps;
`DecideHalt` can be repeated. `MaxEpoch` and `MaxHalts` only guard `BeginContain`
and `DecideHalt`; the proofs hold for every value of them. Deadlock is checked
in every run of it: `Crash` and `Register` keep the system moving.

Why they are enough for `ExecutionLeases`. Two threads and the controller can
hold all three locks and close any circle of two; threads do not tell each other
apart, so they are symmetric. Two changes of state let a lease be taken before,
between and after a containment and a recovery. That a restoration meets an epoch
used before takes three changes, which two threads make too large for TLC: there
`BoundLeasesGoStale` and `Implementation`, proved for every `MaxFences`, say that
the proof object keeps old leases stale. `MaxFences` guards `BeginContain`,
`RestoreContained` and the policy's HALT, `MaxRecovered` guards `Recover`,
`MaxRevoked` guards `Revoke`, and `DurableEpochs` are the epochs a restoration may
choose. `drain` has room for one containment, which is what it is about; there
credentials are revoked by `revoke_all` only, and that `revoke` keeps `RevokedIsDead`
too is `UnboundRevocationHolds`. Neither run checks deadlock, because the system
really can stop: an executor under the runtime's lock wants the broker's, which a
registration holds that wants the runtime's; or it wants the store's, which an
executor of a store without a runtime holds whose gateway wants the runtime's; or
both through a third lock. Both kinds are reached in `drain`, the first in `leases`,
and `OnlyNestedCallsDeadlock`, checked by both, says that there are no others.

Why they are enough for `EgressAttachment`. Every pair of commands of which one
is orphaned, and two orphans at once beside the program the enforcer waits for,
need three programs. Each has at most one link open and the pin holds one more,
so four links never run out; links and programs are symmetric. Nothing is
bounded by a guard: a call may follow another for ever, and the state space is
finite as it is.

Why they are enough for `Authorization`. Two handlers are the least for two
requests to race each other or for one register command to meet another. Two
tokens and two runtimes let a rotation or a second registration fall between
snapshot and decision. `MaxEpoch` 1 allows one containment or HALT with a
recovery behind it, which is what could revive a request of before; two changes
that race each other are those of two handlers. Whoever escalates and approves
the one review may be anybody. `MaxTokens`, `MaxEpoch` and `MaxRuntimes` only
guard the making of a token, a containment, HALT decision or verdict, and a
runtime; the proofs hold for every value of them. Neither this model nor
`EgressAttachment` assumes fairness, and deadlock is checked in both.

Why they are enough for the other four. `boundaries`: two processes fork and die
beside each other, two endpoints let a policy be realized at one and not yet at
the other; nothing is bounded by a guard. `tree`: a parent and a child
show every escape of one generation, and two threads a spawn, a direct
containment or an executor beside a sweep; grandchildren are the business of
`Covered`, proved for trees of any depth. `requests`: three connections and two
slots make one be refused or wait; a history of one operation is the
shortest from which something is evicted, and the rule `read, post` spans exactly
the window. `MaxRequests` guards `Call` only. `audit`: three calls give a file
with a first, an inner and a last line, of which any may be broken by its own text;
one change can cut or forge the end on which another call then builds. That two
changes, such as a cut that is undone, show nothing else is `VerifiedWritten`,
proved for any number.
`MaxCalls` and `MaxChanges` guard the beginning of calls and `Change`. Deadlock is not
checked in `requests` and `audit`, where all calls may have been made, and in
`tree`, where two executors that call the tree really can block each other.

Fairness of `ControlPlane`. `FairSpec` assumes only `WF_vars(Advance)`: a thread that holds the
service lock keeps executing (its steps are a loop over a finite list and file
writes), unless it is in a call of an enforcer in `Untimed` (`Hanging`). The control
program of the eBPF enforcer is run with a timeout and the cgroup enforcer's wait is
bounded, but the Cilium enforcer runs kubectl without one (`cilium_enforcer.py:33-39`),
so its calls are not assumed to end: `OperationsReturn` allows for it, and
`FulfilsAuthority` does not need it, as the runtime is fenced before any enforcer is
called. That this fence ends is fairness of `ExecutionLeases`: executors under the
runtime's lock, and the broker's terminators, return. Nothing is assumed of operators,
of crashes, of the clock, or of
halts being applied.

Fairness of `ExecutionLeases`. `FairSpec` assumes that the executor a thread is in returns
(`SF(Release(w))`, where the thread's first lock is given back), that a thread past its
entry into gateway, store or broker goes on (`SF(ContinueWorker(w))`), and
that the containment thread does. It is strong fairness, because what they wait
for is a lock that others take and release over and over: `RLock` is not a queue,
but a waiter that is woken each time does not lose every time. Without it nothing
in the code bounds how long a containment waits; and no executor is interrupted,
so without `Release` a containment never returns, as the comment of
`execute_if_active` says. `drain` takes the store
without a runtime because its lock is then held on its own, so that a containment
past the runtime's lock still has to wait for it, whether the revocation then fails
or not. When threads have closed a circle, nobody can go on, whatever is assumed;
`ContainReturns` says that nothing else keeps a containment.

Fairness of `AgentTree` and `Requests`. In both it is strong for what waits for
a lock, as above, and weak for the rest: an executor returns, the accept loop
runs until it fails, and then the daemon closes the socket; a peer sends its request,
or the socket's timeout ends the wait. That timeout of two seconds is for each
`recv`, so a peer that sends a little at a time holds its slot for longer, but not
for ever, as a request has a size limit. Both take it that no enforcer hangs with
the lock they are about: a hung kubectl is `ControlPlane`'s. Nobody is assumed to call, to halt or to recover.

## 5. What the models show to be otherwise

Two runs end in a violation, each of something the repository says.

1. `restart_recontained`: `contain` of an already contained agent writes fence
   n+1 and dies before its incident is written. `register` reconciles a newer
   fence with a RECOVERED incident only; here it restores the runtime at n+1
   and then at n, and raises. No contained runtime passes both checks.
2. `partial_release`: a recovery that fails to release one boundary puts the
   fence back but leaves open the boundaries it did release.

Neither makes a contained agent executable: `core` checks, and
`ControlPlaneProofs` proves, `ContainmentSticks` in their presence.

Others have no run of their own. For most, a property is stated under a
condition, and TLC finds it violated when the condition is dropped; the name of
the property and the condition are in parentheses:

* `contain` reads `next_epoch` before `Runtime.contain` advances the epoch. A HALT
  applied in between makes fence and incident id name n while incident and
  runtime are at n+1: reconciliation, and `register` after a restart, refuse the
  mismatch (`RestartAdmits` under `halt`).
* `latest_for_agent` orders incidents by `time()`: an incident rebuilt from a
  fence after the clock stepped back, or in the same tick, is not the latest, and
  the next restart tries to record its id again (`RestartAdmits` under `clock`).
* `CredentialStore(runtime=None)`, the default, validates leases against its own
  epochs only, so after the fence its leases stay usable until `revoke_all` ran
  (`FenceStalesCredentials` with `Bound = FALSE`).
* In a bound store `issue` overwrites the credential's epoch with the runtime's,
  undoing the increment of `revoke`: issue, revoke, issue again, and the lease
  revoked is accepted (`RevokedIsDead` with `Bound = TRUE`). A change of the
  runtime makes it stale for good, so the fence is not weakened.
* Cilium reports an endpoint as enforced in both directions whenever any policy
  selects it, so with another policy in place a containment can be certified
  before a node has realized it (`VerifiedIsEnforced` with `Others # {}`).
* `policy.py` says that an unrelated action must not reset a chain; enough of them
  push its beginning out of the history, and a rule longer than the history never
  matches (`ChainsAreNotReset`).
* kubectl is run without a timeout, under the service lock: one that hangs keeps
  `contain` or `recover`, and every operation behind it, from returning
  (`OperationsReturn` without `Hanging`).
* Executors that call other components close circles of locks: one under the
  runtime's lock that registers a connection, against a registration; or one that
  uses a credential of a store without a runtime, against an executor of that store
  that asks the gateway (`ContainReturns` without `Circle`).
* A gateway that shares the engine evaluates without the service lock, so two
  callers can each be allowed half of a chain (`NoForbiddenChain` with
  `gatewayed`).
* `docs/CHILD_AGENT_CONTAINMENT.md` says that a contained parent cannot spawn a
  child; one contained directly, between `can_execute` and the insertion of the
  child, just did (`ContainedDoNotSpawn`).
* Executors that call the tree while a sweep holds its lock and waits for them
  never return (`ContainReturns` with `nested`).
* An action id with U+0085, U+2028 or U+2029 in it is written into one line and read
  back as several: `authorize` answers, its event cannot be read, and from then on the
  log never verifies and every authorization raises (`ReturnedIsEvidenced` without
  `cut`; `LogStaysIntact` says that the end is all that is lost).
* The chain is SHA-256 without a key. A last line rewritten, or lines appended, with
  recomputed hashes verify; and `record` continues such a file, so that what it
  writes vouches for the forged lines (`VerifiedIsWritten` as "what verifies is what
  was written", and with `forked`).
* When `Thread.start` raises, the slot taken for the connection is not given back and
  the exception ends `serve_forever` (`SlotsComeBack` without `listening`).
* An event appended behind a line that lost its end is unreadable together with
  that line, although `record` returned (`ReturnedIsEvidenced` with `glued`); a
  log cut at its end and continued verifies (`VerifiedIsWritten` with `forked`).
  It is enough that the file was short when the event was *composed*: put back
  before the event is appended, the file then holds a second event of an old
  number, and when the first one is deleted it verifies as another history.

## 6. Proofs

`ControlPlaneProofs` proves, for every number of enforcers and every value of
the bounds and switches (`ConstantsAssumption` says only that they are numbers
and, for `Settings`, sets of disturbances), that `IInv` is inductive (`Invariance`), and from it `TypeCorrect`,
`Sticking`, `Certification`, `Compensation`, `Authorized`, `LastStep`
and the refinement `Implementation` (`Spec => ImplementsAuthority`); and, of the
disturbances their properties name, `Refused` (`RefusedIncidentIsKnown`),
`Recoverable` (`ContainedIsRecoverable`) and `Readmission`
(`RestartAdmitsContained`).

Why `IInv` is needed. `ContainmentSticks` is not inductive: after recovery
committed the incident as RECOVERED and the process died, the debt is visible
in *no* durable record. `DebtInv` says that then the runtime is not ACTIVE, and
`register` refuses to create one (it wants an ACTIVE runtime at the recovery
epoch, which only an activated one has). `RecoveryInv` carries what `recover`
established from step to step: the fence stays clear, the incident stays the
one it is about, and some current authorization is for it. `AuthorizationInv`
says a current authorization is of an epoch already reached, so that a new
containment, which advances the epoch, voids it. `SweepInv` and `UndoInv`
summarise the loops over the enforcers and the compensation.

The last three rest on invariants of their own beside `IInv`. With a forward
clock, `IdsInv` orders the records: the latest incident has the greatest epoch on
record, and an id may be one ahead of the runtime only when a containment was cut
short behind its fence; so an id met again is the latest one's. `QuietInv`, for
settings without faults, follows one epoch through `contain`, `reconcile` and
`recover` and says when fence, incident and runtime have met at it. `OnceInv`, for
failing writes, says what a fence found on disk can mean: it is the latest
incident's, or above the epoch the recovery of that incident took, and then its
own incident is missing and can be rebuilt. Section 5 says what the disturbances
left out here do.

The proof that a step preserves `IInv` has one step per action. `NextType`
proves the types, `RegisterSettles` does the case analysis of `register`,
`NextInv` the rest; `NextImplements` maps each action to `Record`, `Revoke`,
`Admit`, `Grant`, `Recover` or a stutter.

`OperationsAreFinite` is the safety half of "operations return". `Left` counts, from
the stage of an operation (`Rank`) and the enforcers its sweep has yet to visit, at
least the steps the operation still takes by itself; every step of `Advance`, a
failed write or enforcer included, ends the operation or lowers it, and every
other step (decisions, attachments, the agent's halts) leaves the operation alone
or, as a crash does, ends it. So no error path leads back to an earlier stage. That
the steps are taken at all is fairness, and TLC's.

`ExecutionLeasesProofs` proves the same kind of facts for any set of threads,
credentials and connections (`LeaseConstants`): `Invariance`, `TypeCorrect`,
`EffectsAreAdmitted`, `SweepHolds`, `BoundLeasesGoStale` (from `Bound`),
`UnboundRevocationHolds` (from `~Bound`), `LocksAreOrdered` and the refinement
`Implementation`. `LocksAreOrdered` proves the second half of
`OnlyNestedCallsDeadlock`, what every circle has in common (`CirclesPassTheRuntime`),
for stores with and without a runtime; the first, that a holder of a
lock is stopped exactly when `Waits` says so, speaks of `ENABLED`, which the prover
does not handle.

Why its `IInv` is needed. `InFlightIsAdmitted` compares three numbers that
different steps set; `LeaseInv` ties the proof object to the generation
(`proof = gen + 1`, `l.proof = l.at + 1`), so that a lease is valid exactly in its
own generation, and `GrantInv` squeezes the decision between lease and start.
`LockInv` says which thread is where when a lock is held; it is what makes a
change of the runtime wait for an effect, and `TerminateAll` for a registration
already judged. `SweepInv` adds that nothing is swept while the runtime is
ACTIVE. `RevocationInv` is the epoch argument of a store without a runtime.

`NextType`, `NextLock`, `NextLease`, `NextInFlight`, `NextRevocation` and
`NextSweep` preserve one part each, one step per action. `Rotation` collects the
steps that change the runtime; `RefinedRotation`, `RefinedGrant` and
`RefinedEffect` map them and the others to `ExecutionFence`.

Two theorems go beyond the runs' properties. `CallingOutsideIsSafe` (from
`~RegisterInside` and `Bound \/ ~ActInside`): of the threads that hold a lock, one
waits for none. Its invariant `RegisteringOutside`, that nobody is in the broker
under another lock, breaks one kind of circle `LocksAreOrdered` describes, and that
no executor of a store asks the gateway breaks the other: a deadlock takes an
executor that calls another component.
`OnlyReissueRevives` (from `Bound`) says how far the reuse of epochs that section 5
describes goes: by `CurrentLeases` the store's epoch for an issued credential is that
of every lease this generation handed out for it, so a refused lease is accepted again only if its credential, revoked
meanwhile, is issued again in the same generation of the runtime.

`EgressAttachmentProofs` proves, for any set of programs and links and with or
without orphans (`EgressConstants`): `Invariance`, `TypeCorrect`, `Certified`
(`ContainedIsInForce`), `Released`, `PinKept` and the refinement `Implementation`.

Why its `IInv` is needed. That a certified containment is in force says nothing of
the programs that could still undo it. `StepInv` and `ChildInv` say which program
may be where during which call, so that without orphans the one program of the
call is all that moves; `AloneInv` says what the call has established so far
(an `attach` found no pin, so the pin its error path unlinks is its own);
`LinkInv` says that a pinned or opened link stays attached, which is why `verify`
of a pin it has open is worth something when it answers. `UndisturbedStep` lists
the steps a call that began alone can see; `RefinedNext` maps them to `Begin`,
`Move`, `Certify`, `Fail` or a stutter, and all others to `Disturb` and `Drift`.

`AuthorizationProofs` proves, for any set of handlers, processes and reviews and
every value of the bounds (`AuthorizationConstants`): `Invariance`, `TypeCorrect`,
`Current` (`AllowIsCurrent`), `SpentIsDead`, `CleanUpOfOwn` and `Verdicts`.

Why its `IInv` is needed. `AllowIsCurrent` is about everything that happened
between two looks at the agent, of which `authorize` compares a few fields. `SeenInv`
says what any change in between leaves behind: the token is gone, or the
runtime is HALTED, and only a containment, which takes the token, gets it out of
that. (So the comparison of epochs in the second look is redundant given that of
the digest.) `TokenInv` says that the identity is always the newest token, `OwnInv`
that an undisturbed register command still has the registration it made, and
`ReviewInv` that a review's state records the verdict told. `TokenStep`,
`RuntimeStep`, `AskingStep` and `AllowStep` say once what any step may do to
tokens, runtime, requests and decisions; the rest argues from them.

`BoundariesProofs` proves, for any set of processes and endpoints, with or
without late requests and other policies (`BoundariesConstants`): `Invariance`,
`Certified` (`CertifiedIsEnforced`), `ReleasedFirst` and, for clusters with other
policies, `OnlyOthersAreReached`: what stays reachable after a certificate is what
another policy answered for, and nothing else. `IInv` is needed because a
certificate is the sum of observations made at different times: `ContainInv` and
`ReleaseInv` say, step by step, which of them still hold in a sweep that has
noted no failure (an empty cgroup stays empty, since only a process in it forks;
a policy applied stays unless somebody meddles), `VerdictInv` that they survive
the report.

`AgentTreeProofs` proves, for trees of any size and any number of threads
(`TreeConstants`): `Invariance` and `Covered` (`NoOrphan`). `NoOrphan` says nothing while a
sweep runs; `CoverInv` closes that gap with `Pending`, what the sweep still has on
its stack. `LockInv` makes sure there is only one such sweep and no spawn beside
it, `StepInv` that a spawn past its look at the parent's state is not below a node
already covered.

`TreesHaveNoCircle` says of the records what every walk along them presumes: among
any nodes is one whose parent is not (`Forest`). Its invariant adds that a parent is
a node (`LinkInv`), so what `spawn` grafts is never above what is there (`Grafted`).
`TreeHasNoDeadlock` says, while executors do not call the tree (`~nested`), that of
the threads at work one waits for no lock. `HolderInv` says where the holder of the
tree's lock is; if it waits itself, it waits for a runtime, whose lock an executor
holds, and that one waits for nothing.
`Waits` spells out when a thread is stopped; it does not speak of `ENABLED`.

`RequestsProofs` proves, for any rules, limits, connections and gateways
(`PolicyConstants`, `RequestsConstants`): `Invariance`, `ChainsAreRefused`,
`HaltStays`, `SlotsAreReturned`, `Exact` (`MatchesIsExact`) and
`NothingForbiddenOccurs`. `NoForbiddenChain` is about the past, and the
engine sees its end only: `HistoryInv` says that what it remembers is the last
`HistoryLimit` operations of the past, `ViewInv` that without a gateway nobody
records on a view that has changed, `LockInv` why. `SlotInv` counts the slot that is
lost with the accept loop.

`Exact` says what the engine's pass over the history computes, for every rule and
every sequence. The pass is a function of the position defined by its value one
position earlier; `LongestStart`, `LongestIsOne` and `LongestStep` say that the value
at i is the number of leading operations of the rule that occur in order among
the first i. Going from one position to all takes induction, and the library's
induction theorems take an operator the provers cannot instantiate. `Least` gets a
least element of any set of numbers from the library's theorem that the finite
sets are well-founded by inclusion, and `SetInduction` states induction as a fact
about *sets* of numbers, which can be instantiated. `PassIsExact` applies it twice,
to the positions at which a longest chain exists and to those at which the pass
has found it; `SuffixIsExact` treats consecutive rules, `MatchesDecides` joins
them. `NothingForbiddenOccurs` is `NoForbiddenChain` with `Occurs` for `Matches`.

Both are about a bounded view of the past. `OnlyGapsAreForgotten` says what the
bound costs in a service that evaluates alone: a consecutive chain no longer than
the history and the next operation together never ends anywhere in *all* that was
allowed, and before the history overflows no chain does; so what can slip through
is a chain with gaps whose beginning was forgotten (`ForgettingOnlyAllows`), or a
rule too long for the history. Of the latter `LongRulesRefuseNothing` says that it
refuses nothing at all; `TooFewPlaces` takes that from the pigeonhole theorem of the
library.

`AuditTrailProofs` proves, for any number of callers, calls and changes
(`AuditConstants`): `Invariance` and `Evidenced` (`ReturnedIsEvidenced`). Its `Inv` has
to follow an event from the write to the answer: `CallInv` says that the lock's
holder writes its own event, `RecordInv` that what is on record stays there
until somebody changes the file or an event lands on a line without its end, if it
was written in one line (`cut` has the others).

Its `VerifiedWritten` (`VerifiedIsWritten`) assumes nothing of who changes the file,
as hashes are no secret: it rests on the hash of an event fixing what is before it.
`ChainInv` (`Chained`) carries that the events written, unless one was written behind
a changed file, verify by themselves. The file and they are then two logs that
verify; where they share an event they agree on its place, and by `SameBefore` on
all before it: of two verifying logs, each with the same line at i, the last
difference before i would be one between two lines of the same hash. What is behind
the last event of record nothing fixes, and nothing is claimed of it.

`LogStaysIntact` is the converse: a log that nobody changed is not refused, except
for an end that cannot be read, torn or broken by its own text, and unless text
landed behind a line without its end the file is exactly what was written, with at
most such an end behind it. `IntactInv` adds what
the lock gives: a call that verified the file still finds it verified when it
writes, and the event it composed still continues it.

Only model-checked. What speaks of fairness: `OperationsReturn` and
`FulfilsAuthority` of `ControlPlane`, `ContainReturns` of `ExecutionLeases` and of
`AgentTree`, `CallsEnd` of `Requests`; the prover has no rules for `WF` and `SF`
over a model like these. (`OperationsAreFinite`, `CallingOutsideIsSafe` and
`TreeHasNoDeadlock` prove what these need of safety: no operation starts over, and
somebody can always go on.) And the half of `OnlyNestedCallsDeadlock`
that speaks of `ENABLED`. All other properties of the passing runs are
proved, for every value of the constants that the named assumptions admit
(`FenceStalesCredentials` and `RevokedIsDead` for the `Bound` of their runs).

## 7. Not modelled

* Power failure of the machine: the registries fsync the file but not its
  directory (`runtime_fence.py:99`), so a replacement may be lost. Corrupted
  registry files: loading one raises, and no service starts.
* The content of reports, audit records, governance events and receipts; the
  audit records of other operations than `authorize` and `contain`, which fail as
  `authorize` does or, in `recover`, are swallowed.
* The incident evidence chain: the algorithm of the audit log in memory. Nothing
  in the service appends to it but the recorder it is handed to, and `append`
  takes no lock.
* Proof receipts: an HMAC, and a set of receipt ids in memory that a restart of the
  verifier forgets. Destination binding and egress policy: pure functions from
  destinations to decisions. Regression, replay, adapters and observations:
  formats and files around pure data.
* Several agents under one service (they share lock and files, and nothing
  else), except in `AgentTree`; executors that call the service while they hold
  a lock; executors inside executors inside executors; a HALT an executor brings on
  itself while it uses a credential.
* Process containment (`process.py`), a stage of `contain` that writes one file
  and may fail, and the broker's terminators: they only count as failures.
* That `verify` and `detach` refuse a link of a cgroup that was removed and made
  again: safety covers it, as a refusal, but not the dead end it leads to.
* That every `EgressAttachment` or `Boundaries` call ends. Those of the eBPF enforcer
  do by its subprocess timeouts; the Cilium enforcer has none, and a kubectl that
  hangs keeps its operation and the service lock (`Hanging` in `ControlPlane`).
* Message framing, peer credentials, the start of the daemon and the end of its
  process once the accept loop has ended and the socket is closed, which are I/O;
  demos.

## 8. Plan

Done: the core (`ControlPlane`), the execution side (`ExecutionLeases`), the
enforcers (`EgressAttachment`, `Boundaries`), identity, authorization and review
(`Authorization`), policy and transport (`PolicyEngine`, `Requests`), the agent
tree (`AgentTree`) and the audit log (`AuditTrail`), each checked and proved.
What is left, in this order:

1. `AgentTree` composed with `ControlPlane`: several agents under one service,
   a sweep whose containment of one node fails half-way.
2. The identity of cgroups in `EgressAttachment`, for the dead end named above.
3. Power failure as one more disturbance of `ControlPlane`: a registry that falls
   back to the file before the last replacement.
4. Destination binding, with name resolution changing between decision and
   connection.

`Boundaries` is not shown to implement `EnforcerContract`, as `EgressAttachment` is:
its boundaries also move after a call that failed (processes go on dying, nodes
realize a policy late), which the contract allows of a disturbed call only.
