---------------------------- MODULE Authorization ----------------------------
(***************************************************************************)
(* Identity, authorization and review for one agent: the identity token    *)
(* that a registration hands to a workload, the requests that present it,  *)
(* and the reviews a verifier asks for, while the agent is contained,      *)
(* recovered, unregistered and registered again.                           *)
(*                                                                         *)
(* What ContainmentService does under its lock is one step.  authorize     *)
(* takes the lock twice and leaves it in between, to ask whether the peer  *)
(* is in the agent's cgroup; a HALT is applied after the second time.  The *)
(* transport's register command is four calls of the service, and a fifth  *)
(* when one of them fails.  Recovery and the durable records are those of  *)
(* ControlPlane, reduced to what decides over a registration.              *)
(***************************************************************************)
EXTENDS Integers

CONSTANTS
  Handlers,    \* threads of the transport, each with one request at a time
  Pids,        \* processes that connect to it
  Reviews,     \* ids of review requests
  None,
  MaxTokens,   \* bound: tokens issued
  MaxEpoch,    \* bound: no containment or HALT is begun at or above this epoch
  MaxRuntimes  \* bound: Runtime objects made

ASSUME AuthorizationConstants ==
  /\ None \notin Handlers \cup Pids
  /\ MaxTokens \in Nat /\ MaxEpoch \in Nat /\ MaxRuntimes \in Nat

VARIABLES
  registered,  \* the agent is in _agents
  rid,         \* its Runtime, numbered by creation
  state, epoch,
  record,      \* what the durable registries say: "none", "contained", "recovered"
  ident,       \* identity_digest, by the number of its token, and identity_pid
  workload,    \* identity_cgroup is set
  dir,         \* the agent's cgroup exists on the host
  minted,      \* tokens issued so far; they are random, here 1, 2, ...
  spent,       \* history: tokens up to this one were revoked or replaced
  pc, seen,    \* per handler: next step, what authorize remembers
  allowed,     \* history: handlers whose last decision is ALLOW
  overtaken,   \* history: handlers behind whose snapshot the agent has changed
  owner,       \* history: the handler still at work on the registration
  intruded,    \* history: handlers whose registration somebody else undid
  review,      \* state of each review
  said         \* history: decisions handed out for each review

agent == <<registered, rid, state, epoch, record, ident, workload>>
tokens == <<minted, spent>>
request == <<pc, seen, allowed>>
enrolment == <<owner, intruded>>
reviews == <<review, said>>
vars == <<registered, rid, state, epoch, record, ident, workload, dir, minted,
          spent, pc, seen, allowed, overtaken, owner, intruded, review, said>>

RuntimeStates == {"ACTIVE", "HALTED", "CONTAINED"}
NoIdentity == [token |-> 0, pid |-> None]
NoRequest == [token |-> 0, pid |-> None, epoch |-> 0, rid |-> 0, verified |-> FALSE]
Registering == {"creating", "attaching", "issuing", "cleaning"}
Asking == {"checking", "deciding"}
ReviewStates == {"none", "pending", "approved", "expired", "escalated"}

TypeOK ==
  /\ registered \in BOOLEAN /\ workload \in BOOLEAN /\ dir \in BOOLEAN
  /\ rid \in Nat /\ epoch \in Nat /\ minted \in Nat /\ spent \in Nat
  /\ state \in RuntimeStates
  /\ record \in {"none", "contained", "recovered"}
  /\ ident \in [token : Nat, pid : Pids \cup {None}]
  /\ pc \in [Handlers -> {"idle", "halting", "judging"} \cup Asking \cup Registering]
  /\ seen \in [Handlers -> [token : Nat, pid : Pids \cup {None}, epoch : Nat,
                            rid : Nat, verified : BOOLEAN]]
  /\ allowed \subseteq Handlers /\ overtaken \subseteq Handlers
  /\ owner \in Handlers \cup {None} /\ intruded \subseteq Handlers
  /\ review \in [Reviews -> ReviewStates]
  /\ said \in [Reviews -> SUBSET {"ALLOW", "HALT"}]

Init ==
  /\ registered = FALSE /\ workload = FALSE /\ dir = FALSE
  /\ rid = 0 /\ state = "ACTIVE" /\ epoch = 0 /\ record = "none"
  /\ ident = NoIdentity /\ minted = 0 /\ spent = 0
  /\ pc = [h \in Handlers |-> "idle"]
  /\ seen = [h \in Handlers |-> NoRequest]
  /\ allowed = {} /\ overtaken = {} /\ owner = None /\ intruded = {}
  /\ review = [r \in Reviews |-> "none"]
  /\ said = [r \in Reviews |-> {}]

Goto(h, step) == pc' = [pc EXCEPT ![h] = step]

-----------------------------------------------------------------------------
(***************************************************************************)
(* The agent, as the service changes it under its lock.                    *)
(***************************************************************************)

\* Every token issued so far is worthless from here on.
RevokeIdentity == ident' = NoIdentity /\ spent' = minted

SlipContained ==  \* keeps the identity
  /\ registered
  /\ state' = "CONTAINED" /\ epoch' = epoch + 1
  /\ record' \in {record, "contained"}
  /\ spent' = minted
  /\ UNCHANGED <<registered, rid, ident, workload, dir, minted, enrolment>>

\* contain.  Either durable write may fail.
Contained ==
  /\ registered
  /\ state' = "CONTAINED" /\ epoch' = epoch + 1
  /\ record' \in {record, "contained"}
  /\ RevokeIdentity
  /\ UNCHANGED <<registered, rid, workload, dir, minted, enrolment>>

\* A Runtime of register's own making.
NewRuntime ==
  /\ rid < MaxRuntimes
  /\ rid' = rid + 1
  /\ \/ record = "none" /\ state' = "ACTIVE" /\ epoch' = 0
     \/ record = "contained" /\ state' = "CONTAINED" /\ epoch' \in 0..epoch

\* The Runtime of the last registration, presented with its controller.
SameRuntime ==
  /\ record = "contained" => state # "ACTIVE"
  /\ record = "recovered" => state = "ACTIVE"
  /\ UNCHANGED <<rid, state, epoch>>

Registered ==
  /\ ~registered /\ registered' = TRUE
  /\ workload' = FALSE
  /\ RevokeIdentity
  /\ UNCHANGED <<record, dir, minted>>

\* Whoever is still at work on this registration loses it.
Unregistered ==
  /\ registered' = FALSE /\ workload' = FALSE
  /\ RevokeIdentity
  /\ owner' = None
  /\ UNCHANGED <<rid, state, epoch, record, dir, minted>>

\* create_workload: a cgroup that exists already is an error.
WorkloadCreated ==
  /\ registered /\ ~workload /\ ~dir
  /\ workload' = TRUE /\ dir' = TRUE

\* issue_identity_token
TokenIssued(pid) ==
  /\ registered /\ workload
  /\ minted < MaxTokens
  /\ minted' = minted + 1 /\ spent' = minted
  /\ ident' = [token |-> minted + 1, pid |-> pid]

-----------------------------------------------------------------------------
(***************************************************************************)
(* Operators of the service, each call under the lock.                     *)
(***************************************************************************)
Register ==
  /\ Registered
  /\ NewRuntime \/ SameRuntime
  /\ UNCHANGED <<request, enrolment, reviews>>

Unregister ==
  /\ Unregistered
  /\ intruded' = intruded \cup {h \in Handlers : pc[h] \in Registering}
  /\ UNCHANGED <<request, reviews>>

CreateWorkload ==
  /\ WorkloadCreated
  /\ UNCHANGED <<registered, rid, state, epoch, record, ident,
                 tokens, request, enrolment, reviews>>

IssueIdentityToken ==
  /\ \E pid \in Pids \cup {None} : TokenIssued(pid)
  /\ UNCHANGED <<registered, rid, state, epoch, record, workload, dir,
                 request, enrolment, reviews>>

Contain ==
  /\ epoch < MaxEpoch
  /\ Contained
  /\ UNCHANGED <<request, reviews>>

Recover ==
  /\ registered /\ state = "CONTAINED" /\ record = "contained"
  /\ state' = "ACTIVE" /\ epoch' = epoch + 1 /\ record' = "recovered"
  /\ UNCHANGED <<registered, rid, ident, workload, dir, tokens, request,
                 enrolment, reviews>>

\* An empty cgroup is removed by hand; no code of the controller does it.
RemoveCgroup ==
  /\ dir /\ dir' = FALSE
  /\ UNCHANGED <<agent, tokens, request, enrolment, reviews>>

-----------------------------------------------------------------------------
(***************************************************************************)
(* authorize and authorize_verified.  A request that fails a check is      *)
(* denied and changes nothing, so only those that pass have a step.        *)
(***************************************************************************)

\* The snapshot, and what is checked against it alone.
Authorize(h) ==
  /\ pc[h] = "idle"
  /\ registered /\ workload
  /\ \E token \in 1..minted, peer \in Pids, verified \in BOOLEAN :
       /\ ident.token = token
       /\ ident.pid \in {None, peer}
       /\ state = "ACTIVE"
       /\ seen' = [seen EXCEPT ![h] =
            [token |-> token, pid |-> ident.pid, epoch |-> epoch, rid |-> rid,
             verified |-> verified]]
  /\ Goto(h, "checking")
  /\ allowed' = allowed \ {h}
  /\ UNCHANGED <<agent, dir, tokens, enrolment, reviews>>

Return(h) == Goto(h, "idle") /\ seen' = [seen EXCEPT ![h] = NoRequest]

\* cgroup_membership, without the lock.
CheckMembership(h) ==
  /\ pc[h] = "checking"
  /\ \/ dir /\ Goto(h, "deciding") /\ UNCHANGED seen
     \/ Return(h)
  /\ UNCHANGED <<agent, dir, tokens, allowed, enrolment, reviews>>

SlipUnchanged(h) ==  \* revalidates the runtime and not the identity
  /\ registered /\ workload
  /\ state = "ACTIVE" /\ epoch = seen[h].epoch

Unchanged(h) ==
  /\ registered /\ workload
  /\ ident.token = seen[h].token /\ ident.pid = seen[h].pid
  /\ state = "ACTIVE" /\ epoch = seen[h].epoch

\* The policy may answer anything.
Decide(h) ==
  /\ pc[h] = "deciding"
  /\ \/ /\ Unchanged(h)
        /\ allowed' = allowed \cup {h}
        /\ IF seen[h].verified THEN Goto(h, "judging") /\ UNCHANGED seen
                               ELSE Return(h)
     \/ /\ Unchanged(h) /\ epoch < MaxEpoch
        /\ Goto(h, "halting")
        /\ UNCHANGED <<seen, allowed>>
     \/ Return(h) /\ UNCHANGED allowed
  /\ UNCHANGED <<agent, dir, tokens, enrolment, reviews>>

\* managed.containment.halt(), of the Runtime the snapshot was taken of.
Halt(h) ==
  /\ pc[h] = "halting"
  /\ IF seen[h].rid = rid
     THEN state' = "HALTED" /\ epoch' = epoch + 1
     ELSE UNCHANGED <<state, epoch>>
  /\ Return(h)
  /\ UNCHANGED <<registered, rid, record, ident, workload, dir, tokens,
                 allowed, enrolment, reviews>>

\* The verifier's disposition of the action: anything else it says allows.
Dispositions == {"allow", "block", "requireReview"}

ReviewCreated ==
  \E r \in Reviews :
    review[r] = "none" /\ review' = [review EXCEPT ![r] = "pending"]

\* authorize_verified, after an ALLOW of authorize.  A block contains the agent,
\* or raises if it is gone.
Judge(h) ==
  /\ pc[h] = "judging"
  /\ Return(h)
  /\ \E d \in Dispositions :
       /\ allowed' = IF d = "allow" THEN allowed ELSE allowed \ {h}
       /\ \/ /\ d = "allow" \/ (d = "block" /\ ~registered)
             /\ UNCHANGED <<agent, dir, tokens, enrolment, reviews>>
          \/ /\ d = "block" /\ epoch < MaxEpoch
             /\ Contained
             /\ UNCHANGED reviews
          \/ /\ d = "requireReview"
             /\ ReviewCreated
             /\ UNCHANGED <<agent, dir, tokens, enrolment, said>>

-----------------------------------------------------------------------------
(***************************************************************************)
(* The register command of the transport.                                  *)
(***************************************************************************)
SlipRegisterWorkload(h) ==  \* the registration itself is inside the try
  /\ pc[h] = "idle"
  /\ \/ /\ Registered /\ NewRuntime
        /\ Goto(h, "creating") /\ owner' = h
     \/ /\ registered
        /\ Goto(h, "cleaning")
        /\ UNCHANGED <<agent, dir, tokens, owner>>
  /\ UNCHANGED <<seen, allowed, intruded, reviews>>

\* A register that raises ends the request: there is nothing to undo, unless it
\* raised while it recorded the registration, which then stays.
RegisterWorkload(h) ==
  /\ pc[h] = "idle"
  /\ Registered /\ NewRuntime
  /\ \/ Goto(h, "creating") /\ owner' = h
     \/ UNCHANGED <<pc, owner>>
  /\ UNCHANGED <<seen, allowed, intruded, reviews>>

\* The end of a registration that was not undone.
Complete(h) ==
  /\ Goto(h, "idle")
  /\ owner' = IF owner = h THEN None ELSE owner
  /\ intruded' = intruded \ {h}

Fail(h) == Goto(h, "cleaning") /\ UNCHANGED enrolment

\* Without a workload_pid the registration ends here.  The audit record that
\* follows the creation may fail.
CreateFor(h) ==
  /\ pc[h] = "creating"
  /\ \/ /\ WorkloadCreated
        /\ \/ Complete(h)
           \/ Goto(h, "attaching") /\ UNCHANGED enrolment
           \/ Fail(h)
     \/ Fail(h) /\ UNCHANGED <<workload, dir>>
  /\ UNCHANGED <<registered, rid, state, epoch, record, ident, tokens, seen,
                 allowed, reviews>>

\* Writing the pid to cgroup.procs changes no state of the controller.
AttachFor(h) ==
  /\ pc[h] = "attaching"
  /\ \/ registered /\ workload /\ dir /\ Goto(h, "issuing") /\ UNCHANGED enrolment
     \/ Fail(h)
  /\ UNCHANGED <<agent, dir, tokens, seen, allowed, reviews>>

IssueFor(h) ==
  /\ pc[h] = "issuing"
  /\ \/ (\E pid \in Pids : TokenIssued(pid)) /\ Complete(h)
     \/ ~(registered /\ workload) /\ Fail(h) /\ UNCHANGED <<ident, tokens>>
  /\ UNCHANGED <<registered, rid, state, epoch, record, workload, dir, seen,
                 allowed, reviews>>

CleanUp(h) ==
  /\ pc[h] = "cleaning"
  /\ Unregistered
  /\ Goto(h, "idle")
  /\ intruded' = (intruded \cup {g \in Handlers : pc[g] \in Registering}) \ {h}
  /\ UNCHANGED <<seen, allowed, reviews>>

-----------------------------------------------------------------------------
(***************************************************************************)
(* Reviews.  The wall clock decides whether a pending one has expired.     *)
(***************************************************************************)
Looked(r) == IF review[r] = "pending" THEN {"pending", "expired"} ELSE {review[r]}

View(r) ==
  /\ review[r] # "none"
  /\ \E s \in Looked(r) : review' = [review EXCEPT ![r] = s]
  /\ UNCHANGED <<agent, dir, tokens, request, enrolment, said>>

\* Approves what is pending; finding it expired, it leaves it so and raises.
ApproveReview(r) ==
  /\ "pending" \in Looked(r)
  /\ review' = [review EXCEPT ![r] = "approved"]
  /\ said' = [said EXCEPT ![r] = @ \cup {"ALLOW"}]
  /\ UNCHANGED <<agent, dir, tokens, request, enrolment>>

SlipEscalateReview(r) ==  \* escalates what was approved
  /\ review[r] # "none"
  /\ review' = [review EXCEPT ![r] = "escalated"]
  /\ \/ /\ epoch < MaxEpoch
        /\ Contained
        /\ said' = [said EXCEPT ![r] = @ \cup {"HALT"}]
     \/ ~registered /\ UNCHANGED <<agent, dir, tokens, enrolment, said>>
  /\ UNCHANGED request

\* Marks it first; contain raises if the agent is gone.
EscalateReview(r) ==
  /\ review[r] \notin {"none", "approved"}
  /\ review' = [review EXCEPT ![r] = "escalated"]
  /\ \/ /\ epoch < MaxEpoch
        /\ Contained
        /\ said' = [said EXCEPT ![r] = @ \cup {"HALT"}]
     \/ ~registered /\ UNCHANGED <<agent, dir, tokens, enrolment, said>>
  /\ UNCHANGED request

\* The controller process ends; the host and the durable records stay.
Crash ==
  /\ registered' = FALSE /\ workload' = FALSE
  /\ state' = "ACTIVE" /\ UNCHANGED <<rid, epoch, record, dir, minted>>
  /\ RevokeIdentity
  /\ pc' = [h \in Handlers |-> "idle"]
  /\ seen' = [h \in Handlers |-> NoRequest]
  /\ allowed' = {} /\ owner' = None /\ intruded' = {}
  /\ review' = [r \in Reviews |-> "none"]
  /\ said' = [r \in Reviews |-> {}]

Operator ==
  \/ Register \/ Unregister \/ CreateWorkload \/ IssueIdentityToken
  \/ Contain \/ Recover \/ RemoveCgroup \/ Crash

Handler(h) ==
  \/ Authorize(h) \/ CheckMembership(h) \/ Decide(h) \/ Halt(h) \/ Judge(h)
  \/ RegisterWorkload(h) \/ CreateFor(h) \/ AttachFor(h) \/ IssueFor(h) \/ CleanUp(h)

Reviewer(r) == View(r) \/ ApproveReview(r) \/ EscalateReview(r)

Trusted == <<registered, rid, state, epoch, ident>>

Overtake ==
  overtaken' = {h \in Handlers :
    /\ pc'[h] \in Asking /\ pc[h] \in Asking
    /\ h \in overtaken \/ Trusted' # Trusted}

Step == Operator \/ (\E h \in Handlers : Handler(h)) \/ (\E r \in Reviews : Reviewer(r))

Next == Step /\ Overtake

Spec == Init /\ [][Next]_vars
-----------------------------------------------------------------------------
\* authorize answers ALLOW as if it had held the lock throughout: since its
\* snapshot the agent was not contained, halted, recovered, registered anew or
\* given another token ("This prevents a stale ALLOW").
AllowIsCurrent == [][\A h \in allowed' \ allowed : h \notin overtaken]_vars

\* A token revoked by a containment, replaced, or of an earlier registration is
\* never again answered with ALLOW, after recovery or re-registration either
\* ("every credential issued before containment must become unusable, including
\* after recovery").
SpentTokensStayDead ==
  [][\A h \in allowed' \ allowed : seen[h].token > spent]_vars

\* A register command that fails removes its own, incomplete registration and
\* never one that a racing command made, unless somebody else unregistered the
\* agent under its hands.
CleanUpIsOwn ==
  [][\A h \in Handlers :
       /\ pc[h] = "cleaning" /\ pc'[h] = "idle"
       /\ registered /\ h \notin intruded
       => owner = h]_vars

\* Of operators who race to decide a review, none is told ALLOW if another is
\* told that it was escalated to containment.
OneVerdict == \A r \in Reviews : said[r] # {"ALLOW", "HALT"}

(***************************************************************************)
(* The invariant the proofs rest on.                                       *)
(***************************************************************************)

\* The identity is that of the last token, and of no spent one.
TokenInv ==
  /\ spent <= minted
  /\ ident.token # 0 => registered /\ ident.token = minted /\ spent < minted

\* A request authorize still works on holds a token that was issued, and saw the
\* agent ACTIVE; if the agent has changed since, it lost that token or was
\* halted, which only a containment can undo.
SeenInv ==
  \A h \in Handlers : pc[h] \in Asking =>
    /\ seen[h].token \in 1..minted
    /\ h \notin overtaken => state = "ACTIVE"
    /\ h \in overtaken /\ ident.token = seen[h].token => state = "HALTED"

OwnInv ==
  \A h \in Handlers :
    pc[h] \in Registering /\ h \notin intruded => registered /\ owner = h

ReviewInv ==
  \A r \in Reviews :
    /\ "ALLOW" \in said[r] => review[r] = "approved"
    /\ "HALT" \in said[r] => review[r] = "escalated"

IInv == TypeOK /\ TokenInv /\ SeenInv /\ OwnInv /\ ReviewInv
=============================================================================
