------------------------ MODULE AuthorizationProofs ------------------------
(***************************************************************************)
(* Theorems about Authorization, for any number of handlers, processes and *)
(* reviews and every value of the bounds.                                  *)
(***************************************************************************)
EXTENDS Authorization, TLAPS

USE AuthorizationConstants
USE DEF agent, tokens, request, enrolment, reviews

\* Nobody is registered, and nothing was asked, issued or reviewed.
LEMMA InitInv == Init => IInv
<1> SUFFICES ASSUME Init PROVE IInv
  OBVIOUS
<1> USE DEF Init
<1>1. TypeOK
  BY DEF TypeOK, NoIdentity, NoRequest, RuntimeStates, ReviewStates
<1>2. TokenInv
  BY DEF TokenInv, NoIdentity
<1>3. SeenInv /\ OwnInv
  BY DEF SeenInv, OwnInv, Asking, Registering
<1>4. ReviewInv
  BY DEF ReviewInv
<1> QED BY <1>1, <1>2, <1>3, <1>4 DEF IInv

Identities == [token : Nat, pid : Pids \cup {None}]
Requests == [token : Nat, pid : Pids \cup {None}, epoch : Nat, rid : Nat, verified : BOOLEAN]
Stages == {"idle", "halting", "judging"} \cup Asking \cup Registering

\* TypeOK in two parts: what the service changes, and the rest.
AgentType ==
  /\ registered \in BOOLEAN /\ workload \in BOOLEAN /\ dir \in BOOLEAN
  /\ rid \in Nat /\ epoch \in Nat /\ minted \in Nat /\ spent \in Nat
  /\ state \in RuntimeStates
  /\ record \in {"none", "contained", "recovered"}
  /\ ident \in Identities

RequestType ==
  /\ pc \in [Handlers -> Stages] /\ seen \in [Handlers -> Requests]
  /\ allowed \subseteq Handlers
  /\ owner \in Handlers \cup {None} /\ intruded \subseteq Handlers
  /\ review \in [Reviews -> ReviewStates]
  /\ said \in [Reviews -> SUBSET {"ALLOW", "HALT"}]

\* The types of the agent and those of the requests, proved separately.
LEMMA TypeParts ==
  /\ TypeOK => AgentType /\ RequestType
  /\ AgentType' /\ RequestType' /\ (overtaken \subseteq Handlers)' => TypeOK'
BY DEF TypeOK, AgentType, RequestType, Identities, Requests, Stages

\* The calls of the service keep the types of what they change.
LEMMA CallTypes ==
  ASSUME AgentType
  PROVE  /\ Contained => AgentType'
         /\ Unregistered => AgentType'
         /\ Registered /\ (NewRuntime \/ SameRuntime) => AgentType'
<1> USE DEF AgentType, Identities, NoIdentity, RuntimeStates, RevokeIdentity
<1>1. Contained => AgentType'
  BY DEF Contained
<1>2. ASSUME Unregistered PROVE AgentType'
  <2>1. registered' \in BOOLEAN /\ workload' \in BOOLEAN /\ dir' \in BOOLEAN
    BY <1>2 DEF Unregistered
  <2> QED BY <1>2, <2>1 DEF Unregistered
<1>3. ASSUME Registered, NewRuntime \/ SameRuntime PROVE AgentType'
  <2>1. registered' \in BOOLEAN /\ workload' \in BOOLEAN /\ dir' \in BOOLEAN
    BY <1>3 DEF Registered
  <2>2. rid' \in Nat /\ epoch' \in Nat /\ state' \in RuntimeStates
    BY <1>3 DEF NewRuntime, SameRuntime
  <2> QED BY <1>3, <2>1, <2>2 DEF Registered
<1> QED BY <1>1, <1>2, <1>3

\* Every call and every step of a request keeps the types of the agent.
LEMMA StepAgentType == AgentType /\ Step => AgentType'
<1> SUFFICES ASSUME AgentType, Step PROVE AgentType'
  OBVIOUS
<1>1. ASSUME UNCHANGED <<agent, dir, tokens>> PROVE AgentType'
  BY <1>1 DEF AgentType
<1>2. ASSUME UNCHANGED <<registered, rid, state, epoch, record, workload, dir>>,
             NEW pid \in Pids \cup {None}, TokenIssued(pid)
      PROVE  AgentType'
  BY <1>2 DEF AgentType, Identities, TokenIssued
<1>3. ASSUME UNCHANGED <<registered, rid, state, epoch, record, ident, tokens>>,
             WorkloadCreated
      PROVE  AgentType'
  BY <1>3 DEF AgentType, WorkloadCreated
<1>4. CASE Operator
  <2>1. CASE Register
    BY <2>1, CallTypes DEF Register
  <2>2. CASE Unregister
    BY <2>2, CallTypes DEF Unregister
  <2>3. CASE CreateWorkload
    BY <2>3, <1>3 DEF CreateWorkload
  <2>4. CASE IssueIdentityToken
    BY <2>4, <1>2 DEF IssueIdentityToken
  <2>5. CASE Contain
    BY <2>5, CallTypes DEF Contain
  <2>6. CASE Recover
    BY <2>6 DEF Recover, AgentType, RuntimeStates
  <2>7. CASE RemoveCgroup
    BY <2>7 DEF RemoveCgroup, AgentType
  <2>8. CASE Crash
    BY <2>8 DEF Crash, AgentType, RevokeIdentity, NoIdentity, Identities, RuntimeStates
  <2> QED BY <1>4, <2>1, <2>2, <2>3, <2>4, <2>5, <2>6, <2>7, <2>8 DEF Operator
<1>5. ASSUME NEW h \in Handlers, Handler(h) PROVE AgentType'
  <2>1. CASE Authorize(h)
    BY <2>1, <1>1 DEF Authorize
  <2>2. CASE CheckMembership(h)
    BY <2>2, <1>1 DEF CheckMembership
  <2>3. CASE Decide(h)
    BY <2>3, <1>1 DEF Decide
  <2>4. CASE Halt(h)
    BY <2>4 DEF Halt, AgentType, RuntimeStates
  <2>5. CASE Judge(h)
    BY <2>5, <1>1, CallTypes DEF Judge
  <2>6. CASE RegisterWorkload(h)
    BY <2>6, CallTypes DEF RegisterWorkload
  <2>7. CASE CreateFor(h)
    BY <2>7, <1>1, <1>3 DEF CreateFor
  <2>8. CASE AttachFor(h)
    BY <2>8, <1>1 DEF AttachFor
  <2>9. CASE IssueFor(h)
    BY <2>9, <1>1, <1>2 DEF IssueFor
  <2>10. CASE CleanUp(h)
    BY <2>10, CallTypes DEF CleanUp
  <2> QED BY <1>5, <2>1, <2>2, <2>3, <2>4, <2>5, <2>6, <2>7, <2>8, <2>9, <2>10 DEF Handler
<1>6. ASSUME NEW r \in Reviews, Reviewer(r) PROVE AgentType'
  <2>1. CASE View(r)
    BY <2>1, <1>1 DEF View
  <2>2. CASE ApproveReview(r)
    BY <2>2, <1>1 DEF ApproveReview
  <2>3. CASE EscalateReview(r)
    BY <2>3, <1>1, CallTypes DEF EscalateReview
  <2> QED BY <1>6, <2>1, <2>2, <2>3 DEF Reviewer
<1> QED BY <1>4, <1>5, <1>6 DEF Step

\* Steps of a request keep the types of requests.
LEMMA HandlerRequestType ==
  ASSUME RequestType, NEW h \in Handlers, Handler(h), AgentType PROVE RequestType'
<1>1. \A s \in Stages : Goto(h, s) => pc' \in [Handlers -> Stages]
  BY DEF RequestType, Goto
<1>2. Return(h) => pc' \in [Handlers -> Stages] /\ seen' \in [Handlers -> Requests]
  BY DEF RequestType, Goto, Return, Stages, Requests, NoRequest
<1>3. Complete(h) => /\ pc' \in [Handlers -> Stages]
                     /\ owner' \in Handlers \cup {None} /\ intruded' \subseteq Handlers
  BY DEF RequestType, Complete, Goto, Stages
<1>4. Fail(h) => /\ pc' \in [Handlers -> Stages]
                 /\ owner' \in Handlers \cup {None} /\ intruded' \subseteq Handlers
  BY DEF RequestType, Fail, Goto, Stages, Registering
<1>5. Contained => UNCHANGED enrolment
  BY DEF Contained
<1> USE DEF RequestType
<1>6. CASE Authorize(h)
  BY <1>1, <1>6 DEF Authorize, Stages, Asking, Requests, AgentType, Identities
<1>7. CASE CheckMembership(h)
  BY <1>1, <1>2, <1>7 DEF CheckMembership, Stages, Asking
<1>8. CASE Decide(h)
  BY <1>1, <1>2, <1>8 DEF Decide, Stages
<1>9. CASE Halt(h)
  BY <1>2, <1>9 DEF Halt
<1>10. CASE Judge(h)
  BY <1>2, <1>5, <1>10 DEF Judge, ReviewCreated, ReviewStates
<1>11. CASE RegisterWorkload(h)
  BY <1>1, <1>11 DEF RegisterWorkload, Stages, Registering
<1>12. CASE CreateFor(h)
  BY <1>1, <1>3, <1>4, <1>12 DEF CreateFor, Stages, Registering
<1>13. CASE AttachFor(h)
  BY <1>1, <1>4, <1>13 DEF AttachFor, Stages, Registering
<1>14. CASE IssueFor(h)
  BY <1>3, <1>4, <1>14 DEF IssueFor
<1>15. CASE CleanUp(h)
  BY <1>1, <1>15 DEF CleanUp, Unregistered, Stages
<1> QED BY <1>6, <1>7, <1>8, <1>9, <1>10, <1>11, <1>12, <1>13, <1>14, <1>15 DEF Handler

\* Every step keeps the types.
LEMMA NextType == TypeOK /\ [Next]_vars => TypeOK'
<1> SUFFICES ASSUME TypeOK, [Next]_vars PROVE TypeOK'
  OBVIOUS
<1>1. AgentType /\ RequestType
  BY TypeParts
<1>2. CASE UNCHANGED vars
  BY <1>2 DEF vars, TypeOK
<1>3. CASE Next
  <2>1. AgentType' /\ (overtaken \subseteq Handlers)'
    BY <1>1, <1>3, StepAgentType DEF Next, Overtake
  <2>2. ASSUME Operator PROVE RequestType'
    <3>1. CASE Unregister
      BY <1>1, <3>1 DEF Unregister, Unregistered, RequestType
    <3>2. CASE Crash
      BY <1>1, <3>2 DEF Crash, RequestType, NoRequest, Requests, Stages, ReviewStates
    <3>3. CASE Contain
      BY <1>1, <3>3 DEF Contain, Contained, RequestType
    <3> QED BY <1>1, <2>2, <3>1, <3>2, <3>3
         DEF Operator, Register, CreateWorkload, IssueIdentityToken, Recover, RemoveCgroup, RequestType
  <2>3. ASSUME NEW r \in Reviews, Reviewer(r) PROVE RequestType'
    BY <1>1, <2>3 DEF Reviewer, View, Looked, ApproveReview, EscalateReview, Contained, RequestType, ReviewStates
  <2>4. RequestType'
    BY <1>1, <1>3, <2>2, <2>3, HandlerRequestType DEF Next, Step
  <2> QED BY <2>1, <2>4, TypeParts
<1> QED BY <1>2, <1>3

-----------------------------------------------------------------------------
\* A step leaves the token alone, clears it, or issues the next one; spent tokens
\* stay spent.
LEMMA TokenStep ==
  ASSUME TypeOK, Step
  PROVE  \/ UNCHANGED <<minted, spent>> /\ ident' = ident /\ registered' = registered
         \/ minted' = minted /\ spent' = minted /\ ident' = NoIdentity
         \/ /\ minted' = minted + 1 /\ spent' = minted
            /\ ident'.token = minted + 1 /\ registered /\ registered'
<1> USE DEF TypeOK
<1>1. CASE Operator
  BY <1>1 DEF Operator, Register, Registered, Unregister, Unregistered, CreateWorkload,
     WorkloadCreated, IssueIdentityToken, TokenIssued, Contain, Contained, Recover,
     RemoveCgroup, Crash, RevokeIdentity
<1>2. ASSUME NEW h \in Handlers, Handler(h)
      PROVE  \/ UNCHANGED <<minted, spent>> /\ ident' = ident /\ registered' = registered
             \/ minted' = minted /\ spent' = minted /\ ident' = NoIdentity
             \/ /\ minted' = minted + 1 /\ spent' = minted
                /\ ident'.token = minted + 1 /\ registered /\ registered'
  BY <1>2 DEF Handler, Authorize, CheckMembership, Decide, Halt, Judge, Contained,
     RegisterWorkload, Registered, CreateFor, AttachFor, IssueFor, TokenIssued, CleanUp,
     Unregistered, RevokeIdentity
<1>3. ASSUME NEW r \in Reviews, Reviewer(r)
      PROVE  \/ UNCHANGED <<minted, spent>> /\ ident' = ident /\ registered' = registered
             \/ minted' = minted /\ spent' = minted /\ ident' = NoIdentity
  BY <1>3 DEF Reviewer, View, ApproveReview, EscalateReview, Contained, RevokeIdentity
<1> QED BY <1>1, <1>2, <1>3 DEF Step

\* The identity is always that of the last token.
LEMMA NextToken == TypeOK /\ TokenInv /\ [Next]_vars => TokenInv'
<1> SUFFICES ASSUME TypeOK, TokenInv, [Next]_vars PROVE TokenInv'
  OBVIOUS
<1>1. CASE UNCHANGED vars
  BY <1>1 DEF vars, TokenInv
<1>2. CASE Next
  BY <1>2, TokenStep DEF Next, TypeOK, TokenInv, NoIdentity
<1> QED BY <1>1, <1>2

\* The runtime of an agent that keeps its identity: only a HALT touches it, or
\* a recovery.
LEMMA RuntimeStep ==
  ASSUME TypeOK, Step, ident' = ident, ident.token # 0
  PROVE  \/ UNCHANGED <<registered, rid, state, epoch>>
         \/ state' = "HALTED" /\ registered' = registered
         \/ state = "CONTAINED"
<1> USE DEF TypeOK, NoIdentity
<1>1. CASE Operator
  BY <1>1 DEF Operator, Register, Registered, Unregister, Unregistered, CreateWorkload,
     WorkloadCreated, IssueIdentityToken, TokenIssued, Contain, Contained, Recover,
     RemoveCgroup, Crash, RevokeIdentity
<1>2. ASSUME NEW h \in Handlers, Handler(h)
      PROVE  \/ UNCHANGED <<registered, rid, state, epoch>>
             \/ state' = "HALTED" /\ registered' = registered
             \/ state = "CONTAINED"
  BY <1>2 DEF Handler, Authorize, CheckMembership, Decide, Halt, Judge, Contained,
     RegisterWorkload, Registered, CreateFor, AttachFor, IssueFor, TokenIssued, CleanUp,
     Unregistered, RevokeIdentity
<1>3. ASSUME NEW r \in Reviews, Reviewer(r)
      PROVE  UNCHANGED <<registered, rid, state, epoch>>
  BY <1>3 DEF Reviewer, View, ApproveReview, EscalateReview, Contained, RevokeIdentity
<1> QED BY <1>1, <1>2, <1>3 DEF Step

\* Only Authorize begins a request of authorize, and nothing changes what it
\* remembers.
LEMMA AskingStep ==
  ASSUME TypeOK, Step, NEW h \in Handlers, pc'[h] \in Asking
  PROVE  \/ pc[h] \in Asking /\ seen'[h] = seen[h]
         \/ pc[h] = "idle" /\ seen'[h].token \in 1..minted /\ state = "ACTIVE"
            /\ UNCHANGED <<agent, tokens>>
<1> USE DEF TypeOK, Asking, Registering
<1>1. CASE Operator
  BY <1>1 DEF Operator, Register, Unregister, CreateWorkload, IssueIdentityToken, Contain,
     Recover, RemoveCgroup, Crash
<1>2. ASSUME NEW g \in Handlers, Handler(g)
      PROVE  \/ pc[h] \in Asking /\ seen'[h] = seen[h]
             \/ pc[h] = "idle" /\ seen'[h].token \in 1..minted /\ state = "ACTIVE"
                /\ UNCHANGED <<agent, tokens>>
  <2>1. CASE Authorize(g)
    BY <2>1 DEF Authorize, Goto
  <2>2. CASE CheckMembership(g) \/ Decide(g) \/ Halt(g) \/ Judge(g)
    BY <2>2 DEF CheckMembership, Decide, Halt, Judge, Return, Goto
  <2>3. CASE RegisterWorkload(g) \/ CreateFor(g) \/ AttachFor(g) \/ IssueFor(g) \/ CleanUp(g)
    BY <2>3 DEF RegisterWorkload, CreateFor, AttachFor, IssueFor, CleanUp, Complete, Fail, Goto
  <2> QED BY <1>2, <2>1, <2>2, <2>3 DEF Handler
<1>3. ASSUME NEW r \in Reviews, Reviewer(r) PROVE pc' = pc /\ seen' = seen
  BY <1>3 DEF Reviewer, View, ApproveReview, EscalateReview
<1> QED BY <1>1, <1>2, <1>3 DEF Step

\* What authorize may rely on between its two looks at the agent.
LEMMA NextSeen == TypeOK /\ TokenInv /\ SeenInv /\ [Next]_vars => SeenInv'
<1> SUFFICES ASSUME TypeOK, TokenInv, SeenInv, [Next]_vars PROVE SeenInv'
  OBVIOUS
<1>1. CASE UNCHANGED vars
  BY <1>1 DEF vars, SeenInv
<1>2. CASE Next
  <2> SUFFICES ASSUME NEW h \in Handlers, pc'[h] \in Asking
               PROVE  /\ seen'[h].token \in 1..minted'
                      /\ h \notin overtaken' => state' = "ACTIVE"
                      /\ h \in overtaken' /\ ident'.token = seen'[h].token => state' = "HALTED"
    BY DEF SeenInv
  <2>1. Step /\ Overtake
    BY <1>2 DEF Next
  <2>2. h \in overtaken' <=> pc[h] \in Asking /\ (h \in overtaken \/ Trusted' # Trusted)
    BY <2>1 DEF Overtake
  <2>3. CASE pc[h] = "idle" /\ seen'[h].token \in 1..minted /\ state = "ACTIVE"
             /\ UNCHANGED <<agent, tokens>>
    BY <2>2, <2>3 DEF Asking
  <2>4. CASE pc[h] \in Asking /\ seen'[h] = seen[h]
    <3>1. seen[h].token \in 1..minted /\ minted' \in Nat /\ minted' >= minted
      BY <2>1, <2>4, TokenStep DEF SeenInv, TypeOK
    <3>2. h \notin overtaken' => state' = "ACTIVE"
      BY <2>2, <2>4 DEF SeenInv, Trusted
    <3>3. ASSUME h \in overtaken', ident'.token = seen[h].token PROVE state' = "HALTED"
      <4>1. ident' = ident
        BY <2>1, <3>1, <3>3, TokenStep DEF NoIdentity, TypeOK
      <4>2. state # "CONTAINED"
        BY <2>4, <3>3, <4>1 DEF SeenInv
      <4>3. UNCHANGED <<registered, rid, state, epoch>> \/ state' = "HALTED"
        BY <2>1, <3>1, <3>3, <4>1, <4>2, RuntimeStep
      <4>4. CASE UNCHANGED <<registered, rid, state, epoch>>
        BY <2>2, <2>4, <3>3, <4>1, <4>4 DEF SeenInv, Trusted
      <4> QED BY <4>3, <4>4
    <3>4. seen[h].token \in 1..minted'
      BY <3>1 DEF TypeOK
    <3> QED BY <2>4, <3>2, <3>3, <3>4
  <2> QED BY <2>1, <2>3, <2>4, AskingStep
<1> QED BY <1>1, <1>2

\* A registration that nobody undid is still the one its handler made.
LEMMA NextOwn == TypeOK /\ OwnInv /\ [Next]_vars => OwnInv'
<1> SUFFICES ASSUME TypeOK, OwnInv, [Next]_vars,
                    NEW h \in Handlers, pc'[h] \in Registering, h \notin intruded'
             PROVE  registered' /\ owner' = h
  BY DEF OwnInv
<1> USE DEF TypeOK, OwnInv, Registering
<1>1. CASE UNCHANGED vars
  BY <1>1 DEF vars
<1>2. CASE Operator
  BY <1>2 DEF Operator, Register, Registered, Unregister, CreateWorkload, IssueIdentityToken,
     Contain, Contained, Recover, RemoveCgroup, Crash
<1>3. ASSUME NEW g \in Handlers, Handler(g) PROVE registered' /\ owner' = h
  <2>1. CASE Authorize(g) \/ CheckMembership(g) \/ Decide(g) \/ Halt(g)
    BY <2>1 DEF Authorize, CheckMembership, Decide, Halt, Return, Goto, Asking
  <2>2. CASE Judge(g)
    BY <2>2 DEF Judge, Contained, Return, Goto
  <2>3. CASE RegisterWorkload(g)
    BY <2>3 DEF RegisterWorkload, Registered, Goto
  <2>4. CASE CreateFor(g)
    BY <2>4 DEF CreateFor, Complete, Fail, Goto
  <2>5. CASE AttachFor(g)
    BY <2>5 DEF AttachFor, Fail, Goto
  <2>6. CASE IssueFor(g)
    BY <2>6 DEF IssueFor, Complete, Fail, Goto
  <2>7. CASE CleanUp(g)
    BY <2>7 DEF CleanUp, Goto
  <2> QED BY <1>3, <2>1, <2>2, <2>3, <2>4, <2>5, <2>6, <2>7 DEF Handler
<1>4. ASSUME NEW r \in Reviews, Reviewer(r) PROVE registered' /\ owner' = h
  BY <1>4 DEF Reviewer, View, ApproveReview, EscalateReview, Contained
<1> QED BY <1>1, <1>2, <1>3, <1>4 DEF Next, Step

\* An answer given about a review is recorded in its state for good.
LEMMA NextReview == TypeOK /\ ReviewInv /\ [Next]_vars => ReviewInv'
<1> SUFFICES ASSUME TypeOK, ReviewInv, [Next]_vars PROVE ReviewInv'
  OBVIOUS
<1> USE DEF TypeOK, ReviewInv
<1>1. CASE UNCHANGED vars
  BY <1>1 DEF vars
<1>2. CASE Operator
  BY <1>2 DEF Operator, Register, Unregister, CreateWorkload, IssueIdentityToken, Contain,
     Recover, RemoveCgroup, Crash
<1>3. ASSUME NEW h \in Handlers, Handler(h) PROVE ReviewInv'
  <2>1. CASE Judge(h)
    BY <2>1 DEF Judge, ReviewCreated
  <2>2. CASE ~Judge(h)
    BY <1>3, <2>2 DEF Handler, Authorize, CheckMembership, Decide, Halt, RegisterWorkload,
       CreateFor, AttachFor, IssueFor, CleanUp
  <2> QED BY <2>1, <2>2
<1>4. ASSUME NEW r \in Reviews, Reviewer(r) PROVE ReviewInv'
  <2>1. CASE View(r)
    BY <2>1 DEF View, Looked
  <2>2. CASE ApproveReview(r)
    BY <2>2 DEF ApproveReview, Looked
  <2>3. CASE EscalateReview(r)
    BY <2>3 DEF EscalateReview
  <2> QED BY <1>4, <2>1, <2>2, <2>3 DEF Reviewer
<1> QED BY <1>1, <1>2, <1>3, <1>4 DEF Next, Step

-----------------------------------------------------------------------------
\* The invariant of identity, requests, registrations and reviews.
THEOREM Invariance == Spec => []IInv
<1>1. IInv /\ [Next]_vars => IInv'
  BY NextType, NextToken, NextSeen, NextOwn, NextReview DEF IInv
<1> QED BY InitInv, <1>1, PTL DEF Spec

\* Types, for every value of the constants.
THEOREM TypeCorrect == Spec => []TypeOK
<1>1. IInv => TypeOK
  BY DEF IInv
<1> QED BY Invariance, <1>1, PTL

\* Only a revalidated request is answered with ALLOW.
LEMMA AllowStep ==
  ASSUME TypeOK, Next, NEW h \in allowed' \ allowed
  PROVE  h \in Handlers /\ pc[h] \in Asking /\ Unchanged(h)
<1> USE DEF TypeOK, Asking
<1>1. CASE Operator
  BY <1>1 DEF Operator, Register, Unregister, CreateWorkload, IssueIdentityToken, Contain,
     Recover, RemoveCgroup, Crash
<1>2. ASSUME NEW g \in Handlers, Handler(g)
      PROVE  h \in Handlers /\ pc[h] \in Asking /\ Unchanged(h)
  BY <1>2 DEF Handler, Authorize, CheckMembership, Decide, Halt, Judge, RegisterWorkload,
     CreateFor, AttachFor, IssueFor, CleanUp
<1>3. ASSUME NEW r \in Reviews, Reviewer(r) PROVE FALSE
  BY <1>3 DEF Reviewer, View, ApproveReview, EscalateReview
<1> QED BY <1>1, <1>2, <1>3 DEF Next, Step

\* An ALLOW of authorize is current: what happened since the snapshot took the
\* token away or halted the agent, and the second look at it would have seen that.
THEOREM Current == Spec => AllowIsCurrent
<1>1. IInv /\ [Next]_vars => [\A h \in allowed' \ allowed : h \notin overtaken]_vars
  BY AllowStep DEF IInv, SeenInv, Unchanged, vars
<1> QED BY Invariance, <1>1, PTL DEF Spec, AllowIsCurrent

\* A spent token is never answered with ALLOW again.
THEOREM SpentIsDead == Spec => SpentTokensStayDead
<1>1. IInv /\ [Next]_vars => [\A h \in allowed' \ allowed : seen[h].token > spent]_vars
  <2> SUFFICES ASSUME IInv, Next, NEW h \in allowed' \ allowed PROVE seen[h].token > spent
    BY DEF vars
  <2>1. /\ h \in Handlers /\ ident.token = seen[h].token
        /\ seen[h].token \in 1..minted /\ minted \in Nat /\ spent \in Nat
    BY AllowStep DEF IInv, TypeOK, SeenInv, Unchanged
  <2> QED BY <2>1 DEF IInv, TokenInv
<1> QED BY Invariance, <1>1, PTL DEF Spec, SpentTokensStayDead

\* A failed register command undoes its own registration only.
THEOREM CleanUpOfOwn == Spec => CleanUpIsOwn
<1>1. IInv /\ [Next]_vars =>
        [\A h \in Handlers :
           /\ pc[h] = "cleaning" /\ pc'[h] = "idle"
           /\ registered /\ h \notin intruded
           => owner = h]_vars
  BY DEF IInv, OwnInv, Registering
<1> QED BY Invariance, <1>1, PTL DEF Spec, CleanUpIsOwn

\* No review is both approved to one operator and escalated to another.
THEOREM Verdicts == Spec => []OneVerdict
<1>1. IInv => OneVerdict
  BY DEF IInv, ReviewInv, OneVerdict
<1> QED BY Invariance, <1>1, PTL
=============================================================================
