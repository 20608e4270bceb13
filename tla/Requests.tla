------------------------------ MODULE Requests ------------------------------
(***************************************************************************)
(* How requests for authorization reach the policy.  UnixControlServer     *)
(* gives every connection a thread as long as it has a slot for it; the    *)
(* thread waits for the request, has ContainmentService evaluate it under  *)
(* the service lock, applies a HALT after the lock is released and answers.*)
(* Threads that use an ActionGateway on the same engine and runtime do the *)
(* same without any lock.                                                  *)
(***************************************************************************)
EXTENDS PolicyEngine, FiniteSets

CONSTANTS
  Connections, Gateways,
  Slots,         \* max_concurrent_connections
  Risks,         \* the risks callers claim
  MaxRequests,   \* bound: calls made in one behaviour
  NoOne          \* nobody holds the service lock

ASSUME RequestsConstants ==
  /\ NoOne \notin Connections \cup Gateways /\ Connections \cap Gateways = {}
  /\ Operations # {} /\ Risks # {}
  /\ Slots \in Nat \ {0} /\ MaxRequests \in Nat
  /\ IsFiniteSet(Connections)

VARIABLES
  phase, op, risk, view,  \* of each caller: its step, action, and remembered operations
  slots,       \* free connection slots
  listening,   \* the accept loop runs
  lock,        \* the connection whose thread holds the service lock
  history,     \* the operations the engine remembers
  active,      \* the runtime is ACTIVE
  made,        \* calls made so far
  past,        \* history: every operation allowed so far
  refused,     \* history: a HALT has been answered
  late,        \* history: callers whose call began after that
  gatewayed    \* are there gateways on the engine?  Fixed for each behaviour

caller == <<phase, op, risk, view>>
engine == <<history, past>>
server == <<slots, listening>>
vars == <<phase, op, risk, view, slots, listening, lock, history, active, made, past, refused, late,
          gatewayed>>

Callers == Connections \cup Gateways

Phases == {"free", "backlog", "reading", "asking", "allowing", "halting", "answering", "halted"}
\* The phases in which a connection has a thread, and a slot.
Served == Phases \ {"free", "backlog"}
Serving == {k \in Connections : phase[k] \in Served}

TypeOK ==
  /\ phase \in [Callers -> Phases]
  /\ op \in [Callers -> Operations] /\ risk \in [Callers -> Risks]
  /\ view \in [Callers -> Seq(Operations)]
  /\ slots \in 0..Slots /\ listening \in BOOLEAN
  /\ lock \in Connections \cup {NoOne}
  /\ history \in Seq(Operations) /\ past \in Seq(Operations)
  /\ active \in BOOLEAN /\ refused \in BOOLEAN /\ gatewayed \in BOOLEAN
  /\ late \subseteq Callers
  /\ made \in 0..MaxRequests

NoOperation == CHOOSE o \in Operations : TRUE
NoRisk == CHOOSE r \in Risks : TRUE

Init ==
  /\ phase = [x \in Callers |-> "free"]
  /\ op = [x \in Callers |-> NoOperation] /\ risk = [x \in Callers |-> NoRisk]
  /\ view = [x \in Callers |-> << >>]
  /\ slots = Slots /\ listening = TRUE /\ lock = NoOne
  /\ history = << >> /\ past = << >>
  /\ active = TRUE /\ made = 0
  /\ refused = FALSE /\ late = {}
  /\ gatewayed \in BOOLEAN

Goto(x, step) == phase' = [phase EXCEPT ![x] = step]

----------------------------------------------------------------------------
(* Calls *)

\* A client connects and will send its action, or a gateway is asked.
Call(x) ==
  /\ phase[x] = "free" /\ made < MaxRequests
  /\ IF x \in Gateways THEN gatewayed ELSE listening
  /\ \E o \in Operations, r \in Risks :
       op' = [op EXCEPT ![x] = o] /\ risk' = [risk EXCEPT ![x] = r]
  /\ Goto(x, IF x \in Gateways THEN "asking" ELSE "backlog")
  /\ made' = made + 1
  /\ late' = IF refused THEN late \cup {x} ELSE late
  /\ UNCHANGED <<view, server, lock, engine, active, refused, gatewayed>>

\* The call is over, whatever became of it.
Over(x) ==
  /\ Goto(x, "free")
  /\ op' = [op EXCEPT ![x] = NoOperation] /\ risk' = [risk EXCEPT ![x] = NoRisk]
  /\ view' = [view EXCEPT ![x] = << >>]
  /\ late' = late \ {x}

\* serve_forever: a thread while there are slots, server_busy otherwise.  When
\* the thread cannot be started, its slot is lost and the loop ends with it.
Accept(k) ==
  /\ phase[k] = "backlog" /\ listening
  /\ \/ /\ slots > 0
        /\ slots' = slots - 1 /\ Goto(k, "reading")
        /\ UNCHANGED <<op, risk, view, late, listening>>
     \/ slots > 0 /\ slots' = slots - 1 /\ Over(k) /\ listening' = FALSE
     \/ slots = 0 /\ Over(k) /\ UNCHANGED server
  /\ UNCHANGED <<lock, engine, active, made, refused, gatewayed>>

\* The daemon closes the socket, and with it what has not been accepted.
Reset(k) ==
  /\ phase[k] = "backlog" /\ ~listening
  /\ Over(k)
  /\ UNCHANGED <<server, lock, engine, active, made, refused, gatewayed>>

Receive(k) ==
  /\ phase[k] = "reading" /\ Goto(k, "asking")
  /\ UNCHANGED <<op, risk, view, server, lock, engine, active, made, refused, late, gatewayed>>

SlipReject(k) ==  \* an exception skips the release of the slot
  /\ phase[k] = "reading"
  /\ Over(k)
  /\ UNCHANGED <<server, lock, engine, active, made, refused, gatewayed>>

\* The peer sends nothing for two seconds, hangs up, may not connect, or sends
\* something that is no request: the thread ends with an error answer.
Reject(k) ==
  /\ phase[k] = "reading"
  /\ Over(k)
  /\ slots' = slots + 1
  /\ UNCHANGED <<listening, lock, engine, active, made, refused, gatewayed>>

----------------------------------------------------------------------------
(* Evaluation *)

SlipLook(x) ==  \* the service evaluates without its lock
  /\ phase[x] = "asking"
  /\ \/ /\ active /\ Allowed(op[x], risk[x], history)
        /\ Goto(x, "allowing")
        /\ view' = [view EXCEPT ![x] = history]
        /\ lock' = IF x \in Connections THEN x ELSE lock
     \/ /\ active /\ ~Allowed(op[x], risk[x], history)
        /\ Goto(x, IF Refusal(op[x], risk[x], history) = "HALT" THEN "halting" ELSE "answering")
        /\ UNCHANGED <<view, lock>>
     \/ /\ ~active
        /\ Goto(x, "answering")
        /\ UNCHANGED <<view, lock>>
  /\ UNCHANGED <<op, risk, server, engine, active, made, refused, late, gatewayed>>

\* The engine reads its history and decides.  An ALLOW is yet to be recorded;
\* only the service, not a gateway, keeps others out meanwhile.
Look(x) ==
  /\ phase[x] = "asking"
  /\ x \in Connections => lock = NoOne
  /\ \/ /\ active /\ Allowed(op[x], risk[x], history)
        /\ Goto(x, "allowing")
        /\ view' = [view EXCEPT ![x] = history]
        /\ lock' = IF x \in Connections THEN x ELSE lock
     \/ /\ active /\ ~Allowed(op[x], risk[x], history)
        /\ Goto(x, IF Refusal(op[x], risk[x], history) = "HALT" THEN "halting" ELSE "answering")
        /\ UNCHANGED <<view, lock>>
     \/ /\ ~active
        /\ Goto(x, "answering")
        /\ UNCHANGED <<view, lock>>
  /\ UNCHANGED <<op, risk, server, engine, active, made, refused, late, gatewayed>>

SlipRecord(x) ==  \* the service keeps its lock
  /\ phase[x] = "allowing"
  /\ history' = Remembered(history, op[x])
  /\ past' = Append(past, op[x])
  /\ Goto(x, "answering")
  /\ UNCHANGED <<op, risk, view, server, lock, active, made, refused, late, gatewayed>>

Record(x) ==
  /\ phase[x] = "allowing"
  /\ history' = Remembered(history, op[x])
  /\ past' = Append(past, op[x])
  /\ lock' = IF x \in Connections THEN NoOne ELSE lock
  /\ Goto(x, "answering")
  /\ UNCHANGED <<op, risk, view, server, active, made, refused, late, gatewayed>>

SlipHalt(x) ==  \* the answer does not wait for the runtime
  /\ phase[x] = "halting"
  /\ Goto(x, "halted")
  /\ active' \in {active, FALSE}
  /\ UNCHANGED <<op, risk, view, server, lock, engine, made, refused, late, gatewayed>>

\* The HALT of a decision, outside the service lock.
Halt(x) ==
  /\ phase[x] = "halting"
  /\ active' = FALSE
  /\ Goto(x, "halted")
  /\ UNCHANGED <<op, risk, view, server, lock, engine, made, refused, late, gatewayed>>

\* The answer, or a failure to send it; the slot is given back either way.
Answer(x) ==
  /\ phase[x] \in {"answering", "halted"}
  /\ Over(x)
  /\ slots' = IF x \in Connections THEN slots + 1 ELSE slots
  /\ refused' = (refused \/ phase[x] = "halted")
  /\ UNCHANGED <<listening, lock, engine, active, made, gatewayed>>

----------------------------------------------------------------------------
Decide(x) == Look(x) \/ Record(x) \/ Halt(x) \/ Answer(x)

Next ==
  \/ \E k \in Connections : Accept(k) \/ Reset(k) \/ Receive(k) \/ Reject(k)
  \/ \E x \in Callers : Call(x) \/ Decide(x)

Spec == Init /\ [][Next]_vars

\* The accept loop runs until it fails; a peer sends its request, whose size is
\* limited, or is timed out between two parts of it; and a thread gets the
\* service lock, which nobody keeps: no operation hangs in an enforcer.
FairSpec ==
  /\ Spec
  /\ \A k \in Connections : WF_vars(Accept(k) \/ Reset(k)) /\ WF_vars(Receive(k) \/ Reject(k))
  /\ \A x \in Callers : SF_vars(Decide(x))

----------------------------------------------------------------------------
(* The inductive invariant *)

\* The service lock covers the look and the record of a connection.
LockInv ==
  \A k \in Connections : lock = k <=> phase[k] = "allowing"

\* The operations up to the i-th that the engine could see when it allowed it.
Window(i) == LastOf(HistoryLimit + 1, SubSeq(past, 1, i))

Clean(s) == \A r \in DOMAIN Rules : ~Matches(Rules[r], s)

\* Without gateways nobody allows anything on a view that has changed since.
ViewInv ==
  ~gatewayed =>
    /\ \A g \in Gateways : phase[g] = "free"
    /\ \A k \in Connections : phase[k] = "allowing" =>
         view[k] = history /\ Clean(Append(view[k], op[k]))
    /\ \A i \in 1..Len(past) : Clean(Window(i))

HistoryInv == history = LastOf(HistoryLimit, past)

HaltInv ==
  /\ (\E x \in Callers : phase[x] = "halted") => ~active
  /\ refused => ~active
  /\ late # {} => refused
  /\ \A x \in late : phase[x] # "allowing"

\* Every slot that is taken has its thread, but the one the loop ended with.
Lost == IF listening THEN 0 ELSE 1
SlotInv == slots = Slots - Cardinality(Serving) - Lost

IInv == TypeOK /\ LockInv /\ ViewInv /\ HistoryInv /\ HaltInv /\ SlotInv

----------------------------------------------------------------------------
(* Properties *)

\* README.md, "Action history can detect dangerous sequences": as long as only
\* the service evaluates, no rule matches any stretch of HistoryLimit + 1
\* consecutive allowed operations, however requests interleave.
NoForbiddenChain ==
  ~gatewayed =>
    \A i \in 1..Len(past) : Clean(Window(i))

\* The engine's single pass over what was allowed and the next operation finds
\* every chain and nothing else.
MatchesIsExact ==
  \A r \in DOMAIN Rules, o \in Operations :
    Matches(Rules[r], Append(past, o)) <=> Occurs(Rules[r], Append(past, o))

\* Once a HALT has been answered, nothing that is asked afterwards is allowed.
HaltIsFinal == \A x \in late : phase[x] # "allowing"

\* As long as connections are accepted, a slot is taken exactly while a thread
\* serves a connection, however that ends: one that is never given back leaves
\* the server busy for good.
SlotsComeBack == listening => slots = Slots - Cardinality(Serving)

\* Every connection is closed in the end, although peers stall, requests are
\* refused, threads cannot be started and locks are waited for
\* (transport.py: serve_forever, _serve_connection).
CallsEnd == \A k \in Connections : phase[k] # "free" ~> phase[k] = "free"

\* policy.py, "an unrelated allowed action must not reset a security-relevant
\* chain".  Does not hold: enough unrelated actions push the chain's beginning
\* out of the history, and a rule longer than the history never matches.
ChainsAreNotReset ==
  \A r \in DOMAIN Rules : Rules[r].consecutive \/ ~Matches(Rules[r], past)
=============================================================================
