----------------------------- MODULE AgentTree -----------------------------
(***************************************************************************)
(* AgentTree: parents and children, each with a runtime of its own and a   *)
(* set of capabilities.  spawn and contain hold the tree's lock from their *)
(* first to their last step.  The controller of a node can also be called  *)
(* directly, without that lock, and executors of the gateway run under the *)
(* lock of a node's runtime, for which a sweep over the tree has to wait.  *)
(***************************************************************************)
CONSTANTS
  Agents, Threads, Capabilities,
  NoAgent,    \* no parent, no executor running
  NoThread    \* nobody holds the tree's lock

ASSUME TreeConstants ==
  Agents # {} /\ NoAgent \notin Agents /\ NoThread \notin Threads

VARIABLES
  nodes,      \* the registered agents
  parent,     \* the parent of each, NoAgent for a root
  state,      \* the state of each runtime
  caps,       \* the capabilities each node holds
  tree,       \* the thread that holds the tree's lock
  pc, job,    \* what each thread is doing, and for whom
  todo,       \* the stack of the thread that sweeps the tree
  executes,   \* the node whose executor a thread runs, under its runtime's lock
  covered,    \* history: nodes that a sweep contained and nobody recovered since
  freed,      \* history: nodes recovered since a sweep last contained them
  nested      \* may executors call the tree?  Fixed for each behaviour

records == <<nodes, parent>>
threads == <<tree, pc, job, todo>>
history == <<covered, freed>>
vars == <<nodes, parent, state, caps, tree, pc, job, todo, executes, covered, freed, nested>>

States == {"ACTIVE", "HALTED", "CONTAINED"}
PCs == {"idle", "enter", "judge", "inherit", "adopt", "fence", "revoke", "next"}

\* What a thread was called for; `at' is the parent, or the node being swept.
Jobs == [op : {"spawn", "contain", "direct"}, at : Agents, child : Agents,
         asked : SUBSET Capabilities]

NoJob == CHOOSE j \in Jobs : TRUE

TypeOK ==
  /\ nodes \subseteq Agents
  /\ parent \in [Agents -> Agents \cup {NoAgent}]
  /\ state \in [Agents -> States]
  /\ caps \in [Agents -> SUBSET Capabilities]
  /\ tree \in Threads \cup {NoThread}
  /\ pc \in [Threads -> PCs]
  /\ job \in [Threads -> Jobs]
  /\ todo \in [Threads -> SUBSET Agents]
  /\ executes \in [Threads -> Agents \cup {NoAgent}]
  /\ covered \subseteq Agents /\ freed \subseteq Agents
  /\ nested \in BOOLEAN

Init ==
  /\ nodes = {}
  /\ parent = [a \in Agents |-> NoAgent]
  /\ state = [a \in Agents |-> "ACTIVE"]
  /\ caps = [a \in Agents |-> {}]
  /\ tree = NoThread
  /\ pc = [t \in Threads |-> "idle"]
  /\ job = [t \in Threads |-> NoJob]
  /\ todo = [t \in Threads |-> {}]
  /\ executes = [t \in Threads |-> NoAgent]
  /\ covered = {} /\ freed = {}
  /\ nested \in BOOLEAN

children(a) == {c \in nodes : parent[c] = a}

\* The lock of a's runtime is free for t.
Lockable(t, a) == \A u \in Threads \ {t} : executes[u] # a

Goto(t, step) == pc' = [pc EXCEPT ![t] = step]

Done(t) == Goto(t, "idle") /\ job' = [job EXCEPT ![t] = NoJob]

----------------------------------------------------------------------------
(* The gateway's executors *)

Execute(t, a) ==
  /\ pc[t] = "idle" /\ executes[t] = NoAgent
  /\ a \in nodes /\ state[a] = "ACTIVE" /\ Lockable(t, a)
  /\ executes' = [executes EXCEPT ![t] = a]
  /\ UNCHANGED <<records, state, caps, threads, history, nested>>

Return(t) ==
  /\ pc[t] = "idle" /\ executes[t] # NoAgent
  /\ executes' = [executes EXCEPT ![t] = NoAgent]
  /\ UNCHANGED <<records, state, caps, threads, history, nested>>

----------------------------------------------------------------------------
(* Calls of the tree *)

RegisterRoot(t, a, granted) ==
  /\ pc[t] = "idle" /\ executes[t] = NoAgent /\ tree = NoThread
  /\ a \notin nodes
  /\ nodes' = nodes \cup {a}
  /\ parent' = [parent EXCEPT ![a] = NoAgent]
  /\ caps' = [caps EXCEPT ![a] = granted]
  /\ UNCHANGED <<state, threads, executes, history, nested>>

Call(t, j) ==
  /\ pc[t] = "idle" /\ (executes[t] # NoAgent => nested)
  /\ j.op = "spawn" \/ (j.op = "contain" /\ j.child = j.at /\ j.asked = {})
  /\ job' = [job EXCEPT ![t] = j]
  /\ Goto(t, "enter")
  /\ UNCHANGED <<records, state, caps, tree, todo, executes, history, nested>>

\* An unknown agent, or a child that is known already, raises.
Enter(t) ==
  /\ pc[t] = "enter" /\ tree = NoThread
  /\ \/ /\ job[t].op = "spawn" /\ job[t].at \in nodes /\ job[t].child \notin nodes
        /\ tree' = t /\ Goto(t, "judge") /\ UNCHANGED job
     \/ /\ job[t].op = "contain" /\ job[t].at \in nodes
        /\ tree' = t /\ Goto(t, "fence") /\ UNCHANGED job
     \/ /\ job[t].at \notin nodes \/ (job[t].op = "spawn" /\ job[t].child \in nodes)
        /\ Done(t) /\ UNCHANGED tree
  /\ UNCHANGED <<records, state, caps, todo, executes, history, nested>>

Leave(t) == tree' = NoThread /\ Done(t)

SlipJudge(t) ==  \* a parent that is registered may have children
  /\ pc[t] = "judge" /\ Lockable(t, job[t].at)
  /\ Goto(t, "inherit")
  /\ UNCHANGED <<records, state, caps, tree, job, todo, executes, history, nested>>

\* May the parent execute?  Reading its state takes the lock of its runtime.
Judge(t) ==
  /\ pc[t] = "judge" /\ Lockable(t, job[t].at)
  /\ \/ state[job[t].at] = "ACTIVE" /\ Goto(t, "inherit") /\ UNCHANGED <<tree, job>>
     \/ state[job[t].at] # "ACTIVE" /\ Leave(t)
  /\ UNCHANGED <<records, state, caps, todo, executes, history, nested>>

\* The child gets those of the parent's capabilities that were asked for.
Inherit(t) ==
  /\ pc[t] = "inherit"
  /\ job' = [job EXCEPT ![t].asked = @ \cap caps[job[t].at]]
  /\ Goto(t, "adopt")
  /\ UNCHANGED <<records, state, caps, tree, todo, executes, history, nested>>

Adopt(t) ==
  /\ pc[t] = "adopt"
  /\ nodes' = nodes \cup {job[t].child}
  /\ parent' = [parent EXCEPT ![job[t].child] = job[t].at]
  /\ caps' = [caps EXCEPT ![job[t].child] = job[t].asked]
  /\ Leave(t)
  /\ UNCHANGED <<state, todo, executes, history, nested>>

----------------------------------------------------------------------------
(* ContainmentController.contain, in a sweep of the tree or called directly *)

Direct(t, j) ==
  /\ pc[t] = "idle" /\ executes[t] = NoAgent
  /\ j.op = "direct" /\ j.at \in nodes /\ j.child = j.at /\ j.asked = {}
  /\ job' = [job EXCEPT ![t] = j]
  /\ Goto(t, "fence")
  /\ UNCHANGED <<records, state, caps, tree, todo, executes, history, nested>>

\* The fence waits for the executor of the node; nobody is allowed another
\* one after it.
Fence(t) ==
  /\ pc[t] = "fence" /\ Lockable(t, job[t].at)
  /\ state' = [state EXCEPT ![job[t].at] = "CONTAINED"]
  /\ freed' = IF job[t].op = "contain" THEN freed \ {job[t].at} ELSE freed
  /\ Goto(t, "revoke")
  /\ UNCHANGED <<records, caps, tree, job, todo, executes, covered, nested>>

Revoke(t) ==
  /\ pc[t] = "revoke"
  /\ caps' = [caps EXCEPT ![job[t].at] = {}]
  /\ \/ /\ job[t].op = "direct"
        /\ Done(t) /\ UNCHANGED <<todo, covered>>
     \/ /\ job[t].op = "contain"
        /\ Goto(t, "next") /\ UNCHANGED job
        /\ todo' = [todo EXCEPT ![t] = @ \cup children(job[t].at)]
        /\ covered' = covered \cup ({job[t].at} \ freed)
  /\ UNCHANGED <<records, state, tree, executes, freed, nested>>

SlipSweep(t) ==  \* looks at the top of the stack and leaves it there
  /\ pc[t] = "next"
  /\ \/ \E a \in todo[t] :
          job' = [job EXCEPT ![t].at = a] /\ Goto(t, "fence") /\ UNCHANGED tree
     \/ todo[t] = {} /\ Leave(t)
  /\ UNCHANGED <<records, state, caps, todo, executes, history, nested>>

Sweep(t) ==
  /\ pc[t] = "next"
  /\ \/ \E a \in todo[t] :
          /\ job' = [job EXCEPT ![t].at = a]
          /\ todo' = [todo EXCEPT ![t] = @ \ {a}]
          /\ Goto(t, "fence") /\ UNCHANGED tree
     \/ todo[t] = {} /\ Leave(t) /\ UNCHANGED todo
  /\ UNCHANGED <<records, state, caps, executes, history, nested>>

----------------------------------------------------------------------------
(* A node's runtime, halted or recovered without the tree *)

Idle(t, a) == pc[t] = "idle" /\ executes[t] = NoAgent /\ a \in nodes /\ Lockable(t, a)

Halt(t, a) ==
  /\ Idle(t, a)
  /\ state' = [state EXCEPT ![a] = "HALTED"]
  /\ UNCHANGED <<records, caps, threads, executes, history, nested>>

\* Capabilities stay revoked.
Recover(t, a) ==
  /\ Idle(t, a) /\ state[a] = "CONTAINED"
  /\ state' = [state EXCEPT ![a] = "ACTIVE"]
  /\ covered' = covered \ {a} /\ freed' = freed \cup {a}
  /\ UNCHANGED <<records, caps, threads, executes, nested>>

----------------------------------------------------------------------------
Continue(t) ==
  Enter(t) \/ Judge(t) \/ Inherit(t) \/ Adopt(t) \/ Fence(t) \/ Revoke(t) \/ Sweep(t)

Next ==
  \E t \in Threads :
    \/ Continue(t) \/ Return(t)
    \/ \E a \in Agents : Execute(t, a) \/ Halt(t, a) \/ Recover(t, a)
    \/ \E a \in Agents, granted \in SUBSET Capabilities : RegisterRoot(t, a, granted)
    \/ \E j \in Jobs : Call(t, j) \/ Direct(t, j)

Spec == Init /\ [][Next]_vars

\* Locks are handed to every thread that keeps asking, and executors return; so
\* do the enforcers a containment calls, which have no step here.
FairSpec ==
  /\ Spec
  /\ \A t \in Threads : SF_vars(Continue(t)) /\ WF_vars(Return(t))

----------------------------------------------------------------------------
(* Properties *)

\* agent_tree.py, "Contain an agent and every descendant known at the
\* containment fence": when no call is under way, no node that a sweep
\* contained is executable or holds a capability before it is recovered, and
\* none of its children has escaped: each was swept as well, or recovered by
\* its own controller since.
NoOrphan ==
  tree = NoThread =>
    \A a \in covered :
      /\ state[a] # "ACTIVE" /\ caps[a] = {}
      /\ children(a) \subseteq covered \cup freed

\* CHILD_AGENT_CONTAINMENT.md, "A contained parent cannot spawn a new child".
\* Does not hold: a controller called directly does not take the tree's lock, so
\* the parent may be contained between the look at its state and the adoption.
ContainedDoNotSpawn ==
  [][\A c \in nodes' \ nodes : parent'[c] \in Agents => state[parent'[c]] # "CONTAINED"]_vars

\* Executors that do not call the tree cannot keep a containment from
\* returning (agent_tree.py: contain), as long as its enforcers return: with one
\* that hangs, as kubectl may, the sweep keeps the lock of the tree.
ContainReturns ==
  \A t \in Threads :
    pc[t] # "idle" /\ job[t].op = "contain" ~> nested \/ pc[t] = "idle"

----------------------------------------------------------------------------
(* The inductive invariant *)

Spawning(t) == pc[t] \in {"judge", "inherit", "adopt"}
Containing(t) == pc[t] \in {"fence", "revoke"}
Sweeping(t) == job[t].op = "contain" /\ (Containing(t) \/ pc[t] = "next")

JobInv == \A t \in Threads :
  /\ Spawning(t) => job[t].op = "spawn" /\ job[t].at \in nodes /\ job[t].child \notin nodes
  /\ Containing(t) => job[t].op # "spawn" /\ job[t].at \in nodes
  /\ pc[t] = "next" => job[t].op = "contain"

LockInv == \A t \in Threads :
  /\ Spawning(t) \/ Sweeping(t) => tree = t
  /\ todo[t] \subseteq nodes
  /\ todo[t] # {} => Sweeping(t)

\* Who takes in a child is not covered; who is about to be covered is fenced.
StepInv == \A t \in Threads :
  /\ pc[t] \in {"inherit", "adopt"} => job[t].at \notin covered
  /\ Sweeping(t) /\ pc[t] = "revoke" => state[job[t].at] # "ACTIVE" \/ job[t].at \in freed

\* What the sweep in progress still has to contain.
Pending ==
  {a \in Agents : \E t \in Threads :
     a \in todo[t] \/ (Sweeping(t) /\ Containing(t) /\ job[t].at = a)}

CoverInv ==
  /\ covered \subseteq nodes
  /\ \A a \in covered :
       /\ state[a] # "ACTIVE" /\ caps[a] = {}
       /\ children(a) \subseteq covered \cup freed \cup Pending

IInv == TypeOK /\ JobInv /\ LockInv /\ StepInv /\ CoverInv

=============================================================================
