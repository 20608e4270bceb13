-------------------------- MODULE AgentTreeProofs --------------------------
(***************************************************************************)
(* Proofs about AgentTree, for any set of agents, threads and              *)
(* capabilities, hence for trees of any depth.                             *)
(***************************************************************************)
EXTENDS AgentTree, TLAPS

USE TreeConstants

\* There is a job to fill the record of an idle thread with.
LEMMA NoJobType == Threads # {} => NoJob \in Jobs
<1>1. PICK a \in Agents : TRUE
  OBVIOUS
<1>2. [op |-> "spawn", at |-> a, child |-> a, asked |-> {}] \in Jobs
  BY DEF Jobs
<1> QED
  BY <1>2 DEF NoJob

\* The tree starts empty.
LEMMA InitInv == Init => IInv
<1> SUFFICES ASSUME Init PROVE IInv
  OBVIOUS
<1>1. TypeOK
  BY NoJobType DEF Init, TypeOK, States, PCs
<1>2. JobInv /\ LockInv /\ StepInv
  BY DEF Init, JobInv, LockInv, StepInv, Spawning, Containing, Sweeping
<1>3. CoverInv
  BY DEF Init, CoverInv
<1> QED
  BY <1>1, <1>2, <1>3 DEF IInv

\* Every step keeps the types.
LEMMA NextType == TypeOK /\ JobInv /\ LockInv /\ [Next]_vars => TypeOK'
<1> SUFFICES ASSUME TypeOK, JobInv, LockInv, [Next]_vars PROVE TypeOK'
  OBVIOUS
<1> USE NoJobType DEF TypeOK, States, PCs, records, threads, history, Goto, Done, Leave, Lockable, Idle
<1>1. ASSUME NEW t \in Threads, Enter(t) PROVE TypeOK'
  BY <1>1 DEF Enter
<1>2. ASSUME NEW t \in Threads, Judge(t) PROVE TypeOK'
  BY <1>2 DEF Judge
<1>3. ASSUME NEW t \in Threads, Inherit(t) PROVE TypeOK'
  BY <1>3 DEF Inherit, Jobs
<1>4. ASSUME NEW t \in Threads, Adopt(t) PROVE TypeOK'
  BY <1>4 DEF Adopt, Jobs
<1>5. ASSUME NEW t \in Threads, Fence(t) PROVE TypeOK'
  BY <1>5 DEF Fence, Jobs
<1>6. ASSUME NEW t \in Threads, Revoke(t) PROVE TypeOK'
  <2>1. children(job[t].at) \subseteq Agents
    BY DEF children
  <2>2. job[t].at \in Agents
    BY DEF Jobs
  <2> QED
    BY <1>6, <2>1, <2>2 DEF Revoke
<1>7. ASSUME NEW t \in Threads, Sweep(t) PROVE TypeOK'
  <2>1. ASSUME NEW a \in todo[t], job' = [job EXCEPT ![t].at = a] PROVE job' \in [Threads -> Jobs]
    BY <2>1 DEF Jobs
  <2>2. job' \in [Threads -> Jobs]
    BY <1>7, <2>1 DEF Sweep
  <2>3. UNCHANGED <<nodes, parent, state, caps, executes, covered, freed, nested>>
    BY <1>7 DEF Sweep
  <2>4. tree' \in Threads \cup {NoThread} /\ pc' \in [Threads -> PCs]
        /\ todo' \in [Threads -> SUBSET Agents]
    BY <1>7 DEF Sweep
  <2> QED
    BY <2>2, <2>3, <2>4
<1>8. ASSUME NEW t \in Threads, Return(t) PROVE TypeOK'
  BY <1>8 DEF Return
<1>9. ASSUME NEW t \in Threads, NEW a \in Agents, Execute(t, a) PROVE TypeOK'
  BY <1>9 DEF Execute
<1>10. ASSUME NEW t \in Threads, NEW a \in Agents, Halt(t, a) PROVE TypeOK'
  BY <1>10 DEF Halt
<1>11. ASSUME NEW t \in Threads, NEW a \in Agents, Recover(t, a) PROVE TypeOK'
  BY <1>11 DEF Recover
<1>12. ASSUME NEW t \in Threads, NEW a \in Agents, NEW granted \in SUBSET Capabilities,
              RegisterRoot(t, a, granted)
       PROVE  TypeOK'
  BY <1>12 DEF RegisterRoot
<1>13. ASSUME NEW t \in Threads, NEW j \in Jobs, Call(t, j) PROVE TypeOK'
  BY <1>13 DEF Call
<1>14. ASSUME NEW t \in Threads, NEW j \in Jobs, Direct(t, j) PROVE TypeOK'
  BY <1>14 DEF Direct
<1>15. CASE UNCHANGED vars
  BY <1>15 DEF vars
<1> QED
  BY <1>1, <1>2, <1>3, <1>4, <1>5, <1>6, <1>7, <1>8, <1>9, <1>10, <1>11, <1>12, <1>13, <1>14,
     <1>15 DEF Next, Continue

\* Only the thread that holds the lock is inside the tree: the other threads
\* have nothing on their stacks and sweep nothing.
LEMMA NextLock == IInv /\ [Next]_vars => JobInv' /\ LockInv'
<1> SUFFICES ASSUME IInv, [Next]_vars PROVE JobInv' /\ LockInv'
  OBVIOUS
<1> USE NoJobType DEF IInv, TypeOK, JobInv, LockInv, Spawning, Containing, Sweeping,
            States, PCs, records, threads, history, Goto, Done, Leave
<1>1. ASSUME NEW t \in Threads, Enter(t) PROVE JobInv' /\ LockInv'
  BY <1>1 DEF Enter, Jobs
<1>2. ASSUME NEW t \in Threads, Judge(t) PROVE JobInv' /\ LockInv'
  BY <1>2 DEF Judge, Jobs
<1>3. ASSUME NEW t \in Threads, Inherit(t) PROVE JobInv' /\ LockInv'
  BY <1>3 DEF Inherit, Jobs
<1>4. ASSUME NEW t \in Threads, Adopt(t) PROVE JobInv' /\ LockInv'
  BY <1>4 DEF Adopt, Jobs
<1>5. ASSUME NEW t \in Threads, Fence(t) PROVE JobInv' /\ LockInv'
  BY <1>5 DEF Fence, Jobs
<1>6. ASSUME NEW t \in Threads, Revoke(t) PROVE JobInv' /\ LockInv'
  BY <1>6 DEF Revoke, Jobs, children
<1>7. ASSUME NEW t \in Threads, Sweep(t) PROVE JobInv' /\ LockInv'
  <2>1. pc[t] = "next" /\ job[t].op = "contain" /\ tree = t /\ UNCHANGED nodes
    BY <1>7 DEF Sweep
  <2>2. ASSUME NEW a \in todo[t], job' = [job EXCEPT ![t].at = a],
               todo' = [todo EXCEPT ![t] = @ \ {a}], Goto(t, "fence"), UNCHANGED tree
        PROVE  JobInv' /\ LockInv'
    <3>1. job'[t].op = "contain" /\ job'[t].at = a /\ a \in nodes
      BY <2>1, <2>2 DEF Jobs
    <3>2. \A u \in Threads \ {t} : job'[u] = job[u] /\ todo'[u] = todo[u] /\ pc'[u] = pc[u]
      BY <2>2
    <3>3. todo'[t] \subseteq nodes /\ pc'[t] = "fence"
      BY <2>2
    <3> QED
      BY <2>1, <2>2, <3>1, <3>2, <3>3
  <2>3. ASSUME todo[t] = {}, Leave(t), UNCHANGED todo PROVE JobInv' /\ LockInv'
    <3>1. \A u \in Threads \ {t} : job'[u] = job[u] /\ todo'[u] = {} /\ pc'[u] = pc[u]
      BY <2>1, <2>3
    <3>2. pc'[t] = "idle" /\ todo'[t] = {}
      BY <2>3
    <3>3. \A u \in Threads \ {t} : ~Spawning(u) /\ ~Sweeping(u)
      BY <2>1
    <3> QED
      BY <2>1, <3>1, <3>2, <3>3
  <2> QED
    BY <1>7, <2>2, <2>3 DEF Sweep
<1>8. ASSUME NEW t \in Threads, Return(t) PROVE JobInv' /\ LockInv'
  BY <1>8 DEF Return
<1>9. ASSUME NEW t \in Threads, NEW a \in Agents, Execute(t, a) PROVE JobInv' /\ LockInv'
  BY <1>9 DEF Execute
<1>10. ASSUME NEW t \in Threads, NEW a \in Agents, Halt(t, a) PROVE JobInv' /\ LockInv'
  BY <1>10 DEF Halt
<1>11. ASSUME NEW t \in Threads, NEW a \in Agents, Recover(t, a) PROVE JobInv' /\ LockInv'
  BY <1>11 DEF Recover
<1>12. ASSUME NEW t \in Threads, NEW a \in Agents, NEW granted \in SUBSET Capabilities,
              RegisterRoot(t, a, granted)
       PROVE  JobInv' /\ LockInv'
  BY <1>12 DEF RegisterRoot
<1>13. ASSUME NEW t \in Threads, NEW j \in Jobs, Call(t, j) PROVE JobInv' /\ LockInv'
  BY <1>13 DEF Call, Jobs
<1>14. ASSUME NEW t \in Threads, NEW j \in Jobs, Direct(t, j) PROVE JobInv' /\ LockInv'
  BY <1>14 DEF Direct, Jobs
<1>15. CASE UNCHANGED vars
  BY <1>15 DEF vars
<1> QED
  BY <1>1, <1>2, <1>3, <1>4, <1>5, <1>6, <1>7, <1>8, <1>9, <1>10, <1>11, <1>12, <1>13, <1>14,
     <1>15 DEF Next, Continue

\* Nobody covered takes in a child, and what is about to be covered is fenced.
LEMMA NextStep == IInv /\ [Next]_vars => StepInv'
<1> SUFFICES ASSUME IInv, [Next]_vars PROVE StepInv'
  OBVIOUS
<1> USE NoJobType DEF IInv, TypeOK, JobInv, LockInv, StepInv, Spawning, Containing, Sweeping,
            States, PCs, records, threads, history, Goto, Done, Leave
<1>1. ASSUME NEW t \in Threads, Enter(t) PROVE StepInv'
  BY <1>1 DEF Enter
<1>2. ASSUME NEW t \in Threads, Judge(t) PROVE StepInv'
  BY <1>2 DEF Judge, CoverInv
<1>3. ASSUME NEW t \in Threads, Inherit(t) PROVE StepInv'
  BY <1>3 DEF Inherit, Jobs
<1>4. ASSUME NEW t \in Threads, Adopt(t) PROVE StepInv'
  BY <1>4 DEF Adopt, Jobs
<1>5. ASSUME NEW t \in Threads, Fence(t) PROVE StepInv'
  BY <1>5 DEF Fence, Jobs
<1>6. ASSUME NEW t \in Threads, Revoke(t) PROVE StepInv'
  BY <1>6 DEF Revoke, Jobs
<1>7. ASSUME NEW t \in Threads, Sweep(t) PROVE StepInv'
  <2>1. pc'[t] \in {"fence", "idle"} /\ UNCHANGED <<covered, freed, state>>
    BY <1>7 DEF Sweep
  <2>2. \A u \in Threads \ {t} : job'[u] = job[u] /\ pc'[u] = pc[u]
    BY <1>7 DEF Sweep
  <2> QED
    BY <2>1, <2>2
<1>8. ASSUME NEW t \in Threads, Return(t) PROVE StepInv'
  BY <1>8 DEF Return
<1>9. ASSUME NEW t \in Threads, NEW a \in Agents, Execute(t, a) PROVE StepInv'
  BY <1>9 DEF Execute
<1>10. ASSUME NEW t \in Threads, NEW a \in Agents, Halt(t, a) PROVE StepInv'
  BY <1>10 DEF Halt
<1>11. ASSUME NEW t \in Threads, NEW a \in Agents, Recover(t, a) PROVE StepInv'
  BY <1>11 DEF Recover
<1>12. ASSUME NEW t \in Threads, NEW a \in Agents, NEW granted \in SUBSET Capabilities,
              RegisterRoot(t, a, granted)
       PROVE  StepInv'
  BY <1>12 DEF RegisterRoot
<1>13. ASSUME NEW t \in Threads, NEW j \in Jobs, Call(t, j) PROVE StepInv'
  BY <1>13 DEF Call, Jobs
<1>14. ASSUME NEW t \in Threads, NEW j \in Jobs, Direct(t, j) PROVE StepInv'
  BY <1>14 DEF Direct, Jobs
<1>15. CASE UNCHANGED vars
  BY <1>15 DEF vars
<1> QED
  BY <1>1, <1>2, <1>3, <1>4, <1>5, <1>6, <1>7, <1>8, <1>9, <1>10, <1>11, <1>12, <1>13, <1>14,
     <1>15 DEF Next, Continue

\* Steps that leave the tree, the capabilities and what is covered alone, make
\* no covered node executable and drop nothing a sweep has yet to contain.
LEMMA CoverKept ==
  ASSUME CoverInv, UNCHANGED <<nodes, parent, caps, covered, freed>>,
         \A a \in covered : state[a] # "ACTIVE" => state'[a] # "ACTIVE",
         Pending \subseteq Pending'
  PROVE  CoverInv'
BY DEF CoverInv, children

\* A step of another kind than a sweep's leaves what is pending alone.
LEMMA PendingKept ==
  ASSUME NEW t \in Threads, TypeOK, ~Sweeping(t), todo' = todo,
         job' \in [Threads -> Jobs], pc' \in [Threads -> PCs],
         \A u \in Threads \ {t} : job'[u] = job[u] /\ pc'[u] = pc[u]
  PROVE  Pending \subseteq Pending'
<1>1. \A u \in Threads : Sweeping(u) /\ Containing(u) =>
        u # t /\ (Sweeping(u) /\ Containing(u))' /\ job'[u].at = job[u].at
  BY DEF Sweeping, Containing
<1> QED
  BY <1>1 DEF Pending

\* The node a sweep is containing is pending.
LEMMA PendingNow ==
  ASSUME NEW t \in Threads, TypeOK', Sweeping(t)', Containing(t)' PROVE job'[t].at \in Pending'
<1>1. job'[t].at \in Agents
  BY DEF TypeOK, Jobs
<1> HIDE DEF Sweeping, Containing
<1> QED
  BY <1>1 DEF Pending

\* What a sweep has contained stays contained with all its children, or is
\* on the stack, or was recovered.
LEMMA NextCover == IInv /\ [Next]_vars => CoverInv'
<1> SUFFICES ASSUME IInv, [Next]_vars PROVE CoverInv'
  OBVIOUS
<1>t. TypeOK /\ TypeOK' /\ JobInv /\ LockInv /\ StepInv /\ CoverInv
  BY NextType DEF IInv
<1> USE <1>t DEF TypeOK, records, threads, history, Goto, Done, Leave
<1>1. ASSUME NEW t \in Threads, Enter(t) PROVE CoverInv'
  <2>1. ~Sweeping(t)
    BY <1>1 DEF Enter, Sweeping, Containing
  <2>2. Pending \subseteq Pending'
    BY <1>1, <2>1, PendingKept DEF Enter
  <2> QED
    BY <1>1, <2>2, CoverKept DEF Enter
<1>2. ASSUME NEW t \in Threads, Judge(t) PROVE CoverInv'
  <2>1. ~Sweeping(t)
    BY <1>2 DEF Judge, Sweeping, Containing
  <2>2. Pending \subseteq Pending'
    BY <1>2, <2>1, PendingKept DEF Judge
  <2> QED
    BY <1>2, <2>2, CoverKept DEF Judge
<1>3. ASSUME NEW t \in Threads, Inherit(t) PROVE CoverInv'
  <2>1. ~Sweeping(t)
    BY <1>3 DEF Inherit, Sweeping, Containing
  <2>2. Pending \subseteq Pending'
    BY <1>3, <2>1, PendingKept DEF Inherit
  <2> QED
    BY <1>3, <2>2, CoverKept DEF Inherit
<1>4. ASSUME NEW t \in Threads, Adopt(t) PROVE CoverInv'
  <2>1. ~Sweeping(t)
    BY <1>4 DEF Adopt, Sweeping, Containing
  <2>2. Pending \subseteq Pending'
    BY <1>4, <2>1, PendingKept DEF Adopt
  <2>3. job[t].at \in nodes \ covered /\ job[t].child \in Agents \ nodes
    BY <1>4 DEF Adopt, JobInv, StepInv, Spawning, Jobs
  <2>4. \A a \in covered : children(a)' = children(a)
    BY <1>4, <2>3 DEF Adopt, children, CoverInv
  <2>5. \A a \in covered : caps'[a] = caps[a] /\ state'[a] = state[a]
    BY <1>4, <2>3 DEF Adopt, CoverInv
  <2>6. UNCHANGED <<covered, freed>> /\ nodes \subseteq nodes'
    BY <1>4 DEF Adopt
  <2> HIDE DEF Pending, children
  <2> QED
    BY <2>2, <2>4, <2>5, <2>6 DEF CoverInv
<1>5. ASSUME NEW t \in Threads, Fence(t) PROVE CoverInv'
  <2>1. Pending \subseteq Pending'
    BY <1>5 DEF Fence, Pending, Sweeping, Containing
  <2>2. \A a \in covered : state'[a] # "ACTIVE" /\ caps'[a] = caps[a]
    BY <1>5 DEF Fence, CoverInv, Jobs
  <2>3. freed \subseteq freed' \cup Pending'
    <3>1. CASE job[t].op = "contain"
      <4>1. job'[t].at \in Pending' /\ job'[t].at = job[t].at
        BY <1>5, <3>1, PendingNow DEF Fence, Sweeping, Containing
      <4> QED
        BY <1>5, <3>1, <4>1 DEF Fence
    <3>2. CASE job[t].op # "contain"
      BY <1>5, <3>2 DEF Fence
    <3> QED
      BY <3>1, <3>2
  <2>4. UNCHANGED <<nodes, covered>> /\ \A a \in covered : children(a)' = children(a)
    BY <1>5 DEF Fence, children
  <2> HIDE DEF Pending, children
  <2> QED
    BY <2>1, <2>2, <2>3, <2>4 DEF CoverInv
<1>6. ASSUME NEW t \in Threads, Revoke(t) PROVE CoverInv'
  <2>1. UNCHANGED <<nodes, state, freed>> /\ \A a \in Agents : children(a)' = children(a)
    BY <1>6 DEF Revoke, children
  <2>2. job[t].at \in nodes /\ caps'[job[t].at] = {}
    BY <1>6 DEF Revoke, JobInv, Containing, Jobs
  <2>3. \A a \in covered : caps'[a] = {}
    BY <1>6 DEF Revoke, CoverInv
  <2>4. CASE job[t].op = "direct"
    <3>1. ~Sweeping(t)
      BY <2>4 DEF Sweeping
    <3>2. Pending \subseteq Pending'
      BY <1>6, <2>4, <3>1, PendingKept DEF Revoke
    <3>3. covered' = covered
      BY <1>6, <2>4 DEF Revoke
    <3> HIDE DEF Pending, children
    <3> QED
      BY <2>1, <2>3, <3>2, <3>3 DEF CoverInv
  <2>5. CASE job[t].op = "contain"
    <3>1. covered' = covered \cup ({job[t].at} \ freed)
          /\ todo' = [todo EXCEPT ![t] = @ \cup children(job[t].at)]
          /\ job' = job /\ pc' = [pc EXCEPT ![t] = "next"] /\ pc[t] = "revoke"
      BY <1>6, <2>5 DEF Revoke
    <3>2. children(job[t].at) \subseteq Pending'
      BY <3>1 DEF Pending
    <3>3. Pending \subseteq Pending' \cup {job[t].at}
      <4>1. \A u \in Threads : todo[u] \subseteq todo'[u]
        BY <3>1
      <4>2. \A u \in Threads \ {t} : Sweeping(u) /\ Containing(u) => Sweeping(u)' /\ Containing(u)'
        BY <3>1 DEF Sweeping, Containing
      <4>3. \A u \in Threads \ {t} : Sweeping(u) /\ Containing(u) => job[u].at \in Pending'
        BY <3>1, <4>2, PendingNow
      <4> HIDE DEF Sweeping, Containing
      <4> QED
        BY <4>1, <4>3 DEF Pending
    <3>4. job[t].at \in freed \/ state[job[t].at] # "ACTIVE"
      BY <2>5, <3>1 DEF StepInv, Sweeping, Containing
    <3> HIDE DEF Pending, children
    <3> QED
      BY <2>1, <2>2, <2>3, <3>1, <3>2, <3>3, <3>4 DEF CoverInv
  <2> QED
    BY <1>6, <2>4, <2>5 DEF Revoke
<1>7. ASSUME NEW t \in Threads, Sweep(t) PROVE CoverInv'
  <2>1. pc[t] = "next" /\ job[t].op = "contain"
        /\ UNCHANGED <<nodes, parent, state, caps, covered, freed>>
    BY <1>7 DEF Sweep, JobInv
  <2>2. ASSUME NEW a \in todo[t], job' = [job EXCEPT ![t].at = a],
               todo' = [todo EXCEPT ![t] = @ \ {a}], Goto(t, "fence")
        PROVE  Pending \subseteq Pending'
    <3>1. job'[t].at = a /\ job'[t].op = "contain" /\ pc'[t] = "fence"
      BY <2>1, <2>2 DEF Jobs
    <3>2. a \in Pending'
      BY <3>1, PendingNow DEF Sweeping, Containing
    <3>3. \A u \in Threads \ {t} : job'[u] = job[u] /\ todo'[u] = todo[u] /\ pc'[u] = pc[u]
      BY <2>2
    <3>4. todo[t] \subseteq todo'[t] \cup {a}
      BY <2>2
    <3>5. ~Containing(t)
      BY <2>1 DEF Containing
    <3> QED
      BY <3>2, <3>3, <3>4, <3>5 DEF Pending, Sweeping, Containing
  <2>3. ASSUME todo[t] = {}, Leave(t), UNCHANGED todo PROVE Pending \subseteq Pending'
    BY <2>1, <2>3 DEF Pending, Sweeping, Containing
  <2>4. Pending \subseteq Pending'
    BY <1>7, <2>2, <2>3 DEF Sweep
  <2> HIDE DEF Pending
  <2> QED
    BY <2>1, <2>4, CoverKept
<1>8. ASSUME NEW t \in Threads, Return(t) PROVE CoverInv'
  BY <1>8, CoverKept DEF Return, Pending, Sweeping, Containing
<1>9. ASSUME NEW t \in Threads, NEW a \in Agents, Execute(t, a) PROVE CoverInv'
  BY <1>9, CoverKept DEF Execute, Pending, Sweeping, Containing
<1>10. ASSUME NEW t \in Threads, NEW a \in Agents, Halt(t, a) PROVE CoverInv'
  BY <1>10, CoverKept DEF Halt, Pending, Sweeping, Containing
<1>11. ASSUME NEW t \in Threads, NEW a \in Agents, Recover(t, a) PROVE CoverInv'
  <2>1. Pending' = Pending
    BY <1>11 DEF Recover, Pending, Sweeping, Containing
  <2>2. \A b \in covered' : b \in covered /\ state'[b] = state[b]
    BY <1>11 DEF Recover
  <2>3. covered \cup freed \subseteq covered' \cup freed'
    BY <1>11 DEF Recover
  <2>4. UNCHANGED <<nodes, parent, caps>>
    BY <1>11 DEF Recover
  <2> HIDE DEF Pending
  <2> QED
    BY <2>1, <2>2, <2>3, <2>4 DEF CoverInv, children
<1>12. ASSUME NEW t \in Threads, NEW a \in Agents, NEW granted \in SUBSET Capabilities,
              RegisterRoot(t, a, granted)
       PROVE  CoverInv'
  <2>1. Pending' = Pending
    BY <1>12 DEF RegisterRoot, Pending, Sweeping, Containing
  <2>2. \A b \in nodes : children(b)' \subseteq children(b) /\ caps'[b] = caps[b]
    BY <1>12 DEF RegisterRoot, children
  <2> HIDE DEF Pending, children
  <2> QED
    BY <1>12, <2>1, <2>2 DEF RegisterRoot, CoverInv
<1>13. ASSUME NEW t \in Threads, NEW j \in Jobs, Call(t, j) PROVE CoverInv'
  <2>1. ~Sweeping(t)
    BY <1>13 DEF Call, Sweeping, Containing
  <2>2. Pending \subseteq Pending'
    BY <1>13, <2>1, PendingKept DEF Call
  <2> QED
    BY <1>13, <2>2, CoverKept DEF Call
<1>14. ASSUME NEW t \in Threads, NEW j \in Jobs, Direct(t, j) PROVE CoverInv'
  <2>1. ~Sweeping(t)
    BY <1>14 DEF Direct, Sweeping, Containing
  <2>2. Pending \subseteq Pending'
    BY <1>14, <2>1, PendingKept DEF Direct
  <2> QED
    BY <1>14, <2>2, CoverKept DEF Direct
<1>15. CASE UNCHANGED vars
  BY <1>15 DEF vars, CoverInv, children, Pending, Sweeping, Containing
<1> QED
  BY <1>1, <1>2, <1>3, <1>4, <1>5, <1>6, <1>7, <1>8, <1>9, <1>10, <1>11, <1>12, <1>13, <1>14,
     <1>15 DEF Next, Continue

\* The inductive invariant of the tree.
THEOREM Invariance == Spec => []IInv
<1>1. IInv /\ [Next]_vars => IInv'
  BY NextType, NextLock, NextStep, NextCover DEF IInv
<1> QED
  BY InitInv, <1>1, PTL DEF Spec

\* Whatever is spawned, contained, halted and recovered meanwhile, and however
\* deep the tree is: outside a call of the tree no child of a node that a
\* sweep contained has escaped it (agent_tree.py's contain).
THEOREM Covered == Spec => []NoOrphan
<1>1. IInv => NoOrphan
  <2> SUFFICES ASSUME IInv, tree = NoThread, NEW a \in covered
               PROVE  /\ state[a] # "ACTIVE" /\ caps[a] = {}
                      /\ children(a) \subseteq covered \cup freed
    BY DEF NoOrphan
  <2>1. \A t \in Threads : ~Sweeping(t) /\ todo[t] = {}
    BY DEF IInv, LockInv
  <2>2. Pending = {}
    BY <2>1 DEF Pending
  <2> QED
    BY <2>2 DEF IInv, CoverInv
<1> QED
  BY Invariance, <1>1, PTL

(***************************************************************************)
(* The shape of the tree                                                   *)
(***************************************************************************)

\* A parent is registered before its children (agent_tree.py: spawn).
LinkInv == \A a \in nodes : parent[a] \in nodes \cup {NoAgent}

\* No agent descends from itself: any nodes have one among them whose parent
\* is not (agent_tree.py: register_root, spawn).
Forest == \A S \in SUBSET nodes : S # {} => \E a \in S : parent[a] \notin S

\* A new node whose parent is an old one or none closes no circle.
LEMMA Grafted ==
  ASSUME TypeOK, LinkInv, Forest, NEW a \in Agents \ nodes, NEW b \in nodes \cup {NoAgent},
         nodes' = nodes \cup {a}, parent' = [parent EXCEPT ![a] = b]
  PROVE  LinkInv' /\ Forest'
<1>1. /\ parent'[a] = b /\ \A c \in nodes : parent'[c] = parent[c]
      /\ nodes \subseteq Agents
  BY DEF TypeOK
<1>2. LinkInv'
  BY <1>1 DEF LinkInv
<1>3. ASSUME NEW S \in SUBSET nodes', S # {} PROVE \E c \in S : parent'[c] \notin S
  <2>1. CASE S = {a}
    BY <1>1, <2>1
  <2>2. CASE S \ {a} # {}
    <3>1. PICK c \in S \ {a} : parent[c] \notin S \ {a}
      BY <2>2 DEF Forest
    <3>2. c \in nodes /\ parent[c] # a
      BY <3>1 DEF LinkInv
    <3> QED
      BY <1>1, <3>1, <3>2
  <2> QED
    BY <1>3, <2>1, <2>2
<1> QED
  BY <1>2, <1>3 DEF Forest

\* Only registering a root and adopting a child change the tree.
LEMMA NextShape == IInv /\ LinkInv /\ Forest /\ [Next]_vars => LinkInv' /\ Forest'
<1> SUFFICES ASSUME IInv, LinkInv, Forest, [Next]_vars PROVE LinkInv' /\ Forest'
  OBVIOUS
<1>1. ASSUME NEW t \in Threads, Adopt(t) PROVE LinkInv' /\ Forest'
  <2>1. job[t].at \in nodes /\ job[t].child \in Agents \ nodes
    BY <1>1 DEF IInv, TypeOK, JobInv, Jobs, Adopt, Spawning
  <2> QED
    BY <1>1, <2>1, Grafted DEF IInv, Adopt
<1>2. ASSUME NEW t \in Threads, NEW a \in Agents, NEW granted \in SUBSET Capabilities,
             RegisterRoot(t, a, granted)
      PROVE  LinkInv' /\ Forest'
  BY <1>2, Grafted DEF IInv, RegisterRoot
<1>3. UNCHANGED records => LinkInv' /\ Forest'
  BY DEF records, LinkInv, Forest
<1> QED
  BY <1>1, <1>2, <1>3 DEF Next, Continue, Enter, Judge, Inherit, Fence, Revoke, Sweep, Return,
     Execute, Halt, Recover, Call, Direct, vars, records

\* However threads spawn and register at the same time, the agents form a
\* forest, so what a containment sweeps has no way back to where it started.
THEOREM TreesHaveNoCircle == Spec => []Forest
<1>1. Init => LinkInv /\ Forest
  BY DEF Init, LinkInv, Forest
<1> QED
  BY Invariance, NextShape, <1>1, PTL DEF Spec

(***************************************************************************)
(* The locks                                                               *)
(***************************************************************************)

\* A thread waits for the tree's lock, or for that of a node's runtime.
Waits(t) ==
  \/ pc[t] = "enter" /\ tree # NoThread
  \/ pc[t] \in {"judge", "fence"} /\ ~Lockable(t, job[t].at)

\* The threads that call the tree or a controller, or run an executor.
Busy == {t \in Threads : pc[t] # "idle" \/ executes[t] # NoAgent}

\* If executors do not call the tree, one of the busy threads goes on.
SomebodyGoesOn == ~nested /\ Busy # {} => \E t \in Busy : ~Waits(t)

\* The tree's lock is held from the first to the last step of a call, and by
\* executors only if they may call the tree (agent_tree.py: spawn, contain).
HolderInv ==
  /\ \A t \in Threads : tree = t => Spawning(t) \/ Sweeping(t)
  /\ ~nested => \A t \in Threads : executes[t] # NoAgent => pc[t] = "idle"

\* A step of one thread that keeps its account keeps that of the others.
LEMMA HolderKept ==
  ASSUME IInv, TypeOK', HolderInv, NEW t \in Threads, UNCHANGED nested,
         \A u \in Threads \ {t} :
           /\ pc'[u] = pc[u] /\ job'[u] = job[u] /\ executes'[u] = executes[u]
           /\ tree' = u => tree = u,
         tree' = t => Spawning(t)' \/ Sweeping(t)',
         ~nested /\ executes'[t] # NoAgent => pc'[t] = "idle"
  PROVE  HolderInv'
<1>1. ASSUME NEW u \in Threads \ {t} PROVE (Spawning(u) \/ Sweeping(u)) <=> (Spawning(u)' \/ Sweeping(u)')
  BY DEF Spawning, Sweeping, Containing
<1> HIDE DEF Spawning, Sweeping
<1> QED
  BY <1>1 DEF HolderInv

LEMMA NextHolder == IInv /\ HolderInv /\ [Next]_vars => HolderInv'
<1> SUFFICES ASSUME IInv, HolderInv, [Next]_vars PROVE HolderInv'
  OBVIOUS
<1>t. TypeOK /\ TypeOK' /\ JobInv /\ LockInv
  BY NextType DEF IInv
<1> USE <1>t DEF TypeOK, records, threads, history, Goto, Done, Leave, Spawning, Sweeping, Containing
<1>1. ASSUME NEW t \in Threads, Enter(t) PROVE HolderInv'
  BY <1>1, HolderKept DEF Enter, HolderInv
<1>2. ASSUME NEW t \in Threads, Judge(t) \/ Inherit(t) \/ Adopt(t) PROVE HolderInv'
  <2>1. \A u \in Threads \ {t} : pc'[u] = pc[u] /\ job'[u] = job[u]
    BY <1>2 DEF Judge, Inherit, Adopt
  <2>2. Spawning(t)' \/ tree' = NoThread
    BY <1>2 DEF Judge, Inherit, Adopt
  <2>3. UNCHANGED <<executes, nested>> /\ tree' \in {tree, NoThread} /\ pc[t] # "idle"
    BY <1>2 DEF Judge, Inherit, Adopt
  <2> HIDE DEF Spawning, Sweeping
  <2> QED
    BY <2>1, <2>2, <2>3, HolderKept DEF HolderInv
<1>3. ASSUME NEW t \in Threads, Fence(t) \/ Revoke(t) \/ Sweep(t) PROVE HolderInv'
  <2>1. \A u \in Threads \ {t} : pc'[u] = pc[u] /\ job'[u] = job[u]
    BY <1>3 DEF Fence, Revoke, Sweep
  <2>2. job[t].op = "direct" => tree # t
    BY <1>3 DEF HolderInv, Fence, Revoke, Sweep, JobInv
  <2>3. tree' = t => Sweeping(t)'
    <3>1. CASE Fence(t)
      BY <2>2, <3>1 DEF Fence, JobInv, Jobs
    <3>2. CASE Revoke(t)
      BY <2>2, <3>2 DEF Revoke
    <3>3. CASE Sweep(t)
      BY <3>3 DEF Sweep, JobInv, Jobs
    <3> QED
      BY <1>3, <3>1, <3>2, <3>3
  <2>4. UNCHANGED <<executes, nested>> /\ tree' \in {tree, NoThread} /\ pc[t] # "idle"
    BY <1>3 DEF Fence, Revoke, Sweep
  <2> HIDE DEF Spawning, Sweeping
  <2> QED
    BY <2>1, <2>3, <2>4, HolderKept DEF HolderInv
<1>4. ASSUME NEW t \in Threads, NEW j \in Jobs, Call(t, j) \/ Direct(t, j) PROVE HolderInv'
  <2>1. tree # t
    BY <1>4 DEF Call, Direct, HolderInv
  <2>2. UNCHANGED <<tree, executes, nested>> /\ (~nested => executes[t] = NoAgent)
    BY <1>4 DEF Call, Direct
  <2>3. \A u \in Threads \ {t} : pc'[u] = pc[u] /\ job'[u] = job[u]
    BY <1>4 DEF Call, Direct
  <2> HIDE DEF Spawning, Sweeping
  <2> QED
    BY <2>1, <2>2, <2>3, HolderKept
<1>5. ASSUME NEW t \in Threads, Return(t) \/ \E a \in Agents : Execute(t, a) PROVE HolderInv'
  BY <1>5 DEF Return, Execute, HolderInv
<1>6. UNCHANGED <<tree, pc, job, executes, nested>> => HolderInv'
  BY DEF HolderInv
<1> QED
  BY <1>1, <1>2, <1>3, <1>4, <1>5, <1>6 DEF Next, Continue, Halt, Recover, RegisterRoot, vars

\* Neither the lock of the tree nor those of the runtimes deadlock, for any
\* number of threads and agents, as long as executors do not call the tree:
\* controllers called directly, sweeps, spawns and executors cannot all wait
\* for each other (agent_tree.py: spawn, contain; runtime.py:
\* execute_if_active, contain).
THEOREM TreeHasNoDeadlock == Spec => []SomebodyGoesOn
<1>1. Init => HolderInv
  BY DEF Init, HolderInv
<1>2. IInv /\ HolderInv => SomebodyGoesOn
  <2> SUFFICES ASSUME IInv, HolderInv, ~nested, NEW t \in Busy, \A u \in Busy : Waits(u)
               PROVE  FALSE
    BY DEF SomebodyGoesOn
  <2>1. \A u \in Threads : executes[u] = NoAgent
    BY DEF HolderInv, Busy, Waits
  <2>2. \A u \in Threads : Lockable(u, job[u].at)
    BY <2>1 DEF Lockable, IInv, TypeOK, Jobs
  <2>3. tree \in Threads
    BY <2>2 DEF Busy, Waits, IInv, TypeOK
  <2>4. pc[tree] \notin {"idle", "enter"}
    BY <2>3 DEF HolderInv, Spawning, Sweeping, Containing
  <2> QED
    BY <2>2, <2>3, <2>4 DEF Busy, Waits
<1> QED
  BY Invariance, NextHolder, <1>1, <1>2, PTL DEF Spec

=============================================================================
