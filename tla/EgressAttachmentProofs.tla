----------------------- MODULE EgressAttachmentProofs -----------------------
(***************************************************************************)
(* Theorems about EgressAttachment, for any number of control programs and *)
(* links, whether control programs outlive their controller or not.        *)
(***************************************************************************)
EXTENDS EgressAttachment, TLAPS

USE EgressConstants

\* Nothing runs, nothing is attached, nothing was answered.
LEMMA InitInv == Init => IInv
<1> SUFFICES ASSUME Init PROVE IInv
  OBVIOUS
<1> USE DEF Init
<1>1. TypeOK
  BY DEF TypeOK, NotRunning, Commands, Steps, Calls
<1>2. LinkInv /\ ChildInv /\ StepInv /\ AnswerInv
  BY DEF LinkInv, ChildInv, StepInv, AnswerInv, NotRunning
<1>3. AloneInv
  BY DEF AloneInv, Orphaned, Running, NotRunning
<1> QED BY <1>1, <1>2, <1>3 DEF IInv

\* A control program that was started, or is not running, has the right type.
LEMMA RunTypes ==
  /\ NotRunning \in [cmd : Commands, at : Steps, link : Links \cup {None}]
  /\ \A c \in {"attach", "detach", "verify"} :
       Started(c) \in [cmd : Commands, at : Steps, link : Links \cup {None}]
BY DEF NotRunning, Started, Commands, Steps

\* The end of a control program, whoever waits for it, keeps the types.
LEMMA ExitType ==
  ASSUME TypeOK, NEW p \in Programs, NEW ok \in BOOLEAN, Exit(p, ok)
  PROVE  /\ ctl' \in [Programs -> [cmd : Commands, at : Steps, link : Links \cup {None}]]
         /\ call' \in Calls /\ child' \in Programs \cup {None}
         /\ proven' \in BOOLEAN /\ alone' \in BOOLEAN
         /\ answer' \in {"none", "contained", "released"}
<1> USE RunTypes DEF TypeOK
<1>1. CASE p # child
  BY <1>1 DEF Exit, enforcer
<1>2. CASE p = child /\ ok /\ call \in {"adopting", "attaching"}
  BY <1>2 DEF Exit, Answered, Calls
<1>3. CASE p = child /\ ~(ok /\ call \in {"adopting", "attaching"})
  <2>1. /\ ctl' \in [Programs -> [cmd : Commands, at : Steps, link : Links \cup {None}]]
        /\ call' \in Calls /\ child' \in Programs \cup {None}
        /\ alone' \in BOOLEAN /\ answer' \in {"none", "contained", "released"}
    BY <1>3 DEF Exit, Answered, Calls
  <2>2. proven' \in BOOLEAN
    BY <1>3 DEF Exit, Answered
  <2> QED BY <2>1, <2>2
<1> QED BY <1>1, <1>2, <1>3

\* Each operation and each step of a control program keeps the types.
LEMMA NextType == TypeOK /\ [Next]_vars => TypeOK'
<1> SUFFICES ASSUME TypeOK, [Next]_vars PROVE TypeOK'
  OBVIOUS
<1> USE RunTypes DEF TypeOK
<1>run. ASSUME NEW p \in Programs, NEW c \in {"attach", "detach", "verify"}, Run(p, c)
        PROVE  /\ ctl' \in [Programs -> [cmd : Commands, at : Steps, link : Links \cup {None}]]
               /\ child' \in Programs
  <2> Started(c) \in [cmd : Commands, at : Steps, link : Links \cup {None}]
    OBVIOUS
  <2> HIDE RunTypes
  <2> QED BY <1>run DEF Run
<1>1. CASE Contain
  <2>1. \/ UNCHANGED <<ctl, child>>
        \/ \E p \in Programs, c \in {"attach", "verify"} : Run(p, c)
    BY <1>1 DEF Contain
  <2>2. /\ ctl' \in [Programs -> [cmd : Commands, at : Steps, link : Links \cup {None}]]
        /\ child' \in Programs \cup {None}
    BY <2>1, <1>run
  <2>3. call' \in Calls /\ answer' = "none" /\ alone' \in BOOLEAN /\ proven' = FALSE
    BY <1>1 DEF Contain, Opening, Calls
  <2> QED BY <1>1, <2>2, <2>3 DEF Contain, kernel
<1>2. CASE Release
  <2>1. UNCHANGED <<ctl, child>> \/ \E p \in Programs : Run(p, "detach")
    BY <1>2 DEF Release
  <2>2. /\ ctl' \in [Programs -> [cmd : Commands, at : Steps, link : Links \cup {None}]]
        /\ child' \in Programs \cup {None}
    BY <2>1, <1>run
  <2>3. call' \in Calls /\ answer' = "none" /\ alone' \in BOOLEAN
    BY <1>2 DEF Release, Opening, Calls
  <2> QED BY <1>2, <2>2, <2>3 DEF Release, kernel
<1>3. CASE CheckReleased
  BY <1>3 DEF CheckReleased, Calls, kernel
<1>4. CASE Timeout
  BY <1>4 DEF Timeout, Calls, kernel
<1>5. CASE Crash
  <2>1. ctl' \in [Programs -> [cmd : Commands, at : Steps, link : Links \cup {None}]]
    BY <1>5 DEF Crash
  <2> QED BY <1>5, <2>1 DEF Crash, Calls, kernel
<1>6. CASE Reap
  BY <1>6 DEF Reap, enforcer
<1>7. ASSUME NEW p \in Programs, Step(p) PROVE TypeOK'
  <2> DEFINE Types ==
        /\ ctl' \in [Programs -> [cmd : Commands, at : Steps, link : Links \cup {None}]]
        /\ call' \in Calls /\ child' \in Programs \cup {None}
        /\ proven' \in BOOLEAN /\ alone' \in BOOLEAN
        /\ answer' \in {"none", "contained", "released"}
  <2>exit. \A ok \in BOOLEAN : Exit(p, ok) => Types
    BY ExitType
  <2>go. \A step \in Steps : Go(p, step) /\ UNCHANGED enforcer => Types
    BY DEF Go, enforcer
  <2>steps. {"load", "pin", "cleanup", "query", "unlink", "recheck"} \subseteq Steps
    BY DEF Steps
  <2>1. CASE Access(p)
    BY <2>1, <2>exit, <2>go, <2>steps DEF Access, kernel
  <2>2. CASE Attach(p)
    BY <2>2, <2>steps DEF Attach, Go, enforcer
  <2>3. CASE Pin(p)
    BY <2>3, <2>exit, <2>go, <2>steps DEF Pin, enforcer
  <2>4. CASE Cleanup(p)
    BY <2>4, <2>exit DEF Cleanup
  <2>5. CASE Open(p)
    <3>1. CASE Exit(p, FALSE)
      BY <2>5, <2>exit, <3>1 DEF Open, kernel
    <3>2. CASE /\ ctl' = [ctl EXCEPT ![p].at = "query", ![p].link = pin]
               /\ UNCHANGED enforcer
      BY <2>5, <2>steps, <3>2 DEF Open, kernel, enforcer
    <3> QED BY <2>5, <3>1, <3>2 DEF Open
  <2>6. CASE Query(p)
    BY <2>6, <2>exit, <2>go, <2>steps DEF Query, kernel
  <2>7. CASE Unlink(p)
    BY <2>7, <2>exit, <2>go, <2>steps DEF Unlink
  <2>8. CASE Recheck(p)
    BY <2>8, <2>exit DEF Recheck, kernel
  <2> QED BY <1>7, <2>1, <2>2, <2>3, <2>4, <2>5, <2>6, <2>7, <2>8 DEF Step
<1>8. CASE UNCHANGED vars
  BY <1>8 DEF vars
<1> QED BY <1>1, <1>2, <1>3, <1>4, <1>5, <1>6, <1>7, <1>8 DEF Next

\* A program goes from step to step of its own command, or ends.
LEMMA NextStep == TypeOK /\ StepInv /\ [Next]_vars => StepInv'
<1> SUFFICES ASSUME TypeOK /\ StepInv, [Next]_vars PROVE StepInv'
  OBVIOUS
<1> USE DEF TypeOK, StepInv, NotRunning, Commands, Steps, Running
<1>1. CASE Contain
  BY <1>1 DEF Contain, Opening, Run, Started, kernel
<1>2. CASE Release
  BY <1>2 DEF Release, Opening, Run, Started, kernel
<1>3. CASE CheckReleased
  BY <1>3 DEF CheckReleased, kernel
<1>4. CASE Timeout
  BY <1>4 DEF Timeout, kernel
<1>5. CASE Crash
  BY <1>5 DEF Crash, kernel
<1>6. CASE Reap
  BY <1>6 DEF Reap, Holds, enforcer
<1>7. ASSUME NEW p \in Programs, Step(p) PROVE StepInv'
  <2>1. CASE Access(p)
    BY <2>1 DEF Access, At, Go, Exit, Answered, Started, kernel, enforcer
  <2>2. CASE Attach(p)
    BY <2>2 DEF Attach, At, Go, Exit, Answered, Started, kernel, enforcer
  <2>3. CASE Pin(p)
    BY <2>3 DEF Pin, At, Go, Exit, Answered, Started, kernel, enforcer
  <2>4. CASE Cleanup(p)
    BY <2>4 DEF Cleanup, At, Go, Exit, Answered, Started, kernel, enforcer
  <2>5. CASE Open(p)
    BY <2>5 DEF Open, At, Go, Exit, Answered, Started, kernel, enforcer
  <2>6. CASE Query(p)
    BY <2>6 DEF Query, At, Go, Exit, Answered, Started, kernel, enforcer
  <2>7. CASE Unlink(p)
    BY <2>7 DEF Unlink, At, Go, Exit, Answered, Started, kernel, enforcer
  <2>8. CASE Recheck(p)
    BY <2>8 DEF Recheck, At, Go, Exit, Answered, Started, kernel, enforcer
  <2> QED BY <1>7, <2>1, <2>2, <2>3, <2>4, <2>5, <2>6, <2>7, <2>8 DEF Step
<1>8. CASE UNCHANGED vars
  BY <1>8 DEF vars
<1> QED BY <1>1, <1>2, <1>3, <1>4, <1>5, <1>6, <1>7, <1>8 DEF Next

\* The kernel detaches only what neither a pin nor a program refers to, and a
\* program opens only what is pinned or what it has attached.
LEMMA NextLink == TypeOK /\ StepInv /\ LinkInv /\ [Next]_vars => LinkInv'
<1> SUFFICES ASSUME TypeOK /\ StepInv /\ LinkInv, [Next]_vars PROVE LinkInv'
  OBVIOUS
<1> USE DEF TypeOK, StepInv, LinkInv, NotRunning, Running
<1>1. CASE Contain
  BY <1>1 DEF Contain, Opening, Run, Started, kernel
<1>2. CASE Release
  BY <1>2 DEF Release, Opening, Run, Started, kernel
<1>3. CASE CheckReleased
  BY <1>3 DEF CheckReleased, kernel
<1>4. CASE Timeout
  BY <1>4 DEF Timeout, kernel
<1>5. CASE Crash
  BY <1>5 DEF Crash, kernel
<1>6. CASE Reap
  BY <1>6 DEF Reap, Holds, enforcer
<1>7. ASSUME NEW p \in Programs, Step(p) PROVE LinkInv'
  <2>1. CASE Access(p)
    BY <2>1 DEF Access, At, Go, Exit, Answered, Started, kernel, enforcer
  <2>2. CASE Attach(p)
    BY <2>2 DEF Attach, At, Go, Exit, Answered, Started, kernel, enforcer
  <2>3. CASE Pin(p)
    BY <2>3 DEF Pin, At, Go, Exit, Answered, Started, kernel, enforcer
  <2>4. CASE Cleanup(p)
    BY <2>4 DEF Cleanup, At, Go, Exit, Answered, Started, kernel, enforcer
  <2>5. CASE Open(p)
    BY <2>5 DEF Open, At, Go, Exit, Answered, Started, kernel, enforcer
  <2>6. CASE Query(p)
    BY <2>6 DEF Query, At, Go, Exit, Answered, Started, kernel, enforcer
  <2>7. CASE Unlink(p)
    BY <2>7 DEF Unlink, At, Go, Exit, Answered, Started, kernel, enforcer
  <2>8. CASE Recheck(p)
    BY <2>8 DEF Recheck, At, Go, Exit, Answered, Started, kernel, enforcer
  <2> QED BY <1>7, <2>1, <2>2, <2>3, <2>4, <2>5, <2>6, <2>7, <2>8 DEF Step
<1>8. CASE UNCHANGED vars
  BY <1>8 DEF vars
<1> QED BY <1>1, <1>2, <1>3, <1>4, <1>5, <1>6, <1>7, <1>8 DEF Next

\* A call waits for the program it started, and the answer comes at its end.
LEMMA NextChild ==
  TypeOK /\ StepInv /\ ChildInv /\ AnswerInv /\ [Next]_vars => (ChildInv /\ AnswerInv)'
<1> SUFFICES ASSUME TypeOK /\ StepInv /\ ChildInv /\ AnswerInv, [Next]_vars PROVE (ChildInv /\ AnswerInv)'
  OBVIOUS
<1> USE DEF TypeOK, StepInv, ChildInv, AnswerInv, NotRunning, Running, Calls, Commands
<1>1. CASE Contain
  BY <1>1 DEF Contain, Opening, Run, Started, kernel
<1>2. CASE Release
  BY <1>2 DEF Release, Opening, Run, Started, kernel
<1>3. CASE CheckReleased
  BY <1>3 DEF CheckReleased, kernel
<1>4. CASE Timeout
  BY <1>4 DEF Timeout, kernel
<1>5. CASE Crash
  BY <1>5 DEF Crash, kernel
<1>6. CASE Reap
  BY <1>6 DEF Reap, Holds, enforcer
<1>7. ASSUME NEW p \in Programs, Step(p) PROVE (ChildInv /\ AnswerInv)'
  <2>1. CASE Access(p)
    BY <2>1 DEF Access, At, Go, Exit, Answered, Started, kernel, enforcer
  <2>2. CASE Attach(p)
    BY <2>2 DEF Attach, At, Go, Exit, Answered, Started, kernel, enforcer
  <2>3. CASE Pin(p)
    BY <2>3 DEF Pin, At, Go, Exit, Answered, Started, kernel, enforcer
  <2>4. CASE Cleanup(p)
    BY <2>4 DEF Cleanup, At, Go, Exit, Answered, Started, kernel, enforcer
  <2>5. CASE Open(p)
    BY <2>5 DEF Open, At, Go, Exit, Answered, Started, kernel, enforcer
  <2>6. CASE Query(p)
    BY <2>6 DEF Query, At, Go, Exit, Answered, Started, kernel, enforcer
  <2>7. CASE Unlink(p)
    BY <2>7 DEF Unlink, At, Go, Exit, Answered, Started, kernel, enforcer
  <2>8. CASE Recheck(p)
    BY <2>8 DEF Recheck, At, Go, Exit, Answered, Started, kernel, enforcer
  <2> QED BY <1>7, <2>1, <2>2, <2>3, <2>4, <2>5, <2>6, <2>7, <2>8 DEF Step
<1>8. CASE UNCHANGED vars
  BY <1>8 DEF vars
<1> QED BY <1>1, <1>2, <1>3, <1>4, <1>5, <1>6, <1>7, <1>8 DEF Next

\* Only a crash in the middle of a call leaves an orphan, and then there is no
\* answer; so an answer given alone is disturbed by nobody.
LEMMA NextAlone == IInv /\ [Next]_vars => AloneInv'
<1> SUFFICES ASSUME IInv, [Next]_vars PROVE AloneInv'
  OBVIOUS
<1> USE DEF IInv, TypeOK, AloneInv, Orphaned, Running
<1>run. ASSUME NEW p \in Programs, NEW cmd \in {"verify", "attach", "detach"},
               Opening, Run(p, cmd), alone'
        PROVE  Orphaned' = {} /\ ctl'[child'].at # "query"
  <2>1. \A q \in Programs \ {p} : ctl'[q].cmd = "none"
    BY <1>run DEF Opening, Run
  <2>2. child' = p /\ ctl'[p].at # "query"
    BY <1>run DEF Run, Started
  <2> QED BY <2>1, <2>2
<1>1. CASE Contain
  <2>1. answer' = "none" /\ UNCHANGED pin /\ call' \in {"idle", "adopting", "attaching"}
    BY <1>1 DEF Contain, Opening, kernel
  <2>2. CASE call' = "idle"
    BY <2>1, <2>2
  <2>3. CASE call' # "idle"
    <3>1. Opening
      BY <1>1 DEF Contain
    <3>2. CASE pin # None
      <4>1. call' = "adopting" /\ \E p \in Programs : Run(p, "verify")
        BY <1>1, <2>3, <3>2 DEF Contain
      <4>2. alone' => Orphaned' = {} /\ ctl'[child'].at # "query"
        BY <3>1, <4>1, <1>run
      <4> QED BY <2>1, <4>1, <4>2
    <3>3. CASE pin = None
      <4>1. call' = "attaching" /\ \E p \in Programs : Run(p, "attach")
        BY <1>1, <2>3, <3>3 DEF Contain
      <4>2. alone' => Orphaned' = {}
        BY <3>1, <4>1, <1>run
      <4> QED BY <2>1, <3>3, <4>1, <4>2
    <3> QED BY <3>2, <3>3
  <2> QED BY <2>2, <2>3
<1>2. CASE Release
  <2>1. answer' = "none" /\ call' \in {"idle", "releasing"} /\ Opening
    BY <1>2 DEF Release, Opening
  <2>2. call' = "releasing" => \E p \in Programs : Run(p, "detach")
    BY <1>2 DEF Release
  <2>3. call' = "releasing" /\ alone' => Orphaned' = {}
    BY <2>1, <2>2, <1>run
  <2> QED BY <2>1, <2>3
<1>3. CASE CheckReleased
  BY <1>3 DEF CheckReleased, ChildInv, kernel
<1>4. CASE Timeout
  BY <1>4 DEF Timeout, AnswerInv, ChildInv, kernel, NotRunning
<1>5. CASE Crash
  BY <1>5 DEF Crash, AnswerInv, ChildInv, kernel, NotRunning
<1>6. CASE Reap
  BY <1>6 DEF Reap, enforcer
<1>7. ASSUME NEW p \in Programs, Step(p) PROVE AloneInv'
  <2>1. p \in Running
    BY <1>7 DEF Step, Access, Attach, Pin, Cleanup, Open, Query, Unlink, Recheck, At
  <2>2. CASE p # child
    <3>1. alone => call = "idle" /\ answer = "none"
      BY <2>1, <2>2
    <3>2. UNCHANGED enforcer
      BY <1>7, <2>2 DEF Step, Access, Attach, Pin, Cleanup, Open, Query, Unlink,
                        Recheck, Exit, Go
    <3> QED BY <3>1, <3>2 DEF enforcer
  <2>3. CASE p = child
    <3> USE DEF Exit, Answered, Go, At, Started, NotRunning, kernel, enforcer
    <3>0. call # "idle" /\ answer = "none"
      BY <2>3 DEF ChildInv, AnswerInv
    <3>exit. ASSUME NEW ok \in BOOLEAN, Exit(p, ok), alone
             PROVE  Orphaned' = {}
      <4>1. \A q \in Programs \ {p} : ctl[q].cmd = "none" /\ ctl'[q] = ctl[q]
        BY <2>3, <3>0, <3>exit
      <4>2. child' = p \/ ctl'[p].cmd = "none"
        BY <2>3, <3>exit
      <4> QED BY <4>1, <4>2
    <3>1. CASE Access(p)
      BY <3>0, <3>1, <2>3 DEF Access, StepInv, ChildInv
    <3>2. CASE Attach(p)
      BY <3>0, <3>2, <2>3 DEF Attach, StepInv, ChildInv
    <3>3. CASE Pin(p)
      BY <3>0, <3>3, <2>3 DEF Pin, StepInv, LinkInv, ChildInv
    <3>4. CASE Cleanup(p)
      BY <3>0, <3>4, <2>3 DEF Cleanup, StepInv, ChildInv
    <3>5. CASE Open(p)
      BY <3>0, <3>5, <2>3 DEF Open, StepInv, ChildInv
    <3>6. CASE Query(p)
      <4>1. ctl[p].cmd = "verify" => (call \in {"adopting", "confirming"} /\ (alone => pin # None))
        BY <3>0, <3>6, <2>3 DEF Query, StepInv, ChildInv, Calls
      <4>2. ctl[p].cmd = "verify" \/ ctl[p].cmd = "detach"
        BY <2>3, <3>6 DEF Query, StepInv, Commands
      <4>3. CASE ctl[p].cmd = "verify"
        <5>1. /\ UNCHANGED <<pin, alone>> /\ answer' \in {"none", "contained"}
              /\ call' \in {"confirming", "idle"}
              /\ call' = "confirming" => child' = p /\ ctl'[p].at = "open"
          BY <3>6, <2>3, <3>0, <4>1, <4>3 DEF Query
        <5>2. alone => Orphaned' = {}
          BY <3>6, <3>exit, <4>3 DEF Query
        <5> QED BY <4>1, <4>3, <5>1, <5>2
      <4>4. CASE ctl[p].cmd = "detach"
        BY <3>6, <2>3, <3>0, <4>4 DEF Query, ChildInv
      <4> QED BY <4>2, <4>3, <4>4
    <3>7. CASE Unlink(p)
      BY <3>0, <3>7, <2>3 DEF Unlink, StepInv, ChildInv
    <3>8. CASE Recheck(p)
      <4>1. call = "releasing"
        BY <2>3, <3>8, <3>0 DEF Recheck, StepInv, ChildInv, Calls
      <4>2. UNCHANGED <<pin, alone, answer>> /\ call' \in {"checking", "idle"}
        BY <3>0, <3>8, <2>3, <4>1 DEF Recheck
      <4>3. alone => Orphaned' = {}
        BY <3>8, <3>exit DEF Recheck
      <4> QED BY <3>0, <4>2, <4>3
    <3> QED BY <1>7, <3>1, <3>2, <3>3, <3>4, <3>5, <3>6, <3>7, <3>8 DEF Step
  <2> QED BY <2>2, <2>3
<1>8. CASE UNCHANGED vars
  BY <1>8 DEF vars
<1> QED BY <1>1, <1>2, <1>3, <1>4, <1>5, <1>6, <1>7, <1>8 DEF Next

\* The invariant of the boundary: egress_enforcement.py and ctl.c together.
THEOREM Invariance == Spec => []IInv
<1>1. IInv /\ [Next]_vars => IInv'
  BY NextType, NextStep, NextLink, NextChild, NextAlone DEF IInv
<1> QED BY InitInv, <1>1, PTL DEF Spec

\* Types, for any number of control programs and links.
THEOREM TypeCorrect == Spec => []TypeOK
BY Invariance, PTL DEF IInv

\* A containment certified while no orphan ran is backed by a pinned and
\* attached link until the next call: verify reopened the pin, and nobody else
\* could remove it.
THEOREM Certified == Spec => []ContainedIsInForce
<1>1. IInv => ContainedIsInForce
  BY DEF IInv, AloneInv, LinkInv, ContainedIsInForce, InForce
<1> QED BY Invariance, <1>1, PTL

\* A release certified while no orphan ran leaves nothing that could stay in
\* force.
THEOREM Released == Spec => []ReleasedIsOpen
<1>1. IInv => ReleasedIsOpen
  <2> SUFFICES ASSUME IInv, answer = "released", alone
               PROVE  pin = None /\ \A p \in Programs, l \in attached : ~Holds(p, l)
    BY DEF ReleasedIsOpen
  <2>1. Running = {}
    BY DEF IInv, AnswerInv, ChildInv, AloneInv, Orphaned, Running
  <2>2. \A p \in Programs : ctl[p].link = None
    BY <2>1 DEF IInv, LinkInv, StepInv, Running
  <2>3. None \notin attached
    BY DEF IInv, TypeOK
  <2> QED BY <2>2, <2>3 DEF IInv, AloneInv, Holds
<1> QED BY Invariance, <1>1, PTL

\* Which program changes the pin, and in which call.
LEMMA PinChanges ==
  ASSUME IInv, [Next]_vars, Undisturbed, pin' # pin
  PROVE  \/ call = "attaching" /\ pin = None
         \/ call = "releasing" /\ pin' = None
<1> USE DEF IInv, Undisturbed, Orphaned
<1>1. PICK p \in Programs : Pin(p) \/ Cleanup(p) \/ Unlink(p)
  BY DEF Next, Step, vars, Contain, Release, CheckReleased, Timeout, Crash, Reap,
         Access, Attach, Open, Query, Recheck, kernel
<1>2. p = child
  BY <1>1 DEF Pin, Cleanup, Unlink, At
<1>3. CASE Pin(p)
  BY <1>2, <1>3 DEF Pin, At, Running, StepInv, ChildInv, TypeOK, Commands, Calls, AloneInv
<1>4. CASE Cleanup(p)
  BY <1>2, <1>4 DEF Cleanup, At, Running, StepInv, ChildInv, TypeOK, Commands, Calls, AloneInv
<1>5. CASE Unlink(p)
  BY <1>2, <1>5 DEF Unlink, At, Running, StepInv, ChildInv, TypeOK, Commands, Calls
<1> QED BY <1>1, <1>3, <1>4, <1>5

\* Containing never removes a pin, however its program fails or is killed.
THEOREM PinKept == Spec => ContainKeepsThePin
<1>1. IInv /\ [Next]_vars =>
        [Undisturbed /\ pin # None /\ pin' # pin => call = "releasing"]_vars
  BY PinChanges
<1> QED BY Invariance, <1>1, PTL DEF Spec, ContainKeepsThePin

-----------------------------------------------------------------------------
\* Kinds and answers, and what "disturbed" entails.
LEMMA KindFacts ==
  ASSUME IInv
  PROVE  /\ InForce <=> pin # None
         /\ CallKind = "disturbed" => ~Undisturbed /\ Reported = "none"
         /\ Undisturbed => /\ Reported = answer
                           /\ CallKind = "none" <=> call = "idle"
                           /\ CallKind = "contain" <=> call \in ContainCalls
                           /\ CallKind = "release" <=> call \in {"releasing", "checking"}
<1>1. InForce <=> pin # None
  BY DEF IInv, LinkInv, InForce
<1>2. CallKind = "disturbed" => ~Undisturbed /\ Reported = "none"
  BY DEF IInv, AloneInv, CallKind, Undisturbed, Reported, ContainCalls
<1>3. Undisturbed => /\ Reported = answer
                     /\ CallKind = "none" <=> call = "idle"
                     /\ CallKind = "contain" <=> call \in ContainCalls
                     /\ CallKind = "release" <=> call \in {"releasing", "checking"}
  BY DEF IInv, TypeOK, Calls, CallKind, Undisturbed, Reported, ContainCalls
<1> QED BY <1>1, <1>2, <1>3

\* At first nothing is in force, certified or being done.
LEMMA RefinedInit == Init => Contract!Init
BY DEF Init, Contract!Init, InForce, CallKind, Undisturbed, Orphaned, Running,
       NotRunning, ContainCalls, Reported

\* An undisturbed control program is the one the call waits for: its end is
\* the end of a run, of the call, or a certified answer.
LEMMA UndisturbedStep ==
  ASSUME IInv, IInv', Undisturbed, NEW p \in Programs, Step(p)
  PROVE  /\ UNCHANGED alone /\ Undisturbed' /\ p = child
         /\ \/ call' = call /\ answer' = answer
            \/ call \in {"adopting", "attaching"} /\ call' = "confirming" /\ answer' = answer
            \/ call = "releasing" /\ call' = "checking" /\ answer' = answer
            \/ call' = "idle" /\ answer' = answer /\ pin' = pin
            \/ call = "confirming" /\ call' = "idle" /\ answer' = "contained" /\ pin' = pin
<1>1. p = child /\ call # "idle" /\ answer = "none"
  BY DEF Step, Access, Attach, Pin, Cleanup, Open, Query, Unlink, Recheck, At,
         Undisturbed, Orphaned, IInv, ChildInv, AnswerInv
<1>2. UNCHANGED alone
  BY <1>1 DEF Step, Access, Attach, Pin, Cleanup, Open, Query, Unlink, Recheck,
         Exit, Answered, enforcer
<1>3. Undisturbed'
  <2>1. CASE call' # "idle" \/ answer' # "none"
    BY <2>1, <1>2 DEF IInv, AloneInv, Undisturbed
  <2>2. CASE call' = "idle" /\ answer' = "none"
    <3>1. \E ok \in BOOLEAN : Exit(p, ok)
      BY <1>1, <2>2 DEF Step, Access, Attach, Pin, Cleanup, Open, Query, Unlink,
                        Recheck, enforcer
    <3>2. ctl' = [ctl EXCEPT ![p] = NotRunning] /\ child' = None
      BY <1>1, <2>2, <3>1 DEF Exit, Answered
    <3> QED BY <1>1, <1>2, <3>2 DEF Undisturbed, Orphaned, Running, NotRunning, IInv, TypeOK
  <2> QED BY <2>1, <2>2
<1>4. \/ call' = call /\ answer' = answer
      \/ call \in {"adopting", "attaching"} /\ call' = "confirming" /\ answer' = answer
      \/ call = "releasing" /\ call' = "checking" /\ answer' = answer
      \/ call' = "idle" /\ answer' = answer /\ pin' = pin
      \/ call = "confirming" /\ call' = "idle" /\ answer' = "contained" /\ pin' = pin
  <2> USE <1>1 DEF Exit, Answered, enforcer, At, Running
  <2>1. CASE Access(p)
    BY <2>1 DEF Access, IInv, StepInv, ChildInv, kernel
  <2>2. CASE Attach(p)
    BY <2>2 DEF Attach
  <2>3. CASE Pin(p)
    BY <2>3 DEF Pin, IInv, StepInv, ChildInv, TypeOK, Calls, Commands
  <2>4. CASE Cleanup(p)
    BY <2>4 DEF Cleanup, IInv, StepInv, ChildInv, AloneInv, TypeOK, Calls, Commands, Undisturbed
  <2>5. CASE Open(p)
    BY <2>5 DEF Open, kernel
  <2>6. CASE Query(p)
    BY <2>6 DEF Query, kernel, IInv, StepInv, ChildInv, TypeOK, Calls, Commands
  <2>7. CASE Unlink(p)
    BY <2>7 DEF Unlink, IInv, StepInv, ChildInv, TypeOK, Calls, Commands
  <2>8. CASE Recheck(p)
    BY <2>8 DEF Recheck, kernel, IInv, StepInv, ChildInv, TypeOK, Calls, Commands
  <2> QED BY <2>1, <2>2, <2>3, <2>4, <2>5, <2>6, <2>7, <2>8 DEF Step
<1> QED BY <1>1, <1>2, <1>3, <1>4

\* Every step is a step of the contract.
LEMMA RefinedNext ==
  ASSUME IInv, IInv', [Next]_vars PROVE [Contract!Next]_(Contract!vars)
<1> USE DEF Contract!Next, Contract!vars
<1>0. /\ InForce <=> pin # None
      /\ (InForce <=> pin # None)'
      /\ InForce \in BOOLEAN /\ InForce' \in BOOLEAN
  BY KindFacts DEF IInv, LinkInv, InForce
<1>1. /\ Undisturbed => Reported = answer
      /\ Undisturbed' => Reported' = answer'
      /\ CallKind = "disturbed" <=> ~Undisturbed
      /\ CallKind' = "disturbed" <=> ~Undisturbed'
      /\ ~Undisturbed => Reported = "none"
      /\ ~Undisturbed' => Reported' = "none"
  BY DEF IInv, AloneInv, CallKind, Undisturbed, Reported, ContainCalls
<1>2. /\ Undisturbed => /\ CallKind = "none" <=> call = "idle"
                        /\ CallKind = "contain" <=> call \in ContainCalls
                        /\ CallKind = "release" <=> call \in {"releasing", "checking"}
      /\ Undisturbed' => /\ CallKind' = "none" <=> call' = "idle"
                         /\ CallKind' = "contain" <=> call' \in ContainCalls
                         /\ CallKind' = "release" <=> call' \in {"releasing", "checking"}
  BY DEF IInv, TypeOK, Calls, CallKind, Undisturbed, ContainCalls
<1>3. CASE Contain \/ Release
  <2>1. call = "idle" /\ answer' = "none" /\ UNCHANGED pin
    BY <1>3 DEF Contain, Release, Opening, kernel
  <2>2. Reported' = "none" /\ UNCHANGED InForce
    BY <2>1, <1>0 DEF Reported
  <2>3. CallKind \in {"none", "disturbed"}
    BY <2>1, <1>1, <1>2
  <2>4. CallKind' \in {"contain", "release", "none", "disturbed"}
    BY DEF CallKind
  <2>5. CASE CallKind' # "disturbed"
    BY <2>2, <2>3, <2>4, <2>5 DEF Contract!Begin
  <2>6. CASE CallKind' = "disturbed"
    <3>1. ~Undisturbed
      BY <2>6, <2>1, <1>1, <1>3 DEF Contain, Release, Opening, Run, Started, Undisturbed,
         Orphaned, Running, IInv, TypeOK, ChildInv
    <3> QED BY <3>1, <2>2, <2>6, <1>1
  <2> QED BY <2>5, <2>6
<1>4. CASE CheckReleased
  <2>1. Undisturbed => Undisturbed'
    BY <1>4 DEF CheckReleased, Undisturbed, Orphaned, Running
  <2>2. Undisturbed' => Undisturbed
    BY <1>4 DEF CheckReleased, Undisturbed, Orphaned, Running
  <2>3. UNCHANGED InForce
    BY <1>4, <1>0 DEF CheckReleased, kernel
  <2>4. CASE ~Undisturbed
    BY <2>2, <2>3, <2>4, <1>1
  <2>5. CASE Undisturbed
    <3>1. CallKind = "release" /\ CallKind' = "none" /\ Reported = "none"
      BY <1>4, <2>1, <2>5, <1>1, <1>2 DEF CheckReleased, IInv, AnswerInv
    <3>2. \/ Reported' = "released" /\ ~InForce
          \/ Reported' = "none"
      BY <1>4, <2>1, <2>5, <1>0, <1>1 DEF CheckReleased
    <3> QED BY <2>3, <3>1, <3>2 DEF Contract!Certify, Contract!Fail
  <2> QED BY <2>4, <2>5
<1>5. CASE Timeout \/ Crash
  <2>1. call' = "idle" /\ UNCHANGED <<pin, alone, answer>>
    BY <1>5 DEF Timeout, Crash, kernel
  <2>2. UNCHANGED InForce /\ UNCHANGED Reported
    BY <2>1, <1>0 DEF Reported
  <2>3. CallKind' \in {"none", "disturbed"}
    BY <2>1, <1>2 DEF CallKind, ContainCalls
  <2>4. CASE CallKind' = "none"
    BY <2>2, <2>4 DEF Contract!Fail
  <2>5. CASE CallKind' = "disturbed" /\ CallKind # "none"
    BY <2>2, <2>5 DEF Contract!Disturb
  <2>6. CASE CallKind' = "disturbed" /\ CallKind = "none"
    <3>1. Undisturbed /\ call = "idle"
      BY <2>6, <1>1, <1>2
    <3>2. Undisturbed'
      BY <3>1, <1>5 DEF Timeout, Crash, Undisturbed, Orphaned, Running, IInv, ChildInv
    <3> QED BY <3>2, <2>6, <1>1
  <2> QED BY <2>3, <2>4, <2>5, <2>6
<1>6. CASE Reap
  <2>1. UNCHANGED <<pin, ctl, enforcer>>
    BY <1>6 DEF Reap
  <2> QED BY <2>1, <1>0 DEF enforcer, CallKind, Undisturbed, Orphaned, Running, Reported
<1>7. ASSUME NEW p \in Programs, Step(p)
      PROVE  Contract!Next \/ UNCHANGED Contract!vars
  <2>1. CASE Undisturbed
    <3>1. /\ Undisturbed' /\ answer = "none"
          /\ \/ call' = call /\ answer' = answer
             \/ call \in {"adopting", "attaching"} /\ call' = "confirming" /\ answer' = answer
             \/ call = "releasing" /\ call' = "checking" /\ answer' = answer
             \/ call' = "idle" /\ answer' = answer /\ pin' = pin
             \/ call = "confirming" /\ call' = "idle" /\ answer' = "contained" /\ pin' = pin
      <4>1. p = child
        BY <1>7, <2>1, UndisturbedStep
      <4>2. answer = "none"
        BY <4>1 DEF IInv, ChildInv, AnswerInv
      <4> QED BY <1>7, <2>1, <4>2, UndisturbedStep
    <3>2. Reported = "none" /\ Reported' = answer'
      BY <2>1, <3>1, <1>1
    <3>3. CASE pin' # pin
      <4>1. CASE call = "attaching" /\ pin = None
        <5>1. CallKind = "contain" /\ CallKind' = "contain" /\ answer' = "none"
          BY <2>1, <3>1, <3>3, <4>1, <1>2 DEF ContainCalls
        <5> QED BY <3>2, <3>3, <4>1, <5>1, <1>0 DEF Contract!Move
      <4>2. CASE call = "releasing" /\ pin' = None
        <5>1. CallKind = "release" /\ CallKind' = "release" /\ answer' = "none"
          BY <2>1, <3>1, <3>3, <4>2, <1>2
        <5> QED BY <3>2, <4>2, <5>1, <1>0 DEF Contract!Move
      <4> QED BY <2>1, <3>3, <4>1, <4>2, PinChanges
    <3>4. CASE pin' = pin
      <4>1. UNCHANGED InForce
        BY <3>4, <1>0
      <4>2. CASE answer' = answer /\ call' # "idle"
        <5>1. CallKind' = CallKind
          BY <2>1, <3>1, <4>2, <1>2 DEF ContainCalls, CallKind
        <5> QED BY <3>1, <3>2, <4>1, <4>2, <5>1
      <4>3. CASE answer' = answer /\ call' = "idle"
        BY <3>1, <3>2, <4>1, <4>3, <1>2 DEF Contract!Fail
      <4>4. CASE call = "confirming" /\ call' = "idle" /\ answer' = "contained"
        <5>1. InForce
          BY <3>1, <4>4, <3>4, <1>0 DEF IInv, AloneInv, Undisturbed
        <5>2. CallKind = "contain" /\ CallKind' = "none"
          BY <2>1, <3>1, <4>4, <1>2 DEF ContainCalls
        <5> QED BY <3>2, <4>1, <4>4, <5>1, <5>2 DEF Contract!Certify
      <4> QED BY <3>1, <4>2, <4>3, <4>4
    <3> QED BY <3>3, <3>4
  <2>2. CASE ~Undisturbed
    <3>1. CASE ~alone
      <4>1. ~alone'
        BY <1>7, <3>1 DEF Step, Access, Attach, Pin, Cleanup, Open, Query, Unlink,
                          Recheck, Exit, Answered, enforcer
      <4>2. CallKind' = "disturbed" /\ Reported' = "none"
        BY <4>1 DEF CallKind, Undisturbed, Reported
      <4> QED BY <4>2, <2>2, <1>0, <1>1 DEF Contract!Drift
    <3>2. CASE alone
      <4>1. call = "idle" /\ answer = "none"
        BY <2>2, <3>2 DEF IInv, AloneInv, Undisturbed
      <4>2. UNCHANGED enforcer
        <5>1. p # child
          BY <4>1 DEF IInv, ChildInv
        <5> QED BY <1>7, <5>1 DEF Step, Access, Attach, Pin, Cleanup, Open, Query,
                                  Unlink, Recheck, Exit
      <4>3. CallKind' \in {"disturbed", "none"} /\ Reported' = "none"
        BY <4>1, <4>2 DEF enforcer, CallKind, Reported, ContainCalls
      <4> QED BY <4>3, <2>2, <1>0, <1>1 DEF Contract!Drift
    <3> QED BY <3>1, <3>2
  <2> QED BY <2>1, <2>2
<1>8. CASE UNCHANGED vars
  BY <1>8 DEF vars, InForce, CallKind, Undisturbed, Orphaned, Running, Reported
<1> QED BY <1>3, <1>4, <1>5, <1>6, <1>7, <1>8 DEF Next

\* The eBPF boundary keeps the contract of an external enforcer.
THEOREM Implementation == Spec => ImplementsContract
<1>1. IInv /\ IInv' /\ [Next]_vars => [Contract!Next]_(Contract!vars)
  BY RefinedNext
<1> QED BY Invariance, RefinedInit, <1>1, PTL DEF Spec, ImplementsContract, Contract!Spec
=============================================================================
