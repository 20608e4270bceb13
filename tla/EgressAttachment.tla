-------------------------- MODULE EgressAttachment --------------------------
(***************************************************************************)
(* The eBPF egress boundary of one agent: the enforcer in the controller   *)
(* process (LinuxEbpfExternalEnforcer), the control programs it runs       *)
(* (ebpf/ctl.c), one at a time and with a timeout, and the two kernel      *)
(* objects they share: the link attached to the agent's cgroup and its pin *)
(* in the BPF file system.                                                 *)
(*                                                                         *)
(* A control program is a sequence of system calls, one step each.  It can *)
(* be killed between any two, by the timeout or with the controller.  When *)
(* only the controller dies, its control program runs on (an orphan) and   *)
(* meets those of the next controller.                                     *)
(***************************************************************************)
CONSTANTS
  Programs,  \* control programs that can run at a time
  Links,     \* BPF links that can exist at a time
  None,
  Orphans    \* may a control program outlive its controller?

ASSUME EgressConstants ==
  /\ None \notin Programs \cup Links
  /\ Orphans \in BOOLEAN

VARIABLES
  pin,       \* the link that the file egress_link pins, or None
  attached,  \* links attached to the cgroup
  ctl,       \* the control programs
  call,      \* what the enforcer is doing
  child,     \* the control program it waits for, or None
  proven,    \* _release_verified
  answer,    \* the certified answer of the last call, or "none"
  alone      \* history: no orphan was running when the last call began

kernel == <<pin, attached>>
enforcer == <<call, child, proven, answer, alone>>
vars == <<pin, attached, ctl, call, child, proven, answer, alone>>

(***************************************************************************)
(* A control program: its command, its next step, and the link it has open *)
(* (or, at "recheck", the link it had open).                               *)
(***************************************************************************)
Steps == {"none", "access", "load", "pin", "cleanup",
          "open", "query", "unlink", "recheck"}
Commands == {"none", "attach", "detach", "verify"}
NotRunning == [cmd |-> "none", at |-> "none", link |-> None]

Started(cmd) ==
  [cmd |-> cmd, link |-> None,
   at |-> IF cmd = "attach" THEN "access" ELSE "open"]

Running == {p \in Programs : ctl[p].cmd # "none"}
Orphaned == Running \ {child}

Calls == {"idle", "adopting", "attaching", "confirming", "releasing", "checking"}

TypeOK ==
  /\ pin \in Links \cup {None}
  /\ attached \subseteq Links
  /\ ctl \in [Programs -> [cmd : Commands, at : Steps, link : Links \cup {None}]]
  /\ call \in Calls
  /\ child \in Programs \cup {None}
  /\ proven \in BOOLEAN
  /\ answer \in {"none", "contained", "released"}
  /\ alone \in BOOLEAN

Init ==
  /\ pin = None /\ attached = {}
  /\ ctl = [p \in Programs |-> NotRunning]
  /\ call = "idle" /\ child = None /\ proven = FALSE
  /\ answer = "none" /\ alone = TRUE

Holds(p, l) == ctl[p].link = l /\ ctl[p].at # "recheck"

\* The kernel detaches a link once nothing refers to it, at once or later.
Reap ==
  /\ \E l \in attached :
       /\ pin # l /\ \A p \in Programs : ~Holds(p, l)
       /\ attached' = attached \ {l}
  /\ UNCHANGED <<pin, ctl, enforcer>>

(***************************************************************************)
(* The enforcer.  One call after another, by the service lock: contain and *)
(* then verify_contained, or release and then verify_released.             *)
(***************************************************************************)
Run(p, cmd) ==
  /\ p \notin Running
  /\ ctl' = [ctl EXCEPT ![p] = Started(cmd)]
  /\ child' = p

Opening ==
  /\ call = "idle"
  /\ answer' = "none"
  /\ alone' = (Running = {})

SlipContain ==  \* replaces an existing pin instead of verifying it
  /\ Opening
  /\ proven' = FALSE
  /\ pin' = None
  /\ \E p \in Programs : call' = "attaching" /\ Run(p, "attach")
  /\ UNCHANGED attached

\* An existing pin is verified, never replaced.
Contain ==
  /\ Opening
  /\ proven' = FALSE
  /\ \/ \E p \in Programs :
          IF pin # None THEN call' = "adopting" /\ Run(p, "verify")
                        ELSE call' = "attaching" /\ Run(p, "attach")
     \/ call' = "idle" /\ UNCHANGED <<ctl, child>>  \* it cannot be run
  /\ UNCHANGED kernel

Release ==
  /\ Opening
  /\ \/ \E p \in Programs : call' = "releasing" /\ Run(p, "detach")
     \/ call' = "idle" /\ UNCHANGED <<ctl, child>>
  /\ UNCHANGED <<kernel, proven>>

SlipAnswered(p, ok) ==  \* the exit code of detach is not read, nor the pin looked for
  /\ call' = "idle" /\ child' = None
  /\ ctl' = [ctl EXCEPT ![p] = NotRunning]
  /\ answer' = CASE ok /\ call = "confirming" -> "contained"
                 [] call = "releasing" -> "released"
                 [] OTHER -> answer
  /\ UNCHANGED <<proven, alone>>

\* What the enforcer makes of its control program's exit code: contain is
\* followed by verify_contained, another run of the program.
Answered(p, ok) ==
  /\ IF ok /\ call \in {"adopting", "attaching"}
     THEN /\ call' = "confirming" /\ child' = p
          /\ ctl' = [ctl EXCEPT ![p] = Started("verify")]
     ELSE /\ call' = IF ok /\ call = "releasing" THEN "checking" ELSE "idle"
          /\ child' = None
          /\ ctl' = [ctl EXCEPT ![p] = NotRunning]
  /\ proven' = (proven \/ (ok /\ call = "releasing"))
  /\ answer' = IF ok /\ call = "confirming" THEN "contained" ELSE answer
  /\ UNCHANGED alone

\* verify_released: the program's answer, and the file is gone.
CheckReleased ==
  /\ call = "checking"
  /\ call' = "idle"
  /\ answer' = IF proven /\ pin = None THEN "released" ELSE "none"
  /\ UNCHANGED <<kernel, ctl, child, proven, alone>>

SlipTimeout ==  \* tidies up the pin of whatever timed out
  /\ child # None
  /\ ctl' = [ctl EXCEPT ![child] = NotRunning]
  /\ child' = None
  /\ call' = "idle"
  /\ pin' = None
  /\ UNCHANGED <<attached, proven, answer, alone>>

\* subprocess.run kills its child and waits for it before it raises.
Timeout ==
  /\ child # None
  /\ ctl' = [ctl EXCEPT ![child] = NotRunning]
  /\ child' = None
  /\ call' = "idle"
  /\ UNCHANGED <<kernel, proven, answer, alone>>

\* The controller dies and a new one is started.  A certified answer is on
\* record and stays.
Crash ==
  /\ call' = "idle" /\ child' = None /\ proven' = FALSE
  /\ \/ ctl' = IF child = None THEN ctl ELSE [ctl EXCEPT ![child] = NotRunning]
     \/ Orphans /\ UNCHANGED ctl
  /\ UNCHANGED <<kernel, answer, alone>>

(***************************************************************************)
(* The control program.                                                    *)
(***************************************************************************)
At(p, step) == p \in Running /\ ctl[p].at = step
Go(p, step) == ctl' = [ctl EXCEPT ![p].at = step]

SlipExit(p, ok) ==  \* the exit code is not read
  IF p = child
  THEN Answered(p, TRUE)
  ELSE ctl' = [ctl EXCEPT ![p] = NotRunning] /\ UNCHANGED enforcer

Exit(p, ok) ==
  IF p = child
  THEN Answered(p, ok)
  ELSE ctl' = [ctl EXCEPT ![p] = NotRunning] /\ UNCHANGED enforcer

\* attach
Access(p) ==
  /\ At(p, "access")
  /\ IF pin # None THEN Exit(p, FALSE)
                   ELSE Go(p, "load") /\ UNCHANGED enforcer
  /\ UNCHANGED kernel

\* Opens the cgroup, loads the program and attaches it.
Attach(p) ==
  /\ At(p, "load")
  /\ \/ \E l \in Links \ attached :
          /\ l # pin /\ \A q \in Programs : ctl[q].link # l
          /\ attached' = attached \cup {l}
          /\ ctl' = [ctl EXCEPT ![p].at = "pin", ![p].link = l]
     \/ Go(p, "cleanup") /\ UNCHANGED attached
  /\ UNCHANGED <<pin, enforcer>>

\* bpf_link__pin fails with EEXIST when the file is there.
Pin(p) ==
  /\ At(p, "pin")
  /\ \/ /\ pin = None
        /\ pin' = ctl[p].link
        /\ Exit(p, TRUE)
     \/ Go(p, "cleanup") /\ UNCHANGED <<pin, enforcer>>
  /\ UNCHANGED attached

\* if (rc != 0) unlink(link_path), whoever pinned it.
Cleanup(p) ==
  /\ At(p, "cleanup")
  /\ pin' = None
  /\ Exit(p, FALSE)
  /\ UNCHANGED attached

\* detach and verify
Open(p) ==
  /\ At(p, "open")
  /\ \/ /\ pin # None
        /\ ctl' = [ctl EXCEPT ![p].at = "query", ![p].link = pin]
        /\ UNCHANGED enforcer
     \/ Exit(p, FALSE)
  /\ UNCHANGED kernel

Query(p) ==
  /\ At(p, "query")
  /\ \/ /\ ctl[p].link \in attached
        /\ IF ctl[p].cmd = "verify"
           THEN Exit(p, TRUE)
           ELSE Go(p, "unlink") /\ UNCHANGED enforcer
     \/ Exit(p, FALSE)
  /\ UNCHANGED kernel

\* unlink, and close of the link's descriptor.
Unlink(p) ==
  /\ At(p, "unlink")
  /\ \/ pin # None /\ pin' = None /\ Go(p, "recheck") /\ UNCHANGED enforcer
     \/ Exit(p, FALSE) /\ UNCHANGED pin
  /\ UNCHANGED attached

Recheck(p) ==
  /\ At(p, "recheck")
  /\ \/ ctl[p].link \notin attached /\ Exit(p, TRUE)
     \/ Exit(p, FALSE)
  /\ UNCHANGED kernel

Step(p) ==
  \/ Access(p) \/ Attach(p) \/ Pin(p) \/ Cleanup(p)
  \/ Open(p) \/ Query(p) \/ Unlink(p) \/ Recheck(p)

Next ==
  \/ Contain \/ Release \/ CheckReleased \/ Timeout \/ Crash \/ Reap
  \/ \E p \in Programs : Step(p)

Spec == Init /\ [][Next]_vars
-----------------------------------------------------------------------------
InForce == pin # None /\ pin \in attached

\* A call that began alone is disturbed by nobody.
Undisturbed == alone /\ Orphaned = {}

\* A certified containment is backed by a pinned, attached link, for as long as
\* no control program of an earlier controller ran when the call began
\* ("Containment is certified only after the controller can independently
\* reopen the pinned kernel BPF link").
ContainedIsInForce == answer = "contained" /\ alone => InForce

\* A certified release left no link that could stay in force: what is still
\* attached is about to be detached by the kernel.
ReleasedIsOpen ==
  answer = "released" /\ alone =>
    /\ pin = None
    /\ \A p \in Programs, l \in attached : ~Holds(p, l)

\* Containing never removes a pinned link ("A controller restart must reconcile
\* an existing pinned link rather than replacing it"), however its control
\* program fails, is killed, or is run again by the next controller.
ContainKeepsThePin ==
  [][Undisturbed /\ pin # None /\ pin' # pin
       => call = "releasing"]_vars

(***************************************************************************)
(* The invariant the proofs rest on.                                       *)
(***************************************************************************)

\* Whoever has a link open keeps it attached, and so does the pin.
LinkInv ==
  /\ pin # None => pin \in attached
  /\ \A p \in Programs :
       /\ ctl[p].link # None /\ ctl[p].at # "recheck" => ctl[p].link \in attached
       /\ ctl[p].at \in {"pin", "query"} => ctl[p].link # None
       /\ ctl[p].at = "none" => ctl[p].link = None

ContainCalls == {"adopting", "attaching", "confirming"}

\* The program a call waits for runs the command of that call.
ChildInv ==
  /\ child = None <=> call \in {"idle", "checking"}
  /\ call = "attaching" => ctl[child].cmd = "attach"
  /\ call = "releasing" => ctl[child].cmd = "detach"
  /\ call \in {"adopting", "confirming"} => ctl[child].cmd = "verify"

\* A program takes the steps of its command.
StepInv ==
  \A p \in Programs :
    /\ ctl[p].cmd = "none" <=> ctl[p].at = "none"
    /\ ctl[p].cmd = "attach" => ctl[p].at \in {"access", "load", "pin", "cleanup"}
    /\ ctl[p].cmd = "detach" => ctl[p].at \in {"open", "query", "unlink", "recheck"}
    /\ ctl[p].cmd = "verify" => ctl[p].at \in {"open", "query"}

\* During a call that began alone, and after it, nothing moves but by it.
AloneInv ==
  alone =>
    /\ call # "idle" \/ answer # "none" => Orphaned = {}
    /\ call = "attaching" => pin = None
    /\ call \in {"adopting", "confirming"} /\ ctl[child].at = "query" => pin # None
    /\ answer = "contained" => pin # None
    /\ answer = "released" => pin = None

AnswerInv == answer # "none" => call = "idle"

IInv == TypeOK /\ LinkInv /\ ChildInv /\ StepInv /\ AnswerInv /\ AloneInv

\* The enforcer keeps the contract the control plane relies on.
CallKind ==
  IF ~Undisturbed THEN "disturbed"
  ELSE IF call \in ContainCalls THEN "contain"
  ELSE IF call \in {"releasing", "checking"} THEN "release" ELSE "none"

Reported == IF alone THEN answer ELSE "none"

Contract == INSTANCE EnforcerContract WITH
  inForce <- InForce, answer <- Reported, calling <- CallKind

ImplementsContract == Contract!Spec
=============================================================================
