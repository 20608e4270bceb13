----------------------------- MODULE AuditTrail -----------------------------
(* The audit log of the service (audit.py): a file of JSON lines in which     *)
(* every event carries the hash of the one before, and the two ways the       *)
(* service takes a failure to record.  authorize, like register and the       *)
(* workload operations, lets the exception out, so nothing is answered;       *)
(* contain goes on and marks its incident as lacking proof.                   *)
(*                                                                            *)
(* A write may stop anywhere (a full disk), the process may die between any   *)
(* two steps, and the file may be changed from outside at any time, also      *)
(* between the two times record reads it.  A hash is the very content it is   *)
(* computed from, so distinct contents have distinct hashes; it has no key,   *)
(* so whoever changes the file can compute it too.                            *)
(*                                                                            *)
(* An event is written as one line of text and read back with splitlines,     *)
(* which also breaks a line at U+0085, U+2028 and U+2029.  json.dumps leaves  *)
(* these as they are, so an event with one in its text is read as pieces      *)
(* that are no JSON; two stand for any number.                                *)
EXTENDS Integers, Sequences, SequencesExt, FiniteSets

CONSTANTS
  Callers,     \* threads that call the service
  NoCaller,    \* not a caller
  MaxCalls,    \* bound: calls made
  MaxChanges   \* bound: changes of the file from outside

ASSUME AuditConstants ==
  /\ NoCaller \notin Callers
  /\ MaxCalls \in Nat /\ MaxChanges \in Nat

VARIABLES
  lines,      \* the lines of the file: events, or Torn
  ended,      \* the last line of the file has its line end
  lock,       \* the caller that holds the lock of the AuditLog object
  call,       \* what each caller is doing
  event,      \* the event its holder is about to write, or Torn
  incident,   \* the incidents of containments, by call
  made,       \* the number of calls so far
  written,    \* history: the events that reached the file whole, in one line
  cut,        \* history: the calls whose event has a break in its text
  returned,   \* history: the calls that returned without an exception
  glued,      \* history: text was written behind a line without its end
  forked,     \* history: an event was written that does not continue written
  changes     \* history: the number of changes from outside

file == <<lines, ended>>
ghosts == <<written, cut, returned, glued, forked, changes>>
vars == <<lines, ended, lock, call, event, incident, made, written, cut,
          returned, glued, forked, changes>>

Genesis == [sequence |-> 0]

\* The bodies of lines no call has written: calls are numbered from 1.
NoCall == 0
Rewritten == -1

\* A line json.loads cannot read.
Torn == [sequence |-> 0, previous |-> Genesis, body |-> NoCall, hash |-> Genesis]

Content(line) == [sequence |-> line.sequence, previous |-> line.previous,
                  body |-> line.body]

\* What record writes behind a readable file.
Event(before, body) ==
  LET content == [sequence |-> Len(before) + 1,
                  previous |-> IF before = <<>> THEN Genesis ELSE Last(before).hash,
                  body |-> body]
  IN [sequence |-> content.sequence, previous |-> content.previous,
      body |-> body, hash |-> content]

Readable(line) == line # Torn

SlipValid(log) ==  \* the stored hash is believed
  \A i \in 1..Len(log) :
    /\ Readable(log[i])
    /\ log[i].sequence = i
    /\ log[i].previous = (IF i = 1 THEN Genesis ELSE log[i - 1].hash)

\* AuditLog.verify
Valid(log) ==
  \A i \in 1..Len(log) :
    /\ Readable(log[i])
    /\ log[i].sequence = i
    /\ log[i].previous = (IF i = 1 THEN Genesis ELSE log[i - 1].hash)
    /\ log[i].hash = Content(log[i])

-----------------------------------------------------------------------------
Idle == [at |-> "idle", operation |-> "none", number |-> NoCall]

Init ==
  /\ lines = <<>> /\ ended = TRUE
  /\ lock = NoCaller
  /\ call = [c \in Callers |-> Idle]
  /\ event = Torn
  /\ incident = [n \in 1..MaxCalls |-> "none"]
  /\ made = 0
  /\ written = <<>> /\ cut = {} /\ returned = {}
  /\ glued = FALSE /\ forked = FALSE /\ changes = 0

At(c, place) == call[c].at = place

MoveTo(c, place) == call' = [call EXCEPT ![c].at = place]

Begin(c, operation) ==
  /\ At(c, "idle")
  /\ made < MaxCalls
  /\ made' = made + 1
  /\ call' = [call EXCEPT ![c] = [at |-> "record", operation |-> operation,
                                  number |-> made + 1]]

\* authorize has its decision and no lock is held.
Authorize(c) ==
  /\ Begin(c, "authorize")
  /\ UNCHANGED <<file, lock, event, incident, ghosts>>

Containing(c) == call[c].operation = "contain"

\* contain, under the service lock, has fenced the runtime and recorded the
\* incident, or failed to record it.
Contain(c) ==
  /\ \A d \in Callers : ~ Containing(d)
  /\ Begin(c, "contain")
  /\ incident' \in {[incident EXCEPT ![made + 1] = state] : state \in {"unrecorded", "contained"}}
  /\ UNCHANGED <<file, lock, event, ghosts>>

\* The first reading of the file: record refuses to append to a broken chain.
Verify(c) ==
  /\ At(c, "record")
  /\ lock = NoCaller
  /\ \/ Valid(lines) /\ MoveTo(c, "verified") /\ lock' = c
     \/ ~ Valid(lines) /\ MoveTo(c, "failed") /\ UNCHANGED lock
  /\ UNCHANGED <<file, event, incident, made, ghosts>>

\* The second reading: the last line gives the hash, their number the sequence.
Compose(c) ==
  /\ At(c, "verified")
  /\ IF lines # <<>> /\ ~ Readable(Last(lines))
     THEN MoveTo(c, "failed") /\ lock' = NoCaller /\ UNCHANGED event
     ELSE /\ MoveTo(c, "composed")
          /\ event' = Event(lines, call[c].number)
          /\ UNCHANGED lock
  /\ UNCHANGED <<file, incident, made, ghosts>>

\* Text lands behind the last line, or on it when its end is missing.
Landed(pieces) ==
  IF ended THEN lines \o pieces ELSE Front(lines) \o <<Torn>> \o Tail(pieces)

\* What splitlines will make of the event's line, and of a part of it.
Whole(broken) == IF broken THEN <<Torn, Torn>> ELSE <<event>>
Parts(broken) == IF broken THEN {<<Torn>>, <<Torn, Torn>>} ELSE {<<Torn>>}

Unlock(c, place) == MoveTo(c, place) /\ lock' = NoCaller /\ event' = Torn

\* The line reaches the file: all of it, all but its end, a part, or nothing.
\* Anything less than all of it raises, and so does a text that has no UTF-8.
WriteAll(c, broken) ==
  /\ Unlock(c, "recorded")
  /\ lines' = Landed(Whole(broken))
  /\ ended' = TRUE

WriteUnended(c, broken) ==
  /\ Unlock(c, "failed")
  /\ lines' = Landed(Whole(broken))
  /\ ended' = FALSE

WritePart(c, broken) ==
  /\ Unlock(c, "failed")
  /\ \E pieces \in Parts(broken) : lines' = Landed(pieces)
  /\ ended' = FALSE

WriteNothing(c) ==
  /\ Unlock(c, "failed")
  /\ UNCHANGED <<lines, ended>>

Write(c) ==
  /\ At(c, "composed")
  /\ \E broken \in BOOLEAN :
       /\ cut' = IF broken THEN cut \cup {call[c].number} ELSE cut
       /\ \/ /\ WriteAll(c, broken) \/ WriteUnended(c, broken)
             /\ glued' = (glued \/ ~ ended)
             /\ IF broken THEN UNCHANGED <<written, forked>>
                ELSE /\ written' = Append(written, event)
                     /\ forked' = (forked \/ event # Event(written, call[c].number))
          \/ /\ WritePart(c, broken)
             /\ glued' = (glued \/ ~ ended)
             /\ UNCHANGED <<written, forked>>
          \/ /\ ~ broken /\ WriteNothing(c)
             /\ UNCHANGED <<written, glued, forked>>
  /\ UNCHANGED <<incident, made, returned, changes>>

Return(c) ==
  /\ call' = [call EXCEPT ![c] = Idle]
  /\ returned' = returned \cup {call[c].number}

Raise(c) ==
  /\ call' = [call EXCEPT ![c] = Idle]
  /\ UNCHANGED returned

\* The record is written: the call answers.
Answer(c) ==
  /\ At(c, "recorded")
  /\ Return(c)
  /\ UNCHANGED <<file, lock, event, incident, made, written, cut, glued, forked, changes>>

\* authorize does not catch what record raises.
GiveUp(c) ==
  /\ At(c, "failed")
  /\ call[c].operation = "authorize"
  /\ Raise(c)
  /\ UNCHANGED <<file, lock, event, incident, made, written, cut, glued, forked, changes>>

SlipDegrade(c) ==  \* the failure is swallowed, the incident is not marked
  /\ At(c, "failed")
  /\ call[c].operation = "contain"
  /\ Return(c)
  /\ UNCHANGED <<file, lock, event, incident, made, written, cut, glued, forked, changes>>

\* contain marks its incident, if there is one, and returns; the exception of
\* a mark that cannot be written is not caught.
Degrade(c) ==
  /\ At(c, "failed")
  /\ call[c].operation = "contain"
  /\ LET n == call[c].number
     IN \/ incident[n] = "unrecorded" /\ Return(c) /\ UNCHANGED incident
        \/ /\ incident[n] = "contained"
           /\ Return(c)
           /\ incident' = [incident EXCEPT ![n] = "proof_degraded"]
        \/ incident[n] = "contained" /\ Raise(c) /\ UNCHANGED incident
  /\ UNCHANGED <<file, lock, event, made, written, cut, glued, forked, changes>>

\* The process dies and starts again.
Crash ==
  /\ \E c \in Callers : ~ At(c, "idle")
  /\ call' = [c \in Callers |-> Idle]
  /\ lock' = NoCaller /\ event' = Torn
  /\ UNCHANGED <<file, incident, made, ghosts>>

-----------------------------------------------------------------------------
\* The file is changed from outside: a line is deleted, two are exchanged, an
\* event written before is put back, or a line is rewritten, under its old hash
\* or with the hash that makes it continue the lines before; such a line may
\* also be added anywhere.
Deleted == {RemoveAt(lines, i) : i \in 1..Len(lines)}

Exchanged ==
  {[lines EXCEPT ![i] = lines[j], ![j] = lines[i]] : i, j \in 1..Len(lines)}

Edited ==
  {[lines EXCEPT ![i].body = Rewritten] : i \in {k \in 1..Len(lines) : Readable(lines[k])}}

Reinserted ==
  {InsertAt(lines, i, written[k]) : i \in 1..(Len(lines) + 1), k \in 1..Len(written)}

Forged(i) == Event(SubSeq(lines, 1, i - 1), Rewritten)

Replaced == {[lines EXCEPT ![i] = Forged(i)] : i \in 1..Len(lines)}

Added == {InsertAt(lines, i, Forged(i)) : i \in 1..(Len(lines) + 1)}

Change ==
  /\ changes < MaxChanges
  /\ changes' = changes + 1
  /\ lines' \in (Deleted \cup Exchanged \cup Edited \cup Reinserted
                  \cup Replaced \cup Added) \ {lines}
  /\ ended' = TRUE
  /\ UNCHANGED <<lock, call, event, incident, made, written, cut, returned, glued,
                 forked>>

Next ==
  \/ \E c \in Callers :
       \/ Authorize(c) \/ Contain(c) \/ Verify(c) \/ Compose(c) \/ Write(c)
       \/ Answer(c) \/ GiveUp(c) \/ Degrade(c)
  \/ Crash
  \/ Change

Spec == Init /\ [][Next]_vars

-----------------------------------------------------------------------------
\* The event of call n can be read in the file.
OnRecord(n) == \E i \in 1..Len(lines) : lines[i].body = n

(* In a file that verifies, nothing before an event of record was changed:    *)
(* it and all before it are what was written, in that order and from the      *)
(* start, so deletion, exchange, rewriting and insertion show as long as one  *)
(* event behind them stands.  Behind the last one the end may be missing, or  *)
(* forged with hashes that are right: the chain has no key (audit.py:64, 87). *)
(* When record has continued a file changed like that (forked), it vouches    *)
(* for what it found (audit.py:50-66).                                        *)
VerifiedIsWritten ==
  Valid(lines) /\ ~ forked =>
    \A i \in 1..Len(lines) :
      lines[i] \in ToSet(written) => IsPrefix(SubSeq(lines, 1, i), written)

(* Whatever calls overlap, writes stop halfway or processes die: an           *)
(* authorization that was answered can be read in the log, and so can a       *)
(* containment that returned, unless its incident says that proof is missing  *)
(* or could not be recorded either (control.py:332, 554-581).  A call whose   *)
(* own text has a line break in it leaves no evidence (cut; audit.py:67, 77), *)
(* and takes none from the others; an event that lands on a line without its  *)
(* end is lost together with that line (glued).                               *)
ReturnedIsEvidenced ==
  changes = 0 /\ ~ glued =>
    \A n \in returned \ cut :
      incident[n] \in {"none", "contained"} => OnRecord(n)
=============================================================================
