-------------------------- MODULE AuditTrailProofs --------------------------
(* Proofs about AuditTrail, for any set of callers and any number of calls    *)
(* and of changes of the file.                                                *)
EXTENDS AuditTrail, SequenceTheorems, FiniteSetTheorems, WellFoundedInduction, TLAPS

USE AuditConstants

Places == {"idle", "record", "verified", "composed", "recorded", "failed"}
Records == [at : Places, operation : {"none", "authorize", "contain"},
            number : 0..MaxCalls]
States == {"none", "unrecorded", "contained", "proof_degraded"}

\* Types, the calls' numbers and the event of the one that holds the lock.
CallInv ==
  /\ made \in 0..MaxCalls
  /\ call \in [Callers -> Records]
  /\ incident \in [1..MaxCalls -> States]
  /\ returned \subseteq 1..made
  /\ changes \in Nat
  /\ \A c \in Callers : ~ At(c, "idle") => call[c].number \in 1..made
  /\ \A c \in Callers : At(c, "verified") \/ At(c, "composed") => lock = c
  /\ \A c \in Callers : At(c, "composed") => event.body = call[c].number

\* The file is a sequence of lines, whatever they hold.
FileInv == \E S : lines \in Seq(S)

Undisturbed == changes = 0 /\ ~ glued

\* A call whose event was written, or that has returned, is on record unless
\* that event has a line break in its text.
RecordInv ==
  /\ \A c \in Callers :
       At(c, "recorded") /\ call[c].number \notin cut => OnRecord(call[c].number)
  /\ \A n \in returned \ cut : incident[n] \in {"none", "contained"} => OnRecord(n)

Inv == CallInv /\ FileInv /\ (Undisturbed => RecordInv)

\* Nothing is promised at the start.
LEMMA InitInv == Init => Inv
<1> SUFFICES ASSUME Init PROVE Inv
  OBVIOUS
<1>1. CallInv
  BY DEF Init, CallInv, Records, Places, States, At, Idle, NoCall
<1>2. FileInv
  BY DEF Init, FileInv
<1>3. RecordInv
  BY DEF Init, RecordInv, At, Idle
<1> QED
  BY <1>1, <1>2, <1>3 DEF Inv

-----------------------------------------------------------------------------
(* The lines of a file that was written to or changed.                        *)

\* The steps that leave the file alone keep it a sequence.
LEMMA FileKept == FileInv /\ UNCHANGED lines => FileInv'
BY DEF FileInv

\* The elements of a concatenation and of a part of a sequence.
LEMMA ConcatElements ==
  ASSUME NEW S, NEW s \in Seq(S), NEW t \in Seq(S), NEW i \in 1..Len(s \o t)
  PROVE  \/ \E j \in 1..Len(s) : (s \o t)[i] = s[j]
         \/ \E j \in 1..Len(t) : (s \o t)[i] = t[j]
<1>1. /\ Len(s) \in Nat /\ Len(t) \in Nat
      /\ Len(s \o t) = Len(s) + Len(t)
      /\ \A j \in 1..(Len(s) + Len(t)) :
           (s \o t)[j] = IF j <= Len(s) THEN s[j] ELSE t[j - Len(s)]
  BY ConcatProperties
<1>2. CASE i <= Len(s)
  BY <1>1, <1>2
<1>3. CASE i > Len(s)
  <2>1. i - Len(s) \in 1..Len(t)
    BY <1>1, <1>3
  <2>2. (s \o t)[i] = t[i - Len(s)]
    BY <1>1, <1>3
  <2> QED
    BY <2>1, <2>2
<1> QED
  BY <1>1, <1>2, <1>3

LEMMA PartElements ==
  ASSUME NEW S, NEW s \in Seq(S), NEW a \in 1..(Len(s) + 1), NEW b \in 0..Len(s)
  PROVE  /\ SubSeq(s, a, b) \in Seq(S)
         /\ \A i \in 1..Len(SubSeq(s, a, b)) : \E j \in 1..Len(s) : SubSeq(s, a, b)[i] = s[j]
<1>1. Len(s) \in Nat
  OBVIOUS
<1>2. CASE a <= b
  <2>1. \A i \in a..b : i \in DOMAIN s
    BY <1>1, <1>2
  <2>2. \A i \in a..b : s[i] \in S
    BY <2>1
  <2>3. /\ SubSeq(s, a, b) \in Seq(S) /\ Len(SubSeq(s, a, b)) = b - a + 1
        /\ \A i \in 1..(b - a + 1) : SubSeq(s, a, b)[i] = s[a + i - 1]
    BY <1>1, <1>2, <2>2, SubSeqProperties
  <2>4. \A i \in 1..(b - a + 1) : a + i - 1 \in 1..Len(s)
    BY <1>1, <1>2
  <2> QED
    BY <2>3, <2>4
<1>3. CASE a > b
  <2>1. SubSeq(s, a, b) = <<>>
    BY <1>1, <1>3
  <2>2. <<>> \in Seq(S) /\ Len(<<>>) = 0
    OBVIOUS
  <2> QED
    BY <2>1, <2>2
<1> QED
  BY <1>1, <1>2, <1>3

\* A line put between others, or in the place of one.
LEMMA InsertElements ==
  ASSUME NEW S, NEW s \in Seq(S), NEW p \in 1..(Len(s) + 1), NEW e
  PROVE  /\ InsertAt(s, p, e) \in Seq(S \cup {e})
         /\ \A i \in 1..Len(InsertAt(s, p, e)) :
              InsertAt(s, p, e)[i] = e \/ \E j \in 1..Len(s) : InsertAt(s, p, e)[i] = s[j]
<1> DEFINE T == S \cup {e}
           before == SubSeq(s, 1, p - 1)
           after == SubSeq(s, p, Len(s))
           one == <<e>>
<1>1. s \in Seq(T) /\ Len(s) \in Nat
  OBVIOUS
<1>2. /\ one \in Seq(T) /\ Len(one) = 1
      /\ \A m \in 1..Len(one) : one[m] = e
  OBVIOUS
<1>3. 1 \in 1..(Len(s) + 1) /\ p - 1 \in 0..Len(s) /\ Len(s) \in 0..Len(s)
  BY <1>1
<1> HIDE DEF T
<1>4. /\ before \in Seq(T)
      /\ \A m \in 1..Len(before) : \E j \in 1..Len(s) : before[m] = s[j]
  BY <1>1, <1>3, PartElements
<1>5. /\ after \in Seq(T)
      /\ \A m \in 1..Len(after) : \E j \in 1..Len(s) : after[m] = s[j]
  BY <1>1, <1>3, PartElements
<1>6. InsertAt(s, p, e) = (before \o one) \o after
  BY DEF InsertAt
<1> HIDE DEF before, after, one
<1> DEFINE start == before \o one
<1>7. start \in Seq(T) /\ start \o after \in Seq(T)
  BY <1>2, <1>4, <1>5, ConcatProperties
<1>8. \A m \in 1..Len(start) :
        \/ \E j \in 1..Len(before) : start[m] = before[j]
        \/ \E j \in 1..Len(one) : start[m] = one[j]
  <2> TAKE m \in 1..Len(start)
  <2> before \in Seq(T) /\ one \in Seq(T)
    BY <1>2, <1>4
  <2> QED
    BY ConcatElements
<1> HIDE DEF start
<1>9. \A i \in 1..Len(start \o after) :
        \/ \E m \in 1..Len(start) : (start \o after)[i] = start[m]
        \/ \E m \in 1..Len(after) : (start \o after)[i] = after[m]
  <2> TAKE i \in 1..Len(start \o after)
  <2> start \in Seq(T) /\ after \in Seq(T)
    BY <1>5, <1>7
  <2> QED
    BY ConcatElements
<1>10. ASSUME NEW i \in 1..Len(start \o after)
       PROVE  (start \o after)[i] = e \/ \E j \in 1..Len(s) : (start \o after)[i] = s[j]
  <2>1. CASE \E m \in 1..Len(after) : (start \o after)[i] = after[m]
    BY <1>5, <2>1
  <2>2. CASE \E m \in 1..Len(start) : (start \o after)[i] = start[m]
    BY <1>2, <1>4, <1>8, <2>2
  <2> QED
    BY <1>9, <2>1, <2>2
<1> QED
  BY <1>6, <1>7, <1>10 DEF T, start

LEMMA ReplaceElements ==
  ASSUME NEW S, NEW s \in Seq(S), NEW p \in 1..Len(s), NEW e
  PROVE  /\ [s EXCEPT ![p] = e] \in Seq(S \cup {e})
         /\ \A i \in 1..Len([s EXCEPT ![p] = e]) :
              \/ [s EXCEPT ![p] = e][i] = e
              \/ i \in 1..Len(s) /\ [s EXCEPT ![p] = e][i] = s[i]
<1> DEFINE T == S \cup {e}
<1>1. s \in Seq(T) /\ e \in T
  OBVIOUS
<1> HIDE DEF T
<1> QED
  BY <1>1 DEF T

\* After a write of pieces of text, every line was there before, is a piece, or
\* cannot be read; behind a complete file nothing is lost.
LEMMA LandedLines ==
  ASSUME FileInv, NEW P, NEW pieces \in Seq(P), pieces # <<>>, lines' = Landed(pieces)
  PROVE  /\ FileInv'
         /\ \A i \in 1..Len(lines') :
              \/ lines'[i] = Torn
              \/ \E j \in 1..Len(lines) : lines'[i] = lines[j]
              \/ \E j \in 1..Len(pieces) : lines'[i] = pieces[j]
         /\ ended => /\ \A n : OnRecord(n) => OnRecord(n)'
                     /\ \A j \in 1..Len(pieces) :
                          \E i \in 1..Len(lines') : lines'[i] = pieces[j]
<1>1. PICK S : lines \in Seq(S)
  BY DEF FileInv
<1> DEFINE T == S \cup P \cup {Torn}
<1>2. lines \in Seq(T) /\ pieces \in Seq(T) /\ Len(lines) \in Nat /\ Len(pieces) \in Nat
  BY <1>1
<1>3. <<Torn>> \in Seq(T) /\ Len(<<Torn>>) = 1 /\ \A m \in 1..Len(<<Torn>>) : <<Torn>>[m] = Torn
  OBVIOUS
<1> HIDE DEF T
<1>4. CASE ended
  <2>1. lines' = lines \o pieces
    BY <1>4 DEF Landed
  <2>2. /\ lines' \in Seq(T) /\ Len(lines') = Len(lines) + Len(pieces)
        /\ \A i \in 1..(Len(lines) + Len(pieces)) :
             lines'[i] = IF i <= Len(lines) THEN lines[i] ELSE pieces[i - Len(lines)]
    BY <1>2, <2>1, ConcatProperties
  <2>3. \A i \in 1..Len(lines') :
          \/ \E j \in 1..Len(lines) : lines'[i] = lines[j]
          \/ \E j \in 1..Len(pieces) : lines'[i] = pieces[j]
    BY <1>2, <2>1, ConcatElements
  <2>4. \A i \in 1..Len(lines) : i \in 1..Len(lines') /\ lines'[i] = lines[i]
    BY <1>2, <2>2
  <2>5. ASSUME NEW j \in 1..Len(pieces)
        PROVE  \E i \in 1..Len(lines') : lines'[i] = pieces[j]
    <3>1. /\ Len(lines) + j \in 1..(Len(lines) + Len(pieces))
          /\ ~ (Len(lines) + j <= Len(lines)) /\ Len(lines) + j - Len(lines) = j
      BY <1>2
    <3>2. lines'[Len(lines) + j] = pieces[j]
      BY <2>2, <3>1
    <3> QED
      BY <2>2, <3>1, <3>2
  <2>6. \A n : OnRecord(n) => OnRecord(n)'
    BY <2>4 DEF OnRecord
  <2> QED
    BY <2>2, <2>3, <2>5, <2>6 DEF FileInv
<1>5. CASE ~ ended
  <2> DEFINE front == Front(lines)
             rest == Tail(pieces)
             torn == <<Torn>>
  <2>1. lines' = (front \o torn) \o rest
    BY <1>5 DEF Landed
  <2>2. /\ front \in Seq(T)
        /\ \A m \in 1..Len(front) : \E j \in 1..Len(lines) : front[m] = lines[j]
    <3>1. CASE lines = <<>>
      <4>1. front = <<>>
        BY <3>1, SubSeqEmpty DEF Front
      <4> QED
        BY <4>1, EmptySeq
    <3>2. CASE lines # <<>>
      <4>1. Len(lines) - 1 \in 0..Len(lines) /\ 1 \in 1..(Len(lines) + 1)
        BY <1>2, <3>2, EmptySeq
      <4> QED
        BY <1>2, <4>1, PartElements DEF Front
    <3> QED
      BY <3>1, <3>2
  <2>3. /\ rest \in Seq(T)
        /\ \A m \in 1..Len(rest) : \E j \in 1..Len(pieces) : rest[m] = pieces[j]
    <3>1. /\ rest \in Seq(T) /\ Len(rest) = Len(pieces) - 1
          /\ \A m \in 1..Len(rest) : rest[m] = pieces[m + 1]
      BY <1>2, HeadTailProperties
    <3>2. \A m \in 1..Len(rest) : m + 1 \in 1..Len(pieces)
      BY <1>2, <3>1
    <3> QED
      BY <3>1, <3>2
  <2>4. torn \in Seq(T) /\ \A m \in 1..Len(torn) : torn[m] = Torn
    BY <1>3
  <2> HIDE DEF front, rest, torn
  <2> DEFINE start == front \o torn
  <2>5. start \in Seq(T) /\ lines' = start \o rest /\ lines' \in Seq(T)
    BY <2>1, <2>2, <2>3, <2>4, ConcatProperties
  <2>6. \A m \in 1..Len(start) :
          \/ \E j \in 1..Len(front) : start[m] = front[j]
          \/ \E j \in 1..Len(torn) : start[m] = torn[j]
    <3> TAKE m \in 1..Len(start)
    <3> front \in Seq(T) /\ torn \in Seq(T)
      BY <2>2, <2>4
    <3> QED
      BY ConcatElements
  <2> HIDE DEF start
  <2>7. \A i \in 1..Len(start \o rest) :
          \/ \E m \in 1..Len(start) : (start \o rest)[i] = start[m]
          \/ \E m \in 1..Len(rest) : (start \o rest)[i] = rest[m]
    <3> TAKE i \in 1..Len(start \o rest)
    <3> start \in Seq(T) /\ rest \in Seq(T)
      BY <2>3, <2>5
    <3> QED
      BY ConcatElements
  <2>8. ASSUME NEW i \in 1..Len(lines')
        PROVE  \/ lines'[i] = Torn
               \/ \E j \in 1..Len(lines) : lines'[i] = lines[j]
               \/ \E j \in 1..Len(pieces) : lines'[i] = pieces[j]
    <3>1. CASE \E m \in 1..Len(rest) : lines'[i] = rest[m]
      BY <2>3, <3>1
    <3>2. CASE \E m \in 1..Len(start) : lines'[i] = start[m]
      BY <2>2, <2>4, <2>6, <3>2
    <3> QED
      BY <2>5, <2>7, <3>1, <3>2
  <2> QED
    BY <1>5, <2>5, <2>8 DEF FileInv
<1> QED
  BY <1>4, <1>5

\* What a write puts behind the file is text: the event, or pieces of it.
LEMMA Pieces ==
  ASSUME NEW c \in Callers, NEW broken \in BOOLEAN,
         WriteAll(c, broken) \/ WriteUnended(c, broken) \/ WritePart(c, broken)
  PROVE  \E pieces \in {<<event>>, <<Torn>>, <<Torn, Torn>>} :
           /\ lines' = Landed(pieces)
           /\ pieces \in Seq({event, Torn}) /\ pieces # <<>>
           /\ \A j \in 1..Len(pieces) : pieces[j] \in {event, Torn}
<1>1. \E pieces \in {<<event>>, <<Torn>>, <<Torn, Torn>>} : lines' = Landed(pieces)
  BY DEF WriteAll, WriteUnended, WritePart, Whole, Parts
<1>2. ASSUME NEW pieces \in {<<event>>, <<Torn>>, <<Torn, Torn>>}
      PROVE  /\ pieces \in Seq({event, Torn}) /\ pieces # <<>>
             /\ \A j \in 1..Len(pieces) : pieces[j] \in {event, Torn}
  <2>1. pieces \in Seq({event, Torn}) /\ pieces # <<>>
    <3>1. CASE pieces = <<event>>
      BY <3>1
    <3>2. CASE pieces = <<Torn>>
      BY <3>2
    <3>3. CASE pieces = <<Torn, Torn>>
      BY <3>3
    <3> QED
      BY <3>1, <3>2, <3>3
  <2> QED
    BY <2>1
<1> QED
  BY <1>1, <1>2

\* After a change from outside, every line was there before, had been written,
\* is one that could be read, under another body, or is forged.
LEMMA ChangedLines ==
  ASSUME FileInv, Change
  PROVE  /\ FileInv'
         /\ \A i \in 1..Len(lines') :
              \/ \E j \in 1..Len(lines) : lines'[i] = lines[j]
              \/ \E k \in 1..Len(written) : lines'[i] = written[k]
              \/ \E j \in 1..Len(lines) : lines'[i] = [lines[j] EXCEPT !.body = Rewritten]
              \/ \E p \in 1..(Len(lines) + 1) : lines'[i] = Forged(p)
<1>1. PICK S : lines \in Seq(S)
  BY DEF FileInv
<1>2. Len(lines) \in Nat /\ DOMAIN lines = 1..Len(lines)
  BY <1>1
<1>3. CASE lines' \in Deleted
  <2>1. PICK d \in 1..Len(lines) : lines' = RemoveAt(lines, d)
    BY <1>3 DEF Deleted
  <2> DEFINE before == SubSeq(lines, 1, d - 1)
             after == SubSeq(lines, d + 1, Len(lines))
  <2>2. /\ before \in Seq(S)
        /\ \A k \in 1..Len(before) : \E j \in 1..Len(lines) : before[k] = lines[j]
    <3> d - 1 \in 0..Len(lines) /\ 1 \in 1..(Len(lines) + 1)
      BY <1>2
    <3> QED
      BY <1>1, PartElements
  <2>3. /\ after \in Seq(S)
        /\ \A k \in 1..Len(after) : \E j \in 1..Len(lines) : after[k] = lines[j]
    <3> d + 1 \in 1..(Len(lines) + 1) /\ Len(lines) \in 0..Len(lines)
      BY <1>2
    <3> QED
      BY <1>1, PartElements
  <2>4. lines' = before \o after
    BY <2>1 DEF RemoveAt
  <2> HIDE DEF before, after
  <2>5. lines' \in Seq(S)
    BY <2>2, <2>3, <2>4, ConcatProperties
  <2>6. \A n \in 1..Len(before \o after) :
          \/ \E j \in 1..Len(before) : (before \o after)[n] = before[j]
          \/ \E j \in 1..Len(after) : (before \o after)[n] = after[j]
    <3> TAKE n \in 1..Len(before \o after)
    <3> before \in Seq(S) /\ after \in Seq(S)
      BY <2>2, <2>3
    <3> QED
      BY ConcatElements
  <2>7. ASSUME NEW i \in 1..Len(lines')
        PROVE  \E j \in 1..Len(lines) : lines'[i] = lines[j]
    <3>1. CASE \E n \in 1..Len(before) : lines'[i] = before[n]
      BY <2>2, <3>1
    <3>2. CASE \E n \in 1..Len(after) : lines'[i] = after[n]
      BY <2>3, <3>2
    <3> QED
      BY <2>4, <2>6, <3>1, <3>2
  <2> QED
    BY <2>5, <2>7 DEF FileInv
<1>4. CASE lines' \in Exchanged
  <2>1. PICK a \in 1..Len(lines), b \in 1..Len(lines) :
          lines' = [lines EXCEPT ![a] = lines[b], ![b] = lines[a]]
    BY <1>4 DEF Exchanged
  <2>2. lines' \in Seq(S) /\ DOMAIN lines' = 1..Len(lines)
    BY <1>1, <2>1
  <2>3. Len(lines') = Len(lines)
    BY <1>2, <2>2, LenProperties
  <2> QED
    BY <1>2, <2>1, <2>2, <2>3 DEF FileInv
\* A line is put in the place of another.
<1>5. ASSUME NEW p \in 1..Len(lines), NEW e, lines' = [lines EXCEPT ![p] = e]
      PROVE  /\ FileInv'
             /\ \A i \in 1..Len(lines') :
                  lines'[i] = e \/ \E j \in 1..Len(lines) : lines'[i] = lines[j]
  <2>1. [lines EXCEPT ![p] = e] \in Seq(S \cup {e})
    BY <1>1, ReplaceElements
  <2>2. \A i \in 1..Len(lines') :
          lines'[i] = e \/ (i \in 1..Len(lines) /\ lines'[i] = lines[i])
    BY <1>1, <1>5, ReplaceElements
  <2>3. \E X : lines' \in Seq(X)
    BY <1>5, <2>1
  <2> QED
    BY <2>2, <2>3 DEF FileInv
\* A line is put between others.
<1>6. ASSUME NEW p \in 1..(Len(lines) + 1), NEW e, lines' = InsertAt(lines, p, e)
      PROVE  /\ FileInv'
             /\ \A i \in 1..Len(lines') :
                  lines'[i] = e \/ \E j \in 1..Len(lines) : lines'[i] = lines[j]
  <2>1. /\ InsertAt(lines, p, e) \in Seq(S \cup {e})
        /\ \A i \in 1..Len(InsertAt(lines, p, e)) :
             \/ InsertAt(lines, p, e)[i] = e
             \/ \E j \in 1..Len(lines) : InsertAt(lines, p, e)[i] = lines[j]
    <3> lines \in Seq(S)
      BY <1>1
    <3> QED
      BY InsertElements
  <2>2. \A i \in 1..Len(lines') :
          lines'[i] = e \/ \E j \in 1..Len(lines) : lines'[i] = lines[j]
    BY <1>6, <2>1
  <2>3. \E X : lines' \in Seq(X)
    BY <1>6, <2>1
  <2> QED
    BY <2>2, <2>3 DEF FileInv
<1>7. CASE lines' \in Edited
  <2>1. PICK e \in 1..Len(lines) : lines' = [lines EXCEPT ![e].body = Rewritten]
    BY <1>7 DEF Edited
  <2> DEFINE new == [lines[e] EXCEPT !.body = Rewritten]
  <2>2. lines' = [lines EXCEPT ![e] = new]
    BY <2>1
  <2>3. /\ FileInv'
        /\ \A i \in 1..Len(lines') :
             lines'[i] = new \/ \E j \in 1..Len(lines) : lines'[i] = lines[j]
    <3> HIDE DEF new
    <3> QED
      BY <1>5, <2>2
  <2> QED
    BY <2>3
<1>8. CASE lines' \in Replaced
  <2>1. PICK p \in 1..Len(lines) : lines' = [lines EXCEPT ![p] = Forged(p)]
    BY <1>8 DEF Replaced
  <2> DEFINE new == Forged(p)
  <2>2. p \in 1..(Len(lines) + 1)
    BY <1>2
  <2>3. /\ FileInv'
        /\ \A i \in 1..Len(lines') :
             lines'[i] = new \/ \E j \in 1..Len(lines) : lines'[i] = lines[j]
    <3>1. lines' = [lines EXCEPT ![p] = new]
      BY <2>1
    <3> HIDE DEF new
    <3> QED
      BY <1>5, <3>1
  <2> QED
    BY <2>2, <2>3
<1>9. CASE lines' \in Reinserted
  <2>1. PICK p \in 1..(Len(lines) + 1), k \in 1..Len(written) :
          lines' = InsertAt(lines, p, written[k])
    BY <1>9 DEF Reinserted
  <2> QED
    BY <1>6, <2>1
<1>10. CASE lines' \in Added
  <2>1. PICK p \in 1..(Len(lines) + 1) : lines' = InsertAt(lines, p, Forged(p))
    BY <1>10 DEF Added
  <2> QED
    BY <1>6, <2>1
<1> QED
  BY <1>3, <1>4, <1>7, <1>8, <1>9, <1>10 DEF Change

-----------------------------------------------------------------------------
(* The invariant of the calls and the file.                                   *)

\* A call that moves to another place keeps its operation and number.
LEMMA Moved ==
  ASSUME call \in [Callers -> Records], NEW c \in Callers, NEW place \in Places,
         MoveTo(c, place)
  PROVE  /\ call' \in [Callers -> Records]
         /\ call'[c].at = place /\ call'[c].number = call[c].number
         /\ call'[c].operation = call[c].operation
         /\ \A d \in Callers \ {c} : call'[d] = call[d]
BY DEF MoveTo, Records

\* A call that begins has a number of its own; one that ends has none.
LEMMA Began ==
  ASSUME CallInv, NEW c \in Callers, NEW operation \in {"authorize", "contain"},
         Begin(c, operation)
  PROVE  /\ call' \in [Callers -> Records]
         /\ made' \in 0..MaxCalls /\ made' = made + 1
         /\ call'[c].at = "record" /\ call'[c].number = made'
         /\ \A d \in Callers \ {c} : call'[d] = call[d]
BY DEF CallInv, Begin, Records, Places

LEMMA Ended ==
  ASSUME call \in [Callers -> Records], NEW c \in Callers,
         call' = [call EXCEPT ![c] = Idle]
  PROVE  /\ call' \in [Callers -> Records]
         /\ call'[c].at = "idle"
         /\ \A d \in Callers \ {c} : call'[d] = call[d]
BY DEF Records, Places, Idle, NoCall

\* Every step keeps the types, the numbers and the event of the lock's holder.
LEMMA CallNext == CallInv /\ [Next]_vars => CallInv'
<1> SUFFICES ASSUME CallInv, [Next]_vars PROVE CallInv'
  OBVIOUS
<1> USE DEF CallInv, At, ghosts, file
<1>1. ASSUME NEW c \in Callers, Authorize(c) PROVE CallInv'
  BY <1>1, Began DEF Authorize
<1>2. ASSUME NEW c \in Callers, Contain(c) PROVE CallInv'
  <2>1. Begin(c, "contain")
    BY <1>2 DEF Contain
  <2>2. incident' \in [1..MaxCalls -> States]
    BY <1>2, <2>1 DEF Contain, Begin, States
  <2> QED
    BY <1>2, <2>1, <2>2, Began DEF Contain
<1>3. ASSUME NEW c \in Callers, Verify(c) PROVE CallInv'
  <2>1. PICK place \in Places : MoveTo(c, place)
    BY <1>3 DEF Verify, Places
  <2>2. lock = NoCaller /\ UNCHANGED <<event, incident, made, returned, changes>>
    BY <1>3 DEF Verify
  <2>3. \A d \in Callers : ~ At(d, "verified") /\ ~ At(d, "composed")
    BY <2>2 DEF AuditConstants
  <2>4. CASE MoveTo(c, "verified") /\ lock' = c
    BY <1>3, <2>2, <2>3, <2>4, Moved DEF Verify, Places
  <2>5. CASE MoveTo(c, "failed") /\ UNCHANGED lock
    BY <1>3, <2>2, <2>3, <2>5, Moved DEF Verify, Places
  <2> QED
    BY <1>3, <2>4, <2>5 DEF Verify
<1>4. ASSUME NEW c \in Callers, Compose(c) PROVE CallInv'
  <2>1. CASE MoveTo(c, "failed") /\ lock' = NoCaller /\ UNCHANGED event
    BY <1>4, <2>1, Moved DEF Compose, Places
  <2>2. CASE MoveTo(c, "composed") /\ event' = Event(lines, call[c].number) /\ UNCHANGED lock
    <3>1. event'.body = call[c].number
      BY <2>2 DEF Event
    <3>2. lock = c
      BY <1>4 DEF Compose
    <3> QED
      BY <1>4, <2>2, <3>1, <3>2, Moved DEF Compose, Places
  <2> QED
    BY <1>4, <2>1, <2>2 DEF Compose
<1>5. ASSUME NEW c \in Callers, Write(c) PROVE CallInv'
  <2>1. PICK place \in {"recorded", "failed"} : MoveTo(c, place)
    BY <1>5 DEF Write, WriteAll, WriteUnended, WritePart, WriteNothing, Unlock
  <2>2. lock = c
    BY <1>5 DEF Write
  <2>3. lock' = NoCaller
    BY <1>5 DEF Write, WriteAll, WriteUnended, WritePart, WriteNothing, Unlock
  <2>4. UNCHANGED <<incident, made, returned, changes>>
    BY <1>5 DEF Write
  <2> QED
    BY <1>5, <2>1, <2>2, <2>3, <2>4, Moved DEF Places, Write
<1>6. ASSUME NEW c \in Callers, Answer(c) PROVE CallInv'
  BY <1>6, Ended DEF Answer, Return
<1>7. ASSUME NEW c \in Callers, GiveUp(c) PROVE CallInv'
  BY <1>7, Ended DEF GiveUp, Raise
<1>8. ASSUME NEW c \in Callers, Degrade(c) PROVE CallInv'
  <2>1. incident' \in [1..MaxCalls -> States]
    BY <1>8 DEF Degrade, States
  <2>2. returned' \subseteq 1..made
    BY <1>8 DEF Degrade, Return, Raise
  <2>3. call' = [call EXCEPT ![c] = Idle]
    BY <1>8 DEF Degrade, Return, Raise
  <2> QED
    BY <1>8, <2>1, <2>2, <2>3, Ended DEF Degrade
<1>9. CASE Crash
  BY <1>9 DEF Crash, Idle, NoCall, Records, Places
<1>10. CASE Change
  BY <1>10 DEF Change
<1>11. CASE UNCHANGED vars
  BY <1>11 DEF vars
<1> QED
  BY <1>1, <1>2, <1>3, <1>4, <1>5, <1>6, <1>7, <1>8, <1>9, <1>10, <1>11 DEF Next

\* Every step keeps the file a sequence of lines.
LEMMA FileNext == FileInv /\ [Next]_vars => FileInv'
<1> SUFFICES ASSUME FileInv, [Next]_vars PROVE FileInv'
  OBVIOUS
<1>1. CASE UNCHANGED lines
  BY <1>1, FileKept
<1>2. ASSUME NEW c \in Callers, Write(c) PROVE FileInv'
  <2>1. PICK broken \in BOOLEAN :
          \/ WriteAll(c, broken) \/ WriteUnended(c, broken) \/ WritePart(c, broken)
          \/ WriteNothing(c)
    BY <1>2 DEF Write
  <2>2. CASE WriteNothing(c)
    BY <2>2, FileKept DEF WriteNothing
  <2>3. CASE WriteAll(c, broken) \/ WriteUnended(c, broken) \/ WritePart(c, broken)
    <3>1. PICK pieces : lines' = Landed(pieces) /\ pieces \in Seq({event, Torn}) /\ pieces # <<>>
      BY <2>3, Pieces
    <3> QED
      BY <3>1, LandedLines
  <2> QED
    BY <2>1, <2>2, <2>3
<1>3. CASE Change
  BY <1>3, ChangedLines
<1> QED
  BY <1>1, <1>2, <1>3 DEF Next, Authorize, Contain, Verify, Compose, Answer, GiveUp, Degrade,
     Crash, vars, file, ghosts

\* Unless the file was disturbed, a call is on record when its line has been
\* written in whole, and it returns only then or with an incident that tells.
LEMMA RecordNext == Inv /\ [Next]_vars /\ Undisturbed' => RecordInv'
<1> SUFFICES ASSUME Inv, [Next]_vars, Undisturbed' PROVE RecordInv'
  OBVIOUS
<1>1. UNCHANGED lines => \A n : OnRecord(n)' = OnRecord(n)
  BY DEF OnRecord
<1>0. CallInv
  BY DEF Inv
<1>a. UNCHANGED <<glued, changes>> => RecordInv
  BY DEF Inv, Undisturbed
<1>b. call \in [Callers -> Records]
  BY DEF Inv, CallInv
<1> USE DEF At, ghosts, file, RecordInv
<1>2. ASSUME NEW c \in Callers, Authorize(c) PROVE RecordInv'
  BY <1>0, <1>a, <1>1, <1>2, Began DEF Authorize
<1>3. ASSUME NEW c \in Callers, Contain(c) PROVE RecordInv'
  <2>1. Begin(c, "contain") /\ UNCHANGED <<returned, cut, lines, glued, changes>>
    BY <1>3 DEF Contain
  <2>2. \A n \in returned : incident'[n] = incident[n]
    BY <1>0, <1>3 DEF CallInv, Contain
  <2> QED
    BY <1>0, <1>a, <1>1, <2>1, <2>2, Began
<1>4. ASSUME NEW c \in Callers, Verify(c) PROVE RecordInv'
  <2>1. PICK place \in {"verified", "failed"} : MoveTo(c, place)
    BY <1>4 DEF Verify
  <2> QED
    BY <1>a, <1>b, <1>1, <1>4, <2>1, Moved DEF Verify, Places
<1>5. ASSUME NEW c \in Callers, Compose(c) PROVE RecordInv'
  <2>1. PICK place \in {"composed", "failed"} : MoveTo(c, place)
    BY <1>5 DEF Compose
  <2> QED
    BY <1>a, <1>b, <1>1, <1>5, <2>1, Moved DEF Compose, Places
<1>6. ASSUME NEW c \in Callers, Write(c) PROVE RecordInv'
  <2>1. UNCHANGED <<incident, returned, changes>> /\ At(c, "composed")
    BY <1>6 DEF Write
  <2>2. PICK broken \in BOOLEAN :
          /\ cut' = IF broken THEN cut \cup {call[c].number} ELSE cut
          /\ \/ /\ WriteAll(c, broken) \/ WriteUnended(c, broken) \/ WritePart(c, broken)
                /\ glued' = (glued \/ ~ ended)
             \/ WriteNothing(c) /\ UNCHANGED glued
    BY <1>6 DEF Write
  <2>3. RecordInv /\ cut \subseteq cut'
    BY <2>1, <2>2 DEF Inv, Undisturbed
  <2>4. CASE WriteNothing(c)
    <3>1. MoveTo(c, "failed") /\ UNCHANGED lines
      BY <2>4 DEF WriteNothing, Unlock
    <3> QED
      BY <1>b, <1>1, <2>1, <2>3, <3>1, Moved DEF Places
  <2>5. CASE /\ WriteAll(c, broken) \/ WriteUnended(c, broken) \/ WritePart(c, broken)
             /\ glued' = (glued \/ ~ ended)
    <3>1. ended /\ FileInv
      BY <2>5 DEF Undisturbed, Inv
    <3>2. PICK pieces \in {<<event>>, <<Torn>>, <<Torn, Torn>>} :
            lines' = Landed(pieces) /\ pieces \in Seq({event, Torn}) /\ pieces # <<>>
      BY <2>5, Pieces
    <3>3. /\ \A n : OnRecord(n) => OnRecord(n)'
          /\ \A j \in 1..Len(pieces) : \E i \in 1..Len(lines') : lines'[i] = pieces[j]
      BY <3>1, <3>2, LandedLines
    <3>4. CASE WriteAll(c, broken)
      <4>1. MoveTo(c, "recorded") /\ lines' = Landed(Whole(broken))
        BY <3>4 DEF WriteAll, Unlock
      <4>2. call[c].number \notin cut' => OnRecord(call[c].number)'
        <5> SUFFICES ASSUME call[c].number \notin cut' PROVE OnRecord(call[c].number)'
          OBVIOUS
        <5>1. ~ broken
          BY <2>2
        <5>2. lines' = Landed(<<event>>)
          BY <4>1, <5>1 DEF Whole
        <5>3. \E i \in 1..Len(lines') : lines'[i] = event
          <6>1. <<event>> \in Seq({event}) /\ <<event>> # <<>>
            OBVIOUS
          <6>2. \A j \in 1..Len(<<event>>) : \E i \in 1..Len(lines') : lines'[i] = <<event>>[j]
            BY <3>1, <5>2, <6>1, LandedLines
          <6>3. 1 \in 1..Len(<<event>>) /\ <<event>>[1] = event
            OBVIOUS
          <6> QED
            BY <6>2, <6>3
        <5>4. event.body = call[c].number
          BY <1>0, <2>1 DEF CallInv
        <5>5. call'[c].number = call[c].number
          BY <1>b, <4>1, Moved DEF Places
        <5> QED
          BY <5>3, <5>4, <5>5 DEF OnRecord
      <4> QED
        BY <1>b, <2>1, <2>3, <3>3, <4>1, <4>2, Moved DEF Places
    <3>5. CASE WriteUnended(c, broken) \/ WritePart(c, broken)
      <4>1. MoveTo(c, "failed")
        BY <3>5 DEF WriteUnended, WritePart, Unlock
      <4> QED
        BY <1>b, <2>1, <2>3, <3>3, <4>1, Moved DEF Places
    <3> QED
      BY <2>5, <3>4, <3>5
  <2> QED
    BY <2>2, <2>4, <2>5
<1>7. ASSUME NEW c \in Callers, Answer(c) PROVE RecordInv'
  <2>1. RecordInv /\ UNCHANGED <<lines, incident>>
    BY <1>7, <1>a DEF Answer
  <2>2. /\ call[c].number \notin cut => OnRecord(call[c].number)
        /\ call' = [call EXCEPT ![c] = Idle] /\ UNCHANGED cut
    BY <1>7, <2>1 DEF Answer, Return
  <2>3. returned' = returned \cup {call[c].number}
    BY <1>7 DEF Answer, Return
  <2> QED
    BY <1>1, <1>b, <2>1, <2>2, <2>3, Ended
<1>8. ASSUME NEW c \in Callers, GiveUp(c) PROVE RecordInv'
  BY <1>a, <1>b, <1>1, <1>8, Ended DEF GiveUp, Raise
<1>9. ASSUME NEW c \in Callers, Degrade(c) PROVE RecordInv'
  <2>1. RecordInv /\ UNCHANGED <<lines, cut>> /\ call' = [call EXCEPT ![c] = Idle]
    BY <1>9, <1>a DEF Degrade, Return, Raise
  <2>2. \A n \in returned' : incident'[n] \in {"none", "contained"} =>
          n \in returned /\ incident[n] \in {"none", "contained"}
    <3>1. call[c].number \in 1..MaxCalls /\ returned \subseteq 1..MaxCalls
      BY <1>0, <1>9 DEF CallInv, Degrade
    <3> QED
      BY <1>0, <1>9, <3>1 DEF CallInv, Degrade, Return, Raise
  <2> QED
    BY <1>1, <1>b, <2>1, <2>2, Ended
<1>10. CASE Crash
  BY <1>a, <1>1, <1>10 DEF Crash, Idle
<1>11. CASE Change
  BY <1>0, <1>11 DEF Change, Undisturbed, CallInv
<1>12. CASE UNCHANGED vars
  BY <1>a, <1>1, <1>12 DEF vars
<1> QED
  BY <1>2, <1>3, <1>4, <1>5, <1>6, <1>7, <1>8, <1>9, <1>10, <1>11, <1>12 DEF Next

\* The invariant holds in every reachable state.
THEOREM Invariance == Spec => []Inv
<1>1. Inv /\ [Next]_vars => Inv'
  BY CallNext, FileNext, RecordNext DEF Inv
<1> QED
  BY InitInv, <1>1, PTL DEF Spec

\* What has returned is on record or says that it is not.
THEOREM Evidenced == Spec => []ReturnedIsEvidenced
<1>1. Inv => ReturnedIsEvidenced
  BY DEF Inv, RecordInv, Undisturbed, ReturnedIsEvidenced
<1> QED
  BY Invariance, <1>1, PTL

-----------------------------------------------------------------------------
(* VerifiedIsWritten: unless one of them was written behind a changed file,   *)
(* the events that were written verify, taken by themselves.  The hash of one *)
(* fixes what is before it, so a file that verifies and holds one holds all   *)
(* before it, whatever else was done to the file.                             *)

\* Nothing in a line but its four parts.
Shaped(line) ==
  line = [sequence |-> line.sequence, previous |-> line.previous,
          body |-> line.body, hash |-> line.hash]

WrittenInv ==
  /\ \E S : written \in Seq(S)
  /\ \A k \in 1..Len(written) : Shaped(written[k])
  /\ ~ forked => Valid(written)

ChainInv ==
  /\ WrittenInv
  /\ \A c \in Callers : At(c, "composed") => Shaped(event)
  /\ \A i \in 1..Len(lines) : Shaped(lines[i])

\* Lines that cannot be read, that record composes or that are forged.
LEMMA Shapes ==
  /\ Shaped(Torn)
  /\ \A log, n : Shaped(Event(log, n))
  /\ \A i : Shaped(Forged(i))
  /\ \A line : Shaped(line) => Shaped([line EXCEPT !.body = Rewritten])
<1>1. Shaped(Torn)
  BY DEF Shaped, Torn
<1>2. \A log, n : Shaped(Event(log, n))
  BY DEF Shaped, Event
<1>3. \A i : Shaped(Forged(i))
  BY <1>2 DEF Forged
<1>4. ASSUME NEW line, Shaped(line) PROVE Shaped([line EXCEPT !.body = Rewritten])
  <2> DEFINE new == [line EXCEPT !.body = Rewritten]
  <2>1. new = [sequence |-> line.sequence, previous |-> line.previous,
               body |-> Rewritten, hash |-> line.hash]
    BY <1>4 DEF Shaped
  <2> QED
    BY <2>1 DEF Shaped
<1> QED
  BY <1>1, <1>2, <1>3, <1>4

\* An event composed behind a file that verifies continues it.
LEMMA EventContinues ==
  ASSUME NEW S, NEW log \in Seq(S), Valid(log), NEW n
  PROVE  Valid(Append(log, Event(log, n)))
<1> DEFINE line == Event(log, n)
           T == S \cup {line}
           longer == Append(log, line)
<1>1. log \in Seq(T) /\ line \in T /\ Len(log) \in Nat
  OBVIOUS
<1>2. /\ line.sequence = Len(log) + 1 /\ line.hash = Content(line) /\ Readable(line)
      /\ line.previous = (IF log = <<>> THEN Genesis ELSE Last(log).hash)
  BY <1>1 DEF Event, Content, Readable, Torn
<1> HIDE DEF line, T
<1>3. /\ Len(longer) = Len(log) + 1 /\ longer[Len(log) + 1] = line
      /\ \A i \in 1..Len(log) : longer[i] = log[i]
  BY <1>1
<1> HIDE DEF longer
<1>4. log = <<>> <=> Len(log) = 0
  BY EmptySeq
<1>5. ASSUME NEW i \in 1..Len(longer)
      PROVE  /\ Readable(longer[i]) /\ longer[i].sequence = i
             /\ longer[i].previous = (IF i = 1 THEN Genesis ELSE longer[i - 1].hash)
             /\ longer[i].hash = Content(longer[i])
  <2>1. CASE i \in 1..Len(log)
    BY <1>1, <1>3, <2>1 DEF Valid
  <2>2. CASE i = Len(log) + 1
    BY <1>1, <1>2, <1>3, <1>4, <2>2 DEF Last
  <2> QED
    BY <1>1, <1>3, <2>1, <2>2
<1>6. Valid(longer)
  BY <1>5 DEF Valid
<1> QED
  BY <1>6 DEF longer, line

\* The steps that write nothing and leave the file and the event alone.
LEMMA ChainKept ==
  ASSUME ChainInv, UNCHANGED <<lines, written, forked, event>>,
         \A c \in Callers : At(c, "composed")' => At(c, "composed")
  PROVE  ChainInv'
BY DEF ChainInv, WrittenInv

\* A write adds the event, or nothing, to what was written; unless it forked,
\* the event continues what was written.
LEMMA WriteChains ==
  ASSUME WrittenInv, NEW c \in Callers, Write(c), Shaped(event)
  PROVE  WrittenInv'
<1>1. CASE UNCHANGED <<written, forked>>
  BY <1>1 DEF WrittenInv
<1>2. CASE /\ written' = Append(written, event)
           /\ forked' = (forked \/ event # Event(written, call[c].number))
  <2>1. PICK S : written \in Seq(S)
    BY DEF WrittenInv
  <2> DEFINE T == S \cup {event}
  <2>2. written \in Seq(T) /\ event \in T
    BY <2>1
  <2> HIDE DEF T
  <2>3. /\ written' \in Seq(T) /\ Len(written') = Len(written) + 1
        /\ written'[Len(written) + 1] = event
        /\ \A k \in 1..Len(written) : written'[k] = written[k]
    BY <1>2, <2>2
  <2>4. Len(written) \in Nat
    BY <2>1
  <2>5. \A k \in 1..Len(written') : Shaped(written'[k])
    <3>1. \A k \in 1..Len(written') : k \in 1..Len(written) \/ k = Len(written) + 1
      BY <2>3, <2>4
    <3> QED
      BY <2>3, <3>1 DEF WrittenInv
  <2>6. ~ forked' => Valid(written')
    <3> SUFFICES ASSUME ~ forked' PROVE Valid(written')
      OBVIOUS
    <3>1. ~ forked /\ event = Event(written, call[c].number)
      BY <1>2
    <3>2. Valid(written)
      BY <3>1 DEF WrittenInv
    <3>3. Valid(Append(written, Event(written, call[c].number)))
      BY <2>1, <3>2, EventContinues
    <3> QED
      BY <1>2, <3>1, <3>3
  <2>7. (\E X : written \in Seq(X))'
    BY <2>3
  <2> QED
    BY <2>5, <2>6, <2>7 DEF WrittenInv, Shaped, Valid, Readable, Content
<1> QED
  BY <1>1, <1>2 DEF Write

\* Every step keeps the lines shaped and what was written a chain.
LEMMA ChainNext == CallInv /\ FileInv /\ ChainInv /\ [Next]_vars => ChainInv'
<1> SUFFICES ASSUME CallInv, FileInv, ChainInv, [Next]_vars PROVE ChainInv'
  OBVIOUS
<1> USE DEF At, ghosts, file
<1>0. call \in [Callers -> Records]
  BY DEF CallInv
<1>1. ASSUME NEW c \in Callers, Authorize(c) \/ Contain(c) PROVE ChainInv'
  <2>1. PICK operation \in {"authorize", "contain"} : Begin(c, operation)
    BY <1>1 DEF Authorize, Contain
  <2>2. UNCHANGED <<lines, written, forked, event>>
    BY <1>1 DEF Authorize, Contain
  <2> QED
    BY <2>1, <2>2, Began, ChainKept
<1>2. ASSUME NEW c \in Callers, Verify(c) PROVE ChainInv'
  <2>1. PICK place \in {"verified", "failed"} : MoveTo(c, place)
    BY <1>2 DEF Verify
  <2>2. UNCHANGED <<lines, written, forked, event>>
    BY <1>2 DEF Verify
  <2> QED
    BY <1>0, <2>1, <2>2, Moved, ChainKept DEF Places
<1>3. ASSUME NEW c \in Callers, Compose(c) PROVE ChainInv'
  <2>1. CASE MoveTo(c, "failed") /\ UNCHANGED event
    BY <1>0, <1>3, <2>1, Moved, ChainKept DEF Compose, Places
  <2>2. CASE event' = Event(lines, call[c].number)
    <3>1. Shaped(event')
      BY <2>2, Shapes
    <3>2. UNCHANGED <<lines, written, forked>>
      BY <1>3 DEF Compose
    <3> QED
      BY <3>1, <3>2 DEF ChainInv, WrittenInv, Shaped
  <2> QED
    BY <1>3, <2>1, <2>2 DEF Compose
<1>4. ASSUME NEW c \in Callers, Write(c) PROVE ChainInv'
  <2>1. Shaped(event) /\ WrittenInv
    BY <1>4 DEF Write, ChainInv
  <2>2. WrittenInv'
    BY <1>4, <2>1, WriteChains
  <2>3. ASSUME NEW i \in 1..Len(lines') PROVE Shaped(lines'[i])
    <3>1. PICK broken \in BOOLEAN :
            \/ WriteAll(c, broken) \/ WriteUnended(c, broken) \/ WritePart(c, broken)
            \/ WriteNothing(c)
      BY <1>4 DEF Write
    <3>2. CASE WriteNothing(c)
      BY <3>2 DEF WriteNothing, ChainInv
    <3>3. CASE WriteAll(c, broken) \/ WriteUnended(c, broken) \/ WritePart(c, broken)
      <4>1. PICK pieces \in {<<event>>, <<Torn>>, <<Torn, Torn>>} :
              /\ lines' = Landed(pieces)
              /\ pieces \in Seq({event, Torn}) /\ pieces # <<>>
              /\ \A j \in 1..Len(pieces) : pieces[j] \in {event, Torn}
        BY <3>3, Pieces
      <4>2. \/ lines'[i] = Torn
            \/ \E j \in 1..Len(lines) : lines'[i] = lines[j]
            \/ \E j \in 1..Len(pieces) : lines'[i] = pieces[j]
        BY <4>1, LandedLines
      <4> QED
        BY <2>1, <4>1, <4>2, Shapes DEF ChainInv
    <3> QED
      BY <3>1, <3>2, <3>3
  <2>4. lock = c
    BY <1>4 DEF CallInv, Write
  <2>5. \A d \in Callers : ~ At(d, "composed")'
    <3>1. PICK place \in {"recorded", "failed"} : MoveTo(c, place)
      BY <1>4 DEF Write, WriteAll, WriteUnended, WritePart, WriteNothing, Unlock
    <3> QED
      BY <1>0, <2>4, <3>1, Moved DEF CallInv, Places
  <2> QED
    BY <2>2, <2>3, <2>5 DEF ChainInv, Shaped
<1>5. ASSUME NEW c \in Callers, Answer(c) \/ GiveUp(c) \/ Degrade(c) PROVE ChainInv'
  <2>1. call' = [call EXCEPT ![c] = Idle] /\ UNCHANGED <<lines, written, forked, event>>
    BY <1>5 DEF Answer, GiveUp, Degrade, Return, Raise
  <2> QED
    BY <1>0, <2>1, Ended, ChainKept
<1>6. CASE Crash
  <2>1. \A c \in Callers : ~ At(c, "composed")'
    BY <1>6 DEF Crash, Idle
  <2>2. UNCHANGED <<lines, written, forked>>
    BY <1>6 DEF Crash
  <2> QED
    BY <2>1, <2>2 DEF ChainInv, WrittenInv
<1>7. CASE Change
  <2>1. UNCHANGED <<call, event, written, forked>>
    BY <1>7 DEF Change
  <2>2. ASSUME NEW i \in 1..Len(lines') PROVE Shaped(lines'[i])
    BY <1>7, ChangedLines, Shapes DEF ChainInv, WrittenInv
  <2>3. WrittenInv' /\ \A c \in Callers : At(c, "composed")' => Shaped(event)'
    BY <2>1 DEF ChainInv, WrittenInv
  <2> QED
    BY <2>2, <2>3 DEF ChainInv, Shaped
<1>8. CASE UNCHANGED vars
  BY <1>8, ChainKept DEF vars
<1> QED
  BY <1>1, <1>2, <1>3, <1>4, <1>5, <1>6, <1>7, <1>8 DEF Next

\* Unless an event was written behind a file that had been changed, the events
\* that were written are a chain that verifies, whatever was done to the file
\* (audit.py: record).
THEOREM Chained == Spec => []ChainInv
<1>1. Init => ChainInv
  BY DEF Init, ChainInv, WrittenInv, Valid, At, Idle
<1>2. Inv /\ ChainInv /\ [Next]_vars => ChainInv'
  BY ChainNext DEF Inv
<1> QED
  BY Invariance, <1>1, <1>2, PTL DEF Spec

\* The intervals 0..x are finite, and finite sets are well-founded by
\* inclusion.
LEMMA Least ==
  ASSUME NEW T, T \subseteq Nat, T # {}
  PROVE  \E x \in T : \A y \in T : x <= y
<1> DEFINE U == {0..x : x \in T}
<1>1. IsWellFoundedOn(StrictSubsetOrdering(Nat), FiniteSubsetsOf(Nat))
  BY FS_StrictSubsetOrderingWellFounded
<1>2. U \subseteq FiniteSubsetsOf(Nat)
  <2> SUFFICES ASSUME NEW x \in T PROVE 0..x \in FiniteSubsetsOf(Nat)
    OBVIOUS
  <2>1. x \in Int /\ 0 \in Int
    OBVIOUS
  <2>2. IsFiniteSet(0..x)
    BY <2>1, FS_Interval
  <2> QED
    BY <2>2 DEF FiniteSubsetsOf
<1>3. U # {}
  OBVIOUS
<1> HIDE DEF U
<1>4. PICK u \in U : \A v \in U : ~ (<<v, u>> \in StrictSubsetOrdering(Nat))
  BY <1>1, <1>2, <1>3, WFMin
<1> USE DEF U
<1>5. PICK x \in T : u = 0..x
  BY <1>4
<1>6. ASSUME NEW y \in T, y < x PROVE FALSE
  <2>1. 0..y \in U /\ 0..y \subseteq 0..x /\ x \in 0..x /\ x \notin 0..y /\ 0..x \subseteq Nat
    BY <1>6
  <2>2. <<0..y, 0..x>> \in StrictSubsetOrdering(Nat)
    BY <2>1 DEF StrictSubsetOrdering
  <2> QED
    BY <2>1, <2>2, <1>4, <1>5
<1>7. WITNESS x \in T
<1> QED
  BY <1>6

\* Two files that verify and have the same line at i have the same lines before.
LEMMA SameBefore ==
  ASSUME NEW s, NEW t, Valid(s), Valid(t), Len(s) \in Nat, Len(t) \in Nat,
         \A k \in 1..Len(s) : Shaped(s[k]), \A k \in 1..Len(t) : Shaped(t[k]),
         NEW i, i \in 1..Len(s), i \in 1..Len(t), s[i] = t[i]
  PROVE  \A j \in 1..i : s[j] = t[j]
<1> DEFINE D == {d \in Nat : d < i /\ s[i - d] # t[i - d]}
<1>1. SUFFICES ASSUME NEW j \in 1..i, s[j] # t[j] PROVE FALSE
  OBVIOUS
<1>2. i - j \in Nat /\ i - j < i /\ i - (i - j) = j
  OBVIOUS
<1>3. D \subseteq Nat /\ D # {}
  <2>1. i - j \in D
    BY <1>1, <1>2
  <2> QED
    BY <2>1
<1> HIDE DEF D
<1>4. PICK d \in D : \A e \in D : d <= e
  BY <1>3, Least
<1>5. d \in Nat /\ d < i /\ s[i - d] # t[i - d]
  BY <1>4 DEF D
<1>6. d # 0 /\ d - 1 \in Nat /\ d - 1 < i /\ d - 1 \notin D
  <2>1. d # 0
    BY <1>5
  <2> QED
    BY <1>4, <1>5, <2>1
<1> DEFINE m == i - d
<1>7. /\ m \in 1..Len(s) /\ m \in 1..Len(t)
      /\ m + 1 \in 1..Len(s) /\ m + 1 \in 1..Len(t) /\ m + 1 # 1 /\ (m + 1) - 1 = m
      /\ i - (d - 1) = m + 1
  BY <1>5, <1>6
<1>8. s[m + 1] = t[m + 1]
  BY <1>6, <1>7 DEF D
<1> HIDE DEF m
<1>9. s[m + 1].previous = s[m].hash /\ t[m + 1].previous = t[m].hash
  BY <1>7 DEF Valid
<1>10. s[m].hash = Content(s[m]) /\ t[m].hash = Content(t[m])
  BY <1>7 DEF Valid
<1>11. s[m].hash = t[m].hash /\ Content(s[m]) = Content(t[m])
  BY <1>8, <1>9, <1>10
<1>12. /\ s[m].sequence = t[m].sequence /\ s[m].previous = t[m].previous
       /\ s[m].body = t[m].body
  BY <1>11 DEF Content
<1>13. s[m] = t[m]
  BY <1>7, <1>11, <1>12 DEF Shaped
<1> QED
  BY <1>5, <1>13 DEF m

\* What a file that audit.py's verify accepts holds up to an event of record is
\* what was written up to it, for any number of callers, calls and changes
\* from outside, the ones that compute hashes included.
THEOREM VerifiedWritten == Spec => []VerifiedIsWritten
<1>1. FileInv /\ ChainInv => VerifiedIsWritten
  <2> SUFFICES ASSUME FileInv, ChainInv, Valid(lines), ~ forked,
                      NEW i \in 1..Len(lines), lines[i] \in ToSet(written)
               PROVE  IsPrefix(SubSeq(lines, 1, i), written)
    BY DEF VerifiedIsWritten
  <2>1. PICK S, T : lines \in Seq(S) /\ written \in Seq(T)
    BY DEF FileInv, ChainInv, WrittenInv
  <2>2. Len(lines) \in Nat /\ Len(written) \in Nat
    BY <2>1
  <2>3. PICK k \in 1..Len(written) : lines[i] = written[k]
    BY <2>1 DEF ToSet
  <2>4. Valid(written)
    BY DEF ChainInv, WrittenInv
  <2>5. k = i
    BY <2>3, <2>4 DEF Valid
  <2>6. \A j \in 1..i : lines[j] = written[j]
    BY <2>2, <2>3, <2>4, <2>5, SameBefore DEF ChainInv, WrittenInv
  <2>7. /\ SubSeq(lines, 1, i) = [j \in 1..i |-> lines[j]]
        /\ SubSeq(written, 1, i) = [j \in 1..i |-> written[j]]
        /\ Len(SubSeq(lines, 1, i)) = i
    BY <2>1, <2>2, <2>5
  <2>8. SubSeq(lines, 1, i) = SubSeq(written, 1, i)
    BY <2>6, <2>7
  <2>9. SubSeq(SubSeq(lines, 1, i), 1, i) = SubSeq(lines, 1, i)
    BY <2>1, <2>2
  <2>10. i <= Len(written)
    BY <2>2, <2>5
  <2> QED
    BY <2>7, <2>8, <2>9, <2>10 DEF IsPrefix
<1> QED
  BY Invariance, Chained, <1>1, PTL DEF Inv

-----------------------------------------------------------------------------
(* A file nobody else changes: record refuses it for a torn end and for       *)
(* nothing else (audit.py: verify, record).                                   *)

\* The end of the file cannot be read and all before it verifies.
EndTorn(log) ==
  \E k \in 0..(Len(log) - 1) :
    /\ Valid(SubSeq(log, 1, k))
    /\ \A i \in (k + 1)..Len(log) : log[i] = Torn

Tails == {<<>>, <<Torn>>, <<Torn, Torn>>}

(* An unchanged file verifies up to an end that cannot be read, left by a     *)
(* write that stopped halfway or by an event with a line break in its text;   *)
(* and unless text landed behind a line without its end, it holds before that *)
(* end exactly the events that were written whole, in that order (audit.py:   *)
(* record).                                                                   *)
Intact ==
  changes = 0 =>
    /\ Valid(lines) \/ EndTorn(lines)
    /\ ~ glued => \E tail \in Tails : lines = written \o tail

\* What a call has read of the file still stands when it writes, for it holds
\* the lock; so nothing forks, and a file with glued text is refused.
IntactInv ==
  changes = 0 =>
    /\ Valid(lines) \/ EndTorn(lines)
    /\ ~ glued => \E tail \in Tails : lines = written \o tail
    /\ ~ forked
    /\ glued => EndTorn(lines)
    /\ \A c \in Callers : At(c, "verified") \/ At(c, "composed") => Valid(lines)
    /\ \A c \in Callers : At(c, "composed") => event = Event(lines, call[c].number)

\* A torn end is not part of what verifies, and what is before it stays.
LEMMA TornEnd ==
  ASSUME NEW S, NEW log \in Seq(S)
  PROVE  /\ Valid(log) => ~ EndTorn(log)
         /\ \A tail \in {<<Torn>>, <<Torn, Torn>>} : Valid(log) => EndTorn(log \o tail)
<1>1. Len(log) \in Nat
  OBVIOUS
<1>2. ASSUME Valid(log), EndTorn(log) PROVE FALSE
  <2>1. PICK k \in 0..(Len(log) - 1) : \A i \in (k + 1)..Len(log) : log[i] = Torn
    BY <1>2 DEF EndTorn
  <2>2. log[Len(log)] = Torn /\ Len(log) \in 1..Len(log)
    BY <1>1, <2>1
  <2> QED
    BY <1>2, <2>2 DEF Valid, Readable
<1>3. ASSUME NEW tail \in {<<Torn>>, <<Torn, Torn>>}, Valid(log)
      PROVE  EndTorn(log \o tail)
  <2> DEFINE T == S \cup {Torn}
             longer == log \o tail
  <2>1. tail \in Seq(T) /\ Len(tail) \in {1, 2} /\ \A j \in 1..Len(tail) : tail[j] = Torn
    <3>1. CASE tail = <<Torn>>
      BY <3>1
    <3>2. CASE tail = <<Torn, Torn>>
      BY <3>2
    <3> QED
      BY <3>1, <3>2
  <2>2. log \in Seq(T)
    OBVIOUS
  <2> HIDE DEF T
  <2>3. /\ longer \in Seq(T) /\ Len(longer) = Len(log) + Len(tail)
        /\ \A i \in 1..(Len(log) + Len(tail)) :
             longer[i] = IF i <= Len(log) THEN log[i] ELSE tail[i - Len(log)]
    BY <2>1, <2>2, ConcatProperties
  <2> HIDE DEF longer
  <2>4. SubSeq(longer, 1, Len(log)) = log
    <3>1. \A i \in 1..Len(log) : i \in 1..(Len(log) + Len(tail)) /\ longer[i] = log[i]
      BY <1>1, <2>1, <2>3
    <3>2. \A i \in 1..Len(log) : longer[i] \in T
      BY <2>2, <3>1
    <3>3. /\ SubSeq(longer, 1, Len(log)) \in Seq(T)
          /\ Len(SubSeq(longer, 1, Len(log))) = Len(log)
          /\ \A i \in 1..Len(log) : SubSeq(longer, 1, Len(log))[i] = longer[i]
      BY <1>1, <3>2, SubSeqProperties
    <3> QED
      BY <2>2, <3>1, <3>3, SeqEqual
  <2>5. Len(log) \in 0..(Len(longer) - 1)
    <3>1. CASE Len(tail) = 1
      BY <1>1, <2>3, <3>1
    <3>2. CASE Len(tail) = 2
      BY <1>1, <2>3, <3>2
    <3> QED
      BY <2>1, <3>1, <3>2
  <2>6. \A i \in (Len(log) + 1)..Len(longer) : longer[i] = Torn
    <3> TAKE i \in (Len(log) + 1)..Len(longer)
    <3>1. /\ i \in 1..(Len(log) + Len(tail)) /\ ~ (i <= Len(log))
          /\ i - Len(log) \in 1..Len(tail)
      BY <1>1, <2>1, <2>3
    <3> QED
      BY <2>1, <2>3, <3>1
  <2>7. EndTorn(longer)
    BY <1>3, <2>4, <2>5, <2>6 DEF EndTorn
  <2> QED
    BY <2>7 DEF longer
<1> QED
  BY <1>2, <1>3

\* A beginning of a file that verifies does so.
LEMMA FrontValid ==
  ASSUME NEW S, NEW log \in Seq(S), Valid(log)
  PROVE  Front(log) \in Seq(S) /\ Valid(Front(log))
<1>1. Len(log) \in Nat /\ \A i \in 1..Len(log) : log[i] \in S
  OBVIOUS
<1>2. /\ Front(log) \in Seq(S)
      /\ Len(Front(log)) = IF 1 <= Len(log) - 1 THEN Len(log) - 1 ELSE 0
      /\ \A i \in 1..(Len(log) - 1) : Front(log)[i] = log[i]
  BY <1>1, SubSeqProperties DEF Front
<1> QED
  BY <1>1, <1>2 DEF Valid

\* A step that leaves the file, the event and what was written alone, and
\* takes no call to where it relies on the file.
LEMMA IntactKept ==
  ASSUME IntactInv, UNCHANGED <<lines, written, glued, forked, event, changes>>,
         \A c \in Callers :
           /\ At(c, "verified")' => At(c, "verified") \/ Valid(lines)
           /\ At(c, "composed")' => At(c, "composed") /\ UNCHANGED call[c]
  PROVE  IntactInv'
BY DEF IntactInv

\* A write finds the file that its event was composed behind, with all that
\* was written and nothing else.
LEMMA WriteFinds ==
  ASSUME CallInv, FileInv, WrittenInv, IntactInv, changes = 0,
         NEW c \in Callers, At(c, "composed")
  PROVE  /\ Valid(lines) /\ lines = written /\ ~ glued
         /\ event = Event(written, call[c].number)
<1>1. PICK S, T : lines \in Seq(S) /\ written \in Seq(T)
  BY DEF FileInv, WrittenInv
<1>2. Valid(lines) /\ ~ EndTorn(lines) /\ ~ glued
  BY <1>1, TornEnd DEF IntactInv
<1>3. PICK tail \in Tails : lines = written \o tail
  BY <1>2 DEF IntactInv
<1>4. CASE tail = <<>>
  <2>1. written \o <<>> = written
    BY <1>1, ConcatEmptySeq
  <2> QED
    BY <1>2, <1>3, <1>4, <2>1 DEF IntactInv
<1>5. CASE tail # <<>>
  <2>1. /\ written \in Seq(T \cup {Torn}) /\ tail \in Seq(T \cup {Torn})
        /\ Len(tail) \in {1, 2} /\ tail[1] = Torn
    <3>1. CASE tail = <<Torn>>
      BY <1>1, <3>1
    <3>2. CASE tail = <<Torn, Torn>>
      BY <1>1, <3>2
    <3> QED
      BY <1>5, <3>1, <3>2 DEF Tails
  <2>2. /\ Len(lines) = Len(written) + Len(tail)
        /\ \A i \in 1..(Len(written) + Len(tail)) :
             lines[i] = IF i <= Len(written) THEN written[i] ELSE tail[i - Len(written)]
    BY <1>3, <2>1, ConcatProperties
  <2>3. /\ Len(written) \in Nat /\ Len(written) + 1 \in 1..Len(lines)
        /\ lines[Len(written) + 1] = tail[1]
    <3>1. /\ Len(written) \in Nat /\ Len(written) + 1 \in 1..(Len(written) + Len(tail))
          /\ ~ (Len(written) + 1 <= Len(written)) /\ Len(written) + 1 - Len(written) = 1
      BY <1>1, <2>1
    <3> QED
      BY <2>2, <3>1
  <2> QED
    BY <1>2, <2>1, <2>3 DEF Valid, Readable
<1> QED
  BY <1>4, <1>5

\* Nobody but the writer relies on the file.
LEMMA WriteEnds ==
  ASSUME CallInv, NEW c \in Callers, Write(c)
  PROVE  \A d \in Callers : ~ At(d, "verified")' /\ ~ At(d, "composed")'
<1>1. PICK place \in {"recorded", "failed"} : MoveTo(c, place)
  BY DEF Write, WriteAll, WriteUnended, WritePart, WriteNothing, Unlock
<1>2. lock = c /\ call \in [Callers -> Records]
  BY DEF CallInv, Write
<1> QED
  BY <1>1, <1>2, Moved DEF CallInv, At, Places

\* Text behind a line without its end spoils that line only.
LEMMA GluedEnd ==
  ASSUME FileInv, Valid(lines), NEW tail \in {<<>>, <<Torn>>}
  PROVE  EndTorn(Front(lines) \o <<Torn>> \o tail)
<1>1. PICK S : lines \in Seq(S)
  BY DEF FileInv
<1>2. Front(lines) \in Seq(S) /\ Valid(Front(lines))
  BY <1>1, FrontValid
<1> DEFINE T == S \cup {Torn}
           torn == <<Torn>>
<1>3. Front(lines) \in Seq(T) /\ torn \in Seq(T) /\ tail \in Seq(T)
  <2>1. \A s \in Seq(S) : s \in Seq(T)
    OBVIOUS
  <2>2. <<>> \in Seq(T) /\ torn \in Seq(T)
    OBVIOUS
  <2> QED
    BY <1>2, <2>1, <2>2
<1>4. torn \o tail \in {<<Torn>>, <<Torn, Torn>>}
  <2>1. CASE tail = <<>>
    <3>1. torn \o <<>> = torn
      BY <1>3, ConcatEmptySeq
    <3> QED
      BY <2>1, <3>1
  <2>2. CASE tail = <<Torn>>
    <3>1. torn \o torn = <<Torn, Torn>>
      <4> DEFINE two == <<Torn, Torn>>
      <4>1. two \in Seq(T) /\ Len(two) = 2 /\ two[1] = Torn /\ two[2] = Torn
        OBVIOUS
      <4>2. Len(torn) = 1 /\ torn[1] = Torn
        OBVIOUS
      <4> HIDE DEF T, torn, two
      <4>3. /\ torn \o torn \in Seq(T) /\ Len(torn \o torn) = 2
            /\ \A i \in 1..2 :
                 (torn \o torn)[i] = IF i <= 1 THEN torn[i] ELSE torn[i - 1]
        BY <1>3, <4>2, ConcatProperties
      <4>4. (torn \o torn)[1] = Torn /\ (torn \o torn)[2] = Torn
        BY <4>2, <4>3
      <4>5. \A i \in 1..2 : (torn \o torn)[i] = two[i]
        <5> TAKE i \in 1..2
        <5>1. i = 1 \/ i = 2
          OBVIOUS
        <5>2. CASE i = 1
          BY <4>1, <4>4, <5>2
        <5>3. CASE i = 2
          BY <4>1, <4>4, <5>3
        <5> QED
          BY <5>1, <5>2, <5>3
      <4>6. torn \o torn = two
        BY <4>1, <4>3, <4>5, SeqEqual
      <4> QED
        BY <4>6 DEF two
    <3> QED
      BY <2>2, <3>1
  <2> QED
    BY <2>1, <2>2
<1> HIDE DEF T, torn
<1>5. (Front(lines) \o torn) \o tail = Front(lines) \o (torn \o tail)
  BY <1>3, ConcatAssociative
<1>6. EndTorn(Front(lines) \o (torn \o tail))
  BY <1>2, <1>4, TornEnd
<1> QED
  BY <1>5, <1>6 DEF torn

\* Every step keeps an unchanged file intact.
LEMMA IntactNext ==
  CallInv /\ FileInv /\ WrittenInv /\ IntactInv /\ [Next]_vars => IntactInv'
<1> SUFFICES ASSUME CallInv, FileInv, WrittenInv, IntactInv, [Next]_vars
             PROVE  IntactInv'
  OBVIOUS
<1> USE DEF ghosts, file
<1>0. call \in [Callers -> Records]
  BY DEF CallInv
<1>1. ASSUME NEW c \in Callers, Authorize(c) \/ Contain(c) PROVE IntactInv'
  <2>1. PICK operation \in {"authorize", "contain"} : Begin(c, operation)
    BY <1>1 DEF Authorize, Contain
  <2>2. UNCHANGED <<lines, written, glued, forked, event, changes>>
    BY <1>1 DEF Authorize, Contain
  <2> QED
    BY <2>1, <2>2, Began, IntactKept DEF At
<1>2. ASSUME NEW c \in Callers, Verify(c) PROVE IntactInv'
  <2>1. PICK place \in {"verified", "failed"} :
          MoveTo(c, place) /\ (place = "verified" => Valid(lines))
    BY <1>2 DEF Verify
  <2>2. UNCHANGED <<lines, written, glued, forked, event, changes>>
    BY <1>2 DEF Verify
  <2>3. /\ call'[c].at = place
        /\ \A d \in Callers \ {c} : call'[d] = call[d]
    BY <1>0, <2>1, Moved DEF Places
  <2> QED
    BY <2>1, <2>2, <2>3, IntactKept DEF At
<1>3. ASSUME NEW c \in Callers, Compose(c) PROVE IntactInv'
  <2>1. UNCHANGED <<lines, written, glued, forked, changes>> /\ At(c, "verified") /\ lock = c
    BY <1>3 DEF Compose, CallInv
  <2>2. \A d \in Callers \ {c} : ~ At(d, "verified") /\ ~ At(d, "composed")
    BY <2>1 DEF CallInv
  <2>3. CASE MoveTo(c, "failed") /\ UNCHANGED event
    <3>1. /\ call'[c].at = "failed"
          /\ \A d \in Callers \ {c} : call'[d] = call[d]
      BY <1>0, <2>3, Moved DEF Places
    <3> QED
      BY <2>1, <2>3, <3>1, IntactKept DEF At
  <2>4. CASE MoveTo(c, "composed") /\ event' = Event(lines, call[c].number)
    <3>1. /\ call'[c].at = "composed" /\ call'[c].number = call[c].number
          /\ \A d \in Callers \ {c} : call'[d] = call[d]
      BY <1>0, <2>4, Moved DEF Places
    <3>2. \A d \in Callers \ {c} : ~ At(d, "verified")' /\ ~ At(d, "composed")'
      BY <2>2, <3>1 DEF At
    <3>3. changes = 0 => Valid(lines)
      BY <2>1 DEF IntactInv
    <3> QED
      BY <2>1, <2>4, <3>1, <3>2, <3>3 DEF IntactInv
  <2> QED
    BY <1>3, <2>3, <2>4 DEF Compose
<1>4. ASSUME NEW c \in Callers, Write(c) PROVE IntactInv'
  <2> SUFFICES ASSUME changes' = 0 PROVE IntactInv'
    BY DEF IntactInv
  <2>1. /\ Valid(lines) /\ lines = written /\ ~ glued /\ ~ forked
        /\ event = Event(written, call[c].number)
    BY <1>4, WriteFinds DEF Write, IntactInv
  <2>2. \A d \in Callers : ~ At(d, "verified")' /\ ~ At(d, "composed")'
    BY <1>4, WriteEnds
  <2>3. PICK S : lines \in Seq(S)
    BY DEF FileInv
  <2>4. ASSUME UNCHANGED <<lines, written, glued, forked>> PROVE IntactInv'
    BY <1>4, <2>2, <2>4 DEF IntactInv, Write
  <2>5. ASSUME NEW pieces \in {<<Torn>>, <<Torn, Torn>>},
               lines' = Landed(pieces), glued' = (glued \/ ~ ended),
               UNCHANGED <<written, forked>>
        PROVE  IntactInv'
    <3>1. CASE ended
      <4>1. lines' = lines \o pieces
        BY <2>5, <3>1 DEF Landed
      <4>2. EndTorn(lines')
        BY <2>1, <2>3, <4>1, TornEnd
      <4>3. ~ glued' /\ ~ forked' /\ lines' = written' \o pieces /\ pieces \in Tails
        BY <2>1, <2>5, <3>1, <4>1 DEF Tails
      <4> QED
        BY <2>2, <4>2, <4>3 DEF IntactInv, EndTorn, Valid, Readable, Content
    <3>2. CASE ~ ended
      <4>1. lines' = Front(lines) \o <<Torn>> \o Tail(pieces)
        BY <2>5, <3>2 DEF Landed
      <4>2. Tail(pieces) \in {<<>>, <<Torn>>}
        <5>1. CASE pieces = <<Torn>>
          BY <5>1
        <5>2. CASE pieces = <<Torn, Torn>>
          BY <5>2
        <5> QED
          BY <5>1, <5>2
      <4>3. EndTorn(lines')
        BY <2>1, <4>1, <4>2, GluedEnd
      <4>4. glued' /\ ~ forked'
        BY <2>1, <2>5, <3>2
      <4> QED
        BY <2>2, <4>3, <4>4 DEF IntactInv, EndTorn, Valid, Readable, Content
    <3> QED
      BY <3>1, <3>2
  <2>6. ASSUME lines' = Landed(<<event>>), written' = Append(written, event),
               glued' = (glued \/ ~ ended),
               forked' = (forked \/ event # Event(written, call[c].number))
        PROVE  IntactInv'
    <3>0. ~ forked'
      BY <2>1, <2>6
    <3>1. CASE ended
      <4>1. lines' = lines \o <<event>>
        BY <2>6, <3>1 DEF Landed
      <4>2. lines' = Append(lines, event)
        <5>1. lines \in Seq(S \cup {event}) /\ event \in S \cup {event}
          BY <2>3
        <5>2. Append(lines, event) = lines \o <<event>>
          BY <5>1, AppendIsConcat
        <5> QED
          BY <4>1, <5>2
      <4>3. Valid(lines')
        BY <2>1, <2>3, <4>2, EventContinues
      <4>4. lines' = written' \o <<>>
        <5>1. lines' \in Seq(S \cup {event})
          BY <2>3, <4>2, AppendProperties, lines \in Seq(S \cup {event})
        <5>2. lines' \o <<>> = lines'
          BY <5>1, ConcatEmptySeq
        <5> QED
          BY <2>1, <2>6, <4>2, <5>2
      <4>5. ~ glued' /\ <<>> \in Tails
        BY <2>1, <2>6, <3>1 DEF Tails
      <4> QED
        BY <2>2, <3>0, <4>3, <4>4, <4>5 DEF IntactInv, EndTorn, Valid, Readable, Content
    <3>2. CASE ~ ended
      <4>1. lines' = Front(lines) \o <<Torn>> \o Tail(<<event>>)
        BY <2>6, <3>2 DEF Landed
      <4>2. Tail(<<event>>) = <<>>
        OBVIOUS
      <4>3. EndTorn(lines')
        BY <2>1, <4>1, <4>2, GluedEnd
      <4> QED
        BY <2>1, <2>2, <2>6, <3>0, <3>2, <4>3 DEF IntactInv, EndTorn, Valid, Readable, Content
    <3> QED
      BY <3>1, <3>2
  <2>7. PICK broken \in BOOLEAN :
          \/ /\ WriteAll(c, broken) \/ WriteUnended(c, broken)
             /\ glued' = (glued \/ ~ ended)
             /\ IF broken THEN UNCHANGED <<written, forked>>
                ELSE /\ written' = Append(written, event)
                     /\ forked' = (forked \/ event # Event(written, call[c].number))
          \/ /\ WritePart(c, broken)
             /\ glued' = (glued \/ ~ ended)
             /\ UNCHANGED <<written, forked>>
          \/ WriteNothing(c) /\ UNCHANGED <<written, glued, forked>>
    BY <1>4 DEF Write
  <2>8. CASE WriteNothing(c) /\ UNCHANGED <<written, glued, forked>>
    BY <2>4, <2>8 DEF WriteNothing
  <2>9. CASE WritePart(c, broken) /\ glued' = (glued \/ ~ ended) /\ UNCHANGED <<written, forked>>
    <3>1. PICK pieces \in {<<Torn>>, <<Torn, Torn>>} : lines' = Landed(pieces)
      BY <2>9 DEF WritePart, Parts
    <3> QED
      BY <2>5, <2>9, <3>1
  <2>10. CASE /\ WriteAll(c, broken) \/ WriteUnended(c, broken)
              /\ glued' = (glued \/ ~ ended)
              /\ IF broken THEN UNCHANGED <<written, forked>>
                 ELSE /\ written' = Append(written, event)
                      /\ forked' = (forked \/ event # Event(written, call[c].number))
    <3>1. lines' = Landed(Whole(broken))
      BY <2>10 DEF WriteAll, WriteUnended
    <3>2. CASE broken
      BY <2>5, <2>10, <3>1, <3>2 DEF Whole
    <3>3. CASE ~ broken
      BY <2>6, <2>10, <3>1, <3>3 DEF Whole
    <3> QED
      BY <3>2, <3>3
  <2> QED
    BY <2>7, <2>8, <2>9, <2>10
<1>5. ASSUME NEW c \in Callers, Answer(c) \/ GiveUp(c) \/ Degrade(c) PROVE IntactInv'
  <2>1. /\ call' = [call EXCEPT ![c] = Idle]
        /\ UNCHANGED <<lines, written, glued, forked, event, changes>>
    BY <1>5 DEF Answer, GiveUp, Degrade, Return, Raise
  <2> QED
    BY <1>0, <2>1, Ended, IntactKept DEF At
<1>6. CASE Crash
  <2>1. \A c \in Callers : ~ At(c, "verified")' /\ ~ At(c, "composed")'
    BY <1>6 DEF Crash, Idle, At
  <2> QED
    BY <1>6, <2>1 DEF Crash, IntactInv
<1>7. CASE Change
  BY <1>7 DEF Change, CallInv, IntactInv
<1>8. CASE UNCHANGED vars
  BY <1>8, IntactKept DEF vars, At
<1> QED
  BY <1>1, <1>2, <1>3, <1>4, <1>5, <1>6, <1>7, <1>8 DEF Next

\* A log that nobody else changed verifies up to an end that cannot be read,
\* whatever calls overlap, writes stop halfway or processes die, and holds what
\* was written unless text landed behind a line without its end; an event with
\* a line break in its text makes such an end (audit.py: verify, record).
THEOREM LogStaysIntact == Spec => []Intact
<1>1. Init => IntactInv
  <2> SUFFICES ASSUME Init PROVE IntactInv
    OBVIOUS
  <2>1. Valid(lines)
    BY DEF Init, Valid
  <2>2. lines = written \o <<>> /\ <<>> \in Tails
    BY DEF Init, Tails
  <2> QED
    BY <2>1, <2>2 DEF Init, IntactInv, At, Idle
<1>2. Inv /\ ChainInv /\ IntactInv /\ [Next]_vars => IntactInv'
  BY IntactNext DEF Inv, ChainInv
<1>3. IntactInv => Intact
  BY DEF IntactInv, Intact
<1> QED
  BY Invariance, Chained, <1>1, <1>2, <1>3, PTL DEF Spec

=============================================================================
