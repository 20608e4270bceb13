--------------------------- MODULE RequestsProofs ---------------------------
(***************************************************************************)
(* Proofs about Requests, for any number of connections, gateways, slots   *)
(* and requests, any rules and any history limit.                          *)
(***************************************************************************)
EXTENDS Requests, SequenceTheorems, FiniteSetTheorems, TLAPS

\* A set is not told apart by the members of a smaller one.
LEMMA Crowded ==
  ASSUME NEW S, NEW T, IsFiniteSet(S), IsFiniteSet(T), Cardinality(T) < Cardinality(S)
  PROVE  \A f \in [S -> T] : \E x, y \in S : x # y /\ f[x] = f[y]
BY FS_PigeonHole

USE PolicyConstants, RequestsConstants

\* What a bounded deque remembers of a sequence.
LEMMA LastOfProperties ==
  ASSUME NEW S, NEW s \in Seq(S), NEW n \in Nat
  PROVE  /\ LastOf(n, s) \in Seq(S)
         /\ Len(LastOf(n, s)) = IF Len(s) > n THEN n ELSE Len(s)
         /\ \A i \in 1..Len(LastOf(n, s)) : LastOf(n, s)[i] = s[Len(s) - Len(LastOf(n, s)) + i]
<1> DEFINE m == IF Len(s) > n THEN Len(s) - n + 1 ELSE 1
<1>1. m \in Int /\ Len(s) \in Int /\ \A i \in m..Len(s) : s[i] \in S
  OBVIOUS
<1>2. /\ SubSeq(s, m, Len(s)) \in Seq(S)
      /\ Len(SubSeq(s, m, Len(s))) = IF m <= Len(s) THEN Len(s) - m + 1 ELSE 0
      /\ \A i \in 1..(Len(s) - m + 1) : SubSeq(s, m, Len(s))[i] = s[m + i - 1]
  BY <1>1, SubSeqProperties
<1>3. LastOf(n, s) = SubSeq(s, m, Len(s))
  BY DEF LastOf
<1>4. m \in 1..Len(s) + 1 /\ Len(s) \in Nat
      /\ Len(s) - m + 1 = (IF Len(s) > n THEN n ELSE Len(s))
  OBVIOUS
<1> HIDE DEF LastOf, m
<1>5. Len(LastOf(n, s)) = Len(s) - m + 1
  BY <1>2, <1>3, <1>4
<1>6. \A i \in 1..(Len(s) - m + 1) : m + i - 1 = Len(s) - (Len(s) - m + 1) + i
  BY <1>4
<1> QED
  BY <1>2, <1>3, <1>4, <1>5, <1>6

\* Remembering one more operation is remembering it of what was remembered.
LEMMA LastOfAppend ==
  ASSUME NEW S, NEW s \in Seq(S), NEW e \in S, NEW n \in Nat \ {0}
  PROVE  /\ LastOf(n, Append(LastOf(n, s), e)) = LastOf(n, Append(s, e))
         /\ LastOf(n + 1, Append(s, e)) = Append(LastOf(n, s), e)
<1> DEFINE a == Append(s, e)
           b == Append(LastOf(n, s), e)
<1>1. a \in Seq(S) /\ Len(a) = Len(s) + 1 /\ \A i \in 1..Len(s) : a[i] = s[i]
  BY AppendProperties
<1>2. a[Len(s) + 1] = e
  BY AppendProperties
<1>3. LastOf(n, s) \in Seq(S)
  BY LastOfProperties
<1>4. b \in Seq(S) /\ Len(b) = Len(LastOf(n, s)) + 1
      /\ \A i \in 1..Len(LastOf(n, s)) : b[i] = LastOf(n, s)[i]
  BY <1>3, AppendProperties
<1>5. b[Len(LastOf(n, s)) + 1] = e
  BY <1>3, AppendProperties
<1>6. Len(LastOf(n, s)) = (IF Len(s) > n THEN n ELSE Len(s))
      /\ \A i \in 1..Len(LastOf(n, s)) : LastOf(n, s)[i] = s[Len(s) - Len(LastOf(n, s)) + i]
  BY LastOfProperties
<1> DEFINE k == Len(LastOf(n, s))
           l == Len(s)
<1>0. k \in Nat /\ l \in Nat /\ k <= l /\ k <= n /\ (k = n \/ k = l) /\ Len(a) = l + 1 /\ Len(b) = k + 1
  BY <1>1, <1>4, <1>6
<1> HIDE DEF a, b, k, l
<1>7. \A i \in 1..Len(b) : b[i] = a[Len(a) - Len(b) + i]
  <2> SUFFICES ASSUME NEW i \in 1..Len(b) PROVE b[i] = a[Len(a) - Len(b) + i]
    OBVIOUS
  <2>1. CASE i = k + 1
    <3>1. Len(a) - Len(b) + i = l + 1
      BY <1>0, <2>1
    <3> QED
      BY <3>1, <2>1, <1>2, <1>5 DEF k, l
  <2>2. CASE i # k + 1
    <3>1. i \in 1..k /\ l - k + i \in 1..l /\ Len(a) - Len(b) + i = l - k + i
      BY <2>2, <1>0
    <3>2. b[i] = s[l - k + i]
      BY <3>1, <1>4, <1>6 DEF k, l
    <3>3. a[l - k + i] = s[l - k + i]
      BY <3>1, <1>1 DEF l
    <3> QED
      BY <3>1, <3>2, <3>3
  <2> QED
    BY <2>1, <2>2
<1>8. LastOf(n + 1, a) = b
  <2>1. /\ LastOf(n + 1, a) \in Seq(S)
        /\ Len(LastOf(n + 1, a)) = IF Len(a) > n + 1 THEN n + 1 ELSE Len(a)
        /\ \A i \in 1..Len(LastOf(n + 1, a)) :
             LastOf(n + 1, a)[i] = a[Len(a) - Len(LastOf(n + 1, a)) + i]
    <3>1. n + 1 \in Nat
      OBVIOUS
    <3> QED
      BY <1>1, <3>1, LastOfProperties
  <2>2. Len(LastOf(n + 1, a)) = Len(b)
    BY <2>1, <1>0
  <2>3. \A i \in 1..Len(b) : LastOf(n + 1, a)[i] = b[i]
    BY <2>1, <2>2, <1>7
  <2> QED
    BY <2>1, <2>2, <2>3, <1>4, SeqEqual
<1>9. LastOf(n, b) = LastOf(n, a)
  <2>1. /\ LastOf(n, a) \in Seq(S)
        /\ Len(LastOf(n, a)) = IF Len(a) > n THEN n ELSE Len(a)
        /\ \A i \in 1..Len(LastOf(n, a)) : LastOf(n, a)[i] = a[Len(a) - Len(LastOf(n, a)) + i]
    BY <1>1, LastOfProperties
  <2>2. /\ LastOf(n, b) \in Seq(S)
        /\ Len(LastOf(n, b)) = IF Len(b) > n THEN n ELSE Len(b)
        /\ \A i \in 1..Len(LastOf(n, b)) : LastOf(n, b)[i] = b[Len(b) - Len(LastOf(n, b)) + i]
    BY <1>4, LastOfProperties
  <2>3. /\ Len(LastOf(n, a)) = Len(LastOf(n, b)) /\ Len(LastOf(n, b)) <= Len(b)
        /\ Len(LastOf(n, b)) \in Nat
    BY <2>1, <2>2, <1>0
  <2>4. ASSUME NEW i \in 1..Len(LastOf(n, a)) PROVE LastOf(n, b)[i] = LastOf(n, a)[i]
    <3> DEFINE j == Len(b) - Len(LastOf(n, b)) + i
    <3>1. j \in 1..Len(b)
      BY <2>3, <1>0
    <3>2. b[j] = a[Len(a) - Len(b) + j]
      BY <3>1, <1>7
    <3>3. Len(a) - Len(b) + j = Len(a) - Len(LastOf(n, a)) + i
      BY <2>3, <1>0
    <3> QED
      BY <2>1, <2>2, <2>3, <3>2, <3>3
  <2> QED
    BY <2>1, <2>2, <2>3, <2>4, SeqEqual
<1> QED
  BY <1>8, <1>9 DEF a, b

\* The windows of what was allowed: the older ones stay, the newest is what
\* the engine remembered with the operation it has just allowed.
LEMMA Windows ==
  ASSUME NEW s \in Seq(Operations), NEW e \in Operations
  PROVE  LET a == Append(s, e)
         IN /\ Len(a) = Len(s) + 1
            /\ \A i \in 1..Len(s) : SubSeq(a, 1, i) = SubSeq(s, 1, i)
            /\ LastOf(HistoryLimit + 1, SubSeq(a, 1, Len(a))) = Append(LastOf(HistoryLimit, s), e)
<1> DEFINE a == Append(s, e)
<1>1. a \in Seq(Operations) /\ Len(a) = Len(s) + 1 /\ \A i \in 1..Len(s) : a[i] = s[i]
  BY AppendProperties
<1>2. SubSeq(a, 1, Len(a)) = a
  BY <1>1, SubSeqFull
<1>3. LastOf(HistoryLimit + 1, a) = Append(LastOf(HistoryLimit, s), e)
  BY LastOfAppend
<1> HIDE DEF a
<1>4. ASSUME NEW i \in 1..Len(s) PROVE SubSeq(a, 1, i) = SubSeq(s, 1, i)
  <2>1. i \in Int /\ 1 \in Int /\ (\A j \in 1..i : a[j] \in Operations /\ s[j] \in Operations /\ a[j] = s[j])
    BY <1>1
  <2>2. /\ SubSeq(a, 1, i) \in Seq(Operations)
        /\ Len(SubSeq(a, 1, i)) = IF 1 <= i THEN i - 1 + 1 ELSE 0
        /\ \A j \in 1..(i - 1 + 1) : SubSeq(a, 1, i)[j] = a[1 + j - 1]
    BY <2>1, SubSeqProperties
  <2>3. /\ SubSeq(s, 1, i) \in Seq(Operations)
        /\ Len(SubSeq(s, 1, i)) = IF 1 <= i THEN i - 1 + 1 ELSE 0
        /\ \A j \in 1..(i - 1 + 1) : SubSeq(s, 1, i)[j] = s[1 + j - 1]
    BY <2>1, SubSeqProperties
  <2>4. Len(SubSeq(a, 1, i)) = i /\ Len(SubSeq(s, 1, i)) = i /\ i \in Nat
    BY <2>2, <2>3
  <2>5. \A j \in 1..i : SubSeq(a, 1, i)[j] = SubSeq(s, 1, i)[j]
    BY <2>1, <2>2, <2>3
  <2> QED
    BY <2>2, <2>3, <2>4, <2>5, SeqEqual
<1> QED
  BY <1>1, <1>2, <1>3, <1>4 DEF a

\* Nothing was allowed at the start.
LEMMA InitInv == Init => IInv
<1> SUFFICES ASSUME Init PROVE IInv
  OBVIOUS
<1>1. NoOperation \in Operations /\ NoRisk \in Risks
  BY DEF NoOperation, NoRisk
<1>2. TypeOK
  <2>1. << >> \in Seq(Operations)
    OBVIOUS
  <2>2. phase \in [Callers -> Phases] /\ view \in [Callers -> Seq(Operations)]
    BY <2>1 DEF Init, Phases
  <2>3. op \in [Callers -> Operations] /\ risk \in [Callers -> Risks]
    BY <1>1 DEF Init
  <2>4. slots \in 0..Slots /\ made \in 0..MaxRequests /\ lock \in Connections \cup {NoOne}
    BY DEF Init
  <2>5. listening \in BOOLEAN /\ active \in BOOLEAN /\ refused \in BOOLEAN /\ gatewayed \in BOOLEAN /\ late \subseteq Callers
    BY DEF Init
  <2>6. history \in Seq(Operations) /\ past \in Seq(Operations)
    BY <2>1 DEF Init
  <2> QED
    BY <2>2, <2>3, <2>4, <2>5, <2>6 DEF TypeOK
<1>3. LockInv /\ HaltInv
  BY DEF Init, LockInv, HaltInv, Callers
<1>4. ViewInv
  BY DEF Init, ViewInv, Callers
<1>5. HistoryInv
  <2>1. LastOf(HistoryLimit, << >>) = SubSeq(<< >>, 1, 0)
    BY DEF LastOf
  <2> QED
    BY <2>1, SubSeqEmpty DEF Init, HistoryInv
<1>6. SlotInv
  <2>1. Serving = {}
    BY DEF Init, Serving, Served, Callers
  <2>2. Cardinality(Serving) = 0
    BY <2>1, FS_EmptySet
  <2> QED
    BY <2>2 DEF Init, SlotInv, Lost
<1> QED
  BY <1>2, <1>3, <1>4, <1>5, <1>6 DEF IInv

\* A step of one caller changes the number of served connections by what it
\* does for that caller.
LEMMA ServingStep ==
  ASSUME TypeOK, NEW x \in Callers, NEW step \in Phases, Goto(x, step)
  PROVE  /\ IsFiniteSet(Serving) /\ Cardinality(Serving) \in Nat
         /\ x \in Connections /\ phase[x] \in Served /\ step \notin Served =>
              Cardinality(Serving') = Cardinality(Serving) - 1 /\ Cardinality(Serving) > 0
         /\ x \in Connections /\ phase[x] \notin Served /\ step \in Served =>
              Cardinality(Serving') = Cardinality(Serving) + 1
         /\ x \notin Connections \/ (phase[x] \in Served <=> step \in Served) =>
              Cardinality(Serving') = Cardinality(Serving)
<1>1. Serving \subseteq Connections /\ Serving' \subseteq Connections
  BY DEF Serving
<1>2. IsFiniteSet(Serving) /\ IsFiniteSet(Serving')
  BY <1>1, FS_Subset
<1>3. Cardinality(Serving) \in Nat
  BY <1>2, FS_CardinalityType
<1>4. phase' = [phase EXCEPT ![x] = step] /\ phase \in [Callers -> Phases]
  BY DEF Goto, TypeOK
<1>5. ASSUME x \in Connections, phase[x] \in Served, step \notin Served
      PROVE  Cardinality(Serving') = Cardinality(Serving) - 1 /\ Cardinality(Serving) > 0
  <2>1. x \in Serving /\ Serving' = Serving \ {x}
    BY <1>4, <1>5 DEF Serving, Callers
  <2>2. Cardinality(Serving \ {x}) = Cardinality(Serving) - 1
    BY <1>2, <2>1, FS_RemoveElement
  <2>3. Cardinality(Serving \ {x}) \in Nat
    BY <1>2, <2>1, FS_CardinalityType
  <2> QED
    BY <1>3, <2>1, <2>2, <2>3
<1>6. ASSUME x \in Connections, phase[x] \notin Served, step \in Served
      PROVE  Cardinality(Serving') = Cardinality(Serving) + 1
  <2>1. x \notin Serving /\ Serving' = Serving \cup {x}
    BY <1>4, <1>6 DEF Serving, Callers
  <2> QED
    BY <1>2, <2>1, FS_AddElement
<1>7. ASSUME x \notin Connections \/ (phase[x] \in Served <=> step \in Served)
      PROVE  Cardinality(Serving') = Cardinality(Serving)
  <2>1. Serving' = Serving
    BY <1>4, <1>7 DEF Serving, Callers
  <2> QED
    BY <2>1
<1> QED
  BY <1>2, <1>3, <1>5, <1>6, <1>7

\* A slot is taken with the thread and given back with it, or lost with the loop.
LEMMA NextSlots == TypeOK /\ SlotInv /\ [Next]_vars => SlotInv' /\ slots' \in 0..Slots
<1> SUFFICES ASSUME TypeOK, SlotInv, [Next]_vars
             PROVE  SlotInv' /\ slots' \in 0..Slots
  OBVIOUS
<1> USE DEF SlotInv
<1>t. slots \in 0..Slots /\ Slots \in Nat
  BY DEF TypeOK
<1>l. UNCHANGED listening => Lost' = Lost /\ Lost \in {0, 1}
  BY DEF Lost
<1>s. {"reading", "asking", "allowing", "halting", "answering", "halted"} = Served
      /\ Phases = Served \cup {"free", "backlog"} /\ "free" \notin Served /\ "backlog" \notin Served
  BY DEF Served, Phases
<1>c. Cardinality(Serving) \in Nat
  <2>1. IsFiniteSet(Serving)
    BY FS_Subset DEF Serving
  <2> QED
    BY <2>1, FS_CardinalityType
<1>1. ASSUME NEW k \in Connections, Accept(k) PROVE SlotInv' /\ slots' \in 0..Slots
  <2>1. CASE slots > 0 /\ slots' = slots - 1 /\ Goto(k, "reading") /\ UNCHANGED listening
    <3>1. phase[k] = "backlog" /\ k \in Callers
      BY <1>1 DEF Accept, Callers
    <3>2. Cardinality(Serving') = Cardinality(Serving) + 1
      BY <2>1, <3>1, <1>s, ServingStep
    <3> QED
      BY <2>1, <3>2, <1>t, <1>c, <1>l
  <2>2. CASE Over(k)
    <3>1. phase[k] = "backlog" /\ k \in Callers /\ Goto(k, "free") /\ listening
      BY <1>1, <2>2 DEF Accept, Callers, Over
    <3>2. Cardinality(Serving') = Cardinality(Serving)
      BY <3>1, <1>s, ServingStep
    <3>3. CASE slots > 0 /\ slots' = slots - 1 /\ listening' = FALSE
      <4>1. Lost = 0 /\ Lost' = 1
        BY <3>1, <3>3 DEF Lost
      <4> QED
        BY <3>2, <3>3, <4>1, <1>t, <1>c
    <3>4. CASE UNCHANGED <<slots, listening>>
      BY <3>2, <3>4, <1>t, <1>c, <1>l
    <3> QED
      BY <1>1, <2>2, <3>3, <3>4 DEF Accept, server, Goto, Over, TypeOK, Callers
  <2> QED
    BY <1>1, <2>1, <2>2 DEF Accept, Over, server, Goto
<1>8. ASSUME NEW k \in Connections, Reset(k) PROVE SlotInv' /\ slots' \in 0..Slots
  <2>1. /\ phase[k] = "backlog" /\ k \in Callers /\ Goto(k, "free")
        /\ UNCHANGED <<slots, listening>>
    BY <1>8 DEF Reset, Callers, Over, server
  <2>2. Cardinality(Serving') = Cardinality(Serving)
    BY <2>1, <1>s, ServingStep
  <2> QED
    BY <2>1, <2>2, <1>t, <1>l
<1>2. ASSUME NEW k \in Connections, Receive(k) PROVE SlotInv' /\ slots' \in 0..Slots
  <2>1. phase[k] = "reading" /\ k \in Callers /\ Goto(k, "asking") /\ UNCHANGED <<slots, listening>>
    BY <1>2 DEF Receive, Callers, server
  <2>2. Cardinality(Serving') = Cardinality(Serving)
    BY <2>1, <1>s, ServingStep
  <2> QED
    BY <2>1, <2>2, <1>t, <1>l
<1>3. ASSUME NEW k \in Connections, Reject(k) PROVE SlotInv' /\ slots' \in 0..Slots
  <2>1. phase[k] = "reading" /\ k \in Callers /\ Goto(k, "free") /\ slots' = slots + 1
        /\ UNCHANGED listening
    BY <1>3 DEF Reject, Callers, Over
  <2>2. Cardinality(Serving') = Cardinality(Serving) - 1 /\ Cardinality(Serving) > 0
    BY <2>1, <1>s, ServingStep
  <2> QED
    BY <2>1, <2>2, <1>t, <1>c, <1>l DEF Lost
<1>4. ASSUME NEW x \in Callers, Call(x) PROVE SlotInv' /\ slots' \in 0..Slots
  <2>1. CASE x \in Gateways
    <3>1. x \notin Connections /\ Goto(x, "asking") /\ UNCHANGED <<slots, listening>>
      BY <1>4, <2>1 DEF Call, server
    <3>2. Cardinality(Serving') = Cardinality(Serving)
      BY <3>1, <1>s, ServingStep
    <3> QED
      BY <3>1, <3>2, <1>t, <1>l
  <2>2. CASE x \notin Gateways
    <3>1. phase[x] = "free" /\ Goto(x, "backlog") /\ UNCHANGED <<slots, listening>>
      BY <1>4, <2>2 DEF Call, server
    <3>2. Cardinality(Serving') = Cardinality(Serving)
      BY <3>1, <1>s, ServingStep
    <3> QED
      BY <3>1, <3>2, <1>t, <1>l
  <2> QED
    BY <2>1, <2>2
<1>5. ASSUME NEW x \in Callers, Look(x) \/ Record(x) \/ Halt(x)
      PROVE  SlotInv' /\ slots' \in 0..Slots
  <2>1. PICK step \in Served : Goto(x, step)
    BY <1>5, <1>s DEF Look, Record, Halt
  <2>2. phase[x] \in Served /\ UNCHANGED <<slots, listening>>
    BY <1>5, <1>s DEF Look, Record, Halt, server
  <2>3. Cardinality(Serving') = Cardinality(Serving)
    BY <2>1, <2>2, <1>s, ServingStep
  <2> QED
    BY <2>2, <2>3, <1>t, <1>l
<1>6. ASSUME NEW x \in Callers, Answer(x) PROVE SlotInv' /\ slots' \in 0..Slots
  <2>1. phase[x] \in Served /\ Goto(x, "free")
        /\ slots' = (IF x \in Connections THEN slots + 1 ELSE slots) /\ UNCHANGED listening
    BY <1>6, <1>s DEF Answer, Over
  <2>2. x \in Connections => Cardinality(Serving') = Cardinality(Serving) - 1 /\ Cardinality(Serving) > 0
    BY <2>1, <1>s, ServingStep
  <2>3. x \notin Connections => Cardinality(Serving') = Cardinality(Serving)
    BY <2>1, <1>s, ServingStep
  <2> QED
    BY <2>1, <2>2, <2>3, <1>t, <1>c, <1>l DEF Lost
<1>7. CASE UNCHANGED vars
  <2>1. Serving' = Serving
    BY <1>7 DEF vars, caller, Serving
  <2> QED
    BY <1>7, <2>1, <1>t, <1>l DEF vars
<1> QED
  BY <1>1, <1>2, <1>3, <1>4, <1>5, <1>6, <1>7, <1>8 DEF Next, Decide

\* Every step keeps the types; the number of free slots is the previous lemma.
LEMMA NextType == TypeOK /\ SlotInv /\ [Next]_vars => TypeOK'
<1> SUFFICES ASSUME TypeOK, SlotInv, [Next]_vars PROVE TypeOK'
  OBVIOUS
<1>s. slots' \in 0..Slots
  BY NextSlots
<1>n. NoOperation \in Operations /\ NoRisk \in Risks /\ << >> \in Seq(Operations)
  BY DEF NoOperation, NoRisk
<1> USE <1>s, <1>n DEF TypeOK, Phases, Callers, Goto, Over, caller, engine, server
<1>1. ASSUME NEW k \in Connections, Accept(k) PROVE TypeOK'
  <2>1. phase' \in [Callers -> Phases] /\ op' \in [Callers -> Operations]
        /\ risk' \in [Callers -> Risks] /\ view' \in [Callers -> Seq(Operations)]
    <3>1. CASE Goto(k, "reading") /\ UNCHANGED <<op, risk, view>>
      BY <3>1
    <3>2. CASE Over(k)
      <4>1. view' = [view EXCEPT ![k] = << >>]
        BY <3>2
      <4>2. view' \in [Callers -> Seq(Operations)]
        BY <4>1
      <4> QED
        BY <3>2, <4>2
    <3> QED
      BY <1>1, <3>1, <3>2 DEF Accept
  <2>2. late' \subseteq Callers
    BY <1>1 DEF Accept
  <2>3. UNCHANGED <<lock, history, past, active, made, refused, gatewayed>>
    BY <1>1 DEF Accept
  <2>4. listening' \in BOOLEAN
    BY <1>1 DEF Accept
  <2> QED
    BY <2>1, <2>2, <2>3, <2>4
<1>10. ASSUME NEW k \in Connections, Reset(k) PROVE TypeOK'
  <2>1. view' = [view EXCEPT ![k] = << >>]
    BY <1>10 DEF Reset
  <2>2. view' \in [Callers -> Seq(Operations)]
    BY <2>1
  <2> QED
    BY <1>10, <2>2 DEF Reset
<1>2. ASSUME NEW k \in Connections, Receive(k) PROVE TypeOK'
  BY <1>2 DEF Receive
<1>3. ASSUME NEW k \in Connections, Reject(k) PROVE TypeOK'
  BY <1>3 DEF Reject
<1>4. ASSUME NEW x \in Callers, Call(x) PROVE TypeOK'
  BY <1>4 DEF Call
<1>5. ASSUME NEW x \in Callers, Look(x) PROVE TypeOK'
  <2>1. phase' \in [Callers -> Phases] /\ view' \in [Callers -> Seq(Operations)]
    <3>1. view' = view \/ view' = [view EXCEPT ![x] = history]
      BY <1>5 DEF Look
    <3>2. PICK step \in Phases : phase' = [phase EXCEPT ![x] = step]
      BY <1>5 DEF Look
    <3>3. view' \in [Callers -> Seq(Operations)]
      BY <3>1
    <3> QED
      BY <3>2, <3>3
  <2>2. lock' \in Connections \cup {NoOne}
    BY <1>5 DEF Look
  <2>3. UNCHANGED <<op, risk, listening, history, past, active, made, refused, late,
                 gatewayed>>
    BY <1>5 DEF Look
  <2> QED
    BY <2>1, <2>2, <2>3
<1>6. ASSUME NEW x \in Callers, Record(x) PROVE TypeOK'
  <2>1. Append(history, op[x]) \in Seq(Operations) /\ past' \in Seq(Operations)
    BY <1>6, AppendProperties DEF Record
  <2>2. history' \in Seq(Operations)
    BY <1>6, <2>1, LastOfProperties DEF Record, Remembered
  <2> QED
    BY <1>6, <2>1, <2>2 DEF Record
<1>7. ASSUME NEW x \in Callers, Halt(x) PROVE TypeOK'
  BY <1>7 DEF Halt
<1>8. ASSUME NEW x \in Callers, Answer(x) PROVE TypeOK'
  BY <1>8 DEF Answer
<1>9. CASE UNCHANGED vars
  BY <1>9 DEF vars, caller, engine
<1> QED
  BY <1>1, <1>2, <1>3, <1>4, <1>5, <1>6, <1>7, <1>8, <1>9, <1>10 DEF Next, Decide

\* Only the thread that holds the service lock is about to record an ALLOW.
LEMMA NextLock == TypeOK /\ LockInv /\ [Next]_vars => LockInv'
<1> SUFFICES ASSUME TypeOK, LockInv, [Next]_vars PROVE LockInv'
  OBVIOUS
<1> USE DEF TypeOK, LockInv, Callers, Phases, Goto, Over, caller, engine
<1>1. ASSUME NEW k \in Connections, Accept(k) \/ Reset(k) PROVE LockInv'
  BY <1>1 DEF Accept, Reset
<1>2. ASSUME NEW k \in Connections, Receive(k) PROVE LockInv'
  BY <1>2 DEF Receive
<1>3. ASSUME NEW k \in Connections, Reject(k) PROVE LockInv'
  BY <1>3 DEF Reject
<1>4. ASSUME NEW x \in Callers, Call(x) PROVE LockInv'
  BY <1>4 DEF Call
<1>5. ASSUME NEW x \in Callers, Look(x) PROVE LockInv'
  BY <1>5 DEF Look
<1>6. ASSUME NEW x \in Callers, Record(x) PROVE LockInv'
  BY <1>6 DEF Record
<1>7. ASSUME NEW x \in Callers, Halt(x) PROVE LockInv'
  BY <1>7 DEF Halt
<1>8. ASSUME NEW x \in Callers, Answer(x) PROVE LockInv'
  BY <1>8 DEF Answer
<1>9. CASE UNCHANGED vars
  BY <1>9 DEF vars, caller, engine
<1> QED
  BY <1>1, <1>2, <1>3, <1>4, <1>5, <1>6, <1>7, <1>8, <1>9 DEF Next, Decide

\* A HALT that has been answered has stopped the runtime before.
LEMMA NextHalt == TypeOK /\ HaltInv /\ [Next]_vars => HaltInv'
<1> SUFFICES ASSUME TypeOK, HaltInv, [Next]_vars PROVE HaltInv'
  OBVIOUS
<1> USE DEF TypeOK, HaltInv, Callers, Phases, Goto, Over, caller, engine
<1>1. ASSUME NEW k \in Connections, Accept(k) \/ Reset(k) PROVE HaltInv'
  BY <1>1 DEF Accept, Reset
<1>2. ASSUME NEW k \in Connections, Receive(k) PROVE HaltInv'
  BY <1>2 DEF Receive
<1>3. ASSUME NEW k \in Connections, Reject(k) PROVE HaltInv'
  BY <1>3 DEF Reject
<1>4. ASSUME NEW x \in Callers, Call(x) PROVE HaltInv'
  BY <1>4 DEF Call
<1>5. ASSUME NEW x \in Callers, Look(x) PROVE HaltInv'
  BY <1>5 DEF Look
<1>6. ASSUME NEW x \in Callers, Record(x) PROVE HaltInv'
  BY <1>6 DEF Record
<1>7. ASSUME NEW x \in Callers, Halt(x) PROVE HaltInv'
  BY <1>7 DEF Halt
<1>8. ASSUME NEW x \in Callers, Answer(x) PROVE HaltInv'
  BY <1>8 DEF Answer
<1>9. CASE UNCHANGED vars
  BY <1>9 DEF vars, caller, engine
<1> QED
  BY <1>1, <1>2, <1>3, <1>4, <1>5, <1>6, <1>7, <1>8, <1>9 DEF Next, Decide

\* The engine remembers the end of what it allowed.
LEMMA NextHistory == TypeOK /\ HistoryInv /\ [Next]_vars => HistoryInv'
<1> SUFFICES ASSUME TypeOK, HistoryInv, [Next]_vars PROVE HistoryInv'
  OBVIOUS
<1> USE DEF HistoryInv, engine
<1>1. ASSUME NEW k \in Connections, Accept(k) \/ Reset(k) PROVE HistoryInv'
  BY <1>1 DEF Accept, Reset
<1>2. ASSUME NEW k \in Connections, Receive(k) PROVE HistoryInv'
  BY <1>2 DEF Receive
<1>3. ASSUME NEW k \in Connections, Reject(k) PROVE HistoryInv'
  BY <1>3 DEF Reject
<1>4. ASSUME NEW x \in Callers, Call(x) PROVE HistoryInv'
  BY <1>4 DEF Call
<1>5. ASSUME NEW x \in Callers, Look(x) PROVE HistoryInv'
  BY <1>5 DEF Look
<1>6. ASSUME NEW x \in Callers, Record(x) PROVE HistoryInv'
  <2>1. history \in Seq(Operations) /\ past \in Seq(Operations) /\ op[x] \in Operations
    BY DEF TypeOK
  <2> QED
    BY <1>6, <2>1, LastOfAppend DEF Record, Remembered
<1>7. ASSUME NEW x \in Callers, Halt(x) PROVE HistoryInv'
  BY <1>7 DEF Halt
<1>8. ASSUME NEW x \in Callers, Answer(x) PROVE HistoryInv'
  BY <1>8 DEF Answer
<1>9. CASE UNCHANGED vars
  BY <1>9 DEF vars, caller, engine
<1> QED
  BY <1>1, <1>2, <1>3, <1>4, <1>5, <1>6, <1>7, <1>8, <1>9 DEF Next, Decide

\* Without gateways an ALLOW is recorded on the very history it was given on.
LEMMA NextView == TypeOK /\ LockInv /\ HistoryInv /\ ViewInv /\ [Next]_vars => ViewInv'
<1> SUFFICES ASSUME TypeOK, LockInv, HistoryInv, ViewInv, [Next]_vars, ~gatewayed'
             PROVE  /\ \A g \in Gateways : phase'[g] = "free"
                    /\ \A k \in Connections : phase'[k] = "allowing" =>
                         view'[k] = history' /\ Clean(Append(view'[k], op'[k]))
                    /\ \A i \in 1..Len(past') : Clean(LastOf(HistoryLimit + 1, SubSeq(past', 1, i)))
  BY DEF ViewInv, Window, Clean
<1>g. ~gatewayed
  BY DEF Next, Decide, Accept, Reset, Receive, Reject, Call, Look, Record, Halt, Answer, vars
<1>v. /\ \A g \in Gateways : phase[g] = "free"
      /\ \A k \in Connections : phase[k] = "allowing" =>
           view[k] = history /\ Clean(Append(view[k], op[k]))
      /\ \A i \in 1..Len(past) : Clean(LastOf(HistoryLimit + 1, SubSeq(past, 1, i)))
  BY <1>g DEF ViewInv, Window
<1> DEFINE Goal ==
      /\ \A g \in Gateways : phase'[g] = "free"
      /\ \A k \in Connections : phase'[k] = "allowing" =>
           view'[k] = history' /\ Clean(Append(view'[k], op'[k]))
      /\ \A i \in 1..Len(past') : Clean(LastOf(HistoryLimit + 1, SubSeq(past', 1, i)))
<1>o. ASSUME NEW x \in Callers, NEW step \in Phases \ {"allowing"}, Goto(x, step),
             x \notin Gateways, UNCHANGED <<history, past>>,
             \A k \in Connections \ {x} : view'[k] = view[k] /\ op'[k] = op[k]
      PROVE  Goal
  <2>1. \A y \in Callers \ {x} : phase'[y] = phase[y]
    BY <1>o DEF Goto, TypeOK
  <2>2. phase'[x] # "allowing"
    BY <1>o DEF Goto, TypeOK
  <2> HIDE DEF Clean, LastOf
  <2> QED
    BY <1>o, <1>v, <2>1, <2>2 DEF Callers
<1> HIDE DEF Goal, Clean, LastOf
<1>1. ASSUME NEW k \in Connections, Accept(k) \/ Reset(k) \/ Receive(k) \/ Reject(k) PROVE Goal
  <2>1. PICK step \in Phases \ {"allowing"} : Goto(k, step)
    BY <1>1 DEF Accept, Reset, Receive, Reject, Over, Phases
  <2>2. UNCHANGED <<history, past>>
        /\ \A j \in Connections \ {k} : view'[j] = view[j] /\ op'[j] = op[j]
    BY <1>1 DEF Accept, Reset, Receive, Reject, Over, engine, TypeOK, Callers
  <2> QED
    BY <2>1, <2>2, <1>o DEF Callers
<1>4. ASSUME NEW x \in Callers, Call(x) \/ Halt(x) \/ Answer(x) PROVE Goal
  <2>1. PICK step \in Phases \ {"allowing"} : Goto(x, step)
    BY <1>4 DEF Call, Halt, Answer, Over, Phases
  <2>2. x \notin Gateways
    BY <1>4, <1>g, <1>v DEF Call, Halt, Answer
  <2>3. UNCHANGED <<history, past>>
        /\ \A j \in Connections \ {x} : view'[j] = view[j] /\ op'[j] = op[j]
    BY <1>4 DEF Call, Halt, Answer, Over, engine, TypeOK, Callers
  <2> QED
    BY <2>1, <2>2, <2>3, <1>o
<1>5. ASSUME NEW x \in Callers, Look(x) PROVE Goal
  <2>1. x \in Connections /\ lock = NoOne /\ UNCHANGED <<op, history, past>>
    BY <1>5, <1>v DEF Look, Callers, engine
  <2>2. \A k \in Connections : phase[k] # "allowing"
    BY <2>1 DEF LockInv
  <2>3. CASE Goto(x, "allowing") /\ view' = [view EXCEPT ![x] = history]
             /\ active /\ Allowed(op[x], risk[x], history)
    <3>1. Clean(Append(history, op[x]))
      BY <2>3 DEF Allowed, Matching, Clean
    <3>2. view'[x] = history /\ op'[x] = op[x]
      BY <2>1, <2>3 DEF TypeOK
    <3>3. \A y \in Callers \ {x} : phase'[y] = phase[y]
      BY <2>3 DEF Goto, TypeOK
    <3> QED
      BY <1>v, <2>1, <2>2, <3>1, <3>2, <3>3 DEF Goal, Callers
  <2>4. CASE ~(active /\ Allowed(op[x], risk[x], history))
    <3>1. PICK step \in Phases \ {"allowing"} : Goto(x, step) /\ UNCHANGED view
      BY <1>5, <2>4 DEF Look, Phases
    <3> QED
      BY <2>1, <3>1, <1>o
  <2> QED
    BY <1>5, <2>3, <2>4 DEF Look
<1>6. ASSUME NEW x \in Callers, Record(x) PROVE Goal
  <2>1. x \in Connections /\ phase[x] = "allowing"
    BY <1>6, <1>v DEF Record, Callers
  <2>2. \A k \in Connections \ {x} : phase[k] # "allowing"
    BY <2>1 DEF LockInv
  <2>3. \A y \in Callers \ {x} : phase'[y] = phase[y]
    BY <1>6 DEF Record, Goto, TypeOK
  <2>4. phase'[x] = "answering"
    BY <1>6 DEF Record, Goto, TypeOK
  <2>5. past \in Seq(Operations) /\ op[x] \in Operations /\ past' = Append(past, op[x])
    BY <1>6 DEF Record, TypeOK
  <2>6. Clean(Append(LastOf(HistoryLimit, past), op[x]))
    BY <1>v, <2>1 DEF HistoryInv
  <2>7. ASSUME NEW i \in 1..Len(past') PROVE Clean(LastOf(HistoryLimit + 1, SubSeq(past', 1, i)))
    <3>1. Len(past') = Len(past) + 1 /\ Len(past) \in Nat
      BY <2>5, Windows
    <3>2. CASE i \in 1..Len(past)
      <4>1. SubSeq(past', 1, i) = SubSeq(past, 1, i)
        BY <2>5, <3>2, Windows
      <4> QED
        BY <4>1, <3>2, <1>v
    <3>3. CASE i = Len(past')
      <4>1. LastOf(HistoryLimit + 1, SubSeq(past', 1, Len(past'))) = Append(LastOf(HistoryLimit, past), op[x])
        BY <2>5, Windows
      <4> QED
        BY <4>1, <3>3, <2>6
    <3> QED
      BY <3>1, <3>2, <3>3
  <2>8. \A g \in Gateways : phase'[g] = "free"
    BY <1>v, <2>1, <2>3 DEF Callers
  <2>9. \A k \in Connections : phase'[k] # "allowing"
    BY <2>2, <2>3, <2>4 DEF Callers
  <2> QED
    BY <2>7, <2>8, <2>9 DEF Goal
<1>7. ASSUME UNCHANGED vars PROVE Goal
  BY <1>7, <1>v DEF vars, caller, engine, Goal
<1>8. Goal
  <2>1. ASSUME NEW x \in Callers, Call(x) \/ Decide(x) PROVE Goal
    BY <2>1, <1>4, <1>5, <1>6 DEF Decide
  <2>2. CASE \E k \in Connections : Accept(k) \/ Reset(k) \/ Receive(k) \/ Reject(k)
    BY <2>2, <1>1
  <2>3. CASE \E x \in Callers : Call(x) \/ Decide(x)
    BY <2>3, <2>1
  <2> QED
    BY <2>2, <2>3, <1>7 DEF Next
<1> QED
  BY <1>8 DEF Goal

\* The inductive invariant of the server and the engine.
THEOREM Invariance == Spec => []IInv
<1>1. IInv /\ [Next]_vars => IInv'
  BY NextType, NextLock, NextView, NextHistory, NextHalt, NextSlots DEF IInv
<1> QED
  BY InitInv, <1>1, PTL DEF Spec

\* Whatever the rules, the history limit and the number of connections: among
\* the operations the service allows, no stretch that the engine could remember
\* contains a forbidden chain (policy.py's evaluate under control.py's lock).
THEOREM ChainsAreRefused == Spec => []NoForbiddenChain
<1>1. IInv => NoForbiddenChain
  BY DEF IInv, ViewInv, NoForbiddenChain
<1> QED
  BY Invariance, <1>1, PTL

\* A request made after a HALT was answered is not allowed, by the service or
\* by a gateway (control.py halts before it answers).
THEOREM HaltStays == Spec => []HaltIsFinal
<1>1. IInv => HaltIsFinal
  BY DEF IInv, HaltInv, HaltIsFinal
<1> QED
  BY Invariance, <1>1, PTL

\* No slot is lost or given back twice (transport.py's finally).
THEOREM SlotsAreReturned == Spec => []SlotsComeBack
<1>1. IInv => SlotsComeBack
  <2>1. Cardinality(Serving) \in Nat
    <3>1. IsFiniteSet(Serving)
      BY FS_Subset DEF Serving
    <3> QED
      BY <3>1, FS_CardinalityType
  <2> QED
    BY <2>1 DEF IInv, SlotInv, Lost, SlotsComeBack
<1> QED
  BY Invariance, <1>1, PTL

-----------------------------------------------------------------------------
(* Matches decides Occurs: induction over the natural numbers, as a fact      *)
(* about sets of them, and with it the single pass over the history.          *)

\* The intervals 0..x are finite, and finite sets are well-founded by
\* inclusion.
LEMMA Least ==
  ASSUME NEW T, T \subseteq Nat, T # {}
  PROVE  \E x \in T : \A y \in T : x <= y
<1> DEFINE U == {0..x : x \in T}
<1>1. IsWellFoundedOn(StrictSubsetOrdering(Nat), FiniteSubsetsOf(Nat))
  BY FS_StrictSubsetOrderingWellFounded
<1>2. U \subseteq FiniteSubsetsOf(Nat)
  <2> SUFFICES ASSUME NEW x \in T PROVE 0..x \in FiniteSubsetsOf(Nat)
    OBVIOUS
  <2>1. x \in Int /\ 0 \in Int
    OBVIOUS
  <2>2. IsFiniteSet(0..x)
    BY <2>1, FS_Interval
  <2> QED
    BY <2>2 DEF FiniteSubsetsOf
<1>3. U # {}
  OBVIOUS
<1> HIDE DEF U
<1>4. PICK u \in U : \A v \in U : ~ (<<v, u>> \in StrictSubsetOrdering(Nat))
  BY <1>1, <1>2, <1>3, WFMin
<1> USE DEF U
<1>5. PICK x \in T : u = 0..x
  BY <1>4
<1>6. ASSUME NEW y \in T, y < x PROVE FALSE
  <2>1. 0..y \in U /\ 0..y \subseteq 0..x /\ x \in 0..x /\ x \notin 0..y /\ 0..x \subseteq Nat
    BY <1>6
  <2>2. <<0..y, 0..x>> \in StrictSubsetOrdering(Nat)
    BY <2>1 DEF StrictSubsetOrdering
  <2> QED
    BY <2>1, <2>2, <1>4, <1>5
<1>7. WITNESS x \in T
<1> QED
  BY <1>6

\* A set with 0 and with the successor of each of its numbers up to n has them
\* all.
LEMMA SetInduction ==
  ASSUME NEW n \in Nat, NEW T, 0 \in T, \A i \in 1..n : i - 1 \in T => i \in T
  PROVE  0..n \subseteq T
<1> SUFFICES ASSUME 0..n \ T # {} PROVE FALSE
  OBVIOUS
<1> DEFINE R == 0..n \ T
<1>0. R \subseteq Nat /\ R # {}
  OBVIOUS
<1> HIDE DEF R
<1>1. PICK x \in R : \A y \in R : x <= y
  BY <1>0, Least
<1> USE DEF R
<1>2. x # 0 /\ x \in 1..n /\ x - 1 \in 0..n
  BY <1>1
<1>3. x - 1 \in T
  BY <1>1, <1>2
<1> QED
  BY <1>1, <1>2, <1>3

\* The first k of the operations ops occur in order among the first i of s.
Embeds(ops, s, k, i) ==
  \E p \in [1..k -> 1..i] :
    /\ \A a, b \in 1..k : a < b => p[a] < p[b]
    /\ \A a \in 1..k : s[p[a]] = ops[a]

\* v is the greatest number of the operations ops, from the first, that occur.
Longest(ops, s, i, v) ==
  /\ v \in 0..Len(ops)
  /\ Embeds(ops, s, v, i)
  /\ \A k \in 0..Len(ops) : Embeds(ops, s, k, i) => k <= v

\* What the pass does with the next operation.
Longer(ops, s, i, v) == IF v < Len(ops) /\ s[i] = ops[v + 1] THEN v + 1 ELSE v

\* Nothing occurs in nothing; only one number is the greatest.
LEMMA LongestStart ==
  ASSUME NEW S, NEW ops \in Seq(S), NEW s \in Seq(S)
  PROVE  Longest(ops, s, 0, 0)
<1>1. Embeds(ops, s, 0, 0)
  <2> DEFINE p == [a \in 1..0 |-> a]
  <2>1. p \in [1..0 -> 1..0]
    OBVIOUS
  <2>2. \A a \in 1..0 : FALSE
    OBVIOUS
  <2> HIDE DEF p
  <2> QED
    BY <2>1, <2>2 DEF Embeds
<1>2. ASSUME NEW k \in 0..Len(ops), Embeds(ops, s, k, 0) PROVE k <= 0
  <2>1. PICK p : p \in [1..k -> 1..0]
    BY <1>2 DEF Embeds
  <2>2. ASSUME 1 \in 1..k PROVE FALSE
    <3>1. p[1] \in 1..0
      BY <2>1, <2>2
    <3> QED
      BY <3>1
  <2> QED
    BY <2>2
<1> QED
  BY <1>1, <1>2 DEF Longest

LEMMA LongestIsOne ==
  ASSUME NEW S, NEW ops \in Seq(S), NEW s, NEW i, NEW v, NEW w,
         Longest(ops, s, i, v), Longest(ops, s, i, w)
  PROVE  v = w
BY DEF Longest

\* The step of the pass keeps count of the most that occurs.
LEMMA LongestStep ==
  ASSUME NEW S, NEW ops \in Seq(S), NEW s \in Seq(S), NEW i \in 1..Len(s), NEW v,
         Longest(ops, s, i - 1, v)
  PROVE  Longest(ops, s, i, Longer(ops, s, i, v))
<1> DEFINE w == Longer(ops, s, i, v)
<1>0. v \in 0..Len(ops) /\ Len(ops) \in Nat /\ i \in Nat /\ i - 1 \in Nat
  BY DEF Longest
<1>1. w \in 0..Len(ops) /\ v <= w
  BY <1>0 DEF Longer
<1>2. PICK p \in [1..v -> 1..(i - 1)] :
        /\ \A a, b \in 1..v : a < b => p[a] < p[b]
        /\ \A a \in 1..v : s[p[a]] = ops[a]
  BY DEF Longest, Embeds
<1>3. Embeds(ops, s, w, i)
  <2>1. CASE v < Len(ops) /\ s[i] = ops[v + 1]
    <3> DEFINE q == [a \in 1..(v + 1) |-> IF a <= v THEN p[a] ELSE i]
    <3>1. w = v + 1
      BY <2>1 DEF Longer
    <3>2. \A a \in 1..v : a \in 1..(v + 1) /\ q[a] = p[a] /\ p[a] \in 1..(i - 1)
      BY <1>0
    <3>3. v + 1 \in 1..(v + 1) /\ q[v + 1] = i
      BY <1>0
    <3>4. \A a \in 1..(v + 1) : a \in 1..v \/ a = v + 1
      BY <1>0
    <3>5. q \in [1..(v + 1) -> 1..i]
      BY <1>0, <3>2
    <3>6. \A a, b \in 1..(v + 1) : a < b => q[a] < q[b]
      <4> SUFFICES ASSUME NEW a \in 1..(v + 1), NEW b \in 1..(v + 1), a < b PROVE q[a] < q[b]
        OBVIOUS
      <4>1. a \in 1..v
        BY <1>0
      <4>2. CASE b \in 1..v
        BY <1>2, <3>2, <4>1, <4>2
      <4>3. CASE b = v + 1
        BY <1>0, <3>2, <3>3, <4>1, <4>3
      <4> QED
        BY <3>4, <4>2, <4>3
    <3>7. \A a \in 1..(v + 1) : s[q[a]] = ops[a]
      BY <1>2, <2>1, <3>2, <3>3, <3>4
    <3> HIDE DEF q
    <3> QED
      BY <3>1, <3>5, <3>6, <3>7 DEF Embeds
  <2>2. CASE ~ (v < Len(ops) /\ s[i] = ops[v + 1])
    <3>1. w = v
      BY <2>2 DEF Longer
    <3>2. p \in [1..v -> 1..i]
      BY <1>0
    <3> QED
      BY <1>2, <3>1, <3>2 DEF Embeds
  <2> QED
    BY <2>1, <2>2
<1>4. ASSUME NEW k \in 0..Len(ops), Embeds(ops, s, k, i) PROVE k <= w
  <2>1. PICK q \in [1..k -> 1..i] :
          /\ \A a, b \in 1..k : a < b => q[a] < q[b]
          /\ \A a \in 1..k : s[q[a]] = ops[a]
    BY <1>4 DEF Embeds
  <2>2. CASE k <= v
    BY <1>0, <1>1, <2>2
  <2>3. CASE k > v
    <3>0. k - 1 \in 0..Len(ops) /\ k \in 1..k
      BY <1>0, <2>3
    <3>1. Embeds(ops, s, k - 1, i - 1)
      <4> DEFINE r == [a \in 1..(k - 1) |-> q[a]]
      <4>1. \A a \in 1..(k - 1) : a \in 1..k /\ a < k /\ r[a] = q[a]
        BY <3>0
      <4>2. \A a \in 1..(k - 1) : q[a] \in 1..(i - 1)
        <5> TAKE a \in 1..(k - 1)
        <5>1. q[a] < q[k] /\ q[a] \in 1..i /\ q[k] \in 1..i
          BY <2>1, <3>0, <4>1
        <5> QED
          BY <5>1, <1>0
      <4>3. r \in [1..(k - 1) -> 1..(i - 1)]
        BY <4>2
      <4>4. /\ \A a, b \in 1..(k - 1) : a < b => r[a] < r[b]
            /\ \A a \in 1..(k - 1) : s[r[a]] = ops[a]
        BY <2>1, <4>1
      <4> HIDE DEF r
      <4> QED
        BY <4>3, <4>4 DEF Embeds
    <3>2. k = v + 1 /\ v < Len(ops)
      BY <1>0, <2>3, <3>0, <3>1 DEF Longest
    <3>3. CASE s[i] = ops[v + 1]
      BY <1>0, <3>2, <3>3 DEF Longer
    <3>4. CASE s[i] # ops[v + 1]
      <4>1. q[k] # i
        BY <2>1, <3>0, <3>2, <3>4
      <4>2. \A a \in 1..k : q[a] \in 1..(i - 1)
        <5> TAKE a \in 1..k
        <5>1. q[a] \in 1..i /\ q[k] \in 1..i
          BY <2>1, <3>0
        <5>2. a = k \/ (a < k /\ q[a] < q[k])
          BY <2>1, <3>0
        <5> QED
          BY <1>0, <4>1, <5>1, <5>2
      <4>3. q \in [1..k -> 1..(i - 1)]
        BY <2>1, <4>2
      <4>4. Embeds(ops, s, k, i - 1)
        BY <2>1, <4>3 DEF Embeds
      <4> QED
        BY <2>3, <4>4, <1>0 DEF Longest
    <3> QED
      BY <3>3, <3>4
  <2> QED
    BY <1>0, <2>2, <2>3
<1> QED
  BY <1>1, <1>3, <1>4 DEF Longest

\* Of the two ways a rule can match, the pass: it has found all of the rule's
\* operations when they occur.
LEMMA PassIsExact ==
  ASSUME NEW rule \in SequenceRules, NEW s \in Seq(Operations), ~rule.consecutive
  PROVE  Matches(rule, s) <=> Embeds(rule.ops, s, Len(rule.ops), Len(s))
<1> DEFINE ops == rule.ops
           n == Len(s)
           Pass(g) == [i \in 0..n |-> IF i = 0 THEN 0 ELSE Longer(ops, s, i, g[i - 1])]
           found == CHOOSE g : g = Pass(g)
           greatest == [i \in 0..n |-> CHOOSE v : Longest(ops, s, i, v)]
<1>1. ops \in Seq(Operations) /\ Len(ops) \in Nat /\ n \in Nat
  BY DEF SequenceRules
<1>2. Matches(rule, s) <=> found[n] = Len(ops)
  BY DEF Matches, Longer
<1>3. \A i \in 0..n : \E v : Longest(ops, s, i, v)
  <2> DEFINE T == {i \in 0..n : \E v : Longest(ops, s, i, v)}
  <2>1. 0 \in T
    BY <1>1, LongestStart
  <2>2. ASSUME NEW i \in 1..n, i - 1 \in T PROVE i \in T
    <3>1. PICK v : Longest(ops, s, i - 1, v)
      BY <2>2
    <3>2. Longest(ops, s, i, Longer(ops, s, i, v))
      BY <1>1, <3>1, LongestStep
    <3> QED
      BY <1>1, <3>2
  <2> HIDE DEF T
  <2>3. 0..n \subseteq T
    BY <1>1, <2>1, <2>2, SetInduction
  <2> QED
    BY <2>3 DEF T
<1>4. \A i \in 0..n : Longest(ops, s, i, greatest[i])
  BY <1>3
<1>5. greatest = Pass(greatest)
  <2>1. greatest[0] = 0
    BY <1>1, <1>4, LongestStart, LongestIsOne
  <2>2. ASSUME NEW i \in 1..n PROVE greatest[i] = Longer(ops, s, i, greatest[i - 1])
    <3>1. i - 1 \in 0..n /\ i \in 0..n
      BY <1>1
    <3>2. Longest(ops, s, i, Longer(ops, s, i, greatest[i - 1]))
      BY <1>1, <1>4, <3>1, LongestStep
    <3> QED
      BY <1>1, <1>4, <3>1, <3>2, LongestIsOne
  <2>3. \A i \in 0..n : greatest[i] = IF i = 0 THEN 0 ELSE Longer(ops, s, i, greatest[i - 1])
    <3> HIDE DEF greatest
    <3> TAKE i \in 0..n
    <3>1. i = 0 \/ i \in 1..n
      BY <1>1
    <3>2. ~ (0 \in 1..n)
      OBVIOUS
    <3> QED
      BY <2>1, <2>2, <3>1, <3>2
  <2>4. greatest = [i \in 0..n |-> greatest[i]]
    OBVIOUS
  <2> HIDE DEF greatest
  <2> QED
    BY <2>3, <2>4
<1>6. found = Pass(found)
  <2> HIDE DEF Pass, greatest
  <2> QED
    BY <1>5
<1> HIDE DEF found
<1>7. \A i \in 0..n : Longest(ops, s, i, found[i])
  <2> DEFINE T == {i \in 0..n : Longest(ops, s, i, found[i])}
  <2>1. 0 \in T
    <3>1. found[0] = 0
      BY <1>1, <1>6
    <3> QED
      BY <1>1, <3>1, LongestStart
  <2>2. ASSUME NEW i \in 1..n, i - 1 \in T PROVE i \in T
    <3>0. i \in 0..n /\ i # 0
      BY <1>1
    <3>1. i \in 0..n /\ found[i] = Longer(ops, s, i, found[i - 1])
      BY <1>6, <3>0
    <3>2. Longest(ops, s, i - 1, found[i - 1])
      BY <2>2
    <3> QED
      BY <1>1, <3>1, <3>2, LongestStep
  <2> HIDE DEF T
  <2>3. 0..n \subseteq T
    BY <1>1, <2>1, <2>2, SetInduction
  <2> QED
    BY <2>3 DEF T
<1>8. Longest(ops, s, n, found[n])
  BY <1>1, <1>7
<1> QED
  BY <1>1, <1>2, <1>8 DEF Longest

\* The other way: the last operations are the rule's.
LEMMA SuffixIsExact ==
  ASSUME NEW rule \in SequenceRules, NEW s \in Seq(Operations), rule.consecutive
  PROVE  Matches(rule, s) <=> Occurs(rule, s)
<1> DEFINE ops == rule.ops
           m == Len(ops)
           n == Len(s)
<1>1. ops \in Seq(Operations) /\ m \in Nat /\ n \in Nat /\ m >= 1
  BY EmptySeq DEF SequenceRules
<1>2. Matches(rule, s) <=> n >= m /\ LastOf(m, s) = ops
  BY DEF Matches
<1>3. ASSUME n >= m, LastOf(m, s) = ops PROVE Occurs(rule, s)
  <2> DEFINE p == [i \in 1..m |-> n - m + i]
  <2>1. p \in [1..m -> 1..n]
    BY <1>1, <1>3
  <2>4. \A i \in 1..m : p[i] = n - m + i
    OBVIOUS
  <2> HIDE DEF p
  <2>2. \A i, j \in 1..m : i < j => p[i] < p[j]
    <3> TAKE i, j \in 1..m
    <3>1. p[i] = n - m + i /\ p[j] = n - m + j
      BY <2>4
    <3>2. i < j => n - m + i < n - m + j
      <4> SUFFICES ASSUME NEW a \in Int PROVE i < j => a + i < a + j
        BY <1>1, n - m \in Int
      <4>1. i \in Int /\ j \in Int
        BY <1>1
      <4> QED
        BY <4>1
    <3> QED
      BY <3>1, <3>2, Zenon
  <2>3. \A i \in 1..m : s[p[i]] = ops[i]
    <3>1. Len(LastOf(m, s)) = m
      BY <1>1, <1>3
    <3>2. \A i \in 1..Len(LastOf(m, s)) : LastOf(m, s)[i] = s[n - Len(LastOf(m, s)) + i]
      BY <1>1, LastOfProperties
    <3>3. \A i \in 1..m : LastOf(m, s)[i] = s[n - m + i]
      BY <3>1, <3>2, Zenon
    <3> QED
      BY <1>3, <2>4, <3>3
  <2> QED
    BY <2>1, <2>2, <2>3, <2>4 DEF Occurs
<1>4. ASSUME Occurs(rule, s) PROVE n >= m /\ LastOf(m, s) = ops
  <2>1. PICK p \in [1..m -> 1..n] :
          \A i \in 1..m : s[p[i]] = ops[i] /\ p[i] = n - m + i
    BY <1>4 DEF Occurs
  <2>2. n >= m
    <3>1. 1 \in 1..m
      BY <1>1
    <3>2. p[1] \in 1..n /\ p[1] = n - m + 1
      BY <2>1, <3>1
    <3> QED
      BY <1>1, <3>2
  <2>3. /\ LastOf(m, s) \in Seq(Operations) /\ Len(LastOf(m, s)) = m
        /\ \A i \in 1..m : LastOf(m, s)[i] = s[n - m + i]
    <3>1. LastOf(m, s) \in Seq(Operations) /\ Len(LastOf(m, s)) = IF n > m THEN m ELSE n
      BY <1>1, LastOfProperties
    <3>2. Len(LastOf(m, s)) = m
      BY <1>1, <2>2, <3>1
    <3>3. \A i \in 1..Len(LastOf(m, s)) : LastOf(m, s)[i] = s[n - Len(LastOf(m, s)) + i]
      BY <1>1, LastOfProperties
    <3>4. \A i \in 1..m : LastOf(m, s)[i] = s[n - m + i]
      BY <3>2, <3>3, Zenon
    <3> QED
      BY <3>1, <3>2, <3>4
  <2>4. \A i \in 1..m : LastOf(m, s)[i] = ops[i]
    BY <2>1, <2>3
  <2> QED
    BY <1>1, <2>2, <2>3, <2>4, SeqEqual
<1> QED
  BY <1>2, <1>3, <1>4

\* For every rule and every sequence, Matches decides whether the rule's
\* operations occur.
LEMMA MatchesDecides ==
  ASSUME NEW rule \in SequenceRules, NEW s \in Seq(Operations)
  PROVE  Matches(rule, s) <=> Occurs(rule, s)
<1>1. CASE rule.consecutive
  BY <1>1, SuffixIsExact
<1>2. CASE ~rule.consecutive
  <2>1. Occurs(rule, s) <=> Embeds(rule.ops, s, Len(rule.ops), Len(s))
    BY <1>2 DEF Occurs, Embeds
  <2> QED
    BY <1>2, <2>1, PassIsExact
<1> QED
  BY <1>1, <1>2

\* The engine's single pass finds every chain and nothing else, for any rules
\* and whatever has been allowed (policy.py: evaluate).
THEOREM Exact == Spec => []MatchesIsExact
<1>1. TypeOK => MatchesIsExact
  <2> SUFFICES ASSUME TypeOK, NEW r \in DOMAIN Rules, NEW o \in Operations
               PROVE  Matches(Rules[r], Append(past, o)) <=> Occurs(Rules[r], Append(past, o))
    BY DEF MatchesIsExact
  <2>1. Append(past, o) \in Seq(Operations)
    BY DEF TypeOK
  <2>2. Rules[r] \in SequenceRules
    BY DEF PolicyConstants
  <2> QED
    BY <2>1, <2>2, MatchesDecides
<1> QED
  BY Invariance, <1>1, PTL DEF IInv

\* What a rule forbids does not happen, in the words of the rule: as long as
\* only the service evaluates, the operations of no rule occur, in their order,
\* in any stretch of the allowed operations that the engine could remember
\* (policy.py's evaluate under control.py's lock).
THEOREM NothingForbiddenOccurs ==
  Spec => [](~gatewayed => \A i \in 1..Len(past), r \in DOMAIN Rules :
                             ~Occurs(Rules[r], Window(i)))
<1>1. IInv => (~gatewayed => \A i \in 1..Len(past), r \in DOMAIN Rules :
                               ~Occurs(Rules[r], Window(i)))
  <2> SUFFICES ASSUME IInv, ~gatewayed, NEW i \in 1..Len(past), NEW r \in DOMAIN Rules
               PROVE  ~Occurs(Rules[r], Window(i))
    OBVIOUS
  <2>1. past \in Seq(Operations)
    BY DEF IInv, TypeOK
  <2>2. SubSeq(past, 1, i) \in Seq(Operations)
    BY <2>1
  <2>3. Window(i) \in Seq(Operations)
    <3> DEFINE s == SubSeq(past, 1, i)
    <3>1. s \in Seq(Operations) /\ HistoryLimit + 1 \in Nat
      BY <2>2 DEF PolicyConstants
    <3> HIDE DEF s
    <3>2. LastOf(HistoryLimit + 1, s) \in Seq(Operations)
      BY <3>1, LastOfProperties
    <3> QED
      BY <3>2 DEF Window, s
  <2>4. ~Matches(Rules[r], Window(i))
    BY DEF IInv, ViewInv, Clean
  <2>5. Rules[r] \in SequenceRules
    BY DEF PolicyConstants
  <2> QED
    BY <2>3, <2>4, <2>5, MatchesDecides
<1> QED
  BY Invariance, <1>1, PTL

-----------------------------------------------------------------------------
(* What the bounded history costs: the engine looks at a part of what was     *)
(* allowed, and the rules speak about all of it.                              *)

\* A place in what is remembered is a place in what was allowed.
LEMMA Remembering ==
  ASSUME NEW s \in Seq(Operations), NEW n \in Nat
  PROVE  LET t == LastOf(n, s)
         IN \E d \in Nat :
              /\ Len(s) = Len(t) + d /\ Len(t) \in Nat
              /\ Len(t) = n \/ d = 0
              /\ \A i \in 1..Len(t) : t[i] = s[d + i]
<1> DEFINE t == LastOf(n, s)
           d == Len(s) - Len(t)
<1>1. /\ t \in Seq(Operations) /\ Len(t) = IF Len(s) > n THEN n ELSE Len(s)
      /\ \A i \in 1..Len(t) : t[i] = s[Len(s) - Len(t) + i]
  BY LastOfProperties
<1>2. Len(s) \in Nat /\ Len(t) \in Nat
  BY <1>1
<1> HIDE DEF t
<1>3. d \in Nat /\ Len(s) = Len(t) + d /\ (Len(t) = n \/ d = 0)
  BY <1>1, <1>2
<1> QED
  BY <1>1, <1>2, <1>3 DEF t

\* Forgetting makes no rule match, and no consecutive rule miss that is not
\* longer than what is remembered (policy.py: evaluate, deque(maxlen)).
LEMMA ForgettingOnlyAllows ==
  ASSUME NEW rule \in SequenceRules, NEW s \in Seq(Operations), NEW n \in Nat
  PROVE  /\ Occurs(rule, LastOf(n, s)) => Occurs(rule, s)
         /\ rule.consecutive /\ Len(rule.ops) <= n =>
              (Occurs(rule, s) => Occurs(rule, LastOf(n, s)))
<1> DEFINE t == LastOf(n, s)
           m == Len(rule.ops)
<1>1. PICK d \in Nat :
        /\ Len(s) = Len(t) + d /\ Len(t) \in Nat
        /\ Len(t) = n \/ d = 0
        /\ \A i \in 1..Len(t) : t[i] = s[d + i]
  BY Remembering
<1>2. m \in Nat \ {0}
  BY EmptySeq DEF SequenceRules
<1> HIDE DEF t, m
<1>3. ASSUME Occurs(rule, t) PROVE Occurs(rule, s)
  <2>1. PICK p \in [1..m -> 1..Len(t)] :
          /\ \A i, j \in 1..m : i < j => p[i] < p[j]
          /\ \A i \in 1..m : t[p[i]] = rule.ops[i]
          /\ rule.consecutive => \A i \in 1..m : p[i] = Len(t) - m + i
    BY <1>3 DEF Occurs, m
  <2> DEFINE q == [i \in 1..m |-> d + p[i]]
  <2>2. \A i \in 1..m : p[i] \in 1..Len(t) /\ q[i] = d + p[i] /\ q[i] \in 1..Len(s)
    BY <1>1, <2>1
  <2>3. q \in [1..m -> 1..Len(s)]
    BY <2>2
  <2> HIDE DEF q
  <2>4. \A i, j \in 1..m : i < j => q[i] < q[j]
    BY <1>1, <2>1, <2>2
  <2>5. \A i \in 1..m : s[q[i]] = rule.ops[i]
    BY <1>1, <2>1, <2>2
  <2>6. rule.consecutive => \A i \in 1..m : q[i] = Len(s) - m + i
    BY <1>1, <1>2, <2>1, <2>2
  <2> QED
    BY <2>3, <2>4, <2>5, <2>6 DEF Occurs, m
<1>4. ASSUME rule.consecutive, m <= n, Occurs(rule, s) PROVE Occurs(rule, t)
  <2>1. PICK p \in [1..m -> 1..Len(s)] :
          /\ \A i \in 1..m : s[p[i]] = rule.ops[i]
          /\ \A i \in 1..m : p[i] = Len(s) - m + i
    BY <1>4 DEF Occurs, m
  <2>2. m <= Len(t)
    <3>1. 1 \in 1..m
      BY <1>2
    <3>2. p[1] \in 1..Len(s) /\ p[1] = Len(s) - m + 1
      BY <2>1, <3>1
    <3> QED
      BY <1>1, <1>2, <1>4, <3>2
  <2> DEFINE q == [i \in 1..m |-> Len(t) - m + i]
  <2>3. \A i \in 1..m : q[i] = Len(t) - m + i /\ q[i] \in 1..Len(t)
    BY <1>1, <1>2, <2>2
  <2>4. q \in [1..m -> 1..Len(t)]
    BY <2>3
  <2> HIDE DEF q
  <2>5. \A i, j \in 1..m : i < j => q[i] < q[j]
    BY <1>1, <1>2, <2>3
  <2>6. \A i \in 1..m : t[q[i]] = rule.ops[i]
    <3> SUFFICES ASSUME NEW i \in 1..m PROVE t[q[i]] = rule.ops[i]
      OBVIOUS
    <3>1. t[q[i]] = s[d + q[i]]
      BY <1>1, <2>3
    <3>2. d + q[i] = p[i]
      BY <1>1, <1>2, <2>1, <2>3
    <3> QED
      BY <2>1, <3>1, <3>2
  <2> QED
    BY <2>3, <2>4, <2>5, <2>6 DEF Occurs, m
<1> QED
  BY <1>3, <1>4 DEF t, m

\* Fewer places than a chain has operations cannot be told apart by it.
LEMMA TooFewPlaces ==
  ASSUME NEW m \in Nat, NEW n \in Nat, n < m, NEW p \in [1..m -> 1..n]
  PROVE  \E i, j \in 1..m : i # j /\ p[i] = p[j]
<1>1. ASSUME NEW k \in Nat PROVE IsFiniteSet(1..k) /\ Cardinality(1..k) = k
  <2>1. 1 \in Int /\ k \in Int
    OBVIOUS
  <2>2. IsFiniteSet(1..k) /\ Cardinality(1..k) = IF 1 > k THEN 0 ELSE k - 1 + 1
    BY <2>1, FS_Interval, Zenon
  <2> QED
    BY <2>2
<1>2. /\ IsFiniteSet(1..m) /\ IsFiniteSet(1..n)
      /\ Cardinality(1..n) < Cardinality(1..m)
  BY <1>1
<1> DEFINE S == 1..m
           T == 1..n
<1>3. IsFiniteSet(S) /\ IsFiniteSet(T) /\ Cardinality(T) < Cardinality(S)
  BY <1>2
<1> HIDE DEF S, T
<1>4. \A f \in [S -> T] : \E x, y \in S : x # y /\ f[x] = f[y]
  BY <1>3, Crowded
<1> QED
  BY <1>4 DEF S, T

\* A chain does not occur in fewer operations than it has.
LEMMA TooShort ==
  ASSUME NEW rule \in SequenceRules, NEW s \in Seq(Operations), Len(s) < Len(rule.ops)
  PROVE  ~Occurs(rule, s)
<1> SUFFICES ASSUME NEW p \in [1..Len(rule.ops) -> 1..Len(s)],
                    \A i, j \in 1..Len(rule.ops) : i < j => p[i] < p[j]
             PROVE  FALSE
  BY DEF Occurs
<1>1. Len(s) \in Nat /\ Len(rule.ops) \in Nat
  BY DEF SequenceRules
<1>2. PICK i \in 1..Len(rule.ops), j \in 1..Len(rule.ops) : i # j /\ p[i] = p[j]
  BY <1>1, TooFewPlaces
<1>3. p[i] \in Int /\ (i < j \/ j < i)
  BY <1>1, <1>2
<1> QED
  BY <1>2, <1>3

\* As long as only the service evaluates: a consecutive chain that is at most
\* one operation longer than the history never ends anywhere in all that was
\* ever allowed, and no chain at all does before the history overflows; what a
\* longer past can hide is the beginning of a chain with gaps (policy.py:
\* evaluate, deque(maxlen)).
THEOREM OnlyGapsAreForgotten ==
  Spec => [](~gatewayed =>
    \A i \in 1..Len(past), r \in DOMAIN Rules :
      \/ i <= HistoryLimit + 1
      \/ Rules[r].consecutive /\ Len(Rules[r].ops) <= HistoryLimit + 1
      => ~Occurs(Rules[r], SubSeq(past, 1, i)))
<1> DEFINE Complete ==
      ~gatewayed =>
        \A i \in 1..Len(past), r \in DOMAIN Rules :
          \/ i <= HistoryLimit + 1
          \/ Rules[r].consecutive /\ Len(Rules[r].ops) <= HistoryLimit + 1
          => ~Occurs(Rules[r], SubSeq(past, 1, i))
<1>1. ASSUME IInv,
             ~gatewayed => \A i \in 1..Len(past), r \in DOMAIN Rules :
                             ~Occurs(Rules[r], Window(i))
      PROVE  Complete
  <2> SUFFICES ASSUME ~gatewayed, NEW i \in 1..Len(past), NEW r \in DOMAIN Rules,
                      \/ i <= HistoryLimit + 1
                      \/ Rules[r].consecutive /\ Len(Rules[r].ops) <= HistoryLimit + 1
               PROVE  ~Occurs(Rules[r], SubSeq(past, 1, i))
    OBVIOUS
  <2> DEFINE s == SubSeq(past, 1, i)
  <2>1. past \in Seq(Operations) /\ Rules[r] \in SequenceRules /\ HistoryLimit + 1 \in Nat
    BY <1>1 DEF IInv, TypeOK, PolicyConstants
  <2>2. s \in Seq(Operations) /\ Len(s) = i
    BY <2>1
  <2>3. ~Occurs(Rules[r], LastOf(HistoryLimit + 1, s))
    BY <1>1 DEF Window
  <2> HIDE DEF s
  <2>4. CASE i <= HistoryLimit + 1
    <3>1. LastOf(HistoryLimit + 1, s) = SubSeq(s, 1, Len(s))
      BY <2>1, <2>2, <2>4 DEF LastOf
    <3>2. LastOf(HistoryLimit + 1, s) = s
      BY <2>2, <3>1, SubSeqFull
    <3> QED
      BY <2>3, <3>2 DEF s
  <2>5. CASE Rules[r].consecutive /\ Len(Rules[r].ops) <= HistoryLimit + 1
    <3>1. Occurs(Rules[r], s) => Occurs(Rules[r], LastOf(HistoryLimit + 1, s))
      BY <2>1, <2>2, <2>5, ForgettingOnlyAllows
    <3> QED
      BY <2>3, <3>1 DEF s
  <2> QED
    BY <2>4, <2>5
<1>2. IInv /\ (~gatewayed => \A i \in 1..Len(past), r \in DOMAIN Rules :
                               ~Occurs(Rules[r], Window(i)))
      => Complete
  BY <1>1
<1> HIDE DEF Complete
<1>3. Spec => []Complete
  BY Invariance, NothingForbiddenOccurs, <1>2, PTL
<1> QED
  BY <1>3 DEF Complete

\* A rule that is longer than the history and the next operation together
\* refuses nothing, whatever was allowed (policy.py: evaluate, deque(maxlen)).
THEOREM LongRulesRefuseNothing ==
  Spec => [](\A r \in DOMAIN Rules, o \in Operations :
               Len(Rules[r].ops) > HistoryLimit + 1 => ~Matches(Rules[r], Append(history, o)))
<1>1. ASSUME IInv, NEW r \in DOMAIN Rules, NEW o \in Operations,
             Len(Rules[r].ops) > HistoryLimit + 1
      PROVE  ~Matches(Rules[r], Append(history, o))
  <2>1. past \in Seq(Operations) /\ history = LastOf(HistoryLimit, past)
        /\ Rules[r] \in SequenceRules /\ HistoryLimit \in Nat
    BY <1>1 DEF IInv, TypeOK, HistoryInv, PolicyConstants
  <2>2. history \in Seq(Operations) /\ Len(history) <= HistoryLimit
    BY <2>1, LastOfProperties
  <2>3. Append(history, o) \in Seq(Operations) /\ Len(Append(history, o)) = Len(history) + 1
        /\ Len(history) \in Nat
    BY <2>2
  <2>4. Len(Rules[r].ops) \in Nat
    BY <2>1 DEF SequenceRules
  <2>5. Len(Append(history, o)) < Len(Rules[r].ops)
    BY <1>1, <2>1, <2>2, <2>3, <2>4
  <2> HIDE DEF Matches, Occurs
  <2> QED
    BY <2>1, <2>3, <2>5, TooShort, MatchesDecides
<1>2. IInv => \A r \in DOMAIN Rules, o \in Operations :
                Len(Rules[r].ops) > HistoryLimit + 1 => ~Matches(Rules[r], Append(history, o))
  BY <1>1
<1> QED
  BY Invariance, <1>2, PTL

=============================================================================
