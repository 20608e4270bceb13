---------------------------- MODULE PolicyEngine ----------------------------
(***************************************************************************)
(* PolicyEngine.evaluate: what an action is answered, given the operations *)
(* the engine remembers.  A rule forbids an ordered sequence of operations *)
(* as a subsequence or, when `consecutive', as a suffix of what would have *)
(* been allowed with the action included.                                  *)
(***************************************************************************)
EXTENDS Integers, Sequences

CONSTANTS
  Operations,
  Denied,         \* operations refused whatever came before
  OperationRisk,  \* the controller's own risk of each operation
  MaxRisk,
  Rules,          \* a sequence of records [ops, consecutive, decision]
  HistoryLimit    \* how many allowed operations the engine remembers

Decisions == {"ALLOW", "DENY", "PAUSE", "HALT", "CONTAIN"}

SequenceRules ==
  [ops : Seq(Operations) \ {<< >>}, consecutive : BOOLEAN, decision : Decisions \ {"ALLOW"}]

ASSUME PolicyConstants ==
  /\ OperationRisk \in [Operations -> 0..100] /\ MaxRisk \in 0..100
  /\ Rules \in Seq(SequenceRules)
  /\ HistoryLimit \in Nat \ {0}

\* The last n elements of s: a deque(maxlen=n) that s was appended to.
LastOf(n, s) == SubSeq(s, IF Len(s) > n THEN Len(s) - n + 1 ELSE 1, Len(s))

SlipMatches(rule, s) ==  \* an unrelated operation resets the chain
  IF rule.consecutive
  THEN Len(s) >= Len(rule.ops) /\ LastOf(Len(rule.ops), s) = rule.ops
  ELSE LET found[i \in 0..Len(s)] ==
             IF i = 0 THEN 0
             ELSE LET n == found[i-1]
                  IN IF n < Len(rule.ops) /\ s[i] = rule.ops[n+1] THEN n + 1
                     ELSE IF n < Len(rule.ops) THEN 0 ELSE n
       IN found[Len(s)] = Len(rule.ops)

\* One pass over s that looks for the rule's operations in turn.
Matches(rule, s) ==
  IF rule.consecutive
  THEN Len(s) >= Len(rule.ops) /\ LastOf(Len(rule.ops), s) = rule.ops
  ELSE LET found[i \in 0..Len(s)] ==
             IF i = 0 THEN 0
             ELSE LET n == found[i-1]
                  IN IF n < Len(rule.ops) /\ s[i] = rule.ops[n+1] THEN n + 1 ELSE n
       IN found[Len(s)] = Len(rule.ops)

\* The caller's risk cannot lower the controller's.
TooRisky(op, risk) == risk >= MaxRisk \/ OperationRisk[op] >= MaxRisk

\* The rules that the action would complete.
Matching(op, history) == {i \in DOMAIN Rules : Matches(Rules[i], Append(history, op))}

Allowed(op, risk, history) ==
  op \notin Denied /\ ~TooRisky(op, risk) /\ Matching(op, history) = {}

\* What any other action is answered; the first rule that matches decides.
Refusal(op, risk, history) ==
  LET first == CHOOSE i \in Matching(op, history) : \A j \in Matching(op, history) : i <= j
  IN IF op \in Denied \/ TooRisky(op, risk) THEN "HALT" ELSE Rules[first].decision

\* What the engine remembers after it has allowed op.
Remembered(history, op) == LastOf(HistoryLimit, Append(history, op))

(***************************************************************************)
(* The reference: a rule's operations occur in s, in this order.           *)
(***************************************************************************)
Occurs(rule, s) ==
  LET Places == {p \in [1..Len(rule.ops) -> 1..Len(s)] :
                   \A i, j \in 1..Len(rule.ops) : i < j => p[i] < p[j]}
  IN \E p \in Places :
       /\ \A i \in 1..Len(rule.ops) : s[p[i]] = rule.ops[i]
       /\ rule.consecutive => \A i \in 1..Len(rule.ops) : p[i] = Len(s) - Len(rule.ops) + i
=============================================================================
