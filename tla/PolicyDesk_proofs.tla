--------------------------- MODULE PolicyDesk_proofs ---------------------------
(* Versions, edits and decisions of the policy console, for any admins, rules, edits
   and facts. *)
EXTENDS PolicyDesk, WellFoundedInduction, TLAPS

----------------------------------------------------------------------------
(* The engine *)

(* A set of numbers has a smallest. *)
LEMMA Smallest ==
    ASSUME NEW S, S \subseteq Nat, S # {}
    PROVE  \E m \in S : \A n \in S : m <= n
<1> DEFINE less == OpToRel(<, Nat)
<1>1. PICK m \in S : \A n \in S : <<n, m>> \notin less
  BY NatLessThanWellFounded, WFMin
<1>2. \A n \in S : ~(n < m)
  BY <1>1 DEF OpToRel
<1> QED
  BY <1>2

(* The first condition that does not hold is there if any does not. *)
LEMMA VerdictOfRule ==
    ASSUME NEW r, r.conditions \in Seq(Condition), NEW world
    PROVE  /\ MatchRule(r, world) = "match" =>
                /\ Restrictiveness(r.outcome) # -1
                /\ \A i \in DOMAIN r.conditions : ConditionVerdict(r.conditions[i], world) = "match"
           /\ Restrictiveness(r.outcome) # -1 =>
                IF \A i \in DOMAIN r.conditions : ConditionVerdict(r.conditions[i], world) = "match"
                THEN MatchRule(r, world) = "match"
                ELSE \E i \in DOMAIN r.conditions :
                       /\ ConditionVerdict(r.conditions[i], world) # "match"
                       /\ MatchRule(r, world) = ConditionVerdict(r.conditions[i], world)
<1> DEFINE Ends == {i \in DOMAIN r.conditions : ConditionVerdict(r.conditions[i], world) # "match"}
<1>1. Ends \subseteq Nat
  OBVIOUS
<1>2. CASE Restrictiveness(r.outcome) = -1
  BY <1>2 DEF MatchRule
<1>3. CASE Restrictiveness(r.outcome) # -1 /\ Ends = {}
  BY <1>3 DEF MatchRule
<1>4. CASE Restrictiveness(r.outcome) # -1 /\ Ends # {}
  <2>1. \E i \in Ends : \A j \in Ends : i <= j
    BY <1>1, <1>4, Smallest
  <2> DEFINE first == CHOOSE i \in Ends : \A j \in Ends : i <= j
  <2>2. first \in Ends
    BY <2>1
  <2>3. MatchRule(r, world) = ConditionVerdict(r.conditions[first], world)
    BY <1>4 DEF MatchRule
  <2> HIDE DEF first
  <2> QED
    BY <1>4, <2>2, <2>3
<1> QED
  BY <1>2, <1>3, <1>4

LEMMA OnLadder ==
    ASSUME NEW outcome
    PROVE  Restrictiveness(outcome) # -1 <=> outcome \in OutcomeLadder
BY DEF Restrictiveness, OutcomeLadder

(* What an author may save can be evaluated on any facts that are known. *)
LEMMA ValidCanBeEvaluated ==
    ASSUME NEW r, r.conditions \in Seq(Condition), ValidDefinition(r),
           NEW world, \A field \in ConditionFields : Knows(world, field)
    PROVE  MatchRule(r, world) \in {"match", "no-match"}
<1>1. ASSUME NEW i \in DOMAIN r.conditions
      PROVE  ConditionVerdict(r.conditions[i], world) \in {"match", "no-match"}
  <2> DEFINE c == r.conditions[i]
  <2>1. c \in Condition /\ ~ConditionRejected(c)
    <3>1. r.conditions[i] \in Condition
      OBVIOUS
    <3>2. ~ConditionRejected(r.conditions[i])
      BY SMTT(30) DEF ValidDefinition
    <3> QED
      BY <3>1, <3>2
  <2> HIDE DEF c
  <2>2. /\ c.field \in ConditionFields /\ c.op \in Operators(c.field)
        /\ c.field \in IntFields => c.value.shape = "number"
        /\ c.field \in EnumFields /\ c.op \in {"in", "nin"} => c.value.shape = "list"
    BY <2>1 DEF ConditionRejected
  <2>3. Comparable(c.op, c.value)
    <3>1. CASE c.field \in EnumFields
      BY <2>2, <3>1 DEF Comparable, Operators, EnumFields
    <3>2. CASE c.field \in IntFields
      BY <2>2, <3>2 DEF Comparable, Operators, IntFields
    <3> QED
      BY <2>2, <3>1, <3>2 DEF ConditionFields
  <2>4. Knows(world, c.field)
    BY <2>2
  <2>5. ConditionVerdict(c, world) \in {"match", "no-match"}
    BY <2>2, <2>3, <2>4 DEF ConditionVerdict
  <2> QED
    BY <2>5 DEF c
<1>2. Restrictiveness(r.outcome) # -1
  <2>1. r.outcome \in OutcomeLadder
    BY SMTT(30) DEF ValidDefinition
  <2> QED
    BY <2>1, OnLadder
<1> QED
  BY <1>1, <1>2, VerdictOfRule

(* The strictest outcome is one of the ladder, some rule has it and none is above. *)
LEMMA StrictestIsThere ==
    ASSUME NEW rules, rules # {}, \A r \in rules : r.outcome \in OutcomeLadder
    PROVE  /\ Strictest(rules) \in OutcomeLadder
           /\ \E a \in rules : a.outcome = Strictest(rules)
           /\ \A b \in rules : Restrictiveness(b.outcome) <= Restrictiveness(Strictest(rules))
<1> DEFINE Tops(o) == /\ \E a \in rules : a.outcome = o
                      /\ \A b \in rules : Restrictiveness(b.outcome) <= Restrictiveness(o)
<1>1. \E o \in OutcomeLadder : Tops(o)
  <2>1. CASE \E a \in rules : a.outcome = "refuse"
    <3>1. Tops("refuse")
      BY <2>1 DEF OutcomeLadder, Restrictiveness
    <3> QED
      BY <3>1 DEF OutcomeLadder
  <2>2. CASE (\E a \in rules : a.outcome = "agent-only") /\ \A a \in rules : a.outcome # "refuse"
    <3>1. Tops("agent-only")
      BY <2>2 DEF OutcomeLadder, Restrictiveness
    <3> QED
      BY <3>1 DEF OutcomeLadder
  <2>3. CASE /\ \E a \in rules : a.outcome = "confirm-required"
             /\ \A a \in rules : a.outcome \notin {"refuse", "agent-only"}
    <3>1. Tops("confirm-required")
      BY <2>3 DEF OutcomeLadder, Restrictiveness
    <3> QED
      BY <3>1 DEF OutcomeLadder
  <2>4. CASE \A a \in rules : a.outcome = "auto-execute"
    <3>1. Tops("auto-execute")
      BY <2>4 DEF OutcomeLadder, Restrictiveness
    <3> QED
      BY <3>1 DEF OutcomeLadder
  <2> QED
    BY <2>1, <2>2, <2>3, <2>4 DEF OutcomeLadder
<1>2. Strictest(rules) = CHOOSE o \in OutcomeLadder : Tops(o)
  BY DEF Strictest
<1> HIDE DEF Tops
<1>3. Strictest(rules) \in OutcomeLadder /\ Tops(Strictest(rules))
  BY <1>1, <1>2
<1> QED
  BY <1>3 DEF Tops

LEMMA StatusConditions ==
    ASSUME NEW op \in {"eq", "in"}, NEW shape \in {"text", "list"}, NEW statuses \in SUBSET OrderStatus
    PROVE  [field |-> "order.status", op |-> op,
            value |-> [shape |-> shape, texts |-> statuses, number |-> 0]] \in Condition
<1>1. statuses \in SUBSET Text /\ op \in Text /\ "order.status" \in Text
  BY TextAssumption DEF ConditionFields, EnumFields
<1>2. [shape |-> shape, texts |-> statuses, number |-> 0]
        \in [shape : {"text", "list", "number"}, texts : SUBSET Text, number : Int]
  BY <1>1
<1> QED
  BY <1>1, <1>2 DEF Condition

LEMMA IdOfStatusRule ==
    ASSUME NEW key, NEW priority, NEW op, NEW shape, NEW statuses, NEW outcome
    PROVE  StatusRule(key, priority, op, shape, statuses, outcome).id = key
BY DEF StatusRule

(* The platform has a rule for every status. *)
LEMMA BaselineRulesAreRules ==
    /\ BaselineRules \subseteq RuleRow
    /\ \A b \in BaselineRules :
         /\ b.scope = "baseline" /\ b.version = 1 /\ b.createdBy = 0 /\ b.active
         /\ b.id \in 1..4 /\ b.ruleKey = b.id
         /\ ValidDefinition(b)
         /\ Len(b.conditions) = 1
    /\ \A b, c \in BaselineRules : b.id = c.id => b = c
<1> SUFFICES ASSUME NEW b \in BaselineRules
             PROVE  /\ b \in RuleRow
                    /\ b.scope = "baseline" /\ b.version = 1 /\ b.createdBy = 0 /\ b.active
                    /\ b.id \in 1..4 /\ b.ruleKey = b.id
                    /\ ValidDefinition(b)
                    /\ Len(b.conditions) = 1
                    /\ \A c \in BaselineRules : b.id = c.id => b = c
  OBVIOUS
<1> DEFINE Sound == /\ b \in RuleRow
                    /\ b.scope = "baseline" /\ b.version = 1 /\ b.createdBy = 0 /\ b.active
                    /\ b.id \in 1..4 /\ b.ruleKey = b.id
                    /\ ValidDefinition(b)
                    /\ Len(b.conditions) = 1
<1>1. ASSUME NEW key \in 1..4, NEW priority \in {10, 20, 100}, NEW statuses \in SUBSET OrderStatus,
             NEW op, NEW shape, NEW outcome \in {"refuse", "agent-only", "confirm-required"},
             \/ op = "eq" /\ shape = "text"
             \/ op = "in" /\ shape = "list" /\ statuses # {},
             b = StatusRule(key, priority, op, shape, statuses, outcome)
      PROVE  Sound
  <2> DEFINE c == [field |-> "order.status", op |-> op,
                   value |-> [shape |-> shape, texts |-> statuses, number |-> 0]]
  <2>1. c \in Condition
    BY <1>1, StatusConditions
  <2>2. ~ConditionRejected(c)
    BY <1>1 DEF ConditionRejected, ConditionFields, EnumFields, IntFields, Operators
  <2>3. b.conditions = <<c>> /\ b.message = "plain" /\ b.outcome = outcome /\ b.priority = priority
    BY <1>1 DEF StatusRule
  <2> HIDE DEF c
  <2>4. <<c>> \in Seq(Condition) /\ Len(<<c>>) = 1 /\ DOMAIN <<c>> = {1} /\ <<c>>[1] = c
    BY <2>1
  <2>5. ValidDefinition(b)
    BY <2>2, <2>3, <2>4 DEF ValidDefinition, OutcomeLadder
  <2>6. b = [id |-> key, scope |-> "baseline", ruleKey |-> key, version |-> 1, active |-> TRUE,
             priority |-> priority, outcome |-> outcome, message |-> "plain", createdBy |-> 0,
             conditions |-> <<c>>]
    BY <1>1 DEF StatusRule, c
  <2>7. b \in RuleRow
    <3>1. key \in Nat /\ priority \in Nat /\ <<c>> \in Seq(Condition)
      BY <2>4
    <3>2. outcome \in Text /\ "plain" \in Text
      BY TextAssumption DEF OutcomeLadder
    <3> QED
      BY <2>6, <3>1, <3>2 DEF RuleRow
  <2> QED
    BY <2>3, <2>4, <2>5, <2>6, <2>7
<1>2. \/ b = StatusRule(1, 10, "eq", "text", {"cancelled"}, "refuse")
      \/ b = StatusRule(2, 10, "eq", "text", {"delivered"}, "refuse")
      \/ b = StatusRule(3, 20, "eq", "text", {"dispatched"}, "agent-only")
      \/ b = StatusRule(4, 100, "in", "list", {"placed", "paid", "packed"}, "confirm-required")
  BY DEF BaselineRules
<1>3. \A c \in BaselineRules : b.id = c.id => b = c
  BY IdOfStatusRule DEF BaselineRules
<1>4. /\ {"cancelled"} \in SUBSET OrderStatus /\ {"delivered"} \in SUBSET OrderStatus
      /\ {"dispatched"} \in SUBSET OrderStatus /\ {"placed", "paid", "packed"} \in SUBSET OrderStatus
  BY DEF OrderStatus
<1> HIDE DEF Sound
<1>5. Sound
  <2>1. CASE b = StatusRule(1, 10, "eq", "text", {"cancelled"}, "refuse")
    BY <1>1, <1>4, <2>1
  <2>2. CASE b = StatusRule(2, 10, "eq", "text", {"delivered"}, "refuse")
    BY <1>1, <1>4, <2>2
  <2>3. CASE b = StatusRule(3, 20, "eq", "text", {"dispatched"}, "agent-only")
    BY <1>1, <1>4, <2>3
  <2>4. CASE b = StatusRule(4, 100, "in", "list", {"placed", "paid", "packed"}, "confirm-required")
    BY <1>1, <1>4, <2>4
  <2> QED
    BY <1>2, <2>1, <2>2, <2>3, <2>4
<1> QED
  BY <1>3, <1>5 DEF Sound

LEMMA BaselineMatches ==
    ASSUME NEW world, world.status \in OrderStatus, Knows(world, "order.status")
    PROVE  \E b \in BaselineRules : MatchRule(b, world) = "match"
<1>1. ASSUME NEW key, NEW priority, NEW statuses \in SUBSET OrderStatus, NEW op, NEW shape,
             NEW outcome \in {"refuse", "agent-only", "confirm-required"},
             \/ op = "eq" /\ shape = "text" /\ statuses = {world.status}
             \/ op = "in" /\ shape = "list" /\ world.status \in statuses
      PROVE  MatchRule(StatusRule(key, priority, op, shape, statuses, outcome), world) = "match"
  <2> DEFINE c == [field |-> "order.status", op |-> op,
                   value |-> [shape |-> shape, texts |-> statuses, number |-> 0]]
             b == StatusRule(key, priority, op, shape, statuses, outcome)
  <2>1. c \in Condition
    BY <1>1, StatusConditions
  <2>2. Holds(c, world)
    BY <1>1 DEF Holds, EnumFields, CompareText, ResolveText
  <2>3. ConditionVerdict(c, world) = "match"
    BY <1>1, <2>2 DEF ConditionVerdict, ConditionFields, EnumFields, Operators, Comparable
  <2>4. b.conditions = <<c>> /\ b.outcome = outcome
    BY DEF StatusRule
  <2> HIDE DEF c, b
  <2>5. <<c>> \in Seq(Condition) /\ DOMAIN <<c>> = {1} /\ <<c>>[1] = c
    BY <2>1
  <2>6. Restrictiveness(b.outcome) # -1
    BY <1>1, <2>4 DEF Restrictiveness
  <2>7. /\ b.conditions \in Seq(Condition)
        /\ \A i \in DOMAIN b.conditions : ConditionVerdict(b.conditions[i], world) = "match"
    BY <2>3, <2>4, <2>5
  <2>8. MatchRule(b, world) = "match"
    BY <2>6, <2>7, VerdictOfRule
  <2> QED
    BY <2>8 DEF b
<1>2. CASE world.status = "cancelled"
  <2>1. MatchRule(StatusRule(1, 10, "eq", "text", {"cancelled"}, "refuse"), world) = "match"
    BY <1>1, <1>2 DEF OrderStatus
  <2> QED
    BY <2>1 DEF BaselineRules
<1>3. CASE world.status = "delivered"
  <2>1. MatchRule(StatusRule(2, 10, "eq", "text", {"delivered"}, "refuse"), world) = "match"
    BY <1>1, <1>3 DEF OrderStatus
  <2> QED
    BY <2>1 DEF BaselineRules
<1>4. CASE world.status = "dispatched"
  <2>1. MatchRule(StatusRule(3, 20, "eq", "text", {"dispatched"}, "agent-only"), world) = "match"
    BY <1>1, <1>4 DEF OrderStatus
  <2> QED
    BY <2>1 DEF BaselineRules
<1>5. CASE world.status \in {"placed", "paid", "packed"}
  <2>1. MatchRule(StatusRule(4, 100, "in", "list", {"placed", "paid", "packed"}, "confirm-required"), world) = "match"
    BY <1>1, <1>5 DEF OrderStatus
  <2> QED
    BY <2>1 DEF BaselineRules
<1> QED
  BY <1>2, <1>3, <1>4, <1>5 DEF OrderStatus

Matches(rules, world) == {r \in rules : r.active /\ MatchRule(r, world) = "match"}

Unevaluable(rules, world) ==
    {r \in rules : r.active /\ MatchRule(r, world) \in {"incomplete", "invalid"}}

(* The outcome of an evaluation, without the rule it is owed to. *)
LEMMA OutcomeOf ==
    ASSUME NEW rules, NEW world
    PROVE  LET d == Evaluate(rules, world)
           IN  IF Unevaluable(rules, world) # {} \/ Matches(rules, world) = {}
               THEN d.outcome = "agent-only" /\ d.defaulted
               ELSE d.outcome = Clamp(Strictest(Matches(rules, world))) /\ ~d.defaulted
<1>1. {r \in {x \in rules : x.active} : MatchRule(r, world) = "match"} = Matches(rules, world)
  BY DEF Matches
<1>2. {r \in {x \in rules : x.active} : MatchRule(r, world) \in {"incomplete", "invalid"}}
        = Unevaluable(rules, world)
  BY DEF Unevaluable
<1> QED
  BY <1>1, <1>2 DEF Evaluate, FailClosed, Decided

(* What the rules added to the platform's can do to a decision. *)
LEMMA AddedRulesAreStricter ==
    ASSUME NEW rules, BaselineRules \subseteq rules, rules \subseteq RuleRow,
           NEW world, world.status \in OrderStatus,
           \A field \in ConditionFields : Knows(world, field)
    PROVE  LET d == Evaluate(rules, world)
               b == Evaluate(BaselineRules, world)
           IN  /\ d.outcome # "auto-execute"
               /\ d.outcome = "confirm-required" => b.outcome = "confirm-required"
               /\ ~d.defaulted => Restrictiveness(d.outcome) >= Restrictiveness(b.outcome)
               /\ d.defaulted => \E r \in rules : r.active /\ ~ValidDefinition(r)
<1> DEFINE d == Evaluate(rules, world)
           b == Evaluate(BaselineRules, world)
           top == Strictest(Matches(rules, world))
           low == Strictest(Matches(BaselineRules, world))
<1>1. Unevaluable(BaselineRules, world) = {}
  <2>1. \A r \in BaselineRules : MatchRule(r, world) \in {"match", "no-match"}
    BY BaselineRulesAreRules, ValidCanBeEvaluated DEF RuleRow
  <2> QED
    BY <2>1 DEF Unevaluable
<1>2. Matches(BaselineRules, world) # {} /\ Matches(BaselineRules, world) \subseteq Matches(rules, world)
  <2>1. Knows(world, "order.status")
    BY DEF ConditionFields, EnumFields
  <2> QED
    BY <2>1, BaselineMatches, BaselineRulesAreRules DEF Matches
<1>3. \A r \in Matches(rules, world) : r.outcome \in OutcomeLadder
  BY VerdictOfRule, OnLadder DEF Matches, RuleRow
<1>4. /\ top \in OutcomeLadder
      /\ \A r \in Matches(rules, world) : Restrictiveness(r.outcome) <= Restrictiveness(top)
  BY <1>2, <1>3, StrictestIsThere
<1>5. low \in OutcomeLadder /\ \E r \in Matches(rules, world) : r.outcome = low
  BY <1>2, <1>3, StrictestIsThere
<1>6. b.outcome = Clamp(low) /\ ~b.defaulted
  BY <1>1, <1>2, OutcomeOf
<1>7. IF Unevaluable(rules, world) # {} THEN d.outcome = "agent-only" /\ d.defaulted
      ELSE d.outcome = Clamp(top) /\ ~d.defaulted
  BY <1>2, OutcomeOf
<1>8. Restrictiveness(low) <= Restrictiveness(top)
  BY <1>4, <1>5
<1> HIDE DEF d, b, top, low
<1>9. d.outcome # "auto-execute"
  BY <1>7 DEF Clamp
<1>10. d.outcome = "confirm-required" => b.outcome = "confirm-required"
  BY <1>4, <1>5, <1>6, <1>7, <1>8 DEF Clamp, Restrictiveness, OutcomeLadder
<1>11. ~d.defaulted => Restrictiveness(d.outcome) >= Restrictiveness(b.outcome)
  BY <1>4, <1>5, <1>6, <1>7, <1>8 DEF Clamp, Restrictiveness, OutcomeLadder
<1>12. d.defaulted => \E r \in rules : r.active /\ ~ValidDefinition(r)
  <2> SUFFICES ASSUME d.defaulted PROVE \E r \in rules : r.active /\ ~ValidDefinition(r)
    OBVIOUS
  <2>1. PICK r \in rules : r.active /\ MatchRule(r, world) \in {"incomplete", "invalid"}
    BY <1>7 DEF Unevaluable
  <2>2. ~ValidDefinition(r)
    BY <2>1, ValidCanBeEvaluated DEF RuleRow
  <2> QED
    BY <2>1, <2>2
<1> QED
  BY <1>9, <1>10, <1>11, <1>12 DEF d, b
(* Of rules with ids of their own one precedes all others. *)
LEMMA FirstIsThere ==
    ASSUME NEW rules, rules # {}, rules \subseteq RuleRow, NEW top \in Nat,
           \A r \in rules : r.version <= top,
           \A r, s \in rules : r.id = s.id => r = s
    PROVE  First(rules) \in rules
<1>1. \A r \in rules : r.priority \in Nat /\ r.ruleKey \in Nat /\ r.version \in Nat /\ r.id \in Nat
  BY DEF RuleRow
<1>2. PICK p \in rules : \A r \in rules : p.priority <= r.priority
  <2> DEFINE S == {r.priority : r \in rules}
  <2>1. S \subseteq Nat /\ S # {}
    BY <1>1
  <2> HIDE DEF S
  <2>2. PICK m \in S : \A n \in S : m <= n
    BY <2>1, Smallest
  <2> QED
    BY <2>2 DEF S
<1> DEFINE A == {r \in rules : r.priority = p.priority}
<1>3. PICK k \in A : \A r \in A : k.ruleKey <= r.ruleKey
  <2> DEFINE S == {r.ruleKey : r \in A}
  <2>1. S \subseteq Nat /\ S # {}
    BY <1>1
  <2> HIDE DEF S
  <2>2. PICK m \in S : \A n \in S : m <= n
    BY <2>1, Smallest
  <2> QED
    BY <2>2 DEF S
<1> DEFINE B == {r \in A : r.ruleKey = k.ruleKey}
<1>4. PICK v \in B : \A r \in B : r.version <= v.version
  <2> DEFINE S == {top - r.version : r \in B}
  <2>1. S \subseteq Nat /\ S # {}
    BY <1>1
  <2>2. PICK m \in S : \A n \in S : m <= n
    <3> HIDE DEF S
    <3> QED
      BY <2>1, Smallest
  <2>3. PICK b \in B : m = top - b.version
    OBVIOUS
  <2>4. \A r \in B : top - b.version <= top - r.version
    BY <2>2, <2>3
  <2> QED
    BY <1>1, <2>4
<1> DEFINE C == {r \in B : r.version = v.version}
<1>5. PICK i \in C : \A r \in C : i.id <= r.id
  <2> DEFINE S == {r.id : r \in C}
  <2>1. S \subseteq Nat /\ S # {}
    BY <1>1
  <2> HIDE DEF S
  <2>2. PICK m \in S : \A n \in S : m <= n
    BY <2>1, Smallest
  <2> QED
    BY <2>2 DEF S
<1>6. i \in rules /\ i.priority = p.priority /\ i.ruleKey = k.ruleKey /\ i.version = v.version
  OBVIOUS
<1>7. ASSUME NEW b \in rules PROVE i = b \/ Precedes(i, b)
  <2>1. CASE b \notin A
    BY <1>1, <1>2, <1>6, <2>1 DEF Precedes
  <2>2. CASE b \in A /\ b \notin B
    BY <1>1, <1>3, <1>6, <2>2 DEF Precedes
  <2>3. CASE b \in B /\ b \notin C
    BY <1>1, <1>4, <1>6, <2>3 DEF Precedes
  <2>4. CASE b \in C
    BY <1>1, <1>5, <1>6, <2>4 DEF Precedes
  <2> QED
    BY <2>1, <2>2, <2>3, <2>4
<1> QED
  BY <1>6, <1>7 DEF First

----------------------------------------------------------------------------
(* The inductive invariant *)

(* One version of a rule: only its flag may differ. *)
SameVersion(r, s) ==
    /\ r.id = s.id /\ r.scope = s.scope /\ r.ruleKey = s.ruleKey /\ r.version = s.version
    /\ r.priority = s.priority /\ r.outcome = s.outcome /\ r.message = s.message
    /\ r.createdBy = s.createdBy /\ r.conditions = s.conditions

SameKey(r, s) == r.scope = s.scope /\ r.ruleKey = s.ruleKey

(* Ids come with the requests that made a row, versions one after the other. *)
RuleAgrees(r) ==
    /\ r \in RuleRow
    /\ r.createdBy <= sent /\ r.version <= r.createdBy + 1
    /\ IF r.createdBy = 0 THEN r.id \in 1..10 ELSE r.id = NewId(r.createdBy) /\ ValidDefinition(r)
    /\ r.scope = "baseline" <=> r \in BaselineRules

RulesAgree ==
    /\ BaselineRules \subseteq rule
    /\ \A r \in rule : RuleAgrees(r)
    /\ \A r, s \in rule : r.id = s.id => r = s
    /\ \A r, s \in rule : SameKey(r, s) /\ r.version = s.version => r = s
    /\ \A r, s \in rule : SameKey(r, s) /\ r.active => s.version <= r.version
    /\ \A r \in rule : \A v \in 1..r.version : \E s \in rule : SameKey(r, s) /\ s.version = v

(* A version is as it was inserted until a newer one switches it off. *)
HistoryAgrees ==
    /\ \A w \in written : w.row \in RuleRow /\ w.edited \in Nat
    /\ \A w \in written : \E r \in rule : SameVersion(r, w.row)
    /\ \A r \in rule : \E w \in written :
         /\ SameVersion(r, w.row)
         /\ r.active = w.row.active \/ \E s \in rule : SameKey(r, s) /\ r.version < s.version
    /\ \A v, w \in written : v.row.id = w.row.id => v = w
    /\ \A w \in written : w.edited # 0 => w.row.scope = "tenant"
    /\ NoEditLost

(* What an editor is about to insert is made of the version it was shown. *)
MadeOf(next, edited, change) ==
    \E v \in written :
        /\ v.row.id = edited /\ v.row.scope = "tenant"
        /\ v.row.ruleKey = next.ruleKey /\ v.row.version + 1 = next.version
        /\ \A field \in EditableFields :
             next[field] = IF field \in change.fields THEN change[field] ELSE v.row[field]

ToInsert(next, request) ==
    /\ next \in RuleRow /\ next.scope = "tenant"
    /\ next.id = NewId(request) /\ next.createdBy = request /\ next.version <= request + 1
    /\ ValidDefinition(next)

HandlerRow ==
    [pc : {"idle", "findLatest", "insertVersion", "insertRule", "answer"}, request : Nat,
     change : ChangeBody \union {NoChange}, found : RuleRow \union {NoRule},
     next : RuleRow \union {NoRule}, version : Nat,
     reply : {"none", "saved", "stale", "malformed", "notFound", "forbidden", "fault"}]

HandlerAgrees(q) ==
    /\ q.pc # "idle" => q.request # 0
    /\ q.pc = "findLatest" =>
         /\ q.found \in RuleRow /\ q.found.scope = "tenant" /\ q.found.createdBy < q.request
         /\ q.found.version <= q.found.createdBy + 1 /\ q.change \in ChangeBody
         /\ \E v \in written :
              /\ SameVersion(q.found, v.row)
              /\ q.found.active = v.row.active \/ ~IsNewest(q.found)
    /\ q.pc \in {"insertVersion", "insertRule"} => ToInsert(q.next, q.request)
    /\ q.pc = "insertVersion" => q.found.id \in Nat \ {0} /\ MadeOf(q.next, q.found.id, q.change)
    /\ q.pc = "insertRule" => q.found = NoRule /\ q.next.version = 1
    /\ q.pc \in {"findLatest", "insertVersion", "insertRule"} => RowsBy(q.request) = {}
    /\ q.pc = "answer" => \E w \in RowsBy(q.request) : w.row.version = q.next.version
    /\ q.pc = "idle" /\ q.request > 0 =>
         /\ q.reply = "saved" => \E w \in RowsBy(q.request) : w.row.version = q.version
         /\ q.reply \notin {"saved", "fault"} => RowsBy(q.request) = {}

HandlersAgree ==
    /\ admin \in [Admin -> HandlerRow]
    /\ \A a \in Admin : HandlerAgrees(admin[a]) /\ admin[a].request <= sent
    /\ \A a, b \in Admin : admin[a].request = admin[b].request /\ admin[a].request # 0 => a = b

PolicyInv ==
    /\ RulesAgree
    /\ HistoryAgrees
    /\ HandlersAgree
    /\ sent \in 0..MaxRequests /\ faults \in 0..MaxFaults
    /\ DecisionsStayExplained
----------------------------------------------------------------------------
(* Steps that write no row *)

LEMMA SameRow ==
    ASSUME NEW r \in RuleRow, NEW s \in RuleRow, SameVersion(r, s), r.active = s.active
    PROVE  r = s
BY DEF RuleRow, SameVersion

(* Rows only ever get more, and newer. *)
LEMMA HandlerStays ==
    ASSUME NEW q \in HandlerRow, HandlerAgrees(q), written \subseteq written',
           \A w \in written' : w.row.createdBy = q.request => w \in written,
           \A r \in rule : \E s \in rule' : SameVersion(r, s)
    PROVE  HandlerAgrees(q)'
<1>1. RowsBy(q.request)' = RowsBy(q.request)
  BY DEF RowsBy
<1>2. ~IsNewest(q.found) => ~IsNewest(q.found)'
  BY DEF IsNewest, OfKey, SameVersion
<1>3. ASSUME NEW next, NEW edited, NEW change, MadeOf(next, edited, change)
      PROVE  MadeOf(next, edited, change)'
  BY <1>3 DEF MadeOf
<1>4. q.pc = "findLatest" =>
        \E v \in written' : SameVersion(q.found, v.row) /\ (q.found.active = v.row.active \/ ~IsNewest(q.found)')
  BY <1>2 DEF HandlerAgrees
<1>5. q.pc = "insertVersion" => MadeOf(q.next, q.found.id, q.change)'
  BY <1>3 DEF HandlerAgrees
<1> QED
  BY <1>1, <1>4, <1>5 DEF HandlerAgrees, ToInsert

(* A step of one handler that writes nothing has to show that the handler agrees with
   what is written. *)
LEMMA QuietStep ==
    ASSUME PolicyInv, NEW a \in Admin, NEW q \in HandlerRow, HandlerAgrees(q),
           admin' = [admin EXCEPT ![a] = q],
           UNCHANGED <<rule, written, decision>>,
           sent' \in sent..MaxRequests, faults' \in 0..MaxFaults,
           q.request = admin[a].request \/ (q.request = sent' /\ sent < sent')
    PROVE  PolicyInv'
<1>1. sent \in Nat /\ sent' \in Nat /\ sent <= sent' /\ sent' \in 0..MaxRequests
  BY PolicyBounds DEF PolicyInv
<1>2. RulesAgree'
  <2>1. \A r \in rule : RuleAgrees(r) => r.createdBy <= sent'
    BY <1>1 DEF RuleAgrees, RuleRow
  <2> QED
    BY <2>1 DEF PolicyInv, RulesAgree, RuleAgrees
<1>3. HistoryAgrees'
  BY DEF PolicyInv, HistoryAgrees, NoEditLost
<1>4. HandlersAgree'
  <2>1. admin' \in [Admin -> HandlerRow] /\ admin'[a] = q /\ \A b \in Admin : b # a => admin'[b] = admin[b]
    BY DEF PolicyInv, HandlersAgree
  <2>2. \A b \in Admin : HandlerAgrees(admin'[b])
    BY <2>1 DEF PolicyInv, HandlersAgree
  <2>3. ASSUME NEW b \in Admin PROVE (HandlerAgrees(admin[b]))'
    <3>1. PICK p \in HandlerRow : p = admin'[b]
      BY <2>1
    <3>2. HandlerAgrees(p)'
      BY <2>2, <3>1, HandlerStays DEF SameVersion
    <3> QED
      BY <3>1, <3>2
  <2>4. \A b \in Admin : admin'[b].request <= sent' /\ admin[b].request \in Nat /\ admin[b].request <= sent
    BY <1>1, <2>1 DEF PolicyInv, HandlersAgree, HandlerRow
  <2>5. \A b, c \in Admin : admin'[b].request = admin'[c].request /\ admin'[b].request # 0 => b = c
    BY <1>1, <2>1, <2>4 DEF PolicyInv, HandlersAgree
  <2> QED
    BY <2>1, <2>3, <2>4, <2>5 DEF HandlersAgree
<1>5. DecisionsStayExplained'
  BY DEF PolicyInv, DecisionsStayExplained
<1> QED
  BY <1>1, <1>2, <1>3, <1>4, <1>5 DEF PolicyInv
----------------------------------------------------------------------------
(* Steps that write a row *)

(* The engine looks at conditions and outcome alone. *)
LEMMA SameVerdict ==
    ASSUME NEW r, NEW s, r.conditions = s.conditions, r.outcome = s.outcome, NEW world
    PROVE  MatchRule(r, world) = MatchRule(s, world)
BY SMTT(30) DEF MatchRule

LEMMA SameValidity ==
    ASSUME NEW r, NEW s, ValidDefinition(r), r.priority = s.priority, r.outcome = s.outcome,
           r.message = s.message, r.conditions = s.conditions
    PROVE  ValidDefinition(s)
BY SMTT(30) DEF ValidDefinition

LEMMA ValidPriority ==
    ASSUME NEW r, ValidDefinition(r)
    PROVE  r.priority \in Nat
<1> DEFINE priority == r.priority
<1>1. priority \in 0..10000
  BY SMTT(30) DEF ValidDefinition
<1> HIDE DEF priority
<1>2. priority \in Nat
  BY <1>1
<1> QED
  BY <1>2 DEF priority

(* next is written and what is active of its key switched off: what is there, *)
Supersedes(next) ==
    /\ next \in rule'
    /\ \A r \in rule : \E s \in rule' : SameVersion(r, s) /\ (SameKey(r, next) \/ s = r)
    /\ \A s \in rule' : s = next \/ \E r \in rule :
         /\ s \in RuleRow /\ SameVersion(r, s)
         /\ IF SameKey(r, next) THEN ~s.active ELSE s = r

(* and what is known of the row. *)
Fits(next, edited, change) ==
    /\ ~VersionTaken(next.ruleKey, next.version)
    /\ next.version = 1 \/ \E r \in rule : SameKey(r, next) /\ r.version + 1 = next.version
    /\ edited \in Nat
    /\ edited # 0 => MadeOf(next, edited, change)

LEMMA Fresh ==
    ASSUME PolicyInv, NEW request \in Nat \ {0}, RowsBy(request) = {}
    PROVE  /\ \A r \in rule : r.id # NewId(request)
           /\ \A w \in written : w.row.id # NewId(request)
<1>1. ASSUME NEW r \in rule PROVE r.id # NewId(request)
  <2>1. RuleAgrees(r)
    BY DEF PolicyInv, RulesAgree
  <2>2. PICK w \in written : SameVersion(r, w.row)
    BY DEF PolicyInv, HistoryAgrees
  <2>3. r.createdBy # request
    BY <2>2 DEF RowsBy, SameVersion
  <2> QED
    BY <2>1, <2>3 DEF RuleAgrees, NewId, RuleRow
<1>2. \A w \in written : w.row.id # NewId(request)
  BY <1>1 DEF PolicyInv, HistoryAgrees, SameVersion
<1> QED
  BY <1>1, <1>2

(* Versions have no gaps: who is not too late is the newest. *)
LEMMA NoneNewer ==
    ASSUME PolicyInv, NEW next \in RuleRow, next.scope = "tenant",
           ~VersionTaken(next.ruleKey, next.version)
    PROVE  \A r \in rule : SameKey(r, next) => r.version < next.version
<1> SUFFICES ASSUME NEW r \in rule, SameKey(r, next), ~(r.version < next.version)
             PROVE  FALSE
  OBVIOUS
<1>1. r.version \in Nat \ {0} /\ next.version \in Nat \ {0}
  BY DEF PolicyInv, RulesAgree, RuleAgrees, RuleRow
<1>2. next.version \in 1..r.version
  BY <1>1
<1>3. PICK s \in rule : SameKey(r, s) /\ s.version = next.version
  BY <1>2 DEF PolicyInv, RulesAgree
<1> QED
  BY <1>3 DEF SameKey, VersionTaken, OfKey

LEMMA InsertKeepsRules ==
    ASSUME PolicyInv, NEW next, NEW request \in 1..sent, ToInsert(next, request), RowsBy(request) = {},
           NEW edited, NEW change, Fits(next, edited, change), Supersedes(next), sent' = sent
    PROVE  RulesAgree'
<1>1. /\ next \in RuleRow /\ next.scope = "tenant" /\ next.id = NewId(request)
      /\ next.createdBy = request /\ next.version <= request + 1 /\ ValidDefinition(next)
  BY DEF ToInsert
<1>2. \A r \in rule : r \in RuleRow /\ r.id # next.id /\ (SameKey(r, next) => r.version < next.version)
  <2>1. \A r \in rule : r.id # next.id
    BY <1>1, Fresh
  <2>2. \A r \in rule : SameKey(r, next) => r.version < next.version
    BY <1>1, NoneNewer DEF Fits
  <2> QED
    BY <2>1, <2>2 DEF PolicyInv, RulesAgree, RuleAgrees
<1>3. ASSUME NEW s \in rule', s # next
      PROVE  \E r \in rule : /\ s \in RuleRow /\ SameVersion(r, s)
                              /\ IF SameKey(r, next) THEN ~s.active ELSE s = r
  BY <1>3 DEF Supersedes
<1>4. BaselineRules \subseteq rule'
  <2> SUFFICES ASSUME NEW b \in BaselineRules PROVE b \in rule'
    OBVIOUS
  <2>1. b \in rule /\ b.scope = "baseline"
    BY BaselineRulesAreRules DEF PolicyInv, RulesAgree
  <2>2. ~SameKey(b, next)
    BY <1>1, <2>1 DEF SameKey
  <2> QED
    BY <2>1, <2>2 DEF Supersedes
<1>5. ASSUME NEW s \in rule' PROVE RuleAgrees(s)'
  <2>1. CASE s = next
    <3>1. next \notin BaselineRules
      BY <1>1, BaselineRulesAreRules
    <3> QED
      BY <1>1, <2>1, <3>1 DEF RuleAgrees
  <2>2. CASE s # next
    <3>1. PICK r \in rule : /\ s \in RuleRow /\ SameVersion(r, s)
                            /\ IF SameKey(r, next) THEN ~s.active ELSE s = r
      BY <1>3, <2>2
    <3>2. RuleAgrees(r)
      BY DEF PolicyInv, RulesAgree
    <3>3. CASE s = r
      BY <3>2, <3>3 DEF RuleAgrees
    <3>4. CASE SameKey(r, next)
      <4>1. s.scope = "tenant" /\ s \notin BaselineRules
        BY <1>1, <3>1, <3>4, BaselineRulesAreRules DEF SameKey, SameVersion
      <4>2. s.createdBy # 0 => ValidDefinition(s)
        BY <3>1, <3>2, SameValidity DEF RuleAgrees, SameVersion
      <4> QED
        BY <3>1, <3>2, <4>1, <4>2 DEF RuleAgrees, SameVersion
    <3> QED
      BY <3>1, <3>3, <3>4
  <2> QED
    BY <2>1, <2>2
<1>6. ASSUME NEW s \in rule', s # next, NEW t \in rule', t # next,
             s.id = t.id \/ (SameKey(s, t) /\ s.version = t.version)
      PROVE  s = t
  <2>1. PICK r \in rule : /\ s \in RuleRow /\ SameVersion(r, s)
                          /\ IF SameKey(r, next) THEN ~s.active ELSE s = r
    BY <1>3, <1>6
  <2>2. PICK q \in rule : /\ t \in RuleRow /\ SameVersion(q, t)
                          /\ IF SameKey(q, next) THEN ~t.active ELSE t = q
    BY <1>3, <1>6
  <2>3. r = q
    BY <1>6, <2>1, <2>2 DEF PolicyInv, RulesAgree, SameVersion, SameKey
  <2>4. SameVersion(s, t)
    BY <2>1, <2>2, <2>3 DEF SameVersion
  <2>5. CASE SameKey(r, next)
    <3>1. s.active = t.active
      BY <2>1, <2>2, <2>3, <2>5 DEF RuleRow
    <3> QED
      BY <2>1, <2>2, <2>4, <3>1, SameRow
  <2> QED
    BY <2>1, <2>2, <2>3, <2>5
<1>7. ASSUME NEW s \in rule', s # next
      PROVE  /\ s.id # next.id /\ s \in RuleRow
             /\ SameKey(s, next) => s.version < next.version /\ ~s.active
             /\ \E r \in rule : SameVersion(r, s)
  BY <1>2, <1>3, <1>7 DEF SameVersion, SameKey
<1>8. \A s, t \in rule' : s.id = t.id => s = t
  BY <1>6, <1>7
<1>9. \A s, t \in rule' : SameKey(s, t) /\ s.version = t.version => s = t
  <2> SUFFICES ASSUME NEW s \in rule', NEW t \in rule', SameKey(s, t), s.version = t.version
               PROVE  s = t
    OBVIOUS
  <2>1. CASE s = next /\ t # next
    BY <1>1, <1>7, <2>1 DEF SameKey, RuleRow
  <2>2. CASE t = next /\ s # next
    BY <1>1, <1>7, <2>2 DEF SameKey, RuleRow
  <2> QED
    BY <1>6, <2>1, <2>2
<1>10. \A s, t \in rule' : SameKey(s, t) /\ s.active => t.version <= s.version
  <2> SUFFICES ASSUME NEW s \in rule', NEW t \in rule', SameKey(s, t), s.active
               PROVE  t.version <= s.version
    OBVIOUS
  <2>1. CASE s = next
    <3>1. CASE t = next
      BY <1>1, <2>1, <3>1 DEF RuleRow
    <3>2. CASE t # next
      BY <1>1, <1>7, <2>1, <3>2 DEF SameKey, RuleRow
    <3> QED
      BY <3>1, <3>2
  <2>2. CASE s # next
    <3>1. t # next
      BY <1>7, <2>2
    <3>2. PICK r \in rule : /\ s \in RuleRow /\ SameVersion(r, s)
                            /\ IF SameKey(r, next) THEN ~s.active ELSE s = r
      BY <1>3, <2>2
    <3>3. s = r
      BY <3>2
    <3>4. PICK q \in rule : SameVersion(q, t)
      BY <1>7, <3>1
    <3> QED
      BY <3>3, <3>4 DEF PolicyInv, RulesAgree, SameVersion, SameKey
  <2> QED
    BY <2>1, <2>2
<1>11. \A s \in rule' : \A v \in 1..s.version : \E t \in rule' : SameKey(s, t) /\ t.version = v
  <2>1. ASSUME NEW r \in rule, NEW v \in 1..r.version
        PROVE  \E t \in rule' : SameKey(r, t) /\ t.version = v
    <3>1. PICK q \in rule : SameKey(r, q) /\ q.version = v
      BY DEF PolicyInv, RulesAgree
    <3> QED
      BY <3>1 DEF Supersedes, SameVersion, SameKey
  <2> SUFFICES ASSUME NEW s \in rule', NEW v \in 1..s.version
               PROVE  \E t \in rule' : SameKey(s, t) /\ t.version = v
    OBVIOUS
  <2>2. CASE s # next
    <3>1. PICK r \in rule : SameVersion(r, s)
      BY <1>7, <2>2
    <3> QED
      BY <2>1, <3>1 DEF SameVersion, SameKey
  <2>3. CASE s = next /\ v = next.version
    BY <2>3 DEF Supersedes, SameKey
  <2>4. CASE s = next /\ v # next.version
    <3>1. PICK r \in rule : SameKey(r, next) /\ r.version + 1 = next.version
      BY <1>1, <2>4 DEF Fits, RuleRow
    <3>2. v \in 1..r.version
      BY <1>1, <1>2, <2>4, <3>1 DEF RuleRow
    <3> QED
      BY <2>1, <2>4, <3>1, <3>2 DEF SameKey
  <2> QED
    BY <2>2, <2>3, <2>4
<1> QED
  BY <1>4, <1>5, <1>8, <1>9, <1>10, <1>11 DEF RulesAgree
(* The version an edit is made of has one successor. *)
LEMMA InsertKeepsHistory ==
    ASSUME PolicyInv, NEW next, NEW request \in 1..sent, ToInsert(next, request), RowsBy(request) = {},
           NEW edited, NEW change, Fits(next, edited, change), Supersedes(next),
           written' = written \union {[row |-> next, edited |-> edited, change |-> change]}
    PROVE  HistoryAgrees'
<1> DEFINE new == [row |-> next, edited |-> edited, change |-> change]
<1>1. /\ new.row = next /\ new.edited = edited /\ new.change = change
      /\ written' = written \union {new}
  OBVIOUS
<1> HIDE DEF new
<1>2. /\ next \in RuleRow /\ next.scope = "tenant" /\ next.id = NewId(request)
  BY DEF ToInsert
<1>3. (\A w \in written : w.row.id # next.id) /\ \A r \in rule : r.id # next.id
  BY <1>2, Fresh
<1>4. \A r \in rule : r \in RuleRow /\ (SameKey(r, next) => r.version < next.version)
  BY <1>2, NoneNewer DEF Fits, PolicyInv, RulesAgree, RuleAgrees
<1>5. \A w \in written' : w.row \in RuleRow /\ w.edited \in Nat
  BY <1>1, <1>2 DEF Fits, PolicyInv, HistoryAgrees
<1>6. \A w \in written' : \E s \in rule' : SameVersion(s, w.row)
  <2>1. ASSUME NEW w \in written PROVE \E s \in rule' : SameVersion(s, w.row)
    <3>1. PICK r \in rule : SameVersion(r, w.row)
      BY DEF PolicyInv, HistoryAgrees
    <3>2. PICK s \in rule' : SameVersion(r, s)
      BY DEF Supersedes
    <3> QED
      BY <3>1, <3>2 DEF SameVersion
  <2>2. SameVersion(next, new.row) /\ next \in rule'
    BY <1>1 DEF SameVersion, Supersedes
  <2> QED
    BY <1>1, <2>1, <2>2
<1>7. ASSUME NEW s \in rule'
      PROVE  \E w \in written' :
                /\ SameVersion(s, w.row)
                /\ s.active = w.row.active \/ \E t \in rule' : SameKey(s, t) /\ s.version < t.version
  <2>1. CASE s = next
    BY <1>1, <2>1 DEF SameVersion
  <2>2. CASE s # next
    <3>1. PICK r \in rule : SameVersion(r, s) /\ IF SameKey(r, next) THEN ~s.active ELSE s = r
      BY <2>2 DEF Supersedes
    <3>2. PICK w \in written :
            /\ SameVersion(r, w.row)
            /\ r.active = w.row.active \/ \E t \in rule : SameKey(r, t) /\ r.version < t.version
      BY DEF PolicyInv, HistoryAgrees
    <3>3. w \in written' /\ SameVersion(s, w.row)
      BY <1>1, <3>1, <3>2 DEF SameVersion
    <3>4. CASE SameKey(r, next)
      <4>1. SameKey(s, next) /\ s.version < next.version /\ next \in rule'
        BY <1>4, <3>1, <3>4 DEF SameKey, SameVersion, Supersedes
      <4> QED
        BY <3>3, <4>1
    <3>5. CASE s = r
      <4>1. (\E t \in rule : SameKey(r, t) /\ r.version < t.version)
               => \E t \in rule' : SameKey(r, t) /\ r.version < t.version
        BY DEF Supersedes, SameVersion, SameKey
      <4> QED
        BY <3>2, <3>3, <3>5, <4>1
    <3> QED
      BY <3>1, <3>4, <3>5
  <2> QED
    BY <2>1, <2>2
<1>8. \A v, w \in written' : v.row.id = w.row.id => v = w
  BY <1>1, <1>3 DEF PolicyInv, HistoryAgrees
<1>9. \A w \in written' : w.edited # 0 => w.row.scope = "tenant"
  BY <1>1, <1>2 DEF PolicyInv, HistoryAgrees
<1>10. ASSUME NEW x \in written, x.edited = edited, edited # 0
       PROVE  FALSE
  <2>1. PICK v \in written :
          /\ v.row.id = edited /\ v.row.scope = "tenant"
          /\ v.row.ruleKey = next.ruleKey /\ v.row.version + 1 = next.version
    BY <1>10 DEF Fits, MadeOf
  <2>2. PICK u \in written :
          u.row.id = edited /\ u.row.ruleKey = x.row.ruleKey /\ u.row.version + 1 = x.row.version
    BY <1>10 DEF PolicyInv, HistoryAgrees, NoEditLost
  <2>3. u = v /\ x.row.scope = "tenant"
    BY <1>10, <2>1, <2>2 DEF PolicyInv, HistoryAgrees
  <2>4. PICK r \in rule : SameVersion(r, x.row)
    BY DEF PolicyInv, HistoryAgrees
  <2>5. r.scope = "tenant" /\ r.ruleKey = next.ruleKey /\ r.version = next.version
    BY <2>1, <2>2, <2>3, <2>4 DEF SameVersion
  <2> QED
    BY <2>5 DEF Fits, VersionTaken, OfKey
<1>11. NoEditLost'
  <2> SUFFICES ASSUME NEW w \in written', w.edited # 0
               PROVE  /\ \A x \in written' : x.edited = w.edited => x = w
                      /\ \E v \in written' :
                           /\ v.row.id = w.edited
                           /\ v.row.ruleKey = w.row.ruleKey /\ v.row.version + 1 = w.row.version
                           /\ \A field \in EditableFields :
                                w.row[field] = IF field \in w.change.fields
                                               THEN w.change[field] ELSE v.row[field]
    BY DEF NoEditLost
  <2>1. CASE w = new
    <3>1. MadeOf(next, edited, change) /\ edited # 0
      BY <1>1, <2>1 DEF Fits
    <3> QED
      BY <1>1, <1>10, <2>1, <3>1 DEF MadeOf
  <2>2. CASE w \in written
    BY <1>1, <1>10, <2>2 DEF PolicyInv, HistoryAgrees, NoEditLost
  <2> QED
    BY <1>1, <2>1, <2>2
<1> QED
  BY <1>5, <1>6, <1>7, <1>8, <1>9, <1>11 DEF HistoryAgrees

LEMMA DecisionsKept ==
    ASSUME PolicyInv, \A r \in rule : \E s \in rule' : SameVersion(r, s), UNCHANGED decision
    PROVE  DecisionsStayExplained'
<1> SUFFICES ASSUME NEW d \in decision, ~d.stored.defaulted
             PROVE  \E s \in rule' :
                       /\ s.id = d.stored.ruleId /\ s.version = d.stored.ruleVersion
                       /\ MatchRule(s, d.world) = "match"
                       /\ Clamp(s.outcome) = d.stored.outcome
  BY DEF DecisionsStayExplained
<1>1. PICK r \in rule :
        /\ r.id = d.stored.ruleId /\ r.version = d.stored.ruleVersion
        /\ MatchRule(r, d.world) = "match"
        /\ Clamp(r.outcome) = d.stored.outcome
  BY DEF PolicyInv, DecisionsStayExplained
<1>2. PICK s \in rule' : SameVersion(r, s)
  OBVIOUS
<1>3. MatchRule(s, d.world) = "match"
  BY <1>1, <1>2, SameVerdict DEF SameVersion
<1> QED
  BY <1>1, <1>2, <1>3 DEF SameVersion

LEMMA InsertStep ==
    ASSUME PolicyInv, NEW a \in Admin, admin[a].pc \in {"insertVersion", "insertRule"},
           Fits(admin[a].next, admin[a].found.id, admin[a].change), Supersedes(admin[a].next),
           written' = written \union {Written(a)},
           Become(a, [admin[a] EXCEPT !.pc = "answer"]), UNCHANGED <<sent, faults, decision>>
    PROVE  PolicyInv'
<1> DEFINE q == admin[a]
<1>1. /\ q \in HandlerRow /\ HandlerAgrees(q) /\ q.request \in 1..sent
      /\ sent \in 0..MaxRequests /\ faults \in 0..MaxFaults
  BY PolicyBounds DEF PolicyInv, HandlersAgree, HandlerAgrees, HandlerRow
<1>2. ToInsert(q.next, q.request) /\ RowsBy(q.request) = {}
  BY <1>1 DEF HandlerAgrees
<1>3. written' = written \union {[row |-> q.next, edited |-> q.found.id, change |-> q.change]}
  BY DEF Written
<1>4. RulesAgree'
  BY <1>1, <1>2, InsertKeepsRules
<1>5. HistoryAgrees'
  BY <1>1, <1>2, <1>3, InsertKeepsHistory
<1>6. \A r \in rule : \E s \in rule' : SameVersion(r, s)
  BY DEF Supersedes
<1>7. DecisionsStayExplained'
  BY <1>6, DecisionsKept
<1>8. HandlersAgree'
  <2>1. [q EXCEPT !.pc = "answer"] \in HandlerRow
    BY <1>1 DEF HandlerRow
  <2>2. /\ admin' \in [Admin -> HandlerRow]
        /\ admin'[a].pc = "answer" /\ admin'[a].request = q.request /\ admin'[a].next = q.next
        /\ \A b \in Admin : b # a => admin'[b] = admin[b]
    BY <1>1, <2>1 DEF PolicyInv, HandlersAgree, Become, HandlerRow
  <2>3. \A b \in Admin : admin'[b].request = admin[b].request
    BY <2>2
  <2>4. q.next.createdBy = q.request
    BY <1>2 DEF ToInsert
  <2>5. ASSUME NEW b \in Admin PROVE (HandlerAgrees(admin[b]))'
    <3>1. PICK p \in HandlerRow : p = admin'[b]
      BY <2>2
    <3>2. CASE b = a
      <4> DEFINE new == [row |-> q.next, edited |-> q.found.id, change |-> q.change]
      <4>0. new \in written' /\ new.row = q.next
        BY <1>3
      <4> HIDE DEF new
      <4>1. PICK w \in written' : w.row.createdBy = q.request /\ w.row.version = q.next.version
        BY <2>4, <4>0
      <4>2. HandlerAgrees(p)'
        BY <1>1, <2>2, <3>1, <3>2, <4>1 DEF HandlerAgrees, RowsBy
      <4> QED
        BY <3>1, <4>2
    <3>3. CASE b # a
      <4>1. HandlerAgrees(p) /\ p.request # q.request
        BY <1>1, <2>2, <3>1, <3>3 DEF PolicyInv, HandlersAgree
      <4>2. \A w \in written' : w.row.createdBy = p.request => w \in written
        BY <1>3, <2>4, <4>1
      <4>3. HandlerAgrees(p)'
        BY <1>3, <1>6, <4>1, <4>2, HandlerStays
      <4> QED
        BY <3>1, <4>3
    <3> QED
      BY <3>2, <3>3
  <2> QED
    BY <2>2, <2>3, <2>5 DEF PolicyInv, HandlersAgree
<1> QED
  BY <1>1, <1>4, <1>5, <1>7, <1>8 DEF PolicyInv
----------------------------------------------------------------------------
(* The actions *)

LEMMA IdleIsHandler == Idle \in HandlerRow /\ Idle.request = 0 /\ Idle.pc = "idle"
BY DEF Idle, HandlerRow

(* A request begins: no row bears its number yet. *)
LEMMA BeginStep ==
    ASSUME PolicyInv, NEW a \in Admin, NEW state \in HandlerRow, Begin(a, state), UNCHANGED decision,
           HandlerAgrees([state EXCEPT !.request = sent + 1])
    PROVE  PolicyInv'
<1> DEFINE q == [state EXCEPT !.request = sent + 1]
<1>1. sent \in Nat /\ sent + 1 \in sent..MaxRequests /\ faults \in 0..MaxFaults
  BY PolicyBounds DEF PolicyInv, Begin
<1>2. q \in HandlerRow /\ q.request = sent + 1
  BY <1>1 DEF HandlerRow
<1>3. /\ admin' = [admin EXCEPT ![a] = q] /\ UNCHANGED <<rule, written, decision>>
      /\ sent' = sent + 1 /\ faults' = faults
  BY DEF Begin, Become
<1> HIDE DEF q
<1>4. HandlerAgrees(q)
  BY DEF q
<1>5. /\ sent' \in sent..MaxRequests /\ sent < sent' /\ faults' \in 0..MaxFaults
      /\ q.request = sent'
  BY <1>1, <1>2, <1>3
<1> QED
  BY <1>2, <1>3, <1>4, <1>5, QuietStep

LEMMA NothingByTheNext ==
    ASSUME PolicyInv
    PROVE  sent \in Nat /\ RowsBy(sent + 1) = {}
<1>1. sent \in Nat
  BY DEF PolicyInv
<1>2. ASSUME NEW w \in written PROVE w.row.createdBy # sent + 1
  <2>1. PICK r \in rule : SameVersion(r, w.row)
    BY DEF PolicyInv, HistoryAgrees
  <2>2. r.createdBy \in Nat /\ r.createdBy <= sent
    BY DEF PolicyInv, RulesAgree, RuleAgrees, RuleRow
  <2> QED
    BY <1>1, <2>1, <2>2 DEF SameVersion
<1> QED
  BY <1>1, <1>2 DEF RowsBy

LEMMA BeginWithAnswer ==
    ASSUME PolicyInv, NEW a \in Admin, NEW reply \in {"malformed", "notFound", "forbidden"},
           Begin(a, [Idle EXCEPT !.reply = reply]), UNCHANGED decision
    PROVE  PolicyInv'
<1> DEFINE state == [Idle EXCEPT !.reply = reply]
           q == [state EXCEPT !.request = sent + 1]
<1>1. sent \in Nat /\ RowsBy(sent + 1) = {}
  BY NothingByTheNext
<1>2. state \in HandlerRow /\ state.pc = "idle" /\ state.reply = reply
  BY IdleIsHandler DEF HandlerRow
<1>3. Begin(a, state)
  OBVIOUS
<1> HIDE DEF state
<1>4. q.pc = "idle" /\ q.reply = reply /\ q.request = sent + 1
  BY <1>2 DEF HandlerRow
<1>5. HandlerAgrees(q)
  BY <1>1, <1>4 DEF HandlerAgrees
<1> QED
  BY <1>2, <1>3, <1>5, BeginStep

LEMMA StartUpdateKeeps ==
    ASSUME PolicyInv, NEW a \in Admin, NEW r \in rule, NEW change \in Change,
           StartUpdate(a, r, change), UNCHANGED decision
    PROVE  PolicyInv'
<1>1. CASE Begin(a, [Idle EXCEPT !.reply = "malformed"])
  BY <1>1, BeginWithAnswer
<1>2. CASE Begin(a, [Idle EXCEPT !.reply = "forbidden"])
  BY <1>2, BeginWithAnswer
<1>3. CASE r.scope = "tenant" /\ Begin(a, [Idle EXCEPT !.pc = "findLatest", !.found = r, !.change = change])
  <2> DEFINE state == [Idle EXCEPT !.pc = "findLatest", !.found = r, !.change = change]
             q == [state EXCEPT !.request = sent + 1]
  <2>1. sent \in Nat /\ RowsBy(sent + 1) = {}
    BY NothingByTheNext
  <2>2. /\ r \in RuleRow /\ r.createdBy \in Nat /\ r.createdBy <= sent
        /\ r.version <= r.createdBy + 1 /\ change \in ChangeBody
    BY BodyAssumption DEF PolicyInv, RulesAgree, RuleAgrees, RuleRow
  <2>3. state \in HandlerRow /\ state.pc = "findLatest" /\ state.found = r /\ state.change = change
    BY <2>2, IdleIsHandler DEF HandlerRow
  <2>4. Begin(a, state)
    BY <1>3
  <2> HIDE DEF state
  <2>5. q.pc = "findLatest" /\ q.found = r /\ q.change = change /\ q.request = sent + 1
    BY <2>3 DEF HandlerRow
  <2>6. PICK v \in written :
          /\ SameVersion(r, v.row)
          /\ r.active = v.row.active \/ \E s \in rule : SameKey(r, s) /\ r.version < s.version
    BY DEF PolicyInv, HistoryAgrees
  <2>7. ASSUME NEW s \in rule, SameKey(r, s), r.version < s.version PROVE ~IsNewest(r)
    <3>1. s \in RuleRow /\ s \in OfKey(r.ruleKey)
      BY <1>3, <2>7 DEF PolicyInv, RulesAgree, RuleAgrees, SameKey, OfKey
    <3> QED
      BY <2>2, <2>7, <3>1 DEF IsNewest, RuleRow
  <2>8. HandlerAgrees(q)
    BY <1>3, <2>1, <2>2, <2>5, <2>6, <2>7 DEF HandlerAgrees
  <2> QED
    BY <2>3, <2>4, <2>8, BeginStep
<1> QED
  BY <1>1, <1>2, <1>3 DEF StartUpdate

LEMMA StartCreateKeeps ==
    ASSUME PolicyInv, NEW a \in Admin, NEW def \in Definition, StartCreate(a, def), UNCHANGED decision
    PROVE  PolicyInv'
<1> DEFINE row == [id |-> NewId(sent + 1), scope |-> "tenant", ruleKey |-> def.ruleKey, version |-> 1,
                   active |-> TRUE, priority |-> def.priority, outcome |-> def.outcome,
                   message |-> def.message, createdBy |-> sent + 1, conditions |-> def.conditions]
           state == [Idle EXCEPT !.pc = "insertRule", !.next = row]
           q == [state EXCEPT !.request = sent + 1]
<1>1. sent \in Nat /\ RowsBy(sent + 1) = {}
  BY NothingByTheNext
<1>2. CASE Begin(a, [Idle EXCEPT !.reply = "malformed"])
  BY <1>2, BeginWithAnswer
<1>3. CASE ValidDefinition(def) /\ Begin(a, state)
  <2>1. /\ def.ruleKey \in Nat /\ def.priority \in Nat /\ def.outcome \in Text
        /\ def.message \in Text /\ def.conditions \in Seq(Condition)
    BY <1>3, ValidPriority, BodyAssumption
  <2>2. NewId(sent + 1) \in Nat /\ sent + 1 \in Nat
    BY <1>1 DEF NewId
  <2>3. row \in RuleRow
    BY <2>1, <2>2 DEF RuleRow
  <2>4. /\ row.scope = "tenant" /\ row.id = NewId(sent + 1) /\ row.createdBy = sent + 1
        /\ row.version = 1 /\ row.outcome = def.outcome /\ row.priority = def.priority
        /\ row.message = def.message /\ row.conditions = def.conditions
    OBVIOUS
  <2>5. Begin(a, state)
    BY <1>3
  <2> HIDE DEF row
  <2>6. ValidDefinition(row)
    BY <1>3, <2>4, SameValidity
  <2>7. state \in HandlerRow /\ state.pc = "insertRule" /\ state.next = row /\ state.found = NoRule
    BY <2>3, IdleIsHandler DEF HandlerRow, Idle
  <2> HIDE DEF state
  <2>8. q.pc = "insertRule" /\ q.next = row /\ q.request = sent + 1 /\ q.found = NoRule
    BY <2>7 DEF HandlerRow
  <2>9. ToInsert(row, sent + 1)
    BY <1>1, <2>3, <2>4, <2>6 DEF ToInsert
  <2>10. HandlerAgrees(q)
    BY <1>1, <2>4, <2>8, <2>9 DEF HandlerAgrees
  <2> QED
    BY <2>5, <2>7, <2>10, BeginStep
<1> QED
  BY <1>2, <1>3 DEF StartCreate

(* Who ends without having written says so; who fails may have written. *)
LEMMA FinishStep ==
    ASSUME PolicyInv, NEW a \in Admin, admin[a].pc # "idle",
           NEW reply \in {"stale", "malformed", "fault"}, Finish(a, reply, 0),
           reply # "fault" => RowsBy(admin[a].request) = {},
           UNCHANGED <<rule, written, sent, decision>>, faults' \in 0..MaxFaults
    PROVE  PolicyInv'
<1>1. admin[a] \in HandlerRow /\ admin[a].request \in Nat /\ sent \in Nat /\ sent \in sent..MaxRequests
  BY PolicyBounds DEF PolicyInv, HandlersAgree, HandlerRow
<1> DEFINE q == [Idle EXCEPT !.request = admin[a].request, !.reply = reply, !.version = 0]
<1>2. q \in HandlerRow /\ q.pc = "idle" /\ q.reply = reply /\ q.request = admin[a].request
  BY <1>1, IdleIsHandler DEF HandlerRow
<1>3. admin' = [admin EXCEPT ![a] = q]
  BY DEF Finish, Become
<1> HIDE DEF q
<1>4. HandlerAgrees(q)
  BY <1>2 DEF HandlerAgrees
<1> QED
  BY <1>1, <1>2, <1>3, <1>4, QuietStep

(* What is written of a message and a flag is text, and true or false. *)
LEMMA PickedFields ==
    ASSUME NEW found \in RuleRow, NEW change \in ChangeBody, NEW next, NEW request \in Nat \ {0},
           next = [id |-> NewId(request), scope |-> "tenant", ruleKey |-> found.ruleKey,
                   version |-> found.version + 1,
                   active |-> IF "active" \in change.fields THEN change["active"] ELSE found["active"],
                   priority |-> IF "priority" \in change.fields THEN change["priority"] ELSE found["priority"],
                   outcome |-> IF "outcome" \in change.fields THEN change["outcome"] ELSE found["outcome"],
                   message |-> IF "message" \in change.fields THEN change["message"] ELSE found["message"],
                   createdBy |-> request,
                   conditions |-> IF "conditions" \in change.fields THEN change["conditions"]
                                  ELSE found["conditions"]],
           ValidDefinition(next)
    PROVE  /\ next \in RuleRow
           /\ next.id = NewId(request) /\ next.scope = "tenant" /\ next.createdBy = request
           /\ next.ruleKey = found.ruleKey /\ next.version = found.version + 1
           /\ \A field \in EditableFields :
                next[field] = IF field \in change.fields THEN change[field] ELSE found[field]
<1>1. /\ next.id = NewId(request) /\ next.scope = "tenant" /\ next.createdBy = request
      /\ next.ruleKey = found.ruleKey /\ next.version = found.version + 1
  OBVIOUS
<1>2. \A field \in EditableFields :
         next[field] = IF field \in change.fields THEN change[field] ELSE found[field]
  BY DEF EditableFields, ContentFields
<1>3. /\ change["active"] \in BOOLEAN /\ change["outcome"] \in Text /\ change["message"] \in Text
      /\ change["conditions"] \in Seq(Condition)
  BY DEF ChangeBody
<1>4. /\ found["active"] \in BOOLEAN /\ found["outcome"] \in Text /\ found["message"] \in Text
      /\ found["conditions"] \in Seq(Condition) /\ found.ruleKey \in Nat
      /\ found.version + 1 \in Nat \ {0}
  BY DEF RuleRow
<1>5. next.priority \in Nat
  BY ValidPriority
<1>6. NewId(request) \in Nat
  BY DEF NewId
<1>7. /\ next.active \in BOOLEAN /\ next.outcome \in Text /\ next.message \in Text
      /\ next.conditions \in Seq(Condition)
  BY <1>2, <1>3, <1>4 DEF EditableFields, ContentFields
<1>8. next = [id |-> next.id, scope |-> next.scope, ruleKey |-> next.ruleKey,
              version |-> next.version, active |-> next.active, priority |-> next.priority,
              outcome |-> next.outcome, message |-> next.message,
              createdBy |-> next.createdBy, conditions |-> next.conditions]
  OBVIOUS
<1>9. next \in RuleRow
  BY <1>1, <1>4, <1>5, <1>6, <1>7, <1>8 DEF RuleRow
<1> QED
  BY <1>1, <1>2, <1>9

LEMMA FindLatestVersionKeeps ==
    ASSUME PolicyInv, NEW a \in Admin, FindLatestVersion(a), UNCHANGED decision
    PROVE  PolicyInv'
<1> DEFINE p == admin[a]
           next == NextRow(a)
           q == [p EXCEPT !.pc = "insertVersion", !.next = next]
<1>1. /\ p \in HandlerRow /\ HandlerAgrees(p) /\ p.pc = "findLatest" /\ p.request \in 1..sent
      /\ sent \in 0..MaxRequests /\ faults \in 0..MaxFaults
  BY PolicyBounds DEF PolicyInv, HandlersAgree, HandlerAgrees, HandlerRow, FindLatestVersion
<1>2. RowsBy(p.request) = {}
  BY <1>1 DEF HandlerAgrees
<1>3. CASE Finish(a, "stale", 0)
  BY <1>1, <1>2, <1>3, FinishStep DEF FindLatestVersion
<1>4. CASE Finish(a, "malformed", 0)
  BY <1>1, <1>2, <1>4, FinishStep DEF FindLatestVersion
<1>5. CASE IsNewest(p.found) /\ ValidDefinition(next) /\ Become(a, q)
  <2>1. /\ p.found \in RuleRow /\ p.found.scope = "tenant" /\ p.found.createdBy < p.request
        /\ p.found.version <= p.found.createdBy + 1
    BY <1>1 DEF HandlerAgrees
  <2>2. PICK v \in written : SameVersion(p.found, v.row) /\ p.found.active = v.row.active
    BY <1>1, <1>5 DEF HandlerAgrees
  <2>3. v.row = p.found
    BY <2>1, <2>2, SameRow DEF PolicyInv, HistoryAgrees
  <2>4. p.found.id \in Nat \ {0}
    <3>1. PICK r \in rule : SameVersion(r, p.found)
      BY <2>3 DEF PolicyInv, HistoryAgrees
    <3>2. RuleAgrees(r)
      BY DEF PolicyInv, RulesAgree
    <3>3. r.id \in Nat \ {0}
      BY <3>2 DEF RuleAgrees, RuleRow, NewId
    <3> QED
      BY <3>1, <3>3 DEF SameVersion
  <2>5. p.change \in ChangeBody
    BY <1>1 DEF HandlerAgrees
  <2>6. /\ next \in RuleRow
        /\ next.id = NewId(p.request) /\ next.scope = "tenant" /\ next.createdBy = p.request
        /\ next.ruleKey = p.found.ruleKey /\ next.version = p.found.version + 1
        /\ \A field \in EditableFields :
             next[field] = IF field \in p.change.fields THEN p.change[field] ELSE p.found[field]
    BY <1>1, <1>5, <2>1, <2>5, PickedFields DEF NextRow, NextVersion, Pick
  <2>7. ValidDefinition(next)
    BY <1>5
  <2> HIDE DEF next
  <2>8. next.version <= p.request + 1
    <3>1. p.found.version \in Nat /\ p.found.createdBy \in Nat /\ p.request \in Nat
      BY <1>1, <2>1 DEF RuleRow, HandlerRow
    <3> QED
      BY <2>1, <2>6, <3>1
  <2>9. ToInsert(next, p.request)
    BY <2>6, <2>7, <2>8 DEF ToInsert
  <2>10. MadeOf(next, p.found.id, p.change)
    BY <2>1, <2>3, <2>6 DEF MadeOf
  <2>11. /\ q \in HandlerRow /\ q.pc = "insertVersion" /\ q.next = next /\ q.request = p.request
         /\ q.found = p.found /\ q.change = p.change
    BY <1>1, <2>6 DEF HandlerRow
  <2>12. admin' = [admin EXCEPT ![a] = q]
    BY <1>5 DEF Become
  <2> HIDE DEF q
  <2>13. HandlerAgrees(q)
    BY <1>1, <1>2, <2>4, <2>9, <2>10, <2>11 DEF HandlerAgrees
  <2>14. UNCHANGED <<rule, written, decision>> /\ sent' \in sent..MaxRequests /\ faults' \in 0..MaxFaults
    BY <1>1 DEF FindLatestVersion
  <2> QED
    BY <2>11, <2>12, <2>13, <2>14, QuietStep
<1> QED
  BY <1>3, <1>4, <1>5 DEF FindLatestVersion

LEMMA InsertVersionKeeps ==
    ASSUME PolicyInv, NEW a \in Admin, InsertVersion(a), UNCHANGED decision
    PROVE  PolicyInv'
<1> DEFINE p == admin[a]
           next == p.next
<1>1. /\ HandlerAgrees(p) /\ p.pc = "insertVersion" /\ ~VersionTaken(next.ruleKey, next.version)
      /\ rule' = Superseding(next)
  BY DEF PolicyInv, HandlersAgree, InsertVersion
<1>2. next \in RuleRow /\ next.scope = "tenant"
  BY <1>1 DEF HandlerAgrees, ToInsert
<1>3. p.found.id \in Nat \ {0} /\ MadeOf(next, p.found.id, p.change)
  BY <1>1 DEF HandlerAgrees
<1> HIDE DEF next
<1>4. Supersedes(next)
  <2>1. \A r \in rule : r \in RuleRow
    BY DEF PolicyInv, RulesAgree, RuleAgrees
  <2>2. \A r \in RuleRow : /\ [r EXCEPT !.active = FALSE] \in RuleRow
                            /\ SameVersion(r, [r EXCEPT !.active = FALSE])
                            /\ ~[r EXCEPT !.active = FALSE].active
    BY DEF RuleRow, SameVersion
  <2>3. \A r : SameKey(r, next) <=> (r.scope = "tenant" /\ r.ruleKey = next.ruleKey)
    BY <1>2 DEF SameKey
  <2>4. ASSUME NEW r \in rule
        PROVE  \E s \in rule' : SameVersion(r, s) /\ (SameKey(r, next) \/ s = r)
    <3>1. CASE SameKey(r, next)
      <4>1. [r EXCEPT !.active = FALSE] \in rule'
        BY <1>1, <2>3, <3>1 DEF Superseding
      <4> QED
        BY <2>1, <2>2, <3>1, <4>1
    <3>2. CASE ~SameKey(r, next)
      <4>1. r \in rule'
        BY <1>1, <2>3, <3>2 DEF Superseding
      <4> QED
        BY <4>1 DEF SameVersion
    <3> QED
      BY <3>1, <3>2
  <2>5. ASSUME NEW s \in rule', s # next
        PROVE  \E r \in rule : /\ s \in RuleRow /\ SameVersion(r, s)
                                /\ IF SameKey(r, next) THEN ~s.active ELSE s = r
    <3>1. PICK r \in rule : s = IF r.scope = "tenant" /\ r.ruleKey = next.ruleKey
                                 THEN [r EXCEPT !.active = FALSE] ELSE r
      BY <1>1, <2>5 DEF Superseding
    <3>2. CASE SameKey(r, next)
      BY <2>1, <2>2, <2>3, <3>1, <3>2
    <3>3. CASE ~SameKey(r, next)
      BY <2>1, <2>3, <3>1, <3>3 DEF SameVersion
    <3> QED
      BY <3>2, <3>3
  <2>6. next \in rule'
    BY <1>1 DEF Superseding
  <2> QED
    BY <2>4, <2>5, <2>6 DEF Supersedes
<1>5. Fits(next, p.found.id, p.change)
  <2>1. PICK v \in written :
          v.row.scope = "tenant" /\ v.row.ruleKey = next.ruleKey /\ v.row.version + 1 = next.version
    BY <1>3 DEF MadeOf
  <2>2. PICK r \in rule : SameVersion(r, v.row)
    BY DEF PolicyInv, HistoryAgrees
  <2>3. SameKey(r, next) /\ r.version + 1 = next.version
    BY <1>2, <2>1, <2>2 DEF SameVersion, SameKey
  <2> QED
    BY <1>1, <1>3, <2>3 DEF Fits
<1> QED
  BY <1>1, <1>4, <1>5, InsertStep DEF InsertVersion, next

LEMMA InsertRuleKeeps ==
    ASSUME PolicyInv, NEW a \in Admin, InsertRule(a), UNCHANGED decision
    PROVE  PolicyInv'
<1> DEFINE p == admin[a]
           next == p.next
<1>1. /\ HandlerAgrees(p) /\ p.pc = "insertRule" /\ ~VersionTaken(next.ruleKey, next.version)
      /\ rule' = rule \union {next}
  BY DEF PolicyInv, HandlersAgree, InsertRule
<1>2. next \in RuleRow /\ next.scope = "tenant" /\ next.version = 1 /\ p.found.id = 0
  BY <1>1 DEF HandlerAgrees, ToInsert, NoRule
<1> HIDE DEF next
<1>3. \A r \in rule : r \in RuleRow /\ ~SameKey(r, next)
  <2>1. \A r \in rule : r \in RuleRow
    BY DEF PolicyInv, RulesAgree, RuleAgrees
  <2>2. \A r \in rule : SameKey(r, next) => r.version < 1
    BY <1>1, <1>2, NoneNewer
  <2> QED
    BY <2>1, <2>2 DEF RuleRow
<1>4. Supersedes(next)
  BY <1>1, <1>3 DEF Supersedes, SameVersion
<1>5. Fits(next, p.found.id, p.change)
  BY <1>1, <1>2 DEF Fits
<1> QED
  BY <1>1, <1>4, <1>5, InsertStep DEF InsertRule, next

LEMMA LoseInsertKeeps ==
    ASSUME PolicyInv, NEW a \in Admin, LoseInsert(a), UNCHANGED decision
    PROVE  PolicyInv'
<1>1. HandlerAgrees(admin[a]) /\ faults \in 0..MaxFaults
  BY DEF PolicyInv, HandlersAgree
<1>2. admin[a].pc # "idle" /\ RowsBy(admin[a].request) = {}
  BY <1>1 DEF LoseInsert, HandlerAgrees
<1>3. ConflictReply(a) \in {"malformed", "stale"}
  BY DEF ConflictReply
<1> QED
  BY <1>1, <1>2, <1>3, FinishStep DEF LoseInsert

LEMMA AnswerKeeps ==
    ASSUME PolicyInv, NEW a \in Admin, Answer(a), UNCHANGED decision
    PROVE  PolicyInv'
<1> DEFINE p == admin[a]
           q == [Idle EXCEPT !.request = p.request, !.reply = "saved", !.version = p.next.version]
<1>1. /\ p \in HandlerRow /\ HandlerAgrees(p) /\ p.pc = "answer"
      /\ sent \in 0..MaxRequests /\ faults \in 0..MaxFaults
  BY DEF PolicyInv, HandlersAgree, Answer
<1>2. PICK w \in RowsBy(p.request) : w.row.version = p.next.version
  BY <1>1 DEF HandlerAgrees
<1>3. p.next.version \in Nat /\ p.request \in Nat
  BY <1>1 DEF HandlerRow, RuleRow, NoRule
<1>4. /\ q \in HandlerRow /\ q.pc = "idle" /\ q.request = p.request /\ q.reply = "saved"
      /\ q.version = p.next.version
  BY <1>3, IdleIsHandler DEF HandlerRow
<1>5. admin' = [admin EXCEPT ![a] = q]
  BY DEF Answer, Finish, Become
<1> HIDE DEF q
<1>6. HandlerAgrees(q)
  BY <1>2, <1>4 DEF HandlerAgrees
<1>7. UNCHANGED <<rule, written, decision>> /\ sent' \in sent..MaxRequests /\ faults' \in 0..MaxFaults
  BY <1>1, PolicyBounds DEF Answer
<1> QED
  BY <1>4, <1>5, <1>6, <1>7, QuietStep

LEMMA CallFailsKeeps ==
    ASSUME PolicyInv, NEW a \in Admin, CallFails(a), UNCHANGED decision
    PROVE  PolicyInv'
<1>1. faults' \in 0..MaxFaults
  BY PolicyBounds DEF PolicyInv, CallFails
<1> QED
  BY <1>1, FinishStep DEF CallFails

(* What is decided names a rule that was evaluated. *)
LEMMA DecideKeeps ==
    ASSUME PolicyInv, NEW world \in World, Decide(world)
    PROVE  PolicyInv'
<1> DEFINE stored == Evaluate(rule, world)
           new == [world |-> world, stored |-> stored]
           M == Matches(rule, world)
           strictest == {r \in M : r.outcome = Strictest(M)}
<1>1. new.world = world /\ new.stored = stored /\ decision' = decision \union {new}
  BY DEF Decide
<1>2. ASSUME ~stored.defaulted
      PROVE  \E r \in rule :
               /\ r.id = stored.ruleId /\ r.version = stored.ruleVersion
               /\ MatchRule(r, world) = "match"
               /\ Clamp(r.outcome) = stored.outcome
  <2>1. {r \in {x \in rule : x.active} : MatchRule(r, world) = "match"} = M
    BY DEF Matches
  <2>2. M # {} /\ stored = Decided(M)
    BY <1>2, <2>1 DEF Evaluate, FailClosed
  <2>3. \A r \in rule : r \in RuleRow /\ r.version \in Nat /\ r.version <= MaxRequests + 1
    BY PolicyBounds DEF PolicyInv, RulesAgree, RuleAgrees, RuleRow
  <2>4. \A r \in M : r \in rule /\ r.outcome \in OutcomeLadder /\ MatchRule(r, world) = "match"
    BY <2>3, VerdictOfRule, OnLadder DEF Matches, RuleRow
  <2> HIDE DEF M
  <2>5. strictest # {} /\ strictest \subseteq rule
    BY <2>2, <2>4, StrictestIsThere
  <2>6. /\ strictest \subseteq RuleRow /\ \A r \in strictest : r.version <= MaxRequests + 1
        /\ \A r, s \in strictest : r.id = s.id => r = s
        /\ MaxRequests + 1 \in Nat
    BY <2>3, <2>5, PolicyBounds DEF PolicyInv, RulesAgree
  <2>7. stored.outcome = Clamp(Strictest(M)) /\ stored.ruleId = First(strictest).id
        /\ stored.ruleVersion = First(strictest).version
    BY <2>2 DEF Decided
  <2>8. First(strictest) \in M /\ First(strictest).outcome = Strictest(M)
    <3>1. First(strictest) \in strictest
      <4> HIDE DEF strictest
      <4> QED
        BY <2>5, <2>6, FirstIsThere
    <3> QED
      BY <3>1
  <2> QED
    BY <2>4, <2>7, <2>8
<1>3. UNCHANGED <<rule, written, admin, sent, faults>>
  BY DEF Decide, adminVars
<1> HIDE DEF new, stored
<1>4. DecisionsStayExplained'
  BY <1>1, <1>2, <1>3 DEF PolicyInv, DecisionsStayExplained
<1>5. RulesAgree' /\ HistoryAgrees'
  BY <1>3 DEF PolicyInv, RulesAgree, RuleAgrees, HistoryAgrees, NoEditLost
<1>6. HandlersAgree'
  BY <1>3 DEF PolicyInv, HandlersAgree, HandlerAgrees, RowsBy, MadeOf, IsNewest, OfKey
<1> QED
  BY <1>3, <1>4, <1>5, <1>6 DEF PolicyInv
----------------------------------------------------------------------------
LEMMA InitAgrees ==
    ASSUME Init
    PROVE  PolicyInv
<1>1. /\ rule = BaselineRules \union TenantRules
      /\ written = {[row |-> r, edited |-> 0, change |-> NoChange] : r \in rule}
      /\ admin = [a \in Admin |-> Idle] /\ sent = 0 /\ faults = 0 /\ decision = {}
  BY DEF Init, AdminInit
<1>2. \A b \in BaselineRules :
        /\ b \in RuleRow /\ b.scope = "baseline" /\ b.version = 1 /\ b.createdBy = 0
        /\ b.id \in 1..4 /\ b.ruleKey = b.id
  BY BaselineRulesAreRules
<1>3. \A r \in TenantRules :
        /\ r \in RuleRow /\ r.scope = "tenant" /\ r.version = 1 /\ r.createdBy = 0 /\ r.id \in 5..10
  BY TenantRulesAssumption
<1>4. \A r \in rule :
        /\ r \in RuleRow /\ r.version = 1 /\ r.createdBy = 0 /\ r.id \in 1..10
        /\ r.scope = "baseline" <=> r \in BaselineRules
  BY <1>1, <1>2, <1>3
<1>5. \A r, s \in rule : r.id = s.id \/ SameKey(r, s) => r = s
  <2> SUFFICES ASSUME NEW r \in rule, NEW s \in rule, r.id = s.id \/ SameKey(r, s)
               PROVE  r = s
    OBVIOUS
  <2>1. CASE r \in BaselineRules /\ s \in BaselineRules
    BY <1>2, <2>1, BaselineRulesAreRules DEF SameKey
  <2>2. CASE r \in TenantRules /\ s \in TenantRules
    BY <2>2, TenantRulesAssumption DEF SameKey
  <2>3. CASE r \in BaselineRules /\ s \in TenantRules
    BY <1>2, <1>3, <2>3 DEF SameKey
  <2>4. CASE r \in TenantRules /\ s \in BaselineRules
    BY <1>2, <1>3, <2>4 DEF SameKey
  <2> QED
    BY <1>1, <2>1, <2>2, <2>3, <2>4
<1>6. RulesAgree
  <2>1. \A r \in rule : RuleAgrees(r)
    BY <1>1, <1>4 DEF RuleAgrees
  <2>2. \A r \in rule : \A v \in 1..r.version : \E s \in rule : SameKey(r, s) /\ s.version = v
    BY <1>4 DEF SameKey
  <2>3. \A r, s \in rule : s.version <= r.version
    BY <1>4
  <2> QED
    BY <1>1, <1>5, <2>1, <2>2, <2>3 DEF RulesAgree
<1>7. HistoryAgrees
  <2>1. \A w \in written : w.row \in rule /\ w.edited = 0 /\ w = [row |-> w.row, edited |-> 0, change |-> NoChange]
    BY <1>1
  <2>2. \A r \in rule : \E w \in written : w.row = r
    <3> SUFFICES ASSUME NEW r \in rule PROVE \E w \in written : w.row = r
      OBVIOUS
    <3>1. [row |-> r, edited |-> 0, change |-> NoChange] \in written
      BY <1>1
    <3> QED
      BY <3>1
  <2>3. \A v, w \in written : v.row.id = w.row.id => v = w
    BY <1>5, <2>1
  <2>4. NoEditLost
    BY <2>1 DEF NoEditLost
  <2> QED
    BY <1>4, <2>1, <2>2, <2>3, <2>4 DEF HistoryAgrees, SameVersion
<1>8. HandlersAgree
  <2>1. HandlerAgrees(Idle)
    BY IdleIsHandler DEF HandlerAgrees
  <2> QED
    BY <1>1, <2>1, IdleIsHandler DEF HandlersAgree
<1> QED
  BY <1>1, <1>6, <1>7, <1>8, PolicyBounds DEF PolicyInv, DecisionsStayExplained

LEMMA StepAgrees ==
    ASSUME PolicyInv, [Next]_vars
    PROVE  PolicyInv'
<1>1. ASSUME NEW a \in Admin, NEW r \in rule, NEW change \in Change,
             StartUpdate(a, r, change), UNCHANGED decision
      PROVE  PolicyInv'
  BY <1>1, StartUpdateKeeps
<1>2. ASSUME NEW a \in Admin, StartUpdateOfNone(a), UNCHANGED decision
      PROVE  PolicyInv'
  BY <1>2, BeginWithAnswer DEF StartUpdateOfNone
<1>3. ASSUME NEW a \in Admin, NEW def \in Definition, StartCreate(a, def), UNCHANGED decision
      PROVE  PolicyInv'
  BY <1>3, StartCreateKeeps
<1>4. ASSUME NEW a \in Admin, FindLatestVersion(a), UNCHANGED decision
      PROVE  PolicyInv'
  BY <1>4, FindLatestVersionKeeps
<1>5. ASSUME NEW a \in Admin, InsertVersion(a), UNCHANGED decision
      PROVE  PolicyInv'
  BY <1>5, InsertVersionKeeps
<1>6. ASSUME NEW a \in Admin, InsertRule(a), UNCHANGED decision
      PROVE  PolicyInv'
  BY <1>6, InsertRuleKeeps
<1>7. ASSUME NEW a \in Admin, LoseInsert(a), UNCHANGED decision
      PROVE  PolicyInv'
  BY <1>7, LoseInsertKeeps
<1>8. ASSUME NEW a \in Admin, Answer(a), UNCHANGED decision
      PROVE  PolicyInv'
  BY <1>8, AnswerKeeps
<1>9. ASSUME NEW a \in Admin, CallFails(a), UNCHANGED decision
      PROVE  PolicyInv'
  BY <1>9, CallFailsKeeps
<1>10. ASSUME NEW world \in World, Decide(world)
       PROVE  PolicyInv'
  BY <1>10, DecideKeeps
<1>11. CASE UNCHANGED vars
  BY <1>11 DEF vars, adminVars, PolicyInv, RulesAgree, RuleAgrees, HistoryAgrees, NoEditLost,
       HandlersAgree, HandlerAgrees, RowsBy, MadeOf, IsNewest, OfKey, DecisionsStayExplained
<1>12. CASE Next
  BY <1>1, <1>2, <1>3, <1>4, <1>5, <1>6, <1>7, <1>8, <1>9, <1>10, <1>12 DEF Next, AdminStep
<1> QED
  BY <1>11, <1>12

LEMMA AlwaysAgrees == Spec => []PolicyInv
<1>1. Init => PolicyInv
  BY InitAgrees
<1>2. PolicyInv /\ [Next]_vars => PolicyInv'
  BY StepAgrees
<1> QED
  BY <1>1, <1>2, PTL DEF Spec

----------------------------------------------------------------------------
(* What follows *)

(* Rows are rules, made by requests there were, and handlers are at their calls
   (TypeOK): the tables of mongoPolicyRepo.js keep their shape. *)
THEOREM PolicyTypes == Spec => []TypeOK
<1>1. PolicyInv => TypeOK
  <2> SUFFICES ASSUME PolicyInv PROVE TypeOK
    OBVIOUS
  <2>1. \A r \in rule : r \in RuleRow /\ r.createdBy <= MaxRequests
    BY PolicyBounds DEF PolicyInv, RulesAgree, RuleAgrees, RuleRow
  <2>2. \A w \in written : w.row \in RuleRow /\ w.edited \in Nat
    BY DEF PolicyInv, HistoryAgrees
  <2>3. \A a \in Admin :
          /\ admin[a].pc \in {"idle", "findLatest", "insertVersion", "insertRule", "answer"}
          /\ admin[a].reply \in {"none", "saved", "stale", "malformed", "notFound", "forbidden",
                                 "fault"}
          /\ admin[a].request \in Nat /\ admin[a].request <= sent
    BY DEF PolicyInv, HandlersAgree, HandlerRow
  <2> QED
    BY <2>1, <2>2, <2>3, PolicyBounds DEF PolicyInv, TypeOK
<1> QED
  BY <1>1, AlwaysAgrees, PTL

(* The newest version of a rule, which the console lists, is the one in force, and
   no version is missing (ListedIsInForce), however inserts race. *)
THEOREM OneVersionInForce == Spec => []ListedIsInForce
<1>1. PolicyInv => ListedIsInForce
  BY DEF PolicyInv, RulesAgree, SameKey, ListedIsInForce, ListPolicies
<1> QED
  BY <1>1, AlwaysAgrees, PTL

(* Every saved edit is made of the version before it, which no other edit is made of
   (NoEditLost): updatePolicy's read and its insert are apart, the unique index joins
   them. *)
THEOREM EditsAreNotLost == Spec => []NoEditLost
<1>1. PolicyInv => NoEditLost
  BY DEF PolicyInv, HistoryAgrees
<1> QED
  BY <1>1, AlwaysAgrees, PTL

(* Saved means one row is in the history, turned away means none is
   (AnsweredAsSaved). *)
THEOREM AnswersAreTrue == Spec => []AnsweredAsSaved
<1>1. PolicyInv => AnsweredAsSaved
  <2> SUFFICES ASSUME PolicyInv, NEW a \in Admin, admin[a].pc = "idle", admin[a].request > 0
               PROVE  /\ admin[a].reply = "saved" =>
                           \E w \in RowsBy(admin[a].request) : w.row.version = admin[a].version
                      /\ admin[a].reply \notin {"saved", "fault"} => RowsBy(admin[a].request) = {}
                      /\ \A v, w \in RowsBy(admin[a].request) : v = w
    BY DEF AnsweredAsSaved
  <2>1. HandlerAgrees(admin[a])
    BY DEF PolicyInv, HandlersAgree
  <2>2. ASSUME NEW w \in written, w.row.createdBy = admin[a].request
        PROVE  w.row.id = NewId(admin[a].request)
    <3>1. PICK r \in rule : SameVersion(r, w.row)
      BY DEF PolicyInv, HistoryAgrees
    <3>2. r.createdBy # 0 /\ RuleAgrees(r)
      BY <2>2, <3>1 DEF PolicyInv, RulesAgree, SameVersion
    <3> QED
      BY <2>2, <3>1, <3>2 DEF RuleAgrees, SameVersion
  <2>3. \A v, w \in RowsBy(admin[a].request) : v = w
    BY <2>2 DEF RowsBy, PolicyInv, HistoryAgrees
  <2> QED
    BY <2>1, <2>3 DEF HandlerAgrees
<1> QED
  BY <1>1, AlwaysAgrees, PTL

(* Whatever a tenant's admins save, what the platform does not offer for
   confirmation is not offered, and a match is at least as strict as the platform's
   (TenantOnlyStricter): there are only rules to add, and the strictest match wins. *)
THEOREM TenantsOnlyTighten == Spec => []TenantOnlyStricter
<1>1. PolicyInv => TenantOnlyStricter
  <2> SUFFICES ASSUME PolicyInv, NEW world \in World
               PROVE  LET d == Evaluate(rule, world)
                          b == Evaluate(BaselineRules, world)
                      IN  /\ d.outcome # "auto-execute"
                          /\ d.outcome = "confirm-required" => b.outcome = "confirm-required"
                          /\ ~d.defaulted => Restrictiveness(d.outcome) >= Restrictiveness(b.outcome)
                          /\ d.defaulted /\ ~b.defaulted =>
                               \E r \in rule : r.active /\ r.createdBy = 0 /\ ~ValidDefinition(r)
    BY DEF TenantOnlyStricter
  <2>1. BaselineRules \subseteq rule /\ rule \subseteq RuleRow
    BY DEF PolicyInv, RulesAgree, RuleAgrees
  <2>2. world.status \in OrderStatus /\ \A field \in ConditionFields : Knows(world, field)
    BY WorldAssumption
  <2>3. \A r \in rule : ~ValidDefinition(r) => r.createdBy = 0
    BY DEF PolicyInv, RulesAgree, RuleAgrees
  <2> QED
    BY <2>1, <2>2, <2>3, AddedRulesAreStricter
<1> QED
  BY <1>1, AlwaysAgrees, PTL

(* The version a decision names is never changed or removed, so it still gives the
   decision that was recorded (DecisionsStayExplained). *)
THEOREM PastDecisionsAreExplained == Spec => []DecisionsStayExplained
<1>1. PolicyInv => DecisionsStayExplained
  BY DEF PolicyInv
<1> QED
  BY <1>1, AlwaysAgrees, PTL
=============================================================================
