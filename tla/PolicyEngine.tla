---------------------------- MODULE PolicyEngine ----------------------------
(* What the rules in force say of an order: server/src/policy/engine.js, with the
   vocabulary it reads rules by. evaluate is a pure function, so these are
   operators; the loop it is written as is in PolicyLoop.

   There is one action type, order.cancel. A rule's key and its id are numbers,
   their places in the order localeCompare puts them in, and a value in a
   condition is its shape, the texts in it and the number it is. *)
EXTENDS Integers, Sequences

CONSTANT Text       \* what the strings of rules may be

OutcomeLadder == {"auto-execute", "confirm-required", "agent-only", "refuse"}

(* -1 is any text that is not on the ladder. *)
Restrictiveness(outcome) ==
    CASE outcome = "auto-execute"     -> 0
      [] outcome = "confirm-required" -> 1
      [] outcome = "agent-only"       -> 2
      [] outcome = "refuse"           -> 3
      [] OTHER                        -> -1

OrderStatus == {"placed", "paid", "packed", "dispatched", "delivered", "cancelled"}

EnumFields == {"order.status", "order.currency"}
IntFields  == {"order.ageHours", "order.totalMinor", "customer.orderCount90d"}
ConditionFields == EnumFields \union IntFields

Operators(field) ==
    CASE field = "order.status"   -> {"eq", "ne", "in", "nin"}
      [] field = "order.currency" -> {"eq", "in"}
      [] OTHER                    -> {"lt", "lte", "gt", "gte"}

(* The platform's rules are written in it. *)
ASSUME TextAssumption ==
    OutcomeLadder \union OrderStatus \union ConditionFields \union {"eq", "in", "plain"} \subseteq Text

(* A rule as it is stored. *)
Condition ==
    [field : Text, op : Text,
     value : [shape : {"text", "list", "number"}, texts : SUBSET Text, number : Int]]

RuleRow ==
    [id : Nat, scope : {"baseline", "tenant"}, ruleKey : Nat, version : Nat \ {0},
     active : BOOLEAN, priority : Nat, outcome : Text, message : Text, createdBy : Nat,
     conditions : Seq(Condition)]

(* What is known when a proposal is decided: the fields that have a value, and the
   values. The age is derived from the moment of the decision. *)
Knows(world, field) ==
    (IF field = "order.ageHours" THEN "order.placedAt" ELSE field) \in world.known

ResolveText(field, world) ==
    IF field = "order.status" THEN world.status ELSE world.currency

ResolveNumber(field, world) ==
    CASE field = "order.ageHours"   -> world.now - world.placedAt
      [] field = "order.totalMinor" -> world.totalMinor
      [] OTHER                      -> world.orderCount90d

CompareText(op, actual, value) ==
    CASE op = "eq"  -> value.shape = "text" /\ value.texts = {actual}
      [] op = "ne"  -> ~(value.shape = "text" /\ value.texts = {actual})
      [] op = "in"  -> actual \in value.texts
      [] op = "nin" -> actual \notin value.texts

CompareNumber(op, actual, value) ==
    CASE op = "lt"  -> actual < value.number
      [] op = "lte" -> actual <= value.number
      [] op = "gt"  -> actual > value.number
      [] op = "gte" -> actual >= value.number

(* Lists need a list, numbers a number; eq and ne take anything. *)
Comparable(op, value) ==
    CASE op \in {"in", "nin"} -> value.shape = "list"
      [] op \in {"eq", "ne"}  -> TRUE
      [] OTHER                -> value.shape = "number"

Holds(c, world) ==
    IF c.field \in EnumFields
    THEN CompareText(c.op, ResolveText(c.field, world), c.value)
    ELSE CompareNumber(c.op, ResolveNumber(c.field, world), c.value)

ConditionVerdict(c, world) ==
    IF c.field \notin ConditionFields      THEN "invalid"
    ELSE IF c.op \notin Operators(c.field) THEN "invalid"
    ELSE IF ~Knows(world, c.field)         THEN "incomplete"
    ELSE IF ~Comparable(c.op, c.value)     THEN "invalid"
    ELSE IF Holds(c, world)                THEN "match"
    ELSE "no-match"

(* The first condition that does not hold ends the matching of its rule. *)
MatchRule(rule, world) ==
    LET Verdict(i) == ConditionVerdict(rule.conditions[i], world)
        Ends == {i \in DOMAIN rule.conditions : Verdict(i) # "match"}
    IN  IF Restrictiveness(rule.outcome) = -1 THEN "invalid"
        ELSE IF Ends = {} THEN "match"
        ELSE Verdict(CHOOSE i \in Ends : \A j \in Ends : i <= j)

(* Priority, then key, then the newest version, then the id. *)
Precedes(a, b) ==
    \/ a.priority < b.priority
    \/ a.priority = b.priority /\ a.ruleKey < b.ruleKey
    \/ a.priority = b.priority /\ a.ruleKey = b.ruleKey /\ a.version > b.version
    \/ /\ a.priority = b.priority /\ a.ruleKey = b.ruleKey /\ a.version = b.version
       /\ a.id < b.id

First(rules) == CHOOSE a \in rules : \A b \in rules : a = b \/ Precedes(a, b)

(* A mutation of Strictest. *)

\* The first match wins, whatever it says.
FirstMatch(rules) == First(rules).outcome

FailClosed(reason) ==
    [outcome |-> "agent-only", ruleId |-> 0, ruleVersion |-> 0, defaulted |-> TRUE,
     reason |-> reason]

Strictest(rules) ==
    CHOOSE o \in OutcomeLadder :
        /\ \E a \in rules : a.outcome = o
        /\ \A b \in rules : Restrictiveness(b.outcome) <= Restrictiveness(o)

(* auto-execute is never selected. *)
Clamp(outcome) == IF outcome = "auto-execute" THEN "confirm-required" ELSE outcome

Decided(matches) ==
    LET winner == First({a \in matches : a.outcome = Strictest(matches)})
    IN  [outcome |-> Clamp(Strictest(matches)), ruleId |-> winner.id,
         ruleVersion |-> winner.version, defaulted |-> FALSE, reason |-> "none"]

(* A rule that cannot be evaluated fails closed; then no match does; then the
   strictest match decides. *)
Evaluate(rules, world) ==
    LET candidates == {r \in rules : r.active}
        unevaluable == {r \in candidates : MatchRule(r, world) \in {"incomplete", "invalid"}}
        matches == {r \in candidates : MatchRule(r, world) = "match"}
    IN  IF unevaluable # {}
        THEN FailClosed(IF MatchRule(First(unevaluable), world) = "invalid"
                        THEN "invalid_rule" ELSE "incomplete_world_state")
        ELSE IF matches = {} THEN FailClosed("no_matching_rule")
        ELSE Decided(matches)

----------------------------------------------------------------------------
(* The platform's rules: one outcome for each status of an order. *)

StatusRule(key, priority, op, shape, statuses, outcome) ==
    [id |-> key, scope |-> "baseline", ruleKey |-> key, version |-> 1, active |-> TRUE,
     priority |-> priority, outcome |-> outcome, message |-> "plain", createdBy |-> 0,
     conditions |-> <<[field |-> "order.status", op |-> op,
                       value |-> [shape |-> shape, texts |-> statuses, number |-> 0]]>>]

BaselineRules ==
    {StatusRule(1, 10, "eq", "text", {"cancelled"}, "refuse"),
     StatusRule(2, 10, "eq", "text", {"delivered"}, "refuse"),
     StatusRule(3, 20, "eq", "text", {"dispatched"}, "agent-only"),
     StatusRule(4, 100, "in", "list", {"placed", "paid", "packed"}, "confirm-required")}
=============================================================================
