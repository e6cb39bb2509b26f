---------------------------- MODULE MCPolicyDesk ----------------------------
(* Values for TLC: a seeded rule about large orders, one saved before the registry
   lost a field, and what two admins may send. *)
EXTENDS PolicyLoop, TLC

MCText ==
    OutcomeLadder \union OrderStatus \union ConditionFields \union {"order.weight", "version", "GBP"}
      \union {"eq", "ne", "in", "nin", "lt", "lte", "gt", "gte", "plain", "internal", "none"}
      \union EditableFields

TextValue(t) == [shape |-> "text", texts |-> {t}, number |-> 0]
List(ts) == [shape |-> "list", texts |-> ts, number |-> 0]
Number(n) == [shape |-> "number", texts |-> {}, number |-> n]
On(field, op, value) == [field |-> field, op |-> op, value |-> value]

LargeOrder == On("order.totalMinor", "gt", Number(100))
FewOrders  == On("customer.orderCount90d", "lt", Number(2))
Recent     == On("order.ageHours", "lte", Number(2))
NotPlaced  == On("order.status", "ne", TextValue("placed"))

Stored(id, active, outcome, conditions) ==
    [id |-> id, scope |-> "tenant", ruleKey |-> id, version |-> 1, active |-> active,
     priority |-> 50, outcome |-> outcome, message |-> "plain", createdBy |-> 0,
     conditions |-> conditions]

MCTenantRules ==
    {Stored(5, TRUE, "agent-only", <<LargeOrder>>),
     Stored(6, TRUE, "refuse", <<On("order.weight", "gt", Number(5))>>)}

To(fields, active, outcome, conditions) ==
    [NoChange EXCEPT !.fields = fields, !.active = active, !.outcome = outcome,
                     !.conditions = conditions, !.message = "internal"]

MCChange ==
    {To({"active"}, FALSE, "none", <<>>),
     To({"outcome", "conditions"}, FALSE, "refuse", <<LargeOrder, FewOrders>>),
     To({"conditions", "active"}, TRUE, "none", <<NotPlaced>>),
     To({"outcome", "version"}, FALSE, "auto-execute", <<>>)}

New(key, priority, outcome, conditions) ==
    [ruleKey |-> key, unexpected |-> FALSE, priority |-> priority, outcome |-> outcome,
     message |-> "plain", conditions |-> conditions]

MCDefinition ==
    {New(7, 5, "confirm-required", <<Recent>>),
     New(7, 100, "agent-only", <<On("order.status", "gt", Number(2))>>)}

Known == {"order.status", "order.currency", "order.placedAt", "order.totalMinor",
          "customer.orderCount90d"}

Facts(status, total, placedAt, known) ==
    [known |-> known, status |-> status, currency |-> "GBP", totalMinor |-> total,
     placedAt |-> placedAt, now |-> 4, orderCount90d |-> 2]

MCWorld ==
    {Facts("placed", 200, 3, Known), Facts("delivered", 200, 1, Known)}

MCSymmetry == Permutations(Admin)
=============================================================================
