------------------------------ MODULE AuditQuery ------------------------------
(* What a lead may ask of the audit, what an attempt is, and which attempts answer:
   the pure parts of server/src/policy/auditQuery.js and mongoAuditRepo.js. A query is
   the record of the parameters it gives; one given twice has a value nobody may give. *)
EXTENDS Integers, FiniteSets

CONSTANTS
    Customer,       \* ids
    DefaultLimit,   \* rows of a page, unless the query says
    MaxLimit        \* and at most

ASSUME PageLimits == DefaultLimit \in 1..MaxLimit /\ MaxLimit \in Nat

Outcomes ==
    {"refused_at_proposal", "escalated_at_proposal", "rejected_by_customer", "expired",
     "refused_at_execution", "executed", "failed"}

AttemptKinds == {"malformed", "pending"} \union Outcomes

(* What the assistant was stopped from doing. *)
StoppedKinds ==
    {"malformed", "refused_at_proposal", "escalated_at_proposal", "refused_at_execution"}

AllowedParams ==
    {"kind", "preset", "actionType", "customerId", "from", "to", "limit", "cursor"}

Gives(raw, param) == param \in DOMAIN raw

(* parseAuditQuery finds nothing wrong with it. *)
Accepted(raw) ==
    /\ DOMAIN raw \subseteq AllowedParams
    /\ ~({"kind", "preset"} \subseteq DOMAIN raw)
    /\ Gives(raw, "preset") => raw.preset = "stopped"
    /\ Gives(raw, "kind") => raw.kind # {} /\ raw.kind \subseteq AttemptKinds
    /\ Gives(raw, "actionType") => raw.actionType = "order.cancel"
    /\ Gives(raw, "customerId") => raw.customerId \in Customer
    /\ \A bound \in {"from", "to"} \intersect DOMAIN raw : raw[bound] \in Nat
    /\ {"from", "to"} \subseteq DOMAIN raw => raw.from <= raw.to
    /\ Gives(raw, "limit") => raw.limit \in 1..MaxLimit

(* The kinds it asks for; without a filter, all of them: refusals and malformed
   attempts are in it by default. *)
KindsOf(raw) ==
    IF Gives(raw, "preset") THEN StoppedKinds
    ELSE IF Gives(raw, "kind") THEN raw.kind
    ELSE AttemptKinds

LimitOf(raw) == IF Gives(raw, "limit") THEN raw.limit ELSE DefaultLimit

----------------------------------------------------------------------------
(* Attempts *)

(* kindOf, which labels an attempt. *)
KindOf(attempt) ==
    IF attempt.validity = "malformed" THEN "malformed"
    ELSE IF attempt.outcome # "none" THEN attempt.outcome
    ELSE "pending"

\* Mutation: whatever has no outcome is pending.
OutcomeOrPending(attempt) == IF attempt.outcome # "none" THEN attempt.outcome ELSE "pending"

(* The pipeline's own $switch over the joined rows, which filters it. *)
FilteredKind(attempt) ==
    CASE attempt.validity = "malformed" -> "malformed"
      [] attempt.validity # "malformed" /\ attempt.outcome # "none" -> attempt.outcome
      [] OTHER -> "pending"

(* The pipeline's $match stages but for the cursor's. There is one type of action, and
   an attempt records it exactly when it is resolved. *)
AttemptMatches(raw, attempt) ==
    /\ Gives(raw, "actionType") => attempt.validity = "resolved"
    /\ Gives(raw, "customerId") => attempt.customer = raw.customerId
    /\ Gives(raw, "from") => attempt.at >= raw.from
    /\ Gives(raw, "to") => attempt.at <= raw.to
    /\ FilteredKind(attempt) \in KindsOf(raw)

(* toAuditEntry, of which the filters' fields are kept. *)
AuditEntry(attempt, id) ==
    [id |-> id, at |-> attempt.at, label |-> KindOf(attempt), customer |-> attempt.customer]
=============================================================================
