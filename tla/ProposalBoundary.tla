--------------------------- MODULE ProposalBoundary ---------------------------
(* What the AI service may propose and what becomes of it: the raw proposal
   (ai-service/app/pipeline/intent.py), the shape the server accepts
   (server/src/policy/proposal.js) and the frame the customer is sent instead
   (server/src/policy/proposalFrames.js). *)
EXTENDS Naturals, Sequences, FiniteSets

OrderNumber == {"1043", "1044", "9999"}
Placeholder == {"latest", "order"}

AuthorisationFields == {"confirmed", "tier", "outcome"}

EvidenceItem(ref) == [shape |-> "object", fields |-> {"kind", "ref"}, kind |-> "kb_chunk", ref |-> ref]

(* build_proposal: an order number as the customer typed it, and references. *)
BuildProposal(number, refs) ==
    [shape |-> "object", fields |-> {"actionType", "target", "evidence"},
     actionType |-> "order.cancel",
     target |-> [shape |-> "object", fields |-> {"kind", "orderNumber"}, kind |-> "order",
                 numberShape |-> "string", number |-> number],
     evidenceShape |-> "list", evidence |-> {EvidenceItem(ref) : ref \in refs},
     reasonShape |-> "none"]

NoRaw == [shape |-> "none"]

MaxEvidence == 20

If(condition, code) == IF condition THEN {code} ELSE {}

TargetProblems(target) ==
    IF target.shape # "object" THEN {"target_not_an_object"}
    ELSE UNION {
        If(~(target.fields \subseteq {"kind", "orderNumber"}), "unexpected_target_field"),
        If(target.kind # "order", "wrong_target_kind"),
        IF target.numberShape # "string" THEN {"order_number_not_string"}
        ELSE UNION {
          If(target.number \notin OrderNumber \union Placeholder, "order_number_not_concrete"),
          If(target.number \in Placeholder, "order_number_placeholder") } }

EvidenceItemProblems(item) ==
    IF item.shape # "object" THEN {"evidence_not_an_object"}
    ELSE UNION {
        If(~(item.fields \subseteq {"kind", "ref"}), "unexpected_evidence_field"),
        If(item.kind \notin {"kb_chunk", "tool_result"}, "invalid_evidence_kind"),
        If(item.ref = "", "invalid_evidence_ref") }

EvidenceProblems(raw) ==
    CASE raw.evidenceShape = "none" -> {}
      [] raw.evidenceShape \notin {"none", "list"} -> {"evidence_not_an_array"}
      [] OTHER -> If(Cardinality(raw.evidence) > MaxEvidence, "too_much_evidence")
                    \union UNION {EvidenceItemProblems(item) : item \in raw.evidence}

TopLevel == {"actionType", "target", "evidence", "reasonCode"}

(* The codes that go on record; a proposal without any has the right shape. *)
ShapeProblems(raw) ==
    IF raw.shape # "object" THEN {"not_an_object"}
    ELSE UNION {
        If(raw.fields \intersect AuthorisationFields # {}, "asserted_authorisation"),
        If(~(raw.fields \subseteq TopLevel \union AuthorisationFields), "unexpected_field"),
        If(raw.actionType # "order.cancel", "unknown_action_type"),
        TargetProblems(raw.target),
        EvidenceProblems(raw),
        If(raw.reasonShape \notin {"none", "string"}, "reason_code_not_string") }

\* A mutation: fields that assert a decision are dropped instead of rejected.
StrippedProblems(raw, own) ==
    ShapeProblems([raw EXCEPT !.fields = @ \intersect TopLevel])
      \union If(raw.target.number \notin own, "target_does_not_resolve")

(* The scoped lookup finds an order or does not; another customer's is not found. *)
Problems(raw, own) ==
    IF ShapeProblems(raw) # {} THEN ShapeProblems(raw)
    ELSE If(raw.target.number \notin own, "target_does_not_resolve")

----------------------------------------------------------------------------
(* What the service answers to a proposal, and what the customer's stream is told *)

(* The kind of result: the rules are asked about a well-formed proposal only. *)
ResultKind(problems, ruling) ==
    IF problems # {} THEN "malformed"
    ELSE CASE ruling = "confirm-required"                  -> "confirm"
           [] ruling \in {"refuse-explained", "refuse-silent"} -> "refused"
           [] OTHER                                        -> "escalated"

(* Whether a person is brought in with it (escalation.js automaticEscalationReason). *)
Escalates(kind, ruling) ==
    \/ kind \in {"malformed", "escalated"}
    \/ kind = "refused" /\ ruling = "refuse-silent"

ProposalFrame(id, number) == [event |-> "proposal", id |-> id, number |-> number]
PolicyFrame(kind, escalated) == [event |-> "policy", kind |-> kind, escalated |-> escalated]

FramesForProposalResult(kind, id, number, escalated) ==
    CASE kind = "confirm"                  -> <<ProposalFrame(id, number)>>
      [] kind \in {"refused", "escalated"} -> <<PolicyFrame("refused", escalated)>>
      [] kind = "malformed"                -> <<PolicyFrame("malformed", escalated)>>
=============================================================================
