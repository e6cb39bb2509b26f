---------------------------- MODULE ActionRepo ----------------------------
(* The collections the action path writes (server/src/policy/mongoActionRepo.js
   and the models it uses) and what its queries and unique indexes guarantee.

   The universe is one customer of one tenant: Order holds that customer's
   orders and every proposal belongs to one conversation of theirs, so a
   tenant- or customer-scoped query that finds nothing is a lookup of NoOrder
   or of a proposal that was never recorded. *)
EXTENDS Integers, FiniteSets

CONSTANTS
    Proposal,       \* ids of action proposals
    Order,          \* ids of the customer's orders
    NoOrder,        \* an order number that resolves to none of them
    ShippingStatus, \* the statuses an order has while it is not cancelled
    RuleSets,       \* what the active rules may say: functions Status -> Ruling
    Asked           \* the proposals already put to the customer when we start looking

(* What engine.evaluate answers, with the one bit of the rule's text that
   control depends on: whether a refusal explains itself to the customer. Every
   rule saved through the console does; a row written past the schema may not. *)
Ruling == {"confirm-required", "agent-only", "refuse-explained", "refuse-silent"}

Status == ShippingStatus \union {"cancelled"}

(* BASE-CANCEL-ALREADY-CANCELLED refuses a cancelled order, a tenant rule can only make
   a ruling stricter, and failing closed leaves it to an agent, so no set of
   rules offers to cancel one again. *)
ASSUME RuleSetsAssumption ==
    /\ "cancelled" \notin ShippingStatus
    /\ RuleSets \subseteq [Status -> Ruling]
    /\ \A f \in RuleSets : f["cancelled"] # "confirm-required"

ASSUME IdsAssumption ==
    /\ NoOrder \notin Order
    /\ IsFiniteSet(Proposal)
    /\ Asked \subseteq Proposal

VARIABLES
    order,        \* [Order -> status and __v]
    proposal,     \* ActionProposal rows: validity, target order, createdAt
    decision,     \* PolicyDecision, stage 'proposal': at most one per proposal
    rechecks,     \* PolicyDecision, stage 'execution': the facts and rulings recorded
    outcome,      \* ActionOutcome: at most one row per idempotency key
    escalations,  \* TicketEvent rows naming the proposal, counted
    activeTicket, \* whether the conversation has an active ticket
    rules         \* PolicyRule: the rulings the active rules give

dbVars == <<order, proposal, decision, rechecks, outcome, escalations, activeTicket, rules>>

OutcomeKind == {"refused_at_proposal", "escalated_at_proposal", "rejected_by_customer",
                "refused_at_execution", "executed", "failed", "expired"}

NoProposal == [validity |-> "absent", order |-> NoOrder, createdAt |-> 0]

NoRow == [outcome |-> "none", ruling |-> "none"]

(* References that may be empty. *)
ProposalRef == Proposal \union {"none"}
OrderRef    == Order \union {NoOrder}
RulingRef   == Ruling \union {"none"}

(* The row of an outcome carries the decision that settled it. *)
OutcomeRow == [outcome : OutcomeKind \union {"none"}, ruling : RulingRef]

Snapshot == [status : Status, version : Nat]

RepoTypeOK ==
    /\ order \in [Order -> Snapshot]
    /\ proposal \in [Proposal -> [validity : {"absent", "malformed", "resolved"},
                                  order : OrderRef, createdAt : Nat]]
    /\ decision \in [Proposal -> RulingRef]
    /\ rechecks \in [Proposal -> SUBSET [status : Status, ruling : Ruling]]
    /\ outcome \in [Proposal -> OutcomeRow]
    /\ escalations \in [Proposal -> Nat]
    /\ activeTicket \in BOOLEAN
    /\ rules \in RuleSets

(* The desk as it may be found: some dialogs are open, nothing is settled. *)
RepoInit ==
    /\ order \in [Order -> [status : ShippingStatus, version : {0}]]
    /\ \E target \in [Asked -> Order], at \in [Asked -> 1..Cardinality(Asked)] :
         /\ \A p, q \in Asked : at[p] = at[q] => p = q
         /\ proposal = [p \in Proposal |->
              IF p \in Asked
              THEN [validity |-> "resolved", order |-> target[p], createdAt |-> at[p]]
              ELSE NoProposal]
    /\ decision = [p \in Proposal |-> IF p \in Asked THEN "confirm-required" ELSE "none"]
    /\ rechecks = [p \in Proposal |-> {}]
    /\ outcome = [p \in Proposal |-> NoRow]
    /\ escalations = [p \in Proposal |-> 0]
    /\ activeTicket = FALSE
    /\ rules \in RuleSets

----------------------------------------------------------------------------
(* Mutations of the definitions below, each a bug the code could have. *)

\* The cancellation is keyed by the order's id alone.
Unconditional(o, snap) == TRUE
\* It is conditional on __v, which a plain update leaves as it was.
VersionOnlyFilter(o, snap) == order[o].version = snap.version
\* It writes a status the order's enum does not have.
MisspeltCancelOrder(o) ==
    order' = [order EXCEPT ![o] = [status |-> "canceled", version |-> @.version + 1]]

----------------------------------------------------------------------------

(* The unique index on idempotencyKey, which names the proposal and nothing
   else: whether an outcome row already holds the proposal's key. *)
KeyHeld(p) == outcome[p] # NoRow

(* The filter the cancellation is conditional on: the version and the facts
   the decision read. Nothing in the code changes an order's total or currency,
   so the status stands for the facts. *)
ConditionalCancelFilter(o, snap) ==
    /\ order[o].version = snap.version
    /\ order[o].status = snap.status

(* ADR 0010's table: why the system escalates on its own, or "none". *)
AutomaticEscalationReason(validity, ruling, want) ==
    IF validity = "malformed" THEN "proposal_malformed"
    ELSE IF want = "failed" THEN "execution_failed"
    ELSE IF ruling = "refuse-silent" THEN "policy_refused"
    ELSE IF ruling = "agent-only" THEN "policy_agent_only"
    ELSE "none"

(* create() on an immutable collection. createdAt orders proposals as the
   sweep's sort on (createdAt, _id) does: every proposal has its own. *)
InsertProposal(p, validity, o) ==
    proposal' = [proposal EXCEPT ![p] =
        [validity |-> validity, order |-> o,
         createdAt |-> Cardinality({q \in Proposal : proposal[q] # NoProposal}) + 1]]

InsertOutcome(p, kind, ruling) ==
    outcome' = [outcome EXCEPT ![p] = [outcome |-> kind, ruling |-> ruling]]

(* applyEscalation in the caller's transaction: the conversation has an active
   ticket afterwards, with one event that names the proposal. *)
ApplyEscalation(p) ==
    /\ escalations' = [escalations EXCEPT ![p] = @ + 1]
    /\ activeTicket' = TRUE

(* The order change of executeCancellation. *)
CancelOrder(o) ==
    order' = [order EXCEPT ![o] = [status |-> "cancelled", version |-> @.version + 1]]
============================================================================
