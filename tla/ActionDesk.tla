---------------------------- MODULE ActionDesk ----------------------------
(* The action path as a whole: requests that propose, confirm and reject, the
   expiry sweep, and the three other writers of what they read -- shipping,
   the policy console and the agents who work tickets. *)
EXTENDS ActionService, ExpirySweep

CONSTANT ShippingMoves   \* how shipping may move an order: pairs of statuses

ASSUME ShippingMovesAssumption == ShippingMoves \subseteq ShippingStatus \X ShippingStatus

vars == <<dbVars, serviceVars, sweepVars>>

TypeOK == RepoTypeOK /\ ServiceTypeOK /\ SweepTypeOK

Init == RepoInit /\ ServiceInit /\ SweepInit

(* The shipping system moves an order along, through a versioned save or
   through a plain update that leaves __v as it was. *)
ShippingUpdate(o) ==
    /\ \E move \in ShippingMoves, bump \in {0, 1} :
         /\ order[o].status = move[1]
         /\ order' = [order EXCEPT ![o] =
              [status |-> move[2], version |-> @.version + bump]]
    /\ UNCHANGED <<proposal, decision, rechecks, outcome, escalations, activeTicket, rules>>

(* An admin saves a version of a rule, new orders shift the customer's 90-day
   count, or a rule about the order's age starts or stops to hold: the same
   order is ruled on differently from now on. *)
RulingsChange ==
    /\ rules' \in RuleSets \ {rules}
    /\ UNCHANGED <<order, proposal, decision, rechecks, outcome, escalations, activeTicket>>

(* An agent closes the conversation's ticket: it is no longer the active one. *)
TicketCloses ==
    /\ activeTicket
    /\ activeTicket' = FALSE
    /\ UNCHANGED <<order, proposal, decision, rechecks, outcome, escalations, rules>>

OtherWriters ==
    /\ (\E o \in Order : ShippingUpdate(o)) \/ RulingsChange \/ TicketCloses
    /\ UNCHANGED <<serviceVars, sweepVars>>

SweepFails(s) ==
    /\ SweepStops(s)
    /\ faults < MaxFaults
    /\ faults' = faults + 1
    /\ UNCHANGED req

SweepNext ==
    \/ \E s \in Sweeper : SweepStep(s) /\ UNCHANGED serviceVars
    \/ \E s \in Sweeper : SweepFails(s)
    \/ \E s \in Sweeper, p \in Proposal : Age(p) /\ UNCHANGED serviceVars

Next ==
    \/ \E r \in Request : RequestNext(r) /\ UNCHANGED sweepVars
    \/ SweepNext
    \/ OtherWriters

Spec == Init /\ [][Next]_vars

(* A handler that has started keeps running, the scheduler keeps starting the
   sweep, and time passes. Customers, shipping and admins owe nothing, and
   failures are finite in number. *)
Fairness ==
    /\ \A r \in Request : WF_vars(RequestStep(r) /\ UNCHANGED sweepVars)
    /\ \A s \in Sweeper : WF_vars(SweepStep(s) /\ UNCHANGED serviceVars)
    /\ WF_vars(\E p \in Proposal : Age(p) /\ UNCHANGED serviceVars)

FairSpec == Spec /\ Fairness

----------------------------------------------------------------------------
(* Safety *)

(* An order is cancelled exactly when a proposal that names it has an executed
   outcome, and never more than one has: the order change and its audit row
   are one fact, across any race of confirmations of any proposals. *)
CancelledExactlyWhenExecuted ==
    /\ \A o \in Order : order[o].status = "cancelled" <=>
         \E p \in Proposal : outcome[p].outcome = "executed" /\ proposal[p].order = o
    /\ \A p, q \in Proposal :
         /\ outcome[p].outcome = "executed"
         /\ outcome[q].outcome = "executed"
         /\ proposal[p].order = proposal[q].order
         => p = q

(* Nothing executes unless policy said confirm-required when it was proposed
   and said so again when it was confirmed, both on record. *)
ExecutedWasAuthorisedTwice ==
    \A p \in Proposal : outcome[p].outcome = "executed" =>
        /\ decision[p] = "confirm-required"
        /\ \E row \in rechecks[p] : row.ruling = "confirm-required"

(* Every record that escalates has exactly one ticket event of its own, and no
   other proposal has any: the record and the ticket commit together whatever
   races, retries and failures the write meets. *)
TicketWithItsCause ==
    \A p \in Proposal : escalations[p] =
        IF \/ proposal[p].validity = "malformed"
           \/ /\ KeyHeld(p)
              /\ AutomaticEscalationReason("resolved", outcome[p].ruling, outcome[p].outcome)
                   # "none"
        THEN 1 ELSE 0

(* What a customer is told of the action is what happened to the order: an
   "executed" answer stands on the executed row, a "rejected" one on the row
   that rules the cancellation out for good. *)
AnswersAreTrue ==
    \A r \in Request :
        /\ req[r].reply.kind = "executed" => outcome[req[r].prop].outcome = "executed"
        /\ req[r].reply.kind = "rejected" =>
             outcome[req[r].prop].outcome = "rejected_by_customer"

(* A colleague is promised only once the ticket exists, wherever the promise is
   made by the request that proposes or by one that failed to execute. *)
PromiseKeptOutsideLateRefusals ==
    \A r \in Request : req[r].reply.escalated /\ req[r].reply.kind # "stale" =>
        escalations[req[r].prop] = 1

(* A colleague is promised only once the ticket exists, by any answer. *)
PromiseKept ==
    \A r \in Request : req[r].reply.escalated => escalations[req[r].prop] = 1

----------------------------------------------------------------------------
(* What a step may never do *)

(* An order is cancelled only while it still holds the status some recorded
   execution-time decision ruled cancellable: shipping can not slip between
   the re-check and the write, with or without a version. *)
CancelsOnCurrentFacts ==
    \A o \in Order : order[o].status # "cancelled" /\ order'[o].status = "cancelled" =>
        \E p \in Proposal :
            /\ outcome'[p].outcome = "executed"
            /\ [status |-> order[o].status, ruling |-> "confirm-required"] \in rechecks[p]

CancelledOnCurrentFacts == [][CancelsOnCurrentFacts]_vars

(* ADR 0003: the second evaluation is made inside the execution transaction and
   reads the current rule version, so an order is cancelled only under rules
   that allow it at that moment. *)
CancelledUnderCurrentRules ==
    [][\A o \in Order : order[o].status # "cancelled" /\ order'[o].status = "cancelled" =>
         rules[order[o].status] = "confirm-required"]_vars

----------------------------------------------------------------------------
(* Liveness *)

(* Every request that has begun is answered, unless its process stops. *)
EveryRequestAnswered ==
    \A r \in Request : req[r].pc \in Running ~> req[r].pc \in {"done", "dead"}

(* A proposal put to the customer is settled in the end, by somebody's answer
   or by the sweep. *)
OfferedIsSettled ==
    \A p \in Proposal : decision[p] = "confirm-required" ~> KeyHeld(p)

----------------------------------------------------------------------------
(* The abstract specification this one implements *)

PhaseOf(p) ==
    IF proposal[p] = NoProposal THEN "absent"
    ELSE IF proposal[p].validity = "malformed" THEN "malformed"
    ELSE IF KeyHeld(p) THEN outcome[p].outcome
    ELSE IF decision[p] = "none" THEN "recorded"
    ELSE IF decision[p] = "confirm-required" THEN "offered"
    ELSE "barred"

Lifecycle == INSTANCE ProposalLifecycle WITH
    phase <- [p \in Proposal |-> PhaseOf(p)],
    cancelled <- {o \in Order : order[o].status = "cancelled"}

(* The action path implements the proposal's life cycle: legal moves only, one
   per step, the execution and the cancellation in the same step. *)
LifecycleSpec == Lifecycle!Spec
============================================================================
