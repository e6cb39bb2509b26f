--------------------------- MODULE ActionService ---------------------------
(* PROPOSE -> CONFIRM -> EXECUTE: server/src/policy/actionService.js over the
   repository of ActionRepo. Each request is a process that takes one step per
   awaited repository call, so requests interleave between any two calls, and a
   call may fail before it writes, fail after its write has committed, or never
   return because the process stopped. *)
EXTENDS ActionRepo

CONSTANTS
    Request,    \* HTTP requests, each made once
    MaxFaults   \* bound: how many calls fail or processes stop in a behaviour

ASSUME MaxFaultsAssumption == MaxFaults \in Nat

VARIABLES
    req,        \* [Request -> the handler's local state]
    faults      \* failures so far

serviceVars == <<req, faults>>

(* Where a handler is: the call it is about to make. *)
Running == {"findCustomerOrder", "recordProposal", "loadPending", "findOrderById",
            "loadRules", "recordDecision", "decided", "executeCancellation",
            "findWinner", "insertOutcome", "beginWrite", "createTicket",
            "appendTicket", "findExisting", "answer"}

ReplyKind == {"none", "malformed", "confirm", "refused", "escalated", "executed",
              "rejected", "stale", "fault", "notFound"}

Reply(kind, escalated) == [kind |-> kind, escalated |-> escalated]

NoReply == Reply("none", FALSE)

NewRequest ==
    [op |-> "none", pc |-> "new", prop |-> "none", order |-> NoOrder,
     snap |-> [status |-> "cancelled", version |-> 0], ruling |-> "none",
     want |-> "none", retried |-> FALSE, result |-> NoRow, duplicate |-> FALSE,
     reply |-> NoReply]

OpType == {"none", "propose", "confirm", "reject"}

PcType == Running \union {"new", "done", "dead"}

WantType == OutcomeKind \union {"none", "malformed"}

ReplyType == [kind : ReplyKind, escalated : BOOLEAN]

RequestState ==
    [op : OpType, pc : PcType, prop : ProposalRef, order : OrderRef, snap : Snapshot,
     ruling : RulingRef, want : WantType, retried : BOOLEAN, result : OutcomeRow,
     duplicate : BOOLEAN, reply : ReplyType]

ServiceTypeOK ==
    /\ req \in [Request -> RequestState]
    /\ faults \in 0..MaxFaults

ServiceInit ==
    /\ req = [r \in Request |-> NewRequest]
    /\ faults = 0

(* What becomes of a handler q: it begins, turns to its next call, remembers what
   a read gave it, or decides what it is there to record. *)
Begins(op, p, pc)  == [NewRequest EXCEPT !.op = op, !.prop = p, !.pc = pc]
At(q, pc)          == [q EXCEPT !.pc = pc]
Targets(q, o, pc)  == [q EXCEPT !.order = o, !.pc = pc]
Sees(q, row, pc)   == [q EXCEPT !.snap = row, !.pc = pc]
Ruled(q, says, pc) == [q EXCEPT !.ruling = says, !.pc = pc]
Wants(q, want, pc) == [q EXCEPT !.want = want, !.pc = pc]
Retries(q, pc)     == [q EXCEPT !.retried = TRUE, !.pc = pc]

(* It turns to recording an outcome: what it read of the order is forgotten. *)
Settles(q, want, ruling, pc) ==
    Ruled(Wants(Begins(q.op, q.prop, pc), want, pc), ruling, pc)

(* recordOutcome or executeCancellation has returned a row. *)
Given(q, row, duplicate) ==
    [Settles(q, q.want, q.ruling, "answer") EXCEPT !.result = row, !.duplicate = duplicate]

(* It returns or throws: only its answer is left of it. *)
Finished(q, pc, reply) == [Begins("none", q.prop, pc) EXCEPT !.reply = reply]

Become(r, q) == req' = [req EXCEPT ![r] = q]

Goto(r, pc) == Become(r, At(req[r], pc))

Finish(r, reply) == Become(r, Finished(req[r], "done", reply))

----------------------------------------------------------------------------
(* Propose *)

(* POST of a turn whose model output holds a proposal. Its shape is right or it
   is not, and the order number in it names one of the customer's orders or
   none: both come from the model. *)
StartPropose(r, p) ==
    /\ req[r].pc = "new"
    /\ proposal[p] = NoProposal
    /\ \A q \in Request : ~(req[q].op = "propose" /\ req[q].prop = p)
    /\ \/ Become(r, Wants(Begins("propose", p, "new"), "malformed", "beginWrite"))
       \/ \E o \in OrderRef :
            Become(r, Targets(Begins("propose", p, "new"), o, "findCustomerOrder"))
    /\ UNCHANGED <<dbVars, faults>>

FindCustomerOrder(r) ==
    /\ req[r].pc = "findCustomerOrder"
    /\ \/ /\ req[r].order \in Order
          /\ Become(r, Sees(req[r], order[req[r].order], "recordProposal"))
       \/ /\ req[r].order = NoOrder
          /\ Become(r, Wants(req[r], "malformed", "beginWrite"))
    /\ UNCHANGED <<dbVars, faults>>

RecordProposal(r) ==
    /\ req[r].pc = "recordProposal"
    /\ InsertProposal(req[r].prop, "resolved", req[r].order)
    /\ Goto(r, "loadRules")
    /\ UNCHANGED <<order, decision, rechecks, outcome, escalations, activeTicket, rules, faults>>

----------------------------------------------------------------------------
(* Confirm and reject: the shared checks *)

StartAnswer(r, p, op) ==
    /\ req[r].pc = "new"
    /\ Become(r, Begins(op, p, "loadPending"))
    /\ UNCHANGED <<dbVars, faults>>

(* The outcome a repeated request may report as its own result. *)
DuplicateOf(op) == IF op = "confirm" THEN "executed" ELSE "rejected_by_customer"

(* Three reads of rows that are written once and never change, so reading them
   at the moment of the outcome lookup loses no interleaving. *)
LoadPending(r) ==
    LET p == req[r].prop
        existing == outcome[p].outcome
    IN  /\ req[r].pc = "loadPending"
        /\ \/ /\ proposal[p].validity # "resolved"
              /\ Finish(r, Reply("notFound", FALSE))
           \/ /\ proposal[p].validity = "resolved"
              /\ KeyHeld(p)
              /\ Finish(r, Reply(IF existing # DuplicateOf(req[r].op) THEN "stale"
                                 ELSE IF req[r].op = "confirm" THEN "executed"
                                 ELSE "rejected", FALSE))
           \/ /\ proposal[p].validity = "resolved"
              /\ ~KeyHeld(p)
              /\ decision[p] # "confirm-required"
              /\ Finish(r, Reply("stale", FALSE))
           \/ /\ proposal[p].validity = "resolved"
              /\ ~KeyHeld(p)
              /\ decision[p] = "confirm-required"
              /\ \/ /\ req[r].op = "confirm"
                    /\ Become(r, Targets(req[r], proposal[p].order, "findOrderById"))
                 \/ /\ req[r].op = "reject"
                    /\ Become(r, Settles(req[r], "rejected_by_customer", decision[p],
                                         "insertOutcome"))
        /\ UNCHANGED <<dbVars, faults>>

(* No code deletes an order, so the ORDER_GONE answer has no step. *)
FindOrderById(r) ==
    /\ req[r].pc = "findOrderById"
    /\ Become(r, Sees(req[r], order[req[r].order], "loadRules"))
    /\ UNCHANGED <<dbVars, faults>>

----------------------------------------------------------------------------
(* decide: evaluate, and record the evaluation before returning it *)

LoadRules(r) ==
    /\ req[r].pc = "loadRules"
    /\ Become(r, Ruled(req[r], rules[req[r].snap.status], "recordDecision"))
    /\ UNCHANGED <<dbVars, faults>>

RecordDecision(r) ==
    /\ req[r].pc = "recordDecision"
    /\ \/ /\ req[r].op = "propose"
          /\ decision' = [decision EXCEPT ![req[r].prop] = req[r].ruling]
          /\ UNCHANGED rechecks
       \/ /\ req[r].op = "confirm"
          /\ rechecks' = [rechecks EXCEPT ![req[r].prop] =
               @ \union {[status |-> req[r].snap.status, ruling |-> req[r].ruling]}]
          /\ UNCHANGED decision
    /\ Goto(r, "decided")
    /\ UNCHANGED <<order, proposal, outcome, escalations, activeTicket, rules, faults>>

\* Mutations: whatever is not refused may execute; no outcome escalates.
AuthorisesUnlessRefused(ruling) == ruling \in {"confirm-required", "agent-only"}
NeverEscalates(ruling, want) == "insertOutcome"

(* The outcome a decision other than confirm-required is recorded as. *)
RefusalKind(op, ruling) ==
    IF op = "confirm" THEN "refused_at_execution"
    ELSE IF ruling = "agent-only" THEN "escalated_at_proposal"
    ELSE "refused_at_proposal"

(* Only one outcome of the engine lets the customer act. *)
Authorises(ruling) == ruling = "confirm-required"

(* recordOutcome takes one path or the other by its escalation argument. *)
WriterFor(ruling, want) ==
    IF AutomaticEscalationReason("resolved", ruling, want) = "none"
    THEN "insertOutcome" ELSE "beginWrite"

ActOnDecision(r) ==
    LET kind == RefusalKind(req[r].op, req[r].ruling)
    IN  /\ req[r].pc = "decided"
        /\ \/ /\ Authorises(req[r].ruling)
              /\ req[r].op = "propose"
              /\ Finish(r, Reply("confirm", FALSE))
           \/ /\ Authorises(req[r].ruling)
              /\ req[r].op = "confirm"
              /\ Become(r, Wants(req[r], "executed", "executeCancellation"))
           \/ /\ ~Authorises(req[r].ruling)
              /\ Become(r, Settles(req[r], kind, req[r].ruling,
                                   WriterFor(req[r].ruling, kind)))
        /\ UNCHANGED <<dbVars, faults>>

----------------------------------------------------------------------------
(* Execute *)

Recorded(r, row, duplicate) == Become(r, Given(req[r], row, duplicate))

(* One transaction: look for the key, cancel conditionally, insert the row. *)
ExecuteCancellation(r) ==
    LET p == req[r].prop
        o == req[r].order
        row == [outcome |-> "executed", ruling |-> req[r].ruling]
    IN  /\ req[r].pc = "executeCancellation"
        /\ \/ /\ KeyHeld(p)
              /\ Recorded(r, outcome[p], TRUE)
              /\ UNCHANGED <<order, outcome>>
           \/ /\ ~KeyHeld(p)
              /\ ConditionalCancelFilter(o, req[r].snap)
              /\ CancelOrder(o)
              /\ InsertOutcome(p, "executed", req[r].ruling)
              /\ Recorded(r, row, FALSE)
           \/ /\ ~KeyHeld(p)
              /\ ~ConditionalCancelFilter(o, req[r].snap)
              /\ Goto(r, "findWinner")
              /\ UNCHANGED <<order, outcome>>
        /\ UNCHANGED <<proposal, decision, rechecks, escalations, activeTicket, rules, faults>>

(* After a conflict: was it another confirmation of this same proposal? *)
FindWinner(r) ==
    LET p == req[r].prop
    IN  /\ req[r].pc = "findWinner"
        /\ \/ KeyHeld(p) /\ Recorded(r, outcome[p], TRUE)
           \/ ~KeyHeld(p) /\ Finish(r, Reply("stale", FALSE))
        /\ UNCHANGED <<dbVars, faults>>

----------------------------------------------------------------------------
(* recordOutcome *)

(* Without an escalation: insert, or read the row that holds the key. *)
InsertOutcomeAlone(r) ==
    LET p == req[r].prop
    IN  /\ req[r].pc = "insertOutcome"
        /\ \/ /\ KeyHeld(p)
              /\ Recorded(r, outcome[p], TRUE)
              /\ UNCHANGED outcome
           \/ /\ ~KeyHeld(p)
              /\ InsertOutcome(p, req[r].want, req[r].ruling)
              /\ Recorded(r, [outcome |-> req[r].want, ruling |-> req[r].ruling], FALSE)
        /\ UNCHANGED <<order, proposal, decision, rechecks, escalations, activeTicket,
                       rules, faults>>

(* With one: a transaction whose snapshot shows an active ticket or none. *)
BeginWrite(r) ==
    /\ req[r].pc = "beginWrite"
    /\ Goto(r, IF activeTicket THEN "appendTicket" ELSE "createTicket")
    /\ UNCHANGED <<dbVars, faults>>

(* What the snapshot saw of the ticket is still so. *)
TicketAsSeen(r) == activeTicket <=> req[r].pc = "appendTicket"

(* The record and the ticket commit together. A malformed proposal is recorded
   as the proposal row itself; anything else as an outcome row. *)
CommitWrite(r) ==
    LET p == req[r].prop
    IN  /\ req[r].pc \in {"createTicket", "appendTicket"}
        /\ TicketAsSeen(r)
        /\ \/ /\ req[r].want = "malformed"
              /\ InsertProposal(p, "malformed", NoOrder)
              /\ Recorded(r, NoRow, FALSE)
              /\ UNCHANGED outcome
           \/ /\ req[r].want # "malformed"
              /\ ~KeyHeld(p)
              /\ InsertOutcome(p, req[r].want, req[r].ruling)
              /\ Recorded(r, [outcome |-> req[r].want, ruling |-> req[r].ruling], FALSE)
              /\ UNCHANGED proposal
        /\ ApplyEscalation(p)
        /\ UNCHANGED <<order, decision, rechecks, rules, faults>>

\* Mutation: the attempt is repeated on the snapshot it already has.
RerunOnSameSnapshot(r) ==
    /\ req[r].pc \in {"createTicket", "appendTicket"}
    /\ ~TicketAsSeen(r)
    /\ Goto(r, req[r].pc)
    /\ UNCHANGED <<dbVars, faults>>

(* withTransaction runs the callback again after a transient write conflict:
   the ticket was created or closed after the snapshot. *)
RerunWrite(r) ==
    /\ req[r].pc \in {"createTicket", "appendTicket"}
    /\ ~TicketAsSeen(r)
    /\ Goto(r, "beginWrite")
    /\ UNCHANGED <<dbVars, faults>>

(* A duplicate key: on the outcome, or on the ticket another escalation has
   created since. The first time the handler looks for the winner's row (a
   malformed proposal has no key, and is simply written again); the second
   time the error leaves recordOutcome. *)
LoseWrite(r) ==
    /\ req[r].pc \in {"createTicket", "appendTicket"}
    /\ \/ req[r].want # "malformed" /\ KeyHeld(req[r].prop)
       \/ req[r].pc = "createTicket" /\ activeTicket
    /\ \/ req[r].retried /\ Finish(r, Reply("fault", FALSE))
       \/ /\ ~req[r].retried
          /\ Become(r, Retries(req[r],
               IF req[r].want = "malformed" THEN "beginWrite" ELSE "findExisting"))
    /\ UNCHANGED <<dbVars, faults>>

FindExisting(r) ==
    LET p == req[r].prop
    IN  /\ req[r].pc = "findExisting"
        /\ \/ KeyHeld(p) /\ Recorded(r, outcome[p], TRUE)
           \/ ~KeyHeld(p) /\ Goto(r, "beginWrite")
        /\ UNCHANGED <<dbVars, faults>>

----------------------------------------------------------------------------
(* What each operation answers with the row it was given *)

\* Mutations: every failure claims a colleague; the answer trusts the handler's own
\* write over the row it was given back.
FaultAlwaysEscalated(q) ==
    IF q.result.outcome = "executed" THEN Reply("executed", FALSE)
    ELSE IF q.want \in {"executed", "refused_at_execution"} THEN Reply("stale", FALSE)
    ELSE Reply("fault", TRUE)
TrustsOwnWrite(q) ==
    IF q.want = "executed" THEN Reply("executed", FALSE) ELSE Reply("stale", FALSE)

ProposeReply(q) ==
    IF q.want = "malformed" THEN Reply("malformed", TRUE)
    ELSE Reply(IF q.want = "refused_at_proposal" THEN "refused" ELSE "escalated",
               AutomaticEscalationReason("resolved", q.ruling, q.want) # "none")

ConfirmReply(q) ==
    IF q.result.outcome = "executed" THEN Reply("executed", FALSE)
    ELSE IF q.want = "executed" THEN Reply("stale", FALSE)
    ELSE IF q.want = "refused_at_execution"
         THEN Reply("stale", /\ AutomaticEscalationReason("resolved", q.ruling, q.want) # "none"
                             /\ ~q.duplicate \/ q.result.outcome = "refused_at_execution")
    ELSE Reply("fault", ~q.duplicate \/ q.result.outcome = "failed")

RejectReply(q) ==
    Reply(IF q.result.outcome = "rejected_by_customer" THEN "rejected" ELSE "stale", FALSE)

Respond(r) ==
    /\ req[r].pc = "answer"
    /\ \/ req[r].op = "propose" /\ Finish(r, ProposeReply(req[r]))
       \/ req[r].op = "confirm" /\ Finish(r, ConfirmReply(req[r]))
       \/ req[r].op = "reject"  /\ Finish(r, RejectReply(req[r]))
    /\ UNCHANGED <<dbVars, faults>>

----------------------------------------------------------------------------
(* Failures *)

(* A call throws, before its write or after its commit. While the cancellation
   is being executed, confirm catches it and records the terminal failure;
   everywhere else, and when that record fails too, the request ends in a 500
   that claims nothing. *)
CallFails(r) ==
    /\ req[r].pc \in Running
    /\ faults < MaxFaults
    /\ faults' = faults + 1
    /\ \/ /\ req[r].want = "executed"
          /\ Become(r, Settles(req[r], "failed", req[r].ruling, "beginWrite"))
       \/ /\ req[r].want # "executed"
          /\ Finish(r, Reply("fault", FALSE))
    /\ UNCHANGED dbVars

(* The process stops: nobody is answered. *)
Crash(r) ==
    /\ req[r].pc \in Running
    /\ faults < MaxFaults
    /\ faults' = faults + 1
    /\ Become(r, Finished(req[r], "dead", NoReply))
    /\ UNCHANGED dbVars

----------------------------------------------------------------------------

(* One step of a handler that neither fails nor has yet to start. *)
RequestStep(r) ==
    \/ FindCustomerOrder(r) \/ RecordProposal(r)
    \/ LoadPending(r) \/ FindOrderById(r)
    \/ LoadRules(r) \/ RecordDecision(r) \/ ActOnDecision(r)
    \/ ExecuteCancellation(r) \/ FindWinner(r)
    \/ InsertOutcomeAlone(r) \/ BeginWrite(r) \/ CommitWrite(r) \/ RerunWrite(r)
    \/ LoseWrite(r) \/ FindExisting(r) \/ Respond(r)

RequestNext(r) ==
    \/ \E p \in Proposal : StartPropose(r, p)
    \/ \E p \in Proposal, op \in {"confirm", "reject"} : StartAnswer(r, p, op)
    \/ RequestStep(r)
    \/ CallFails(r)
    \/ Crash(r)
============================================================================
