--------------------------- MODULE ActionDeskInv ---------------------------
(* The inductive invariant behind the safety of the action path: what the rows
   say of one another, and what a handler may rely on at each of its calls. *)
EXTENDS ActionDesk

(* Calls of a handler that has a row to write. *)
Writing == {"insertOutcome", "beginWrite", "createTicket", "appendTicket", "findExisting"}

Escalates(ruling, kind) == AutomaticEscalationReason("resolved", ruling, kind) # "none"

AtProposal == {"refused_at_proposal", "escalated_at_proposal"}

(* The rows of one proposal. An outcome needs a decision, a decision needs a
   resolved proposal, and who may write which outcome follows the decision. *)
RowsAgree(p) ==
    /\ proposal[p].validity = "absent" => proposal[p] = NoProposal
    /\ proposal[p].validity = "resolved" => proposal[p].order \in Order
    /\ decision[p] # "none" => proposal[p].validity = "resolved"
    /\ KeyHeld(p) =>
         /\ decision[p] # "none"
         /\ outcome[p].outcome # "none"
         /\ outcome[p].outcome \in AtProposal <=> decision[p] # "confirm-required"
    /\ outcome[p].outcome = "executed" =>
         /\ outcome[p].ruling = "confirm-required"
         /\ \E row \in rechecks[p] : row.ruling = "confirm-required"

(* A proposal belongs to the one request that is making it. *)
OneProposer ==
    \A r, q \in Request :
        req[r].op = "propose" /\ req[q].op = "propose" /\ req[r].prop = req[q].prop => r = q

(* A request that is making a proposal. *)
ProposeAgrees(r) ==
    LET q == req[r]
        p == q.prop
    IN  /\ q.pc \in {"findCustomerOrder", "recordProposal", "loadRules", "recordDecision",
                     "decided", "answer"} \union Writing
        /\ q.pc = "recordProposal" => q.order \in Order
        /\ q.pc \in {"findCustomerOrder", "recordProposal"} =>
             proposal[p] = NoProposal /\ q.want = "none"
        /\ q.pc \in {"loadRules", "recordDecision"} =>
             proposal[p].validity = "resolved" /\ decision[p] = "none" /\ q.want = "none"
        /\ q.pc = "recordDecision" => q.ruling \in Ruling
        /\ q.pc = "decided" =>
             /\ decision[p] = q.ruling
             /\ q.ruling # "none"
             /\ q.want = "none"
             /\ q.ruling # "confirm-required" => ~KeyHeld(p)
        /\ q.pc \in Writing \union {"answer"} =>
             \/ q.want = "malformed"
             \/ /\ q.want = RefusalKind("propose", q.ruling)
                /\ q.ruling \in Ruling \ {"confirm-required"}
                /\ decision[p] = q.ruling
        /\ q.pc \in Writing => IF q.want = "malformed" THEN proposal[p] = NoProposal ELSE ~KeyHeld(p)
        /\ q.pc = "answer" =>
             IF q.want = "malformed" THEN proposal[p].validity = "malformed"
             ELSE outcome[p] = [outcome |-> q.want, ruling |-> q.ruling]

(* A request that answers an offered proposal. *)
AnswerAgrees(r) ==
    LET q == req[r]
        p == q.prop
    IN  /\ q.pc \in {"loadPending", "findOrderById", "loadRules", "recordDecision", "decided",
                     "executeCancellation", "findWinner", "answer"} \union Writing
        /\ q.pc = "loadPending" => q.want = "none"
        /\ q.pc # "loadPending" => decision[p] = "confirm-required"
        /\ q.pc \in {"findOrderById", "loadRules", "recordDecision", "decided",
                     "executeCancellation", "findWinner"} =>
             q.op = "confirm" /\ q.order = proposal[p].order
        /\ q.pc \in {"findOrderById", "loadRules", "recordDecision", "decided"} =>
             q.want = "none"
        /\ q.pc \in {"recordDecision", "decided"} =>
             /\ q.ruling # "none"
             /\ q.ruling = "confirm-required" => q.snap.status # "cancelled"
        /\ q.pc \in {"decided", "executeCancellation", "findWinner"} =>
             [status |-> q.snap.status, ruling |-> q.ruling] \in rechecks[p]
        /\ q.pc \in {"executeCancellation", "findWinner"} =>
             /\ q.want = "executed"
             /\ q.snap.status # "cancelled"
        /\ q.want = "executed" =>
             q.op = "confirm" /\ q.ruling = "confirm-required"
        /\ q.pc \in Writing \union {"answer"} =>
             /\ q.op = "reject" => q.want = "rejected_by_customer"
             /\ q.op = "confirm" => q.want \in {"refused_at_execution", "failed", "executed"}
             /\ q.ruling # "none"
        /\ q.pc \in Writing => q.want # "executed"
        /\ q.pc = "answer" =>
             /\ KeyHeld(p)
             /\ q.result = outcome[p]
             /\ ~q.duplicate => q.result = [outcome |-> q.want, ruling |-> q.ruling]

(* A handler writes its row with a ticket exactly when the row escalates. *)
WriterFits(r) ==
    LET q == req[r]
    IN  /\ q.pc = "insertOutcome" => ~Escalates(q.ruling, q.want) /\ q.want # "malformed"
        /\ q.pc \in {"beginWrite", "createTicket", "appendTicket", "findExisting"} =>
             q.want = "malformed" \/ Escalates(q.ruling, q.want)

RequestAgrees(r) ==
    /\ req[r].pc \in Running => req[r].prop \in Proposal /\ req[r].op # "none"
    /\ req[r].pc \notin Running => req[r].op = "none" /\ req[r].want = "none"
    /\ req[r].reply.kind # "none" => req[r].prop \in Proposal
    /\ req[r].reply.escalated => req[r].reply.kind # "none"
    /\ req[r].pc \in Running => req[r].reply = NoReply
    /\ req[r].op = "propose" => ProposeAgrees(r)
    /\ req[r].op \in {"confirm", "reject"} => AnswerAgrees(r)
    /\ WriterFits(r)

(* What the sweep is about to expire was offered. *)
SweepAgrees(s) ==
    sweep[s].pc = "recordOutcome" =>
        /\ sweep[s].current \in Proposal
        /\ decision[sweep[s].current] = "confirm-required"

(* Together with the properties themselves, inductive. *)
IInv ==
    /\ TypeOK
    /\ \A p \in Proposal : RowsAgree(p)
    /\ OneProposer
    /\ \A r \in Request : RequestAgrees(r)
    /\ \A s \in Sweeper : SweepAgrees(s)
    /\ CancelledExactlyWhenExecuted
    /\ TicketWithItsCause
    /\ AnswersAreTrue
    /\ PromiseKeptOutsideLateRefusals
============================================================================
