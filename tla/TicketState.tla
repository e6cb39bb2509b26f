---------------------------- MODULE TicketState ----------------------------
(* The ticket's state machine and what an escalation does to a ticket: the pure
   parts of server/src/domain/ticketState.js and server/src/tickets/escalation.js. *)
EXTENDS Integers, FiniteSets

TicketStatus == {"open", "assigned", "waiting", "resolved", "closed"}

(* A table, as in the code. *)
LegalTransitions ==
    [open     |-> {"assigned"},
     assigned |-> {"waiting", "resolved"},
     waiting  |-> {"assigned", "resolved"},
     resolved |-> {"closed", "assigned"},
     closed   |-> {}]

CanTransition(from, to) == to \in LegalTransitions[from]

\* Mutation: an escalation gives the ticket back to the queue.
ReturnsToQueue(status) == IF status \in {"waiting", "resolved"} THEN "open" ELSE "none"

(* The status an escalation moves a ticket to, or "none" when it leaves it. *)
ReopensOnEscalation(status) ==
    IF status \in {"waiting", "resolved"} THEN "assigned" ELSE "none"

(* Rebuild the status from a ticket's events: the highest seq that set one. *)
StatusFromEvents(events) ==
    LET moves == {e \in events : e.to # "none"}
    IN  IF moves = {} THEN "none"
        ELSE (CHOOSE e \in moves : \A f \in moves : f.seq <= e.seq).to

\* Mutation: whoever made the last move holds the ticket.
LastMoverHoldsIt(row, to, user) ==
    [row EXCEPT !.status = to, !.lastEventSeq = @ + 1, !.assignee = user,
                !.active = IF to = "closed" THEN FALSE ELSE @]

(* planTransition's $set and the $inc beside it: taking a ticket assigns it to
   whoever took it, closing it retires it. *)
Moved(row, to, user) ==
    [row EXCEPT !.status = to, !.lastEventSeq = @ + 1,
                !.assignee = IF to = "assigned" THEN user ELSE @,
                !.active = IF to = "closed" THEN FALSE ELSE @]

\* Mutation: a type the event's schema does not have.
UndeclaredType(to) == "moved"

MoveType(to) == IF to = "assigned" THEN "assigned" ELSE "status_changed"

\* Mutation: only an escalation that moves the ticket is counted.
EscalatedUncounted(row) ==
    IF ReopensOnEscalation(row.status) = "none" THEN row
    ELSE [row EXCEPT !.status = ReopensOnEscalation(@), !.lastEventSeq = @ + 1]

(* planEscalation for a ticket there is. *)
Escalated(row) ==
    [row EXCEPT !.status = IF ReopensOnEscalation(@) = "none" THEN @ ELSE ReopensOnEscalation(@),
                !.lastEventSeq = @ + 1]

(* And for a conversation that has none. *)
OpenedFor(conv) ==
    [status |-> "open", active |-> TRUE, assignee |-> "none", lastEventSeq |-> 1, of |-> conv]
============================================================================
