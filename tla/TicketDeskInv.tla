--------------------------- MODULE TicketDeskInv ---------------------------
(* The inductive invariant behind the safety of the ticket desk: what a ticket's
   row, its events and its conversation say of one another, and what a handler
   may rely on between its read and its write. *)
EXTENDS TicketDesk

(* What the row of one ticket says by itself. *)
RowAgrees(t) ==
    LET row == ticket[t]
    IN  /\ row.status = "none" => row = NoTicket
        /\ row.status # "none" => row.of \in Conversation
        /\ row.active <=> row.status \in TicketStatus \ {"closed"}
        /\ row.status \in {"none", "open"} <=> row.assignee = "none"

LastMove(t, e) == e.to # "none" /\ \A f \in EventsOf(t) : f.to # "none" => f.seq <= e.seq

LastTaken(t, e) == e.type = "assigned" /\ \A f \in EventsOf(t) : f.type = "assigned" => f.seq <= e.seq

(* What the row of one ticket has to do with its events. *)
LogAgrees(t) ==
    LET row == ticket[t]
    IN  /\ IsFiniteSet(EventsOf(t))
        /\ Cardinality(EventsOf(t)) = row.lastEventSeq
        /\ {e.seq : e \in EventsOf(t)} = 1..row.lastEventSeq
        /\ \A e, f \in EventsOf(t) : e.seq = f.seq => e = f
        /\ row.status # "none" => \E e \in EventsOf(t) : LastMove(t, e) /\ e.to = row.status
        /\ row.assignee # "none" =>
             \E e \in EventsOf(t) : LastTaken(t, e) /\ e.actor = row.assignee

(* What a handler knows when it comes to write: its snapshot is of a ticket the
   planned write is for. *)
PlanAgrees(u) ==
    LET q == client[u]
    IN  /\ q.pc \in {"findTicket", "updateTicket"} =>
             u \in Agent /\ q.ticket \in Ticket /\ q.to \in TicketStatus
        /\ q.pc \in {"findActiveTicket", "createTicket", "appendTicket"} =>
             u \in Escalator /\ q.of \in Conversation
        /\ q.pc = "updateTicket" => q.seen.status \in TicketStatus /\ CanTransition(q.seen.status, q.to)
        /\ q.pc = "appendTicket" => q.ticket \in Ticket /\ q.seen.active /\ q.seen.of = q.of

Written(u) == {e \in event : e.request = client[u].request}

(* What a handler was answered, or is about to be, and what it has written. *)
ReplyAgrees(u) ==
    LET q == client[u]
    IN  /\ q.pc \notin {"idle", "answer"} => Written(u) = {} /\ q.reply.kind = "none"
        /\ q.reply.kind \in {"notFound", "malformed", "stale"} => Written(u) = {}
        /\ q.reply.kind = "updated" =>
             \E e \in event : /\ Written(u) = {e}
                              /\ e.ticket = q.ticket /\ e.to = q.to /\ e.actor = u
        /\ q.reply.kind = "escalated" =>
             \E e \in event : /\ Written(u) = {e}
                              /\ ticket[e.ticket].of = q.of
                              /\ q.reply.created <=> e.type = "created"

(* A request is of one client, and every event is of a request. *)
RequestsAgree ==
    /\ \A e \in event : e.request \in 1..sent
    /\ \A u \in Client : client[u].request \in 0..sent
    /\ \A u, v \in Client : client[u].request = client[v].request /\ client[u].request # 0 => u = v
    /\ \A u \in Client : client[u].pc # "idle" => client[u].request # 0

IInv ==
    /\ TypeOK
    /\ \A t \in Ticket : RowAgrees(t)
    /\ \A t \in Ticket : LogAgrees(t)
    /\ \A u \in Client : PlanAgrees(u)
    /\ PointsAtCurrentTicket
    /\ RequestsAgree
    /\ \A u \in Client : ReplyAgrees(u)
============================================================================
