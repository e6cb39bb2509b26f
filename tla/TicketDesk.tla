---------------------------- MODULE TicketDesk ----------------------------
(* Tickets and their events: server/src/tickets/mongoTicketRepo.js as
   ticketService.js calls it. Agents move tickets, customers and the action path
   escalate conversations; each client has one request under way at a time.

   A transaction is two steps: what its snapshot shows and the plan made from it,
   then the writes, all or nothing. When the ticket has changed since, the write
   conflict makes withTransaction run the callback again from a new snapshot, or
   the conditional update matches nothing and the code reports the lost race; a
   ticket created since is a duplicate key or a conflict. Which of the two it is
   lies with the database, so both may happen. *)
EXTENDS TicketState

CONSTANTS
    Agent,          \* staff, who move tickets
    Escalator,      \* customers who ask for a person, requests of the action path
    Conversation,
    Ticket,         \* ids of tickets
    MaxRequests,    \* bound: how many requests are made in a behaviour
    MaxFaults       \* bound: how many of them fail or are cut off

ASSUME TicketBounds == MaxRequests \in Nat /\ MaxFaults \in Nat

ASSUME TicketIds ==
    /\ Agent \cap Escalator = {}
    /\ "none" \notin Agent /\ "none" \notin Conversation /\ "none" \notin Ticket
    /\ IsFiniteSet(Ticket)

VARIABLES
    ticket,         \* [Ticket -> the row: status, active, assignee, lastEventSeq, of]
    event,          \* TicketEvent rows; request stands for the correlation id
    conversation,   \* [Conversation -> its ticketId, "none" until it is escalated]
    client,         \* [Client -> its request, and the answer to its last one]
    sent,           \* requests made so far
    faults          \* failures so far

rows == <<ticket, event, conversation>>

vars == <<rows, client, sent, faults>>

Client == Agent \union Escalator

NoTicket ==
    [status |-> "none", active |-> FALSE, assignee |-> "none", lastEventSeq |-> 0, of |-> "none"]

Exists(t) == ticket[t] # NoTicket

(* The answer to a client's last request: its kind, and for an escalation whether
   it opened the ticket. *)
Reply(kind, created) == [kind |-> kind, created |-> created]

IdleClient ==
    [pc |-> "idle", request |-> 0, ticket |-> "none", to |-> "none", of |-> "none",
     seen |-> NoTicket, first |-> "none", retried |-> FALSE, reply |-> Reply("none", FALSE)]

Running == {"findTicket", "updateTicket", "findActiveTicket", "createTicket",
            "appendTicket", "answer"}

Status == TicketStatus \union {"none"}

TicketRow ==
    [status : Status, active : BOOLEAN, assignee : Agent \union {"none"},
     lastEventSeq : Nat, of : Conversation \union {"none"}]

EventRow ==
    [ticket : Ticket, seq : Nat, type : {"created", "assigned", "status_changed", "escalated"},
     from : Status, to : Status, actor : Agent \union {"none"}, request : Nat]

ReplyType ==
    [kind : {"none", "notFound", "malformed", "stale", "fault", "updated", "escalated"},
     created : BOOLEAN]

ClientState ==
    [pc : Running \union {"idle"}, request : Nat, ticket : Ticket \union {"none"}, to : Status,
     of : Conversation \union {"none"}, seen : TicketRow, first : Status, retried : BOOLEAN,
     reply : ReplyType]

TypeOK ==
    /\ ticket \in [Ticket -> TicketRow]
    /\ event \subseteq EventRow
    /\ conversation \in [Conversation -> Ticket \union {"none"}]
    /\ client \in [Client -> ClientState]
    /\ sent \in 0..MaxRequests
    /\ faults \in 0..MaxFaults

Init ==
    /\ ticket = [t \in Ticket |-> NoTicket]
    /\ event = {}
    /\ conversation = [c \in Conversation |-> "none"]
    /\ client = [u \in Client |-> IdleClient]
    /\ sent = 0
    /\ faults = 0

EventsOf(t) == {e \in event : e.ticket = t}

Become(u, state) == client' = [client EXCEPT ![u] = state]

Goto(u, pc) == Become(u, [client[u] EXCEPT !.pc = pc])

(* A request that is turned away or fails: only its answer is left of it. *)
Finish(u, reply) ==
    Become(u, [IdleClient EXCEPT !.request = client[u].request, !.reply = reply])

Begin(u, state) ==
    /\ client[u].pc = "idle"
    /\ sent < MaxRequests
    /\ sent' = sent + 1
    /\ Become(u, [state EXCEPT !.request = sent + 1])
    /\ UNCHANGED <<rows, faults>>

----------------------------------------------------------------------------
(* Agents: transition *)

(* An agent names any ticket and any status: the console offers the legal moves,
   but the ticket may have moved on since. *)
StartTransition(a, t, to) ==
    Begin(a, [IdleClient EXCEPT !.pc = "findTicket", !.ticket = t, !.to = to])

(* Read the ticket and plan the move. first is the status the handler met first,
   kept for what the properties say of it. *)
PlanTransition(a) ==
    LET row == ticket[client[a].ticket]
        first == IF client[a].first = "none" THEN row.status ELSE client[a].first
    IN  /\ client[a].pc = "findTicket"
        /\ \/ /\ row = NoTicket
              /\ Finish(a, Reply("notFound", FALSE))
           \/ /\ row # NoTicket
              /\ ~CanTransition(row.status, client[a].to)
              /\ Finish(a, Reply("malformed", FALSE))
           \/ /\ row # NoTicket
              /\ CanTransition(row.status, client[a].to)
              /\ Become(a, [client[a] EXCEPT !.pc = "updateTicket", !.seen = row,
                                             !.first = first])
        /\ UNCHANGED <<rows, sent, faults>>

\* Mutation: the write is not conditional on what was read.
AsItWasNow(u) == TRUE

(* Nothing this transaction read of the ticket has changed since. *)
Unchanged(u) == ticket[client[u].ticket] = client[u].seen

(* The event takes the seq the same update counted up to. *)
AppendEvent(t, seq, type, from, to, u) ==
    event' = event \union
      {[ticket |-> t, seq |-> seq, type |-> type, from |-> from, to |-> to,
        actor |-> IF u \in Agent THEN u ELSE "none", request |-> client[u].request]}

UpdateTicket(a) ==
    LET t == client[a].ticket
        seen == client[a].seen
        row == Moved(seen, client[a].to, a)
    IN  /\ client[a].pc = "updateTicket"
        /\ Unchanged(a)
        /\ ticket' = [ticket EXCEPT ![t] = row]
        /\ AppendEvent(t, row.lastEventSeq, MoveType(row.status), seen.status, row.status, a)
        /\ Become(a, [client[a] EXCEPT !.pc = "answer", !.reply = Reply("updated", FALSE)])
        /\ UNCHANGED <<conversation, sent, faults>>

RerunTransition(a) ==
    /\ client[a].pc = "updateTicket"
    /\ ~Unchanged(a)
    /\ Goto(a, "findTicket")
    /\ UNCHANGED <<rows, sent, faults>>

(* Not retried: the service turns the error into a 409. *)
LoseTransition(a) ==
    /\ client[a].pc = "updateTicket"
    /\ ticket[client[a].ticket].status # client[a].seen.status
    /\ Finish(a, Reply("stale", FALSE))
    /\ UNCHANGED <<rows, sent, faults>>

----------------------------------------------------------------------------
(* Escalation: applyEscalation in a transaction of its own or of the caller's *)

StartEscalation(e, c) ==
    Begin(e, [IdleClient EXCEPT !.pc = "findActiveTicket", !.of = c])

\* Mutation: a resolved ticket no longer counts.
UnresolvedTickets(c) ==
    {t \in Ticket : ticket[t].active /\ ticket[t].of = c /\ ticket[t].status # "resolved"}

ActiveTickets(c) == {t \in Ticket : ticket[t].active /\ ticket[t].of = c}

PlanEscalation(e) ==
    LET active == ActiveTickets(client[e].of)
    IN  /\ client[e].pc = "findActiveTicket"
        /\ \/ /\ active = {}
              /\ Goto(e, "createTicket")
           \/ \E t \in active :
                Become(e, [client[e] EXCEPT !.pc = "appendTicket", !.ticket = t,
                                            !.seen = ticket[t]])
        /\ UNCHANGED <<rows, sent, faults>>

(* A new id, and the partial unique index over active tickets. *)
CreateTicket(e) ==
    LET c == client[e].of
    IN  /\ client[e].pc = "createTicket"
        /\ ActiveTickets(c) = {}
        /\ \E t \in Ticket :
             /\ ~Exists(t)
             /\ ticket' = [ticket EXCEPT ![t] = OpenedFor(c)]
             /\ AppendEvent(t, 1, "created", "none", "open", e)
             /\ conversation' = [conversation EXCEPT ![c] = t]
             /\ Become(e, [client[e] EXCEPT !.pc = "answer", !.ticket = t,
                                            !.reply = Reply("escalated", TRUE)])
        /\ UNCHANGED <<sent, faults>>

AppendTicket(e) ==
    LET t == client[e].ticket
        seen == client[e].seen
        row == Escalated(seen)
        to == ReopensOnEscalation(seen.status)
    IN  /\ client[e].pc = "appendTicket"
        /\ Unchanged(e)
        /\ ticket' = [ticket EXCEPT ![t] = row]
        /\ AppendEvent(t, row.lastEventSeq, "escalated",
                       IF to = "none" THEN "none" ELSE seen.status, to, e)
        /\ conversation' = [conversation EXCEPT ![client[e].of] = t]
        /\ Become(e, [client[e] EXCEPT !.pc = "answer", !.reply = Reply("escalated", FALSE)])
        /\ UNCHANGED <<sent, faults>>

(* Whether what the escalation planned from is no longer so. *)
Overtaken(e) ==
    IF client[e].pc = "createTicket" THEN ActiveTickets(client[e].of) # {} ELSE ~Unchanged(e)

\* Mutation: the attempt is repeated on the snapshot it already has.
RerunOnSameSnapshot(e) ==
    /\ client[e].pc \in {"createTicket", "appendTicket"}
    /\ Overtaken(e)
    /\ Goto(e, client[e].pc)
    /\ UNCHANGED <<rows, sent, faults>>

RerunEscalation(e) ==
    /\ client[e].pc \in {"createTicket", "appendTicket"}
    /\ Overtaken(e)
    /\ Goto(e, "findActiveTicket")
    /\ UNCHANGED <<rows, sent, faults>>

(* A lost race: once more, then the error reaches the customer. *)
LoseEscalation(e) ==
    /\ \/ client[e].pc = "createTicket" /\ ActiveTickets(client[e].of) # {}
       \/ /\ client[e].pc = "appendTicket"
          /\ ticket[client[e].ticket].status # client[e].seen.status
    /\ \/ client[e].retried /\ Finish(e, Reply("fault", FALSE))
       \/ ~client[e].retried
          /\ Become(e, [client[e] EXCEPT !.pc = "findActiveTicket", !.retried = TRUE])
    /\ UNCHANGED <<rows, sent, faults>>

----------------------------------------------------------------------------

Answer(u) ==
    /\ client[u].pc = "answer"
    /\ Become(u, [client[u] EXCEPT !.pc = "idle", !.seen = NoTicket, !.retried = FALSE])
    /\ UNCHANGED <<rows, sent, faults>>

\* Mutation: escalate makes a failed call again whatever the failure was.
RetryAnyFailure(u) ==
    /\ client[u].pc \in Running
    /\ faults < MaxFaults
    /\ faults' = faults + 1
    /\ IF u \in Escalator THEN Goto(u, "findActiveTicket") ELSE Finish(u, Reply("fault", FALSE))
    /\ UNCHANGED <<rows, sent>>

(* A call throws, before its writes or after they committed, or the process
   stops and nobody is answered: neither is retried. *)
CallFails(u) ==
    /\ client[u].pc \in Running
    /\ faults < MaxFaults
    /\ faults' = faults + 1
    /\ \E kind \in {"fault", "none"} : Finish(u, Reply(kind, FALSE))
    /\ UNCHANGED <<rows, sent>>

AgentStep(a) == PlanTransition(a) \/ UpdateTicket(a) \/ RerunTransition(a)
                \/ LoseTransition(a) \/ Answer(a)

EscalatorStep(e) == PlanEscalation(e) \/ CreateTicket(e) \/ AppendTicket(e)
                    \/ RerunEscalation(e) \/ LoseEscalation(e) \/ Answer(e)

Next ==
    \/ \E a \in Agent, t \in Ticket, to \in TicketStatus : StartTransition(a, t, to)
    \/ \E e \in Escalator, c \in Conversation : StartEscalation(e, c)
    \/ \E a \in Agent : AgentStep(a)
    \/ \E e \in Escalator : EscalatorStep(e)
    \/ \E u \in Client : CallFails(u)

Spec == Init /\ [][Next]_vars

(* Handlers that have started keep running; nobody has to make a request. *)
Fairness ==
    /\ \A a \in Agent : WF_vars(AgentStep(a))
    /\ \A e \in Escalator : WF_vars(EscalatorStep(e))

FairSpec == Spec /\ Fairness

----------------------------------------------------------------------------
(* Safety *)

(* The events are the source of truth: a ticket's status, which the queue reads,
   is what they say, and they are numbered from 1 to lastEventSeq without a gap
   or a repetition, whoever wrote them at the same moment. *)
CacheAgreesWithEvents ==
    \A t \in Ticket :
        /\ ticket[t].status = StatusFromEvents(EventsOf(t))
        /\ {e.seq : e \in EventsOf(t)} = 1..ticket[t].lastEventSeq
        /\ Cardinality(EventsOf(t)) = ticket[t].lastEventSeq

(* A conversation that was ever escalated points at one of its tickets, and at the
   active one if it has one: an agent reaches the open work from it. *)
PointsAtCurrentTicket ==
    \A c \in Conversation :
        /\ conversation[c] # "none" <=> \E t \in Ticket : ticket[t].of = c
        /\ conversation[c] # "none" => ticket[conversation[c]].of = c
        /\ ActiveTickets(c) \subseteq {conversation[c]}

(* Whoever took a ticket last holds it, through every later move and every
   escalation that reopens it; only an open ticket is nobody's. *)
HeldByWhoTookIt ==
    \A t \in Ticket :
        LET taken == {e \in EventsOf(t) : e.type = "assigned"}
        IN  /\ ticket[t].status \in {"none", "open"} <=> ticket[t].assignee = "none"
            /\ ticket[t].assignee # "none" =>
                 \E e \in taken : /\ \A f \in taken : f.seq <= e.seq
                                  /\ e.actor = ticket[t].assignee

(* A request answered with its success has written exactly one event, on the
   ticket it is about, and one that was turned away has written none. *)
AnsweredAsRecorded ==
    \A u \in Client :
        LET q == client[u]
            written == {e \in event : e.request = q.request}
        IN  q.pc = "idle" =>
            /\ q.reply.kind = "updated" =>
                 \E e \in event : /\ written = {e}
                                  /\ e.ticket = q.ticket /\ e.to = q.to /\ e.actor = u
            /\ q.reply.kind = "escalated" =>
                 \E e \in event : /\ written = {e}
                                  /\ ticket[e.ticket].of = q.of
                                  /\ q.reply.created <=> e.type = "created"
            /\ q.reply.kind \in {"notFound", "malformed", "stale"} => written = {}

(* "A manual transition that loses to another agent is reported as a 409 asking
   for a reload -- not retried": a move that was applied was planned from the
   status the handler first read. *)
LosersAreTold ==
    \A a \in Agent, e \in event :
        client[a].pc = "idle" /\ client[a].reply.kind = "updated"
        /\ e.request = client[a].request => e.from = client[a].first

----------------------------------------------------------------------------
(* What a step may never do *)

(* A closed ticket is a settled record: neither it nor its history changes again,
   even by an escalation planned while it was still active. *)
ClosedIsSettled ==
    [][\A t \in Ticket : ticket[t].status = "closed" =>
         ticket'[t] = ticket[t] /\ EventsOf(t)' = EventsOf(t)]_vars

----------------------------------------------------------------------------
(* Liveness *)

(* Every request is answered or cut off, however often its transaction reruns. *)
EveryCallEnds == \A u \in Client : client[u].pc \in Running ~> client[u].pc = "idle"

----------------------------------------------------------------------------
(* The abstract specification, told from the events alone *)

History == INSTANCE TicketHistory WITH
    status <- [t \in Ticket |-> StatusFromEvents(EventsOf(t))],
    owner <- [t \in Ticket |-> ticket[t].of],
    current <- conversation

(* What the event log says happened is a legal history of every ticket, and no
   conversation's next ticket is opened before the last is closed. *)
HistorySpec == History!Spec
============================================================================
