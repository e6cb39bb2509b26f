------------------------- MODULE TicketDesk_proofs -------------------------
(* The safety of the ticket desk for any agents, conversations, tickets, requests
   and faults. *)
EXTENDS TicketDeskInv, FiniteSetTheorems, TLAPS

----------------------------------------------------------------------------
(* The rows the pure functions plan *)

LEMMA TransitionCases ==
  ASSUME NEW from \in TicketStatus, NEW to \in TicketStatus
  PROVE  CanTransition(from, to) <=>
           \/ from = "open" /\ to = "assigned"
           \/ from = "assigned" /\ to \in {"waiting", "resolved"}
           \/ from = "waiting" /\ to \in {"assigned", "resolved"}
           \/ from = "resolved" /\ to \in {"closed", "assigned"}
  BY DEF CanTransition, LegalTransitions, TicketStatus

LEMMA RowFields ==
  ASSUME NEW row \in TicketRow
  PROVE  /\ row.status \in Status /\ row.active \in BOOLEAN
         /\ row.assignee \in Agent \union {"none"}
         /\ row.lastEventSeq \in Nat /\ row.of \in Conversation \union {"none"}
  BY DEF TicketRow

LEMMA MovedFields ==
  ASSUME NEW row \in TicketRow, NEW to \in TicketStatus, NEW a \in Agent
  PROVE  /\ Moved(row, to, a) \in TicketRow
         /\ Moved(row, to, a).status = to
         /\ Moved(row, to, a).active <=> row.active /\ to # "closed"
         /\ Moved(row, to, a).assignee = IF to = "assigned" THEN a ELSE row.assignee
         /\ Moved(row, to, a).lastEventSeq = row.lastEventSeq + 1
         /\ Moved(row, to, a).of = row.of
  <1>1. PICK holder \in Agent \union {"none"} :
          holder = IF to = "assigned" THEN a ELSE row.assignee
    BY RowFields
  <1>2. PICK active \in BOOLEAN : active = IF to = "closed" THEN FALSE ELSE row.active
    BY RowFields
  <1>3. PICK n \in Nat : n = row.lastEventSeq + 1
    BY RowFields
  <1>4. Moved(row, to, a) =
          [row EXCEPT !.status = to, !.lastEventSeq = n, !.assignee = holder, !.active = active]
    BY <1>1, <1>2, <1>3 DEF Moved
  <1>5. to \in Status
    BY DEF Status
  <1>6. PICK m : m = Moved(row, to, a)
    OBVIOUS
  <1>7. /\ m \in TicketRow /\ m.status = to /\ m.lastEventSeq = n
        /\ m.assignee = holder /\ m.active = active /\ m.of = row.of
    BY <1>4, <1>5, <1>6 DEF TicketRow
  <1>8. m.active <=> row.active /\ to # "closed"
    BY <1>2, <1>7, RowFields
  <1>9. QED
    BY <1>1, <1>3, <1>6, <1>7, <1>8

LEMMA ReopenCases ==
  ASSUME NEW status \in TicketStatus
  PROVE  \/ ReopensOnEscalation(status) = "none" /\ status \notin {"waiting", "resolved"}
         \/ ReopensOnEscalation(status) = "assigned" /\ status \in {"waiting", "resolved"}
  BY DEF ReopensOnEscalation

LEMMA EscalatedFields ==
  ASSUME NEW row \in TicketRow, row.status \in TicketStatus
  PROVE  /\ Escalated(row) \in TicketRow
         /\ Escalated(row).status = IF row.status \in {"waiting", "resolved"} THEN "assigned"
                                    ELSE row.status
         /\ Escalated(row).active = row.active
         /\ Escalated(row).assignee = row.assignee
         /\ Escalated(row).lastEventSeq = row.lastEventSeq + 1
         /\ Escalated(row).of = row.of
  <1>1. PICK status \in Status :
          status = IF row.status \in {"waiting", "resolved"} THEN "assigned" ELSE row.status
    BY DEF Status, TicketStatus
  <1>2. PICK n \in Nat : n = row.lastEventSeq + 1
    BY RowFields
  <1>3. Escalated(row) = [row EXCEPT !.status = status, !.lastEventSeq = n]
    BY <1>1, <1>2 DEF Escalated, ReopensOnEscalation
  <1>4. QED
    BY <1>1, <1>2, <1>3 DEF TicketRow

LEMMA OpenedFields ==
  ASSUME NEW c \in Conversation
  PROVE  /\ OpenedFor(c) \in TicketRow
         /\ OpenedFor(c).status = "open" /\ OpenedFor(c).active = TRUE
         /\ OpenedFor(c).assignee = "none" /\ OpenedFor(c).lastEventSeq = 1
         /\ OpenedFor(c).of = c
  BY DEF OpenedFor, TicketRow, Status, TicketStatus

LEMMA NoTicketFields ==
  /\ NoTicket \in TicketRow
  /\ NoTicket.status = "none" /\ NoTicket.active = FALSE /\ NoTicket.assignee = "none"
  /\ NoTicket.lastEventSeq = 0 /\ NoTicket.of = "none"
  BY DEF NoTicket, TicketRow, Status

----------------------------------------------------------------------------
(* The client's fields *)

LEMMA ClientFields ==
  ASSUME NEW q \in ClientState
  PROVE  /\ q.pc \in Running \union {"idle"} /\ q.request \in Nat
         /\ q.ticket \in Ticket \union {"none"} /\ q.to \in Status
         /\ q.of \in Conversation \union {"none"} /\ q.seen \in TicketRow
         /\ q.first \in Status /\ q.retried \in BOOLEAN /\ q.reply \in ReplyType
  BY DEF ClientState

LEMMA IdleFields ==
  /\ IdleClient \in ClientState
  /\ IdleClient.pc = "idle" /\ IdleClient.request = 0
  /\ IdleClient.reply = Reply("none", FALSE)
  BY NoTicketFields DEF IdleClient, ClientState, ReplyType, Reply, Status

LEMMA ReplyFields ==
  ASSUME NEW kind, NEW created
  PROVE  Reply(kind, created).kind = kind /\ Reply(kind, created).created = created
  BY DEF Reply

LEMMA BecomeClient ==
  ASSUME TypeOK, NEW u \in Client, NEW s \in ClientState, Become(u, s)
  PROVE  /\ client' \in [Client -> ClientState]
         /\ client'[u] = s
         /\ \A v \in Client : v # u => client'[v] = client[v]
  BY DEF Become, TypeOK

LEMMA GotoClient ==
  ASSUME TypeOK, NEW u \in Client, NEW pc \in Running \union {"idle"}, Goto(u, pc)
  PROVE  /\ client' \in [Client -> ClientState]
         /\ \A v \in Client : v # u => client'[v] = client[v]
         /\ client'[u].pc = pc
         /\ client'[u].request = client[u].request /\ client'[u].ticket = client[u].ticket
         /\ client'[u].to = client[u].to /\ client'[u].of = client[u].of
         /\ client'[u].seen = client[u].seen /\ client'[u].reply = client[u].reply
  <1>1. client[u] \in ClientState
    BY DEF TypeOK
  <1>2. [client[u] EXCEPT !.pc = pc] \in ClientState
    BY <1>1 DEF ClientState
  <1>3. client'[u] = [client[u] EXCEPT !.pc = pc]
    BY <1>2, BecomeClient DEF Goto
  <1>4. QED
    BY <1>1, <1>2, <1>3, BecomeClient DEF Goto, ClientState

LEMMA FinishClient ==
  ASSUME TypeOK, NEW u \in Client, NEW kind, Finish(u, Reply(kind, FALSE)),
         kind \in {"none", "notFound", "malformed", "stale", "fault"}
  PROVE  /\ client' \in [Client -> ClientState]
         /\ \A v \in Client : v # u => client'[v] = client[v]
         /\ client'[u].pc = "idle" /\ client'[u].request = client[u].request
         /\ client'[u].reply.kind = kind
  <1>1. client[u].request \in Nat
    BY ClientFields DEF TypeOK
  <1>2. Reply(kind, FALSE) \in ReplyType
    BY DEF Reply, ReplyType
  <1>3. PICK s : s = [IdleClient EXCEPT !.request = client[u].request, !.reply = Reply(kind, FALSE)]
    OBVIOUS
  <1>4. s \in ClientState /\ s.pc = "idle" /\ s.request = client[u].request
        /\ s.reply = Reply(kind, FALSE)
    BY <1>1, <1>2, <1>3, IdleFields DEF ClientState
  <1>5. Become(u, s)
    BY <1>3 DEF Finish
  <1>6. s.reply.kind = kind
    BY <1>4 DEF Reply
  <1>7. client'[u] = s /\ client' \in [Client -> ClientState]
        /\ \A v \in Client : v # u => client'[v] = client[v]
    BY <1>4, <1>5, BecomeClient
  <1>8. QED
    BY <1>4, <1>6, <1>7

LEMMA BeginClient ==
  ASSUME TypeOK, NEW u \in Client, NEW s \in ClientState, Begin(u, s)
  PROVE  /\ client' \in [Client -> ClientState]
         /\ \A v \in Client : v # u => client'[v] = client[v]
         /\ client'[u].pc = s.pc /\ client'[u].request = sent + 1
         /\ client'[u].ticket = s.ticket /\ client'[u].to = s.to /\ client'[u].of = s.of
         /\ client'[u].seen = s.seen /\ client'[u].reply = s.reply
         /\ sent' = sent + 1 /\ sent' \in 0..MaxRequests
         /\ UNCHANGED <<rows, faults>>
  <1> DEFINE n == [s EXCEPT !.request = sent + 1]
  <1>1. sent + 1 \in Nat /\ sent + 1 \in 0..MaxRequests
    BY TicketBounds DEF Begin, TypeOK
  <1>2. n \in ClientState /\ n.request = sent + 1 /\ n.pc = s.pc /\ n.ticket = s.ticket
        /\ n.to = s.to /\ n.of = s.of /\ n.seen = s.seen /\ n.reply = s.reply
    BY <1>1 DEF ClientState
  <1>3. Become(u, n)
    BY DEF Begin
  <1>4. QED
    BY <1>1, <1>2, <1>3, BecomeClient DEF Begin

----------------------------------------------------------------------------
(* An event more in the log of one ticket *)

LEMMA EventsOfOne ==
  ASSUME NEW e, event' = event \union {e}, NEW t, e.ticket = t
  PROVE  /\ EventsOf(t)' = EventsOf(t) \union {e}
         /\ \A x : x # t => EventsOf(x)' = EventsOf(x)
  BY DEF EventsOf

LEMMA OneMore ==
  ASSUME NEW S, NEW x, IsFiniteSet(S), x \notin S
  PROVE  IsFiniteSet(S \union {x}) /\ Cardinality(S \union {x}) = Cardinality(S) + 1
  BY FS_AddElement

(* A write that counts the ticket up by one and records an event under that
   number keeps row and log in step, when the event says how the status and the
   holder have changed. *)
LEMMA LogStep ==
  ASSUME TypeOK, \A x \in Ticket : LogAgrees(x),
         NEW t \in Ticket, NEW row \in TicketRow, NEW e \in EventRow,
         ticket' = [ticket EXCEPT ![t] = row], event' = event \union {e},
         e.ticket = t, e.seq = row.lastEventSeq, row.lastEventSeq = ticket[t].lastEventSeq + 1,
         \/ e.to = row.status
         \/ e.to = "none" /\ row.status = ticket[t].status,
         \/ e.type = "assigned" /\ e.actor = row.assignee
         \/ e.type # "assigned" /\ row.assignee = ticket[t].assignee
  PROVE  \A x \in Ticket : LogAgrees(x)'
  <1>1. ticket'[t] = row /\ \A x \in Ticket : x # t => ticket'[x] = ticket[x]
    BY DEF TypeOK
  <1>2. EventsOf(t)' = EventsOf(t) \union {e} /\ \A x : x # t => EventsOf(x)' = EventsOf(x)
    BY EventsOfOne
  <1>3. ASSUME NEW x \in Ticket, x # t PROVE LogAgrees(x)'
    BY <1>1, <1>2, <1>3 DEF LogAgrees, LastMove, LastTaken
  <1>4. LogAgrees(t)'
    <2> DEFINE n == ticket[t].lastEventSeq
    <2>1. n \in Nat /\ row.lastEventSeq = n + 1 /\ e.seq = n + 1
      BY RowFields DEF TypeOK
    <2>2. /\ IsFiniteSet(EventsOf(t)) /\ Cardinality(EventsOf(t)) = n
          /\ {f.seq : f \in EventsOf(t)} = 1..n
          /\ \A f, g \in EventsOf(t) : f.seq = g.seq => f = g
      BY DEF LogAgrees
    <2>3. \A f \in EventsOf(t) : f.seq \in 1..n
      BY <2>2
    <2>4. e \notin EventsOf(t)
      BY <2>1, <2>3
    <2>5. IsFiniteSet(EventsOf(t) \union {e}) /\ Cardinality(EventsOf(t) \union {e}) = n + 1
      <3>1. PICK S : S = EventsOf(t)
        OBVIOUS
      <3>2. IsFiniteSet(S) /\ e \notin S /\ Cardinality(S) = n
        BY <2>2, <2>4, <3>1
      <3>3. IsFiniteSet(S \union {e}) /\ Cardinality(S \union {e}) = Cardinality(S) + 1
        BY <3>2, OneMore
      <3>4. QED
        BY <3>1, <3>2, <3>3
    <2>6. {f.seq : f \in EventsOf(t) \union {e}} = 1..(n + 1)
      <3>1. {f.seq : f \in EventsOf(t) \union {e}} = {f.seq : f \in EventsOf(t)} \union {n + 1}
        BY <2>1
      <3>2. (1..n) \union {n + 1} = 1..(n + 1)
        BY <2>1
      <3>3. QED
        BY <2>2, <3>1, <3>2
    <2>7. \A f, g \in EventsOf(t) \union {e} : f.seq = g.seq => f = g
      BY <2>1, <2>2, <2>3
    <2>8. row.status # "none" =>
            \E f \in EventsOf(t)' : LastMove(t, f)' /\ f.to = row.status
      <3>1. CASE e.to = row.status
        BY <1>2, <2>1, <2>3, <3>1 DEF LastMove
      <3>2. CASE e.to = "none" /\ row.status = ticket[t].status
        BY <1>2, <3>2 DEF LastMove, LogAgrees
      <3>3. QED
        BY <3>1, <3>2
    <2>9. row.assignee # "none" =>
            \E f \in EventsOf(t)' : LastTaken(t, f)' /\ f.actor = row.assignee
      <3>1. CASE e.type = "assigned" /\ e.actor = row.assignee
        BY <1>2, <2>1, <2>3, <3>1 DEF LastTaken
      <3>2. CASE e.type # "assigned" /\ row.assignee = ticket[t].assignee
        BY <1>2, <3>2 DEF LastTaken, LogAgrees
      <3>3. QED
        BY <3>1, <3>2
    <2>10. QED
      BY <1>1, <1>2, <2>1, <2>5, <2>6, <2>7, <2>8, <2>9 DEF LogAgrees
  <1>5. QED
    BY <1>3, <1>4

----------------------------------------------------------------------------
(* The three kinds of step: a handler goes on without writing, a request begins,
   a transaction commits *)

LEMMA OthersPlans ==
  ASSUME \A v \in Client : PlanAgrees(v), NEW u \in Client, PlanAgrees(u)',
         \A v \in Client : v # u => client'[v] = client[v]
  PROVE  \A v \in Client : PlanAgrees(v)'
  BY DEF PlanAgrees

LEMMA SameRows ==
  ASSUME UNCHANGED rows
  PROVE  /\ ticket' = ticket /\ event' = event /\ conversation' = conversation
         /\ (\A t \in Ticket : RowAgrees(t)) => \A t \in Ticket : RowAgrees(t)'
         /\ (\A t \in Ticket : LogAgrees(t)) => \A t \in Ticket : LogAgrees(t)'
         /\ PointsAtCurrentTicket => PointsAtCurrentTicket'
  <1>1. ticket' = ticket /\ event' = event /\ conversation' = conversation
    BY DEF rows
  <1>2. \A t : EventsOf(t)' = EventsOf(t)
    BY <1>1 DEF EventsOf
  <1>3. \A c : ActiveTickets(c)' = ActiveTickets(c)
    BY <1>1 DEF ActiveTickets
  <1>4. QED
    BY <1>1, <1>2, <1>3 DEF RowAgrees, LogAgrees, LastMove, LastTaken, PointsAtCurrentTicket

LEMMA QuietStep ==
  ASSUME IInv, NEW u \in Client, UNCHANGED <<rows, sent>>, faults' \in 0..MaxFaults,
         client' \in [Client -> ClientState],
         \A v \in Client : v # u => client'[v] = client[v],
         client'[u].request = client[u].request, client[u].pc # "idle",
         PlanAgrees(u)', ReplyAgrees(u)'
  PROVE  IInv'
  <1>1. ticket' = ticket /\ event' = event /\ conversation' = conversation /\ sent' = sent
    BY DEF rows
  <1>2. TypeOK'
    BY <1>1 DEF IInv, TypeOK
  <1>3. \A v \in Client : PlanAgrees(v)'
    BY OthersPlans DEF IInv
  <1>4. RequestsAgree'
    BY <1>1 DEF IInv, RequestsAgree
  <1>5. ASSUME NEW v \in Client, v # u PROVE ReplyAgrees(v)'
    <2>1. ReplyAgrees(v) /\ client'[v] = client[v]
      BY <1>5 DEF IInv
    <2>2. QED
      BY <1>1, <2>1 DEF ReplyAgrees, Written
  <1>6. QED
    BY <1>1, <1>2, <1>3, <1>4, <1>5, SameRows DEF IInv

LEMMA BeginStep ==
  ASSUME IInv, NEW u \in Client, NEW s \in ClientState, Begin(u, s),
         s.pc \in {"findTicket", "findActiveTicket"}, s.reply.kind = "none", PlanAgrees(u)'
  PROVE  IInv'
  <1>1. /\ client' \in [Client -> ClientState]
        /\ \A v \in Client : v # u => client'[v] = client[v]
        /\ client'[u].pc = s.pc /\ client'[u].request = sent + 1 /\ client'[u].reply = s.reply
        /\ sent' = sent + 1 /\ sent' \in 0..MaxRequests /\ UNCHANGED <<rows, faults>>
    BY BeginClient DEF IInv
  <1>2. ticket' = ticket /\ event' = event /\ conversation' = conversation /\ sent \in Nat
    BY <1>1 DEF rows, IInv, TypeOK
  <1>3. TypeOK'
    BY <1>1, <1>2 DEF IInv, TypeOK
  <1>4. \A v \in Client : PlanAgrees(v)'
    BY <1>1, OthersPlans DEF IInv
  <1>5. /\ \A e \in event : e.request \in 1..sent
        /\ \A v \in Client : client[v].request \in 0..sent
    BY DEF IInv, RequestsAgree
  <1>6. RequestsAgree'
    <2>1. \A v \in Client : client'[v].request \in 0..(sent + 1)
      BY <1>1, <1>2, <1>5
    <2>2. \A v, w \in Client :
            client'[v].request = client'[w].request /\ client'[v].request # 0 => v = w
      BY <1>1, <1>2, <1>5 DEF IInv, RequestsAgree
    <2>3. \A v \in Client : client'[v].pc # "idle" => client'[v].request # 0
      BY <1>1, <1>2 DEF IInv, RequestsAgree
    <2>4. \A e \in event : e.request \in 1..(sent + 1)
      BY <1>2, <1>5
    <2>5. QED
      BY <1>1, <1>2, <2>1, <2>2, <2>3, <2>4 DEF RequestsAgree
  <1>7. ReplyAgrees(u)'
    <2>1. Written(u)' = {}
      BY <1>1, <1>2, <1>5 DEF Written
    <2>2. QED
      BY <1>1, <2>1 DEF ReplyAgrees
  <1>8. ASSUME NEW v \in Client, v # u PROVE ReplyAgrees(v)'
    <2>1. ReplyAgrees(v) /\ client'[v] = client[v]
      BY <1>1, <1>8 DEF IInv
    <2>2. QED
      BY <1>2, <2>1 DEF ReplyAgrees, Written
  <1>9. QED
    BY <1>1, <1>3, <1>4, <1>6, <1>7, <1>8, SameRows DEF IInv

LEMMA CommitStep ==
  ASSUME IInv, NEW u \in Client, UNCHANGED <<sent, faults>>,
         client' \in [Client -> ClientState],
         \A v \in Client : v # u => client'[v] = client[v],
         client[u].pc \notin {"idle", "answer"}, client'[u].pc = "answer",
         client'[u].request = client[u].request,
         NEW t \in Ticket, NEW row \in TicketRow, NEW e \in EventRow,
         ticket' = [ticket EXCEPT ![t] = row], event' = event \union {e},
         conversation' \in [Conversation -> Ticket \union {"none"}],
         e.ticket = t, e.request = client[u].request, e.seq = row.lastEventSeq,
         row.lastEventSeq = ticket[t].lastEventSeq + 1,
         ticket[t].status = "none" \/ row.of = ticket[t].of,
         \/ e.to = row.status
         \/ e.to = "none" /\ row.status = ticket[t].status,
         \/ e.type = "assigned" /\ e.actor = row.assignee
         \/ e.type # "assigned" /\ row.assignee = ticket[t].assignee,
         RowAgrees(t)', PointsAtCurrentTicket',
         \/ /\ client'[u].reply.kind = "updated"
            /\ t = client'[u].ticket /\ e.to = client'[u].to /\ e.actor = u
         \/ /\ client'[u].reply.kind = "escalated"
            /\ row.of = client'[u].of
            /\ client'[u].reply.created <=> e.type = "created"
  PROVE  IInv'
  <1>1. ticket'[t] = row /\ \A x \in Ticket : x # t => ticket'[x] = ticket[x]
    BY DEF IInv, TypeOK
  <1>2. TypeOK'
    BY DEF IInv, TypeOK
  <1>3. \A x \in Ticket : RowAgrees(x)'
    BY <1>1 DEF IInv, RowAgrees
  <1>4. \A x \in Ticket : LogAgrees(x)'
    BY LogStep DEF IInv
  <1>5. \A v \in Client : PlanAgrees(v)'
    <2>1. PlanAgrees(u)'
      BY DEF PlanAgrees
    <2>2. QED
      BY <2>1, OthersPlans DEF IInv
  <1>6. client[u].request \in 1..sent
    <2>1. client[u].request \in 0..sent /\ client[u].request # 0 /\ sent \in Nat
      BY DEF IInv, RequestsAgree, TypeOK
    <2>2. QED
      BY <2>1
  <1>7. RequestsAgree'
    BY <1>6 DEF IInv, RequestsAgree
  <1>8. ReplyAgrees(u)'
    <2>1. Written(u)' = {e}
      BY DEF IInv, ReplyAgrees, Written
    <2>2. e \in event'
      OBVIOUS
    <2>3. QED
      BY <1>1, <2>1, <2>2 DEF ReplyAgrees
  <1>9. ASSUME NEW v \in Client, v # u PROVE ReplyAgrees(v)'
    <2>1. ReplyAgrees(v) /\ client'[v] = client[v]
      BY <1>9 DEF IInv
    <2>2. client[v].request # client[u].request
      BY <1>6, <1>9 DEF IInv, RequestsAgree
    <2>3. Written(v)' = Written(v)
      BY <2>1, <2>2 DEF Written
    <2>4. \A f \in event : ticket'[f.ticket].of = ticket[f.ticket].of
      <3> SUFFICES ASSUME NEW f \in event, f.ticket = t
                   PROVE  row.of = ticket[t].of
        BY <1>1 DEF IInv, TypeOK, EventRow
      <3>1. f \in EventsOf(t)
        BY DEF EventsOf
      <3>2. ticket[t].status # "none"
        <4>1. ASSUME ticket[t].status = "none" PROVE FALSE
          <5>1. ticket[t].lastEventSeq = 0
            BY <4>1, NoTicketFields DEF IInv, RowAgrees
          <5>2. {g.seq : g \in EventsOf(t)} = 1..0
            BY <5>1 DEF IInv, LogAgrees
          <5>3. f.seq \in 1..0
            BY <3>1, <5>2
          <5>4. QED
            BY <5>3
        <4>2. QED
          BY <4>1
      <3>3. QED
        BY <3>2
    <2>5. QED
      BY <2>1, <2>3, <2>4 DEF ReplyAgrees
  <1>10. QED
    BY <1>2, <1>3, <1>4, <1>5, <1>7, <1>8, <1>9 DEF IInv

----------------------------------------------------------------------------
(* The initial state *)

LEMMA InitInv == Init => IInv
  <1> SUFFICES ASSUME Init PROVE IInv
    OBVIOUS
  <1>1. TypeOK
    BY NoTicketFields, IdleFields, TicketBounds DEF Init, TypeOK
  <1>2. \A t \in Ticket : ticket[t] = NoTicket /\ EventsOf(t) = {}
    BY DEF Init, EventsOf
  <1>3. \A t \in Ticket : RowAgrees(t)
    BY <1>2, NoTicketFields DEF RowAgrees, TicketStatus
  <1>4. ASSUME NEW t \in Ticket PROVE LogAgrees(t)
    <2>1. EventsOf(t) = {} /\ ticket[t] = NoTicket
      BY <1>2
    <2>2. IsFiniteSet({}) /\ Cardinality({}) = 0
      BY FS_EmptySet
    <2>3. 1..0 = {}
      OBVIOUS
    <2>4. QED
      BY <2>1, <2>2, <2>3, NoTicketFields DEF LogAgrees
  <1>5. \A u \in Client : client[u] = IdleClient
    BY DEF Init
  <1>6. \A u \in Client : PlanAgrees(u)
    BY <1>5, IdleFields DEF PlanAgrees
  <1>7. PointsAtCurrentTicket
    BY <1>2, NoTicketFields, TicketIds DEF Init, PointsAtCurrentTicket, ActiveTickets
  <1>8. RequestsAgree
    BY <1>5, IdleFields DEF Init, RequestsAgree
  <1>9. \A u \in Client : ReplyAgrees(u)
    BY <1>5, IdleFields DEF ReplyAgrees, Reply
  <1>10. QED
    BY <1>1, <1>3, <1>4, <1>6, <1>7, <1>8, <1>9 DEF IInv

----------------------------------------------------------------------------
(* Agents *)

LEMMA StartTransitionInv ==
  ASSUME IInv, NEW a \in Agent, NEW t \in Ticket, NEW to \in TicketStatus,
         StartTransition(a, t, to)
  PROVE  IInv'
  <1>1. PICK s : s = [IdleClient EXCEPT !.pc = "findTicket", !.ticket = t, !.to = to]
    OBVIOUS
  <1>2. /\ s \in ClientState /\ s.pc = "findTicket" /\ s.ticket = t /\ s.to = to
        /\ s.reply = Reply("none", FALSE)
    BY <1>1, IdleFields DEF ClientState, Running, Status
  <1>3. a \in Client /\ Begin(a, s)
    BY <1>1 DEF Client, StartTransition
  <1>4. client'[a].pc = "findTicket" /\ client'[a].ticket = t /\ client'[a].to = to
    BY <1>2, <1>3, BeginClient DEF IInv
  <1>5. PlanAgrees(a)'
    BY <1>4 DEF PlanAgrees
  <1>6. s.reply.kind = "none"
    BY <1>2 DEF Reply
  <1>7. QED
    BY <1>2, <1>3, <1>5, <1>6, BeginStep

(* A request that is answered without having written. *)
LEMMA FinishInv ==
  ASSUME IInv, NEW u \in Client, NEW kind, Finish(u, Reply(kind, FALSE)),
         kind \in {"none", "notFound", "malformed", "stale", "fault"},
         client[u].pc # "idle",
         kind \in {"notFound", "malformed", "stale"} => client[u].pc # "answer",
         UNCHANGED <<rows, sent>>, faults' \in 0..MaxFaults
  PROVE  IInv'
  <1>1. /\ client' \in [Client -> ClientState]
        /\ \A v \in Client : v # u => client'[v] = client[v]
        /\ client'[u].pc = "idle" /\ client'[u].request = client[u].request
        /\ client'[u].reply.kind = kind
    BY FinishClient DEF IInv
  <1>2. PlanAgrees(u)'
    BY <1>1 DEF PlanAgrees
  <1>3. ReplyAgrees(u)'
    <2>1. Written(u)' = Written(u)
      BY <1>1 DEF Written, rows
    <2>2. kind \in {"notFound", "malformed", "stale"} => Written(u) = {}
      BY DEF IInv, ReplyAgrees
    <2>3. QED
      BY <1>1, <2>1, <2>2 DEF ReplyAgrees
  <1>4. QED
    BY <1>1, <1>2, <1>3, QuietStep

(* A handler that goes on to another of its calls. *)
LEMMA ContinueInv ==
  ASSUME IInv, NEW u \in Client, client[u].pc \notin {"idle", "answer"},
         client' \in [Client -> ClientState],
         \A v \in Client : v # u => client'[v] = client[v],
         client'[u].pc \notin {"idle", "answer"},
         client'[u].request = client[u].request, client'[u].reply = client[u].reply,
         PlanAgrees(u)', UNCHANGED <<rows, sent, faults>>
  PROVE  IInv'
  <1>1. ReplyAgrees(u)'
    <2>1. Written(u)' = Written(u)
      BY DEF Written, rows
    <2>2. Written(u) = {} /\ client[u].reply.kind = "none"
      BY DEF IInv, ReplyAgrees
    <2>3. QED
      BY <2>1, <2>2 DEF ReplyAgrees
  <1>2. faults' \in 0..MaxFaults
    BY DEF IInv, TypeOK
  <1>3. QED
    BY <1>1, <1>2, QuietStep

LEMMA PlanTransitionInv ==
  ASSUME IInv, NEW a \in Agent, PlanTransition(a)
  PROVE  IInv'
  <1> DEFINE row == ticket[client[a].ticket]
  <1>1. /\ a \in Client /\ client[a].pc = "findTicket" /\ client[a] \in ClientState
        /\ client[a].ticket \in Ticket /\ client[a].to \in TicketStatus
    BY DEF Client, PlanTransition, IInv, TypeOK, PlanAgrees
  <1>2. UNCHANGED <<rows, sent>> /\ faults' \in 0..MaxFaults
    BY DEF PlanTransition, IInv, TypeOK
  <1>3. CASE row = NoTicket /\ Finish(a, Reply("notFound", FALSE))
    BY <1>1, <1>2, <1>3, FinishInv
  <1>4. CASE Finish(a, Reply("malformed", FALSE))
    BY <1>1, <1>2, <1>4, FinishInv
  <1>5. ASSUME row # NoTicket, CanTransition(row.status, client[a].to),
               NEW first, first = IF client[a].first = "none" THEN row.status ELSE client[a].first,
               Become(a, [client[a] EXCEPT !.pc = "updateTicket", !.seen = row, !.first = first])
        PROVE  IInv'
    <2>1. row \in TicketRow /\ row.status \in TicketStatus
      BY <1>1, <1>5, RowFields DEF IInv, TypeOK, RowAgrees, Status
    <2>2. first \in Status
      BY <1>1, <1>5, <2>1, ClientFields DEF Status
    <2>3. PICK s : s = [client[a] EXCEPT !.pc = "updateTicket", !.seen = row, !.first = first]
      OBVIOUS
    <2>4. /\ s \in ClientState /\ s.pc = "updateTicket" /\ s.seen = row
          /\ s.ticket = client[a].ticket /\ s.to = client[a].to
          /\ s.request = client[a].request /\ s.reply = client[a].reply
      BY <1>1, <2>1, <2>2, <2>3 DEF ClientState, Running
    <2>5. Become(a, s)
      BY <1>5, <2>3
    <2>6. /\ client' \in [Client -> ClientState] /\ client'[a] = s
          /\ \A v \in Client : v # a => client'[v] = client[v]
      BY <1>1, <2>4, <2>5, BecomeClient DEF IInv
    <2>7. PlanAgrees(a)'
      BY <1>1, <1>5, <2>1, <2>4, <2>6 DEF PlanAgrees
    <2>8. QED
      BY <1>1, <1>2, <2>4, <2>6, <2>7, ContinueInv DEF PlanTransition
  <1>6. QED
    BY <1>3, <1>4, <1>5 DEF PlanTransition

LEMMA RerunTransitionInv ==
  ASSUME IInv, NEW a \in Agent, RerunTransition(a)
  PROVE  IInv'
  <1>1. /\ a \in Client /\ client[a].pc = "updateTicket" /\ "findTicket" \in Running
        /\ client[a].ticket \in Ticket /\ client[a].to \in TicketStatus
        /\ Goto(a, "findTicket") /\ UNCHANGED <<rows, sent, faults>>
    BY DEF Client, RerunTransition, Running, IInv, PlanAgrees
  <1>2. /\ client' \in [Client -> ClientState]
        /\ \A v \in Client : v # a => client'[v] = client[v]
        /\ client'[a].pc = "findTicket" /\ client'[a].request = client[a].request
        /\ client'[a].ticket = client[a].ticket /\ client'[a].to = client[a].to
        /\ client'[a].reply = client[a].reply
    BY <1>1, GotoClient DEF IInv
  <1>3. PlanAgrees(a)'
    BY <1>1, <1>2 DEF PlanAgrees
  <1>4. QED
    BY <1>1, <1>2, <1>3, ContinueInv

LEMMA LoseTransitionInv ==
  ASSUME IInv, NEW a \in Agent, LoseTransition(a)
  PROVE  IInv'
  <1>1. /\ a \in Client /\ client[a].pc = "updateTicket"
        /\ Finish(a, Reply("stale", FALSE)) /\ UNCHANGED <<rows, sent>>
        /\ faults' \in 0..MaxFaults
    BY DEF Client, LoseTransition, IInv, TypeOK
  <1>2. QED
    BY <1>1, FinishInv

LEMMA MoveEvent ==
  ASSUME NEW t \in Ticket, NEW seq \in Nat, NEW from \in Status, NEW to \in TicketStatus,
         NEW u \in Client, client[u].request \in Nat,
         AppendEvent(t, seq, MoveType(to), from, to, u)
  PROVE  \E e \in EventRow :
            /\ event' = event \union {e} /\ e.ticket = t /\ e.seq = seq /\ e.to = to
            /\ e.from = from /\ e.type = MoveType(to) /\ e.request = client[u].request
            /\ u \in Agent => e.actor = u
  <1>1. PICK who \in Agent \union {"none"} : who = IF u \in Agent THEN u ELSE "none"
    OBVIOUS
  <1>2. MoveType(to) \in {"assigned", "status_changed"}
    BY DEF MoveType
  <1>3. PICK e : e = [ticket |-> t, seq |-> seq, type |-> MoveType(to), from |-> from, to |-> to,
                      actor |-> who, request |-> client[u].request]
    OBVIOUS
  <1>4. event' = event \union {e}
    BY <1>1, <1>3 DEF AppendEvent
  <1>5. e \in EventRow
    BY <1>2, <1>3 DEF EventRow, Status
  <1>6. QED
    BY <1>1, <1>3, <1>4, <1>5

LEMMA OwnerKept ==
  ASSUME TypeOK, PointsAtCurrentTicket, NEW t \in Ticket, NEW row \in TicketRow,
         ticket' = [ticket EXCEPT ![t] = row],
         row.of = ticket[t].of, row.active => ticket[t].active, UNCHANGED conversation
  PROVE  PointsAtCurrentTicket'
  <1>1. \A x \in Ticket : ticket'[x].of = ticket[x].of
    BY DEF TypeOK
  <1>2. \A c : ActiveTickets(c)' \subseteq ActiveTickets(c)
    BY <1>1 DEF ActiveTickets, TypeOK
  <1>3. QED
    BY <1>1, <1>2 DEF PointsAtCurrentTicket, TypeOK

LEMMA UpdateTicketInv ==
  ASSUME IInv, NEW a \in Agent, UpdateTicket(a)
  PROVE  IInv'
  <1>1. PICK t \in Ticket : t = client[a].ticket
    BY DEF UpdateTicket, IInv, PlanAgrees, Client
  <1>2. PICK to \in TicketStatus : to = client[a].to
    BY DEF UpdateTicket, IInv, PlanAgrees, Client
  <1>3. PICK seen \in TicketRow : seen = client[a].seen
    BY ClientFields DEF IInv, TypeOK, Client
  <1>4. /\ a \in Client /\ client[a] \in ClientState /\ client[a].pc = "updateTicket"
        /\ ticket[t] = seen /\ seen.status \in TicketStatus /\ CanTransition(seen.status, to)
    BY <1>1, <1>2, <1>3 DEF UpdateTicket, Unchanged, IInv, PlanAgrees, Client, TypeOK
  <1>5. PICK row \in TicketRow : row = Moved(seen, to, a)
    BY MovedFields
  <1>6. /\ row.status = to
        /\ row.active <=> seen.active /\ to # "closed"
        /\ row.assignee = IF to = "assigned" THEN a ELSE seen.assignee
        /\ row.lastEventSeq = seen.lastEventSeq + 1 /\ row.of = seen.of
    BY <1>5, MovedFields
  <1>7. /\ ticket' = [ticket EXCEPT ![t] = row]
        /\ AppendEvent(t, row.lastEventSeq, MoveType(to), seen.status, to, a)
        /\ Become(a, [client[a] EXCEPT !.pc = "answer", !.reply = Reply("updated", FALSE)])
        /\ UNCHANGED <<conversation, sent, faults>>
    BY <1>1, <1>2, <1>3, <1>5, <1>6 DEF UpdateTicket
  <1>8. seen.status \in Status /\ row.lastEventSeq \in Nat /\ client[a].request \in Nat
    BY <1>4, RowFields, ClientFields
  <1>9. PICK e \in EventRow :
            /\ event' = event \union {e} /\ e.ticket = t /\ e.seq = row.lastEventSeq /\ e.to = to
            /\ e.type = MoveType(to) /\ e.request = client[a].request /\ e.actor = a
    BY <1>4, <1>7, <1>8, MoveEvent
  <1>10. PICK s : s = [client[a] EXCEPT !.pc = "answer", !.reply = Reply("updated", FALSE)]
    OBVIOUS
  <1>11. /\ s \in ClientState /\ s.pc = "answer" /\ s.request = client[a].request
         /\ s.ticket = t /\ s.to = to /\ s.reply = Reply("updated", FALSE)
    BY <1>1, <1>2, <1>4, <1>10 DEF ClientState, ReplyType, Reply, Running
  <1>12. /\ client' \in [Client -> ClientState] /\ client'[a] = s
         /\ \A v \in Client : v # a => client'[v] = client[v]
    BY <1>4, <1>7, <1>10, <1>11, BecomeClient DEF IInv
  <1>13. s.reply.kind = "updated"
    BY <1>11 DEF Reply
  <1>14. RowAgrees(t)'
    <2>1. ticket'[t] = row
      BY <1>7 DEF IInv, TypeOK
    <2>2. /\ seen.of \in Conversation
          /\ seen.active <=> seen.status # "closed"
          /\ seen.status = "open" <=> seen.assignee = "none"
      BY <1>4 DEF IInv, RowAgrees, TicketStatus
    <2>3. seen.status # "closed" /\ to # "open" /\ (to = "assigned" \/ seen.status # "open")
      BY <1>4, TransitionCases
    <2>4. row.assignee # "none"
      BY <1>6, <2>2, <2>3, TicketIds
    <2>5. QED
      BY <1>6, <2>1, <2>2, <2>3, <2>4 DEF RowAgrees, TicketStatus
  <1>15. PointsAtCurrentTicket'
    BY <1>4, <1>6, <1>7, OwnerKept DEF IInv
  <1>16. \/ e.type = "assigned" /\ e.actor = row.assignee
         \/ e.type # "assigned" /\ row.assignee = ticket[t].assignee
    BY <1>4, <1>6, <1>9 DEF MoveType
  <1>17. client[a].pc \notin {"idle", "answer"} /\ row.lastEventSeq = ticket[t].lastEventSeq + 1
         /\ row.of = ticket[t].of /\ e.to = row.status
         /\ conversation' \in [Conversation -> Ticket \union {"none"}]
    BY <1>4, <1>6, <1>7, <1>9 DEF IInv, TypeOK
  <1>18. QED
    BY <1>4, <1>7, <1>9, <1>11, <1>12, <1>13, <1>14, <1>15, <1>16, <1>17, CommitStep

----------------------------------------------------------------------------
(* Escalation *)

LEMMA StartEscalationInv ==
  ASSUME IInv, NEW u \in Escalator, NEW c \in Conversation, StartEscalation(u, c)
  PROVE  IInv'
  <1>1. PICK s : s = [IdleClient EXCEPT !.pc = "findActiveTicket", !.of = c]
    OBVIOUS
  <1>2. /\ s \in ClientState /\ s.pc = "findActiveTicket" /\ s.of = c
        /\ s.reply = Reply("none", FALSE)
    BY <1>1, IdleFields DEF ClientState, Running
  <1>3. u \in Client /\ Begin(u, s)
    BY <1>1 DEF Client, StartEscalation
  <1>4. client'[u].pc = "findActiveTicket" /\ client'[u].of = c
    BY <1>2, <1>3, BeginClient DEF IInv
  <1>5. PlanAgrees(u)'
    BY <1>4 DEF PlanAgrees
  <1>6. s.reply.kind = "none"
    BY <1>2 DEF Reply
  <1>7. QED
    BY <1>2, <1>3, <1>5, <1>6, BeginStep

(* An escalation goes on with the conversation it has. *)
LEMMA GotoEscalating ==
  ASSUME IInv, NEW u \in Escalator, NEW pc \in {"findActiveTicket", "createTicket"}, Goto(u, pc),
         client[u].pc \in {"findActiveTicket", "createTicket", "appendTicket"},
         UNCHANGED <<rows, sent, faults>>
  PROVE  IInv'
  <1>1. u \in Client /\ pc \in Running \union {"idle"} /\ client[u].of \in Conversation
    BY DEF Client, Running, IInv, PlanAgrees
  <1>2. /\ client' \in [Client -> ClientState]
        /\ \A v \in Client : v # u => client'[v] = client[v]
        /\ client'[u].pc = pc /\ client'[u].request = client[u].request
        /\ client'[u].of = client[u].of /\ client'[u].reply = client[u].reply
    BY <1>1, GotoClient DEF IInv
  <1>3. PlanAgrees(u)'
    BY <1>1, <1>2 DEF PlanAgrees
  <1>4. QED
    BY <1>1, <1>2, <1>3, ContinueInv

LEMMA PlanEscalationInv ==
  ASSUME IInv, NEW u \in Escalator, PlanEscalation(u)
  PROVE  IInv'
  <1>1. /\ u \in Client /\ client[u].pc = "findActiveTicket" /\ client[u] \in ClientState
        /\ client[u].of \in Conversation /\ UNCHANGED <<rows, sent, faults>>
    BY DEF Client, PlanEscalation, IInv, TypeOK, PlanAgrees
  <1>2. CASE Goto(u, "createTicket")
    BY <1>1, <1>2, GotoEscalating
  <1>3. ASSUME NEW t \in ActiveTickets(client[u].of),
               Become(u, [client[u] EXCEPT !.pc = "appendTicket", !.ticket = t, !.seen = ticket[t]])
        PROVE  IInv'
    <2>1. t \in Ticket /\ ticket[t].active /\ ticket[t].of = client[u].of
      BY DEF ActiveTickets
    <2>2. ticket[t] \in TicketRow
      BY <2>1 DEF IInv, TypeOK
    <2>3. PICK s : s = [client[u] EXCEPT !.pc = "appendTicket", !.ticket = t, !.seen = ticket[t]]
      OBVIOUS
    <2>4. /\ s \in ClientState /\ s.pc = "appendTicket" /\ s.seen = ticket[t] /\ s.ticket = t
          /\ s.of = client[u].of /\ s.request = client[u].request /\ s.reply = client[u].reply
      BY <1>1, <2>1, <2>2, <2>3 DEF ClientState, Running
    <2>5. /\ client' \in [Client -> ClientState] /\ client'[u] = s
          /\ \A v \in Client : v # u => client'[v] = client[v]
      BY <1>1, <1>3, <2>3, <2>4, BecomeClient DEF IInv
    <2>6. PlanAgrees(u)'
      BY <1>1, <2>1, <2>4, <2>5 DEF PlanAgrees
    <2>7. QED
      BY <1>1, <2>4, <2>5, <2>6, ContinueInv
  <1>4. QED
    BY <1>2, <1>3 DEF PlanEscalation

LEMMA RerunEscalationInv ==
  ASSUME IInv, NEW u \in Escalator, RerunEscalation(u)
  PROVE  IInv'
  BY GotoEscalating DEF RerunEscalation

LEMMA LoseEscalationInv ==
  ASSUME IInv, NEW u \in Escalator, LoseEscalation(u)
  PROVE  IInv'
  <1>1. /\ u \in Client /\ client[u].pc \in {"createTicket", "appendTicket"}
        /\ client[u] \in ClientState /\ client[u].of \in Conversation
        /\ UNCHANGED <<rows, sent, faults>> /\ faults' \in 0..MaxFaults
    BY DEF Client, LoseEscalation, IInv, TypeOK, PlanAgrees
  <1>2. CASE Finish(u, Reply("fault", FALSE))
    BY <1>1, <1>2, FinishInv
  <1>3. CASE Become(u, [client[u] EXCEPT !.pc = "findActiveTicket", !.retried = TRUE])
    <2>1. PICK s : s = [client[u] EXCEPT !.pc = "findActiveTicket", !.retried = TRUE]
      OBVIOUS
    <2>2. /\ s \in ClientState /\ s.pc = "findActiveTicket" /\ s.of = client[u].of
          /\ s.request = client[u].request /\ s.reply = client[u].reply
      BY <1>1, <2>1 DEF ClientState, Running
    <2>3. /\ client' \in [Client -> ClientState] /\ client'[u] = s
          /\ \A v \in Client : v # u => client'[v] = client[v]
      BY <1>1, <1>3, <2>1, <2>2, BecomeClient DEF IInv
    <2>4. PlanAgrees(u)'
      BY <1>1, <2>2, <2>3 DEF PlanAgrees
    <2>5. QED
      BY <1>1, <2>2, <2>3, <2>4, ContinueInv
  <1>4. QED
    BY <1>2, <1>3 DEF LoseEscalation

(* The event of an escalation, and what the client is left with. *)
LEMMA EscalationEvent ==
  ASSUME NEW t \in Ticket, NEW seq \in Nat, NEW type \in {"created", "escalated"},
         NEW from \in Status, NEW to \in Status, NEW u \in Escalator, client[u].request \in Nat,
         AppendEvent(t, seq, type, from, to, u)
  PROVE  \E e \in EventRow :
            /\ event' = event \union {e} /\ e.ticket = t /\ e.seq = seq /\ e.to = to
            /\ e.from = from /\ e.type = type /\ e.request = client[u].request
  <1>1. PICK e : e = [ticket |-> t, seq |-> seq, type |-> type, from |-> from, to |-> to,
                      actor |-> "none", request |-> client[u].request]
    OBVIOUS
  <1>2. event' = event \union {e}
    BY <1>1, TicketIds DEF AppendEvent
  <1>3. e \in EventRow
    BY <1>1 DEF EventRow
  <1>4. QED
    BY <1>1, <1>2, <1>3

LEMMA CreateTicketInv ==
  ASSUME IInv, NEW u \in Escalator, CreateTicket(u)
  PROVE  IInv'
  <1>1. PICK c \in Conversation : c = client[u].of
    BY DEF CreateTicket, IInv, PlanAgrees, Client
  <1>2. PICK t \in Ticket :
             /\ ~Exists(t)
             /\ ticket' = [ticket EXCEPT ![t] = OpenedFor(c)]
             /\ AppendEvent(t, 1, "created", "none", "open", u)
             /\ conversation' = [conversation EXCEPT ![c] = t]
             /\ Become(u, [client[u] EXCEPT !.pc = "answer", !.ticket = t,
                                            !.reply = Reply("escalated", TRUE)])
    BY <1>1 DEF CreateTicket
  <1>3. PICK row \in TicketRow : row = OpenedFor(c)
    BY OpenedFields
  <1>4. /\ row.status = "open" /\ row.active = TRUE /\ row.assignee = "none"
        /\ row.lastEventSeq = 1 /\ row.of = c
    BY <1>3, OpenedFields
  <1>5. /\ u \in Client /\ client[u] \in ClientState /\ client[u].pc = "createTicket"
        /\ ActiveTickets(c) = {} /\ UNCHANGED <<sent, faults>>
    BY <1>1 DEF CreateTicket, Client, IInv, TypeOK
  <1>6. PICK e \in EventRow :
            /\ event' = event \union {e} /\ e.ticket = t /\ e.seq = 1 /\ e.to = "open"
            /\ e.type = "created" /\ e.request = client[u].request
    <2>1. client[u].request \in Nat /\ "none" \in Status /\ "open" \in Status
      BY <1>5, ClientFields DEF Status, TicketStatus
    <2>2. QED
      BY <1>2, <2>1, EscalationEvent
  <1>7. PICK s : s = [client[u] EXCEPT !.pc = "answer", !.ticket = t, !.reply = Reply("escalated", TRUE)]
    OBVIOUS
  <1>8. /\ s \in ClientState /\ s.pc = "answer" /\ s.request = client[u].request
        /\ s.of = c /\ s.reply = Reply("escalated", TRUE)
    BY <1>1, <1>5, <1>7 DEF ClientState, ReplyType, Reply, Running
  <1>9. /\ client' \in [Client -> ClientState] /\ client'[u] = s
        /\ \A v \in Client : v # u => client'[v] = client[v]
    BY <1>2, <1>5, <1>7, <1>8, BecomeClient DEF IInv
  <1>10. s.reply.kind = "escalated" /\ s.reply.created = TRUE
    BY <1>8 DEF Reply
  <1>11. ticket[t] = NoTicket
    BY <1>2 DEF Exists
  <1>12. ticket'[t] = row /\ \A x \in Ticket : x # t => ticket'[x] = ticket[x]
    BY <1>2, <1>3 DEF IInv, TypeOK
  <1>13. RowAgrees(t)'
    BY <1>4, <1>12 DEF RowAgrees, TicketStatus
  <1>14. PointsAtCurrentTicket'
    <2>1. conversation'[c] = t /\ \A d \in Conversation : d # c => conversation'[d] = conversation[d]
      BY <1>2 DEF IInv, TypeOK
    <2>2. ActiveTickets(c)' = {t}
      BY <1>4, <1>5, <1>12 DEF ActiveTickets
    <2>3. \A d \in Conversation : d # c => ActiveTickets(d)' = ActiveTickets(d)
      BY <1>4, <1>11, <1>12, NoTicketFields DEF ActiveTickets
    <2>4. ASSUME NEW d \in Conversation, d # c
          PROVE  /\ conversation'[d] # "none" <=> \E x \in Ticket : ticket'[x].of = d
                 /\ conversation'[d] # "none" => ticket'[conversation'[d]].of = d
                 /\ ActiveTickets(d)' \subseteq {conversation'[d]}
      <3>1. /\ conversation[d] # "none" <=> \E x \in Ticket : ticket[x].of = d
            /\ conversation[d] # "none" => ticket[conversation[d]].of = d
            /\ ActiveTickets(d) \subseteq {conversation[d]}
            /\ conversation[d] \in Ticket \union {"none"}
        BY DEF IInv, PointsAtCurrentTicket, TypeOK
      <3>2. ticket[t].of # d /\ ticket'[t].of # d
        BY <1>4, <1>11, <1>12, <2>4, NoTicketFields, TicketIds
      <3>3. QED
        BY <1>12, <2>1, <2>3, <2>4, <3>1, <3>2
    <2>5. /\ conversation'[c] # "none" /\ ticket'[conversation'[c]].of = c
          /\ ActiveTickets(c)' \subseteq {conversation'[c]}
      BY <1>4, <1>12, <2>1, <2>2, TicketIds
    <2>6. QED
      BY <2>1, <2>4, <2>5 DEF PointsAtCurrentTicket
  <1>15. conversation' \in [Conversation -> Ticket \union {"none"}]
    BY <1>2 DEF IInv, TypeOK
  <1>16. client[u].pc \notin {"idle", "answer"} /\ row.lastEventSeq = ticket[t].lastEventSeq + 1
         /\ ticket[t].status = "none" /\ e.to = row.status
         /\ e.type # "assigned" /\ row.assignee = ticket[t].assignee /\ e.seq = row.lastEventSeq
    BY <1>4, <1>5, <1>6, <1>11, NoTicketFields
  <1>17. QED
    BY <1>2, <1>3, <1>4, <1>5, <1>6, <1>8, <1>9, <1>10, <1>13, <1>14, <1>15, <1>16, CommitStep

LEMMA AppendTicketInv ==
  ASSUME IInv, NEW u \in Escalator, AppendTicket(u)
  PROVE  IInv'
  <1>1. PICK t \in Ticket : t = client[u].ticket
    BY DEF AppendTicket, IInv, PlanAgrees, Client
  <1>2. PICK c \in Conversation : c = client[u].of
    BY DEF AppendTicket, IInv, PlanAgrees, Client
  <1>3. PICK seen \in TicketRow : seen = client[u].seen
    BY ClientFields DEF IInv, TypeOK, Client
  <1>4. /\ u \in Client /\ client[u] \in ClientState /\ client[u].pc = "appendTicket"
        /\ ticket[t] = seen /\ seen.active /\ seen.of = c
    BY <1>1, <1>2, <1>3 DEF AppendTicket, Unchanged, IInv, PlanAgrees, Client, TypeOK
  <1>5. seen.status \in TicketStatus
    BY <1>4 DEF IInv, RowAgrees
  <1>6. PICK row \in TicketRow : row = Escalated(seen)
    BY <1>5, EscalatedFields
  <1>7. /\ row.status = IF seen.status \in {"waiting", "resolved"} THEN "assigned" ELSE seen.status
        /\ row.active = seen.active /\ row.assignee = seen.assignee
        /\ row.lastEventSeq = seen.lastEventSeq + 1 /\ row.of = c
    BY <1>4, <1>5, <1>6, EscalatedFields
  <1>8. PICK to \in Status : to = ReopensOnEscalation(seen.status)
    BY <1>5, ReopenCases DEF Status, TicketStatus
  <1>9. to = row.status \/ (to = "none" /\ row.status = seen.status)
    BY <1>5, <1>7, <1>8, ReopenCases
  <1>10. PICK from \in Status : from = IF to = "none" THEN "none" ELSE seen.status
    BY <1>5 DEF Status
  <1>11. /\ ticket' = [ticket EXCEPT ![t] = row]
         /\ AppendEvent(t, row.lastEventSeq, "escalated", from, to, u)
         /\ conversation' = [conversation EXCEPT ![c] = t]
         /\ Become(u, [client[u] EXCEPT !.pc = "answer", !.reply = Reply("escalated", FALSE)])
         /\ UNCHANGED <<sent, faults>>
    BY <1>1, <1>2, <1>3, <1>6, <1>8, <1>10 DEF AppendTicket
  <1>12. row.lastEventSeq \in Nat /\ client[u].request \in Nat
    BY <1>4, RowFields, ClientFields
  <1>13. PICK e \in EventRow :
            /\ event' = event \union {e} /\ e.ticket = t /\ e.seq = row.lastEventSeq /\ e.to = to
            /\ e.type = "escalated" /\ e.request = client[u].request
    BY <1>11, <1>12, EscalationEvent
  <1>14. PICK s : s = [client[u] EXCEPT !.pc = "answer", !.reply = Reply("escalated", FALSE)]
    OBVIOUS
  <1>15. /\ s \in ClientState /\ s.pc = "answer" /\ s.request = client[u].request
         /\ s.of = c /\ s.reply = Reply("escalated", FALSE)
    BY <1>2, <1>4, <1>14 DEF ClientState, ReplyType, Reply, Running
  <1>16. /\ client' \in [Client -> ClientState] /\ client'[u] = s
         /\ \A v \in Client : v # u => client'[v] = client[v]
    BY <1>4, <1>11, <1>14, <1>15, BecomeClient DEF IInv
  <1>17. s.reply.kind = "escalated" /\ s.reply.created = FALSE
    BY <1>15 DEF Reply
  <1>18. conversation[c] = t
    <2>1. t \in ActiveTickets(c)
      BY <1>4 DEF ActiveTickets
    <2>2. QED
      BY <2>1 DEF IInv, PointsAtCurrentTicket
  <1>19. UNCHANGED conversation
    BY <1>11, <1>18 DEF IInv, TypeOK
  <1>20. PointsAtCurrentTicket'
    BY <1>4, <1>7, <1>11, <1>19, OwnerKept DEF IInv
  <1>21. RowAgrees(t)'
    <2>1. ticket'[t] = row
      BY <1>11 DEF IInv, TypeOK
    <2>2. /\ seen.status # "closed"
          /\ seen.status = "open" <=> seen.assignee = "none"
      BY <1>4, <1>5 DEF IInv, RowAgrees, TicketStatus
    <2>3. QED
      BY <1>4, <1>5, <1>7, <2>1, <2>2 DEF RowAgrees, TicketStatus
  <1>22. client[u].pc \notin {"idle", "answer"} /\ row.lastEventSeq = ticket[t].lastEventSeq + 1
         /\ row.of = ticket[t].of /\ e.type # "assigned" /\ row.assignee = ticket[t].assignee
         /\ (e.to = row.status \/ (e.to = "none" /\ row.status = ticket[t].status))
         /\ conversation' \in [Conversation -> Ticket \union {"none"}]
    BY <1>4, <1>7, <1>9, <1>13, <1>19 DEF IInv, TypeOK
  <1>23. /\ client'[u].reply.kind = "escalated" /\ row.of = client'[u].of
         /\ client'[u].reply.created <=> e.type = "created"
         /\ client'[u].pc = "answer" /\ client'[u].request = client[u].request
    BY <1>7, <1>13, <1>15, <1>16, <1>17
  <1>24. e.to = row.status \/ (e.to = "none" /\ row.status = ticket[t].status)
    BY <1>22
  <1>25. /\ u \in Client /\ client[u].pc \notin {"idle", "answer"} /\ UNCHANGED <<sent, faults>>
         /\ ticket' = [ticket EXCEPT ![t] = row] /\ row.of = ticket[t].of
    BY <1>4, <1>11, <1>22
  <1>26. CASE e.to = row.status
    BY <1>13, <1>16, <1>20, <1>21, <1>22, <1>23, <1>25, <1>26, CommitStep
  <1>27. CASE e.to = "none" /\ row.status = ticket[t].status
    BY <1>13, <1>16, <1>20, <1>21, <1>22, <1>23, <1>25, <1>27, CommitStep
  <1>28. QED
    BY <1>24, <1>26, <1>27

----------------------------------------------------------------------------
(* The ends of a request *)

LEMMA AnswerInv ==
  ASSUME IInv, NEW u \in Client, Answer(u)
  PROVE  IInv'
  <1>1. /\ client[u].pc = "answer" /\ client[u] \in ClientState
        /\ UNCHANGED <<rows, sent>> /\ faults' \in 0..MaxFaults
    BY DEF Answer, IInv, TypeOK
  <1>2. PICK s : s = [client[u] EXCEPT !.pc = "idle", !.seen = NoTicket, !.retried = FALSE]
    OBVIOUS
  <1>3. /\ s \in ClientState /\ s.pc = "idle" /\ s.request = client[u].request
        /\ s.ticket = client[u].ticket /\ s.to = client[u].to /\ s.of = client[u].of
        /\ s.reply = client[u].reply
    BY <1>1, <1>2, NoTicketFields DEF ClientState
  <1>4. /\ client' \in [Client -> ClientState] /\ client'[u] = s
        /\ \A v \in Client : v # u => client'[v] = client[v]
    BY <1>2, <1>3, BecomeClient DEF Answer, IInv
  <1>5. PlanAgrees(u)'
    BY <1>3, <1>4 DEF PlanAgrees
  <1>6. ReplyAgrees(u)'
    <2>1. event' = event /\ ticket' = ticket
      BY <1>1 DEF rows
    <2>2. Written(u)' = Written(u)
      BY <1>3, <1>4, <2>1 DEF Written
    <2>3. ReplyAgrees(u)
      BY DEF IInv
    <2>4. QED
      BY <1>3, <1>4, <2>1, <2>2, <2>3 DEF ReplyAgrees
  <1>7. QED
    BY <1>1, <1>3, <1>4, <1>5, <1>6, QuietStep

LEMMA CallFailsInv ==
  ASSUME IInv, NEW u \in Client, CallFails(u)
  PROVE  IInv'
  <1>1. PICK kind \in {"fault", "none"} : Finish(u, Reply(kind, FALSE))
    BY DEF CallFails
  <1>2. client[u].pc # "idle" /\ UNCHANGED <<rows, sent>> /\ faults' \in 0..MaxFaults
    BY TicketBounds DEF CallFails, Running, IInv, TypeOK
  <1>3. QED
    BY <1>1, <1>2, FinishInv

LEMMA NextInv == IInv /\ [Next]_vars => IInv'
  <1> SUFFICES ASSUME IInv, [Next]_vars PROVE IInv'
    OBVIOUS
  <1>1. ASSUME NEW a \in Agent, NEW t \in Ticket, NEW to \in TicketStatus, StartTransition(a, t, to)
        PROVE  IInv'
    BY <1>1, StartTransitionInv
  <1>2. ASSUME NEW u \in Escalator, NEW c \in Conversation, StartEscalation(u, c) PROVE IInv'
    BY <1>2, StartEscalationInv
  <1>3. ASSUME NEW a \in Agent, AgentStep(a) PROVE IInv'
    <2>1. a \in Client
      BY DEF Client
    <2>2. QED
      BY <1>3, <2>1, PlanTransitionInv, UpdateTicketInv, RerunTransitionInv, LoseTransitionInv,
         AnswerInv DEF AgentStep
  <1>4. ASSUME NEW u \in Escalator, EscalatorStep(u) PROVE IInv'
    <2>1. u \in Client
      BY DEF Client
    <2>2. QED
      BY <1>4, <2>1, PlanEscalationInv, CreateTicketInv, AppendTicketInv, RerunEscalationInv,
         LoseEscalationInv, AnswerInv DEF EscalatorStep
  <1>5. ASSUME NEW u \in Client, CallFails(u) PROVE IInv'
    BY <1>5, CallFailsInv
  <1>6. CASE UNCHANGED vars
    <2>1. /\ UNCHANGED rows /\ client' = client /\ sent' = sent /\ faults' = faults
          /\ ticket' = ticket /\ event' = event /\ conversation' = conversation
      BY <1>6 DEF vars, rows
    <2>2. TypeOK'
      BY <2>1 DEF IInv, TypeOK
    <2>3. \A u \in Client : PlanAgrees(u)'
      BY <2>1 DEF IInv, PlanAgrees
    <2>4. \A u \in Client : ReplyAgrees(u)'
      BY <2>1 DEF IInv, ReplyAgrees, Written
    <2>5. RequestsAgree'
      BY <2>1 DEF IInv, RequestsAgree
    <2>6. QED
      BY <2>1, <2>2, <2>3, <2>4, <2>5, SameRows DEF IInv
  <1>7. QED
    BY <1>1, <1>2, <1>3, <1>4, <1>5, <1>6 DEF Next

(* Rows, events, conversations and handlers agree in every reachable state. *)
THEOREM Invariance == Spec => []IInv
  BY InitInv, NextInv, PTL DEF Spec

----------------------------------------------------------------------------
(* What follows from the invariant *)

LEMMA UnopenedHasNoEvents ==
  ASSUME IInv, NEW t \in Ticket, ticket[t].status = "none"
  PROVE  EventsOf(t) = {}
  <1>1. ticket[t].lastEventSeq = 0
    BY NoTicketFields DEF IInv, RowAgrees
  <1>2. {e.seq : e \in EventsOf(t)} = 1..0
    BY <1>1 DEF IInv, LogAgrees
  <1>3. 1..0 = {}
    OBVIOUS
  <1>4. QED
    BY <1>2, <1>3

LEMMA DerivedStatus ==
  ASSUME IInv, NEW t \in Ticket
  PROVE  StatusFromEvents(EventsOf(t)) = ticket[t].status
  <1> DEFINE moves == {e \in EventsOf(t) : e.to # "none"}
  <1>1. CASE ticket[t].status = "none"
    <2>1. moves = {}
      BY <1>1, UnopenedHasNoEvents
    <2>2. QED
      BY <1>1, <2>1 DEF StatusFromEvents
  <1>2. CASE ticket[t].status # "none"
    <2>1. PICK e \in EventsOf(t) : LastMove(t, e) /\ e.to = ticket[t].status
      BY <1>2 DEF IInv, LogAgrees
    <2>2. e \in moves /\ \A f \in moves : f.seq <= e.seq
      BY <2>1 DEF LastMove
    <2>3. ASSUME NEW m \in moves, \A f \in moves : f.seq <= m.seq PROVE m = e
      <3>1. m \in EventsOf(t) /\ m.seq <= e.seq /\ e.seq <= m.seq
        BY <2>2, <2>3
      <3>2. m.seq \in Nat /\ e.seq \in Nat
        BY <3>1, <2>1 DEF IInv, TypeOK, EventsOf, EventRow
      <3>3. QED
        BY <2>1, <3>1, <3>2 DEF IInv, LogAgrees
    <2>4. PICK m : m = CHOOSE x \in moves : \A f \in moves : f.seq <= x.seq
      OBVIOUS
    <2>5. m \in moves /\ \A f \in moves : f.seq <= m.seq
      BY <2>2, <2>4
    <2>6. m = e
      BY <2>3, <2>5
    <2>7. StatusFromEvents(EventsOf(t)) = m.to
      BY <2>2, <2>4 DEF StatusFromEvents
    <2>8. QED
      BY <2>1, <2>6, <2>7
  <1>3. QED
    BY <1>1, <1>2

(* Every row the desk writes is one its schemas allow. *)
THEOREM TypeCorrectness == Spec => []TypeOK
  <1>1. IInv => TypeOK
    BY DEF IInv
  <1>2. QED
    BY <1>1, Invariance, PTL

(* The events are the source of truth: the status is what they say and they are
   numbered without a gap or a repetition, whoever wrote at the same moment. *)
THEOREM EventsAreTheTruth == Spec => []CacheAgreesWithEvents
  <1>1. IInv => CacheAgreesWithEvents
    BY DerivedStatus DEF IInv, LogAgrees, CacheAgreesWithEvents
  <1>2. QED
    BY <1>1, Invariance, PTL

(* A conversation points at one of its tickets, at the active one if it has one,
   and never has two that are active. *)
THEOREM OneCurrentTicket == Spec => []PointsAtCurrentTicket
  <1>1. IInv => PointsAtCurrentTicket
    BY DEF IInv
  <1>2. QED
    BY <1>1, Invariance, PTL

(* A ticket is held by whoever took it last, whatever happened to it since. *)
THEOREM TakenIsHeld == Spec => []HeldByWhoTookIt
  <1>1. ASSUME IInv, NEW t \in Ticket, ticket[t].assignee # "none"
        PROVE  \E e \in {f \in EventsOf(t) : f.type = "assigned"} :
                  /\ \A f \in {g \in EventsOf(t) : g.type = "assigned"} : f.seq <= e.seq
                  /\ e.actor = ticket[t].assignee
    BY <1>1 DEF IInv, LogAgrees, LastTaken
  <1>2. IInv => HeldByWhoTookIt
    BY <1>1 DEF IInv, RowAgrees, HeldByWhoTookIt
  <1>3. QED
    BY <1>2, Invariance, PTL

(* A success is answered for exactly one event and a rejection for none, whatever
   was rerun, retried or failed. *)
THEOREM AnswersAreRecorded == Spec => []AnsweredAsRecorded
  <1>1. IInv => AnsweredAsRecorded
    BY DEF IInv, ReplyAgrees, Written, AnsweredAsRecorded
  <1>2. QED
    BY <1>1, Invariance, PTL

----------------------------------------------------------------------------
(* What a step does to the rows *)

LEMMA RowsChangeByWrites ==
  ASSUME [Next]_vars
  PROVE  \/ UNCHANGED rows
         \/ \E a \in Agent : UpdateTicket(a)
         \/ \E u \in Escalator : CreateTicket(u) \/ AppendTicket(u)
  <1>1. ASSUME NEW a \in Agent, AgentStep(a) PROVE UpdateTicket(a) \/ UNCHANGED rows
    BY <1>1 DEF AgentStep, PlanTransition, RerunTransition, LoseTransition, Answer
  <1>2. ASSUME NEW u \in Escalator, EscalatorStep(u)
        PROVE  CreateTicket(u) \/ AppendTicket(u) \/ UNCHANGED rows
    BY <1>2 DEF EscalatorStep, PlanEscalation, RerunEscalation, LoseEscalation, Answer
  <1>3. QED
    BY <1>1, <1>2 DEF Next, vars, StartTransition, StartEscalation, Begin, CallFails

(* An agent's move is a legal one of the ticket as it is when it is written. *)
LEMMA UpdateIsLegal ==
  ASSUME IInv, NEW a \in Agent, UpdateTicket(a)
  PROVE  \E t \in Ticket, to \in TicketStatus :
            /\ ticket[t].status \in TicketStatus /\ CanTransition(ticket[t].status, to)
            /\ ticket'[t].status = to /\ ticket'[t].of = ticket[t].of
            /\ \A x \in Ticket : x # t => ticket'[x] = ticket[x] /\ EventsOf(x)' = EventsOf(x)
            /\ UNCHANGED conversation
  <1>1. PICK t \in Ticket : t = client[a].ticket
    BY DEF UpdateTicket, IInv, PlanAgrees, Client
  <1>2. PICK to \in TicketStatus : to = client[a].to
    BY DEF UpdateTicket, IInv, PlanAgrees, Client
  <1>3. PICK seen \in TicketRow : seen = client[a].seen
    BY ClientFields DEF IInv, TypeOK, Client
  <1>4. ticket[t] = seen /\ seen.status \in TicketStatus /\ CanTransition(seen.status, to)
    BY <1>1, <1>2, <1>3 DEF UpdateTicket, Unchanged, IInv, PlanAgrees, Client
  <1>5. PICK row \in TicketRow :
          row = Moved(seen, to, a) /\ row.status = to /\ row.of = seen.of
    BY MovedFields
  <1>6. ticket' = [ticket EXCEPT ![t] = row] /\ UNCHANGED conversation
    BY <1>1, <1>2, <1>3, <1>5 DEF UpdateTicket
  <1>7. \A x \in Ticket : x # t => EventsOf(x)' = EventsOf(x)
    BY <1>1 DEF UpdateTicket, AppendEvent, EventsOf
  <1>8. ticket'[t] = row /\ \A x \in Ticket : x # t => ticket'[x] = ticket[x]
    BY <1>6 DEF IInv, TypeOK
  <1>9. QED
    BY <1>4, <1>5, <1>6, <1>7, <1>8

(* An escalation finds an active ticket and leaves it or takes it up again. *)
LEMMA AppendIsLegal ==
  ASSUME IInv, NEW u \in Escalator, AppendTicket(u)
  PROVE  \E t \in Ticket :
            /\ ticket[t].status \in TicketStatus \ {"closed"}
            /\ \/ ticket'[t].status = ticket[t].status
               \/ /\ ticket[t].status \in {"waiting", "resolved"}
                  /\ ticket'[t].status = "assigned"
            /\ ticket'[t].of = ticket[t].of
            /\ \A x \in Ticket : x # t => ticket'[x] = ticket[x] /\ EventsOf(x)' = EventsOf(x)
            /\ UNCHANGED conversation
  <1>1. PICK t \in Ticket : t = client[u].ticket
    BY DEF AppendTicket, IInv, PlanAgrees, Client
  <1>2. PICK c \in Conversation : c = client[u].of
    BY DEF AppendTicket, IInv, PlanAgrees, Client
  <1>3. PICK seen \in TicketRow : seen = client[u].seen
    BY ClientFields DEF IInv, TypeOK, Client
  <1>4. ticket[t] = seen /\ seen.active /\ seen.of = c
    BY <1>1, <1>2, <1>3 DEF AppendTicket, Unchanged, IInv, PlanAgrees, Client
  <1>5. seen.status \in TicketStatus \ {"closed"}
    BY <1>4 DEF IInv, RowAgrees
  <1>6. PICK row \in TicketRow :
          /\ row = Escalated(seen) /\ row.of = c
          /\ row.status = IF seen.status \in {"waiting", "resolved"} THEN "assigned" ELSE seen.status
    BY <1>4, <1>5, EscalatedFields
  <1>7. ticket' = [ticket EXCEPT ![t] = row] /\ conversation' = [conversation EXCEPT ![c] = t]
    BY <1>1, <1>2, <1>3, <1>6 DEF AppendTicket
  <1>8. \A x \in Ticket : x # t => EventsOf(x)' = EventsOf(x)
    BY <1>1 DEF AppendTicket, AppendEvent, EventsOf
  <1>9. ticket'[t] = row /\ \A x \in Ticket : x # t => ticket'[x] = ticket[x]
    BY <1>7 DEF IInv, TypeOK
  <1>10. conversation[c] = t
    <2>1. t \in ActiveTickets(c)
      BY <1>4 DEF ActiveTickets
    <2>2. QED
      BY <2>1 DEF IInv, PointsAtCurrentTicket
  <1>11. UNCHANGED conversation
    BY <1>7, <1>10 DEF IInv, TypeOK
  <1>12. QED
    BY <1>4, <1>5, <1>6, <1>8, <1>9, <1>11

(* A ticket is opened where every other of its conversation is closed. *)
LEMMA CreateIsLegal ==
  ASSUME IInv, NEW u \in Escalator, CreateTicket(u)
  PROVE  \E t \in Ticket, c \in Conversation :
            /\ ticket[t].status = "none" /\ ticket'[t].status = "open" /\ ticket'[t].of = c
            /\ \A x \in Ticket : ticket[x].of = c => ticket[x].status = "closed"
            /\ \A x \in Ticket : x # t => ticket'[x] = ticket[x] /\ EventsOf(x)' = EventsOf(x)
            /\ conversation' = [conversation EXCEPT ![c] = t]
  <1>1. PICK c \in Conversation : c = client[u].of
    BY DEF CreateTicket, IInv, PlanAgrees, Client
  <1>2. PICK t \in Ticket :
             /\ ~Exists(t)
             /\ ticket' = [ticket EXCEPT ![t] = OpenedFor(c)]
             /\ AppendEvent(t, 1, "created", "none", "open", u)
             /\ conversation' = [conversation EXCEPT ![c] = t]
    BY <1>1 DEF CreateTicket
  <1>3. ticket[t].status = "none"
    BY <1>2, NoTicketFields DEF Exists
  <1>4. ticket'[t] = OpenedFor(c) /\ \A x \in Ticket : x # t => ticket'[x] = ticket[x]
    BY <1>2, OpenedFields DEF IInv, TypeOK
  <1>5. \A x \in Ticket : x # t => EventsOf(x)' = EventsOf(x)
    BY <1>2 DEF AppendEvent, EventsOf
  <1>6. ASSUME NEW x \in Ticket, ticket[x].of = c PROVE ticket[x].status = "closed"
    <2>1. ~ticket[x].active
      BY <1>1, <1>6 DEF CreateTicket, ActiveTickets
    <2>2. ticket[x].status # "none"
      BY <1>6, NoTicketFields, TicketIds DEF IInv, RowAgrees
    <2>3. ticket[x].status \in Status
      BY RowFields DEF IInv, TypeOK
    <2>4. QED
      BY <2>1, <2>2, <2>3 DEF IInv, RowAgrees, Status
  <1>7. ticket'[t].status = "open" /\ ticket'[t].of = c
    BY <1>4 DEF OpenedFor
  <1>8. QED
    BY <1>2, <1>3, <1>4, <1>5, <1>6, <1>7

(* A closed ticket is a settled record: no step changes it or its history. *)
THEOREM ClosedStaysClosed == Spec => ClosedIsSettled
  <1>1. ASSUME IInv, [Next]_vars, NEW t \in Ticket, ticket[t].status = "closed"
        PROVE  ticket'[t] = ticket[t] /\ EventsOf(t)' = EventsOf(t)
    <2>1. CASE UNCHANGED rows
      BY <2>1 DEF rows, EventsOf
    <2>2. ASSUME NEW a \in Agent, UpdateTicket(a)
          PROVE  ticket'[t] = ticket[t] /\ EventsOf(t)' = EventsOf(t)
      <3>1. PICK x \in Ticket, to \in TicketStatus :
              /\ ticket[x].status \in TicketStatus /\ CanTransition(ticket[x].status, to)
              /\ \A y \in Ticket : y # x => ticket'[y] = ticket[y] /\ EventsOf(y)' = EventsOf(y)
        BY <1>1, <2>2, UpdateIsLegal
      <3>2. x # t
        BY <1>1, <3>1, TransitionCases
      <3>3. QED
        BY <3>1, <3>2
    <2>3. ASSUME NEW u \in Escalator, CreateTicket(u)
          PROVE  ticket'[t] = ticket[t] /\ EventsOf(t)' = EventsOf(t)
      BY <1>1, <2>3, CreateIsLegal
    <2>4. ASSUME NEW u \in Escalator, AppendTicket(u)
          PROVE  ticket'[t] = ticket[t] /\ EventsOf(t)' = EventsOf(t)
      BY <1>1, <2>4, AppendIsLegal
    <2>5. QED
      BY <1>1, <2>1, <2>2, <2>3, <2>4, RowsChangeByWrites
  <1>2. IInv /\ [Next]_vars =>
          [\A t \in Ticket : ticket[t].status = "closed" =>
             ticket'[t] = ticket[t] /\ EventsOf(t)' = EventsOf(t)]_vars
    BY <1>1
  <1>3. QED
    BY <1>2, Invariance, PTL DEF Spec, ClosedIsSettled

----------------------------------------------------------------------------
(* The refinement *)

StatusIsDerived == \A t \in Ticket : StatusFromEvents(EventsOf(t)) = ticket[t].status

LEMMA StatusDerived == IInv => StatusIsDerived
  BY DerivedStatus DEF StatusIsDerived

LEMMA HistoryInit == Init => History!Init
  <1> SUFFICES ASSUME Init PROVE History!Init
    OBVIOUS
  <1>1. \A t \in Ticket : ticket[t] = NoTicket
    BY DEF Init
  <1>2. \A t \in Ticket : StatusFromEvents(EventsOf(t)) = "none" /\ ticket[t].of = "none"
    BY <1>1, InitInv, DerivedStatus, NoTicketFields
  <1>3. QED
    BY <1>2 DEF Init, History!Init

(* A step that leaves every ticket's status and conversation alone stutters. *)
LEMMA KeepMaps ==
  ASSUME StatusIsDerived, StatusIsDerived', UNCHANGED conversation,
         \A t \in Ticket : ticket'[t].status = ticket[t].status /\ ticket'[t].of = ticket[t].of
  PROVE  UNCHANGED History!vars
  <1>1. \A t \in Ticket : StatusFromEvents(EventsOf(t))' = StatusFromEvents(EventsOf(t))
    BY DEF StatusIsDerived
  <1>2. [t \in Ticket |-> StatusFromEvents(EventsOf(t))'] = [t \in Ticket |-> StatusFromEvents(EventsOf(t))]
    BY <1>1
  <1>3. [t \in Ticket |-> ticket'[t].of] = [t \in Ticket |-> ticket[t].of]
    OBVIOUS
  <1>4. QED
    BY <1>2, <1>3 DEF History!vars

(* A step that changes the status of one ticket is a move of it. *)
LEMMA MoveMaps ==
  ASSUME StatusIsDerived, StatusIsDerived', UNCHANGED conversation,
         NEW t \in Ticket, NEW to, <<ticket[t].status, to>> \in History!Moves,
         ticket'[t].status = to, ticket'[t].of = ticket[t].of,
         \A x \in Ticket : x # t => ticket'[x] = ticket[x]
  PROVE  History!Next
  <1>1. \A x \in Ticket : StatusFromEvents(EventsOf(x)) = ticket[x].status
    BY DEF StatusIsDerived
  <1>2. \A x \in Ticket : StatusFromEvents(EventsOf(x))' = ticket'[x].status
    BY DEF StatusIsDerived
  <1>3. [x \in Ticket |-> StatusFromEvents(EventsOf(x))'] =
          [[x \in Ticket |-> StatusFromEvents(EventsOf(x))] EXCEPT ![t] = to]
    <2>1. \A x \in Ticket : StatusFromEvents(EventsOf(x))' =
                             IF x = t THEN to ELSE StatusFromEvents(EventsOf(x))
      <3>1. ASSUME NEW x \in Ticket, x # t
            PROVE  StatusFromEvents(EventsOf(x))' = StatusFromEvents(EventsOf(x))
        BY <1>1, <1>2, <3>1
      <3>2. StatusFromEvents(EventsOf(t))' = to
        BY <1>2
      <3>3. QED
        BY <3>1, <3>2
    <2>2. [x \in Ticket |-> StatusFromEvents(EventsOf(x))'] =
            [x \in Ticket |-> IF x = t THEN to ELSE StatusFromEvents(EventsOf(x))]
      BY ONLY <2>1
    <2>3. [[x \in Ticket |-> StatusFromEvents(EventsOf(x))] EXCEPT ![t] = to] =
            [x \in Ticket |-> IF x = t THEN to ELSE StatusFromEvents(EventsOf(x))]
      OBVIOUS
    <2>4. QED
      BY ONLY <2>2, <2>3
  <1>4. [x \in Ticket |-> ticket'[x].of] = [x \in Ticket |-> ticket[x].of]
    OBVIOUS
  <1>5. History!Move(t, to)
    BY <1>1, <1>3, <1>4 DEF History!Move
  <1>6. to \in {m[2] : m \in History!Moves}
    OBVIOUS
  <1>7. QED
    BY <1>5, <1>6 DEF History!Next

(* A step that opens one is the opening of the next of its conversation. *)
LEMMA OpenMaps ==
  ASSUME StatusIsDerived, StatusIsDerived', NEW t \in Ticket, NEW c \in Conversation,
         ticket[t].status = "none", ticket'[t].status = "open", ticket'[t].of = c,
         \A x \in Ticket : ticket[x].of = c => ticket[x].status = "closed",
         \A x \in Ticket : x # t => ticket'[x] = ticket[x],
         conversation' = [conversation EXCEPT ![c] = t]
  PROVE  History!Next
  <1>1. \A x \in Ticket : StatusFromEvents(EventsOf(x)) = ticket[x].status
    BY DEF StatusIsDerived
  <1>2. \A x \in Ticket : StatusFromEvents(EventsOf(x))' = ticket'[x].status
    BY DEF StatusIsDerived
  <1>3. [x \in Ticket |-> StatusFromEvents(EventsOf(x))'] =
          [[x \in Ticket |-> StatusFromEvents(EventsOf(x))] EXCEPT ![t] = "open"]
    BY <1>1, <1>2
  <1>4. [x \in Ticket |-> ticket'[x].of] = [[x \in Ticket |-> ticket[x].of] EXCEPT ![t] = c]
    OBVIOUS
  <1>5. History!Open(t, c)
    BY <1>1, <1>3, <1>4 DEF History!Open
  <1>6. QED
    BY <1>5 DEF History!Next

LEMMA HistoryStep == IInv /\ IInv' /\ [Next]_vars => History!Next \/ UNCHANGED History!vars
  <1> SUFFICES ASSUME IInv, IInv', [Next]_vars PROVE History!Next \/ UNCHANGED History!vars
    OBVIOUS
  <1>1. StatusIsDerived /\ StatusIsDerived'
    BY StatusDerived, PTL
  <1>2. CASE UNCHANGED rows
    BY <1>1, <1>2, KeepMaps DEF rows
  <1>3. ASSUME NEW a \in Agent, UpdateTicket(a) PROVE History!Next
    <2>1. PICK t \in Ticket, to \in TicketStatus :
            /\ ticket[t].status \in TicketStatus /\ CanTransition(ticket[t].status, to)
            /\ ticket'[t].status = to /\ ticket'[t].of = ticket[t].of
            /\ \A x \in Ticket : x # t => ticket'[x] = ticket[x]
            /\ UNCHANGED conversation
      BY <1>3, UpdateIsLegal
    <2>2. <<ticket[t].status, to>> \in History!Moves
      BY <2>1, TransitionCases DEF History!Moves
    <2>3. QED
      BY <1>1, <2>1, <2>2, MoveMaps
  <1>4. ASSUME NEW u \in Escalator, CreateTicket(u) PROVE History!Next
    BY <1>1, <1>4, CreateIsLegal, OpenMaps
  <1>5. ASSUME NEW u \in Escalator, AppendTicket(u)
        PROVE  History!Next \/ UNCHANGED History!vars
    <2>1. PICK t \in Ticket :
            /\ \/ ticket'[t].status = ticket[t].status
               \/ /\ ticket[t].status \in {"waiting", "resolved"}
                  /\ ticket'[t].status = "assigned"
            /\ ticket'[t].of = ticket[t].of
            /\ \A x \in Ticket : x # t => ticket'[x] = ticket[x]
            /\ UNCHANGED conversation
      BY <1>5, AppendIsLegal
    <2>2. CASE ticket'[t].status = ticket[t].status
      BY <1>1, <2>1, <2>2, KeepMaps
    <2>3. CASE ticket[t].status \in {"waiting", "resolved"} /\ ticket'[t].status = "assigned"
      <3>1. <<ticket[t].status, "assigned">> \in History!Moves
        BY <2>3 DEF History!Moves
      <3>2. QED
        BY <1>1, <2>1, <2>3, <3>1, MoveMaps
    <2>4. QED
      BY <2>1, <2>2, <2>3
  <1>6. QED
    BY <1>2, <1>3, <1>4, <1>5, RowsChangeByWrites

(* What the event log says happened is a legal history of every ticket, and a
   conversation's next ticket is opened after its last is closed. *)
THEOREM HistoryImplemented == Spec => HistorySpec
  <1>1. IInv /\ IInv' /\ [Next]_vars => [History!Next]_(History!vars)
    BY HistoryStep
  <1>2. QED
    BY <1>1, HistoryInit, Invariance, PTL DEF Spec, HistorySpec, History!Spec
============================================================================
