------------------------------ MODULE StaffLists ------------------------------
(* The two lists that staff read page by page while they change: the audit of what the
   assistant attempted, newest first (server/src/policy/auditQuery.js,
   mongoAuditRepo.js), and the queue of tickets, oldest first (server/src/tickets/,
   client/src/routes/console/QueuePage.jsx). A request is sent, answered from one read
   of the database, and its answer arrives later. The audit has no page in the client
   yet: its reader is one who follows the cursors. *)
EXTENDS AuditQuery, TicketState, Sequences

CONSTANTS
    RowId,          \* ids; ObjectIds are compared, so numbers
    RawQuery,       \* what leads ask of the audit
    QueueFilter,    \* what agents choose in the queue: a status, or "active"
    MaxTime,        \* bound: the clock, in the smallest unit a date has
    MaxLag,         \* bound: how long before it can be read a row was dated
    MaxOpens,       \* bound: how often a list is opened
    MaxEvents       \* bound: rows that settle or move, and requests that fail

ASSUME ListBounds ==
    /\ RowId \subseteq Nat /\ IsFiniteSet(RowId)
    /\ QueueFilter \subseteq TicketStatus \union {"active"}
    /\ {MaxTime, MaxLag, MaxOpens, MaxEvents} \subseteq Nat

VARIABLES
    list,           \* which of the two is read
    now,
    row,            \* [RowId -> an attempt, a ticket, or NoRow]
    page,           \* what the reader sees
    first, more,    \* the requests for a list's first page and for its next
    due,            \* auxiliary: the rows that were to be listed when the first page was
                    \* read, and ever since
    events          \* how much of MaxEvents was used

vars == <<list, now, row, page, first, more, due, events>>

NoRow == [at |-> -1]

NoCursor == [at |-> -1, id |-> -1]

NoAnswer == [entries |-> <<>>, next |-> NoCursor, limit |-> 0]

NoRequest == [pc |-> "none", query |-> <<>>, before |-> NoCursor, answer |-> NoAnswer,
              of |-> 0]

Stored == {i \in RowId : row[i] # NoRow}

Event == events < MaxEvents /\ events' = events + 1

Key(i) == [at |-> row[i].at, id |-> i]

----------------------------------------------------------------------------
(* The server's side of a page *)

(* The order of a list, ids breaking the ties of rows of the same moment: `createdAt: -1,
   _id: -1` for the audit, `openedAt: 1, _id: 1` for the queue. *)
Precedes(k, l) ==
    IF list = "audit" THEN k.at > l.at \/ (k.at = l.at /\ k.id > l.id)
    ELSE k.at < l.at \/ (k.at = l.at /\ k.id < l.id)

\* Mutation: from the last row on.
FromCursor(cursor, i) == cursor = NoCursor \/ Key(i) = cursor \/ Precedes(cursor, Key(i))

\* Mutation: the cursor is a moment.
AfterMoment(cursor, i) == cursor = NoCursor \/ (Precedes(cursor, Key(i)) /\ row[i].at # cursor.at)

(* Strictly past the last row of the page before. *)
After(cursor, i) == cursor = NoCursor \/ Precedes(cursor, Key(i))

(* listTickets: one status, or every ticket being worked on. *)
TicketMatches(query, ticket) ==
    IF query.status = "active" THEN ticket.status # "closed" ELSE ticket.status = query.status

Matches(query, i) ==
    IF list = "audit" THEN AttemptMatches(query, row[i]) ELSE TicketMatches(query, row[i])

(* ticketView, of which the filter's field is kept. *)
TicketEntry(ticket, id) == [id |-> id, at |-> ticket.at, label |-> ticket.status, customer |-> "none"]

Entry(i) == IF list = "audit" THEN AuditEntry(row[i], i) ELSE TicketEntry(row[i], i)

(* One row more than the page is read, to know whether there is a next one. *)
NextCursor(found, limit) == IF Len(found) > limit THEN Key(found[limit]) ELSE NoCursor

(* Rows in the order of the list. *)
Listing(S) ==
    CHOOSE rows \in [1..Cardinality(S) -> S] :
      \A m, n \in 1..Cardinality(S) : m < n => Precedes(Key(rows[m]), Key(rows[n]))

AtMost(size, rows) == SubSeq(rows, 1, IF Len(rows) > size THEN size ELSE Len(rows))

(* A page of either list; the audit refuses a query it does not accept. *)
Answer(query, before) ==
    LET limit == IF list = "audit" THEN LimitOf(query) ELSE DefaultLimit
        found == AtMost(limit + 1, Listing({i \in Stored : Matches(query, i) /\ After(before, i)}))
        shown == AtMost(limit, found)
    IN  [entries |-> [n \in DOMAIN shown |-> Entry(shown[n])],
         next    |-> NextCursor(found, limit),
         limit   |-> limit]

Refused(query) == list = "audit" /\ ~Accepted(query)

----------------------------------------------------------------------------
(* What is listed changes under the reader *)

(* Models give a row its date, and an id, when it is made; it can be read once it is
   written, which may be later. *)
NewRow(t) ==
    IF list = "audit"
    THEN [at : {t}, customer : Customer, validity : {"resolved", "malformed"}, outcome : {"none"}]
    ELSE [at : {t}, status : {"open"}]

RowArrives(i) ==
    /\ row[i] = NoRow
    /\ \E lag \in 0..MaxLag :
         /\ lag <= now
         /\ \E r \in NewRow(now - lag) : row' = [row EXCEPT ![i] = r]
    /\ UNCHANGED <<list, now, page, first, more, events>>

(* An attempt gets one outcome, if it was resolved. *)
AttemptSettles(i) ==
    /\ Event
    /\ list = "audit" /\ row[i] # NoRow
    /\ row[i].validity = "resolved" /\ row[i].outcome = "none"
    /\ \E o \in {"refused_at_execution", "executed"} : row' = [row EXCEPT ![i].outcome = o]
    /\ UNCHANGED <<list, now, page, first, more>>

(* An agent moves a ticket, or an escalation returns it to who holds it. *)
TicketMoves(i) ==
    /\ Event
    /\ list = "queue" /\ row[i] # NoRow
    /\ \E to \in TicketStatus :
         /\ CanTransition(row[i].status, to) \/ to = ReopensOnEscalation(row[i].status)
         /\ row' = [row EXCEPT ![i].status = to]
    /\ UNCHANGED <<list, now, page, first, more>>

Tick ==
    /\ now < MaxTime
    /\ now' = now + 1
    /\ UNCHANGED <<list, row, page, first, more, due, events>>

(* What no longer matches is no longer due. *)
Others ==
    \/ /\ \E i \in RowId : RowArrives(i) \/ AttemptSettles(i) \/ TicketMoves(i)
       /\ due' = {i \in due : Matches(page.query, i)'}
    \/ Tick

----------------------------------------------------------------------------
(* The reader *)

Query == IF list = "audit" THEN RawQuery ELSE [status : QueueFilter]

Ask(query, before, of) ==
    [pc |-> "asked", query |-> query, before |-> before, answer |-> NoAnswer, of |-> of]

Init ==
    /\ list \in {"audit", "queue"}
    /\ now = 0
    /\ row = [i \in RowId |-> NoRow]
    /\ page = [query |-> <<>>, shown |-> <<>>, next |-> NoCursor, loading |-> FALSE,
               loadingMore |-> FALSE, error |-> FALSE, mixed |-> FALSE, opened |-> 0]
    /\ first = NoRequest /\ more = NoRequest
    /\ due = {}
    /\ events = 0

(* The list is opened under a filter; the queue under another one, or again where it could
   not be loaded. The page then forgets the first page it waits for, and not the next page
   it waits for. *)
Open(query) ==
    /\ page.opened < MaxOpens
    /\ list = "audit" => page.opened = 0
    /\ query # page.query \/ (page.error /\ page.shown = <<>>)
    /\ page' = [page EXCEPT !.query = query, !.loading = TRUE, !.error = FALSE,
                            !.opened = @ + 1]
    /\ first' = Ask(query, NoCursor, page.opened + 1)
    /\ due' = {}
    /\ UNCHANGED <<list, now, row, more, events>>

(* The body shows "Load more" under the tickets, and not while it loads. *)
LoadMore ==
    /\ ~page.loading /\ ~page.loadingMore
    /\ page.shown # <<>> /\ page.next # NoCursor
    /\ page' = [page EXCEPT !.loadingMore = TRUE]
    /\ more' = Ask(page.query, page.next, page.opened)
    /\ UNCHANGED <<list, now, row, first, due, events>>

AnswerFirst ==
    /\ first.pc = "asked" /\ ~Refused(first.query)
    /\ first' = [first EXCEPT !.pc = "answered", !.answer = Answer(first.query, NoCursor)]
    /\ due' = {i \in Stored : Matches(first.query, i)}
    /\ UNCHANGED <<list, now, row, page, more, events>>

AnswerMore ==
    /\ more.pc = "asked"
    /\ more' = [more EXCEPT !.pc = "answered", !.answer = Answer(more.query, more.before)]
    /\ UNCHANGED <<list, now, row, page, first, due, events>>

ReceiveFirst ==
    /\ first.pc = "answered"
    /\ page' = [page EXCEPT !.shown = first.answer.entries, !.next = first.answer.next,
                            !.loading = FALSE, !.mixed = FALSE]
    /\ first' = NoRequest
    /\ UNCHANGED <<list, now, row, more, due, events>>

(* Whatever the page lists by now. *)
ReceiveMore ==
    /\ more.pc = "answered"
    /\ page' = [page EXCEPT !.shown = @ \o more.answer.entries, !.next = more.answer.next,
                            !.loadingMore = FALSE,
                            !.mixed = @ \/ more.of # page.opened]
    /\ more' = NoRequest
    /\ UNCHANGED <<list, now, row, first, due, events>>

(* A list that cannot be loaded leaves the page what it showed before. *)
FirstFails ==
    /\ first # NoRequest
    /\ \/ Refused(first.query) /\ UNCHANGED events
       \/ Event
    /\ page' = [page EXCEPT !.loading = FALSE, !.error = TRUE, !.mixed = page.shown # <<>>]
    /\ first' = NoRequest
    /\ UNCHANGED <<list, now, row, more, due>>

\* Mutation: the button is not given back.
StaysBusy ==
    /\ more # NoRequest /\ Event
    /\ more' = NoRequest
    /\ UNCHANGED <<list, now, row, page, first, due>>

MoreFails ==
    /\ more # NoRequest /\ Event
    /\ page' = [page EXCEPT !.loadingMore = FALSE, !.error = TRUE]
    /\ more' = NoRequest
    /\ UNCHANGED <<list, now, row, first, due>>

Arrives == AnswerFirst \/ AnswerMore \/ ReceiveFirst \/ ReceiveMore \/ FirstFails \/ MoreFails

Reads == (\E query \in Query : Open(query)) \/ LoadMore

Next == Others \/ Reads \/ Arrives

(* Some request is answered, some answer arrives or some reader asks for the next page, as
   long as any can. *)
Spec == Init /\ [][Next]_vars /\ WF_vars(Arrives \/ LoadMore)

----------------------------------------------------------------------------
(* Properties *)

ShownIds == {page.shown[n].id : n \in DOMAIN page.shown}

(* A list is in its order and has every row once, however many rows arrive, settle or
   move between two pages: "rows are shown twice or skipped entirely" is what paging by
   cursor is there to exclude (auditQuery.js:55-64). Where a page of another list was
   appended, or an old list was left, nothing is claimed (see `mixed`). *)
InOrderOnce ==
    ~page.mixed =>
      \A m, n \in DOMAIN page.shown : m < n => Precedes(page.shown[m], page.shown[n])

(* A list that was read to its end has every row that was to be listed when it was
   opened, and ever since (auditQuery.js:62-64, QueuePage.jsx:25-27). *)
NothingSkipped ==
    /\ ~page.mixed /\ ~page.loading /\ page.next = NoCursor
    /\ page.error => page.shown # <<>>
    => due \subseteq ShownIds

(* What is listed is what was asked for, by every parameter that was given: a filter
   that is ignored is a misleading answer (auditQuery.js:25-28), and the label of an
   attempt is the kind it was filtered by (mongoAuditRepo.js:102-103). *)
AskedIsListed ==
    ~page.mixed /\ ~page.loading =>
      \A n \in DOMAIN page.shown :
        LET entry == page.shown[n]
        IN  IF list = "queue" THEN TicketMatches(page.query, [status |-> entry.label])
            ELSE LET raw == page.query
                 IN  /\ DOMAIN raw \subseteq AllowedParams
                     /\ Gives(raw, "kind") => entry.label \in raw.kind
                     /\ Gives(raw, "preset") => entry.label \in StoppedKinds
                     /\ Gives(raw, "customerId") => entry.customer = raw.customerId
                     /\ Gives(raw, "from") => entry.at >= raw.from
                     /\ Gives(raw, "to") => entry.at <= raw.to

(* A reader who goes on gets to the end of a list or is told that it failed. *)
ListEnds == page.loading ~> ~page.loading /\ (page.error \/ page.next = NoCursor)
=============================================================================
