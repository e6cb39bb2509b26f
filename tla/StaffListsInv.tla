---------------------------- MODULE StaffListsInv ----------------------------
(* The inductive invariant of StaffLists: what the two requests of the reader carry
   relates what the page shows to what is still to be listed. *)
EXTENDS StaffLists

----------------------------------------------------------------------------
(* Types *)

Attempt ==
    [at : Nat, customer : Customer, validity : {"resolved", "malformed"},
     outcome : {"none", "refused_at_execution", "executed"}]

QueuedTicket == [at : Nat, status : TicketStatus]

RowOf(which) == IF which = "audit" THEN Attempt ELSE QueuedTicket

ListEntry ==
    [id : RowId, at : Nat, label : AttemptKinds \union TicketStatus,
     customer : Customer \union {"none"}]

Cursor == {NoCursor} \union [at : Nat, id : RowId]

Question == {<<>>} \union RawQuery \union [status : QueueFilter]

PageAnswer == [entries : Seq(ListEntry), next : Cursor, limit : Nat]

Request ==
    [pc : {"none", "asked", "answered"}, query : Question, before : Cursor,
     answer : PageAnswer, of : Nat]

TypeOK ==
    /\ list \in {"audit", "queue"} /\ now \in Nat /\ events \in Nat
    /\ row \in [RowId -> {NoRow} \union RowOf(list)]
    /\ page \in [query : Question, shown : Seq(ListEntry), next : Cursor, loading : BOOLEAN,
                 loadingMore : BOOLEAN, error : BOOLEAN, mixed : BOOLEAN, opened : Nat]
    /\ first \in Request /\ more \in Request
    /\ due \in SUBSET RowId

----------------------------------------------------------------------------
(* Of a piece of a list *)

InOrder(entries) ==
    \A m, n \in DOMAIN entries : m < n => Precedes(entries[m], entries[n])

(* It ends where the next one starts. *)
EndsAt(entries, next) ==
    next # NoCursor =>
      /\ entries # <<>>
      /\ \A n \in DOMAIN entries :
           \/ entries[n].at = next.at /\ entries[n].id = next.id
           \/ Precedes(entries[n], next)

StartsAfter(entries, before) ==
    before # NoCursor => \A n \in DOMAIN entries : Precedes(before, entries[n])

(* The part of AskedIsListed that is about one entry. *)
AskedFor(query, entry) ==
    IF list = "queue" THEN TicketMatches(query, [status |-> entry.label])
    ELSE /\ DOMAIN query \subseteq AllowedParams
         /\ Gives(query, "kind") => entry.label \in query.kind
         /\ Gives(query, "preset") => entry.label \in StoppedKinds
         /\ Gives(query, "customerId") => entry.customer = query.customerId
         /\ Gives(query, "from") => entry.at >= query.from
         /\ Gives(query, "to") => entry.at <= query.to

IsListed(i, entries) == \E n \in DOMAIN entries : entries[n].id = i

StillToCome(i, next) == next # NoCursor /\ Precedes(next, Key(i))

----------------------------------------------------------------------------
(* The invariant *)

(* The page waits for exactly the requests there are, and for no page of another list
   unless it was opened again since. *)
PageOfRequests ==
    /\ page.loading <=> first # NoRequest
    /\ page.loadingMore <=> more # NoRequest
    /\ first # NoRequest => first.pc # "none" /\ first.query = page.query /\ page.opened > 0
    /\ more # NoRequest =>
         /\ more.pc # "none" /\ more.before # NoCursor
         /\ more.of \in 1..page.opened /\ ~Refused(more.query)
    /\ more # NoRequest /\ more.of = page.opened =>
         /\ ~page.loading /\ page.shown # <<>>
         /\ more.query = page.query /\ more.before = page.next

PageIsOfAList ==
    /\ page.opened = 0 => page.shown = <<>>
    /\ list = "audit" => page.opened <= 1
    /\ page.shown = <<>> => page.next = NoCursor
    /\ page.shown # <<>> => ~Refused(page.query)
    /\ first.pc = "answered" => ~Refused(first.query)

(* What was answered is a piece of the list that was asked for. *)
IsAPieceOf(request, before) ==
    request.pc = "answered" =>
      /\ InOrder(request.answer.entries)
      /\ EndsAt(request.answer.entries, request.answer.next)
      /\ StartsAfter(request.answer.entries, before)
      /\ \A n \in DOMAIN request.answer.entries :
           AskedFor(request.query, request.answer.entries[n])

AnswersArePieces == IsAPieceOf(first, NoCursor) /\ IsAPieceOf(more, more.before)

ShownIsAPiece ==
    ~page.mixed =>
      /\ InOrder(page.shown)
      /\ EndsAt(page.shown, page.next)
      /\ ~page.loading => \A n \in DOMAIN page.shown : AskedFor(page.query, page.shown[n])

DueMatches == \A i \in due : row[i] # NoRow /\ Matches(page.query, i)

(* What is due was shown, is on its way, or comes after the cursor. *)
DueIsListed ==
    /\ first.pc = "answered" =>
         \A i \in due :
           IsListed(i, first.answer.entries) \/ StillToCome(i, first.answer.next)
    /\ ~page.mixed /\ ~page.loading /\ (page.error => page.shown # <<>>) =>
         \A i \in due : IsListed(i, page.shown) \/ StillToCome(i, page.next)
    /\ ~page.mixed /\ more.pc = "answered" /\ more.of = page.opened =>
         \A i \in due :
           \/ IsListed(i, page.shown) \/ IsListed(i, more.answer.entries)
           \/ StillToCome(i, more.answer.next)

IInv ==
    /\ TypeOK
    /\ PageOfRequests
    /\ PageIsOfAList
    /\ AnswersArePieces
    /\ ShownIsAPiece
    /\ DueMatches
    /\ DueIsListed
=============================================================================
