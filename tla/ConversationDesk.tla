--------------------------- MODULE ConversationDesk ---------------------------
(* A customer in a conversation: the page and its stream (ConversationPage.jsx,
   useEventStream.js) with the server's side of the turns, and the routes that decide
   proposals and escalate, seen from the customer. *)
EXTENDS TurnRelay, Screen

CONSTANTS
    Request,        \* numbers of the decisions the customer may send, in that order
    MaxEvents       \* bound: how often the customer stops, dismisses or asks for a
                    \* person, a turn, a connection or a call fails, a proposal expires

VARIABLES
    screen,         \* the reducer's state
    page,           \* [conversation, current stream, open dialog, busy proposal]
    request,        \* [Request -> a decision, from the click to its answer]
    escalation,     \* the request to escalate: none, sent, answered well or badly
    conflicts,      \* proposals that were answered stale and left pending
    stops,          \* turns during which Stop was pressed
    early,          \* history: turns asked when the reply before had ended, before its
                    \* stream had
    events          \* how much of MaxEvents was used

clientVars == <<screen, page>>
vars == <<serverVars, clientVars, request, escalation, conflicts, stops, early, events>>

NoRequest == [pc |-> "none", id |-> 0, verb |-> "none", kind |-> "none", escalated |-> FALSE]

ASSUME ConversationBounds ==
    Request \subseteq Nat /\ MaxEvents \in Nat

Init ==
    /\ ServerInit
    /\ screen = InitialConversation
    /\ page = [conversation |-> "none", current |-> 0, open |-> 0, busy |-> 0]
    /\ request = [r \in Request |-> NoRequest]
    /\ escalation = "none"
    /\ conflicts = {} /\ stops = {} /\ early = {}
    /\ events = 0

Event == events < MaxEvents /\ events' = events + 1

(* The dialog shows the open proposal while the reducer holds it as pending. *)
OpenProposal == IF PendingProposal(screen, page.open) # 0 THEN page.open ELSE 0

DialogShown == OpenProposal # 0

----------------------------------------------------------------------------
(* Sending *)

NextTurn == Len(screen.replies) + 1

(* start aborts a stream that has not been read to its end; its handlers then report
   it cancelled, to the conversation as it is by now. *)
AbortCurrent(s) == IF page.current # 0 THEN OnCancelled(s) ELSE s

Aborted == [n \in Turn |-> IF n = page.current /\ conn[n] = "open" THEN "aborted" ELSE conn[n]]

Discarded == [n \in Turn |-> IF n = page.current THEN <<>> ELSE wire[n]]

StartTurn(n) ==
    /\ n \in Turn
    /\ turn' = [turn EXCEPT ![n].pc = "createQuestion"]
    /\ conn' = [Aborted EXCEPT ![n] = "open"]
    /\ wire' = Discarded
    /\ screen' = AbortCurrent(OnSend(screen))
    /\ page' = [page EXCEPT !.conversation = "open", !.current = n]
    /\ early' = IF page.current # 0 /\ screen.replies[page.current].state # "streaming"
                THEN early \union {n} ELSE early

Send ==
    /\ ~DialogShown
    /\ CanSubmit(screen, page.conversation = "starting")
    /\ page.conversation = "open"
    /\ StartTurn(NextTurn)
    /\ UNCHANGED <<message, proposal, ticket, request, escalation, conflicts, stops, events>>

(* The first message creates the conversation. *)
StartConversation ==
    /\ page.conversation = "none"
    /\ page' = [page EXCEPT !.conversation = "starting"]
    /\ UNCHANGED <<serverVars, screen, request, escalation, conflicts, stops, early, events>>

ConversationCreated ==
    /\ page.conversation = "starting"
    /\ StartTurn(NextTurn)
    /\ UNCHANGED <<message, proposal, ticket, request, escalation, conflicts, stops, events>>

ConversationNotCreated ==
    /\ page.conversation = "starting"
    /\ Event
    /\ page' = [page EXCEPT !.conversation = "none"]
    /\ UNCHANGED <<serverVars, screen, request, escalation, conflicts, stops, early>>

----------------------------------------------------------------------------
(* The stream as the browser reads it *)

ReadFrame(n) ==
    /\ page.current = n
    /\ conn[n] \in {"open", "ended", "cut"}
    /\ wire[n] # <<>>
    /\ LET frame == Head(wire[n])
       IN  /\ screen' = OnFrame(screen, frame)
           /\ page' = IF frame.event = "proposal" /\ page.open = 0
                      THEN [page EXCEPT !.open = frame.id] ELSE page
    /\ wire' = [wire EXCEPT ![n] = Tail(@)]
    /\ UNCHANGED <<turn, conn, message, proposal, ticket, request, escalation, conflicts, stops, early, events>>

ReadEnd(n) ==
    /\ page.current = n
    /\ \/ conn[n] = "ended" /\ wire[n] = <<>> /\ screen' = OnDone(screen, FALSE)
       \/ conn[n] \in {"cut", "refused"} /\ screen' = OnFailed(screen)
    /\ wire' = Discarded
    /\ page' = [page EXCEPT !.current = 0]
    /\ UNCHANGED <<turn, conn, message, proposal, ticket, request, escalation, conflicts, stops, early, events>>

Stop ==
    /\ Event
    /\ ~DialogShown
    /\ CanStop(screen)
    /\ page.current # 0
    /\ conn' = Aborted
    /\ wire' = Discarded
    /\ screen' = OnCancelled(screen)
    /\ page' = [page EXCEPT !.current = 0]
    /\ stops' = stops \union {page.current}
    /\ UNCHANGED <<turn, message, proposal, ticket, request, escalation, conflicts, early>>

(* The network, or a proxy, closes the connection. *)
ConnectionBreaks(n) ==
    /\ conn[n] = "open"
    /\ Event
    /\ conn' = [conn EXCEPT ![n] = "cut"]
    /\ UNCHANGED <<turn, wire, message, proposal, ticket, clientVars, request, escalation, conflicts, stops, early>>

----------------------------------------------------------------------------
(* Deciding a proposal *)

Review(n) ==
    /\ ~DialogShown
    /\ PendingProposal(screen, n) # 0
    /\ page' = [page EXCEPT !.open = n]
    /\ UNCHANGED <<serverVars, screen, request, escalation, conflicts, stops, early, events>>

(* Escape and the backdrop decide nothing, and may be used while a decision is under
   way. *)
Dismiss ==
    /\ Event
    /\ DialogShown
    /\ page' = [page EXCEPT !.open = 0]
    /\ UNCHANGED <<serverVars, screen, request, escalation, conflicts, stops, early>>

Decide(r, verb) ==
    /\ DialogShown
    /\ page.busy # OpenProposal
    /\ request[r].pc = "none" /\ \A q \in Request : q < r => request[q].pc # "none"
    /\ request' = [request EXCEPT ![r] = [NoRequest EXCEPT !.pc = "sent", !.id = OpenProposal,
                                                          !.verb = verb]]
    /\ page' = [page EXCEPT !.busy = OpenProposal]
    /\ UNCHANGED <<serverVars, screen, escalation, conflicts, stops, early, events>>

Target(verb) == IF verb = "confirm" THEN "executed" ELSE "rejected_by_customer"

(* What confirm and reject do to the proposal and answer (ActionDesk has them call by
   call): a retry of what was done succeeds again, anything else about a settled
   proposal is stale, and so is an order that changed, or has gone, although the
   proposal stays pending. *)
Settle(r, status, kind, escalated) ==
    /\ proposal' = [proposal EXCEPT ![request[r].id].status = status]
    /\ ticket' = (ticket \/ escalated)
    /\ request' = [request EXCEPT ![r].pc = "answered", ![r].kind = kind, ![r].escalated = escalated]

DecideOnServer(r) ==
    LET status == proposal[request[r].id].status
        target == Target(request[r].verb)
    IN  /\ request[r].pc = "sent"
        /\ \/ status \in {"pending", target} /\ Settle(r, target, "ok", FALSE) /\ UNCHANGED conflicts
           \/ status \notin {"pending", target} /\ Settle(r, status, "stale", FALSE) /\ UNCHANGED conflicts
           \/ /\ status = "pending" /\ request[r].verb = "confirm"
              /\ \/ \E ruling \in Ruling \ {"confirm-required"} :
                      LET kind == ResultKind({}, ruling)
                      IN  Settle(r, "refused_at_execution", "stale", Escalates(kind, ruling))
                    /\ UNCHANGED conflicts
                 \/ Settle(r, "failed", "fault", TRUE) /\ UNCHANGED conflicts
                 \/ /\ Settle(r, "pending", "stale", FALSE)
                    /\ conflicts' = conflicts \union {request[r].id}
        /\ UNCHANGED <<turn, conn, wire, message, clientVars, escalation, stops, early, events>>

(* The call fails, before it did anything or after. *)
DecisionFails(r) ==
    /\ request[r].pc = "sent"
    /\ Event
    /\ \/ Settle(r, proposal[request[r].id].status, "fault", FALSE)
       \/ proposal[request[r].id].status = "pending" /\ Settle(r, Target(request[r].verb), "fault", FALSE)
    /\ UNCHANGED <<turn, conn, wire, message, clientVars, escalation, conflicts, stops, early>>

(* Whatever was open or busy meanwhile, nothing is now. *)
Answered(r) ==
    LET q == request[r]
    IN  /\ q.pc = "answered"
        /\ screen' = IF q.kind = "ok" THEN OnProposalDecided(screen, q.id, Target(q.verb))
                      ELSE OnProposalRefused(screen, q.id, q.kind, q.escalated)
        /\ page' = [page EXCEPT !.open = 0, !.busy = 0]
        /\ request' = [request EXCEPT ![r].pc = "done"]
        /\ UNCHANGED <<serverVars, escalation, conflicts, stops, early, events>>

(* The sweep: nobody decided in time. *)
Expire(n) ==
    /\ Event
    /\ proposal[n].status = "pending"
    /\ proposal' = [proposal EXCEPT ![n].status = "expired"]
    /\ UNCHANGED <<turn, conn, wire, message, ticket, clientVars, request, escalation, conflicts, stops, early>>

----------------------------------------------------------------------------
(* Asking for a person *)

(* The route opens a ticket, or adds to the one there is. It is answered for when the
   request is made: nobody else asks whether there is a ticket meanwhile. *)
EscalateOnServer ==
    \/ ticket' = TRUE /\ escalation' = "ok"
    \/ ticket' \in {ticket, TRUE} /\ escalation' = "failed"

AskForPerson ==
    /\ Event
    /\ ~DialogShown
    /\ page.conversation = "open"
    /\ OffersEscalation(screen)
    /\ screen' = OnEscalationRequested(screen)
    /\ EscalateOnServer
    /\ UNCHANGED <<turn, conn, wire, message, proposal, page, request, conflicts, stops, early>>

EscalationAnswered ==
    /\ escalation \in {"ok", "failed"}
    /\ screen' = IF escalation = "ok" THEN OnEscalationSucceeded(screen) ELSE OnEscalationFailed(screen)
    /\ escalation' = "none"
    /\ UNCHANGED <<serverVars, page, request, conflicts, stops, early, events>>

----------------------------------------------------------------------------

ClientRest == <<clientVars, request, escalation, conflicts, stops, early>>

TurnStep(n) ==
    \/ HandlerStep(n) /\ UNCHANGED <<ClientRest, events>>
    \/ NoticeDisconnect(n) /\ UNCHANGED <<ClientRest, events>>
    \/ TurnFails(n) /\ Event /\ UNCHANGED ClientRest

Next ==
    \/ \E n \in Turn : \/ TurnStep(n) \/ ReadFrame(n) \/ ReadEnd(n) \/ ConnectionBreaks(n)
                        \/ Review(n) \/ Expire(n)
    \/ Send \/ StartConversation \/ ConversationCreated \/ ConversationNotCreated \/ Stop
    \/ Dismiss \/ \E r \in Request : \/ DecideOnServer(r) \/ DecisionFails(r) \/ Answered(r)
                                      \/ \E verb \in {"confirm", "reject"} : Decide(r, verb)
    \/ AskForPerson \/ EscalationAnswered

(* The event loops of server and browser run what is ready, the AI service sends what
   it has or fails; nobody has to send, stop, decide or ask for anything. *)
Fairness ==
    \A n \in Turn :
        /\ WF_vars(HandlerStep(n) /\ UNCHANGED <<ClientRest, events>>)
        /\ WF_vars(ReadFrame(n)) /\ WF_vars(ReadEnd(n))

Spec == Init /\ [][Next]_vars /\ Fairness
----------------------------------------------------------------------------
(* Properties *)

(* A reply shows what its own turn relayed and nothing else, in order, and one that is
   shown as complete shows all of the answer: every token up to the turn's first done
   frame, or to its end if no done frame was relayed. A broken connection is not taken
   for the end. Tokens that a service sends after done are relayed and recorded, but
   belong to no reply (useEventStream.js:95-157, sse.js:95-152,
   conversationReducer.js:56-73). *)
ShownIsRelayed ==
    \A n \in DOMAIN screen.replies :
      LET reply == screen.replies[n]
      IN  /\ IsPrefix(reply.text, turn[n].tokens)
          /\ reply.evidence \subseteq Range(turn[n].evidence)
          /\ reply.proposal.id \in {0, n}
          /\ reply.state = "complete" => reply.text = turn[n].answer

(* Once a reply has ended, whatever the way, no late frame, answer or end of a stream
   changes its words, its sources or how it ended (conversationReducer.js:56-73). *)
EndedReplyStays ==
    [][\A n \in DOMAIN screen.replies :
         LET reply == screen.replies[n]
             later == screen'.replies[n]
         IN  reply.state # "streaming" =>
               /\ later.text = reply.text /\ later.evidence = reply.evidence
               /\ later.state = reply.state]_screen

AnswerRow(n) == {i \in DOMAIN message : message[i].turn = n /\ message[i].role = "assistant"}

(* An answer on record is no shorter than on the screen: a turn whose handler did not
   fail has one answer row, after its question, and the row holds every word, source
   and proposal the customer was shown, whether or not the connection lasted. A turn
   that fails leaves no answer row (conversations.js:202-231). *)
RecordHoldsWhatWasShown ==
    \A n \in DOMAIN screen.replies :
      LET reply == screen.replies[n]
      IN  /\ turn[n].pc \in {"end", "ended"} => Cardinality(AnswerRow(n)) = 1
          /\ \A i \in AnswerRow(n) :
               /\ \E j \in 1..(i - 1) : message[j].turn = n /\ message[j].role = "customer"
               /\ IsPrefix(reply.text, message[i].content)
               /\ reply.evidence \subseteq Range(message[i].evidence)
               /\ reply.proposal.id \in {0, message[i].proposalId}

(* The page claims nothing the server has not decided: an order is shown as cancelled
   or kept only after the server settled it so, and a colleague is promised only when
   there is a ticket (ConversationPage.jsx:105-128, 218; conversationReducer.js:176-280). *)
ServerDecides ==
    /\ \A n \in DOMAIN screen.replies :
         LET reply == screen.replies[n]
         IN  /\ SaysCancelled(reply) => proposal[reply.proposal.id].status = "executed"
             /\ SaysKept(reply) => proposal[reply.proposal.id].status = "rejected_by_customer"
    /\ SaysColleagueComing(screen) => ticket

(* Whatever the AI service sends, the customer is offered only the cancellation of one
   concrete order of the customer's own, the dialog names the order the row is about,
   and the row asserts no decision and has nothing that a proposal may not have
   (proposal.js:111-258, sse.js:103-132). *)
OfferedWithinBoundary ==
    \A n \in DOMAIN screen.replies :
      LET offer == screen.replies[n].proposal
      IN  offer.id # 0 =>
            LET raw == proposal[offer.id].raw
            IN  /\ offer.number = raw.target.number
                /\ raw.target.number \in OwnOrders \ Placeholder
                /\ raw.actionType = "order.cancel" /\ raw.target.kind = "order"
                /\ raw.fields \subseteq TopLevel /\ raw.fields \intersect AuthorisationFields = {}
                /\ raw.target.fields \subseteq {"kind", "orderNumber"}
                /\ raw.evidenceShape = "list" =>
                     /\ Cardinality(raw.evidence) <= MaxEvidence
                     /\ \A item \in raw.evidence : item.fields \subseteq {"kind", "ref"}

(* A proposal the page holds for settled is settled on the server, or was answered
   stale because its order changed: those rows stay pending although the page offers
   no way to decide them any more (conversationReducer.js:241-265,
   actionService.js:300, 377-382). *)
SettledUnlessOrderChanged ==
    \A n \in DOMAIN screen.replies :
      LET offer == screen.replies[n].proposal
      IN  offer.status = "decided" => proposal[offer.id].status # "pending" \/ offer.id \in conflicts

(* Every reply ends: the composer comes back whatever fails, if the AI service sends
   its next frame or fails (ConversationPage.jsx:259-267, conversations.js:202-233). *)
EveryReplyEnds ==
    \A n \in Turn :
      turn[n].pc # "none" ~> n \in DOMAIN screen.replies /\ screen.replies[n].state # "streaming"

(* A reply ends as stopped only where the customer stopped it
   (docs/phases/phase-04-ui-ux.md:75, "cancelled (user stopped it)"), never because its
   connection broke or its request was refused. The exception is a message sent when the
   reply before it had ended but its stream had not: sending it aborts that stream, and
   what the abort reports names no reply (useEventStream.js:96,
   conversationReducer.js:64-72, 218-221). *)
StoppedByCustomer ==
    \A n \in DOMAIN screen.replies :
      SaysStopped(screen.replies[n]) => n \in stops \/ n \in early
=============================================================================
