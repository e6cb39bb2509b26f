-------------------------- MODULE ConversationDeskInv --------------------------
(* What holds in every state of ConversationDesk, strong enough to hold after every
   step: what the handler of a turn has relayed, what is on its wire and what the page
   shows of it fit together, and so do the rows, the offers and the answers. *)
EXTENDS ConversationDesk

----------------------------------------------------------------------------
(* Types: what may be sent, relayed and shown is what some service may send. *)

Sent == UNION {UNION {Range(frames) : frames \in Upstreams(n)} : n \in Turn}
Sending(event) == {frame \in Sent : frame.event = event}

Word == {frame.text : frame \in Sending("token")}
Ref  == {frame.ref : frame \in Sending("evidence")}
Flag == {frame.shouldEscalate : frame \in Sending("done")} \union {FALSE}
Raw  == {frame.raw : frame \in Sending("proposal_request")} \union {NoRaw}

Relayed ==
    UNION {{frame \in Sent : frame.event \in RelayableFrames},
           {ProposalFrame(n, number) : n \in Turn, number \in OwnOrders},
           {PolicyFrame(kind, escalated) : kind \in {"refused", "malformed"}, escalated \in BOOLEAN},
           {[event |-> "error"]}}

HandlerState ==
    [pc : {"none", "createQuestion", "readHistory", "relay", "propose", "end", "ended", "failed"},
     upstream : Seq(Sent), tokens : Seq(Word), evidence : Seq(Ref), done : BOOLEAN,
     answer : Seq(Word), intercepted : {0, 1}, raw : Raw, proposalId : Turn \union {0}, cancelled : BOOLEAN]

ProposalStatus ==
    {"none", "pending", "refused_at_proposal", "escalated_at_proposal", "malformed", "unruled",
     "executed", "rejected_by_customer", "refused_at_execution", "failed", "expired"}

MessageRow ==
    [turn : Turn, role : {"customer", "assistant"}, content : Seq(Word), evidence : Seq(Ref),
     state : {"complete", "cancelled"}, proposalId : Turn \union {0}]

ReplyState ==
    [text : Seq(Word), state : {"streaming", "complete", "cancelled", "failed"},
     evidence : SUBSET Ref,
     proposal : [id : Turn \union {0}, status : {"none", "pending", "decided"},
                 number : OwnOrders \union {"none"}],
     policy : [kind : {"none", "refused", "malformed", "stale", "fault"}, escalated : BOOLEAN],
     outcome : {"none", "executed", "rejected_by_customer"}, offerEscalation : Flag]

ProposalState == [status : ProposalStatus, raw : Raw]

ScreenState ==
    [replies : Seq(ReplyState), streaming : BOOLEAN,
     escalation : {"none", "requesting", "escalated", "failed"}]

PageState ==
    [conversation : {"none", "starting", "open"}, current : Turn \union {0},
     open : Turn \union {0}, busy : Turn \union {0}]

RequestState ==
    [pc : {"none", "sent", "answered", "done"}, id : Turn \union {0},
     verb : {"none", "confirm", "reject"}, kind : {"none", "ok", "stale", "fault"},
     escalated : BOOLEAN]

ServerTypeOK ==
    /\ turn \in [Turn -> HandlerState]
    /\ conn \in [Turn -> {"none", "open", "aborted", "cut", "refused", "ended"}]
    /\ wire \in [Turn -> Seq(Relayed)]
    /\ message \in Seq(MessageRow)
    /\ proposal \in [Turn -> ProposalState]
    /\ ticket \in BOOLEAN

ClientTypeOK ==
    /\ screen \in ScreenState
    /\ page \in PageState
    /\ request \in [Request -> RequestState]
    /\ escalation \in {"none", "ok", "failed"}
    /\ conflicts \subseteq Turn /\ stops \subseteq Turn /\ early \subseteq Turn

TypeOK == ServerTypeOK /\ ClientTypeOK

----------------------------------------------------------------------------
(* The turns *)

(* The turns that were begun have the replies, and only the last of them may stream. *)
OneStreams(s) ==
    /\ s.streaming => s.replies # <<>> /\ s.replies[Len(s.replies)].state = "streaming"
    /\ \A i \in DOMAIN s.replies :
         s.replies[i].state = "streaming" => i = Len(s.replies) /\ s.streaming

TurnsInOrder ==
    /\ OneStreams(screen)
    /\ DOMAIN screen.replies \subseteq Turn
    /\ \A n \in Turn : turn[n].pc # "none" <=> n \in DOMAIN screen.replies
    /\ page.current \in {0, Len(screen.replies)}
    /\ screen.streaming => page.current = Len(screen.replies)
    /\ page.conversation # "open" => screen.replies = <<>>

DoneWaits(frames) == \E i \in DOMAIN frames : frames[i].event = "done"

Fresh == {"none", "createQuestion", "readHistory"}

Agree(text, tokens) ==
    Len(text) <= Len(tokens) /\ \A i \in 1..Len(text) : text[i] = tokens[i]

(* Nothing is relayed before the stream opens, and nothing is left to relay once it has
   closed. The answer is what was relayed up to the first done frame, all of it if there
   was none. A turn raises one proposal at most. *)
HandlerAgrees(n) ==
    LET t == turn[n]
    IN  /\ t.pc \in Fresh =>
             /\ t.upstream = <<>> /\ t.tokens = <<>> /\ t.evidence = <<>>
             /\ t.answer = <<>> /\ ~t.done
             /\ t.intercepted = 0 /\ t.proposalId = 0 /\ wire[n] = <<>>
        /\ t.pc \notin {"relay", "propose"} => t.upstream = <<>>
        /\ Agree(t.answer, t.tokens)
        /\ ~t.done => t.answer = t.tokens
        /\ DoneWaits(wire[n]) => t.done
        /\ conn[n] = "ended" => t.pc \in {"ended", "failed"}
        /\ t.pc = "propose" => t.intercepted = 1 /\ t.proposalId = 0
        /\ t.proposalId # 0 => t.intercepted = 1 /\ t.proposalId = n

WithinBoundary(n, number) ==
    /\ ShapeProblems(proposal[n].raw) = {}
    /\ number = proposal[n].raw.target.number /\ number \in OwnOrders

(* A frame that waits to be read tells what the handler did. *)
FrameAgrees(n, frame) ==
    /\ frame.event = "evidence" => frame.ref \in Range(turn[n].evidence)
    /\ frame.event = "proposal" =>
         frame.id = n /\ turn[n].proposalId = n /\ WithinBoundary(n, frame.number)
    /\ frame.event = "policy" => (frame.escalated => ticket)

WireAgrees(n) == \A i \in DOMAIN wire[n] : FrameAgrees(n, wire[n][i])

----------------------------------------------------------------------------
(* What is shown *)

(* The frames carry on from the text: at[i] is how much of the answer is shown once i
   more of them are read, and all of it with the done frame, or in the end if the
   connection lost none. What waits behind a done frame adds nothing. *)
Carries(frames, answer, whole, text, at) ==
    /\ at[0] = Len(text)
    /\ whole /\ ~DoneWaits(frames) => at[Len(frames)] = Len(answer)
    /\ \A i \in 1..Len(frames) :
         (\A j \in 1..(i - 1) : frames[j].event # "done") =>
           /\ frames[i].event = "token" => at[i] = at[i - 1] + 1 /\ frames[i].text = answer[at[i]]
           /\ frames[i].event # "token" => at[i] = at[i - 1]
           /\ frames[i].event = "done" => at[i] = Len(answer)

CarriesOn(frames, answer, whole, text) ==
    \E at \in [0..Len(frames) -> 0..Len(answer)] : Carries(frames, answer, whole, text, at)

Whole(n) == conn[n] \in {"open", "ended"}

TextAgrees(n) ==
    LET reply == screen.replies[n]
        t == turn[n]
    IN  /\ Agree(reply.text, t.answer)
        /\ reply.evidence \subseteq Range(t.evidence)
        /\ reply.state = "streaming" =>
             /\ CarriesOn(wire[n], t.answer, Whole(n), reply.text)
             /\ Whole(n) /\ t.done => DoneWaits(wire[n])
        /\ reply.state = "complete" =>
             /\ Len(reply.text) = Len(t.answer)
             /\ (t.done \/ t.upstream = <<>>) /\ t.pc \notin Fresh

(* The row of an answer is made once, from what was relayed, after its question's. *)
IsAnswer(n, i) == message[i].turn = n /\ message[i].role = "assistant"
IsQuestion(n, i) == message[i].turn = n /\ message[i].role = "customer"

RecordAgrees(n) ==
    LET t == turn[n]
    IN  /\ t.pc \in {"readHistory", "relay", "propose"} => \E j \in DOMAIN message : IsQuestion(n, j)
        /\ t.pc \notin {"end", "ended"} => \A i \in DOMAIN message : ~IsAnswer(n, i)
        /\ t.pc \in {"end", "ended"} =>
             \E i \in DOMAIN message :
               /\ \A j \in DOMAIN message : IsAnswer(n, j) <=> j = i
               /\ \E j \in 1..(i - 1) : IsQuestion(n, j)
               /\ message[i].content = t.tokens /\ message[i].evidence = t.evidence
               /\ message[i].proposalId = t.proposalId

----------------------------------------------------------------------------
(* What is decided *)

Settled(id) == proposal[id].status # "pending" \/ id \in conflicts

OfferAgrees(n) ==
    LET reply == screen.replies[n]
        offer == reply.proposal
    IN  /\ offer.id = 0 => offer = NoOffer /\ reply.outcome = "none"
        /\ offer.id # 0 =>
             /\ offer.id = n /\ turn[n].proposalId = n /\ WithinBoundary(n, offer.number)
        /\ reply.outcome = "executed" => proposal[n].status = "executed"
        /\ reply.outcome = "rejected_by_customer" => proposal[n].status = "rejected_by_customer"
        /\ offer.status = "decided" => Settled(n)

RequestAgrees(r) ==
    LET q == request[r]
    IN  /\ q.pc # "none" =>
             /\ q.id \in Turn /\ turn[q.id].proposalId = q.id
             /\ q.verb \in {"confirm", "reject"}
        /\ q.pc = "answered" =>
             /\ q.kind \in {"ok", "stale", "fault"}
             /\ q.kind = "ok" => proposal[q.id].status = Target(q.verb)
             /\ q.kind = "stale" => Settled(q.id)
             /\ q.kind = "fault" /\ q.escalated => Settled(q.id)
             /\ q.escalated => ticket

TicketAgrees ==
    /\ screen.escalation = "escalated" => ticket
    /\ escalation = "ok" => ticket
    /\ \A n \in DOMAIN screen.replies : screen.replies[n].policy.escalated => ticket

----------------------------------------------------------------------------

TurnAgrees(n) == HandlerAgrees(n) /\ WireAgrees(n) /\ RecordAgrees(n)
ReplyAgrees(n) == TextAgrees(n) /\ OfferAgrees(n)

IInv ==
    /\ TypeOK
    /\ TurnsInOrder
    /\ \A n \in Turn : TurnAgrees(n)
    /\ \A n \in DOMAIN screen.replies : ReplyAgrees(n)
    /\ \A r \in Request : RequestAgrees(r)
    /\ TicketAgrees
    /\ StoppedByCustomer
=============================================================================
