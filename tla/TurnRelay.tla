------------------------------- MODULE TurnRelay -------------------------------
(* The server's side of a turn: POST /conversations/:id/messages
   (server/src/routes/conversations.js), the relay of frames (services/sse.js) and the
   stream of the AI service (services/aiClient.js). One action is one awaited call, or
   one frame, with the code up to the next. A turn that may raise a proposal raises
   the one that bears its number. *)
EXTENDS AdvisoryTurn, SequencesExt

CONSTANTS
    Turn,           \* numbers of the turns, in the order they are asked
    Question,       \* [Turn -> what the customer may ask]
    Rogue,          \* [Turn -> frames that an AI service which is not ours might send]
    OwnOrders,      \* the customer's order numbers
    Ruling,         \* what the rules may say of them
    MaxUnread       \* bound: how many frames wait to be read before more are relayed

VARIABLES
    turn,           \* [Turn -> the locals of its handler]
    conn,           \* [Turn -> the connection the handler answers on]
    wire,           \* [Turn -> frames written and not read yet]
    message,        \* Message rows, in the order they were created
    proposal,       \* [Turn -> the proposal it raised, and how it ended]
    ticket          \* whether the conversation has ever been escalated

serverVars == <<turn, conn, wire, message, proposal, ticket>>

Waiting ==
    [pc |-> "none", upstream |-> <<>>, tokens |-> <<>>, evidence |-> <<>>, done |-> FALSE,
     answer |-> <<>>,   \* history: the tokens relayed before the first done frame
     intercepted |-> 0, raw |-> NoRaw, proposalId |-> 0, cancelled |-> FALSE]

NoProposal == [status |-> "none", raw |-> NoRaw]

ASSUME TurnAssumption == Turn \subseteq Nat \ {0}

IsSequence(s) == s \in Seq(Range(s))

ASSUME QuestionAssumption ==
    \A n \in Turn : \A question \in Question[n] :
        /\ question.asks \in {"cancel", "nothing"}
        /\ IsSequence(question.chunks) /\ IsSequence(question.answer)

ListIsFinite(raw) ==
    raw.shape = "object" => (raw.evidenceShape = "list" => IsFiniteSet(raw.evidence))

(* What a service sends is JSON text: a list in it has an end. Nothing is assumed of the
   order of frames: the body is read to its end, whatever follows a done frame. *)
ASSUME RogueAssumption ==
    \A n \in Turn : \A frames \in Rogue[n] :
        /\ IsSequence(frames)
        /\ \A i \in 1..Len(frames) :
             frames[i].event = "proposal_request" => ListIsFinite(frames[i].raw)

ServerInit ==
    /\ turn = [n \in Turn |-> Waiting]
    /\ conn = [n \in Turn |-> "none"]
    /\ wire = [n \in Turn |-> <<>>]
    /\ message = <<>>
    /\ proposal = [n \in Turn |-> NoProposal]
    /\ ticket = FALSE

Upstreams(n) == {TurnFrames(PlanTurn(question)) : question \in Question[n]} \union Rogue[n]

(* sse.js *)
RelayableFrames == {"token", "evidence", "done"}
InterceptedFrames == {"proposal_request"}

(* What is written to a connection that is gone is lost. *)
Write(n, frames) ==
    wire' = IF conn[n] = "open" THEN [wire EXCEPT ![n] = @ \o frames] ELSE wire

\* A mutation: the response is never closed.
LeaveOpen(n, how) == UNCHANGED conn

HangUp(n, how) ==
    conn' = IF conn[n] = "open" THEN [conn EXCEPT ![n] = how] ELSE conn

----------------------------------------------------------------------------
(* The handler *)

(* The customer's message is saved before anything else. *)
CreateQuestion(n) ==
    /\ turn[n].pc = "createQuestion"
    /\ message' = Append(message, [turn |-> n, role |-> "customer", content |-> <<>>,
                                   evidence |-> <<>>, state |-> "complete", proposalId |-> 0])
    /\ turn' = [turn EXCEPT ![n].pc = "readHistory"]
    /\ UNCHANGED <<conn, wire, proposal, ticket>>

(* The history is read, the disconnect listener is registered, the stream opens and
   the AI service is asked. *)
OpenStream(n) ==
    /\ turn[n].pc = "readHistory"
    /\ \E frames \in Upstreams(n) :
         turn' = [turn EXCEPT ![n].pc = "relay", ![n].upstream = frames]
    /\ UNCHANGED <<conn, wire, message, proposal, ticket>>

(* relayFrames: the next frame is intercepted, dropped or relayed. *)
Intercept(n, frame) ==
    /\ frame.event \in InterceptedFrames
    /\ turn[n].intercepted = 0
    /\ turn' = [turn EXCEPT ![n].pc = "propose", ![n].upstream = Tail(@),
                            ![n].intercepted = 1, ![n].raw = frame.raw]
    /\ UNCHANGED wire

Drop(n, frame) ==
    /\ \/ frame.event \in InterceptedFrames /\ turn[n].intercepted >= 1
       \/ frame.event \notin InterceptedFrames \union RelayableFrames
    /\ turn' = [turn EXCEPT ![n].upstream = Tail(@)]
    /\ UNCHANGED wire

(* Relaying goes on after a done frame, until the body ends. *)
Forward(n, frame) ==
    /\ frame.event \in RelayableFrames
    /\ turn' = [turn EXCEPT
                  ![n].upstream = Tail(@),
                  ![n].done = @ \/ frame.event = "done",
                  ![n].answer = IF frame.event = "token" /\ ~turn[n].done
                                THEN Append(@, frame.text) ELSE @,
                  ![n].tokens = IF frame.event = "token" THEN Append(@, frame.text) ELSE @,
                  ![n].evidence = IF frame.event = "evidence" THEN Append(@, frame.ref) ELSE @]
    /\ Write(n, <<frame>>)

RelayFrame(n) ==
    /\ turn[n].pc = "relay"
    /\ turn[n].upstream # <<>>
    /\ Len(wire[n]) < MaxUnread
    /\ LET frame == Head(turn[n].upstream)
       IN  Intercept(n, frame) \/ Drop(n, frame) \/ Forward(n, frame)
    /\ UNCHANGED <<conn, message, proposal, ticket>>

(* actionService.propose, seen from the turn: the boundary, the scoped lookup, the
   rules, one row with how it ended and a ticket where one is due. *)
StatusAfterPropose(kind) ==
    CASE kind = "confirm"   -> "pending"
      [] kind = "refused"   -> "refused_at_proposal"
      [] kind = "escalated" -> "escalated_at_proposal"
      [] kind = "malformed" -> "malformed"

Propose(n) ==
    /\ turn[n].pc = "propose"
    /\ \E ruling \in Ruling :
         LET raw == turn[n].raw
             kind == ResultKind(Problems(raw, OwnOrders), ruling)
             number == IF kind = "malformed" THEN "none" ELSE raw.target.number
         IN  /\ proposal' = [proposal EXCEPT ![n] = [status |-> StatusAfterPropose(kind), raw |-> raw]]
             /\ ticket' = (ticket \/ Escalates(kind, ruling))
             /\ Write(n, FramesForProposalResult(kind, n, number, Escalates(kind, ruling)))
    /\ turn' = [turn EXCEPT ![n].pc = "relay", ![n].proposalId = n]
    /\ UNCHANGED <<conn, message>>

\* A mutation: the row of a cancelled turn is not linked to its proposal.
ReplyWithoutProposal(n) ==
    [turn |-> n, role |-> "assistant", content |-> turn[n].tokens,
     evidence |-> turn[n].evidence,
     proposalId |-> IF turn[n].cancelled THEN 0 ELSE turn[n].proposalId,
     state |-> IF turn[n].cancelled THEN "cancelled" ELSE "complete"]

Reply(n) ==
    [turn |-> n, role |-> "assistant", content |-> turn[n].tokens,
     evidence |-> turn[n].evidence, proposalId |-> turn[n].proposalId,
     state |-> IF turn[n].cancelled THEN "cancelled" ELSE "complete"]

CreateReply(n) ==
    /\ turn[n].pc = "relay" /\ turn[n].upstream = <<>>
    /\ message' = Append(message, Reply(n))
    /\ turn' = [turn EXCEPT ![n].pc = "end"]
    /\ UNCHANGED <<conn, wire, proposal, ticket>>

EndResponse(n) ==
    /\ turn[n].pc = "end"
    /\ turn' = [turn EXCEPT ![n].pc = "ended"]
    /\ HangUp(n, "ended")
    /\ UNCHANGED <<wire, message, proposal, ticket>>

(* The listener: it may learn of a closed connection as long as the response has not
   ended, and never of one that closed before the stream opened. What the AI service
   had sent so far is still read. *)
NoticeDisconnect(n) ==
    /\ turn[n].pc \in {"relay", "propose", "end"}
    /\ conn[n] \in {"aborted", "cut"}
    /\ ~turn[n].cancelled
    /\ \E read \in 0..Len(turn[n].upstream) :
         turn' = [turn EXCEPT ![n].cancelled = TRUE, ![n].upstream = SubSeq(@, 1, read)]
    /\ UNCHANGED <<conn, wire, message, proposal, ticket>>

(* Failures. Before the stream opens the answer is a status code, during the relay an
   error frame; when the reply cannot be saved, the response has begun and the
   connection is closed. *)
Refuse(n) ==
    /\ turn[n].pc \in {"createQuestion", "readHistory"}
    /\ HangUp(n, "refused")
    /\ UNCHANGED <<wire, proposal>>

FailRelay(n) ==
    /\ turn[n].pc \in {"relay", "propose"}
    /\ Write(n, <<[event |-> "error"]>>)
    /\ HangUp(n, "ended")
    /\ proposal' \in {proposal} \union
         (IF turn[n].pc = "propose"
          THEN {[proposal EXCEPT ![n] = [status |-> "unruled", raw |-> turn[n].raw]]} ELSE {})

FailToSave(n) ==
    /\ turn[n].pc = "relay" /\ turn[n].upstream = <<>>
    /\ HangUp(n, "cut")
    /\ UNCHANGED <<wire, proposal>>

TurnFails(n) ==
    /\ Refuse(n) \/ FailRelay(n) \/ FailToSave(n)
    /\ turn' = [turn EXCEPT ![n].pc = "failed", ![n].upstream = <<>>]
    /\ UNCHANGED <<message, ticket>>

HandlerStep(n) ==
    \/ CreateQuestion(n)
    \/ OpenStream(n)
    \/ RelayFrame(n)
    \/ Propose(n)
    \/ CreateReply(n)
    \/ EndResponse(n)
=============================================================================
