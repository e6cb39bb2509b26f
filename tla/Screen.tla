-------------------------------- MODULE Screen --------------------------------
(* The conversation on the customer's screen: the reducer
   (client/src/lib/conversationReducer.js) as operators from one state to the next,
   and what the page shows of a state (client/src/routes/ConversationPage.jsx). *)
EXTENDS Naturals, Sequences

NoPolicy == [kind |-> "none", escalated |-> FALSE]
NoOffer == [id |-> 0, status |-> "none", number |-> "none"]

InitialConversation == [replies |-> <<>>, streaming |-> FALSE, escalation |-> "none"]

NewReply ==
    [text |-> <<>>, state |-> "streaming", evidence |-> {}, proposal |-> NoOffer,
     policy |-> NoPolicy, outcome |-> "none", offerEscalation |-> FALSE]

PolicyKinds == {"malformed", "refused", "stale"}
DecidedOutcomes == {"executed", "rejected_by_customer"}

LastOf(indices) == IF indices = {} THEN 0 ELSE CHOOSE i \in indices : \A j \in indices : j <= i

\* A mutation: frames go to the last reply, whether it is streaming or not.
LastReply(s) == Len(s.replies)

StreamingReply(s) == LastOf({i \in DOMAIN s.replies : s.replies[i].state = "streaming"})

PendingProposal(s, id) ==
    LastOf({i \in DOMAIN s.replies :
              s.replies[i].proposal.id = id /\ s.replies[i].proposal.status = "pending"})

(* A frame with no reply to belong to is ignored. *)
WithReply(s, i, reply) == IF i = 0 THEN s ELSE [s EXCEPT !.replies[i] = reply]

EndStreaming(s) == [s EXCEPT !.streaming = FALSE]
Escalated(s) == [s EXCEPT !.escalation = "escalated"]

----------------------------------------------------------------------------
(* The stream *)

OnSend(s) ==
    IF s.streaming THEN s
    ELSE [s EXCEPT !.streaming = TRUE, !.replies = Append(@, NewReply)]

OnToken(s, text) ==
    LET i == StreamingReply(s)
    IN  WithReply(s, i, [s.replies[i] EXCEPT !.text = Append(@, text)])

OnEvidence(s, ref) ==
    LET i == StreamingReply(s)
    IN  WithReply(s, i, [s.replies[i] EXCEPT !.evidence = @ \union {ref}])

(* One proposal for a reply: a second is not shown. *)
OnProposal(s, frame) ==
    LET i == StreamingReply(s)
        offer == [id |-> frame.id, status |-> "pending", number |-> frame.number]
    IN  WithReply(s, i, [s.replies[i] EXCEPT !.proposal = IF @ = NoOffer THEN offer ELSE @])

OnPolicy(s, frame) ==
    LET i == StreamingReply(s)
        notice == [kind |-> frame.kind, escalated |-> frame.escalated]
        next == WithReply(s, i, [s.replies[i] EXCEPT !.policy = notice])
    IN  IF frame.kind \notin PolicyKinds THEN s
        ELSE IF i # 0 /\ frame.escalated THEN Escalated(next) ELSE next

OnDone(s, shouldEscalate) ==
    LET i == StreamingReply(s)
    IN  EndStreaming(WithReply(s, i,
          [s.replies[i] EXCEPT !.state = "complete", !.offerEscalation = shouldEscalate]))

\* A mutation: a connection that breaks is taken for the end of the reply.
TakenForDone(s) == OnDone(s, FALSE)

OnCancelled(s) ==
    LET i == StreamingReply(s)
    IN  EndStreaming(WithReply(s, i, [s.replies[i] EXCEPT !.state = "cancelled"]))

\* A mutation: it is taken for an abort.
TakenForAbort(s) == OnCancelled(s)

(* error and failed *)
OnFailed(s) ==
    LET i == StreamingReply(s)
    IN  EndStreaming(WithReply(s, i, [s.replies[i] EXCEPT !.state = "failed"]))

OnFrame(s, frame) ==
    CASE frame.event = "token"    -> OnToken(s, frame.text)
      [] frame.event = "evidence" -> OnEvidence(s, frame.ref)
      [] frame.event = "proposal" -> OnProposal(s, frame)
      [] frame.event = "policy"   -> OnPolicy(s, frame)
      [] frame.event = "error"    -> OnFailed(s)
      [] frame.event = "done"     -> OnDone(s, frame.shouldEscalate)

----------------------------------------------------------------------------
(* The answers to what the customer asks for *)

OnProposalDecided(s, id, outcome) ==
    LET i == PendingProposal(s, id)
        reply == s.replies[i]
    IN  IF outcome \notin DecidedOutcomes THEN s
        ELSE WithReply(s, i,
               [reply EXCEPT !.proposal.status = "decided", !.outcome = outcome,
                             !.policy = IF @.kind = "fault" THEN NoPolicy ELSE @])

\* A mutation: a fault settles the proposal too.
SettledByAnything(s, id, kind, escalated) ==
    LET i == PendingProposal(s, id)
    IN  WithReply(s, i, [s.replies[i] EXCEPT !.proposal.status = "decided",
                            !.policy = [kind |-> kind, escalated |-> escalated]])

(* A policy kind settles the proposal, a fault only if a colleague was brought in. *)
OnProposalRefused(s, id, kind, escalated) ==
    LET i == PendingProposal(s, id)
        next == WithReply(s, i,
                  [s.replies[i] EXCEPT
                     !.proposal.status =
                        IF kind = "fault" /\ ~escalated THEN "pending" ELSE "decided",
                     !.policy = [kind |-> kind, escalated |-> escalated]])
    IN  IF i # 0 /\ escalated THEN Escalated(next) ELSE next

\* A mutation: a ticket is claimed before the route has answered.
ClaimedAtOnce(s) == Escalated(s)

OnEscalationRequested(s) ==
    IF s.escalation \in {"requesting", "escalated"} THEN s
    ELSE [s EXCEPT !.escalation = "requesting"]

OnEscalationSucceeded(s) == Escalated(s)

OnEscalationFailed(s) ==
    IF s.escalation # "requesting" THEN s ELSE [s EXCEPT !.escalation = "failed"]

----------------------------------------------------------------------------
(* What the page says *)

SaysCancelled(reply) == reply.proposal.id # 0 /\ reply.outcome = "executed"

SaysKept(reply) == reply.proposal.id # 0 /\ reply.outcome = "rejected_by_customer"

SaysStopped(reply) == reply.state = "cancelled"

(* A notice, or the line under the heading, promises a colleague. *)
PromisesColleague(s, reply) ==
    /\ reply.policy.kind # "none"
    /\ reply.policy.escalated \/ (reply.policy.kind \in PolicyKinds /\ s.escalation = "escalated")

SaysColleagueComing(s) ==
    s.escalation = "escalated" \/ \E i \in DOMAIN s.replies : PromisesColleague(s, s.replies[i])

OffersEscalation(s) == s.escalation \notin {"escalated", "requesting"}

CanSubmit(s, starting) == ~s.streaming /\ ~starting

CanStop(s) == s.streaming
=============================================================================
