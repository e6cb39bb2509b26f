----------------------------- MODULE AdvisoryTurn -----------------------------
(* One turn of the AI service: what it plans and the frames it streams
   (ai-service/app/service.py, main.py). A question is known by what the service
   makes of it: the action it asks for and the order it names (intent.py), the chunks
   retrieval finds, whether one is close enough, and the model's answer. *)
EXTENDS ProposalBoundary

Evidence(ref) == [event |-> "evidence", ref |-> ref]
Token(text) == [event |-> "token", text |-> text]
ProposalRequest(raw) == [event |-> "proposal_request", raw |-> raw]
Done(shouldEscalate) == [event |-> "done", shouldEscalate |-> shouldEscalate]

(* Static texts: on these turns the model is not called. *)
AskForOrderNumber == <<"which order?">>
CheckingOrder == <<"checking">>
Refusal == <<"cannot say">>

AllOf(chunks) == {chunks[i] : i \in DOMAIN chunks}

(* plan_turn: what is to be done is decided before a token is generated. *)
PlanTurn(question) ==
    CASE question.asks = "cancel" /\ question.number = "none" ->
           [action |-> "ask_order_number", text |-> AskForOrderNumber,
            shouldEscalate |-> FALSE, citations |-> question.chunks, proposal |-> NoRaw]
      [] question.asks = "cancel" /\ question.number # "none" ->
           [action |-> "propose", text |-> CheckingOrder, shouldEscalate |-> FALSE,
            citations |-> question.chunks,
            proposal |-> BuildProposal(question.number,
                            IF question.grounded THEN AllOf(question.chunks) ELSE {})]
      [] question.asks = "nothing" ->
           [action |-> "none", shouldEscalate |-> ~question.grounded,
            text |-> IF question.grounded THEN question.answer ELSE Refusal,
            citations |-> question.chunks, proposal |-> NoRaw]

(* The frames of a turn, in the order they are sent; citations are shown with an
   answer only. *)
TurnFrames(plan) ==
    (IF plan.action = "none"
     THEN [i \in DOMAIN plan.citations |-> Evidence(plan.citations[i])] ELSE <<>>)
    \o [i \in DOMAIN plan.text |-> Token(plan.text[i])]
    \o (IF plan.action = "propose" THEN <<ProposalRequest(plan.proposal)>> ELSE <<>>)
    \o <<Done(plan.shouldEscalate)>>
=============================================================================
