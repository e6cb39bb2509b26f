-------------------------- MODULE MCConversationDesk --------------------------
(* Values for TLC: a question the help centre answers, one it does not, a request to
   cancel, and a service that is not ours. *)
EXTENDS ConversationDesk

Asks(what, number, grounded) ==
    [asks |-> what, number |-> number, grounded |-> grounded, chunks |-> <<"c1">>,
     answer |-> <<"yes">>]

MCQuestion ==
    1 :> {Asks("cancel", "1043", FALSE)} @@
    2 :> {Asks("nothing", "none", TRUE), Asks("cancel", "1043", FALSE)}

Good == BuildProposal("1043", {})

Asserting == [Good EXCEPT !.fields = @ \union {"confirmed"}]

\* It does not stop at done.
GoingOn == <<Token("c1"), Done(TRUE), Token("c2"), ProposalRequest(Good)>>

MCRogue ==
    1 :> {GoingOn} @@
    2 :> {<<ProposalFrame(1, "9999"), ProposalRequest(Asserting), ProposalRequest(Good)>>}
=============================================================================
