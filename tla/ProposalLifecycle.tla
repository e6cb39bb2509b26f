------------------------- MODULE ProposalLifecycle -------------------------
(* What the action path promises, with no requests, transactions or races: a
   proposal moves along a fixed set of legal moves, at most one of them being
   its execution, and an order is cancelled by exactly the step that executes
   a proposal which was offered to the customer. *)
CONSTANTS Proposal, Order, Asked

VARIABLES
    phase,      \* [Proposal -> where it is in its life]
    cancelled   \* the orders this system has cancelled

vars == <<phase, cancelled>>

(* "refused_at_proposal" and "escalated_at_proposal" settle a proposal nobody
   was asked about; every other outcome needs the question to have been put. *)
LegalMoves ==
    {<<"absent", "malformed">>, <<"absent", "recorded">>} \union
    ({"recorded"} \X {"offered", "barred"}) \union
    ({"barred"} \X {"refused_at_proposal", "escalated_at_proposal"}) \union
    ({"offered"} \X {"rejected_by_customer", "refused_at_execution", "failed", "expired"})

Init ==
    /\ phase = [p \in Proposal |-> IF p \in Asked THEN "offered" ELSE "absent"]
    /\ cancelled = {}

Move(p, to) ==
    /\ <<phase[p], to>> \in LegalMoves
    /\ phase' = [phase EXCEPT ![p] = to]
    /\ UNCHANGED cancelled

Execute(p, o) ==
    /\ phase[p] = "offered"
    /\ o \notin cancelled
    /\ phase' = [phase EXCEPT ![p] = "executed"]
    /\ cancelled' = cancelled \union {o}

Phases == {m[2] : m \in LegalMoves}

Next ==
    \/ \E p \in Proposal, to \in Phases : Move(p, to)
    \/ \E p \in Proposal, o \in Order : Execute(p, o)

Spec == Init /\ [][Next]_vars
============================================================================
