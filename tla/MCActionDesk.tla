---------------------------- MODULE MCActionDesk ----------------------------
(* Values for TLC. Two statuses stand for the five of an order that is not
   cancelled: one the baseline lets the customer cancel from, one it leaves to
   an agent. A cancelled order is the one it refuses with a reason. *)
EXTENDS ActionDeskInv, TLC

MCShipping == {"paid", "dispatched"}

MCMoves == {<<"paid", "dispatched">>}

Says(paid, dispatched) ==
    [s \in MCShipping \union {"cancelled"} |->
        CASE s = "paid" -> paid
          [] s = "dispatched" -> dispatched
          [] s = "cancelled" -> "refuse-explained"]

(* The baseline, and a tenant's rule on top of it that leaves every cancellation
   to an agent. *)
MCRuleSets == {Says("confirm-required", "agent-only"), Says("agent-only", "agent-only")}

(* All three kinds of answer the baseline gives about an order on its way. *)
MCShippingWay == MCShipping \union {"delivered"}

MCMovesWay == MCMoves \union {<<"dispatched", "delivered">>}

MCBaselineWay ==
    {[s \in MCShippingWay \union {"cancelled"} |->
        CASE s = "paid" -> "confirm-required"
          [] s = "dispatched" -> "agent-only"
          [] s \in {"delivered", "cancelled"} -> "refuse-explained"]}

(* The baseline alone: the order's own progress is what changes a ruling. *)
MCBaseline == {Says("confirm-required", "agent-only")}

MCSymmetry == Permutations(Request) \union Permutations(Proposal) \union Permutations(Order)
============================================================================
