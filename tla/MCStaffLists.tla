----------------------------- MODULE MCStaffLists -----------------------------
(* Values for TLC: what leads ask, one of which the audit refuses. *)
EXTENDS StaffLists

MCRawQuery ==
    {[preset |-> "stopped", limit |-> 2],
     [kind |-> {"pending", "executed"}, customerId |-> "u1", from |-> 1, to |-> 1],
     [kinds |-> {"executed"}]}
=============================================================================
