---------------------------- MODULE MCTicketDesk ----------------------------
(* Values for TLC. *)
EXTENDS TicketDesk, TLC

MCSymmetry == Permutations(Agent) \union Permutations(Escalator) \union Permutations(Ticket)
============================================================================
