--------------------------- MODULE TicketHistory ---------------------------
(* What the ticket desk promises, with no requests, snapshots or retries: one
   history per ticket, made of the moves an agent may make, and one ticket at a
   time for a conversation. *)
CONSTANTS Ticket, Conversation

VARIABLES
    status,     \* [Ticket -> where it is, "none" before it is opened]
    owner,      \* [Ticket -> the conversation it belongs to]
    current     \* [Conversation -> the ticket its record points at]

vars == <<status, owner, current>>

Moves ==
    {<<"open", "assigned">>, <<"assigned", "waiting">>, <<"assigned", "resolved">>,
     <<"waiting", "assigned">>, <<"waiting", "resolved">>, <<"resolved", "assigned">>,
     <<"resolved", "closed">>}

Init ==
    /\ status = [t \in Ticket |-> "none"]
    /\ owner = [t \in Ticket |-> "none"]
    /\ current = [c \in Conversation |-> "none"]

(* A conversation's next ticket is opened once every earlier one is closed. *)
Open(t, c) ==
    /\ status[t] = "none"
    /\ \A u \in Ticket : owner[u] = c => status[u] = "closed"
    /\ status' = [status EXCEPT ![t] = "open"]
    /\ owner' = [owner EXCEPT ![t] = c]
    /\ current' = [current EXCEPT ![c] = t]

Move(t, to) ==
    /\ <<status[t], to>> \in Moves
    /\ status' = [status EXCEPT ![t] = to]
    /\ UNCHANGED <<owner, current>>

Next ==
    \/ \E t \in Ticket, c \in Conversation : Open(t, c)
    \/ \E t \in Ticket, to \in {m[2] : m \in Moves} : Move(t, to)

Spec == Init /\ [][Next]_vars
============================================================================
