---------------------------- MODULE ExpirySweep ----------------------------
(* The job that expires proposals nobody decided: server/src/policy/
   expirySweep.js over mongoSweepRepo.js. It lists a batch, then works through
   that list one proposal at a time while requests go on. Scheduled runs may
   overlap, so each sweeper is a process. *)
EXTENDS ActionRepo

CONSTANTS
    Sweeper,    \* scheduled runs that may be under way together
    BatchLimit  \* batchPerTenant

ASSUME BatchLimitAssumption == BatchLimit \in Nat \ {0}

VARIABLES
    sweep,      \* [Sweeper -> the run's local state]
    aged        \* proposals recorded longer than the TTL ago

sweepVars == <<sweep, aged>>

Sweeping(pc, todo, current) == [pc |-> pc, todo |-> todo, current |-> current]

IdleSweep == Sweeping("idle", {}, "none")

SweepTypeOK ==
    /\ sweep \in [Sweeper -> [pc : {"idle", "findDecision", "recordOutcome"},
                              todo : SUBSET Proposal,
                              current : ProposalRef]]
    /\ aged \in SUBSET Proposal

SweepInit ==
    /\ sweep = [s \in Sweeper |-> IdleSweep]
    /\ aged = {}

\* Mutations: a proposal somebody began to confirm no longer counts as pending;
\* the sweep expires what was never offered.
PendingUnlessTried(p) == proposal[p].validity = "resolved" /\ ~KeyHeld(p) /\ rechecks[p] = {}
OfferedWhateverRecorded(p) == TRUE

----------------------------------------------------------------------------

Older(p, q) == proposal[p].createdAt < proposal[q].createdAt

(* Resolved and without an outcome row: the pipeline's $match and $lookup. *)
Pending(p) == proposal[p].validity = "resolved" /\ ~KeyHeld(p)

(* Its $sort and $limit: oldest first, limited after the decided ones are
   filtered out. *)
OldestFirst(eligible) ==
    {p \in eligible : Cardinality({q \in eligible : Older(q, p)}) < BatchLimit}

(* Only a proposal that was offered can expire. *)
WasOffered(p) == decision[p] = "confirm-required"

FindPendingProposals(s) ==
    /\ sweep[s].pc = "idle"
    /\ sweep' = [sweep EXCEPT ![s] =
         Sweeping("findDecision", OldestFirst({p \in aged : Pending(p)}), "none")]
    /\ UNCHANGED <<dbVars, aged>>

(* The next proposal of the list, in its order: skipped if never offered. *)
FindProposalDecision(s) ==
    /\ sweep[s].pc = "findDecision"
    /\ \E p \in sweep[s].todo :
         /\ \A q \in sweep[s].todo : ~Older(q, p)
         /\ \/ /\ WasOffered(p)
               /\ sweep' = [sweep EXCEPT ![s] =
                    Sweeping("recordOutcome", sweep[s].todo \ {p}, p)]
            \/ /\ ~WasOffered(p)
               /\ sweep' = [sweep EXCEPT ![s] =
                    Sweeping("findDecision", sweep[s].todo \ {p}, "none")]
    /\ UNCHANGED <<dbVars, aged>>

(* recordOutcome without an escalation: the row that holds the key stands. *)
RecordExpiry(s) ==
    LET p == sweep[s].current
    IN  /\ sweep[s].pc = "recordOutcome"
        /\ \/ KeyHeld(p) /\ UNCHANGED outcome
           \/ ~KeyHeld(p) /\ InsertOutcome(p, "expired", decision[p])
        /\ sweep' = [sweep EXCEPT ![s] = Sweeping("findDecision", sweep[s].todo, "none")]
        /\ UNCHANGED <<order, proposal, decision, rechecks, escalations, activeTicket,
                       rules, aged>>

SweepEnds(s) ==
    /\ sweep[s].pc = "findDecision"
    /\ sweep[s].todo = {}
    /\ sweep' = [sweep EXCEPT ![s] = IdleSweep]
    /\ UNCHANGED <<dbVars, aged>>

SweepStep(s) ==
    \/ FindPendingProposals(s)
    \/ FindProposalDecision(s)
    \/ RecordExpiry(s)
    \/ SweepEnds(s)

(* A call throws or the job is killed: the rest of the list is abandoned, and
   the next scheduled run lists again. *)
SweepStops(s) ==
    /\ sweep[s].pc # "idle"
    /\ sweep' = [sweep EXCEPT ![s] = IdleSweep]
    /\ UNCHANGED <<dbVars, aged>>

(* The TTL passes for the oldest proposals first. *)
Age(p) ==
    /\ proposal[p] # NoProposal
    /\ p \notin aged
    /\ \A q \in Proposal : proposal[q] # NoProposal /\ Older(q, p) => q \in aged
    /\ aged' = aged \union {p}
    /\ UNCHANGED <<dbVars, sweep>>
============================================================================
