------------------------- MODULE ActionDesk_proofs -------------------------
(* Theorems about the action path, for any number of requests, proposals,
   orders, sweepers and failures, any rules and any way shipping moves orders. *)
EXTENDS ActionDeskInv, ActionService_proofs, FiniteSetTheorems

----------------------------------------------------------------------------
(* Type correctness, given what the invariant says of the rows a handler works with. *)

(* The initial state *)

LEMMA RepoInitType == RepoInit => RepoTypeOK
  <1> SUFFICES ASSUME RepoInit PROVE RepoTypeOK
    OBVIOUS
  <1>1. order \in [Order -> Snapshot]
    BY DEF RepoInit, Snapshot, Status
  <1>2. proposal \in [Proposal -> [validity : {"absent", "malformed", "resolved"},
                                   order : OrderRef, createdAt : Nat]]
    <2>1. PICK target \in [Asked -> Order], at \in [Asked -> 1..Cardinality(Asked)] :
            proposal = [p \in Proposal |->
              IF p \in Asked
              THEN [validity |-> "resolved", order |-> target[p], createdAt |-> at[p]]
              ELSE NoProposal]
      BY DEF RepoInit
    <2>2. \A p \in Asked : target[p] \in OrderRef /\ at[p] \in Nat
      BY DEF OrderRef
    <2>3. QED
      BY <2>1, <2>2 DEF NoProposal, OrderRef
  <1>3. QED
    BY <1>1, <1>2 DEF RepoInit, RepoTypeOK, RulingRef, Ruling, OutcomeRow, NoRow

LEMMA InitType == Init => TypeOK
  <1> SUFFICES ASSUME Init PROVE TypeOK
    OBVIOUS
  <1>1. RepoTypeOK
    BY RepoInitType DEF Init
  <1>2. ServiceTypeOK
    BY NewRequestType, MaxFaultsAssumption DEF Init, ServiceInit, ServiceTypeOK
  <1>3. SweepTypeOK
    BY DEF Init, SweepInit, SweepTypeOK, IdleSweep, Sweeping, ProposalRef
  <1>4. QED
    BY <1>1, <1>2, <1>3 DEF TypeOK

----------------------------------------------------------------------------
(* The requests, with a step per action *)

LEMMA AnswerTypes ==
  ASSUME NEW q \in RequestState
  PROVE  ProposeReply(q) \in ReplyType /\ ConfirmReply(q) \in ReplyType
         /\ RejectReply(q) \in ReplyType
  BY DEF ProposeReply, ConfirmReply, RejectReply, Reply, ReplyType, ReplyKind, RequestState

LEMMA RequestFields ==
  ASSUME NEW q \in RequestState
  PROVE  /\ q.op \in OpType /\ q.prop \in ProposalRef /\ q.order \in OrderRef
         /\ q.snap \in Snapshot /\ q.ruling \in RulingRef /\ q.want \in WantType
         /\ q.result \in OutcomeRow /\ q.reply \in ReplyType
  BY DEF RequestState

(* What the invariant says of a handler at work, by what it is there to do. *)
LEMMA Serving ==
  ASSUME TypeOK, NEW r \in Request, RequestAgrees(r), req[r].pc \in Running
  PROVE  /\ req[r] \in RequestState /\ req[r].prop \in Proposal /\ req[r].reply = NoReply
         /\ \/ req[r].op = "propose" /\ ProposeAgrees(r)
            \/ req[r].op \in {"confirm", "reject"} /\ AnswerAgrees(r)
  <1>1. req[r] \in RequestState
    BY DEF TypeOK, ServiceTypeOK
  <1>2. req[r].op \in OpType
    BY <1>1, RequestFields
  <1>3. QED
    BY <1>1, <1>2 DEF RequestAgrees, OpType

LEMMA Confirming ==
  ASSUME TypeOK, NEW r \in Request, RequestAgrees(r), \A p \in Proposal : RowsAgree(p),
         req[r].pc \in {"findOrderById", "executeCancellation", "findWinner"}
  PROVE  /\ req[r].op = "confirm" /\ AnswerAgrees(r)
         /\ decision[req[r].prop] = "confirm-required"
         /\ proposal[req[r].prop].validity = "resolved"
         /\ req[r].order = proposal[req[r].prop].order /\ req[r].order \in Order
  <1>1. req[r].pc \in Running
    BY DEF Running
  <1>2. req[r].prop \in Proposal /\ req[r].op # "propose" /\ AnswerAgrees(r)
    BY <1>1, Serving DEF ProposeAgrees, Writing
  <1>3. /\ req[r].op = "confirm" /\ decision[req[r].prop] = "confirm-required"
        /\ req[r].order = proposal[req[r].prop].order
    BY <1>2 DEF AnswerAgrees
  <1>4. QED
    BY <1>2, <1>3 DEF RowsAgree

LEMMA Executing ==
  ASSUME TypeOK, NEW r \in Request, RequestAgrees(r), \A p \in Proposal : RowsAgree(p),
         req[r].pc \in {"executeCancellation", "findWinner"}
  PROVE  /\ req[r].want = "executed" /\ req[r].ruling = "confirm-required"
         /\ req[r].snap.status # "cancelled"
         /\ [status |-> req[r].snap.status, ruling |-> "confirm-required"]
               \in rechecks[req[r].prop]
  BY Confirming DEF AnswerAgrees

LEMMA WritingOutcome ==
  ASSUME TypeOK, NEW r \in Request, RequestAgrees(r), req[r].pc \in Writing
  PROVE  \/ req[r].op = "propose" /\ req[r].want = "malformed"
         \/ req[r].want \in OutcomeKind \ {"executed"} /\ req[r].ruling \in Ruling
  <1>1. req[r].pc \in Running
    BY DEF Running, Writing
  <1>2. CASE req[r].op = "propose" /\ ProposeAgrees(r)
    BY <1>2 DEF ProposeAgrees, RefusalKind, OutcomeKind
  <1>3. CASE req[r].op \in {"confirm", "reject"} /\ AnswerAgrees(r)
    <2>1. req[r].ruling \in RulingRef
      BY <1>1, Serving, RequestFields
    <2>2. QED
      BY <1>3, <2>1 DEF AnswerAgrees, OutcomeKind, RulingRef
  <1>4. QED
    BY <1>1, <1>2, <1>3, Serving

LEMMA RequestType ==
  ASSUME TypeOK, \A p \in Proposal : RowsAgree(p),
         NEW r \in Request, RequestAgrees(r), RequestNext(r), UNCHANGED sweepVars
  PROVE  TypeOK'
  <1> DEFINE Typed == req' \in [Request -> RequestState]
  <1>1. req \in [Request -> RequestState] /\ req[r] \in RequestState
    BY DEF TypeOK, ServiceTypeOK
  <1>2. SweepTypeOK'
    BY DEF TypeOK, SweepTypeOK, sweepVars
  <1>3. SUFFICES RepoTypeOK' /\ ServiceTypeOK'
    BY <1>2 DEF TypeOK
  <1>4. ASSUME UNCHANGED dbVars PROVE RepoTypeOK'
    BY <1>4 DEF TypeOK, RepoTypeOK, dbVars
  <1>5. ASSUME Typed, UNCHANGED faults PROVE ServiceTypeOK'
    BY <1>5 DEF TypeOK, ServiceTypeOK
  <1>6. ASSUME NEW p \in Proposal, StartPropose(r, p) PROVE RepoTypeOK' /\ ServiceTypeOK'
    <2>1. Typed
      BY <1>1, <1>6, MalformedStep, ProposesStep DEF StartPropose
    <2>2. QED
      BY <1>4, <1>5, <1>6, <2>1 DEF StartPropose
  <1>7. ASSUME NEW p \in Proposal, NEW op \in {"confirm", "reject"}, StartAnswer(r, p, op)
        PROVE  RepoTypeOK' /\ ServiceTypeOK'
    <2>1. op \in OpType /\ p \in ProposalRef
      BY DEF OpType, ProposalRef
    <2>2. Typed
      BY <1>1, <1>7, <2>1, PcValues, BeginsStep DEF StartAnswer
    <2>3. QED
      BY <1>4, <1>5, <1>7, <2>2 DEF StartAnswer
  <1>8. CASE FindCustomerOrder(r)
    <2>1. ASSUME req[r].order \in Order PROVE order[req[r].order] \in Snapshot
      BY <2>1 DEF TypeOK, RepoTypeOK
    <2>2. Typed
      BY <1>1, <1>8, <2>1, PcValues, WantValues, SeesStep, WantsStep DEF FindCustomerOrder
    <2>3. QED
      BY <1>4, <1>5, <1>8, <2>2 DEF FindCustomerOrder
  <1>9. CASE RecordProposal(r)
    <2>1. Typed
      BY <1>1, <1>9, PcValues, GotoStep DEF RecordProposal
    <2>2. Cardinality({q \in Proposal : proposal[q] # NoProposal}) + 1 \in Nat
      BY IdsAssumption, FS_Subset, FS_CardinalityType
    <2>3. RepoTypeOK'
      BY <1>1, <1>9, <2>2, RequestFields
      DEF RecordProposal, InsertProposal, TypeOK, RepoTypeOK
    <2>4. QED
      BY <1>5, <1>9, <2>1, <2>3 DEF RecordProposal
  <1>10. CASE LoadPending(r)
    <2> DEFINE p == req[r].prop
    <2>1. p \in Proposal
      BY <1>10, Serving DEF LoadPending, Running
    <2>2. proposal[p].order \in OrderRef /\ decision[p] \in RulingRef
      BY <2>1 DEF TypeOK, RepoTypeOK
    <2>3. \/ \E kind \in ReplyKind : Finish(r, Reply(kind, FALSE))
          \/ Become(r, Targets(req[r], proposal[p].order, "findOrderById"))
          \/ Become(r, Settles(req[r], "rejected_by_customer", decision[p], "insertOutcome"))
      BY <1>10 DEF LoadPending, ReplyKind
    <2>4. Typed
      BY <1>1, <2>2, <2>3, ReplyValues, PcValues, WantValues, FinishStep, TargetsStep,
         SettlesStep
    <2>5. QED
      BY <1>4, <1>5, <1>10, <2>4 DEF LoadPending
  <1>11. CASE FindOrderById(r)
    <2>1. order[req[r].order] \in Snapshot
      BY <1>11, Confirming DEF FindOrderById, TypeOK, RepoTypeOK
    <2>2. Typed
      BY <1>1, <1>11, <2>1, PcValues, SeesStep DEF FindOrderById
    <2>3. QED
      BY <1>4, <1>5, <1>11, <2>2 DEF FindOrderById
  <1>12. CASE LoadRules(r)
    <2>1. req[r].snap.status \in Status
      BY <1>1, RequestFields DEF Snapshot
    <2>2. rules[req[r].snap.status] \in RulingRef
      BY <2>1, RuleSetsAssumption DEF TypeOK, RepoTypeOK, RulingRef
    <2>3. Typed
      BY <1>1, <1>12, <2>2, PcValues, RuledStep DEF LoadRules
    <2>4. QED
      BY <1>4, <1>5, <1>12, <2>3 DEF LoadRules
  <1>13. CASE RecordDecision(r)
    <2>1. Typed
      BY <1>1, <1>13, PcValues, GotoStep DEF RecordDecision
    <2>2. req[r].ruling \in Ruling /\ req[r].snap \in Snapshot
      BY <1>1, <1>13, RequestFields
      DEF RecordDecision, RequestAgrees, ProposeAgrees, AnswerAgrees, RulingRef
    <2>3. [status |-> req[r].snap.status, ruling |-> req[r].ruling]
            \in [status : Status, ruling : Ruling]
      BY <2>2 DEF Snapshot
    <2>4. RepoTypeOK'
      BY <1>13, <2>2, <2>3 DEF RecordDecision, TypeOK, RepoTypeOK, RulingRef
    <2>5. QED
      BY <1>5, <1>13, <2>1, <2>4 DEF RecordDecision
  <1>14. CASE ActOnDecision(r)
    <2> DEFINE kind == RefusalKind(req[r].op, req[r].ruling)
    <2>1. /\ kind \in WantType /\ req[r].ruling \in RulingRef
          /\ WriterFor(req[r].ruling, kind) \in PcType
      BY <1>1, RequestFields, WantValues, PcValues DEF RefusalKind, WriterFor
    <2>2. \/ Finish(r, Reply("confirm", FALSE))
          \/ Become(r, Wants(req[r], "executed", "executeCancellation"))
          \/ Become(r, Settles(req[r], kind, req[r].ruling, WriterFor(req[r].ruling, kind)))
      BY <1>14 DEF ActOnDecision
    <2> HIDE DEF kind
    <2>3. Typed
      BY <1>1, <2>1, <2>2, WantValues, PcValues, ReplyValues, FinishStep, WantsStep,
         SettlesStep DEF ReplyKind
    <2>4. QED
      BY <1>4, <1>5, <1>14, <2>3 DEF ActOnDecision
  <1>15. ASSUME req[r].pc \in Running PROVE outcome[req[r].prop] \in OutcomeRow
    BY <1>15, Serving DEF TypeOK, RepoTypeOK
  <1>16. ASSUME NEW want \in OutcomeKind, NEW ruling \in Ruling
         PROVE  [outcome |-> want, ruling |-> ruling] \in OutcomeRow
    BY DEF OutcomeRow, RulingRef
  <1>17. CASE ExecuteCancellation(r)
    <2> DEFINE row == [outcome |-> "executed", ruling |-> req[r].ruling]
    <2>1. req[r].ruling = "confirm-required" /\ req[r].order \in Order
      BY <1>17, Executing, Confirming DEF ExecuteCancellation
    <2>2. row \in OutcomeRow
      BY <1>16, <2>1 DEF OutcomeKind, Ruling
    <2>3. \/ Recorded(r, outcome[req[r].prop], TRUE)
          \/ Recorded(r, row, FALSE)
          \/ Goto(r, "findWinner")
      BY <1>17 DEF ExecuteCancellation
    <2>4. Typed
      BY <1>1, <1>15, <1>17, <2>2, <2>3, PcValues, GotoStep, RecordedStep
      DEF ExecuteCancellation, Running
    <2> DEFINE cancelled == [status |-> "cancelled", version |-> order[req[r].order].version + 1]
    <2>5. cancelled \in Snapshot
      BY <2>1 DEF TypeOK, RepoTypeOK, Snapshot, Status
    <2>6. order' \in [Order -> Snapshot]
      BY <1>17, <2>5 DEF ExecuteCancellation, CancelOrder, TypeOK, RepoTypeOK
    <2>7. outcome' \in [Proposal -> OutcomeRow]
      BY <1>17, <2>2 DEF ExecuteCancellation, InsertOutcome, TypeOK, RepoTypeOK
    <2>8. RepoTypeOK'
      BY <1>17, <2>6, <2>7 DEF ExecuteCancellation, TypeOK, RepoTypeOK
    <2>9. QED
      BY <1>5, <1>17, <2>4, <2>8 DEF ExecuteCancellation
  <1>18. CASE FindWinner(r)
    <2>1. Typed
      BY <1>1, <1>15, <1>18, ReplyValues, FinishStep, RecordedStep
      DEF FindWinner, Running, ReplyKind
    <2>2. QED
      BY <1>4, <1>5, <1>18, <2>1 DEF FindWinner
  <1>19. CASE InsertOutcomeAlone(r)
    <2> DEFINE row == [outcome |-> req[r].want, ruling |-> req[r].ruling]
    <2>1. req[r].want # "malformed"
      BY <1>19 DEF InsertOutcomeAlone, RequestAgrees, WriterFits
    <2>2. row \in OutcomeRow
      BY <1>16, <1>19, <2>1, WritingOutcome DEF InsertOutcomeAlone, Writing
    <2>3. Typed
      BY <1>1, <1>15, <1>19, <2>2, RecordedStep DEF InsertOutcomeAlone, Running
    <2>4. RepoTypeOK'
      BY <1>19, <2>2 DEF InsertOutcomeAlone, InsertOutcome, TypeOK, RepoTypeOK
    <2>5. QED
      BY <1>5, <1>19, <2>3, <2>4 DEF InsertOutcomeAlone
  <1>20. CASE BeginWrite(r)
    <2>1. Typed
      BY <1>1, <1>20, PcValues, GotoStep DEF BeginWrite
    <2>2. QED
      BY <1>4, <1>5, <1>20, <2>1 DEF BeginWrite
  <1>21. CASE CommitWrite(r)
    <2> DEFINE row == [outcome |-> req[r].want, ruling |-> req[r].ruling]
    <2>1. req[r].want # "malformed" => row \in OutcomeRow
      BY <1>16, <1>21, WritingOutcome DEF CommitWrite, Writing
    <2>2. NoRow \in OutcomeRow
      BY DEF NoRow, OutcomeRow, RulingRef
    <2>3. Typed
      BY <1>1, <1>21, <2>1, <2>2, RecordedStep DEF CommitWrite
    <2> DEFINE n == Cardinality({q \in Proposal : proposal[q] # NoProposal}) + 1
               malformed == [validity |-> "malformed", order |-> NoOrder, createdAt |-> n]
    <2>4. n \in Nat
      BY IdsAssumption, FS_Subset, FS_CardinalityType
    <2>5. \/ proposal' = proposal
          \/ proposal' = [proposal EXCEPT ![req[r].prop] = malformed]
      BY <1>21 DEF CommitWrite, InsertProposal
    <2> HIDE DEF n
    <2>6. malformed \in [validity : {"absent", "malformed", "resolved"}, order : OrderRef,
                         createdAt : Nat]
      BY <2>4 DEF OrderRef
    <2> HIDE DEF malformed
    <2>7. proposal' \in [Proposal -> [validity : {"absent", "malformed", "resolved"},
                                    order : OrderRef, createdAt : Nat]]
      BY <2>5, <2>6 DEF TypeOK, RepoTypeOK
    <2>8. outcome' \in [Proposal -> OutcomeRow]
      BY <1>21, <2>1 DEF CommitWrite, InsertOutcome, TypeOK, RepoTypeOK
    <2>9. req[r].prop \in Proposal
      BY <1>21, Serving DEF CommitWrite, Running
    <2>10. escalations' \in [Proposal -> Nat] /\ activeTicket' \in BOOLEAN
      BY <1>21, <2>9 DEF CommitWrite, ApplyEscalation, TypeOK, RepoTypeOK
    <2>11. RepoTypeOK'
      BY <1>21, <2>7, <2>8, <2>10 DEF CommitWrite, TypeOK, RepoTypeOK
    <2>12. QED
      BY <1>5, <1>21, <2>3, <2>11 DEF CommitWrite
  <1>22. CASE RerunWrite(r)
    <2>1. Typed
      BY <1>1, <1>22, PcValues, GotoStep DEF RerunWrite
    <2>2. QED
      BY <1>4, <1>5, <1>22, <2>1 DEF RerunWrite
  <1>23. CASE LoseWrite(r)
    <2>1. Typed
      BY <1>1, <1>23, PcValues, ReplyValues, FinishStep, RetriesStep DEF LoseWrite, ReplyKind
    <2>2. QED
      BY <1>4, <1>5, <1>23, <2>1 DEF LoseWrite
  <1>24. CASE FindExisting(r)
    <2>1. Typed
      BY <1>1, <1>15, <1>24, PcValues, GotoStep, RecordedStep DEF FindExisting, Running
    <2>2. QED
      BY <1>4, <1>5, <1>24, <2>1 DEF FindExisting
  <1>25. CASE Respond(r)
    <2>1. Typed
      BY <1>1, <1>25, AnswerTypes, FinishStep DEF Respond
    <2>2. QED
      BY <1>4, <1>5, <1>25, <2>1 DEF Respond
  <1>26. CASE CallFails(r)
    <2>1. Typed
      BY <1>1, <1>26, RequestFields, PcValues, WantValues, ReplyValues, SettlesStep,
         FinishStep DEF CallFails, ReplyKind
    <2>2. QED
      BY <1>4, <1>26, <2>1, MaxFaultsAssumption DEF CallFails, TypeOK, ServiceTypeOK
  <1>27. CASE Crash(r)
    <2>1. "dead" \in PcType /\ NoReply \in ReplyType
      BY DEF PcType, NoReply, Reply, ReplyType, ReplyKind
    <2>2. Typed
      BY <1>1, <1>27, <2>1, BecomeStep, FinishedFields DEF Crash
    <2>3. QED
      BY <1>4, <1>27, <2>2, MaxFaultsAssumption DEF Crash, TypeOK, ServiceTypeOK
  <1>28. QED
    BY <1>6, <1>7, <1>8, <1>9, <1>10, <1>11, <1>12, <1>13, <1>14, <1>17, <1>18, <1>19,
       <1>20, <1>21, <1>22, <1>23, <1>24, <1>25, <1>26, <1>27 DEF RequestNext, RequestStep

(* The sweep, whose list is of proposals and whose current one was offered. *)
LEMMA SweepType ==
  ASSUME TypeOK, \A s \in Sweeper : SweepAgrees(s), SweepNext
  PROVE  TypeOK'
  <1> DEFINE Run == [pc : {"idle", "findDecision", "recordOutcome"},
                     todo : SUBSET Proposal, current : ProposalRef]
  <1>1. ASSUME NEW s \in Sweeper, SweepStep(s) \/ SweepFails(s)
        PROVE  sweep' \in [Sweeper -> Run] /\ aged' = aged
    <2>1. sweep[s].todo \in SUBSET Proposal
      BY DEF TypeOK, SweepTypeOK
    <2>2. \A pc \in {"idle", "findDecision", "recordOutcome"}, todo \in SUBSET Proposal,
             p \in ProposalRef : Sweeping(pc, todo, p) \in Run
      BY DEF Sweeping
    <2>3. "none" \in ProposalRef /\ \A p \in Proposal : p \in ProposalRef
      BY DEF ProposalRef
    <2>4. IdleSweep \in Run
      BY <2>2, <2>3 DEF IdleSweep
    <2>5. OldestFirst({p \in aged : Pending(p)}) \in SUBSET Proposal
      BY DEF OldestFirst, TypeOK, SweepTypeOK
    <2>6. PICK run \in Run : sweep' = [sweep EXCEPT ![s] = run]
      <3> HIDE DEF Run
      <3>1. CASE FindPendingProposals(s)
        BY <2>2, <2>3, <2>5, <3>1 DEF FindPendingProposals
      <3>2. CASE FindProposalDecision(s)
        BY <2>1, <2>2, <2>3, <3>2 DEF FindProposalDecision
      <3>3. CASE RecordExpiry(s)
        BY <2>1, <2>2, <2>3, <3>3 DEF RecordExpiry
      <3>4. CASE SweepEnds(s) \/ SweepFails(s)
        BY <2>4, <3>4 DEF SweepEnds, SweepFails, SweepStops
      <3>5. QED
        BY <1>1, <3>1, <3>2, <3>3, <3>4 DEF SweepStep
    <2>7. sweep' \in [Sweeper -> Run]
      BY <2>6 DEF TypeOK, SweepTypeOK
    <2>8. aged' = aged
      BY <1>1 DEF SweepStep, SweepFails, SweepStops, FindPendingProposals,
         FindProposalDecision, RecordExpiry, SweepEnds
    <2>9. QED
      BY <2>7, <2>8
  <1>2. CASE \E s \in Sweeper : SweepStep(s) /\ UNCHANGED serviceVars
    <2>1. PICK s \in Sweeper : SweepStep(s) /\ UNCHANGED serviceVars
      BY <1>2
    <2>2. SweepTypeOK'
      BY <1>1, <2>1 DEF TypeOK, SweepTypeOK
    <2>3. ServiceTypeOK'
      BY <2>1 DEF TypeOK, ServiceTypeOK, serviceVars
    <2>4. RepoTypeOK'
      <3>1. CASE UNCHANGED dbVars
        BY <3>1 DEF TypeOK, RepoTypeOK, dbVars
      <3>2. CASE RecordExpiry(s)
        <4>1. sweep[s].current \in Proposal
          BY <3>2 DEF RecordExpiry, SweepAgrees
        <4>2. decision[sweep[s].current] \in RulingRef
          BY <4>1 DEF TypeOK, RepoTypeOK
        <4>3. [outcome |-> "expired", ruling |-> decision[sweep[s].current]] \in OutcomeRow
          BY <4>2 DEF OutcomeRow, OutcomeKind
        <4>4. QED
          BY <3>2, <4>3 DEF RecordExpiry, InsertOutcome, TypeOK, RepoTypeOK
      <3>3. QED
        BY <2>1, <3>1, <3>2 DEF SweepStep, FindPendingProposals, FindProposalDecision,
           SweepEnds
    <2>5. QED
      BY <2>2, <2>3, <2>4 DEF TypeOK
  <1>3. CASE \E s \in Sweeper : SweepFails(s)
    <2>1. RepoTypeOK'
      BY <1>3 DEF SweepFails, SweepStops, TypeOK, RepoTypeOK, dbVars
    <2>2. SweepTypeOK'
      BY <1>1, <1>3 DEF TypeOK, SweepTypeOK
    <2>3. ServiceTypeOK'
      BY <1>3, MaxFaultsAssumption DEF SweepFails, TypeOK, ServiceTypeOK
    <2>4. QED
      BY <2>1, <2>2, <2>3 DEF TypeOK
  <1>4. CASE \E p \in Proposal : Age(p) /\ UNCHANGED serviceVars
    BY <1>4 DEF Age, TypeOK, RepoTypeOK, ServiceTypeOK, SweepTypeOK, dbVars, serviceVars
  <1>5. QED
    BY <1>2, <1>3, <1>4 DEF SweepNext

(* Shipping, the policy console and the agents. *)
LEMMA OtherType ==
  ASSUME TypeOK, OtherWriters
  PROVE  TypeOK'
  <1>1. ServiceTypeOK' /\ SweepTypeOK'
    BY DEF OtherWriters, TypeOK, ServiceTypeOK, SweepTypeOK, serviceVars, sweepVars
  <1>2. CASE \E o \in Order : ShippingUpdate(o)
    <2>1. PICK o \in Order, move \in ShippingMoves, bump \in {0, 1} :
            order' = [order EXCEPT ![o] =
              [status |-> move[2], version |-> order[o].version + bump]]
      BY <1>2 DEF ShippingUpdate
    <2>2. [status |-> move[2], version |-> order[o].version + bump] \in Snapshot
      BY ShippingMovesAssumption DEF TypeOK, RepoTypeOK, Snapshot, Status
    <2>3. order' \in [Order -> Snapshot]
      BY <2>1, <2>2 DEF TypeOK, RepoTypeOK
    <2>4. QED
      BY <1>1, <1>2, <2>3 DEF ShippingUpdate, TypeOK, RepoTypeOK
  <1>3. CASE RulingsChange
    BY <1>1, <1>3 DEF RulingsChange, TypeOK, RepoTypeOK
  <1>4. CASE TicketCloses
    BY <1>1, <1>4 DEF TicketCloses, TypeOK, RepoTypeOK
  <1>5. QED
    BY <1>2, <1>3, <1>4 DEF OtherWriters

----------------------------------------------------------------------------
(* What every step does to the rows, and what no step does to the proposal that
   another request is making. *)

RowsGrow ==
    \A p \in Proposal :
        /\ proposal'[p] = proposal[p] \/ proposal[p] = NoProposal
        /\ decision'[p] = decision[p] \/ decision[p] = "none"
        /\ rechecks[p] \subseteq rechecks'[p]
        /\ outcome'[p] = outcome[p] \/ ~KeyHeld(p)

LeftAlone(p) ==
    /\ proposal'[p] = proposal[p] /\ decision'[p] = decision[p]
    /\ outcome'[p] = outcome[p] \/ decision[p] = "confirm-required"

(* What request r has been told is so. *)
Told(r) ==
    /\ req[r].reply.kind = "executed" => outcome[req[r].prop].outcome = "executed"
    /\ req[r].reply.kind = "rejected" => outcome[req[r].prop].outcome = "rejected_by_customer"
    /\ req[r].reply.escalated /\ req[r].reply.kind # "stale" => escalations[req[r].prop] = 1

LEMMA FrameRequest ==
  ASSUME IInv, NEW s \in Request, req'[s] = req[s], RowsGrow,
         req[s].op = "propose" => LeftAlone(req[s].prop)
  PROVE  RequestAgrees(s)'
  <1>1. RequestAgrees(s) /\ TypeOK
    BY DEF IInv
  <1>2. CASE req[s].pc \notin Running
    BY <1>1, <1>2 DEF RequestAgrees, WriterFits, Running
  <1>3. CASE req[s].pc \in Running
    <2>1. req[s].prop \in Proposal /\ RowsAgree(req[s].prop)
      BY <1>1, <1>3, Serving DEF IInv
    <2>2. req[s].op = "propose" => ProposeAgrees(s)'
      <3> SUFFICES ASSUME req[s].op = "propose" PROVE ProposeAgrees(s)'
        OBVIOUS
      <3>1. ProposeAgrees(s) /\ LeftAlone(req[s].prop)
        BY <1>1 DEF RequestAgrees
      <3>2. QED
        BY <2>1, <3>1 DEF ProposeAgrees, LeftAlone, KeyHeld, NoRow, Ruling
    <2>3. req[s].op \in {"confirm", "reject"} => AnswerAgrees(s)'
      <3> SUFFICES ASSUME req[s].op \in {"confirm", "reject"} PROVE AnswerAgrees(s)'
        OBVIOUS
      <3>1. AnswerAgrees(s)
        BY <1>1 DEF RequestAgrees
      <3>2. /\ rechecks[req[s].prop] \subseteq rechecks'[req[s].prop]
            /\ KeyHeld(req[s].prop) => outcome'[req[s].prop] = outcome[req[s].prop]
        BY <2>1 DEF RowsGrow
      <3>3. req[s].pc # "loadPending" =>
              decision'[req[s].prop] = decision[req[s].prop]
              /\ proposal'[req[s].prop] = proposal[req[s].prop]
        BY <2>1, <3>1 DEF RowsGrow, AnswerAgrees, RowsAgree, NoProposal
      <3>4. QED
        BY <3>1, <3>2, <3>3 DEF AnswerAgrees, KeyHeld
    <2>4. QED
      BY <1>1, <2>2, <2>3 DEF RequestAgrees, WriterFits, Escalates
  <1>4. QED
    BY <1>2, <1>3

LEMMA FrameTold ==
  ASSUME IInv, TicketWithItsCause', NEW s \in Request, req'[s] = req[s], RowsGrow
  PROVE  Told(s)'
  <1>1. RequestAgrees(s) /\ Told(s)
    BY DEF IInv, AnswersAreTrue, PromiseKeptOutsideLateRefusals, Told
  <1>2. CASE req[s].prop \notin Proposal
    BY <1>1, <1>2 DEF RequestAgrees, Told
  <1>3. CASE req[s].prop \in Proposal
    <2> DEFINE p == req[s].prop
    <2>1. /\ proposal'[p] = proposal[p] \/ proposal[p] = NoProposal
          /\ outcome'[p] = outcome[p] \/ outcome[p] = NoRow
      BY <1>3 DEF RowsGrow, KeyHeld
    <2>2. escalations[p] = 1 => escalations'[p] = 1
      BY <1>3, <2>1 DEF IInv, TicketWithItsCause, KeyHeld, NoProposal
    <2>3. QED
      BY <1>1, <2>1, <2>2 DEF Told, NoRow
  <1>4. QED
    BY <1>2, <1>3

LEMMA Assemble ==
  ASSUME IInv, TypeOK', RowsGrow, \A p \in Proposal : RowsAgree(p)',
         OneProposer', \A s \in Request : RequestAgrees(s)', \A s \in Request : Told(s)',
         \A s \in Sweeper : SweepAgrees(s)',
         CancelledExactlyWhenExecuted', TicketWithItsCause'
  PROVE  IInv'
  <1>1. AnswersAreTrue' /\ PromiseKeptOutsideLateRefusals'
    BY DEF Told, AnswersAreTrue, PromiseKeptOutsideLateRefusals
  <1>2. QED
    BY <1>1 DEF IInv

(* A step of request r keeps the invariant if it does so for its own proposal and
   itself. *)
LEMMA RequestStepKeeps ==
  ASSUME IInv, TypeOK', NEW r \in Request, OthersKeep(r), UNCHANGED sweepVars, RowsGrow,
         \A p \in Proposal : RowsAgree(p)',
         \A s \in Request \ {r} : req[s].op = "propose" => LeftAlone(req[s].prop),
         req'[r].op = "propose" =>
           \/ req[r].op = "propose" /\ req'[r].prop = req[r].prop
           \/ \A s \in Request : ~(req[s].op = "propose" /\ req[s].prop = req'[r].prop),
         RequestAgrees(r)', Told(r)', CancelledExactlyWhenExecuted', TicketWithItsCause'
  PROVE  IInv'
  <1>1. OneProposer'
    BY DEF IInv, OneProposer, OthersKeep
  <1>2. \A s \in Request : RequestAgrees(s)'
    BY FrameRequest DEF OthersKeep
  <1>3. \A s \in Request : Told(s)'
    BY FrameTold DEF OthersKeep
  <1>4. ASSUME NEW s \in Sweeper PROVE SweepAgrees(s)'
    <2>1. SweepAgrees(s) /\ sweep' = sweep
      BY DEF IInv, sweepVars
    <2>2. QED
      BY <2>1 DEF SweepAgrees, RowsGrow
  <1>5. QED
    BY <1>1, <1>2, <1>3, <1>4, Assemble

(* When it changes no row, it has only itself to look after. *)
LEMMA QuietStepKeeps ==
  ASSUME IInv, TypeOK', NEW r \in Request, OthersKeep(r), UNCHANGED sweepVars,
         UNCHANGED dbVars,
         req'[r].op = "propose" =>
           \/ req[r].op = "propose" /\ req'[r].prop = req[r].prop
           \/ \A s \in Request : ~(req[s].op = "propose" /\ req[s].prop = req'[r].prop),
         RequestAgrees(r)', Told(r)'
  PROVE  IInv'
  <1>1. RowsGrow /\ \A p \in Proposal : LeftAlone(p) 
    BY DEF dbVars, RowsGrow, LeftAlone
  <1>2. \A p \in Proposal : RowsAgree(p)'
    BY DEF IInv, RowsAgree, KeyHeld, dbVars
  <1>3. CancelledExactlyWhenExecuted' /\ TicketWithItsCause'
    BY DEF IInv, CancelledExactlyWhenExecuted, TicketWithItsCause, KeyHeld, dbVars
  <1>4. \A s \in Request : LeftAlone(req[s].prop)
    BY DEF dbVars, LeftAlone
  <1>5. QED
    BY <1>1, <1>2, <1>3, <1>4, RequestStepKeeps

(* A request that has been answered, or whose process stopped. *)
LEMMA Idle ==
  ASSUME NEW r \in Request, req'[r].pc \in {"done", "dead"}, req'[r].op = "none",
         req'[r].want = "none", req'[r].prop \in Proposal, req'[r].reply \in ReplyType,
         req'[r].reply.escalated => req'[r].reply.kind # "none"
  PROVE  RequestAgrees(r)'
  BY DEF RequestAgrees, WriterFits, Running

(* A request at work has been told nothing. *)
LEMMA Untold ==
  ASSUME NEW r \in Request, req'[r].reply = NoReply
  PROVE  Told(r)'
  BY DEF Told, NoReply, Reply

----------------------------------------------------------------------------
(* The steps that change no row *)

(* A handler at work goes on with its operation; what has to be shown is what the
   invariant says of it at its new call. *)
LEMMA WorkKeeps ==
  ASSUME IInv, TypeOK', NEW r \in Request, OthersKeep(r), UNCHANGED sweepVars,
         UNCHANGED dbVars, req[r].pc \in Running, req'[r].pc \in Running,
         req'[r].op = req[r].op, req'[r].prop = req[r].prop, req'[r].reply = NoReply,
         req[r].op = "propose" => ProposeAgrees(r)',
         req[r].op \in {"confirm", "reject"} => AnswerAgrees(r)',
         WriterFits(r)'
  PROVE  IInv'
  <1>1. req[r].prop \in Proposal /\ req[r].op # "none"
    BY DEF IInv, RequestAgrees
  <1>2. req'[r].reply.kind = "none" /\ req'[r].reply.escalated = FALSE
    BY DEF NoReply, Reply
  <1>3. RequestAgrees(r)'
    BY <1>1, <1>2 DEF RequestAgrees
  <1>4. QED
    BY <1>3, Untold, QuietStepKeeps

(* A handler answers, and says only what is so. *)
LEMMA AnswerKeeps ==
  ASSUME IInv, TypeOK', NEW r \in Request, UNCHANGED sweepVars, UNCHANGED dbVars,
         req[r].pc \in Running, NEW reply \in ReplyType, Finish(r, reply),
         reply.kind # "none",
         reply.kind = "executed" => outcome[req[r].prop].outcome = "executed",
         reply.kind = "rejected" => outcome[req[r].prop].outcome = "rejected_by_customer",
         reply.escalated /\ reply.kind # "stale" => escalations[req[r].prop] = 1
  PROVE  IInv'
  <1>1. req \in [Request -> RequestState] /\ req[r].prop \in Proposal
    BY DEF IInv, TypeOK, ServiceTypeOK, RequestAgrees
  <1>2. /\ OthersKeep(r) /\ req'[r].pc = "done" /\ req'[r].prop = req[r].prop
        /\ req'[r].op = "none" /\ req'[r].want = "none" /\ req'[r].reply = reply
    BY <1>1, FinishStep
  <1>3. RequestAgrees(r)'
    BY <1>1, <1>2, Idle
  <1>4. Told(r)'
    BY <1>2 DEF Told, dbVars
  <1>5. QED
    BY <1>2, <1>3, <1>4, QuietStepKeeps

LEMMA StartProposeKeeps ==
  ASSUME IInv, TypeOK', NEW r \in Request, UNCHANGED sweepVars, NEW p \in Proposal,
         StartPropose(r, p)
  PROVE  IInv'
  <1>1. req \in [Request -> RequestState] /\ UNCHANGED dbVars /\ proposal[p] = NoProposal
    BY DEF IInv, TypeOK, ServiceTypeOK, StartPropose
  <1>2. /\ OthersKeep(r) /\ req'[r].op = "propose" /\ req'[r].prop = p
        /\ req'[r].reply = NoReply
        /\ \/ req'[r].pc = "beginWrite" /\ req'[r].want = "malformed"
           \/ req'[r].pc = "findCustomerOrder" /\ req'[r].want = "none"
    BY <1>1, MalformedStep, ProposesStep DEF StartPropose
  <1>3. ProposeAgrees(r)' /\ WriterFits(r)'
    BY <1>1, <1>2 DEF ProposeAgrees, WriterFits, Writing, dbVars
  <1>4. req'[r].reply.kind = "none" /\ req'[r].reply.escalated = FALSE
    BY <1>2 DEF NoReply, Reply
  <1>5. RequestAgrees(r)'
    BY <1>2, <1>3, <1>4 DEF RequestAgrees, Running
  <1>6. \A q \in Request : ~(req[q].op = "propose" /\ req[q].prop = p)
    BY DEF StartPropose
  <1>7. QED
    BY <1>1, <1>2, <1>5, <1>6, Untold, QuietStepKeeps

LEMMA StartAnswerKeeps ==
  ASSUME IInv, TypeOK', NEW r \in Request, UNCHANGED sweepVars, NEW p \in Proposal,
         NEW op \in {"confirm", "reject"}, StartAnswer(r, p, op)
  PROVE  IInv'
  <1>1. req \in [Request -> RequestState] /\ UNCHANGED dbVars
    BY DEF IInv, TypeOK, ServiceTypeOK, StartAnswer
  <1>2. op \in OpType /\ p \in ProposalRef
    BY DEF OpType, ProposalRef
  <1>3. /\ OthersKeep(r) /\ req'[r].op = op /\ req'[r].prop = p /\ req'[r].reply = NoReply
        /\ req'[r].pc = "loadPending" /\ req'[r].want = "none"
    BY <1>1, <1>2, PcValues, BeginsStep DEF StartAnswer
  <1>4. AnswerAgrees(r)' /\ WriterFits(r)'
    BY <1>3 DEF AnswerAgrees, WriterFits, Writing
  <1>5. req'[r].reply.kind = "none" /\ req'[r].reply.escalated = FALSE
    BY <1>3 DEF NoReply, Reply
  <1>6. RequestAgrees(r)'
    BY <1>3, <1>4, <1>5 DEF RequestAgrees, Running
  <1>7. QED
    BY <1>1, <1>3, <1>6, Untold, QuietStepKeeps

(* Reading and deciding. *)
LEMMA ReadKeeps ==
  ASSUME IInv, TypeOK', NEW r \in Request, UNCHANGED sweepVars,
         \/ FindCustomerOrder(r) \/ FindOrderById(r) \/ LoadRules(r)
         \/ BeginWrite(r) \/ RerunWrite(r)
  PROVE  IInv'
  <1>1. /\ req \in [Request -> RequestState] /\ req[r] \in RequestState
        /\ RequestAgrees(r) /\ TypeOK /\ \A p \in Proposal : RowsAgree(p)
    BY DEF IInv, TypeOK, ServiceTypeOK
  <1>2. CASE FindCustomerOrder(r)
    <2>1. req[r].pc \in Running /\ req[r].pc = "findCustomerOrder" /\ UNCHANGED dbVars
      BY <1>2 DEF FindCustomerOrder, Running
    <2>2. req[r].op = "propose" /\ ProposeAgrees(r) /\ req[r].reply = NoReply
      BY <1>1, <2>1, Serving DEF AnswerAgrees, Writing
    <2>3. CASE req[r].order \in Order /\ Become(r, Sees(req[r], order[req[r].order], "recordProposal"))
      <3>1. order[req[r].order] \in Snapshot
        BY <1>1, <2>3 DEF TypeOK, RepoTypeOK
      <3>2. /\ OthersKeep(r) /\ req'[r].pc = "recordProposal" /\ req'[r].op = req[r].op
            /\ req'[r].prop = req[r].prop /\ req'[r].reply = req[r].reply
            /\ req'[r].want = req[r].want /\ req'[r].order = req[r].order
        BY <1>1, <2>3, <3>1, PcValues, SeesStep
      <3>3. ProposeAgrees(r)' /\ WriterFits(r)'
        BY <2>1, <2>2, <2>3, <3>2 DEF ProposeAgrees, WriterFits, Writing, dbVars
      <3>4. QED
        BY <2>1, <2>2, <3>2, <3>3, WorkKeeps DEF Running
    <2>4. CASE Become(r, Wants(req[r], "malformed", "beginWrite"))
      <3>1. /\ OthersKeep(r) /\ req'[r].pc = "beginWrite" /\ req'[r].op = req[r].op
            /\ req'[r].prop = req[r].prop /\ req'[r].reply = req[r].reply
            /\ req'[r].want = "malformed"
        BY <1>1, <2>4, PcValues, WantValues, WantsStep
      <3>2. ProposeAgrees(r)' /\ WriterFits(r)'
        BY <2>1, <2>2, <3>1 DEF ProposeAgrees, WriterFits, Writing, dbVars
      <3>3. QED
        BY <2>1, <2>2, <3>1, <3>2, WorkKeeps DEF Running
    <2>5. QED
      BY <1>2, <2>3, <2>4 DEF FindCustomerOrder
  <1>3. CASE FindOrderById(r)
    <2>1. req[r].pc \in Running /\ req[r].pc = "findOrderById" /\ UNCHANGED dbVars
      BY <1>3 DEF FindOrderById, Running
    <2>2. /\ req[r].op = "confirm" /\ AnswerAgrees(r) /\ req[r].reply = NoReply
          /\ req[r].order \in Order
      BY <1>1, <2>1, Confirming, Serving
    <2>3. order[req[r].order] \in Snapshot
      BY <1>1, <2>2 DEF TypeOK, RepoTypeOK
    <2>4. /\ OthersKeep(r) /\ req'[r].pc = "loadRules" /\ req'[r].op = req[r].op
          /\ req'[r].prop = req[r].prop /\ req'[r].reply = req[r].reply
          /\ req'[r].want = req[r].want /\ req'[r].order = req[r].order
      BY <1>1, <1>3, <2>3, PcValues, SeesStep DEF FindOrderById
    <2>5. AnswerAgrees(r)' /\ WriterFits(r)'
      BY <2>1, <2>2, <2>4 DEF AnswerAgrees, WriterFits, Writing, dbVars
    <2>6. QED
      BY <2>1, <2>2, <2>4, <2>5, WorkKeeps DEF Running
  <1>4. CASE LoadRules(r)
    <2> DEFINE says == rules[req[r].snap.status]
    <2>1. req[r].pc \in Running /\ req[r].pc = "loadRules" /\ UNCHANGED dbVars
      BY <1>4 DEF LoadRules, Running
    <2>2. req[r].snap.status \in Status
      BY <1>1, RequestFields DEF Snapshot
    <2>3. says \in Ruling /\ says \in RulingRef /\ says # "none"
      <3>1. says \in Ruling
        BY <1>1, <2>2, RuleSetsAssumption DEF TypeOK, RepoTypeOK
      <3>2. QED
        BY <3>1 DEF Ruling, RulingRef
    <2>4. says = "confirm-required" => req[r].snap.status # "cancelled"
      BY <1>1, RuleSetsAssumption DEF TypeOK, RepoTypeOK
    <2> HIDE DEF says
    <2>5. Become(r, Ruled(req[r], says, "recordDecision"))
      BY <1>4 DEF LoadRules, says
    <2>6. /\ OthersKeep(r) /\ req'[r].pc = "recordDecision" /\ req'[r].op = req[r].op
          /\ req'[r].prop = req[r].prop /\ req'[r].reply = req[r].reply
          /\ req'[r].want = req[r].want /\ req'[r].order = req[r].order
          /\ req'[r].snap = req[r].snap /\ req'[r].ruling = says
      BY <1>1, <2>3, <2>5, PcValues, RuledStep
    <2>7. req[r].op = "propose" => ProposeAgrees(r)'
      BY <1>1, <2>1, <2>3, <2>6 DEF RequestAgrees, ProposeAgrees, Writing, dbVars
    <2>8. req[r].op \in {"confirm", "reject"} => AnswerAgrees(r)'
      BY <1>1, <2>1, <2>3, <2>4, <2>6 DEF RequestAgrees, AnswerAgrees, Writing, dbVars
    <2>9. WriterFits(r)' /\ req'[r].reply = NoReply
      BY <1>1, <2>1, <2>6, Serving DEF WriterFits
    <2>10. QED
      BY <2>1, <2>6, <2>7, <2>8, <2>9, WorkKeeps DEF Running
  <1>5. CASE BeginWrite(r) \/ RerunWrite(r)
    <2> DEFINE Ticketed == {"beginWrite", "createTicket", "appendTicket"}
    <2>1. PICK pc \in Ticketed : Goto(r, pc)
      BY <1>5 DEF BeginWrite, RerunWrite
    <2>2. req[r].pc \in Running /\ req[r].pc \in Ticketed /\ UNCHANGED dbVars
      BY <1>5 DEF BeginWrite, RerunWrite, Running
    <2>3. /\ OthersKeep(r) /\ req'[r].pc = pc /\ req'[r].op = req[r].op
          /\ req'[r].prop = req[r].prop /\ req'[r].reply = req[r].reply
          /\ req'[r].want = req[r].want /\ req'[r].ruling = req[r].ruling
      BY <1>1, <2>1, PcValues, GotoStep
    <2>4. req[r].op = "propose" => ProposeAgrees(r)'
      BY <1>1, <2>2, <2>3 DEF RequestAgrees, ProposeAgrees, Writing, KeyHeld, dbVars
    <2>5. req[r].op \in {"confirm", "reject"} => AnswerAgrees(r)'
      BY <1>1, <2>2, <2>3 DEF RequestAgrees, AnswerAgrees, Writing, dbVars
    <2>6. WriterFits(r)' /\ req'[r].reply = NoReply
      BY <1>1, <2>2, <2>3, Serving DEF RequestAgrees, WriterFits, Escalates
    <2>7. QED
      BY <2>2, <2>3, <2>4, <2>5, <2>6, WorkKeeps DEF Running
  <1>6. QED
    BY <1>2, <1>3, <1>4, <1>5

(* Two facts about a proposal's rows that answers are given on. *)
LEMMA TicketExists ==
  ASSUME TicketWithItsCause, NEW p \in Proposal,
         \/ proposal[p].validity = "malformed"
         \/ KeyHeld(p) /\ Escalates(outcome[p].ruling, outcome[p].outcome)
  PROVE  escalations[p] = 1
  BY DEF TicketWithItsCause, Escalates

(* The shared checks of confirm and reject. *)
LEMMA LoadPendingKeeps ==
  ASSUME IInv, TypeOK', NEW r \in Request, UNCHANGED sweepVars, LoadPending(r)
  PROVE  IInv'
  <1> DEFINE p == req[r].prop
  <1>1. /\ req \in [Request -> RequestState] /\ req[r] \in RequestState
        /\ RequestAgrees(r) /\ TypeOK
    BY DEF IInv, TypeOK, ServiceTypeOK
  <1>2. req[r].pc \in Running /\ req[r].pc = "loadPending" /\ UNCHANGED dbVars
    BY DEF LoadPending, Running
  <1>3. /\ req[r].op \in {"confirm", "reject"} /\ AnswerAgrees(r) /\ p \in Proposal
        /\ req[r].reply = NoReply
    BY <1>1, <1>2, Serving DEF ProposeAgrees, Writing
  <1>4. RowsAgree(p) /\ decision[p] \in RulingRef /\ proposal[p].order \in OrderRef
    BY <1>3 DEF IInv, TypeOK, RepoTypeOK
  <1>5. ASSUME NEW kind \in {"notFound", "stale", "executed", "rejected"},
               Finish(r, Reply(kind, FALSE)),
               kind = "executed" => outcome[p].outcome = "executed",
               kind = "rejected" => outcome[p].outcome = "rejected_by_customer"
        PROVE  IInv'
    <2>1. kind \in ReplyKind
      BY DEF ReplyKind
    <2>2. /\ Reply(kind, FALSE) \in ReplyType /\ Reply(kind, FALSE).kind = kind
          /\ Reply(kind, FALSE).escalated = FALSE
      BY <2>1, ReplyValues
    <2>3. QED
      BY <1>2, <1>5, <2>2, AnswerKeeps
  <1>6. CASE /\ req[r].op = "confirm" /\ decision[p] = "confirm-required"
             /\ Become(r, Targets(req[r], proposal[p].order, "findOrderById"))
    <2>1. /\ OthersKeep(r) /\ req'[r].pc = "findOrderById" /\ req'[r].op = req[r].op
          /\ req'[r].prop = p /\ req'[r].reply = req[r].reply
          /\ req'[r].want = req[r].want /\ req'[r].order = proposal[p].order
      BY <1>1, <1>4, <1>6, PcValues, TargetsStep
    <2>2. AnswerAgrees(r)' /\ WriterFits(r)'
      BY <1>2, <1>3, <1>6, <2>1 DEF AnswerAgrees, WriterFits, Writing, dbVars
    <2>3. QED
      BY <1>2, <1>3, <2>1, <2>2, WorkKeeps DEF Running
  <1>7. CASE /\ req[r].op = "reject" /\ decision[p] = "confirm-required"
             /\ Become(r, Settles(req[r], "rejected_by_customer", decision[p], "insertOutcome"))
    <2>1. /\ OthersKeep(r) /\ req'[r].pc = "insertOutcome" /\ req'[r].op = req[r].op
          /\ req'[r].prop = p /\ req'[r].reply = NoReply
          /\ req'[r].want = "rejected_by_customer" /\ req'[r].ruling = "confirm-required"
      BY <1>1, <1>4, <1>7, PcValues, WantValues, SettlesStep
    <2>2. AnswerAgrees(r)'
      BY <1>2, <1>3, <1>7, <2>1 DEF AnswerAgrees, Writing, dbVars
    <2>3. WriterFits(r)'
      BY <2>1 DEF WriterFits, Escalates, AutomaticEscalationReason
    <2>4. QED
      BY <1>2, <1>3, <2>1, <2>2, <2>3, WorkKeeps DEF Running
  <1>8. QED
    BY <1>3, <1>5, <1>6, <1>7 DEF LoadPending, DuplicateOf

LEMMA ActOnDecisionKeeps ==
  ASSUME IInv, TypeOK', NEW r \in Request, UNCHANGED sweepVars, ActOnDecision(r)
  PROVE  IInv'
  <1> DEFINE p == req[r].prop
             kind == RefusalKind(req[r].op, req[r].ruling)
  <1>1. /\ req \in [Request -> RequestState] /\ req[r] \in RequestState
        /\ RequestAgrees(r) /\ TypeOK
    BY DEF IInv, TypeOK, ServiceTypeOK
  <1>2. req[r].pc \in Running /\ req[r].pc = "decided" /\ UNCHANGED dbVars
    BY DEF ActOnDecision, Running
  <1>3. p \in Proposal /\ req[r].reply = NoReply
    BY <1>1, <1>2, Serving
  <1>4. req[r].ruling \in RulingRef
    BY <1>1, RequestFields
  <1>5. CASE Finish(r, Reply("confirm", FALSE))
    <2>1. /\ Reply("confirm", FALSE) \in ReplyType /\ Reply("confirm", FALSE).kind = "confirm"
          /\ Reply("confirm", FALSE).escalated = FALSE
      BY ReplyValues DEF ReplyKind
    <2>2. QED
      BY <1>2, <1>5, <2>1, AnswerKeeps
  <1>6. CASE /\ req[r].ruling = "confirm-required" /\ req[r].op = "confirm"
             /\ Become(r, Wants(req[r], "executed", "executeCancellation"))
    <2>1. /\ OthersKeep(r) /\ req'[r].pc = "executeCancellation" /\ req'[r].op = req[r].op
          /\ req'[r].prop = p /\ req'[r].reply = req[r].reply /\ req'[r].want = "executed"
          /\ req'[r].order = req[r].order /\ req'[r].snap = req[r].snap
          /\ req'[r].ruling = req[r].ruling
      BY <1>1, <1>6, PcValues, WantValues, WantsStep
    <2>2. AnswerAgrees(r)
      BY <1>1, <1>6 DEF RequestAgrees
    <2>3. AnswerAgrees(r)' /\ WriterFits(r)'
      BY <1>2, <1>6, <2>1, <2>2 DEF AnswerAgrees, WriterFits, Writing, dbVars
    <2>4. QED
      BY <1>2, <1>3, <1>6, <2>1, <2>3, WorkKeeps DEF Running
  <1>7. CASE /\ req[r].ruling # "confirm-required"
             /\ Become(r, Settles(req[r], kind, req[r].ruling, WriterFor(req[r].ruling, kind)))
    <2> DEFINE pc == WriterFor(req[r].ruling, kind)
    <2>1. /\ kind \in WantType /\ kind # "malformed" /\ kind # "executed"
          /\ pc \in {"insertOutcome", "beginWrite"}
          /\ pc = "beginWrite" <=> Escalates(req[r].ruling, kind)
      BY WantValues DEF RefusalKind, WriterFor, Escalates
    <2>2. pc \in PcType
      BY <2>1, PcValues
    <2>3. Become(r, Settles(req[r], kind, req[r].ruling, pc))
      BY <1>7
    <2>4. /\ req[r].op = "propose" => kind = RefusalKind("propose", req[r].ruling)
          /\ req[r].op = "confirm" => kind = "refused_at_execution"
      BY DEF RefusalKind
    <2> HIDE DEF kind, pc
    <2>5. /\ OthersKeep(r) /\ req'[r].pc = pc /\ req'[r].op = req[r].op /\ req'[r].prop = p
          /\ req'[r].reply = NoReply /\ req'[r].want = kind /\ req'[r].ruling = req[r].ruling
      BY <1>1, <1>4, <2>1, <2>2, <2>3, SettlesStep
    <2>6. req[r].op = "propose" => ProposeAgrees(r)'
      BY <1>1, <1>2, <1>4, <1>7, <2>1, <2>4, <2>5
      DEF RequestAgrees, ProposeAgrees, Writing, KeyHeld, RulingRef, dbVars
    <2>7. req[r].op \in {"confirm", "reject"} => AnswerAgrees(r)'
      BY <1>1, <1>2, <1>7, <2>1, <2>4, <2>5 DEF RequestAgrees, AnswerAgrees, Writing, dbVars
    <2>8. WriterFits(r)'
      BY <2>1, <2>5 DEF WriterFits, Escalates
    <2>9. QED
      BY <1>2, <1>3, <2>1, <2>5, <2>6, <2>7, <2>8, WorkKeeps DEF Running
  <1>8. QED
    BY <1>5, <1>6, <1>7 DEF ActOnDecision, Authorises

(* A handler is given the row that already holds its proposal's key. *)
LEMMA DuplicateKeeps ==
  ASSUME IInv, TypeOK', NEW r \in Request, UNCHANGED sweepVars, UNCHANGED dbVars,
         req[r].pc \in {"findWinner", "executeCancellation"} \union Writing,
         req[r].op = "propose" => req[r].want = "malformed", KeyHeld(req[r].prop),
         Recorded(r, outcome[req[r].prop], TRUE)
  PROVE  IInv'
  <1> DEFINE p == req[r].prop
  <1>1. /\ req \in [Request -> RequestState] /\ req[r] \in RequestState
        /\ RequestAgrees(r) /\ TypeOK /\ \A q \in Proposal : RowsAgree(q)
    BY DEF IInv, TypeOK, ServiceTypeOK
  <1>2. req[r].pc \in Running
    BY DEF Running, Writing
  <1>3. p \in Proposal
    BY <1>1, <1>2, Serving
  <1>4. req[r].op \in {"confirm", "reject"} /\ AnswerAgrees(r)
    <2>1. CASE req[r].op = "propose" /\ ProposeAgrees(r)
      <3>1. proposal[p] = NoProposal
        BY <2>1 DEF ProposeAgrees, Writing
      <3>2. QED
        BY <1>1, <1>3, <3>1 DEF RowsAgree, NoProposal
    <2>2. QED
      BY <1>1, <1>2, <2>1, Serving
  <1>5. outcome[p] \in OutcomeRow
    BY <1>3 DEF IInv, TypeOK, RepoTypeOK
  <1>6. /\ OthersKeep(r) /\ req'[r].pc = "answer" /\ req'[r].op = req[r].op
        /\ req'[r].prop = p /\ req'[r].want = req[r].want /\ req'[r].ruling = req[r].ruling
        /\ req'[r].result = outcome[p] /\ req'[r].duplicate = TRUE /\ req'[r].reply = NoReply
    BY <1>1, <1>5, RecordedStep
  <1>7. AnswerAgrees(r)'
    BY <1>4, <1>6 DEF AnswerAgrees, Writing, KeyHeld, dbVars
  <1>8. WriterFits(r)'
    BY <1>6 DEF WriterFits
  <1>9. QED
    BY <1>2, <1>4, <1>6, <1>7, <1>8, WorkKeeps DEF Running

(* Only one request makes a proposal, so nobody else has settled it before it has. *)
LEMMA ProposerWritesFirst ==
  ASSUME IInv, NEW r \in Request, req[r].op = "propose", req[r].pc \in Writing,
         req[r].want # "malformed"
  PROVE  ~KeyHeld(req[r].prop)
  BY DEF IInv, RequestAgrees, ProposeAgrees

LEMMA LookAgainKeeps ==
  ASSUME IInv, TypeOK', NEW r \in Request, UNCHANGED sweepVars,
         FindWinner(r) \/ FindExisting(r) \/ LoseWrite(r)
  PROVE  IInv'
  <1> DEFINE p == req[r].prop
             Outcomes == {"stale", "fault"}
  <1>1. /\ req \in [Request -> RequestState] /\ req[r] \in RequestState
        /\ RequestAgrees(r) /\ TypeOK /\ \A q \in Proposal : RowsAgree(q)
    BY DEF IInv, TypeOK, ServiceTypeOK
  <1>2. /\ req[r].pc \in {"findWinner", "findExisting", "createTicket", "appendTicket"}
        /\ req[r].pc \in Running /\ UNCHANGED dbVars
    BY DEF FindWinner, FindExisting, LoseWrite, Running
  <1>3. p \in Proposal /\ req[r].reply = NoReply
    BY <1>1, <1>2, Serving
  <1>4. CASE KeyHeld(p) /\ Recorded(r, outcome[p], TRUE)
    <2>1. req[r].op = "propose" => req[r].pc \in Writing
      BY <1>1, <1>2, Confirming DEF Writing
    <2>2. req[r].op = "propose" => req[r].want = "malformed"
      BY <1>4, <2>1, ProposerWritesFirst
    <2>3. QED
      BY <1>2, <1>4, <2>2, DuplicateKeeps DEF Writing
  <1>5. ASSUME NEW kind \in Outcomes, Finish(r, Reply(kind, FALSE)) PROVE IInv'
    <2>1. kind \in ReplyKind
      BY DEF ReplyKind
    <2>2. /\ Reply(kind, FALSE) \in ReplyType /\ Reply(kind, FALSE).kind = kind
          /\ Reply(kind, FALSE).escalated = FALSE
      BY <2>1, ReplyValues
    <2>3. QED
      BY <1>2, <1>5, <2>2, AnswerKeeps
  <1>6. ASSUME NEW pc \in {"beginWrite", "findExisting"},
               req[r].pc \in {"findExisting", "createTicket", "appendTicket"},
               Goto(r, pc) \/ Become(r, Retries(req[r], pc))
        PROVE  IInv'
    <2>1. /\ OthersKeep(r) /\ req'[r].pc = pc /\ req'[r].op = req[r].op
          /\ req'[r].prop = p /\ req'[r].reply = req[r].reply
          /\ req'[r].want = req[r].want /\ req'[r].ruling = req[r].ruling
      BY <1>1, <1>6, PcValues, GotoStep, RetriesStep
    <2>2. req[r].op = "propose" => ProposeAgrees(r)'
      BY <1>1, <1>2, <1>6, <2>1 DEF RequestAgrees, ProposeAgrees, Writing, KeyHeld, dbVars
    <2>3. req[r].op \in {"confirm", "reject"} => AnswerAgrees(r)'
      BY <1>1, <1>2, <1>6, <2>1 DEF RequestAgrees, AnswerAgrees, Writing, dbVars
    <2>4. WriterFits(r)'
      BY <1>1, <1>6, <2>1 DEF RequestAgrees, WriterFits, Escalates
    <2>5. QED
      BY <1>2, <1>3, <1>6, <2>1, <2>2, <2>3, <2>4, WorkKeeps DEF Running
  <1>7. CASE FindWinner(r)
    BY <1>4, <1>5, <1>7 DEF FindWinner
  <1>8. CASE FindExisting(r)
    BY <1>4, <1>6, <1>8 DEF FindExisting
  <1>9. CASE LoseWrite(r)
    BY <1>5, <1>6, <1>9 DEF LoseWrite
  <1>10. QED
    BY <1>7, <1>8, <1>9

LEMMA RespondKeeps ==
  ASSUME IInv, TypeOK', NEW r \in Request, UNCHANGED sweepVars, Respond(r)
  PROVE  IInv'
  <1> DEFINE q == req[r]
             p == req[r].prop
  <1>1. q \in RequestState /\ RequestAgrees(r) /\ TypeOK /\ TicketWithItsCause
    BY DEF IInv, TypeOK, ServiceTypeOK
  <1>2. q.pc \in Running /\ q.pc = "answer" /\ UNCHANGED dbVars
    BY DEF Respond, Running
  <1>3. p \in Proposal
    BY <1>1, <1>2, Serving
  <1>4. CASE q.op = "propose" /\ Finish(r, ProposeReply(q))
    <2>1. ProposeReply(q) \in ReplyType
      BY <1>1, AnswerTypes
    <2>2. ProposeReply(q).kind \in {"malformed", "refused", "escalated"}
      BY DEF ProposeReply, Reply
    <2>3. ASSUME ProposeReply(q).escalated PROVE escalations[p] = 1
      <3>1. ProposeAgrees(r)
        BY <1>1, <1>4 DEF RequestAgrees
      <3>2. CASE q.want = "malformed"
        BY <1>1, <1>2, <1>3, <3>1, <3>2, TicketExists DEF ProposeAgrees
      <3>3. CASE q.want # "malformed"
        <4>1. outcome[p] = [outcome |-> q.want, ruling |-> q.ruling] /\ q.ruling # "none"
          BY <1>2, <3>1, <3>3 DEF ProposeAgrees, Ruling
        <4>2. KeyHeld(p)
          BY <4>1 DEF KeyHeld, NoRow
        <4>3. Escalates(q.ruling, q.want)
          BY <2>3, <3>3 DEF ProposeReply, Reply, Escalates
        <4>4. QED
          BY <1>1, <1>3, <4>1, <4>2, <4>3, TicketExists
      <3>4. QED
        BY <3>2, <3>3
    <2>4. QED
      BY <1>2, <1>4, <2>1, <2>2, <2>3, AnswerKeeps
  <1>5. CASE q.op = "confirm" /\ Finish(r, ConfirmReply(q))
    <2>1. ConfirmReply(q) \in ReplyType
      BY <1>1, AnswerTypes
    <2>2. AnswerAgrees(r)
      BY <1>1, <1>5 DEF RequestAgrees
    <2>3. /\ KeyHeld(p) /\ q.result = outcome[p]
          /\ ~q.duplicate => q.result = [outcome |-> q.want, ruling |-> q.ruling]
      BY <1>2, <2>2 DEF AnswerAgrees
    <2>4. ConfirmReply(q).kind \in {"executed", "stale", "fault"}
      BY DEF ConfirmReply, Reply
    <2>5. ConfirmReply(q).kind = "executed" => outcome[p].outcome = "executed"
      BY <2>3 DEF ConfirmReply, Reply
    <2>6. ASSUME ConfirmReply(q).escalated, ConfirmReply(q).kind # "stale"
          PROVE  escalations[p] = 1
      <3>1. /\ q.result.outcome # "executed" /\ q.want # "executed"
            /\ q.want # "refused_at_execution"
            /\ ~q.duplicate \/ q.result.outcome = "failed"
        BY <2>6 DEF ConfirmReply, Reply
      <3>2. q.want = "failed"
        BY <1>2, <1>5, <2>2, <3>1 DEF AnswerAgrees
      <3>3. outcome[p].outcome = "failed"
        BY <2>3, <3>1, <3>2
      <3>4. Escalates(outcome[p].ruling, outcome[p].outcome)
        BY <3>3 DEF Escalates, AutomaticEscalationReason
      <3>5. QED
        BY <1>1, <1>3, <2>3, <3>4, TicketExists
    <2>7. QED
      BY <1>2, <1>5, <2>1, <2>4, <2>5, <2>6, AnswerKeeps
  <1>6. CASE q.op = "reject" /\ Finish(r, RejectReply(q))
    <2>1. RejectReply(q) \in ReplyType
      BY <1>1, AnswerTypes
    <2>2. AnswerAgrees(r)
      BY <1>1, <1>6 DEF RequestAgrees
    <2>3. q.result = outcome[p]
      BY <1>2, <2>2 DEF AnswerAgrees
    <2>4. /\ RejectReply(q).kind \in {"rejected", "stale"} /\ RejectReply(q).escalated = FALSE
          /\ RejectReply(q).kind = "rejected" => outcome[p].outcome = "rejected_by_customer"
      BY <2>3 DEF RejectReply, Reply
    <2>5. QED
      BY <1>2, <1>6, <2>1, <2>4, AnswerKeeps
  <1>7. QED
    BY <1>4, <1>5, <1>6 DEF Respond

(* Failures *)
LEMMA CallFailsKeeps ==
  ASSUME IInv, TypeOK', NEW r \in Request, UNCHANGED sweepVars, CallFails(r)
  PROVE  IInv'
  <1>1. /\ req \in [Request -> RequestState] /\ req[r] \in RequestState
        /\ RequestAgrees(r) /\ TypeOK
    BY DEF IInv, TypeOK, ServiceTypeOK
  <1>2. req[r].pc \in Running /\ UNCHANGED dbVars
    BY DEF CallFails
  <1>3. req[r].prop \in Proposal
    BY <1>1, <1>2, Serving
  <1>4. CASE /\ req[r].want = "executed"
             /\ Become(r, Settles(req[r], "failed", req[r].ruling, "beginWrite"))
    <2>1. req[r].ruling \in RulingRef
      BY <1>1, RequestFields
    <2>2. /\ OthersKeep(r) /\ req'[r].pc = "beginWrite" /\ req'[r].op = req[r].op
          /\ req'[r].prop = req[r].prop /\ req'[r].reply = NoReply
          /\ req'[r].want = "failed" /\ req'[r].ruling = req[r].ruling
      BY <1>1, <1>4, <2>1, PcValues, WantValues, SettlesStep
    <2>3. req[r].op # "propose" /\ AnswerAgrees(r)
      BY <1>1, <1>2, <1>4, Serving DEF ProposeAgrees, RefusalKind, Writing
    <2>4. /\ req[r].op = "confirm" /\ req[r].ruling = "confirm-required"
          /\ decision[req[r].prop] = "confirm-required"
      BY <1>4, <2>3 DEF AnswerAgrees
    <2>5. AnswerAgrees(r)'
      BY <1>2, <2>2, <2>4 DEF AnswerAgrees, Writing, dbVars
    <2>6. WriterFits(r)'
      BY <2>2 DEF WriterFits, Escalates, AutomaticEscalationReason
    <2>7. QED
      BY <1>2, <2>2, <2>4, <2>5, <2>6, WorkKeeps DEF Running
  <1>5. CASE Finish(r, Reply("fault", FALSE))
    <2>1. /\ Reply("fault", FALSE) \in ReplyType /\ Reply("fault", FALSE).kind = "fault"
          /\ Reply("fault", FALSE).escalated = FALSE
      BY ReplyValues DEF ReplyKind
    <2>2. QED
      BY <1>2, <1>5, <2>1, AnswerKeeps
  <1>6. QED
    BY <1>4, <1>5 DEF CallFails

LEMMA CrashKeeps ==
  ASSUME IInv, TypeOK', NEW r \in Request, UNCHANGED sweepVars, Crash(r)
  PROVE  IInv'
  <1>1. /\ req \in [Request -> RequestState] /\ req[r] \in RequestState
        /\ req[r].pc \in Running /\ UNCHANGED dbVars /\ req[r].prop \in Proposal
    BY DEF IInv, TypeOK, ServiceTypeOK, Crash, RequestAgrees
  <1>2. "dead" \in PcType /\ NoReply \in ReplyType /\ NoReply.escalated = FALSE
    BY DEF PcType, NoReply, Reply, ReplyType, ReplyKind
  <1>3. /\ OthersKeep(r) /\ req'[r].pc = "dead" /\ req'[r].prop = req[r].prop
        /\ req'[r].op = "none" /\ req'[r].want = "none" /\ req'[r].reply = NoReply
    BY <1>1, <1>2, BecomeStep, FinishedFields DEF Crash
  <1>4. RequestAgrees(r)'
    BY <1>1, <1>2, <1>3, Idle
  <1>5. QED
    BY <1>1, <1>3, <1>4, Untold, QuietStepKeeps

----------------------------------------------------------------------------
(* The steps that write *)

(* A step leaves the rows of every proposal but p as they are. *)
OnlyRowsOf(p) ==
    \A q \in Proposal \ {p} :
        /\ proposal'[q] = proposal[q] /\ decision'[q] = decision[q]
        /\ rechecks'[q] = rechecks[q] /\ outcome'[q] = outcome[q]
        /\ escalations'[q] = escalations[q]

TicketFits(p) ==
    escalations[p] = IF \/ proposal[p].validity = "malformed"
                        \/ KeyHeld(p) /\ Escalates(outcome[p].ruling, outcome[p].outcome)
                     THEN 1 ELSE 0

(* A handler that writes has to look after the rows of its own proposal. *)
LEMMA WriteKeeps ==
  ASSUME IInv, TypeOK', NEW r \in Request, OthersKeep(r), UNCHANGED sweepVars,
         req[r].pc \in Running, req'[r].pc \in Running,
         req'[r].op = req[r].op, req'[r].prop = req[r].prop, req'[r].reply = NoReply,
         NEW p \in Proposal, p = req[r].prop, OnlyRowsOf(p),
         proposal'[p] = proposal[p] \/ proposal[p] = NoProposal,
         decision'[p] = decision[p] \/ decision[p] = "none",
         rechecks[p] \subseteq rechecks'[p],
         outcome'[p] = outcome[p] \/ ~KeyHeld(p),
         req[r].op = "propose" \/ LeftAlone(p),
         RowsAgree(p)', TicketFits(p)', CancelledExactlyWhenExecuted',
         req[r].op = "propose" => ProposeAgrees(r)',
         req[r].op \in {"confirm", "reject"} => AnswerAgrees(r)',
         WriterFits(r)'
  PROVE  IInv'
  <1>1. RowsGrow
    BY DEF OnlyRowsOf, RowsGrow
  <1>2. \A q \in Proposal : RowsAgree(q)'
    BY DEF IInv, OnlyRowsOf, RowsAgree, KeyHeld
  <1>3. TicketWithItsCause'
    BY DEF IInv, OnlyRowsOf, TicketWithItsCause, TicketFits, Escalates, KeyHeld
  <1>4. ASSUME NEW s \in Request \ {r}, req[s].op = "propose" PROVE LeftAlone(req[s].prop)
    <2>1. req[s].prop \in Proposal
      BY <1>4 DEF IInv, RequestAgrees
    <2>2. CASE req[s].prop = p
      BY <1>4, <2>2 DEF IInv, OneProposer
    <2>3. CASE req[s].prop # p
      BY <2>1, <2>3 DEF OnlyRowsOf, LeftAlone
    <2>4. QED
      BY <2>2, <2>3
  <1>5. req[r].op # "none"
    BY DEF IInv, RequestAgrees
  <1>6. req'[r].reply.kind = "none" /\ req'[r].reply.escalated = FALSE
    BY DEF NoReply, Reply
  <1>7. RequestAgrees(r)'
    BY <1>5, <1>6 DEF RequestAgrees
  <1>8. QED
    BY <1>1, <1>2, <1>3, <1>4, <1>7, Untold, RequestStepKeeps

(* As long as no order changes, and no proposal's target or execution does. *)
LEMMA CancellationStands ==
  ASSUME IInv, UNCHANGED order,
         \A p \in Proposal : outcome[p].outcome = "executed" => proposal'[p] = proposal[p],
         \A p \in Proposal : outcome'[p].outcome = "executed" <=> outcome[p].outcome = "executed"
  PROVE  CancelledExactlyWhenExecuted'
  BY DEF IInv, CancelledExactlyWhenExecuted

LEMMA RecordProposalKeeps ==
  ASSUME IInv, TypeOK', NEW r \in Request, UNCHANGED sweepVars, RecordProposal(r),
         NEW p \in Proposal, p = req[r].prop
  PROVE  IInv'
  <1>1. /\ req \in [Request -> RequestState] /\ req[r] \in RequestState
        /\ RequestAgrees(r) /\ TypeOK /\ TicketWithItsCause
    BY DEF IInv, TypeOK, ServiceTypeOK
  <1>2. req[r].pc \in Running /\ req[r].pc = "recordProposal"
    BY DEF RecordProposal, Running
  <1>3. /\ req[r].op = "propose" /\ ProposeAgrees(r) /\ p \in Proposal
        /\ req[r].reply = NoReply
    BY <1>1, <1>2, Serving DEF AnswerAgrees, Writing
  <1>4. req[r].order \in Order /\ proposal[p] = NoProposal /\ req[r].want = "none"
    BY <1>2, <1>3 DEF ProposeAgrees
  <1>5. RowsAgree(p)
    BY <1>3 DEF IInv
  <1>6. decision[p] = "none" /\ ~KeyHeld(p) /\ escalations[p] = 0
    BY <1>1, <1>3, <1>4, <1>5 DEF RowsAgree, NoProposal, TicketWithItsCause
  <1>7. /\ OthersKeep(r) /\ req'[r].pc = "loadRules" /\ req'[r].op = req[r].op
        /\ req'[r].prop = p /\ req'[r].reply = NoReply /\ req'[r].want = "none"
    BY <1>1, <1>3, <1>4, PcValues, GotoStep DEF RecordProposal
  <1>8. /\ UNCHANGED <<order, decision, rechecks, outcome, escalations>>
        /\ \A q \in Proposal \ {p} : proposal'[q] = proposal[q]
        /\ proposal'[p].validity = "resolved" /\ proposal'[p].order = req[r].order
    BY <1>1, <1>3 DEF RecordProposal, InsertProposal, TypeOK, RepoTypeOK
  <1>9. RowsAgree(p)'
    BY <1>4, <1>5, <1>6, <1>8 DEF RowsAgree, KeyHeld, NoRow
  <1>10. TicketFits(p)'
    BY <1>6, <1>8 DEF TicketFits, KeyHeld
  <1>11. CancelledExactlyWhenExecuted'
    BY <1>6, <1>8, CancellationStands DEF KeyHeld, NoRow
  <1>12. ProposeAgrees(r)' /\ WriterFits(r)'
    BY <1>3, <1>6, <1>7, <1>8 DEF ProposeAgrees, WriterFits, Writing
  <1>13. OnlyRowsOf(p)
    BY <1>8 DEF OnlyRowsOf
  <1>14. QED
    BY <1>2, <1>3, <1>4, <1>7, <1>8, <1>9, <1>10, <1>11, <1>12, <1>13, WriteKeeps
    DEF Running

LEMMA RecordDecisionKeeps ==
  ASSUME IInv, TypeOK', NEW r \in Request, UNCHANGED sweepVars, RecordDecision(r),
         NEW p \in Proposal, p = req[r].prop
  PROVE  IInv'
  <1> DEFINE row == [status |-> req[r].snap.status, ruling |-> req[r].ruling]
  <1>1. /\ req \in [Request -> RequestState] /\ req[r] \in RequestState
        /\ RequestAgrees(r) /\ TypeOK /\ TicketWithItsCause
    BY DEF IInv, TypeOK, ServiceTypeOK
  <1>2. req[r].pc \in Running /\ req[r].pc = "recordDecision"
    BY DEF RecordDecision, Running
  <1>3. p \in Proposal /\ req[r].reply = NoReply
    BY <1>1, <1>2, Serving
  <1>4. RowsAgree(p) /\ TicketFits(p)
    BY <1>3 DEF IInv, TicketWithItsCause, TicketFits, Escalates
  <1>5. /\ OthersKeep(r) /\ req'[r].pc = "decided" /\ req'[r].op = req[r].op
        /\ req'[r].prop = p /\ req'[r].reply = NoReply /\ req'[r].want = req[r].want
        /\ req'[r].ruling = req[r].ruling /\ req'[r].snap = req[r].snap
        /\ req'[r].order = req[r].order
    BY <1>1, <1>3, PcValues, GotoStep DEF RecordDecision
  <1>6. UNCHANGED <<order, proposal, outcome, escalations>>
    BY DEF RecordDecision
  <1>7. CancelledExactlyWhenExecuted'
    BY <1>6, CancellationStands
  <1>8. WriterFits(r)'
    BY <1>5 DEF WriterFits
  <1>9. TicketFits(p)'
    BY <1>4, <1>6 DEF TicketFits, KeyHeld
  <1>10. CASE req[r].op = "propose" /\ ProposeAgrees(r)
    <2>1. /\ decision[p] = "none" /\ proposal[p].validity = "resolved"
          /\ req[r].ruling \in Ruling /\ req[r].want = "none"
      BY <1>2, <1>10 DEF ProposeAgrees
    <2>2. /\ decision'[p] = req[r].ruling /\ UNCHANGED rechecks
          /\ \A q \in Proposal \ {p} : decision'[q] = decision[q]
      BY <1>1, <1>3, <1>10 DEF RecordDecision, TypeOK, RepoTypeOK
    <2>3. ~KeyHeld(p)
      BY <1>4, <2>1 DEF RowsAgree
    <2>4. RowsAgree(p)'
      BY <1>4, <1>6, <2>1, <2>2, <2>3 DEF RowsAgree, KeyHeld
    <2>5. ProposeAgrees(r)'
      BY <1>5, <1>6, <2>1, <2>2, <2>3 DEF ProposeAgrees, Writing, KeyHeld, Ruling
    <2>6. OnlyRowsOf(p)
      BY <1>6, <2>2 DEF OnlyRowsOf
    <2>7. QED
      BY <1>2, <1>3, <1>5, <1>6, <1>7, <1>8, <1>9, <1>10, <2>1, <2>2, <2>4, <2>5, <2>6,
         WriteKeeps DEF Running
  <1>11. CASE req[r].op \in {"confirm", "reject"} /\ AnswerAgrees(r)
    <2>1. req[r].op = "confirm"
      BY <1>2, <1>11 DEF AnswerAgrees
    <2>2. /\ UNCHANGED decision /\ rechecks'[p] = rechecks[p] \union {row}
          /\ \A q \in Proposal \ {p} : rechecks'[q] = rechecks[q]
      BY <1>1, <1>3, <2>1 DEF RecordDecision, TypeOK, RepoTypeOK
    <2>3. row \in rechecks'[p] /\ rechecks[p] \subseteq rechecks'[p]
      BY <2>2
    <2>4. RowsAgree(p)'
      BY <1>4, <1>6, <2>2 DEF RowsAgree, KeyHeld
    <2>5. AnswerAgrees(r)'
      BY <1>2, <1>5, <1>6, <1>11, <2>2, <2>3 DEF AnswerAgrees, Writing
    <2>6. OnlyRowsOf(p)
      BY <1>6, <2>2 DEF OnlyRowsOf
    <2>7. LeftAlone(p)
      BY <1>6, <2>2 DEF LeftAlone
    <2>8. QED
      BY <1>2, <1>3, <1>5, <1>6, <1>7, <1>8, <1>9, <2>1, <2>2, <2>3, <2>4, <2>5, <2>6,
         <2>7, WriteKeeps DEF Running
  <1>12. QED
    BY <1>1, <1>2, <1>10, <1>11, Serving

LEMMA InsertedOutcome ==
  ASSUME TypeOK, NEW p \in Proposal, NEW kind \in OutcomeKind, NEW ruling,
         InsertOutcome(p, kind, ruling)
  PROVE  /\ outcome'[p] = [outcome |-> kind, ruling |-> ruling]
         /\ outcome'[p] # NoRow /\ outcome'[p].outcome = kind /\ outcome'[p].ruling = ruling
         /\ \A q \in Proposal \ {p} : outcome'[q] = outcome[q]
  BY DEF TypeOK, RepoTypeOK, InsertOutcome, NoRow, OutcomeKind

LEMMA ExecuteCancellationKeeps ==
  ASSUME IInv, TypeOK', NEW r \in Request, UNCHANGED sweepVars, ExecuteCancellation(r),
         NEW p \in Proposal, p = req[r].prop
  PROVE  IInv'
  <1> DEFINE o == req[r].order
             row == [outcome |-> "executed", ruling |-> req[r].ruling]
  <1>1. /\ req \in [Request -> RequestState] /\ req[r] \in RequestState
        /\ RequestAgrees(r) /\ TypeOK /\ \A q \in Proposal : RowsAgree(q)
        /\ CancelledExactlyWhenExecuted
    BY DEF IInv, TypeOK, ServiceTypeOK
  <1>2. req[r].pc \in Running /\ req[r].pc = "executeCancellation"
    BY DEF ExecuteCancellation, Running
  <1>3. /\ req[r].op = "confirm" /\ AnswerAgrees(r) /\ req[r].reply = NoReply
        /\ decision[p] = "confirm-required" /\ o = proposal[p].order /\ o \in Order
        /\ req[r].want = "executed" /\ req[r].ruling = "confirm-required"
        /\ req[r].snap.status # "cancelled"
        /\ [status |-> req[r].snap.status, ruling |-> "confirm-required"] \in rechecks[p]
    BY <1>1, <1>2, Serving, Confirming, Executing
  <1>4. UNCHANGED <<proposal, decision, rechecks, escalations, activeTicket, rules>>
    BY DEF ExecuteCancellation
  <1>5. CASE KeyHeld(p) /\ Recorded(r, outcome[p], TRUE) /\ UNCHANGED <<order, outcome>>
    <2>1. UNCHANGED dbVars
      BY <1>4, <1>5 DEF dbVars
    <2>2. QED
      BY <1>2, <1>3, <1>5, <2>1, DuplicateKeeps
  <1>6. CASE Goto(r, "findWinner") /\ UNCHANGED <<order, outcome>>
    <2>1. UNCHANGED dbVars
      BY <1>4, <1>6 DEF dbVars
    <2>2. /\ OthersKeep(r) /\ req'[r].pc = "findWinner" /\ req'[r].op = req[r].op
          /\ req'[r].prop = p /\ req'[r].reply = NoReply /\ req'[r].want = req[r].want
          /\ req'[r].ruling = req[r].ruling /\ req'[r].snap = req[r].snap
          /\ req'[r].order = req[r].order
      BY <1>1, <1>3, <1>6, PcValues, GotoStep
    <2>3. AnswerAgrees(r)' /\ WriterFits(r)'
      BY <1>2, <1>3, <2>1, <2>2 DEF AnswerAgrees, WriterFits, Writing, dbVars
    <2>4. QED
      BY <1>2, <1>3, <2>1, <2>2, <2>3, WorkKeeps DEF Running
  <1>7. CASE /\ ~KeyHeld(p) /\ ConditionalCancelFilter(o, req[r].snap) /\ CancelOrder(o)
             /\ InsertOutcome(p, "executed", req[r].ruling) /\ Recorded(r, row, FALSE)
    <2>1. row \in OutcomeRow
      BY <1>3 DEF OutcomeRow, OutcomeKind, RulingRef, Ruling
    <2>2. /\ OthersKeep(r) /\ req'[r].pc = "answer" /\ req'[r].op = req[r].op
          /\ req'[r].prop = p /\ req'[r].reply = NoReply /\ req'[r].want = "executed"
          /\ req'[r].ruling = "confirm-required" /\ req'[r].result = row
      BY <1>1, <1>3, <1>7, <2>1, RecordedStep
    <2>3. /\ outcome'[p] = row /\ outcome'[p] # NoRow /\ outcome'[p].outcome = "executed"
          /\ outcome'[p].ruling = "confirm-required"
          /\ \A q \in Proposal \ {p} : outcome'[q] = outcome[q]
      BY <1>1, <1>3, <1>7, InsertedOutcome DEF OutcomeKind
    <2>4. order[o].status # "cancelled"
      BY <1>3, <1>7 DEF ConditionalCancelFilter
    <2>5. /\ order'[o].status = "cancelled"
          /\ \A u \in Order \ {o} : order'[u] = order[u]
      BY <1>1, <1>3, <1>7 DEF CancelOrder, TypeOK, RepoTypeOK
    <2>6. \A q \in Proposal : proposal[q].order = o => outcome[q].outcome # "executed"
      BY <1>1, <1>3, <2>4 DEF CancelledExactlyWhenExecuted
    <2>7. CancelledExactlyWhenExecuted'
      <3>1. ASSUME NEW u \in Order
            PROVE  order'[u].status = "cancelled" <=>
                     \E q \in Proposal : outcome'[q].outcome = "executed" /\ proposal'[q].order = u
        <4>1. CASE u = o
          BY <1>3, <1>4, <2>3, <2>5, <4>1
        <4>2. CASE u # o
          BY <1>1, <1>3, <1>4, <2>3, <2>5, <4>2 DEF CancelledExactlyWhenExecuted
        <4>3. QED
          BY <4>1, <4>2
      <3>2. ASSUME NEW q1 \in Proposal, NEW q2 \in Proposal,
                   outcome'[q1].outcome = "executed", outcome'[q2].outcome = "executed",
                   proposal'[q1].order = proposal'[q2].order
            PROVE  q1 = q2
        <4>1. CASE q1 = p \/ q2 = p
          BY <1>3, <1>4, <2>3, <2>6, <3>2, <4>1
        <4>2. CASE q1 # p /\ q2 # p
          BY <1>1, <1>4, <2>3, <3>2, <4>2 DEF CancelledExactlyWhenExecuted
        <4>3. QED
          BY <4>1, <4>2
      <3>3. QED
        BY <3>1, <3>2 DEF CancelledExactlyWhenExecuted
    <2>8. RowsAgree(p)'
      BY <1>1, <1>3, <1>4, <2>3 DEF RowsAgree, KeyHeld, AtProposal
    <2>9. escalations[p] = 0
      BY <1>1, <1>3, <1>7 DEF IInv, TicketWithItsCause, RowsAgree
    <2>10. TicketFits(p)'
      BY <1>1, <1>3, <1>4, <2>3, <2>9
      DEF TicketFits, Escalates, AutomaticEscalationReason, RowsAgree
    <2>11. AnswerAgrees(r)' /\ WriterFits(r)'
      BY <1>3, <1>4, <2>2, <2>3 DEF AnswerAgrees, WriterFits, Writing, KeyHeld
    <2>12. OnlyRowsOf(p) /\ LeftAlone(p)
      BY <1>3, <1>4, <2>3 DEF OnlyRowsOf, LeftAlone
    <2>13. QED
      BY <1>2, <1>3, <1>4, <1>7, <2>2, <2>7, <2>8, <2>10, <2>11, <2>12, WriteKeeps
      DEF Running
  <1>8. QED
    BY <1>5, <1>6, <1>7 DEF ExecuteCancellation

(* A handler inserts the outcome it is there to record, and writes the ticket's
   event with it exactly when the outcome escalates. *)
LEMMA RecordKeeps ==
  ASSUME IInv, TypeOK', NEW r \in Request, UNCHANGED sweepVars, req[r].pc \in Writing,
         NEW p \in Proposal, p = req[r].prop, ~KeyHeld(p), req[r].want # "malformed",
         InsertOutcome(p, req[r].want, req[r].ruling),
         Recorded(r, [outcome |-> req[r].want, ruling |-> req[r].ruling], FALSE),
         UNCHANGED <<order, proposal, decision, rechecks, rules>>,
         \A q \in Proposal \ {p} : escalations'[q] = escalations[q],
         escalations'[p] = IF Escalates(req[r].ruling, req[r].want) THEN escalations[p] + 1
                           ELSE escalations[p]
  PROVE  IInv'
  <1> DEFINE row == [outcome |-> req[r].want, ruling |-> req[r].ruling]
  <1>1. /\ req \in [Request -> RequestState] /\ req[r] \in RequestState
        /\ RequestAgrees(r) /\ TypeOK /\ RowsAgree(p)
    BY DEF IInv, TypeOK, ServiceTypeOK
  <1>2. req[r].pc \in Running /\ req[r].pc # "loadPending"
    BY DEF Running, Writing
  <1>3. req[r].want \in OutcomeKind \ {"executed"} /\ req[r].ruling \in Ruling
    BY <1>1, WritingOutcome
  <1>4. row \in OutcomeRow
    BY <1>3 DEF OutcomeRow, RulingRef
  <1>5. /\ OthersKeep(r) /\ req'[r].pc = "answer" /\ req'[r].op = req[r].op
        /\ req'[r].prop = p /\ req'[r].reply = NoReply /\ req'[r].want = req[r].want
        /\ req'[r].ruling = req[r].ruling /\ req'[r].result = row
    BY <1>1, <1>4, RecordedStep
  <1>6. /\ outcome'[p] = row /\ outcome'[p] # NoRow
        /\ outcome'[p].outcome = req[r].want /\ outcome'[p].ruling = req[r].ruling
        /\ \A q \in Proposal \ {p} : outcome'[q] = outcome[q]
    BY <1>1, <1>3, InsertedOutcome
  <1>7. CancelledExactlyWhenExecuted'
    BY <1>3, <1>6, CancellationStands DEF KeyHeld, NoRow
  <1>8. WriterFits(r)'
    BY <1>5 DEF WriterFits
  <1>9. ASSUME proposal[p].validity # "malformed" PROVE TicketFits(p)'
    <2>1. escalations[p] = 0
      BY <1>9 DEF IInv, TicketWithItsCause
    <2>2. QED
      BY <1>6, <1>9, <2>1 DEF TicketFits, KeyHeld, Escalates
  <1>10. OnlyRowsOf(p)
    BY <1>6 DEF OnlyRowsOf
  <1>11. CASE req[r].op = "propose" /\ ProposeAgrees(r)
    <2>1. /\ req[r].want = RefusalKind("propose", req[r].ruling)
          /\ req[r].ruling # "confirm-required" /\ decision[p] = req[r].ruling
      BY <1>2, <1>11 DEF ProposeAgrees
    <2>2. req[r].want \in AtProposal /\ decision[p] # "none"
      BY <1>3, <2>1 DEF RefusalKind, AtProposal, Ruling
    <2>3. RowsAgree(p)' /\ proposal[p].validity # "malformed"
      BY <1>1, <1>3, <1>6, <2>1, <2>2 DEF RowsAgree, KeyHeld, AtProposal
    <2>4. ProposeAgrees(r)'
      BY <1>3, <1>5, <1>6, <1>11, <2>1 DEF ProposeAgrees, Writing
    <2>5. QED
      BY <1>1, <1>2, <1>5, <1>6, <1>7, <1>8, <1>9, <1>10, <1>11, <2>3, <2>4, WriteKeeps
      DEF Running
  <1>12. CASE req[r].op \in {"confirm", "reject"} /\ AnswerAgrees(r)
    <2>1. /\ decision[p] = "confirm-required"
          /\ req[r].op = "reject" => req[r].want = "rejected_by_customer"
          /\ req[r].op = "confirm" => req[r].want \in {"refused_at_execution", "failed"}
      BY <1>2, <1>3, <1>12 DEF AnswerAgrees
    <2>2. RowsAgree(p)' /\ proposal[p].validity # "malformed"
      BY <1>1, <1>3, <1>6, <1>12, <2>1 DEF RowsAgree, KeyHeld, AtProposal
    <2>3. AnswerAgrees(r)'
      BY <1>3, <1>5, <1>6, <1>12, <2>1 DEF AnswerAgrees, Writing, KeyHeld, Ruling
    <2>4. LeftAlone(p)
      BY <2>1 DEF LeftAlone
    <2>5. QED
      BY <1>1, <1>2, <1>5, <1>6, <1>7, <1>8, <1>9, <1>10, <1>12, <2>2, <2>3, <2>4,
         WriteKeeps DEF Running
  <1>13. QED
    BY <1>1, <1>2, <1>11, <1>12, Serving

LEMMA InsertOutcomeAloneKeeps ==
  ASSUME IInv, TypeOK', NEW r \in Request, UNCHANGED sweepVars, InsertOutcomeAlone(r),
         NEW p \in Proposal, p = req[r].prop
  PROVE  IInv'
  <1>1. /\ req[r].pc \in Writing /\ req[r].pc = "insertOutcome"
        /\ ~Escalates(req[r].ruling, req[r].want) /\ req[r].want # "malformed"
    BY DEF InsertOutcomeAlone, Writing, IInv, RequestAgrees, WriterFits
  <1>2. UNCHANGED <<order, proposal, decision, rechecks, escalations, activeTicket, rules>>
    BY DEF InsertOutcomeAlone
  <1>3. CASE KeyHeld(p) /\ Recorded(r, outcome[p], TRUE) /\ UNCHANGED outcome
    <2>1. UNCHANGED dbVars /\ req[r].op # "propose"
      BY <1>1, <1>2, <1>3, ProposerWritesFirst DEF dbVars
    <2>2. QED
      BY <1>1, <1>3, <2>1, DuplicateKeeps
  <1>4. CASE /\ ~KeyHeld(p) /\ InsertOutcome(p, req[r].want, req[r].ruling)
             /\ Recorded(r, [outcome |-> req[r].want, ruling |-> req[r].ruling], FALSE)
    BY <1>1, <1>2, <1>4, RecordKeeps
  <1>5. QED
    BY <1>3, <1>4 DEF InsertOutcomeAlone

LEMMA CommitWriteKeeps ==
  ASSUME IInv, TypeOK', NEW r \in Request, UNCHANGED sweepVars, CommitWrite(r),
         NEW p \in Proposal, p = req[r].prop
  PROVE  IInv'
  <1>1. /\ req \in [Request -> RequestState] /\ req[r] \in RequestState
        /\ RequestAgrees(r) /\ TypeOK /\ RowsAgree(p)
    BY DEF IInv, TypeOK, ServiceTypeOK
  <1>2. /\ req[r].pc \in Running /\ req[r].pc \in Writing /\ req[r].pc # "insertOutcome"
        /\ req[r].want = "malformed" \/ Escalates(req[r].ruling, req[r].want)
    BY DEF CommitWrite, Running, Writing, IInv, RequestAgrees, WriterFits
  <1>3. UNCHANGED <<order, decision, rechecks, rules>>
    BY DEF CommitWrite
  <1>4. /\ escalations'[p] = escalations[p] + 1
        /\ \A q \in Proposal \ {p} : escalations'[q] = escalations[q]
    BY <1>1 DEF CommitWrite, ApplyEscalation, TypeOK, RepoTypeOK
  <1>5. CASE req[r].want # "malformed"
    <2>1. /\ ~KeyHeld(p) /\ InsertOutcome(p, req[r].want, req[r].ruling)
          /\ Recorded(r, [outcome |-> req[r].want, ruling |-> req[r].ruling], FALSE)
          /\ UNCHANGED proposal
      BY <1>5 DEF CommitWrite
    <2>2. QED
      BY <1>2, <1>3, <1>4, <1>5, <2>1, RecordKeeps
  <1>6. CASE req[r].want = "malformed"
    <2>1. /\ InsertProposal(p, "malformed", NoOrder) /\ Recorded(r, NoRow, FALSE)
          /\ UNCHANGED outcome
      BY <1>6 DEF CommitWrite
    <2>2. NoRow \in OutcomeRow
      BY DEF NoRow, OutcomeRow, RulingRef
    <2>3. /\ OthersKeep(r) /\ req'[r].pc = "answer" /\ req'[r].op = req[r].op
          /\ req'[r].prop = p /\ req'[r].reply = NoReply /\ req'[r].want = "malformed"
      BY <1>1, <1>6, <2>1, <2>2, RecordedStep
    <2>4. req[r].op = "propose" /\ ProposeAgrees(r)
      BY <1>1, <1>2, <1>6, WritingOutcome DEF RequestAgrees, OutcomeKind
    <2>5. proposal[p] = NoProposal
      BY <1>2, <1>6, <2>4 DEF ProposeAgrees
    <2>6. decision[p] = "none" /\ ~KeyHeld(p) /\ escalations[p] = 0
      BY <1>1, <2>5 DEF RowsAgree, NoProposal, IInv, TicketWithItsCause
    <2>7. /\ proposal'[p].validity = "malformed"
          /\ \A q \in Proposal \ {p} : proposal'[q] = proposal[q]
      BY <1>1, <2>1 DEF InsertProposal, TypeOK, RepoTypeOK
    <2>8. RowsAgree(p)'
      BY <1>1, <1>3, <2>1, <2>6, <2>7 DEF RowsAgree, KeyHeld, NoRow
    <2>9. TicketFits(p)'
      BY <1>4, <2>6, <2>7 DEF TicketFits
    <2>10. CancelledExactlyWhenExecuted'
      BY <1>3, <2>1, <2>6, <2>7, CancellationStands DEF KeyHeld, NoRow
    <2>11. ProposeAgrees(r)' /\ WriterFits(r)'
      BY <2>3, <2>4, <2>7 DEF ProposeAgrees, WriterFits, Writing
    <2>12. OnlyRowsOf(p)
      BY <1>3, <1>4, <2>1, <2>7 DEF OnlyRowsOf
    <2>13. QED
      BY <1>2, <1>3, <2>1, <2>3, <2>4, <2>5, <2>8, <2>9, <2>10, <2>11, <2>12, WriteKeeps
      DEF Running
  <1>7. QED
    BY <1>5, <1>6

LEMMA RequestKeeps ==
  ASSUME IInv, NEW r \in Request, RequestNext(r), UNCHANGED sweepVars
  PROVE  IInv'
  <1>1. TypeOK'
    BY RequestType DEF IInv
  <1>2. req[r].pc \in Running => req[r].prop \in Proposal
    BY DEF IInv, RequestAgrees
  <1>3. CASE \E p \in Proposal : StartPropose(r, p)
    BY <1>1, <1>3, StartProposeKeeps
  <1>4. CASE \E p \in Proposal, op \in {"confirm", "reject"} : StartAnswer(r, p, op)
    BY <1>1, <1>4, StartAnswerKeeps
  <1>5. CASE \/ FindCustomerOrder(r) \/ FindOrderById(r) \/ LoadRules(r)
             \/ BeginWrite(r) \/ RerunWrite(r)
    BY <1>1, <1>5, ReadKeeps
  <1>6. CASE FindWinner(r) \/ FindExisting(r) \/ LoseWrite(r)
    BY <1>1, <1>6, LookAgainKeeps
  <1>7. CASE LoadPending(r)
    BY <1>1, <1>7, LoadPendingKeeps
  <1>8. CASE ActOnDecision(r)
    BY <1>1, <1>8, ActOnDecisionKeeps
  <1>9. CASE Respond(r) \/ CallFails(r) \/ Crash(r)
    BY <1>1, <1>9, RespondKeeps, CallFailsKeeps, CrashKeeps
  <1>10. CASE RecordProposal(r)
    BY <1>1, <1>2, <1>10, RecordProposalKeeps DEF RecordProposal, Running
  <1>11. CASE RecordDecision(r)
    BY <1>1, <1>2, <1>11, RecordDecisionKeeps DEF RecordDecision, Running
  <1>12. CASE ExecuteCancellation(r)
    BY <1>1, <1>2, <1>12, ExecuteCancellationKeeps DEF ExecuteCancellation, Running
  <1>13. CASE InsertOutcomeAlone(r)
    BY <1>1, <1>2, <1>13, InsertOutcomeAloneKeeps DEF InsertOutcomeAlone, Running
  <1>14. CASE CommitWrite(r)
    BY <1>1, <1>2, <1>14, CommitWriteKeeps DEF CommitWrite, Running
  <1>15. QED
    BY <1>3, <1>4, <1>5, <1>6, <1>7, <1>8, <1>9, <1>10, <1>11, <1>12, <1>13, <1>14
    DEF RequestNext, RequestStep

----------------------------------------------------------------------------
(* The steps of everybody else *)

LEMMA OtherStepKeeps ==
  ASSUME IInv, TypeOK', UNCHANGED req, RowsGrow, \A p \in Proposal : RowsAgree(p)',
         \A p \in Proposal : LeftAlone(p), \A s \in Sweeper : SweepAgrees(s)',
         CancelledExactlyWhenExecuted', TicketWithItsCause'
  PROVE  IInv'
  <1>1. OneProposer'
    BY DEF IInv, OneProposer
  <1>2. ASSUME NEW s \in Request PROVE RequestAgrees(s)'
    <2>1. req[s].op = "propose" => req[s].prop \in Proposal
      BY DEF IInv, RequestAgrees
    <2>2. QED
      BY <2>1, FrameRequest
  <1>3. \A s \in Request : Told(s)'
    BY FrameTold
  <1>4. QED
    BY <1>1, <1>2, <1>3, Assemble

LEMMA QuietKeeps ==
  ASSUME IInv, TypeOK', UNCHANGED <<req, proposal, decision, rechecks, outcome, escalations>>,
         \A s \in Sweeper : SweepAgrees(s)', CancelledExactlyWhenExecuted'
  PROVE  IInv'
  <1>1. RowsGrow /\ \A p \in Proposal : LeftAlone(p)
    BY DEF RowsGrow, LeftAlone
  <1>2. \A p \in Proposal : RowsAgree(p)'
    BY DEF IInv, RowsAgree, KeyHeld
  <1>3. TicketWithItsCause'
    BY DEF IInv, TicketWithItsCause, KeyHeld
  <1>4. QED
    BY <1>1, <1>2, <1>3, OtherStepKeeps

LEMMA RecordExpiryKeeps ==
  ASSUME IInv, TypeOK', NEW s \in Sweeper, RecordExpiry(s), UNCHANGED serviceVars,
         \A t \in Sweeper : SweepAgrees(t)', NEW p \in Proposal, p = sweep[s].current,
         decision[p] = "confirm-required", ~KeyHeld(p), InsertOutcome(p, "expired", decision[p])
  PROVE  IInv'
  <1>1. TypeOK /\ RowsAgree(p) /\ UNCHANGED <<req, order, proposal, decision, rechecks, escalations>>
    BY DEF IInv, RecordExpiry, serviceVars
  <1>2. /\ outcome'[p] # NoRow /\ outcome'[p].outcome = "expired"
        /\ outcome'[p].ruling = "confirm-required"
        /\ \A q \in Proposal \ {p} : outcome'[q] = outcome[q]
    BY <1>1, InsertedOutcome DEF OutcomeKind
  <1>3. RowsGrow /\ \A q \in Proposal : LeftAlone(q)
    BY <1>1, <1>2 DEF RowsGrow, LeftAlone
  <1>4. ASSUME NEW q \in Proposal PROVE RowsAgree(q)'
    <2>1. CASE q = p
      BY <1>1, <1>2, <2>1 DEF RowsAgree, KeyHeld, AtProposal
    <2>2. CASE q # p
      BY <1>1, <1>2, <2>2 DEF IInv, RowsAgree, KeyHeld
    <2>3. QED
      BY <2>1, <2>2
  <1>5. CancelledExactlyWhenExecuted'
    BY <1>1, <1>2, CancellationStands DEF KeyHeld, NoRow
  <1>6. TicketWithItsCause'
    BY <1>1, <1>2
    DEF IInv, TicketWithItsCause, KeyHeld, AutomaticEscalationReason, RowsAgree
  <1>7. QED
    BY <1>1, <1>3, <1>4, <1>5, <1>6, OtherStepKeeps

LEMMA SweepKeeps ==
  ASSUME IInv, SweepNext
  PROVE  IInv'
  <1>1. TypeOK' /\ TypeOK /\ \A s \in Sweeper : SweepAgrees(s)
    BY SweepType DEF IInv
  <1>2. UNCHANGED req
    BY DEF SweepNext, SweepFails, serviceVars
  <1>3. ASSUME UNCHANGED dbVars, \A s \in Sweeper : SweepAgrees(s)' PROVE IInv'
    <2>1. CancelledExactlyWhenExecuted'
      BY <1>3 DEF dbVars, IInv, CancelledExactlyWhenExecuted
    <2>2. QED
      BY <1>1, <1>2, <1>3, <2>1, QuietKeeps DEF dbVars
  <1>4. CASE \E s \in Sweeper : SweepStep(s) /\ UNCHANGED serviceVars
    <2>1. PICK s \in Sweeper : SweepStep(s) /\ UNCHANGED serviceVars
      BY <1>4
    <2>2. UNCHANGED decision
      BY <2>1 DEF SweepStep, FindPendingProposals, FindProposalDecision, RecordExpiry,
         SweepEnds, dbVars
    <2>3. \A t \in Sweeper : SweepAgrees(t)'
      <3>1. PICK pc, todo, p : /\ sweep' = [sweep EXCEPT ![s] = Sweeping(pc, todo, p)]
                               /\ pc = "recordOutcome" => p \in Proposal /\ WasOffered(p)
        <4>1. CASE FindProposalDecision(s)
          BY <1>1, <4>1 DEF FindProposalDecision, TypeOK, SweepTypeOK
        <4>2. CASE FindPendingProposals(s) \/ RecordExpiry(s) \/ SweepEnds(s)
          BY <4>2 DEF FindPendingProposals, RecordExpiry, SweepEnds, IdleSweep
        <4>3. QED
          BY <2>1, <4>1, <4>2 DEF SweepStep
      <3>2. QED
        BY <1>1, <2>2, <3>1 DEF SweepAgrees, Sweeping, WasOffered, TypeOK, SweepTypeOK
    <2>4. CASE UNCHANGED dbVars
      BY <1>3, <2>3, <2>4
    <2>5. CASE RecordExpiry(s) /\ ~UNCHANGED dbVars
      <3>1. /\ sweep[s].current \in Proposal /\ decision[sweep[s].current] = "confirm-required"
        BY <1>1, <2>5 DEF RecordExpiry, SweepAgrees
      <3>2. /\ ~KeyHeld(sweep[s].current)
            /\ InsertOutcome(sweep[s].current, "expired", decision[sweep[s].current])
        BY <2>5 DEF RecordExpiry, dbVars
      <3>3. QED
        BY <1>1, <2>1, <2>3, <2>5, <3>1, <3>2, RecordExpiryKeeps
    <2>6. QED
      BY <2>1, <2>4, <2>5 DEF SweepStep, FindPendingProposals, FindProposalDecision, SweepEnds
  <1>5. CASE \E s \in Sweeper : SweepFails(s)
    <2>1. PICK s \in Sweeper : sweep' = [sweep EXCEPT ![s] = IdleSweep] /\ UNCHANGED dbVars
      BY <1>5 DEF SweepFails, SweepStops
    <2>2. \A t \in Sweeper : SweepAgrees(t)'
      BY <1>1, <2>1 DEF SweepAgrees, IdleSweep, Sweeping, dbVars, TypeOK, SweepTypeOK
    <2>3. QED
      BY <1>3, <2>1, <2>2
  <1>6. CASE \E p \in Proposal : Age(p) /\ UNCHANGED serviceVars
    <2>1. UNCHANGED dbVars /\ UNCHANGED sweep
      BY <1>6 DEF Age
    <2>2. \A t \in Sweeper : SweepAgrees(t)'
      BY <1>1, <2>1 DEF SweepAgrees, dbVars
    <2>3. QED
      BY <1>3, <2>1, <2>2
  <1>7. QED
    BY <1>4, <1>5, <1>6 DEF SweepNext

LEMMA OtherWritersKeep ==
  ASSUME IInv, OtherWriters
  PROVE  IInv'
  <1>1. TypeOK' /\ TypeOK
    BY OtherType DEF IInv
  <1>2. UNCHANGED <<req, sweep, proposal, decision, rechecks, outcome, escalations>>
    BY DEF OtherWriters, ShippingUpdate, RulingsChange, TicketCloses, serviceVars, sweepVars
  <1>3. \A s \in Sweeper : SweepAgrees(s)'
    BY <1>2 DEF IInv, SweepAgrees
  <1>4. \A o \in Order : order'[o].status = "cancelled" <=> order[o].status = "cancelled"
    <2>1. CASE UNCHANGED order
      BY <2>1
    <2>2. CASE \E o \in Order : ShippingUpdate(o)
      <3>1. PICK o \in Order, move \in ShippingMoves, bump \in {0, 1} :
              /\ order[o].status = move[1]
              /\ order' = [order EXCEPT ![o] =
                   [status |-> move[2], version |-> order[o].version + bump]]
        BY <2>2 DEF ShippingUpdate
      <3>2. move[1] # "cancelled" /\ move[2] # "cancelled"
        BY ShippingMovesAssumption, RuleSetsAssumption
      <3>3. QED
        BY <1>1, <3>1, <3>2 DEF TypeOK, RepoTypeOK
    <2>3. QED
      BY <2>1, <2>2 DEF OtherWriters, RulingsChange, TicketCloses
  <1>5. CancelledExactlyWhenExecuted'
    BY <1>2, <1>4 DEF IInv, CancelledExactlyWhenExecuted
  <1>6. QED
    BY <1>1, <1>2, <1>3, <1>5, QuietKeeps

LEMMA StutterKeeps ==
  ASSUME IInv, UNCHANGED vars
  PROVE  IInv'
  <1>1. TypeOK'
    BY DEF IInv, TypeOK, RepoTypeOK, ServiceTypeOK, SweepTypeOK, vars, dbVars, serviceVars,
       sweepVars
  <1>2. UNCHANGED <<req, sweep, order, proposal, decision, rechecks, outcome, escalations>>
    BY DEF vars, dbVars, serviceVars, sweepVars
  <1>3. \A s \in Sweeper : SweepAgrees(s)'
    BY <1>2 DEF IInv, SweepAgrees
  <1>4. CancelledExactlyWhenExecuted'
    BY <1>2 DEF IInv, CancelledExactlyWhenExecuted
  <1>5. QED
    BY <1>1, <1>2, <1>3, <1>4, QuietKeeps

----------------------------------------------------------------------------
(* The theorems *)

LEMMA InitInvariant == Init => IInv
  <1> SUFFICES ASSUME Init PROVE IInv
    OBVIOUS
  <1>1. TypeOK
    BY InitType
  <1>2. /\ \A p \in Proposal : /\ outcome[p] = NoRow /\ escalations[p] = 0
                               /\ decision[p] = IF p \in Asked THEN "confirm-required" ELSE "none"
        /\ \A r \in Request : req[r] = NewRequest
        /\ \A s \in Sweeper : sweep[s] = IdleSweep
        /\ \A o \in Order : order[o].status \in ShippingStatus
    BY DEF Init, RepoInit, ServiceInit, SweepInit
  <1>3. PICK target \in [Asked -> Order], at \in [Asked -> 1..Cardinality(Asked)] :
          proposal = [p \in Proposal |->
            IF p \in Asked
            THEN [validity |-> "resolved", order |-> target[p], createdAt |-> at[p]]
            ELSE NoProposal]
    BY DEF Init, RepoInit
  <1>4. \A p \in Proposal : RowsAgree(p)
    BY <1>2, <1>3 DEF RowsAgree, KeyHeld, NoRow, NoProposal
  <1>5. \A r \in Request : req[r].op = "none" /\ req[r].pc = "new" /\ req[r].want = "none"
                           /\ req[r].reply.kind = "none" /\ req[r].reply.escalated = FALSE
    BY <1>2 DEF NewRequest, NoReply, Reply
  <1>6. OneProposer /\ \A r \in Request : RequestAgrees(r)
    BY <1>5 DEF OneProposer, RequestAgrees, WriterFits, Running
  <1>7. \A s \in Sweeper : SweepAgrees(s)
    BY <1>2 DEF SweepAgrees, IdleSweep, Sweeping
  <1>8. CancelledExactlyWhenExecuted
    BY <1>2, RuleSetsAssumption DEF CancelledExactlyWhenExecuted, NoRow
  <1>9. TicketWithItsCause
    BY <1>2, <1>3 DEF TicketWithItsCause, KeyHeld, NoProposal
  <1>10. AnswersAreTrue /\ PromiseKeptOutsideLateRefusals
    BY <1>5 DEF AnswersAreTrue, PromiseKeptOutsideLateRefusals
  <1>11. QED
    BY <1>1, <1>4, <1>6, <1>7, <1>8, <1>9, <1>10 DEF IInv

LEMMA NextInvariant == IInv /\ [Next]_vars => IInv'
  <1> SUFFICES ASSUME IInv, [Next]_vars PROVE IInv'
    OBVIOUS
  <1>1. CASE \E r \in Request : RequestNext(r) /\ UNCHANGED sweepVars
    BY <1>1, RequestKeeps
  <1>2. CASE SweepNext
    BY <1>2, SweepKeeps
  <1>3. CASE OtherWriters
    BY <1>3, OtherWritersKeep
  <1>4. CASE UNCHANGED vars
    BY <1>4, StutterKeeps
  <1>5. QED
    BY <1>1, <1>2, <1>3, <1>4 DEF Next

(* The invariant holds in every state the action path reaches. *)
THEOREM Invariance == Spec => []IInv
  BY InitInvariant, NextInvariant, PTL DEF Spec

(* Every variable keeps its type, whoever interleaves with whom. *)
THEOREM TypeCorrectness == Spec => []TypeOK
  <1>1. IInv => TypeOK
    BY DEF IInv
  <1>2. QED
    BY <1>1, Invariance, PTL

(* An order is cancelled exactly when one proposal that names it has an executed
   outcome: actionService.confirm and executeCancellation never cancel an order
   twice, nor record an execution that did not happen. *)
THEOREM CancellationIsRecorded == Spec => []CancelledExactlyWhenExecuted
  <1>1. IInv => CancelledExactlyWhenExecuted
    BY DEF IInv
  <1>2. QED
    BY <1>1, Invariance, PTL

(* Whatever executes was authorised when it was proposed and again when it was
   confirmed. *)
THEOREM ExecutionIsAuthorised == Spec => []ExecutedWasAuthorisedTwice
  <1>1. IInv => ExecutedWasAuthorisedTwice
    <2> SUFFICES ASSUME IInv, NEW p \in Proposal, outcome[p].outcome = "executed"
                 PROVE  /\ decision[p] = "confirm-required"
                        /\ \E row \in rechecks[p] : row.ruling = "confirm-required"
      BY DEF ExecutedWasAuthorisedTwice
    <2>1. RowsAgree(p) /\ KeyHeld(p)
      BY DEF IInv, KeyHeld, NoRow
    <2>2. QED
      BY <2>1 DEF RowsAgree, AtProposal
  <1>2. QED
    BY <1>1, Invariance, PTL

(* A record that escalates and its ticket event commit together: recordOutcome and
   recordProposal leave neither without the other, and never write the event twice. *)
THEOREM TicketsMatchTheirCauses == Spec => []TicketWithItsCause
  <1>1. IInv => TicketWithItsCause
    BY DEF IInv
  <1>2. QED
    BY <1>1, Invariance, PTL

(* "executed" and "rejected" are only ever answered on the row that says so. *)
THEOREM AnswersHold == Spec => []AnswersAreTrue
  <1>1. IInv => AnswersAreTrue
    BY DEF IInv
  <1>2. QED
    BY <1>1, Invariance, PTL

(* Outside the stale answer of a refusal at execution, whoever is promised a
   colleague has a ticket. *)
THEOREM PromisesHold == Spec => []PromiseKeptOutsideLateRefusals
  <1>1. IInv => PromiseKeptOutsideLateRefusals
    BY DEF IInv
  <1>2. QED
    BY <1>1, Invariance, PTL

----------------------------------------------------------------------------
(* What a step does to the abstract state *)

CancelledStands ==
    \A o \in Order : order'[o].status = "cancelled" <=> order[o].status = "cancelled"

Maps == Lifecycle!Next \/ UNCHANGED Lifecycle!vars

(* The phase of a proposal is read off three of its rows. *)
LEMMA PhaseStands ==
  ASSUME NEW q \in Proposal, proposal'[q] = proposal[q], decision'[q] = decision[q],
         outcome'[q] = outcome[q]
  PROVE  PhaseOf(q)' = PhaseOf(q)
  BY DEF PhaseOf, KeyHeld

LEMMA StutterMaps ==
  ASSUME UNCHANGED <<proposal, decision, outcome>>, CancelledStands
  PROVE  Maps /\ CancelsOnCurrentFacts
  <1>1. \A p \in Proposal : PhaseOf(p)' = PhaseOf(p)
    BY PhaseStands
  <1>2. UNCHANGED Lifecycle!vars
    BY <1>1 DEF Lifecycle!vars, CancelledStands
  <1>3. QED
    BY <1>2 DEF Maps, CancelledStands, CancelsOnCurrentFacts

(* The rows of one proposal change, and it moves along. *)
LEMMA MoveMaps ==
  ASSUME NEW p \in Proposal, NEW to, <<PhaseOf(p), to>> \in Lifecycle!LegalMoves,
         PhaseOf(p)' = to, UNCHANGED order,
         \A q \in Proposal \ {p} : /\ proposal'[q] = proposal[q] /\ decision'[q] = decision[q]
                                   /\ outcome'[q] = outcome[q]
  PROVE  Maps /\ CancelsOnCurrentFacts
  <1>1. \A q \in Proposal \ {p} : PhaseOf(q)' = PhaseOf(q)
    BY PhaseStands
  <1>2. to \in Lifecycle!Phases
    <2>1. <<PhaseOf(p), to>>[2] = to
      OBVIOUS
    <2>2. QED
      BY <2>1 DEF Lifecycle!Phases
  <1>3. Lifecycle!Move(p, to)
    <2>1. [q \in Proposal |-> PhaseOf(q)'] = [[q \in Proposal |-> PhaseOf(q)] EXCEPT ![p] = to]
      BY <1>1
    <2>2. QED
      BY <2>1 DEF Lifecycle!Move
  <1>4. Lifecycle!Next
    BY <1>2, <1>3 DEF Lifecycle!Next
  <1>5. QED
    BY <1>4 DEF Maps, CancelsOnCurrentFacts

(* The phases an offered, a barred and an unmade proposal are in. *)
LEMMA Phases ==
  ASSUME IInv, NEW p \in Proposal
  PROVE  /\ proposal[p] = NoProposal => PhaseOf(p) = "absent"
         /\ proposal[p].validity = "resolved" /\ ~KeyHeld(p) =>
              PhaseOf(p) = IF decision[p] = "none" THEN "recorded"
                           ELSE IF decision[p] = "confirm-required" THEN "offered"
                           ELSE "barred"
  BY DEF PhaseOf, NoProposal

LEMMA OutcomePhase ==
  ASSUME NEW p \in Proposal, NEW kind, proposal'[p].validity = "resolved", outcome'[p] # NoRow,
         outcome'[p].outcome = kind
  PROVE  PhaseOf(p)' = kind
  BY DEF PhaseOf, KeyHeld, NoProposal

----------------------------------------------------------------------------
(* The steps that move a proposal *)

LEMMA RecordProposalMaps ==
  ASSUME IInv, NEW r \in Request, RecordProposal(r), NEW p \in Proposal, p = req[r].prop
  PROVE  Maps /\ CancelsOnCurrentFacts
  <1>1. RequestAgrees(r) /\ TypeOK /\ RowsAgree(p)
    BY DEF IInv
  <1>2. req[r].pc \in Running /\ req[r].pc = "recordProposal"
    BY DEF RecordProposal, Running
  <1>3. proposal[p] = NoProposal
    BY <1>1, <1>2, Serving DEF AnswerAgrees, ProposeAgrees, Writing
  <1>4. decision[p] = "none" /\ ~KeyHeld(p) /\ PhaseOf(p) = "absent"
    BY <1>1, <1>3, Phases DEF RowsAgree, NoProposal
  <1>5. /\ UNCHANGED <<order, decision, outcome>>
        /\ \A q \in Proposal \ {p} : proposal'[q] = proposal[q]
        /\ proposal'[p].validity = "resolved"
    BY <1>1 DEF RecordProposal, InsertProposal, TypeOK, RepoTypeOK
  <1>6. PhaseOf(p)' = "recorded"
    BY <1>4, <1>5 DEF PhaseOf, KeyHeld, NoProposal
  <1>7. <<PhaseOf(p), "recorded">> \in Lifecycle!LegalMoves
    BY <1>4 DEF Lifecycle!LegalMoves
  <1>8. QED
    BY <1>5, <1>6, <1>7, MoveMaps

LEMMA RecordDecisionMaps ==
  ASSUME IInv, NEW r \in Request, RecordDecision(r), NEW p \in Proposal, p = req[r].prop
  PROVE  Maps /\ CancelsOnCurrentFacts
  <1>1. RequestAgrees(r) /\ TypeOK /\ RowsAgree(p)
    BY DEF IInv
  <1>2. req[r].pc \in Running /\ req[r].pc = "recordDecision"
    BY DEF RecordDecision, Running
  <1>3. UNCHANGED <<order, proposal, outcome>>
    BY DEF RecordDecision
  <1>4. CASE req[r].op = "propose"
    <2>1. /\ decision[p] = "none" /\ proposal[p].validity = "resolved"
          /\ req[r].ruling \in Ruling
      BY <1>1, <1>2, <1>4 DEF RequestAgrees, ProposeAgrees
    <2>2. /\ decision'[p] = req[r].ruling
          /\ \A q \in Proposal \ {p} : decision'[q] = decision[q]
      BY <1>1, <1>4 DEF RecordDecision, TypeOK, RepoTypeOK
    <2>3. ~KeyHeld(p) /\ PhaseOf(p) = "recorded"
      BY <1>1, <2>1, Phases DEF RowsAgree
    <2>4. PhaseOf(p)' \in {"offered", "barred"}
      BY <1>3, <2>1, <2>2, <2>3 DEF PhaseOf, KeyHeld, NoProposal, Ruling
    <2>5. <<PhaseOf(p), PhaseOf(p)'>> \in Lifecycle!LegalMoves
      BY <2>3, <2>4 DEF Lifecycle!LegalMoves
    <2>6. QED
      BY <1>3, <2>2, <2>5, MoveMaps
  <1>5. CASE req[r].op # "propose"
    <2>1. UNCHANGED decision
      BY <1>5 DEF RecordDecision
    <2>2. QED
      BY <1>3, <2>1, StutterMaps DEF CancelledStands
  <1>6. QED
    BY <1>4, <1>5

(* What the abstract life cycle sees of a recorded outcome. *)
LEMMA RecordedOutcome ==
  ASSUME TypeOK, NEW p \in Proposal, NEW kind \in OutcomeKind, NEW ruling,
         InsertOutcome(p, kind, ruling)
  PROVE  /\ outcome'[p] # NoRow /\ outcome'[p].outcome = kind
         /\ \A q \in Proposal \ {p} : outcome'[q] = outcome[q]
  BY InsertedOutcome

(* A handler records the outcome it is there to record. *)
LEMMA RecordMaps ==
  ASSUME IInv, NEW r \in Request, req[r].pc \in Writing, NEW p \in Proposal, p = req[r].prop,
         ~KeyHeld(p), req[r].want # "malformed", UNCHANGED <<order, proposal, decision>>,
         InsertOutcome(p, req[r].want, req[r].ruling)
  PROVE  Maps /\ CancelsOnCurrentFacts
  <1> DEFINE kind == req[r].want
  <1>1. /\ req[r] \in RequestState /\ RequestAgrees(r) /\ TypeOK /\ RowsAgree(p)
    BY DEF IInv, TypeOK, ServiceTypeOK
  <1>2. req[r].pc \in Running
    BY DEF Running, Writing
  <1>3. kind \in OutcomeKind \ {"executed"} /\ req[r].ruling \in Ruling
    BY <1>1, WritingOutcome
  <1>4. /\ outcome'[p] # NoRow /\ outcome'[p].outcome = kind
        /\ \A q \in Proposal \ {p} : outcome'[q] = outcome[q]
    <2>1. kind \in OutcomeKind
      BY <1>3
    <2>2. QED
      BY <1>1, <2>1, RecordedOutcome
  <1>5. \/ /\ kind \in AtProposal /\ decision[p] \in Ruling \ {"confirm-required"}
        \/ /\ kind \in {"rejected_by_customer", "refused_at_execution", "failed"}
           /\ decision[p] = "confirm-required"
    <2>1. CASE req[r].op = "propose" /\ ProposeAgrees(r)
      BY <2>1, SMTT(30) DEF ProposeAgrees, RefusalKind, AtProposal
    <2>2. CASE req[r].op \in {"confirm", "reject"} /\ AnswerAgrees(r)
      BY <1>3, <2>2 DEF AnswerAgrees, Writing
    <2>3. QED
      BY <1>1, <1>2, <2>1, <2>2, Serving
  <1>6. proposal[p].validity = "resolved"
    BY <1>1, <1>5 DEF RowsAgree, Ruling
  <1>7. PhaseOf(p)' = kind
    BY <1>4, <1>6, OutcomePhase
  <1>8. PhaseOf(p) = IF decision[p] = "confirm-required" THEN "offered" ELSE "barred"
    BY <1>5, <1>6, Phases DEF Ruling
  <1>9. <<PhaseOf(p), kind>> \in Lifecycle!LegalMoves
    BY <1>5, <1>8 DEF Lifecycle!LegalMoves, AtProposal
  <1>10. QED
    BY <1>4, <1>7, <1>9, MoveMaps

LEMMA InsertOutcomeAloneMaps ==
  ASSUME IInv, NEW r \in Request, InsertOutcomeAlone(r), NEW p \in Proposal, p = req[r].prop
  PROVE  Maps /\ CancelsOnCurrentFacts
  <1>1. req[r].pc \in Writing /\ req[r].want # "malformed"
    BY DEF InsertOutcomeAlone, Writing, IInv, RequestAgrees, WriterFits
  <1>2. UNCHANGED <<order, proposal, decision>>
    BY DEF InsertOutcomeAlone
  <1>3. CASE UNCHANGED outcome
    BY <1>2, <1>3, StutterMaps DEF CancelledStands
  <1>4. CASE ~KeyHeld(p) /\ InsertOutcome(p, req[r].want, req[r].ruling)
    BY <1>1, <1>2, <1>4, RecordMaps
  <1>5. QED
    BY <1>3, <1>4 DEF InsertOutcomeAlone

LEMMA CommitWriteMaps ==
  ASSUME IInv, NEW r \in Request, CommitWrite(r), NEW p \in Proposal, p = req[r].prop
  PROVE  Maps /\ CancelsOnCurrentFacts
  <1>1. /\ req[r] \in RequestState /\ RequestAgrees(r) /\ TypeOK /\ RowsAgree(p)
    BY DEF IInv, TypeOK, ServiceTypeOK
  <1>2. req[r].pc \in Running /\ req[r].pc \in Writing
    BY DEF CommitWrite, Running, Writing
  <1>3. UNCHANGED <<order, decision>>
    BY DEF CommitWrite
  <1>4. CASE req[r].want # "malformed"
    <2>1. ~KeyHeld(p) /\ UNCHANGED proposal /\ InsertOutcome(p, req[r].want, req[r].ruling)
      BY <1>4 DEF CommitWrite
    <2>2. QED
      BY <1>2, <1>3, <1>4, <2>1, RecordMaps
  <1>5. CASE req[r].want = "malformed"
    <2>1. InsertProposal(p, "malformed", NoOrder) /\ UNCHANGED outcome
      BY <1>5 DEF CommitWrite
    <2>2. proposal[p] = NoProposal
      <3>1. req[r].op = "propose" /\ ProposeAgrees(r)
        BY <1>1, <1>2, <1>5, WritingOutcome DEF RequestAgrees, OutcomeKind
      <3>2. QED
        BY <1>2, <1>5, <3>1 DEF ProposeAgrees
    <2>3. /\ proposal'[p].validity = "malformed"
          /\ \A q \in Proposal \ {p} : proposal'[q] = proposal[q]
      BY <1>1, <2>1 DEF InsertProposal, TypeOK, RepoTypeOK
    <2>4. PhaseOf(p) = "absent" /\ PhaseOf(p)' = "malformed"
      BY <2>2, <2>3, Phases DEF PhaseOf, NoProposal
    <2>5. <<PhaseOf(p), "malformed">> \in Lifecycle!LegalMoves
      BY <2>4 DEF Lifecycle!LegalMoves
    <2>6. QED
      BY <1>3, <2>1, <2>3, <2>4, <2>5, MoveMaps
  <1>6. QED
    BY <1>4, <1>5

LEMMA RecordExpiryMaps ==
  ASSUME IInv, NEW s \in Sweeper, RecordExpiry(s)
  PROVE  Maps /\ CancelsOnCurrentFacts
  <1>1. UNCHANGED <<order, proposal, decision>>
    BY DEF RecordExpiry
  <1>2. CASE UNCHANGED outcome
    BY <1>1, <1>2, StutterMaps DEF CancelledStands
  <1>3. ASSUME NEW p \in Proposal, p = sweep[s].current, ~KeyHeld(p),
               InsertOutcome(p, "expired", decision[p])
        PROVE  Maps /\ CancelsOnCurrentFacts
    <2>1. TypeOK /\ RowsAgree(p) /\ decision[p] = "confirm-required"
      BY <1>3 DEF IInv, SweepAgrees, RecordExpiry
    <2>2. /\ outcome'[p] # NoRow /\ outcome'[p].outcome = "expired"
          /\ \A q \in Proposal \ {p} : outcome'[q] = outcome[q]
      BY <1>3, <2>1, InsertedOutcome DEF OutcomeKind
    <2>3. proposal[p].validity = "resolved"
      BY <2>1 DEF RowsAgree
    <2>4. PhaseOf(p) = "offered" /\ PhaseOf(p)' = "expired"
      BY <1>1, <1>3, <2>1, <2>2, <2>3, Phases, OutcomePhase
    <2>5. <<PhaseOf(p), "expired">> \in Lifecycle!LegalMoves
      BY <2>4 DEF Lifecycle!LegalMoves
    <2>6. QED
      BY <1>1, <2>2, <2>4, <2>5, MoveMaps
  <1>4. sweep[s].current \in Proposal
    BY DEF IInv, SweepAgrees, RecordExpiry
  <1>5. QED
    BY <1>2, <1>3, <1>4 DEF RecordExpiry

(* The execution: the order and the phase change in one step, and the row of the
   re-check that ruled on the order as it is is on record. *)
LEMMA ExecuteCancellationMaps ==
  ASSUME IInv, NEW r \in Request, ExecuteCancellation(r), NEW p \in Proposal, p = req[r].prop
  PROVE  Maps /\ CancelsOnCurrentFacts
  <1> DEFINE o == req[r].order
  <1>1. /\ req[r] \in RequestState /\ RequestAgrees(r) /\ TypeOK
        /\ \A q \in Proposal : RowsAgree(q)
    BY DEF IInv, TypeOK, ServiceTypeOK
  <1>2. req[r].pc \in Running /\ req[r].pc = "executeCancellation"
    BY DEF ExecuteCancellation, Running
  <1>3. /\ req[r].op = "confirm" /\ AnswerAgrees(r) /\ req[r].ruling = "confirm-required"
        /\ decision[p] = "confirm-required" /\ o = proposal[p].order /\ o \in Order
        /\ req[r].snap.status # "cancelled"
        /\ [status |-> req[r].snap.status, ruling |-> "confirm-required"] \in rechecks[p]
    BY <1>1, <1>2, Serving, Confirming, Executing
  <1>4. UNCHANGED <<proposal, decision>>
    BY DEF ExecuteCancellation
  <1>5. CASE UNCHANGED <<order, outcome>>
    BY <1>4, <1>5, StutterMaps DEF CancelledStands
  <1>6. CASE /\ ~KeyHeld(p) /\ ConditionalCancelFilter(o, req[r].snap) /\ CancelOrder(o)
             /\ InsertOutcome(p, "executed", req[r].ruling)
    <2>1. /\ outcome'[p] # NoRow /\ outcome'[p].outcome = "executed"
          /\ \A q \in Proposal \ {p} : outcome'[q] = outcome[q]
      BY <1>1, <1>6, RecordedOutcome DEF OutcomeKind
    <2>2. order[o].status = req[r].snap.status
      BY <1>6 DEF ConditionalCancelFilter
    <2>3. /\ order'[o].status = "cancelled"
          /\ \A u \in Order \ {o} : order'[u] = order[u]
      BY <1>1, <1>3, <1>6 DEF CancelOrder, TypeOK, RepoTypeOK
    <2>4. PhaseOf(p) = "offered" /\ PhaseOf(p)' = "executed"
      <3>1. proposal[p].validity = "resolved"
        BY <1>1, <1>3 DEF RowsAgree
      <3>2. QED
        BY <1>3, <1>4, <1>6, <2>1, <3>1, Phases, OutcomePhase
    <2>5. \A q \in Proposal \ {p} : PhaseOf(q)' = PhaseOf(q)
      BY <1>4, <2>1, PhaseStands
    <2>6. CancelsOnCurrentFacts
      BY <1>3, <2>1, <2>2, <2>3 DEF CancelsOnCurrentFacts
    <2>7. PICK u \in Order : u = o
      BY <1>3
    <2>8. Lifecycle!Execute(p, u)
      <3>1. [q \in Proposal |-> PhaseOf(q)'] =
              [[q \in Proposal |-> PhaseOf(q)] EXCEPT ![p] = "executed"]
        BY <2>4, <2>5
      <3>2. {v \in Order : order'[v].status = "cancelled"} =
              {v \in Order : order[v].status = "cancelled"} \union {u}
        BY <2>3, <2>7
      <3>3. u \notin {v \in Order : order[v].status = "cancelled"}
        BY <1>3, <2>2, <2>7
      <3>4. QED
        BY <2>4, <3>1, <3>2, <3>3 DEF Lifecycle!Execute
    <2>9. QED
      BY <2>6, <2>8 DEF Maps, Lifecycle!Next
  <1>7. QED
    BY <1>5, <1>6 DEF ExecuteCancellation

----------------------------------------------------------------------------
(* Every step *)

LEMMA RequestMaps ==
  ASSUME IInv, NEW r \in Request, RequestNext(r)
  PROVE  Maps /\ CancelsOnCurrentFacts
  <1>1. req[r].pc \in Running => req[r].prop \in Proposal
    BY DEF IInv, RequestAgrees
  <1>2. CASE UNCHANGED dbVars
    BY <1>2, StutterMaps DEF dbVars, CancelledStands
  <1>3. CASE RecordProposal(r)
    BY <1>1, <1>3, RecordProposalMaps DEF RecordProposal, Running
  <1>4. CASE RecordDecision(r)
    BY <1>1, <1>4, RecordDecisionMaps DEF RecordDecision, Running
  <1>5. CASE ExecuteCancellation(r)
    BY <1>1, <1>5, ExecuteCancellationMaps DEF ExecuteCancellation, Running
  <1>6. CASE InsertOutcomeAlone(r)
    BY <1>1, <1>6, InsertOutcomeAloneMaps DEF InsertOutcomeAlone, Running
  <1>7. CASE CommitWrite(r)
    BY <1>1, <1>7, CommitWriteMaps DEF CommitWrite, Running
  <1>8. CASE \/ \E p \in Proposal : StartPropose(r, p)
             \/ \E p \in Proposal, op \in {"confirm", "reject"} : StartAnswer(r, p, op)
             \/ FindCustomerOrder(r) \/ LoadPending(r) \/ FindOrderById(r) \/ LoadRules(r)
             \/ ActOnDecision(r) \/ FindWinner(r) \/ BeginWrite(r) \/ RerunWrite(r)
             \/ LoseWrite(r) \/ FindExisting(r) \/ Respond(r) \/ CallFails(r) \/ Crash(r)
    <2>1. UNCHANGED dbVars
      BY <1>8
      DEF StartPropose, StartAnswer, FindCustomerOrder, LoadPending, FindOrderById, LoadRules,
          ActOnDecision, FindWinner, BeginWrite, RerunWrite, LoseWrite, FindExisting, Respond,
          CallFails, Crash
    <2>2. QED
      BY <1>2, <2>1
  <1>9. QED
    BY <1>3, <1>4, <1>5, <1>6, <1>7, <1>8 DEF RequestNext, RequestStep

LEMMA SweepMaps ==
  ASSUME IInv, SweepNext
  PROVE  Maps /\ CancelsOnCurrentFacts
  <1>1. CASE UNCHANGED dbVars
    BY <1>1, StutterMaps DEF dbVars, CancelledStands
  <1>2. CASE \E s \in Sweeper : RecordExpiry(s)
    BY <1>2, RecordExpiryMaps
  <1>3. QED
    BY <1>1, <1>2 DEF SweepNext, SweepStep, FindPendingProposals, FindProposalDecision,
       SweepEnds, SweepFails, SweepStops, Age

LEMMA OtherWritersMap ==
  ASSUME IInv, OtherWriters
  PROVE  Maps /\ CancelsOnCurrentFacts
  <1>1. UNCHANGED <<proposal, decision, outcome>>
    BY DEF OtherWriters, ShippingUpdate, RulingsChange, TicketCloses
  <1>2. CancelledStands
    <2>1. CASE UNCHANGED order
      BY <2>1 DEF CancelledStands
    <2>2. CASE \E o \in Order : ShippingUpdate(o)
      <3>1. PICK o \in Order, move \in ShippingMoves, bump \in {0, 1} :
              /\ order[o].status = move[1]
              /\ order' = [order EXCEPT ![o] =
                   [status |-> move[2], version |-> order[o].version + bump]]
        BY <2>2 DEF ShippingUpdate
      <3>2. move[1] # "cancelled" /\ move[2] # "cancelled"
        BY ShippingMovesAssumption, RuleSetsAssumption
      <3>3. QED
        BY <3>1, <3>2 DEF IInv, TypeOK, RepoTypeOK, CancelledStands
    <2>3. QED
      BY <2>1, <2>2 DEF OtherWriters, RulingsChange, TicketCloses
  <1>3. QED
    BY <1>1, <1>2, StutterMaps

LEMMA NextMaps == IInv /\ [Next]_vars => Maps /\ [CancelsOnCurrentFacts]_vars
  <1> SUFFICES ASSUME IInv, [Next]_vars PROVE Maps /\ [CancelsOnCurrentFacts]_vars
    OBVIOUS
  <1>1. CASE \E r \in Request : RequestNext(r)
    BY <1>1, RequestMaps
  <1>2. CASE SweepNext
    BY <1>2, SweepMaps
  <1>3. CASE OtherWriters
    BY <1>3, OtherWritersMap
  <1>4. CASE UNCHANGED vars
    BY <1>4, StutterMaps DEF vars, dbVars, CancelledStands
  <1>5. QED
    BY <1>1, <1>2, <1>3, <1>4 DEF Next

LEMMA InitMaps == Init => Lifecycle!Init
  <1> SUFFICES ASSUME Init PROVE Lifecycle!Init
    OBVIOUS
  <1>1. \A p \in Proposal : PhaseOf(p) = IF p \in Asked THEN "offered" ELSE "absent"
    <2>1. PICK target \in [Asked -> Order], at \in [Asked -> 1..Cardinality(Asked)] :
            proposal = [p \in Proposal |->
              IF p \in Asked
              THEN [validity |-> "resolved", order |-> target[p], createdAt |-> at[p]]
              ELSE NoProposal]
      BY DEF Init, RepoInit
    <2>2. \A p \in Proposal :
            /\ outcome[p] = NoRow
            /\ decision[p] = IF p \in Asked THEN "confirm-required" ELSE "none"
      BY DEF Init, RepoInit
    <2>3. QED
      BY <2>1, <2>2 DEF PhaseOf, KeyHeld, NoProposal
  <1>2. \A o \in Order : order[o].status # "cancelled"
    BY RuleSetsAssumption DEF Init, RepoInit
  <1>3. QED
    BY <1>1, <1>2 DEF Lifecycle!Init

----------------------------------------------------------------------------
(* The theorems about steps: the action path implements the proposal's life cycle,
   and never cancels an order on facts nobody ruled on. *)

(* A proposal takes only the life cycle's moves, one a step, whoever races: confirm,
   reject, the sweep and the retries of recordOutcome included; the order is cancelled
   in the step in which the proposal is executed. *)
THEOREM LifecycleImplemented == Spec => LifecycleSpec
  <1>1. IInv /\ [Next]_vars => [Lifecycle!Next]_(Lifecycle!vars)
    BY NextMaps DEF Maps
  <1>2. QED
    BY <1>1, InitMaps, Invariance, PTL DEF Spec, LifecycleSpec, Lifecycle!Spec

(* executeCancellation never cancels an order whose status no recorded execution-time
   decision of the proposal it executes ruled cancellable. *)
THEOREM CancelledOnlyOnCurrentFacts == Spec => CancelledOnCurrentFacts
  <1>1. IInv /\ [Next]_vars => [CancelsOnCurrentFacts]_vars
    BY NextMaps
  <1>2. QED
    BY <1>1, Invariance, PTL DEF Spec, CancelledOnCurrentFacts
=============================================================================
