------------------------ MODULE ActionService_proofs ------------------------
(* Lemmas about a handler's own changes of state, on which the theorems about the
   action path rest. *)
EXTENDS ActionService, TLAPS

(* What each of a handler's changes of state does to it: the fields it sets, and
   that it leaves the others alone. *)

LEMMA NewRequestType == NewRequest \in RequestState
  BY DEF NewRequest, RequestState, OpType, PcType, ProposalRef, OrderRef, Snapshot, Status,
         RulingRef, WantType, OutcomeRow, NoRow, ReplyType, NoReply, Reply, ReplyKind

LEMMA BeginsFields ==
  ASSUME NEW op \in OpType, NEW p \in ProposalRef, NEW pc \in PcType
  PROVE  /\ Begins(op, p, pc) \in RequestState
         /\ Begins(op, p, pc).op = op /\ Begins(op, p, pc).prop = p
         /\ Begins(op, p, pc).pc = pc /\ Begins(op, p, pc).want = "none"
         /\ Begins(op, p, pc).reply = NoReply
  BY NewRequestType DEF Begins, RequestState, NewRequest

LEMMA AtFields ==
  ASSUME NEW q \in RequestState, NEW pc \in PcType
  PROVE  /\ At(q, pc) \in RequestState
         /\ At(q, pc).pc = pc /\ At(q, pc).op = q.op /\ At(q, pc).prop = q.prop
         /\ At(q, pc).order = q.order /\ At(q, pc).snap = q.snap
         /\ At(q, pc).ruling = q.ruling /\ At(q, pc).want = q.want
         /\ At(q, pc).retried = q.retried /\ At(q, pc).result = q.result
         /\ At(q, pc).duplicate = q.duplicate /\ At(q, pc).reply = q.reply
  BY DEF At, RequestState

LEMMA TargetsFields ==
  ASSUME NEW q \in RequestState, NEW o \in OrderRef, NEW pc \in PcType
  PROVE  /\ Targets(q, o, pc) \in RequestState
         /\ Targets(q, o, pc).order = o /\ Targets(q, o, pc).pc = pc
         /\ Targets(q, o, pc).op = q.op /\ Targets(q, o, pc).prop = q.prop
         /\ Targets(q, o, pc).snap = q.snap /\ Targets(q, o, pc).ruling = q.ruling
         /\ Targets(q, o, pc).want = q.want /\ Targets(q, o, pc).retried = q.retried
         /\ Targets(q, o, pc).result = q.result
         /\ Targets(q, o, pc).duplicate = q.duplicate /\ Targets(q, o, pc).reply = q.reply
  BY DEF Targets, RequestState

LEMMA SeesFields ==
  ASSUME NEW q \in RequestState, NEW row \in Snapshot, NEW pc \in PcType
  PROVE  /\ Sees(q, row, pc) \in RequestState
         /\ Sees(q, row, pc).snap = row /\ Sees(q, row, pc).pc = pc
         /\ Sees(q, row, pc).op = q.op /\ Sees(q, row, pc).prop = q.prop
         /\ Sees(q, row, pc).order = q.order /\ Sees(q, row, pc).ruling = q.ruling
         /\ Sees(q, row, pc).want = q.want /\ Sees(q, row, pc).retried = q.retried
         /\ Sees(q, row, pc).result = q.result /\ Sees(q, row, pc).duplicate = q.duplicate
         /\ Sees(q, row, pc).reply = q.reply
  BY DEF Sees, RequestState

LEMMA RuledFields ==
  ASSUME NEW q \in RequestState, NEW says \in RulingRef, NEW pc \in PcType
  PROVE  /\ Ruled(q, says, pc) \in RequestState
         /\ Ruled(q, says, pc).ruling = says /\ Ruled(q, says, pc).pc = pc
         /\ Ruled(q, says, pc).op = q.op /\ Ruled(q, says, pc).prop = q.prop
         /\ Ruled(q, says, pc).order = q.order /\ Ruled(q, says, pc).snap = q.snap
         /\ Ruled(q, says, pc).want = q.want /\ Ruled(q, says, pc).retried = q.retried
         /\ Ruled(q, says, pc).result = q.result
         /\ Ruled(q, says, pc).duplicate = q.duplicate
         /\ Ruled(q, says, pc).reply = q.reply
  BY DEF Ruled, RequestState

LEMMA WantsFields ==
  ASSUME NEW q \in RequestState, NEW want \in WantType, NEW pc \in PcType
  PROVE  /\ Wants(q, want, pc) \in RequestState
         /\ Wants(q, want, pc).want = want /\ Wants(q, want, pc).pc = pc
         /\ Wants(q, want, pc).op = q.op /\ Wants(q, want, pc).prop = q.prop
         /\ Wants(q, want, pc).order = q.order /\ Wants(q, want, pc).snap = q.snap
         /\ Wants(q, want, pc).ruling = q.ruling /\ Wants(q, want, pc).retried = q.retried
         /\ Wants(q, want, pc).result = q.result
         /\ Wants(q, want, pc).duplicate = q.duplicate
         /\ Wants(q, want, pc).reply = q.reply
  BY DEF Wants, RequestState

LEMMA RetriesFields ==
  ASSUME NEW q \in RequestState, NEW pc \in PcType
  PROVE  /\ Retries(q, pc) \in RequestState
         /\ Retries(q, pc).pc = pc /\ Retries(q, pc).op = q.op
         /\ Retries(q, pc).prop = q.prop /\ Retries(q, pc).order = q.order
         /\ Retries(q, pc).snap = q.snap /\ Retries(q, pc).ruling = q.ruling
         /\ Retries(q, pc).want = q.want /\ Retries(q, pc).result = q.result
         /\ Retries(q, pc).duplicate = q.duplicate /\ Retries(q, pc).reply = q.reply
  BY DEF Retries, RequestState

LEMMA SettlesFields ==
  ASSUME NEW q \in RequestState, NEW want \in WantType, NEW ruling \in RulingRef,
         NEW pc \in PcType
  PROVE  /\ Settles(q, want, ruling, pc) \in RequestState
         /\ Settles(q, want, ruling, pc).want = want
         /\ Settles(q, want, ruling, pc).ruling = ruling
         /\ Settles(q, want, ruling, pc).pc = pc
         /\ Settles(q, want, ruling, pc).op = q.op
         /\ Settles(q, want, ruling, pc).prop = q.prop
         /\ Settles(q, want, ruling, pc).reply = NoReply
  <1> DEFINE b == Begins(q.op, q.prop, pc)
             w == Wants(b, want, pc)
  <1>1. q.op \in OpType /\ q.prop \in ProposalRef
    BY DEF RequestState
  <1>2. b \in RequestState /\ b.op = q.op /\ b.prop = q.prop /\ b.reply = NoReply
    BY <1>1, BeginsFields
  <1>3. Settles(q, want, ruling, pc) = Ruled(w, ruling, pc)
    BY DEF Settles
  <1> HIDE DEF b
  <1>4. /\ w \in RequestState /\ w.want = want
        /\ w.op = b.op /\ w.prop = b.prop /\ w.reply = b.reply
    BY <1>2, WantsFields
  <1> HIDE DEF w
  <1>5. QED
    BY <1>2, <1>3, <1>4, RuledFields

LEMMA GivenFields ==
  ASSUME NEW q \in RequestState, NEW row \in OutcomeRow, NEW duplicate \in BOOLEAN
  PROVE  /\ Given(q, row, duplicate) \in RequestState
         /\ Given(q, row, duplicate).result = row
         /\ Given(q, row, duplicate).duplicate = duplicate
         /\ Given(q, row, duplicate).pc = "answer"
         /\ Given(q, row, duplicate).want = q.want
         /\ Given(q, row, duplicate).ruling = q.ruling
         /\ Given(q, row, duplicate).op = q.op /\ Given(q, row, duplicate).prop = q.prop
         /\ Given(q, row, duplicate).reply = NoReply
  <1> DEFINE b == Settles(q, q.want, q.ruling, "answer")
  <1>1. q.want \in WantType /\ q.ruling \in RulingRef
    BY DEF RequestState
  <1>2. "answer" \in PcType
    BY DEF PcType, Running
  <1>3. /\ b \in RequestState /\ b.pc = "answer"
        /\ b.want = q.want /\ b.ruling = q.ruling
        /\ b.op = q.op /\ b.prop = q.prop /\ b.reply = NoReply
    BY <1>1, <1>2, SettlesFields
  <1> DEFINE n == [b EXCEPT !.result = row, !.duplicate = duplicate]
  <1>4. Given(q, row, duplicate) = n
    BY DEF Given
  <1> HIDE DEF b
  <1>5. /\ n \in RequestState
        /\ n.result = row /\ n.duplicate = duplicate /\ n.pc = b.pc
        /\ n.want = b.want /\ n.ruling = b.ruling
        /\ n.op = b.op /\ n.prop = b.prop /\ n.reply = b.reply
    BY <1>3 DEF RequestState
  <1> HIDE DEF n
  <1>6. QED
    BY <1>3, <1>4, <1>5

LEMMA FinishedFields ==
  ASSUME NEW q \in RequestState, NEW pc \in PcType, NEW reply \in ReplyType
  PROVE  /\ Finished(q, pc, reply) \in RequestState
         /\ Finished(q, pc, reply).reply = reply /\ Finished(q, pc, reply).pc = pc
         /\ Finished(q, pc, reply).prop = q.prop
         /\ Finished(q, pc, reply).op = "none" /\ Finished(q, pc, reply).want = "none"
  <1> DEFINE b == Begins("none", q.prop, pc)
  <1>1. q.prop \in ProposalRef
    BY DEF RequestState
  <1>2. "none" \in OpType
    BY DEF OpType
  <1>3. /\ b \in RequestState /\ b.op = "none" /\ b.prop = q.prop /\ b.pc = pc
        /\ b.want = "none"
    BY <1>1, <1>2, BeginsFields
  <1> DEFINE n == [b EXCEPT !.reply = reply]
  <1>4. Finished(q, pc, reply) = n
    BY DEF Finished
  <1> HIDE DEF b
  <1>5. /\ n \in RequestState
        /\ n.reply = reply /\ n.pc = b.pc /\ n.prop = b.prop /\ n.op = b.op /\ n.want = b.want
    BY <1>3 DEF RequestState
  <1> HIDE DEF n
  <1>6. QED
    BY <1>3, <1>4, <1>5

----------------------------------------------------------------------------
(* The same of a step that one request takes: it ends up with those fields, and
   every other request stays as it is. *)

OthersKeep(r) == \A s \in Request \ {r} : req'[s] = req[s]

LEMMA BecomeStep ==
  ASSUME req \in [Request -> RequestState], NEW r \in Request, NEW n \in RequestState,
         Become(r, n)
  PROVE  req' \in [Request -> RequestState] /\ req'[r] = n /\ OthersKeep(r)
  BY DEF Become, OthersKeep

LEMMA GotoStep ==
  ASSUME req \in [Request -> RequestState], NEW r \in Request, NEW pc \in PcType,
         Goto(r, pc)
  PROVE  /\ req' \in [Request -> RequestState] /\ OthersKeep(r)
         /\ req'[r].pc = pc /\ req'[r].op = req[r].op /\ req'[r].prop = req[r].prop
         /\ req'[r].order = req[r].order /\ req'[r].snap = req[r].snap
         /\ req'[r].ruling = req[r].ruling /\ req'[r].want = req[r].want
         /\ req'[r].result = req[r].result /\ req'[r].duplicate = req[r].duplicate
         /\ req'[r].reply = req[r].reply
  BY BecomeStep, AtFields DEF Goto

LEMMA FinishStep ==
  ASSUME req \in [Request -> RequestState], NEW r \in Request, NEW reply \in ReplyType,
         Finish(r, reply)
  PROVE  /\ req' \in [Request -> RequestState] /\ OthersKeep(r)
         /\ req'[r].pc = "done" /\ req'[r].prop = req[r].prop /\ req'[r].op = "none"
         /\ req'[r].want = "none" /\ req'[r].reply = reply
  <1>1. "done" \in PcType
    BY DEF PcType
  <1>2. QED
    BY <1>1, BecomeStep, FinishedFields DEF Finish

LEMMA RecordedStep ==
  ASSUME req \in [Request -> RequestState], NEW r \in Request, NEW row \in OutcomeRow,
         NEW duplicate \in BOOLEAN, Recorded(r, row, duplicate)
  PROVE  /\ req' \in [Request -> RequestState] /\ OthersKeep(r)
         /\ req'[r].pc = "answer" /\ req'[r].op = req[r].op /\ req'[r].prop = req[r].prop
         /\ req'[r].ruling = req[r].ruling /\ req'[r].want = req[r].want
         /\ req'[r].result = row /\ req'[r].duplicate = duplicate /\ req'[r].reply = NoReply
  BY BecomeStep, GivenFields DEF Recorded

LEMMA SettlesStep ==
  ASSUME req \in [Request -> RequestState], NEW r \in Request, NEW want \in WantType,
         NEW ruling \in RulingRef, NEW pc \in PcType,
         Become(r, Settles(req[r], want, ruling, pc))
  PROVE  /\ req' \in [Request -> RequestState] /\ OthersKeep(r)
         /\ req'[r].pc = pc /\ req'[r].op = req[r].op /\ req'[r].prop = req[r].prop
         /\ req'[r].ruling = ruling /\ req'[r].want = want /\ req'[r].reply = NoReply
  BY BecomeStep, SettlesFields

LEMMA WantsStep ==
  ASSUME req \in [Request -> RequestState], NEW r \in Request, NEW want \in WantType,
         NEW pc \in PcType, Become(r, Wants(req[r], want, pc))
  PROVE  /\ req' \in [Request -> RequestState] /\ OthersKeep(r)
         /\ req'[r].pc = pc /\ req'[r].op = req[r].op /\ req'[r].prop = req[r].prop
         /\ req'[r].order = req[r].order /\ req'[r].snap = req[r].snap
         /\ req'[r].ruling = req[r].ruling /\ req'[r].want = want
         /\ req'[r].reply = req[r].reply
  BY BecomeStep, WantsFields

LEMMA RuledStep ==
  ASSUME req \in [Request -> RequestState], NEW r \in Request, NEW says \in RulingRef,
         NEW pc \in PcType, Become(r, Ruled(req[r], says, pc))
  PROVE  /\ req' \in [Request -> RequestState] /\ OthersKeep(r)
         /\ req'[r].pc = pc /\ req'[r].op = req[r].op /\ req'[r].prop = req[r].prop
         /\ req'[r].order = req[r].order /\ req'[r].snap = req[r].snap
         /\ req'[r].ruling = says /\ req'[r].want = req[r].want
         /\ req'[r].reply = req[r].reply
  BY BecomeStep, RuledFields

LEMMA SeesStep ==
  ASSUME req \in [Request -> RequestState], NEW r \in Request, NEW row \in Snapshot,
         NEW pc \in PcType, Become(r, Sees(req[r], row, pc))
  PROVE  /\ req' \in [Request -> RequestState] /\ OthersKeep(r)
         /\ req'[r].pc = pc /\ req'[r].op = req[r].op /\ req'[r].prop = req[r].prop
         /\ req'[r].order = req[r].order /\ req'[r].snap = row
         /\ req'[r].ruling = req[r].ruling /\ req'[r].want = req[r].want
         /\ req'[r].reply = req[r].reply
  BY BecomeStep, SeesFields

LEMMA TargetsStep ==
  ASSUME req \in [Request -> RequestState], NEW r \in Request, NEW o \in OrderRef,
         NEW pc \in PcType, Become(r, Targets(req[r], o, pc))
  PROVE  /\ req' \in [Request -> RequestState] /\ OthersKeep(r)
         /\ req'[r].pc = pc /\ req'[r].op = req[r].op /\ req'[r].prop = req[r].prop
         /\ req'[r].order = o /\ req'[r].ruling = req[r].ruling
         /\ req'[r].want = req[r].want /\ req'[r].reply = req[r].reply
  BY BecomeStep, TargetsFields

LEMMA RetriesStep ==
  ASSUME req \in [Request -> RequestState], NEW r \in Request, NEW pc \in PcType,
         Become(r, Retries(req[r], pc))
  PROVE  /\ req' \in [Request -> RequestState] /\ OthersKeep(r)
         /\ req'[r].pc = pc /\ req'[r].op = req[r].op /\ req'[r].prop = req[r].prop
         /\ req'[r].order = req[r].order /\ req'[r].snap = req[r].snap
         /\ req'[r].ruling = req[r].ruling /\ req'[r].want = req[r].want
         /\ req'[r].reply = req[r].reply
  BY BecomeStep, RetriesFields

LEMMA BeginsStep ==
  ASSUME req \in [Request -> RequestState], NEW r \in Request, NEW op \in OpType,
         NEW p \in ProposalRef, NEW pc \in PcType, Become(r, Begins(op, p, pc))
  PROVE  /\ req' \in [Request -> RequestState] /\ OthersKeep(r)
         /\ req'[r].pc = pc /\ req'[r].op = op /\ req'[r].prop = p
         /\ req'[r].want = "none" /\ req'[r].reply = NoReply
  BY BecomeStep, BeginsFields

(* A new proposal: malformed, or about an order the customer may have. *)
LEMMA MalformedStep ==
  ASSUME req \in [Request -> RequestState], NEW r \in Request, NEW p \in Proposal,
         Become(r, Wants(Begins("propose", p, "new"), "malformed", "beginWrite"))
  PROVE  /\ req' \in [Request -> RequestState] /\ OthersKeep(r)
         /\ req'[r].pc = "beginWrite" /\ req'[r].op = "propose" /\ req'[r].prop = p
         /\ req'[r].want = "malformed" /\ req'[r].reply = NoReply
  <1> DEFINE b == Begins("propose", p, "new")
  <1>1. /\ "propose" \in OpType /\ p \in ProposalRef /\ "new" \in PcType
        /\ "beginWrite" \in PcType /\ "malformed" \in WantType
    BY DEF OpType, ProposalRef, PcType, Running, WantType
  <1>2. b \in RequestState /\ b.op = "propose" /\ b.prop = p /\ b.reply = NoReply
    BY <1>1, BeginsFields
  <1>3. Become(r, Wants(b, "malformed", "beginWrite"))
    OBVIOUS
  <1> HIDE DEF b
  <1>4. QED
    BY <1>1, <1>2, <1>3, BecomeStep, WantsFields

LEMMA ProposesStep ==
  ASSUME req \in [Request -> RequestState], NEW r \in Request, NEW p \in Proposal,
         NEW o \in OrderRef,
         Become(r, Targets(Begins("propose", p, "new"), o, "findCustomerOrder"))
  PROVE  /\ req' \in [Request -> RequestState] /\ OthersKeep(r)
         /\ req'[r].pc = "findCustomerOrder" /\ req'[r].op = "propose"
         /\ req'[r].prop = p /\ req'[r].order = o
         /\ req'[r].want = "none" /\ req'[r].reply = NoReply
  <1> DEFINE b == Begins("propose", p, "new")
  <1>1. /\ "propose" \in OpType /\ p \in ProposalRef /\ "new" \in PcType
        /\ "findCustomerOrder" \in PcType
    BY DEF OpType, ProposalRef, PcType, Running
  <1>2. /\ b \in RequestState /\ b.op = "propose" /\ b.prop = p /\ b.reply = NoReply
        /\ b.want = "none"
    BY <1>1, BeginsFields
  <1>3. Become(r, Targets(b, o, "findCustomerOrder"))
    OBVIOUS
  <1> HIDE DEF b
  <1>4. QED
    BY <1>1, <1>2, <1>3, BecomeStep, TargetsFields

(* The values the handlers use are of their types. *)
LEMMA PcValues ==
  /\ "findCustomerOrder" \in PcType /\ "recordProposal" \in PcType
  /\ "loadPending" \in PcType /\ "findOrderById" \in PcType /\ "loadRules" \in PcType
  /\ "recordDecision" \in PcType /\ "decided" \in PcType
  /\ "executeCancellation" \in PcType /\ "findWinner" \in PcType
  /\ "insertOutcome" \in PcType /\ "beginWrite" \in PcType /\ "createTicket" \in PcType
  /\ "appendTicket" \in PcType /\ "findExisting" \in PcType
  BY DEF PcType, Running

LEMMA WantValues ==
  /\ "malformed" \in WantType /\ "executed" \in WantType /\ "failed" \in WantType
  /\ "rejected_by_customer" \in WantType /\ "refused_at_execution" \in WantType
  /\ "escalated_at_proposal" \in WantType /\ "refused_at_proposal" \in WantType
  BY DEF WantType, OutcomeKind

LEMMA ReplyValues ==
  ASSUME NEW kind \in ReplyKind, NEW escalated \in BOOLEAN
  PROVE  /\ Reply(kind, escalated) \in ReplyType
         /\ Reply(kind, escalated).kind = kind
         /\ Reply(kind, escalated).escalated = escalated
  BY DEF Reply, ReplyType
=============================================================================
