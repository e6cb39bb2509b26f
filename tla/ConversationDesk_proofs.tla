------------------------ MODULE ConversationDesk_proofs ------------------------
(* What a customer can be shown, for any turns, questions, services, rulings and
   decisions: the inductive invariant of ConversationDeskInv and what follows from it. *)
EXTENDS ConversationDeskInv, SequenceTheorems, FiniteSetTheorems, TLAPS

----------------------------------------------------------------------------
(* Sequences *)

LEMMA Appended ==
  ASSUME NEW S, NEW s \in Seq(S), NEW e \in S
  PROVE  /\ Append(s, e) \in Seq(S) /\ Len(Append(s, e)) = Len(s) + 1
         /\ DOMAIN Append(s, e) = 1..(Len(s) + 1)
         /\ \A i \in 1..Len(s) : Append(s, e)[i] = s[i]
         /\ Append(s, e)[Len(s) + 1] = e
         /\ Range(Append(s, e)) = Range(s) \union {e}
  <1> DEFINE t == Append(s, e)
  <1>1. /\ t \in Seq(S) /\ Len(t) = Len(s) + 1 /\ \A i \in 1..Len(s) : t[i] = s[i]
        /\ t[Len(s) + 1] = e /\ Len(s) \in Nat
    BY AppendProperties, LenProperties
  <1>2. Range(t) = {t[i] : i \in 1..Len(t)} /\ Range(s) = {s[i] : i \in 1..Len(s)}
    BY <1>1, RangeEquality
  <1>3. DOMAIN t = 1..Len(t)
    BY <1>1, LenProperties
  <1> HIDE DEF t
  <1>4. Range(t) = Range(s) \union {e}
    BY <1>1, <1>2
  <1> QED
    BY <1>1, <1>3, <1>4 DEF t

LEMMA Shortened ==
  ASSUME NEW S, NEW s \in Seq(S), s # <<>>
  PROVE  /\ Tail(s) \in Seq(S) /\ Len(s) \in Nat \ {0} /\ Len(Tail(s)) = Len(s) - 1
         /\ DOMAIN s = 1..Len(s) /\ DOMAIN Tail(s) = 1..(Len(s) - 1)
         /\ \A i \in 1..(Len(s) - 1) : Tail(s)[i] = s[i + 1]
         /\ Head(s) = s[1] /\ Head(s) \in S
  BY HeadTailProperties, EmptySeq, LenProperties

(* What is appended after one frame, or two or none, is a sequence again. *)
LEMMA Joined ==
  ASSUME NEW S, NEW s \in Seq(S), NEW t \in Seq(S)
  PROVE  /\ s \o t \in Seq(S) /\ Len(s \o t) = Len(s) + Len(t)
         /\ DOMAIN (s \o t) = 1..(Len(s) + Len(t))
         /\ \A i \in 1..Len(s) : (s \o t)[i] = s[i]
         /\ \A i \in 1..Len(t) : (s \o t)[Len(s) + i] = t[i]
         /\ Len(s) \in Nat /\ Len(t) \in Nat /\ DOMAIN s = 1..Len(s)
  BY ConcatProperties, LenProperties

LEMMA Cut ==
  ASSUME NEW S, NEW s \in Seq(S), NEW n \in 0..Len(s)
  PROVE  /\ SubSeq(s, 1, n) \in Seq(S) /\ Len(SubSeq(s, 1, n)) = n
         /\ DOMAIN SubSeq(s, 1, n) = 1..n
         /\ \A i \in 1..n : SubSeq(s, 1, n)[i] = s[i]
         /\ n \in Nat
  <1>1. Len(s) \in Nat /\ n \in Nat /\ \A i \in 1..n : s[i] \in S
    BY LenProperties, ElementOfSeq
  <1>2. /\ SubSeq(s, 1, n) \in Seq(S) /\ Len(SubSeq(s, 1, n)) = IF 1 <= n THEN n - 1 + 1 ELSE 0
        /\ \A i \in 1..(n - 1 + 1) : SubSeq(s, 1, n)[i] = s[1 + i - 1]
    BY <1>1, SubSeqProperties
  <1>3. DOMAIN SubSeq(s, 1, n) = 1..Len(SubSeq(s, 1, n))
    BY <1>2, LenProperties
  <1> QED
    BY <1>1, <1>2, <1>3

(* A prefix, element by element. *)
LEMMA Prefix ==
  ASSUME NEW S, NEW s \in Seq(S), NEW t \in Seq(S), Agree(s, t)
  PROVE  IsPrefix(s, t)
  <1>1. Len(s) \in Nat /\ Len(t) \in Nat
    BY LenProperties
  <1>2. \A i \in 1..Len(s) : s[i] \in S /\ t[i] \in S
    BY <1>1, ElementOfSeq DEF Agree
  <1>3. SubSeq(s, 1, Len(s)) \in Seq(S) /\ SubSeq(t, 1, Len(s)) \in Seq(S)
    BY <1>1, Cut DEF Agree
  <1>4. /\ Len(SubSeq(s, 1, Len(s))) = Len(s) /\ Len(SubSeq(t, 1, Len(s))) = Len(s)
        /\ \A i \in 1..Len(s) : SubSeq(s, 1, Len(s))[i] = s[i] /\ SubSeq(t, 1, Len(s))[i] = t[i]
    BY <1>1, Cut DEF Agree
  <1>5. SubSeq(s, 1, Len(s)) = SubSeq(t, 1, Len(s))
    BY <1>3, <1>4, SeqEqual DEF Agree
  <1> QED
    BY <1>5 DEF IsPrefix, Agree

----------------------------------------------------------------------------
(* What a service sends *)

(* A sequence made of another's elements one by one. *)
LEMMA Mapped ==
  ASSUME NEW S, NEW T, NEW s \in Seq(S), NEW t, t = [i \in DOMAIN s |-> t[i]],
         \A i \in DOMAIN s : t[i] \in T
  PROVE  t \in Seq(T) /\ Len(t) = Len(s)
  <1>1. Len(s) \in Nat /\ DOMAIN s = 1..Len(s)
    BY LenProperties
  <1>2. t \in [1..Len(s) -> T]
    BY <1>1
  <1>3. t \in Seq(T)
    BY <1>1, <1>2
  <1>4. DOMAIN t = 1..Len(t) /\ Len(t) \in Nat
    BY <1>3, LenProperties
  <1> QED
    BY <1>1, <1>2, <1>3, <1>4

ListsEnd(frames) ==
  \A i \in DOMAIN frames : frames[i].event = "proposal_request" => ListIsFinite(frames[i].raw)

(* What a finite set is mapped to, element by element, is finite. *)
LEMMA MappedSet ==
  ASSUME NEW S, NEW T, IsFiniteSet(S), NEW f \in [S -> T],
         \A t \in T : \E s \in S : f[s] = t
  PROVE  IsFiniteSet(T)
  <1>1. f \in Surjection(S, T)
    BY DEF Surjection
  <1> QED
    BY <1>1, FS_Surjection

(* build_proposal cites the chunks that were found. *)
LEMMA PlanIsFinite ==
  ASSUME NEW question, question.asks \in {"cancel", "nothing"}, IsSequence(question.chunks)
  PROVE  ListIsFinite(PlanTurn(question).proposal)
  <1>1. IsFiniteSet({}) /\ IsFiniteSet(AllOf(question.chunks))
    <2>1. DOMAIN question.chunks = 1..Len(question.chunks) /\ Len(question.chunks) \in Nat
      BY LenProperties DEF IsSequence
    <2>2. IsFiniteSet(DOMAIN question.chunks)
      BY <2>1, FS_Interval
    <2> DEFINE found == [i \in DOMAIN question.chunks |-> question.chunks[i]]
    <2>3. /\ found \in [DOMAIN question.chunks -> AllOf(question.chunks)]
          /\ \A t \in AllOf(question.chunks) : \E s \in DOMAIN question.chunks : found[s] = t
      BY DEF AllOf
    <2> HIDE DEF found
    <2> QED
      BY <2>2, <2>3, FS_EmptySet, MappedSet
  <1>2. ASSUME NEW number, NEW refs, IsFiniteSet(refs)
        PROVE  ListIsFinite(BuildProposal(number, refs))
    <2> DEFINE items == {EvidenceItem(ref) : ref \in refs}
               item == [ref \in refs |-> EvidenceItem(ref)]
    <2>1. item \in [refs -> items] /\ \A t \in items : \E s \in refs : item[s] = t
      OBVIOUS
    <2> HIDE DEF item
    <2>2. IsFiniteSet(items)
      BY <1>2, <2>1, MappedSet
    <2> QED
      BY <2>2 DEF ListIsFinite, BuildProposal
  <1>3. ListIsFinite(NoRaw)
    BY DEF ListIsFinite, NoRaw
  <1>4. \/ PlanTurn(question).proposal = NoRaw
        \/ \E number : \E refs \in {{}, AllOf(question.chunks)} :
             PlanTurn(question).proposal = BuildProposal(number, refs)
    BY DEF PlanTurn
  <1> QED
    BY <1>1, <1>2, <1>3, <1>4

(* plan_turn plans one of three turns, and each of them is a sequence of frames. *)
LEMMA TurnFramesEnd ==
  ASSUME NEW question, question.asks \in {"cancel", "nothing"},
         IsSequence(question.chunks), IsSequence(question.answer)
  PROVE  LET frames == TurnFrames(PlanTurn(question))
         IN  IsSequence(frames) /\ ListsEnd(frames)
  <1> DEFINE plan == PlanTurn(question)
             Frames == {Evidence(c) : c \in Range(plan.citations)}
                         \union {Token(t) : t \in Range(plan.text)}
                         \union {ProposalRequest(plan.proposal)}
             cited == IF plan.action = "none"
                      THEN [i \in DOMAIN plan.citations |-> Evidence(plan.citations[i])] ELSE <<>>
             said == [i \in DOMAIN plan.text |-> Token(plan.text[i])]
             asked == IF plan.action = "propose" THEN <<ProposalRequest(plan.proposal)>> ELSE <<>>
             done == Done(plan.shouldEscalate)
  <1>1. /\ plan.text \in {AskForOrderNumber, CheckingOrder, Refusal, question.answer}
        /\ plan.citations = question.chunks
    BY DEF PlanTurn
  <1>2. IsSequence(plan.text) /\ IsSequence(plan.citations)
    <2>1. /\ AskForOrderNumber \in Seq({"which order?"}) /\ CheckingOrder \in Seq({"checking"})
          /\ Refusal \in Seq({"cannot say"})
      BY DEF AskForOrderNumber, CheckingOrder, Refusal
    <2>2. IsSequence(AskForOrderNumber) /\ IsSequence(CheckingOrder) /\ IsSequence(Refusal)
      BY <2>1, SeqOfRange DEF IsSequence
    <2> QED
      BY <1>1, <2>2
  <1>0. ListIsFinite(plan.proposal)
    BY PlanIsFinite
  <1> HIDE DEF plan
  <1>3. cited \in Seq(Frames) /\ said \in Seq(Frames) /\ asked \in Seq(Frames)
    <2> DEFINE citing == [i \in DOMAIN plan.citations |-> Evidence(plan.citations[i])]
    <2>1. citing \in Seq(Frames)
      <3>1. \A i \in DOMAIN plan.citations : citing[i] \in Frames
        BY DEF Range
      <3>2. citing = [i \in DOMAIN plan.citations |-> citing[i]]
        OBVIOUS
      <3> HIDE DEF citing, Frames
      <3> QED
        BY <1>2, <3>1, <3>2, Mapped DEF IsSequence
    <2> DEFINE saying == [i \in DOMAIN plan.text |-> Token(plan.text[i])]
    <2>2. saying \in Seq(Frames)
      <3>1. \A i \in DOMAIN plan.text : saying[i] \in Frames
        BY DEF Range
      <3>2. saying = [i \in DOMAIN plan.text |-> saying[i]]
        OBVIOUS
      <3> HIDE DEF saying, Frames
      <3> QED
        BY <1>2, <3>1, <3>2, Mapped DEF IsSequence
    <2> DEFINE asking == ProposalRequest(plan.proposal)
    <2>3. <<asking>> \in Seq(Frames)
      <3>1. asking \in Frames
        OBVIOUS
      <3> HIDE DEF asking, Frames
      <3> QED
        BY <3>1
    <2>4. <<>> \in Seq(Frames)
      BY EmptySeq
    <2> HIDE DEF Frames
    <2> QED
      BY <2>1, <2>2, <2>3, <2>4
  <1> DEFINE before == cited \o said \o asked
  <1>4. before \in Seq(Frames)
    BY <1>3, ConcatProperties
  <1>5. TurnFrames(plan) = before \o <<done>>
    BY DEF TurnFrames
  <1>6. \A frame \in Frames : frame.event = "proposal_request" => ListIsFinite(frame.raw)
    BY <1>0 DEF Evidence, Token, ProposalRequest
  <1>12. done.event = "done"
    BY DEF Done
  <1> HIDE DEF before, Frames, done
  <1>7. /\ before \in Seq(Frames \union {done}) /\ <<done>> \in Seq(Frames \union {done})
        /\ Len(<<done>>) = 1
    BY <1>4, SeqMonotonic
  <1>8. /\ before \o <<done>> \in Seq(Frames \union {done})
        /\ Len(before \o <<done>>) = Len(before) + 1 /\ Len(before) \in Nat
        /\ \A i \in 1..Len(before) : (before \o <<done>>)[i] = before[i]
        /\ (before \o <<done>>)[Len(before) + 1] = done
        /\ DOMAIN (before \o <<done>>) = 1..(Len(before) + 1)
    BY <1>7, Joined
  <1>9. \A i \in 1..Len(before) :
          before[i].event = "proposal_request" => ListIsFinite(before[i].raw)
    BY <1>4, <1>6, ElementOfSeq
  <1>11. IsSequence(before \o <<done>>)
    BY <1>8, SeqOfRange DEF IsSequence
  <1>13. ListsEnd(before \o <<done>>)
    BY <1>8, <1>9, <1>12 DEF ListsEnd
  <1> QED
    BY <1>5, <1>11, <1>13 DEF plan

LEMMA UpstreamsEnd ==
  ASSUME NEW n \in Turn, NEW frames \in Upstreams(n)
  PROVE  frames \in Seq(Sent) /\ ListsEnd(frames)
  <1>1. IsSequence(frames) /\ ListsEnd(frames)
    <2>1. CASE frames \in Rogue[n]
      <3>1. /\ IsSequence(frames)
            /\ \A i \in 1..Len(frames) :
                 frames[i].event = "proposal_request" => ListIsFinite(frames[i].raw)
        BY <2>1, RogueAssumption
      <3>2. DOMAIN frames = 1..Len(frames)
        BY <3>1, LenProperties DEF IsSequence
      <3> QED
        BY <3>1, <3>2 DEF ListsEnd
    <2>2. CASE \E question \in Question[n] : frames = TurnFrames(PlanTurn(question))
      <3>1. PICK question \in Question[n] : frames = TurnFrames(PlanTurn(question))
        BY <2>2
      <3>2. /\ question.asks \in {"cancel", "nothing"}
            /\ IsSequence(question.chunks) /\ IsSequence(question.answer)
        BY QuestionAssumption
      <3> QED
        BY <3>1, <3>2, TurnFramesEnd
    <2> QED
      BY <2>1, <2>2 DEF Upstreams
  <1>2. Range(frames) \subseteq Sent
    BY DEF Sent
  <1>3. frames \in Seq(Sent)
    BY <1>1, <1>2, SeqMonotonic DEF IsSequence
  <1> QED
    BY <1>1, <1>3

(* What was intercepted is JSON too. *)
LEMMA RawIsFinite ==
  ASSUME NEW raw \in Raw
  PROVE  ListIsFinite(raw)
  <1>1. CASE raw = NoRaw
    BY <1>1 DEF ListIsFinite, NoRaw
  <1>2. CASE raw # NoRaw
    <2>1. PICK frame \in Sent : frame.event = "proposal_request" /\ raw = frame.raw
      BY <1>2 DEF Raw, Sending
    <2>2. PICK n \in Turn : \E frames \in Upstreams(n) : frame \in Range(frames)
      BY DEF Sent
    <2>3. PICK frames \in Upstreams(n) : frame \in Range(frames)
      BY <2>2
    <2>4. PICK i \in DOMAIN frames : frame = frames[i]
      BY <2>3 DEF Range
    <2>5. ListsEnd(frames)
      BY UpstreamsEnd
    <2> QED
      BY <2>1, <2>4, <2>5 DEF ListsEnd
  <1> QED
    BY <1>1, <1>2

----------------------------------------------------------------------------
(* What a step keeps *)

(* A proposal is not taken back, not rewritten, and settled once. *)
Keeps(m) ==
  turn[m].proposalId # 0 =>
    /\ turn'[m].proposalId = turn[m].proposalId
    /\ proposal'[m].raw = proposal[m].raw
    /\ proposal[m].status # "pending" => proposal'[m].status = proposal[m].status

Later ==
  /\ ticket => ticket'
  /\ conflicts \subseteq conflicts'
  /\ \A m \in Turn : Keeps(m)

LEMMA OfferKept ==
  ASSUME Later, NEW m \in Turn, OfferAgrees(m),
         screen'.replies[m].proposal = screen.replies[m].proposal,
         screen'.replies[m].outcome = screen.replies[m].outcome
  PROVE  OfferAgrees(m)'
  BY DEF Later, Keeps, OfferAgrees, WithinBoundary, Settled, NoOffer

LEMMA RequestKept ==
  ASSUME Later, NEW r \in Request, RequestAgrees(r), request'[r] = request[r]
  PROVE  RequestAgrees(r)'
  <1> DEFINE q == request[r]
  <1>1. CASE q.pc = "none"
    BY <1>1 DEF RequestAgrees
  <1>2. CASE q.pc # "none"
    <2>1. /\ q.id \in Turn /\ turn[q.id].proposalId = q.id /\ q.id # 0
          /\ q.verb \in {"confirm", "reject"}
      BY <1>2, TurnAssumption DEF RequestAgrees
    <2>2. /\ turn'[q.id].proposalId = q.id
          /\ proposal[q.id].status # "pending" => proposal'[q.id].status = proposal[q.id].status
      BY <2>1 DEF Later, Keeps
    <2>3. Settled(q.id) => Settled(q.id)'
      BY <2>2 DEF Settled, Later
    <2>4. q.pc = "answered" =>
             /\ q.kind \in {"ok", "stale", "fault"}
             /\ q.kind = "ok" => proposal[q.id].status = Target(q.verb)
             /\ q.kind = "stale" => Settled(q.id)
             /\ q.kind = "fault" /\ q.escalated => Settled(q.id)
             /\ q.escalated => ticket
      BY DEF RequestAgrees
    <2>5. Target(q.verb) # "pending" /\ Target(q.verb) = Target(request'[r].verb)
      BY DEF Target
    <2>6. request'[r].pc = "answered" =>
             /\ q.kind = "ok" => proposal'[q.id].status = Target(q.verb)
             /\ q.escalated => ticket'
      BY <2>2, <2>4, <2>5 DEF Later
    <2> QED
      BY <2>1, <2>2, <2>3, <2>4, <2>5, <2>6 DEF RequestAgrees, Target, Settled
  <1> QED
    BY <1>1, <1>2

LEMMA TicketKept ==
  ASSUME Later, TicketAgrees, UNCHANGED <<screen, escalation>>
  PROVE  TicketAgrees'
  BY DEF Later, TicketAgrees

(* Of a turn that is not the step's own nothing changes but that frames are read or
   thrown away, and rows of other turns are added. *)
RowsKept(m) ==
  \/ message' = message
  \/ \E row \in MessageRow : row.turn # m /\ message' = Append(message, row)

WireKept(m) ==
  \/ wire'[m] = wire[m]
  \/ wire'[m] = <<>>
  \/ wire[m] # <<>> /\ wire'[m] = Tail(wire[m])

LEMMA WireSubset ==
  ASSUME ServerTypeOK, NEW m \in Turn, WireKept(m)
  PROVE  /\ \A i \in DOMAIN wire'[m] : \E j \in DOMAIN wire[m] : wire'[m][i] = wire[m][j]
         /\ wire[m] = <<>> => wire'[m] = <<>>
  <1>1. wire[m] \in Seq(Relayed)
    BY DEF ServerTypeOK
  <1>2. CASE wire'[m] = <<>>
    BY <1>2
  <1>3. CASE wire[m] # <<>> /\ wire'[m] = Tail(wire[m])
    <2>1. /\ Len(wire[m]) \in Nat \ {0}
          /\ DOMAIN wire[m] = 1..Len(wire[m]) /\ DOMAIN wire'[m] = 1..(Len(wire[m]) - 1)
          /\ \A i \in 1..(Len(wire[m]) - 1) : wire'[m][i] = wire[m][i + 1]
      BY <1>1, <1>3, Shortened
    <2>2. \A i \in 1..(Len(wire[m]) - 1) : i + 1 \in 1..Len(wire[m])
      BY <2>1
    <2> QED
      BY <1>3, <2>1, <2>2
  <1> QED
    BY <1>2, <1>3 DEF WireKept

LEMMA RowsBelow ==
  ASSUME ServerTypeOK, NEW row \in MessageRow, message' = Append(message, row)
  PROVE  /\ Len(message) \in Nat /\ DOMAIN message = 1..Len(message)
         /\ DOMAIN message' = 1..(Len(message) + 1)
         /\ \A i \in DOMAIN message : i \in DOMAIN message' /\ message'[i] = message[i]
         /\ \A i \in DOMAIN message' : i \in DOMAIN message \/ i = Len(message) + 1
         /\ message'[Len(message) + 1] = row
  <1>1. message \in Seq(MessageRow) /\ Len(message) \in Nat /\ DOMAIN message = 1..Len(message)
    BY LenProperties DEF ServerTypeOK
  <1> QED
    BY <1>1, Appended

LEMMA RecordKept ==
  ASSUME ServerTypeOK, NEW m \in Turn, RecordAgrees(m), RowsKept(m), turn'[m] = turn[m]
  PROVE  RecordAgrees(m)'
  <1>1. CASE message' = message
    BY <1>1 DEF RecordAgrees, IsQuestion, IsAnswer
  <1>2. CASE \E row \in MessageRow : row.turn # m /\ message' = Append(message, row)
    <2>1. PICK row \in MessageRow : row.turn # m /\ message' = Append(message, row)
      BY <1>2
    <2>2. /\ Len(message) \in Nat /\ DOMAIN message = 1..Len(message)
          /\ \A i \in DOMAIN message : i \in DOMAIN message' /\ message'[i] = message[i]
          /\ \A i \in DOMAIN message' :
               i \in DOMAIN message \/ (i = Len(message) + 1 /\ message'[i].turn # m)
      BY <2>1, RowsBelow
    <2>3. \A i \in DOMAIN message' :
            /\ IsAnswer(m, i)' <=> (i \in DOMAIN message /\ IsAnswer(m, i))
            /\ i \in DOMAIN message => (IsQuestion(m, i)' <=> IsQuestion(m, i))
      BY <2>2 DEF IsAnswer, IsQuestion
    <2>4. turn'[m].pc \in {"readHistory", "relay", "propose"} =>
            \E j \in DOMAIN message' : IsQuestion(m, j)'
      BY <2>2, <2>3 DEF RecordAgrees
    <2>5. turn'[m].pc \notin {"end", "ended"} => \A i \in DOMAIN message' : ~IsAnswer(m, i)'
      BY <2>3 DEF RecordAgrees
    <2>6. ASSUME turn'[m].pc \in {"end", "ended"}
          PROVE  \E i \in DOMAIN message' :
                   /\ \A j \in DOMAIN message' : IsAnswer(m, j)' <=> j = i
                   /\ \E j \in 1..(i - 1) : IsQuestion(m, j)'
                   /\ message'[i].content = turn'[m].tokens /\ message'[i].evidence = turn'[m].evidence
                   /\ message'[i].proposalId = turn'[m].proposalId
      <3>1. PICK i \in DOMAIN message :
               /\ \A j \in DOMAIN message : IsAnswer(m, j) <=> j = i
               /\ \E j \in 1..(i - 1) : IsQuestion(m, j)
               /\ message[i].content = turn[m].tokens /\ message[i].evidence = turn[m].evidence
               /\ message[i].proposalId = turn[m].proposalId
        BY <2>6 DEF RecordAgrees
      <3>2. \A j \in 1..(i - 1) : j \in DOMAIN message
        BY <2>2
      <3> QED
        BY <2>2, <2>3, <3>1, <3>2
    <2> QED
      BY <2>4, <2>5, <2>6 DEF RecordAgrees
  <1> QED
    BY <1>1, <1>2 DEF RowsKept

(* Frames that wait, and those that a step adds. *)
LEMMA WireKeptAgrees ==
  ASSUME NEW n \in Turn, WireAgrees(n), Keeps(n), ticket => ticket',
         Range(turn[n].evidence) \subseteq Range(turn'[n].evidence),
         \A i \in DOMAIN wire'[n] : \/ \E j \in DOMAIN wire[n] : wire'[n][i] = wire[n][j]
                                   \/ FrameAgrees(n, wire[n][i])'
  PROVE  WireAgrees(n)'
  <1>1. n # 0
    BY TurnAssumption
  <1>2. ASSUME NEW i \in DOMAIN wire'[n], NEW j \in DOMAIN wire[n], wire'[n][i] = wire[n][j]
        PROVE  FrameAgrees(n, wire[n][i])'
    <2>1. FrameAgrees(n, wire[n][j])
      BY DEF WireAgrees
    <2> QED
      BY <1>1, <1>2, <2>1 DEF FrameAgrees, Keeps, WithinBoundary
  <1> QED
    BY <1>2 DEF WireAgrees

LEMMA TurnKept ==
  ASSUME ServerTypeOK, Later, NEW m \in Turn, TurnAgrees(m), turn'[m] = turn[m],
         conn'[m] = conn[m] \/ conn'[m] # "ended", WireKept(m), RowsKept(m)
  PROVE  TurnAgrees(m)'
  <1>1. /\ \A i \in DOMAIN wire'[m] : \E j \in DOMAIN wire[m] : wire'[m][i] = wire[m][j]
        /\ wire[m] = <<>> => wire'[m] = <<>>
    BY WireSubset
  <1>2. HandlerAgrees(m)'
    BY <1>1 DEF TurnAgrees, HandlerAgrees, DoneWaits
  <1>3. WireAgrees(m)'
    <2>1. Keeps(m) /\ (ticket => ticket') /\ WireAgrees(m)
      BY DEF Later, TurnAgrees
    <2> QED
      BY <1>1, <2>1, WireKeptAgrees
  <1>4. RecordAgrees(m)'
    BY RecordKept DEF TurnAgrees
  <1> QED
    BY <1>2, <1>3, <1>4 DEF TurnAgrees

----------------------------------------------------------------------------
(* What the wire carries *)

(* Fewer demands: the same frames, with a longer answer than they carry. *)
LEMMA CarriesStill ==
  ASSUME NEW frames \in Seq(Relayed), NEW answer \in Seq(Word), NEW later \in Seq(Word),
         NEW text, NEW whole, CarriesOn(frames, answer, whole, text),
         Len(answer) <= Len(later), \A i \in 1..Len(answer) : later[i] = answer[i],
         DoneWaits(frames) => Len(later) = Len(answer)
  PROVE  CarriesOn(frames, later, FALSE, text)
  <1>1. PICK at \in [0..Len(frames) -> 0..Len(answer)] : Carries(frames, answer, whole, text, at)
    BY DEF CarriesOn
  <1>2. Len(answer) \in Nat /\ Len(later) \in Nat /\ Len(frames) \in Nat /\ DOMAIN frames = 1..Len(frames)
    BY LenProperties
  <1>3. at \in [0..Len(frames) -> 0..Len(later)]
    BY <1>2
  <1>4. ASSUME NEW i \in 1..Len(frames), \A j \in 1..(i - 1) : frames[j].event # "done"
        PROVE  /\ frames[i].event = "token" => at[i] = at[i - 1] + 1 /\ frames[i].text = later[at[i]]
               /\ frames[i].event # "token" => at[i] = at[i - 1]
               /\ frames[i].event = "done" => at[i] = Len(later)
    <2>1. /\ frames[i].event = "token" => at[i] = at[i - 1] + 1 /\ frames[i].text = answer[at[i]]
          /\ frames[i].event # "token" => at[i] = at[i - 1]
          /\ frames[i].event = "done" => at[i] = Len(answer)
      BY <1>1, <1>4 DEF Carries
    <2>2. at[i] \in 0..Len(answer) /\ at[i - 1] \in 0..Len(answer)
      <3>1. i \in 0..Len(frames) /\ i - 1 \in 0..Len(frames)
        BY <1>2
      <3> QED
        BY <3>1
    <2>3. frames[i].event = "token" => at[i] \in 1..Len(answer)
      BY <1>2, <2>1, <2>2
    <2>4. frames[i].event = "done" => at[i] = Len(later)
      BY <1>2, <2>1 DEF DoneWaits
    <2>5. frames[i].event = "token" => frames[i].text = later[at[i]]
      BY <2>1, <2>3
    <2> QED
      BY <2>1, <2>4, <2>5
  <1>5. at[0] = Len(text)
    BY <1>1 DEF Carries
  <1>6. Carries(frames, later, FALSE, text, at)
    BY <1>4, <1>5 DEF Carries
  <1> QED
    BY <1>3, <1>6 DEF CarriesOn

LEMMA CarriesLess ==
  ASSUME NEW frames, NEW answer, NEW text, NEW whole, NEW less,
         CarriesOn(frames, answer, whole, text), less => whole
  PROVE  CarriesOn(frames, answer, less, text)
  BY DEF CarriesOn, Carries

LEMMA DoneWaitsMore ==
  ASSUME NEW frames \in Seq(Relayed), NEW frame \in Relayed
  PROVE  DoneWaits(frames \o <<frame>>) <=> DoneWaits(frames) \/ frame.event = "done"
  <1> DEFINE both == frames \o <<frame>>
  <1>1. <<frame>> \in Seq(Relayed) /\ Len(<<frame>>) = 1 /\ <<frame>>[1] = frame
    OBVIOUS
  <1>2. /\ Len(frames) \in Nat /\ DOMAIN frames = 1..Len(frames) /\ DOMAIN both = 1..(Len(frames) + 1)
        /\ \A i \in 1..Len(frames) : both[i] = frames[i]
        /\ both[Len(frames) + 1] = frame
    BY <1>1, Joined
  <1>3. Len(frames) + 1 \in DOMAIN both
    BY <1>2
  <1>4. \A i \in DOMAIN both : i \in DOMAIN frames \/ i = Len(frames) + 1
    BY <1>2
  <1>5. \A i \in DOMAIN frames : i \in DOMAIN both /\ both[i] = frames[i]
    BY <1>2
  <1> HIDE DEF both
  <1> QED
    BY <1>2, <1>3, <1>4, <1>5 DEF DoneWaits, both

(* One frame more, and one token of the answer more when it is one and no done frame
   waits before it. *)
LEMMA CarriesMore ==
  ASSUME NEW frames \in Seq(Relayed), NEW answer \in Seq(Word), NEW later \in Seq(Word),
         NEW text, NEW frame \in Relayed, CarriesOn(frames, answer, TRUE, text),
         frame.event # "token" \/ DoneWaits(frames) => later = answer,
         frame.event = "token" /\ ~DoneWaits(frames) =>
           /\ Len(later) = Len(answer) + 1 /\ later[Len(later)] = frame.text
           /\ \A i \in 1..Len(answer) : later[i] = answer[i]
  PROVE  CarriesOn(frames \o <<frame>>, later, TRUE, text)
  <1> DEFINE size == Len(frames)
             both == frames \o <<frame>>
  <1>1. PICK at \in [0..size -> 0..Len(answer)] : Carries(frames, answer, TRUE, text, at)
    BY DEF CarriesOn
  <1>2. /\ Len(answer) \in Nat /\ Len(later) \in Nat /\ size \in Nat /\ DOMAIN frames = 1..size
        /\ Len(later) = Len(answer) \/ Len(later) = Len(answer) + 1
        /\ \A i \in 1..Len(answer) : later[i] = answer[i]
    BY LenProperties
  <1>3. /\ Len(both) = size + 1 /\ both[size + 1] = frame
        /\ \A i \in 1..size : both[i] = frames[i]
    <2>1. <<frame>> \in Seq(Relayed) /\ Len(<<frame>>) = 1 /\ <<frame>>[1] = frame
      OBVIOUS
    <2> QED
      BY <2>1, Joined
  <1>4. at[0] = Len(text) /\ (~DoneWaits(frames) => at[size] = Len(answer))
    BY <1>1 DEF Carries
  <1> DEFINE more == [i \in 0..(size + 1) |-> IF i <= size THEN at[i] ELSE Len(later)]
  <1> HIDE DEF size, both
  <1>5. /\ \A i \in 0..size : more[i] = at[i] /\ at[i] \in 0..Len(answer)
        /\ more[size + 1] = Len(later)
    BY <1>1, <1>2
  <1>6. more \in [0..Len(both) -> 0..Len(later)]
    BY <1>1, <1>2, <1>3
  <1> HIDE DEF more
  <1>7. more[0] = Len(text) /\ more[Len(both)] = Len(later)
    BY <1>2, <1>3, <1>4, <1>5
  <1>8. ASSUME NEW i \in 1..Len(both), \A j \in 1..(i - 1) : both[j].event # "done"
        PROVE  /\ both[i].event = "token" => more[i] = more[i - 1] + 1 /\ both[i].text = later[more[i]]
               /\ both[i].event # "token" => more[i] = more[i - 1]
               /\ both[i].event = "done" => more[i] = Len(later)
    <2>1. CASE i \in 1..size
      <3>1. /\ both[i] = frames[i] /\ more[i] = at[i] /\ more[i - 1] = at[i - 1]
            /\ at[i] \in 0..Len(answer) /\ at[i - 1] \in 0..Len(answer)
        BY <1>2, <1>3, <1>5, <2>1
      <3>2. \A j \in 1..(i - 1) : frames[j].event # "done"
        BY <1>2, <1>3, <1>8, <2>1
      <3>3. /\ frames[i].event = "token" => at[i] = at[i - 1] + 1 /\ frames[i].text = answer[at[i]]
            /\ frames[i].event # "token" => at[i] = at[i - 1]
            /\ frames[i].event = "done" => at[i] = Len(answer)
        BY <1>1, <2>1, <3>2 DEF Carries, size
      <3>4. frames[i].event = "done" => Len(later) = Len(answer)
        BY <1>2, <2>1 DEF DoneWaits
      <3>5. frames[i].event = "token" => later[at[i]] = answer[at[i]]
        BY <1>2, <3>1, <3>3
      <3> QED
        BY <3>1, <3>3, <3>4, <3>5
    <2>2. CASE i = size + 1
      <3>1. ~DoneWaits(frames)
        BY <1>2, <1>3, <1>8, <2>2 DEF DoneWaits
      <3>2. both[i] = frame /\ more[i] = Len(later) /\ more[i - 1] = Len(answer)
        BY <1>2, <1>3, <1>4, <1>5, <2>2, <3>1
      <3> QED
        BY <3>1, <3>2
    <2> QED
      BY <1>2, <1>3, <2>1, <2>2
  <1>9. Carries(both, later, TRUE, text, more)
    BY <1>7, <1>8 DEF Carries
  <1> QED
    BY <1>6, <1>9 DEF CarriesOn, both

(* One frame fewer: it was read, and shown when it is a token. The done frame ends the
   reply, which then shows all of the answer. *)
LEMMA CarriesRest ==
  ASSUME NEW frames \in Seq(Relayed), frames # <<>>, NEW answer \in Seq(Word),
         NEW text \in Seq(Word), NEW whole, CarriesOn(frames, answer, whole, text),
         Agree(text, answer)
  PROVE  LET frame == Head(frames)
         IN  /\ frame.event \notin {"token", "done"} => CarriesOn(Tail(frames), answer, whole, text)
             /\ frame.event = "done" => Len(text) = Len(answer)
             /\ frame.event = "token" /\ frame.text \in Word =>
                  /\ CarriesOn(Tail(frames), answer, whole, Append(text, frame.text))
                  /\ Agree(Append(text, frame.text), answer)
             /\ frame.event # "done" => (DoneWaits(Tail(frames)) <=> DoneWaits(frames))
  <1> DEFINE size == Len(frames)
             rest == Tail(frames)
             frame == Head(frames)
             next == IF frame.event = "token" THEN Len(text) + 1 ELSE Len(text)
  <1>1. PICK at \in [0..size -> 0..Len(answer)] : Carries(frames, answer, whole, text, at)
    BY DEF CarriesOn
  <1>2. /\ size \in Nat \ {0} /\ Len(rest) = size - 1 /\ frame = frames[1]
        /\ \A i \in 1..(size - 1) : rest[i] = frames[i + 1]
        /\ DOMAIN frames = 1..size /\ DOMAIN rest = 1..(size - 1)
    BY Shortened
  <1>3. Len(answer) \in Nat /\ Len(text) \in Nat
    BY LenProperties
  <1> DEFINE less == [i \in 0..(size - 1) |-> at[i + 1]]
  <1> HIDE DEF size, rest, frame
  <1>4. \A i \in 0..(size - 1) : less[i] = at[i + 1] /\ at[i + 1] \in 0..Len(answer)
    BY <1>1, <1>2
  <1>5. less \in [0..Len(rest) -> 0..Len(answer)]
    BY <1>2, <1>4
  <1> HIDE DEF less
  <1>6. ASSUME NEW i \in 1..size, \A j \in 1..(i - 1) : frames[j].event # "done"
        PROVE  /\ frames[i].event = "token" => at[i] = at[i - 1] + 1 /\ frames[i].text = answer[at[i]]
               /\ frames[i].event # "token" => at[i] = at[i - 1]
               /\ frames[i].event = "done" => at[i] = Len(answer)
    BY <1>1, <1>6 DEF Carries, size
  <1>7. at[0] = Len(text) /\ (whole /\ ~DoneWaits(frames) => at[size] = Len(answer))
    BY <1>1 DEF Carries, size
  <1>8. /\ less[0] = next /\ next \in 0..Len(answer)
        /\ frame.event = "token" => frame.text = answer[next]
        /\ frame.event = "done" => next = Len(answer)
    <2>1. 1 \in 1..size /\ 0 \in 0..(size - 1) /\ at[1] \in 0..Len(answer) /\ less[0] = at[1]
      BY <1>2, <1>4
    <2>2. /\ frame.event = "token" => at[1] = at[0] + 1 /\ frame.text = answer[at[1]]
          /\ frame.event # "token" => at[1] = at[0]
          /\ frame.event = "done" => at[1] = Len(answer)
      BY <1>2, <1>6, <2>1
    <2> QED
      BY <1>3, <1>7, <2>1, <2>2
  <1>15. ASSUME frame.event # "done"
         PROVE  DoneWaits(rest) <=> DoneWaits(frames)
    <2>1. ASSUME NEW i \in DOMAIN rest
          PROVE  i + 1 \in DOMAIN frames /\ rest[i] = frames[i + 1]
      BY <1>2
    <2>2. ASSUME NEW i \in DOMAIN frames, i # 1
          PROVE  i - 1 \in DOMAIN rest /\ rest[i - 1] = frames[i]
      <3>1. i - 1 \in 1..(size - 1) /\ (i - 1) + 1 = i
        BY <1>2, <2>2
      <3> QED
        BY <1>2, <3>1
    <2> QED
      BY <1>2, <1>15, <2>1, <2>2 DEF DoneWaits
  <1>9. frame.event # "done" => (whole /\ ~DoneWaits(rest) => less[Len(rest)] = Len(answer))
    BY <1>2, <1>4, <1>7, <1>15
  <1>10. ASSUME frame.event # "done",
                NEW i \in 1..Len(rest), \A j \in 1..(i - 1) : rest[j].event # "done"
         PROVE  /\ rest[i].event = "token" => less[i] = less[i - 1] + 1 /\ rest[i].text = answer[less[i]]
                /\ rest[i].event # "token" => less[i] = less[i - 1]
                /\ rest[i].event = "done" => less[i] = Len(answer)
    <2>1. /\ i + 1 \in 1..size /\ rest[i] = frames[i + 1] /\ less[i] = at[i + 1] /\ less[i - 1] = at[i]
          /\ (i + 1) - 1 = i
      BY <1>2, <1>4
    <2>2. ASSUME NEW j \in 1..i
          PROVE  frames[j].event # "done"
      <3>1. CASE j = 1
        BY <1>2, <1>10, <3>1
      <3>2. CASE j # 1
        <4>1. j - 1 \in 1..(i - 1) /\ j - 1 \in 1..(size - 1) /\ (j - 1) + 1 = j
          BY <1>2, <3>2
        <4>2. rest[j - 1] = frames[j]
          BY <1>2, <4>1
        <4> QED
          BY <1>10, <4>1, <4>2
      <3> QED
        BY <3>1, <3>2
    <2>3. \A j \in 1..((i + 1) - 1) : frames[j].event # "done"
      BY <2>1, <2>2
    <2>4. /\ frames[i + 1].event = "token" =>
               at[i + 1] = at[(i + 1) - 1] + 1 /\ frames[i + 1].text = answer[at[i + 1]]
          /\ frames[i + 1].event # "token" => at[i + 1] = at[(i + 1) - 1]
          /\ frames[i + 1].event = "done" => at[i + 1] = Len(answer)
      BY <1>6, <2>1, <2>3
    <2> QED
      BY <2>1, <2>4
  <1>11. ASSUME NEW x, Len(x) = next, frame.event # "done"
         PROVE  CarriesOn(rest, answer, whole, x)
    <2>1. Carries(rest, answer, whole, x, less)
      BY <1>8, <1>9, <1>10, <1>11 DEF Carries
    <2> QED
      BY <1>5, <2>1 DEF CarriesOn
  <1>12. frame.event \notin {"token", "done"} => CarriesOn(rest, answer, whole, text)
    BY <1>11
  <1>13. frame.event = "done" => Len(text) = Len(answer)
    BY <1>8
  <1>14. ASSUME frame.event = "token", frame.text \in Word
         PROVE  /\ CarriesOn(rest, answer, whole, Append(text, frame.text))
                /\ Agree(Append(text, frame.text), answer)
    <2> DEFINE longer == Append(text, frame.text)
    <2>1. /\ Len(longer) = Len(text) + 1 /\ longer[Len(text) + 1] = frame.text
          /\ \A i \in 1..Len(text) : longer[i] = text[i]
      BY <1>14, Appended
    <2> HIDE DEF longer
    <2>2. CarriesOn(rest, answer, whole, longer)
      BY <1>11, <1>14, <2>1
    <2>3. ASSUME NEW i \in 1..Len(longer)
          PROVE  longer[i] = answer[i]
      <3>1. CASE i \in 1..Len(text)
        BY <2>1, <3>1 DEF Agree
      <3>2. CASE i = Len(text) + 1
        BY <1>8, <1>14, <2>1, <3>2
      <3> QED
        BY <1>3, <2>1, <3>1, <3>2
    <2>4. Len(longer) <= Len(answer)
      BY <1>3, <1>8, <1>14, <2>1
    <2> QED
      BY <2>2, <2>3, <2>4 DEF Agree, longer
  <1> QED
    BY <1>12, <1>13, <1>14, <1>15 DEF rest, frame

LEMMA TextKept ==
  ASSUME NEW m \in Turn, TextAgrees(m),
         turn'[m].answer = turn[m].answer, turn'[m].done = turn[m].done,
         turn'[m].evidence = turn[m].evidence,
         turn[m].upstream = <<>> => turn'[m].upstream = <<>>,
         turn[m].pc \notin Fresh => turn'[m].pc \notin Fresh,
         screen'.replies[m].text = screen.replies[m].text,
         screen'.replies[m].evidence = screen.replies[m].evidence,
         \/ screen'.replies[m].state = screen.replies[m].state
         \/ screen'.replies[m].state \in {"cancelled", "failed"},
         screen'.replies[m].state = "streaming" => wire'[m] = wire[m] /\ (Whole(m)' => Whole(m))
  PROVE  TextAgrees(m)'
  <1>1. ASSUME screen'.replies[m].state = "streaming"
        PROVE  /\ CarriesOn(wire'[m], turn'[m].answer, Whole(m)', screen'.replies[m].text)
               /\ Whole(m)' /\ turn'[m].done => DoneWaits(wire'[m])
    <2>1. /\ CarriesOn(wire[m], turn[m].answer, Whole(m), screen.replies[m].text)
          /\ Whole(m) /\ turn[m].done => DoneWaits(wire[m])
      BY <1>1 DEF TextAgrees
    <2>2. CarriesOn(wire[m], turn[m].answer, Whole(m)', screen.replies[m].text)
      BY <1>1, <2>1, CarriesLess
    <2> QED
      BY <1>1, <2>1, <2>2
  <1>2. Agree(screen'.replies[m].text, turn'[m].answer)
    BY DEF TextAgrees
  <1> QED
    BY <1>1, <1>2 DEF TextAgrees

(* A frame is written: to the answer, one token more when it is one and the answer was
   not done. *)
LEMMA TextWritten ==
  ASSUME ServerTypeOK, NEW n \in Turn, TextAgrees(n), HandlerAgrees(n), screen' = screen,
         screen.replies[n].text \in Seq(Word),
         NEW frame \in Relayed, Write(n, <<frame>>),
         conn[n] # "ended", conn'[n] = conn[n] \/ (conn[n] = "open" /\ conn'[n] = "ended"),
         turn[n].pc \notin Fresh, turn'[n].pc \notin Fresh,
         frame.event = "token" => turn[n].upstream # <<>> /\ frame.text \in Word,
         turn'[n].done <=> turn[n].done \/ frame.event = "done",
         turn'[n].answer =
           IF frame.event = "token" /\ ~turn[n].done
           THEN Append(turn[n].answer, frame.text) ELSE turn[n].answer,
         Range(turn[n].evidence) \subseteq Range(turn'[n].evidence),
         turn[n].upstream = <<>> => turn'[n].upstream = <<>>
  PROVE  TextAgrees(n)'
  <1> DEFINE answer == turn[n].answer
             later == turn'[n].answer
             text == screen.replies[n].text
             frames == wire[n]
  <1>1. answer \in Seq(Word) /\ frames \in Seq(Relayed)
    BY DEF ServerTypeOK, HandlerState
  <1>2. /\ Len(answer) \in Nat /\ later \in Seq(Word) /\ Len(answer) <= Len(later)
        /\ \A i \in 1..Len(answer) : later[i] = answer[i]
        /\ frame.event = "token" /\ ~turn[n].done =>
             Len(later) = Len(answer) + 1 /\ later[Len(later)] = frame.text
        /\ frame.event # "token" \/ turn[n].done => later = answer
    <2>1. CASE frame.event = "token" /\ ~turn[n].done
      BY <1>1, <2>1, Appended, LenProperties
    <2>2. CASE ~(frame.event = "token" /\ ~turn[n].done)
      BY <1>1, <2>2, LenProperties
    <2> QED
      BY <2>1, <2>2
  <1>3. Agree(text, answer) /\ screen.replies[n].evidence \subseteq Range(turn[n].evidence)
    BY DEF TextAgrees
  <1>4. DoneWaits(frames) => turn[n].done
    BY DEF HandlerAgrees
  <1>5. ASSUME screen.replies[n].state = "streaming"
        PROVE  /\ CarriesOn(frames, answer, Whole(n), text)
               /\ Whole(n) /\ turn[n].done => DoneWaits(frames)
    BY <1>5 DEF TextAgrees
  <1>6. ASSUME screen.replies[n].state = "complete"
        PROVE  /\ Len(text) = Len(later) /\ turn'[n].pc \notin Fresh
               /\ turn'[n].done \/ turn'[n].upstream = <<>>
    <2>1. Len(text) = Len(answer) /\ (turn[n].done \/ turn[n].upstream = <<>>)
      BY <1>6 DEF TextAgrees
    <2> QED
      BY <1>2, <2>1
  <1>7. conn[n] = "open" => wire'[n] = frames \o <<frame>> /\ Whole(n)
    BY DEF Write, ServerTypeOK, Whole
  <1>8. conn[n] # "open" => wire'[n] = frames /\ ~Whole(n)'
    BY DEF Write, Whole
  <1> HIDE DEF answer, later, text, frames
  <1>9. Agree(text, later)
    <2>1. Len(text) \in Nat /\ Len(text) <= Len(later) /\ \A i \in 1..Len(text) : i \in 1..Len(answer)
      BY <1>2, <1>3, LenProperties DEF Agree, text
    <2> QED
      BY <1>2, <1>3, <2>1 DEF Agree
  <1>10. ASSUME screen.replies[n].state = "streaming"
         PROVE  /\ CarriesOn(wire'[n], later, Whole(n)', text)
                /\ Whole(n)' /\ turn'[n].done => DoneWaits(wire'[n])
    <2>1. CASE conn[n] = "open"
      <3>1. CarriesOn(frames, answer, TRUE, text)
        BY <1>5, <1>7, <1>10, <2>1, CarriesLess
      <3>2. turn[n].done <=> DoneWaits(frames)
        BY <1>4, <1>5, <1>7, <1>10, <2>1
      <3>3. CarriesOn(frames \o <<frame>>, later, TRUE, text)
        BY <1>1, <1>2, <3>1, <3>2, CarriesMore
      <3>4. DoneWaits(frames \o <<frame>>) <=> DoneWaits(frames) \/ frame.event = "done"
        BY <1>1, DoneWaitsMore
      <3> QED
        BY <1>7, <2>1, <3>2, <3>3, <3>4, CarriesLess
    <2>2. CASE conn[n] # "open"
      <3>1. DoneWaits(frames) => Len(later) = Len(answer)
        BY <1>2, <1>4
      <3>2. CarriesOn(frames, later, FALSE, text)
        BY <1>1, <1>2, <1>5, <1>10, <3>1, CarriesStill
      <3> QED
        BY <1>8, <2>2, <3>2, CarriesLess
    <2> QED
      BY <2>1, <2>2
  <1> QED
    BY <1>3, <1>6, <1>9, <1>10 DEF TextAgrees, later, text

----------------------------------------------------------------------------
(* Frames *)

LEMMA RelayedIs ==
  ASSUME NEW frame \in Relayed
  PROVE  /\ frame.event \in {"token", "evidence", "done", "proposal", "policy", "error"}
         /\ frame.event = "token" => frame.text \in Word
         /\ frame.event = "evidence" => frame.ref \in Ref
         /\ frame.event = "done" => frame.shouldEscalate \in Flag
         /\ frame.event = "proposal" => frame.id \in Turn /\ frame.number \in OwnOrders
         /\ frame.event = "policy" =>
              frame.kind \in {"refused", "malformed"} /\ frame.escalated \in BOOLEAN
  <1>1. CASE frame \in Sent /\ frame.event \in RelayableFrames
    BY <1>1 DEF RelayableFrames, Word, Ref, Flag, Sending
  <1>2. CASE \E n \in Turn, number \in OwnOrders : frame = ProposalFrame(n, number)
    BY <1>2 DEF ProposalFrame
  <1>3. CASE \E kind \in {"refused", "malformed"}, escalated \in BOOLEAN :
               frame = PolicyFrame(kind, escalated)
    BY <1>3 DEF PolicyFrame
  <1>4. CASE frame = [event |-> "error"]
    BY <1>4
  <1> QED
    BY <1>1, <1>2, <1>3, <1>4 DEF Relayed

LEMMA SentRelayed ==
  ASSUME NEW frame \in Sent, frame.event \in RelayableFrames
  PROVE  frame \in Relayed
  BY DEF Relayed

LEMMA RulingFrame ==
  ASSUME NEW n \in Turn, NEW raw, NEW ruling,
         NEW kind, kind = ResultKind(Problems(raw, OwnOrders), ruling),
         NEW number, number = (IF kind = "malformed" THEN "none" ELSE raw.target.number)
  PROVE  /\ kind \in {"confirm", "refused", "escalated", "malformed"}
         /\ StatusAfterPropose(kind) \in ProposalStatus
         /\ Escalates(kind, ruling) \in BOOLEAN
         /\ kind = "confirm" =>
              /\ ShapeProblems(raw) = {} /\ raw.target.number \in OwnOrders
              /\ number = raw.target.number
         /\ \E frame \in Relayed :
              /\ FramesForProposalResult(kind, n, number, Escalates(kind, ruling)) = <<frame>>
              /\ frame.event \in {"proposal", "policy"}
              /\ frame.event = "proposal" =>
                   kind = "confirm" /\ frame.id = n /\ frame.number = number
              /\ frame.event = "policy" => frame.escalated = Escalates(kind, ruling)
  <1>1. kind \in {"confirm", "refused", "escalated", "malformed"}
    BY DEF ResultKind
  <1>2. StatusAfterPropose(kind) \in ProposalStatus /\ Escalates(kind, ruling) \in BOOLEAN
    BY <1>1 DEF StatusAfterPropose, ProposalStatus, Escalates
  <1>3. ASSUME kind = "confirm"
        PROVE  ShapeProblems(raw) = {} /\ raw.target.number \in OwnOrders /\ number = raw.target.number
    <2>1. Problems(raw, OwnOrders) = {}
      BY <1>3 DEF ResultKind
    <2>2. ShapeProblems(raw) = {}
      BY <2>1 DEF Problems
    <2>3. If(raw.target.number \notin OwnOrders, "target_does_not_resolve") = {}
      BY <2>1, <2>2 DEF Problems
    <2>4. raw.target.number \in OwnOrders
      BY <2>3 DEF If
    <2> QED
      BY <1>3, <2>2, <2>4
  <1>4. CASE kind = "confirm"
    <2>1. ProposalFrame(n, number) \in Relayed
      BY <1>3, <1>4 DEF Relayed
    <2> QED
      BY <1>1, <1>2, <1>3, <1>4, <2>1 DEF FramesForProposalResult, ProposalFrame
  <1>5. CASE kind # "confirm"
    <2> DEFINE frame == PolicyFrame(IF kind = "malformed" THEN "malformed" ELSE "refused",
                                    Escalates(kind, ruling))
    <2>1. frame \in Relayed
      BY <1>2 DEF Relayed
    <2>2. FramesForProposalResult(kind, n, number, Escalates(kind, ruling)) = <<frame>>
      BY <1>1, <1>5 DEF FramesForProposalResult
    <2>3. frame.event = "policy" /\ frame.escalated = Escalates(kind, ruling)
      BY DEF PolicyFrame
    <2> QED
      BY <1>1, <1>2, <1>5, <2>1, <2>2, <2>3
  <1> QED
    BY <1>4, <1>5

----------------------------------------------------------------------------
(* The handler's steps *)

LEMMA Begun ==
  ASSUME IInv, NEW n \in Turn, turn[n].pc # "none"
  PROVE  /\ n \in DOMAIN screen.replies /\ screen.replies[n] \in ReplyState
         /\ ServerTypeOK /\ TurnAgrees(n) /\ TextAgrees(n) /\ OfferAgrees(n)
         /\ turn[n] \in HandlerState /\ wire[n] \in Seq(Relayed)
         /\ proposal[n] \in ProposalState
  <1>1. n \in DOMAIN screen.replies
    BY DEF IInv, TurnsInOrder
  <1>2. screen.replies \in Seq(ReplyState)
    BY DEF IInv, TypeOK, ClientTypeOK, ScreenState
  <1>3. screen.replies[n] \in ReplyState
    BY <1>1, <1>2, LenProperties, ElementOfSeq
  <1> QED
    BY <1>1, <1>3 DEF IInv, TypeOK, ServerTypeOK, ReplyAgrees

RestUnchanged == UNCHANGED <<screen, page, request, escalation, conflicts, stops, early>>

Alone(n) ==
  \A m \in Turn \ {n} :
    turn'[m] = turn[m] /\ wire'[m] = wire[m] /\ conn'[m] = conn[m] /\ proposal'[m] = proposal[m]

(* What a step of the handler of turn n may do. *)
ServerStep(n) ==
  /\ ServerTypeOK'
  /\ turn[n].pc # "none" /\ turn'[n].pc # "none"
  /\ Alone(n) /\ \A m \in Turn \ {n} : RowsKept(m)
  /\ Keeps(n) /\ (ticket => ticket')
  /\ TurnAgrees(n)' /\ TextAgrees(n)'

LEMMA ServerStepKeeps ==
  ASSUME IInv, NEW n \in Turn, ServerStep(n), RestUnchanged
  PROVE  IInv'
  <1>1. TypeOK /\ TypeOK'
    BY DEF IInv, TypeOK, ServerStep, RestUnchanged, ClientTypeOK
  <1>2. Later
    BY DEF Later, ServerStep, Alone, Keeps, RestUnchanged
  <1>3. TurnsInOrder'
    BY DEF IInv, TurnsInOrder, ServerStep, Alone, RestUnchanged
  <1>4. ASSUME NEW m \in Turn
        PROVE  TurnAgrees(m)'
    <2>1. CASE m = n
      BY <2>1 DEF ServerStep
    <2>2. CASE m # n
      <3>1. TurnAgrees(m) /\ ServerTypeOK
        BY DEF IInv, TypeOK
      <3>2. turn'[m] = turn[m] /\ conn'[m] = conn[m] /\ WireKept(m) /\ RowsKept(m)
        BY <2>2 DEF ServerStep, Alone, WireKept
      <3> QED
        BY <1>2, <3>1, <3>2, TurnKept
    <2> QED
      BY <2>1, <2>2
  <1>5. ASSUME NEW m \in DOMAIN screen'.replies
        PROVE  ReplyAgrees(m)'
    <2>1. m \in Turn /\ TextAgrees(m) /\ OfferAgrees(m) /\ screen' = screen
      BY <1>5 DEF IInv, TurnsInOrder, RestUnchanged, ReplyAgrees
    <2>2. OfferAgrees(m)'
      BY <1>2, <2>1, OfferKept
    <2>3. TextAgrees(m)'
      <3>1. CASE m = n
        BY <3>1 DEF ServerStep
      <3>2. CASE m # n
        <4>1. turn'[m] = turn[m] /\ wire'[m] = wire[m] /\ (Whole(m)' <=> Whole(m))
          BY <2>1, <3>2 DEF ServerStep, Alone, Whole
        <4> QED
          BY <2>1, <4>1, TextKept
      <3> QED
        BY <3>1, <3>2
    <2> QED
      BY <2>2, <2>3 DEF ReplyAgrees
  <1>6. ASSUME NEW r \in Request
        PROVE  RequestAgrees(r)'
    BY <1>2, RequestKept DEF IInv, RestUnchanged
  <1>7. TicketAgrees'
    BY <1>2, TicketKept DEF IInv, RestUnchanged
  <1>8. StoppedByCustomer'
    BY DEF IInv, StoppedByCustomer, RestUnchanged
  <1> QED
    BY <1>1, <1>3, <1>4, <1>5, <1>6, <1>7, <1>8 DEF IInv

LEMMA CreateQuestionKeeps ==
  ASSUME IInv, NEW n \in Turn, CreateQuestion(n), RestUnchanged
  PROVE  ServerStep(n)
  <1> DEFINE row == [turn |-> n, role |-> "customer", content |-> <<>>, evidence |-> <<>>,
                     state |-> "complete", proposalId |-> 0]
  <1>1. /\ turn[n].pc = "createQuestion" /\ message' = Append(message, row)
        /\ turn' = [turn EXCEPT ![n].pc = "readHistory"]
        /\ UNCHANGED <<conn, wire, proposal, ticket>>
    BY DEF CreateQuestion
  <1>2. /\ ServerTypeOK /\ TurnAgrees(n) /\ TextAgrees(n) /\ turn[n] \in HandlerState
        /\ turn \in [Turn -> HandlerState] /\ message \in Seq(MessageRow)
    BY <1>1, Begun DEF ServerTypeOK
  <1>3. row \in MessageRow
    <2>1. <<>> \in Seq(Word) /\ <<>> \in Seq(Ref)
      BY EmptySeq
    <2> QED
      BY <2>1 DEF MessageRow
  <1>4. /\ turn'[n] = [turn[n] EXCEPT !.pc = "readHistory"] /\ turn'[n] \in HandlerState
        /\ turn' \in [Turn -> HandlerState]
        /\ \A m \in Turn \ {n} : turn'[m] = turn[m]
    BY <1>1, <1>2 DEF HandlerState
  <1>5. /\ \A i \in DOMAIN message : i \in DOMAIN message' /\ message'[i] = message[i]
        /\ \A i \in DOMAIN message' : i \in DOMAIN message \/ message'[i] = row
        /\ message' \in Seq(MessageRow)
        /\ Len(message) + 1 \in DOMAIN message' /\ message'[Len(message) + 1] = row
    BY <1>1, <1>2, <1>3, RowsBelow, Appended
  <1>6. ServerTypeOK'
    BY <1>1, <1>2, <1>4, <1>5 DEF ServerTypeOK
  <1>7. Alone(n) /\ Keeps(n) /\ (ticket => ticket')
    BY <1>1, <1>4 DEF Alone, Keeps, HandlerState
  <1>8. \A m \in Turn \ {n} : RowsKept(m)
    BY <1>1, <1>3 DEF RowsKept
  <1>9. HandlerAgrees(n)' /\ WireAgrees(n)'
    BY <1>1, <1>2, <1>4 DEF TurnAgrees, HandlerAgrees, WireAgrees, Fresh, HandlerState
  <1>10. RecordAgrees(n)'
    <2>1. \E j \in DOMAIN message' : IsQuestion(n, j)'
      <3>1. row.turn = n /\ row.role = "customer"
        OBVIOUS
      <3> HIDE DEF row
      <3> QED
        BY <1>5, <3>1 DEF IsQuestion
    <2>2. \A i \in DOMAIN message' : ~IsAnswer(n, i)'
      <3>1. \A i \in DOMAIN message : ~IsAnswer(n, i)
        BY <1>1, <1>2 DEF TurnAgrees, RecordAgrees
      <3>2. row.role # "assistant"
        OBVIOUS
      <3> HIDE DEF row
      <3> QED
        BY <1>5, <3>1, <3>2 DEF IsAnswer
    <2> HIDE DEF row
    <2> QED
      BY <1>4, <1>5, <2>1, <2>2 DEF RecordAgrees, HandlerState
  <1>11. TextAgrees(n)'
    BY <1>1, <1>2, <1>4, TextKept DEF RestUnchanged, Fresh, HandlerState, Whole
  <1> QED
    BY <1>1, <1>4, <1>6, <1>7, <1>8, <1>9, <1>10, <1>11 DEF ServerStep, TurnAgrees, HandlerState

LEMMA OpenStreamKeeps ==
  ASSUME IInv, NEW n \in Turn, OpenStream(n), RestUnchanged
  PROVE  ServerStep(n)
  <1>1. PICK frames \in Upstreams(n) :
          turn' = [turn EXCEPT ![n].pc = "relay", ![n].upstream = frames]
    BY DEF OpenStream
  <1>2. turn[n].pc = "readHistory" /\ UNCHANGED <<conn, wire, message, proposal, ticket>>
    BY DEF OpenStream
  <1>3. /\ ServerTypeOK /\ TurnAgrees(n) /\ TextAgrees(n) /\ turn[n] \in HandlerState
        /\ turn \in [Turn -> HandlerState]
    BY <1>2, Begun DEF ServerTypeOK
  <1>4. frames \in Seq(Sent)
    BY <1>1, UpstreamsEnd
  <1>5. /\ turn'[n] = [turn[n] EXCEPT !.pc = "relay", !.upstream = frames]
        /\ turn'[n] \in HandlerState /\ turn' \in [Turn -> HandlerState]
        /\ \A m \in Turn \ {n} : turn'[m] = turn[m]
    BY <1>1, <1>3, <1>4 DEF HandlerState
  <1>6. ServerTypeOK'
    BY <1>2, <1>3, <1>5 DEF ServerTypeOK
  <1>7. Alone(n) /\ Keeps(n) /\ (ticket => ticket') /\ \A m \in Turn \ {n} : RowsKept(m)
    BY <1>2, <1>5 DEF Alone, Keeps, RowsKept, HandlerState
  <1>8. wire[n] = <<>>
    BY <1>2, <1>3 DEF TurnAgrees, HandlerAgrees, Fresh
  <1>9. HandlerAgrees(n)'
    BY <1>2, <1>3, <1>5, <1>8 DEF TurnAgrees, HandlerAgrees, Fresh, HandlerState
  <1>10. WireAgrees(n)' /\ RecordAgrees(n)'
    BY <1>2, <1>3, <1>5, <1>8
    DEF TurnAgrees, WireAgrees, RecordAgrees, IsQuestion, IsAnswer, HandlerState
  <1>11. TextAgrees(n)'
    <2>1. screen.replies[n].state # "complete"
      BY <1>2, <1>3 DEF TextAgrees, Fresh
    <2> QED
      BY <1>2, <1>3, <1>5, <2>1 DEF TextAgrees, RestUnchanged, HandlerState, Whole
  <1> QED
    BY <1>2, <1>5, <1>6, <1>7, <1>9, <1>10, <1>11 DEF ServerStep, TurnAgrees, HandlerState

(* A frame is written. *)
LEMMA Written ==
  ASSUME ServerTypeOK, NEW n \in Turn, NEW frame \in Relayed, Write(n, <<frame>>)
  PROVE  /\ wire' \in [Turn -> Seq(Relayed)]
         /\ \A m \in Turn \ {n} : wire'[m] = wire[m]
         /\ \A i \in DOMAIN wire'[n] : \/ i \in DOMAIN wire[n] /\ wire'[n][i] = wire[n][i]
                                       \/ wire'[n][i] = frame
  <1>1. wire \in [Turn -> Seq(Relayed)] /\ wire[n] \in Seq(Relayed)
    BY DEF ServerTypeOK
  <1>2. CASE conn[n] = "open"
    <2> DEFINE both == wire[n] \o <<frame>>
    <2>1. <<frame>> \in Seq(Relayed) /\ Len(<<frame>>) = 1 /\ <<frame>>[1] = frame
      OBVIOUS
    <2>2. /\ both \in Seq(Relayed) /\ DOMAIN wire[n] = 1..Len(wire[n]) /\ Len(wire[n]) \in Nat
          /\ DOMAIN both = 1..(Len(wire[n]) + 1)
          /\ \A i \in 1..Len(wire[n]) : both[i] = wire[n][i]
          /\ both[Len(wire[n]) + 1] = frame
      BY <1>1, <2>1, Joined
    <2>3. wire' = [wire EXCEPT ![n] = both]
      BY <1>2 DEF Write
    <2> HIDE DEF both
    <2> QED
      BY <1>1, <2>2, <2>3
  <1>3. CASE conn[n] # "open"
    BY <1>1, <1>3 DEF Write
  <1> QED
    BY <1>2, <1>3

(* The next frame is taken from the stream, whose connection has not ended. *)
LEMMA NextFrame ==
  ASSUME IInv, NEW n \in Turn, turn[n].pc = "relay", turn[n].upstream # <<>>
  PROVE  /\ Head(turn[n].upstream) \in Sent /\ Tail(turn[n].upstream) \in Seq(Sent)
         /\ conn[n] # "ended"
  <1>1. turn[n].upstream \in Seq(Sent) /\ TurnAgrees(n)
    BY Begun DEF HandlerState
  <1>2. Head(turn[n].upstream) \in Sent /\ Tail(turn[n].upstream) \in Seq(Sent)
    BY <1>1, Shortened
  <1>3. conn[n] # "ended"
    BY <1>1 DEF TurnAgrees, HandlerAgrees
  <1> QED
    BY <1>2, <1>3

LEMMA InterceptKeeps ==
  ASSUME IInv, NEW n \in Turn, RelayFrame(n), Intercept(n, Head(turn[n].upstream)), RestUnchanged
  PROVE  ServerStep(n)
  <1> DEFINE frame == Head(turn[n].upstream)
             rest == Tail(turn[n].upstream)
  <1>1. /\ turn[n].pc = "relay" /\ turn[n].upstream # <<>> /\ turn[n].intercepted = 0
        /\ frame.event \in InterceptedFrames
        /\ UNCHANGED <<conn, wire, message, proposal, ticket>>
    BY DEF RelayFrame, Intercept
  <1>2. frame \in Sent /\ rest \in Seq(Sent) /\ conn[n] # "ended"
    BY <1>1, NextFrame
  <1>3. turn' = [turn EXCEPT ![n].pc = "propose", ![n].upstream = rest,
                             ![n].intercepted = 1, ![n].raw = frame.raw]
    BY DEF Intercept
  <1> HIDE DEF frame, rest
  <1>4. /\ ServerTypeOK /\ TurnAgrees(n) /\ TextAgrees(n) /\ turn[n] \in HandlerState
        /\ turn \in [Turn -> HandlerState] /\ turn[n].proposalId = 0
    BY <1>1, Begun, TurnAssumption DEF ServerTypeOK, TurnAgrees, HandlerAgrees, HandlerState
  <1>5. frame.raw \in Raw
    BY <1>1, <1>2 DEF InterceptedFrames, Raw, Sending
  <1>6. /\ turn'[n] = [turn[n] EXCEPT !.pc = "propose", !.upstream = rest,
                                      !.intercepted = 1, !.raw = frame.raw]
        /\ turn'[n] \in HandlerState /\ turn' \in [Turn -> HandlerState]
        /\ \A m \in Turn \ {n} : turn'[m] = turn[m]
    BY <1>2, <1>3, <1>4, <1>5 DEF HandlerState
  <1>7. ServerTypeOK'
    BY <1>1, <1>4, <1>6 DEF ServerTypeOK
  <1>8. Alone(n) /\ Keeps(n) /\ (ticket => ticket') /\ \A m \in Turn \ {n} : RowsKept(m)
    BY <1>1, <1>4, <1>6 DEF Alone, Keeps, RowsKept
  <1>9. HandlerAgrees(n)'
    BY <1>1, <1>2, <1>4, <1>6 DEF TurnAgrees, HandlerAgrees, Fresh, HandlerState
  <1>10. WireAgrees(n)' /\ RecordAgrees(n)'
    BY <1>1, <1>4, <1>6
    DEF TurnAgrees, WireAgrees, FrameAgrees, WithinBoundary, RecordAgrees, IsQuestion, IsAnswer, HandlerState
  <1>11. TextAgrees(n)'
    BY <1>1, <1>4, <1>6, TextKept DEF RestUnchanged, HandlerState, Fresh, Whole
  <1> QED
    BY <1>1, <1>6, <1>7, <1>8, <1>9, <1>10, <1>11 DEF ServerStep, TurnAgrees, HandlerState

LEMMA DropKeeps ==
  ASSUME IInv, NEW n \in Turn, RelayFrame(n), Drop(n, Head(turn[n].upstream)), RestUnchanged
  PROVE  ServerStep(n)
  <1> DEFINE rest == Tail(turn[n].upstream)
  <1>1. /\ turn[n].pc = "relay" /\ turn[n].upstream # <<>>
        /\ UNCHANGED <<conn, wire, message, proposal, ticket>>
    BY DEF RelayFrame, Drop
  <1>2. rest \in Seq(Sent) /\ conn[n] # "ended"
    BY <1>1, NextFrame
  <1>3. turn' = [turn EXCEPT ![n].upstream = rest]
    BY DEF Drop
  <1> HIDE DEF rest
  <1>4. /\ ServerTypeOK /\ TurnAgrees(n) /\ TextAgrees(n) /\ turn[n] \in HandlerState
        /\ turn \in [Turn -> HandlerState]
    BY <1>1, Begun DEF ServerTypeOK
  <1>5. /\ turn'[n] = [turn[n] EXCEPT !.upstream = rest]
        /\ turn'[n] \in HandlerState /\ turn' \in [Turn -> HandlerState]
        /\ \A m \in Turn \ {n} : turn'[m] = turn[m]
    BY <1>2, <1>3, <1>4 DEF HandlerState
  <1>6. ServerTypeOK'
    BY <1>1, <1>4, <1>5 DEF ServerTypeOK
  <1>7. Alone(n) /\ Keeps(n) /\ (ticket => ticket') /\ \A m \in Turn \ {n} : RowsKept(m)
    BY <1>1, <1>4, <1>5 DEF Alone, Keeps, RowsKept, HandlerState
  <1>8. HandlerAgrees(n)'
    BY <1>1, <1>2, <1>4, <1>5 DEF TurnAgrees, HandlerAgrees, Fresh, HandlerState
  <1>9. WireAgrees(n)' /\ RecordAgrees(n)'
    BY <1>1, <1>4, <1>5
    DEF TurnAgrees, WireAgrees, FrameAgrees, WithinBoundary, RecordAgrees, IsQuestion, IsAnswer, HandlerState
  <1>10. TextAgrees(n)'
    BY <1>1, <1>4, <1>5, TextKept DEF RestUnchanged, HandlerState, Fresh, Whole
  <1> QED
    BY <1>1, <1>5, <1>6, <1>7, <1>8, <1>9, <1>10 DEF ServerStep, TurnAgrees, HandlerState

LEMMA ForwardKeeps ==
  ASSUME IInv, NEW n \in Turn, RelayFrame(n), Forward(n, Head(turn[n].upstream)), RestUnchanged
  PROVE  ServerStep(n)
  <1>0. PICK frame : frame = Head(turn[n].upstream)
    OBVIOUS
  <1> DEFINE rest == Tail(turn[n].upstream)
             more == IF frame.event = "token" THEN Append(turn[n].tokens, frame.text)
                     ELSE turn[n].tokens
             said == IF frame.event = "token" /\ ~turn[n].done
                     THEN Append(turn[n].answer, frame.text) ELSE turn[n].answer
             done == turn[n].done \/ frame.event = "done"
             cited == IF frame.event = "evidence" THEN Append(turn[n].evidence, frame.ref)
                      ELSE turn[n].evidence
  <1>1. /\ turn[n].pc = "relay" /\ turn[n].upstream # <<>>
        /\ frame.event \in RelayableFrames /\ Write(n, <<frame>>)
        /\ UNCHANGED <<conn, message, proposal, ticket>>
    BY <1>0 DEF RelayFrame, Forward
  <1>2. frame \in Sent /\ rest \in Seq(Sent) /\ conn[n] # "ended"
    BY <1>0, <1>1, NextFrame
  <1>3. /\ ServerTypeOK /\ TurnAgrees(n) /\ TextAgrees(n) /\ turn[n] \in HandlerState
        /\ turn \in [Turn -> HandlerState] /\ screen.replies[n] \in ReplyState
    BY <1>1, Begun DEF ServerTypeOK
  <1>4. turn' = [turn EXCEPT ![n].upstream = rest, ![n].done = done, ![n].answer = said,
                             ![n].tokens = more, ![n].evidence = cited]
    BY <1>0, <1>3 DEF Forward, HandlerState
  <1> HIDE DEF rest
  <1>5. /\ frame \in Relayed
        /\ frame.event = "token" => frame.text \in Word
        /\ frame.event = "evidence" => frame.ref \in Ref
    BY <1>1, <1>2, SentRelayed, RelayedIs
  <1>6. /\ more \in Seq(Word) /\ said \in Seq(Word) /\ cited \in Seq(Ref) /\ done \in BOOLEAN
        /\ Range(turn[n].evidence) \subseteq Range(cited)
        /\ frame.event = "evidence" => frame.ref \in Range(cited)
    <2>1. /\ turn[n].tokens \in Seq(Word) /\ turn[n].evidence \in Seq(Ref)
          /\ turn[n].answer \in Seq(Word) /\ turn[n].done \in BOOLEAN
      BY <1>3 DEF HandlerState
    <2>2. more \in Seq(Word) /\ said \in Seq(Word) /\ done \in BOOLEAN
      BY <1>5, <2>1, Appended
    <2>3. CASE frame.event = "evidence"
      BY <1>5, <2>1, <2>2, <2>3, Appended
    <2>4. CASE frame.event # "evidence"
      BY <2>1, <2>2, <2>4
    <2> QED
      BY <2>3, <2>4
  <1>7. /\ done = (turn[n].done \/ frame.event = "done")
        /\ said = IF frame.event = "token" /\ ~turn[n].done
                  THEN Append(turn[n].answer, frame.text) ELSE turn[n].answer
    OBVIOUS
  <1>17. Agree(said, more) /\ (~done => said = more)
    <2>1. /\ turn[n].tokens \in Seq(Word) /\ turn[n].answer \in Seq(Word)
          /\ Agree(turn[n].answer, turn[n].tokens)
          /\ ~turn[n].done => turn[n].answer = turn[n].tokens
      BY <1>3 DEF TurnAgrees, HandlerAgrees, HandlerState
    <2>2. Len(turn[n].tokens) \in Nat /\ Len(turn[n].answer) \in Nat /\ Len(said) \in Nat
      BY <1>6, <2>1, LenProperties
    <2>3. CASE ~turn[n].done
      <3>1. said = more
        BY <2>1, <2>3
      <3> HIDE DEF said, more
      <3> QED
        BY <2>2, <3>1 DEF Agree
    <2>4. CASE turn[n].done /\ frame.event = "token"
      <3>1. /\ Len(more) = Len(turn[n].tokens) + 1 /\ said = turn[n].answer /\ done
            /\ \A i \in 1..Len(turn[n].tokens) : more[i] = turn[n].tokens[i]
        BY <1>5, <2>1, <2>4, Appended
      <3> HIDE DEF said, more, done
      <3> QED
        BY <2>1, <2>2, <3>1 DEF Agree
    <2>5. CASE turn[n].done /\ frame.event # "token"
      BY <2>1, <2>5
    <2> QED
      BY <2>3, <2>4, <2>5
  <1> HIDE DEF more, said, done, cited
  <1>8. /\ turn'[n] = [turn[n] EXCEPT !.upstream = rest, !.done = done, !.answer = said,
                                      !.tokens = more, !.evidence = cited]
        /\ turn'[n] \in HandlerState /\ turn' \in [Turn -> HandlerState]
        /\ \A m \in Turn \ {n} : turn'[m] = turn[m]
    BY <1>2, <1>3, <1>4, <1>6 DEF HandlerState
  <1>9. /\ turn'[n].pc = "relay" /\ turn'[n].upstream = rest /\ turn'[n].tokens = more
        /\ turn'[n].evidence = cited /\ turn'[n].proposalId = turn[n].proposalId
        /\ turn'[n].done = done /\ turn'[n].answer = said
        /\ turn'[n].intercepted = turn[n].intercepted
    BY <1>1, <1>3, <1>8 DEF HandlerState
  <1>10. /\ wire' \in [Turn -> Seq(Relayed)]
         /\ \A m \in Turn \ {n} : wire'[m] = wire[m]
         /\ \A i \in DOMAIN wire'[n] : \/ i \in DOMAIN wire[n] /\ wire'[n][i] = wire[n][i]
                                       \/ wire'[n][i] = frame
    BY <1>1, <1>3, <1>5, Written
  <1>11. ServerTypeOK'
    BY <1>1, <1>3, <1>8, <1>10 DEF ServerTypeOK
  <1>12. Alone(n) /\ Keeps(n) /\ (ticket => ticket') /\ \A m \in Turn \ {n} : RowsKept(m)
    BY <1>1, <1>8, <1>9, <1>10 DEF Alone, Keeps, RowsKept
  <1>13. HandlerAgrees(n)'
    <2>1. DoneWaits(wire'[n]) => turn'[n].done
      BY <1>3, <1>7, <1>9, <1>10 DEF TurnAgrees, HandlerAgrees, DoneWaits
    <2> QED
      BY <1>1, <1>2, <1>3, <1>9, <1>17, <2>1 DEF TurnAgrees, HandlerAgrees, Fresh
  <1>14. WireAgrees(n)'
    <2>1. FrameAgrees(n, frame)'
      BY <1>1, <1>6, <1>9 DEF FrameAgrees, RelayableFrames
    <2>2. \A i \in DOMAIN wire'[n] : wire'[n][i] = frame => FrameAgrees(n, wire[n][i])'
      BY <2>1 DEF FrameAgrees
    <2>3. WireAgrees(n)
      BY <1>3 DEF TurnAgrees
    <2> QED
      BY <1>6, <1>9, <1>10, <1>12, <2>2, <2>3, WireKeptAgrees
  <1>15. RecordAgrees(n)'
    BY <1>1, <1>3, <1>9 DEF TurnAgrees, RecordAgrees, IsQuestion, IsAnswer
  <1>16. TextAgrees(n)'
    <2>1. HandlerAgrees(n) /\ screen' = screen /\ screen.replies[n].text \in Seq(Word)
      BY <1>3 DEF TurnAgrees, RestUnchanged, ReplyState
    <2>2. turn[n].pc \notin Fresh /\ turn'[n].pc \notin Fresh /\ conn'[n] = conn[n]
      BY <1>1, <1>9 DEF Fresh
    <2> QED
      BY <1>1, <1>2, <1>3, <1>5, <1>6, <1>7, <1>9, <2>1, <2>2, TextWritten
  <1> QED
    BY <1>1, <1>9, <1>11, <1>12, <1>13, <1>14, <1>15, <1>16 DEF ServerStep, TurnAgrees

LEMMA RelayFrameKeeps ==
  ASSUME IInv, NEW n \in Turn, RelayFrame(n), RestUnchanged
  PROVE  ServerStep(n)
  BY InterceptKeeps, DropKeeps, ForwardKeeps DEF RelayFrame

LEMMA ProposeKeeps ==
  ASSUME IInv, NEW n \in Turn, Propose(n), RestUnchanged
  PROVE  ServerStep(n)
  <1> DEFINE raw == turn[n].raw
  <1>1. PICK ruling \in Ruling :
          LET kind == ResultKind(Problems(raw, OwnOrders), ruling)
              number == IF kind = "malformed" THEN "none" ELSE raw.target.number
          IN  /\ proposal' = [proposal EXCEPT ![n] = [status |-> StatusAfterPropose(kind), raw |-> raw]]
              /\ ticket' = (ticket \/ Escalates(kind, ruling))
              /\ Write(n, FramesForProposalResult(kind, n, number, Escalates(kind, ruling)))
    BY DEF Propose
  <1> DEFINE kind == ResultKind(Problems(raw, OwnOrders), ruling)
             number == IF kind = "malformed" THEN "none" ELSE raw.target.number
             escalated == Escalates(kind, ruling)
  <1>2. /\ proposal' = [proposal EXCEPT ![n] = [status |-> StatusAfterPropose(kind), raw |-> raw]]
        /\ ticket' = (ticket \/ escalated)
        /\ Write(n, FramesForProposalResult(kind, n, number, escalated))
    BY <1>1
  <1>3. /\ turn[n].pc = "propose" /\ UNCHANGED <<conn, message>>
        /\ turn' = [turn EXCEPT ![n].pc = "relay", ![n].proposalId = n]
    BY DEF Propose
  <1>4. /\ StatusAfterPropose(kind) \in ProposalStatus /\ escalated \in BOOLEAN
        /\ kind = "confirm" =>
             ShapeProblems(raw) = {} /\ raw.target.number \in OwnOrders /\ number = raw.target.number
    BY RulingFrame
  <1>5. PICK frame \in Relayed :
          /\ FramesForProposalResult(kind, n, number, escalated) = <<frame>>
          /\ frame.event \in {"proposal", "policy"}
          /\ frame.event = "proposal" =>
               kind = "confirm" /\ frame.id = n /\ frame.number = number
          /\ frame.event = "policy" => frame.escalated = escalated
    BY RulingFrame
  <1> HIDE DEF kind, number, escalated
  <1>6. /\ ServerTypeOK /\ TurnAgrees(n) /\ TextAgrees(n) /\ turn[n] \in HandlerState
        /\ turn \in [Turn -> HandlerState] /\ screen.replies[n] \in ReplyState
        /\ turn[n].proposalId = 0 /\ turn[n].intercepted = 1 /\ conn[n] # "ended"
        /\ ticket \in BOOLEAN /\ proposal \in [Turn -> ProposalState]
    BY <1>3, Begun DEF ServerTypeOK, TurnAgrees, HandlerAgrees
  <1>7. Write(n, <<frame>>)
    BY <1>2, <1>5
  <1>8. /\ turn'[n] = [turn[n] EXCEPT !.pc = "relay", !.proposalId = n]
        /\ turn'[n] \in HandlerState /\ turn' \in [Turn -> HandlerState]
        /\ \A m \in Turn \ {n} : turn'[m] = turn[m]
    BY <1>3, <1>6 DEF HandlerState
  <1>9. /\ turn'[n].pc = "relay" /\ turn'[n].proposalId = n
        /\ turn'[n].upstream = turn[n].upstream /\ turn'[n].tokens = turn[n].tokens
        /\ turn'[n].answer = turn[n].answer /\ turn'[n].done = turn[n].done
        /\ turn'[n].evidence = turn[n].evidence /\ turn'[n].intercepted = 1
    BY <1>6, <1>8 DEF HandlerState
  <1>10. /\ wire' \in [Turn -> Seq(Relayed)]
         /\ \A m \in Turn \ {n} : wire'[m] = wire[m]
         /\ \A i \in DOMAIN wire'[n] : \/ i \in DOMAIN wire[n] /\ wire'[n][i] = wire[n][i]
                                       \/ wire'[n][i] = frame
    BY <1>6, <1>7, Written
  <1>11. /\ proposal' \in [Turn -> ProposalState] /\ proposal'[n].raw = raw
         /\ \A m \in Turn \ {n} : proposal'[m] = proposal[m]
    BY <1>2, <1>4, <1>6 DEF ProposalState, HandlerState
  <1>12. ServerTypeOK'
    BY <1>2, <1>3, <1>4, <1>6, <1>8, <1>10, <1>11 DEF ServerTypeOK
  <1>13. Alone(n) /\ Keeps(n) /\ (ticket => ticket') /\ \A m \in Turn \ {n} : RowsKept(m)
    BY <1>2, <1>3, <1>6, <1>8, <1>10, <1>11 DEF Alone, Keeps, RowsKept
  <1>14. HandlerAgrees(n)'
    BY <1>3, <1>5, <1>6, <1>9, <1>10 DEF TurnAgrees, HandlerAgrees, Fresh, DoneWaits
  <1>15. WireAgrees(n)'
    <2>1. FrameAgrees(n, frame)'
      BY <1>2, <1>4, <1>5, <1>9, <1>11 DEF FrameAgrees, WithinBoundary
    <2>2. \A i \in DOMAIN wire'[n] : wire'[n][i] = frame => FrameAgrees(n, wire[n][i])'
      BY <2>1 DEF FrameAgrees, WithinBoundary
    <2>3. WireAgrees(n)
      BY <1>6 DEF TurnAgrees
    <2> QED
      BY <1>9, <1>10, <1>13, <2>2, <2>3, WireKeptAgrees
  <1>16. RecordAgrees(n)'
    BY <1>3, <1>6, <1>9 DEF TurnAgrees, RecordAgrees, IsQuestion, IsAnswer
  <1>17. TextAgrees(n)'
    <2>1. HandlerAgrees(n) /\ screen' = screen /\ screen.replies[n].text \in Seq(Word)
      BY <1>6 DEF TurnAgrees, RestUnchanged, ReplyState
    <2>2. turn[n].pc \notin Fresh /\ turn'[n].pc \notin Fresh /\ conn'[n] = conn[n]
      BY <1>3, <1>9 DEF Fresh
    <2>3. frame.event # "token" /\ (turn'[n].done <=> turn[n].done \/ frame.event = "done")
      BY <1>5, <1>9
    <2> QED
      BY <1>6, <1>7, <1>9, <2>1, <2>2, <2>3, TextWritten
  <1> QED
    BY <1>3, <1>9, <1>12, <1>13, <1>14, <1>15, <1>16, <1>17 DEF ServerStep, TurnAgrees

LEMMA CreateReplyKeeps ==
  ASSUME IInv, NEW n \in Turn, CreateReply(n), RestUnchanged
  PROVE  ServerStep(n)
  <1>0. PICK row : row = Reply(n)
    OBVIOUS
  <1>1. /\ turn[n].pc = "relay" /\ turn[n].upstream = <<>>
        /\ message' = Append(message, row) /\ turn' = [turn EXCEPT ![n].pc = "end"]
        /\ UNCHANGED <<conn, wire, proposal, ticket>>
    BY <1>0 DEF CreateReply
  <1>2. /\ ServerTypeOK /\ TurnAgrees(n) /\ TextAgrees(n) /\ turn[n] \in HandlerState
        /\ turn \in [Turn -> HandlerState]
    BY <1>1, Begun DEF ServerTypeOK
  <1>3. /\ row.turn = n /\ row.role = "assistant" /\ row.content = turn[n].tokens
        /\ row.evidence = turn[n].evidence /\ row.proposalId = turn[n].proposalId
        /\ row \in MessageRow
    BY <1>0, <1>2 DEF Reply, MessageRow, HandlerState
  <1>4. /\ turn'[n] = [turn[n] EXCEPT !.pc = "end"]
        /\ turn'[n] \in HandlerState /\ turn' \in [Turn -> HandlerState]
        /\ \A m \in Turn \ {n} : turn'[m] = turn[m]
    BY <1>1, <1>2 DEF HandlerState
  <1>5. /\ turn'[n].pc = "end" /\ turn'[n].upstream = turn[n].upstream
        /\ turn'[n].tokens = turn[n].tokens /\ turn'[n].evidence = turn[n].evidence
        /\ turn'[n].answer = turn[n].answer /\ turn'[n].done = turn[n].done
        /\ turn'[n].proposalId = turn[n].proposalId /\ turn'[n].intercepted = turn[n].intercepted
    BY <1>2, <1>4 DEF HandlerState
  <1>6. /\ Len(message) \in Nat /\ DOMAIN message = 1..Len(message)
        /\ DOMAIN message' = 1..(Len(message) + 1)
        /\ \A i \in DOMAIN message : i \in DOMAIN message' /\ message'[i] = message[i]
        /\ \A i \in DOMAIN message' : i \in DOMAIN message \/ i = Len(message) + 1
        /\ message'[Len(message) + 1] = row
        /\ message' \in Seq(MessageRow)
    <2>1. message \in Seq(MessageRow)
      BY <1>2 DEF ServerTypeOK
    <2>2. message' \in Seq(MessageRow)
      BY <1>1, <1>3, <2>1, Appended
    <2> QED
      BY <1>1, <1>2, <1>3, <2>2, RowsBelow
  <1>7. ServerTypeOK'
    BY <1>1, <1>2, <1>4, <1>6 DEF ServerTypeOK
  <1>8. Alone(n) /\ Keeps(n) /\ (ticket => ticket') /\ \A m \in Turn \ {n} : RowsKept(m)
    BY <1>1, <1>3, <1>4, <1>5 DEF Alone, Keeps, RowsKept
  <1>9. HandlerAgrees(n)' /\ WireAgrees(n)'
    BY <1>1, <1>2, <1>5
    DEF TurnAgrees, HandlerAgrees, WireAgrees, FrameAgrees, WithinBoundary, Fresh
  <1>10. RecordAgrees(n)'
    <2>1. PICK at : at = Len(message) + 1
      OBVIOUS
    <2>2. /\ \A i \in DOMAIN message : ~IsAnswer(n, i)
          /\ \E j \in DOMAIN message : IsQuestion(n, j)
      BY <1>1, <1>2 DEF TurnAgrees, RecordAgrees
    <2>3. \A j \in DOMAIN message' : IsAnswer(n, j)' <=> j = at
      <3>1. \A j \in DOMAIN message : ~IsAnswer(n, j)' /\ j # at
        BY <1>6, <2>1, <2>2 DEF IsAnswer
      <3>2. IsAnswer(n, at)'
        BY <1>3, <1>6, <2>1 DEF IsAnswer
      <3> QED
        BY <1>6, <2>1, <3>1, <3>2
    <2>4. \E j \in 1..(at - 1) : IsQuestion(n, j)'
      BY <1>6, <2>1, <2>2 DEF IsQuestion
    <2>5. /\ at \in DOMAIN message' /\ message'[at].content = turn'[n].tokens
          /\ message'[at].evidence = turn'[n].evidence
          /\ message'[at].proposalId = turn'[n].proposalId
      BY <1>3, <1>5, <1>6, <2>1
    <2> QED
      BY <1>5, <2>3, <2>4, <2>5 DEF RecordAgrees
  <1>11. TextAgrees(n)'
    BY <1>1, <1>2, <1>5, TextKept DEF RestUnchanged, Fresh, Whole
  <1> QED
    BY <1>1, <1>5, <1>7, <1>8, <1>9, <1>10, <1>11 DEF ServerStep, TurnAgrees

(* The connection, when the handler ends it. *)
LEMMA HungUp ==
  ASSUME ServerTypeOK, NEW n \in Turn, NEW how \in {"cut", "refused", "ended"}, HangUp(n, how)
  PROVE  /\ conn' \in [Turn -> {"none", "open", "aborted", "cut", "refused", "ended"}]
         /\ \A m \in Turn \ {n} : conn'[m] = conn[m]
         /\ conn'[n] = conn[n] \/ (conn[n] = "open" /\ conn'[n] = how)
         /\ Whole(n)' => Whole(n)
  BY DEF HangUp, ServerTypeOK, Whole

LEMMA EndResponseKeeps ==
  ASSUME IInv, NEW n \in Turn, EndResponse(n), RestUnchanged
  PROVE  ServerStep(n)
  <1>1. /\ turn[n].pc = "end" /\ HangUp(n, "ended")
        /\ turn' = [turn EXCEPT ![n].pc = "ended"]
        /\ UNCHANGED <<wire, message, proposal, ticket>>
    BY DEF EndResponse
  <1>2. /\ ServerTypeOK /\ TurnAgrees(n) /\ TextAgrees(n) /\ turn[n] \in HandlerState
        /\ turn \in [Turn -> HandlerState]
    BY <1>1, Begun DEF ServerTypeOK
  <1>3. /\ turn'[n] = [turn[n] EXCEPT !.pc = "ended"]
        /\ turn'[n] \in HandlerState /\ turn' \in [Turn -> HandlerState]
        /\ \A m \in Turn \ {n} : turn'[m] = turn[m]
    BY <1>1, <1>2 DEF HandlerState
  <1>4. /\ turn'[n].pc = "ended" /\ turn'[n].upstream = turn[n].upstream
        /\ turn'[n].tokens = turn[n].tokens /\ turn'[n].evidence = turn[n].evidence
        /\ turn'[n].answer = turn[n].answer /\ turn'[n].done = turn[n].done
        /\ turn'[n].proposalId = turn[n].proposalId /\ turn'[n].intercepted = turn[n].intercepted
    BY <1>2, <1>3 DEF HandlerState
  <1>5. /\ conn' \in [Turn -> {"none", "open", "aborted", "cut", "refused", "ended"}]
        /\ \A m \in Turn \ {n} : conn'[m] = conn[m]
        /\ Whole(n)' => Whole(n)
    BY <1>1, <1>2, HungUp
  <1>6. ServerTypeOK'
    BY <1>1, <1>2, <1>3, <1>5 DEF ServerTypeOK
  <1>7. Alone(n) /\ Keeps(n) /\ (ticket => ticket') /\ \A m \in Turn \ {n} : RowsKept(m)
    BY <1>1, <1>3, <1>4, <1>5 DEF Alone, Keeps, RowsKept
  <1>8. HandlerAgrees(n)' /\ WireAgrees(n)' /\ RecordAgrees(n)'
    BY <1>1, <1>2, <1>4
    DEF TurnAgrees, HandlerAgrees, WireAgrees, FrameAgrees, WithinBoundary, Fresh, RecordAgrees,
        IsAnswer, IsQuestion
  <1>9. TextAgrees(n)'
    BY <1>1, <1>2, <1>4, <1>5, TextKept DEF RestUnchanged, Fresh
  <1> QED
    BY <1>1, <1>4, <1>6, <1>7, <1>8, <1>9 DEF ServerStep, TurnAgrees

LEMMA NoticeDisconnectKeeps ==
  ASSUME IInv, NEW n \in Turn, NoticeDisconnect(n), RestUnchanged
  PROVE  ServerStep(n)
  <1>1. /\ turn[n].pc \in {"relay", "propose", "end"} /\ conn[n] \in {"aborted", "cut"}
        /\ UNCHANGED <<conn, wire, message, proposal, ticket>>
    BY DEF NoticeDisconnect
  <1>2. PICK read \in 0..Len(turn[n].upstream) :
          turn' = [turn EXCEPT ![n].cancelled = TRUE, ![n].upstream = SubSeq(@, 1, read)]
    BY DEF NoticeDisconnect
  <1>3. /\ ServerTypeOK /\ TurnAgrees(n) /\ TextAgrees(n) /\ turn[n] \in HandlerState
        /\ turn \in [Turn -> HandlerState] /\ turn[n].upstream \in Seq(Sent)
    BY <1>1, Begun DEF ServerTypeOK, HandlerState
  <1>4. PICK left : left = SubSeq(turn[n].upstream, 1, read)
    OBVIOUS
  <1>5. /\ left \in Seq(Sent) /\ Len(left) = read /\ DOMAIN left = 1..read
        /\ \A i \in 1..read : left[i] = turn[n].upstream[i]
        /\ DOMAIN turn[n].upstream = 1..Len(turn[n].upstream) /\ Len(turn[n].upstream) \in Nat
        /\ turn[n].upstream = <<>> => left = <<>>
    <2>1. /\ left \in Seq(Sent) /\ Len(left) = read /\ DOMAIN left = 1..read
          /\ \A i \in 1..read : left[i] = turn[n].upstream[i]
      BY <1>3, <1>4, Cut
    <2>2. DOMAIN turn[n].upstream = 1..Len(turn[n].upstream) /\ Len(turn[n].upstream) \in Nat
      BY <1>3, LenProperties
    <2>3. ASSUME turn[n].upstream = <<>>
          PROVE  left = <<>>
      <3>1. Len(turn[n].upstream) = 0
        BY <2>3, EmptySeq
      <3>2. Len(left) = 0
        BY <2>1, <3>1
      <3> QED
        BY <2>1, <3>2, EmptySeq
    <2> QED
      BY <2>1, <2>2, <2>3
  <1>6. /\ turn'[n] = [turn[n] EXCEPT !.cancelled = TRUE, !.upstream = left]
        /\ turn'[n] \in HandlerState /\ turn' \in [Turn -> HandlerState]
        /\ \A m \in Turn \ {n} : turn'[m] = turn[m]
    BY <1>2, <1>3, <1>4, <1>5 DEF HandlerState
  <1>7. /\ turn'[n].pc = turn[n].pc /\ turn'[n].upstream = left
        /\ turn'[n].tokens = turn[n].tokens /\ turn'[n].evidence = turn[n].evidence
        /\ turn'[n].answer = turn[n].answer /\ turn'[n].done = turn[n].done
        /\ turn'[n].proposalId = turn[n].proposalId /\ turn'[n].intercepted = turn[n].intercepted
    BY <1>3, <1>6 DEF HandlerState
  <1>8. ServerTypeOK'
    BY <1>1, <1>3, <1>6 DEF ServerTypeOK
  <1>9. Alone(n) /\ Keeps(n) /\ (ticket => ticket') /\ \A m \in Turn \ {n} : RowsKept(m)
    BY <1>1, <1>6, <1>7 DEF Alone, Keeps, RowsKept
  <1>10. HandlerAgrees(n)'
    BY <1>1, <1>3, <1>5, <1>7 DEF TurnAgrees, HandlerAgrees, Fresh
  <1>11. WireAgrees(n)' /\ RecordAgrees(n)'
    BY <1>1, <1>3, <1>7
    DEF TurnAgrees, WireAgrees, FrameAgrees, WithinBoundary, RecordAgrees, IsAnswer, IsQuestion
  <1>12. TextAgrees(n)'
    BY <1>1, <1>3, <1>5, <1>7, TextKept DEF RestUnchanged, Fresh, Whole
  <1> QED
    BY <1>1, <1>7, <1>8, <1>9, <1>10, <1>11, <1>12 DEF ServerStep, TurnAgrees

(* A failure relays nothing more: at most an error frame is written. *)
LEMMA TurnFailsKeeps ==
  ASSUME IInv, NEW n \in Turn, TurnFails(n), RestUnchanged
  PROVE  ServerStep(n)
  <1>1. /\ turn' = [turn EXCEPT ![n].pc = "failed", ![n].upstream = <<>>]
        /\ UNCHANGED <<message, ticket>>
        /\ turn[n].pc \in {"createQuestion", "readHistory", "relay", "propose"}
    BY DEF TurnFails, Refuse, FailRelay, FailToSave
  <1>2. /\ ServerTypeOK /\ TurnAgrees(n) /\ TextAgrees(n) /\ turn[n] \in HandlerState
        /\ turn \in [Turn -> HandlerState] /\ proposal \in [Turn -> ProposalState]
        /\ screen.replies[n] \in ReplyState /\ wire \in [Turn -> Seq(Relayed)]
        /\ conn[n] # "ended"
    BY <1>1, Begun DEF ServerTypeOK, TurnAgrees, HandlerAgrees
  <1>3. /\ turn'[n] = [turn[n] EXCEPT !.pc = "failed", !.upstream = <<>>]
        /\ turn'[n] \in HandlerState /\ turn' \in [Turn -> HandlerState]
        /\ \A m \in Turn \ {n} : turn'[m] = turn[m]
    <2>1. <<>> \in Seq(Sent)
      BY EmptySeq
    <2> QED
      BY <1>1, <1>2, <2>1 DEF HandlerState
  <1>4. /\ turn'[n].pc = "failed" /\ turn'[n].upstream = <<>>
        /\ turn'[n].tokens = turn[n].tokens /\ turn'[n].evidence = turn[n].evidence
        /\ turn'[n].answer = turn[n].answer /\ turn'[n].done = turn[n].done
        /\ turn'[n].proposalId = turn[n].proposalId /\ turn'[n].intercepted = turn[n].intercepted
    BY <1>2, <1>3 DEF HandlerState
  <1>5. PICK how \in {"cut", "refused", "ended"} : HangUp(n, how)
    BY DEF TurnFails, Refuse, FailRelay, FailToSave
  <1>6. /\ conn' \in [Turn -> {"none", "open", "aborted", "cut", "refused", "ended"}]
        /\ \A m \in Turn \ {n} : conn'[m] = conn[m]
        /\ Whole(n)' => Whole(n)
    BY <1>2, <1>5, HungUp
  <1>7. /\ proposal' \in [Turn -> ProposalState]
        /\ \A m \in Turn \ {n} : proposal'[m] = proposal[m]
        /\ proposal'[n] = proposal[n] \/ turn[n].proposalId = 0
    <2>1. CASE proposal' = proposal
      BY <1>2, <2>1
    <2>2. CASE /\ turn[n].pc = "propose"
               /\ proposal' = [proposal EXCEPT ![n] = [status |-> "unruled", raw |-> turn[n].raw]]
      <3>1. [status |-> "unruled", raw |-> turn[n].raw] \in ProposalState
        BY <1>2 DEF ProposalState, ProposalStatus, HandlerState
      <3>2. turn[n].proposalId = 0
        BY <1>2, <2>2 DEF TurnAgrees, HandlerAgrees
      <3> QED
        BY <1>2, <2>2, <3>1, <3>2
    <2> QED
      BY <2>1, <2>2 DEF TurnFails, Refuse, FailRelay, FailToSave
  <1>8. PICK lost : lost = [event |-> "error"]
    OBVIOUS
  <1>9. lost \in Relayed /\ lost.event = "error"
    BY <1>8 DEF Relayed
  <1>10. /\ wire' \in [Turn -> Seq(Relayed)]
         /\ \A m \in Turn \ {n} : wire'[m] = wire[m]
         /\ \A i \in DOMAIN wire'[n] : \/ i \in DOMAIN wire[n] /\ wire'[n][i] = wire[n][i]
                                       \/ wire'[n][i] = lost
    <2>1. CASE wire' = wire
      BY <1>2, <2>1
    <2>2. CASE Write(n, <<lost>>)
      BY <1>2, <1>9, <2>2, Written
    <2> QED
      BY <1>8, <2>1, <2>2 DEF TurnFails, Refuse, FailRelay, FailToSave
  <1>11. ServerTypeOK'
    BY <1>1, <1>2, <1>3, <1>6, <1>7, <1>10 DEF ServerTypeOK
  <1>12. Alone(n) /\ Keeps(n) /\ (ticket => ticket') /\ \A m \in Turn \ {n} : RowsKept(m)
    BY <1>1, <1>3, <1>4, <1>6, <1>7, <1>10 DEF Alone, Keeps, RowsKept
  <1>13. HandlerAgrees(n)'
    <2>1. DoneWaits(wire'[n]) => turn'[n].done
      BY <1>2, <1>4, <1>9, <1>10 DEF TurnAgrees, HandlerAgrees, DoneWaits
    <2> QED
      BY <1>2, <1>4, <2>1 DEF TurnAgrees, HandlerAgrees, Fresh
  <1>14. WireAgrees(n)'
    <2>1. \A i \in DOMAIN wire'[n] : wire'[n][i] = lost => FrameAgrees(n, wire[n][i])'
      BY <1>9 DEF FrameAgrees
    <2>2. WireAgrees(n)
      BY <1>2 DEF TurnAgrees
    <2> QED
      BY <1>4, <1>10, <1>12, <2>1, <2>2, WireKeptAgrees
  <1>15. RecordAgrees(n)'
    BY <1>1, <1>2, <1>4 DEF TurnAgrees, RecordAgrees, IsAnswer, IsQuestion
  <1>16. TextAgrees(n)'
    <2>1. CASE wire' = wire
      BY <1>1, <1>2, <1>4, <1>6, <2>1, TextKept DEF RestUnchanged, Fresh
    <2>2. CASE FailRelay(n)
      <3>1. Write(n, <<lost>>) /\ HangUp(n, "ended") /\ turn[n].pc \in {"relay", "propose"}
        BY <1>8, <2>2 DEF FailRelay
      <3>2. conn'[n] = conn[n] \/ (conn[n] = "open" /\ conn'[n] = "ended")
        BY <1>2, <3>1, HungUp
      <3>3. HandlerAgrees(n) /\ screen' = screen /\ screen.replies[n].text \in Seq(Word)
        BY <1>2 DEF TurnAgrees, RestUnchanged, ReplyState
      <3>4. turn[n].pc \notin Fresh /\ turn'[n].pc \notin Fresh
        BY <1>4, <3>1 DEF Fresh
      <3>5. lost.event # "token" /\ (turn'[n].done <=> turn[n].done \/ lost.event = "done")
        BY <1>4, <1>9
      <3> QED
        BY <1>2, <1>4, <1>9, <3>1, <3>2, <3>3, <3>4, <3>5, TextWritten
    <2> QED
      BY <2>1, <2>2 DEF TurnFails, Refuse, FailToSave
  <1> QED
    BY <1>1, <1>4, <1>11, <1>12, <1>13, <1>14, <1>15, <1>16 DEF ServerStep, TurnAgrees

LEMMA TurnStepKeeps ==
  ASSUME IInv, NEW n \in Turn, TurnStep(n)
  PROVE  IInv'
  <1>1. RestUnchanged
    BY DEF TurnStep, ClientRest, clientVars, RestUnchanged
  <1>2. ServerStep(n)
    BY <1>1, CreateQuestionKeeps, OpenStreamKeeps, RelayFrameKeeps, ProposeKeeps,
       CreateReplyKeeps, EndResponseKeeps, NoticeDisconnectKeeps, TurnFailsKeeps
    DEF TurnStep, HandlerStep
  <1> QED
    BY <1>1, <1>2, ServerStepKeeps

----------------------------------------------------------------------------
(* The decisions, on the server *)

LEMMA DecidedKeeps ==
  ASSUME IInv, Later, TypeOK', UNCHANGED <<turn, conn, wire, message, screen, page, escalation, stops, early>>,
         \A r \in Request : RequestAgrees(r)'
  PROVE  IInv'
  <1>1. TurnsInOrder' /\ StoppedByCustomer'
    BY DEF IInv, TurnsInOrder, StoppedByCustomer
  <1>2. ASSUME NEW m \in Turn
        PROVE  TurnAgrees(m)'
    <2>1. TurnAgrees(m) /\ ServerTypeOK /\ turn'[m] = turn[m] /\ conn'[m] = conn[m]
          /\ WireKept(m) /\ RowsKept(m)
      BY DEF IInv, TypeOK, WireKept, RowsKept
    <2> QED
      BY <2>1, TurnKept
  <1>3. ASSUME NEW m \in DOMAIN screen'.replies
        PROVE  ReplyAgrees(m)'
    <2>1. m \in Turn /\ TextAgrees(m) /\ OfferAgrees(m)
      BY <1>3 DEF IInv, TurnsInOrder, ReplyAgrees
    <2>2. TextAgrees(m)'
      BY <2>1 DEF TextAgrees, Whole
    <2> QED
      BY <2>1, <2>2, OfferKept DEF ReplyAgrees
  <1>4. TicketAgrees'
    BY TicketKept DEF IInv
  <1> QED
    BY <1>1, <1>2, <1>3, <1>4 DEF IInv

LEMMA SettleKeeps ==
  ASSUME IInv, NEW r \in Request, request[r].pc = "sent",
         NEW status \in ProposalStatus, NEW kind \in {"ok", "stale", "fault"},
         NEW escalated \in BOOLEAN, Settle(r, status, kind, escalated),
         proposal[request[r].id].status \in {status, "pending"},
         conflicts \subseteq conflicts', conflicts' \subseteq Turn,
         kind = "ok" => status = Target(request[r].verb),
         kind = "stale" => status # "pending" \/ request[r].id \in conflicts',
         kind = "fault" /\ escalated => status # "pending",
         UNCHANGED <<turn, conn, wire, message, screen, page, escalation, stops, early>>
  PROVE  IInv'
  <1> DEFINE q == request[r]
  <1>1. /\ q.id \in Turn /\ turn[q.id].proposalId = q.id /\ q.verb \in {"confirm", "reject"}
        /\ q \in RequestState /\ request \in [Request -> RequestState]
        /\ proposal \in [Turn -> ProposalState] /\ ticket \in BOOLEAN
    BY DEF IInv, RequestAgrees, TypeOK, ServerTypeOK, ClientTypeOK
  <1>2. /\ proposal' = [proposal EXCEPT ![q.id].status = status] /\ ticket' = (ticket \/ escalated)
        /\ request' = [request EXCEPT ![r].pc = "answered", ![r].kind = kind, ![r].escalated = escalated]
    BY DEF Settle
  <1> HIDE DEF q
  <1>3. /\ proposal' \in [Turn -> ProposalState]
        /\ \A m \in Turn : /\ proposal'[m].raw = proposal[m].raw
                           /\ proposal[m].status # "pending" => proposal'[m].status = proposal[m].status
        /\ proposal'[q.id].status = status
    BY <1>1, <1>2 DEF ProposalState, q
  <1>4. /\ request'[r] = [q EXCEPT !.pc = "answered", !.kind = kind, !.escalated = escalated]
        /\ request'[r] \in RequestState /\ request' \in [Request -> RequestState]
        /\ \A p \in Request \ {r} : request'[p] = request[p]
    BY <1>1, <1>2 DEF RequestState, q
  <1>5. Later
    BY <1>2, <1>3 DEF Later, Keeps
  <1>6. TypeOK'
    BY <1>1, <1>2, <1>3, <1>4 DEF IInv, TypeOK, ServerTypeOK, ClientTypeOK
  <1>7. ASSUME NEW p \in Request
        PROVE  RequestAgrees(p)'
    <2>1. CASE p # r
      <3>1. RequestAgrees(p) /\ request'[p] = request[p]
        BY <1>4, <2>1 DEF IInv
      <3> QED
        BY <1>5, <3>1, RequestKept
    <2>2. CASE p = r
      <3>1. /\ request'[r].pc = "answered" /\ request'[r].id = q.id /\ request'[r].verb = q.verb
            /\ request'[r].kind = kind /\ request'[r].escalated = escalated
        BY <1>1, <1>4 DEF RequestState
      <3>2. /\ kind = "ok" => status = Target(q.verb)
            /\ kind = "stale" => status # "pending" \/ q.id \in conflicts'
        BY DEF q
      <3>3. escalated => ticket'
        BY <1>2
      <3> QED
        BY <1>1, <1>3, <2>2, <3>1, <3>2, <3>3 DEF RequestAgrees, Settled, Target
    <2> QED
      BY <2>1, <2>2
  <1> QED
    BY <1>5, <1>6, <1>7, DecidedKeeps

LEMMA DecideOnServerKeeps ==
  ASSUME IInv, NEW r \in Request, DecideOnServer(r)
  PROVE  IInv'
  <1> DEFINE status == proposal[request[r].id].status
             target == Target(request[r].verb)
  <1>1. /\ request[r].pc = "sent"
        /\ UNCHANGED <<turn, conn, wire, message, screen, page, escalation, stops, early>>
    BY DEF DecideOnServer, clientVars
  <1>2. /\ request[r].id \in Turn /\ status \in ProposalStatus /\ target \in ProposalStatus
        /\ conflicts \subseteq Turn /\ target # "pending" /\ target = Target(request[r].verb)
    BY <1>1 DEF IInv, RequestAgrees, TypeOK, ServerTypeOK, ClientTypeOK, ProposalState, ProposalStatus, Target
  <1> HIDE DEF target
  <1>3. CASE status \in {"pending", target} /\ Settle(r, target, "ok", FALSE) /\ UNCHANGED conflicts
    BY <1>1, <1>2, <1>3, SettleKeeps
  <1>4. CASE status \notin {"pending", target} /\ Settle(r, status, "stale", FALSE) /\ UNCHANGED conflicts
    BY <1>1, <1>2, <1>4, SettleKeeps
  <1>5. CASE /\ status = "pending"
             /\ \E ruling \in Ruling \ {"confirm-required"} :
                  LET kind == ResultKind({}, ruling)
                  IN  Settle(r, "refused_at_execution", "stale", Escalates(kind, ruling))
             /\ UNCHANGED conflicts
    <2>1. PICK ruling \in Ruling :
             Settle(r, "refused_at_execution", "stale", Escalates(ResultKind({}, ruling), ruling))
      BY <1>5
    <2>2. /\ Escalates(ResultKind({}, ruling), ruling) \in BOOLEAN
          /\ "refused_at_execution" \in ProposalStatus
      BY DEF Escalates, ProposalStatus
    <2> QED
      BY <1>1, <1>2, <1>5, <2>1, <2>2, SettleKeeps
  <1>6. CASE status = "pending" /\ Settle(r, "failed", "fault", TRUE) /\ UNCHANGED conflicts
    <2>1. "failed" \in ProposalStatus
      BY DEF ProposalStatus
    <2> QED
      BY <1>1, <1>2, <1>6, <2>1, SettleKeeps
  <1>7. CASE /\ status = "pending" /\ Settle(r, "pending", "stale", FALSE)
             /\ conflicts' = conflicts \union {request[r].id}
    <2>1. "pending" \in ProposalStatus
      BY DEF ProposalStatus
    <2> QED
      BY <1>1, <1>2, <1>7, <2>1, SettleKeeps
  <1> QED
    BY <1>3, <1>4, <1>5, <1>6, <1>7 DEF DecideOnServer, target

LEMMA DecisionFailsKeeps ==
  ASSUME IInv, NEW r \in Request, DecisionFails(r)
  PROVE  IInv'
  <1> DEFINE status == proposal[request[r].id].status
             target == Target(request[r].verb)
  <1>1. /\ request[r].pc = "sent" /\ UNCHANGED conflicts
        /\ UNCHANGED <<turn, conn, wire, message, screen, page, escalation, stops, early>>
    BY DEF DecisionFails, clientVars
  <1>2. /\ request[r].id \in Turn /\ status \in ProposalStatus /\ target \in ProposalStatus
        /\ conflicts \subseteq Turn
    BY <1>1 DEF IInv, RequestAgrees, TypeOK, ServerTypeOK, ClientTypeOK, ProposalState, ProposalStatus, Target
  <1>3. CASE Settle(r, status, "fault", FALSE)
    BY <1>1, <1>2, <1>3, SettleKeeps
  <1>4. CASE status = "pending" /\ Settle(r, target, "fault", FALSE)
    <2> HIDE DEF target
    <2> QED
      BY <1>1, <1>2, <1>4, SettleKeeps
  <1> QED
    BY <1>3, <1>4 DEF DecisionFails

LEMMA ExpireKeeps ==
  ASSUME IInv, NEW n \in Turn, Expire(n)
  PROVE  IInv'
  <1>1. /\ proposal[n].status = "pending" /\ proposal' = [proposal EXCEPT ![n].status = "expired"]
        /\ UNCHANGED <<turn, conn, wire, message, ticket, screen, page, request, escalation, conflicts, stops, early>>
    BY DEF Expire, clientVars
  <1>2. proposal \in [Turn -> ProposalState]
    BY DEF IInv, TypeOK, ServerTypeOK
  <1>3. /\ proposal' \in [Turn -> ProposalState]
        /\ \A m \in Turn : /\ proposal'[m].raw = proposal[m].raw
                           /\ proposal[m].status # "pending" => proposal'[m].status = proposal[m].status
    BY <1>1, <1>2 DEF ProposalState, ProposalStatus
  <1>4. Later
    BY <1>1, <1>3 DEF Later, Keeps
  <1>5. TypeOK'
    BY <1>1, <1>3 DEF IInv, TypeOK, ServerTypeOK, ClientTypeOK
  <1>6. \A r \in Request : RequestAgrees(r)'
    BY <1>1, <1>4, RequestKept DEF IInv
  <1> QED
    BY <1>1, <1>4, <1>5, <1>6, DecidedKeeps

----------------------------------------------------------------------------
(* The page *)

LEMMA PendingIs ==
  ASSUME IInv, NEW id \in Turn \union {0}
  PROVE  LET i == PendingProposal(screen, id)
         IN  /\ i \in {0, id}
             /\ i # 0 => /\ id \in DOMAIN screen.replies /\ id \in Turn
                         /\ screen.replies[id].proposal.id = id
                         /\ screen.replies[id].proposal.status = "pending"
                         /\ turn[id].proposalId = id
  <1> DEFINE offer(i) == screen.replies[i].proposal
             found == {i \in DOMAIN screen.replies : offer(i).id = id /\ offer(i).status = "pending"}
  <1>1. ASSUME NEW i \in found
        PROVE  i = id /\ id \in Turn /\ turn[id].proposalId = id
    <2>1. OfferAgrees(i) /\ i \in Turn
      BY DEF IInv, ReplyAgrees, TurnsInOrder
    <2>2. offer(i) # NoOffer
      BY DEF NoOffer
    <2> QED
      BY <2>1, <2>2 DEF OfferAgrees
  <1>2. PendingProposal(screen, id) = IF found = {} THEN 0 ELSE CHOOSE i \in found : \A j \in found : j <= i
    BY DEF PendingProposal, LastOf
  <1>3. CASE found = {}
    BY <1>2, <1>3
  <1>4. CASE found # {}
    <2>1. found = {id} /\ id \in Turn /\ turn[id].proposalId = id
      BY <1>1, <1>4
    <2>2. id <= id
      BY <2>1, TurnAssumption
    <2>3. (CHOOSE i \in found : \A j \in found : j <= i) = id
      <3> HIDE DEF found
      <3> QED
        BY <2>1, <2>2
    <2> QED
      BY <1>2, <1>4, <2>1, <2>3
  <1> QED
    BY <1>3, <1>4

LEMMA PageKeeps ==
  ASSUME IInv, UNCHANGED <<serverVars, screen, escalation, conflicts, stops, early>>,
         page' \in PageState, request' \in [Request -> RequestState],
         page'.current = page.current,
         page'.conversation # "open" => page.conversation # "open",
         \A r \in Request : RequestAgrees(r)'
  PROVE  IInv'
  <1>1. /\ UNCHANGED <<turn, conn, wire, message, proposal, ticket>>
        /\ UNCHANGED <<screen, escalation, conflicts, stops, early>>
    BY DEF serverVars
  <1>2. TypeOK'
    BY <1>1 DEF IInv, TypeOK, ServerTypeOK, ClientTypeOK
  <1>3. TurnsInOrder' /\ StoppedByCustomer' /\ TicketAgrees'
    <2>1. TurnsInOrder'
      BY <1>1 DEF IInv, TurnsInOrder
    <2>2. StoppedByCustomer'
      BY <1>1 DEF IInv, StoppedByCustomer
    <2>3. TicketAgrees'
      BY <1>1 DEF IInv, TicketAgrees
    <2> QED
      BY <2>1, <2>2, <2>3
  <1>4. ASSUME NEW m \in Turn
        PROVE  TurnAgrees(m)'
    <2>1. Later /\ TurnAgrees(m) /\ ServerTypeOK /\ turn'[m] = turn[m] /\ conn'[m] = conn[m]
          /\ WireKept(m) /\ RowsKept(m)
      BY <1>1 DEF IInv, TypeOK, WireKept, RowsKept, Later, Keeps
    <2> QED
      BY <2>1, TurnKept
  <1>5. ASSUME NEW m \in DOMAIN screen'.replies
        PROVE  ReplyAgrees(m)'
    <2>1. m \in Turn /\ TextAgrees(m) /\ OfferAgrees(m) /\ Later
      BY <1>1, <1>5 DEF IInv, TurnsInOrder, ReplyAgrees, Later, Keeps
    <2>2. TextAgrees(m)'
      BY <1>1, <2>1 DEF TextAgrees, Whole
    <2>3. OfferAgrees(m)'
      BY <1>1, <2>1, OfferKept
    <2> QED
      BY <2>2, <2>3 DEF ReplyAgrees
  <1> QED
    BY <1>2, <1>3, <1>4, <1>5 DEF IInv

LEMMA RequestsStay ==
  ASSUME IInv, UNCHANGED <<serverVars, request, conflicts>>
  PROVE  \A r \in Request : RequestAgrees(r)'
  BY DEF serverVars, IInv, RequestAgrees, Settled

LEMMA OnlyThePage ==
  ASSUME IInv,
         \/ StartConversation \/ ConversationNotCreated \/ Dismiss
         \/ \E n \in Turn : Review(n)
  PROVE  IInv'
  <1>1. page \in PageState /\ request \in [Request -> RequestState]
    BY DEF IInv, TypeOK, ClientTypeOK
  <1>2. UNCHANGED <<serverVars, screen, request, escalation, conflicts, stops, early>>
    BY DEF StartConversation, ConversationNotCreated, Dismiss, Review
  <1>3. /\ page' \in PageState /\ page'.current = page.current
        /\ page'.conversation # "open" => page.conversation # "open"
    BY <1>1 DEF StartConversation, ConversationNotCreated, Dismiss, Review, PageState
  <1>4. \A r \in Request : RequestAgrees(r)'
    BY <1>2, RequestsStay
  <1> QED
    BY <1>1, <1>2, <1>3, <1>4, PageKeeps

LEMMA DecideKeeps ==
  ASSUME IInv, NEW r \in Request, NEW verb \in {"confirm", "reject"}, Decide(r, verb)
  PROVE  IInv'
  <1> DEFINE id == page.open
  <1>1. /\ page \in PageState /\ request \in [Request -> RequestState] /\ id \in Turn \union {0}
    BY DEF IInv, TypeOK, ClientTypeOK, PageState
  <1>2. OpenProposal = id /\ id \in Turn /\ turn[id].proposalId = id
    <2>1. PendingProposal(screen, id) # 0 /\ OpenProposal = id
      BY DEF Decide, DialogShown, OpenProposal
    <2> QED
      BY <1>1, <2>1, PendingIs
  <1>3. /\ request[r].pc = "none"
        /\ request' = [request EXCEPT ![r] = [NoRequest EXCEPT !.pc = "sent", !.id = id, !.verb = verb]]
        /\ page' = [page EXCEPT !.busy = id]
        /\ UNCHANGED <<serverVars, screen, escalation, conflicts, stops, early>>
    BY <1>2 DEF Decide
  <1> HIDE DEF id
  <1>4. page' \in PageState /\ page'.current = page.current /\ page'.conversation = page.conversation
    BY <1>1, <1>2, <1>3 DEF PageState
  <1>5. /\ request'[r] = [NoRequest EXCEPT !.pc = "sent", !.id = id, !.verb = verb]
        /\ request'[r].pc = "sent" /\ request'[r].id = id /\ request'[r].verb = verb
        /\ request'[r] \in RequestState /\ request' \in [Request -> RequestState]
        /\ \A p \in Request \ {r} : request'[p] = request[p]
    BY <1>1, <1>2, <1>3 DEF RequestState, NoRequest
  <1>6. turn' = turn /\ Later
    BY <1>3 DEF serverVars, Later, Keeps
  <1>7. ASSUME NEW p \in Request
        PROVE  RequestAgrees(p)'
    <2>1. CASE p # r
      <3>1. RequestAgrees(p) /\ request'[p] = request[p]
        BY <1>5, <2>1 DEF IInv
      <3> QED
        BY <1>6, <3>1, RequestKept
    <2>2. CASE p = r
      BY <1>2, <1>5, <1>6, <2>2 DEF RequestAgrees
    <2> QED
      BY <2>1, <2>2
  <1> QED
    BY <1>3, <1>4, <1>5, <1>7, PageKeeps

----------------------------------------------------------------------------
(* The reducer *)

LEMMA StreamingIs ==
  ASSUME NEW s \in ScreenState, OneStreams(s)
  PROVE  /\ StreamingReply(s) = IF s.streaming THEN Len(s.replies) ELSE 0
         /\ Len(s.replies) \in Nat /\ DOMAIN s.replies = 1..Len(s.replies)
         /\ s.streaming =>
              /\ Len(s.replies) \in DOMAIN s.replies /\ Len(s.replies) # 0
              /\ s.replies[Len(s.replies)].state = "streaming"
              /\ s.replies[Len(s.replies)] \in ReplyState
  <1> DEFINE size == Len(s.replies)
             found == {i \in DOMAIN s.replies : s.replies[i].state = "streaming"}
  <1>1. s.replies \in Seq(ReplyState) /\ size \in Nat /\ DOMAIN s.replies = 1..size
    BY LenProperties DEF ScreenState
  <1>2. s.replies # <<>> => size # 0
    BY <1>1, EmptySeq
  <1>3. StreamingReply(s) = IF found = {} THEN 0 ELSE CHOOSE i \in found : \A j \in found : j <= i
    BY DEF StreamingReply, LastOf
  <1>4. CASE s.streaming
    <2>1. size \in DOMAIN s.replies /\ s.replies[size].state = "streaming" /\ size # 0
      BY <1>1, <1>2, <1>4 DEF OneStreams
    <2>2. found = {size}
      BY <1>4, <2>1 DEF OneStreams
    <2>3. (CHOOSE i \in found : \A j \in found : j <= i) = size
      <3> HIDE DEF found, size
      <3> QED
        BY <1>1, <2>2
    <2>4. s.replies[size] \in ReplyState
      BY <1>1, <2>1, ElementOfSeq
    <2> HIDE DEF found, size
    <2>5. StreamingReply(s) = size
      BY <1>3, <2>2, <2>3
    <2> QED
      BY <1>1, <1>4, <2>1, <2>4, <2>5 DEF size
  <1>5. CASE ~s.streaming
    <2>1. found = {}
      BY <1>5 DEF OneStreams
    <2> QED
      BY <1>1, <1>3, <1>5, <2>1
  <1> QED
    BY <1>4, <1>5

(* Of a screen nothing but one reply changes. *)
Becomes(s, i, reply, next) ==
  /\ next \in ScreenState
  /\ next.streaming = s.streaming /\ next.escalation = s.escalation
  /\ Len(next.replies) = Len(s.replies) /\ DOMAIN next.replies = DOMAIN s.replies
  /\ next.replies[i] = reply
  /\ \A j \in DOMAIN s.replies \ {i} : next.replies[j] = s.replies[j]

LEMMA WithReplyIs ==
  ASSUME NEW s \in ScreenState, NEW i \in DOMAIN s.replies, i # 0, NEW reply \in ReplyState
  PROVE  Becomes(s, i, reply, WithReply(s, i, reply))
  <1> DEFINE changed == [s.replies EXCEPT ![i] = reply]
  <1>1. s.replies \in Seq(ReplyState) /\ DOMAIN s.replies = 1..Len(s.replies)
    BY LenProperties DEF ScreenState
  <1>2. /\ changed \in Seq(ReplyState) /\ Len(changed) = Len(s.replies)
        /\ DOMAIN changed = DOMAIN s.replies /\ changed[i] = reply
        /\ \A j \in DOMAIN s.replies \ {i} : changed[j] = s.replies[j]
    BY <1>1, ExceptSeq
  <1>3. WithReply(s, i, reply) = [s EXCEPT !.replies = changed]
    BY DEF WithReply
  <1> HIDE DEF changed
  <1> QED
    BY <1>2, <1>3 DEF ScreenState, Becomes

(* A frame read: what the streaming reply becomes. *)
StateAfter(frame) ==
  CASE frame.event = "error" -> "failed"
    [] frame.event = "done"  -> "complete"
    [] OTHER                 -> "streaming"

Reads(s, frame, next) ==
  LET last == Len(s.replies)
      old == s.replies[last]
      new == next.replies[last]
  IN  /\ next \in ScreenState
      /\ Len(next.replies) = last /\ DOMAIN next.replies = DOMAIN s.replies
      /\ \A j \in DOMAIN s.replies \ {last} : next.replies[j] = s.replies[j]
      /\ new.text = IF frame.event = "token" THEN Append(old.text, frame.text) ELSE old.text
      /\ new.evidence =
           IF frame.event = "evidence" THEN old.evidence \union {frame.ref} ELSE old.evidence
      /\ new.proposal =
           IF frame.event = "proposal" /\ old.proposal = NoOffer
           THEN [id |-> frame.id, status |-> "pending", number |-> frame.number]
           ELSE old.proposal
      /\ new.policy.escalated =
           IF frame.event = "policy" THEN frame.escalated ELSE old.policy.escalated
      /\ new.outcome = old.outcome
      /\ new.state = StateAfter(frame)
      /\ next.streaming <=> frame.event \notin {"error", "done"}
      /\ next.escalation = IF frame.event = "policy" /\ frame.escalated
                           THEN "escalated" ELSE s.escalation

LEMMA FrameRead ==
  ASSUME NEW s \in ScreenState, OneStreams(s), s.streaming, NEW frame \in Relayed
  PROVE  Reads(s, frame, OnFrame(s, frame))
  <1> DEFINE last == Len(s.replies)
             old == s.replies[last]
  <1>1. /\ StreamingReply(s) = last /\ last \in DOMAIN s.replies /\ last # 0
        /\ old \in ReplyState /\ old.state = "streaming" /\ last \in Nat
    BY StreamingIs
  <1>2. /\ frame.event \in {"token", "evidence", "done", "proposal", "policy", "error"}
        /\ frame.event = "token" => frame.text \in Word
        /\ frame.event = "evidence" => frame.ref \in Ref
        /\ frame.event = "done" => frame.shouldEscalate \in Flag
        /\ frame.event = "proposal" => frame.id \in Turn /\ frame.number \in OwnOrders
        /\ frame.event = "policy" =>
             frame.kind \in {"refused", "malformed"} /\ frame.escalated \in BOOLEAN
    BY RelayedIs
  <1>0. \A new \in ReplyState : Becomes(s, last, new, WithReply(s, last, new))
    BY <1>1, WithReplyIs
  <1> HIDE DEF last, old
  <1>3. CASE frame.event = "token"
    <2> DEFINE new == [old EXCEPT !.text = Append(@, frame.text)]
    <2>1. OnFrame(s, frame) = WithReply(s, last, new)
      BY <1>1, <1>3 DEF OnFrame, OnToken, old
    <2>2. old.text \in Seq(Word)
      BY <1>1 DEF ReplyState
    <2>3. Append(old.text, frame.text) \in Seq(Word)
      BY <1>2, <1>3, <2>2, Appended
    <2>4. /\ new \in ReplyState /\ new.text = Append(old.text, frame.text)
          /\ new.evidence = old.evidence /\ new.proposal = old.proposal /\ new.policy = old.policy
          /\ new.outcome = old.outcome /\ new.state = old.state
      BY <1>1, <2>3 DEF ReplyState
    <2> HIDE DEF new
    <2>5. Becomes(s, last, new, OnFrame(s, frame))
      BY <1>0, <2>1, <2>4
    <2> QED
      BY <1>1, <1>3, <2>4, <2>5 DEF last, old, Becomes, Reads, StateAfter
  <1>4. CASE frame.event = "evidence"
    <2> DEFINE new == [old EXCEPT !.evidence = @ \union {frame.ref}]
    <2>1. OnFrame(s, frame) = WithReply(s, last, new)
      BY <1>1, <1>4 DEF OnFrame, OnEvidence, old
    <2>2. /\ new \in ReplyState /\ new.text = old.text
          /\ new.evidence = old.evidence \union {frame.ref} /\ new.proposal = old.proposal
          /\ new.policy = old.policy /\ new.outcome = old.outcome /\ new.state = old.state
      BY <1>1, <1>2, <1>4 DEF ReplyState
    <2> HIDE DEF new
    <2>3. Becomes(s, last, new, OnFrame(s, frame))
      BY <1>0, <2>1, <2>2
    <2> QED
      BY <1>1, <1>4, <2>2, <2>3 DEF last, old, Becomes, Reads, StateAfter
  <1>5. CASE frame.event = "proposal"
    <2> DEFINE offer == [id |-> frame.id, status |-> "pending", number |-> frame.number]
               new == [old EXCEPT !.proposal = IF @ = NoOffer THEN offer ELSE @]
    <2>1. OnFrame(s, frame) = WithReply(s, last, new)
      BY <1>1, <1>5 DEF OnFrame, OnProposal, old
    <2>2. /\ new \in ReplyState /\ new.text = old.text /\ new.evidence = old.evidence
          /\ new.proposal = IF old.proposal = NoOffer THEN offer ELSE old.proposal
          /\ new.policy = old.policy /\ new.outcome = old.outcome /\ new.state = old.state
      BY <1>1, <1>2, <1>5 DEF ReplyState
    <2> HIDE DEF new
    <2>3. Becomes(s, last, new, OnFrame(s, frame))
      BY <1>0, <2>1, <2>2
    <2> QED
      BY <1>1, <1>5, <2>2, <2>3 DEF last, old, Becomes, Reads, StateAfter
  <1>6. CASE frame.event = "policy"
    <2> DEFINE new == [old EXCEPT !.policy = [kind |-> frame.kind, escalated |-> frame.escalated]]
               shown == WithReply(s, last, new)
    <2>1. frame.kind \in PolicyKinds
      BY <1>2, <1>6 DEF PolicyKinds
    <2>2. OnFrame(s, frame) = IF frame.escalated THEN Escalated(shown) ELSE shown
      BY <1>1, <1>6, <2>1 DEF OnFrame, OnPolicy, old
    <2>3. /\ new \in ReplyState /\ new.text = old.text /\ new.evidence = old.evidence
          /\ new.proposal = old.proposal /\ new.policy.escalated = frame.escalated
          /\ new.outcome = old.outcome /\ new.state = old.state
      BY <1>1, <1>2, <1>6 DEF ReplyState
    <2> HIDE DEF new
    <2>4. Becomes(s, last, new, shown)
      BY <1>0, <2>3
    <2> HIDE DEF shown
    <2>5. /\ OnFrame(s, frame) \in ScreenState
          /\ OnFrame(s, frame).streaming = s.streaming
          /\ OnFrame(s, frame).replies = shown.replies
          /\ OnFrame(s, frame).escalation = IF frame.escalated THEN "escalated" ELSE s.escalation
      BY <2>2, <2>4 DEF Escalated, ScreenState, Becomes
    <2> QED
      BY <1>1, <1>6, <2>3, <2>4, <2>5 DEF last, old, Becomes, Reads, StateAfter
  <1>7. CASE frame.event \in {"error", "done"}
    <2> DEFINE state == IF frame.event = "error" THEN "failed" ELSE "complete"
               new == IF frame.event = "error" THEN [old EXCEPT !.state = "failed"]
                      ELSE [old EXCEPT !.state = "complete", !.offerEscalation = frame.shouldEscalate]
               shown == WithReply(s, last, new)
    <2>1. OnFrame(s, frame) = EndStreaming(shown)
      BY <1>1, <1>7 DEF OnFrame, OnFailed, OnDone, old
    <2>2. /\ new \in ReplyState /\ new.text = old.text /\ new.evidence = old.evidence
          /\ new.proposal = old.proposal /\ new.policy = old.policy
          /\ new.outcome = old.outcome /\ new.state = state
      BY <1>1, <1>2, <1>7 DEF ReplyState
    <2> HIDE DEF new
    <2>3. Becomes(s, last, new, shown)
      BY <1>0, <2>2
    <2> HIDE DEF shown
    <2>4. /\ OnFrame(s, frame) \in ScreenState /\ OnFrame(s, frame).streaming = FALSE
          /\ OnFrame(s, frame).replies = shown.replies
          /\ OnFrame(s, frame).escalation = s.escalation
      BY <2>1, <2>3 DEF EndStreaming, ScreenState, Becomes
    <2> QED
      BY <1>1, <1>7, <2>2, <2>3, <2>4 DEF last, old, Becomes, Reads, StateAfter
  <1> QED
    BY <1>2, <1>3, <1>4, <1>5, <1>6, <1>7

(* Without a streaming reply nothing that the stream brings changes the screen. *)
LEMMA Ignored ==
  ASSUME NEW s \in ScreenState, OneStreams(s), ~s.streaming
  PROVE  /\ \A frame \in Relayed : OnFrame(s, frame) = s
         /\ OnCancelled(s) = s /\ OnFailed(s) = s /\ OnDone(s, FALSE) = s
  <1>1. StreamingReply(s) = 0
    BY StreamingIs
  <1>2. \A reply : WithReply(s, 0, reply) = s
    BY DEF WithReply
  <1>3. EndStreaming(s) = s
    BY DEF EndStreaming, ScreenState
  <1>4. OnCancelled(s) = s /\ OnFailed(s) = s /\ \A flag : OnDone(s, flag) = s
    BY <1>1, <1>2, <1>3 DEF OnCancelled, OnFailed, OnDone
  <1>5. ASSUME NEW frame \in Relayed
        PROVE  OnFrame(s, frame) = s
    <2>1. frame.event \in {"token", "evidence", "done", "proposal", "policy", "error"}
      BY RelayedIs
    <2>2. /\ OnToken(s, frame.text) = s /\ OnEvidence(s, frame.ref) = s
          /\ OnProposal(s, frame) = s /\ OnPolicy(s, frame) = s
      BY <1>1, <1>2 DEF OnToken, OnEvidence, OnProposal, OnPolicy
    <2> QED
      BY <1>4, <2>1, <2>2 DEF OnFrame
  <1> QED
    BY <1>4, <1>5

(* The streaming reply ends, and all it shows stays. *)
Ends(s, state, next) ==
  LET last == Len(s.replies)
      old == s.replies[last]
      new == next.replies[last]
  IN  /\ next \in ScreenState /\ ~next.streaming /\ next.escalation = s.escalation
      /\ Len(next.replies) = last /\ DOMAIN next.replies = DOMAIN s.replies
      /\ \A j \in DOMAIN s.replies \ {last} : next.replies[j] = s.replies[j]
      /\ new.text = old.text /\ new.evidence = old.evidence /\ new.proposal = old.proposal
      /\ new.policy = old.policy /\ new.outcome = old.outcome /\ new.state = state

LEMMA StreamEnds ==
  ASSUME NEW s \in ScreenState, OneStreams(s), s.streaming
  PROVE  /\ Ends(s, "cancelled", OnCancelled(s))
         /\ Ends(s, "failed", OnFailed(s))
         /\ Ends(s, "complete", OnDone(s, FALSE))
  <1> DEFINE last == Len(s.replies)
             old == s.replies[last]
  <1>1. /\ StreamingReply(s) = last /\ last \in DOMAIN s.replies /\ last # 0 /\ old \in ReplyState
    BY StreamingIs
  <1> HIDE DEF last, old
  <1>2. ASSUME NEW state, NEW new \in ReplyState, new.text = old.text, new.evidence = old.evidence,
               new.proposal = old.proposal, new.policy = old.policy, new.outcome = old.outcome,
               new.state = state
        PROVE  Ends(s, state, EndStreaming(WithReply(s, last, new)))
    <2> DEFINE shown == WithReply(s, last, new)
    <2>1. Becomes(s, last, new, shown)
      BY <1>1, WithReplyIs
    <2> HIDE DEF shown
    <2>2. /\ EndStreaming(shown) \in ScreenState /\ ~EndStreaming(shown).streaming
          /\ EndStreaming(shown).replies = shown.replies
          /\ EndStreaming(shown).escalation = s.escalation
      BY <2>1 DEF Becomes, EndStreaming, ScreenState
    <2>3. Ends(s, state, EndStreaming(shown))
      BY <1>2, <2>1, <2>2 DEF Ends, Becomes, last, old
    <2> QED
      BY <2>3 DEF shown
  <1>3. Ends(s, "cancelled", OnCancelled(s))
    <2> DEFINE new == [old EXCEPT !.state = "cancelled"]
    <2>1. OnCancelled(s) = EndStreaming(WithReply(s, last, new))
      BY <1>1 DEF OnCancelled, old
    <2>2. /\ new \in ReplyState /\ new.text = old.text /\ new.evidence = old.evidence
          /\ new.proposal = old.proposal /\ new.policy = old.policy /\ new.outcome = old.outcome
          /\ new.state = "cancelled"
      BY <1>1 DEF ReplyState
    <2> HIDE DEF new
    <2> QED
      BY <1>2, <2>1, <2>2
  <1>4. Ends(s, "failed", OnFailed(s))
    <2> DEFINE new == [old EXCEPT !.state = "failed"]
    <2>1. OnFailed(s) = EndStreaming(WithReply(s, last, new))
      BY <1>1 DEF OnFailed, old
    <2>2. /\ new \in ReplyState /\ new.text = old.text /\ new.evidence = old.evidence
          /\ new.proposal = old.proposal /\ new.policy = old.policy /\ new.outcome = old.outcome
          /\ new.state = "failed"
      BY <1>1 DEF ReplyState
    <2> HIDE DEF new
    <2> QED
      BY <1>2, <2>1, <2>2
  <1>5. Ends(s, "complete", OnDone(s, FALSE))
    <2> DEFINE new == [old EXCEPT !.state = "complete", !.offerEscalation = FALSE]
    <2>1. OnDone(s, FALSE) = EndStreaming(WithReply(s, last, new))
      BY <1>1 DEF OnDone, old
    <2>2. /\ new \in ReplyState /\ new.text = old.text /\ new.evidence = old.evidence
          /\ new.proposal = old.proposal /\ new.policy = old.policy /\ new.outcome = old.outcome
          /\ new.state = "complete"
      BY <1>1 DEF ReplyState, Flag
    <2> HIDE DEF new
    <2> QED
      BY <1>2, <2>1, <2>2
  <1> QED
    BY <1>3, <1>4, <1>5

----------------------------------------------------------------------------
(* The stream as the browser reads it *)

(* Steps of the page and of the connection, which leave what the server keeps alone. *)
LEMMA ClientStepKeeps ==
  ASSUME IInv, TypeOK', UNCHANGED <<turn, message, proposal, conflicts>>, ticket => ticket',
         \A m \in Turn : (conn'[m] = conn[m] \/ conn'[m] # "ended") /\ WireKept(m),
         TurnsInOrder', TicketAgrees', StoppedByCustomer',
         \A m \in DOMAIN screen'.replies : ReplyAgrees(m)',
         \A r \in Request : RequestAgrees(r)'
  PROVE  IInv'
  <1>1. ASSUME NEW m \in Turn
        PROVE  TurnAgrees(m)'
    <2>1. Later /\ TurnAgrees(m) /\ ServerTypeOK /\ turn'[m] = turn[m] /\ RowsKept(m)
      BY DEF IInv, TypeOK, RowsKept, Later, Keeps
    <2> QED
      BY <2>1, TurnKept
  <1> QED
    BY <1>1 DEF IInv

(* A reply of which nothing changes that the invariant speaks of. *)
LEMMA ReplyKept ==
  ASSUME IInv, NEW m \in DOMAIN screen.replies, UNCHANGED <<turn, proposal, conflicts>>,
         ticket => ticket', screen'.replies[m] = screen.replies[m],
         screen.replies[m].state = "streaming" => wire'[m] = wire[m] /\ (Whole(m)' => Whole(m))
  PROVE  ReplyAgrees(m)'
  <1>1. m \in Turn /\ TextAgrees(m) /\ OfferAgrees(m) /\ Later
    BY DEF IInv, TurnsInOrder, ReplyAgrees, Later, Keeps
  <1>2. TextAgrees(m)'
    BY <1>1, TextKept
  <1>3. OfferAgrees(m)'
    BY <1>1, OfferKept
  <1> QED
    BY <1>2, <1>3 DEF ReplyAgrees

LEMMA ConnectionBreaksKeeps ==
  ASSUME IInv, NEW n \in Turn, ConnectionBreaks(n)
  PROVE  IInv'
  <1>1. /\ conn' = [conn EXCEPT ![n] = "cut"] /\ conn[n] = "open"
        /\ UNCHANGED <<turn, wire, message, proposal, ticket, screen, page, request, escalation,
                       conflicts, stops, early>>
    BY DEF ConnectionBreaks, clientVars
  <1>2. conn \in [Turn -> {"none", "open", "aborted", "cut", "refused", "ended"}]
    BY DEF IInv, TypeOK, ServerTypeOK
  <1>3. TypeOK'
    BY <1>1, <1>2 DEF IInv, TypeOK, ServerTypeOK, ClientTypeOK
  <1>4. \A m \in Turn : /\ conn'[m] = conn[m] \/ conn'[m] # "ended"
                        /\ WireKept(m) /\ (Whole(m)' => Whole(m))
    BY <1>1, <1>2 DEF WireKept, Whole
  <1>5. TurnsInOrder' /\ StoppedByCustomer'
    BY <1>1 DEF IInv, TurnsInOrder, StoppedByCustomer
  <1>6. TicketAgrees'
    BY <1>1 DEF IInv, TicketAgrees
  <1>7. \A m \in DOMAIN screen'.replies : ReplyAgrees(m)'
    BY <1>1, <1>4, ReplyKept DEF IInv, TurnsInOrder
  <1>8. \A r \in Request : RequestAgrees(r)'
    BY <1>1, RequestsStay DEF IInv, RequestAgrees, Settled
  <1> QED
    BY <1>1, <1>3, <1>4, <1>5, <1>6, <1>7, <1>8, ClientStepKeeps

(* The turn being read, and the frame that is next. *)
LEMMA Reading ==
  ASSUME IInv, NEW n \in Turn, page.current = n
  PROVE  /\ n = Len(screen.replies) /\ n \in DOMAIN screen.replies /\ n # 0
         /\ TextAgrees(n) /\ OfferAgrees(n) /\ TurnAgrees(n)
         /\ screen \in ScreenState /\ OneStreams(screen) /\ ServerTypeOK
         /\ screen.replies[n] \in ReplyState
         /\ turn[n].answer \in Seq(Word) /\ wire[n] \in Seq(Relayed)
         /\ \A m \in DOMAIN screen.replies :
              m \in Turn /\ ReplyAgrees(m) /\ (screen.replies[m].state = "streaming" => m = n /\ screen.streaming)
         /\ wire[n] # <<>> => Head(wire[n]) \in Relayed /\ FrameAgrees(n, Head(wire[n]))
  <1>1. /\ screen \in ScreenState /\ OneStreams(screen) /\ n # 0 /\ n = Len(screen.replies)
        /\ ServerTypeOK /\ TurnAgrees(n)
    BY TurnAssumption DEF IInv, TurnsInOrder, TypeOK, ClientTypeOK
  <1>2. n \in DOMAIN screen.replies /\ screen.replies[n] \in ReplyState
    <2>1. Len(screen.replies) \in Nat /\ DOMAIN screen.replies = 1..Len(screen.replies)
      BY <1>1, StreamingIs
    <2>2. n \in DOMAIN screen.replies
      BY <1>1, <2>1
    <2>3. screen.replies \in Seq(ReplyState)
      BY <1>1 DEF ScreenState
    <2> QED
      BY <2>1, <2>2, <2>3, ElementOfSeq
  <1>3. \A m \in DOMAIN screen.replies :
          m \in Turn /\ ReplyAgrees(m) /\ (screen.replies[m].state = "streaming" => m = n /\ screen.streaming)
    BY <1>1 DEF IInv, TurnsInOrder, OneStreams
  <1>4. turn[n].answer \in Seq(Word) /\ wire[n] \in Seq(Relayed)
    BY <1>1 DEF ServerTypeOK, HandlerState
  <1>5. ASSUME wire[n] # <<>>
        PROVE  Head(wire[n]) \in Relayed /\ FrameAgrees(n, Head(wire[n]))
    <2>1. Head(wire[n]) \in Relayed /\ Head(wire[n]) = wire[n][1] /\ 1 \in DOMAIN wire[n]
      BY <1>4, <1>5, Shortened
    <2>2. WireAgrees(n)
      BY <1>1 DEF TurnAgrees
    <2> QED
      BY <2>1, <2>2 DEF WireAgrees
  <1> QED
    BY <1>1, <1>2, <1>3, <1>4, <1>5 DEF ReplyAgrees

LEMMA ReadFrameKeeps ==
  ASSUME IInv, NEW n \in Turn, ReadFrame(n)
  PROVE  IInv'
  <1>0. PICK frame : frame = Head(wire[n])
    OBVIOUS
  <1>1. /\ page.current = n /\ wire[n] # <<>> /\ screen' = OnFrame(screen, frame)
        /\ page' = IF frame.event = "proposal" /\ page.open = 0
                   THEN [page EXCEPT !.open = frame.id] ELSE page
        /\ wire' = [wire EXCEPT ![n] = Tail(@)]
        /\ UNCHANGED <<turn, conn, message, proposal, ticket, request, escalation, conflicts, stops, early>>
    BY <1>0 DEF ReadFrame
  <1>2. /\ n = Len(screen.replies) /\ n \in DOMAIN screen.replies /\ n # 0
        /\ TextAgrees(n) /\ OfferAgrees(n) /\ TurnAgrees(n)
        /\ screen \in ScreenState /\ OneStreams(screen) /\ ServerTypeOK
        /\ screen.replies[n] \in ReplyState
        /\ turn[n].answer \in Seq(Word) /\ wire[n] \in Seq(Relayed)
        /\ \A m \in DOMAIN screen.replies :
             m \in Turn /\ ReplyAgrees(m) /\ (screen.replies[m].state = "streaming" => m = n /\ screen.streaming)
        /\ frame \in Relayed /\ FrameAgrees(n, frame)
    BY <1>0, <1>1, Reading
  <1>3. /\ Tail(wire[n]) \in Seq(Relayed)
        /\ \E i \in DOMAIN wire[n] : wire[n][i] = frame
    BY <1>0, <1>1, <1>2, Shortened
  <1>4. /\ wire' \in [Turn -> Seq(Relayed)] /\ wire'[n] = Tail(wire[n])
        /\ \A m \in Turn \ {n} : wire'[m] = wire[m]
    BY <1>1, <1>2, <1>3 DEF ServerTypeOK
  <1>5. /\ page' \in PageState /\ page'.current = page.current
        /\ page'.conversation = page.conversation
    <2>1. page \in PageState
      BY DEF IInv, TypeOK, ClientTypeOK
    <2>2. frame.event = "proposal" => frame.id \in Turn
      BY <1>2, RelayedIs
    <2> QED
      BY <1>1, <2>1, <2>2 DEF PageState
  <1>6. \A m \in Turn : conn'[m] = conn[m] /\ WireKept(m) /\ (Whole(m)' <=> Whole(m))
    BY <1>1, <1>4 DEF WireKept, Whole
  <1>7. \A r \in Request : RequestAgrees(r)'
    BY <1>1, RequestsStay DEF IInv, RequestAgrees, Settled
  <1>8. CASE ~screen.streaming
    <2>1. screen' = screen
      BY <1>1, <1>2, <1>8, Ignored
    <2>2. TypeOK'
      BY <1>1, <1>4, <1>5, <2>1 DEF IInv, TypeOK, ServerTypeOK, ClientTypeOK
    <2>3. TurnsInOrder' /\ StoppedByCustomer'
      BY <1>1, <1>5, <2>1 DEF IInv, TurnsInOrder, StoppedByCustomer
    <2>4. TicketAgrees'
      BY <1>1, <2>1 DEF IInv, TicketAgrees
    <2>5. \A m \in DOMAIN screen'.replies : ReplyAgrees(m)'
      BY <1>1, <1>2, <1>8, <2>1, ReplyKept
    <2> QED
      BY <1>1, <1>6, <1>7, <2>2, <2>3, <2>4, <2>5, ClientStepKeeps
  <1>9. CASE screen.streaming
    <2> DEFINE old == screen.replies[n]
               new == screen'.replies[n]
               answer == turn[n].answer
    <2>1. /\ screen' \in ScreenState
          /\ Len(screen'.replies) = n /\ DOMAIN screen'.replies = DOMAIN screen.replies
          /\ \A j \in DOMAIN screen.replies \ {n} : screen'.replies[j] = screen.replies[j]
          /\ new.text = IF frame.event = "token" THEN Append(old.text, frame.text) ELSE old.text
          /\ new.evidence =
               IF frame.event = "evidence" THEN old.evidence \union {frame.ref} ELSE old.evidence
          /\ new.proposal =
               IF frame.event = "proposal" /\ old.proposal = NoOffer
               THEN [id |-> frame.id, status |-> "pending", number |-> frame.number]
               ELSE old.proposal
          /\ new.policy.escalated =
               IF frame.event = "policy" THEN frame.escalated ELSE old.policy.escalated
          /\ new.outcome = old.outcome
          /\ new.state = StateAfter(frame)
          /\ screen'.streaming <=> frame.event \notin {"error", "done"}
          /\ screen'.escalation = IF frame.event = "policy" /\ frame.escalated
                                  THEN "escalated" ELSE screen.escalation
      <3>1. Reads(screen, frame, screen')
        BY <1>1, <1>2, <1>9, FrameRead
      <3> QED
        BY <1>2, <3>1 DEF Reads
    <2>2. old.state = "streaming" /\ old.text \in Seq(Word)
      BY <1>2, <1>9 DEF OneStreams, ReplyState
    <2>3. TypeOK'
      BY <1>1, <1>4, <1>5, <2>1 DEF IInv, TypeOK, ServerTypeOK, ClientTypeOK
    <2>4. TurnsInOrder'
      <3>1. screen'.replies # <<>> /\ OneStreams(screen')
        <4>1. screen'.replies # <<>>
          BY <1>2, <2>1, EmptySeq DEF ScreenState
        <4> QED
          BY <1>2, <2>1, <4>1 DEF OneStreams, StateAfter
      <3> QED
        BY <1>1, <1>2, <1>5, <2>1, <3>1 DEF IInv, TurnsInOrder
    <2>5. StoppedByCustomer'
      <3>1. new.state # "cancelled"
        BY <2>1 DEF StateAfter
      <3>2. \A m \in DOMAIN screen.replies : SaysStopped(screen'.replies[m]) => SaysStopped(screen.replies[m])
        BY <1>2, <2>1, <3>1 DEF SaysStopped
      <3> QED
        BY <1>1, <2>1, <3>2 DEF IInv, StoppedByCustomer
    <2>6. TicketAgrees'
      <3>1. frame.event = "policy" /\ frame.escalated => ticket
        BY <1>2 DEF FrameAgrees
      <3>2. (screen.escalation = "escalated" => ticket) /\ (escalation = "ok" => ticket)
        BY DEF IInv, TicketAgrees
      <3>3. \A m \in DOMAIN screen.replies : screen.replies[m].policy.escalated => ticket
        BY DEF IInv, TicketAgrees
      <3>4. \A m \in DOMAIN screen.replies : screen'.replies[m].policy.escalated => ticket
        BY <1>2, <2>1, <3>1, <3>3
      <3> QED
        BY <1>1, <2>1, <3>1, <3>2, <3>4 DEF TicketAgrees
    <2>7. TextAgrees(n)'
      <3>1. /\ Agree(old.text, answer) /\ old.evidence \subseteq Range(turn[n].evidence)
            /\ CarriesOn(wire[n], answer, Whole(n), old.text)
            /\ Whole(n) /\ turn[n].done => DoneWaits(wire[n])
        BY <1>2, <2>2 DEF TextAgrees
      <3>2. /\ frame.event \notin {"token", "done"} => CarriesOn(wire'[n], answer, Whole(n), old.text)
            /\ frame.event = "done" => Len(old.text) = Len(answer)
            /\ frame.event = "token" /\ frame.text \in Word =>
                 /\ CarriesOn(wire'[n], answer, Whole(n), Append(old.text, frame.text))
                 /\ Agree(Append(old.text, frame.text), answer)
            /\ frame.event # "done" => (DoneWaits(wire'[n]) <=> DoneWaits(wire[n]))
        BY <1>0, <1>1, <1>2, <1>4, <2>2, <3>1, CarriesRest
      <3>3. frame.event = "token" => frame.text \in Word
        BY <1>2, RelayedIs
      <3>8. Whole(n)' => Whole(n)
        BY <1>6
      <3>4. Agree(new.text, answer)
        BY <2>1, <3>1, <3>2, <3>3
      <3>9. ASSUME new.state = "streaming"
            PROVE  /\ CarriesOn(wire'[n], answer, Whole(n)', new.text)
                   /\ Whole(n)' /\ turn[n].done => DoneWaits(wire'[n])
        <4>1. frame.event # "done"
          BY <2>1, <3>9 DEF StateAfter
        <4>2. CarriesOn(wire'[n], answer, Whole(n), new.text)
          BY <2>1, <3>2, <3>3, <4>1
        <4> HIDE DEF new, old, answer
        <4>3. CarriesOn(wire'[n], answer, Whole(n)', new.text)
          BY <3>8, <4>2, CarriesLess
        <4> QED
          BY <3>1, <3>2, <3>8, <4>1, <4>3
      <3>5. frame.event = "evidence" => frame.ref \in Range(turn[n].evidence)
        BY <1>2 DEF FrameAgrees
      <3>6. new.evidence \subseteq Range(turn'[n].evidence)
        BY <1>1, <2>1, <3>1, <3>5
      <3>7. ASSUME new.state = "complete"
            PROVE  Len(new.text) = Len(answer) /\ turn[n].done /\ turn[n].pc \notin Fresh
        <4>1. frame.event = "done"
          BY <2>1, <3>7 DEF StateAfter
        <4>2. DoneWaits(wire[n])
          BY <1>3, <4>1 DEF DoneWaits
        <4>3. turn[n].done /\ turn[n].pc \notin Fresh
          BY <1>1, <1>2, <4>2 DEF TurnAgrees, HandlerAgrees
        <4> QED
          BY <2>1, <3>2, <4>1, <4>3
      <3> QED
        BY <1>1, <3>4, <3>6, <3>7, <3>9 DEF TextAgrees
    <2>8. OfferAgrees(n)'
      <3>1. CASE new.proposal = old.proposal
        BY <1>1, <1>2, <2>1, <3>1 DEF OfferAgrees, WithinBoundary, Settled
      <3>2. CASE /\ frame.event = "proposal" /\ old.proposal = NoOffer
                 /\ new.proposal = [id |-> frame.id, status |-> "pending", number |-> frame.number]
        <4>1. frame.id = n /\ turn[n].proposalId = n /\ WithinBoundary(n, frame.number)
          BY <1>2, <3>2 DEF FrameAgrees
        <4>2. new.outcome = "none"
          BY <1>2, <2>1, <3>2 DEF OfferAgrees, NoOffer
        <4>3. new.proposal.id = n /\ new.proposal.status = "pending" /\ new.proposal.number = frame.number
          BY <3>2, <4>1
        <4> QED
          BY <1>1, <1>2, <4>1, <4>2, <4>3 DEF OfferAgrees, WithinBoundary
      <3> QED
        BY <2>1, <3>1, <3>2
    <2>9. ASSUME NEW m \in DOMAIN screen'.replies
          PROVE  ReplyAgrees(m)'
      <3>1. CASE m = n
        BY <2>7, <2>8, <3>1 DEF ReplyAgrees
      <3>2. CASE m # n
        <4>1. m \in DOMAIN screen.replies /\ screen'.replies[m] = screen.replies[m]
              /\ screen.replies[m].state # "streaming"
          BY <1>2, <2>1, <3>2
        <4> QED
          BY <1>1, <4>1, ReplyKept
      <3> QED
        BY <3>1, <3>2
    <2> QED
      BY <1>1, <1>6, <1>7, <2>3, <2>4, <2>5, <2>6, <2>9, ClientStepKeeps
  <1> QED
    BY <1>8, <1>9

(* With nothing left on a connection that lost nothing, all of the answer is shown. *)
LEMMA CarriesNone ==
  ASSUME NEW answer, NEW text, CarriesOn(<<>>, answer, TRUE, text)
  PROVE  Len(text) = Len(answer)
  <1>1. ~DoneWaits(<<>>) /\ Len(<<>>) = 0
    BY DEF DoneWaits
  <1> QED
    BY <1>1 DEF CarriesOn, Carries

(* The turn that is read comes to its end, by whatever way. *)
LEMMA TurnEndsKeeps ==
  ASSUME IInv, NEW n \in Turn, page.current = n,
         NEW state \in {"complete", "failed", "cancelled"},
         screen.streaming => Ends(screen, state, screen'),
         ~screen.streaming => screen' = screen,
         state = "complete" => conn[n] = "ended" /\ wire[n] = <<>>,
         state = "cancelled" => n \in stops',
         wire' = Discarded, page' = [page EXCEPT !.current = 0],
         conn' = conn \/ conn' = Aborted,
         stops \subseteq stops', stops' \subseteq Turn,
         UNCHANGED <<turn, message, proposal, ticket, request, escalation, conflicts, early>>
  PROVE  IInv'
  <1>1. /\ n = Len(screen.replies) /\ n \in DOMAIN screen.replies /\ n # 0
        /\ TextAgrees(n) /\ OfferAgrees(n) /\ TurnAgrees(n)
        /\ screen \in ScreenState /\ OneStreams(screen) /\ ServerTypeOK
        /\ screen.replies[n] \in ReplyState
        /\ \A m \in DOMAIN screen.replies :
             m \in Turn /\ ReplyAgrees(m) /\ (screen.replies[m].state = "streaming" => m = n /\ screen.streaming)
    BY Reading
  <1>2. /\ wire' \in [Turn -> Seq(Relayed)]
        /\ \A m \in Turn : WireKept(m) /\ (m # n => wire'[m] = wire[m])
    <2>1. \A m \in Turn : wire'[m] = IF m = n THEN <<>> ELSE wire[m]
      BY DEF Discarded
    <2>2. <<>> \in Seq(Relayed) /\ wire \in [Turn -> Seq(Relayed)]
      BY <1>1, EmptySeq DEF ServerTypeOK
    <2> QED
      BY <2>1, <2>2 DEF WireKept, Discarded
  <1>3. /\ conn' \in [Turn -> {"none", "open", "aborted", "cut", "refused", "ended"}]
        /\ \A m \in Turn : (conn'[m] = conn[m] \/ conn'[m] # "ended") /\ (Whole(m)' => Whole(m))
    BY <1>1 DEF ServerTypeOK, Aborted, Whole
  <1>4. page' \in PageState /\ page'.current = 0 /\ page'.conversation = page.conversation
    <2>1. page \in PageState
      BY DEF IInv, TypeOK, ClientTypeOK
    <2> QED
      BY <2>1 DEF PageState
  <1>5. /\ screen' \in ScreenState /\ ~screen'.streaming /\ screen'.escalation = screen.escalation
        /\ Len(screen'.replies) = n /\ DOMAIN screen'.replies = DOMAIN screen.replies
        /\ \A j \in DOMAIN screen.replies \ {n} : screen'.replies[j] = screen.replies[j]
        /\ screen'.replies[n].text = screen.replies[n].text
        /\ screen'.replies[n].evidence = screen.replies[n].evidence
        /\ screen'.replies[n].proposal = screen.replies[n].proposal
        /\ screen'.replies[n].policy = screen.replies[n].policy
        /\ screen'.replies[n].outcome = screen.replies[n].outcome
        /\ screen'.replies[n].state = IF screen.streaming THEN state ELSE screen.replies[n].state
    <2>1. CASE screen.streaming
      BY <1>1, <2>1 DEF Ends
    <2>2. CASE ~screen.streaming
      BY <1>1, <2>2
    <2> QED
      BY <2>1, <2>2
  <1>6. \A j \in DOMAIN screen.replies :
          /\ screen'.replies[j].text = screen.replies[j].text
          /\ screen'.replies[j].evidence = screen.replies[j].evidence
          /\ screen'.replies[j].proposal = screen.replies[j].proposal
          /\ screen'.replies[j].policy = screen.replies[j].policy
          /\ screen'.replies[j].outcome = screen.replies[j].outcome
          /\ screen'.replies[j].state # "streaming"
    <2> TAKE j \in DOMAIN screen.replies
    <2>1. CASE j = n
      BY <1>1, <1>5, <2>1
    <2>2. CASE j # n
      BY <1>1, <1>5, <2>2
    <2> QED
      BY <2>1, <2>2
  <1>7. TypeOK'
    BY <1>2, <1>3, <1>4, <1>5 DEF IInv, TypeOK, ServerTypeOK, ClientTypeOK
  <1>8. TurnsInOrder'
    BY <1>4, <1>5, <1>6, EmptySeq DEF IInv, TypeOK, ClientTypeOK, ScreenState, TurnsInOrder, OneStreams
  <1>9. TicketAgrees'
    BY <1>5, <1>6 DEF IInv, TicketAgrees
  <1>10. StoppedByCustomer'
    <2> SUFFICES ASSUME NEW m \in DOMAIN screen.replies, SaysStopped(screen'.replies[m])
                 PROVE  m \in stops' \/ m \in early
      BY <1>5 DEF StoppedByCustomer
    <2>1. CASE m = n /\ screen.streaming
      BY <1>5, <2>1 DEF SaysStopped
    <2>2. CASE m # n \/ ~screen.streaming
      <3>1. SaysStopped(screen.replies[m])
        BY <1>5, <2>2 DEF SaysStopped
      <3> QED
        BY <3>1 DEF IInv, StoppedByCustomer
    <2> QED
      BY <2>1, <2>2
  <1>11. ASSUME NEW m \in DOMAIN screen'.replies
         PROVE  ReplyAgrees(m)'
    <2>1. m \in DOMAIN screen.replies /\ m \in Turn /\ TextAgrees(m) /\ OfferAgrees(m) /\ Later
      BY <1>1, <1>5 DEF ReplyAgrees, Later, Keeps
    <2>2. OfferAgrees(m)'
      BY <1>6, <2>1, OfferKept
    <2>3. CASE screen'.replies[m].state # "complete" \/ screen.replies[m].state = "complete"
      <3>1. \/ screen'.replies[m].state = screen.replies[m].state
            \/ screen'.replies[m].state \in {"cancelled", "failed"}
        BY <1>5, <1>6, <2>1, <2>3 DEF OneStreams
      <3>2. TextAgrees(m)'
        BY <1>6, <2>1, <3>1, TextKept
      <3> QED
        BY <2>2, <3>2 DEF ReplyAgrees
    <2>4. CASE screen'.replies[m].state = "complete" /\ screen.replies[m].state # "complete"
      <3>1. m = n /\ screen.streaming /\ conn[n] = "ended" /\ wire[n] = <<>>
        BY <1>5, <2>1, <2>4
      <3>2. CarriesOn(<<>>, turn[n].answer, TRUE, screen.replies[n].text)
        <4>1. CarriesOn(wire[n], turn[n].answer, Whole(n), screen.replies[n].text)
          BY <1>1, <3>1 DEF TextAgrees, OneStreams
        <4>2. TRUE => Whole(n)
          BY <3>1 DEF Whole
        <4> QED
          BY <3>1, <4>1, <4>2, CarriesLess
      <3>3. Len(screen.replies[n].text) = Len(turn[n].answer)
        BY <3>2, CarriesNone
      <3>4. turn[n].upstream = <<>> /\ turn[n].pc \notin Fresh
        BY <1>1, <3>1 DEF TurnAgrees, HandlerAgrees, Fresh
      <3>5. TextAgrees(m)'
        BY <1>6, <2>1, <3>1, <3>3, <3>4, <2>4 DEF TextAgrees
      <3> QED
        BY <2>2, <3>5 DEF ReplyAgrees
    <2> QED
      BY <2>3, <2>4
  <1>12. \A r \in Request : RequestAgrees(r)'
    BY RequestsStay DEF IInv, RequestAgrees, Settled
  <1> QED
    BY <1>2, <1>3, <1>7, <1>8, <1>9, <1>10, <1>11, <1>12, ClientStepKeeps

LEMMA ReadEndKeeps ==
  ASSUME IInv, NEW n \in Turn, ReadEnd(n)
  PROVE  IInv'
  <1>1. /\ page.current = n /\ wire' = Discarded /\ page' = [page EXCEPT !.current = 0]
        /\ UNCHANGED <<turn, conn, message, proposal, ticket, request, escalation, conflicts, stops, early>>
        /\ \/ conn[n] = "ended" /\ wire[n] = <<>> /\ screen' = OnDone(screen, FALSE)
           \/ screen' = OnFailed(screen)
    BY DEF ReadEnd
  <1>2. screen \in ScreenState /\ OneStreams(screen) /\ stops \subseteq Turn
    BY DEF IInv, TypeOK, ClientTypeOK, TurnsInOrder
  <1>3. /\ screen.streaming =>
             Ends(screen, "complete", OnDone(screen, FALSE)) /\ Ends(screen, "failed", OnFailed(screen))
        /\ ~screen.streaming => OnDone(screen, FALSE) = screen /\ OnFailed(screen) = screen
    BY <1>2, StreamEnds, Ignored
  <1>4. CASE conn[n] = "ended" /\ wire[n] = <<>> /\ screen' = OnDone(screen, FALSE)
    <2>1. /\ screen.streaming => Ends(screen, "complete", screen')
          /\ ~screen.streaming => screen' = screen
      BY <1>3, <1>4
    <2> QED
      BY <1>1, <1>2, <1>4, <2>1, TurnEndsKeeps
  <1>5. CASE screen' = OnFailed(screen)
    <2>1. /\ screen.streaming => Ends(screen, "failed", screen')
          /\ ~screen.streaming => screen' = screen
      BY <1>3, <1>5
    <2> QED
      BY <1>1, <1>2, <2>1, TurnEndsKeeps
  <1> QED
    BY <1>1, <1>4, <1>5

LEMMA StopKeeps ==
  ASSUME IInv, Stop
  PROVE  IInv'
  <1>1. /\ screen.streaming /\ page.current # 0 /\ wire' = Discarded /\ conn' = Aborted
        /\ screen' = OnCancelled(screen) /\ page' = [page EXCEPT !.current = 0]
        /\ stops' = stops \union {page.current}
        /\ UNCHANGED <<turn, message, proposal, ticket, request, escalation, conflicts, early>>
    BY DEF Stop, CanStop
  <1>2. screen \in ScreenState /\ OneStreams(screen) /\ stops \subseteq Turn /\ page.current \in Turn
    BY <1>1 DEF IInv, TypeOK, ClientTypeOK, TurnsInOrder, PageState
  <1>3. Ends(screen, "cancelled", screen')
    BY <1>1, <1>2, StreamEnds
  <1>4. /\ page.current \in stops' /\ stops \subseteq stops' /\ stops' \subseteq Turn
    BY <1>1, <1>2
  <1> QED
    BY <1>1, <1>2, <1>3, <1>4, TurnEndsKeeps

----------------------------------------------------------------------------
(* Sending *)

(* A reply is added; it streams, unless it is stopped at once. *)
Started(s, state, next) ==
  LET last == Len(s.replies) + 1
      new == next.replies[last]
  IN  /\ next \in ScreenState /\ next.escalation = s.escalation
      /\ next.streaming <=> state = "streaming"
      /\ Len(next.replies) = last /\ DOMAIN next.replies = 1..last
      /\ \A j \in 1..Len(s.replies) : next.replies[j] = s.replies[j]
      /\ new.text = <<>> /\ new.evidence = {} /\ new.proposal = NoOffer /\ new.policy = NoPolicy
      /\ new.outcome = "none" /\ new.state = state

LEMMA SentIs ==
  ASSUME NEW s \in ScreenState, OneStreams(s), ~s.streaming
  PROVE  /\ Started(s, "streaming", OnSend(s))
         /\ Started(s, "cancelled", OnCancelled(OnSend(s)))
  <1> DEFINE size == Len(s.replies)
             sent == OnSend(s)
  <1>1. /\ s.replies \in Seq(ReplyState) /\ size \in Nat /\ DOMAIN s.replies = 1..size
    BY LenProperties DEF ScreenState
  <1>2. sent = [s EXCEPT !.streaming = TRUE, !.replies = Append(s.replies, NewReply)]
    BY DEF OnSend
  <1>3. NewReply \in ReplyState
    BY EmptySeq DEF NewReply, ReplyState, NoOffer, NoPolicy, Flag
  <1>4. /\ Append(s.replies, NewReply) \in Seq(ReplyState)
        /\ Len(Append(s.replies, NewReply)) = size + 1
        /\ DOMAIN Append(s.replies, NewReply) = 1..(size + 1)
        /\ \A j \in 1..size : Append(s.replies, NewReply)[j] = s.replies[j]
        /\ Append(s.replies, NewReply)[size + 1] = NewReply
    BY <1>1, <1>3, Appended
  <1>5. sent \in ScreenState /\ sent.streaming /\ sent.escalation = s.escalation
        /\ sent.replies = Append(s.replies, NewReply)
    BY <1>2, <1>4 DEF ScreenState
  <1> HIDE DEF sent, size
  <1>6. /\ Len(sent.replies) = size + 1 /\ DOMAIN sent.replies = 1..(size + 1)
        /\ \A j \in 1..size : sent.replies[j] = s.replies[j]
        /\ sent.replies[size + 1] = NewReply
    BY <1>4, <1>5
  <1>7. Started(s, "streaming", sent)
    BY <1>5, <1>6 DEF Started, NewReply, size
  <1>8. OneStreams(sent)
    <2>1. \A i \in 1..size : s.replies[i].state # "streaming"
      BY <1>1 DEF OneStreams
    <2>2. sent.replies # <<>>
      BY <1>1, <1>6, EmptySeq
    <2> QED
      BY <1>1, <1>5, <1>6, <2>1, <2>2 DEF OneStreams, NewReply
  <1>9. Ends(sent, "cancelled", OnCancelled(sent))
    BY <1>5, <1>8, StreamEnds
  <1> DEFINE next == OnCancelled(sent)
  <1> HIDE DEF next
  <1>10. /\ next \in ScreenState /\ ~next.streaming /\ next.escalation = sent.escalation
         /\ Len(next.replies) = size + 1 /\ DOMAIN next.replies = DOMAIN sent.replies
         /\ \A j \in DOMAIN sent.replies \ {size + 1} : next.replies[j] = sent.replies[j]
         /\ next.replies[size + 1].text = <<>> /\ next.replies[size + 1].evidence = {}
         /\ next.replies[size + 1].proposal = NoOffer /\ next.replies[size + 1].policy = NoPolicy
         /\ next.replies[size + 1].outcome = "none" /\ next.replies[size + 1].state = "cancelled"
    BY <1>6, <1>9 DEF Ends, NewReply, next
  <1>11. \A j \in 1..size : next.replies[j] = s.replies[j]
    BY <1>1, <1>6, <1>10
  <1>12. Started(s, "cancelled", next)
    BY <1>5, <1>6, <1>10, <1>11 DEF Started, size
  <1> QED
    BY <1>7, <1>12 DEF next, sent

LEMMA CarriesNothing ==
  ASSUME NEW whole
  PROVE  CarriesOn(<<>>, <<>>, whole, <<>>)
  <1> DEFINE at == [i \in 0..0 |-> 0]
  <1>1. at \in [0..Len(<<>>) -> 0..Len(<<>>)] /\ Carries(<<>>, <<>>, whole, <<>>, at)
    BY EmptySeq DEF Carries
  <1> QED
    BY <1>1 DEF CarriesOn

LEMMA StartTurnKeeps ==
  ASSUME IInv, StartTurn(NextTurn), ~screen.streaming,
         UNCHANGED <<message, proposal, ticket, request, escalation, conflicts, stops>>
  PROVE  IInv'
  <1>0. PICK n : n = Len(screen.replies) + 1
    OBVIOUS
  <1>1. /\ n \in Turn
        /\ turn' = [turn EXCEPT ![n].pc = "createQuestion"]
        /\ conn' = [Aborted EXCEPT ![n] = "open"]
        /\ wire' = Discarded
        /\ screen' = AbortCurrent(OnSend(screen))
        /\ page' = [page EXCEPT !.conversation = "open", !.current = n]
        /\ early' = IF page.current # 0 /\ screen.replies[page.current].state # "streaming"
                    THEN early \union {n} ELSE early
    BY <1>0 DEF StartTurn, NextTurn
  <1>2. /\ screen \in ScreenState /\ page \in PageState /\ OneStreams(screen) /\ ServerTypeOK
        /\ screen.replies \in Seq(ReplyState) /\ page.current \in {0, n - 1}
        /\ DOMAIN screen.replies = 1..(n - 1) /\ Len(screen.replies) = n - 1 /\ n \in Nat \ {0}
    <2>1. /\ screen \in ScreenState /\ page \in PageState /\ OneStreams(screen) /\ ServerTypeOK
          /\ page.current \in {0, Len(screen.replies)}
      BY DEF IInv, TypeOK, ClientTypeOK, TurnsInOrder
    <2>2. screen.replies \in Seq(ReplyState)
      BY <2>1 DEF ScreenState
    <2> QED
      BY <1>0, <2>1, <2>2, LenProperties
  <1>3. n \notin DOMAIN screen.replies /\ turn[n].pc = "none" /\ n # page.current
    BY <1>1, <1>2 DEF IInv, TurnsInOrder
  <1>4. Started(screen, IF page.current = 0 THEN "streaming" ELSE "cancelled", screen')
    BY <1>1, <1>2, SentIs DEF AbortCurrent
  <1>5. /\ screen' \in ScreenState /\ screen'.escalation = screen.escalation
        /\ screen'.streaming <=> page.current = 0
        /\ Len(screen'.replies) = n /\ DOMAIN screen'.replies = 1..n
        /\ \A j \in 1..(n - 1) : screen'.replies[j] = screen.replies[j]
        /\ screen'.replies[n].text = <<>> /\ screen'.replies[n].evidence = {}
        /\ screen'.replies[n].proposal = NoOffer /\ screen'.replies[n].policy = NoPolicy
        /\ screen'.replies[n].outcome = "none"
        /\ screen'.replies[n].state = IF page.current = 0 THEN "streaming" ELSE "cancelled"
    BY <1>0, <1>2, <1>4 DEF Started
  <1>6. /\ turn' \in [Turn -> HandlerState]
        /\ turn'[n] = [turn[n] EXCEPT !.pc = "createQuestion"]
        /\ \A m \in Turn \ {n} : turn'[m] = turn[m]
    <2>1. turn[n] \in HandlerState /\ turn \in [Turn -> HandlerState]
      BY <1>1, <1>2 DEF ServerTypeOK
    <2>2. [turn[n] EXCEPT !.pc = "createQuestion"] \in HandlerState
      BY <2>1 DEF HandlerState
    <2> QED
      BY <1>1, <2>1, <2>2
  <1>7. /\ turn'[n].pc = "createQuestion" /\ turn'[n].upstream = turn[n].upstream
        /\ turn'[n].tokens = turn[n].tokens /\ turn'[n].evidence = turn[n].evidence
        /\ turn'[n].answer = turn[n].answer /\ turn'[n].done = turn[n].done
        /\ turn'[n].intercepted = turn[n].intercepted /\ turn'[n].proposalId = turn[n].proposalId
    BY <1>1, <1>2, <1>6 DEF ServerTypeOK, HandlerState
  <1>8. /\ wire' \in [Turn -> Seq(Relayed)] /\ wire'[n] = wire[n]
        /\ \A m \in Turn : WireKept(m)
    <2>1. \A m \in Turn : wire'[m] = IF m = page.current THEN <<>> ELSE wire[m]
      BY <1>1 DEF Discarded
    <2>2. <<>> \in Seq(Relayed) /\ wire \in [Turn -> Seq(Relayed)]
      BY <1>2, EmptySeq DEF ServerTypeOK
    <2> QED
      BY <1>1, <1>3, <2>1, <2>2 DEF WireKept, Discarded
  <1>9. /\ conn' \in [Turn -> {"none", "open", "aborted", "cut", "refused", "ended"}]
        /\ conn'[n] = "open" /\ \A m \in Turn : conn'[m] = conn[m] \/ conn'[m] # "ended"
    BY <1>1, <1>2 DEF ServerTypeOK, Aborted
  <1>10. page' \in PageState /\ page'.current = n /\ page'.conversation = "open"
    BY <1>1, <1>2 DEF PageState
  <1>11. Later
    BY <1>6, <1>7 DEF Later, Keeps
  <1>12. TypeOK'
    <2>1. early' \subseteq Turn
      BY <1>1 DEF IInv, TypeOK, ClientTypeOK
    <2> QED
      BY <1>5, <1>6, <1>8, <1>9, <1>10, <2>1 DEF IInv, TypeOK, ServerTypeOK, ClientTypeOK
  <1>13. TurnsInOrder'
    <2>1. OneStreams(screen')
      <3>1. \A i \in 1..(n - 1) : screen.replies[i].state # "streaming"
        BY <1>2 DEF OneStreams
      <3>2. screen'.replies # <<>>
        BY <1>2, <1>5, EmptySeq
      <3> QED
        BY <1>2, <1>5, <3>1, <3>2 DEF OneStreams
    <2>2. DOMAIN screen'.replies \subseteq Turn
      BY <1>1, <1>2, <1>5 DEF IInv, TurnsInOrder
    <2>3. \A m \in Turn : turn'[m].pc # "none" <=> m \in DOMAIN screen'.replies
      <3> TAKE m \in Turn
      <3>1. CASE m = n
        BY <1>2, <1>5, <1>7, <3>1
      <3>2. CASE m # n
        <4>1. turn[m].pc # "none" <=> m \in 1..(n - 1)
          BY <1>2 DEF IInv, TurnsInOrder
        <4>2. m \in 1..(n - 1) <=> m \in 1..n
          BY <1>2, <3>2, TurnAssumption
        <4> QED
          BY <1>5, <1>6, <3>2, <4>1, <4>2
      <3> QED
        BY <3>1, <3>2
    <2> QED
      BY <1>5, <1>10, <2>1, <2>2, <2>3 DEF TurnsInOrder
  <1>14. ASSUME NEW m \in Turn
         PROVE  TurnAgrees(m)'
    <2>1. TurnAgrees(m)
      BY DEF IInv
    <2>2. CASE m # n
      BY <1>2, <1>6, <1>8, <1>9, <1>11, <2>1, <2>2, TurnKept DEF RowsKept
    <2>3. CASE m = n
      <3>1. /\ turn[n].upstream = <<>> /\ turn[n].tokens = <<>> /\ turn[n].evidence = <<>>
            /\ turn[n].answer = <<>> /\ ~turn[n].done
            /\ turn[n].intercepted = 0 /\ turn[n].proposalId = 0 /\ wire[n] = <<>>
        BY <1>3, <2>1, <2>3 DEF TurnAgrees, HandlerAgrees, Fresh
      <3>2. DOMAIN wire'[n] = {} /\ Agree(<<>>, <<>>)
        BY <1>8, <3>1, EmptySeq DEF Agree
      <3>3. HandlerAgrees(n)'
        BY <1>7, <1>8, <1>9, <3>1, <3>2 DEF HandlerAgrees, DoneWaits
      <3>4. WireAgrees(n)'
        BY <3>2 DEF WireAgrees
      <3>5. RecordAgrees(n)'
        BY <1>3, <1>7, <2>1, <2>3 DEF TurnAgrees, RecordAgrees, IsAnswer
      <3> QED
        BY <2>3, <3>3, <3>4, <3>5 DEF TurnAgrees
    <2> QED
      BY <2>2, <2>3
  <1>15. ASSUME NEW m \in DOMAIN screen'.replies
         PROVE  ReplyAgrees(m)'
    <2>1. CASE m # n
      <3>1. m \in 1..(n - 1) /\ m \in DOMAIN screen.replies
        BY <1>2, <1>5, <2>1
      <3>2. m \in Turn /\ TextAgrees(m) /\ OfferAgrees(m) /\ screen.replies[m].state # "streaming"
        BY <3>1 DEF IInv, TurnsInOrder, OneStreams, ReplyAgrees
      <3>3. screen'.replies[m] = screen.replies[m] /\ turn'[m] = turn[m]
        BY <1>5, <1>6, <2>1, <3>1, <3>2
      <3>4. TextAgrees(m)'
        BY <3>2, <3>3, TextKept
      <3>5. OfferAgrees(m)'
        BY <1>11, <3>2, <3>3, OfferKept
      <3> QED
        BY <3>4, <3>5 DEF ReplyAgrees
    <2>2. CASE m = n
      <3>1. /\ turn'[n].answer = <<>> /\ ~turn'[n].done
            /\ turn'[n].evidence = <<>> /\ wire'[n] = <<>>
        <4>1. HandlerAgrees(n)
          BY <1>1 DEF IInv, TurnAgrees
        <4> QED
          BY <1>3, <1>7, <1>8, <4>1 DEF HandlerAgrees, Fresh
      <3>2. Agree(screen'.replies[n].text, turn'[n].answer)
        BY <1>5, <3>1, EmptySeq DEF Agree
      <3>3. CarriesOn(wire'[n], turn'[n].answer, Whole(n)', screen'.replies[n].text)
        BY <1>5, <3>1, CarriesNothing
      <3>4. TextAgrees(n)'
        BY <1>5, <3>1, <3>2, <3>3 DEF TextAgrees
      <3>5. OfferAgrees(n)'
        BY <1>5 DEF OfferAgrees, NoOffer
      <3> QED
        BY <2>2, <3>4, <3>5 DEF ReplyAgrees
    <2> QED
      BY <2>1, <2>2
  <1>16. \A r \in Request : RequestAgrees(r)'
    BY <1>11, RequestKept DEF IInv
  <1>17. TicketAgrees'
    <2>1. \A m \in 1..n : screen'.replies[m].policy.escalated => ticket
      <3> TAKE m \in 1..n
      <3>1. CASE m = n
        BY <1>5, <3>1 DEF NoPolicy
      <3>2. CASE m # n
        <4>1. m \in 1..(n - 1)
          BY <1>2, <3>2
        <4> QED
          BY <1>2, <1>5, <4>1 DEF IInv, TicketAgrees
      <3> QED
        BY <3>1, <3>2
    <2> QED
      BY <1>5, <2>1 DEF IInv, TicketAgrees
  <1>18. StoppedByCustomer'
    <2>1. early \subseteq early'
      BY <1>1
    <2>2. page.current # 0 => n \in early'
      <3> SUFFICES ASSUME page.current # 0
                   PROVE  screen.replies[page.current].state # "streaming"
        BY <1>1
      <3>1. page.current \in DOMAIN screen.replies
        BY <1>2
      <3> QED
        BY <1>2, <3>1 DEF OneStreams
    <2>3. ASSUME NEW m \in 1..n, SaysStopped(screen'.replies[m])
          PROVE  m \in stops' \/ m \in early'
      <3>1. CASE m = n
        BY <1>5, <2>2, <2>3, <3>1 DEF SaysStopped
      <3>2. CASE m # n
        <4>1. m \in 1..(n - 1)
          BY <1>2, <3>2
        <4> QED
          BY <1>2, <1>5, <2>1, <2>3, <4>1 DEF IInv, StoppedByCustomer
      <3> QED
        BY <3>1, <3>2
    <2> QED
      BY <1>5, <2>3 DEF StoppedByCustomer
  <1> QED
    BY <1>12, <1>13, <1>14, <1>15, <1>16, <1>17, <1>18 DEF IInv

LEMMA SendingKeeps ==
  ASSUME IInv, Send \/ ConversationCreated
  PROVE  IInv'
  <1>1. /\ StartTurn(NextTurn)
        /\ UNCHANGED <<message, proposal, ticket, request, escalation, conflicts, stops>>
    BY DEF Send, ConversationCreated
  <1>2. ~screen.streaming
    <2>1. CASE Send
      BY <2>1 DEF Send, CanSubmit
    <2>2. CASE ConversationCreated
      BY <2>2 DEF ConversationCreated, IInv, TurnsInOrder, OneStreams
    <2> QED
      BY <2>1, <2>2
  <1> QED
    BY <1>1, <1>2, StartTurnKeeps

----------------------------------------------------------------------------
(* The answers *)

(* What an answer about a proposal may change of a reply, and of the screen. *)
AnswersReply(old, new, id, verb, kind, escalated) ==
  /\ new.text = old.text /\ new.evidence = old.evidence /\ new.state = old.state
  /\ new.proposal.id = old.proposal.id /\ new.proposal.number = old.proposal.number
  /\ new.policy.escalated => old.policy.escalated \/ escalated
  /\ \/ new.proposal = old.proposal /\ new.outcome = old.outcome
     \/ /\ old.proposal.id = id
        /\ new.outcome = old.outcome \/ (kind = "ok" /\ new.outcome = Target(verb))
        /\ \/ new.proposal.status = "pending"
           \/ new.proposal.status = "decided" /\ (kind = "fault" => escalated)

ShowsAnswer(s, id, verb, kind, escalated, next) ==
  /\ next \in ScreenState /\ next.streaming = s.streaming
  /\ next.escalation = s.escalation \/ escalated
  /\ Len(next.replies) = Len(s.replies) /\ DOMAIN next.replies = DOMAIN s.replies
  /\ \A j \in DOMAIN s.replies :
       AnswersReply(s.replies[j], next.replies[j], id, verb, kind, escalated)

LEMMA AnswerShown ==
  ASSUME NEW s \in ScreenState, NEW id \in DOMAIN s.replies, id # 0, NEW new \in ReplyState,
         NEW verb, NEW kind, NEW escalated \in BOOLEAN,
         s.replies[id].proposal.id = id,
         new.text = s.replies[id].text, new.evidence = s.replies[id].evidence,
         new.state = s.replies[id].state, new.proposal.id = s.replies[id].proposal.id,
         new.proposal.number = s.replies[id].proposal.number,
         new.policy.escalated => s.replies[id].policy.escalated \/ escalated,
         new.outcome = s.replies[id].outcome \/ (kind = "ok" /\ new.outcome = Target(verb)),
         \/ new.proposal.status = "pending"
         \/ new.proposal.status = "decided" /\ (kind = "fault" => escalated)
  PROVE  /\ ShowsAnswer(s, id, verb, kind, escalated, WithReply(s, id, new))
         /\ escalated => ShowsAnswer(s, id, verb, kind, escalated, Escalated(WithReply(s, id, new)))
  <1> DEFINE shown == WithReply(s, id, new)
  <1>1. Becomes(s, id, new, shown)
    BY WithReplyIs
  <1> HIDE DEF shown
  <1>2. ShowsAnswer(s, id, verb, kind, escalated, shown)
    <2>1. AnswersReply(s.replies[id], new, id, verb, kind, escalated)
      BY DEF AnswersReply
    <2>2. \A reply : AnswersReply(reply, reply, id, verb, kind, escalated)
      BY DEF AnswersReply
    <2> QED
      BY <1>1, <2>1, <2>2 DEF ShowsAnswer, Becomes
  <1>3. /\ Escalated(shown).replies = shown.replies /\ Escalated(shown).streaming = shown.streaming
        /\ Escalated(shown) \in ScreenState
    BY <1>1 DEF Becomes, Escalated, ScreenState
  <1>4. escalated => ShowsAnswer(s, id, verb, kind, escalated, Escalated(shown))
    BY <1>2, <1>3 DEF ShowsAnswer
  <1> QED
    BY <1>2, <1>4 DEF shown

(* An answer about a proposal the page does not hold as pending is ignored. *)
LEMMA AnswerIs ==
  ASSUME NEW s \in ScreenState, NEW id \in Turn, PendingProposal(s, id) \in {0, id},
         PendingProposal(s, id) # 0 => id \in DOMAIN s.replies /\ s.replies[id].proposal.id = id,
         NEW verb \in {"confirm", "reject"}, NEW kind \in {"ok", "stale", "fault"},
         NEW escalated \in BOOLEAN
  PROVE  ShowsAnswer(s, id, verb, kind, escalated,
           IF kind = "ok" THEN OnProposalDecided(s, id, Target(verb))
           ELSE OnProposalRefused(s, id, kind, escalated))
  <1> DEFINE old == s.replies[id]
  <1>1. id # 0 /\ Target(verb) \in DecidedOutcomes
    BY TurnAssumption DEF Target, DecidedOutcomes
  <1>2. ShowsAnswer(s, id, verb, kind, escalated, s)
    BY DEF ShowsAnswer, AnswersReply
  <1>3. CASE PendingProposal(s, id) = 0
    <2>1. \A reply : WithReply(s, 0, reply) = s
      BY DEF WithReply
    <2>2. OnProposalDecided(s, id, Target(verb)) = s /\ OnProposalRefused(s, id, kind, escalated) = s
      BY <1>3, <2>1 DEF OnProposalDecided, OnProposalRefused
    <2> QED
      BY <1>2, <2>2
  <1>4. CASE PendingProposal(s, id) # 0
    <2>1. PendingProposal(s, id) = id /\ id \in DOMAIN s.replies /\ old.proposal.id = id
      BY <1>4
    <2>2. old \in ReplyState
      BY <2>1, ElementOfSeq, LenProperties DEF ScreenState
    <2> HIDE DEF old
    <2>3. CASE kind = "ok"
      <3> DEFINE new == [old EXCEPT !.proposal.status = "decided", !.outcome = Target(verb),
                                    !.policy = IF @.kind = "fault" THEN NoPolicy ELSE @]
      <3>1. OnProposalDecided(s, id, Target(verb)) = WithReply(s, id, new)
        BY <1>1, <2>1 DEF OnProposalDecided, old
      <3>2. /\ new \in ReplyState /\ new.text = old.text /\ new.evidence = old.evidence
            /\ new.state = old.state /\ new.proposal.id = old.proposal.id
            /\ new.proposal.number = old.proposal.number /\ new.proposal.status = "decided"
            /\ new.policy.escalated => old.policy.escalated
            /\ new.outcome = Target(verb)
        BY <1>1, <2>2 DEF ReplyState, NoPolicy, DecidedOutcomes
      <3> HIDE DEF new
      <3>3. ShowsAnswer(s, id, verb, kind, escalated, WithReply(s, id, new))
        BY <1>1, <2>1, <2>3, <3>2, AnswerShown DEF old
      <3> QED
        BY <2>3, <3>1, <3>3
    <2>4. CASE kind # "ok"
      <3> DEFINE new == [old EXCEPT
                          !.proposal.status =
                            IF kind = "fault" /\ ~escalated THEN "pending" ELSE "decided",
                          !.policy = [kind |-> kind, escalated |-> escalated]]
      <3>1. OnProposalRefused(s, id, kind, escalated)
              = IF escalated THEN Escalated(WithReply(s, id, new)) ELSE WithReply(s, id, new)
        BY <1>1, <2>1 DEF OnProposalRefused, old
      <3>2. /\ new \in ReplyState /\ new.text = old.text /\ new.evidence = old.evidence
            /\ new.state = old.state /\ new.proposal.id = old.proposal.id
            /\ new.proposal.number = old.proposal.number
            /\ new.proposal.status = IF kind = "fault" /\ ~escalated THEN "pending" ELSE "decided"
            /\ new.policy.escalated = escalated
            /\ new.outcome = old.outcome
        BY <2>2, <2>4 DEF ReplyState
      <3> HIDE DEF new
      <3>3. \/ new.proposal.status = "pending"
            \/ new.proposal.status = "decided" /\ (kind = "fault" => escalated)
        BY <3>2
      <3>4. /\ ShowsAnswer(s, id, verb, kind, escalated, WithReply(s, id, new))
            /\ escalated => ShowsAnswer(s, id, verb, kind, escalated, Escalated(WithReply(s, id, new)))
        BY <1>1, <2>1, <3>2, <3>3, AnswerShown DEF old
      <3> QED
        BY <2>4, <3>1, <3>4
    <2> QED
      BY <2>3, <2>4
  <1> QED
    BY <1>3, <1>4

(* What the request knows is what the invariant says of it. *)
LEMMA AnsweredShows ==
  ASSUME IInv, NEW r \in Request, Answered(r)
  PROVE  LET q == request[r]
         IN  /\ q.id \in Turn /\ turn[q.id].proposalId = q.id /\ q.verb \in {"confirm", "reject"}
             /\ q.kind \in {"ok", "stale", "fault"} /\ q.escalated \in BOOLEAN
             /\ q.kind = "ok" => proposal[q.id].status = Target(q.verb)
             /\ q.kind = "stale" => Settled(q.id)
             /\ q.kind = "fault" /\ q.escalated => Settled(q.id)
             /\ q.escalated => ticket
             /\ ShowsAnswer(screen, q.id, q.verb, q.kind, q.escalated, screen')
  <1>0. PICK q : q = request[r]
    OBVIOUS
  <1>1. /\ q.pc = "answered"
        /\ screen' = IF q.kind = "ok" THEN OnProposalDecided(screen, q.id, Target(q.verb))
                      ELSE OnProposalRefused(screen, q.id, q.kind, q.escalated)
        /\ page' = [page EXCEPT !.open = 0, !.busy = 0]
        /\ request' = [request EXCEPT ![r].pc = "done"]
        /\ UNCHANGED <<turn, conn, wire, message, proposal, ticket, escalation, conflicts, stops, early>>
    BY <1>0 DEF Answered, serverVars
  <1>2. /\ screen \in ScreenState /\ page \in PageState /\ OneStreams(screen)
        /\ request \in [Request -> RequestState] /\ q \in RequestState /\ RequestAgrees(r)
    BY <1>0 DEF IInv, TypeOK, ClientTypeOK, TurnsInOrder
  <1>3. /\ q.id \in Turn /\ turn[q.id].proposalId = q.id /\ q.verb \in {"confirm", "reject"}
        /\ q.kind \in {"ok", "stale", "fault"} /\ q.escalated \in BOOLEAN
        /\ q.kind = "ok" => proposal[q.id].status = Target(q.verb)
        /\ q.kind = "stale" => Settled(q.id)
        /\ q.kind = "fault" /\ q.escalated => Settled(q.id)
        /\ q.escalated => ticket
    BY <1>0, <1>1, <1>2 DEF RequestAgrees, RequestState
  <1>4. ShowsAnswer(screen, q.id, q.verb, q.kind, q.escalated, screen')
    <2>1. /\ PendingProposal(screen, q.id) \in {0, q.id}
          /\ PendingProposal(screen, q.id) # 0 =>
               q.id \in DOMAIN screen.replies /\ screen.replies[q.id].proposal.id = q.id
      BY <1>3, PendingIs
    <2> QED
      BY <1>1, <1>2, <1>3, <2>1, AnswerIs
  <1> QED
    BY <1>0, <1>3, <1>4

LEMMA AnsweredKeeps ==
  ASSUME IInv, NEW r \in Request, Answered(r)
  PROVE  IInv'
  <1>0. PICK q : q = request[r]
    OBVIOUS
  <1>1. /\ q.pc = "answered"
        /\ page' = [page EXCEPT !.open = 0, !.busy = 0]
        /\ request' = [request EXCEPT ![r].pc = "done"]
        /\ UNCHANGED <<turn, conn, wire, message, proposal, ticket, escalation, conflicts, stops, early>>
    BY <1>0 DEF Answered, serverVars
  <1>2. /\ screen \in ScreenState /\ page \in PageState /\ OneStreams(screen)
        /\ request \in [Request -> RequestState] /\ q \in RequestState /\ RequestAgrees(r)
    BY <1>0 DEF IInv, TypeOK, ClientTypeOK, TurnsInOrder
  <1>3. /\ q.id \in Turn /\ turn[q.id].proposalId = q.id /\ q.verb \in {"confirm", "reject"}
        /\ q.kind \in {"ok", "stale", "fault"} /\ q.escalated \in BOOLEAN
        /\ q.kind = "ok" => proposal[q.id].status = Target(q.verb)
        /\ q.kind = "stale" => Settled(q.id)
        /\ q.kind = "fault" /\ q.escalated => Settled(q.id)
        /\ q.escalated => ticket
        /\ ShowsAnswer(screen, q.id, q.verb, q.kind, q.escalated, screen')
    BY <1>0, AnsweredShows
  <1>5. /\ screen' \in ScreenState /\ screen'.streaming = screen.streaming
        /\ screen'.escalation = screen.escalation \/ q.escalated
        /\ Len(screen'.replies) = Len(screen.replies) /\ DOMAIN screen'.replies = DOMAIN screen.replies
        /\ \A j \in DOMAIN screen.replies :
             /\ screen'.replies[j].text = screen.replies[j].text
             /\ screen'.replies[j].evidence = screen.replies[j].evidence
             /\ screen'.replies[j].state = screen.replies[j].state
             /\ screen'.replies[j].policy.escalated => screen.replies[j].policy.escalated \/ q.escalated
    BY <1>3 DEF ShowsAnswer, AnswersReply
  <1>6. /\ page' \in PageState /\ page'.current = page.current
        /\ page'.conversation = page.conversation
    BY <1>1, <1>2 DEF PageState
  <1>7. /\ request' \in [Request -> RequestState]
        /\ request'[r].pc = "done" /\ request'[r].id = q.id /\ request'[r].verb = q.verb
        /\ \A p \in Request \ {r} : request'[p] = request[p]
    <2>1. [q EXCEPT !.pc = "done"] \in RequestState
      BY <1>2 DEF RequestState
    <2>2. request' = [request EXCEPT ![r] = [q EXCEPT !.pc = "done"]]
      BY <1>0, <1>1
    <2> QED
      BY <1>2, <2>1, <2>2 DEF RequestState
  <1>8. TypeOK'
    BY <1>1, <1>5, <1>6, <1>7 DEF IInv, TypeOK, ServerTypeOK, ClientTypeOK
  <1>9. TurnsInOrder'
    <2>1. screen.streaming => screen.replies # <<>> /\ screen.replies[Len(screen.replies)].state = "streaming"
      BY <1>2 DEF OneStreams
    <2>2. screen.replies # <<>> <=> screen'.replies # <<>>
      BY <1>2, <1>5, EmptySeq DEF ScreenState
    <2>3. screen.streaming => Len(screen.replies) \in DOMAIN screen.replies
      BY <1>2, StreamingIs
    <2>4. OneStreams(screen')
      BY <1>2, <1>5, <2>1, <2>2, <2>3 DEF OneStreams
    <2> QED
      BY <1>1, <1>5, <1>6, <2>2, <2>4 DEF IInv, TurnsInOrder
  <1>10. StoppedByCustomer'
    <2>1. \A j \in DOMAIN screen.replies : SaysStopped(screen'.replies[j]) <=> SaysStopped(screen.replies[j])
      BY <1>5 DEF SaysStopped
    <2> QED
      BY <1>1, <1>5, <2>1 DEF IInv, StoppedByCustomer
  <1>11. TicketAgrees'
    BY <1>1, <1>3, <1>5 DEF IInv, TicketAgrees
  <1>12. ASSUME NEW m \in DOMAIN screen'.replies
         PROVE  ReplyAgrees(m)'
    <2>1. m \in DOMAIN screen.replies /\ m \in Turn /\ TextAgrees(m) /\ OfferAgrees(m) /\ Later
      BY <1>1, <1>5 DEF IInv, TurnsInOrder, ReplyAgrees, Later, Keeps
    <2>2. Whole(m)' => Whole(m)
      BY <1>1 DEF Whole
    <2>3. TextAgrees(m)'
      BY <1>1, <1>5, <2>1, <2>2, TextKept
    <2>4. OfferAgrees(m)'
      <3>0. PICK old, new : old = screen.replies[m] /\ new = screen'.replies[m]
        OBVIOUS
      <3>1. AnswersReply(old, new, q.id, q.verb, q.kind, q.escalated)
        BY <1>3, <2>1, <3>0 DEF ShowsAnswer
      <3>2. CASE new.proposal = old.proposal /\ new.outcome = old.outcome
        BY <2>1, <3>0, <3>2, OfferKept
      <3>3. CASE /\ old.proposal.id = q.id
                 /\ new.outcome = old.outcome \/ (q.kind = "ok" /\ new.outcome = Target(q.verb))
                 /\ \/ new.proposal.status = "pending"
                    \/ new.proposal.status = "decided" /\ (q.kind = "fault" => q.escalated)
        <4>1. /\ m = q.id /\ m # 0 /\ new.proposal.id = m /\ turn[m].proposalId = m
              /\ WithinBoundary(m, new.proposal.number)
          <5>1. old.proposal.id # 0 /\ old.proposal.id = q.id
            BY <1>3, <3>3, TurnAssumption
          <5>2. old.proposal.id = m /\ WithinBoundary(m, old.proposal.number)
            BY <2>1, <3>0, <5>1 DEF OfferAgrees
          <5> QED
            BY <1>3, <3>1, <5>1, <5>2 DEF AnswersReply
        <4>2. /\ new.outcome = "executed" => proposal[m].status = "executed"
              /\ new.outcome = "rejected_by_customer" => proposal[m].status = "rejected_by_customer"
          BY <1>3, <2>1, <3>0, <3>3, <4>1 DEF OfferAgrees, Target
        <4>3. new.proposal.status = "decided" => Settled(m)
          <5>1. q.kind = "ok" => Settled(q.id)
            BY <1>3 DEF Settled, Target
          <5> QED
            BY <1>3, <3>3, <4>1, <5>1
        <4> QED
          BY <1>1, <3>0, <4>1, <4>2, <4>3 DEF OfferAgrees, WithinBoundary, Settled
      <3> QED
        BY <3>1, <3>2, <3>3 DEF AnswersReply
    <2> QED
      BY <2>3, <2>4 DEF ReplyAgrees
  <1>13. ASSUME NEW p \in Request
         PROVE  RequestAgrees(p)'
    <2>1. Later
      BY <1>1 DEF Later, Keeps
    <2>2. CASE p # r
      <3>1. RequestAgrees(p) /\ request'[p] = request[p]
        BY <1>7, <2>2 DEF IInv
      <3> QED
        BY <2>1, <3>1, RequestKept
    <2>3. CASE p = r
      BY <1>1, <1>3, <1>7, <2>3 DEF RequestAgrees
    <2> QED
      BY <2>2, <2>3
  <1>14. \A m \in Turn : conn'[m] = conn[m] /\ WireKept(m)
    BY <1>1 DEF WireKept
  <1> QED
    BY <1>1, <1>8, <1>9, <1>10, <1>11, <1>12, <1>13, <1>14, ClientStepKeeps

----------------------------------------------------------------------------
(* Asking for a person *)

LEMMA EscalationKeeps ==
  ASSUME IInv, AskForPerson \/ EscalationAnswered
  PROVE  IInv'
  <1>1. /\ UNCHANGED <<turn, conn, wire, message, proposal, page, request, conflicts, stops, early>>
        /\ ticket' \in {ticket, TRUE} /\ escalation' \in {"none", "ok", "failed"}
        /\ escalation' = "ok" => ticket'
        /\ \/ screen' = screen
           \/ \E to \in {"requesting", "failed", "escalated"} :
                /\ screen' = [screen EXCEPT !.escalation = to]
                /\ to = "escalated" => escalation = "ok"
    <2>1. CASE AskForPerson
      <3>1. screen' = screen \/ screen' = [screen EXCEPT !.escalation = "requesting"]
        BY <2>1 DEF AskForPerson, OnEscalationRequested
      <3> QED
        BY <2>1, <3>1 DEF AskForPerson, EscalateOnServer
    <2>2. CASE EscalationAnswered
      <3>1. \/ screen' = screen \/ screen' = [screen EXCEPT !.escalation = "failed"]
            \/ escalation = "ok" /\ screen' = [screen EXCEPT !.escalation = "escalated"]
        BY <2>2 DEF EscalationAnswered, OnEscalationSucceeded, OnEscalationFailed, Escalated
      <3> QED
        BY <2>2, <3>1 DEF EscalationAnswered, serverVars
    <2> QED
      BY <2>1, <2>2
  <1>2. screen \in ScreenState /\ ticket \in BOOLEAN
    BY DEF IInv, TypeOK, ClientTypeOK, ServerTypeOK
  <1>3. /\ screen' \in ScreenState /\ screen'.replies = screen.replies
        /\ screen'.streaming = screen.streaming
        /\ screen'.escalation = "escalated" => screen.escalation = "escalated" \/ escalation = "ok"
    BY <1>1, <1>2 DEF ScreenState
  <1>4. (ticket => ticket') /\ ticket' \in BOOLEAN
    BY <1>1, <1>2
  <1>5. TypeOK'
    BY <1>1, <1>3, <1>4 DEF IInv, TypeOK, ServerTypeOK, ClientTypeOK
  <1>6. TurnsInOrder' /\ StoppedByCustomer'
    BY <1>1, <1>3 DEF IInv, TurnsInOrder, OneStreams, StoppedByCustomer
  <1>7. TicketAgrees'
    BY <1>1, <1>3, <1>4 DEF IInv, TicketAgrees
  <1>8. \A m \in Turn : conn'[m] = conn[m] /\ WireKept(m) /\ (Whole(m)' => Whole(m))
    BY <1>1 DEF WireKept, Whole
  <1>9. \A m \in DOMAIN screen'.replies : ReplyAgrees(m)'
    BY <1>1, <1>3, <1>4, <1>8, ReplyKept DEF IInv, TurnsInOrder
  <1>10. \A r \in Request : RequestAgrees(r)'
    <2>1. Later
      BY <1>1, <1>4 DEF Later, Keeps
    <2> QED
      BY <1>1, <2>1, RequestKept DEF IInv
  <1> QED
    BY <1>1, <1>4, <1>5, <1>6, <1>7, <1>8, <1>9, <1>10, ClientStepKeeps

----------------------------------------------------------------------------
(* The invariant *)

LEMMA InitEstablishes ==
  ASSUME Init
  PROVE  IInv
  <1>1. /\ turn = [n \in Turn |-> Waiting] /\ conn = [n \in Turn |-> "none"]
        /\ wire = [n \in Turn |-> <<>>] /\ message = <<>>
        /\ proposal = [n \in Turn |-> NoProposal] /\ ticket = FALSE
        /\ screen = InitialConversation
        /\ page = [conversation |-> "none", current |-> 0, open |-> 0, busy |-> 0]
        /\ request = [r \in Request |-> NoRequest]
        /\ escalation = "none" /\ conflicts = {} /\ stops = {} /\ early = {}
    BY DEF Init, ServerInit
  <1>2. \A S : <<>> \in Seq(S) /\ DOMAIN <<>> = {} /\ Len(<<>>) = 0
    BY EmptySeq, LenProperties
  <1>3. ServerTypeOK
    <2>1. Waiting \in HandlerState
      BY <1>2 DEF Waiting, HandlerState, Raw
    <2>2. NoProposal \in ProposalState
      BY DEF NoProposal, ProposalState, ProposalStatus, Raw
    <2> QED
      BY <1>1, <1>2, <2>1, <2>2 DEF ServerTypeOK
  <1>4. ClientTypeOK
    <2>1. InitialConversation \in ScreenState
      BY <1>2 DEF InitialConversation, ScreenState
    <2>2. NoRequest \in RequestState
      BY DEF NoRequest, RequestState
    <2>3. page \in PageState
      BY <1>1 DEF PageState
    <2> QED
      BY <1>1, <2>1, <2>2, <2>3 DEF ClientTypeOK
  <1>5. /\ screen.replies = <<>> /\ screen.streaming = FALSE /\ screen.escalation = "none"
        /\ DOMAIN screen.replies = {} /\ page.current = 0
    BY <1>1, <1>2 DEF InitialConversation
  <1>6. TurnsInOrder
    BY <1>1, <1>5 DEF TurnsInOrder, OneStreams, Waiting
  <1>7. ASSUME NEW n \in Turn
        PROVE  TurnAgrees(n)
    <2>1. turn[n] = Waiting /\ wire[n] = <<>> /\ conn[n] = "none"
      BY <1>1
    <2>2. HandlerAgrees(n)
      BY <1>2, <2>1 DEF HandlerAgrees, Waiting, Fresh, DoneWaits, Agree
    <2>3. WireAgrees(n)
      BY <1>2, <2>1 DEF WireAgrees
    <2>4. RecordAgrees(n)
      BY <1>1, <1>2, <2>1 DEF RecordAgrees, Waiting
    <2> QED
      BY <2>2, <2>3, <2>4 DEF TurnAgrees
  <1>8. \A r \in Request : RequestAgrees(r)
    BY <1>1 DEF RequestAgrees, NoRequest
  <1>9. TicketAgrees /\ StoppedByCustomer
    BY <1>1, <1>5 DEF TicketAgrees, StoppedByCustomer
  <1> QED
    BY <1>3, <1>4, <1>5, <1>6, <1>7, <1>8, <1>9 DEF IInv, TypeOK

LEMMA StutterKeeps ==
  ASSUME IInv, UNCHANGED vars
  PROVE  IInv'
  <1>1. /\ UNCHANGED <<serverVars, screen, escalation, conflicts, stops, early>>
        /\ page' = page /\ request' = request
    BY DEF vars, clientVars
  <1>2. page \in PageState /\ request \in [Request -> RequestState]
    BY DEF IInv, TypeOK, ClientTypeOK
  <1>3. \A r \in Request : RequestAgrees(r)'
    BY <1>1, RequestsStay
  <1> QED
    BY <1>1, <1>2, <1>3, PageKeeps

LEMMA NextKeeps ==
  ASSUME IInv, [Next]_vars
  PROVE  IInv'
  <1>1. ASSUME NEW n \in Turn,
               \/ TurnStep(n) \/ ReadFrame(n) \/ ReadEnd(n) \/ ConnectionBreaks(n)
               \/ Review(n) \/ Expire(n)
        PROVE  IInv'
    BY <1>1, TurnStepKeeps, ReadFrameKeeps, ReadEndKeeps, ConnectionBreaksKeeps, OnlyThePage,
       ExpireKeeps
  <1>2. CASE Send \/ ConversationCreated
    BY <1>2, SendingKeeps
  <1>3. CASE StartConversation \/ ConversationNotCreated \/ Dismiss
    BY <1>3, OnlyThePage
  <1>4. CASE Stop
    BY <1>4, StopKeeps
  <1>5. ASSUME NEW r \in Request, DecideOnServer(r) \/ DecisionFails(r) \/ Answered(r)
        PROVE  IInv'
    BY <1>5, DecideOnServerKeeps, DecisionFailsKeeps, AnsweredKeeps
  <1>6. ASSUME NEW r \in Request, NEW verb \in {"confirm", "reject"}, Decide(r, verb)
        PROVE  IInv'
    BY <1>6, DecideKeeps
  <1>7. CASE AskForPerson \/ EscalationAnswered
    BY <1>7, EscalationKeeps
  <1>8. CASE UNCHANGED vars
    BY <1>8, StutterKeeps
  <1> QED
    BY <1>1, <1>2, <1>3, <1>4, <1>5, <1>6, <1>7, <1>8 DEF Next

(* Whatever is asked, sent by the AI service, ruled, stopped, decided, lost or failed,
   handler, wire, screen, rows and requests go on to fit together. *)
THEOREM Invariance == Spec => []IInv
  <1>1. Init => IInv
    BY InitEstablishes
  <1>2. IInv /\ [Next]_vars => IInv'
    BY NextKeeps
  <1> QED
    BY <1>1, <1>2, PTL DEF Spec

(* The handlers, the rows, the screen and the requests never leave their types. *)
THEOREM TypeCorrectness == Spec => []TypeOK
  <1>1. IInv => TypeOK
    BY DEF IInv
  <1> QED
    BY <1>1, Invariance, PTL

----------------------------------------------------------------------------
(* What the customer is shown *)

(* A reply of the page and its turn. *)
LEMMA Shown ==
  ASSUME IInv, NEW n \in DOMAIN screen.replies
  PROVE  /\ n \in Turn /\ n # 0 /\ TextAgrees(n) /\ OfferAgrees(n) /\ TurnAgrees(n)
         /\ screen.replies[n] \in ReplyState /\ turn[n] \in HandlerState
         /\ proposal[n] \in ProposalState
         /\ screen.replies[n].proposal.id \in {0, n}
         /\ IsPrefix(screen.replies[n].text, turn[n].tokens)
  <1>1. n \in Turn /\ n # 0 /\ TextAgrees(n) /\ OfferAgrees(n) /\ TurnAgrees(n) /\ ServerTypeOK
    BY TurnAssumption DEF IInv, TurnsInOrder, ReplyAgrees, TypeOK
  <1>2. screen.replies[n] \in ReplyState
    <2>1. screen.replies \in Seq(ReplyState)
      BY DEF IInv, TypeOK, ClientTypeOK, ScreenState
    <2> QED
      BY <2>1, ElementOfSeq, LenProperties
  <1>3. turn[n] \in HandlerState /\ proposal[n] \in ProposalState
    BY <1>1 DEF ServerTypeOK
  <1>4. /\ screen.replies[n].text \in Seq(Word)
        /\ turn[n].answer \in Seq(Word) /\ turn[n].tokens \in Seq(Word)
    BY <1>2, <1>3 DEF ReplyState, HandlerState
  <1>5. IsPrefix(screen.replies[n].text, turn[n].tokens)
    <2>1. PICK text, answer, tokens :
            text = screen.replies[n].text /\ answer = turn[n].answer /\ tokens = turn[n].tokens
      OBVIOUS
    <2>2. Agree(text, answer) /\ Agree(answer, tokens)
      BY <1>1, <2>1 DEF TextAgrees, TurnAgrees, HandlerAgrees
    <2>3. Len(text) \in Nat /\ Len(answer) \in Nat /\ Len(tokens) \in Nat
      BY <1>4, <2>1, LenProperties
    <2>4. Agree(text, tokens)
      BY <2>2, <2>3 DEF Agree
    <2> QED
      BY <1>4, <2>1, <2>4, Prefix
  <1> QED
    BY <1>1, <1>2, <1>3, <1>5 DEF OfferAgrees

(* A reply shows what its own turn relayed, in order, and all of the answer when it is
   shown as complete: every token up to the first done frame, or to the end if none was
   relayed. For any number of turns, whatever a service sends, after done too, and
   however many frames wait. *)
THEOREM OnlyTheRelayedIsShown == Spec => []ShownIsRelayed
  <1>1. ASSUME IInv, NEW n \in DOMAIN screen.replies
        PROVE  LET reply == screen.replies[n]
               IN  /\ IsPrefix(reply.text, turn[n].tokens)
                   /\ reply.evidence \subseteq Range(turn[n].evidence)
                   /\ reply.proposal.id \in {0, n}
                   /\ reply.state = "complete" => reply.text = turn[n].answer
    <2>1. /\ TextAgrees(n) /\ screen.replies[n].proposal.id \in {0, n}
          /\ screen.replies[n] \in ReplyState /\ turn[n] \in HandlerState
          /\ IsPrefix(screen.replies[n].text, turn[n].tokens)
      BY <1>1, Shown
    <2>2. ASSUME screen.replies[n].state = "complete"
          PROVE  screen.replies[n].text = turn[n].answer
      <3> DEFINE text == screen.replies[n].text
                 answer == turn[n].answer
      <3>1. text \in Seq(Word) /\ answer \in Seq(Word)
        BY <2>1 DEF ReplyState, HandlerState
      <3>2. Len(text) = Len(answer) /\ \A i \in 1..Len(text) : text[i] = answer[i]
        BY <2>1, <2>2 DEF TextAgrees, Agree
      <3> HIDE DEF text, answer
      <3>3. text = answer
        BY <3>1, <3>2, SeqEqual
      <3> QED
        BY <3>3 DEF text, answer
    <2> QED
      BY <2>1, <2>2 DEF TextAgrees
  <1>2. IInv => ShownIsRelayed
    BY <1>1 DEF ShownIsRelayed
  <1> QED
    BY <1>2, Invariance, PTL

(* A turn whose response ended left one answer row, after its question, and the row
   holds whatever the customer was shown of the answer, however it was interrupted. *)
THEOREM TheRecordIsComplete == Spec => []RecordHoldsWhatWasShown
  <1>1. ASSUME IInv, NEW n \in DOMAIN screen.replies
        PROVE  LET reply == screen.replies[n]
               IN  /\ turn[n].pc \in {"end", "ended"} => Cardinality(AnswerRow(n)) = 1
                   /\ \A i \in AnswerRow(n) :
                        /\ \E j \in 1..(i - 1) : message[j].turn = n /\ message[j].role = "customer"
                        /\ IsPrefix(reply.text, message[i].content)
                        /\ reply.evidence \subseteq Range(message[i].evidence)
                        /\ reply.proposal.id \in {0, message[i].proposalId}
    <2>1. /\ TextAgrees(n) /\ OfferAgrees(n) /\ TurnAgrees(n) /\ n # 0
          /\ screen.replies[n].proposal.id \in {0, n}
          /\ IsPrefix(screen.replies[n].text, turn[n].tokens)
      BY <1>1, Shown
    <2>2. AnswerRow(n) = {i \in DOMAIN message : IsAnswer(n, i)}
      BY DEF AnswerRow, IsAnswer
    <2>3. CASE turn[n].pc \notin {"end", "ended"}
      <3>1. AnswerRow(n) = {}
        BY <2>1, <2>2, <2>3 DEF TurnAgrees, RecordAgrees
      <3> QED
        BY <2>3, <3>1
    <2>4. CASE turn[n].pc \in {"end", "ended"}
      <3>1. PICK i \in DOMAIN message :
              /\ \A j \in DOMAIN message : IsAnswer(n, j) <=> j = i
              /\ \E j \in 1..(i - 1) : IsQuestion(n, j)
              /\ message[i].content = turn[n].tokens /\ message[i].evidence = turn[n].evidence
              /\ message[i].proposalId = turn[n].proposalId
        BY <2>1, <2>4 DEF TurnAgrees, RecordAgrees
      <3>2. AnswerRow(n) = {i}
        BY <2>2, <3>1
      <3>3. Cardinality(AnswerRow(n)) = 1
        BY <3>2, FS_Singleton
      <3>4. \E j \in 1..(i - 1) : message[j].turn = n /\ message[j].role = "customer"
        BY <3>1 DEF IsQuestion
      <3>5. /\ screen.replies[n].evidence \subseteq Range(message[i].evidence)
            /\ screen.replies[n].proposal.id \in {0, message[i].proposalId}
        BY <2>1, <3>1 DEF TextAgrees, OfferAgrees
      <3> QED
        BY <2>1, <3>1, <3>2, <3>3, <3>4, <3>5
    <2> QED
      BY <2>3, <2>4
  <1>2. IInv => RecordHoldsWhatWasShown
    BY <1>1 DEF RecordHoldsWhatWasShown
  <1> QED
    BY <1>2, Invariance, PTL

(* An order is shown as cancelled or kept only when its proposal was settled so, and a
   colleague is promised only when there is a ticket. *)
THEOREM TheServerDecides == Spec => []ServerDecides
  <1>1. ASSUME IInv, NEW n \in DOMAIN screen.replies
        PROVE  LET reply == screen.replies[n]
               IN  /\ SaysCancelled(reply) => proposal[reply.proposal.id].status = "executed"
                   /\ SaysKept(reply) => proposal[reply.proposal.id].status = "rejected_by_customer"
    <2>1. OfferAgrees(n) /\ screen.replies[n].proposal.id \in {0, n}
      BY <1>1, Shown
    <2> QED
      BY <2>1 DEF OfferAgrees, SaysCancelled, SaysKept
  <1>2. ASSUME IInv, SaysColleagueComing(screen)
        PROVE  ticket
    BY <1>2 DEF IInv, TicketAgrees, SaysColleagueComing, PromisesColleague
  <1>3. IInv => ServerDecides
    BY <1>1, <1>2 DEF ServerDecides
  <1> QED
    BY <1>3, Invariance, PTL

(* The shape check leaves nothing but the cancellation of a concrete order. *)
LEMMA ShapeIs ==
  ASSUME NEW raw, ShapeProblems(raw) = {}, ListIsFinite(raw)
  PROVE  /\ raw.target.number \notin Placeholder
         /\ raw.actionType = "order.cancel" /\ raw.target.kind = "order"
         /\ raw.fields \subseteq TopLevel /\ raw.fields \intersect AuthorisationFields = {}
         /\ raw.target.fields \subseteq {"kind", "orderNumber"}
         /\ raw.evidenceShape = "list" =>
              /\ Cardinality(raw.evidence) <= MaxEvidence
              /\ \A item \in raw.evidence : item.fields \subseteq {"kind", "ref"}
  <1>2. raw.shape = "object"
    BY DEF ShapeProblems
  <1>3. /\ If(raw.fields \intersect AuthorisationFields # {}, "asserted_authorisation") = {}
        /\ If(~(raw.fields \subseteq TopLevel \union AuthorisationFields), "unexpected_field") = {}
        /\ If(raw.actionType # "order.cancel", "unknown_action_type") = {}
        /\ TargetProblems(raw.target) = {}
        /\ EvidenceProblems(raw) = {}
    BY <1>2 DEF ShapeProblems
  <1>4. /\ raw.fields \intersect AuthorisationFields = {} /\ raw.actionType = "order.cancel"
        /\ raw.fields \subseteq TopLevel
    BY <1>3 DEF If
  <1>5. /\ raw.target.kind = "order" /\ raw.target.fields \subseteq {"kind", "orderNumber"}
        /\ raw.target.number \notin Placeholder
    <2> DEFINE target == raw.target
    <2>1. TargetProblems(target) = {}
      BY <1>3
    <2> HIDE DEF target
    <2>2. target.shape = "object"
      BY <2>1 DEF TargetProblems
    <2>3. /\ If(~(target.fields \subseteq {"kind", "orderNumber"}), "unexpected_target_field") = {}
          /\ If(target.kind # "order", "wrong_target_kind") = {}
          /\ target.numberShape = "string"
          /\ If(target.number \in Placeholder, "order_number_placeholder") = {}
      BY <2>1, <2>2 DEF TargetProblems
    <2>4. /\ target.kind = "order" /\ target.fields \subseteq {"kind", "orderNumber"}
          /\ target.number \notin Placeholder
      BY <2>3 DEF If
    <2> QED
      BY <2>4 DEF target
  <1>6. ASSUME raw.evidenceShape = "list"
        PROVE  /\ Cardinality(raw.evidence) <= MaxEvidence
               /\ \A item \in raw.evidence : item.fields \subseteq {"kind", "ref"}
    <2>1. EvidenceProblems(raw) = If(Cardinality(raw.evidence) > MaxEvidence, "too_much_evidence")
                                    \union UNION {EvidenceItemProblems(item) : item \in raw.evidence}
      BY <1>6 DEF EvidenceProblems
    <2>2. ~(Cardinality(raw.evidence) > MaxEvidence)
      BY <1>3, <2>1 DEF If
    <2>3. Cardinality(raw.evidence) \in Nat
      BY <1>2, <1>6, FS_CardinalityType DEF ListIsFinite
    <2>4. Cardinality(raw.evidence) <= MaxEvidence
      BY <2>2, <2>3 DEF MaxEvidence
    <2>5. \A item \in raw.evidence : EvidenceItemProblems(item) = {}
      BY <1>3, <2>1
    <2>6. ASSUME NEW item \in raw.evidence
          PROVE  item.fields \subseteq {"kind", "ref"}
      <3>1. EvidenceItemProblems(item) = {}
        BY <2>5
      <3>2. If(~(item.fields \subseteq {"kind", "ref"}), "unexpected_evidence_field") = {}
        BY <3>1 DEF EvidenceItemProblems
      <3> QED
        BY <3>2 DEF If
    <2> QED
      BY <2>4, <2>6
  <1> QED
    BY <1>4, <1>5, <1>6

(* Whatever a service sends, only the cancellation of a concrete order of the customer's
   own is offered, and the dialog names the order the row is about. *)
THEOREM OnlyWithinTheBoundary == Spec => []OfferedWithinBoundary
  <1>1. ASSUME IInv, NEW n \in DOMAIN screen.replies, screen.replies[n].proposal.id # 0
        PROVE  LET offer == screen.replies[n].proposal
                   raw == proposal[offer.id].raw
               IN  /\ offer.number = raw.target.number
                   /\ raw.target.number \in OwnOrders \ Placeholder
                   /\ raw.actionType = "order.cancel" /\ raw.target.kind = "order"
                   /\ raw.fields \subseteq TopLevel /\ raw.fields \intersect AuthorisationFields = {}
                   /\ raw.target.fields \subseteq {"kind", "orderNumber"}
                   /\ raw.evidenceShape = "list" =>
                        /\ Cardinality(raw.evidence) <= MaxEvidence
                        /\ \A item \in raw.evidence : item.fields \subseteq {"kind", "ref"}
    <2>1. /\ OfferAgrees(n) /\ screen.replies[n].proposal.id = n /\ proposal[n] \in ProposalState
      BY <1>1, Shown
    <2>2. /\ ShapeProblems(proposal[n].raw) = {} /\ proposal[n].raw \in Raw
          /\ screen.replies[n].proposal.number = proposal[n].raw.target.number
          /\ proposal[n].raw.target.number \in OwnOrders
      BY <1>1, <2>1 DEF OfferAgrees, WithinBoundary, ProposalState
    <2>3. ListIsFinite(proposal[n].raw)
      BY <2>2, RawIsFinite
    <2> DEFINE raw == proposal[n].raw
    <2>4. /\ raw.target.number \notin Placeholder
          /\ raw.actionType = "order.cancel" /\ raw.target.kind = "order"
          /\ raw.fields \subseteq TopLevel /\ raw.fields \intersect AuthorisationFields = {}
          /\ raw.target.fields \subseteq {"kind", "orderNumber"}
          /\ raw.evidenceShape = "list" =>
               /\ Cardinality(raw.evidence) <= MaxEvidence
               /\ \A item \in raw.evidence : item.fields \subseteq {"kind", "ref"}
      BY <2>2, <2>3, ShapeIs
    <2> HIDE DEF raw
    <2> QED
      BY <2>1, <2>2, <2>4 DEF raw
  <1>2. IInv => OfferedWithinBoundary
    BY <1>1 DEF OfferedWithinBoundary
  <1> QED
    BY <1>2, Invariance, PTL

(* What the page holds for settled is settled on the server, or its order changed. *)
THEOREM SettledIsSettled == Spec => []SettledUnlessOrderChanged
  <1>1. ASSUME IInv, NEW n \in DOMAIN screen.replies, screen.replies[n].proposal.status = "decided"
        PROVE  LET id == screen.replies[n].proposal.id
               IN  proposal[id].status # "pending" \/ id \in conflicts
    <2>1. OfferAgrees(n)
      BY <1>1, Shown
    <2>2. screen.replies[n].proposal # NoOffer
      BY <1>1 DEF NoOffer
    <2> QED
      BY <1>1, <2>1, <2>2 DEF OfferAgrees, Settled
  <1>2. IInv => SettledUnlessOrderChanged
    BY <1>1 DEF SettledUnlessOrderChanged
  <1> QED
    BY <1>2, Invariance, PTL

(* A reply is shown as stopped only where Stop was pressed during its turn, or where its
   turn was asked when the reply before had ended and the stream of that reply, still
   open, was aborted for it. No broken connection, refused request or failed turn ever
   shows a reply as stopped. *)
THEOREM OnlyTheCustomerStops == Spec => []StoppedByCustomer
  <1>1. IInv => StoppedByCustomer
    BY DEF IInv
  <1> QED
    BY <1>1, Invariance, PTL

----------------------------------------------------------------------------
(* What a step may not do *)

Stays(n) ==
  screen.replies[n].state # "streaming" =>
    /\ screen'.replies[n].text = screen.replies[n].text
    /\ screen'.replies[n].evidence = screen.replies[n].evidence
    /\ screen'.replies[n].state = screen.replies[n].state

LEMMA EndsStay ==
  ASSUME OneStreams(screen), NEW state,
         screen.streaming => Ends(screen, state, screen'),
         ~screen.streaming => screen' = screen
  PROVE  \A n \in DOMAIN screen.replies : Stays(n)
  <1>1. ASSUME screen.streaming, NEW n \in DOMAIN screen.replies,
               screen.replies[n].state # "streaming"
        PROVE  screen'.replies[n] = screen.replies[n]
    BY <1>1 DEF OneStreams, Ends
  <1> QED
    BY <1>1 DEF Stays

LEMMA StepStays ==
  ASSUME IInv, Next
  PROVE  \A n \in DOMAIN screen.replies : Stays(n)
  <1>1. screen \in ScreenState /\ OneStreams(screen)
    BY DEF IInv, TypeOK, ClientTypeOK, TurnsInOrder
  <1>2. CASE screen'.replies = screen.replies
    BY <1>2 DEF Stays
  <1>3. ASSUME NEW n \in Turn, TurnStep(n) \/ ConnectionBreaks(n) \/ Review(n) \/ Expire(n)
        PROVE  screen' = screen
    BY <1>3 DEF TurnStep, ClientRest, clientVars, ConnectionBreaks, Review, Expire
  <1>4. ASSUME NEW n \in Turn, ReadFrame(n)
        PROVE  \A m \in DOMAIN screen.replies : Stays(m)
    <2>0. PICK frame : frame = Head(wire[n])
      OBVIOUS
    <2>1. frame \in Relayed /\ screen' = OnFrame(screen, frame)
      <3>1. page.current = n /\ wire[n] # <<>>
        BY <1>4 DEF ReadFrame
      <3> QED
        BY <1>4, <2>0, <3>1, Reading DEF ReadFrame
    <2>2. CASE ~screen.streaming
      <3>1. screen' = screen
        BY <1>1, <2>1, <2>2, Ignored
      <3> QED
        BY <1>2, <3>1
    <2>3. CASE screen.streaming
      <3>1. Reads(screen, frame, screen')
        BY <1>1, <2>1, <2>3, FrameRead
      <3>2. ASSUME NEW m \in DOMAIN screen.replies, screen.replies[m].state # "streaming"
            PROVE  screen'.replies[m] = screen.replies[m]
        <4>1. m # Len(screen.replies)
          BY <1>1, <2>3, <3>2, StreamingIs
        <4> QED
          BY <3>1, <4>1 DEF Reads
      <3> QED
        BY <3>2 DEF Stays
    <2> QED
      BY <2>2, <2>3
  <1>5. /\ screen.streaming =>
             /\ Ends(screen, "complete", OnDone(screen, FALSE))
             /\ Ends(screen, "failed", OnFailed(screen))
             /\ Ends(screen, "cancelled", OnCancelled(screen))
        /\ ~screen.streaming =>
             OnDone(screen, FALSE) = screen /\ OnFailed(screen) = screen /\ OnCancelled(screen) = screen
    BY <1>1, StreamEnds, Ignored
  <1>6. ASSUME screen' \in {OnDone(screen, FALSE), OnFailed(screen), OnCancelled(screen)}
        PROVE  \A m \in DOMAIN screen.replies : Stays(m)
    BY <1>1, <1>5, <1>6, EndsStay
  <1>7. ASSUME NEW n \in Turn, ReadEnd(n)
        PROVE  screen' \in {OnDone(screen, FALSE), OnFailed(screen)}
    BY <1>7 DEF ReadEnd
  <1>8. ASSUME Stop
        PROVE  screen' = OnCancelled(screen)
    BY <1>8 DEF Stop
  <1>9. ASSUME Send \/ ConversationCreated
        PROVE  \A m \in DOMAIN screen.replies : Stays(m)
    <2>1. ~screen.streaming /\ screen' = AbortCurrent(OnSend(screen))
      <3>1. CASE Send
        BY <3>1 DEF Send, CanSubmit, StartTurn
      <3>2. CASE ConversationCreated
        BY <3>2 DEF ConversationCreated, StartTurn, IInv, TurnsInOrder, OneStreams
      <3> QED
        BY <1>9, <3>1, <3>2
    <2>2. Started(screen, "streaming", screen') \/ Started(screen, "cancelled", screen')
      BY <1>1, <2>1, SentIs DEF AbortCurrent
    <2>3. \A j \in 1..Len(screen.replies) : screen'.replies[j] = screen.replies[j]
      BY <2>2 DEF Started
    <2>4. DOMAIN screen.replies = 1..Len(screen.replies)
      BY <1>1, StreamingIs
    <2> QED
      BY <2>3, <2>4 DEF Stays
  <1>10. ASSUME NEW r \in Request, Answered(r)
         PROVE  \A m \in DOMAIN screen.replies : Stays(m)
    <2>0. PICK q : q = request[r]
      OBVIOUS
    <2>1. ShowsAnswer(screen, q.id, q.verb, q.kind, q.escalated, screen')
      BY <1>10, <2>0, AnsweredShows
    <2> QED
      BY <2>1 DEF ShowsAnswer, AnswersReply, Stays
  <1>11. ASSUME \/ StartConversation \/ ConversationNotCreated \/ Dismiss
                \/ \E r \in Request : DecideOnServer(r) \/ DecisionFails(r)
                \/ \E r \in Request : \E verb \in {"confirm", "reject"} : Decide(r, verb)
         PROVE  screen' = screen
    BY <1>11 DEF StartConversation, ConversationNotCreated, Dismiss, DecideOnServer, DecisionFails,
       Decide, clientVars
  <1>12. ASSUME AskForPerson \/ EscalationAnswered
         PROVE  screen'.replies = screen.replies
    BY <1>1, <1>12 DEF AskForPerson, EscalationAnswered, OnEscalationRequested, OnEscalationSucceeded,
       OnEscalationFailed, Escalated, ScreenState
  <1>13. ASSUME NEW n \in Turn,
                \/ TurnStep(n) \/ ReadFrame(n) \/ ReadEnd(n) \/ ConnectionBreaks(n)
                \/ Review(n) \/ Expire(n)
         PROVE  \A m \in DOMAIN screen.replies : Stays(m)
    BY <1>2, <1>3, <1>4, <1>6, <1>7, <1>13
  <1>14. ASSUME NEW r \in Request,
                \/ DecideOnServer(r) \/ DecisionFails(r) \/ Answered(r)
                \/ \E verb \in {"confirm", "reject"} : Decide(r, verb)
         PROVE  \A m \in DOMAIN screen.replies : Stays(m)
    BY <1>2, <1>10, <1>11, <1>14
  <1>15. CASE \/ Send \/ StartConversation \/ ConversationCreated \/ ConversationNotCreated \/ Stop
              \/ Dismiss \/ AskForPerson \/ EscalationAnswered
    BY <1>2, <1>6, <1>8, <1>9, <1>11, <1>12, <1>15
  <1> QED
    BY <1>13, <1>14, <1>15 DEF Next

(* No late frame, answer or end of a stream changes the words, the sources or the end
   of a reply that has ended. *)
THEOREM EndedRepliesStay == Spec => EndedReplyStays
  <1> DEFINE Same == \A n \in DOMAIN screen.replies :
                       LET reply == screen.replies[n]
                           later == screen'.replies[n]
                       IN  reply.state # "streaming" =>
                             /\ later.text = reply.text /\ later.evidence = reply.evidence
                             /\ later.state = reply.state
  <1>1. IInv /\ [Next]_vars => [Same]_screen
    <2>1. ASSUME IInv, Next
          PROVE  Same
      BY <2>1, StepStays DEF Stays
    <2>2. UNCHANGED vars => UNCHANGED screen
      BY DEF vars, clientVars
    <2> QED
      BY <2>1, <2>2
  <1>2. Spec => [][Same]_screen
    BY <1>1, Invariance, PTL DEF Spec
  <1> QED
    BY <1>2 DEF EndedReplyStays

=============================================================================
