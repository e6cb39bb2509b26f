-------------------------- MODULE AccountDesk_proofs --------------------------
(* Whose messages are whose, and what a deletion leaves, for any accounts, tabs,
   conversations and requests. *)
EXTENDS AccountDesk, TLAPS

----------------------------------------------------------------------------
(* The inductive invariant *)

Who == Account \union {0}

AccountRow ==
    [user : {"none", "active", "deleted"}, profile : {"none", "named", "scrubbed"},
     email : Email \union {"none"}]

ConversationRow == [owner : Who, stored : BOOLEAN, late : BOOLEAN]

MessageRow ==
    [conversation : Conversation, role : {"customer", "assistant"}, by : Account, late : BOOLEAN]

(* From here a handler acts for the account it recognised. *)
Acting == {"createConversation", "findConversation", "question", "reply", "verify", "snapshot", "commit"}

Pc == Acting \union {"idle", "register", "createUser", "login", "issue", "logout", "authenticate", "answered"}

Kind == {"none", "register", "login", "logout", "me", "converse", "turn", "delete"}

Answer == {"none", "ok", "refused", "fault", "unauthorised", "wrongPassword", "notFound"}

Snapshots == [conversations : SUBSET Conversation, messages : SUBSET MessageRow]

RequestRow ==
    [pc : Pc, kind : Kind, tab : Tab \union {0}, session : Who, email : Email \union {"none"},
     conversation : Conversation \union {0}, who : Who,
     seen : Snapshots,
     answer : Answer,
     conn : {"none", "open", "closed"}]

PageRow == [user : Who, conversation : Conversation \union {0}]

Types ==
    /\ account \in [Account -> AccountRow]
    /\ conversation \in [Conversation -> ConversationRow]
    /\ message \in SUBSET MessageRow
    /\ req \in [Request -> RequestRow]
    /\ cookie \in Who
    /\ page \in [Tab -> PageRow]

(* A deletion about to commit has seen every row of its customer that was not written
   behind its back. *)
SeenAll(q, convs, msgs) ==
    /\ \A c \in Conversation :
         convs[c].owner = q.who /\ convs[c].stored /\ ~convs[c].late => c \in q.seen.conversations
    /\ \A c \in q.seen.conversations : convs[c].owner = q.who
    /\ \A m \in msgs : convs[m.conversation].owner = q.who /\ ~m.late => m \in q.seen.messages

(* A handler acts for somebody; once it may write, it is in that account's
   conversation. *)
Sound(q, convs, msgs) ==
    /\ q.pc = "authenticate" => q.kind \in Protected
    /\ q.pc \in Acting => q.who \in Account
    /\ q.kind = "turn" \/ q.pc \in {"findConversation", "question", "reply"} => q.conversation \in Conversation
    /\ q.pc \in {"question", "reply"} => convs[q.conversation].owner = q.who
    /\ q.pc = "commit" => SeenAll(q, convs, msgs)

Owned(convs, msgs) == \A m \in msgs : convs[m.conversation].owner = m.by

(* Only a deletion takes a conversation away. *)
TakenByDeletion(accs, convs) ==
    \A c \in Conversation :
      convs[c].owner # 0 /\ ~convs[c].stored => accs[convs[c].owner].user = "deleted"

Forgotten(accs, convs, msgs) ==
    \A a \in Account :
      accs[a].user = "deleted" =>
        /\ accs[a].profile = "scrubbed"
        /\ \A c \in Conversation : convs[c].owner = a /\ convs[c].stored => convs[c].late
        /\ \A m \in msgs : convs[m.conversation].owner = a => m.late

AccountInv ==
    /\ Types
    /\ \A r \in Request : Sound(req[r], conversation, message)
    /\ Owned(conversation, message)
    /\ TakenByDeletion(account, conversation)
    /\ Forgotten(account, conversation, message)

(* The row of one request, all others as they were. *)
Rewrites(r) ==
    /\ req' \in [Request -> RequestRow]
    /\ \A x \in Request : x # r => req'[x] = req[x]

----------------------------------------------------------------------------
(* Rows *)

LEMMA NobodyIsNoAccount == 0 \notin Account
BY AccountAssumption

LEMMA IdleIsRow == Idle \in RequestRow
BY DEF Idle, RequestRow, Pc, Kind, Who, Answer, NoSnapshot, Snapshots

(* A handler that has answered may be in any state of the database. *)
LEMMA Answered ==
    ASSUME Types, NEW r \in Request, NEW answer \in Answer, NEW who \in Who,
           AnswerWith(r, answer, who)
    PROVE  /\ Rewrites(r)
           /\ req'[r].pc = "answered"
           /\ req'[r].kind = req[r].kind /\ req'[r].conversation = req[r].conversation
<1>1. req[r] \in RequestRow
  BY DEF Types
<1>2. NoSnapshot \in Snapshots
  BY DEF NoSnapshot, Snapshots
<1>3. [req[r] EXCEPT !.pc = "answered", !.answer = answer, !.who = who, !.seen = NoSnapshot] \in RequestRow
  BY <1>1, <1>2 DEF RequestRow, Pc
<1>4. req' = [req EXCEPT ![r] = [req[r] EXCEPT !.pc = "answered", !.answer = answer, !.who = who,
                                                !.seen = NoSnapshot]]
  BY DEF AnswerWith
<1> QED
  BY <1>1, <1>3, <1>4 DEF Types, Rewrites, RequestRow

LEMMA Went ==
    ASSUME Types, NEW r \in Request, NEW pc \in Pc, Goto(r, pc)
    PROVE  /\ Rewrites(r)
           /\ req'[r].pc = pc /\ req'[r].who = req[r].who
           /\ req'[r].kind = req[r].kind /\ req'[r].conversation = req[r].conversation
           /\ req'[r].seen = req[r].seen
BY DEF Types, Goto, Rewrites, RequestRow

----------------------------------------------------------------------------
(* What a step has to show *)

(* A step that changes one request and leaves the database alone has to show that its
   own row is sound. *)
LEMMA OneRequest ==
    ASSUME AccountInv, NEW r \in Request, Rewrites(r),
           Sound(req'[r], conversation, message),
           UNCHANGED dbVars, cookie' \in Who, page' \in [Tab -> PageRow]
    PROVE  AccountInv'
<1>1. Types'
  BY DEF AccountInv, Types, Rewrites, dbVars
<1>2. \A x \in Request : Sound(req'[x], conversation, message)
  BY DEF AccountInv, Rewrites
<1>3. /\ (\A x \in Request : Sound(req[x], conversation, message))'
      /\ Owned(conversation, message)'
      /\ TakenByDeletion(account, conversation)'
      /\ Forgotten(account, conversation, message)'
  BY <1>2 DEF AccountInv, dbVars, Sound, SeenAll, Owned, TakenByDeletion, Forgotten
<1> QED
  BY <1>1, <1>3 DEF AccountInv

(* Answering is sound whatever the answer. *)
LEMMA AnswerKeeps ==
    ASSUME AccountInv, NEW r \in Request, NEW answer \in Answer, NEW who \in Who,
           AnswerWith(r, answer, who), UNCHANGED <<dbVars, cookie, page>>
    PROVE  AccountInv'
<1>1. /\ Rewrites(r)
      /\ req'[r].pc = "answered"
      /\ req'[r].kind = req[r].kind /\ req'[r].conversation = req[r].conversation
  BY Answered DEF AccountInv
<1>2. Sound(req[r], conversation, message)
  BY DEF AccountInv
<1>3. Sound(req'[r], conversation, message)
  BY <1>1, <1>2 DEF Sound, Acting
<1> QED
  BY <1>1, <1>3, OneRequest DEF AccountInv, Types

(* Going on is sound when the next step is none that needs more. *)
LEMMA GotoKeeps ==
    ASSUME AccountInv, NEW r \in Request, NEW pc \in Pc,
           pc \in Acting => req[r].who \in Account,
           pc \in {"findConversation", "question", "reply"} => req[r].conversation \in Conversation,
           pc \in {"question", "reply"} => conversation[req[r].conversation].owner = req[r].who,
           pc \notin {"authenticate", "commit"},
           Goto(r, pc), UNCHANGED <<dbVars, cookie, page>>
    PROVE  AccountInv'
<1>1. /\ Rewrites(r)
      /\ req'[r].pc = pc /\ req'[r].who = req[r].who
      /\ req'[r].kind = req[r].kind /\ req'[r].conversation = req[r].conversation
  BY Went DEF AccountInv
<1>2. Sound(req[r], conversation, message)
  BY DEF AccountInv
<1>3. Sound(req'[r], conversation, message)
  BY <1>1, <1>2 DEF Sound
<1> QED
  BY <1>1, <1>3, OneRequest DEF AccountInv, Types
----------------------------------------------------------------------------
(* Handlers that only answer or go on *)

LEMMA RegisterKeeps == ASSUME AccountInv, NEW r \in Request, Register(r) PROVE AccountInv'
<1>1. CASE AnswerWith(r, "refused", 0)
  BY <1>1, AnswerKeeps DEF Register, HandlerRest, Who, Answer
<1>2. CASE Goto(r, "createUser")
  BY <1>2, GotoKeeps DEF Register, HandlerRest, Acting, Pc
<1> QED
  BY <1>1, <1>2 DEF Register

LEMMA FindForLoginKeeps == ASSUME AccountInv, NEW r \in Request, FindForLogin(r) PROVE AccountInv'
<1>1. CASE AnswerWith(r, "refused", 0)
  BY <1>1, AnswerKeeps DEF FindForLogin, HandlerRest, Who, Answer
<1>2. ASSUME NEW a \in Account, req' = [req EXCEPT ![r].pc = "issue", ![r].who = a]
      PROVE  AccountInv'
  <2>1. req[r] \in RequestRow /\ Sound(req[r], conversation, message)
    BY DEF AccountInv, Types
  <2>2. [req[r] EXCEPT !.pc = "issue", !.who = a] \in RequestRow
    BY <2>1 DEF RequestRow, Pc, Who
  <2>3. /\ Rewrites(r) /\ req'[r].pc = "issue"
        /\ req'[r].kind = req[r].kind /\ req'[r].conversation = req[r].conversation
    BY <1>2, <2>1, <2>2 DEF AccountInv, Types, Rewrites, RequestRow
  <2>4. Sound(req'[r], conversation, message)
    BY <2>1, <2>3 DEF Sound, Acting
  <2> QED
    BY <2>3, <2>4, OneRequest DEF FindForLogin, HandlerRest, AccountInv, Types
<1> QED
  BY <1>1, <1>2 DEF FindForLogin, Holding

LEMMA IssueSessionKeeps == ASSUME AccountInv, NEW r \in Request, IssueSession(r) PROVE AccountInv'
<1>1. req[r].who \in Who
  BY DEF AccountInv, Types, RequestRow
<1> QED
  BY <1>1, AnswerKeeps DEF IssueSession, HandlerRest, Answer

LEMMA LogoutKeeps == ASSUME AccountInv, NEW r \in Request, Logout(r) PROVE AccountInv'
BY AnswerKeeps DEF Logout, HandlerRest, Who, Answer

LEMMA AuthenticateKeeps == ASSUME AccountInv, NEW r \in Request, Authenticate(r) PROVE AccountInv'
<1> DEFINE s == req[r].session
<1>1. req[r] \in RequestRow /\ Sound(req[r], conversation, message) /\ s \in Who
  BY DEF AccountInv, Types, RequestRow
<1>2. CASE AnswerWith(r, "unauthorised", 0)
  BY <1>2, AnswerKeeps DEF Authenticate, HandlerRest, Who, Answer
<1>3. CASE AnswerWith(r, "ok", s)
  BY <1>1, <1>3, AnswerKeeps DEF Authenticate, HandlerRest, Answer
<1>4. ASSUME s # 0, req[r].kind # "me",
             req' = [req EXCEPT ![r].who = s, ![r].pc = FirstStep(req[r].kind)]
      PROVE  AccountInv'
  <2>1. s \in Account
    BY <1>1, <1>4 DEF Who
  <2>2. FirstStep(req[r].kind) \in {"createConversation", "findConversation", "verify"}
    BY <1>1, <1>4 DEF FirstStep, Sound, Protected, Authenticate, At
  <2>3. PICK pc \in {"createConversation", "findConversation", "verify"} : pc = FirstStep(req[r].kind)
    BY <2>2
  <2>4. pc = "findConversation" => req[r].kind = "turn"
    BY <1>1, <1>4, <2>2, <2>3 DEF Sound, Protected, FirstStep, Authenticate, At
  <2>5. [req[r] EXCEPT !.who = s, !.pc = pc] \in RequestRow
    BY <1>1, <2>1 DEF RequestRow, Pc, Acting, Who
  <2>6. /\ Rewrites(r) /\ req'[r].pc = pc /\ req'[r].who = s
        /\ req'[r].kind = req[r].kind /\ req'[r].conversation = req[r].conversation
    BY <1>1, <1>4, <2>3, <2>5 DEF AccountInv, Types, Rewrites, RequestRow
  <2>7. Sound(req'[r], conversation, message)
    BY <1>1, <2>1, <2>4, <2>6 DEF Sound, Acting
  <2> QED
    BY <2>6, <2>7, OneRequest DEF Authenticate, HandlerRest, AccountInv, Types
<1> QED
  BY <1>2, <1>3, <1>4 DEF Authenticate

LEMMA FindConversationKeeps ==
    ASSUME AccountInv, NEW r \in Request, FindConversation(r)
    PROVE  AccountInv'
<1>1. Sound(req[r], conversation, message) /\ req[r].pc = "findConversation"
  BY DEF AccountInv, FindConversation, At
<1>2. CASE ~MayWrite(r)
  BY <1>2, AnswerKeeps DEF FindConversation, HandlerRest, Who, Answer
<1>3. CASE MayWrite(r)
  BY <1>1, <1>3, GotoKeeps DEF FindConversation, HandlerRest, MayWrite, Sound, Acting, Pc
<1> QED
  BY <1>2, <1>3

LEMMA VerifyPasswordKeeps ==
    ASSUME AccountInv, NEW r \in Request, VerifyPassword(r)
    PROVE  AccountInv'
<1>1. Sound(req[r], conversation, message) /\ req[r].pc = "verify"
  BY DEF AccountInv, VerifyPassword, At
<1>2. CASE Goto(r, "snapshot")
  BY <1>1, <1>2, GotoKeeps DEF VerifyPassword, HandlerRest, Sound, Acting, Pc
<1>3. CASE AnswerWith(r, "wrongPassword", 0)
  BY <1>3, AnswerKeeps DEF VerifyPassword, HandlerRest, Who, Answer
<1>4. CASE AnswerWith(r, "notFound", 0)
  BY <1>4, AnswerKeeps DEF VerifyPassword, HandlerRest, Who, Answer
<1> QED
  BY <1>2, <1>3, <1>4 DEF VerifyPassword

(* What is not stored any more was taken by a deletion, and what is left of its
   messages is late: the transaction sees all the others. *)
LEMMA SnapshotKeeps == ASSUME AccountInv, NEW r \in Request, Snapshot(r) PROVE AccountInv'
<1> DEFINE own == {c \in Conversation : conversation[c].stored /\ conversation[c].owner = req[r].who}
           seen == [conversations |-> own, messages |-> {m \in message : m.conversation \in own}]
<1>1. /\ req[r] \in RequestRow /\ Sound(req[r], conversation, message)
      /\ req[r].pc = "snapshot" /\ req[r].who \in Account
  BY DEF AccountInv, Types, Snapshot, At, Sound, Acting
<1>2. seen \in Snapshots
  BY DEF Snapshots, AccountInv, Types
<1>3. \A m \in message :
        conversation[m.conversation].owner = req[r].who /\ ~m.late => m.conversation \in own
  <2> SUFFICES ASSUME NEW m \in message, conversation[m.conversation].owner = req[r].who, ~m.late
               PROVE  m.conversation \in own
    OBVIOUS
  <2>1. m.conversation \in Conversation
    BY DEF AccountInv, Types, MessageRow
  <2>2. account[req[r].who].user # "deleted"
    BY <1>1 DEF AccountInv, Forgotten
  <2>3. conversation[m.conversation].stored
    BY <1>1, <2>1, <2>2, NobodyIsNoAccount DEF AccountInv, TakenByDeletion
  <2> QED
    BY <2>1, <2>3
<1>4. PICK snap \in Snapshots : snap = seen
  BY <1>2
<1>5. snap.conversations = own /\ snap.messages = {m \in message : m.conversation \in own}
  BY <1>4
<1>6. req' = [req EXCEPT ![r].pc = "commit", ![r].seen = snap]
  BY <1>4 DEF Snapshot
<1> HIDE DEF seen
<1>7. [req[r] EXCEPT !.pc = "commit", !.seen = snap] \in RequestRow
  BY <1>1 DEF RequestRow, Pc, Acting
<1>8. /\ Rewrites(r) /\ req'[r].pc = "commit" /\ req'[r].who = req[r].who /\ req'[r].seen = snap
      /\ req'[r].kind = req[r].kind /\ req'[r].conversation = req[r].conversation
  BY <1>1, <1>6, <1>7 DEF AccountInv, Types, Rewrites, RequestRow
<1>9. SeenAll(req'[r], conversation, message)
  BY <1>3, <1>5, <1>8 DEF SeenAll
<1>10. Sound(req'[r], conversation, message)
  BY <1>1, <1>8, <1>9 DEF Sound
<1> QED
  BY <1>8, <1>10, OneRequest DEF Snapshot, HandlerRest, AccountInv, Types

LEMMA HandlerFailsKeeps == ASSUME AccountInv, NEW r \in Request, HandlerFails(r) PROVE AccountInv'
BY AnswerKeeps DEF HandlerFails, HandlerRest, Who, Answer
----------------------------------------------------------------------------
(* Handlers that write *)

LEMMA CreateUserKeeps == ASSUME AccountInv, NEW r \in Request, CreateUser(r) PROVE AccountInv'
<1>1. CASE AnswerWith(r, "fault", 0) /\ UNCHANGED account
  BY <1>1, AnswerKeeps DEF CreateUser, HandlerRest, Who, Answer, dbVars
<1>2. ASSUME NEW a \in Account, account[a] = NoAccount, AnswerWith(r, "ok", a),
             account' = [account EXCEPT ![a] = [user |-> "active", profile |-> "named",
                                                email |-> req[r].email]]
      PROVE  AccountInv'
  <2>1. /\ Rewrites(r) /\ req'[r].pc = "answered"
        /\ req'[r].kind = req[r].kind /\ req'[r].conversation = req[r].conversation
    BY <1>2, Answered DEF AccountInv, Who, Answer
  <2>2. /\ req[r].email \in Email \union {"none"}
        /\ Sound(req[r], conversation, message)
    BY DEF AccountInv, Types, RequestRow
  <2>3. UNCHANGED <<conversation, message, cookie, page>>
    BY DEF CreateUser, HandlerRest
  <2>4. Types'
    BY <1>2, <2>1, <2>2, <2>3 DEF AccountInv, Types, Rewrites, AccountRow
  <2>5. \A x \in Request : Sound(req'[x], conversation', message')
    BY <2>1, <2>2, <2>3 DEF AccountInv, Rewrites, Sound, Acting
  <2>6. account[a].user = "none" /\ account'[a].user = "active"
    BY <1>2 DEF NoAccount, AccountInv, Types
  <2>7. \A b \in Account : account[b].user = "deleted" <=> account'[b].user = "deleted"
    BY <1>2, <2>6 DEF AccountInv, Types
  <2>8. \A b \in Account : account'[b].user = "deleted" => account'[b].profile = account[b].profile
    BY <1>2, <2>6 DEF AccountInv, Types
  <2>9. TakenByDeletion(account', conversation')
    <3> SUFFICES ASSUME NEW c \in Conversation, conversation[c].owner # 0, ~conversation[c].stored
                 PROVE  account'[conversation[c].owner].user = "deleted"
      BY <2>3 DEF TakenByDeletion
    <3>1. conversation[c].owner \in Account
      BY DEF AccountInv, Types, ConversationRow, Who
    <3> QED
      BY <2>7, <3>1 DEF AccountInv, TakenByDeletion
  <2>10. Forgotten(account', conversation', message')
    BY <2>3, <2>7, <2>8 DEF AccountInv, Forgotten
  <2>11. Owned(conversation', message')
    BY <2>3 DEF AccountInv, Owned
  <2> QED
    BY <2>4, <2>5, <2>9, <2>10, <2>11 DEF AccountInv
<1> QED
  BY <1>1, <1>2 DEF CreateUser

(* Nobody's row has been written into a conversation that is not there yet, and one
   that is created behind the back of a deletion is late. *)
LEMMA CreateConversationKeeps ==
    ASSUME AccountInv, NEW r \in Request, CreateConversation(r)
    PROVE  AccountInv'
<1> PICK c \in Conversation :
       /\ conversation[c] = NoConversation
       /\ conversation' = [conversation EXCEPT ![c] = [owner |-> req[r].who, stored |-> TRUE,
                                                           late |-> Late(req[r].who)]]
       /\ req' = [req EXCEPT ![r].pc = "answered", ![r].answer = "ok", ![r].conversation = c]
  BY DEF CreateConversation
<1>1. /\ req[r] \in RequestRow /\ Sound(req[r], conversation, message)
      /\ req[r].who \in Account
  BY DEF AccountInv, Types, CreateConversation, At, Sound, Acting
<1>2. PICK late \in BOOLEAN : late = Late(req[r].who)
  BY DEF Late
<1>3. PICK row \in ConversationRow :
        /\ conversation' = [conversation EXCEPT ![c] = row]
        /\ row.owner = req[r].who /\ row.stored /\ row.late = late
  <2>1. [owner |-> req[r].who, stored |-> TRUE, late |-> late] \in ConversationRow
    BY <1>1 DEF ConversationRow, Who
  <2> QED
    BY <1>2, <2>1
<1>4. /\ conversation' \in [Conversation -> ConversationRow]
      /\ conversation'[c] = row
      /\ \A d \in Conversation : d # c => conversation'[d] = conversation[d]
  BY <1>3 DEF AccountInv, Types
<1>5. conversation[c].owner = 0
  BY DEF NoConversation
<1>6. \A m \in message : m.conversation \in Conversation /\ m.conversation # c
  BY <1>5, NobodyIsNoAccount DEF AccountInv, Types, Owned, MessageRow
<1>7. \A m \in message : conversation'[m.conversation] = conversation[m.conversation]
  BY <1>4, <1>6
<1>8. [req[r] EXCEPT !.pc = "answered", !.answer = "ok", !.conversation = c] \in RequestRow
  BY <1>1 DEF RequestRow, Pc, Answer
<1>9. /\ Rewrites(r) /\ req'[r].pc = "answered" /\ req'[r].conversation = c
  BY <1>1, <1>8 DEF AccountInv, Types, Rewrites, RequestRow
<1>10. UNCHANGED <<account, message, cookie, page>>
  BY DEF CreateConversation, HandlerRest
<1>11. Types'
  BY <1>4, <1>9, <1>10 DEF AccountInv, Types, Rewrites
<1>12. \A x \in Request : Sound(req'[x], conversation', message')
  <2> SUFFICES ASSUME NEW x \in Request
               PROVE  Sound(req'[x], conversation', message')
    OBVIOUS
  <2>1. CASE x = r
    BY <1>9, <2>1 DEF Sound, Acting
  <2>2. CASE x # r
    <3>1. req'[x] = req[x] /\ req[x] \in RequestRow /\ Sound(req[x], conversation, message)
      BY <1>9, <2>2 DEF AccountInv, Types, Rewrites
    <3>2. req[x].pc \in {"question", "reply"} => req[x].conversation # c
      BY <1>5, <3>1, NobodyIsNoAccount DEF Sound, Acting
    <3>3. req[x].pc = "commit" => SeenAll(req[x], conversation', message')
      <4> SUFFICES ASSUME req[x].pc = "commit" PROVE SeenAll(req[x], conversation', message')
        OBVIOUS
      <4>1. req[x].who \in Account /\ SeenAll(req[x], conversation, message)
        BY <3>1 DEF Sound, Acting
      <4>2. req[x].who = req[r].who => late
        BY <1>2 DEF Late
      <4>3. c \notin req[x].seen.conversations
        BY <1>5, <4>1, NobodyIsNoAccount DEF SeenAll
      <4>4. req[x].seen.conversations \subseteq Conversation
        BY <3>1 DEF RequestRow, Snapshots
      <4> QED
        BY <1>3, <1>4, <1>7, <1>10, <4>1, <4>2, <4>3, <4>4 DEF SeenAll
    <3> QED
      BY <1>4, <3>1, <3>2, <3>3 DEF Sound
  <2> QED
    BY <2>1, <2>2
<1>13. Owned(conversation', message')
  BY <1>7, <1>10 DEF AccountInv, Owned
<1>14. TakenByDeletion(account', conversation')
  BY <1>3, <1>4, <1>10 DEF AccountInv, TakenByDeletion
<1>15. Forgotten(account', conversation', message')
  <2>1. account[req[r].who].user = "deleted" => late
    BY <1>2 DEF Late
  <2> QED
    BY <1>3, <1>4, <1>7, <1>10, <2>1 DEF AccountInv, Forgotten
<1> QED
  BY <1>11, <1>12, <1>13, <1>14, <1>15 DEF AccountInv

(* A message of a handler that may write is its own customer's. One that is written
   behind the back of a deletion, or after it, is late. *)
LEMMA MessageKeeps ==
    ASSUME AccountInv, NEW r \in Request, req[r].pc \in {"question", "reply"},
           NEW role \in {"customer", "assistant"}, message' = message \union {MessageOf(r, role)},
           Rewrites(r), Sound(req'[r], conversation, message'),
           UNCHANGED <<account, conversation, cookie, page>>
    PROVE  AccountInv'
<1>1. /\ req[r] \in RequestRow /\ Sound(req[r], conversation, message)
      /\ req[r].who \in Account /\ req[r].conversation \in Conversation
      /\ conversation[req[r].conversation].owner = req[r].who
  BY DEF AccountInv, Types, Sound, Acting
<1>2. PICK late \in BOOLEAN : late = Late(req[r].who)
  BY DEF Late
<1>3. PICK m \in MessageRow :
        /\ message' = message \union {m}
        /\ m.conversation = req[r].conversation /\ m.by = req[r].who /\ m.late = late
  <2>1. [conversation |-> req[r].conversation, role |-> role, by |-> req[r].who, late |-> late] \in MessageRow
    BY <1>1 DEF MessageRow
  <2> QED
    BY <1>2, <2>1 DEF MessageOf
<1>4. Types'
  BY <1>3 DEF AccountInv, Types, Rewrites
<1>5. \A x \in Request : Sound(req'[x], conversation', message')
  <2> SUFFICES ASSUME NEW x \in Request, x # r
               PROVE  Sound(req'[x], conversation', message')
    OBVIOUS
  <2>1. req'[x] = req[x] /\ Sound(req[x], conversation, message)
    BY DEF AccountInv, Rewrites
  <2>2. req[x].pc = "commit" /\ req[x].who = req[r].who => late
    BY <1>2 DEF Late
  <2>3. req[x].pc = "commit" => SeenAll(req[x], conversation', message')
    BY <1>1, <1>3, <2>1, <2>2 DEF Sound, SeenAll
  <2> QED
    BY <2>1, <2>3 DEF Sound
<1>6. Owned(conversation', message')
  BY <1>1, <1>3 DEF AccountInv, Owned
<1>7. TakenByDeletion(account', conversation')
  BY DEF AccountInv, TakenByDeletion
<1>8. Forgotten(account', conversation', message')
  <2>1. account[req[r].who].user = "deleted" => late
    BY <1>2 DEF Late
  <2> QED
    BY <1>1, <1>3, <2>1 DEF AccountInv, Forgotten
<1> QED
  BY <1>4, <1>5, <1>6, <1>7, <1>8 DEF AccountInv

LEMMA SaveQuestionKeeps == ASSUME AccountInv, NEW r \in Request, SaveQuestion(r) PROVE AccountInv'
<1>1. /\ Rewrites(r) /\ req'[r].pc = "reply" /\ req'[r].who = req[r].who
      /\ req'[r].kind = req[r].kind /\ req'[r].conversation = req[r].conversation
  BY Went DEF SaveQuestion, AccountInv, Pc, Acting
<1>2. Sound(req[r], conversation, message) /\ req[r].pc = "question"
  BY DEF AccountInv, SaveQuestion, At
<1>3. Sound(req'[r], conversation, message')
  BY <1>1, <1>2 DEF Sound, Acting
<1> QED
  BY <1>1, <1>2, <1>3, MessageKeeps DEF SaveQuestion, HandlerRest

LEMMA SaveReplyKeeps == ASSUME AccountInv, NEW r \in Request, SaveReply(r) PROVE AccountInv'
<1>1. req[r].who \in Who
  BY DEF AccountInv, Types, RequestRow
<1>2. /\ Rewrites(r) /\ req'[r].pc = "answered"
      /\ req'[r].kind = req[r].kind /\ req'[r].conversation = req[r].conversation
  BY <1>1, Answered DEF SaveReply, AccountInv, Answer
<1>3. Sound(req[r], conversation, message) /\ req[r].pc = "reply"
  BY DEF AccountInv, SaveReply, At
<1>4. Sound(req'[r], conversation, message')
  BY <1>2, <1>3 DEF Sound, Acting
<1> QED
  BY <1>2, <1>3, <1>4, MessageKeeps DEF SaveReply, HandlerRest

(* What the transaction has seen goes; what it has not is late. *)
LEMMA CommitDeletionKeeps ==
    ASSUME AccountInv, NEW r \in Request, CommitDeletion(r)
    PROVE  AccountInv'
<1> DEFINE a == req[r].who
           seen == req[r].seen
<1>1. /\ req[r] \in RequestRow /\ Sound(req[r], conversation, message) /\ req[r].pc = "commit"
      /\ a \in Account /\ SeenAll(req[r], conversation, message)
  BY DEF AccountInv, Types, CommitDeletion, At, Sound, Acting
<1>2. CASE AnswerWith(r, "notFound", 0) /\ UNCHANGED dbVars
  BY <1>2, AnswerKeeps DEF CommitDeletion, HandlerRest, Who, Answer
<1>3. CASE Forget(r) /\ AnswerWith(r, "ok", 0)
  <2>1. /\ Rewrites(r) /\ req'[r].pc = "answered"
        /\ req'[r].kind = req[r].kind /\ req'[r].conversation = req[r].conversation
    BY <1>3, Answered DEF AccountInv, Who, Answer
  <2>2. message' = message \ seen.messages
    BY <1>3 DEF Forget
  <2>3. /\ conversation' \in [Conversation -> ConversationRow]
        /\ \A c \in Conversation :
             /\ conversation'[c].owner = conversation[c].owner
             /\ conversation'[c].late = conversation[c].late
             /\ conversation'[c].stored <=> conversation[c].stored /\ c \notin seen.conversations
    <3>1. conversation' = [c \in Conversation |->
                             IF c \in seen.conversations
                             THEN [conversation[c] EXCEPT !.stored = FALSE] ELSE conversation[c]]
      BY <1>3 DEF Forget
    <3>2. \A c \in Conversation : conversation[c] \in ConversationRow
      BY DEF AccountInv, Types
    <3>3. \A c \in Conversation : [conversation[c] EXCEPT !.stored = FALSE] \in ConversationRow
      BY <3>2 DEF ConversationRow
    <3> QED
      BY <3>1, <3>2, <3>3 DEF ConversationRow
  <2>4. /\ account' \in [Account -> AccountRow]
        /\ account'[a].user = "deleted" /\ account'[a].profile = "scrubbed"
        /\ \A b \in Account : b # a => account'[b] = account[b]
    <3>1. account[a] \in AccountRow
      BY <1>1 DEF AccountInv, Types
    <3>2. account' = [account EXCEPT ![a] = [account[a] EXCEPT !.user = "deleted", !.profile = "scrubbed"]]
      BY <1>3 DEF Forget
    <3>3. [account[a] EXCEPT !.user = "deleted", !.profile = "scrubbed"] \in AccountRow
      BY <3>1 DEF AccountRow
    <3> QED
      BY <1>1, <3>1, <3>2, <3>3 DEF AccountInv, Types, AccountRow
  <2>5. UNCHANGED <<cookie, page>>
    BY DEF CommitDeletion, HandlerRest
  <2> HIDE DEF a, seen
  <2>6. Types'
    BY <2>1, <2>2, <2>3, <2>4, <2>5 DEF AccountInv, Types, Rewrites
  <2>7. \A m \in message : m.conversation \in Conversation
    BY DEF AccountInv, Types, MessageRow
  <2>8. \A x \in Request : Sound(req'[x], conversation', message')
    <3> SUFFICES ASSUME NEW x \in Request
                 PROVE  Sound(req'[x], conversation', message')
      OBVIOUS
    <3>1. CASE x = r
      BY <1>1, <2>1, <3>1 DEF Sound, Acting
    <3>2. CASE x # r
      <4>1. req'[x] = req[x] /\ req[x] \in RequestRow /\ Sound(req[x], conversation, message)
        BY <2>1, <3>2 DEF AccountInv, Types, Rewrites
      <4>2. req[x].pc = "commit" => SeenAll(req[x], conversation', message')
        <5>1. req[x].seen.conversations \subseteq Conversation
          BY <4>1 DEF RequestRow, Snapshots
        <5> QED
          BY <2>2, <2>3, <2>7, <4>1, <5>1 DEF Sound, SeenAll
      <4>3. req[x].pc \in {"question", "reply"} => req[x].conversation \in Conversation
        BY <4>1 DEF Sound
      <4> QED
        BY <2>3, <4>1, <4>2, <4>3 DEF Sound
    <3> QED
      BY <3>1, <3>2
  <2>9. Owned(conversation', message')
    BY <2>2, <2>3, <2>7 DEF AccountInv, Owned
  <2>10. TakenByDeletion(account', conversation')
    <3> SUFFICES ASSUME NEW c \in Conversation, conversation'[c].owner # 0, ~conversation'[c].stored
                 PROVE  account'[conversation'[c].owner].user = "deleted"
      BY DEF TakenByDeletion
    <3>1. conversation[c].owner \in Account /\ conversation'[c].owner = conversation[c].owner
      BY <2>3 DEF AccountInv, Types, ConversationRow, Who
    <3>2. CASE c \in seen.conversations
      <4>1. conversation[c].owner = a
        BY <1>1, <3>2 DEF SeenAll, a, seen
      <4> QED
        BY <2>4, <3>1, <4>1
    <3>3. CASE c \notin seen.conversations
      <4>1. account[conversation[c].owner].user = "deleted"
        BY <2>3, <3>1, <3>3 DEF AccountInv, TakenByDeletion
      <4> QED
        BY <2>4, <3>1, <4>1
    <3> QED
      BY <3>2, <3>3
  <2>11. Forgotten(account', conversation', message')
    <3> SUFFICES ASSUME NEW b \in Account, account'[b].user = "deleted"
                 PROVE  /\ account'[b].profile = "scrubbed"
                        /\ \A c \in Conversation :
                             conversation'[c].owner = b /\ conversation'[c].stored => conversation'[c].late
                        /\ \A m \in message' : conversation'[m.conversation].owner = b => m.late
      BY DEF Forgotten
    <3>1. CASE b = a
      <4>1. \A c \in Conversation :
              conversation'[c].owner = b /\ conversation'[c].stored => conversation'[c].late
        BY <1>1, <2>3, <3>1 DEF SeenAll, a, seen
      <4>2. \A m \in message' : conversation'[m.conversation].owner = b => m.late
        BY <1>1, <2>2, <2>3, <2>7, <3>1 DEF SeenAll, a, seen
      <4> QED
        BY <2>4, <3>1, <4>1, <4>2
    <3>2. CASE b # a
      BY <2>2, <2>3, <2>4, <2>7, <3>2 DEF AccountInv, Forgotten
    <3> QED
      BY <3>1, <3>2
  <2> QED
    BY <2>6, <2>8, <2>9, <2>10, <2>11 DEF AccountInv
<1> QED
  BY <1>2, <1>3 DEF CommitDeletion
----------------------------------------------------------------------------
(* The browser and the shutdown *)

(* What a tab sends carries what the tab knows and the cookie. *)
LEMMA SendKeeps ==
    ASSUME AccountInv, NEW r \in Request, NEW q \in RequestRow, Send(r, q),
           q.kind \in {"register", "login", "logout"} \union Protected,
           q.kind = "turn" => q.conversation \in Conversation,
           page' \in [Tab -> PageRow]
    PROVE  AccountInv'
<1>1. PICK pc \in Pc :
        /\ pc = IF q.kind \in Protected THEN "authenticate" ELSE q.kind
        /\ pc \in {"register", "login", "logout", "authenticate"}
        /\ pc = "authenticate" => q.kind \in Protected
  BY DEF Pc, Protected
<1>2. cookie \in Who
  BY DEF AccountInv, Types
<1>3. [q EXCEPT !.session = cookie, !.conn = "open", !.pc = pc] \in RequestRow
  BY <1>2 DEF RequestRow
<1>4. req' = [req EXCEPT ![r] = [q EXCEPT !.session = cookie, !.conn = "open", !.pc = pc]]
  BY <1>1 DEF Send
<1>5. /\ Rewrites(r) /\ req'[r].pc = pc
      /\ req'[r].kind = q.kind /\ req'[r].conversation = q.conversation
  BY <1>3, <1>4 DEF AccountInv, Types, Rewrites, RequestRow
<1>6. Sound(req'[r], conversation, message)
  BY <1>1, <1>5 DEF Sound, Acting
<1> QED
  BY <1>2, <1>5, <1>6, OneRequest DEF Send

LEMMA SignUpKeeps ==
    ASSUME AccountInv, NEW r \in Request, NEW email \in Email, SignUp(r, email)
    PROVE  AccountInv'
<1> DEFINE q == [Idle EXCEPT !.kind = "register", !.email = email]
<1>1. q \in RequestRow /\ q.kind = "register"
  BY IdleIsRow DEF RequestRow, Kind
<1>2. Send(r, q) /\ page' \in [Tab -> PageRow]
  BY <1>1 DEF SignUp, AccountInv, Types
<1> QED
  BY <1>1, <1>2, SendKeeps

LEMMA TabStepKeeps ==
    ASSUME AccountInv, NEW r \in Request, NEW t \in Tab, TabStep(r, t)
    PROVE  AccountInv'
<1>1. page \in [Tab -> PageRow] /\ page[t] \in PageRow
  BY DEF AccountInv, Types
<1>2. ASSUME NEW email \in Email, SignIn(r, t, email) PROVE AccountInv'
  <2> DEFINE q == [Idle EXCEPT !.kind = "login", !.tab = t, !.email = email]
  <2>1. q \in RequestRow /\ q.kind = "login"
    BY IdleIsRow DEF RequestRow, Kind
  <2>2. Send(r, q) /\ page' \in [Tab -> PageRow]
    BY <1>1, <1>2, <2>1 DEF SignIn
  <2> QED
    BY <2>1, <2>2, SendKeeps
<1>3. CASE SignOut(r, t)
  <2> DEFINE q == [Idle EXCEPT !.kind = "logout", !.tab = t]
  <2>1. q \in RequestRow /\ q.kind = "logout"
    BY IdleIsRow DEF RequestRow, Kind
  <2>2. Send(r, q) /\ page' \in [Tab -> PageRow]
    BY <1>1, <1>3, <2>1 DEF SignOut
  <2> QED
    BY <2>1, <2>2, SendKeeps
<1>4. CASE Load(r, t)
  <2> DEFINE q == [Idle EXCEPT !.kind = "me", !.tab = t]
  <2>1. q \in RequestRow /\ q.kind = "me"
    BY IdleIsRow DEF RequestRow, Kind
  <2>2. SignedOut \in PageRow
    BY DEF SignedOut, PageRow, Who
  <2>3. Send(r, q) /\ page' \in [Tab -> PageRow]
    BY <1>1, <1>4, <2>1, <2>2 DEF Load
  <2> QED
    BY <2>1, <2>3, SendKeeps DEF Protected
<1>5. CASE SendMessage(r, t)
  <2>1. page[t].conversation \in Conversation \union {0}
    BY <1>1 DEF PageRow
  <2>2. PICK kind \in {"converse", "turn"} :
          /\ kind = IF page[t].conversation = 0 THEN "converse" ELSE "turn"
          /\ kind = "turn" => page[t].conversation \in Conversation
    BY <2>1
  <2> DEFINE q == [Idle EXCEPT !.kind = kind, !.tab = t, !.conversation = page[t].conversation]
  <2>3. q \in RequestRow /\ q.kind = kind /\ q.conversation = page[t].conversation
    BY <2>1, IdleIsRow DEF RequestRow, Kind
  <2>4. Send(r, q) /\ page' \in [Tab -> PageRow]
    BY <1>1, <1>5, <2>2, <2>3 DEF SendMessage
  <2> QED
    BY <2>2, <2>3, <2>4, SendKeeps DEF Protected
<1>6. CASE DeleteAccount(r, t)
  <2> DEFINE q == [Idle EXCEPT !.kind = "delete", !.tab = t]
  <2>1. q \in RequestRow /\ q.kind = "delete"
    BY IdleIsRow DEF RequestRow, Kind
  <2>2. [page[t] EXCEPT !.conversation = 0] \in PageRow
    BY <1>1 DEF PageRow
  <2>3. Send(r, q) /\ page' \in [Tab -> PageRow]
    BY <1>1, <1>6, <2>1, <2>2 DEF DeleteAccount
  <2> QED
    BY <2>1, <2>3, SendKeeps DEF Protected
<1> QED
  BY <1>2, <1>3, <1>4, <1>5, <1>6 DEF TabStep

LEMMA ReceiveKeeps == ASSUME AccountInv, NEW r \in Request, Receive(r) PROVE AccountInv'
<1>1. /\ req[r] \in RequestRow /\ req' = [req EXCEPT ![r] = Idle] /\ UNCHANGED dbVars
      /\ cookie \in Who /\ page \in [Tab -> PageRow]
  BY DEF Receive, AccountInv, Types
<1>2. /\ Rewrites(r) /\ req'[r] = Idle
  BY <1>1, IdleIsRow DEF AccountInv, Types, Rewrites
<1>3. Sound(req'[r], conversation, message)
  BY <1>2 DEF Sound, Idle, Acting
<1>4. SetCookie(r) \in Who
  BY <1>1 DEF SetCookie, RequestRow, Who
<1>5. ASSUME NEW p \in PageRow PROVE PageAfter(r, p) \in PageRow
  <2>1. [SignedOut EXCEPT !.user = req[r].who] \in PageRow
    BY <1>1 DEF SignedOut, PageRow, Who, RequestRow
  <2>2. [p EXCEPT !.conversation = req[r].conversation] \in PageRow
    BY <1>1, <1>5 DEF PageRow, RequestRow
  <2>3. SignedOut \in PageRow
    BY DEF SignedOut, PageRow, Who
  <2> QED
    BY <1>5, <2>1, <2>2, <2>3 DEF PageAfter
<1>6. cookie' \in Who
  BY <1>1, <1>4 DEF Receive
<1>7. page' \in [Tab -> PageRow]
  BY <1>1, <1>5 DEF Receive
<1> QED
  BY <1>1, <1>2, <1>3, <1>6, <1>7, OneRequest

(* Closing the connections tells no handler anything. *)
LEMMA CloseAllConnectionsKeeps == ASSUME AccountInv, CloseAllConnections PROVE AccountInv'
<1>1. /\ req \in [Request -> RequestRow] /\ page \in [Tab -> PageRow]
      /\ UNCHANGED <<dbVars, cookie>>
  BY DEF AccountInv, Types, CloseAllConnections
<1>2. \A r \in Request : [req[r] EXCEPT !.conn = "closed"] \in RequestRow
  BY <1>1 DEF RequestRow
<1>3. /\ req' \in [Request -> RequestRow]
      /\ \A r \in Request :
           /\ req'[r].pc = req[r].pc /\ req'[r].kind = req[r].kind /\ req'[r].who = req[r].who
           /\ req'[r].conversation = req[r].conversation /\ req'[r].seen = req[r].seen
  BY <1>1, <1>2 DEF CloseAllConnections, RequestRow
<1>4. SignedOut \in PageRow
  BY DEF SignedOut, PageRow, Who
<1>5. page' \in [Tab -> PageRow]
  BY <1>1, <1>4 DEF CloseAllConnections
<1>6. Types'
  BY <1>1, <1>3, <1>5 DEF AccountInv, Types, dbVars
<1>7. \A r \in Request : Sound(req'[r], conversation', message')
  BY <1>1, <1>3 DEF AccountInv, Sound, SeenAll, dbVars
<1>8. /\ Owned(conversation', message')
      /\ TakenByDeletion(account', conversation')
      /\ Forgotten(account', conversation', message')
  BY <1>1 DEF AccountInv, dbVars, Owned, TakenByDeletion, Forgotten
<1> QED
  BY <1>6, <1>7, <1>8 DEF AccountInv

LEMMA ExitKeeps == ASSUME AccountInv, Exit PROVE AccountInv'
<1>1. \A r \in Request : req'[r] = Idle
  BY DEF Exit
<1>2. Types'
  BY IdleIsRow DEF Exit, AccountInv, Types, dbVars
<1>3. \A r \in Request : Sound(req'[r], conversation', message')
  BY <1>1 DEF Sound, Idle, Acting
<1>4. /\ Owned(conversation', message')
      /\ TakenByDeletion(account', conversation')
      /\ Forgotten(account', conversation', message')
  BY DEF Exit, AccountInv, dbVars, Owned, TakenByDeletion, Forgotten
<1> QED
  BY <1>2, <1>3, <1>4 DEF AccountInv

LEMMA StutterKeeps ==
    ASSUME AccountInv, UNCHANGED <<dbVars, req, cookie, page>>
    PROVE  AccountInv'
BY DEF AccountInv, dbVars, Types, Sound, SeenAll, Owned, TakenByDeletion, Forgotten

----------------------------------------------------------------------------
(* The theorems *)

LEMMA AccountInit == ASSUME Init PROVE AccountInv
<1>1. Cookie \in Account /\ Seeded \in [Account -> Email \union {"none"}]
  BY AccountAssumption, CookieAssumption
<1>2. account \in [Account -> AccountRow]
  <2>1. NoAccount \in AccountRow
    BY DEF NoAccount, AccountRow
  <2>2. \A a \in Account : [user |-> "active", profile |-> "named", email |-> Seeded[a]] \in AccountRow
    BY <1>1 DEF AccountRow
  <2> QED
    BY <2>1, <2>2 DEF Init
<1>3. NoConversation \in ConversationRow
  BY DEF NoConversation, ConversationRow, Who
<1>4. SignedOut \in PageRow /\ [SignedOut EXCEPT !.user = Cookie] \in PageRow
  BY <1>1 DEF SignedOut, PageRow, Who
<1>5. Types
  BY <1>1, <1>2, <1>3, <1>4, IdleIsRow DEF Init, Types, Who
<1>6. \A r \in Request : Sound(req[r], conversation, message)
  BY DEF Init, Sound, Idle, Acting
<1>7. Owned(conversation, message) /\ TakenByDeletion(account, conversation)
  BY DEF Init, Owned, TakenByDeletion, NoConversation
<1>8. \A a \in Account : account[a].user # "deleted"
  BY DEF Init, NoAccount
<1>9. Forgotten(account, conversation, message)
  BY <1>8 DEF Forgotten
<1> QED
  BY <1>5, <1>6, <1>7, <1>9 DEF AccountInv

LEMMA AccountStep == ASSUME AccountInv, [Next]_vars PROVE AccountInv'
<1>1. ASSUME NEW r \in Request, HandlerStep(r) PROVE AccountInv'
  BY <1>1, RegisterKeeps, CreateUserKeeps, FindForLoginKeeps, IssueSessionKeeps, LogoutKeeps,
     AuthenticateKeeps, CreateConversationKeeps, FindConversationKeeps, SaveQuestionKeeps,
     SaveReplyKeeps, VerifyPasswordKeeps, SnapshotKeeps, CommitDeletionKeeps, HandlerFailsKeeps
     DEF HandlerStep
<1>2. CASE Shutdown \/ Disconnect \/ UNCHANGED vars
  BY <1>2, StutterKeeps DEF Shutdown, Disconnect, vars
<1> QED
  BY <1>1, <1>2, ReceiveKeeps, TabStepKeeps, SignUpKeeps, CloseAllConnectionsKeeps, ExitKeeps DEF Next

LEMMA AccountAlways == Spec => []AccountInv
BY AccountInit, AccountStep, PTL DEF Spec

(* Whatever tabs, sessions and accounts come and go, a message stands in a conversation
   of its own customer (conversations.js:105-122). *)
THEOREM EveryMessageIsItsCustomers == Spec => []OwnConversationOnly
<1>1. AccountInv => OwnConversationOnly
  BY NobodyIsNoAccount DEF AccountInv, Owned, OwnConversationOnly, Types, MessageRow
<1> QED
  BY <1>1, AccountAlways, PTL

(* Nothing of a deleted account is left but its unnamed profile and the rows written
   behind the back of the deletion (accountDeletion.js:10-19). *)
THEOREM DeletionForgets == Spec => []DeletedIsForgotten
<1>1. AccountInv => DeletedIsForgotten
  BY DEF AccountInv, Forgotten, DeletedIsForgotten
<1> QED
  BY <1>1, AccountAlways, PTL
=============================================================================
