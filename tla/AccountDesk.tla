------------------------------ MODULE AccountDesk ------------------------------
(* Accounts: registering, signing in and out, being recognised, deleting oneself
   (server/src/routes/auth.js, routes/account.js, account/, auth/, middleware/), next
   to the requests that write in a customer's name (routes/conversations.js), as one
   browser with several tabs sends them (client/src/context/AuthContext.jsx), and the
   shutdown of the server under them (server/src/shutdown.js). A handler's step is an
   awaited call with the code up to the next. *)
EXTENDS Naturals, FiniteSets

CONSTANTS
    Account,        \* ids of users, each with its customer profile
    Email,          \* within one organisation
    Conversation,   \* ids
    Tab,            \* tabs of one browser: they share its cookies
    Request,        \* slots for requests under way
    Seeded,         \* [Account -> the address it has from the start, or "none"]
    Cookie,         \* the account whose session the browser holds at the start
    SignedIn,       \* tabs that were loaded, or signed in, since it does
    MaxSent         \* bound: how many requests are sent

VARIABLES
    account,        \* [Account -> User and Customer rows]
    conversation,   \* [Conversation -> its row]
    message,        \* Message rows
    req,            \* [Request -> the locals of its handler, then its answer]
    server,         \* up, closing, forced, closed, down
    cookie,         \* the session in the browser's cookie jar; 0 for none
    page,           \* [Tab -> who is signed in, and the conversation shown]
    sent

dbVars == <<account, conversation, message>>
vars == <<dbVars, req, server, cookie, page, sent>>

ASSUME AccountAssumption ==
    /\ Account \subseteq Nat \ {0} /\ Conversation \subseteq Nat \ {0}
    /\ Seeded \in [Account -> Email \union {"none"}]
ASSUME CookieAssumption == Cookie \in Account /\ Seeded[Cookie] # "none" /\ SignedIn \subseteq Tab
ASSUME RequestAssumption == Request \subseteq Nat /\ MaxSent \in Nat

NoAccount == [user |-> "none", profile |-> "none", email |-> "none"]
NoConversation == [owner |-> 0, stored |-> FALSE, late |-> FALSE]
SignedOut == [user |-> 0, conversation |-> 0]
NoSnapshot == [conversations |-> {}, messages |-> {}]

Idle ==
    [pc |-> "idle", kind |-> "none", tab |-> 0, session |-> 0, email |-> "none",
     conversation |-> 0, who |-> 0, seen |-> NoSnapshot, answer |-> "none", conn |-> "none"]

Init ==
    /\ account = [a \in Account |->
                    IF Seeded[a] = "none" THEN NoAccount
                    ELSE [user |-> "active", profile |-> "named", email |-> Seeded[a]]]
    /\ conversation = [c \in Conversation |-> NoConversation]
    /\ message = {}
    /\ req = [r \in Request |-> Idle]
    /\ server = "up"
    /\ cookie = Cookie
    /\ page = [t \in Tab |-> IF t \in SignedIn THEN [SignedOut EXCEPT !.user = Cookie] ELSE SignedOut]
    /\ sent = 0

----------------------------------------------------------------------------
(* The browser sends *)

(* A form waits for its answer. A reply that streams, and the question who is signed
   in, do not stop the customer from going on. *)
Busy(t) ==
    \E r \in Request : req[r].tab = t /\ req[r].conn = "open" /\ req[r].kind \notin {"turn", "me"}

Protected == {"me", "converse", "turn", "delete"}

Send(r, request) ==
    /\ req[r].pc = "idle" /\ \A q \in Request : q < r => req[q].pc # "idle"
    /\ sent < MaxSent /\ sent' = sent + 1
    /\ server = "up"
    /\ req' = [req EXCEPT ![r] = [request EXCEPT !.session = cookie, !.conn = "open",
                                    !.pc = IF request.kind \in Protected THEN "authenticate" ELSE request.kind]]
    /\ UNCHANGED <<dbVars, server, cookie>>

(* The client has no page to register on: another program does, with cookies of its
   own. *)
SignUp(r, email) ==
    /\ Send(r, [Idle EXCEPT !.kind = "register", !.email = email])
    /\ UNCHANGED page

SignIn(r, t, email) ==
    /\ page[t].user = 0 /\ ~Busy(t)
    /\ Send(r, [Idle EXCEPT !.kind = "login", !.tab = t, !.email = email])
    /\ UNCHANGED page

SignOut(r, t) ==
    /\ page[t].user # 0 /\ ~Busy(t)
    /\ Send(r, [Idle EXCEPT !.kind = "logout", !.tab = t])
    /\ UNCHANGED page

(* Loading the app asks who is signed in; until then nobody is. *)
Load(r, t) ==
    /\ ~Busy(t)
    /\ Send(r, [Idle EXCEPT !.kind = "me", !.tab = t])
    /\ page' = [page EXCEPT ![t] = SignedOut]

SendMessage(r, t) ==
    /\ page[t].user # 0 /\ ~Busy(t)
    /\ Send(r, [Idle EXCEPT !.kind = IF page[t].conversation = 0 THEN "converse" ELSE "turn",
                            !.tab = t, !.conversation = page[t].conversation])
    /\ UNCHANGED page

(* The page of the account is another page: the conversation is left. *)
DeleteAccount(r, t) ==
    /\ page[t].user # 0 /\ ~Busy(t)
    /\ Send(r, [Idle EXCEPT !.kind = "delete", !.tab = t])
    /\ page' = [page EXCEPT ![t].conversation = 0]

----------------------------------------------------------------------------
(* Handlers *)

Running == server \in {"up", "closing", "forced"}

At(r, pc) == Running /\ req[r].pc = pc

Goto(r, pc) == req' = [req EXCEPT ![r].pc = pc]

(* An answer: who is signed in by it, if anyone. *)
AnswerWith(r, answer, who) ==
    req' = [req EXCEPT ![r].pc = "answered", ![r].answer = answer, ![r].who = who,
                       ![r].seen = NoSnapshot]

HandlerRest == <<server, cookie, page, sent>>

Holding(email) == {a \in Account : account[a].user = "active" /\ account[a].email = email}

Register(r) ==
    /\ At(r, "register")
    /\ IF Holding(req[r].email) # {} THEN AnswerWith(r, "refused", 0) ELSE Goto(r, "createUser")
    /\ UNCHANGED <<dbVars, HandlerRest>>

(* One transaction; the unique index on the address lets one of two in. *)
CreateUser(r) ==
    /\ At(r, "createUser")
    /\ IF Holding(req[r].email) # {}
       THEN AnswerWith(r, "fault", 0) /\ UNCHANGED account
       ELSE \E a \in Account :
              /\ account[a] = NoAccount
              /\ account' = [account EXCEPT ![a] = [user |-> "active", profile |-> "named",
                                                    email |-> req[r].email]]
              /\ AnswerWith(r, "ok", a)
    /\ UNCHANGED <<conversation, message, HandlerRest>>

(* The user is read, then the password is compared: it is the right one or not. *)
FindForLogin(r) ==
    /\ At(r, "login")
    /\ \/ \E a \in Holding(req[r].email) : req' = [req EXCEPT ![r].pc = "issue", ![r].who = a]
       \/ AnswerWith(r, "refused", 0)
    /\ UNCHANGED <<dbVars, HandlerRest>>

IssueSession(r) ==
    /\ At(r, "issue")
    /\ AnswerWith(r, "ok", req[r].who)
    /\ UNCHANGED <<dbVars, HandlerRest>>

Logout(r) ==
    /\ At(r, "logout")
    /\ AnswerWith(r, "ok", 0)
    /\ UNCHANGED <<dbVars, HandlerRest>>

FirstStep(kind) ==
    CASE kind = "converse" -> "createConversation"
      [] kind = "turn"     -> "findConversation"
      [] kind = "delete"   -> "verify"

(* A signed token is not enough: the user has to be there still. *)
Authenticate(r) ==
    /\ At(r, "authenticate")
    /\ LET s == req[r].session
       IN  IF s = 0 \/ account[s].user # "active" THEN AnswerWith(r, "unauthorised", 0)
           ELSE IF req[r].kind = "me" THEN AnswerWith(r, "ok", s)
           ELSE req' = [req EXCEPT ![r].who = s, ![r].pc = FirstStep(req[r].kind)]
    /\ UNCHANGED <<dbVars, HandlerRest>>

(* Rows written while the account is being deleted, or after. *)
Late(a) == account[a].user = "deleted" \/ \E r \in Request : req[r].pc = "commit" /\ req[r].who = a

CreateConversation(r) ==
    /\ At(r, "createConversation")
    /\ \E c \in Conversation :
         /\ conversation[c] = NoConversation
         /\ conversation' = [conversation EXCEPT ![c] = [owner |-> req[r].who, stored |-> TRUE,
                                                             late |-> Late(req[r].who)]]
         /\ req' = [req EXCEPT ![r].pc = "answered", ![r].answer = "ok", ![r].conversation = c]
    /\ UNCHANGED <<account, message, HandlerRest>>

\* A mutation: any conversation that is there may be written to.
AnyStored(r) == conversation[req[r].conversation].stored

MayWrite(r) ==
    /\ conversation[req[r].conversation].stored
    /\ conversation[req[r].conversation].owner = req[r].who

FindConversation(r) ==
    /\ At(r, "findConversation")
    /\ IF MayWrite(r) THEN Goto(r, "question") ELSE AnswerWith(r, "refused", 0)
    /\ UNCHANGED <<dbVars, HandlerRest>>

MessageOf(r, role) ==
    [conversation |-> req[r].conversation, role |-> role, by |-> req[r].who, late |-> Late(req[r].who)]

SaveQuestion(r) ==
    /\ At(r, "question")
    /\ message' = message \union {MessageOf(r, "customer")}
    /\ Goto(r, "reply")
    /\ UNCHANGED <<account, conversation, HandlerRest>>

SaveReply(r) ==
    /\ At(r, "reply")
    /\ message' = message \union {MessageOf(r, "assistant")}
    /\ AnswerWith(r, "ok", req[r].who)
    /\ UNCHANGED <<account, conversation, HandlerRest>>

(* The password is asked for again. *)
VerifyPassword(r) ==
    /\ At(r, "verify")
    /\ \/ account[req[r].who].user = "active" /\ Goto(r, "snapshot")
       \/ account[req[r].who].user = "active" /\ AnswerWith(r, "wrongPassword", 0)
       \/ account[req[r].who].user # "active" /\ AnswerWith(r, "notFound", 0)
    /\ UNCHANGED <<dbVars, HandlerRest>>

(* The transaction reads the customer's conversations, and with them what it will see
   of their messages, *)
Snapshot(r) ==
    /\ At(r, "snapshot")
    /\ LET own == {c \in Conversation : conversation[c].stored /\ conversation[c].owner = req[r].who}
       IN  req' = [req EXCEPT ![r].pc = "commit",
                     ![r].seen = [conversations |-> own,
                                  messages |-> {m \in message : m.conversation \in own}]]
    /\ UNCHANGED <<dbVars, HandlerRest>>

\* A mutation: the conversations go and their messages are forgotten about.
KeepMessages(r) ==
    /\ conversation' = [c \in Conversation |->
                          IF c \in req[r].seen.conversations
                          THEN [conversation[c] EXCEPT !.stored = FALSE] ELSE conversation[c]]
    /\ account' = [account EXCEPT ![req[r].who].user = "deleted", ![req[r].who].profile = "scrubbed"]
    /\ UNCHANGED message

Forget(r) ==
    /\ message' = message \ req[r].seen.messages
    /\ conversation' = [c \in Conversation |->
                          IF c \in req[r].seen.conversations
                          THEN [conversation[c] EXCEPT !.stored = FALSE] ELSE conversation[c]]
    /\ account' = [account EXCEPT ![req[r].who].user = "deleted", ![req[r].who].profile = "scrubbed"]

(* and commits all of it, unless another request deleted the user first. *)
CommitDeletion(r) ==
    /\ At(r, "commit")
    /\ IF account[req[r].who].user = "active"
       THEN Forget(r) /\ AnswerWith(r, "ok", 0)
       ELSE AnswerWith(r, "notFound", 0) /\ UNCHANGED dbVars
    /\ UNCHANGED HandlerRest

(* A call to the database fails; a transaction that fails leaves nothing. *)
HandlerFails(r) ==
    /\ Running
    /\ req[r].pc \notin {"idle", "answered", "logout"}
    /\ AnswerWith(r, "fault", 0)
    /\ UNCHANGED <<dbVars, HandlerRest>>

----------------------------------------------------------------------------
(* The browser is answered *)

SetCookie(r) ==
    CASE req[r].kind = "login" /\ req[r].answer = "ok"               -> req[r].who
      [] req[r].kind \in {"logout", "delete"} /\ req[r].answer = "ok" -> 0
      [] OTHER                                                        -> cookie

(* Signing out forgets the user even when it failed. *)
PageAfter(r, p) ==
    CASE req[r].kind \in {"login", "me"} /\ req[r].answer = "ok" -> [SignedOut EXCEPT !.user = req[r].who]
      [] req[r].kind = "me" /\ req[r].answer # "ok"                -> SignedOut
      [] req[r].kind = "logout"                                     -> SignedOut
      [] req[r].kind = "delete" /\ req[r].answer = "ok"             -> SignedOut
      [] req[r].kind = "converse" /\ req[r].answer = "ok" /\ p.user # 0 -> [p EXCEPT !.conversation = req[r].conversation]
      [] OTHER                                                      -> p

Receive(r) ==
    /\ req[r].pc = "answered"
    /\ IF req[r].conn = "open" /\ req[r].kind # "register"
       THEN /\ cookie' = SetCookie(r)
            /\ page' = [page EXCEPT ![req[r].tab] = PageAfter(r, @)]
       ELSE UNCHANGED <<cookie, page>>
    /\ req' = [req EXCEPT ![r] = Idle]
    /\ UNCHANGED <<dbVars, server, sent>>

----------------------------------------------------------------------------
(* Shutdown *)

Open(r) == req[r].conn = "open"

(* SIGTERM: nothing new is accepted. *)
Shutdown ==
    /\ server = "up"
    /\ server' = "closing"
    /\ UNCHANGED <<dbVars, req, cookie, page, sent>>

\* A mutation: the end of the grace period is only logged.
LogOnly ==
    /\ server = "closing"
    /\ server' = "forced"
    /\ UNCHANGED <<dbVars, req, cookie, page, sent>>

(* The grace period is over: what is still open is closed, while its handlers go on. *)
CloseAllConnections ==
    /\ server = "closing"
    /\ server' = "forced"
    /\ req' = [r \in Request |-> IF Open(r) THEN [req[r] EXCEPT !.conn = "closed"] ELSE req[r]]
    /\ page' = [t \in Tab |->
                  IF \E r \in Request : Open(r) /\ req[r].tab = t /\ req[r].kind \in {"logout", "me"}
                  THEN SignedOut ELSE page[t]]
    /\ UNCHANGED <<dbVars, cookie, sent>>

(* No connection is open any more: the database is disconnected, *)
Disconnect ==
    /\ server \in {"closing", "forced"}
    /\ \A r \in Request : ~Open(r)
    /\ server' = "closed"
    /\ UNCHANGED <<dbVars, req, cookie, page, sent>>

(* and the process exits, with whatever handler still ran. *)
Exit ==
    /\ server = "closed"
    /\ server' = "down"
    /\ req' = [r \in Request |-> Idle]
    /\ UNCHANGED <<dbVars, cookie, page, sent>>

----------------------------------------------------------------------------

HandlerStep(r) ==
    \/ Register(r) \/ CreateUser(r)
    \/ FindForLogin(r) \/ IssueSession(r) \/ Logout(r)
    \/ Authenticate(r)
    \/ CreateConversation(r)
    \/ FindConversation(r) \/ SaveQuestion(r) \/ SaveReply(r)
    \/ VerifyPassword(r) \/ Snapshot(r) \/ CommitDeletion(r)
    \/ HandlerFails(r)

TabStep(r, t) ==
    \/ \E email \in Email : SignIn(r, t, email)
    \/ SignOut(r, t) \/ Load(r, t) \/ SendMessage(r, t) \/ DeleteAccount(r, t)

Next ==
    \/ \E r \in Request : HandlerStep(r) \/ Receive(r) \/ \E t \in Tab : TabStep(r, t)
                           \/ \E email \in Email : SignUp(r, email)
    \/ Shutdown \/ CloseAllConnections \/ Disconnect \/ Exit

(* The grace timer fires, and what the shutdown awaits comes back; no handler has to
   come to an end. *)
Fairness == WF_vars(CloseAllConnections) /\ WF_vars(Disconnect) /\ WF_vars(Exit)

Spec == Init /\ [][Next]_vars /\ Fairness

----------------------------------------------------------------------------
(* Properties *)

(* What is left of a deleted account are an unnamed profile and what a request that
   was already under way wrote while it was being deleted or after: all that was there
   before is gone (accountDeletion.js:10-19, mongoAccountRepo.js:40-78). *)
DeletedIsForgotten ==
    \A a \in Account :
      account[a].user = "deleted" =>
        /\ account[a].profile = "scrubbed"
        /\ \A c \in Conversation : conversation[c].owner = a /\ conversation[c].stored => conversation[c].late
        /\ \A m \in message : conversation[m.conversation].owner = a => m.late

(* Whatever tabs, sessions and accounts come and go in the browser, a message is
   written into a conversation in the name of its own customer only: a tab that still
   shows the conversation of the account before writes nothing into it
   (conversations.js:105-122, authenticate.js:33-65). *)
OwnConversationOnly ==
    \A m \in message : m.by # 0 /\ conversation[m.conversation].owner = m.by

(* A shutdown ends, even if a handler never does (shutdown.js:44-63). *)
ShutdownEnds == server = "closing" ~> server = "down"
=============================================================================
