# AI Support Desk: a verification

The repository is a support desk in which a language model *proposes* an action
and deterministic code decides whether it may happen. Its central claim is that
nothing the model says cancels an order: a proposal is recorded, ruled on,
confirmed by the customer, ruled on again, and executed at most once, and
everything that happened is on record. What it does not decide it hands to a
person, through a ticket. Around that, tenants write rules that may only make it
stricter, a page shows a conversation it must not misreport, and a customer may
ask to be forgotten. This directory states those claims, and what they rest on, as
TLA+ modules that TLC checks on small instances and whose safety TLAPS proves, for
most of them, for instances of any size.

Run a model with `tlc -workers 2 -config DeskRaces.cfg MCActionDesk`, check the
proofs with `tlapm` on each `*_proofs.tla`. Runs, mutants, findings, hazards and
the map from definitions to source lines are in `PROJECT.json`.

## 1. Inventory

| Component | State it keeps | Operations | Talks to |
| --- | --- | --- | --- |
| Action service (`server/src/policy/actionService.js`, `mongoActionRepo.js`, `routes/proposals.js`) | proposals, decisions, outcomes (all write-once), the order's status and `__v` | propose, confirm, reject | engine, tickets, MongoDB |
| Policy engine (`policy/engine.js`, `vocabulary.js`, `baselineRules.js`) | none | evaluate | called by the action service |
| Policy administration (`policy/policyAdmin.js`, `mongoPolicyRepo.js`) | versions of rules, one active per key | create, update, list | read by the engine's callers |
| Expiry sweep (`policy/expirySweep.js`, `mongoSweepRepo.js`, `server/scripts/sweep.js`) | the batch it has listed | sweep | races confirmations on the outcome key |
| Tickets (`tickets/*.js`, `domain/ticketState.js`) | tickets, ticket events, the conversation's pointer | applyEscalation, escalate, transition | written in the action service's transactions |
| AI service (`ai-service/app`) | none | one advisory turn | its frames are relayed or intercepted |
| Proposal boundary (`policy/proposal.js`, `proposalFrames.js`) | none | check a shape, resolve an order, build a frame | between the relay and the action service |
| Conversation turn (`routes/conversations.js`, `services/sse.js`, `aiClient.js`) | messages, the open stream | one streaming turn | AI service, action service, browser |
| Browser (`client/src/lib/conversationReducer.js`, `useEventStream.js`, `routes/ConversationPage.jsx`) | turns, dialog, stream | send, stop, confirm, reject, escalate | routes |
| Sessions (`auth/*.js`, `middleware/authenticate.js`, `client/src/context/AuthContext.jsx`) | users, one cookie for several tabs | register, sign in, sign out, load | every route |
| Account deletion (`account/*.js`, `routes/account.js`) | everything personal | deleteOwnAccount | deletes what turns write |
| Shutdown (`shutdown.js`) | open connections | shutdown | ends turns |
| Audit query (`policy/auditQuery.js`, `mongoAuditRepo.js`) | none; reads attempts that are being written | list | reads what the action service records |
| Agent console (`client/src/routes/console`) | the queue's filter, its pages, requests on their way | choose a filter, load more, move a ticket | tickets |
| Tenant scope, CSRF, rate limits, health | read-only or per-request | | |

What is hard in this code:

- **Interleaving.** Every `await` in a handler is a point where any other
  request, the sweep, an agent, an admin or the shipping system may write. The
  code's answer is a unique key per proposal, a conditional write per order and
  a transaction per pair of rows that must agree.
- **Failure.** A call may fail before it writes or after its write committed
  ("the ambiguous commit"), the process may stop between two calls, and the
  handler that records a failure may fail itself.
- **Retries.** The driver reruns transactions after write conflicts, the
  repository retries a lost ticket race once, customers press the button twice.
- **Stale facts.** The decision is made on an order and rules that may have
  changed when the write happens.
- **Promises.** The customer is told that a colleague is coming, or that the
  order is cancelled, by sentences that must be backed by rows.
- **Streams.** A reply arrives frame by frame, on a connection either side may
  close, from a service whose output is not trusted, into a page that has gone on.
- **Loops over data.** The engine walks through rules in an order, replacing a
  winner; what it decides must not depend on that order.

`PROJECT.json` lists these as hazards, each at its line.

## 2. Modules

| Module | What it is | Code |
| --- | --- | --- |
| `ActionRepo` | the collections of the action path, the unique keys and the writes | `mongoActionRepo.js`, `escalation.js`, `mongoTicketRepo.applyEscalation`, `db/models` |
| `ActionService` | a process per HTTP request, one action per awaited call | `actionService.js`, `routes/proposals.js` |
| `ExpirySweep` | a process per scheduled run | `expirySweep.js`, `mongoSweepRepo.js` |
| `ActionDesk` | both, with the other writers of what they read, and the properties | |
| `ProposalLifecycle` | the abstract specification: a proposal's legal moves | ADR 0002, 0003, 0009 as the code implements them |
| `ActionDeskInv` | the inductive invariant | |
| `TicketState` | the ticket's state machine and what an escalation plans, as operators | `ticketState.js`, `escalation.js` |
| `TicketDesk` | agents and escalations on the tickets, read and write of each transaction apart, and the properties | `mongoTicketRepo.js`, `ticketService.js`, their routes |
| `TicketHistory` | the abstract specification: a legal history for every ticket, one at a time for a conversation | ADR 0006, 0010 as the code implements them |
| `TicketDeskInv` | the inductive invariant of the ticket desk | |
| `PolicyEngine` | what the rules say of an order: conditions, matching, precedence, failing closed, clamping, and the platform's rules, as operators without a loop | `engine.js`, `vocabulary.js`, `baselineRules.js` |
| `PolicyAdmin` | a process per admin's request, one action per awaited call | `policyAdmin.js`, `mongoPolicyRepo.js` |
| `PolicyDesk` | both, with decisions made meanwhile, and the properties | `actionService.js` `decide` |
| `PolicyLoop` | the evaluation again as the loops it is written as, and that it is the same | `engine.js` `evaluate` |
| `ProposalBoundary` | the shape checks with their codes, the scoped lookup and the frames of each result | `proposal.js`, `proposalFrames.js`, `intent.py` |
| `AdvisoryTurn` | what a turn of the AI service plans and streams | `ai-service/app/service.py`, `main.py` |
| `TurnRelay` | a process per streaming turn, one action per awaited call or frame | `conversations.js`, `sse.js`, `aiClient.js` |
| `Screen` | the reducer, and what the page says of its state | `conversationReducer.js`, `ConversationPage.jsx` |
| `ConversationDesk` | the browser's stream and dialog with `TurnRelay` and `Screen`, and the properties | `ConversationPage.jsx`, `useEventStream.js` |
| `ConversationDeskInv` | the inductive invariant of the conversation desk | |
| `AccountDesk` | sessions, conversations, deletion and shutdown, and the properties | `auth/`, `account/`, `authenticate.js`, `AuthContext.jsx`, `shutdown.js` |
| `AuditQuery` | what may be asked of the audit, what an attempt is, which attempts answer | `auditQuery.js`, `mongoAuditRepo.js` |
| `StaffLists` | the audit or the queue, read page by page while it changes, and the properties | the same, `ticketService.list`, `mongoTicketRepo.listTickets`, `QueuePage.jsx` |
| `StaffListsInv` | the inductive invariant of the lists | |
| `MCActionDesk`, `MCTicketDesk`, `MCPolicyDesk`, `MCConversationDesk`, `MCAccountDesk`, `MCStaffLists` | values for TLC | |
| `ActionService_proofs`, `ActionDesk_proofs` | the proofs about the action path | |
| `TicketDesk_proofs` | the proofs about the ticket desk | |
| `ConversationDesk_proofs` | the proofs about the conversation desk | |
| `StaffLists_proofs` | the proofs about the lists | |
| `PolicyDesk_proofs`, `AccountDesk_proofs` | the invariants of these two and the proofs about them | |
| `PolicyLoop_proofs` | the proof that the loop computes the reference, and what the action path may take for granted of it | |

`ActionDesk` and `TicketDesk` meet in `applyEscalation`. `ActionDesk` keeps of a ticket
only whether it is active, since that is all the action path's transaction
depends on; `TicketDesk` keeps all of it and sees the action path as one of its
`Escalator`s, a caller of `applyEscalation` whose other rows it does not show.
`PolicyDesk` has the rules that `ActionDesk` replaces at any time by another
function: `EngineRulings` and `ClosedOrdersStayClosed` of `PolicyLoop_proofs` are why
that function may be assumed to give three rulings and never to rule a cancelled order
confirmable. `ConversationDesk` meets the action path where a turn
proposes and where a decision is answered: `Propose` and `DecideOnServer` are one
step each and allow every result that `ActionDesk` can come to. `AccountDesk` keeps
of a turn only that it writes a question and later a reply.

### How state corresponds

`ActionRepo`'s variables are the collections: `order` (status and `__v`),
`proposal` (`ActionProposal`), `decision` and `rechecks` (`PolicyDecision` rows
of stage `proposal` and `execution`), `outcome` (`ActionOutcome`, with the
ruling of the decision that settled it), `escalations` (how many `TicketEvent`
rows name the proposal), `activeTicket` (whether the conversation has one) and
`rules` (what the active rules answer about an order of each status).
`ActionService` adds `req`, the local variables of each handler: where it is
(`pc` is the call it is about to make), what it has read, and in the end what it
answered. `ExpirySweep` adds `sweep` and `aged`, the proposals older than the
sweep's cutoff.

### How actions correspond

One action is one awaited repository call with the synchronous code up to the
next one. Three places merge or split calls, and why that is sound:

- `LoadPending` reads a proposal, its outcome and its decision in one step.
  Proposals and decisions are written once and never changed, and the handler
  uses the outcome it read, so reading all three at the moment of the outcome
  lookup is one of the real interleavings, and every other one looks the same to
  the handler. The same holds for the lookup `recordOutcome` makes after a
  duplicate key.
- `ExecuteCancellation` is a whole transaction. Inside a MongoDB transaction all
  reads are from one snapshot, a write to a document changed since is a conflict
  and `withTransaction` runs the callback again from a new snapshot, so a
  transaction that commits is indistinguishable from one atomic step. A
  duplicate key instead of a conflict is an error like any other: `CallFails`.
- The escalating transaction of `recordOutcome` and `recordProposal` is split in
  two, `BeginWrite` (what its snapshot shows of the ticket) and `CommitWrite`,
  because there the outcome depends on it: a ticket created since is a duplicate
  key and takes the repository's own retry (`LoseWrite`, `FindExisting`), one
  that changed is a conflict the driver reruns (`RerunWrite`).

A failing call is `CallFails`: whatever the call had committed stays. A
`CallFails` at `answer` with an executed row is the ambiguous commit. `Crash`
ends a handler without an answer. Both are bounded by `MaxFaults`.

In `TicketDesk` a transaction is two steps, because what matters is what happens
between them. `PlanTransition` and `PlanEscalation` are the read of the snapshot
and the pure plan made of it; `UpdateTicket`, `CreateTicket` and `AppendTicket`
are the writes, all or nothing, and happen only if the ticket is still as it was
read. If it is not, either MongoDB reports a write conflict and `withTransaction`
runs the callback again (`RerunTransition`, `RerunEscalation`), or the
conditional update or the unique index reports the lost race to the code
(`LoseTransition`, a 409; `LoseEscalation`, one more attempt). A change to a
document after the snapshot was taken is a write conflict in MongoDB; a ticket
inserted since may be either. The second answer is the one the code is written
for, so the models allow both everywhere and no property rests on which it is.
`CallFails` is any other error, before the writes or after the commit (at
`answer`), and a process that dies: nobody is retried then.

| `TicketDesk` | Code |
| --- | --- |
| `ticket[t]` | a `Ticket` row: `currentStatus`, `active`, `assigneeId`, `lastEventSeq`, `conversationId` (`of`) |
| `event` | `TicketEvent` rows; `request` is the correlation id |
| `conversation[c]` | the conversation's `ticketId` |
| `client[u]` | the locals of a handler: the call it is about to make, what it asked for, the row its transaction read (`seen`), whether it has tried again, its answer |

`client[u].first`, the status a transition met first, is not in the code; it is
kept for the property that speaks of it.

In `PolicyAdmin`, `rule` are the `PolicyRule` rows, and `written` remembers each row
as it was inserted together with the edit that made it, for the properties that
relate a version to the one before. `admin[a]` are the locals of a request. An edit
reads the rule as the request arrives (`StartUpdate`), reads whether it is the
newest (`FindLatestVersion`), and writes (`InsertVersion`, the transaction that
switches off and inserts); `LoseInsert` is the unique index answering. A rule's key
and its id are numbers, places in the order `localeCompare` puts them in.

| `ConversationDesk` | Code |
| --- | --- |
| `turn[n]` | the locals of a turn's handler; `upstream` is what the AI service has still to say |
| `conn[n]`, `wire[n]` | the response, and the frames written to it that the browser has not read |
| `message` | `Message` rows in the order of creation |
| `proposal[n]` | the proposal turn `n` raised, with what it was built from |
| `screen` | the reducer's state: one reply for each send, its own words kept by the turn it belongs to |
| `page` | `ConversationPage`'s hooks: conversation, current stream, open dialog, busy proposal |
| `request[r]` | a click on confirm or keep, from the request to its answer |

`conflicts` and `stops` remember what happened for two properties. `StartTurn` is
`useEventStream`'s `start` with the abort of a stream not read to its end, whose
handlers then run against the state of that moment; `ReadFrame` and `ReadEnd` are
the read loop. `NoticeDisconnect` is the listener that marks a turn cancelled and
aborts the upstream request; Node reports the close of a request that has been read
at various moments, so it may come at any time or never, and carries no fairness.
When a reply's row cannot be saved, the error handler finds the headers already sent
and Express destroys the connection: that is the end `cut`, and not `ended`.

In `AccountDesk` a handler that writes in a customer's name and the deletion of that
customer are calls of their own; the deletion is `Snapshot` and `CommitDeletion`,
because MongoDB lets another request insert documents between the two without a
conflict. `late` marks the rows written so. The cookie jar is one for all tabs, and
`page[t]` is what a tab believes.

In `StaffLists` one list is read, which of the two is chosen at the start. `row` is
its collection, a proposal with its outcome joined on or a ticket; `page` are the hooks
of `QueuePage`, and `first` and `more` its two requests: sent, answered from one read
of the database, received. The audit has no page in the client yet; its reader opens it
once and follows the cursors. `due` and `page.mixed` are for the properties. A row has
the date its model gave it, which may be earlier than the moment it can be read. The
moves of tickets are those of `TicketState`.

`OtherWriters` are the programs that write what the action path reads: shipping
(not in this repository, so external; it may or may not use a versioned save),
the policy console, and the agent who closes a ticket.

### What is abstracted

- One tenant and one customer. Every query is scoped to both, so rows of others
  are not found: that is the order number that resolves to `NoOrder` and the
  proposal that does not exist.
- An order is its status and version. Nothing in the repository changes its
  total or currency.
- The engine is a function from statuses to rulings. It may be replaced by any
  other of `RuleSets` at any time, which covers edits of rules, orders placed
  since and the passing of time.
- A ticket is whether it is active and how many of its events name a proposal.
- A customer's text is what the service makes of it (`AdvisoryTurn`): which action it
  asks for, the order it names, what retrieval finds. `Rogue` adds frames a service
  that is not this one might send, behind `done` too: relaying ends with the body, not
  with `done`. Two history variables are for the properties and decide no step: `answer`
  of a turn, what was relayed before its first `done`, and `early`, the turns asked when
  the reply before had ended and its stream had not. Turns of staff, which stream without a proposal,
  and the history sent upstream are left out: they change no state modelled here.
- A condition's value is its shape, the texts in it and the number it is; a date is
  an hour. `Text` is whatever the strings of rules may be.
- Tokens, passwords and CSRF are right or wrong. In `AccountDesk` the first tab starts
  signed in to one of two seeded accounts. `Ticket.note`, which the deletion clears,
  is written nowhere in the code and is left out.
- In `TicketDesk`, the lookups before `escalate` (the customer's conversation, the
  refused proposal) read rows that are never changed and choose only the reason
  text, so they are left out. The queue is in `StaffLists`; the detail view is a read.
- Texts, evidence and identifiers are left out. Whether a refusal explains itself
  is kept, because escalation depends on it (`refuse-explained`, `refuse-silent`).

## 3. Properties and runs

| Run | Instance | Result |
| --- | --- | --- |
| `desk_races` | 3 requests, 2 open dialogs, 1 order, 2 rule sets, 1 fault | passes, about 700 000 states |
| `desk_lifecycle` | 2 requests, 2 proposals from nothing, 1 order, 1 sweeper, 1 fault, fairness | passes, about 160 000 states |
| `desk_late_promise` | 2 requests, 1 dialog, 3 shipping statuses | violates `PromiseKept` |
| `desk_rule_edit` | 1 request, 1 dialog, 2 rule sets | violates `CancelledUnderCurrentRules` |
| `desk_sweep_backlog` | 2 requests, 2 proposals, batch of 1, 1 fault | violates `OfferedIsSettled` |
| `ticket_races` | 2 agents, 2 escalators, 1 conversation, 2 tickets, 5 requests | passes, about 2 500 000 states |
| `ticket_service` | 1 agent, 2 escalators, 2 tickets, 4 requests, 1 fault, fairness | passes, about 360 000 states |
| `ticket_reload` | 2 agents, 1 escalator, 1 ticket, 4 requests | violates `LosersAreTold` |
| `policy_desk` | 2 admins, 3 requests, 2 seeded rules, 4 edits, 2 new rules, 1 decision, 1 fault | passes, about 200 000 states |
| `conversation_desk` | 2 turns, 2 decisions, 3 rulings, 1 frame unread, 1 event, fairness | passes, about 590 000 states |
| `account_desk` | 3 accounts, 2 addresses, 2 conversations, 2 tabs, 3 requests, fairness | passes, about 190 000 states |
| `staff_lists` | 3 rows of 2 dates, pages of 1 or 2, 3 audit queries, 2 queue filters, 3 events, fairness | passes, about 580 000 states |

`desk_races` asks what any interleaving of confirmations and rejections can do.
Three requests are the fewest with which two race and a third meets what they
left; two dialogs about one order are the fewest with which different proposals
compete for one order.

- `CancelledExactlyWhenExecuted`: a cancelled order and an executed row are one
  fact.
- `ExecutedWasAuthorisedTwice`: both decisions that allowed it are on record.
- `TicketWithItsCause`: every record that escalates has exactly one ticket event.
- `AnswersAreTrue`: what the customer is told is what the rows say.
- `PromiseKeptOutsideLateRefusals`: a promised colleague has a ticket. The one
  answer left out is the finding below.
- `CancelledOnCurrentFacts`: no order is cancelled from a status that no recorded
  re-check ruled cancellable.

`desk_lifecycle` starts from an empty desk and asks whether the whole implements
`ProposalLifecycle` (`LifecycleSpec`), and what must eventually happen:

- `EveryRequestAnswered`: a handler that runs ends, through reruns and retries.
- `OfferedIsSettled`: a dialog somebody forgot is settled by the sweep.

Fairness is weak fairness of each handler's and each sweeper's next step (the
event loop runs what is ready), and of time passing. No customer, shipper, agent
or admin is obliged to do anything, and faults are finite. The batch limit of
two lets the whole backlog fit; with a batch of one the property fails
(`desk_sweep_backlog`).

`ticket_races` asks what agents and escalations that meet can do to the tickets
of one conversation. Five requests are the fewest that open a ticket, take it,
resolve it, close it and escalate again onto a second one; two agents and two
escalators are the fewest of each that race with their own kind. Agents, callers
and tickets are interchangeable, so the run uses their symmetry.

- `CacheAgreesWithEvents`: the status the queue reads is what the events say, and
  the events are numbered without a gap or a repetition.
- `PointsAtCurrentTicket`: an escalated conversation points at one of its tickets,
  at the active one if it has one; it never has two.
- `HeldByWhoTookIt`: a ticket stays with the person who took it last, through
  every later move and every escalation that reopens it.
- `ClosedIsSettled`: neither a closed ticket nor its history ever changes.

`ticket_service` adds failing calls and asks that a success is answered for exactly
one event on the right ticket and a rejection for none, though a call that failed may
have committed (`AnsweredAsRecorded`); with weak fairness of each handler's next step,
that every request ends (`EveryCallEnds`); and that the event log tells a legal
history (`HistorySpec`). That a request's transaction is
not run again for ever holds because every rerun needs somebody else's commit and
a behaviour has `MaxRequests` of them; the code has no bound of its own but
the driver's. The ticket runs do not check deadlock: once `MaxRequests` requests
were made and answered there is nothing left to do.

`policy_desk` asks what admins who write at once can do to the rules, and the rules
to decisions. Three requests are the fewest with which two edit one version and a
third goes on from what is left. One seeded rule names a field the registry no longer
has and is in force, so the engine fails closed until somebody mends it; one body
names a field that is no rule's, one new rule cannot be saved.

- `ListedIsInForce`: for each key there is one newest version, it is the one listed
  and the only one that may be in force, and none is missing.
- `NoEditLost`: a version is the one before it, as its author saw it, with the
  changes asked for, and no version is edited twice.
- `AnsweredAsSaved`: who is told saved has one row, who is turned away has none.
- `TenantOnlyStricter`: nothing a tenant writes makes an order confirmable that the
  platform's rules do not.
- `DecisionsStayExplained`: the version a decision names still says what was decided.
- `LoopAgrees`: the loop over sorted rules, with the winner replaced as it goes, is
  `Evaluate`, in either order of loading, with old versions in force too, on facts
  that are known and on the same without the total of the order. Two orders are enough
  for TLC to tell a sort from none and the first strictest match from the last; that
  the order never matters is proved.

`conversation_desk` asks what a customer can be shown. Two turns are the fewest in
which the end of one stream meets the next reply. `MaxUnread` lets one frame wait
on the connection: which frame the browser has reached when the connection breaks is
told apart by where the relay is. `MaxEvents` is one of: stop, dismiss, ask for a
person, a turn or a connection or a call that fails, a proposal that expires. The first
turn may be answered by a service that goes on after `done`, the second by one that
forges a server's frame and asserts a decision.

- `ShownIsRelayed`: a reply shows a prefix of what its own turn relayed and, if it is
  shown as complete, all of the answer: every token up to the first `done`, or to the end
  if none was relayed. What a service sends behind `done` is relayed and recorded
  (`sse.js:134-148`) and belongs to no reply on screen.
- `RecordHoldsWhatWasShown`: every word, source and proposal on screen is in the row
  the turn leaves, cancelled or not. A turn whose handler fails leaves no answer row.
- `ServerDecides`: the page says cancelled, kept, or a colleague is coming only after
  the server made it so.
- `OfferedWithinBoundary`: whatever the service sends, a dialog is for a concrete order
  of the customer's own, and the row behind it has no field that asserts a decision or
  that a proposal may not have. It does not say that the row is built as our service
  builds one: a service that is not ours may send a list of evidence of its own, or a
  reason code, and the boundary lets both through.
- `SettledUnlessOrderChanged`: what the page holds for settled is settled, but for the
  case below.
- `StoppedByCustomer`: a reply that is shown as stopped was stopped by the customer, or
  its turn is in `early`: it was asked when the reply before had ended and the stream of
  that reply, still read, was aborted for it. A reply is never shown as stopped because
  a connection broke, a request was refused or a turn failed, and a stream that ended in
  time excuses nothing.
- `EndedReplyStays`: no late frame or answer changes a reply that has ended.
- `EveryReplyEnds`: whatever fails, the composer comes back. Fairness is that of the
  two event loops: the handler takes its next step and the browser reads what is
  there. That includes an AI service that sends its next frame or fails, which the
  code does not ensure: the read of its stream has no timeout.

`account_desk` asks what is left of a customer who is deleted while two tabs, their
turns and another deletion go on, and while the server shuts down. Three requests are
the fewest with which a conversation is created, a turn is under way in it and the
account is deleted.

- `OwnConversationOnly`: a message is written in the name of the conversation's
  customer, whichever account the cookie names by now.
- `DeletedIsForgotten`: nothing of a deleted account is left but a profile without a
  name and what requests under way wrote behind the transaction's back.
- `ShutdownEnds`: the server goes down even if a handler never ends. Fairness is that
  the grace timer fires and what the shutdown awaits comes back; no handler has any.

`staff_lists` asks what a list is worth that changes while it is read. Three rows with
pages of one are the fewest with which a page has a page before and after it and two
rows share a date. `MaxEvents` of three lets a ticket go from opened to closed, or a
request fail between two moves. One of the audit's queries is one it must refuse.

- `InOrderOnce`: a list is in its order and shows nothing twice.
- `NothingSkipped`: a list read to its end has every row that was to be listed from the
  moment its first page was read. A row with an earlier date that could only be read
  later is not one of them: neither list promises it.
- `AskedIsListed`: what is listed is what every parameter given asked for, by the label
  it is shown with.
- `ListEnds`: a reader who goes on gets to the end, or is told of a failure. Fairness is
  that something that can arrive does or the reader goes on, for all of them together.

These four runs do not check deadlock either: the bounds on requests, turns and
events end a behaviour.

Every property of a passing run has a mutant: a plausible bug in a mapped
definition under which TLC finds the property violated. A property that is proved is
checked in one run, the one that says most about it.

### Findings

1. `desk_late_promise`. A confirmation refused at execution that loses the race
   to another refusal reports `escalated` from *its own* decision, but the ticket
   exists only if the *winner's* decision escalated. With a delivery between the
   two re-checks, one is agent-only and the other an explained refusal: the
   customer is promised a colleague and there is no ticket. The comment in
   `actionService.js` lines 353-354 assumes both were decided under the same rule.
2. `desk_rule_edit`. ADR 0003 places the second evaluation inside the execution
   transaction. It is made before it, so the window for the order's facts is
   closed by the conditional write but the window for the rules is not.
3. `desk_sweep_backlog`. The sweep skips rows that were never offered without
   recording anything, so they stay the oldest of every batch; as many of them as
   the batch is long stop the sweep for that tenant.
4. `ticket_reload`. A transition is said not to be retried on a lost race, since
   the agent must see where the ticket is now. Its read and its plan are inside
   `withTransaction`, which reruns both after a write conflict: the move is
   planned again from a status the agent has not seen, and applied if it is legal
   from there.

Five more disagreements have no run of their own; the properties name them as the
exceptions they make.

- A reply is complete on screen once `done` is read, while its stream is open until the
  server has stored it. A message sent in between aborts that stream
  (`useEventStream.js:96`), and its `cancelled` names no turn: the new reply is marked
  as stopped, and its frames are ignored, though nobody pressed Stop
  (`docs/phases/phase-04-ui-ux.md:75`, "user stopped it"). These turns are `early`, the
  second disjunct of `StoppedByCustomer`, which says that no other reply is.
- The answer to "Load more" in the queue is appended to whatever is listed by then
  (`QueuePage.jsx:77-83`), and a list that cannot be loaded leaves the one before on
  screen under the new filter (`:62-64`): tickets of another filter, some twice, and a
  cursor that skips others, which is what paging by cursor is there to exclude
  (`:25-27`). Only the request for a first page is cancelled by a new filter. It is
  `page.mixed` in the properties of `staff_lists`.
- A stale answer settles the proposal on the page (`conversationReducer.js:241-257`),
  also when the order changed during the confirmation and the server left the proposal
  pending, so that "a retry will re-evaluate against the new facts"
  (`actionService.js:378-380`). The page offers no retry; the sweep ends the proposal.
  It is the second disjunct of `SettledUnlessOrderChanged`.
- The deletion removes what its snapshot shows (`mongoAccountRepo.js:40-78`). A turn
  authenticated before it still inserts the question, or later the assistant's reply,
  and a conversation may be created meanwhile: texts of a deleted customer stay, though
  `accountDeletion.js:10-11` lists "every message" as deleted. These are the `late`
  rows in `DeletedIsForgotten`.
- A rule that cannot be evaluated ends the evaluation as agent-only before matches are
  compared (`engine.js:231`). If a tenant has one in force, an order the platform
  refuses goes to an agent: a move to the left on the ladder of which
  `vocabulary.js:28-30` says that a tenant's rule never makes one. It never makes an
  order confirmable. It is the last conjunct of `TenantOnlyStricter`. Such a rule
  cannot be saved; and one that is there can only be switched off by an edit that mends
  it, since an edit is validated as a whole.

## 4. Proofs

`ActionDesk_proofs` proves, for any finite set of proposals, any sets of
requests, sweepers and orders, any rules that satisfy `RuleSetsAssumption` and
any number of faults, that `IInv` is an invariant, and from it each safety
property of the runs. Two of its theorems are about steps: that the action path
implements `ProposalLifecycle`, and `CancelledOnCurrentFacts`. The assumptions
are those of the modules: a cancelled order is never ruled confirmable (the
baseline refuses it and a tenant's rule can only be stricter, which
`ClosedOrdersStayClosed` proves of the rules themselves), `NoOrder` is not an
order, proposals are finitely many, statuses of shipping are not `cancelled`.

No property is inductive alone. `CancelledExactlyWhenExecuted` needs to know that
the handler about to execute holds a snapshot in which the order is not
cancelled, which holds because its ruling was confirm-required and no rule says
that of a cancelled order; `TicketWithItsCause` needs that a handler goes to the
writer that fits its ruling (`WriterFits`); `AnswersAreTrue` needs what the row a
handler was given has to do with the row in the collection. `IInv` states these:
`RowsAgree` for the rows of one proposal, `ProposeAgrees` and `AnswerAgrees` for
a handler at each of its calls, `OneProposer` because two requests that write the
same proposal would break all of it, and `SweepAgrees` for the sweep. TLC checks
`IInv` before it is proved.

The proof has one lemma per action and part of the invariant.
`ActionService_proofs` states what each helper does to a handler's fields,
`ActionDesk_proofs` preserves the types, then the rest of the invariant. The refinement has three kinds of step: most leave the three
collections a phase is read off alone and stutter (`StutterMaps`), five move one
proposal (`MoveMaps`), and `ExecuteCancellation` moves one and cancels its order.
Which move it is follows from `ProposeAgrees` and `AnswerAgrees`: what a handler
is there to record fits the recorded decision.

`TicketDesk_proofs` proves every safety property of the ticket runs, and that
`TicketDesk` implements `TicketHistory`, for any finite set of tickets and any
agents, escalators, conversations, requests and faults; it assumes that the ids
are told apart and that the bounds are numbers. The invariant it carries relates a
ticket's row to itself (`RowAgrees`: it is active exactly until it is closed), to
its log (`LogAgrees`), a handler's snapshot to the write it is for (`PlanAgrees`)
and a request to the events that bear its number (`RequestsAgree`,
`ReplyAgrees`). `CacheAgreesWithEvents` is not inductive, because it says which
status the highest event has and not that there is one highest event for each
number; `ClosedIsSettled` needs to know that the snapshot of a planned write is of
a ticket that is not closed. All steps are of three kinds, each with one lemma
that preserves the whole invariant: a handler goes on without writing
(`QuietStep`), a request begins (`BeginStep`), a transaction commits
(`CommitStep`); the lemma of an action shows which kind it is. For the refinement
the status is read off the events, which `DerivedStatus` says is the row's.

`PolicyDesk_proofs` proves every safety property of `policy_desk` but the one about
the loop, which has a module of its own, for any admins, bodies, rules of the tenant, facts, requests and faults. It
assumes that bodies and rows have the types of their schemas (`BodyAssumption`,
`TenantRulesAssumption`), that the tenant starts with one version of each key, and
that an order that was found has a status and lacks no field (`WorldAssumption`). It
has three parts. The engine: that the strictest outcome and the first rule are there
at all (`StrictestIsThere`, `FirstIsThere`, the second from the well-foundedness of
the naturals, by four minima one after the other), that a rule an author may save can
be evaluated (`ValidCanBeEvaluated`), and from these what added rules can do to a
decision (`AddedRulesAreStricter`). The invariant, `PolicyInv`: `RulesAgree` (ids come
with requests, versions without gaps, only the newest is in force), `HistoryAgrees`
(a version is as it was inserted until a newer one switches it off) and
`HandlersAgree` (what an editor is about to insert is the version it was shown with
its changes). `NoEditLost` is not inductive: that the unique index settles the race
needs that versions have no gaps, for then who inserts a version nobody has inserted
has edited the newest (`NoneNewer`). And the actions: those that write nothing
(`QuietStep`, `BeginStep`, `FinishStep`) and the two inserts (`InsertStep`).

`PolicyLoop_proofs` proves `LoopAgrees`, and more than a run can ask: for any rules with
ids of their own (`Keyed`), in any order (`Lists`), and any facts, `evaluate` as it is
written answers what `Evaluate` says (`LoopComputesReference`). It needs nothing of the
facts, and of the rules only that they are typed and keyed, which `PolicyInv` gives
(`RulesAreKeyed`). The argument follows the code.

- The sort. A candidate's place is the number of candidates that go before it, and one.
  Since ids break every tie (`TotalOrder`), no two have the same place and as many places
  as candidates are all taken (`Places`), so the candidates come out in the one order
  there is (`SortSorts`); that the sort is stable makes no difference.
- The loops. A loop is a recursive function on its rounds. That such a function exists is
  shown once for every loop (`LoopExists`), with rounds as a function of what the loop
  holds, for a lemma cannot be given an operator; what holds before the first round and
  is kept by every next one holds after the last (`AllRounds`, from the least number for
  which it fails).
- What the loops keep. Of the first, `WentThrough`: all rules so far could be evaluated
  and the matches among them are collected in order, or the first that could not has
  ended it. Of the second, `LeadsAfter`: the winner is the first of the strictest so far.
  A match that were as strict as the winner and replaced it, as `LastMatchWins` does,
  would break just this.
- The end. The first rule that cannot be evaluated is `First` of those (`FirstIs`); the
  winner's outcome is `Strictest` of the matches, and the winner `First` of those that
  have it (`DecidedBy`).

Two theorems state what `ActionRepo` takes for granted of a set of rules, which it keeps
as a function from a status to a ruling. `EngineRulings`: the answer is one of three
outcomes, and unless the evaluation failed closed it is what a rule says that is in force
and matches. `ClosedOrdersStayClosed`: in every state admins can bring about, an order that
was dispatched, delivered or cancelled is never offered for confirmation, also when facts
are missing, for without the status the platform's own rules cannot be evaluated. That
the rulings of `ActionRepo` are those of the engine stays an abstraction: the two modules
are not composed.

`AccountDesk_proofs` proves both safety properties of `account_desk` for any accounts,
conversations, tabs and requests. `AccountInv` says that a handler acts for somebody
and, once it may write, in that account's conversation (`Sound`), and that a deletion
about to commit has seen every row of its customer that was not written behind its
back (`SeenAll`). For the last to survive other deletions a conversation may disappear
only with its owner (`TakenByDeletion`).

`ConversationDesk_proofs` proves every safety property of `conversation_desk`, the
action property `EndedReplyStays` among them, for any turns, questions, services,
orders, rulings, decisions and bounds. It assumes that turns are numbered from 1
(`TurnAssumption`), that chunks and answers are sequences (`QuestionAssumption`), and
of a service that is not ours only that it sends sequences of frames, in any order, and
that a list of evidence has an end (`RogueAssumption`), as every list read from JSON
has. The invariant, `IInv` of
`ConversationDeskInv`, follows each frame from the service to the screen. TLC checks it
on the run's own instance before it is proved.

- `TurnsInOrder`: a turn was begun exactly if it has a reply, only the last reply may
  stream, and the stream that is read is the last turn's.
- `HandlerAgrees`, `WireAgrees`, `RecordAgrees`, of a turn: what its handler holds at each
  call, what a frame that waits to be read says of what the handler did, and which rows
  the turn has left.
- `TextAgrees`, of a reply: `ShownIsRelayed` is not inductive, because it says nothing of
  the frames in between. `CarriesOn` does: read one by one, what waits on the wire adds
  the tokens of the answer that are missing, in order, and all of them with the `done`
  frame or, if none was relayed and the connection lost nothing, in the end. What waits
  behind a `done` frame adds nothing, because the reply it would belong to has ended by
  the time it is read. It is stated with a witness, how much of the
  answer is shown after each frame, so that it needs no recursion: relaying a frame
  extends the witness (`CarriesMore`), reading one drops its first element
  (`CarriesRest`), a frame lost on a closed connection leaves it alone (`CarriesStill`).
- `OfferAgrees` and `RequestAgrees`: the row an offer or a decision is about, and how far
  it was settled when the answer was given. Rows go on to say so because a row is
  settled once (`Keeps`).
- `TicketAgrees`: a promise on the screen has a ticket.
- `StoppedByCustomer` is inductive as it stands: the only steps that mark a reply as
  stopped are Stop, which records the turn in `stops`, and sending, which records the new
  turn in `early` exactly when the stream it aborts has no reply left to end.

Steps are of two kinds, each with a lemma for what it leaves alone: those of a handler
(`ServerStepKeeps`) and those of the page and the connection (`ClientStepKeeps`,
`PageKeeps`). What the reducer does to a screen is proved once for any screen
(`FrameRead`, `StreamEnds`, `SentIs`, `AnswerIs`, and `Ignored`: without a streaming reply
nothing that the stream brings changes anything), and serves the invariant and
`EndedReplyStays` alike.

What the attempts at these proofs found wrong in the model was put right. An earlier
`OfferedWithinBoundary` said that the row is one of those our service builds, which is
false of the services `Rogue` allows and held on the run's instance only. The guards of
`ResultKind`, `TargetProblems`, `EvidenceProblems` and `Examine` overlapped, so that their
`CASE` did not say which branch is meant, although TLC took the first.

`StaffLists_proofs` proves every safety property of `staff_lists`, for any rows, dates,
queries, filters, bounds and page sizes, from two assumptions: ids are numbers, for they
are compared, and a page has at least one row (`ListBounds`, `PageLimits`). It has three
parts.

- A sorted listing exists and has every row once (`ListingIsComplete`). Nothing here needs
  induction: the place of a row is the number of rows before it, two rows never have the
  same place (`RowsAreOrdered`: ids break the ties of dates), and as many places as rows
  are all taken. The listing is chosen as the sequence that is in order; the prover has no
  definition of the `SortSeq` of the TLC module.
- An answer is a piece of the list (`AnswerIsAPiece`): in order, strictly after its cursor,
  up to its next cursor, only what was asked for, and with every matching row between the
  two cursors. The row read beyond the page decides whether there is a next cursor, and
  the cursor is the last row shown, not that one.
- `IInv` of `StaffListsInv`. The properties speak of the page only; a next page is asked for
  long before it arrives. `PageOfRequests` says that a request of this opening starts where
  the page ends and asks what the page asks; `DueIsListed`, that what is due was shown, or
  is in the answer under way, or comes after its cursor. A row keeps its place whatever
  becomes of it because nothing writes its date (`RowsKept`). `NextPieceFits` then joins
  two pieces.

Only model-checked: liveness under fairness (`EveryRequestAnswered`, `OfferedIsSettled`,
`EveryCallEnds`, `EveryReplyEnds`, `ListEnds`, `ShutdownEnds`). Every safety property and
every action property that a passing run checks is also proved.

## 5. Not modelled

- **Tenant scope, health, configuration, seeds**: they read, wrap or
  start; no state changes in a way two actors could disagree about.
- **CSRF and rate limits**: a comparison of two strings, and counters of a library.
- **Recognising a request, retrieval, prompts, generation** (`ai-service/app/pipeline`):
  functions of a text, present as what they may return.
- **A ticket's page** (`TicketPage.jsx`): the moves it offers are the actions of
  `TicketDesk`, and it reloads after each. The console has no page for rules or for the
  audit yet.
- **Evaluation and performance programs** (`server/eval`, `server/perf`): they run the
  code that is modelled.
