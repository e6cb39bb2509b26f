----------------------------- MODULE PolicyAdmin -----------------------------
(* Admins who create and edit the tenant's rules: server/src/policy/policyAdmin.js
   on mongoPolicyRepo.js. One action is one call on the repository with the code up
   to the next one; an edit reads the rule, reads the newest version of its key and
   writes the next one, and others may write in between. *)
EXTENDS PolicyEngine, FiniteSets

CONSTANTS
    Admin,
    Definition,     \* bodies of POST: what a new rule is to be
    Change,         \* bodies of PUT: which fields change, and to what
    TenantRules,    \* the tenant's rows at the start
    MaxRequests,    \* bound: how many requests are made in a behaviour
    MaxFaults       \* bound: how many of their calls fail

(* Ids of rows come with the requests that insert them, after those there already. *)
NewId(request) == 10 + request

BaselineKeys == {b.ruleKey : b \in BaselineRules}

(* A key that RULE_KEY does not match. *)
BadKey == 0

ContentFields == {"priority", "conditions", "outcome", "message"}
EditableFields == ContentFields \union {"active"}

VARIABLES
    rule,           \* PolicyRule rows
    written,        \* the rows as they were inserted, each with the edit that made it
    admin,          \* [Admin -> the locals of its request, and the last answer]
    sent,           \* requests made so far
    faults          \* failures so far

adminVars == <<rule, written, admin, sent, faults>>

NoRule ==
    [id |-> 0, scope |-> "none", ruleKey |-> BadKey, version |-> 0, active |-> FALSE,
     priority |-> 0, outcome |-> "none", message |-> "none", createdBy |-> 0,
     conditions |-> <<>>]

(* Which properties a body of PUT has, and their values. *)
ChangeBody ==
    [fields : SUBSET Text, active : BOOLEAN, priority : Int, outcome : Text, message : Text,
     conditions : Seq(Condition)]

NoChange ==
    [fields |-> {}, active |-> FALSE, priority |-> 0, outcome |-> "none",
     message |-> "none", conditions |-> <<>>]

Idle ==
    [pc |-> "idle", request |-> 0, change |-> NoChange, found |-> NoRule,
     next |-> NoRule, reply |-> "none", version |-> 0]

ASSUME PolicyBounds ==
    /\ MaxRequests \in Nat /\ MaxFaults \in Nat

(* Bodies after the types of their properties were looked at. *)
ASSUME BodyAssumption ==
    /\ \A def \in Definition :
         /\ def.ruleKey \in Nat /\ def.unexpected \in BOOLEAN /\ def.priority \in Int
         /\ def.outcome \in Text /\ def.message \in Text /\ def.conditions \in Seq(Condition)
    /\ \A change \in Change : change \in ChangeBody

(* The tenant's rows, when we start looking: one version of each key, with ids and
   keys of their own. *)
ASSUME TenantRulesAssumption ==
    /\ \A r \in TenantRules :
         /\ r \in RuleRow /\ r.scope = "tenant" /\ r.version = 1 /\ r.createdBy = 0
         /\ r.id \in 5..10
    /\ \A r, s \in TenantRules : r.id = s.id \/ r.ruleKey = s.ruleKey => r = s

AdminInit ==
    /\ rule = BaselineRules \union TenantRules
    /\ written = {[row |-> r, edited |-> 0, change |-> NoChange] : r \in rule}
    /\ admin = [a \in Admin |-> Idle]
    /\ sent = 0
    /\ faults = 0

OfKey(key) == {r \in rule : r.scope = "tenant" /\ r.ruleKey = key}

\* A mutation: no unique index.
NeverTaken(key, version) == FALSE

(* The unique index on (tenantId, ruleKey, version). *)
VersionTaken(key, version) == \E r \in OfKey(key) : r.version = version

NewestOf(rows) == CHOOSE r \in rows : \A s \in rows : s.version <= r.version

(* listPolicies: the newest version of each key, the disabled ones included. *)
ListPolicies ==
    {r \in rule : \A s \in rule : s.scope = r.scope /\ s.ruleKey = r.ruleKey => s.version <= r.version}

----------------------------------------------------------------------------
(* What an author may write *)

ConditionRejected(c) ==
    \/ c.field \notin ConditionFields
    \/ c.op \notin Operators(c.field)
    \/ c.field \in IntFields /\ c.value.shape # "number"
    \/ /\ c.field \in EnumFields
       /\ \/ c.op \in {"in", "nin"} /\ (c.value.shape # "list" \/ c.value.texts = {})
          \/ c.op \notin {"in", "nin"} /\ c.value.shape # "text"
          \/ c.field = "order.status" /\ ~(c.value.texts \subseteq OrderStatus)

(* Mutations of the definitions below. *)

\* The rule is changed where it is.
InPlace(next) ==
    {IF r.scope = "tenant" /\ r.ruleKey = next.ruleKey
     THEN [next EXCEPT !.id = r.id, !.version = r.version] ELSE r : r \in rule}
\* The version before is not switched off.
WithoutRetiring(next) == rule \union {next}
\* A mutation: versions count down.
FromZero(found) == found.version - 1
\* A lost race is answered like a success.
ConflictIsSuccess(a) == "saved"

ValidDefinition(def) ==
    /\ def.outcome \in OutcomeLadder \ {"auto-execute"}
    /\ def.priority \in 0..10000
    /\ Len(def.conditions) <= 10
    /\ \A i \in DOMAIN def.conditions : ~ConditionRejected(def.conditions[i])
    /\ def.message = "plain"

----------------------------------------------------------------------------
(* Requests *)

Become(a, state) == admin' = [admin EXCEPT ![a] = state]

(* Only the answer is left of a request that has ended. *)
Finish(a, reply, version) ==
    Become(a, [Idle EXCEPT !.request = admin[a].request, !.reply = reply, !.version = version])

Begin(a, state) ==
    /\ admin[a].pc = "idle"
    /\ sent < MaxRequests
    /\ sent' = sent + 1
    /\ Become(a, [state EXCEPT !.request = sent + 1])
    /\ UNCHANGED <<rule, written, faults>>

(* Any rule that ever was on a screen can be named, however old the screen is; rows
   are never deleted. The row is read as the request arrives. *)
StartUpdate(a, r, change) ==
    LET editable == change.fields # {} /\ change.fields \subseteq EditableFields
    IN  \/ ~editable /\ Begin(a, [Idle EXCEPT !.reply = "malformed"])
        \/ editable /\ r.scope = "baseline" /\ Begin(a, [Idle EXCEPT !.reply = "forbidden"])
        \/ /\ editable /\ r.scope = "tenant"
           /\ Begin(a, [Idle EXCEPT !.pc = "findLatest", !.found = r, !.change = change])

(* No row, or another tenant's. *)
StartUpdateOfNone(a) == Begin(a, [Idle EXCEPT !.reply = "notFound"])

IsNewest(found) == \A r \in OfKey(found.ruleKey) : r.version <= found.version

NextVersion(found) == found.version + 1

Pick(a, field) ==
    IF field \in admin[a].change.fields THEN admin[a].change[field] ELSE admin[a].found[field]

NextRow(a) ==
    [id |-> NewId(admin[a].request), scope |-> "tenant", ruleKey |-> admin[a].found.ruleKey,
     version |-> NextVersion(admin[a].found), active |-> Pick(a, "active"),
     priority |-> Pick(a, "priority"), outcome |-> Pick(a, "outcome"),
     message |-> Pick(a, "message"), createdBy |-> admin[a].request,
     conditions |-> Pick(a, "conditions")]

FindLatestVersion(a) ==
    /\ admin[a].pc = "findLatest"
    /\ \/ ~IsNewest(admin[a].found) /\ Finish(a, "stale", 0)
       \/ /\ IsNewest(admin[a].found)
          /\ IF ValidDefinition(NextRow(a))
             THEN Become(a, [admin[a] EXCEPT !.pc = "insertVersion", !.next = NextRow(a)])
             ELSE Finish(a, "malformed", 0)
    /\ UNCHANGED <<rule, written, sent, faults>>

(* The transaction: switch off what is active of the key, insert the next version. *)
Superseding(next) ==
    {IF r.scope = "tenant" /\ r.ruleKey = next.ruleKey THEN [r EXCEPT !.active = FALSE] ELSE r :
        r \in rule} \union {next}

Written(a) ==
    [row |-> admin[a].next, edited |-> admin[a].found.id, change |-> admin[a].change]

InsertVersion(a) ==
    LET next == admin[a].next
    IN  /\ admin[a].pc = "insertVersion"
        /\ ~VersionTaken(next.ruleKey, next.version)
        /\ rule' = Superseding(next)
        /\ written' = written \union {Written(a)}
        /\ Become(a, [admin[a] EXCEPT !.pc = "answer"])
        /\ UNCHANGED <<sent, faults>>

(* A body is turned away before any call: a property that is not one of a rule's, a
   key that is no key or is the platform's, a definition that is not valid. *)
StartCreate(a, def) ==
    Begin(a, IF /\ ~def.unexpected
                /\ def.ruleKey # BadKey /\ def.ruleKey \notin BaselineKeys
                /\ ValidDefinition(def)
             THEN [Idle EXCEPT !.pc = "insertRule",
                     !.next = [id |-> NewId(sent + 1), scope |-> "tenant",
                               ruleKey |-> def.ruleKey, version |-> 1, active |-> TRUE,
                               priority |-> def.priority, outcome |-> def.outcome,
                               message |-> def.message, createdBy |-> sent + 1,
                               conditions |-> def.conditions]]
             ELSE [Idle EXCEPT !.reply = "malformed"])

InsertRule(a) ==
    LET next == admin[a].next
    IN  /\ admin[a].pc = "insertRule"
        /\ ~VersionTaken(next.ruleKey, next.version)
        /\ rule' = rule \union {next}
        /\ written' = written \union {Written(a)}
        /\ Become(a, [admin[a] EXCEPT !.pc = "answer"])
        /\ UNCHANGED <<sent, faults>>

ConflictReply(a) == IF admin[a].pc = "insertRule" THEN "malformed" ELSE "stale"

(* The unique index has settled a race: the loser is told to reload, or to edit. *)
LoseInsert(a) ==
    /\ admin[a].pc \in {"insertVersion", "insertRule"}
    /\ VersionTaken(admin[a].next.ruleKey, admin[a].next.version)
    /\ Finish(a, ConflictReply(a), 0)
    /\ UNCHANGED <<rule, written, sent, faults>>

Answer(a) ==
    /\ admin[a].pc = "answer"
    /\ Finish(a, "saved", admin[a].next.version)
    /\ UNCHANGED <<rule, written, sent, faults>>

(* A call fails, before it wrote anything or after: the rows stay as they are. *)
CallFails(a) ==
    /\ admin[a].pc # "idle"
    /\ faults < MaxFaults
    /\ faults' = faults + 1
    /\ Finish(a, "fault", 0)
    /\ UNCHANGED <<rule, written, sent>>

AdminStep(a) ==
    \/ \E r \in rule, change \in Change : StartUpdate(a, r, change)
    \/ StartUpdateOfNone(a)
    \/ \E def \in Definition : StartCreate(a, def)
    \/ FindLatestVersion(a)
    \/ InsertVersion(a)
    \/ InsertRule(a)
    \/ LoseInsert(a)
    \/ Answer(a)
    \/ CallFails(a)
=============================================================================
