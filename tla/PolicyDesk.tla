----------------------------- MODULE PolicyDesk -----------------------------
(* Admins who change the rules while proposals are decided under them: the policy
   console, and what decide (actionService.js) reads and answers. *)
EXTENDS PolicyAdmin

CONSTANTS
    World,          \* what may be known of an order when it is decided
    MaxDecisions    \* bound: how many decisions are recorded

VARIABLE
    decision        \* PolicyDecision rows, each with the facts it was made on

vars == <<adminVars, decision>>

ASSUME DecisionBound == MaxDecisions \in Nat

(* An order that was found has one of the statuses, and nothing about it is missing. *)
ASSUME WorldAssumption ==
    \A world \in World :
        /\ world.status \in OrderStatus
        /\ \A field \in ConditionFields : Knows(world, field)

Init ==
    /\ AdminInit
    /\ decision = {}

(* The rules are loaded and evaluated, and what was decided is recorded. *)
Decide(world) ==
    /\ Cardinality(decision) < MaxDecisions
    /\ decision' = decision \union {[world |-> world, stored |-> Evaluate(rule, world)]}
    /\ UNCHANGED adminVars

Next ==
    \/ \E a \in Admin : AdminStep(a) /\ UNCHANGED decision
    \/ \E world \in World : Decide(world)

Spec == Init /\ [][Next]_vars

----------------------------------------------------------------------------
(* Properties *)

(* Every row is a rule, every handler is at one of its calls. *)
TypeOK ==
    /\ \A r \in rule : r \in RuleRow /\ r.createdBy <= MaxRequests
    /\ \A w \in written : w.row \in RuleRow /\ w.edited \in Nat
    /\ \A a \in Admin :
         /\ admin[a].pc \in {"idle", "findLatest", "insertVersion", "insertRule",
                             "answer"}
         /\ admin[a].reply \in {"none", "saved", "stale", "malformed", "notFound", "forbidden",
                                "fault"}
         /\ admin[a].request \in 0..sent
    /\ sent \in 0..MaxRequests
    /\ faults \in 0..MaxFaults

(* What the console lists is what the engine goes by: for every key there is one
   newest version, the versions before it are all there, and none but the newest is
   in force (mongoPolicyRepo.js: no moment with two active versions of a rule). *)
ListedIsInForce ==
    /\ \A r, s \in rule : r.scope = s.scope /\ r.ruleKey = s.ruleKey /\ r.version = s.version
                            => r = s
    /\ \A r \in rule : r.active => r \in ListPolicies
    /\ \A r \in rule : \A v \in 1..r.version :
         \E s \in rule : s.scope = r.scope /\ s.ruleKey = r.ruleKey /\ s.version = v

(* No edit is lost: a version is the version before it with the changes its author
   asked for, that version is the one the author was shown, and nobody else's edit
   was made of it too. A disabled rule stays disabled unless its author asked for
   something else (policyAdmin.js updatePolicy). *)
NoEditLost ==
    \A w \in written : w.edited # 0 =>
        /\ \A x \in written : x.edited = w.edited => x = w
        /\ \E v \in written :
             /\ v.row.id = w.edited
             /\ v.row.ruleKey = w.row.ruleKey /\ v.row.version + 1 = w.row.version
             /\ \A field \in EditableFields :
                  w.row[field] = IF field \in w.change.fields
                                 THEN w.change[field] ELSE v.row[field]

RowsBy(request) == {w \in written : w.row.createdBy = request}

(* An author told that a change was saved has one row in the history, one told
   anything else than of a failure has none: of two who edit the same version, one
   is told so (policyAdmin.js: this editor lost, and is told so). *)
AnsweredAsSaved ==
    \A a \in Admin : admin[a].pc = "idle" /\ admin[a].request > 0 =>
        /\ admin[a].reply = "saved" =>
             \E w \in RowsBy(admin[a].request) : w.row.version = admin[a].version
        /\ admin[a].reply \notin {"saved", "fault"} => RowsBy(admin[a].request) = {}
        /\ \A v, w \in RowsBy(admin[a].request) : v = w

(* A tenant's rules only ever make a decision stricter. What the baseline does not
   offer for confirmation is not offered, nothing executes by itself, and unless
   the evaluation failed closed the decision is at least as strict as the
   baseline's; it fails closed on known facts only because of a rule nobody could
   save through the console (vocabulary.js OUTCOME_LADDER, ADR 0008). *)
TenantOnlyStricter ==
    \A world \in World :
        LET d == Evaluate(rule, world)
            b == Evaluate(BaselineRules, world)
        IN  /\ d.outcome # "auto-execute"
            /\ d.outcome = "confirm-required" => b.outcome = "confirm-required"
            /\ ~d.defaulted => Restrictiveness(d.outcome) >= Restrictiveness(b.outcome)
            /\ d.defaulted /\ ~b.defaulted =>
                 \E r \in rule : r.active /\ r.createdBy = 0 /\ ~ValidDefinition(r)

(* A past decision stays explainable: the version it names is still there, still
   matches the facts it was made on and still says what was decided (FR-12.2). *)
DecisionsStayExplained ==
    \A d \in decision : ~d.stored.defaulted =>
        \E r \in rule :
            /\ r.id = d.stored.ruleId /\ r.version = d.stored.ruleVersion
            /\ MatchRule(r, d.world) = "match"
            /\ Clamp(r.outcome) = d.stored.outcome
=============================================================================
