----------------------------- MODULE PolicyLoop -----------------------------
(* engine.js evaluate as it is written: the rules in the order the database
   returned them, sorted, gone through one by one, and the winner replaced by
   every match that is stricter. LoopAgrees says that it computes PolicyEngine's
   Evaluate. *)
EXTENDS PolicyDesk

(* A mutation of Stricter. *)

\* A match as strict as the winner replaces it, so the last one is reported.
LastMatchWins(winner, r) ==
    IF Restrictiveness(r.outcome) >= Restrictiveness(winner.outcome) THEN r ELSE winner

(* Array.prototype.sort is stable: of two rules neither of which precedes the other,
   the one loaded first stays in front. *)
GoesBefore(loaded, j, i) ==
    \/ Precedes(loaded[j], loaded[i])
    \/ j < i /\ ~Precedes(loaded[i], loaded[j])

(* The candidates: at its place a rule has as many before it as go before it. *)
ByPrecedence(loaded) ==
    LET inForce == {i \in DOMAIN loaded : loaded[i].active}
        Place(i) == 1 + Cardinality({j \in inForce : GoesBefore(loaded, j, i)})
    IN  [n \in 1..Cardinality(inForce) |-> loaded[CHOOSE i \in inForce : Place(i) = n]]

(* One round of the first loop: once a rule has ended the evaluation, no later one
   is looked at. *)
Examine(soFar, r, world) ==
    LET kind == MatchRule(r, world)
    IN  IF soFar.ended # "no" THEN soFar
        ELSE CASE kind = "incomplete" -> [soFar EXCEPT !.ended = "incomplete_world_state"]
               [] kind = "invalid"    -> [soFar EXCEPT !.ended = "invalid_rule"]
               [] kind = "match"      -> [soFar EXCEPT !.matches = Append(@, r)]
               [] kind = "no-match"   -> soFar

Examined(sorted, world) ==
    LET after[n \in 0..Len(sorted)] ==
            IF n = 0 THEN [ended |-> "no", matches |-> <<>>]
            ELSE Examine(after[n - 1], sorted[n], world)
    IN  after[Len(sorted)]

Stricter(winner, r) ==
    IF Restrictiveness(r.outcome) > Restrictiveness(winner.outcome) THEN r ELSE winner

Winner(matches) ==
    LET after[n \in 0..Len(matches)] ==
            IF n = 0 THEN matches[1] ELSE Stricter(after[n - 1], matches[n])
    IN  after[Len(matches)]

EvaluateLoop(loaded, world) ==
    LET examined == Examined(ByPrecedence(loaded), world)
        winner == Winner(examined.matches)
    IN  IF examined.ended # "no" THEN FailClosed(examined.ended)
        ELSE IF examined.matches = <<>> THEN FailClosed("no_matching_rule")
        ELSE [outcome |-> Clamp(winner.outcome), ruleId |-> winner.id,
              ruleVersion |-> winner.version, defaulted |-> FALSE, reason |-> "none"]

----------------------------------------------------------------------------
(* The order the rows were inserted in, in which a collection is read unless an
   index says otherwise; and the same backwards. *)
AsInserted(rows) ==
    [i \in 1..Cardinality(rows) |->
        CHOOSE r \in rows : Cardinality({s \in rows : s.id < r.id}) = i - 1]

Backwards(loaded) == [i \in 1..Len(loaded) |-> loaded[Len(loaded) + 1 - i]]

(* Old versions too, so that only their version tells two of a key apart. *)
EveryVersionInForce == {[r EXCEPT !.active = TRUE] : r \in {v \in rule : ValidDefinition(v)}}

(* Facts that cannot be seen. *)
PartlyKnown(world) == [world EXCEPT !.known = @ \ {"order.totalMinor"}]

(* The loop computes the reference, in whatever order the database returned the
   rules, so that the decision and the rule reported as deciding depend on the rules
   alone (engine.js byPrecedence: a total order over rules). Every set of rules is met
   once nobody is at work on it and nothing was decided under it. *)
LoopAgrees ==
    decision = {} /\ faults = 0 /\ (\A a \in Admin : admin[a].pc = "idle") =>
    \A rows \in {rule, EveryVersionInForce} :
      \A loaded \in {AsInserted(rows), Backwards(AsInserted(rows))} :
        \A world \in World \union {PartlyKnown(w) : w \in World} :
            EvaluateLoop(loaded, world) = Evaluate(rows, world)
=============================================================================
