--------------------------- MODULE PolicyLoop_proofs ---------------------------
(* The loop of engine.js computes the reference, for any rules with ids of their
   own in any order. *)
EXTENDS PolicyLoop, PolicyDesk_proofs, FunctionTheorems, FiniteSetTheorems

----------------------------------------------------------------------------
(* Loops *)

(* What holds before the first round and after every next one holds after all. *)
LEMMA AllNumbers ==
    ASSUME NEW S, 0 \in S, \A n \in Nat : n \in S => n + 1 \in S
    PROVE  Nat \subseteq S
<1> SUFFICES ASSUME Nat \ S # {} PROVE FALSE
  OBVIOUS
<1>1. PICK m \in Nat \ S : \A n \in Nat \ S : m <= n
  BY Smallest
<1>2. m - 1 \in Nat /\ m - 1 \in S
  BY <1>1
<1> QED
  BY <1>1, <1>2

LEMMA AllRounds ==
    ASSUME NEW N \in Nat, NEW S, 0 \in S, \A n \in 1..N : n - 1 \in S => n \in S
    PROVE  0..N \subseteq S
<1> DEFINE T == {n \in Nat : n <= N => n \in S}
<1>1. 0 \in T
  OBVIOUS
<1>2. \A n \in Nat : n \in T => n + 1 \in T
  OBVIOUS
<1>3. Nat \subseteq T
  <2> HIDE DEF T
  <2> QED
    BY <1>1, <1>2, AllNumbers
<1> QED
  BY <1>3

(* What a loop holds before its first round and after every round. *)
Runs(f, N, v0, round) == f[0] = v0 /\ \A n \in 1..N : f[n] = round[n][f[n - 1]]

(* A loop is defined by its start and what a round does to every value it may have. *)
LEMMA LoopExists ==
    ASSUME NEW N \in Nat, NEW V, NEW v0 \in V, NEW round \in [1..N -> [V -> V]]
    PROVE  \E f \in [0..N -> V] : Runs(f, N, v0, round)
<1> DEFINE Upto(n, f) == Runs(f, n, v0, round)
           S == {n \in 0..N : \E f \in [0..N -> V] : Upto(n, f)}
<1>1. 0 \in S
  <2> DEFINE f == [k \in 0..N |-> v0]
  <2>1. f \in [0..N -> V] /\ Upto(0, f)
    BY DEF Runs
  <2> HIDE DEF f, Upto
  <2> QED
    BY <2>1
<1>2. ASSUME NEW n \in 1..N, n - 1 \in S PROVE n \in S
  <2>1. PICK f \in [0..N -> V] : Upto(n - 1, f)
    BY <1>2
  <2> DEFINE w == round[n][f[n - 1]]
             g == [f EXCEPT ![n] = w]
  <2>2. w \in V
    OBVIOUS
  <2>3. g \in [0..N -> V] /\ g[0] = v0 /\ g[n] = w
    BY <2>1, <2>2 DEF Runs
  <2>4. \A k \in 0..(n - 1) : g[k] = f[k]
    BY <2>1
  <2>5. Upto(n, g)
    <3> SUFFICES ASSUME NEW k \in 1..n PROVE g[k] = round[k][g[k - 1]]
      BY <2>3 DEF Runs
    <3> HIDE DEF g
    <3>1. CASE k = n
      BY <2>3, <2>4, <3>1
    <3>2. CASE k # n
      <4>1. k \in 1..(n - 1) /\ k \in 0..(n - 1) /\ k - 1 \in 0..(n - 1)
        BY <3>2
      <4> QED
        BY <2>1, <2>4, <4>1 DEF Runs
    <3> QED
      BY <3>1, <3>2
  <2> HIDE DEF g, Upto
  <2> QED
    BY <2>3, <2>5
<1>3. N \in S
  <2> HIDE DEF S
  <2>1. 0..N \subseteq S
    BY <1>1, <1>2, AllRounds
  <2> QED
    BY <2>1
<1> QED
  BY <1>3

----------------------------------------------------------------------------
(* Places in an order *)

(* A finite set and what comes before each of its members in a total order. *)
Ranked(I, before) ==
    /\ IsFiniteSet(I)
    /\ before \in [I -> SUBSET I]
    /\ \A i \in I : i \notin before[i]
    /\ \A i, j \in I : i # j => i \in before[j] \/ j \in before[i]
    /\ \A i, j \in I : i \in before[j] => before[i] \subseteq before[j]

Place(before, i) == 1 + Cardinality(before[i])

(* Its members have the places from the first to the last, one each. *)
LEMMA Places ==
    ASSUME NEW I, NEW before, Ranked(I, before)
    PROVE  /\ Cardinality(I) \in Nat
           /\ \A i \in I : Place(before, i) \in 1..Cardinality(I)
           /\ \A i, j \in I : i \in before[j] => Place(before, i) < Place(before, j)
           /\ \A i, j \in I : Place(before, i) = Place(before, j) => i = j
           /\ \A n \in 1..Cardinality(I) : \E i \in I : Place(before, i) = n
<1> DEFINE K == Cardinality(I)
           place == [i \in I |-> Place(before, i)]
<1>1. K \in Nat
  BY FS_CardinalityType DEF Ranked
<1>2. \A i \in I : /\ IsFiniteSet(before[i]) /\ Cardinality(before[i]) \in Nat
                   /\ Place(before, i) \in 1..K
  <2> TAKE i \in I
  <2>1. IsFiniteSet(I \ {i}) /\ Cardinality(I \ {i}) = K - 1
    BY FS_RemoveElement DEF Ranked
  <2>2. before[i] \in SUBSET (I \ {i})
    BY DEF Ranked
  <2>3. IsFiniteSet(before[i]) /\ Cardinality(before[i]) <= Cardinality(I \ {i})
    BY <2>1, <2>2, FS_Subset
  <2>4. Cardinality(before[i]) \in Nat
    BY <2>3, FS_CardinalityType
  <2> QED
    BY <1>1, <2>1, <2>3, <2>4 DEF Place
<1>3. ASSUME NEW i \in I, NEW j \in I, i \in before[j]
      PROVE  Place(before, i) < Place(before, j)
  <2>1. before[i] \in SUBSET before[j] /\ before[i] # before[j]
    BY <1>3 DEF Ranked
  <2>2. /\ Cardinality(before[i]) <= Cardinality(before[j])
        /\ Cardinality(before[i]) # Cardinality(before[j])
    BY <1>2, <2>1, FS_Subset
  <2> QED
    BY <1>2, <2>2 DEF Place
<1>4. ASSUME NEW i \in I, NEW j \in I, Place(before, i) = Place(before, j)
      PROVE  i = j
  <2>1. Place(before, i) \in Int /\ Place(before, j) \in Int
    BY <1>1, <1>2
  <2>2. i \notin before[j] /\ j \notin before[i]
    BY <1>3, <1>4, <2>1
  <2> QED
    BY <2>2 DEF Ranked
<1>5. place \in Surjection(I, 1..K)
  <2>1. place \in [I -> 1..K] /\ \A i, j \in I : place[i] = place[j] => i = j
    BY <1>2, <1>4
  <2>2. place \in Injection(I, 1..K)
    <3> HIDE DEF place, K
    <3> QED
      BY <2>1, Fun_IsInj
  <2>3. IsFiniteSet(1..K) /\ Cardinality(1..K) = K
    BY <1>1, FS_Interval
  <2> QED
    BY <2>2, <2>3, FS_Injection
<1>6. ASSUME NEW n \in 1..K PROVE \E i \in I : Place(before, i) = n
  <2>1. PICK i \in I : place[i] = n
    <3> HIDE DEF place
    <3> QED
      BY <1>5 DEF Surjection
  <2> QED
    BY <2>1
<1> QED
  BY <1>1, <1>2, <1>3, <1>4, <1>6

----------------------------------------------------------------------------
(* The sort *)

(* The unique index on _id. *)
Keyed(rows) == rows \subseteq RuleRow /\ \A r, s \in rows : r.id = s.id => r = s

(* Every row once. *)
Lists(loaded, rows) ==
    /\ loaded \in Seq(rows)
    /\ \A r \in rows : \E i \in DOMAIN loaded : loaded[i] = r
    /\ \A i, j \in DOMAIN loaded : loaded[i] = loaded[j] => i = j

Sorted(sorted, rows) ==
    /\ sorted \in Seq(rows)
    /\ \A r \in rows : \E n \in DOMAIN sorted : sorted[n] = r
    /\ \A m, n \in DOMAIN sorted : m < n => Precedes(sorted[m], sorted[n])

Candidates(rows) == {r \in rows : r.active}

(* byPrecedence is a total order over rules with ids of their own. *)
LEMMA TotalOrder ==
    ASSUME NEW rows, Keyed(rows), NEW r \in rows, NEW s \in rows
    PROVE  /\ ~Precedes(r, r)
           /\ r # s => Precedes(r, s) \/ Precedes(s, r)
           /\ Precedes(r, s) => ~Precedes(s, r)
<1>1. /\ r.priority \in Nat /\ r.ruleKey \in Nat /\ r.version \in Nat /\ r.id \in Nat
      /\ s.priority \in Nat /\ s.ruleKey \in Nat /\ s.version \in Nat /\ s.id \in Nat
  BY DEF Keyed, RuleRow
<1>2. r # s => r.id # s.id
  BY DEF Keyed
<1> QED
  BY <1>1, <1>2 DEF Precedes

LEMMA PrecedesIsTransitive ==
    ASSUME NEW r \in RuleRow, NEW s \in RuleRow, NEW t \in RuleRow,
           Precedes(r, s), Precedes(s, t)
    PROVE  Precedes(r, t)
<1>1. /\ r.priority \in Nat /\ r.ruleKey \in Nat /\ r.version \in Nat /\ r.id \in Nat
      /\ s.priority \in Nat /\ s.ruleKey \in Nat /\ s.version \in Nat /\ s.id \in Nat
      /\ t.priority \in Nat /\ t.ruleKey \in Nat /\ t.version \in Nat /\ t.id \in Nat
  BY DEF RuleRow
<1> QED
  BY <1>1 DEF Precedes

(* Whatever order they were loaded in, the candidates come out in the one order
   there is. *)
LEMMA SortSorts ==
    ASSUME NEW rows, Keyed(rows), NEW loaded, Lists(loaded, rows)
    PROVE  Sorted(ByPrecedence(loaded), Candidates(rows))
<1> DEFINE I == {i \in DOMAIN loaded : loaded[i].active}
           before == [i \in I |-> {j \in I : GoesBefore(loaded, j, i)}]
           K == Cardinality(I)
           at == [n \in 1..K |-> CHOOSE i \in I : Place(before, i) = n]
           sorted == ByPrecedence(loaded)
<1>1. IsFiniteSet(I)
  <2>1. DOMAIN loaded = 1..Len(loaded) /\ Len(loaded) \in Nat
    BY DEF Lists
  <2>2. IsFiniteSet(1..Len(loaded))
    BY <2>1, FS_Interval
  <2>3. I \in SUBSET (1..Len(loaded))
    BY <2>1
  <2> QED
    BY <2>2, <2>3, FS_Subset
<1>2. \A i \in I : i \in Nat /\ loaded[i] \in rows /\ loaded[i] \in RuleRow /\ loaded[i].active
  BY DEF Lists, Keyed
<1>3. \A i, j \in I : i # j => loaded[i] # loaded[j]
  BY DEF Lists
<1>4. \A i, j \in I : j \in before[i] <=> Precedes(loaded[j], loaded[i])
  <2> HIDE DEF I
  <2> TAKE i, j \in I
  <2>1. GoesBefore(loaded, j, i) <=> Precedes(loaded[j], loaded[i])
    <3>1. CASE i = j
      <4>1. ~Precedes(loaded[i], loaded[i]) /\ ~(i < i)
        BY <1>2, TotalOrder
      <4> QED
        BY <3>1, <4>1 DEF GoesBefore
    <3>2. CASE i # j
      BY <1>2, <1>3, <3>2, TotalOrder DEF GoesBefore
    <3> QED
      BY <3>1, <3>2
  <2> QED
    BY <2>1
<1>5. sorted = [n \in 1..K |-> loaded[at[n]]]
  <2> DEFINE chosen(n) ==
               CHOOSE i \in I : 1 + Cardinality({j \in I : GoesBefore(loaded, j, i)}) = n
  <2>1. sorted = [n \in 1..K |-> loaded[chosen(n)]]
    BY DEF ByPrecedence, I
  <2> HIDE DEF I
  <2>2. \A i \in I : Place(before, i) = 1 + Cardinality({j \in I : GoesBefore(loaded, j, i)})
    BY DEF Place
  <2>3. \A n \in 1..K : at[n] = chosen(n)
    <3> HIDE DEF before
    <3> QED
      BY <2>2
  <2> HIDE DEF at, sorted, chosen
  <2> QED
    BY <2>1, <2>3
<1>6. before \in [I -> SUBSET I]
  OBVIOUS
<1> HIDE DEF I, before, sorted
<1>7. Ranked(I, before)
  <2>1. \A i \in I : i \notin before[i]
    BY <1>2, <1>4, TotalOrder
  <2>2. \A i, j \in I : i # j => i \in before[j] \/ j \in before[i]
    BY <1>2, <1>3, <1>4, TotalOrder
  <2>3. ASSUME NEW i \in I, NEW j \in I, i \in before[j], NEW k \in before[i]
        PROVE  k \in before[j]
    <3>1. k \in I
      BY <1>6, <2>3
    <3> QED
      BY <1>2, <1>4, <2>3, <3>1, PrecedesIsTransitive
  <2> QED
    BY <1>1, <1>6, <2>1, <2>2, <2>3 DEF Ranked
<1>8. /\ K \in Nat
      /\ \A i \in I : Place(before, i) \in 1..K
      /\ \A i, j \in I : i \in before[j] => Place(before, i) < Place(before, j)
      /\ \A i, j \in I : Place(before, i) = Place(before, j) => i = j
      /\ \A n \in 1..K : \E i \in I : Place(before, i) = n
  BY <1>7, Places
<1>9. \A n \in 1..K : at[n] \in I /\ Place(before, at[n]) = n
  BY <1>8
<1> HIDE DEF at, K
<1>10. sorted \in Seq(Candidates(rows)) /\ DOMAIN sorted = 1..K
  <2>1. \A n \in 1..K : loaded[at[n]] \in Candidates(rows)
    BY <1>2, <1>9 DEF Candidates
  <2> QED
    BY <1>5, <1>8, <2>1
<1>11. \A r \in Candidates(rows) : \E n \in 1..K : sorted[n] = r
  <2> TAKE r \in Candidates(rows)
  <2>1. PICK i \in I : loaded[i] = r
    BY DEF Candidates, Lists, I
  <2>2. Place(before, i) \in 1..K /\ at[Place(before, i)] = i
    BY <1>8, <1>9
  <2> QED
    BY <1>5, <2>1, <2>2
<1>12. ASSUME NEW m \in 1..K, NEW n \in 1..K, m < n
       PROVE  Precedes(sorted[m], sorted[n])
  <2>1. /\ at[m] \in I /\ Place(before, at[m]) = m
        /\ at[n] \in I /\ Place(before, at[n]) = n
    BY <1>9
  <2>2. at[m] # at[n] /\ at[n] \notin before[at[m]]
    BY <1>8, <1>12, <2>1
  <2>3. at[m] \in before[at[n]]
    BY <1>7, <2>1, <2>2 DEF Ranked
  <2> QED
    BY <1>4, <1>5, <2>1, <2>3
<1>13. Sorted(sorted, Candidates(rows))
  BY <1>10, <1>11, <1>12 DEF Sorted
<1> QED
  BY <1>13 DEF sorted

----------------------------------------------------------------------------
(* The first loop *)

(* What the loop over the candidates has found so far. *)
SoFar ==
    [ended : {"no", "incomplete_world_state", "invalid_rule"}, matches : Seq(RuleRow)]

Nothing == [ended |-> "no", matches |-> <<>>]

LEMMA FourVerdicts ==
    ASSUME NEW r \in RuleRow, NEW world
    PROVE  MatchRule(r, world) \in {"incomplete", "invalid", "match", "no-match"}
<1>1. r.conditions \in Seq(Condition)
  BY DEF RuleRow
<1>2. \A i \in DOMAIN r.conditions :
        ConditionVerdict(r.conditions[i], world) \in {"incomplete", "invalid", "match", "no-match"}
  BY DEF ConditionVerdict
<1>3. CASE Restrictiveness(r.outcome) = -1
  BY <1>3 DEF MatchRule
<1>4. CASE Restrictiveness(r.outcome) # -1
  BY <1>1, <1>2, <1>4, VerdictOfRule
<1> QED
  BY <1>3, <1>4

(* A round, case by case. *)
LEMMA ExamineCases ==
    ASSUME NEW soFar \in SoFar, NEW r \in RuleRow, NEW world
    PROVE  /\ Examine(soFar, r, world) \in SoFar
           /\ soFar.ended # "no" => Examine(soFar, r, world) = soFar
           /\ soFar.ended = "no" /\ MatchRule(r, world) = "incomplete" =>
                Examine(soFar, r, world).ended = "incomplete_world_state"
           /\ soFar.ended = "no" /\ MatchRule(r, world) = "invalid" =>
                Examine(soFar, r, world).ended = "invalid_rule"
           /\ soFar.ended = "no" /\ MatchRule(r, world) = "match" =>
                /\ Examine(soFar, r, world).ended = "no"
                /\ Examine(soFar, r, world).matches = Append(soFar.matches, r)
           /\ soFar.ended = "no" /\ MatchRule(r, world) = "no-match" =>
                Examine(soFar, r, world) = soFar
<1>1. MatchRule(r, world) \in {"incomplete", "invalid", "match", "no-match"}
  BY FourVerdicts
<1> DEFINE kind == MatchRule(r, world)
<1>2. Examine(soFar, r, world) =
        IF soFar.ended # "no" THEN soFar
        ELSE CASE kind = "incomplete" -> [soFar EXCEPT !.ended = "incomplete_world_state"]
               [] kind = "invalid"    -> [soFar EXCEPT !.ended = "invalid_rule"]
               [] kind = "match"      -> [soFar EXCEPT !.matches = Append(@, r)]
               [] kind = "no-match"   -> soFar
  BY DEF Examine
<1> HIDE DEF kind
<1>3. Append(soFar.matches, r) \in Seq(RuleRow)
  BY DEF SoFar
<1>4. CASE soFar.ended # "no"
  BY <1>2, <1>4
<1>5. CASE soFar.ended = "no" /\ kind = "incomplete"
  BY <1>2, <1>5 DEF SoFar, kind
<1>6. CASE soFar.ended = "no" /\ kind = "invalid"
  BY <1>2, <1>6 DEF SoFar, kind
<1>7. CASE soFar.ended = "no" /\ kind = "match"
  BY <1>2, <1>3, <1>7 DEF SoFar, kind
<1>8. CASE soFar.ended = "no" /\ kind = "no-match"
  BY <1>2, <1>8 DEF SoFar, kind
<1> QED
  BY <1>1, <1>4, <1>5, <1>6, <1>7, <1>8 DEF kind

ExaminesRound(after, sorted, world, n) == after[n] = Examine(after[n - 1], sorted[n], world)

(* The loop as the sequence of what was found after each round. *)
LEMMA ExaminedByRounds ==
    ASSUME NEW sorted \in Seq(RuleRow), NEW world
    PROVE  \E after \in [0..Len(sorted) -> SoFar] :
             /\ after[0] = Nothing
             /\ \A n \in 1..Len(sorted) : ExaminesRound(after, sorted, world, n)
             /\ Examined(sorted, world) = after[Len(sorted)]
<1> DEFINE N == Len(sorted)
           Loop(f) == f = [n \in 0..N |-> IF n = 0 THEN Nothing
                                          ELSE Examine(f[n - 1], sorted[n], world)]
           round == [n \in 1..N |-> [v \in SoFar |-> Examine(v, sorted[n], world)]]
           chosen == CHOOSE f : Loop(f)
<1>1. N \in Nat /\ \A n \in 1..N : sorted[n] \in RuleRow
  OBVIOUS
<1>2. Nothing \in SoFar
  BY DEF Nothing, SoFar
<1>3. round \in [1..N -> [SoFar -> SoFar]]
  BY <1>1, ExamineCases
<1>4. \A n \in 1..N : \A v \in SoFar : round[n][v] = Examine(v, sorted[n], world)
  OBVIOUS
<1> HIDE DEF N, round
<1>5. PICK g \in [0..N -> SoFar] : Runs(g, N, Nothing, round)
  <2>1. N \in Nat
    BY <1>1
  <2> QED
    BY <1>2, <1>3, <2>1, LoopExists
<1>6. Loop(g)
  <2>1. \A n \in 1..N : n - 1 \in 0..N
    BY <1>1
  <2>2. \A n \in 1..N : g[n] = Examine(g[n - 1], sorted[n], world)
    BY <1>4, <1>5, <2>1 DEF Runs
  <2>3. \A n \in 0..N : g[n] = IF n = 0 THEN Nothing ELSE Examine(g[n - 1], sorted[n], world)
    BY <1>1, <1>5, <2>2 DEF Runs
  <2> QED
    BY <1>5, <2>3
<1>7. Loop(chosen)
  <2> HIDE DEF Loop
  <2> QED
    BY <1>6
<1>8. Examined(sorted, world) = chosen[N]
  BY DEF Examined, N, Nothing
<1> HIDE DEF chosen
<1>9. chosen[0] = Nothing /\ \A n \in 1..N : chosen[n] = Examine(chosen[n - 1], sorted[n], world)
  BY <1>1, <1>7
<1>10. chosen \in [0..N -> SoFar]
  <2> DEFINE T == {n \in 0..N : chosen[n] \in SoFar}
  <2>1. 0 \in T
    BY <1>1, <1>2, <1>9
  <2>2. ASSUME NEW n \in 1..N, n - 1 \in T PROVE n \in T
    <3>1. chosen[n] \in SoFar
      BY <1>1, <1>9, <2>2, ExamineCases
    <3> QED
      BY <3>1
  <2> HIDE DEF T
  <2>3. 0..N \subseteq T
    BY <1>1, <2>1, <2>2, AllRounds
  <2> QED
    BY <1>7, <2>3 DEF T
<1> HIDE DEF Loop
<1> QED
  BY <1>8, <1>9, <1>10 DEF N, ExaminesRound

InOrder(rows) == \A m, n \in DOMAIN rows : m < n => Precedes(rows[m], rows[n])

(* After the first n candidates: all were evaluated and the matches among them are
   collected in order, or the first that could not be evaluated has ended it. *)
WentThrough(soFar, sorted, world, n) ==
    IF soFar.ended = "no"
    THEN /\ \A m \in 1..n : MatchRule(sorted[m], world) \in {"match", "no-match"}
         /\ \A m \in 1..n : MatchRule(sorted[m], world) = "match" =>
              \E k \in DOMAIN soFar.matches : soFar.matches[k] = sorted[m]
         /\ \A k \in DOMAIN soFar.matches : \E m \in 1..n :
              soFar.matches[k] = sorted[m] /\ MatchRule(sorted[m], world) = "match"
         /\ InOrder(soFar.matches)
    ELSE \E m \in 1..n :
         /\ MatchRule(sorted[m], world) \in {"incomplete", "invalid"}
         /\ \A l \in 1..(m - 1) : MatchRule(sorted[l], world) \in {"match", "no-match"}
         /\ soFar.ended = IF MatchRule(sorted[m], world) = "invalid"
                          THEN "invalid_rule" ELSE "incomplete_world_state"

LEMMA RoundGoesOn ==
    ASSUME NEW sorted \in Seq(RuleRow), InOrder(sorted), NEW world, NEW soFar \in SoFar,
           NEW n \in 1..Len(sorted), WentThrough(soFar, sorted, world, n - 1)
    PROVE  WentThrough(Examine(soFar, sorted[n], world), sorted, world, n)
<1> DEFINE next == Examine(soFar, sorted[n], world)
           Kind(m) == MatchRule(sorted[m], world)
<1>1. sorted[n] \in RuleRow /\ n \in Nat /\ DOMAIN sorted = 1..Len(sorted)
  OBVIOUS
<1>2. next \in SoFar /\ Kind(n) \in {"incomplete", "invalid", "match", "no-match"}
  BY <1>1, ExamineCases, FourVerdicts
<1>3. \A m \in 1..n : m \in 1..(n - 1) \/ m = n
  BY <1>1
<1>4. CASE soFar.ended # "no"
  <2>1. next = soFar
    BY <1>1, <1>4, ExamineCases
  <2>2. PICK m \in 1..(n - 1) :
          /\ Kind(m) \in {"incomplete", "invalid"}
          /\ \A l \in 1..(m - 1) : Kind(l) \in {"match", "no-match"}
          /\ soFar.ended = IF Kind(m) = "invalid" THEN "invalid_rule" ELSE "incomplete_world_state"
    BY <1>4 DEF WentThrough
  <2>3. m \in 1..n
    BY <1>1
  <2> HIDE DEF Kind
  <2>4. WentThrough(soFar, sorted, world, n)
    BY <1>4, <2>2, <2>3 DEF WentThrough, Kind
  <2> QED
    BY <2>1, <2>4
<1>5. CASE soFar.ended = "no" /\ Kind(n) \in {"incomplete", "invalid"}
  <2>1. next.ended = IF Kind(n) = "invalid" THEN "invalid_rule" ELSE "incomplete_world_state"
    BY <1>1, <1>5, ExamineCases
  <2>2. \A l \in 1..(n - 1) : Kind(l) \in {"match", "no-match"}
    BY <1>5 DEF WentThrough
  <2>3. next.ended # "no" /\ n \in 1..n
    BY <1>1, <2>1
  <2> HIDE DEF Kind, next
  <2> QED
    BY <1>5, <2>1, <2>2, <2>3 DEF WentThrough, Kind, next
<1>6. CASE soFar.ended = "no" /\ Kind(n) = "match"
  <2> DEFINE found == soFar.matches
  <2>1. next.ended = "no" /\ next.matches = Append(found, sorted[n])
    BY <1>1, <1>6, ExamineCases
  <2>2. /\ \A m \in 1..(n - 1) : Kind(m) \in {"match", "no-match"}
        /\ \A m \in 1..(n - 1) : Kind(m) = "match" => \E k \in DOMAIN found : found[k] = sorted[m]
        /\ \A k \in DOMAIN found : \E m \in 1..(n - 1) : found[k] = sorted[m] /\ Kind(m) = "match"
        /\ InOrder(found)
    BY <1>6 DEF WentThrough
  <2>3. found \in Seq(RuleRow)
    BY DEF SoFar
  <2> DEFINE more == Append(found, sorted[n])
             L == Len(found)
  <2>4. /\ L \in Nat /\ DOMAIN found = 1..L /\ DOMAIN more = 1..(L + 1)
        /\ \A k \in 1..L : more[k] = found[k]
        /\ more[L + 1] = sorted[n]
    BY <1>1, <2>3
  <2> HIDE DEF found, more, L, Kind, next
  <2>5. \A m \in 1..n : Kind(m) \in {"match", "no-match"}
    BY <1>3, <1>6, <2>2
  <2>6. ASSUME NEW m \in 1..n, Kind(m) = "match"
        PROVE  \E k \in DOMAIN more : more[k] = sorted[m]
    <3>1. CASE m = n
      BY <2>4, <3>1
    <3>2. CASE m \in 1..(n - 1)
      <4>1. PICK k \in DOMAIN found : found[k] = sorted[m]
        BY <2>2, <2>6, <3>2
      <4>2. k \in 1..(L + 1) /\ more[k] = found[k]
        BY <2>4
      <4> QED
        BY <2>4, <4>1, <4>2
    <3> QED
      BY <1>3, <3>1, <3>2
  <2>7. ASSUME NEW k \in DOMAIN more
        PROVE  \E m \in 1..n : more[k] = sorted[m] /\ Kind(m) = "match"
    <3>1. CASE k = L + 1
      BY <1>1, <1>6, <2>4, <3>1
    <3>2. CASE k \in 1..L
      <4>1. PICK m \in 1..(n - 1) : found[k] = sorted[m] /\ Kind(m) = "match"
        BY <2>2, <2>4, <3>2
      <4>2. m \in 1..n /\ more[k] = found[k]
        BY <1>1, <2>4, <3>2
      <4> QED
        BY <4>1, <4>2
    <3> QED
      BY <2>4, <3>1, <3>2
  <2>8. ASSUME NEW k \in DOMAIN more, NEW l \in DOMAIN more, k < l
        PROVE  Precedes(more[k], more[l])
    <3>1. k \in 1..L
      BY <2>4, <2>8
    <3>2. CASE l \in 1..L
      BY <2>2, <2>4, <2>8, <3>1, <3>2 DEF InOrder
    <3>3. CASE l = L + 1
      <4>1. PICK m \in 1..(n - 1) : found[k] = sorted[m]
        BY <2>2, <2>4, <3>1
      <4>2. m \in DOMAIN sorted /\ n \in DOMAIN sorted /\ m < n
        BY <1>1
      <4>3. Precedes(sorted[m], sorted[n])
        BY <4>2 DEF InOrder
      <4> QED
        BY <2>4, <3>1, <3>3, <4>1, <4>3
    <3> QED
      BY <2>4, <3>2, <3>3
  <2>9. InOrder(more)
    BY <2>8 DEF InOrder
  <2>10. next.ended = "no" /\ next.matches = more
    BY <2>1 DEF more
  <2>11. WentThrough(next, sorted, world, n)
    BY <2>5, <2>6, <2>7, <2>9, <2>10 DEF WentThrough, Kind
  <2> QED
    BY <2>11 DEF next
<1>7. CASE soFar.ended = "no" /\ Kind(n) = "no-match"
  <2>1. next = soFar
    BY <1>1, <1>7, ExamineCases
  <2> DEFINE found == soFar.matches
  <2>2. /\ \A m \in 1..(n - 1) : Kind(m) \in {"match", "no-match"}
        /\ \A m \in 1..(n - 1) : Kind(m) = "match" => \E k \in DOMAIN found : found[k] = sorted[m]
        /\ \A k \in DOMAIN found : \E m \in 1..(n - 1) : found[k] = sorted[m] /\ Kind(m) = "match"
        /\ InOrder(found)
    BY <1>7 DEF WentThrough
  <2>3. \A m \in 1..(n - 1) : m \in 1..n
    BY <1>1
  <2> HIDE DEF Kind, next, found
  <2>4. /\ \A m \in 1..n : Kind(m) \in {"match", "no-match"}
        /\ \A m \in 1..n : Kind(m) = "match" => \E k \in DOMAIN found : found[k] = sorted[m]
        /\ \A k \in DOMAIN found : \E m \in 1..n : found[k] = sorted[m] /\ Kind(m) = "match"
    BY <1>3, <1>7, <2>2, <2>3
  <2>5. WentThrough(soFar, sorted, world, n)
    BY <1>7, <2>2, <2>4 DEF WentThrough, Kind, found
  <2> QED
    BY <2>1, <2>5 DEF next
<1> QED
  BY <1>2, <1>4, <1>5, <1>6, <1>7

LEMMA ExaminesAll ==
    ASSUME NEW sorted \in Seq(RuleRow), InOrder(sorted), NEW world
    PROVE  /\ Examined(sorted, world) \in SoFar
           /\ WentThrough(Examined(sorted, world), sorted, world, Len(sorted))
<1>1. PICK after \in [0..Len(sorted) -> SoFar] :
        /\ after[0] = Nothing
        /\ \A n \in 1..Len(sorted) : ExaminesRound(after, sorted, world, n)
        /\ Examined(sorted, world) = after[Len(sorted)]
  BY ExaminedByRounds
<1>2. Len(sorted) \in Nat
  OBVIOUS
<1> DEFINE T == {n \in 0..Len(sorted) : WentThrough(after[n], sorted, world, n)}
<1>3. 0 \in T
  <2>1. WentThrough(Nothing, sorted, world, 0)
    BY DEF WentThrough, Nothing, InOrder
  <2> QED
    BY <1>1, <1>2, <2>1
<1>4. ASSUME NEW n \in 1..Len(sorted), n - 1 \in T PROVE n \in T
  <2>1. after[n - 1] \in SoFar /\ after[n] = Examine(after[n - 1], sorted[n], world)
    BY <1>1, <1>2 DEF ExaminesRound
  <2>2. WentThrough(after[n], sorted, world, n)
    BY <1>4, <2>1, RoundGoesOn
  <2> QED
    BY <2>2
<1>5. 0..Len(sorted) \subseteq T
  <2> HIDE DEF T
  <2> QED
    BY <1>2, <1>3, <1>4, AllRounds
<1> QED
  BY <1>1, <1>2, <1>5

----------------------------------------------------------------------------
(* The second loop *)

(* After the first n matches, the winner is the first of the strictest of them. *)
LeadsAfter(winner, matches, n) ==
    \E k \in DOMAIN matches :
        /\ winner = matches[k]
        /\ \A l \in 1..n : Restrictiveness(matches[l].outcome) <= Restrictiveness(winner.outcome)
        /\ \A l \in 1..(k - 1) :
             Restrictiveness(matches[l].outcome) < Restrictiveness(winner.outcome)

LEMMA RestrictivenessIsNumber ==
    ASSUME NEW outcome
    PROVE  Restrictiveness(outcome) \in -1..3
BY DEF Restrictiveness

(* A round of it. *)
LEMMA StricterLeads ==
    ASSUME NEW matches \in Seq(RuleRow), NEW n \in 1..Len(matches), NEW winner,
           LeadsAfter(winner, matches, n - 1)
    PROVE  LeadsAfter(Stricter(winner, matches[n]), matches, n)
<1> DEFINE R(l) == Restrictiveness(matches[l].outcome)
           top == Restrictiveness(winner.outcome)
<1>1. DOMAIN matches = 1..Len(matches) /\ Len(matches) \in Nat
  OBVIOUS
<1>2. PICK k \in DOMAIN matches :
        /\ winner = matches[k]
        /\ \A l \in 1..(n - 1) : R(l) <= top
        /\ \A l \in 1..(k - 1) : R(l) < top
  BY DEF LeadsAfter
<1>3. top \in Int /\ \A l \in 1..n : R(l) \in Int /\ (l \in 1..(n - 1) \/ l = n)
  BY <1>1, RestrictivenessIsNumber
<1>4. CASE R(n) > top
  <2>1. Stricter(winner, matches[n]) = matches[n]
    BY <1>4 DEF Stricter
  <2> HIDE DEF top, R
  <2>2. \A l \in 1..n : R(l) <= R(n)
    <3> TAKE l \in 1..n
    <3>1. CASE l = n
      BY <1>3, <3>1
    <3>2. CASE l \in 1..(n - 1)
      <4>1. R(l) <= top /\ R(l) \in Int /\ R(n) \in Int /\ top \in Int
        BY <1>2, <1>3, <3>2
      <4> QED
        BY <1>4, <4>1
    <3> QED
      BY <1>3, <3>1, <3>2
  <2>3. \A l \in 1..(n - 1) : R(l) < R(n)
    BY <1>1, <1>2, <1>3, <1>4
  <2>4. n \in DOMAIN matches
    BY <1>1
  <2>5. LeadsAfter(matches[n], matches, n)
    BY <2>2, <2>3, <2>4 DEF LeadsAfter, R
  <2> QED
    BY <2>1, <2>5
<1>5. CASE ~(R(n) > top)
  <2>1. Stricter(winner, matches[n]) = winner
    BY <1>5 DEF Stricter
  <2> HIDE DEF R, top
  <2>2. \A l \in 1..n : R(l) <= top
    BY <1>1, <1>2, <1>3, <1>5
  <2>3. LeadsAfter(winner, matches, n)
    BY <1>2, <2>2 DEF LeadsAfter, R, top
  <2> QED
    BY <2>1, <2>3
<1> QED
  BY <1>4, <1>5

(* The loop as the sequence of the winners after each round. *)
WinsRound(after, matches, n) == after[n] = Stricter(after[n - 1], matches[n])

LEMMA WinnerByRounds ==
    ASSUME NEW matches \in Seq(RuleRow), matches # <<>>
    PROVE  \E after :
             /\ after[0] = matches[1]
             /\ \A n \in 1..Len(matches) : WinsRound(after, matches, n)
             /\ Winner(matches) = after[Len(matches)]
<1> DEFINE N == Len(matches)
           Loop(f) == f = [n \in 0..N |-> IF n = 0 THEN matches[1]
                                          ELSE Stricter(f[n - 1], matches[n])]
           round == [n \in 1..N |-> [v \in RuleRow |-> Stricter(v, matches[n])]]
           chosen == CHOOSE f : Loop(f)
<1>1. N \in Nat /\ matches[1] \in RuleRow /\ \A n \in 1..N : matches[n] \in RuleRow
  OBVIOUS
<1>2. round \in [1..N -> [RuleRow -> RuleRow]]
  BY <1>1 DEF Stricter
<1>3. \A n \in 1..N : \A v \in RuleRow : round[n][v] = Stricter(v, matches[n])
  OBVIOUS
<1> HIDE DEF N, round
<1>4. PICK g \in [0..N -> RuleRow] : Runs(g, N, matches[1], round)
  <2>1. N \in Nat /\ matches[1] \in RuleRow
    BY <1>1
  <2> QED
    BY <1>2, <2>1, LoopExists
<1>5. Loop(g)
  <2>1. \A n \in 1..N : n - 1 \in 0..N
    BY <1>1
  <2>2. \A n \in 1..N : g[n] = Stricter(g[n - 1], matches[n])
    BY <1>3, <1>4, <2>1 DEF Runs
  <2>3. \A n \in 0..N : g[n] = IF n = 0 THEN matches[1] ELSE Stricter(g[n - 1], matches[n])
    BY <1>1, <1>4, <2>2 DEF Runs
  <2> QED
    BY <1>4, <2>3
<1>6. Loop(chosen)
  <2> HIDE DEF Loop
  <2> QED
    BY <1>5
<1>7. Winner(matches) = chosen[N]
  BY DEF Winner, N
<1> HIDE DEF chosen
<1>8. chosen[0] = matches[1] /\ \A n \in 1..N : chosen[n] = Stricter(chosen[n - 1], matches[n])
  BY <1>1, <1>6
<1> HIDE DEF Loop
<1> QED
  BY <1>7, <1>8 DEF N, WinsRound

LEMMA WinnerLeads ==
    ASSUME NEW matches \in Seq(RuleRow), matches # <<>>
    PROVE  LeadsAfter(Winner(matches), matches, Len(matches))
<1>1. PICK after :
        /\ after[0] = matches[1]
        /\ \A n \in 1..Len(matches) : WinsRound(after, matches, n)
        /\ Winner(matches) = after[Len(matches)]
  BY WinnerByRounds
<1>2. Len(matches) \in Nat /\ 1 \in DOMAIN matches
  OBVIOUS
<1> DEFINE T == {n \in 0..Len(matches) : LeadsAfter(after[n], matches, n)}
<1>3. 0 \in T
  <2>1. LeadsAfter(matches[1], matches, 0)
    BY <1>2 DEF LeadsAfter
  <2> QED
    BY <1>1, <1>2, <2>1
<1>4. ASSUME NEW n \in 1..Len(matches), n - 1 \in T PROVE n \in T
  <2>1. LeadsAfter(after[n], matches, n)
    BY <1>1, <1>4, StricterLeads DEF WinsRound
  <2> QED
    BY <2>1
<1>5. 0..Len(matches) \subseteq T
  <2> HIDE DEF T
  <2> QED
    BY <1>2, <1>3, <1>4, AllRounds
<1> QED
  BY <1>1, <1>2, <1>5

----------------------------------------------------------------------------
(* The reference *)

LEMMA FirstIs ==
    ASSUME NEW rows, Keyed(rows), NEW T, T \subseteq rows, NEW p \in T,
           \A b \in T : p = b \/ Precedes(p, b)
    PROVE  First(T) = p
<1> DEFINE Leads(a) == \A b \in T : a = b \/ Precedes(a, b)
<1>1. First(T) = CHOOSE a \in T : Leads(a)
  BY DEF First
<1>2. \A a \in T : Leads(a) => a = p
  BY TotalOrder
<1>3. Leads(p)
  OBVIOUS
<1> HIDE DEF Leads
<1> QED
  BY <1>1, <1>2, <1>3

(* All of T, in order. *)
Collects(matches, T) ==
    /\ matches \in Seq(T) /\ InOrder(matches)
    /\ \A r \in T : r.outcome \in OutcomeLadder /\ \E k \in DOMAIN matches : matches[k] = r

(* The answer in which a rule is reported as deciding. *)
DecidedIn(winner) ==
    [outcome |-> Clamp(winner.outcome), ruleId |-> winner.id,
     ruleVersion |-> winner.version, defaulted |-> FALSE, reason |-> "none"]

(* The strictest match that comes first is what the reference decides by. *)
LEMMA DecidedBy ==
    ASSUME NEW rows, Keyed(rows), NEW T, T \subseteq rows, NEW matches, Collects(matches, T),
           NEW winner, LeadsAfter(winner, matches, Len(matches))
    PROVE  Decided(T) = DecidedIn(winner)
<1> DEFINE R(r) == Restrictiveness(r.outcome)
           strictest == Strictest(T)
<1>1. /\ matches \in Seq(T) /\ InOrder(matches)
      /\ \A r \in T : r.outcome \in OutcomeLadder /\ \E k \in DOMAIN matches : matches[k] = r
      /\ DOMAIN matches = 1..Len(matches) /\ Len(matches) \in Nat
  BY DEF Collects
<1>2. PICK k \in DOMAIN matches :
        /\ winner = matches[k]
        /\ \A l \in 1..Len(matches) : R(matches[l]) <= R(winner)
        /\ \A l \in 1..(k - 1) : R(matches[l]) < R(winner)
  BY DEF LeadsAfter
<1>3. winner \in T /\ winner.outcome \in OutcomeLadder
  BY <1>1, <1>2
<1>4. strictest = winner.outcome
  <2>1. /\ strictest \in OutcomeLadder
        /\ \E a \in T : a.outcome = strictest
        /\ \A b \in T : R(b) <= Restrictiveness(strictest)
    BY <1>1, <1>3, StrictestIsThere
  <2>2. \A a \in T : R(a) <= R(winner)
    BY <1>1, <1>2
  <2>3. Restrictiveness(strictest) = R(winner)
    BY <1>3, <2>1, <2>2, RestrictivenessIsNumber
  <2> QED
    BY <1>3, <2>1, <2>3 DEF OutcomeLadder, Restrictiveness
<1> DEFINE Top == {a \in T : a.outcome = strictest}
<1>5. First(Top) = winner
  <2>1. winner \in Top /\ Top \subseteq rows
    BY <1>3, <1>4
  <2>2. ASSUME NEW b \in Top PROVE winner = b \/ Precedes(winner, b)
    <3>1. PICK l \in DOMAIN matches : matches[l] = b
      BY <1>1
    <3>2. R(matches[l]) = R(winner) /\ R(winner) \in Int
      BY <1>4, <3>1, RestrictivenessIsNumber
    <3>3. l \notin 1..(k - 1)
      BY <1>2, <3>2
    <3>4. l = k \/ k < l
      BY <1>1, <3>3
    <3> QED
      BY <1>1, <1>2, <3>1, <3>4 DEF InOrder
  <2> HIDE DEF Top
  <2> QED
    BY <2>1, <2>2, FirstIs
<1>6. Decided(T) = [outcome |-> Clamp(strictest), ruleId |-> First(Top).id,
                    ruleVersion |-> First(Top).version, defaulted |-> FALSE, reason |-> "none"]
  BY DEF Decided
<1> HIDE DEF Top, strictest
<1> QED
  BY <1>4, <1>5, <1>6 DEF DecidedIn

----------------------------------------------------------------------------
(* The theorems *)

(* evaluate decides by the most restrictive of all matching rules and reports the
   first of those in byPrecedence, or fails closed: what it answers and which rule it
   names do not depend on the order the rules were loaded in. *)
THEOREM LoopComputesReference ==
    ASSUME NEW rows, Keyed(rows), NEW loaded, Lists(loaded, rows), NEW world
    PROVE  EvaluateLoop(loaded, world) = Evaluate(rows, world)
<1> DEFINE sorted == ByPrecedence(loaded)
           found == Examined(sorted, world)
           winner == Winner(found.matches)
           bad == {r \in Candidates(rows) : MatchRule(r, world) \in {"incomplete", "invalid"}}
           T == {r \in Candidates(rows) : MatchRule(r, world) = "match"}
<1>1. Sorted(sorted, Candidates(rows))
  BY SortSorts
<1>2. Candidates(rows) \subseteq rows /\ Candidates(rows) \subseteq RuleRow
  BY DEF Candidates, Keyed
<1>3. EvaluateLoop(loaded, world) =
        IF found.ended # "no" THEN FailClosed(found.ended)
        ELSE IF found.matches = <<>> THEN FailClosed("no_matching_rule")
        ELSE DecidedIn(winner)
  BY DEF EvaluateLoop, DecidedIn
<1>4. Evaluate(rows, world) =
        IF bad # {}
        THEN FailClosed(IF MatchRule(First(bad), world) = "invalid"
                        THEN "invalid_rule" ELSE "incomplete_world_state")
        ELSE IF T = {} THEN FailClosed("no_matching_rule")
        ELSE Decided(T)
  BY DEF Evaluate, Candidates
<1> HIDE DEF sorted
<1>5. /\ sorted \in Seq(Candidates(rows)) /\ InOrder(sorted)
      /\ DOMAIN sorted = 1..Len(sorted) /\ Len(sorted) \in Nat
      /\ \A n \in 1..Len(sorted) : sorted[n] \in Candidates(rows)
      /\ \A r \in Candidates(rows) : \E n \in 1..Len(sorted) : sorted[n] = r
  BY <1>1 DEF Sorted, InOrder
<1>6. sorted \in Seq(RuleRow)
  BY <1>2, <1>5
<1>7. found \in SoFar /\ WentThrough(found, sorted, world, Len(sorted))
  BY <1>5, <1>6, ExaminesAll
<1> HIDE DEF found
<1>8. CASE found.ended # "no"
  <2>1. PICK m \in 1..Len(sorted) :
          /\ MatchRule(sorted[m], world) \in {"incomplete", "invalid"}
          /\ \A l \in 1..(m - 1) : MatchRule(sorted[l], world) \in {"match", "no-match"}
          /\ found.ended = IF MatchRule(sorted[m], world) = "invalid"
                           THEN "invalid_rule" ELSE "incomplete_world_state"
    BY <1>7, <1>8 DEF WentThrough
  <2>2. sorted[m] \in bad /\ bad \subseteq rows
    BY <1>2, <1>5, <2>1
  <2>3. ASSUME NEW b \in bad PROVE sorted[m] = b \/ Precedes(sorted[m], b)
    <3>1. PICK l \in 1..Len(sorted) : sorted[l] = b
      BY <1>5
    <3>2. l \notin 1..(m - 1)
      BY <2>1, <3>1
    <3>3. l = m \/ m < l
      BY <1>5, <3>2
    <3> QED
      BY <1>5, <3>1, <3>3 DEF InOrder
  <2> HIDE DEF bad
  <2>4. First(bad) = sorted[m]
    BY <2>2, <2>3, FirstIs
  <2>5. bad # {}
    BY <2>2
  <2> QED
    BY <1>3, <1>4, <1>8, <2>1, <2>4, <2>5
<1>9. CASE found.ended = "no"
  <2>1. /\ \A m \in 1..Len(sorted) : MatchRule(sorted[m], world) \in {"match", "no-match"}
        /\ \A m \in 1..Len(sorted) : MatchRule(sorted[m], world) = "match" =>
             \E k \in DOMAIN found.matches : found.matches[k] = sorted[m]
        /\ \A k \in DOMAIN found.matches : \E m \in 1..Len(sorted) :
             found.matches[k] = sorted[m] /\ MatchRule(sorted[m], world) = "match"
        /\ InOrder(found.matches)
    BY <1>7, <1>9 DEF WentThrough
  <2>2. found.matches \in Seq(RuleRow)
    BY <1>7 DEF SoFar
  <2>3. bad = {}
    BY <1>5, <2>1
  <2>4. \A k \in DOMAIN found.matches : found.matches[k] \in T
    BY <1>5, <2>1
  <2>5. \A r \in T : \E k \in DOMAIN found.matches : found.matches[k] = r
    BY <1>5, <2>1
  <2>6. CASE found.matches = <<>>
    <3>1. T = {}
      BY <2>5, <2>6
    <3> QED
      BY <1>3, <1>4, <1>9, <2>3, <2>6, <3>1
  <2>7. CASE found.matches # <<>>
    <3>1. LeadsAfter(winner, found.matches, Len(found.matches))
      BY <2>2, <2>7, WinnerLeads
    <3>2. found.matches \in Seq(T)
      BY <2>2, <2>4
    <3>3. T # {} /\ T \subseteq rows
      BY <1>2, <2>2, <2>4, <2>7
    <3>4. \A r \in T : r.outcome \in OutcomeLadder
      BY <1>2, VerdictOfRule, OnLadder DEF RuleRow
    <3> HIDE DEF T, winner
    <3>5. Collects(found.matches, T)
      BY <2>1, <2>5, <3>2, <3>4 DEF Collects
    <3>6. Decided(T) = DecidedIn(winner)
      BY <3>1, <3>3, <3>5, DecidedBy
    <3> QED
      BY <1>3, <1>4, <1>9, <2>3, <2>7, <3>3, <3>6
  <2> QED
    BY <2>6, <2>7
<1> QED
  BY <1>8, <1>9

(* Whatever the rules and the facts, evaluate answers one of three outcomes and never
   auto-execute, which is what the action path takes a set of rules for
   (ActionRepo's Ruling); the rule it names is in force, matches and says just that,
   unless it says auto-execute and is held to confirm-required. *)
THEOREM EngineRulings ==
    ASSUME NEW rows, Keyed(rows), NEW loaded, Lists(loaded, rows), NEW world
    PROVE  /\ EvaluateLoop(loaded, world).outcome \in {"confirm-required", "agent-only", "refuse"}
           /\ ~EvaluateLoop(loaded, world).defaulted =>
                \E r \in rows :
                    /\ r.active /\ MatchRule(r, world) = "match"
                    /\ r.id = EvaluateLoop(loaded, world).ruleId
                    /\ Clamp(r.outcome) = EvaluateLoop(loaded, world).outcome
<1> DEFINE sorted == ByPrecedence(loaded)
           found == Examined(sorted, world)
           winner == Winner(found.matches)
           answer == EvaluateLoop(loaded, world)
<1>1. answer = IF found.ended # "no" THEN FailClosed(found.ended)
               ELSE IF found.matches = <<>> THEN FailClosed("no_matching_rule")
               ELSE DecidedIn(winner)
  BY DEF EvaluateLoop, DecidedIn
<1> HIDE DEF answer
<1>2. Sorted(sorted, Candidates(rows)) /\ Candidates(rows) \subseteq RuleRow
  BY SortSorts DEF Candidates, Keyed
<1>3. sorted \in Seq(RuleRow) /\ InOrder(sorted)
  BY <1>2 DEF Sorted, InOrder
<1>4. found \in SoFar /\ WentThrough(found, sorted, world, Len(sorted))
  BY <1>3, ExaminesAll
<1>5. CASE found.ended # "no" \/ found.matches = <<>>
  <2> HIDE DEF found
  <2>1. answer.outcome = "agent-only" /\ answer.defaulted
    BY <1>1, <1>5 DEF FailClosed
  <2> QED
    BY <2>1 DEF answer
<1>6. CASE found.ended = "no" /\ found.matches # <<>>
  <2>1. found.matches \in Seq(RuleRow)
    BY <1>4 DEF SoFar
  <2>2. LeadsAfter(winner, found.matches, Len(found.matches))
    BY <1>6, <2>1, WinnerLeads
  <2>3. PICK k \in DOMAIN found.matches : winner = found.matches[k]
    BY <2>2 DEF LeadsAfter
  <2>4. PICK m \in 1..Len(sorted) : winner = sorted[m] /\ MatchRule(sorted[m], world) = "match"
    BY <1>4, <1>6, <2>3 DEF WentThrough
  <2> HIDE DEF winner
  <2>5. winner \in rows /\ winner.active /\ winner \in RuleRow
    BY <1>2, <2>4 DEF Sorted, Candidates
  <2>6. winner.outcome \in OutcomeLadder
    BY <2>4, <2>5, VerdictOfRule, OnLadder DEF RuleRow
  <2>7. answer = DecidedIn(winner)
    BY <1>1, <1>6
  <2>8. Clamp(winner.outcome) \in {"confirm-required", "agent-only", "refuse"}
    BY <2>6 DEF Clamp, OutcomeLadder
  <2> QED
    BY <2>4, <2>5, <2>7, <2>8 DEF DecidedIn, answer
<1> QED
  BY <1>5, <1>6 DEF answer

(* Rows as they were inserted are all of them, once each. *)
LEMMA InsertedLists ==
    ASSUME NEW rows, Keyed(rows), IsFiniteSet(rows)
    PROVE  Lists(AsInserted(rows), rows)
<1> DEFINE before == [r \in rows |-> {s \in rows : s.id < r.id}]
           K == Cardinality(rows)
           loaded == AsInserted(rows)
<1>1. \A r \in rows : r.id \in Nat
  BY DEF Keyed, RuleRow
<1>2. before \in [rows -> SUBSET rows] /\ \A r, s \in rows : s \in before[r] <=> s.id < r.id
  OBVIOUS
<1>3. loaded = [i \in 1..K |-> CHOOSE r \in rows : Cardinality({s \in rows : s.id < r.id}) = i - 1]
  BY DEF AsInserted
<1>4. \A r \in rows : Place(before, r) = 1 + Cardinality({s \in rows : s.id < r.id})
  BY DEF Place
<1> HIDE DEF before, loaded
<1>5. Ranked(rows, before)
  <2>1. \A r \in rows : r \notin before[r]
    BY <1>1, <1>2
  <2>2. \A r, s \in rows : r # s => r \in before[s] \/ s \in before[r]
    BY <1>1, <1>2 DEF Keyed
  <2>3. \A r, s \in rows : r \in before[s] => before[r] \subseteq before[s]
    <3> SUFFICES ASSUME NEW r \in rows, NEW s \in rows, r \in before[s], NEW t \in before[r]
                 PROVE  t \in before[s]
      OBVIOUS
    <3>1. t \in rows
      BY <1>2
    <3> QED
      BY <1>1, <1>2, <3>1
  <2> QED
    BY <1>2, <2>1, <2>2, <2>3 DEF Ranked
<1>6. /\ K \in Nat
      /\ \A r \in rows : Place(before, r) \in 1..K
      /\ \A r, s \in rows : Place(before, r) = Place(before, s) => r = s
      /\ \A n \in 1..K : \E r \in rows : Place(before, r) = n
  BY <1>5, Places
<1>7. ASSUME NEW n \in 1..K PROVE loaded[n] \in rows /\ Place(before, loaded[n]) = n
  <2> DEFINE IsNth(r) == Cardinality({s \in rows : s.id < r.id}) = n - 1
  <2>1. loaded[n] = CHOOSE r \in rows : IsNth(r)
    BY <1>3
  <2>2. \A r \in rows : IsNth(r) <=> Place(before, r) = n
    <3> TAKE r \in rows
    <3>1. Cardinality({s \in rows : s.id < r.id}) \in Int
      <4>1. {s \in rows : s.id < r.id} \in SUBSET rows
        OBVIOUS
      <4> QED
        BY <4>1, FS_Subset, FS_CardinalityType
    <3> QED
      BY <1>4, <1>6, <3>1
  <2> HIDE DEF IsNth
  <2> QED
    BY <1>6, <2>1, <2>2
<1>8. DOMAIN loaded = 1..K /\ loaded \in Seq(rows)
  <2>1. loaded \in [1..K -> rows]
    BY <1>3, <1>7
  <2> QED
    BY <1>6, <2>1
<1>9. \A r \in rows : \E n \in 1..K : loaded[n] = r
  BY <1>6, <1>7
<1>10. \A m, n \in 1..K : loaded[m] = loaded[n] => m = n
  BY <1>7
<1>11. Lists(loaded, rows)
  BY <1>8, <1>9, <1>10 DEF Lists
<1> QED
  BY <1>11 DEF loaded

LEMMA BackwardsLists ==
    ASSUME NEW rows, NEW loaded, Lists(loaded, rows)
    PROVE  Lists(Backwards(loaded), rows)
<1> DEFINE N == Len(loaded)
           back == Backwards(loaded)
<1>1. N \in Nat /\ DOMAIN loaded = 1..N /\ \A n \in 1..N : loaded[n] \in rows
  BY DEF Lists
<1>2. back = [n \in 1..N |-> loaded[N + 1 - n]]
  BY DEF Backwards
<1> HIDE DEF N, back
<1>3. \A n \in 1..N : N + 1 - n \in 1..N /\ N + 1 - (N + 1 - n) = n
  BY <1>1
<1>4. back \in Seq(rows) /\ DOMAIN back = 1..N
  <2>1. back \in [1..N -> rows]
    BY <1>1, <1>2, <1>3
  <2> QED
    BY <1>1, <2>1
<1>5. ASSUME NEW r \in rows PROVE \E n \in 1..N : back[n] = r
  <2>1. PICK i \in 1..N : loaded[i] = r
    BY <1>1 DEF Lists
  <2>2. N + 1 - i \in 1..N /\ back[N + 1 - i] = loaded[N + 1 - (N + 1 - i)]
    BY <1>2, <1>3
  <2> QED
    BY <1>3, <2>1, <2>2
<1>6. ASSUME NEW m \in 1..N, NEW n \in 1..N, back[m] = back[n] PROVE m = n
  <2>1. loaded[N + 1 - m] = loaded[N + 1 - n]
    BY <1>2, <1>6
  <2>2. N + 1 - m = N + 1 - n
    BY <1>1, <1>3, <2>1 DEF Lists
  <2> QED
    BY <1>1, <2>2
<1>7. Lists(back, rows)
  BY <1>4, <1>5, <1>6 DEF Lists
<1> QED
  BY <1>7 DEF back

LEMMA KeyedAreFinite ==
    ASSUME NEW rows, Keyed(rows), NEW top \in Nat, \A r \in rows : r.id \in 1..top
    PROVE  IsFiniteSet(rows)
<1> DEFINE id == [r \in rows |-> r.id]
<1>1. id \in [rows -> 1..top] /\ \A r, s \in rows : id[r] = id[s] => r = s
  BY DEF Keyed
<1> HIDE DEF id
<1>2. id \in Injection(rows, 1..top)
  BY <1>1, Fun_IsInj
<1> QED
  BY <1>2, FS_Injection, FS_Interval

(* Whatever the admins did, the rules in the database have ids of their own, and so
   have their old versions switched on again. *)
LEMMA RulesAreKeyed ==
    ASSUME PolicyInv
    PROVE  \A rows \in {rule, EveryVersionInForce} : Keyed(rows) /\ IsFiniteSet(rows)
<1> DEFINE top == 10 + MaxRequests
<1>1. top \in Nat /\ sent \in 0..MaxRequests
  BY PolicyBounds DEF PolicyInv
<1>2. \A r \in rule : r \in RuleRow /\ r.id \in 1..top
  <2> SUFFICES ASSUME NEW r \in rule PROVE r \in RuleRow /\ r.id \in 1..top
    OBVIOUS
  <2>1. RuleAgrees(r)
    BY DEF PolicyInv, RulesAgree
  <2>2. r \in RuleRow /\ r.createdBy \in Nat /\ r.createdBy <= sent
    BY <2>1 DEF RuleAgrees, RuleRow
  <2>3. r.id \in 1..10 \/ r.id = 10 + r.createdBy
    BY <2>1 DEF RuleAgrees, NewId
  <2> QED
    BY <1>1, <2>2, <2>3, PolicyBounds
<1>3. Keyed(rule)
  BY <1>2 DEF PolicyInv, RulesAgree, Keyed
<1>4. \A v \in EveryVersionInForce : v \in RuleRow /\ \E r \in rule : v = [r EXCEPT !.active = TRUE] /\ v.id = r.id
  <2> SUFFICES ASSUME NEW v \in EveryVersionInForce
               PROVE  v \in RuleRow /\ \E r \in rule : v = [r EXCEPT !.active = TRUE] /\ v.id = r.id
    OBVIOUS
  <2>1. PICK r \in rule : v = [r EXCEPT !.active = TRUE]
    BY DEF EveryVersionInForce
  <2> QED
    BY <1>2, <2>1 DEF RuleRow
<1>5. Keyed(EveryVersionInForce)
  BY <1>3, <1>4 DEF Keyed
<1>6. \A v \in EveryVersionInForce : v.id \in 1..top
  BY <1>2, <1>4
<1> HIDE DEF top
<1> QED
  BY <1>1, <1>2, <1>3, <1>5, <1>6, KeyedAreFinite

(* The same of the rules admins may have written, at every moment. *)
THEOREM LoopAlwaysAgrees == Spec => []LoopAgrees
<1>1. PolicyInv => LoopAgrees
  <2> SUFFICES ASSUME PolicyInv,
                      NEW rows \in {rule, EveryVersionInForce},
                      NEW loaded \in {AsInserted(rows), Backwards(AsInserted(rows))},
                      NEW world
               PROVE  EvaluateLoop(loaded, world) = Evaluate(rows, world)
    BY DEF LoopAgrees
  <2>1. Keyed(rows) /\ IsFiniteSet(rows)
    BY RulesAreKeyed
  <2>2. Lists(loaded, rows)
    BY <2>1, InsertedLists, BackwardsLists
  <2> QED
    BY <2>1, <2>2, LoopComputesReference
<1> QED
  BY <1>1, AlwaysAgrees, PTL

----------------------------------------------------------------------------
(* What the action path takes for granted *)

Closed == {"dispatched", "delivered", "cancelled"}

LEMMA PlatformOnClosed ==
    ASSUME NEW world, world.status \in Closed, NEW b \in BaselineRules,
           MatchRule(b, world) = "match"
    PROVE  b.outcome \in {"refuse", "agent-only"}
<1> DEFINE last == StatusRule(4, 100, "in", "list", {"placed", "paid", "packed"}, "confirm-required")
<1>1. CASE b # last
  BY <1>1 DEF BaselineRules, StatusRule
<1>2. CASE b = last
  <2> DEFINE c == [field |-> "order.status", op |-> "in",
                   value |-> [shape |-> "list", texts |-> {"placed", "paid", "packed"}, number |-> 0]]
  <2>1. last.conditions = <<c>>
    BY DEF StatusRule
  <2>2. b.conditions \in Seq(Condition)
    BY BaselineRulesAreRules DEF RuleRow
  <2>3. ConditionVerdict(c, world) = "match"
    <3> HIDE DEF c, last
    <3>1. 1 \in DOMAIN b.conditions /\ b.conditions[1] = c
      BY <1>2, <2>1
    <3> QED
      BY <2>2, <3>1, VerdictOfRule
  <2>4. Holds(c, world)
    BY <2>3 DEF ConditionVerdict
  <2>5. world.status \in {"placed", "paid", "packed"}
    BY <2>4 DEF Holds, EnumFields, CompareText, ResolveText
  <2> QED
    BY <2>5 DEF Closed
<1> QED
  BY <1>1, <1>2

(* Without the status of the order the platform's first rule cannot be evaluated. *)
LEMMA PlatformNeedsStatus ==
    ASSUME NEW world, ~Knows(world, "order.status")
    PROVE  \E b \in BaselineRules : b.active /\ MatchRule(b, world) = "incomplete"
<1> DEFINE c == [field |-> "order.status", op |-> "eq",
                 value |-> [shape |-> "text", texts |-> {"cancelled"}, number |-> 0]]
           b == StatusRule(1, 10, "eq", "text", {"cancelled"}, "refuse")
<1>1. b \in BaselineRules /\ b.active /\ b.outcome = "refuse" /\ b.conditions = <<c>>
  BY DEF BaselineRules, StatusRule
<1>2. ConditionVerdict(c, world) = "incomplete"
  BY DEF ConditionVerdict, ConditionFields, EnumFields, Operators
<1> HIDE DEF b, c
<1>3. DOMAIN b.conditions = {1} /\ b.conditions[1] = c
  BY <1>1
<1>4. b.conditions \in Seq(Condition)
  BY <1>1, BaselineRulesAreRules DEF RuleRow
<1>5. Restrictiveness(b.outcome) # -1
  BY <1>1 DEF Restrictiveness
<1>6. MatchRule(b, world) = "incomplete"
  BY <1>2, <1>3, <1>4, <1>5, VerdictOfRule
<1> QED
  BY <1>1, <1>6

(* Whatever admins have written, in whatever order the rules are loaded and whatever
   of the facts is known, an order that has left the warehouse or was cancelled is
   never offered for confirmation. RuleSetsAssumption of ActionRepo says it of a
   cancelled order. *)
ClosedOrdersNotOffered ==
    \A loaded, world :
        Lists(loaded, rule) /\ world.status \in Closed =>
            EvaluateLoop(loaded, world).outcome \in {"agent-only", "refuse"}

THEOREM ClosedOrdersStayClosed == Spec => []ClosedOrdersNotOffered
<1>1. ASSUME PolicyInv, NEW loaded, NEW world, Lists(loaded, rule), world.status \in Closed
      PROVE  EvaluateLoop(loaded, world).outcome \in {"agent-only", "refuse"}
  <2> DEFINE d == Evaluate(rule, world)
             top == Strictest(Matches(rule, world))
  <2>1. BaselineRules \subseteq rule /\ rule \subseteq RuleRow
    BY <1>1 DEF PolicyInv, RulesAgree, RuleAgrees
  <2>2. Keyed(rule)
    BY <1>1, RulesAreKeyed
  <2>3. EvaluateLoop(loaded, world) = d
    BY <1>1, <2>2, LoopComputesReference
  <2>4. d.outcome \in {"agent-only", "refuse"}
    <3>1. CASE Unevaluable(rule, world) # {}
      <4>1. d.outcome = "agent-only"
        BY <3>1, OutcomeOf
      <4> QED
        BY <4>1
    <3>2. CASE Unevaluable(rule, world) = {}
      <4>1. Knows(world, "order.status")
        BY <2>1, <3>2, PlatformNeedsStatus DEF Unevaluable
      <4>2. PICK b \in BaselineRules : MatchRule(b, world) = "match"
        BY <1>1, <4>1, BaselineMatches DEF Closed, OrderStatus
      <4>3. b \in Matches(rule, world)
        BY <2>1, <4>2, BaselineRulesAreRules DEF Matches
      <4>4. b.outcome \in {"refuse", "agent-only"}
        BY <1>1, <4>2, PlatformOnClosed
      <4>5. \A r \in Matches(rule, world) : r.outcome \in OutcomeLadder
        BY <2>1, VerdictOfRule, OnLadder DEF Matches, RuleRow
      <4>6. top \in OutcomeLadder /\ Restrictiveness(b.outcome) <= Restrictiveness(top)
        BY <4>3, <4>5, StrictestIsThere
      <4>7. d.outcome = Clamp(top)
        BY <3>2, <4>3, OutcomeOf
      <4> HIDE DEF d, top
      <4> QED
        BY <4>4, <4>6, <4>7 DEF Clamp, OutcomeLadder, Restrictiveness
    <3> QED
      BY <3>1, <3>2
  <2> QED
    BY <2>3, <2>4
<1>2. PolicyInv => ClosedOrdersNotOffered
  BY <1>1 DEF ClosedOrdersNotOffered
<1> QED
  BY <1>2, AlwaysAgrees, PTL
=============================================================================
