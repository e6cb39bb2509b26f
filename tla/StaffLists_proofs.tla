------------------------- MODULE StaffLists_proofs -------------------------
(* Theorems about the lists of staff, for any rows, dates, filters and readers, and
   pages of any size. *)
EXTENDS StaffListsInv, FiniteSetTheorems, FunctionTheorems, SequenceTheorems, TLAPS

----------------------------------------------------------------------------
(* The order of a list *)

LEMMA PrecedesIsStrict ==
  ASSUME NEW k, NEW l, NEW j, k.at \in Int, l.at \in Int, j.at \in Int,
         k.id \in Int, l.id \in Int, j.id \in Int
  PROVE  /\ ~Precedes(k, k)
         /\ Precedes(k, l) /\ Precedes(l, j) => Precedes(k, j)
         /\ Precedes(k, l) => ~Precedes(l, k)
         /\ Precedes(k, l) \/ Precedes(l, k) \/ (k.at = l.at /\ k.id = l.id)
  BY DEF Precedes

LEMMA RowIdsAreNumbers == \A i \in RowId : i \in Nat /\ i \in Int
  BY ListBounds

LEMMA StoredHaveKeys ==
  ASSUME TypeOK, NEW i \in Stored
  PROVE  /\ i \in RowId /\ i \in Nat /\ row[i] \in RowOf(list) /\ row[i].at \in Nat
         /\ Key(i).at = row[i].at /\ Key(i).id = i /\ Key(i) \in Cursor /\ Key(i) # NoCursor
  <1>1. i \in RowId /\ row[i] \in RowOf(list)
    BY DEF Stored, TypeOK
  <1>2. row[i].at \in Nat
    BY <1>1 DEF RowOf, Attempt, QueuedTicket
  <1>3. i \in Nat
    BY <1>1, ListBounds
  <1>4. Key(i) = [at |-> row[i].at, id |-> i]
    BY DEF Key
  <1>5. Key(i) # NoCursor
    BY <1>3, <1>4 DEF NoCursor
  <1>6. QED
    BY <1>1, <1>2, <1>3, <1>4, <1>5 DEF Cursor

(* Two rows of a list are never in the same place. *)
LEMMA RowsAreOrdered ==
  ASSUME TypeOK, NEW i \in Stored, NEW j \in Stored
  PROVE  /\ i # j => Precedes(Key(i), Key(j)) \/ Precedes(Key(j), Key(i))
         /\ ~Precedes(Key(i), Key(i))
         /\ Precedes(Key(i), Key(j)) => ~Precedes(Key(j), Key(i))
         /\ \A k \in Stored : Precedes(Key(i), Key(j)) /\ Precedes(Key(j), Key(k))
              => Precedes(Key(i), Key(k))
  <1>1. \A k \in Stored : Key(k).at \in Int /\ Key(k).id \in Int /\ Key(k).id = k
    BY StoredHaveKeys
  <1>2. \A k \in Stored : Precedes(Key(i), Key(j)) /\ Precedes(Key(j), Key(k))
              => Precedes(Key(i), Key(k))
    BY <1>1, PrecedesIsStrict
  <1>3. QED
    BY <1>1, <1>2, PrecedesIsStrict

----------------------------------------------------------------------------
(* A listing *)

Enumerates(rows, S) ==
    /\ rows \in [1..Cardinality(S) -> S]
    /\ \A m, n \in 1..Cardinality(S) : m < n => Precedes(Key(rows[m]), Key(rows[n]))

Earlier(S, i) == {j \in S : Precedes(Key(j), Key(i))}

(* A row's place: how many rows come before it, and one. *)
Place(S) == [i \in S |-> Cardinality(Earlier(S, i)) + 1]

LEMMA PlaceIsMonotone ==
  ASSUME TypeOK, NEW S \in SUBSET Stored, IsFiniteSet(S)
  PROVE  /\ Place(S) \in [S -> 1..Cardinality(S)]
         /\ \A i, j \in S : Precedes(Key(i), Key(j)) => Place(S)[i] < Place(S)[j]
  <1>1. \A i \in S : /\ IsFiniteSet(Earlier(S, i)) /\ Cardinality(Earlier(S, i)) \in Nat
                     /\ Cardinality(Earlier(S, i)) + 1 \in 1..Cardinality(S)
    <2> TAKE i \in S
    <2>1. IsFiniteSet(S \ {i}) /\ Cardinality(S \ {i}) = Cardinality(S) - 1
      BY FS_RemoveElement
    <2>2. Earlier(S, i) \in SUBSET (S \ {i})
      BY RowsAreOrdered DEF Earlier
    <2>3. IsFiniteSet(Earlier(S, i)) /\ Cardinality(Earlier(S, i)) <= Cardinality(S \ {i})
      BY <2>1, <2>2, FS_Subset
    <2>4. Cardinality(Earlier(S, i)) \in Nat /\ Cardinality(S) \in Nat
      BY <2>3, FS_CardinalityType
    <2>5. QED
      BY <2>1, <2>3, <2>4
  <1>2. ASSUME NEW i \in S, NEW j \in S, Precedes(Key(i), Key(j))
        PROVE  Place(S)[i] < Place(S)[j]
    <2>1. Earlier(S, i) \in SUBSET Earlier(S, j)
      BY <1>2, RowsAreOrdered DEF Earlier
    <2>2. i \in Earlier(S, j) /\ i \notin Earlier(S, i)
      BY <1>2, RowsAreOrdered DEF Earlier
    <2>3. /\ Cardinality(Earlier(S, i)) <= Cardinality(Earlier(S, j))
          /\ Cardinality(Earlier(S, i)) # Cardinality(Earlier(S, j))
      BY <1>1, <2>1, <2>2, FS_Subset
    <2>4. QED
      BY <1>1, <2>3 DEF Place
  <1>3. QED
    BY <1>1, <1>2 DEF Place

LEMMA ListingExists ==
  ASSUME TypeOK, NEW S \in SUBSET Stored, IsFiniteSet(S)
  PROVE  \E rows \in [1..Cardinality(S) -> S] : Enumerates(rows, S)
  <1> DEFINE place == Place(S)
             rows  == [n \in 1..Cardinality(S) |-> CHOOSE i \in S : place[i] = n]
  <1>1. /\ place \in [S -> 1..Cardinality(S)]
        /\ \A i, j \in S : Precedes(Key(i), Key(j)) => place[i] < place[j]
    BY PlaceIsMonotone
  <1>2. Cardinality(S) \in Nat
    BY FS_CardinalityType
  <1> HIDE DEF place
  <1>3. \A i, j \in S : place[i] = place[j] => i = j
    <2> SUFFICES ASSUME NEW i \in S, NEW j \in S, place[i] = place[j], i # j PROVE FALSE
      OBVIOUS
    <2>1. Precedes(Key(i), Key(j)) \/ Precedes(Key(j), Key(i))
      BY RowsAreOrdered
    <2>2. place[i] \in Int /\ place[j] \in Int
      BY <1>1, <1>2
    <2>3. QED
      BY <1>1, <2>1, <2>2
  <1>4. place \in Injection(S, 1..Cardinality(S))
    BY <1>1, <1>3, Fun_IsInj
  <1>5. IsFiniteSet(1..Cardinality(S)) /\ Cardinality(1..Cardinality(S)) = Cardinality(S)
    BY <1>2, FS_Interval
  <1>6. place \in Surjection(S, 1..Cardinality(S))
    BY <1>4, <1>5, FS_Injection
  <1>7. \A n \in 1..Cardinality(S) : rows[n] \in S /\ place[rows[n]] = n
    <2> TAKE n \in 1..Cardinality(S)
    <2>1. \E i \in S : place[i] = n
      BY <1>6 DEF Surjection
    <2>2. QED
      BY <2>1
  <1>8. rows \in [1..Cardinality(S) -> S]
    BY <1>7
  <1>9. ASSUME NEW m \in 1..Cardinality(S), NEW n \in 1..Cardinality(S), m < n
        PROVE  Precedes(Key(rows[m]), Key(rows[n]))
    <2> HIDE DEF rows
    <2>1. rows[m] \in S /\ rows[n] \in S /\ place[rows[m]] = m /\ place[rows[n]] = n
      BY <1>7
    <2>2. ~Precedes(Key(rows[n]), Key(rows[m]))
      BY <1>1, <1>2, <1>9, <2>1
    <2>3. rows[m] # rows[n]
      BY <1>2, <1>9, <2>1
    <2>4. QED
      BY <2>1, <2>2, <2>3, RowsAreOrdered
  <1>10. Enumerates(rows, S)
    <2> HIDE DEF rows
    <2> QED
      BY <1>8, <1>9 DEF Enumerates
  <1> HIDE DEF rows
  <1> QED
    BY <1>8, <1>10

LEMMA ListingIsComplete ==
  ASSUME TypeOK, NEW S \in SUBSET Stored, IsFiniteSet(S)
  PROVE  /\ Enumerates(Listing(S), S)
         /\ \A i \in S : \E n \in 1..Cardinality(S) : Listing(S)[n] = i
  <1> DEFINE rows == Listing(S)
  <1>1. Enumerates(rows, S)
    BY ListingExists DEF Enumerates, Listing
  <1>2. Cardinality(S) \in Nat
    BY FS_CardinalityType
  <1> HIDE DEF rows
  <1>3. rows \in [1..Cardinality(S) -> S]
    BY <1>1 DEF Enumerates
  <1>4. \A m, n \in 1..Cardinality(S) : rows[m] = rows[n] => m = n
    <2> SUFFICES ASSUME NEW m \in 1..Cardinality(S), NEW n \in 1..Cardinality(S),
                        rows[m] = rows[n], m < n
                 PROVE  FALSE
      BY <1>2
    <2>1. Precedes(Key(rows[m]), Key(rows[n]))
      BY <1>1 DEF Enumerates
    <2>2. QED
      BY <1>3, <2>1, RowsAreOrdered
  <1>5. rows \in Injection(1..Cardinality(S), S)
    BY <1>3, <1>4, Fun_IsInj
  <1>6. Cardinality(1..Cardinality(S)) = Cardinality(S)
    BY <1>2, FS_Interval
  <1>7. rows \in Surjection(1..Cardinality(S), S)
    BY <1>5, <1>6, FS_Injection
  <1>8. \A i \in S : \E n \in 1..Cardinality(S) : rows[n] = i
    BY <1>7 DEF Surjection
  <1> QED
    BY <1>1, <1>8 DEF rows

----------------------------------------------------------------------------
(* A page of a listing *)

Smaller(m, n) == IF m > n THEN n ELSE m

LEMMA AtMostProperties ==
  ASSUME NEW S, NEW rows \in Seq(S), NEW size \in Nat
  PROVE  /\ AtMost(size, rows) \in Seq(S)
         /\ Len(AtMost(size, rows)) = Smaller(Len(rows), size)
         /\ \A n \in 1..Smaller(Len(rows), size) : AtMost(size, rows)[n] = rows[n]
  <1> DEFINE end == Smaller(Len(rows), size)
  <1>1. Len(rows) \in Nat /\ \A n \in 1..Len(rows) : rows[n] \in S
    BY LenProperties, ElementOfSeq
  <1>2. end \in Nat /\ end <= Len(rows) /\ AtMost(size, rows) = SubSeq(rows, 1, end)
    BY <1>1 DEF AtMost, Smaller
  <1> HIDE DEF end
  <1>3. \A n \in 1..end : rows[n] \in S
    BY <1>1, <1>2
  <1>4. /\ SubSeq(rows, 1, end) \in Seq(S)
        /\ Len(SubSeq(rows, 1, end)) = IF 1 <= end THEN end - 1 + 1 ELSE 0
        /\ \A n \in 1..end - 1 + 1 : SubSeq(rows, 1, end)[n] = rows[1 + n - 1]
    BY <1>2, <1>3, SubSeqProperties
  <1>5. Len(AtMost(size, rows)) = end /\ \A n \in 1..end : AtMost(size, rows)[n] = rows[n]
    BY <1>2, <1>4
  <1> QED
    BY <1>2, <1>4, <1>5 DEF end

LEMMA PageOfListing ==
  ASSUME NEW S, NEW rows \in Seq(S), NEW limit \in Nat \ {0}
  PROVE  /\ AtMost(limit, AtMost(limit + 1, rows)) \in Seq(S)
         /\ Len(AtMost(limit, AtMost(limit + 1, rows))) = Smaller(Len(rows), limit)
         /\ \A n \in 1..Smaller(Len(rows), limit) : AtMost(limit, AtMost(limit + 1, rows))[n] = rows[n]
         /\ Len(AtMost(limit + 1, rows)) > limit <=> Len(rows) > limit
         /\ Len(rows) > limit => AtMost(limit + 1, rows)[limit] = rows[limit]
  <1> DEFINE found == AtMost(limit + 1, rows)
  <1>1. Len(rows) \in Nat
    BY LenProperties
  <1>2. /\ found \in Seq(S) /\ Len(found) = Smaller(Len(rows), limit + 1)
        /\ \A n \in 1..Smaller(Len(rows), limit + 1) : found[n] = rows[n]
    <2> DEFINE size == limit + 1
    <2>1. size \in Nat
      OBVIOUS
    <2> HIDE DEF size
    <2>2. /\ AtMost(size, rows) \in Seq(S) /\ Len(AtMost(size, rows)) = Smaller(Len(rows), size)
          /\ \A n \in 1..Smaller(Len(rows), size) : AtMost(size, rows)[n] = rows[n]
      BY <2>1, AtMostProperties
    <2>3. QED
      BY <2>2 DEF size
  <1> HIDE DEF found
  <1>3. /\ AtMost(limit, found) \in Seq(S) /\ Len(AtMost(limit, found)) = Smaller(Len(found), limit)
        /\ \A n \in 1..Smaller(Len(found), limit) : AtMost(limit, found)[n] = found[n]
    BY <1>2, AtMostProperties
  <1>4. Smaller(Len(found), limit) = Smaller(Len(rows), limit)
    BY <1>1, <1>2 DEF Smaller
  <1>5. \A n \in 1..Smaller(Len(rows), limit) : n \in 1..Smaller(Len(rows), limit + 1)
    BY <1>1 DEF Smaller
  <1>6. Len(found) > limit <=> Len(rows) > limit
    BY <1>1, <1>2 DEF Smaller
  <1>7. Len(rows) > limit => found[limit] = rows[limit]
    <2>1. Len(rows) > limit => limit \in 1..Smaller(Len(rows), limit + 1)
      BY <1>1 DEF Smaller
    <2>2. QED
      BY <1>2, <2>1
  <1> QED
    BY <1>2, <1>3, <1>4, <1>5, <1>6, <1>7 DEF found

----------------------------------------------------------------------------
(* What is answered *)

Selected(query, before) == {i \in Stored : Matches(query, i) /\ After(before, i)}

Limit(query) == IF list = "audit" THEN LimitOf(query) ELSE DefaultLimit

LEMMA LimitIsPositive ==
  ASSUME NEW query, ~Refused(query)
  PROVE  Limit(query) \in Nat \ {0}
  BY PageLimits DEF Limit, LimitOf, Refused, Accepted

(* An answer, by the rows there are from its cursor on. *)
Answers(ans, rows, query, before) ==
    /\ rows \in Seq(Selected(query, before)) /\ Len(rows) \in Nat
    /\ \A m, n \in 1..Len(rows) : m < n => Precedes(Key(rows[m]), Key(rows[n]))
    /\ \A i \in Selected(query, before) : \E n \in 1..Len(rows) : rows[n] = i
    /\ ans = [entries |-> [n \in 1..Smaller(Len(rows), Limit(query)) |-> Entry(rows[n])],
              next |-> IF Len(rows) > Limit(query) THEN Key(rows[Limit(query)]) ELSE NoCursor,
              limit |-> Limit(query)]

LEMMA AnswerAnswers ==
  ASSUME TypeOK, NEW query, NEW before, ~Refused(query)
  PROVE  \E rows : Answers(Answer(query, before), rows, query, before)
  <1> DEFINE S    == Selected(query, before)
             rows == Listing(S)
             limit == Limit(query)
             size  == Smaller(Len(rows), limit)
             found == AtMost(limit + 1, rows)
             shown == AtMost(limit, found)
             ans   == Answer(query, before)
  <1>1. S \in SUBSET Stored /\ IsFiniteSet(S)
    <2>1. S \in SUBSET RowId
      BY DEF Selected, Stored
    <2>2. QED
      BY <2>1, ListBounds, FS_Subset DEF Selected
  <1>2. Enumerates(rows, S) /\ \A i \in S : \E n \in 1..Cardinality(S) : rows[n] = i
    BY <1>1, ListingIsComplete
  <1>3. Cardinality(S) \in Nat
    BY <1>1, FS_CardinalityType
  <1>4. rows \in Seq(S) /\ Len(rows) = Cardinality(S)
    <2> HIDE DEF rows, S
    <2>1. rows \in [1..Cardinality(S) -> S]
      BY <1>2 DEF Enumerates
    <2>2. rows \in Seq(S)
      BY <1>3, <2>1, SeqDef
    <2>3. QED
      BY <1>3, <2>1, <2>2, LenProperties
  <1>5. limit \in Nat \ {0}
    BY LimitIsPositive
  <1>6. ans = [entries |-> [n \in DOMAIN shown |-> Entry(shown[n])],
               next |-> NextCursor(found, limit), limit |-> limit]
    BY DEF Answer, Selected, Limit
  <1> HIDE DEF rows, S, limit
  <1>7. /\ shown \in Seq(S) /\ Len(shown) = size
        /\ \A n \in 1..size : shown[n] = rows[n]
        /\ Len(found) > limit <=> Len(rows) > limit
        /\ Len(rows) > limit => found[limit] = rows[limit]
    BY <1>4, <1>5, PageOfListing
  <1> HIDE DEF shown, found, ans
  <1>8. DOMAIN shown = 1..size
    BY <1>7, LenProperties
  <1>9. [n \in DOMAIN shown |-> Entry(shown[n])] = [n \in 1..size |-> Entry(rows[n])]
    <2> HIDE DEF size
    <2>1. \A n \in 1..size : Entry(shown[n]) = Entry(rows[n])
      BY <1>7
    <2>2. QED
      BY <1>8, <2>1
  <1>10. NextCursor(found, limit) = IF Len(rows) > limit THEN Key(rows[limit]) ELSE NoCursor
    BY <1>7 DEF NextCursor
  <1>11. \A m, n \in 1..Len(rows) : m < n => Precedes(Key(rows[m]), Key(rows[n]))
    BY <1>2, <1>4 DEF Enumerates
  <1>12. Len(rows) \in Nat /\ \A i \in S : \E n \in 1..Len(rows) : rows[n] = i
    BY <1>2, <1>3, <1>4
  <1>13. ans = [entries |-> [n \in 1..size |-> Entry(rows[n])],
                next |-> IF Len(rows) > limit THEN Key(rows[limit]) ELSE NoCursor,
                limit |-> limit]
    BY <1>6, <1>9, <1>10
  <1>14. Answers(ans, rows, query, before)
    BY <1>4, <1>11, <1>12, <1>13 DEF Answers, S, limit
  <1> QED
    BY <1>14 DEF ans

(* What is listed of a row says where it is and what it is. *)
LEMMA EntryOfRow ==
  ASSUME TypeOK, NEW i \in Stored
  PROVE  /\ Entry(i) \in ListEntry
         /\ Entry(i).id = i /\ Entry(i).at = Key(i).at /\ Key(i).id = i
  <1>1. /\ i \in RowId /\ row[i] \in RowOf(list) /\ row[i].at \in Nat
        /\ Key(i).at = row[i].at /\ Key(i).id = i
    BY StoredHaveKeys
  <1>2. CASE list = "audit"
    <2>1. row[i] \in Attempt
      BY <1>1, <1>2 DEF RowOf
    <2>2. KindOf(row[i]) \in AttemptKinds /\ row[i].customer \in Customer
      BY <2>1 DEF Attempt, KindOf, AttemptKinds, Outcomes
    <2>3. Entry(i) = [id |-> i, at |-> row[i].at, label |-> KindOf(row[i]),
                      customer |-> row[i].customer]
      BY <1>2 DEF Entry, AuditEntry
    <2>4. QED
      BY <1>1, <2>2, <2>3 DEF ListEntry
  <1>3. CASE list = "queue"
    <2>1. row[i].status \in TicketStatus
      BY <1>1, <1>3 DEF RowOf, QueuedTicket
    <2>2. Entry(i) = [id |-> i, at |-> row[i].at, label |-> row[i].status, customer |-> "none"]
      BY <1>3 DEF Entry, TicketEntry
    <2>3. QED
      BY <1>1, <2>1, <2>2 DEF ListEntry
  <1>4. QED
    BY <1>2, <1>3 DEF TypeOK

(* The pipeline filters by the kind that the entry is then labelled with. *)
LEMMA FilteredAsLabelled ==
  ASSUME NEW attempt
  PROVE  FilteredKind(attempt) = KindOf(attempt)
  BY DEF FilteredKind, KindOf

LEMMA ListedIfMatching ==
  ASSUME TypeOK, NEW query, ~Refused(query), NEW i \in Stored, Matches(query, i)
  PROVE  AskedFor(query, Entry(i))
  <1>1. CASE list = "audit"
    <2> DEFINE attempt == row[i]
               entry   == Entry(i)
    <2>1. Accepted(query) /\ AttemptMatches(query, attempt)
      BY <1>1 DEF Refused, Matches
    <2>2. entry.at = attempt.at /\ entry.label = KindOf(attempt) /\ entry.customer = attempt.customer
      BY <1>1 DEF Entry, AuditEntry
    <2> HIDE DEF attempt, entry
    <2>3. entry.label \in KindsOf(query)
      BY <2>1, <2>2, FilteredAsLabelled DEF AttemptMatches
    <2>4. /\ Gives(query, "kind") => entry.label \in query.kind
          /\ Gives(query, "preset") => entry.label \in StoppedKinds
      BY <2>1, <2>3 DEF Accepted, KindsOf, Gives
    <2>5. /\ Gives(query, "customerId") => entry.customer = query.customerId
          /\ Gives(query, "from") => entry.at >= query.from
          /\ Gives(query, "to") => entry.at <= query.to
      BY <2>1, <2>2 DEF AttemptMatches
    <2>6. DOMAIN query \subseteq AllowedParams
      BY <2>1 DEF Accepted
    <2>7. AskedFor(query, entry)
      BY <1>1, <2>4, <2>5, <2>6 DEF AskedFor
    <2> QED
      BY <2>7 DEF entry
  <1>2. CASE list = "queue"
    <2>1. TicketMatches(query, row[i])
      BY <1>2 DEF Matches
    <2>2. Entry(i).label = row[i].status
      BY <1>2 DEF Entry, TicketEntry
    <2>3. TicketMatches(query, [status |-> Entry(i).label])
      BY <2>1, <2>2 DEF TicketMatches
    <2>4. QED
      BY <1>2, <2>3 DEF AskedFor
  <1>3. QED
    BY <1>1, <1>2 DEF TypeOK

(* An answer is a piece of the list: in order, from its cursor on, up to the next
   cursor, and without a gap. *)
LEMMA AnswerIsAPiece ==
  ASSUME TypeOK, NEW query, NEW before \in Cursor, ~Refused(query)
  PROVE  LET ans == Answer(query, before)
         IN  /\ ans \in PageAnswer
             /\ InOrder(ans.entries)
             /\ EndsAt(ans.entries, ans.next)
             /\ StartsAfter(ans.entries, before)
             /\ \A n \in DOMAIN ans.entries : AskedFor(query, ans.entries[n])
             /\ \A i \in Stored : Matches(query, i) /\ After(before, i) =>
                  IsListed(i, ans.entries) \/ StillToCome(i, ans.next)
  <1> DEFINE ans   == Answer(query, before)
             limit == Limit(query)
             S     == Selected(query, before)
  <1>1. PICK rows : Answers(ans, rows, query, before)
    BY AnswerAnswers
  <1> DEFINE size == Smaller(Len(rows), limit)
  <1>2. limit \in Nat \ {0}
    BY LimitIsPositive
  <1>3. S \in SUBSET Stored /\ \A i \in S : Matches(query, i) /\ After(before, i)
    BY DEF Selected
  <1> HIDE DEF ans, limit, S
  <1>4. /\ rows \in Seq(S) /\ Len(rows) \in Nat
        /\ \A m, n \in 1..Len(rows) : m < n => Precedes(Key(rows[m]), Key(rows[n]))
        /\ \A i \in S : \E n \in 1..Len(rows) : rows[n] = i
        /\ ans = [entries |-> [n \in 1..size |-> Entry(rows[n])],
                  next |-> IF Len(rows) > limit THEN Key(rows[limit]) ELSE NoCursor,
                  limit |-> limit]
    BY <1>1 DEF Answers, S, limit
  <1>5. \A n \in 1..Len(rows) : rows[n] \in S
    BY <1>4, ElementOfSeq
  <1>6. /\ size \in Nat /\ size <= Len(rows) /\ size <= limit
        /\ Len(rows) > limit => size = limit
        /\ Len(rows) <= limit => size = Len(rows)
    BY <1>2, <1>4 DEF Smaller
  <1> HIDE DEF size
  <1> DEFINE entries == ans.entries
  <1>7. /\ DOMAIN entries = 1..size
        /\ \A n \in 1..size : entries[n] = Entry(rows[n])
    BY <1>4
  <1>8. /\ ans.next = IF Len(rows) > limit THEN Key(rows[limit]) ELSE NoCursor
        /\ ans = [entries |-> entries, next |-> ans.next, limit |-> limit]
    BY <1>4
  <1> HIDE DEF entries
  <1>9. \A n \in 1..Len(rows) :
          /\ rows[n] \in Stored /\ Key(rows[n]) \in Cursor /\ Key(rows[n]) # NoCursor
          /\ Entry(rows[n]) \in ListEntry /\ Entry(rows[n]).id = rows[n]
          /\ Entry(rows[n]).at = Key(rows[n]).at /\ Key(rows[n]).id = rows[n]
    BY <1>3, <1>5, EntryOfRow, StoredHaveKeys
  <1>10. \A n \in 1..size : /\ n \in 1..Len(rows) /\ entries[n] \in ListEntry
                            /\ entries[n].at = Key(rows[n]).at /\ entries[n].id = rows[n]
                            /\ entries[n].id = Key(rows[n]).id
    BY <1>6, <1>7, <1>9
  <1>11. ans \in PageAnswer
    <2>1. entries \in Seq(ListEntry)
      <3>1. entries \in [1..size -> ListEntry]
        <4>1. entries = [n \in 1..size |-> Entry(rows[n])]
          BY <1>4 DEF entries
        <4>2. QED
          BY <1>7, <1>10, <4>1
      <3>2. QED
        BY <1>6, <3>1, SeqDef
    <2>2. ans.next \in Cursor
      <3>1. CASE Len(rows) > limit
        <4>1. limit \in 1..Len(rows)
          BY <1>2, <1>4, <3>1
        <4>2. QED
          BY <1>8, <1>9, <3>1, <4>1
      <3>2. CASE ~(Len(rows) > limit)
        BY <1>8, <3>2 DEF Cursor
      <3>3. QED
        BY <3>1, <3>2
    <2>3. QED
      BY <1>2, <1>8, <2>1, <2>2 DEF PageAnswer
  <1>12. InOrder(entries)
    <2>1. ASSUME NEW m \in 1..size, NEW n \in 1..size, m < n
          PROVE  Precedes(entries[m], entries[n])
      <3>1. Precedes(Key(rows[m]), Key(rows[n]))
        BY <1>4, <1>10, <2>1
      <3>2. QED
        BY <1>10, <3>1 DEF Precedes
    <2>2. QED
      BY <1>7, <2>1 DEF InOrder
  <1>13. EndsAt(entries, ans.next)
    <2> SUFFICES ASSUME ans.next # NoCursor
                 PROVE  /\ entries # <<>>
                        /\ \A n \in 1..size :
                             \/ entries[n].at = ans.next.at /\ entries[n].id = ans.next.id
                             \/ Precedes(entries[n], ans.next)
      BY <1>7 DEF EndsAt
    <2>1. Len(rows) > limit /\ ans.next = Key(rows[limit]) /\ size = limit
      BY <1>6, <1>8
    <2>2. entries # <<>>
      BY <1>2, <1>7, <2>1
    <2>3. ASSUME NEW n \in 1..size, n # limit
          PROVE  Precedes(entries[n], ans.next)
      <3>1. n \in 1..Len(rows) /\ limit \in 1..Len(rows) /\ n < limit
        BY <1>2, <1>4, <1>6, <2>1, <2>3
      <3>2. Precedes(Key(rows[n]), Key(rows[limit]))
        BY <1>4, <3>1
      <3>3. QED
        BY <1>10, <2>1, <3>2 DEF Precedes
    <2>4. QED
      BY <1>10, <2>1, <2>2, <2>3
  <1>14. StartsAfter(entries, before)
    <2> SUFFICES ASSUME before # NoCursor, NEW n \in 1..size
                 PROVE  Precedes(before, entries[n])
      BY <1>7 DEF StartsAfter
    <2>1. Precedes(before, Key(rows[n]))
      BY <1>3, <1>5, <1>10 DEF After
    <2>2. QED
      BY <1>10, <2>1 DEF Precedes
  <1>15. \A n \in DOMAIN entries : AskedFor(query, entries[n])
    BY <1>3, <1>5, <1>7, <1>10, ListedIfMatching
  <1>16. ASSUME NEW i \in Stored, Matches(query, i), After(before, i)
         PROVE  IsListed(i, entries) \/ StillToCome(i, ans.next)
    <2>1. i \in S
      BY <1>16 DEF S, Selected
    <2>2. PICK n \in 1..Len(rows) : rows[n] = i
      BY <1>4, <2>1
    <2>3. CASE n <= size
      <3>1. n \in 1..size
        BY <1>6, <2>3
      <3>2. QED
        BY <1>7, <1>10, <2>2, <3>1 DEF IsListed
    <2>4. CASE n > size
      <3>1. Len(rows) > limit /\ size = limit /\ limit \in 1..Len(rows) /\ limit < n
        BY <1>2, <1>4, <1>6, <2>4
      <3>2. ans.next = Key(rows[limit]) /\ ans.next # NoCursor
        BY <1>8, <1>9, <3>1
      <3>3. Precedes(Key(rows[limit]), Key(i))
        BY <1>4, <2>2, <3>1
      <3>4. QED
        BY <3>2, <3>3 DEF StillToCome
    <2>5. QED
      BY <1>6, <2>3, <2>4
  <1> QED
    BY <1>11, <1>12, <1>13, <1>14, <1>15, <1>16 DEF ans, entries

----------------------------------------------------------------------------
(* What the properties say of a piece depends on which list it is, and on nothing that
   changes. *)

LEMMA PiecesStay ==
  ASSUME list' = list
  PROVE  /\ \A k, l : Precedes(k, l)' <=> Precedes(k, l)
         /\ \A q : Refused(q)' <=> Refused(q)
         /\ \A s : InOrder(s)' <=> InOrder(s)
         /\ \A s, c : EndsAt(s, c)' <=> EndsAt(s, c)
         /\ \A s, c : StartsAfter(s, c)' <=> StartsAfter(s, c)
         /\ \A q, e : AskedFor(q, e)' <=> AskedFor(q, e)
         /\ \A r, c : IsAPieceOf(r, c)' <=> IsAPieceOf(r, c)
  <1>1. \A k, l : Precedes(k, l)' <=> Precedes(k, l)
    BY DEF Precedes
  <1>2. \A q : Refused(q)' <=> Refused(q)
    BY DEF Refused
  <1>3. \A s : InOrder(s)' <=> InOrder(s)
    BY <1>1 DEF InOrder
  <1>4. \A s, c : EndsAt(s, c)' <=> EndsAt(s, c)
    BY <1>1 DEF EndsAt
  <1>5. \A s, c : StartsAfter(s, c)' <=> StartsAfter(s, c)
    BY <1>1 DEF StartsAfter
  <1>6. \A q, e : AskedFor(q, e)' <=> AskedFor(q, e)
    BY DEF AskedFor
  <1>7. \A r, c : IsAPieceOf(r, c)' <=> IsAPieceOf(r, c)
    BY <1>3, <1>4, <1>5, <1>6 DEF IsAPieceOf
  <1>8. QED
    BY <1>1, <1>2, <1>3, <1>4, <1>5, <1>6, <1>7

----------------------------------------------------------------------------
(* What is listed changes: rows arrive, settle and move *)

(* No row goes, and none changes its date: an entry keeps its place. *)
RowsKept == \A i \in Stored : row'[i] # NoRow /\ row'[i].at = row[i].at

LEMMA RowsMove ==
  ASSUME IInv, TypeOK', RowsKept, UNCHANGED <<list, page, first, more>>,
         due' \subseteq due, \A i \in due' : Matches(page.query, i)'
  PROVE  IInv'
  <1>1. PageOfRequests' /\ PageIsOfAList'
    BY PiecesStay DEF IInv, PageOfRequests, PageIsOfAList
  <1>2. AnswersArePieces'
    BY PiecesStay DEF IInv, AnswersArePieces
  <1>3. ShownIsAPiece'
    BY PiecesStay DEF IInv, ShownIsAPiece
  <1>4. \A i \in due' : i \in due /\ i \in Stored /\ row'[i] # NoRow /\ Key(i)' = Key(i)
    <2> TAKE i \in due'
    <2>1. i \in due /\ i \in RowId /\ row[i] # NoRow
      BY DEF IInv, DueMatches, TypeOK
    <2>2. i \in Stored
      BY <2>1 DEF Stored
    <2>3. QED
      BY <2>1, <2>2 DEF RowsKept, Key
  <1>5. DueMatches'
    BY <1>4 DEF DueMatches
  <1>6. \A i \in due' : \A c : StillToCome(i, c)' <=> StillToCome(i, c)
    BY <1>4, PiecesStay DEF StillToCome
  <1>7. DueIsListed'
    BY <1>4, <1>6 DEF IInv, DueIsListed, IsListed
  <1>8. QED
    BY <1>1, <1>2, <1>3, <1>5, <1>7 DEF IInv

LEMMA RowArrivesKeeps ==
  ASSUME IInv, NEW i \in RowId, RowArrives(i)
  PROVE  /\ UNCHANGED <<list, now, page, first, more, events>> /\ RowsKept
         /\ row' \in [RowId -> {NoRow} \union RowOf(list)]
  <1>1. TypeOK
    BY DEF IInv
  <1>2. UNCHANGED <<list, now, page, first, more, events>> /\ row[i] = NoRow
    BY DEF RowArrives
  <1>3. PICK lag \in 0..MaxLag :
          lag <= now /\ \E r \in NewRow(now - lag) : row' = [row EXCEPT ![i] = r]
    BY DEF RowArrives
  <1>4. now - lag \in Nat
    BY <1>1, <1>3, ListBounds DEF TypeOK
  <1>5. PICK r \in NewRow(now - lag) : row' = [row EXCEPT ![i] = r]
    BY <1>3
  <1>6. r \in RowOf(list)
    BY <1>4, <1>5 DEF NewRow, RowOf, Attempt, QueuedTicket, TicketStatus
  <1>7. QED
    BY <1>1, <1>2, <1>5, <1>6 DEF RowsKept, Stored, TypeOK

LEMMA AttemptSettlesKeeps ==
  ASSUME IInv, NEW i \in RowId, AttemptSettles(i)
  PROVE  /\ UNCHANGED <<list, now, page, first, more>> /\ RowsKept /\ events' \in Nat
         /\ row' \in [RowId -> {NoRow} \union RowOf(list)]
  <1>1. TypeOK
    BY DEF IInv
  <1>2. /\ UNCHANGED <<list, now, page, first, more>> /\ events' = events + 1
        /\ list = "audit" /\ row[i] # NoRow
    BY DEF AttemptSettles, Event
  <1>3. PICK o \in {"refused_at_execution", "executed"} : row' = [row EXCEPT ![i].outcome = o]
    BY DEF AttemptSettles
  <1>4. row[i] \in Attempt
    BY <1>1, <1>2 DEF TypeOK, RowOf
  <1>5. [row[i] EXCEPT !.outcome = o] \in Attempt /\ [row[i] EXCEPT !.outcome = o].at = row[i].at
    BY <1>4 DEF Attempt
  <1>6. row' = [row EXCEPT ![i] = [row[i] EXCEPT !.outcome = o]]
    BY <1>3
  <1>7. [row[i] EXCEPT !.outcome = o] # NoRow
    BY <1>5 DEF Attempt, NoRow
  <1>8. row' \in [RowId -> {NoRow} \union RowOf(list)]
    BY <1>1, <1>2, <1>5, <1>6 DEF TypeOK, RowOf
  <1>9. RowsKept
    BY <1>1, <1>5, <1>6, <1>7 DEF RowsKept, Stored, TypeOK
  <1>10. QED
    BY <1>1, <1>2, <1>8, <1>9 DEF TypeOK

LEMMA TicketMovesKeeps ==
  ASSUME IInv, NEW i \in RowId, TicketMoves(i)
  PROVE  /\ UNCHANGED <<list, now, page, first, more>> /\ RowsKept /\ events' \in Nat
         /\ row' \in [RowId -> {NoRow} \union RowOf(list)]
  <1>1. TypeOK
    BY DEF IInv
  <1>2. /\ UNCHANGED <<list, now, page, first, more>> /\ events' = events + 1
        /\ list = "queue" /\ row[i] # NoRow
    BY DEF TicketMoves, Event
  <1>3. PICK to \in TicketStatus : row' = [row EXCEPT ![i].status = to]
    BY DEF TicketMoves
  <1>4. row[i] \in QueuedTicket
    BY <1>1, <1>2 DEF TypeOK, RowOf
  <1>5. [row[i] EXCEPT !.status = to] \in QueuedTicket /\ [row[i] EXCEPT !.status = to].at = row[i].at
    BY <1>4 DEF QueuedTicket
  <1>6. row' = [row EXCEPT ![i] = [row[i] EXCEPT !.status = to]]
    BY <1>3
  <1>7. [row[i] EXCEPT !.status = to] # NoRow
    BY <1>5 DEF QueuedTicket, NoRow
  <1>8. row' \in [RowId -> {NoRow} \union RowOf(list)]
    BY <1>1, <1>2, <1>5, <1>6 DEF TypeOK, RowOf
  <1>9. RowsKept
    BY <1>1, <1>5, <1>6, <1>7 DEF RowsKept, Stored, TypeOK
  <1>10. QED
    BY <1>1, <1>2, <1>8, <1>9 DEF TypeOK

LEMMA OthersInv == IInv /\ Others => IInv'
  <1> SUFFICES ASSUME IInv, Others PROVE IInv'
    OBVIOUS
  <1>1. TypeOK /\ DueMatches
    BY DEF IInv
  <1>2. CASE Tick
    <2>1. UNCHANGED <<list, row, page, first, more, due, events>> /\ now' = now + 1
      BY <1>2 DEF Tick
    <2>2. TypeOK' /\ RowsKept
      BY <1>1, <2>1 DEF TypeOK, RowsKept, Stored
    <2>3. \A i \in due' : Matches(page.query, i)'
      BY <1>1, <2>1 DEF DueMatches, Matches
    <2>4. QED
      BY <2>1, <2>2, <2>3, RowsMove
  <1>3. CASE ~Tick
    <2>1. PICK i \in RowId : RowArrives(i) \/ AttemptSettles(i) \/ TicketMoves(i)
      BY <1>3 DEF Others
    <2>2. due' = {j \in due : Matches(page.query, j)'}
      BY <1>3 DEF Others
    <2>3. /\ UNCHANGED <<list, now, page, first, more>> /\ RowsKept /\ events' \in Nat
          /\ row' \in [RowId -> {NoRow} \union RowOf(list)]
      BY <1>1, <2>1, RowArrivesKeeps, AttemptSettlesKeeps, TicketMovesKeeps DEF TypeOK
    <2>4. RowOf(list)' = RowOf(list)
      BY <2>3
    <2>5. TypeOK'
      BY <1>1, <2>2, <2>3, <2>4 DEF TypeOK
    <2>6. QED
      BY <2>2, <2>3, <2>5, RowsMove
  <1>4. QED
    BY <1>2, <1>3

----------------------------------------------------------------------------
(* What the reader asks for *)

LEMMA NoRequestType == NoRequest \in Request /\ NoRequest.pc = "none" /\ NoAnswer \in PageAnswer
  <1>1. NoAnswer \in PageAnswer
    BY DEF NoAnswer, PageAnswer, Cursor
  <1>2. QED
    BY <1>1 DEF NoRequest, Request, Question, Cursor

LEMMA AskIs ==
  ASSUME NEW query \in Question, NEW before \in Cursor, NEW of \in Nat
  PROVE  /\ Ask(query, before, of) \in Request /\ Ask(query, before, of) # NoRequest
         /\ Ask(query, before, of).pc = "asked" /\ Ask(query, before, of).query = query
         /\ Ask(query, before, of).before = before /\ Ask(query, before, of).of = of
  BY NoRequestType DEF Ask, Request, NoRequest

LEMMA InitInv == Init => IInv
  <1> SUFFICES ASSUME Init PROVE IInv
    OBVIOUS
  <1>1. TypeOK
    <2>1. row \in [RowId -> {NoRow} \union RowOf(list)]
      BY DEF Init
    <2>2. page \in [query : Question, shown : Seq(ListEntry), next : Cursor, loading : BOOLEAN,
                    loadingMore : BOOLEAN, error : BOOLEAN, mixed : BOOLEAN, opened : Nat]
      BY DEF Init, Question, Cursor
    <2>3. QED
      BY <2>1, <2>2, NoRequestType DEF Init, TypeOK
  <1>2. PageOfRequests /\ PageIsOfAList
    BY NoRequestType DEF Init, PageOfRequests, PageIsOfAList
  <1>3. AnswersArePieces /\ DueMatches /\ DueIsListed
    BY NoRequestType DEF Init, AnswersArePieces, IsAPieceOf, DueMatches, DueIsListed
  <1>4. ShownIsAPiece
    BY DEF Init, ShownIsAPiece, InOrder, EndsAt
  <1>5. QED
    BY <1>1, <1>2, <1>3, <1>4 DEF IInv

LEMMA OpenInv ==
  ASSUME IInv, NEW query \in Query, Open(query)
  PROVE  IInv'
  <1>1. /\ TypeOK /\ PageOfRequests /\ PageIsOfAList /\ AnswersArePieces /\ ShownIsAPiece
    BY DEF IInv
  <1>2. /\ page' = [page EXCEPT !.query = query, !.loading = TRUE, !.error = FALSE,
                                !.opened = page.opened + 1]
        /\ first' = Ask(query, NoCursor, page.opened + 1) /\ due' = {}
        /\ list = "audit" => page.opened = 0
        /\ UNCHANGED <<list, now, row, more, events>>
    BY DEF Open
  <1>3. query \in Question /\ page.opened \in Nat /\ NoCursor \in Cursor
    BY <1>1 DEF Query, Question, TypeOK, Cursor
  <1>4. /\ page'.query = query /\ page'.loading = TRUE /\ page'.error = FALSE
        /\ page'.opened = page.opened + 1 /\ page'.shown = page.shown /\ page'.next = page.next
        /\ page'.loadingMore = page.loadingMore /\ page'.mixed = page.mixed
    BY <1>1, <1>2 DEF TypeOK
  <1>5. first' \in Request /\ first' # NoRequest /\ first'.pc = "asked" /\ first'.query = query
    <2> DEFINE of == page.opened + 1
    <2>1. of \in Nat
      BY <1>3
    <2> HIDE DEF of
    <2>2. /\ Ask(query, NoCursor, of) \in Request /\ Ask(query, NoCursor, of) # NoRequest
          /\ Ask(query, NoCursor, of).pc = "asked" /\ Ask(query, NoCursor, of).query = query
      BY <1>3, <2>1, AskIs
    <2>3. QED
      BY <1>2, <2>2 DEF of
  <1>6. TypeOK'
    <2>1. page' \in [query : Question, shown : Seq(ListEntry), next : Cursor, loading : BOOLEAN,
                     loadingMore : BOOLEAN, error : BOOLEAN, mixed : BOOLEAN, opened : Nat]
      <3> DEFINE of == page.opened + 1
      <3>1. of \in Nat /\ page' = [page EXCEPT !.query = query, !.loading = TRUE, !.error = FALSE,
                                               !.opened = of]
        BY <1>2, <1>3
      <3> HIDE DEF of
      <3>2. QED
        BY <1>1, <1>3, <3>1 DEF TypeOK
    <2>2. QED
      BY <1>1, <1>2, <1>5, <2>1 DEF TypeOK, RowOf
  <1>7. PageOfRequests'
    BY <1>1, <1>2, <1>3, <1>4, <1>5, PiecesStay DEF PageOfRequests
  <1>8. PageIsOfAList'
    <2>1. page'.shown # <<>> => ~Refused(page'.query)
      BY <1>1, <1>2, <1>4 DEF PageIsOfAList, Refused
    <2>2. QED
      BY <1>1, <1>2, <1>3, <1>4, <1>5, <2>1, PiecesStay DEF PageIsOfAList
  <1>9. AnswersArePieces'
    BY <1>1, <1>2, <1>5, PiecesStay DEF AnswersArePieces, IsAPieceOf
  <1>10. ShownIsAPiece'
    BY <1>1, <1>2, <1>4, PiecesStay DEF ShownIsAPiece
  <1>11. DueMatches' /\ DueIsListed'
    BY <1>2 DEF DueMatches, DueIsListed
  <1>12. QED
    BY <1>6, <1>7, <1>8, <1>9, <1>10, <1>11 DEF IInv

LEMMA LoadMoreInv == IInv /\ LoadMore => IInv'
  <1> SUFFICES ASSUME IInv, LoadMore PROVE IInv'
    OBVIOUS
  <1>1. /\ TypeOK /\ PageOfRequests /\ PageIsOfAList /\ AnswersArePieces /\ ShownIsAPiece
        /\ DueMatches /\ DueIsListed
    BY DEF IInv
  <1>2. /\ ~page.loading /\ ~page.loadingMore /\ page.shown # <<>> /\ page.next # NoCursor
        /\ page' = [page EXCEPT !.loadingMore = TRUE]
        /\ more' = Ask(page.query, page.next, page.opened)
        /\ UNCHANGED <<list, now, row, first, due, events>>
    BY DEF LoadMore
  <1>3. page.query \in Question /\ page.opened \in Nat /\ page.next \in Cursor
    BY <1>1 DEF TypeOK
  <1>4. /\ page'.query = page.query /\ page'.loading = page.loading /\ page'.error = page.error
        /\ page'.opened = page.opened /\ page'.shown = page.shown /\ page'.next = page.next
        /\ page'.loadingMore = TRUE /\ page'.mixed = page.mixed
    BY <1>1, <1>2 DEF TypeOK
  <1>5. /\ more' \in Request /\ more' # NoRequest /\ more'.pc = "asked"
        /\ more'.query = page.query /\ more'.before = page.next /\ more'.of = page.opened
    BY <1>2, <1>3, AskIs
  <1>6. TypeOK'
    BY <1>1, <1>2, <1>5 DEF TypeOK, RowOf
  <1>7. PageOfRequests'
    <2>1. page.opened \in 1..page.opened /\ ~Refused(page.query)
      BY <1>1, <1>2, <1>3 DEF PageIsOfAList
    <2>2. QED
      BY <1>1, <1>2, <1>4, <1>5, <2>1, PiecesStay DEF PageOfRequests
  <1>8. PageIsOfAList'
    BY <1>1, <1>2, <1>4, PiecesStay DEF PageIsOfAList
  <1>9. AnswersArePieces'
    <2>1. IsAPieceOf(first, NoCursor)'
      BY <1>1, <1>2, PiecesStay DEF AnswersArePieces
    <2>2. IsAPieceOf(more, more.before)'
      BY <1>5 DEF IsAPieceOf
    <2>3. QED
      BY <2>1, <2>2 DEF AnswersArePieces
  <1>10. ShownIsAPiece'
    BY <1>1, <1>2, <1>4, PiecesStay DEF ShownIsAPiece
  <1>11. DueMatches'
    BY <1>1, <1>2, <1>4 DEF DueMatches, Matches
  <1>12. DueIsListed'
    <2>1. \A i, c : StillToCome(i, c)' <=> StillToCome(i, c)
      BY <1>2, PiecesStay DEF StillToCome, Key
    <2>2. QED
      BY <1>1, <1>2, <1>4, <1>5, <2>1 DEF DueIsListed, IsListed
  <1>13. QED
    BY <1>6, <1>7, <1>8, <1>9, <1>10, <1>11, <1>12 DEF IInv

----------------------------------------------------------------------------
(* What is answered, and what arrives *)

LEMMA AnswerFirstInv == IInv /\ AnswerFirst => IInv'
  <1> SUFFICES ASSUME IInv, AnswerFirst PROVE IInv'
    OBVIOUS
  <1> DEFINE ans == Answer(first.query, NoCursor)
  <1>1. /\ TypeOK /\ PageOfRequests /\ PageIsOfAList /\ AnswersArePieces /\ ShownIsAPiece
    BY DEF IInv
  <1>2. /\ first.pc = "asked" /\ ~Refused(first.query)
        /\ first' = [first EXCEPT !.pc = "answered", !.answer = ans]
        /\ due' = {i \in Stored : Matches(first.query, i)}
        /\ UNCHANGED <<list, now, row, page, more, events>>
    BY DEF AnswerFirst
  <1>3. NoCursor \in Cursor /\ first \in Request /\ first # NoRequest
    BY <1>1, <1>2, NoRequestType DEF TypeOK, Cursor
  <1>4. /\ ans \in PageAnswer
        /\ InOrder(ans.entries) /\ EndsAt(ans.entries, ans.next)
        /\ StartsAfter(ans.entries, NoCursor)
        /\ \A n \in DOMAIN ans.entries : AskedFor(first.query, ans.entries[n])
        /\ \A i \in Stored : Matches(first.query, i) /\ After(NoCursor, i) =>
             IsListed(i, ans.entries) \/ StillToCome(i, ans.next)
    BY <1>1, <1>2, <1>3, AnswerIsAPiece
  <1> HIDE DEF ans
  <1>5. /\ first' \in Request /\ first'.pc = "answered" /\ first'.query = first.query
        /\ first'.answer = ans
    BY <1>2, <1>3, <1>4 DEF Request
  <1>6. /\ page.loading /\ first.query = page.query /\ page.opened > 0 /\ first' # NoRequest
        /\ ~(more # NoRequest /\ more.of = page.opened)
    BY <1>1, <1>3, <1>5, NoRequestType DEF PageOfRequests
  <1>7. TypeOK'
    BY <1>1, <1>2, <1>5 DEF TypeOK, RowOf, Stored
  <1>8. PageOfRequests'
    BY <1>1, <1>2, <1>5, <1>6, PiecesStay DEF PageOfRequests
  <1>9. PageIsOfAList'
    BY <1>1, <1>2, <1>5, PiecesStay DEF PageIsOfAList
  <1>10. AnswersArePieces'
    <2>1. IsAPieceOf(first', NoCursor)
      BY <1>4, <1>5 DEF IsAPieceOf
    <2>2. QED
      BY <1>1, <1>2, <2>1, PiecesStay DEF AnswersArePieces
  <1>11. ShownIsAPiece'
    BY <1>1, <1>2, PiecesStay DEF ShownIsAPiece
  <1>12. \A i \in due' : i \in Stored /\ Matches(page.query, i)
    BY <1>2, <1>6
  <1>13. DueMatches'
    BY <1>2, <1>12 DEF DueMatches, Stored, Matches
  <1>14. DueIsListed'
    <2>1. \A i \in due' : IsListed(i, ans.entries) \/ StillToCome(i, ans.next)
      BY <1>2, <1>4 DEF After
    <2>2. \A i, c : StillToCome(i, c)' <=> StillToCome(i, c)
      BY <1>2, PiecesStay DEF StillToCome, Key
    <2>3. page'.loading /\ (more'.pc = "answered" => more' # NoRequest)
      BY <1>2, <1>6, NoRequestType
    <2>4. ~(more'.pc = "answered" /\ more'.of = page'.opened)
      BY <1>2, <1>6, <2>3
    <2>5. QED
      BY <1>5, <2>1, <2>2, <2>3, <2>4 DEF DueIsListed, IsListed
  <1>15. QED
    BY <1>7, <1>8, <1>9, <1>10, <1>11, <1>13, <1>14 DEF IInv

LEMMA AnswerMoreInv == IInv /\ AnswerMore => IInv'
  <1> SUFFICES ASSUME IInv, AnswerMore PROVE IInv'
    OBVIOUS
  <1> DEFINE ans == Answer(more.query, more.before)
  <1>1. /\ TypeOK /\ PageOfRequests /\ PageIsOfAList /\ AnswersArePieces /\ ShownIsAPiece
        /\ DueMatches /\ DueIsListed
    BY DEF IInv
  <1>2. /\ more.pc = "asked"
        /\ more' = [more EXCEPT !.pc = "answered", !.answer = ans]
        /\ UNCHANGED <<list, now, row, page, first, due, events>>
    BY DEF AnswerMore
  <1>3. /\ more \in Request /\ more.before \in Cursor /\ more # NoRequest
    BY <1>1, <1>2, NoRequestType DEF TypeOK, Request
  <1>4. ~Refused(more.query)
    BY <1>1, <1>3 DEF PageOfRequests
  <1>5. /\ ans \in PageAnswer
        /\ InOrder(ans.entries) /\ EndsAt(ans.entries, ans.next)
        /\ StartsAfter(ans.entries, more.before)
        /\ \A n \in DOMAIN ans.entries : AskedFor(more.query, ans.entries[n])
        /\ \A i \in Stored : Matches(more.query, i) /\ After(more.before, i) =>
             IsListed(i, ans.entries) \/ StillToCome(i, ans.next)
    BY <1>1, <1>3, <1>4, AnswerIsAPiece
  <1> HIDE DEF ans
  <1>6. /\ more' \in Request /\ more'.pc = "answered" /\ more'.query = more.query
        /\ more'.answer = ans /\ more'.before = more.before /\ more'.of = more.of
        /\ more' # NoRequest
    BY <1>2, <1>3, <1>5, NoRequestType DEF Request
  <1>7. TypeOK'
    BY <1>1, <1>2, <1>6 DEF TypeOK, RowOf
  <1>8. PageOfRequests'
    BY <1>1, <1>2, <1>3, <1>6, PiecesStay DEF PageOfRequests
  <1>9. PageIsOfAList'
    BY <1>1, <1>2, PiecesStay DEF PageIsOfAList
  <1>10. AnswersArePieces'
    <2>1. IsAPieceOf(more', more'.before)
      BY <1>5, <1>6 DEF IsAPieceOf
    <2>2. QED
      BY <1>1, <1>2, <2>1, PiecesStay DEF AnswersArePieces
  <1>11. ShownIsAPiece'
    BY <1>1, <1>2, PiecesStay DEF ShownIsAPiece
  <1>12. DueMatches'
    BY <1>1, <1>2 DEF DueMatches, Matches
  <1>13. \A i, c : StillToCome(i, c)' <=> StillToCome(i, c)
    BY <1>2, PiecesStay DEF StillToCome, Key
  <1>14. ASSUME ~page.mixed, more.of = page.opened
         PROVE  \A i \in due :
                  \/ IsListed(i, page.shown) \/ IsListed(i, ans.entries)
                  \/ StillToCome(i, ans.next)
    <2> TAKE i \in due
    <2>1. /\ ~page.loading /\ page.shown # <<>>
          /\ more.query = page.query /\ more.before = page.next /\ more.before # NoCursor
      BY <1>1, <1>3, <1>14 DEF PageOfRequests
    <2>2. IsListed(i, page.shown) \/ StillToCome(i, page.next)
      BY <1>1, <1>14, <2>1 DEF DueIsListed
    <2>3. i \in Stored /\ Matches(more.query, i)
      BY <1>1, <2>1 DEF DueMatches, TypeOK, Stored
    <2>4. StillToCome(i, page.next) => After(more.before, i)
      BY <2>1 DEF StillToCome, After
    <2>5. QED
      BY <1>5, <2>2, <2>3, <2>4
  <1>15. DueIsListed'
    <2>1. ~page'.mixed /\ more'.of = page'.opened =>
            \A i \in due' : \/ IsListed(i, page'.shown) \/ IsListed(i, ans.entries)
                            \/ StillToCome(i, ans.next)
      BY <1>2, <1>6, <1>14
    <2>2. QED
      BY <1>1, <1>2, <1>6, <1>13, <2>1 DEF DueIsListed, IsListed
  <1>16. QED
    BY <1>7, <1>8, <1>9, <1>10, <1>11, <1>12, <1>15 DEF IInv

LEMMA ReceiveFirstInv == IInv /\ ReceiveFirst => IInv'
  <1> SUFFICES ASSUME IInv, ReceiveFirst PROVE IInv'
    OBVIOUS
  <1> DEFINE ans == first.answer
  <1>1. /\ TypeOK /\ PageOfRequests /\ PageIsOfAList /\ AnswersArePieces /\ ShownIsAPiece
        /\ DueMatches /\ DueIsListed
    BY DEF IInv
  <1>2. /\ first.pc = "answered"
        /\ page' = [page EXCEPT !.shown = ans.entries, !.next = ans.next,
                                !.loading = FALSE, !.mixed = FALSE]
        /\ first' = NoRequest
        /\ UNCHANGED <<list, now, row, more, due, events>>
    BY DEF ReceiveFirst
  <1>3. first \in Request /\ first # NoRequest /\ ans \in PageAnswer
    BY <1>1, <1>2, NoRequestType DEF TypeOK, Request
  <1>4. ans.entries \in Seq(ListEntry) /\ ans.next \in Cursor
    BY <1>3 DEF PageAnswer
  <1>5. /\ page'.query = page.query /\ page'.error = page.error /\ page'.opened = page.opened
        /\ page'.loadingMore = page.loadingMore /\ page'.shown = ans.entries
        /\ page'.next = ans.next /\ page'.loading = FALSE /\ page'.mixed = FALSE
    BY <1>1, <1>2 DEF TypeOK
  <1>6. /\ page.loading /\ first.query = page.query /\ page.opened > 0
        /\ ~(more # NoRequest /\ more.of = page.opened)
    BY <1>1, <1>3 DEF PageOfRequests
  <1>7. /\ InOrder(ans.entries) /\ EndsAt(ans.entries, ans.next)
        /\ \A n \in DOMAIN ans.entries : AskedFor(page.query, ans.entries[n])
    BY <1>1, <1>2, <1>6 DEF AnswersArePieces, IsAPieceOf
  <1>8. TypeOK'
    <2>1. page' \in [query : Question, shown : Seq(ListEntry), next : Cursor, loading : BOOLEAN,
                     loadingMore : BOOLEAN, error : BOOLEAN, mixed : BOOLEAN, opened : Nat]
      BY <1>1, <1>2, <1>4 DEF TypeOK
    <2>2. QED
      BY <1>1, <1>2, <2>1, NoRequestType DEF TypeOK, RowOf
  <1>9. PageOfRequests'
    BY <1>1, <1>2, <1>5, <1>6, PiecesStay DEF PageOfRequests
  <1>10. PageIsOfAList'
    <2>1. ~Refused(page.query)
      BY <1>1, <1>2, <1>6 DEF PageIsOfAList
    <2>2. ans.entries = <<>> => ans.next = NoCursor
      BY <1>7 DEF EndsAt
    <2>3. first'.pc = "none" /\ page'.opened # 0
      BY <1>1, <1>2, <1>5, <1>6, NoRequestType DEF TypeOK
    <2>4. QED
      BY <1>1, <1>2, <1>5, <2>1, <2>2, <2>3, PiecesStay DEF PageIsOfAList
  <1>11. AnswersArePieces'
    BY <1>1, <1>2, NoRequestType, PiecesStay DEF AnswersArePieces, IsAPieceOf
  <1>12. ShownIsAPiece'
    BY <1>2, <1>5, <1>7, PiecesStay DEF ShownIsAPiece
  <1>13. DueMatches'
    BY <1>1, <1>2, <1>5 DEF DueMatches, Matches
  <1>14. DueIsListed'
    <2>1. \A i \in due : IsListed(i, ans.entries) \/ StillToCome(i, ans.next)
      BY <1>1, <1>2 DEF DueIsListed
    <2>2. \A i, c : StillToCome(i, c)' <=> StillToCome(i, c)
      BY <1>2, PiecesStay DEF StillToCome, Key
    <2>3. ~(more'.pc = "answered" /\ more'.of = page'.opened) /\ first'.pc = "none"
      BY <1>2, <1>5, <1>6, NoRequestType
    <2>4. \A i \in due' : IsListed(i, page'.shown) \/ StillToCome(i, page'.next)
      BY <1>2, <1>5, <2>1
    <2>5. QED
      BY <2>2, <2>3, <2>4 DEF DueIsListed, IsListed
  <1>15. QED
    BY <1>8, <1>9, <1>10, <1>11, <1>12, <1>13, <1>14 DEF IInv

(* A page that starts after what is shown ends is the rest of the same list. *)
LEMMA NextPieceFits ==
  ASSUME NEW shown \in Seq(ListEntry), NEW entries \in Seq(ListEntry), NEW before \in Cursor,
         NEW next \in Cursor, before # NoCursor,
         InOrder(shown), EndsAt(shown, before), InOrder(entries), EndsAt(entries, next),
         StartsAfter(entries, before)
  PROVE  InOrder(shown \o entries) /\ EndsAt(shown \o entries, next)
  <1> DEFINE both == shown \o entries
             a    == Len(shown)
             b    == Len(entries)
  <1>1. /\ a \in Nat /\ b \in Nat /\ DOMAIN shown = 1..a /\ DOMAIN entries = 1..b
        /\ DOMAIN both = 1..(a + b)
        /\ \A n \in 1..(a + b) : both[n] = IF n <= a THEN shown[n] ELSE entries[n - a]
    BY ConcatProperties, LenProperties
  <1>2. /\ \A n \in 1..a : shown[n] \in ListEntry
        /\ \A n \in 1..b : entries[n] \in ListEntry
    BY ElementOfSeq
  <1>3. \A e \in ListEntry : e.at \in Int /\ e.id \in Int
    <2> TAKE e \in ListEntry
    <2>1. e.at \in Nat /\ e.id \in RowId
      BY DEF ListEntry
    <2>2. QED
      BY <2>1, RowIdsAreNumbers
  <1>4. before.at \in Int /\ before.id \in Int /\ next.at \in Int /\ next.id \in Int
    <2>1. /\ before.at \in Nat \union {-1} /\ before.id \in RowId \union {-1}
          /\ next.at \in Nat \union {-1} /\ next.id \in RowId \union {-1}
      BY DEF Cursor, NoCursor
    <2>2. QED
      BY <2>1, RowIdsAreNumbers
  <1> HIDE DEF both, a, b
  <1>5. ASSUME NEW m \in 1..a, NEW n \in 1..b
        PROVE  Precedes(shown[m], entries[n])
    <2>1. Precedes(before, entries[n])
      BY <1>1 DEF StartsAfter
    <2>2. \/ shown[m].at = before.at /\ shown[m].id = before.id
          \/ Precedes(shown[m], before)
      BY <1>1 DEF EndsAt
    <2>3. CASE Precedes(shown[m], before)
      BY <1>2, <1>3, <1>4, <2>1, <2>3, PrecedesIsStrict
    <2>4. CASE shown[m].at = before.at /\ shown[m].id = before.id
      BY <2>1, <2>4 DEF Precedes
    <2>5. QED
      BY <2>2, <2>3, <2>4
  <1>6. ASSUME NEW m \in 1..(a + b), NEW n \in 1..(a + b), m < n
        PROVE  Precedes(both[m], both[n])
    <2>1. CASE n <= a
      <3>1. m \in 1..a /\ n \in 1..a /\ both[m] = shown[m] /\ both[n] = shown[n]
        BY <1>1, <1>6, <2>1
      <3>2. QED
        BY <1>1, <1>6, <3>1 DEF InOrder
    <2>2. CASE m <= a /\ n > a
      <3>1. m \in 1..a /\ n - a \in 1..b /\ both[m] = shown[m] /\ both[n] = entries[n - a]
        BY <1>1, <2>2
      <3>2. QED
        BY <1>5, <3>1
    <2>3. CASE m > a
      <3>1. /\ m - a \in 1..b /\ n - a \in 1..b /\ m - a < n - a
            /\ both[m] = entries[m - a] /\ both[n] = entries[n - a]
        BY <1>1, <1>6, <2>3
      <3>2. QED
        BY <1>1, <3>1 DEF InOrder
    <2>4. QED
      BY <1>1, <2>1, <2>2, <2>3
  <1>7. InOrder(both)
    BY <1>1, <1>6 DEF InOrder
  <1>8. EndsAt(both, next)
    <2> SUFFICES ASSUME next # NoCursor
                 PROVE  /\ both # <<>>
                        /\ \A n \in 1..(a + b) :
                             \/ both[n].at = next.at /\ both[n].id = next.id
                             \/ Precedes(both[n], next)
      BY <1>1 DEF EndsAt
    <2>1. entries # <<>> /\ \A n \in 1..b : \/ entries[n].at = next.at /\ entries[n].id = next.id
                                            \/ Precedes(entries[n], next)
      BY <1>1 DEF EndsAt
    <2>2. b > 0
      BY <2>1, EmptySeq, <1>1 DEF b
    <2>3. both # <<>>
      BY <1>1, <2>2
    <2>4. ASSUME NEW n \in 1..(a + b)
          PROVE  \/ both[n].at = next.at /\ both[n].id = next.id
                 \/ Precedes(both[n], next)
      <3>1. CASE n <= a
        <4>1. n \in 1..a /\ both[n] = shown[n] /\ b \in 1..b
          BY <1>1, <2>2, <3>1
        <4>2. Precedes(shown[n], entries[b]) /\ shown[n] \in ListEntry /\ entries[b] \in ListEntry
          BY <1>2, <1>5, <4>1
        <4>3. \/ entries[b].at = next.at /\ entries[b].id = next.id
              \/ Precedes(entries[b], next)
          BY <2>1, <4>1
        <4>4. CASE Precedes(entries[b], next)
          BY <1>3, <1>4, <4>1, <4>2, <4>4, PrecedesIsStrict
        <4>5. CASE entries[b].at = next.at /\ entries[b].id = next.id
          BY <4>1, <4>2, <4>5 DEF Precedes
        <4>6. QED
          BY <4>3, <4>4, <4>5
      <3>2. CASE n > a
        <4>1. n - a \in 1..b /\ both[n] = entries[n - a]
          BY <1>1, <3>2
        <4>2. QED
          BY <2>1, <4>1
      <3>3. QED
        BY <1>1, <3>1, <3>2
    <2>5. QED
      BY <2>3, <2>4
  <1> QED
    BY <1>7, <1>8 DEF both

LEMMA IsListedInBoth ==
  ASSUME NEW shown \in Seq(ListEntry), NEW entries \in Seq(ListEntry), NEW i,
         IsListed(i, shown) \/ IsListed(i, entries)
  PROVE  IsListed(i, shown \o entries)
  <1> DEFINE both == shown \o entries
             a    == Len(shown)
             b    == Len(entries)
  <1>1. /\ a \in Nat /\ b \in Nat /\ DOMAIN shown = 1..a /\ DOMAIN entries = 1..b
        /\ DOMAIN both = 1..(a + b)
        /\ \A n \in 1..(a + b) : both[n] = IF n <= a THEN shown[n] ELSE entries[n - a]
    BY ConcatProperties, LenProperties
  <1> HIDE DEF both, a, b
  <1>2. CASE IsListed(i, shown)
    <2>1. PICK n \in 1..a : shown[n].id = i
      BY <1>1, <1>2 DEF IsListed
    <2>2. n \in 1..(a + b) /\ both[n] = shown[n]
      BY <1>1
    <2>3. QED
      BY <1>1, <2>1, <2>2 DEF IsListed, both
  <1>3. CASE IsListed(i, entries)
    <2>1. PICK n \in 1..b : entries[n].id = i
      BY <1>1, <1>3 DEF IsListed
    <2>2. n + a \in 1..(a + b) /\ both[n + a] = entries[n]
      BY <1>1
    <2>3. QED
      BY <1>1, <2>1, <2>2 DEF IsListed, both
  <1>4. QED
    BY <1>2, <1>3

LEMMA AskedInBoth ==
  ASSUME NEW query, NEW shown \in Seq(ListEntry), NEW entries \in Seq(ListEntry),
         \A n \in DOMAIN shown : AskedFor(query, shown[n]),
         \A n \in DOMAIN entries : AskedFor(query, entries[n])
  PROVE  \A n \in DOMAIN (shown \o entries) : AskedFor(query, (shown \o entries)[n])
  <1> DEFINE both == shown \o entries
             a    == Len(shown)
             b    == Len(entries)
  <1>1. /\ a \in Nat /\ b \in Nat /\ DOMAIN shown = 1..a /\ DOMAIN entries = 1..b
        /\ DOMAIN both = 1..(a + b)
        /\ \A n \in 1..(a + b) : both[n] = IF n <= a THEN shown[n] ELSE entries[n - a]
    BY ConcatProperties, LenProperties
  <1> HIDE DEF both, a, b
  <1>2. ASSUME NEW n \in 1..(a + b) PROVE AskedFor(query, both[n])
    <2>1. CASE n <= a
      BY <1>1, <2>1
    <2>2. CASE n > a
      <3>1. n - a \in DOMAIN entries /\ both[n] = entries[n - a]
        BY <1>1, <2>2
      <3>2. QED
        BY <3>1
    <2>3. QED
      BY <1>1, <2>1, <2>2
  <1> QED
    BY <1>1, <1>2 DEF both

LEMMA ReceiveMoreInv == IInv /\ ReceiveMore => IInv'
  <1> SUFFICES ASSUME IInv, ReceiveMore PROVE IInv'
    OBVIOUS
  <1> DEFINE ans == more.answer
  <1>1. /\ TypeOK /\ PageOfRequests /\ PageIsOfAList /\ AnswersArePieces /\ ShownIsAPiece
        /\ DueMatches /\ DueIsListed
    BY DEF IInv
  <1>2. /\ more.pc = "answered"
        /\ page' = [page EXCEPT !.shown = page.shown \o ans.entries, !.next = ans.next,
                                !.loadingMore = FALSE,
                                !.mixed = page.mixed \/ more.of # page.opened]
        /\ more' = NoRequest
        /\ UNCHANGED <<list, now, row, first, due, events>>
    BY DEF ReceiveMore
  <1>3. /\ more \in Request /\ more # NoRequest /\ ans \in PageAnswer /\ page.shown \in Seq(ListEntry)
        /\ page.next \in Cursor
    BY <1>1, <1>2, NoRequestType DEF TypeOK, Request
  <1>4. ans.entries \in Seq(ListEntry) /\ ans.next \in Cursor
    BY <1>3 DEF PageAnswer
  <1> DEFINE both == page.shown \o ans.entries
             mixed == page.mixed \/ more.of # page.opened
  <1>5. both \in Seq(ListEntry) /\ (both = <<>> => page.shown = <<>> /\ ans.entries = <<>>)
    <2>1. both \in Seq(ListEntry) /\ Len(both) = Len(page.shown) + Len(ans.entries)
      BY <1>3, <1>4, ConcatProperties
    <2>2. Len(page.shown) \in Nat /\ Len(ans.entries) \in Nat
      BY <1>3, <1>4, LenProperties
    <2> HIDE DEF both
    <2>3. both = <<>> => Len(page.shown) + Len(ans.entries) = 0
      BY <2>1, EmptySeq
    <2> DEFINE a == Len(page.shown)
               b == Len(ans.entries)
    <2> HIDE DEF a, b
    <2>4. both = <<>> => a = 0 /\ b = 0
      <3>1. a \in Nat /\ b \in Nat /\ (both = <<>> => a + b = 0)
        BY <2>2, <2>3 DEF a, b
      <3>2. QED
        BY <3>1
    <2>5. QED
      BY <1>3, <1>4, <2>1, <2>4, EmptySeq DEF a, b
  <1>6. mixed \in BOOLEAN
    OBVIOUS
  <1>7. page' = [page EXCEPT !.shown = both, !.next = ans.next, !.loadingMore = FALSE,
                             !.mixed = mixed]
    BY <1>2
  <1>8. /\ InOrder(ans.entries) /\ EndsAt(ans.entries, ans.next)
        /\ StartsAfter(ans.entries, more.before)
        /\ \A n \in DOMAIN ans.entries : AskedFor(more.query, ans.entries[n])
    BY <1>1, <1>2 DEF AnswersArePieces, IsAPieceOf
  <1>9. ASSUME ~mixed
        PROVE  /\ ~page.mixed /\ more.of = page.opened /\ ~page.loading /\ page.shown # <<>>
               /\ more.query = page.query /\ more.before = page.next /\ more.before # NoCursor
    BY <1>1, <1>3, <1>9 DEF PageOfRequests
  <1>10. ASSUME ~mixed
         PROVE  /\ InOrder(both) /\ EndsAt(both, ans.next)
                /\ \A n \in DOMAIN both : AskedFor(page.query, both[n])
                /\ \A i \in due : IsListed(i, both) \/ StillToCome(i, ans.next)
    <2>1. /\ InOrder(page.shown) /\ EndsAt(page.shown, page.next)
          /\ \A n \in DOMAIN page.shown : AskedFor(page.query, page.shown[n])
      BY <1>1, <1>9, <1>10 DEF ShownIsAPiece
    <2>2. InOrder(both) /\ EndsAt(both, ans.next)
      BY <1>3, <1>4, <1>8, <1>9, <1>10, <2>1, NextPieceFits
    <2>3. \A n \in DOMAIN both : AskedFor(page.query, both[n])
      BY <1>3, <1>4, <1>8, <1>9, <1>10, <2>1, AskedInBoth
    <2>4. ASSUME NEW i \in due PROVE IsListed(i, both) \/ StillToCome(i, ans.next)
      <3>1. \/ IsListed(i, page.shown) \/ IsListed(i, ans.entries)
            \/ StillToCome(i, ans.next)
        BY <1>1, <1>2, <1>9, <1>10 DEF DueIsListed
      <3>2. QED
        BY <1>3, <1>4, <3>1, IsListedInBoth
    <2>5. QED
      BY <2>2, <2>3, <2>4
  <1> HIDE DEF both, mixed
  <1>11. /\ page'.query = page.query /\ page'.error = page.error /\ page'.opened = page.opened
         /\ page'.loading = page.loading /\ page'.loadingMore = FALSE /\ page'.shown = both
         /\ page'.next = ans.next /\ page'.mixed = mixed
    BY <1>1, <1>7 DEF TypeOK
  <1>12. TypeOK'
    <2>1. page' \in [query : Question, shown : Seq(ListEntry), next : Cursor, loading : BOOLEAN,
                     loadingMore : BOOLEAN, error : BOOLEAN, mixed : BOOLEAN, opened : Nat]
      BY <1>1, <1>4, <1>5, <1>6, <1>7 DEF TypeOK
    <2>2. QED
      BY <1>1, <1>2, <2>1, NoRequestType DEF TypeOK, RowOf
  <1>13. PageOfRequests'
    BY <1>1, <1>2, <1>11, PiecesStay DEF PageOfRequests
  <1>14. PageIsOfAList'
    <2>1. page.opened # 0 /\ more.of \in 1..page.opened /\ page.opened \in Nat
      BY <1>1, <1>3 DEF PageOfRequests, TypeOK
    <2>2. both = <<>> => ans.next = NoCursor
      BY <1>5, <1>8 DEF EndsAt
    <2>3. ~Refused(page.query)
      <3>1. CASE list = "queue"
        BY <3>1 DEF Refused
      <3>2. CASE list = "audit"
        <4>1. more.of = page.opened
          BY <1>1, <2>1, <3>2 DEF PageIsOfAList
        <4>2. page.shown # <<>>
          BY <1>1, <1>3, <4>1 DEF PageOfRequests
        <4>3. QED
          BY <1>1, <4>2 DEF PageIsOfAList
      <3>3. QED
        BY <1>1, <3>1, <3>2 DEF TypeOK
    <2>4. QED
      BY <1>1, <1>2, <1>11, <2>1, <2>2, <2>3, PiecesStay DEF PageIsOfAList
  <1>15. AnswersArePieces'
    BY <1>1, <1>2, NoRequestType, PiecesStay DEF AnswersArePieces, IsAPieceOf
  <1>16. ShownIsAPiece'
    BY <1>2, <1>10, <1>11, PiecesStay DEF ShownIsAPiece
  <1>17. DueMatches'
    BY <1>1, <1>2, <1>11 DEF DueMatches, Matches
  <1>18. DueIsListed'
    <2>1. \A i, c : StillToCome(i, c)' <=> StillToCome(i, c)
      BY <1>2, PiecesStay DEF StillToCome, Key
    <2>2. ~page'.mixed => \A i \in due' : IsListed(i, page'.shown) \/ StillToCome(i, page'.next)
      BY <1>2, <1>10, <1>11
    <2>3. more'.pc = "none"
      BY <1>2, NoRequestType
    <2>4. first'.pc = "answered" =>
            \A i \in due' :
              IsListed(i, first'.answer.entries) \/ StillToCome(i, first'.answer.next)
      BY <1>1, <1>2 DEF DueIsListed
    <2>5. QED
      BY <2>1, <2>2, <2>3, <2>4 DEF DueIsListed, IsListed
  <1>19. QED
    BY <1>12, <1>13, <1>14, <1>15, <1>16, <1>17, <1>18 DEF IInv

LEMMA FirstFailsInv == IInv /\ FirstFails => IInv'
  <1> SUFFICES ASSUME IInv, FirstFails PROVE IInv'
    OBVIOUS
  <1>1. /\ TypeOK /\ PageOfRequests /\ PageIsOfAList /\ AnswersArePieces /\ ShownIsAPiece
        /\ DueMatches /\ DueIsListed
    BY DEF IInv
  <1> DEFINE mixed == page.shown # <<>>
  <1>2. /\ first # NoRequest /\ events' \in Nat
        /\ page' = [page EXCEPT !.loading = FALSE, !.error = TRUE, !.mixed = mixed]
        /\ first' = NoRequest
        /\ UNCHANGED <<list, now, row, more, due>>
    BY <1>1 DEF FirstFails, Event, TypeOK
  <1>3. mixed \in BOOLEAN
    OBVIOUS
  <1> HIDE DEF mixed
  <1>4. /\ page'.query = page.query /\ page'.error = TRUE /\ page'.opened = page.opened
        /\ page'.loadingMore = page.loadingMore /\ page'.shown = page.shown
        /\ page'.next = page.next /\ page'.loading = FALSE /\ page'.mixed = mixed
    BY <1>1, <1>2 DEF TypeOK
  <1>5. page.loading /\ page.opened > 0 /\ ~(more # NoRequest /\ more.of = page.opened)
    BY <1>1, <1>2 DEF PageOfRequests
  <1>6. TypeOK'
    <2>1. page' \in [query : Question, shown : Seq(ListEntry), next : Cursor, loading : BOOLEAN,
                     loadingMore : BOOLEAN, error : BOOLEAN, mixed : BOOLEAN, opened : Nat]
      BY <1>1, <1>2, <1>3 DEF TypeOK
    <2>2. QED
      BY <1>1, <1>2, <2>1, NoRequestType DEF TypeOK, RowOf
  <1>7. PageOfRequests'
    BY <1>1, <1>2, <1>4, <1>5, PiecesStay DEF PageOfRequests
  <1>8. PageIsOfAList'
    BY <1>1, <1>2, <1>4, NoRequestType, PiecesStay DEF PageIsOfAList
  <1>9. AnswersArePieces'
    BY <1>1, <1>2, NoRequestType, PiecesStay DEF AnswersArePieces, IsAPieceOf
  <1>10. ShownIsAPiece'
    <2>1. ~mixed => page.shown = <<>> /\ page.next = NoCursor
      BY <1>1 DEF mixed, PageIsOfAList
    <2>2. QED
      BY <1>2, <1>4, <2>1 DEF ShownIsAPiece, InOrder, EndsAt
  <1>11. DueMatches'
    BY <1>1, <1>2, <1>4 DEF DueMatches, Matches
  <1>12. DueIsListed'
    <2>1. ~mixed => page.shown = <<>>
      BY DEF mixed
    <2>2. ~(more'.pc = "answered" /\ more'.of = page'.opened)
      BY <1>2, <1>4, <1>5, NoRequestType
    <2>3. QED
      BY <1>2, <1>4, <2>1, <2>2, NoRequestType DEF DueIsListed
  <1>13. QED
    BY <1>6, <1>7, <1>8, <1>9, <1>10, <1>11, <1>12 DEF IInv

LEMMA MoreFailsInv == IInv /\ MoreFails => IInv'
  <1> SUFFICES ASSUME IInv, MoreFails PROVE IInv'
    OBVIOUS
  <1>1. /\ TypeOK /\ PageOfRequests /\ PageIsOfAList /\ AnswersArePieces /\ ShownIsAPiece
        /\ DueMatches /\ DueIsListed
    BY DEF IInv
  <1>2. /\ more # NoRequest /\ events' \in Nat
        /\ page' = [page EXCEPT !.loadingMore = FALSE, !.error = TRUE]
        /\ more' = NoRequest
        /\ UNCHANGED <<list, now, row, first, due>>
    BY <1>1 DEF MoreFails, Event, TypeOK
  <1>3. /\ page'.query = page.query /\ page'.error = TRUE /\ page'.opened = page.opened
        /\ page'.loadingMore = FALSE /\ page'.shown = page.shown
        /\ page'.next = page.next /\ page'.loading = page.loading /\ page'.mixed = page.mixed
    BY <1>1, <1>2 DEF TypeOK
  <1>4. TypeOK'
    <2>1. page' \in [query : Question, shown : Seq(ListEntry), next : Cursor, loading : BOOLEAN,
                     loadingMore : BOOLEAN, error : BOOLEAN, mixed : BOOLEAN, opened : Nat]
      BY <1>1, <1>2 DEF TypeOK
    <2>2. QED
      BY <1>1, <1>2, <2>1, NoRequestType DEF TypeOK, RowOf
  <1>5. PageOfRequests'
    BY <1>1, <1>2, <1>3, PiecesStay DEF PageOfRequests
  <1>6. PageIsOfAList'
    BY <1>1, <1>2, <1>3, PiecesStay DEF PageIsOfAList
  <1>7. AnswersArePieces'
    BY <1>1, <1>2, NoRequestType, PiecesStay DEF AnswersArePieces, IsAPieceOf
  <1>8. ShownIsAPiece'
    BY <1>1, <1>2, <1>3, PiecesStay DEF ShownIsAPiece
  <1>9. DueMatches'
    BY <1>1, <1>2, <1>3 DEF DueMatches, Matches
  <1>10. DueIsListed'
    <2>1. \A i, c : StillToCome(i, c)' <=> StillToCome(i, c)
      BY <1>2, PiecesStay DEF StillToCome, Key
    <2>2. QED
      BY <1>1, <1>2, <1>3, <2>1, NoRequestType DEF DueIsListed, IsListed
  <1>11. QED
    BY <1>4, <1>5, <1>6, <1>7, <1>8, <1>9, <1>10 DEF IInv

----------------------------------------------------------------------------
(* The theorems *)

LEMMA NextInv == IInv /\ [Next]_vars => IInv'
  <1> SUFFICES ASSUME IInv, [Next]_vars PROVE IInv'
    OBVIOUS
  <1>1. CASE Others
    BY <1>1, OthersInv
  <1>2. CASE Reads
    <2>1. CASE LoadMore
      BY <2>1, LoadMoreInv
    <2>2. CASE \E query \in Query : Open(query)
      BY <2>2, OpenInv
    <2>3. QED
      BY <1>2, <2>1, <2>2 DEF Reads
  <1>3. CASE Arrives
    BY <1>3, AnswerFirstInv, AnswerMoreInv, ReceiveFirstInv, ReceiveMoreInv, FirstFailsInv,
       MoreFailsInv DEF Arrives
  <1>4. CASE UNCHANGED vars
    <2>1. /\ UNCHANGED <<list, now, row, page, first, more, due, events>>
          /\ TypeOK /\ DueMatches
      BY <1>4 DEF vars, IInv
    <2>2. TypeOK' /\ RowsKept
      BY <2>1 DEF TypeOK, RowOf, RowsKept, Stored
    <2>3. \A i \in due' : Matches(page.query, i)'
      BY <2>1 DEF DueMatches, Matches
    <2>4. QED
      BY <2>1, <2>2, <2>3, RowsMove
  <1>5. QED
    BY <1>1, <1>2, <1>3, <1>4 DEF Next

(* Whatever arrives, settles, moves or fails while a list is read, and whatever is asked
   for meanwhile, the page, its two requests and what is still to be listed fit. *)
THEOREM Invariance == Spec => []IInv
  <1>1. QED
    BY InitInv, NextInv, PTL DEF Spec

(* A list is in its order and has every row once: no paging by cursor shows a row twice
   (auditQuery.js:55-64). *)
THEOREM NothingTwice == Spec => []InOrderOnce
  <1>1. IInv => InOrderOnce
    BY DEF IInv, ShownIsAPiece, InOrder, InOrderOnce
  <1>2. QED
    BY <1>1, Invariance, PTL

(* A list that was read to its end has every row that was due in it ever since it was
   opened (auditQuery.js:62-64, QueuePage.jsx:25-27). *)
THEOREM NothingMissed == Spec => []NothingSkipped
  <1>1. IInv => NothingSkipped
    <2> SUFFICES ASSUME IInv, ~page.mixed, ~page.loading, page.next = NoCursor,
                        page.error => page.shown # <<>>, NEW i \in due
                 PROVE  i \in ShownIds
      BY DEF NothingSkipped
    <2>1. IsListed(i, page.shown)
      BY DEF IInv, DueIsListed, StillToCome
    <2>2. QED
      BY <2>1 DEF IsListed, ShownIds
  <1>2. QED
    BY <1>1, Invariance, PTL

(* A list holds what was asked for, by every parameter that was given, although what an
   attempt is is computed once to filter it and once to label it (auditQuery.js:25-28,
   mongoAuditRepo.js:102-103). *)
THEOREM OnlyTheAskedIsListed == Spec => []AskedIsListed
  <1>1. IInv => AskedIsListed
    BY DEF IInv, ShownIsAPiece, AskedFor, AskedIsListed
  <1>2. QED
    BY <1>1, Invariance, PTL
=============================================================================
