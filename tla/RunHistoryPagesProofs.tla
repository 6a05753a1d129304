----------------------- MODULE RunHistoryPagesProofs -----------------------
(***************************************************************************)
(* Proofs about RunHistoryPages, for any number of rows, any queries and   *)
(* any size of pages.  The argument is about places: the place of a row in *)
(* what a query selects is its position in the answer of the database, a   *)
(* run that is started moves it back by one at most, and a walk has been   *)
(* given the places up to its offset.                                      *)
(***************************************************************************)
EXTENDS RunHistoryPages, SequenceTheorems, FiniteSetTheorems, TLAPS

-----------------------------------------------------------------------------
(* Orders *)

Orders == [field : {"createdAt", "runAt"}, dir : {"asc", "desc"}]

LEMMA OrderByType == ASSUME NEW q \in Query PROVE OrderBy(q) \in Orders
BY DEF Query, OrderBy, Orders

LEMMA SortKeyType ==
    ASSUME TypeOK, NEW i \in Exists, NEW by \in Orders
    PROVE  SortKey(i, by.field) \in Nat
<1>1. rows[i] \in Row /\ i \in Nat
  BY DEF TypeOK, Exists, Id
<1>2. MaxTime + 1 \in Nat /\ (rows[i].runAt \in Nat)
  BY <1>1, PagesAssumption DEF Row, Time
<1>3. CASE by.field = "createdAt"
  BY <1>1, <1>3 DEF SortKey
<1>4. CASE by.field = "runAt"
  BY <1>2, <1>4 DEF SortKey
<1> QED
  BY <1>3, <1>4 DEF Orders

(* An order of rows is irreflexive and transitive. *)
LEMMA AheadOrders ==
    ASSUME TypeOK, NEW by \in Orders
    PROVE  /\ \A i \in Exists : ~Ahead(i, i, by)
           /\ \A i, j, k \in Exists :
                 Ahead(i, j, by) /\ Ahead(j, k, by) => Ahead(i, k, by)
<1>1. \A i \in Exists : SortKey(i, by.field) \in Nat
  BY SortKeyType
<1> QED
  BY <1>1 DEF Ahead

(* The order of creation is a total one. *)
LEMMA CreatedSortable ==
    ASSUME NEW by \in Orders, by.field = "createdAt", NEW S \in SUBSET Id
    PROVE  Sortable(S, by)
BY DEF Sortable, Ahead, SortKey, Id

-----------------------------------------------------------------------------
(* What the database answers *)

LEMMA MatchesFinite ==
    ASSUME NEW where
    PROVE  /\ Matches(where) \subseteq Exists /\ Matches(where) \subseteq Id
           /\ IsFiniteSet(Matches(where)) /\ Cardinality(Matches(where)) \in 0..MaxRow
<1>1. IsFiniteSet(1..MaxRow) /\ Cardinality(1..MaxRow) = MaxRow
  BY FS_Interval, PagesAssumption
<1>2. Matches(where) \subseteq 1..MaxRow /\ Matches(where) \subseteq Exists
  BY DEF Matches, Exists, Id
<1>3. IsFiniteSet(Matches(where)) /\ Cardinality(Matches(where)) <= MaxRow
  BY <1>1, <1>2, FS_Subset
<1>4. Cardinality(Matches(where)) \in Nat
  BY <1>3, FS_CardinalityType
<1> QED
  BY <1>2, <1>3, <1>4, PagesAssumption DEF Id

(* A listing has each of the rows once, none before one that is ahead. *)
LEMMA ListingHasAll ==
    ASSUME NEW where, NEW by, NEW s \in Listings(where, by)
    PROVE  /\ s \in Seq(Id) /\ Len(s) = Cardinality(Matches(where))
           /\ DOMAIN s = 1..Len(s) /\ Len(s) \in 0..MaxRow
           /\ \A a \in 1..Len(s) : s[a] \in Matches(where)
           /\ \A i \in Matches(where) : \E a \in 1..Len(s) : s[a] = i
           /\ \A a, b \in 1..Len(s) : a # b => s[a] # s[b]
           /\ \A a, b \in 1..Len(s) : a < b => ~Ahead(s[b], s[a], by)
<1> DEFINE W == Matches(where)
           n == Cardinality(W)
<1>1. IsFiniteSet(W) /\ n \in 0..MaxRow /\ W \subseteq Id
  BY MatchesFinite
<1>2. /\ s \in [1..n -> W]
      /\ \A a, b \in 1..n : a # b => s[a] # s[b]
      /\ \A a, b \in DOMAIN s : a < b => ~Ahead(s[b], s[a], by)
  BY DEF Listings, SetToSeqs
<1> HIDE DEF W, n
<1>3. n \in Nat /\ n \in Int
  BY <1>1, PagesAssumption
<1>4. s \in Seq(Id) /\ Len(s) = n
  BY <1>1, <1>2, <1>3
<1>5. \A i \in W : \E a \in 1..n : s[a] = i
  <2>1. s \in Injection(1..n, W)
    BY <1>2 DEF Injection, IsInjective
  <2>2. Cardinality(1..n) = n
    BY <1>3, FS_Interval
  <2>3. s \in Surjection(1..n, W)
    BY <2>1, <2>2, <1>1, FS_Injection DEF n
  <2> QED
    BY <2>3 DEF Surjection
<1> QED
  BY <1>1, <1>2, <1>4, <1>5 DEF W, n

-----------------------------------------------------------------------------
(* Walks and places *)

LEMMA WalkType ==
    ASSUME TypeOK, walk.pc # "idle"
    PROVE  /\ walk.query \in Query
           /\ Take(walk.query) \in Nat \ {0}
           /\ OrderBy(walk.query) \in Orders
           /\ walk.skip \in Nat
<1>1. walk.query \in Query
  BY PagesAssumption DEF TypeOK, Walk
<1>2. Take(walk.query) \in Nat \ {0}
  BY <1>1, PagesAssumption DEF Take, Query
<1>3. OrderBy(walk.query) \in Orders
  BY <1>1, OrderByType
<1>4. walk.skip \in Nat
  BY PagesAssumption DEF TypeOK, Walk
<1> QED
  BY <1>1, <1>2, <1>3, <1>4

LEMMA PlaceType ==
    \A i : /\ IsFiniteSet(UpTo(i)) /\ UpTo(i) \subseteq Chosen
           /\ Place(i) \in Nat /\ Place(i) <= Cardinality(Chosen)
           /\ i \in Chosen => Place(i) > 0
<1> TAKE i
<1>1. IsFiniteSet(Chosen) /\ UpTo(i) \subseteq Chosen /\ Cardinality(Chosen) \in Nat
  BY MatchesFinite, PagesAssumption DEF Chosen, UpTo
<1>2. IsFiniteSet(UpTo(i)) /\ Place(i) <= Cardinality(Chosen)
  BY <1>1, FS_Subset DEF Place
<1>3. Place(i) \in Nat
  BY <1>2, FS_CardinalityType DEF Place
<1>4. ASSUME i \in Chosen PROVE Place(i) > 0
  <2>1. UpTo(i) # {}
    BY <1>4 DEF UpTo
  <2>2. Place(i) # 0
    BY <2>1, <1>2, FS_EmptySet DEF Place
  <2> QED
    BY <2>2, <1>3
<1> QED
  BY <1>1, <1>2, <1>3, <1>4

LEMMA PlaceTypePrime ==
    (\A i : /\ IsFiniteSet(UpTo(i)) /\ UpTo(i) \subseteq Chosen
            /\ Place(i) \in Nat /\ Place(i) <= Cardinality(Chosen)
            /\ i \in Chosen => Place(i) > 0)'
BY PlaceType, PTL

(* In a listing without equal rows the place of a row is its position. *)
LEMMA PlaceIsPosition ==
    ASSUME TypeOK, walk.pc # "idle",
           Sortable(Chosen, OrderBy(walk.query)),
           NEW s \in Listings(BuildWhere(walk.query), OrderBy(walk.query)),
           NEW a \in 1..Len(s)
    PROVE  s[a] \in Chosen /\ Place(s[a]) = a
<1> DEFINE by == OrderBy(walk.query)
           n == Len(s)
           f == [b \in 1..a |-> s[b]]
<1>1. by \in Orders
  BY WalkType
<1>2. /\ n \in Nat
      /\ \A b \in 1..n : s[b] \in Chosen
      /\ \A i \in Chosen : \E b \in 1..n : s[b] = i
      /\ \A b, d \in 1..n : b # d => s[b] # s[d]
      /\ \A b, d \in 1..n : b < d => ~Ahead(s[d], s[b], by)
  BY ListingHasAll, PagesAssumption DEF Chosen
<1>3. \A i, j \in Chosen : i # j => Ahead(i, j, by) \/ Ahead(j, i, by)
  BY DEF Sortable
<1>4. \A i \in Chosen : ~Ahead(i, i, by)
  BY <1>1, AheadOrders, MatchesFinite DEF Chosen
<1> HIDE DEF by, n
<1>5. a \in 1..n
  BY DEF n
<1>6. UpTo(s[a]) = {j \in Chosen : j = s[a] \/ Ahead(j, s[a], by)}
  BY DEF UpTo, by
<1>7. ASSUME NEW b \in 1..a PROVE s[b] \in UpTo(s[a])
  <2>1. CASE b = a
    BY <2>1, <1>2, <1>5, <1>6
  <2>2. CASE b # a
    <3>1. b \in 1..n /\ b < a
      BY <2>2, <1>2, <1>5
    <3>2. s[b] \in Chosen /\ s[a] \in Chosen /\ s[b] # s[a] /\ ~Ahead(s[a], s[b], by)
      BY <3>1, <1>2, <1>5
    <3> QED
      BY <3>2, <1>3, <1>6
  <2> QED
    BY <2>1, <2>2
<1>8. ASSUME NEW i \in UpTo(s[a]) PROVE \E b \in 1..a : s[b] = i
  <2>1. PICK b \in 1..n : s[b] = i
    BY <1>2, <1>6
  <2>2. ~(a < b)
    BY <2>1, <1>2, <1>4, <1>5, <1>6
  <2>3. b \in 1..a
    BY <2>1, <2>2, <1>2, <1>5
  <2> QED
    BY <2>1, <2>3
<1>9. a \in Nat /\ \A b, d \in 1..a : b # d => s[b] # s[d]
  <2>1. a \in Nat /\ \A b \in 1..a : b \in 1..n
    BY <1>2, <1>5
  <2> QED
    BY <2>1, <1>2
<1>10. f \in Bijection(1..a, UpTo(s[a]))
  <2>1. f \in [1..a -> UpTo(s[a])]
    BY <1>7
  <2>2. IsInjective(f)
    BY <1>9 DEF IsInjective
  <2>3. \A i \in UpTo(s[a]) : \E b \in 1..a : f[b] = i
    BY <1>8
  <2> QED
    BY <2>1, <2>2, <2>3 DEF Bijection, Injection, Surjection
<1>11. Cardinality(UpTo(s[a])) = a
  BY <1>9, <1>10, FS_CountingElements DEF ExistsBijection
<1> QED
  BY <1>2, <1>5, <1>11 DEF Place

(* What a stable query selects, and in which order. *)
LEMMA StableSelects ==
    ASSUME TypeOK, NEW q \in Query, Stable(q)
    PROVE  /\ Matches(BuildWhere(q)) = {i \in Exists : Asked(i, q)}
           /\ OrderBy(q).field = "createdAt"
<1>1. OrderBy(q).field = "createdAt"
  BY DEF Stable, OrderBy, Query
<1> DEFINE w == BuildWhere(q)
<1>2. w.status = Status /\ w.search = q.search /\ w.gte = 0 /\ w.lte = 0
  BY DEF Stable, BuildWhere, ParseStatuses, ParseDate
<1> HIDE DEF w
<1>3. \A i \in Exists : rows[i].status \in Status /\ rows[i].runAt \in Time \cup {0}
  BY DEF Exists, TypeOK, Row
<1>4. \A t \in Time : DayOf(t) # 0
  BY PagesAssumption DEF DayOf, Time
<1>5. \A i \in Exists : (q.search # NoSearch => Hit(i, q.search)) <=> Asked(i, q)
  BY <1>3, <1>4 DEF Stable, Hit, Asked
<1>6. Matches(w) = {i \in Exists : Asked(i, q)}
  BY <1>2, <1>3, <1>5 DEF Matches
<1> QED
  BY <1>1, <1>6 DEF w

LEMMA StableSortable ==
    ASSUME TypeOK, walk.pc # "idle", Stable(walk.query)
    PROVE  Sortable(Chosen, OrderBy(walk.query))
BY WalkType, StableSelects, CreatedSortable, MatchesFinite DEF Chosen

(* The code's filter is the documented one. *)
LEMMA WantedIsChosen ==
    ASSUME TypeOK, walk.pc # "idle"
    PROVE  Wanted(walk.query) = Chosen
<1> DEFINE q == walk.query
           w == BuildWhere(q)
<1>1. q \in Query
  BY WalkType
<1>2. /\ w.status = ParseStatuses(q.status) /\ w.search = q.search
      /\ w.gte = ParseDate(q.startTime) /\ w.lte = ParseDate(q.endTime)
  BY DEF BuildWhere
<1>3. \A i \in Exists : rows[i].status \in Status /\ rows[i].runAt \in Time \cup {0}
  BY DEF Exists, TypeOK, Row
<1>4. q.startTime \in Time \cup {0, Garbled} /\ q.endTime \in Time \cup {0, Garbled}
  BY <1>1 DEF Query
<1> HIDE DEF q, w
<1>5. \A i \in Exists :
         rows[i].status \in w.status <=>
            ((\E s \in Status : s \in q.status) => rows[i].status \in q.status)
  BY <1>2, <1>3 DEF ParseStatuses
<1>6. \A i \in Exists :
         ((w.gte # 0 => rows[i].runAt >= w.gte) /\ (w.lte # 0 => rows[i].runAt \in 1..w.lte)) <=>
            \/ {q.startTime, q.endTime} \cap Time = {}
            \/ \E t \in Time : /\ rows[i].runAt = t
                               /\ q.startTime \in Time => q.startTime <= t
                               /\ q.endTime \in Time => t <= q.endTime
  <2> SUFFICES ASSUME NEW i \in Exists
               PROVE  ((w.gte # 0 => rows[i].runAt >= w.gte)
                         /\ (w.lte # 0 => rows[i].runAt \in 1..w.lte)) <=>
                      \/ {q.startTime, q.endTime} \cap Time = {}
                      \/ \E t \in Time : /\ rows[i].runAt = t
                                         /\ q.startTime \in Time => q.startTime <= t
                                         /\ q.endTime \in Time => t <= q.endTime
    OBVIOUS
  <2>1. 0 \notin Time /\ Time \subseteq Nat /\ \A t \in Time : t >= 1
    BY PagesAssumption DEF Time
  <2>2. w.gte = (IF q.startTime \in Time THEN q.startTime ELSE 0)
        /\ w.lte = (IF q.endTime \in Time THEN q.endTime ELSE 0)
    BY <1>2 DEF ParseDate
  <2>3. rows[i].runAt \in Time \cup {0}
    BY <1>3
  <2>4. CASE q.startTime \notin Time /\ q.endTime \notin Time
    BY <2>2, <2>4
  <2>5. CASE q.startTime \in Time /\ q.endTime \notin Time
    <3>1. w.gte = q.startTime /\ w.gte \in Nat /\ w.gte >= 1 /\ w.lte = 0
      BY <2>1, <2>2, <2>5
    <3>2. rows[i].runAt >= w.gte <=>
             \E t \in Time : rows[i].runAt = t /\ q.startTime <= t
      BY <3>1, <2>1, <2>3
    <3>3. {q.startTime, q.endTime} \cap Time # {}
      BY <2>5
    <3> QED
      BY <3>1, <3>2, <3>3, <2>5
  <2>6. CASE q.startTime \notin Time /\ q.endTime \in Time
    BY <2>1, <2>2, <2>3, <2>6
  <2>7. CASE q.startTime \in Time /\ q.endTime \in Time
    BY <2>1, <2>2, <2>3, <2>7
  <2> QED
    BY <2>4, <2>5, <2>6, <2>7
<1>7. Wanted(q) = Matches(w)
  BY <1>2, <1>5, <1>6 DEF Wanted, Matches
<1> QED
  BY <1>7 DEF q, w, Chosen

-----------------------------------------------------------------------------
(* Pages *)

LEMMA MinOfTwo ==
    ASSUME NEW a \in Nat, NEW b \in Nat
    PROVE  Min({a, b}) = IF a <= b THEN a ELSE b
<1>1. \E x \in {a, b} : \A y \in {a, b} : x <= y
  OBVIOUS
<1>2. Min({a, b}) \in {a, b} /\ \A y \in {a, b} : Min({a, b}) <= y
  BY <1>1 DEF Min
<1> QED
  BY <1>2

LEMMA MaxOfTwo ==
    ASSUME NEW a \in Nat, NEW b \in Nat
    PROVE  Max({a, b}) = IF a <= b THEN b ELSE a
<1>1. \E x \in {a, b} : \A y \in {a, b} : x >= y
  OBVIOUS
<1>2. Max({a, b}) \in {a, b} /\ \A y \in {a, b} : Max({a, b}) >= y
  BY <1>1 DEF Max
<1> QED
  BY <1>2

(* What the page of size t after the first k rows of a listing holds. *)
IsPage(p, s, k, t) ==
    /\ p \in Seq(Id) /\ Len(p) \in Nat
    /\ Len(p) = (IF Len(s) <= k THEN 0 ELSE IF Len(s) <= k + t THEN Len(s) - k ELSE t)
    /\ \A a \in 1..Len(p) : k + a \in 1..Len(s) /\ p[a] = s[k + a]

LEMMA PageOfListing ==
    ASSUME NEW s \in Seq(Id), NEW k \in Nat, NEW t \in Nat \ {0}, NEW p,
           p = SubSeq(s, k + 1, Min({Len(s), k + t}))
    PROVE  IsPage(p, s, k, t)
<1> DEFINE n == Len(s)
           m == Min({n, k + t})
<1>1. n \in Nat /\ k + t \in Nat /\ \A a \in 1..n : s[a] \in Id
  BY ElementOfSeq, LenProperties
<1>2. m = IF n <= k + t THEN n ELSE k + t
  BY <1>1, MinOfTwo
<1> DEFINE lo == k + 1
<1>3. p = SubSeq(s, lo, m)
  OBVIOUS
<1> HIDE DEF n, m
<1>4. lo \in Int /\ m \in Int
  BY <1>1, <1>2
<1>5. \A a \in lo..m : a \in 1..n
  BY <1>1, <1>2
<1>6. \A a \in lo..m : s[a] \in Id
  BY <1>1, <1>5
<1> HIDE DEF lo
<1>7. /\ SubSeq(s, lo, m) \in Seq(Id)
      /\ Len(SubSeq(s, lo, m)) = IF lo <= m THEN m - lo + 1 ELSE 0
      /\ \A a \in 1..(m - lo + 1) : SubSeq(s, lo, m)[a] = s[lo + a - 1]
  <2>1. SubSeq(s, lo, m) \in Seq(Id)
    BY <1>4, <1>6, SubSeqProperties, SMT
  <2>2. Len(SubSeq(s, lo, m)) = IF lo <= m THEN m - lo + 1 ELSE 0
    BY <1>4, <1>6, SubSeqProperties, SMT
  <2>3. \A a \in 1..(m - lo + 1) : SubSeq(s, lo, m)[a] = s[lo + a - 1]
    BY <1>4, <1>6, SubSeqProperties, SMT
  <2> QED
    BY <2>1, <2>2, <2>3
<1>8. p \in Seq(Id) /\ Len(p) \in Nat
  BY <1>3, <1>7, LenProperties
<1>9. Len(p) = IF lo <= m THEN m - lo + 1 ELSE 0
  BY <1>3, <1>7
<1>10. Len(p) = (IF n <= k THEN 0 ELSE IF n <= k + t THEN n - k ELSE t)
  <2> DEFINE l == Len(p)
  <2>1. l = IF lo <= m THEN m - lo + 1 ELSE 0
    BY <1>9
  <2>2. lo = k + 1 /\ n \in Nat
    BY <1>1 DEF lo
  <2> HIDE DEF l
  <2>3. l = (IF n <= k THEN 0 ELSE IF n <= k + t THEN n - k ELSE t)
    BY <1>2, <2>1, <2>2
  <2> QED
    BY <2>3 DEF l
<1>11. ASSUME NEW a \in 1..Len(p) PROVE k + a \in 1..n /\ p[a] = s[k + a]
  <2>1. a \in 1..(m - lo + 1) /\ k + a \in 1..n /\ lo + a - 1 = k + a
    <3>1. ASSUME NEW l \in Nat, l = (IF lo <= m THEN m - lo + 1 ELSE 0), a \in 1..l
          PROVE  a \in 1..(m - lo + 1) /\ k + a \in 1..n /\ lo + a - 1 = k + a
      BY <3>1, <1>1, <1>2 DEF lo
    <3> QED
      BY <3>1, <1>8, <1>9
  <2>2. p[a] = s[lo + a - 1]
    BY <2>1, <1>3, <1>7, Zenon
  <2> QED
    BY <2>1, <2>2
<1> QED
  BY <1>8, <1>10, <1>11 DEF n, IsPage

(* Two statements that found the same rows fit together. *)
LEMMA StatementsFit ==
    ASSUME TypeOK, StatementsAgree
    PROVE  TotalFitsPage
BY DEF StatementsAgree, TotalFitsPage

-----------------------------------------------------------------------------
(* The statements of the client: the rows stay as they are *)

LEMMA SameRows ==
    ASSUME rows' = rows, walk'.query = walk.query
    PROVE  /\ Exists' = Exists /\ Chosen' = Chosen
           /\ \A i : UpTo(i)' = UpTo(i) /\ Place(i)' = Place(i)
           /\ Sortable(Chosen, OrderBy(walk.query))' <=> Sortable(Chosen, OrderBy(walk.query))
<1>1. Exists' = Exists
  BY DEF Exists
<1>2. Chosen' = Chosen
  BY <1>1 DEF Chosen, Matches, Hit, BuildWhere
<1>3. OrderBy(walk.query)' = OrderBy(walk.query)
  BY DEF OrderBy
<1>4. \A i, j, by : Ahead(i, j, by)' <=> Ahead(i, j, by)
  BY DEF Ahead, SortKey
<1>5. \A i : UpTo(i)' = UpTo(i)
  BY <1>2, <1>3, <1>4 DEF UpTo
<1>6. \A i : Place(i)' = Place(i)
  BY <1>5 DEF Place
<1>7. Sortable(Chosen, OrderBy(walk.query))' <=> Sortable(Chosen, OrderBy(walk.query))
  BY <1>2, <1>3, <1>4 DEF Sortable
<1> QED
  BY <1>1, <1>2, <1>5, <1>6, <1>7

(* The fields of a walk after the updates of it. *)
LEMMA WalkUpdates ==
    ASSUME NEW w \in Walk
    PROVE  /\ \A q \in Request :
                LET v == [w EXCEPT !.pc = "asked", !.query = q]
                IN  /\ v \in Walk /\ v.pc = "asked" /\ v.query = q /\ v.skip = w.skip
                    /\ v.page = w.page /\ v.total = w.total
           /\ \A p \in Seq(Id) \cup {NoRow} :
                LET v == [w EXCEPT !.page = p]
                IN  /\ v \in Walk /\ v.pc = w.pc /\ v.query = w.query /\ v.skip = w.skip
                    /\ v.page = p /\ v.total = w.total
           /\ \A n \in 0..MaxRow :
                LET v == [w EXCEPT !.total = n]
                IN  /\ v \in Walk /\ v.pc = w.pc /\ v.query = w.query /\ v.skip = w.skip
                    /\ v.page = w.page /\ v.total = n
           /\ LET v == [w EXCEPT !.pc = "done"]
              IN  /\ v \in Walk /\ v.pc = "done" /\ v.query = w.query /\ v.skip = w.skip
                  /\ v.page = w.page /\ v.total = w.total
           /\ \A k \in 0..MaxRow :
                LET v == [w EXCEPT !.skip = k, !.page = NoRow, !.total = NoRow]
                IN  /\ v \in Walk /\ v.pc = w.pc /\ v.query = w.query /\ v.skip = k
                    /\ v.page = NoRow /\ v.total = NoRow
BY DEF Walk

LEMMA NoWalkType ==
    /\ NoWalk \in Walk /\ NoWalk.pc = "idle" /\ NoWalk.skip = 0
    /\ NoWalk.page = NoRow /\ NoWalk.total = NoRow
BY PagesAssumption DEF NoWalk, Walk

LEMMA NoRowIsOther == NoRow \notin Query /\ NoRow \notin Seq(Id) /\ NoRow \notin Nat
BY PagesAssumption

(* What the client has been given is a sequence of rows. *)
LEMMA GivenType ==
    ASSUME TypeOK
    PROVE  /\ seen \in Seq(Id) /\ Given \in Seq(Id)
           /\ walk.page # NoRow => walk.page \in Seq(Id)
           /\ Len(seen) \in Nat /\ Len(Given) \in Nat
<1>1. seen \in Seq(Id) /\ (walk.page # NoRow => walk.page \in Seq(Id))
  BY DEF TypeOK, Walk
<1>2. Given \in Seq(Id)
  BY <1>1, ConcatProperties DEF Given
<1> QED
  BY <1>1, <1>2, LenProperties

LEMMA InitInv == Init => PagesInv
<1> SUFFICES ASSUME Init PROVE PagesInv
  OBVIOUS
<1>1. walk = NoWalk /\ walk.pc = "idle" /\ seen = <<>>
  BY NoWalkType DEF Init
<1>2. Exists = {}
  BY DEF Init, Exists
<1>3. TypeOK
  <2>1. rows \in [Id -> Row \cup {NoRow}] /\ made = 0 /\ fresh = 0
    BY DEF Init
  <2>2. 0 \in 0..MaxRow /\ <<>> \in Seq(Id)
    BY PagesAssumption
  <2> QED
    <3>1. walk \in Walk /\ walk.pc = "idle" /\ walk.page = NoRow
      BY <1>1, NoWalkType
    <3>2. seen \in Seq(Id)
      BY <1>1, <2>2
    <3>3. made \in 0..MaxRow /\ fresh \in 0..made
      BY <2>1, <2>2
    <3> QED
      BY <2>1, <3>1, <3>2, <3>3 DEF Init, TypeOK
<1>4. RowsInOrder
  BY <1>2 DEF Init, RowsInOrder
<1> QED
  BY <1>1, <1>3, <1>4 DEF PagesInv, OffsetIsLength, StatementsAgree, TotalFitsPage, QuietPages,
     PlacesAreGiven, NothingHidden, RepeatsAreDue

LEMMA AskInv ==
    ASSUME PagesInv, NEW q \in Request, Ask(q)
    PROVE  PagesInv'
<1>1. /\ walk' \in Walk /\ walk'.pc = "asked" /\ walk'.query = q /\ walk'.skip = 0
      /\ walk'.page = NoRow /\ walk'.total = NoRow
  BY NoWalkType, WalkUpdates DEF Ask
<1>2. /\ seen' = <<>> /\ fresh' = 0
      /\ rows' = rows /\ made' = made /\ gone' = gone /\ quiet' = TRUE /\ steady' = TRUE
  BY DEF Ask
<1>3. q # NoRow
  BY NoRowIsOther, PagesAssumption
<1>4. TypeOK'
  <2>1. 0 \in 0..made /\ <<>> \in Seq(Id)
    BY PagesAssumption DEF PagesInv, TypeOK
  <2> QED
    BY <1>1, <1>2, <1>3, <2>1 DEF PagesInv, TypeOK
<1>5. RowsInOrder'
  BY <1>2 DEF PagesInv, RowsInOrder, Exists
<1>6. Given' = seen' /\ Len(seen') = 0 /\ DOMAIN seen' = {} /\ Range(seen') = {}
  BY <1>1, <1>2 DEF Given, Range
<1>7. OffsetIsLength'
  BY <1>1, <1>2, <1>6 DEF OffsetIsLength
<1>8. StatementsAgree' /\ TotalFitsPage'
  BY <1>1 DEF StatementsAgree, TotalFitsPage
<1>9. QuietPages'
  BY <1>1, <1>6 DEF QuietPages
<1>10. PlacesAreGiven' /\ NothingHidden'
  <2>1. \A i \in Chosen' : ~(Place(i)' <= 0)
    BY PlaceTypePrime
  <2> QED
    BY <1>1, <2>1 DEF PlacesAreGiven, Old, NothingHidden
<1>11. RepeatsAreDue'
  <2>1. Cardinality({}) = 0
    BY FS_EmptySet
  <2> QED
    <3>1. fresh' = 0 /\ Len(seen') <= Cardinality(Range(seen')) + 0
      <4>1. fresh' = 0
        BY <1>2
      <4> QED
        BY <4>1, <1>6, <2>1
    <3>2. Repeats(seen)'
      BY <3>1, <1>6 DEF Repeats
    <3>3. Repeats(Given)'
      BY <3>1, <1>6 DEF Repeats
    <3> QED
      BY <3>2, <3>3 DEF RepeatsAreDue
<1> QED
  BY <1>4, <1>5, <1>7, <1>8, <1>9, <1>10, <1>11 DEF PagesInv

(* A statement that has answered with the page of a listing. *)
LEMMA FindManyInv ==
    ASSUME PagesInv, FindMany
    PROVE  PagesInv'
<1> DEFINE by == OrderBy(walk.query)
           k  == walk.skip
           t  == Take(walk.query)
<1>1. PICK s \in Listings(BuildWhere(walk.query), by) :
         walk' = [walk EXCEPT !.page = SubSeq(s, k + 1, Min({Len(s), k + t}))]
  BY DEF FindMany
<1> DEFINE p == SubSeq(s, k + 1, Min({Len(s), k + t}))
<1>2. /\ walk.pc = "asked" /\ walk.page = NoRow
      /\ rows' = rows /\ made' = made /\ gone' = gone /\ seen' = seen
      /\ fresh' = fresh /\ quiet' = quiet /\ steady' = steady
  BY DEF FindMany
<1>3. TypeOK /\ walk \in Walk /\ walk.query \in Query /\ walk.query # NoRow
  BY <1>2, WalkType DEF PagesInv, TypeOK
<1>4. /\ t \in Nat \ {0} /\ k \in Nat /\ by \in Orders
  BY <1>2, <1>3, WalkType
<1>5. /\ s \in Seq(Id) /\ Len(s) = Cardinality(Chosen) /\ Len(s) \in 0..MaxRow
      /\ Len(s) \in Nat /\ Chosen \subseteq Id
      /\ \A a \in 1..Len(s) : s[a] \in Chosen
      /\ \A i \in Chosen : \E a \in 1..Len(s) : s[a] = i
      /\ \A a, b \in 1..Len(s) : a # b => s[a] # s[b]
  BY ListingHasAll, MatchesFinite, PagesAssumption DEF Chosen
<1>5a. p = SubSeq(s, k + 1, Min({Len(s), k + t})) /\ walk' = [walk EXCEPT !.page = p]
  BY <1>1
<1> HIDE DEF by, k, t, p
<1>6. /\ p \in Seq(Id) /\ Len(p) \in Nat
      /\ Len(p) = (IF Len(s) <= k THEN 0 ELSE IF Len(s) <= k + t THEN Len(s) - k ELSE t)
      /\ \A a \in 1..Len(p) : k + a \in 1..Len(s) /\ p[a] = s[k + a]
  <2>1. s \in Seq(Id) /\ k \in Nat /\ t \in Nat \ {0}
    BY <1>4, <1>5
  <2>2. p = SubSeq(s, k + 1, Min({Len(s), k + t}))
    BY <1>5a
  <2>3. IsPage(p, s, k, t)
    BY <2>1, <2>2, PageOfListing, Zenon
  <2> QED
    BY <2>3 DEF IsPage
<1>7. /\ walk' \in Walk /\ walk'.pc = "asked" /\ walk'.query = walk.query /\ walk'.skip = k
      /\ walk'.page = p /\ walk'.total = walk.total
  <2>1. p \in Seq(Id) \cup {NoRow} /\ walk \in Walk
    BY <1>3, <1>6
  <2>2. LET v == [walk EXCEPT !.page = p]
        IN  /\ v \in Walk /\ v.pc = walk.pc /\ v.query = walk.query /\ v.skip = walk.skip
            /\ v.page = p /\ v.total = walk.total
    BY <2>1, WalkUpdates, Zenon
  <2> QED
    BY <2>2, <1>2, <1>5a, Zenon DEF k
<1>8. p # NoRow
  BY <1>6, NoRowIsOther
<1>9. /\ Exists' = Exists /\ Chosen' = Chosen
      /\ \A i : UpTo(i)' = UpTo(i) /\ Place(i)' = Place(i)
      /\ Sortable(Chosen, OrderBy(walk.query))' <=> Sortable(Chosen, by)
  BY <1>2, <1>7, SameRows DEF by
<1>10. /\ seen \in Seq(Id) /\ Len(seen) = k /\ Given = seen /\ Given' = seen \o p
       /\ seen \o p \in Seq(Id) /\ Len(seen \o p) = k + Len(p)
       /\ \A a \in 1..(k + Len(p)) :
             (seen \o p)[a] = IF a <= k THEN seen[a] ELSE p[a - k]
       /\ Range(seen \o p) = Range(seen) \cup Range(p)
  <2>1. seen \in Seq(Id) /\ Len(seen) = k /\ Given = seen
    BY <1>2, <1>3, GivenType DEF PagesInv, OffsetIsLength, Given, k
  <2>2. Given' = seen \o p
    BY <1>2, <1>7, <1>8 DEF Given
  <2> QED
    BY <2>1, <2>2, <1>6, ConcatProperties, RangeConcatenation
<1>11. \A a \in 1..Len(p) : p[a] \in Range(p)
  BY <1>6, LenProperties DEF Range
<1>12. ASSUME Sortable(Chosen, by), NEW a \in 1..Len(s) PROVE Place(s[a]) = a
  BY <1>2, <1>3, <1>12, PlaceIsPosition DEF by
<1>13. TypeOK'
  <2>1. Len(p) <= t
    BY <1>4, <1>5, <1>6
  <2> QED
    BY <1>2, <1>3, <1>7, <2>1 DEF TypeOK, t
<1>14. RowsInOrder'
  BY <1>2, <1>9 DEF PagesInv, RowsInOrder
<1>15. OffsetIsLength'
  <2>1. Len(p) > 0 => k + Len(p) <= MaxRow
    BY <1>4, <1>5, <1>6, PagesAssumption
  <2> QED
    BY <1>2, <1>7, <1>10, <2>1 DEF OffsetIsLength
<1>16. StatementsAgree' /\ TotalFitsPage'
  <2> DEFINE n == Cardinality(Chosen)
  <2>1. Len(p) = Min({t, Max({k, n}) - k})
    <3>1. n \in Nat /\ Max({k, n}) = IF k <= n THEN n ELSE k
      BY <1>4, <1>5, MaxOfTwo
    <3>2. Max({k, n}) - k \in Nat
      BY <1>4, <3>1
    <3>3. Min({t, Max({k, n}) - k}) = IF t <= Max({k, n}) - k THEN t ELSE Max({k, n}) - k
      BY <1>4, <3>2, MinOfTwo
    <3>4. Len(p) = (IF n <= k THEN 0 ELSE IF n <= k + t THEN n - k ELSE t)
      BY <1>5, <1>6
    <3> HIDE DEF n
    <3> QED
      BY <1>4, <3>1, <3>3, <3>4
  <2>2. StatementsAgree'
    BY <1>2, <1>7, <1>9, <2>1 DEF PagesInv, StatementsAgree, Take, t, k
  <2> QED
    BY <2>2, <1>13, StatementsFit, PTL
<1>17. QuietPages'
  <2> SUFFICES ASSUME quiet, Sortable(Chosen, by)
               PROVE  /\ \A a \in DOMAIN Given' :
                            Given'[a] \in Chosen /\ Place(Given'[a]) = a
                      /\ Len(p) < t => Cardinality(Chosen) <= Len(Given')
    BY <1>2, <1>7, <1>9, <1>10 DEF QuietPages, Take, t
  <2>1. \A a \in 1..k : seen[a] \in Chosen /\ Place(seen[a]) = a
    BY <1>2, <1>10, LenProperties DEF PagesInv, QuietPages, by
  <2>2. \A a \in 1..Len(p) : p[a] \in Chosen /\ Place(p[a]) = k + a
    BY <1>5, <1>6, <1>12
  <2>3. DOMAIN Given' = 1..(k + Len(p)) /\ Len(Given') = k + Len(p)
    BY <1>10, LenProperties
  <2>4. ASSUME NEW a \in 1..(k + Len(p))
        PROVE  Given'[a] \in Chosen /\ Place(Given'[a]) = a
    <3>1. CASE a <= k
      <4>1. Given'[a] = seen[a] /\ a \in 1..k
        BY <3>1, <1>4, <1>6, <1>10
      <4> QED
        BY <4>1, <2>1
    <3>2. CASE ~(a <= k)
      <4>1. Given'[a] = p[a - k] /\ a - k \in 1..Len(p) /\ k + (a - k) = a
        BY <3>2, <1>4, <1>6, <1>10
      <4> QED
        BY <4>1, <2>2
    <3> QED
      BY <3>1, <3>2
  <2>5. Len(p) < t => Cardinality(Chosen) <= k + Len(p)
    BY <1>4, <1>5, <1>6
  <2> QED
    BY <2>3, <2>4, <2>5
<1>18. ASSUME Stable(walk.query) PROVE Sortable(Chosen, by)
  BY <1>2, <1>3, <1>18, StableSortable DEF by
<1>19. PlacesAreGiven' /\ NothingHidden'
  <2> SUFFICES ASSUME Stable(walk.query), NEW i \in Old
               PROVE  /\ Place(i) <= k => i \in Range(seen)
                      /\ Place(i) <= k + t \/ Len(p) < t => i \in Range(seen \o p)
    BY <1>2, <1>7, <1>9, <1>10 DEF PlacesAreGiven, NothingHidden, Old, Stable, Take, t
  <2>1. Place(i) <= k => i \in Range(seen)
    BY <1>2 DEF PagesInv, PlacesAreGiven, k
  <2>2. PICK a \in 1..Len(s) : s[a] = i
    BY <1>5 DEF Old
  <2>3. Place(i) = a
    BY <1>12, <1>18, <2>2
  <2>4. ASSUME ~(a <= k), a <= k + t \/ Len(p) < t PROVE i \in Range(p)
    <3>1. a - k \in 1..Len(p) /\ k + (a - k) = a
      BY <2>4, <1>4, <1>5, <1>6
    <3>2. p[a - k] = i
      BY <3>1, <2>2, <1>6
    <3> QED
      BY <3>1, <3>2, <1>11
  <2> QED
    BY <2>1, <2>3, <2>4, <1>10
<1>20. RepeatsAreDue'
  <2> SUFFICES ASSUME Stable(walk.query)
               PROVE  Repeats(seen) /\ Repeats(seen \o p)
    BY <1>2, <1>7, <1>9, <1>10 DEF RepeatsAreDue, Repeats, Stable
  <2>1. Repeats(seen)
    BY <1>2 DEF PagesInv, RepeatsAreDue
  <2> DEFINE c == Cardinality(Range(seen))
             d == Cardinality(Range(seen \o p))
  <2>2. /\ IsFiniteSet(Range(seen)) /\ IsFiniteSet(Range(seen \o p))
        /\ c \in Nat /\ d \in Nat /\ c <= d
    <3>1. Range(seen) \subseteq Range(seen \o p) /\ Range(seen \o p) \subseteq 1..MaxRow
      BY <1>10, RangeOfSeq DEF Id
    <3>2. IsFiniteSet(1..MaxRow)
      BY FS_Interval, PagesAssumption
    <3>3. IsFiniteSet(Range(seen \o p))
      BY <3>1, <3>2, FS_Subset
    <3>4. IsFiniteSet(Range(seen)) /\ c <= d
      BY <3>1, <3>3, FS_Subset
    <3> QED
      BY <3>3, <3>4, FS_CardinalityType
  <2>3. /\ fresh \in Nat /\ k <= c + fresh
        /\ \A i \in Range(seen) \cap Chosen : Place(i) <= c + fresh
    BY <2>1, <1>3, <1>10, PagesAssumption DEF Repeats, TypeOK
  <2>4. Range(seen \o p) \subseteq 1..made
    <3>1. Range(p) \subseteq Chosen
      BY <1>5, <1>6, LenProperties DEF Range
    <3>2. Chosen \subseteq 1..made
      BY MatchesFinite DEF PagesInv, RowsInOrder, Chosen
    <3> QED
      BY <3>1, <3>2, <2>1, <1>10 DEF Repeats
  (* The places from c + fresh on were not given before. *)
  <2>5. k + Len(p) <= d + fresh
    <3>1. CASE k + Len(p) <= c + fresh
      BY <3>1, <2>2, <2>3, <1>4, <1>6
    <3>2. CASE ~(k + Len(p) <= c + fresh)
      <4> DEFINE m == c + fresh - k
                 D == (m + 1)..Len(p)
                 N == Range(p) \ Range(seen)
                 g == [a \in D |-> p[a]]
      <4>1. m \in Nat /\ m < Len(p) /\ m + k = c + fresh
        BY <3>2, <2>2, <2>3, <1>4, <1>6
      <4>2. \A a \in D : a \in 1..Len(p) /\ k + a > c + fresh
        BY <4>1, <1>4, <1>6, <2>2, <2>3
      <4>3. \A a \in D : p[a] \in N
        <5> SUFFICES ASSUME NEW a \in D PROVE p[a] \notin Range(seen) /\ p[a] \in Range(p)
          OBVIOUS
        <5>1. a \in 1..Len(p) /\ k + a > c + fresh
          BY <4>2
        <5>2. p[a] \in Chosen /\ Place(p[a]) = k + a
          BY <5>1, <1>5, <1>6, <1>12, <1>18
        <5>3. c + fresh \in Nat /\ k + a \in Nat
          BY <5>1, <2>2, <2>3, <1>4, <1>6
        <5> QED
          BY <5>1, <5>2, <5>3, <2>3, <1>11
      <4>4. \A a, b \in D : p[a] = p[b] => a = b
        <5> SUFFICES ASSUME NEW a \in D, NEW b \in D, a # b PROVE p[a] # p[b]
          OBVIOUS
        <5>1. a \in 1..Len(p) /\ b \in 1..Len(p)
          BY <4>2
        <5>2. k + a # k + b /\ k + a \in 1..Len(s) /\ k + b \in 1..Len(s)
          BY <5>1, <1>4, <1>6
        <5> QED
          BY <5>1, <5>2, <1>5, <1>6
      <4>5. IsFiniteSet(N) /\ Cardinality(N) \in Nat /\ d = c + Cardinality(N)
        <5>1. N = Range(seen \o p) \ Range(seen) /\ Range(seen) \cup N = Range(seen \o p)
              /\ Range(seen) \cap N = {}
          BY <1>10
        <5>2. IsFiniteSet(N)
          BY <5>1, <2>2, FS_Difference
        <5>3. Cardinality(N) \in Nat
          BY <5>2, FS_CardinalityType
        <5>4. d = c + Cardinality(N) - Cardinality(Range(seen) \cap N)
          BY <5>1, <5>2, <2>2, FS_Union
        <5> QED
          BY <5>1, <5>2, <5>3, <5>4, <2>2, FS_EmptySet
      <4>6. Cardinality(D) = Len(p) - m
        <5> HIDE DEF m
        <5>1. m + 1 \in Int /\ Len(p) \in Int /\ ~(m + 1 > Len(p))
          BY <4>1, <1>6
        <5>2. Cardinality((m + 1)..Len(p)) = Len(p) - (m + 1) + 1
          BY <5>1, FS_Interval, Zenon
        <5> QED
          BY <4>1, <5>1, <5>2
      <4>7. Cardinality(D) <= Cardinality(N)
        <5>1. g \in Injection(D, N)
          BY <4>3, <4>4 DEF Injection, IsInjective
        <5> QED
          BY <5>1, <4>5, FS_Injection
      <4> HIDE DEF m, D, N
      <4> QED
        BY <4>1, <4>5, <4>6, <4>7, <2>2, <2>3, <1>4, <1>6
    <3> QED
      BY <3>1, <3>2
  <2>6. ASSUME NEW i \in Range(seen \o p) \cap Chosen PROVE Place(i) <= d + fresh
    <3>1. CASE i \in Range(seen)
      BY <3>1, <2>2, <2>3, PlaceType
    <3>2. CASE i \in Range(p)
      <4>1. PICK a \in 1..Len(p) : p[a] = i
        BY <3>2, <1>6, LenProperties DEF Range
      <4>2. Place(i) = k + a
        BY <4>1, <1>6, <1>12, <1>18
      <4> QED
        BY <4>1, <4>2, <2>2, <2>3, <2>5, <1>4, <1>6
    <3> QED
      BY <3>1, <3>2, <1>10
  <2>7. Repeats(seen \o p)
    BY <2>4, <2>5, <2>6, <1>10 DEF Repeats
  <2> QED
    BY <2>1, <2>7
<1> QED
  BY <1>13, <1>14, <1>15, <1>16, <1>17, <1>19, <1>20 DEF PagesInv

LEMMA CountInv ==
    ASSUME PagesInv, Count
    PROVE  PagesInv'
<1> DEFINE n == Cardinality(Chosen)
<1>1. /\ walk.pc = "asked" /\ walk.total = NoRow /\ walk' = [walk EXCEPT !.total = n]
      /\ rows' = rows /\ made' = made /\ gone' = gone /\ seen' = seen
      /\ fresh' = fresh /\ quiet' = quiet /\ steady' = steady
  BY DEF Count, Chosen
<1>2. TypeOK /\ walk \in Walk /\ n \in 0..MaxRow
  BY MatchesFinite DEF PagesInv, TypeOK, Chosen
<1> HIDE DEF n
<1>3. /\ walk' \in Walk /\ walk'.pc = "asked" /\ walk'.query = walk.query
      /\ walk'.skip = walk.skip /\ walk'.page = walk.page /\ walk'.total = n
  <2>1. LET v == [walk EXCEPT !.total = n]
        IN  /\ v \in Walk /\ v.pc = walk.pc /\ v.query = walk.query /\ v.skip = walk.skip
            /\ v.page = walk.page /\ v.total = n
    BY <1>2 DEF Walk
  <2> QED
    BY <2>1, <1>1, Zenon
<1>4. /\ Exists' = Exists /\ Chosen' = Chosen
      /\ \A i : UpTo(i)' = UpTo(i) /\ Place(i)' = Place(i)
      /\ Sortable(Chosen, OrderBy(walk.query))' <=> Sortable(Chosen, OrderBy(walk.query))
  BY <1>1, <1>3, SameRows
<1>5. Given' = Given
  BY <1>1, <1>3 DEF Given
<1>6. TypeOK'
  BY <1>1, <1>2, <1>3 DEF TypeOK, Take
<1>7. RowsInOrder' /\ OffsetIsLength'
  BY <1>1, <1>3, <1>4 DEF PagesInv, RowsInOrder, OffsetIsLength
<1>8. StatementsAgree' /\ TotalFitsPage'
  <2>1. StatementsAgree'
    BY <1>1, <1>3, <1>4 DEF PagesInv, StatementsAgree, Take, n
  <2> QED
    BY <2>1, <1>6, StatementsFit, PTL
<1>9. QuietPages'
  BY <1>1, <1>3, <1>4, <1>5 DEF PagesInv, QuietPages, Take
<1>10. PlacesAreGiven' /\ NothingHidden'
  BY <1>1, <1>3, <1>4, <1>5
     DEF PagesInv, PlacesAreGiven, NothingHidden, Old, Stable, Take
<1>11. RepeatsAreDue'
  BY <1>1, <1>3, <1>4, <1>5 DEF PagesInv, RepeatsAreDue, Repeats, Stable
<1> QED
  BY <1>6, <1>7, <1>8, <1>9, <1>10, <1>11 DEF PagesInv

LEMMA QueryFailsInv ==
    ASSUME PagesInv, QueryFails
    PROVE  PagesInv'
<1>1. /\ walk' = NoWalk /\ rows' = rows /\ made' = made /\ gone' = gone
      /\ fresh' = fresh /\ quiet' = quiet /\ steady' = steady /\ seen' \in Seq(Id)
  <2>1. <<>> \in Seq(Id)
    OBVIOUS
  <2> QED
    BY <2>1 DEF QueryFails
<1>2. walk' \in Walk /\ walk'.pc = "idle" /\ walk'.page = NoRow
  BY <1>1, NoWalkType
<1>3. TypeOK' /\ RowsInOrder'
  BY <1>1, <1>2 DEF PagesInv, TypeOK, RowsInOrder, Exists
<1> QED
  BY <1>2, <1>3 DEF PagesInv, OffsetIsLength, StatementsAgree, TotalFitsPage, QuietPages,
     PlacesAreGiven, NothingHidden, RepeatsAreDue

(* The page of the answer is what the client was given already. *)
LEMMA AnswerPageInv ==
    ASSUME PagesInv, AnswerPage
    PROVE  PagesInv'
<1> DEFINE k == walk.skip
           t == Take(walk.query)
<1>1. /\ walk.pc = "asked" /\ walk.page # NoRow
      /\ seen' = seen \o walk.page
      /\ walk' = IF Len(walk.page) < t
                 THEN [walk EXCEPT !.pc = "done"]
                 ELSE [walk EXCEPT !.skip = @ + t, !.page = NoRow, !.total = NoRow]
      /\ rows' = rows /\ made' = made /\ gone' = gone
      /\ fresh' = fresh /\ quiet' = quiet /\ steady' = TRUE
  BY DEF AnswerPage
<1>2. TypeOK /\ walk \in Walk /\ walk.query # NoRow
  BY <1>1 DEF PagesInv, TypeOK
<1>3. walk.query \in Query /\ t \in Nat \ {0} /\ k \in Nat
  BY <1>1, <1>2, WalkType
<1>4. /\ seen \in Seq(Id) /\ walk.page \in Seq(Id) /\ Given \in Seq(Id)
      /\ Len(walk.page) \in Nat /\ Len(walk.page) <= t
      /\ Given = seen \o walk.page /\ Len(Given) = k + Len(walk.page) /\ seen' = Given
      /\ Len(walk.page) > 0 => k + Len(walk.page) <= MaxRow
  <2>1. /\ seen \in Seq(Id) /\ walk.page \in Seq(Id) /\ Given \in Seq(Id)
        /\ Len(walk.page) \in Nat /\ Given = seen \o walk.page
    BY <1>1, <1>2, GivenType, LenProperties DEF Given
  <2>2. Len(walk.page) <= t /\ Len(seen) = k
    BY <1>1, <1>2 DEF PagesInv, TypeOK, OffsetIsLength
  <2>3. Len(walk.page) > 0 => k + Len(walk.page) <= MaxRow
    BY <1>1 DEF PagesInv, OffsetIsLength
  <2>4. Len(Given) = Len(seen) + Len(walk.page)
    BY <2>1, ConcatProperties
  <2> QED
    BY <1>1, <2>1, <2>2, <2>3, <2>4
<1>5. /\ walk' \in Walk /\ walk'.query = walk.query
      /\ \/ /\ walk'.pc = "done" /\ Len(walk.page) < t /\ walk'.page = walk.page
         \/ /\ walk'.pc = "asked" /\ Len(walk.page) = t /\ walk'.skip = k + t
            /\ walk'.page = NoRow /\ walk'.total = NoRow
  <2>1. CASE Len(walk.page) < t
    <3>1. LET v == [walk EXCEPT !.pc = "done"]
          IN  /\ v \in Walk /\ v.pc = "done" /\ v.query = walk.query /\ v.skip = walk.skip
              /\ v.page = walk.page /\ v.total = walk.total
      BY <1>2, WalkUpdates, Zenon
    <3>2. walk' = [walk EXCEPT !.pc = "done"]
      BY <1>1, <2>1
    <3> QED
      BY <3>1, <3>2, <2>1
  <2>2. CASE ~(Len(walk.page) < t)
    <3>1. Len(walk.page) = t /\ k + t \in 0..MaxRow
      BY <2>2, <1>3, <1>4, PagesAssumption
    <3>2. LET v == [walk EXCEPT !.skip = k + t, !.page = NoRow, !.total = NoRow]
          IN  /\ v \in Walk /\ v.pc = walk.pc /\ v.query = walk.query /\ v.skip = k + t
              /\ v.page = NoRow /\ v.total = NoRow
      <4> HIDE DEF k, t
      <4> QED
        BY <1>2, <3>1 DEF Walk
    <3>3. walk' = [walk EXCEPT !.skip = k + t, !.page = NoRow, !.total = NoRow]
      BY <1>1, <2>2
    <3>4. walk'.pc = walk.pc
      BY <3>2, <3>3, Zenon
    <3> QED
      BY <3>1, <3>2, <3>3, <3>4, <1>1
  <2> QED
    BY <2>1, <2>2
<1>6. /\ Exists' = Exists /\ Chosen' = Chosen
      /\ \A i : UpTo(i)' = UpTo(i) /\ Place(i)' = Place(i)
      /\ Sortable(Chosen, OrderBy(walk.query))' <=> Sortable(Chosen, OrderBy(walk.query))
  BY <1>1, <1>5, SameRows
<1>7. Given' = Given
  BY <1>4, <1>5 DEF Given
<1> HIDE DEF k, t
<1>8. TypeOK'
  BY <1>1, <1>2, <1>4, <1>5 DEF TypeOK, t
<1>9. RowsInOrder' /\ OffsetIsLength'
  <2>1. RowsInOrder'
    BY <1>1, <1>6 DEF PagesInv, RowsInOrder
  <2>2. walk'.pc = "asked" => Len(Given) = walk'.skip /\ walk'.page = NoRow
    BY <1>4, <1>5
  <2> QED
    BY <2>1, <2>2, <1>4 DEF OffsetIsLength
<1>10. StatementsAgree' /\ TotalFitsPage'
  BY <1>5 DEF StatementsAgree, TotalFitsPage
<1>11. QuietPages'
  <2> SUFFICES ASSUME quiet, Sortable(Chosen, OrderBy(walk.query))
               PROVE  /\ \A a \in DOMAIN Given : Given[a] \in Chosen /\ Place(Given[a]) = a
                      /\ Len(walk.page) < t => Cardinality(Chosen) <= Len(Given)
    BY <1>1, <1>5, <1>6, <1>7 DEF QuietPages
  <2> QED
    BY <1>1 DEF PagesInv, QuietPages, t
<1>12. PlacesAreGiven'
  <2> SUFFICES ASSUME Stable(walk.query), NEW i \in Old, Place(i) <= k + t
               PROVE  i \in Range(Given)
    BY <1>1, <1>4, <1>5, <1>6 DEF PlacesAreGiven, Old, Stable
  <2> QED
    BY <1>1 DEF PagesInv, PlacesAreGiven, k, t
<1>13. NothingHidden'
  <2> SUFFICES ASSUME Stable(walk.query), Len(walk.page) < t,
                      NEW i \in (1..(made - fresh)) \cap Exists, Asked(i, walk.query)
               PROVE  i \in Range(Given)
    BY <1>1, <1>4, <1>5, <1>6 DEF NothingHidden, Stable, Asked
  <2>1. i \in Old
    BY <1>2, <1>3, StableSelects DEF Old, Chosen
  <2> QED
    BY <2>1, <1>1 DEF PagesInv, PlacesAreGiven, t
<1>14. RepeatsAreDue'
  BY <1>1, <1>4, <1>5, <1>6, <1>7 DEF PagesInv, RepeatsAreDue, Repeats, Stable
<1> QED
  BY <1>8, <1>9, <1>10, <1>11, <1>12, <1>13, <1>14 DEF PagesInv

-----------------------------------------------------------------------------
(* The runs meanwhile: the walk stays as it is *)

(* What a stable query selects and where a row of it is do not depend on   *)
(* what is in the rows.                                                    *)
LEMMA StablePlaces ==
    TypeOK /\ walk.pc # "idle" /\ Stable(walk.query) =>
        /\ Chosen = {i \in Exists : Asked(i, walk.query)}
        /\ \A i : UpTo(i) = {j \in Chosen :
                                j = i \/ IF OrderBy(walk.query).dir = "asc" THEN j < i ELSE j > i}
<1> SUFFICES ASSUME TypeOK, walk.pc # "idle", Stable(walk.query)
             PROVE  /\ Chosen = {i \in Exists : Asked(i, walk.query)}
                    /\ \A i : UpTo(i) =
                         {j \in Chosen :
                            j = i \/ IF OrderBy(walk.query).dir = "asc" THEN j < i ELSE j > i}
  OBVIOUS
<1>1. /\ Chosen = {i \in Exists : Asked(i, walk.query)}
      /\ OrderBy(walk.query).field = "createdAt"
  BY WalkType, StableSelects DEF Chosen
<1>2. \A i, j : Ahead(j, i, OrderBy(walk.query)) <=>
                   IF OrderBy(walk.query).dir = "asc" THEN j < i ELSE j > i
  BY <1>1 DEF Ahead, SortKey
<1> QED
  BY <1>1, <1>2 DEF UpTo

LEMMA StablePlacesPrime ==
    (TypeOK /\ walk.pc # "idle" /\ Stable(walk.query) =>
        /\ Chosen = {i \in Exists : Asked(i, walk.query)}
        /\ \A i : UpTo(i) = {j \in Chosen :
                      j = i \/ IF OrderBy(walk.query).dir = "asc" THEN j < i ELSE j > i})'
BY StablePlaces, PTL

(* The rows change while the walk does not: all vanish, none is added, or  *)
(* a next one is.                                                          *)
RowsMove ==
    /\ UNCHANGED <<walk, seen>> /\ ~quiet' /\ ~steady' /\ (gone => gone')
    /\ \/ fresh' = fresh /\ made' = made /\ (Exists' = {} \/ Exists' = Exists)
       \/ fresh' = fresh + 1 /\ made' = made + 1 /\ Exists' = Exists \cup {made + 1}

(* A row that stays moves back, by no more than the rows that are added. *)
LEMMA PlacesMove ==
    ASSUME TypeOK, TypeOK', RowsInOrder, RowsMove, walk.pc # "idle", Stable(walk.query),
           NEW i \in 1..made, i \in Chosen'
    PROVE  /\ i \in Chosen /\ Place(i) <= Place(i)'
           /\ Place(i)' + fresh <= Place(i) + fresh'
<1> DEFINE asc == OrderBy(walk.query).dir = "asc"
           After(j) == j = i \/ IF asc THEN j < i ELSE j > i
<1>1. walk' = walk
  BY DEF RowsMove
<1>2. /\ Chosen = {j \in Exists : Asked(j, walk.query)}
      /\ UpTo(i) = {j \in Chosen : After(j)}
  BY StablePlaces
<1>3. /\ Chosen' = {j \in Exists' : Asked(j, walk.query)}
      /\ UpTo(i)' = {j \in Chosen' : After(j)}
  BY <1>1, StablePlacesPrime DEF Stable, Asked, OrderBy
<1> HIDE DEF After
<1>4. /\ made \in Nat /\ fresh \in Nat /\ made + 1 \notin Exists
  BY PagesAssumption DEF TypeOK, RowsInOrder
<1>5. /\ IsFiniteSet(UpTo(i)) /\ IsFiniteSet(UpTo(i)') /\ Place(i) \in Nat /\ Place(i)' \in Nat
  BY PlaceType, PlaceTypePrime
<1>6. i # made + 1
  BY <1>4
<1>7. CASE fresh' = fresh /\ made' = made /\ (Exists' = {} \/ Exists' = Exists)
  <2>1. Exists' = Exists
    BY <1>3, <1>7
  <2>2. Chosen' = Chosen /\ UpTo(i)' = UpTo(i)
    BY <2>1, <1>2, <1>3
  <2>3. Place(i)' = Place(i)
    BY <2>2 DEF Place
  <2> QED
    BY <2>2, <2>3, <1>4, <1>5, <1>7
<1>8. CASE fresh' = fresh + 1 /\ made' = made + 1 /\ Exists' = Exists \cup {made + 1}
  <2>1. i \in Chosen /\ UpTo(i) \subseteq UpTo(i)' /\ UpTo(i)' \subseteq UpTo(i) \cup {made + 1}
    BY <1>2, <1>3, <1>6, <1>8
  <2>2. Place(i) <= Place(i)'
    BY <2>1, <1>5, FS_Subset DEF Place
  <2>3. /\ IsFiniteSet(UpTo(i) \cup {made + 1})
        /\ Cardinality(UpTo(i) \cup {made + 1}) <= Place(i) + 1
    <3>1. Cardinality(UpTo(i)) = Place(i)
      BY DEF Place
    <3>2. /\ IsFiniteSet(UpTo(i) \cup {made + 1})
          /\ \/ Cardinality(UpTo(i) \cup {made + 1}) = Place(i)
             \/ Cardinality(UpTo(i) \cup {made + 1}) = Place(i) + 1
      <4> DEFINE x == made + 1
      <4> HIDE DEF x
      <4> QED
        BY <3>1, <1>5, FS_AddElement, Zenon DEF x
    <3> QED
      BY <3>2, <1>5
  <2>4. Place(i)' <= Cardinality(UpTo(i) \cup {made + 1})
    BY <2>1, <2>3, FS_Subset DEF Place
  <2>5. Cardinality(UpTo(i) \cup {made + 1}) \in Nat
    BY <2>3, FS_CardinalityType
  <2> QED
    BY <2>1, <2>2, <2>3, <2>4, <2>5, <1>4, <1>5, <1>8
<1> QED
  BY <1>7, <1>8 DEF RowsMove

LEMMA RowsMoveInv ==
    ASSUME PagesInv, TypeOK', RowsInOrder', RowsMove
    PROVE  PagesInv'
<1>1. /\ walk' = walk /\ seen' = seen
      /\ made \in Nat /\ made' \in Nat /\ fresh \in Nat /\ fresh' \in Nat
      /\ made' - fresh' = made - fresh /\ made - fresh <= made
      /\ fresh <= fresh' /\ made <= made'
      /\ 1..(made' - fresh') = 1..(made - fresh)
      /\ 1..(made - fresh) \subseteq 1..made /\ 1..made \subseteq 1..made'
      /\ \A c, x \in Nat : x <= c + fresh => x <= c + fresh'
  <2>1. /\ made \in Nat /\ made' \in Nat
        /\ fresh \in Nat /\ fresh' \in Nat /\ fresh <= made
    BY PagesAssumption DEF PagesInv, TypeOK
  <2>2. (fresh' = fresh /\ made' = made) \/ (fresh' = fresh + 1 /\ made' = made + 1)
    BY DEF RowsMove
  <2>3. walk' = walk /\ seen' = seen
    BY DEF RowsMove
  <2>4. /\ made' - fresh' = made - fresh /\ made - fresh <= made
        /\ fresh <= fresh' /\ made <= made'
        /\ 1..(made - fresh) \subseteq 1..made /\ 1..made \subseteq 1..made'
        /\ \A c, x \in Nat : x <= c + fresh => x <= c + fresh'
    <3> DEFINE m1 == made'
               f1 == fresh'
    <3>1. m1 \in Nat /\ f1 \in Nat
      BY <2>1
    <3>2. (f1 = fresh /\ m1 = made) \/ (f1 = fresh + 1 /\ m1 = made + 1)
      BY <2>2
    <3> HIDE DEF m1, f1
    <3>3. m1 - f1 = made - fresh /\ made - fresh <= made /\ fresh <= f1 /\ made <= m1
      BY <2>1, <3>1, <3>2
    <3>4. /\ 1..(made - fresh) \subseteq 1..made /\ 1..made \subseteq 1..m1
          /\ \A c, x \in Nat : x <= c + fresh => x <= c + f1
      BY <2>1, <3>1, <3>3
    <3> QED
      BY <3>3, <3>4 DEF m1, f1
  <2> QED
    BY <2>1, <2>3, <2>4
<1>2. Given' = Given /\ (Stable(walk.query)' <=> Stable(walk.query))
  BY <1>1 DEF Given, Stable
<1>3. OffsetIsLength'
  BY <1>1 DEF PagesInv, OffsetIsLength
<1>4. StatementsAgree' /\ TotalFitsPage' /\ QuietPages'
  BY <1>1 DEF RowsMove, StatementsAgree, TotalFitsPage, QuietPages
<1>5. ASSUME walk.pc # "idle", Stable(walk.query), NEW i \in 1..made, i \in Chosen'
      PROVE  /\ i \in Chosen /\ Place(i) <= Place(i)'
             /\ Place(i)' + fresh <= Place(i) + fresh'
             /\ Place(i) \in Nat /\ Place(i)' \in Nat
  BY <1>5, PlaceType, PlaceTypePrime, PlacesMove DEF PagesInv
<1>6. PlacesAreGiven'
  <2> SUFFICES ASSUME walk.pc = "asked", Stable(walk.query), NEW i \in Old'
               PROVE  /\ Place(i)' <= walk.skip => i \in Range(seen)
                      /\ /\ walk.page # NoRow
                         /\ \/ Place(i)' <= walk.skip + Take(walk.query)
                            \/ Len(walk.page) < Take(walk.query)
                         => i \in Range(Given)
    BY <1>1, <1>2 DEF PlacesAreGiven, Take
  <2>1. walk.skip \in Nat /\ Take(walk.query) \in Nat
    BY WalkType DEF PagesInv
  <2>2. i \in 1..made /\ i \in 1..(made - fresh) /\ i \in Chosen'
    BY <1>1 DEF Old
  <2>3. i \in Old /\ Place(i) \in Nat /\ Place(i)' \in Nat /\ Place(i) <= Place(i)'
    BY <1>5, <2>2 DEF Old
  <2>4. /\ Place(i) <= walk.skip => i \in Range(seen)
        /\ /\ walk.page # NoRow
           /\ \/ Place(i) <= walk.skip + Take(walk.query)
              \/ Len(walk.page) < Take(walk.query)
           => i \in Range(Given)
    BY <2>3 DEF PagesInv, PlacesAreGiven
  <2> QED
    BY <2>1, <2>3, <2>4
<1>7. NothingHidden'
  <2> SUFFICES ASSUME walk.pc = "done", Stable(walk.query),
                      NEW i \in (1..(made' - fresh')) \cap Exists', Asked(i, walk.query)
               PROVE  i \in Range(seen)
    BY <1>1, <1>2 DEF NothingHidden, Asked
  <2>1. i \in 1..(made - fresh) /\ i \in 1..made
    BY <1>1
  <2>2. ~gone
    BY DEF RowsInOrder, RowsMove
  <2>3. i \in Exists
    BY <2>1, <2>2 DEF PagesInv, RowsInOrder
  <2> QED
    BY <2>1, <2>3 DEF PagesInv, NothingHidden
<1>8. RepeatsAreDue'
  <2> SUFFICES ASSUME walk.pc # "idle", Stable(walk.query),
                      NEW s \in {seen, Given}, Repeats(s)
               PROVE  /\ Range(s) \subseteq 1..made'
                      /\ Len(s) <= Cardinality(Range(s)) + fresh'
                      /\ \A i \in Range(s) \cap Chosen' :
                            Place(i)' <= Cardinality(Range(s)) + fresh'
    BY <1>1, <1>2 DEF PagesInv, RepeatsAreDue, Repeats
  <2> DEFINE c == Cardinality(Range(s))
             l == Len(s)
  <2>1. s \in Seq(Id) /\ l \in Nat
    BY GivenType, LenProperties DEF PagesInv
  <2>2. Range(s) \subseteq 1..made /\ IsFiniteSet(Range(s)) /\ c \in Nat
    <3>1. IsFiniteSet(1..made)
      BY <1>1, FS_Interval
    <3>2. Range(s) \subseteq 1..made
      BY DEF Repeats
    <3> QED
      BY <3>1, <3>2, FS_Subset, FS_CardinalityType
  <2>3. l <= c + fresh /\ \A i \in Range(s) \cap Chosen : Place(i) <= c + fresh
    BY DEF Repeats
  <2> HIDE DEF c, l
  <2>4. Range(s) \subseteq 1..made' /\ l <= c + fresh'
    BY <1>1, <2>1, <2>2, <2>3
  <2>5. ASSUME NEW i \in Range(s), i \in Chosen' PROVE Place(i)' <= c + fresh'
    <3>1. i \in 1..made
      BY <2>2
    <3>2. /\ i \in Chosen /\ Place(i)' + fresh <= Place(i) + fresh'
          /\ Place(i) \in Nat /\ Place(i)' \in Nat
      BY <1>5, <2>5, <3>1
    <3>3. Place(i) <= c + fresh
      BY <2>3, <3>2
    <3> QED
      BY <3>2, <3>3, <1>1, <2>2
  <2> QED
    BY <2>4, <2>5 DEF c, l
<1> QED
  BY <1>3, <1>4, <1>6, <1>7, <1>8 DEF PagesInv

LEMMA CreateRowInv ==
    ASSUME PagesInv, CreateRow
    PROVE  PagesInv'
<1>1. /\ ~gone /\ made < MaxRow /\ made' = made + 1 /\ fresh' = fresh + 1
      /\ rows' = [rows EXCEPT ![made + 1] = [status |-> Running, runAt |-> 0]]
      /\ quiet' = FALSE /\ steady' = FALSE
      /\ gone' = gone /\ walk' = walk /\ seen' = seen
  BY DEF CreateRow
<1>2. TypeOK /\ made \in Nat /\ fresh \in 0..made /\ MaxRow \in Nat
  BY PagesAssumption DEF PagesInv, TypeOK
<1>3. [status |-> Running, runAt |-> 0] \in Row /\ made + 1 \in Id
  BY <1>1, <1>2, PagesAssumption DEF Row, Id
<1>4. TypeOK'
  <2>1. rows' \in [Id -> Row \cup {NoRow}]
    BY <1>1, <1>2, <1>3 DEF TypeOK
  <2>2. made' \in 0..MaxRow /\ fresh' \in 0..made'
    <3>1. made + 1 \in 0..MaxRow /\ fresh + 1 \in 0..(made + 1)
      BY <1>1, <1>2
    <3> QED
      BY <1>1, <3>1
  <2>3. walk' \in Walk /\ (walk.pc # "idle" => walk.query # NoRow)
        /\ (walk.page # NoRow => Len(walk.page) <= Take(walk.query))
    BY <1>1, <1>2 DEF TypeOK
  <2> QED
    BY <1>1, <1>2, <2>1, <2>2, <2>3 DEF TypeOK, Take
<1>5. Exists' = Exists \cup {made + 1}
  <2>1. [status |-> Running, runAt |-> 0] # NoRow
    BY <1>3, PagesAssumption
  <2>2. \A i \in Id : rows'[i] = IF i = made + 1 THEN [status |-> Running, runAt |-> 0]
                                                 ELSE rows[i]
    BY <1>1, <1>2 DEF TypeOK
  <2> QED
    BY <1>3, <2>1, <2>2 DEF Exists
<1>6. RowsInOrder'
  <2>1. Exists = 1..made /\ (1..made) \cup {made + 1} = 1..(made + 1)
    BY <1>1, <1>2 DEF PagesInv, RowsInOrder
  <2> QED
    BY <1>1, <1>5, <2>1 DEF RowsInOrder
<1>7. RowsMove
  BY <1>1, <1>5 DEF RowsMove
<1> QED
  BY <1>4, <1>6, <1>7, RowsMoveInv

LEMMA UpdateRowInv ==
    ASSUME PagesInv, NEW i \in Id, UpdateRow(i)
    PROVE  PagesInv'
<1>1. PICK r \in Row : rows' = [rows EXCEPT ![i] = r]
  BY DEF UpdateRow
<1>2. /\ rows[i] # NoRow /\ quiet' = FALSE /\ steady' = FALSE
      /\ made' = made /\ gone' = gone /\ walk' = walk /\ seen' = seen /\ fresh' = fresh
  BY DEF UpdateRow
<1>3. TypeOK'
  <2>1. rows' \in [Id -> Row \cup {NoRow}]
    BY <1>1 DEF PagesInv, TypeOK
  <2> QED
    BY <1>2, <2>1 DEF PagesInv, TypeOK, Take
<1>4. Exists' = Exists
  <2>1. r # NoRow
    BY PagesAssumption
  <2>2. \A j \in Id : rows'[j] = IF j = i THEN r ELSE rows[j]
    BY <1>1 DEF PagesInv, TypeOK
  <2> QED
    BY <1>2, <2>1, <2>2 DEF Exists
<1>5. RowsInOrder' /\ RowsMove
  BY <1>2, <1>4 DEF PagesInv, RowsInOrder, RowsMove
<1> QED
  BY <1>3, <1>5, RowsMoveInv

LEMMA RemoveScenarioInv ==
    ASSUME PagesInv, RemoveScenario
    PROVE  PagesInv'
<1>1. /\ gone' = TRUE /\ rows' = [i \in Id |-> NoRow] /\ quiet' = FALSE /\ steady' = FALSE
      /\ made' = made /\ walk' = walk /\ seen' = seen /\ fresh' = fresh
  BY DEF RemoveScenario
<1>2. Exists' = {}
  BY <1>1 DEF Exists
<1>3. TypeOK'
  BY <1>1 DEF PagesInv, TypeOK, Take
<1>4. RowsInOrder' /\ RowsMove
  BY <1>1, <1>2 DEF RowsInOrder, RowsMove
<1> QED
  BY <1>3, <1>4, RowsMoveInv

LEMMA StutterInv ==
    ASSUME PagesInv, UNCHANGED vars
    PROVE  PagesInv'
<1>1. /\ rows' = rows /\ made' = made /\ gone' = gone /\ walk' = walk /\ seen' = seen
      /\ fresh' = fresh /\ quiet' = quiet /\ steady' = steady
  BY DEF vars
<1>2. /\ Exists' = Exists /\ Chosen' = Chosen
      /\ \A i : UpTo(i)' = UpTo(i) /\ Place(i)' = Place(i)
      /\ Sortable(Chosen, OrderBy(walk.query))' <=> Sortable(Chosen, OrderBy(walk.query))
  BY <1>1, SameRows
<1>3. Given' = Given
  BY <1>1 DEF Given
<1>4. TypeOK' /\ RowsInOrder' /\ OffsetIsLength'
  BY <1>1, <1>2 DEF PagesInv, TypeOK, RowsInOrder, OffsetIsLength, Take
<1>5. StatementsAgree' /\ TotalFitsPage'
  BY <1>1, <1>2 DEF PagesInv, StatementsAgree, TotalFitsPage, Take
<1>6. QuietPages'
  BY <1>1, <1>2, <1>3 DEF PagesInv, QuietPages, Take
<1>7. PlacesAreGiven' /\ NothingHidden'
  BY <1>1, <1>2, <1>3 DEF PagesInv, PlacesAreGiven, NothingHidden, Old, Stable, Take, Asked
<1>8. RepeatsAreDue'
  BY <1>1, <1>2, <1>3 DEF PagesInv, RepeatsAreDue, Repeats, Stable
<1> QED
  BY <1>4, <1>5, <1>6, <1>7, <1>8 DEF PagesInv

LEMMA NextInv == PagesInv /\ [Next]_vars => PagesInv'
<1> SUFFICES ASSUME PagesInv, [Next]_vars PROVE PagesInv'
  OBVIOUS
<1>1. CASE \E q \in Request : Ask(q)
  BY <1>1, AskInv
<1>2. CASE FindMany
  BY <1>2, FindManyInv
<1>3. CASE Count
  BY <1>3, CountInv
<1>4. CASE QueryFails
  BY <1>4, QueryFailsInv
<1>5. CASE AnswerPage
  BY <1>5, AnswerPageInv
<1>6. CASE CreateRow
  BY <1>6, CreateRowInv
<1>7. CASE \E i \in Id : UpdateRow(i)
  BY <1>7, UpdateRowInv
<1>8. CASE RemoveScenario
  BY <1>8, RemoveScenarioInv
<1>9. CASE UNCHANGED vars
  BY <1>9, StutterInv
<1> QED
  BY <1>1, <1>2, <1>3, <1>4, <1>5, <1>6, <1>7, <1>8, <1>9 DEF Next

(* In every reachable state the walk of the client has been given the      *)
(* places up to its offset: the invariant of getRunHistoryList.            *)
THEOREM PagesCorrect == Spec => []PagesInv
<1>1. Init => PagesInv
  BY InitInv
<1>2. PagesInv /\ [Next]_vars => PagesInv'
  BY NextInv
<1> QED
  BY <1>1, <1>2, PTL DEF Spec

-----------------------------------------------------------------------------
(* What the client may rely on *)

(* A row that is ahead of another one has an earlier place. *)
LEMMA PlacesAreOrdered ==
    ASSUME TypeOK, walk.pc # "idle", NEW i \in Chosen, NEW j \in Chosen,
           Ahead(i, j, OrderBy(walk.query))
    PROVE  Place(i) <= Place(j)
<1> DEFINE by == OrderBy(walk.query)
<1>1. /\ i \in Exists /\ j \in Exists /\ Chosen \subseteq Exists
      /\ \A a, b, c \in Exists : Ahead(a, b, by) /\ Ahead(b, c, by) => Ahead(a, c, by)
  BY WalkType, AheadOrders, MatchesFinite DEF Chosen
<1>2. UpTo(i) \subseteq UpTo(j)
  BY <1>1 DEF UpTo
<1> QED
  BY <1>2, PlaceType, FS_Subset DEF Place

(* Rows that are given at their places, up to the last one, are all that   *)
(* the query selects, in its order.                                        *)
LEMMA QuietIsExact ==
    ASSUME PagesInv
    PROVE  QuietWalkIsExact
<1> DEFINE by == OrderBy(walk.query)
<1>1. by = IF "none" \in {walk.query.orderBy, walk.query.order}
           THEN [field |-> "createdAt", dir |-> "desc"]
           ELSE [field |-> walk.query.orderBy, dir |-> walk.query.order]
  BY DEF OrderBy
<1> SUFFICES ASSUME walk.pc = "done", quiet, Sortable(Wanted(walk.query), by)
             PROVE  /\ Range(seen) = Wanted(walk.query)
                    /\ \A a, b \in DOMAIN seen : a < b => Ahead(seen[a], seen[b], by)
  BY <1>1, Zenon DEF QuietWalkIsExact
<1>2. TypeOK /\ Wanted(walk.query) = Chosen /\ Given = seen /\ seen \in Seq(Id)
  BY WantedIsChosen DEF PagesInv, TypeOK, Given
<1>3. /\ Sortable(Chosen, by)
      /\ \A a \in 1..Len(seen) : seen[a] \in Chosen /\ Place(seen[a]) = a
      /\ Cardinality(Chosen) <= Len(seen) /\ Len(seen) \in Nat /\ DOMAIN seen = 1..Len(seen)
  BY <1>2, LenProperties DEF PagesInv, QuietPages
<1> HIDE DEF by
<1>4. Range(seen) = Chosen
  <2> DEFINE n == Len(seen)
             R == Range(seen)
             f == [a \in 1..n |-> seen[a]]
  <2>1. R \subseteq Chosen /\ IsFiniteSet(Chosen) /\ Cardinality(Chosen) \in Nat
    BY <1>3, MatchesFinite, PagesAssumption DEF Range, Chosen
  <2>2. f \in Bijection(1..n, R)
    <3>1. f \in [1..n -> R] /\ \A x \in R : \E a \in 1..n : f[a] = x
      BY <1>3 DEF Range
    <3>2. IsInjective(f)
      BY <1>3 DEF IsInjective
    <3> QED
      BY <3>1, <3>2 DEF Bijection, Injection, Surjection
  <2>3. Cardinality(R) = n
    BY <1>3, <2>2, FS_CountingElements DEF ExistsBijection
  <2>4. IsFiniteSet(R) /\ Cardinality(R) <= Cardinality(Chosen)
    BY <2>1, FS_Subset
  <2>5. Cardinality(R) = Cardinality(Chosen)
    <3> HIDE DEF n, R
    <3>1. n \in Nat /\ Cardinality(Chosen) <= n
      BY <1>3 DEF n
    <3> QED
      BY <3>1, <2>1, <2>3, <2>4
  <2> QED
    BY <2>1, <2>5, FS_Subset
<1>5. ASSUME NEW a \in 1..Len(seen), NEW b \in 1..Len(seen), a < b
      PROVE  Ahead(seen[a], seen[b], by)
  <2>1. /\ seen[a] \in Chosen /\ seen[b] \in Chosen
        /\ Place(seen[a]) = a /\ Place(seen[b]) = b /\ seen[a] # seen[b] /\ ~(b <= a)
    BY <1>3, <1>5
  <2>2. ~Ahead(seen[b], seen[a], by)
    BY <1>2, <2>1, PlacesAreOrdered DEF by
  <2> QED
    BY <1>3, <2>1, <2>2 DEF Sortable
<1> QED
  BY <1>2, <1>3, <1>4, <1>5

(* A client that walks through the pages of the run history while no run   *)
(* changes gets each row that the documented filter selects exactly once   *)
(* and in the order it asked for, for any size of pages.                   *)
THEOREM QuietWalksAreExact == Spec => []QuietWalkIsExact
<1>1. PagesInv => QuietWalkIsExact
  BY QuietIsExact
<1> QED
  BY <1>1, PagesCorrect, PTL

(* Runs that start or advance while the client walks through the pages in  *)
(* the order of creation never hide a row from it.                         *)
THEOREM NoRowIsHidden == Spec => []NothingHidden
<1>1. PagesInv => NothingHidden
  BY DEF PagesInv
<1> QED
  BY <1>1, PagesCorrect, PTL

(* Such a walk is given rows twice, but no more often than runs have been  *)
(* started since it began.                                                 *)
THEOREM RepeatsAreCaused == Spec => []RepeatsHaveCause
<1>1. PagesInv => RepeatsHaveCause
  BY DEF PagesInv, RepeatsAreDue, Repeats, RepeatsHaveCause
<1> QED
  BY <1>1, PagesCorrect, PTL

=============================================================================
