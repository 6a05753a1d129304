-------------------------- MODULE RunHistoryPages ---------------------------
(***************************************************************************)
(* The run history of testify-server as a client reads it: page by page,   *)
(* with a filter and an order, while runs start, advance and vanish.       *)
(*                                                                         *)
(* The module follows the rows of one scenario of one user.  A row is      *)
(* named by its place in the order of creation, which stands for its       *)
(* createdAt; a date is an instant of which two make a day, with 0 for     *)
(* none.  The metrics of a row, which sort and are searched like a runAt   *)
(* that is always there, what else a row is returned with, and the queries *)
(* that the validation refuses are left out.                               *)
(***************************************************************************)
EXTENDS Naturals, SequencesExt

CONSTANTS
    Status,      \* the values of RunHistoryStatus
    Running,     \* the status of a new row
    Garbled,     \* any word that is neither a status nor a date
    NoSearch,    \* no search term
    NoRow,       \* no row, or no answer yet
    Request,     \* the queries a client may make
    DefaultTake, \* size of a page when the client does not give one: ten
    MaxRow,      \* bound: rows that are ever created
    MaxTime      \* bound: instants that a run may start at

Id   == 1..MaxRow
Time == 1..MaxTime

Row == [status : Status, runAt : Time \cup {0}]

(* What a search term may hit: a day and parts of some ids. *)
Search == [day : Time \cup {0}, ids : SUBSET Id]

Query == [status : SUBSET (Status \cup {Garbled}),
          startTime : Time \cup {0, Garbled}, endTime : Time \cup {0, Garbled},
          search : Search \cup {NoSearch},
          orderBy : {"createdAt", "runAt", "none"},
          order : {"asc", "desc", "none"},
          take : 0..MaxRow]

ASSUME PagesAssumption ==
    /\ DefaultTake \in Nat \ {0}
    /\ MaxRow \in Nat /\ MaxTime \in Nat
    /\ Running \in Status
    /\ Garbled \notin Status \cup Nat
    /\ NoSearch \notin Search
    /\ NoRow \notin Row \cup Nat \cup Query \cup Seq(Id)
    /\ Request \subseteq Query

VARIABLES
    rows,   \* the rows of the scenario
    made,   \* how many were created
    gone,   \* the scenario has been removed
    walk,   \* the walk of the client through the pages
    seen,   \* history: the rows it was given, in this order
    fresh,  \* history: how many rows were created since it began
    quiet,  \* history: no row changed since it began
    steady  \* history: none changed since the statements of the page went out

vars == <<rows, made, gone, walk, seen, fresh, quiet, steady>>

-----------------------------------------------------------------------------
Exists == {i \in Id : rows[i] # NoRow}

Take(q) == IF q.take = 0 THEN DefaultTake ELSE q.take

Walk == [pc : {"idle", "asked", "done"}, query : Request \cup {NoRow}, skip : 0..MaxRow,
         page : Seq(Id) \cup {NoRow}, total : 0..MaxRow \cup {NoRow}]

NoWalk == [pc |-> "idle", query |-> NoRow, skip |-> 0, page |-> NoRow, total |-> NoRow]

TypeOK ==
    /\ rows \in [Id -> Row \cup {NoRow}]
    /\ made \in 0..MaxRow
    /\ gone \in BOOLEAN
    /\ walk \in Walk
    /\ walk.pc # "idle" => walk.query # NoRow
    /\ walk.page # NoRow => Len(walk.page) <= Take(walk.query)
    /\ seen \in Seq(Id)
    /\ fresh \in 0..made
    /\ quiet \in BOOLEAN /\ steady \in BOOLEAN

Init ==
    /\ rows = [i \in Id |-> NoRow]
    /\ made = 0
    /\ gone = FALSE
    /\ walk = NoWalk
    /\ seen = <<>>
    /\ fresh = 0
    /\ quiet = TRUE
    /\ steady = TRUE

-----------------------------------------------------------------------------
(* RunHistoryService: from the query of the client to that of Prisma *)

ParseDate(d) == IF d \in Time THEN d ELSE 0

(* Mutant of ParseStatuses: one unknown word drops the whole filter. *)
ParseStatuses_Strict(words) ==
    IF words \subseteq Status /\ words # {} THEN words ELSE Status

(* Words that are no status are dropped; without any left there is no filter. *)
ParseStatuses(words) ==
    IF words \cap Status = {} THEN Status ELSE words \cap Status

BuildWhere(q) ==
    [status |-> ParseStatuses(q.status), search |-> q.search,
     gte |-> ParseDate(q.startTime), lte |-> ParseDate(q.endTime)]

(* Mutant of OrderBy: a direction alone already orders. *)
OrderBy_Loose(q) ==
    IF q.order # "none"
    THEN [field |-> IF q.orderBy = "none" THEN "runAt" ELSE q.orderBy, dir |-> q.order]
    ELSE [field |-> "createdAt", dir |-> "desc"]

(* The field and the direction of a query count only together. *)
OrderBy(q) ==
    IF q.orderBy # "none" /\ q.order # "none"
    THEN [field |-> q.orderBy, dir |-> q.order]
    ELSE [field |-> "createdAt", dir |-> "desc"]

-----------------------------------------------------------------------------
(* PostgreSQL *)

DayOf(t) == (t + 1) \div 2

Hit(i, term) ==
    \/ rows[i].runAt # 0 /\ DayOf(rows[i].runAt) = term.day
    \/ i \in term.ids

(* A row without a runAt is in no interval. *)
Matches(where) ==
    {i \in Exists :
        /\ rows[i].status \in where.status
        /\ where.gte # 0 => rows[i].runAt >= where.gte
        /\ where.lte # 0 => rows[i].runAt \in 1..where.lte
        /\ where.search # NoSearch => Hit(i, where.search)}

(* NULL sorts as the largest value. *)
SortKey(i, field) ==
    CASE field = "createdAt" -> i
      [] field = "runAt"     -> IF rows[i].runAt = 0 THEN MaxTime + 1 ELSE rows[i].runAt

Ahead(i, j, by) ==
    IF by.dir = "asc" THEN SortKey(i, by.field) < SortKey(j, by.field)
                      ELSE SortKey(i, by.field) > SortKey(j, by.field)

(* Rows with equal keys come in any order, which may differ from one *)
(* statement to the next.                                            *)
Listings(where, by) ==
    {s \in SetToSeqs(Matches(where)) :
        \A a, b \in DOMAIN s : a < b => ~Ahead(s[b], s[a], by)}

-----------------------------------------------------------------------------
(* A page: findMany and count go out together *)

Ask(q) ==
    /\ walk.pc # "asked"
    /\ walk' = [NoWalk EXCEPT !.pc = "asked", !.query = q]
    /\ seen' = <<>>
    /\ fresh' = 0
    /\ quiet' = TRUE
    /\ steady' = TRUE
    /\ UNCHANGED <<rows, made, gone>>

(* Mutant of FindMany: the page starts too late. *)
FindMany_Late ==
    /\ walk.pc = "asked" /\ walk.page = NoRow
    /\ \E list \in Listings(BuildWhere(walk.query), OrderBy(walk.query)) :
          walk' = [walk EXCEPT !.page =
                      SubSeq(list, walk.skip + (IF walk.skip = 0 THEN 1 ELSE 2),
                             Min({Len(list), walk.skip + Take(walk.query)}))]
    /\ UNCHANGED <<rows, made, gone, seen, fresh, quiet, steady>>

FindMany ==
    /\ walk.pc = "asked" /\ walk.page = NoRow
    /\ \E list \in Listings(BuildWhere(walk.query), OrderBy(walk.query)) :
          walk' = [walk EXCEPT !.page =
                      SubSeq(list, walk.skip + 1,
                             Min({Len(list), walk.skip + Take(walk.query)}))]
    /\ UNCHANGED <<rows, made, gone, seen, fresh, quiet, steady>>

(* Mutant of Count: without the where. *)
Count_All ==
    /\ walk.pc = "asked" /\ walk.total = NoRow
    /\ walk' = [walk EXCEPT !.total = Cardinality(Exists)]
    /\ UNCHANGED <<rows, made, gone, seen, fresh, quiet, steady>>

Count ==
    /\ walk.pc = "asked" /\ walk.total = NoRow
    /\ walk' = [walk EXCEPT !.total = Cardinality(Matches(BuildWhere(walk.query)))]
    /\ UNCHANGED <<rows, made, gone, seen, fresh, quiet, steady>>

(* One of the statements fails, and the client gives up. *)
QueryFails ==
    /\ walk.pc = "asked" /\ (walk.page = NoRow \/ walk.total = NoRow)
    /\ walk' = NoWalk
    /\ seen' = <<>>
    /\ UNCHANGED <<rows, made, gone, fresh, quiet, steady>>

(* The client gets the page and asks for the next one, until a page is not *)
(* full.                                                                   *)
AnswerPage ==
    /\ walk.pc = "asked" /\ walk.page # NoRow /\ walk.total # NoRow
    /\ seen' = seen \o walk.page
    /\ walk' = IF Len(walk.page) < Take(walk.query)
               THEN [walk EXCEPT !.pc = "done"]
               ELSE [walk EXCEPT !.skip = @ + Take(walk.query),
                                 !.page = NoRow, !.total = NoRow]
    /\ steady' = TRUE
    /\ UNCHANGED <<rows, made, gone, fresh, quiet>>

-----------------------------------------------------------------------------
(* Meanwhile: runs start and advance, and the scenario may be removed *)

CreateRow ==
    /\ ~gone /\ made < MaxRow
    /\ made' = made + 1
    /\ rows' = [rows EXCEPT ![made + 1] = [status |-> Running, runAt |-> 0]]
    /\ fresh' = fresh + 1
    /\ quiet' = FALSE /\ steady' = FALSE
    /\ UNCHANGED <<gone, walk, seen>>

(* Any of the columns may be written; a date is never taken back. *)
UpdateRow(i) ==
    /\ rows[i] # NoRow
    /\ \E r \in Row : /\ r # rows[i]
                      /\ r.runAt = 0 => rows[i].runAt = 0
                      /\ rows' = [rows EXCEPT ![i] = r]
    /\ quiet' = FALSE /\ steady' = FALSE
    /\ UNCHANGED <<made, gone, walk, seen, fresh>>

RemoveScenario ==
    /\ ~gone
    /\ gone' = TRUE
    /\ rows' = [i \in Id |-> NoRow]
    /\ quiet' = FALSE /\ steady' = FALSE
    /\ UNCHANGED <<made, walk, seen, fresh>>

Next ==
    \/ \E q \in Request : Ask(q)
    \/ FindMany \/ Count \/ QueryFails \/ AnswerPage
    \/ CreateRow \/ (\E i \in Id : UpdateRow(i)) \/ RemoveScenario

Spec == Init /\ [][Next]_vars

-----------------------------------------------------------------------------
(* Properties *)

(* What the parameters of the API are documented to select: the statuses   *)
(* that were named, a runAt from startTime to endTime, both included, and  *)
(* the search term.                                                        *)
Wanted(q) ==
    {i \in Exists :
        /\ (\E s \in Status : s \in q.status) => rows[i].status \in q.status
        /\ \/ {q.startTime, q.endTime} \cap Time = {}
           \/ \E t \in Time : /\ rows[i].runAt = t
                              /\ q.startTime \in Time => q.startTime <= t
                              /\ q.endTime \in Time => t <= q.endTime
        /\ q.search = NoSearch \/ Hit(i, q.search)}

(* No two of the rows are equal under the order of the query. *)
Sortable(S, by) ==
    \A i, j \in S : i # j => Ahead(i, j, by) \/ Ahead(j, i, by)

(* A walk during which no row changed has given the client every row it    *)
(* asked for, once and in order, whatever the size of the pages.           *)
QuietWalkIsExact ==
    LET q  == walk.query
        by == IF "none" \in {q.orderBy, q.order}
              THEN [field |-> "createdAt", dir |-> "desc"]
              ELSE [field |-> q.orderBy, dir |-> q.order]
    IN walk.pc = "done" /\ quiet /\ Sortable(Wanted(q), by) =>
           /\ Range(seen) = Wanted(q)
           /\ \A a, b \in DOMAIN seen : a < b => Ahead(seen[a], seen[b], by)

(* Total and page, which two statements find side by side, fit together    *)
(* unless a row changed in between.                                        *)
TotalFitsPage ==
    walk.pc = "asked" /\ walk.page # NoRow /\ walk.total # NoRow /\ steady =>
        Len(walk.page) = Min({Take(walk.query), Max({walk.skip, walk.total}) - walk.skip})

(* The query orders by creation, and no update of a row changes what it    *)
(* selects.                                                                *)
Stable(q) ==
    /\ q.status \cap Status = {}
    /\ {q.startTime, q.endTime} \cap Time = {}
    /\ q.search # NoSearch => q.search.day = 0
    /\ q.orderBy = "createdAt" \/ "none" \in {q.orderBy, q.order}

Asked(i, q) == q.search = NoSearch \/ i \in q.search.ids

(* Runs that start or advance during such a walk never hide a row from     *)
(* it: what was there at the start, and still is, has been seen.           *)
NothingHidden ==
    walk.pc = "done" /\ Stable(walk.query) =>
        \A i \in (1..(made - fresh)) \cap Exists : Asked(i, walk.query) => i \in Range(seen)

(* The price is that a row may come twice, but no more often than runs     *)
(* were started in the meantime.                                           *)
RepeatsHaveCause ==
    walk.pc # "idle" /\ Stable(walk.query) =>
        Len(seen) <= Cardinality(Range(seen)) + fresh

-----------------------------------------------------------------------------
(* The inductive strengthening of the invariants above. *)

(* The rows the query of the walk selects, and the place one has among     *)
(* them: a row that is created may move another one back, never forward.   *)
Chosen == Matches(BuildWhere(walk.query))

UpTo(i) == {j \in Chosen : j = i \/ Ahead(j, i, OrderBy(walk.query))}

Place(i) == Cardinality(UpTo(i))

(* What the client has, or will have when its page is answered. *)
Given == IF walk.pc = "asked" /\ walk.page # NoRow THEN seen \o walk.page ELSE seen

(* Rows are created in order and vanish together. *)
RowsInOrder == Exists = IF gone THEN {} ELSE 1..made

(* The offset is the number of rows the client has, and no full page ends  *)
(* beyond the rows there can be.                                           *)
OffsetIsLength ==
    walk.pc = "asked" =>
        /\ Len(seen) = walk.skip
        /\ walk.page # NoRow /\ Len(walk.page) > 0 => walk.skip + Len(walk.page) <= MaxRow

(* What each of the two statements has found, as long as no row changes. *)
StatementsAgree ==
    walk.pc = "asked" /\ steady =>
        /\ walk.total # NoRow => walk.total = Cardinality(Chosen)
        /\ walk.page # NoRow =>
              Len(walk.page) =
                  Min({Take(walk.query), Max({walk.skip, Cardinality(Chosen)}) - walk.skip})

(* As long as no row changes and no two are equal, each row is given at    *)
(* its place, and a page that is not full is the last one.                 *)
QuietPages ==
    walk.pc # "idle" /\ quiet /\ Sortable(Chosen, OrderBy(walk.query)) =>
        /\ \A a \in DOMAIN Given : Given[a] \in Chosen /\ Place(Given[a]) = a
        /\ walk.pc = "done" \/ (walk.page # NoRow /\ Len(walk.page) < Take(walk.query))
              => Cardinality(Chosen) <= Len(Given)

(* A row that was there at the start and whose place is before the end of  *)
(* a page has been given, as its place was no later when the page was cut. *)
Old == (1..(made - fresh)) \cap Chosen

PlacesAreGiven ==
    walk.pc = "asked" /\ Stable(walk.query) =>
        \A i \in Old :
            /\ Place(i) <= walk.skip => i \in Range(seen)
            /\ /\ walk.page # NoRow
               /\ \/ Place(i) <= walk.skip + Take(walk.query)
                  \/ Len(walk.page) < Take(walk.query)
               => i \in Range(Given)

(* Every place that is taken twice, and every row that has moved beyond    *)
(* the rows that were given, is due to a run that was started.             *)
Repeats(s) ==
    /\ Range(s) \subseteq 1..made
    /\ Len(s) <= Cardinality(Range(s)) + fresh
    /\ \A i \in Range(s) \cap Chosen : Place(i) <= Cardinality(Range(s)) + fresh

RepeatsAreDue ==
    walk.pc # "idle" /\ Stable(walk.query) => Repeats(seen) /\ Repeats(Given)

PagesInv ==
    /\ TypeOK
    /\ RowsInOrder
    /\ OffsetIsLength
    /\ StatementsAgree /\ TotalFitsPage
    /\ QuietPages
    /\ PlacesAreGiven /\ NothingHidden
    /\ RepeatsAreDue

=============================================================================
