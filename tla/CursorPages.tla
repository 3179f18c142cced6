------------------------------ MODULE CursorPages ------------------------------
(***************************************************************************)
(* A list read page by page with a cursor while its rows change            *)
(* (repositories/timeline.py, repositories/activity.py and the persisted   *)
(* findings of services/checks.py). A cursor names the last row shown, not  *)
(* a snapshot. A timeline merges two databases read one after the other;   *)
(* activity carries the time window of the first page in its cursor;       *)
(* findings of a geographic scope are read in one database and matched     *)
(* with places read later in the other.                                    *)
(***************************************************************************)
EXTENDS Integers, Sequences, FiniteSets

CONSTANTS
    Ids,         \* numbers, the identifiers that order rows of one position
    PageLength,
    LastHour,    \* bound: the clock
    MaxTouches   \* bound: rows inserted, changed or deleted during a walk

ASSUME PageBounds == {PageLength, LastHour, MaxTouches} \subseteq Nat /\ PageLength > 0
ASSUME IdsAssumption == IsFiniteSet(Ids) /\ Ids \subseteq Int

VARIABLES
    stream,      \* the list walked: its endpoint
    hour,
    rows,        \* the rows there are: where they are kept, their place in the order,
                 \* and whether they lie in the scope
    touches,
    walk,        \* where the next page starts, its window, and what is read of it
    pages,       \* the rows shown so far, in order
    untouched    \* rows of the list that stayed as they were since the first page

pageVars == <<stream, hour, rows, touches, walk, pages, untouched>>

Hours == 0..LastHour
Placed == [store : {"source", "admin"}, at : Hours, inside : BOOLEAN]
NoCursor == <<>>
Period == 2

PagesInit ==
    /\ stream \in {"timeline", "activity", "findings"}
    /\ hour = Period
    /\ \E present \in SUBSET Ids : rows \in [present -> {r \in Placed : r.at < hour
          /\ (stream = "activity" => r.store = "source")
          /\ (stream = "findings" => r.store = "admin") /\ (stream # "findings" => r.inside)}]
    /\ touches = 0
    /\ walk = [at |-> "start", cursor |-> NoCursor, window |-> <<>>, read |-> {}]
    /\ pages = <<>>
    /\ untouched = {}

----------------------------------------------------------------------------
\* The order of the list: newest or most urgent first, identifiers break ties
\* (downwards in a timeline).
After(a, i, b, j) == a < b \/ (a = b /\ i > j)
Passed(i) == walk.cursor = NoCursor \/ After(rows[i].at, i, walk.cursor[1], walk.cursor[2])

\* Mutant: every page takes the period as of now.
WindowOfNow == <<hour - Period, hour>>
\* activity_queries: the window of the first page travels in the cursor.
Window == IF walk.cursor = NoCursor THEN <<hour - Period, hour>> ELSE walk.window
Listed(i) == stream = "activity" => rows[i].at >= Window[1] /\ rows[i].at < Window[2]

\* The first rows of a set of [id, at] by the order of the list, at most n.
First(n, set) ==
    {r \in set : Cardinality({s \in set : After(r.at, r.id, s.at, s.id)}) < n}
Here(store) == {[id |-> i, at |-> rows[i].at] : i \in {j \in DOMAIN rows : rows[j].store = store}}
Continued(store) == {r \in Here(store) : Listed(r.id) /\ Passed(r.id)}

\* What the first read of a page holds: of a timeline and of activity one row
\* more than a page, of a scoped list of findings the rows still to be matched.
ReadRows ==
    /\ walk.at \in {"start", "more"}
    /\ walk' = [walk EXCEPT !.at = "read", !.window = Window,
                    !.read = IF stream = "findings" THEN Here("admin")
                             ELSE First(PageLength + 1, Continued("source"))]
    /\ untouched' = IF walk.at = "more" THEN untouched
                    ELSE {i \in DOMAIN rows : Listed(i) /\ rows[i].inside}
    /\ UNCHANGED <<stream, hour, rows, touches, pages>>

\* The second read and the page: a timeline adds the events of the other
\* database, findings drop those that lie outside or before the cursor.
Matched ==
    CASE stream = "timeline" -> walk.read \cup First(PageLength + 1, Continued("admin"))
      [] stream = "activity" -> walk.read
      [] stream = "findings" ->
            {r \in walk.read :
                /\ r.id \in DOMAIN rows => rows[r.id].inside
                /\ walk.cursor = NoCursor \/ After(r.at, r.id, walk.cursor[1], walk.cursor[2])}
InOrder(set) ==
    CHOOSE list \in [1..Cardinality(set) -> set] :
        \A m, n \in DOMAIN list :
            m < n => After(list[n].at, list[n].id, list[m].at, list[m].id)

ShowPage ==
    /\ walk.at = "read"
    /\ LET page == InOrder(First(PageLength, Matched))
           more == Cardinality(Matched) > PageLength
           last == page[Len(page)]
       IN  /\ pages' = pages \o [n \in DOMAIN page |-> page[n].id]
           /\ walk' = [walk EXCEPT !.at = IF more THEN "more" ELSE "end", !.read = {},
                          !.cursor = IF more THEN <<last.at, last.id>> ELSE @]
    /\ UNCHANGED <<stream, hour, rows, touches, untouched>>

----------------------------------------------------------------------------
\* Ids come, change their place and go, between two pages and within one: a
\* new event of a timeline, a delivery that is sent, a finding reprioritised.
Touch ==
    /\ touches < MaxTouches /\ walk.at \notin {"start", "end"}
    /\ touches' = touches + 1
    /\ \E i \in Ids :
          /\ \/ i \in DOMAIN rows /\ rows' = [j \in DOMAIN rows \ {i} |-> rows[j]]
             \/ \E r \in Placed :
                   /\ stream = "activity" => r.store = "source"
                   /\ stream = "findings" => r.store = "admin"
                   /\ stream # "findings" => r.inside
                   /\ i \in DOMAIN rows => r.store = rows[i].store
                   /\ rows' = [j \in DOMAIN rows \cup {i} |-> IF j = i THEN r ELSE rows[j]]
          /\ untouched' = untouched \ {i}
    /\ UNCHANGED <<stream, hour, walk, pages>>

HourPasses ==
    /\ hour < LastHour /\ walk.at \in {"read", "more"}
    /\ hour' = hour + 1
    /\ UNCHANGED <<stream, rows, touches, walk, pages, untouched>>

PagesNext == ReadRows \/ ShowPage \/ Touch \/ HourPasses
PagesSpec == PagesInit /\ [][PagesNext]_pageVars

----------------------------------------------------------------------------
\* Whatever is inserted, moved or deleted meanwhile, and however long a walk
\* takes: a row that stays as it is, is never shown twice, keeps its place among
\* the others that stay, and has been shown when the last page says there is no
\* other.
UnchangedOnce ==
    /\ \A m, n \in DOMAIN pages :
          (m < n /\ {pages[m], pages[n]} \subseteq untouched) =>
              After(rows[pages[n]].at, pages[n], rows[pages[m]].at, pages[m])
    /\ walk.at = "end" => untouched \subseteq {pages[n] : n \in DOMAIN pages}
=============================================================================
