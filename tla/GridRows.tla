------------------------------ MODULE GridRows ------------------------------
(***************************************************************************)
(* Reading the rows of a grid: GET /grids/{key}/rows and /aggregates of    *)
(* src/mentorapp/api/routers/grids.py, over api/list_engine.py and         *)
(* api/grid_surface.py.  Windows of one user scroll through the rows of a  *)
(* view, page after page, each page a request of its own, while records    *)
(* are written.  A request reads its page and the list of recent searches, *)
(* and its answer stands once the list is committed.                       *)
(*                                                                         *)
(* A record's identifier is its place in the order of identifiers.  The    *)
(* view's filters are a property of the record that writes change, a       *)
(* search selects the records of a fixed set.                              *)
(***************************************************************************)
EXTENDS Naturals, Sequences, FiniteSets, SequencesExt, Requests

CONSTANTS
    GRows,        \* identifiers of records, 1 .. n
    SortValues,   \* values of the sort field, naturals
    NullValue,    \* NULL in the sort field, the start of a scroll
    Tables,       \* the values the records have at first, [GRows -> value]
    Searches,     \* texts in the search box
    Armed,        \* those of at least MIN_SEARCH_LENGTH characters
    Hits,         \* [Searches -> SUBSET GRows], the records that contain it
    PageSize,
    RECENT_SEARCH_LIMIT,
    MaxPages,     \* bound on the requests for pages
    MaxRowWrites  \* bound on the writes of records

ASSUME GridRowsAssumption ==
    /\ IsFiniteSet(GRows) /\ GRows \subseteq Nat \ {0}
    /\ SortValues \subseteq Nat /\ NullValue \notin SortValues
    /\ Tables \subseteq [GRows -> SortValues \cup {NullValue}]
    /\ Armed \subseteq Searches /\ Hits \in [Searches -> SUBSET GRows]
    /\ \A s \in Searches \ Armed : Hits[s] = GRows
    /\ {PageSize, RECENT_SEARCH_LIMIT, MaxPages, MaxRowWrites} \subseteq Nat \ {0}

VARIABLES
    grows,    \* the records of the entity
    sorted,   \* whether the view has sort specs; else it is sorted by identifier
    recent,   \* userPreference grid.<key>.recentSearches, [list, version]
    scroll,   \* the scrolls of the windows
    asked,    \* count of the requests for pages
    written,  \* count of the writes of records
    ran       \* history: the armed searches that were served, in order

rowVars == <<grows, sorted, recent, scroll, asked, written, ran>>

GridRow == [live : BOOLEAN, value : SortValues \cup {NullValue}, match : BOOLEAN]
Closed == [pc |-> "closed"]
FirstCursor == [value |-> NullValue, id |-> 0]

-----------------------------------------------------------------------------
\* The records the view shows, narrowed by the search; writes may change it.
filtered(search) ==
    {r \in GRows : grows[r].live /\ grows[r].match /\ r \in Hits[search]}

sort_value(r) == IF sorted THEN grows[r].value ELSE r

\* Ascending whatever the view's direction, NULL last, ties by identifier.
Precedes(a, b) ==
    LET x == sort_value(a)
        y == sort_value(b) IN
    IF x = y THEN a < b ELSE x # NullValue /\ (y = NullValue \/ x < y)

\* Mutant: the seek is on the sort value alone.
BeyondMutant(r, cursor) ==
    LET x == sort_value(r) IN
    \/ cursor.id = 0
    \/ x # NullValue /\ cursor.value # NullValue /\ x > cursor.value
\* `sort > v OR (sort = v AND id > i)`: nothing is greater than NULL, and NULL
\* is greater than nothing.
Beyond(r, cursor) ==
    LET x == sort_value(r) IN
    \/ cursor.id = 0
    \/ x # NullValue /\ cursor.value # NullValue /\ x > cursor.value
    \/ x = cursor.value /\ r > cursor.id

\* The first n of some records, in the order of the sort.
FirstRows(found, n) ==
    [i \in 1 .. n |-> CHOOSE r \in found : Cardinality({s \in found : Precedes(s, r)}) = i - 1]

\* A page and the cursor of the next; FirstCursor when there is none.  The cursor
\* of a view sorted by identifier cannot be encoded.
keyset_page(search, cursor) ==
    LET found == {r \in filtered(search) : Beyond(r, cursor)}
        more == Cardinality(found) > PageSize
        rows == FirstRows(found, IF more THEN PageSize ELSE Cardinality(found)) IN
    [rows |-> rows,
     next |-> IF more THEN [value |-> sort_value(Last(rows)), id |-> Last(rows)] ELSE FirstCursor,
     fails |-> more /\ ~sorted]

Others(list, search) ==
    FoldLeft(LAMBDA kept, s : IF s = search THEN kept ELSE Append(kept, s), << >>, list)

\* Mutant: a search too short to run is remembered too.
remember_searchMutant(previous, search) == <<search>> \o Others(previous, search)

remember_search(previous, search) ==
    IF search \notin Armed THEN previous
    ELSE LET list == <<search>> \o Others(previous, search) IN
         SubSeq(list, 1, IF Len(list) < RECENT_SEARCH_LIMIT THEN Len(list)
                         ELSE RECENT_SEARCH_LIMIT)

-----------------------------------------------------------------------------
\* A window opens the grid, or types another search, with no request on its way.
OpenGrid(q, search) ==
    /\ scroll[q].pc \in {"closed", "open", "end"}
    /\ scroll' = [scroll EXCEPT ![q] =
          [pc |-> "open", search |-> search, rows |-> << >>, cursor |-> FirstCursor, moved |-> {},
           total |-> 0, counted |-> FALSE]]
    /\ UNCHANGED <<grows, sorted, recent, asked, written, ran>>

\* The request reads its page and the list, which it writes only if it changes;
\* one that cannot encode its cursor is answered with a server error.
ReadPage(q) ==
    LET w == scroll[q] IN
    /\ w.pc = "open" /\ asked < MaxPages
    /\ LET page == keyset_page(w.search, w.cursor)
           list == remember_search(recent.list, w.search) IN
       /\ ~page.fails
       /\ scroll' = [scroll EXCEPT ![q] =
             [pc |-> "asked", search |-> w.search, rows |-> w.rows, cursor |-> w.cursor,
              moved |-> w.moved, total |-> w.total, counted |-> w.counted, page |-> page,
              list |-> list, saves |-> list # recent.list, version |-> recent.version]]
       /\ ran' = IF list = recent.list /\ w.search \in Armed THEN Append(ran, w.search) ELSE ran
    /\ asked' = asked + 1
    /\ UNCHANGED <<grows, sorted, recent, written>>

\* An UPDATE of the version that was read, or the INSERT of the first list.
LandsOn(w) == recent.version = w.version

\* What the window keeps of a request that ended.
WithAnswer(w, pc, rows, cursor) ==
    [pc |-> pc, search |-> w.search, rows |-> rows, cursor |-> cursor, moved |-> w.moved,
     total |-> w.total, counted |-> w.counted]

\* The list is committed with the answer.  A lost race for it is a server
\* error: the page does not arrive and may be asked for again.
AnswerPage(q) ==
    LET w == scroll[q] IN
    /\ w.pc = "asked"
    /\ IF ~w.saves \/ LandsOn(w)
       THEN /\ scroll' = [scroll EXCEPT ![q] =
                  WithAnswer(w, IF w.page.next = FirstCursor THEN "end" ELSE "open",
                          w.rows \o w.page.rows, w.page.next)]
            /\ IF w.saves
               THEN /\ recent' = [list |-> w.list, version |-> recent.version + 1]
                    /\ ran' = Append(ran, w.search)
               ELSE UNCHANGED <<recent, ran>>
       ELSE /\ scroll' = [scroll EXCEPT ![q] = WithAnswer(w, "open", w.rows, w.cursor)]
            /\ UNCHANGED <<recent, ran>>
    /\ UNCHANGED <<grows, sorted, asked, written>>

\* count_and_aggregates over the entire filtered set, beside the first page.
ReadAggregates(q) ==
    /\ scroll[q].pc = "open" /\ scroll[q].rows = << >> /\ ~scroll[q].counted
    /\ scroll' = [scroll EXCEPT ![q].total = Cardinality(filtered(scroll[q].search)),
                                ![q].counted = TRUE]
    /\ UNCHANGED <<grows, sorted, recent, asked, written, ran>>

\* A record is removed, restored, or saved with other values.
WriteRow(r, row) ==
    /\ written < MaxRowWrites /\ row # grows[r]
    /\ \/ row.live /\ grows[r].live
       \/ row = [grows[r] EXCEPT !.live = ~@]
    /\ grows' = [grows EXCEPT ![r] = row]
    /\ written' = written + 1
    /\ scroll' = [q \in Slots |-> IF scroll[q] = Closed THEN Closed
                                  ELSE [scroll[q] EXCEPT !.moved = @ \cup {r}]]
    /\ UNCHANGED <<sorted, recent, asked, ran>>

-----------------------------------------------------------------------------
RowsInit ==
    /\ \E values \in Tables :
          grows = [r \in GRows |-> [live |-> TRUE, value |-> values[r], match |-> TRUE]]
    /\ sorted \in BOOLEAN
    /\ recent = [list |-> << >>, version |-> 0]
    /\ scroll = [q \in Slots |-> Closed]
    /\ asked = 0 /\ written = 0 /\ ran = << >>

RowsNext ==
    \/ \E q \in Slots :
          \/ asked < MaxPages /\ \E search \in Searches : OpenGrid(q, search)
          \/ ReadPage(q)
          \/ AnswerPage(q)
          \/ ReadAggregates(q)
    \/ \E r \in GRows, row \in GridRow : WriteRow(r, row)

RowsSpec == RowsInit /\ [][RowsNext]_rowVars

-----------------------------------------------------------------------------
RowsTypeOK ==
    /\ grows \in [GRows -> GridRow] /\ sorted \in BOOLEAN
    /\ recent.list \in Seq(Armed) /\ Len(recent.list) <= RECENT_SEARCH_LIMIT
    /\ recent.version \in Nat
    /\ \A q \in Slots : scroll[q].pc \in {"closed", "open", "asked", "end"}
    /\ asked \in 0 .. MaxPages /\ written \in 0 .. MaxRowWrites
    /\ ran \in Seq(Armed)

\* "Every page ... stable under concurrent inserts": however records are
\* written while a user scrolls to the end, each record nobody touched since
\* the window opened and that it shows was served once, and they came in the
\* order of the sort.  When nothing was touched, the count beside the pages
\* agrees with them.  Records without a value in the sort field are left out:
\* no cursor seeks to them, so a scroll serves them on its first page or never.
PagesCoverStableRows ==
    \A q \in Slots :
        scroll[q].pc = "end" =>
            LET w == scroll[q]
                stable == {r \in filtered(w.search) \ w.moved : sort_value(r) # NullValue} IN
            /\ \A r \in stable : Cardinality({i \in DOMAIN w.rows : w.rows[i] = r}) = 1
            /\ \A i, j \in DOMAIN w.rows :
                  i < j /\ w.rows[i] \in stable /\ w.rows[j] \in stable =>
                      Precedes(w.rows[i], w.rows[j])
            /\ w.moved = {} /\ w.counted /\ filtered(w.search) = stable =>
                  w.total = Len(w.rows)

\* The searches a user is offered again are the ones that ran: for some order
\* of the requests of all their windows, the most recent ones, newest first,
\* each once.  No window's search is lost to another's.
RecallListsWhatRan ==
    LET Newest(s) == CHOOSE i \in DOMAIN ran : ran[i] = s /\ \A j \in DOMAIN ran : ran[j] = s => j <= i
        distinct == {ran[i] : i \in DOMAIN ran} IN
    /\ Len(recent.list) = IF Cardinality(distinct) < RECENT_SEARCH_LIMIT
                          THEN Cardinality(distinct) ELSE RECENT_SEARCH_LIMIT
    /\ \A i \in DOMAIN recent.list :
          Cardinality({s \in distinct : Newest(s) >= Newest(recent.list[i])}) = i
=============================================================================
