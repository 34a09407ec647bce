------------------------------ MODULE GridPanel -----------------------------
(***************************************************************************)
(* The grid panel over the rows of GridRows: what the user does in the     *)
(* action bar, the column headers and the rows (src/mentorapp/ui/          *)
(* grid_panel.py, run by frontend/src/grid), and the documents it asks     *)
(* for: POST /grids/{key}/export and /print with the job handlers of       *)
(* automation/artifact_jobs.py.  The queue is JobQueue's subject: here a   *)
(* job runs once, some time after it was enqueued.                         *)
(***************************************************************************)
EXTENDS GridRows

CONSTANTS
    PanelViews, SortFields,
    MaxClicks  \* bound on the user's inputs

\* There is a view, and a search box with nothing in it yet.
ASSUME GridPanelAssumption ==
    PanelViews # {} /\ Searches \ Armed # {} /\ MaxClicks \in Nat

VARIABLES
    panel,     \* the panel's state in the browser
    document,  \* the last document asked for
    clicks     \* count of the user's inputs

panelOnly == <<panel, document, clicks>>
panelVars == <<rowVars, panelOnly>>

SortKey == [field : SortFields, descending : BOOLEAN]
\* explicit: the rows picked; filteredSet: all rows but those.
Selection == [kind : {"explicit", "filteredSet"}, ids : SUBSET GRows]
NoSelection == [kind |-> "explicit", ids |-> {}]
Scope == [kind : {"selection", "filteredSet"}, ids : SUBSET GRows]
NotAsked == [status |-> "none", rows |-> {}]

Input(p) ==
    /\ clicks < MaxClicks
    /\ clicks' = clicks + 1 /\ panel' = p /\ UNCHANGED <<rowVars, document>>

-----------------------------------------------------------------------------
\* A plain click sorts by the field alone, a repeated one turns it round.
click(keys, field) ==
    IF Len(keys) = 1 /\ keys[1].field = field
    THEN <<[field |-> field, descending |-> ~keys[1].descending]>>
    ELSE <<[field |-> field, descending |-> FALSE]>>

\* A shift-click adds a key, turns it round, and removes it.
shift_click(keys, field) ==
    LET at == {i \in DOMAIN keys : keys[i].field = field} IN
    IF at = {} THEN Append(keys, [field |-> field, descending |-> FALSE])
    ELSE LET i == CHOOSE x \in at : TRUE IN
         IF keys[i].descending THEN RemoveAt(keys, i)
         ELSE [keys EXCEPT ![i].descending = TRUE]

header_sort_click(field, extend) ==
    Input([panel EXCEPT
        !.sort = IF extend THEN shift_click(@, field) ELSE click(@, field),
        !.modifications = @ \cup {"sort"}])

\* A column is resized, or the settings are changed, for the moment.
modify(kind) == Input([panel EXCEPT !.modifications = @ \cup {kind}])

\* The modifications are discarded with the view they were made to.
select_view(view) == Input([panel EXCEPT !.view = view, !.modifications = {}, !.sort = << >>])

\* Toggling a row of the entire filtered set starts over with none.
toggled(selection, r) ==
    IF selection.kind = "filteredSet" THEN NoSelection
    ELSE [selection EXCEPT !.ids = (@ \ {r}) \cup ({r} \ @)]
toggleSelected(r) ==
    /\ r \in filtered(panel.search)
    /\ Input([panel EXCEPT !.selection = toggled(@, r)])

selectEntireFilteredSet == Input([panel EXCEPT !.selection = [kind |-> "filteredSet", ids |-> {}]])

\* A search keeps the selection.
TypeSearch(search) == search # panel.search /\ Input([panel EXCEPT !.search = search])

\* resolve_grid_state, of a source that answers and may be read.  No grid has
\* column filters: the panels router serves allowAdHocFilters false and the
\* panel counts none, so only the search narrows.
resolve_grid_state ==
    IF filtered(panel.search) # {} THEN "rows"
    ELSE IF panel.search \in Armed THEN "zeroFilteredSearch" ELSE "emptyView"

-----------------------------------------------------------------------------
\* The selection when there is one, else the entire filtered set.
resolve_export_scope(selection) ==
    IF selection.kind = "explicit" /\ selection.ids # {}
    THEN [kind |-> "selection", ids |-> selection.ids]
    ELSE IF selection.kind = "filteredSet"
    THEN [kind |-> "filteredSet", ids |-> selection.ids]
    ELSE [kind |-> "filteredSet", ids |-> {}]

\* The job's payload names the scope and the filter state.
_document_payload == [scope |-> resolve_export_scope(panel.selection), search |-> panel.search]

\* POST /grids/{key}/export or /print: a job is enqueued.
PostDocument ==
    /\ document.status # "queued"
    /\ clicks < MaxClicks /\ clicks' = clicks + 1
    /\ document' = [status |-> "queued", payload |-> _document_payload, rows |-> {}]
    /\ UNCHANGED <<rowVars, panel>>

\* Every row of the entity's read view, which holds the live records.
_read_view_rows(payload) == {r \in GRows : grows[r].live}

\* The handler of an export or print job.
RunDocument ==
    /\ document.status = "queued"
    /\ document' = [document EXCEPT !.status = "done", !.rows = _read_view_rows(document.payload)]
    /\ UNCHANGED <<rowVars, panel, clicks>>

-----------------------------------------------------------------------------
PanelInit ==
    /\ RowsInit
    /\ panel = [view |-> CHOOSE v \in PanelViews : TRUE, modifications |-> {}, sort |-> << >>,
                search |-> CHOOSE s \in Searches \ Armed : TRUE, selection |-> NoSelection]
    /\ document = NotAsked /\ clicks = 0

PanelNext ==
    \/ \E field \in SortFields, extend \in BOOLEAN : header_sort_click(field, extend)
    \/ \E kind \in {"columnWidth", "viewSettings"} : modify(kind)
    \/ \E view \in PanelViews : select_view(view)
    \/ \E r \in GRows : toggleSelected(r)
    \/ selectEntireFilteredSet
    \/ \E search \in Searches : TypeSearch(search)
    \/ PostDocument
    \/ RunDocument
    \/ \E r \in GRows, row \in GridRow : WriteRow(r, row) /\ UNCHANGED panelOnly

PanelSpec == PanelInit /\ [][PanelNext]_panelVars

-----------------------------------------------------------------------------
PanelTypeOK ==
    /\ panel.view \in PanelViews /\ panel.sort \in Seq(SortKey)
    /\ panel.modifications \subseteq {"sort", "columnWidth", "viewSettings"}
    /\ panel.search \in Searches /\ panel.selection \in Selection
    /\ document.status \in {"none", "queued", "done"} /\ document.rows \subseteq GRows
    /\ document.status # "none" => document.payload.scope \in Scope
    /\ clicks \in 0 .. MaxClicks

\* What the panel shows is never silently other than the view it names: rows
\* sorted otherwise than the view are marked as modified, a column sorts at one
\* position, and a grid called empty has no rows the search could be hiding.
PanelSaysWhatItShows ==
    /\ panel.sort # << >> => "sort" \in panel.modifications
    /\ \A i, j \in DOMAIN panel.sort : i # j => panel.sort[i].field # panel.sort[j].field
    /\ resolve_grid_state = "emptyView" =>
          \A r \in GRows : ~grows[r].live \/ ~grows[r].match

\* The pages, the total, the searches offered again and the panel's own marks
\* all tell of the table as it is, or say that they do not.
GridShowsItsTable == PagesCoverStableRows /\ RecallListsWhatRan /\ PanelSaysWhatItShows

\* "The artifact can never disagree with the grid the user saw": a document
\* holds the selected records, or else the entire filtered set.
ExportsCoverTheirScope ==
    [][document.status = "queued" /\ document'.status = "done" =>
          LET payload == document.payload IN
          document'.rows = {r \in GRows : grows[r].live} \cap
              IF payload.scope.kind = "selection" THEN payload.scope.ids
              ELSE filtered(payload.search) \ payload.scope.ids]_panelVars
=============================================================================
