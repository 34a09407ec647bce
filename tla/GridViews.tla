----------------------------- MODULE GridViews ------------------------------
(***************************************************************************)
(* The views of one grid and what a user's grid opens on:                  *)
(* src/mentorapp/ui/view_authoring.py over access/views.py,                *)
(* access/view_enforcement.py and storage/grids.py, and the resolution of  *)
(* a shared link in api/grid_surface.py.                                   *)
(*                                                                         *)
(* Each operation runs in its caller's database session: it reads and      *)
(* decides when it is called, and its rows land together at the commit, an *)
(* UPDATE only on the version that was read and an INSERT only if the      *)
(* unique indexes allow it.  A view's settings (TEMPORARY_OVERRIDE_FIELDS) *)
(* are represented by the fields it displays.                              *)
(***************************************************************************)
EXTENDS Naturals, FiniteSets, Functions, Requests

CONSTANTS
    ViewIDs, ViewUsers, ViewNames,
    VFields,       \* the fields an author may expose
    SourceDrafts,  \* drafts, [declared, visual], of raw SQL or a visual document
    NoDocument,    \* Python's None where a visual document may stand
    Nobody,        \* NULL: the owner of a system view, a view that is not there
    Granted,       \* [ViewUsers -> accessGrantKeys]
    Readers,       \* the users whose roles cover the data source
    MaxViewWrites  \* bound on the writes of all views

ASSUME GridViewsAssumption ==
    /\ Nobody \notin ViewUsers /\ Nobody \notin ViewIDs /\ Readers \subseteq ViewUsers
    /\ ViewIDs \subseteq Nat /\ ViewNames # {}
    /\ MaxViewWrites \in Nat /\ DOMAIN Granted = ViewUsers
    /\ \A draft \in SourceDrafts :
          /\ draft.declared \subseteq VFields
          /\ draft.visual # NoDocument =>
                draft.visual.selected \cup draft.visual.calculated \subseteq VFields

VARIABLES
    gviews,    \* the gridView rows
    exposed,   \* exposedFields of the data source; {}: it is not authored yet
    lastView,  \* userPreference grid.<key>.lastView of each user
    viewReq,   \* [Slots -> request]
    working,   \* history: what a user applied last and has not saved
    overlapped \* history: users two of whose first applications overlapped

viewVars == <<gviews, exposed, lastView, viewReq, working, overlapped>>

\* Version 0: not there yet.  temp: temporaryModifiedFlag.
GridView ==
    [live : BOOLEAN, name : ViewNames, owner : ViewUsers \cup {Nobody},
     fields : SUBSET VFields, temp : BOOLEAN, readOnly : BOOLEAN, version : Nat]

-----------------------------------------------------------------------------
ADMIN_CAPABILITIES ==
    {"adminSql.author", "gridView.promote", "workprocess.register", "help.admin"}
GRANTABLE_CAPABILITIES == ADMIN_CAPABILITIES \cup {"resource.manage", "event.manage"}
USER_BASELINE_CAPABILITIES ==
    {"gridView.saveAsUser", "gridView.applyTemporary", "gridView.manageOwn",
     "gridView.shareLink"}

effective_capabilities(keys) == USER_BASELINE_CAPABILITIES \cup (keys \cap GRANTABLE_CAPABILITIES)
holds_capability(u, capability) == capability \in effective_capabilities(Granted[u])

view_visible_to(view, u) == view.owner \in {Nobody, u}

can_apply_temporarily(view, u) == view_visible_to(view, u)

can_manage_view(view, u) == view.owner = u /\ ~view.readOnly /\ ~view.temp

\* save_disposition: in place, or as the user's own copy.
save_in_place(view, u) == view.owner = u /\ ~view.readOnly /\ ~view.temp

LiveViews == {v \in ViewIDs : gviews[v].live}
UnusedViews == {v \in ViewIDs : /\ gviews[v].version = 0
                                /\ \A q \in Slots : viewReq[q] = Idle \/ v \notin DOMAIN viewReq[q].rows}

\* It asks whether the view is there, not whose it is.
load_live_view(v) == v \in LiveViews

-----------------------------------------------------------------------------
_validate_against_source(fields) == fields # {} /\ fields \subseteq exposed

_saved_name_taken(name, owner) ==
    \E v \in LiveViews : /\ gviews[v].name = name /\ gviews[v].owner = owner
                         /\ ~gviews[v].temp

NewView(name, owner, fields, temp) ==
    [live |-> TRUE, name |-> name, owner |-> owner, fields |-> fields, temp |-> temp,
     readOnly |-> FALSE, version |-> 1]
Next_(row) == [row EXCEPT !.version = @ + 1]
SoftDeleted(v) == [Next_(gviews[v]) EXCEPT !.live = FALSE]

\* A single row; rows, and those of the others that are not among them.
Row(v, row) == [x \in {v} |-> row]
Over(rows, others) ==
    [v \in DOMAIN rows \cup DOMAIN others |-> IF v \in DOMAIN rows THEN rows[v] ELSE others[v]]

\* The rows a call hands to its session's flush.
Flush(q, u, call, rows) ==
    /\ viewReq[q] = Idle
    /\ viewReq' = [viewReq EXCEPT ![q] = [pc |-> call, user |-> u, rows |-> rows]]
    /\ UNCHANGED <<gviews, exposed, lastView, working>>

create_view(q, u, w, name, fields) ==
    /\ _validate_against_source(fields) /\ ~_saved_name_taken(name, u)
    /\ Flush(q, u, "create", Row(w, NewView(name, u, fields, FALSE)))
    /\ UNCHANGED overlapped

\* In place when the view is the user's to change; else a copy, of anybody's view,
\* which replaces the user's working copy when it was made from it.
save_as_user_view(q, u, v, w, name) ==
    LET view == gviews[v]
        copy == Row(w, NewView(name, u, view.fields, FALSE)) IN
    /\ load_live_view(v)
    /\ \/ /\ save_in_place(view, u)
          /\ name = view.name \/ ~_saved_name_taken(name, u)
          /\ Flush(q, u, "save", Row(v, [Next_(view) EXCEPT !.name = name]))
       \/ /\ ~save_in_place(view, u) /\ ~_saved_name_taken(name, u)
          /\ Flush(q, u, "save", IF view.temp /\ view.owner = u
                                 THEN Over(copy, Row(v, SoftDeleted(v))) ELSE copy)
    /\ UNCHANGED overlapped

\* The user's working copies that are live.
WorkingCopies(u) == {v \in LiveViews : gviews[v].temp /\ gviews[v].owner = u}

\* The working copy there is is seeded anew from the base, or a new one is made;
\* `first()` takes any when there are two.
apply_temporary_view(q, u, v, w, fields) ==
    /\ load_live_view(v) /\ can_apply_temporarily(gviews[v], u)
    /\ _validate_against_source(fields)
    /\ \/ /\ WorkingCopies(u) = {}
          /\ Flush(q, u, "apply", Row(w, NewView(gviews[v].name, u, fields, TRUE)))
          /\ overlapped' = IF \E p \in Slots : viewReq[p].pc = "apply" /\ viewReq[p].user = u
                           THEN overlapped \cup {u} ELSE overlapped
       \/ \E copy \in WorkingCopies(u) :
             /\ Flush(q, u, "apply", Row(copy, [Next_(gviews[copy]) EXCEPT
                   !.name = gviews[v].name, !.fields = fields]))
             /\ UNCHANGED overlapped

\* The one sharing path: anybody's saved view becomes, as a copy, a system view
\* of the same name.
promote_view_to_system(q, u, v, w) ==
    /\ load_live_view(v) /\ holds_capability(u, "gridView.promote")
    /\ gviews[v].owner # Nobody /\ ~gviews[v].temp
    /\ ~_saved_name_taken(gviews[v].name, Nobody)
    /\ Flush(q, u, "promote", Row(w, NewView(gviews[v].name, Nobody, gviews[v].fields, FALSE)))
    /\ UNCHANGED overlapped

delete_user_view(q, u, v) ==
    /\ load_live_view(v) /\ can_manage_view(gviews[v], u)
    /\ Flush(q, u, "delete", Row(v, SoftDeleted(v)))
    /\ UNCHANGED overlapped

-----------------------------------------------------------------------------
\* uq_gridView_system_name_live and uq_gridView_owner_name_live.
UniqueNames(rows) ==
    \A a, b \in DOMAIN rows :
        a # b /\ rows[a].live /\ rows[b].live /\ ~rows[a].temp /\ ~rows[b].temp =>
            <<rows[a].owner, rows[a].name>> # <<rows[b].owner, rows[b].name>>

\* Mutant: an UPDATE does not compare the version it read.
LandsMutant(rows) == UniqueNames(Over(rows, gviews))
\* Whether the flushed rows land.
Lands(rows) ==
    /\ \A v \in DOMAIN rows : gviews[v].version = rows[v].version - 1
    /\ UniqueNames(Over(rows, gviews))

\* The caller commits, or the statement that does not land rolls the call back.
CommitViews(q) ==
    LET request == viewReq[q]
        u == request.user IN
    /\ request # Idle
    /\ viewReq' = [viewReq EXCEPT ![q] = Idle]
    /\ IF Lands(request.rows)
       THEN /\ gviews' = Over(request.rows, gviews)
            /\ working' = [working EXCEPT ![u] =
                  IF request.pc = "apply"
                  THEN (CHOOSE row \in Range(request.rows) : TRUE).fields
                  ELSE IF request.pc = "save" /\ Cardinality(DOMAIN request.rows) = 2
                          /\ \E row \in Range(request.rows) : row.live /\ row.fields = @
                  THEN {} ELSE @]
       ELSE UNCHANGED <<gviews, working>>
    /\ UNCHANGED <<exposed, lastView, overlapped>>

\* The fields a visual query's document exposes: the selected and the computed.
exposed_field_names(visual) == visual.selected \cup visual.calculated

\* The outcome of compile_visual_query: a statement, or a refusal.
compiles(visual) == exposed_field_names(visual) # {}

\* A draft is raw SQL that declares its fields or a visual document, never both;
\* an existing source is authored again under the views that read it.
author_data_source(u, draft) ==
    /\ holds_capability(u, "adminSql.author")
    /\ \/ draft.visual = NoDocument /\ draft.declared # {} /\ exposed' = draft.declared
       \/ /\ draft.visual # NoDocument /\ draft.declared = {} /\ compiles(draft.visual)
          /\ exposed' = exposed_field_names(draft.visual)
    /\ UNCHANGED <<gviews, lastView, viewReq, working, overlapped>>

-----------------------------------------------------------------------------
\* Called when a live view is displayed, so for users who may read its data; whose
\* view it is, is not asked.
remember_last_used_view(u, v) ==
    /\ u \in Readers /\ load_live_view(v)
    /\ lastView' = [lastView EXCEPT ![u] = v]
    /\ UNCHANGED <<gviews, exposed, viewReq, working, overlapped>>

\* The oldest live system view; ids are handed out in the order of creation.
_default_system_view ==
    LET systems == {v \in LiveViews : gviews[v].owner = Nobody} IN
    IF systems = {} THEN Nobody ELSE CHOOSE v \in systems : \A w \in systems : v <= w

usable(v, u) == v # Nobody /\ gviews[v].live /\ gviews[v].owner \in {Nobody, u}

restore_last_used_view(u) ==
    IF usable(lastView[u], u) THEN [view |-> lastView[u], notice |-> FALSE]
    ELSE [view |-> _default_system_view,
          notice |-> lastView[u] # Nobody \/ _default_system_view = Nobody]

\* A link that names v: a removed view leaves a link to the grid alone.
load_deep_link_facts(v, u) ==
    IF v \notin LiveViews THEN [kind |-> "grid"]
    ELSE [kind |-> "view", owner |-> gviews[v].owner, access |-> u \in Readers]

\* What a link that names a view opens for u: that view, the stored preference as
\* it is, or nothing when u may not read the data.
resolve_grid_link(v, u) ==
    LET facts == load_deep_link_facts(v, u) IN
    IF ~facts.access THEN [kind |-> "denied"]
    ELSE IF facts.owner \in {Nobody, u} THEN [kind |-> "open", view |-> v]
    ELSE [kind |-> "fallback", view |-> lastView[u]]

-----------------------------------------------------------------------------
\* A grid is deployed with a system view over an authored source, or bare.
ViewsInit ==
    /\ exposed \in {{}, VFields}
    /\ gviews = [v \in ViewIDs |->
          [NewView(CHOOSE n \in ViewNames : TRUE, Nobody, exposed, FALSE) EXCEPT
              !.live = exposed # {} /\ v = 1, !.version = IF exposed # {} /\ v = 1 THEN 1 ELSE 0]]
    /\ lastView = [u \in ViewUsers |-> Nobody]
    /\ viewReq = [q \in Slots |-> Idle]
    /\ working = [u \in ViewUsers |-> {}] /\ overlapped = {}

ViewWrites == FoldFunction(+, 0, [v \in ViewIDs |-> gviews[v].version])

ViewsNext ==
    \/ \E q \in Slots, u \in ViewUsers :
          /\ ViewWrites < MaxViewWrites
          /\ \E fields \in SUBSET VFields, v \in ViewIDs, name \in ViewNames :
                \/ /\ UnusedViews # {}
                   /\ LET w == CHOOSE x \in UnusedViews : \A y \in UnusedViews : x <= y IN
                      \/ create_view(q, u, w, name, fields)
                      \/ save_as_user_view(q, u, v, w, name)
                      \/ apply_temporary_view(q, u, v, w, fields)
                      \/ promote_view_to_system(q, u, v, w)
                \/ delete_user_view(q, u, v)
    \/ \E q \in Slots : CommitViews(q)
    \/ \E u \in ViewUsers :
          \/ ViewWrites < MaxViewWrites /\ \E draft \in SourceDrafts : author_data_source(u, draft)
          \/ \E v \in ViewIDs : remember_last_used_view(u, v)

ViewsSpec == ViewsInit /\ [][ViewsNext]_viewVars

-----------------------------------------------------------------------------
ViewsTypeOK ==
    /\ gviews \in [ViewIDs -> GridView]
    /\ exposed \subseteq VFields
    /\ lastView \in [ViewUsers -> ViewIDs \cup {Nobody}]
    /\ working \in [ViewUsers -> SUBSET VFields] /\ overlapped \subseteq ViewUsers

\* "One working copy per user per grid", and it is never lost: what a user
\* applied last is in a live working copy of theirs until they saved it,
\* however applications, saves and deletions overlap.  Two copies exist only
\* after two first applications overlapped: no index forbids them.
WorkingCopiesAreKept ==
    \A u \in ViewUsers :
        /\ u \notin overlapped => Cardinality(WorkingCopies(u)) <= 1
        /\ working[u] # {} => \E v \in WorkingCopies(u) : gviews[v].fields = working[u]

\* A call may read anybody's view, to copy, promote or remember it, and other
\* calls may write it before the commit; what it is about to land on a view that
\* is there is only ever the caller's own.
OwnersWrite ==
    \A q \in Slots :
        viewReq[q] # Idle =>
            \A v \in DOMAIN viewReq[q].rows :
                LET row == viewReq[q].rows[v] IN
                row.version > 1 /\ row.version = gviews[v].version + 1 =>
                    gviews[v].owner = viewReq[q].user /\ row.owner = viewReq[q].user

\* The preference may name a view that was removed since or is another's; the
\* grid still opens a live view that is the user's or the system's, and nothing
\* only when there is no system view.  A link opens the view it names only so.
OpensAreVisible ==
    \A u \in ViewUsers :
        LET opened == restore_last_used_view(u).view IN
        /\ IF opened = Nobody THEN _default_system_view = Nobody
           ELSE load_live_view(opened) /\ view_visible_to(gviews[opened], u)
        /\ \A v \in LiveViews : resolve_grid_link(v, u).kind = "open" =>
               view_visible_to(gviews[v], u) /\ u \in Readers

\* A user's views are theirs: the one being worked on is kept, nobody else's call
\* writes them, and no other's opens.
ViewsStayTheirOwners == WorkingCopiesAreKept /\ OwnersWrite /\ OpensAreVisible
=============================================================================
