--------------------------- MODULE EditorWindows ----------------------------
(***************************************************************************)
(* One user's windows on one record: read views, the full-record editors   *)
(* of src/mentorapp/api/edit_safety.py (EditorWindows) and the per-field   *)
(* windows of api/field_edit.py (FieldEditors), kept fresh by the notices  *)
(* each save broadcasts, while other users save the same record.           *)
(*                                                                         *)
(* A value is represented by the version that wrote it: what a window      *)
(* shows of a field is out of date when the field changed after it.        *)
(***************************************************************************)
EXTENDS Naturals

CONSTANTS
    RecordWindows, FieldWindows, EdFields,
    AUTO_RETRY_LIMIT,
    MaxEdVersion   \* bound on the record's rowVersion

ASSUME EditorWindowsAssumption ==
    /\ RecordWindows \cap FieldWindows = {}
    /\ AUTO_RETRY_LIMIT \in Nat /\ MaxEdVersion \in Nat \ {0}

VARIABLES
    edVersion,  \* rowVersion of the committed row
    changedAt,  \* [EdFields -> the version that last changed the field]
    window,     \* [windows -> Window]
    notices,    \* [RecordWindows -> rowVersions of the SaveNotices on their way]
    ownSave,    \* history: the newest version one of these windows has saved
    overwrote   \* history: a save replaced a value that its user had not been shown

edVars == <<edVersion, changedAt, window, notices, ownSave, overwrote>>

EdVersions == 1 .. MaxEdVersion
Windows == RecordWindows \cup FieldWindows

\* base: the rowVersion the editor goes by, and of the copy it resolves conflicts
\* against.  sent: the rowVersion of the save under way, 0 when there is none;
\* payload: the fields it carries.  seen: the version of each field that the user
\* types over.  reload: a refresh is under way.  drifted: history, the fields that
\* the base has moved past without showing them.
Window ==
    [kind : {"gone", "view", "full", "field"}, base : EdVersions,
     seen : [EdFields -> EdVersions], dirty : SUBSET EdFields, sent : 0 .. MaxEdVersion,
     payload : SUBSET EdFields, attempt : 0 .. AUTO_RETRY_LIMIT, reload : BOOLEAN,
     drifted : SUBSET EdFields]

All(version) == [f \in EdFields |-> version]
Gone == [kind |-> "gone", base |-> 1, seen |-> All(1), dirty |-> {}, sent |-> 0,
         payload |-> {}, attempt |-> 0, reload |-> FALSE, drifted |-> {}]
Showing(kind, version) == [Gone EXCEPT !.kind = kind, !.base = version, !.seen = All(version)]

EdTypeOK ==
    /\ edVersion \in EdVersions /\ ownSave \in 0 .. edVersion /\ overwrote \in BOOLEAN
    /\ changedAt \in [EdFields -> EdVersions]
    /\ window \in [Windows -> Window]
    /\ notices \in [RecordWindows -> SUBSET EdVersions]

EdInit ==
    /\ edVersion = 1 /\ ownSave = 0 /\ overwrote = FALSE
    /\ changedAt = [f \in EdFields |-> 1]
    /\ window = [w \in Windows |-> Gone]
    /\ notices = [w \in RecordWindows |-> {}]

-----------------------------------------------------------------------------
Saving(w) == window[w].sent # 0
SetWindow(w, to) == window' = [window EXCEPT ![w] = to]

\* The fields that have changed since w's user was shown them.
Unshown(w) == {f \in EdFields : changedAt[f] > window[w].seen[f]}
rowOnly == <<edVersion, changedAt, ownSave, overwrote>>

\* A read view opens on the row as it is; a closed window hears no notice.
OpenView(w) ==
    /\ window[w].kind = "gone"
    /\ SetWindow(w, Showing("view", edVersion))
    /\ UNCHANGED <<notices, rowOnly>>

\* begin_edit on the form just read.  Another window's editor of the record is
\* switched to instead; in its own window the base moves to the version read.
begin_edit(w) ==
    /\ window[w].kind \in {"view", "full"} /\ ~Saving(w)
    /\ \A u \in RecordWindows \ {w} : window[u].kind # "full"
    /\ SetWindow(w, IF window[w].dirty = {} THEN Showing("full", edVersion)
                    ELSE [window[w] EXCEPT !.base = edVersion, !.drifted = @ \cup Unshown(w)])
    /\ UNCHANGED <<notices, rowOnly>>

\* FieldEditors.open, from the copy a read surface has, and a new value typed;
\* a field that another window edits is switched to.  The same window starts over.
OpenField(w, f, from) ==
    /\ window[w].kind \in {"gone", "field"} /\ ~Saving(w)
    /\ window[from].kind = "view"
    /\ \A u \in FieldWindows \ {w} : window[u].kind = "field" => f \notin window[u].dirty
    /\ SetWindow(w, [Showing("field", window[from].base) EXCEPT !.dirty = {f}])
    /\ UNCHANGED <<notices, rowOnly>>

\* field_edited; what is typed while a save is under way is EditForm's matter.
field_edited(w, f) ==
    /\ window[w].kind = "full" /\ ~Saving(w) /\ f \notin window[w].dirty
    /\ SetWindow(w, [window[w] EXCEPT !.dirty = @ \cup {f}])
    /\ UNCHANGED <<notices, rowOnly>>

\* single_field_patch, or the dirty fields of a full editor.
request_save(w) ==
    /\ window[w].dirty # {} /\ ~Saving(w)
    /\ SetWindow(w, [window[w] EXCEPT !.sent = window[w].base, !.attempt = 0,
                                      !.payload = window[w].dirty])
    /\ UNCHANGED <<notices, rowOnly>>

\* What a window is once its values are the row's: a field window closes, a
\* full editor rebases on the row that the answer carries (edit-form.tsx, rebase).
Settled(w, version) ==
    IF window[w].kind = "field" THEN Gone
    ELSE [Showing("full", version) EXCEPT !.reload = window[w].reload]

\* save_succeeded: the row changed, and every other window hears of it.
SaveLands(w) ==
    LET new == edVersion + 1 IN
    /\ window[w].sent = edVersion /\ edVersion < MaxEdVersion
    /\ edVersion' = new /\ ownSave' = new
    /\ changedAt' = [f \in EdFields |-> IF f \in window[w].payload THEN new ELSE changedAt[f]]
    /\ overwrote' = (overwrote \/ (window[w].payload \cap Unshown(w)) \ window[w].drifted # {})
    /\ notices' = [u \in RecordWindows |->
                      IF u = w \/ window[u].kind = "gone" THEN notices[u] ELSE notices[u] \cup {new}]
    /\ SetWindow(w, Settled(w, new))

\* Mutant: an overlap is never seen.
ConflictedMutant(w, fields) == {}

\* resolve_concurrent_save_conflict: those of the fields that their saves changed.
Conflicted(w, fields) == {f \in fields : changedAt[f] > window[w].base}

\* The other save wrote what this one carries: the editor is on the row.
AlreadyCurrent(w) == SetWindow(w, Settled(w, edVersion))

\* Nothing overlaps: what is still to be saved goes out again on the new base.
\* What was agreed on is the row's.
RetrySave(w, still) ==
    /\ Conflicted(w, still) = {} /\ window[w].attempt + 1 <= AUTO_RETRY_LIMIT
    /\ SetWindow(w, [window[w] EXCEPT !.base = edVersion, !.sent = edVersion, !.attempt = @ + 1,
                        !.payload = still,
                        !.seen = [f \in EdFields |-> IF f \in window[w].payload \ still
                                                     THEN edVersion ELSE @[f]]])

\* The walk-through shows the fields that overlap, none after too many retries;
\* the base is that of the row for every other field too.
ManualMerge(w, still) ==
    LET shown == Conflicted(w, still) \cup (window[w].payload \ still) IN
    /\ Conflicted(w, still) # {} \/ window[w].attempt + 1 > AUTO_RETRY_LIMIT
    /\ SetWindow(w, [window[w] EXCEPT !.base = edVersion, !.sent = 0, !.attempt = 0, !.payload = {},
                        !.seen = [f \in EdFields |-> IF f \in shown THEN edVersion ELSE @[f]],
                        !.drifted = (@ \cup Unshown(w)) \ shown])

\* save_conflicted, of a save whose values in some fields the row already has.
SaveConflicts(w) ==
    /\ Saving(w) /\ window[w].sent # edVersion
    /\ \E agreed \in SUBSET (window[w].payload \cap Unshown(w)) :
          LET still == window[w].payload \ agreed IN
          IF still = {} THEN AlreadyCurrent(w) ELSE RetrySave(w, still) \/ ManualMerge(w, still)
    /\ UNCHANGED <<notices, rowOnly>>

\* request_close of a clean window, discard_and_close past the guard, cancel.
CloseWindow(w) ==
    /\ window[w].kind # "gone" /\ ~Saving(w)
    /\ SetWindow(w, Gone)
    /\ notices' = IF w \in RecordWindows THEN [notices EXCEPT ![w] = {}] ELSE notices
    /\ UNCHANGED rowOnly

surface_needs_refresh(w, notice) == window[w].base < notice

\* Versions behind the window's own are ignored; a dirty editor is left alone.
notice_action(w, notice) ==
    IF ~surface_needs_refresh(w, notice) THEN "ignore"
    ELSE IF window[w].dirty # {} THEN "hold" ELSE "refresh"

NoticeArrives(w) ==
    \E notice \in notices[w] :
        /\ notices' = [notices EXCEPT ![w] = @ \ {notice}]
        /\ SetWindow(w, [window[w] EXCEPT !.reload = @ \/ notice_action(w, notice) = "refresh"])
        /\ UNCHANGED rowOnly

\* The reload answers: rebased, whatever was typed since it was asked for.
Reloaded(w) ==
    /\ window[w].reload
    /\ SetWindow(w, IF window[w].dirty = {} THEN Showing(window[w].kind, edVersion)
                    ELSE [window[w] EXCEPT !.reload = FALSE, !.base = edVersion,
                                           !.drifted = @ \cup Unshown(w)])
    /\ UNCHANGED <<notices, rowOnly>>

\* Another user's save: these windows are not told.
OtherSave(f) ==
    /\ edVersion < MaxEdVersion
    /\ edVersion' = edVersion + 1
    /\ changedAt' = [changedAt EXCEPT ![f] = edVersion + 1]
    /\ UNCHANGED <<window, notices, ownSave, overwrote>>

EdNext ==
    \/ \E w \in RecordWindows : \/ OpenView(w) \/ begin_edit(w)
                                \/ NoticeArrives(w) \/ Reloaded(w)
                                \/ \E f \in EdFields : field_edited(w, f)
    \/ \E w \in FieldWindows, f \in EdFields, u \in RecordWindows : OpenField(w, f, u)
    \/ \E w \in Windows : request_save(w) \/ SaveLands(w) \/ SaveConflicts(w) \/ CloseWindow(w)
    \/ \E f \in EdFields : OtherSave(f)

EdSpec == EdInit /\ [][EdNext]_edVars

-----------------------------------------------------------------------------
\* "Never silently overwrites": no save replaces a value its user was not
\* shown, through any number of retries, agreements, merges and refreshes, except
\* in the fields that the window's base has moved past without showing them:
\* begin_edit once more, rebased after typing, and the walk-through, which lists
\* the fields that overlap and no other (EditFormSilent runs into the last).
\* And once its notices and reloads are done with, a window without unsaved edits
\* shows every field at least as new as what this session saved last: holding a
\* notice while dirty never leaves a clean editor behind.
EditsMeetTheirConflicts ==
    /\ ~overwrote
    /\ \A w \in RecordWindows :
          \/ window[w].kind = "gone" \/ window[w].dirty # {} \/ window[w].reload
          \/ notices[w] # {} \/ \A f \in EdFields : window[w].seen[f] >= ownSave
=============================================================================
