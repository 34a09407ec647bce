------------------------------ MODULE EditForm ------------------------------
(***************************************************************************)
(* The full-screen edit form, frontend/src/forms/edit-form.tsx, with the   *)
(* conflict resolver it mirrors (src/mentorapp/api/edit_safety.py), as     *)
(* several people use it on one record, over the write engine.             *)
(*                                                                         *)
(* patch is an async closure: base is the loadedRecord of the render in    *)
(* which Save was clicked, loaded is the loadedRecord of the state now.    *)
(***************************************************************************)
EXTENDS RecordWrites

CONSTANTS
    Forms, NoCall,
    AutoRetryLimit,   \* AUTO_RETRY_LIMIT
    MaxMoves    \* bound on edits, restores, broken connections and refusals in all

ASSUME FormAssumption ==
    /\ NoCall \notin Calls
    /\ AutoRetryLimit \in Nat
    /\ MaxMoves \in Nat

VARIABLES
    form,          \* [Forms -> Form]
    basis,         \* history: [Calls -> Basis], what its sender went by when Save was clicked
    moves          \* how many edits, restores and broken connections there have been

vars == <<record, history, call, refused, form, basis, moves>>

MayMove == moves + refused < MaxMoves

\* merge: the rowVersion of the open walk-through, 0 when there is none.
\* clicked: the changes Save was clicked with.
\* seen: history, the last committed value of each field that the form showed.
Form == [open : BOOLEAN, original : [Fields -> Values], values : [Fields -> Values],
         rowVersion : Nat, loaded : [Fields -> Values], merge : Nat,
         call : Calls \cup {NoCall}, base : [Fields -> Values], attempt : Nat,
         clicked : Payload, seen : [Fields -> Values]]

\* seen: what the form showed; drifted: it compares with something else;
\* since: the version it was on.
Basis == [seen : [Fields -> Values], drifted : BOOLEAN, since : Nat]

TypeOK ==
    /\ WritesTypeOK
    /\ form \in [Forms -> Form]
    /\ basis \in [Calls -> Basis]
    /\ \A u \in Forms : form[u].call # NoCall => call[form[u].call].stage # "free"
    /\ \A u, v \in Forms : u # v /\ form[u].call # NoCall => form[u].call # form[v].call
    /\ moves \in Nat

\* A form on row r: what mounting it, and rebase, put into its state.
On(r) == [open |-> TRUE, original |-> r.values, values |-> r.values,
          rowVersion |-> r.version, loaded |-> r.values, merge |-> 0,
          call |-> NoCall, base |-> Created.values, attempt |-> 0,
          clicked |-> <<>>, seen |-> r.values]
Closed == [On(Created) EXCEPT !.open = FALSE]
NoBasis == [seen |-> Created.values, drifted |-> FALSE, since |-> 0]

Init ==
    /\ WritesInit
    /\ form = [u \in Forms |-> Closed]
    /\ basis = [k \in Calls |-> NoBasis]
    /\ moves = 0

-----------------------------------------------------------------------------
\* dirtyChanges: a value comparison, never a touched flag.
Dirty(f) == Restrict(f.values, {n \in Fields : f.values[n] # f.original[n]})

\* resolve_concurrent_save_conflict / resolveStaleSave.  Agreement is pruned
\* first; a field they changed too is a conflict.
StillDirty(changes, current) == {n \in DOMAIN changes : changes[n] # current.values[n]}

\* Mutant: an overlap is never seen.
ConflictedMutant(changes, base, current) == {}
Conflicted(changes, base, current) ==
    {n \in StillDirty(changes, current) : base[n] # current.values[n]}

\* The walk-through is due on an overlap or after too many retries.
NeedsMerge(changes, base, current, attempt) ==
    Conflicted(changes, base, current) # {} \/ attempt > AutoRetryLimit

\* Of a form that has been left only its save on the way lives on.
Set(u, f) == form' = [form EXCEPT ![u] = IF f.open \/ f.call # NoCall THEN f ELSE Closed]
Rebase(u, r) == [On(r) EXCEPT !.open = form[u].open]
Idle(f) == [f EXCEPT !.call = NoCall, !.attempt = 0, !.clicked = <<>>, !.base = Created.values]

\* PATCH changes against version in slot k.
Send(k, changes, version) == call' = [call EXCEPT ![k] = Request(FALSE, changes, version)]

Release(k) == /\ call' = [call EXCEPT ![k] = Free]
              /\ basis' = [basis EXCEPT ![k] = NoBasis]

\* GET .../edit-form, 404 on a removed record.
Open(u) ==
    /\ form[u] = Closed /\ ~record.deleted
    /\ Set(u, On(record))
    /\ UNCHANGED <<writeVars, basis, moves>>

\* Typing, and the walk-through's "Keep mine" and "Take theirs": nothing
\* disables the controls while a save is on its way.
Type(u, n, v) ==
    /\ form[u].open /\ form[u].values[n] # v
    /\ MayMove /\ moves' = moves + 1
    /\ Set(u, [form[u] EXCEPT !.values[n] = v])
    /\ UNCHANGED <<writeVars, basis>>

Cancel(u) ==
    /\ form[u].open
    /\ form[u].values # form[u].original \/ form[u].merge # 0
    /\ Set(u, [form[u] EXCEPT !.values = form[u].original, !.merge = 0])
    /\ UNCHANGED <<writeVars, basis, moves>>

\* Leave a clean form, or discard: the closure of a save on its way goes on,
\* its retries included, and sets the state of no form.
Leave(u) ==
    /\ form[u].open
    /\ Set(u, [form[u] EXCEPT !.open = FALSE])
    /\ UNCHANGED <<writeVars, basis, moves>>

requestSave(u) ==
    /\ form[u].open /\ form[u].call = NoCall
    /\ LET f == form[u]
           dirty == Dirty(f)
       IN  /\ DOMAIN dirty # {}
           /\ \E k \in Calls :
                 /\ call[k].stage = "free"
                 /\ Send(k, dirty, f.rowVersion)
                 /\ basis' = [basis EXCEPT ![k] = [seen |-> f.seen, drifted |-> f.loaded # f.seen,
                                                    since |-> f.rowVersion]]
                 /\ Set(u, [f EXCEPT !.call = k, !.base = f.loaded, !.attempt = 1,
                                     !.clicked = dirty])
    /\ UNCHANGED <<record, history, refused, moves>>

Waiting(u, answers) == /\ form[u].call # NoCall
                       /\ call[form[u].call].stage \in answers

\* Mutant: saving is not reset.
LandedMutant(u) ==
    /\ Waiting(u, {"landed"})
    /\ Set(u, [Rebase(u, call[form[u].call].copy) EXCEPT !.call = form[u].call])
    /\ Release(form[u].call)
    /\ UNCHANGED <<record, history, refused, moves>>

\* The PATCH landed: rebase on the answer's record.
Landed(u) ==
    /\ Waiting(u, {"landed"})
    /\ Set(u, Rebase(u, call[form[u].call].copy))
    /\ Release(form[u].call)
    /\ UNCHANGED <<record, history, refused, moves>>

\* 404 or 422: the messages are shown and nothing else changes.
TurnedDown(u) ==
    /\ Waiting(u, {"notFound", "refused"})
    /\ Set(u, Idle(form[u]))
    /\ Release(form[u].call)
    /\ UNCHANGED <<record, history, refused, moves>>

AlreadyCurrent(u) ==
    /\ Waiting(u, {"stale"})
    /\ LET c == call[form[u].call]
       IN  /\ StillDirty(c.changes, c.copy) = {}
           /\ Set(u, [Rebase(u, c.copy) EXCEPT !.merge = form[u].merge])
    /\ Release(form[u].call)
    /\ UNCHANGED <<record, history, refused, moves>>

\* Mutant: an overlap is settled in favour of the other save.
RetrySaveMutant(u) ==
    /\ Waiting(u, {"stale"})
    /\ LET f == form[u]
           c == call[f.call]
           still == StillDirty(c.changes, c.copy) \ Conflicted(c.changes, f.base, c.copy)
       IN  /\ StillDirty(c.changes, c.copy) # {} /\ f.attempt <= AutoRetryLimit
           /\ Send(f.call, Restrict(c.changes, still), c.copy.version)
           /\ Set(u, [f EXCEPT !.loaded = c.copy.values, !.attempt = @ + 1])
    /\ UNCHANGED <<record, history, refused, basis, moves>>

\* "Invisible auto-retry: the other save touched different fields."
RetrySave(u) ==
    /\ Waiting(u, {"stale"})
    /\ LET f == form[u]
           c == call[f.call]
           still == StillDirty(c.changes, c.copy)
       IN  /\ still # {} /\ ~NeedsMerge(c.changes, f.base, c.copy, f.attempt)
           /\ Send(f.call, Restrict(c.changes, still), c.copy.version)
           /\ Set(u, [f EXCEPT !.loaded = c.copy.values, !.attempt = @ + 1])
    /\ UNCHANGED <<record, history, refused, basis, moves>>

\* The walk-through opens: it shows the conflicting fields, and only those.
ManualMerge(u) ==
    /\ Waiting(u, {"stale"})
    /\ LET f == form[u]
           c == call[f.call]
           conflicts == Conflicted(c.changes, f.base, c.copy)
       IN  /\ StillDirty(c.changes, c.copy) # {}
           /\ NeedsMerge(c.changes, f.base, c.copy, f.attempt)
           /\ Set(u, [Idle(f) EXCEPT !.loaded = c.copy.values, !.merge = c.copy.version,
                         !.seen = [n \in Fields |-> IF n \in conflicts THEN c.copy.values[n]
                                                    ELSE f.seen[n]]])
    /\ Release(form[u].call)
    /\ UNCHANGED <<record, history, refused, moves>>

\* "Done - review and save again".
MergeDone(u) ==
    /\ form[u].open /\ form[u].merge # 0
    /\ Set(u, [form[u] EXCEPT !.rowVersion = form[u].merge, !.merge = 0])
    /\ UNCHANGED <<writeVars, basis, moves>>

\* The connection breaks: the form reports it, the request may yet be served.
Unreachable(u) ==
    /\ form[u].call # NoCall
    /\ MayMove /\ moves' = moves + 1
    /\ Set(u, Idle(form[u]))
    /\ UNCHANGED <<writeVars, basis>>

\* An answer nobody waits for any more.
Unheard(k) ==
    /\ Answered(k) /\ \A u \in Forms : form[u].call # k
    /\ Release(k)
    /\ UNCHANGED <<record, history, refused, form, moves>>

\* The restore offer of the create form for a removed record: POST .../restore
\* with the candidate's rowVersion, which may have been read before the removal.
OfferRestore(version) ==
    /\ record.deleted /\ version <= record.version
    /\ MayMove /\ moves' = moves + 1
    /\ \E k \in Calls : /\ call[k].stage = "free"
                        /\ call' = [call EXCEPT ![k] = Request(TRUE, <<>>, version)]
    /\ UNCHANGED <<record, history, refused, form, basis>>

Next ==
    \/ Serve /\ (refused' > refused => MayMove) /\ UNCHANGED <<form, basis, moves>>
    \/ \E u \in Forms :
          \/ Open(u) \/ Cancel(u) \/ Leave(u) \/ requestSave(u)
          \/ Landed(u) \/ TurnedDown(u) \/ AlreadyCurrent(u) \/ RetrySave(u)
          \/ ManualMerge(u) \/ MergeDone(u) \/ Unreachable(u)
          \/ \E n \in Fields, v \in Values : Type(u, n, v)
    \/ \E k \in Calls : Unheard(k)
    \/ \E version \in 1 .. MaxVersion : OfferRestore(version)

Spec == Init /\ [][Next]_vars

-----------------------------------------------------------------------------
\* k's PATCH lands in this step and replaces the value of field n.
Overwrites(k, n) == /\ call[k].stage = "loaded" /\ call'[k].stage = "committed"
                    /\ record'.values[n] # record.values[n]

\* "never a silent overwrite" (edit_safety, field-edit-window.tsx): a save
\* replaces a value only if its sender has been shown that value, as long as
\* the copy the form resolves conflicts against is what its screen shows.
OverwritesOnlySeen ==
    [][\A k \in Calls, n \in Fields :
          Overwrites(k, n) => basis[k].drifted \/ record.values[n] = basis[k].seen[n]]_vars

\* The same without the proviso: what the docstrings say.
NeverOverwritesUnseen ==
    [][\A k \in Calls, n \in Fields :
          Overwrites(k, n) => record.values[n] = basis[k].seen[n]]_vars

\* Field n had the value v at some time from the version since on.
HeldSince(n, v, since, r, h) ==
    r.values[n] = v \/ \E row \in Range(h[n]) : row.version > since /\ row.old = v

\* A form that reports a save (Landed, AlreadyCurrent) has lost none of it on
\* the way through the resolver and its retries: the record has had each value
\* that Save was clicked with, and had it after the version the click was made
\* on - an older value that happens to be the same does not count.
SavedWhatWasClicked ==
    [][\A u \in Forms :
          Landed(u) \/ AlreadyCurrent(u) =>
             \A n \in DOMAIN form[u].clicked :
                HeldSince(n, form[u].clicked[n], basis[form[u].call].since, record, history)]_vars
=============================================================================
