---------------------------- MODULE RecordWrites ----------------------------
(***************************************************************************)
(* The write engine, src/mentorapp/api/write_engine.py, behind PATCH and   *)
(* restore of src/mentorapp/api/routers/records.py, on one record.         *)
(*                                                                         *)
(* A request is a slot of call.  It reads the row in one step and writes   *)
(* it in a later one: between the two, other requests commit, and only the *)
(* rowVersion of the flush (version_id_col) sees it.  After its commit the *)
(* session reloads the row to answer with it, in a third step.             *)
(***************************************************************************)
EXTENDS Integers, Sequences, Functions

CONSTANTS
    Fields, Values,
    Blank,        \* what every field held when the record was created
    Calls,        \* request slots
    MaxVersion,   \* bound on rowVersion
    MaxRefused    \* bound on payloads that fail the server's validation

ASSUME WritesAssumption ==
    /\ Blank \in Values
    /\ MaxVersion \in Nat /\ MaxRefused \in Nat

VARIABLES
    record,    \* the committed row
    history,   \* [Fields -> Seq(Change)], the fieldChange rows
    call,      \* [Calls -> Call]
    refused    \* how many payloads have been refused

writeVars == <<record, history, call, refused>>

Record == [version : Nat, values : [Fields -> Values], deleted : BOOLEAN]
Change == [old : Values, new : Values, version : Nat]
Payload == UNION {[some -> Values] : some \in SUBSET Fields}

Answers == {"landed", "stale", "notFound", "refused"}

\* copy: the row as the session has it, or the record in the answer's body.
Call == [stage : {"free", "sent", "loaded", "committed"} \cup Answers,
         restore : BOOLEAN, changes : Payload, version : Nat, copy : Record]

Created == [version |-> 1, values |-> [f \in Fields |-> Blank], deleted |-> FALSE]
Free == [stage |-> "free", restore |-> FALSE, changes |-> <<>>, version |-> 0,
         copy |-> Created]

WritesTypeOK ==
    /\ record \in Record
    /\ history \in [Fields -> Seq(Change)]
    /\ call \in [Calls -> Call]
    /\ refused \in Nat

WritesInit ==
    /\ record = Created
    /\ history = [f \in Fields |-> <<>>]
    /\ call = [k \in Calls |-> Free]
    /\ refused = 0

-----------------------------------------------------------------------------
Answered(k) == call[k].stage \in Answers

Request(restore, changes, version) ==
    [Free EXCEPT !.stage = "sent", !.restore = restore, !.changes = changes,
                 !.version = version]

\* Call k goes on to this stage with the row as it is now; a 404 or a 422
\* carries no record.
Answer(k, stage) ==
    call' = [call EXCEPT ![k].stage = stage,
                         ![k].copy = IF stage \in {"notFound", "refused"} THEN Created ELSE record]

\* Mutant: deletedAt is not looked at.
MissingMutant(k) == FALSE

\* A restore of a live row and a PATCH of a removed one never get to write.
Missing(k) == ~call[k].restore /\ record.deleted
AlreadyLive(k) == call[k].restore /\ ~record.deleted

\* The fields partial_update finds different from the row it has read.
Changed(changes, row) == {f \in DOMAIN changes : changes[f] # row.values[f]}

\* partial_update, restore_record: everything before the flush.
Receive(k) ==
    /\ call[k].stage = "sent"
    /\ LET c == call[k]
           current == c.version = record.version
           noop == ~c.restore /\ Changed(c.changes, record) = {}
       IN  \/ Missing(k) /\ Answer(k, "notFound") /\ UNCHANGED refused
           \/ AlreadyLive(k) /\ Answer(k, "committed") /\ UNCHANGED refused
           \/ /\ ~Missing(k) /\ ~AlreadyLive(k)
              /\ \/ ~current /\ Answer(k, "stale") /\ UNCHANGED refused
                 \/ /\ current /\ ~c.restore /\ refused < MaxRefused
                    /\ refused' = refused + 1
                    /\ Answer(k, "refused")
                 \/ current /\ noop /\ Answer(k, "committed") /\ UNCHANGED refused
                 \/ current /\ ~noop /\ Answer(k, "loaded") /\ UNCHANGED refused
    /\ UNCHANGED <<record, history>>

\* Mutant: no version_id_col.
CurrentMutant(k) == TRUE

\* UPDATE ... WHERE rowVersion = the version this session read.
Current(k) == record.version = call[k].copy.version

\* The flush writes the changed columns, and with them one fieldChange row per
\* changed field, old value as this session has read it.
Flush(k) ==
    /\ call[k].stage = "loaded" /\ Current(k)
    /\ record.version < MaxVersion
    /\ LET c == call[k]
           new == record.version + 1
           changed == IF c.restore THEN {} ELSE Changed(c.changes, c.copy)
       IN  /\ record' = [record EXCEPT !.version = new,
                            !.values = [f \in Fields |-> IF f \in changed THEN c.changes[f] ELSE @[f]],
                            !.deleted = IF c.restore THEN FALSE ELSE @]
           /\ history' = [f \in Fields |-> IF f \notin changed THEN history[f]
                             ELSE Append(history[f], [old |-> c.copy.values[f],
                                                      new |-> c.changes[f], version |-> new])]
    /\ call' = [call EXCEPT ![k].stage = "committed", ![k].copy = Created]
    /\ UNCHANGED refused

\* StaleDataError: roll back, read the row again, answer with it.
FlushStale(k) ==
    /\ call[k].stage = "loaded" /\ ~Current(k)
    /\ Answer(k, IF Missing(k) THEN "notFound" ELSE "stale")
    /\ UNCHANGED <<record, history, refused>>

\* serialize_record after the commit, which has expired the loaded row.
Serialize(k) ==
    /\ call[k].stage = "committed"
    /\ Answer(k, "landed")
    /\ UNCHANGED <<record, history, refused>>

\* Nothing in src/ removes a domain record: an administrator's soft delete.
SoftDelete ==
    /\ ~record.deleted /\ record.version < MaxVersion
    /\ record' = [record EXCEPT !.version = @ + 1, !.deleted = TRUE]
    /\ UNCHANGED <<history, call, refused>>

Serve == \/ \E k \in Calls : Receive(k) \/ Flush(k) \/ FlushStale(k) \/ Serialize(k)
         \/ SoftDelete

-----------------------------------------------------------------------------
\* The History panel tells the truth: the fieldChange rows of a field lead
\* from its first value to its present one without a gap, whatever saves
\* raced each other (partial_update writes a row from a value it read earlier).
HistoryChains ==
    \A f \in Fields :
        LET rows == history[f] IN
        /\ record.values[f] = IF rows = <<>> THEN Blank ELSE rows[Len(rows)].new
        /\ \A i \in 1 .. Len(rows) :
              /\ rows[i].old = IF i = 1 THEN Blank ELSE rows[i - 1].new
              /\ rows[i].old # rows[i].new
              /\ i > 1 => rows[i - 1].version < rows[i].version

\* "editing a removed record is a restore first, never a silent resurrection"
\* (patch_record): no save that was on its way when the record was removed
\* changes a value, and only a restore brings the record back.
RemovedStaysRemoved ==
    [][record.deleted =>
          /\ record'.values = record.values
          /\ ~record'.deleted => \E k \in Calls : call[k].restore /\ call[k].version = record.version
      ]_writeVars
=============================================================================
