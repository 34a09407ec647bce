----------------------------- MODULE ChangeFeed -----------------------------
(***************************************************************************)
(* The change feed, src/mentorapp/automation/change_feed.py over           *)
(* storage/models.py's ChangeFeedEntry.  A writer's flush stamps changedAt *)
(* and its commit, later, makes the entry visible; the consumer reads      *)
(* batches after its watermark, pushes them and advances the watermark     *)
(* after each accepted batch.                                              *)
(***************************************************************************)
EXTENDS Naturals, FiniteSets

CONSTANTS
    FeedIDs,      \* changeFeedEntryIDs, ordered: 1 .. n
    BatchSize,    \* batch_size
    FeedMaxClock  \* bound on changedAt

ASSUME ChangeFeedAssumption ==
    FeedIDs \subseteq Nat \ {0} /\ {BatchSize, FeedMaxClock} \subseteq Nat \ {0}

VARIABLES
    clock,
    entry,      \* [FeedIDs -> entry]
    durable,    \* the watermark the caller has persisted
    sync,       \* the running sync_change_feed: its watermark and its batch
    pushed,     \* history: entries the transport has accepted
    late        \* history: entries committed behind a batch that was read

feedVars == <<clock, entry, durable, sync, pushed, late>>

\* changedAt, and where the transaction that wrote the entry stands.
ChangeFeedEntry == [at : 0 .. FeedMaxClock, tx : {"none", "open", "committed", "rolledBack"}]

\* (changedAt, changeFeedEntryID), None at the beginning of the feed.
FeedWatermark == (0 .. FeedMaxClock) \X (FeedIDs \cup {0})
Beginning == <<0, 0>>
watermark_of(id) == <<entry[id].at, id>>
After(a, b) == a[1] > b[1] \/ (a[1] = b[1] /\ a[2] > b[2])

Visible == {id \in FeedIDs : entry[id].tx = "committed"}

\* The first BatchSize visible entries after the watermark.
read_changes_since(since) ==
    LET news == {id \in Visible : After(watermark_of(id), since)}
    IN {id \in news : Cardinality({i \in news : After(watermark_of(id), watermark_of(i))})
                        < BatchSize}

LastMark(batch) ==
    watermark_of(CHOOSE id \in batch : \A i \in batch : ~After(watermark_of(i), watermark_of(id)))

-----------------------------------------------------------------------------
\* The record write's flush.
StampEntry(id) ==
    /\ entry[id].tx = "none"
    /\ entry' = [entry EXCEPT ![id] = [at |-> clock, tx |-> "open"]]
    /\ UNCHANGED <<clock, durable, sync, pushed, late>>

EndWrite(id) ==
    /\ entry[id].tx = "open"
    /\ \/ /\ entry' = [entry EXCEPT ![id].tx = "committed"]
          /\ late' = IF \/ ~After(watermark_of(id), durable)
                        \/ sync.pc = "read" /\ ~After(watermark_of(id), sync.mark)
                        \/ sync.pc = "push" /\ ~After(watermark_of(id), LastMark(sync.batch))
                     THEN late \cup {id} ELSE late
       \/ /\ entry' = [entry EXCEPT ![id].tx = "rolledBack"]
          /\ UNCHANGED late
    /\ UNCHANGED <<clock, durable, sync, pushed>>

FeedTick == clock < FeedMaxClock /\ clock' = clock + 1
            /\ UNCHANGED <<entry, durable, sync, pushed, late>>

\* sync_change_feed(since): the caller resumes from what it persisted.
StartSync ==
    /\ sync.pc = "idle"
    /\ sync' = [pc |-> "read", mark |-> durable, batch |-> {}]
    /\ UNCHANGED <<clock, entry, durable, pushed, late>>

\* One turn of the loop reads; with nothing to read it returns its watermark,
\* which the caller persists.
ReadBatch ==
    LET batch == read_changes_since(sync.mark) IN
    /\ sync.pc = "read"
    /\ IF batch = {}
       THEN /\ durable' = sync.mark /\ sync' = [sync EXCEPT !.pc = "idle"]
       ELSE /\ sync' = [sync EXCEPT !.pc = "push", !.batch = batch]
            /\ UNCHANGED durable
    /\ UNCHANGED <<clock, entry, pushed, late>>

\* Mutant: the error carries the watermark of the batch that was rejected.
PushRejectedMutant ==
    /\ sync.pc = "push"
    /\ durable' = LastMark(sync.batch)
    /\ sync' = [pc |-> "idle", mark |-> Beginning, batch |-> {}]
    /\ UNCHANGED <<clock, entry, pushed, late>>

PushAccepted ==
    /\ sync.pc = "push"
    /\ pushed' = pushed \cup sync.batch
    /\ sync' = [pc |-> "read", mark |-> LastMark(sync.batch), batch |-> {}]
    /\ UNCHANGED <<clock, entry, durable, late>>

\* FeedSyncError carries the last durable watermark, and the caller persists it.
PushRejected ==
    /\ sync.pc = "push"
    /\ durable' = sync.mark
    /\ sync' = [pc |-> "idle", mark |-> Beginning, batch |-> {}]
    /\ UNCHANGED <<clock, entry, pushed, late>>

\* The process ends in the middle of a sync: the persisted watermark stays.
SyncCrash ==
    /\ sync.pc # "idle"
    /\ sync' = [pc |-> "idle", mark |-> Beginning, batch |-> {}]
    /\ UNCHANGED <<clock, entry, durable, pushed, late>>

FeedInit ==
    /\ clock = 1
    /\ entry = [id \in FeedIDs |-> [at |-> 0, tx |-> "none"]]
    /\ durable = Beginning
    /\ sync = [pc |-> "idle", mark |-> Beginning, batch |-> {}]
    /\ pushed = {} /\ late = {}

FeedNext ==
    \/ \E id \in FeedIDs : StampEntry(id) \/ EndWrite(id)
    \/ FeedTick
    \/ StartSync \/ ReadBatch \/ PushAccepted \/ PushRejected \/ SyncCrash

FeedSpec == FeedInit /\ [][FeedNext]_feedVars

-----------------------------------------------------------------------------
FeedTypeOK ==
    /\ entry \in [FeedIDs -> ChangeFeedEntry]
    /\ durable \in FeedWatermark /\ sync.mark \in FeedWatermark
    /\ sync.batch \cup pushed \cup late \subseteq FeedIDs

\* At-least-once: whatever is rejected or cut off, an entry behind the durable
\* watermark has been accepted, unless its transaction committed it only after
\* a later entry had been read.
WatermarkLosesNothing ==
    \A id \in Visible \ late : ~After(watermark_of(id), durable) => id \in pushed

=============================================================================
