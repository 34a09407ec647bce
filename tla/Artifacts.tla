----------------------------- MODULE Artifacts ------------------------------
(***************************************************************************)
(* The artifacts of export and print jobs and their retention trim,        *)
(* src/mentorapp/automation/artifact_jobs.py.  The queue itself is         *)
(* JobQueue; here a handler is a request, and an attempt that fails is run *)
(* again.                                                                  *)
(***************************************************************************)
EXTENDS Naturals, FiniteSets, Requests

CONSTANTS
    Exports, Prints,   \* export and print jobs
    ArtMaxClock        \* bound on the time

ASSUME ArtifactsAssumption == Exports \cap Prints = {} /\ ArtMaxClock \in Nat

VARIABLES
    artNow,
    artJob,      \* the rows of the export and print jobs
    stored,      \* jobs whose artifact's bytes the store has
    gone,        \* "deleted" change-feed entries of a job
    unwound,     \* history: jobs whose bytes a trim discarded before it was rolled back
    artReq       \* [Slots -> request]

artVars == <<artNow, artJob, stored, gone, unwound, artReq>>

ArtJobs == Exports \cup Prints
Retention(j) == IF j \in Exports THEN 2 ELSE 1   \* EXPORT_RETENTION, PRINT_RETENTION

\* expires: jobExpiresAt, 0 for null.
ArtifactJob == [state : {"pending", "completed", "needsAttention"}, url : BOOLEAN,
                expires : Nat, live : BOOLEAN, version : Nat]

SetAt(k, v, f) == [f EXCEPT ![k] = v]

-----------------------------------------------------------------------------
\* The payload names an entity with a read view and columns of it, or parks
\* the job for good.
_read_view_rows(j) == {"rows", "refused"}

\* export_job_handler and print_job_handler: the bytes are stored under the
\* job's name, before the job is completed.
artifact_handler(q, j) ==
    /\ artReq[q] = Idle /\ artJob[j].state = "pending"
    /\ \A p \in Slots : artReq[p].pc = "complete" => artReq[p].j # j
    /\ \E read \in _read_view_rows(j) :
          IF read = "rows"
          THEN /\ stored' = stored \cup {j}
               /\ artReq' = SetAt(q, [pc |-> "complete", j |-> j], artReq)
               /\ UNCHANGED artJob
          ELSE /\ artJob' = [artJob EXCEPT ![j].state = "needsAttention"]
               /\ UNCHANGED <<stored, artReq>>
    /\ UNCHANGED <<artNow, gone, unwound>>

\* The worker's commit: the outcome's link and retention on the job.
CompleteArtifact(q) ==
    LET j == artReq[q].j IN
    /\ artReq[q].pc = "complete"
    /\ artJob' = [artJob EXCEPT ![j] = [artJob[j] EXCEPT !.state = "completed", !.url = TRUE,
                                          !.expires = artNow + Retention(j), !.version = @ + 1]]
    /\ artReq' = SetAt(q, Idle, artReq)
    /\ UNCHANGED <<artNow, stored, gone, unwound>>

\* trim_expired_artifacts reads the live rows past their retention ...
trim_expired_artifacts(q) ==
    /\ artReq[q] = Idle
    /\ LET expired == {j \in ArtJobs : /\ artJob[j].live /\ artJob[j].expires # 0
                                       /\ artJob[j].expires <= artNow}
       IN /\ expired # {}
          /\ artReq' = SetAt(q, [pc |-> "trim", todo |-> expired, flushed |-> {},
                                read |-> [j \in expired |-> artJob[j].version]], artReq)
    /\ UNCHANGED <<artNow, artJob, stored, gone, unwound>>

\* Mutant: a row that another trim has taken is trimmed again.
TrimOneMutant(q, j) ==
    LET w == artReq[q] IN
    /\ w.pc = "trim" /\ j \in w.todo
    /\ stored' = stored \ {j}
    /\ artReq' = SetAt(q, [w EXCEPT !.todo = @ \ {j}, !.flushed = @ \cup {j}], artReq)
    /\ UNCHANGED <<artNow, artJob, gone, unwound>>

\* ... and takes them one by one: the bytes go first, then the row is flushed,
\* which waits for a trim that has flushed it and fails if that one committed.
TrimOne(q, j) ==
    LET w == artReq[q] IN
    /\ w.pc = "trim" /\ j \in w.todo
    /\ \A p \in Slots \ {q} : artReq[p].pc = "trim" => j \notin artReq[p].flushed
    /\ stored' = stored \ {j}
    /\ IF artJob[j].version = w.read[j]
       THEN /\ artReq' = SetAt(q, [w EXCEPT !.todo = @ \ {j}, !.flushed = @ \cup {j}], artReq)
            /\ UNCHANGED unwound
       ELSE /\ artReq' = SetAt(q, Idle, artReq)
            /\ unwound' = unwound \cup w.flushed
    /\ UNCHANGED <<artNow, artJob, gone>>

\* The commit: rows and feed entries together.
CommitTrim(q) ==
    LET w == artReq[q] IN
    /\ w.pc = "trim" /\ w.todo = {}
    /\ artJob' = [j \in ArtJobs |->
          IF j \in w.flushed
          THEN [artJob[j] EXCEPT !.url = FALSE, !.live = FALSE, !.version = @ + 1]
          ELSE artJob[j]]
    /\ gone' = [j \in ArtJobs |-> IF j \in w.flushed THEN gone[j] + 1 ELSE gone[j]]
    /\ artReq' = SetAt(q, Idle, artReq)
    /\ UNCHANGED <<artNow, stored, unwound>>

\* The workers end: transactions are rolled back, bytes are not.
ArtCrash ==
    /\ \E q \in Slots : artReq[q] # Idle
    /\ unwound' = unwound \cup UNION {artReq[q].flushed : q \in {p \in Slots : artReq[p].pc = "trim"}}
    /\ artReq' = [q \in Slots |-> Idle]
    /\ UNCHANGED <<artNow, artJob, stored, gone>>

ArtTick ==
    /\ artNow < ArtMaxClock /\ artNow' = artNow + 1
    /\ UNCHANGED <<artJob, stored, gone, unwound, artReq>>

-----------------------------------------------------------------------------
ArtInit ==
    /\ artNow = 0
    /\ artJob = [j \in ArtJobs |-> [state |-> "pending", url |-> FALSE, expires |-> 0,
                                    live |-> TRUE, version |-> 1]]
    /\ stored = {} /\ gone = [j \in ArtJobs |-> 0] /\ unwound = {}
    /\ artReq = [q \in Slots |-> Idle]

ArtNext ==
    \/ \E q \in Slots :
          \/ \E j \in ArtJobs : artifact_handler(q, j) \/ TrimOne(q, j)
          \/ CompleteArtifact(q) \/ trim_expired_artifacts(q) \/ CommitTrim(q)
    \/ ArtCrash
    \/ ArtTick

ArtSpec == ArtInit /\ [][ArtNext]_artVars

-----------------------------------------------------------------------------
ArtTypeOK ==
    /\ artJob \in [ArtJobs -> ArtifactJob]
    /\ stored \cup unwound \subseteq ArtJobs /\ gone \in [ArtJobs -> Nat]
    /\ DOMAIN artReq = Slots

\* The row, its link, the bytes behind it and the feed entry that takes it back
\* agree, whichever trims overlap and wherever a worker ends: a link that is
\* shown opens unless a trim of it was rolled back or is under way, and a
\* trimmed job is announced once and keeps no bytes.
ArtifactsAreReclaimed ==
    \A j \in ArtJobs :
        /\ artJob[j].url => \/ j \in stored \/ j \in unwound
                            \/ \E q \in Slots : artReq[q].pc = "trim" /\ j \in artReq[q].flushed
        /\ gone[j] = IF artJob[j].live THEN 0 ELSE 1
        /\ ~artJob[j].live => ~artJob[j].url /\ j \notin stored
=============================================================================
