------------------------------ MODULE JobQueue ------------------------------
(***************************************************************************)
(* The background job worker, src/mentorapp/automation/worker.py, run by   *)
(* several worker processes over one table.                                *)
(*                                                                         *)
(* Every function of worker.py only flushes: the process that hosts the    *)
(* worker decides when to commit.  Until then the row lock taken by the    *)
(* claim (FOR UPDATE SKIP LOCKED) or by an UPDATE is held, and a crash or  *)
(* an escaping exception rolls everything back.  A job's row, its bell     *)
(* entry and its change-feed entries are written only under the row's      *)
(* lock, so one record holds the three, in two copies:                     *)
(*    saved[j]  what is committed,                                         *)
(*    draft[j]  what the transaction owner[j] that holds the lock has      *)
(*              written (equal to saved[j] while nobody holds it).         *)
(*                                                                         *)
(* Times are relative to now: Tick moves every deadline one unit closer.   *)
(***************************************************************************)
EXTENDS Integers, FiniteSets

CONSTANTS
    Jobs,          \* job IDs: integers, since UUIDv7 keys sort by insertion
    Workers,       \* worker processes, one database session each
    NoWorker, NoJob,
    Requested,     \* the jobs whose createdBy is a user
    MaxAttempts,   \* max_attempts
    Lease,         \* DEFAULT_LEASE, in ticks
    BackoffBase, BackoffCap,
    Horizon,       \* how many ticks overdue two due jobs are still told apart
    MaxCrashes, MaxDbErrors, MaxOverruns, MaxLateStarts,   \* bounds on each fault
    MaxFaults      \* and on all of them together

ASSUME ConstantsAssumption ==
    /\ Jobs \subseteq Nat
    /\ NoWorker \notin Workers /\ IsFiniteSet(Workers)
    /\ NoJob \notin Jobs
    /\ Requested \subseteq Jobs
    /\ MaxAttempts \in Nat \ {0}
    /\ Lease \in Nat /\ BackoffBase \in Nat /\ BackoffCap \in Nat /\ Horizon \in Nat
    /\ MaxCrashes \in Nat /\ MaxDbErrors \in Nat /\ MaxOverruns \in Nat
    /\ MaxLateStarts \in Nat /\ MaxFaults \in Nat

\* retry_backoff clamps its exponent to 0..20; the provers do not know that
\* these powers are numbers, TLC evaluates it.
ASSUME PowersAreNumbers == \A e \in 0 .. 20 : 2 ^ e \in Nat

VARIABLES
    saved,     \* [Jobs -> Record], committed
    draft,     \* [Jobs -> Record], as the lock holder sees it
    owner,     \* [Jobs -> Workers \cup {NoWorker}], who holds the row lock
    worker,    \* [Workers -> [pc, job, loaded]]
    starts,    \* history: how often each job's handler was started
    crashes, dbErrors, overruns, lateStarts   \* faults so far

vars == <<saved, draft, owner, worker, starts, crashes, dbErrors,
          overruns, lateStarts>>
faults == <<crashes, dbErrors, overruns, lateStarts>>

JOB_STATUSES == {"absent", "pending", "processing", "completed", "needsAttention"}
Terminal == {"completed", "needsAttention"}
BellTypes == {"none", "jobCompleted", "jobFailed"}

\* lockedUntil = -1 stands for an expired lease, and for None when no lease
\* is held: only the claim of a processing row reads it.
Record == [status : JOB_STATUSES, attempts : Nat, runAfter : Int,
           lockedUntil : Int, version : Nat, bell : BellTypes, feed : Nat]

NewRecord == [status |-> "absent", attempts |-> 0, runAfter |-> 0,
              lockedUntil |-> -1, version |-> 0, bell |-> "none", feed |-> 0]

Idle == [pc |-> "idle", job |-> NoJob, loaded |-> 0]

TypeOK ==
    /\ saved \in [Jobs -> Record]
    /\ draft \in [Jobs -> Record]
    /\ owner \in [Jobs -> Workers \cup {NoWorker}]
    /\ worker \in [Workers -> [pc : {"idle", "claimed", "running"},
                               job : Jobs \cup {NoJob}, loaded : Nat]]
    /\ \A w \in Workers : worker[w].pc # "idle" => worker[w].job \in Jobs
    /\ starts \in [Jobs -> Nat]
    /\ {crashes, dbErrors, overruns, lateStarts} \subseteq Nat

Init ==
    /\ saved = [j \in Jobs |-> NewRecord]
    /\ draft = saved
    /\ owner = [j \in Jobs |-> NoWorker]
    /\ worker = [w \in Workers |-> Idle]
    /\ starts = [j \in Jobs |-> 0]
    /\ crashes = 0 /\ dbErrors = 0 /\ overruns = 0 /\ lateStarts = 0

-----------------------------------------------------------------------------
\* One more fault of a kind that has occurred n times.
MayFail(n, max) == n < max /\ crashes + dbErrors + overruns + lateStarts < MaxFaults

retry_backoff(attempt_count) ==
    LET exponent == IF attempt_count < 1 THEN 0
                    ELSE IF attempt_count > 21 THEN 20 ELSE attempt_count - 1
        raw == BackoffBase * 2 ^ exponent
    IN  IF raw < BackoffCap THEN raw ELSE BackoffCap

\* A worker holds a job from its claim until it settles it or gives up.
Holds(w, j) == worker[w].pc # "idle" /\ worker[w].job = j

\* Mutants: no row lock; no rowVersion check.
UnlockedMutant(w, j) == TRUE
FreshMutant(w, j) == TRUE

\* What w's session reads: its own uncommitted row, else the committed one.
View(w, j) == IF owner[j] = w THEN draft[j] ELSE saved[j]

\* Nobody else's transaction locks the row: an UPDATE does not wait.
Unlocked(w, j) == owner[j] \in {NoWorker, w}

\* The SQLAlchemy version check of the flush: UPDATE ... WHERE rowVersion = loaded.
Fresh(w, j) == View(w, j).version = worker[w].loaded

\* w writes record r for job j: lock the row, bump rowVersion.
Write(w, j, r) ==
    /\ draft' = [draft EXCEPT ![j] = [r EXCEPT !.version = @ + 1]]
    /\ owner' = [owner EXCEPT ![j] = w]

\* The transaction of w is gone, and with it everything it wrote.
Rollback(w) ==
    /\ draft' = [j \in Jobs |-> IF owner[j] = w THEN saved[j] ELSE draft[j]]
    /\ owner' = [j \in Jobs |-> IF owner[j] = w THEN NoWorker ELSE owner[j]]
    /\ worker' = [worker EXCEPT ![w] = Idle]

-----------------------------------------------------------------------------
\* A request enqueues a job and commits; run_after may lie in the future.
Enqueue(j, delay) ==
    /\ saved[j].status = "absent"
    /\ \A k \in Jobs : k < j => saved[k].status # "absent"
    /\ LET row == [NewRecord EXCEPT !.status = "pending", !.runAfter = delay, !.version = 1]
       IN  /\ saved' = [saved EXCEPT ![j] = row]
           /\ draft' = [draft EXCEPT ![j] = row]
    /\ UNCHANGED <<owner, worker, starts, faults>>

\* Mutant: a processing row is never claimed again.
DueMutant(r) == r.status = "pending" /\ r.runAfter <= 0

Due(r) == \/ r.status = "pending" /\ r.runAfter <= 0
          \/ r.status = "processing" /\ r.lockedUntil < 0

\* The rows w's claim selects from; SKIP LOCKED passes over the others.
Claimable(w) == {j \in Jobs : Unlocked(w, j) /\ Due(View(w, j))}

\* ORDER BY runAfter, jobID.
First(w, j) == \A k \in Claimable(w) :
                  \/ View(w, j).runAfter < View(w, k).runAfter
                  \/ View(w, j).runAfter = View(w, k).runAfter /\ j <= k

claim_next_job(w) ==
    /\ worker[w].pc = "idle"
    /\ \E j \in Claimable(w) :
          /\ First(w, j)
          /\ Write(w, j, [View(w, j) EXCEPT !.status = "processing", !.lockedUntil = Lease])
          /\ worker' = [worker EXCEPT ![w] =
                           [pc |-> "claimed", job |-> j, loaded |-> View(w, j).version + 1]]
    /\ UNCHANGED <<saved, starts, faults>>

\* The hosting process commits: between two jobs of a pass, at its end, or
\* (when it calls claim_next_job itself) between the claim and the handler.
HostCommits(w) ==
    /\ worker[w].pc \in {"idle", "claimed"}
    /\ \E j \in Jobs : owner[j] = w
    /\ saved' = [j \in Jobs |-> View(w, j)]
    /\ owner' = [j \in Jobs |-> IF owner[j] = w THEN NoWorker ELSE owner[j]]
    /\ UNCHANGED <<draft, worker, starts, faults>>

\* handlers.get(job.job_type): reading the type loads the row again when a
\* commit has expired it, so the handler starts from the current rowVersion.
StartHandler(w) ==
    /\ worker[w].pc = "claimed"
    /\ LET j == worker[w].job
       IN  /\ worker' = [worker EXCEPT ![w].pc = "running", ![w].loaded = View(w, j).version]
           /\ starts' = [starts EXCEPT ![j] = @ + 1]
    /\ UNCHANGED <<saved, draft, owner, faults>>

\* Mutant: neither createdBy nor an existing entry is looked at.
NotifyMutant(r, j, kind) == [r EXCEPT !.bell = kind]

\* _notify_terminal: a user's job rings once; a system job never does.
Notify(r, j, kind) ==
    IF j \in Requested /\ r.bell = "none" THEN [r EXCEPT !.bell = kind] ELSE r

\* Mutant: the operator's status written by the worker.
SettledAsMutant(r, j, status, kind) ==
    [Notify(r, j, kind) EXCEPT !.status = IF kind = "jobFailed" THEN "failed" ELSE status,
                               !.lockedUntil = -1, !.feed = @ + 1]

\* The status write, the bell and the feed event of a terminal transition.
SettledAs(r, j, status, kind) ==
    [Notify(r, j, kind) EXCEPT !.status = status, !.lockedUntil = -1, !.feed = @ + 1]

CanSettle(w) ==
    /\ worker[w].pc = "running"
    /\ Unlocked(w, worker[w].job)

\* The handler returned: complete_job.
complete_job(w) ==
    /\ CanSettle(w) /\ Fresh(w, worker[w].job)
    /\ LET j == worker[w].job
       IN  Write(w, j, SettledAs(View(w, j), j, "completed", "jobCompleted"))
    /\ worker' = [worker EXCEPT ![w] = Idle]
    /\ UNCHANGED <<saved, starts, faults>>

\* Mutant: a failed attempt is not counted.
fail_jobMutant(w, permanent) ==
    /\ CanSettle(w) /\ Fresh(w, worker[w].job)
    /\ LET j == worker[w].job
           r == View(w, j)
       IN  IF permanent
           THEN Write(w, j, SettledAs(r, j, "needsAttention", "jobFailed"))
           ELSE Write(w, j, [r EXCEPT !.status = "pending", !.lockedUntil = -1])
    /\ worker' = [worker EXCEPT ![w] = Idle]
    /\ UNCHANGED <<saved, starts, faults>>

\* The handler raised, or no handler is registered (permanent): fail_job.
fail_job(w, permanent) ==
    /\ CanSettle(w) /\ Fresh(w, worker[w].job)
    /\ LET j == worker[w].job
           r == [View(w, j) EXCEPT !.attempts = @ + 1]
           parked == permanent \/ r.attempts >= MaxAttempts
       IN  IF parked
           THEN Write(w, j, SettledAs(r, j, "needsAttention", "jobFailed"))
           ELSE Write(w, j, [r EXCEPT !.status = "pending", !.lockedUntil = -1,
                                      !.runAfter = retry_backoff(r.attempts)])
    /\ worker' = [worker EXCEPT ![w] = Idle]
    /\ UNCHANGED <<saved, starts, faults>>

\* Somebody else has written the row since: the flush of complete_job or
\* fail_job raises StaleDataError, which escapes the pass.
StaleSettle(w) ==
    /\ CanSettle(w) /\ ~Fresh(w, worker[w].job)
    /\ Rollback(w)
    /\ UNCHANGED <<saved, starts, faults>>

\* The handler raised out of a failed statement: the session accepts nothing
\* until a rollback, so fail_job raises in turn and that escapes the pass.
HandlerBreaksSession(w) ==
    /\ worker[w].pc = "running"
    /\ MayFail(dbErrors, MaxDbErrors)
    /\ dbErrors' = dbErrors + 1
    /\ Rollback(w)
    /\ UNCHANGED <<saved, starts, crashes, overruns, lateStarts>>

Crash(w) ==
    /\ worker[w].pc # "idle" \/ \E j \in Jobs : owner[j] = w
    /\ MayFail(crashes, MaxCrashes)
    /\ crashes' = crashes + 1
    /\ Rollback(w)
    /\ UNCHANGED <<saved, starts, dbErrors, overruns, lateStarts>>

\* The deadlines of absent and settled rows are not read any more.
Later(r) ==
    IF r.status \notin {"pending", "processing"} THEN r
    ELSE [r EXCEPT !.runAfter = IF @ > -Horizon THEN @ - 1 ELSE @,
                   !.lockedUntil = IF @ >= 0 THEN @ - 1 ELSE @]

\* The lease of a job runs out under a worker that is still at it: while its
\* handler runs, or between the claim and the start of the handler.
RunsOut(w, pc) == /\ worker[w].pc = pc
                  /\ View(w, worker[w].job).lockedUntil = 0

Tick ==
    /\ saved' = [j \in Jobs |-> Later(saved[j])]
    /\ draft' = [j \in Jobs |-> Later(draft[j])]
    /\ IF \E w \in Workers : RunsOut(w, "running")
       THEN MayFail(overruns, MaxOverruns) /\ overruns' = overruns + 1
       ELSE UNCHANGED overruns
    /\ IF \E w \in Workers : RunsOut(w, "claimed")
       THEN MayFail(lateStarts, MaxLateStarts) /\ lateStarts' = lateStarts + 1
       ELSE UNCHANGED lateStarts
    /\ UNCHANGED <<owner, worker, starts, crashes, dbErrors>>

Settle(w) == complete_job(w) \/ fail_job(w, TRUE) \/ fail_job(w, FALSE) \/ StaleSettle(w)

Next ==
    \/ \E j \in Jobs, delay \in {0, 1} : Enqueue(j, delay)
    \/ \E w \in Workers :
          \/ claim_next_job(w) \/ HostCommits(w) \/ StartHandler(w)
          \/ complete_job(w) \/ fail_job(w, TRUE) \/ fail_job(w, FALSE)
          \/ StaleSettle(w) \/ HandlerBreaksSession(w) \/ Crash(w)
    \/ Tick

Spec == Init /\ [][Next]_vars

\* The scheduler keeps running passes and commits after each; handlers end;
\* time passes.  Nothing forces a fault or a request.
Fairness ==
    /\ WF_vars(Tick)
    /\ \A w \in Workers :
          /\ WF_vars(claim_next_job(w)) /\ WF_vars(StartHandler(w)) /\ WF_vars(Settle(w))
          /\ WF_vars(worker[w].pc = "idle" /\ HostCommits(w))

FairSpec == Spec /\ Fairness

-----------------------------------------------------------------------------
\* The entry the bell of j's user should show for row r.
BellOf(r, j) == IF j \notin Requested \/ r.status \notin Terminal THEN "none"
                ELSE IF r.status = "completed" THEN "jobCompleted" ELSE "jobFailed"

\* "the bell and the job row can never disagree" (complete_job): whoever looks
\* at committed state finds a bell entry exactly for a settled job that a user
\* asked for, and it says what the row says.  It needs that no lease runs out
\* between the claim and the start of the handler, which loads the row anew and
\* does not look at its status.
BellMatchesRow ==
    lateStarts = 0 => \A j \in Jobs : saved[j].bell = BellOf(saved[j], j)

\* _record_job_event: a completed or parked job has its feed event, and however
\* often workers crashed or overlapped, it has exactly one.
OneEventPerSettledJob ==
    lateStarts = 0 =>
        \A j \in Jobs : saved[j].feed = IF saved[j].status \in Terminal THEN 1 ELSE 0

\* The rowVersion check fences off a worker that lost its lease: no late,
\* duplicate or restarted worker takes a settled job up again.
SettledIsFinal ==
    [][lateStarts = 0 =>
          \A j \in Jobs : saved[j].status \in Terminal => saved'[j] = saved[j]]_vars

\* "concurrent workers never double-claim": two workers are at one job only
\* after a lease ran out under a worker that was still busy.
NoDoubleClaim ==
    overruns + lateStarts = 0 =>
        \A j \in Jobs : \A w1, w2 \in Workers : Holds(w1, j) /\ Holds(w2, j) => w1 = w2

\* fail_job parks at max_attempts, so a job's handler starts that often and
\* no more, but for the starts that a rollback forgot.
StartsBounded ==
    \A j \in Jobs : starts[j] <= MaxAttempts * (1 + crashes + dbErrors + overruns + lateStarts)

\* "the worker itself never gives up silently": every enqueued job is
\* completed or parked for a human in the end.
JobsSettle ==
    \A j \in Jobs : saved[j].status = "pending" ~> saved[j].status \in Terminal

\* fail_job: "retry with backoff, or park": the handler of a job that keeps
\* failing starts at most max_attempts times.
ParkedAfterMaxAttempts ==
    crashes + overruns + lateStarts = 0 => \A j \in Jobs : starts[j] <= MaxAttempts

-----------------------------------------------------------------------------
\* What a client sees of a job.
ClientState(j) == IF saved[j].status \in {"pending", "processing"} THEN "waiting"
                  ELSE saved[j].status

Contract == INSTANCE JobContract WITH
    state <- [j \in Jobs |-> ClientState(j)],
    bell <- [j \in Jobs |-> saved[j].bell],
    feed <- [j \in Jobs |-> saved[j].feed]

\* The queue keeps the contract its docstrings promise: every job settled once,
\* with its bell and its event, and none left behind.
KeepsContract == Contract!FairSpec
=============================================================================
