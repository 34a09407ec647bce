--------------------------- MODULE JobQueueProofs ---------------------------
(* Theorems about JobQueue, for any number of jobs and workers and any bounds. *)
EXTENDS JobQueue, FiniteSetTheorems, TLAPS

USE ConstantsAssumption

-----------------------------------------------------------------------------
(* What the operators return. *)

\* A backoff is a number of ticks.
LEMMA BackoffIsNumber == ASSUME NEW n \in Nat PROVE retry_backoff(n) \in Int
<1> DEFINE e == IF n < 1 THEN 0 ELSE IF n > 21 THEN 20 ELSE n - 1
<1>1. e \in 0 .. 20
  OBVIOUS
<1>2. 2 ^ e \in Nat
  BY <1>1, PowersAreNumbers
<1> HIDE DEF e
<1>3. BackoffBase * 2 ^ e \in Int
  BY <1>2
<1> USE DEF e
<1>4. retry_backoff(n) = IF BackoffBase * 2 ^ e < BackoffCap
                         THEN BackoffBase * 2 ^ e ELSE BackoffCap
  BY DEF retry_backoff
<1> HIDE DEF e
<1> QED
  BY <1>3, <1>4

\* Setting a field of a row to a value of its type leaves a row.
LEMMA PutField ==
    ASSUME NEW r \in Record
    PROVE  /\ \A s \in JOB_STATUSES : [r EXCEPT !.status = s] \in Record
           /\ \A n \in Nat : [r EXCEPT !.attempts = n] \in Record
           /\ \A i \in Int : [r EXCEPT !.runAfter = i] \in Record
           /\ \A i \in Int : [r EXCEPT !.lockedUntil = i] \in Record
           /\ \A n \in Nat : [r EXCEPT !.version = n] \in Record
           /\ \A k \in BellTypes : [r EXCEPT !.bell = k] \in Record
           /\ \A n \in Nat : [r EXCEPT !.feed = n] \in Record
  BY DEF Record

\* The rows the actions write.
LEMMA WrittenRows ==
    ASSUME NEW r \in Record, NEW s \in JOB_STATUSES, NEW l \in Int, NEW a \in Int
    PROVE  /\ [r EXCEPT !.status = s, !.lockedUntil = l] \in Record
           /\ [r EXCEPT !.status = s, !.lockedUntil = l, !.runAfter = a] \in Record
           /\ [r EXCEPT !.runAfter = a, !.lockedUntil = l] \in Record
           /\ [r EXCEPT !.status = s, !.lockedUntil = l, !.feed = @ + 1] \in Record
<1> DEFINE r1 == [r EXCEPT !.status = s]
           r2 == [r1 EXCEPT !.lockedUntil = l]
           r3 == [r EXCEPT !.runAfter = a]
<1>1. r1 \in Record
  BY PutField
<1>2. r.feed + 1 \in Nat
  BY DEF Record
<1>3. r3 \in Record
  BY PutField
<1> HIDE DEF r1
<1>4. r2 \in Record
  BY <1>1, PutField
<1> HIDE DEF r2
<1>5. [r2 EXCEPT !.runAfter = a] \in Record /\ [r2 EXCEPT !.feed = r.feed + 1] \in Record
  BY <1>2, <1>4, PutField
<1> HIDE DEF r3
<1>6. [r3 EXCEPT !.lockedUntil = l] \in Record
  BY <1>3, PutField
<1> QED
  BY <1>4, <1>5, <1>6 DEF r1, r2, r3

\* Time only moves the two deadlines of a row.
LEMMA LaterKeeps ==
    ASSUME NEW r \in Record
    PROVE  /\ Later(r) \in Record
           /\ Later(r).status = r.status /\ Later(r).attempts = r.attempts
           /\ Later(r).version = r.version
           /\ Later(r).bell = r.bell /\ Later(r).feed = r.feed
           /\ r.status \in Terminal => Later(r) = r
           /\ r.lockedUntil > 0 => Later(r).lockedUntil >= 0
           /\ r.lockedUntil < 0 => Later(r).lockedUntil < 0
<1>1. /\ r \in [status : JOB_STATUSES, attempts : Nat, runAfter : Int, lockedUntil : Int,
                 version : Nat, bell : BellTypes, feed : Nat]
      /\ -Horizon \in Int
  BY DEF Record
<1>2. CASE r.status \notin {"pending", "processing"}
  BY <1>1, <1>2 DEF Later, Terminal, Record
<1>3. CASE r.status \in {"pending", "processing"}
  <2> DEFINE a == IF r.runAfter > -Horizon THEN r.runAfter - 1 ELSE r.runAfter
             l == IF r.lockedUntil >= 0 THEN r.lockedUntil - 1 ELSE r.lockedUntil
             q == [r EXCEPT !.runAfter = a, !.lockedUntil = l]
  <2>1. Later(r) = q
    BY <1>3 DEF Later
  <2>2. /\ a \in Int /\ l \in Int
        /\ (r.lockedUntil > 0 => l >= 0) /\ (r.lockedUntil < 0 => l < 0)
    BY <1>1
  <2> HIDE DEF a, l
  <2>3. q \in Record
    BY <2>2, WrittenRows, "pending" \in JOB_STATUSES DEF JOB_STATUSES
  <2>4. /\ q.status = r.status /\ q.attempts = r.attempts /\ q.version = r.version
        /\ q.bell = r.bell /\ q.feed = r.feed /\ q.lockedUntil = l
    BY <1>1
  <2> HIDE DEF q
  <2> QED
    BY <1>3, <2>1, <2>2, <2>3, <2>4 DEF Terminal
<1> QED
  BY <1>2, <1>3

\* Settling a row that has no bell entry and no event yet gives it both.
LEMMA SettledAsFits ==
    ASSUME NEW r \in Record, NEW j \in Jobs, NEW status \in Terminal,
           NEW kind \in {"jobCompleted", "jobFailed"}
    PROVE  /\ SettledAs(r, j, status, kind) \in Record
           /\ SettledAs(r, j, status, kind).status = status
           /\ SettledAs(r, j, status, kind).version = r.version
           /\ SettledAs(r, j, status, kind).feed = r.feed + 1
           /\ r.bell = "none" /\ j \in Requested => SettledAs(r, j, status, kind).bell = kind
           /\ r.bell = "none" /\ j \notin Requested => SettledAs(r, j, status, kind).bell = "none"
<1> DEFINE n == Notify(r, j, kind)
<1>1. /\ n \in Record /\ n.version = r.version /\ n.feed = r.feed
      /\ r.bell = "none" /\ j \in Requested => n.bell = kind
      /\ r.bell = "none" /\ j \notin Requested => n.bell = "none"
  BY DEF Notify, Record, BellTypes
<1> HIDE DEF n
<1>2. [n EXCEPT !.status = status, !.lockedUntil = -1, !.feed = @ + 1] \in Record
  <2>1. status \in JOB_STATUSES /\ -1 \in Int
    BY DEF Terminal, JOB_STATUSES
  <2> QED
    BY <1>1, <2>1, WrittenRows
<1>3. SettledAs(r, j, status, kind)
          = [n EXCEPT !.status = status, !.lockedUntil = -1, !.feed = @ + 1]
  BY DEF SettledAs, n
<1> QED
  BY <1>1, <1>2, <1>3 DEF Record

\* Of a row without bell entry and event, both terminal transitions make a row
\* that has them.
LEMMA SettledFresh ==
    ASSUME NEW r \in Record, NEW j \in Jobs, r.bell = "none", r.feed = 0
    PROVE  LET done == SettledAs(r, j, "completed", "jobCompleted")
               parked == SettledAs(r, j, "needsAttention", "jobFailed")
           IN  /\ done \in Record /\ parked \in Record
               /\ done.version = r.version /\ parked.version = r.version
               /\ done.status = "completed" /\ parked.status = "needsAttention"
               /\ done.feed = 1 /\ parked.feed = 1
               /\ done.bell = IF j \in Requested THEN "jobCompleted" ELSE "none"
               /\ parked.bell = IF j \in Requested THEN "jobFailed" ELSE "none"
<1> DEFINE done == SettledAs(r, j, "completed", "jobCompleted")
           parked == SettledAs(r, j, "needsAttention", "jobFailed")
<1>1. done \in Record /\ parked \in Record
  BY SettledAsFits DEF Terminal
<1>2. done.status = "completed" /\ parked.status = "needsAttention"
  BY SettledAsFits DEF Terminal
<1>3. done.feed = 1 /\ parked.feed = 1
  <2>1. done.feed = r.feed + 1 /\ parked.feed = r.feed + 1
    BY SettledAsFits DEF Terminal
  <2> HIDE DEF done, parked
  <2> QED
    BY <2>1
<1>4. done.version = r.version /\ parked.version = r.version
  BY SettledAsFits DEF Terminal
<1>5. ASSUME j \in Requested PROVE done.bell = "jobCompleted" /\ parked.bell = "jobFailed"
  <2>1. done.bell = "jobCompleted"
    BY <1>5, SettledAsFits DEF Terminal
  <2>2. parked.bell = "jobFailed"
    BY <1>5, SettledAsFits DEF Terminal
  <2> QED
    BY <2>1, <2>2
<1>6. ASSUME j \notin Requested PROVE done.bell = "none" /\ parked.bell = "none"
  <2>1. done.bell = "none"
    BY <1>6, SettledAsFits DEF Terminal
  <2>2. parked.bell = "none"
    BY <1>6, SettledAsFits DEF Terminal
  <2> QED
    BY <2>1, <2>2
<1> HIDE DEF done, parked
<1> QED
  BY <1>1, <1>2, <1>3, <1>4, <1>5, <1>6 DEF done, parked

\* Whichever copy of a row a session reads, it is a row.
LEMMA ViewIsRecord ==
    ASSUME TypeOK, NEW w, NEW j \in Jobs PROVE View(w, j) \in Record
  BY DEF View, TypeOK

-----------------------------------------------------------------------------
(* Type correctness. *)

\* A write leaves rows and lock holders.
LEMMA WriteType ==
    ASSUME TypeOK, NEW w \in Workers, NEW j \in Jobs, NEW r \in Record, Write(w, j, r)
    PROVE  /\ draft' \in [Jobs -> Record]
           /\ owner' \in [Jobs -> Workers \cup {NoWorker}]
<1>1. [r EXCEPT !.version = @ + 1] \in Record
  BY DEF Record
<1> QED
  BY <1>1 DEF Write, TypeOK

\* A rollback leaves rows, lock holders and an idle worker.
LEMMA RollbackType ==
    ASSUME TypeOK, NEW w \in Workers, Rollback(w)
    PROVE  /\ draft' \in [Jobs -> Record]
           /\ owner' \in [Jobs -> Workers \cup {NoWorker}]
           /\ worker' \in [Workers -> [pc : {"idle", "claimed", "running"},
                                       job : Jobs \cup {NoJob}, loaded : Nat]]
           /\ \A v \in Workers : worker'[v].pc # "idle" => worker'[v].job \in Jobs
<1>1. draft' \in [Jobs -> Record] /\ owner' \in [Jobs -> Workers \cup {NoWorker}]
  BY DEF Rollback, TypeOK
<1>2. Idle \in [pc : {"idle", "claimed", "running"}, job : Jobs \cup {NoJob}, loaded : Nat]
      /\ Idle.pc = "idle"
  BY DEF Idle
<1> QED
  BY <1>1, <1>2 DEF Rollback, TypeOK

\* Every step of the queue keeps the types.
LEMMA TypeStep == TypeOK /\ [Next]_vars => TypeOK'
<1> SUFFICES ASSUME TypeOK, [Next]_vars PROVE TypeOK'
  OBVIOUS
<1>0. Idle \in [pc : {"idle", "claimed", "running"}, job : Jobs \cup {NoJob}, loaded : Nat]
      /\ Idle.pc = "idle"
  BY DEF Idle
<1>1. ASSUME NEW j \in Jobs, NEW delay \in {0, 1}, Enqueue(j, delay) PROVE TypeOK'
  <2>1. [NewRecord EXCEPT !.status = "pending", !.runAfter = delay, !.version = 1] \in Record
    <3> DEFINE r == [NewRecord EXCEPT !.status = "pending"]
    <3>1. NewRecord \in Record /\ "pending" \in JOB_STATUSES /\ delay \in Int /\ 1 \in Nat
      BY DEF NewRecord, Record, JOB_STATUSES, BellTypes
    <3>2. r \in Record
      BY <3>1, PutField
    <3> HIDE DEF r
    <3> DEFINE q == [r EXCEPT !.runAfter = delay]
    <3>3. q \in Record
      BY <3>1, <3>2, PutField
    <3> HIDE DEF q
    <3>4. [q EXCEPT !.version = 1] \in Record
      BY <3>1, <3>3, PutField
    <3> QED
      BY <3>4 DEF q, r
  <2> QED
    BY <1>1, <2>1 DEF Enqueue, TypeOK, faults
<1>2. ASSUME NEW w \in Workers, claim_next_job(w) PROVE TypeOK'
  <2>1. PICK j \in Claimable(w) :
          /\ Write(w, j, [View(w, j) EXCEPT !.status = "processing", !.lockedUntil = Lease])
          /\ worker' = [worker EXCEPT ![w] =
                           [pc |-> "claimed", job |-> j, loaded |-> View(w, j).version + 1]]
    BY <1>2 DEF claim_next_job
  <2>2. j \in Jobs
    BY DEF Claimable
  <2>3. View(w, j) \in Record
    BY <2>2, ViewIsRecord
  <2>4. /\ [View(w, j) EXCEPT !.status = "processing", !.lockedUntil = Lease] \in Record
        /\ View(w, j).version + 1 \in Nat
    <3>1. Lease \in Int /\ "processing" \in JOB_STATUSES
      BY DEF JOB_STATUSES
    <3>2. [View(w, j) EXCEPT !.status = "processing", !.lockedUntil = Lease] \in Record
      BY <2>3, <3>1, WrittenRows
    <3>3. View(w, j).version + 1 \in Nat
      BY <2>3 DEF Record
    <3> QED
      BY <3>2, <3>3
  <2>5. /\ draft' \in [Jobs -> Record]
        /\ owner' \in [Jobs -> Workers \cup {NoWorker}]
    BY <2>1, <2>2, <2>4, WriteType
  <2>6. /\ worker' \in [Workers -> [pc : {"idle", "claimed", "running"},
                                    job : Jobs \cup {NoJob}, loaded : Nat]]
        /\ \A v \in Workers : worker'[v].pc # "idle" => worker'[v].job \in Jobs
    BY <2>1, <2>2, <2>4 DEF TypeOK
  <2> QED
    BY <1>2, <2>5, <2>6 DEF claim_next_job, TypeOK, faults
<1>3. ASSUME NEW w \in Workers, HostCommits(w) PROVE TypeOK'
  <2>1. saved' \in [Jobs -> Record] /\ owner' \in [Jobs -> Workers \cup {NoWorker}]
    BY <1>3, ViewIsRecord DEF HostCommits, TypeOK
  <2> QED
    BY <1>3, <2>1 DEF HostCommits, TypeOK, faults
<1>4. ASSUME NEW w \in Workers, StartHandler(w) PROVE TypeOK'
  <2>1. worker[w].job \in Jobs /\ worker[w].pc = "claimed"
    BY <1>4 DEF StartHandler, TypeOK
  <2>2. View(w, worker[w].job).version \in Nat
    BY <2>1, ViewIsRecord DEF Record
  <2>3. /\ worker' \in [Workers -> [pc : {"idle", "claimed", "running"},
                                    job : Jobs \cup {NoJob}, loaded : Nat]]
        /\ \A v \in Workers : worker'[v].pc # "idle" => worker'[v].job \in Jobs
    BY <1>4, <2>1, <2>2 DEF StartHandler, TypeOK
  <2>4. starts' \in [Jobs -> Nat]
    BY <1>4, <2>1 DEF StartHandler, TypeOK
  <2> QED
    BY <1>4, <2>3, <2>4 DEF StartHandler, TypeOK, faults
<1>5. ASSUME NEW w \in Workers, complete_job(w) PROVE TypeOK'
  <2>1. worker[w].job \in Jobs
    BY <1>5 DEF complete_job, CanSettle, TypeOK
  <2>2. SettledAs(View(w, worker[w].job), worker[w].job, "completed", "jobCompleted") \in Record
    BY <2>1, ViewIsRecord, SettledAsFits DEF Terminal
  <2>3. /\ draft' \in [Jobs -> Record]
        /\ owner' \in [Jobs -> Workers \cup {NoWorker}]
    BY <1>5, <2>1, <2>2, WriteType DEF complete_job
  <2> QED
    BY <1>0, <1>5, <2>3 DEF complete_job, TypeOK, faults
<1>6. ASSUME NEW w \in Workers, NEW permanent \in BOOLEAN, fail_job(w, permanent)
      PROVE  TypeOK'
  <2> DEFINE j == worker[w].job
             r == [View(w, j) EXCEPT !.attempts = @ + 1]
             s == [r EXCEPT !.status = "pending", !.lockedUntil = -1,
                            !.runAfter = retry_backoff(r.attempts)]
  <2>1. j \in Jobs
    BY <1>6 DEF fail_job, CanSettle, TypeOK
  <2>2. r \in Record /\ r.attempts \in Nat
    BY <2>1, ViewIsRecord DEF Record
  <2>3. SettledAs(r, j, "needsAttention", "jobFailed") \in Record
    BY <2>1, <2>2, SettledAsFits DEF Terminal
  <2>4. retry_backoff(r.attempts) \in Int
    BY <2>2, BackoffIsNumber
  <2>5. s \in Record
    <3>1. -1 \in Int /\ "pending" \in JOB_STATUSES
      BY DEF JOB_STATUSES
    <3> HIDE DEF r
    <3> QED
      BY <2>2, <2>4, <3>1, WrittenRows
  <2>6. \/ Write(w, j, SettledAs(r, j, "needsAttention", "jobFailed"))
        \/ Write(w, j, s)
    BY <1>6 DEF fail_job
  <2>7. /\ draft' \in [Jobs -> Record]
        /\ owner' \in [Jobs -> Workers \cup {NoWorker}]
    BY <2>1, <2>3, <2>5, <2>6, WriteType
  <2> HIDE DEF j, r, s
  <2> QED
    BY <1>0, <1>6, <2>7 DEF fail_job, TypeOK, faults
<1>7. ASSUME NEW w \in Workers, StaleSettle(w) PROVE TypeOK'
  BY <1>7, RollbackType DEF StaleSettle, TypeOK, faults
<1>8. ASSUME NEW w \in Workers, HandlerBreaksSession(w) PROVE TypeOK'
  BY <1>8, RollbackType DEF HandlerBreaksSession, TypeOK
<1>9. ASSUME NEW w \in Workers, Crash(w) PROVE TypeOK'
  BY <1>9, RollbackType DEF Crash, TypeOK
<1>10. ASSUME Tick PROVE TypeOK'
  <2>1. saved' \in [Jobs -> Record] /\ draft' \in [Jobs -> Record]
    BY <1>10, LaterKeeps DEF Tick, TypeOK
  <2>2. overruns' \in Nat /\ lateStarts' \in Nat
    BY <1>10 DEF Tick, TypeOK
  <2> QED
    BY <1>10, <2>1, <2>2 DEF Tick, TypeOK
<1>11. CASE UNCHANGED vars
  BY <1>11 DEF TypeOK, vars
<1> QED
  BY <1>1, <1>2, <1>3, <1>4, <1>5, <1>6, <1>7, <1>8, <1>9, <1>10, <1>11 DEF Next

\* The type invariant of the queue, for every number of jobs and workers.
THEOREM TypeCorrect == Spec => []TypeOK
<1>1. Init => TypeOK
  BY DEF Init, TypeOK, NewRecord, Idle, Record, JOB_STATUSES, BellTypes
<1> QED
  BY <1>1, TypeStep, PTL DEF Spec

-----------------------------------------------------------------------------
(* Safety.  The inductive invariant, conjunct by conjunct.                   *)

\* A row that is locked is open, and its lock holder has moved rowVersion on;
\* without a lock holder there is nothing uncommitted.
LockInv ==
    \A j \in Jobs :
        /\ owner[j] = NoWorker => draft[j] = saved[j]
        /\ owner[j] # NoWorker =>
              /\ draft[j].version > saved[j].version
              /\ saved[j].status \in {"pending", "processing"}
              /\ draft[j].status # "absent"

\* Bell and feed say what the status says, in both copies of a row.
RowOK(r, j) ==
    /\ r.bell = BellOf(r, j)
    /\ r.feed = IF r.status \in Terminal THEN 1 ELSE 0

RowInv == \A j \in Jobs : RowOK(saved[j], j) /\ RowOK(draft[j], j)

\* What a worker knows of the job it holds: the rowVersion it loaded is not
\* ahead of the row; if it is still the row's, the row is processing; and until
\* the worker's lease has run out nobody else has touched the row.
HolderKnows(w, j) ==
    /\ worker[w].loaded <= View(w, j).version
    /\ worker[w].loaded = View(w, j).version => View(w, j).status = "processing"
    /\ saved[j].status # "absent"
    /\ worker[w].pc = "claimed" \/ overruns = 0 =>
          /\ Unlocked(w, j)
          /\ worker[w].loaded = View(w, j).version
          /\ View(w, j).lockedUntil >= 0

HoldInv == \A w \in Workers : \A j \in Jobs : Holds(w, j) => HolderKnows(w, j)

\* Two workers at one job have loaded different row versions, so at most one of
\* them can still settle it.
FenceInv ==
    \A v, w \in Workers : \A j \in Jobs :
        v # w /\ Holds(v, j) /\ Holds(w, j) => worker[v].loaded # worker[w].loaded

SafetyInv == TypeOK /\ (lateStarts = 0 => LockInv /\ RowInv /\ HoldInv /\ FenceInv)

\* What Write leaves in the row.
LEMMA Bumped ==
    ASSUME TypeOK, NEW w \in Workers, NEW j \in Jobs, NEW r \in Record, Write(w, j, r)
    PROVE  /\ draft'[j].version = r.version + 1
           /\ draft'[j].status = r.status /\ draft'[j].bell = r.bell
           /\ draft'[j].feed = r.feed /\ draft'[j].lockedUntil = r.lockedUntil
           /\ draft'[j].attempts = r.attempts /\ owner'[j] = w
           /\ \A k \in Jobs : k # j => draft'[k] = draft[k] /\ owner'[k] = owner[k]
<1> DEFINE q == [r EXCEPT !.version = @ + 1]
<1>1. /\ q.version = r.version + 1 /\ q.status = r.status /\ q.bell = r.bell
      /\ q.feed = r.feed /\ q.lockedUntil = r.lockedUntil /\ q.attempts = r.attempts
  BY DEF Record
<1> HIDE DEF q
<1>2. draft' = [draft EXCEPT ![j] = q] /\ owner' = [owner EXCEPT ![j] = w]
  BY DEF Write, q
<1> QED
  BY <1>1, <1>2 DEF TypeOK

\* A worker that writes an open row it may write keeps every invariant but its
\* own entry in HoldInv and FenceInv.
LEMMA WriteKeeps ==
    ASSUME TypeOK, LockInv, RowInv, HoldInv,
           NEW w \in Workers, NEW j \in Jobs, NEW r \in Record,
           Write(w, j, r), saved' = saved, overruns' = overruns,
           \A v \in Workers : v # w => worker'[v] = worker[v],
           Unlocked(w, j), View(w, j).status \in {"pending", "processing"},
           r.version = View(w, j).version, r.status # "absent", RowOK(r, j),
           \A v \in Workers : v # w /\ Holds(v, j) => ~(worker[v].pc = "claimed" \/ overruns = 0)
    PROVE  /\ LockInv' /\ RowInv'
           /\ \A v \in Workers, k \in Jobs :
                 v # w /\ Holds(v, k)' => HolderKnows(v, k)'
<1>0. /\ draft'[j].version = r.version + 1 /\ owner'[j] = w
      /\ draft'[j].status = r.status /\ draft'[j].bell = r.bell /\ draft'[j].feed = r.feed
      /\ \A k \in Jobs : k # j => draft'[k] = draft[k] /\ owner'[k] = owner[k]
  <2>1. /\ draft'[j].version = r.version + 1
        /\ draft'[j].status = r.status /\ draft'[j].bell = r.bell
        /\ draft'[j].feed = r.feed /\ draft'[j].lockedUntil = r.lockedUntil
        /\ draft'[j].attempts = r.attempts /\ owner'[j] = w
        /\ \A k \in Jobs : k # j => draft'[k] = draft[k] /\ owner'[k] = owner[k]
    BY Bumped
  <2> QED
    BY <2>1
<1>1. NoWorker \notin Workers /\ owner[j] \in {NoWorker, w}
  BY DEF Unlocked
<1>2. /\ saved[j] \in Record /\ draft[j] \in Record /\ View(w, j) \in Record
      /\ saved[j].version \in Nat /\ draft[j].version \in Nat /\ r.version \in Nat
  BY ViewIsRecord DEF TypeOK, Record
<1>3. draft'[j].version > saved[j].version
  <2>1. CASE owner[j] = NoWorker
    BY <1>0, <1>1, <1>2, <2>1 DEF View
  <2>2. CASE owner[j] = w
    BY <1>0, <1>1, <1>2, <2>2 DEF LockInv, View
  <2> QED
    BY <1>1, <2>1, <2>2
<1>4. saved[j].status \in {"pending", "processing"}
  BY <1>1 DEF LockInv, View
<1>5. LockInv'
  <2>1. ASSUME NEW k \in Jobs, k # j
        PROVE  /\ owner'[k] = NoWorker => draft'[k] = saved'[k]
               /\ owner'[k] # NoWorker =>
                     /\ draft'[k].version > saved'[k].version
                     /\ saved'[k].status \in {"pending", "processing"}
                     /\ draft'[k].status # "absent"
    BY <1>0, <2>1 DEF LockInv
  <2>2. /\ owner'[j] # NoWorker /\ draft'[j].version > saved'[j].version
        /\ saved'[j].status \in {"pending", "processing"} /\ draft'[j].status # "absent"
    BY <1>0, <1>1, <1>3, <1>4
  <2> QED
    BY <2>1, <2>2 DEF LockInv
<1>6. RowInv'
  <2>1. RowOK(draft'[j], j)
    BY <1>0 DEF RowOK, BellOf
  <2>2. \A k \in Jobs : k # j => RowOK(draft'[k], k)
    BY <1>0 DEF RowInv
  <2> QED
    BY <2>1, <2>2 DEF RowInv, RowOK, BellOf
<1>7. ASSUME NEW v \in Workers, NEW k \in Jobs, v # w, Holds(v, k)' PROVE HolderKnows(v, k)'
  <2>1. worker'[v] = worker[v] /\ Holds(v, k) /\ HolderKnows(v, k)
    BY <1>7 DEF Holds, HoldInv
  <2>2. CASE k # j
    <3>1. draft'[k] = draft[k] /\ owner'[k] = owner[k]
      BY <2>2, <1>0
    <3> QED
      BY <2>1, <3>1 DEF HolderKnows, View, Unlocked
  <2>3. CASE k = j
    <3>1. View(v, j) = saved[j] /\ View(v, j)' = saved[j]
      BY <1>0, <1>1, <1>7 DEF View
    <3>2. ~(worker[v].pc = "claimed" \/ overruns = 0)
      BY <1>7, <2>1, <2>3
    <3> QED
      BY <2>1, <2>3, <3>1, <3>2 DEF HolderKnows
  <2> QED
    BY <2>2, <2>3
<1> QED
  BY <1>5, <1>6, <1>7

\* A rollback keeps them all.
LEMMA RollbackKeeps ==
    ASSUME TypeOK, LockInv, RowInv, HoldInv, FenceInv,
           NEW w \in Workers, Rollback(w), saved' = saved, overruns' = overruns
    PROVE  LockInv' /\ RowInv' /\ HoldInv' /\ FenceInv'
<1>1. /\ worker'[w].pc = "idle"
      /\ \A v \in Workers : v # w => worker'[v] = worker[v]
  BY DEF Rollback, Idle, TypeOK
<1>2. \A j \in Jobs :
         /\ owner[j] = w => draft'[j] = saved[j] /\ owner'[j] = NoWorker
         /\ owner[j] # w => draft'[j] = draft[j] /\ owner'[j] = owner[j]
  BY DEF Rollback
<1>3. LockInv'
  BY <1>2 DEF LockInv
<1>4. RowInv'
  BY <1>2 DEF RowInv, RowOK, BellOf
<1>5. ASSUME NEW v \in Workers, NEW j \in Jobs, Holds(v, j)' PROVE HolderKnows(v, j)'
  <2>1. v # w /\ worker'[v] = worker[v] /\ Holds(v, j) /\ HolderKnows(v, j)
    BY <1>1, <1>5 DEF Holds, HoldInv
  <2>2. View(v, j)' = View(v, j) /\ (Unlocked(v, j) => Unlocked(v, j)')
    BY <1>2, <2>1 DEF View, Unlocked
  <2> QED
    BY <2>1, <2>2 DEF HolderKnows
<1>6. FenceInv'
  BY <1>1 DEF FenceInv, Holds
<1> QED
  BY <1>3, <1>4, <1>5, <1>6 DEF HoldInv

-----------------------------------------------------------------------------
(* The invariant, action by action. *)

Inv == TypeOK /\ LockInv /\ RowInv /\ HoldInv /\ FenceInv

\* Nobody holds a job that is not enqueued yet, and nobody locks its row.
LEMMA EnqueueKeeps ==
    ASSUME Inv, NEW j \in Jobs, NEW delay \in {0, 1}, Enqueue(j, delay)
    PROVE  LockInv' /\ RowInv' /\ HoldInv' /\ FenceInv'
<1> DEFINE row == [NewRecord EXCEPT !.status = "pending", !.runAfter = delay, !.version = 1]
<1>1. row.status = "pending" /\ row.bell = "none" /\ row.feed = 0
  BY DEF NewRecord
<1> HIDE DEF row
<1>2. /\ saved[j].status = "absent"
      /\ saved' = [saved EXCEPT ![j] = row] /\ draft' = [draft EXCEPT ![j] = row]
      /\ owner' = owner /\ worker' = worker /\ overruns' = overruns
  BY DEF Enqueue, row, faults
<1>3. /\ saved'[j] = row /\ draft'[j] = row
      /\ \A k \in Jobs : k # j => saved'[k] = saved[k] /\ draft'[k] = draft[k]
  BY <1>2 DEF Inv, TypeOK
<1>4. owner[j] = NoWorker
  BY <1>2 DEF Inv, LockInv
<1>5. LockInv'
  BY <1>2, <1>3, <1>4 DEF Inv, LockInv
<1>6. RowInv'
  <2>1. RowOK(row, j)
    BY <1>1 DEF RowOK, BellOf, Terminal
  <2> QED
    BY <1>3, <2>1 DEF Inv, RowInv, RowOK, BellOf
<1>7. ASSUME NEW v \in Workers, NEW k \in Jobs, Holds(v, k)' PROVE HolderKnows(v, k)'
  <2>1. Holds(v, k) /\ HolderKnows(v, k)
    BY <1>2, <1>7 DEF Holds, Inv, HoldInv
  <2>2. k # j
    BY <1>2, <2>1 DEF HolderKnows
  <2> QED
    BY <1>2, <1>3, <2>1, <2>2 DEF HolderKnows, View, Unlocked
<1>8. FenceInv'
  BY <1>2 DEF Inv, FenceInv, Holds
<1> QED
  BY <1>5, <1>6, <1>7, <1>8 DEF HoldInv

\* A claim finds the row pending, or processing under an expired lease: so no
\* other worker has a live claim on it, and the rowVersion it takes is new.
LEMMA ClaimKeeps ==
    ASSUME Inv, NEW w \in Workers, claim_next_job(w)
    PROVE  LockInv' /\ RowInv' /\ HoldInv' /\ FenceInv'
<1>1. PICK j \in Claimable(w) :
        /\ Write(w, j, [View(w, j) EXCEPT !.status = "processing", !.lockedUntil = Lease])
        /\ worker' = [worker EXCEPT ![w] =
                         [pc |-> "claimed", job |-> j, loaded |-> View(w, j).version + 1]]
  BY DEF claim_next_job
<1> DEFINE r == [View(w, j) EXCEPT !.status = "processing", !.lockedUntil = Lease]
<1>2. j \in Jobs /\ Unlocked(w, j) /\ Due(View(w, j))
  BY DEF Claimable
<1>3. View(w, j) \in Record
  BY <1>2, ViewIsRecord DEF Inv
<1>4. r \in Record
  <2>1. Lease \in Int /\ "processing" \in JOB_STATUSES
    BY DEF JOB_STATUSES
  <2> QED
    BY <1>3, <2>1, WrittenRows
<1>5. /\ r.status = "processing" /\ r.version = View(w, j).version
      /\ r.lockedUntil = Lease /\ r.bell = View(w, j).bell /\ r.feed = View(w, j).feed
  BY <1>3 DEF Record
<1>6. Write(w, j, r)
  BY <1>1
<1> HIDE DEF r
<1>7. View(w, j).status \in {"pending", "processing"}
  BY <1>2 DEF Due
<1>8. RowOK(r, j)
  <2>1. RowOK(View(w, j), j)
    BY <1>2 DEF Inv, RowInv, View
  <2> QED
    BY <1>5, <1>7, <2>1 DEF RowOK, BellOf, Terminal
<1>9. saved' = saved /\ overruns' = overruns
  BY DEF claim_next_job, faults
<1>10. \A v \in Workers : v # w => worker'[v] = worker[v]
  BY <1>1 DEF Inv, TypeOK
<1>11. worker'[w] = [pc |-> "claimed", job |-> j, loaded |-> View(w, j).version + 1]
  BY <1>1 DEF Inv, TypeOK
<1>12. ASSUME NEW v \in Workers, v # w, Holds(v, j)
       PROVE  ~(worker[v].pc = "claimed" \/ overruns = 0)
  <2>1. HolderKnows(v, j)
    BY <1>2, <1>12 DEF Inv, HoldInv
  <2>2. Unlocked(v, j) => View(v, j) = View(w, j)
    BY <1>2, <1>12 DEF Unlocked, View
  <2> QED
    BY <1>2, <1>3, <2>1, <2>2 DEF HolderKnows, Due, Record
<1>13. /\ LockInv' /\ RowInv'
       /\ \A v \in Workers, k \in Jobs : v # w /\ Holds(v, k)' => HolderKnows(v, k)'
  BY <1>2, <1>4, <1>5, <1>6, <1>7, <1>8, <1>9, <1>10, <1>12, WriteKeeps DEF Inv
<1>14. ASSUME NEW k \in Jobs, Holds(w, k)' PROVE HolderKnows(w, k)'
  <2>1. k = j /\ worker'[w].loaded = View(w, j).version + 1
    BY <1>11, <1>14 DEF Holds
  <2>2. /\ View(w, j)'.version = View(w, j).version + 1
        /\ View(w, j)'.status = "processing" /\ View(w, j)'.lockedUntil = Lease
        /\ owner'[j] = w
    BY <1>2, <1>4, <1>5, <1>6, Bumped DEF View, Inv
  <2>3. saved'[j].status # "absent"
    BY <1>7, <1>9 , <1>2 DEF View, Inv, LockInv
  <2>4. View(w, j).version + 1 \in Nat /\ Lease >= 0
    BY <1>3 DEF Record
  <2> QED
    BY <2>1, <2>2, <2>3, <2>4 DEF HolderKnows, Unlocked
<1>15. FenceInv'
  <2>1. ASSUME NEW v \in Workers, v # w, Holds(v, j)'
        PROVE  worker'[v].loaded # worker'[w].loaded
    <3>1. Holds(v, j) /\ worker'[v] = worker[v]
      BY <1>10, <2>1 DEF Holds
    <3>2. worker[v].loaded <= View(v, j).version
      BY <1>2, <3>1 DEF Inv, HoldInv, HolderKnows
    <3>3. View(v, j).version <= View(w, j).version
      <4>1. View(v, j) = saved[j] /\ saved[j].version \in Nat /\ draft[j].version \in Nat
        BY <1>2, <2>1 DEF View, Unlocked, Inv, TypeOK, Record
      <4>2. CASE owner[j] = w
        <5>1. View(w, j) = draft[j] /\ owner[j] # NoWorker
          BY <4>2 DEF View
        <5>2. draft[j].version > saved[j].version
          BY <1>2, <5>1 DEF Inv, LockInv
        <5> QED
          BY <4>1, <5>1, <5>2
      <4>3. CASE owner[j] # w
        BY <4>1, <4>3 DEF View
      <4> QED
        BY <4>2, <4>3
    <3>4. worker[v].loaded \in Nat /\ View(v, j).version \in Nat /\ View(w, j).version \in Nat
      BY <1>2, ViewIsRecord DEF Inv, TypeOK, Record
    <3> QED
      BY <1>11, <3>1, <3>2, <3>3, <3>4
  <2>2. \A k \in Jobs : Holds(w, k)' => k = j
    BY <1>11 DEF Holds
  <2>3. ASSUME NEW u \in Workers, NEW v \in Workers, NEW k \in Jobs,
               u # v, Holds(u, k)', Holds(v, k)'
        PROVE  worker'[u].loaded # worker'[v].loaded
    <3>1. CASE u = w
      BY <2>1, <2>2, <2>3, <3>1
    <3>2. CASE v = w
      BY <2>1, <2>2, <2>3, <3>2
    <3>3. CASE u # w /\ v # w
      BY <1>10, <2>3, <3>3 DEF Inv, FenceInv, Holds
    <3> QED
      BY <3>1, <3>2, <3>3
  <2> QED
    BY <2>3 DEF FenceInv
<1> QED
  BY <1>13, <1>14, <1>15 DEF HoldInv

\* A settling worker has a fresh rowVersion: so the row is still processing and
\* no other holder of the job has the same rowVersion.
LEMMA SettleKeeps ==
    ASSUME Inv, NEW w \in Workers, NEW j \in Jobs, NEW r \in Record,
           worker[w].pc = "running", worker[w].job = j, Unlocked(w, j), Fresh(w, j),
           Write(w, j, r), worker' = [worker EXCEPT ![w] = Idle],
           saved' = saved, overruns' = overruns,
           r.version = View(w, j).version, r.status # "absent", RowOK(r, j)
    PROVE  LockInv' /\ RowInv' /\ HoldInv' /\ FenceInv'
<1>1. Holds(w, j) /\ HolderKnows(w, j)
  BY DEF Holds, Inv, HoldInv
<1>2. View(w, j).status = "processing"
  BY <1>1 DEF HolderKnows, Fresh
<1>3. /\ worker'[w].pc = "idle"
      /\ \A v \in Workers : v # w => worker'[v] = worker[v]
  BY DEF Idle, Inv, TypeOK
<1>4. ASSUME NEW v \in Workers, v # w, Holds(v, j)
      PROVE  ~(worker[v].pc = "claimed" \/ overruns = 0)
  <2>1. HolderKnows(v, j) /\ worker[v].loaded # worker[w].loaded
    BY <1>1, <1>4 DEF Inv, HoldInv, FenceInv
  <2>2. Unlocked(v, j) => View(v, j) = View(w, j)
    BY <1>4 DEF Unlocked, View
  <2> QED
    BY <2>1, <2>2 DEF HolderKnows, Fresh
<1>5. /\ LockInv' /\ RowInv'
      /\ \A v \in Workers, k \in Jobs : v # w /\ Holds(v, k)' => HolderKnows(v, k)'
  BY <1>2, <1>3, <1>4, WriteKeeps DEF Inv
<1>6. \A k \in Jobs : ~Holds(w, k)'
  BY <1>3 DEF Holds
<1>7. FenceInv'
  BY <1>3 DEF Inv, FenceInv, Holds
<1> QED
  BY <1>5, <1>6, <1>7 DEF HoldInv

\* complete_job settles a row that was processing: its bell entry and its event
\* are the first ones.
LEMMA CompleteKeeps ==
    ASSUME Inv, NEW w \in Workers, complete_job(w)
    PROVE  LockInv' /\ RowInv' /\ HoldInv' /\ FenceInv'
<1> DEFINE j == worker[w].job
           r == SettledAs(View(w, j), j, "completed", "jobCompleted")
<1>1. /\ worker[w].pc = "running" /\ Unlocked(w, j) /\ Fresh(w, j) /\ Write(w, j, r)
      /\ worker' = [worker EXCEPT ![w] = Idle] /\ saved' = saved /\ overruns' = overruns
  BY DEF complete_job, CanSettle, faults
<1>2. j \in Jobs
  BY <1>1 DEF Inv, TypeOK
<1>3. View(w, j) \in Record /\ RowOK(View(w, j), j)
  BY <1>2, ViewIsRecord DEF Inv, RowInv, View
<1>4. View(w, j).status = "processing"
  BY <1>1, <1>2 DEF Inv, HoldInv, Holds, HolderKnows, Fresh
<1>5. View(w, j).bell = "none" /\ View(w, j).feed = 0
  BY <1>3, <1>4 DEF RowOK, BellOf, Terminal
<1>6. /\ r \in Record /\ r.version = View(w, j).version /\ r.status = "completed"
      /\ r.feed = 1 /\ r.bell = IF j \in Requested THEN "jobCompleted" ELSE "none"
  BY <1>2, <1>3, <1>5, SettledFresh
<1> HIDE DEF r
<1>7. RowOK(r, j)
  BY <1>6 DEF RowOK, BellOf, Terminal
<1> HIDE DEF j
<1> QED
  BY <1>1, <1>2, <1>6, <1>7, SettleKeeps DEF j

\* fail_job parks such a row, with bell and event, or returns it to the queue
\* without them.
LEMMA FailKeeps ==
    ASSUME Inv, NEW w \in Workers, NEW permanent \in BOOLEAN, fail_job(w, permanent)
    PROVE  LockInv' /\ RowInv' /\ HoldInv' /\ FenceInv'
<1> DEFINE j == worker[w].job
           r == [View(w, j) EXCEPT !.attempts = @ + 1]
           s == SettledAs(r, j, "needsAttention", "jobFailed")
           t == [r EXCEPT !.status = "pending", !.lockedUntil = -1,
                          !.runAfter = retry_backoff(r.attempts)]
<1>1. /\ worker[w].pc = "running" /\ Unlocked(w, j) /\ Fresh(w, j)
      /\ Write(w, j, s) \/ Write(w, j, t)
      /\ worker' = [worker EXCEPT ![w] = Idle] /\ saved' = saved /\ overruns' = overruns
  BY DEF fail_job, CanSettle, faults
<1>2. j \in Jobs
  BY <1>1 DEF Inv, TypeOK
<1>3. View(w, j) \in Record /\ RowOK(View(w, j), j)
  BY <1>2, ViewIsRecord DEF Inv, RowInv, View
<1>4. View(w, j).status = "processing"
  BY <1>1, <1>2 DEF Inv, HoldInv, Holds, HolderKnows, Fresh
<1>5. /\ r \in Record /\ r.attempts \in Nat /\ r.version = View(w, j).version
      /\ r.bell = "none" /\ r.feed = 0
  <2>1. View(w, j).bell = "none" /\ View(w, j).feed = 0
    BY <1>3, <1>4 DEF RowOK, BellOf, Terminal
  <2> QED
    BY <1>3, <2>1 DEF Record
<1> HIDE DEF r
<1>6. /\ s \in Record /\ s.version = r.version /\ s.status = "needsAttention"
      /\ s.feed = 1 /\ s.bell = IF j \in Requested THEN "jobFailed" ELSE "none"
  BY <1>2, <1>5, SettledFresh
<1>7. t \in Record
  <2>1. retry_backoff(r.attempts) \in Int /\ -1 \in Int /\ "pending" \in JOB_STATUSES
    BY <1>5, BackoffIsNumber DEF JOB_STATUSES
  <2> QED
    BY <1>5, <2>1, WrittenRows
<1>8. t.version = r.version /\ t.status = "pending" /\ t.bell = "none" /\ t.feed = 0
  BY <1>5 DEF Record
<1> HIDE DEF s, t
<1>9. RowOK(s, j) /\ RowOK(t, j)
  BY <1>6, <1>8 DEF RowOK, BellOf, Terminal
<1> HIDE DEF j
<1>10. CASE Write(w, j, s)
  BY <1>1, <1>2, <1>5, <1>6, <1>9, <1>10, SettleKeeps DEF j
<1>11. CASE Write(w, j, t)
  BY <1>1, <1>2, <1>5, <1>7, <1>8, <1>9, <1>11, SettleKeeps DEF j
<1> QED
  BY <1>1, <1>10, <1>11

\* A commit publishes what the worker wrote: every rowVersion moves forward.
LEMMA CommitKeeps ==
    ASSUME Inv, NEW w \in Workers, HostCommits(w)
    PROVE  LockInv' /\ RowInv' /\ HoldInv' /\ FenceInv'
<1>1. /\ worker[w].pc \in {"idle", "claimed"}
      /\ draft' = draft /\ worker' = worker /\ overruns' = overruns
      /\ \A j \in Jobs :
            /\ owner[j] = w => saved'[j] = draft[j] /\ owner'[j] = NoWorker
            /\ owner[j] # w => saved'[j] = saved[j] /\ owner'[j] = owner[j]
  BY DEF HostCommits, faults, View
<1>2. NoWorker \notin Workers
  OBVIOUS
<1>3. LockInv'
  BY <1>1, <1>2 DEF Inv, LockInv
<1>4. RowInv'
  <2> SUFFICES ASSUME NEW j \in Jobs PROVE RowOK(saved'[j], j) /\ RowOK(draft'[j], j)
    BY DEF RowInv, RowOK, BellOf
  <2>1. RowOK(saved[j], j) /\ RowOK(draft[j], j)
    BY DEF Inv, RowInv
  <2> QED
    BY <1>1, <2>1
<1>5. ASSUME NEW v \in Workers, NEW j \in Jobs, Holds(v, j)' PROVE HolderKnows(v, j)'
  <2>1. Holds(v, j) /\ HolderKnows(v, j)
    BY <1>1, <1>5 DEF Holds, Inv, HoldInv
  <2>2. CASE owner[j] # w
    BY <1>1, <2>1, <2>2 DEF HolderKnows, View, Unlocked
  <2>3. CASE owner[j] = w /\ v = w
    <3>1. View(v, j) = draft[j] /\ View(v, j)' = draft[j] /\ owner'[j] = NoWorker
      BY <1>1, <1>2, <2>3 DEF View
    <3>2. saved'[j].status # "absent"
      BY <1>1, <1>2, <2>3 DEF Inv, LockInv
    <3> QED
      BY <1>1, <2>1, <2>3, <3>1, <3>2 DEF HolderKnows, Unlocked
  <2>4. CASE owner[j] = w /\ v # w
    <3>1. View(v, j) = saved[j] /\ View(v, j)' = draft[j] /\ ~Unlocked(v, j)
      BY <1>1, <1>2, <2>4 DEF View, Unlocked
    <3>2. worker[v].loaded < draft[j].version
      <4>1. /\ saved[j].version \in Nat /\ draft[j].version \in Nat /\ worker[v].loaded \in Nat
            /\ draft[j].version > saved[j].version
        BY <1>2, <2>4 DEF Inv, TypeOK, Record, LockInv
      <4> QED
        BY <2>1, <3>1, <4>1 DEF HolderKnows
    <3>3. draft[j].status # "absent" /\ draft[j].version \in Nat /\ worker[v].loaded \in Nat
      BY <1>2, <2>4 DEF Inv, LockInv, TypeOK, Record
    <3> QED
      BY <1>1, <2>1, <2>4, <3>1, <3>2, <3>3 DEF HolderKnows
  <2> QED
    BY <2>2, <2>3, <2>4
<1>6. FenceInv'
  BY <1>1 DEF Inv, FenceInv, Holds
<1> QED
  BY <1>3, <1>4, <1>5, <1>6 DEF HoldInv

\* A claimed job is still the worker's own, so reloading the row changes nothing.
LEMMA StartKeeps ==
    ASSUME Inv, NEW w \in Workers, StartHandler(w)
    PROVE  LockInv' /\ RowInv' /\ HoldInv' /\ FenceInv'
<1> DEFINE j == worker[w].job
<1>1. /\ worker[w].pc = "claimed" /\ j \in Jobs
      /\ worker' = [worker EXCEPT ![w].pc = "running", ![w].loaded = View(w, j).version]
      /\ saved' = saved /\ draft' = draft /\ owner' = owner /\ overruns' = overruns
  BY DEF StartHandler, faults, Inv, TypeOK
<1>2. HolderKnows(w, j) /\ worker[w].loaded = View(w, j).version
  BY <1>1 DEF Inv, HoldInv, Holds, HolderKnows
<1>3. /\ worker'[w].pc = "running" /\ worker'[w].job = j
      /\ worker'[w].loaded = worker[w].loaded
      /\ \A v \in Workers : v # w => worker'[v] = worker[v]
  BY <1>1, <1>2 DEF Inv, TypeOK
<1>4. LockInv' /\ RowInv'
  BY <1>1 DEF Inv, LockInv, RowInv, RowOK, BellOf
<1>5. ASSUME NEW v \in Workers, NEW k \in Jobs
      PROVE  (Holds(v, k)' <=> Holds(v, k)) /\ worker'[v].loaded = worker[v].loaded
  BY <1>1, <1>3 DEF Holds
<1>6. ASSUME NEW v \in Workers, NEW k \in Jobs, Holds(v, k)' PROVE HolderKnows(v, k)'
  <2>1. HolderKnows(v, k)
    BY <1>5, <1>6 DEF Inv, HoldInv
  <2> QED
    BY <1>1, <1>3, <1>5, <2>1 DEF HolderKnows, View, Unlocked
<1>7. FenceInv'
  BY <1>5 DEF Inv, FenceInv
<1> QED
  BY <1>4, <1>6, <1>7 DEF HoldInv

\* Time moves no status, version, bell or event; a lease that it ends under a
\* worker is counted as an overrun or a late start.
LEMMA TickKeeps ==
    ASSUME Inv, Tick, lateStarts = 0, lateStarts' = 0
    PROVE  LockInv' /\ RowInv' /\ HoldInv' /\ FenceInv'
<1>1. /\ owner' = owner /\ worker' = worker
      /\ \A j \in Jobs : saved'[j] = Later(saved[j]) /\ draft'[j] = Later(draft[j])
  BY DEF Tick
<1>2. \A j \in Jobs : saved[j] \in Record /\ draft[j] \in Record
  BY DEF Inv, TypeOK
<1>3. LockInv'
  BY <1>1, <1>2, LaterKeeps DEF Inv, LockInv
<1>4. RowInv'
  BY <1>1, <1>2, LaterKeeps DEF Inv, RowInv, RowOK, BellOf
<1>5. ASSUME NEW v \in Workers, NEW j \in Jobs, Holds(v, j)' PROVE HolderKnows(v, j)'
  <2>1. Holds(v, j) /\ HolderKnows(v, j)
    BY <1>1, <1>5 DEF Holds, Inv, HoldInv
  <2>2. View(v, j)' = Later(View(v, j)) /\ View(v, j) \in Record
    BY <1>1, <1>2 DEF View
  <2>3. /\ View(v, j)'.status = View(v, j).status /\ View(v, j)'.version = View(v, j).version
        /\ View(v, j).lockedUntil > 0 => View(v, j)'.lockedUntil >= 0
        /\ saved'[j].status = saved[j].status
    BY <1>1, <1>2, <2>2, LaterKeeps
  <2>4. /\ worker[v].pc = "claimed" => View(v, j).lockedUntil # 0
        /\ overruns' = 0 => overruns = 0 /\ (worker[v].pc = "running" => View(v, j).lockedUntil # 0)
    BY <2>1 DEF Tick, RunsOut, Holds, Inv, TypeOK
  <2>5. View(v, j).lockedUntil \in Int /\ worker[v].pc \in {"claimed", "running"}
    BY <2>1, <2>2 DEF Record, Holds, Inv, TypeOK
  <2> QED
    BY <1>1, <2>1, <2>3, <2>4, <2>5 DEF HolderKnows, Unlocked
<1>6. FenceInv'
  BY <1>1 DEF Inv, FenceInv, Holds
<1> QED
  BY <1>3, <1>4, <1>5, <1>6 DEF HoldInv

\* Every step of the queue keeps the invariant; lateStarts never goes back to 0.
LEMMA SafetyStep == SafetyInv /\ [Next]_vars => SafetyInv'
<1> SUFFICES ASSUME SafetyInv, [Next]_vars, lateStarts' = 0
             PROVE  LockInv' /\ RowInv' /\ HoldInv' /\ FenceInv'
  BY TypeStep DEF SafetyInv
<1>1. lateStarts = 0
  <2>1. CASE Tick
    BY <2>1 DEF SafetyInv, TypeOK, Tick
  <2>2. CASE UNCHANGED vars
    BY <2>2 DEF vars
  <2>3. ASSUME NEW w \in Workers,
               \/ claim_next_job(w) \/ HostCommits(w) \/ StartHandler(w)
               \/ complete_job(w) \/ fail_job(w, TRUE) \/ fail_job(w, FALSE)
               \/ StaleSettle(w) \/ HandlerBreaksSession(w) \/ Crash(w)
        PROVE  lateStarts' = lateStarts
    BY <2>3 DEF claim_next_job, HostCommits, StartHandler, complete_job, fail_job,
                StaleSettle, HandlerBreaksSession, Crash, faults
  <2>4. ASSUME NEW j \in Jobs, NEW delay \in {0, 1}, Enqueue(j, delay)
        PROVE  lateStarts' = lateStarts
    BY <2>4 DEF Enqueue, faults
  <2> QED
    BY <2>1, <2>2, <2>3, <2>4 DEF Next
<1>2. Inv
  BY <1>1 DEF SafetyInv, Inv
<1>3. ASSUME NEW w \in Workers, StaleSettle(w) \/ HandlerBreaksSession(w) \/ Crash(w)
      PROVE  LockInv' /\ RowInv' /\ HoldInv' /\ FenceInv'
  <2>1. Rollback(w) /\ saved' = saved /\ overruns' = overruns
    BY <1>3 DEF StaleSettle, HandlerBreaksSession, Crash, faults
  <2> QED
    BY <1>2, <2>1, RollbackKeeps DEF Inv
<1>4. CASE UNCHANGED vars
  BY <1>2, <1>4 DEF vars, Inv, LockInv, RowInv, HoldInv, FenceInv, HolderKnows, Holds,
                    View, Unlocked, RowOK, BellOf
<1>5. CASE Next
  BY <1>1, <1>2, <1>3, <1>5, EnqueueKeeps, ClaimKeeps, CommitKeeps, StartKeeps,
     CompleteKeeps, FailKeeps, TickKeeps DEF Next
<1> QED
  BY <1>4, <1>5

\* Locks, rowVersions, bell entries and events fit together in every state of the
\* queue, for every number of jobs and workers (worker.py as a whole).
THEOREM Safety == Spec => []SafetyInv
<1>1. Init => SafetyInv
  BY DEF Init, SafetyInv, TypeOK, NewRecord, Idle, Record, JOB_STATUSES, BellTypes, LockInv,
         RowInv, RowOK, BellOf, Terminal, HoldInv, FenceInv, Holds
<1> QED
  BY <1>1, SafetyStep, PTL DEF Spec

\* The bell and the committed row never disagree.
THEOREM BellCorrect == Spec => []BellMatchesRow
<1>1. SafetyInv => BellMatchesRow
  BY DEF SafetyInv, RowInv, RowOK, BellMatchesRow
<1> QED
  BY <1>1, Safety, PTL

\* A settled job has one feed event, an open one none.
THEOREM EventsCorrect == Spec => []OneEventPerSettledJob
<1>1. SafetyInv => OneEventPerSettledJob
  BY DEF SafetyInv, RowInv, RowOK, OneEventPerSettledJob
<1> QED
  BY <1>1, Safety, PTL

\* While no lease has run out under a busy worker, a job has one worker.
THEOREM NeverDoubleClaimed == Spec => []NoDoubleClaim
<1>1. SafetyInv => NoDoubleClaim
  <2> SUFFICES ASSUME SafetyInv, overruns + lateStarts = 0, NEW j \in Jobs,
                      NEW w1 \in Workers, NEW w2 \in Workers,
                      Holds(w1, j), Holds(w2, j), w1 # w2
               PROVE  FALSE
    BY DEF NoDoubleClaim
  <2>1. overruns = 0 /\ lateStarts = 0
    BY DEF SafetyInv, TypeOK
  <2>2. HolderKnows(w1, j) /\ HolderKnows(w2, j) /\ worker[w1].loaded # worker[w2].loaded
    BY <2>1 DEF SafetyInv, HoldInv, FenceInv
  <2> QED
    BY <2>1, <2>2 DEF HolderKnows, Unlocked, View
<1> QED
  BY <1>1, Safety, PTL

\* A settled job is never written again.
THEOREM SettledStaysSettled == Spec => SettledIsFinal
<1>1. SafetyInv /\ [Next]_vars =>
        [lateStarts = 0 => \A j \in Jobs : saved[j].status \in Terminal => saved'[j] = saved[j]]_vars
  <2> SUFFICES ASSUME SafetyInv, Next, lateStarts = 0, NEW j \in Jobs,
                      saved[j].status \in Terminal
               PROVE  saved'[j] = saved[j]
    OBVIOUS
  <2>1. saved[j] \in Record /\ owner[j] = NoWorker
    BY DEF SafetyInv, TypeOK, LockInv, Terminal
  <2>2. ASSUME NEW k \in Jobs, NEW delay \in {0, 1}, Enqueue(k, delay)
        PROVE  saved'[j] = saved[j]
    BY <2>2 DEF Enqueue, Terminal, SafetyInv, TypeOK
  <2>3. ASSUME NEW w \in Workers, HostCommits(w) PROVE saved'[j] = saved[j]
    BY <2>1, <2>3 DEF HostCommits, View
  <2>4. CASE Tick
    BY <2>1, <2>4, LaterKeeps DEF Tick
  <2> QED
    BY <2>2, <2>3, <2>4 DEF Next, claim_next_job, StartHandler, complete_job, fail_job,
                            StaleSettle, HandlerBreaksSession, Crash
<1> QED
  BY <1>1, Safety, PTL DEF Spec, SettledIsFinal
-----------------------------------------------------------------------------
(* The queue implements JobContract, step by step.                           *)

\* A commit that opens or settles no row is no step of the contract.
LEMMA SameForClients ==
    ASSUME TypeOK,
           \A j \in Jobs : /\ saved'[j].status = saved[j].status
                          /\ saved'[j].bell = saved[j].bell /\ saved'[j].feed = saved[j].feed
    PROVE  UNCHANGED Contract!vars
<1>1. \A j \in Jobs : ClientState(j)' = ClientState(j)
  BY DEF ClientState
<1> QED
  BY <1>1 DEF Contract!vars

\* Enqueueing a job is the contract's Enqueue.
LEMMA EnqueueRefines ==
    ASSUME SafetyInv, lateStarts = 0, NEW j \in Jobs, NEW delay \in {0, 1}, Enqueue(j, delay)
    PROVE  Contract!Enqueue(j)
<1>1. /\ saved[j].status = "absent" /\ saved[j].bell = "none" /\ saved[j].feed = 0
  BY DEF SafetyInv, RowInv, RowOK, BellOf, Terminal, Enqueue
<1>2. /\ saved'[j].status = "pending" /\ saved'[j].bell = "none" /\ saved'[j].feed = 0
      /\ \A k \in Jobs : k # j => saved'[k] = saved[k]
  BY DEF SafetyInv, TypeOK, Enqueue, NewRecord
<1>3. /\ ClientState(j) = "absent" /\ ClientState(j)' = "waiting"
      /\ \A k \in Jobs : k # j => ClientState(k)' = ClientState(k)
  BY <1>1, <1>2 DEF ClientState
<1>4. \A k \in Jobs : saved'[k].bell = saved[k].bell /\ saved'[k].feed = saved[k].feed
  BY <1>1, <1>2
<1> QED
  BY <1>3, <1>4 DEF Contract!Enqueue

\* A commit settles, in one step, the jobs whose rows it makes terminal.
LEMMA CommitRefines ==
    ASSUME SafetyInv, lateStarts = 0, NEW w \in Workers, HostCommits(w)
    PROVE  \E S \in SUBSET Jobs : Contract!Settle(S)
<1>1. PICK done \in SUBSET Jobs :
         done = {j \in Jobs : owner[j] = w /\ draft[j].status \in Terminal}
  OBVIOUS
<1>2. \A j \in Jobs : saved'[j] = IF owner[j] = w THEN draft[j] ELSE saved[j]
  BY DEF HostCommits, View
<1>3. ASSUME NEW j \in done
      PROVE  /\ ClientState(j) = "waiting" /\ saved'[j] = draft[j]
             /\ ClientState(j)' = draft[j].status /\ saved[j].bell = "none"
             /\ draft[j].feed = 1 /\ draft[j].bell = BellOf(draft[j], j)
  <2>1. /\ saved[j].status \in {"pending", "processing"} /\ saved'[j] = draft[j]
        /\ RowOK(saved[j], j) /\ RowOK(draft[j], j) /\ draft[j].status \in Terminal
    BY <1>1, <1>2, ConstantsAssumption DEF SafetyInv, LockInv, RowInv
  <2> QED
    BY <2>1 DEF ClientState, RowOK, BellOf, Terminal
<1>4. ASSUME NEW j \in Jobs, j \notin done
      PROVE  /\ ClientState(j)' = ClientState(j)
             /\ saved'[j].bell = saved[j].bell /\ saved'[j].feed = saved[j].feed
  <2>1. CASE owner[j] = w
    <3>1. /\ saved[j].status \in {"pending", "processing"} /\ saved'[j] = draft[j]
          /\ RowOK(saved[j], j) /\ RowOK(draft[j], j)
          /\ draft[j].status \in {"pending", "processing"}
      BY <1>1, <1>2, <1>4, <2>1, ConstantsAssumption
         DEF SafetyInv, TypeOK, Record, JOB_STATUSES, LockInv, RowInv, Terminal
    <3> QED
      BY <3>1 DEF ClientState, RowOK, BellOf, Terminal
  <2>2. CASE owner[j] # w
    BY <1>2, <2>2 DEF ClientState
  <2> QED
    BY <2>1, <2>2
<1>5. PICK r \in [done -> Contract!Terminal] : r = [j \in done |-> draft[j].status]
  BY <1>1 DEF Contract!Terminal, Terminal
<1>6. \A j \in done : ClientState(j)' = r[j] /\ ClientState(j) = "waiting"
  BY <1>3, <1>5
<1>7. \A j \in done : saved'[j].feed = 1
  BY <1>3, <1>5
<1>8. \A j \in done : saved'[j].bell = IF j \in Requested THEN Contract!Kind(r[j]) ELSE saved[j].bell
  BY <1>3, <1>5 DEF BellOf, Terminal, Contract!Kind, Contract!Terminal
<1>9. done \subseteq Contract!Waiting
  BY <1>6 DEF Contract!Waiting
<1>10. [j \in Jobs |-> ClientState(j)']
       = [j \in Jobs |-> IF j \in done THEN r[j] ELSE [k \in Jobs |-> ClientState(k)][j]]
  BY <1>4, <1>6
<1>11. [j \in Jobs |-> saved'[j].bell]
       = [j \in Jobs |-> IF j \in done \cap Requested THEN Contract!Kind(r[j])
                         ELSE [k \in Jobs |-> saved[k].bell][j]]
  BY <1>4, <1>8
<1>12. [j \in Jobs |-> saved'[j].feed]
       = [j \in Jobs |-> IF j \in done THEN 1 ELSE [k \in Jobs |-> saved[k].feed][j]]
  BY <1>4, <1>7
<1>13. Contract!Settle(done)
  BY <1>5, <1>9, <1>10, <1>11, <1>12 DEF Contract!Settle
<1> QED
  BY <1>13

\* Every step of the queue is a step of the contract or none that a client sees.
LEMMA StepRefines ==
    ASSUME SafetyInv, lateStarts = 0, [Next]_vars
    PROVE  [Contract!Next]_Contract!vars
<1>1. ASSUME NEW j \in Jobs, NEW delay \in {0, 1}, Enqueue(j, delay)
      PROVE  Contract!Next
  BY <1>1, EnqueueRefines DEF Contract!Next
<1>2. ASSUME NEW w \in Workers, HostCommits(w) PROVE Contract!Next
  BY <1>2, CommitRefines DEF Contract!Next
<1>3. CASE Tick
  <2>1. \A j \in Jobs : /\ saved'[j].status = saved[j].status
                        /\ saved'[j].bell = saved[j].bell /\ saved'[j].feed = saved[j].feed
    <3> SUFFICES ASSUME NEW j \in Jobs
                 PROVE  /\ saved'[j].status = saved[j].status
                        /\ saved'[j].bell = saved[j].bell /\ saved'[j].feed = saved[j].feed
      OBVIOUS
    <3>1. saved[j] \in Record /\ saved'[j] = Later(saved[j])
      BY <1>3 DEF Tick, SafetyInv, TypeOK
    <3> QED
      BY <3>1, LaterKeeps
  <2> QED
    BY <2>1, SameForClients DEF SafetyInv
<1>4. CASE saved' = saved
  BY <1>4, SameForClients DEF SafetyInv
<1> QED
  BY <1>1, <1>2, <1>3, <1>4
     DEF Next, vars, claim_next_job, StartHandler, complete_job, fail_job, StaleSettle,
         HandlerBreaksSession, Crash

\* The queue promises what JobContract says (worker.py's docstrings), but for the
\* fairness: a job is settled once, in one commit with its bell entry and its
\* event, as long as no lease runs out between a claim and the handler's start.
THEOREM ContractImplemented == MaxLateStarts = 0 => (Spec => Contract!Spec)
<1> SUFFICES ASSUME MaxLateStarts = 0 PROVE Spec => Contract!Spec
  OBVIOUS
<1>1. Init => Contract!Init
  <2> SUFFICES ASSUME Init PROVE Contract!Init
    OBVIOUS
  <2>1. \A j \in Jobs : /\ ClientState(j) = "absent"
                        /\ saved[j].bell = "none" /\ saved[j].feed = 0
    BY DEF Init, NewRecord, ClientState
  <2> QED
    BY <2>1 DEF Contract!Init
<1>2. Init => lateStarts = 0
  BY DEF Init
<1>3. lateStarts = 0 /\ [Next]_vars => (lateStarts = 0)'
  <2>1. lateStarts = 0 /\ Tick => lateStarts' = 0
    BY DEF Tick, MayFail
  <2> QED
    BY <2>1 DEF Next, vars, faults, Enqueue, claim_next_job, HostCommits, StartHandler,
                complete_job, fail_job, StaleSettle, HandlerBreaksSession, Crash
<1>4. lateStarts = 0 /\ SafetyInv /\ [Next]_vars => [Contract!Next]_Contract!vars
  BY StepRefines
<1> QED
  BY <1>1, <1>2, <1>3, <1>4, Safety, PTL DEF Spec, Contract!Spec
-----------------------------------------------------------------------------
(* How often a handler starts.  This invariant also holds when leases ran out *)
(* between a claim and its start.                                             *)

Faults == crashes + dbErrors + overruns + lateStarts

\* A locked row is enqueued, and its lock holder has moved rowVersion on.
OwnInv ==
    \A j \in Jobs :
        /\ owner[j] = NoWorker => draft[j] = saved[j]
        /\ owner[j] # NoWorker =>
              /\ draft[j].version > saved[j].version
              /\ saved[j].status # "absent" /\ draft[j].status # "absent"

\* An open row has attempts left, a row not enqueued yet has had none.
RoomOK(r) ==
    /\ r.status \in {"pending", "processing"} => r.attempts < MaxAttempts
    /\ r.status = "absent" => r.attempts = 0

RoomInv == \A j \in Jobs : RoomOK(saved[j]) /\ RoomOK(draft[j])

\* A worker at a job either still has its claim uncommitted, and then it has the
\* row's rowVersion, or has committed everything it wrote: a stale settle, which
\* rolls the transaction back, forgets no attempt.
StandsOK(w, j) ==
    /\ saved[j].status # "absent"
    /\ owner[j] = w => worker[w].loaded = draft[j].version
    /\ owner[j] # w => /\ worker[w].loaded <= saved[j].version
                       /\ \A k \in Jobs : owner[k] # w

StandInv == \A w \in Workers : \A j \in Jobs : Holds(w, j) => StandsOK(w, j)

\* What row r accounts for: the attempts it counts, and one start more while a
\* lease is live or when it completed with attempts left.
Live(r) == r.status = "processing" /\ r.lockedUntil >= 0
Spent(r) == r.status = "completed" /\ r.attempts < MaxAttempts
Counted(r) == IF r.attempts < MaxAttempts THEN r.attempts ELSE MaxAttempts
Bit(b) == IF b THEN 1 ELSE 0
Budget(r) == Counted(r) + Bit(Live(r) \/ Spent(r))

\* The workers about to start j's handler; whether somebody can still settle j.
Claimed(j) == {w \in Workers : worker[w].pc = "claimed" /\ worker[w].job = j}
Current(j) == \E w \in Workers : Holds(w, j) /\ worker[w].loaded = draft[j].version

\* Every start, and every one about to happen, is an attempt the row counts, the
\* one its live lease or its completion stands for, or lost to a fault.  A live
\* lease nobody can settle any more is a start already lost to a crash.
CountOK(j) ==
    starts[j] + Cardinality(Claimed(j)) + Bit(Live(draft[j]) /\ ~Current(j))
        <= Budget(draft[j]) + MaxAttempts * Faults

StartsInv ==
    TypeOK /\ OwnInv /\ RoomInv /\ StandInv /\ \A j \in Jobs : CountOK(j)

\* The claims on a job can be counted.
LEMMA ClaimsAreFinite ==
    ASSUME NEW S \in SUBSET Workers
    PROVE  IsFiniteSet(S) /\ Cardinality(S) \in Nat
  BY FS_Subset, FS_CardinalityType

\* Fewer claims are no more claims.
LEMMA FewerClaims ==
    ASSUME NEW S \in SUBSET Workers, NEW T \in SUBSET S
    PROVE  Cardinality(T) <= Cardinality(S)
  BY ClaimsAreFinite, FS_Subset

\* A row accounts for at most MaxAttempts starts.
LEMMA BudgetBound ==
    ASSUME NEW r \in Record, RoomOK(r)
    PROVE  Budget(r) \in Nat /\ Counted(r) \in Nat /\ Budget(r) <= MaxAttempts
  BY DEF RoomOK, Budget, Counted, Bit, Live, Spent, Record

\* One fault more pays for MaxAttempts starts.
LEMMA FaultPays ==
    ASSUME NEW m \in Nat, NEW f \in Nat, NEW g \in Nat, g >= f + 1
    PROVE  m * f \in Nat /\ m * g \in Nat /\ m * f + m <= m * g
<1> DEFINE d == g - f - 1
<1>1. d \in Nat /\ g = f + 1 + d
  OBVIOUS
<1> HIDE DEF d
<1>2. m * d \in Nat /\ m * f \in Nat
  BY <1>1
<1>3. m * (f + 1 + d) = m * f + m + m * d
  BY <1>1
<1> QED
  BY <1>1, <1>2, <1>3

\* No step that leaves the starts alone and adds no claim breaks the account of
\* a job whose row accounts for no less, unless it ends who could settle it.
LEMMA CountStands ==
    ASSUME TypeOK, TypeOK', NEW j \in Jobs, CountOK(j), starts'[j] = starts[j],
           Claimed(j)' \subseteq Claimed(j), Faults' = Faults,
           RoomOK(draft[j]), RoomOK(draft'[j]),
           Budget(draft'[j]) >= Budget(draft[j]),
           Live(draft'[j]) /\ ~Current(j)' => Live(draft[j]) /\ ~Current(j)
    PROVE  CountOK(j)'
<1> DEFINE n == Cardinality(Claimed(j))
           m == Cardinality(Claimed(j)')
           f == MaxAttempts * Faults
<1>1. n \in Nat /\ m \in Nat /\ m <= n
  <2>1. Claimed(j) \in SUBSET Workers /\ Claimed(j)' \in SUBSET Workers
    BY DEF Claimed
  <2> QED
    BY <2>1, ClaimsAreFinite, FewerClaims
<1>2. f \in Nat
  <2>1. Faults \in Nat
    BY DEF Faults, TypeOK
  <2> QED
    BY <2>1
<1>3. starts[j] \in Nat /\ Budget(draft[j]) \in Nat /\ Budget(draft'[j]) \in Nat
  BY BudgetBound DEF TypeOK
<1>4. starts[j] + n + Bit(Live(draft[j]) /\ ~Current(j)) <= Budget(draft[j]) + f
  BY DEF CountOK
<1> HIDE DEF n, m, f
<1>5. starts[j] + m + Bit(Live(draft'[j]) /\ ~Current(j)') <= Budget(draft'[j]) + f
  BY <1>1, <1>2, <1>3, <1>4 DEF Bit
<1> QED
  BY <1>5 DEF m, f, CountOK, Bit, Live, Budget, Counted, Spent

\* A counted fault pays for whatever a step without a start forgets.
LEMMA FaultCounts ==
    ASSUME TypeOK, TypeOK', NEW j \in Jobs, CountOK(j), starts'[j] = starts[j],
           Claimed(j)' \subseteq Claimed(j), Faults' >= Faults + 1,
           RoomOK(draft[j]), RoomOK(draft'[j])
    PROVE  CountOK(j)'
<1> DEFINE n == Cardinality(Claimed(j))
           m == Cardinality(Claimed(j)')
           f == MaxAttempts * Faults
           g == MaxAttempts * Faults'
<1>1. n \in Nat /\ m \in Nat /\ m <= n
  <2>1. Claimed(j) \in SUBSET Workers /\ Claimed(j)' \in SUBSET Workers
    BY DEF Claimed
  <2> QED
    BY <2>1, ClaimsAreFinite, FewerClaims
<1>2. f \in Nat /\ g \in Nat /\ f + MaxAttempts <= g
  <2>1. Faults \in Nat /\ Faults' \in Nat
    BY DEF Faults, TypeOK
  <2> QED
    BY <2>1, FaultPays
<1>3. /\ starts[j] \in Nat /\ Budget(draft[j]) \in Nat /\ Budget(draft[j]) <= MaxAttempts
      /\ Budget(draft'[j]) \in Nat
  BY BudgetBound DEF TypeOK
<1>4. starts[j] + n + Bit(Live(draft[j]) /\ ~Current(j)) <= Budget(draft[j]) + f
  BY DEF CountOK
<1>5. Bit(Live(draft'[j]) /\ ~Current(j)') <= Budget(draft'[j])
  <2>1. draft'[j] \in Record
    BY DEF TypeOK
  <2> QED
    BY <2>1, BudgetBound DEF Bit, Budget
<1>6. Bit(Live(draft[j]) /\ ~Current(j)) \in Nat /\ Bit(Live(draft'[j]) /\ ~Current(j)') \in Nat
  BY DEF Bit
<1> HIDE DEF n, m, f, g
<1>7. starts[j] + m + Bit(Live(draft'[j]) /\ ~Current(j)') <= Budget(draft'[j]) + g
  BY <1>1, <1>2, <1>3, <1>4, <1>5, <1>6
<1> QED
  BY <1>7 DEF m, g, CountOK, Bit, Live, Budget, Counted, Spent

\* A worker that writes a row it may write keeps what the others stand on.
LEMMA WriteStands ==
    ASSUME TypeOK, OwnInv, RoomInv, StandInv,
           NEW w \in Workers, NEW j \in Jobs, NEW r \in Record,
           Write(w, j, r), saved' = saved,
           \A v \in Workers : v # w => worker'[v] = worker[v],
           Unlocked(w, j), saved[j].status # "absent",
           r.version = View(w, j).version, r.status # "absent", RoomOK(r)
    PROVE  /\ OwnInv' /\ RoomInv'
           /\ \A v \in Workers, k \in Jobs : v # w /\ Holds(v, k)' => StandsOK(v, k)'
<1>0. /\ draft'[j].version = r.version + 1 /\ owner'[j] = w
      /\ draft'[j].status = r.status /\ draft'[j].attempts = r.attempts
      /\ \A k \in Jobs : k # j => draft'[k] = draft[k] /\ owner'[k] = owner[k]
  BY Bumped, SMTT(20)
<1>1. NoWorker \notin Workers /\ owner[j] \in {NoWorker, w}
  BY DEF Unlocked
<1>2. saved[j].version \in Nat /\ draft[j].version \in Nat /\ r.version \in Nat
  BY DEF TypeOK, Record
<1>3. draft'[j].version > saved[j].version
  <2>1. CASE owner[j] = NoWorker
    BY <1>0, <1>1, <1>2, <2>1 DEF View
  <2>2. CASE owner[j] = w
    BY <1>0, <1>1, <1>2, <2>2 DEF OwnInv, View
  <2> QED
    BY <1>1, <2>1, <2>2
<1>4. OwnInv'
  BY <1>0, <1>1, <1>3 DEF OwnInv
<1>5. RoomInv'
  <2>1. RoomOK(draft'[j])
    BY <1>0 DEF RoomOK
  <2>2. ASSUME NEW k \in Jobs PROVE RoomOK(draft'[k]) /\ RoomOK(saved'[k])
    <3>1. CASE k = j
      BY <2>1, <3>1 DEF RoomInv
    <3>2. CASE k # j
      BY <1>0, <3>2 DEF RoomInv
    <3> QED
      BY <3>1, <3>2
  <2> QED
    BY <2>2 DEF RoomInv, RoomOK
<1>6. ASSUME NEW v \in Workers, NEW k \in Jobs, v # w, Holds(v, k)' PROVE StandsOK(v, k)'
  <2>1. worker'[v] = worker[v] /\ StandsOK(v, k)
    BY <1>6 DEF Holds, StandInv
  <2> QED
    BY <1>0, <1>1, <1>6, <2>1 DEF StandsOK
<1> QED
  BY <1>4, <1>5, <1>6

\* A claim finds a row whose lease is over or that is pending: the start it is
\* about to make is the one its own lease stands for.
LEMMA ClaimCounts ==
    ASSUME StartsInv, TypeOK', NEW w \in Workers, claim_next_job(w)
    PROVE  OwnInv' /\ RoomInv' /\ StandInv' /\ \A j \in Jobs : CountOK(j)'
<1>1. PICK j \in Claimable(w) :
        /\ Write(w, j, [View(w, j) EXCEPT !.status = "processing", !.lockedUntil = Lease])
        /\ worker' = [worker EXCEPT ![w] =
                         [pc |-> "claimed", job |-> j, loaded |-> View(w, j).version + 1]]
  BY DEF claim_next_job
<1> DEFINE r == [View(w, j) EXCEPT !.status = "processing", !.lockedUntil = Lease]
<1>2. j \in Jobs /\ Unlocked(w, j) /\ Due(View(w, j))
  BY DEF Claimable
<1>3. View(w, j) \in Record /\ View(w, j) = draft[j]
  BY <1>2, ViewIsRecord DEF StartsInv, OwnInv, Unlocked, View
<1>4. r \in Record
  <2>1. Lease \in Int /\ "processing" \in JOB_STATUSES
    BY DEF JOB_STATUSES
  <2> QED
    BY <1>3, <2>1, WrittenRows
<1>5. /\ r.status = "processing" /\ r.version = draft[j].version
      /\ r.lockedUntil = Lease /\ r.attempts = draft[j].attempts
  BY <1>3 DEF Record
<1>6. Write(w, j, r)
  BY <1>1
<1> HIDE DEF r
<1>7. draft[j].status \in {"pending", "processing"} /\ ~Live(draft[j]) /\ ~Spent(draft[j])
  BY <1>2, <1>3 DEF Due, Live, Spent, Record
<1>8. RoomOK(r) /\ saved[j].status # "absent"
  BY <1>2, <1>5, <1>7 DEF StartsInv, RoomInv, RoomOK, OwnInv
<1>9. /\ worker[w].pc = "idle" /\ saved' = saved /\ starts' = starts /\ Faults' = Faults
      /\ \A v \in Workers : v # w => worker'[v] = worker[v]
  BY <1>1 DEF claim_next_job, faults, Faults, StartsInv, TypeOK
<1>10. worker'[w] = [pc |-> "claimed", job |-> j, loaded |-> draft[j].version + 1]
  BY <1>1, <1>3 DEF StartsInv, TypeOK
<1>11. /\ OwnInv' /\ RoomInv'
       /\ \A v \in Workers, k \in Jobs : v # w /\ Holds(v, k)' => StandsOK(v, k)'
  BY <1>2, <1>3, <1>4, <1>5, <1>6, <1>8, <1>9, WriteStands DEF StartsInv
<1>12. /\ draft'[j].version = draft[j].version + 1 /\ draft'[j].status = "processing"
       /\ draft'[j].lockedUntil = Lease /\ draft'[j].attempts = draft[j].attempts
       /\ owner'[j] = w /\ \A k \in Jobs : k # j => draft'[k] = draft[k]
  BY <1>2, <1>4, <1>5, <1>6, Bumped DEF StartsInv
<1>13. StandInv'
  <2>1. ASSUME NEW k \in Jobs, Holds(w, k)' PROVE StandsOK(w, k)'
    BY <1>8, <1>9, <1>10, <1>12, <2>1 DEF Holds, StandsOK
  <2> QED
    BY <1>11, <2>1 DEF StandInv
<1>14. ASSUME NEW k \in Jobs, k # j PROVE CountOK(k)'
  <2>1. Claimed(k)' = Claimed(k)
    BY <1>9, <1>10, <1>14 DEF Claimed
  <2>2. Current(k) => Current(k)'
    BY <1>9, <1>12, <1>14 DEF Current, Holds
  <2>3. /\ draft'[k] = draft[k] /\ starts'[k] = starts[k] /\ RoomOK(draft[k]) /\ CountOK(k)
        /\ Budget(draft[k]) \in Nat
    BY <1>9, <1>12, <1>14, BudgetBound DEF StartsInv, RoomInv, TypeOK
  <2> QED
    BY <1>9, <2>1, <2>2, <2>3, CountStands DEF StartsInv
<1>15. CountOK(j)'
  <2> DEFINE n == Cardinality(Claimed(j))
             m == Cardinality(Claimed(j)')
             f == MaxAttempts * Faults
  <2>1. n \in Nat /\ m = n + 1
    <3>1. Claimed(j) \in SUBSET Workers /\ Claimed(j)' = Claimed(j) \cup {w} /\ w \notin Claimed(j)
      BY <1>9, <1>10 DEF Claimed
    <3> QED
      BY <3>1, ClaimsAreFinite, FS_AddElement
  <2>2. starts[j] \in Nat /\ f \in Int /\ Counted(draft[j]) \in Nat
    <3>1. Faults \in Nat /\ starts[j] \in Nat
      BY <1>2 DEF Faults, StartsInv, TypeOK
    <3>2. Counted(draft[j]) \in Nat
      BY <1>2, <1>3, BudgetBound DEF StartsInv, RoomInv
    <3> QED
      BY <3>1, <3>2
  <2>3. starts[j] + n <= Counted(draft[j]) + f
    BY <1>2, <1>7, <2>1, <2>2 DEF StartsInv, CountOK, Budget, Bit
  <2>4. Live(draft'[j]) /\ Counted(draft'[j]) = Counted(draft[j]) /\ Current(j)'
    <3>1. Live(draft'[j]) /\ Counted(draft'[j]) = Counted(draft[j])
      BY <1>12 DEF Live, Counted
    <3>2. Current(j)'
      BY <1>10, <1>12 DEF Current, Holds
    <3> QED
      BY <3>1, <3>2
  <2> HIDE DEF n, m, f
  <2>5. starts[j] + m + 0 <= Counted(draft'[j]) + 1 + f
    BY <2>1, <2>2, <2>3, <2>4
  <2>6. Bit(Live(draft'[j]) \/ Spent(draft'[j])) = 1 /\ Bit(Live(draft'[j]) /\ ~Current(j)') = 0
    BY <2>4 DEF Bit
  <2>7. starts[j] + m + Bit(Live(draft'[j]) /\ ~Current(j)') <= Budget(draft'[j]) + f
    BY <2>5, <2>6 DEF Budget
  <2> QED
    BY <1>9, <2>7 DEF m, f, CountOK, Bit, Live, Budget, Counted, Spent
<1> QED
  BY <1>11, <1>13, <1>14, <1>15

\* Starting the handler turns the claim into the start; reloading the row does
\* not end who could settle it.
LEMMA StartCounts ==
    ASSUME StartsInv, TypeOK', NEW w \in Workers, StartHandler(w)
    PROVE  OwnInv' /\ RoomInv' /\ StandInv' /\ \A j \in Jobs : CountOK(j)'
<1>0. PICK j \in Jobs : j = worker[w].job
  BY DEF StartHandler, StartsInv, TypeOK
<1>1. /\ worker[w].pc = "claimed" /\ worker[w].job = j
      /\ worker' = [worker EXCEPT ![w].pc = "running", ![w].loaded = View(w, j).version]
      /\ starts' = [starts EXCEPT ![j] = @ + 1]
      /\ saved' = saved /\ draft' = draft /\ owner' = owner /\ Faults' = Faults
  BY <1>0 DEF StartHandler, faults, Faults
<1>2. /\ worker'[w].pc = "running" /\ worker'[w].job = j
      /\ worker'[w].loaded = View(w, j).version
      /\ \A v \in Workers : v # w => worker'[v] = worker[v]
  BY <1>1 DEF StartsInv, TypeOK
<1>3. StandsOK(w, j)
  BY <1>1 DEF StartsInv, StandInv, Holds
<1>4. OwnInv' /\ RoomInv'
  BY <1>1 DEF StartsInv, OwnInv, RoomInv, RoomOK
<1>5. \A v \in Workers : \A k \in Jobs : Holds(v, k)' <=> Holds(v, k)
  BY <1>1, <1>2 DEF Holds
<1>6. StandInv'
  <2> SUFFICES ASSUME NEW v \in Workers, NEW k \in Jobs, Holds(v, k)' PROVE StandsOK(v, k)'
    BY DEF StandInv
  <2>1. StandsOK(v, k)
    BY <1>5 DEF StartsInv, StandInv
  <2>2. CASE v = w
    <3>1. k = j /\ saved[j].version \in Nat
      BY <1>1, <1>2, <2>2 DEF Holds, StartsInv, TypeOK, Record
    <3> QED
      BY <1>1, <1>2, <1>3, <2>2, <3>1 DEF StandsOK, View
  <2>3. CASE v # w
    BY <1>1, <1>2, <2>1, <2>3 DEF StandsOK
  <2> QED
    BY <2>2, <2>3
<1>7. worker[w].loaded = draft[j].version => worker'[w].loaded = draft[j].version
  <2>1. saved[j].version \in Nat /\ draft[j].version \in Nat /\ worker[w].loaded \in Nat
    BY <1>1 DEF StartsInv, TypeOK, Record
  <2>2. CASE owner[j] = w
    BY <1>2, <2>2 DEF View
  <2>3. CASE owner[j] = NoWorker
    BY <1>1, <1>2, <2>3 DEF View, StartsInv, OwnInv
  <2>4. CASE owner[j] # w /\ owner[j] # NoWorker
    BY <1>1, <1>3, <2>1, <2>4 DEF StandsOK, StartsInv, OwnInv
  <2> QED
    BY <2>2, <2>3, <2>4
<1>8. ASSUME NEW k \in Jobs, Current(k) PROVE Current(k)'
  <2>1. PICK v \in Workers : Holds(v, k) /\ worker[v].loaded = draft[k].version
    BY <1>8 DEF Current
  <2>2. v = w => k = j
    BY <1>1, <2>1 DEF Holds
  <2>3. Holds(v, k)' /\ worker'[v].loaded = draft'[k].version
    BY <1>1, <1>2, <1>5, <1>7, <2>1, <2>2
  <2> QED
    BY <2>3 DEF Current
<1>9. ASSUME NEW k \in Jobs, k # j PROVE CountOK(k)'
  <2>1. Claimed(k)' = Claimed(k) /\ starts'[k] = starts[k]
    BY <1>1, <1>2, <1>9 DEF Claimed, StartsInv, TypeOK
  <2>2. draft'[k] = draft[k] /\ RoomOK(draft[k]) /\ CountOK(k) /\ Budget(draft[k]) \in Nat
    BY <1>1, <1>9, BudgetBound DEF StartsInv, RoomInv, TypeOK
  <2> QED
    BY <1>1, <1>8, <2>1, <2>2, CountStands DEF StartsInv
<1>10. CountOK(j)'
  <2> DEFINE n == Cardinality(Claimed(j))
             m == Cardinality(Claimed(j)')
             f == MaxAttempts * Faults
             b == Bit(Live(draft[j]) /\ ~Current(j))
             c == Bit(Live(draft[j]) /\ ~Current(j)')
  <2>1. m \in Nat /\ n = m + 1
    <3>1. /\ Claimed(j) \in SUBSET Workers /\ Claimed(j)' = Claimed(j) \ {w}
          /\ w \in Claimed(j) /\ Claimed(j)' \in SUBSET Workers
      BY <1>1, <1>2 DEF Claimed
    <3> QED
      BY <3>1, ClaimsAreFinite, FS_RemoveElement
  <2>2. starts[j] \in Nat /\ starts'[j] = starts[j] + 1
    BY <1>1 DEF StartsInv, TypeOK
  <2>3. starts[j] + n + b <= Budget(draft[j]) + f
    BY <1>1 DEF StartsInv, CountOK
  <2>4. c <= b /\ b \in Nat /\ c \in Nat
    BY <1>1, <1>8 DEF Bit
  <2>5. Budget(draft[j]) \in Nat /\ f \in Int
    <3>1. Faults \in Nat
      BY DEF Faults, StartsInv, TypeOK
    <3>2. Budget(draft[j]) \in Nat
      BY <1>1, BudgetBound DEF StartsInv, RoomInv, TypeOK
    <3> QED
      BY <3>1, <3>2
  <2> HIDE DEF n, m, f, b, c
  <2>6. starts'[j] + m + c <= Budget(draft[j]) + f
    BY <2>1, <2>2, <2>3, <2>4, <2>5
  <2> QED
    BY <1>1, <2>6 DEF m, f, c, CountOK, Bit, Live, Budget, Counted, Spent
<1> QED
  BY <1>4, <1>6, <1>9, <1>10

\* A settling worker takes its own start off the lease or writes it down.
LEMMA SettleCounts ==
    ASSUME StartsInv, TypeOK', NEW w \in Workers, NEW j \in Jobs, NEW r \in Record,
           worker[w].pc = "running", worker[w].job = j, Unlocked(w, j), Write(w, j, r),
           worker' = [worker EXCEPT ![w] = Idle], saved' = saved, starts' = starts,
           Faults' = Faults, r.version = draft[j].version,
           r.status \in {"pending", "completed", "needsAttention"}, RoomOK(r),
           Budget(r) >= Budget(draft[j])
    PROVE  OwnInv' /\ RoomInv' /\ StandInv' /\ \A k \in Jobs : CountOK(k)'
<1>1. /\ worker'[w].pc = "idle"
      /\ \A v \in Workers : v # w => worker'[v] = worker[v]
  BY DEF Idle, StartsInv, TypeOK
<1>2. View(w, j) = draft[j] /\ saved[j].status # "absent"
  BY DEF StartsInv, OwnInv, StandInv, Holds, StandsOK, Unlocked, View
<1>3. /\ OwnInv' /\ RoomInv'
      /\ \A v \in Workers, k \in Jobs : v # w /\ Holds(v, k)' => StandsOK(v, k)'
  BY <1>1, <1>2, WriteStands DEF StartsInv
<1>4. StandInv'
  <2>1. \A k \in Jobs : ~Holds(w, k)'
    BY <1>1 DEF Holds
  <2> QED
    BY <1>3, <2>1 DEF StandInv
<1>5. /\ draft'[j].status = r.status /\ draft'[j].attempts = r.attempts
      /\ draft'[j].lockedUntil = r.lockedUntil
      /\ \A k \in Jobs : k # j => draft'[k] = draft[k]
  BY Bumped, SMTT(20) DEF StartsInv
<1>6. \A k \in Jobs : Claimed(k)' = Claimed(k)
  BY <1>1 DEF Claimed
<1>7. ASSUME NEW k \in Jobs PROVE CountOK(k)'
  <2>1. CountOK(k) /\ RoomOK(draft[k]) /\ RoomOK(draft'[k]) /\ starts'[k] = starts[k]
    BY <1>3 DEF StartsInv, RoomInv, RoomOK
  <2>2. CASE k = j
    <3>1. ~Live(draft'[k]) /\ Budget(draft'[k]) = Budget(r)
      BY <1>5, <2>2 DEF Live, Budget, Counted, Spent
    <3> QED
      BY <1>6, <2>1, <2>2, <3>1, CountStands DEF StartsInv
  <2>3. CASE k # j
    <3>1. draft'[k] = draft[k] /\ Budget(draft[k]) \in Nat
      BY <1>5, <2>1, <2>3, BudgetBound DEF StartsInv, TypeOK
    <3>2. Current(k) => Current(k)'
      BY <1>1, <2>3, <3>1 DEF Current, Holds
    <3> QED
      BY <1>6, <2>1, <3>1, <3>2, CountStands DEF StartsInv
  <2> QED
    BY <2>2, <2>3
<1> QED
  BY <1>3, <1>4, <1>7

\* Neither transition counts an attempt of its own.
LEMMA SettledRows ==
    ASSUME NEW r \in Record, NEW j \in Jobs
    PROVE  LET done == SettledAs(r, j, "completed", "jobCompleted")
               parked == SettledAs(r, j, "needsAttention", "jobFailed")
           IN  /\ done \in Record /\ parked \in Record
               /\ done.version = r.version /\ parked.version = r.version
               /\ done.status = "completed" /\ parked.status = "needsAttention"
               /\ done.attempts = r.attempts /\ parked.attempts = r.attempts
<1> DEFINE done == SettledAs(r, j, "completed", "jobCompleted")
           parked == SettledAs(r, j, "needsAttention", "jobFailed")
<1>1. done \in Record /\ parked \in Record
  BY SettledAsFits DEF Terminal
<1>2. done.status = "completed" /\ parked.status = "needsAttention"
  BY SettledAsFits DEF Terminal
<1>3. done.version = r.version /\ parked.version = r.version
  BY SettledAsFits DEF Terminal
<1>4. ASSUME NEW status, NEW kind PROVE SettledAs(r, j, status, kind).attempts = r.attempts
  <2> DEFINE n == Notify(r, j, kind)
  <2>1. n.attempts = r.attempts
    BY DEF Notify, Record
  <2> HIDE DEF n
  <2>2. SettledAs(r, j, status, kind)
            = [n EXCEPT !.status = status, !.lockedUntil = -1, !.feed = @ + 1]
    BY DEF SettledAs, n
  <2> QED
    BY <2>1, <2>2
<1>5. done.attempts = r.attempts /\ parked.attempts = r.attempts
  BY <1>4
<1> HIDE DEF done, parked
<1> QED
  BY <1>1, <1>2, <1>3, <1>5 DEF done, parked

\* A completion with attempts left stands for its start; a late one of a parked
\* job is paid for by the lease that ran out before it.
LEMMA CompleteCounts ==
    ASSUME StartsInv, TypeOK', NEW w \in Workers, complete_job(w)
    PROVE  OwnInv' /\ RoomInv' /\ StandInv' /\ \A k \in Jobs : CountOK(k)'
<1> DEFINE j == worker[w].job
           r == SettledAs(View(w, j), j, "completed", "jobCompleted")
<1>1. /\ worker[w].pc = "running" /\ Unlocked(w, j) /\ Write(w, j, r)
      /\ worker' = [worker EXCEPT ![w] = Idle] /\ saved' = saved /\ starts' = starts
      /\ Faults' = Faults
  BY DEF complete_job, CanSettle, faults, Faults
<1>2. j \in Jobs
  BY <1>1 DEF StartsInv, TypeOK
<1>3. View(w, j) = draft[j] /\ draft[j] \in Record /\ RoomOK(draft[j])
  BY <1>1, <1>2 DEF StartsInv, OwnInv, RoomInv, Unlocked, View, TypeOK
<1>4. r \in Record /\ r.version = draft[j].version /\ r.status = "completed"
      /\ r.attempts = draft[j].attempts
  <2>1. View(w, j) \in Record
    BY <1>3
  <2>2. /\ r \in Record /\ r.version = View(w, j).version /\ r.status = "completed"
        /\ r.attempts = View(w, j).attempts
    BY <1>2, <2>1, SettledRows
  <2> QED
    BY <1>3, <2>2
<1> HIDE DEF r
<1>5. RoomOK(r)
  BY <1>4 DEF RoomOK
<1>6. Budget(r) >= Budget(draft[j])
  <2>1. draft[j].attempts \in Nat
    BY <1>3 DEF Record
  <2> QED
    BY <1>3, <1>4, <2>1 DEF Budget, Counted, Bit, Live, Spent, RoomOK
<1> HIDE DEF j
<1> QED
  BY <1>1, <1>2, <1>4, <1>5, <1>6, SettleCounts DEF j

\* A failure is an attempt, which the row counts from here on.
LEMMA FailCounts ==
    ASSUME StartsInv, TypeOK', NEW w \in Workers, NEW permanent \in BOOLEAN,
           fail_job(w, permanent)
    PROVE  OwnInv' /\ RoomInv' /\ StandInv' /\ \A k \in Jobs : CountOK(k)'
<1> DEFINE j == worker[w].job
           r == [View(w, j) EXCEPT !.attempts = @ + 1]
           parked == permanent \/ r.attempts >= MaxAttempts
           s == SettledAs(r, j, "needsAttention", "jobFailed")
           t == [r EXCEPT !.status = "pending", !.lockedUntil = -1,
                          !.runAfter = retry_backoff(r.attempts)]
<1>1. /\ worker[w].pc = "running" /\ Unlocked(w, j)
      /\ IF parked THEN Write(w, j, s) ELSE Write(w, j, t)
      /\ worker' = [worker EXCEPT ![w] = Idle] /\ saved' = saved /\ starts' = starts
      /\ Faults' = Faults
  BY DEF fail_job, CanSettle, faults, Faults
<1>2. j \in Jobs
  BY <1>1 DEF StartsInv, TypeOK
<1>3. View(w, j) = draft[j] /\ draft[j] \in Record /\ RoomOK(draft[j])
  BY <1>1, <1>2 DEF StartsInv, OwnInv, RoomInv, Unlocked, View, TypeOK
<1>4. /\ draft[j].attempts \in Nat /\ r \in Record /\ r.attempts = draft[j].attempts + 1
      /\ r.version = draft[j].version
  BY <1>3 DEF Record
<1> HIDE DEF r
<1>5. /\ s \in Record /\ s.version = r.version /\ s.status = "needsAttention"
      /\ s.attempts = r.attempts
  BY <1>2, <1>4, SettledRows
<1>6. t \in Record
  <2>1. retry_backoff(r.attempts) \in Int /\ -1 \in Int /\ "pending" \in JOB_STATUSES
    BY <1>4, BackoffIsNumber DEF JOB_STATUSES
  <2> QED
    BY <1>4, <2>1, WrittenRows
<1>7. t.version = r.version /\ t.status = "pending" /\ t.attempts = r.attempts
  BY <1>4 DEF Record
<1> HIDE DEF s, t
<1>8. Budget(s) >= Budget(draft[j]) /\ Budget(t) >= Budget(draft[j])
  BY <1>3, <1>4, <1>5, <1>7 DEF Budget, Counted, Bit, Live, Spent, RoomOK
<1>9. RoomOK(s) /\ (~parked => RoomOK(t))
  BY <1>4, <1>5, <1>7 DEF RoomOK
<1> HIDE DEF j
<1>10. CASE parked
  BY <1>1, <1>2, <1>4, <1>5, <1>8, <1>9, <1>10, SettleCounts DEF j
<1>11. CASE ~parked
  BY <1>1, <1>2, <1>4, <1>6, <1>7, <1>8, <1>9, <1>11, SettleCounts DEF j
<1> QED
  BY <1>10, <1>11

\* A rollback leaves a worker's rows as they were committed.
LEMMA RollbackStands ==
    ASSUME TypeOK, OwnInv, RoomInv, StandInv, NEW w \in Workers, Rollback(w), saved' = saved
    PROVE  /\ OwnInv' /\ RoomInv' /\ StandInv'
           /\ \A j \in Jobs : Claimed(j)' \subseteq Claimed(j)
           /\ \A v \in Workers : v # w => worker'[v] = worker[v]
<1>1. /\ worker'[w].pc = "idle"
      /\ \A v \in Workers : v # w => worker'[v] = worker[v]
  BY DEF Rollback, Idle, TypeOK
<1>2. \A j \in Jobs :
         /\ owner[j] = w => draft'[j] = saved[j] /\ owner'[j] = NoWorker
         /\ owner[j] # w => draft'[j] = draft[j] /\ owner'[j] = owner[j]
  BY DEF Rollback
<1>3. OwnInv'
  BY <1>2 DEF OwnInv
<1>4. RoomInv'
  <2> SUFFICES ASSUME NEW j \in Jobs PROVE RoomOK(saved'[j]) /\ RoomOK(draft'[j])
    BY DEF RoomInv, RoomOK
  <2> QED
    BY <1>2 DEF RoomInv
<1>5. ASSUME NEW v \in Workers, NEW j \in Jobs, Holds(v, j)' PROVE StandsOK(v, j)'
  <2>1. v # w /\ worker'[v] = worker[v] /\ StandsOK(v, j)
    BY <1>1, <1>5 DEF Holds, StandInv
  <2>2. NoWorker # v
    OBVIOUS
  <2> QED
    BY <1>2, <2>1, <2>2 DEF StandsOK
<1>6. \A j \in Jobs : Claimed(j)' \subseteq Claimed(j)
  BY <1>1 DEF Claimed
<1> QED
  BY <1>1, <1>3, <1>4, <1>5, <1>6 DEF StandInv

\* A worker whose settle is stale holds no lock: only its own start is lost, and
\* its lease had run out.
LEMMA StaleCounts ==
    ASSUME StartsInv, TypeOK', NEW w \in Workers, StaleSettle(w)
    PROVE  OwnInv' /\ RoomInv' /\ StandInv' /\ \A k \in Jobs : CountOK(k)'
<1> DEFINE j == worker[w].job
<1>1. /\ worker[w].pc = "running" /\ j \in Jobs /\ Unlocked(w, j) /\ ~Fresh(w, j) /\ Rollback(w)
      /\ saved' = saved /\ starts' = starts /\ Faults' = Faults
  BY DEF StaleSettle, CanSettle, faults, Faults, StartsInv, TypeOK
<1>2. View(w, j) = draft[j] /\ worker[w].loaded # draft[j].version
  BY <1>1 DEF StartsInv, OwnInv, Unlocked, View, Fresh
<1>3. \A k \in Jobs : owner[k] # w
  BY <1>1, <1>2 DEF StartsInv, StandInv, Holds, StandsOK
<1>4. \A k \in Jobs : draft'[k] = draft[k]
  BY <1>1, <1>3 DEF Rollback
<1>5. /\ OwnInv' /\ RoomInv' /\ StandInv'
      /\ \A k \in Jobs : Claimed(k)' \subseteq Claimed(k)
      /\ \A v \in Workers : v # w => worker'[v] = worker[v]
  BY <1>1, RollbackStands DEF StartsInv
<1>6. ASSUME NEW k \in Jobs, Current(k) PROVE Current(k)'
  <2>1. PICK v \in Workers : Holds(v, k) /\ worker[v].loaded = draft[k].version
    BY <1>6 DEF Current
  <2>2. v # w
    BY <1>2, <2>1 DEF Holds
  <2> QED
    BY <1>4, <1>5, <2>1, <2>2 DEF Current, Holds
<1>7. ASSUME NEW k \in Jobs PROVE CountOK(k)'
  <2>1. /\ CountOK(k) /\ RoomOK(draft[k]) /\ starts'[k] = starts[k] /\ draft'[k] = draft[k]
        /\ Budget(draft[k]) \in Nat
    BY <1>1, <1>4, BudgetBound DEF StartsInv, RoomInv, TypeOK
  <2>2. /\ Claimed(k)' \subseteq Claimed(k) /\ Faults' = Faults /\ TypeOK
        /\ Live(draft'[k]) /\ ~Current(k)' => Live(draft[k]) /\ ~Current(k)
        /\ Budget(draft'[k]) >= Budget(draft[k]) /\ RoomOK(draft'[k])
    BY <1>1, <1>5, <1>6, <2>1 DEF StartsInv
  <2> QED
    BY <2>1, <2>2, CountStands
<1> QED
  BY <1>5, <1>7

\* A crash or a broken session is a fault: it pays for the attempts that the
\* rollback forgets.
LEMMA LossCounts ==
    ASSUME StartsInv, TypeOK', NEW w \in Workers, HandlerBreaksSession(w) \/ Crash(w)
    PROVE  OwnInv' /\ RoomInv' /\ StandInv' /\ \A k \in Jobs : CountOK(k)'
<1>1. Rollback(w) /\ saved' = saved /\ starts' = starts /\ Faults' = Faults + 1
  BY DEF HandlerBreaksSession, Crash, Faults, StartsInv, TypeOK
<1>2. /\ OwnInv' /\ RoomInv' /\ StandInv'
      /\ \A k \in Jobs : Claimed(k)' \subseteq Claimed(k)
  BY <1>1, RollbackStands DEF StartsInv
<1>3. ASSUME NEW k \in Jobs PROVE CountOK(k)'
  <2>1. CountOK(k) /\ RoomOK(draft[k]) /\ RoomOK(draft'[k]) /\ starts'[k] = starts[k]
    BY <1>1, <1>2 DEF StartsInv, RoomInv, RoomOK
  <2>2. Faults \in Nat /\ Faults' >= Faults + 1
    BY <1>1 DEF Faults, StartsInv, TypeOK
  <2> QED
    BY <1>2, <2>1, <2>2, FaultCounts DEF StartsInv
<1> QED
  BY <1>2, <1>3

\* A commit changes no row that anybody counts on.
LEMMA CommitCounts ==
    ASSUME StartsInv, TypeOK', NEW w \in Workers, HostCommits(w)
    PROVE  OwnInv' /\ RoomInv' /\ StandInv' /\ \A k \in Jobs : CountOK(k)'
<1>1. /\ draft' = draft /\ worker' = worker /\ starts' = starts /\ Faults' = Faults
      /\ \A j \in Jobs :
            /\ owner[j] = w => saved'[j] = draft[j] /\ owner'[j] = NoWorker
            /\ owner[j] # w => saved'[j] = saved[j] /\ owner'[j] = owner[j]
  BY DEF HostCommits, faults, Faults, View
<1>2. OwnInv'
  BY <1>1 DEF StartsInv, OwnInv
<1>3. RoomInv'
  <2> SUFFICES ASSUME NEW j \in Jobs PROVE RoomOK(saved'[j]) /\ RoomOK(draft'[j])
    BY DEF RoomInv, RoomOK
  <2> QED
    BY <1>1 DEF StartsInv, RoomInv
<1>4. ASSUME NEW v \in Workers, NEW j \in Jobs, Holds(v, j)' PROVE StandsOK(v, j)'
  <2>1. StandsOK(v, j) /\ NoWorker # v
    BY <1>1, <1>4 DEF Holds, StartsInv, StandInv
  <2>2. /\ saved[j].version \in Nat /\ draft[j].version \in Nat /\ worker[v].loaded \in Nat
    BY DEF StartsInv, TypeOK, Record
  <2>3. CASE owner[j] # w
    <3>1. owner[j] = v => v # w
      BY <2>3
    <3> QED
      BY <1>1, <2>1, <2>3, <3>1 DEF StandsOK
  <2>4. CASE owner[j] = w
    <3>1. saved'[j].status # "absent" /\ worker[v].loaded <= saved'[j].version
      BY <1>1, <2>1, <2>2, <2>4 DEF StandsOK, StartsInv, OwnInv
    <3>2. \A k \in Jobs : owner'[k] # v
      BY <1>1, <2>1, <2>4 DEF StandsOK
    <3> QED
      BY <1>1, <3>1, <3>2 DEF StandsOK
  <2> QED
    BY <2>3, <2>4
<1>5. ASSUME NEW k \in Jobs PROVE CountOK(k)'
  <2>1. CountOK(k)
    BY DEF StartsInv
  <2> QED
    BY <1>1, <2>1 DEF CountOK, Claimed, Current, Holds, Faults, Budget, Bit, Live, Spent, Counted
<1> QED
  BY <1>2, <1>3, <1>4, <1>5 DEF StandInv

\* A new job has no attempts and no lease.
LEMMA EnqueueCounts ==
    ASSUME StartsInv, TypeOK', NEW j \in Jobs, NEW delay \in {0, 1}, Enqueue(j, delay)
    PROVE  OwnInv' /\ RoomInv' /\ StandInv' /\ \A k \in Jobs : CountOK(k)'
<1> DEFINE row == [NewRecord EXCEPT !.status = "pending", !.runAfter = delay, !.version = 1]
<1>1. row.status = "pending" /\ row.attempts = 0
  BY DEF NewRecord
<1> HIDE DEF row
<1>2. /\ saved[j].status = "absent"
      /\ saved' = [saved EXCEPT ![j] = row] /\ draft' = [draft EXCEPT ![j] = row]
      /\ owner' = owner /\ worker' = worker /\ starts' = starts /\ Faults' = Faults
  BY DEF Enqueue, row, faults, Faults
<1>3. /\ saved'[j] = row /\ draft'[j] = row
      /\ \A k \in Jobs : k # j => saved'[k] = saved[k] /\ draft'[k] = draft[k]
  BY <1>2 DEF StartsInv, TypeOK
<1>4. owner[j] = NoWorker /\ draft[j] = saved[j]
  BY <1>2 DEF StartsInv, OwnInv
<1>5. OwnInv'
  BY <1>2, <1>3, <1>4 DEF StartsInv, OwnInv
<1>6. RoomInv'
  <2> SUFFICES ASSUME NEW k \in Jobs PROVE RoomOK(saved'[k]) /\ RoomOK(draft'[k])
    BY DEF RoomInv, RoomOK
  <2>1. RoomOK(row)
    BY <1>1 DEF RoomOK
  <2> QED
    BY <1>3, <2>1 DEF StartsInv, RoomInv
<1>7. ASSUME NEW v \in Workers, NEW k \in Jobs, Holds(v, k)' PROVE StandsOK(v, k)'
  <2>1. StandsOK(v, k)
    BY <1>2, <1>7 DEF Holds, StartsInv, StandInv
  <2>2. k # j
    BY <1>2, <2>1 DEF StandsOK
  <2> QED
    BY <1>2, <1>3, <2>1, <2>2 DEF StandsOK
<1>8. ASSUME NEW k \in Jobs PROVE CountOK(k)'
  <2>1. /\ CountOK(k) /\ RoomOK(draft[k]) /\ RoomOK(draft'[k]) /\ starts'[k] = starts[k]
        /\ Claimed(k)' = Claimed(k) /\ Budget(draft[k]) \in Nat
    BY <1>2, <1>6, BudgetBound DEF StartsInv, RoomInv, RoomOK, Claimed, TypeOK
  <2>2. CASE k = j
    <3>1. draft[j].attempts = 0 /\ draft[j].status = "absent"
      BY <1>2, <1>4 DEF StartsInv, RoomInv, RoomOK
    <3>2. Budget(draft'[j]) = Budget(draft[j]) /\ ~Live(draft'[j])
      BY <1>1, <1>3, <3>1 DEF Budget, Counted, Bit, Live, Spent
    <3> QED
      BY <1>2, <2>1, <2>2, <3>2, CountStands DEF StartsInv
  <2>3. CASE k # j
    <3>1. draft'[k] = draft[k] /\ (Current(k) => Current(k)')
      BY <1>2, <1>3, <2>3 DEF Current, Holds
    <3> QED
      BY <1>2, <2>1, <3>1, CountStands DEF StartsInv
  <2> QED
    BY <2>2, <2>3
<1> QED
  BY <1>5, <1>6, <1>7, <1>8 DEF StandInv

\* Time that ends a live lease either finds nobody who could still settle it, or
\* runs out under that worker, which is counted.
LEMMA TickCounts ==
    ASSUME StartsInv, TypeOK', Tick
    PROVE  OwnInv' /\ RoomInv' /\ StandInv' /\ \A k \in Jobs : CountOK(k)'
<1>1. /\ owner' = owner /\ worker' = worker /\ starts' = starts
      /\ \A j \in Jobs : saved'[j] = Later(saved[j]) /\ draft'[j] = Later(draft[j])
  BY DEF Tick
<1>2. \A j \in Jobs : saved[j] \in Record /\ draft[j] \in Record
  BY DEF StartsInv, TypeOK
<1>3. OwnInv'
  BY <1>1, <1>2, LaterKeeps DEF StartsInv, OwnInv
<1>4. RoomInv'
  <2> SUFFICES ASSUME NEW j \in Jobs PROVE RoomOK(saved'[j]) /\ RoomOK(draft'[j])
    BY DEF RoomInv, RoomOK
  <2>1. RoomOK(saved[j]) /\ RoomOK(draft[j])
    BY DEF StartsInv, RoomInv
  <2> QED
    BY <1>1, <1>2, <2>1, LaterKeeps DEF RoomOK
<1>5. ASSUME NEW v \in Workers, NEW j \in Jobs, Holds(v, j)' PROVE StandsOK(v, j)'
  <2>1. StandsOK(v, j)
    BY <1>1, <1>5 DEF Holds, StartsInv, StandInv
  <2> QED
    BY <1>1, <1>2, <2>1, LaterKeeps DEF StandsOK
<1>6. /\ Faults \in Nat /\ Faults' \in Nat
      /\ Faults' = Faults \/ Faults' >= Faults + 1
      /\ (\E w \in Workers : RunsOut(w, "running") \/ RunsOut(w, "claimed")) => Faults' # Faults
  <2>1. overruns \in Nat /\ lateStarts \in Nat /\ crashes \in Nat /\ dbErrors \in Nat
    BY DEF StartsInv, TypeOK
  <2>2. overruns' = overruns \/ overruns' = overruns + 1
    BY DEF Tick
  <2>3. lateStarts' = lateStarts \/ lateStarts' = lateStarts + 1
    BY DEF Tick
  <2>4. (\E w \in Workers : RunsOut(w, "running")) => overruns' = overruns + 1
    BY DEF Tick
  <2>5. (\E w \in Workers : RunsOut(w, "claimed")) => lateStarts' = lateStarts + 1
    BY DEF Tick
  <2>6. crashes' = crashes /\ dbErrors' = dbErrors
    BY DEF Tick
  <2> QED
    BY <2>1, <2>2, <2>3, <2>4, <2>5, <2>6 DEF Faults
<1>7. ASSUME NEW k \in Jobs PROVE CountOK(k)'
  <2>1. /\ CountOK(k) /\ RoomOK(draft[k]) /\ RoomOK(draft'[k]) /\ starts'[k] = starts[k]
        /\ Claimed(k)' = Claimed(k)
    BY <1>1, <1>4 DEF StartsInv, RoomInv, RoomOK, Claimed
  <2>2. CASE Faults' >= Faults + 1
    BY <2>1, <2>2, FaultCounts DEF StartsInv
  <2>3. CASE Faults' = Faults
    <3>1. /\ draft'[k].status = draft[k].status /\ draft'[k].attempts = draft[k].attempts
          /\ draft'[k].version = draft[k].version
          /\ draft[k].lockedUntil > 0 => draft'[k].lockedUntil >= 0
          /\ draft[k].lockedUntil < 0 => draft'[k].lockedUntil < 0
      BY <1>1, <1>2, LaterKeeps
    <3>2. Current(k) => Current(k)'
      BY <1>1, <3>1 DEF Current, Holds
    <3>3. draft[k].lockedUntil \in Int /\ draft'[k].lockedUntil \in Int
      BY <1>2 DEF TypeOK, Record
    <3>4. CASE Live(draft[k]) /\ ~Live(draft'[k])
      <4>1. draft[k].lockedUntil = 0 /\ draft[k].status = "processing"
        BY <3>1, <3>3, <3>4 DEF Live
      <4>2. ~Current(k)
        <5>1. SUFFICES ASSUME NEW v \in Workers, Holds(v, k), worker[v].loaded = draft[k].version
                       PROVE  FALSE
          BY DEF Current
        <5>2. StandsOK(v, k)
          BY <5>1 DEF StartsInv, StandInv
        <5>3. View(v, k) = draft[k]
          <6>1. saved[k].version \in Nat /\ draft[k].version \in Nat
            BY <1>2 DEF Record
          <6> QED
            BY <5>1, <5>2, <6>1 DEF StandsOK, View, StartsInv, OwnInv
        <5>4. RunsOut(v, "running") \/ RunsOut(v, "claimed")
          BY <4>1, <5>1, <5>3 DEF RunsOut, Holds, StartsInv, TypeOK
        <5> QED
          BY <1>6, <2>3, <5>4
      <4> DEFINE n == Cardinality(Claimed(k))
                 f == MaxAttempts * Faults
      <4>3. starts[k] + n + 1 <= Budget(draft[k]) + f
        BY <2>1, <3>4, <4>2 DEF CountOK, Bit
      <4>4. Budget(draft[k]) = Counted(draft[k]) + 1
        BY <3>4 DEF Budget, Bit
      <4>5. Budget(draft'[k]) = Counted(draft[k]) + 0
        BY <3>1, <3>4, <4>1 DEF Budget, Bit, Counted, Spent
      <4>6. n \in Nat /\ f \in Int /\ starts[k] \in Nat /\ Counted(draft[k]) \in Nat
        <5>1. Claimed(k) \in SUBSET Workers
          BY DEF Claimed
        <5> QED
          BY <1>2, <1>6, <2>1, <5>1, ClaimsAreFinite, BudgetBound DEF StartsInv, TypeOK
      <4> HIDE DEF n, f
      <4>7. starts[k] + n + 0 <= Budget(draft'[k]) + f
        BY <4>3, <4>4, <4>5, <4>6
      <4>8. Bit(Live(draft'[k]) /\ ~Current(k)') = 0
        BY <3>4 DEF Bit
      <4>9. starts'[k] + Cardinality(Claimed(k)') + Bit(Live(draft'[k]) /\ ~Current(k)')
                <= Budget(draft'[k]) + MaxAttempts * Faults'
        BY <2>1, <2>3, <4>7, <4>8 DEF n, f
      <4> QED
        BY <4>9 DEF CountOK, Bit, Live, Budget, Counted, Spent
    <3>5. CASE Live(draft[k]) <=> Live(draft'[k])
      <4>1. Budget(draft'[k]) = Budget(draft[k]) /\ Budget(draft[k]) \in Nat
        BY <1>2, <2>1, <3>1, <3>5, BudgetBound DEF Budget, Counted, Spent
      <4> QED
        BY <2>1, <2>3, <3>2, <3>5, <4>1, CountStands DEF StartsInv
    <3>6. Live(draft'[k]) => Live(draft[k])
      BY <3>1, <3>3 DEF Live
    <3> QED
      BY <3>4, <3>5, <3>6
  <2> QED
    BY <1>6, <2>2, <2>3
<1> QED
  BY <1>3, <1>4, <1>5, <1>7 DEF StandInv

\* Every step of the queue keeps the account of the starts.
LEMMA StartsStep ==
    ASSUME StartsInv, [Next]_vars
    PROVE  StartsInv'
<1>1. TypeOK'
  BY TypeStep DEF StartsInv
<1>2. CASE UNCHANGED vars
  BY <1>1, <1>2 DEF vars, StartsInv, OwnInv, RoomInv, RoomOK, StandInv, StandsOK, Holds,
                    CountOK, Claimed, Current, Faults, Budget, Bit, Live, Spent, Counted
<1>3. CASE Next
  BY <1>1, <1>3, EnqueueCounts, ClaimCounts, CommitCounts, StartCounts, CompleteCounts,
     FailCounts, StaleCounts, LossCounts, TickCounts DEF Next, StartsInv
<1> QED
  BY <1>2, <1>3

\* A job's handler starts at most max_attempts times, and that often again for
\* each crash, failed statement or lease that ran out: fail_job parks it, and
\* the rowVersion check lets no worker settle, and retry, another's claim.
THEOREM StartsAreBounded == Spec => []StartsBounded
<1>1. Init => StartsInv
  <2> SUFFICES ASSUME Init PROVE StartsInv
    OBVIOUS
  <2>1. TypeOK /\ OwnInv /\ RoomInv /\ StandInv
    BY DEF Init, TypeOK, NewRecord, Idle, Record, JOB_STATUSES, BellTypes, OwnInv, RoomInv,
           RoomOK, StandInv, Holds
  <2>2. ASSUME NEW j \in Jobs PROVE CountOK(j)
    <3>1. Claimed(j) = {}
      BY DEF Init, Idle, Claimed
    <3>2. Cardinality(Claimed(j)) = 0 /\ starts[j] = 0 /\ MaxAttempts * Faults = 0
      BY <3>1, FS_EmptySet DEF Init, Faults
    <3>3. Budget(draft[j]) = 0 /\ ~Live(draft[j])
      BY DEF Init, NewRecord, Budget, Counted, Bit, Live, Spent
    <3> QED
      BY <3>2, <3>3 DEF CountOK, Bit
  <2> QED
    BY <2>1, <2>2 DEF StartsInv
<1>2. StartsInv => StartsBounded
  <2> SUFFICES ASSUME StartsInv, NEW j \in Jobs
               PROVE  starts[j] <= MaxAttempts * (1 + Faults)
    <3>1. ASSUME StartsInv
          PROVE  1 + Faults = 1 + crashes + dbErrors + overruns + lateStarts
      BY <3>1 DEF Faults, StartsInv, TypeOK
    <3> QED
      BY <3>1 DEF StartsBounded
  <2> DEFINE n == Cardinality(Claimed(j))
             f == MaxAttempts * Faults
             b == Bit(Live(draft[j]) /\ ~Current(j))
  <2>1. n \in Nat /\ b \in Nat /\ Budget(draft[j]) \in Nat /\ Budget(draft[j]) <= MaxAttempts
    <3>1. Claimed(j) \in SUBSET Workers /\ draft[j] \in Record /\ RoomOK(draft[j])
      BY DEF Claimed, StartsInv, RoomInv, TypeOK
    <3>2. n \in Nat /\ b \in Nat
      BY <3>1, ClaimsAreFinite DEF Bit
    <3>3. Budget(draft[j]) \in Nat /\ Budget(draft[j]) <= MaxAttempts
      BY <3>1, BudgetBound
    <3> HIDE DEF n, f, b
    <3> QED
      BY <3>2, <3>3
  <2>2. starts[j] \in Nat /\ Faults \in Nat
    <3>1. starts[j] \in Nat
      BY DEF StartsInv, TypeOK
    <3>2. Faults \in Nat
      BY DEF StartsInv, TypeOK, Faults
    <3> QED
      BY <3>1, <3>2
  <2>3. starts[j] + n + b <= Budget(draft[j]) + f
    BY DEF StartsInv, CountOK
  <2>4. f \in Nat /\ MaxAttempts * (1 + Faults) = f + MaxAttempts
    BY <2>2
  <2> HIDE DEF n, f, b
  <2> QED
    BY <2>1, <2>2, <2>3, <2>4
<1> QED
  BY <1>1, <1>2, StartsStep, PTL DEF Spec
=============================================================================
