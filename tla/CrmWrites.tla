----------------------------- MODULE CrmWrites ------------------------------
(***************************************************************************)
(* Master-record changes on their way into the CRM: crm_write_through and  *)
(* crm_write_retry_job of src/mentorapp/api/crm_writes.py over             *)
(* crm/write_through.py and crm/espo.py.  The queue that runs the deferred *)
(* writes is JobQueue; here a claimed job is a request.                    *)
(***************************************************************************)
EXTENDS Naturals, FiniteSets, Requests

CONSTANTS
    Writes,       \* crmWriteIDs: one accepted change each
    WriteTries    \* max_attempts of a crmWriteRetry job

ASSUME CrmWritesAssumption == WriteTries \in Nat \ {0}

VARIABLES
    landed,      \* writes the CRM has applied
    redirected,  \* history: writes an answer redirected, which nobody followed
    outcome,     \* what the user was told of a write
    retryJob,    \* the crmWriteRetry job of a write
    cwReq        \* [Slots -> request]

cwVars == <<landed, redirected, outcome, retryJob, cwReq>>

RetryJob == [state : {"none", "pending", "running", "completed", "needsAttention"},
             tries : 0 .. WriteTries, refused : BOOLEAN]

\* What the transport brings back: an HTTP status class, or nothing (raised,
\* timed out), in which case the CRM may have applied the write all the same.
EspoResponse == {"ok", "redirect", "unauthorized", "tooManyRequests", "rejected", "serverError", "none"}

-----------------------------------------------------------------------------
\* EspoAuthGateway.execute: the exception an answer becomes.
execute(response) ==
    CASE response \in {"ok", "redirect"} -> "payload"  \* any status below 400
      [] response = "unauthorized" -> "CrmCredentialExpired"
      [] response \in {"serverError", "none"} -> "CrmUnavailable"
      [] response \in {"tooManyRequests", "rejected"} -> "EspoOperationRejected"

classify_crm_write_fault(response) ==
    IF \/ execute(response) = "CrmUnavailable"
       \/ execute(response) = "EspoOperationRejected" /\ response = "tooManyRequests"  \* 408, 429
    THEN "transient" ELSE "terminal"

\* One PUT of absolute field values to the record: applied again, it changes
\* nothing.  Redirects are not followed: the CRM has not applied what it redirects.
apply(w, response) ==
    /\ redirected' = IF response = "redirect" THEN redirected \cup {w} ELSE redirected
    /\ landed' \in IF response = "ok" THEN {landed \cup {w}}
                   ELSE IF response \in {"none", "serverError"} THEN {landed, landed \cup {w}}
                   ELSE {landed}

\* The synchronous attempt, as the user.
crm_write_through(q, w) ==
    /\ cwReq[q] = Idle /\ outcome[w] = "none" /\ retryJob[w].state = "none"
    /\ \A p \in Slots : cwReq[p] # Idle => cwReq[p].w # w
    /\ \E response \in EspoResponse :
          /\ apply(w, response)
          /\ IF execute(response) = "payload"
             THEN outcome' = [outcome EXCEPT ![w] = "WriteApplied"] /\ UNCHANGED cwReq
             ELSE IF classify_crm_write_fault(response) = "terminal"
             THEN outcome' = [outcome EXCEPT ![w] = "WriteRefused"] /\ UNCHANGED cwReq
             ELSE /\ cwReq' = [cwReq EXCEPT ![q] = [pc |-> "enqueue", w |-> w]]
                  /\ UNCHANGED outcome
    /\ UNCHANGED retryJob

\* The caller commits the enqueued job and answers with its identifier.
CommitDeferred(q) ==
    LET w == cwReq[q].w IN
    /\ cwReq[q].pc = "enqueue"
    /\ retryJob' = [retryJob EXCEPT ![w].state = "pending"]
    /\ outcome' = [outcome EXCEPT ![w] = "WriteDeferred"]
    /\ cwReq' = [cwReq EXCEPT ![q] = Idle]
    /\ UNCHANGED <<landed, redirected>>

\* The handler applies the preserved write under the integration credential.
crm_write_retry_job(q, w) ==
    /\ cwReq[q] = Idle /\ retryJob[w].state = "pending"
    /\ retryJob' = [retryJob EXCEPT ![w].state = "running"]
    /\ \E response \in EspoResponse :
          /\ apply(w, response)
          /\ cwReq' = [cwReq EXCEPT ![q] = [pc |-> "settle", w |-> w,
                ends |-> IF execute(response) = "payload" THEN "completed"
                         ELSE IF classify_crm_write_fault(response) = "transient" THEN "pending"
                         ELSE "needsAttention"]]
    /\ UNCHANGED outcome

\* The worker settles the attempt: done, parked for good, or one more try.
SettleRetry(q) ==
    LET w == cwReq[q].w
        ends == cwReq[q].ends
        tries == IF ends = "completed" THEN retryJob[w].tries ELSE retryJob[w].tries + 1 IN
    /\ cwReq[q].pc = "settle"
    /\ retryJob' = [retryJob EXCEPT ![w] =
          [state |-> IF ends = "pending" /\ tries >= WriteTries THEN "needsAttention" ELSE ends,
           tries |-> tries, refused |-> ends = "needsAttention"]]
    /\ cwReq' = [cwReq EXCEPT ![q] = Idle]
    /\ UNCHANGED <<landed, redirected, outcome>>

\* Processes end: a request that had not enqueued its write answers nothing,
\* a claimed job is claimed again.
CwCrash ==
    /\ \E q \in Slots : cwReq[q] # Idle
    /\ outcome' = [w \in Writes |->
          IF \E q \in Slots : cwReq[q].pc = "enqueue" /\ cwReq[q].w = w THEN "error" ELSE outcome[w]]
    /\ retryJob' = [w \in Writes |->
          IF retryJob[w].state = "running" THEN [retryJob[w] EXCEPT !.state = "pending"]
          ELSE retryJob[w]]
    /\ cwReq' = [q \in Slots |-> Idle]
    /\ UNCHANGED <<landed, redirected>>

-----------------------------------------------------------------------------
CwInit ==
    /\ landed = {} /\ redirected = {}
    /\ outcome = [w \in Writes |-> "none"]
    /\ retryJob = [w \in Writes |-> [state |-> "none", tries |-> 0, refused |-> FALSE]]
    /\ cwReq = [q \in Slots |-> Idle]

CwNext ==
    \/ \E q \in Slots, w \in Writes : crm_write_through(q, w) \/ crm_write_retry_job(q, w)
    \/ \E q \in Slots : CommitDeferred(q) \/ SettleRetry(q)
    \/ CwCrash

CwSpec == CwInit /\ [][CwNext]_cwVars

-----------------------------------------------------------------------------
CwTypeOK ==
    /\ {landed, redirected} \subseteq SUBSET Writes /\ retryJob \in [Writes -> RetryJob]
    /\ outcome \in [Writes -> {"none", "WriteApplied", "WriteDeferred", "WriteRefused", "error"}]

\* What the user is told of a change is what becomes of it, through lost
\* answers, crashes and every row of retries: applied is in the CRM, deferred
\* has a job that lands it or is parked where a human sees it, and refused is
\* never sent again and never turns up in the CRM.  Only a write that the CRM
\* redirected may be said to be applied, by the answer or the job, and not be.
OutcomesAreHonest ==
    \A w \in Writes :
        /\ outcome[w] = "WriteApplied" => w \in landed \cup redirected
        /\ outcome[w] = "WriteDeferred" =>
              /\ retryJob[w].state # "none"
              /\ retryJob[w].state = "completed" => w \in landed \cup redirected
              /\ retryJob[w].state = "needsAttention" =>
                    retryJob[w].refused \/ retryJob[w].tries >= WriteTries
        /\ outcome[w] = "WriteRefused" => w \notin landed /\ retryJob[w].state = "none"
=============================================================================
