----------------------------- MODULE CrmOutage ------------------------------
(***************************************************************************)
(* Living through a CRM outage, src/mentorapp/automation/crm_outage.py     *)
(* with the draft endpoints of api/routers/outage.py.  Each worker process *)
(* (a slot) has a circuit breaker of its own and makes one CRM call at a   *)
(* time.  One author works on one target.  Which DraftStore is bound is up *)
(* to the wiring: a durable one that all processes share, or the one of    *)
(* the code, InMemoryDraftStore, in the process that serves the author.    *)
(***************************************************************************)
EXTENDS Naturals, FiniteSets, Requests

CONSTANTS
    FAILURE_THRESHOLD, PROBE_COOLDOWN,
    Durable,               \* a DraftStore that no process holds
    OutMaxClock, MaxWork   \* bounds: time, pieces of work handed in

ASSUME CrmOutageAssumption ==
    /\ {FAILURE_THRESHOLD, OutMaxClock} \subseteq Nat \ {0}
    /\ {PROBE_COOLDOWN, MaxWork} \subseteq Nat

VARIABLES
    outNow,
    crmUp,      \* whether the CRM answers
    monitor,    \* [Slots -> CrmHealthMonitor]
    home,       \* where the author's drafts are: Durable, or the memory of a worker
    draft,      \* the preserved draft of the author's target, 0 for none
    work,       \* the newest piece of work the author has handed in
    kept,       \* history: the piece last answered DraftPreserved that is not in the CRM
                \* nor discarded nor lost with its process, in this form or a newer one; or 0
    crossed,    \* history: two submits of the target were under way at once
    lastCall,   \* history: [Slots -> when the worker last called the CRM]
    outReq      \* [Slots -> call in progress]

outVars == <<outNow, crmUp, monitor, home, draft, work, kept, crossed, lastCall, outReq>>

\* since and probeAt: 0 for None.
CrmHealthMonitor == [failures : Nat, since : 0 .. OutMaxClock, probeAt : 0 .. OutMaxClock]
Closed == [failures |-> 0, since |-> 0, probeAt |-> 0]

Submitting(q) == outReq[q].pc = "submit"

-----------------------------------------------------------------------------
Anchor(m) == IF m.probeAt = 0 THEN m.since ELSE m.probeAt

\* allow_attempt's answer, and the monitor after it.
allow_attempt(m) == m.since = 0 \/ outNow - Anchor(m) >= PROBE_COOLDOWN

Attempted(m) == IF m.since = 0 THEN m ELSE [m EXCEPT !.probeAt = outNow]

record_success(m) == Closed

record_failure(m) ==
    [m EXCEPT !.failures = @ + 1,
              !.since = IF @ = 0 /\ m.failures + 1 >= FAILURE_THRESHOLD THEN outNow ELSE @]

\* The live call goes out; gap: time since this worker's call before it.
Call(q, request) ==
    /\ outReq[q] = Idle /\ allow_attempt(monitor[q])
    /\ monitor' = [monitor EXCEPT ![q] = Attempted(@)]
    /\ outReq' = [outReq EXCEPT ![q] = [pc |-> request.pc, piece |-> request.piece,
                                        open |-> monitor[q].since # 0,
                                        gap |-> outNow - lastCall[q]]]
    /\ lastCall' = [lastCall EXCEPT ![q] = outNow]

\* A read while the breaker refuses the attempt is served from a snapshot or
\* answered as unavailable: nothing changes.
degraded_crm_read(q) ==
    /\ Call(q, [pc |-> "read", piece |-> 0])
    /\ UNCHANGED <<outNow, crmUp, home, draft, work, kept, crossed>>

\* The CRM answers the read, or does not.
ReadAnswered(q) ==
    /\ outReq[q].pc = "read"
    /\ monitor' = [monitor EXCEPT ![q] = IF crmUp THEN record_success(@) ELSE record_failure(@)]
    /\ outReq' = [outReq EXCEPT ![q] = Idle]
    /\ UNCHANGED <<outNow, crmUp, home, draft, work, kept, crossed, lastCall>>

\* Any other exception of the read propagates: the breaker hears of neither.
ReadRefused(q) ==
    /\ outReq[q].pc = "read" /\ crmUp
    /\ outReq' = [outReq EXCEPT ![q] = Idle]
    /\ UNCHANGED <<outNow, crmUp, monitor, home, draft, work, kept, crossed, lastCall>>

\* Mutant: work the author already has a draft of is not preserved again.
preserve_draftMutant(piece) ==
    /\ draft' = IF draft = 0 THEN piece ELSE draft
    /\ kept' = piece

\* One draft per author and target, replaced wholesale; the answer says so.
preserve_draft(piece) == draft' = piece /\ kept' = piece

discard_draft == draft' = 0

\* submit_or_preserve: new work, or the restored draft once more.
Pieces == {work + 1} \cup ({draft} \ {0})

submit_or_preserve(q, piece) ==
    /\ piece \in Pieces /\ home \in {Durable, q}
    /\ work' = IF piece > work THEN piece ELSE work
    /\ crossed' = (crossed \/ \E p \in Slots : Submitting(p))
    /\ \/ /\ Call(q, [pc |-> "submit", piece |-> piece])
          /\ UNCHANGED <<draft, kept>>
       \/ /\ outReq[q] = Idle /\ ~allow_attempt(monitor[q])
          /\ preserve_draft(piece)
          /\ UNCHANGED <<monitor, outReq, lastCall>>
    /\ UNCHANGED <<outNow, crmUp, home>>

SubmitTaken(q) ==
    /\ Submitting(q) /\ crmUp
    /\ monitor' = [monitor EXCEPT ![q] = record_success(@)]
    /\ discard_draft /\ kept' = IF outReq[q].piece >= kept THEN 0 ELSE kept
    /\ outReq' = [outReq EXCEPT ![q] = Idle]
    /\ UNCHANGED <<outNow, crmUp, home, work, crossed, lastCall>>

\* Any other fault of the submit propagates: the CRM answered and refused.
SubmitRefused(q) ==
    /\ Submitting(q) /\ crmUp
    /\ outReq' = [outReq EXCEPT ![q] = Idle]
    /\ UNCHANGED <<outNow, crmUp, monitor, home, draft, work, kept, crossed, lastCall>>

\* No answer, whether or not the CRM took the work.
SubmitUnanswered(q) ==
    /\ Submitting(q) /\ ~crmUp
    /\ monitor' = [monitor EXCEPT ![q] = record_failure(@)]
    /\ preserve_draft(outReq[q].piece)
    /\ outReq' = [outReq EXCEPT ![q] = Idle]
    /\ UNCHANGED <<outNow, crmUp, home, work, crossed, lastCall>>

\* POST /outage/drafts/{kind}/{ref}/discard.
discard_preserved_draft ==
    /\ draft # 0 /\ discard_draft /\ kept' = 0
    /\ UNCHANGED <<outNow, crmUp, monitor, home, work, crossed, lastCall, outReq>>

\* A worker process ends with its monitor, and with the drafts it holds.
WorkerRestart(q) ==
    /\ outReq[q] # Idle \/ monitor[q] # Closed \/ (home = q /\ draft # 0)
    /\ monitor' = [monitor EXCEPT ![q] = Closed]
    /\ outReq' = [outReq EXCEPT ![q] = Idle]
    /\ IF home = q THEN draft' = 0 /\ kept' = 0 ELSE UNCHANGED <<draft, kept>>
    /\ UNCHANGED <<outNow, crmUp, home, work, crossed, lastCall>>

CrmFlips ==
    /\ crmUp' = ~crmUp
    /\ UNCHANGED <<outNow, monitor, home, draft, work, kept, crossed, lastCall, outReq>>

OutTick ==
    /\ outNow < OutMaxClock /\ outNow' = outNow + 1
    /\ UNCHANGED <<crmUp, monitor, home, draft, work, kept, crossed, lastCall, outReq>>

-----------------------------------------------------------------------------
OutInit ==
    /\ outNow = 1 /\ crmUp \in BOOLEAN /\ home \in Slots \cup {Durable}
    /\ monitor = [q \in Slots |-> Closed]
    /\ draft = 0 /\ work = 0 /\ kept = 0 /\ crossed = FALSE
    /\ lastCall = [q \in Slots |-> 0]
    /\ outReq = [q \in Slots |-> Idle]

OutNext ==
    \/ \E q \in Slots :
          \/ monitor[q].failures < FAILURE_THRESHOLD + 1 /\ degraded_crm_read(q)
          \/ /\ monitor[q].failures < FAILURE_THRESHOLD + 1
             /\ \E piece \in 1 .. MaxWork : submit_or_preserve(q, piece)
          \/ ReadAnswered(q) \/ ReadRefused(q)
          \/ SubmitTaken(q) \/ SubmitRefused(q) \/ SubmitUnanswered(q)
          \/ WorkerRestart(q)
    \/ discard_preserved_draft \/ CrmFlips \/ OutTick

OutSpec == OutInit /\ [][OutNext]_outVars

-----------------------------------------------------------------------------
OutTypeOK ==
    /\ monitor \in [Slots -> CrmHealthMonitor]
    /\ {draft, kept, work} \subseteq 0 .. MaxWork /\ home \in Slots \cup {Durable}
    /\ \A q \in Slots : outReq[q].pc \in {"idle", "read", "submit"}

\* "Nothing you wrote was lost": work that was answered as a preserved draft is
\* the draft until the CRM takes something newer of it, the author discards it or
\* the process that holds it in its memory ends, over any row of failures, probes,
\* refusals and restarts, as long as the author does not submit twice at once.
\* And while its breaker is open a worker's calls are a cooldown apart, so an
\* outage costs one timeout a cooldown.
OutageLosesNoWork ==
    /\ kept # 0 /\ ~crossed => draft = kept
    /\ \A q \in Slots : outReq[q] # Idle /\ outReq[q].open => outReq[q].gap >= PROBE_COOLDOWN
=============================================================================
