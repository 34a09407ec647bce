----------------------------- MODULE ServerProofs -----------------------------
(***************************************************************************)
(* Proofs about the parts of MCServer that have no proof module of their   *)
(* own, for every value of their constants: the CRM outage and the CRM     *)
(* writes, workprocess runs, artifacts, the postal reference, the creation *)
(* of records and the action tokens.  Each part has an inductive           *)
(* invariant; the last theorems are about the whole server, in which one   *)
(* part moves, or sessions and engagements together.                       *)
(***************************************************************************)
EXTENDS MCServer, ChangeFeedProofs, MentoringProofs, FiniteSetTheorems, SequenceTheorems, TLAPS

-----------------------------------------------------------------------------
(* The CRM outage. *)

\* A worker's call to the CRM.
OutCall == [pc : {"read", "submit"}, piece : Nat, open : BOOLEAN, gap : Nat]

Health == [failures : Nat, since : Nat, probeAt : Nat]

OutTyped ==
    /\ outNow \in Nat \ {0} /\ crossed \in BOOLEAN
    /\ monitor \in [Slots -> Health] /\ lastCall \in [Slots -> Nat]
    /\ draft \in Nat /\ work \in Nat /\ kept \in Nat
    /\ outReq \in [Slots -> OutCall \cup {Idle}]

\* The breaker m of a worker that last called the CRM at last: while it is
\* open, that call was no later than the moment the cooldown runs from.
BreakerOK(m, last, now) ==
    /\ last <= now /\ m.since <= now /\ m.probeAt <= now
    /\ m.since = 0 => m.probeAt = 0
    /\ m.since # 0 => last <= Anchor(m)

\* The call w carries no work newer than the newest that was handed in, and it
\* went out no earlier than a cooldown after the one before it.
OutCallOK(w, newest) ==
    w # Idle => w.piece <= newest /\ (w.open => w.gap >= PROBE_COOLDOWN)

\* A submit under way carries the preserved work or something newer, and it is
\* the only one.
SubmitsOK(req, piece) ==
    /\ \A q \in Slots : req[q].pc = "submit" => req[q].piece >= piece
    /\ \A p, q \in Slots : req[p].pc = "submit" /\ req[q].pc = "submit" => p = q

\* The inductive invariant.
OutIInv ==
    /\ OutTyped
    /\ draft <= work /\ kept <= work
    /\ \A q \in Slots : BreakerOK(monitor[q], lastCall[q], outNow) /\ OutCallOK(outReq[q], work)
    /\ ~crossed => (kept # 0 => draft = kept) /\ SubmitsOK(outReq, kept)

-----------------------------------------------------------------------------
(* The CRM writes. *)

CwRequest ==
    {Idle} \cup [pc : {"enqueue"}, w : Writes]
    \cup [pc : {"settle"}, w : Writes, ends : {"completed", "pending", "needsAttention"}]

CwTyped == CwTypeOK /\ cwReq \in [Slots -> CwRequest]

\* What the outcome o and the retry job j of the write w say of the CRM; astray:
\* the writes that were redirected.
WriteIsHonest(w, o, j, crm, astray) ==
    /\ o = "WriteApplied" => w \in crm \cup astray
    /\ o = "WriteDeferred" <=> j.state # "none"
    /\ o = "WriteRefused" => w \notin crm
    /\ j.state \in {"none", "pending", "running"} => j.tries < WriteTries
    /\ j.state = "completed" => w \in crm \cup astray
    /\ j.state = "needsAttention" => j.refused \/ j.tries >= WriteTries

\* The request r and the write it is about.
CwRequestOK(r, o, j, crm, astray) ==
    /\ r.pc = "enqueue" => o[r.w] = "none"
    /\ r.pc = "settle" => /\ j[r.w].state = "running"
                          /\ r.ends = "completed" => r.w \in crm \cup astray

\* A write that nobody was told about and no request carries has not been sent.
Unsent(w, o, req, crm) ==
    o[w] = "none" /\ (\A q \in Slots : req[q] # Idle => req[q].w # w) => w \notin crm

\* The inductive invariant.
CwIInv ==
    /\ CwTyped
    /\ \A w \in Writes : /\ WriteIsHonest(w, outcome[w], retryJob[w], landed, redirected)
                         /\ Unsent(w, outcome, cwReq, landed)
    /\ \A q \in Slots : CwRequestOK(cwReq[q], outcome, retryJob, landed, redirected)
    /\ \A p, q \in Slots : p # q /\ cwReq[p] # Idle /\ cwReq[q] # Idle => cwReq[p].w # cwReq[q].w

-----------------------------------------------------------------------------
(* Workprocess registrations and runs. *)

RegRow == [live : BOOLEAN, name : WpNames, doc : WpDocs, contract : WpContracts, version : Nat]

\* A run's row before the run exists, and after.
Unstarted == [state : {"inFlight"}, reg : {NoStep}, source : WpSources,
              current : {NoStep}, walk : {<<>>}, version : {0}]

Started == [state : RunStates, reg : Regs, source : WpSources, current : STRING \cup {NoStep},
            walk : Seq(STRING), version : Nat \ {0}]

WpRequest ==
    {Idle}
    \cup [pc : {"create"}, reg : Regs, targets : SUBSET WpSources, row : RegRow]
    \cup [pc : {"patch"}, reg : Regs, retarget : BOOLEAN, targets : SUBSET WpSources, row : RegRow]
    \cup [pc : {"delete"}, reg : Regs, links : SUBSET (Regs \X WpSources), row : RegRow]
    \cup [pc : {"launch", "step", "commit", "cancel"}, run : Runs, doc : WpDocs, row : Started]

WpTyped ==
    /\ regs \in [Regs -> RegRow] /\ runs \in [Runs -> Unstarted \cup Started]
    /\ links \subseteq Regs \X WpSources
    /\ wpReq \in [Slots -> WpRequest]
    /\ applied \in [Runs -> Nat] /\ bells \in [Runs -> Nat]

\* A registration that was ever written has a graph that can be walked.
RegOK(g) ==
    /\ g.live => g.version > 0
    /\ g.version > 0 => step_graph_valid(g.doc)

\* The run went from the start of doc over its steps, and if it stands nowhere
\* it has reached an end.
WalkOK(run, doc) ==
    /\ \A i \in DOMAIN run.walk : run.walk[i] \in Keys(doc)
    /\ run.current \in Keys(doc) \cup {NoStep}
    /\ IF run.walk = <<>> THEN run.current = doc.start ELSE run.walk[1] = doc.start
    /\ run.current = NoStep => run.walk # <<>> /\ run.walk[Len(run.walk)] \in Terminal(doc)

\* The run's row, what was committed for it and rung, over the registrations g;
\* its graph was edited under it if touched.
RunOK(run, done, rung, g, touched) ==
    /\ run.version > 0 => g[run.reg].version > 0
    /\ run.state = "committed" => run.current = NoStep
    /\ run.version > 0 /\ ~touched => WalkOK(run, g[run.reg].doc)
    /\ done = IF run.state = "committed" THEN 1 ELSE 0
    /\ rung <= done

\* A write of a registration goes one version on from the row it read; if that
\* is still the row, a deletion takes all of its targets.
RegRequestOK(w, g, l) ==
    /\ w.pc \in {"create", "patch", "delete"} => w.row.version > 0 /\ step_graph_valid(w.row.doc)
    /\ w.pc = "create" => w.row.live /\ w.row.version = 1
    /\ w.pc = "patch" => w.row.live
    /\ w.pc = "delete" => ~w.row.live
    /\ w.pc \in {"patch", "delete"} => w.row.version <= g[w.reg].version + 1
    /\ w.pc = "delete" /\ w.row.version = g[w.reg].version + 1 =>
          /\ w.row.doc = g[w.reg].doc
          /\ \A link \in l : link[1] = w.reg => link \in w.links

\* So does a write of a run, whose verb then applies to the row as it is.
RunRequestOK(w, g, ru, touched) ==
    /\ w.pc = "launch" =>
          /\ ru[w.run].version = 0 /\ w.row.version = 1 /\ w.row.state = "inFlight"
          /\ w.row.walk = <<>> /\ w.row.current = w.doc.start
          /\ g[w.row.reg].version > 0 /\ step_graph_valid(w.doc)
    /\ w.pc \in {"step", "commit", "cancel"} =>
          /\ ru[w.run].version > 0 /\ w.row.version <= ru[w.run].version + 1
          /\ w.row.version = ru[w.run].version + 1 =>
                /\ ru[w.run].state = "inFlight" /\ w.row.reg = ru[w.run].reg
                /\ w.run \notin touched => WalkOK(w.row, g[w.row.reg].doc)
                /\ IF w.pc = "commit" THEN w.row.state = "committed" /\ w.row.current = NoStep
                   ELSE w.row.state # "committed"

\* No two launches make the same run.
LaunchesApart(v, w) == v.pc = "launch" /\ w.pc = "launch" => v.run # w.run

NamesUnique(g) == \A x, y \in Regs : x # y /\ g[x].live /\ g[y].live => g[x].name # g[y].name

\* The inductive invariant.
WpIInv ==
    /\ WpTyped
    /\ \A g \in Regs : RegOK(regs[g])
    /\ \A link \in links : regs[link[1]].live
    /\ NamesUnique(regs)
    /\ \A r \in Runs : RunOK(runs[r], applied[r], bells[r], regs, r \in edited)
    /\ \A q \in Slots : /\ RegRequestOK(wpReq[q], regs, links)
                         /\ RunRequestOK(wpReq[q], regs, runs, edited)
    /\ \A p, q \in Slots : p # q => LaunchesApart(wpReq[p], wpReq[q])

-----------------------------------------------------------------------------
(* Artifacts. *)

\* The versions at which a trim read its rows.
ReadVersions == UNION {[some -> Nat] : some \in SUBSET ArtJobs}

ArtRequest ==
    {Idle} \cup [pc : {"complete"}, j : ArtJobs]
    \cup [pc : {"trim"}, todo : SUBSET ArtJobs, flushed : SUBSET ArtJobs, read : ReadVersions]

ArtTyped ==
    /\ artNow \in Nat /\ artJob \in [ArtJobs -> ArtifactJob] /\ stored \subseteq ArtJobs
    /\ gone \in [ArtJobs -> Nat] /\ artReq \in [Slots -> ArtRequest]

\* Only a completed job has a link, a retention or ends.
JobOK(job) == job.state # "completed" => job.live /\ ~job.url /\ job.expires = 0

\* A job that completes has stored its bytes.  A trim is about completed jobs:
\* it has discarded the bytes of those it has flushed, which live until it
\* commits, and a job it has yet to take is gone if its row moved on.
ArtRequestOK(w, job, store) ==
    /\ w.pc = "complete" => job[w.j].state = "pending" /\ w.j \in store
    /\ w.pc = "trim" =>
          /\ w.todo \subseteq DOMAIN w.read
          /\ \A j \in w.todo : /\ job[j].state = "completed"
                               /\ w.read[j] <= job[j].version
                               /\ job[j].live <=> w.read[j] = job[j].version
          /\ \A j \in w.flushed : job[j].state = "completed" /\ job[j].live /\ j \notin store

\* No two requests complete, or have flushed, the same job.
ArtApart(v, w) ==
    /\ v.pc = "complete" /\ w.pc = "complete" => v.j # w.j
    /\ v.pc = "trim" /\ w.pc = "trim" => v.flushed \cap w.flushed = {}

\* The link of a job opens, or somebody has discarded what is behind it.
LinkOK(j, job, store, undone, req) ==
    job[j].url => j \in store \/ j \in undone \/ \E q \in Slots : req[q].pc = "trim" /\ j \in req[q].flushed

GoneOK(job, times, there) ==
    /\ times = IF job.live THEN 0 ELSE 1
    /\ ~job.live => ~job.url /\ ~there

\* The inductive invariant.
ArtIInv ==
    /\ ArtTyped
    /\ \A j \in ArtJobs : /\ JobOK(artJob[j]) /\ GoneOK(artJob[j], gone[j], j \in stored)
                          /\ LinkOK(j, artJob, stored, unwound, artReq)
    /\ \A q \in Slots : ArtRequestOK(artReq[q], artJob, stored)
    /\ \A p, q \in Slots : p # q => ArtApart(artReq[p], artReq[q])

-----------------------------------------------------------------------------
(* The postal reference. *)

NamedCodes(rows) == {rows[i].code : i \in DOMAIN rows}

\* The live rows of a table that a refresh changes, and the rows it adds.
Touched(table, rows, full) ==
    {c \in NamedCodes(rows) \cap Live(table) :
        \E i \in DOMAIN rows : rows[i].code = c /\ rows[i].city # table[c].city}
    \cup Retired(table, rows, full)
Added(table, rows) == {i \in DOMAIN rows : rows[i].code \notin Live(table)}

Refresh == [pc : {"refresh"}, rows : PostalRows, full : BOOLEAN,
            read : [PostalCodes -> PostalCode], written : SUBSET PostalCodes,
            inserted : SUBSET Nat]

PostalTyped ==
    /\ postal \in [PostalCodes -> PostalCode]
    /\ postalReq \in [Slots -> {Idle} \cup Refresh]
    /\ overlapped \in BOOLEAN

\* As long as no two refreshes overlapped, what a refresh is about to do still
\* follows from the table.
RefreshOK(w, table) ==
    w.pc = "refresh" => /\ w.written = Touched(table, w.rows, w.full)
                        /\ w.inserted = Added(table, w.rows)

\* The inductive invariant.
PostalIInv ==
    /\ PostalTyped
    /\ SnapshotIsApplied
    /\ ~overlapped => \A q \in Slots : RefreshOK(postalReq[q], postal)

-----------------------------------------------------------------------------
(* Creation of records. *)

PersonRow == [values : [IdFields -> Inputs], deleted : BOOLEAN, version : Nat,
              override : SUBSET Nat]

CreateForm ==
    [open : BOOLEAN, values : [IdFields -> Inputs], checked : SUBSET [IdFields -> Inputs],
     asked : SUBSET [IdFields -> Inputs],
     offered : SUBSET [id : Nat, removed : BOOLEAN, version : Nat], rejected : SUBSET Nat]

PostRequest == [stage : {"none", "sent", "checked"}, values : [IdFields -> Inputs],
                override : BOOLEAN, found : SUBSET Nat, since : SUBSET Nat]

CreateTyped ==
    /\ people \in Seq(PersonRow) /\ sinceCheck \in Seq(SUBSET Nat)
    /\ Len(sinceCheck) = Len(people)
    /\ createForm \in [CWindows -> CreateForm] /\ creating \in [CWindows -> PostRequest]

\* What a form offers to restore are records.
OfferOK(form, table) == \A c \in form.offered : c.id \in DOMAIN table

\* What a checked POST knows of the live records that match it: each was a
\* candidate, or came to life or was edited after the check.
PostOK(post, table) ==
    post.stage = "checked" =>
        \A m \in DOMAIN table :
            ~table[m].deleted /\ Matches(post.values, table[m].values)
                => m \in post.found \/ m \in post.since

\* A live record and a younger one that matches it, which may be removed: the
\* younger knows of the elder.
KnownTo(m, n, table, since) ==
    m < n /\ ~table[m].deleted /\ Matches(table[m].values, table[n].values)
        => m \in table[n].override \/ m \in since[n]

\* The inductive invariant.
CreateIInv ==
    /\ CreateTyped
    /\ \A w \in CWindows : OfferOK(createForm[w], people) /\ PostOK(creating[w], people)
    /\ \A m, n \in DOMAIN people : KnownTo(m, n, people, sinceCheck)

-----------------------------------------------------------------------------
(* The steps of the outage. *)

USE CrmOutageAssumption

\* A call stays in order when newer work is handed in.
LEMMA CallKept ==
    ASSUME OutIInv, NEW q \in Slots, NEW n \in Nat, work <= n
    PROVE  OutCallOK(outReq[q], n)
  BY DEF OutIInv, OutTyped, OutCallOK, OutCall

\* A call of q's worker, answered: it has no call under way.
LEMMA AnswerHolds ==
    ASSUME OutIInv, NEW q \in Slots, outReq' = [outReq EXCEPT ![q] = Idle],
           NEW m \in Health, monitor' = [monitor EXCEPT ![q] = m],
           BreakerOK(m, lastCall[q], outNow),
           UNCHANGED <<outNow, crmUp, work, crossed, lastCall>>,
           draft' \in Nat, kept' \in Nat, draft' <= work, kept' <= work,
           ~crossed => (kept' # 0 => draft' = kept') /\ SubmitsOK(outReq', kept')
    PROVE  OutIInv'
<1>1. OutTyped'
  BY DEF OutIInv, OutTyped
<1>2. ASSUME NEW p \in Slots
      PROVE  BreakerOK(monitor'[p], lastCall[p], outNow) /\ OutCallOK(outReq'[p], work)
  <2>1. CASE p = q
    BY <2>1 DEF OutIInv, OutTyped, OutCallOK
  <2>2. CASE p # q
    BY <2>2 DEF OutIInv, OutTyped
  <2> QED
    BY <2>1, <2>2
<1>3. BreakerOK(monitor'[q], lastCall'[q], outNow')
  BY <1>2
<1> QED
  BY <1>1, <1>2 DEF OutIInv, BreakerOK, Anchor

\* Fewer submits under way, and no newer preserved work.
LEMMA SubmitsFewer ==
    ASSUME OutIInv, NEW q \in Slots, NEW req, req = [outReq EXCEPT ![q] = Idle],
           NEW k \in Nat, k <= kept, ~crossed
    PROVE  SubmitsOK(req, k)
<1>1. \A p \in Slots : /\ req[p].pc = "submit" => p # q /\ req[p] = outReq[p]
                       /\ p # q => req[p] = outReq[p]
  BY DEF OutIInv, OutTyped, Idle
<1>2. \A p \in Slots : outReq[p].pc = "submit" => outReq[p].piece \in Nat
  BY DEF OutIInv, OutTyped, Idle, OutCall
<1> QED
  BY <1>1, <1>2 DEF OutIInv, OutTyped, SubmitsOK

\* After q's submit is answered nobody submits.
LEMMA NoSubmitLeft ==
    ASSUME OutIInv, NEW q \in Slots, Submitting(q), NEW req, req = [outReq EXCEPT ![q] = Idle],
           NEW k \in Nat, ~crossed
    PROVE  SubmitsOK(req, k)
<1>1. \A p \in Slots : req[p].pc # "submit"
  BY DEF OutIInv, OutTyped, Idle, Submitting, SubmitsOK
<1> QED
  BY <1>1 DEF SubmitsOK

\* What an answer makes of the breaker.
LEMMA BreakerAnswered ==
    ASSUME OutIInv, NEW q \in Slots
    PROVE  /\ record_success(monitor[q]) \in Health /\ record_failure(monitor[q]) \in Health
           /\ BreakerOK(record_success(monitor[q]), lastCall[q], outNow)
           /\ BreakerOK(record_failure(monitor[q]), lastCall[q], outNow)
<1> DEFINE m == monitor[q]
<1>1. m \in Health /\ BreakerOK(m, lastCall[q], outNow) /\ lastCall[q] \in Nat /\ outNow \in Nat \ {0}
  BY DEF OutIInv, OutTyped
<1> HIDE DEF m
<1>2. record_success(m) \in Health /\ BreakerOK(record_success(m), lastCall[q], outNow)
  BY <1>1 DEF record_success, Closed, Health, BreakerOK, Anchor
<1> DEFINE n == record_failure(m)
<1>3. n \in Health /\ n.probeAt = m.probeAt /\ (n.since = m.since \/ (m.since = 0 /\ n.since = outNow))
  <2> DEFINE failures == m.failures + 1
             since == IF m.since = 0 /\ failures >= FAILURE_THRESHOLD THEN outNow ELSE m.since
  <2>1. failures \in Nat /\ since \in Nat /\ (since = m.since \/ (m.since = 0 /\ since = outNow))
    BY <1>1 DEF Health
  <2>2. n = [m EXCEPT !.failures = failures, !.since = since]
    BY <1>1 DEF record_failure, Health
  <2> HIDE DEF failures, since, n
  <2> QED
    BY <1>1, <2>1, <2>2 DEF Health
<1>4. n.since \in Nat /\ n.probeAt \in Nat /\ m.since \in Nat
  BY <1>1, <1>3 DEF Health
<1> HIDE DEF n
<1>5. BreakerOK(n, lastCall[q], outNow)
  BY <1>1, <1>3, <1>4 DEF BreakerOK, Anchor
<1> QED
  BY <1>2, <1>3, <1>5 DEF n, m

\* A call goes out: q's breaker lets it, and no earlier than a cooldown after
\* the one before if it is open.
LEMMA CallHolds ==
    ASSUME OutIInv, NEW q \in Slots, NEW pc \in {"read", "submit"}, NEW piece \in Nat,
           Call(q, [pc |-> pc, piece |-> piece]), UNCHANGED <<outNow, crmUp, draft, kept>>,
           work' \in Nat, work <= work', piece <= work', crossed' \in BOOLEAN, crossed => crossed',
           ~crossed' /\ pc = "submit" =>
              piece >= kept /\ \A p \in Slots : ~Submitting(p)
    PROVE  OutIInv'
<1> DEFINE m == monitor[q]
           n == Attempted(m)
           open == m.since # 0
           gap == outNow - lastCall[q]
           w == [pc |-> pc, piece |-> piece, open |-> open, gap |-> gap]
<1>1. /\ m \in Health /\ BreakerOK(m, lastCall[q], outNow)
      /\ lastCall[q] \in Nat /\ outNow \in Nat \ {0} /\ PROBE_COOLDOWN \in Nat
  BY DEF OutIInv, OutTyped
<1>2. outReq' = [outReq EXCEPT ![q] = w] /\ outReq[q] = Idle
  BY DEF Call
<1>3. monitor' = [monitor EXCEPT ![q] = n] /\ lastCall' = [lastCall EXCEPT ![q] = outNow]
  BY DEF Call
<1>4. m.since = 0 \/ outNow - Anchor(m) >= PROBE_COOLDOWN
  BY DEF Call, allow_attempt
<1>5. /\ m.since \in Nat /\ m.probeAt \in Nat /\ gap \in Nat /\ open \in BOOLEAN
      /\ open => gap >= PROBE_COOLDOWN
  BY <1>1, <1>4 DEF Health, BreakerOK, Anchor
<1>6. n \in Health /\ n.since = m.since /\ n.probeAt = IF m.since = 0 THEN m.probeAt ELSE outNow
  BY <1>1 DEF Attempted, Health
<1> HIDE DEF n, m, open, gap
<1>7. BreakerOK(n, outNow, outNow)
  BY <1>1, <1>5, <1>6 DEF BreakerOK, Anchor
<1>8. w \in OutCall /\ w.pc = pc /\ w.piece = piece /\ w # Idle
  <2>1. w \in OutCall
    BY <1>5 DEF OutCall
  <2> QED
    BY <2>1 DEF Idle
<1>9. OutCallOK(w, work')
  BY <1>5 DEF OutCallOK
<1> HIDE DEF w
<1>10. OutTyped'
  BY <1>2, <1>3, <1>6, <1>8, <1>1 DEF OutIInv, OutTyped
<1>11. ASSUME NEW p \in Slots
       PROVE  BreakerOK(monitor'[p], lastCall'[p], outNow) /\ OutCallOK(outReq'[p], work')
  <2>1. CASE p = q
    BY <2>1, <1>2, <1>3, <1>7, <1>9 DEF OutIInv, OutTyped
  <2>2. CASE p # q
    BY <2>2, <1>2, <1>3, CallKept DEF OutIInv, OutTyped
  <2> QED
    BY <2>1, <2>2
<1>12. ~crossed' => (kept # 0 => draft = kept) /\ SubmitsOK(outReq', kept)
  <2> SUFFICES ASSUME ~crossed' PROVE (kept # 0 => draft = kept) /\ SubmitsOK(outReq', kept)
    OBVIOUS
  <2>1. (kept # 0 => draft = kept) /\ SubmitsOK(outReq, kept)
    BY DEF OutIInv
  <2>2. \A p \in Slots : p # q => outReq'[p] = outReq[p]
    BY <1>2 DEF OutIInv, OutTyped
  <2>3. outReq'[q] = w
    BY <1>2 DEF OutIInv, OutTyped
  <2>4. CASE pc = "submit"
    BY <2>1, <2>2, <2>3, <2>4, <1>8 DEF SubmitsOK, Submitting
  <2>5. CASE pc # "submit"
    BY <2>1, <2>2, <2>3, <2>5, <1>8 DEF SubmitsOK
  <2> QED
    BY <2>1, <2>4, <2>5
<1>13. draft <= work' /\ kept <= work'
  BY DEF OutIInv, OutTyped
<1> QED
  BY <1>10, <1>11, <1>12, <1>13 DEF OutIInv, BreakerOK, Anchor

\* A read goes out.
LEMMA OutReadHolds ==
    ASSUME OutIInv, NEW q \in Slots, degraded_crm_read(q)
    PROVE  OutIInv'
<1> DEFINE pc == "read"
           piece == 0
<1>1. /\ Call(q, [pc |-> pc, piece |-> piece]) /\ UNCHANGED <<outNow, crmUp, draft, kept>>
      /\ work' = work /\ crossed' = crossed /\ work \in Nat /\ crossed \in BOOLEAN
      /\ pc \in {"read", "submit"} /\ piece \in Nat /\ pc # "submit"
  BY DEF degraded_crm_read, OutIInv, OutTyped
<1> HIDE DEF pc, piece
<1>2. work <= work' /\ piece <= work' /\ work' \in Nat /\ crossed' \in BOOLEAN
  BY <1>1 DEF piece
<1> QED
  BY <1>1, <1>2, CallHolds

\* A piece of work is submitted, or preserved at once while the breaker is open.
LEMMA SubmitHolds ==
    ASSUME OutIInv, NEW q \in Slots, NEW piece \in 1 .. MaxWork, submit_or_preserve(q, piece)
    PROVE  OutIInv'
<1>1. /\ piece \in Nat /\ work \in Nat /\ draft \in Nat /\ kept \in Nat
      /\ draft <= work /\ kept <= work
  BY DEF OutIInv, OutTyped
<1>2. work' = (IF piece > work THEN piece ELSE work) /\ piece \in Pieces
  BY DEF submit_or_preserve
<1>3. work' \in Nat /\ work <= work' /\ piece <= work'
  BY <1>1, <1>2
<1>4. /\ crossed' = (crossed \/ \E p \in Slots : Submitting(p))
      /\ UNCHANGED <<outNow, crmUp>> /\ crossed \in BOOLEAN
  BY DEF submit_or_preserve, OutIInv, OutTyped
<1>5. ~crossed' => piece >= kept
  BY <1>1, <1>2, <1>4 DEF Pieces, OutIInv
<1>6. CASE Call(q, [pc |-> "submit", piece |-> piece]) /\ UNCHANGED <<draft, kept>>
  <2> DEFINE pc == "submit"
  <2>1. Call(q, [pc |-> pc, piece |-> piece]) /\ pc \in {"read", "submit"}
    BY <1>6
  <2> HIDE DEF pc
  <2>2. /\ crossed' \in BOOLEAN /\ crossed => crossed'
        /\ ~crossed' => piece >= kept /\ \A p \in Slots : ~Submitting(p)
    BY <1>4, <1>5
  <2> QED
    BY <1>1, <1>3, <1>4, <1>6, <2>1, <2>2, CallHolds
<1>7. CASE preserve_draft(piece) /\ UNCHANGED <<monitor, outReq, lastCall>>
  <2>1. draft' = piece /\ kept' = piece
    BY <1>7 DEF preserve_draft
  <2>2. OutTyped'
    BY <1>1, <1>3, <1>4, <1>7, <2>1 DEF OutIInv, OutTyped
  <2>3. ~crossed' => SubmitsOK(outReq', kept')
    BY <1>4, <1>7 DEF SubmitsOK, Submitting
  <2>4. \A p \in Slots : BreakerOK(monitor[p], lastCall[p], outNow) /\ OutCallOK(outReq[p], work')
    BY <1>3, CallKept DEF OutIInv
  <2> QED
    BY <1>3, <1>4, <1>7, <2>1, <2>2, <2>3, <2>4 DEF OutIInv
<1> QED
  BY <1>6, <1>7 DEF submit_or_preserve

\* A read is answered, a submit is, or the CRM does not answer.
LEMMA AnswersHold ==
    ASSUME OutIInv, NEW q \in Slots,
           \/ ReadAnswered(q) \/ ReadRefused(q)
           \/ SubmitTaken(q) \/ SubmitRefused(q) \/ SubmitUnanswered(q)
    PROVE  OutIInv'
<1>1. /\ draft \in Nat /\ work \in Nat /\ kept \in Nat /\ draft <= work /\ kept <= work
      /\ ~crossed => (kept # 0 => draft = kept) /\ SubmitsOK(outReq, kept)
      /\ monitor \in [Slots -> Health] /\ BreakerOK(monitor[q], lastCall[q], outNow)
      /\ outReq \in [Slots -> OutCall \cup {Idle}]
  BY DEF OutIInv, OutTyped
<1>2. outReq' = [outReq EXCEPT ![q] = Idle]
  BY DEF ReadAnswered, ReadRefused, SubmitTaken, SubmitRefused, SubmitUnanswered
<1>3. UNCHANGED <<outNow, crmUp, work, crossed, lastCall>>
  BY DEF ReadAnswered, ReadRefused, SubmitTaken, SubmitRefused, SubmitUnanswered
<1>4. PICK m \in Health : /\ monitor' = [monitor EXCEPT ![q] = m]
                          /\ BreakerOK(m, lastCall[q], outNow)
  <2>1. \/ monitor' = [monitor EXCEPT ![q] = record_success(monitor[q])]
        \/ monitor' = [monitor EXCEPT ![q] = record_failure(monitor[q])]
        \/ monitor' = monitor
    BY DEF ReadAnswered, ReadRefused, SubmitTaken, SubmitRefused, SubmitUnanswered
  <2>2. CASE monitor' = monitor
    BY <1>1, <2>2
  <2> QED
    BY <2>1, <2>2, BreakerAnswered
<1>5. CASE ReadAnswered(q) \/ ReadRefused(q) \/ SubmitRefused(q)
  <2>1. draft' = draft /\ kept' = kept
    BY <1>5 DEF ReadAnswered, ReadRefused, SubmitRefused
  <2>2. ~crossed => SubmitsOK(outReq', kept)
    <3> DEFINE k == kept
    <3>1. k \in Nat /\ k <= kept
      BY <1>1
    <3> HIDE DEF k
    <3>2. ~crossed => SubmitsOK(outReq', k)
      BY <1>2, <3>1, SubmitsFewer
    <3> QED
      BY <3>2 DEF k
  <2> QED
    BY <1>1, <1>2, <1>3, <1>4, <2>1, <2>2, AnswerHolds
<1>6. CASE SubmitTaken(q)
  <2>1. Submitting(q) /\ draft' = 0 /\ kept' = IF outReq[q].piece >= kept THEN 0 ELSE kept
    BY <1>6 DEF SubmitTaken, discard_draft
  <2>2. draft' \in Nat /\ kept' \in Nat /\ draft' <= work /\ kept' <= work
    BY <1>1, <2>1
  <2>3. ~crossed => kept' = 0
    BY <1>1, <2>1 DEF SubmitsOK, Submitting
  <2>4. ~crossed => SubmitsOK(outReq', kept')
    BY <1>2, <2>1, <2>2, NoSubmitLeft
  <2> QED
    BY <1>2, <1>3, <1>4, <2>2, <2>3, <2>4, AnswerHolds
<1>7. CASE SubmitUnanswered(q)
  <2>1. Submitting(q) /\ draft' = outReq[q].piece /\ kept' = outReq[q].piece
    BY <1>7 DEF SubmitUnanswered, preserve_draft
  <2>2. outReq[q].piece \in Nat /\ outReq[q].piece <= work
    BY <1>1, <2>1 DEF Submitting, OutCall, Idle, OutIInv, OutCallOK
  <2>3. ~crossed => SubmitsOK(outReq', kept')
    BY <1>2, <2>1, <2>2, NoSubmitLeft
  <2> QED
    BY <1>2, <1>3, <1>4, <2>1, <2>2, <2>3, AnswerHolds
<1> QED
  BY <1>5, <1>6, <1>7

\* A worker process ends, with the drafts that it holds.
LEMMA RestartHolds ==
    ASSUME OutIInv, NEW q \in Slots, WorkerRestart(q)
    PROVE  OutIInv'
<1>1. /\ monitor' = [monitor EXCEPT ![q] = Closed] /\ outReq' = [outReq EXCEPT ![q] = Idle]
      /\ UNCHANGED <<outNow, crmUp, work, crossed, lastCall>>
      /\ (draft' = 0 /\ kept' = 0) \/ (draft' = draft /\ kept' = kept)
  BY DEF WorkerRestart
<1>2. Closed \in Health /\ BreakerOK(Closed, lastCall[q], outNow)
  BY DEF OutIInv, OutTyped, Closed, Health, BreakerOK, Anchor
<1>3. /\ draft \in Nat /\ kept \in Nat /\ work \in Nat /\ draft <= work /\ kept <= work
      /\ ~crossed => (kept # 0 => draft = kept)
  BY DEF OutIInv, OutTyped
<1>4. PICK d, k : d = draft' /\ k = kept'
  OBVIOUS
<1>5. /\ d \in Nat /\ k \in Nat /\ d <= work /\ k <= work /\ k <= kept
      /\ ~crossed => (k # 0 => d = k)
  BY <1>1, <1>3, <1>4
<1>6. ~crossed => SubmitsOK(outReq', k)
  BY <1>1, <1>5, SubmitsFewer
<1> QED
  BY <1>1, <1>2, <1>4, <1>5, <1>6, AnswerHolds

\* The draft is discarded, the CRM comes or goes, time passes.
LEMMA OutRestHolds ==
    ASSUME OutIInv, discard_preserved_draft \/ CrmFlips \/ OutTick \/ UNCHANGED outVars
    PROVE  OutIInv'
<1>1. UNCHANGED <<monitor, lastCall, outReq, work, crossed>>
  BY DEF discard_preserved_draft, CrmFlips, OutTick, outVars
<1>2. outNow' \in Nat \ {0} /\ outNow <= outNow'
  <2>1. outNow \in Nat \ {0}
    BY DEF OutIInv, OutTyped
  <2>2. outNow' = outNow \/ outNow' = outNow + 1
    BY DEF discard_preserved_draft, CrmFlips, OutTick, outVars
  <2> QED
    BY <2>1, <2>2
<1>3. /\ draft' \in Nat /\ kept' \in Nat /\ draft' <= work /\ kept' <= work /\ kept' <= kept
      /\ ~crossed => (kept' # 0 => draft' = kept')
  <2>1. \/ draft' = draft /\ kept' = kept
        \/ draft' = 0 /\ kept' = 0
    BY DEF discard_preserved_draft, discard_draft, CrmFlips, OutTick, outVars
  <2> QED
    BY <2>1 DEF OutIInv, OutTyped
<1>4. OutTyped'
  BY <1>1, <1>2, <1>3 DEF OutIInv, OutTyped
<1>5. ASSUME NEW p \in Slots
      PROVE  BreakerOK(monitor[p], lastCall[p], outNow') /\ OutCallOK(outReq[p], work)
  <2>1. /\ monitor[p] \in Health /\ lastCall[p] \in Nat /\ outNow \in Nat
        /\ BreakerOK(monitor[p], lastCall[p], outNow) /\ OutCallOK(outReq[p], work)
    BY DEF OutIInv, OutTyped
  <2> QED
    BY <1>2, <2>1 DEF BreakerOK, Health
<1>6. ASSUME ~crossed PROVE SubmitsOK(outReq, kept')
  <2>1. SubmitsOK(outReq, kept)
    BY <1>6 DEF OutIInv
  <2>2. \A p \in Slots : outReq[p].pc = "submit" => outReq[p].piece \in Nat
    BY DEF OutIInv, OutTyped, Idle, OutCall
  <2> QED
    BY <1>3, <2>1, <2>2 DEF SubmitsOK, OutIInv, OutTyped
<1>7. \A p \in Slots : BreakerOK(monitor[p], lastCall[p], outNow)' /\ OutCallOK(outReq[p], work)'
  BY <1>1, <1>5 DEF BreakerOK, Anchor
<1> QED
  BY <1>1, <1>3, <1>4, <1>6, <1>7 DEF OutIInv

\* The outage keeps its invariant ...
LEMMA OutInvStep == OutIInv /\ [OutNext]_outVars => OutIInv'
<1> SUFFICES ASSUME OutIInv, [OutNext]_outVars PROVE OutIInv'
  OBVIOUS
<1>1. CASE UNCHANGED outVars
  BY <1>1, OutRestHolds
<1>2. CASE OutNext
  BY <1>2, OutReadHolds, SubmitHolds, AnswersHold, RestartHolds, OutRestHolds DEF OutNext
<1> QED
  BY <1>1, <1>2

\* ... which holds at the start ...
LEMMA OutInvInit == OutInit => OutIInv
<1> SUFFICES ASSUME OutInit PROVE OutIInv
  OBVIOUS
<1>1. Closed \in Health /\ BreakerOK(Closed, 0, 1)
  BY DEF Closed, Health, BreakerOK, Anchor
<1>2. OutTyped
  <2>1. crossed \in BOOLEAN
    BY DEF OutInit
  <2>2. monitor \in [Slots -> Health]
    BY <1>1 DEF OutInit
  <2>3. outReq \in [Slots -> OutCall \cup {Idle}]
    BY DEF OutInit
  <2> QED
    BY <2>1, <2>2, <2>3 DEF OutInit, OutTyped
<1>3. \A q \in Slots : OutCallOK(outReq[q], work) /\ outReq[q].pc # "submit"
  BY DEF OutInit, OutCallOK, Idle
<1> QED
  BY <1>1, <1>2, <1>3 DEF OutInit, OutIInv, SubmitsOK

\* ... and keeps all work.
LEMMA OutInvHolds == OutIInv => OutageLosesNoWork
<1> SUFFICES ASSUME OutIInv PROVE OutageLosesNoWork
  OBVIOUS
<1>1. kept # 0 /\ ~crossed => draft = kept
  BY DEF OutIInv
<1>2. ASSUME NEW q \in Slots, outReq[q] # Idle, outReq[q].open
      PROVE  outReq[q].gap >= PROBE_COOLDOWN
  BY <1>2 DEF OutIInv, OutCallOK
<1> QED
  BY <1>1, <1>2 DEF OutageLosesNoWork

-----------------------------------------------------------------------------
(* The steps of the CRM writes. *)

USE CrmWritesAssumption

Told == {"none", "WriteApplied", "WriteDeferred", "WriteRefused", "error"}

\* What a request is at each of its steps.
LEMMA CwRequestIs ==
    ASSUME NEW r \in CwRequest
    PROVE  /\ r.pc = "idle" <=> r = Idle
           /\ r # Idle => r.w \in Writes /\ r.pc \in {"enqueue", "settle"}
           /\ r.pc = "settle" => r.ends \in {"completed", "pending", "needsAttention"}
  BY DEF CwRequest, Idle

\* What becomes of an answer.
LEMMA AnswerIs ==
    ASSUME NEW response \in EspoResponse
    PROVE  /\ execute(response) = "payload" <=> response \in {"ok", "redirect"}
           /\ classify_crm_write_fault(response) = "terminal" =>
                 response \notin {"none", "serverError"}
<1>1. CASE response = "ok"
  BY <1>1 DEF execute
<1>2. CASE response = "redirect"
  BY <1>2 DEF execute
<1>3. CASE response = "unauthorized"
  BY <1>3 DEF execute
<1>4. CASE response \in {"serverError", "none"}
  <2>1. execute(response) = "CrmUnavailable"
    BY <1>4 DEF execute
  <2> QED
    BY <1>4, <2>1 DEF classify_crm_write_fault
<1>5. CASE response \in {"tooManyRequests", "rejected"}
  BY <1>5 DEF execute
<1> QED
  BY <1>1, <1>2, <1>3, <1>4, <1>5 DEF EspoResponse

\* A step of slot q that is about the write w alone.
LEMMA CwStep ==
    ASSUME CwIInv, NEW w \in Writes, landed \subseteq landed', landed' \subseteq landed \cup {w},
           redirected \subseteq redirected', redirected' \subseteq redirected \cup {w},
           outcome' \in [Writes -> Told], retryJob' \in [Writes -> RetryJob],
           \A v \in Writes : v # w => outcome'[v] = outcome[v] /\ retryJob'[v] = retryJob[v],
           NEW q \in Slots, NEW r \in CwRequest, cwReq' = [cwReq EXCEPT ![q] = r],
           cwReq[q] # Idle => cwReq[q].w = w, r # Idle => r.w = w,
           \A p \in Slots : p # q /\ cwReq[p] # Idle => cwReq[p].w # w,
           WriteIsHonest(w, outcome'[w], retryJob'[w], landed', redirected'),
           CwRequestOK(r, outcome', retryJob', landed', redirected'), Unsent(w, outcome', cwReq', landed')
    PROVE  CwIInv'
<1>1. /\ landed \subseteq Writes /\ redirected \subseteq Writes /\ cwReq \in [Slots -> CwRequest]
      /\ retryJob \in [Writes -> RetryJob] /\ outcome \in [Writes -> Told]
  BY DEF CwIInv, CwTyped, CwTypeOK, Told
<1>2. CwTyped'
  BY <1>1 DEF CwTyped, CwTypeOK, Told
<1>3. cwReq'[q] = r /\ \A p \in Slots : p # q => cwReq'[p] = cwReq[p]
  BY <1>1
<1>4. ASSUME NEW v \in Writes
      PROVE  WriteIsHonest(v, outcome'[v], retryJob'[v], landed', redirected')
  <2>1. CASE v # w
    BY <2>1 DEF CwIInv, WriteIsHonest
  <2> QED
    BY <2>1
<1>5. ASSUME NEW v \in Writes
      PROVE  Unsent(v, outcome', cwReq', landed')
  <2>1. CASE v # w
    BY <1>3, <2>1 DEF CwIInv, Unsent
  <2> QED
    BY <2>1
<1>6. ASSUME NEW p \in Slots
      PROVE  CwRequestOK(cwReq'[p], outcome', retryJob', landed', redirected')
  <2>1. CASE p # q
    <3>1. cwReq'[p] = cwReq[p] /\ CwRequestOK(cwReq[p], outcome, retryJob, landed, redirected)
      BY <1>3, <2>1 DEF CwIInv
    <3>2. cwReq[p].pc \in {"enqueue", "settle"} => cwReq[p].w \in Writes /\ cwReq[p].w # w
      BY <1>1, <2>1, CwRequestIs
    <3> QED
      BY <3>1, <3>2 DEF CwRequestOK
  <2> QED
    BY <1>3, <2>1
<1>7. ASSUME NEW o \in Slots, NEW p \in Slots, o # p, cwReq'[o] # Idle, cwReq'[p] # Idle
      PROVE  cwReq'[o].w # cwReq'[p].w
  BY <1>3, <1>7 DEF CwIInv
<1> QED
  BY <1>2, <1>4, <1>5, <1>6, <1>7 DEF CwIInv

\* The synchronous attempt.
LEMMA WriteThroughHolds ==
    ASSUME CwIInv, NEW q \in Slots, NEW w \in Writes, crm_write_through(q, w)
    PROVE  CwIInv'
<1>1. /\ cwReq[q] = Idle /\ outcome[w] = "none" /\ retryJob[w].state = "none"
      /\ \A p \in Slots : cwReq[p] # Idle => cwReq[p].w # w
      /\ retryJob' = retryJob
  BY DEF crm_write_through
<1>2. /\ landed \subseteq Writes /\ redirected \subseteq Writes /\ cwReq \in [Slots -> CwRequest]
      /\ retryJob \in [Writes -> RetryJob] /\ outcome \in [Writes -> Told]
      /\ WriteIsHonest(w, outcome[w], retryJob[w], landed, redirected)
  BY DEF CwIInv, CwTyped, CwTypeOK, Told
<1>3. w \notin landed
  BY <1>1 DEF CwIInv, Unsent
<1>4. PICK response \in EspoResponse :
         /\ apply(w, response)
         /\ IF execute(response) = "payload"
            THEN outcome' = [outcome EXCEPT ![w] = "WriteApplied"] /\ UNCHANGED cwReq
            ELSE IF classify_crm_write_fault(response) = "terminal"
            THEN outcome' = [outcome EXCEPT ![w] = "WriteRefused"] /\ UNCHANGED cwReq
            ELSE /\ cwReq' = [cwReq EXCEPT ![q] = [pc |-> "enqueue", w |-> w]]
                 /\ UNCHANGED outcome
  BY DEF crm_write_through
<1>5. /\ landed \subseteq landed' /\ landed' \subseteq landed \cup {w}
      /\ redirected \subseteq redirected' /\ redirected' \subseteq redirected \cup {w}
  BY <1>4 DEF apply
<1>6. CASE execute(response) = "payload"
  <2>1. w \in landed' \cup redirected' /\ outcome' = [outcome EXCEPT ![w] = "WriteApplied"]
        /\ cwReq' = [cwReq EXCEPT ![q] = Idle] /\ Idle \in CwRequest
    BY <1>1, <1>2, <1>4, <1>6, AnswerIs DEF apply, CwRequest
  <2>2. outcome'[w] = "WriteApplied" /\ outcome' \in [Writes -> Told]
    BY <1>2, <2>1 DEF Told
  <2>3. WriteIsHonest(w, outcome'[w], retryJob'[w], landed', redirected')
    BY <1>1, <1>2, <2>1, <2>2 DEF WriteIsHonest
  <2>4. CwRequestOK(Idle, outcome', retryJob', landed', redirected') /\ Unsent(w, outcome', cwReq', landed')
    BY <2>2 DEF CwRequestOK, Idle, Unsent
  <2> QED
    BY <1>1, <1>2, <1>5, <2>1, <2>2, <2>3, <2>4, CwStep
<1>7. CASE execute(response) # "payload" /\ classify_crm_write_fault(response) = "terminal"
  <2>1. outcome' = [outcome EXCEPT ![w] = "WriteRefused"]
        /\ cwReq' = [cwReq EXCEPT ![q] = Idle] /\ Idle \in CwRequest
    BY <1>1, <1>2, <1>4, <1>7 DEF CwRequest
  <2>2. response \notin {"none", "serverError"}
    BY <1>7, AnswerIs
  <2>3. w \notin landed'
    BY <1>3, <1>4, <1>7, <2>2, AnswerIs DEF apply
  <2>4. outcome'[w] = "WriteRefused" /\ outcome' \in [Writes -> Told]
    BY <1>2, <2>1 DEF Told
  <2>5. WriteIsHonest(w, outcome'[w], retryJob'[w], landed', redirected')
    BY <1>1, <1>2, <2>3, <2>4 DEF WriteIsHonest
  <2>6. CwRequestOK(Idle, outcome', retryJob', landed', redirected') /\ Unsent(w, outcome', cwReq', landed')
    BY <2>4 DEF CwRequestOK, Idle, Unsent
  <2> QED
    BY <1>1, <1>2, <1>5, <2>1, <2>4, <2>5, <2>6, CwStep
<1>8. CASE execute(response) # "payload" /\ classify_crm_write_fault(response) # "terminal"
  <2> DEFINE r == [pc |-> "enqueue", w |-> w]
  <2>1. outcome' = outcome /\ cwReq' = [cwReq EXCEPT ![q] = r]
    BY <1>4, <1>8
  <2>2. r \in CwRequest /\ r # Idle /\ r.w = w /\ CwRequestOK(r, outcome', retryJob', landed', redirected')
    BY <1>1, <2>1 DEF CwRequest, CwRequestOK, Idle
  <2> HIDE DEF r
  <2>3. WriteIsHonest(w, outcome'[w], retryJob'[w], landed', redirected')
    BY <1>1, <1>2, <2>1 DEF WriteIsHonest
  <2>4. cwReq'[q] = r
    BY <1>2, <2>1
  <2>5. Unsent(w, outcome', cwReq', landed')
    BY <2>2, <2>4 DEF Unsent
  <2> QED
    BY <1>1, <1>2, <1>5, <2>1, <2>2, <2>3, <2>5, CwStep
<1> QED
  BY <1>6, <1>7, <1>8

\* The deferred write's job is committed.
LEMMA CommitDeferredHolds ==
    ASSUME CwIInv, NEW q \in Slots, CommitDeferred(q)
    PROVE  CwIInv'
<1> DEFINE w == cwReq[q].w
           j == [retryJob[w] EXCEPT !.state = "pending"]
<1>1. /\ landed \subseteq Writes /\ redirected \subseteq Writes /\ cwReq \in [Slots -> CwRequest]
      /\ retryJob \in [Writes -> RetryJob] /\ outcome \in [Writes -> Told]
  BY DEF CwIInv, CwTyped, CwTypeOK, Told
<1>2. w \in Writes /\ cwReq[q] # Idle
  BY <1>1, CwRequestIs DEF CommitDeferred, Idle
<1>3. /\ retryJob' = [retryJob EXCEPT ![w] = j] /\ landed' = landed /\ redirected' = redirected
      /\ outcome' = [outcome EXCEPT ![w] = "WriteDeferred"]
      /\ cwReq' = [cwReq EXCEPT ![q] = Idle]
  BY DEF CommitDeferred
<1>4. outcome[w] = "none" /\ WriteIsHonest(w, outcome[w], retryJob[w], landed, redirected)
  BY <1>2 DEF CwIInv, CwRequestOK, CommitDeferred
<1>5. j \in RetryJob /\ j.state = "pending" /\ j.tries = retryJob[w].tries
  BY <1>1, <1>2 DEF RetryJob
<1>6. \A p \in Slots : p # q /\ cwReq[p] # Idle => cwReq[p].w # w
  BY <1>2 DEF CwIInv
<1>7. retryJob[w].tries < WriteTries
  BY <1>1, <1>2, <1>4 DEF WriteIsHonest, RetryJob
<1> HIDE DEF w, j
<1>8. /\ outcome'[w] = "WriteDeferred" /\ retryJob'[w] = j
      /\ outcome' \in [Writes -> Told] /\ retryJob' \in [Writes -> RetryJob]
  BY <1>1, <1>2, <1>3, <1>5 DEF Told
<1>9. WriteIsHonest(w, outcome'[w], retryJob'[w], landed', redirected')
  BY <1>5, <1>7, <1>8 DEF WriteIsHonest
<1>10. CwRequestOK(Idle, outcome', retryJob', landed', redirected') /\ Unsent(w, outcome', cwReq', landed')
  BY <1>8 DEF CwRequestOK, Idle, Unsent
<1>11. /\ landed \subseteq landed' /\ landed' \subseteq landed \cup {w}
       /\ redirected \subseteq redirected' /\ redirected' \subseteq redirected \cup {w}
       /\ \A v \in Writes : v # w => outcome'[v] = outcome[v] /\ retryJob'[v] = retryJob[v]
       /\ cwReq[q] # Idle => cwReq[q].w = w
       /\ Idle \in CwRequest
  BY <1>1, <1>3 DEF w, CwRequest
<1> QED
  BY <1>2, <1>3, <1>6, <1>8, <1>9, <1>10, <1>11, CwStep

\* A worker runs the job of a deferred write.
LEMMA RetryJobHolds ==
    ASSUME CwIInv, NEW q \in Slots, NEW w \in Writes, crm_write_retry_job(q, w)
    PROVE  CwIInv'
<1> DEFINE j == [retryJob[w] EXCEPT !.state = "running"]
<1>1. /\ landed \subseteq Writes /\ redirected \subseteq Writes /\ cwReq \in [Slots -> CwRequest]
      /\ retryJob \in [Writes -> RetryJob] /\ outcome \in [Writes -> Told]
      /\ WriteIsHonest(w, outcome[w], retryJob[w], landed, redirected)
  BY DEF CwIInv, CwTyped, CwTypeOK, Told
<1>2. /\ cwReq[q] = Idle /\ retryJob[w].state = "pending" /\ outcome' = outcome
      /\ retryJob' = [retryJob EXCEPT ![w] = j]
  BY DEF crm_write_retry_job
<1>3. PICK response \in EspoResponse :
         /\ apply(w, response)
         /\ cwReq' = [cwReq EXCEPT ![q] = [pc |-> "settle", w |-> w,
                ends |-> IF execute(response) = "payload" THEN "completed"
                         ELSE IF classify_crm_write_fault(response) = "transient" THEN "pending"
                         ELSE "needsAttention"]]
  BY DEF crm_write_retry_job
<1> DEFINE ends == IF execute(response) = "payload" THEN "completed"
                   ELSE IF classify_crm_write_fault(response) = "transient" THEN "pending"
                   ELSE "needsAttention"
           r == [pc |-> "settle", w |-> w, ends |-> ends]
<1>4. /\ landed \subseteq landed' /\ landed' \subseteq landed \cup {w}
      /\ redirected \subseteq redirected' /\ redirected' \subseteq redirected \cup {w}
  BY <1>3 DEF apply
<1>5. /\ ends \in {"completed", "pending", "needsAttention"}
      /\ ends = "completed" => w \in landed' \cup redirected'
  BY <1>3, AnswerIs DEF apply
<1>6. cwReq' = [cwReq EXCEPT ![q] = r]
  BY <1>3
<1> HIDE DEF ends
<1>7. r \in CwRequest /\ r # Idle /\ r.w = w /\ r.pc = "settle" /\ r.ends = ends
  BY <1>5 DEF CwRequest, Idle
<1>8. j \in RetryJob /\ j.state = "running" /\ j.tries = retryJob[w].tries
  BY <1>1 DEF RetryJob
<1> HIDE DEF j, r
<1>9. retryJob'[w] = j /\ retryJob' \in [Writes -> RetryJob] /\ cwReq'[q] = r
  BY <1>1, <1>2, <1>6, <1>7, <1>8
<1>10. outcome[w] = "WriteDeferred" /\ retryJob[w].tries < WriteTries
  BY <1>1, <1>2 DEF WriteIsHonest
<1>11. WriteIsHonest(w, outcome'[w], retryJob'[w], landed', redirected')
  BY <1>2, <1>8, <1>9, <1>10 DEF WriteIsHonest
<1>12. CwRequestOK(r, outcome', retryJob', landed', redirected') /\ Unsent(w, outcome', cwReq', landed')
  BY <1>2, <1>5, <1>7, <1>8, <1>9, <1>10 DEF CwRequestOK, Unsent
<1>13. ASSUME NEW p \in Slots, p # q, cwReq[p] # Idle PROVE cwReq[p].w # w
  <2>1. CwRequestOK(cwReq[p], outcome, retryJob, landed, redirected) /\ cwReq[p] \in CwRequest
    BY <1>1 DEF CwIInv
  <2> QED
    BY <1>2, <1>10, <1>13, <2>1, CwRequestIs DEF CwRequestOK
<1>14. \A v \in Writes : v # w => outcome'[v] = outcome[v] /\ retryJob'[v] = retryJob[v]
  BY <1>1, <1>2
<1>15. outcome' \in [Writes -> Told] /\ (cwReq[q] # Idle => cwReq[q].w = w) /\ (r # Idle => r.w = w)
  BY <1>1, <1>2, <1>7
<1> QED
  BY <1>4, <1>6, <1>7, <1>9, <1>11, <1>12, <1>13, <1>14, <1>15, CwStep

\* The worker settles the attempt.
LEMMA SettleHolds ==
    ASSUME CwIInv, NEW q \in Slots, SettleRetry(q)
    PROVE  CwIInv'
<1> DEFINE w == cwReq[q].w
           ends == cwReq[q].ends
           tries == IF ends = "completed" THEN retryJob[w].tries ELSE retryJob[w].tries + 1
           state == IF ends = "pending" /\ tries >= WriteTries THEN "needsAttention" ELSE ends
           refused == ends = "needsAttention"
           j == [state |-> state, tries |-> tries, refused |-> refused]
<1>1. /\ landed \subseteq Writes /\ redirected \subseteq Writes /\ cwReq \in [Slots -> CwRequest]
      /\ retryJob \in [Writes -> RetryJob] /\ outcome \in [Writes -> Told]
  BY DEF CwIInv, CwTyped, CwTypeOK, Told
<1>2. w \in Writes /\ cwReq[q] # Idle /\ ends \in {"completed", "pending", "needsAttention"}
  BY <1>1, CwRequestIs DEF SettleRetry, Idle
<1>3. /\ retryJob' = [retryJob EXCEPT ![w] = j] /\ landed' = landed
      /\ redirected' = redirected /\ outcome' = outcome
      /\ cwReq' = [cwReq EXCEPT ![q] = Idle]
  BY DEF SettleRetry
<1>4. /\ retryJob[w].state = "running" /\ (ends = "completed" => w \in landed \cup redirected)
      /\ WriteIsHonest(w, outcome[w], retryJob[w], landed, redirected)
  BY <1>2 DEF CwIInv, CwRequestOK, SettleRetry
<1>5. retryJob[w].tries \in Nat /\ retryJob[w].tries < WriteTries /\ outcome[w] = "WriteDeferred"
  BY <1>1, <1>2, <1>4 DEF WriteIsHonest, RetryJob
<1>6. /\ tries \in 0 .. WriteTries /\ state \in {"pending", "completed", "needsAttention"}
      /\ state = "completed" => ends = "completed"
      /\ state = "pending" => tries < WriteTries
      /\ state = "needsAttention" => ends = "needsAttention" \/ tries >= WriteTries
      /\ refused \in BOOLEAN
  BY <1>2, <1>5
<1> HIDE DEF tries, state
<1>7. \A p \in Slots : p # q /\ cwReq[p] # Idle => cwReq[p].w # w
  BY <1>2 DEF CwIInv
<1>8. /\ j \in RetryJob /\ j.state = state /\ j.tries = tries
      /\ j.refused <=> ends = "needsAttention"
  BY <1>6 DEF RetryJob
<1> HIDE DEF w, ends, j
<1>9. retryJob'[w] = j /\ retryJob' \in [Writes -> RetryJob]
  BY <1>1, <1>2, <1>3, <1>8
<1>10. WriteIsHonest(w, outcome'[w], retryJob'[w], landed', redirected')
  BY <1>3, <1>4, <1>5, <1>6, <1>8, <1>9 DEF WriteIsHonest
<1>11. CwRequestOK(Idle, outcome', retryJob', landed', redirected') /\ Unsent(w, outcome', cwReq', landed')
  BY <1>3, <1>5 DEF CwRequestOK, Idle, Unsent
<1>12. /\ landed \subseteq landed' /\ landed' \subseteq landed \cup {w}
       /\ redirected \subseteq redirected' /\ redirected' \subseteq redirected \cup {w}
       /\ \A v \in Writes : v # w => outcome'[v] = outcome[v] /\ retryJob'[v] = retryJob[v]
       /\ cwReq[q] # Idle => cwReq[q].w = w
       /\ Idle \in CwRequest /\ outcome' \in [Writes -> Told]
  BY <1>1, <1>3 DEF w, CwRequest
<1> QED
  BY <1>2, <1>3, <1>7, <1>9, <1>10, <1>11, <1>12, CwStep

\* The processes end.
LEMMA CwCrashHolds == ASSUME CwIInv, CwCrash PROVE CwIInv'
<1>1. /\ landed \subseteq Writes /\ redirected \subseteq Writes /\ cwReq \in [Slots -> CwRequest]
      /\ retryJob \in [Writes -> RetryJob] /\ outcome \in [Writes -> Told]
  BY DEF CwIInv, CwTyped, CwTypeOK, Told
<1>2. landed' = landed /\ redirected' = redirected /\ cwReq' = [q \in Slots |-> Idle]
  BY DEF CwCrash
<1>3. \A q \in Slots : cwReq'[q] = Idle
  BY <1>2
<1>4. ASSUME NEW w \in Writes
      PROVE  /\ outcome'[w] \in Told /\ retryJob'[w] \in RetryJob
             /\ WriteIsHonest(w, outcome'[w], retryJob'[w], landed', redirected')
             /\ Unsent(w, outcome', cwReq', landed')
  <2> DEFINE j == [retryJob[w] EXCEPT !.state = "pending"]
  <2>1. WriteIsHonest(w, outcome[w], retryJob[w], landed, redirected) /\ Unsent(w, outcome, cwReq, landed)
    BY DEF CwIInv
  <2>2. retryJob[w] \in RetryJob
    BY <1>1
  <2>3. j \in RetryJob /\ j.state = "pending" /\ j.tries = retryJob[w].tries
    BY <2>2 DEF RetryJob
  <2>4. retryJob'[w] = IF retryJob[w].state = "running" THEN j ELSE retryJob[w]
    BY DEF CwCrash
  <2> HIDE DEF j
  <2>5. CASE \E q \in Slots : cwReq[q].pc = "enqueue" /\ cwReq[q].w = w
    <3>1. outcome'[w] = "error" /\ outcome[w] = "none"
      BY <2>5 DEF CwCrash, CwIInv, CwRequestOK
    <3>2. retryJob'[w] = retryJob[w]
      BY <2>1, <2>2, <2>4, <3>1 DEF WriteIsHonest, RetryJob
    <3> QED
      BY <1>2, <2>1, <2>2, <3>1, <3>2 DEF WriteIsHonest, Unsent, Told
  <2>6. CASE ~\E q \in Slots : cwReq[q].pc = "enqueue" /\ cwReq[q].w = w
    <3>1. outcome'[w] = outcome[w]
      BY <2>6 DEF CwCrash
    <3>2. outcome[w] = "none" => w \notin landed
      <4> SUFFICES ASSUME outcome[w] = "none", NEW q \in Slots, cwReq[q] # Idle, cwReq[q].w = w
                   PROVE  FALSE
        BY <2>1 DEF Unsent
      <4>1. cwReq[q].pc = "settle"
        BY <1>1, <2>6, CwRequestIs
      <4>2. retryJob[w].state = "running"
        BY <4>1 DEF CwIInv, CwRequestOK
      <4> QED
        BY <2>1, <4>2 DEF WriteIsHonest
    <3>3. WriteIsHonest(w, outcome[w], retryJob'[w], landed, redirected)
      BY <2>1, <2>2, <2>3, <2>4 DEF WriteIsHonest
    <3>4. retryJob'[w] \in RetryJob /\ outcome'[w] \in Told
      BY <1>1, <2>2, <2>3, <2>4, <3>1
    <3> QED
      BY <1>2, <3>1, <3>2, <3>3, <3>4 DEF Unsent
  <2> QED
    BY <2>5, <2>6
<1>5. CwTyped'
  <2>1. outcome' \in [Writes -> Told]
    BY <1>4 DEF CwCrash
  <2>2. retryJob' \in [Writes -> RetryJob]
    BY <1>4 DEF CwCrash
  <2>3. cwReq' \in [Slots -> CwRequest]
    BY <1>2 DEF CwRequest
  <2> QED
    BY <1>1, <1>2, <2>1, <2>2, <2>3 DEF CwTyped, CwTypeOK, Told
<1>6. \A q \in Slots : CwRequestOK(cwReq'[q], outcome', retryJob', landed', redirected')
  BY <1>3 DEF CwRequestOK, Idle
<1> QED
  BY <1>3, <1>4, <1>5, <1>6 DEF CwIInv

\* The CRM writes keep their invariant ...
LEMMA CwInvStep == CwIInv /\ [CwNext]_cwVars => CwIInv'
<1> SUFFICES ASSUME CwIInv, [CwNext]_cwVars PROVE CwIInv'
  OBVIOUS
<1>1. CASE UNCHANGED cwVars
  BY <1>1 DEF cwVars, CwIInv, CwTyped, CwTypeOK, WriteIsHonest, Unsent, CwRequestOK
<1>2. CASE CwNext
  BY <1>2, WriteThroughHolds, CommitDeferredHolds, RetryJobHolds, SettleHolds, CwCrashHolds DEF CwNext
<1> QED
  BY <1>1, <1>2

\* ... which holds at the start ...
LEMMA CwInvInit == CwInit => CwIInv
<1> SUFFICES ASSUME CwInit PROVE CwIInv
  OBVIOUS
<1>1. CwTyped
  <2>1. [state |-> "none", tries |-> 0, refused |-> FALSE] \in RetryJob
    BY DEF RetryJob
  <2>2. retryJob \in [Writes -> RetryJob]
    BY <2>1 DEF CwInit
  <2> QED
    BY <2>2 DEF CwInit, CwTyped, CwTypeOK, CwRequest
<1>2. \A w \in Writes : WriteIsHonest(w, outcome[w], retryJob[w], landed, redirected)
  BY DEF CwInit, WriteIsHonest
<1>3. /\ \A w \in Writes : Unsent(w, outcome, cwReq, landed)
      /\ \A q \in Slots : cwReq[q] = Idle /\ CwRequestOK(cwReq[q], outcome, retryJob, landed, redirected)
  BY DEF CwInit, Unsent, CwRequestOK, Idle
<1> QED
  BY <1>1, <1>2, <1>3 DEF CwIInv

\* ... and makes every outcome honest.
LEMMA CwInvHolds == CwIInv => OutcomesAreHonest
<1> SUFFICES ASSUME CwIInv, NEW w \in Writes PROVE
        /\ outcome[w] = "WriteApplied" => w \in landed \cup redirected
        /\ outcome[w] = "WriteDeferred" =>
              /\ retryJob[w].state # "none"
              /\ retryJob[w].state = "completed" => w \in landed \cup redirected
              /\ retryJob[w].state = "needsAttention" =>
                    retryJob[w].refused \/ retryJob[w].tries >= WriteTries
        /\ outcome[w] = "WriteRefused" => w \notin landed /\ retryJob[w].state = "none"
  BY DEF OutcomesAreHonest
<1>1. WriteIsHonest(w, outcome[w], retryJob[w], landed, redirected)
  BY DEF CwIInv
<1> QED
  BY <1>1 DEF WriteIsHonest

-----------------------------------------------------------------------------
(* The steps of registrations and runs. *)

\* What a request is at each of its steps.
LEMMA WpRequestIs ==
    ASSUME NEW w \in WpRequest
    PROVE  /\ w.pc = "idle" <=> w = Idle
           /\ w.pc \in {"create", "patch", "delete"} => w.reg \in Regs /\ w.row \in RegRow
           /\ w.pc \in {"create", "patch"} => w.targets \in SUBSET WpSources
           /\ w.pc = "delete" => w.links \in SUBSET (Regs \X WpSources)
           /\ w.pc \in {"launch", "step", "commit", "cancel"} =>
                 w.run \in Runs /\ w.doc \in WpDocs /\ w.row \in Started
  BY DEF WpRequest, Idle

\* An idle slot asks for nothing.
LEMMA WpIdle ==
    ASSUME NEW g, NEW l, NEW ru, NEW touched
    PROVE  /\ Idle \in WpRequest /\ RegRequestOK(Idle, g, l) /\ RunRequestOK(Idle, g, ru, touched)
           /\ \A w : LaunchesApart(Idle, w) /\ LaunchesApart(w, Idle)
  BY DEF WpRequest, Idle, RegRequestOK, RunRequestOK, LaunchesApart

\* A request has been read and decided.
LEMMA BeginHolds ==
    ASSUME WpIInv, NEW q \in Slots, NEW w \in WpRequest, Begin(q, w),
           UNCHANGED <<regs, links, runs, applied, bells, edited>>,
           RegRequestOK(w, regs, links), RunRequestOK(w, regs, runs, edited),
           w.pc = "launch" => \A p \in Slots : wpReq[p].pc = "launch" => wpReq[p].run # w.run
    PROVE  WpIInv'
<1>1. wpReq' = [wpReq EXCEPT ![q] = w] /\ wpReq \in [Slots -> WpRequest]
  BY DEF Begin, WpIInv, WpTyped
<1>2. wpReq'[q] = w /\ \A p \in Slots : p # q => wpReq'[p] = wpReq[p]
  BY <1>1
<1>3. WpTyped'
  BY <1>1 DEF WpIInv, WpTyped
<1>4. \A p \in Slots : /\ RegRequestOK(wpReq'[p], regs', links')
                       /\ RunRequestOK(wpReq'[p], regs', runs', edited')
  BY <1>2 DEF WpIInv
<1>5. \A o, p \in Slots : o # p => LaunchesApart(wpReq'[o], wpReq'[p])
  BY <1>2 DEF WpIInv, LaunchesApart
<1> QED
  BY <1>3, <1>4, <1>5 DEF WpIInv

\* A request ends and has written nothing.
LEMMA FinishHolds ==
    ASSUME WpIInv, NEW q \in Slots, Finish(q),
           UNCHANGED <<regs, links, runs, applied, bells, edited>>
    PROVE  WpIInv'
<1>1. wpReq' = [wpReq EXCEPT ![q] = Idle] /\ wpReq \in [Slots -> WpRequest]
  BY DEF Finish, WpIInv, WpTyped
<1>2. wpReq'[q] = Idle /\ \A p \in Slots : p # q => wpReq'[p] = wpReq[p]
  BY <1>1
<1>3. WpTyped'
  BY <1>1, WpIdle DEF WpIInv, WpTyped
<1>4. \A p \in Slots : /\ RegRequestOK(wpReq'[p], regs', links')
                       /\ RunRequestOK(wpReq'[p], regs', runs', edited')
  BY <1>2, WpIdle DEF WpIInv
<1>5. \A o, p \in Slots : o # p => LaunchesApart(wpReq'[o], wpReq'[p])
  BY <1>2, WpIdle DEF WpIInv
<1> QED
  BY <1>3, <1>4, <1>5 DEF WpIInv

\* A registration goes one version on: no other request that read it lands, and
\* the runs are edited if its graph is another.
LEMMA RegWriteHolds ==
    ASSUME WpIInv, NEW q \in Slots, Finish(q), UNCHANGED <<runs, applied, bells>>,
           NEW h \in Regs, NEW row \in RegRow, regs' = [regs EXCEPT ![h] = row],
           row.version = regs[h].version + 1, step_graph_valid(row.doc),
           links' \subseteq Regs \X WpSources,
           \A link \in links' : link \in links \/ link[1] = h,
           \A link \in links' : link[1] = h => row.live,
           row.live => \A g \in Regs : g # h /\ regs[g].live => regs[g].name # row.name,
           \/ regs[h].version = 0 /\ edited' = edited
           \/ row.doc = regs[h].doc /\ edited' = edited
           \/ edited' = edited \cup {r \in Runs : runs[r].reg = h /\ row.doc # regs[h].doc}
    PROVE  WpIInv'
<1>1. /\ wpReq' = [wpReq EXCEPT ![q] = Idle] /\ wpReq \in [Slots -> WpRequest]
      /\ regs \in [Regs -> RegRow] /\ \A g \in Regs : regs[g].version \in Nat
  BY DEF Finish, WpIInv, WpTyped, RegRow
<1>2. wpReq'[q] = Idle /\ \A p \in Slots : p # q => wpReq'[p] = wpReq[p]
  BY <1>1
<1>3. regs'[h] = row /\ (\A g \in Regs : g # h => regs'[g] = regs[g]) /\ regs' \in [Regs -> RegRow]
  BY <1>1
<1>4. WpTyped'
  BY <1>1, <1>3, WpIdle DEF WpIInv, WpTyped
<1>5. row.version \in Nat /\ row.version > 0
  BY <1>1
<1>6. \A g \in Regs : RegOK(regs'[g]) /\ (regs[g].version > 0 => regs'[g].version > 0)
  BY <1>3, <1>5 DEF WpIInv, RegOK
<1>7. ASSUME NEW link \in links' PROVE regs'[link[1]].live
  <2>1. link[1] \in Regs
    OBVIOUS
  <2>2. CASE link[1] = h
    BY <1>3, <2>2
  <2>3. CASE link[1] # h
    BY <1>3, <2>1, <2>3 DEF WpIInv
  <2> QED
    BY <2>2, <2>3
<1>8. NamesUnique(regs')
  BY <1>3 DEF WpIInv, NamesUnique
<1>9. edited \subseteq edited'
  OBVIOUS
<1>10. \A r \in Runs : runs[r].version > 0 /\ r \notin edited' /\ runs[r].reg = h => row.doc = regs[h].doc
  BY DEF WpIInv, RunOK
<1>11. ASSUME NEW r \in Runs
       PROVE  RunOK(runs[r], applied[r], bells[r], regs', r \in edited')
  <2> DEFINE touched == r \in edited
             touching == r \in edited'
  <2>1. RunOK(runs[r], applied[r], bells[r], regs, touched) /\ (touched => touching)
    BY <1>9 DEF WpIInv
  <2>2. CASE runs[r].version > 0
    <3>1. runs[r].reg \in Regs
      BY <2>2 DEF WpIInv, WpTyped, Started, Unstarted
    <3>2. CASE runs[r].reg # h
      BY <1>3, <2>1, <3>1, <3>2 DEF RunOK
    <3>3. CASE runs[r].reg = h
      <4>1. ~touching => row.doc = regs[h].doc
        BY <1>10, <2>2, <3>3
      <4>2. regs'[runs[r].reg] = row
        BY <1>3, <3>3
      <4>3. ~touching => ~touched
        BY <2>1
      <4>4. ~touching => WalkOK(runs[r], row.doc)
        BY <2>1, <2>2, <3>3, <4>1, <4>3 DEF RunOK
      <4> QED
        BY <1>5, <2>1, <4>2, <4>4 DEF RunOK
    <3> QED
      BY <3>2, <3>3
  <2>3. CASE ~(runs[r].version > 0)
    BY <2>1, <2>3 DEF RunOK
  <2> QED
    BY <2>2, <2>3
<1>12. ASSUME NEW p \in Slots, p # q
       PROVE  RegRequestOK(wpReq[p], regs', links')
  <2> DEFINE w == wpReq[p]
  <2>1. w \in WpRequest /\ RegRequestOK(w, regs, links)
    BY <1>1 DEF WpIInv
  <2>2. CASE w.pc \in {"patch", "delete"}
    <3>1. w.reg \in Regs /\ w.row.version \in Nat
      BY <2>1, <2>2, WpRequestIs DEF RegRow
    <3>2. CASE w.reg = h
      <4>1. w.row.version <= regs[h].version + 1
        BY <2>1, <2>2, <3>2 DEF RegRequestOK
      <4>2. w.row.version < regs'[w.reg].version + 1 /\ w.row.version # regs'[w.reg].version + 1
        BY <1>1, <1>3, <3>1, <3>2, <4>1
      <4>3. w.row.version <= regs'[w.reg].version + 1
        BY <1>1, <1>3, <3>1, <3>2, <4>1
      <4> QED
        BY <2>1, <2>2, <4>2, <4>3 DEF RegRequestOK
    <3>3. CASE w.reg # h
      <4>1. regs'[w.reg] = regs[w.reg] /\ \A link \in links' : link[1] = w.reg => link \in links
        BY <1>3, <3>1, <3>3
      <4>2. w.pc = "delete" /\ w.row.version = regs[w.reg].version + 1 =>
               \A link \in links' : link[1] = w.reg => link \in w.links
        BY <2>1, <4>1 DEF RegRequestOK
      <4> QED
        BY <2>1, <2>2, <4>1, <4>2 DEF RegRequestOK
    <3> QED
      BY <3>2, <3>3
  <2>3. CASE w.pc \notin {"patch", "delete"}
    BY <2>1, <2>3 DEF RegRequestOK
  <2> QED
    BY <2>2, <2>3
<1>13. ASSUME NEW p \in Slots, p # q
       PROVE  RunRequestOK(wpReq[p], regs', runs, edited')
  <2> DEFINE w == wpReq[p]
  <2>1. w \in WpRequest /\ RunRequestOK(w, regs, runs, edited)
    BY <1>1 DEF WpIInv
  <2>2. CASE w.pc = "launch"
    <3>1. w.row.reg \in Regs
      BY <2>1, <2>2, WpRequestIs DEF Started
    <3> QED
      BY <1>6, <2>1, <2>2, <3>1 DEF RunRequestOK
  <2>3. CASE w.pc \in {"step", "commit", "cancel"}
    <3>1. w.row.reg \in Regs /\ w.run \in Runs
      BY <2>1, <2>3, WpRequestIs DEF Started
    <3>2. ASSUME w.row.version = runs[w.run].version + 1, w.run \notin edited'
          PROVE  WalkOK(w.row, regs'[w.row.reg].doc)
      <4>1. WalkOK(w.row, regs[w.row.reg].doc) /\ w.row.reg = runs[w.run].reg /\ runs[w.run].version > 0
        BY <1>9, <2>1, <2>3, <3>2 DEF RunRequestOK
      <4>2. regs'[w.row.reg].doc = regs[w.row.reg].doc
        BY <1>3, <1>10, <3>1, <3>2, <4>1
      <4> QED
        BY <4>1, <4>2
    <3>3. w.pc # "launch" /\ w.pc \in {"step", "commit", "cancel"}
      BY <2>3
    <3> QED
      BY <2>1, <3>2, <3>3 DEF RunRequestOK
  <2>4. CASE w.pc \notin {"launch", "step", "commit", "cancel"}
    BY <2>4 DEF RunRequestOK
  <2> QED
    BY <2>2, <2>3, <2>4
<1>14. \A p \in Slots : /\ RegRequestOK(wpReq'[p], regs', links')
                        /\ RunRequestOK(wpReq'[p], regs', runs', edited')
  BY <1>2, <1>12, <1>13, WpIdle
<1>15. \A o, p \in Slots : o # p => LaunchesApart(wpReq'[o], wpReq'[p])
  BY <1>2, WpIdle DEF WpIInv
<1> QED
  BY <1>4, <1>6, <1>7, <1>8, <1>11, <1>14, <1>15 DEF WpIInv

\* A run goes one version on: no other request that read it lands.
LEMMA RunWriteHolds ==
    ASSUME WpIInv, NEW q \in Slots, Finish(q), UNCHANGED <<regs, links>>,
           NEW r \in Runs, NEW row \in Started, runs' = [runs EXCEPT ![r] = row],
           row.version = runs[r].version + 1,
           applied' \in [Runs -> Nat], bells' \in [Runs -> Nat],
           \A x \in Runs : x # r => applied'[x] = applied[x] /\ bells'[x] = bells[x],
           edited' = edited \/ edited' = edited \cup {r},
           RunOK(row, applied'[r], bells'[r], regs, r \in edited'),
           \A p \in Slots : p # q /\ wpReq[p].pc = "launch" => wpReq[p].run # r
    PROVE  WpIInv'
<1>1. /\ wpReq' = [wpReq EXCEPT ![q] = Idle] /\ wpReq \in [Slots -> WpRequest]
      /\ runs \in [Runs -> Unstarted \cup Started]
  BY DEF Finish, WpIInv, WpTyped
<1>2. wpReq'[q] = Idle /\ \A p \in Slots : p # q => wpReq'[p] = wpReq[p]
  BY <1>1
<1>3. runs'[r] = row /\ \A x \in Runs : x # r => runs'[x] = runs[x]
  BY <1>1
<1>4. WpTyped'
  BY <1>1, WpIdle DEF WpIInv, WpTyped
<1>5. runs[r].version \in Nat /\ row.version \in Nat /\ row.version > 0
  BY <1>1 DEF Started, Unstarted
<1>6. ASSUME NEW x \in Runs
      PROVE  RunOK(runs'[x], applied'[x], bells'[x], regs, x \in edited')
  <2>1. CASE x = r
    BY <1>3, <2>1
  <2>2. CASE x # r
    <3>1. x \in edited' <=> x \in edited
      BY <2>2
    <3>2. runs'[x] = runs[x] /\ applied'[x] = applied[x] /\ bells'[x] = bells[x]
      BY <1>3, <2>2
    <3>3. RunOK(runs[x], applied[x], bells[x], regs, x \in edited)
      BY DEF WpIInv
    <3> QED
      BY <3>1, <3>2, <3>3 DEF RunOK
  <2> QED
    BY <2>1, <2>2
<1>7. ASSUME NEW p \in Slots, p # q
      PROVE  RunRequestOK(wpReq[p], regs, runs', edited')
  <2> DEFINE w == wpReq[p]
  <2>1. w \in WpRequest /\ RunRequestOK(w, regs, runs, edited)
    BY <1>1 DEF WpIInv
  <2>2. CASE w.pc = "launch"
    <3>1. w.run \in Runs /\ w.run # r
      BY <1>7, <2>1, <2>2, WpRequestIs
    <3> QED
      BY <1>3, <2>1, <2>2, <3>1 DEF RunRequestOK
  <2>3. CASE w.pc \in {"step", "commit", "cancel"}
    <3>1. w.run \in Runs /\ w.row.version \in Nat
      BY <2>1, <2>3, WpRequestIs DEF Started
    <3>2. CASE w.run = r
      <4>1. w.row.version <= runs[r].version + 1
        BY <2>1, <2>3, <3>2 DEF RunRequestOK
      <4>2. /\ w.row.version <= runs'[w.run].version + 1 /\ runs'[w.run].version > 0
            /\ w.row.version # runs'[w.run].version + 1
        BY <1>3, <1>5, <3>1, <3>2, <4>1
      <4> QED
        BY <2>3, <4>2 DEF RunRequestOK
    <3>3. CASE w.run # r
      <4>1. runs'[w.run] = runs[w.run] /\ (w.run \in edited' <=> w.run \in edited)
        BY <1>3, <3>1, <3>3
      <4> QED
        BY <2>1, <2>3, <4>1 DEF RunRequestOK
    <3> QED
      BY <3>2, <3>3
  <2>4. CASE w.pc \notin {"launch", "step", "commit", "cancel"}
    BY <2>4 DEF RunRequestOK
  <2> QED
    BY <2>2, <2>3, <2>4
<1>8. \A p \in Slots : /\ RegRequestOK(wpReq'[p], regs', links')
                       /\ RunRequestOK(wpReq'[p], regs', runs', edited')
  BY <1>2, <1>7, WpIdle DEF WpIInv
<1>9. \A o, p \in Slots : o # p => LaunchesApart(wpReq'[o], wpReq'[p])
  BY <1>2, WpIdle DEF WpIInv
<1> QED
  BY <1>4, <1>6, <1>8, <1>9 DEF WpIInv

\* Requests about registrations are read and decided.
LEMMA RegReadHolds ==
    ASSUME WpIInv, NEW q \in Slots, NEW h \in Regs, NEW name \in WpNames, NEW doc \in WpDocs,
           NEW c \in WpContracts, NEW targets \in SUBSET WpSources, NEW retarget \in BOOLEAN,
           \/ create_registration(q, h, name, doc, c, targets)
           \/ patch_registration(q, h, name, doc, c, retarget, targets)
           \/ delete_registration(q, h)
    PROVE  WpIInv'
<1>1. /\ UNCHANGED <<regs, links, runs, applied, bells, edited>>
      /\ regs[h] \in RegRow /\ regs[h].version \in Nat /\ RegOK(regs[h])
      /\ links \subseteq Regs \X WpSources
  BY DEF create_registration, patch_registration, delete_registration, WpRead, WpIInv, WpTyped, RegRow
<1>2. CASE create_registration(q, h, name, doc, c, targets)
  <2> DEFINE row == [live |-> TRUE, name |-> name, doc |-> doc, contract |-> c, version |-> 1]
             w == [pc |-> "create", reg |-> h, targets |-> targets, row |-> row]
  <2>1. Begin(q, w) /\ step_graph_valid(doc)
    BY <1>2 DEF create_registration
  <2>2. row \in RegRow /\ row.live /\ row.version = 1 /\ row.doc = doc
    BY DEF RegRow
  <2> HIDE DEF row
  <2>3. w \in WpRequest /\ w.pc = "create" /\ w.row = row
    BY <2>2 DEF WpRequest
  <2> HIDE DEF w
  <2>4. RegRequestOK(w, regs, links) /\ RunRequestOK(w, regs, runs, edited)
    BY <2>1, <2>2, <2>3 DEF RegRequestOK, RunRequestOK
  <2> QED
    BY <1>1, <2>1, <2>3, <2>4, BeginHolds
<1>3. CASE patch_registration(q, h, name, doc, c, retarget, targets)
  <2> DEFINE version == regs[h].version + 1
             row == [live |-> TRUE, name |-> name, doc |-> doc, contract |-> c, version |-> version]
             w == [pc |-> "patch", reg |-> h, retarget |-> retarget, targets |-> targets, row |-> row]
  <2>1. Begin(q, w) /\ step_graph_valid(doc)
    BY <1>1, <1>3 DEF patch_registration, RegOK
  <2>2. version \in Nat /\ version > 0 /\ version = regs[h].version + 1
    BY <1>1
  <2> HIDE DEF version
  <2>3. row \in RegRow /\ row.live /\ row.version = version /\ row.doc = doc
    BY <2>2 DEF RegRow
  <2> HIDE DEF row
  <2>4. w \in WpRequest /\ w.pc = "patch" /\ w.row = row /\ w.reg = h
    BY <2>3 DEF WpRequest
  <2> HIDE DEF w
  <2>5. RegRequestOK(w, regs, links) /\ RunRequestOK(w, regs, runs, edited)
    BY <2>1, <2>2, <2>3, <2>4 DEF RegRequestOK, RunRequestOK
  <2> QED
    BY <1>1, <2>1, <2>4, <2>5, BeginHolds
<1>4. CASE delete_registration(q, h)
  <2> DEFINE version == regs[h].version + 1
             row == [regs[h] EXCEPT !.live = FALSE, !.version = version]
             mine == {link \in links : link[1] = h}
             w == [pc |-> "delete", reg |-> h, links |-> mine, row |-> row]
  <2>1. row = [regs[h] EXCEPT !.live = FALSE, !.version = @ + 1]
    BY <1>1 DEF RegRow
  <2>2. Begin(q, w) /\ step_graph_valid(regs[h].doc)
    BY <1>1, <1>4, <2>1 DEF delete_registration, RegOK
  <2>3. version \in Nat /\ version > 0 /\ version = regs[h].version + 1
    BY <1>1
  <2> HIDE DEF version
  <2>4. row \in RegRow /\ ~row.live /\ row.version = version /\ row.doc = regs[h].doc
    BY <1>1, <2>3 DEF RegRow
  <2> HIDE DEF row
  <2>5. mine \in SUBSET (Regs \X WpSources) /\ \A link \in links : link[1] = h => link \in mine
    BY <1>1
  <2> HIDE DEF mine
  <2>6. w \in WpRequest /\ w.pc = "delete" /\ w.row = row /\ w.reg = h /\ w.links = mine
    BY <2>4, <2>5 DEF WpRequest
  <2> HIDE DEF w
  <2>7. RegRequestOK(w, regs, links) /\ RunRequestOK(w, regs, runs, edited)
    BY <2>2, <2>3, <2>4, <2>5, <2>6 DEF RegRequestOK, RunRequestOK
  <2> QED
    BY <1>1, <2>2, <2>6, <2>7, BeginHolds
<1> QED
  BY <1>2, <1>3, <1>4

\* A run is launched, and made.
LEMMA LaunchHolds ==
    ASSUME WpIInv, NEW q \in Slots, NEW r \in Runs, NEW h \in Regs, NEW source \in WpSources,
           NEW count, launch(q, r, h, source, count)
    PROVE  WpIInv'
<1> DEFINE doc == regs[h].doc
           row == [state |-> "inFlight", reg |-> h, source |-> source, current |-> doc.start,
                   walk |-> <<>>, version |-> 1]
           w == [pc |-> "launch", run |-> r, doc |-> doc, row |-> row]
<1>1. /\ UNCHANGED <<regs, links, runs, applied, bells, edited>> /\ Begin(q, w)
      /\ runs[r].version = 0
      /\ \A p \in Slots : wpReq[p].pc = "launch" => wpReq[p].run # r
  BY DEF launch, WpRead
<1>2. doc \in WpDocs /\ step_graph_valid(doc) /\ regs[h].version > 0
  BY DEF launch, WpIInv, WpTyped, RegRow, RegOK
<1>3. doc.start \in STRING
  BY <1>2 DEF step_graph_valid
<1> HIDE DEF doc
<1>4. /\ row \in Started /\ row.state = "inFlight" /\ row.reg = h /\ row.walk = <<>>
      /\ row.current = doc.start /\ row.version = 1
  BY <1>3 DEF Started, RunStates
<1> HIDE DEF row
<1>5. w \in WpRequest /\ w.pc = "launch" /\ w.run = r /\ w.doc = doc /\ w.row = row
  BY <1>2, <1>4 DEF WpRequest
<1> HIDE DEF w
<1>6. RegRequestOK(w, regs, links) /\ RunRequestOK(w, regs, runs, edited)
  BY <1>1, <1>2, <1>4, <1>5 DEF RegRequestOK, RunRequestOK
<1> QED
  BY <1>1, <1>5, <1>6, BeginHolds

\* A verb on a run, of which it makes the row.
LEMMA VerbHolds ==
    ASSUME WpIInv, NEW q \in Slots, NEW r \in Runs, NEW verb \in {"step", "commit", "cancel"},
           NEW rows, RunVerb(q, r, verb, rows),
           \A row \in rows :
              /\ row \in Started /\ row.version = runs[r].version
              /\ runs[r].state = "inFlight" /\ row.reg = runs[r].reg
              /\ r \notin edited => WalkOK(row, regs[row.reg].doc)
              /\ IF verb = "commit" THEN row.state = "committed" /\ row.current = NoStep
                 ELSE row.state # "committed"
    PROVE  WpIInv'
<1>1. PICK old \in rows :
         Begin(q, [pc |-> verb, run |-> r, doc |-> regs[runs[r].reg].doc,
                   row |-> [old EXCEPT !.version = @ + 1]])
  BY DEF RunVerb
<1>2. /\ UNCHANGED <<regs, links, runs, applied, bells, edited>>
      /\ runs[r].version > 0
  BY DEF RunVerb, WpRead
<1>3. old \in Started /\ old.version = runs[r].version /\ old.version \in Nat
  BY DEF Started
<1> DEFINE version == old.version + 1
           row == [old EXCEPT !.version = version]
           doc == regs[runs[r].reg].doc
           w == [pc |-> verb, run |-> r, doc |-> doc, row |-> row]
<1>4. row = [old EXCEPT !.version = @ + 1] /\ version \in Nat \ {0} /\ version = runs[r].version + 1
  BY <1>3 DEF Started
<1>5. Begin(q, w)
  BY <1>1, <1>4
<1> HIDE DEF version
<1>6. /\ row \in Started /\ row.state = old.state /\ row.reg = old.reg /\ row.walk = old.walk
      /\ row.current = old.current /\ row.version = version
  BY <1>3, <1>4 DEF Started
<1> HIDE DEF row
<1>7. doc \in WpDocs
  BY <1>3 DEF WpIInv, WpTyped, Started, RegRow
<1> HIDE DEF doc
<1>8. w \in WpRequest /\ w.pc = verb /\ w.run = r /\ w.row = row
  BY <1>6, <1>7 DEF WpRequest
<1> HIDE DEF w
<1>9. r \notin edited => WalkOK(row, regs[row.reg].doc)
  BY <1>6 DEF WalkOK
<1>10. RegRequestOK(w, regs, links) /\ RunRequestOK(w, regs, runs, edited)
  <2>1. RegRequestOK(w, regs, links)
    BY <1>8 DEF RegRequestOK
  <2>2. /\ runs[r].state = "inFlight" /\ row.reg = runs[r].reg
        /\ IF verb = "commit" THEN row.state = "committed" /\ row.current = NoStep
           ELSE row.state # "committed"
    BY <1>6
  <2>3. row.version <= runs[r].version + 1
    BY <1>3, <1>4, <1>6
  <2> QED
    BY <1>2, <1>8, <1>9, <2>1, <2>2, <2>3 DEF RunRequestOK
<1>11. w.pc # "launch"
  BY <1>8
<1> QED
  BY <1>2, <1>5, <1>8, <1>10, <1>11, BeginHolds

\* An answered step extends the walk: it stands on the next step or, past a
\* terminal one, nowhere.
LEMMA AnswerExtends ==
    ASSUME NEW doc, step_graph_valid(doc), NEW run \in Started, WalkOK(run, doc),
           run.current # NoStep, NEW branch \in Keys(doc) \cup {NoStep},
           NEW row \in Started, row.walk = Append(run.walk, run.current),
           row.current = IF branch # NoStep THEN branch ELSE Successor(doc, run.current)
    PROVE  WalkOK(row, doc)
<1> DEFINE walk == run.walk
           key == run.current
           n == Len(walk)
<1>1. walk \in Seq(STRING) /\ n \in Nat /\ key \in Keys(doc) /\ key \in STRING
  BY DEF Started, WalkOK
<1>2. /\ Len(row.walk) = n + 1 /\ row.walk[n + 1] = key
      /\ \A i \in 1 .. n : row.walk[i] = walk[i]
      /\ DOMAIN row.walk = 1 .. n + 1 /\ row.walk # <<>>
  BY <1>1, AppendProperties
<1>3. \A i \in DOMAIN row.walk : row.walk[i] \in Keys(doc)
  BY <1>1, <1>2 DEF WalkOK
<1>4. row.walk[1] = doc.start
  <2>1. CASE n = 0
    BY <1>1, <1>2, <2>1 DEF WalkOK
  <2>2. CASE n # 0
    <3>1. walk # <<>> /\ 1 \in 1 .. n
      BY <1>1, <2>2
    <3> QED
      BY <1>2, <3>1 DEF WalkOK
  <2> QED
    BY <2>1, <2>2
<1> DEFINE s == CHOOSE x \in doc.steps : x[1] = key
<1>5. s \in doc.steps /\ s[1] = key /\ Successor(doc, key) = s[2]
  <2>1. \E x \in doc.steps : x[1] = key
    BY <1>1 DEF Keys
  <2>2. s \in doc.steps /\ s[1] = key
    BY <2>1
  <2>3. Successor(doc, key) = s[2]
    BY <1>1 DEF Successor
  <2> QED
    BY <2>2, <2>3
<1> HIDE DEF s
<1>6. s[2] \in Keys(doc) \cup {NoStep} /\ (s[2] = NoStep => key \in Terminal(doc))
  BY <1>5 DEF step_graph_valid, Terminal
<1>7. row.current \in Keys(doc) \cup {NoStep} /\ (row.current = NoStep => key \in Terminal(doc))
  BY <1>5, <1>6
<1> QED
  BY <1>2, <1>3, <1>4, <1>7 DEF WalkOK

\* The owner answers the current step, commits the run or cancels it.
LEMMA VerbsHold ==
    ASSUME WpIInv, NEW q \in Slots, NEW r \in Runs, NEW key, NEW branch,
           step(q, r, key, branch) \/ commit(q, r) \/ cancel(q, r)
    PROVE  WpIInv'
<1> DEFINE run == runs[r]
           doc == regs[run.reg].doc
<1>1. run.version > 0
  BY DEF step, commit, cancel, RunVerb
<1>2. /\ run \in Started /\ RunOK(run, applied[r], bells[r], regs, r \in edited)
      /\ step_graph_valid(doc)
  <2>1. run \in Started
    BY <1>1 DEF WpIInv, WpTyped, Unstarted
  <2>2. RunOK(run, applied[r], bells[r], regs, r \in edited)
    BY DEF WpIInv
  <2>3. run.reg \in Regs
    BY <2>1 DEF Started
  <2> QED
    BY <1>1, <2>1, <2>2, <2>3 DEF RunOK, WpIInv, RegOK
<1>3. r \notin edited => WalkOK(run, doc)
  BY <1>1, <1>2 DEF RunOK
<1>4. CASE step(q, r, key, branch)
  <2> DEFINE verb == "step"
             rows == answer_step(run, doc, key, branch)
  <2>1. RunVerb(q, r, verb, rows) /\ verb \in {"step", "commit", "cancel"} /\ verb # "commit"
    BY <1>4 DEF step
  <2>2. ASSUME NEW row \in rows
        PROVE  /\ row \in Started /\ row.version = run.version
               /\ run.state = "inFlight" /\ row.reg = run.reg
               /\ r \notin edited => WalkOK(row, regs[row.reg].doc)
               /\ row.state # "committed"
    <3>1. /\ run.state = "inFlight" /\ run.current # NoStep /\ key = run.current
          /\ branch \in Keys(doc) \cup {NoStep}
          /\ row = [run EXCEPT !.walk = Append(@, key),
                              !.current = IF branch # NoStep THEN branch ELSE Successor(doc, key)]
      BY <2>2 DEF answer_step
    <3> DEFINE walk == Append(run.walk, run.current)
               current == IF branch # NoStep THEN branch ELSE Successor(doc, run.current)
    <3>2. row = [run EXCEPT !.walk = walk, !.current = current]
      BY <1>2, <3>1 DEF Started
    <3>3. walk \in Seq(STRING)
      BY <1>2, <3>1 DEF Started
    <3>4. Successor(doc, run.current) \in STRING \cup {NoStep}
      <4> DEFINE s == CHOOSE x \in doc.steps : x[1] = run.current
      <4>1. CASE run.current \in Keys(doc)
        <5>1. \E x \in doc.steps : x[1] = run.current
          BY <4>1 DEF Keys
        <5>2. s \in doc.steps
          BY <5>1
        <5> HIDE DEF s
        <5>3. s[2] \in STRING \cup {NoStep}
          BY <1>2, <5>2 DEF step_graph_valid
        <5>4. Successor(doc, run.current) = s[2]
          BY <4>1 DEF Successor, s
        <5> QED
          BY <5>3, <5>4
      <4>2. CASE run.current \notin Keys(doc)
        BY <4>2 DEF Successor
      <4> QED
        BY <4>1, <4>2
    <3>5. current \in STRING \cup {NoStep}
      <4>1. Keys(doc) \subseteq STRING
        BY <1>2 DEF step_graph_valid
      <4> QED
        BY <3>1, <3>4, <4>1
    <3>6. current = IF branch # NoStep THEN branch ELSE Successor(doc, run.current)
      OBVIOUS
    <3>7. walk = Append(run.walk, run.current)
      OBVIOUS
    <3> HIDE DEF walk, current
    <3>8. /\ row \in Started /\ row.version = run.version /\ row.reg = run.reg
          /\ row.state = "inFlight" /\ row.walk = walk /\ row.current = current
      BY <1>2, <3>1, <3>2, <3>3, <3>5 DEF Started
    <3>9. ASSUME r \notin edited PROVE WalkOK(row, doc)
      <4>1. /\ row.walk = Append(run.walk, run.current)
            /\ row.current = IF branch # NoStep THEN branch ELSE Successor(doc, run.current)
        BY <3>6, <3>7, <3>8
      <4>2. WalkOK(run, doc) /\ run.current # NoStep /\ branch \in Keys(doc) \cup {NoStep}
        BY <1>3, <3>1, <3>9
      <4>3. run \in Started /\ row \in Started /\ step_graph_valid(doc)
        BY <1>2, <3>8
      <4> HIDE DEF run, doc
      <4> QED
        BY <4>1, <4>2, <4>3, AnswerExtends
    <3> QED
      BY <3>1, <3>8, <3>9
  <2> HIDE DEF rows, verb
  <2> QED
    BY <2>1, <2>2, VerbHolds
<1>5. CASE commit(q, r)
  <2> DEFINE verb == "commit"
             rows == commit_run(run)
  <2>1. RunVerb(q, r, verb, rows) /\ verb \in {"step", "commit", "cancel"} /\ verb = "commit"
    BY <1>5 DEF commit
  <2>2. ASSUME NEW row \in rows
        PROVE  /\ row \in Started /\ row.version = run.version
               /\ run.state = "inFlight" /\ row.reg = run.reg
               /\ r \notin edited => WalkOK(row, regs[row.reg].doc)
               /\ row.state = "committed" /\ row.current = NoStep
    <3>1. run.state = "inFlight" /\ run.current = NoStep /\ row = [run EXCEPT !.state = "committed"]
      BY <2>2 DEF commit_run
    <3>2. /\ row \in Started /\ row.version = run.version /\ row.reg = run.reg
          /\ row.state = "committed" /\ row.walk = run.walk /\ row.current = run.current
      BY <1>2, <3>1 DEF Started, RunStates
    <3>3. r \notin edited => WalkOK(row, doc)
      BY <1>3, <3>2 DEF WalkOK
    <3> QED
      BY <3>1, <3>2, <3>3
  <2> HIDE DEF rows, verb
  <2> QED
    BY <2>1, <2>2, VerbHolds
<1>6. CASE cancel(q, r)
  <2> DEFINE verb == "cancel"
             rows == cancel_run(run)
  <2>1. RunVerb(q, r, verb, rows) /\ verb \in {"step", "commit", "cancel"} /\ verb # "commit"
    BY <1>6 DEF cancel
  <2>2. ASSUME NEW row \in rows
        PROVE  /\ row \in Started /\ row.version = run.version
               /\ run.state = "inFlight" /\ row.reg = run.reg
               /\ r \notin edited => WalkOK(row, regs[row.reg].doc)
               /\ row.state # "committed"
    <3>1. run.state = "inFlight" /\ row = [run EXCEPT !.state = "discarded"]
      BY <2>2 DEF cancel_run
    <3>2. /\ row \in Started /\ row.version = run.version /\ row.reg = run.reg
          /\ row.state = "discarded" /\ row.walk = run.walk /\ row.current = run.current
      BY <1>2, <3>1 DEF Started, RunStates
    <3>3. r \notin edited => WalkOK(row, doc)
      BY <1>3, <3>2 DEF WalkOK
    <3> QED
      BY <3>1, <3>2, <3>3
  <2> HIDE DEF rows, verb
  <2> QED
    BY <2>1, <2>2, VerbHolds
<1> QED
  BY <1>4, <1>5, <1>6

\* A registration is written.
LEMMA WriteCreateHolds == ASSUME WpIInv, NEW q \in Slots, WriteCreate(q) PROVE WpIInv'
<1> DEFINE w == wpReq[q]
<1>1. /\ w.pc = "create" /\ Finish(q) /\ UNCHANGED <<runs, applied, bells, edited>>
      /\ w \in WpRequest /\ RegRequestOK(w, regs, links)
  BY DEF WriteCreate, WpIInv, WpTyped
<1>2. w.reg \in Regs /\ w.row \in RegRow /\ w.targets \in SUBSET WpSources
  BY <1>1, WpRequestIs
<1>3. w.row.live /\ w.row.version = 1 /\ step_graph_valid(w.row.doc)
  BY <1>1 DEF RegRequestOK
<1>4. CASE regs[w.reg].version = 0 /\ ~NameTaken(w.row.name, {})
  <2>1. /\ regs' = [regs EXCEPT ![w.reg] = w.row]
        /\ links' = links \cup {<<w.reg, s>> : s \in w.targets}
    BY <1>4 DEF WriteCreate
  <2>2. \A g \in Regs : g # w.reg /\ regs[g].live => regs[g].name # w.row.name
    BY <1>4 DEF NameTaken, LiveRegs
  <2> DEFINE h == w.reg
             row == w.row
  <2>3. /\ h \in Regs /\ row \in RegRow /\ regs' = [regs EXCEPT ![h] = row]
        /\ row.version = regs[h].version + 1 /\ step_graph_valid(row.doc) /\ row.live
        /\ links' \subseteq Regs \X WpSources
        /\ \A link \in links' : link \in links \/ link[1] = h
        /\ \A g \in Regs : g # h /\ regs[g].live => regs[g].name # row.name
        /\ regs[h].version = 0 /\ edited' = edited
    BY <1>1, <1>2, <1>3, <1>4, <2>1, <2>2 DEF WpIInv, WpTyped
  <2> HIDE DEF h, row
  <2> QED
    BY <1>1, <2>3, RegWriteHolds
<1>5. CASE ~(regs[w.reg].version = 0 /\ ~NameTaken(w.row.name, {}))
  <2>1. UNCHANGED <<regs, links>>
    BY <1>5 DEF WriteCreate
  <2> QED
    BY <1>1, <2>1, FinishHolds
<1> QED
  BY <1>4, <1>5

\* An edit of one is.
LEMMA WritePatchHolds == ASSUME WpIInv, NEW q \in Slots, WritePatch(q) PROVE WpIInv'
<1> DEFINE w == wpReq[q]
<1>1. /\ w.pc = "patch" /\ Finish(q) /\ UNCHANGED <<runs, applied, bells>>
      /\ w \in WpRequest /\ RegRequestOK(w, regs, links)
  BY DEF WritePatch, WpIInv, WpTyped
<1>2. w.reg \in Regs /\ w.row \in RegRow /\ w.targets \in SUBSET WpSources
  BY <1>1, WpRequestIs
<1>3. w.row.live /\ step_graph_valid(w.row.doc)
  BY <1>1 DEF RegRequestOK
<1>4. CASE w.row.version = regs[w.reg].version + 1 /\ ~NameTaken(w.row.name, {w.reg})
  <2>1. /\ regs' = [regs EXCEPT ![w.reg] = w.row] /\ links' = Retargeted(w)
        /\ edited' = edited \cup {r \in Runs : runs[r].reg = w.reg
                                               /\ w.row.doc # regs[w.reg].doc}
    BY <1>4 DEF WritePatch
  <2>2. \A g \in Regs : g # w.reg /\ regs[g].live => regs[g].name # w.row.name
    BY <1>4 DEF NameTaken, LiveRegs
  <2>3. links' \subseteq Regs \X WpSources /\ \A link \in links' : link \in links \/ link[1] = w.reg
    BY <1>2, <2>1 DEF Retargeted, WpIInv, WpTyped
  <2> DEFINE h == w.reg
             row == w.row
  <2>4. /\ h \in Regs /\ row \in RegRow /\ regs' = [regs EXCEPT ![h] = row]
        /\ row.version = regs[h].version + 1 /\ step_graph_valid(row.doc) /\ row.live
        /\ links' \subseteq Regs \X WpSources
        /\ \A link \in links' : link \in links \/ link[1] = h
        /\ \A g \in Regs : g # h /\ regs[g].live => regs[g].name # row.name
        /\ edited' = edited \cup {r \in Runs : runs[r].reg = h /\ row.doc # regs[h].doc}
    BY <1>2, <1>3, <1>4, <2>1, <2>2, <2>3
  <2> HIDE DEF h, row
  <2> QED
    BY <1>1, <2>4, RegWriteHolds
<1>5. CASE ~(w.row.version = regs[w.reg].version + 1 /\ ~NameTaken(w.row.name, {w.reg}))
  <2>1. UNCHANGED <<regs, links, edited>>
    BY <1>5 DEF WritePatch
  <2> QED
    BY <1>1, <2>1, FinishHolds
<1> QED
  BY <1>4, <1>5

\* One is retired, with every target it has.
LEMMA WriteDeleteHolds == ASSUME WpIInv, NEW q \in Slots, WriteDelete(q) PROVE WpIInv'
<1> DEFINE w == wpReq[q]
<1>1. /\ w.pc = "delete" /\ Finish(q) /\ UNCHANGED <<runs, applied, bells, edited>>
      /\ w \in WpRequest /\ RegRequestOK(w, regs, links)
  BY DEF WriteDelete, WpIInv, WpTyped
<1>2. w.reg \in Regs /\ w.row \in RegRow
  BY <1>1, WpRequestIs
<1>3. ~w.row.live /\ step_graph_valid(w.row.doc)
  BY <1>1 DEF RegRequestOK
<1>4. CASE w.row.version = regs[w.reg].version + 1
  <2>1. regs' = [regs EXCEPT ![w.reg] = w.row] /\ links' = links \ w.links
    BY <1>4 DEF WriteDelete
  <2>2. w.row.doc = regs[w.reg].doc /\ \A link \in links : link[1] = w.reg => link \in w.links
    BY <1>1, <1>4 DEF RegRequestOK
  <2> DEFINE h == w.reg
             row == w.row
  <2>3. /\ h \in Regs /\ row \in RegRow /\ regs' = [regs EXCEPT ![h] = row]
        /\ row.version = regs[h].version + 1 /\ step_graph_valid(row.doc) /\ ~row.live
        /\ links' \subseteq Regs \X WpSources
        /\ \A link \in links' : link \in links /\ link[1] # h
        /\ row.doc = regs[h].doc /\ edited' = edited
    BY <1>1, <1>2, <1>3, <1>4, <2>1, <2>2 DEF WpIInv, WpTyped
  <2> HIDE DEF h, row
  <2>4. (\A link \in links' : link \in links \/ link[1] = h) /\ (\A link \in links' : link[1] = h => row.live)
    BY <2>3
  <2> QED
    BY <1>1, <2>3, <2>4, RegWriteHolds
<1>5. CASE w.row.version # regs[w.reg].version + 1
  <2>1. UNCHANGED <<regs, links>>
    BY <1>5 DEF WriteDelete
  <2> QED
    BY <1>1, <2>1, FinishHolds
<1> QED
  BY <1>4, <1>5

\* A run is made, stands at the start of its graph, and is edited if that graph
\* was.
LEMMA WriteLaunchHolds == ASSUME WpIInv, NEW q \in Slots, WriteLaunch(q) PROVE WpIInv'
<1> DEFINE w == wpReq[q]
           r == w.run
           row == w.row
<1>1. /\ w.pc = "launch" /\ Finish(q) /\ UNCHANGED <<regs, links, applied, bells>>
      /\ w \in WpRequest /\ RunRequestOK(w, regs, runs, edited)
  BY DEF WriteLaunch, WpIInv, WpTyped
<1>2. r \in Runs /\ row \in Started
  BY <1>1, WpRequestIs
<1>3. /\ runs[r].version = 0 /\ row.version = 1 /\ row.state = "inFlight" /\ row.walk = <<>>
      /\ row.current = w.doc.start /\ regs[row.reg].version > 0 /\ step_graph_valid(w.doc)
  BY <1>1 DEF RunRequestOK
<1>4. /\ runs' = [runs EXCEPT ![r] = row]
      /\ edited' = edited \cup (IF w.doc = regs[row.reg].doc THEN {} ELSE {r})
  BY DEF WriteLaunch
<1>5. applied[r] = 0 /\ bells[r] <= 0 /\ applied \in [Runs -> Nat] /\ bells \in [Runs -> Nat]
  <2>1. runs[r].state = "inFlight"
    BY <1>2, <1>3 DEF WpIInv, WpTyped, Unstarted, Started
  <2>2. RunOK(runs[r], applied[r], bells[r], regs, r \in edited)
    BY <1>2 DEF WpIInv
  <2> QED
    BY <2>1, <2>2 DEF RunOK, WpIInv, WpTyped
<1>6. r \notin edited' => WalkOK(row, regs[row.reg].doc)
  <2> SUFFICES ASSUME r \notin edited' PROVE WalkOK(row, regs[row.reg].doc)
    OBVIOUS
  <2>1. w.doc = regs[row.reg].doc
    BY <1>4
  <2>2. w.doc.start \in Keys(w.doc) /\ w.doc.start # NoStep
    BY <1>3, WorkprocessAssumption DEF step_graph_valid
  <2> QED
    BY <1>3, <2>1, <2>2 DEF WalkOK
<1>7. \A p \in Slots : p # q /\ wpReq[p].pc = "launch" => wpReq[p].run # r
  BY <1>1 DEF WpIInv, LaunchesApart
<1>8. edited' = edited \/ edited' = edited \cup {r}
  BY <1>4
<1> HIDE DEF r, row
<1>9. RunOK(row, applied'[r], bells'[r], regs, r \in edited')
  BY <1>1, <1>3, <1>5, <1>6 DEF RunOK
<1>10. row.version = runs[r].version + 1 /\ applied' = applied /\ bells' = bells
  BY <1>1, <1>3
<1>11. /\ applied' \in [Runs -> Nat] /\ bells' \in [Runs -> Nat]
       /\ \A x \in Runs : x # r => applied'[x] = applied[x] /\ bells'[x] = bells[x]
  BY <1>5, <1>10
<1> QED
  BY <1>1, <1>2, <1>4, <1>7, <1>8, <1>9, <1>10, <1>11, RunWriteHolds

\* A verb's row is written, if the run is still the one it read; a commit's
\* effects with it.
LEMMA WriteVerbHolds ==
    ASSUME WpIInv, NEW q \in Slots, WriteStep(q) \/ WriteCommit(q)
    PROVE  WpIInv'
<1> DEFINE w == wpReq[q]
           r == w.run
           row == w.row
<1>1. /\ w.pc \in {"step", "commit", "cancel"} /\ Finish(q) /\ UNCHANGED <<regs, links, edited>>
      /\ w \in WpRequest /\ RunRequestOK(w, regs, runs, edited)
  BY DEF WriteStep, WriteCommit, WpIInv, WpTyped
<1>2. r \in Runs /\ row \in Started
  BY <1>1, WpRequestIs
<1>3. CASE UNCHANGED <<runs, applied, bells>>
  BY <1>1, <1>3, FinishHolds
<1>4. CASE ~UNCHANGED <<runs, applied, bells>>
  <2>1. row.version = runs[r].version + 1 /\ runs' = [runs EXCEPT ![r] = row]
    BY <1>4 DEF WriteStep, WriteCommit
  <2>2. /\ runs[r].version > 0 /\ runs[r].state = "inFlight" /\ row.reg = runs[r].reg
        /\ r \notin edited => WalkOK(row, regs[row.reg].doc)
        /\ IF w.pc = "commit" THEN row.state = "committed" /\ row.current = NoStep
           ELSE row.state # "committed"
    BY <1>1, <2>1 DEF RunRequestOK
  <2>3. /\ applied[r] = 0 /\ bells[r] \in Nat /\ bells[r] <= 0 /\ regs[row.reg].version > 0
        /\ applied \in [Runs -> Nat] /\ bells \in [Runs -> Nat]
    BY <1>2, <2>2 DEF WpIInv, WpTyped, RunOK
  <2>4. \A p \in Slots : p # q /\ wpReq[p].pc = "launch" => wpReq[p].run # r
    <3>1. \A p \in Slots : RunRequestOK(wpReq[p], regs, runs, edited)
      BY DEF WpIInv
    <3> QED
      BY <2>2, <3>1 DEF RunRequestOK
  <2>5. CASE w.pc = "commit"
    <3>1. PICK long \in {0, 1} : bells' = [bells EXCEPT ![r] = @ + long]
      BY <1>4, <2>5 DEF WriteCommit, WriteStep
    <3>2. applied' = [applied EXCEPT ![r] = @ + 1]
      BY <1>4, <2>5 DEF WriteCommit, WriteStep
    <3>3. applied'[r] = 1 /\ bells'[r] \in Nat /\ bells'[r] <= 1
      BY <1>2, <2>3, <3>1, <3>2
    <3>4. /\ applied' \in [Runs -> Nat] /\ bells' \in [Runs -> Nat]
          /\ \A x \in Runs : x # r => applied'[x] = applied[x] /\ bells'[x] = bells[x]
      BY <1>2, <2>3, <3>1, <3>2
    <3> HIDE DEF r, row
    <3>5. RunOK(row, applied'[r], bells'[r], regs, r \in edited')
      BY <1>1, <2>2, <2>3, <2>5, <3>3 DEF RunOK
    <3> QED
      BY <1>1, <1>2, <2>1, <2>4, <3>4, <3>5, RunWriteHolds
  <2>6. CASE w.pc # "commit"
    <3>1. UNCHANGED <<applied, bells>>
      BY <2>6 DEF WriteCommit, WriteStep
    <3> HIDE DEF r, row
    <3>2. RunOK(row, applied'[r], bells'[r], regs, r \in edited')
      BY <1>1, <2>2, <2>3, <2>6, <3>1 DEF RunOK
    <3> QED
      BY <1>1, <1>2, <2>1, <2>3, <2>4, <3>1, <3>2, RunWriteHolds
  <2> QED
    BY <2>5, <2>6
<1> QED
  BY <1>3, <1>4

\* Grants of a role on a data source touch nothing else.
LEMMA GrantsHold ==
    ASSUME WpIInv, UNCHANGED <<regs, links, runs, wpReq, applied, bells, edited>>
    PROVE  WpIInv'
  BY DEF WpIInv, WpTyped, NamesUnique

\* Registrations and runs keep their invariant ...
LEMMA WpInvStep == WpIInv /\ [WpNext]_wpVars => WpIInv'
<1> SUFFICES ASSUME WpIInv, [WpNext]_wpVars PROVE WpIInv'
  OBVIOUS
<1>1. CASE UNCHANGED wpVars
  BY <1>1, GrantsHold DEF wpVars
<1>2. ASSUME NEW q \in Slots, NEW g \in Regs, NEW name \in WpNames, NEW doc \in WpDocs,
             NEW c \in WpContracts, NEW targets \in SUBSET WpSources,
             \/ create_registration(q, g, name, doc, c, targets)
             \/ \E retarget \in BOOLEAN : patch_registration(q, g, name, doc, c, retarget, targets)
      PROVE  WpIInv'
  BY <1>2, RegReadHolds
<1>3. ASSUME NEW q \in Slots, NEW g \in Regs, delete_registration(q, g)
      PROVE  WpIInv'
  <2>1. PICK name \in WpNames, doc \in WpDocs, c \in WpContracts : TRUE
    <3>1. regs[g] \in RegRow
      BY DEF WpIInv, WpTyped
    <3>2. WpNames # {} /\ WpDocs # {} /\ WpContracts # {}
      BY <3>1 DEF RegRow
    <3> QED
      BY <3>2
  <2>2. {} \in SUBSET WpSources /\ TRUE \in BOOLEAN
    OBVIOUS
  <2> QED
    BY <1>3, <2>1, <2>2, RegReadHolds
<1>4. ASSUME NEW q \in Slots, NEW g \in Regs, NEW r \in Runs, NEW s \in WpSources,
             NEW count \in 0 .. 2, launch(q, r, g, s, count)
      PROVE  WpIInv'
  BY <1>4, LaunchHolds
<1>5. ASSUME NEW q \in Slots, NEW r \in Runs, NEW key, NEW branch,
             step(q, r, key, branch) \/ commit(q, r) \/ cancel(q, r)
      PROVE  WpIInv'
  BY <1>5, VerbsHold
<1>6. ASSUME NEW q \in Slots,
             \/ WriteCreate(q) \/ WritePatch(q) \/ WriteDelete(q)
             \/ WriteLaunch(q) \/ WriteStep(q) \/ WriteCommit(q)
      PROVE  WpIInv'
  BY <1>6, WriteCreateHolds, WritePatchHolds, WriteDeleteHolds, WriteLaunchHolds, WriteVerbHolds
<1>7. ASSUME NEW s \in WpSources, grant_data_source_role(s) \/ revoke_data_source_role(s)
      PROVE  WpIInv'
  BY <1>7, GrantsHold DEF grant_data_source_role, revoke_data_source_role
<1> QED
  BY <1>1, <1>2, <1>3, <1>4, <1>5, <1>6, <1>7 DEF WpNext

\* ... which holds at the start.
LEMMA WpInvInit == WpInit => WpIInv
<1> SUFFICES ASSUME WpInit PROVE WpIInv
  OBVIOUS
<1>1. PICK doc \in WpDocs, name \in WpNames, source \in WpSources, contract \in WpContracts :
         /\ doc = CHOOSE d \in WpDocs : step_graph_valid(d)
         /\ regs = [g \in Regs |-> [live |-> FALSE, name |-> name, doc |-> doc,
                                    contract |-> contract, version |-> 0]]
         /\ runs = [r \in Runs |-> [state |-> "inFlight", reg |-> NoStep,
                                    source |-> source, current |-> NoStep,
                                    walk |-> <<>>, version |-> 0]]
  BY DEF WpInit
<1>2. /\ links = {} /\ wpReq = [q \in Slots |-> Idle]
      /\ applied = [r \in Runs |-> 0] /\ bells = [r \in Runs |-> 0]
  BY DEF WpInit
<1>3. WpTyped
  <2>1. regs \in [Regs -> RegRow]
    BY <1>1 DEF RegRow
  <2>2. runs \in [Runs -> Unstarted \cup Started]
    BY <1>1 DEF Unstarted
  <2> QED
    BY <1>2, <2>1, <2>2, WpIdle DEF WpTyped
<1>4. \A g \in Regs : RegOK(regs[g]) /\ ~regs[g].live
  BY <1>1 DEF RegOK
<1>5. \A r \in Runs : RunOK(runs[r], applied[r], bells[r], regs, r \in edited)
  BY <1>1, <1>2 DEF RunOK
<1>6. \A q \in Slots : wpReq[q] = Idle
  BY <1>2
<1> QED
  BY <1>2, <1>3, <1>4, <1>5, <1>6, WpIdle DEF WpIInv, NamesUnique

-----------------------------------------------------------------------------
(* The steps of artifacts. *)

\* What a request is at each of its steps.
LEMMA ArtRequestIs ==
    ASSUME NEW w \in ArtRequest
    PROVE  /\ w.pc = "idle" <=> w = Idle
           /\ w.pc = "complete" => w.j \in ArtJobs
           /\ w.pc = "trim" => /\ w.todo \in SUBSET ArtJobs /\ w.flushed \in SUBSET ArtJobs
                               /\ w.read \in ReadVersions
                               /\ w = [pc |-> "trim", todo |-> w.todo, flushed |-> w.flushed,
                                       read |-> w.read]
  BY DEF ArtRequest, Idle

\* An idle slot neither completes nor trims.
LEMMA ArtIdle ==
    ASSUME NEW job, NEW store
    PROVE  /\ Idle \in ArtRequest /\ ArtRequestOK(Idle, job, store)
           /\ \A w : ArtApart(Idle, w) /\ ArtApart(w, Idle)
  BY DEF ArtRequest, Idle, ArtRequestOK, ArtApart

\* What the invariant says of one job and one request.
LEMMA ArtTypes ==
    ASSUME ArtIInv
    PROVE  /\ artNow \in Nat /\ stored \subseteq ArtJobs /\ artReq \in [Slots -> ArtRequest]
           /\ artJob \in [ArtJobs -> ArtifactJob] /\ gone \in [ArtJobs -> Nat]
           /\ \A j \in ArtJobs : artJob[j] \in ArtifactJob /\ artJob[j].version \in Nat
           /\ \A q \in Slots : artReq[q] \in ArtRequest
  BY DEF ArtIInv, ArtTyped, ArtifactJob

\* A job is run: its bytes are stored, or it is parked.
LEMMA ArtHandlerHolds ==
    ASSUME ArtIInv, NEW q \in Slots, NEW j \in ArtJobs, artifact_handler(q, j)
    PROVE  ArtIInv'
<1>1. /\ artReq[q] = Idle /\ artJob[j].state = "pending"
      /\ \A p \in Slots : artReq[p].pc = "complete" => artReq[p].j # j
      /\ UNCHANGED <<artNow, gone, unwound>>
  BY DEF artifact_handler
<1>2. CASE /\ stored' = stored \cup {j}
           /\ artReq' = SetAt(q, [pc |-> "complete", j |-> j], artReq)
           /\ UNCHANGED artJob
  <2> DEFINE w == [pc |-> "complete", j |-> j]
  <2>1. artReq'[q] = w /\ \A p \in Slots : p # q => artReq'[p] = artReq[p]
    BY <1>2, ArtTypes DEF SetAt
  <2>2. w \in ArtRequest /\ w.pc = "complete" /\ w.j = j
    BY DEF ArtRequest
  <2>3. artReq' \in [Slots -> ArtRequest]
    BY <1>2, <2>2, ArtTypes DEF SetAt
  <2> HIDE DEF w
  <2>4. ArtTyped'
    BY <1>1, <1>2, <2>3, ArtTypes DEF ArtTyped
  <2>5. ASSUME NEW i \in ArtJobs
        PROVE  /\ GoneOK(artJob[i], gone[i], i \in stored')
               /\ LinkOK(i, artJob, stored', unwound, artReq')
    <3>1. GoneOK(artJob[i], gone[i], i \in stored) /\ LinkOK(i, artJob, stored, unwound, artReq)
      BY DEF ArtIInv
    <3>2. artJob[j].live
      BY <1>1 DEF ArtIInv, JobOK
    <3>3. GoneOK(artJob[i], gone[i], i \in stored')
      BY <1>2, <3>1, <3>2 DEF GoneOK
    <3>4. \A p \in Slots : artReq[p].pc = "trim" => artReq'[p] = artReq[p]
      BY <1>1, <2>1 DEF Idle
    <3> QED
      BY <1>2, <3>1, <3>3, <3>4 DEF LinkOK
  <2>6. ASSUME NEW p \in Slots PROVE ArtRequestOK(artReq'[p], artJob, stored')
    <3>1. CASE p = q
      BY <1>1, <1>2, <2>1, <2>2, <3>1 DEF ArtRequestOK
    <3>2. CASE p # q
      BY <1>1, <1>2, <2>1, <3>2 DEF ArtIInv, ArtRequestOK
    <3> QED
      BY <3>1, <3>2
  <2>7. \A o, p \in Slots : o # p => ArtApart(artReq'[o], artReq'[p])
    BY <1>1, <2>1, <2>2 DEF ArtIInv, ArtApart
  <2> QED
    BY <1>1, <1>2, <2>4, <2>5, <2>6, <2>7 DEF ArtIInv
<1>3. CASE /\ artJob' = [artJob EXCEPT ![j].state = "needsAttention"]
           /\ UNCHANGED <<stored, artReq>>
  <2> DEFINE job == [artJob[j] EXCEPT !.state = "needsAttention"]
  <2>1. artJob' = [artJob EXCEPT ![j] = job]
    BY <1>3, ArtTypes
  <2>2. /\ job \in ArtifactJob /\ job.state = "needsAttention" /\ job.live = artJob[j].live
        /\ job.url = artJob[j].url /\ job.expires = artJob[j].expires
    BY ArtTypes DEF ArtifactJob
  <2> HIDE DEF job
  <2>3. /\ artJob'[j] = job /\ artJob' \in [ArtJobs -> ArtifactJob]
        /\ \A i \in ArtJobs : i # j => artJob'[i] = artJob[i]
    BY <2>1, <2>2, ArtTypes
  <2>4. ArtTyped'
    BY <1>1, <1>3, <2>3, ArtTypes DEF ArtTyped
  <2>5. ASSUME NEW i \in ArtJobs
        PROVE  /\ JobOK(artJob'[i]) /\ GoneOK(artJob'[i], gone[i], i \in stored)
               /\ LinkOK(i, artJob', stored, unwound, artReq)
    <3>1. /\ JobOK(artJob[i]) /\ GoneOK(artJob[i], gone[i], i \in stored)
          /\ LinkOK(i, artJob, stored, unwound, artReq)
      BY DEF ArtIInv
    <3>2. JobOK(artJob[j]) /\ JobOK(job)
      BY <1>1, <2>2 DEF ArtIInv, JobOK
    <3>3. CASE i = j
      BY <2>2, <2>3, <3>1, <3>2, <3>3 DEF GoneOK, LinkOK
    <3>4. CASE i # j
      BY <2>3, <3>1, <3>4 DEF LinkOK
    <3> QED
      BY <3>3, <3>4
  <2>6. ASSUME NEW p \in Slots PROVE ArtRequestOK(artReq[p], artJob', stored)
    <3>1. ArtRequestOK(artReq[p], artJob, stored) /\ artReq[p] \in ArtRequest
      BY ArtTypes DEF ArtIInv
    <3> DEFINE w == artReq[p]
    <3>2. CASE w.pc = "complete"
      BY <1>1, <2>3, <3>1, <3>2, ArtRequestIs DEF ArtRequestOK
    <3>3. CASE w.pc = "trim"
      <4>1. w.todo \subseteq ArtJobs /\ w.flushed \subseteq ArtJobs
        BY <3>1, <3>3, ArtRequestIs
      <4>2. j \notin w.todo /\ j \notin w.flushed
        BY <1>1, <3>1, <3>3 DEF ArtRequestOK
      <4>3. \A i \in w.todo \cup w.flushed : artJob'[i] = artJob[i]
        BY <2>3, <4>1, <4>2
      <4> QED
        BY <3>1, <3>3, <4>3 DEF ArtRequestOK
    <3>4. CASE w.pc \notin {"complete", "trim"}
      BY <3>4 DEF ArtRequestOK
    <3> QED
      BY <3>2, <3>3, <3>4
  <2> QED
    BY <1>1, <1>3, <2>4, <2>5, <2>6 DEF ArtIInv
<1> QED
  BY <1>2, <1>3 DEF artifact_handler

\* The job is completed.
LEMMA ArtCompleteHolds ==
    ASSUME ArtIInv, NEW q \in Slots, CompleteArtifact(q)
    PROVE  ArtIInv'
<1> DEFINE j == artReq[q].j
           expires == artNow + Retention(j)
           version == artJob[j].version + 1
           job == [artJob[j] EXCEPT !.state = "completed", !.url = TRUE, !.expires = expires,
                                    !.version = @ + 1]
<1>1. j \in ArtJobs /\ artReq[q].pc = "complete"
  BY ArtTypes, ArtRequestIs DEF CompleteArtifact
<1>2. /\ artJob[j].state = "pending" /\ j \in stored /\ artJob[j].live
      /\ artJob[j] \in ArtifactJob
  BY <1>1, ArtTypes DEF ArtIInv, ArtRequestOK, JobOK
<1>3. /\ artJob' = [artJob EXCEPT ![j] = job]
      /\ artReq' = SetAt(q, Idle, artReq) /\ UNCHANGED <<artNow, stored, gone, unwound>>
  BY DEF CompleteArtifact
<1>5. expires \in Nat /\ version \in Nat
  BY <1>1, ArtTypes DEF Retention
<1>6. job \in ArtifactJob /\ job.state = "completed" /\ job.live
  <2>1. job = [artJob[j] EXCEPT !.state = "completed", !.url = TRUE, !.expires = expires,
                               !.version = version]
    BY <1>2 DEF ArtifactJob
  <2> HIDE DEF expires, version, job
  <2> QED
    BY <1>2, <1>5, <2>1 DEF ArtifactJob
<1> HIDE DEF job, j
<1>7. /\ artJob'[j] = job /\ artJob' \in [ArtJobs -> ArtifactJob]
      /\ \A i \in ArtJobs : i # j => artJob'[i] = artJob[i]
  BY <1>1, <1>3, <1>6, ArtTypes
<1>8. /\ artReq'[q] = Idle /\ artReq' \in [Slots -> ArtRequest]
      /\ \A p \in Slots : p # q => artReq'[p] = artReq[p]
  BY <1>3, ArtTypes, ArtIdle DEF SetAt
<1>9. ArtTyped'
  BY <1>3, <1>7, <1>8, ArtTypes DEF ArtTyped
<1>10. ASSUME NEW i \in ArtJobs
       PROVE  /\ JobOK(artJob'[i]) /\ GoneOK(artJob'[i], gone[i], i \in stored)
              /\ LinkOK(i, artJob', stored, unwound, artReq')
  <2>1. /\ JobOK(artJob[i]) /\ GoneOK(artJob[i], gone[i], i \in stored)
        /\ LinkOK(i, artJob, stored, unwound, artReq)
    BY DEF ArtIInv
  <2>2. CASE i = j
    BY <1>2, <1>6, <1>7, <2>1, <2>2 DEF JobOK, GoneOK, LinkOK
  <2>3. CASE i # j
    <3>1. \A p \in Slots : artReq[p].pc = "trim" => artReq'[p] = artReq[p]
      BY <1>1, <1>8
    <3> QED
      BY <1>7, <2>1, <2>3, <3>1 DEF LinkOK
  <2> QED
    BY <2>2, <2>3
<1>11. ASSUME NEW p \in Slots, p # q PROVE ArtRequestOK(artReq[p], artJob', stored)
  <2> DEFINE w == artReq[p]
  <2>1. ArtRequestOK(w, artJob, stored) /\ w \in ArtRequest
    BY ArtTypes DEF ArtIInv
  <2>2. CASE w.pc = "complete"
    <3>1. w.j \in ArtJobs /\ w.j # j
      BY <1>1, <1>11, <2>1, <2>2, ArtRequestIs DEF ArtIInv, ArtApart, j
    <3> QED
      BY <1>7, <2>1, <2>2, <3>1 DEF ArtRequestOK
  <2>3. CASE w.pc = "trim"
    <3>1. w.todo \subseteq ArtJobs /\ w.flushed \subseteq ArtJobs
      BY <2>1, <2>3, ArtRequestIs
    <3>2. j \notin w.todo /\ j \notin w.flushed
      BY <1>2, <2>1, <2>3 DEF ArtRequestOK
    <3>3. \A i \in w.todo \cup w.flushed : artJob'[i] = artJob[i]
      BY <1>7, <3>1, <3>2
    <3> QED
      BY <2>1, <2>3, <3>3 DEF ArtRequestOK
  <2>4. CASE w.pc \notin {"complete", "trim"}
    BY <2>4 DEF ArtRequestOK
  <2> QED
    BY <2>2, <2>3, <2>4
<1>12. \A p \in Slots : ArtRequestOK(artReq'[p], artJob', stored)
  BY <1>8, <1>11, ArtIdle
<1>13. \A o, p \in Slots : o # p => ArtApart(artReq'[o], artReq'[p])
  BY <1>8, ArtIdle DEF ArtIInv
<1> QED
  BY <1>3, <1>9, <1>10, <1>12, <1>13 DEF ArtIInv

\* A row is taken by a trim: flushed, or the trim is rolled back because
\* another one has committed it.
LEMMA ArtTrimOneHolds ==
    ASSUME ArtIInv, NEW q \in Slots, NEW j \in ArtJobs, TrimOne(q, j)
    PROVE  ArtIInv'
<1> DEFINE w == artReq[q]
<1>1. /\ w \in ArtRequest /\ w.pc = "trim" /\ j \in w.todo /\ ArtRequestOK(w, artJob, stored)
      /\ \A p \in Slots \ {q} : artReq[p].pc = "trim" => j \notin artReq[p].flushed
      /\ stored' = stored \ {j}
      /\ UNCHANGED <<artNow, artJob, gone>>
  BY ArtTypes DEF TrimOne, ArtIInv
<1>2. /\ w.todo \in SUBSET ArtJobs /\ w.flushed \in SUBSET ArtJobs /\ w.read \in ReadVersions
      /\ w = [pc |-> "trim", todo |-> w.todo, flushed |-> w.flushed, read |-> w.read]
  BY <1>1, ArtRequestIs
<1>3. artJob[j].state = "completed" /\ (artJob[j].live <=> w.read[j] = artJob[j].version)
  BY <1>1 DEF ArtRequestOK
<1>4. ASSUME NEW p \in Slots, p # q PROVE ArtRequestOK(artReq[p], artJob, stored')
  BY <1>1, <1>3, <1>4 DEF ArtIInv, ArtRequestOK
<1>5. \A i \in ArtJobs : /\ JobOK(artJob[i]) /\ GoneOK(artJob[i], gone[i], i \in stored')
                         /\ LinkOK(i, artJob, stored, unwound, artReq)
  BY <1>1 DEF ArtIInv, GoneOK
<1>6. CASE w.read[j] = artJob[j].version
  <2> DEFINE v == [pc |-> "trim", todo |-> w.todo \ {j}, flushed |-> w.flushed \cup {j},
                   read |-> w.read]
  <2>1. artReq' = [artReq EXCEPT ![q] = v] /\ UNCHANGED unwound
    BY <1>2, <1>6 DEF TrimOne, SetAt
  <2>2. /\ v \in ArtRequest /\ v.pc = "trim" /\ v.todo = w.todo \ {j}
        /\ v.flushed = w.flushed \cup {j} /\ v.read = w.read
    BY <1>2 DEF ArtRequest
  <2> HIDE DEF v
  <2>3. /\ artReq'[q] = v /\ artReq' \in [Slots -> ArtRequest]
        /\ \A p \in Slots : p # q => artReq'[p] = artReq[p]
    BY <2>1, <2>2, ArtTypes
  <2>4. ArtRequestOK(v, artJob, stored')
    BY <1>1, <1>3, <1>6, <2>2 DEF ArtRequestOK
  <2>5. \A i \in ArtJobs : LinkOK(i, artJob, stored', unwound, artReq')
    BY <1>1, <1>5, <2>2, <2>3 DEF LinkOK
  <2>6. \A p \in Slots : p # q => ArtApart(v, artReq[p]) /\ ArtApart(artReq[p], v)
    BY <1>1, <2>2 DEF ArtIInv, ArtApart
  <2>7. \A o, p \in Slots : o # p => ArtApart(artReq'[o], artReq'[p])
    BY <2>3, <2>6 DEF ArtIInv
  <2>8. ArtTyped'
    BY <1>1, <2>3, ArtTypes DEF ArtTyped
  <2>9. \A p \in Slots : ArtRequestOK(artReq'[p], artJob, stored')
    BY <1>4, <2>3, <2>4
  <2> QED
    BY <1>1, <1>5, <2>1, <2>5, <2>7, <2>8, <2>9 DEF ArtIInv
<1>7. CASE w.read[j] # artJob[j].version
  <2>1. artReq' = [artReq EXCEPT ![q] = Idle] /\ unwound' = unwound \cup w.flushed
    BY <1>7 DEF TrimOne, SetAt
  <2>2. /\ artReq'[q] = Idle /\ artReq' \in [Slots -> ArtRequest]
        /\ \A p \in Slots : p # q => artReq'[p] = artReq[p]
    BY <2>1, ArtTypes, ArtIdle
  <2>3. ~artJob[j].live
    BY <1>1, <1>3, <1>7
  <2>4. \A i \in ArtJobs : LinkOK(i, artJob, stored', unwound', artReq')
    BY <1>1, <1>5, <2>1, <2>2, <2>3 DEF LinkOK, GoneOK
  <2>5. \A o, p \in Slots : o # p => ArtApart(artReq'[o], artReq'[p])
    BY <2>2, ArtIdle DEF ArtIInv
  <2>6. ArtTyped'
    BY <1>1, <2>2, ArtTypes DEF ArtTyped
  <2>7. \A p \in Slots : ArtRequestOK(artReq'[p], artJob, stored')
    BY <1>4, <2>2, ArtIdle
  <2> QED
    BY <1>1, <1>5, <2>4, <2>5, <2>6, <2>7 DEF ArtIInv
<1> QED
  BY <1>6, <1>7

\* A trim reads the rows past their retention: only completed jobs have one.
LEMMA ArtReadHolds ==
    ASSUME ArtIInv, NEW q \in Slots, trim_expired_artifacts(q)
    PROVE  ArtIInv'
<1> DEFINE some == {j \in ArtJobs : /\ artJob[j].live /\ artJob[j].expires # 0
                                    /\ artJob[j].expires <= artNow}
           versions == [j \in some |-> artJob[j].version]
           w == [pc |-> "trim", todo |-> some, flushed |-> {}, read |-> versions]
<1>1. /\ artReq[q] = Idle /\ artReq' = [artReq EXCEPT ![q] = w]
      /\ UNCHANGED <<artNow, artJob, stored, gone, unwound>>
  BY DEF trim_expired_artifacts, SetAt
<1>2. \A j \in some : j \in ArtJobs /\ artJob[j].live /\ artJob[j].expires # 0
  OBVIOUS
<1>3. some \in SUBSET ArtJobs
  OBVIOUS
<1> HIDE DEF some
<1>4. versions \in [some -> Nat] /\ \A j \in some : versions[j] = artJob[j].version
  BY <1>3, ArtTypes
<1> HIDE DEF versions
<1>5. versions \in ReadVersions /\ DOMAIN versions = some
  BY <1>3, <1>4 DEF ReadVersions
<1>6. /\ w \in ArtRequest /\ w.pc = "trim" /\ w.todo = some /\ w.flushed = {}
      /\ w.read = versions
  BY <1>3, <1>5 DEF ArtRequest
<1> HIDE DEF w
<1>7. /\ artReq'[q] = w /\ artReq' \in [Slots -> ArtRequest]
      /\ \A p \in Slots : p # q => artReq'[p] = artReq[p]
  BY <1>1, <1>6, ArtTypes
<1>8. \A j \in some : artJob[j].state = "completed" /\ versions[j] <= artJob[j].version
  BY <1>2, <1>4, ArtTypes DEF ArtIInv, JobOK
<1>9. ArtRequestOK(w, artJob, stored)
  BY <1>2, <1>4, <1>5, <1>6, <1>8 DEF ArtRequestOK
<1>10. \A p \in Slots : p # q => ArtApart(w, artReq[p]) /\ ArtApart(artReq[p], w)
  BY <1>6 DEF ArtApart
<1>11. \A o, p \in Slots : o # p => ArtApart(artReq'[o], artReq'[p])
  BY <1>7, <1>10 DEF ArtIInv
<1>12. \A j \in ArtJobs : LinkOK(j, artJob, stored, unwound, artReq')
  BY <1>1, <1>7 DEF ArtIInv, LinkOK, Idle
<1>13. ArtTyped'
  BY <1>1, <1>7, ArtTypes DEF ArtTyped
<1>14. \A p \in Slots : ArtRequestOK(artReq'[p], artJob, stored)
  BY <1>7, <1>9 DEF ArtIInv
<1> QED
  BY <1>1, <1>11, <1>12, <1>13, <1>14 DEF ArtIInv

\* A trim commits: the rows it flushed end, each with its one entry in the feed.
LEMMA ArtCommitHolds ==
    ASSUME ArtIInv, NEW q \in Slots, CommitTrim(q)
    PROVE  ArtIInv'
<1> DEFINE w == artReq[q]
           Ended(j) == [artJob[j] EXCEPT !.url = FALSE, !.live = FALSE, !.version = @ + 1]
<1>1. /\ w \in ArtRequest /\ w.pc = "trim" /\ ArtRequestOK(w, artJob, stored)
      /\ artReq' = [artReq EXCEPT ![q] = Idle] /\ UNCHANGED <<artNow, stored, unwound>>
  BY ArtTypes DEF CommitTrim, ArtIInv, SetAt
<1>2. ASSUME NEW j \in ArtJobs
      PROVE  /\ Ended(j) \in ArtifactJob /\ ~Ended(j).live /\ ~Ended(j).url
             /\ Ended(j).state = artJob[j].state /\ Ended(j).version = artJob[j].version + 1
  <2> DEFINE n == artJob[j].version + 1
  <2>1. n \in Nat /\ artJob[j] \in ArtifactJob
    BY ArtTypes
  <2>2. Ended(j) = [artJob[j] EXCEPT !.url = FALSE, !.live = FALSE, !.version = n]
    BY <2>1 DEF ArtifactJob
  <2> HIDE DEF n
  <2>3. /\ Ended(j) \in ArtifactJob /\ ~Ended(j).live /\ ~Ended(j).url
        /\ Ended(j).state = artJob[j].state /\ Ended(j).version = n
    BY <2>1, <2>2 DEF ArtifactJob
  <2> QED
    BY <2>3 DEF n
<1>3. \A j \in ArtJobs : /\ Ended(j) \in ArtifactJob /\ ~Ended(j).live /\ ~Ended(j).url
                         /\ Ended(j).state = artJob[j].state
                         /\ Ended(j).version = artJob[j].version + 1
  BY <1>2
<1>4. /\ artJob' = [j \in ArtJobs |-> IF j \in w.flushed THEN Ended(j) ELSE artJob[j]]
      /\ gone' = [j \in ArtJobs |-> IF j \in w.flushed THEN gone[j] + 1 ELSE gone[j]]
  BY DEF CommitTrim
<1> HIDE DEF Ended
<1>5. /\ artJob' \in [ArtJobs -> ArtifactJob] /\ gone' \in [ArtJobs -> Nat]
  BY <1>3, <1>4, ArtTypes
<1>6. ASSUME NEW j \in ArtJobs
      PROVE  /\ j \in w.flushed => artJob'[j] = Ended(j) /\ gone'[j] = gone[j] + 1
             /\ j \notin w.flushed => artJob'[j] = artJob[j] /\ gone'[j] = gone[j]
  BY <1>4
<1>7. /\ artReq'[q] = Idle /\ artReq' \in [Slots -> ArtRequest]
      /\ \A p \in Slots : p # q => artReq'[p] = artReq[p]
  BY <1>1, ArtTypes, ArtIdle
<1>8. w.flushed \subseteq ArtJobs
         /\ \A j \in w.flushed : artJob[j].state = "completed" /\ artJob[j].live /\ j \notin stored
  BY <1>1, ArtRequestIs DEF ArtRequestOK
<1>9. ASSUME NEW j \in ArtJobs
      PROVE  /\ JobOK(artJob'[j]) /\ GoneOK(artJob'[j], gone'[j], j \in stored)
             /\ LinkOK(j, artJob', stored, unwound, artReq')
  <2>1. /\ JobOK(artJob[j]) /\ GoneOK(artJob[j], gone[j], j \in stored)
        /\ LinkOK(j, artJob, stored, unwound, artReq)
    BY DEF ArtIInv
  <2>2. CASE j \in w.flushed
    BY <1>3, <1>6, <1>8, <2>1, <2>2 DEF JobOK, GoneOK, LinkOK
  <2>3. CASE j \notin w.flushed
    <3>1. LinkOK(j, artJob', stored, unwound, artReq')
      BY <1>6, <1>7, <2>1, <2>3 DEF LinkOK
    <3> QED
      BY <1>6, <2>1, <2>3, <3>1
  <2> QED
    BY <2>2, <2>3
<1>10. ASSUME NEW p \in Slots, p # q PROVE ArtRequestOK(artReq[p], artJob', stored)
  <2> DEFINE v == artReq[p]
  <2>1. ArtRequestOK(v, artJob, stored) /\ v \in ArtRequest /\ ArtApart(v, w)
    BY <1>10, ArtTypes DEF ArtIInv
  <2>2. CASE v.pc = "complete"
    <3>1. v.j \in ArtJobs /\ v.j \notin w.flushed
      BY <1>8, <2>1, <2>2, ArtRequestIs DEF ArtRequestOK
    <3> QED
      BY <1>6, <2>1, <2>2, <3>1 DEF ArtRequestOK
  <2>3. CASE v.pc = "trim"
    <3>1. v.todo \subseteq ArtJobs /\ v.flushed \subseteq ArtJobs /\ v.flushed \cap w.flushed = {}
          /\ v.read \in ReadVersions /\ v.todo \subseteq DOMAIN v.read
      BY <1>1, <2>1, <2>3, ArtRequestIs DEF ArtApart, ArtRequestOK
    <3>2. \A j \in v.flushed : artJob'[j] = artJob[j]
      BY <1>6, <3>1
    <3>3. ASSUME NEW j \in v.todo
          PROVE  /\ artJob'[j].state = "completed" /\ v.read[j] <= artJob'[j].version
                 /\ artJob'[j].live <=> v.read[j] = artJob'[j].version
      <4>1. /\ artJob[j].state = "completed" /\ v.read[j] <= artJob[j].version
            /\ artJob[j].live <=> v.read[j] = artJob[j].version
        BY <2>1, <2>3 DEF ArtRequestOK
      <4>2. j \in ArtJobs /\ artJob[j].version \in Nat /\ v.read[j] \in Nat
        BY <3>1, ArtTypes DEF ReadVersions
      <4>3. CASE j \in w.flushed
        BY <1>3, <1>6, <4>1, <4>2, <4>3
      <4>4. CASE j \notin w.flushed
        BY <1>6, <4>1, <4>2, <4>4
      <4> QED
        BY <4>3, <4>4
    <3> QED
      BY <2>1, <2>3, <3>1, <3>2, <3>3 DEF ArtRequestOK
  <2>4. CASE v.pc \notin {"complete", "trim"}
    BY <2>4 DEF ArtRequestOK
  <2> QED
    BY <2>2, <2>3, <2>4
<1>11. \A p \in Slots : ArtRequestOK(artReq'[p], artJob', stored)
  BY <1>7, <1>10, ArtIdle
<1>12. \A o, p \in Slots : o # p => ArtApart(artReq'[o], artReq'[p])
  BY <1>7, ArtIdle DEF ArtIInv
<1>13. ArtTyped'
  BY <1>1, <1>5, <1>7, ArtTypes DEF ArtTyped
<1> QED
  BY <1>1, <1>9, <1>11, <1>12, <1>13 DEF ArtIInv

\* The workers end: what trims had flushed is rolled back, and is unwound.
LEMMA ArtCrashHolds ==
    ASSUME ArtIInv, ArtCrash
    PROVE  ArtIInv'
<1>1. /\ unwound' = unwound \cup UNION {artReq[q].flushed : q \in {p \in Slots : artReq[p].pc = "trim"}}
      /\ artReq' = [q \in Slots |-> Idle] /\ UNCHANGED <<artNow, artJob, stored, gone>>
  BY DEF ArtCrash
<1>2. /\ artReq' \in [Slots -> ArtRequest] /\ \A q \in Slots : artReq'[q] = Idle
  BY <1>1, ArtIdle
<1>3. \A j \in ArtJobs : LinkOK(j, artJob, stored, unwound', artReq')
  BY <1>1 DEF ArtIInv, LinkOK
<1>4. ArtTyped'
  BY <1>1, <1>2 DEF ArtIInv, ArtTyped
<1> QED
  BY <1>1, <1>2, <1>3, <1>4, ArtIdle DEF ArtIInv

\* The invariant survives every step ...
LEMMA ArtInvStep == ArtIInv /\ [ArtNext]_artVars => ArtIInv'
<1> SUFFICES ASSUME ArtIInv, [ArtNext]_artVars PROVE ArtIInv'
  OBVIOUS
<1>1. ASSUME NEW q \in Slots, NEW j \in ArtJobs, artifact_handler(q, j) PROVE ArtIInv'
  BY <1>1, ArtHandlerHolds
<1>2. ASSUME NEW q \in Slots, NEW j \in ArtJobs, TrimOne(q, j) PROVE ArtIInv'
  BY <1>2, ArtTrimOneHolds
<1>3. ASSUME NEW q \in Slots, CompleteArtifact(q) PROVE ArtIInv'
  BY <1>3, ArtCompleteHolds
<1>4. ASSUME NEW q \in Slots, trim_expired_artifacts(q) PROVE ArtIInv'
  BY <1>4, ArtReadHolds
<1>5. ASSUME NEW q \in Slots, CommitTrim(q) PROVE ArtIInv'
  BY <1>5, ArtCommitHolds
<1>6. CASE ArtTick
  <2>1. artNow' \in Nat /\ UNCHANGED <<artJob, stored, gone, unwound, artReq>>
    BY <1>6, ArtTypes DEF ArtTick
  <2> QED
    BY <2>1 DEF ArtIInv, ArtTyped
<1>7. CASE UNCHANGED artVars
  BY <1>7 DEF artVars, ArtIInv, ArtTyped
<1> QED
  BY <1>1, <1>2, <1>3, <1>4, <1>5, <1>6, <1>7, ArtCrashHolds DEF ArtNext

\* ... and holds at the start.
LEMMA ArtInvInit == ArtInit => ArtIInv
<1> SUFFICES ASSUME ArtInit PROVE ArtIInv
  OBVIOUS
<1> DEFINE row == [state |-> "pending", url |-> FALSE, expires |-> 0, live |-> TRUE, version |-> 1]
<1>1. /\ artNow = 0 /\ artJob = [j \in ArtJobs |-> row]
      /\ stored = {} /\ gone = [j \in ArtJobs |-> 0] /\ unwound = {}
      /\ artReq = [q \in Slots |-> Idle]
  BY DEF ArtInit
<1>2. row \in ArtifactJob /\ row.live /\ ~row.url /\ row.expires = 0
  BY DEF ArtifactJob
<1> HIDE DEF row
<1>3. ArtTyped
  BY <1>1, <1>2, ArtIdle DEF ArtTyped
<1>4. \A j \in ArtJobs : /\ JobOK(artJob[j]) /\ GoneOK(artJob[j], gone[j], j \in stored)
                         /\ LinkOK(j, artJob, stored, unwound, artReq)
  BY <1>1, <1>2 DEF JobOK, GoneOK, LinkOK
<1> QED
  BY <1>1, <1>3, <1>4, ArtIdle DEF ArtIInv

-----------------------------------------------------------------------------
(* The steps of the postal reference. *)

\* The last city of a code is the city of a row of it.
LEMMA LastCityIsNamed ==
    ASSUME NEW rows \in PostalRows, NEW c \in NamedCodes(rows)
    PROVE  \E i \in DOMAIN rows : rows[i].code = c /\ LastCity(rows, c) = rows[i].city
<1> DEFINE at == {i \in DOMAIN rows : rows[i].code = c}
<1>1. PICK n \in 0 .. 2 : DOMAIN rows = 1 .. n
  BY DEF PostalRows
<1>2. PICK j \in DOMAIN rows : rows[j].code = c
  BY DEF NamedCodes
<1>3. \E i \in at : \A k \in at : k <= i
  <2>1. CASE 2 \in at
    BY <1>1, <2>1
  <2>2. CASE 2 \notin at
    <3>1. j = 1 /\ j \in at
      BY <1>1, <1>2, <2>2
    <3>2. \A k \in at : k <= 1
      BY <1>1, <2>2
    <3> QED
      BY <3>1, <3>2
  <2> QED
    BY <2>1, <2>2
<1> DEFINE last == CHOOSE i \in at : \A k \in at : k <= i
<1>4. last \in at
  BY <1>3, Zenon
<1>5. LastCity(rows, c) = rows[last].city
  BY DEF LastCity
<1> HIDE DEF last
<1> QED
  BY <1>4, <1>5

\* A row of a payload names a code and one of the cities.
LEMMA RowIs ==
    ASSUME NEW rows \in PostalRows, NEW i \in DOMAIN rows
    PROVE  rows[i].code \in PostalCodes /\ rows[i].city \in Cities /\ i \in Nat
<1>1. PICK n \in 0 .. 2 : rows \in [1 .. n -> [code : PostalCodes, city : Cities]]
  BY DEF PostalRows
<1>2. rows[i] \in [code : PostalCodes, city : Cities] /\ i \in 1 .. n
  BY <1>1
<1> QED
  BY <1>1, <1>2

\* What the invariant says of one request.
LEMMA PostalTypes ==
    ASSUME PostalIInv
    PROVE  /\ postal \in [PostalCodes -> PostalCode]
           /\ \A c \in PostalCodes : postal[c] \in PostalCode
           /\ postalReq \in [Slots -> {Idle} \cup Refresh]
           /\ \A q \in Slots : postalReq[q].pc = "refresh" => postalReq[q] \in Refresh
  BY DEF PostalIInv, PostalTyped, Idle

\* A refresh reads the table.
LEMMA RefreshReads ==
    ASSUME PostalIInv, NEW q \in Slots, NEW rows \in PostalRows, NEW full \in BOOLEAN,
           refresh_postal_reference(q, rows, full)
    PROVE  PostalIInv'
<1> DEFINE written == Touched(postal, rows, full)
           inserted == Added(postal, rows)
           w == [pc |-> "refresh", rows |-> rows, full |-> full, read |-> postal,
                 written |-> written, inserted |-> inserted]
<1>1. /\ postalReq' = [postalReq EXCEPT ![q] = w] /\ UNCHANGED <<postal, snapshot, overlapped>>
  BY DEF refresh_postal_reference, Touched, Added, NamedCodes
<1>2. written \subseteq PostalCodes /\ inserted \subseteq Nat
  BY RowIs DEF Touched, Retired, Live, Added
<1> HIDE DEF written, inserted
<1>3. w \in Refresh /\ w.rows = rows /\ w.full = full /\ w.written = written
         /\ w.inserted = inserted
  BY <1>2, PostalTypes DEF Refresh
<1> HIDE DEF w
<1>4. /\ postalReq' \in [Slots -> {Idle} \cup Refresh] /\ postalReq'[q] = w
      /\ \A p \in Slots : p # q => postalReq'[p] = postalReq[p]
  BY <1>1, <1>3, PostalTypes
<1>5. RefreshOK(w, postal)
  BY <1>3 DEF RefreshOK, written, inserted
<1>6. PostalTyped' /\ SnapshotIsApplied'
  BY <1>1, <1>4 DEF PostalIInv, PostalTyped, SnapshotIsApplied
<1> QED
  BY <1>1, <1>4, <1>5, <1>6 DEF PostalIInv

\* A request ends and the table stays.
LEMMA RefreshEnds ==
    ASSUME PostalIInv, NEW q \in Slots, postalReq' = [postalReq EXCEPT ![q] = Idle],
           UNCHANGED <<postal, snapshot, overlapped>>
    PROVE  PostalIInv'
<1>1. /\ postalReq' \in [Slots -> {Idle} \cup Refresh] /\ postalReq'[q] = Idle
      /\ \A p \in Slots : p # q => postalReq'[p] = postalReq[p]
  BY PostalTypes
<1>2. PostalTyped' /\ SnapshotIsApplied'
  BY <1>1 DEF PostalIInv, PostalTyped, SnapshotIsApplied
<1> QED
  BY <1>1, <1>2 DEF PostalIInv, RefreshOK, Idle

\* A refresh lands: if none overlapped it, the table is what it was given.
LEMMA RefreshCommits ==
    ASSUME PostalIInv, NEW q \in Slots, CommitRefresh(q)
    PROVE  PostalIInv'
<1> DEFINE w == postalReq[q]
           rows == w.rows
           added == {rows[i].code : i \in w.inserted}
<1>1. CASE ~RefreshLands(q)
  <2>1. /\ postalReq' = [postalReq EXCEPT ![q] = Idle]
        /\ UNCHANGED <<postal, snapshot, overlapped>>
    BY <1>1 DEF CommitRefresh
  <2> QED
    BY <2>1, RefreshEnds
<1>2. CASE RefreshLands(q)
  <2>1. /\ postal' = [c \in PostalCodes |->
                  IF c \notin w.written \cup added THEN postal[c]
                  ELSE [city |-> IF c \in NamedCodes(rows) THEN LastCity(rows, c) ELSE Nowhere,
                        version |-> postal[c].version + 1]]
        /\ snapshot' = [rows |-> rows, full |-> w.full]
        /\ overlapped' = (overlapped \/ \E p \in Slots \ {q} : postalReq[p].pc = "refresh")
        /\ postalReq' = [postalReq EXCEPT ![q] = Idle] /\ w.pc = "refresh"
    BY <1>2 DEF CommitRefresh, NamedCodes
  <2>2. w \in Refresh /\ rows \in PostalRows
    BY <2>1, PostalTypes DEF Refresh
  <2>3. /\ postalReq' \in [Slots -> {Idle} \cup Refresh] /\ postalReq'[q] = Idle
        /\ \A p \in Slots : p # q => postalReq'[p] = postalReq[p]
    BY <2>1, PostalTypes
  <2>4. \A c \in NamedCodes(rows) : c \in PostalCodes /\ LastCity(rows, c) \in Cities
    BY <2>2, LastCityIsNamed, RowIs DEF NamedCodes
  <2> DEFINE City(c) == IF c \in NamedCodes(rows) THEN LastCity(rows, c) ELSE Nowhere
             Row(c) == [city |-> City(c), version |-> postal[c].version + 1]
  <2>5. \A c \in PostalCodes : City(c) \in Cities \cup {Nowhere}
    BY <2>4
  <2> HIDE DEF City
  <2>6. \A c \in PostalCodes : Row(c) \in PostalCode /\ Row(c).city = City(c)
    BY <2>5, PostalTypes DEF PostalCode
  <2> HIDE DEF Row
  <2>7. postal' = [c \in PostalCodes |-> IF c \notin w.written \cup added THEN postal[c] ELSE Row(c)]
    BY <2>1 DEF Row, City
  <2>8. postal' \in [PostalCodes -> PostalCode]
    BY <2>6, <2>7, PostalTypes
  <2>9. overlapped' \in BOOLEAN
    BY <2>1 DEF PostalIInv, PostalTyped
  <2>10. PostalTyped'
    BY <2>3, <2>8, <2>9 DEF PostalTyped
  <2>11. snapshot'.rows = rows /\ snapshot'.full = w.full
    BY <2>1
  <2>12. ASSUME ~overlapped'
         PROVE  /\ \A c \in NamedCodes(rows) : postal'[c].city = LastCity(rows, c)
                /\ w.full => Live(postal') = NamedCodes(rows)
    <3>1. w.written = Touched(postal, rows, w.full) /\ w.inserted = Added(postal, rows)
      BY <2>1, <2>12 DEF PostalIInv, RefreshOK
    <3>2. ASSUME NEW c \in NamedCodes(rows) PROVE postal'[c].city = LastCity(rows, c)
      <4>1. c \in PostalCodes /\ City(c) = LastCity(rows, c)
        BY <2>4 DEF City
      <4>2. CASE c \in w.written \cup added
        BY <2>6, <2>7, <4>1, <4>2
      <4>3. CASE c \notin w.written \cup added
        <5>1. c \in Live(postal)
          BY <3>1, <4>3 DEF Added, NamedCodes
        <5>2. \A i \in DOMAIN rows : rows[i].code = c => rows[i].city = postal[c].city
          BY <3>1, <4>3, <5>1 DEF Touched
        <5> QED
          BY <2>2, <2>7, <4>1, <4>3, <5>2, LastCityIsNamed
      <4> QED
        BY <4>2, <4>3
    <3>3. ASSUME w.full PROVE Live(postal') = NamedCodes(rows)
      <4>1. ASSUME NEW c \in NamedCodes(rows) PROVE c \in Live(postal')
        BY <2>4, <3>2, PostalRefreshAssumption DEF Live
      <4>2. ASSUME NEW c \in PostalCodes, c \notin NamedCodes(rows) PROVE postal'[c].city = Nowhere
        <5>1. City(c) = Nowhere
          BY <4>2 DEF City
        <5>2. c \in Live(postal) => c \in w.written
          BY <3>1, <3>3, <4>2 DEF Touched, Retired, NamedCodes
        <5> QED
          BY <2>6, <2>7, <5>1, <5>2 DEF Live
      <4> QED
        BY <4>1, <4>2 DEF Live
    <3> QED
      BY <3>2, <3>3
  <2>13. SnapshotIsApplied'
    BY <2>11, <2>12 DEF SnapshotIsApplied, NamedCodes
  <2>14. ~overlapped' => \A p \in Slots : postalReq'[p].pc # "refresh"
    BY <2>1, <2>3 DEF Idle
  <2> QED
    BY <2>10, <2>13, <2>14 DEF PostalIInv, RefreshOK
<1> QED
  BY <1>1, <1>2

\* The invariant survives every step ...
LEMMA PostalInvStep == PostalIInv /\ [PostalNext]_postalVars => PostalIInv'
<1> SUFFICES ASSUME PostalIInv, [PostalNext]_postalVars PROVE PostalIInv'
  OBVIOUS
<1>1. ASSUME NEW q \in Slots, NEW rows \in PostalRows, NEW full \in BOOLEAN,
             refresh_postal_reference(q, rows, full)
      PROVE  PostalIInv'
  BY <1>1, RefreshReads
<1>2. ASSUME NEW q \in Slots, CommitRefresh(q) PROVE PostalIInv'
  BY <1>2, RefreshCommits
<1>3. ASSUME NEW q \in Slots, RefreshAborts(q) PROVE PostalIInv'
  BY <1>3, RefreshEnds DEF RefreshAborts
<1>4. CASE UNCHANGED postalVars
  BY <1>4 DEF postalVars, PostalIInv, PostalTyped, SnapshotIsApplied
<1> QED
  BY <1>1, <1>2, <1>3, <1>4 DEF PostalNext

\* ... and holds at the start.
LEMMA PostalInvInit == PostalInit => PostalIInv
<1> SUFFICES ASSUME PostalInit PROVE PostalIInv
  OBVIOUS
<1>1. /\ postal = [c \in PostalCodes |-> [city |-> Nowhere, version |-> 0]]
      /\ snapshot = [rows |-> <<>>, full |-> TRUE]
      /\ overlapped = FALSE /\ postalReq = [q \in Slots |-> Idle]
  BY DEF PostalInit
<1>2. PostalTyped
  BY <1>1 DEF PostalTyped, PostalCode
<1>3. SnapshotIsApplied
  BY <1>1 DEF SnapshotIsApplied, Live
<1> QED
  BY <1>1, <1>2, <1>3 DEF PostalIInv, RefreshOK, Idle

-----------------------------------------------------------------------------
(* The steps of the creation of records. *)

\* Two records match whichever is asked about.
LEMMA MatchesIsSymmetric ==
    ASSUME NEW a, NEW b
    PROVE  Matches(a, b) <=> Matches(b, a)
  BY DEF Matches, MatchesRule

\* What the invariant says of the types of rows, forms and requests.
LEMMA CreateTypes ==
    ASSUME CreateIInv
    PROVE  /\ Len(people) \in Nat /\ DOMAIN people = 1 .. Len(people)
           /\ DOMAIN sinceCheck = 1 .. Len(people)
           /\ \A n \in DOMAIN people : people[n] \in PersonRow /\ sinceCheck[n] \in SUBSET Nat
           /\ \A w \in CWindows : createForm[w] \in CreateForm /\ creating[w] \in PostRequest
           /\ people \in Seq(PersonRow) /\ sinceCheck \in Seq(SUBSET Nat)
           /\ createForm \in [CWindows -> CreateForm] /\ creating \in [CWindows -> PostRequest]
  BY LenProperties, ElementOfSeq DEF CreateIInv, CreateTyped

\* A step of forms and POSTs that leaves the records alone.
LEMMA FormsMove ==
    ASSUME CreateIInv, UNCHANGED <<people, sinceCheck>>,
           NEW w \in CWindows, NEW form \in CreateForm, NEW post \in PostRequest,
           createForm' = [createForm EXCEPT ![w] = form],
           creating' = [creating EXCEPT ![w] = post],
           OfferOK(form, people), PostOK(post, people)
    PROVE  CreateIInv'
<1>1. /\ createForm'[w] = form /\ creating'[w] = post
      /\ createForm' \in [CWindows -> CreateForm] /\ creating' \in [CWindows -> PostRequest]
      /\ \A v \in CWindows : v # w => createForm'[v] = createForm[v] /\ creating'[v] = creating[v]
  BY CreateTypes
<1>2. CreateTyped'
  BY <1>1 DEF CreateIInv, CreateTyped
<1>3. \A v \in CWindows : OfferOK(createForm'[v], people) /\ PostOK(creating'[v], people)
  BY <1>1 DEF CreateIInv
<1> QED
  BY <1>2, <1>3 DEF CreateIInv

\* A form moves and no POST does.
LEMMA FormMoves ==
    ASSUME CreateIInv, UNCHANGED <<people, sinceCheck, creating>>,
           NEW w \in CWindows, NEW form \in CreateForm,
           createForm' = [createForm EXCEPT ![w] = form], OfferOK(form, people)
    PROVE  CreateIInv'
<1>1. creating' = [creating EXCEPT ![w] = creating[w]] /\ creating[w] \in PostRequest
  BY CreateTypes
<1>2. PostOK(creating[w], people)
  BY DEF CreateIInv
<1> QED
  BY <1>1, <1>2, FormsMove

\* A POST moves and no form does.
LEMMA PostMoves ==
    ASSUME CreateIInv, UNCHANGED <<people, sinceCheck, createForm>>,
           NEW w \in CWindows, NEW post \in PostRequest,
           creating' = [creating EXCEPT ![w] = post], PostOK(post, people)
    PROVE  CreateIInv'
<1>1. createForm' = [createForm EXCEPT ![w] = createForm[w]] /\ createForm[w] \in CreateForm
  BY CreateTypes
<1>2. OfferOK(createForm[w], people)
  BY DEF CreateIInv
<1> QED
  BY <1>1, <1>2, FormsMove

\* The empty request and the closed form are in order.
LEMMA NothingPosted ==
    ASSUME NEW table
    PROVE  /\ NoPost \in PostRequest /\ PostOK(NoPost, table)
           /\ ClosedForm \in CreateForm /\ OfferOK(ClosedForm, table)
           /\ Opened \in CreateForm /\ OfferOK(Opened, table)
<1>1. Seeds \in [IdFields -> Inputs]
  BY RecordCreatesAssumption
<1>2. [f \in IdFields |-> NoInput] \in [IdFields -> Inputs]
  BY DEF Inputs
<1>3. NoPost \in PostRequest /\ PostOK(NoPost, table)
  BY <1>2 DEF NoPost, PostRequest, PostOK
<1>4. Opened \in CreateForm /\ OfferOK(Opened, table)
  BY <1>1 DEF Opened, CreateForm, OfferOK
<1>5. ClosedForm \in CreateForm /\ OfferOK(ClosedForm, table)
  BY <1>1 DEF Opened, ClosedForm, CreateForm, OfferOK
<1> QED
  BY <1>3, <1>4, <1>5

\* A field is edited.
LEMMA CreateEditHolds ==
    ASSUME CreateIInv, NEW w \in CWindows, NEW f \in IdFields, NEW v \in Inputs,
           edit_value(w, f, v)
    PROVE  CreateIInv'
<1> DEFINE values == [createForm[w].values EXCEPT ![f] = v]
           form == [createForm[w] EXCEPT !.values = values, !.rejected = {}]
<1>1. /\ createForm' = [createForm EXCEPT ![w] = form]
      /\ UNCHANGED <<people, creating, sinceCheck>>
  BY CreateTypes DEF edit_value, CreateForm
<1>2. createForm[w] \in CreateForm /\ OfferOK(createForm[w], people)
  BY CreateTypes DEF CreateIInv
<1>3. values \in [IdFields -> Inputs]
  BY <1>2 DEF CreateForm
<1> HIDE DEF values
<1>4. form \in CreateForm /\ form.offered = createForm[w].offered
  BY <1>2, <1>3 DEF CreateForm
<1> HIDE DEF form
<1>5. OfferOK(form, people)
  BY <1>2, <1>4 DEF OfferOK
<1> QED
  BY <1>1, <1>4, <1>5, FormMoves

\* An advisory check is asked for.
LEMMA CheckInputHolds ==
    ASSUME CreateIInv, NEW w \in CWindows, similar_check_input(w)
    PROVE  CreateIInv'
<1> DEFINE form == [createForm[w] EXCEPT !.checked = {createForm[w].values},
                                         !.asked = {createForm[w].values}]
<1>1. /\ createForm' = [createForm EXCEPT ![w] = form]
      /\ UNCHANGED <<people, creating, sinceCheck>>
  BY CreateTypes DEF similar_check_input, CreateForm
<1>2. createForm[w] \in CreateForm /\ OfferOK(createForm[w], people)
  BY CreateTypes DEF CreateIInv
<1>3. form \in CreateForm /\ form.offered = createForm[w].offered
  BY <1>2 DEF CreateForm
<1> HIDE DEF form
<1>4. OfferOK(form, people)
  BY <1>2, <1>3 DEF OfferOK
<1> QED
  BY <1>1, <1>3, <1>4, FormMoves

\* An advisory check is answered with records there are.
LEMMA CheckAnswerHolds ==
    ASSUME CreateIInv, NEW w \in CWindows, post_similar_records(w)
    PROVE  CreateIInv'
<1> DEFINE Found(asked) ==
              {[id |-> n, removed |-> people[n].deleted, version |-> people[n].version] :
                  n \in find_similar_records(asked, TRUE)}
<1>1. PICK asked \in createForm[w].asked :
         createForm' = [createForm EXCEPT ![w].asked = {},
                           ![w].offered = IF Found(asked) = {} THEN @ ELSE Found(asked)]
  BY DEF post_similar_records
<1> DEFINE found == Found(asked)
           offered == IF found = {} THEN createForm[w].offered ELSE found
           form == [createForm[w] EXCEPT !.asked = {}, !.offered = offered]
<1>2. createForm[w] \in CreateForm /\ OfferOK(createForm[w], people)
  BY CreateTypes DEF CreateIInv
<1>3. /\ createForm' = [createForm EXCEPT ![w] = form]
      /\ UNCHANGED <<people, creating, sinceCheck>>
  <2>1. UNCHANGED <<people, creating, sinceCheck>>
    BY DEF post_similar_records
  <2> HIDE DEF Found
  <2>2. createForm' = [createForm EXCEPT ![w] = form]
    BY <1>1, <1>2, CreateTypes DEF CreateForm
  <2> QED
    BY <2>1, <2>2
<1>4. \A n \in find_similar_records(asked, TRUE) : n \in DOMAIN people
  BY DEF find_similar_records
<1>5. \A n \in DOMAIN people : /\ people[n].deleted \in BOOLEAN /\ people[n].version \in Nat
                               /\ n \in Nat
  BY CreateTypes DEF PersonRow
<1>6. \A c \in found : /\ c \in [id : Nat, removed : BOOLEAN, version : Nat]
                       /\ c.id \in DOMAIN people
  <2> SUFFICES ASSUME NEW n \in find_similar_records(asked, TRUE)
               PROVE  LET c == [id |-> n, removed |-> people[n].deleted,
                                version |-> people[n].version]
                      IN  c \in [id : Nat, removed : BOOLEAN, version : Nat]
                          /\ c.id \in DOMAIN people
    BY Zenon
  <2> QED
    BY <1>4, <1>5
<1> HIDE DEF found
<1>7. /\ offered \in SUBSET [id : Nat, removed : BOOLEAN, version : Nat]
      /\ \A c \in offered : c.id \in DOMAIN people
  BY <1>2, <1>6 DEF CreateForm, OfferOK
<1> HIDE DEF offered
<1>8. form \in CreateForm /\ form.offered = offered
  BY <1>2, <1>7 DEF CreateForm
<1> HIDE DEF form
<1>9. OfferOK(form, people)
  BY <1>7, <1>8 DEF OfferOK
<1> QED
  BY <1>3, <1>8, <1>9, FormMoves

\* A POST is sent.
LEMMA RequestCreateHolds ==
    ASSUME CreateIInv, NEW w \in CWindows, RequestCreate(w)
    PROVE  CreateIInv'
<1> DEFINE over == createForm[w].rejected # {}
           post == [creating[w] EXCEPT !.stage = "sent", !.values = createForm[w].values,
                                       !.override = over]
<1>1. creating' = [creating EXCEPT ![w] = post] /\ UNCHANGED <<people, createForm, sinceCheck>>
  BY CreateTypes DEF RequestCreate, PostRequest
<1>2. creating[w] \in PostRequest /\ createForm[w].values \in [IdFields -> Inputs]
  BY CreateTypes DEF CreateForm
<1>3. over \in BOOLEAN
  OBVIOUS
<1> HIDE DEF over
<1>4. post \in PostRequest /\ post.stage = "sent"
  BY <1>2, <1>3 DEF PostRequest
<1> HIDE DEF post
<1>5. PostOK(post, people)
  BY <1>4 DEF PostOK
<1> QED
  BY <1>1, <1>4, <1>5, PostMoves

\* A POST is refused, for its values or for its candidates.
LEMMA PostRefusedHolds ==
    ASSUME CreateIInv, NEW w \in CWindows, PostInvalid(w) \/ PostRejected(w)
    PROVE  CreateIInv'
<1>1. creating' = [creating EXCEPT ![w] = NoPost] /\ UNCHANGED <<people, sinceCheck>>
  BY DEF PostInvalid, PostRejected
<1>2. createForm[w] \in CreateForm /\ OfferOK(createForm[w], people)
  BY CreateTypes DEF CreateIInv
<1>3. CASE PostInvalid(w)
  <2>1. UNCHANGED createForm
    BY <1>3 DEF PostInvalid
  <2> QED
    BY <1>1, <2>1, NothingPosted, PostMoves
<1>4. CASE PostRejected(w)
  <2> DEFINE found == find_similar_records(creating[w].values, FALSE)
             rejected == IF createForm[w].open THEN found ELSE createForm[w].rejected
             form == [createForm[w] EXCEPT !.rejected = rejected]
  <2>1. found \in SUBSET Nat
    BY CreateTypes DEF find_similar_records
  <2> HIDE DEF found
  <2>2. createForm' = [createForm EXCEPT ![w] = form]
    BY <1>4, <1>2, CreateTypes DEF PostRejected, CreateForm, found
  <2>3. rejected \in SUBSET Nat
    BY <1>2, <2>1 DEF CreateForm
  <2> HIDE DEF rejected
  <2>4. form \in CreateForm /\ form.offered = createForm[w].offered
    BY <1>2, <2>3 DEF CreateForm
  <2> HIDE DEF form
  <2>5. OfferOK(form, people)
    BY <1>2, <2>4 DEF OfferOK
  <2> QED
    BY <1>1, <2>2, <2>4, <2>5, NothingPosted, FormsMove
<1> QED
  BY <1>3, <1>4

\* A POST is checked: every live record that matches it is a candidate.
LEMMA PostCheckedHolds ==
    ASSUME CreateIInv, NEW w \in CWindows, PostChecked(w)
    PROVE  CreateIInv'
<1> DEFINE found == find_similar_records(creating[w].values, FALSE)
           post == [creating[w] EXCEPT !.stage = "checked", !.found = found]
<1>1. creating' = [creating EXCEPT ![w] = post] /\ UNCHANGED <<people, createForm, sinceCheck>>
  BY CreateTypes DEF PostChecked, CheckedCandidates, PostRequest
<1>2. creating[w] \in PostRequest
  BY CreateTypes
<1>3. /\ found \in SUBSET Nat
      /\ \A m \in DOMAIN people :
            ~people[m].deleted /\ Matches(creating[w].values, people[m].values) => m \in found
  BY CreateTypes DEF find_similar_records
<1> HIDE DEF found
<1>4. /\ post \in PostRequest /\ post.values = creating[w].values /\ post.found = found
  BY <1>2, <1>3 DEF PostRequest
<1> HIDE DEF post
<1>5. PostOK(post, people)
  BY <1>3, <1>4 DEF PostOK
<1> QED
  BY <1>1, <1>4, <1>5, PostMoves

\* Requests learn of the record that came to life: what they knew, they know.
LEMMA PostsLearn ==
    ASSUME NEW posts \in [CWindows -> PostRequest], NEW n \in Nat
    PROVE  /\ PostsSee(n, posts) \in [CWindows -> PostRequest]
           /\ \A w \in CWindows :
                 LET post == PostsSee(n, posts)[w] IN
                 /\ post.stage = posts[w].stage /\ post.values = posts[w].values
                 /\ post.found = posts[w].found
                 /\ posts[w].stage = "checked" => post.since = posts[w].since \cup {n}
<1> DEFINE One(w) == IF posts[w].stage # "checked" THEN posts[w]
                     ELSE [posts[w] EXCEPT !.since = @ \cup {n}]
<1>1. ASSUME NEW w \in CWindows
      PROVE  /\ One(w) \in PostRequest
             /\ One(w).stage = posts[w].stage /\ One(w).values = posts[w].values
             /\ One(w).found = posts[w].found
             /\ posts[w].stage = "checked" => One(w).since = posts[w].since \cup {n}
  <2> DEFINE p == posts[w]
             more == p.since \cup {n}
             q == [p EXCEPT !.since = more]
  <2>1. p \in PostRequest
    OBVIOUS
  <2>2. One(w) = IF p.stage # "checked" THEN p ELSE q
    OBVIOUS
  <2> HIDE DEF p, One
  <2>3. more \in SUBSET Nat
    BY <2>1 DEF PostRequest
  <2> HIDE DEF more
  <2>4. /\ q \in PostRequest /\ q.stage = p.stage /\ q.values = p.values
        /\ q.found = p.found /\ q.since = more
    BY <2>1, <2>3 DEF PostRequest
  <2> HIDE DEF q
  <2> QED
    BY <2>1, <2>2, <2>4 DEF more, p
<1>2. PostsSee(n, posts) = [w \in CWindows |-> One(w)]
  BY DEF PostsSee
<1> HIDE DEF One
<1> QED
  BY <1>1, <1>2

\* A record is added: it knows of the live ones that match it, and the
\* requests that were checked before it learn of it.
LEMMA PostCommittedHolds ==
    ASSUME CreateIInv, NEW w \in CWindows, NEW lost \in BOOLEAN, PostCommitted(w, lost)
    PROVE  CreateIInv'
<1> DEFINE post == creating[w]
           row == [values |-> post.values, deleted |-> FALSE, version |-> 1,
                   override |-> post.found]
           n == Len(people) + 1
           posts == [creating EXCEPT ![w] = NoPost]
           form == IF lost THEN createForm[w] ELSE ClosedForm
<1>1. post \in PostRequest /\ post.stage = "checked" /\ PostOK(post, people)
  BY CreateTypes DEF PostCommitted, CreateIInv
<1>2. /\ people' = Append(people, row) /\ sinceCheck' = Append(sinceCheck, post.since)
      /\ creating' = PostsSee(Len(people'), posts)
      /\ createForm' = [createForm EXCEPT ![w] = form]
  BY DEF PostCommitted
<1>3. /\ row \in PersonRow /\ post.since \in SUBSET Nat /\ row.values = post.values
      /\ row.override = post.found
  BY <1>1 DEF PersonRow, PostRequest
<1>4. form \in CreateForm /\ OfferOK(form, people)
  BY CreateTypes, NothingPosted DEF CreateIInv
<1>5. /\ posts \in [CWindows -> PostRequest] /\ posts[w] = NoPost
      /\ \A v \in CWindows : v # w => posts[v] = creating[v]
  BY CreateTypes, NothingPosted
<1> HIDE DEF row, posts, form
<1>6. /\ people' \in Seq(PersonRow) /\ Len(people') = n /\ people'[n] = row
      /\ \A m \in 1 .. Len(people) : people'[m] = people[m]
  BY <1>2, <1>3, CreateTypes, AppendProperties
<1>7. /\ sinceCheck' \in Seq(SUBSET Nat) /\ Len(sinceCheck') = Len(sinceCheck) + 1
      /\ sinceCheck'[Len(sinceCheck) + 1] = post.since
      /\ \A m \in 1 .. Len(sinceCheck) : sinceCheck'[m] = sinceCheck[m]
  BY <1>2, <1>3, CreateTypes, AppendProperties
<1>8. Len(sinceCheck) = Len(people) /\ Len(people) \in Nat /\ DOMAIN people = 1 .. Len(people)
  BY CreateTypes DEF CreateIInv, CreateTyped
<1>9. n \in Nat /\ DOMAIN people' = (DOMAIN people) \cup {n} /\ n \notin DOMAIN people
  <2>1. DOMAIN people' = 1 .. n
    BY <1>6, LenProperties
  <2> QED
    BY <1>8, <2>1
<1>10. creating' = PostsSee(n, posts)
  BY <1>2, <1>6
<1>11. /\ sinceCheck'[n] = post.since
       /\ \A m \in DOMAIN people : sinceCheck'[m] = sinceCheck[m] /\ people'[m] = people[m]
  BY <1>6, <1>7, <1>8
<1> HIDE DEF n
<1>12. /\ creating' \in [CWindows -> PostRequest]
       /\ \A v \in CWindows : /\ creating'[v].stage = posts[v].stage
                              /\ creating'[v].values = posts[v].values
                              /\ creating'[v].found = posts[v].found
                              /\ posts[v].stage = "checked" =>
                                    creating'[v].since = posts[v].since \cup {n}
  BY <1>5, <1>9, <1>10, PostsLearn
<1>13. /\ createForm' \in [CWindows -> CreateForm] /\ createForm'[w] = form
       /\ \A v \in CWindows : v # w => createForm'[v] = createForm[v]
  BY <1>2, <1>4, CreateTypes
<1>14. CreateTyped'
  BY <1>6, <1>7, <1>8, <1>12, <1>13 DEF CreateTyped, n
<1>15. ASSUME NEW v \in CWindows PROVE OfferOK(createForm'[v], people')
  BY <1>4, <1>9, <1>13 DEF CreateIInv, OfferOK
<1>16. ASSUME NEW v \in CWindows PROVE PostOK(creating'[v], people')
  <2>1. CASE v = w
    BY <1>5, <1>12, <2>1 DEF PostOK, NoPost
  <2>2. CASE v # w
    <3>1. PostOK(creating[v], people) /\ posts[v] = creating[v]
      BY <1>5, <2>2 DEF CreateIInv
    <3> QED
      BY <1>9, <1>11, <1>12, <3>1 DEF PostOK
  <2> QED
    BY <2>1, <2>2
<1>17. ASSUME NEW m \in DOMAIN people', NEW k \in DOMAIN people'
       PROVE  KnownTo(m, k, people', sinceCheck')
  <2>1. CASE k = n /\ m # n
    <3>1. m \in DOMAIN people
      BY <1>9, <2>1
    <3>2. Matches(people[m].values, row.values) <=> Matches(post.values, people[m].values)
      BY <1>3, MatchesIsSymmetric
    <3> QED
      BY <1>1, <1>3, <1>6, <1>11, <2>1, <3>1, <3>2 DEF KnownTo, PostOK, n
  <2>2. CASE m = n
    BY <1>8, <1>9, <2>2 DEF KnownTo, n
  <2>3. CASE m # n /\ k # n
    <3>1. m \in DOMAIN people /\ k \in DOMAIN people
      BY <1>9, <2>3
    <3> QED
      BY <1>11, <3>1 DEF CreateIInv, KnownTo
  <2> QED
    BY <2>1, <2>2, <2>3
<1> QED
  BY <1>14, <1>15, <1>16, <1>17 DEF CreateIInv

\* A record is restored: everything that does not know it yet learns of it.
LEMMA RestoreHolds ==
    ASSUME CreateIInv, NEW w \in CWindows, NEW c \in SimilarCandidate, choose_restore(w, c)
    PROVE  CreateIInv'
<1>1. c \in createForm[w].offered /\ createForm[w] \in CreateForm
      /\ OfferOK(createForm[w], people)
  BY CreateTypes DEF choose_restore, CreateIInv
<1> DEFINE n == c.id
<1>2. n \in DOMAIN people /\ n \in Nat
  BY <1>1, CreateTypes DEF OfferOK
<1>3. CASE /\ createForm' = [createForm EXCEPT ![w] = ClosedForm]
           /\ UNCHANGED <<people, sinceCheck, creating>>
  BY <1>3, NothingPosted, FormMoves
<1>4. CASE /\ createForm' = [createForm EXCEPT ![w].offered = {}]
           /\ UNCHANGED <<people, sinceCheck, creating>>
  <2> DEFINE form == [createForm[w] EXCEPT !.offered = {}]
  <2>1. createForm' = [createForm EXCEPT ![w] = form]
    BY <1>4, CreateTypes
  <2>2. form \in CreateForm /\ form.offered = {}
    BY <1>1 DEF CreateForm
  <2> HIDE DEF form
  <2>3. OfferOK(form, people)
    BY <2>2 DEF OfferOK
  <2> QED
    BY <1>4, <2>1, <2>2, <2>3, FormMoves
<1>5. CASE /\ people[c.id].deleted /\ people[c.id].version = c.version
           /\ people' = [people EXCEPT ![c.id].deleted = FALSE, ![c.id].version = @ + 1]
           /\ sinceCheck' = Revived(c.id, sinceCheck)
           /\ creating' = PostsSee(c.id, creating)
           /\ createForm' = [createForm EXCEPT ![w] = ClosedForm]
  <2> DEFINE version == people[n].version + 1
             row == [people[n] EXCEPT !.deleted = FALSE, !.version = version]
  <2>1. people[n] \in PersonRow /\ version \in Nat
    BY <1>2, CreateTypes DEF PersonRow
  <2>2. people' = [people EXCEPT ![n] = row]
    BY <1>2, <1>5, <2>1, CreateTypes DEF PersonRow
  <2>3. /\ sinceCheck' = Revived(n, sinceCheck) /\ creating' = PostsSee(n, creating)
        /\ createForm' = [createForm EXCEPT ![w] = ClosedForm]
    BY <1>5
  <2> HIDE DEF version
  <2>4. /\ row \in PersonRow /\ row.values = people[n].values
        /\ row.override = people[n].override
    BY <2>1 DEF PersonRow
  <2> HIDE DEF row, n
  <2>5. n \in 1 .. Len(people)
    BY <1>2, CreateTypes DEF n
  <2>6. /\ people' \in Seq(PersonRow) /\ Len(people') = Len(people) /\ people'[n] = row
        /\ \A m \in 1 .. Len(people) : m # n => people'[m] = people[m]
    BY <2>2, <2>4, <2>5, CreateTypes, ExceptSeq
  <2>7. /\ DOMAIN people' = DOMAIN people
        /\ \A m \in DOMAIN people : /\ people'[m].values = people[m].values
                                    /\ people'[m].override = people[m].override
                                    /\ m # n => people'[m] = people[m]
    BY <2>4, <2>6, CreateTypes, LenProperties
  <2>8. /\ sinceCheck' \in Seq(SUBSET Nat) /\ Len(sinceCheck') = Len(people)
        /\ \A m \in DOMAIN people : /\ m # n => sinceCheck'[m] = sinceCheck[m] \cup {n}
                                    /\ sinceCheck[m] \subseteq sinceCheck'[m]
    <3>1. sinceCheck' = [m \in 1 .. Len(people) |->
                            IF m = n THEN sinceCheck[m] ELSE sinceCheck[m] \cup {n}]
      BY <2>3, CreateTypes DEF Revived
    <3>2. \A m \in 1 .. Len(people) : sinceCheck[m] \in SUBSET Nat /\ n \in Nat
      BY <2>5, CreateTypes
    <3>3. sinceCheck' \in [1 .. Len(people) -> SUBSET Nat]
      BY <3>1, <3>2
    <3>4. Len(people) \in Nat
      BY CreateTypes
    <3>5. sinceCheck' \in Seq(SUBSET Nat) /\ Len(sinceCheck') = Len(people)
      BY <3>3, <3>4
    <3> QED
      BY <3>1, <3>5, CreateTypes
  <2>9. /\ creating' \in [CWindows -> PostRequest]
        /\ \A v \in CWindows : /\ creating'[v].stage = creating[v].stage
                               /\ creating'[v].values = creating[v].values
                               /\ creating'[v].found = creating[v].found
                               /\ creating[v].stage = "checked" =>
                                     creating'[v].since = creating[v].since \cup {n}
    BY <2>3, <2>5, CreateTypes, PostsLearn
  <2>10. /\ createForm' \in [CWindows -> CreateForm] /\ createForm'[w] = ClosedForm
         /\ \A v \in CWindows : v # w => createForm'[v] = createForm[v]
    BY <2>3, NothingPosted, CreateTypes
  <2>11. CreateTyped'
    BY <2>6, <2>8, <2>9, <2>10 DEF CreateTyped
  <2>12. ASSUME NEW v \in CWindows PROVE OfferOK(createForm'[v], people')
    BY <2>7, <2>10, NothingPosted DEF CreateIInv, OfferOK
  <2>13. ASSUME NEW v \in CWindows PROVE PostOK(creating'[v], people')
    <3>1. PostOK(creating[v], people)
      BY DEF CreateIInv
    <3> QED
      BY <2>7, <2>9, <3>1 DEF PostOK
  <2>14. ASSUME NEW m \in DOMAIN people', NEW k \in DOMAIN people'
         PROVE  KnownTo(m, k, people', sinceCheck')
    <3>1. m \in DOMAIN people /\ k \in DOMAIN people /\ KnownTo(m, k, people, sinceCheck)
      BY <2>7 DEF CreateIInv
    <3>2. CASE m # n
      BY <2>7, <2>8, <3>1, <3>2 DEF KnownTo
    <3>3. CASE m = n /\ k # n
      BY <2>8, <3>1, <3>3 DEF KnownTo
    <3>4. CASE m = n /\ k = n
      BY <2>5, <3>4 DEF KnownTo
    <3> QED
      BY <3>2, <3>3, <3>4
  <2> QED
    BY <2>11, <2>12, <2>13, <2>14 DEF CreateIInv
<1> QED
  BY <1>3, <1>4, <1>5 DEF choose_restore

\* A record is removed.
LEMMA RemovePersonHolds ==
    ASSUME CreateIInv, NEW n \in DOMAIN people, RemovePerson(n)
    PROVE  CreateIInv'
<1> DEFINE version == people[n].version + 1
           row == [people[n] EXCEPT !.deleted = TRUE, !.version = version]
<1>1. people[n] \in PersonRow /\ version \in Nat
  BY CreateTypes DEF PersonRow
<1>2. people' = [people EXCEPT ![n] = row] /\ UNCHANGED <<createForm, creating, sinceCheck>>
  BY <1>1, CreateTypes DEF RemovePerson, PersonRow
<1> HIDE DEF version
<1>3. /\ row \in PersonRow /\ row.values = people[n].values /\ row.deleted = TRUE
      /\ row.override = people[n].override
  BY <1>1 DEF PersonRow
<1> HIDE DEF row
<1>4. n \in 1 .. Len(people)
  BY CreateTypes
<1>5. /\ people' \in Seq(PersonRow) /\ Len(people') = Len(people) /\ people'[n] = row
      /\ \A m \in 1 .. Len(people) : m # n => people'[m] = people[m]
  BY <1>2, <1>3, <1>4, CreateTypes, ExceptSeq
<1>6. /\ DOMAIN people' = DOMAIN people
      /\ \A m \in DOMAIN people : /\ people'[m].values = people[m].values
                                  /\ people'[m].override = people[m].override
                                  /\ ~people'[m].deleted => ~people[m].deleted
  BY <1>3, <1>5, CreateTypes, LenProperties
<1>7. CreateTyped'
  BY <1>2, <1>5, CreateTypes DEF CreateIInv, CreateTyped
<1>8. \A v \in CWindows : OfferOK(createForm[v], people') /\ PostOK(creating[v], people')
  BY <1>6 DEF CreateIInv, OfferOK, PostOK
<1>9. \A m, k \in DOMAIN people' : KnownTo(m, k, people', sinceCheck)
  BY <1>6 DEF CreateIInv, KnownTo
<1> QED
  BY <1>2, <1>7, <1>8, <1>9 DEF CreateIInv

\* A record is edited: everything that does not know its new values yet learns
\* of it, and it may have been checked against none.
LEMMA PatchPersonHolds ==
    ASSUME CreateIInv, NEW n \in DOMAIN people, NEW f \in IdFields, NEW v \in Inputs,
           PatchPerson(n, f, v)
    PROVE  CreateIInv'
<1> DEFINE version == people[n].version + 1
           values == [people[n].values EXCEPT ![f] = v]
           row == [people[n] EXCEPT !.values = values, !.version = version]
           known == Revived(n, sinceCheck)
           all == DOMAIN people
<1>1. people[n] \in PersonRow /\ version \in Nat /\ values \in [IdFields -> Inputs]
  BY CreateTypes DEF PersonRow
<1>2. people' = [people EXCEPT ![n] = row]
  BY <1>1, CreateTypes DEF PatchPerson, PersonRow
<1>3. /\ creating' = PostsSee(n, creating) /\ createForm' = createForm
      /\ sinceCheck' = [known EXCEPT ![n] = all]
  BY DEF PatchPerson
<1> HIDE DEF version, values
<1>4. row \in PersonRow /\ row.override = people[n].override
  BY <1>1 DEF PersonRow
<1> HIDE DEF row
<1>5. n \in 1 .. Len(people) /\ n \in Nat
  BY CreateTypes
<1>6. /\ people' \in Seq(PersonRow) /\ Len(people') = Len(people) /\ people'[n] = row
      /\ \A m \in 1 .. Len(people) : m # n => people'[m] = people[m]
  BY <1>2, <1>4, <1>5, CreateTypes, ExceptSeq
<1>7. /\ DOMAIN people' = DOMAIN people
      /\ \A m \in DOMAIN people : m # n => people'[m] = people[m]
  BY <1>6, CreateTypes, LenProperties
<1>8. /\ sinceCheck' \in Seq(SUBSET Nat) /\ Len(sinceCheck') = Len(people)
      /\ sinceCheck'[n] = DOMAIN people
      /\ \A m \in DOMAIN people : m # n => sinceCheck'[m] = sinceCheck[m] \cup {n}
  <2>1. known = [m \in 1 .. Len(people) |->
                    IF m = n THEN sinceCheck[m] ELSE sinceCheck[m] \cup {n}]
    BY CreateTypes DEF Revived
  <2>2. \A m \in 1 .. Len(people) : sinceCheck[m] \in SUBSET Nat
    BY CreateTypes
  <2>3. known \in [1 .. Len(people) -> SUBSET Nat]
    BY <2>1, <2>2, <1>5
  <2>4. all = DOMAIN people /\ all \in SUBSET Nat /\ Len(people) \in Nat
        /\ DOMAIN people = 1 .. Len(people)
    BY CreateTypes
  <2>5. \A m \in 1 .. Len(people) : m # n => known[m] = sinceCheck[m] \cup {n}
    BY <2>1
  <2> HIDE DEF known, all
  <2>6. /\ sinceCheck' \in [1 .. Len(people) -> SUBSET Nat] /\ sinceCheck'[n] = all
        /\ \A m \in 1 .. Len(people) : m # n => sinceCheck'[m] = known[m]
    BY <1>3, <1>5, <2>3, <2>4
  <2>7. sinceCheck' \in Seq(SUBSET Nat) /\ Len(sinceCheck') = Len(people)
    BY <2>4, <2>6
  <2> QED
    BY <2>4, <2>5, <2>6, <2>7
<1> HIDE DEF known, all
<1>9. /\ creating' \in [CWindows -> PostRequest]
      /\ \A w \in CWindows : /\ creating'[w].stage = creating[w].stage
                             /\ creating'[w].values = creating[w].values
                             /\ creating'[w].found = creating[w].found
                             /\ creating[w].stage = "checked" =>
                                   creating'[w].since = creating[w].since \cup {n}
  BY <1>3, <1>5, CreateTypes, PostsLearn
<1>10. CreateTyped'
  BY <1>3, <1>6, <1>8, <1>9, CreateTypes DEF CreateTyped
<1>11. ASSUME NEW w \in CWindows PROVE OfferOK(createForm'[w], people')
  BY <1>3, <1>7 DEF CreateIInv, OfferOK
<1>12. ASSUME NEW w \in CWindows PROVE PostOK(creating'[w], people')
  <2>1. PostOK(creating[w], people)
    BY DEF CreateIInv
  <2>2. ASSUME NEW m \in DOMAIN people', creating'[w].stage = "checked", m = n
        PROVE  m \in creating'[w].since
    BY <1>9, <2>2
  <2>3. ASSUME NEW m \in DOMAIN people', creating'[w].stage = "checked", m # n,
               ~people'[m].deleted, Matches(creating'[w].values, people'[m].values)
        PROVE  m \in creating'[w].found \/ m \in creating'[w].since
    BY <1>7, <1>9, <2>1, <2>3 DEF PostOK
  <2> QED
    BY <2>2, <2>3 DEF PostOK
<1>13. ASSUME NEW m \in DOMAIN people', NEW k \in DOMAIN people'
       PROVE  KnownTo(m, k, people', sinceCheck')
  <2>1. m \in DOMAIN people /\ k \in DOMAIN people /\ KnownTo(m, k, people, sinceCheck)
    BY <1>7 DEF CreateIInv
  <2>2. CASE k = n
    BY <1>8, <2>1, <2>2 DEF KnownTo
  <2>3. CASE m = n /\ k # n
    BY <1>8, <2>1, <2>3 DEF KnownTo
  <2>4. CASE m # n /\ k # n
    BY <1>7, <1>8, <2>1, <2>4 DEF KnownTo
  <2> QED
    BY <2>2, <2>3, <2>4
<1> QED
  BY <1>10, <1>11, <1>12, <1>13 DEF CreateIInv

\* The invariant survives every step ...
LEMMA CreateInvStep == CreateIInv /\ [CreateNext]_createVars => CreateIInv'
<1> SUFFICES ASSUME CreateIInv, [CreateNext]_createVars PROVE CreateIInv'
  OBVIOUS
<1>1. ASSUME NEW w \in CWindows, NEW f \in IdFields, NEW v \in Inputs, edit_value(w, f, v)
      PROVE  CreateIInv'
  BY <1>1, CreateEditHolds
<1>2. ASSUME NEW w \in CWindows, similar_check_input(w) PROVE CreateIInv'
  BY <1>2, CheckInputHolds
<1>3. ASSUME NEW w \in CWindows, post_similar_records(w) PROVE CreateIInv'
  BY <1>3, CheckAnswerHolds
<1>4. ASSUME NEW w \in CWindows, RequestCreate(w) PROVE CreateIInv'
  BY <1>4, RequestCreateHolds
<1>5. ASSUME NEW w \in CWindows, PostInvalid(w) \/ PostRejected(w) PROVE CreateIInv'
  BY <1>5, PostRefusedHolds
<1>6. ASSUME NEW w \in CWindows, PostChecked(w) PROVE CreateIInv'
  BY <1>6, PostCheckedHolds
<1>7. ASSUME NEW w \in CWindows, NEW lost \in BOOLEAN, PostCommitted(w, lost) PROVE CreateIInv'
  BY <1>7, PostCommittedHolds
<1>8. ASSUME NEW w \in CWindows, NEW c \in SimilarCandidate, choose_restore(w, c)
      PROVE  CreateIInv'
  BY <1>8, RestoreHolds
<1>9. ASSUME NEW w \in CWindows, Leave(w) PROVE CreateIInv'
  <2>1. /\ createForm' = [createForm EXCEPT ![w] = ClosedForm]
        /\ UNCHANGED <<people, creating, sinceCheck>>
    BY <1>9 DEF Leave
  <2> QED
    BY <2>1, NothingPosted, FormMoves
<1>10. ASSUME NEW n \in DOMAIN people, RemovePerson(n) PROVE CreateIInv'
  BY <1>10, RemovePersonHolds
<1>11. ASSUME NEW n \in DOMAIN people, NEW f \in IdFields, NEW v \in Inputs, PatchPerson(n, f, v)
       PROVE  CreateIInv'
  BY <1>11, PatchPersonHolds
<1>12. CASE UNCHANGED createVars
  BY <1>12 DEF createVars, CreateIInv, CreateTyped
<1> QED
  BY <1>1, <1>2, <1>3, <1>4, <1>5, <1>6, <1>7, <1>8, <1>9, <1>10, <1>11, <1>12 DEF CreateNext

\* ... and holds at the start.
LEMMA CreateInvInit == CreateInit => CreateIInv
<1> SUFFICES ASSUME CreateInit PROVE CreateIInv
  OBVIOUS
<1>1. /\ people = <<>> /\ sinceCheck = <<>>
      /\ createForm = [w \in CWindows |-> Opened] /\ creating = [w \in CWindows |-> NoPost]
  BY DEF CreateInit
<1>2. CreateTyped
  BY <1>1, EmptySeq, NothingPosted DEF CreateTyped
<1>3. DOMAIN people = {}
  BY <1>1
<1> QED
  BY <1>1, <1>2, <1>3, NothingPosted DEF CreateIInv

-----------------------------------------------------------------------------
(* Action tokens.  Uses are counted: each redemption that is committed and     *)
(* not yet audited holds one use that no answered one has.                     *)

\* A copy, and a request that has one: before its save, between the second
\* read and the commit, and before its audit row.
TokenCopies == [uses : 0 .. MaxUses, revoked : BOOLEAN, version : Nat]

TokenRequest ==
    {Idle}
    \cup [pc : {"save", "audit"}, event : TokenAuditEvent, after : BOOLEAN, copy : TokenCopies]
    \cup [pc : {"commit"}, event : TokenAuditEvent, after : BOOLEAN, copy : TokenCopies,
          selected : Nat, dirty : BOOLEAN]

TokenTyped == TokenTypeOK /\ tokenReq \in [Slots -> TokenRequest]

\* The redemptions whose use is committed and that are not answered yet.
Unaudited == {q \in Slots : tokenReq[q].pc = "audit" /\ tokenReq[q].event = "redeemed"}

\* What the copy c of a row means to the token t at the same version.
Extends(c, event, t) ==
    /\ c.version <= t.version
    /\ c.version = t.version =>
          /\ ~t.revoked
          /\ event = "redeemed" => c.uses = t.uses + 1 /\ ~c.revoked
          /\ event = "revoked"  => c.uses = t.uses /\ c.revoked

\* As long as no save wrote over a newer row.
CopiesHold ==
    \A q \in Slots :
        /\ tokenReq[q].pc \in {"save", "commit"} =>
              Extends(tokenReq[q].copy, tokenReq[q].event, token)
        /\ tokenReq[q].pc = "commit" =>
              tokenReq[q].dirty /\ tokenReq[q].selected = tokenReq[q].copy.version
        /\ tokenReq[q].pc # "idle" /\ tokenReq[q].event = "redeemed" => ~tokenReq[q].after
        /\ tokenReq[q].pc = "audit" /\ tokenReq[q].event = "revoked" => token.revoked

UsesHold ==
    /\ IsFiniteSet(Unaudited)
    /\ redeemed + Cardinality(Unaudited) <= token.uses
    /\ killed => token.revoked

\* The inductive invariant.
TokenIInv ==
    /\ TokenTyped
    /\ redeemed = trail["redeemed"]
    /\ ~overwrote => CopiesHold /\ UsesHold


-----------------------------------------------------------------------------
(* What a request holds after each of its steps. *)

\* A copy of the row holds values of its types.
LEMMA CopyFits ==
    ASSUME token \in ActionToken
    PROVE  /\ Copy \in TokenCopies
           /\ [Copy EXCEPT !.revoked = TRUE] \in TokenCopies
           /\ token.uses < MaxUses => [Copy EXCEPT !.uses = @ + 1] \in TokenCopies
<1> DEFINE c == [uses |-> token.uses, revoked |-> token.revoked, version |-> token.version]
<1>1. c \in TokenCopies
  BY DEF TokenCopies, ActionToken
<1>2. [c EXCEPT !.revoked = TRUE] \in TokenCopies
  BY DEF TokenCopies, ActionToken
<1>3. ASSUME token.uses < MaxUses PROVE [c EXCEPT !.uses = @ + 1] \in TokenCopies
  BY <1>3, ActionTokensAssumption DEF TokenCopies, ActionToken
<1> QED
  BY <1>1, <1>2, <1>3 DEF Copy

\* A request in progress is not idle, and knows its event and its copy.
LEMMA RequestParts ==
    ASSUME NEW w \in TokenRequest
    PROVE  /\ w.pc \in {"idle", "save", "commit", "audit"}
           /\ w.pc = "idle" <=> w = Idle
           /\ w.pc # "idle" => /\ w.event \in TokenAuditEvent /\ w.after \in BOOLEAN
                               /\ w.copy \in TokenCopies
           /\ w.pc = "commit" => w.selected \in Nat /\ w.dirty \in BOOLEAN
  BY DEF TokenRequest, Idle

\* One request moves to w, and the others stay.
LEMMA MoveRequest ==
    ASSUME NEW q \in Slots, NEW w, tokenReq \in [Slots -> TokenRequest],
           tokenReq' = [tokenReq EXCEPT ![q] = w]
    PROVE  /\ tokenReq'[q] = w
           /\ \A p \in Slots : p # q => tokenReq'[p] = tokenReq[p]
           /\ DOMAIN tokenReq' = Slots
           /\ w \in TokenRequest => tokenReq' \in [Slots -> TokenRequest]
  OBVIOUS

-----------------------------------------------------------------------------
(* Each step keeps the invariant. *)

\* A request is sent and loads the row.
LEMMA LoadHolds ==
    ASSUME TokenIInv, NEW q \in Slots, NEW w \in TokenRequest,
           tokenReq[q] = Idle, tokenReq' = [tokenReq EXCEPT ![q] = w],
           UNCHANGED <<token, trail, redeemed, killed, overwrote>>,
           w.pc \in {"save", "audit"},
           w.pc = "save" => Extends(w.copy, w.event, token),
           w.event = "redeemed" => w.pc = "save" /\ w.after = killed /\ ~token.revoked,
           w.pc = "audit" => token.revoked
    PROVE  TokenIInv'
<1>1. /\ tokenReq'[q] = w
      /\ \A p \in Slots : p # q => tokenReq'[p] = tokenReq[p]
      /\ DOMAIN tokenReq' = Slots
      /\ tokenReq' \in [Slots -> TokenRequest]
  BY MoveRequest DEF TokenIInv, TokenTyped
<1>2. TokenTyped'
  BY <1>1 DEF TokenIInv, TokenTyped, TokenTypeOK
<1>3. Unaudited' = Unaudited
  BY <1>1 DEF Unaudited, Idle
<1>4. ~overwrote => CopiesHold'
  <2> SUFFICES ASSUME ~overwrote, NEW p \in Slots
               PROVE  /\ tokenReq'[p].pc \in {"save", "commit"} =>
                            Extends(tokenReq'[p].copy, tokenReq'[p].event, token)
                      /\ tokenReq'[p].pc = "commit" =>
                            /\ tokenReq'[p].dirty
                            /\ tokenReq'[p].selected = tokenReq'[p].copy.version
                      /\ tokenReq'[p].pc # "idle" /\ tokenReq'[p].event = "redeemed" =>
                            ~tokenReq'[p].after
                      /\ tokenReq'[p].pc = "audit" /\ tokenReq'[p].event = "revoked" =>
                            token.revoked
    BY DEF CopiesHold
  <2>1. CASE p = q
    BY <1>1, <2>1 DEF TokenIInv, UsesHold
  <2>2. CASE p # q
    BY <1>1, <2>2 DEF TokenIInv, CopiesHold
  <2> QED
    BY <2>1, <2>2
<1> QED
  BY <1>2, <1>3, <1>4 DEF TokenIInv, UsesHold

\* A redemption loads the row.
LEMMA RedeemHolds ==
    ASSUME TokenIInv, NEW q \in Slots, NEW right \in BOOLEAN, redeem(q, right)
    PROVE  TokenIInv'
<1> DEFINE w == [pc |-> "save", event |-> "redeemed", after |-> killed,
                 copy |-> [Copy EXCEPT !.uses = @ + 1]]
<1>1. CASE validate(right)
  <2>1. w \in TokenRequest
    <3>1. [Copy EXCEPT !.uses = @ + 1] \in TokenCopies /\ killed \in BOOLEAN
      BY <1>1, CopyFits DEF validate, TokenIInv, TokenTyped, TokenTypeOK
    <3> QED
      BY <3>1 DEF TokenRequest, TokenAuditEvent
  <2>2. Extends(w.copy, w.event, token) /\ ~token.revoked
    BY <1>1 DEF validate, Extends, Copy, TokenIInv, TokenTyped, TokenTypeOK, ActionToken
  <2>3. /\ w.pc = "save" /\ w.after = killed
        /\ tokenReq[q] = Idle /\ tokenReq' = [tokenReq EXCEPT ![q] = w]
        /\ UNCHANGED <<token, trail, redeemed, killed, overwrote>>
    BY <1>1 DEF redeem
  <2> HIDE DEF w
  <2> QED
    BY <2>1, <2>2, <2>3, LoadHolds
<1>2. CASE ~validate(right)
  BY <1>2 DEF redeem, TokenIInv, TokenTyped, TokenTypeOK, CopiesHold, UsesHold, Unaudited
<1> QED
  BY <1>1, <1>2

\* A revocation loads the row.
LEMMA RevokeHolds ==
    ASSUME TokenIInv, NEW q \in Slots, revoke(q)
    PROVE  TokenIInv'
<1> DEFINE w == [pc |-> IF token.revoked THEN "audit" ELSE "save",
                 event |-> "revoked", after |-> killed,
                 copy |-> [Copy EXCEPT !.revoked = TRUE]]
<1>1. w \in TokenRequest
  <2>1. [Copy EXCEPT !.revoked = TRUE] \in TokenCopies /\ killed \in BOOLEAN
    BY CopyFits DEF TokenIInv, TokenTyped, TokenTypeOK
  <2> QED
    BY <2>1 DEF TokenRequest, TokenAuditEvent
<1>2. w.pc = "save" => Extends(w.copy, w.event, token)
  BY DEF Extends, Copy, TokenIInv, TokenTyped, TokenTypeOK, ActionToken
<1>3. /\ w.pc = (IF token.revoked THEN "audit" ELSE "save") /\ w.event = "revoked"
      /\ tokenReq[q] = Idle /\ tokenReq' = [tokenReq EXCEPT ![q] = w]
      /\ UNCHANGED <<token, trail, redeemed, killed, overwrote>>
  BY DEF revoke
<1> HIDE DEF w
<1> QED
  BY <1>1, <1>2, <1>3, LoadHolds


\* The row is read again, before the copy is written over it.
LEMMA SelectHolds ==
    ASSUME TokenIInv, NEW q \in Slots, SaveSelect(q)
    PROVE  TokenIInv'
<1> DEFINE c == tokenReq[q].copy
           dirty == c.uses # token.uses \/ c.revoked # token.revoked
           w == [pc |-> "commit", event |-> tokenReq[q].event, after |-> tokenReq[q].after,
                 copy |-> c, selected |-> token.version, dirty |-> dirty]
<1>1. /\ tokenReq[q] \in TokenRequest /\ tokenReq[q].pc = "save"
      /\ tokenReq[q].event \in TokenAuditEvent /\ tokenReq[q].after \in BOOLEAN
      /\ c \in TokenCopies /\ token.version \in Nat
  BY RequestParts DEF SaveSelect, TokenIInv, TokenTyped, TokenTypeOK, ActionToken
<1>2. /\ tokenReq' = [tokenReq EXCEPT ![q] = w]
      /\ overwrote' = (overwrote \/ c.version # token.version)
      /\ UNCHANGED <<token, trail, redeemed, killed>>
  BY DEF SaveSelect
<1>3. ASSUME ~overwrote, c.version = token.version
      PROVE  dirty /\ Extends(c, tokenReq[q].event, token)
                   /\ (tokenReq[q].event = "redeemed" => ~tokenReq[q].after)
  BY <1>1, <1>3 DEF TokenIInv, CopiesHold, Extends, TokenAuditEvent, TokenTyped, TokenTypeOK,
                    ActionToken
<1>4. dirty \in BOOLEAN
  OBVIOUS
<1>5. /\ w.pc = "commit" /\ w.event = tokenReq[q].event /\ w.after = tokenReq[q].after
      /\ w.copy = c /\ w.selected = token.version /\ w.dirty = dirty
  OBVIOUS
<1> HIDE DEF dirty
<1>6. w \in TokenRequest
  BY <1>1, <1>4 DEF TokenRequest
<1> HIDE DEF w
<1>7. /\ tokenReq'[q] = w
      /\ \A p \in Slots : p # q => tokenReq'[p] = tokenReq[p]
      /\ DOMAIN tokenReq' = Slots
      /\ tokenReq' \in [Slots -> TokenRequest]
  BY <1>2, <1>6, MoveRequest DEF TokenIInv, TokenTyped
<1>8. overwrote' \in BOOLEAN
  BY <1>2, Zenon DEF TokenIInv, TokenTyped, TokenTypeOK
<1>9. TokenTyped'
  BY <1>2, <1>7, <1>8 DEF TokenIInv, TokenTyped, TokenTypeOK
<1>10. Unaudited' = Unaudited
  BY <1>1, <1>5, <1>7 DEF Unaudited
<1>11. ~overwrote' => ~overwrote /\ c.version = token.version
  BY <1>2
<1>12. ~overwrote' => CopiesHold'
  <2> SUFFICES ASSUME ~overwrote, c.version = token.version, NEW p \in Slots
               PROVE  /\ tokenReq'[p].pc \in {"save", "commit"} =>
                            Extends(tokenReq'[p].copy, tokenReq'[p].event, token)
                      /\ tokenReq'[p].pc = "commit" =>
                            /\ tokenReq'[p].dirty
                            /\ tokenReq'[p].selected = tokenReq'[p].copy.version
                      /\ tokenReq'[p].pc # "idle" /\ tokenReq'[p].event = "redeemed" =>
                            ~tokenReq'[p].after
                      /\ tokenReq'[p].pc = "audit" /\ tokenReq'[p].event = "revoked" =>
                            token.revoked
    BY <1>2, <1>11 DEF CopiesHold
  <2>1. CASE p = q
    BY <1>3, <1>5, <1>7, <2>1
  <2>2. CASE p # q
    BY <1>7, <2>2 DEF TokenIInv, CopiesHold
  <2> QED
    BY <2>1, <2>2
<1> QED
  BY <1>2, <1>9, <1>10, <1>11, <1>12 DEF TokenIInv, UsesHold

\* The commit: a use is spent and waits for its audit row, or nothing is
\* written.
LEMMA TokenCommitHolds ==
    ASSUME TokenIInv, NEW q \in Slots, SaveCommit(q)
    PROVE  TokenIInv'
<1> DEFINE c == tokenReq[q].copy
           event == tokenReq[q].event
           stale == tokenReq[q].dirty /\ tokenReq[q].selected # token.version
           t == [token EXCEPT !.uses = c.uses, !.revoked = c.revoked, !.version = @ + 1]
           a == [pc |-> "audit", event |-> event, after |-> tokenReq[q].after, copy |-> c]
           w == IF stale THEN Idle ELSE a
<1>1. /\ tokenReq[q] \in TokenRequest /\ tokenReq[q].pc = "commit"
      /\ event \in TokenAuditEvent /\ tokenReq[q].after \in BOOLEAN
      /\ c \in TokenCopies /\ token \in ActionToken
  BY RequestParts DEF SaveCommit, TokenIInv, TokenTyped, TokenTypeOK
<1>2. /\ token' = IF stale \/ ~tokenReq[q].dirty THEN token ELSE t
      /\ tokenReq' = [tokenReq EXCEPT ![q] = w]
      /\ UNCHANGED <<trail, redeemed, killed, overwrote>>
  BY DEF SaveCommit
<1>3. /\ a \in TokenRequest /\ a.pc = "audit" /\ a.event = event /\ a.after = tokenReq[q].after
      /\ Idle \in TokenRequest /\ Idle.pc = "idle"
  BY <1>1 DEF TokenRequest, Idle
<1>4. /\ t \in ActionToken /\ t.uses = c.uses /\ t.revoked = c.revoked
      /\ t.version = token.version + 1
  <2> DEFINE n == token.version + 1
  <2>1. c.uses \in 0 .. MaxUses /\ c.revoked \in BOOLEAN /\ n \in Nat
    BY <1>1 DEF TokenCopies, ActionToken
  <2>2. t = [token EXCEPT !.uses = c.uses, !.revoked = c.revoked, !.version = n]
    OBVIOUS
  <2>3. token \in ActionToken
    BY <1>1
  <2> HIDE DEF t, c, n
  <2>4. t \in ActionToken /\ t.uses = c.uses /\ t.revoked = c.revoked /\ t.version = n
    BY <2>1, <2>2, <2>3 DEF ActionToken
  <2> QED
    BY <2>4 DEF n
<1>5. ASSUME ~overwrote
      PROVE  /\ tokenReq[q].dirty /\ tokenReq[q].selected = c.version
             /\ Extends(c, event, token) /\ (event = "redeemed" => ~tokenReq[q].after)
  BY <1>1, <1>5 DEF TokenIInv, CopiesHold
<1>6. /\ tokenReq'[q] = w
      /\ \A p \in Slots : p # q => tokenReq'[p] = tokenReq[p]
      /\ DOMAIN tokenReq' = Slots
      /\ tokenReq' \in [Slots -> TokenRequest]
  BY <1>2, <1>3, MoveRequest DEF TokenIInv, TokenTyped
<1> HIDE DEF a, t
<1>7. TokenTyped'
  BY <1>1, <1>2, <1>4, <1>6 DEF TokenIInv, TokenTyped, TokenTypeOK
<1>8. ASSUME ~overwrote PROVE CopiesHold' /\ UsesHold'
  <2>1. CASE stale
    <3>1. token' = token /\ tokenReq'[q] = Idle
      BY <1>2, <1>6, <2>1
    <3>2. Unaudited' = Unaudited
      BY <1>1, <1>3, <1>6, <3>1 DEF Unaudited
    <3>3. CopiesHold'
      BY <1>3, <1>6, <1>8, <3>1 DEF TokenIInv, CopiesHold
    <3> QED
      BY <1>2, <1>8, <3>1, <3>2, <3>3 DEF TokenIInv, UsesHold
  <2>2. CASE ~stale
    <3>1. /\ token' = t /\ tokenReq'[q] = a /\ c.version = token.version
          /\ Extends(c, event, token) /\ (event = "redeemed" => ~tokenReq[q].after)
      BY <1>2, <1>5, <1>6, <1>8, <2>2
    <3>2. /\ ~token.revoked
          /\ event = "redeemed" => t.uses = token.uses + 1 /\ ~t.revoked
          /\ event = "revoked"  => t.uses = token.uses /\ t.revoked
      BY <1>4, <3>1 DEF Extends
    <3>3. ASSUME NEW p \in Slots, p # q
          PROVE  tokenReq[p].pc \in {"save", "commit"} =>
                    Extends(tokenReq[p].copy, tokenReq[p].event, t)
      <4> SUFFICES ASSUME tokenReq[p].pc \in {"save", "commit"}
                   PROVE  Extends(tokenReq[p].copy, tokenReq[p].event, t)
        OBVIOUS
      <4>1. tokenReq[p].copy.version \in Nat /\ token.version \in Nat
        BY <1>1, RequestParts DEF TokenIInv, TokenTyped, TokenCopies, ActionToken
      <4>2. tokenReq[p].copy.version <= token.version
        BY <1>8 DEF TokenIInv, CopiesHold, Extends
      <4> QED
        BY <1>4, <4>1, <4>2 DEF Extends
    <3>4. ASSUME NEW p \in Slots
          PROVE  ~(tokenReq[p].pc = "audit" /\ tokenReq[p].event = "revoked")
      BY <1>8, <3>2 DEF TokenIInv, CopiesHold
    <3>5. CopiesHold'
      BY <1>3, <1>6, <1>8, <3>1, <3>2, <3>3, <3>4 DEF TokenIInv, CopiesHold
    <3>6. /\ IsFiniteSet(Unaudited) /\ q \notin Unaudited
          /\ Unaudited' = IF event = "redeemed" THEN Unaudited \cup {q} ELSE Unaudited
      BY <1>1, <1>3, <1>6, <1>8, <3>1 DEF TokenIInv, UsesHold, Unaudited
    <3>7. /\ IsFiniteSet(Unaudited')
          /\ Cardinality(Unaudited) \in Nat
          /\ Cardinality(Unaudited') = Cardinality(Unaudited)
                                       + (IF event = "redeemed" THEN 1 ELSE 0)
      BY <3>6, FS_AddElement, FS_CardinalityType
    <3>8. redeemed' + Cardinality(Unaudited') <= token'.uses
      <4>1. redeemed + Cardinality(Unaudited) <= token.uses
        BY <1>8 DEF TokenIInv, UsesHold
      <4>2. t.uses = token.uses + (IF event = "redeemed" THEN 1 ELSE 0)
        BY <1>1, <3>2 DEF TokenAuditEvent, ActionToken
      <4>3. token.uses \in Nat /\ redeemed \in Nat
        BY <1>1 DEF ActionToken, TokenIInv, TokenTyped, TokenTypeOK
      <4> QED
        BY <1>2, <3>1, <3>7, <4>1, <4>2, <4>3
    <3>9. killed' => token'.revoked
      BY <1>2, <1>8, <3>1, <3>2 DEF TokenIInv, UsesHold
    <3> QED
      BY <3>5, <3>7, <3>8, <3>9 DEF UsesHold
  <2> QED
    BY <2>1, <2>2
<1> QED
  BY <1>2, <1>7, <1>8 DEF TokenIInv

\* The audit row, and the answer.
LEMMA AuditHolds ==
    ASSUME TokenIInv, NEW q \in Slots, append_audit(q)
    PROVE  TokenIInv'
<1> DEFINE event == tokenReq[q].event
<1>1. /\ tokenReq[q].pc = "audit" /\ event \in TokenAuditEvent
      /\ trail' = [trail EXCEPT ![event] = @ + 1]
      /\ redeemed' = IF event = "redeemed" THEN redeemed + 1 ELSE redeemed
      /\ killed' = (killed \/ event = "revoked")
      /\ tokenReq' = [tokenReq EXCEPT ![q] = Idle]
      /\ UNCHANGED <<token, overwrote>>
  BY RequestParts DEF append_audit, TokenIInv, TokenTyped
<1>2. Idle \in TokenRequest /\ Idle.pc = "idle"
  BY DEF TokenRequest, Idle
<1>3. /\ tokenReq'[q] = Idle
      /\ \A p \in Slots : p # q => tokenReq'[p] = tokenReq[p]
      /\ DOMAIN tokenReq' = Slots
      /\ tokenReq' \in [Slots -> TokenRequest]
  BY <1>1, <1>2, MoveRequest DEF TokenIInv, TokenTyped
<1>4. TokenTyped'
  <2>1. killed' \in BOOLEAN
    BY <1>1, Zenon DEF TokenIInv, TokenTyped, TokenTypeOK
  <2>2. trail' \in [TokenAuditEvent -> Nat] /\ redeemed' \in Nat
    BY <1>1 DEF TokenIInv, TokenTyped, TokenTypeOK
  <2> QED
    BY <1>1, <1>3, <2>1, <2>2 DEF TokenIInv, TokenTyped, TokenTypeOK
<1>5. redeemed' = trail'["redeemed"]
  BY <1>1 DEF TokenIInv, TokenTyped, TokenTypeOK, TokenAuditEvent
<1>6. ASSUME ~overwrote PROVE CopiesHold' /\ UsesHold'
  <2>1. CopiesHold'
    BY <1>1, <1>2, <1>3, <1>6 DEF TokenIInv, CopiesHold
  <2>2. /\ IsFiniteSet(Unaudited)
        /\ event = "redeemed" <=> q \in Unaudited
        /\ Unaudited' = Unaudited \ {q}
    BY <1>1, <1>2, <1>3, <1>6 DEF TokenIInv, UsesHold, Unaudited
  <2>3. /\ IsFiniteSet(Unaudited') /\ Cardinality(Unaudited) \in Nat
        /\ Cardinality(Unaudited') = Cardinality(Unaudited)
                                     - (IF event = "redeemed" THEN 1 ELSE 0)
    BY <2>2, FS_RemoveElement, FS_CardinalityType
  <2>4. redeemed' + Cardinality(Unaudited') <= token'.uses
    <3>1. redeemed + Cardinality(Unaudited) <= token.uses /\ redeemed \in Nat
      BY <1>6 DEF TokenIInv, UsesHold, TokenTyped, TokenTypeOK
    <3>2. redeemed' + Cardinality(Unaudited') = redeemed + Cardinality(Unaudited)
      BY <1>1, <2>3, <3>1
    <3> QED
      BY <1>1, <3>1, <3>2
  <2>5. killed' => token'.revoked
    BY <1>1, <1>6 DEF TokenIInv, UsesHold, CopiesHold
  <2> QED
    BY <2>1, <2>3, <2>4, <2>5 DEF UsesHold
<1> QED
  BY <1>1, <1>4, <1>5, <1>6 DEF TokenIInv

\* A crash cuts every request; a use that is committed stays spent.
LEMMA CrashHolds ==
    ASSUME TokenIInv, TokenCrash
    PROVE  TokenIInv'
<1>1. tokenReq' = [q \in Slots |-> Idle] /\ UNCHANGED <<token, trail, redeemed, killed, overwrote>>
  BY DEF TokenCrash
<1>2. Idle \in TokenRequest /\ Idle.pc = "idle"
  BY DEF TokenRequest, Idle
<1>3. TokenTyped'
  BY <1>1, <1>2 DEF TokenIInv, TokenTyped, TokenTypeOK
<1>4. CopiesHold' /\ Unaudited' = {}
  BY <1>1, <1>2 DEF CopiesHold, Unaudited
<1>5. ASSUME ~overwrote PROVE UsesHold'
  <2>1. /\ redeemed + Cardinality(Unaudited) <= token.uses
        /\ Cardinality(Unaudited) \in Nat /\ redeemed \in Nat /\ token.uses \in Nat
    BY <1>5, FS_CardinalityType DEF TokenIInv, UsesHold, TokenTyped, TokenTypeOK, ActionToken
  <2>2. IsFiniteSet(Unaudited') /\ Cardinality(Unaudited') = 0
    BY <1>4, FS_EmptySet
  <2> QED
    BY <1>1, <1>5, <2>1, <2>2 DEF TokenIInv, UsesHold
<1> QED
  BY <1>1, <1>3, <1>4, <1>5 DEF TokenIInv

\* Every step keeps the invariant.
LEMMA TokenInvStep ==
    ASSUME TokenIInv, [TokenNext]_tokenVars
    PROVE  TokenIInv'
<1>1. ASSUME NEW q \in Slots, NEW right \in BOOLEAN, redeem(q, right) PROVE TokenIInv'
  BY <1>1, RedeemHolds
<1>2. ASSUME NEW q \in Slots,
             revoke(q) \/ SaveSelect(q) \/ SaveCommit(q) \/ append_audit(q)
      PROVE  TokenIInv'
  BY <1>2, RevokeHolds, SelectHolds, TokenCommitHolds, AuditHolds
<1>3. CASE TokenCrash
  BY <1>3, CrashHolds
<1>4. CASE Expire
  <2>1. /\ token' = [token EXCEPT !.expired = TRUE]
        /\ UNCHANGED <<tokenReq, trail, redeemed, killed, overwrote>>
    BY <1>4 DEF Expire
  <2>2. /\ token' \in ActionToken /\ token'.uses = token.uses /\ token'.revoked = token.revoked
        /\ token'.version = token.version
    BY <2>1 DEF TokenIInv, TokenTyped, TokenTypeOK, ActionToken
  <2> QED
    BY <2>1, <2>2 DEF TokenIInv, TokenTyped, TokenTypeOK, CopiesHold, Extends, UsesHold, Unaudited
<1>5. CASE UNCHANGED tokenVars
  BY <1>5 DEF tokenVars, TokenIInv, TokenTyped, TokenTypeOK, CopiesHold, UsesHold, Unaudited
<1> QED
  BY <1>1, <1>2, <1>3, <1>4, <1>5 DEF TokenNext

\* The inductive invariant of the link and the requests that redeem it.
THEOREM TokenSafety == TokenSpec => []TokenIInv
<1>1. ASSUME TokenInit PROVE TokenIInv
  <2>1. Idle \in TokenRequest /\ Idle.pc = "idle"
    BY DEF TokenRequest, Idle
  <2>2. token \in ActionToken /\ token.uses = 0
    BY <1>1, ActionTokensAssumption DEF TokenInit, ActionToken
  <2>3. TokenTyped
    BY <1>1, <2>1, <2>2 DEF TokenInit, TokenTyped, TokenTypeOK
  <2>4. CopiesHold /\ Unaudited = {} /\ redeemed = 0 /\ ~killed /\ trail["redeemed"] = 0
    BY <1>1, <2>1 DEF TokenInit, CopiesHold, Unaudited, TokenAuditEvent
  <2> QED
    BY <2>2, <2>3, <2>4, FS_EmptySet DEF TokenIInv, UsesHold
<1> QED
  BY <1>1, TokenInvStep, PTL DEF TokenSpec

\* The use budget of the row is kept whatever requests overlap: a save writes no
\* more than the limit, even when it overwrites a newer row.
THEOREM TokenTypeCorrect == TokenSpec => []TokenTypeOK
  BY TokenSafety, PTL DEF TokenIInv, TokenTyped

\* An answered redemption has a use and an audit row of its own, and a
\* revocation is for good, unless a save wrote a copy over a newer row.
THEOREM UsesAccounted == TokenSpec => []UsesAreAccountedFor
<1>1. TokenIInv => UsesAreAccountedFor
  <2> SUFFICES ASSUME TokenIInv, ~overwrote
               PROVE  /\ redeemed <= token.uses /\ token.uses <= MaxUses
                      /\ redeemed = trail["redeemed"]
                      /\ killed => token.revoked
                      /\ \A q \in Slots :
                            tokenReq[q].pc = "commit" /\ tokenReq[q].event = "redeemed"
                               => ~tokenReq[q].after
    BY DEF UsesAreAccountedFor
  <2>1. /\ token.uses \in 0 .. MaxUses /\ redeemed \in Nat
        /\ Cardinality(Unaudited) \in Nat
        /\ redeemed + Cardinality(Unaudited) <= token.uses
    BY FS_CardinalityType DEF TokenIInv, UsesHold, TokenTyped, TokenTypeOK, ActionToken
  <2> QED
    BY <2>1 DEF TokenIInv, CopiesHold, UsesHold
<1> QED
  BY <1>1, TokenSafety, PTL

-----------------------------------------------------------------------------
(* The types that no other proof needs: histories and the bounds of the model. *)

\* What the invariants of the parts leave out of the type invariant.
WpRest == covered \subseteq WpSources /\ edited \subseteq Runs
OutRest == outNow <= OutMaxClock /\ work <= MaxWork /\ home \in Slots \cup {Durable}

\* A person's row after some changes: each edit, each removal and each restoring
\* of a removed row adds one to its version.
PersonOK(row, times) ==
    /\ row.override \subseteq Numbers
    /\ row.version \in 1 .. 2 * times + (IF row.deleted THEN 0 ELSE 1)

FormRest(form) == form.offered \subseteq SimilarCandidate /\ form.rejected \subseteq Numbers

PostRest(post) == post.found \subseteq Numbers /\ post.since \subseteq Numbers

CreateRest ==
    /\ Len(people) <= MaxPeople /\ changes \in 0 .. MaxChanges
    /\ \A n \in DOMAIN people : PersonOK(people[n], changes) /\ sinceCheck[n] \subseteq Numbers
    /\ \A w \in CWindows : FormRest(createForm[w]) /\ PostRest(creating[w])

\* The graphs were edited under runs there are.
LEMMA WpTypesHold ==
    /\ WpInit => WpRest
    /\ WpIInv /\ WpRest /\ [WpNext]_wpVars => WpRest'
    /\ WpIInv /\ WpRest => WpTypeOK
<1>1. WpInit => WpRest
  BY DEF WpInit, WpRest
<1>2. ASSUME WpIInv, WpRest, [WpNext]_wpVars PROVE WpRest'
  <2>1. ASSUME NEW q \in Slots, WriteLaunch(q) PROVE WpRest'
    <3>1. wpReq[q] \in WpRequest
      BY <1>2 DEF WpIInv, WpTyped
    <3>2. wpReq[q].run \in Runs
      BY <2>1, <3>1, WpRequestIs DEF WriteLaunch
    <3> QED
      BY <1>2, <2>1, <3>2 DEF WriteLaunch, WpRest
  <2>2. ASSUME NEW q \in Slots, WritePatch(q) PROVE WpRest'
    BY <1>2, <2>2 DEF WritePatch, WpRest
  <2>3. ASSUME NEW q \in Slots, WriteCreate(q) \/ WriteDelete(q) \/ WriteStep(q) \/ WriteCommit(q)
        PROVE WpRest'
    BY <1>2, <2>3 DEF WriteCreate, WriteDelete, WriteStep, WriteCommit, WpRest
  <2>4. ASSUME NEW s \in WpSources, grant_data_source_role(s) \/ revoke_data_source_role(s)
        PROVE WpRest'
    BY <1>2, <2>4 DEF grant_data_source_role, revoke_data_source_role, WpRest
  <2>5. CASE WpRead \/ UNCHANGED wpVars
    BY <1>2, <2>5 DEF WpRead, wpVars, WpRest
  <2>6. ASSUME NEW q \in Slots, NEW g \in Regs, NEW name, NEW doc, NEW c, NEW targets,
               NEW retarget, create_registration(q, g, name, doc, c, targets) 
                  \/ patch_registration(q, g, name, doc, c, retarget, targets)
        PROVE WpRead
    BY <2>6 DEF create_registration, patch_registration
  <2>7. ASSUME NEW q \in Slots, NEW g \in Regs, NEW r, NEW s, NEW count,
               delete_registration(q, g) \/ launch(q, r, g, s, count)
        PROVE WpRead
    BY <2>7 DEF delete_registration, launch
  <2>8. ASSUME NEW q \in Slots, NEW r, NEW key, NEW branch,
               step(q, r, key, branch) \/ commit(q, r) \/ cancel(q, r)
        PROVE WpRead
    BY <2>8 DEF step, commit, cancel, RunVerb
  <2> QED
    BY <1>2, <2>1, <2>2, <2>3, <2>4, <2>5, <2>6, <2>7, <2>8 DEF WpNext
<1>3. ASSUME WpIInv, WpRest PROVE WpTypeOK
  <2>1. RegRow = WorkprocessRegistration
    BY DEF RegRow, WorkprocessRegistration
  <2>2. Unstarted \cup Started \subseteq WorkprocessRun
    <3>1. 0 \in Nat /\ <<>> \in Seq(STRING) /\ "inFlight" \in RunStates
      BY DEF RunStates
    <3>2. Unstarted \subseteq WorkprocessRun
      BY <3>1 DEF Unstarted, WorkprocessRun
    <3>3. Started \subseteq WorkprocessRun
      BY DEF Started, WorkprocessRun
    <3> QED
      BY <3>2, <3>3
  <2> QED
    BY <1>3, <2>1, <2>2 DEF WpIInv, WpTyped, WpRest, WpTypeOK
<1> QED
  BY <1>1, <1>2, <1>3

\* The clock and the work handed in stay in their bounds.
LEMMA OutTypesHold ==
    /\ OutInit => OutRest
    /\ OutIInv /\ OutRest /\ [OutNext]_outVars => OutRest'
    /\ OutIInv /\ OutRest => OutTypeOK
<1>0. OutMaxClock \in Nat \ {0} /\ MaxWork \in Nat
  BY CrmOutageAssumption
<1>1. OutInit => OutRest
  BY <1>0 DEF OutInit, OutRest
<1>2. ASSUME OutIInv, OutRest, [OutNext]_outVars PROVE OutRest'
  <2>1. outNow \in Nat /\ work \in Nat
    BY <1>2 DEF OutIInv, OutTyped
  <2>2. ASSUME NEW q \in Slots, NEW piece \in 1 .. MaxWork, submit_or_preserve(q, piece) PROVE OutRest'
    BY <1>0, <1>2, <2>1, <2>2 DEF submit_or_preserve, OutRest
  <2>3. CASE OutTick
    BY <1>0, <1>2, <2>1, <2>3 DEF OutTick, OutRest
  <2>4. CASE UNCHANGED <<outNow, work, home>>
    BY <1>2, <2>4 DEF OutRest
  <2>5. ASSUME NEW q \in Slots,
               \/ degraded_crm_read(q) \/ ReadAnswered(q) \/ ReadRefused(q) \/ SubmitTaken(q)
               \/ SubmitRefused(q) \/ SubmitUnanswered(q) \/ WorkerRestart(q)
        PROVE UNCHANGED <<outNow, work, home>>
    BY <2>5 DEF degraded_crm_read, ReadAnswered, ReadRefused, SubmitTaken, SubmitRefused, SubmitUnanswered,
                WorkerRestart
  <2>6. ASSUME discard_preserved_draft \/ CrmFlips \/ UNCHANGED outVars
        PROVE UNCHANGED <<outNow, work, home>>
    BY <2>6 DEF discard_preserved_draft, CrmFlips, outVars
  <2> QED
    BY <1>2, <2>2, <2>3, <2>4, <2>5, <2>6 DEF OutNext
<1>3. ASSUME OutIInv, OutRest PROVE OutTypeOK
  <2>1. monitor \in [Slots -> CrmHealthMonitor]
    <3> SUFFICES ASSUME NEW q \in Slots PROVE monitor[q] \in CrmHealthMonitor
      BY <1>3 DEF OutIInv, OutTyped
    <3>1. monitor[q] \in Health /\ BreakerOK(monitor[q], lastCall[q], outNow) /\ outNow \in Nat
      BY <1>3 DEF OutIInv, OutTyped
    <3> QED
      BY <1>0, <1>3, <3>1 DEF Health, BreakerOK, CrmHealthMonitor, OutRest
  <2>2. {draft, kept, work} \subseteq 0 .. MaxWork
    BY <1>0, <1>3 DEF OutIInv, OutTyped, OutRest
  <2>3. \A q \in Slots : outReq[q].pc \in {"idle", "read", "submit"}
    BY <1>3 DEF OutIInv, OutTyped, OutCall, Idle
  <2>4. home \in Slots \cup {Durable}
    BY <1>3 DEF OutRest
  <2> QED
    BY <2>1, <2>2, <2>3, <2>4 DEF OutTypeOK
<1> QED
  BY <1>1, <1>2, <1>3

\* What a trim discarded before it was rolled back belongs to jobs.
LEMMA ArtTypesHold ==
    /\ ArtInit => unwound \subseteq ArtJobs
    /\ ArtIInv /\ unwound \subseteq ArtJobs /\ [ArtNext]_artVars => (unwound \subseteq ArtJobs)'
    /\ ArtIInv /\ unwound \subseteq ArtJobs => ArtTypeOK
<1>1. ArtInit => unwound \subseteq ArtJobs
  BY DEF ArtInit
<1>2. ASSUME ArtIInv, unwound \subseteq ArtJobs, [ArtNext]_artVars PROVE unwound' \subseteq ArtJobs
  <2>1. \A q \in Slots : artReq[q].pc = "trim" => artReq[q].flushed \subseteq ArtJobs
    BY <1>2, ArtRequestIs DEF ArtIInv, ArtTyped
  <2>2. ASSUME NEW q \in Slots, NEW j \in ArtJobs, artifact_handler(q, j) \/ TrimOne(q, j)
        PROVE unwound' \subseteq ArtJobs
    BY <1>2, <2>1, <2>2 DEF artifact_handler, TrimOne
  <2>3. ASSUME NEW q \in Slots, CompleteArtifact(q) \/ trim_expired_artifacts(q) \/ CommitTrim(q)
        PROVE unwound' \subseteq ArtJobs
    BY <1>2, <2>3 DEF CompleteArtifact, trim_expired_artifacts, CommitTrim
  <2>4. CASE ArtCrash
    BY <1>2, <2>1, <2>4 DEF ArtCrash
  <2>5. CASE ArtTick \/ UNCHANGED artVars
    BY <1>2, <2>5 DEF ArtTick, artVars
  <2> QED
    BY <1>2, <2>2, <2>3, <2>4, <2>5 DEF ArtNext
<1>3. ASSUME ArtIInv, unwound \subseteq ArtJobs PROVE ArtTypeOK
  BY <1>3 DEF ArtIInv, ArtTyped, ArtTypeOK
<1> QED
  BY <1>1, <1>2, <1>3

\* The refreshes are counted up to their bound.
LEMMA PostalTypesHold ==
    /\ PostalInit => refreshes \in 0 .. MaxRefreshes
    /\ refreshes \in 0 .. MaxRefreshes /\ [PostalNext]_postalVars => (refreshes \in 0 .. MaxRefreshes)'
    /\ PostalIInv /\ refreshes \in 0 .. MaxRefreshes => PostalTypeOK
<1>1. PostalInit => refreshes \in 0 .. MaxRefreshes
  BY PostalRefreshAssumption DEF PostalInit
<1>2. ASSUME refreshes \in 0 .. MaxRefreshes, [PostalNext]_postalVars
      PROVE refreshes' \in 0 .. MaxRefreshes
  <2>1. ASSUME NEW q \in Slots, NEW rows, NEW full, refresh_postal_reference(q, rows, full)
        PROVE refreshes' \in 0 .. MaxRefreshes
    <3>1. refreshes < MaxRefreshes /\ refreshes' = refreshes + 1
      BY <2>1 DEF refresh_postal_reference
    <3> QED
      BY <1>2, <3>1, PostalRefreshAssumption
  <2>2. ASSUME NEW q \in Slots, CommitRefresh(q) \/ RefreshAborts(q)
        PROVE refreshes' \in 0 .. MaxRefreshes
    BY <1>2, <2>2 DEF CommitRefresh, RefreshAborts
  <2> QED
    BY <1>2, <2>1, <2>2 DEF PostalNext, postalVars
<1>3. ASSUME PostalIInv, refreshes \in 0 .. MaxRefreshes PROVE PostalTypeOK
  BY <1>3 DEF PostalIInv, PostalTyped, PostalTypeOK
<1> QED
  BY <1>1, <1>2, <1>3

\* The records are numbered within the bound.
LEMMA PeopleAreNumbered ==
    ASSUME CreateIInv, CreateRest
    PROVE  /\ DOMAIN people \subseteq Numbers
           /\ \A values, left : find_similar_records(values, left) \subseteq Numbers
<1>1. DOMAIN people \subseteq Numbers
  BY CreateTypes, RecordCreatesAssumption DEF CreateRest, Numbers
<1> QED
  BY <1>1 DEF find_similar_records

\* What is in order after some changes is so after more.
LEMMA PersonGrows ==
    ASSUME NEW row \in PersonRow, NEW times \in Nat, NEW more \in Nat, times <= more,
           PersonOK(row, times)
    PROVE  PersonOK(row, more)
  BY DEF PersonRow, PersonOK

\* A step of one window's form and POST.
LEMMA WindowRest ==
    ASSUME CreateIInv, CreateRest, UNCHANGED <<people, sinceCheck>>,
           changes' \in 0 .. MaxChanges, changes' \in {changes, changes + 1}, NEW w \in CWindows, NEW form, NEW post,
           createForm' = [createForm EXCEPT ![w] = form], FormRest(form),
           creating' = [creating EXCEPT ![w] = post], PostRest(post)
    PROVE  CreateRest'
<1>1. \A v \in CWindows : /\ createForm'[v] = IF v = w THEN form ELSE createForm[v]
                          /\ creating'[v] = IF v = w THEN post ELSE creating[v]
  BY CreateTypes
<1>2. \A v \in CWindows : FormRest(createForm'[v]) /\ PostRest(creating'[v])
  BY <1>1 DEF CreateRest
<1>3. changes \in Nat /\ changes' \in Nat /\ changes <= changes'
  BY DEF CreateRest
<1>4. ASSUME NEW n \in DOMAIN people PROVE PersonOK(people[n], changes')
  <2>1. people[n] \in PersonRow /\ PersonOK(people[n], changes)
    BY CreateTypes DEF CreateRest
  <2> QED
    BY <1>3, <2>1, PersonGrows
<1> QED
  BY <1>2, <1>4 DEF CreateRest

\* A step of one window's form.
LEMMA FormRestHolds ==
    ASSUME CreateIInv, CreateRest, UNCHANGED <<people, creating, sinceCheck>>,
           changes' \in 0 .. MaxChanges, changes' \in {changes, changes + 1}, NEW w \in CWindows, NEW form,
           createForm' = [createForm EXCEPT ![w] = form], FormRest(form)
    PROVE  CreateRest'
<1>1. \A v \in CWindows : createForm'[v] = IF v = w THEN form ELSE createForm[v]
  BY CreateTypes
<1>2. \A v \in CWindows : FormRest(createForm'[v]) /\ PostRest(creating'[v])
  BY <1>1 DEF CreateRest
<1>3. changes \in Nat /\ changes' \in Nat /\ changes <= changes'
  BY DEF CreateRest
<1>4. ASSUME NEW n \in DOMAIN people PROVE PersonOK(people[n], changes')
  <2>1. people[n] \in PersonRow /\ PersonOK(people[n], changes)
    BY CreateTypes DEF CreateRest
  <2> QED
    BY <1>3, <2>1, PersonGrows
<1> QED
  BY <1>2, <1>4 DEF CreateRest

\* What is empty is in bounds.
LEMMA NothingRest == FormRest(Opened) /\ FormRest(ClosedForm) /\ PostRest(NoPost)
  BY DEF FormRest, PostRest, Opened, ClosedForm, NoPost

\* The steps of a form and its POST that leave the records alone.
LEMMA FormStepsRest ==
    ASSUME CreateIInv, CreateRest, NEW w \in CWindows,
           \/ \E f \in IdFields, v \in Inputs : edit_value(w, f, v)
           \/ similar_check_input(w) \/ post_similar_records(w)
           \/ RequestCreate(w) \/ PostInvalid(w) \/ PostRejected(w) \/ PostChecked(w) \/ Leave(w)
    PROVE  CreateRest'
<1> DEFINE form == createForm[w]
           post == creating[w]
<1>1. /\ changes \in 0 .. MaxChanges /\ FormRest(form) /\ PostRest(post)
      /\ form \in CreateForm /\ post \in PostRequest
  BY CreateTypes DEF CreateRest
<1>2. ASSUME NEW f \in IdFields, NEW v \in Inputs, edit_value(w, f, v) PROVE CreateRest'
  <2> DEFINE new == [form EXCEPT !.values = [@ EXCEPT ![f] = v], !.rejected = {}]
  <2>1. createForm' = [createForm EXCEPT ![w] = new]
    BY <1>2, CreateTypes DEF edit_value
  <2>2. new.offered = form.offered /\ new.rejected = {}
    BY <1>1 DEF CreateForm
  <2>3. /\ changes' \in 0 .. MaxChanges /\ changes' \in {changes, changes + 1}
        /\ UNCHANGED <<people, creating, sinceCheck>>
    BY <1>1, <1>2, RecordCreatesAssumption DEF edit_value
  <2> HIDE DEF new
  <2>4. FormRest(new)
    BY <1>1, <2>2 DEF FormRest
  <2> QED
    BY <2>1, <2>3, <2>4, FormRestHolds
<1>3. CASE similar_check_input(w)
  <2> DEFINE new == [form EXCEPT !.checked = {form.values}, !.asked = {form.values}]
  <2>1. /\ createForm' = [createForm EXCEPT ![w] = new] /\ changes' = changes
        /\ UNCHANGED <<people, creating, sinceCheck>>
    BY <1>3, CreateTypes DEF similar_check_input
  <2>2. new.offered = form.offered /\ new.rejected = form.rejected
    BY <1>1 DEF CreateForm
  <2> HIDE DEF new
  <2>4. FormRest(new)
    BY <1>1, <2>2 DEF FormRest
  <2> QED
    BY <1>1, <2>1, <2>4, FormRestHolds
<1>4. CASE post_similar_records(w)
  <2>1. PICK asked \in form.asked :
          LET found == {[id |-> n, removed |-> people[n].deleted, version |-> people[n].version] :
                           n \in find_similar_records(asked, TRUE)}
          IN  createForm' = [createForm EXCEPT ![w].asked = {},
                                ![w].offered = IF found = {} THEN @ ELSE found]
    BY <1>4 DEF post_similar_records
  <2> DEFINE found == {[id |-> n, removed |-> people[n].deleted, version |-> people[n].version] :
                           n \in find_similar_records(asked, TRUE)}
             shown == IF found = {} THEN form.offered ELSE found
             new == [form EXCEPT !.asked = {}, !.offered = shown]
  <2>2. found \subseteq SimilarCandidate
    <3> SUFFICES ASSUME NEW n \in find_similar_records(asked, TRUE)
                 PROVE  [id |-> n, removed |-> people[n].deleted, version |-> people[n].version]
                           \in SimilarCandidate
      OBVIOUS
    <3>1. n \in Numbers /\ n \in DOMAIN people
      BY PeopleAreNumbered DEF find_similar_records
    <3>2. people[n] \in PersonRow /\ PersonOK(people[n], changes) /\ changes \in 0 .. MaxChanges
      BY <3>1, CreateTypes DEF CreateRest
    <3>3. people[n].deleted \in BOOLEAN /\ people[n].version \in 1 .. 2 * MaxChanges + 1
      BY <3>2, RecordCreatesAssumption DEF PersonRow, PersonOK
    <3> QED
      BY <3>1, <3>3 DEF SimilarCandidate
  <2>3. createForm' = [createForm EXCEPT ![w] = new]
    BY <2>1, CreateTypes
  <2> HIDE DEF found
  <2>4. new.offered = shown /\ new.rejected = form.rejected
    BY <1>1 DEF CreateForm
  <2>5. changes' = changes /\ UNCHANGED <<people, creating, sinceCheck>>
    BY <1>4 DEF post_similar_records
  <2>6. shown \subseteq SimilarCandidate
    BY <1>1, <2>2 DEF FormRest
  <2> HIDE DEF new, shown
  <2>7. FormRest(new)
    BY <1>1, <2>4, <2>6 DEF FormRest
  <2> QED
    BY <1>1, <2>3, <2>5, <2>7, FormRestHolds
<1>5. CASE RequestCreate(w)
  <2> DEFINE new == [post EXCEPT !.stage = "sent", !.values = form.values,
                                 !.override = form.rejected # {}]
  <2>1. /\ creating' = [creating EXCEPT ![w] = new] /\ changes' = changes
        /\ createForm' = [createForm EXCEPT ![w] = form]
        /\ UNCHANGED <<people, sinceCheck>>
    BY <1>5, CreateTypes DEF RequestCreate
  <2>2. new.found = post.found /\ new.since = post.since
    BY <1>1 DEF PostRequest
  <2> HIDE DEF new
  <2>3. PostRest(new)
    BY <1>1, <2>2 DEF PostRest
  <2> QED
    BY <1>1, <2>1, <2>3, WindowRest
<1>6. CASE PostInvalid(w)
  <2>1. /\ creating' = [creating EXCEPT ![w] = NoPost] /\ changes' = changes
        /\ createForm' = [createForm EXCEPT ![w] = form]
        /\ UNCHANGED <<people, sinceCheck>>
    BY <1>6, CreateTypes DEF PostInvalid
  <2> QED
    BY <1>1, <2>1, NothingRest, WindowRest
<1>7. CASE PostRejected(w)
  <2> DEFINE found == find_similar_records(post.values, FALSE)
             shown == IF form.open THEN found ELSE form.rejected
             new == [form EXCEPT !.rejected = shown]
  <2>1. /\ creating' = [creating EXCEPT ![w] = NoPost] /\ changes' = changes
        /\ createForm' = [createForm EXCEPT ![w] = new]
        /\ UNCHANGED <<people, sinceCheck>>
    BY <1>7, CreateTypes DEF PostRejected
  <2>2. new.offered = form.offered /\ new.rejected = shown
    BY <1>1 DEF CreateForm
  <2>3. shown \subseteq Numbers
    BY <1>1, PeopleAreNumbered DEF FormRest
  <2> HIDE DEF new, shown
  <2>4. FormRest(new)
    BY <1>1, <2>2, <2>3 DEF FormRest
  <2> QED
    BY <1>1, <2>1, <2>4, NothingRest, WindowRest
<1>8. CASE PostChecked(w)
  <2> DEFINE found == CheckedCandidates(w)
             new == [post EXCEPT !.stage = "checked", !.found = found]
  <2>1. /\ creating' = [creating EXCEPT ![w] = new] /\ changes' = changes
        /\ createForm' = [createForm EXCEPT ![w] = form]
        /\ UNCHANGED <<people, sinceCheck>>
    BY <1>8, CreateTypes DEF PostChecked
  <2>2. new.found = found /\ new.since = post.since
    BY <1>1 DEF PostRequest
  <2>3. found \subseteq Numbers
    BY PeopleAreNumbered DEF CheckedCandidates
  <2> HIDE DEF new, found
  <2>4. PostRest(new)
    BY <1>1, <2>2, <2>3 DEF PostRest
  <2> QED
    BY <1>1, <2>1, <2>4, WindowRest
<1>9. CASE Leave(w)
  <2>1. /\ createForm' = [createForm EXCEPT ![w] = ClosedForm] /\ changes' = changes
        /\ UNCHANGED <<people, creating, sinceCheck>>
    BY <1>9 DEF Leave
  <2> QED
    BY <1>1, <2>1, NothingRest, FormRestHolds
<1> QED
  BY <1>2, <1>3, <1>4, <1>5, <1>6, <1>7, <1>8, <1>9

\* Every POST that was checked learns of a record that came to life.
LEMMA PostsSeeRest ==
    ASSUME NEW posts \in [CWindows -> PostRequest], NEW n \in Numbers, NEW v \in CWindows,
           PostRest(posts[v])
    PROVE  PostRest(PostsSee(n, posts)[v])
<1> DEFINE new == [posts[v] EXCEPT !.since = @ \cup {n}]
<1>1. PostsSee(n, posts)[v] = posts[v] \/ PostsSee(n, posts)[v] = new
  BY DEF PostsSee
<1>2. new.found = posts[v].found /\ new.since = posts[v].since \cup {n}
  BY DEF PostRequest
<1> HIDE DEF new
<1> QED
  BY <1>1, <1>2 DEF PostRest

\* The insert commits.
LEMMA CommittedRest ==
    ASSUME CreateIInv, CreateRest, NEW w \in CWindows, NEW lost \in BOOLEAN, PostCommitted(w, lost)
    PROVE  CreateRest'
<1> DEFINE post == creating[w]
           row == [values |-> post.values, deleted |-> FALSE, version |-> 1,
                   override |-> post.found]
           n == Len(people) + 1
           posts == [creating EXCEPT ![w] = NoPost]
           form == IF lost THEN createForm[w] ELSE ClosedForm
<1>1. /\ post \in PostRequest /\ PostRest(post) /\ FormRest(form) /\ changes \in 0 .. MaxChanges
      /\ Len(people) < MaxPeople /\ MaxPeople \in Nat /\ MaxChanges \in Nat
  BY CreateTypes, NothingRest, RecordCreatesAssumption DEF PostCommitted, CreateRest
<1>2. /\ people' = Append(people, row) /\ sinceCheck' = Append(sinceCheck, post.since)
      /\ creating' = PostsSee(Len(people'), posts)
      /\ createForm' = [createForm EXCEPT ![w] = form]
      /\ changes' = changes
  BY DEF PostCommitted
<1>3. row \in PersonRow /\ post.since \in SUBSET Nat /\ PersonOK(row, changes)
  <2>1. row \in PersonRow /\ post.since \in SUBSET Nat
    BY <1>1 DEF PersonRow, PostRequest
  <2>2. row.override = post.found /\ row.version = 1 /\ row.deleted = FALSE
    OBVIOUS
  <2> HIDE DEF row
  <2> QED
    BY <1>1, <2>1, <2>2 DEF PersonOK, PostRest
<1>4. posts \in [CWindows -> PostRequest] /\ \A v \in CWindows : PostRest(posts[v])
  <2>1. posts \in [CWindows -> PostRequest]
    BY CreateTypes, NothingPosted
  <2>2. \A v \in CWindows : posts[v] = IF v = w THEN NoPost ELSE creating[v]
    BY CreateTypes
  <2> HIDE DEF posts
  <2> QED
    BY <2>1, <2>2, NothingRest DEF CreateRest
<1>5. \A v \in CWindows : createForm'[v] = IF v = w THEN form ELSE createForm[v]
  BY <1>2, CreateTypes
<1> HIDE DEF row, posts, form
<1>6. /\ people' \in Seq(PersonRow) /\ Len(people') = n /\ people'[n] = row
      /\ \A m \in 1 .. Len(people) : people'[m] = people[m]
  BY <1>2, <1>3, CreateTypes, AppendProperties
<1>7. /\ sinceCheck'[Len(sinceCheck) + 1] = post.since
      /\ \A m \in 1 .. Len(sinceCheck) : sinceCheck'[m] = sinceCheck[m]
  BY <1>2, <1>3, CreateTypes, AppendProperties
<1>8. Len(sinceCheck) = Len(people) /\ Len(people) \in Nat /\ DOMAIN people = 1 .. Len(people)
  BY CreateTypes DEF CreateIInv, CreateTyped
<1>9. n \in Numbers /\ DOMAIN people' = (DOMAIN people) \cup {n}
  <2>1. DOMAIN people' = 1 .. n
    BY <1>6, LenProperties
  <2> QED
    BY <1>1, <1>8, <2>1 DEF Numbers
<1>10. \A m \in DOMAIN people' : PersonOK(people'[m], changes) /\ sinceCheck'[m] \subseteq Numbers
  <2>1. \A m \in DOMAIN people : people'[m] = people[m] /\ sinceCheck'[m] = sinceCheck[m]
    BY <1>6, <1>7, <1>8
  <2>2. people'[n] = row /\ sinceCheck'[n] = post.since
    BY <1>6, <1>7, <1>8
  <2> HIDE DEF n
  <2> QED
    BY <1>1, <1>3, <1>9, <2>1, <2>2 DEF CreateRest, PostRest
<1>11. \A v \in CWindows : PostRest(creating'[v])
  BY <1>2, <1>4, <1>6, <1>9, PostsSeeRest
<1>12. \A v \in CWindows : FormRest(createForm'[v])
  BY <1>1, <1>5 DEF CreateRest
<1>13. Len(people') <= MaxPeople
  BY <1>1, <1>6, <1>8
<1> QED
  BY <1>2, <1>10, <1>11, <1>12, <1>13 DEF CreateRest

\* A candidate is restored: a removed row gains a version, and lives.
LEMMA RestoreRest ==
    ASSUME CreateIInv, CreateRest, NEW w \in CWindows, NEW c \in SimilarCandidate,
           choose_restore(w, c)
    PROVE  CreateRest'
<1>1. c \in createForm[w].offered /\ createForm[w] \in CreateForm /\ FormRest(createForm[w])
      /\ OfferOK(createForm[w], people) /\ UNCHANGED changes
  BY CreateTypes DEF choose_restore, CreateIInv, CreateRest
<1>0. changes \in 0 .. MaxChanges /\ MaxChanges \in Nat
  BY RecordCreatesAssumption DEF CreateRest
<1> DEFINE n == c.id
<1>2. n \in DOMAIN people /\ n \in Numbers /\ n \in Nat
  BY <1>1, CreateTypes, PeopleAreNumbered DEF OfferOK
<1>3. CASE /\ createForm' = [createForm EXCEPT ![w] = ClosedForm]
           /\ UNCHANGED <<people, sinceCheck, creating>>
  BY <1>0, <1>1, <1>3, NothingRest, FormRestHolds
<1>4. CASE /\ createForm' = [createForm EXCEPT ![w].offered = {}]
           /\ UNCHANGED <<people, sinceCheck, creating>>
  <2> DEFINE form == [createForm[w] EXCEPT !.offered = {}]
  <2>1. createForm' = [createForm EXCEPT ![w] = form]
    BY <1>4, CreateTypes
  <2>2. form.rejected = createForm[w].rejected /\ form.offered = {}
    BY <1>1 DEF CreateForm
  <2> HIDE DEF form
  <2>3. FormRest(form)
    BY <1>1, <2>2 DEF FormRest
  <2> QED
    BY <1>0, <1>1, <1>4, <2>1, <2>3, FormRestHolds
<1>5. CASE /\ people[c.id].deleted /\ people[c.id].version = c.version
           /\ people' = [people EXCEPT ![c.id].deleted = FALSE, ![c.id].version = @ + 1]
           /\ sinceCheck' = Revived(c.id, sinceCheck)
           /\ creating' = PostsSee(c.id, creating)
           /\ createForm' = [createForm EXCEPT ![w] = ClosedForm]
  <2> DEFINE version == people[n].version + 1
             row == [people[n] EXCEPT !.deleted = FALSE, !.version = version]
  <2>1. /\ people[n] \in PersonRow /\ PersonOK(people[n], changes) /\ people[n].deleted
        /\ version \in Nat
    BY <1>2, <1>5, CreateTypes DEF CreateRest, PersonRow
  <2>2. people' = [people EXCEPT ![n] = row]
    BY <1>2, <1>5, <2>1, CreateTypes DEF PersonRow
  <2> HIDE DEF version
  <2>3. row \in PersonRow /\ PersonOK(row, changes)
    <3>1. /\ row \in PersonRow /\ row.override = people[n].override /\ row.deleted = FALSE
          /\ row.version = version
      BY <2>1 DEF PersonRow
    <3>2. version = people[n].version + 1 /\ people[n].version \in Nat
      BY <2>1 DEF PersonRow, version
    <3> HIDE DEF row
    <3> QED
      BY <1>0, <2>1, <3>1, <3>2 DEF PersonOK
  <2> HIDE DEF row, n
  <2>4. n \in 1 .. Len(people)
    BY <1>2, CreateTypes DEF n
  <2>5. /\ people' \in Seq(PersonRow) /\ Len(people') = Len(people) /\ people'[n] = row
        /\ \A m \in 1 .. Len(people) : m # n => people'[m] = people[m]
    BY <2>2, <2>3, <2>4, CreateTypes, ExceptSeq
  <2>6. DOMAIN people' = DOMAIN people
    BY <2>5, CreateTypes, LenProperties
  <2>7. \A m \in DOMAIN people : sinceCheck'[m] \subseteq sinceCheck[m] \cup {n}
    BY <1>5, CreateTypes DEF Revived, n
  <2>8. \A m \in DOMAIN people' : PersonOK(people'[m], changes) /\ sinceCheck'[m] \subseteq Numbers
    BY <1>2, <2>3, <2>5, <2>6, <2>7, CreateTypes DEF CreateRest
  <2>9. \A v \in CWindows : createForm'[v] = IF v = w THEN ClosedForm ELSE createForm[v]
    BY <1>5, CreateTypes
  <2>10. creating' = PostsSee(n, creating)
    BY <1>5 DEF n
  <2>11. \A v \in CWindows : PostRest(creating'[v])
    BY <1>2, <2>10, CreateTypes, PostsSeeRest DEF CreateRest
  <2>12. \A v \in CWindows : FormRest(createForm'[v])
    BY <2>9, NothingRest DEF CreateRest
  <2> QED
    BY <1>1, <2>5, <2>8, <2>11, <2>12 DEF CreateRest
<1> QED
  BY <1>3, <1>4, <1>5 DEF choose_restore

\* A soft delete: a live row gains a version, and the changes one.
LEMMA RemoveRest ==
    ASSUME CreateIInv, CreateRest, NEW n \in DOMAIN people, RemovePerson(n)
    PROVE  CreateRest'
<1> DEFINE version == people[n].version + 1
           row == [people[n] EXCEPT !.deleted = TRUE, !.version = version]
<1>0. /\ changes \in 0 .. MaxChanges /\ MaxChanges \in Nat
      /\ changes < MaxChanges /\ changes' = changes + 1
      /\ UNCHANGED <<createForm, creating, sinceCheck>>
  BY RecordCreatesAssumption DEF CreateRest, RemovePerson
<1>1. /\ people[n] \in PersonRow /\ PersonOK(people[n], changes) /\ ~people[n].deleted
      /\ version \in Nat
  BY CreateTypes DEF CreateRest, RemovePerson, PersonRow
<1>2. people' = [people EXCEPT ![n] = row]
  BY <1>1, CreateTypes DEF PersonRow, RemovePerson
<1> HIDE DEF version
<1>3. row \in PersonRow /\ PersonOK(row, changes + 1)
  <2>1. /\ row \in PersonRow /\ row.override = people[n].override /\ row.deleted = TRUE
        /\ row.version = version
    BY <1>1 DEF PersonRow
  <2>2. version = people[n].version + 1 /\ people[n].version \in Nat
    BY <1>1 DEF PersonRow, version
  <2> HIDE DEF row
  <2> QED
    BY <1>0, <1>1, <2>1, <2>2 DEF PersonOK
<1> HIDE DEF row
<1>4. n \in 1 .. Len(people)
  BY CreateTypes
<1>5. /\ people' \in Seq(PersonRow) /\ Len(people') = Len(people) /\ people'[n] = row
      /\ \A m \in 1 .. Len(people) : m # n => people'[m] = people[m]
  BY <1>2, <1>3, <1>4, CreateTypes, ExceptSeq
<1>6. DOMAIN people' = DOMAIN people
  BY <1>5, CreateTypes, LenProperties
<1>7. ASSUME NEW m \in DOMAIN people PROVE PersonOK(people[m], changes + 1)
  <2>1. PersonOK(people[m], changes) /\ people[m] \in PersonRow
    BY CreateTypes DEF CreateRest
  <2> QED
    BY <1>0, <2>1 DEF PersonOK, PersonRow
<1>8. \A m \in DOMAIN people' : PersonOK(people'[m], changes + 1) /\ sinceCheck[m] \subseteq Numbers
  BY <1>3, <1>5, <1>6, <1>7, CreateTypes DEF CreateRest
<1> QED
  BY <1>0, <1>5, <1>8 DEF CreateRest

\* An edit: a live row gains a version, and the changes one.
LEMMA PatchRest ==
    ASSUME CreateIInv, CreateRest, NEW n \in DOMAIN people, NEW f \in IdFields, NEW v \in Inputs,
           PatchPerson(n, f, v)
    PROVE  CreateRest'
<1> DEFINE version == people[n].version + 1
           values == [people[n].values EXCEPT ![f] = v]
           row == [people[n] EXCEPT !.values = values, !.version = version]
           known == Revived(n, sinceCheck)
           all == DOMAIN people
<1>0. /\ changes \in 0 .. MaxChanges /\ MaxChanges \in Nat
      /\ changes < MaxChanges /\ changes' = changes + 1 /\ createForm' = createForm
      /\ creating' = PostsSee(n, creating) /\ sinceCheck' = [known EXCEPT ![n] = all]
  BY RecordCreatesAssumption DEF CreateRest, PatchPerson
<1>1. /\ people[n] \in PersonRow /\ PersonOK(people[n], changes) /\ ~people[n].deleted
      /\ version \in Nat /\ values \in [IdFields -> Inputs]
  BY CreateTypes DEF CreateRest, PatchPerson, PersonRow
<1>2. people' = [people EXCEPT ![n] = row]
  BY <1>1, CreateTypes DEF PersonRow, PatchPerson
<1> HIDE DEF version, values
<1>3. row \in PersonRow /\ PersonOK(row, changes + 1)
  <2>1. /\ row \in PersonRow /\ row.override = people[n].override /\ row.deleted = FALSE
        /\ row.version = version
    BY <1>1 DEF PersonRow
  <2>2. version = people[n].version + 1 /\ people[n].version \in Nat
    BY <1>1 DEF PersonRow, version
  <2> HIDE DEF row
  <2> QED
    BY <1>0, <1>1, <2>1, <2>2 DEF PersonOK
<1> HIDE DEF row
<1>4. n \in 1 .. Len(people) /\ n \in Numbers /\ DOMAIN people \subseteq Numbers
  BY CreateTypes, PeopleAreNumbered
<1>5. /\ people' \in Seq(PersonRow) /\ Len(people') = Len(people) /\ people'[n] = row
      /\ \A m \in 1 .. Len(people) : m # n => people'[m] = people[m]
  BY <1>2, <1>3, <1>4, CreateTypes, ExceptSeq
<1>6. DOMAIN people' = DOMAIN people
  BY <1>5, CreateTypes, LenProperties
<1>7. ASSUME NEW m \in DOMAIN people PROVE PersonOK(people[m], changes + 1)
  <2>1. people[m] \in PersonRow /\ PersonOK(people[m], changes)
    BY CreateTypes DEF CreateRest
  <2>2. changes \in Nat /\ changes + 1 \in Nat /\ changes <= changes + 1
    BY <1>0
  <2> QED
    BY <2>1, <2>2, PersonGrows
<1>8. ASSUME NEW m \in DOMAIN people PROVE sinceCheck'[m] \subseteq Numbers
  <2>1. known[m] \subseteq sinceCheck[m] \cup {n} /\ m \in DOMAIN known
    BY CreateTypes DEF Revived
  <2>2. sinceCheck[m] \subseteq Numbers /\ all \subseteq Numbers
    BY <1>4 DEF CreateRest
  <2> HIDE DEF known, all
  <2>3. sinceCheck'[m] = known[m] \/ sinceCheck'[m] = all
    BY <1>0, <2>1
  <2> QED
    BY <1>4, <2>1, <2>2, <2>3
<1>9. \A m \in DOMAIN people' : PersonOK(people'[m], changes + 1) /\ sinceCheck'[m] \subseteq Numbers
  BY <1>3, <1>5, <1>6, <1>7, <1>8, CreateTypes
<1>10. \A w \in CWindows : PostRest(creating'[w])
  BY <1>0, <1>4, CreateTypes, PostsSeeRest DEF CreateRest
<1> QED
  BY <1>0, <1>5, <1>9, <1>10 DEF CreateRest

\* A form offers, and an override names, records there are; no version outgrows
\* the changes.
LEMMA CreateTypesHold ==
    /\ CreateInit => CreateRest
    /\ CreateIInv /\ CreateRest /\ [CreateNext]_createVars => CreateRest'
    /\ CreateIInv /\ CreateRest => CreateTypeOK
<1>1. ASSUME CreateInit PROVE CreateRest
  <2>1. /\ people = <<>> /\ sinceCheck = <<>> /\ changes = 0
        /\ createForm = [w \in CWindows |-> Opened] /\ creating = [w \in CWindows |-> NoPost]
    BY <1>1 DEF CreateInit
  <2>2. Len(people) = 0 /\ DOMAIN people = {}
    BY <2>1
  <2> QED
    BY <2>1, <2>2, NothingRest, RecordCreatesAssumption DEF CreateRest
<1>2. ASSUME CreateIInv, CreateRest, [CreateNext]_createVars PROVE CreateRest'
  <2>1. ASSUME NEW w \in CWindows, NEW lost \in BOOLEAN, PostCommitted(w, lost) PROVE CreateRest'
    BY <1>2, <2>1, CommittedRest
  <2>2. ASSUME NEW w \in CWindows, NEW c \in SimilarCandidate, choose_restore(w, c) PROVE CreateRest'
    BY <1>2, <2>2, RestoreRest
  <2>3. ASSUME NEW n \in DOMAIN people, RemovePerson(n) PROVE CreateRest'
    BY <1>2, <2>3, RemoveRest
  <2>4. ASSUME NEW n \in DOMAIN people, NEW f \in IdFields, NEW v \in Inputs, PatchPerson(n, f, v)
        PROVE  CreateRest'
    BY <1>2, <2>4, PatchRest
  <2>5. CASE UNCHANGED createVars
    BY <1>2, <2>5 DEF createVars, CreateRest
  <2> QED
    BY <1>2, <2>1, <2>2, <2>3, <2>4, <2>5, FormStepsRest DEF CreateNext
<1>3. ASSUME CreateIInv, CreateRest PROVE CreateTypeOK
  <2>1. ASSUME NEW n \in DOMAIN people PROVE people[n] \in Person
    <3>1. people[n] \in PersonRow /\ people[n].override \subseteq Numbers
      BY <1>3, CreateTypes DEF CreateRest, PersonOK
    <3> QED
      BY <3>1 DEF PersonRow, Person
  <2>2. people \in Seq(Person)
    BY <1>3, <2>1, CreateTypes, SeqDef
  <2>3. sinceCheck \in Seq(SUBSET Numbers)
    BY <1>3, CreateTypes DEF CreateRest
  <2>4. ASSUME NEW w \in CWindows PROVE createForm[w] \in CreateFlow
    <3>1. createForm[w] \in CreateForm /\ FormRest(createForm[w])
      BY <1>3, CreateTypes DEF CreateRest
    <3> QED
      BY <3>1 DEF CreateForm, CreateFlow, FormRest
  <2>5. ASSUME NEW w \in CWindows PROVE creating[w] \in Post
    <3>1. creating[w] \in PostRequest /\ PostRest(creating[w])
      BY <1>3, CreateTypes DEF CreateRest
    <3> QED
      BY <3>1 DEF PostRequest, Post, PostRest
  <2>6. createForm \in [CWindows -> CreateFlow] /\ creating \in [CWindows -> Post]
    BY <1>3, <2>4, <2>5, CreateTypes
  <2> QED
    BY <1>3, <2>2, <2>3, <2>6 DEF CreateIInv, CreateTyped, CreateRest, CreateTypeOK
<1> QED
  BY <1>1, <1>2, <1>3

-----------------------------------------------------------------------------
(* The whole server. *)

\* "Nothing you wrote was lost", and what the user is told of a change is what
\* becomes of it: work meant for the CRM is kept as the draft until it lands or
\* is discarded, and an outcome once answered stays true (submit_or_preserve of
\* crm_outage.py, crm_write_through and crm_write_retry_job of crm_writes.py).
THEOREM CrmWorkIsKept == Spec => []CrmWorkIsAccountedFor
<1> DEFINE I == OutIInv /\ CwIInv
<1>1. Init => I
  BY OutInvInit, CwInvInit DEF Init
<1>2. I /\ [Next]_serverVars => I'
  <2> SUFFICES ASSUME I, [Next]_serverVars PROVE I'
    OBVIOUS
  <2>1. [OutNext]_outVars
    BY DEF Next, serverVars
  <2>2. [CwNext]_cwVars
    BY DEF Next, serverVars
  <2> QED
    BY <2>1, <2>2, OutInvStep, CwInvStep
<1>3. I => CrmWorkIsAccountedFor
  BY OutInvHolds, CwInvHolds DEF CrmWorkIsAccountedFor
<1> QED
  BY <1>1, <1>2, <1>3, PTL DEF Spec

\* Registrations and runs, of which the next two theorems are corollaries: no
\* write lands on a row that its request did not read.
LEMMA WpAlways == Spec => []WpIInv
<1>1. Init => WpIInv
  BY WpInvInit DEF Init
<1>2. WpIInv /\ [Next]_serverVars => WpIInv'
  <2> SUFFICES ASSUME [Next]_serverVars PROVE [WpNext]_wpVars
    BY WpInvStep
  <2> QED
    BY DEF Next, serverVars
<1> QED
  BY <1>1, <1>2, PTL DEF Spec

\* "The caller's transaction commits both together or neither": a run's effects
\* are committed exactly once if it ends committed and never otherwise, and,
\* unless its graph was edited under it, it walked from the start to an end
\* (answer_step, cancel_run and commit_run of workprocess_engine.py).
THEOREM RunsCommitWholeWalks == Spec => []CommitsWholeWalks
<1>1. WpIInv => CommitsWholeWalks
  <2> SUFFICES ASSUME WpIInv, NEW r \in Runs
               PROVE  /\ applied[r] = IF runs[r].state = "committed" THEN 1 ELSE 0
                      /\ bells[r] <= applied[r]
                      /\ r \notin edited /\ runs[r].state = "committed" =>
                            LET walk == runs[r].walk
                                doc == regs[runs[r].reg].doc IN
                            /\ walk # <<>> /\ walk[1] = doc.start
                            /\ walk[Len(walk)] \in Terminal(doc)
                            /\ \A i \in DOMAIN walk : walk[i] \in Keys(doc)
    BY DEF CommitsWholeWalks
  <2>1. RunOK(runs[r], applied[r], bells[r], regs, r \in edited)
    BY DEF WpIInv
  <2>2. runs[r].state = "committed" => runs[r].version > 0
    BY DEF WpIInv, WpTyped, Unstarted, Started
  <2>3. ASSUME r \notin edited, runs[r].state = "committed"
        PROVE  runs[r].current = NoStep /\ WalkOK(runs[r], regs[runs[r].reg].doc)
    BY <2>1, <2>2, <2>3 DEF RunOK
  <2> QED
    BY <2>1, <2>3 DEF RunOK, WalkOK
<1> QED
  BY <1>1, WpAlways, PTL

\* A retired registration keeps no target, two live ones never share a name,
\* and the action list and the launch agree on who may launch what
\* (visible_workprocesses and authorize_workprocess_launch of access/workprocess.py).
THEOREM ListsAreLaunchable == Spec => []ActionListsAreLaunchable
<1>1. WpIInv => ActionListsAreLaunchable
  <2> SUFFICES ASSUME WpIInv PROVE ActionListsAreLaunchable
    OBVIOUS
  <2>1. links \subseteq Regs \X WpSources /\ \A link \in links : link[1] \in LiveRegs
    BY DEF WpIInv, WpTyped, LiveRegs
  <2>2. \A g \in LiveRegs : ~NameTaken(regs[g].name, {g})
    BY DEF WpIInv, NamesUnique, NameTaken, LiveRegs
  <2>3. ASSUME NEW g \in Regs, NEW s \in WpSources
        PROVE  g \in visible_workprocesses(s) <=> authorize_workprocess_launch(g, s)
    <3>1. <<g, s>> \in links => g \in LiveRegs
      BY <2>1
    <3> QED
      BY <3>1 DEF visible_workprocesses, authorize_workprocess_launch
  <2> QED
    BY <2>1, <2>2, <2>3 DEF ActionListsAreLaunchable
<1> QED
  BY <1>1, WpAlways, PTL

\* Each trimmed row is told in the feed by the same commit: a link that is shown
\* opens unless a trim discarded its bytes and was rolled back or is under way,
\* and a trimmed job is announced once and keeps no bytes, whichever trims
\* overlap and wherever a worker ends (trim_expired_artifacts and the handlers
\* of artifact_jobs.py).
THEOREM ArtifactsReclaimed == Spec => []ArtifactsAreReclaimed
<1>1. Init => ArtIInv
  BY ArtInvInit DEF Init
<1>2. ArtIInv /\ [Next]_serverVars => ArtIInv'
  <2> SUFFICES ASSUME [Next]_serverVars PROVE [ArtNext]_artVars
    BY ArtInvStep
  <2> QED
    BY DEF Next, serverVars
<1>3. ArtIInv => ArtifactsAreReclaimed
  BY DEF ArtIInv, GoneOK, LinkOK, ArtifactsAreReclaimed
<1> QED
  BY <1>1, <1>2, <1>3, PTL DEF Spec

\* No create is silent about a duplicate: of two live records that match, the
\* younger has an override row that names the elder, unless the elder came to
\* life or took its values after the younger was checked, or the younger was
\* edited since (create_record, find_similar_records, restore_record and
\* partial_update of write_engine.py).
THEOREM NoSilentDuplicate == Spec => []DuplicatesAreDecided
<1>1. Init => CreateIInv
  BY CreateInvInit DEF Init
<1>2. CreateIInv /\ [Next]_serverVars => CreateIInv'
  <2> SUFFICES ASSUME [Next]_serverVars PROVE [CreateNext]_createVars
    BY CreateInvStep
  <2> QED
    BY DEF Next, serverVars
<1>3. CreateIInv => DuplicatesAreDecided
  BY DEF CreateIInv, KnownTo, DuplicatesAreDecided
<1> QED
  BY <1>1, <1>2, <1>3, PTL DEF Spec

\* After a refresh the live codes are those of its rows, each with its last
\* city, and after a full snapshot no others, whatever failed or was run again,
\* unless two refreshes overlapped (refresh_postal_reference).
THEOREM SnapshotApplied == Spec => []SnapshotIsApplied
<1>1. Init => PostalIInv
  BY PostalInvInit DEF Init
<1>2. PostalIInv /\ [Next]_serverVars => PostalIInv'
  <2> SUFFICES ASSUME [Next]_serverVars PROVE [PostalNext]_postalVars
    BY PostalInvStep
  <2> QED
    BY DEF Next, serverVars
<1>3. PostalIInv => SnapshotIsApplied
  BY DEF PostalIInv
<1> QED
  BY <1>1, <1>2, <1>3, PTL DEF Spec

\* The server serves action links and feeds the sync as ActionTokens and
\* ChangeFeed say.
LEMMA TokensRun == Spec => TokenSpec
<1>1. Init => TokenInit
  BY DEF Init
<1>2. [Next]_serverVars => [TokenNext]_tokenVars
  BY DEF Next, serverVars
<1> QED
  BY <1>1, <1>2, PTL DEF Spec, TokenSpec

\* The same for the feed.
LEMMA FeedRuns == Spec => FeedSpec
<1>1. Init => FeedInit
  BY DEF Init
<1>2. [Next]_serverVars => [FeedNext]_feedVars
  BY DEF Next, serverVars
<1> QED
  BY <1>1, <1>2, PTL DEF Spec, FeedSpec

\* A step of the engagement that leaves the sessions alone, or of both.
LEMMA MsServerStep ==
    ASSUME MsIInv, [Next]_serverVars
    PROVE  MsIInv'
<1>1. [MsNext]_msVars \/ (EngNext /\ UNCHANGED msOnly)
  BY DEF Next, serverVars
<1>2. CASE [MsNext]_msVars
  BY <1>2, MsInvStep
<1>3. CASE EngNext /\ UNCHANGED msOnly
  <2>1. EngIInv'
    BY <1>3, EngInvStep DEF MsIInv
  <2> QED
    BY <1>3, <2>1 DEF msOnly, MsIInv, MsTypeOK
<1> QED
  BY <1>1, <1>2, <1>3

\* The engagements and sessions, whether or not the sessions move.
LEMMA MsAlways == Spec => []MsIInv
<1>1. Init => MsIInv
  BY MsInvInit DEF Init
<1> QED
  BY <1>1, MsServerStep, PTL DEF Spec

\* What the modules of their own prove of a part holds of the server: links are
\* redeemed within their budget, the sync passes no entry over, an engagement
\* keeps to its lifecycle, verbs and reads to the caller's scope, and retrievals
\* are not lost (access/tokens.py, automation/change_feed.py,
\* api/routers/mentoring.py).
THEOREM PartsAreSafe ==
    Spec => [](/\ UsesAreAccountedFor /\ WatermarkLosesNothing /\ FlipsFollowTheLifecycle
               /\ ScopeIsKept /\ RetrievalIsNotLost)
<1>1. MsIInv => FlipsFollowTheLifecycle /\ ScopeIsKept /\ RetrievalIsNotLost
  BY ScopeHolds, RetrievalHolds DEF MsIInv, EngIInv
<1> QED
  BY <1>1, MsAlways, TokensRun, UsesAccounted, FeedRuns, NothingLost, PTL

\* No step of the server shortens or rewrites a stored transcript: "a transcript
\* is evidence" (api/routers/mentoring.py, automation/transcripts.py).
THEOREM TranscriptsAreKept == Spec => TranscriptOnlyGrows
<1> DEFINE A == \A s \in MSessions : IsPrefix(msess[s].text, msess'[s].text)
<1>1. MsIInv /\ [Next]_serverVars => [A]_msess
  <2> SUFFICES ASSUME MsIInv, [Next]_serverVars, msess' # msess PROVE A
    OBVIOUS
  <2>1. MsNext
    BY DEF Next, serverVars, msVars, msOnly
  <2> QED
    BY <2>1, TextGrows
<1> QED
  BY <1>1, MsAlways, PTL DEF Spec, TranscriptOnlyGrows

\* Every variable of every part holds what its table, document or cache can, in
\* whatever order the requests of that part read, compute and commit.
THEOREM TypeCorrect == Spec => []TypeOK
<1> DEFINE I == /\ WpIInv /\ OutIInv /\ CwIInv /\ ArtIInv /\ PostalIInv /\ CreateIInv
                /\ WpRest /\ OutRest /\ unwound \subseteq ArtJobs
                /\ refreshes \in 0 .. MaxRefreshes /\ CreateRest
<1>1. Init => I
  BY WpInvInit, OutInvInit, CwInvInit, ArtInvInit, PostalInvInit, CreateInvInit, WpTypesHold,
     OutTypesHold, ArtTypesHold, PostalTypesHold, CreateTypesHold DEF Init
<1>2. I /\ [Next]_serverVars => I'
  <2> SUFFICES ASSUME I, [Next]_serverVars PROVE I'
    OBVIOUS
  <2>1. /\ [WpNext]_wpVars /\ [OutNext]_outVars /\ [CwNext]_cwVars
        /\ [ArtNext]_artVars /\ [PostalNext]_postalVars /\ [CreateNext]_createVars
    BY DEF Next, serverVars
  <2> QED
    BY <2>1, WpInvStep, OutInvStep, CwInvStep, ArtInvStep, PostalInvStep, CreateInvStep,
       WpTypesHold, OutTypesHold, ArtTypesHold, PostalTypesHold, CreateTypesHold
<1>3. I => WpTypeOK /\ OutTypeOK /\ CwTypeOK /\ ArtTypeOK /\ PostalTypeOK /\ CreateTypeOK
  BY WpTypesHold, OutTypesHold, ArtTypesHold, PostalTypesHold, CreateTypesHold DEF CwIInv, CwTyped
<1>4. MsIInv => EngTypeOK /\ MsTypeOK
  BY DEF MsIInv, EngIInv
<1>5. ASSUME WpTypeOK, OutTypeOK, CwTypeOK, ArtTypeOK, PostalTypeOK, CreateTypeOK, EngTypeOK,
             MsTypeOK, TokenTypeOK, FeedTypeOK
      PROVE  TypeOK
  BY <1>5 DEF TypeOK
<1> HIDE DEF I
<1> QED
  BY <1>1, <1>2, <1>3, <1>4, <1>5, MsAlways, TokensRun, TokenTypeCorrect, FeedRuns,
     FeedTypeCorrect, PTL DEF Spec
=============================================================================
