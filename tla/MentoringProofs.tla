---------------------------- MODULE MentoringProofs ----------------------------
(***************************************************************************)
(* Proofs about Engagements and MentoringSessions, for any users, sessions *)
(* and slots.  A request decides on a row it read and writes it later; the *)
(* invariants say what its decision is worth as long as the row still has  *)
(* the version that was read.                                              *)
(***************************************************************************)
EXTENDS MentoringSessions, SequenceTheorems, FiniteSetTheorems, TLAPS

-----------------------------------------------------------------------------
(* The engagement and its lifecycle. *)

\* The lifecycle allows the step from one status to the other.
Allowed(from, to) ==
    \/ <<from, to>> \in {<<"pendingAcceptance", "assigned">>,
                         <<"pendingAcceptance", "assignmentDeclined">>}
    \/ from \in {"active", "assigned"} /\ to \in {"onHold", "dormant"}
    \/ from = "onHold" /\ to = "dormant"
    \/ from \in {"onHold", "dormant"} /\ to = "active"

EngRequest == {Idle} \cup [pc : {"flip"}, by : Users, to : EngagementStatus, version : Nat]

\* The user u has the engagement e, which is live: REQ-019's rule.
Has(u, e) == e.live /\ (e.mentor = u \/ u \in Leadership)

\* What the request w has decided, of the status and of its caller's scope,
\* still holds if the row e has its version.
FlipOK(w, e) ==
    w.pc = "flip" => /\ w.version <= e.version
                     /\ w.version = e.version => Allowed(e.status, w.to) /\ Has(w.by, e)

\* The inductive invariant of the engagement.
EngIInv ==
    /\ EngTypeOK
    /\ engReq \in [Slots -> EngRequest]
    /\ \A q \in Slots : FlipOK(engReq[q], eng)
    /\ FlipsFollowTheLifecycle /\ VerbsKeepTheirScope
    /\ \A mail \in mails :
          mail.addressed /\ STAFF_EMAIL_TEMPLATES[mail.template] \subseteq mail.merged

-----------------------------------------------------------------------------
(* Its sessions.  m are the rows, r the retrieval jobs. *)

NewMsRequest == [pc : {"invite"}, s : MSessions, filled : SUBSET MergeFields,
                 row : MentoringSession]
           \cup [pc : {"create"}, s : MSessions, row : MentoringSession]
WriteMsRequest == [pc : {"write"}, s : MSessions, job : BOOLEAN, row : MentoringSession]
MsRequest == {Idle} \cup NewMsRequest \cup WriteMsRequest

\* The request w creates a row that is not there yet.
CreateOK(w, m) ==
    w \in NewMsRequest => /\ m[w.s].version = 0
                          /\ w.row.version = 1 /\ w.row.live /\ w.row.text = <<>>

\* The request w writes a row that continues the one that was read, as long as
\* that one has not changed; a job's request brings the platform's text.
WriteOK(w, m, r) ==
    w \in WriteMsRequest =>
        /\ m[w.s].version > 0 /\ w.row.meeting = m[w.s].meeting
        /\ w.row.version <= m[w.s].version + 1
        /\ w.row.version = m[w.s].version + 1 =>
              w.row.live = m[w.s].live /\ IsPrefix(m[w.s].text, w.row.text)
        /\ w.job => r[w.s].state = "running" /\ "call" \in ToSet(w.row.text)

\* The row a and its job j.
RowOK(a, j) ==
    /\ a.version = 0 => j.state = "none" /\ a.text = <<>>
    /\ a.version > 0 => (a.meeting <=> j.state # "none")
    /\ j.state = "succeeded" => "call" \in ToSet(a.text)
    /\ j.state = "parked" => j.tries >= RetrievalTries \/ ~a.live
    /\ j.state \in {"queued", "running"} => j.tries < RetrievalTries

\* Two requests never create one session, nor run one job.
Apart(v, w) ==
    /\ v \in NewMsRequest /\ w \in NewMsRequest => v.s # w.s
    /\ v \in WriteMsRequest /\ w \in WriteMsRequest /\ v.job /\ w.job => v.s # w.s

\* The inductive invariant of the sessions.
MsIInv ==
    /\ EngIInv
    /\ MsTypeOK /\ msNow \in Nat
    /\ msReq \in [Slots -> MsRequest]
    /\ \A q \in Slots : CreateOK(msReq[q], msess) /\ WriteOK(msReq[q], msess, retrieval)
    /\ \A p, q \in Slots : p # q => Apart(msReq[p], msReq[q])
    /\ \A s \in MSessions : RowOK(msess[s], retrieval[s])
    /\ \A s \in MSessions : platform[s] # <<>> => "call" \in ToSet(platform[s])

USE EngagementsAssumption, MentoringSessionsAssumption

-----------------------------------------------------------------------------
(* The steps of the engagement. *)

\* Every transition of REQ-075's table is allowed, from each of its statuses.
LEMMA TransitionsAllowed ==
    ASSUME NEW t \in DOMAIN LIFECYCLE_TRANSITIONS
    PROVE  /\ LIFECYCLE_TRANSITIONS[t].to \in EngagementStatus
           /\ \A from \in LIFECYCLE_TRANSITIONS[t].from : Allowed(from, LIFECYCLE_TRANSITIONS[t].to)
  BY DEF LIFECYCLE_TRANSITIONS, EngagementStatus, Allowed

\* FlipsFollowTheLifecycle, with the step taken apart.
LEMMA FlipsAreAllowed ==
    ASSUME flips \subseteq EngagementStatus \X EngagementStatus \X BOOLEAN
    PROVE  FlipsFollowTheLifecycle <=> \A flip \in flips : Allowed(flip[1], flip[2])
  BY DEF FlipsFollowTheLifecycle, Allowed

\* A lifecycle verb that passes its check plans a flip the lifecycle allows.
LEMMA PostLifecycleHolds ==
    ASSUME EngIInv, NEW q \in Slots, NEW u \in Users, NEW t \in DOMAIN LIFECYCLE_TRANSITIONS,
           post_engagement_lifecycle(q, u, t)
    PROVE  EngIInv'
<1> DEFINE w == [pc |-> "flip", by |-> u, to |-> LIFECYCLE_TRANSITIONS[t].to, 
                version |-> eng.version]
<1>1. engReq' = [engReq EXCEPT ![q] = w] /\ UNCHANGED <<eng, mails, flips>>
  BY DEF post_engagement_lifecycle
<1>2. eng \in Engagement /\ engReq \in [Slots -> EngRequest]
  BY DEF EngIInv, EngTypeOK
<1>3. eng.status \in LIFECYCLE_TRANSITIONS[t].from /\ Has(u, eng)
  BY DEF post_engagement_lifecycle, _scoped_engagement, _is_leadership, Has
<1>4. w \in EngRequest /\ FlipOK(w, eng)
  BY <1>2, <1>3, TransitionsAllowed DEF Engagement, EngRequest, FlipOK
<1> HIDE DEF w
<1>5. engReq' \in [Slots -> EngRequest] /\ \A p \in Slots : FlipOK(engReq'[p], eng)
  BY <1>1, <1>2, <1>4 DEF EngIInv
<1> QED
  BY <1>1, <1>5 DEF EngIInv, EngTypeOK, FlipsFollowTheLifecycle, VerbsKeepTheirScope

\* The row moves on: what was decided on the row before does not count any more.
LEMMA FlipLapses ==
    ASSUME NEW w \in EngRequest, NEW e \in Engagement, NEW f \in Engagement, FlipOK(w, e),
           f.version = e.version + 1
    PROVE  FlipOK(w, f)
<1>1. e.version \in Nat /\ f.version \in Nat /\ (w.pc = "flip" => w.version \in Nat)
  BY DEF Engagement, EngRequest, Idle
<1> QED
  BY <1>1 DEF FlipOK

\* A triple that ends in a Boolean.
LEMMA TripleIs ==
    ASSUME NEW a \in EngagementStatus, NEW b \in EngagementStatus, NEW c \in BOOLEAN
    PROVE  /\ <<a, b, c>> \in EngagementStatus \X EngagementStatus \X BOOLEAN
           /\ <<a, b, c>>[1] = a /\ <<a, b, c>>[2] = b /\ <<a, b, c>>[3] = c
  OBVIOUS

\* The flip is written only if the row still has the version it was checked at.
LEMMA WriteFlipHolds ==
    ASSUME EngIInv, NEW q \in Slots, WriteFlip(q)
    PROVE  EngIInv'
<1> DEFINE w == engReq[q]
<1>1. /\ eng \in Engagement /\ engReq \in [Slots -> EngRequest] /\ w.pc = "flip"
      /\ flips \subseteq EngagementStatus \X EngagementStatus \X BOOLEAN
      /\ w \in EngRequest /\ FlipOK(w, eng)
  BY DEF EngIInv, EngTypeOK, WriteFlip
<1>2. w.to \in EngagementStatus /\ w.version \in Nat /\ w.by \in Users
  BY <1>1 DEF EngRequest, Idle
<1>3. engReq' = [engReq EXCEPT ![q] = Idle] /\ UNCHANGED mails
  BY DEF WriteFlip
<1>4. Idle \in EngRequest /\ \A e : FlipOK(Idle, e)
  BY DEF EngRequest, FlipOK, Idle
<1>5. engReq' \in [Slots -> EngRequest] /\ engReq'[q] = Idle
      /\ \A p \in Slots : p # q => engReq'[p] = engReq[p]
  BY <1>1, <1>3, <1>4
<1>6. CASE eng.version = w.version
  <2> DEFINE version == eng.version + 1
             to == w.to
             from == eng.status
  <2>1. /\ eng' = [eng EXCEPT !.status = to, !.version = version]
        /\ flips' = flips \cup {<<from, to, _scoped_engagement(w.by)>>}
    BY <1>1, <1>6 DEF WriteFlip, Flipped, Engagement
  <2>2. Allowed(from, to) /\ Has(w.by, eng)
    BY <1>1, <1>6 DEF FlipOK
  <2>3. version \in Nat /\ to \in EngagementStatus /\ from \in EngagementStatus
    <3>1. from \in EngagementStatus
      BY <2>2 DEF Allowed, EngagementStatus
    <3> QED
      BY <1>1, <1>2, <3>1 DEF Engagement
  <2> HIDE DEF version, to, from
  <2>4. eng' \in Engagement /\ eng'.version = version
    BY <1>1, <2>1, <2>3 DEF Engagement
  <2>5. \A p \in Slots : FlipOK(engReq'[p], eng')
    <3>1. eng'.version = eng.version + 1
      BY <2>4 DEF version
    <3> QED
      BY <1>1, <1>4, <1>5, <2>4, <3>1, FlipLapses DEF EngIInv
  <2>9. PICK scoped \in BOOLEAN : scoped /\ flips' = flips \cup {<<from, to, scoped>>}
    <3>1. _scoped_engagement(w.by)
      BY <2>2 DEF Has, _scoped_engagement, _is_leadership
    <3>2. _scoped_engagement(w.by) \in BOOLEAN
      BY <1>1 DEF _scoped_engagement, _is_leadership, Engagement
    <3> QED
      BY <2>1, <3>1, <3>2
  <2> DEFINE flip == <<from, to, scoped>>
  <2>10. /\ flip \in EngagementStatus \X EngagementStatus \X BOOLEAN
         /\ flip[1] = from /\ flip[2] = to /\ flip[3] = scoped
    BY <2>3, TripleIs
  <2>12. flips' = flips \cup {flip}
    BY <2>9
  <2> HIDE DEF flip
  <2>6. flips' \subseteq EngagementStatus \X EngagementStatus \X BOOLEAN
    BY <1>1, <2>10, <2>12
  <2>7. \A f \in flips' : Allowed(f[1], f[2])
    BY <1>1, <2>2, <2>10, <2>12, FlipsAreAllowed DEF EngIInv
  <2>11. VerbsKeepTheirScope'
    BY <2>9, <2>10, <2>12 DEF VerbsKeepTheirScope, EngIInv
  <2>8. FlipsFollowTheLifecycle'
    BY <2>6, <2>7 DEF FlipsFollowTheLifecycle, Allowed
  <2> QED
    BY <1>3, <1>5, <2>4, <2>5, <2>6, <2>8, <2>11 DEF EngIInv, EngTypeOK
<1>7. CASE eng.version # w.version
  <2>1. UNCHANGED <<eng, flips>>
    BY <1>7 DEF WriteFlip
  <2> QED
    BY <1>3, <1>4, <1>5, <2>1 DEF EngIInv, EngTypeOK, FlipsFollowTheLifecycle, VerbsKeepTheirScope
<1> QED
  BY <1>6, <1>7

\* Staff write the row, or it is removed: its version moves on.
LEMMA RowWriteHolds ==
    ASSUME EngIInv, StaffPatch \/ RemoveEngagement
    PROVE  EngIInv'
<1>1. /\ eng \in Engagement /\ engReq \in [Slots -> EngRequest]
      /\ UNCHANGED <<engReq, mails, flips>>
  BY DEF EngIInv, EngTypeOK, StaffPatch, RemoveEngagement
<1> DEFINE version == eng.version + 1
<1>2. version \in Nat
  BY <1>1 DEF Engagement
<1>3. eng' \in Engagement /\ eng'.version = version
  <2>1. CASE StaffPatch
    <3>1. PICK s \in EngagementStatus, m \in Users, some \in SUBSET {"contactName", "engagementName"} :
             eng' = [eng EXCEPT !.status = s, !.mentor = m, !.version = @ + 1,
                                !.filled = some \cup {"contactEmail"}]
      BY <2>1 DEF StaffPatch
    <3> DEFINE filled == some \cup {"contactEmail"}
    <3>2. filled \in SUBSET {"contactName", "contactEmail", "engagementName"}
      OBVIOUS
    <3>3. eng' = [eng EXCEPT !.status = s, !.mentor = m, !.version = version, !.filled = filled]
      BY <1>1, <3>1 DEF Engagement
    <3> HIDE DEF version, filled
    <3> QED
      BY <1>1, <1>2, <3>2, <3>3 DEF Engagement
  <2>2. CASE RemoveEngagement
    <3>1. eng' = [eng EXCEPT !.live = FALSE, !.version = version]
      BY <1>1, <2>2 DEF RemoveEngagement, Engagement
    <3> HIDE DEF version
    <3> QED
      BY <1>1, <1>2, <3>1 DEF Engagement
  <2> QED
    BY <2>1, <2>2
<1>4. \A q \in Slots : FlipOK(engReq[q], eng')
  BY <1>1, <1>3, FlipLapses DEF EngIInv
<1> QED
  BY <1>1, <1>3, <1>4 DEF EngIInv, EngTypeOK, FlipsFollowTheLifecycle, VerbsKeepTheirScope

\* A mail goes out with the merge fields its template names, or not at all.
LEMMA MailHolds ==
    ASSUME EngIInv, NEW u \in Users, NEW confirmed \in BOOLEAN,
           \/ \E key \in DOMAIN STAFF_EMAIL_TEMPLATES : post_email_send(u, key, confirmed)
           \/ post_resource_share(u, confirmed)
    PROVE  EngIInv'
<1>1. UNCHANGED <<eng, engReq, flips>> /\ eng \in Engagement
  BY DEF post_email_send, post_resource_share, EngIInv, EngTypeOK
<1>2. PICK key, context :
         /\ "contactEmail" \in eng.filled /\ _merged_or_refused(key, context)
         /\ _send_or_preview(key, context, confirmed)
         /\ context \subseteq eng.filled \cup {"mentorName", "resourceTitle", "resourceLocation"}
  BY DEF post_email_send, post_resource_share, _engagement_merge_context
<1>3. context \subseteq MergeFields
  BY <1>1, <1>2 DEF Engagement, MergeFields
<1>4. STAFF_EMAIL_TEMPLATES[key] \subseteq context
  BY <1>2 DEF _merged_or_refused, merge_template
<1> DEFINE mail == [template |-> key, merged |-> context, addressed |-> "contactEmail" \in eng.filled]
<1>5. mails' \subseteq mails \cup {mail}
  BY <1>2 DEF _send_or_preview
<1>6. mail.addressed /\ mail.template = key /\ mail.merged = context
  BY <1>2
<1> HIDE DEF mail
<1> QED
  BY <1>1, <1>3, <1>4, <1>5, <1>6 DEF EngIInv, EngTypeOK, FlipsFollowTheLifecycle, VerbsKeepTheirScope

\* An engagement before the first request.
LEMMA EngInvInit ==
    ASSUME EngInit
    PROVE  EngIInv
<1>1. eng \in Engagement
  <2> DEFINE F == {"contactName", "contactEmail", "engagementName"}
             G == {{}, F}
  <2>1. G \subseteq SUBSET F
    OBVIOUS
  <2>2. eng \in [status : {"pendingAcceptance", "unset"}, mentor : Users, live : {TRUE},
                 filled : G, version : {1}]
    BY DEF EngInit
  <2> HIDE DEF F, G
  <2>3. eng = [status |-> eng.status, mentor |-> eng.mentor, live |-> eng.live,
               filled |-> eng.filled, version |-> eng.version]
    BY <2>2
  <2>4. eng.status \in {"pendingAcceptance", "unset"} /\ eng.mentor \in Users /\ eng.live \in {TRUE}
    BY <2>2
  <2>5. eng.filled \in G /\ eng.version \in {1}
    BY <2>2
  <2>6. eng.status \in EngagementStatus \cup {"unset"}
    BY <2>4 DEF EngagementStatus
  <2>7. eng.live \in BOOLEAN
    BY <2>4
  <2>8. eng.filled \in SUBSET F /\ eng.version \in Nat
    BY <2>1, <2>5
  <2> QED
    BY <2>3, <2>4, <2>6, <2>7, <2>8 DEF Engagement, F
<1>2. engReq \in [Slots -> EngRequest] /\ \A q \in Slots : FlipOK(engReq[q], eng)
  BY DEF EngInit, EngRequest, FlipOK, Idle
<1> QED
  BY <1>1, <1>2 DEF EngInit, EngIInv, EngTypeOK, FlipsFollowTheLifecycle,
                           VerbsKeepTheirScope

\* Every step on an engagement keeps the invariant.
LEMMA EngInvStep ==
    ASSUME EngIInv, [EngNext]_engVars
    PROVE  EngIInv'
<1>1. CASE UNCHANGED engVars
  BY <1>1 DEF engVars, EngIInv, EngTypeOK, FlipsFollowTheLifecycle, VerbsKeepTheirScope
<1> QED
  BY <1>1, PostLifecycleHolds, WriteFlipHolds, RowWriteHolds, MailHolds DEF EngNext

\* A lifecycle verb takes only the steps of REQ-075 and undoes nothing staff or
\* a second verb did between its check and its write (post_engagement_lifecycle).
THEOREM LifecycleFollowed == EngSpec => []FlipsFollowTheLifecycle
<1>1. EngInit => EngIInv
  BY EngInvInit
<1>2. EngIInv => FlipsFollowTheLifecycle
  BY DEF EngIInv
<1> QED
  BY <1>1, <1>2, EngInvStep, PTL DEF EngSpec

-----------------------------------------------------------------------------
(* The reads over the engagement and its sessions. *)

\* A set and the pairs of its elements with what a function gives them have the
\* same size.
LEMMA PairsCount ==
    ASSUME NEW S, IsFiniteSet(S), NEW f
    PROVE  Cardinality({<<x, f[x]>> : x \in S}) = Cardinality(S)
<1> DEFINE T == {<<x, f[x]>> : x \in S}
           g == [x \in S |-> <<x, f[x]>>]
<1>1. g \in [S -> T] /\ \A y \in T : \E x \in S : g[x] = y
  OBVIOUS
<1>2. \A x, y \in S : g[x] = g[y] => x = y
  OBVIOUS
<1>3. g \in Bijection(S, T)
  BY <1>1, <1>2 DEF Bijection, Injection, Surjection, IsInjective
<1>4. ExistsBijection(S, T)
  BY <1>3 DEF ExistsBijection
<1> HIDE DEF T, g
<1> QED
  BY <1>4, FS_Bijection DEF T

\* The rollup and the triage row have the same figures.
LEMMA FiguresAgree ==
    ASSUME msess \in [MSessions -> MentoringSession], msNow \in Nat
    PROVE  /\ get_engagement_rollup.total = engagement_triage_sql.total
           /\ get_engagement_rollup.lastAt = engagement_triage_sql.lastAt
           /\ get_engagement_rollup.nextAt = engagement_triage_sql.nextAt
<1> DEFINE past == {msess[s].at : s \in {t \in MsLive : msess[t].at <= msNow}}
           future == {msess[s].at : s \in {t \in MsLive : msess[t].at > msNow}}
           at == {<<s, msess[s].at>> : s \in MsLive}
           before == {row \in at : row[2] <= msNow}
           after == at \ before
<1>1. MsLive \subseteq MSessions /\ \A s \in MsLive : msess[s].at \in Nat
  BY DEF MsLive, MentoringSession
<1>2. MsLive = {t \in MSessions : Exists(t) /\ msess[t].live}
  BY DEF MsLive
<1>3. Cardinality(at) = Cardinality(MsLive)
  <2> DEFINE f == [s \in MSessions |-> msess[s].at]
  <2>1. IsFiniteSet(MsLive)
    BY <1>1, FS_Subset
  <2>2. Cardinality({<<s, f[s]>> : s \in MsLive}) = Cardinality(MsLive)
    <3> HIDE DEF f
    <3> QED
      BY <2>1, PairsCount
  <2>3. at = {<<s, f[s]>> : s \in MsLive}
    BY <1>1
  <2> QED
    BY <2>2, <2>3
<1>4. past = {row[2] : row \in before}
  <2>1. \A row : row \in before <=> \E s \in MsLive : row = <<s, msess[s].at>> /\ msess[s].at <= msNow
    OBVIOUS
  <2> HIDE DEF before
  <2>2. ASSUME NEW s \in MsLive, msess[s].at <= msNow
        PROVE  msess[s].at \in {row[2] : row \in before}
    <3>1. <<s, msess[s].at>> \in before /\ <<s, msess[s].at>>[2] = msess[s].at
      BY <2>1, <2>2
    <3> QED
      BY <3>1
  <2>3. ASSUME NEW row \in before
        PROVE  row[2] \in past
    BY <2>1
  <2> QED
    BY <2>2, <2>3
<1>5. future = {row[2] : row \in after}
  <2>1. \A row : row \in after <=> \E s \in MsLive : row = <<s, msess[s].at>> /\ msess[s].at > msNow
    BY <1>1
  <2> HIDE DEF after
  <2>2. ASSUME NEW s \in MsLive, msess[s].at > msNow
        PROVE  msess[s].at \in {row[2] : row \in after}
    <3>1. <<s, msess[s].at>> \in after /\ <<s, msess[s].at>>[2] = msess[s].at
      BY <2>1, <2>2
    <3> QED
      BY <3>1
  <2>3. ASSUME NEW row \in after
        PROVE  row[2] \in future
    BY <2>1
  <2> QED
    BY <2>2, <2>3
<1>6. (past = {} <=> before = {}) /\ (future = {} <=> after = {})
  BY <1>4, <1>5
<1>7. engagement_triage_sql =
         [total |-> Cardinality(at),
          lastAt |-> IF before = {} THEN 0 ELSE Max({row[2] : row \in before}),
          nextAt |-> IF after = {} THEN 0 ELSE Min({row[2] : row \in after})]
  BY <1>2 DEF engagement_triage_sql
<1>8. get_engagement_rollup =
         [total |-> Cardinality(MsLive),
          held |-> Cardinality({t \in MsLive : msess[t].at <= msNow}),
          lastAt |-> IF past = {} THEN 0 ELSE Max(past),
          nextAt |-> IF future = {} THEN 0 ELSE Min(future)]
  BY DEF get_engagement_rollup, _live_sessions_newest_first
<1> HIDE DEF past, future, at, before, after
<1> QED
  BY <1>3, <1>4, <1>5, <1>6, <1>7, <1>8

\* The areas serve what the single-record endpoints serve.
LEMMA AreasAgree == AreasShowTheScope
<1> SUFFICES ASSUME NEW u \in Users
             PROVE  LET rows(key) == run_stored_data_source(key, u) IN
                    /\ \A key \in DOMAIN MENTOR_DATA_SOURCES : rows(key) # {} => _scoped_engagement(u)
                    /\ \A s \in MSessions :
                          /\ s \in rows("mentorSessions") => _scoped_session(s, u)
                          /\ _scoped_session(s, u) => _is_leadership(u) \/ s \in rows("mentorSessions")
                    /\ list_engagements(u) <=>
                          rows("mentorEngagements") # {} \/ rows("leadershipEngagements") # {}
  BY DEF AreasShowTheScope
<1> DEFINE rows(key) == run_stored_data_source(key, u)
           mine == {"mentorContacts", "mentorCompanies", "mentorClients", "mentorEngagements",
                    "mentorSessions"}
<1>1. /\ DOMAIN MENTOR_DATA_SOURCES = mine \cup {"leadershipEngagements"}
      /\ \A key \in mine : MENTOR_DATA_SOURCES[key] = [roles |-> {"Mentor", "Leadership"}, scoped |-> TRUE]
      /\ MENTOR_DATA_SOURCES["leadershipEngagements"] = [roles |-> {"Leadership"}, scoped |-> FALSE]
  BY DEF MENTOR_DATA_SOURCES
<1>2. \A key \in mine : rows(key) = IF eng.live /\ eng.mentor = u THEN SourceRows(key) ELSE {}
  BY <1>1 DEF run_stored_data_source, roles_cover_data_source, user_roles, execute_admin_sql
<1>3. rows("leadershipEngagements") =
         IF _is_leadership(u) /\ eng.live THEN SourceRows("leadershipEngagements") ELSE {}
  BY <1>1 DEF run_stored_data_source, roles_cover_data_source, user_roles, execute_admin_sql
<1>4. /\ SourceRows("mentorSessions") = MsLive
      /\ SourceRows("mentorEngagements") = {"engagement"}
      /\ SourceRows("leadershipEngagements") = {"engagement"}
  BY DEF SourceRows
<1> HIDE DEF rows
<1> QED
  BY <1>1, <1>2, <1>3, <1>4 DEF _scoped_engagement, _scoped_session, list_engagements, rows

\* The reads agree on any state of the right type: they share their predicates.
LEMMA ReadsDoAgree ==
    ASSUME EngIInv, msess \in [MSessions -> MentoringSession], msNow \in Nat
    PROVE  ScopeIsOneRule /\ RollupIsTheTriageRow /\ AreasShowTheScope
<1>1. ScopeIsOneRule
  BY DEF EngIInv, ScopeIsOneRule, list_engagements, _scoped_engagement
<1>2. \A u \in Users : list_engagements(u) <=> engagement_triage_rows(u, ~_is_leadership(u)) # {}
  BY DEF list_engagements, engagement_triage_rows
<1> QED
  BY <1>1, <1>2, FiguresAgree, AreasAgree DEF RollupIsTheTriageRow

-----------------------------------------------------------------------------
(* Transcripts. *)

LEMMA PrefixOfItself ==
    ASSUME NEW a \in Transcript
    PROVE  IsPrefix(a, a)
  BY DEF Transcript, IsPrefix

\* A prefix has only parts of the whole.
LEMMA PrefixKeeps ==
    ASSUME NEW a \in Transcript, NEW b \in Transcript, IsPrefix(a, b)
    PROVE  ToSet(a) \subseteq ToSet(b)
<1> SUFFICES ASSUME NEW i \in 1 .. Len(a)
             PROVE  a[i] \in ToSet(b)
  BY DEF ToSet, Transcript
<1>1. /\ Len(a) \in Nat /\ Len(b) \in Nat /\ Len(a) <= Len(b)
      /\ SubSeq(a, 1, Len(a)) = SubSeq(b, 1, Len(a))
  BY DEF IsPrefix, Transcript
<1>2. SubSeq(a, 1, Len(a))[i] = a[i] /\ SubSeq(b, 1, Len(a))[i] = b[i]
  BY <1>1 DEF Transcript
<1>3. i \in DOMAIN b
  BY <1>1 DEF Transcript
<1> QED
  BY <1>1, <1>2, <1>3 DEF ToSet

\* What is retrieved is added to the end, and is on the session then.
LEMMA TranscriptExtended ==
    ASSUME NEW a \in Transcript, NEW b \in Transcript
    PROVE  LET c == extended_transcript(a, b) IN
           c \in Transcript /\ IsPrefix(a, c) /\ ToSet(b) \subseteq ToSet(c)
<1>1. CASE IsPrefix(b, a)
  BY <1>1, PrefixKeeps, PrefixOfItself DEF extended_transcript
<1>2. CASE ~IsPrefix(b, a) /\ IsPrefix(a, b)
  BY <1>2 DEF extended_transcript
<1>3. CASE ~IsPrefix(b, a) /\ ~IsPrefix(a, b)
  <2> DEFINE c == a \o b
  <2>1. c \in Transcript /\ Len(c) = Len(a) + Len(b)
    BY DEF Transcript
  <2>2. IsPrefix(a, c)
    <3>1. SubSeq(c, 1, Len(a)) = SubSeq(a, 1, Len(a))
      BY DEF Transcript
    <3> QED
      BY <2>1, <3>1 DEF IsPrefix, Transcript
  <2>3. ToSet(b) \subseteq ToSet(c)
    <3> HIDE DEF c
    <3> SUFFICES ASSUME NEW i \in 1 .. Len(b) PROVE b[i] \in ToSet(c)
      BY DEF ToSet, Transcript
    <3> DEFINE k == Len(a) + i
    <3>1. k \in Len(a) + 1 .. Len(a) + Len(b) /\ k - Len(a) = i
      BY DEF Transcript
    <3>2. c[k] = b[k - Len(a)]
      BY <3>1 DEF Transcript, c
    <3>3. k \in DOMAIN c
      BY <2>1, <3>1 DEF Transcript
    <3> HIDE DEF k
    <3> QED
      BY <3>1, <3>2, <3>3 DEF ToSet
  <2> QED
    BY <1>3, <2>1, <2>2, <2>3 DEF extended_transcript
<1> QED
  BY <1>1, <1>2, <1>3

-----------------------------------------------------------------------------
(* The steps of the sessions. *)

\* The types the steps start from.
LEMMA MsTypes ==
    ASSUME MsIInv
    PROVE  /\ msess \in [MSessions -> MentoringSession] /\ retrieval \in [MSessions -> RetrievalJob]
           /\ platform \in [MSessions -> Transcript] /\ booked \subseteq MSessions
           /\ invited \subseteq MSessions /\ msReq \in [Slots -> MsRequest] /\ msNow \in Nat
           /\ \A q \in Slots : msReq[q] \in MsRequest
           /\ \A s \in MSessions : /\ msess[s] \in MentoringSession /\ msess[s].version \in Nat
                                   /\ msess[s].text \in Transcript
                                   /\ retrieval[s].tries \in Nat
  BY DEF MsIInv, MsTypeOK, MentoringSession, RetrievalJob

\* A request is what its pc says.
LEMMA RequestIs ==
    ASSUME NEW w \in MsRequest
    PROVE  /\ w.pc \in {"invite", "create"} <=> w \in NewMsRequest
           /\ w.pc = "write" <=> w \in WriteMsRequest
           /\ w.pc = "idle" <=> w = Idle
           /\ w.pc \in {"idle", "invite", "create", "write"}
           /\ w # Idle => w.s \in MSessions /\ w.row \in MentoringSession
           /\ w \in WriteMsRequest => w.job \in BOOLEAN
  BY DEF MsRequest, NewMsRequest, WriteMsRequest, Idle

\* A free slot is a request of neither kind.
LEMMA IdleIs == /\ Idle \in MsRequest /\ Idle \notin NewMsRequest /\ Idle \notin WriteMsRequest
  BY DEF MsRequest, NewMsRequest, WriteMsRequest, Idle

\* The row of w's session stays, or moves on: what w has read lapses then.
LEMMA WriteLapses ==
    ASSUME NEW w \in MsRequest, NEW m \in [MSessions -> MentoringSession],
           NEW n \in [MSessions -> MentoringSession], NEW r, NEW j, WriteOK(w, m, r),
           w \in WriteMsRequest =>
              /\ \/ n[w.s] = m[w.s]
                 \/ n[w.s].version = m[w.s].version + 1 /\ n[w.s].meeting = m[w.s].meeting
              /\ w.job => j[w.s].state = "running"
    PROVE  WriteOK(w, n, j)
<1> SUFFICES ASSUME w \in WriteMsRequest PROVE WriteOK(w, n, j)
  BY DEF WriteOK
<1>1. w.s \in MSessions /\ w.row.version \in Nat /\ m[w.s].version \in Nat /\ n[w.s].version \in Nat
  BY DEF WriteMsRequest, MentoringSession
<1> QED
  BY <1>1 DEF WriteOK

\* A step of slot q, which touches at most the session t.
LEMMA MsStep ==
    ASSUME MsIInv, NEW q \in Slots, NEW w \in MsRequest, msReq' = SetOf(q, w, msReq),
           NEW t \in MSessions, UNCHANGED <<engVars, msNow, platform>>,
           booked' \cup invited' \subseteq MSessions,
           msess' \in [MSessions -> MentoringSession], retrieval' \in [MSessions -> RetrievalJob],
           \A s \in MSessions : s # t => msess'[s] = msess[s] /\ retrieval'[s] = retrieval[s],
           RowOK(msess'[t], retrieval'[t]),
           CreateOK(w, msess'), WriteOK(w, msess', retrieval'),
           \A p \in Slots : p # q => /\ CreateOK(msReq[p], msess')
                                     /\ WriteOK(msReq[p], msess', retrieval')
                                     /\ Apart(w, msReq[p])
    PROVE  MsIInv'
<1>1. /\ msReq' \in [Slots -> MsRequest] /\ msReq'[q] = w
      /\ \A p \in Slots : p # q => msReq'[p] = msReq[p]
  BY MsTypes DEF SetOf
<1>2. EngIInv'
  BY EngInvStep DEF MsIInv
<1>3. MsTypeOK' /\ msNow' \in Nat
  <2>1. \A p \in Slots : msReq'[p].pc \in {"idle", "invite", "create", "write"}
    BY <1>1, RequestIs
  <2> QED
    BY <2>1, MsTypes DEF MsTypeOK
<1>4. \A p \in Slots : CreateOK(msReq'[p], msess') /\ WriteOK(msReq'[p], msess', retrieval')
  BY <1>1
<1>5. \A o, p \in Slots : o # p => Apart(msReq'[o], msReq'[p])
  BY <1>1 DEF MsIInv, Apart
<1>6. \A s \in MSessions : RowOK(msess'[s], retrieval'[s])
  BY DEF MsIInv
<1> QED
  BY <1>1, <1>2, <1>3, <1>4, <1>5, <1>6 DEF MsIInv

\* A step that only changes the request of slot q.
LEMMA RequestStep ==
    ASSUME MsIInv, NEW q \in Slots, NEW w \in MsRequest, msReq' = SetOf(q, w, msReq),
           MSessions # {}, UNCHANGED <<engVars, msNow, platform, msess, retrieval>>,
           booked' \cup invited' \subseteq MSessions,
           CreateOK(w, msess), WriteOK(w, msess, retrieval),
           \A p \in Slots : p # q => Apart(w, msReq[p])
    PROVE  MsIInv'
<1>1. PICK t \in MSessions : TRUE
  OBVIOUS
<1>2. RowOK(msess[t], retrieval[t])
  BY DEF MsIInv
<1>3. \A p \in Slots : CreateOK(msReq[p], msess) /\ WriteOK(msReq[p], msess, retrieval)
  BY DEF MsIInv
<1>4. msess \in [MSessions -> MentoringSession] /\ retrieval \in [MSessions -> RetrievalJob]
  BY MsTypes
<1> QED
  BY <1>2, <1>3, <1>4, MsStep

\* A session is scheduled: nobody else creates it.
LEMMA CreateHolds ==
    ASSUME MsIInv, NEW q \in Slots, NEW u \in Users, NEW s \in MSessions,
           NEW at \in {1, MsMaxClock}, NEW pasted \in BOOLEAN,
           post_session_create(q, u, s, at, pasted)
    PROVE  MsIInv'
<1>1. PICK made \in _created_meeting_or_none(pasted) :
         /\ booked' = booked \cup (IF made.meeting THEN {s} ELSE {})
         /\ msReq' = SetOf(q, [pc |-> "invite", s |-> s, filled |-> eng.filled,
                  row |-> [version |-> 1, live |-> TRUE, at |-> at,
                           meeting |-> made.meeting, link |-> made.link, entered |-> FALSE,
                           text |-> <<>>, drafts |-> FALSE]], msReq)
  BY DEF post_session_create
<1> DEFINE row == [version |-> 1, live |-> TRUE, at |-> at, meeting |-> made.meeting,
                   link |-> made.link, entered |-> FALSE, text |-> <<>>, drafts |-> FALSE]
           w == [pc |-> "invite", s |-> s, filled |-> eng.filled, row |-> row]
<1>2. made.meeting \in BOOLEAN /\ made.link \in BOOLEAN
  <2>1. \E x, y \in BOOLEAN : made = [link |-> x, meeting |-> y]
    BY Zenon DEF _created_meeting_or_none
  <2>2. PICK x \in BOOLEAN, y \in BOOLEAN : made = [link |-> x, meeting |-> y]
    BY <2>1
  <2>3. made.meeting = y /\ made.link = x
    BY <2>2
  <2> QED
    BY <2>3
<1>3. row \in MentoringSession /\ row.version = 1 /\ row.live /\ row.text = <<>>
  <2>1. <<>> \in Transcript /\ at \in Nat
    BY DEF Transcript
  <2> QED
    BY <1>2, <2>1 DEF MentoringSession
<1> HIDE DEF row
<1>4. eng.filled \in SUBSET MergeFields
  BY DEF MsIInv, EngIInv, EngTypeOK, Engagement, MergeFields
<1>5. w \in NewMsRequest /\ w \in MsRequest /\ w.s = s /\ w.row = row /\ w.pc = "invite"
  BY <1>3, <1>4 DEF NewMsRequest, MsRequest
<1>6. msReq' = SetOf(q, w, msReq)
  BY <1>1 DEF row
<1> HIDE DEF w
<1>7. CreateOK(w, msess)
  BY <1>3, <1>5, MsTypes DEF CreateOK, post_session_create, Exists
<1>8. WriteOK(w, msess, retrieval)
  BY <1>5, RequestIs DEF WriteOK
<1>9. ASSUME NEW p \in Slots PROVE Apart(w, msReq[p])
  <2>1. msReq[p] \in NewMsRequest => msReq[p].s # s
    BY MsTypes, RequestIs DEF post_session_create
  <2>2. w \notin WriteMsRequest
    BY <1>5, RequestIs
  <2> QED
    BY <1>5, <2>1, <2>2 DEF Apart
<1>10. booked' \cup invited' \subseteq MSessions
  BY <1>1, MsTypes DEF post_session_create
<1>11. UNCHANGED <<engVars, msNow, platform, msess, retrieval>>
  BY DEF post_session_create
<1> QED
  BY <1>5, <1>6, <1>7, <1>8, <1>9, <1>10, <1>11, RequestStep

\* The invite goes out, is skipped, or ends the request.
LEMMA InviteHolds ==
    ASSUME MsIInv, NEW q \in Slots, _send_session_invite(q)
    PROVE  MsIInv'
<1> DEFINE w == msReq[q]
           c == [pc |-> "create", s |-> w.s, row |-> w.row]
<1>1. w \in NewMsRequest /\ w \in MsRequest /\ w.s \in MSessions /\ w.row \in MentoringSession
  BY MsTypes, RequestIs, IdleIs DEF _send_session_invite, Idle
<1>2. /\ msReq' = SetOf(q, c, msReq) \/ msReq' = SetOf(q, Idle, msReq)
      /\ invited' \subseteq invited \cup {w.s}
      /\ UNCHANGED <<engVars, msNow, msess, retrieval, platform, booked>>
  BY DEF _send_session_invite
<1>3. /\ c \in NewMsRequest /\ c \in MsRequest /\ c.s = w.s /\ c.row = w.row
      /\ c \notin WriteMsRequest
  <2>1. c \in NewMsRequest /\ c.pc = "create"
    BY <1>1 DEF NewMsRequest
  <2> QED
    BY <2>1, RequestIs DEF MsRequest
<1> HIDE DEF c
<1>4. CreateOK(c, msess) /\ WriteOK(c, msess, retrieval)
  BY <1>1, <1>3 DEF MsIInv, CreateOK, WriteOK
<1>5. \A p \in Slots : p # q => Apart(c, msReq[p])
  BY <1>1, <1>3 DEF MsIInv, Apart
<1>6. booked' \cup invited' \subseteq MSessions /\ MSessions # {}
  BY <1>1, <1>2, MsTypes
<1>7. /\ CreateOK(Idle, msess) /\ WriteOK(Idle, msess, retrieval)
      /\ \A p \in Slots : Apart(Idle, msReq[p])
  BY IdleIs DEF CreateOK, WriteOK, Apart
<1> QED
  BY <1>2, <1>3, <1>4, <1>5, <1>6, <1>7, IdleIs, RequestStep

\* The session is created together with its retrieval job.
LEMMA CommitHolds ==
    ASSUME MsIInv, NEW q \in Slots, CommitSession(q)
    PROVE  MsIInv'
<1> DEFINE w == msReq[q]
           t == w.s
           job == [state |-> "queued", tries |-> 0]
<1>1. w \in NewMsRequest /\ w \in MsRequest /\ t \in MSessions /\ w.row \in MentoringSession
  BY MsTypes, RequestIs, IdleIs DEF CommitSession, Idle
<1>2. /\ msess[t].version = 0 /\ w.row.version = 1 /\ w.row.live /\ w.row.text = <<>>
      /\ retrieval[t].state = "none"
  BY <1>1 DEF MsIInv, CreateOK, RowOK
<1>3. /\ msess' = SetOf(t, w.row, msess) /\ msReq' = SetOf(q, Idle, msReq)
      /\ retrieval' = IF w.row.meeting THEN SetOf(t, job, retrieval) ELSE retrieval
      /\ UNCHANGED <<engVars, msNow, platform, booked, invited>>
  BY DEF CommitSession
<1>4. job \in RetrievalJob /\ job.state = "queued" /\ job.tries < RetrievalTries
  BY DEF RetrievalJob
<1> HIDE DEF job
<1>5. /\ msess' \in [MSessions -> MentoringSession] /\ retrieval' \in [MSessions -> RetrievalJob]
      /\ msess'[t] = w.row /\ retrieval'[t] = (IF w.row.meeting THEN job ELSE retrieval[t])
      /\ \A s \in MSessions : s # t => msess'[s] = msess[s] /\ retrieval'[s] = retrieval[s]
  BY <1>1, <1>3, <1>4, MsTypes DEF SetOf
<1>6. RowOK(msess'[t], retrieval'[t])
  <2>1. w.row.meeting \in BOOLEAN
    BY <1>1 DEF MentoringSession
  <2>2. CASE w.row.meeting
    BY <1>2, <1>4, <1>5, <2>2 DEF RowOK
  <2>3. CASE ~w.row.meeting
    BY <1>2, <1>5, <2>3 DEF RowOK
  <2> QED
    BY <2>1, <2>2, <2>3
<1>7. ASSUME NEW p \in Slots, p # q
      PROVE  CreateOK(msReq[p], msess') /\ WriteOK(msReq[p], msess', retrieval')
  <2> DEFINE v == msReq[p]
  <2>1. v \in MsRequest /\ CreateOK(v, msess) /\ WriteOK(v, msess, retrieval) /\ Apart(w, v)
    BY <1>7, MsTypes DEF MsIInv
  <2>2. v \in NewMsRequest => v.s # t /\ v.s \in MSessions
    BY <1>1, <2>1 DEF Apart, NewMsRequest
  <2>3. v \in WriteMsRequest => v.s # t /\ v.s \in MSessions
    BY <1>2, <2>1 DEF WriteOK, WriteMsRequest
  <2> HIDE DEF v, w
  <2> QED
    BY <1>5, <2>1, <2>2, <2>3 DEF CreateOK, WriteOK, v
<1>8. /\ CreateOK(Idle, msess') /\ WriteOK(Idle, msess', retrieval')
      /\ \A p \in Slots : Apart(Idle, msReq[p])
  BY IdleIs DEF CreateOK, WriteOK, Apart
<1>9. booked' \cup invited' \subseteq MSessions
  BY <1>3, MsTypes
<1> HIDE DEF w, t
<1> QED
  BY <1>1, <1>3, <1>5, <1>6, <1>7, <1>8, <1>9, IdleIs, MsStep

\* A request to write what continues the row as it is now.
LEMMA ProposalHolds ==
    ASSUME MsIInv, NEW s \in MSessions, Exists(s), NEW row \in MentoringSession,
           row.version = msess[s].version, row.meeting = msess[s].meeting,
           row.live = msess[s].live, IsPrefix(msess[s].text, row.text),
           NEW job \in BOOLEAN, NEW j,
           job => j[s].state = "running" /\ "call" \in ToSet(row.text),
           NEW w, w = [pc |-> "write", s |-> s, job |-> job, row |-> Proposal(s, row)]
    PROVE  /\ w \in MsRequest /\ w \in WriteMsRequest /\ w \notin NewMsRequest
           /\ w.s = s /\ w.job = job
           /\ CreateOK(w, msess) /\ WriteOK(w, msess, j)
<1> DEFINE proposed == Proposal(s, row)
           version == row.version + 1
<1>1. msess[s].version \in Nat /\ msess[s].version > 0
  BY MsTypes DEF Exists
<1>2. /\ proposed \in MentoringSession /\ proposed.meeting = row.meeting
      /\ proposed.live = row.live /\ proposed.text = row.text
      /\ proposed.version \in {row.version, row.version + 1}
  <2>1. CASE row = msess[s]
    BY <2>1 DEF Proposal
  <2>2. CASE row # msess[s]
    <3>1. proposed = [row EXCEPT !.version = version] /\ version \in Nat
      BY <2>2 DEF Proposal, MentoringSession
    <3> HIDE DEF version, proposed
    <3> QED
      BY <3>1 DEF MentoringSession, version
  <2> QED
    BY <2>1, <2>2
<1> HIDE DEF proposed
<1>3. /\ w \in WriteMsRequest /\ w.pc = "write" /\ w.s = s /\ w.job = job /\ w.row = proposed
  BY <1>2 DEF WriteMsRequest, proposed
<1>4. w \in MsRequest /\ w \notin NewMsRequest
  BY <1>3, RequestIs DEF MsRequest
<1>5. WriteOK(w, msess, j)
  <2>1. proposed.version <= msess[s].version + 1
    BY <1>1, <1>2
  <2> QED
    BY <1>1, <1>2, <1>3, <2>1 DEF WriteOK
<1> QED
  BY <1>3, <1>4, <1>5 DEF CreateOK

\* The mentor's entry: a transcript that extends the stored one.
LEMMA PatchHolds ==
    ASSUME MsIInv, NEW q \in Slots, NEW u \in Users, NEW s \in MSessions,
           NEW wanted \in Transcript, NEW entry \in BOOLEAN, patch_session(q, u, s, wanted, entry)
    PROVE  MsIInv'
<1> DEFINE entered == msess[s].entered \/ entry
           drafts == msess[s].drafts /\ ~entry
           row == [msess[s] EXCEPT !.text = wanted, !.entered = entered, !.drafts = drafts]
           job == FALSE
           w == [pc |-> "write", s |-> s, job |-> job, row |-> Proposal(s, row)]
<1>1. msess[s] \in MentoringSession
  BY MsTypes
<1>2. msReq' = SetOf(q, w, msReq)
  <2>1. row = [msess[s] EXCEPT !.text = wanted, !.entered = @ \/ entry, !.drafts = @ /\ ~entry]
    BY <1>1 DEF MentoringSession
  <2> HIDE DEF row
  <2> QED
    BY <2>1 DEF patch_session
<1>3. /\ Exists(s) /\ IsPrefix(msess[s].text, wanted)
      /\ UNCHANGED <<engVars, msNow, platform, msess, retrieval, booked, invited>>
  BY DEF patch_session, _scoped_session, MsLive, _append_only_transcript
<1>4. entered \in BOOLEAN /\ drafts \in BOOLEAN
  BY <1>1 DEF MentoringSession
<1> HIDE DEF entered, drafts
<1>5. /\ row \in MentoringSession /\ row.version = msess[s].version
      /\ row.meeting = msess[s].meeting /\ row.live = msess[s].live /\ row.text = wanted
  BY <1>1, <1>4 DEF MentoringSession
<1> HIDE DEF row
<1>6. /\ w \in MsRequest /\ w \in WriteMsRequest /\ w \notin NewMsRequest /\ w.job = FALSE
      /\ CreateOK(w, msess) /\ WriteOK(w, msess, retrieval)
  <2>1. job \in BOOLEAN /\ job = FALSE
    OBVIOUS
  <2> HIDE DEF job
  <2>2. w = [pc |-> "write", s |-> s, job |-> job, row |-> Proposal(s, row)]
    OBVIOUS
  <2>3. /\ IsPrefix(msess[s].text, row.text)
        /\ job => retrieval[s].state = "running" /\ "call" \in ToSet(row.text)
    BY <1>3, <1>5, <2>1
  <2> HIDE DEF w
  <2>4. /\ w \in MsRequest /\ w \in WriteMsRequest /\ w \notin NewMsRequest /\ w.job = job
        /\ CreateOK(w, msess) /\ WriteOK(w, msess, retrieval)
    BY SMTT(60), <1>3, <1>5, <2>1, <2>2, <2>3, ProposalHolds
  <2> QED
    BY <2>1, <2>4
<1> HIDE DEF w
<1>7. \A p \in Slots : Apart(w, msReq[p])
  BY <1>6 DEF Apart
<1>8. booked' \cup invited' \subseteq MSessions
  BY <1>3, MsTypes
<1> QED
  BY <1>2, <1>3, <1>6, <1>7, <1>8, RequestStep

\* The request that the mentor's retrieval, or the job's, leaves.
LEMMA AttachHolds ==
    ASSUME MsIInv, NEW q \in Slots, NEW s \in MSessions, Exists(s), NEW job \in BOOLEAN, NEW j,
           platform[s] # <<>>, job => j[s].state = "running"
    PROVE  \E w \in WriteMsRequest :
              /\ attach_transcript_and_draft(q, s, job) = SetOf(q, w, msReq)
              /\ w \in MsRequest /\ w \notin NewMsRequest /\ w.s = s /\ w.job = job
              /\ CreateOK(w, msess) /\ WriteOK(w, msess, j)
<1> DEFINE text == extended_transcript(msess[s].text, platform[s])
           row == [msess[s] EXCEPT !.text = text, !.drafts = TRUE]
           w == [pc |-> "write", s |-> s, job |-> job, row |-> Proposal(s, row)]
<1>1. msess[s] \in MentoringSession /\ msess[s].text \in Transcript /\ platform[s] \in Transcript
  BY MsTypes
<1>2. text \in Transcript /\ IsPrefix(msess[s].text, text) /\ "call" \in ToSet(text)
  BY <1>1, TranscriptExtended DEF MsIInv
<1>3. attach_transcript_and_draft(q, s, job) = SetOf(q, w, msReq)
  BY DEF attach_transcript_and_draft
<1> HIDE DEF text
<1>4. /\ row \in MentoringSession /\ row.version = msess[s].version
      /\ row.meeting = msess[s].meeting /\ row.live = msess[s].live /\ row.text = text
  BY <1>1, <1>2 DEF MentoringSession
<1> HIDE DEF row
<1>5. /\ w \in MsRequest /\ w \in WriteMsRequest /\ w \notin NewMsRequest /\ w.s = s /\ w.job = job
      /\ CreateOK(w, msess) /\ WriteOK(w, msess, j)
  BY <1>2, <1>4, ProposalHolds
<1> HIDE DEF w
<1> QED
  BY <1>3, <1>5

\* A mentor's retrieval reads the session and plans the write of its transcript.
LEMMA RetrieveHolds ==
    ASSUME MsIInv, NEW q \in Slots, NEW u \in Users, NEW s \in MSessions,
           post_session_transcript(q, u, s)
    PROVE  MsIInv'
<1>1. /\ Exists(s) /\ platform[s] # <<>> /\ msReq' = attach_transcript_and_draft(q, s, FALSE)
      /\ UNCHANGED <<engVars, msNow, platform, msess, retrieval, booked, invited>>
  BY DEF post_session_transcript, _scoped_session, MsLive
<1>2. PICK w \in WriteMsRequest :
         /\ msReq' = SetOf(q, w, msReq)
         /\ w \in MsRequest /\ w \notin NewMsRequest /\ w.job = FALSE
         /\ CreateOK(w, msess) /\ WriteOK(w, msess, retrieval)
  BY <1>1, AttachHolds
<1>3. \A p \in Slots : Apart(w, msReq[p])
  BY <1>2 DEF Apart
<1>4. booked' \cup invited' \subseteq MSessions
  BY <1>1, MsTypes
<1> QED
  BY <1>1, <1>2, <1>3, <1>4, RequestStep

\* What a failed attempt leaves of a job that has tries left.
LEMMA FailedAttempt ==
    ASSUME NEW job \in RetrievalJob, job.tries < RetrievalTries, NEW permanent \in BOOLEAN
    PROVE  /\ RetryOrPark(job, permanent) \in RetrievalJob
           /\ RetryOrPark(job, permanent).state \in {"queued", "parked"}
           /\ RetryOrPark(job, permanent).state = "parked" =>
                 permanent \/ RetryOrPark(job, permanent).tries >= RetrievalTries
           /\ RetryOrPark(job, permanent).state = "queued" =>
                 RetryOrPark(job, permanent).tries < RetrievalTries
<1> DEFINE tries == job.tries + 1
           state == IF permanent \/ tries >= RetrievalTries THEN "parked" ELSE "queued"
           failed == [state |-> state, tries |-> tries]
<1>1. /\ state \in {"queued", "parked"} /\ (state = "parked" => permanent \/ tries >= RetrievalTries)
      /\ state = "queued" => tries < RetrievalTries
  BY DEF RetrievalJob
<1>2. tries \in 0 .. RetrievalTries
  BY DEF RetrievalJob
<1> HIDE DEF state, tries
<1>3. failed \in RetrievalJob
  BY <1>1, <1>2 DEF RetrievalJob
<1>4. RetryOrPark(job, permanent) = failed
  BY DEF RetryOrPark, failed, state, tries
<1> QED
  BY <1>1, <1>3, <1>4

\* A worker runs the job: only it is under way for the session.
LEMMA JobRunHolds ==
    ASSUME MsIInv, NEW q \in Slots, NEW s \in MSessions, transcript_retrieval_job(q, s)
    PROVE  MsIInv'
<1> DEFINE job == retrieval[s]
           started == [job EXCEPT !.state = "running"]
           permanent == ~msess[s].live
           failed == RetryOrPark(job, permanent)
<1>1. /\ job \in RetrievalJob /\ job.state = "queued" /\ job.tries < RetrievalTries
      /\ job.tries \in Nat /\ RowOK(msess[s], job)
  <2>1. job \in RetrievalJob /\ job.state = "queued" /\ RowOK(msess[s], job)
    BY MsTypes DEF transcript_retrieval_job, MsIInv
  <2> QED
    BY <2>1 DEF RowOK, RetrievalJob
<1>2. started \in RetrievalJob /\ started.state = "running" /\ started.tries = job.tries
  BY <1>1 DEF RetrievalJob
<1>3. permanent \in BOOLEAN
  OBVIOUS
<1>4. /\ failed \in RetrievalJob /\ failed.state \in {"queued", "parked"}
      /\ failed.state = "parked" => permanent \/ failed.tries >= RetrievalTries
      /\ failed.state = "queued" => failed.tries < RetrievalTries
  <2> HIDE DEF job, permanent
  <2> QED
    BY <1>1, <1>3, FailedAttempt
<1>5. /\ UNCHANGED <<engVars, msNow, msess, platform, booked, invited>> /\ Exists(s)
      /\ msess[s].version > 0
  <2>1. msess[s].version \in Nat /\ msess[s].version # 0
    BY <1>1, MsTypes DEF RowOK
  <2> QED
    BY <2>1 DEF transcript_retrieval_job, Exists
<1>6. \/ UNCHANGED msReq /\ retrieval' = SetOf(s, failed, retrieval)
      \/ /\ platform[s] # <<>> /\ retrieval' = SetOf(s, started, retrieval)
         /\ msReq' = attach_transcript_and_draft(q, s, TRUE)
  BY DEF transcript_retrieval_job
<1> HIDE DEF started, failed
<1>8. ASSUME NEW next \in RetrievalJob, retrieval' = SetOf(s, next, retrieval),
             NEW w \in MsRequest, msReq' = SetOf(q, w, msReq),
             next.state \in {"running", "queued", "parked"}, RowOK(msess[s], next),
             CreateOK(w, msess), WriteOK(w, msess, retrieval'), w \notin NewMsRequest,
             w \in WriteMsRequest /\ w.job => w.s = s
      PROVE  MsIInv'
  <2>1. /\ retrieval' \in [MSessions -> RetrievalJob] /\ retrieval'[s] = next
        /\ \A t \in MSessions : t # s => retrieval'[t] = retrieval[t]
    BY <1>8, MsTypes DEF SetOf
  <2>2. ASSUME NEW p \in Slots, msReq[p] \in WriteMsRequest, msReq[p].job PROVE msReq[p].s # s
    BY <1>1, <2>2 DEF MsIInv, WriteOK
  <2>3. ASSUME NEW p \in Slots, p # q
        PROVE  /\ CreateOK(msReq[p], msess) /\ WriteOK(msReq[p], msess, retrieval')
               /\ Apart(w, msReq[p])
    <3>1. CreateOK(msReq[p], msess) /\ WriteOK(msReq[p], msess, retrieval) /\ Apart(msReq[q], msReq[p])
      BY <2>3 DEF MsIInv
    <3>2. msReq[p] \in WriteMsRequest => msReq[p].s \in MSessions
      BY DEF WriteMsRequest
    <3>3. WriteOK(msReq[p], msess, retrieval')
      BY <2>1, <2>2, <3>1, <3>2 DEF WriteOK
    <3>4. Apart(w, msReq[p])
      BY <1>8, <2>2, <3>1 DEF Apart
    <3> QED
      BY <3>1, <3>3, <3>4
  <2>4. booked' \cup invited' \subseteq MSessions /\ msess' \in [MSessions -> MentoringSession]
    BY <1>5, MsTypes
  <2>5. UNCHANGED <<engVars, msNow, platform, msess>>
    BY <1>5
  <2> QED
    BY <1>8, <2>1, <2>3, <2>4, <2>5, MsStep
<1>9. ASSUME NEW next \in RetrievalJob, retrieval' = SetOf(s, next, retrieval), UNCHANGED msReq,
             next.state \in {"queued", "parked"}, RowOK(msess[s], next),
             msReq[q] = Idle
      PROVE  MsIInv'
  <2>1. CreateOK(Idle, msess) /\ WriteOK(Idle, msess, retrieval')
    BY IdleIs DEF CreateOK, WriteOK
  <2>2. msReq' = SetOf(q, Idle, msReq)
    BY <1>9, MsTypes DEF SetOf
  <2> QED
    BY <1>8, <1>9, <2>1, <2>2, IdleIs
<1>10. msReq[q] = Idle
  BY DEF transcript_retrieval_job
<1>11. msess[s].meeting
  BY <1>1, <1>5 DEF RowOK
<1>13. CASE UNCHANGED msReq /\ retrieval' = SetOf(s, failed, retrieval)
  <2>1. RowOK(msess[s], failed)
    BY <1>4, <1>5, <1>11 DEF RowOK
  <2> QED
    BY <1>4, <1>9, <1>10, <1>13, <2>1
<1>14. CASE /\ platform[s] # <<>> /\ retrieval' = SetOf(s, started, retrieval)
            /\ msReq' = attach_transcript_and_draft(q, s, TRUE)
  <2>1. RowOK(msess[s], started)
    BY <1>1, <1>2, <1>5, <1>11 DEF RowOK
  <2>2. retrieval'[s].state = "running"
    BY <1>2, <1>14, MsTypes DEF SetOf
  <2>3. PICK w \in WriteMsRequest :
           /\ msReq' = SetOf(q, w, msReq)
           /\ w \in MsRequest /\ w \notin NewMsRequest /\ w.s = s
           /\ CreateOK(w, msess) /\ WriteOK(w, msess, retrieval')
    BY <1>5, <1>14, <2>2, AttachHolds
  <2> QED
    BY <1>2, <1>8, <1>14, <2>1, <2>3
<1> QED
  BY <1>6, <1>13, <1>14

\* The row as a request left it, once it has been written.
LEMMA RowGrows ==
    ASSUME MsIInv, NEW w \in WriteMsRequest, w.s \in MSessions, NEW row \in MentoringSession,
           WriteOK(w, msess, retrieval),
           \/ row = msess[w.s]
           \/ row = w.row /\ row.version = msess[w.s].version + 1,
           NEW job \in RetrievalJob, job.state # "none",
           retrieval[w.s].state # "none",
           job.state = "succeeded" => \/ retrieval[w.s].state = "succeeded"
                                      \/ "call" \in ToSet(row.text),
           job.state = "parked" => retrieval[w.s] = job \/ job.tries >= RetrievalTries,
           job.state \in {"queued", "running"} => job.tries < RetrievalTries
    PROVE  RowOK(row, job)
<1> DEFINE a == msess[w.s]
<1>1. /\ RowOK(a, retrieval[w.s]) /\ a.version > 0 /\ a.version \in Nat
      /\ a.text \in Transcript /\ row.text \in Transcript
  BY MsTypes DEF MsIInv, WriteOK, MentoringSession
<1>2. row.version > 0 /\ row.meeting = a.meeting /\ row.live = a.live
  BY <1>1 DEF WriteOK
<1>3. ToSet(a.text) \subseteq ToSet(row.text)
  BY <1>1, PrefixKeeps, PrefixOfItself DEF WriteOK
<1> QED
  BY <1>1, <1>2, <1>3 DEF RowOK

\* A write lands on the row it read, or is turned down.
LEMMA WriteHolds ==
    ASSUME MsIInv, NEW q \in Slots, WriteSession(q)
    PROVE  MsIInv'
<1> DEFINE w == msReq[q]
           t == w.s
           lands == w.row = msess[t] \/ w.row.version = msess[t].version + 1
           row == IF lands THEN w.row ELSE msess[t]
           done == [retrieval[t] EXCEPT !.state = "succeeded"]
           job == IF ~w.job THEN retrieval[t]
                  ELSE IF lands THEN done ELSE RetryOrPark(retrieval[t], FALSE)
<1>1. /\ w \in WriteMsRequest /\ w \in MsRequest /\ t \in MSessions /\ w.row \in MentoringSession
      /\ w.job \in BOOLEAN /\ WriteOK(w, msess, retrieval)
  BY MsTypes, RequestIs, IdleIs DEF WriteSession, MsIInv, Idle
<1>2. /\ msess' = IF lands THEN SetOf(t, w.row, msess) ELSE msess
      /\ retrieval' = IF ~w.job THEN retrieval
                      ELSE IF lands THEN [retrieval EXCEPT ![t].state = "succeeded"]
                      ELSE SetOf(t, RetryOrPark(retrieval[t], FALSE), retrieval)
      /\ msReq' = SetOf(q, Idle, msReq)
      /\ UNCHANGED <<engVars, msNow, platform, booked, invited>>
  BY DEF WriteSession
<1>3. /\ msess[t] \in MentoringSession /\ retrieval[t] \in RetrievalJob /\ msess[t].version \in Nat
      /\ msess \in [MSessions -> MentoringSession] /\ retrieval \in [MSessions -> RetrievalJob]
  BY <1>1, MsTypes
<1>4. /\ row \in MentoringSession
      /\ \/ row = msess[t]
         \/ row = w.row /\ row.version = msess[t].version + 1
  <2>1. CASE lands
    <3>1. row = w.row
      BY <2>1
    <3> HIDE DEF row
    <3> QED
      BY <1>1, <2>1, <3>1
  <2>2. CASE ~lands
    BY <1>3, <2>2
  <2> QED
    BY <2>1, <2>2
<1>5. done \in RetrievalJob /\ done.state = "succeeded" /\ done.tries = retrieval[t].tries
  BY <1>3 DEF RetrievalJob
<1> DEFINE failed == RetryOrPark(retrieval[t], FALSE)
<1>6. w.job => /\ failed \in RetrievalJob /\ failed.state \in {"queued", "parked"}
               /\ failed.state = "parked" => failed.tries >= RetrievalTries
               /\ failed.state = "queued" => failed.tries < RetrievalTries
  <2> SUFFICES ASSUME w.job PROVE retrieval[t].tries < RetrievalTries
    BY <1>3, FailedAttempt
  <2>1. retrieval[t].state = "running" /\ RowOK(msess[t], retrieval[t])
    BY <1>1 DEF WriteOK, MsIInv
  <2> QED
    BY <2>1 DEF RowOK
<1> HIDE DEF failed
<1> HIDE DEF done
<1>7. /\ msess' \in [MSessions -> MentoringSession] /\ msess'[t] = row
      /\ \A s \in MSessions : s # t => msess'[s] = msess[s]
  BY <1>1, <1>2, <1>3, <1>4 DEF SetOf
<1>8. /\ retrieval' \in [MSessions -> RetrievalJob] /\ retrieval'[t] = job
      /\ \A s \in MSessions : s # t => retrieval'[s] = retrieval[s]
  <2>1. CASE ~w.job
    BY <1>1, <1>2, <1>3, <2>1
  <2>2. CASE w.job /\ lands
    <3>1. retrieval' = [retrieval EXCEPT ![t] = done]
      BY <1>1, <1>2, <1>3, <2>2 DEF done, RetrievalJob
    <3> QED
      BY <1>1, <1>3, <1>5, <2>2, <3>1
  <2>3. CASE w.job /\ ~lands
    BY <1>1, <1>2, <1>3, <1>6, <2>3 DEF SetOf, failed
  <2> QED
    BY <1>1, <2>1, <2>2, <2>3
<1>9. RowOK(row, job)
  <2>1. msess[t].version > 0 /\ RowOK(msess[t], retrieval[t])
    BY <1>1 DEF MsIInv, WriteOK
  <2>2. CASE retrieval[t].state = "none"
    <3>1. ~w.job /\ ~msess[t].meeting
      BY <1>1, <1>3, <2>1, <2>2 DEF WriteOK, RowOK, MentoringSession
    <3>2. job = retrieval[t] /\ row.meeting = msess[t].meeting /\ row.version > 0
      BY <1>1, <1>3, <1>4, <2>1, <3>1 DEF WriteOK
    <3> QED
      BY <2>2, <3>1, <3>2 DEF RowOK
  <2>3. CASE retrieval[t].state # "none"
    <3>1. CASE ~w.job
      <4>1. job = retrieval[t]
        BY <3>1
      <4>2. job.state \in {"queued", "running"} => job.tries < RetrievalTries
        BY <2>1, <4>1 DEF RowOK
      <4> HIDE DEF job, row, w
      <4> QED
        BY <1>1, <1>3, <1>4, <2>3, <4>1, <4>2, RowGrows
    <3>2. CASE w.job /\ lands
      <4>1. job = done /\ row = w.row /\ "call" \in ToSet(row.text)
        BY <1>1, <3>2 DEF WriteOK
      <4> HIDE DEF job, row, w
      <4> QED
        BY <1>1, <1>3, <1>4, <1>5, <2>3, <4>1, RowGrows
    <3>3. CASE w.job /\ ~lands
      <4>1. job = failed
        BY <3>3 DEF failed
      <4> HIDE DEF job, row, w
      <4> QED
        BY <1>1, <1>3, <1>4, <1>6, <2>3, <3>3, <4>1, RowGrows
    <3> QED
      BY <1>1, <3>1, <3>2, <3>3
  <2> QED
    BY <2>2, <2>3
<1>10. ASSUME NEW p \in Slots, p # q
       PROVE  CreateOK(msReq[p], msess') /\ WriteOK(msReq[p], msess', retrieval')
  <2> DEFINE v == msReq[p]
  <2>1. /\ v \in MsRequest /\ CreateOK(v, msess) /\ WriteOK(v, msess, retrieval)
        /\ Apart(w, v) /\ Apart(v, w)
    BY <1>10, MsTypes DEF MsIInv
  <2>2. CreateOK(v, msess')
    <3>1. v \in NewMsRequest => v.s # t /\ v.s \in MSessions
      BY <1>1, <2>1 DEF CreateOK, WriteOK, NewMsRequest
    <3> QED
      BY <1>7, <2>1, <3>1 DEF CreateOK
  <2>3. v \in WriteMsRequest => v.s \in MSessions /\ v.job \in BOOLEAN
    BY DEF WriteMsRequest
  <2>4. v \in WriteMsRequest =>
           \/ msess'[v.s] = msess[v.s]
           \/ msess'[v.s].version = msess[v.s].version + 1 /\ msess'[v.s].meeting = msess[v.s].meeting
    BY <1>1, <1>4, <1>7, <2>3 DEF WriteOK
  <2>5. v \in WriteMsRequest /\ v.job => retrieval'[v.s].state = "running"
    <3> SUFFICES ASSUME v \in WriteMsRequest, v.job PROVE retrieval'[v.s].state = "running"
      OBVIOUS
    <3>1. retrieval[v.s].state = "running"
      BY <2>1 DEF WriteOK
    <3>2. CASE w.job
      BY <1>1, <1>8, <2>1, <2>3, <3>1, <3>2 DEF Apart
    <3>3. CASE ~w.job
      BY <1>2, <3>1, <3>3
    <3> QED
      BY <1>1, <3>2, <3>3
  <2>6. v \in WriteMsRequest =>
           /\ \/ msess'[v.s] = msess[v.s]
              \/ /\ msess'[v.s].version = msess[v.s].version + 1
                 /\ msess'[v.s].meeting = msess[v.s].meeting
           /\ v.job => retrieval'[v.s].state = "running"
    BY <2>4, <2>5
  <2> HIDE DEF v, w, row
  <2>7. WriteOK(v, msess', retrieval')
    BY <1>3, <1>7, <2>1, <2>6, WriteLapses
  <2> QED
    BY <2>2, <2>7 DEF v
<1>11. /\ CreateOK(Idle, msess') /\ WriteOK(Idle, msess', retrieval')
       /\ \A p \in Slots : Apart(Idle, msReq[p])
  BY IdleIs DEF CreateOK, WriteOK, Apart
<1>12. /\ booked' \cup invited' \subseteq MSessions
       /\ msReq' = SetOf(q, Idle, msReq) /\ UNCHANGED <<engVars, msNow, platform>>
  BY <1>2, MsTypes
<1>13. RowOK(msess'[t], retrieval'[t])
  BY <1>7, <1>8, <1>9
<1> HIDE DEF w, t
<1> QED
  BY <1>1, <1>7, <1>8, <1>10, <1>11, <1>12, <1>13, IdleIs, MsStep

\* A session is cancelled: whatever was read of it lapses.
LEMMA CancelHolds ==
    ASSUME MsIInv, NEW t \in MSessions, CancelSession(t)
    PROVE  MsIInv'
<1> DEFINE version == msess[t].version + 1
           row == [msess[t] EXCEPT !.live = FALSE, !.version = version]
<1>1. /\ Exists(t) /\ UNCHANGED <<engVars, msNow, msReq, retrieval, platform, booked, invited>>
  BY DEF CancelSession, MsLive
<1>2. /\ msess \in [MSessions -> MentoringSession] /\ msess[t].version \in Nat
      /\ msess[t].version > 0 /\ RowOK(msess[t], retrieval[t])
  BY <1>1, MsTypes DEF Exists, MsIInv
<1>3. msess' = [msess EXCEPT ![t] = row] /\ version \in Nat
  BY <1>2 DEF CancelSession, MentoringSession
<1>4. /\ row \in MentoringSession /\ row.version = msess[t].version + 1
      /\ row.meeting = msess[t].meeting /\ row.text = msess[t].text /\ row.live = FALSE
  <2> HIDE DEF version
  <2>1. /\ row \in MentoringSession /\ row.version = version
        /\ row.meeting = msess[t].meeting /\ row.text = msess[t].text /\ row.live = FALSE
    BY <1>2, <1>3 DEF MentoringSession
  <2> QED
    BY <2>1 DEF version
<1> HIDE DEF version, row
<1>5. /\ msess' \in [MSessions -> MentoringSession] /\ msess'[t] = row
      /\ \A s \in MSessions : s # t => msess'[s] = msess[s]
  BY <1>2, <1>3, <1>4
<1>6. \A s \in MSessions : RowOK(msess'[s], retrieval'[s])
  <2>1. RowOK(row, retrieval[t])
    BY <1>2, <1>4 DEF RowOK
  <2> QED
    BY <1>1, <1>5, <2>1 DEF MsIInv
<1>7. ASSUME NEW q \in Slots PROVE CreateOK(msReq[q], msess') /\ WriteOK(msReq[q], msess', retrieval)
  <2>1. /\ msReq[q] \in MsRequest /\ CreateOK(msReq[q], msess) /\ WriteOK(msReq[q], msess, retrieval)
        /\ msReq[q] \in NewMsRequest => msReq[q].s \in MSessions
        /\ msReq[q] \in WriteMsRequest => msReq[q].s \in MSessions
    BY MsTypes DEF MsIInv, NewMsRequest, WriteMsRequest
  <2>2. CreateOK(msReq[q], msess')
    BY <1>2, <1>5, <2>1 DEF CreateOK
  <2>3. msReq[q] \in WriteMsRequest =>
           /\ \/ msess'[msReq[q].s] = msess[msReq[q].s]
              \/ /\ msess'[msReq[q].s].version = msess[msReq[q].s].version + 1
                 /\ msess'[msReq[q].s].meeting = msess[msReq[q].s].meeting
           /\ msReq[q].job => retrieval[msReq[q].s].state = "running"
    BY <1>4, <1>5, <2>1 DEF WriteOK
  <2>4. WriteOK(msReq[q], msess', retrieval)
    BY <1>2, <1>5, <2>1, <2>3, WriteLapses
  <2> QED
    BY <2>2, <2>4
<1>8. EngIInv'
  BY <1>1, EngInvStep DEF MsIInv
<1> QED
  BY <1>1, <1>5, <1>6, <1>7, <1>8 DEF MsIInv, MsTypeOK

\* The platform has a transcript, or has processed the call again.
LEMMA PlatformHolds ==
    ASSUME MsIInv, NEW t \in MSessions, PlatformTranscript(t)
    PROVE  MsIInv'
<1> DEFINE text == IF platform[t] = <<>> THEN <<"call">> ELSE <<"call", "callAgain">>
<1>1. /\ platform' = [platform EXCEPT ![t] = text] /\ platform \in [MSessions -> Transcript]
      /\ UNCHANGED <<engVars, msNow, msess, msReq, retrieval, booked, invited>>
  BY MsTypes DEF PlatformTranscript
<1>2. text \in Transcript /\ "call" \in ToSet(text)
  <2> DEFINE one == <<"call">>
             two == <<"call", "callAgain">>
  <2>1. one \in Transcript /\ 1 \in DOMAIN one /\ one[1] = "call"
    BY DEF Transcript
  <2>2. two \in Transcript /\ 1 \in DOMAIN two /\ two[1] = "call"
    BY DEF Transcript
  <2>3. text = one \/ text = two
    OBVIOUS
  <2> HIDE DEF one, two, text
  <2> QED
    BY <2>1, <2>2, <2>3 DEF ToSet
<1> HIDE DEF text
<1>3. /\ platform' \in [MSessions -> Transcript]
      /\ \A s \in MSessions : platform'[s] # <<>> => "call" \in ToSet(platform'[s])
  BY <1>1, <1>2 DEF MsIInv
<1>4. EngIInv'
  BY <1>1, EngInvStep DEF MsIInv
<1> QED
  BY <1>1, <1>3, <1>4 DEF MsIInv, MsTypeOK

\* The processes end: nothing is under way, and a claimed job is queued again.
LEMMA MsCrashHolds ==
    ASSUME MsIInv, MsCrash
    PROVE  MsIInv'
<1>1. /\ msReq' = [q \in Slots |-> Idle]
      /\ retrieval' = [s \in MSessions |->
            [retrieval[s] EXCEPT !.state = IF @ = "running" THEN "queued" ELSE @]]
      /\ UNCHANGED <<engVars, msNow, msess, platform, booked, invited>>
  BY DEF MsCrash
<1>2. ASSUME NEW s \in MSessions
      PROVE  retrieval'[s] \in RetrievalJob /\ RowOK(msess[s], retrieval'[s])
  <2>1. retrieval[s] \in RetrievalJob /\ RowOK(msess[s], retrieval[s])
    BY MsTypes DEF MsIInv
  <2> DEFINE state == IF retrieval[s].state = "running" THEN "queued" ELSE retrieval[s].state
             next == [retrieval[s] EXCEPT !.state = state]
  <2>3. retrieval'[s] = next
    BY <1>1, <2>1 DEF RetrievalJob
  <2>6. \/ state = retrieval[s].state
        \/ retrieval[s].state = "running" /\ state = "queued"
    OBVIOUS
  <2> HIDE DEF state
  <2>2. state \in {"none", "queued", "running", "succeeded", "parked"}
    BY <2>1, <2>6 DEF RetrievalJob
  <2>4. next \in RetrievalJob /\ next.state = state /\ next.tries = retrieval[s].tries
    BY <2>1, <2>2 DEF RetrievalJob
  <2> HIDE DEF next
  <2>5. RowOK(msess[s], next)
    BY <2>1, <2>6, <2>4, MsTypes DEF RowOK
  <2> QED
    BY <2>3, <2>4, <2>5
<1>3. retrieval' \in [MSessions -> RetrievalJob]
  BY <1>1, <1>2
<1>4. /\ msReq' \in [Slots -> MsRequest]
      /\ \A q \in Slots : msReq'[q] = Idle /\ msReq'[q].pc = "idle"
  BY <1>1, IdleIs DEF Idle
<1>5. /\ \A q \in Slots : CreateOK(msReq'[q], msess) /\ WriteOK(msReq'[q], msess, retrieval')
      /\ \A p, q \in Slots : Apart(msReq'[p], msReq'[q])
  BY <1>4, IdleIs DEF CreateOK, WriteOK, Apart
<1>6. EngIInv'
  BY <1>1, EngInvStep DEF MsIInv
<1> QED
  BY <1>1, <1>2, <1>3, <1>4, <1>5, <1>6 DEF MsIInv, MsTypeOK

\* Sessions before the first request, with and without a meeting link.
LEMMA MsInvInit ==
    ASSUME EngInit, MsOnlyInit
    PROVE  MsIInv
<1>1. EngIInv
  BY EngInvInit
<1>2. PICK old \in SUBSET MSessions :
         msess = [s \in MSessions |->
            [version |-> IF s \in old THEN 1 ELSE 0, live |-> s \in old,
             at |-> IF s \in old THEN 1 ELSE 0, meeting |-> FALSE, link |-> s \in old,
             entered |-> s \in old, text |-> <<>>, drafts |-> FALSE]]
  BY DEF MsOnlyInit
<1>3. <<>> \in Transcript
  BY DEF Transcript
<1>4. ASSUME NEW s \in MSessions
      PROVE  msess[s] \in MentoringSession /\ msess[s].text = <<>> /\ msess[s].meeting = FALSE
  <2> DEFINE n == IF s \in old THEN 1 ELSE 0
             there == s \in old
             row == [version |-> n, live |-> there, at |-> n, meeting |-> FALSE, link |-> there,
                     entered |-> there, text |-> <<>>, drafts |-> FALSE]
  <2>1. n \in Nat /\ there \in BOOLEAN /\ msess[s] = row
    BY <1>2
  <2> HIDE DEF n, there
  <2>2. row \in MentoringSession /\ row.text = <<>> /\ row.meeting = FALSE
    BY <1>3, <2>1 DEF MentoringSession
  <2> QED
    BY <2>1, <2>2
<1>5. msess \in [MSessions -> MentoringSession]
  BY <1>2, <1>4
<1>6. /\ msReq \in [Slots -> MsRequest] /\ \A q \in Slots : msReq[q] = Idle /\ msReq[q].pc = "idle"
  BY IdleIs DEF MsOnlyInit, Idle
<1>7. /\ retrieval \in [MSessions -> RetrievalJob] /\ \A s \in MSessions : retrieval[s].state = "none"
  BY DEF MsOnlyInit, RetrievalJob
<1>8. /\ platform \in [MSessions -> Transcript] /\ \A s \in MSessions : platform[s] = <<>>
      /\ msNow = 0 /\ booked = {} /\ invited = {}
  BY <1>3 DEF MsOnlyInit
<1>9. \A s \in MSessions : RowOK(msess[s], retrieval[s])
  BY <1>4, <1>7 DEF RowOK
<1>10. /\ \A q \in Slots : CreateOK(msReq[q], msess) /\ WriteOK(msReq[q], msess, retrieval)
       /\ \A p, q \in Slots : Apart(msReq[p], msReq[q])
  BY <1>6, IdleIs DEF CreateOK, WriteOK, Apart
<1>11. MsTypeOK
  BY <1>5, <1>6, <1>7, <1>8 DEF MsTypeOK
<1> QED
  BY <1>1, <1>6, <1>8, <1>9, <1>10, <1>11 DEF MsIInv

\* What a mentor pastes is a transcript.
LEMMA PastedIs ==
    ASSUME MsIInv, NEW s \in MSessions
    PROVE  Pasted(s) \subseteq Transcript /\ msess[s].text \in Transcript
<1>1. msess[s].text \in Transcript
  BY MsTypes
<1>2. Append(msess[s].text, "paste") \in Transcript /\ <<"paste">> \in Transcript /\ <<>> \in Transcript
  BY <1>1 DEF Transcript
<1> QED
  BY <1>1, <1>2 DEF Pasted

\* Every step on the sessions keeps the invariant.
LEMMA MsInvStep ==
    ASSUME MsIInv, [MsNext]_msVars
    PROVE  MsIInv'
<1>1. CASE UNCHANGED msVars
  <2>1. EngIInv'
    BY <1>1, EngInvStep DEF MsIInv, msVars
  <2> QED
    BY <1>1, <2>1 DEF msVars, msOnly, MsIInv, MsTypeOK
<1>2. ASSUME NEW q \in Slots, NEW s \in MSessions, NEW u \in Users,
             \/ \E at \in {1, MsMaxClock}, pasted \in BOOLEAN : post_session_create(q, u, s, at, pasted)
             \/ post_session_transcript(q, u, s)
             \/ \E wanted \in Pasted(s) : patch_session(q, u, s, wanted, FALSE)
             \/ patch_session(q, u, s, msess[s].text, TRUE)
      PROVE  MsIInv'
  BY <1>2, CreateHolds, RetrieveHolds, PatchHolds, PastedIs
<1>3. ASSUME NEW q \in Slots, _send_session_invite(q) \/ CommitSession(q) \/ WriteSession(q)
      PROVE  MsIInv'
  BY <1>3, InviteHolds, CommitHolds, WriteHolds
<1>4. ASSUME NEW q \in Slots, NEW s \in MSessions, transcript_retrieval_job(q, s)
      PROVE  MsIInv'
  BY <1>4, JobRunHolds
<1>5. ASSUME NEW s \in MSessions, CancelSession(s) \/ PlatformTranscript(s)
      PROVE  MsIInv'
  BY <1>5, CancelHolds, PlatformHolds
<1>6. CASE MsTick
  <2>1. EngIInv' /\ msNow' \in Nat
    BY <1>6, EngInvStep, MsTypes DEF MsIInv, MsTick
  <2> QED
    BY <1>6, <2>1 DEF MsTick, MsIInv, MsTypeOK
<1>7. CASE RemoveEngagement /\ UNCHANGED msOnly
  <2>1. EngIInv'
    BY <1>7, RowWriteHolds DEF MsIInv
  <2> QED
    BY <1>7, <2>1 DEF msOnly, MsIInv, MsTypeOK
<1>8. CASE MsCrash
  BY <1>8, MsCrashHolds
<1> QED
  BY <1>1, <1>2, <1>3, <1>4, <1>5, <1>6, <1>7, <1>8 DEF MsNext

-----------------------------------------------------------------------------
\* The invariant of the sessions: a request writes what continues the row it
\* read, or has lapsed; two requests never create or retrieve the same session.
THEOREM RequestsLapse == MsSpec => []MsIInv
<1>1. MsInit => MsIInv
  BY MsInvInit DEF MsInit
<1> QED
  BY <1>1, MsInvStep, PTL DEF MsSpec

\* What the invariant says of a session and its retrieval job.
LEMMA RetrievalHolds == MsIInv => RetrievalIsNotLost
  BY MsTypes DEF MsIInv, RowOK, RetrievalIsNotLost, Exists

\* A session of an app-created meeting is never without its retrieval job, a
\* job that succeeded left the platform's text, one that gave up had to.
THEOREM RetrievalKept == MsSpec => []RetrievalIsNotLost
  BY RetrievalHolds, RequestsLapse, PTL

\* A step that changes a session extends its transcript or leaves it alone.
LEMMA TextGrows ==
    ASSUME MsIInv, MsNext, msess' # msess, NEW s \in MSessions
    PROVE  IsPrefix(msess[s].text, msess'[s].text)
<1>1. /\ msess \in [MSessions -> MentoringSession] /\ msess[s].text \in Transcript
      /\ IsPrefix(msess[s].text, msess[s].text)
  BY MsTypes, PrefixOfItself
<1>2. CASE \E q \in Slots : CommitSession(q)
  <2>1. PICK q \in Slots : CommitSession(q)
    BY <1>2
  <2> DEFINE w == msReq[q]
  <2>2. w \in NewMsRequest /\ w.s \in MSessions /\ msess' = SetOf(w.s, w.row, msess)
    BY <2>1, MsTypes, RequestIs, IdleIs DEF CommitSession, Idle
  <2>3. msess[w.s].text = <<>> /\ w.row.text = <<>>
    BY <2>2 DEF MsIInv, CreateOK, RowOK
  <2> HIDE DEF w
  <2> QED
    BY <1>1, <2>2, <2>3 DEF SetOf
<1>3. CASE \E q \in Slots : WriteSession(q)
  <2>1. PICK q \in Slots : WriteSession(q)
    BY <1>3
  <2> DEFINE w == msReq[q]
  <2>2. /\ w \in WriteMsRequest /\ w.s \in MSessions
        /\ msess' = SetOf(w.s, w.row, msess) /\ w.row.version = msess[w.s].version + 1
    <3>1. w \in WriteMsRequest /\ w.s \in MSessions
      BY <2>1, MsTypes, RequestIs, IdleIs DEF WriteSession, Idle
    <3>2. msess' # SetOf(w.s, msess[w.s], msess)
      BY <1>1 DEF SetOf
    <3> QED
      BY <2>1, <3>1, <3>2 DEF WriteSession
  <2>3. IsPrefix(msess[w.s].text, w.row.text)
    BY <2>2 DEF MsIInv, WriteOK
  <2> HIDE DEF w
  <2> QED
    BY <1>1, <2>2, <2>3 DEF SetOf
<1>4. CASE \E t \in MSessions : CancelSession(t)
  <2>1. msess'[s].text = msess[s].text
    BY <1>1, <1>4 DEF CancelSession, MentoringSession
  <2> QED
    BY <1>1, <2>1
<1>5. ASSUME NEW q \in Slots, NEW u \in Users, NEW t \in MSessions, NEW at, NEW pasted
      PROVE  ~post_session_create(q, u, t, at, pasted)
  BY DEF post_session_create
<1>6. ASSUME NEW q \in Slots, NEW u \in Users, NEW t \in MSessions
      PROVE  ~post_session_transcript(q, u, t)
  BY DEF post_session_transcript
<1>7. ASSUME NEW q \in Slots, NEW u \in Users, NEW t \in MSessions, NEW wanted, NEW entry
      PROVE  ~patch_session(q, u, t, wanted, entry)
  BY DEF patch_session
<1>8. ASSUME NEW q \in Slots PROVE ~_send_session_invite(q)
  BY DEF _send_session_invite
<1>9. ASSUME NEW q \in Slots, NEW t \in MSessions PROVE ~transcript_retrieval_job(q, t)
  BY DEF transcript_retrieval_job
<1>10. ~MsCrash /\ ~MsTick /\ ~UNCHANGED msOnly /\ \A t \in MSessions : ~PlatformTranscript(t)
  BY DEF MsCrash, MsTick, msOnly, PlatformTranscript
<1>11. \/ \E q \in Slots : CommitSession(q) \/ WriteSession(q)
       \/ \E t \in MSessions : CancelSession(t)
  BY <1>5, <1>6, <1>7, <1>8, <1>9, <1>10 DEF MsNext
<1> QED
  BY <1>2, <1>3, <1>4, <1>11

\* "A transcript is evidence": a stored transcript is only ever extended.
THEOREM TranscriptKept == MsSpec => TranscriptOnlyGrows
<1> DEFINE A == \A s \in MSessions : IsPrefix(msess[s].text, msess'[s].text)
<1>1. MsIInv /\ [MsNext]_msVars => [A]_msess
  BY TextGrows DEF msVars, msOnly
<1> QED
  BY <1>1, RequestsLapse, PTL DEF MsSpec, TranscriptOnlyGrows

\* Verbs and reads keep to the scope in every state of the invariant.
LEMMA ScopeHolds == MsIInv => ScopeIsKept
  BY MsTypes, ReadsDoAgree DEF MsIInv, EngIInv, ScopeIsKept

\* The verbs of the engagement and of its sessions, in any order.
MentoringInit == EngInit /\ MsOnlyInit
MentoringNext == MsNext \/ (EngNext /\ UNCHANGED msOnly)
MentoringSpec == MentoringInit /\ [][MentoringNext]_msVars

\* Whoever an engagement is reassigned to between a verb's check and its commit,
\* the verb changes it only while its caller still has it; and the rules by which
\* grids, lists and single records read, each written in several places, give
\* the same answer (_scoped_engagement, post_engagement_lifecycle,
\* list_engagements, engagement_triage_sql, MENTOR_DATA_SOURCES).
THEOREM ScopeAlwaysKept == MentoringSpec => []ScopeIsKept
<1>1. MentoringInit => MsIInv
  BY MsInvInit DEF MentoringInit
<1>2. MsIInv /\ [MentoringNext]_msVars => MsIInv'
  <2> SUFFICES ASSUME MsIInv, EngNext, UNCHANGED msOnly PROVE MsIInv'
    BY MsInvStep DEF MentoringNext
  <2>1. EngIInv'
    BY EngInvStep DEF MsIInv
  <2> QED
    BY <2>1 DEF msOnly, MsIInv, MsTypeOK
<1> QED
  BY <1>1, <1>2, ScopeHolds, PTL DEF MentoringSpec

=============================================================================
