-------------------------- MODULE MentoringSessions --------------------------
(***************************************************************************)
(* The sessions of one engagement: scheduling with its meeting and invite, *)
(* the mentor's entry, transcript retrieval, and the reads over them, of   *)
(* src/mentorapp/api/routers/mentoring.py over automation/transcripts.py,  *)
(* automation/conferencing.py, storage/mentoring.py and storage/triage.py. *)
(* The worker that runs the retrieval jobs is JobQueue's; here a claimed   *)
(* job is a request like any other.                                        *)
(***************************************************************************)
EXTENDS Naturals, Sequences, FiniteSets, SequencesExt, Engagements

CONSTANTS
    MSessions,       \* identifiers of sessions
    RetrievalDelay,  \* TRANSCRIPT_RETRIEVAL_DELAY
    RetrievalTries,  \* max_attempts of the retrieval job
    MsMaxClock, MsMaxWrites, MaxText,  \* bounds: time, writes of session rows, length of a text
    MsMaxNew         \* bound on the sessions that are scheduled

ASSUME MentoringSessionsAssumption ==
    /\ {RetrievalDelay, MsMaxClock, MsMaxWrites, MaxText, MsMaxNew} \subseteq Nat
    /\ RetrievalTries \in Nat \ {0}
    /\ IsFiniteSet(MSessions)

VARIABLES
    msNow,
    msess,      \* the session rows
    msReq,      \* [Slots -> request]
    retrieval,  \* the transcriptRetrieval job of each session
    platform,   \* the transcript the conference platform has of each meeting
    booked,     \* meetings that were booked on the platform
    invited     \* sessions whose invite was handed to the transport

msOnly == <<msNow, msess, msReq, retrieval, platform, booked, invited>>
msVars == <<engVars, msOnly>>

\* A transcript is the sequence of its parts: the mentor's paste, what the
\* platform produced, what it produced when it processed the call again.
Transcript == Seq({"paste", "call", "callAgain"})

\* Version 0: not created yet.  meeting: externalMeetingID is set; entered:
\* the mentor has written notes, action items or the status.
MentoringSession ==
    [version : Nat, live : BOOLEAN, at : Nat, meeting : BOOLEAN, link : BOOLEAN,
     entered : BOOLEAN, text : Transcript, drafts : BOOLEAN]

\* tries: attempts that have failed.
RetrievalJob == [state : {"none", "queued", "running", "succeeded", "parked"},
                 tries : 0 .. RetrievalTries]

Exists(s) == msess[s].version > 0
MsLive == {s \in MSessions : Exists(s) /\ msess[s].live}
MsWrites == FoldFunction(+, 0, [s \in MSessions |-> msess[s].version])
SetOf(k, v, f) == [f EXCEPT ![k] = v]

-----------------------------------------------------------------------------
_scoped_session(s, u) == s \in MsLive /\ _scoped_engagement(u)

\* What transcriptText becomes; itself when there is nothing to add.
extended_transcript(current, retrieved) ==
    IF IsPrefix(retrieved, current) THEN current
    ELSE IF IsPrefix(current, retrieved) THEN retrieved
    ELSE current \o retrieved

\* The model's guard on every assignment of transcriptText; what
\* extended_transcript gives always passes it.
_append_only_transcript(current, wanted) == IsPrefix(current, wanted)

\* The provider answers or fails; a pasted link books nothing.
_created_meeting_or_none(pasted) ==
    IF pasted THEN {[link |-> TRUE, meeting |-> FALSE]}
    ELSE {[link |-> TRUE, meeting |-> TRUE], [link |-> FALSE, meeting |-> FALSE]}

\* POST /engagements/{id}/sessions, up to the meeting.
post_session_create(q, u, s, at, pasted) ==
    /\ msReq[q] = Idle /\ _scoped_engagement(u)
    /\ ~Exists(s) /\ \A p \in Slots : msReq[p].pc \in {"invite", "create"} => msReq[p].s # s
    /\ \E made \in _created_meeting_or_none(pasted) :
          /\ booked' = booked \cup (IF made.meeting THEN {s} ELSE {})
          /\ msReq' = SetOf(q, [pc |-> "invite", s |-> s, filled |-> eng.filled,
                  row |-> [version |-> 1, live |-> TRUE, at |-> at,
                           meeting |-> made.meeting, link |-> made.link, entered |-> FALSE,
                           text |-> <<>>, drafts |-> FALSE]], msReq)
    /\ UNCHANGED <<engVars, msNow, msess, retrieval, platform, invited>>

\* The invite: skipped when it has no address, no link or not every merge
\* field; the transport may raise, which rolls the request back.
_send_session_invite(q) ==
    LET w == msReq[q]
        context == w.filled \cup {"mentorName", "sessionTime", "conferenceLink"}
        sends == /\ "contactEmail" \in w.filled /\ w.row.link
                 /\ merge_template("sessionInvite", context)
        created == SetOf(q, [pc |-> "create", s |-> w.s, row |-> w.row], msReq) IN
    /\ w.pc = "invite"
    /\ IF sends
       THEN \/ invited' = invited \cup {w.s} /\ msReq' = created
            \/ UNCHANGED invited /\ msReq' = SetOf(q, Idle, msReq)
       ELSE UNCHANGED invited /\ msReq' = created
    /\ UNCHANGED <<engVars, msNow, msess, retrieval, platform, booked>>

\* Mutant: the retrieval job is a transaction of its own, which may be lost.
CommitSessionMutant(q) ==
    /\ msReq[q].pc = "create"
    /\ msess' = SetOf(msReq[q].s, msReq[q].row, msess)
    /\ msReq' = SetOf(q, Idle, msReq)
    /\ UNCHANGED <<engVars, msNow, retrieval, platform, booked, invited>>

\* The session and its retrieval job are one transaction.
CommitSession(q) ==
    LET w == msReq[q] IN
    /\ w.pc = "create"
    /\ msess' = SetOf(w.s, w.row, msess)
    /\ retrieval' = IF w.row.meeting
                    THEN SetOf(w.s, [state |-> "queued", tries |-> 0], retrieval)
                    ELSE retrieval
    /\ msReq' = SetOf(q, Idle, msReq)
    /\ UNCHANGED <<engVars, msNow, platform, booked, invited>>

\* partial_update on the row as it was read: no change, no version.
Proposal(s, row) == IF row = msess[s] THEN row ELSE [row EXCEPT !.version = @ + 1]

\* PATCH /sessions/{id} with the row's own rowVersion (an older one is a 409):
\* text must extend the stored one (else 422).  entry: the mentor writes the
\* entry fields and takes the drafts over, which clears them.
patch_session(q, u, s, wanted, entry) ==
    /\ msReq[q] = Idle /\ _scoped_session(s, u)
    /\ _append_only_transcript(msess[s].text, wanted)
    /\ msReq' = SetOf(q, [pc |-> "write", s |-> s, job |-> FALSE,
          row |-> Proposal(s, [msess[s] EXCEPT
             !.text = wanted, !.entered = @ \/ entry, !.drafts = @ /\ ~entry])], msReq)
    /\ UNCHANGED <<engVars, msNow, msess, retrieval, platform, booked, invited>>

attach_transcript_and_draft(q, s, job) ==
    LET text == extended_transcript(msess[s].text, platform[s]) IN
    SetOf(q, [pc |-> "write", s |-> s, job |-> job,
              row |-> Proposal(s, [msess[s] EXCEPT !.text = text, !.drafts = TRUE])], msReq)

\* POST /sessions/{id}/transcript, of an app-created meeting whose transcript is ready.
post_session_transcript(q, u, s) ==
    /\ msReq[q] = Idle /\ _scoped_session(s, u) /\ msess[s].meeting
    /\ platform[s] # <<>>
    /\ msReq' = attach_transcript_and_draft(q, s, FALSE)
    /\ UNCHANGED <<engVars, msNow, msess, retrieval, platform, booked, invited>>

\* What a failed attempt leaves: a retry, or the parked job.  Only a failure
\* counts as an attempt.
RetryOrPark(job, permanent) ==
    [state |-> IF permanent \/ job.tries + 1 >= RetrievalTries THEN "parked" ELSE "queued",
     tries |-> job.tries + 1]

\* A worker runs the job once it is due: a session that is gone parks it, a
\* transcript that is not ready fails the attempt.
transcript_retrieval_job(q, s) ==
    LET job == retrieval[s] IN
    /\ msReq[q] = Idle /\ retrieval[s].state = "queued"
    /\ msNow >= msess[s].at + RetrievalDelay
    /\ IF ~msess[s].live \/ platform[s] = <<>>
       THEN /\ retrieval' = SetOf(s, RetryOrPark(job, ~msess[s].live), retrieval)
            /\ UNCHANGED msReq
       ELSE /\ retrieval' = SetOf(s, [job EXCEPT !.state = "running"], retrieval)
            /\ msReq' = attach_transcript_and_draft(q, s, TRUE)
    /\ UNCHANGED <<engVars, msNow, msess, platform, booked, invited>>

\* Mutant: the flush does not compare the version.
WriteSessionMutant(q) ==
    LET w == msReq[q] IN
    /\ w.pc = "write"
    /\ msess' = SetOf(w.s, w.row, msess)
    /\ retrieval' = IF w.job THEN [retrieval EXCEPT ![w.s].state = "succeeded"] ELSE retrieval
    /\ msReq' = SetOf(q, Idle, msReq)
    /\ UNCHANGED <<engVars, msNow, platform, booked, invited>>

\* The flush and the commit; another commit since the read is a 409 for the
\* mentor and a failed attempt for the job.  Nothing changed: nothing flushed.
WriteSession(q) ==
    LET w == msReq[q]
        lands == w.row = msess[w.s] \/ w.row.version = msess[w.s].version + 1 IN
    /\ w.pc = "write"
    /\ msess' = IF lands THEN SetOf(w.s, w.row, msess) ELSE msess
    /\ retrieval' = IF ~w.job THEN retrieval
                    ELSE IF lands THEN [retrieval EXCEPT ![w.s].state = "succeeded"]
                    ELSE SetOf(w.s, RetryOrPark(retrieval[w.s], FALSE), retrieval)
    /\ msReq' = SetOf(q, Idle, msReq)
    /\ UNCHANGED <<engVars, msNow, platform, booked, invited>>

\* A cancelled session is a soft delete.
CancelSession(s) ==
    /\ s \in MsLive
    /\ msess' = [msess EXCEPT ![s].live = FALSE, ![s].version = @ + 1]
    /\ UNCHANGED <<engVars, msNow, msReq, retrieval, platform, booked, invited>>

\* The platform's side: a transcript appears, and may be processed again.
PlatformTranscript(s) ==
    /\ s \in booked /\ Exists(s) /\ msNow >= msess[s].at /\ Len(platform[s]) < 2
    /\ platform' = [platform EXCEPT ![s] = IF @ = <<>> THEN <<"call">> ELSE <<"call", "callAgain">>]
    /\ UNCHANGED <<engVars, msNow, msess, msReq, retrieval, booked, invited>>

\* The processes end; a claimed job is claimed again when its lease runs out,
\* and the attempt that was cut off does not count.
MsCrash ==
    /\ \E q \in Slots : msReq[q] # Idle
    /\ msReq' = [q \in Slots |-> Idle]
    /\ retrieval' = [s \in MSessions |->
          [retrieval[s] EXCEPT !.state = IF @ = "running" THEN "queued" ELSE @]]
    /\ UNCHANGED <<engVars, msNow, msess, platform, booked, invited>>

MsTick ==
    /\ msNow < MsMaxClock /\ msNow' = msNow + 1
    /\ UNCHANGED <<engVars, msess, msReq, retrieval, platform, booked, invited>>

-----------------------------------------------------------------------------
_live_sessions_newest_first == MsLive

\* The stats of the rollup (Python).  0 stands for null.
get_engagement_rollup ==
    LET sessions == _live_sessions_newest_first
        past == {msess[s].at : s \in {t \in sessions : msess[t].at <= msNow}}
        future == {msess[s].at : s \in {t \in sessions : msess[t].at > msNow}} IN
    [total |-> Cardinality(sessions),
     held |-> Cardinality({t \in sessions : msess[t].at <= msNow}),
     lastAt |-> IF past = {} THEN 0 ELSE Max(past),
     nextAt |-> IF future = {} THEN 0 ELSE Min(future)]

\* The triage row (SQL over vwSession, the live rows).
engagement_triage_sql ==
    LET at == {<<s, msess[s].at>> : s \in {t \in MSessions : Exists(t) /\ msess[t].live}}
        before == {row \in at : row[2] <= msNow}
        after == at \ before IN
    [total |-> Cardinality(at),
     lastAt |-> IF before = {} THEN 0 ELSE Max({row[2] : row \in before}),
     nextAt |-> IF after = {} THEN 0 ELSE Min({row[2] : row \in after})]

\* The mentor's form joins the assigned mentor in; leadership's has no scope.
engagement_triage_rows(u, mentorScoped) ==
    IF eng.live /\ (mentorScoped => eng.mentor = u) THEN {engagement_triage_sql} ELSE {}

\* The data sources of the mentor's areas that hold rows of an engagement, as
\* they are seeded: the roles each is granted to, and whether it declares a
\* userRowFilter.
MENTOR_DATA_SOURCES ==
    LET mine == [roles |-> {"Mentor", "Leadership"}, scoped |-> TRUE] IN
    [mentorContacts |-> mine, mentorCompanies |-> mine, mentorClients |-> mine,
     mentorEngagements |-> mine, mentorSessions |-> mine,
     leadershipEngagements |-> [roles |-> {"Leadership"}, scoped |-> FALSE]]

user_roles(u) == IF _is_leadership(u) THEN {"Leadership"} ELSE {"Mentor"}

roles_cover_data_source(key, u) == user_roles(u) \cap MENTOR_DATA_SOURCES[key].roles # {}

\* What a source's SELECT finds of the engagement: its live sessions, or the
\* one row that names its contact, its company, its client or itself.
SourceRows(key) ==
    CASE key = "mentorSessions" -> MsLive
      [] key = "mentorContacts" -> eng.filled \cap {"contactName"}
      [] OTHER -> {"engagement"}

\* The bound user is the caller's; the views hold live rows only.
execute_admin_sql(key, u) ==
    IF eng.live /\ (MENTOR_DATA_SOURCES[key].scoped => eng.mentor = u) THEN SourceRows(key) ELSE {}

\* An area's rows; none where no role of the caller is granted (a 403).
run_stored_data_source(key, u) ==
    IF roles_cover_data_source(key, u) THEN execute_admin_sql(key, u) ELSE {}

_transcript_state(s) ==
    IF msess[s].text # <<>> THEN "attached"
    ELSE IF msess[s].meeting THEN "expected"
    ELSE "unavailable"

-----------------------------------------------------------------------------
\* Some sessions were carried over; at most MsMaxNew are scheduled.
MsOnlyInit ==
    /\ msNow = 0
    /\ \E old \in SUBSET MSessions :
          /\ Cardinality(MSessions \ old) <= MsMaxNew
          /\ msess = [s \in MSessions |->
                [version |-> IF s \in old THEN 1 ELSE 0, live |-> s \in old,
                 at |-> IF s \in old THEN 1 ELSE 0, meeting |-> FALSE, link |-> s \in old,
                 entered |-> s \in old, text |-> <<>>, drafts |-> FALSE]]
    /\ msReq = [q \in Slots |-> Idle]
    /\ retrieval = [s \in MSessions |-> [state |-> "none", tries |-> 0]]
    /\ platform = [s \in MSessions |-> <<>>]
    /\ booked = {} /\ invited = {}

MsInit == EngInit /\ eng.status = "unset" /\ eng.mentor \notin Leadership /\ MsOnlyInit

\* What a mentor pastes: more, something else, or nothing at all.
Pasted(s) == {Append(msess[s].text, "paste"), <<"paste">>, <<>>}

MsNext ==
    \/ \E q \in Slots, s \in MSessions, u \in Users :
          \/ \E at \in {1, MsMaxClock}, pasted \in BOOLEAN : post_session_create(q, u, s, at, pasted)
          \/ /\ MsWrites < MsMaxWrites
             /\ \/ post_session_transcript(q, u, s)
                \/ \E wanted \in Pasted(s) :
                      /\ Len(wanted) <= MaxText
                      /\ patch_session(q, u, s, wanted, FALSE)
                \/ patch_session(q, u, s, msess[s].text, TRUE)
    \/ \E q \in Slots : _send_session_invite(q) \/ CommitSession(q) \/ WriteSession(q)
    \/ \E q \in Slots, s \in MSessions :
          MsWrites < MsMaxWrites /\ transcript_retrieval_job(q, s)
    \/ \E s \in MSessions :
          \/ MsWrites < MsMaxWrites /\ CancelSession(s)
          \/ PlatformTranscript(s)
    \/ MsCrash \/ MsTick
    \/ eng.version < 2 /\ RemoveEngagement /\ UNCHANGED msOnly

MsSpec == MsInit /\ [][MsNext]_msVars

-----------------------------------------------------------------------------
MsTypeOK ==
    /\ msess \in [MSessions -> MentoringSession]
    /\ retrieval \in [MSessions -> RetrievalJob]
    /\ platform \in [MSessions -> Transcript]
    /\ booked \cup invited \subseteq MSessions
    /\ \A q \in Slots : msReq[q].pc \in {"idle", "invite", "create", "write"}

\* "A transcript is evidence": whatever is pasted, retrieved by the mentor and
\* by the job at once, retried or cut off, a stored transcript is only extended.
TranscriptOnlyGrows ==
    [][\A s \in MSessions : IsPrefix(msess[s].text, msess'[s].text)]_msess

\* A session of an app-created meeting is never without its retrieval job, a
\* job that succeeded left the platform's text on the session, and one that
\* gave up has used its tries or lost its session.
RetrievalIsNotLost ==
    \A s \in MSessions : Exists(s) =>
        /\ msess[s].meeting <=> retrieval[s].state # "none"
        /\ retrieval[s].state = "succeeded" => "call" \in ToSet(msess[s].text)
        /\ retrieval[s].state = "parked" =>
              retrieval[s].tries >= RetrievalTries \/ ~msess[s].live

\* "Derives from the live rows exactly as the triage read does": the rollup and
\* the triage row, one in Python and one in SQL, give one engagement the same
\* figures at every moment, and the mentor's triage lists what the mentor's
\* engagement list lists.
RollupIsTheTriageRow ==
    /\ get_engagement_rollup.total = engagement_triage_sql.total
    /\ get_engagement_rollup.lastAt = engagement_triage_sql.lastAt
    /\ get_engagement_rollup.nextAt = engagement_triage_sql.nextAt
    /\ \A u \in Users :
          list_engagements(u) <=> engagement_triage_rows(u, ~_is_leadership(u)) # {}

\* Through every reassignment and removal, an area's grid holds only rows the
\* single-record endpoints of the mentoring router serve to the same caller,
\* and a mentor's areas hold all of them.
AreasShowTheScope ==
    \A u \in Users :
        LET rows(key) == run_stored_data_source(key, u) IN
        /\ \A key \in DOMAIN MENTOR_DATA_SOURCES : rows(key) # {} => _scoped_engagement(u)
        /\ \A s \in MSessions :
              /\ s \in rows("mentorSessions") => _scoped_session(s, u)
              /\ _scoped_session(s, u) => _is_leadership(u) \/ s \in rows("mentorSessions")
        /\ list_engagements(u) <=>
              rows("mentorEngagements") # {} \/ rows("leadershipEngagements") # {}

\* REQ-019's scope: a verb acts within it up to its commit, although its
\* check is a step before, and every place that reads by it, for grids, for
\* lists and for single records, gives the same answer.
ScopeIsKept ==
    VerbsKeepTheirScope /\ ScopeIsOneRule /\ RollupIsTheTriageRow /\ AreasShowTheScope
=============================================================================
