---------------------------- MODULE Engagements -----------------------------
(***************************************************************************)
(* One engagement and those who reach it: the list, the lifecycle and the  *)
(* templated mail of src/mentorapp/api/routers/mentoring.py, over          *)
(* storage/mentoring.py and automation/email_outbound.py.  A request reads *)
(* the row and decides, and writes in a later step; staff write the same   *)
(* row through PATCH /records/engagement, which knows no scope: what is    *)
(* said of the caller's scope below is said of the mentoring endpoints, not*)
(* of the generic /records routes.                                         *)
(***************************************************************************)
EXTENDS Naturals, FiniteSets, Requests

CONSTANTS
    Users,           \* app users; crmMentorRef pairs the engagement with one
    Leadership,      \* those with the Leadership role
    EngMaxVersion,   \* bound on the engagement's rowVersion
    MaxMails         \* bound on the mails sent

ASSUME EngagementsAssumption ==
    Leadership \subseteq Users /\ {EngMaxVersion, MaxMails} \subseteq Nat

VARIABLES
    eng,       \* the engagement row
    engReq,    \* [Slots -> request]
    mails,     \* what the transport was handed
    flips      \* history: the lifecycle's status changes, <<from, to, scoped>>;
               \* scoped: the caller had the engagement when the change was made

engVars == <<eng, engReq, mails, flips>>

\* ENGAGEMENT_STATUS_VALUES; "unset" is NULL.
EngagementStatus ==
    {"active", "pendingAcceptance", "assigned", "onHold", "dormant", "assignmentDeclined"}

MergeFields == {"contactName", "contactEmail", "engagementName", "mentorName",
                "resourceTitle", "resourceLocation", "sessionTime", "conferenceLink"}

\* filled: which of the engagement's merge fields hold a value.
Engagement ==
    [status : EngagementStatus \cup {"unset"}, mentor : Users, live : BOOLEAN,
     filled : SUBSET {"contactName", "contactEmail", "engagementName"}, version : Nat]

\* STAFF_EMAIL_TEMPLATES: the merge fields of each template.
Named == {"contactName", "engagementName", "mentorName"}
STAFF_EMAIL_TEMPLATES ==
    [mentorIntroduction  |-> Named,
     sessionFollowUp     |-> Named,
     resourceShare       |-> Named \cup {"resourceTitle", "resourceLocation"},
     sessionInvite       |-> Named \cup {"sessionTime", "conferenceLink"},
     reengagementCheckIn |-> Named]

LIFECYCLE_TRANSITIONS ==
    [accept  |-> [from |-> {"pendingAcceptance"}, to |-> "assigned"],
     decline |-> [from |-> {"pendingAcceptance"}, to |-> "assignmentDeclined"],
     hold    |-> [from |-> {"active", "assigned"}, to |-> "onHold"],
     dormant |-> [from |-> {"active", "assigned", "onHold"}, to |-> "dormant"],
     resume  |-> [from |-> {"onHold", "dormant"}, to |-> "active"]]

-----------------------------------------------------------------------------
_is_leadership(u) == u \in Leadership

_scoped_engagement(u) == eng.live /\ (eng.mentor = u \/ _is_leadership(u))

\* GET /engagements: is the engagement in the caller's list?
list_engagements(u) == IF _is_leadership(u) THEN eng.live ELSE eng.live /\ eng.mentor = u

\* POST /engagements/{id}/lifecycle, up to the flush: the body's rowVersion is
\* the row's (else 409), and the status allows the transition (else 422).
post_engagement_lifecycle(q, u, t) ==
    LET transition == LIFECYCLE_TRANSITIONS[t] IN
    /\ engReq[q] = Idle
    /\ _scoped_engagement(u) /\ eng.status \in transition.from
    /\ engReq' = [engReq EXCEPT ![q] =
                    [pc |-> "flip", by |-> u, to |-> transition.to, version |-> eng.version]]
    /\ UNCHANGED <<eng, mails, flips>>

Flipped(w) == /\ eng' = [eng EXCEPT !.status = w.to, !.version = @ + 1]
              /\ flips' = flips \cup {<<eng.status, w.to, _scoped_engagement(w.by)>>}

\* Mutant: the flush does not compare the version.
WriteFlipMutant(q) ==
    /\ engReq[q].pc = "flip" /\ Flipped(engReq[q])
    /\ engReq' = [engReq EXCEPT ![q] = Idle]
    /\ UNCHANGED mails

\* Mutant: the flush checks that the status still allows the transition.
WriteFlipStatusMutant(q) ==
    /\ engReq[q].pc = "flip"
    /\ IF \E t \in DOMAIN LIFECYCLE_TRANSITIONS :
             /\ LIFECYCLE_TRANSITIONS[t].to = engReq[q].to
             /\ eng.status \in LIFECYCLE_TRANSITIONS[t].from
       THEN Flipped(engReq[q]) ELSE UNCHANGED <<eng, flips>>
    /\ engReq' = [engReq EXCEPT ![q] = Idle]
    /\ UNCHANGED mails

\* partial_update's flush and the commit; a version that moved on is a 409.
WriteFlip(q) ==
    /\ engReq[q].pc = "flip"
    /\ IF eng.version = engReq[q].version
       THEN Flipped(engReq[q]) ELSE UNCHANGED <<eng, flips>>
    /\ engReq' = [engReq EXCEPT ![q] = Idle]
    /\ UNCHANGED mails

\* PATCH /records/engagement by staff: promotion, reassignment, contact data.
StaffPatch ==
    /\ eng.live
    /\ \E s \in EngagementStatus, m \in Users, filled \in SUBSET {"contactName", "engagementName"} :
          eng' = [eng EXCEPT !.status = s, !.mentor = m, !.version = @ + 1,
                             !.filled = filled \cup {"contactEmail"}]
    /\ UNCHANGED <<engReq, mails, flips>>

\* A soft delete, outside these routers.
RemoveEngagement ==
    /\ eng.live /\ eng' = [eng EXCEPT !.live = FALSE, !.version = @ + 1]
    /\ UNCHANGED <<engReq, mails, flips>>

-----------------------------------------------------------------------------
\* The sender signs with a login name.
_engagement_merge_context == eng.filled \cup {"mentorName"}

merge_template(key, context) == STAFF_EMAIL_TEMPLATES[key] \subseteq context

_merged_or_refused(key, context) ==
    key \in DOMAIN STAFF_EMAIL_TEMPLATES /\ merge_template(key, context)

\* ~confirmed: the preview, which sends nothing.
_send_or_preview(key, context, confirmed) ==
    mails' = IF confirmed
             THEN mails \cup {[template |-> key, merged |-> context,
                               addressed |-> "contactEmail" \in eng.filled]}
             ELSE mails

\* POST /email/send.
post_email_send(u, key, confirmed) ==
    /\ _scoped_engagement(u) /\ "contactEmail" \in eng.filled
    /\ _merged_or_refused(key, _engagement_merge_context)
    /\ _send_or_preview(key, _engagement_merge_context, confirmed)
    /\ UNCHANGED <<eng, engReq, flips>>

\* POST /resources/{id}/share, of a live resource.
post_resource_share(u, confirmed) ==
    LET context == _engagement_merge_context \cup {"resourceTitle", "resourceLocation"} IN
    /\ _scoped_engagement(u) /\ "contactEmail" \in eng.filled
    /\ _merged_or_refused("resourceShare", context)
    /\ _send_or_preview("resourceShare", context, confirmed)
    /\ UNCHANGED <<eng, engReq, flips>>

EngInit ==
    /\ eng \in [status : {"pendingAcceptance", "unset"}, mentor : Users, live : {TRUE},
                filled : {{}, {"contactName", "contactEmail", "engagementName"}}, version : {1}]
    /\ engReq = [q \in Slots |-> Idle]
    /\ mails = {} /\ flips = {}

EngNext ==
    \/ \E q \in Slots, u \in Users :
          \E t \in DOMAIN LIFECYCLE_TRANSITIONS : post_engagement_lifecycle(q, u, t)
    \/ \E q \in Slots : eng.version < EngMaxVersion /\ WriteFlip(q)
    \/ eng.version < EngMaxVersion /\ (StaffPatch \/ RemoveEngagement)
    \/ \E u \in Users, confirmed \in BOOLEAN :
          /\ Cardinality(mails) < MaxMails
          /\ \/ \E key \in DOMAIN STAFF_EMAIL_TEMPLATES : post_email_send(u, key, confirmed)
             \/ post_resource_share(u, confirmed)

EngSpec == EngInit /\ [][EngNext]_engVars

-----------------------------------------------------------------------------
EngTypeOK ==
    /\ eng \in Engagement
    /\ flips \subseteq EngagementStatus \X EngagementStatus \X BOOLEAN
    /\ \A mail \in mails : mail.merged \subseteq MergeFields

\* A lifecycle verb only takes the steps of REQ-075 and never undoes what staff
\* or a second verb did meanwhile, although its check and its write are apart:
\* nothing is accepted after it was declined, and only staff end a decline.
FlipsFollowTheLifecycle ==
    \A flip \in flips :
        LET step == <<flip[1], flip[2]>> IN
        \/ step \in {<<"pendingAcceptance", "assigned">>,
                     <<"pendingAcceptance", "assignmentDeclined">>}
        \/ flip[1] \in {"active", "assigned"} /\ flip[2] \in {"onHold", "dormant"}
        \/ step = <<"onHold", "dormant">>
        \/ flip[1] \in {"onHold", "dormant"} /\ flip[2] = "active"

\* A lifecycle verb resolves its caller's scope at one moment and commits at a
\* later one: whoever the engagement is reassigned to meanwhile, and even when
\* it is removed, the change is made only while the caller still has it.
VerbsKeepTheirScope == \A flip \in flips : flip[3]

\* The two statements of REQ-019's rule, the list's and the one every verb
\* resolves through, never disagree about the engagement, and no mail goes out
\* half merged or without an address, whoever the engagement is reassigned to.
ScopeIsOneRule ==
    /\ \A u \in Users : list_engagements(u) <=> _scoped_engagement(u)
    /\ \A mail \in mails :
          mail.addressed /\ STAFF_EMAIL_TEMPLATES[mail.template] \subseteq mail.merged
=============================================================================
