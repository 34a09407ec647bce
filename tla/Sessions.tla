------------------------------ MODULE Sessions ------------------------------
(***************************************************************************)
(* One server-side session, src/mentorapp/access/sessions.py, and the      *)
(* requests that reach it in parallel through the dependencies of          *)
(* src/mentorapp/api/deps.py and src/mentorapp/api/routers/auth.py.        *)
(*                                                                         *)
(* StoredSessionStore.load hands out a copy of the row and keeps no        *)
(* reference to it, so save reads the row again (Select), writes the whole *)
(* copy over it and commits (Commit).  The version check of the commit     *)
(* sees what happened since Select, not what happened since Load.          *)
(***************************************************************************)
EXTENDS Integers

CONSTANTS
    Requests,        \* request slots, one database session each
    Kinds,           \* the kinds of requests that arrive
    IdleTimeout, AbsoluteLifetime, ReauthGrace,
    TouchGranularity,   \* _ACTIVITY_TOUCH_GRANULARITY
    MaxNow, MaxMinted, MaxVersion, MaxLostUpdates   \* bounds

ASSUME SessionsAssumption ==
    /\ Kinds \subseteq {"call", "logout", "reauth", "require_reauth"}
    /\ IdleTimeout \in Nat \ {0} /\ AbsoluteLifetime \in Nat \ {0}
    /\ ReauthGrace \in Nat \ {0} /\ TouchGranularity \in Nat
    /\ MaxNow \in Nat /\ MaxMinted \in Nat \ {0}
    /\ MaxVersion \in Nat /\ MaxLostUpdates \in Nat

VARIABLES
    now,
    row,           \* the authSession row
    req,           \* [Requests -> Request]
    minted,        \* secrets generated so far
    handed,        \* the secrets in references that browsers have received
    newest,        \* the last of them
    loggedOut,     \* history: a logout has been answered
    lostUpdates    \* history: saves of a copy of an older row

vars == <<now, row, req, minted, handed, newest, loggedOut, lostUpdates>>

SessionState == {"active", "reauthPending", "ended"}

\* deadline is reauthDeadline, 0 for None; credential: a CRM credential is kept.
Row == [state : SessionState, secret : Nat, lastSeen : Nat, expires : Nat,
        deadline : Nat, credential : BOOLEAN, version : Nat]

Answers == {"none", "granted", "reauthRequired", "ended", "unknown", "mismatch",
            "revived", "loggedOut", "done", "error"}

\* record: the copy, with what the request changes in it; loaded: the
\* rowVersion it was copied at; answer: what the request answers once it is
\* saved; late: it was loaded after a logout had been answered.
Request == [pc : {"free", "start", "save", "selected", "answered"},
            kind : {"call", "logout", "reauth", "revive", "require_reauth"},
            ref : Nat, owner : BOOLEAN, record : Row, loaded : Nat,
            selected : Nat, answer : Answers, late : BOOLEAN]

Established == [state |-> "active", secret |-> 1, lastSeen |-> 0,
                expires |-> AbsoluteLifetime, deadline |-> 0, credential |-> TRUE,
                version |-> 1]

Free == [pc |-> "free", kind |-> "call", ref |-> 0, owner |-> TRUE, record |-> Established,
         loaded |-> 0, selected |-> 0, answer |-> "none", late |-> FALSE]

TypeOK ==
    /\ row \in Row
    /\ req \in [Requests -> Request]
    /\ handed \subseteq 1 .. minted /\ newest \in handed
    /\ {now, minted, lostUpdates} \subseteq Nat /\ loggedOut \in BOOLEAN

\* establish, once the login has been answered.
Init ==
    /\ now = 0
    /\ row = Established
    /\ req = [r \in Requests |-> Free]
    /\ minted = 1 /\ handed = {1} /\ newest = 1
    /\ loggedOut = FALSE /\ lostUpdates = 0

-----------------------------------------------------------------------------
Keep(answer) == [save |-> FALSE, record |-> row, answer |-> answer]
Save(record, answer) == [save |-> TRUE, record |-> record, answer |-> answer]

\* Mutant: a state the contract does not know.
PendingMutant(c) == [c EXCEPT !.state = "expired", !.deadline = now + ReauthGrace]

Lapsed(c) == c.state = "reauthPending" /\ now >= c.deadline
EndedRow(c) == [c EXCEPT !.state = "ended", !.deadline = 0]
Pending(c) == [c EXCEPT !.state = "reauthPending", !.deadline = now + ReauthGrace]
Expired(c) == now >= c.expires \/ now - c.lastSeen >= IdleTimeout

\* Mutant: the state is not looked at.
resolveMutant(c, ref) ==
    IF c.secret # ref THEN Keep("unknown")
    ELSE IF Expired(c) THEN Save(Pending(c), "reauthRequired")
    ELSE IF now - c.lastSeen >= TouchGranularity THEN Save([c EXCEPT !.lastSeen = now], "granted")
    ELSE Keep("granted")

\* What resolve makes of the copy c and the secret ref of the reference.
resolve(c, ref) ==
    CASE c.secret # ref             -> Keep("unknown")
      [] c.secret = ref /\ c.state = "ended" -> Keep("ended")
      [] c.secret = ref /\ c.state = "reauthPending" ->
            IF Lapsed(c) THEN Save(EndedRow(c), "ended") ELSE Keep("reauthRequired")
      [] c.secret = ref /\ c.state = "active" ->
            IF Expired(c) THEN Save(Pending(c), "reauthRequired")
            ELSE IF now - c.lastSeen >= TouchGranularity
                 THEN Save([c EXCEPT !.lastSeen = now], "granted")
                 ELSE Keep("granted")

\* A re-login: only in the session's own name.
Revived(c) == [c EXCEPT !.state = "active", !.secret = minted + 1, !.lastSeen = now,
                        !.expires = now + AbsoluteLifetime, !.deadline = 0,
                        !.credential = TRUE]

\* Mutant: an ended session can be re-authenticated.
reauthenticateMutant(c, owner) == IF owner THEN Save(Revived(c), "revived") ELSE Keep("mismatch")

reauthenticate(c, owner) ==
    IF c.state = "ended" THEN Keep("ended")
    ELSE IF Lapsed(c) THEN Save(EndedRow(c), "ended")
    ELSE IF ~owner THEN Keep("mismatch")
    ELSE Save(Revived(c), "revived")

require_reauth(c) ==
    CASE c.state = "ended"         -> Keep("ended")
      [] c.state = "reauthPending" -> Keep("done")
      [] c.state = "active"        -> Save(Pending(c), "done")

logout(c, ref) == IF c.secret # ref THEN Keep("unknown") ELSE Save(EndedRow(c), "loggedOut")

Decide(q) ==
    CASE q.kind \in {"call", "reauth"} -> resolve(row, q.ref)
      [] q.kind = "revive"             -> reauthenticate(row, q.owner)
      [] q.kind = "require_reauth"     -> require_reauth(row)
      [] q.kind = "logout"             -> logout(row, q.ref)

\* The request is over, but for POST /auth/reauth: once resolve has found the
\* session alive or revivable, it goes on to reauthenticate.
Over(q, answer) ==
    IF q.kind = "reauth" /\ answer \in {"granted", "reauthRequired"}
    THEN [Free EXCEPT !.pc = "start", !.kind = "revive", !.owner = q.owner]
    ELSE [Free EXCEPT !.pc = "answered", !.kind = q.kind, !.answer = answer, !.late = q.late]

-----------------------------------------------------------------------------
\* A window sends a request with a reference it has been handed; a re-login
\* comes with credentials that the CRM has verified.  Nothing in src/ calls
\* require_reauth yet: it takes the session's ID, not a reference.
Send(r, kind, ref, owner) ==
    /\ req[r].pc = "free" /\ kind \in Kinds /\ row.version < MaxVersion
    /\ req' = [req EXCEPT ![r] = [Free EXCEPT !.pc = "start", !.kind = kind, !.ref = ref,
                                              !.owner = owner]]
    /\ UNCHANGED <<now, row, minted, handed, newest, loggedOut, lostUpdates>>

\* store.load, and everything the process does with the copy.
Load(r) ==
    /\ req[r].pc = "start"
    /\ LET q == [req[r] EXCEPT !.late = loggedOut]
           d == Decide(q)
       IN  /\ d.answer = "revived" => minted < MaxMinted
           /\ minted' = IF d.answer = "revived" THEN minted + 1 ELSE minted
           /\ req' = [req EXCEPT ![r] =
                IF d.save THEN [q EXCEPT !.pc = "save", !.record = d.record,
                                         !.loaded = row.version, !.answer = d.answer]
                ELSE Over(q, d.answer)]
    /\ UNCHANGED <<now, row, handed, newest, loggedOut, lostUpdates>>

\* save: session.get reads the row anew.
Select(r) ==
    /\ req[r].pc = "save"
    /\ row.version # req[r].loaded => lostUpdates < MaxLostUpdates
    /\ req' = [req EXCEPT ![r].pc = "selected", ![r].selected = row.version]
    /\ UNCHANGED <<now, row, minted, handed, newest, loggedOut, lostUpdates>>

\* Mutant: an ended session keeps the credential.
StoredMutant(c) == [c EXCEPT !.version = row.version + 1]

\* The row as save writes it: an ended session's credential is dropped.
Stored(c) == [c EXCEPT !.version = row.version + 1,
                       !.credential = c.credential /\ c.state # "ended"]

\* Mutant: no version_id_col.
MatchesMutant(q) == TRUE
Matches(q) == row.version = q.selected

\* The commit of save: a sealed credential always differs, so the only save
\* that updates nothing is one of an ended session over itself.
Commit(r) ==
    /\ req[r].pc = "selected" /\ Matches(req[r])
    /\ LET q == req[r]
           same == row = [Stored(q.record) EXCEPT !.version = row.version]
       IN  /\ row' = IF same /\ ~row.credential THEN row ELSE Stored(q.record)
           /\ lostUpdates' = lostUpdates + IF q.selected # q.loaded THEN 1 ELSE 0
           /\ handed' = IF q.answer = "revived" THEN handed \cup {q.record.secret} ELSE handed
           /\ newest' = IF q.answer = "revived" THEN q.record.secret ELSE newest
           /\ loggedOut' = (loggedOut \/ q.answer = "loggedOut")
           /\ req' = [req EXCEPT ![r] = Over(q, q.answer)]
    /\ UNCHANGED <<now, minted>>

\* StaleActivityWriteError: benign for an activity touch, an unhandled error
\* everywhere else.
CommitStale(r) ==
    /\ req[r].pc = "selected" /\ ~Matches(req[r])
    /\ LET q == req[r]
       IN  req' = [req EXCEPT ![r] = Over(q, IF q.answer = "granted" THEN "granted" ELSE "error")]
    /\ UNCHANGED <<now, row, minted, handed, newest, loggedOut, lostUpdates>>

Receive(r) ==
    /\ req[r].pc = "answered"
    /\ req' = [req EXCEPT ![r] = Free]
    /\ UNCHANGED <<now, row, minted, handed, newest, loggedOut, lostUpdates>>

Tick ==
    /\ now < MaxNow /\ now' = now + 1
    /\ UNCHANGED <<row, req, minted, handed, newest, loggedOut, lostUpdates>>

Next ==
    \/ \E r \in Requests :
          \/ \E ref \in handed : Send(r, "call", ref, TRUE) \/ Send(r, "logout", ref, TRUE)
          \/ \E ref \in handed, owner \in BOOLEAN : Send(r, "reauth", ref, owner)
          \/ Send(r, "require_reauth", 0, TRUE)
          \/ Load(r) \/ Select(r) \/ Commit(r) \/ CommitStale(r) \/ Receive(r)
    \/ Tick

Spec == Init /\ [][Next]_vars

-----------------------------------------------------------------------------
\* "custody ends with the session" (StoredSessionStore): an ended session
\* holds no CRM credential, whatever saves raced.
CustodyEnds == row.state = "ended" => ~row.credential

\* "every window's next request fails closed" (logout): a request that was
\* loaded after the logout had been answered is not let in, by any reference,
\* as long as no save has overwritten a newer row.
NoAccessAfterLogout ==
    lostUpdates = 0 =>
        \A r \in Requests : req[r].pc = "answered" /\ req[r].late =>
                                req[r].answer \notin {"granted", "revived", "reauthRequired"}

\* "the one new reference works in every window" (reauthenticate): the last
\* reference handed to a browser is the one that the row accepts.
NewestReferenceWorks == lostUpdates = 0 => row.secret = newest

Contract == INSTANCE SessionContract WITH state <- row.state, secret <- row.secret

\* However many requests overlap, a step that overwrites no newer row changes
\* the session only as the contract says: ended is final, a pending session
\* comes back only by a re-login, and a secret changes only with one.
KeepsContract == [][lostUpdates' = lostUpdates => Contract!Next]_<<row.state, row.secret>>

\* "an ended session stays ended" (require_reauth), "logout ends the shared
\* record": for saves of older copies, too.
EndedStaysEnded == [][row.state = "ended" => row'.state = "ended"]_vars
=============================================================================
