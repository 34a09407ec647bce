---------------------------- MODULE SessionProofs ----------------------------
(* Theorems about Sessions, for any number of requests and any timeouts. *)
EXTENDS Sessions, TLAPS

USE SessionsAssumption

Saving(r) == req[r].pc \in {"save", "selected"}

\* A logout ends the copy; a re-login makes it active, with the credential.
Meant(record, answer) ==
    /\ answer = "loggedOut" => record.state = "ended"
    /\ answer = "revived" => record.state = "active" /\ record.credential

\* What a request may be about to write over the row c that it copied.
Fits(c, record, answer) ==
    /\ c.state = "ended" => answer = "loggedOut"
    /\ IF answer = "revived"
       THEN record.secret > c.secret
       ELSE /\ record.secret = c.secret
            /\ record.state # "ended" => c.state = "active"

\* No secret is known that was not minted.
SecretInv ==
    /\ row.secret \in 1 .. minted
    /\ \A r \in Requests : Saving(r) => req[r].record.secret \in 1 .. minted

\* A copy is of the row as it is, or of an older one.
CopyInv ==
    \A r \in Requests : Saving(r) =>
        /\ req[r].loaded <= row.version
        /\ Meant(req[r].record, req[r].answer)
        /\ req[r].loaded = row.version => Fits(row, req[r].record, req[r].answer)

LetsIn == {"granted", "revived", "reauthRequired"}

\* While no save has overwritten a newer row, a logout that was answered has
\* ended the session, and what was loaded since is refused.
LogoutInv ==
    lostUpdates = 0 =>
        /\ loggedOut => row.state = "ended"
        /\ \A r \in Requests : Saving(r) \/ req[r].pc = "answered" =>
                                   (req[r].late => req[r].answer \notin LetsIn)

IInv == TypeOK /\ SecretInv /\ CopyInv /\ LogoutInv /\ CustodyEnds /\ NewestReferenceWorks

-----------------------------------------------------------------------------
(* What the decisions on a copy of the row return. *)

\* A decision is an answer the request may give and a row it may write.
Sound(d) ==
    /\ d.save \in BOOLEAN /\ d.answer \in Answers /\ d.record \in Row
    /\ d.record.secret \in 1 .. (IF d.answer = "revived" THEN minted + 1 ELSE minted)
    /\ row.state = "ended" => d.answer \notin LetsIn
    /\ d.answer = "revived" => d.save
    /\ d.save => Meant(d.record, d.answer)
    /\ d.save => Fits(row, d.record, d.answer)

\* The rows the decisions make of a row.
LEMMA RowsMade ==
    ASSUME TypeOK
    PROVE  /\ EndedRow(row) \in Row /\ Pending(row) \in Row
           /\ [row EXCEPT !.lastSeen = now] \in Row
           /\ Revived(row) \in Row
           /\ EndedRow(row).state = "ended" /\ EndedRow(row).secret = row.secret
           /\ Pending(row).state = "reauthPending" /\ Pending(row).secret = row.secret
           /\ Revived(row).state = "active" /\ Revived(row).credential
           /\ Revived(row).secret = minted + 1
<1>1. row \in Row /\ now \in Nat /\ minted \in Nat
  BY DEF TypeOK
<1>2. now + ReauthGrace \in Nat /\ now + AbsoluteLifetime \in Nat /\ minted + 1 \in Nat
  BY <1>1
<1> QED
  BY <1>1, <1>2 DEF EndedRow, Pending, Revived, Row, SessionState

\* An answer that writes nothing is sound if it lets nobody in on an ended row.
LEMMA KeepSound ==
    ASSUME TypeOK, SecretInv, NEW a \in Answers, a \notin {"revived", "loggedOut"},
           row.state = "ended" => a \notin LetsIn
    PROVE  Sound(Keep(a))
  BY DEF Sound, Keep, TypeOK, SecretInv

\* resolve lets in only the holder of the row's secret, on a row that is not ended.
LEMMA ResolveSound ==
    ASSUME TypeOK, SecretInv, NEW ref \in Nat
    PROVE  Sound(resolve(row, ref))
<1>1. row \in Row /\ row.state \in SessionState /\ row.secret \in 1 .. minted /\ minted \in Nat
  BY DEF TypeOK, Row, SecretInv
<1>2. CASE row.secret # ref
  BY <1>2, KeepSound DEF resolve, Answers, LetsIn
<1>3. CASE row.secret = ref /\ row.state = "ended"
  BY <1>3, KeepSound DEF resolve, Answers, LetsIn
<1>4. CASE row.secret = ref /\ row.state = "reauthPending"
  <2>1. Sound(Save(EndedRow(row), "ended"))
    BY <1>1, <1>4, RowsMade DEF Sound, Save, Answers, LetsIn, Meant, Fits
  <2>2. Sound(Keep("reauthRequired"))
    BY <1>4, KeepSound DEF Answers
  <2> QED
    BY <1>4, <2>1, <2>2 DEF resolve
<1>5. CASE row.secret = ref /\ row.state = "active"
  <2>1. Sound(Save(Pending(row), "reauthRequired"))
    BY <1>1, <1>5, RowsMade DEF Sound, Save, Answers, LetsIn, Meant, Fits
  <2>2. Sound(Save([row EXCEPT !.lastSeen = now], "granted"))
    BY <1>1, <1>5, RowsMade DEF Sound, Save, Answers, LetsIn, Meant, Fits, Row
  <2>3. Sound(Keep("granted"))
    BY <1>5, KeepSound DEF Answers
  <2> QED
    BY <1>5, <2>1, <2>2, <2>3 DEF resolve
<1> QED
  BY <1>1, <1>2, <1>3, <1>4, <1>5 DEF SessionState

\* reauthenticate ends a row of another user and revives one of its owner.
LEMMA ReauthenticateSound ==
    ASSUME TypeOK, SecretInv, NEW owner \in BOOLEAN
    PROVE  Sound(reauthenticate(row, owner))
<1>1. row.state \in SessionState /\ row.secret \in 1 .. minted /\ minted \in Nat
  BY DEF TypeOK, Row, SecretInv
<1>2. Sound(Keep("ended")) /\ Sound(Keep("mismatch"))
  BY KeepSound DEF Answers, LetsIn
<1>3. row.state = "reauthPending" => Sound(Save(EndedRow(row), "ended"))
  BY <1>1, RowsMade DEF Sound, Save, Answers, LetsIn, Meant, Fits
<1>4. row.state # "ended" => Sound(Save(Revived(row), "revived"))
  BY <1>1, RowsMade DEF Sound, Save, Answers, LetsIn, Meant, Fits
<1> QED
  BY <1>2, <1>3, <1>4 DEF reauthenticate, Lapsed

\* Whatever a request asks, what it is about to write and to answer is sound.
LEMMA DecideSound ==
    ASSUME TypeOK, SecretInv, NEW q \in Request
    PROVE  Sound(Decide(q))
<1>1. q.ref \in Nat /\ q.owner \in BOOLEAN
      /\ q.kind \in {"call", "logout", "reauth", "revive", "require_reauth"}
      /\ row.state \in SessionState /\ row.secret \in 1 .. minted /\ minted \in Nat
  BY DEF Request, TypeOK, Row, SecretInv
<1>2. Sound(require_reauth(row))
  <2>1. row.state = "active" => Sound(Save(Pending(row), "done"))
    BY <1>1, RowsMade DEF Sound, Save, Answers, LetsIn, Meant, Fits
  <2>2. Sound(Keep("ended")) /\ Sound(Keep("done"))
    BY KeepSound DEF Answers, LetsIn
  <2> QED
    BY <1>1, <2>1, <2>2 DEF require_reauth, SessionState
<1>3. Sound(logout(row, q.ref))
  <2>1. Sound(Save(EndedRow(row), "loggedOut"))
    BY <1>1, RowsMade DEF Sound, Save, Answers, LetsIn, Meant, Fits
  <2>2. Sound(Keep("unknown"))
    BY KeepSound DEF Answers, LetsIn
  <2> QED
    BY <2>1, <2>2 DEF logout
<1> QED
  BY <1>1, <1>2, <1>3, ResolveSound, ReauthenticateSound DEF Decide

-----------------------------------------------------------------------------
(* What the actions preserve. *)

\* A request that is over, or goes on to its second half.
LEMMA OverFits ==
    ASSUME NEW q \in Request, NEW a \in Answers
    PROVE  /\ Over(q, a) \in Request /\ Over(q, a).pc \in {"start", "answered"}
           /\ Over(q, a).pc = "answered" => Over(q, a).answer = a /\ Over(q, a).late = q.late
<1>1. Free \in Request
  BY DEF Free, Request, Established, Row, SessionState, Answers
<1> QED
  BY <1>1 DEF Over, Request, Free

\* A request that only moves on: the others are as they were.
LEMMA SendKeeps ==
    ASSUME IInv, NEW r \in Requests, NEW kind \in Kinds, NEW ref \in Nat,
           NEW owner \in BOOLEAN, Send(r, kind, ref, owner)
    PROVE  IInv'
<1>1. [Free EXCEPT !.pc = "start", !.kind = kind, !.ref = ref, !.owner = owner] \in Request
  BY DEF Free, Request, Established, Row, SessionState, Answers
<1>2. TypeOK'
  BY <1>1 DEF Send, IInv, TypeOK
<1>3. \A s \in Requests : /\ Saving(s)' => s # r /\ Saving(s) /\ req'[s] = req[s]
                          /\ req'[s].pc = "answered" => s # r /\ req'[s] = req[s]
  BY DEF Send, IInv, TypeOK, Saving, Free
<1>4. SecretInv' /\ CopyInv' /\ LogoutInv'
  BY <1>3 DEF Send, IInv, SecretInv, CopyInv, LogoutInv
<1> QED
  BY <1>2, <1>4 DEF Send, IInv, CustodyEnds, NewestReferenceWorks

\* A request that loads the row remembers a sound decision about it.
LEMMA LoadKeeps ==
    ASSUME IInv, NEW r \in Requests, Load(r)
    PROVE  IInv'
<1> DEFINE q == [req[r] EXCEPT !.late = loggedOut]
           d == Decide(q)
           w == [q EXCEPT !.pc = "save", !.record = d.record, !.loaded = row.version,
                          !.answer = d.answer]
<1>1. q \in Request /\ q.late = loggedOut
  BY DEF IInv, TypeOK, Request
<1>2. Sound(d)
  BY <1>1, DecideSound DEF IInv
<1>3. /\ minted' = IF d.answer = "revived" THEN minted + 1 ELSE minted
      /\ req' = [req EXCEPT ![r] = IF d.save THEN w ELSE Over(q, d.answer)]
      /\ UNCHANGED <<now, row, handed, newest, loggedOut, lostUpdates>>
  BY DEF Load
<1> HIDE DEF q, d
<1>4. w \in Request /\ w.late = loggedOut /\ w.answer = d.answer
  BY <1>1, <1>2 DEF Sound, Request, IInv, TypeOK, Row
<1>5. Over(q, d.answer) \in Request
  BY <1>1, <1>2, OverFits DEF Sound
<1>6. w.pc = "save" /\ w.loaded = row.version /\ w.record = d.record /\ row.version \in Nat
  BY <1>1 DEF Request, IInv, TypeOK, Row
<1> HIDE DEF w
<1>7. TypeOK'
  BY <1>2, <1>3, <1>4, <1>5 DEF IInv, TypeOK
<1>8. /\ req'[r] = IF d.save THEN w ELSE Over(q, d.answer)
      /\ \A s \in Requests : s # r => req'[s] = req[s]
  BY <1>3 DEF IInv, TypeOK
<1>9. ASSUME NEW s \in Requests, Saving(s)'
      PROVE  IF s = r THEN d.save /\ req'[r] = w ELSE Saving(s) /\ req'[s] = req[s]
  <2>1. CASE d.save
    BY <1>8, <1>9, <2>1 DEF Saving
  <2>2. CASE ~d.save
    BY <1>1, <1>2, <1>8, <1>9, <2>2, OverFits DEF Saving, Sound
  <2> QED
    BY <2>1, <2>2
<1>10. SecretInv'
  <2>1. minted \in Nat /\ minted' \in Nat /\ minted <= minted'
    BY <1>3 DEF IInv, TypeOK
  <2>2. d.record.secret \in 1 .. minted'
    BY <1>2, <1>3 DEF Sound
  <2> QED
    BY <1>3, <1>9, <1>6, <2>1, <2>2 DEF IInv, SecretInv
<1>11. CopyInv'
  <2> SUFFICES ASSUME NEW s \in Requests, Saving(s)'
               PROVE  /\ req'[s].loaded <= row.version
                      /\ Meant(req'[s].record, req'[s].answer)
                      /\ req'[s].loaded = row.version => Fits(row, req'[s].record, req'[s].answer)
    BY <1>3 DEF CopyInv
  <2>1. CASE s = r
    BY <1>2, <1>4, <1>9, <1>6, <2>1 DEF Sound
  <2>2. CASE s # r
    BY <1>9, <2>2 DEF IInv, CopyInv
  <2> QED
    BY <2>1, <2>2
<1>12. LogoutInv'
  <2>1. req'[r].pc = "answered" \/ Saving(r)' => req'[r].answer = d.answer /\ req'[r].late = loggedOut
    <3>1. CASE d.save
      BY <1>4, <1>8, <3>1
    <3>2. CASE ~d.save
      BY <1>1, <1>2, <1>8, <3>2, OverFits DEF Saving, Sound
    <3> QED
      BY <3>1, <3>2
  <2>2. ASSUME lostUpdates = 0 PROVE loggedOut => d.answer \notin LetsIn
    BY <1>2, <2>2 DEF IInv, LogoutInv, Sound
  <2> SUFFICES ASSUME lostUpdates = 0, NEW s \in Requests, Saving(s)' \/ req'[s].pc = "answered",
                      req'[s].late
               PROVE  req'[s].answer \notin LetsIn
    BY <1>3 DEF IInv, LogoutInv
  <2>3. CASE s = r
    BY <2>1, <2>2, <2>3
  <2>4. CASE s # r
    BY <1>8, <2>4 DEF IInv, LogoutInv, Saving
  <2> QED
    BY <2>3, <2>4
<1> QED
  BY <1>3, <1>7, <1>10, <1>11, <1>12 DEF IInv, CustodyEnds, NewestReferenceWorks

\* The second read of the store's row changes no decision.
LEMMA SelectKeeps ==
    ASSUME IInv, NEW r \in Requests, Select(r)
    PROVE  IInv'
<1>1. /\ req[r].pc = "save" /\ req' = [req EXCEPT ![r].pc = "selected", ![r].selected = row.version]
      /\ UNCHANGED <<now, row, minted, handed, newest, loggedOut, lostUpdates>>
  BY DEF Select
<1>2. req[r] \in Request /\ row.version \in Nat
  BY DEF IInv, TypeOK, Row
<1>3. TypeOK'
  BY <1>1, <1>2 DEF IInv, TypeOK, Request
<1>4. \A s \in Requests :
         /\ Saving(s)' => Saving(s)
         /\ req'[s].pc = "answered" => req[s].pc = "answered"
         /\ req'[s].record = req[s].record /\ req'[s].loaded = req[s].loaded
         /\ req'[s].answer = req[s].answer /\ req'[s].late = req[s].late
  BY <1>1 DEF IInv, TypeOK, Request, Saving
<1>5. SecretInv'
  BY <1>1, <1>4 DEF IInv, SecretInv
<1>6. CopyInv'
  <2> SUFFICES ASSUME NEW s \in Requests, Saving(s)'
               PROVE  /\ req'[s].loaded <= row.version
                      /\ Meant(req'[s].record, req'[s].answer)
                      /\ req'[s].loaded = row.version => Fits(row, req'[s].record, req'[s].answer)
    BY <1>1 DEF CopyInv
  <2> QED
    BY <1>4 DEF IInv, CopyInv
<1>7. LogoutInv'
  BY <1>1, <1>4 DEF IInv, LogoutInv
<1> QED
  BY <1>1, <1>3, <1>5, <1>6, <1>7 DEF IInv, CustodyEnds, NewestReferenceWorks

\* What Stored writes: the copy, at the next version.
LEMMA StoredFits ==
    ASSUME TypeOK, NEW c \in Row
    PROVE  /\ Stored(c) \in Row /\ Stored(c).version = row.version + 1
           /\ Stored(c).state = c.state /\ Stored(c).secret = c.secret
           /\ Stored(c).credential <=> c.credential /\ c.state # "ended"
<1> DEFINE v == row.version + 1
           k == c.credential /\ c.state # "ended"
<1>1. v \in Nat /\ k \in BOOLEAN
  BY DEF TypeOK, Row
<1>2. Stored(c) = [c EXCEPT !.version = v, !.credential = k]
  BY DEF Stored
<1> HIDE DEF v, k
<1>3. /\ Stored(c) \in Row /\ Stored(c).version = v /\ Stored(c).credential = k
      /\ Stored(c).state = c.state /\ Stored(c).secret = c.secret
  BY <1>1, <1>2 DEF Row
<1> QED
  BY <1>3 DEF v, k

\* A commit writes the copy, or leaves the row when that would change nothing.
LEMMA CommitWrites ==
    ASSUME IInv, NEW r \in Requests, Commit(r)
    PROVE  LET q == req[r] IN
           /\ q \in Request /\ Saving(r) /\ row' \in Row
           /\ \/ row' = Stored(q.record)
              \/ row' = row /\ row.secret = q.record.secret /\ row.state = q.record.state
                 /\ q.answer # "revived"
           /\ lostUpdates' = lostUpdates =>
                 q.loaded = row.version /\ Fits(row, q.record, q.answer)
<1> DEFINE q == req[r]
           same == row = [Stored(q.record) EXCEPT !.version = row.version]
<1>1. /\ q \in Request /\ q.record \in Row /\ Saving(r) /\ row \in Row /\ lostUpdates \in Nat
      /\ row' = IF same /\ ~row.credential THEN row ELSE Stored(q.record)
      /\ lostUpdates' = lostUpdates + IF q.selected # q.loaded THEN 1 ELSE 0
      /\ q.selected = row.version
  BY DEF Commit, IInv, TypeOK, Saving, Request, Matches
<1>2. /\ Stored(q.record) \in Row
      /\ Stored(q.record).state = q.record.state /\ Stored(q.record).secret = q.record.secret
      /\ Stored(q.record).credential <=> q.record.credential /\ q.record.state # "ended"
  BY <1>1, StoredFits DEF IInv
<1>3. same => /\ row.secret = q.record.secret /\ row.state = q.record.state
              /\ row.credential <=> q.record.credential /\ q.record.state # "ended"
  BY <1>2 DEF Row
<1>4. lostUpdates' = lostUpdates => q.loaded = row.version
  BY <1>1
<1>5. Meant(q.record, q.answer) /\ (q.loaded = row.version => Fits(row, q.record, q.answer))
  BY <1>1 DEF IInv, CopyInv
<1>6. q.answer = "revived" => ~(same /\ ~row.credential)
  BY <1>3, <1>5 DEF Meant
<1>7. \/ row' = Stored(q.record)
      \/ row' = row /\ same /\ q.answer # "revived"
  BY <1>1, <1>6
<1> HIDE DEF q, same
<1>8. row' \in Row
  BY <1>1, <1>2, <1>7
<1>9. SUFFICES /\ q \in Request /\ Saving(r) /\ row' \in Row
               /\ \/ row' = Stored(q.record)
                  \/ row' = row /\ row.secret = q.record.secret /\ row.state = q.record.state
                     /\ q.answer # "revived"
               /\ lostUpdates' = lostUpdates =>
                     q.loaded = row.version /\ Fits(row, q.record, q.answer)
  BY DEF q
<1> QED
  BY <1>1, <1>3, <1>4, <1>5, <1>7, <1>8

\* A commit writes what was decided of the row it finds, or it loses an update,
\* which is counted.
LEMMA CommitKeeps ==
    ASSUME IInv, NEW r \in Requests, Commit(r)
    PROVE  IInv'
<1> DEFINE q == req[r]
<1>1. /\ q \in Request /\ q.record \in Row /\ q.answer \in Answers /\ Saving(r)
      /\ row \in Row /\ row' \in Row /\ minted \in Nat /\ lostUpdates \in Nat
  BY CommitWrites DEF IInv, TypeOK, Request
<1>2. /\ handed' = IF q.answer = "revived" THEN handed \cup {q.record.secret} ELSE handed
      /\ newest' = IF q.answer = "revived" THEN q.record.secret ELSE newest
      /\ loggedOut' = (loggedOut \/ q.answer = "loggedOut")
      /\ req' = [req EXCEPT ![r] = Over(q, q.answer)]
      /\ lostUpdates' = lostUpdates + IF q.selected # q.loaded THEN 1 ELSE 0
      /\ UNCHANGED <<now, minted>>
  BY DEF Commit
<1>3. \/ row' = row /\ row.secret = q.record.secret /\ row.state = q.record.state
         /\ q.answer # "revived"
      \/ /\ row'.version = row.version + 1
         /\ row'.secret = q.record.secret /\ row'.state = q.record.state
         /\ row'.credential <=> q.record.credential /\ q.record.state # "ended"
  BY <1>1, CommitWrites, StoredFits DEF IInv
<1>4. lostUpdates' = 0 => lostUpdates = 0 /\ Fits(row, q.record, q.answer)
  BY <1>1, <1>2, CommitWrites
<1>5. q.record.secret \in 1 .. minted /\ Meant(q.record, q.answer)
  BY <1>1 DEF IInv, SecretInv, CopyInv
<1>6. Over(q, q.answer) \in Request /\ Over(q, q.answer).pc \in {"start", "answered"}
      /\ (Over(q, q.answer).pc = "answered" =>
             Over(q, q.answer).answer = q.answer /\ Over(q, q.answer).late = q.late)
  BY <1>1, OverFits
<1> HIDE DEF q
<1>7. TypeOK'
  <2>1. lostUpdates' \in Nat
    BY <1>1, <1>2
  <2>2. loggedOut' \in BOOLEAN
    BY <1>2
  <2>3. handed' \subseteq 1 .. minted /\ newest' \in handed'
    BY <1>2, <1>5 DEF IInv, TypeOK
  <2>4. req' \in [Requests -> Request]
    BY <1>2, <1>6 DEF IInv, TypeOK
  <2> QED
    BY <1>1, <1>2, <2>1, <2>2, <2>3, <2>4 DEF IInv, TypeOK
<1>8. /\ req'[r] = Over(q, q.answer)
      /\ \A s \in Requests : s # r => req'[s] = req[s]
      /\ \A s \in Requests : Saving(s)' => s # r /\ Saving(s) /\ req'[s] = req[s]
  BY <1>2, <1>6 DEF IInv, TypeOK, Saving
<1>9. SecretInv'
  BY <1>2, <1>3, <1>5, <1>8 DEF IInv, SecretInv
<1>10. CopyInv'
  <2> SUFFICES ASSUME NEW s \in Requests, Saving(s)'
               PROVE  /\ req'[s].loaded <= row'.version
                      /\ Meant(req'[s].record, req'[s].answer)
                      /\ req'[s].loaded = row'.version => Fits(row', req'[s].record, req'[s].answer)
    BY DEF CopyInv
  <2>1. /\ req'[s] = req[s] /\ req[s].loaded <= row.version
        /\ req[s].loaded \in Nat /\ row.version \in Nat
        /\ Meant(req[s].record, req[s].answer)
        /\ req[s].loaded = row.version => Fits(row, req[s].record, req[s].answer)
    BY <1>8 DEF IInv, CopyInv, TypeOK, Request, Row
  <2> QED
    BY <1>3, <2>1
<1>11. LogoutInv'
  <2> SUFFICES ASSUME lostUpdates' = 0
               PROVE  /\ loggedOut' => row'.state = "ended"
                      /\ \A s \in Requests : Saving(s)' \/ req'[s].pc = "answered" =>
                             (req'[s].late => req'[s].answer \notin LetsIn)
    BY DEF LogoutInv
  <2>1. loggedOut' => row'.state = "ended"
    BY <1>2, <1>3, <1>4, <1>5 DEF IInv, LogoutInv, Fits, Meant
  <2>2. q.late => q.answer \notin LetsIn
    BY <1>1, <1>4 DEF IInv, LogoutInv, q
  <2>3. ASSUME NEW s \in Requests, Saving(s)' \/ req'[s].pc = "answered", req'[s].late
        PROVE  req'[s].answer \notin LetsIn
    <3>1. CASE s = r
      BY <1>6, <1>8, <2>2, <2>3, <3>1
    <3>2. CASE s # r
      BY <1>4, <1>8, <2>3, <3>2 DEF IInv, LogoutInv
    <3> QED
      BY <3>1, <3>2
  <2> QED
    BY <2>1, <2>3
<1>12. CustodyEnds'
  BY <1>3 DEF IInv, CustodyEnds
<1>13. NewestReferenceWorks'
  BY <1>2, <1>3, <1>4 DEF IInv, NewestReferenceWorks, Fits
<1> QED
  BY <1>7, <1>9, <1>10, <1>11, <1>12, <1>13 DEF IInv

\* A save that meets another commit only ends its request.
LEMMA CommitStaleKeeps ==
    ASSUME IInv, NEW r \in Requests, CommitStale(r)
    PROVE  IInv'
<1> DEFINE q == req[r]
           a == IF q.answer = "granted" THEN "granted" ELSE "error"
<1>1. /\ q \in Request /\ Saving(r) /\ a \in Answers
      /\ req' = [req EXCEPT ![r] = Over(q, a)]
      /\ UNCHANGED <<now, row, minted, handed, newest, loggedOut, lostUpdates>>
  BY DEF CommitStale, IInv, TypeOK, Saving, Answers
<1>2. Over(q, a) \in Request /\ Over(q, a).pc \in {"start", "answered"}
      /\ (Over(q, a).pc = "answered" => Over(q, a).answer = a /\ Over(q, a).late = q.late)
  BY <1>1, OverFits
<1>3. lostUpdates = 0 /\ q.late => a \notin LetsIn
  BY <1>1 DEF IInv, LogoutInv, LetsIn
<1> HIDE DEF q, a
<1>4. TypeOK'
  BY <1>1, <1>2 DEF IInv, TypeOK
<1>5. /\ req'[r] = Over(q, a)
      /\ \A s \in Requests : s # r => req'[s] = req[s]
      /\ \A s \in Requests : Saving(s)' => s # r /\ Saving(s) /\ req'[s] = req[s]
  BY <1>1, <1>2 DEF IInv, TypeOK, Saving
<1>6. SecretInv' /\ CopyInv'
  BY <1>1, <1>5 DEF IInv, SecretInv, CopyInv
<1>7. LogoutInv'
  <2> SUFFICES ASSUME lostUpdates = 0, NEW s \in Requests, Saving(s)' \/ req'[s].pc = "answered",
                      req'[s].late
               PROVE  req'[s].answer \notin LetsIn
    BY <1>1 DEF IInv, LogoutInv
  <2>1. CASE s = r
    BY <1>2, <1>3, <1>5, <2>1
  <2>2. CASE s # r
    BY <1>5, <2>2 DEF IInv, LogoutInv
  <2> QED
    BY <2>1, <2>2
<1> QED
  BY <1>1, <1>4, <1>6, <1>7 DEF IInv, CustodyEnds, NewestReferenceWorks

\* A client that takes its answer frees the slot.
LEMMA ReceiveKeeps ==
    ASSUME IInv, NEW r \in Requests, Receive(r)
    PROVE  IInv'
<1>1. Free \in Request /\ Free.pc = "free"
  BY DEF Free, Request, Established, Row, SessionState, Answers
<1>2. TypeOK'
  BY <1>1 DEF Receive, IInv, TypeOK
<1>3. \A s \in Requests : /\ Saving(s)' => Saving(s) /\ req'[s] = req[s]
                          /\ req'[s].pc = "answered" => req'[s] = req[s]
  BY <1>1 DEF Receive, IInv, TypeOK, Saving
<1>4. SecretInv' /\ CopyInv' /\ LogoutInv'
  BY <1>3 DEF Receive, IInv, SecretInv, CopyInv, LogoutInv
<1> QED
  BY <1>2, <1>4 DEF Receive, IInv, CustodyEnds, NewestReferenceWorks

\* Every step of the sessions keeps the invariant.
LEMMA InvStep == IInv /\ [Next]_vars => IInv'
<1> SUFFICES ASSUME IInv, [Next]_vars PROVE IInv'
  OBVIOUS
<1>1. ASSUME NEW r \in Requests, NEW ref \in handed, NEW owner \in BOOLEAN,
             \/ Send(r, "call", ref, TRUE) \/ Send(r, "logout", ref, TRUE)
             \/ Send(r, "reauth", ref, owner)
      PROVE  IInv'
  <2>1. ref \in Nat
    BY DEF IInv, TypeOK
  <2>2. PICK kind \in Kinds, o \in BOOLEAN : Send(r, kind, ref, o)
    BY <1>1 DEF Send
  <2> QED
    BY <2>1, <2>2, SendKeeps
<1>2. ASSUME NEW r \in Requests, Send(r, "require_reauth", 0, TRUE) PROVE IInv'
  <2>1. "require_reauth" \in Kinds
    BY <1>2 DEF Send
  <2> QED
    BY <1>2, <2>1, SendKeeps
<1>3. CASE Tick
  BY <1>3 DEF Tick, IInv, TypeOK, SecretInv, CopyInv, LogoutInv, CustodyEnds,
              NewestReferenceWorks, Saving
<1>4. CASE UNCHANGED vars
  BY <1>4 DEF vars, IInv, TypeOK, SecretInv, CopyInv, LogoutInv, CustodyEnds,
              NewestReferenceWorks, Saving
<1>5. ASSUME NEW r \in Requests, Load(r) \/ Select(r) \/ Commit(r) \/ CommitStale(r) \/ Receive(r)
      PROVE  IInv'
  BY <1>5, LoadKeeps, SelectKeeps, CommitKeeps, CommitStaleKeeps, ReceiveKeeps
<1> QED
  BY <1>1, <1>2, <1>3, <1>4, <1>5 DEF Next

-----------------------------------------------------------------------------
(* The theorems. *)

\* The inductive invariant of the session and all its requests.
THEOREM Safety == Spec => []IInv
<1>1. /\ Established \in Row /\ Established.state = "active" /\ Established.secret = 1
      /\ Free \in Request /\ Free.pc = "free"
  BY DEF Free, Established, Request, Row, SessionState, Answers
<1>2. ASSUME Init PROVE IInv
  <2>1. TypeOK
    <3>1. row \in Row /\ req \in [Requests -> Request]
      BY <1>1, <1>2 DEF Init
    <3>2. /\ handed \subseteq 1 .. minted /\ newest \in handed
          /\ {now, minted, lostUpdates} \subseteq Nat
      BY <1>2, SMT DEF Init
    <3>3. loggedOut \in BOOLEAN
      BY <1>2, Zenon DEF Init
    <3> QED
      BY <3>1, <3>2, <3>3 DEF TypeOK
  <2>2. \A r \in Requests : ~Saving(r) /\ req[r].pc # "answered"
    BY <1>1, <1>2 DEF Init, Saving
  <2> QED
    BY <1>1, <1>2, <2>1, <2>2 DEF Init, IInv, SecretInv, CopyInv, LogoutInv, CustodyEnds,
                                  NewestReferenceWorks
<1> QED
  BY <1>2, InvStep, PTL DEF Spec

\* Every variable has its type: the row is one the table can hold.
THEOREM TypeCorrect == Spec => []TypeOK
  BY Safety, PTL DEF IInv

\* An ended session holds no credential, however the saves raced.
THEOREM CustodyHolds == Spec => []CustodyEnds
  BY Safety, PTL DEF IInv

\* After an answered logout no request is let in, unless a save overwrote a
\* newer row.
THEOREM LogoutHolds == Spec => []NoAccessAfterLogout
<1>1. IInv => NoAccessAfterLogout
  BY DEF IInv, LogoutInv, LetsIn, NoAccessAfterLogout
<1> QED
  BY <1>1, Safety, PTL

\* The last reference handed out is the one that works, unless a save
\* overwrote a newer row.
THEOREM NewestHolds == Spec => []NewestReferenceWorks
  BY Safety, PTL DEF IInv

\* Each step that overwrites no newer row is a step of the contract, or none.
THEOREM ContractKept == Spec => KeepsContract
<1>1. IInv /\ [Next]_vars =>
        [lostUpdates' = lostUpdates => Contract!Next]_<<row.state, row.secret>>
  <2> SUFFICES ASSUME IInv, [Next]_vars, lostUpdates' = lostUpdates,
                      <<row.state, row.secret>>' # <<row.state, row.secret>>
               PROVE  Contract!Next
    OBVIOUS
  <2>1. PICK r \in Requests : Commit(r)
    BY DEF Next, vars, Send, Load, Select, CommitStale, Receive, Tick
  <2> DEFINE q == req[r]
  <2>2. /\ q.record \in Row /\ row \in Row
        /\ row'.secret = q.record.secret /\ row'.state = q.record.state
        /\ Fits(row, q.record, q.answer) /\ Meant(q.record, q.answer)
    BY <2>1, CommitWrites, StoredFits DEF IInv, TypeOK, CopyInv, Request
  <2> HIDE DEF q
  <2>3. CASE q.answer = "revived"
    BY <2>2, <2>3 DEF Fits, Meant, Contract!Next, Contract!Relogin
  <2>4. CASE q.answer # "revived"
    BY <2>2, <2>4 DEF Fits, Row, SessionState, Contract!Next, Contract!Challenge, Contract!End
  <2> QED
    BY <2>3, <2>4
<1> QED
  BY <1>1, Safety, PTL DEF Spec, KeepsContract
=============================================================================
