----------------------------- MODULE EditFormProofs -----------------------------
(***************************************************************************)
(* Proofs about EditForm over RecordWrites, for any fields, forms, calls   *)
(* and bounds.  Everything a request or a form knows of the record it has  *)
(* from a row it read earlier; the invariant says what such a row is worth *)
(* as long as the record still has its version.                            *)
(***************************************************************************)
EXTENDS EditForm, SequenceTheorems, TLAPS

-----------------------------------------------------------------------------
(* The state is a parameter of each part: r the record, h the history. *)

\* vals are the values of the version v, if it is still the record's.
Claim(v, vals, r) == v <= r.version /\ (v = r.version => vals = r.values)

\* A row that was the record once.
CopyOK(c, r) ==
    /\ c.version <= r.version
    /\ c.version = r.version => c = r

\* The history leads to the record's values, and no row is newer than it.
HistoryOK(r, h) ==
    \A n \in Fields :
        LET rows == h[n] IN
        /\ r.values[n] = IF rows = <<>> THEN Blank ELSE rows[Len(rows)].new
        /\ rows # <<>> => rows[Len(rows)].version <= r.version
        /\ \A i \in 1 .. Len(rows) :
              /\ rows[i].old = IF i = 1 THEN Blank ELSE rows[i - 1].new
              /\ rows[i].old # rows[i].new
              /\ i > 1 => rows[i - 1].version < rows[i].version

\* The request c, and what b says of its sender.
CallOK(c, b, r) ==
    /\ c.stage \in {"loaded", "stale", "landed"} => CopyOK(c.copy, r)
    /\ c.stage \in {"sent", "loaded"} => c.version <= r.version
    /\ c.stage = "loaded" => c.version = c.copy.version /\ (~c.restore => ~c.copy.deleted)
    /\ c.restore => DOMAIN c.changes = {}
    /\ c.stage \in {"sent", "loaded"} /\ ~b.drifted /\ c.version = r.version =>
          \A n \in DOMAIN c.changes : r.values[n] = b.seen[n]

\* What the form f compares with is what the record was.
FormOK(f, r) ==
    /\ Claim(f.rowVersion, f.loaded, r)
    /\ f.merge # 0 => Claim(f.merge, f.loaded, r)

\* Each value that Save was clicked with is the record's since the click.
AllHeld(f, b, r, h) ==
    \A n \in DOMAIN f.clicked : HeldSince(n, f.clicked[n], b.since, r, h)

\* The form f waits for the call c: an answer is no older than what the form
\* has, it resolves against what b says it was clicked on, and each value that
\* Save was clicked with is on its way or was the record's since.
WaitOK(f, c, b, r, h) ==
    /\ ~c.restore
    /\ c.stage \in {"stale", "landed"} => f.rowVersion <= c.copy.version
                                          /\ f.merge <= c.copy.version
    /\ b.since <= r.version
    /\ ~b.drifted => f.base = b.seen
    /\ \A n \in DOMAIN f.clicked :
          /\ \/ n \in DOMAIN c.changes /\ c.changes[n] = f.clicked[n]
             \/ HeldSince(n, f.clicked[n], b.since, r, h)
          /\ c.stage = "stale" /\ c.copy.values[n] = f.clicked[n] =>
                HeldSince(n, f.clicked[n], b.since, r, h)
    /\ c.stage \in {"committed", "landed"} => AllHeld(f, b, r, h)

Waits == \A u \in Forms : form[u].call # NoCall =>
             WaitOK(form[u], call[form[u].call], basis[form[u].call], record, history)

\* The inductive invariant.
IInv ==
    /\ TypeOK
    /\ HistoryOK(record, history)
    /\ CopyOK(Created, record)
    /\ \A k \in Calls : CallOK(call[k], basis[k], record)
    /\ \A u \in Forms : FormOK(form[u], record)
    /\ Waits

USE WritesAssumption, FormAssumption

-----------------------------------------------------------------------------
(* What is known stays known while the record and its history grow. *)

\* The step from r and h to r2 and h2 writes a newer version or nothing.
Grows(r, h, r2, h2) ==
    /\ r2 = r \/ r.version < r2.version
    /\ \A n \in Fields :
          /\ Range(h[n]) \subseteq Range(h2[n])
          /\ r2.values[n] # r.values[n] =>
                \E row \in Range(h2[n]) : row.old = r.values[n] /\ row.version = r2.version

\* A row that was the record once stays one.
LEMMA CopyGrows ==
    ASSUME NEW r \in Record, NEW r2 \in Record, NEW h, NEW h2, Grows(r, h, r2, h2),
           NEW c \in Record, CopyOK(c, r)
    PROVE  CopyOK(c, r2)
  BY DEF Grows, CopyOK, Record

\* What a call in flight carries stays true while the record only moves on.
LEMMA CallGrows ==
    ASSUME NEW r \in Record, NEW r2 \in Record, NEW h, NEW h2, Grows(r, h, r2, h2),
           NEW c \in Call, NEW b \in Basis, CallOK(c, b, r)
    PROVE  CallOK(c, b, r2)
<1>1. c.copy \in Record /\ c.version \in Nat /\ r.version \in Nat /\ r2.version \in Nat
  BY DEF Call, Record
<1>2. c.stage \in {"loaded", "stale", "landed"} => CopyOK(c.copy, r2)
  BY <1>1, CopyGrows DEF CallOK
<1> QED
  BY <1>1, <1>2 DEF CallOK, Grows

\* What a form knows of the record stays true while the record only moves on.
LEMMA FormGrows ==
    ASSUME NEW r \in Record, NEW r2 \in Record, NEW h, NEW h2, Grows(r, h, r2, h2),
           NEW f \in Form, FormOK(f, r)
    PROVE  FormOK(f, r2)
<1>1. f.rowVersion \in Nat /\ f.merge \in Nat /\ r.version \in Nat /\ r2.version \in Nat
  BY DEF Form, Record
<1> QED
  BY <1>1 DEF FormOK, Claim, Grows

\* A value the record has had since a version stays one.
LEMMA HeldGrows ==
    ASSUME NEW r \in Record, NEW r2 \in Record, NEW h, NEW h2, Grows(r, h, r2, h2),
           NEW n \in Fields, NEW v, NEW since \in Nat, since <= r.version,
           HeldSince(n, v, since, r, h)
    PROVE  HeldSince(n, v, since, r2, h2)
<1>1. r.version \in Nat /\ r2.version \in Nat
  BY DEF Record
<1>2. CASE \E row \in Range(h[n]) : row.version > since /\ row.old = v
  BY <1>2 DEF Grows, HeldSince
<1>3. CASE r.values[n] = v /\ r2.values[n] # v
  <2>1. PICK row \in Range(h2[n]) : row.old = v /\ row.version = r2.version
    BY <1>3 DEF Grows
  <2>2. r.version < r2.version
    BY <1>3 DEF Grows
  <2> QED
    BY <1>1, <2>1, <2>2 DEF HeldSince
<1> QED
  BY <1>2, <1>3 DEF HeldSince

\* A form that waits for its call waits for it still, however the record moves on.
LEMMA WaitGrows ==
    ASSUME NEW r \in Record, NEW r2 \in Record, NEW h, NEW h2, Grows(r, h, r2, h2),
           NEW f \in Form, NEW c \in Call, NEW b \in Basis, WaitOK(f, c, b, r, h)
    PROVE  WaitOK(f, c, b, r2, h2)
<1>1. DOMAIN f.clicked \subseteq Fields
  BY DEF Form, Payload
<1>2. b.since \in Nat /\ b.since <= r.version /\ b.since <= r2.version
  BY DEF Basis, Record, WaitOK, Grows
<1>3. \A n \in DOMAIN f.clicked :
         HeldSince(n, f.clicked[n], b.since, r, h) => HeldSince(n, f.clicked[n], b.since, r2, h2)
  BY <1>1, <1>2, HeldGrows
<1>4. AllHeld(f, b, r, h) => AllHeld(f, b, r2, h2)
  BY <1>3 DEF AllHeld
<1> QED
  BY <1>2, <1>3, <1>4 DEF WaitOK

\* A step that changes at most one call and no form.
LEMMA CallStep ==
    ASSUME IInv, TypeOK', NEW k \in Calls, Grows(record, history, record', history'),
           HistoryOK(record', history'),
           \A j \in Calls : j # k => call'[j] = call[j] /\ basis'[j] = basis[j],
           CallOK(call'[k], basis'[k], record'),
           UNCHANGED form,
           \A u \in Forms : form[u].call = k =>
              WaitOK(form[u], call'[k], basis'[k], record', history')
    PROVE  IInv'
<1>1. /\ record \in Record /\ record' \in Record /\ Created \in Record
      /\ call \in [Calls -> Call] /\ basis \in [Calls -> Basis] /\ form \in [Forms -> Form]
  BY DEF IInv, TypeOK, WritesTypeOK, Basis, Created, Record
<1>2. CopyOK(Created, record')
  BY <1>1, CopyGrows DEF IInv
<1>3. \A j \in Calls : CallOK(call'[j], basis'[j], record')
  BY <1>1, CallGrows DEF IInv
<1>4. \A u \in Forms : FormOK(form'[u], record')
  BY <1>1, FormGrows DEF IInv
<1>5. Waits'
  <2> SUFFICES ASSUME NEW u \in Forms, form[u].call # NoCall
               PROVE  WaitOK(form[u], call'[form[u].call], basis'[form[u].call], record', history')
    BY DEF Waits
  <2>1. form[u].call \in Calls
    BY <1>1 DEF Form
  <2>2. WaitOK(form[u], call[form[u].call], basis[form[u].call], record, history)
    BY DEF IInv, Waits
  <2>3. CASE form[u].call = k
    BY <2>3
  <2>4. CASE form[u].call # k
    <3>1. WaitOK(form[u], call[form[u].call], basis[form[u].call], record', history')
      BY <1>1, <2>1, <2>2, WaitGrows
    <3> QED
      BY <2>1, <2>4, <3>1
  <2> QED
    BY <2>3, <2>4
<1> QED
  BY <1>2, <1>3, <1>4, <1>5 DEF IInv

-----------------------------------------------------------------------------
(* The steps of the write engine. *)

\* A record as the history leaves it knows only values that were there.
LEMMA RecordIsCopy ==
    ASSUME IInv
    PROVE  CopyOK(record, record) /\ record.version \in Nat
<1>1. record \in Record
  BY DEF IInv, TypeOK, WritesTypeOK
<1> QED
  BY <1>1 DEF CopyOK, Record

\* A call goes on to a stage with the row as it is now.
LEMMA AnswerHolds ==
    ASSUME IInv, NEW k \in Calls, NEW stage \in {"loaded", "committed"} \cup Answers,
           Answer(k, stage), UNCHANGED <<record, history, form, basis, moves>>, refused' \in Nat,
           stage = "loaded" => /\ call[k].stage = "sent" /\ call[k].version = record.version
                               /\ ~call[k].restore => ~record.deleted,
           stage \in {"committed", "landed"} =>
              \A u \in Forms : form[u].call = k => AllHeld(form[u], basis[k], record, history)
    PROVE  IInv'
<1> DEFINE copy == IF stage \in {"notFound", "refused"} THEN Created ELSE record
           c == [call[k] EXCEPT !.stage = stage, !.copy = copy]
<1>1. /\ record \in Record /\ Created \in Record /\ call[k] \in Call
      /\ call \in [Calls -> Call] /\ basis[k] \in Basis /\ form \in [Forms -> Form]
      /\ history \in [Fields -> Seq(Change)]
  BY DEF IInv, TypeOK, WritesTypeOK, Basis, Created, Record
<1>2. copy \in Record /\ (stage \in {"loaded", "committed", "stale", "landed"} => copy = record)
  BY <1>1
<1>3. call' = [call EXCEPT ![k] = c]
  BY <1>1 DEF Answer, Call
<1> HIDE DEF copy
<1>4. /\ c \in Call /\ c.stage = stage /\ c.copy = copy /\ c.version = call[k].version
      /\ c.restore = call[k].restore /\ c.changes = call[k].changes
  BY <1>1, <1>2 DEF Call, Answers
<1> HIDE DEF c
<1>5. call'[k] = c /\ \A j \in Calls : j # k => call'[j] = call[j]
  BY <1>1, <1>3
<1>6. Grows(record, history, record', history') /\ HistoryOK(record', history')
  BY DEF Grows, IInv
<1>7. TypeOK'
  <2>1. \A u \in Forms : form[u].call # NoCall => call'[form[u].call].stage # "free"
    BY <1>1, <1>4, <1>5 DEF IInv, TypeOK, Answers, Form
  <2>2. WritesTypeOK'
    BY <1>1, <1>3, <1>4 DEF WritesTypeOK
  <2> QED
    BY <2>1, <2>2 DEF IInv, TypeOK
<1>8. CallOK(c, basis[k], record)
  <2>1. CallOK(call[k], basis[k], record)
    BY DEF IInv
  <2>2. c.stage \in {"loaded", "stale", "landed"} => CopyOK(c.copy, record)
    BY <1>2, <1>4, RecordIsCopy
  <2> QED
    BY <1>2, <1>4, <2>1, <2>2 DEF CallOK, Answers
<1>9. ASSUME NEW u \in Forms, form[u].call = k
      PROVE  WaitOK(form[u], c, basis[k], record, history)
  <2>1. WaitOK(form[u], call[k], basis[k], record, history)
    BY <1>9 DEF IInv, Waits
  <2>2. form[u] \in Form /\ DOMAIN form[u].clicked \subseteq Fields
    BY <1>1 DEF Form, Payload
  <2>3. stage \in {"stale", "landed"} =>
           form[u].rowVersion <= c.copy.version /\ form[u].merge <= c.copy.version
    <3>1. form[u].rowVersion \in Nat /\ form[u].merge \in Nat /\ record.version \in Nat
      BY <1>1, <2>2 DEF Form, Record
    <3>2. /\ form[u].rowVersion <= record.version
          /\ form[u].merge # 0 => form[u].merge <= record.version
      BY DEF IInv, FormOK, Claim
    <3>3. stage \in {"stale", "landed"} => c.copy.version = record.version
      BY <1>2, <1>4
    <3> QED
      BY <3>1, <3>2, <3>3
  <2>4. \A n \in DOMAIN form[u].clicked :
           stage = "stale" /\ c.copy.values[n] = form[u].clicked[n] =>
              HeldSince(n, form[u].clicked[n], basis[k].since, record, history)
    BY <1>2, <1>4 DEF HeldSince
  <2> QED
    BY <1>4, <1>9, <2>1, <2>3, <2>4 DEF WaitOK
<1> QED
  BY <1>5, <1>6, <1>7, <1>8, <1>9, CallStep

\* A request is received: it is answered, or loaded for the flush.
LEMMA ReceiveHolds ==
    ASSUME IInv, NEW k \in Calls, Receive(k), UNCHANGED <<form, basis, moves>>
    PROVE  IInv'
<1> DEFINE c == call[k]
           current == c.version = record.version
           noop == ~c.restore /\ Changed(c.changes, record) = {}
<1>1. /\ c.stage = "sent" /\ UNCHANGED <<record, history>> /\ refused \in Nat
  BY DEF Receive, IInv, TypeOK, WritesTypeOK
<1>2. ASSUME noop
      PROVE  \A u \in Forms : form[u].call = k => AllHeld(form[u], basis[k], record, history)
  <2>1. \A n \in DOMAIN c.changes : record.values[n] = c.changes[n]
    BY <1>2 DEF Changed
  <2> QED
    BY <2>1 DEF IInv, Waits, WaitOK, AllHeld, HeldSince
<1>3. ASSUME AlreadyLive(k) PROVE \A u \in Forms : form[u].call # k
  BY <1>3 DEF AlreadyLive, IInv, Waits, WaitOK
<1>4. CASE Missing(k) /\ Answer(k, "notFound") /\ UNCHANGED refused
  BY <1>1, <1>4, AnswerHolds DEF Answers
<1>5. CASE AlreadyLive(k) /\ Answer(k, "committed") /\ UNCHANGED refused
  BY <1>1, <1>3, <1>5, AnswerHolds DEF Answers
<1>6. CASE Answer(k, "stale") /\ UNCHANGED refused
  BY <1>1, <1>6, AnswerHolds DEF Answers
<1>7. CASE refused' = refused + 1 /\ Answer(k, "refused")
  <2>1. refused' \in Nat
    BY <1>1, <1>7
  <2> QED
    BY <1>1, <1>7, <2>1, AnswerHolds DEF Answers
<1>8. CASE noop /\ Answer(k, "committed") /\ UNCHANGED refused
  <2> HIDE DEF noop
  <2> QED
    BY <1>1, <1>2, <1>8, AnswerHolds DEF Answers
<1>9. CASE /\ ~Missing(k) /\ current /\ Answer(k, "loaded") /\ UNCHANGED refused
  BY <1>1, <1>9, AnswerHolds DEF Answers, Missing
<1> QED
  BY <1>4, <1>5, <1>6, <1>7, <1>8, <1>9 DEF Receive

\* The flush of a call that comes too late, and the answer after the commit.
LEMMA AnswersHold ==
    ASSUME IInv, NEW k \in Calls, FlushStale(k) \/ Serialize(k), UNCHANGED <<form, basis, moves>>
    PROVE  IInv'
<1>1. refused \in Nat
  BY DEF IInv, TypeOK, WritesTypeOK
<1>2. CASE FlushStale(k)
  <2> DEFINE stage == IF Missing(k) THEN "notFound" ELSE "stale"
  <2>1. Answer(k, stage) /\ UNCHANGED <<record, history, refused>>
    BY <1>2 DEF FlushStale
  <2>2. stage \in Answers /\ stage \notin {"loaded", "committed", "landed"}
    BY DEF Answers
  <2> HIDE DEF stage
  <2> QED
    BY <1>1, <2>1, <2>2, AnswerHolds
<1>3. CASE Serialize(k)
  <2>1. \A u \in Forms : form[u].call = k => AllHeld(form[u], basis[k], record, history)
    BY <1>3 DEF Serialize, IInv, Waits, WaitOK
  <2>2. Answer(k, "landed") /\ UNCHANGED <<record, history, refused>>
    BY <1>3 DEF Serialize
  <2> QED
    BY <1>1, <2>1, <2>2, AnswerHolds DEF Answers
<1> QED
  BY <1>2, <1>3

\* The rows of a field, in the order they were written.
Chain(rows) ==
    \A i \in 1 .. Len(rows) :
        /\ rows[i].old = IF i = 1 THEN Blank ELSE rows[i - 1].new
        /\ rows[i].old # rows[i].new
        /\ i > 1 => rows[i - 1].version < rows[i].version

\* A row that continues the history leaves a history.
LEMMA AppendChains ==
    ASSUME NEW rows \in Seq(Change), Chain(rows), NEW x \in Change,
           x.old = IF rows = <<>> THEN Blank ELSE rows[Len(rows)].new, x.old # x.new,
           rows # <<>> => rows[Len(rows)].version < x.version
    PROVE  /\ Append(rows, x) \in Seq(Change) /\ Append(rows, x) # <<>>
           /\ Append(rows, x)[Len(Append(rows, x))] = x
           /\ Chain(Append(rows, x))
           /\ Range(rows) \subseteq Range(Append(rows, x)) /\ x \in Range(Append(rows, x))
<1> DEFINE more == Append(rows, x)
<1>1. /\ more \in Seq(Change) /\ Len(more) = Len(rows) + 1 /\ Len(rows) \in Nat
      /\ more[Len(rows) + 1] = x /\ \A i \in 1 .. Len(rows) : more[i] = rows[i]
      /\ DOMAIN more = 1 .. Len(rows) + 1 /\ DOMAIN rows = 1 .. Len(rows)
      /\ rows = <<>> <=> Len(rows) = 0
  OBVIOUS
<1> HIDE DEF more
<1>2. more # <<>> /\ more[Len(more)] = x
  BY <1>1
<1>3. Chain(more)
  <2> SUFFICES ASSUME NEW i \in 1 .. Len(more)
               PROVE  /\ more[i].old = IF i = 1 THEN Blank ELSE more[i - 1].new
                      /\ more[i].old # more[i].new
                      /\ i > 1 => more[i - 1].version < more[i].version
    BY DEF Chain
  <2>1. CASE i = Len(rows) + 1
    BY <1>1, <2>1
  <2>2. CASE i # Len(rows) + 1
    <3>1. i \in 1 .. Len(rows) /\ more[i] = rows[i] /\ (i > 1 => more[i - 1] = rows[i - 1])
      BY <1>1, <2>2
    <3> QED
      BY <3>1 DEF Chain
  <2> QED
    BY <2>1, <2>2
<1>4. Range(rows) \subseteq Range(more) /\ x \in Range(more)
  BY <1>1 DEF Range
<1> QED
  BY <1>1, <1>2, <1>3, <1>4 DEF more

\* The flush lands: the values it writes and the rows it adds agree, and only a
\* call of a newer version is left to flush.
LEMMA FlushHolds ==
    ASSUME IInv, NEW k \in Calls, Flush(k), UNCHANGED <<form, basis, moves>>
    PROVE  IInv'
<1> DEFINE c == call[k]
           new == record.version + 1
           changed == IF c.restore THEN {} ELSE Changed(c.changes, c.copy)
           row(n) == [old |-> c.copy.values[n], new |-> c.changes[n], version |-> new]
           values == [n \in Fields |-> IF n \in changed THEN c.changes[n] ELSE record.values[n]]
           d == [call[k] EXCEPT !.stage = "committed", !.copy = Created]
<1>1. /\ record \in Record /\ Created \in Record /\ call[k] \in Call /\ c.stage = "loaded"
      /\ call \in [Calls -> Call] /\ basis[k] \in Basis /\ form \in [Forms -> Form]
      /\ history \in [Fields -> Seq(Change)]
  BY DEF Flush, IInv, TypeOK, WritesTypeOK, Basis, Created, Record
<1>2. c.copy = record /\ c.version = record.version
  BY <1>1 DEF Flush, Current, IInv, CallOK, CopyOK
<1>3. /\ record' = [record EXCEPT !.version = new, !.values = values,
                                  !.deleted = IF c.restore THEN FALSE ELSE @]
      /\ history' = [n \in Fields |-> IF n \notin changed THEN history[n]
                                      ELSE Append(history[n], row(n))]
      /\ call' = [call EXCEPT ![k] = d]
      /\ UNCHANGED refused
  BY <1>1 DEF Flush, Record, Call
<1>4. /\ changed \subseteq Fields /\ changed \subseteq DOMAIN c.changes
      /\ \A n \in changed : c.changes[n] \in Values /\ c.changes[n] # record.values[n]
  BY <1>1, <1>2 DEF Changed, Call, Payload
<1>5. ASSUME NEW n \in DOMAIN c.changes, ~c.restore, n \notin changed
      PROVE  record.values[n] = c.changes[n]
  BY <1>2, <1>5 DEF Changed
<1> HIDE DEF changed
<1>6. new \in Nat /\ record.version < new
  BY <1>1 DEF Record
<1> HIDE DEF new
<1>7. values \in [Fields -> Values]
  BY <1>1, <1>4 DEF Record
<1> HIDE DEF values
<1>8. record' \in Record /\ record'.version = new /\ record'.values = values
  <2> DEFINE deleted == IF c.restore THEN FALSE ELSE record.deleted
  <2>1. deleted \in BOOLEAN
    BY <1>1 DEF Record, Call
  <2>2. record' = [record EXCEPT !.version = new, !.values = values, !.deleted = deleted]
    BY <1>3
  <2> HIDE DEF deleted
  <2> QED
    BY <1>1, <1>6, <1>7, <2>1, <2>2 DEF Record
<1>9. ASSUME NEW n \in changed
      PROVE  /\ history'[n] = Append(history[n], row(n)) /\ row(n).new = c.changes[n]
             /\ history'[n] \in Seq(Change) /\ history'[n] # <<>>
             /\ history'[n][Len(history'[n])] = row(n)
             /\ Chain(history'[n])
             /\ Range(history[n]) \subseteq Range(history'[n]) /\ row(n) \in Range(history'[n])
             /\ row(n).old = record.values[n] /\ row(n).version = new
  <2>1. history'[n] = Append(history[n], row(n))
    BY <1>3, <1>4
  <2>2. history[n] \in Seq(Change) /\ Chain(history[n])
    BY <1>1, <1>4 DEF IInv, HistoryOK, Chain
  <2>3. /\ row(n) \in Change /\ row(n).old = record.values[n] /\ row(n).new = c.changes[n]
        /\ row(n).version = new
    BY <1>1, <1>2, <1>4, <1>6 DEF Change, Record
  <2> HIDE DEF row
  <2>4. /\ row(n).old = IF history[n] = <<>> THEN Blank ELSE history[n][Len(history[n])].new
        /\ row(n).old # row(n).new
    BY <1>4, <2>3 DEF IInv, HistoryOK
  <2>5. history[n] # <<>> => history[n][Len(history[n])].version < row(n).version
    <3> SUFFICES ASSUME history[n] # <<>>
                 PROVE  history[n][Len(history[n])].version < row(n).version
      OBVIOUS
    <3>1. history[n][Len(history[n])].version <= record.version
      BY <1>4 DEF IInv, HistoryOK
    <3>2. history[n][Len(history[n])] \in Change
      BY <2>2
    <3>3. history[n][Len(history[n])].version \in Nat /\ record.version \in Nat
      BY <1>1, <3>2 DEF Change, Record
    <3> QED
      BY <1>6, <2>3, <3>1, <3>3
  <2> QED
    BY <2>1, <2>2, <2>3, <2>4, <2>5, AppendChains
<1>10. \A n \in Fields : n \notin changed => history'[n] = history[n]
  BY <1>3
<1>11. Grows(record, history, record', history')
  <2>1. ASSUME NEW n \in Fields, values[n] # record.values[n]
        PROVE  \E x \in Range(history'[n]) : x.old = record.values[n] /\ x.version = new
    <3>1. n \in changed
      BY <2>1 DEF values
    <3> QED
      BY <1>9, <3>1
  <2>2. \A n \in Fields : Range(history[n]) \subseteq Range(history'[n])
    BY <1>9, <1>10
  <2> QED
    BY <1>6, <1>8, <2>1, <2>2 DEF Grows
<1>12. HistoryOK(record', history')
  <2> SUFFICES ASSUME NEW n \in Fields
               PROVE  /\ values[n] = IF history'[n] = <<>> THEN Blank
                                     ELSE history'[n][Len(history'[n])].new
                      /\ history'[n] # <<>> => history'[n][Len(history'[n])].version <= new
                      /\ Chain(history'[n])
    BY <1>8 DEF HistoryOK, Chain
  <2>1. CASE n \in changed
    <3>1. values[n] = c.changes[n]
      BY <2>1 DEF values
    <3>2. row(n).version = new /\ row(n).new = c.changes[n]
      BY <1>9, <2>1
    <3>3. new <= new
      BY <1>6
    <3>4. /\ history'[n] # <<>> /\ Chain(history'[n])
          /\ history'[n][Len(history'[n])] = row(n)
      BY <1>9, <2>1
    <3> HIDE DEF row
    <3> QED
      BY <3>1, <3>2, <3>3, <3>4
  <2>2. CASE n \notin changed
    <3>1. values[n] = record.values[n] /\ history'[n] = history[n]
      BY <1>10, <2>2 DEF values
    <3>2. history[n] # <<>> => history[n][Len(history[n])].version \in Nat
      <4>1. history[n] \in Seq(Change)
        BY <1>1
      <4>2. history[n] # <<>> => history[n][Len(history[n])] \in Change
        BY <4>1
      <4> QED
        BY <4>2 DEF Change
    <3>3. record.version \in Nat
      BY <1>1 DEF Record
    <3> QED
      BY <1>6, <3>1, <3>2, <3>3 DEF IInv, HistoryOK, Chain
  <2> QED
    BY <2>1, <2>2
<1>13. /\ d \in Call /\ d.stage = "committed" /\ d.restore = c.restore /\ d.changes = c.changes
  BY <1>1 DEF Call
<1> HIDE DEF d
<1>14. call'[k] = d /\ \A j \in Calls : j # k => call'[j] = call[j]
  BY <1>1, <1>3
<1>15. TypeOK'
  <2>1. history' \in [Fields -> Seq(Change)]
    BY <1>1, <1>3, <1>9
  <2>2. call' \in [Calls -> Call]
    BY <1>1, <1>3, <1>13
  <2>3. WritesTypeOK'
    BY <1>3, <1>8, <2>1, <2>2 DEF IInv, TypeOK, WritesTypeOK
  <2>4. \A u \in Forms : form[u].call # NoCall => call'[form[u].call].stage # "free"
    BY <1>1, <1>13, <1>14 DEF IInv, TypeOK, Form
  <2> QED
    BY <2>3, <2>4 DEF IInv, TypeOK
<1>16. CallOK(d, basis[k], record')
  BY <1>13 DEF CallOK, IInv
<1>17. ASSUME NEW u \in Forms, form[u].call = k
       PROVE  WaitOK(form[u], d, basis[k], record', history')
  <2>1. WaitOK(form[u], call[k], basis[k], record, history) /\ form[u] \in Form
    BY <1>1, <1>17 DEF IInv, Waits
  <2>2. WaitOK(form[u], call[k], basis[k], record', history')
    BY <1>1, <1>8, <1>11, <2>1, WaitGrows
  <2>3. \A n \in DOMAIN c.changes : n \in Fields => values[n] = c.changes[n]
    BY <1>5, <2>1 DEF values, WaitOK
  <2>4. DOMAIN form[u].clicked \subseteq Fields
    BY <2>1 DEF Form, Payload
  <2>5. AllHeld(form[u], basis[k], record', history')
    BY <1>8, <2>2, <2>3, <2>4 DEF WaitOK, AllHeld, HeldSince
  <2> QED
    BY <1>13, <2>2, <2>5 DEF WaitOK
<1> QED
  BY <1>11, <1>12, <1>14, <1>15, <1>16, <1>17, CallStep

\* The record is removed; its values and their history stay.
LEMMA SoftDeleteHolds ==
    ASSUME IInv, SoftDelete, UNCHANGED <<form, basis, moves>>
    PROVE  IInv'
<1>1. /\ record \in Record /\ Created \in Record /\ history \in [Fields -> Seq(Change)]
      /\ call \in [Calls -> Call] /\ basis \in [Calls -> Basis] /\ form \in [Forms -> Form]
  BY DEF IInv, TypeOK, WritesTypeOK, Basis, Created, Record
<1>2. /\ record' \in Record /\ record'.values = record.values /\ record'.version \in Nat
      /\ record.version \in Nat /\ record'.version = record.version + 1
  <2> DEFINE version == record.version + 1
  <2>1. version \in Nat /\ record' = [record EXCEPT !.version = version, !.deleted = TRUE]
    BY <1>1 DEF SoftDelete, Record
  <2>2. record'.version = version
    BY <1>1, <2>1 DEF Record
  <2> HIDE DEF version
  <2>3. record' \in Record /\ record'.values = record.values
    BY <1>1, <2>1 DEF Record
  <2> QED
    BY <1>1, <2>1, <2>2, <2>3 DEF Record, version
<1>3. UNCHANGED <<history, call, refused>>
  BY DEF SoftDelete
<1>4. Grows(record, history, record', history')
  BY <1>2, <1>3 DEF Grows
<1>5. HistoryOK(record', history')
  <2> SUFFICES ASSUME NEW n \in Fields
               PROVE  history[n] # <<>> => history[n][Len(history[n])].version <= record'.version
    BY <1>2, <1>3 DEF IInv, HistoryOK
  <2>1. history[n] # <<>> => history[n][Len(history[n])] \in Change
    <3>1. history[n] \in Seq(Change)
      BY <1>1
    <3> QED
      BY <3>1
  <2>2. history[n] # <<>> => history[n][Len(history[n])].version <= record.version
    BY DEF IInv, HistoryOK
  <2> QED
    BY <1>2, <2>1, <2>2 DEF Change
<1>6. CopyOK(Created, record')
  BY <1>1, <1>2, <1>4, CopyGrows DEF IInv
<1>7. \A k \in Calls : CallOK(call'[k], basis'[k], record')
  BY <1>1, <1>2, <1>3, <1>4, CallGrows DEF IInv
<1>8. \A u \in Forms : FormOK(form'[u], record')
  BY <1>1, <1>2, <1>4, FormGrows DEF IInv
<1>9. TypeOK'
  BY <1>2, <1>3 DEF IInv, TypeOK, WritesTypeOK
<1>10. ASSUME NEW u \in Forms, form[u].call # NoCall
       PROVE  WaitOK(form[u], call[form[u].call], basis[form[u].call], record', history')
  <2>1. WaitOK(form[u], call[form[u].call], basis[form[u].call], record, history)
    BY <1>10 DEF IInv, Waits
  <2>2. form[u] \in Form /\ form[u].call \in Calls
    BY <1>1, <1>10 DEF Form
  <2> QED
    BY <1>1, <1>2, <1>4, <2>1, <2>2, WaitGrows
<1>11. Waits'
  BY <1>3, <1>10 DEF Waits
<1> QED
  BY <1>5, <1>6, <1>7, <1>8, <1>9, <1>11 DEF IInv

-----------------------------------------------------------------------------
(* The steps of the form. *)

\* What a copy of the record is worth to the form that takes it over.
LEMMA CopyIsClaim ==
    ASSUME NEW r \in Record, NEW c \in Record, CopyOK(c, r), NEW v \in Nat,
           v <= c.version
    PROVE  Claim(v, c.values, r)
  BY DEF CopyOK, Claim, Record

\* A request without changes.
LEMMA NoChanges == <<>> \in Payload /\ DOMAIN <<>> = {}
<1>1. <<>> \in [{} -> Values]
  OBVIOUS
<1> QED
  BY <1>1 DEF Payload

\* A form on a row that was the record, as mounting it or a rebase leaves it.
LEMMA OnHolds ==
    ASSUME IInv, NEW c \in Record, CopyOK(c, record)
    PROVE  On(c) \in Form /\ On(c).call = NoCall /\ FormOK(On(c), record)
<1>1. Created \in Record /\ record \in Record
  BY DEF IInv, TypeOK, WritesTypeOK, Created, Record
<1>2. On(c) \in Form
  BY <1>1, NoChanges DEF On, Form, Record
<1>3. Claim(c.version, c.values, record)
  BY <1>1, CopyIsClaim DEF Record
<1> QED
  BY <1>2, <1>3 DEF On, FormOK, CopyOK

\* A free call asks for nothing.
LEMMA FreeHolds ==
    ASSUME IInv, NEW b
    PROVE  Free \in Call /\ Free.stage = "free" /\ CallOK(Free, b, record)
<1>1. Created \in Record
  BY DEF Created, Record
<1>2. Free \in Call
  BY <1>1, NoChanges DEF Free, Call
<1> QED
  BY <1>2 DEF Free, CallOK

\* A step of form u that touches at most the call it waits for, or a free one.
LEMMA FormStep ==
    ASSUME IInv, NEW u \in Forms, NEW f \in Form, Set(u, f), NEW k \in Calls \cup {NoCall},
           k = form[u].call \/ (k \in Calls /\ call[k].stage = "free"),
           UNCHANGED <<record, history, refused>>, moves' \in Nat,
           call' \in [Calls -> Call], basis' \in [Calls -> Basis],
           \A j \in Calls : j # k => call'[j] = call[j] /\ basis'[j] = basis[j],
           k \in Calls => CallOK(call'[k], basis'[k], record),
           FormOK(f, record), f.call \in {NoCall, k},
           f.call # NoCall => /\ call'[k].stage # "free"
                              /\ WaitOK(f, call'[k], basis'[k], record, history)
    PROVE  IInv'
<1>1. form \in [Forms -> Form] /\ Closed \in Form /\ Closed.call = NoCall
      /\ FormOK(Closed, record)
  <2>1. Created \in Record /\ CopyOK(Created, record)
    BY DEF IInv, Created, Record
  <2>2. On(Created) \in Form /\ On(Created).call = NoCall /\ FormOK(On(Created), record)
    BY <2>1, OnHolds
  <2> HIDE DEF On
  <2>3. Closed \in Form /\ Closed.call = NoCall
    BY <2>2 DEF Closed, Form
  <2>4. FormOK(Closed, record)
    BY <2>2 DEF Closed, Form, FormOK
  <2> QED
    BY <2>3, <2>4 DEF IInv, TypeOK
<1>2. /\ form' \in [Forms -> Form]
      /\ form'[u] = f \/ (form'[u] = Closed /\ form'[u].call = NoCall)
      /\ \A v \in Forms : v # u => form'[v] = form[v]
  BY <1>1 DEF Set
<1>3. ASSUME NEW v \in Forms, v # u, form[v].call # NoCall
      PROVE  /\ form[v].call \in Calls /\ form[v].call # k
             /\ call'[form[v].call] = call[form[v].call]
             /\ basis'[form[v].call] = basis[form[v].call]
             /\ call[form[v].call].stage # "free"
  <2>1. form[v].call \in Calls
    BY <1>1, <1>3 DEF Form
  <2>2. form[v].call # k /\ call[form[v].call].stage # "free"
    BY <1>3 DEF IInv, TypeOK
  <2> QED
    BY <2>1, <2>2
<1>4. TypeOK'
  <2>1. WritesTypeOK'
    BY DEF IInv, TypeOK, WritesTypeOK
  <2>2. \A v \in Forms : form'[v].call # NoCall => call'[form'[v].call].stage # "free"
    BY <1>2, <1>3
  <2>3. ASSUME NEW v \in Forms, NEW w \in Forms, v # w, form'[v].call # NoCall
        PROVE  form'[v].call # form'[w].call
    <3>1. CASE v = u
      BY <1>2, <1>3, <2>3, <3>1
    <3>2. CASE v # u /\ w = u
      BY <1>2, <1>3, <2>3, <3>2
    <3>3. CASE v # u /\ w # u
      BY <1>2, <2>3, <3>3 DEF IInv, TypeOK
    <3> QED
      BY <3>1, <3>2, <3>3
  <2> QED
    BY <1>2, <2>1, <2>2, <2>3 DEF TypeOK, Basis
<1>5. \A j \in Calls : CallOK(call'[j], basis'[j], record')
  BY DEF IInv
<1>6. \A v \in Forms : FormOK(form'[v], record')
  BY <1>1, <1>2 DEF IInv
<1>7. Waits'
  <2> SUFFICES ASSUME NEW v \in Forms, form'[v].call # NoCall
               PROVE  WaitOK(form'[v], call'[form'[v].call], basis'[form'[v].call],
                             record, history)
    BY DEF Waits
  <2>1. CASE v = u
    BY <1>2, <2>1
  <2>2. CASE v # u
    BY <1>2, <1>3, <2>2 DEF IInv, Waits
  <2> QED
    BY <2>1, <2>2
<1> QED
  BY <1>4, <1>5, <1>6, <1>7 DEF IInv

\* The types the steps of a form start from.
LEMMA FormTypes ==
    ASSUME IInv, NEW u \in Forms
    PROVE  /\ record \in Record /\ form[u] \in Form /\ moves \in Nat
           /\ call \in [Calls -> Call] /\ basis \in [Calls -> Basis]
           /\ FormOK(form[u], record)
           /\ form[u].call \in Calls \cup {NoCall} /\ form[u].rowVersion \in Nat
           /\ form[u].merge \in Nat /\ DOMAIN form[u].clicked \subseteq Fields
           /\ form[u].call # NoCall => /\ call[form[u].call] \in Call
                                       /\ call[form[u].call].stage # "free"
                                       /\ basis[form[u].call] \in Basis
                                       /\ WaitOK(form[u], call[form[u].call],
                                                 basis[form[u].call], record, history)
  BY DEF IInv, TypeOK, WritesTypeOK, Basis, Form, Payload, Waits

\* A form that has done nothing to a call: fields that WaitOK and FormOK look at
\* are the same, or the version moves on to that of the walk-through.
LEMMA LocalStep ==
    ASSUME IInv, NEW u \in Forms, NEW f \in Form, Set(u, f), UNCHANGED <<writeVars, basis>>,
           moves' \in Nat, f.call = form[u].call, f.clicked = form[u].clicked,
           f.loaded = form[u].loaded, f.base = form[u].base,
           \/ f.rowVersion = form[u].rowVersion /\ f.merge \in {0, form[u].merge}
           \/ form[u].merge # 0 /\ f.rowVersion = form[u].merge /\ f.merge = 0
    PROVE  IInv'
<1> DEFINE k == form[u].call
<1>1. FormOK(f, record)
  BY FormTypes DEF FormOK
<1>2. ASSUME k # NoCall PROVE WaitOK(f, call[k], basis[k], record, history)
  <2>1. call[k].copy.version \in Nat
    BY <1>2, FormTypes DEF Call, Record
  <2> QED
    BY <1>2, <2>1, FormTypes DEF WaitOK, AllHeld
<1>3. k \in Calls \cup {NoCall} /\ (k # NoCall => call[k].stage # "free")
  BY FormTypes
<1>4. call' = call /\ basis' = basis /\ UNCHANGED <<record, history, refused>>
  BY DEF writeVars
<1>5. call \in [Calls -> Call] /\ basis \in [Calls -> Basis]
  BY FormTypes
<1>6. \A j \in Calls : CallOK(call[j], basis[j], record)
  BY DEF IInv
<1> QED
  BY <1>1, <1>2, <1>3, <1>4, <1>5, <1>6, FormStep

\* Opening, typing, cancelling, leaving, and the end of the walk-through.
LEMMA ScreenHolds ==
    ASSUME IInv, NEW u \in Forms,
           \/ Open(u) \/ Cancel(u) \/ Leave(u) \/ MergeDone(u)
           \/ \E n \in Fields, v \in Values : Type(u, n, v)
    PROVE  IInv'
<1>1. form[u] \in Form /\ moves \in Nat
  BY FormTypes
<1>2. CASE Open(u)
  <2>1. record \in Record /\ CopyOK(record, record)
    BY FormTypes, RecordIsCopy
  <2>2. On(record) \in Form /\ On(record).call = NoCall /\ FormOK(On(record), record)
    BY <2>1, OnHolds
  <2>3. form[u].call = NoCall
    <3>1. Created \in Record /\ CopyOK(Created, record)
      BY DEF IInv, Created, Record
    <3>2. On(Created) \in Form /\ On(Created).call = NoCall
      BY <3>1, OnHolds
    <3> HIDE DEF On
    <3> QED
      BY <1>2, <3>2 DEF Open, Closed, Form
  <2>4. Set(u, On(record)) /\ UNCHANGED <<record, history, refused, call, basis, moves>>
    BY <1>2 DEF Open, writeVars
  <2> HIDE DEF On
  <2>5. call \in [Calls -> Call] /\ basis \in [Calls -> Basis]
    BY FormTypes
  <2> QED
    BY <1>1, <2>2, <2>3, <2>4, <2>5, FormStep
<1>3. CASE Cancel(u)
  <2> DEFINE f == [form[u] EXCEPT !.values = form[u].original, !.merge = 0]
  <2>1. /\ f \in Form /\ f.call = form[u].call /\ f.clicked = form[u].clicked
        /\ f.loaded = form[u].loaded /\ f.base = form[u].base
        /\ f.rowVersion = form[u].rowVersion /\ f.merge = 0
    BY <1>1 DEF Form
  <2>2. Set(u, f) /\ UNCHANGED <<writeVars, basis, moves>>
    BY <1>3 DEF Cancel
  <2> HIDE DEF f
  <2> QED
    BY <1>1, <2>1, <2>2, LocalStep
<1>4. CASE Leave(u)
  <2> DEFINE f == [form[u] EXCEPT !.open = FALSE]
  <2>1. /\ f \in Form /\ f.call = form[u].call /\ f.clicked = form[u].clicked
        /\ f.loaded = form[u].loaded /\ f.base = form[u].base
        /\ f.rowVersion = form[u].rowVersion /\ f.merge = form[u].merge
    BY <1>1 DEF Form
  <2>2. Set(u, f) /\ UNCHANGED <<writeVars, basis, moves>>
    BY <1>4 DEF Leave
  <2> HIDE DEF f
  <2> QED
    BY <1>1, <2>1, <2>2, LocalStep
<1>5. CASE MergeDone(u)
  <2> DEFINE f == [form[u] EXCEPT !.rowVersion = form[u].merge, !.merge = 0]
  <2>1. /\ f \in Form /\ f.call = form[u].call /\ f.clicked = form[u].clicked
        /\ f.loaded = form[u].loaded /\ f.base = form[u].base
        /\ f.rowVersion = form[u].merge /\ f.merge = 0
    BY <1>1 DEF Form
  <2>2. Set(u, f) /\ UNCHANGED <<writeVars, basis, moves>> /\ form[u].merge # 0
    BY <1>5 DEF MergeDone
  <2> HIDE DEF f
  <2> QED
    BY <1>1, <2>1, <2>2, LocalStep
<1>6. ASSUME NEW n \in Fields, NEW v \in Values, Type(u, n, v) PROVE IInv'
  <2> DEFINE values == [form[u].values EXCEPT ![n] = v]
             f == [form[u] EXCEPT !.values = values]
  <2>1. values \in [Fields -> Values]
    BY <1>1 DEF Form
  <2>2. Set(u, f) /\ UNCHANGED <<writeVars, basis>> /\ moves' \in Nat
    <3>1. [form[u] EXCEPT !.values[n] = v] = f
      BY <1>1 DEF Form
    <3> HIDE DEF f
    <3> QED
      BY <1>1, <1>6, <3>1 DEF Type
  <2> HIDE DEF values
  <2>3. /\ f \in Form /\ f.call = form[u].call /\ f.clicked = form[u].clicked
        /\ f.loaded = form[u].loaded /\ f.base = form[u].base
        /\ f.rowVersion = form[u].rowVersion /\ f.merge = form[u].merge
    BY <1>1, <2>1 DEF Form
  <2> HIDE DEF f
  <2> QED
    BY <2>2, <2>3, LocalStep
<1> QED
  BY <1>2, <1>3, <1>4, <1>5, <1>6

\* Save is clicked: every changed value differs from what the record was.
LEMMA SaveHolds ==
    ASSUME IInv, NEW u \in Forms, requestSave(u)
    PROVE  IInv'
<1> DEFINE f == form[u]
           dirty == Dirty(f)
<1>1. /\ f \in Form /\ record \in Record /\ FormOK(f, record) /\ moves \in Nat
      /\ f.rowVersion \in Nat /\ f.merge \in Nat
      /\ call \in [Calls -> Call] /\ basis \in [Calls -> Basis]
  BY FormTypes
<1>2. PICK k \in Calls : /\ call[k].stage = "free"
                         /\ Send(k, dirty, f.rowVersion)
                         /\ basis' = [basis EXCEPT ![k] = [seen |-> f.seen,
                               drifted |-> f.loaded # f.seen, since |-> f.rowVersion]]
                         /\ Set(u, [f EXCEPT !.call = k, !.base = f.loaded, !.attempt = 1,
                                             !.clicked = dirty])
  BY DEF requestSave
<1> DEFINE f2 == [f EXCEPT !.call = k, !.base = f.loaded, !.attempt = 1, !.clicked = dirty]
           c == Request(FALSE, dirty, f.rowVersion)
           b == [seen |-> f.seen, drifted |-> f.loaded # f.seen, since |-> f.rowVersion]
<1>3. /\ f.call = NoCall /\ UNCHANGED <<record, history, refused, moves>>
      /\ Set(u, f2)
      /\ call' = [call EXCEPT ![k] = c] /\ basis' = [basis EXCEPT ![k] = b]
  BY <1>2 DEF requestSave, Send
<1>4. /\ dirty \in Payload
      /\ DOMAIN dirty \subseteq Fields
  <2>1. DOMAIN dirty = {n \in Fields : f.values[n] # f.original[n]}
    BY DEF Dirty, Restrict
  <2>2. \A n \in DOMAIN dirty : dirty[n] = f.values[n]
    BY DEF Dirty, Restrict
  <2>3. dirty \in [DOMAIN dirty -> Values]
    BY <1>1, <2>1, <2>2 DEF Form, Dirty, Restrict
  <2> HIDE DEF dirty
  <2> QED
    BY <2>1, <2>2, <2>3 DEF Payload
<1> HIDE DEF dirty
<1>5. /\ f2 \in Form /\ f2.call = k /\ f2.clicked = dirty /\ f2.rowVersion = f.rowVersion
      /\ f2.merge = f.merge /\ f2.loaded = f.loaded /\ f2.base = f.loaded
  BY <1>1, <1>4 DEF Form
<1>6. /\ b \in Basis /\ b.since = f.rowVersion /\ b.seen = f.seen
      /\ ~b.drifted => f.loaded = f.seen
  BY <1>1 DEF Basis, Form
<1>7. /\ c \in Call /\ c.stage = "sent" /\ c.restore = FALSE /\ c.changes = dirty
      /\ CallOK(c, b, record)
  <2>1. /\ f.rowVersion <= record.version
        /\ f.rowVersion = record.version => f.loaded = record.values
    BY <1>1 DEF FormOK, Claim
  <2>2. b.seen = f.seen /\ (~b.drifted => f.loaded = f.seen)
    OBVIOUS
  <2>3. /\ c \in Call /\ c.stage = "sent" /\ c.restore = FALSE /\ c.changes = dirty
        /\ c.version = f.rowVersion
    BY <1>1, <1>4, FreeHolds DEF Request, Call
  <2> HIDE DEF f, c, b
  <2>4. CallOK(c, b, record)
    BY <1>1, <1>4, <2>1, <2>2, <2>3 DEF CallOK
  <2> QED
    BY <2>3, <2>4
<1> HIDE DEF f2, c, b
<1>8. FormOK(f2, record)
  BY <1>1, <1>5 DEF FormOK
<1>9. WaitOK(f2, c, b, record, history)
  <2>1. f.rowVersion <= record.version
    BY <1>1 DEF FormOK, Claim
  <2> QED
    BY <1>5, <1>6, <1>7, <2>1 DEF WaitOK
<1>10. /\ call'[k] = c /\ basis'[k] = b
       /\ \A j \in Calls : j # k => call'[j] = call[j] /\ basis'[j] = basis[j]
       /\ call' \in [Calls -> Call] /\ basis' \in [Calls -> Basis]
  BY <1>1, <1>3, <1>6, <1>7
<1>11. k \in Calls \cup {NoCall} /\ k # NoCall /\ c.stage # "free"
  BY <1>7
<1>12. k \in Calls => CallOK(call'[k], basis'[k], record)
  BY <1>7, <1>10
<1>13. f2.call # NoCall =>
          /\ call'[k].stage # "free"
          /\ WaitOK(f2, call'[k], basis'[k], record, history)
  BY <1>9, <1>10, <1>11
<1>14. moves' \in Nat /\ f2.call \in {NoCall, k} /\ UNCHANGED <<record, history, refused>>
  BY <1>1, <1>3, <1>5
<1> HIDE DEF f
<1> QED
  BY <1>2, <1>3, <1>5, <1>8, <1>10, <1>11, <1>12, <1>13, <1>14, FormStep

\* What Release leaves of a call.
LEMMA ReleaseFrees ==
    ASSUME IInv, NEW k \in Calls, Release(k)
    PROVE  /\ call' \in [Calls -> Call] /\ basis' \in [Calls -> Basis]
           /\ call'[k] = Free /\ CallOK(call'[k], basis'[k], record)
           /\ \A j \in Calls : j # k => call'[j] = call[j] /\ basis'[j] = basis[j]
<1> DEFINE b == NoBasis
<1>1. call \in [Calls -> Call] /\ basis \in [Calls -> Basis] /\ b \in Basis
  BY DEF IInv, TypeOK, WritesTypeOK, Basis, NoBasis, Created
<1> HIDE DEF b
<1>2. call' = [call EXCEPT ![k] = Free] /\ basis' = [basis EXCEPT ![k] = b]
  BY DEF Release, b
<1>3. Free \in Call /\ CallOK(Free, b, record)
  BY FreeHolds
<1> QED
  BY <1>1, <1>2, <1>3

\* The form takes the answer and waits for nothing any more.
LEMMA DoneStep ==
    ASSUME IInv, NEW u \in Forms, NEW f \in Form, Set(u, f), form[u].call # NoCall,
           Release(form[u].call), UNCHANGED <<record, history, refused, moves>>,
           FormOK(f, record), f.call = NoCall
    PROVE  IInv'
<1> DEFINE k == form[u].call
<1>1. k \in Calls /\ moves \in Nat
  BY FormTypes
<1>2. /\ call' \in [Calls -> Call] /\ basis' \in [Calls -> Basis]
      /\ CallOK(call'[k], basis'[k], record)
      /\ \A j \in Calls : j # k => call'[j] = call[j] /\ basis'[j] = basis[j]
  BY <1>1, ReleaseFrees
<1> QED
  BY <1>1, <1>2, FormStep

\* An idle form compares with what it compared with.
LEMMA IdleHolds ==
    ASSUME IInv, NEW f \in Form, FormOK(f, record)
    PROVE  /\ Idle(f) \in Form /\ Idle(f).call = NoCall /\ FormOK(Idle(f), record)
           /\ Idle(f).rowVersion = f.rowVersion
<1>1. Created.values \in [Fields -> Values]
  BY DEF Created
<1> DEFINE i == Idle(f)
<1>2. /\ i \in Form /\ i.call = NoCall /\ i.rowVersion = f.rowVersion /\ i.loaded = f.loaded
      /\ i.merge = f.merge
  BY <1>1, NoChanges DEF Idle, Form
<1> HIDE DEF i
<1>3. FormOK(i, record)
  BY <1>2 DEF FormOK
<1> QED
  BY <1>2, <1>3 DEF i

\* What a form that waits for an answer with a record has.
LEMMA AnswerIsCopy ==
    ASSUME IInv, NEW u \in Forms, Waiting(u, {"stale", "landed"})
    PROVE  LET c == call[form[u].call] IN
           /\ form[u].call # NoCall /\ form[u].call \in Calls
           /\ c \in Call /\ c.copy \in Record /\ CopyOK(c.copy, record)
           /\ form[u].rowVersion <= c.copy.version /\ form[u].merge <= c.copy.version
<1>1. form[u].call # NoCall /\ form[u].call \in Calls
  BY FormTypes DEF Waiting
<1> QED
  BY <1>1, FormTypes DEF Waiting, IInv, CallOK, WaitOK, Call

\* Rebasing on the answer, with or without the walk-through that was open.
LEMMA RebaseHolds ==
    ASSUME IInv, NEW u \in Forms, NEW c \in Record, CopyOK(c, record),
           form[u].merge <= c.version, NEW merge \in {0, form[u].merge}
    PROVE  /\ Rebase(u, c) \in Form /\ Rebase(u, c).call = NoCall
           /\ FormOK(Rebase(u, c), record)
           /\ LET f == [Rebase(u, c) EXCEPT !.merge = merge] IN
              f \in Form /\ f.call = NoCall /\ FormOK(f, record)
<1> DEFINE b == Rebase(u, c)
           f == [b EXCEPT !.merge = merge]
<1>1. On(c) \in Form /\ On(c).call = NoCall /\ FormOK(On(c), record)
  BY OnHolds
<1>2. On(c).loaded = c.values
  BY DEF On
<1>3. form[u] \in Form /\ record \in Record
  BY FormTypes
<1> HIDE DEF On
<1>4. /\ b \in Form /\ b.call = NoCall /\ b.rowVersion = On(c).rowVersion
      /\ b.loaded = c.values /\ b.merge = On(c).merge
  BY <1>1, <1>2, <1>3 DEF Rebase, Form
<1> HIDE DEF b
<1>5. FormOK(b, record)
  BY <1>1, <1>2, <1>4 DEF FormOK
<1>6. merge \in Nat /\ merge <= c.version
  BY <1>3 DEF Form, Record
<1>7. /\ f \in Form /\ f.call = NoCall /\ f.rowVersion = On(c).rowVersion
      /\ f.loaded = c.values /\ f.merge = merge
  BY <1>4, <1>6 DEF Form
<1>8. Claim(merge, c.values, record)
  BY <1>3, <1>6, CopyIsClaim
<1> HIDE DEF f
<1>9. FormOK(f, record)
  BY <1>1, <1>2, <1>7, <1>8 DEF FormOK
<1> QED
  BY <1>4, <1>5, <1>7, <1>9 DEF f, b

\* The answers that end a save: it landed, it was turned down, nothing of it
\* was left to save, or it takes a walk-through.
LEMMA EndOfSaveHolds ==
    ASSUME IInv, NEW u \in Forms,
           Landed(u) \/ TurnedDown(u) \/ AlreadyCurrent(u) \/ ManualMerge(u)
    PROVE  IInv'
<1> DEFINE c == call[form[u].call]
<1>1. form[u] \in Form /\ FormOK(form[u], record) /\ record \in Record
  BY FormTypes
<1>2. CASE Landed(u)
  <2>1. /\ form[u].call # NoCall /\ c.copy \in Record /\ CopyOK(c.copy, record)
        /\ form[u].merge <= c.copy.version
    BY <1>2, AnswerIsCopy DEF Landed, Waiting
  <2> DEFINE f == Rebase(u, c.copy)
  <2> HIDE DEF c
  <2>2. f \in Form /\ f.call = NoCall /\ FormOK(f, record)
    BY <2>1, RebaseHolds
  <2>3. Set(u, f) /\ Release(form[u].call) /\ UNCHANGED <<record, history, refused, moves>>
    BY <1>2 DEF Landed, c
  <2> HIDE DEF f
  <2> QED
    BY <2>1, <2>2, <2>3, DoneStep
<1>3. CASE TurnedDown(u)
  <2>1. /\ form[u].call # NoCall /\ Set(u, Idle(form[u])) /\ Release(form[u].call)
        /\ UNCHANGED <<record, history, refused, moves>>
    BY <1>3 DEF TurnedDown, Waiting
  <2> QED
    BY <1>1, <2>1, IdleHolds, DoneStep
<1>4. CASE AlreadyCurrent(u)
  <2>1. /\ form[u].call # NoCall /\ c.copy \in Record /\ CopyOK(c.copy, record)
        /\ form[u].merge <= c.copy.version
    BY <1>4, AnswerIsCopy DEF AlreadyCurrent, Waiting
  <2> DEFINE f == [Rebase(u, c.copy) EXCEPT !.merge = form[u].merge]
  <2>2. Set(u, f) /\ Release(form[u].call) /\ UNCHANGED <<record, history, refused, moves>>
    BY <1>4 DEF AlreadyCurrent
  <2> HIDE DEF c
  <2>3. f \in Form /\ f.call = NoCall /\ FormOK(f, record)
    BY <2>1, RebaseHolds
  <2> HIDE DEF f
  <2> QED
    BY <2>1, <2>2, <2>3, DoneStep
<1>5. CASE ManualMerge(u)
  <2>1. /\ form[u].call # NoCall /\ c.copy \in Record /\ CopyOK(c.copy, record)
        /\ form[u].rowVersion <= c.copy.version
    BY <1>5, AnswerIsCopy DEF ManualMerge, Waiting
  <2> DEFINE i == Idle(form[u])
             conflicts == Conflicted(c.changes, form[u].base, c.copy)
             seen == [n \in Fields |-> IF n \in conflicts THEN c.copy.values[n]
                                       ELSE form[u].seen[n]]
             f == [i EXCEPT !.loaded = c.copy.values, !.merge = c.copy.version, !.seen = seen]
  <2>2. Set(u, f) /\ Release(form[u].call) /\ UNCHANGED <<record, history, refused, moves>>
    BY <1>5 DEF ManualMerge
  <2> HIDE DEF c, conflicts
  <2>3. seen \in [Fields -> Values] /\ c.copy.values \in [Fields -> Values] /\ c.copy.version \in Nat
    BY <1>1, <2>1 DEF Form, Record
  <2> HIDE DEF seen
  <2>4. /\ i \in Form /\ i.call = NoCall /\ FormOK(i, record)
        /\ i.rowVersion = form[u].rowVersion
    BY <1>1, IdleHolds
  <2> HIDE DEF i
  <2>5. /\ f \in Form /\ f.call = NoCall /\ f.rowVersion = form[u].rowVersion
        /\ f.loaded = c.copy.values /\ f.merge = c.copy.version
    BY <2>3, <2>4 DEF Form
  <2> HIDE DEF f
  <2>6. /\ Claim(form[u].rowVersion, c.copy.values, record)
        /\ Claim(c.copy.version, c.copy.values, record)
    BY <1>1, <2>1, <2>3, CopyIsClaim DEF Form
  <2>7. FormOK(f, record)
    BY <2>4, <2>5, <2>6 DEF FormOK
  <2> QED
    BY <2>1, <2>2, <2>5, <2>7, DoneStep
<1> QED
  BY <1>2, <1>3, <1>4, <1>5

\* The invisible retry: what it no longer sends was the record's, and what it
\* sends replaces what the sender has been shown.
LEMMA RetryHolds ==
    ASSUME IInv, NEW u \in Forms, RetrySave(u)
    PROVE  IInv'
<1> DEFINE f == form[u]
           k == form[u].call
           c == call[k]
           still == StillDirty(c.changes, c.copy)
           changes == Restrict(c.changes, still)
           d == Request(FALSE, changes, c.copy.version)
           b == basis[k]
           f2 == [f EXCEPT !.loaded = c.copy.values, !.attempt = @ + 1]
<1>1. /\ f \in Form /\ record \in Record /\ FormOK(f, record)
      /\ call \in [Calls -> Call] /\ basis \in [Calls -> Basis] /\ moves \in Nat
  BY FormTypes
<1>2. /\ k # NoCall /\ k \in Calls /\ c \in Call /\ c.copy \in Record
      /\ CopyOK(c.copy, record) /\ f.rowVersion <= c.copy.version
      /\ f.merge <= c.copy.version /\ c.stage = "stale"
  BY AnswerIsCopy DEF RetrySave, Waiting
<1>3. /\ WaitOK(f, c, b, record, history) /\ ~NeedsMerge(c.changes, f.base, c.copy, f.attempt)
      /\ Set(u, f2) /\ call' = [call EXCEPT ![k] = d]
      /\ UNCHANGED <<record, history, refused, basis, moves>>
  BY <1>2, FormTypes DEF RetrySave, Send
<1>4. \A n \in still : f.base[n] = c.copy.values[n]
  BY <1>3 DEF NeedsMerge, Conflicted
<1>5. /\ still \subseteq DOMAIN c.changes /\ DOMAIN changes = still
      /\ \A n \in still : changes[n] = c.changes[n]
      /\ \A n \in DOMAIN c.changes : n \notin still => c.changes[n] = c.copy.values[n]
  BY DEF StillDirty, Restrict
<1>6. changes \in Payload
  <2>1. DOMAIN c.changes \subseteq Fields /\ \A n \in DOMAIN c.changes : c.changes[n] \in Values
    BY <1>2 DEF Call, Payload
  <2> HIDE DEF c, still
  <2>2. changes \in [still -> Values]
    BY <1>5, <2>1 DEF Restrict
  <2> QED
    BY <1>5, <2>1, <2>2 DEF Payload
<1>7. c.copy.version \in Nat /\ c.copy.values \in [Fields -> Values]
  BY <1>2 DEF Record
<1> HIDE DEF still, changes
<1>8. /\ f2 \in Form /\ f2.call = k /\ f2.clicked = f.clicked /\ f2.rowVersion = f.rowVersion
      /\ f2.merge = f.merge /\ f2.loaded = c.copy.values /\ f2.base = f.base
  <2> DEFINE attempt == f.attempt + 1
  <2>1. attempt \in Nat /\ f2 = [f EXCEPT !.loaded = c.copy.values, !.attempt = attempt]
    BY <1>1 DEF Form
  <2> HIDE DEF attempt, c
  <2> QED
    BY <1>1, <1>7, <2>1 DEF Form
<1>9. /\ d \in Call /\ d.stage = "sent" /\ d.restore = FALSE /\ d.changes = changes
      /\ d.version = c.copy.version
  BY <1>6, <1>7, FreeHolds DEF Request, Call
<1>10. b \in Basis /\ (~b.drifted => f.base = b.seen)
  BY <1>1, <1>2, <1>3 DEF WaitOK
<1> HIDE DEF f2, d, b
<1>11. CallOK(d, b, record)
  <2>1. c.copy.version <= record.version /\ (c.copy.version = record.version => c.copy = record)
    BY <1>2 DEF CopyOK
  <2> QED
    BY <1>4, <1>5, <1>9, <1>10, <2>1 DEF CallOK
<1>12. FormOK(f2, record)
  <2>1. f.rowVersion \in Nat /\ f.merge \in Nat
    BY <1>1 DEF Form
  <2>2. Claim(f.rowVersion, c.copy.values, record) /\ Claim(f.merge, c.copy.values, record)
    BY <1>1, <1>2, <2>1, CopyIsClaim
  <2> QED
    BY <1>1, <1>8, <2>2 DEF FormOK
<1>13. WaitOK(f2, d, b, record, history)
  <2> SUFFICES ASSUME NEW n \in DOMAIN f.clicked
               PROVE  \/ n \in DOMAIN changes /\ changes[n] = f.clicked[n]
                      \/ HeldSince(n, f.clicked[n], b.since, record, history)
    BY <1>3, <1>8, <1>9 DEF WaitOK
  <2>1. /\ \/ n \in DOMAIN c.changes /\ c.changes[n] = f.clicked[n]
           \/ HeldSince(n, f.clicked[n], b.since, record, history)
        /\ c.copy.values[n] = f.clicked[n] =>
              HeldSince(n, f.clicked[n], b.since, record, history)
    BY <1>2, <1>3 DEF WaitOK
  <2> QED
    BY <1>5, <2>1
<1>14. /\ call' \in [Calls -> Call] /\ basis' \in [Calls -> Basis]
       /\ call'[k] = d /\ basis'[k] = b
       /\ \A j \in Calls : j # k => call'[j] = call[j] /\ basis'[j] = basis[j]
  BY <1>1, <1>2, <1>3, <1>9 DEF b
<1>15. k \in Calls => CallOK(call'[k], basis'[k], record)
  BY <1>11, <1>14
<1>16. f2.call # NoCall =>
          /\ call'[k].stage # "free"
          /\ WaitOK(f2, call'[k], basis'[k], record, history)
  BY <1>9, <1>13, <1>14
<1>17. moves' \in Nat /\ f2.call \in {NoCall, k} /\ k \in Calls \cup {NoCall}
  BY <1>1, <1>2, <1>3, <1>8
<1>18. k = form[u].call /\ Set(u, f2) /\ UNCHANGED <<record, history, refused>>
  BY <1>3
<1> HIDE DEF f, k, c
<1> QED
  BY <1>8, <1>12, <1>14, <1>15, <1>16, <1>17, <1>18, FormStep

\* The connection breaks, or an answer finds nobody who waits for it.
LEMMA LostHolds ==
    ASSUME IInv,
           \/ \E u \in Forms : Unreachable(u)
           \/ \E k \in Calls : Unheard(k)
    PROVE  IInv'
<1>1. ASSUME NEW u \in Forms, Unreachable(u) PROVE IInv'
  <2> DEFINE f == Idle(form[u])
             k == form[u].call
  <2>1. /\ Set(u, f) /\ moves' = moves + 1 /\ call' = call /\ basis' = basis
        /\ UNCHANGED <<record, history, refused>>
    BY <1>1 DEF Unreachable, writeVars
  <2>2. f \in Form /\ f.call = NoCall /\ FormOK(f, record)
    BY FormTypes, IdleHolds
  <2>3. /\ k \in Calls \cup {NoCall} /\ moves' \in Nat
        /\ call \in [Calls -> Call] /\ basis \in [Calls -> Basis]
    BY <2>1, FormTypes
  <2>4. \A j \in Calls : CallOK(call[j], basis[j], record)
    BY DEF IInv
  <2> HIDE DEF f
  <2> QED
    BY <2>1, <2>2, <2>3, <2>4, FormStep
<1>2. ASSUME NEW k \in Calls, Unheard(k) PROVE IInv'
  <2>1. /\ Release(k) /\ \A u \in Forms : form[u].call # k
        /\ UNCHANGED <<record, history, refused, form, moves>>
    BY <1>2 DEF Unheard
  <2>2. /\ call' \in [Calls -> Call] /\ basis' \in [Calls -> Basis]
        /\ CallOK(call'[k], basis'[k], record)
        /\ \A j \in Calls : j # k => call'[j] = call[j] /\ basis'[j] = basis[j]
    BY <2>1, ReleaseFrees
  <2>3. TypeOK'
    BY <2>1, <2>2 DEF IInv, TypeOK, WritesTypeOK, Form, Basis
  <2>4. Grows(record, history, record', history') /\ HistoryOK(record', history')
    BY <2>1 DEF Grows, IInv
  <2> QED
    BY <2>1, <2>2, <2>3, <2>4, CallStep
<1> QED
  BY <1>1, <1>2

\* The restore of a removed record is asked for; nobody edits through it.
LEMMA OfferHolds ==
    ASSUME IInv, NEW version \in 1 .. MaxVersion, OfferRestore(version)
    PROVE  IInv'
<1>1. PICK k \in Calls : /\ call[k].stage = "free"
                         /\ call' = [call EXCEPT ![k] = Request(TRUE, <<>>, version)]
  BY DEF OfferRestore
<1> DEFINE c == Request(TRUE, <<>>, version)
<1>2. /\ UNCHANGED <<record, history, refused, form, basis>> /\ version \in Nat
      /\ version <= record.version /\ moves' = moves + 1
      /\ call \in [Calls -> Call] /\ moves \in Nat
  BY DEF OfferRestore, IInv, TypeOK, WritesTypeOK
<1>3. c \in Call /\ c.stage = "sent" /\ c.restore = TRUE /\ c.changes = <<>> /\ c.version = version
  BY <1>2, FreeHolds, NoChanges DEF Request, Call
<1> HIDE DEF c
<1>4. call' = [call EXCEPT ![k] = c]
  BY <1>1 DEF c
<1>5. call'[k] = c /\ \A j \in Calls : j # k => call'[j] = call[j]
  BY <1>2, <1>4
<1>6. CallOK(c, basis[k], record)
  BY <1>2, <1>3, NoChanges DEF CallOK
<1>7. \A u \in Forms : form[u].call # k
  BY <1>1 DEF IInv, TypeOK
<1>8. TypeOK'
  <2>1. WritesTypeOK'
    BY <1>2, <1>3, <1>4 DEF IInv, TypeOK, WritesTypeOK
  <2>2. \A u \in Forms : form[u].call # NoCall => call'[form[u].call].stage # "free"
    BY <1>2, <1>5, <1>7 DEF IInv, TypeOK, Form
  <2> QED
    BY <1>2, <2>1, <2>2 DEF IInv, TypeOK
<1>9. Grows(record, history, record', history') /\ HistoryOK(record', history')
  BY <1>2 DEF Grows, IInv
<1> QED
  BY <1>2, <1>5, <1>6, <1>7, <1>8, <1>9, CallStep

-----------------------------------------------------------------------------
\* A new record, an open form on it and free calls.
LEMMA InvInit ==
    ASSUME Init
    PROVE  IInv
<1>1. Created \in Record /\ record = Created /\ history = [n \in Fields |-> <<>>]
  BY DEF Init, WritesInit, Created, Record
<1>2. CopyOK(Created, record) /\ HistoryOK(record, history)
  BY <1>1 DEF CopyOK, HistoryOK, Created
<1>3. Free \in Call
  BY <1>1, NoChanges DEF Free, Call
<1>4. On(Created) \in Form /\ On(Created).call = NoCall /\ FormOK(On(Created), record)
  <2>1. On(Created) \in Form
    BY <1>1, NoChanges DEF On, Form, Created, Record
  <2> QED
    BY <1>1, <2>1 DEF On, FormOK, Claim, Created
<1> HIDE DEF On
<1>5. Closed \in Form /\ Closed.call = NoCall /\ FormOK(Closed, record)
  BY <1>4 DEF Closed, Form, FormOK
<1>6. \A k \in Calls : CallOK(call[k], basis[k], record)
  BY DEF Init, WritesInit, Free, CallOK
<1>7. form \in [Forms -> Form] /\ \A u \in Forms : form[u] = Closed
  BY <1>5 DEF Init
<1>8. basis \in [Calls -> Basis]
  BY DEF Init, Basis, NoBasis, Created
<1>9. TypeOK
  <2>1. WritesTypeOK
    BY <1>1, <1>3 DEF Init, WritesInit, WritesTypeOK
  <2> QED
    BY <1>5, <1>7, <1>8, <2>1 DEF Init, TypeOK, Basis
<1> QED
  BY <1>2, <1>5, <1>6, <1>7, <1>9 DEF IInv, Waits

\* Every step of the server and of the forms keeps the invariant.
LEMMA InvStep ==
    ASSUME IInv, [Next]_vars
    PROVE  IInv'
<1>1. CASE Serve /\ UNCHANGED <<form, basis, moves>>
  BY <1>1, ReceiveHolds, FlushHolds, AnswersHold, SoftDeleteHolds DEF Serve
<1>2. ASSUME NEW u \in Forms,
             \/ Open(u) \/ Cancel(u) \/ Leave(u) \/ requestSave(u)
             \/ Landed(u) \/ TurnedDown(u) \/ AlreadyCurrent(u) \/ RetrySave(u)
             \/ ManualMerge(u) \/ MergeDone(u) \/ Unreachable(u)
             \/ \E n \in Fields, v \in Values : Type(u, n, v)
      PROVE  IInv'
  BY <1>2, ScreenHolds, SaveHolds, EndOfSaveHolds, RetryHolds, LostHolds
<1>3. CASE \E k \in Calls : Unheard(k)
  BY <1>3, LostHolds
<1>4. CASE \E version \in 1 .. MaxVersion : OfferRestore(version)
  BY <1>4, OfferHolds
<1>5. CASE UNCHANGED vars
  BY <1>5 DEF vars, IInv, TypeOK, WritesTypeOK, Waits
<1> QED
  BY <1>1, <1>2, <1>3, <1>4, <1>5 DEF Next

\* The invariant that the rest follows from: a row that a call or a form holds
\* was the record, and is it as long as the version is the record's.
THEOREM RowsWereTheRecord == Spec => []IInv
<1>1. Init => IInv
  BY InvInit
<1> QED
  BY <1>1, InvStep, PTL DEF Spec

\* Every value has its type, and no two forms wait for the same call.
THEOREM TypeCorrect == Spec => []TypeOK
<1>1. IInv => TypeOK
  BY DEF IInv
<1> QED
  BY <1>1, RowsWereTheRecord, PTL

\* The History panel tells the truth: the rows of each field lead from its first
\* value to its present one, however the saves raced (partial_update).
THEOREM HistoryCorrect == Spec => []HistoryChains
<1>1. IInv => HistoryChains
  BY DEF IInv, HistoryOK, HistoryChains
<1> QED
  BY <1>1, RowsWereTheRecord, PTL

\* A save that was on its way when the record was removed changes no value, and
\* only a restore of its present version brings it back (patch_record).
THEOREM RemovedStays == Spec => RemovedStaysRemoved
<1> DEFINE A == record.deleted =>
                  /\ record'.values = record.values
                  /\ ~record'.deleted =>
                        \E k \in Calls : call[k].restore /\ call[k].version = record.version
<1>1. IInv /\ [Next]_vars => [A]_writeVars
  <2> SUFFICES ASSUME IInv, Next, record.deleted, record' # record PROVE A
    BY DEF vars, writeVars
  <2>1. /\ record \in Record /\ call \in [Calls -> Call]
    BY DEF IInv, TypeOK, WritesTypeOK
  <2>2. PICK k \in Calls : Flush(k)
    BY DEF Next, Serve, Receive, FlushStale, Serialize, SoftDelete, Open, Cancel, Leave,
           requestSave, Landed, TurnedDown, AlreadyCurrent, RetrySave, ManualMerge, MergeDone,
           Unreachable, Type, Unheard, OfferRestore, writeVars
  <2>3. call[k].copy = record /\ call[k].version = record.version /\ call[k].restore
    BY <2>1, <2>2 DEF Flush, Current, IInv, CallOK, CopyOK
  <2>4. record'.values = record.values
    BY <2>1, <2>2, <2>3 DEF Flush, Record
  <2> QED
    BY <2>3, <2>4
<1> QED
  BY <1>1, RowsWereTheRecord, PTL DEF Spec, RemovedStaysRemoved

\* Never a silent overwrite: a save replaces a value only if its sender has been
\* shown it, as long as the form resolves against what its screen shows.
THEOREM OnlySeenOverwritten == Spec => OverwritesOnlySeen
<1> DEFINE A == \A k \in Calls, n \in Fields :
                  Overwrites(k, n) => basis[k].drifted \/ record.values[n] = basis[k].seen[n]
<1>1. IInv /\ [Next]_vars => A
  <2> SUFFICES ASSUME IInv, Next, NEW k \in Calls, NEW n \in Fields, Overwrites(k, n),
                      ~basis[k].drifted
               PROVE  record.values[n] = basis[k].seen[n]
    BY DEF vars, Overwrites
  <2>1. record \in Record /\ call \in [Calls -> Call]
    BY DEF IInv, TypeOK, WritesTypeOK
  <2>2. PICK j \in Calls : Flush(j)
    BY DEF Overwrites, Next, Serve, Receive, FlushStale, Serialize, SoftDelete, Open, Cancel,
           Leave, requestSave, Landed, TurnedDown, AlreadyCurrent, RetrySave, ManualMerge,
           MergeDone, Unreachable, Type, Unheard, OfferRestore, writeVars
  <2>3. j = k
    BY <2>1, <2>2 DEF Overwrites, Flush
  <2>4. call[k].copy = record /\ call[k].version = record.version /\ call[k].stage = "loaded"
    BY <2>1, <2>2, <2>3 DEF Flush, Current, IInv, CallOK, CopyOK
  <2>5. n \in DOMAIN call[k].changes
    BY <2>1, <2>2, <2>3 DEF Flush, Changed, Overwrites, Record
  <2> QED
    BY <2>4, <2>5 DEF IInv, CallOK
<1> QED
  BY <1>1, RowsWereTheRecord, PTL DEF Spec, OverwritesOnlySeen

\* A form that reports a save has lost none of it on the way through the
\* resolver and its retries: the record has had each value Save was clicked
\* with, and had it after the version the click was made on.
THEOREM ClickedIsSaved == Spec => SavedWhatWasClicked
<1> DEFINE A == \A u \in Forms :
                  Landed(u) \/ AlreadyCurrent(u) =>
                     \A n \in DOMAIN form[u].clicked :
                        HeldSince(n, form[u].clicked[n], basis[form[u].call].since,
                                  record, history)
<1>1. IInv => A
  <2> SUFFICES ASSUME IInv, NEW u \in Forms, Landed(u) \/ AlreadyCurrent(u)
               PROVE  AllHeld(form[u], basis[form[u].call], record, history)
    BY DEF AllHeld
  <2> DEFINE c == call[form[u].call]
  <2>1. WaitOK(form[u], c, basis[form[u].call], record, history)
    BY DEF Landed, AlreadyCurrent, Waiting, IInv, Waits
  <2>2. CASE Landed(u)
    BY <2>1, <2>2 DEF Landed, Waiting, WaitOK
  <2>3. CASE AlreadyCurrent(u)
    <3>1. c.stage = "stale" /\ \A m \in DOMAIN c.changes : c.changes[m] = c.copy.values[m]
      BY <2>3 DEF AlreadyCurrent, Waiting, StillDirty
    <3> QED
      BY <2>1, <3>1 DEF WaitOK, AllHeld
  <2> QED
    BY <2>2, <2>3
<1> QED
  BY <1>1, RowsWereTheRecord, PTL DEF Spec, SavedWhatWasClicked

=================================================================================
