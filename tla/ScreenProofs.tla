----------------------------- MODULE ScreenProofs -----------------------------
(***************************************************************************)
(* Proofs about the parts of MCScreens, for every value of their           *)
(* constants: who has read and acknowledged the administrator's messages,  *)
(* the editors one user has open on a record, the views of a grid, the     *)
(* stored themes with what the screens paint from them, and the rows of a  *)
(* grid with the panel over them.                                          *)
(* Each part has an inductive invariant; the last theorems are about all   *)
(* parts together, of which one moves.                                     *)
(***************************************************************************)
EXTENDS MCScreens, FiniteSetTheorems, WellFoundedInduction, TLAPS

-----------------------------------------------------------------------------
(* The administrator's messages. *)

ReceiptRow == [version : Nat, read : Nat, acknowledged : Nat]

\* The receipts a request has read.
Copies == UNION {[keys -> ReceiptRow] : keys \in SUBSET MessageKeys}

MsgRequest == [pc : {"home", "view", "acknowledge", "render"}, user : MsgUsers,
               keys : SUBSET MessageKeys, at : Nat \ {0}, copy : Copies]

MsgTyped ==
    /\ msgNow \in Nat \ {0} /\ acked \subseteq MessageKeys \X MsgUsers \X Nat
    /\ receipt \in [MessageKeys -> [MsgUsers -> ReceiptRow]]
    /\ msgReq \in [Slots -> {Idle} \cup MsgRequest]

\* What is acknowledged was read, and not later; nothing is stamped after now.
ReceiptOK(row, now) ==
    /\ row.acknowledged # 0 => row.read # 0 /\ row.read <= row.acknowledged
    /\ row.read <= now /\ row.acknowledged <= now

\* A copy is a receipt as it was when the request began: the receipt has moved
\* on since, or is still the same, and keeps an acknowledgment it had.
CopyOK(copy, row, at) ==
    /\ ReceiptOK(copy, at)
    /\ copy.version <= row.version
    /\ copy.version = row.version => copy = row
    /\ copy.acknowledged # 0 => row.acknowledged = copy.acknowledged

Stamping(w) == w.pc \in {"home", "view", "acknowledge"}

MsgRequestOK(w, rows, now) ==
    Stamping(w) => /\ w.at <= now /\ w.keys = DOMAIN w.copy
                   /\ \A m \in w.keys : CopyOK(w.copy[m], rows[m][w.user], w.at)

\* The inductive invariant.
MsgIInv ==
    /\ MsgTyped
    /\ \A m \in MessageKeys, u \in MsgUsers :
          /\ ReceiptOK(receipt[m][u], msgNow)
          /\ \A stamp \in Nat : <<m, u, stamp>> \in acked =>
                stamp # 0 /\ receipt[m][u].acknowledged = stamp
    /\ \A q \in Slots : MsgRequestOK(msgReq[q], receipt, msgNow)

-----------------------------------------------------------------------------
(* The editors on one record. *)

\* A window that goes by a base has been shown every field as it was then, but
\* those that drifted and, while a save is under way, those that it does not
\* carry.  A clean window shows its base.
EditOK(x, version, changed) ==
    /\ x.base <= version
    /\ \A f \in EdFields : x.seen[f] <= version
    /\ x.dirty = {} => \A f \in EdFields : x.seen[f] = x.base
    /\ x.sent # 0 => x.dirty # {} /\ x.sent <= x.base
    /\ \A f \in EdFields \ x.drifted :
          (x.sent = 0 \/ f \in x.payload) /\ changed[f] > x.seen[f] => changed[f] > x.base

\* A clean window has the newest version this session saved, or will hear of it.
HeardOK(x, heard, own) ==
    x.kind = "gone" \/ x.dirty # {} \/ x.reload \/ own \in heard \/ x.base >= own

\* The inductive invariant.
EdIInv ==
    /\ EdTypeOK
    /\ ~overwrote
    /\ \A f \in EdFields : changedAt[f] <= edVersion
    /\ \A w \in Windows : EditOK(window[w], edVersion, changedAt)
    /\ \A w \in RecordWindows : HeardOK(window[w], notices[w], ownSave)

-----------------------------------------------------------------------------
(* The views of a grid. *)

\* The rows a call has flushed.
ViewRows == UNION {[views -> GridView] : views \in SUBSET ViewIDs}

ViewCalls == {"create", "save", "apply", "promote", "delete"}
ViewRequest == [pc : ViewCalls, user : ViewUsers, rows : ViewRows]

VwTyped ==
    /\ gviews \in [ViewIDs -> GridView]
    /\ lastView \in [ViewUsers -> ViewIDs \cup {Nobody}]
    /\ viewReq \in [Slots -> {Idle} \cup ViewRequest]
    /\ working \in [ViewUsers -> SUBSET VFields] /\ overlapped \subseteq ViewUsers

\* The call w saves a working copy with these fields as a view of its own.
SavesCopy(w, fields) ==
    /\ w.pc = "save" /\ Cardinality(DOMAIN w.rows) = 2
    /\ \E row \in Range(w.rows) : row.live /\ row.fields = fields

\* The row that w has flushed for a view, which is now g: a working copy is of
\* the caller, only an application leaves it live, and if the row that was read
\* is still there, it was live and the caller's, and its owner and kind stay.
ViewRowOK(row, w, g) ==
    /\ row.version > 0 /\ row.version <= g.version + 1
    /\ row.temp => row.owner = w.user /\ (row.live => w.pc = "apply")
    /\ row.version > 1 /\ row.version = g.version + 1 =>
          /\ g.live /\ row.temp = g.temp /\ row.owner = g.owner /\ row.owner = w.user
          /\ row.temp /\ w.pc # "apply" => SavesCopy(w, g.fields)

\* An application flushes one working copy.
ViewRequestOK(w, table) ==
    w # Idle =>
        /\ \A v \in DOMAIN w.rows : ViewRowOK(w.rows[v], w, table[v])
        /\ w.pc = "apply" => \E v \in ViewIDs : /\ DOMAIN w.rows = {v} /\ w.rows[v].live
                                                /\ w.rows[v].temp /\ w.rows[v].owner = w.user

Applies(w, u) == w.pc = "apply" /\ w.user = u
AppliesFirst(w, u) == Applies(w, u) /\ \E v \in DOMAIN w.rows : w.rows[v].version = 1

WorkIn(table, u) == {v \in ViewIDs : table[v].live /\ table[v].temp /\ table[v].owner = u}

\* A user none of whose first applications overlapped has one working copy, and
\* none while the first application is under way, alone.
OneCopy(table, req, u) ==
    /\ \A a, b \in WorkIn(table, u) : a = b
    /\ \A q \in Slots : AppliesFirst(req[q], u) =>
          /\ WorkIn(table, u) = {}
          /\ \A p \in Slots : p # q => ~Applies(req[p], u)

\* What a user applied last is in a live working copy.
CopyKept(table, fields, u) ==
    fields # {} => \E v \in WorkIn(table, u) : table[v].fields = fields

\* The inductive invariant.
VwIInv ==
    /\ VwTyped
    /\ \A v \in ViewIDs : gviews[v].version = 0 => ~gviews[v].live
    /\ \A q \in Slots : ViewRequestOK(viewReq[q], gviews)
    /\ \A u \in ViewUsers : /\ u \notin overlapped => OneCopy(gviews, viewReq, u)
                            /\ CopyKept(gviews, working[u], u)

-----------------------------------------------------------------------------
(* The steps of messages. *)

\* What the invariant says of the types of receipts and requests.
LEMMA MsgTypes ==
    ASSUME MsgIInv
    PROVE  /\ msgNow \in Nat \ {0} /\ acked \subseteq MessageKeys \X MsgUsers \X Nat
           /\ receipt \in [MessageKeys -> [MsgUsers -> ReceiptRow]]
           /\ \A m \in MessageKeys, u \in MsgUsers : receipt[m][u] \in ReceiptRow
           /\ msgReq \in [Slots -> {Idle} \cup MsgRequest]
           /\ \A q \in Slots : Stamping(msgReq[q]) => msgReq[q] \in MsgRequest
  BY DEF MsgIInv, MsgTyped, Idle, Stamping

\* What was in order at a time is in order later.
LEMMA LaterOK ==
    ASSUME NEW row \in ReceiptRow, NEW t \in Nat, NEW now \in Nat, t <= now, ReceiptOK(row, t)
    PROVE  ReceiptOK(row, now)
  BY DEF ReceiptRow, ReceiptOK

\* A request begins on the receipts as they are.
LEMMA StartHolds ==
    ASSUME MsgIInv, NEW q \in Slots, NEW pc \in {"home", "view", "acknowledge"},
           NEW u \in MsgUsers, NEW keys \in SUBSET MessageKeys, StartRequest(q, pc, u, keys)
    PROVE  MsgIInv'
<1> DEFINE copy == [m \in keys |-> receipt[m][u]]
           w == [pc |-> pc, user |-> u, keys |-> keys, at |-> msgNow, copy |-> copy]
<1>1. msgReq' = [msgReq EXCEPT ![q] = w] /\ UNCHANGED <<msgNow, message, receipt, patches, acked>>
  BY DEF StartRequest
<1>2. /\ copy \in [keys -> ReceiptRow] /\ DOMAIN copy = keys
      /\ \A m \in keys : copy[m] = receipt[m][u]
  BY MsgTypes
<1> HIDE DEF copy
<1>3. copy \in Copies
  BY <1>2 DEF Copies
<1>4. /\ w \in MsgRequest /\ w.copy = copy /\ w.keys = keys /\ w.at = msgNow /\ w.user = u
  BY <1>3, MsgTypes DEF MsgRequest
<1> HIDE DEF w
<1>5. /\ msgReq' \in [Slots -> {Idle} \cup MsgRequest] /\ msgReq'[q] = w
      /\ \A p \in Slots : p # q => msgReq'[p] = msgReq[p]
  BY <1>1, <1>4, MsgTypes
<1>6. ASSUME NEW m \in keys PROVE CopyOK(copy[m], receipt[m][u], msgNow)
  <2>1. copy[m] = receipt[m][u] /\ receipt[m][u] \in ReceiptRow
    BY <1>2, MsgTypes
  <2>2. receipt[m][u].version \in Nat
    BY <2>1 DEF ReceiptRow
  <2>3. ReceiptOK(receipt[m][u], msgNow)
    BY DEF MsgIInv
  <2> QED
    BY <2>1, <2>2, <2>3 DEF CopyOK
<1>7. MsgRequestOK(w, receipt, msgNow)
  BY <1>2, <1>4, <1>6, MsgTypes DEF MsgRequestOK
<1>8. MsgTyped'
  BY <1>1, <1>5 DEF MsgIInv, MsgTyped
<1> QED
  BY <1>1, <1>5, <1>7, <1>8 DEF MsgIInv

\* A request ends, or goes on to its answer, without a stamp.
LEMMA AnswerHolds ==
    ASSUME MsgIInv, NEW q \in Slots, NEW w \in {Idle} \cup MsgRequest, ~Stamping(w),
           msgReq' = [msgReq EXCEPT ![q] = w], UNCHANGED <<msgNow, receipt, acked>>
    PROVE  MsgIInv'
<1>1. /\ msgReq' \in [Slots -> {Idle} \cup MsgRequest] /\ msgReq'[q] = w
      /\ \A p \in Slots : p # q => msgReq'[p] = msgReq[p]
  BY MsgTypes
<1>2. MsgTyped'
  BY <1>1 DEF MsgIInv, MsgTyped
<1> QED
  BY <1>1, <1>2 DEF MsgIInv, MsgRequestOK

\* What a stamp makes of a copy that is still the receipt.
LEMMA StampIs ==
    ASSUME NEW row \in ReceiptRow, NEW at \in Nat \ {0}, NEW clicked \in BOOLEAN,
           ReceiptOK(row, at)
    PROVE  /\ Stamped(row, at, clicked) \in ReceiptRow
           /\ ReceiptOK(Stamped(row, at, clicked), at)
           /\ Stamped(row, at, clicked).version = row.version + 1
           /\ row.acknowledged # 0 => Stamped(row, at, clicked).acknowledged = row.acknowledged
           /\ clicked => Stamped(row, at, clicked).acknowledged # 0
<1> DEFINE version == row.version + 1
           read == IF row.read = 0 THEN at ELSE row.read
           acknowledged == IF clicked /\ row.acknowledged = 0 THEN at ELSE row.acknowledged
<1>1. /\ version \in Nat /\ read \in Nat /\ acknowledged \in Nat
      /\ (row.acknowledged # 0 => acknowledged = row.acknowledged)
      /\ (clicked => acknowledged # 0)
      /\ acknowledged # 0 => read # 0 /\ read <= acknowledged
      /\ read <= at /\ acknowledged <= at
  BY DEF ReceiptRow, ReceiptOK
<1>2. Stamped(row, at, clicked) = [version |-> version, read |-> read, acknowledged |-> acknowledged]
  BY DEF Stamped
<1> HIDE DEF version, read, acknowledged
<1>3. /\ Stamped(row, at, clicked) \in ReceiptRow
      /\ Stamped(row, at, clicked).version = version
      /\ Stamped(row, at, clicked).read = read
      /\ Stamped(row, at, clicked).acknowledged = acknowledged
  BY <1>1, <1>2 DEF ReceiptRow
<1> QED
  BY <1>1, <1>3 DEF ReceiptOK, version

\* The stamps land: each on the receipt that was read.
LEMMA CommitStampsHolds ==
    ASSUME MsgIInv, NEW q \in Slots, CommitStamps(q)
    PROVE  MsgIInv'
<1> DEFINE r == msgReq[q]
           clicked == r.pc = "acknowledge"
           New(m) == Stamped(r.copy[m], r.at, clicked)
           next == IF clicked THEN Idle ELSE [r EXCEPT !.pc = "render"]
<1>1. /\ Stamping(r) /\ StampsLand(q)
      /\ receipt' = [m \in MessageKeys |->
                        IF m \notin Dirty(q) THEN receipt[m]
                        ELSE [receipt[m] EXCEPT ![r.user] = New(m)]]
      /\ acked' = IF ~clicked THEN acked
                  ELSE acked \cup {<<m, r.user, Stamped(r.copy[m], r.at, TRUE).acknowledged>> :
                                       m \in r.keys}
      /\ msgReq' = [msgReq EXCEPT ![q] = next] /\ UNCHANGED msgNow
  BY DEF CommitStamps, Stamping
<1>2. /\ r \in MsgRequest /\ MsgRequestOK(r, receipt, msgNow)
      /\ r.user \in MsgUsers /\ r.keys \subseteq MessageKeys /\ r.at \in Nat \ {0}
  BY <1>1, MsgTypes DEF MsgIInv, MsgRequest
<1>3. next \in {Idle} \cup MsgRequest /\ ~Stamping(next)
  BY <1>2 DEF MsgRequest, Stamping, Idle
<1> DEFINE u == r.user
<1>4. \A m \in r.keys : r.copy[m] \in ReceiptRow /\ CopyOK(r.copy[m], receipt[m][u], r.at)
  BY <1>1, <1>2 DEF MsgRequest, MsgRequestOK, Copies
<1>5. \A m \in Dirty(q) : /\ m \in r.keys /\ r.copy[m] = receipt[m][u]
                          /\ ReceiptOK(receipt[m][u], r.at)
  BY <1>1, <1>4 DEF Dirty, StampsLand, CopyOK
<1>6. \A m \in Dirty(q) : /\ New(m) \in ReceiptRow /\ ReceiptOK(New(m), r.at)
                          /\ New(m).version = receipt[m][u].version + 1
                          /\ receipt[m][u].acknowledged # 0 =>
                                New(m).acknowledged = receipt[m][u].acknowledged
  <2> SUFFICES ASSUME NEW m \in Dirty(q)
               PROVE  /\ New(m) \in ReceiptRow /\ ReceiptOK(New(m), r.at)
                      /\ New(m).version = receipt[m][u].version + 1
                      /\ receipt[m][u].acknowledged # 0 =>
                            New(m).acknowledged = receipt[m][u].acknowledged
    OBVIOUS
  <2>1. PICK row \in ReceiptRow : row = r.copy[m] /\ row = receipt[m][u] /\ ReceiptOK(row, r.at)
    BY <1>4, <1>5
  <2>2. clicked \in BOOLEAN /\ New(m) = Stamped(row, r.at, clicked)
    BY <2>1
  <2> HIDE DEF clicked, New
  <2>3. /\ New(m) \in ReceiptRow /\ ReceiptOK(New(m), r.at) /\ New(m).version = row.version + 1
        /\ row.acknowledged # 0 => New(m).acknowledged = row.acknowledged
    BY <1>2, <2>1, <2>2, StampIs
  <2> QED
    BY <2>1, <2>3
<1> HIDE DEF New, next
<1>7. /\ receipt' \in [MessageKeys -> [MsgUsers -> ReceiptRow]]
      /\ \A m \in MessageKeys, v \in MsgUsers :
            receipt'[m][v] = IF m \in Dirty(q) /\ v = u THEN New(m) ELSE receipt[m][v]
  BY <1>1, <1>2, <1>6, MsgTypes
<1>8. ASSUME NEW m \in MessageKeys, NEW v \in MsgUsers PROVE ReceiptOK(receipt'[m][v], msgNow)
  <2>1. r.at <= msgNow /\ msgNow \in Nat
    BY <1>1, <1>2, MsgTypes DEF MsgRequestOK
  <2>2. CASE m \in Dirty(q) /\ v = u
    <3>1. New(m) \in ReceiptRow /\ ReceiptOK(New(m), r.at)
      BY <1>6, <2>2
    <3>2. ReceiptOK(New(m), msgNow)
      BY <1>2, <2>1, <3>1, LaterOK
    <3> QED
      BY <1>7, <2>2, <3>2
  <2>3. CASE ~(m \in Dirty(q) /\ v = u)
    <3>1. receipt'[m][v] = receipt[m][v]
      BY <1>7, <2>3
    <3> QED
      BY <3>1 DEF MsgIInv
  <2> QED
    BY <2>2, <2>3
<1>9. \A m \in MessageKeys, v \in MsgUsers :
         receipt[m][v].acknowledged # 0 => receipt'[m][v].acknowledged = receipt[m][v].acknowledged
  BY <1>6, <1>7
<1> DEFINE mark(m) == Stamped(r.copy[m], r.at, TRUE).acknowledged
<1>10. ASSUME NEW m \in MessageKeys, NEW v \in MsgUsers, NEW stamp \in Nat,
              <<m, v, stamp>> \in acked'
       PROVE  stamp # 0 /\ receipt'[m][v].acknowledged = stamp
  <2>1. CASE <<m, v, stamp>> \in acked
    <3>1. stamp # 0 /\ receipt[m][v].acknowledged = stamp
      BY <2>1 DEF MsgIInv
    <3> QED
      BY <1>9, <3>1
  <2>2. CASE clicked /\ m \in r.keys /\ v = u /\ stamp = mark(m)
    <3>1. /\ r.copy[m] \in ReceiptRow /\ CopyOK(r.copy[m], receipt[m][u], r.at)
          /\ ReceiptOK(r.copy[m], r.at)
      BY <1>4, <2>2 DEF CopyOK
    <3>2. /\ mark(m) # 0
          /\ r.copy[m].acknowledged # 0 => mark(m) = r.copy[m].acknowledged
      BY <1>2, <3>1, StampIs
    <3>3. CASE m \in Dirty(q)
      <4>1. New(m) = Stamped(r.copy[m], r.at, TRUE)
        BY <2>2 DEF New
      <4> QED
        BY <1>7, <2>2, <3>2, <3>3, <4>1
    <3>4. CASE m \notin Dirty(q)
      <4>1. r.copy[m].acknowledged # 0
        BY <2>2, <3>4 DEF Dirty
      <4>2. receipt[m][u].acknowledged = r.copy[m].acknowledged
        BY <3>1, <4>1 DEF CopyOK
      <4> QED
        BY <1>7, <2>2, <3>2, <3>4, <4>1, <4>2
    <3> QED
      BY <3>3, <3>4
  <2>3. CASE clicked /\ \E k \in r.keys : <<m, v, stamp>> = <<k, u, mark(k)>>
    BY <2>2, <2>3
  <2> QED
    BY <1>1, <1>10, <2>1, <2>3
<1>11. acked' \subseteq MessageKeys \X MsgUsers \X Nat
  <2>1. ASSUME NEW m \in r.keys PROVE mark(m) \in Nat
    <3>1. r.copy[m] \in ReceiptRow /\ ReceiptOK(r.copy[m], r.at)
      BY <1>4 DEF CopyOK
    <3>2. Stamped(r.copy[m], r.at, TRUE) \in ReceiptRow
      BY <1>2, <3>1, StampIs
    <3> QED
      BY <3>2 DEF ReceiptRow
  <2> HIDE DEF mark
  <2>2. acked \subseteq MessageKeys \X MsgUsers \X Nat
    BY MsgTypes
  <2>3. acked' = acked \/ acked' = acked \cup {<<m, u, mark(m)>> : m \in r.keys}
    BY <1>1 DEF mark
  <2>4. {<<m, u, mark(m)>> : m \in r.keys} \subseteq MessageKeys \X MsgUsers \X Nat
    BY <1>2, <2>1
  <2> QED
    BY <2>2, <2>3, <2>4
<1>12. /\ msgReq' \in [Slots -> {Idle} \cup MsgRequest] /\ msgReq'[q] = next
       /\ \A p \in Slots : p # q => msgReq'[p] = msgReq[p]
  BY <1>1, <1>3, MsgTypes
<1>13. MsgTyped'
  BY <1>1, <1>7, <1>11, <1>12, MsgTypes DEF MsgTyped
<1>14. ASSUME NEW p \in Slots, p # q PROVE MsgRequestOK(msgReq[p], receipt', msgNow)
  <2> DEFINE w == msgReq[p]
  <2> SUFFICES ASSUME Stamping(w), NEW m \in w.keys
               PROVE  CopyOK(w.copy[m], receipt'[m][w.user], w.at)
    BY <1>14 DEF MsgIInv, MsgRequestOK
  <2>1. /\ w \in MsgRequest /\ w.keys = DOMAIN w.copy
        /\ CopyOK(w.copy[m], receipt[m][w.user], w.at)
    BY MsgTypes DEF MsgIInv, MsgRequestOK
  <2>2. m \in MessageKeys /\ w.user \in MsgUsers /\ w.copy[m].version \in Nat
    BY <2>1 DEF MsgRequest, Copies, ReceiptRow
  <2>3. CASE m \in Dirty(q) /\ w.user = u
    <3>1. receipt'[m][w.user] = New(m) /\ New(m).version = receipt[m][w.user].version + 1
      BY <1>6, <1>7, <2>2, <2>3
    <3>2. receipt[m][w.user].version \in Nat
      BY <2>2, MsgTypes DEF ReceiptRow
    <3> QED
      BY <1>9, <2>1, <2>2, <3>1, <3>2 DEF CopyOK
  <2>4. CASE ~(m \in Dirty(q) /\ w.user = u)
    BY <1>7, <2>1, <2>2, <2>4
  <2> QED
    BY <2>3, <2>4
<1>15. \A p \in Slots : MsgRequestOK(msgReq'[p], receipt', msgNow)
  BY <1>3, <1>12, <1>14 DEF MsgRequestOK
<1>16. UNCHANGED msgNow
  BY <1>1
<1> HIDE DEF r, u, clicked, mark
<1> QED
  BY <1>8, <1>10, <1>13, <1>15, <1>16 DEF MsgIInv

\* The invariant survives every step ...
LEMMA MsgInvStep == MsgIInv /\ [MsgNext]_msgVars => MsgIInv'
<1> SUFFICES ASSUME MsgIInv, [MsgNext]_msgVars PROVE MsgIInv'
  OBVIOUS
<1>1. ASSUME NEW q \in Slots, NEW u \in MsgUsers, view_home(q, u) PROVE MsgIInv'
  BY <1>1, StartHolds DEF view_home
<1>2. ASSUME NEW q \in Slots, NEW u \in MsgUsers, NEW m \in MessageKeys,
             view_message(q, u, m) \/ acknowledge(q, u, m)
      PROVE  MsgIInv'
  BY <1>2, StartHolds DEF view_message, acknowledge
<1>3. ASSUME NEW q \in Slots, CommitStamps(q) PROVE MsgIInv'
  BY <1>3, CommitStampsHolds
<1>4. ASSUME NEW q \in Slots, StampsRefused(q) \/ Rendered(q) PROVE MsgIInv'
  <2>1. ~Stamping(Idle)
    BY DEF Stamping, Idle
  <2> QED
    BY <1>4, <2>1, AnswerHolds DEF StampsRefused, Rendered
<1>5. ASSUME NEW m \in MessageKeys, post_message(m) \/ patch_message(m) \/ delete_message(m)
      PROVE  MsgIInv'
  <2>1. UNCHANGED <<msgNow, receipt, msgReq, acked>>
    BY <1>5 DEF post_message, patch_message, delete_message
  <2> QED
    BY <2>1 DEF MsgIInv, MsgTyped
<1>6. CASE MsgTick
  <2>1. msgNow' = msgNow + 1 /\ UNCHANGED <<receipt, msgReq, acked>>
    BY <1>6 DEF MsgTick
  <2>2. msgNow' \in Nat \ {0} /\ msgNow <= msgNow'
    BY <2>1, MsgTypes
  <2>3. MsgTyped'
    BY <2>1, <2>2 DEF MsgIInv, MsgTyped
  <2>4. \A m \in MessageKeys, u \in MsgUsers : ReceiptOK(receipt[m][u], msgNow')
    BY <2>2, MsgTypes, LaterOK DEF MsgIInv
  <2>5. \A q \in Slots : MsgRequestOK(msgReq[q], receipt, msgNow')
    <3> SUFFICES ASSUME NEW q \in Slots, Stamping(msgReq[q]) PROVE msgReq[q].at <= msgNow'
      BY DEF MsgIInv, MsgRequestOK
    <3>1. msgReq[q].at <= msgNow /\ msgReq[q].at \in Nat
      BY MsgTypes DEF MsgIInv, MsgRequestOK, MsgRequest
    <3> QED
      BY <2>2, <3>1, MsgTypes
  <2> QED
    BY <2>1, <2>3, <2>4, <2>5 DEF MsgIInv
<1>7. CASE UNCHANGED msgVars
  BY <1>7 DEF msgVars, MsgIInv, MsgTyped
<1> QED
  BY <1>1, <1>2, <1>3, <1>4, <1>5, <1>6, <1>7 DEF MsgNext

\* ... and holds at the start.
LEMMA MsgInvInit == MsgInit => MsgIInv
<1> SUFFICES ASSUME MsgInit PROVE MsgIInv
  OBVIOUS
<1>1. /\ msgNow = 1 /\ acked = {} /\ msgReq = [q \in Slots |-> Idle]
      /\ receipt = [m \in MessageKeys |-> [u \in MsgUsers |-> NoReceipt]]
  BY DEF MsgInit
<1>2. NoReceipt \in ReceiptRow /\ ReceiptOK(NoReceipt, 1)
  BY DEF NoReceipt, ReceiptRow, ReceiptOK
<1>3. MsgTyped
  BY <1>1, <1>2 DEF MsgTyped
<1> QED
  BY <1>1, <1>2, <1>3 DEF MsgIInv, MsgRequestOK, Stamping, Idle

\* The clock and the messages keep within their bounds.
MsgBounds ==
    msgNow \in Stamps \ {0} /\ patches \in 0 .. MaxPatches /\ message \in [MessageKeys -> Message]

\* Each change of a message, and the clock, stays inside its bound.
LEMMA MsgBoundsStep == MsgBounds /\ [MsgNext]_msgVars => MsgBounds'
<1> SUFFICES ASSUME MsgBounds, [MsgNext]_msgVars PROVE MsgBounds'
  OBVIOUS
<1>1. /\ msgNow \in Nat \ {0} /\ msgNow <= MaxMsgTime /\ MaxMsgTime \in Nat
      /\ patches \in Nat /\ patches <= MaxPatches /\ MaxPatches \in Nat
      /\ \A m \in MessageKeys : message[m] \in Message
  BY AdminMessagesAssumption DEF MsgBounds, Stamps
<1>2. CASE UNCHANGED <<msgNow, message, patches>>
  BY <1>2 DEF MsgBounds
<1>3. CASE MsgTick
  BY <1>1, <1>3 DEF MsgTick, MsgBounds, Stamps
<1>4. ASSUME NEW m \in MessageKeys, post_message(m) \/ patch_message(m) \/ delete_message(m)
      PROVE  MsgBounds'
  <2>1. PICK row : message' = [message EXCEPT ![m] = row] /\ row \in Message
    <3>1. CASE post_message(m)
      <4>1. PICK urgent, requires \in BOOLEAN, expires \in {0} \cup (msgNow + 1 .. MaxMsgTime) :
               message' = [message EXCEPT ![m] = [status |-> "live", urgent |-> urgent,
                                                  requires |-> requires, expires |-> expires]]
        BY <3>1 DEF post_message
      <4>2. expires \in Stamps
        BY <1>1 DEF Stamps
      <4>3. PICK row : row = [status |-> "live", urgent |-> urgent, requires |-> requires,
                              expires |-> expires]
        OBVIOUS
      <4>4. row \in Message
        BY <4>2, <4>3 DEF Message
      <4> QED
        BY <4>1, <4>3, <4>4
    <3>2. CASE patch_message(m)
      <4>1. PICK row \in {[message[m] EXCEPT !.urgent = ~@], [message[m] EXCEPT !.requires = ~@]}
                         \cup {[message[m] EXCEPT !.expires = e] : e \in Stamps} :
               message' = [message EXCEPT ![m] = row]
        BY <3>2 DEF patch_message
      <4>2. message[m] \in Message
        BY <1>1
      <4>3. /\ [message[m] EXCEPT !.urgent = ~@] \in Message
            /\ [message[m] EXCEPT !.requires = ~@] \in Message
        <5>1. PICK a, b \in BOOLEAN : a = ~message[m].urgent /\ b = ~message[m].requires
          OBVIOUS
        <5>2. /\ [message[m] EXCEPT !.urgent = a] \in Message
              /\ [message[m] EXCEPT !.requires = b] \in Message
          BY <4>2 DEF Message
        <5> QED
          BY <5>1, <5>2, Zenon
      <4>4. \A e \in Stamps : [message[m] EXCEPT !.expires = e] \in Message
        BY <4>2 DEF Message
      <4>5. row \in Message
        BY <4>1, <4>3, <4>4
      <4> QED
        BY <4>1, <4>5
    <3>3. CASE delete_message(m)
      <4>1. message' = [message EXCEPT ![m] = [message[m] EXCEPT !.status = "deleted"]]
        BY <3>3 DEF delete_message
      <4>2. [message[m] EXCEPT !.status = "deleted"] \in Message
        BY <1>1 DEF Message
      <4> QED
        BY <4>1, <4>2
    <3> QED
      BY <1>4, <3>1, <3>2, <3>3
  <2>2. message' \in [MessageKeys -> Message]
    BY <2>1 DEF MsgBounds
  <2>3. patches < MaxPatches /\ patches' = patches + 1 /\ msgNow' = msgNow
    BY <1>4 DEF post_message, patch_message, delete_message
  <2> QED
    BY <1>1, <2>2, <2>3 DEF MsgBounds
<1>5. ASSUME NEW q \in Slots, CommitStamps(q) \/ StampsRefused(q) \/ Rendered(q)
      PROVE  UNCHANGED <<msgNow, message, patches>>
  BY <1>5 DEF CommitStamps, StampsRefused, Rendered
<1>6. ASSUME NEW q \in Slots, NEW u \in MsgUsers,
             view_home(q, u) \/ \E m \in MessageKeys : view_message(q, u, m) \/ acknowledge(q, u, m)
      PROVE  UNCHANGED <<msgNow, message, patches>>
  BY <1>6 DEF view_home, view_message, acknowledge, StartRequest
<1>7. UNCHANGED msgVars => UNCHANGED <<msgNow, message, patches>>
  BY DEF msgVars
<1> QED
  BY <1>2, <1>3, <1>4, <1>5, <1>6, <1>7 DEF MsgNext

\* The store starts with no message, at the first stamp.
LEMMA MsgBoundsInit == MsgInit => MsgBounds
  BY AdminMessagesAssumption DEF MsgInit, MsgBounds, Stamps, Message, NoMessage

\* The receipts are of times the clock has shown.
LEMMA MsgTypeHolds ==
    ASSUME MsgIInv, MsgBounds
    PROVE  MsgTypeOK
<1>1. msgNow \in Nat /\ msgNow <= MaxMsgTime /\ MaxMsgTime \in Nat
  BY AdminMessagesAssumption DEF MsgBounds, Stamps
<1>2. ASSUME NEW m \in MessageKeys, NEW u \in MsgUsers PROVE receipt[m][u] \in Receipt
  <2>1. receipt[m][u] \in ReceiptRow /\ ReceiptOK(receipt[m][u], msgNow)
    BY MsgTypes DEF MsgIInv
  <2> QED
    BY <1>1, <2>1 DEF ReceiptRow, ReceiptOK, Receipt, Stamps
<1>3. receipt \in [MessageKeys -> [MsgUsers -> Receipt]]
  <2>1. \A m \in MessageKeys : receipt[m] \in [MsgUsers -> Receipt]
    BY <1>2, MsgTypes
  <2> QED
    BY <2>1, MsgTypes
<1>4. \A q \in Slots : msgReq[q].pc \in {"idle", "home", "view", "acknowledge", "render"}
  BY MsgTypes DEF MsgRequest, Idle
<1>5. acked \subseteq MessageKeys \X MsgUsers \X Stamps
  <2> SUFFICES ASSUME NEW m \in MessageKeys, NEW u \in MsgUsers, NEW stamp \in Nat,
                      <<m, u, stamp>> \in acked
               PROVE  stamp \in Stamps
    BY MsgTypes
  <2>1. stamp = receipt[m][u].acknowledged
    BY DEF MsgIInv
  <2> QED
    BY <1>2, <2>1 DEF Receipt
<1> QED
  BY <1>3, <1>4, <1>5, MsgTypes DEF MsgTypeOK, MsgBounds

-----------------------------------------------------------------------------
(* The steps of the editors. *)

\* What the invariant says of one window.
LEMMA EdTypes ==
    ASSUME EdIInv
    PROVE  /\ edVersion \in EdVersions /\ ownSave \in Nat /\ ownSave <= edVersion
           /\ changedAt \in [EdFields -> EdVersions] /\ window \in [Windows -> Window]
           /\ \A w \in Windows : /\ window[w] \in Window
                                 /\ EditOK(window[w], edVersion, changedAt)
           /\ notices \in [RecordWindows -> SUBSET EdVersions]
           /\ MaxEdVersion \in Nat \ {0} /\ EdVersions \subseteq Nat \ {0}
           /\ AUTO_RETRY_LIMIT \in Nat
  BY EditorWindowsAssumption DEF EdIInv, EdTypeOK, EdVersions

\* A window becomes x, and the row stays.
LEMMA WindowMoves ==
    ASSUME EdIInv, NEW w \in Windows, NEW x \in Window, SetWindow(w, x), UNCHANGED rowOnly,
           notices' \in [RecordWindows -> SUBSET EdVersions],
           \A u \in RecordWindows : u # w => notices'[u] = notices[u],
           EditOK(x, edVersion, changedAt),
           w \in RecordWindows => HeardOK(x, notices'[w], ownSave)
    PROVE  EdIInv'
<1>1. /\ window' \in [Windows -> Window] /\ window'[w] = x
      /\ \A u \in Windows : u # w => window'[u] = window[u]
  BY EdTypes DEF SetWindow
<1>2. UNCHANGED <<edVersion, changedAt, ownSave, overwrote>>
  BY DEF rowOnly
<1>3. EdTypeOK'
  BY <1>1, <1>2 DEF EdIInv, EdTypeOK
<1>4. \A u \in Windows : EditOK(window'[u], edVersion, changedAt)
  BY <1>1 DEF EdIInv
<1>5. \A u \in RecordWindows : HeardOK(window'[u], notices'[u], ownSave)
  BY <1>1 DEF EdIInv, Windows
<1> QED
  BY <1>2, <1>3, <1>4, <1>5 DEF EdIInv

\* A closed window.
LEMMA GoneIs ==
    /\ Gone \in Window /\ Gone.kind = "gone" /\ Gone.base = 1 /\ Gone.seen = All(1)
    /\ Gone.dirty = {} /\ Gone.sent = 0 /\ Gone.drifted = {} /\ Gone.payload = {} /\ ~Gone.reload
<1>1. 1 \in EdVersions /\ 0 \in 0 .. MaxEdVersion /\ 0 \in 0 .. AUTO_RETRY_LIMIT
  BY EditorWindowsAssumption DEF EdVersions
<1>2. All(1) \in [EdFields -> EdVersions]
  BY <1>1 DEF All
<1> QED
  BY <1>1, <1>2 DEF Gone, Window

\* What a window shows that just opened, or was settled, at some version.
LEMMA ShowingIs ==
    ASSUME NEW kind \in {"gone", "view", "full", "field"}, NEW v \in EdVersions
    PROVE  LET x == Showing(kind, v) IN
           /\ x \in Window /\ x.kind = kind /\ x.base = v /\ x.seen = All(v)
           /\ x.dirty = {} /\ x.sent = 0 /\ ~x.reload
<1> DEFINE x == Showing(kind, v)
           all == All(v)
<1>1. x = [Gone EXCEPT !.kind = kind, !.base = v, !.seen = all]
  BY DEF Showing
<1>2. all \in [EdFields -> EdVersions]
  BY DEF All
<1> HIDE DEF x, all
<1>3. /\ x \in Window /\ x.kind = kind /\ x.base = v /\ x.seen = all
      /\ x.dirty = Gone.dirty /\ x.sent = Gone.sent /\ x.reload = Gone.reload
  BY <1>1, <1>2, GoneIs DEF Window
<1> QED
  BY <1>3, GoneIs DEF x, all

\* What shows a version in every field is in order.
LEMMA CleanOK ==
    ASSUME EdIInv, NEW x \in Window, NEW v \in EdVersions, v <= edVersion,
           x.base = v, x.seen = All(v), x.sent = 0
    PROVE  EditOK(x, edVersion, changedAt)
<1>1. \A f \in EdFields : x.seen[f] = v
  BY DEF All
<1> QED
  BY <1>1 DEF EditOK

\* A closed window, and one that shows an old version of the row, is in order.
LEMMA ShownOK ==
    ASSUME EdIInv, NEW kind \in {"gone", "view", "full", "field"}, NEW v \in EdVersions,
           v <= edVersion
    PROVE  /\ EditOK(Showing(kind, v), edVersion, changedAt)
           /\ EditOK(Gone, edVersion, changedAt)
           /\ \A heard : /\ v = edVersion => HeardOK(Showing(kind, v), heard, ownSave)
                         /\ HeardOK(Gone, heard, ownSave)
<1>1. 1 <= edVersion /\ ownSave <= edVersion /\ 1 \in EdVersions
  BY EdTypes, EditorWindowsAssumption DEF EdVersions
<1>2. EditOK(Gone, edVersion, changedAt) /\ \A heard : HeardOK(Gone, heard, ownSave)
  BY <1>1, GoneIs, CleanOK DEF HeardOK
<1>3. EditOK(Showing(kind, v), edVersion, changedAt)
  <2>1. /\ Showing(kind, v) \in Window /\ Showing(kind, v).base = v
        /\ Showing(kind, v).seen = All(v) /\ Showing(kind, v).sent = 0
    BY ShowingIs
  <2> QED
    BY <2>1, CleanOK
<1>4. ASSUME NEW heard, v = edVersion PROVE HeardOK(Showing(kind, v), heard, ownSave)
  BY <1>1, <1>4, ShowingIs, EdTypes DEF HeardOK
<1> QED
  BY <1>2, <1>3, <1>4

\* A read view opens, the editor starts on a clean one, or a clean one reloads.
LEMMA OpensHolds ==
    ASSUME EdIInv, NEW w \in RecordWindows, NEW kind \in {"gone", "view", "full", "field"},
           SetWindow(w, Showing(kind, edVersion)), UNCHANGED <<notices, rowOnly>>
    PROVE  EdIInv'
<1>1. w \in Windows /\ edVersion \in EdVersions /\ edVersion <= edVersion
  BY EdTypes DEF Windows, EdVersions
<1>2. Showing(kind, edVersion) \in Window
  BY <1>1, ShowingIs
<1>3. /\ EditOK(Showing(kind, edVersion), edVersion, changedAt)
      /\ HeardOK(Showing(kind, edVersion), notices[w], ownSave)
  BY <1>1, ShownOK
<1>4. notices' = notices /\ UNCHANGED rowOnly /\ notices \in [RecordWindows -> SUBSET EdVersions]
  BY EdTypes
<1> QED
  BY <1>1, <1>2, <1>3, <1>4, WindowMoves

\* The window that a step leaves alone keeps its notices, and a step that only
\* moves a window leaves every notice on its way.
LEMMA EditMoves ==
    ASSUME EdIInv, NEW w \in Windows, NEW x \in Window, SetWindow(w, x),
           UNCHANGED <<notices, rowOnly>>, EditOK(x, edVersion, changedAt),
           w \in RecordWindows => HeardOK(x, notices[w], ownSave)
    PROVE  EdIInv'
<1>1. notices' = notices /\ UNCHANGED rowOnly /\ notices \in [RecordWindows -> SUBSET EdVersions]
  BY EdTypes
<1> QED
  BY <1>1, WindowMoves

\* The base moves under unsaved edits: what was not shown drifts.
LEMMA RebaseOK ==
    ASSUME EdIInv, NEW w \in Windows, NEW reload \in BOOLEAN,
           window[w].dirty # {}
    PROVE  LET x == [window[w] EXCEPT !.reload = reload, !.base = edVersion,
                                      !.drifted = @ \cup Unshown(w)]
           IN  x \in Window /\ x.dirty # {} /\ EditOK(x, edVersion, changedAt)
<1> DEFINE y == window[w]
           drifted == y.drifted \cup Unshown(w)
           x == [y EXCEPT !.reload = reload, !.base = edVersion, !.drifted = drifted]
<1>1. /\ y \in Window /\ EditOK(y, edVersion, changedAt) /\ edVersion \in EdVersions
  BY EdTypes
<1>2. drifted \in SUBSET EdFields /\ y.dirty # {}
  BY <1>1 DEF Window, Unshown
<1>3. \A f \in EdFields \ drifted : ~(changedAt[f] > y.seen[f])
  BY DEF Unshown
<1> HIDE DEF y, drifted
<1>4. /\ x \in Window /\ x.base = edVersion /\ x.seen = y.seen /\ x.dirty = y.dirty
      /\ x.sent = y.sent /\ x.drifted = drifted /\ x.payload = y.payload
  BY <1>1, <1>2 DEF Window
<1> HIDE DEF x
<1>5. EditOK(x, edVersion, changedAt)
  <2>1. y.sent # 0 => y.sent <= edVersion
    BY <1>1, EdTypes DEF EditOK, Window
  <2>2. edVersion \in Nat /\ edVersion <= edVersion /\ \A f \in EdFields : y.seen[f] <= edVersion
    BY <1>1, EdTypes DEF EditOK
  <2>3. \A f \in EdFields \ x.drifted : ~(changedAt[f] > x.seen[f])
    BY <1>3, <1>4
  <2> QED
    BY <1>2, <1>4, <2>1, <2>2, <2>3 DEF EditOK
<1> QED
  BY <1>2, <1>4, <1>5 DEF x, y, drifted

\* The editor starts.
LEMMA BeginEditHolds ==
    ASSUME EdIInv, NEW w \in RecordWindows, begin_edit(w)
    PROVE  EdIInv'
<1>1. CASE window[w].dirty = {}
  BY <1>1, OpensHolds DEF begin_edit
<1>2. CASE window[w].dirty # {}
  <2> DEFINE reload == window[w].reload
             x == [window[w] EXCEPT !.base = edVersion, !.drifted = @ \cup Unshown(w)]
             z == [window[w] EXCEPT !.reload = reload, !.base = edVersion,
                                    !.drifted = @ \cup Unshown(w)]
  <2>1. SetWindow(w, x) /\ UNCHANGED <<notices, rowOnly>>
    BY <1>2 DEF begin_edit
  <2>2. w \in Windows /\ window[w] \in Window /\ reload \in BOOLEAN
    BY EdTypes DEF Windows, Window
  <2>3. x = z
    BY <2>2 DEF Window
  <2> HIDE DEF x, reload
  <2>4. z \in Window /\ z.dirty # {} /\ EditOK(z, edVersion, changedAt)
    BY <1>2, <2>2, RebaseOK
  <2> HIDE DEF z
  <2>5. HeardOK(z, notices[w], ownSave)
    BY <2>4 DEF HeardOK
  <2> QED
    BY <2>1, <2>2, <2>3, <2>4, <2>5, EditMoves
<1> QED
  BY <1>1, <1>2

\* A field's own window opens on what a read view shows.
LEMMA OpenFieldHolds ==
    ASSUME EdIInv, NEW w \in FieldWindows, NEW f \in EdFields, NEW from \in RecordWindows,
           OpenField(w, f, from)
    PROVE  EdIInv'
<1> DEFINE v == window[from].base
           s == Showing("field", v)
           dirty == {f}
           x == [s EXCEPT !.dirty = dirty]
<1>1. SetWindow(w, x) /\ UNCHANGED <<notices, rowOnly>>
  BY DEF OpenField
<1>2. w \in Windows /\ from \in Windows /\ w \notin RecordWindows
  BY EditorWindowsAssumption DEF Windows
<1>3. v \in EdVersions /\ v <= edVersion
  BY <1>2, EdTypes DEF Window, EditOK
<1>4. s \in Window /\ s.base = v /\ s.seen = All(v) /\ s.sent = 0
  BY <1>3, ShowingIs
<1>5. dirty \subseteq EdFields /\ dirty # {}
  OBVIOUS
<1> HIDE DEF s, v, dirty
<1>6. x \in Window /\ x.base = v /\ x.seen = All(v) /\ x.sent = 0
  BY <1>4, <1>5 DEF Window
<1> HIDE DEF x
<1>7. EditOK(x, edVersion, changedAt)
  BY <1>3, <1>6, CleanOK
<1> QED
  BY <1>1, <1>2, <1>6, <1>7, EditMoves

\* A field is typed over.
LEMMA FieldEditedHolds ==
    ASSUME EdIInv, NEW w \in RecordWindows, NEW f \in EdFields, field_edited(w, f)
    PROVE  EdIInv'
<1> DEFINE y == window[w]
           dirty == y.dirty \cup {f}
           x == [y EXCEPT !.dirty = dirty]
<1>1. SetWindow(w, x) /\ UNCHANGED <<notices, rowOnly>> /\ y.sent = 0
  BY DEF field_edited, Saving
<1>2. w \in Windows /\ y \in Window /\ EditOK(y, edVersion, changedAt)
  BY EdTypes DEF Windows
<1>3. dirty \subseteq EdFields /\ dirty # {}
  BY <1>2 DEF Window
<1> HIDE DEF y, dirty
<1>4. /\ x \in Window /\ x.base = y.base /\ x.seen = y.seen /\ x.dirty = dirty
      /\ x.sent = y.sent /\ x.payload = y.payload /\ x.drifted = y.drifted
  BY <1>2, <1>3 DEF Window
<1> HIDE DEF x
<1>5. EditOK(x, edVersion, changedAt)
  BY <1>1, <1>2, <1>3, <1>4 DEF EditOK
<1>6. HeardOK(x, notices[w], ownSave)
  BY <1>3, <1>4 DEF HeardOK
<1> QED
  BY <1>1, <1>2, <1>4, <1>5, <1>6, EditMoves

\* A save goes out.
LEMMA RequestSaveHolds ==
    ASSUME EdIInv, NEW w \in Windows, request_save(w)
    PROVE  EdIInv'
<1> DEFINE y == window[w]
           x == [y EXCEPT !.sent = y.base, !.attempt = 0, !.payload = y.dirty]
<1>1. SetWindow(w, x) /\ UNCHANGED <<notices, rowOnly>> /\ y.sent = 0 /\ y.dirty # {}
  BY DEF request_save, Saving
<1>2. y \in Window /\ EditOK(y, edVersion, changedAt)
  BY EdTypes
<1>3. y.base \in 0 .. MaxEdVersion /\ 0 \in 0 .. AUTO_RETRY_LIMIT /\ y.base # 0
  BY <1>2, EdTypes DEF Window, EdVersions
<1> HIDE DEF y
<1>4. /\ x \in Window /\ x.base = y.base /\ x.seen = y.seen /\ x.dirty = y.dirty
      /\ x.sent = y.base /\ x.drifted = y.drifted
  BY <1>2, <1>3 DEF Window
<1> HIDE DEF x
<1>5. EditOK(x, edVersion, changedAt)
  BY <1>1, <1>2, <1>3, <1>4 DEF EditOK
<1>6. \A heard : HeardOK(x, heard, ownSave)
  BY <1>1, <1>4 DEF HeardOK
<1> QED
  BY <1>1, <1>4, <1>5, <1>6, EditMoves

\* What is left of a window whose values are the row's.
LEMMA SettledIs ==
    ASSUME EdIInv, NEW w \in Windows, NEW v \in EdVersions
    PROVE  /\ Settled(w, v) \in Window
           /\ Settled(w, v).kind = "gone" \/ Settled(w, v).base = v
           /\ Settled(w, v).base \in EdVersions /\ Settled(w, v).base <= v
           /\ Settled(w, v).seen = All(Settled(w, v).base) /\ Settled(w, v).sent = 0
<1>1. CASE window[w].kind = "field"
  BY <1>1, GoneIs, EditorWindowsAssumption DEF Settled, EdVersions
<1>2. CASE window[w].kind # "field"
  <2> DEFINE s == Showing("full", v)
             reload == window[w].reload
             x == [s EXCEPT !.reload = reload]
  <2>1. Settled(w, v) = x
    BY <1>2 DEF Settled
  <2>2. s \in Window /\ s.base = v /\ s.seen = All(v) /\ s.sent = 0 /\ reload \in BOOLEAN
    BY ShowingIs, EdTypes DEF Window
  <2> HIDE DEF s, reload
  <2>3. x \in Window /\ x.base = v /\ x.seen = All(v) /\ x.sent = 0
    BY <2>2 DEF Window
  <2> HIDE DEF x
  <2> QED
    BY <2>1, <2>3 DEF EdVersions
<1> QED
  BY <1>1, <1>2

\* A notice reaches a window: a clean one reloads if it is behind.
LEMMA NoticeArrivesHolds ==
    ASSUME EdIInv, NEW w \in RecordWindows, NoticeArrives(w)
    PROVE  EdIInv'
<1>1. PICK notice \in notices[w] :
         /\ notices' = [notices EXCEPT ![w] = @ \ {notice}]
         /\ SetWindow(w, [window[w] EXCEPT !.reload = @ \/ notice_action(w, notice) = "refresh"])
         /\ UNCHANGED rowOnly
  BY DEF NoticeArrives
<1> DEFINE y == window[w]
           reload == y.reload \/ notice_action(w, notice) = "refresh"
           x == [y EXCEPT !.reload = reload]
<1>2. /\ w \in Windows /\ y \in Window /\ EditOK(y, edVersion, changedAt)
      /\ HeardOK(y, notices[w], ownSave) /\ notices[w] \subseteq EdVersions
  BY EdTypes DEF Windows, EdIInv
<1>3. /\ notices' \in [RecordWindows -> SUBSET EdVersions] /\ notices'[w] = notices[w] \ {notice}
      /\ \A u \in RecordWindows : u # w => notices'[u] = notices[u]
  BY <1>1, <1>2, EdTypes
<1>4. reload \in BOOLEAN /\ (y.reload => reload)
      /\ (y.dirty = {} /\ y.base < notice => reload)
  BY <1>2 DEF Window, notice_action, surface_needs_refresh
<1>5. SetWindow(w, x)
  BY <1>1
<1> HIDE DEF reload, y
<1>6. /\ x \in Window /\ x.kind = y.kind /\ x.base = y.base /\ x.seen = y.seen
      /\ x.dirty = y.dirty /\ x.sent = y.sent /\ x.payload = y.payload
      /\ x.drifted = y.drifted /\ x.reload = reload
  BY <1>2, <1>4 DEF Window
<1> HIDE DEF x
<1>7. EditOK(x, edVersion, changedAt)
  BY <1>2, <1>6 DEF EditOK
<1>8. HeardOK(x, notices'[w], ownSave)
  <2>1. y.base \in Nat /\ notice \in Nat
    BY <1>2, EdTypes DEF Window
  <2> QED
    BY <1>2, <1>3, <1>4, <1>6, <2>1 DEF HeardOK
<1> QED
  BY <1>1, <1>2, <1>3, <1>5, <1>6, <1>7, <1>8, WindowMoves

\* A reload answers.
LEMMA ReloadedHolds ==
    ASSUME EdIInv, NEW w \in RecordWindows, Reloaded(w)
    PROVE  EdIInv'
<1>1. w \in Windows /\ window[w] \in Window
  BY EdTypes DEF Windows
<1>2. CASE window[w].dirty = {}
  <2> DEFINE kind == window[w].kind
  <2>1. SetWindow(w, Showing(kind, edVersion)) /\ UNCHANGED <<notices, rowOnly>>
    BY <1>2 DEF Reloaded
  <2>2. kind \in {"gone", "view", "full", "field"}
    BY <1>1 DEF Window
  <2> QED
    BY <2>1, <2>2, OpensHolds
<1>3. CASE window[w].dirty # {}
  <2> DEFINE x == [window[w] EXCEPT !.reload = FALSE, !.base = edVersion,
                                    !.drifted = @ \cup Unshown(w)]
  <2>1. SetWindow(w, x) /\ UNCHANGED <<notices, rowOnly>>
    BY <1>3 DEF Reloaded
  <2>2. x \in Window /\ x.dirty # {} /\ EditOK(x, edVersion, changedAt)
    BY <1>1, <1>3, RebaseOK
  <2> HIDE DEF x
  <2>3. HeardOK(x, notices[w], ownSave)
    BY <2>2 DEF HeardOK
  <2> QED
    BY <1>1, <2>1, <2>2, <2>3, EditMoves
<1> QED
  BY <1>2, <1>3

\* The row has what the save carries.
LEMMA AlreadyCurrentHolds ==
    ASSUME EdIInv, NEW w \in Windows, AlreadyCurrent(w), UNCHANGED <<notices, rowOnly>>
    PROVE  EdIInv'
<1> DEFINE s == Settled(w, edVersion)
<1>1. edVersion \in EdVersions /\ SetWindow(w, s)
  BY EdTypes DEF AlreadyCurrent
<1>2. /\ s \in Window /\ (s.kind = "gone" \/ s.base = edVersion) /\ s.base \in EdVersions
      /\ s.base <= edVersion /\ s.seen = All(s.base) /\ s.sent = 0
  BY <1>1, SettledIs
<1> HIDE DEF s
<1>3. EditOK(s, edVersion, changedAt)
  BY <1>2, CleanOK
<1>4. \A heard : HeardOK(s, heard, ownSave)
  BY <1>2, EdTypes DEF HeardOK
<1> QED
  BY <1>1, <1>2, <1>3, <1>4, EditMoves

\* The save goes out again: none of the fields it carries changed behind the
\* user's back.
LEMMA RetrySaveHolds ==
    ASSUME EdIInv, NEW w \in Windows, NEW still \in SUBSET window[w].payload,
           Saving(w), RetrySave(w, still), UNCHANGED <<notices, rowOnly>>
    PROVE  EdIInv'
<1> DEFINE y == window[w]
           attempt == y.attempt + 1
           seen == [f \in EdFields |-> IF f \in y.payload \ still THEN edVersion ELSE y.seen[f]]
           x == [y EXCEPT !.base = edVersion, !.sent = edVersion, !.attempt = attempt,
                          !.payload = still, !.seen = seen]
<1>1. /\ SetWindow(w, x) /\ ~(attempt > AUTO_RETRY_LIMIT) /\ y.sent # 0
      /\ \A f \in still : ~(changedAt[f] > y.base)
  BY EdTypes DEF RetrySave, Saving, Conflicted, Window
<1>2. /\ y \in Window /\ EditOK(y, edVersion, changedAt) /\ edVersion \in EdVersions
      /\ edVersion \in 0 .. MaxEdVersion /\ edVersion # 0
      /\ y.payload \subseteq EdFields /\ still \subseteq y.payload /\ y.dirty # {}
      /\ y.seen \in [EdFields -> EdVersions]
  BY <1>1, EdTypes DEF EdVersions, EditOK, Window
<1>3. attempt \in 0 .. AUTO_RETRY_LIMIT /\ still \in SUBSET EdFields
  BY <1>1, <1>2, EdTypes DEF Window
<1>4. /\ seen \in [EdFields -> EdVersions]
      /\ \A f \in EdFields : seen[f] = IF f \in y.payload \ still THEN edVersion ELSE y.seen[f]
  BY <1>2
<1>5. w \in RecordWindows => HeardOK(x, notices[w], ownSave)
  BY <1>2 DEF HeardOK, Window
<1> HIDE DEF y, attempt, seen
<1>6. /\ x \in Window /\ x.base = edVersion /\ x.seen = seen /\ x.dirty = y.dirty
      /\ x.sent = edVersion /\ x.payload = still /\ x.drifted = y.drifted
  BY <1>2, <1>3, <1>4 DEF Window
<1> HIDE DEF x
<1>7. \A f \in EdFields : seen[f] <= edVersion
  BY <1>2, <1>4, EdTypes DEF EditOK
<1>8. ASSUME NEW f \in EdFields \ y.drifted, f \in still PROVE ~(changedAt[f] > seen[f])
  BY <1>1, <1>2, <1>4, <1>8 DEF EditOK
<1>9. EditOK(x, edVersion, changedAt)
  BY <1>2, <1>6, <1>7, <1>8, EdTypes DEF EditOK
<1> QED
  BY <1>1, <1>5, <1>6, <1>9, EditMoves

\* The walk-through: what it does not show drifts.
LEMMA ManualMergeHolds ==
    ASSUME EdIInv, NEW w \in Windows, NEW still \in SUBSET window[w].payload,
           Saving(w), ManualMerge(w, still), UNCHANGED <<notices, rowOnly>>
    PROVE  EdIInv'
<1> DEFINE y == window[w]
           shown == Conflicted(w, still) \cup (y.payload \ still)
           seen == [f \in EdFields |-> IF f \in shown THEN edVersion ELSE y.seen[f]]
           drifted == (y.drifted \cup Unshown(w)) \ shown
           x == [y EXCEPT !.base = edVersion, !.sent = 0, !.attempt = 0, !.payload = {},
                          !.seen = seen, !.drifted = drifted]
<1>1. /\ y \in Window /\ EditOK(y, edVersion, changedAt) /\ edVersion \in EdVersions
      /\ y.payload \subseteq EdFields /\ y.sent # 0 /\ y.dirty # {}
      /\ y.seen \in [EdFields -> EdVersions] /\ y.drifted \subseteq EdFields
  BY EdTypes DEF EditOK, Window, Saving
<1>2. SetWindow(w, x)
  BY <1>1 DEF ManualMerge, Window
<1>3. /\ seen \in [EdFields -> EdVersions]
      /\ \A f \in EdFields : seen[f] = IF f \in shown THEN edVersion ELSE y.seen[f]
  BY <1>1
<1>4. drifted \in SUBSET EdFields
  BY <1>1 DEF Unshown
<1>5. 0 \in 0 .. MaxEdVersion /\ 0 \in 0 .. AUTO_RETRY_LIMIT
  BY EdTypes
<1>6. \A f \in EdFields \ drifted : ~(changedAt[f] > seen[f])
  <2> SUFFICES ASSUME NEW f \in EdFields, f \notin drifted PROVE ~(changedAt[f] > seen[f])
    OBVIOUS
  <2>1. CASE f \in shown
    <3>1. changedAt[f] <= edVersion /\ changedAt[f] \in Nat
      BY EdTypes DEF EdIInv
    <3> QED
      BY <1>1, <1>3, <2>1, <3>1, EdTypes
  <2>2. CASE f \notin shown
    <3>1. f \notin Unshown(w) /\ seen[f] = y.seen[f]
      BY <1>3, <2>2
    <3> QED
      BY <3>1 DEF Unshown
  <2> QED
    BY <2>1, <2>2
<1> HIDE DEF y, seen, drifted, shown
<1>7. /\ x \in Window /\ x.base = edVersion /\ x.seen = seen /\ x.dirty = y.dirty
      /\ x.sent = 0 /\ x.drifted = drifted
  BY <1>1, <1>3, <1>4, <1>5 DEF Window
<1> HIDE DEF x
<1>8. \A f \in EdFields : seen[f] <= edVersion
  BY <1>1, <1>3, EdTypes DEF EditOK
<1>9. EditOK(x, edVersion, changedAt)
  BY <1>1, <1>6, <1>7, <1>8, EdTypes DEF EditOK
<1>10. \A heard : HeardOK(x, heard, ownSave)
  BY <1>1, <1>7 DEF HeardOK
<1> QED
  BY <1>2, <1>7, <1>9, <1>10, EditMoves

\* A save meets a newer row.
LEMMA SaveConflictsHolds ==
    ASSUME EdIInv, NEW w \in Windows, SaveConflicts(w)
    PROVE  EdIInv'
<1>1. PICK agreed \in SUBSET (window[w].payload \cap Unshown(w)) :
         LET still == window[w].payload \ agreed IN
         IF still = {} THEN AlreadyCurrent(w) ELSE RetrySave(w, still) \/ ManualMerge(w, still)
  BY DEF SaveConflicts
<1> DEFINE still == window[w].payload \ agreed
<1>2. /\ UNCHANGED <<notices, rowOnly>> /\ Saving(w) /\ still \in SUBSET window[w].payload
      /\ AlreadyCurrent(w) \/ RetrySave(w, still) \/ ManualMerge(w, still)
  BY <1>1 DEF SaveConflicts
<1> HIDE DEF still
<1> QED
  BY <1>2, AlreadyCurrentHolds, RetrySaveHolds, ManualMergeHolds

\* A window closes.
LEMMA CloseHolds ==
    ASSUME EdIInv, NEW w \in Windows, CloseWindow(w)
    PROVE  EdIInv'
<1>1. /\ SetWindow(w, Gone) /\ UNCHANGED rowOnly
      /\ notices' = IF w \in RecordWindows THEN [notices EXCEPT ![w] = {}] ELSE notices
  BY DEF CloseWindow
<1>2. /\ notices' \in [RecordWindows -> SUBSET EdVersions]
      /\ \A u \in RecordWindows : u # w => notices'[u] = notices[u]
  BY <1>1, EdTypes
<1>3. 1 \in EdVersions /\ 1 <= edVersion
  BY EdTypes DEF EdVersions
<1>4. EditOK(Gone, edVersion, changedAt) /\ HeardOK(Gone, notices'[w], ownSave)
  BY <1>3, ShownOK
<1> QED
  BY <1>1, <1>2, <1>4, GoneIs, WindowMoves

\* The row moves on: a window's edits stay in order on the version they had.
LEMMA RowMoves ==
    ASSUME EdIInv, NEW x \in Window, EditOK(x, edVersion, changedAt),
           NEW fields \in SUBSET EdFields, NEW changed \in [EdFields -> Nat],
           \A f \in EdFields : changed[f] = IF f \in fields THEN edVersion + 1 ELSE changedAt[f]
    PROVE  EditOK(x, edVersion + 1, changed)
<1>1. /\ x.base \in Nat /\ edVersion \in Nat
      /\ \A f \in EdFields : changedAt[f] \in Nat /\ x.seen[f] \in Nat
  BY EdTypes DEF Window
<1> QED
  BY <1>1 DEF EditOK

\* A save lands: no field it changes did so behind its user's back, and every
\* other window of the record will hear of it.
LEMMA SaveLandsHolds ==
    ASSUME EdIInv, NEW w \in Windows, SaveLands(w)
    PROVE  EdIInv'
<1> DEFINE y == window[w]
           new == edVersion + 1
           s == Settled(w, new)
<1>1. /\ y.sent = edVersion /\ edVersion < MaxEdVersion
      /\ edVersion' = new /\ ownSave' = new
      /\ changedAt' = [f \in EdFields |-> IF f \in y.payload THEN new ELSE changedAt[f]]
      /\ overwrote' = (overwrote \/ (y.payload \cap Unshown(w)) \ y.drifted # {})
      /\ notices' = [u \in RecordWindows |->
                        IF u = w \/ window[u].kind = "gone" THEN notices[u] ELSE notices[u] \cup {new}]
      /\ window' = [window EXCEPT ![w] = s]
  BY DEF SaveLands, SetWindow
<1>2. /\ y \in Window /\ EditOK(y, edVersion, changedAt) /\ edVersion \in Nat \ {0}
      /\ y.payload \subseteq EdFields /\ y.base \in Nat /\ y.sent # 0
      /\ new \in EdVersions /\ \A f \in EdFields : changedAt[f] \in EdVersions /\ changedAt[f] <= edVersion
  BY <1>1, EdTypes DEF EdVersions, Window, EdIInv
<1>3. ~overwrote'
  <2>1. ~overwrote
    BY DEF EdIInv
  <2>2. ASSUME NEW f \in y.payload \ y.drifted PROVE f \notin Unshown(w)
    <3>1. y.base = edVersion
      BY <1>1, <1>2 DEF EditOK
    <3>2. changedAt[f] <= edVersion /\ changedAt[f] \in Nat
      BY <1>2, EdTypes
    <3>3. changedAt[f] > y.seen[f] => changedAt[f] > y.base
      BY <1>2 DEF EditOK
    <3> QED
      BY <1>2, <3>1, <3>2, <3>3 DEF Unshown
  <2> QED
    BY <1>1, <2>1, <2>2
<1>4. /\ s \in Window /\ (s.kind = "gone" \/ s.base = new) /\ s.base \in EdVersions
      /\ s.base <= new /\ s.seen = All(s.base) /\ s.sent = 0
  BY <1>2, SettledIs
<1> HIDE DEF s
<1>5. /\ window' \in [Windows -> Window] /\ window'[w] = s
      /\ \A u \in Windows : u # w => window'[u] = window[u]
  BY <1>1, <1>4, EdTypes
<1>6. /\ changedAt' \in [EdFields -> EdVersions]
      /\ \A f \in EdFields : changedAt'[f] = IF f \in y.payload THEN new ELSE changedAt[f]
  BY <1>1, <1>2
<1>7. /\ notices' \in [RecordWindows -> SUBSET EdVersions]
      /\ \A u \in RecordWindows : u = w \/ window[u].kind = "gone" \/ new \in notices'[u]
  BY <1>1, <1>2, EdTypes
<1>8. EdTypeOK'
  <2>1. overwrote' \in BOOLEAN
    BY <1>1
  <2>2. edVersion' \in EdVersions /\ ownSave' \in 0 .. edVersion'
    BY <1>1, <1>2
  <2> QED
    BY <1>5, <1>6, <1>7, <2>1, <2>2 DEF EdTypeOK
<1>9. \A f \in EdFields : changedAt'[f] <= new
  BY <1>2, <1>6, EdTypes
<1>10. ASSUME NEW u \in Windows PROVE EditOK(window'[u], new, changedAt')
  <2>1. CASE u = w
    <3>1. \A f \in EdFields : s.seen[f] = s.base
      BY <1>4 DEF All
    <3> QED
      BY <1>4, <1>5, <2>1, <3>1 DEF EditOK
  <2>2. CASE u # w
    <3>1. changedAt' \in [EdFields -> Nat]
      BY <1>6, EdTypes
    <3>2. window[u] \in Window /\ EditOK(window[u], edVersion, changedAt)
      BY EdTypes
    <3>3. EditOK(window[u], edVersion + 1, changedAt')
      BY <1>2, <1>6, <3>1, <3>2, RowMoves
    <3> QED
      BY <1>5, <2>2, <3>3
  <2> QED
    BY <2>1, <2>2
<1>11. ASSUME NEW u \in RecordWindows PROVE HeardOK(window'[u], notices'[u], new)
  <2>1. u \in Windows
    BY DEF Windows
  <2>2. CASE u = w
    BY <1>2, <1>4, <1>5, <2>2 DEF HeardOK
  <2>3. CASE u # w
    BY <1>5, <1>7, <2>1, <2>3 DEF HeardOK
  <2> QED
    BY <2>2, <2>3
<1> QED
  BY <1>1, <1>3, <1>8, <1>9, <1>10, <1>11 DEF EdIInv

\* Another user saves a field.
LEMMA OtherSaveHolds ==
    ASSUME EdIInv, NEW f \in EdFields, OtherSave(f)
    PROVE  EdIInv'
<1> DEFINE new == edVersion + 1
<1>1. /\ edVersion < MaxEdVersion /\ edVersion' = new
      /\ changedAt' = [changedAt EXCEPT ![f] = new]
      /\ UNCHANGED <<window, notices, ownSave, overwrote>>
  BY DEF OtherSave
<1>2. /\ edVersion \in Nat \ {0} /\ new \in EdVersions
      /\ \A g \in EdFields : changedAt[g] \in EdVersions /\ changedAt[g] <= edVersion
  BY <1>1, EdTypes DEF EdVersions, EdIInv
<1>3. /\ changedAt' \in [EdFields -> EdVersions] /\ changedAt' \in [EdFields -> Nat]
      /\ \A g \in EdFields : changedAt'[g] = IF g \in {f} THEN new ELSE changedAt[g]
  BY <1>1, <1>2, EdTypes
<1>4. EdTypeOK'
  BY <1>1, <1>2, <1>3, EdTypes DEF EdIInv, EdTypeOK
<1>5. \A g \in EdFields : changedAt'[g] <= new
  BY <1>2, <1>3
<1>6. ASSUME NEW u \in Windows PROVE EditOK(window[u], new, changedAt')
  <2>1. window[u] \in Window /\ EditOK(window[u], edVersion, changedAt)
    BY EdTypes
  <2> QED
    BY <1>3, <2>1, RowMoves
<1> QED
  BY <1>1, <1>4, <1>5, <1>6 DEF EdIInv

\* The invariant survives every step ...
LEMMA EdInvStep == EdIInv /\ [EdNext]_edVars => EdIInv'
<1> SUFFICES ASSUME EdIInv, [EdNext]_edVars PROVE EdIInv'
  OBVIOUS
<1>1. ASSUME NEW w \in RecordWindows, OpenView(w) PROVE EdIInv'
  BY <1>1, OpensHolds DEF OpenView
<1>2. ASSUME NEW w \in RecordWindows, begin_edit(w) PROVE EdIInv'
  BY <1>2, BeginEditHolds
<1>3. ASSUME NEW w \in RecordWindows, NoticeArrives(w) PROVE EdIInv'
  BY <1>3, NoticeArrivesHolds
<1>4. ASSUME NEW w \in RecordWindows, Reloaded(w) PROVE EdIInv'
  BY <1>4, ReloadedHolds
<1>5. ASSUME NEW w \in RecordWindows, NEW f \in EdFields, field_edited(w, f) PROVE EdIInv'
  BY <1>5, FieldEditedHolds
<1>6. ASSUME NEW w \in FieldWindows, NEW f \in EdFields, NEW u \in RecordWindows,
             OpenField(w, f, u)
      PROVE  EdIInv'
  BY <1>6, OpenFieldHolds
<1>7. ASSUME NEW w \in Windows, request_save(w) PROVE EdIInv'
  BY <1>7, RequestSaveHolds
<1>8. ASSUME NEW w \in Windows, SaveLands(w) PROVE EdIInv'
  BY <1>8, SaveLandsHolds
<1>9. ASSUME NEW w \in Windows, SaveConflicts(w) PROVE EdIInv'
  BY <1>9, SaveConflictsHolds
<1>10. ASSUME NEW w \in Windows, CloseWindow(w) PROVE EdIInv'
  BY <1>10, CloseHolds
<1>11. ASSUME NEW f \in EdFields, OtherSave(f) PROVE EdIInv'
  BY <1>11, OtherSaveHolds
<1>12. CASE UNCHANGED edVars
  BY <1>12 DEF edVars, EdIInv, EdTypeOK
<1> QED
  BY <1>1, <1>2, <1>3, <1>4, <1>5, <1>6, <1>7, <1>8, <1>9, <1>10, <1>11, <1>12 DEF EdNext

\* ... and holds at the start.
LEMMA EdInvInit == EdInit => EdIInv
<1> SUFFICES ASSUME EdInit PROVE EdIInv
  OBVIOUS
<1>1. /\ edVersion = 1 /\ ownSave = 0 /\ overwrote = FALSE
      /\ changedAt = [f \in EdFields |-> 1] /\ window = [w \in Windows |-> Gone]
      /\ notices = [w \in RecordWindows |-> {}]
  BY DEF EdInit
<1>2. 1 \in EdVersions
  BY EditorWindowsAssumption DEF EdVersions
<1>3. EdTypeOK
  <2>1. overwrote \in BOOLEAN
    BY <1>1
  <2>2. edVersion \in EdVersions /\ ownSave \in 0 .. edVersion
    BY <1>1, <1>2
  <2>3. changedAt \in [EdFields -> EdVersions] /\ notices \in [RecordWindows -> SUBSET EdVersions]
    BY <1>1, <1>2
  <2>4. window \in [Windows -> Window]
    BY <1>1, GoneIs
  <2> QED
    BY <2>1, <2>2, <2>3, <2>4 DEF EdTypeOK
<1>4. EditOK(Gone, 1, changedAt) /\ HeardOK(Gone, {}, 0)
  <2>1. \A f \in EdFields : Gone.seen[f] = 1
    BY GoneIs DEF All
  <2> QED
    BY <2>1, GoneIs DEF EditOK, HeardOK
<1>5. RecordWindows \subseteq Windows
  BY DEF Windows
<1> QED
  BY <1>1, <1>3, <1>4, <1>5 DEF EdIInv

-----------------------------------------------------------------------------
(* The steps of the views. *)

USE GridViewsAssumption

\* What Row and Over contain.
LEMMA RowIs ==
    ASSUME NEW v, NEW row
    PROVE  DOMAIN Row(v, row) = {v} /\ Row(v, row)[v] = row
  BY DEF Row

\* A call flushes one row.
LEMMA RowFits ==
    ASSUME NEW v \in ViewIDs, NEW row \in GridView
    PROVE  Row(v, row) \in ViewRows
<1>1. Row(v, row) \in [{v} -> GridView] /\ {v} \in SUBSET ViewIDs
  BY DEF Row
<1> QED
  BY <1>1 DEF ViewRows

\* A view that is saved as new.
Saved(name, o, fields) == NewView(name, o, fields, FALSE)

\* It is a view, of its owner.
LEMMA SavedFits ==
    ASSUME NEW name \in ViewNames, NEW o \in ViewUsers \cup {Nobody}, NEW fields \in SUBSET VFields
    PROVE  /\ Saved(name, o, fields) \in GridView /\ Saved(name, o, fields).live
           /\ Saved(name, o, fields).owner = o /\ Saved(name, o, fields).fields = fields
           /\ ~Saved(name, o, fields).temp /\ Saved(name, o, fields).version = 1
  BY DEF Saved, NewView, GridView

\* A row that is read can be written again, and removed.
LEMMA NextFits ==
    ASSUME NEW row \in GridView
    PROVE  LET next == Next_(row) IN
           /\ next \in GridView /\ next.version = row.version + 1 /\ next.temp = row.temp
           /\ next.owner = row.owner /\ next.live = row.live /\ next.fields = row.fields
<1> DEFINE n == row.version + 1
<1>1. n \in Nat
  BY DEF GridView
<1>2. Next_(row) = [row EXCEPT !.version = n]
  BY DEF Next_
<1> HIDE DEF n
<1>3. LET next == [row EXCEPT !.version = n] IN
      /\ next \in GridView /\ next.version = n /\ next.temp = row.temp
      /\ next.owner = row.owner /\ next.live = row.live /\ next.fields = row.fields
  BY <1>1 DEF GridView
<1> QED
  BY <1>2, <1>3 DEF n

\* It is renamed by a save in place.
LEMMA RenamedFits ==
    ASSUME NEW row \in GridView, NEW name \in ViewNames
    PROVE  LET next == [Next_(row) EXCEPT !.name = name] IN
           /\ next \in GridView /\ next.version = row.version + 1 /\ next.temp = row.temp
           /\ next.owner = row.owner /\ next.live = row.live
<1>1. PICK n \in GridView :
         /\ n = Next_(row) /\ n.version = row.version + 1 /\ n.temp = row.temp
         /\ n.owner = row.owner /\ n.live = row.live
  BY NextFits
<1>2. LET next == [n EXCEPT !.name = name] IN
      /\ next \in GridView /\ next.version = n.version /\ next.temp = n.temp
      /\ next.owner = n.owner /\ next.live = n.live
  BY DEF GridView
<1> QED
  BY <1>1, <1>2

\* A working copy is seeded anew.
LEMMA SeededFits ==
    ASSUME NEW row \in GridView, NEW name \in ViewNames, NEW fields \in SUBSET VFields
    PROVE  LET next == [Next_(row) EXCEPT !.name = name, !.fields = fields] IN
           /\ next \in GridView /\ next.version = row.version + 1 /\ next.temp = row.temp
           /\ next.owner = row.owner /\ next.live = row.live
<1>1. PICK n \in GridView :
         /\ n = Next_(row) /\ n.version = row.version + 1 /\ n.temp = row.temp
         /\ n.owner = row.owner /\ n.live = row.live
  BY NextFits
<1>2. LET next == [n EXCEPT !.name = name, !.fields = fields] IN
      /\ next \in GridView /\ next.version = n.version /\ next.temp = n.temp
      /\ next.owner = n.owner /\ next.live = n.live
  BY DEF GridView
<1> QED
  BY <1>1, <1>2

\* A view is removed.
LEMMA RemovedFits ==
    ASSUME NEW row \in GridView
    PROVE  LET next == [Next_(row) EXCEPT !.live = FALSE] IN
           /\ next \in GridView /\ next.version = row.version + 1 /\ next.temp = row.temp
           /\ next.owner = row.owner /\ next.live = FALSE
<1>1. PICK n \in GridView :
         /\ n = Next_(row) /\ n.version = row.version + 1 /\ n.temp = row.temp
         /\ n.owner = row.owner /\ n.live = row.live
  BY NextFits
<1>2. LET next == [n EXCEPT !.live = FALSE] IN
      /\ next \in GridView /\ next.version = n.version /\ next.temp = n.temp
      /\ next.owner = n.owner /\ next.live = FALSE
  BY DEF GridView
<1> QED
  BY <1>1, <1>2

\* An inserted row.
LEMMA NewRowOK ==
    ASSUME NEW row \in GridView, NEW g \in GridView, NEW w, row.version = 1,
           row.temp => row.owner = w.user /\ w.pc = "apply"
    PROVE  ViewRowOK(row, w, g)
  BY DEF ViewRowOK, GridView

\* An updated row.
LEMMA UpdatedRowOK ==
    ASSUME NEW row \in GridView, NEW g \in GridView, NEW w, row.version = g.version + 1,
           g.live, row.temp = g.temp, row.owner = g.owner, row.owner = w.user,
           row.temp => /\ row.owner = w.user /\ (row.live => w.pc = "apply")
                       /\ w.pc # "apply" => SavesCopy(w, g.fields)
    PROVE  ViewRowOK(row, w, g)
  BY DEF ViewRowOK, GridView

\* When its view is written, the row that w has flushed cannot land any more.
LEMMA OutrunRowOK ==
    ASSUME NEW row \in GridView, NEW g \in GridView, NEW h \in GridView, NEW w,
           ViewRowOK(row, w, g), h.version = g.version + 1
    PROVE  ViewRowOK(row, w, h)
  BY DEF ViewRowOK, GridView

\* The types of what the calls handle.
LEMMA VwTypes ==
    ASSUME VwIInv
    PROVE  /\ VwTyped
           /\ \A v \in ViewIDs : gviews[v] \in GridView
           /\ \A q \in Slots : viewReq[q] = Idle \/ viewReq[q] \in ViewRequest
  BY DEF VwIInv, VwTyped

\* The rows of a call are rows of views.
LEMMA RowsFit ==
    ASSUME NEW w \in ViewRequest, NEW v \in DOMAIN w.rows
    PROVE  v \in ViewIDs /\ w.rows[v] \in GridView /\ w.user \in ViewUsers /\ w.pc \in ViewCalls
<1>1. w.rows \in ViewRows /\ w.user \in ViewUsers /\ w.pc \in ViewCalls
  BY DEF ViewRequest
<1>2. PICK views \in SUBSET ViewIDs : w.rows \in [views -> GridView]
  BY <1>1 DEF ViewRows
<1> QED
  BY <1>1, <1>2

\* A call that is not an application begins.
LEMMA FlushHolds ==
    ASSUME VwIInv, NEW q \in Slots, NEW u \in ViewUsers, NEW call \in ViewCalls \ {"apply"},
           NEW rows \in ViewRows, Flush(q, u, call, rows), UNCHANGED overlapped,
           \A v \in DOMAIN rows :
              ViewRowOK(rows[v], [pc |-> call, user |-> u, rows |-> rows], gviews[v])
    PROVE  VwIInv'
<1>1. PICK w \in ViewRequest : w = [pc |-> call, user |-> u, rows |-> rows]
  BY DEF ViewRequest
<1>2. /\ viewReq' = [viewReq EXCEPT ![q] = w]
      /\ UNCHANGED <<gviews, lastView, working, overlapped>>
  BY <1>1 DEF Flush
<1>3. /\ viewReq'[q] = w /\ \A p \in Slots : p # q => viewReq'[p] = viewReq[p]
      /\ viewReq' \in [Slots -> {Idle} \cup ViewRequest]
  BY <1>2, VwTypes DEF VwTyped
<1>4. VwTyped'
  BY <1>2, <1>3, VwTypes DEF VwTyped
<1>5. ViewRequestOK(w, gviews)
  BY <1>1 DEF ViewRequestOK
<1>6. \A x : ~Applies(w, x)
  BY <1>1 DEF Applies
<1>7. ASSUME NEW x \in ViewUsers, OneCopy(gviews, viewReq, x) PROVE OneCopy(gviews, viewReq', x)
  BY <1>3, <1>6, <1>7 DEF OneCopy, AppliesFirst
<1> QED
  BY <1>2, <1>3, <1>4, <1>5, <1>7 DEF VwIInv

\* An application begins.
LEMMA ApplyHolds ==
    ASSUME VwIInv, NEW q \in Slots, NEW u \in ViewUsers, NEW v \in ViewIDs, NEW w \in ViewIDs,
           gviews[w].version = 0, NEW fields \in SUBSET VFields,
           apply_temporary_view(q, u, v, w, fields)
    PROVE  VwIInv'
<1>0. PICK name \in ViewNames : name = gviews[v].name
  BY VwTypes DEF GridView
<1>1. PICK c \in ViewIDs, row \in GridView :
         /\ Flush(q, u, "apply", Row(c, row))
         /\ row.live /\ row.temp /\ row.owner = u
         /\ \/ /\ WorkIn(gviews, u) = {} /\ row.version = 1
               /\ overlapped' = IF \E p \in Slots : viewReq[p].pc = "apply" /\ viewReq[p].user = u
                                THEN overlapped \cup {u} ELSE overlapped
            \/ /\ c \in WorkIn(gviews, u) /\ UNCHANGED overlapped
               /\ row.version = gviews[c].version + 1
  <2>1. WorkingCopies(u) = WorkIn(gviews, u)
    BY DEF WorkingCopies, WorkIn, LiveViews
  <2>2. CASE /\ WorkingCopies(u) = {}
             /\ Flush(q, u, "apply", Row(w, NewView(name, u, fields, TRUE)))
             /\ overlapped' = IF \E p \in Slots : viewReq[p].pc = "apply" /\ viewReq[p].user = u
                              THEN overlapped \cup {u} ELSE overlapped
    <3> DEFINE row == NewView(name, u, fields, TRUE)
    <3>1. row \in GridView /\ row.live /\ row.owner = u /\ row.temp /\ row.version = 1
      BY DEF NewView, GridView
    <3> HIDE DEF row
    <3> QED
      BY <2>1, <2>2, <3>1 DEF row
  <2>3. ASSUME NEW c \in WorkingCopies(u),
               Flush(q, u, "apply", Row(c, [Next_(gviews[c]) EXCEPT
                        !.name = name, !.fields = fields])),
               UNCHANGED overlapped
        PROVE  \E row \in GridView :
                  /\ Flush(q, u, "apply", Row(c, row))
                  /\ row.live /\ row.temp /\ row.owner = u /\ row.version = gviews[c].version + 1
    <3>1. c \in ViewIDs /\ gviews[c].live /\ gviews[c].temp /\ gviews[c].owner = u
      BY DEF WorkingCopies, LiveViews
    <3>2. PICK g \in GridView : g = gviews[c]
      BY <3>1, VwTypes
    <3> DEFINE row == [Next_(g) EXCEPT !.name = name, !.fields = fields]
    <3>3. /\ row \in GridView /\ row.version = g.version + 1
          /\ row.temp = g.temp /\ row.owner = g.owner /\ row.live = g.live
      BY SeededFits
    <3>4. Flush(q, u, "apply", Row(c, row))
      BY <2>3, <3>2
    <3> HIDE DEF row
    <3> QED
      BY <3>1, <3>2, <3>3, <3>4
  <2> QED
    BY <1>0, <2>1, <2>2, <2>3 DEF apply_temporary_view, WorkIn
<1>2. PICK r \in ViewRequest : r = [pc |-> "apply", user |-> u, rows |-> Row(c, row)]
  BY RowFits DEF ViewRequest, ViewCalls
<1>3. /\ r.pc = "apply" /\ r.user = u /\ DOMAIN r.rows = {c} /\ r.rows[c] = row
  BY <1>2, RowIs
<1>4. /\ viewReq[q] = Idle /\ viewReq' = [viewReq EXCEPT ![q] = r]
      /\ UNCHANGED <<gviews, lastView, working>>
  BY <1>1, <1>2 DEF Flush
<1>5. /\ viewReq'[q] = r /\ \A p \in Slots : p # q => viewReq'[p] = viewReq[p]
      /\ viewReq' \in [Slots -> {Idle} \cup ViewRequest]
  BY <1>4, VwTypes DEF VwTyped
<1>6. overlapped \subseteq overlapped' /\ overlapped' \subseteq ViewUsers
  BY <1>1, VwTypes DEF VwTyped
<1>7. VwTyped'
  BY <1>4, <1>5, <1>6, VwTypes DEF VwTyped
<1>8. ViewRowOK(row, r, gviews[c])
  <2>1. gviews[c] \in GridView
    BY VwTypes
  <2>2. CASE row.version = 1
    BY <1>1, <1>3, <2>1, <2>2, NewRowOK
  <2>3. CASE c \in WorkIn(gviews, u) /\ row.version = gviews[c].version + 1
    BY <1>1, <1>3, <2>1, <2>3, UpdatedRowOK DEF WorkIn, GridView
  <2> QED
    BY <1>1, <2>2, <2>3
<1>9. ViewRequestOK(r, gviews)
  BY <1>1, <1>3, <1>8 DEF ViewRequestOK
<1>10. ASSUME NEW x \in ViewUsers, x \notin overlapped', OneCopy(gviews, viewReq, x)
       PROVE  OneCopy(gviews, viewReq', x)
  <2>1. CASE x # u
    BY <1>3, <1>5, <1>10, <2>1 DEF OneCopy, AppliesFirst, Applies
  <2>2. CASE x = u /\ WorkIn(gviews, u) = {}
    <3>1. \A p \in Slots : ~Applies(viewReq[p], u)
      BY <1>1, <1>10, <2>2 DEF Applies
    <3> QED
      BY <1>5, <2>2, <3>1 DEF OneCopy, AppliesFirst
  <2>3. CASE x = u /\ WorkIn(gviews, u) # {}
    <3>1. c \in WorkIn(gviews, u) /\ row.version = gviews[c].version + 1 /\ gviews[c].live
      BY <1>1, <2>3 DEF WorkIn
    <3>2. row.version # 1
      <4>1. gviews[c].version # 0 /\ gviews[c] \in GridView
        BY <3>1, VwTypes DEF VwIInv
      <4> QED
        BY <3>1, <4>1 DEF GridView
    <3>3. ~AppliesFirst(r, u)
      BY <1>3, <3>2 DEF AppliesFirst
    <3>4. \A p \in Slots : ~AppliesFirst(viewReq'[p], u)
      BY <1>5, <1>10, <2>3, <3>3 DEF OneCopy
    <3> QED
      BY <1>10, <2>3, <3>4 DEF OneCopy
  <2> QED
    BY <2>1, <2>2, <2>3
<1> QED
  BY <1>4, <1>5, <1>6, <1>7, <1>9, <1>10 DEF VwIInv

\* A commit writes the rows of its call over those of the views, if each is one
\* version on from its view's.
LEMMA LandHolds ==
    ASSUME VwIInv, NEW q \in Slots, NEW w \in ViewRequest, w = viewReq[q],
           viewReq' = [viewReq EXCEPT ![q] = Idle], UNCHANGED <<lastView, overlapped>>,
           \A v \in DOMAIN w.rows : gviews[v].version = w.rows[v].version - 1,
           gviews' = Over(w.rows, gviews),
           working' = [working EXCEPT ![w.user] =
              IF w.pc = "apply" THEN (CHOOSE row \in Range(w.rows) : TRUE).fields
              ELSE IF SavesCopy(w, @) THEN {} ELSE @]
    PROVE  VwIInv'
<1>1. /\ w.user \in ViewUsers /\ ViewRequestOK(w, gviews) /\ w # Idle
      /\ \A v \in DOMAIN w.rows : v \in ViewIDs /\ w.rows[v] \in GridView
  BY RowsFit, VwTypes DEF VwIInv, VwTyped, ViewRequest, ViewCalls, Idle
<1>2. /\ gviews' \in [ViewIDs -> GridView]
      /\ \A v \in ViewIDs : gviews'[v] = IF v \in DOMAIN w.rows THEN w.rows[v] ELSE gviews[v]
  <2>1. DOMAIN gviews = ViewIDs /\ DOMAIN w.rows \subseteq ViewIDs
    BY <1>1, VwTypes DEF VwTyped
  <2>2. DOMAIN w.rows \cup DOMAIN gviews = ViewIDs
    BY <2>1
  <2>3. gviews' = [v \in ViewIDs |-> IF v \in DOMAIN w.rows THEN w.rows[v] ELSE gviews[v]]
    BY <2>2 DEF Over
  <2> QED
    BY <1>1, <2>3, VwTypes
<1>3. ASSUME NEW v \in DOMAIN w.rows
      PROVE  /\ v \in ViewIDs /\ gviews'[v] = w.rows[v] /\ w.rows[v] \in GridView
             /\ gviews[v] \in GridView /\ ViewRowOK(w.rows[v], w, gviews[v])
             /\ gviews'[v].version = gviews[v].version + 1
  <2>1. /\ v \in ViewIDs /\ gviews'[v] = w.rows[v] /\ w.rows[v] \in GridView
        /\ gviews[v] \in GridView /\ ViewRowOK(w.rows[v], w, gviews[v])
        /\ gviews[v].version = w.rows[v].version - 1
    BY <1>1, <1>2, VwTypes DEF ViewRequestOK
  <2> QED
    BY <2>1 DEF GridView
<1>4. ASSUME NEW v \in DOMAIN w.rows, gviews[v].live
      PROVE  /\ w.rows[v].temp = gviews[v].temp /\ w.rows[v].owner = gviews[v].owner
             /\ w.rows[v].temp => /\ w.user = gviews[v].owner
                                  /\ w.pc = "apply" \/ SavesCopy(w, gviews[v].fields)
  <2>1. gviews[v].version \in Nat /\ gviews[v].version # 0
    BY <1>3, <1>4 DEF VwIInv, GridView
  <2>2. w.rows[v].version > 1 /\ w.rows[v].version = gviews[v].version + 1
    BY <1>3, <2>1
  <2> QED
    BY <1>3, <2>2 DEF ViewRowOK
<1>5. ASSUME NEW v \in DOMAIN w.rows, w.rows[v].version # 1
      PROVE  gviews[v].live
  <2>1. w.rows[v].version > 1 /\ w.rows[v].version = gviews[v].version + 1
    BY <1>3, <1>5 DEF ViewRowOK, GridView
  <2> QED
    BY <1>3, <2>1 DEF ViewRowOK
<1>6. ASSUME NEW u, ~Applies(w, u) PROVE WorkIn(gviews', u) \subseteq WorkIn(gviews, u)
  <2> SUFFICES ASSUME NEW v \in WorkIn(gviews', u) PROVE v \in WorkIn(gviews, u)
    OBVIOUS
  <2>1. v \in ViewIDs /\ gviews'[v].live /\ gviews'[v].temp /\ gviews'[v].owner = u
    BY DEF WorkIn
  <2>2. v \notin DOMAIN w.rows
    BY <1>3, <1>6, <2>1 DEF ViewRowOK, Applies
  <2> QED
    BY <1>2, <2>1, <2>2 DEF WorkIn
<1>7. ASSUME NEW u, Applies(w, u)
      PROVE  \E v \in ViewIDs :
                /\ DOMAIN w.rows = {v} /\ v \in WorkIn(gviews', u) /\ u = w.user
                /\ \A x \in WorkIn(gviews', u) : x = v \/ x \in WorkIn(gviews, u)
                /\ v \in WorkIn(gviews, u) \/ AppliesFirst(w, u)
  <2>1. PICK v \in ViewIDs : /\ DOMAIN w.rows = {v} /\ w.rows[v].live
                             /\ w.rows[v].temp /\ w.rows[v].owner = w.user
    BY <1>1, <1>7 DEF ViewRequestOK, Applies
  <2>2. v \in WorkIn(gviews', u) /\ u = w.user
    BY <1>3, <1>7, <2>1 DEF WorkIn, Applies
  <2>3. \A x \in ViewIDs : x # v => gviews'[x] = gviews[x]
    BY <1>2, <2>1
  <2>4. v \in WorkIn(gviews, u) \/ AppliesFirst(w, u)
    <3>1. CASE w.rows[v].version = 1
      BY <1>7, <2>1, <3>1 DEF AppliesFirst
    <3>2. CASE w.rows[v].version # 1
      <4>1. gviews[v].live
        BY <1>5, <2>1, <3>2
      <4> QED
        BY <1>4, <2>1, <2>2, <4>1 DEF WorkIn
    <3> QED
      BY <3>1, <3>2
  <2> QED
    BY <2>1, <2>2, <2>3, <2>4 DEF WorkIn
<1>8. /\ viewReq'[q] = Idle /\ \A p \in Slots : p # q => viewReq'[p] = viewReq[p]
      /\ viewReq' \in [Slots -> {Idle} \cup ViewRequest]
  BY VwTypes DEF VwTyped
<1>9. ASSUME NEW p \in Slots PROVE ViewRequestOK(viewReq'[p], gviews')
  <2>1. CASE p = q
    BY <1>8, <2>1 DEF ViewRequestOK
  <2>2. CASE p # q /\ viewReq[p] # Idle
    <3>1. PICK x \in ViewRequest : x = viewReq[p] /\ x = viewReq'[p] /\ ViewRequestOK(x, gviews)
      BY <1>8, <2>2, VwTypes DEF VwIInv
    <3>2. ASSUME NEW v \in DOMAIN x.rows PROVE ViewRowOK(x.rows[v], x, gviews'[v])
      <4>1. /\ v \in ViewIDs /\ x.rows[v] \in GridView /\ gviews[v] \in GridView
            /\ gviews'[v] \in GridView /\ ViewRowOK(x.rows[v], x, gviews[v])
        BY <1>2, <2>2, <3>1, RowsFit, VwTypes DEF ViewRequestOK
      <4>2. CASE v \in DOMAIN w.rows
        BY <1>3, <4>1, <4>2, OutrunRowOK
      <4>3. CASE v \notin DOMAIN w.rows
        BY <1>2, <4>1, <4>3
      <4> QED
        BY <4>2, <4>3
    <3> QED
      BY <3>1, <3>2 DEF ViewRequestOK
  <2>3. CASE p # q /\ viewReq[p] = Idle
    BY <1>8, <2>3 DEF ViewRequestOK
  <2> QED
    BY <2>1, <2>2, <2>3
<1>10. ASSUME NEW u \in ViewUsers, OneCopy(gviews, viewReq, u) PROVE OneCopy(gviews', viewReq', u)
  <2>1. ASSUME NEW p \in Slots
        PROVE  /\ Applies(viewReq'[p], u) => p # q /\ Applies(viewReq[p], u)
               /\ AppliesFirst(viewReq'[p], u) => p # q /\ AppliesFirst(viewReq[p], u)
    BY <1>8 DEF Applies, AppliesFirst, Idle
  <2>2. CASE ~Applies(w, u)
    BY <1>6, <1>10, <2>1, <2>2 DEF OneCopy
  <2>3. CASE Applies(w, u)
    <3>1. PICK v \in ViewIDs :
             /\ \A x \in WorkIn(gviews', u) : x = v \/ x \in WorkIn(gviews, u)
             /\ v \in WorkIn(gviews, u) \/ AppliesFirst(w, u)
      BY <1>7, <2>3
    <3>2. \A a, b \in WorkIn(gviews', u) : a = b
      BY <1>10, <3>1 DEF OneCopy
    <3>3. \A p \in Slots : ~AppliesFirst(viewReq'[p], u)
      BY <1>10, <2>1, <2>3 DEF OneCopy
    <3> QED
      BY <3>2, <3>3 DEF OneCopy
  <2> QED
    BY <2>2, <2>3
<1>11. /\ \A u \in ViewUsers : u # w.user => working'[u] = working[u]
       /\ working'[w.user] = IF w.pc = "apply" THEN (CHOOSE row \in Range(w.rows) : TRUE).fields
                             ELSE IF SavesCopy(w, working[w.user]) THEN {}
                             ELSE working[w.user]
  BY <1>1, VwTypes DEF VwTyped
<1>12. ASSUME NEW v \in ViewIDs, DOMAIN w.rows = {v}
       PROVE  (CHOOSE row \in Range(w.rows) : TRUE).fields = w.rows[v].fields
  <2>1. Range(w.rows) = {w.rows[v]}
    BY <1>12 DEF Range
  <2> QED
    BY <2>1
<1>13. ASSUME NEW u \in ViewUsers, CopyKept(gviews, working[u], u)
       PROVE  CopyKept(gviews', working'[u], u)
  <2>1. CASE Applies(w, u)
    <3>1. PICK v \in ViewIDs : DOMAIN w.rows = {v} /\ v \in WorkIn(gviews', u) /\ u = w.user
      BY <1>7, <2>1
    <3>2. working'[u] = gviews'[v].fields
      BY <1>3, <1>11, <1>12, <2>1, <3>1 DEF Applies
    <3> QED
      BY <3>1, <3>2 DEF CopyKept
  <2>2. CASE ~Applies(w, u)
    <3> SUFFICES ASSUME working'[u] # {}
                 PROVE  \E v \in WorkIn(gviews', u) : gviews'[v].fields = working'[u]
      BY DEF CopyKept
    <3>1. working'[u] = working[u] /\ (u = w.user => ~SavesCopy(w, working[u]))
      BY <1>11, <2>2 DEF Applies
    <3>2. PICK v \in WorkIn(gviews, u) : gviews[v].fields = working[u]
      BY <1>13, <3>1 DEF CopyKept
    <3>3. v \in ViewIDs /\ gviews[v].live /\ gviews[v].temp /\ gviews[v].owner = u
      BY <3>2 DEF WorkIn
    <3>4. v \notin DOMAIN w.rows
      BY <1>4, <2>2, <3>1, <3>2, <3>3 DEF Applies
    <3> QED
      BY <1>2, <3>1, <3>2, <3>3, <3>4 DEF WorkIn
  <2> QED
    BY <2>1, <2>2
<1>14. working' \in [ViewUsers -> SUBSET VFields]
  <2>1. w.pc = "apply" => (CHOOSE row \in Range(w.rows) : TRUE).fields \in SUBSET VFields
    BY <1>1, <1>12 DEF ViewRequestOK, GridView
  <2>2. working \in [ViewUsers -> SUBSET VFields] /\ {} \in SUBSET VFields
    BY VwTypes DEF VwTyped
  <2> QED
    BY <1>1, <2>1, <2>2
<1>15. VwTyped'
  BY <1>2, <1>8, <1>14, VwTypes DEF VwTyped
<1>16. ASSUME NEW v \in ViewIDs, gviews'[v].version = 0 PROVE ~gviews'[v].live
  <2>1. v \notin DOMAIN w.rows
    BY <1>3, <1>16 DEF ViewRowOK
  <2> QED
    BY <1>2, <1>16, <2>1 DEF VwIInv
<1> QED
  BY <1>9, <1>10, <1>13, <1>15, <1>16 DEF VwIInv

\* A commit, whether its rows land or not.
LEMMA CommitViewsHolds ==
    ASSUME VwIInv, NEW q \in Slots, CommitViews(q)
    PROVE  VwIInv'
<1>1. PICK w \in ViewRequest : w = viewReq[q]
  BY VwTypes DEF CommitViews
<1>2. viewReq' = [viewReq EXCEPT ![q] = Idle] /\ UNCHANGED <<lastView, overlapped>>
  BY DEF CommitViews
<1>3. CASE Lands(w.rows)
  <2>1. /\ gviews' = Over(w.rows, gviews)
        /\ working' = [working EXCEPT ![w.user] =
              IF w.pc = "apply" THEN (CHOOSE row \in Range(w.rows) : TRUE).fields
              ELSE IF SavesCopy(w, @) THEN {} ELSE @]
    BY <1>1, <1>3 DEF CommitViews, SavesCopy
  <2>2. \A v \in DOMAIN w.rows : gviews[v].version = w.rows[v].version - 1
    BY <1>3 DEF Lands
  <2> QED
    BY <1>1, <1>2, <2>1, <2>2, LandHolds
<1>4. CASE ~Lands(w.rows)
  <2>1. UNCHANGED <<gviews, working>>
    BY <1>1, <1>4 DEF CommitViews
  <2>2. /\ viewReq'[q] = Idle /\ \A p \in Slots : p # q => viewReq'[p] = viewReq[p]
        /\ viewReq' \in [Slots -> {Idle} \cup ViewRequest]
    BY <1>2, VwTypes DEF VwTyped
  <2>3. VwTyped'
    BY <1>2, <2>1, <2>2, VwTypes DEF VwTyped
  <2>4. ASSUME NEW u \in ViewUsers, OneCopy(gviews, viewReq, u) PROVE OneCopy(gviews, viewReq', u)
    BY <2>2, <2>4 DEF OneCopy, AppliesFirst, Applies, Idle
  <2> QED
    BY <1>2, <2>1, <2>2, <2>3, <2>4 DEF VwIInv, ViewRequestOK
<1> QED
  BY <1>3, <1>4

\* Strict inclusion is well founded on the subsets of a finite set.
LEMMA SubsetsWellFounded ==
    ASSUME NEW S, IsFiniteSet(S)
    PROVE  IsWellFoundedOn(StrictSubsetOrdering(S), SUBSET S)
  BY FS_StrictSubsetOrderingWellFounded, FS_FiniteSubsetsOfFinite

\* Of a set of views there is one that was created first: the numbers up to
\* each of them are sets, of which one includes no other.
LEMMA OldestExists ==
    ASSUME NEW T \in SUBSET ViewIDs, T # {}
    PROVE  \E x \in T : \A y \in T : x <= y
<1>1. PICK n \in T : TRUE
  OBVIOUS
<1>2. T \subseteq Nat /\ n \in Nat
  BY <1>1
<1>3. PICK S : S = 0 .. n
  OBVIOUS
<1>4. IsFiniteSet(S)
  BY <1>2, <1>3, FS_Interval
<1>5. PICK U : U = {0 .. x : x \in T \cap S}
  OBVIOUS
<1>6. U \subseteq SUBSET S /\ U # {}
  <2>1. ASSUME NEW x \in T \cap S PROVE 0 .. x \subseteq S
    BY <1>2, <1>3, <2>1
  <2>2. n \in T \cap S
    BY <1>1, <1>2, <1>3
  <2> QED
    BY <1>5, <2>1, <2>2
<1> DEFINE R == StrictSubsetOrdering(S)
<1>7. IsWellFoundedOn(R, SUBSET S)
  BY <1>4, SubsetsWellFounded
<1> HIDE DEF R
<1>8. PICK least \in U : \A other \in U : ~(<<other, least>> \in R)
  BY <1>6, <1>7, WFMin
<1>9. PICK x \in T \cap S : least = 0 .. x
  BY <1>5, <1>8
<1>10. ASSUME NEW y \in T PROVE x <= y
  <2> SUFFICES ASSUME y < x PROVE FALSE
    BY <1>2, <1>9
  <2>1. y \in T \cap S /\ 0 .. y \subseteq 0 .. x /\ 0 .. y # 0 .. x
    BY <1>2, <1>3, <1>9
  <2>2. 0 .. y \in U /\ 0 .. y \in SUBSET S /\ least \in SUBSET S
    BY <1>5, <1>6, <2>1
  <2>3. <<0 .. y, least>> \in R
    BY <1>9, <2>1, <2>2 DEF R, StrictSubsetOrdering
  <2> QED
    BY <1>8, <2>2, <2>3
<1> QED
  BY <1>9, <1>10

\* A call that writes one row begins.
LEMMA OneRowHolds ==
    ASSUME VwIInv, NEW q \in Slots, NEW u \in ViewUsers, NEW call \in ViewCalls \ {"apply"},
           NEW v \in ViewIDs, NEW row \in GridView, Flush(q, u, call, Row(v, row)),
           UNCHANGED overlapped, ~row.temp,
           \/ row.version = 1
           \/ /\ row.version = gviews[v].version + 1 /\ gviews[v].live /\ ~gviews[v].temp
              /\ row.owner = gviews[v].owner /\ row.owner = u
    PROVE  VwIInv'
<1>1. PICK rows \in ViewRows : rows = Row(v, row)
  BY RowFits
<1>2. PICK w : w = [pc |-> call, user |-> u, rows |-> rows]
  OBVIOUS
<1>3. gviews[v] \in GridView
  BY VwTypes
<1>4. row.temp = FALSE
  BY DEF GridView
<1>5. ViewRowOK(row, w, gviews[v])
  <2>1. CASE row.version = 1
    BY <1>3, <1>4, <2>1, NewRowOK
  <2>2. CASE /\ row.version = gviews[v].version + 1 /\ gviews[v].live /\ ~gviews[v].temp
             /\ row.owner = gviews[v].owner /\ row.owner = u
    <3>1. row.temp = gviews[v].temp /\ row.owner = w.user
      BY <1>2, <1>3, <1>4, <2>2 DEF GridView
    <3> QED
      BY <1>3, <1>4, <2>2, <3>1, UpdatedRowOK
  <2> QED
    BY <2>1, <2>2
<1>6. \A x \in DOMAIN rows : ViewRowOK(rows[x], w, gviews[x])
  <2>1. DOMAIN rows = {v} /\ rows[v] = row
    BY <1>1, RowIs
  <2> QED
    BY <1>5, <2>1
<1> QED
  BY <1>1, <1>2, <1>6, FlushHolds

\* A pair has two elements.
LEMMA TwoAreTwo ==
    ASSUME NEW a, NEW b, a # b
    PROVE  Cardinality({a, b}) = 2
<1>1. IsFiniteSet({a}) /\ Cardinality({a}) = 1 /\ b \notin {a}
  BY FS_Singleton
<1>2. Cardinality({a} \cup {b}) = Cardinality({a}) + 1
  BY <1>1, FS_AddElement
<1>3. {a} \cup {b} = {a, b}
  OBVIOUS
<1> QED
  BY <1>1, <1>2, <1>3

\* A save of a working copy as a view of its own begins: it flushes two rows.
LEMMA TwoRowsHold ==
    ASSUME VwIInv, NEW q \in Slots, NEW u \in ViewUsers, NEW w \in ViewIDs, NEW v \in ViewIDs,
           w # v, NEW row \in GridView, NEW old \in GridView,
           Flush(q, u, "save", Over(Row(w, row), Row(v, old))), UNCHANGED overlapped,
           row.version = 1, row.live, ~row.temp, row.fields = gviews[v].fields,
           gviews[v].live, gviews[v].owner = u, old.version = gviews[v].version + 1,
           old.temp = gviews[v].temp, old.owner = gviews[v].owner, ~old.live
    PROVE  VwIInv'
<1>1. PICK rows : rows = Over(Row(w, row), Row(v, old))
  OBVIOUS
<1>2. rows = [x \in {w} \cup {v} |-> IF x \in {w} THEN row ELSE old]
  BY <1>1 DEF Over, Row
<1>3. DOMAIN rows = {w, v} /\ rows[w] = row /\ rows[v] = old
  BY <1>2
<1>4. rows \in ViewRows
  <2>1. rows \in [{w, v} -> GridView] /\ {w, v} \in SUBSET ViewIDs
    BY <1>2
  <2> QED
    BY <2>1 DEF ViewRows
<1>5. Cardinality({w, v}) = 2
  BY TwoAreTwo
<1>6. PICK r : r = [pc |-> "save", user |-> u, rows |-> rows]
  OBVIOUS
<1>7. SavesCopy(r, gviews[v].fields)
  <2>1. row \in Range(rows)
    BY <1>3 DEF Range
  <2> QED
    BY <1>3, <1>5, <1>6, <2>1 DEF SavesCopy
<1>8. ViewRowOK(row, r, gviews[w]) /\ ViewRowOK(old, r, gviews[v])
  BY <1>6, <1>7, NewRowOK, UpdatedRowOK, VwTypes
<1>9. \A x \in DOMAIN rows : ViewRowOK(rows[x], r, gviews[x])
  BY <1>3, <1>8
<1> QED
  BY <1>1, <1>4, <1>6, <1>9, FlushHolds DEF ViewCalls

\* A creation inserts the view.
LEMMA CreateHolds ==
    ASSUME VwIInv, NEW q \in Slots, NEW u \in ViewUsers, NEW w \in ViewIDs,
           NEW name \in ViewNames, NEW fields \in SUBSET VFields,
           create_view(q, u, w, name, fields)
    PROVE  VwIInv'
<1>1. PICK row \in GridView : row = Saved(name, u, fields) /\ ~row.temp /\ row.version = 1
  BY SavedFits
<1> QED
  BY <1>1, OneRowHolds DEF create_view, Saved, ViewCalls

\* A promotion inserts a system view.
LEMMA PromoteHolds ==
    ASSUME VwIInv, NEW q \in Slots, NEW u \in ViewUsers, NEW v \in ViewIDs, NEW w \in ViewIDs,
           promote_view_to_system(q, u, v, w)
    PROVE  VwIInv'
<1>1. gviews[v].name \in ViewNames /\ gviews[v].fields \in SUBSET VFields
  BY VwTypes DEF GridView
<1>2. PICK row \in GridView : /\ row = Saved(gviews[v].name, Nobody, gviews[v].fields)
                              /\ ~row.temp /\ row.version = 1
  BY <1>1, SavedFits
<1> QED
  BY <1>2, OneRowHolds DEF promote_view_to_system, Saved, ViewCalls

\* A deletion updates the row that was read.
LEMMA DeleteHolds ==
    ASSUME VwIInv, NEW q \in Slots, NEW u \in ViewUsers, NEW v \in ViewIDs,
           delete_user_view(q, u, v)
    PROVE  VwIInv'
<1>1. gviews[v] \in GridView
  BY VwTypes
<1>2. PICK row \in GridView :
         /\ row = SoftDeleted(v) /\ row.version = gviews[v].version + 1
         /\ row.temp = gviews[v].temp /\ row.owner = gviews[v].owner
  BY <1>1, RemovedFits DEF SoftDeleted
<1>3. gviews[v].live /\ ~gviews[v].temp /\ ~row.temp /\ row.owner = u
  BY <1>2 DEF delete_user_view, load_live_view, LiveViews, can_manage_view
<1> QED
  BY <1>2, <1>3, OneRowHolds DEF delete_user_view, ViewCalls

\* A save updates the view in place, or inserts a copy of it, and removes the
\* working copy it was made from with the same flush.
LEMMA SaveHolds ==
    ASSUME VwIInv, NEW q \in Slots, NEW u \in ViewUsers, NEW v \in ViewIDs, NEW w \in ViewIDs,
           gviews[w].version = 0, NEW name \in ViewNames, save_as_user_view(q, u, v, w, name)
    PROVE  VwIInv'
<1>1. PICK view \in GridView : view = gviews[v] /\ view.live
  BY VwTypes DEF save_as_user_view, load_live_view, LiveViews
<1>2. UNCHANGED overlapped
  BY DEF save_as_user_view
<1>3. CASE save_in_place(view, u) /\ Flush(q, u, "save", Row(v, [Next_(view) EXCEPT !.name = name]))
  <2>1. PICK row \in GridView :
           /\ row = [Next_(view) EXCEPT !.name = name] /\ row.version = view.version + 1
           /\ row.temp = view.temp /\ row.owner = view.owner
    BY RenamedFits
  <2>2. ~view.temp /\ ~row.temp /\ row.owner = u
    BY <1>3, <2>1 DEF save_in_place
  <2> QED
    BY <1>1, <1>2, <1>3, <2>1, <2>2, OneRowHolds DEF ViewCalls
<1>4. view.fields \in SUBSET VFields
  BY DEF GridView
<1>5. PICK row \in GridView :
         /\ row = Saved(name, u, view.fields) /\ row.live /\ row.fields = view.fields
         /\ ~row.temp /\ row.version = 1
  BY <1>4, SavedFits
<1>6. CASE Flush(q, u, "save", Row(w, row))
  BY <1>2, <1>5, <1>6, OneRowHolds DEF ViewCalls
<1>7. CASE view.temp /\ view.owner = u /\ Flush(q, u, "save", Over(Row(w, row), Row(v, SoftDeleted(v))))
  <2>1. PICK old \in GridView :
           /\ old = SoftDeleted(v) /\ old.version = view.version + 1
           /\ old.temp = view.temp /\ old.owner = view.owner /\ old.live = FALSE
    BY <1>1, RemovedFits DEF SoftDeleted
  <2>2. w # v
    BY <1>1 DEF VwIInv
  <2> QED
    BY <1>1, <1>2, <1>5, <1>7, <2>1, <2>2, TwoRowsHold
<1> QED
  BY <1>1, <1>3, <1>5, <1>6, <1>7 DEF save_as_user_view, Saved

\* What touches neither views nor calls.
LEMMA OthersHold ==
    ASSUME VwIInv, UNCHANGED <<gviews, viewReq, working, overlapped>>,
           lastView' \in [ViewUsers -> ViewIDs \cup {Nobody}]
    PROVE  VwIInv'
  BY DEF VwIInv, VwTyped

\* Every step of the views keeps the invariant.
LEMMA VwInvStep ==
    ASSUME VwIInv, ViewsNext
    PROVE  VwIInv'
<1>1. ASSUME NEW q \in Slots, NEW u \in ViewUsers, NEW fields \in SUBSET VFields,
             NEW v \in ViewIDs, NEW name \in ViewNames, UnusedViews # {},
             LET w == CHOOSE x \in UnusedViews : \A y \in UnusedViews : x <= y IN
             \/ create_view(q, u, w, name, fields)
             \/ save_as_user_view(q, u, v, w, name)
             \/ apply_temporary_view(q, u, v, w, fields)
             \/ promote_view_to_system(q, u, v, w)
      PROVE  VwIInv'
  <2>1. PICK w : w = CHOOSE x \in UnusedViews : \A y \in UnusedViews : x <= y
    OBVIOUS
  <2>2. UnusedViews \in SUBSET ViewIDs
    BY DEF UnusedViews
  <2>3. w \in UnusedViews
    BY <1>1, <2>1, <2>2, OldestExists
  <2>4. w \in ViewIDs /\ gviews[w].version = 0
    BY <2>3 DEF UnusedViews
  <2>5. \/ create_view(q, u, w, name, fields)
        \/ save_as_user_view(q, u, v, w, name)
        \/ apply_temporary_view(q, u, v, w, fields)
        \/ promote_view_to_system(q, u, v, w)
    BY <1>1, <2>1
  <2> QED
    BY <2>4, <2>5, CreateHolds, SaveHolds, ApplyHolds, PromoteHolds
<1>2. ASSUME NEW q \in Slots, NEW u \in ViewUsers, NEW v \in ViewIDs, delete_user_view(q, u, v)
      PROVE  VwIInv'
  BY <1>2, DeleteHolds
<1>3. ASSUME NEW q \in Slots, CommitViews(q) PROVE VwIInv'
  BY <1>3, CommitViewsHolds
<1>4. ASSUME NEW u \in ViewUsers, NEW draft \in SourceDrafts, author_data_source(u, draft)
      PROVE  VwIInv'
  BY <1>4, VwTypes, OthersHold DEF author_data_source, VwTyped
<1>5. ASSUME NEW u \in ViewUsers, NEW v \in ViewIDs, remember_last_used_view(u, v)
      PROVE  VwIInv'
  <2>1. lastView' \in [ViewUsers -> ViewIDs \cup {Nobody}]
    BY <1>5, VwTypes DEF remember_last_used_view, VwTyped
  <2> QED
    BY <1>5, <2>1, OthersHold DEF remember_last_used_view
<1> QED
  BY <1>1, <1>2, <1>3, <1>4, <1>5 DEF ViewsNext

\* It holds when the grid is deployed.
LEMMA VwInvInit ==
    ASSUME ViewsInit PROVE VwIInv
<1>1. PICK name \in ViewNames : name = CHOOSE n \in ViewNames : TRUE
  OBVIOUS
<1>2. exposed \in SUBSET VFields
  BY DEF ViewsInit
<1>3. PICK new \in GridView : new = Saved(name, Nobody, exposed) /\ ~new.temp
  BY <1>1, <1>2, SavedFits
<1>4. gviews = [v \in ViewIDs |-> [new EXCEPT
          !.live = exposed # {} /\ v = 1, !.version = IF exposed # {} /\ v = 1 THEN 1 ELSE 0]]
  BY <1>1, <1>3 DEF ViewsInit, Saved
<1>5. ASSUME NEW v \in ViewIDs
      PROVE  /\ gviews[v] \in GridView /\ ~gviews[v].temp
             /\ gviews[v].version = 0 => ~gviews[v].live
  <2>1. PICK first \in BOOLEAN : first = (exposed # {} /\ v = 1)
    OBVIOUS
  <2>2. PICK n \in Nat : n = IF first THEN 1 ELSE 0
    BY <2>1
  <2>3. gviews[v] = [new EXCEPT !.live = first, !.version = n]
    BY <1>4, <2>1, <2>2
  <2>4. /\ gviews[v] \in GridView /\ ~gviews[v].temp
        /\ gviews[v].live = first /\ gviews[v].version = n
    BY <1>3, <2>3 DEF GridView
  <2> QED
    BY <2>2, <2>4
<1>6. gviews \in [ViewIDs -> GridView]
  BY <1>4, <1>5
<1>7. /\ lastView = [u \in ViewUsers |-> Nobody] /\ viewReq = [q \in Slots |-> Idle]
      /\ working = [u \in ViewUsers |-> {}] /\ overlapped = {}
  BY DEF ViewsInit
<1>8. VwTyped
  BY <1>6, <1>7 DEF VwTyped
<1>9. \A u : WorkIn(gviews, u) = {}
  BY <1>5 DEF WorkIn
<1> QED
  BY <1>5, <1>7, <1>8, <1>9
  DEF VwIInv, ViewRequestOK, OneCopy, CopyKept, AppliesFirst, Applies, Idle

\* What a user applied last is kept, in one working copy.
LEMMA CopiesKept ==
    ASSUME VwIInv PROVE WorkingCopiesAreKept
<1> SUFFICES ASSUME NEW u \in ViewUsers
             PROVE  /\ u \notin overlapped => Cardinality(WorkingCopies(u)) <= 1
                    /\ working[u] # {} => \E v \in WorkingCopies(u) : gviews[v].fields = working[u]
  BY DEF WorkingCopiesAreKept
<1>1. WorkingCopies(u) = WorkIn(gviews, u)
  BY DEF WorkingCopies, WorkIn, LiveViews
<1>2. ASSUME u \notin overlapped PROVE Cardinality(WorkIn(gviews, u)) <= 1
  <2>1. \A a, b \in WorkIn(gviews, u) : a = b
    BY <1>2 DEF VwIInv, OneCopy
  <2>2. CASE WorkIn(gviews, u) = {}
    BY <2>2, FS_EmptySet
  <2>3. CASE WorkIn(gviews, u) # {}
    <3>1. PICK v : WorkIn(gviews, u) = {v}
      BY <2>1, <2>3
    <3>2. Cardinality({v}) = 1
      BY FS_Singleton
    <3> QED
      BY <3>1, <3>2
  <2> QED
    BY <2>2, <2>3
<1> QED
  BY <1>1, <1>2 DEF VwIInv, CopyKept

\* What a call is about to land on a view that is there is the caller's.
LEMMA OwnersWriteTheirs ==
    ASSUME VwIInv PROVE OwnersWrite
<1> SUFFICES ASSUME NEW q \in Slots, viewReq[q] # Idle, NEW v \in DOMAIN viewReq[q].rows,
                    viewReq[q].rows[v].version > 1,
                    viewReq[q].rows[v].version = gviews[v].version + 1
             PROVE  gviews[v].owner = viewReq[q].user /\ viewReq[q].rows[v].owner = viewReq[q].user
  BY DEF OwnersWrite
<1>1. ViewRowOK(viewReq[q].rows[v], viewReq[q], gviews[v])
  BY DEF VwIInv, ViewRequestOK
<1> QED
  BY <1>1 DEF ViewRowOK

\* What opens is a live view that the user may see.
LEMMA OpensVisible ==
    ASSUME VwIInv PROVE OpensAreVisible
<1> DEFINE Fits(v, u) == load_live_view(v) /\ view_visible_to(gviews[v], u)
<1> SUFFICES ASSUME NEW u \in ViewUsers
             PROVE  /\ IF restore_last_used_view(u).view = Nobody THEN _default_system_view = Nobody
                       ELSE Fits(restore_last_used_view(u).view, u)
                    /\ \A v \in LiveViews : resolve_grid_link(v, u).kind = "open" =>
                          view_visible_to(gviews[v], u) /\ u \in Readers
  BY DEF OpensAreVisible
<1>1. _default_system_view # Nobody => Fits(_default_system_view, u)
  <2>1. PICK systems \in SUBSET ViewIDs : systems = {v \in LiveViews : gviews[v].owner = Nobody}
    BY DEF LiveViews
  <2>2. _default_system_view = IF systems = {} THEN Nobody
                               ELSE CHOOSE v \in systems : \A w \in systems : v <= w
    BY <2>1 DEF _default_system_view
  <2>3. systems # {} => _default_system_view \in systems
    BY <2>2, OldestExists
  <2> QED
    BY <2>1, <2>2, <2>3 DEF load_live_view, view_visible_to
<1>2. lastView[u] \in ViewIDs \cup {Nobody}
  BY VwTypes DEF VwTyped
<1>3. PICK o : o = restore_last_used_view(u).view
  OBVIOUS
<1>4. /\ o # Nobody => Fits(o, u)
      /\ o = Nobody => _default_system_view = Nobody
  <2>1. CASE usable(lastView[u], u)
    <3>1. o = lastView[u]
      BY <1>3, <2>1 DEF restore_last_used_view
    <3> QED
      BY <1>2, <2>1, <3>1 DEF usable, load_live_view, view_visible_to, LiveViews
  <2>2. CASE ~usable(lastView[u], u)
    <3>1. o = _default_system_view
      BY <1>3, <2>2 DEF restore_last_used_view
    <3> QED
      BY <1>1, <3>1
  <2> QED
    BY <2>1, <2>2
<1>5. ASSUME NEW v \in LiveViews, resolve_grid_link(v, u).kind = "open"
      PROVE  view_visible_to(gviews[v], u) /\ u \in Readers
  <2>1. PICK facts : facts = load_deep_link_facts(v, u)
    OBVIOUS
  <2>2. facts.owner = gviews[v].owner /\ facts.access = (u \in Readers)
    BY <2>1 DEF load_deep_link_facts
  <2>3. resolve_grid_link(v, u) =
           IF ~facts.access THEN [kind |-> "denied"]
           ELSE IF facts.owner \in {Nobody, u} THEN [kind |-> "open", view |-> v]
           ELSE [kind |-> "fallback", view |-> lastView[u]]
    BY <2>1 DEF resolve_grid_link
  <2>4. facts.access /\ facts.owner \in {Nobody, u}
    <3>1. CASE ~facts.access
      BY <1>5, <2>3, <3>1
    <3>2. CASE facts.access /\ facts.owner \notin {Nobody, u}
      BY <1>5, <2>3, <3>2
    <3> QED
      BY <2>2, <3>1, <3>2
  <2> QED
    BY <2>2, <2>4 DEF view_visible_to
<1> HIDE DEF Fits
<1> QED
  BY <1>3, <1>4, <1>5

HIDE GridViewsAssumption

-----------------------------------------------------------------------------
(* The templates and their rules. *)

TemplateRow == ColorTemplate \cup {Absent}
RuleRow == ConditionalFormattingRule \cup {Absent}

\* A rule document that has passed the gate.
GatedDocument ==
    [field : STRING, operator : CONDITION_OPERATORS, value : STRING,
     effect : FORMATTING_EFFECTS, slot : STATUS_COLOR_SLOTS]

\* What a request has read and will write.
TemplateWrite == [pc : {"newTemplate", "template"}, t : Templates, row : ColorTemplate]
TemplateDrop == [pc : {"dropTemplate"}, t : Templates, version : Nat \ {0},
                 rules : UNION {[S -> Nat \ {0}] : S \in SUBSET FRules}]
ScaleWrite == [pc : {"scale"}, steps : ScaleDocs, version : Nat]
RuleAppend == [pc : {"newRule"}, c : FRules, t : Templates, alone : BOOLEAN,
               row : ConditionalFormattingRule]
RulePatch == [pc : {"rule"}, c : FRules, version : Nat \ {0},
              columns : SUBSET {"field", "operator", "value", "effect", "slot"},
              merged : GatedDocument]
RuleDrop == [pc : {"dropRule"}, c : FRules, version : Nat \ {0}]
RuleReorder == [pc : {"order"}, t : Templates, alone : BOOLEAN,
                order : UNION {[1 .. n -> FRules] : n \in Nat}, moved : SUBSET (Nat \ {0}),
                versions : UNION {[S -> Nat \ {0}] : S \in SUBSET FRules}]
ThemeRequest == {Idle} \cup TemplateWrite \cup TemplateDrop \cup ScaleWrite
                   \cup RuleAppend \cup RulePatch \cup RuleDrop \cup RuleReorder

ScaleOK(s) == DOMAIN s.steps = ToSet(TYPE_SCALE_STEPS) /\ s.version \in Nat

ThTyped ==
    /\ templates \in [Templates -> TemplateRow]
    /\ frules \in [FRules -> RuleRow]
    /\ themeReq \in [Slots -> ThemeRequest]
    /\ late \in SUBSET FRules
    /\ ScaleOK(scale)

\* A template document that a screen can paint.
DocFits(doc) ==
    /\ color_slot_errors(doc.colors) = {}
    /\ DOMAIN doc.fonts = FONT_SLOTS
    /\ doc.choice \in ToSet(TYPE_SCALE_STEPS)

TemplateOK(row) ==
    /\ row.version = 0 => row = Absent
    /\ row.live => DocFits(row.doc)

RuleOK(row) ==
    /\ row.version = 0 => row = Absent
    /\ row.live => row.order > 0 /\ rule_errors(row.doc) = {}

\* The live rules of a template, and that their orders differ.
RulesIn(rules, t) == {c \in FRules : rules[c].live /\ rules[c].template = t}
Listed(rules) ==
    \A c, d \in FRules : c # d /\ rules[c].live /\ rules[d].live
                           /\ rules[c].template = rules[d].template
                           => rules[c].order # rules[d].order

\* An append that is alone will be the last of its list.
AppendOK(w, rules) ==
    w.pc = "newRule" =>
        /\ w.row.live /\ w.row.template = w.t /\ RuleOK(w.row) /\ w.row.version > 0
        /\ w.alone => \A c \in RulesIn(rules, w.t) : rules[c].order < w.row.order

PatchOK(w, rules) ==
    w.pc = "rule" =>
        /\ w.version <= rules[w.c].version
        /\ w.version = rules[w.c].version => rule_errors(Columns(rules[w.c].doc, w)) = {}

\* The rules that a reorder moves, and whether they are as it read them.
MovedRules(w) == {w.order[i] : i \in w.moved}
IsCurrent(w, rules) == \A c \in MovedRules(w) : w.versions[c] = rules[c].version

\* While its rules are as it read them, a reorder moves live rules of its
\* template to positions of which none is past all of theirs, and if it is
\* alone, no other rule is in one of its positions.
ReorderOK(w, rules) ==
    w.pc = "order" =>
        /\ w.moved \subseteq DOMAIN w.order
        /\ \A i, j \in w.moved : w.order[i] = w.order[j] => i = j
        /\ MovedRules(w) \subseteq DOMAIN w.versions
        /\ \A c \in MovedRules(w) : w.versions[c] <= rules[c].version
        /\ IsCurrent(w, rules) =>
              /\ MovedRules(w) \subseteq RulesIn(rules, w.t)
              /\ \A i \in w.moved : \E c \in MovedRules(w) : i <= rules[c].order
              /\ w.alone => \A c \in RulesIn(rules, w.t) \ MovedRules(w) :
                                rules[c].order \notin w.moved

ThemeRequestOK(w, rules) ==
    /\ w.pc \in {"newTemplate", "template"} => w.row.live /\ TemplateOK(w.row)
    /\ w.pc = "scale" => DOMAIN w.steps = ToSet(TYPE_SCALE_STEPS)
    /\ AppendOK(w, rules) /\ PatchOK(w, rules) /\ ReorderOK(w, rules)

\* Of two appends to a template neither is alone, nor of two reorders, nor is a
\* reorder beside an append that is not.
Apart(v, w) ==
    v.pc \in {"newRule", "order"} /\ w.pc \in {"newRule", "order"} /\ v.t = w.t =>
        /\ v.pc = w.pc => ~v.alone /\ ~w.alone
        /\ v.pc = "newRule" /\ w.pc = "order" => v.alone \/ ~w.alone

\* The inductive invariant.
ThIInv ==
    /\ ThTyped
    /\ \A t \in Templates : TemplateOK(templates[t])
    /\ \A c \in FRules : RuleOK(frules[c])
    /\ Listed(frules)
    /\ \A c \in FRules \ late : frules[c].live => templates[frules[c].template].live
    /\ \A q \in Slots : ThemeRequestOK(themeReq[q], frules)
    /\ \A p, q \in Slots : p # q => Apart(themeReq[p], themeReq[q])
    /\ ~collided

\* What the invariant says of the types of rows and requests.
LEMMA ThTypes ==
    ASSUME ThIInv
    PROVE  /\ templates \in [Templates -> TemplateRow] /\ frules \in [FRules -> RuleRow]
           /\ \A t \in Templates : templates[t] \in TemplateRow
           /\ \A c \in FRules : frules[c] \in RuleRow
           /\ \A t \in Templates : templates[t].version \in Nat /\ templates[t].live \in BOOLEAN
                                   /\ (templates[t].version # 0 => templates[t] \in ColorTemplate)
           /\ \A c \in FRules : frules[c].version \in Nat /\ frules[c].live \in BOOLEAN
                                /\ (frules[c].version # 0 => frules[c] \in ConditionalFormattingRule)
           /\ \A t \in Templates : templates[t].live => templates[t] \in ColorTemplate
                                                        /\ templates[t].version # 0
           /\ \A c \in FRules : frules[c].live => frules[c] \in ConditionalFormattingRule
                                                  /\ frules[c].version # 0
           /\ themeReq \in [Slots -> ThemeRequest]
           /\ \A q \in Slots : themeReq[q] \in ThemeRequest
<1>1. /\ templates \in [Templates -> TemplateRow] /\ frules \in [FRules -> RuleRow]
      /\ themeReq \in [Slots -> ThemeRequest]
      /\ \A t \in Templates : TemplateOK(templates[t])
      /\ \A c \in FRules : RuleOK(frules[c])
  BY DEF ThIInv, ThTyped
<1>2. /\ Absent \notin ColorTemplate /\ Absent \notin ConditionalFormattingRule
      /\ Absent.version = 0 /\ Absent.live \in BOOLEAN /\ ~Absent.live
  BY DEF Absent, ColorTemplate, ConditionalFormattingRule
<1>3. ASSUME NEW t \in Templates
      PROVE  /\ templates[t] \in TemplateRow
             /\ templates[t].version \in Nat /\ templates[t].live \in BOOLEAN
             /\ templates[t].version # 0 => templates[t] \in ColorTemplate
             /\ templates[t].live => templates[t] \in ColorTemplate /\ templates[t].version # 0
  <2>1. CASE templates[t] = Absent
    BY <1>2, <2>1 DEF TemplateRow
  <2>2. CASE templates[t] \in ColorTemplate
    <3>1. TemplateOK(templates[t]) /\ templates[t] # Absent
      BY <1>1, <1>2, <2>2
    <3>2. templates[t].version # 0
      BY <3>1 DEF TemplateOK
    <3> QED
      BY <2>2, <3>2 DEF TemplateRow, ColorTemplate
  <2> QED
    BY <1>1, <2>1, <2>2 DEF TemplateRow
<1>4. ASSUME NEW c \in FRules
      PROVE  /\ frules[c] \in RuleRow
             /\ frules[c].version \in Nat /\ frules[c].live \in BOOLEAN
             /\ frules[c].version # 0 => frules[c] \in ConditionalFormattingRule
             /\ frules[c].live => frules[c] \in ConditionalFormattingRule
                                  /\ frules[c].version # 0
  <2>1. CASE frules[c] = Absent
    BY <1>2, <2>1 DEF RuleRow
  <2>2. CASE frules[c] \in ConditionalFormattingRule
    <3>1. RuleOK(frules[c]) /\ frules[c] # Absent
      BY <1>1, <1>2, <2>2
    <3>2. frules[c].version # 0
      BY <3>1 DEF RuleOK
    <3> QED
      BY <2>2, <3>2 DEF RuleRow, ConditionalFormattingRule
  <2> QED
    BY <1>1, <2>1, <2>2 DEF RuleRow
<1>5. \A q \in Slots : themeReq[q] \in ThemeRequest
  BY <1>1
<1> QED
  BY <1>1, <1>3, <1>4, <1>5

\* A request is known by its step.
LEMMA RequestKinds ==
    ASSUME NEW w \in ThemeRequest
    PROVE  /\ w.pc \in {"newTemplate", "template"} => w \in TemplateWrite
           /\ w.pc = "dropTemplate" => w \in TemplateDrop
           /\ w.pc = "scale" => w \in ScaleWrite
           /\ w.pc = "newRule" => w \in RuleAppend
           /\ w.pc = "rule" => w \in RulePatch
           /\ w.pc = "dropRule" => w \in RuleDrop
           /\ w.pc = "order" => w \in RuleReorder
  BY DEF ThemeRequest, Idle, TemplateWrite, TemplateDrop, ScaleWrite, RuleAppend, RulePatch,
         RuleDrop, RuleReorder

\* A request that may have lost its list to another.
Crowded(v, w) == IF w.pc \in {"newRule", "order"}
                 THEN \E b \in BOOLEAN : v = [w EXCEPT !.alone = b] /\ (b => w.alone)
                 ELSE v = w

\* What is in order of a request is in order when it is no longer alone.
LEMMA CrowdedOK ==
    ASSUME NEW w \in ThemeRequest, NEW v, Crowded(v, w), NEW rules, ThemeRequestOK(w, rules)
    PROVE  v \in ThemeRequest /\ ThemeRequestOK(v, rules) /\ v.pc = w.pc /\ v.t = w.t
<1>1. CASE w.pc = "newRule"
  <2>1. PICK b \in BOOLEAN : v = [w EXCEPT !.alone = b] /\ (b => w.alone)
    BY <1>1 DEF Crowded
  <2>2. w \in RuleAppend
    BY <1>1, RequestKinds
  <2>3. /\ v \in RuleAppend /\ v.pc = w.pc /\ v.t = w.t /\ v.row = w.row /\ v.alone = b
    BY <2>1, <2>2 DEF RuleAppend
  <2> QED
    BY <1>1, <2>1, <2>3 DEF ThemeRequest, ThemeRequestOK, AppendOK, PatchOK, ReorderOK
<1>2. CASE w.pc = "order"
  <2>1. PICK b \in BOOLEAN : v = [w EXCEPT !.alone = b] /\ (b => w.alone)
    BY <1>2 DEF Crowded
  <2>2. w \in RuleReorder
    BY <1>2, RequestKinds
  <2>3. /\ v \in RuleReorder /\ v.pc = w.pc /\ v.t = w.t /\ v.alone = b
        /\ v.order = w.order /\ v.moved = w.moved /\ v.versions = w.versions
    BY <2>1, <2>2 DEF RuleReorder
  <2>4. MovedRules(v) = MovedRules(w) /\ IsCurrent(v, rules) = IsCurrent(w, rules)
    BY <2>3 DEF MovedRules, IsCurrent
  <2>5. ReorderOK(w, rules)
    BY DEF ThemeRequestOK
  <2>6. ReorderOK(v, rules)
    BY <1>2, <2>1, <2>3, <2>4, <2>5 DEF ReorderOK
  <2> QED
    BY <1>2, <2>3, <2>6 DEF ThemeRequest, ThemeRequestOK, AppendOK, PatchOK
<1>3. CASE w.pc \notin {"newRule", "order"}
  BY <1>3 DEF Crowded
<1> QED
  BY <1>1, <1>2, <1>3

\* The requests at the time one begins.
LEMMA CrowdIs ==
    ASSUME NEW reqs \in [Slots -> ThemeRequest]
    PROVE  /\ Crowd(reqs) = [p \in Slots |-> Crowd(reqs)[p]]
           /\ \A p \in Slots : Crowded(Crowd(reqs)[p], reqs[p])
           /\ \A p, q \in Slots : p # q => Apart(Crowd(reqs)[p], Crowd(reqs)[q])
<1> DEFINE Alike(p, pc) == {x \in Slots \ {p} : reqs[x].pc = pc /\ reqs[x].t = reqs[p].t}
           Lone(p) == reqs[p].alone /\ Alike(p, reqs[p].pc) = {}
           LoneOrder(p) == Lone(p) /\ \A x \in Alike(p, "newRule") : Lone(x)
           crowd == Crowd(reqs)
<1>1. /\ crowd = [p \in Slots |-> crowd[p]]
      /\ \A p \in Slots : reqs[p].pc = "newRule" => crowd[p] = [reqs[p] EXCEPT !.alone = Lone(p)]
      /\ \A p \in Slots : reqs[p].pc = "order" => crowd[p] = [reqs[p] EXCEPT !.alone = LoneOrder(p)]
      /\ \A p \in Slots : reqs[p].pc \notin {"newRule", "order"} => crowd[p] = reqs[p]
  BY DEF Crowd
<1> HIDE DEF crowd
<1>2. \A p \in Slots : reqs[p] \in ThemeRequest
  OBVIOUS
<1>3. ASSUME NEW p \in Slots, reqs[p].pc \in {"newRule", "order"}
      PROVE  /\ reqs[p].alone \in BOOLEAN /\ Lone(p) \in BOOLEAN /\ LoneOrder(p) \in BOOLEAN
             /\ crowd[p].pc = reqs[p].pc /\ crowd[p].t = reqs[p].t
             /\ reqs[p].pc = "newRule" => crowd[p].alone = Lone(p)
             /\ reqs[p].pc = "order" => crowd[p].alone = LoneOrder(p)
  <2>1. reqs[p] \in RuleAppend \cup RuleReorder
    BY <1>2, <1>3, RequestKinds
  <2>2. reqs[p].alone \in BOOLEAN
    BY <2>1 DEF RuleAppend, RuleReorder
  <2>3. Lone(p) \in BOOLEAN /\ LoneOrder(p) \in BOOLEAN
    BY <2>2
  <2> HIDE DEF Lone, LoneOrder
  <2> QED
    BY <1>1, <1>3, <2>1, <2>2, <2>3 DEF RuleAppend, RuleReorder
<1>4. ASSUME NEW p \in Slots PROVE Crowded(crowd[p], reqs[p])
  <2>1. CASE reqs[p].pc = "newRule"
    <3>1. PICK b \in BOOLEAN : b = Lone(p)
      BY <1>3, <2>1
    <3> QED
      BY <1>1, <2>1, <3>1 DEF Crowded
  <2>2. CASE reqs[p].pc = "order"
    <3>1. PICK b \in BOOLEAN : b = LoneOrder(p)
      BY <1>3, <2>2
    <3> QED
      BY <1>1, <2>2, <3>1 DEF Crowded
  <2>3. CASE reqs[p].pc \notin {"newRule", "order"}
    BY <1>1, <2>3 DEF Crowded
  <2> QED
    BY <2>1, <2>2, <2>3
<1>5. ASSUME NEW p \in Slots, NEW q \in Slots, p # q PROVE Apart(crowd[p], crowd[q])
  <2>1. \A x \in Slots : crowd[x].pc = reqs[x].pc
    BY <1>1, <1>3
  <2> SUFFICES ASSUME reqs[p].pc \in {"newRule", "order"}, reqs[q].pc \in {"newRule", "order"},
                      reqs[p].t = reqs[q].t
               PROVE  /\ reqs[p].pc = reqs[q].pc => ~crowd[p].alone /\ ~crowd[q].alone
                      /\ reqs[p].pc = "newRule" /\ reqs[q].pc = "order" =>
                            crowd[p].alone \/ ~crowd[q].alone
    BY <1>3, <2>1 DEF Apart
  <2>2. /\ reqs[p].pc = reqs[q].pc => ~Lone(p) /\ ~Lone(q)
        /\ reqs[p].pc = "newRule" => p \in Alike(q, "newRule")
    BY <1>5
  <2> QED
    BY <1>3, <2>2
<1> QED
  BY <1>1, <1>4, <1>5 DEF crowd

\* A request begins, in order.
LEMMA ThemeBeginHolds ==
    ASSUME ThIInv, NEW q \in Slots, NEW w \in ThemeRequest, ThemeRequestOK(w, frules),
           ThemeBegin(q, w)
    PROVE  ThIInv'
<1>1. PICK reqs : reqs = [themeReq EXCEPT ![q] = w]
  OBVIOUS
<1>2. /\ reqs \in [Slots -> ThemeRequest]
      /\ \A p \in Slots : ThemeRequestOK(reqs[p], frules)
  BY <1>1, ThTypes DEF ThIInv
<1>3. themeReq' = Crowd(reqs) /\ UNCHANGED <<templates, frules, scale, collided, late>>
  BY <1>1 DEF ThemeBegin
<1>4. \A p \in Slots : themeReq'[p] \in ThemeRequest /\ ThemeRequestOK(themeReq'[p], frules)
  <2> SUFFICES ASSUME NEW p \in Slots
               PROVE  themeReq'[p] \in ThemeRequest /\ ThemeRequestOK(themeReq'[p], frules)
    OBVIOUS
  <2>1. Crowded(themeReq'[p], reqs[p]) /\ reqs[p] \in ThemeRequest
    BY <1>2, <1>3, CrowdIs
  <2> QED
    BY <1>2, <2>1, CrowdedOK
<1>5. themeReq' = [p \in Slots |-> themeReq'[p]]
      /\ \A p, r \in Slots : p # r => Apart(themeReq'[p], themeReq'[r])
  BY <1>2, <1>3, CrowdIs
<1>6. ThTyped'
  BY <1>3, <1>4, <1>5 DEF ThIInv, ThTyped
<1> QED
  BY <1>3, <1>4, <1>5, <1>6 DEF ThIInv

\* Rows only get newer versions, and a row of one version is one row.
Newer(rules, new) ==
    \A c \in FRules : /\ rules[c].version <= new[c].version
                      /\ rules[c].version = new[c].version => new[c] = rules[c]

\* No rule comes to a template and none changes its order.
Fewer(rules, new) ==
    \A c \in FRules : new[c].live => /\ rules[c].live /\ new[c].template = rules[c].template
                                     /\ new[c].order = rules[c].order

\* A request is still in order when the rules change, if an append that is alone
\* is still last and no rule came to a place that a lone reorder gives.
LEMMA RequestKept ==
    ASSUME ThIInv, NEW w \in ThemeRequest, ThemeRequestOK(w, frules),
           NEW new \in [FRules -> RuleRow], Newer(frules, new), AppendOK(w, new),
           w.pc = "order" /\ w.alone /\ IsCurrent(w, new) =>
              \A c \in RulesIn(new, w.t) \ MovedRules(w) : new[c].order \notin w.moved
    PROVE  ThemeRequestOK(w, new)
<1>1. \A c \in FRules : new[c].version \in Nat
  BY DEF RuleRow, ConditionalFormattingRule, Absent
<1>2. \A c \in FRules : frules[c].version \in Nat
  BY ThTypes
<1>3. PatchOK(w, new)
  <2> SUFFICES ASSUME w.pc = "rule" PROVE PatchOK(w, new)
    BY DEF PatchOK
  <2>1. w.c \in FRules /\ w.version \in Nat
    BY RequestKinds DEF RulePatch
  <2>2. /\ w.version <= frules[w.c].version
        /\ w.version = frules[w.c].version => rule_errors(Columns(frules[w.c].doc, w)) = {}
    BY DEF ThemeRequestOK, PatchOK
  <2>3. /\ frules[w.c].version <= new[w.c].version
        /\ frules[w.c].version = new[w.c].version => new[w.c] = frules[w.c]
    BY <2>1 DEF Newer
  <2>4. /\ w.version <= new[w.c].version
        /\ w.version = new[w.c].version => new[w.c] = frules[w.c] /\ w.version = frules[w.c].version
    BY <1>1, <1>2, <2>1, <2>2, <2>3
  <2> QED
    BY <2>2, <2>4 DEF PatchOK
<1>4. ReorderOK(w, new)
  <2> SUFFICES ASSUME w.pc = "order" PROVE ReorderOK(w, new)
    BY DEF ReorderOK
  <2>1. /\ w.moved \subseteq DOMAIN w.order
        /\ \A i, j \in w.moved : w.order[i] = w.order[j] => i = j
        /\ MovedRules(w) \subseteq DOMAIN w.versions
        /\ \A c \in MovedRules(w) : w.versions[c] <= frules[c].version
        /\ IsCurrent(w, frules) =>
              /\ MovedRules(w) \subseteq RulesIn(frules, w.t)
              /\ \A i \in w.moved : \E c \in MovedRules(w) : i <= frules[c].order
    BY DEF ThemeRequestOK, ReorderOK
  <2>2. /\ DOMAIN w.versions \subseteq FRules
        /\ \A c \in DOMAIN w.versions : w.versions[c] \in Nat
    BY RequestKinds DEF RuleReorder
  <2>3. ASSUME NEW c \in MovedRules(w)
        PROVE  /\ c \in FRules /\ w.versions[c] <= new[c].version
               /\ w.versions[c] = new[c].version =>
                     new[c] = frules[c] /\ w.versions[c] = frules[c].version
    <3>1. c \in FRules /\ w.versions[c] \in Nat /\ w.versions[c] <= frules[c].version
      BY <2>1, <2>2
    <3>2. /\ frules[c].version <= new[c].version
          /\ frules[c].version = new[c].version => new[c] = frules[c]
      BY <3>1 DEF Newer
    <3> QED
      BY <1>1, <1>2, <3>1, <3>2
  <2>4. ASSUME IsCurrent(w, new)
        PROVE  /\ IsCurrent(w, frules) /\ \A c \in MovedRules(w) : new[c] = frules[c]
    BY <2>3, <2>4 DEF IsCurrent
  <2>5. ASSUME IsCurrent(w, new) PROVE MovedRules(w) \subseteq RulesIn(new, w.t)
    BY <2>1, <2>3, <2>4, <2>5 DEF RulesIn
  <2>6. ASSUME IsCurrent(w, new), NEW i \in w.moved
        PROVE  \E c \in MovedRules(w) : i <= new[c].order
    BY <2>1, <2>4, <2>6
  <2> QED
    BY <2>1, <2>3, <2>5, <2>6 DEF ReorderOK
<1> QED
  BY <1>3, <1>4 DEF ThemeRequestOK

\* A rule that leaves no template and takes no order is no rule for an append.
LEMMA FewerKept ==
    ASSUME ThIInv, NEW w \in ThemeRequest, ThemeRequestOK(w, frules),
           NEW new \in [FRules -> RuleRow], Newer(frules, new), Fewer(frules, new)
    PROVE  ThemeRequestOK(w, new)
<1>1. ASSUME NEW c \in RulesIn(new, w.t)
      PROVE  c \in RulesIn(frules, w.t) /\ new[c].order = frules[c].order
  BY DEF RulesIn, Fewer
<1>2. AppendOK(w, new)
  BY <1>1 DEF ThemeRequestOK, AppendOK
<1>3. ASSUME w.pc = "order", w.alone, IsCurrent(w, new), NEW c \in RulesIn(new, w.t) \ MovedRules(w)
      PROVE  new[c].order \notin w.moved
  <2>1. IsCurrent(w, frules)
    <3> SUFFICES ASSUME NEW d \in MovedRules(w) PROVE w.versions[d] = frules[d].version
      BY DEF IsCurrent
    <3>1. /\ d \in DOMAIN w.versions /\ w.versions[d] <= frules[d].version
          /\ w.versions[d] = new[d].version
      BY <1>3 DEF ThemeRequestOK, ReorderOK, IsCurrent
    <3>2. d \in FRules /\ w.versions[d] \in Nat
      BY <1>3, <3>1, RequestKinds DEF RuleReorder
    <3>3. frules[d].version \in Nat /\ frules[d].version <= new[d].version
      BY <3>2, ThTypes DEF Newer
    <3> QED
      BY <3>1, <3>2, <3>3
  <2> QED
    BY <1>1, <1>3, <2>1 DEF ThemeRequestOK, ReorderOK
<1> QED
  BY <1>2, <1>3, RequestKept

\* A request ends.
LEMMA ThemeEndHolds ==
    ASSUME ThIInv, NEW q \in Slots, ThemeEnd(q),
           templates' \in [Templates -> TemplateRow],
           \A t \in Templates : TemplateOK(templates'[t]),
           ScaleOK(scale'),
           frules' \in [FRules -> RuleRow], \A c \in FRules : RuleOK(frules'[c]),
           Listed(frules'), late' \in SUBSET FRules,
           \A c \in FRules \ late' : frules'[c].live => templates'[frules'[c].template].live,
           \A p \in Slots : p # q => ThemeRequestOK(themeReq[p], frules'),
           ~collided'
    PROVE  ThIInv'
<1>1. /\ themeReq' \in [Slots -> ThemeRequest] /\ themeReq'[q] = Idle
      /\ \A p \in Slots : p # q => themeReq'[p] = themeReq[p]
  BY ThTypes DEF ThemeEnd, ThemeRequest
<1>2. ThemeRequestOK(Idle, frules') /\ \A w : Apart(Idle, w) /\ Apart(w, Idle)
  BY DEF Idle, ThemeRequestOK, AppendOK, PatchOK, ReorderOK, Apart
<1>3. \A p \in Slots : ThemeRequestOK(themeReq'[p], frules')
  BY <1>1, <1>2
<1>4. ASSUME NEW p \in Slots, NEW r \in Slots, p # r PROVE Apart(themeReq'[p], themeReq'[r])
  BY <1>1, <1>2, <1>4 DEF ThIInv
<1>5. ThTyped'
  BY <1>1 DEF ThTyped
<1> QED
  BY <1>3, <1>4, <1>5 DEF ThIInv

\* A request ends and the rules stay, or some of them go or change their document.
LEMMA FewerHolds ==
    ASSUME ThIInv, NEW q \in Slots, ThemeEnd(q),
           templates' \in [Templates -> TemplateRow],
           \A t \in Templates : TemplateOK(templates'[t]),
           ScaleOK(scale'),
           frules' \in [FRules -> RuleRow], \A c \in FRules : RuleOK(frules'[c]),
           Newer(frules, frules'), Fewer(frules, frules'), late' \in SUBSET FRules,
           \A c \in FRules \ late' : frules'[c].live => templates'[frules'[c].template].live,
           UNCHANGED collided
    PROVE  ThIInv'
<1>1. Listed(frules')
  <2> SUFFICES ASSUME NEW c \in FRules, NEW d \in FRules, c # d, frules'[c].live, frules'[d].live,
                      frules'[c].template = frules'[d].template
               PROVE  frules'[c].order # frules'[d].order
    BY DEF Listed
  <2> QED
    BY DEF Fewer, ThIInv, Listed
<1>2. \A p \in Slots : p # q => ThemeRequestOK(themeReq[p], frules')
  BY ThTypes, FewerKept DEF ThIInv
<1> QED
  BY <1>1, <1>2, ThemeEndHolds DEF ThIInv

\* Rules that stay are no newer and no fewer.
LEMMA SameRules ==
    ASSUME ThIInv
    PROVE  Newer(frules, frules) /\ Fewer(frules, frules)
  BY ThTypes DEF Newer, Fewer

\* The commit of a template.
LEMMA WriteTemplateHolds ==
    ASSUME ThIInv, NEW q \in Slots, WriteTemplate(q)
    PROVE  ThIInv'
<1> DEFINE w == themeReq[q]
<1>1. /\ w \in TemplateWrite /\ w.row.live /\ TemplateOK(w.row)
      /\ w.t \in Templates /\ w.row \in ColorTemplate
  BY ThTypes, RequestKinds DEF WriteTemplate, ThIInv, ThemeRequestOK, TemplateWrite
<1>2. \/ UNCHANGED templates
      \/ templates' = [templates EXCEPT ![w.t] = w.row]
  BY DEF WriteTemplate
<1>3. /\ templates' \in [Templates -> TemplateRow]
      /\ \A t \in Templates : templates'[t] = templates[t] \/ templates'[t] = w.row
  BY <1>1, <1>2, ThTypes DEF TemplateRow
<1>4. \A t \in Templates : TemplateOK(templates'[t]) /\ (templates[t].live => templates'[t].live)
  BY <1>1, <1>3 DEF ThIInv
<1>5. \A c \in FRules \ late : frules[c].live => templates'[frules[c].template].live
  <2>1. \A c \in FRules : frules[c].live => frules[c].template \in Templates
    BY ThTypes DEF ConditionalFormattingRule
  <2> QED
    BY <1>4, <2>1 DEF ThIInv
<1>6. ThemeEnd(q) /\ UNCHANGED <<frules, scale, collided, late>>
  BY DEF WriteTemplate
<1>7. /\ ScaleOK(scale) /\ late \in SUBSET FRules
      /\ frules \in [FRules -> RuleRow] /\ \A c \in FRules : RuleOK(frules[c])
  BY DEF ThIInv, ThTyped
<1> QED
  BY <1>3, <1>4, <1>5, <1>6, <1>7, SameRules, FewerHolds

\* What a deletion makes of a row.
LEMMA DroppedIs ==
    /\ \A row \in ColorTemplate : /\ Dropped(row) \in ColorTemplate /\ ~Dropped(row).live
                                  /\ Dropped(row).version = row.version + 1
    /\ \A row \in ConditionalFormattingRule :
          /\ Dropped(row) \in ConditionalFormattingRule /\ ~Dropped(row).live
          /\ Dropped(row).version = row.version + 1
<1>1. ASSUME NEW row \in ColorTemplate
      PROVE  /\ Dropped(row) \in ColorTemplate /\ ~Dropped(row).live
             /\ Dropped(row).version = row.version + 1
  <2>1. PICK n \in Nat : n = row.version + 1
    BY DEF ColorTemplate
  <2>2. Dropped(row) = [row EXCEPT !.live = FALSE, !.version = n]
    BY <2>1 DEF Dropped
  <2> QED
    BY <2>1, <2>2 DEF ColorTemplate
<1>2. PICK D : ConditionalFormattingRule =
         [live : BOOLEAN, template : Templates, order : Nat, version : Nat, doc : D]
  BY DEF ConditionalFormattingRule
<1>3. ASSUME NEW row \in ConditionalFormattingRule
      PROVE  /\ Dropped(row) \in ConditionalFormattingRule /\ ~Dropped(row).live
             /\ Dropped(row).version = row.version + 1
  <2>1. PICK n \in Nat : n = row.version + 1
    BY <1>2
  <2>2. Dropped(row) = [row EXCEPT !.live = FALSE, !.version = n]
    BY <2>1 DEF Dropped
  <2> QED
    BY <1>2, <2>1, <2>2
<1> QED
  BY <1>1, <1>3

\* A row that was deleted is in order.
LEMMA DroppedOK ==
    /\ \A row \in ColorTemplate : TemplateOK(Dropped(row))
    /\ \A row \in ConditionalFormattingRule : RuleOK(Dropped(row))
<1>1. \A row \in ColorTemplate : row.version \in Nat
  BY DEF ColorTemplate
<1>2. \A row \in ConditionalFormattingRule : row.version \in Nat
  BY DEF ConditionalFormattingRule
<1> QED
  BY <1>1, <1>2, DroppedIs DEF TemplateOK, RuleOK

\* The commit of a template's deletion: the rules that were not among those the
\* request read are late.
LEMMA DropTemplateHolds ==
    ASSUME ThIInv, NEW q \in Slots, DropTemplate(q)
    PROVE  ThIInv'
<1> DEFINE w == themeReq[q]
           lands == /\ w.version = templates[w.t].version
                    /\ \A c \in DOMAIN w.rules : w.rules[c] = frules[c].version
<1>1. /\ w.t \in Templates /\ w.version \in Nat \ {0} /\ DOMAIN w.rules \subseteq FRules
      /\ \A c \in DOMAIN w.rules : w.rules[c] \in Nat \ {0}
  <2>1. w \in TemplateDrop
    BY ThTypes, RequestKinds DEF DropTemplate
  <2> QED
    BY <2>1 DEF TemplateDrop
<1>2. /\ ThemeEnd(q) /\ UNCHANGED <<scale, collided>>
      /\ templates' = IF lands THEN [templates EXCEPT ![w.t] = Dropped(@)] ELSE templates
      /\ frules' = IF lands THEN [c \in FRules |-> IF c \in DOMAIN w.rules THEN Dropped(frules[c])
                                                   ELSE frules[c]] ELSE frules
      /\ late' = IF lands THEN late \cup (_live_rules(w.t) \ DOMAIN w.rules) ELSE late
  BY DEF DropTemplate
<1>3. /\ ScaleOK(scale) /\ late \in SUBSET FRules
      /\ frules \in [FRules -> RuleRow] /\ \A c \in FRules : RuleOK(frules[c])
      /\ templates \in [Templates -> TemplateRow] /\ \A t \in Templates : TemplateOK(templates[t])
      /\ \A c \in FRules \ late : frules[c].live => templates[frules[c].template].live
  BY DEF ThIInv, ThTyped
<1>4. CASE ~lands
  <2>1. UNCHANGED <<templates, frules, scale, collided, late>>
    BY <1>2, <1>4
  <2> QED
    BY <1>2, <1>3, <2>1, SameRules, FewerHolds
<1>5. CASE lands
  <2>1. templates[w.t] \in ColorTemplate
    BY <1>1, <1>5, ThTypes
  <2>2. \A c \in DOMAIN w.rules : frules[c] \in ConditionalFormattingRule
    BY <1>1, <1>5, ThTypes
  <2>3. /\ templates' = [templates EXCEPT ![w.t] = Dropped(@)]
        /\ frules' = [c \in FRules |-> IF c \in DOMAIN w.rules THEN Dropped(frules[c]) ELSE frules[c]]
        /\ late' = late \cup (_live_rules(w.t) \ DOMAIN w.rules)
    BY <1>2, <1>5
  <2>4. /\ templates' \in [Templates -> TemplateRow]
        /\ \A t \in Templates : TemplateOK(templates'[t])
        /\ \A t \in Templates : t # w.t => templates'[t] = templates[t]
    BY <1>1, <1>3, <2>1, <2>3, DroppedIs, DroppedOK DEF TemplateRow
  <2>5. /\ frules' \in [FRules -> RuleRow] /\ \A c \in FRules : RuleOK(frules'[c])
    BY <1>3, <2>2, <2>3, DroppedIs, DroppedOK DEF RuleRow
  <2>6. Newer(frules, frules') /\ Fewer(frules, frules')
    <3> SUFFICES ASSUME NEW c \in FRules
                 PROVE  /\ frules[c].version <= frules'[c].version
                        /\ frules[c].version = frules'[c].version => frules'[c] = frules[c]
                        /\ frules'[c].live => /\ frules[c].live
                                              /\ frules'[c].template = frules[c].template
                                              /\ frules'[c].order = frules[c].order
      BY DEF Newer, Fewer
    <3>1. frules[c].version \in Nat
      BY ThTypes
    <3>2. CASE c \in DOMAIN w.rules
      <4>1. frules'[c].version = frules[c].version + 1 /\ ~frules'[c].live
        BY <2>2, <2>3, <3>2, DroppedIs
      <4> QED
        BY <3>1, <4>1
    <3>3. CASE c \notin DOMAIN w.rules
      BY <2>3, <3>1, <3>3
    <3> QED
      BY <3>2, <3>3
  <2>7. late' \in SUBSET FRules
    BY <1>3, <2>3 DEF _live_rules
  <2>8. ASSUME NEW c \in FRules \ late', frules'[c].live
        PROVE  templates'[frules'[c].template].live
    <3>1. c \notin DOMAIN w.rules /\ frules'[c] = frules[c] /\ c \notin _live_rules(w.t) /\ c \notin late
      BY <2>2, <2>3, <2>8, DroppedIs
    <3>2. frules[c].live /\ frules[c].template # w.t /\ frules[c].template \in Templates
      BY <2>8, <3>1, ThTypes DEF _live_rules, ConditionalFormattingRule
    <3> QED
      BY <1>3, <2>4, <3>1, <3>2
  <2> QED
    BY <1>2, <1>3, <2>4, <2>5, <2>6, <2>7, <2>8, FewerHolds
<1> QED
  BY <1>4, <1>5

\* The commit of the type scale.
LEMMA WriteScaleHolds ==
    ASSUME ThIInv, NEW q \in Slots, WriteScale(q)
    PROVE  ThIInv'
<1>1. /\ ThemeEnd(q) /\ UNCHANGED <<templates, frules, collided, late>>
      /\ scale' = scale \/ scale' = [steps |-> themeReq[q].steps, version |-> scale.version + 1]
      /\ themeReq[q].pc = "scale"
  BY DEF WriteScale
<1>2. /\ ScaleOK(scale) /\ late \in SUBSET FRules
      /\ frules \in [FRules -> RuleRow] /\ \A c \in FRules : RuleOK(frules[c])
      /\ templates \in [Templates -> TemplateRow] /\ \A t \in Templates : TemplateOK(templates[t])
      /\ \A c \in FRules \ late : frules[c].live => templates[frules[c].template].live
  BY DEF ThIInv, ThTyped
<1>3. ScaleOK(scale')
  BY <1>1, <1>2 DEF ThIInv, ThemeRequestOK, ScaleOK
<1> QED
  BY <1>1, <1>2, <1>3, SameRules, FewerHolds

\* The commit of one rule's deletion.
LEMMA DropRuleHolds ==
    ASSUME ThIInv, NEW q \in Slots, DropRule(q)
    PROVE  ThIInv'
<1> DEFINE w == themeReq[q]
<1>1. w.c \in FRules /\ w.version \in Nat \ {0}
  <2>1. w \in RuleDrop
    BY ThTypes, RequestKinds DEF DropRule
  <2> QED
    BY <2>1 DEF RuleDrop
<1>2. /\ ThemeEnd(q) /\ UNCHANGED <<templates, scale, collided, late>>
      /\ frules' = IF w.version = frules[w.c].version
                   THEN [frules EXCEPT ![w.c] = Dropped(@)] ELSE frules
  BY DEF DropRule
<1>3. /\ ScaleOK(scale) /\ late \in SUBSET FRules
      /\ frules \in [FRules -> RuleRow] /\ \A c \in FRules : RuleOK(frules[c])
      /\ templates \in [Templates -> TemplateRow] /\ \A t \in Templates : TemplateOK(templates[t])
      /\ \A c \in FRules \ late : frules[c].live => templates[frules[c].template].live
  BY DEF ThIInv, ThTyped
<1>4. CASE w.version # frules[w.c].version
  <2>1. UNCHANGED frules
    BY <1>2, <1>4
  <2> QED
    BY <1>2, <1>3, <2>1, SameRules, FewerHolds
<1>5. CASE w.version = frules[w.c].version
  <2>1. frules[w.c] \in ConditionalFormattingRule
    BY <1>1, <1>5, ThTypes
  <2>2. frules' = [frules EXCEPT ![w.c] = Dropped(@)]
    BY <1>2, <1>5
  <2>3. /\ frules' \in [FRules -> RuleRow] /\ \A c \in FRules : RuleOK(frules'[c])
        /\ \A c \in FRules : c # w.c => frules'[c] = frules[c]
        /\ ~frules'[w.c].live /\ frules'[w.c].version = frules[w.c].version + 1
    BY <1>1, <1>3, <2>1, <2>2, DroppedIs, DroppedOK DEF RuleRow
  <2>4. Newer(frules, frules') /\ Fewer(frules, frules')
    <3>1. \A c \in FRules : frules[c].version \in Nat
      BY ThTypes
    <3> QED
      BY <1>1, <2>3, <3>1 DEF Newer, Fewer
  <2>5. \A c \in FRules \ late' : frules'[c].live => templates'[frules'[c].template].live
    BY <1>2, <1>3, <2>3
  <2> QED
    BY <1>2, <1>3, <2>3, <2>4, <2>5, FewerHolds
<1> QED
  BY <1>4, <1>5

\* What passes the gate is a stored rule document, and the grid's own check
\* passes it.
LEMMA GateIs ==
    ASSUME NEW doc, rule_errors(doc) = {}
    PROVE  /\ doc.operator \in CONDITION_OPERATORS /\ doc.effect \in FORMATTING_EFFECTS
           /\ doc.slot \in STATUS_COLOR_SLOTS /\ doc.field # "blank"
           /\ validate_formatting_rule(doc)
<1>1. doc.field # "blank" /\ doc.effect \in FORMATTING_EFFECTS /\ doc.slot \in STATUS_COLOR_SLOTS
  BY DEF rule_errors
<1>2. doc.operator \in CONDITION_OPERATORS /\ _condition_value_errors(doc.operator, doc.value) = {}
  BY DEF rule_errors
<1>3. (doc.operator \in PRESENCE_OPERATORS) = (doc.value = "null")
  BY <1>2 DEF _condition_value_errors
<1> QED
  BY <1>1, <1>2, <1>3 DEF validate_formatting_rule

\* The commit of one rule's document.
LEMMA WriteRuleHolds ==
    ASSUME ThIInv, NEW q \in Slots, WriteRule(q)
    PROVE  ThIInv'
<1> DEFINE w == themeReq[q]
           old == frules[w.c]
           doc == Columns(old.doc, w)
<1>1. /\ w.c \in FRules /\ w.version \in Nat \ {0} /\ w.merged \in GatedDocument
  <2>1. w \in RulePatch
    BY ThTypes, RequestKinds DEF WriteRule
  <2> QED
    BY <2>1 DEF RulePatch
<1>2. /\ ThemeEnd(q) /\ UNCHANGED <<templates, scale, collided, late>>
      /\ frules' = IF w.version = old.version
                   THEN [frules EXCEPT ![w.c].doc = Columns(@, w), ![w.c].version = @ + 1]
                   ELSE frules
      /\ w.pc = "rule"
  BY DEF WriteRule
<1>3. /\ ScaleOK(scale) /\ late \in SUBSET FRules
      /\ frules \in [FRules -> RuleRow] /\ \A c \in FRules : RuleOK(frules[c])
      /\ templates \in [Templates -> TemplateRow] /\ \A t \in Templates : TemplateOK(templates[t])
      /\ \A c \in FRules \ late : frules[c].live => templates[frules[c].template].live
  BY DEF ThIInv, ThTyped
<1>4. CASE w.version # old.version
  <2>1. UNCHANGED frules
    BY <1>2, <1>4
  <2> QED
    BY <1>2, <1>3, <2>1, SameRules, FewerHolds
<1>5. CASE w.version = old.version
  <2>1. old \in ConditionalFormattingRule /\ old.version \in Nat
    BY <1>1, <1>5, ThTypes
  <2>2. rule_errors(doc) = {}
    BY <1>2, <1>5 DEF ThIInv, ThemeRequestOK, PatchOK
  <2> DEFINE D == [field : STRING, operator : CONDITION_OPERATORS, value : STRING,
                   effect : FORMATTING_EFFECTS, slot : STATUS_COLOR_SLOTS]
  <2>3. ConditionalFormattingRule =
           [live : BOOLEAN, template : Templates, order : Nat, version : Nat, doc : D]
    BY DEF ConditionalFormattingRule
  <2>4. doc \in D
    <3>1. old.doc \in D
      BY <2>1 DEF ConditionalFormattingRule
    <3>2. doc = [f \in DOMAIN old.doc |-> IF f \in w.columns THEN w.merged[f] ELSE old.doc[f]]
      BY DEF Columns
    <3>3. /\ DOMAIN old.doc = {"field", "operator", "value", "effect", "slot"}
          /\ old.doc.field \in STRING /\ old.doc.value \in STRING
          /\ w.merged.field \in STRING /\ w.merged.value \in STRING
      BY <1>1, <3>1 DEF GatedDocument
    <3>4. /\ doc = [f \in {"field", "operator", "value", "effect", "slot"} |-> doc[f]]
          /\ doc.field \in STRING /\ doc.value \in STRING
      BY <3>2, <3>3
    <3>5. /\ doc.operator \in CONDITION_OPERATORS /\ doc.effect \in FORMATTING_EFFECTS
          /\ doc.slot \in STATUS_COLOR_SLOTS
      BY <2>2, GateIs
    <3> HIDE DEF doc
    <3> QED
      BY <3>4, <3>5
  <2> HIDE DEF doc, D
  <2>5. PICK n \in Nat : n = old.version + 1
    BY <2>1
  <2>6. PICK row : row = [old EXCEPT !.doc = doc, !.version = n]
    OBVIOUS
  <2>7. /\ row \in ConditionalFormattingRule /\ row.version = old.version + 1 /\ row.doc = doc
        /\ row.live = old.live /\ row.template = old.template /\ row.order = old.order
    BY <2>1, <2>3, <2>5, <2>4, <2>6
  <2>8. frules' = [frules EXCEPT ![w.c] = row]
    BY <1>1, <2>1, <2>5, <1>2, <1>3, <1>5, <2>6 DEF doc
  <2>9. RuleOK(row)
    <3>1. RuleOK(old)
      BY <1>1, <1>3
    <3> QED
      BY <2>1, <2>2, <2>7, <3>1 DEF RuleOK
  <2>10. /\ frules' \in [FRules -> RuleRow] /\ \A c \in FRules : RuleOK(frules'[c])
         /\ \A c \in FRules : c # w.c => frules'[c] = frules[c]
         /\ frules'[w.c] = row
    BY <1>1, <1>3, <2>7, <2>8, <2>9 DEF RuleRow
  <2>11. Newer(frules, frules') /\ Fewer(frules, frules')
    <3>1. \A c \in FRules : frules[c].version \in Nat
      BY ThTypes
    <3> QED
      BY <1>1, <2>7, <2>10, <3>1 DEF Newer, Fewer
  <2>12. \A c \in FRules \ late' : frules'[c].live => templates'[frules'[c].template].live
    <3> SUFFICES ASSUME NEW c \in FRules \ late, frules'[c].live
                 PROVE  templates[frules'[c].template].live
      BY <1>2
    <3>1. frules[c].live /\ frules'[c].template = frules[c].template
      BY <2>11 DEF Fewer
    <3> QED
      BY <1>3, <3>1
  <2> QED
    BY <1>2, <1>3, <2>10, <2>11, <2>12, FewerHolds
<1> QED
  BY <1>4, <1>5

\* A reorder whose rules are as it read them moves none to a place past all of them.
LEMMA ReorderReaches ==
    ASSUME ThIInv, NEW p \in Slots, themeReq[p].pc = "order", IsCurrent(themeReq[p], frules),
           NEW i \in themeReq[p].moved
    PROVE  /\ i \in Nat \ {0}
           /\ \E c \in RulesIn(frules, themeReq[p].t) : i <= frules[c].order
<1>1. themeReq[p] \in RuleReorder
  BY ThTypes, RequestKinds
<1>2. ReorderOK(themeReq[p], frules)
  BY DEF ThIInv, ThemeRequestOK
<1> QED
  BY <1>1, <1>2 DEF ReorderOK, RuleReorder

\* The rules after a rule was added to a template.
IsAdded(new, c, row) == new = [frules EXCEPT ![c] = row]

\* What they are.
LEMMA AddedRules ==
    ASSUME ThIInv, NEW c \in FRules, frules[c].version = 0,
           NEW row \in ConditionalFormattingRule, row.live, row.version > 0,
           NEW new, IsAdded(new, c, row)
    PROVE  /\ new \in [FRules -> RuleRow]
           /\ Newer(frules, new)
           /\ \A t \in Templates : RulesIn(new, t) =
                 IF t = row.template THEN RulesIn(frules, t) \cup {c} ELSE RulesIn(frules, t)
           /\ \A t : c \notin RulesIn(frules, t)
<1>1. /\ frules \in [FRules -> RuleRow] /\ \A d \in FRules : frules[d].version \in Nat
      /\ ~frules[c].live
  BY ThTypes
<1>2. row.version \in Nat
  BY DEF ConditionalFormattingRule
<1>4. /\ new \in [FRules -> RuleRow] /\ new[c] = row
      /\ \A d \in FRules : d # c => new[d] = frules[d]
  BY <1>1 DEF RuleRow, IsAdded
<1>5. Newer(frules, new)
  BY <1>1, <1>2, <1>4 DEF Newer
<1>6. ASSUME NEW t \in Templates
      PROVE  RulesIn(new, t) = IF t = row.template THEN RulesIn(frules, t) \cup {c}
                               ELSE RulesIn(frules, t)
  BY <1>1, <1>4 DEF RulesIn
<1>7. \A t : c \notin RulesIn(frules, t)
  BY <1>1 DEF RulesIn
<1> QED
  BY <1>4, <1>5, <1>6, <1>7

\* The commit of a new rule: where it is alone, its order is past all of its
\* template's, so that it does not find it taken, and no reorder that is alone
\* gives its place to another.
LEMMA WriteNewRuleHolds ==
    ASSUME ThIInv, NEW q \in Slots, WriteNewRule(q)
    PROVE  ThIInv'
<1> DEFINE w == themeReq[q]
           taken == OrderIsTaken(w.row.template, w.row.order, {})
<1>1. /\ w.pc = "newRule" /\ w.c \in FRules /\ w.t \in Templates /\ w.alone \in BOOLEAN
      /\ w.row \in ConditionalFormattingRule /\ w.row.order \in Nat
  <2>1. w.pc = "newRule" /\ w \in RuleAppend
    BY ThTypes, RequestKinds DEF WriteNewRule
  <2> QED
    BY <2>1 DEF RuleAppend, ConditionalFormattingRule
<1>2. /\ w.row.live /\ w.row.template = w.t /\ RuleOK(w.row) /\ w.row.version > 0
      /\ w.alone => \A c \in RulesIn(frules, w.t) : frules[c].order < w.row.order
  BY <1>1 DEF ThIInv, ThemeRequestOK, AppendOK
<1>3. /\ ThemeEnd(q) /\ UNCHANGED <<templates, scale>>
      /\ frules' = IF taken \/ frules[w.c].version # 0 THEN frules
                   ELSE [frules EXCEPT ![w.c] = w.row]
      /\ collided' = (collided \/ (taken /\ w.alone))
      /\ late' = IF templates[w.row.template].live THEN late ELSE late \cup {w.c}
  BY DEF WriteNewRule
<1>4. /\ ScaleOK(scale) /\ late \in SUBSET FRules
      /\ frules \in [FRules -> RuleRow] /\ \A c \in FRules : RuleOK(frules[c])
      /\ templates \in [Templates -> TemplateRow] /\ \A t \in Templates : TemplateOK(templates[t])
      /\ \A c \in FRules \ late : frules[c].live => templates[frules[c].template].live
      /\ Listed(frules) /\ ~collided
      /\ \A p \in Slots : ThemeRequestOK(themeReq[p], frules)
  BY DEF ThIInv, ThTyped
<1>5. \A c \in FRules : frules[c].live => frules[c].order \in Nat
  BY ThTypes DEF ConditionalFormattingRule
<1>6. taken <=> \E c \in RulesIn(frules, w.t) : frules[c].order = w.row.order
  BY <1>2 DEF OrderIsTaken, _live_rules, RulesIn
<1> HIDE DEF taken
<1>7. ~collided'
  <2>1. \A c \in RulesIn(frules, w.t) : frules[c].order \in Nat
    BY <1>5 DEF RulesIn
  <2>2. ~(taken /\ w.alone)
    BY <1>1, <1>2, <1>6, <2>1
  <2> QED
    BY <1>3, <1>4, <2>2
<1>8. late' \in SUBSET FRules /\ late \subseteq late'
  BY <1>1, <1>3, <1>4
<1>9. CASE UNCHANGED frules
  <2>1. \A p \in Slots : ThemeRequestOK(themeReq[p], frules')
    BY <1>4, <1>9
  <2>2. \A c \in FRules \ late' : frules[c].live => templates[frules[c].template].live
    BY <1>4, <1>8
  <2> QED
    BY <1>3, <1>4, <1>7, <1>8, <1>9, <2>1, <2>2, ThemeEndHolds
<1>10. CASE ~taken /\ frules[w.c].version = 0 /\ frules' = [frules EXCEPT ![w.c] = w.row]
  <2>1. /\ frules' \in [FRules -> RuleRow] /\ Newer(frules, frules')
        /\ \A t \in Templates : RulesIn(frules', t) =
              IF t = w.t THEN RulesIn(frules, t) \cup {w.c} ELSE RulesIn(frules, t)
        /\ \A t : w.c \notin RulesIn(frules, t)
    <3>1. /\ frules[w.c].version = 0 /\ IsAdded(frules', w.c, w.row)
          /\ w.c \in FRules /\ w.row \in ConditionalFormattingRule /\ w.row.live
          /\ w.row.version > 0 /\ w.row.template = w.t
      BY <1>1, <1>2, <1>10 DEF IsAdded
    <3> HIDE DEF w
    <3>2. /\ frules' \in [FRules -> RuleRow] /\ Newer(frules, frules')
          /\ \A t : w.c \notin RulesIn(frules, t)
      BY <3>1, AddedRules
    <3>3. \A t \in Templates : RulesIn(frules', t) =
              IF t = w.row.template THEN RulesIn(frules, t) \cup {w.c} ELSE RulesIn(frules, t)
      BY <3>1, AddedRules
    <3> QED
      BY <3>1, <3>2, <3>3
  <2>2. frules'[w.c] = w.row /\ \A c \in FRules : c # w.c => frules'[c] = frules[c]
    BY <1>1, <1>4, <1>10
  <2>3. \A c \in FRules : RuleOK(frules'[c])
    BY <1>2, <1>4, <2>2
  <2>4. Listed(frules')
    <3> SUFFICES ASSUME NEW c \in FRules, NEW d \in FRules, c # d, frules'[c].live, frules'[d].live,
                        frules'[c].template = frules'[d].template
                 PROVE  frules'[c].order # frules'[d].order
      BY DEF Listed
    <3>1. CASE c # w.c /\ d # w.c
      BY <1>4, <2>2, <3>1 DEF Listed
    <3>2. CASE c = w.c
      BY <1>2, <1>6, <1>10, <2>2, <3>2 DEF RulesIn
    <3>3. CASE d = w.c
      BY <1>2, <1>6, <1>10, <2>2, <3>3 DEF RulesIn
    <3> QED
      BY <3>1, <3>2, <3>3
  <2>5. ASSUME NEW c \in FRules \ late', frules'[c].live
        PROVE  templates[frules'[c].template].live
    <3>1. CASE c = w.c
      BY <1>3, <2>2, <2>5, <3>1
    <3>2. CASE c # w.c
      BY <1>4, <1>8, <2>2, <2>5, <3>2
    <3> QED
      BY <3>1, <3>2
  <2>6. ASSUME NEW p \in Slots, p # q PROVE ThemeRequestOK(themeReq[p], frules')
    <3> DEFINE v == themeReq[p]
    <3>1. /\ v \in ThemeRequest /\ ThemeRequestOK(v, frules) /\ Apart(v, w) /\ Apart(w, v)
      BY <1>4, <2>6, ThTypes DEF ThIInv
    <3>2. AppendOK(v, frules')
      <4> SUFFICES ASSUME v.pc = "newRule" PROVE AppendOK(v, frules')
        BY DEF AppendOK
      <4>1. AppendOK(v, frules) /\ v.t \in Templates
        BY <3>1, RequestKinds DEF ThemeRequestOK, RuleAppend
      <4>2. CASE v.t = w.t
        <5>1. ~v.alone
          BY <1>1, <3>1, <4>2 DEF Apart
        <5> QED
          BY <4>1, <5>1 DEF AppendOK
      <4>3. CASE v.t # w.t
        <5>1. RulesIn(frules', v.t) = RulesIn(frules, v.t)
              /\ \A c \in RulesIn(frules, v.t) : frules'[c] = frules[c]
          BY <2>1, <2>2, <4>1, <4>3 DEF RulesIn
        <5> QED
          BY <4>1, <5>1 DEF AppendOK
      <4> QED
        BY <4>2, <4>3
    <3>3. ASSUME v.pc = "order", v.alone, IsCurrent(v, frules'),
                 NEW c \in RulesIn(frules', v.t) \ MovedRules(v)
          PROVE  frules'[c].order \notin v.moved
      <4>1. v \in RuleReorder /\ v.t \in Templates /\ ReorderOK(v, frules)
        BY <3>1, <3>3, RequestKinds DEF ThemeRequestOK, RuleReorder
      <4>2. IsCurrent(v, frules)
        <5> SUFFICES ASSUME NEW d \in MovedRules(v) PROVE v.versions[d] = frules[d].version
          BY DEF IsCurrent
        <5>1. /\ d \in DOMAIN v.versions /\ v.versions[d] <= frules[d].version
              /\ v.versions[d] = frules'[d].version
          BY <3>3, <4>1 DEF ReorderOK, IsCurrent
        <5>2. d \in FRules /\ v.versions[d] \in Nat
          BY <4>1, <5>1 DEF RuleReorder
        <5>3. frules[d].version \in Nat /\ frules[d].version <= frules'[d].version
          BY <2>1, <5>2, ThTypes DEF Newer
        <5> QED
          BY <5>1, <5>2, <5>3
      <4>3. CASE c \in RulesIn(frules, v.t)
        <5>1. frules'[c] = frules[c]
          BY <2>1, <2>2, <4>3 DEF RulesIn
        <5> QED
          BY <3>3, <4>1, <4>2, <4>3, <5>1 DEF ReorderOK
      <4>4. CASE c \notin RulesIn(frules, v.t)
        <5>1. c = w.c /\ v.t = w.t
          BY <2>1, <3>3, <4>1, <4>4
        <5>2. w.alone
          BY <1>1, <3>1, <3>3, <5>1 DEF Apart
        <5> SUFFICES ASSUME w.row.order \in v.moved PROVE FALSE
          BY <2>2, <5>1
        <5>3. \E d \in RulesIn(frules, w.t) : w.row.order <= frules[d].order
          BY <2>6, <3>3, <4>2, <5>1, ReorderReaches
        <5> QED
          BY <1>1, <1>2, <1>5, <5>2, <5>3 DEF RulesIn
      <4> QED
        BY <4>3, <4>4
    <3> QED
      BY <2>1, <3>1, <3>2, <3>3, RequestKept
  <2>7. /\ templates' \in [Templates -> TemplateRow]
        /\ \A t \in Templates : TemplateOK(templates'[t])
        /\ ScaleOK(scale')
        /\ \A c \in FRules \ late' : frules'[c].live => templates'[frules'[c].template].live
    BY <1>3, <1>4, <2>5
  <2>8. ThemeEnd(q)
    BY <1>3
  <2> QED
    BY <1>7, <1>8, <2>1, <2>3, <2>4, <2>6, <2>7, <2>8, ThemeEndHolds
<1> QED
  BY <1>3, <1>9, <1>10

\* The position that a reorder gives a rule.
PositionOf(w, c) == CHOOSE i \in w.moved : w.order[i] = c

\* A rule at its new position.
AtPosition(row, i) == [row EXCEPT !.order = i, !.version = @ + 2]

\* What the move makes of a row.
LEMMA AtPositionIs ==
    ASSUME NEW row \in ConditionalFormattingRule, NEW i \in Nat
    PROVE  /\ AtPosition(row, i) \in ConditionalFormattingRule
           /\ AtPosition(row, i).order = i /\ AtPosition(row, i).version = row.version + 2
           /\ AtPosition(row, i).live = row.live /\ AtPosition(row, i).template = row.template
           /\ AtPosition(row, i).doc = row.doc
<1>1. PICK D : ConditionalFormattingRule =
         [live : BOOLEAN, template : Templates, order : Nat, version : Nat, doc : D]
  BY DEF ConditionalFormattingRule
<1>2. PICK n \in Nat : n = row.version + 2
  BY <1>1
<1>3. AtPosition(row, i) = [row EXCEPT !.order = i, !.version = n]
  BY <1>2 DEF AtPosition
<1> QED
  BY <1>1, <1>2, <1>3

\* Each moved rule has one position.
LEMMA PositionIs ==
    ASSUME NEW w, \A i, j \in w.moved : w.order[i] = w.order[j] => i = j
    PROVE  /\ \A c \in MovedRules(w) : PositionOf(w, c) \in w.moved /\ w.order[PositionOf(w, c)] = c
           /\ \A i \in w.moved : w.order[i] \in MovedRules(w) /\ PositionOf(w, w.order[i]) = i
<1>1. ASSUME NEW c \in MovedRules(w)
      PROVE  PositionOf(w, c) \in w.moved /\ w.order[PositionOf(w, c)] = c
  BY DEF MovedRules, PositionOf
<1>2. ASSUME NEW i \in w.moved
      PROVE  w.order[i] \in MovedRules(w) /\ PositionOf(w, w.order[i]) = i
  BY <1>1 DEF MovedRules
<1> QED
  BY <1>1, <1>2

\* The commit of a reorder: where it is alone, no other rule is in one of its
\* positions, and no append's order is reached.
LEMMA WriteOrderHolds ==
    ASSUME ThIInv, NEW q \in Slots, WriteOrder(q)
    PROVE  ThIInv'
<1> DEFINE w == themeReq[q]
           current == IsCurrent(w, frules)
           taken == \E i \in w.moved :
                       OrderIsTaken(frules[w.order[i]].template, i, MovedRules(w))
<1>1. /\ w.pc = "order" /\ w \in RuleReorder /\ w.t \in Templates /\ w.alone \in BOOLEAN
      /\ w.moved \subseteq Nat \ {0} /\ DOMAIN w.versions \subseteq FRules
      /\ \A c \in DOMAIN w.versions : w.versions[c] \in Nat \ {0}
  <2>1. w.pc = "order" /\ w \in RuleReorder
    BY ThTypes, RequestKinds DEF WriteOrder
  <2> QED
    BY <2>1 DEF RuleReorder
<1>2. ReorderOK(w, frules)
  BY DEF ThIInv, ThemeRequestOK
<1>3. /\ \A i, j \in w.moved : w.order[i] = w.order[j] => i = j
      /\ MovedRules(w) \subseteq DOMAIN w.versions
      /\ current =>
            /\ MovedRules(w) \subseteq RulesIn(frules, w.t)
            /\ w.alone => \A c \in RulesIn(frules, w.t) \ MovedRules(w) :
                              frules[c].order \notin w.moved
  BY <1>1, <1>2 DEF ReorderOK
<1>4. /\ ThemeEnd(q) /\ UNCHANGED <<templates, scale, late>>
      /\ frules' = IF current /\ ~taken
                   THEN [c \in FRules |-> IF c \in MovedRules(w)
                                          THEN AtPosition(frules[c], PositionOf(w, c))
                                          ELSE frules[c]]
                   ELSE frules
      /\ collided' = (collided \/ (current /\ taken /\ w.alone))
  BY DEF WriteOrder, MovedRules, IsCurrent, PositionOf, AtPosition
<1>5. /\ ScaleOK(scale) /\ late \in SUBSET FRules
      /\ frules \in [FRules -> RuleRow] /\ \A c \in FRules : RuleOK(frules[c])
      /\ templates \in [Templates -> TemplateRow] /\ \A t \in Templates : TemplateOK(templates[t])
      /\ \A c \in FRules \ late : frules[c].live => templates[frules[c].template].live
      /\ Listed(frules) /\ ~collided
      /\ \A p \in Slots : ThemeRequestOK(themeReq[p], frules)
  BY DEF ThIInv, ThTyped
<1>6. current => \A i \in w.moved : w.order[i] \in RulesIn(frules, w.t)
  BY <1>3, PositionIs
<1>7. current => (taken <=> \E i \in w.moved, c \in RulesIn(frules, w.t) \ MovedRules(w) :
                               frules[c].order = i)
  <2> SUFFICES ASSUME current
               PROVE  taken <=> \E i \in w.moved, c \in RulesIn(frules, w.t) \ MovedRules(w) :
                                   frules[c].order = i
    OBVIOUS
  <2>1. \A i \in w.moved : frules[w.order[i]].template = w.t
    BY <1>6 DEF RulesIn
  <2>2. _live_rules(w.t) = RulesIn(frules, w.t)
    BY DEF _live_rules, RulesIn
  <2>3. taken <=> \E i \in w.moved : OrderIsTaken(w.t, i, MovedRules(w))
    BY <2>1
  <2> QED
    BY <2>2, <2>3 DEF OrderIsTaken
<1> HIDE DEF taken
<1>8. ~collided'
  BY <1>1, <1>3, <1>4, <1>5, <1>7
<1>9. CASE ~(current /\ ~taken)
  <2>1. UNCHANGED frules
    BY <1>4, <1>9
  <2>2. /\ frules' \in [FRules -> RuleRow] /\ \A c \in FRules : RuleOK(frules'[c])
        /\ Listed(frules') /\ late' \in SUBSET FRules
        /\ templates' \in [Templates -> TemplateRow]
        /\ \A t \in Templates : TemplateOK(templates'[t])
        /\ ScaleOK(scale')
        /\ \A c \in FRules \ late' : frules'[c].live => templates'[frules'[c].template].live
        /\ \A p \in Slots : ThemeRequestOK(themeReq[p], frules')
    BY <1>4, <1>5, <2>1
  <2>3. ThemeEnd(q)
    BY <1>4
  <2> QED
    BY <1>8, <2>2, <2>3, ThemeEndHolds
<1>10. CASE current /\ ~taken
  <2> DEFINE moved == MovedRules(w)
  <2>1. /\ moved \subseteq RulesIn(frules, w.t) /\ moved \subseteq FRules
        /\ \A c \in moved : PositionOf(w, c) \in w.moved /\ PositionOf(w, c) \in Nat \ {0}
        /\ \A c, d \in moved : PositionOf(w, c) = PositionOf(w, d) => c = d
    <3>1. \A c \in moved : PositionOf(w, c) \in w.moved /\ w.order[PositionOf(w, c)] = c
      BY <1>3, PositionIs
    <3> QED
      BY <1>1, <1>3, <1>10, <3>1 DEF RulesIn
  <2>2. \A c \in FRules : frules'[c] = IF c \in moved THEN AtPosition(frules[c], PositionOf(w, c))
                                      ELSE frules[c]
    BY <1>4, <1>10
  <2>3. ASSUME NEW c \in moved
        PROVE  /\ frules[c] \in ConditionalFormattingRule
               /\ frules'[c] \in ConditionalFormattingRule /\ frules'[c].order = PositionOf(w, c)
               /\ frules'[c].version = frules[c].version + 2
               /\ frules'[c].live /\ frules[c].live
               /\ frules'[c].template = w.t /\ frules[c].template = w.t
               /\ frules'[c].doc = frules[c].doc
    <3>1. /\ c \in FRules /\ frules[c].live /\ frules[c].template = w.t
          /\ PositionOf(w, c) \in Nat
      BY <2>1 DEF RulesIn
    <3>2. frules[c] \in ConditionalFormattingRule
      BY <3>1, ThTypes
    <3>3. PICK row, i : row = frules[c] /\ i = PositionOf(w, c)
      OBVIOUS
    <3>4. frules'[c] = AtPosition(row, i)
      BY <2>2, <3>1, <3>3
    <3>5. row \in ConditionalFormattingRule /\ i \in Nat
      BY <3>1, <3>2, <3>3
    <3>6. /\ AtPosition(row, i) \in ConditionalFormattingRule
          /\ AtPosition(row, i).order = i /\ AtPosition(row, i).version = row.version + 2
          /\ AtPosition(row, i).live = row.live /\ AtPosition(row, i).template = row.template
          /\ AtPosition(row, i).doc = row.doc
      BY <3>5, AtPositionIs
    <3> QED
      BY <3>1, <3>2, <3>3, <3>4, <3>6
  <2>4. frules' \in [FRules -> RuleRow]
    <3>1. frules' = [c \in FRules |-> IF c \in moved THEN AtPosition(frules[c], PositionOf(w, c))
                                      ELSE frules[c]]
      BY <1>4, <1>10
    <3>2. \A c \in FRules : frules'[c] \in RuleRow
      BY <1>5, <2>2, <2>3 DEF RuleRow
    <3> QED
      BY <3>1, <3>2
  <2>5. ASSUME NEW c \in FRules PROVE RuleOK(frules'[c])
    <3>1. CASE c \in moved
      <4>1. frules'[c].version # 0
        BY <2>3, <3>1 DEF ConditionalFormattingRule
      <4>2. rule_errors(frules[c].doc) = {}
        BY <1>5, <2>3, <3>1 DEF RuleOK
      <4> QED
        BY <2>1, <2>3, <3>1, <4>1, <4>2 DEF RuleOK
    <3>2. CASE c \notin moved
      BY <1>5, <2>2, <3>2
    <3> QED
      BY <3>1, <3>2
  <2>6. Newer(frules, frules')
    <3>1. \A c \in FRules : frules[c].version \in Nat
      BY ThTypes
    <3> QED
      BY <2>2, <2>3, <3>1 DEF Newer
  <2>7. ASSUME NEW c \in FRules
        PROVE  /\ frules'[c].live <=> frules[c].live
               /\ frules'[c].live => frules'[c].template = frules[c].template
    BY <2>2, <2>3
  <2>8. Listed(frules')
    <3> SUFFICES ASSUME NEW c \in FRules, NEW d \in FRules, c # d, frules'[c].live, frules'[d].live,
                        frules'[c].template = frules'[d].template
                 PROVE  frules'[c].order # frules'[d].order
      BY DEF Listed
    <3>1. CASE c \in moved /\ d \in moved
      BY <2>1, <2>3, <3>1
    <3>2. ASSUME NEW a \in moved, NEW b \in FRules \ moved, frules'[b].live,
                 frules'[a].template = frules'[b].template
          PROVE  frules'[a].order # frules'[b].order
      <4>1. frules'[b] = frules[b] /\ b \in RulesIn(frules, w.t) \ moved
        BY <2>2, <2>3, <3>2 DEF RulesIn
      <4> QED
        BY <1>7, <1>10, <2>1, <2>3, <4>1
    <3>3. CASE c \notin moved /\ d \notin moved
      BY <1>5, <2>2, <3>3 DEF Listed
    <3> QED
      BY <3>1, <3>2, <3>3
  <2>9. \A c \in FRules \ late' : frules'[c].live => templates'[frules'[c].template].live
    BY <1>4, <1>5, <2>7
  <2>10. ASSUME NEW p \in Slots, p # q PROVE ThemeRequestOK(themeReq[p], frules')
    <3> DEFINE v == themeReq[p]
    <3>1. /\ v \in ThemeRequest /\ ThemeRequestOK(v, frules) /\ Apart(v, w) /\ Apart(w, v)
      BY <1>5, <2>10, ThTypes DEF ThIInv
    <3>2. AppendOK(v, frules')
      <4> SUFFICES ASSUME v.pc = "newRule" PROVE AppendOK(v, frules')
        BY DEF AppendOK
      <4>1. AppendOK(v, frules) /\ v \in RuleAppend /\ v.row.order \in Nat
        BY <3>1, RequestKinds DEF ThemeRequestOK, RuleAppend, ConditionalFormattingRule
      <4>2. ASSUME v.alone, NEW c \in RulesIn(frules', v.t) PROVE frules'[c].order < v.row.order
        <5>1. c \in RulesIn(frules, v.t)
          BY <2>7 DEF RulesIn
        <5>2. \A d \in RulesIn(frules, v.t) : frules[d].order < v.row.order
          BY <4>1, <4>2 DEF AppendOK
        <5>3. CASE c \in moved
          <6>1. v.t = w.t /\ PositionOf(w, c) \in w.moved /\ PositionOf(w, c) \in Nat
            BY <2>1, <2>3, <5>1, <5>3 DEF RulesIn
          <6>2. PICK d \in RulesIn(frules, w.t) : PositionOf(w, c) <= frules[d].order
            BY <1>1, <1>10, <6>1, ReorderReaches
          <6>3. frules[d].order \in Nat
            BY <6>2, ThTypes DEF RulesIn, ConditionalFormattingRule
          <6> QED
            BY <2>3, <4>1, <5>2, <5>3, <6>1, <6>2, <6>3
        <5>4. CASE c \notin moved
          <6>1. frules'[c] = frules[c]
            BY <2>2, <5>1, <5>4 DEF RulesIn
          <6> QED
            BY <5>1, <5>2, <6>1
        <5> QED
          BY <5>3, <5>4
      <4> QED
        BY <4>1, <4>2 DEF AppendOK
    <3>3. ASSUME v.pc = "order", v.alone, IsCurrent(v, frules'),
                 NEW c \in RulesIn(frules', v.t) \ MovedRules(v)
          PROVE  frules'[c].order \notin v.moved
      <4>1. v \in RuleReorder /\ ReorderOK(v, frules)
        BY <3>1, <3>3, RequestKinds DEF ThemeRequestOK
      <4>2. v.t # w.t
        BY <1>1, <3>1, <3>3 DEF Apart
      <4>3. IsCurrent(v, frules)
        <5> SUFFICES ASSUME NEW d \in MovedRules(v) PROVE v.versions[d] = frules[d].version
          BY DEF IsCurrent
        <5>1. /\ d \in DOMAIN v.versions /\ v.versions[d] <= frules[d].version
              /\ v.versions[d] = frules'[d].version
          BY <3>3, <4>1 DEF ReorderOK, IsCurrent
        <5>2. d \in FRules /\ v.versions[d] \in Nat
          BY <4>1, <5>1 DEF RuleReorder
        <5>3. frules[d].version \in Nat /\ frules[d].version <= frules'[d].version
          BY <2>6, <5>2, ThTypes DEF Newer
        <5> QED
          BY <5>1, <5>2, <5>3
      <4>4. c \notin moved /\ c \in RulesIn(frules, v.t)
        BY <2>3, <2>7, <4>2 DEF RulesIn
      <4>5. frules'[c] = frules[c]
        BY <2>2, <4>4 DEF RulesIn
      <4> QED
        BY <3>3, <4>1, <4>3, <4>4, <4>5 DEF ReorderOK
    <3> QED
      BY <2>4, <2>6, <3>1, <3>2, <3>3, RequestKept
  <2>11. /\ templates' \in [Templates -> TemplateRow]
         /\ \A t \in Templates : TemplateOK(templates'[t])
         /\ ScaleOK(scale') /\ late' \in SUBSET FRules
         /\ ThemeEnd(q)
    BY <1>4, <1>5
  <2> QED
    BY <1>8, <2>4, <2>5, <2>8, <2>9, <2>10, <2>11, ThemeEndHolds
<1> QED
  BY <1>9, <1>10

\* A template document that passes the gates is one a screen can paint.
LEMMA DocGate ==
    ASSUME ThIInv, NEW doc, color_slot_errors(doc.colors) = {},
           font_slot_errors(doc.fonts, Steps) = {}, type_step_choice_errors(doc.choice, Steps) = {}
    PROVE  DocFits(doc)
<1>1. Steps = ToSet(TYPE_SCALE_STEPS)
  BY DEF ThIInv, ThTyped, ScaleOK, Steps
<1>2. DOMAIN doc.fonts = FONT_SLOTS
  BY DEF font_slot_errors, _exact_key_errors
<1>3. doc.choice \in Steps
  BY DEF type_step_choice_errors
<1> QED
  BY <1>1, <1>2, <1>3 DEF DocFits

\* A template is written.
LEMMA create_templateHolds ==
    ASSUME ThIInv, NEW q \in Slots, NEW t \in Templates, NEW u \in ThemeUsers, NEW name \in TNames,
           NEW doc \in TemplateDocs, create_template(q, t, u, name, doc)
    PROVE  ThIInv'
<1> DEFINE row == [live |-> TRUE, owner |-> u, name |-> name, doc |-> doc, version |-> 1]
           w == [pc |-> "newTemplate", t |-> t, row |-> row]
<1>1. DocFits(doc) /\ ThemeBegin(q, w)
  BY DocGate DEF create_template
<1>2. row \in ColorTemplate /\ TemplateOK(row) /\ row.live
  BY <1>1 DEF ColorTemplate, TemplateOK
<1>3. w \in TemplateWrite /\ w.row = row /\ w.pc = "newTemplate"
  BY <1>2 DEF TemplateWrite
<1> HIDE DEF w, row
<1>4. w \in ThemeRequest /\ ThemeRequestOK(w, frules)
  BY <1>2, <1>3 DEF ThemeRequest, ThemeRequestOK, AppendOK, PatchOK, ReorderOK
<1> QED
  BY <1>1, <1>4, ThemeBeginHolds

\* A template is changed.
LEMMA patch_templateHolds ==
    ASSUME ThIInv, NEW q \in Slots, NEW t \in Templates, NEW u \in ThemeUsers, NEW name \in TNames,
           NEW doc \in TemplateDocs, patch_template(q, t, u, name, doc)
    PROVE  ThIInv'
<1>1. templates[t] \in ColorTemplate /\ templates[t].live
  BY ThTypes DEF patch_template, Writable, _visible_template, LiveTemplates
<1>2. PICK n \in Nat : n = templates[t].version + 1
  BY ThTypes
<1>3. PICK row : row = [templates[t] EXCEPT !.name = name, !.doc = doc, !.version = n]
  OBVIOUS
<1> DEFINE w == [pc |-> "template", t |-> t, row |-> row]
<1>4. DocFits(doc) /\ ThemeBegin(q, w)
  BY <1>2, <1>3, DocGate DEF patch_template
<1>5. row \in ColorTemplate /\ row.live /\ row.doc = doc /\ row.version = n
  BY <1>1, <1>3 DEF ColorTemplate
<1>6. TemplateOK(row)
  <2>1. n # 0
    BY <1>2, ThTypes
  <2> QED
    BY <1>4, <1>5, <2>1 DEF TemplateOK
<1>7. w \in TemplateWrite /\ w.row = row /\ w.pc = "template"
  BY <1>5 DEF TemplateWrite
<1> HIDE DEF w
<1>8. w \in ThemeRequest /\ ThemeRequestOK(w, frules)
  BY <1>5, <1>6, <1>7 DEF ThemeRequest, ThemeRequestOK, AppendOK, PatchOK, ReorderOK
<1> QED
  BY <1>4, <1>8, ThemeBeginHolds

\* A template is deleted with the rules it has.
LEMMA delete_templateHolds ==
    ASSUME ThIInv, NEW q \in Slots, NEW t \in Templates, NEW u \in ThemeUsers,
           delete_template(q, t, u)
    PROVE  ThIInv'
<1> DEFINE rules == [c \in _live_rules(t) |-> frules[c].version]
           w == [pc |-> "dropTemplate", t |-> t, version |-> templates[t].version, rules |-> rules]
<1>1. templates[t].version \in Nat \ {0}
  BY ThTypes DEF delete_template, Writable, _visible_template, LiveTemplates
<1>2. rules \in [_live_rules(t) -> Nat \ {0}] /\ _live_rules(t) \in SUBSET FRules
  BY ThTypes DEF _live_rules
<1> HIDE DEF rules
<1>3. w \in TemplateDrop /\ w.pc = "dropTemplate"
  BY <1>1, <1>2 DEF TemplateDrop
<1>4. ThemeBegin(q, w)
  BY DEF delete_template, rules
<1> HIDE DEF w
<1>5. w \in ThemeRequest /\ ThemeRequestOK(w, frules)
  BY <1>3 DEF ThemeRequest, ThemeRequestOK, AppendOK, PatchOK, ReorderOK
<1> QED
  BY <1>4, <1>5, ThemeBeginHolds

\* The type scale is changed.
LEMMA patch_type_scaleHolds ==
    ASSUME ThIInv, NEW q \in Slots, NEW steps \in ScaleDocs,
           patch_type_scale(q, steps)
    PROVE  ThIInv'
<1> DEFINE w == [pc |-> "scale", steps |-> steps, version |-> scale.version]
<1>1. w \in ScaleWrite /\ w.pc = "scale" /\ w.steps = steps
  BY DEF ScaleWrite, ThIInv, ThTyped, ScaleOK
<1>2. ThemeBegin(q, w) /\ scale_step_errors(steps) = {}
  BY DEF patch_type_scale
<1>3. DOMAIN steps = ToSet(TYPE_SCALE_STEPS)
  BY <1>2 DEF scale_step_errors, _exact_key_errors
<1> HIDE DEF w
<1>4. w \in ThemeRequest /\ ThemeRequestOK(w, frules)
  BY <1>1, <1>3 DEF ThemeRequest, ThemeRequestOK, AppendOK, PatchOK, ReorderOK
<1> QED
  BY <1>2, <1>4, ThemeBeginHolds
\* A finite set has an element whose number is the largest: of the sets of those
\* that are larger than one of them, one includes no other.
LEMMA LargestExists ==
    ASSUME NEW S, IsFiniteSet(S), S # {}, NEW f, \A x \in S : f[x] \in Int
    PROVE  \E x \in S : \A y \in S : f[y] <= f[x]
<1> DEFINE Above(x) == {y \in S : f[y] > f[x]}
           R == StrictSubsetOrdering(S)
<1>1. PICK U : U = {Above(x) : x \in S}
  OBVIOUS
<1>2. U \subseteq SUBSET S /\ U # {}
  BY <1>1
<1>3. IsWellFoundedOn(R, SUBSET S)
  BY SubsetsWellFounded
<1> HIDE DEF R
<1>4. PICK least \in U : \A other \in U : ~(<<other, least>> \in R)
  BY <1>2, <1>3, WFMin
<1>5. PICK x \in S : least = Above(x)
  BY <1>1, <1>4
<1>6. ASSUME NEW y \in S PROVE f[y] <= f[x]
  <2> SUFFICES ASSUME f[x] < f[y] PROVE FALSE
    OBVIOUS
  <2>1. Above(y) \subseteq Above(x) /\ y \in Above(x) /\ y \notin Above(y)
    OBVIOUS
  <2>2. Above(y) \in U /\ Above(y) \in SUBSET S /\ least \in SUBSET S /\ Above(y) # least
    BY <1>1, <1>2, <1>5, <2>1
  <2> HIDE DEF Above
  <2>3. <<Above(y), least>> \in R
    BY <1>5, <2>1, <2>2 DEF R, StrictSubsetOrdering
  <2> QED
    BY <1>4, <2>2, <2>3
<1> QED
  BY <1>6

\* The next order of a template is past those of all its rules.
LEMMA NextOrderIs ==
    ASSUME ThIInv, NEW t
    PROVE  /\ NextOrder(t) \in Nat /\ NextOrder(t) > 0
           /\ \A c \in RulesIn(frules, t) : frules[c].order < NextOrder(t)
<1>1. PICK S : S = RulesIn(frules, t)
  OBVIOUS
<1>2. S \in SUBSET FRules /\ _live_rules(t) = S
  BY <1>1 DEF RulesIn, _live_rules
<1>3. \A c \in S : frules[c].order \in Nat
  BY <1>1, ThTypes DEF RulesIn, ConditionalFormattingRule
<1>4. CASE S = {}
  BY <1>1, <1>2, <1>4 DEF NextOrder
<1>5. CASE S # {}
  <2>1. IsFiniteSet(S)
    BY <1>2, ThemingAssumption, FS_Subset
  <2>2. PICK f : f = [c \in S |-> frules[c].order]
    OBVIOUS
  <2>3. PICK c \in S : \A d \in S : f[d] <= f[c]
    BY <1>3, <1>5, <2>1, <2>2, LargestExists
  <2>4. PICK orders : orders = {frules[d].order : d \in S}
    OBVIOUS
  <2>5. \E o \in orders : \A p \in orders : p <= o
    BY <2>2, <2>3, <2>4
  <2>6. PICK m : m = NewestOrder(orders)
    OBVIOUS
  <2>7. m \in orders /\ \A p \in orders : p <= m
    BY <2>5, <2>6 DEF NewestOrder
  <2>8. NextOrder(t) = m + 1
    BY <1>2, <1>5, <2>4, <2>6 DEF NextOrder
  <2>9. \A p \in orders : p \in Nat
    BY <1>3, <2>4
  <2>10. \A d \in RulesIn(frules, t) : frules[d].order \in orders
    BY <1>1, <2>4
  <2> QED
    BY <2>7, <2>8, <2>9, <2>10
<1> QED
  BY <1>4, <1>5

\* A rule is appended.
LEMMA create_ruleHolds ==
    ASSUME ThIInv, NEW q \in Slots, NEW c \in FRules, NEW t \in Templates, NEW u \in ThemeUsers,
           NEW doc \in RuleDocs, create_rule(q, c, t, u, doc)
    PROVE  ThIInv'
<1>1. PICK n \in Nat : n = NextOrder(t)
  BY NextOrderIs
<1> DEFINE row == [live |-> TRUE, template |-> t, order |-> n, doc |-> doc, version |-> 1]
           w == [pc |-> "newRule", c |-> c, t |-> t, alone |-> TRUE, row |-> row]
<1>2. ThemeBegin(q, w) /\ rule_errors(doc) = {}
  BY <1>1 DEF create_rule
<1>3. doc \in RuleDocument
  BY ThemingAssumption
<1>4. doc \in [field : STRING, operator : CONDITION_OPERATORS, value : STRING,
               effect : FORMATTING_EFFECTS, slot : STATUS_COLOR_SLOTS]
  BY <1>2, <1>3, GateIs DEF RuleDocument
<1>5. /\ row \in ConditionalFormattingRule /\ row.live /\ row.template = t /\ row.order = n
      /\ row.doc = doc /\ row.version = 1
  BY <1>4 DEF ConditionalFormattingRule
<1> HIDE DEF row
<1>6. /\ w \in RuleAppend /\ w.pc = "newRule" /\ w.row = row /\ w.t = t
  BY <1>5 DEF RuleAppend
<1> HIDE DEF w
<1>7. RuleOK(row) /\ \A d \in RulesIn(frules, t) : frules[d].order < row.order
  BY <1>1, <1>2, <1>5, NextOrderIs DEF RuleOK
<1>8. AppendOK(w, frules)
  BY <1>5, <1>6, <1>7 DEF AppendOK
<1>9. w \in ThemeRequest /\ ThemeRequestOK(w, frules)
  BY <1>6, <1>8 DEF ThemeRequest, ThemeRequestOK, PatchOK, ReorderOK
<1> QED
  BY <1>2, <1>9, ThemeBeginHolds

\* A rule's document is changed.
LEMMA patch_ruleHolds ==
    ASSUME ThIInv, NEW q \in Slots, NEW c \in FRules, NEW u \in ThemeUsers,
           NEW sent \in RulePatches, patch_rule(q, c, u, sent)
    PROVE  ThIInv'
<1> DEFINE old == frules[c].doc
           merged == [f \in DOMAIN old |-> IF f \in DOMAIN sent THEN sent[f] ELSE old[f]]
           columns == {f \in DOMAIN merged : merged[f] # old[f]}
           w == [pc |-> "rule", c |-> c, version |-> frules[c].version, columns |-> columns,
                 merged |-> merged]
<1>1. ThemeBegin(q, w) /\ rule_errors(merged) = {} /\ frules[c].live
  BY DEF patch_rule
<1>2. frules[c] \in ConditionalFormattingRule /\ frules[c].version \in Nat \ {0}
  BY <1>1, ThTypes
<1>3. old \in [field : STRING, operator : CONDITION_OPERATORS, value : STRING,
               effect : FORMATTING_EFFECTS, slot : STATUS_COLOR_SLOTS]
  BY <1>2 DEF ConditionalFormattingRule
<1> DEFINE Fields == {"field", "operator", "value", "effect", "slot"}
<1>4. DOMAIN old = Fields /\ old.field \in STRING /\ old.value \in STRING
  BY <1>3
<1>5. \A f \in DOMAIN sent : sent[f] \in STRING
  BY ThemingAssumption
<1>6. /\ merged = [f \in Fields |-> merged[f]]
      /\ merged.field \in STRING /\ merged.value \in STRING
  BY <1>4, <1>5
<1>7. columns \in SUBSET Fields
  BY <1>6
<1>8. Columns(old, [columns |-> columns, merged |-> merged]) = merged
  BY DEF Columns
<1> HIDE DEF merged, columns
<1>9. merged \in GatedDocument
  <2>1. /\ merged.operator \in CONDITION_OPERATORS /\ merged.effect \in FORMATTING_EFFECTS
        /\ merged.slot \in STATUS_COLOR_SLOTS
    BY <1>1, GateIs
  <2> QED
    BY <1>6, <2>1 DEF GatedDocument
<1>10. /\ w \in RulePatch /\ w.pc = "rule" /\ w.c = c /\ w.version = frules[c].version
       /\ w.columns = columns /\ w.merged = merged
  BY <1>2, <1>7, <1>9 DEF RulePatch
<1> HIDE DEF w
<1>11. Columns(old, w) = merged
  BY <1>8, <1>10 DEF Columns
<1>12. PatchOK(w, frules)
  BY <1>1, <1>2, <1>10, <1>11 DEF PatchOK
<1>13. w \in ThemeRequest /\ ThemeRequestOK(w, frules)
  BY <1>10, <1>12 DEF ThemeRequest, ThemeRequestOK, AppendOK, ReorderOK
<1> QED
  BY <1>1, <1>13, ThemeBeginHolds

\* A rule is deleted.
LEMMA delete_ruleHolds ==
    ASSUME ThIInv, NEW q \in Slots, NEW c \in FRules, NEW u \in ThemeUsers, delete_rule(q, c, u)
    PROVE  ThIInv'
<1> DEFINE w == [pc |-> "dropRule", c |-> c, version |-> frules[c].version]
<1>1. ThemeBegin(q, w) /\ frules[c].version \in Nat \ {0}
  BY ThTypes DEF delete_rule
<1>2. w \in RuleDrop /\ w.pc = "dropRule"
  BY <1>1 DEF RuleDrop
<1> HIDE DEF w
<1>3. w \in ThemeRequest /\ ThemeRequestOK(w, frules)
  BY <1>2 DEF ThemeRequest, ThemeRequestOK, AppendOK, PatchOK, ReorderOK
<1> QED
  BY <1>1, <1>3, ThemeBeginHolds

\* Of distinct orders, the moved ones reach as far as any position that is given:
\* the rules up to that position cannot all have orders before it.
LEMMA OrdersReach ==
    ASSUME NEW n \in Nat, NEW f, \A i \in 1 .. n : f[i] \in Nat \ {0},
           \A i, j \in 1 .. n : f[i] = f[j] => i = j,
           NEW i \in 1 .. n
    PROVE  \E j \in 1 .. n : (f[j] # j /\ i <= f[j]) \/ f[i] = i
<1> SUFFICES ASSUME f[i] # i, \A j \in 1 .. n : f[j] # j => f[j] < i PROVE FALSE
  OBVIOUS
<1>1. PICK g : g = [j \in 1 .. i |-> f[j]]
  OBVIOUS
<1>2. \A j \in 1 .. i : j \in 1 .. n /\ f[j] \in 1 .. (i - 1)
  OBVIOUS
<1>3. PICK S, T : S = 1 .. i /\ T = 1 .. (i - 1) /\ g \in [S -> T]
  BY <1>1, <1>2
<1>4. IsFiniteSet(S) /\ IsFiniteSet(T) /\ Cardinality(T) < Cardinality(S)
  <2>1. i \in Int /\ i - 1 \in Int /\ 1 \in Int /\ i >= 1
    OBVIOUS
  <2>2. IsFiniteSet(S) /\ Cardinality(S) = IF 1 > i THEN 0 ELSE i - 1 + 1
    BY <1>3, <2>1, FS_Interval
  <2>3. IsFiniteSet(T) /\ Cardinality(T) = IF 1 > i - 1 THEN 0 ELSE i - 1 - 1 + 1
    BY <1>3, <2>1, FS_Interval
  <2> QED
    BY <2>1, <2>2, <2>3
<1>5. \E a, b \in S : a # b /\ g[a] = g[b]
  <2> HIDE <1>1, <1>2
  <2>1. g \in [S -> T]
    BY <1>3
  <2> QED
    BY <1>4, <2>1, FS_PigeonHole
<1>6. PICK a, b \in S : a # b /\ g[a] = g[b]
  BY <1>5
<1>7. f[a] = f[b] /\ a \in 1 .. n /\ b \in 1 .. n
  BY <1>1, <1>2, <1>3, <1>6
<1> QED
  BY <1>6, <1>7

\* The rules of a template are reordered.
LEMMA put_rule_orderHolds ==
    ASSUME ThIInv, NEW q \in Slots, NEW t \in Templates, NEW u \in ThemeUsers,
           NEW order \in [1 .. Cardinality(_live_rules(t)) -> FRules], put_rule_order(q, t, u, order)
    PROVE  ThIInv'
<1>1. PICK n \in Nat : n = Cardinality(_live_rules(t))
  <2>1. _live_rules(t) \in SUBSET FRules
    BY DEF _live_rules
  <2> QED
    BY <2>1, ThemingAssumption, FS_Subset, FS_CardinalityType
<1>2. order \in [1 .. n -> FRules] /\ DOMAIN order = 1 .. n
  BY <1>1
<1>3. /\ \A i, j \in 1 .. n : order[i] = order[j] => i = j
      /\ {order[i] : i \in 1 .. n} = RulesIn(frules, t)
  <2>1. rule_order_errors(order, _live_rules(t)) = {}
    BY DEF put_rule_order
  <2>2. IsInjective(order) /\ ToSet(order) = _live_rules(t)
    BY <2>1 DEF rule_order_errors
  <2> QED
    BY <1>2, <2>2 DEF IsInjective, ToSet, _live_rules, RulesIn
<1> DEFINE moved == {i \in 1 .. n : frules[order[i]].order # i}
           versions == [c \in ToSet(order) |-> frules[c].version]
           w == [pc |-> "order", t |-> t, alone |-> TRUE, order |-> order, moved |-> moved,
                 versions |-> versions]
<1>4. ThemeBegin(q, w)
  BY <1>2 DEF put_rule_order
<1>5. ToSet(order) = RulesIn(frules, t)
  BY <1>2, <1>3 DEF ToSet
<1>6. /\ \A c \in RulesIn(frules, t) : /\ c \in FRules /\ frules[c].order \in Nat \ {0}
                                       /\ frules[c].version \in Nat \ {0}
                                       /\ frules[c].live /\ frules[c].template = t
  BY ThTypes DEF ThIInv, RuleOK, RulesIn, ConditionalFormattingRule
<1>7. versions \in [RulesIn(frules, t) -> Nat \ {0}] /\ RulesIn(frules, t) \in SUBSET FRules
      /\ \A c \in RulesIn(frules, t) : versions[c] = frules[c].version
  BY <1>5, <1>6
<1>8. moved \in SUBSET (Nat \ {0}) /\ moved \subseteq DOMAIN order
  BY <1>2
<1>9. ASSUME NEW i \in moved
      PROVE  \E j \in moved : i <= frules[order[j]].order
  <2>1. PICK f : f = [j \in 1 .. n |-> frules[order[j]].order]
    OBVIOUS
  <2>2. \A j \in 1 .. n : order[j] \in RulesIn(frules, t) /\ f[j] \in Nat \ {0}
    BY <1>3, <1>6, <2>1
  <2>3. \A j, k \in 1 .. n : f[j] = f[k] => j = k
    BY <1>3, <1>6, <2>1, <2>2 DEF ThIInv, Listed
  <2>4. i \in 1 .. n /\ f[i] # i
    BY <2>1
  <2>5. PICK j \in 1 .. n : f[j] # j /\ i <= f[j]
    BY <2>2, <2>3, <2>4, OrdersReach
  <2> QED
    BY <2>1, <2>5
<1>10. ASSUME NEW c \in RulesIn(frules, t), \A i \in moved : c # order[i]
       PROVE  frules[c].order \notin moved
  <2>1. PICK j \in 1 .. n : order[j] = c
    BY <1>3
  <2> QED
    BY <1>10, <2>1
<1> HIDE DEF moved, versions
<1>11. /\ w \in RuleReorder /\ w.pc = "order" /\ w.t = t /\ w.order = order /\ w.moved = moved
       /\ w.versions = versions
  BY <1>1, <1>2, <1>7, <1>8 DEF RuleReorder
<1> HIDE DEF w
<1>12. /\ MovedRules(w) = {order[i] : i \in moved}
       /\ MovedRules(w) \subseteq RulesIn(frules, t) /\ DOMAIN w.versions = RulesIn(frules, t)
  <2>1. MovedRules(w) = {order[i] : i \in moved}
    BY <1>11 DEF MovedRules
  <2>2. \A i \in moved : order[i] \in RulesIn(frules, t)
    BY <1>2, <1>3, <1>8
  <2>3. DOMAIN w.versions = RulesIn(frules, t)
    BY <1>7, <1>11
  <2> QED
    BY <2>1, <2>2, <2>3
<1>13. ReorderOK(w, frules)
  <2>1. \A i \in w.moved : \E c \in MovedRules(w) : i <= frules[c].order
    BY <1>9, <1>11, <1>12
  <2>2. \A c \in RulesIn(frules, w.t) \ MovedRules(w) : frules[c].order \notin w.moved
    BY <1>10, <1>11, <1>12
  <2>3. \A c \in MovedRules(w) : w.versions[c] <= frules[c].version
    BY <1>6, <1>7, <1>11, <1>12
  <2>4. \A i, j \in w.moved : w.order[i] = w.order[j] => i = j
    BY <1>2, <1>3, <1>8, <1>11
  <2> QED
    BY <1>8, <1>11, <1>12, <2>1, <2>2, <2>3, <2>4 DEF ReorderOK
<1>14. w \in ThemeRequest /\ ThemeRequestOK(w, frules)
  BY <1>11, <1>13 DEF ThemeRequest, ThemeRequestOK, AppendOK, PatchOK
<1> QED
  BY <1>4, <1>14, ThemeBeginHolds

\* A step that leaves the stored themes and their requests alone.
LEMMA SameThemesHold ==
    ASSUME ThIInv, UNCHANGED <<templates, frules, scale, themeReq, collided, late>>
    PROVE  ThIInv'
<1>1. /\ ThTyped' /\ Listed(frules') /\ ~collided'
      /\ (\A t \in Templates : TemplateOK(templates[t]))' /\ (\A c \in FRules : RuleOK(frules[c]))'
  BY DEF ThIInv, ThTyped
<1>2. (\A c \in FRules \ late : frules[c].live => templates[frules[c].template].live)'
  BY DEF ThIInv
<1>3. (\A q \in Slots : ThemeRequestOK(themeReq[q], frules))'
  BY DEF ThIInv
<1>4. (\A p, q \in Slots : p # q => Apart(themeReq[p], themeReq[q]))'
  BY DEF ThIInv
<1> QED
  BY <1>1, <1>2, <1>3, <1>4 DEF ThIInv

\* Every step of the theming keeps the invariant.
LEMMA ThInvStep ==
    ASSUME ThIInv, ThemeNext
    PROVE  ThIInv'
<1>1. ASSUME NEW q \in Slots, NEW t \in Templates, NEW u \in ThemeUsers, NEW name \in TNames,
             NEW doc \in TemplateDocs,
             create_template(q, t, u, name, doc) \/ patch_template(q, t, u, name, doc)
      PROVE  ThIInv'
  BY <1>1, create_templateHolds, patch_templateHolds
<1>2. ASSUME NEW q \in Slots, NEW t \in Templates, NEW u \in ThemeUsers, delete_template(q, t, u)
      PROVE  ThIInv'
  BY <1>2, delete_templateHolds
<1>3. ASSUME NEW q \in Slots, NEW c \in FRules, NEW t \in Templates, NEW u \in ThemeUsers,
             NEW doc \in RuleDocs, create_rule(q, c, t, u, doc)
      PROVE  ThIInv'
  BY <1>3, create_ruleHolds
<1>4. ASSUME NEW q \in Slots, NEW t \in Templates, NEW u \in ThemeUsers,
             NEW order \in [1 .. Cardinality(_live_rules(t)) -> FRules],
             put_rule_order(q, t, u, order)
      PROVE  ThIInv'
  BY <1>4, put_rule_orderHolds
<1>5. ASSUME NEW q \in Slots, NEW c \in FRules, NEW u \in ThemeUsers, NEW sent \in RulePatches,
             patch_rule(q, c, u, sent)
      PROVE  ThIInv'
  BY <1>5, patch_ruleHolds
<1>6. ASSUME NEW q \in Slots, NEW c \in FRules, NEW u \in ThemeUsers, delete_rule(q, c, u)
      PROVE  ThIInv'
  BY <1>6, delete_ruleHolds
<1>7. ASSUME NEW q \in Slots, NEW steps \in ScaleDocs, patch_type_scale(q, steps)
      PROVE  ThIInv'
  BY <1>7, patch_type_scaleHolds
<1>8. ASSUME NEW u \in ThemeUsers, ChooseTemplate(u) PROVE ThIInv'
  BY <1>8, SameThemesHold DEF ChooseTemplate
<1>9. ASSUME NEW q \in Slots,
             \/ WriteTemplate(q) \/ DropTemplate(q) \/ WriteScale(q) \/ WriteNewRule(q)
             \/ WriteRule(q) \/ DropRule(q) \/ WriteOrder(q)
      PROVE  ThIInv'
  BY <1>9, WriteTemplateHolds, DropTemplateHolds, WriteScaleHolds, WriteNewRuleHolds,
     WriteRuleHolds, DropRuleHolds, WriteOrderHolds
<1>10. FreeSlots \subseteq Slots
  BY DEF FreeSlots
<1> QED
  BY <1>1, <1>2, <1>3, <1>4, <1>5, <1>6, <1>7, <1>8, <1>9, <1>10 DEF ThemeNext, ThemeServe

\* The built-in document can be painted.
LEMMA BuiltinFits == DocFits(_builtin_org_default_slots)
<1>1. color_slot_errors(_builtin_org_default_slots.colors) = {}
  BY DEF _builtin_org_default_slots, color_slot_errors, _exact_key_errors, HexColor
<1>2. DOMAIN _builtin_org_default_slots.fonts = FONT_SLOTS /\ _builtin_org_default_slots.choice = "md"
  BY DEF _builtin_org_default_slots
<1>3. "md" \in ToSet(TYPE_SCALE_STEPS)
  <2>1. TYPE_SCALE_STEPS[3] = "md" /\ 3 \in DOMAIN TYPE_SCALE_STEPS
    BY DEF TYPE_SCALE_STEPS
  <2> QED
    BY <2>1 DEF ToSet
<1> QED
  BY <1>1, <1>2, <1>3 DEF DocFits

\* The rules of the seeded template are one document at successive orders.
SeedFor(t, n, rule) ==
    [c \in FRules |-> IF c > n THEN Absent ELSE
        [live |-> TRUE, template |-> t, order |-> c, doc |-> rule, version |-> 1]]

\* They are rules that hold together.
LEMMA SeededRules ==
    ASSUME NEW t \in Templates, NEW n \in Nat, NEW rule \in RuleDocs, rule_errors(rule) = {},
           NEW rules, rules = SeedFor(t, n, rule)
    PROVE  /\ rules \in [FRules -> RuleRow] /\ \A c \in FRules : RuleOK(rules[c])
           /\ Listed(rules) /\ \A c \in FRules : rules[c].live => rules[c].template = t
<1>1. FRules \subseteq Nat \ {0}
  <2>1. Cardinality(FRules) \in Nat
    BY ThemingAssumption, FS_CardinalityType
  <2> QED
    BY <2>1, ThemingAssumption
<1>2. rule \in [field : STRING, operator : CONDITION_OPERATORS, value : STRING,
                effect : FORMATTING_EFFECTS, slot : STATUS_COLOR_SLOTS]
  BY ThemingAssumption, GateIs DEF RuleDocument
<1>3. PICK D : D = [field : STRING, operator : CONDITION_OPERATORS, value : STRING,
                    effect : FORMATTING_EFFECTS, slot : STATUS_COLOR_SLOTS]
  OBVIOUS
<1>4. ConditionalFormattingRule =
         [live : BOOLEAN, template : Templates, order : Nat, version : Nat, doc : D]
  BY <1>3 DEF ConditionalFormattingRule
<1>5. ASSUME NEW c \in FRules
      PROVE  \/ rules[c] = Absent
             \/ /\ rules[c] \in ConditionalFormattingRule /\ rules[c].order = c
                /\ rules[c].version = 1 /\ rules[c].template = t /\ rules[c].doc = rule
  <2>1. c \in Nat
    BY <1>1
  <2> QED
    BY <1>2, <1>3, <1>4, <2>1 DEF SeedFor
<1>6. Absent.version = 0 /\ Absent.live \in BOOLEAN /\ ~Absent.live
  BY DEF Absent
<1>7. \A c \in FRules : rules[c] \in RuleRow /\ RuleOK(rules[c])
  BY <1>1, <1>5, <1>6 DEF RuleRow, RuleOK
<1>8. Listed(rules) /\ \A c \in FRules : rules[c].live => rules[c].template = t
  BY <1>5, <1>6 DEF Listed
<1>9. rules \in [FRules -> RuleRow]
  BY <1>7 DEF SeedFor
<1> QED
  BY <1>7, <1>8, <1>9

\* The seeded themes satisfy the invariant.
LEMMA ThInvInit == ThemeInit => ThIInv
<1> SUFFICES ASSUME ThemeInit PROVE ThIInv
  OBVIOUS
<1> DEFINE Seeded(owner, name) == [live |-> TRUE, owner |-> owner, name |-> name,
                                   doc |-> _builtin_org_default_slots, version |-> 1]
<1>1. PICK t \in Templates, owner \in ThemeUsers \cup {"system"}, name \in TNames :
         templates = [[x \in Templates |-> Absent] EXCEPT ![t] = Seeded(owner, name)]
  BY DEF ThemeInit
<1>2. PICK s \in {x \in Templates : templates[x].live}, n \in {0, SeedRules}, rule \in RuleDocs :
         /\ rule_errors(rule) = {} /\ _condition_field_errors(rule.field) = {}
         /\ frules = SeedFor(s, n, rule)
  BY DEF ThemeInit, SeedFor
<1>3. Absent.version = 0 /\ Absent.live \in BOOLEAN /\ ~Absent.live
  BY DEF Absent
<1>4. /\ templates \in [Templates -> TemplateRow]
      /\ \A x \in Templates : TemplateOK(templates[x])
  <2>1. PICK row : row = Seeded(owner, name)
    OBVIOUS
  <2>2. row \in ColorTemplate /\ row.version = 1 /\ row.doc = _builtin_org_default_slots
    BY <2>1 DEF ColorTemplate
  <2>3. TemplateOK(row) /\ TemplateOK(Absent)
    BY <1>3, <2>2, BuiltinFits DEF TemplateOK
  <2>4. \A x \in Templates : templates[x] = row \/ templates[x] = Absent
    BY <1>1, <2>1
  <2>5. DOMAIN templates = Templates /\ templates = [x \in Templates |-> templates[x]]
    BY <1>1
  <2> QED
    BY <2>2, <2>3, <2>4, <2>5 DEF TemplateRow
<1>5. s \in Templates /\ templates[s].live /\ n \in Nat
  BY ThemingAssumption
<1>6. /\ frules \in [FRules -> RuleRow] /\ \A c \in FRules : RuleOK(frules[c])
      /\ Listed(frules) /\ \A c \in FRules : frules[c].live => frules[c].template = s
  BY <1>2, <1>5, SeededRules
<1>7. themeReq = [q \in Slots |-> Idle] /\ ~collided /\ late = {}
  BY DEF ThemeInit
<1>8. ScaleOK(scale)
  <2>1. /\ scale.version = 1 /\ DOMAIN scale.steps = {"xs", "sm", "md", "lg", "xl"}
    BY DEF ThemeInit
  <2>2. /\ DOMAIN TYPE_SCALE_STEPS = 1 .. 5
        /\ TYPE_SCALE_STEPS[1] = "xs" /\ TYPE_SCALE_STEPS[2] = "sm" /\ TYPE_SCALE_STEPS[3] = "md"
        /\ TYPE_SCALE_STEPS[4] = "lg" /\ TYPE_SCALE_STEPS[5] = "xl"
    BY DEF TYPE_SCALE_STEPS
  <2>3. \A i \in 1 .. 5 : i = 1 \/ i = 2 \/ i = 3 \/ i = 4 \/ i = 5
    OBVIOUS
  <2>4. ToSet(TYPE_SCALE_STEPS) = {"xs", "sm", "md", "lg", "xl"}
    BY <2>2, <2>3 DEF ToSet
  <2> QED
    BY <2>1, <2>4 DEF ScaleOK
<1>9. ThTyped
  BY <1>4, <1>6, <1>7, <1>8 DEF ThTyped, ThemeRequest
<1>10. Idle.pc = "idle"
  BY DEF Idle
<1>11. /\ \A q \in Slots : ThemeRequestOK(themeReq[q], frules)
       /\ \A p, q \in Slots : p # q => Apart(themeReq[p], themeReq[q])
  BY <1>7, <1>10 DEF ThemeRequestOK, AppendOK, PatchOK, ReorderOK, Apart
<1> QED
  BY <1>4, <1>5, <1>6, <1>7, <1>9, <1>11 DEF ThIInv

\* What one rule of the list adds to the winners so far.
FirstMatch(won, c, record) ==
    IF frules[c].doc.effect \notin DOMAIN won /\ condition_matches(frules[c].doc, record)
    THEN [x \in DOMAIN won \cup {frules[c].doc.effect} |->
             IF x = frules[c].doc.effect THEN c ELSE won[x]]
    ELSE won

\* The positions in s of the rules that claim a target, and the targets claimed.
HitsIn(rules, record, s, x) ==
    {i \in s : frules[rules[i]].doc.effect = x /\ condition_matches(frules[rules[i]].doc, record)}
HitTargets(rules, record, s) == {frules[rules[i]].doc.effect : i \in
                                    {j \in s : condition_matches(frules[rules[j]].doc, record)}}
FirstOf(positions) == CHOOSE i \in positions : \A j \in positions : i <= j

\* The winners among the positions in s.
WinnersIn(rules, record, s) ==
    IF s = {} THEN <<>> ELSE
    [x \in HitTargets(rules, record, s) |-> rules[FirstOf(HitsIn(rules, record, s, x))]]

\* A set of positions has a first one and a last one.
LEMMA FirstAndLast ==
    ASSUME NEW n \in Nat, NEW s \in SUBSET (1 .. n), s # {}
    PROVE  /\ FirstOf(s) \in s /\ \A j \in s : FirstOf(s) <= j
           /\ Max(s) \in s /\ \A j \in s : j <= Max(s)
<1>1. IsFiniteSet(s)
  <2>1. IsFiniteSet(1 .. n)
    BY FS_Interval
  <2> QED
    BY <2>1, FS_Subset
<1>2. PICK f, g : f = [i \in s |-> i] /\ g = [i \in s |-> 0 - i]
  OBVIOUS
<1>3. \A i \in s : i \in Int /\ f[i] \in Int /\ g[i] \in Int
  BY <1>2
<1>4. PICK last \in s : \A j \in s : f[j] <= f[last]
  BY <1>1, <1>3, LargestExists
<1>5. PICK first \in s : \A j \in s : g[j] <= g[first]
  BY <1>1, <1>3, LargestExists
<1>6. /\ \E i \in s : \A j \in s : i <= j
      /\ \E i \in s : \A j \in s : i >= j
  BY <1>2, <1>3, <1>4, <1>5
<1>7. FirstOf(s) \in s /\ \A j \in s : FirstOf(s) <= j
  BY <1>6 DEF FirstOf
<1>8. Max(s) \in s /\ \A j \in s : Max(s) >= j
  BY <1>6 DEF Max
<1> QED
  BY <1>3, <1>7, <1>8

\* The last position of a set adds its rule to the winners among the others.
LEMMA WinnersStep ==
    ASSUME NEW rules, NEW record, NEW n \in Nat, NEW s \in SUBSET (1 .. n), s # {}
    PROVE  WinnersIn(rules, record, s) =
              FirstMatch(WinnersIn(rules, record, s \ {Max(s)}), rules[Max(s)], record)
<1>1. PICK m, r : m = Max(s) /\ r = s \ {m}
  OBVIOUS
<1>2. m \in s /\ r \in SUBSET (1 .. n) /\ s = r \cup {m} /\ \A i \in r : i < m
  <2>1. m \in s /\ \A i \in s : i <= m
    BY <1>1, FirstAndLast
  <2>2. r \in SUBSET (1 .. n) /\ s = r \cup {m} /\ m \in 1 .. n
    BY <1>1, <2>1
  <2>3. ASSUME NEW i \in r PROVE i < m
    <3>1. i \in s /\ i # m /\ i \in 1 .. n
      BY <1>1
    <3> QED
      BY <2>1, <2>2, <3>1
  <2>4. m \in s
    BY <2>1
  <2> QED
    BY <2>2, <2>3, <2>4
<1>3. PICK e, c : e = frules[c].doc.effect /\ c = rules[m]
  OBVIOUS
<1> DEFINE H(p, x) == HitsIn(rules, record, p, x)
           T(p) == HitTargets(rules, record, p)
           won == WinnersIn(rules, record, r)
           matches == condition_matches(frules[c].doc, record)
<1>4. /\ DOMAIN won = T(r) /\ \A x \in T(r) : won[x] = rules[FirstOf(H(r, x))]
      /\ won = [x \in T(r) |-> won[x]]
  <2>1. CASE r = {}
    <3>1. T(r) = {}
      BY <2>1 DEF HitTargets
    <3>2. won = <<>>
      BY <2>1 DEF WinnersIn
    <3> QED
      BY <3>1, <3>2
  <2>2. CASE r # {}
    BY <2>2 DEF WinnersIn
  <2> QED
    BY <2>1, <2>2
<1>5. \A x : H(s, x) = IF x = e /\ matches THEN H(r, x) \cup {m} ELSE H(r, x)
  BY <1>2, <1>3 DEF HitsIn
<1>6. T(s) = IF matches THEN T(r) \cup {e} ELSE T(r)
  BY <1>2, <1>3 DEF HitTargets
<1>7. \A p, x : (x \in T(p)) = (H(p, x) # {})
  BY DEF HitTargets, HitsIn
<1>8. \A p, x : H(p, x) \subseteq p
  BY DEF HitsIn
<1>9. FirstOf({m}) = m
  BY DEF FirstOf
<1>10. ASSUME e \in T(r), matches PROVE FirstOf(H(s, e)) = FirstOf(H(r, e))
  <2>1. PICK a, b : a = H(r, e) /\ b = H(s, e)
    OBVIOUS
  <2>2. a # {} /\ a \in SUBSET (1 .. n) /\ b \in SUBSET (1 .. n) /\ b = a \cup {m} /\ a \subseteq r
    BY <1>2, <1>5, <1>7, <1>8, <1>10, <2>1
  <2>3. /\ FirstOf(a) \in a /\ \A j \in a : FirstOf(a) <= j
        /\ FirstOf(b) \in b /\ \A j \in b : FirstOf(b) <= j
    BY <2>2, FirstAndLast
  <2>4. PICK i, j : i = FirstOf(a) /\ j = FirstOf(b)
    OBVIOUS
  <2>5. m \in Int /\ i \in Int /\ j \in Int /\ i < m /\ i \in b
    <3>1. i \in a /\ j \in b
      BY <2>3, <2>4
    <3>2. i \in r /\ m \in 1 .. n /\ i \in 1 .. n /\ j \in 1 .. n /\ i \in b
      BY <1>2, <2>2, <3>1
    <3> QED
      BY <1>2, <3>2
  <2>6. j <= i /\ j \in a
    BY <2>2, <2>3, <2>4, <2>5
  <2>7. FirstOf(a) = FirstOf(b)
    BY <2>3, <2>4, <2>5, <2>6
  <2> QED
    BY <2>1, <2>7
<1>11. WinnersIn(rules, record, s) = [x \in T(s) |-> rules[FirstOf(H(s, x))]]
  BY DEF WinnersIn
<1> HIDE DEF H, T, won, matches
<1>12. CASE e \notin T(r) /\ matches
  <2>1. T(s) = T(r) \cup {e} /\ H(s, e) = {m}
    BY <1>5, <1>6, <1>7, <1>12
  <2>2. \A x \in T(r) : H(s, x) = H(r, x)
    BY <1>5, <1>12
  <2>3. [x \in T(s) |-> rules[FirstOf(H(s, x))]] = [x \in T(r) \cup {e} |-> IF x = e THEN c ELSE won[x]]
    BY <1>3, <1>4, <1>9, <1>12, <2>1, <2>2
  <2>4. FirstMatch(won, c, record) = [x \in T(r) \cup {e} |-> IF x = e THEN c ELSE won[x]]
    BY <1>3, <1>4, <1>12 DEF FirstMatch, matches
  <2> QED
    BY <1>1, <1>3, <1>11, <2>3, <2>4 DEF won
<1>13. CASE ~(e \notin T(r) /\ matches)
  <2>1. T(s) = T(r) /\ \A x \in T(r) : FirstOf(H(s, x)) = FirstOf(H(r, x))
    BY <1>5, <1>6, <1>10, <1>13
  <2>2. [x \in T(s) |-> rules[FirstOf(H(s, x))]] = won
    BY <1>4, <2>1
  <2>3. FirstMatch(won, c, record) = won
    BY <1>3, <1>4, <1>13 DEF FirstMatch, matches
  <2> QED
    BY <1>1, <1>3, <1>11, <2>2, <2>3 DEF won
<1> QED
  BY <1>12, <1>13

\* The fold of the code gives the winners among all positions: the two cannot
\* differ first at any set of positions.
LEMMA FirstMatchIs ==
    ASSUME NEW rules, NEW record, NEW n \in Nat, DOMAIN rules = 1 .. n
    PROVE  _first_match_per_target(rules, record) = WinnersIn(rules, record, 1 .. n)
<1> DEFINE D == 1 .. n
           Folds(h) == h = [s \in SUBSET D |-> IF s = {} THEN <<>> ELSE
                               FirstMatch(h[s \ {Max(s)}], rules[Max(s)], record)]
           R == StrictSubsetOrdering(D)
<1>1. _first_match_per_target(rules, record) = (CHOOSE h : Folds(h))[D]
  BY DEF _first_match_per_target, FoldLeft, MapThenFoldSet, FirstMatch
<1>2. PICK winners : winners = [s \in SUBSET D |-> WinnersIn(rules, record, s)]
  OBVIOUS
<1>3. Folds(winners)
  <2>1. \A s \in SUBSET D : s \ {Max(s)} \in SUBSET D
    OBVIOUS
  <2>2. ASSUME NEW s \in SUBSET D
        PROVE  winners[s] = IF s = {} THEN <<>> ELSE
                               FirstMatch(winners[s \ {Max(s)}], rules[Max(s)], record)
    <3>1. CASE s = {}
      BY <1>2, <3>1 DEF WinnersIn
    <3>2. CASE s # {}
      BY <1>2, <2>1, <3>2, WinnersStep
    <3> QED
      BY <3>1, <3>2
  <2> HIDE DEF D
  <2> QED
    BY <1>2, <2>2
<1>4. PICK h : h = CHOOSE g : Folds(g)
  OBVIOUS
<1>5. Folds(h)
  BY <1>3, <1>4
<1>6. IsWellFoundedOn(R, SUBSET D)
  <2>1. IsFiniteSet(D)
    BY FS_Interval
  <2> QED
    BY <2>1, SubsetsWellFounded
<1>7. \A s \in SUBSET D : h[s] = winners[s]
  <2> SUFFICES ASSUME ~ \A s \in SUBSET D : h[s] = winners[s] PROVE FALSE
    OBVIOUS
  <2>1. PICK U : U = {s \in SUBSET D : h[s] # winners[s]}
    OBVIOUS
  <2> HIDE DEF R, Folds
  <2>2. PICK s \in U : \A other \in U : ~(<<other, s>> \in R)
    <3>1. PICK P : P = SUBSET D
      OBVIOUS
    <3>2. U \subseteq P /\ U # {} /\ IsWellFoundedOn(R, P)
      BY <1>6, <2>1, <3>1
    <3> QED
      BY <3>2, WFMin
  <2>3. s \in SUBSET D /\ h[s] # winners[s]
    BY <2>1, <2>2
  <2>4. s # {}
    BY <1>3, <1>5, <2>3 DEF Folds
  <2>5. Max(s) \in s
    BY <2>3, <2>4, FirstAndLast
  <2>6. s \ {Max(s)} \in SUBSET D /\ <<s \ {Max(s)}, s>> \in R
    BY <2>3, <2>5 DEF R, StrictSubsetOrdering
  <2>7. h[s \ {Max(s)}] = winners[s \ {Max(s)}]
    BY <2>1, <2>2, <2>6
  <2>8. h[s] = FirstMatch(h[s \ {Max(s)}], rules[Max(s)], record)
    BY <1>5, <2>3, <2>4 DEF Folds
  <2>9. winners[s] = FirstMatch(winners[s \ {Max(s)}], rules[Max(s)], record)
    BY <1>3, <2>3, <2>4 DEF Folds
  <2> QED
    BY <2>3, <2>7, <2>8, <2>9
<1> QED
  BY <1>1, <1>2, <1>4, <1>7

\* The served list of a template has all its rules, the first ordered first.
LEMMA ServedIs ==
    ASSUME ThIInv, NEW t, NEW n \in Nat, n = Cardinality(_live_rules(t))
    PROVE  /\ DOMAIN Served(t) = 1 .. n
           /\ \A i \in 1 .. n : Served(t)[i] \in _live_rules(t)
           /\ \A c \in _live_rules(t) : \E i \in 1 .. n : Served(t)[i] = c
           /\ \A i, j \in 1 .. n :
                 i <= j => frules[Served(t)[i]].order <= frules[Served(t)[j]].order
<1>1. PICK S : S = _live_rules(t)
  OBVIOUS
<1>2. /\ S \subseteq FRules /\ IsFiniteSet(S)
      /\ \A c \in S : frules[c].order \in Nat
      /\ \A c, d \in S : c # d => frules[c].order # frules[d].order
  <2>1. S = RulesIn(frules, t) /\ S \in SUBSET FRules
    BY <1>1 DEF _live_rules, RulesIn
  <2>2. IsFiniteSet(S)
    BY <2>1, ThemingAssumption, FS_Subset
  <2>3. \A c \in S : c \in FRules /\ frules[c].live /\ frules[c].template = t
    BY <2>1 DEF RulesIn
  <2>4. \A c \in S : frules[c] \in ConditionalFormattingRule
    BY <2>3, ThTypes
  <2>5. \A c \in S : frules[c].order \in Nat
    BY <2>4 DEF ConditionalFormattingRule
  <2>6. \A c, d \in S : c # d => frules[c].order # frules[d].order
    BY <2>3 DEF ThIInv, Listed
  <2> QED
    BY <2>1, <2>2, <2>5, <2>6
<1> DEFINE Before(c) == {d \in S : frules[d].order < frules[c].order}
<1>3. PICK rank : rank = [c \in S |-> Cardinality(Before(c))]
  OBVIOUS
<1>4. \A c \in S : rank[c] \in 0 .. n - 1
  <2> SUFFICES ASSUME NEW c \in S PROVE rank[c] \in 0 .. n - 1
    OBVIOUS
  <2>1. Before(c) \in SUBSET (S \ {c})
    BY <1>2
  <2>2. IsFiniteSet(S \ {c}) /\ Cardinality(S \ {c}) = n - 1
    BY <1>1, <1>2, FS_RemoveElement
  <2> HIDE DEF Before
  <2>3. IsFiniteSet(Before(c)) /\ Cardinality(Before(c)) <= n - 1
    BY <2>1, <2>2, FS_Subset
  <2>4. Cardinality(Before(c)) \in Nat
    BY <2>3, FS_CardinalityType
  <2> QED
    BY <1>3, <2>3, <2>4
<1>5. \A c, d \in S : frules[c].order < frules[d].order => rank[c] < rank[d]
  <2> SUFFICES ASSUME NEW c \in S, NEW d \in S, frules[c].order < frules[d].order
               PROVE  rank[c] < rank[d]
    OBVIOUS
  <2>1. Before(c) \in SUBSET Before(d) /\ Before(c) # Before(d) /\ Before(d) \in SUBSET S
    BY <1>2
  <2> HIDE DEF Before
  <2>2. IsFiniteSet(Before(d))
    BY <1>2, <2>1, FS_Subset
  <2>3. /\ Cardinality(Before(c)) <= Cardinality(Before(d))
        /\ Cardinality(Before(c)) # Cardinality(Before(d))
    BY <2>1, <2>2, FS_Subset
  <2> QED
    BY <1>3, <1>4, <2>3
<1> HIDE DEF Before
<1>6. \A c, d \in S : rank[c] = rank[d] => c = d
  BY <1>2, <1>4, <1>5
<1>7. ASSUME NEW k \in 0 .. n - 1 PROVE \E c \in S : rank[c] = k
  <2> SUFFICES ASSUME \A c \in S : rank[c] # k PROVE FALSE
    OBVIOUS
  <2>1. PICK T : T = (0 .. n - 1) \ {k}
    OBVIOUS
  <2>2. rank \in [S -> T]
    BY <1>3, <1>4, <2>1
  <2>3. IsFiniteSet(0 .. n - 1) /\ Cardinality(0 .. n - 1) = n
    BY <1>7, FS_Interval
  <2>4. IsFiniteSet(T) /\ Cardinality(T) = n - 1
    BY <2>1, <2>3, FS_RemoveElement
  <2>5. Cardinality(T) < Cardinality(S)
    BY <1>1, <2>4
  <2>6. \E c, d \in S : c # d /\ rank[c] = rank[d]
    BY <1>2, <2>2, <2>4, <2>5, FS_PigeonHole
  <2> QED
    BY <1>6, <2>6
<1>8. Served(t) = [i \in 1 .. n |-> CHOOSE c \in S : rank[c] = i - 1]
  <2>1. Served(t) = [i \in 1 .. n |-> CHOOSE c \in S : Cardinality(Before(c)) = i - 1]
    BY <1>1 DEF Served, Before
  <2>2. \A i : (CHOOSE c \in S : Cardinality(Before(c)) = i - 1) = CHOOSE c \in S : rank[c] = i - 1
    BY <1>3
  <2> QED
    BY <2>1, <2>2
<1>9. \A i \in 1 .. n : Served(t)[i] \in S /\ rank[Served(t)[i]] = i - 1
  <2> SUFFICES ASSUME NEW i \in 1 .. n PROVE Served(t)[i] \in S /\ rank[Served(t)[i]] = i - 1
    OBVIOUS
  <2>1. i - 1 \in 0 .. n - 1
    OBVIOUS
  <2>2. \E c \in S : rank[c] = i - 1
    BY <1>7, <2>1
  <2> QED
    BY <1>8, <2>2
<1>10. ASSUME NEW c \in S PROVE \E i \in 1 .. n : Served(t)[i] = c
  <2>1. PICK i \in 1 .. n : rank[c] = i - 1
    BY <1>4
  <2> QED
    BY <1>6, <1>9, <2>1
<1>11. ASSUME NEW i \in 1 .. n, NEW j \in 1 .. n, i <= j
       PROVE  frules[Served(t)[i]].order <= frules[Served(t)[j]].order
  BY <1>2, <1>5, <1>9, <1>11
<1>12. DOMAIN Served(t) = 1 .. n
  BY <1>8
<1> QED
  BY <1>1, <1>9, <1>10, <1>11, <1>12

\* The rules of a template that claim a target of a row.
ClaimsOf(t, record, target) ==
    {c \in _live_rules(t) : /\ frules[c].doc.effect = target
                            /\ condition_matches(frules[c].doc, record)}

\* Each target of a row is won by the matching rule that was ordered first.
LEMMA WinnersAreFirst ==
    ASSUME ThIInv, NEW t, NEW record, NEW won, won = _first_match_per_target(Served(t), record),
           NEW target, NEW claims, claims = ClaimsOf(t, record, target)
    PROVE  /\ target \in DOMAIN won <=> claims # {}
           /\ target \in DOMAIN won => won[target] \in claims
           /\ \A c \in claims : frules[won[target]].order <= frules[c].order
<1>1. PICK n \in Nat : n = Cardinality(_live_rules(t))
  <2>1. _live_rules(t) \in SUBSET FRules
    BY DEF _live_rules
  <2> QED
    BY <2>1, ThemingAssumption, FS_Subset, FS_CardinalityType
<1>2. PICK rules : rules = Served(t)
  OBVIOUS
<1>3. /\ DOMAIN rules = 1 .. n
      /\ \A i \in 1 .. n : rules[i] \in _live_rules(t)
      /\ \A c \in _live_rules(t) : \E i \in 1 .. n : rules[i] = c
      /\ \A i, j \in 1 .. n : i <= j => frules[rules[i]].order <= frules[rules[j]].order
  BY <1>1, <1>2, ServedIs
<1> DEFINE Claimed == HitsIn(rules, record, 1 .. n, target)
<1>4. won = WinnersIn(rules, record, 1 .. n)
  BY <1>2, <1>3, FirstMatchIs
<1>5. claims = {rules[i] : i \in Claimed} /\ Claimed \in SUBSET (1 .. n)
  BY <1>3 DEF HitsIn, ClaimsOf
<1>6. target \in HitTargets(rules, record, 1 .. n) <=> Claimed # {}
  BY DEF HitTargets, HitsIn
<1>7. CASE Claimed = {}
  <2>1. target \notin DOMAIN won
    <3>1. CASE 1 .. n = {}
      BY <1>4, <3>1 DEF WinnersIn
    <3>2. CASE 1 .. n # {}
      BY <1>4, <1>6, <1>7, <3>2 DEF WinnersIn
    <3> QED
      BY <3>1, <3>2
  <2> QED
    BY <1>5, <1>7, <2>1
<1>8. CASE Claimed # {}
  <2>1. 1 .. n # {}
    BY <1>5, <1>8
  <2>2. target \in DOMAIN won /\ won[target] = rules[FirstOf(Claimed)]
    BY <1>4, <1>6, <1>8, <2>1 DEF WinnersIn
  <2> HIDE DEF Claimed
  <2>3. FirstOf(Claimed) \in Claimed /\ \A j \in Claimed : FirstOf(Claimed) <= j
    BY <1>5, <1>8, FirstAndLast
  <2>4. \A c \in claims : frules[won[target]].order <= frules[c].order
    <3> SUFFICES ASSUME NEW j \in Claimed PROVE frules[won[target]].order <= frules[rules[j]].order
      BY <1>5
    <3>1. j \in 1 .. n /\ FirstOf(Claimed) \in 1 .. n /\ FirstOf(Claimed) <= j
      BY <1>5, <2>3
    <3> QED
      BY <1>3, <2>2, <3>1
  <2> QED
    BY <1>5, <1>8, <2>2, <2>3, <2>4
<1> QED
  BY <1>7, <1>8

\* A template that fits is one the screens can paint.
LEMMA StoredFits ==
    ASSUME ThIInv, NEW t \in LiveTemplates
    PROVE  validate_template(stored_template_option(t))
<1>1. t \in Templates /\ templates[t].live
  BY DEF LiveTemplates
<1>2. DocFits(templates[t].doc)
  BY <1>1 DEF ThIInv, TemplateOK
<1> DEFINE doc == templates[t].doc
           option == stored_template_option(t)
<1>3. DOMAIN doc.colors = COLOR_SLOTS /\ \A slot \in COLOR_SLOTS : doc.colors[slot] \in HexColor
  BY <1>2 DEF DocFits, color_slot_errors, _exact_key_errors
<1>4. /\ DOMAIN option = {"colors", "fonts", "rowHeight", "sizeStep"}
      /\ option.colors = doc.colors /\ DOMAIN option.fonts = FONT_SLOTS
      /\ option.rowHeight = "standard" /\ option.sizeStep = doc.choice
  BY <1>2 DEF stored_template_option, DocFits, LAUNCH_TEMPLATES
<1> QED
  BY <1>2, <1>3, <1>4 DEF validate_template, DocFits, ROW_HEIGHT_STEPS

\* A document under a row theme is a document again.
LEMMA RowThemeFits ==
    ASSUME NEW base, validate_template(base), NEW r, validate_row_theme(r), NEW theme,
           theme = resolve_effective_grid_theme(base, r)
    PROVE  /\ validate_template([x \in DOMAIN base |-> theme[x]])
           /\ theme.rowScoped \subseteq ROW_THEME_COLOR_SLOTS
<1> DEFINE over == Part(r, "colors", <<>>)
           font == Part(r, "font", <<>>)
<1>1. DOMAIN over \subseteq ROW_THEME_COLOR_SLOTS /\ \A slot \in DOMAIN over : over[slot] \in HexColor
  BY DEF Part, validate_row_theme
<1>2. "sizeStep" \in DOMAIN font => font["sizeStep"] \in ToSet(TYPE_SCALE_STEPS)
  BY DEF Part, validate_row_theme
<1> HIDE DEF over, font
<1>3. /\ theme.colors = [slot \in COLOR_SLOTS |-> Part(over, slot, base.colors[slot])]
      /\ theme.fonts = base.fonts /\ theme.rowHeight = Part(r, "rowHeight", base.rowHeight)
      /\ theme.sizeStep = Part(font, "sizeStep", base.sizeStep) /\ theme.rowScoped = DOMAIN over
  BY DEF resolve_effective_grid_theme, over, font
<1>4. /\ DOMAIN theme.colors = COLOR_SLOTS
      /\ \A slot \in COLOR_SLOTS : theme.colors[slot] \in HexColor
  BY <1>1, <1>3 DEF Part, validate_template
<1>5. theme.rowHeight \in ROW_HEIGHT_STEPS
  BY <1>3 DEF Part, validate_template, validate_row_theme
<1>6. theme.sizeStep \in ToSet(TYPE_SCALE_STEPS)
  BY <1>2, <1>3 DEF Part, validate_template
<1>7. DOMAIN theme.fonts = FONT_SLOTS
  BY <1>3 DEF validate_template
<1>8. PICK d : d = [x \in DOMAIN base |-> theme[x]]
  OBVIOUS
<1>9. /\ DOMAIN d = {"colors", "fonts", "rowHeight", "sizeStep"} /\ d.colors = theme.colors
      /\ d.fonts = theme.fonts /\ d.rowHeight = theme.rowHeight /\ d.sizeStep = theme.sizeStep
  BY <1>8 DEF validate_template
<1>10. validate_template(d)
  BY <1>4, <1>5, <1>6, <1>7, <1>9 DEF validate_template
<1> QED
  BY <1>1, <1>3, <1>8, <1>10

\* Two data rows with no data row between them are painted differently.
LEMMA BandsAlternate ==
    ASSUME NEW n \in Nat, NEW isData \in [1 .. n -> BOOLEAN], NEW i \in 1 .. n, NEW j \in 1 .. n,
           i < j, isData[i], isData[j], \A k \in i + 1 .. j - 1 : ~isData[k]
    PROVE  assign_bands(isData)[i] # assign_bands(isData)[j]
<1>1. PICK a, b : a = {k \in 1 .. i : isData[k]} /\ b = {k \in 1 .. j : isData[k]}
  OBVIOUS
<1>2. b = a \cup {j} /\ j \notin a
  BY <1>1
<1>3. IsFiniteSet(a) /\ Cardinality(a) \in Nat /\ Cardinality(b) = Cardinality(a) + 1
  <2>1. IsFiniteSet(1 .. i) /\ a \in SUBSET (1 .. i)
    BY <1>1, FS_Interval
  <2>2. IsFiniteSet(a)
    BY <2>1, FS_Subset
  <2> QED
    BY <1>2, <2>2, FS_AddElement, FS_CardinalityType
<1>4. /\ assign_bands(isData)[i] = band_for_position(Cardinality(a))
      /\ assign_bands(isData)[j] = band_for_position(Cardinality(b))
  BY <1>1 DEF assign_bands
<1>5. PICK p \in Nat : p = Cardinality(a)
  BY <1>3
<1>6. p % 2 = 1 <=> ~((p + 1) % 2 = 1)
  OBVIOUS
<1> QED
  BY <1>3, <1>4, <1>5, <1>6 DEF band_for_position

\* Every draft is a whole document.
DraftsFit ==
    /\ drafts = [u \in DOMAIN drafts |-> drafts[u]]
    /\ \A u \in DOMAIN drafts : validate_template(drafts[u])

\* An edit of a draft is committed only if it leaves a whole document.
LEMMA CommitFits ==
    ASSUME DraftsFit, NEW u \in DOMAIN drafts, NEW candidate, _commit(u, candidate)
    PROVE  DraftsFit'
<1>1. CASE validate_template(candidate)
  <2>1. drafts' = [drafts EXCEPT ![u] = candidate]
    BY <1>1 DEF _commit
  <2>2. DOMAIN drafts' = DOMAIN drafts /\ drafts' = [v \in DOMAIN drafts |-> drafts'[v]]
    BY <2>1 DEF DraftsFit
  <2>3. \A v \in DOMAIN drafts : drafts'[v] = IF v = u THEN candidate ELSE drafts[v]
    BY <2>1 DEF DraftsFit
  <2>4. \A v \in DOMAIN drafts : validate_template(drafts'[v])
    BY <1>1, <2>3 DEF DraftsFit
  <2>5. (\A v \in DOMAIN drafts : validate_template(drafts[v]))'
    BY <2>2, <2>4 DEF validate_template
  <2> QED
    BY <2>2, <2>5 DEF DraftsFit
<1>2. CASE ~validate_template(candidate)
  <2>1. drafts' = drafts
    BY <1>2 DEF _commit
  <2> QED
    BY <2>1 DEF DraftsFit, validate_template
<1> QED
  BY <1>1, <1>2

\* The flows of the users keep their drafts whole.
LEMMA DraftsStep ==
    ASSUME ThIInv, DraftsFit, FlowNext
    PROVE  DraftsFit'
<1>1. ASSUME NEW u \in ThemeUsers, NEW t \in Templates, start_user_template(u, t) PROVE DraftsFit'
  <2>1. PICK option : option = stored_template_option(t)
    OBVIOUS
  <2>2. t \in LiveTemplates
    BY <1>1 DEF start_user_template, build_template_picker
  <2>3. validate_template(option)
    BY <2>1, <2>2, StoredFits
  <2>4. drafts' = [v \in DOMAIN drafts \cup {u} |-> IF v = u THEN option ELSE drafts[v]]
    BY <1>1, <2>1 DEF start_user_template
  <2>5. \A v \in DOMAIN drafts' : validate_template(drafts'[v])
    BY <2>3, <2>4 DEF DraftsFit
  <2> QED
    BY <2>4, <2>5 DEF DraftsFit, validate_template
<1>2. ASSUME NEW u \in ThemeUsers, apply_control_edit(u) PROVE DraftsFit'
  BY <1>2, CommitFits DEF apply_control_edit
<1>3. ASSUME NEW u \in ThemeUsers, finish_user_template(u) PROVE DraftsFit'
  <2>1. drafts' = [v \in DOMAIN drafts \ {u} |-> drafts[v]]
    BY <1>3 DEF finish_user_template
  <2>2. \A v \in DOMAIN drafts' : validate_template(drafts'[v])
    BY <2>1 DEF DraftsFit
  <2> QED
    BY <2>1, <2>2 DEF DraftsFit, validate_template
<1>4. ASSUME UNCHANGED flowVars PROVE DraftsFit'
  BY <1>4 DEF flowVars, DraftsFit, validate_template
<1> QED
  BY <1>1, <1>2, <1>3, <1>4 DEF FlowNext

\* Whatever the templates, drafts and row themes are, they can be painted.
LEMMA ThemesFit ==
    ASSUME ThIInv, DraftsFit
    PROVE  StoredThemesRender
<1>1. RuleListHoldsTogether
  BY DEF ThIInv, Listed, RuleListHoldsTogether
<1>2. \A t \in LiveTemplates : validate_template(stored_template_option(t))
  BY StoredFits
<1>3. \A c \in FRules : frules[c].live => rule_errors(frules[c].doc) = {}
  BY DEF ThIInv, RuleOK
<1>4. \A c \in FRules : frules[c].live => validate_formatting_rule(frules[c].doc)
  BY <1>3, GateIs
<1>5. ASSUME NEW t, NEW record, NEW target \in FORMATTING_EFFECTS, NEW won, NEW claims,
             won = _first_match_per_target(Served(t), record), claims = ClaimsOf(t, record, target)
      PROVE  /\ target \in DOMAIN won <=> claims # {}
             /\ \A c \in claims : frules[won[target]].order <= frules[c].order
  BY <1>5, WinnersAreFirst
<1>6. ASSUME NEW t, NEW record, NEW rules, NEW selected \in BOOLEAN, rules = Served(t)
      PROVE  resolve_row_render(rules, record, 1, selected).text \in COLOR_SLOTS
  <2>1. PICK won : won = _first_match_per_target(rules, record)
    OBVIOUS
  <2>2. "rowText" \in DOMAIN won => frules[won["rowText"]].doc.slot \in COLOR_SLOTS
    <3> SUFFICES ASSUME "rowText" \in DOMAIN won
                 PROVE  frules[won["rowText"]].doc.slot \in COLOR_SLOTS
      OBVIOUS
    <3>1. PICK texts : texts = ClaimsOf(t, record, "rowText")
      OBVIOUS
    <3>2. won["rowText"] \in texts
      BY <1>6, <2>1, <3>1, WinnersAreFirst
    <3>3. won["rowText"] \in FRules /\ frules[won["rowText"]].live
      BY <3>1, <3>2 DEF ClaimsOf, _live_rules
    <3> QED
      BY <1>3, <3>3, GateIs DEF COLOR_SLOTS
  <2>3. resolve_row_render(rules, record, 1, selected).text =
           IF selected THEN "selectedRowText"
           ELSE IF "rowText" \in DOMAIN won THEN frules[won["rowText"]].doc.slot ELSE "rowText"
    BY <2>1 DEF resolve_row_render
  <2>4. "selectedRowText" \in COLOR_SLOTS /\ "rowText" \in COLOR_SLOTS
    BY DEF COLOR_SLOTS, ROW_THEME_COLOR_SLOTS
  <2> QED
    BY <2>2, <2>3, <2>4
<1>7. ASSUME NEW u \in ThemeUsers, NEW doc \in get_effective_theme(u)
      PROVE  color_slot_errors(doc.colors) = {}
  <2>1. \A t \in Templates : templates[t].live => DocFits(templates[t].doc)
    BY DEF ThIInv, TemplateOK
  <2>2. DocFits(doc)
    BY <2>1, BuiltinFits DEF get_effective_theme, _chosen_template, _org_default_template,
                             _visible_template, LiveTemplates
  <2> QED
    BY <2>2 DEF DocFits
<1>8. ASSUME NEW u \in DOMAIN drafts, NEW r \in RowThemes, validate_row_theme(r), NEW theme,
             theme = resolve_effective_grid_theme(drafts[u], r)
      PROVE  /\ validate_template([x \in DOMAIN drafts[u] |-> theme[x]])
             /\ theme.rowScoped \subseteq ROW_THEME_COLOR_SLOTS
  <2>1. validate_template(drafts[u])
    BY DEF DraftsFit
  <2> QED
    BY <1>8, <2>1, RowThemeFits
<1>9. ASSUME NEW isData \in [1 .. 3 -> BOOLEAN], NEW i \in 1 .. 3, NEW j \in 1 .. 3,
             i < j, isData[i], isData[j], \A k \in i + 1 .. j - 1 : ~isData[k]
      PROVE  assign_bands(isData)[i] # assign_bands(isData)[j]
  BY <1>9, BandsAlternate
<1> HIDE DEF ThIInv, DraftsFit
<1> QED
  BY <1>1, <1>2, <1>4, <1>5, <1>7, <1>8, <1>9, <1>6 DEF StoredThemesRender, ClaimsOf

-----------------------------------------------------------------------------
(* The rows of a grid. *)

\* The rank of an element is how many come before it.
RankIn(S, less) == [c \in S |-> Cardinality({d \in S : <<d, c>> \in less})]
IsOrderOn(less, S) ==
    /\ \A c \in S : ~(<<c, c>> \in less)
    /\ \A c, d \in S : c # d => <<c, d>> \in less \/ <<d, c>> \in less
    /\ \A c, d, e \in S : <<c, d>> \in less /\ <<d, e>> \in less => <<c, e>> \in less

\* In a strict total order of a finite set the ranks are 0 to n - 1, each once.
RanksOK(S, less, n, rank) ==
    /\ \A c \in S : rank[c] \in 0 .. n - 1
    /\ \A c, d \in S : <<c, d>> \in less <=> rank[c] < rank[d]
    /\ \A c, d \in S : rank[c] = rank[d] => c = d
    /\ \A k \in 0 .. n - 1 : \E c \in S : rank[c] = k

\* The ranks of an order run from 0 and tell its elements apart.
LEMMA RanksAre ==
    ASSUME NEW S, IsFiniteSet(S), NEW less, IsOrderOn(less, S), NEW n, n = Cardinality(S),
           NEW rank, rank = RankIn(S, less)
    PROVE  n \in Nat /\ RanksOK(S, less, n, rank)
<1> DEFINE Before(c) == {d \in S : <<d, c>> \in less}
<1>1. n \in Nat /\ \A c \in S : rank[c] = Cardinality(Before(c))
  BY FS_CardinalityType DEF RankIn
<1>2. /\ \A c \in S : Before(c) \in SUBSET (S \ {c})
      /\ \A c, d \in S : <<c, d>> \in less =>
            Before(c) \in SUBSET Before(d) /\ Before(c) # Before(d) /\ Before(d) \in SUBSET S
  BY DEF IsOrderOn
<1> HIDE DEF Before
<1>3. \A c \in S : rank[c] \in 0 .. n - 1
  <2> SUFFICES ASSUME NEW c \in S PROVE rank[c] \in 0 .. n - 1
    OBVIOUS
  <2>1. IsFiniteSet(S \ {c}) /\ Cardinality(S \ {c}) = n - 1
    BY FS_RemoveElement
  <2>2. IsFiniteSet(Before(c)) /\ Cardinality(Before(c)) <= n - 1
    BY <1>2, <2>1, FS_Subset
  <2>3. Cardinality(Before(c)) \in Nat
    BY <2>2, FS_CardinalityType
  <2> QED
    BY <1>1, <2>2, <2>3
<1>4. \A c, d \in S : <<c, d>> \in less => rank[c] < rank[d]
  <2> SUFFICES ASSUME NEW c \in S, NEW d \in S, <<c, d>> \in less PROVE rank[c] < rank[d]
    OBVIOUS
  <2>1. /\ Before(c) \in SUBSET Before(d) /\ Before(c) # Before(d) /\ Before(d) \in SUBSET S
    BY <1>2
  <2>2. IsFiniteSet(Before(d))
    BY <2>1, FS_Subset
  <2>3. /\ Cardinality(Before(c)) <= Cardinality(Before(d))
        /\ Cardinality(Before(c)) # Cardinality(Before(d))
    BY <2>1, <2>2, FS_Subset
  <2> QED
    BY <1>1, <1>3, <2>3
<1>5. \A c, d \in S : rank[c] = rank[d] => c = d
  <2> SUFFICES ASSUME NEW c \in S, NEW d \in S, c # d PROVE rank[c] # rank[d]
    OBVIOUS
  <2>1. <<c, d>> \in less \/ <<d, c>> \in less
    BY DEF IsOrderOn
  <2>2. rank[c] < rank[d] \/ rank[d] < rank[c]
    BY <1>4, <2>1
  <2> QED
    BY <1>3, <2>2
<1>6. \A c, d \in S : <<c, d>> \in less <=> rank[c] < rank[d]
  <2> SUFFICES ASSUME NEW c \in S, NEW d \in S, rank[c] < rank[d] PROVE <<c, d>> \in less
    BY <1>4
  <2>1. c # d /\ ~(<<d, c>> \in less)
    BY <1>3, <1>4
  <2> QED
    BY <2>1 DEF IsOrderOn
<1>7. ASSUME NEW k \in 0 .. n - 1 PROVE \E c \in S : rank[c] = k
  <2> SUFFICES ASSUME \A c \in S : rank[c] # k PROVE FALSE
    OBVIOUS
  <2>1. PICK T : T = (0 .. n - 1) \ {k}
    OBVIOUS
  <2>2. rank \in [S -> T]
    BY <1>3, <2>1 DEF RankIn
  <2>3. IsFiniteSet(0 .. n - 1) /\ Cardinality(0 .. n - 1) = n
    BY <1>1, FS_Interval
  <2>4. IsFiniteSet(T) /\ Cardinality(T) = n - 1
    BY <1>7, <2>1, <2>3, FS_RemoveElement
  <2>5. Cardinality(T) < Cardinality(S)
    BY <1>1, <2>4
  <2>6. \E c, d \in S : c # d /\ rank[c] = rank[d]
    BY <2>2, <2>4, <2>5, FS_PigeonHole
  <2> QED
    BY <1>5, <2>6
<1> QED
  BY <1>1, <1>3, <1>5, <1>6, <1>7 DEF RanksOK

\* The sequence that has a set's elements once each is as long as the set.
LEMMA LengthIs ==
    ASSUME NEW S, IsFiniteSet(S), NEW n \in Nat, NEW f, DOMAIN f = 1 .. n,
           f = [i \in 1 .. n |-> f[i]],
           \A i \in 1 .. n : f[i] \in S, \A i, j \in 1 .. n : f[i] = f[j] => i = j,
           \A c \in S : \E i \in 1 .. n : f[i] = c
    PROVE  Cardinality(S) = n
<1>1. PICK D : D = 1 .. n
  OBVIOUS
<1>2. IsFiniteSet(D) /\ Cardinality(D) = n
  BY <1>1, FS_Interval
<1>3. f \in Bijection(D, S)
  BY <1>1 DEF Bijection, Injection, Surjection, IsInjective
<1>4. ExistsBijection(D, S)
  BY <1>3 DEF ExistsBijection
<1> QED
  BY <1>2, <1>4, FS_Bijection

GrCursor == {FirstCursor} \cup [value : SortValues \cup {NullValue}, id : GRows]
GrPage == [rows : Seq(GRows), next : GrCursor, fails : BOOLEAN]
ScrollFields(pc) == [pc : pc, search : Searches, rows : Seq(GRows), cursor : GrCursor,
                     moved : SUBSET GRows, total : Nat, counted : BOOLEAN]
AskedScroll == [pc : {"asked"}, search : Searches, rows : Seq(GRows), cursor : GrCursor,
                moved : SUBSET GRows, total : Nat, counted : BOOLEAN,
                page : GrPage, list : Seq(Armed), saves : BOOLEAN, version : Nat]
ScrollRow == {Closed} \cup ScrollFields({"open", "end"}) \cup AskedScroll

GrTyped ==
    /\ grows \in [GRows -> GridRow] /\ sorted \in BOOLEAN
    /\ recent \in [list : Seq(Armed), version : Nat]
    /\ scroll \in [Slots -> ScrollRow]
    /\ asked \in 0 .. MaxPages /\ written \in 0 .. MaxRowWrites
    /\ ran \in Seq(Armed)

\* The rows a scroll shows that no write touched and that a cursor can find.
Untouched(w) == {r \in filtered(w.search) \ w.moved : sort_value(r) # NullValue}
Has(rows, r) == \E i \in DOMAIN rows : rows[i] = r
InOrderOn(rows, S) ==
    \A i, j \in DOMAIN rows : i < j /\ rows[i] \in S /\ rows[j] \in S => Precedes(rows[i], rows[j])
AllIn(rows, S) == \A i \in DOMAIN rows : rows[i] \in S

\* The cursor splits the settled rows: those that were served are not beyond it.
ServedOK(w) ==
    /\ w.pc \in {"open", "asked"} =>
          /\ w.cursor = FirstCursor => w.rows = << >>
          /\ \A r \in Untouched(w) : Has(w.rows, r) <=> ~Beyond(r, w.cursor)
    /\ w.pc = "end" => \A r \in Untouched(w) : Has(w.rows, r)

\* The page under way has those beyond the cursor and not beyond the next one.
PageOK(w) ==
    /\ \A r \in Untouched(w) :
          /\ Has(w.page.rows, r) <=> /\ Beyond(r, w.cursor)
                                     /\ w.page.next = FirstCursor \/ ~Beyond(r, w.page.next)
          /\ w.page.next # FirstCursor /\ ~Beyond(r, w.cursor) => ~Beyond(r, w.page.next)
    /\ InOrderOn(w.page.rows, Untouched(w))
    /\ w.moved = {} => AllIn(w.page.rows, filtered(w.search))
    /\ w.page.next # FirstCursor => sorted

ScrollOK(w) ==
    w.pc # "closed" =>
        /\ w.cursor # FirstCursor => sorted
        /\ ServedOK(w)
        /\ InOrderOn(w.rows, Untouched(w))
        /\ w.moved = {} =>
              /\ AllIn(w.rows, filtered(w.search))
              /\ w.counted => w.total = Cardinality(filtered(w.search))
        /\ w.pc = "asked" => PageOK(w)

\* The list that a request saves is the one to follow the list it has read.
SaveOK(w, list, version) ==
    w.pc = "asked" /\ w.saves =>
        /\ w.search \in Armed
        /\ w.version <= version
        /\ w.version = version => w.list = remember_search(list, w.search)

\* The searches offered are the newest of those that ran, newest first.
NewestIn(r, s) == CHOOSE i \in DOMAIN r : r[i] = s /\ \A j \in DOMAIN r : r[j] = s => j <= i
RecallOK(list, r) ==
    /\ Len(list) <= RECENT_SEARCH_LIMIT
    /\ \A i, j \in DOMAIN list : list[i] = list[j] => i = j
    /\ \A i \in DOMAIN list : Has(r, list[i])
    /\ \A i, j \in DOMAIN list : i < j => NewestIn(r, list[j]) < NewestIn(r, list[i])
    /\ \A k \in DOMAIN r : Has(list, r[k]) \/
          /\ Len(list) = RECENT_SEARCH_LIMIT
          /\ \A i \in DOMAIN list : NewestIn(r, r[k]) < NewestIn(r, list[i])

\* The inductive invariant.
GrIInv ==
    /\ GrTyped
    /\ \A q \in Slots : ScrollOK(scroll[q]) /\ SaveOK(scroll[q], recent.list, recent.version)
    /\ RecallOK(recent.list, ran)

\* A sort value is a natural number or none.
LEMMA SortValueIs ==
    ASSUME GrTyped, NEW r \in GRows
    PROVE  /\ r \in Nat \ {0} /\ r \in Int
           /\ sort_value(r) # NullValue => sort_value(r) \in Nat /\ sort_value(r) \in Int
           /\ sorted => sort_value(r) \in SortValues \cup {NullValue}
<1>1. GRows \subseteq Nat \ {0} /\ SortValues \subseteq Nat
  BY GridRowsAssumption
<1>2. grows[r].value \in SortValues \cup {NullValue}
  BY DEF GrTyped, GridRow
<1>3. r \in Nat \ {0} /\ r \in Int
  BY <1>1
<1>4. CASE sorted
  <2>1. PICK v : v = grows[r].value
    OBVIOUS
  <2>2. sort_value(r) = v
    BY <1>4, <2>1 DEF sort_value
  <2>3. v \in SortValues \cup {NullValue}
    BY <1>2, <2>1
  <2>4. v # NullValue => v \in Nat
    BY <1>1, <2>3
  <2>5. v \in Nat => v \in Int
    OBVIOUS
  <2> QED
    BY <1>3, <2>2, <2>3, <2>4, <2>5
<1>5. CASE ~sorted
  <2>1. sort_value(r) = r
    BY <1>5 DEF sort_value
  <2> QED
    BY <1>3, <1>5, <2>1
<1> QED
  BY <1>4, <1>5

\* The sort is a strict total order of the records.
PrecedesOn(S) == {p \in S \X S : Precedes(p[1], p[2])}

\* The sort compares any two records.
LEMMA SortIsOrder ==
    ASSUME GrTyped, NEW S \in SUBSET GRows
    PROVE  /\ IsOrderOn(PrecedesOn(S), S)
           /\ \A a, b \in S : <<a, b>> \in PrecedesOn(S) <=> Precedes(a, b)
<1>1. \A a \in S : /\ a \in Int /\ (sort_value(a) # NullValue => sort_value(a) \in Int)
  BY SortValueIs
<1>2. \A a, b \in S : <<a, b>> \in PrecedesOn(S) <=> Precedes(a, b)
  BY DEF PrecedesOn
<1>3. \A a \in S : ~Precedes(a, a)
  BY <1>1 DEF Precedes
<1>4. ASSUME NEW a \in S, NEW b \in S, a # b PROVE Precedes(a, b) \/ Precedes(b, a)
  BY <1>1, <1>4 DEF Precedes
<1>5. ASSUME NEW a \in S, NEW b \in S, NEW c \in S, Precedes(a, b), Precedes(b, c)
      PROVE  Precedes(a, c)
  <2>1. PICK x, y, z : x = sort_value(a) /\ y = sort_value(b) /\ z = sort_value(c)
    OBVIOUS
  <2>2. /\ a \in Int /\ b \in Int /\ c \in Int /\ (x # NullValue => x \in Int)
        /\ (y # NullValue => y \in Int) /\ (z # NullValue => z \in Int)
    BY <1>1, <2>1
  <2>3. IF x = y THEN a < b ELSE x # NullValue /\ (y = NullValue \/ x < y)
    BY <1>5, <2>1 DEF Precedes
  <2>4. IF y = z THEN b < c ELSE y # NullValue /\ (z = NullValue \/ y < z)
    BY <1>5, <2>1 DEF Precedes
  <2>5. IF x = z THEN a < c ELSE x # NullValue /\ (z = NullValue \/ x < z)
    BY <2>2, <2>3, <2>4
  <2> QED
    BY <2>1, <2>5 DEF Precedes
<1> QED
  BY <1>2, <1>3, <1>4, <1>5 DEF IsOrderOn

\* The cursor behind a row: what is beyond it comes after the row.
CursorAt(r) == [value |-> sort_value(r), id |-> r]

\* What a cursor leaves to be served is what comes after its row.
LEMMA BeyondIs ==
    ASSUME GrTyped, NEW a \in GRows, NEW b \in GRows, sort_value(b) # NullValue
    PROVE  Beyond(b, CursorAt(a)) <=> Precedes(a, b)
<1>1. PICK x, y : x = sort_value(a) /\ y = sort_value(b)
  OBVIOUS
<1>2. a \in Int /\ b \in Int /\ a # 0 /\ y \in Int /\ (x # NullValue => x \in Int)
  BY <1>1, SortValueIs
<1>3. Beyond(b, CursorAt(a)) <=> (x # NullValue /\ y > x) \/ (y = x /\ b > a)
  BY <1>1, <1>2 DEF Beyond, CursorAt
<1>4. Precedes(a, b) <=> IF x = y THEN a < b ELSE x # NullValue /\ x < y
  BY <1>1, <1>2 DEF Precedes
<1> QED
  BY <1>2, <1>3, <1>4

\* A settled row that a cursor has passed comes before the rows beyond it, and
\* every cursor behind one of those has passed it too.
LEMMA PassedBefore ==
    ASSUME GrTyped, NEW cursor \in GrCursor, NEW a \in GRows, NEW b \in GRows,
           sort_value(a) # NullValue, ~Beyond(a, cursor), Beyond(b, cursor)
    PROVE  /\ sort_value(b) # NullValue => Precedes(a, b)
           /\ ~Beyond(a, CursorAt(b))
<1>1. PICK x, y, v, c : x = sort_value(a) /\ y = sort_value(b) /\ v = cursor.value /\ c = cursor.id
  OBVIOUS
<1>2. a \in Int /\ b \in Int /\ b # 0 /\ x \in Int /\ (y # NullValue => y \in Int)
  BY <1>1, SortValueIs
<1>3. c # 0
  BY <1>1 DEF Beyond
<1>4. c \in Int /\ (v # NullValue => v \in Int)
  <2>1. SortValues \subseteq Int /\ GRows \subseteq Int
    BY GridRowsAssumption
  <2>2. cursor \in [value : SortValues \cup {NullValue}, id : GRows]
    BY <1>1, <1>3 DEF GrCursor, FirstCursor
  <2>3. cursor.value \in SortValues \cup {NullValue} /\ cursor.id \in GRows
    BY <2>2
  <2> QED
    BY <1>1, <2>1, <2>3
<1>5. ~(v # NullValue /\ x > v) /\ ~(x = v /\ a > c)
  BY <1>1, <1>2 DEF Beyond
<1>6. (y # NullValue /\ v # NullValue /\ y > v) \/ (y = v /\ b > c)
  BY <1>1, <1>3 DEF Beyond
<1>7. x # NullValue
  BY <1>1
<1>8. y # NullValue => IF x = y THEN a < b ELSE x < y
  BY <1>2, <1>4, <1>5, <1>6, <1>7
<1>9. ~(y # NullValue /\ x > y) /\ ~(x = y /\ a > b)
  BY <1>2, <1>4, <1>5, <1>6, <1>7
<1>10. y # NullValue => Precedes(a, b)
  BY <1>1, <1>7, <1>8 DEF Precedes
<1>11. ~Beyond(a, CursorAt(b))
  BY <1>1, <1>2, <1>9 DEF Beyond, CursorAt
<1> QED
  BY <1>1, <1>10, <1>11

\* A page has the first of what is beyond its cursor, in the order of the sort,
\* and the next cursor stands behind its last row.
LEMMA PageIs ==
    ASSUME GrTyped, NEW search \in Searches, NEW cursor \in GrCursor,
           NEW page, page = keyset_page(search, cursor), ~page.fails,
           NEW found, found = {r \in filtered(search) : Beyond(r, cursor)}
    PROVE  /\ page \in GrPage /\ AllIn(page.rows, found)
           /\ \A i, j \in DOMAIN page.rows : i < j => Precedes(page.rows[i], page.rows[j])
           /\ \/ page.next = FirstCursor /\ \A r \in found : Has(page.rows, r)
              \/ /\ sorted
                 /\ \E l \in found : /\ page.next = CursorAt(l)
                                     /\ \A r \in found : Has(page.rows, r) <=> ~Precedes(l, r)
<1>1. found \in SUBSET GRows /\ IsFiniteSet(found)
  <2>1. found \in SUBSET GRows
    BY DEF filtered
  <2>2. IsFiniteSet(GRows)
    BY GridRowsAssumption
  <2> QED
    BY <2>1, <2>2, FS_Subset
<1>2. PICK less : less = PrecedesOn(found)
  OBVIOUS
<1>3. /\ IsOrderOn(less, found)
      /\ \A a, b \in found : <<a, b>> \in less <=> Precedes(a, b)
  BY <1>1, <1>2, SortIsOrder
<1>4. PICK rank : rank = RankIn(found, less)
  OBVIOUS
<1>5. PICK n : n = Cardinality(found)
  OBVIOUS
<1>6. /\ n \in Nat /\ \A c \in found : rank[c] \in 0 .. n - 1
      /\ \A c, d \in found : <<c, d>> \in less <=> rank[c] < rank[d]
      /\ \A c, d \in found : rank[c] = rank[d] => c = d
      /\ \A k \in 0 .. n - 1 : \E c \in found : rank[c] = k
  <2>1. IsFiniteSet(found) /\ IsOrderOn(less, found) /\ n = Cardinality(found) /\ rank = RankIn(found, less)
    BY <1>1, <1>3, <1>4, <1>5
  <2>2. n \in Nat /\ RanksOK(found, less, n, rank)
    BY <2>1, RanksAre
  <2> QED
    BY <2>2 DEF RanksOK
<1>7. \A r \in found : Cardinality({s \in found : Precedes(s, r)}) = rank[r]
  <2> SUFFICES ASSUME NEW r \in found PROVE Cardinality({s \in found : Precedes(s, r)}) = rank[r]
    OBVIOUS
  <2>1. {s \in found : Precedes(s, r)} = {s \in found : <<s, r>> \in less}
    BY <1>3
  <2> QED
    BY <1>4, <2>1 DEF RankIn
<1>8. PageSize \in Nat \ {0}
  BY GridRowsAssumption
<1>9. PICK size : size = PageSize
  OBVIOUS
<1>10. PICK m : m = IF n > size THEN size ELSE n
  OBVIOUS
<1>11. m \in Nat /\ m <= n /\ (n > size => m < n /\ m # 0) /\ (~(n > size) => m = n)
  BY <1>6, <1>8, <1>9, <1>10
<1>12. /\ page.rows = FirstRows(found, m)
       /\ page.next = IF n > size THEN [value |-> sort_value(Last(page.rows)), id |-> Last(page.rows)]
                      ELSE FirstCursor
       /\ page = [rows |-> page.rows, next |-> page.next, fails |-> page.fails]
       /\ page.fails = (n > size /\ ~sorted)
  BY <1>5, <1>9, <1>10 DEF keyset_page
<1>13. PICK rows : rows = page.rows
  OBVIOUS
<1>14. DOMAIN rows = 1 .. m /\ \A i \in 1 .. m : rows[i] \in found /\ rank[rows[i]] = i - 1
  <2>1. DOMAIN rows = 1 .. m
    BY <1>12, <1>13 DEF FirstRows
  <2>2. ASSUME NEW i \in 1 .. m PROVE rows[i] \in found /\ rank[rows[i]] = i - 1
    <3>1. i - 1 \in 0 .. n - 1
      BY <1>6, <1>11
    <3>2. \E r \in found : Cardinality({s \in found : Precedes(s, r)}) = i - 1
      BY <1>6, <1>7, <3>1
    <3>3. rows[i] = CHOOSE r \in found : Cardinality({s \in found : Precedes(s, r)}) = i - 1
      BY <1>12, <1>13 DEF FirstRows
    <3>4. rows[i] \in found /\ Cardinality({s \in found : Precedes(s, rows[i])}) = i - 1
      BY <3>2, <3>3
    <3> QED
      BY <1>7, <3>4
  <2> QED
    BY <2>1, <2>2
<1>15. rows \in Seq(GRows) /\ Len(rows) = m
  <2>1. rows = [i \in 1 .. m |-> rows[i]]
    BY <1>12, <1>13 DEF FirstRows
  <2>2. \A i \in 1 .. m : rows[i] \in GRows
    BY <1>1, <1>14
  <2>3. rows \in [1 .. m -> GRows]
    BY <2>1, <2>2
  <2> QED
    BY <1>11, <1>14, <2>3
<1>16. \A i, j \in DOMAIN rows : i < j => Precedes(rows[i], rows[j])
  <2> SUFFICES ASSUME NEW i \in 1 .. m, NEW j \in 1 .. m, i < j PROVE Precedes(rows[i], rows[j])
    BY <1>14
  <2>1. rank[rows[i]] < rank[rows[j]]
    BY <1>11, <1>14
  <2> QED
    BY <1>3, <1>6, <1>14, <2>1
<1>17. \A r \in found : Has(rows, r) <=> rank[r] < m
  <2> SUFFICES ASSUME NEW r \in found PROVE Has(rows, r) <=> rank[r] < m
    OBVIOUS
  <2>1. ASSUME Has(rows, r) PROVE rank[r] < m
    BY <1>11, <1>14, <2>1 DEF Has
  <2>2. ASSUME rank[r] < m PROVE Has(rows, r)
    <3>1. rank[r] + 1 \in 1 .. m /\ (rank[r] + 1) - 1 = rank[r]
      BY <1>6, <1>11, <2>2
    <3>2. rows[rank[r] + 1] = r
      BY <1>6, <1>14, <3>1
    <3> QED
      BY <1>14, <3>1, <3>2 DEF Has
  <2> QED
    BY <2>1, <2>2
<1>18. AllIn(page.rows, found)
  BY <1>13, <1>14 DEF AllIn
<1>19. CASE ~(n > size)
  <2>1. page.next = FirstCursor /\ page \in GrPage
    BY <1>12, <1>13, <1>15, <1>19 DEF GrPage, GrCursor
  <2>2. \A r \in found : Has(page.rows, r)
    BY <1>6, <1>11, <1>13, <1>17, <1>19
  <2> QED
    BY <1>13, <1>16, <1>18, <2>1, <2>2
<1>20. CASE n > size
  <2>1. sorted
    BY <1>12, <1>20
  <2>2. PICK l : l = rows[m]
    OBVIOUS
  <2>3. l \in found /\ rank[l] = m - 1 /\ l \in GRows
    BY <1>1, <1>11, <1>14, <1>20, <2>2
  <2>4. Last(page.rows) = l
    BY <1>13, <1>15, <2>2 DEF Last
  <2>5. page.next = CursorAt(l)
    BY <1>12, <1>20, <2>4 DEF CursorAt
  <2>6. sort_value(l) \in SortValues \cup {NullValue}
    BY <2>1, <2>3, SortValueIs
  <2>7. page.next \in GrCursor
    BY <2>3, <2>5, <2>6 DEF CursorAt, GrCursor
  <2>8. page \in GrPage
    BY <1>12, <1>13, <1>15, <2>7 DEF GrPage
  <2>9. \A r \in found : Has(page.rows, r) <=> ~Precedes(l, r)
    <3> SUFFICES ASSUME NEW r \in found PROVE Has(rows, r) <=> ~Precedes(l, r)
      BY <1>13
    <3>1. Precedes(l, r) <=> rank[l] < rank[r]
      BY <1>3, <1>6, <2>3
    <3>2. rank[l] < rank[r] <=> ~(rank[r] < m)
      BY <1>6, <1>11, <2>3
    <3> QED
      BY <1>17, <3>1, <3>2
  <2> QED
    BY <1>13, <1>16, <1>18, <2>1, <2>3, <2>5, <2>8, <2>9
<1> QED
  BY <1>19, <1>20

\* The page that a request has read fits what its scroll has served.
LEMMA PageFits ==
    ASSUME GrTyped, NEW w, w.search \in Searches, w.cursor \in GrCursor,
           w.page = keyset_page(w.search, w.cursor), ~w.page.fails
    PROVE  w.page \in GrPage /\ PageOK(w)
<1>1. PICK page, cursor, found : /\ page = w.page /\ cursor = w.cursor
                                 /\ found = {r \in filtered(w.search) : Beyond(r, w.cursor)}
  OBVIOUS
<1>2. /\ page = keyset_page(w.search, cursor) /\ cursor \in GrCursor /\ ~page.fails
      /\ found = {r \in filtered(w.search) : Beyond(r, cursor)}
  BY <1>1
<1>3. page \in GrPage /\ AllIn(page.rows, found)
  BY <1>2, PageIs
<1>4. \A i, j \in DOMAIN page.rows : i < j => Precedes(page.rows[i], page.rows[j])
  BY <1>2, PageIs
<1>5. \/ page.next = FirstCursor /\ \A r \in found : Has(page.rows, r)
      \/ /\ sorted
         /\ \E l \in found : /\ page.next = CursorAt(l)
                             /\ \A r \in found : Has(page.rows, r) <=> ~Precedes(l, r)
  BY <1>2, PageIs
<1>6. found \subseteq GRows /\ found \subseteq filtered(w.search)
  BY <1>2 DEF filtered
<1>7. InOrderOn(page.rows, Untouched(w)) /\ AllIn(page.rows, filtered(w.search))
  BY <1>3, <1>4, <1>6 DEF InOrderOn, AllIn
<1>8. \A r : Has(page.rows, r) => r \in found
  BY <1>3 DEF Has, AllIn
<1>9. page.next # FirstCursor => sorted
  BY <1>5
<1>10. ASSUME NEW r \in Untouched(w)
       PROVE  /\ Has(page.rows, r) <=> /\ Beyond(r, cursor)
                                       /\ page.next = FirstCursor \/ ~Beyond(r, page.next)
              /\ page.next # FirstCursor /\ ~Beyond(r, cursor) => ~Beyond(r, page.next)
  <2>1. /\ r \in filtered(w.search) /\ r \in GRows /\ sort_value(r) # NullValue
        /\ r \in found <=> Beyond(r, cursor)
    BY <1>2 DEF Untouched, filtered
  <2>2. CASE page.next = FirstCursor /\ \A c \in found : Has(page.rows, c)
    BY <1>8, <2>1, <2>2
  <2>3. CASE \E l \in found : /\ page.next = CursorAt(l)
                              /\ \A c \in found : Has(page.rows, c) <=> ~Precedes(l, c)
    <3>1. PICK l \in found : /\ page.next = CursorAt(l)
                             /\ \A c \in found : Has(page.rows, c) <=> ~Precedes(l, c)
      BY <2>3
    <3>2. l \in GRows /\ Beyond(l, cursor)
      BY <1>2, <1>6
    <3>3. Beyond(r, page.next) <=> Precedes(l, r)
      BY <2>1, <3>1, <3>2, BeyondIs
    <3>4. ~Beyond(r, cursor) => ~Beyond(r, page.next)
      BY <1>2, <2>1, <3>1, <3>2, PassedBefore
    <3>5. page.next # FirstCursor
      BY <3>1, <3>2, GridRowsAssumption DEF CursorAt, FirstCursor
    <3> QED
      BY <1>8, <2>1, <3>1, <3>3, <3>4, <3>5
  <2> QED
    BY <1>5, <2>2, <2>3
<1> QED
  BY <1>1, <1>3, <1>7, <1>9, <1>10 DEF PageOK

\* What a concatenation holds.
LEMMA HasBoth ==
    ASSUME NEW S, NEW a \in Seq(S), NEW b \in Seq(S), NEW r
    PROVE  Has(a \o b, r) <=> Has(a, r) \/ Has(b, r)
<1>1. /\ DOMAIN (a \o b) = 1 .. Len(a) + Len(b) /\ DOMAIN a = 1 .. Len(a) /\ DOMAIN b = 1 .. Len(b)
      /\ Len(a) \in Nat /\ Len(b) \in Nat
      /\ \A i \in 1 .. Len(a) : (a \o b)[i] = a[i]
      /\ \A i \in Len(a) + 1 .. Len(a) + Len(b) : (a \o b)[i] = b[i - Len(a)]
  OBVIOUS
<1>2. PICK c, m, n : c = a \o b /\ m = Len(a) /\ n = Len(b)
  OBVIOUS
<1>3. /\ DOMAIN c = 1 .. m + n /\ DOMAIN a = 1 .. m /\ DOMAIN b = 1 .. n
      /\ m \in Nat /\ n \in Nat
      /\ \A i \in 1 .. m : c[i] = a[i]
      /\ \A i \in m + 1 .. m + n : c[i] = b[i - m]
  BY <1>1, <1>2
<1>4. ASSUME Has(c, r) PROVE Has(a, r) \/ Has(b, r)
  <2>1. PICK i \in 1 .. m + n : c[i] = r
    BY <1>3, <1>4 DEF Has
  <2>2. i \in 1 .. m \/ (i \in m + 1 .. m + n /\ i - m \in 1 .. n)
    BY <1>3, <2>1
  <2> QED
    BY <1>3, <2>1, <2>2 DEF Has
<1>5. ASSUME Has(a, r) PROVE Has(c, r)
  <2>1. PICK i \in 1 .. m : a[i] = r
    BY <1>3, <1>5 DEF Has
  <2>2. i \in 1 .. m + n
    BY <1>3, <2>1
  <2> QED
    BY <1>3, <2>1, <2>2 DEF Has
<1>6. ASSUME Has(b, r) PROVE Has(c, r)
  <2>1. PICK i \in 1 .. n : b[i] = r
    BY <1>3, <1>6 DEF Has
  <2>2. PICK j : j = i + m
    OBVIOUS
  <2>3. j \in m + 1 .. m + n /\ j \in 1 .. m + n /\ j - m = i
    BY <1>3, <2>1, <2>2
  <2>4. c[j] = r
    BY <1>3, <2>1, <2>3
  <2> QED
    BY <1>3, <2>3, <2>4 DEF Has
<1> QED
  BY <1>2, <1>4, <1>5, <1>6

\* Rows that are in order stay so when rows that come after them are added.
LEMMA InOrderBoth ==
    ASSUME NEW a \in Seq(GRows), NEW b \in Seq(GRows), NEW S, InOrderOn(a, S), InOrderOn(b, S),
           \A x, y \in S : Has(a, x) /\ Has(b, y) => Precedes(x, y)
    PROVE  InOrderOn(a \o b, S)
<1>1. PICK c, m, n : c = a \o b /\ m = Len(a) /\ n = Len(b)
  OBVIOUS
<1>2. /\ DOMAIN c = 1 .. m + n /\ DOMAIN a = 1 .. m /\ DOMAIN b = 1 .. n
      /\ m \in Nat /\ n \in Nat
      /\ \A i \in 1 .. m : c[i] = a[i]
      /\ \A i \in m + 1 .. m + n : c[i] = b[i - m]
  BY <1>1
<1>3. ASSUME NEW i \in 1 .. m + n, NEW j \in 1 .. m + n, i < j, c[i] \in S, c[j] \in S
      PROVE  Precedes(c[i], c[j])
  <2>1. CASE j \in 1 .. m
    <3>1. i \in 1 .. m /\ c[i] = a[i] /\ c[j] = a[j]
      BY <1>2, <1>3, <2>1
    <3> QED
      BY <1>2, <1>3, <2>1, <3>1 DEF InOrderOn
  <2>2. CASE i \in m + 1 .. m + n
    <3>1. /\ i - m \in 1 .. n /\ j - m \in 1 .. n /\ i - m < j - m
          /\ c[i] = b[i - m] /\ c[j] = b[j - m]
      BY <1>2, <1>3, <2>2
    <3> QED
      BY <1>2, <1>3, <3>1 DEF InOrderOn
  <2>3. CASE i \in 1 .. m /\ j \in m + 1 .. m + n
    <3>1. j - m \in 1 .. n /\ c[i] = a[i] /\ c[j] = b[j - m]
      BY <1>2, <2>3
    <3>2. Has(a, c[i]) /\ Has(b, c[j])
      BY <1>2, <2>3, <3>1 DEF Has
    <3> QED
      BY <1>3, <3>2
  <2> QED
    BY <1>2, <1>3, <2>1, <2>2, <2>3
<1>4. \A i, j \in DOMAIN c : i < j /\ c[i] \in S /\ c[j] \in S => Precedes(c[i], c[j])
  BY <1>2, <1>3
<1> QED
  BY <1>1, <1>4 DEF InOrderOn

\* An answer adds the page to what was served and moves the cursor on.
LEMMA AnswerFits ==
    ASSUME GrTyped, NEW w \in AskedScroll, ScrollOK(w),
           NEW v, v = WithAnswer(w, IF w.page.next = FirstCursor THEN "end" ELSE "open",
                                 w.rows \o w.page.rows, w.page.next)
    PROVE  ScrollOK(v)
<1>1. PICK old, page, next, cursor, U :
          /\ old = w.rows /\ page = w.page.rows /\ next = w.page.next /\ cursor = w.cursor
          /\ U = Untouched(w)
  OBVIOUS
<1>2. /\ w.page \in GrPage /\ w.rows \in Seq(GRows) /\ w.cursor \in GrCursor /\ w.pc = "asked"
  BY DEF AskedScroll
<1>3. old \in Seq(GRows) /\ page \in Seq(GRows) /\ next \in GrCursor /\ cursor \in GrCursor
  BY <1>1, <1>2 DEF GrPage
<1>4. /\ v.rows = old \o page /\ v.cursor = next /\ v.search = w.search /\ v.moved = w.moved
      /\ v.total = w.total /\ v.counted = w.counted
      /\ v.pc = IF next = FirstCursor THEN "end" ELSE "open"
  BY <1>1 DEF WithAnswer
<1>5. Untouched(v) = U
  BY <1>1, <1>4 DEF Untouched
<1>6. ServedOK(w) /\ PageOK(w) /\ InOrderOn(old, U)
  BY <1>1, <1>2 DEF ScrollOK
<1>7. \A r \in U : Has(old, r) <=> ~Beyond(r, cursor)
  BY <1>1, <1>2, <1>6 DEF ServedOK
<1>8. \A r \in U :
          /\ Has(page, r) <=> Beyond(r, cursor) /\ (next = FirstCursor \/ ~Beyond(r, next))
          /\ next # FirstCursor /\ ~Beyond(r, cursor) => ~Beyond(r, next)
  BY <1>1, <1>6 DEF PageOK
<1>9. InOrderOn(page, U) /\ (next # FirstCursor => sorted)
  BY <1>1, <1>6 DEF PageOK
<1>10. \A r \in U : r \in GRows /\ sort_value(r) # NullValue
  BY <1>1 DEF Untouched, filtered
<1>11. PICK rows : rows = old \o page
  OBVIOUS
<1>12. \A r : Has(rows, r) <=> Has(old, r) \/ Has(page, r)
  BY <1>3, <1>11, HasBoth
<1>13. InOrderOn(rows, U)
  <2>1. ASSUME NEW x \in U, NEW y \in U, Has(old, x), Has(page, y) PROVE Precedes(x, y)
    <3>1. ~Beyond(x, cursor) /\ Beyond(y, cursor)
      BY <1>7, <1>8, <2>1
    <3> QED
      BY <1>3, <1>10, <3>1, PassedBefore
  <2>2. InOrderOn(old \o page, U)
    BY <1>3, <1>6, <1>9, <2>1, InOrderBoth
  <2> QED
    BY <1>11, <2>2
<1>14. ServedOK(v)
  <2>1. next = FirstCursor => \A r \in U : Has(rows, r)
    BY <1>7, <1>8, <1>12
  <2>2. next # FirstCursor => \A r \in U : Has(rows, r) <=> ~Beyond(r, next)
    BY <1>7, <1>8, <1>12
  <2> QED
    BY <1>4, <1>5, <1>11, <2>1, <2>2 DEF ServedOK
<1>15. v.moved = {} => /\ AllIn(v.rows, filtered(v.search))
                       /\ v.counted => v.total = Cardinality(filtered(v.search))
  <2>1. w.moved = {} => AllIn(old, filtered(w.search)) /\ AllIn(page, filtered(w.search))
    BY <1>1, <1>2, <1>6 DEF ScrollOK, PageOK
  <2>2. \A i \in DOMAIN rows : Has(old, rows[i]) \/ Has(page, rows[i])
    <3>1. \A i \in DOMAIN rows : Has(rows, rows[i])
      BY DEF Has
    <3> QED
      BY <1>12, <3>1
  <2>3. w.moved = {} => AllIn(rows, filtered(w.search))
    BY <2>1, <2>2 DEF AllIn, Has
  <2>4. w.moved = {} /\ w.counted => w.total = Cardinality(filtered(w.search))
    BY <1>2 DEF ScrollOK
  <2> QED
    BY <1>4, <1>11, <2>3, <2>4
<1>16. v.pc # "asked"
  BY <1>4
<1> QED
  BY <1>4, <1>5, <1>9, <1>11, <1>13, <1>14, <1>15, <1>16 DEF ScrollOK

\* A step that leaves the records and the view leaves what the scrolls rest on.
LEMMA SameTable ==
    ASSUME grows' = grows, sorted' = sorted, NEW w, ScrollOK(w)
    PROVE  ScrollOK(w)'
<1>1. /\ filtered(w.search)' = filtered(w.search) /\ Untouched(w)' = Untouched(w)
      /\ \A a, b : Precedes(a, b)' <=> Precedes(a, b)
      /\ \A r, c : Beyond(r, c)' <=> Beyond(r, c)
  BY DEF filtered, Untouched, Precedes, Beyond, sort_value
<1>2. ServedOK(w)' <=> ServedOK(w)
  BY <1>1 DEF ServedOK, Has
<1>3. \A rows, S : InOrderOn(rows, S)' <=> InOrderOn(rows, S)
  BY <1>1 DEF InOrderOn
<1>4. PageOK(w)' <=> PageOK(w)
  BY <1>1, <1>3 DEF PageOK, Has, AllIn
<1> QED
  BY <1>1, <1>2, <1>3, <1>4 DEF ScrollOK, AllIn

\* The n-th of a set of positions, and what a sequence has at them.
NthOf(T, i) == CHOOSE t \in T : Cardinality({u \in T : u < t}) = i - 1
SeqOn(list, T) == [i \in 1 .. Cardinality(T) |-> list[NthOf(T, i)]]

\* Each position is the n-th for one n, and they come in order.
NthOK(T, n) ==
    /\ \A i \in 1 .. n : NthOf(T, i) \in T /\ Cardinality({u \in T : u < NthOf(T, i)}) = i - 1
    /\ \A t \in T : \E i \in 1 .. n : NthOf(T, i) = t
    /\ \A i, j \in 1 .. n : i < j => NthOf(T, i) < NthOf(T, j)
    /\ \A i \in 1 .. n, t \in T : Cardinality({u \in T : u < t}) = i - 1 => NthOf(T, i) = t

\* A bounded set of positions has its n-th ones.
LEMMA NthIs ==
    ASSUME NEW n \in Nat, NEW T \in SUBSET (1 .. n), NEW m, m = Cardinality(T)
    PROVE  IsFiniteSet(T) /\ m \in Nat /\ NthOK(T, m)
<1>1. IsFiniteSet(T)
  <2>1. IsFiniteSet(1 .. n)
    BY FS_Interval
  <2> QED
    BY <2>1, FS_Subset
<1>2. PICK less : less = {p \in T \X T : p[1] < p[2]}
  OBVIOUS
<1>3. \A c, d \in T : <<c, d>> \in less <=> c < d
  BY <1>2
<1>4. IsOrderOn(less, T)
  BY <1>3 DEF IsOrderOn
<1>5. PICK rank : rank = RankIn(T, less)
  OBVIOUS
<1>6. m \in Nat /\ RanksOK(T, less, m, rank)
  <2>1. IsFiniteSet(T) /\ IsOrderOn(less, T) /\ m = Cardinality(T) /\ rank = RankIn(T, less)
    BY <1>1, <1>4, <1>5
  <2> QED
    BY <2>1, RanksAre
<1>7. \A c \in T : rank[c] \in 0 .. m - 1
  BY <1>6 DEF RanksOK
<1>8. \A c, d \in T : <<c, d>> \in less <=> rank[c] < rank[d]
  BY <1>6 DEF RanksOK
<1>9. \A c, d \in T : rank[c] = rank[d] => c = d
  BY <1>6 DEF RanksOK
<1>10. \A k \in 0 .. m - 1 : \E c \in T : rank[c] = k
  BY <1>6 DEF RanksOK
<1>11. ASSUME NEW t \in T PROVE Cardinality({u \in T : u < t}) = rank[t]
  <2>1. {u \in T : u < t} = {u \in T : <<u, t>> \in less}
    BY <1>3
  <2> QED
    BY <1>5, <2>1 DEF RankIn
<1>12. ASSUME NEW i \in 1 .. m PROVE NthOf(T, i) \in T /\ rank[NthOf(T, i)] = i - 1
  <2>1. i - 1 \in 0 .. m - 1
    BY <1>6
  <2>2. \E t \in T : Cardinality({u \in T : u < t}) = i - 1
    BY <1>10, <1>11, <2>1
  <2>3. NthOf(T, i) \in T /\ Cardinality({u \in T : u < NthOf(T, i)}) = i - 1
    BY <2>2 DEF NthOf
  <2> QED
    BY <1>11, <2>3
<1>13. ASSUME NEW t \in T PROVE \E i \in 1 .. m : NthOf(T, i) = t
  <2>1. PICK i : i = rank[t] + 1
    OBVIOUS
  <2>2. i \in 1 .. m /\ i - 1 = rank[t]
    BY <1>6, <1>7, <2>1
  <2> QED
    BY <1>9, <1>12, <2>2
<1>14. ASSUME NEW i \in 1 .. m, NEW j \in 1 .. m, i < j PROVE NthOf(T, i) < NthOf(T, j)
  <2>1. rank[NthOf(T, i)] < rank[NthOf(T, j)]
    BY <1>6, <1>12, <1>14
  <2> QED
    BY <1>3, <1>8, <1>12, <2>1
<1>15. \A i \in 1 .. m, t \in T : Cardinality({u \in T : u < t}) = i - 1 => NthOf(T, i) = t
  BY <1>9, <1>11, <1>12
<1> QED
  BY <1>1, <1>6, <1>11, <1>12, <1>13, <1>14, <1>15 DEF NthOK

\* A position behind all the others adds its element at the end.
LEMMA SeqOnNext ==
    ASSUME NEW list, NEW n \in Nat, NEW T \in SUBSET (1 .. n), NEW m \in 1 .. n,
           \A t \in T : t < m
    PROVE  SeqOn(list, T \cup {m}) = Append(SeqOn(list, T), list[m])
<1>1. PICK V, k : V = T \cup {m} /\ k = Cardinality(T)
  OBVIOUS
<1>2. V \in SUBSET (1 .. n) /\ m \notin T /\ m \in V
  BY <1>1
<1>3. IsFiniteSet(T) /\ k \in Nat /\ NthOK(T, k)
  BY <1>1, NthIs
<1>4. Cardinality(V) = k + 1 /\ NthOK(V, k + 1)
  <2>1. Cardinality(V) = k + 1
    BY <1>1, <1>2, <1>3, FS_AddElement
  <2>2. \A c : c = Cardinality(V) => NthOK(V, c)
    BY <1>2, NthIs
  <2> QED
    BY <2>1, <2>2
<1>5. ASSUME NEW i \in 1 .. k PROVE NthOf(V, i) = NthOf(T, i)
  <2>1. PICK t \in T : t = NthOf(T, i) /\ Cardinality({u \in T : u < t}) = i - 1
    BY <1>3 DEF NthOK
  <2>2. {u \in V : u < t} = {u \in T : u < t}
    BY <1>1, <1>2
  <2>3. t \in V /\ i \in 1 .. Cardinality(V)
    BY <1>1, <1>3, <1>4
  <2>4. Cardinality({u \in V : u < t}) = i - 1
    BY <2>1, <2>2
  <2> QED
    BY <1>4, <2>1, <2>3, <2>4 DEF NthOK
<1>6. NthOf(V, k + 1) = m
  <2>1. {u \in V : u < m} = T
    <3>1. m \in Int /\ ~(m < m)
      OBVIOUS
    <3>2. \A u : u \in V /\ u < m <=> u \in T
      BY <1>1, <3>1
    <3> QED
      BY <3>2
  <2>2. Cardinality({u \in V : u < m}) = (k + 1) - 1 /\ k + 1 \in 1 .. Cardinality(V)
    <3>1. (k + 1) - 1 = k /\ k + 1 \in 1 .. k + 1
      BY <1>3
    <3> QED
      BY <1>1, <1>4, <2>1, <3>1
  <2> QED
    BY <1>2, <1>4, <2>2 DEF NthOK
<1>7. PICK s : s = SeqOn(list, T)
  OBVIOUS
<1>8. s = [i \in 1 .. k |-> list[NthOf(T, i)]]
  BY <1>1, <1>7 DEF SeqOn
<1>9. Len(s) = k
  BY <1>3, <1>8
<1>10. Append(s, list[m]) = [i \in 1 .. k + 1 |-> IF i = k + 1 THEN list[m] ELSE s[i]]
  BY <1>3, <1>8, <1>9
<1>11. SeqOn(list, V) = [i \in 1 .. k + 1 |-> list[NthOf(V, i)]]
  BY <1>4 DEF SeqOn
<1>12. \A i \in 1 .. k + 1 : list[NthOf(V, i)] = IF i = k + 1 THEN list[m] ELSE s[i]
  <2> SUFFICES ASSUME NEW i \in 1 .. k + 1
               PROVE  list[NthOf(V, i)] = IF i = k + 1 THEN list[m] ELSE s[i]
    OBVIOUS
  <2>1. i = k + 1 \/ i \in 1 .. k
    BY <1>3
  <2> QED
    BY <1>5, <1>6, <1>8, <2>1
<1> QED
  BY <1>1, <1>7, <1>10, <1>11, <1>12

\* What the fold of Others keeps of any set of positions.
KeepNext(kept, s, search) == IF s = search THEN kept ELSE Append(kept, s)
OtherIn(list, search, s) == {i \in s : list[i] # search}

\* One step of the fold adds its element unless it is the search.
LEMMA OthersStep ==
    ASSUME NEW list, NEW search, NEW n \in Nat, NEW s \in SUBSET (1 .. n), s # {}
    PROVE  SeqOn(list, OtherIn(list, search, s)) =
              KeepNext(SeqOn(list, OtherIn(list, search, s \ {Max(s)})), list[Max(s)], search)
<1>1. PICK m : m = Max(s)
  OBVIOUS
<1>2. m \in s /\ m \in 1 .. n /\ \A j \in s : j <= m
  BY <1>1, FirstAndLast
<1>3. PICK T : T = OtherIn(list, search, s \ {m})
  OBVIOUS
<1>4. T \in SUBSET (1 .. n) /\ \A t \in T : t \in s /\ t # m
  BY <1>3 DEF OtherIn
<1>5. \A t \in T : t < m
  BY <1>2, <1>4
<1>6. CASE list[m] = search
  <2>1. OtherIn(list, search, s) = T
    BY <1>3, <1>6 DEF OtherIn
  <2> QED
    BY <1>1, <1>3, <1>6, <2>1 DEF KeepNext
<1>7. CASE list[m] # search
  <2>1. OtherIn(list, search, s) = T \cup {m}
    BY <1>2, <1>3, <1>7 DEF OtherIn
  <2>2. SeqOn(list, T \cup {m}) = Append(SeqOn(list, T), list[m])
    BY <1>2, <1>4, <1>5, SeqOnNext
  <2> QED
    BY <1>1, <1>3, <1>7, <2>1, <2>2 DEF KeepNext
<1> QED
  BY <1>6, <1>7

\* Others leaves the entries that are not the search, in their order.
LEMMA OthersIs ==
    ASSUME NEW list, NEW n \in Nat, DOMAIN list = 1 .. n, NEW search
    PROVE  Others(list, search) = SeqOn(list, OtherIn(list, search, 1 .. n))
<1> DEFINE D == 1 .. n
           Folds(h) == h = [s \in SUBSET D |-> IF s = {} THEN << >> ELSE
                               KeepNext(h[s \ {Max(s)}], list[Max(s)], search)]
           R == StrictSubsetOrdering(D)
<1>1. Others(list, search) = (CHOOSE h : Folds(h))[D]
  BY DEF Others, FoldLeft, MapThenFoldSet, KeepNext
<1>2. PICK kept : kept = [s \in SUBSET D |-> SeqOn(list, OtherIn(list, search, s))]
  OBVIOUS
<1>3. Folds(kept)
  <2>1. \A s \in SUBSET D : s \ {Max(s)} \in SUBSET D
    OBVIOUS
  <2>2. ASSUME NEW s \in SUBSET D
        PROVE  kept[s] = IF s = {} THEN << >> ELSE
                            KeepNext(kept[s \ {Max(s)}], list[Max(s)], search)
    <3>1. CASE s = {}
      <4>1. OtherIn(list, search, s) = {} /\ Cardinality({}) = 0
        BY <3>1, FS_EmptySet DEF OtherIn
      <4>2. SeqOn(list, {}) = << >>
        BY <4>1 DEF SeqOn
      <4> QED
        BY <1>2, <3>1, <4>1, <4>2
    <3>2. CASE s # {}
      BY <1>2, <2>1, <3>2, OthersStep
    <3> QED
      BY <3>1, <3>2
  <2> HIDE DEF D
  <2> QED
    BY <1>2, <2>2
<1>4. PICK h : h = CHOOSE g : Folds(g)
  OBVIOUS
<1>5. Folds(h)
  BY <1>3, <1>4
<1>6. IsWellFoundedOn(R, SUBSET D)
  <2>1. IsFiniteSet(D)
    BY FS_Interval
  <2> QED
    BY <2>1, SubsetsWellFounded
<1>7. \A s \in SUBSET D : h[s] = kept[s]
  <2> SUFFICES ASSUME ~ \A s \in SUBSET D : h[s] = kept[s] PROVE FALSE
    OBVIOUS
  <2>1. PICK U : U = {s \in SUBSET D : h[s] # kept[s]}
    OBVIOUS
  <2> HIDE DEF R, Folds
  <2>2. PICK s \in U : \A other \in U : ~(<<other, s>> \in R)
    <3>1. PICK P : P = SUBSET D
      OBVIOUS
    <3>2. U \subseteq P /\ U # {} /\ IsWellFoundedOn(R, P)
      BY <1>6, <2>1, <3>1
    <3> QED
      BY <3>2, WFMin
  <2>3. s \in SUBSET D /\ h[s] # kept[s]
    BY <2>1, <2>2
  <2>4. s # {}
    BY <1>3, <1>5, <2>3 DEF Folds
  <2>5. Max(s) \in s
    BY <2>3, <2>4, FirstAndLast
  <2>6. s \ {Max(s)} \in SUBSET D /\ <<s \ {Max(s)}, s>> \in R
    BY <2>3, <2>5 DEF R, StrictSubsetOrdering
  <2>7. h[s \ {Max(s)}] = kept[s \ {Max(s)}]
    BY <2>1, <2>2, <2>6
  <2>8. h[s] = KeepNext(h[s \ {Max(s)}], list[Max(s)], search)
    BY <1>5, <2>3, <2>4 DEF Folds
  <2>9. kept[s] = KeepNext(kept[s \ {Max(s)}], list[Max(s)], search)
    BY <1>3, <2>3, <2>4 DEF Folds
  <2> QED
    BY <2>3, <2>7, <2>8, <2>9
<1> QED
  BY <1>1, <1>2, <1>4, <1>7

\* What is left of a list of different searches: all but one of them at most,
\* and the others in their order.
OthersOK(list, search, o) ==
    /\ o \in Seq(Armed) /\ Len(o) <= Len(list) /\ Len(list) <= Len(o) + 1
    /\ \A i \in 1 .. Len(o) :
          \E k \in 1 .. Len(list) : o[i] = list[k] /\ list[k] # search
    /\ \A k \in 1 .. Len(list) : list[k] # search => \E i \in 1 .. Len(o) : o[i] = list[k]
    /\ \A i, j \in 1 .. Len(o) : i < j =>
          \E k, m \in 1 .. Len(list) : k < m /\ o[i] = list[k] /\ o[j] = list[m]

\* Others keeps the order of the list and leaves out the one search.
LEMMA OthersFit ==
    ASSUME NEW list \in Seq(Armed), NEW search,
           \A i, j \in DOMAIN list : list[i] = list[j] => i = j
    PROVE  OthersOK(list, search, Others(list, search))
<1>1. PICK n : n = Len(list)
  OBVIOUS
<1>2. n \in Nat /\ DOMAIN list = 1 .. n /\ \A i \in 1 .. n : list[i] \in Armed
  BY <1>1
<1>3. PICK T : T = OtherIn(list, search, 1 .. n)
  OBVIOUS
<1>4. T \in SUBSET (1 .. n) /\ \A k \in 1 .. n : k \in T <=> list[k] # search
  BY <1>3 DEF OtherIn
<1>5. PICK m : m = Cardinality(T)
  OBVIOUS
<1>6. IsFiniteSet(T) /\ m \in Nat /\ NthOK(T, m)
  BY <1>2, <1>4, <1>5, NthIs
<1>7. PICK o : o = Others(list, search)
  OBVIOUS
<1>8. o = [i \in 1 .. m |-> list[NthOf(T, i)]]
  BY <1>2, <1>3, <1>5, <1>7, OthersIs DEF SeqOn
<1>9. \A i \in 1 .. m : NthOf(T, i) \in T /\ NthOf(T, i) \in 1 .. n /\ o[i] = list[NthOf(T, i)]
  BY <1>4, <1>6, <1>8 DEF NthOK
<1>10. o \in Seq(Armed) /\ Len(o) = m
  <2>1. o \in [1 .. m -> Armed]
    BY <1>2, <1>8, <1>9
  <2> QED
    BY <1>6, <2>1
<1>11. m <= n /\ n <= m + 1
  <2>1. IsFiniteSet(1 .. n) /\ Cardinality(1 .. n) = n
    BY <1>2, FS_Interval
  <2>2. m <= n
    <3>1. PICK D : D = 1 .. n
      OBVIOUS
    <3>2. IsFiniteSet(D) /\ Cardinality(D) = n /\ T \in SUBSET D
      BY <1>4, <2>1, <3>1
    <3>3. Cardinality(T) <= Cardinality(D)
      BY <3>2, FS_Subset
    <3> QED
      BY <1>5, <3>2, <3>3
  <2>3. CASE \E k \in 1 .. n : list[k] = search
    <3>1. PICK k \in 1 .. n : list[k] = search
      BY <2>3
    <3>2. T = (1 .. n) \ {k}
      BY <1>2, <1>4, <3>1
    <3>3. m = n - 1
      BY <1>5, <2>1, <3>2, FS_RemoveElement
    <3> QED
      BY <1>2, <2>2, <3>3
  <2>4. CASE ~ \E k \in 1 .. n : list[k] = search
    <3>1. T = 1 .. n
      BY <1>4, <2>4
    <3> QED
      BY <1>2, <1>5, <2>1, <3>1
  <2> QED
    BY <2>3, <2>4
<1>12. \A i \in 1 .. m : \E k \in 1 .. n : o[i] = list[k] /\ list[k] # search
  BY <1>4, <1>9
<1>13. \A k \in 1 .. n : list[k] # search => \E i \in 1 .. m : o[i] = list[k]
  BY <1>4, <1>6, <1>9 DEF NthOK
<1>14. \A i, j \in 1 .. m : i < j =>
          \E k, l \in 1 .. n : k < l /\ o[i] = list[k] /\ o[j] = list[l]
  BY <1>6, <1>9 DEF NthOK
<1> QED
  BY <1>1, <1>7, <1>10, <1>11, <1>12, <1>13, <1>14 DEF OthersOK

\* A search that ran has a newest request, and only one.
LEMMA NewestIs ==
    ASSUME NEW r, NEW n \in Nat, DOMAIN r = 1 .. n, NEW s, Has(r, s)
    PROVE  /\ NewestIn(r, s) \in 1 .. n /\ r[NewestIn(r, s)] = s
           /\ \A j \in 1 .. n : r[j] = s => j <= NewestIn(r, s)
<1>1. PICK T : T = {i \in 1 .. n : r[i] = s}
  OBVIOUS
<1>2. T \in SUBSET (1 .. n) /\ T # {}
  BY <1>1 DEF Has
<1>3. Max(T) \in T /\ \A j \in T : j <= Max(T)
  BY <1>2, FirstAndLast
<1>4. \E i \in DOMAIN r : r[i] = s /\ \A j \in DOMAIN r : r[j] = s => j <= i
  BY <1>1, <1>3
<1> QED
  BY <1>4 DEF NewestIn

\* A position behind which the element is not found is its newest.
LEMMA NewestIsOnly ==
    ASSUME NEW r, NEW n \in Nat, DOMAIN r = 1 .. n, NEW s, NEW i \in 1 .. n, r[i] = s,
           \A j \in 1 .. n : r[j] = s => j <= i
    PROVE  NewestIn(r, s) = i
<1>1. Has(r, s)
  BY DEF Has
<1>2. PICK k : k = NewestIn(r, s)
  OBVIOUS
<1>3. k \in 1 .. n /\ r[k] = s /\ \A j \in 1 .. n : r[j] = s => j <= k
  BY <1>1, <1>2, NewestIs
<1>4. i <= k /\ k <= i
  BY <1>3
<1> QED
  BY <1>2, <1>3, <1>4

\* A search that runs becomes the newest, and the others stay as they were.
LEMMA NewestNext ==
    ASSUME NEW r \in Seq(Armed), NEW s \in Armed
    PROVE  /\ NewestIn(Append(r, s), s) = Len(r) + 1
           /\ \A x : x # s /\ Has(r, x) =>
                 /\ Has(Append(r, s), x) /\ NewestIn(Append(r, s), x) = NewestIn(r, x)
                 /\ NewestIn(r, x) \in 1 .. Len(r)
<1>1. PICK n, a : n = Len(r) /\ a = Append(r, s)
  OBVIOUS
<1>2. /\ n \in Nat /\ DOMAIN r = 1 .. n /\ DOMAIN a = 1 .. n + 1 /\ a[n + 1] = s
      /\ \A i \in 1 .. n : a[i] = r[i]
  BY <1>1
<1>3. NewestIn(a, s) = n + 1
  <2>1. n + 1 \in Nat /\ n + 1 \in 1 .. n + 1 /\ \A j \in 1 .. n + 1 : a[j] = s => j <= n + 1
    BY <1>2
  <2> QED
    BY <1>2, <2>1, NewestIsOnly
<1>4. ASSUME NEW x, x # s, Has(r, x)
      PROVE  Has(a, x) /\ NewestIn(a, x) = NewestIn(r, x) /\ NewestIn(r, x) \in 1 .. n
  <2>1. PICK k : k = NewestIn(r, x)
    OBVIOUS
  <2>2. k \in 1 .. n /\ r[k] = x /\ \A j \in 1 .. n : r[j] = x => j <= k
    BY <1>2, <1>4, <2>1, NewestIs
  <2>3. n + 1 \in Nat /\ k \in 1 .. n + 1 /\ a[k] = x
    BY <1>2, <2>2
  <2>4. \A j \in 1 .. n + 1 : a[j] = x => j <= k
    <3> SUFFICES ASSUME NEW j \in 1 .. n + 1, a[j] = x PROVE j <= k
      OBVIOUS
    <3>1. j # n + 1
      BY <1>2, <1>4
    <3>2. j \in 1 .. n
      BY <1>2, <3>1
    <3> QED
      BY <1>2, <2>2, <3>2
  <2>5. NewestIn(a, x) = k
    BY <1>2, <2>3, <2>4, NewestIsOnly
  <2> QED
    BY <1>2, <2>1, <2>2, <2>3, <2>5 DEF Has
<1> QED
  BY <1>1, <1>3, <1>4

\* The first entries of a list.
LEMMA FirstEntries ==
    ASSUME NEW S, NEW list \in Seq(S), NEW m \in Nat, m <= Len(list)
    PROVE  /\ SubSeq(list, 1, m) \in Seq(S) /\ Len(SubSeq(list, 1, m)) = m
           /\ \A i \in 1 .. m : SubSeq(list, 1, m)[i] = list[i]
  OBVIOUS

\* Remembering a search that ran gives the list of what ran, with it.
LEMMA RememberFits ==
    ASSUME NEW list \in Seq(Armed), NEW r \in Seq(Armed), NEW s \in Armed, RecallOK(list, r)
    PROVE  /\ remember_search(list, s) \in Seq(Armed)
           /\ RecallOK(remember_search(list, s), Append(r, s))
<1>1. PICK o, n, m, lim : o = Others(list, s) /\ n = Len(list) /\ m = Len(o) /\ lim = RECENT_SEARCH_LIMIT
  OBVIOUS
<1>2. lim \in Nat \ {0} /\ n \in Nat /\ DOMAIN list = 1 .. n
  BY <1>1, GridRowsAssumption
<1>3. /\ n <= lim
      /\ \A i, j \in 1 .. n : list[i] = list[j] => i = j
      /\ \A i \in 1 .. n : Has(r, list[i])
      /\ \A i, j \in 1 .. n : i < j => NewestIn(r, list[j]) < NewestIn(r, list[i])
      /\ \A k \in DOMAIN r : Has(list, r[k]) \/
            /\ n = lim
            /\ \A i \in 1 .. n : NewestIn(r, r[k]) < NewestIn(r, list[i])
  BY <1>1, <1>2 DEF RecallOK
<1>4. OthersOK(list, s, o)
  BY <1>1, <1>2, <1>3, OthersFit
<1>5. /\ o \in Seq(Armed) /\ m \in Nat /\ m <= n /\ n <= m + 1 /\ DOMAIN o = 1 .. m
      /\ \A i \in 1 .. m : \E k \in 1 .. n : o[i] = list[k] /\ list[k] # s
      /\ \A k \in 1 .. n : list[k] # s => \E i \in 1 .. m : o[i] = list[k]
      /\ \A i, j \in 1 .. m : i < j => \E k, l \in 1 .. n : k < l /\ o[i] = list[k] /\ o[j] = list[l]
  BY <1>1, <1>4 DEF OthersOK
<1>6. PICK w : w = <<s>> \o o
  OBVIOUS
<1>7. /\ w \in Seq(Armed) /\ Len(w) = m + 1 /\ w[1] = s
      /\ \A i \in 2 .. m + 1 : w[i] = o[i - 1]
  BY <1>1, <1>5, <1>6
<1>8. PICK c : c = IF m + 1 < lim THEN m + 1 ELSE lim
  OBVIOUS
<1>9. c \in Nat /\ c <= m + 1 /\ c <= lim /\ 1 <= c /\ (c = m + 1 \/ c = lim)
  BY <1>2, <1>5, <1>8
<1>10. PICK v : v = remember_search(list, s)
  OBVIOUS
<1>11. v = SubSeq(w, 1, c)
  <2>1. v = SubSeq(w, 1, IF Len(w) < RECENT_SEARCH_LIMIT THEN Len(w) ELSE RECENT_SEARCH_LIMIT)
    BY <1>1, <1>6, <1>10 DEF remember_search
  <2> QED
    BY <1>1, <1>7, <1>8, <2>1
<1>12. /\ v \in Seq(Armed) /\ Len(v) = c /\ DOMAIN v = 1 .. c
       /\ \A i \in 1 .. c : v[i] = w[i]
  <2>1. v \in Seq(Armed) /\ Len(v) = c /\ \A i \in 1 .. c : v[i] = w[i]
    BY <1>7, <1>9, <1>11, FirstEntries
  <2> QED
    BY <2>1
<1>13. v[1] = s /\ \A i \in 2 .. c : i - 1 \in 1 .. m /\ v[i] = o[i - 1]
  BY <1>5, <1>7, <1>9, <1>12
<1>14. PICK a, z : a = Append(r, s) /\ z = Len(r)
  OBVIOUS
<1>15. z \in Nat /\ DOMAIN r = 1 .. z /\ DOMAIN a = 1 .. z + 1 /\ a[z + 1] = s /\ \A k \in 1 .. z : a[k] = r[k]
  BY <1>14
<1>16. NewestIn(a, s) = z + 1
  BY <1>14, NewestNext
<1>17. \A x : x # s /\ Has(r, x) =>
          Has(a, x) /\ NewestIn(a, x) = NewestIn(r, x) /\ NewestIn(r, x) \in 1 .. z
  BY <1>14, NewestNext
<1>18. ASSUME NEW i \in 1 .. m
       PROVE  /\ o[i] # s /\ Has(r, o[i]) /\ NewestIn(a, o[i]) = NewestIn(r, o[i])
              /\ NewestIn(r, o[i]) \in 1 .. z /\ Has(a, o[i])
  BY <1>3, <1>5, <1>17
<1>19. ASSUME NEW i \in 1 .. m, NEW j \in 1 .. m, i < j
       PROVE  NewestIn(a, o[j]) < NewestIn(a, o[i])
  <2>1. PICK k \in 1 .. n, l \in 1 .. n : k < l /\ o[i] = list[k] /\ o[j] = list[l]
    BY <1>5, <1>19
  <2>2. NewestIn(r, list[l]) < NewestIn(r, list[k])
    BY <1>3, <2>1
  <2>3. NewestIn(a, o[i]) = NewestIn(r, o[i]) /\ NewestIn(a, o[j]) = NewestIn(r, o[j])
    BY <1>18
  <2> QED
    BY <2>1, <2>2, <2>3
<1>20. \A i, j \in 1 .. m : o[i] = o[j] => i = j
  <2> SUFFICES ASSUME NEW i \in 1 .. m, NEW j \in 1 .. m, o[i] = o[j], i # j PROVE FALSE
    OBVIOUS
  <2>1. NewestIn(a, o[i]) \in Int /\ NewestIn(a, o[j]) = NewestIn(a, o[i])
    BY <1>15, <1>18
  <2>2. i < j \/ j < i
    BY <1>5
  <2> QED
    BY <1>19, <2>1, <2>2
<1>21. \A i, j \in 1 .. c : v[i] = v[j] => i = j
  <2> SUFFICES ASSUME NEW i \in 1 .. c, NEW j \in 1 .. c, v[i] = v[j] PROVE i = j
    OBVIOUS
  <2>1. CASE i = 1 /\ j = 1
    BY <2>1
  <2>2. CASE i = 1 /\ j \in 2 .. c
    BY <1>13, <1>18, <2>2
  <2>3. CASE i \in 2 .. c /\ j = 1
    BY <1>13, <1>18, <2>3
  <2>4. CASE i \in 2 .. c /\ j \in 2 .. c
    <3>1. i - 1 = j - 1
      BY <1>13, <1>20, <2>4
    <3> QED
      BY <1>9, <2>4, <3>1
  <2> QED
    BY <1>9, <2>1, <2>2, <2>3, <2>4
<1>22. \A i \in 1 .. c : Has(a, v[i])
  <2> SUFFICES ASSUME NEW i \in 1 .. c PROVE Has(a, v[i])
    OBVIOUS
  <2>1. CASE i = 1
    <3>1. z + 1 \in DOMAIN a
      BY <1>15
    <3> QED
      BY <1>13, <1>15, <2>1, <3>1 DEF Has
  <2>2. CASE i \in 2 .. c
    BY <1>13, <1>18, <2>2
  <2> QED
    BY <1>9, <2>1, <2>2
<1>23. \A i, j \in 1 .. c : i < j => NewestIn(a, v[j]) < NewestIn(a, v[i])
  <2> SUFFICES ASSUME NEW i \in 1 .. c, NEW j \in 1 .. c, i < j
               PROVE  NewestIn(a, v[j]) < NewestIn(a, v[i])
    OBVIOUS
  <2>1. j \in 2 .. c /\ j - 1 \in 1 .. m /\ v[j] = o[j - 1]
    BY <1>9, <1>13
  <2>2. CASE i = 1
    <3>1. NewestIn(a, v[i]) = z + 1
      BY <1>13, <1>16, <2>2
    <3>2. NewestIn(a, v[j]) \in 1 .. z
      BY <1>18, <2>1
    <3> QED
      BY <1>15, <3>1, <3>2
  <2>3. CASE i \in 2 .. c
    <3>1. i - 1 \in 1 .. m /\ v[i] = o[i - 1] /\ i - 1 < j - 1
      BY <1>9, <1>13, <2>1, <2>3
    <3> QED
      BY <1>19, <2>1, <3>1
  <2> QED
    BY <1>9, <2>2, <2>3
<1>24. ASSUME NEW x, x # s, Has(r, x), ~Has(v, x)
       PROVE  c = lim /\ \A i \in 1 .. c : NewestIn(a, x) < NewestIn(a, v[i])
  <2>1. NewestIn(a, x) = NewestIn(r, x) /\ NewestIn(a, x) \in 1 .. z
    BY <1>17, <1>24
  <2>2. NewestIn(a, x) < NewestIn(a, v[1])
    BY <1>13, <1>15, <1>16, <2>1
  <2>3. CASE Has(list, x)
    <3>1. PICK i \in 1 .. m : o[i] = x
      <4>1. PICK k \in 1 .. n : list[k] = x
        BY <1>2, <2>3 DEF Has
      <4> QED
        BY <1>5, <1>24, <4>1
    <3>2. ~(i + 1 <= c)
      <4> SUFFICES ASSUME i + 1 <= c PROVE FALSE
        OBVIOUS
      <4>1. i + 1 \in 2 .. c /\ i + 1 \in DOMAIN v /\ (i + 1) - 1 = i
        BY <1>5, <1>9, <1>12
      <4>2. v[i + 1] = x
        BY <1>13, <3>1, <4>1
      <4> QED
        BY <1>24, <4>1, <4>2 DEF Has
    <3>3. c = lim /\ c <= i
      BY <1>5, <1>9, <3>2
    <3>4. ASSUME NEW j \in 2 .. c PROVE NewestIn(a, x) < NewestIn(a, v[j])
      <4>1. j - 1 \in 1 .. m /\ v[j] = o[j - 1] /\ j - 1 < i
        BY <1>5, <1>9, <1>13, <3>3
      <4> QED
        BY <1>19, <3>1, <4>1
    <3>5. \A j \in 1 .. c : j = 1 \/ j \in 2 .. c
      BY <1>9
    <3> QED
      BY <2>2, <3>3, <3>4, <3>5
  <2>4. CASE ~Has(list, x)
    <3>1. PICK k \in 1 .. z : r[k] = x
      BY <1>15, <1>24 DEF Has
    <3>2. n = lim /\ \A i \in 1 .. n : NewestIn(r, x) < NewestIn(r, list[i])
      BY <1>3, <1>15, <2>4, <3>1
    <3>3. c = lim
      BY <1>2, <1>5, <1>9, <3>2
    <3>4. ASSUME NEW j \in 2 .. c PROVE NewestIn(a, x) < NewestIn(a, v[j])
      <4>1. j - 1 \in 1 .. m /\ v[j] = o[j - 1]
        BY <1>13
      <4>2. PICK k2 \in 1 .. n : o[j - 1] = list[k2]
        BY <1>5, <4>1
      <4>3. NewestIn(a, v[j]) = NewestIn(r, list[k2])
        BY <1>18, <4>1, <4>2
      <4> QED
        BY <2>1, <3>2, <4>3
    <3>5. \A j \in 1 .. c : j = 1 \/ j \in 2 .. c
      BY <1>9
    <3> QED
      BY <2>2, <3>3, <3>4, <3>5
  <2> QED
    BY <2>3, <2>4
<1>25. ASSUME NEW k \in DOMAIN a
       PROVE  Has(v, a[k]) \/ /\ Len(v) = RECENT_SEARCH_LIMIT
                              /\ \A i \in DOMAIN v : NewestIn(a, a[k]) < NewestIn(a, v[i])
  <2>1. CASE a[k] = s
    <3>1. 1 \in DOMAIN v
      BY <1>9, <1>12
    <3> QED
      BY <1>13, <2>1, <3>1 DEF Has
  <2>2. CASE a[k] # s
    <3>1. k # z + 1
      BY <1>15, <2>2
    <3>2. k \in 1 .. z
      BY <1>15, <3>1
    <3>3. Has(r, a[k])
      BY <1>15, <3>2 DEF Has
    <3> QED
      BY <1>1, <1>12, <1>24, <2>2, <3>3
  <2> QED
    BY <2>1, <2>2
<1>26. Len(v) <= RECENT_SEARCH_LIMIT
  BY <1>1, <1>9, <1>12
<1>27. RecallOK(v, a)
  BY <1>12, <1>21, <1>22, <1>23, <1>25, <1>26 DEF RecallOK
<1> QED
  BY <1>10, <1>12, <1>14, <1>27

\* A request for the grid moves one scroll and may commit a list.
LEMMA OneScroll ==
    ASSUME GrIInv, UNCHANGED <<grows, sorted, written>>, NEW q \in Slots, NEW v \in ScrollRow,
           scroll' = [scroll EXCEPT ![q] = v], ScrollOK(v), asked' \in 0 .. MaxPages,
           NEW saved \in [list : Seq(Armed), version : Nat], recent' = saved,
           saved = recent \/ recent.version < saved.version,
           SaveOK(v, saved.list, saved.version),
           NEW served \in Seq(Armed), ran' = served, RecallOK(saved.list, served)
    PROVE  GrIInv'
<1>1. GrTyped'
  BY DEF GrIInv, GrTyped
<1>2. ASSUME NEW p \in Slots
      PROVE  ScrollOK(scroll[p])' /\ SaveOK(scroll[p], recent.list, recent.version)'
  <2>1. PICK w : w = scroll'[p]
    OBVIOUS
  <2>2. CASE p = q
    <3>1. w = v
      BY <2>1, <2>2 DEF GrIInv, GrTyped
    <3>2. ScrollOK(w)'
      BY <3>1, SameTable
    <3>3. SaveOK(w, saved.list, saved.version)
      BY <3>1
    <3> QED
      BY <2>1, <3>2, <3>3
  <2>3. CASE p # q
    <3>1. w = scroll[p]
      BY <2>1, <2>3 DEF GrIInv, GrTyped
    <3>2. ScrollOK(w) /\ SaveOK(w, recent.list, recent.version)
      BY <3>1 DEF GrIInv
    <3>3. ScrollOK(w)'
      BY <3>2, SameTable
    <3>4. SaveOK(w, saved.list, saved.version)
      <4>1. CASE saved = recent
        BY <3>2, <4>1
      <4>2. CASE recent.version < saved.version
        <5>1. recent.version \in Nat /\ saved.version \in Nat
          BY DEF GrIInv, GrTyped
        <5>2. w.pc = "asked" /\ w.saves => w.search \in Armed /\ w.version <= recent.version
          BY <3>2 DEF SaveOK
        <5>3. w.pc = "asked" => w.version \in Nat
          <6>1. w \in ScrollRow
            BY <3>1 DEF GrIInv, GrTyped
          <6> QED
            BY <6>1 DEF ScrollRow, Closed, ScrollFields, AskedScroll
        <5> QED
          BY <4>2, <5>1, <5>2, <5>3 DEF SaveOK
      <4> QED
        BY <4>1, <4>2
    <3> QED
      BY <2>1, <3>3, <3>4
  <2> QED
    BY <2>2, <2>3
<1>3. RecallOK(recent.list, ran)'
  OBVIOUS
<1> QED
  BY <1>1, <1>2, <1>3 DEF GrIInv

\* What the state of a scroll says of its fields.
LEMMA ScrollIs ==
    ASSUME GrIInv, NEW q \in Slots, NEW w, w = scroll[q]
    PROVE  /\ w \in ScrollRow /\ ScrollOK(w) /\ SaveOK(w, recent.list, recent.version)
           /\ w.pc \in {"open", "end"} => w \in ScrollFields({"open", "end"})
           /\ w.pc = "asked" => w \in AskedScroll
           /\ w.pc \in {"closed", "open", "asked", "end"}
           /\ w.pc = "closed" <=> w = Closed
<1>1. w \in ScrollRow /\ ScrollOK(w) /\ SaveOK(w, recent.list, recent.version)
  BY DEF GrIInv, GrTyped
<1> QED
  BY <1>1 DEF ScrollRow, Closed, ScrollFields, AskedScroll

\* A window starts a scroll.
LEMMA OpenGridStep ==
    ASSUME GrIInv, NEW q \in Slots, NEW search \in Searches, OpenGrid(q, search)
    PROVE  GrIInv'
<1>1. PICK v : v = [pc |-> "open", search |-> search, rows |-> << >>, cursor |-> FirstCursor,
                    moved |-> {}, total |-> 0, counted |-> FALSE]
  OBVIOUS
<1>2. v \in ScrollRow
  BY <1>1 DEF ScrollRow, ScrollFields, GrCursor
<1>3. ScrollOK(v)
  <2>1. ServedOK(v)
    BY <1>1 DEF ServedOK, Has, Beyond, FirstCursor
  <2>2. InOrderOn(v.rows, Untouched(v)) /\ AllIn(v.rows, filtered(v.search))
    BY <1>1 DEF InOrderOn, AllIn
  <2> QED
    BY <1>1, <2>1, <2>2 DEF ScrollOK
<1>4. SaveOK(v, recent.list, recent.version)
  BY <1>1 DEF SaveOK
<1>5. /\ scroll' = [scroll EXCEPT ![q] = v] /\ UNCHANGED <<grows, sorted, written>>
      /\ asked' \in 0 .. MaxPages /\ recent' = recent /\ ran' = ran
  BY <1>1 DEF OpenGrid, GrIInv, GrTyped
<1>6. recent \in [list : Seq(Armed), version : Nat] /\ ran \in Seq(Armed) /\ RecallOK(recent.list, ran)
  BY DEF GrIInv, GrTyped
<1> QED
  BY <1>2, <1>3, <1>4, <1>5, <1>6, OneScroll

\* A search that does not run is not remembered.
LEMMA RememberTyped ==
    ASSUME GrIInv, NEW s
    PROVE  /\ remember_search(recent.list, s) \in Seq(Armed)
           /\ s \notin Armed => remember_search(recent.list, s) = recent.list
<1>1. recent.list \in Seq(Armed) /\ ran \in Seq(Armed) /\ RecallOK(recent.list, ran)
  BY DEF GrIInv, GrTyped
<1>2. CASE s \in Armed
  BY <1>1, <1>2, RememberFits
<1>3. CASE s \notin Armed
  BY <1>1, <1>3 DEF remember_search
<1> QED
  BY <1>2, <1>3

\* A request reads its page and the list.
LEMMA ReadPageStep ==
    ASSUME GrIInv, NEW q \in Slots, ReadPage(q)
    PROVE  GrIInv'
<1>1. PICK w, page, list, v :
          /\ w = scroll[q] /\ page = keyset_page(w.search, w.cursor)
          /\ list = remember_search(recent.list, w.search)
          /\ v = [pc |-> "asked", search |-> w.search, rows |-> w.rows, cursor |-> w.cursor,
                  moved |-> w.moved, total |-> w.total, counted |-> w.counted, page |-> page,
                  list |-> list, saves |-> list # recent.list, version |-> recent.version]
  OBVIOUS
<1>2. /\ w.pc = "open" /\ ~page.fails /\ scroll' = [scroll EXCEPT ![q] = v]
      /\ asked < MaxPages /\ asked' = asked + 1
      /\ ran' = IF list = recent.list /\ w.search \in Armed THEN Append(ran, w.search) ELSE ran
      /\ UNCHANGED <<grows, sorted, written>> /\ recent' = recent
  BY <1>1 DEF ReadPage
<1>3. ScrollOK(w) /\ w \in ScrollFields({"open", "end"})
  BY <1>1, <1>2, ScrollIs
<1>4. /\ w.search \in Searches /\ w.rows \in Seq(GRows) /\ w.cursor \in GrCursor
      /\ w.moved \in SUBSET GRows /\ w.total \in Nat /\ w.counted \in BOOLEAN
  BY <1>3 DEF ScrollFields
<1>5. GrTyped
  BY DEF GrIInv
<1>6. /\ recent \in [list : Seq(Armed), version : Nat] /\ ran \in Seq(Armed)
      /\ RecallOK(recent.list, ran)
  BY <1>5 DEF GrIInv, GrTyped
<1>7. list \in Seq(Armed) /\ (w.search \notin Armed => list = recent.list)
  BY <1>1, RememberTyped
<1>8. /\ v.search = w.search /\ v.cursor = w.cursor /\ v.page = page /\ v.rows = w.rows
      /\ v.moved = w.moved /\ v.total = w.total /\ v.counted = w.counted /\ v.pc = "asked"
      /\ v.list = list /\ v.version = recent.version /\ v.saves = (list # recent.list)
  BY <1>1
<1>9. page \in GrPage /\ PageOK(v)
  <2>1. /\ v.search \in Searches /\ v.cursor \in GrCursor /\ ~v.page.fails
        /\ v.page = keyset_page(v.search, v.cursor)
    BY <1>1, <1>2, <1>4, <1>8
  <2> QED
    BY <1>5, <1>8, <2>1, PageFits
<1>10. v \in ScrollRow
  <2>1. v \in AskedScroll
    <3>1. recent.version \in Nat /\ (list # recent.list) \in BOOLEAN
      BY <1>6
    <3> QED
      BY <1>1, <1>4, <1>7, <1>9, <3>1 DEF AskedScroll
  <2> QED
    BY <2>1 DEF ScrollRow
<1>11. ScrollOK(v)
  <2>1. Untouched(v) = Untouched(w)
    BY <1>8 DEF Untouched
  <2>2. ServedOK(v)
    BY <1>2, <1>3, <1>8, <2>1 DEF ScrollOK, ServedOK
  <2> QED
    BY <1>2, <1>3, <1>8, <1>9, <2>1, <2>2 DEF ScrollOK
<1>12. SaveOK(v, recent.list, recent.version)
  <2>1. v.version <= recent.version
    <3>1. recent.version \in Nat
      BY <1>6
    <3> QED
      BY <1>8, <3>1
  <2>2. v.saves => v.search \in Armed
    BY <1>7, <1>8
  <2>3. v.list = remember_search(recent.list, v.search)
    BY <1>1, <1>8
  <2> QED
    BY <2>1, <2>2, <2>3 DEF SaveOK
<1>13. asked' \in 0 .. MaxPages
  <2>1. asked \in 0 .. MaxPages /\ MaxPages \in Nat
    BY <1>5, GridRowsAssumption DEF GrTyped
  <2> QED
    BY <1>2, <2>1
<1>14. PICK served : served = ran'
  OBVIOUS
<1>15. served \in Seq(Armed) /\ RecallOK(recent.list, served)
  <2>1. CASE list = recent.list /\ w.search \in Armed
    <3>1. RecallOK(remember_search(recent.list, w.search), Append(ran, w.search))
      BY <1>6, <2>1, RememberFits
    <3>2. Append(ran, w.search) \in Seq(Armed)
      BY <1>6, <2>1
    <3> QED
      BY <1>1, <1>2, <1>14, <2>1, <3>1, <3>2
  <2>2. CASE ~(list = recent.list /\ w.search \in Armed)
    BY <1>2, <1>6, <1>14, <2>2
  <2> QED
    BY <2>1, <2>2
<1> QED
  BY <1>2, <1>6, <1>10, <1>11, <1>12, <1>13, <1>14, <1>15, OneScroll

\* An answer commits the list with the page, or neither.
LEMMA AnswerPageStep ==
    ASSUME GrIInv, NEW q \in Slots, AnswerPage(q)
    PROVE  GrIInv'
<1>1. PICK w : w = scroll[q]
  OBVIOUS
<1>2. w.pc = "asked" /\ UNCHANGED <<grows, sorted, written>> /\ asked' = asked
  BY <1>1 DEF AnswerPage
<1>3. w \in AskedScroll /\ ScrollOK(w) /\ SaveOK(w, recent.list, recent.version)
  BY <1>1, <1>2, ScrollIs
<1>4. /\ w.search \in Searches /\ w.rows \in Seq(GRows) /\ w.cursor \in GrCursor
      /\ w.moved \in SUBSET GRows /\ w.total \in Nat /\ w.counted \in BOOLEAN
      /\ w.page \in GrPage /\ w.list \in Seq(Armed) /\ w.saves \in BOOLEAN /\ w.version \in Nat
  BY <1>3 DEF AskedScroll
<1>5. GrTyped
  BY DEF GrIInv
<1>6. /\ recent \in [list : Seq(Armed), version : Nat] /\ ran \in Seq(Armed)
      /\ RecallOK(recent.list, ran) /\ asked' \in 0 .. MaxPages
  BY <1>2, <1>5 DEF GrIInv, GrTyped
<1>7. \A pc \in {"open", "end"}, rows \in Seq(GRows), cursor \in GrCursor :
          WithAnswer(w, pc, rows, cursor) \in ScrollRow
  BY <1>4 DEF WithAnswer, ScrollRow, ScrollFields
<1>8. CASE ~w.saves \/ LandsOn(w)
  <2>1. PICK pc, rows, v : /\ pc = (IF w.page.next = FirstCursor THEN "end" ELSE "open")
                           /\ rows = w.rows \o w.page.rows
                           /\ v = WithAnswer(w, pc, rows, w.page.next)
    OBVIOUS
  <2>2. /\ scroll' = [scroll EXCEPT ![q] = v]
        /\ w.saves => recent' = [list |-> w.list, version |-> recent.version + 1]
                      /\ ran' = Append(ran, w.search)
        /\ ~w.saves => recent' = recent /\ ran' = ran
    BY <1>1, <1>8, <2>1 DEF AnswerPage
  <2>3. v \in ScrollRow
    <3>1. pc \in {"open", "end"} /\ rows \in Seq(GRows) /\ w.page.next \in GrCursor
      BY <1>4, <2>1 DEF GrPage
    <3> QED
      BY <1>7, <2>1, <3>1
  <2>4. ScrollOK(v)
    BY <1>3, <1>5, <2>1, AnswerFits
  <2>5. v.pc # "asked"
    BY <2>1 DEF WithAnswer
  <2>6. \A saved : SaveOK(v, saved.list, saved.version)
    BY <2>5 DEF SaveOK
  <2>7. CASE w.saves
    <3>1. PICK saved, served : saved = recent' /\ served = ran'
      OBVIOUS
    <3>2. /\ saved \in [list : Seq(Armed), version : Nat] /\ saved.list = w.list
          /\ recent.version < saved.version
      <4>1. PICK n \in Nat : n = recent.version
        BY <1>6
      <4>2. saved = [list |-> w.list, version |-> n + 1]
        BY <2>2, <2>7, <3>1, <4>1
      <4>3. saved.version = n + 1 /\ saved.list = w.list /\ n < n + 1 /\ n + 1 \in Nat
        BY <4>2
      <4> QED
        BY <1>4, <4>1, <4>2, <4>3
    <3>3. w.list = remember_search(recent.list, w.search) /\ w.search \in Armed
      BY <1>2, <1>3, <1>8, <2>7 DEF LandsOn, SaveOK
    <3>4. RecallOK(saved.list, served) /\ served \in Seq(Armed)
      <4>1. RecallOK(remember_search(recent.list, w.search), Append(ran, w.search))
        BY <1>6, <3>3, RememberFits
      <4>2. Append(ran, w.search) \in Seq(Armed)
        BY <1>6, <3>3
      <4> QED
        BY <2>2, <2>7, <3>1, <3>2, <3>3, <4>1, <4>2
    <3> QED
      BY <1>2, <1>6, <2>2, <2>3, <2>4, <2>6, <3>1, <3>2, <3>4, OneScroll
  <2>8. CASE ~w.saves
    BY <1>2, <1>6, <2>2, <2>3, <2>4, <2>6, <2>8, OneScroll
  <2> QED
    BY <2>7, <2>8
<1>9. CASE ~(~w.saves \/ LandsOn(w))
  <2>1. PICK v : v = WithAnswer(w, "open", w.rows, w.cursor)
    OBVIOUS
  <2>2. scroll' = [scroll EXCEPT ![q] = v] /\ recent' = recent /\ ran' = ran
    BY <1>1, <1>9, <2>1 DEF AnswerPage
  <2>3. /\ v.pc = "open" /\ v.search = w.search /\ v.rows = w.rows /\ v.cursor = w.cursor
        /\ v.moved = w.moved /\ v.total = w.total /\ v.counted = w.counted
    BY <2>1 DEF WithAnswer
  <2>4. v \in ScrollRow
    BY <1>4, <1>7, <2>1
  <2>5. ScrollOK(v)
    <3>1. Untouched(v) = Untouched(w)
      BY <2>3 DEF Untouched
    <3>2. ServedOK(v)
      BY <1>2, <1>3, <2>3, <3>1 DEF ScrollOK, ServedOK
    <3> QED
      BY <1>2, <1>3, <2>3, <3>1, <3>2 DEF ScrollOK
  <2>6. SaveOK(v, recent.list, recent.version)
    BY <2>3 DEF SaveOK
  <2> QED
    BY <1>2, <1>6, <2>2, <2>4, <2>5, <2>6, OneScroll
<1> QED
  BY <1>8, <1>9

\* The count beside the first page is of the rows as they are.
LEMMA ReadAggregatesStep ==
    ASSUME GrIInv, NEW q \in Slots, ReadAggregates(q)
    PROVE  GrIInv'
<1>1. PICK w, n, v : /\ w = scroll[q] /\ n = Cardinality(filtered(w.search))
                     /\ v = [w EXCEPT !.total = n, !.counted = TRUE]
  OBVIOUS
<1>2. /\ w.pc = "open" /\ scroll' = [scroll EXCEPT ![q] = v]
      /\ UNCHANGED <<grows, sorted, written>> /\ asked' = asked /\ recent' = recent /\ ran' = ran
  BY <1>1 DEF ReadAggregates
<1>3. ScrollOK(w) /\ w \in ScrollFields({"open", "end"})
  BY <1>1, <1>2, ScrollIs
<1>4. GrTyped
  BY DEF GrIInv
<1>5. /\ recent \in [list : Seq(Armed), version : Nat] /\ ran \in Seq(Armed)
      /\ RecallOK(recent.list, ran) /\ asked' \in 0 .. MaxPages
  BY <1>2, <1>4 DEF GrIInv, GrTyped
<1>6. n \in Nat
  <2>1. IsFiniteSet(GRows) /\ filtered(w.search) \in SUBSET GRows
    BY GridRowsAssumption DEF filtered
  <2>2. IsFiniteSet(filtered(w.search))
    BY <2>1, FS_Subset
  <2> QED
    BY <1>1, <2>2, FS_CardinalityType
<1>7. v \in ScrollFields({"open", "end"})
  BY <1>1, <1>3, <1>6 DEF ScrollFields
<1>8. /\ v.pc = "open" /\ v.search = w.search /\ v.rows = w.rows /\ v.cursor = w.cursor
      /\ v.moved = w.moved /\ v.total = n
  BY <1>1, <1>2, <1>3 DEF ScrollFields
<1>9. v \in ScrollRow
  BY <1>7 DEF ScrollRow
<1>10. ScrollOK(v)
  <2>1. Untouched(v) = Untouched(w)
    BY <1>8 DEF Untouched
  <2>2. ServedOK(v)
    BY <1>2, <1>3, <1>8, <2>1 DEF ScrollOK, ServedOK
  <2>3. v.total = Cardinality(filtered(v.search))
    BY <1>1, <1>8
  <2> QED
    BY <1>2, <1>3, <1>8, <2>1, <2>2, <2>3 DEF ScrollOK
<1>11. SaveOK(v, recent.list, recent.version)
  BY <1>8 DEF SaveOK
<1> QED
  BY <1>2, <1>5, <1>9, <1>10, <1>11, OneScroll

\* A write moves its record out of what the scrolls answer for.
LEMMA WriteRowStep ==
    ASSUME GrIInv, NEW r \in GRows, NEW row \in GridRow, WriteRow(r, row)
    PROVE  GrIInv'
<1>1. /\ grows' = [grows EXCEPT ![r] = row] /\ written < MaxRowWrites /\ written' = written + 1
      /\ scroll' = [q \in Slots |-> IF scroll[q] = Closed THEN Closed
                                    ELSE [scroll[q] EXCEPT !.moved = @ \cup {r}]]
      /\ sorted' = sorted /\ recent' = recent /\ asked' = asked /\ ran' = ran
  BY DEF WriteRow
<1>2. GrTyped
  BY DEF GrIInv
<1>3. grows' \in [GRows -> GridRow] /\ \A x \in GRows \ {r} : grows'[x] = grows[x]
  BY <1>1, <1>2 DEF GrTyped
<1>4. \A x \in GRows \ {r} : /\ sort_value(x)' = sort_value(x)
                             /\ \A s : x \in filtered(s)' <=> x \in filtered(s)
  BY <1>1, <1>3 DEF sort_value, filtered
<1>5. \A x, y \in GRows \ {r} : Precedes(x, y)' <=> Precedes(x, y)
  BY <1>4 DEF Precedes
<1>6. \A x \in GRows \ {r} : \A c : Beyond(x, c)' <=> Beyond(x, c)
  BY <1>4 DEF Beyond
<1>7. ASSUME NEW q \in Slots
      PROVE  /\ scroll'[q] \in ScrollRow
             /\ ScrollOK(scroll[q])' /\ SaveOK(scroll[q], recent.list, recent.version)'
  <2>1. PICK w, v : w = scroll[q] /\ v = scroll'[q]
    OBVIOUS
  <2>2. /\ w \in ScrollRow /\ ScrollOK(w) /\ SaveOK(w, recent.list, recent.version)
        /\ w.pc \in {"open", "end"} => w \in ScrollFields({"open", "end"})
        /\ w.pc = "asked" => w \in AskedScroll
        /\ w.pc \in {"closed", "open", "asked", "end"}
        /\ w.pc = "closed" <=> w = Closed
    BY <2>1, ScrollIs
  <2>3. CASE w = Closed
    <3>1. v = Closed /\ v.pc = "closed"
      BY <1>1, <2>1, <2>3 DEF Closed
    <3>2. v \in ScrollRow /\ ScrollOK(v)' /\ SaveOK(v, recent.list, recent.version)
      BY <3>1 DEF ScrollRow, ScrollOK, SaveOK
    <3> QED
      BY <1>1, <2>1, <3>2
  <2>4. CASE w # Closed
    <3>1. v = [w EXCEPT !.moved = w.moved \cup {r}]
      BY <1>1, <2>1, <2>4
    <3>2. w \in ScrollFields({"open", "end"}) \/ w \in AskedScroll
      BY <2>2, <2>4
    <3>3. v \in ScrollRow
      BY <3>1, <3>2 DEF ScrollRow, ScrollFields, AskedScroll
    <3>4. /\ v.pc = w.pc /\ v.search = w.search /\ v.rows = w.rows /\ v.cursor = w.cursor
          /\ v.total = w.total /\ v.counted = w.counted
          /\ v.moved = w.moved \cup {r} /\ r \in v.moved
          /\ w.pc = "asked" => /\ v.page = w.page /\ v.list = w.list
                               /\ v.saves = w.saves /\ v.version = w.version
      <4>1. CASE w \in ScrollFields({"open", "end"})
        BY <3>1, <4>1 DEF ScrollFields
      <4>2. CASE w \in AskedScroll
        BY <3>1, <4>2 DEF AskedScroll
      <4> QED
        BY <3>2, <4>1, <4>2
    <3>5. PICK U, V : U = Untouched(w) /\ V = Untouched(v)'
      OBVIOUS
    <3>6. \A x \in V : x \in U /\ x \in GRows \ {r}
      <4>1. \A x \in V : x \in filtered(w.search)' /\ x \notin v.moved /\ sort_value(x)' # NullValue
        BY <3>4, <3>5 DEF Untouched
      <4>2. \A x \in V : x \in GRows \ {r}
        BY <3>4, <4>1 DEF filtered
      <4> QED
        BY <1>4, <3>4, <3>5, <4>1, <4>2 DEF Untouched
    <3>7. \A rows : InOrderOn(rows, U) => InOrderOn(rows, V)'
      BY <1>5, <3>6 DEF InOrderOn
    <3>8. ServedOK(v)'
      <4>1. ServedOK(w)
        BY <2>2, <2>4 DEF ScrollOK
      <4> QED
        BY <1>6, <3>4, <3>5, <3>6, <4>1 DEF ServedOK, Has
    <3>9. w.pc = "asked" => PageOK(v)'
      <4>1. w.pc = "asked" => PageOK(w)
        BY <2>2 DEF ScrollOK
      <4> QED
        BY <1>1, <1>6, <3>4, <3>5, <3>6, <3>7, <4>1 DEF PageOK, Has
    <3>10. InOrderOn(v.rows, Untouched(v))' /\ (v.cursor # FirstCursor => sorted')
      <4>1. InOrderOn(w.rows, U) /\ (w.cursor # FirstCursor => sorted)
        BY <2>2, <2>4, <3>5 DEF ScrollOK
      <4> QED
        BY <1>1, <3>4, <3>5, <3>7, <4>1
    <3>11. ScrollOK(v)'
      BY <3>4, <3>8, <3>9, <3>10 DEF ScrollOK
    <3>12. SaveOK(v, recent.list, recent.version)
      BY <2>2, <3>4 DEF SaveOK
    <3> QED
      BY <1>1, <2>1, <3>3, <3>11, <3>12
  <2> QED
    BY <2>3, <2>4
<1>8. GrTyped'
  <2>1. written' \in 0 .. MaxRowWrites
    <3>1. written \in 0 .. MaxRowWrites /\ MaxRowWrites \in Nat
      BY <1>2, GridRowsAssumption DEF GrTyped
    <3> QED
      BY <1>1, <3>1
  <2>2. scroll' \in [Slots -> ScrollRow]
    <3>1. scroll' = [q \in Slots |-> scroll'[q]]
      BY <1>1
    <3> QED
      BY <1>7, <3>1
  <2> QED
    BY <1>1, <1>2, <1>3, <2>1, <2>2 DEF GrTyped
<1>9. RecallOK(recent.list, ran)'
  BY <1>1 DEF GrIInv
<1> QED
  BY <1>7, <1>8, <1>9 DEF GrIInv

\* A scroll that reached the end served each settled row once, in order.
LEMMA PagesCover ==
    ASSUME GrIInv
    PROVE  PagesCoverStableRows
<1> SUFFICES ASSUME NEW q \in Slots, NEW w, w = scroll[q], w.pc = "end",
                    NEW U, U = Untouched(w)
             PROVE  /\ \A r \in U : Cardinality({i \in DOMAIN w.rows : w.rows[i] = r}) = 1
                    /\ InOrderOn(w.rows, U)
                    /\ w.moved = {} /\ w.counted /\ filtered(w.search) = U => w.total = Len(w.rows)
  BY DEF PagesCoverStableRows, Untouched, InOrderOn
<1>1. ScrollOK(w) /\ w \in ScrollFields({"open", "end"})
  BY ScrollIs
<1>2. PICK rows : rows = w.rows
  OBVIOUS
<1>3. PICK n : n = Len(rows)
  OBVIOUS
<1>4. rows \in Seq(GRows) /\ n \in Nat /\ DOMAIN rows = 1 .. n /\ \A i \in 1 .. n : rows[i] \in GRows
  BY <1>1, <1>2, <1>3 DEF ScrollFields
<1>5. /\ InOrderOn(rows, U) /\ \A r \in U : Has(rows, r)
      /\ w.moved = {} => /\ AllIn(rows, filtered(w.search))
                         /\ w.counted => w.total = Cardinality(filtered(w.search))
  BY <1>1, <1>2 DEF ScrollOK, ServedOK
<1>6. U \in SUBSET GRows
  BY DEF Untouched, filtered
<1>7. \A r \in U : ~Precedes(r, r)
  <2>1. GrTyped
    BY DEF GrIInv
  <2> QED
    BY <1>6, <2>1, SortIsOrder DEF IsOrderOn
<1>8. \A i, j \in 1 .. n : rows[i] = rows[j] /\ rows[i] \in U => i = j
  <2> SUFFICES ASSUME NEW i \in 1 .. n, NEW j \in 1 .. n, rows[i] = rows[j], rows[i] \in U, i # j
               PROVE  FALSE
    OBVIOUS
  <2>1. i < j \/ j < i
    BY <1>4
  <2>2. Precedes(rows[i], rows[i])
    BY <1>4, <1>5, <2>1 DEF InOrderOn
  <2> QED
    BY <1>7, <2>2
<1>9. ASSUME NEW r \in U PROVE Cardinality({i \in DOMAIN rows : rows[i] = r}) = 1
  <2>1. PICK k \in 1 .. n : rows[k] = r
    BY <1>4, <1>5 DEF Has
  <2>2. {i \in DOMAIN rows : rows[i] = r} = {k}
    BY <1>4, <1>8, <2>1
  <2> QED
    BY <2>2, FS_Singleton
<1>10. ASSUME w.moved = {}, w.counted, filtered(w.search) = U PROVE w.total = n
  <2>1. \A i \in 1 .. n : rows[i] \in U
    BY <1>4, <1>5, <1>10 DEF AllIn
  <2>2. \A i, j \in 1 .. n : rows[i] = rows[j] => i = j
    BY <1>8, <2>1
  <2>3. \A c \in U : \E i \in 1 .. n : rows[i] = c
    BY <1>4, <1>5 DEF Has
  <2>4. IsFiniteSet(U)
    <3>1. IsFiniteSet(GRows)
      BY GridRowsAssumption
    <3> QED
      BY <1>6, <3>1, FS_Subset
  <2>5. rows = [i \in 1 .. n |-> rows[i]]
    BY <1>4
  <2>6. Cardinality(U) = n
    BY <1>4, <2>1, <2>2, <2>3, <2>4, <2>5, LengthIs
  <2> QED
    BY <1>5, <1>10, <2>6
<1> QED
  BY <1>2, <1>3, <1>5, <1>9, <1>10

\* The list has the newest of the searches that ran, newest first.
LEMMA RecallLists ==
    ASSUME GrIInv
    PROVE  RecallListsWhatRan
<1>1. PICK list, r, n, z, lim : /\ list = recent.list /\ r = ran /\ n = Len(list) /\ z = Len(r)
                                /\ lim = RECENT_SEARCH_LIMIT
  OBVIOUS
<1>2. /\ list \in Seq(Armed) /\ r \in Seq(Armed) /\ RecallOK(list, r)
      /\ n \in Nat /\ z \in Nat /\ DOMAIN list = 1 .. n /\ DOMAIN r = 1 .. z /\ lim \in Nat \ {0}
  BY <1>1, GridRowsAssumption DEF GrIInv, GrTyped
<1>3. /\ n <= lim
      /\ \A i, j \in 1 .. n : list[i] = list[j] => i = j
      /\ \A i \in 1 .. n : Has(r, list[i])
      /\ \A i, j \in 1 .. n : i < j => NewestIn(r, list[j]) < NewestIn(r, list[i])
      /\ \A k \in 1 .. z : Has(list, r[k]) \/
            /\ n = lim
            /\ \A i \in 1 .. n : NewestIn(r, r[k]) < NewestIn(r, list[i])
  BY <1>1, <1>2 DEF RecallOK
<1>4. PICK distinct : distinct = {r[i] : i \in 1 .. z}
  OBVIOUS
<1>5. \A s \in distinct : Has(r, s) /\ NewestIn(r, s) \in Int
  <2> SUFFICES ASSUME NEW s \in distinct PROVE Has(r, s) /\ NewestIn(r, s) \in Int
    OBVIOUS
  <2>1. Has(r, s)
    BY <1>2, <1>4 DEF Has
  <2>2. NewestIn(r, s) \in 1 .. z
    BY <1>2, <2>1, NewestIs
  <2> QED
    BY <1>2, <2>1, <2>2
<1>6. \A i \in 1 .. n : list[i] \in distinct
  BY <1>2, <1>3, <1>4 DEF Has
<1>7. IsFiniteSet(distinct)
  <2>1. PICK D : D = 1 .. z
    OBVIOUS
  <2>2. IsFiniteSet(D)
    BY <1>2, <2>1, FS_Interval
  <2>3. distinct = {r[i] : i \in D}
    BY <1>4, <2>1
  <2>4. PICK f : f = [i \in D |-> r[i]]
    OBVIOUS
  <2>5. f \in Surjection(D, distinct)
    BY <2>3, <2>4 DEF Surjection
  <2> QED
    BY <2>2, <2>5, FS_Surjection
<1>8. PICK K : K = {list[i] : i \in 1 .. n}
  OBVIOUS
<1>9. K \in SUBSET distinct /\ IsFiniteSet(K) /\ Cardinality(K) = n
  <2>1. K \in SUBSET distinct
    BY <1>6, <1>8
  <2>2. IsFiniteSet(K)
    BY <1>7, <2>1, FS_Subset
  <2>3. /\ \A i \in 1 .. n : list[i] \in K
        /\ \A c \in K : \E i \in 1 .. n : list[i] = c
        /\ list = [i \in 1 .. n |-> list[i]]
    BY <1>2, <1>8
  <2> QED
    BY <1>2, <1>3, <2>1, <2>2, <2>3, LengthIs
<1>10. PICK d : d = Cardinality(distinct)
  OBVIOUS
<1>11. d \in Nat /\ n <= d
  <2>1. d \in Nat
    BY <1>7, <1>10, FS_CardinalityType
  <2>2. Cardinality(K) <= Cardinality(distinct)
    BY <1>7, <1>9, FS_Subset
  <2> QED
    BY <1>9, <1>10, <2>1, <2>2
<1>12. n = IF d < lim THEN d ELSE lim
  <2>1. CASE \A s \in distinct : Has(list, s)
    <3>1. K = distinct
      BY <1>2, <1>8, <1>9, <2>1 DEF Has
    <3>2. n = d
      BY <1>9, <1>10, <3>1
    <3> QED
      BY <1>2, <1>3, <3>2
  <2>2. CASE \E s \in distinct : ~Has(list, s)
    <3>1. n = lim
      BY <1>3, <1>4, <2>2
    <3> QED
      BY <1>2, <1>11, <3>1
  <2> QED
    BY <2>1, <2>2
<1>13. ASSUME NEW i \in 1 .. n
       PROVE  Cardinality({s \in distinct : NewestIn(r, s) >= NewestIn(r, list[i])}) = i
  <2>1. PICK T, m : T = {s \in distinct : NewestIn(r, s) >= NewestIn(r, list[i])} /\ m = NewestIn(r, list[i])
    OBVIOUS
  <2>2. m \in Int /\ T \in SUBSET distinct /\ \A s \in distinct : s \in T <=> NewestIn(r, s) >= m
    BY <1>5, <1>6, <2>1
  <2>3. PICK f : f = [j \in 1 .. i |-> list[j]]
    OBVIOUS
  <2>4. i \in Nat /\ \A j \in 1 .. i : j \in 1 .. n /\ f[j] = list[j]
    BY <1>2, <2>3
  <2>5. \A j \in 1 .. i : f[j] \in T
    <3> SUFFICES ASSUME NEW j \in 1 .. i PROVE f[j] \in T
      OBVIOUS
    <3>1. j \in 1 .. n /\ f[j] = list[j] /\ list[j] \in distinct /\ NewestIn(r, list[j]) \in Int
      BY <1>5, <1>6, <2>4
    <3>2. j = i \/ j < i
      BY <2>4
    <3>3. j < i => m < NewestIn(r, list[j])
      BY <1>3, <2>1, <3>1
    <3>4. j = i => NewestIn(r, list[j]) = m
      BY <2>1
    <3>5. NewestIn(r, list[j]) >= m
      BY <2>2, <3>1, <3>2, <3>3, <3>4
    <3> QED
      BY <2>2, <3>1, <3>5
  <2>6. \A s \in T : \E j \in 1 .. i : f[j] = s
    <3> SUFFICES ASSUME NEW s \in T PROVE \E j \in 1 .. i : f[j] = s
      OBVIOUS
    <3>1. s \in distinct /\ NewestIn(r, s) \in Int /\ NewestIn(r, s) >= m
      BY <1>5, <2>2
    <3>2. Has(list, s)
      <4> SUFFICES ASSUME ~Has(list, s) PROVE FALSE
        OBVIOUS
      <4>1. PICK k \in 1 .. z : r[k] = s
        BY <1>4, <3>1
      <4>2. NewestIn(r, s) < m
        BY <1>3, <2>1, <4>1
      <4> QED
        BY <2>2, <3>1, <4>2
    <3>3. PICK j \in 1 .. n : list[j] = s
      BY <1>2, <3>2 DEF Has
    <3>4. ~(i < j)
      <4> SUFFICES ASSUME i < j PROVE FALSE
        OBVIOUS
      <4>1. NewestIn(r, s) < m
        BY <1>3, <2>1, <3>3
      <4> QED
        BY <2>2, <3>1, <4>1
    <3>5. j \in 1 .. i
      BY <1>2, <3>3, <3>4
    <3> QED
      BY <2>4, <3>3, <3>5
  <2>7. \A j, k \in 1 .. i : f[j] = f[k] => j = k
    BY <1>3, <2>4
  <2>8. IsFiniteSet(T) /\ DOMAIN f = 1 .. i /\ f = [j \in 1 .. i |-> f[j]]
    <3>1. IsFiniteSet(T)
      BY <1>7, <2>2, FS_Subset
    <3> QED
      BY <2>3, <3>1
  <2>9. Cardinality(T) = i
    BY <2>4, <2>5, <2>6, <2>7, <2>8, LengthIs
  <2> QED
    BY <2>1, <2>9
<1>14. /\ distinct = {ran[i] : i \in DOMAIN ran} /\ n = Len(recent.list)
       /\ DOMAIN recent.list = 1 .. n
  BY <1>1, <1>2, <1>4
<1> QED
  BY <1>1, <1>10, <1>12, <1>13, <1>14 DEF RecallListsWhatRan, NewestIn

-----------------------------------------------------------------------------
(* The panel over the rows. *)

PanelRow == [view : PanelViews, modifications : SUBSET {"sort", "columnWidth", "viewSettings"},
             sort : Seq(SortKey), search : Searches, selection : Selection]
DocumentRow == {NotAsked} \cup [status : {"queued", "done"}, rows : SUBSET GRows,
                                payload : [scope : Scope, search : Searches]]

\* A column sorts at one position.
OneEach(keys) == \A i, j \in DOMAIN keys : i # j => keys[i].field # keys[j].field

\* The inductive invariant.
PnIInv ==
    /\ panel \in PanelRow /\ document \in DocumentRow /\ clicks \in 0 .. MaxClicks
    /\ panel.sort # << >> => "sort" \in panel.modifications
    /\ OneEach(panel.sort)

\* A list without its i-th entry.
LEMMA WithoutOne ==
    ASSUME NEW S, NEW s \in Seq(S), NEW i \in 1 .. Len(s)
    PROVE  /\ RemoveAt(s, i) \in Seq(S) /\ Len(RemoveAt(s, i)) = Len(s) - 1
           /\ \A j \in 1 .. Len(s) - 1 :
                 RemoveAt(s, i)[j] = IF j < i THEN s[j] ELSE s[j + 1]
<1>1. PICK n, a, b : n = Len(s) /\ a = SubSeq(s, 1, i - 1) /\ b = SubSeq(s, i + 1, n)
  OBVIOUS
<1>2. n \in Nat /\ i \in 1 .. n /\ i \in Nat
  BY <1>1
<1>3. a \in Seq(S) /\ Len(a) = i - 1 /\ \A j \in 1 .. i - 1 : a[j] = s[j]
  BY <1>1, <1>2
<1>4. b \in Seq(S) /\ Len(b) = n - i /\ \A j \in 1 .. n - i : b[j] = s[j + i]
  BY <1>1, <1>2
<1>5. PICK c : c = a \o b
  OBVIOUS
<1>6. /\ c \in Seq(S) /\ Len(c) = n - 1
      /\ \A j \in 1 .. i - 1 : c[j] = a[j]
      /\ \A j \in i .. n - 1 : c[j] = b[j - (i - 1)]
  <2>1. PICK x, y : x = Len(a) /\ y = Len(b)
    OBVIOUS
  <2>2. /\ c \in Seq(S) /\ Len(c) = x + y
        /\ \A j \in 1 .. x : c[j] = a[j]
        /\ \A j \in x + 1 .. x + y : c[j] = b[j - x]
    BY <1>3, <1>4, <1>5, <2>1
  <2>3. x = i - 1 /\ y = n - i /\ x + y = n - 1 /\ x + 1 = i
    BY <1>2, <1>3, <1>4, <2>1
  <2> QED
    BY <2>2, <2>3
<1>7. ASSUME NEW j \in 1 .. n - 1 PROVE c[j] = IF j < i THEN s[j] ELSE s[j + 1]
  <2>1. CASE j < i
    BY <1>2, <1>3, <1>6, <2>1
  <2>2. CASE ~(j < i)
    <3>1. PICK k : k = j - (i - 1)
      OBVIOUS
    <3>2. j \in i .. n - 1 /\ k \in 1 .. n - i /\ k + i = j + 1
      BY <1>2, <2>2, <3>1
    <3>3. c[j] = b[k]
      BY <1>6, <3>1, <3>2
    <3>4. b[k] = s[j + 1]
      BY <1>4, <3>2
    <3> QED
      BY <2>2, <3>3, <3>4
  <2> QED
    BY <2>1, <2>2
<1>8. RemoveAt(s, i) = c
  BY <1>1, <1>5 DEF RemoveAt
<1> QED
  BY <1>1, <1>6, <1>7, <1>8

\* Clicks and shift-clicks on the headers keep a column at one position.
LEMMA ClicksSort ==
    ASSUME NEW keys \in Seq(SortKey), OneEach(keys), NEW field \in SortFields
    PROVE  /\ click(keys, field) \in Seq(SortKey) /\ OneEach(click(keys, field))
           /\ shift_click(keys, field) \in Seq(SortKey) /\ OneEach(shift_click(keys, field))
<1>1. PICK n : n = Len(keys)
  OBVIOUS
<1>2. /\ n \in Nat /\ DOMAIN keys = 1 .. n
      /\ \A i \in 1 .. n : keys[i] \in SortKey
  BY <1>1
<1>3. \A i, j \in 1 .. n : i # j => keys[i].field # keys[j].field
  BY <1>2 DEF OneEach
<1>4. click(keys, field) \in Seq(SortKey) /\ OneEach(click(keys, field))
  <2>1. PICK key : click(keys, field) = <<key>> /\ key \in SortKey
    <3>1. [field |-> field, descending |-> FALSE] \in SortKey
      BY DEF SortKey
    <3>2. [field |-> field, descending |-> ~keys[1].descending] \in SortKey
      BY DEF SortKey
    <3> QED
      BY <3>1, <3>2 DEF click
  <2> QED
    BY <2>1 DEF OneEach
<1>5. PICK at : at = {i \in DOMAIN keys : keys[i].field = field}
  OBVIOUS
<1>6. PICK v : v = shift_click(keys, field)
  OBVIOUS
<1>7. CASE at = {}
  <2>1. PICK key : key = [field |-> field, descending |-> FALSE]
    OBVIOUS
  <2>2. v = Append(keys, key) /\ key \in SortKey /\ key.field = field
    BY <1>5, <1>6, <1>7, <2>1 DEF shift_click, SortKey
  <2>3. /\ v \in Seq(SortKey) /\ DOMAIN v = 1 .. n + 1 /\ v[n + 1] = key
        /\ \A i \in 1 .. n : v[i] = keys[i]
    BY <1>1, <2>2
  <2>4. \A i \in 1 .. n : keys[i].field # field
    BY <1>2, <1>5, <1>7
  <2>5. ASSUME NEW i \in 1 .. n + 1, NEW j \in 1 .. n + 1, i # j PROVE v[i].field # v[j].field
    <3>1. (i = n + 1 \/ i \in 1 .. n) /\ (j = n + 1 \/ j \in 1 .. n)
      BY <1>2
    <3> QED
      BY <1>3, <2>2, <2>3, <2>4, <2>5, <3>1
  <2> QED
    BY <1>4, <1>6, <2>3, <2>5 DEF OneEach
<1>8. CASE at # {}
  <2>1. PICK i : i = CHOOSE x \in at : TRUE
    OBVIOUS
  <2>2. i \in 1 .. n /\ v = IF keys[i].descending THEN RemoveAt(keys, i)
                            ELSE [keys EXCEPT ![i].descending = TRUE]
    BY <1>2, <1>5, <1>6, <1>8, <2>1 DEF shift_click
  <2>3. CASE keys[i].descending
    <3>1. v = RemoveAt(keys, i)
      BY <2>2, <2>3
    <3>2. /\ v \in Seq(SortKey) /\ Len(v) = n - 1
          /\ \A j \in 1 .. n - 1 : v[j] = IF j < i THEN keys[j] ELSE keys[j + 1]
      BY <1>1, <2>2, <3>1, WithoutOne
    <3>3. DOMAIN v = 1 .. n - 1
      BY <3>2
    <3>4. ASSUME NEW j \in 1 .. n - 1, NEW k \in 1 .. n - 1, j # k PROVE v[j].field # v[k].field
      <4>1. PICK x, y : /\ x = IF j < i THEN j ELSE j + 1
                        /\ y = IF k < i THEN k ELSE k + 1
        OBVIOUS
      <4>2. x \in 1 .. n /\ y \in 1 .. n /\ x # y
        BY <1>2, <2>2, <3>4, <4>1
      <4>3. v[j] = keys[x] /\ v[k] = keys[y]
        BY <3>2, <4>1
      <4> QED
        BY <1>3, <4>2, <4>3
    <3> QED
      BY <1>4, <1>6, <3>2, <3>3, <3>4 DEF OneEach
  <2>4. CASE ~keys[i].descending
    <3>1. PICK key : key = [keys[i] EXCEPT !.descending = TRUE]
      OBVIOUS
    <3>2. v = [keys EXCEPT ![i] = key]
      BY <2>2, <2>4, <3>1
    <3>3. key \in SortKey /\ key.field = keys[i].field
      BY <1>2, <2>2, <3>1 DEF SortKey
    <3>4. /\ v \in Seq(SortKey) /\ DOMAIN v = 1 .. n
          /\ \A j \in 1 .. n : v[j].field = keys[j].field
      <4>1. DOMAIN v = 1 .. n /\ \A j \in 1 .. n : v[j] = IF j = i THEN key ELSE keys[j]
        BY <1>2, <3>2
      <4>2. v \in [1 .. n -> SortKey]
        BY <1>2, <3>2, <3>3, <4>1
      <4>3. v \in Seq(SortKey)
        BY <1>2, <4>2
      <4> QED
        BY <3>3, <4>1, <4>3
    <3> QED
      BY <1>3, <1>4, <1>6, <3>4 DEF OneEach
  <2> QED
    BY <2>3, <2>4
<1> QED
  BY <1>7, <1>8

\* What the user does in the panel.
LEMMA InputHolds ==
    ASSUME PnIInv, NEW p, Input(p), p \in PanelRow, OneEach(p.sort),
           p.sort # << >> => "sort" \in p.modifications
    PROVE  PnIInv'
<1>1. panel' = p /\ document' = document /\ clicks' = clicks + 1 /\ clicks < MaxClicks
  BY DEF Input
<1>2. clicks' \in 0 .. MaxClicks
  <2>1. clicks \in 0 .. MaxClicks /\ MaxClicks \in Nat
    BY GridPanelAssumption DEF PnIInv
  <2> QED
    BY <1>1, <2>1
<1>3. OneEach(panel.sort)'
  BY <1>1
<1> QED
  BY <1>1, <1>2, <1>3 DEF PnIInv

\* Each click on the panel keeps the panel's invariant.
LEMMA PanelStep ==
    ASSUME PnIInv, PanelNext
    PROVE  PnIInv'
<1>1. /\ panel \in PanelRow /\ document \in DocumentRow /\ clicks \in 0 .. MaxClicks
      /\ panel.sort # << >> => "sort" \in panel.modifications
      /\ OneEach(panel.sort) /\ panel.sort \in Seq(SortKey)
  BY DEF PnIInv, PanelRow
<1>2. ASSUME NEW field \in SortFields, NEW extend \in BOOLEAN, header_sort_click(field, extend)
      PROVE  PnIInv'
  <2>1. PICK keys, p :
            /\ keys = IF extend THEN shift_click(panel.sort, field) ELSE click(panel.sort, field)
            /\ p = [panel EXCEPT !.sort = keys, !.modifications = panel.modifications \cup {"sort"}]
    OBVIOUS
  <2>2. keys \in Seq(SortKey) /\ OneEach(keys)
    BY <1>1, <2>1, ClicksSort
  <2>3. p \in PanelRow /\ p.sort = keys /\ "sort" \in p.modifications
    BY <1>1, <2>1, <2>2 DEF PanelRow
  <2>4. Input(p)
    BY <1>2, <2>1 DEF header_sort_click
  <2> QED
    BY <2>2, <2>3, <2>4, InputHolds
<1>3. ASSUME NEW kind \in {"columnWidth", "viewSettings"}, modify(kind)
      PROVE  PnIInv'
  <2>1. PICK p : p = [panel EXCEPT !.modifications = panel.modifications \cup {kind}]
    OBVIOUS
  <2>2. p \in PanelRow /\ p.sort = panel.sort /\ p.modifications = panel.modifications \cup {kind}
    BY <1>1, <2>1 DEF PanelRow
  <2>3. Input(p)
    BY <1>3, <2>1 DEF modify
  <2> QED
    BY <1>1, <2>2, <2>3, InputHolds
<1>4. ASSUME NEW view \in PanelViews, select_view(view)
      PROVE  PnIInv'
  <2>1. PICK p : p = [panel EXCEPT !.view = view, !.modifications = {}, !.sort = << >>]
    OBVIOUS
  <2>2. p \in PanelRow /\ p.sort = << >>
    <3>1. PICK none : none = << >> /\ none \in Seq(SortKey)
      <4>1. << >> \in Seq(SortKey)
        OBVIOUS
      <4> QED
        BY <4>1, Zenon
    <3>2. p = [panel EXCEPT !.view = view, !.modifications = {}, !.sort = none]
      BY <2>1, <3>1
    <3>3. /\ p.view \in PanelViews /\ p.modifications = {} /\ p.sort = none
          /\ p.search = panel.search /\ p.selection = panel.selection
          /\ p = [view |-> p.view, modifications |-> p.modifications, sort |-> p.sort,
                  search |-> p.search, selection |-> p.selection]
      BY <1>1, <3>2 DEF PanelRow
    <3>4. panel.search \in Searches /\ panel.selection \in Selection
      BY <1>1 DEF PanelRow
    <3>5. p \in PanelRow
      BY <3>1, <3>3, <3>4 DEF PanelRow
    <3> QED
      BY <3>1, <3>3, <3>5
  <2>3. Input(p) /\ OneEach(p.sort)
    BY <1>4, <2>1, <2>2 DEF select_view, OneEach
  <2> QED
    BY <2>2, <2>3, InputHolds
<1>5. ASSUME NEW selection \in Selection, Input([panel EXCEPT !.selection = selection])
      PROVE  PnIInv'
  <2>1. PICK p : p = [panel EXCEPT !.selection = selection]
    OBVIOUS
  <2>2. p \in PanelRow /\ p.sort = panel.sort /\ p.modifications = panel.modifications
    BY <1>1, <2>1 DEF PanelRow
  <2> QED
    BY <1>1, <1>5, <2>1, <2>2, InputHolds
<1>6. ASSUME NEW r \in GRows, toggleSelected(r)
      PROVE  PnIInv'
  <2>1. PICK selection : selection = toggled(panel.selection, r)
    OBVIOUS
  <2>2. panel.selection \in Selection
    BY <1>1 DEF PanelRow
  <2>3. selection \in Selection
    BY <2>1, <2>2 DEF Selection, NoSelection, toggled
  <2>4. Input([panel EXCEPT !.selection = selection])
    BY <1>6, <2>1 DEF toggleSelected
  <2> QED
    BY <1>5, <2>3, <2>4
<1>7. ASSUME selectEntireFilteredSet
      PROVE  PnIInv'
  <2>1. [kind |-> "filteredSet", ids |-> {}] \in Selection
    BY DEF Selection
  <2> QED
    BY <1>5, <1>7, <2>1 DEF selectEntireFilteredSet
<1>8. ASSUME NEW search \in Searches, TypeSearch(search)
      PROVE  PnIInv'
  <2>1. PICK p : p = [panel EXCEPT !.search = search]
    OBVIOUS
  <2>2. p \in PanelRow /\ p.sort = panel.sort /\ p.modifications = panel.modifications
    BY <1>1, <2>1 DEF PanelRow
  <2>3. Input(p)
    BY <1>8, <2>1 DEF TypeSearch
  <2> QED
    BY <1>1, <2>2, <2>3, InputHolds
<1>9. ASSUME PostDocument
      PROVE  PnIInv'
  <2>1. /\ panel' = panel /\ clicks < MaxClicks /\ clicks' = clicks + 1
        /\ document' = [status |-> "queued", payload |-> _document_payload, rows |-> {}]
    BY <1>9 DEF PostDocument
  <2>2. clicks' \in 0 .. MaxClicks
    <3>1. MaxClicks \in Nat
      BY GridPanelAssumption
    <3> QED
      BY <1>1, <2>1, <3>1
  <2>3. panel.selection \in Selection /\ panel.search \in Searches
    BY <1>1 DEF PanelRow
  <2>4. resolve_export_scope(panel.selection) \in Scope
    BY <2>3 DEF resolve_export_scope, Scope, Selection
  <2>5. document' \in DocumentRow
    BY <2>1, <2>3, <2>4 DEF DocumentRow, _document_payload
  <2>6. OneEach(panel.sort)'
    BY <1>1, <2>1
  <2> QED
    BY <1>1, <2>1, <2>2, <2>5, <2>6 DEF PnIInv
<1>10. ASSUME RunDocument
       PROVE  PnIInv'
  <2>1. /\ document.status = "queued" /\ panel' = panel /\ clicks' = clicks
        /\ document' = [document EXCEPT !.status = "done", !.rows = _read_view_rows(document.payload)]
    BY <1>10 DEF RunDocument
  <2>2. _read_view_rows(document.payload) \in SUBSET GRows
    BY DEF _read_view_rows
  <2>3. document' \in DocumentRow
    <3>1. PICK rows : rows = _read_view_rows(document.payload)
      OBVIOUS
    <3>2. document \in [status : {"queued", "done"}, rows : SUBSET GRows,
                        payload : [scope : Scope, search : Searches]]
      BY <1>1, <2>1 DEF DocumentRow, NotAsked
    <3>3. document' = [document EXCEPT !.status = "done", !.rows = rows] /\ rows \in SUBSET GRows
      BY <2>1, <2>2, <3>1
    <3> QED
      BY <3>2, <3>3 DEF DocumentRow
  <2>4. OneEach(panel.sort)'
    BY <1>1, <2>1
  <2> QED
    BY <1>1, <2>1, <2>3, <2>4 DEF PnIInv
<1>11. ASSUME UNCHANGED panelOnly
       PROVE  PnIInv'
  <2>1. panel' = panel /\ document' = document /\ clicks' = clicks
    BY <1>11 DEF panelOnly
  <2>2. OneEach(panel.sort)'
    BY <1>1, <2>1
  <2> QED
    BY <1>1, <2>1, <2>2 DEF PnIInv
<1> QED
  BY <1>2, <1>3, <1>4, <1>6, <1>7, <1>8, <1>9, <1>10, <1>11 DEF PanelNext

\* A step of the rows alone leaves the panel.
LEMMA SamePanelHolds ==
    ASSUME PnIInv, UNCHANGED panelOnly
    PROVE  PnIInv'
<1>1. panel' = panel /\ document' = document /\ clicks' = clicks
  BY DEF panelOnly
<1>2. OneEach(panel.sort)'
  BY <1>1 DEF PnIInv
<1> QED
  BY <1>1, <1>2 DEF PnIInv

\* The rows under the panel keep theirs.
LEMMA SameRowsHold ==
    ASSUME GrIInv, UNCHANGED rowVars
    PROVE  GrIInv'
<1>1. /\ grows' = grows /\ sorted' = sorted /\ recent' = recent /\ scroll' = scroll
      /\ asked' = asked /\ written' = written /\ ran' = ran
  BY DEF rowVars
<1>2. GrTyped'
  BY <1>1 DEF GrIInv, GrTyped
<1>3. ASSUME NEW q \in Slots
      PROVE  ScrollOK(scroll[q])' /\ SaveOK(scroll[q], recent.list, recent.version)'
  <2>1. PICK w : w = scroll[q] /\ w = scroll'[q]
    BY <1>1
  <2>2. ScrollOK(w) /\ SaveOK(w, recent.list, recent.version)
    BY <2>1 DEF GrIInv
  <2>3. ScrollOK(w)'
    BY <1>1, <2>2, SameTable
  <2> QED
    BY <1>1, <2>1, <2>2, <2>3
<1>4. RecallOK(recent.list, ran)'
  BY <1>1 DEF GrIInv
<1> QED
  BY <1>2, <1>3, <1>4 DEF GrIInv

\* Each step of the rows keeps the grid's invariant.
LEMMA RowsStep ==
    ASSUME GrIInv, RowsNext
    PROVE  GrIInv'
  BY OpenGridStep, ReadPageStep, AnswerPageStep, ReadAggregatesStep, WriteRowStep DEF RowsNext

\* A click on the panel leaves the rows, or writes one.
LEMMA RowsUnderPanel ==
    ASSUME GrIInv, PanelNext
    PROVE  GrIInv'
<1>1. UNCHANGED rowVars \/ \E r \in GRows, row \in GridRow : WriteRow(r, row)
  BY DEF PanelNext, header_sort_click, modify, select_view, toggleSelected,
         selectEntireFilteredSet, TypeSearch, PostDocument, RunDocument, Input
<1> QED
  BY <1>1, SameRowsHold, WriteRowStep

\* At first no window scrolls and nothing is marked.
LEMMA PanelInvInit ==
    PanelInit => GrIInv /\ PnIInv
<1> SUFFICES ASSUME PanelInit PROVE GrIInv /\ PnIInv
  OBVIOUS
<1>1. PICK values \in Tables :
          grows = [r \in GRows |-> [live |-> TRUE, value |-> values[r], match |-> TRUE]]
  BY DEF PanelInit, RowsInit
<1>2. /\ sorted \in BOOLEAN /\ recent = [list |-> << >>, version |-> 0]
      /\ scroll = [q \in Slots |-> Closed] /\ asked = 0 /\ written = 0 /\ ran = << >>
  BY DEF PanelInit, RowsInit
<1>3. GrTyped
  <2>1. grows \in [GRows -> GridRow]
    <3>1. values \in [GRows -> SortValues \cup {NullValue}]
      BY GridRowsAssumption
    <3> QED
      BY <1>1, <3>1 DEF GridRow
  <2>2. recent \in [list : Seq(Armed), version : Nat] /\ ran \in Seq(Armed)
    BY <1>2
  <2>3. scroll \in [Slots -> ScrollRow]
    BY <1>2 DEF ScrollRow
  <2>4. asked \in 0 .. MaxPages /\ written \in 0 .. MaxRowWrites
    BY <1>2, GridRowsAssumption
  <2> QED
    BY <1>2, <2>1, <2>2, <2>3, <2>4 DEF GrTyped
<1>4. \A q \in Slots : ScrollOK(scroll[q]) /\ SaveOK(scroll[q], recent.list, recent.version)
  BY <1>2 DEF ScrollOK, SaveOK, Closed
<1>5. RecallOK(recent.list, ran)
  <2>1. RECENT_SEARCH_LIMIT \in Nat
    BY GridRowsAssumption
  <2> QED
    BY <1>2, <2>1 DEF RecallOK
<1>6. PnIInv
  <2>1. panel = [view |-> CHOOSE v \in PanelViews : TRUE, modifications |-> {}, sort |-> << >>,
                 search |-> CHOOSE s \in Searches \ Armed : TRUE, selection |-> NoSelection]
        /\ document = NotAsked /\ clicks = 0
    BY DEF PanelInit
  <2>2. (CHOOSE v \in PanelViews : TRUE) \in PanelViews /\ (CHOOSE s \in Searches \ Armed : TRUE) \in Searches
    BY GridPanelAssumption
  <2>3. panel \in PanelRow
    BY <2>1, <2>2 DEF PanelRow, Selection, NoSelection
  <2>4. clicks \in 0 .. MaxClicks
    BY <2>1, GridPanelAssumption
  <2> QED
    BY <2>1, <2>3, <2>4 DEF PnIInv, DocumentRow, OneEach
<1> QED
  BY <1>3, <1>4, <1>5, <1>6 DEF GrIInv

-----------------------------------------------------------------------------
(* All parts. *)

\* Whichever part moves, the views keep their invariant.
LEMMA VwInvKept ==
    Spec => []VwIInv
<1>1. Init => VwIInv
  BY VwInvInit DEF Init
<1>2. VwIInv /\ [Next]_screenVars => VwIInv'
  <2> SUFFICES ASSUME VwIInv, [Next]_screenVars PROVE VwIInv'
    OBVIOUS
  <2>1. CASE ViewsNext
    BY <2>1, VwInvStep
  <2>2. CASE UNCHANGED viewVars
    BY <2>2, VwTypes, OthersHold DEF viewVars, VwTyped
  <2> QED
    BY <2>1, <2>2 DEF Next, screenVars
<1> QED
  BY <1>1, <1>2, PTL DEF Spec

\* "The books never close": an acknowledgment that was answered stays in the
\* audit whatever views, clicks, edits, expiry and deletion of the message race
\* it, and what is acknowledged was read before, so no banner asks for it again
\* (view_home, view_message and acknowledge of messages.py).
THEOREM ConsentIsKept == Spec => []ConsentStands
<1>1. Init => MsgIInv
  BY MsgInvInit DEF Init
<1>2. MsgIInv /\ [Next]_screenVars => MsgIInv'
  <2> SUFFICES ASSUME [Next]_screenVars PROVE [MsgNext]_msgVars
    BY MsgInvStep
  <2> QED
    BY DEF Next, screenVars
<1>3. MsgIInv => ConsentStands
  <2> SUFFICES ASSUME MsgIInv PROVE ConsentStands
    OBVIOUS
  <2>1. ASSUME NEW m \in MessageKeys, NEW u \in MsgUsers, NEW stamp \in Stamps,
               <<m, u, stamp>> \in acked
        PROVE  /\ stamp # 0 /\ receipt[m][u].acknowledged = stamp
               /\ u \notin outstanding_acknowledgments(m)
    <3>1. stamp \in Nat
      BY AdminMessagesAssumption DEF Stamps
    <3> QED
      BY <2>1, <3>1 DEF MsgIInv, outstanding_acknowledgments
  <2>2. ASSUME NEW m \in MessageKeys, NEW u \in MsgUsers, receipt[m][u].acknowledged # 0
        PROVE  m \notin urgent_banner(u) /\ receipt[m][u].read <= receipt[m][u].acknowledged
    BY <2>2 DEF MsgIInv, ReceiptOK, urgent_banner, unread
  <2> QED
    BY <2>1, <2>2 DEF ConsentStands
<1> QED
  BY <1>1, <1>2, <1>3, PTL DEF Spec

\* Whichever part moves, the editors keep their invariant.
LEMMA EdInvKept == Spec => []EdIInv
<1>1. Init => EdIInv
  BY EdInvInit DEF Init
<1>2. EdIInv /\ [Next]_screenVars => EdIInv'
  <2> SUFFICES ASSUME [Next]_screenVars PROVE [EdNext]_edVars
    BY EdInvStep
  <2> QED
    BY DEF Next, screenVars
<1> QED
  BY <1>1, <1>2, PTL DEF Spec

\* "Never silently overwrites": no save replaces a value its user was not
\* shown, through any number of retries, merges and refreshes, unless a base
\* moved under unsaved edits; and a clean window ends up on the newest version
\* this session saved once its notices and reloads are done with
\* (edit_safety.py and field_edit.py).
THEOREM EditsMeetConflicts == Spec => []EditsMeetTheirConflicts
<1>1. EdIInv => EditsMeetTheirConflicts
  <2> SUFFICES ASSUME EdIInv, NEW w \in RecordWindows, window[w].dirty = {}, ~window[w].reload,
                      window[w].kind # "gone", notices[w] = {}, NEW f \in EdFields
               PROVE  window[w].seen[f] >= ownSave
    BY DEF EditsMeetTheirConflicts, EdIInv
  <2>1. EditOK(window[w], edVersion, changedAt) /\ HeardOK(window[w], notices[w], ownSave)
    BY EdTypes DEF EdIInv, Windows
  <2> QED
    BY <2>1 DEF EditOK, HeardOK
<1> QED
  BY <1>1, EdInvKept, PTL

\* "One working copy per user per grid": what a user applied last is never lost,
\* and what a grid, a link or the selector opens is a live view that is the
\* user's or the system's, however applications, saves, promotions and
\* deletions overlap (view_authoring.py, access/views.py and grid_surface.py).
THEOREM ViewsStayTheirs ==
    Spec => []ViewsStayTheirOwners
<1>1. VwIInv => ViewsStayTheirOwners
  BY CopiesKept, OwnersWriteTheirs, OpensVisible DEF ViewsStayTheirOwners
<1> QED
  BY <1>1, VwInvKept, PTL

\* Whichever part moves, the stored themes and the drafts keep their invariants.
LEMMA ThInvKept == Spec => [](ThIInv /\ DraftsFit)
<1>1. Init => ThIInv /\ DraftsFit
  BY ThInvInit DEF Init, FlowInit, DraftsFit
<1>2. ThIInv /\ DraftsFit /\ [Next]_screenVars => ThIInv' /\ DraftsFit'
  <2> SUFFICES ASSUME ThIInv, DraftsFit, [Next]_screenVars PROVE ThIInv' /\ DraftsFit'
    OBVIOUS
  <2>1. CASE ThemeNext /\ UNCHANGED flowVars
    BY <2>1, ThInvStep, DraftsStep DEF FlowNext
  <2>2. CASE FlowNext /\ FlowClick
    BY <2>2, SameThemesHold, DraftsStep DEF FlowClick
  <2>3. CASE UNCHANGED <<themeVars, flowVars>>
    <3>1. ThIInv'
      BY <2>3, SameThemesHold DEF themeVars
    <3>2. DraftsFit'
      BY <2>3 DEF flowVars, DraftsFit, validate_template
    <3> QED
      BY <3>1, <3>2
  <2>4. FlowNext => (ThemeNext /\ UNCHANGED flowVars) \/ (FlowNext /\ FlowClick)
    BY DEF FlowNext, start_user_template, apply_control_edit, finish_user_template
  <2>5. ThemeServe => ThemeNext
    BY DEF ThemeNext
  <2>6. ThemingStep => FlowNext \/ (ThemeNext /\ UNCHANGED flowVars)
    BY <2>5 DEF ThemingStep
  <2>7. LiveTemplates \subseteq Templates /\ RuleDocs \cap {Rule} \subseteq RuleDocs
    BY DEF LiveTemplates
  <2>8. RulesStep => ThemeNext /\ UNCHANGED flowVars
    BY <2>5, <2>7 DEF RulesStep, ThemeNext
  <2>9. \/ ThemingStep \/ RulesStep
        \/ UNCHANGED <<themeVars, flowVars>>
    BY DEF Next, screenVars
  <2> QED
    BY <2>1, <2>2, <2>3, <2>4, <2>6, <2>8, <2>9
<1> QED
  BY <1>1, <1>2, PTL DEF Spec

\* "What it holds is what the screens can paint": whatever edits, reorders,
\* appends and deletions race in the store, every live template and rule passes
\* the checks of the screens, a template's rules keep distinct orders, each
\* target of a row is painted by the first of its matching rules, and every
\* theme and draft resolves to a whole document (theming.py over the painters).
THEOREM ThemesRender == Spec => []StoredThemesRender
BY ThInvKept, ThemesFit, PTL

\* Whichever part moves, the grid keeps its invariants.
LEMMA GridInvKept == Spec => [](GrIInv /\ PnIInv)
<1>1. Init => GrIInv /\ PnIInv
  BY PanelInvInit DEF Init
<1>2. GrIInv /\ PnIInv /\ [Next]_screenVars => GrIInv' /\ PnIInv'
  <2> SUFFICES ASSUME GrIInv, PnIInv, [Next]_screenVars PROVE GrIInv' /\ PnIInv'
    OBVIOUS
  <2>1. CASE PanelNext
    BY <2>1, PanelStep, RowsUnderPanel
  <2>2. CASE RowsNext /\ UNCHANGED panelOnly
    BY <2>2, RowsStep, SamePanelHolds
  <2>3. CASE UNCHANGED panelVars
    BY <2>3, SameRowsHold, SamePanelHolds DEF panelVars
  <2> QED
    BY <2>1, <2>2, <2>3 DEF Next, screenVars
<1> QED
  BY <1>1, <1>2, PTL DEF Spec

\* "Every page ... stable under concurrent inserts": however records are written
\* while windows scroll, each settled row is served once and in order, the count
\* beside the pages is theirs, the searches offered again are the newest that
\* ran, and the panel marks what it shows that its view does not say
\* (list_engine.py, grid_surface.py and grid_panel.py).
THEOREM GridIsShown == Spec => []GridShowsItsTable
<1>1. PnIInv => PanelSaysWhatItShows
  <2> SUFFICES ASSUME PnIInv PROVE PanelSaysWhatItShows
    OBVIOUS
  <2>1. resolve_grid_state = "emptyView" => filtered(panel.search) = {} /\ panel.search \notin Armed
    BY DEF resolve_grid_state
  <2>2. panel.search \notin Armed => Hits[panel.search] = GRows
    BY GridRowsAssumption DEF PnIInv, PanelRow
  <2> QED
    BY <2>1, <2>2 DEF PanelSaysWhatItShows, PnIInv, OneEach, filtered
<1>2. GrIInv /\ PnIInv => GridShowsItsTable
  BY <1>1, PagesCover, RecallLists DEF GridShowsItsTable
<1> QED
  BY <1>2, GridInvKept, PTL

\* The source exposes fields an author may expose.
LEMMA ExposedKept == Spec => [](exposed \subseteq VFields)
<1>1. Init => exposed \subseteq VFields
  BY DEF Init, ViewsInit
<1>2. exposed \subseteq VFields /\ [Next]_screenVars => (exposed \subseteq VFields)'
  <2>1. ASSUME NEW u \in ViewUsers, NEW draft \in SourceDrafts, author_data_source(u, draft)
        PROVE  exposed' \subseteq VFields
    BY <2>1, GridViewsAssumption DEF author_data_source, exposed_field_names
  <2>2. ASSUME NEW q \in Slots, CommitViews(q) PROVE exposed' = exposed
    BY <2>2 DEF CommitViews
  <2>3. ASSUME NEW q \in Slots, NEW u \in ViewUsers, NEW fields, NEW v, NEW w, NEW name,
               \/ create_view(q, u, w, name, fields) \/ save_as_user_view(q, u, v, w, name)
               \/ apply_temporary_view(q, u, v, w, fields) \/ promote_view_to_system(q, u, v, w)
               \/ delete_user_view(q, u, v)
        PROVE  exposed' = exposed
    <3>1. \A call, rows : Flush(q, u, call, rows) => exposed' = exposed
      BY DEF Flush
    <3> QED
      BY <2>3, <3>1 DEF create_view, save_as_user_view, apply_temporary_view,
                        promote_view_to_system, delete_user_view
  <2>4. ASSUME NEW u \in ViewUsers, NEW v, remember_last_used_view(u, v) PROVE exposed' = exposed
    BY <2>4 DEF remember_last_used_view
  <2>5. ViewsNext => exposed' \subseteq VFields \/ exposed' = exposed
    BY <2>1, <2>2, <2>3, <2>4 DEF ViewsNext
  <2>6. [Next]_screenVars => ViewsNext \/ exposed' = exposed
    BY DEF Next, screenVars, viewVars
  <2> QED
    BY <2>5, <2>6
<1> QED
  BY <1>1, <1>2, PTL DEF Spec

\* Every variable of every part holds what its table, window or request can
\* (TypeOK of MCScreens).
THEOREM TypeCorrect == Spec => []TypeOK
<1>1. Init => MsgIInv /\ MsgBounds
  BY MsgInvInit, MsgBoundsInit DEF Init
<1>2. MsgIInv /\ MsgBounds /\ [Next]_screenVars => MsgIInv' /\ MsgBounds'
  <2> SUFFICES ASSUME MsgIInv, MsgBounds, [Next]_screenVars PROVE [MsgNext]_msgVars
    BY MsgInvStep, MsgBoundsStep
  <2> QED
    BY DEF Next, screenVars
<1>3. Spec => [](MsgIInv /\ MsgBounds)
  BY <1>1, <1>2, PTL DEF Spec
<1>4. ThIInv => ThemeTypeOK
  BY DEF ThIInv, ThTyped, ThemeTypeOK, TemplateRow, RuleRow
<1>5. VwIInv /\ exposed \subseteq VFields => ViewsTypeOK
  BY DEF VwIInv, VwTyped, ViewsTypeOK
<1>6. GrIInv => RowsTypeOK
  <2> SUFFICES ASSUME GrIInv PROVE RowsTypeOK
    OBVIOUS
  <2>1. \A q \in Slots : scroll[q].pc \in {"closed", "open", "asked", "end"}
    BY DEF GrIInv, GrTyped, ScrollRow, ScrollFields, AskedScroll, Closed
  <2> QED
    BY <2>1 DEF GrIInv, GrTyped, RecallOK, RowsTypeOK
<1>7. PnIInv => PanelTypeOK
  BY DEF PnIInv, PanelRow, DocumentRow, NotAsked, PanelTypeOK
<1>8. EdIInv => EdTypeOK
  BY DEF EdIInv
<1>9. MsgIInv /\ MsgBounds => MsgTypeOK
  BY MsgTypeHolds
<1>10. /\ ThIInv /\ VwIInv /\ exposed \subseteq VFields /\ GrIInv /\ PnIInv /\ EdIInv
       /\ MsgIInv /\ MsgBounds
       => TypeOK
  BY <1>4, <1>5, <1>6, <1>7, <1>8, <1>9 DEF TypeOK
<1> QED
  BY <1>3, <1>10, ThInvKept, VwInvKept, ExposedKept, GridInvKept, EdInvKept, PTL
=============================================================================
