--------------------------- MODULE AdminMessages ----------------------------
(***************************************************************************)
(* The administrator's messages and who has read and acknowledged them:    *)
(* StoredMessageCenter of src/mentorapp/api/messages.py behind             *)
(* api/routers/home.py.                                                    *)
(*                                                                         *)
(* A request reads messages and receipts, stamps, and commits once: a new  *)
(* receipt only if the unique index allows it, a stamp only on the version *)
(* that was read.  Nothing catches either failure: the request is a 500.   *)
(* The commit expires what was read, so an answer that renders messages    *)
(* reads them again, and refuses when one of them is deleted by then.      *)
(***************************************************************************)
EXTENDS Naturals, Requests

CONSTANTS
    MessageKeys, MsgUsers,
    MaxMsgTime,  \* bound on the clock; stamps start at 1
    MaxPatches   \* bound on the changes to messages

ASSUME AdminMessagesAssumption == MaxMsgTime \in Nat \ {0} /\ MaxPatches \in Nat

VARIABLES
    msgNow,
    message,   \* [MessageKeys -> the adminMessage row]
    receipt,   \* [MessageKeys -> [MsgUsers -> the adminMessageReceipt row]]
    msgReq,    \* [Slots -> request]
    patches,   \* how many changes there were
    acked     \* history: the clicks that were answered, with the stamp they met or made

msgVars == <<msgNow, message, receipt, msgReq, patches, acked>>

Stamps == 0 .. MaxMsgTime
\* expires: 0 for never.
Message == [status : {"none", "live", "deleted"}, urgent : BOOLEAN, requires : BOOLEAN,
            expires : Stamps]
\* Version 0: there is no row.  read, acknowledged: 0 for NULL.
Receipt == [version : Nat, read : Stamps, acknowledged : Stamps]

NoMessage == [status |-> "none", urgent |-> FALSE, requires |-> FALSE, expires |-> 0]
NoReceipt == [version |-> 0, read |-> 0, acknowledged |-> 0]

MsgTypeOK ==
    /\ msgNow \in Stamps \ {0} /\ patches \in 0 .. MaxPatches
    /\ message \in [MessageKeys -> Message]
    /\ receipt \in [MessageKeys -> [MsgUsers -> Receipt]]
    /\ \A q \in Slots : msgReq[q].pc \in {"idle", "home", "view", "acknowledge", "render"}
    /\ acked \subseteq MessageKeys \X MsgUsers \X Stamps

MsgInit ==
    /\ msgNow = 1 /\ patches = 0 /\ acked = {}
    /\ message = [m \in MessageKeys |-> NoMessage]
    /\ receipt = [m \in MessageKeys |-> [u \in MsgUsers |-> NoReceipt]]
    /\ msgReq = [q \in Slots |-> Idle]

-----------------------------------------------------------------------------
Live(m) == message[m].status = "live"
Visible(m) == Live(m) /\ (message[m].expires = 0 \/ msgNow < message[m].expires)

\* What the header asks for: urgent_banner, and the badge's unread messages.
unread(u) == {m \in MessageKeys : Visible(m) /\ receipt[m][u].read = 0}
urgent_banner(u) == {m \in unread(u) : message[m].urgent}

StartRequest(q, pc, u, keys) ==
    /\ msgReq[q] = Idle
    /\ msgReq' = [msgReq EXCEPT ![q] =
                     [pc |-> pc, user |-> u, keys |-> keys, at |-> msgNow,
                      copy |-> [m \in keys |-> receipt[m][u]]]]
    /\ UNCHANGED <<msgNow, message, receipt, patches, acked>>

\* GET /home reads every visible message.
view_home(q, u) == StartRequest(q, "home", u, {m \in MessageKeys : Visible(m)})

\* Opening one urgent message from the banner.
view_message(q, u, m) == m \in urgent_banner(u) /\ StartRequest(q, "view", u, {m})

\* The click; an expired message can still be acknowledged.
acknowledge(q, u, m) == Live(m) /\ message[m].requires /\ StartRequest(q, "acknowledge", u, {m})

\* _stamp_read, and acknowledge's stamp: each is written at most once.
Stamped(r, at, click) ==
    [version |-> r.version + 1,
     read |-> IF r.read = 0 THEN at ELSE r.read,
     acknowledged |-> IF click /\ r.acknowledged = 0 THEN at ELSE r.acknowledged]

\* The receipts a request changes: the others are not written.
Dirty(q) ==
    {m \in msgReq[q].keys :
        \/ msgReq[q].copy[m].read = 0
        \/ msgReq[q].pc = "acknowledge" /\ msgReq[q].copy[m].acknowledged = 0}

\* Mutant: no unique index and no version_id_col.
StampsLandMutant(q) == TRUE

StampsLand(q) == \A m \in Dirty(q) : receipt[m][msgReq[q].user].version = msgReq[q].copy[m].version

\* The commit; a click is answered with it, a view goes on to its answer.
CommitStamps(q) ==
    LET r == msgReq[q]
        click == r.pc = "acknowledge"
    IN  /\ r.pc \in {"home", "view", "acknowledge"} /\ StampsLand(q)
        /\ receipt' = [m \in MessageKeys |->
                          IF m \notin Dirty(q) THEN receipt[m]
                          ELSE [receipt[m] EXCEPT ![r.user] = Stamped(r.copy[m], r.at, click)]]
        /\ acked' = IF ~click THEN acked
                    ELSE acked \cup {<<m, r.user, Stamped(r.copy[m], r.at, TRUE).acknowledged>> :
                                         m \in r.keys}
        /\ msgReq' = [msgReq EXCEPT ![q] = IF click THEN Idle ELSE [r EXCEPT !.pc = "render"]]
        /\ UNCHANGED <<msgNow, message, patches>>

\* IntegrityError or StaleDataError: none of the stamps is kept.
StampsRefused(q) ==
    /\ msgReq[q].pc \in {"home", "view", "acknowledge"} /\ ~StampsLand(q)
    /\ msgReq' = [msgReq EXCEPT ![q] = Idle]
    /\ UNCHANGED <<msgNow, message, receipt, patches, acked>>

\* The answer: the payload of every message, or, when one has been deleted
\* since, UnknownMessageError and no payload at all.
Rendered(q) ==
    /\ msgReq[q].pc = "render"
    /\ msgReq' = [msgReq EXCEPT ![q] = Idle]
    /\ UNCHANGED <<msgNow, message, receipt, patches, acked>>

\* The administrator's writes; RecordWrites has the race of two of them.  The
\* router posts under a new key, so no message is published twice.
post_message(m) ==
    /\ message[m].status = "none" /\ patches < MaxPatches
    /\ \E urgent, requires \in BOOLEAN, expires \in {0} \cup (msgNow + 1 .. MaxMsgTime) :
          message' = [message EXCEPT ![m] = [status |-> "live", urgent |-> urgent,
                                             requires |-> requires, expires |-> expires]]
    /\ patches' = patches + 1
    /\ UNCHANGED <<msgNow, receipt, msgReq, acked>>

patch_message(m) ==
    /\ Live(m) /\ patches < MaxPatches
    /\ \E changed \in {[message[m] EXCEPT !.urgent = ~@], [message[m] EXCEPT !.requires = ~@]}
                      \cup {[message[m] EXCEPT !.expires = e] : e \in Stamps} :
          message' = [message EXCEPT ![m] = changed]
    /\ patches' = patches + 1
    /\ UNCHANGED <<msgNow, receipt, msgReq, acked>>

delete_message(m) ==
    /\ Live(m) /\ patches < MaxPatches
    /\ message' = [message EXCEPT ![m].status = "deleted"]
    /\ patches' = patches + 1
    /\ UNCHANGED <<msgNow, receipt, msgReq, acked>>

MsgTick ==
    /\ msgNow < MaxMsgTime /\ msgNow' = msgNow + 1
    /\ UNCHANGED <<message, receipt, msgReq, patches, acked>>

MsgNext ==
    \/ \E q \in Slots :
          \/ \E u \in MsgUsers : \/ view_home(q, u)
                                 \/ \E m \in MessageKeys : view_message(q, u, m) \/ acknowledge(q, u, m)
          \/ CommitStamps(q) \/ StampsRefused(q) \/ Rendered(q)
    \/ \E m \in MessageKeys : post_message(m) \/ patch_message(m) \/ delete_message(m)
    \/ MsgTick

MsgSpec == MsgInit /\ [][MsgNext]_msgVars

-----------------------------------------------------------------------------
\* outstanding_acknowledgments: who has not acknowledged yet.  The audit is
\* refused for a message that is deleted or does not ask for it (any more).
AuditAnswers(m) == Live(m) /\ message[m].requires
outstanding_acknowledgments(m) == {u \in MsgUsers : receipt[m][u].acknowledged = 0}

\* "A repeat click never rewrites the first consent's timestamp": every click
\* that was answered stands in the receipt with the stamp of the first one,
\* whatever views, second clicks, edits, expiry and deletion of the message
\* race it, and whenever the audit answers, also after expiry and after the
\* request was switched off and on again, it does not list the user.  And what
\* is acknowledged was read before, so no banner asks for it again.
ConsentStands ==
    /\ \A m \in MessageKeys, u \in MsgUsers, stamp \in Stamps :
          <<m, u, stamp>> \in acked =>
              /\ stamp # 0 /\ receipt[m][u].acknowledged = stamp
              /\ AuditAnswers(m) => u \notin outstanding_acknowledgments(m)
    /\ \A m \in MessageKeys, u \in MsgUsers :
          receipt[m][u].acknowledged # 0 =>
              m \notin urgent_banner(u) /\ receipt[m][u].read <= receipt[m][u].acknowledged
=============================================================================
