---------------------------- MODULE WindowProofs ----------------------------
(***************************************************************************)
(* Proofs about SessionWindows, for any number of windows, calls and       *)
(* sessions: references are used one after the other, in the order in      *)
(* which the server gave them out, so what the store has is the newest     *)
(* that arrived; and a held call has a prompt in front of it.              *)
(***************************************************************************)
EXTENDS SessionWindows, SequenceTheorems, TLAPS

-----------------------------------------------------------------------------
(* What is known of the sessions, in the state that the parameters give: srv *)
(* the server's rows, st the store, win the windows, calls their calls.      *)

\* A reference that was given out once.
RefOK(ref, srv) ==
    ref # NoRef =>
        /\ ref.session \in SessionIDs /\ srv[ref.session].state # "absent"
        /\ ref.secret \in 1 .. srv[ref.session].secret

\* A call of the slot c: a request takes its reference along, and an answer
\* that brings one brings the newest of its session.
CallOK(k, c, srv) ==
    /\ k.ref # NoRef => k.stage = "sent"
    /\ k.given # NoRef => /\ k.stage = "answered" /\ k.answer = "ok" /\ c \in {"login", "reauth"}
                          /\ k.given.secret = srv[k.given.session].secret
    /\ k.stage = "held" => c \in Data
    /\ RefOK(k.ref, srv) /\ RefOK(k.given, srv)

\* Nobody uses the reference ref yet.
Unused(ref, st, win, calls) ==
    /\ st # ref
    /\ \A v \in Windows : win[v].session # ref /\ \A d \in Slots : calls[v][d].ref # ref

\* What an answer brings is used by nobody, and no other answer brings it.
Fresh(st, win, calls) ==
    \A w \in Windows, c \in Slots : calls[w][c].given # NoRef =>
        /\ Unused(calls[w][c].given, st, win, calls)
        /\ \A v \in Windows, d \in Slots :
              calls[v][d].given = calls[w][c].given => v = w /\ d = c

RefsOK ==
    /\ \A s \in SessionIDs : server[s].state = "absent" => server[s].secret = 1
    /\ RefOK(store, server)
    /\ \A w \in Windows : /\ RefOK(window[w].session, server)
                          /\ \A c \in Slots : CallOK(call[w][c], c, server)

\* As long as no log out left a prompt behind, a boundary waits for a re-login
\* exactly while it shows its prompt, and some call with it.
PromptOK(win, calls) ==
    /\ win.revival # "orphan"
    /\ win.revival = "prompted" <=> win.screen = "reauthPrompt"
    /\ (\E c \in Slots : calls[c].stage = "held") <=> win.screen = "reauthPrompt"

\* The inductive invariant.
IInv ==
    /\ TypeOK /\ RefsOK /\ Fresh(store, window, call) /\ StoreIsCurrent
    /\ abandoned = 0 => \A w \in Windows : PromptOK(window[w], call[w])

-----------------------------------------------------------------------------
(* Steps that give nothing new out. *)

\* The call k of the slot c may go on as k2: it takes a stored reference along,
\* at the most, and keeps the answer it has or forgets it.
Continues(k, k2, c, known) ==
    /\ k2.ref \in known \cup {NoRef, k.ref} /\ (k2.ref # NoRef => k2.stage = "sent")
    /\ k2.given # NoRef => k2.given = k.given /\ k2.stage = k.stage /\ k2.answer = k.answer
    /\ k2.stage = "held" => c \in Data

\* The server gives no secret out.
SameSecrets(srv, srv2) ==
    \A s \in SessionIDs : /\ srv2[s].secret = srv[s].secret
                          /\ srv2[s].state = "absent" <=> srv[s].state = "absent"

\* What the invariant says of every variable, window and call.
LEMMA Types ==
    ASSUME IInv
    PROVE  /\ server \in [SessionIDs -> [state : {"absent", "active", "reauthPending", "ended"},
                                         secret : Nat]]
           /\ store \in Ref /\ window \in [Windows -> Window] /\ call \in [Windows -> [Slots -> Call]]
           /\ expiries \in Nat /\ faults \in Nat /\ abandoned \in Nat /\ lost \in BOOLEAN
           /\ \A w \in Windows : window[w] \in Window /\ window[w].session \in Ref
           /\ \A w \in Windows : call[w] \in [Slots -> Call]
           /\ \A w \in Windows, c \in Slots : /\ call[w][c] \in Call /\ call[w][c].ref \in Ref
                                              /\ call[w][c].given \in Ref
           /\ \A w \in Windows, c \in Slots : CallOK(call[w][c], c, server)
  BY DEF IInv, TypeOK, RefsOK, Window, Call

\* A reference stays what it was when no secret is given out.
LEMMA RefStays ==
    ASSUME NEW ref, NEW srv, NEW srv2, RefOK(ref, srv), SameSecrets(srv, srv2)
    PROVE  RefOK(ref, srv2)
  BY DEF RefOK, SameSecrets

\* A call that goes on keeps what is known of calls.
LEMMA CallStays ==
    ASSUME IInv, NEW w \in Windows, NEW c \in Slots, NEW k2, NEW srv2,
           NEW known, \A r \in known : RefOK(r, server),
           Continues(call[w][c], k2, c, known), SameSecrets(server, srv2)
    PROVE  CallOK(k2, c, srv2)
<1>1. PICK k : k = call[w][c] /\ CallOK(k, c, server) /\ Continues(k, k2, c, known)
  BY Types
<1>2. RefOK(NoRef, server)
  BY DEF RefOK
<1>3. RefOK(k2.ref, server) /\ RefOK(k2.given, server)
  BY <1>1, <1>2 DEF CallOK, Continues
<1>4. RefOK(k2.ref, srv2) /\ RefOK(k2.given, srv2)
  BY <1>3, RefStays
<1>5. k2.given # NoRef => srv2[k2.given.session].secret = server[k2.given.session].secret
  BY <1>3 DEF RefOK, SameSecrets
<1> QED
  BY <1>1, <1>4, <1>5 DEF CallOK, Continues

\* The newest reference that a store needs is on its way, or it has it.
Current(ref, srv, calls) ==
    \/ srv[ref.session].secret = ref.secret
    \/ \E w \in Windows :
          /\ calls[w]["reauth"].stage = "answered" /\ calls[w]["reauth"].answer = "ok"
          /\ calls[w]["reauth"].given = [ref EXCEPT !.secret = srv[ref.session].secret]

\* StoreIsCurrent, in terms of the three states that it speaks of.
LEMMA StoreIs ==
    StoreIsCurrent <=> (store # NoRef /\ ~lost => Current(store, server, call))
  BY DEF StoreIsCurrent, Current, Answered

\* In the window w something happens, and the server gives no secret out.
LEMMA QuietHolds ==
    ASSUME IInv, TypeOK', NEW w \in Windows, SameSecrets(server, server'),
           store' \in {store, NoRef}, window'[w].session \in {NoRef, store, window[w].session},
           \A c \in Slots : Continues(call[w][c], call'[w][c], c, {store, window[w].session}),
           lost => lost',
           call[w]["reauth"].given # NoRef => call'[w]["reauth"].given # NoRef \/ lost',
           abandoned' = 0 => abandoned = 0 /\ PromptOK(window'[w], call'[w]),
           \A v \in Windows : v # w =>
              /\ call'[v] = call[v]
              /\ window'[v].session = window[v].session /\ window'[v].screen = window[v].screen
              /\ window'[v].revival = window[v].revival
    PROVE  IInv'
<1> DEFINE known == {store, window[w].session}
<1>1. RefOK(store, server) /\ RefOK(window[w].session, server) /\ RefOK(NoRef, server)
  BY DEF IInv, RefsOK, RefOK
<1>2. \A r \in known : RefOK(r, server)
  BY <1>1
<1>3. \A v \in Windows, c \in Slots : Continues(call[v][c], call'[v][c], c, known)
  <2> SUFFICES ASSUME NEW v \in Windows, NEW c \in Slots, v # w
               PROVE  Continues(call[v][c], call'[v][c], c, known)
    OBVIOUS
  <2>1. call'[v][c] = call[v][c] /\ CallOK(call[v][c], c, server)
    BY Types
  <2> QED
    BY <2>1 DEF Continues, CallOK
<1> HIDE DEF known
<1>4. \A v \in Windows, c \in Slots : CallOK(call'[v][c], c, server')
  BY <1>2, <1>3, CallStays
<1>5. RefsOK'
  <2>1. RefOK(store', server')
    BY <1>1, RefStays
  <2>2. \A v \in Windows : RefOK(window'[v].session, server')
    BY <1>1, RefStays DEF IInv, RefsOK
  <2>3. \A s \in SessionIDs : server'[s].state = "absent" => server'[s].secret = 1
    BY DEF IInv, RefsOK, SameSecrets
  <2> QED
    BY <1>4, <2>1, <2>2, <2>3 DEF RefsOK
<1>6. Fresh(store', window', call')
  <2> SUFFICES ASSUME NEW u \in Windows, NEW c \in Slots, call'[u][c].given # NoRef
               PROVE  /\ Unused(call'[u][c].given, store', window', call')
                      /\ \A v \in Windows, d \in Slots :
                            call'[v][d].given = call'[u][c].given => v = u /\ d = c
    BY DEF Fresh
  <2>1. PICK g : g = call'[u][c].given /\ g # NoRef /\ g = call[u][c].given
    BY <1>3 DEF Continues
  <2>2. Unused(g, store, window, call) /\ \A v \in Windows, d \in Slots :
                                             call[v][d].given = g => v = u /\ d = c
    BY <2>1 DEF IInv, Fresh
  <2>3. g \notin known /\ store' # g
    BY <2>1, <2>2 DEF Unused, known
  <2>4. \A v \in Windows : window'[v].session # g
    BY <2>1, <2>2, <2>3 DEF Unused, known
  <2>5. \A v \in Windows, d \in Slots : call'[v][d].ref # g
    BY <1>3, <2>1, <2>2, <2>3 DEF Unused, Continues
  <2>6. \A v \in Windows, d \in Slots : call'[v][d].given = g => v = u /\ d = c
    BY <1>3, <2>1, <2>2 DEF Continues
  <2> QED
    BY <2>1, <2>3, <2>4, <2>5, <2>6 DEF Unused
<1>7. StoreIsCurrent'
  <2> SUFFICES ASSUME store' # NoRef, ~lost' PROVE Current(store', server', call')
    BY DEF StoreIsCurrent, Current, Answered
  <2>1. store' = store /\ ~lost /\ Current(store, server, call)
    BY StoreIs, Types DEF IInv
  <2>2. server'[store.session].secret = server[store.session].secret
    BY <1>1, <2>1 DEF RefOK, SameSecrets
  <2>3. CASE server[store.session].secret = store.secret
    BY <2>1, <2>2, <2>3 DEF Current
  <2>4. ASSUME NEW v \in Windows,
               call[v]["reauth"].stage = "answered", call[v]["reauth"].answer = "ok",
               call[v]["reauth"].given = [store EXCEPT !.secret = server[store.session].secret]
        PROVE  Current(store', server', call')
    <3>1. call[v]["reauth"].given # NoRef /\ "reauth" \in Slots
      BY <1>1, <2>1, <2>4, Types DEF RefOK, NoRef, Ref, Slots
    <3>2. call'[v]["reauth"].given # NoRef
      BY <3>1
    <3>3. /\ call'[v]["reauth"].given = call[v]["reauth"].given
          /\ call'[v]["reauth"].stage = "answered" /\ call'[v]["reauth"].answer = "ok"
      BY <1>3, <2>4, <3>1, <3>2 DEF Continues
    <3> QED
      BY <2>1, <2>2, <2>4, <3>3 DEF Current
  <2> QED
    BY <2>1, <2>3, <2>4 DEF Current
<1>8. abandoned' = 0 => \A v \in Windows : PromptOK(window'[v], call'[v])
  <2> SUFFICES ASSUME abandoned' = 0, NEW v \in Windows, v # w PROVE PromptOK(window'[v], call'[v])
    OBVIOUS
  <2> QED
    BY DEF IInv, PromptOK
<1> QED
  BY <1>5, <1>6, <1>7, <1>8 DEF IInv

-----------------------------------------------------------------------------
(* One call. *)

\* The slot of no call.
LEMMA FreeIs ==
    /\ NoRef \in Ref /\ Free \in Call
    /\ Free.stage = "free" /\ Free.ref = NoRef /\ Free.given = NoRef /\ Free.answer = "none"
  BY DEF Free, Call, NoRef, Ref

\* A request that goes out.
LEMMA SentIs ==
    ASSUME NEW ref \in Ref, NEW from \in {"app", "boundary", "left", "orphan", "gone"}
    PROVE  /\ Sent(ref, from) \in Call /\ Sent(ref, from).stage = "sent"
           /\ Sent(ref, from).ref = ref /\ Sent(ref, from).given = NoRef
  BY DEF Sent, Free, Call, NoRef, Ref

\* One slot is set and all others stay.
LEMMA CallSet ==
    ASSUME IInv, NEW w \in Windows, NEW c \in Slots, NEW k2 \in Call,
           call' = [call EXCEPT ![w][c] = k2]
    PROVE  /\ call' \in [Windows -> [Slots -> Call]] /\ call'[w][c] = k2
           /\ \A d \in Slots : d # c => call'[w][d] = call[w][d]
           /\ \A v \in Windows : v # w => call'[v] = call[v]
  BY Types

\* What an answer makes of a call, or that nobody waits for it.
LEMMA AnswerIs ==
    ASSUME IInv, NEW w \in Windows, NEW c \in Slots,
           NEW answer \in {"none", "ok", "reauthRequired", "unauthenticated", "failed"},
           NEW given \in Ref, Answer(w, c, answer, given)
    PROVE  \E k2 \in Call :
              /\ call' = [call EXCEPT ![w][c] = k2]
              /\ IF call[w][c].from = "gone" THEN k2 = Free
                 ELSE k2.stage = "answered" /\ k2.answer = answer /\ k2.given = given /\ k2.ref = NoRef
<1>1. PICK k \in Call : k = call[w][c]
  BY Types
<1>2. PICK k2 : k2 = IF k.from = "gone" THEN Free
                     ELSE [k EXCEPT !.stage = "answered", !.answer = answer, !.given = given,
                                    !.ref = NoRef]
  OBVIOUS
<1>3. call' = [call EXCEPT ![w][c] = k2]
  BY <1>1, <1>2 DEF Answer
<1>4. k2 \in Call
  BY <1>2, FreeIs DEF Call
<1>5. IF k.from = "gone" THEN k2 = Free
      ELSE k2.stage = "answered" /\ k2.answer = answer /\ k2.given = given /\ k2.ref = NoRef
  BY <1>2 DEF Call
<1> QED
  BY <1>1, <1>3, <1>4, <1>5

\* One call goes on, and no call is held.
LEMMA OneCallHolds ==
    ASSUME IInv, NEW w \in Windows, NEW c \in Slots, NEW k2 \in Call,
           call' = [call EXCEPT ![w][c] = k2], UNCHANGED <<store, window, expiries, abandoned>>,
           server' \in [SessionIDs -> [state : {"absent", "active", "reauthPending", "ended"},
                                       secret : Nat]],
           SameSecrets(server, server'), faults' \in Nat, lost' \in BOOLEAN,
           Continues(call[w][c], k2, c, {store, window[w].session}),
           call[w][c].stage # "held", k2.stage # "held", lost => lost',
           c = "reauth" /\ call[w][c].given # NoRef => k2.given # NoRef \/ lost'
    PROVE  IInv'
<1>1. /\ call' \in [Windows -> [Slots -> Call]] /\ call'[w][c] = k2
      /\ \A d \in Slots : d # c => call'[w][d] = call[w][d]
      /\ \A v \in Windows : v # w => call'[v] = call[v]
  BY CallSet
<1>2. TypeOK'
  BY <1>1, Types DEF TypeOK
<1>3. \A d \in Slots : Continues(call[w][d], call'[w][d], d, {store, window[w].session})
  BY <1>1, Types DEF Continues, CallOK
<1>4. abandoned' = 0 => abandoned = 0 /\ PromptOK(window'[w], call'[w])
  BY <1>1 DEF PromptOK, IInv
<1>5. call[w]["reauth"].given # NoRef => call'[w]["reauth"].given # NoRef \/ lost'
  <2>1. "reauth" \in Slots
    BY DEF Slots
  <2> QED
    BY <1>1, <2>1
<1> QED
  BY <1>1, <1>2, <1>3, <1>4, <1>5, QuietHolds

\* A surface calls with the stored reference.
LEMMA CallDataHolds ==
    ASSUME IInv, NEW w \in Windows, NEW c \in Slots, CallData(w, c)
    PROVE  IInv'
<1>1. PICK k2 \in Call : k2 = Sent(store, "app")
  BY SentIs, Types
<1>2. k2.stage = "sent" /\ k2.ref = store /\ k2.given = NoRef
  BY <1>1, SentIs, Types
<1>3. call[w][c].stage = "free" /\ call[w][c].given = NoRef
  BY FreeIs DEF CallData
<1>4. Continues(call[w][c], k2, c, {store, window[w].session})
  BY <1>2 DEF Continues
<1>5. call' = [call EXCEPT ![w][c] = k2] /\ UNCHANGED <<server, store, window, counts>>
  BY <1>1 DEF CallData
<1>6. SameSecrets(server, server')
  BY <1>5 DEF SameSecrets
<1> QED
  BY <1>2, <1>3, <1>4, <1>5, <1>6, OneCallHolds, Types DEF counts

\* A person sends a login, a re-login or a logout.
LEMMA PersonHolds ==
    ASSUME IInv, NEW w \in Windows, Login(w) \/ Reauthenticate(w) \/ Logout(w)
    PROVE  IInv'
<1>1. PICK c \in Slots, ref \in {NoRef, window[w].session}, from \in {"app", "boundary"} :
         call[w][c] = Free /\ call' = [call EXCEPT ![w][c] = Sent(ref, from)]
  BY DEF Login, Reauthenticate, Logout, Slots
<1>2. ref \in Ref
  BY FreeIs, Types
<1>3. PICK k2 \in Call : k2 = Sent(ref, from)
  BY <1>2, SentIs
<1>4. k2.stage = "sent" /\ k2.ref = ref /\ k2.given = NoRef
  BY <1>2, <1>3, SentIs
<1>5. Continues(call[w][c], k2, c, {store, window[w].session})
  BY <1>4 DEF Continues
<1>6. UNCHANGED <<server, store, window, counts>>
  BY DEF Login, Reauthenticate, Logout
<1>7. SameSecrets(server, server')
  BY <1>6 DEF SameSecrets
<1> QED
  BY <1>1, <1>3, <1>4, <1>5, <1>6, <1>7, OneCallHolds, FreeIs, Types DEF counts

\* An answer that brings no reference.
LEMMA PlainAnswerHolds ==
    ASSUME IInv, NEW w \in Windows, NEW c \in Slots,
           NEW answer \in {"none", "ok", "reauthRequired", "unauthenticated", "failed"},
           Answer(w, c, answer, NoRef), call[w][c].stage \in {"sent", "answered"},
           UNCHANGED <<store, window, expiries, abandoned>>,
           server' \in [SessionIDs -> [state : {"absent", "active", "reauthPending", "ended"},
                                       secret : Nat]],
           SameSecrets(server, server'), faults' \in Nat, lost' \in BOOLEAN, lost => lost',
           c = "reauth" /\ call[w][c].given # NoRef => lost'
    PROVE  IInv'
<1>1. PICK k2 \in Call :
         /\ call' = [call EXCEPT ![w][c] = k2]
         /\ IF call[w][c].from = "gone" THEN k2 = Free
            ELSE k2.stage = "answered" /\ k2.answer = answer /\ k2.given = NoRef /\ k2.ref = NoRef
  BY AnswerIs, FreeIs
<1>2. k2.ref = NoRef /\ k2.given = NoRef /\ k2.stage # "held"
  BY <1>1, FreeIs
<1>3. Continues(call[w][c], k2, c, {store, window[w].session})
  BY <1>2 DEF Continues
<1> QED
  BY <1>1, <1>2, <1>3, OneCallHolds

\* The server answers a surface.
LEMMA ServeDataHolds ==
    ASSUME IInv, NEW w \in Windows, NEW c \in Slots, ServeData(w, c)
    PROVE  IInv'
<1>1. PICK answer \in {"none", "ok", "reauthRequired", "unauthenticated", "failed"} :
         Answer(w, c, answer, NoRef)
  BY DEF ServeData
<1>2. /\ UNCHANGED <<server, store, window, counts>> /\ call[w][c].stage = "sent"
      /\ call[w][c].given = NoRef
  BY Types DEF ServeData, CallOK
<1>3. SameSecrets(server, server')
  BY <1>2 DEF SameSecrets
<1> QED
  BY <1>1, <1>2, <1>3, PlainAnswerHolds, Types DEF counts

\* A request or an answer is lost: a reference that it brings is lost with it.
LEMMA FailHolds ==
    ASSUME IInv, NEW w \in Windows, NEW c \in Slots, Fail(w, c)
    PROVE  IInv'
<1>1. /\ Answer(w, c, "failed", NoRef) /\ call[w][c].stage \in {"sent", "answered"}
      /\ UNCHANGED <<server, store, window, expiries, abandoned>> /\ faults' = faults + 1
      /\ lost' = (lost \/ (c = "reauth" /\ call[w][c].given # NoRef))
  BY DEF Fail
<1>2. SameSecrets(server, server') /\ lost' \in BOOLEAN /\ (lost => lost')
  BY <1>1, Types DEF SameSecrets
<1>3. c = "reauth" /\ call[w][c].given # NoRef => lost'
  BY <1>1
<1> QED
  BY <1>1, <1>2, <1>3, PlainAnswerHolds, Types

\* The server ends a session, which gives nothing out.
LEMMA ServeLogoutHolds ==
    ASSUME IInv, NEW w \in Windows, ServeLogout(w)
    PROVE  IInv'
<1>1. PICK ref : ref = call[w]["logout"].ref
  OBVIOUS
<1>2. /\ server' = IF Alive(ref) THEN [server EXCEPT ![ref.session].state = "ended"] ELSE server
      /\ Answer(w, "logout", "ok", NoRef) /\ call[w]["logout"].stage = "sent"
      /\ UNCHANGED <<store, window, counts>>
  BY <1>1 DEF ServeLogout
<1>3. "logout" \in Slots
  BY DEF Slots
<1>4. /\ server' \in [SessionIDs -> [state : {"absent", "active", "reauthPending", "ended"},
                                     secret : Nat]]
      /\ SameSecrets(server, server')
  <2>1. CASE Alive(ref)
    <3>1. server' = [server EXCEPT ![ref.session].state = "ended"]
      BY <1>2, <2>1
    <3>2. ref.session \in SessionIDs => server[ref.session].state # "absent"
      BY <2>1 DEF Alive
    <3> QED
      BY <3>1, <3>2, Types DEF SameSecrets
  <2>2. CASE ~Alive(ref)
    BY <1>2, <2>2, Types DEF SameSecrets
  <2> QED
    BY <2>1, <2>2
<1> QED
  BY <1>2, <1>3, <1>4, PlainAnswerHolds, Types DEF counts

\* A surface takes its answer.
LEMMA ReceiveHolds ==
    ASSUME IInv, NEW w \in Windows, NEW c \in Slots, Receive(w, c)
    PROVE  IInv'
<1>1. call' = [call EXCEPT ![w][c] = Free] /\ UNCHANGED <<server, store, window, counts>>
  BY DEF Receive
<1>2. call[w][c].stage = "answered" /\ (c \in Data \/ call[w][c].answer # "ok")
  BY DEF Receive, Answered, Unhandled
<1>3. call[w][c].given = NoRef
  BY <1>2, Types, SessionWindowsAssumption DEF CallOK
<1>4. SameSecrets(server, server')
  BY <1>1 DEF SameSecrets
<1>5. Continues(call[w][c], Free, c, {store, window[w].session})
  BY FreeIs DEF Continues
<1> QED
  BY <1>1, <1>2, <1>3, <1>4, <1>5, FreeIs, OneCallHolds, Types DEF counts

-----------------------------------------------------------------------------
(* One window. *)

Messages == {"SessionRevived", "SessionLoggedOut"}

\* What settle leaves of the calls: they go on, and none is held if the prompt
\* was theirs.
LEMMA SettleIs ==
    ASSUME IInv, NEW w \in Windows, NEW whose \in {"prompted", "orphan"},
           NEW revived \in BOOLEAN, NEW ref \in Ref
    PROVE  /\ settle(w, whose, revived, ref) \in [Slots -> Call]
           /\ \A c \in Slots :
                 /\ Continues(call[w][c], settle(w, whose, revived, ref)[c], c, {ref})
                 /\ settle(w, whose, revived, ref)[c].given = call[w][c].given
                 /\ whose = "prompted" /\ PromptOK(window[w], call[w]) =>
                       settle(w, whose, revived, ref)[c].stage # "held"
<1>1. PICK again : again = [Sent(ref, "app") EXCEPT !.replay = TRUE]
  OBVIOUS
<1>2. again \in Call /\ again.stage = "sent" /\ again.ref = ref /\ again.given = NoRef
  <2>1. PICK k \in Call : k = Sent(ref, "app") /\ k.stage = "sent" /\ k.ref = ref /\ k.given = NoRef
    BY SentIs
  <2>2. again = [k EXCEPT !.replay = TRUE]
    BY <1>1, <2>1
  <2> QED
    BY <2>1, <2>2 DEF Call
<1>3. \A c \in Slots : settle(w, whose, revived, ref)[c] \in {call[w][c], again, Free}
  BY <1>1 DEF settle
<1>4. settle(w, whose, revived, ref) = [c \in Slots |-> settle(w, whose, revived, ref)[c]]
  BY DEF settle
<1>5. settle(w, whose, revived, ref) \in [Slots -> Call]
  BY <1>2, <1>3, <1>4, FreeIs, Types
<1>6. ASSUME NEW c \in Slots
      PROVE  /\ Continues(call[w][c], settle(w, whose, revived, ref)[c], c, {ref})
             /\ settle(w, whose, revived, ref)[c].given = call[w][c].given
             /\ whose = "prompted" /\ PromptOK(window[w], call[w]) =>
                       settle(w, whose, revived, ref)[c].stage # "held"
  <2>1. CallOK(call[w][c], c, server)
    BY Types
  <2>2. CASE ~(Held(w, c) /\ window[w].revival = whose)
    <3>1. settle(w, whose, revived, ref)[c] = call[w][c]
      BY <2>2 DEF settle
    <3>2. whose = "prompted" /\ PromptOK(window[w], call[w]) => call[w][c].stage # "held"
      BY <2>2 DEF PromptOK, Held
    <3> QED
      BY <2>1, <3>1, <3>2 DEF Continues, CallOK
  <2>3. CASE Held(w, c) /\ window[w].revival = whose
    <3>1. settle(w, whose, revived, ref)[c] \in {again, Free}
      BY <1>1, <2>3 DEF settle
    <3>2. call[w][c].given = NoRef
      BY <2>1, <2>3 DEF CallOK, Held
    <3> QED
      BY <1>2, <3>1, <3>2, FreeIs DEF Continues
  <2> QED
    BY <2>2, <2>3
<1> QED
  BY <1>5, <1>6

\* Unmounting changes nothing of a call but who waits for it.
LEMMA UnmountedIs ==
    ASSUME NEW calls \in [Slots -> Call], NEW from \in {"left", "orphan"}
    PROVE  /\ Unmounted(calls, from) \in [Slots -> Call]
           /\ \A c \in Slots :
                 /\ Unmounted(calls, from)[c].stage = calls[c].stage
                 /\ Unmounted(calls, from)[c].answer = calls[c].answer
                 /\ Unmounted(calls, from)[c].ref = calls[c].ref
                 /\ Unmounted(calls, from)[c].given = calls[c].given
<1>1. ASSUME NEW c \in Slots
      PROVE  /\ Unmounted(calls, from)[c] \in Call
             /\ Unmounted(calls, from)[c].stage = calls[c].stage
             /\ Unmounted(calls, from)[c].answer = calls[c].answer
             /\ Unmounted(calls, from)[c].ref = calls[c].ref
             /\ Unmounted(calls, from)[c].given = calls[c].given
  BY DEF Unmounted, Call
<1>2. Unmounted(calls, from) = [c \in Slots |-> Unmounted(calls, from)[c]]
  BY DEF Unmounted
<1> QED
  BY <1>1, <1>2

\* A broadcast only reaches inboxes.
LEMMA BroadcastIs ==
    ASSUME NEW windows \in [Windows -> Window], NEW message \in Messages
    PROVE  /\ Broadcast(windows, message) \in [Windows -> Window]
           /\ \A v \in Windows :
                 /\ Broadcast(windows, message)[v].session = windows[v].session
                 /\ Broadcast(windows, message)[v].screen = windows[v].screen
                 /\ Broadcast(windows, message)[v].revival = windows[v].revival
<1>1. ASSUME NEW v \in Windows
      PROVE  /\ Broadcast(windows, message)[v] \in Window
             /\ Broadcast(windows, message)[v].session = windows[v].session
             /\ Broadcast(windows, message)[v].screen = windows[v].screen
             /\ Broadcast(windows, message)[v].revival = windows[v].revival
  <2>1. PICK x \in Window : x = windows[v]
    OBVIOUS
  <2>2. PICK inbox \in Seq(Messages) : inbox = Append(x.inbox, message)
    <3>1. x.inbox \in Seq(Messages)
      BY DEF Window, Messages
    <3> QED
      BY <3>1, AppendProperties
  <2>3. Broadcast(windows, message)[v] = IF x.screen = "signIn" THEN x ELSE [x EXCEPT !.inbox = inbox]
    BY <2>1, <2>2 DEF Broadcast
  <2> QED
    BY <2>1, <2>2, <2>3 DEF Window, Messages
<1>2. Broadcast(windows, message) = [v \in Windows |-> Broadcast(windows, message)[v]]
  BY DEF Broadcast
<1> QED
  BY <1>1, <1>2

\* A window that has just been opened.
LEMMA OpenedIs ==
    ASSUME NEW ref \in Ref
    PROVE  /\ Opened(ref) \in Window /\ Opened(ref).session = ref /\ Opened(ref).revival = "none"
           /\ Opened(ref).screen \in {"signIn", "active"}
<1>1. <<>> \in Seq(Messages)
  OBVIOUS
<1> QED
  BY <1>1 DEF Opened, Window, Messages

\* The calls of one window go on, and its boundary may change.
LEMMA OneWindowHolds ==
    ASSUME IInv, NEW w \in Windows, NEW calls \in [Slots -> Call],
           window' \in [Windows -> Window], call' = [call EXCEPT ![w] = calls],
           UNCHANGED <<server, expiries>>,
           store' \in {store, NoRef}, window'[w].session \in {NoRef, store, window[w].session},
           \A c \in Slots : Continues(call[w][c], calls[c], c, {store, window[w].session}),
           faults' \in Nat, abandoned' \in Nat, lost' \in BOOLEAN, lost => lost',
           call[w]["reauth"].given # NoRef => calls["reauth"].given # NoRef \/ lost',
           abandoned' = 0 => abandoned = 0 /\ PromptOK(window'[w], calls),
           \A v \in Windows : v # w =>
              /\ window'[v].session = window[v].session /\ window'[v].screen = window[v].screen
              /\ window'[v].revival = window[v].revival
    PROVE  IInv'
<1>1. /\ call' \in [Windows -> [Slots -> Call]] /\ call'[w] = calls
      /\ \A v \in Windows : v # w => call'[v] = call[v]
  BY Types
<1>2. store' \in Ref
  BY FreeIs, Types
<1>3. TypeOK'
  BY <1>1, <1>2, Types DEF TypeOK
<1>4. SameSecrets(server, server')
  BY DEF SameSecrets
<1> QED
  BY <1>1, <1>3, <1>4, QuietHolds

\* A call is held back, and its window shows the prompt or already did.
LEMMA ChallengeHolds ==
    ASSUME IInv, NEW w \in Windows, NEW c \in Slots, Challenge(w, c)
    PROVE  IInv'
<1>1. PICK held \in Call : /\ held = [Free EXCEPT !.stage = "held"] /\ held.stage = "held"
                           /\ held.ref = NoRef /\ held.given = NoRef
  <2>1. PICK held : held = [Free EXCEPT !.stage = "held"]
    OBVIOUS
  <2>2. /\ held \in Call /\ held.stage = "held" /\ held.ref = NoRef /\ held.given = NoRef
    BY <2>1 DEF Free, Call, NoRef, Ref
  <2> QED
    BY <2>1, <2>2
<1>2. PICK calls \in [Slots -> Call] : calls = [call[w] EXCEPT ![c] = held]
  BY Types
<1>3. call' = [call EXCEPT ![w] = calls] /\ UNCHANGED <<server, store, counts>>
  BY <1>1, <1>2, Types DEF Challenge
<1>4. c \in Data /\ c # "reauth"
  BY SessionWindowsAssumption DEF Challenge
<1>5. \A d \in Slots : Continues(call[w][d], calls[d], d, {store, window[w].session})
  BY <1>1, <1>2, <1>4, Types DEF Continues, CallOK
<1>6. PICK x \in Window :
         /\ x = [window[w] EXCEPT !.screen = "reauthPrompt", !.revival = "prompted"]
         /\ x.session = window[w].session /\ x.screen = "reauthPrompt" /\ x.revival = "prompted"
  <2>1. PICK y \in Window : y = window[w]
    BY Types
  <2>2. PICK x : x = [y EXCEPT !.screen = "reauthPrompt", !.revival = "prompted"]
    OBVIOUS
  <2>3. /\ x \in Window /\ x.session = y.session
        /\ x.screen = "reauthPrompt" /\ x.revival = "prompted"
    BY <2>2 DEF Window
  <2> QED
    BY <2>1, <2>2, <2>3
<1>7. window' = IF window[w].revival # "none" THEN window ELSE [window EXCEPT ![w] = x]
  <2>1. window[w].revival = "none" =>
           window' = [window EXCEPT ![w].screen = "reauthPrompt", ![w].revival = "prompted"]
    BY DEF Challenge
  <2> QED
    BY <1>6, <2>1, Types DEF Challenge
<1>8. /\ window' \in [Windows -> Window] /\ window'[w].session = window[w].session
      /\ \A v \in Windows : v # w => window'[v] = window[v]
  BY <1>6, <1>7, Types
<1>9. abandoned' = 0 => abandoned = 0 /\ PromptOK(window'[w], calls)
  <2> SUFFICES ASSUME abandoned = 0 PROVE PromptOK(window'[w], calls)
    BY <1>3 DEF counts
  <2>1. PromptOK(window[w], call[w])
    BY DEF IInv
  <2>2. calls[c].stage = "held"
    BY <1>1, <1>2, Types
  <2>3. window'[w].screen = "reauthPrompt" /\ window'[w].revival = "prompted"
    BY <1>6, <1>7, <2>1, Types DEF PromptOK, Window
  <2> QED
    BY <2>2, <2>3 DEF PromptOK
<1>10. "reauth" \in Slots /\ calls["reauth"] = call[w]["reauth"]
  BY <1>2, <1>4, Types DEF Slots
<1> QED
  BY <1>3, <1>5, <1>8, <1>9, <1>10, OneWindowHolds, Types DEF counts

\* The surfaces and the prompt are told that the session is over, or that it is
\* back: what was held is settled, and the boundary shows another phase.
LEMMA SettlesHolds ==
    ASSUME IInv, NEW w \in Windows, NEW calls \in [Slots -> Call],
           NEW whose \in {"prompted", "orphan"},
           NEW revived \in BOOLEAN, NEW ref \in {NoRef, store},
           \A c \in Slots : calls[c] \in {settle(w, whose, revived, ref)[c], Free},
           calls["reauth"] = settle(w, whose, revived, ref)["reauth"] \/ call[w]["reauth"].given = NoRef,
           call' = [call EXCEPT ![w] = calls], UNCHANGED <<server, counts>>, store' \in {store, NoRef},
           NEW x \in Window, window' = [window EXCEPT ![w] = x],
           x.session \in {NoRef, store, window[w].session},
           x.screen # "reauthPrompt", x.revival = Settled(w, whose),
           whose = "orphan" => window[w].revival = "orphan"
    PROVE  IInv'
<1>1. /\ window' \in [Windows -> Window] /\ window'[w] = x
      /\ \A v \in Windows : v # w => window'[v] = window[v]
  BY Types
<1>2. ref \in Ref /\ "reauth" \in Slots
  BY FreeIs, Types DEF Slots
<1>3. \A c \in Slots : Continues(call[w][c], calls[c], c, {store, window[w].session})
  BY <1>2, SettleIs, FreeIs DEF Continues
<1>4. call[w]["reauth"].given # NoRef => calls["reauth"].given # NoRef
  <2>1. settle(w, whose, revived, ref)["reauth"].given = call[w]["reauth"].given
    BY <1>2, SettleIs
  <2> QED
    BY <2>1
<1>5. abandoned = 0 => PromptOK(x, calls)
  <2> SUFFICES ASSUME abandoned = 0 PROVE PromptOK(x, calls)
    OBVIOUS
  <2>1. PromptOK(window[w], call[w]) /\ whose = "prompted"
    BY DEF IInv, PromptOK
  <2>2. \A c \in Slots : settle(w, whose, revived, ref)[c].stage # "held"
    BY <1>2, <2>1, SettleIs
  <2>4. \A c \in Slots : calls[c].stage # "held"
    BY <2>2, FreeIs
  <2>3. x.revival = "none"
    BY <2>1, Types DEF PromptOK, Settled, Window
  <2> QED
    BY <2>3, <2>4 DEF PromptOK
<1> QED
  BY <1>1, <1>3, <1>4, <1>5, OneWindowHolds, Types DEF counts

\* The session is over: the held calls are let go as the ended screen comes up.
LEMMA RefuseHolds ==
    ASSUME IInv, NEW w \in Windows, NEW c \in Slots, Refuse(w, c)
    PROVE  IInv'
<1>8. PICK whose \in {"prompted", "orphan"} :
         whose = Whose(w, c) /\ (whose = "orphan" => window[w].revival = "orphan")
  BY DEF Whose
<1>1. PICK kept \in [Slots -> Call] : kept = settle(w, whose, FALSE, NoRef)
  BY SettleIs, FreeIs
<1>2. PICK calls \in [Slots -> Call] : calls = [kept EXCEPT ![c] = Free]
  BY FreeIs
<1>3. call' = [call EXCEPT ![w] = calls] /\ UNCHANGED <<server, store, counts>>
  BY <1>1, <1>2, <1>8 DEF Refuse
<1>4. \A d \in Slots : calls[d] \in {kept[d], Free}
  BY <1>2
<1>5. call[w][c].given = NoRef
  BY Types DEF Refuse, Answered, CallOK
<1>6. calls["reauth"] = kept["reauth"] \/ call[w]["reauth"].given = NoRef
  BY <1>2, <1>5 DEF Slots
<1>7. PICK x \in Window :
         /\ window' = [window EXCEPT ![w] = x] /\ x.session = window[w].session
         /\ x.screen # "reauthPrompt" /\ x.revival = Settled(w, whose)
  <2>1. PICK y \in Window : y = window[w]
    BY Types
  <2>2. Settled(w, whose) \in {"none", "prompted", "orphan"}
    BY <2>1 DEF Settled, Window
  <2>5. PICK screen \in {"signIn", "ended"} : screen = IF Mounted(w) THEN "ended" ELSE y.screen
    BY <2>1 DEF Mounted
  <2>3. PICK x \in Window : /\ x = [y EXCEPT !.screen = screen, !.revival = Settled(w, whose)]
                            /\ x.session = y.session /\ x.screen # "reauthPrompt"
                            /\ x.revival = Settled(w, whose)
    <3>1. PICK x : x = [y EXCEPT !.screen = screen, !.revival = Settled(w, whose)]
      OBVIOUS
    <3>2. /\ x \in Window /\ x.session = y.session
          /\ x.screen = screen /\ x.revival = Settled(w, whose)
      BY <2>2, <2>5, <3>1 DEF Window
    <3> QED
      BY <2>5, <3>1, <3>2
  <2>4. window' = [window EXCEPT ![w] = x]
    BY <1>8, <2>1, <2>3, <2>5, Types DEF Refuse
  <2> QED
    BY <2>1, <2>3, <2>4
<1>9. /\ \A d \in Slots : calls[d] \in {settle(w, whose, FALSE, NoRef)[d], Free}
      /\ \/ calls["reauth"] = settle(w, whose, FALSE, NoRef)["reauth"]
         \/ call[w]["reauth"].given = NoRef
  BY <1>1, <1>4, <1>6
<1>11. x.session \in {NoRef, store, window[w].session} /\ store' \in {store, NoRef}
  BY <1>3, <1>7
<1>12. /\ call' = [call EXCEPT ![w] = calls] /\ UNCHANGED <<server, counts>>
       /\ window' = [window EXCEPT ![w] = x]
       /\ x.screen # "reauthPrompt" /\ x.revival = Settled(w, whose)
  BY <1>3, <1>7
<1>13. CASE whose = "prompted"
  BY <1>9, <1>11, <1>12, <1>13, SettlesHolds
<1>14. CASE whose = "orphan"
  BY <1>8, <1>9, <1>11, <1>12, <1>14, SettlesHolds
<1> QED
  BY <1>13, <1>14

\* A window at its prompt hears that another one has revived the session.
LEMMA DeliverRevivedHolds ==
    ASSUME IInv, NEW w \in Windows, DeliverRevived(w)
    PROVE  IInv'
<1>1. PICK y \in Window : y = window[w] /\ y.inbox # <<>>
  BY Types DEF DeliverRevived
<1>2. PICK rest \in Seq(Messages) : rest = Tail(y.inbox)
  <2>1. y.inbox \in Seq(Messages)
    BY DEF Window, Messages
  <2> QED
    BY <1>1, <2>1, HeadTailProperties
<1>3. CASE y.screen = "reauthPrompt"
  <2>1. Settled(w, "prompted") \in {"none", "prompted", "orphan"}
    BY <1>1 DEF Settled, Window
  <2>2. PICK x \in Window :
           /\ x = [screen |-> "active", revival |-> Settled(w, "prompted"), inbox |-> rest,
                   session |-> IF store = NoRef THEN y.session ELSE store]
           /\ x.session \in {store, y.session} /\ x.screen = "active" /\ x.revival = Settled(w, "prompted")
    <3>1. PICK session \in {store, y.session} : session = IF store = NoRef THEN y.session ELSE store
      OBVIOUS
    <3>2. PICK x : x = [screen |-> "active", revival |-> Settled(w, "prompted"), inbox |-> rest, session |-> session]
      OBVIOUS
    <3>3. session \in Ref
      BY <3>1, Types DEF Window
    <3>4. x \in Window /\ x.session = session /\ x.screen = "active" /\ x.revival = Settled(w, "prompted")
      BY <1>2, <2>1, <3>2, <3>3 DEF Window, Messages
    <3> QED
      BY <3>1, <3>2, <3>4
  <2>3. window' = [window EXCEPT ![w] = x]
    BY <1>1, <1>2, <1>3, <2>2 DEF DeliverRevived
  <2>4. PICK calls \in [Slots -> Call] : calls = settle(w, "prompted", TRUE, store)
    BY SettleIs, Types
  <2>5. call' = [call EXCEPT ![w] = calls] /\ UNCHANGED <<server, store, counts>>
    BY <1>1, <1>3, <2>4 DEF DeliverRevived
  <2> QED
    BY <1>1, <2>2, <2>3, <2>4, <2>5, SettlesHolds
<1>4. CASE y.screen # "reauthPrompt"
  <2>1. PICK x \in Window :
           /\ x = [y EXCEPT !.inbox = rest]
           /\ x.session = y.session /\ x.screen = y.screen /\ x.revival = y.revival
    <3>1. PICK x : x = [y EXCEPT !.inbox = rest]
      OBVIOUS
    <3>2. /\ x \in Window /\ x.session = y.session
          /\ x.screen = y.screen /\ x.revival = y.revival
      BY <1>2, <3>1 DEF Window, Messages
    <3> QED
      BY <3>1, <3>2
  <2>2. window' = [window EXCEPT ![w] = x] /\ UNCHANGED <<call, server, store, counts>>
    BY <1>1, <1>2, <1>4, <2>1, Types DEF DeliverRevived
  <2>3. /\ window' \in [Windows -> Window] /\ window'[w] = x
        /\ \A v \in Windows : v # w => window'[v] = window[v]
    BY <2>2, Types
  <2>4. call' = [call EXCEPT ![w] = call[w]]
    BY <2>2, Types
  <2>5. \A c \in Slots : Continues(call[w][c], call[w][c], c, {store, window[w].session})
    BY Types DEF Continues, CallOK
  <2>6. abandoned = 0 => PromptOK(x, call[w])
    BY <1>1, <2>1 DEF IInv, PromptOK
  <2> QED
    BY <1>1, <2>1, <2>2, <2>3, <2>4, <2>5, <2>6, OneWindowHolds, Types DEF counts
<1> QED
  BY <1>3, <1>4

\* A window hears that another one has logged out.
LEMMA DeliverLoggedOutHolds ==
    ASSUME IInv, NEW w \in Windows, DeliverLoggedOut(w)
    PROVE  IInv'
<1>1. PICK y \in Window : y = window[w] /\ y.inbox # <<>>
  BY Types DEF DeliverLoggedOut
<1>2. PICK rest \in Seq(Messages) : rest = Tail(y.inbox)
  <2>1. y.inbox \in Seq(Messages)
    BY DEF Window, Messages
  <2> QED
    BY <1>1, <2>1, HeadTailProperties
<1>3. Settled(w, "prompted") \in {"none", "prompted", "orphan"}
  BY <1>1 DEF Settled, Window
<1>4. PICK x \in Window :
         /\ x = [y EXCEPT !.screen = "ended", !.revival = Settled(w, "prompted"), !.inbox = rest]
         /\ x.session = y.session /\ x.screen = "ended" /\ x.revival = Settled(w, "prompted")
  <2>1. PICK x : x = [y EXCEPT !.screen = "ended", !.revival = Settled(w, "prompted"), !.inbox = rest]
    OBVIOUS
  <2>2. /\ x \in Window /\ x.session = y.session
        /\ x.screen = "ended" /\ x.revival = Settled(w, "prompted")
    BY <1>2, <1>3, <2>1 DEF Window, Messages
  <2> QED
    BY <2>1, <2>2
<1>5. window' = [window EXCEPT ![w] = x]
  BY <1>1, <1>2, <1>4, Types DEF DeliverLoggedOut
<1>6. PICK calls \in [Slots -> Call] : calls = settle(w, "prompted", FALSE, NoRef)
  BY SettleIs, FreeIs
<1>7. call' = [call EXCEPT ![w] = calls] /\ UNCHANGED <<server, store, counts>>
  BY <1>6 DEF DeliverLoggedOut
<1> QED
  BY <1>1, <1>4, <1>5, <1>6, <1>7, SettlesHolds

\* Leaving the ended screen.
LEMMA LeaveHolds ==
    ASSUME IInv, NEW w \in Windows, Leave(w)
    PROVE  IInv'
<1>1. PICK y \in Window : y = window[w] /\ y.screen = "ended"
  BY Types DEF Leave
<1>2. PICK x \in Window : /\ x = [Opened(NoRef) EXCEPT !.revival = y.revival]
                          /\ x.session = NoRef /\ x.screen # "reauthPrompt" /\ x.revival = y.revival
  <2>1. PICK o \in Window : /\ o = Opened(NoRef) /\ o.session = NoRef
                            /\ o.screen \in {"signIn", "active"}
    BY OpenedIs, FreeIs
  <2>2. PICK x : x = [o EXCEPT !.revival = y.revival]
    OBVIOUS
  <2>3. /\ x \in Window /\ x.session = NoRef /\ x.screen # "reauthPrompt"
        /\ x.revival = y.revival
    BY <2>1, <2>2 DEF Window
  <2> QED
    BY <2>1, <2>2, <2>3
<1>3. window' = [window EXCEPT ![w] = x] /\ store' = NoRef /\ UNCHANGED <<server, counts>>
  BY <1>1, <1>2 DEF Leave, clearSession
<1>4. PICK calls \in [Slots -> Call] : calls = Unmounted(call[w], "left")
  BY UnmountedIs, Types
<1>5. call' = [call EXCEPT ![w] = calls]
  BY <1>4 DEF Leave
<1>6. \A c \in Slots : /\ calls[c].stage = call[w][c].stage /\ calls[c].answer = call[w][c].answer
                       /\ calls[c].ref = call[w][c].ref /\ calls[c].given = call[w][c].given
  BY <1>4, UnmountedIs, Types
<1>7. \A c \in Slots : Continues(call[w][c], calls[c], c, {store, window[w].session})
  BY <1>6, Types DEF Continues, CallOK
<1>8. /\ window' \in [Windows -> Window] /\ window'[w] = x
      /\ \A v \in Windows : v # w => window'[v] = window[v]
  BY <1>3, Types
<1>9. abandoned = 0 => PromptOK(x, calls)
  BY <1>1, <1>2, <1>6 DEF IInv, PromptOK
<1>10. call[w]["reauth"].given # NoRef => calls["reauth"].given # NoRef
  BY <1>6 DEF Slots
<1> QED
  BY <1>2, <1>3, <1>5, <1>7, <1>8, <1>9, <1>10, OneWindowHolds, Types DEF counts

\* Loading the page anew.
LEMMA ReloadHolds ==
    ASSUME IInv, NEW w \in Windows, Reload(w)
    PROVE  IInv'
<1>1. PICK x \in Window : /\ x = Opened(store) /\ x.session = store /\ x.revival = "none"
                          /\ x.screen \in {"signIn", "active"}
  BY OpenedIs, Types
<1>2. /\ window' = [window EXCEPT ![w] = x] /\ faults' = faults + 1
      /\ lost' = (lost \/ call[w]["reauth"].given # NoRef)
      /\ UNCHANGED <<server, store, expiries, abandoned>>
  BY <1>1 DEF Reload
<1>3. PICK calls : calls = [c \in Slots |-> IF call[w][c].stage = "sent"
                                           THEN [call[w][c] EXCEPT !.from = "gone"] ELSE Free]
  OBVIOUS
<1>4. call' = [call EXCEPT ![w] = calls]
  BY <1>3 DEF Reload
<1>5. ASSUME NEW c \in Slots
      PROVE  /\ calls[c] \in Call /\ calls[c].stage # "held"
             /\ Continues(call[w][c], calls[c], c, {store, window[w].session})
  <2>1. PICK k \in Call : k = call[w][c] /\ CallOK(k, c, server)
    BY Types
  <2>2. CASE k.stage = "sent"
    <3>1. PICK k2 : k2 = [k EXCEPT !.from = "gone"]
      OBVIOUS
    <3>2. /\ k2 \in Call /\ k2.stage = "sent" /\ k2.ref = k.ref
          /\ k2.given = k.given /\ k2.answer = k.answer
      BY <2>2, <3>1 DEF Call
    <3>3. calls[c] = k2
      BY <1>3, <2>1, <2>2, <3>1
    <3> QED
      BY <2>1, <2>2, <3>2, <3>3 DEF Continues
  <2>3. CASE k.stage # "sent"
    <3>1. calls[c] = Free
      BY <1>3, <2>1, <2>3
    <3> QED
      BY <3>1, FreeIs DEF Continues
  <2> QED
    BY <2>2, <2>3
<1>6. calls \in [Slots -> Call]
  <2>1. calls = [c \in Slots |-> calls[c]]
    BY <1>3
  <2> QED
    BY <1>5, <2>1
<1>7. /\ window' \in [Windows -> Window] /\ window'[w] = x
      /\ \A v \in Windows : v # w => window'[v] = window[v]
  BY <1>2, Types
<1>8. PromptOK(x, calls)
  BY <1>1, <1>5 DEF PromptOK
<1>9. lost' \in BOOLEAN /\ (lost => lost') /\ (call[w]["reauth"].given # NoRef => lost')
  BY <1>2, Types
<1>10. faults' \in Nat /\ abandoned' \in Nat /\ abandoned' = abandoned
  BY <1>2, Types
<1> QED
  BY <1>1, <1>2, <1>4, <1>5, <1>6, <1>7, <1>8, <1>9, <1>10, OneWindowHolds

\* A log out is over: what it settles it settles, and a prompt it leaves behind
\* is counted.
LEMMA LoggedOutHolds ==
    ASSUME IInv, NEW w \in Windows, LoggedOut(w)
    PROVE  IInv'
<1>1. PICK settles \in BOOLEAN :
         /\ abandoned' = abandoned + IF settles THEN 0 ELSE 1
         /\ window' = [Broadcast(window, "SessionLoggedOut") EXCEPT
                ![w] = [Opened(NoRef) EXCEPT !.revival = IF settles THEN Settled(w, "prompted") ELSE "orphan"]]
         /\ call' = [call EXCEPT ![w] =
                Unmounted([(IF settles THEN settle(w, "prompted", FALSE, NoRef) ELSE @)
                           EXCEPT !["logout"] = Free], IF settles THEN "left" ELSE "orphan")]
  BY DEF LoggedOut
<1>2. store' = NoRef /\ UNCHANGED <<server, expiries, faults, lost>>
  BY DEF LoggedOut, clearSession
<1>3. abandoned' \in Nat /\ (abandoned' = 0 => abandoned = 0 /\ settles)
  BY <1>1, Types
<1>4. PICK kept \in [Slots -> Call] :
         /\ kept = (IF settles THEN settle(w, "prompted", FALSE, NoRef) ELSE call[w])
         /\ \A c \in Slots : /\ Continues(call[w][c], kept[c], c, {NoRef})
                             /\ kept[c].given = call[w][c].given
                             /\ settles /\ PromptOK(window[w], call[w]) => kept[c].stage # "held"
  <2>1. PICK s \in [Slots -> Call] :
           /\ s = settle(w, "prompted", FALSE, NoRef)
           /\ \A c \in Slots : /\ Continues(call[w][c], s[c], c, {NoRef})
                               /\ s[c].given = call[w][c].given
                               /\ PromptOK(window[w], call[w]) => s[c].stage # "held"
    BY SettleIs, FreeIs
  <2>2. \A c \in Slots : Continues(call[w][c], call[w][c], c, {NoRef})
    BY Types DEF Continues, CallOK
  <2>3. CASE settles
    BY <2>1, <2>3
  <2>4. CASE ~settles
    BY <2>2, <2>4, Types
  <2> QED
    BY <2>3, <2>4
<1>5. PICK left \in [Slots -> Call] : left = [kept EXCEPT !["logout"] = Free]
  BY FreeIs
<1>20. PICK from \in {"left", "orphan"} : from = IF settles THEN "left" ELSE "orphan"
  OBVIOUS
<1>6. PICK calls \in [Slots -> Call] :
         /\ calls = Unmounted(left, from)
         /\ \A c \in Slots : /\ calls[c].stage = left[c].stage /\ calls[c].answer = left[c].answer
                             /\ calls[c].ref = left[c].ref /\ calls[c].given = left[c].given
  BY UnmountedIs
<1>7. call' = [call EXCEPT ![w] = calls]
  BY <1>1, <1>4, <1>5, <1>6, <1>20
<1>8. \A c \in Slots : left[c] = kept[c] \/ left[c] = Free
  BY <1>5
<1>9. \A c \in Slots : Continues(call[w][c], calls[c], c, {store, window[w].session})
  <2> TAKE c \in Slots
  <2>1. /\ calls[c].stage = left[c].stage /\ calls[c].answer = left[c].answer
        /\ calls[c].ref = left[c].ref /\ calls[c].given = left[c].given
    BY <1>6
  <2>2. CASE left[c] = Free
    BY <2>1, <2>2, FreeIs DEF Continues
  <2>3. CASE left[c] = kept[c]
    <3>1. Continues(call[w][c], kept[c], c, {NoRef})
      BY <1>4
    <3> QED
      BY <2>1, <2>3, <3>1 DEF Continues
  <2> QED
    BY <1>8, <2>2, <2>3
<1>10. PICK windows \in [Windows -> Window] :
          /\ windows = Broadcast(window, "SessionLoggedOut")
          /\ \A v \in Windows : /\ windows[v].session = window[v].session
                                /\ windows[v].screen = window[v].screen
                                /\ windows[v].revival = window[v].revival
  BY BroadcastIs, Types DEF Messages
<1>11. PICK revival \in {"none", "prompted", "orphan"} :
          /\ revival = IF settles THEN Settled(w, "prompted") ELSE "orphan"
          /\ settles /\ PromptOK(window[w], call[w]) => revival = "none"
  <2>1. PICK y \in Window : y = window[w]
    BY Types
  <2>2. Settled(w, "prompted") \in {"none", "prompted", "orphan"}
    BY <2>1 DEF Settled, Window
  <2>3. PromptOK(y, call[w]) => Settled(w, "prompted") = "none"
    BY <2>1 DEF Settled, Window, PromptOK
  <2> QED
    BY <2>1, <2>2, <2>3
<1>12. PICK x \in Window : /\ x = [Opened(NoRef) EXCEPT !.revival = revival]
                           /\ x.session = NoRef /\ x.screen # "reauthPrompt" /\ x.revival = revival
  <2>1. PICK o \in Window : /\ o = Opened(NoRef) /\ o.session = NoRef
                            /\ o.screen \in {"signIn", "active"}
    BY OpenedIs, FreeIs
  <2>2. PICK x : x = [o EXCEPT !.revival = revival]
    OBVIOUS
  <2>3. /\ x \in Window /\ x.session = NoRef /\ x.screen # "reauthPrompt"
        /\ x.revival = revival
    BY <2>1, <2>2 DEF Window
  <2> QED
    BY <2>1, <2>2, <2>3
<1>13. window' = [windows EXCEPT ![w] = x]
  BY <1>1, <1>10, <1>11, <1>12
<1>14. /\ window' \in [Windows -> Window] /\ window'[w] = x
       /\ \A v \in Windows : v # w => window'[v] = windows[v]
  BY <1>13
<1>15. abandoned' = 0 => PromptOK(x, calls)
  <2> SUFFICES ASSUME abandoned' = 0 PROVE PromptOK(x, calls)
    OBVIOUS
  <2>1. settles /\ PromptOK(window[w], call[w])
    BY <1>3 DEF IInv
  <2>2. \A c \in Slots : calls[c].stage # "held"
    BY <1>4, <1>6, <1>8, <2>1, FreeIs
  <2> QED
    BY <1>11, <1>12, <2>1, <2>2 DEF PromptOK
<1>16. call[w]["reauth"].given # NoRef => calls["reauth"].given # NoRef
  <2>1. "reauth" \in Slots /\ left["reauth"] = kept["reauth"]
    BY <1>5 DEF Slots
  <2> QED
    BY <1>4, <1>6, <2>1
<1>17. \A v \in Windows : v # w => /\ window'[v].session = window[v].session
                                  /\ window'[v].screen = window[v].screen
                                  /\ window'[v].revival = window[v].revival
  BY <1>10, <1>14
<1>18. faults' \in Nat /\ lost' \in BOOLEAN /\ (lost => lost') /\ window'[w].session = NoRef
  BY <1>2, <1>12, <1>14, Types
<1>19. abandoned' = 0 => abandoned = 0 /\ PromptOK(window'[w], calls)
  BY <1>3, <1>14, <1>15

<1> QED
  BY <1>2, <1>3, <1>7, <1>9, <1>14, <1>16, <1>17, <1>18, <1>19, OneWindowHolds

-----------------------------------------------------------------------------
(* The server alone: a session expires or lapses, and no secret is given out. *)

\* Windows and calls stay as they are.
LEMMA ServerAloneHolds ==
    ASSUME IInv, TypeOK', SameSecrets(server, server'), UNCHANGED <<store, window, call, abandoned, lost>>
    PROVE  IInv'
<1>1. RefsOK'
  <2>1. \A s \in SessionIDs : server'[s].state = "absent" => server'[s].secret = 1
    BY DEF IInv, RefsOK, SameSecrets
  <2>2. RefOK(store', server') /\ \A v \in Windows : RefOK(window'[v].session, server')
    BY RefStays DEF IInv, RefsOK
  <2>3. ASSUME NEW v \in Windows, NEW c \in Slots PROVE CallOK(call'[v][c], c, server')
    <3>1. Continues(call[v][c], call'[v][c], c, {})
      BY Types DEF Continues, CallOK
    <3> QED
      BY <3>1, CallStays
  <2> QED
    BY <2>1, <2>2, <2>3 DEF RefsOK
<1>2. StoreIsCurrent'
  <2> SUFFICES ASSUME store' # NoRef, ~lost' PROVE Current(store', server', call')
    BY DEF StoreIsCurrent, Current, Answered
  <2>1. Current(store, server, call)
    BY StoreIs DEF IInv
  <2>2. server'[store.session].secret = server[store.session].secret
    BY DEF IInv, RefsOK, RefOK, SameSecrets
  <2> QED
    BY <2>1, <2>2 DEF Current
<1> QED
  BY <1>1, <1>2 DEF IInv, Fresh, Unused

\* A session expires, or its grace period is over.
LEMMA ExpireHolds ==
    ASSUME IInv, NEW s \in SessionIDs, Expire(s) \/ Lapse(s)
    PROVE  IInv'
<1>1. PICK state \in {"reauthPending", "ended"} :
         server' = [server EXCEPT ![s].state = state] /\ server[s].state # "absent"
  BY DEF Expire, Lapse
<1>2. /\ server' \in [SessionIDs -> [state : {"absent", "active", "reauthPending", "ended"},
                                     secret : Nat]]
      /\ SameSecrets(server, server')
  BY <1>1, Types DEF SameSecrets
<1>3. UNCHANGED <<store, window, call, faults, abandoned, lost>> /\ expiries' \in {expiries, expiries + 1}
  BY DEF Expire, Lapse, counts
<1>4. TypeOK'
  BY <1>2, <1>3, Types DEF TypeOK
<1> QED
  BY <1>2, <1>3, <1>4, ServerAloneHolds

-----------------------------------------------------------------------------
(* The server gives out a secret. *)

\* The session s gets the newest reference, and the answer takes it along; no
\* other answer that is on its way is one of s.
Gives(w, c, s, given, row, k2) ==
    /\ call[w][c].stage = "sent" /\ call' = [call EXCEPT ![w][c] = k2]
    /\ k2 = Free \/ /\ k2.stage = "answered" /\ k2.answer = "ok"
                    /\ k2.given = given /\ k2.ref = NoRef
    /\ given.session = s /\ ~RefOK(given, server)
    /\ \A v \in Windows, d \in Slots :
          call[v][d].given # NoRef => call[v][d].given.session # s
    /\ row.state # "absent" /\ row.secret = given.secret
    /\ row.secret >= 1 /\ row.secret >= server[s].secret
    /\ server' = [server EXCEPT ![s] = row]
    /\ store # NoRef /\ store.session = s /\ ~lost' => c = "reauth" /\ k2.given = given
    /\ lost' \in BOOLEAN /\ (lost => lost') /\ UNCHANGED <<store, window, expiries, faults, abandoned>>

\* That step keeps the invariant.
LEMMA GivenHolds ==
    ASSUME IInv, NEW w \in Windows, NEW c \in {"login", "reauth"},
           NEW s \in SessionIDs, NEW given \in Ref,
           NEW row \in [state : {"absent", "active", "reauthPending", "ended"}, secret : Nat],
           NEW k2 \in Call, Gives(w, c, s, given, row, k2)
    PROVE  IInv'
<1> USE DEF Gives
<1>1. "login" \in Slots /\ "reauth" \in Slots /\ c \in Slots /\ c \notin Data
  BY SessionWindowsAssumption DEF Slots
<1>2. /\ call' \in [Windows -> [Slots -> Call]] /\ call'[w][c] = k2
      /\ \A d \in Slots : d # c => call'[w][d] = call[w][d]
      /\ \A v \in Windows : v # w => call'[v] = call[v]
  BY <1>1, CallSet
<1>3. /\ server' \in [SessionIDs -> [state : {"absent", "active", "reauthPending", "ended"},
                                     secret : Nat]]
      /\ server'[s] = row /\ \A t \in SessionIDs : t # s => server'[t] = server[t]
  BY Types
<1>4. TypeOK'
  BY <1>2, <1>3, Types DEF TypeOK
<1>5. ASSUME NEW ref \in Ref, RefOK(ref, server)
      PROVE  RefOK(ref, server') /\ ref # given
  <2>1. ref # given
    BY <1>5
  <2>2. CASE ref = NoRef
    BY <2>1, <2>2 DEF RefOK
  <2>3. CASE ref # NoRef /\ ref.session = s
    <3>1. ref.secret \in Nat /\ server[s].secret \in Nat /\ row.secret \in Nat
      BY Types DEF Ref
    <3>2. ref.secret \in 1 .. server[s].secret
      BY <1>5, <2>3 DEF RefOK
    <3>3. ref.secret \in 1 .. row.secret
      BY <3>1, <3>2
    <3> QED
      BY <1>3, <2>1, <2>3, <3>3 DEF RefOK
  <2>4. CASE ref # NoRef /\ ref.session # s
    <3>1. server'[ref.session] = server[ref.session]
      BY <1>3, <1>5, <2>4 DEF RefOK
    <3> QED
      BY <1>5, <2>1, <2>4, <3>1 DEF RefOK
  <2> QED
    BY <2>2, <2>3, <2>4
<1>6. RefOK(given, server')
  <2>1. given.secret \in 1 .. row.secret
    BY DEF Ref
  <2> QED
    BY <1>3, <2>1 DEF RefOK
<1>7. ASSUME NEW v \in Windows, NEW d \in Slots, call'[v][d] = call[v][d]
      PROVE  CallOK(call'[v][d], d, server')
  <2>1. PICK k \in Call : /\ k = call[v][d] /\ CallOK(k, d, server)
                          /\ k.ref \in Ref /\ k.given \in Ref
                          /\ k.given # NoRef => k.given.session # s
    BY Types
  <2>2. RefOK(k.ref, server') /\ RefOK(k.given, server')
    BY <1>5, <2>1 DEF CallOK
  <2>3. k.given # NoRef => server'[k.given.session] = server[k.given.session]
    BY <1>3, <2>1 DEF CallOK, RefOK
  <2> QED
    BY <1>7, <2>1, <2>2, <2>3 DEF CallOK
<1>8. CallOK(k2, c, server')
  <2>1. RefOK(NoRef, server')
    BY DEF RefOK
  <2>2. CASE k2 = Free
    BY <2>1, <2>2, FreeIs DEF CallOK
  <2>3. CASE /\ k2.stage = "answered" /\ k2.answer = "ok"
             /\ k2.given = given /\ k2.ref = NoRef
    BY <1>3, <1>6, <2>1, <2>3 DEF CallOK
  <2> QED
    BY <2>2, <2>3
<1>9. \A v \in Windows, d \in Slots : CallOK(call'[v][d], d, server')
  BY <1>2, <1>7, <1>8
<1>10. RefsOK'
  <2>1. RefOK(store', server') /\ \A v \in Windows : RefOK(window'[v].session, server')
    BY <1>5, Types DEF IInv, RefsOK
  <2>2. \A t \in SessionIDs : server'[t].state = "absent" => server'[t].secret = 1
    BY <1>3 DEF IInv, RefsOK
  <2> QED
    BY <1>9, <2>1, <2>2 DEF RefsOK
<1>11. k2.ref = NoRef /\ k2.given \in {NoRef, given} /\ k2.stage # "held" /\ given # NoRef
  BY FreeIs DEF RefOK
<1>12. ASSUME NEW v \in Windows, NEW d \in Slots
       PROVE  /\ call'[v][d].ref \in {NoRef, call[v][d].ref}
              /\ call'[v][d].given = call[v][d].given \/ (v = w /\ d = c)
  BY <1>2, <1>11
<1>13. \A ref \in Ref : RefOK(ref, server) => ref # given
  BY <1>5
<1>14. Unused(given, store', window', call')
  <2>1. store # given /\ \A v \in Windows : window[v].session # given
    BY <1>13, Types DEF IInv, RefsOK
  <2>2. \A v \in Windows, d \in Slots : call[v][d].ref # given
    BY <1>13, Types DEF CallOK
  <2> QED
    BY <1>11, <1>12, <2>1, <2>2 DEF Unused
<1>15. Fresh(store', window', call')
  <2> SUFFICES ASSUME NEW u \in Windows, NEW e \in Slots, call'[u][e].given # NoRef
               PROVE  /\ Unused(call'[u][e].given, store', window', call')
                      /\ \A v \in Windows, d \in Slots :
                            call'[v][d].given = call'[u][e].given => v = u /\ d = e
    BY DEF Fresh
  <2>1. CASE u = w /\ e = c
    <3>1. call'[u][e].given = given
      BY <1>2, <1>11, <2>1
    <3>2. \A v \in Windows, d \in Slots : call'[v][d].given = given => v = w /\ d = c
      BY <1>11, <1>12
    <3> QED
      BY <1>14, <2>1, <3>1, <3>2
  <2>2. CASE ~(u = w /\ e = c)
    <3>1. PICK g : g = call'[u][e].given /\ g = call[u][e].given /\ g # NoRef
      BY <1>12, <2>2
    <3>2. g.session # s /\ g # given
      BY <3>1
    <3>3. Unused(g, store, window, call) /\ \A v \in Windows, d \in Slots :
                                               call[v][d].given = g => v = u /\ d = e
      BY <3>1 DEF IInv, Fresh
    <3>4. Unused(g, store', window', call')
      BY <1>12, <3>1, <3>3 DEF Unused
    <3>5. \A v \in Windows, d \in Slots : call'[v][d].given = g => v = u /\ d = e
      BY <1>2, <1>11, <1>12, <3>1, <3>2, <3>3
    <3> QED
      BY <3>1, <3>4, <3>5
  <2> QED
    BY <2>1, <2>2
<1>16. StoreIsCurrent'
  <2> SUFFICES ASSUME store' # NoRef, ~lost' PROVE Current(store', server', call')
    BY DEF StoreIsCurrent, Current, Answered
  <2>1. store' = store /\ store # NoRef /\ store.session \in SessionIDs /\ store \in Ref
    BY Types DEF IInv, RefsOK, RefOK
  <2>2. CASE store.session = s
    <3>1. c = "reauth" /\ k2.given = given
      BY <2>1, <2>2
    <3>2. k2.stage = "answered" /\ k2.answer = "ok"
      BY <1>11, <3>1, FreeIs
    <3>3. given = [store EXCEPT !.secret = server'[store.session].secret]
      BY <1>3, <2>1, <2>2 DEF Ref
    <3> QED
      BY <1>2, <2>1, <3>1, <3>2, <3>3 DEF Current
  <2>3. CASE store.session # s
    <3>1. server'[store.session] = server[store.session]
      BY <1>3, <2>1, <2>3
    <3>2. Current(store, server, call)
      BY <2>1, StoreIs DEF IInv
    <3>3. CASE server[store.session].secret = store.secret
      BY <2>1, <3>1, <3>3 DEF Current
    <3>4. ASSUME NEW v \in Windows,
                 call[v]["reauth"].stage = "answered", call[v]["reauth"].answer = "ok",
                 call[v]["reauth"].given = [store EXCEPT !.secret = server[store.session].secret]
          PROVE  Current(store', server', call')
      <4>1. call'[v]["reauth"] = call[v]["reauth"]
        BY <1>1, <1>2, <3>4
      <4> QED
        BY <2>1, <3>1, <3>4, <4>1 DEF Current
    <3> QED
      BY <3>2, <3>3, <3>4 DEF Current
  <2> QED
    BY <2>2, <2>3
<1>17. abandoned' = 0 => \A v \in Windows : PromptOK(window'[v], call'[v])
  <2> SUFFICES ASSUME abandoned' = 0, NEW v \in Windows PROVE PromptOK(window'[v], call'[v])
    OBVIOUS
  <2>1. PromptOK(window[v], call[v])
    BY DEF IInv
  <2>2. \A d \in Slots : call'[v][d].stage = "held" <=> call[v][d].stage = "held"
    BY <1>2, <1>11
  <2> QED
    BY <2>1, <2>2 DEF PromptOK
<1> QED
  BY <1>4, <1>10, <1>15, <1>16, <1>17 DEF IInv

\* A login gives out the first reference of a session that nobody knew.
LEMMA ServeLoginHolds ==
    ASSUME IInv, NEW w \in Windows, ServeLogin(w)
    PROVE  IInv'
<1>1. PICK s \in SessionIDs :
         /\ server[s].state = "absent" /\ server' = [server EXCEPT ![s].state = "active"]
         /\ Answer(w, "login", "ok", [session |-> s, secret |-> 1])
  BY DEF ServeLogin
<1>2. call[w]["login"].stage = "sent" /\ UNCHANGED <<store, window, counts>> /\ "login" \in Slots
  BY DEF ServeLogin, Slots
<1>3. PICK given \in Ref : /\ given = [session |-> s, secret |-> 1]
                           /\ given.session = s /\ given.secret = 1
  <2>1. s \in Nat
    BY SessionWindowsAssumption DEF SessionIDs
  <2>2. PICK given : given = [session |-> s, secret |-> 1]
    OBVIOUS
  <2>3. given \in Ref /\ given.session = s /\ given.secret = 1
    BY <2>1, <2>2 DEF Ref
  <2> QED
    BY <2>2, <2>3
<1>4. PICK row : row = [server[s] EXCEPT !.state = "active"]
  OBVIOUS
<1>5. server[s].secret = 1
  BY <1>1 DEF IInv, RefsOK
<1>6. /\ row \in [state : {"absent", "active", "reauthPending", "ended"}, secret : Nat]
      /\ row.state = "active" /\ row.secret = 1
  BY <1>4, <1>5, Types
<1>7. server' = [server EXCEPT ![s] = row]
  BY <1>1, <1>4
<1>8. Answer(w, "login", "ok", given)
  BY <1>1, <1>3
<1>9. PICK k2 \in Call :
         /\ call' = [call EXCEPT ![w]["login"] = k2]
         /\ k2 = Free \/ /\ k2.stage = "answered" /\ k2.answer = "ok"
                         /\ k2.given = given /\ k2.ref = NoRef
  <2>1. PICK k2 \in Call :
           /\ call' = [call EXCEPT ![w]["login"] = k2]
           /\ IF call[w]["login"].from = "gone" THEN k2 = Free
              ELSE k2.stage = "answered" /\ k2.answer = "ok" /\ k2.given = given /\ k2.ref = NoRef
    BY <1>2, <1>8, AnswerIs
  <2> QED
    BY <2>1
<1>10. \A ref \in Ref : RefOK(ref, server) => ref = NoRef \/ ref.session # s
  BY <1>1 DEF RefOK
<1>11. given # NoRef /\ ~RefOK(given, server)
  BY <1>3, <1>10 DEF NoRef
<1>12. \A v \in Windows, d \in Slots : call[v][d].given # NoRef => call[v][d].given.session # s
  BY <1>10, Types DEF CallOK
<1>13. store # NoRef => store.session # s
  BY <1>10, Types DEF IInv, RefsOK
<1>14. /\ lost' \in BOOLEAN /\ (lost => lost')
       /\ UNCHANGED <<store, window, expiries, faults, abandoned>>
  BY <1>2, Types DEF counts
<1>15. row.state # "absent" /\ row.secret = given.secret /\ row.secret >= server[s].secret
       /\ row.secret >= 1
  BY <1>3, <1>5, <1>6
<1>16. PICK c \in {"login", "reauth"} : c = "login"
  OBVIOUS
<1>17. Gives(w, c, s, given, row, k2)
  BY <1>2, <1>3, <1>7, <1>9, <1>11, <1>12, <1>13, <1>14, <1>15, <1>16 DEF Gives
<1> QED
  BY <1>6, <1>17, GivenHolds

\* A re-login gives out the next reference of its session: the one it came with
\* is in use, so no answer that is on its way brings it.
LEMMA ServeReauthHolds ==
    ASSUME IInv, NEW w \in Windows, ServeReauth(w)
    PROVE  IInv'
<1>1. PICK ref \in Ref : ref = call[w]["reauth"].ref
  BY Types DEF Slots
<1>2. PICK new : new = [ref EXCEPT !.secret = @ + 1]
  OBVIOUS
<1>3. new \in Ref /\ new.session = ref.session /\ new.secret = ref.secret + 1
  BY <1>2 DEF Ref
<1>4. /\ call[w]["reauth"].stage = "sent" /\ UNCHANGED <<store, window, expiries, faults, abandoned>>
      /\ "reauth" \in Slots
  BY DEF ServeReauth, Slots
<1>5. CASE ~Alive(ref)
  <2>1. Answer(w, "reauth", "unauthenticated", NoRef) /\ UNCHANGED <<server, lost>>
    BY <1>1, <1>5 DEF ServeReauth
  <2>2. call[w]["reauth"].given = NoRef
    BY <1>4, Types DEF CallOK
  <2>3. SameSecrets(server, server')
    BY <2>1 DEF SameSecrets
  <2> QED
    BY <1>4, <2>1, <2>2, <2>3, PlainAnswerHolds, Types
<1>6. CASE Alive(ref)
  <2>1. PICK s \in SessionIDs : /\ s = ref.session /\ ref # NoRef
                                /\ server[s].secret = ref.secret /\ ref.secret \in Nat \ {0}
    <3>1. CallOK(call[w]["reauth"], "reauth", server)
      BY <1>4, Types
    <3>2. RefOK(ref, server)
      BY <1>1, <3>1 DEF CallOK
    <3>3. ref # NoRef /\ server[ref.session].secret = ref.secret
      BY <1>6 DEF Alive
    <3>4. ref.session \in SessionIDs /\ ref.secret \in 1 .. server[ref.session].secret
      BY <3>2, <3>3 DEF RefOK
    <3>5. ref.secret \in Nat
      BY DEF Ref
    <3>6. ref.secret # 0
      BY <3>3, <3>4, <3>5
    <3> QED
      BY <3>3, <3>4, <3>5, <3>6
  <2>2. PICK row : row = [state |-> "active", secret |-> new.secret]
    OBVIOUS
  <2>3. /\ row \in [state : {"absent", "active", "reauthPending", "ended"}, secret : Nat]
        /\ row.state # "absent" /\ row.secret = new.secret
        /\ row.secret >= server[s].secret /\ row.secret >= 1
    BY <1>3, <2>1, <2>2 DEF Ref
  <2>4. server' = [server EXCEPT ![s] = row]
    BY <1>1, <1>2, <1>6, <2>1, <2>2 DEF ServeReauth
  <2>5. Answer(w, "reauth", "ok", new) /\ lost' = (lost \/ call[w]["reauth"].from = "gone")
    BY <1>1, <1>2, <1>6 DEF ServeReauth
  <2>6. PICK k2 \in Call :
           /\ call' = [call EXCEPT ![w]["reauth"] = k2]
           /\ IF call[w]["reauth"].from = "gone" THEN k2 = Free
              ELSE k2.stage = "answered" /\ k2.answer = "ok" /\ k2.given = new /\ k2.ref = NoRef
    BY <1>3, <1>4, <2>5, AnswerIs
  <2>7. k2 = Free \/ (k2.stage = "answered" /\ k2.answer = "ok" /\ k2.given = new /\ k2.ref = NoRef)
    BY <2>6
  <2>8. ~lost' => k2.given = new
    BY <2>5, <2>6
  <2>9. lost' \in BOOLEAN /\ (lost => lost')
    BY <2>5, Types
  <2>10. ~RefOK(new, server)
    <3>1. new # NoRef /\ new.secret > server[s].secret /\ server[s].secret \in Nat
      BY <1>3, <2>1 DEF NoRef
    <3> QED
      BY <1>3, <2>1, <3>1 DEF RefOK
  <2>11. \A v \in Windows, d \in Slots : call[v][d].given # NoRef => call[v][d].given.session # s
    <3> SUFFICES ASSUME NEW v \in Windows, NEW d \in Slots,
                        call[v][d].given # NoRef, call[v][d].given.session = s
                 PROVE  FALSE
      OBVIOUS
    <3>1. PICK g \in Ref : g = call[v][d].given
      BY Types
    <3>2. g.secret = server[s].secret
      BY <3>1, Types DEF CallOK
    <3>3. g = ref
      BY <2>1, <3>1, <3>2 DEF Ref
    <3>4. Unused(g, store, window, call)
      BY <3>1 DEF IInv, Fresh
    <3> QED
      BY <1>1, <1>4, <3>3, <3>4 DEF Unused
  <2>12. PICK c \in {"login", "reauth"} : c = "reauth"
    OBVIOUS
  <2>13. Gives(w, c, s, new, row, k2)
    BY <1>3, <1>4, <2>1, <2>3, <2>4, <2>6, <2>7, <2>8, <2>9, <2>10, <2>11, <2>12 DEF Gives
  <2> QED
    BY <1>3, <2>3, <2>13, GivenHolds
<1> QED
  BY <1>5, <1>6

-----------------------------------------------------------------------------
(* A window adopts what an answer brought. *)

\* The window w stores the reference that its call c was given, and goes on
\* with it.
LEMMA AdoptHolds ==
    ASSUME IInv, NEW w \in Windows, NEW c \in Slots, NEW given \in Ref, given = call[w][c].given,
           NEW calls \in [Slots -> Call], call' = [call EXCEPT ![w] = calls],
           calls[c].given = NoRef, \A d \in Slots : Continues(call[w][d], calls[d], d, {given}),
           store' = given, UNCHANGED <<server, counts>>,
           window' \in [Windows -> Window], window'[w].session = given,
           abandoned = 0 => PromptOK(window'[w], calls),
           \A v \in Windows : v # w =>
              /\ window'[v].session = window[v].session /\ window'[v].screen = window[v].screen
              /\ window'[v].revival = window[v].revival
    PROVE  IInv'
<1>1. /\ call' \in [Windows -> [Slots -> Call]] /\ call'[w] = calls
      /\ \A v \in Windows : v # w => call'[v] = call[v]
  BY Types
<1>2. TypeOK'
  BY <1>1, Types DEF TypeOK, counts
<1>3. CallOK(call[w][c], c, server) /\ RefOK(given, server)
  BY Types DEF CallOK
<1>4. SameSecrets(server, server')
  BY DEF SameSecrets
<1>5. \A v \in Windows, d \in Slots : Continues(call[v][d], call'[v][d], d, {given})
  <2> SUFFICES ASSUME NEW v \in Windows, NEW d \in Slots, v # w
               PROVE  Continues(call[v][d], call'[v][d], d, {given})
    BY <1>1
  <2>1. call'[v][d] = call[v][d] /\ CallOK(call[v][d], d, server)
    BY <1>1, Types
  <2> QED
    BY <2>1 DEF Continues, CallOK
<1>6. \A v \in Windows, d \in Slots : CallOK(call'[v][d], d, server')
  <2> TAKE v \in Windows, d \in Slots
  <2>1. PICK known : known = {given}
    OBVIOUS
  <2>3. \A r \in known : RefOK(r, server)
    BY <1>3, <2>1
  <2>2. Continues(call[v][d], call'[v][d], d, known)
    BY <1>5, <2>1
  <2> QED
    BY <1>4, <2>2, <2>3, CallStays
<1>7. \A v \in Windows : window'[v].session \in {given, window[v].session}
  OBVIOUS
<1>8. RefsOK'
  <2>1. \A v \in Windows : RefOK(window'[v].session, server')
    BY <1>3, <1>4, <1>7, RefStays DEF IInv, RefsOK
  <2>2. RefOK(store', server')
    BY <1>3, <1>4, RefStays
  <2>3. \A s \in SessionIDs : server'[s].state = "absent" => server'[s].secret = 1
    BY DEF IInv, RefsOK
  <2> QED
    BY <1>6, <2>1, <2>2, <2>3 DEF RefsOK
<1>9. Fresh(store', window', call')
  <2> SUFFICES ASSUME NEW u \in Windows, NEW e \in Slots, call'[u][e].given # NoRef
               PROVE  /\ Unused(call'[u][e].given, store', window', call')
                      /\ \A v \in Windows, d \in Slots :
                            call'[v][d].given = call'[u][e].given => v = u /\ d = e
    BY DEF Fresh
  <2>1. PICK g : g = call'[u][e].given /\ g = call[u][e].given /\ g # NoRef
    BY <1>5 DEF Continues
  <2>2. ~(u = w /\ e = c)
    BY <1>1, <2>1
  <2>3. Unused(g, store, window, call) /\ \A v \in Windows, d \in Slots :
                                             call[v][d].given = g => v = u /\ d = e
    BY <2>1 DEF IInv, Fresh
  <2>4. g # given
    BY <2>2, <2>3
  <2>5. \A v \in Windows, d \in Slots : call'[v][d].ref # g
    BY <1>5, <2>1, <2>3, <2>4 DEF Unused, Continues
  <2>6. store' # g /\ \A v \in Windows : window'[v].session # g
    BY <1>7, <2>3, <2>4 DEF Unused
  <2>7. \A v \in Windows, d \in Slots : call'[v][d].given = g => v = u /\ d = e
    BY <1>5, <2>1, <2>3 DEF Continues
  <2> QED
    BY <2>1, <2>5, <2>6, <2>7 DEF Unused
<1>10. StoreIsCurrent'
  <2>1. given # NoRef => server[given.session].secret = given.secret
    BY <1>3 DEF CallOK
  <2> QED
    BY <2>1 DEF StoreIsCurrent
<1>11. abandoned' = 0 => \A v \in Windows : PromptOK(window'[v], call'[v])
  <2> SUFFICES ASSUME abandoned = 0, NEW v \in Windows PROVE PromptOK(window'[v], call'[v])
    BY DEF counts
  <2>1. CASE v = w
    BY <1>1, <2>1
  <2>2. CASE v # w
    BY <1>1, <2>2 DEF IInv, PromptOK
  <2> QED
    BY <2>1, <2>2
<1> QED
  BY <1>2, <1>8, <1>9, <1>10, <1>11 DEF IInv

\* A login is answered.
LEMMA SignedInHolds ==
    ASSUME IInv, NEW w \in Windows, SignedIn(w)
    PROVE  IInv'
<1>1. "login" \in Slots
  BY DEF Slots
<1>2. PICK given \in Ref : given = call[w]["login"].given
  BY <1>1, Types
<1>3. PICK y \in Window : y = window[w]
  BY Types
<1>4. PICK x \in Window : /\ x = [y EXCEPT !.session = given,
                                           !.screen = IF @ = "signIn" THEN "active" ELSE @]
                          /\ x.session = given /\ x.revival = y.revival
                          /\ x.screen = "reauthPrompt" <=> y.screen = "reauthPrompt"
  <2>1. PICK x : x = [y EXCEPT !.session = given,
                               !.screen = IF @ = "signIn" THEN "active" ELSE @]
    OBVIOUS
  <2>2. x \in Window /\ x.session = given /\ x.revival = y.revival
    BY <2>1 DEF Window
  <2>3. x.screen = "reauthPrompt" <=> y.screen = "reauthPrompt"
    BY <2>1 DEF Window
  <2> QED
    BY <2>1, <2>2, <2>3
<1>5. window' = [window EXCEPT ![w] = x] /\ store' = given /\ UNCHANGED <<server, counts>>
  BY <1>2, <1>3, <1>4 DEF SignedIn, writeSession
<1>6. PICK calls \in [Slots -> Call] : calls = [call[w] EXCEPT !["login"] = Free]
  BY FreeIs, Types
<1>7. call' = [call EXCEPT ![w] = calls]
  BY <1>6 DEF SignedIn
<1>8. calls["login"] = Free /\ \A d \in Slots : d # "login" => calls[d] = call[w][d]
  BY <1>1, <1>6, Types
<1>9. \A d \in Slots : Continues(call[w][d], calls[d], d, {given})
  BY <1>8, FreeIs, Types DEF Continues, CallOK
<1>10. /\ window' \in [Windows -> Window] /\ window'[w] = x
       /\ \A v \in Windows : v # w => window'[v] = window[v]
  BY <1>5, Types
<1>11. \A d \in Slots : calls[d].stage = "held" <=> call[w][d].stage = "held"
  BY <1>8, FreeIs DEF SignedIn, Answered
<1>12. abandoned = 0 => PromptOK(x, calls)
  BY <1>3, <1>4, <1>11 DEF IInv, PromptOK
<1>13. calls["login"].given = NoRef /\ window'[w].session = given
  BY <1>4, <1>8, <1>10, FreeIs
<1>14. /\ abandoned = 0 => PromptOK(window'[w], calls)
       /\ \A v \in Windows : v # w => /\ window'[v].session = window[v].session
                                      /\ window'[v].screen = window[v].screen
                                      /\ window'[v].revival = window[v].revival
  BY <1>10, <1>12
<1> QED
  BY <1>1, <1>2, <1>5, <1>7, <1>9, <1>10, <1>13, <1>14, AdoptHolds

\* A re-login is answered, whether or not its boundary is still mounted.
LEMMA RevivedHolds ==
    ASSUME IInv, NEW w \in Windows, Revived(w)
    PROVE  IInv'
<1>1. "reauth" \in Slots
  BY DEF Slots
<1>2. PICK given \in Ref : given = call[w]["reauth"].given
  BY <1>1, Types
<1>3. PICK own \in BOOLEAN : own = (call[w]["reauth"].from = "boundary")
  OBVIOUS
<1>4. PICK windows \in [Windows -> Window] :
         /\ windows = Broadcast(window, "SessionRevived")
         /\ \A v \in Windows : /\ windows[v].session = window[v].session
                               /\ windows[v].screen = window[v].screen
                               /\ windows[v].revival = window[v].revival
  BY BroadcastIs, Types DEF Messages
<1>5. PICK y \in Window : y = windows[w]
  OBVIOUS
<1>6. PICK whose \in {"prompted", "orphan"} :
         whose = Whose(w, "reauth") /\ (whose = "orphan" => window[w].revival = "orphan")
  BY DEF Whose
<1>19. PICK settles \in BOOLEAN : settles = (own \/ whose = "orphan")
  OBVIOUS
<1>7. PICK x \in Window :
         /\ x = [y EXCEPT !.session = given, !.screen = IF own \/ @ = "signIn" THEN "active" ELSE @,
                          !.revival = IF settles THEN Settled(w, whose) ELSE @]
         /\ x.session = given
         /\ own => x.screen = "active" /\ x.revival = Settled(w, whose)
         /\ ~settles => /\ x.revival = y.revival
                        /\ x.screen = "reauthPrompt" <=> y.screen = "reauthPrompt"
  <2>1. PICK screen \in {"signIn", "active", "reauthPrompt", "ended"} :
           /\ screen = IF own \/ y.screen = "signIn" THEN "active" ELSE y.screen
           /\ own => screen = "active"
           /\ ~own => (screen = "reauthPrompt" <=> y.screen = "reauthPrompt")
    BY DEF Window
  <2>2. PICK revival \in {"none", "prompted", "orphan"} :
           /\ revival = IF settles THEN Settled(w, whose) ELSE y.revival
    BY Types DEF Settled, Window
  <2>3. PICK x : x = [y EXCEPT !.session = given, !.screen = screen, !.revival = revival]
    OBVIOUS
  <2>4. x \in Window /\ x.session = given /\ x.screen = screen /\ x.revival = revival
    BY <2>3 DEF Window
  <2>5. x = [y EXCEPT !.session = given, !.screen = IF own \/ @ = "signIn" THEN "active" ELSE @,
                      !.revival = IF settles THEN Settled(w, whose) ELSE @]
    BY <2>1, <2>2, <2>3 DEF Window
  <2>6. own => x.screen = "active" /\ x.revival = Settled(w, whose)
    BY <1>19, <2>1, <2>2, <2>4
  <2>7. ~settles => /\ x.revival = y.revival
                    /\ x.screen = "reauthPrompt" <=> y.screen = "reauthPrompt"
    BY <1>19, <2>1, <2>2, <2>4
  <2> QED
    BY <2>4, <2>5, <2>6, <2>7
<1>8. /\ window' = [windows EXCEPT ![w] = x] /\ store' = given
      /\ UNCHANGED <<server, counts>>
  BY <1>2, <1>3, <1>4, <1>5, <1>6, <1>7, <1>19 DEF Revived, writeSession
<1>9. PICK kept \in [Slots -> Call] :
         /\ kept = (IF settles THEN settle(w, whose, TRUE, given) ELSE call[w])
         /\ \A d \in Slots : /\ Continues(call[w][d], kept[d], d, {given})
                             /\ ~settles => kept[d] = call[w][d]
                             /\ settles /\ whose = "prompted" /\ PromptOK(window[w], call[w]) =>
                                   kept[d].stage # "held"
  <2>1. PICK s \in [Slots -> Call] :
           /\ s = settle(w, whose, TRUE, given)
           /\ \A d \in Slots : /\ Continues(call[w][d], s[d], d, {given})
                               /\ whose = "prompted" /\ PromptOK(window[w], call[w]) =>
                                     s[d].stage # "held"
    BY SettleIs
  <2>2. \A d \in Slots : Continues(call[w][d], call[w][d], d, {given})
    BY Types DEF Continues, CallOK
  <2>3. CASE settles
    BY <2>1, <2>3
  <2>4. CASE ~settles
    BY <2>2, <2>4, Types
  <2> QED
    BY <2>3, <2>4
<1>10. PICK calls \in [Slots -> Call] : calls = [kept EXCEPT !["reauth"] = Free]
  BY FreeIs
<1>11. call' = [call EXCEPT ![w] = calls]
  BY <1>2, <1>3, <1>6, <1>9, <1>10, <1>19 DEF Revived
<1>12. calls["reauth"] = Free /\ \A d \in Slots : d # "reauth" => calls[d] = kept[d]
  BY <1>1, <1>10
<1>13. \A d \in Slots : Continues(call[w][d], calls[d], d, {given})
  <2> TAKE d \in Slots
  <2>1. CASE d = "reauth"
    BY <1>12, <2>1, FreeIs DEF Continues
  <2>2. CASE d # "reauth"
    BY <1>9, <1>12, <2>2
  <2> QED
    BY <2>1, <2>2
<1>14. /\ window' \in [Windows -> Window] /\ window'[w] = x
       /\ \A v \in Windows : v # w => window'[v] = windows[v]
  BY <1>8
<1>15. abandoned = 0 => PromptOK(x, calls)
  <2> SUFFICES ASSUME abandoned = 0 PROVE PromptOK(x, calls)
    OBVIOUS
  <2>1. PromptOK(window[w], call[w]) /\ whose = "prompted" /\ (settles <=> own)
    BY <1>6, <1>19 DEF IInv, PromptOK
  <2>2. CASE own
    <3>1. \A d \in Slots : calls[d].stage # "held"
      BY <1>9, <1>12, <2>1, <2>2, FreeIs
    <3>2. Settled(w, whose) = "none"
      BY <2>1, Types DEF PromptOK, Settled, Window
    <3> QED
      BY <1>7, <2>2, <3>1, <3>2 DEF PromptOK
  <2>3. CASE ~own
    <3>1. \A d \in Slots : calls[d].stage = "held" <=> call[w][d].stage = "held"
      BY <1>9, <1>12, <2>1, <2>3, FreeIs DEF Revived, Answered
    <3>2. /\ x.revival = window[w].revival
          /\ x.screen = "reauthPrompt" <=> window[w].screen = "reauthPrompt"
      BY <1>4, <1>5, <1>7, <2>1, <2>3
    <3> QED
      BY <2>1, <3>1, <3>2 DEF PromptOK
  <2> QED
    BY <2>2, <2>3
<1>16. calls["reauth"].given = NoRef /\ window'[w].session = given
  BY <1>7, <1>12, <1>14, FreeIs
<1>17. \A v \in Windows : v # w => /\ window'[v].session = window[v].session
                                  /\ window'[v].screen = window[v].screen
                                  /\ window'[v].revival = window[v].revival
  BY <1>4, <1>14
<1>18. abandoned = 0 => PromptOK(window'[w], calls)
  BY <1>14, <1>15
<1> QED
  BY <1>1, <1>2, <1>8, <1>11, <1>13, <1>14, <1>16, <1>17, <1>18, AdoptHolds

-----------------------------------------------------------------------------
(* The theorems. *)

\* All windows are open, with the newest reference of session 1 or with none.
LEMMA InvInit == Init => IInv
<1> SUFFICES ASSUME Init PROVE IInv
  OBVIOUS
<1>1. store \in Ref /\ 1 \in SessionIDs
  BY SessionWindowsAssumption DEF Init, Ref, NoRef, SessionIDs
<1>2. /\ window \in [Windows -> Window]
      /\ \A w \in Windows : /\ window[w].session = store /\ window[w].revival = "none"
                            /\ window[w].screen \in {"signIn", "active"}
  BY <1>1, OpenedIs DEF Init
<1>3. /\ call \in [Windows -> [Slots -> Call]]
      /\ \A w \in Windows, c \in Slots : call[w][c] = Free
  BY FreeIs DEF Init
<1>4. /\ server \in [SessionIDs -> [state : {"absent", "active", "reauthPending", "ended"},
                                    secret : Nat]]
      /\ \A s \in SessionIDs : server[s].secret = 1
      /\ store # NoRef => store.session = 1 /\ store.secret = 1 /\ server[1].state = "active"
  BY <1>1 DEF Init, NoRef
<1>5. TypeOK
  <2>1. expiries \in Nat /\ faults \in Nat /\ abandoned \in Nat /\ lost \in BOOLEAN
    BY DEF Init
  <2> QED
    BY <1>1, <1>2, <1>3, <1>4, <2>1 DEF TypeOK
<1>6. RefOK(store, server) /\ RefOK(NoRef, server)
  BY <1>1, <1>4 DEF RefOK
<1>7. \A c \in Slots : CallOK(Free, c, server)
  BY <1>6, FreeIs DEF CallOK
<1>8. RefsOK
  BY <1>2, <1>3, <1>4, <1>6, <1>7 DEF RefsOK
<1>9. Fresh(store, window, call)
  BY <1>3, FreeIs DEF Fresh
<1>10. StoreIsCurrent
  <2>1. store # NoRef => server[store.session].secret = store.secret
    BY <1>1, <1>4
  <2> QED
    BY <2>1 DEF StoreIsCurrent
<1>11. \A w \in Windows : PromptOK(window[w], call[w])
  BY <1>2, <1>3, FreeIs DEF PromptOK
<1> QED
  BY <1>5, <1>8, <1>9, <1>10, <1>11 DEF IInv

\* Every step keeps the invariant.
LEMMA InvStep == IInv /\ [Next]_vars => IInv'
<1> SUFFICES ASSUME IInv, [Next]_vars PROVE IInv'
  OBVIOUS
<1>1. ASSUME NEW w \in Windows, NEW c \in Slots, CallData(w, c) \/ Fail(w, c)
      PROVE  IInv'
  BY <1>1, CallDataHolds, FailHolds
<1>2. ASSUME NEW w \in Windows, Login(w) \/ Reauthenticate(w) \/ Logout(w) PROVE IInv'
  BY <1>2, PersonHolds
<1>3. ASSUME NEW w \in Windows, Leave(w) \/ Reload(w) PROVE IInv'
  BY <1>3, LeaveHolds, ReloadHolds
<1>4. ASSUME NEW w \in Windows, Serve(w) PROVE IInv'
  <2>1. Data \subseteq Slots
    BY DEF Slots
  <2> QED
    BY <1>4, <2>1, ServeDataHolds, ServeReauthHolds, ServeLogoutHolds, ServeLoginHolds DEF Serve
<1>5. ASSUME NEW w \in Windows, Handle(w) PROVE IInv'
  <2>1. ASSUME NEW c \in Slots, Receive(w, c) \/ Challenge(w, c) \/ Refuse(w, c) PROVE IInv'
    BY <2>1, ReceiveHolds, ChallengeHolds, RefuseHolds
  <2>2. CASE Revived(w)
    BY <2>2, RevivedHolds
  <2>3. CASE SignedIn(w)
    BY <2>3, SignedInHolds
  <2>4. CASE LoggedOut(w)
    BY <2>4, LoggedOutHolds
  <2>5. CASE DeliverRevived(w)
    BY <2>5, DeliverRevivedHolds
  <2>6. CASE DeliverLoggedOut(w)
    BY <2>6, DeliverLoggedOutHolds
  <2> QED
    BY <1>5, <2>1, <2>2, <2>3, <2>4, <2>5, <2>6 DEF Handle
<1>6. ASSUME NEW s \in SessionIDs, Expire(s) \/ Lapse(s) PROVE IInv'
  BY <1>6, ExpireHolds
<1>7. CASE UNCHANGED vars
  BY <1>7 DEF vars, counts, IInv, TypeOK, RefsOK, Fresh, Unused, StoreIsCurrent, Answered
<1> QED
  BY <1>1, <1>2, <1>3, <1>4, <1>5, <1>6, <1>7 DEF Next

\* What the steps keep holds in every behaviour.
LEMMA InvHolds == Spec => []IInv
  BY InvInit, InvStep, PTL DEF Spec

\* The windows, their calls and the sessions keep their types through every
\* interleaving of answers, broadcasts, faults and expiries.
THEOREM TypeCorrect == Spec => []TypeOK
<1>1. IInv => TypeOK
  BY DEF IInv
<1> QED
  BY <1>1, InvHolds, PTL

\* "held and replayed, never dropped" (session-boundary.tsx): while no log out
\* has left a prompt behind, a call is held back exactly in the windows that
\* show the prompt which can release it.
THEOREM HeldHasPrompt == Spec => [](abandoned = 0 => HeldBehindPrompt)
<1>1. IInv => (abandoned = 0 => HeldBehindPrompt)
  <2> SUFFICES ASSUME IInv, abandoned = 0, NEW w \in Windows
               PROVE  (\E c \in Data : Held(w, c)) <=> window[w].screen = "reauthPrompt"
    BY DEF HeldBehindPrompt
  <2>1. (\E c \in Slots : call[w][c].stage = "held") <=> window[w].screen = "reauthPrompt"
    BY DEF IInv, PromptOK
  <2>2. \A c \in Slots : call[w][c].stage = "held" => c \in Data
    BY Types DEF CallOK
  <2> QED
    BY <2>1, <2>2 DEF Held, Slots
<1> QED
  BY <1>1, InvHolds, PTL

\* "a held request replayed after in-place re-auth must carry the rotated
\* reference, never the dead one" (envelope.ts): whatever windows log in, log
\* in again, log out and reload in which order, the stored reference is the
\* newest of its session, unless the newer one is still on its way or was lost.
THEOREM StoreStaysCurrent == Spec => []StoreIsCurrent
<1>1. IInv => StoreIsCurrent
  BY DEF IInv
<1> QED
  BY <1>1, InvHolds, PTL

\* A log out that leaves a prompt behind takes one of MaxAbandoned.
LEMMA NoneAbandoned == MaxAbandoned = 0 => (Spec => [](abandoned = 0))
<1> SUFFICES ASSUME MaxAbandoned = 0 PROVE Spec => [](abandoned = 0)
  OBVIOUS
<1>1. Init => abandoned = 0
  BY DEF Init
<1>2. abandoned = 0 /\ [Next]_vars => (abandoned = 0)'
  <2> SUFFICES ASSUME abandoned = 0, [Next]_vars PROVE abandoned' = 0
    OBVIOUS
  <2>1. ASSUME NEW w \in Windows, LoggedOut(w) PROVE abandoned' = 0
    BY <2>1 DEF LoggedOut
  <2>2. ASSUME NEW w \in Windows, Serve(w) PROVE abandoned' = 0
    BY <2>2 DEF Serve, ServeData, ServeReauth, ServeLogout, ServeLogin, counts
  <2>3. ASSUME NEW w \in Windows, Handle(w) PROVE abandoned' = 0
    BY <2>1, <2>3 DEF Handle, Receive, Challenge, Refuse, Revived, SignedIn, DeliverRevived,
                      DeliverLoggedOut, counts
  <2> QED
    BY <2>2, <2>3 DEF Next, CallData, Fail, Login, Reauthenticate, Logout, Leave, Reload, Expire,
                      Lapse, counts, vars
<1> QED
  BY <1>1, <1>2, PTL DEF Spec

\* So the header's log out is the only thing that can separate a held call from
\* its prompt: without it the rule holds in every state.
THEOREM HeldBehindPromptHolds == MaxAbandoned = 0 => (Spec => []HeldBehindPrompt)
<1> SUFFICES ASSUME MaxAbandoned = 0 PROVE Spec => []HeldBehindPrompt
  OBVIOUS
<1>1. Spec => [](abandoned = 0)
  BY NoneAbandoned
<1> QED
  BY <1>1, HeldHasPrompt, PTL

\* "every request stalled on the same expiry shares one revival prompt"
\* (envelope.ts): the run SessionWindowsOrphan shows that a log out in the header
\* can break this; nothing else can.
THEOREM ExpiryPrompted == MaxAbandoned = 0 => (Spec => ExpiryIsPrompted)
<1> SUFFICES ASSUME MaxAbandoned = 0 PROVE Spec => ExpiryIsPrompted
  OBVIOUS
<1>1. Spec => [](abandoned = 0)
  BY NoneAbandoned
<1>2. IInv' /\ (abandoned = 0)' =>
         \A w \in Windows, c \in Data :
            ~Held(w, c) /\ Held(w, c)' => window'[w].screen = "reauthPrompt"
  <2> SUFFICES ASSUME IInv', abandoned' = 0, NEW w \in Windows, NEW c \in Data, Held(w, c)'
               PROVE  window'[w].screen = "reauthPrompt"
    OBVIOUS
  <2>1. PromptOK(window'[w], call'[w])
    BY DEF IInv
  <2> QED
    BY <2>1 DEF PromptOK, Held, Slots
<1> QED
  BY <1>1, <1>2, InvHolds, PTL DEF ExpiryIsPrompted
=============================================================================
