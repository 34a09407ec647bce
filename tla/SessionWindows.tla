--------------------------- MODULE SessionWindows ---------------------------
(***************************************************************************)
(* The windows of one person in one browser, frontend/src: the session     *)
(* they share in localStorage (api/session.ts), the controller of each     *)
(* window (auth/session-boundary.tsx), the calls it holds back while the   *)
(* session waits for a re-login (api/envelope.ts), and the broadcasts      *)
(* between windows (session.ts).                                           *)
(*                                                                         *)
(* Each window is a JavaScript thread of its own: what it does with one    *)
(* answer or broadcast is one step, and anything may happen in between.    *)
(* The server serves a request in one step, as SessionContract has it;     *)
(* Sessions models what goes on inside.                                    *)
(***************************************************************************)
EXTENDS Naturals, Sequences

CONSTANTS
    Windows,
    Data,             \* slots for the calls of a window's surfaces
    MaxSessions, MaxExpiries, MaxFaults,   \* bounds
    MaxAbandoned      \* held calls left behind by a log out, see LoggedOut

ASSUME SessionWindowsAssumption ==
    /\ {"login", "reauth", "logout"} \cap Data = {}
    /\ MaxSessions \in Nat \ {0}
    /\ {MaxExpiries, MaxFaults, MaxAbandoned} \subseteq Nat

VARIABLES
    server,      \* [SessionIDs -> state and current secret]
    store,       \* localStorage: the reference all windows share
    window,      \* [Windows -> Window]
    call,        \* [Windows -> [Slots -> Call]]
    expiries,    \* how often a session has expired
    faults,      \* how many calls have failed and pages were reloaded
    abandoned,   \* how many prompts a log out left behind
    lost         \* history: the answer to a served re-login got lost

vars == <<server, store, window, call, expiries, faults, abandoned, lost>>
counts == <<expiries, faults, abandoned, lost>>

SessionIDs == 1 .. MaxSessions
Slots == Data \cup {"login", "reauth", "logout"}

Ref == [session : Nat, secret : Nat]
NoRef == [session |-> 0, secret |-> 0]

\* screen: SignIn, or the phase of the mounted SessionBoundary; session: the
\* prop it renders with; revival: revivalInFlight, "orphan" once the boundary
\* that raised its prompt is unmounted; inbox: broadcasts on their way.
Window == [screen : {"signIn", "active", "reauthPrompt", "ended"}, session : Ref,
           revival : {"none", "prompted", "orphan"},
           inbox : Seq({"SessionRevived", "SessionLoggedOut"})]

\* from: whose promise chain waits for the answer, the mounted boundary, a
\* component whose effects do not depend on it, an unmounted boundary that left
\* no prompt behind ("left") or that did ("orphan"), or a page that is gone.
Call == [stage : {"free", "sent", "answered", "held"}, ref : Ref,
         answer : {"none", "ok", "reauthRequired", "unauthenticated", "failed"},
         given : Ref, replay : BOOLEAN, from : {"app", "boundary", "left", "orphan", "gone"}]

TypeOK ==
    /\ server \in [SessionIDs -> [state : {"absent", "active", "reauthPending", "ended"},
                                  secret : Nat]]
    /\ store \in Ref
    /\ window \in [Windows -> Window]
    /\ call \in [Windows -> [Slots -> Call]]
    /\ {expiries, faults, abandoned} \subseteq Nat /\ lost \in BOOLEAN

Free == [stage |-> "free", ref |-> NoRef, answer |-> "none", given |-> NoRef,
         replay |-> FALSE, from |-> "app"]
Opened(ref) == [screen |-> IF ref = NoRef THEN "signIn" ELSE "active", session |-> ref,
                revival |-> "none", inbox |-> <<>>]

\* All windows are open, with the session that the store has or without one.
Init ==
    /\ store \in {NoRef, [session |-> 1, secret |-> 1]}
    /\ server = [s \in SessionIDs |-> [state |-> IF s = store.session THEN "active" ELSE "absent",
                                       secret |-> 1]]
    /\ window = [w \in Windows |-> Opened(store)]
    /\ call = [w \in Windows |-> [c \in Slots |-> Free]]
    /\ expiries = 0 /\ faults = 0 /\ abandoned = 0 /\ lost = FALSE

-----------------------------------------------------------------------------
Mounted(w) == window[w].screen # "signIn"
Held(w, c) == call[w][c].stage = "held"

Sent(ref, from) == [Free EXCEPT !.stage = "sent", !.ref = ref, !.from = from]

\* Mutant: the new reference is not stored.
writeSessionMutant(ref) == UNCHANGED store
writeSession(ref) == store' = ref
clearSession == store' = NoRef

\* settle: the held calls go out again, with the reference stored by then, or
\* throw their refusal.  A boundary settles the promise of its own prompt: the
\* mounted one "prompted", an unmounted one whose prompt was left behind "orphan".
settle(w, whose, revived, ref) ==
    [c \in Slots |->
        IF ~(Held(w, c) /\ window[w].revival = whose) THEN call[w][c]
        ELSE IF revived THEN [Sent(ref, "app") EXCEPT !.replay = TRUE] ELSE Free]

Settled(w, whose) == IF window[w].revival = whose THEN "none" ELSE window[w].revival

\* The prompt that the boundary waiting for the answer to c can settle: an
\* unmounted one the prompt it left behind.
Whose(w, c) ==
    IF call[w][c].from = "orphan" /\ window[w].revival = "orphan" THEN "orphan" ELSE "prompted"

\* The calls once the boundary is unmounted.
Unmounted(calls, from) ==
    [c \in Slots |-> IF calls[c].from = "boundary" THEN [calls[c] EXCEPT !.from = from]
                     ELSE calls[c]]

\* A new BroadcastChannel object sends, so the sender's own listener hears it.
Broadcast(windows, message) ==
    [w \in Windows |-> IF windows[w].screen = "signIn" THEN windows[w]
                       ELSE [windows[w] EXCEPT !.inbox = Append(@, message)]]

Alive(ref) == /\ ref # NoRef /\ server[ref.session].secret = ref.secret
              /\ server[ref.session].state \in {"active", "reauthPending"}

-----------------------------------------------------------------------------
(* The server. *)

Answer(w, c, answer, given) ==
    call' = [call EXCEPT ![w][c] =
                IF @.from = "gone" THEN Free
                ELSE [@ EXCEPT !.stage = "answered", !.answer = answer, !.given = given,
                               !.ref = NoRef]]

\* get_current_user_id, for any surface.
ServeData(w, c) ==
    LET ref == call[w][c].ref
    IN  /\ c \in Data /\ call[w][c].stage = "sent"
        /\ Answer(w, c, IF ~Alive(ref) THEN "unauthenticated"
                        ELSE IF server[ref.session].state = "active" THEN "ok"
                        ELSE "reauthRequired", NoRef)
        /\ UNCHANGED <<server, store, window, counts>>

\* POST /auth/reauth rotates the secret.
ServeReauth(w) ==
    LET ref == call[w]["reauth"].ref
        new == [ref EXCEPT !.secret = @ + 1]
    IN  /\ call[w]["reauth"].stage = "sent"
        /\ IF Alive(ref)
           THEN /\ server' = [server EXCEPT ![ref.session] = [state |-> "active",
                                                              secret |-> new.secret]]
                /\ Answer(w, "reauth", "ok", new)
                /\ lost' = (lost \/ call[w]["reauth"].from = "gone")
           ELSE Answer(w, "reauth", "unauthenticated", NoRef) /\ UNCHANGED <<server, lost>>
        /\ UNCHANGED <<store, window, expiries, faults, abandoned>>

\* POST /auth/logout answers the same whatever it finds.
ServeLogout(w) ==
    LET ref == call[w]["logout"].ref
    IN  /\ call[w]["logout"].stage = "sent"
        /\ server' = IF Alive(ref) THEN [server EXCEPT ![ref.session].state = "ended"] ELSE server
        /\ Answer(w, "logout", "ok", NoRef)
        /\ UNCHANGED <<store, window, counts>>

ServeLogin(w) ==
    /\ call[w]["login"].stage = "sent"
    /\ \E s \in SessionIDs :
          /\ server[s].state = "absent" /\ \A t \in SessionIDs : t < s => server[t].state # "absent"
          /\ server' = [server EXCEPT ![s].state = "active"]
          /\ Answer(w, "login", "ok", [session |-> s, secret |-> 1])
    /\ UNCHANGED <<store, window, counts>>

\* The request or its answer is lost, or the server refuses to judge it: a
\* wrong password, the CRM out of reach.
Fail(w, c) ==
    /\ call[w][c].stage \in {"sent", "answered"} /\ call[w][c].answer # "failed"
    /\ faults < MaxFaults /\ faults' = faults + 1
    /\ lost' = (lost \/ (c = "reauth" /\ call[w][c].given # NoRef))
    /\ Answer(w, c, "failed", NoRef)
    /\ UNCHANGED <<server, store, window, expiries, abandoned>>

\* Idle or aged out.
Expire(s) ==
    /\ server[s].state = "active" /\ expiries < MaxExpiries
    /\ server' = [server EXCEPT ![s].state = "reauthPending"]
    /\ expiries' = expiries + 1
    /\ UNCHANGED <<store, window, call, faults, abandoned, lost>>

\* The grace period is over.
Lapse(s) ==
    /\ server[s].state = "reauthPending"
    /\ server' = [server EXCEPT ![s].state = "ended"]
    /\ UNCHANGED <<store, window, call, counts>>

-----------------------------------------------------------------------------
(* What people do. *)

\* callApi of a surface: each attempt reads the stored session anew.  The
\* surfaces stay mounted behind the prompt and the ended screen.
CallData(w, c) ==
    /\ c \in Data /\ Mounted(w) /\ call[w][c] = Free
    /\ call' = [call EXCEPT ![w][c] = Sent(store, "app")]
    /\ UNCHANGED <<server, store, window, counts>>

\* login of SignIn; MaxSessions bounds how many are sent.
Login(w) ==
    /\ window[w].screen = "signIn" /\ call[w]["login"] = Free
    /\ \E s \in SessionIDs : server[s].state = "absent"
    /\ \A v \in Windows : call[v]["login"].stage # "sent"
    /\ call' = [call EXCEPT ![w]["login"] = Sent(NoRef, "app")]
    /\ UNCHANGED <<server, store, window, counts>>

\* reauthenticate, unless busy: with the session of the last render.  A window
\* has one re-login under way at a time, that of an unmounted boundary included.
Reauthenticate(w) ==
    /\ window[w].screen = "reauthPrompt" /\ call[w]["reauth"] = Free
    /\ call' = [call EXCEPT ![w]["reauth"] = Sent(window[w].session, "boundary")]
    /\ UNCHANGED <<server, store, window, counts>>

\* Log out in the header, or "Log out instead" at the prompt.
Logout(w) ==
    /\ window[w].screen \in {"active", "reauthPrompt"} /\ call[w]["logout"] = Free
    /\ call' = [call EXCEPT ![w]["logout"] =
            Sent(window[w].session, IF window[w].screen = "active" THEN "app" ELSE "boundary")]
    /\ UNCHANGED <<server, store, window, counts>>

\* Mutant: the phase of the boundary is kept.
LeaveMutant(w) ==
    /\ window[w].screen = "ended" /\ clearSession
    /\ window' = [window EXCEPT ![w].screen = "left", ![w].session = NoRef]
    /\ UNCHANGED <<server, call, counts>>

\* leaveEndedSession
Leave(w) ==
    /\ window[w].screen = "ended"
    /\ clearSession
    /\ window' = [window EXCEPT ![w] = [Opened(NoRef) EXCEPT !.revival = window[w].revival]]
    /\ call' = [call EXCEPT ![w] = Unmounted(@, "left")]
    /\ UNCHANGED <<server, counts>>

\* A page is loaded anew: requests that are on their way are served for nobody.
Reload(w) ==
    /\ faults < MaxFaults /\ faults' = faults + 1
    /\ window' = [window EXCEPT ![w] = Opened(store)]
    /\ call' = [call EXCEPT ![w] = [c \in Slots |->
            IF call[w][c].stage = "sent" THEN [call[w][c] EXCEPT !.from = "gone"] ELSE Free]]
    /\ lost' = (lost \/ call[w]["reauth"].given # NoRef)
    /\ UNCHANGED <<server, store, expiries, abandoned>>

-----------------------------------------------------------------------------
(* What a window does with an answer. *)

Answered(w, c, answer) == call[w][c].stage = "answered" /\ call[w][c].answer = answer

\* The refusal is not for the controller: no boundary is mounted, or the call
\* was a replay already.
Unhandled(w, c) ==
    \/ Answered(w, c, "reauthRequired") /\ (call[w][c].replay \/ ~Mounted(w))
    \/ Answered(w, c, "unauthenticated") /\ ~Mounted(w)

\* The surface gets its answer, or shows the failure.
Receive(w, c) ==
    /\ c # "logout"
    /\ \/ c \in Data /\ Answered(w, c, "ok")
       \/ Answered(w, c, "failed")
       \/ Unhandled(w, c) /\ Whose(w, c) # "orphan"
    /\ call' = [call EXCEPT ![w][c] = Free]
    /\ UNCHANGED <<server, store, window, counts>>

\* awaitRevival: the calls refused while one prompt is up share it.
Challenge(w, c) ==
    /\ c \in Data /\ Answered(w, c, "reauthRequired") /\ ~Unhandled(w, c)
    /\ call' = [call EXCEPT ![w][c] = [Free EXCEPT !.stage = "held"]]
    /\ window' = IF window[w].revival # "none" THEN window
                 ELSE [window EXCEPT ![w].screen = "reauthPrompt", ![w].revival = "prompted"]
    /\ UNCHANGED <<server, store, counts>>

\* Mutant: the ended screen comes up without settle.
RefuseMutant(w, c) ==
    /\ Answered(w, c, "unauthenticated") /\ ~Unhandled(w, c)
    /\ call' = [call EXCEPT ![w][c] = Free]
    /\ window' = [window EXCEPT ![w].screen = "ended"]
    /\ UNCHANGED <<server, store, counts>>

\* The sessionEndedHandler of whichever boundary is mounted, and the boundary
\* that had sent a re-login, which settles a prompt it left behind even if none is.
Refuse(w, c) ==
    /\ Answered(w, c, "unauthenticated") /\ (~Unhandled(w, c) \/ Whose(w, c) = "orphan")
    /\ call' = [call EXCEPT ![w] = [settle(w, Whose(w, c), FALSE, NoRef) EXCEPT ![c] = Free]]
    /\ window' = [window EXCEPT ![w].screen = IF Mounted(w) THEN "ended" ELSE @,
                                ![w].revival = Settled(w, Whose(w, c))]
    /\ UNCHANGED <<server, store, counts>>

\* The re-login succeeded.  The app adopts it even if the boundary that asked
\* is gone, which signs a signed-out window in again; that boundary still settles
\* a prompt it left behind.
Revived(w) ==
    /\ Answered(w, "reauth", "ok")
    /\ LET given == call[w]["reauth"].given
           own == call[w]["reauth"].from = "boundary"
           settles == own \/ Whose(w, "reauth") = "orphan"
           heard == Broadcast(window, "SessionRevived")[w]
       IN  /\ writeSession(given)
           /\ window' = [Broadcast(window, "SessionRevived") EXCEPT ![w] =
                    [heard EXCEPT !.session = given,
                         !.screen = IF own \/ @ = "signIn" THEN "active" ELSE @,
                         !.revival = IF settles THEN Settled(w, Whose(w, "reauth")) ELSE @]]
           /\ call' = [call EXCEPT ![w] =
                    [(IF settles THEN settle(w, Whose(w, "reauth"), TRUE, given) ELSE @)
                     EXCEPT !["reauth"] = Free]]
    /\ UNCHANGED <<server, counts>>

\* onSignedIn
SignedIn(w) ==
    /\ Answered(w, "login", "ok")
    /\ LET given == call[w]["login"].given
       IN  /\ writeSession(given)
           /\ window' = [window EXCEPT ![w].session = given,
                                       ![w].screen = IF @ = "signIn" THEN "active" ELSE @]
    /\ call' = [call EXCEPT ![w]["login"] = Free]
    /\ UNCHANGED <<server, counts>>

\* Whatever the answer was.  The logout of the prompt settles its held calls;
\* the header's knows nothing of a prompt that came up meanwhile.  Those calls
\* are settled if the window's own broadcast is delivered before the unmounted
\* boundary closes its channel; otherwise only the answer to a re-login that the
\* boundary has sent can settle them.
LoggedOut(w) ==
    /\ Answered(w, "logout", "ok") \/ Answered(w, "logout", "failed")
    /\ clearSession
    /\ \E settles \in BOOLEAN :
          /\ ~settles => /\ call[w]["logout"].from # "boundary"
                         /\ window[w].revival = "prompted" /\ abandoned < MaxAbandoned
          /\ abandoned' = abandoned + IF settles THEN 0 ELSE 1
          /\ window' = [Broadcast(window, "SessionLoggedOut") EXCEPT
                ![w] = [Opened(NoRef) EXCEPT !.revival =
                           IF settles THEN Settled(w, "prompted") ELSE "orphan"]]
          /\ call' = [call EXCEPT ![w] =
                Unmounted([(IF settles THEN settle(w, "prompted", FALSE, NoRef) ELSE @)
                           EXCEPT !["logout"] = Free], IF settles THEN "left" ELSE "orphan")]
    /\ UNCHANGED <<server, expiries, faults, lost>>

-----------------------------------------------------------------------------
(* What a window does with a broadcast. *)

\* Only a window at the prompt adopts the revived session.
DeliverRevived(w) ==
    /\ window[w].inbox # <<>> /\ Head(window[w].inbox) = "SessionRevived"
    /\ IF window[w].screen = "reauthPrompt"
       THEN /\ window' = [window EXCEPT
                  ![w] = [screen |-> "active", revival |-> Settled(w, "prompted"),
                          inbox |-> Tail(@.inbox),
                          session |-> IF store = NoRef THEN @.session ELSE store]]
            /\ call' = [call EXCEPT ![w] = settle(w, "prompted", TRUE, store)]
       ELSE window' = [window EXCEPT ![w].inbox = Tail(@)] /\ call' = call
    /\ UNCHANGED <<server, store, counts>>

DeliverLoggedOut(w) ==
    /\ window[w].inbox # <<>> /\ Head(window[w].inbox) = "SessionLoggedOut"
    /\ window' = [window EXCEPT ![w].screen = "ended", ![w].revival = Settled(w, "prompted"),
                                ![w].inbox = Tail(@)]
    /\ call' = [call EXCEPT ![w] = settle(w, "prompted", FALSE, NoRef)]
    /\ UNCHANGED <<server, store, counts>>

-----------------------------------------------------------------------------
Serve(w) == (\E c \in Data : ServeData(w, c)) \/ ServeReauth(w) \/ ServeLogout(w) \/ ServeLogin(w)

Handle(w) ==
    \/ \E c \in Slots : Receive(w, c) \/ Challenge(w, c) \/ Refuse(w, c)
    \/ Revived(w) \/ SignedIn(w) \/ LoggedOut(w) \/ DeliverRevived(w) \/ DeliverLoggedOut(w)

Next ==
    \/ \E w \in Windows :
          \/ \E c \in Slots : CallData(w, c) \/ Fail(w, c)
          \/ Login(w) \/ Reauthenticate(w) \/ Logout(w) \/ Leave(w) \/ Reload(w)
          \/ Serve(w) \/ Handle(w)
    \/ \E s \in SessionIDs : Expire(s) \/ Lapse(s)

Spec == Init /\ [][Next]_vars

-----------------------------------------------------------------------------
\* "held and replayed, never dropped" (session-boundary.tsx), "never a
\* component-local dead end": a call is held back exactly while its window
\* shows the prompt that can release it.
HeldBehindPrompt ==
    \A w \in Windows : (\E c \in Data : Held(w, c)) <=> window[w].screen = "reauthPrompt"

\* "a held request replayed after in-place re-auth must carry the rotated
\* reference, never the dead one" (envelope.ts): the reference that all calls
\* take from localStorage is the newest of its session, unless the answer that
\* brings a newer one is still on its way or was lost.
StoreIsCurrent ==
    store # NoRef /\ ~lost =>
        \/ server[store.session].secret = store.secret
        \/ \E w \in Windows :
              /\ Answered(w, "reauth", "ok")
              /\ call[w]["reauth"].given =
                    [store EXCEPT !.secret = server[store.session].secret]

\* "every request stalled on the same expiry shares one revival prompt"
\* (envelope.ts): a call that is held back raises the prompt or finds it up.
ExpiryIsPrompted ==
    [][\A w \in Windows, c \in Data :
         ~Held(w, c) /\ Held(w, c)' => window'[w].screen = "reauthPrompt"]_vars
=============================================================================
