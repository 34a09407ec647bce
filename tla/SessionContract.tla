-------------------------- MODULE SessionContract --------------------------
(***************************************************************************)
(* What src/mentorapp/access/sessions.py promises of one session, as if    *)
(* every request were a single step: it is active or waits for a re-login, *)
(* a re-login rotates its secret, and once it has ended it stays ended.    *)
(***************************************************************************)
EXTENDS Naturals

VARIABLES state, secret

SessionState == {"active", "reauthPending", "ended"}

Init == state = "active" /\ secret = 1

\* Idle or aged out, or the CRM stopped honouring the stored credential.
Challenge == state = "active" /\ state' = "reauthPending" /\ UNCHANGED secret

\* In-place re-authentication; an active session may be refreshed, too.
Relogin == /\ state # "ended" /\ state' = "active"
           /\ secret' > secret

\* Logout, or the grace period has lapsed.
End == state # "ended" /\ state' = "ended" /\ UNCHANGED secret

Next == Challenge \/ Relogin \/ End

Spec == Init /\ [][Next]_<<state, secret>>
=============================================================================
