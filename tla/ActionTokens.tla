---------------------------- MODULE ActionTokens ----------------------------
(***************************************************************************)
(* One action link, src/mentorapp/access/tokens.py, and the requests that  *)
(* redeem and revoke it.  StoredTokenActionStore.load hands out a copy and *)
(* keeps no reference to the row, so save reads the row again, writes the  *)
(* whole copy over it and commits: the version check of the commit sees    *)
(* what happened since that second read only.  The audit row is a commit   *)
(* of its own.                                                             *)
(***************************************************************************)
EXTENDS Naturals, Requests

CONSTANTS
    MaxUses,           \* tokenMaxUses the link is minted with
    TokenMaxRequests   \* bound on the requests that are sent

ASSUME ActionTokensAssumption == MaxUses \in Nat \ {0} /\ TokenMaxRequests \in Nat

VARIABLES
    token,      \* the actionToken row
    tokenReq,   \* [Slots -> request]
    trail,      \* the tokenAuditEvent rows: how many of each event
    redeemed,   \* history: uses that were answered as spent
    killed,     \* history: a revocation has been answered
    overwrote,  \* history: a save wrote a copy of an older row
    tokenSent   \* requests sent so far

tokenVars == <<token, tokenReq, trail, redeemed, killed, overwrote, tokenSent>>

ActionToken ==
    [uses : 0 .. MaxUses, revoked : BOOLEAN, expired : BOOLEAN, version : Nat]

TokenAuditEvent == {"redeemed", "revoked"}

\* What a load knows of the row, and when it was read.
Copy == [uses |-> token.uses, revoked |-> token.revoked, version |-> token.version]

-----------------------------------------------------------------------------
\* Mutant: the use budget is not looked at.
validateMutant(rightAction) == rightAction /\ ~token.revoked /\ ~token.expired

validate(rightAction) ==
    /\ rightAction                \* expected_action is the token's
    /\ ~token.revoked /\ ~token.expired
    /\ token.uses < MaxUses

\* A refused request changes nothing; after: a revocation had been answered.
redeem(q, rightAction) ==
    /\ tokenReq[q] = Idle /\ tokenSent < TokenMaxRequests
    /\ tokenSent' = tokenSent + 1
    /\ tokenReq' = IF validate(rightAction)
                   THEN [tokenReq EXCEPT ![q] =
                           [pc |-> "save", event |-> "redeemed", after |-> killed,
                            copy |-> [Copy EXCEPT !.uses = @ + 1]]]
                   ELSE tokenReq
    /\ UNCHANGED <<token, trail, redeemed, killed, overwrote>>

\* A second revocation is only audited.
revoke(q) ==
    /\ tokenReq[q] = Idle /\ tokenSent < TokenMaxRequests
    /\ tokenSent' = tokenSent + 1
    /\ tokenReq' = [tokenReq EXCEPT ![q] =
                      [pc |-> IF token.revoked THEN "audit" ELSE "save",
                       event |-> "revoked", after |-> killed,
                       copy |-> [Copy EXCEPT !.revoked = TRUE]]]
    /\ UNCHANGED <<token, trail, redeemed, killed, overwrote>>

\* save: the row is read again ...
SaveSelect(q) ==
    LET c == tokenReq[q].copy IN
    /\ tokenReq[q].pc = "save"
    /\ tokenReq' = [tokenReq EXCEPT ![q] =
          [pc |-> "commit", event |-> @.event, after |-> @.after, copy |-> c,
           selected |-> token.version,
           dirty |-> c.uses # token.uses \/ c.revoked # token.revoked]]
    /\ overwrote' = (overwrote \/ c.version # token.version)
    /\ UNCHANGED <<token, trail, redeemed, killed, tokenSent>>

\* ... and overwritten with the copy where they differ; when another commit
\* came in between, this one fails and the request with it.
SaveCommit(q) ==
    LET c == tokenReq[q].copy
        stale == tokenReq[q].dirty /\ tokenReq[q].selected # token.version IN
    /\ tokenReq[q].pc = "commit"
    /\ token' = IF stale \/ ~tokenReq[q].dirty THEN token
                ELSE [token EXCEPT !.uses = c.uses, !.revoked = c.revoked, !.version = @ + 1]
    /\ tokenReq' = [tokenReq EXCEPT ![q] =
          IF stale THEN Idle
          ELSE [pc |-> "audit", event |-> @.event, after |-> @.after, copy |-> c]]
    /\ UNCHANGED <<trail, redeemed, killed, overwrote, tokenSent>>

\* _audit, a commit of its own; then the answer.
append_audit(q) ==
    LET event == tokenReq[q].event IN
    /\ tokenReq[q].pc = "audit"
    /\ trail' = [trail EXCEPT ![event] = @ + 1]
    /\ redeemed' = IF event = "redeemed" THEN redeemed + 1 ELSE redeemed
    /\ killed' = (killed \/ event = "revoked")
    /\ tokenReq' = [tokenReq EXCEPT ![q] = Idle]
    /\ UNCHANGED <<token, overwrote, tokenSent>>

\* The process ends: what is committed stays.
TokenCrash ==
    /\ \E q \in Slots : tokenReq[q] # Idle
    /\ tokenReq' = [q \in Slots |-> Idle]
    /\ UNCHANGED <<token, trail, redeemed, killed, overwrote, tokenSent>>

Expire ==
    /\ ~token.expired /\ token' = [token EXCEPT !.expired = TRUE]
    /\ UNCHANGED <<tokenReq, trail, redeemed, killed, overwrote, tokenSent>>

\* mint.
TokenInit ==
    /\ token = [uses |-> 0, revoked |-> FALSE, expired |-> FALSE, version |-> 1]
    /\ tokenReq = [q \in Slots |-> Idle]
    /\ trail = [event \in TokenAuditEvent |-> 0]
    /\ redeemed = 0 /\ killed = FALSE /\ overwrote = FALSE /\ tokenSent = 0

TokenNext ==
    \/ \E q \in Slots :
          \/ \E right \in BOOLEAN : redeem(q, right)
          \/ revoke(q) \/ SaveSelect(q) \/ SaveCommit(q) \/ append_audit(q)
    \/ TokenCrash \/ Expire

TokenSpec == TokenInit /\ [][TokenNext]_tokenVars

-----------------------------------------------------------------------------
TokenTypeOK ==
    /\ token \in ActionToken
    /\ DOMAIN tokenReq = Slots
    /\ trail \in [TokenAuditEvent -> Nat]
    /\ redeemed \in Nat /\ killed \in BOOLEAN /\ overwrote \in BOOLEAN

\* Every redemption that is answered spent a use of its own and left its row in
\* the trail, the budget is kept and a revocation is for good, whichever
\* requests the crash cuts between save and audit: as long as no save wrote a
\* copy over a newer row.
UsesAreAccountedFor ==
    ~overwrote =>
        /\ redeemed <= token.uses /\ token.uses <= MaxUses
        /\ redeemed = trail["redeemed"]
        /\ killed => token.revoked
        /\ \A q \in Slots : tokenReq[q].pc = "commit" /\ tokenReq[q].event = "redeemed"
                               => ~tokenReq[q].after

=============================================================================
