------------------------------ MODULE MCServer ------------------------------
(***************************************************************************)
(* The server's parts that share no row with each other, checked in one    *)
(* run: an instance picks its part at the start and only that part moves,  *)
(* since the product of parts that do not interact shows nothing new.      *)
(* Sessions and engagements do interact and move together.                 *)
(***************************************************************************)
EXTENDS Workprocess, ActionTokens, ChangeFeed, MentoringSessions, Artifacts,
        PostalRefresh, CrmOutage, CrmWrites, RecordCreates, TLC

CONSTANTS q1, q2, x1, x2

VARIABLE focus

MCSlots == {q1, q2}
\* The identifiers of the rows of every part: one pair, since one part moves.
MCRows == {x1, x2}
MCWpDocs == {[start |-> "a", steps |-> {<<"a", "b">>, <<"b", NoStep>>}],
             [start |-> "b", steps |-> {<<"b", NoStep>>}]}

\* People: a rule of two fields and a rule of one.
MCRules == {{"name", "phone"}, {"mail"}}
MCFolded == [v \in IdValues |-> IF v = "A" THEN "a" ELSE v]
MCSeeds == [f \in IdFields |-> IF f = "name" THEN "a" ELSE NoInput]

Symmetry == Permutations(MCSlots) \cup Permutations(MCRows)

serverVars == <<wpVars, tokenVars, feedVars, msVars, artVars, postalVars, outVars,
                cwVars, createVars, focus>>

\* A part that does not move starts in one state.
Init ==
    /\ focus \in {"workprocess", "tokens", "feed", "engagements", "sessions", "artifacts",
                  "postal", "outage", "writes", "creates"}
    /\ EngInit /\ MsOnlyInit /\ OutInit
    /\ focus # "engagements" => eng.status = "unset" /\ eng.mentor \notin Leadership
    /\ focus \notin {"engagements", "sessions"} => eng.filled = {}
    /\ focus # "sessions" => \A s \in MSessions : Exists(s)
    /\ focus # "outage" => crmUp /\ home = Durable
    /\ WpInit /\ TokenInit /\ FeedInit /\ ArtInit /\ PostalInit /\ CwInit /\ CreateInit

Next ==
    /\ UNCHANGED focus
    /\ \/ /\ focus = "workprocess" /\ WpNext
          /\ UNCHANGED <<tokenVars, feedVars, msVars, artVars, postalVars, outVars,
                         cwVars, createVars>>
       \/ /\ focus = "tokens" /\ TokenNext
          /\ UNCHANGED <<wpVars, feedVars, msVars, artVars, postalVars, outVars,
                         cwVars, createVars>>
       \/ /\ focus = "feed" /\ FeedNext
          /\ UNCHANGED <<wpVars, tokenVars, msVars, artVars, postalVars, outVars,
                         cwVars, createVars>>
       \/ /\ focus = "engagements" /\ EngNext
          /\ UNCHANGED <<msOnly, wpVars, tokenVars, feedVars, artVars, postalVars, outVars,
                         cwVars, createVars>>
       \/ /\ focus = "sessions" /\ MsNext
          /\ UNCHANGED <<wpVars, tokenVars, feedVars, artVars, postalVars, outVars,
                         cwVars, createVars>>
       \/ /\ focus = "artifacts" /\ ArtNext
          /\ UNCHANGED <<wpVars, tokenVars, feedVars, msVars, postalVars, outVars,
                         cwVars, createVars>>
       \/ /\ focus = "postal" /\ PostalNext
          /\ UNCHANGED <<wpVars, tokenVars, feedVars, msVars, artVars, outVars, cwVars,
                         createVars>>
       \/ /\ focus = "outage" /\ OutNext
          /\ UNCHANGED <<wpVars, tokenVars, feedVars, msVars, artVars, postalVars,
                         cwVars, createVars>>
       \/ /\ focus = "writes" /\ CwNext
          /\ UNCHANGED <<wpVars, tokenVars, feedVars, msVars, artVars, postalVars, outVars,
                         createVars>>
       \/ /\ focus = "creates" /\ CreateNext
          /\ UNCHANGED <<wpVars, tokenVars, feedVars, msVars, artVars, postalVars, outVars,
                         cwVars>>

Spec == Init /\ [][Next]_serverVars

\* Work meant for the CRM is never dropped and never said to be done when it is
\* not: neither what a draft keeps (crm_outage.py) nor what a retry job keeps
\* (crm_write_through.py).
CrmWorkIsAccountedFor == OutageLosesNoWork /\ OutcomesAreHonest

\* Every variable of every part holds what its table, document or cache can.
TypeOK ==
    /\ WpTypeOK /\ TokenTypeOK /\ FeedTypeOK /\ EngTypeOK /\ MsTypeOK
    /\ ArtTypeOK /\ PostalTypeOK /\ OutTypeOK /\ CwTypeOK /\ CreateTypeOK
=============================================================================
