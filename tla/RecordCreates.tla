--------------------------- MODULE RecordCreates ----------------------------
(***************************************************************************)
(* Creating a record past the duplicate checks: the create form of         *)
(* src/mentorapp/api/record_create.py, one per window, over POST, PATCH,   *)
(* restore and similar-records of api/routers/records.py and the checks    *)
(* and writes of api/write_engine.py.                                      *)
(*                                                                         *)
(* create_record looks for duplicates and inserts in one transaction, yet  *)
(* nothing locks what it has read: the check and the commit are two steps, *)
(* and other windows' creates and restores land between them.              *)
(***************************************************************************)
EXTENDS Naturals, Sequences, Functions

CONSTANTS
    CWindows,
    IdValues,      \* what can be typed into an identity field
    NoInput,       \* no value: null, absent, or blank text
    DuplicateMatchRules, \* the identity fields of each rule, a set of sets
    Folded,        \* [IdValues -> IdValues], normalize_for_match
    Inactive,      \* values every form is offered and the server has retired since
    Required,      \* the fields with requiredFlag
    Seeds,         \* the fields' default values, [identity fields -> inputs]
    MaxPeople,     \* bound on the records
    MaxChanges     \* bound on the edits of forms and records and the soft deletes

\* Every field participating in any rule.
IdFields == UNION DuplicateMatchRules
Inputs == IdValues \cup {NoInput}

ASSUME RecordCreatesAssumption ==
    /\ NoInput \notin IdValues /\ Inactive \subseteq IdValues
    /\ Folded \in [IdValues -> IdValues] /\ Seeds \in [IdFields -> Inputs]
    /\ MaxPeople \in Nat /\ MaxChanges \in Nat

VARIABLES
    people,    \* the records, in the order they were inserted
    createForm, \* [CWindows -> CreateFlow]
    creating,  \* [CWindows -> the POST of that window]
    changes,   \* how many edits and soft deletes there were
    sinceCheck \* history: per record, the ones whose matching its check has not seen:
               \* they came to life or were edited after it, or it was edited itself

createVars == <<people, createForm, creating, changes, sinceCheck>>

Numbers == 1 .. MaxPeople

\* override: the candidates of its duplicateOverride row; {}: it has none.
Person == [values : [IdFields -> Inputs], deleted : BOOLEAN, version : Nat,
           override : SUBSET Numbers]

\* A candidate as it was read: choosing it carries its rowVersion back.
SimilarCandidate == [id : Numbers, removed : BOOLEAN, version : 1 .. 2 * MaxChanges + 1]

\* checked: the identity of the last advisory check; {}: there was none.
\* asked: the input of an advisory check under way.  rejected: the candidates
\* of the server's rejection; {}: no override is pending.
CreateFlow ==
    [open : BOOLEAN, values : [IdFields -> Inputs], checked : SUBSET [IdFields -> Inputs],
     asked : SUBSET [IdFields -> Inputs], offered : SUBSET SimilarCandidate,
     rejected : SUBSET Numbers]

Post == [stage : {"none", "sent", "checked"}, values : [IdFields -> Inputs],
         override : BOOLEAN, found : SUBSET Numbers, since : SUBSET Numbers]

NoPost == [stage |-> "none", values |-> [f \in IdFields |-> NoInput], override |-> FALSE,
           found |-> {}, since |-> {}]

Opened == [open |-> TRUE, values |-> Seeds, checked |-> {}, asked |-> {}, offered |-> {},
           rejected |-> {}]
ClosedForm == [Opened EXCEPT !.open = FALSE]

CreateTypeOK ==
    /\ people \in Seq(Person)
    /\ createForm \in [CWindows -> CreateFlow]
    /\ creating \in [CWindows -> Post]
    /\ changes \in 0 .. MaxChanges
    /\ sinceCheck \in Seq(SUBSET Numbers) /\ Len(sinceCheck) = Len(people)

CreateInit ==
    /\ people = <<>>
    /\ createForm = [w \in CWindows |-> Opened]
    /\ creating = [w \in CWindows |-> NoPost]
    /\ changes = 0
    /\ sinceCheck = <<>>

-----------------------------------------------------------------------------
\* A rule whose fields are not all supplied is skipped; the others compare
\* the normalized values of every one of their fields.
MatchesRule(rule, a, b) ==
    \A f \in rule : a[f] # NoInput /\ b[f] # NoInput /\ Folded[a[f]] = Folded[b[f]]
Matches(a, b) == \E rule \in DuplicateMatchRules : MatchesRule(rule, a, b)

\* find_similar_records
find_similar_records(values, include_deleted) ==
    {n \in DOMAIN people : /\ include_deleted \/ ~people[n].deleted
                           /\ Matches(values, people[n].values)}

\* validate_value over the settings the form opened with, and over today's.
SweepsClean(values) == \A f \in Required : values[f] # NoInput
ServerAccepts(values) == SweepsClean(values) /\ \A f \in IdFields : values[f] \notin Inactive

\* The record that came to life, or has new values, is since every check made before.
Revived(n, known) == [m \in DOMAIN known |-> IF m = n THEN known[m] ELSE known[m] \cup {n}]
PostsSee(n, posts) ==
    [w \in CWindows |-> IF posts[w].stage # "checked" THEN posts[w]
                        ELSE [posts[w] EXCEPT !.since = @ \cup {n}]]

-----------------------------------------------------------------------------
\* edit_value: a new value voids a pending override, not a save under way.
edit_value(w, f, v) ==
    /\ createForm[w].open /\ changes < MaxChanges
    /\ createForm' = [createForm EXCEPT ![w].values[f] = v, ![w].rejected = {}]
    /\ changes' = changes + 1
    /\ UNCHANGED <<people, creating, sinceCheck>>

\* similar_check_input: due once some rule is complete, and only when the
\* identity differs from the last one checked.
similar_check_input(w) ==
    /\ createForm[w].open
    /\ \E rule \in DuplicateMatchRules : \A f \in rule : createForm[w].values[f] # NoInput
    /\ createForm[w].values \notin createForm[w].checked
    /\ createForm' = [createForm EXCEPT ![w].checked = {createForm[w].values},
                                        ![w].asked = {createForm[w].values}]
    /\ UNCHANGED <<people, creating, changes, sinceCheck>>

\* post_similar_records answers, removed records included; offer_similar shows
\* what it found and leaves the form as it is when it found nothing.
post_similar_records(w) ==
    /\ createForm[w].open
    /\ \E asked \in createForm[w].asked :
          LET found == {[id |-> n, removed |-> people[n].deleted, version |-> people[n].version] :
                           n \in find_similar_records(asked, TRUE)}
          IN  createForm' = [createForm EXCEPT ![w].asked = {},
                                ![w].offered = IF found = {} THEN @ ELSE found]
    /\ UNCHANGED <<people, creating, changes, sinceCheck>>

\* request_save, and choose_continue once the server has rejected: the sweep,
\* then the whole record; past a rejection, with the override.
RequestCreate(w) ==
    /\ createForm[w].open /\ creating[w].stage = "none"
    /\ SweepsClean(createForm[w].values)
    /\ creating' = [creating EXCEPT ![w].stage = "sent", ![w].values = createForm[w].values,
                                    ![w].override = createForm[w].rejected # {}]
    /\ UNCHANGED <<people, createForm, changes, sinceCheck>>

\* create_record refuses values; the form keeps what was typed.
PostInvalid(w) ==
    /\ creating[w].stage = "sent" /\ ~ServerAccepts(creating[w].values)
    /\ creating' = [creating EXCEPT ![w] = NoPost]
    /\ UNCHANGED <<people, createForm, changes, sinceCheck>>

\* create_record finds candidates and has no override: save_rejected_duplicates.
PostRejected(w) ==
    LET found == find_similar_records(creating[w].values, FALSE) IN
    /\ creating[w].stage = "sent" /\ ServerAccepts(creating[w].values)
    /\ found # {} /\ ~creating[w].override
    /\ creating' = [creating EXCEPT ![w] = NoPost]
    /\ createForm' = [createForm EXCEPT ![w].rejected = IF createForm[w].open THEN found ELSE @]
    /\ UNCHANGED <<people, changes, sinceCheck>>

\* Mutant: an override skips the check, and its row with it.
CheckedCandidatesMutant(w) ==
    IF creating[w].override THEN {} ELSE find_similar_records(creating[w].values, FALSE)
CheckedCandidates(w) == find_similar_records(creating[w].values, FALSE)

\* create_record, up to its insert: no live candidate, or an override.
PostChecked(w) ==
    LET found == CheckedCandidates(w) IN
    /\ creating[w].stage = "sent" /\ ServerAccepts(creating[w].values)
    /\ found = {} \/ creating[w].override
    /\ creating' = [creating EXCEPT ![w].stage = "checked", ![w].found = found]
    /\ UNCHANGED <<people, createForm, changes, sinceCheck>>

\* The insert, the override row and the feed entry commit.  save_succeeded
\* lands on the read view; when the answer is lost the form stays.
PostCommitted(w, lost) ==
    /\ creating[w].stage = "checked" /\ Len(people) < MaxPeople
    /\ people' = Append(people, [values |-> creating[w].values, deleted |-> FALSE, version |-> 1,
                                 override |-> creating[w].found])
    /\ sinceCheck' = Append(sinceCheck, creating[w].since)
    /\ creating' = PostsSee(Len(people'), [creating EXCEPT ![w] = NoPost])
    /\ createForm' = [createForm EXCEPT ![w] = IF lost THEN @ ELSE ClosedForm]
    /\ UNCHANGED changes

\* choose_restore and restore_record: only of a candidate that was removed, on
\* the version it had.  A record that lives again is simply opened; a stale
\* version is a 409, and the form stays.
choose_restore(w, c) ==
    /\ createForm[w].open /\ c \in createForm[w].offered /\ c.removed
    /\ \/ /\ people[c.id].deleted /\ people[c.id].version = c.version
          /\ people' = [people EXCEPT ![c.id].deleted = FALSE, ![c.id].version = @ + 1]
          /\ sinceCheck' = Revived(c.id, sinceCheck)
          /\ creating' = PostsSee(c.id, creating)
          /\ createForm' = [createForm EXCEPT ![w] = ClosedForm]
       \/ /\ ~people[c.id].deleted
          /\ createForm' = [createForm EXCEPT ![w] = ClosedForm]
          /\ UNCHANGED <<people, sinceCheck, creating>>
       \/ /\ people[c.id].deleted /\ people[c.id].version # c.version
          /\ createForm' = [createForm EXCEPT ![w].offered = {}]
          /\ UNCHANGED <<people, sinceCheck, creating>>
    /\ UNCHANGED changes

\* cancel, the discard of request_close's guard, and choose_switch leave the
\* form without a request: a save under way still lands.
Leave(w) ==
    /\ createForm[w].open
    /\ createForm' = [createForm EXCEPT ![w] = ClosedForm]
    /\ UNCHANGED <<people, creating, changes, sinceCheck>>

\* patch_record and partial_update: a live record's identity is edited, on the
\* version it has (a stale one is refused).  The value is validated; nothing
\* looks for duplicates.
PatchPerson(n, f, v) ==
    /\ changes < MaxChanges /\ ~people[n].deleted /\ v # people[n].values[f]
    /\ v \notin Inactive /\ (f \in Required => v # NoInput)
    /\ people' = [people EXCEPT ![n].values[f] = v, ![n].version = @ + 1]
    /\ sinceCheck' = [Revived(n, sinceCheck) EXCEPT ![n] = DOMAIN people]
    /\ creating' = PostsSee(n, creating)
    /\ changes' = changes + 1
    /\ UNCHANGED createForm

\* Nothing in src/ removes a domain record: an administrator's soft delete.
RemovePerson(n) ==
    /\ changes < MaxChanges /\ ~people[n].deleted
    /\ people' = [people EXCEPT ![n].deleted = TRUE, ![n].version = @ + 1]
    /\ changes' = changes + 1
    /\ UNCHANGED <<createForm, creating, sinceCheck>>

CreateNext ==
    \/ \E w \in CWindows : \/ \E f \in IdFields, v \in Inputs : edit_value(w, f, v)
                           \/ similar_check_input(w) \/ post_similar_records(w)
                           \/ RequestCreate(w) \/ PostInvalid(w) \/ PostRejected(w)
                           \/ PostChecked(w) \/ \E lost \in BOOLEAN : PostCommitted(w, lost)
                           \/ \E c \in SimilarCandidate : choose_restore(w, c)
                           \/ Leave(w)
    \/ \E n \in DOMAIN people :
          RemovePerson(n) \/ \E f \in IdFields, v \in Inputs : PatchPerson(n, f, v)

CreateSpec == CreateInit /\ [][CreateNext]_createVars

-----------------------------------------------------------------------------
\* No create is silent about a duplicate: of two live records that match, the
\* younger has an override row that names the elder, unless the check of the
\* younger could not see it: the elder was inserted, came back or took its
\* values after that check, or the younger's own values were edited since
\* (find_similar_records, create_record; partial_update checks nothing).
DuplicatesAreDecided ==
    \A m, n \in DOMAIN people :
        \/ ~(m < n) \/ people[m].deleted \/ people[n].deleted
        \/ ~Matches(people[m].values, people[n].values)
        \/ m \in people[n].override \/ m \in sinceCheck[n]
=============================================================================
