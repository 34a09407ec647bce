---------------------------- MODULE Workprocess -----------------------------
(***************************************************************************)
(* Workprocess registrations and the runs launched from them:              *)
(* src/mentorapp/api/routers/workprocess.py over                           *)
(* automation/workprocess_engine.py, access/workprocess.py and             *)
(* storage/workprocess.py.                                                 *)
(*                                                                         *)
(* The requests are those of capability holders on registrations and of    *)
(* the runs' owner; any other caller is answered 403 or 404 before         *)
(* anything is read that these requests depend on.  A request reads its    *)
(* rows and decides (Load...), then writes and commits (Write...): an      *)
(* UPDATE carries the version the row was read at, and a mismatch is an    *)
(* error that rolls the whole request back.                                *)
(***************************************************************************)
EXTENDS Naturals, FiniteSets, Sequences, Functions, Requests

CONSTANTS
    Regs, Runs,          \* identifiers of registrations and runs
    WpNames, WpSources,  \* names; keys of live data sources
    WpDocs,              \* stepGraph documents, [start, steps], a step is <<key, next>>
    NoStep,              \* Python's None where a step key may stand
    WpContracts,         \* the selection contracts in use
    WpMaxReg, WpMaxRun   \* bounds: writes of all registrations, rowVersion of a run

ASSUME WorkprocessAssumption == 
    /\ WpContracts \subseteq {"none", "single", "multiple"}   \* SELECTION_CONTRACTS
    /\ {WpMaxReg, WpMaxRun} \subseteq Nat /\ NoStep \notin STRING

VARIABLES
    regs,      \* workprocessRegistration
    links,     \* the live workprocessRegistrationDataSource rows, <<reg, source>>
    runs,      \* workprocessRun
    covered,   \* the sources on which the owner's roles hold a live grant
    wpReq,     \* [Slots -> request]
    applied,   \* history: how often the handler's effects of a run were committed
    bells,     \* history: "workprocessCompleted" notifications of a run
    edited     \* history: runs whose registration's graph was edited under them

wpVars == <<regs, links, runs, covered, wpReq, applied, bells, edited>>

RunStates == {"inFlight", "committed", "discarded"}

\* Version 0: the row does not exist yet.
WorkprocessRegistration ==
    [live : BOOLEAN, name : WpNames, doc : WpDocs, contract : WpContracts,
     version : Nat]

\* walk: the answered steps in order, the keys of stepAnswers its range.
WorkprocessRun ==
    [state : RunStates, reg : Regs \cup {NoStep}, source : WpSources, current : STRING \cup {NoStep},
     walk : Seq(STRING), version : Nat]

-----------------------------------------------------------------------------
Keys(doc) == {step[1] : step \in doc.steps}
Terminal(doc) == {step[1] : step \in {s \in doc.steps : s[2] = NoStep}}

step_graph_valid(doc) ==
    /\ doc.steps # {} /\ Keys(doc) \subseteq STRING
    /\ Cardinality(Keys(doc)) = Cardinality(doc.steps)
    /\ \A step \in doc.steps : step[2] \in Keys(doc) \cup {NoStep}
    /\ doc.start \in Keys(doc)
    /\ Terminal(doc) # {}

\* _declared_steps: successors.get(key), None for a key that is not declared.
Successor(doc, key) ==
    IF key \in Keys(doc) THEN (CHOOSE step \in doc.steps : step[1] = key)[2] ELSE NoStep

LiveRegs == {g \in Regs : regs[g].live}
NameTaken(name, except) == \E g \in LiveRegs \ except : regs[g].name = name

invalid_invocation(contract, count) ==
    \/ contract = "single" /\ count # 1
    \/ contract = "multiple" /\ count = 0

\* The quiet form: the entries of a source's action list.
visible_workprocesses(source) ==
    IF source \in covered THEN {g \in LiveRegs : <<g, source>> \in links} ELSE {}

\* The attempt form.
authorize_workprocess_launch(g, source) == <<g, source>> \in links /\ source \in covered

Begin(q, request) == wpReq[q] = Idle /\ wpReq' = [wpReq EXCEPT ![q] = request]
Finish(q) == wpReq' = [wpReq EXCEPT ![q] = Idle]
WpRead == UNCHANGED <<regs, links, runs, covered, applied, bells, edited>>

-----------------------------------------------------------------------------
\* POST /workprocesses.
create_registration(q, g, name, doc, contract, targets) ==
    /\ regs[g].version = 0 /\ targets # {}
    /\ step_graph_valid(doc) /\ ~NameTaken(name, {})
    /\ Begin(q, [pc |-> "create", reg |-> g, targets |-> targets,
                 row |-> [live |-> TRUE, name |-> name, doc |-> doc,
                          contract |-> contract, version |-> 1]])
    /\ WpRead

\* PATCH /workprocesses/{id}: the fields that are not sent keep the row's value;
\* ~retarget: the targets are not sent.
patch_registration(q, g, name, doc, contract, retarget, targets) ==
    /\ regs[g].live
    /\ doc = regs[g].doc \/ step_graph_valid(doc)
    /\ retarget => targets # {}
    /\ name # regs[g].name => ~NameTaken(name, {g})
    /\ Begin(q, [pc |-> "patch", reg |-> g, retarget |-> retarget, targets |-> targets,
                 row |-> [live |-> TRUE, name |-> name, doc |-> doc,
                          contract |-> contract, version |-> regs[g].version + 1]])
    /\ WpRead

\* DELETE /workprocesses/{id}.
delete_registration(q, g) ==
    /\ regs[g].live
    /\ Begin(q, [pc |-> "delete", reg |-> g,
                 links |-> {link \in links : link[1] = g},
                 row |-> [regs[g] EXCEPT !.live = FALSE, !.version = @ + 1]])
    /\ WpRead

\* POST /workprocesses/runs; the run's id is new.
launch(q, r, g, source, count) ==
    /\ runs[r].version = 0 /\ \A p \in Slots : wpReq[p].pc = "launch" => wpReq[p].run # r
    /\ regs[g].live
    /\ authorize_workprocess_launch(g, source)
    /\ ~invalid_invocation(regs[g].contract, count)
    /\ Begin(q, [pc |-> "launch", run |-> r, doc |-> regs[g].doc,
                 row |-> [state |-> "inFlight", reg |-> g, source |-> source,
                          current |-> regs[g].doc.start, walk |-> <<>>, version |-> 1]])
    /\ WpRead

\* The row after the answer; {} when the engine refuses it.
answer_step(row, doc, key, branch) ==
    IF /\ row.state = "inFlight"
       /\ row.current # NoStep /\ key = row.current
       /\ branch \in Keys(doc) \cup {NoStep}
    THEN {[row EXCEPT !.walk = Append(@, key),
                      !.current = IF branch # NoStep THEN branch ELSE Successor(doc, key)]}
    ELSE {}

cancel_run(row) == IF row.state = "inFlight" THEN {[row EXCEPT !.state = "discarded"]} ELSE {}

commit_run(row) ==
    IF row.state = "inFlight" /\ row.current = NoStep
    THEN {[row EXCEPT !.state = "committed"]}
    ELSE {}

\* A run verb loads the caller's run with its registration, deleted or not.
RunVerb(q, r, verb, outcome) ==
    /\ runs[r].version > 0
    /\ \E row \in outcome :
          Begin(q, [pc |-> verb, run |-> r, doc |-> regs[runs[r].reg].doc,
                    row |-> [row EXCEPT !.version = @ + 1]])
    /\ WpRead

step(q, r, key, branch) ==
    RunVerb(q, r, "step", answer_step(runs[r], regs[runs[r].reg].doc, key, branch))
commit(q, r) == RunVerb(q, r, "commit", commit_run(runs[r]))
cancel(q, r) == RunVerb(q, r, "cancel", cancel_run(runs[r]))

-----------------------------------------------------------------------------
\* Flush and commit.  An error of the database rolls back and answers 500.

\* The live-name index: a name that was free when it was checked may be taken.
WriteCreate(q) ==
    LET w == wpReq[q] IN
    /\ w.pc = "create" /\ Finish(q)
    /\ IF regs[w.reg].version = 0 /\ ~NameTaken(w.row.name, {})
       THEN /\ regs' = [regs EXCEPT ![w.reg] = w.row]
            /\ links' = links \cup {<<w.reg, s>> : s \in w.targets}
       ELSE UNCHANGED <<regs, links>>
    /\ UNCHANGED <<runs, covered, applied, bells, edited>>

\* _retarget: the live rows of the targets that stay are left alone.
Retargeted(w) == IF w.retarget THEN {link \in links : link[1] # w.reg}
                                    \cup {<<w.reg, s>> : s \in w.targets}
                 ELSE links

WritePatch(q) ==
    LET w == wpReq[q] IN
    /\ w.pc = "patch" /\ Finish(q)
    /\ IF w.row.version = regs[w.reg].version + 1 /\ ~NameTaken(w.row.name, {w.reg})
       THEN /\ regs' = [regs EXCEPT ![w.reg] = w.row]
            /\ links' = Retargeted(w)
            /\ edited' = edited \cup {r \in Runs : runs[r].reg = w.reg
                                                   /\ w.row.doc # regs[w.reg].doc}
       ELSE UNCHANGED <<regs, links, edited>>
    /\ UNCHANGED <<runs, covered, applied, bells>>

\* Mutant: the target links of the registration stay behind.
WriteDeleteMutant(q) ==
    LET w == wpReq[q] IN
    /\ w.pc = "delete" /\ Finish(q)
    /\ IF w.row.version = regs[w.reg].version + 1
       THEN regs' = [regs EXCEPT ![w.reg] = w.row]
       ELSE UNCHANGED regs
    /\ UNCHANGED <<links, runs, covered, applied, bells, edited>>

WriteDelete(q) ==
    LET w == wpReq[q] IN
    /\ w.pc = "delete" /\ Finish(q)
    /\ IF w.row.version = regs[w.reg].version + 1
       THEN /\ regs' = [regs EXCEPT ![w.reg] = w.row]
            /\ links' = links \ w.links
       ELSE UNCHANGED <<regs, links>>
    /\ UNCHANGED <<runs, covered, applied, bells, edited>>

WriteLaunch(q) ==
    LET w == wpReq[q] IN
    /\ w.pc = "launch" /\ Finish(q)
    /\ runs' = [runs EXCEPT ![w.run] = w.row]
    /\ edited' = edited \cup (IF w.doc = regs[w.row.reg].doc THEN {} ELSE {w.run})
    /\ UNCHANGED <<regs, links, covered, applied, bells>>

WriteStep(q) ==
    LET w == wpReq[q] IN
    /\ w.pc \in {"step", "cancel"} /\ Finish(q)
    /\ IF w.row.version = runs[w.run].version + 1
       THEN runs' = [runs EXCEPT ![w.run] = w.row]
       ELSE UNCHANGED runs
    /\ UNCHANGED <<regs, links, covered, applied, bells, edited>>

\* Mutant: the write is not guarded by the version of the run.
WriteCommitMutant(q) ==
    LET w == wpReq[q] IN
    /\ w.pc = "commit" /\ Finish(q)
    /\ runs' = [runs EXCEPT ![w.run] = w.row]
    /\ applied' = [applied EXCEPT ![w.run] = @ + 1]
    /\ \E long \in {0, 1} : bells' = [bells EXCEPT ![w.run] = @ + long]
    /\ UNCHANGED <<regs, links, covered, edited>>

\* The handler's effects, the state and, for a run that took long, the bell are
\* one transaction; the handler may raise.
WriteCommit(q) ==
    LET w == wpReq[q] IN
    /\ w.pc = "commit" /\ Finish(q)
    /\ \/ /\ w.row.version = runs[w.run].version + 1
          /\ runs' = [runs EXCEPT ![w.run] = w.row]
          /\ applied' = [applied EXCEPT ![w.run] = @ + 1]
          /\ \E long \in {0, 1} : bells' = [bells EXCEPT ![w.run] = @ + long]
       \/ UNCHANGED <<runs, applied, bells>>
    /\ UNCHANGED <<regs, links, covered, edited>>

\* access/grants.py: idempotent both ways.
grant_data_source_role(source) ==
    /\ covered' = covered \cup {source}
    /\ UNCHANGED <<regs, links, runs, wpReq, applied, bells, edited>>
revoke_data_source_role(source) ==
    /\ covered' = covered \ {source}
    /\ UNCHANGED <<regs, links, runs, wpReq, applied, bells, edited>>

-----------------------------------------------------------------------------
WpWrites == FoldFunction(+, 0, [g \in Regs |-> regs[g].version])

WpInit ==
    /\ \E doc \in WpDocs, name \in WpNames, source \in WpSources, contract \in WpContracts :
          /\ doc = CHOOSE d \in WpDocs : step_graph_valid(d)
          /\ regs = [g \in Regs |-> [live |-> FALSE, name |-> name, doc |-> doc,
                                     contract |-> contract, version |-> 0]]
          /\ runs = [r \in Runs |-> [state |-> "inFlight", reg |-> NoStep,
                                     source |-> source, current |-> NoStep,
                                     walk |-> <<>>, version |-> 0]]
    /\ links = {} /\ covered = {} /\ edited = {}
    /\ wpReq = [q \in Slots |-> Idle]
    /\ applied = [r \in Runs |-> 0] /\ bells = [r \in Runs |-> 0]

WpNext ==
    \/ \E q \in Slots, g \in Regs, name \in WpNames, doc \in WpDocs, c \in WpContracts,
          targets \in SUBSET WpSources :
          \/ create_registration(q, g, name, doc, c, targets)
          \/ /\ WpWrites < WpMaxReg
             /\ \E retarget \in BOOLEAN : patch_registration(q, g, name, doc, c, retarget, targets)
    \/ \E q \in Slots, g \in Regs :
          \/ WpWrites < WpMaxReg /\ delete_registration(q, g)
          \/ \E r \in Runs, s \in WpSources, count \in 0 .. 2 : launch(q, r, g, s, count)
    \/ \E q \in Slots, r \in Runs :
          /\ runs[r].version \in 1 .. WpMaxRun - 1
          /\ \/ \E key \in Keys(regs[runs[r].reg].doc) \cup {runs[r].current},
                   branch \in Keys(regs[runs[r].reg].doc) \cup {NoStep} : step(q, r, key, branch)
             \/ commit(q, r)
             \/ cancel(q, r)
    \/ \E q \in Slots :
          \/ WriteCreate(q) \/ WritePatch(q) \/ WriteDelete(q)
          \/ WriteLaunch(q) \/ WriteStep(q) \/ WriteCommit(q)
    \/ \E s \in WpSources : grant_data_source_role(s) \/ revoke_data_source_role(s)

WpSpec == WpInit /\ [][WpNext]_wpVars

-----------------------------------------------------------------------------
WpTypeOK ==
    /\ regs \in [Regs -> WorkprocessRegistration]
    /\ \A r \in Runs : runs[r] \in WorkprocessRun
    /\ links \subseteq Regs \X WpSources /\ covered \subseteq WpSources
    /\ edited \subseteq Runs /\ DOMAIN wpReq = Slots

\* "The caller's transaction commits both together or neither": a run's
\* effects are committed once if it ends committed and never if it is open or
\* discarded, whatever verbs race on it, and a bell rings only for them.  And it
\* walked the registration's graph from its start to a terminal step over
\* declared steps, unless an administrator edited the graph under it: no order
\* of answers, branches and racing verbs skips the end.
CommitsWholeWalks ==
    \A r \in Runs :
        /\ applied[r] = IF runs[r].state = "committed" THEN 1 ELSE 0
        /\ bells[r] <= applied[r]
        /\ r \notin edited /\ runs[r].state = "committed" =>
              LET walk == runs[r].walk
                  doc == regs[runs[r].reg].doc IN
              /\ walk # <<>> /\ walk[1] = doc.start
              /\ walk[Len(walk)] \in Terminal(doc)
              /\ \A i \in DOMAIN walk : walk[i] \in Keys(doc)

\* A retired registration keeps no target, two live ones never share a name,
\* and the two readings of who may launch what (the SQL of the action list,
\* the Python of the launch) agree, whatever edits and deletions race.
ActionListsAreLaunchable ==
    /\ \A link \in links : link[1] \in LiveRegs
    /\ \A g \in LiveRegs : ~NameTaken(regs[g].name, {g})
    /\ \A g \in Regs, s \in WpSources :
          g \in visible_workprocesses(s) <=> authorize_workprocess_launch(g, s)
=============================================================================
