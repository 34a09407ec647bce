# Verification of the CBM mentoring application

TLA+ models of the parts of this repository that are hard to get right and hard to test: the job
queue that several workers share, the optimistic-concurrency write path with the forms and windows
on top of it, the server-side sessions and the browser windows that share one, guided runs, engagements
and their sessions, the way into an external CRM that may be down, theming, and the grids with their
views and documents. Paths below are relative to the repository; `src/mentorapp` is the Python server,
`frontend/src` the React client.

## Inventory of the system

| Part | State | Operations | What is hard |
|---|---|---|---|
| Job worker (`automation/worker.py`) | `backgroundJob` rows, bell entries, change-feed entries | enqueue, claim under a lease, run, complete, fail | several processes, row locks, expired leases, crashes, rollbacks |
| Write engine (`api/write_engine.py`, `api/routers/records.py`, `storage/entity.py`) | domain rows with `rowVersion`, `fieldChange` history | create, partial update, restore | a save races other saves, a removal, a restore |
| Conflict resolution and edit form (`api/edit_safety.py`, `forms/edit-form.tsx`) | per window: original, values, rowVersion, loadedRecord, walk-through | open, type, save, retry, merge, cancel, leave | stale saves, async closures, several attempts |
| Sessions (`access/sessions.py`, `routers/auth.py`, `api/deps.py`) | `authSession` row; a copy of it per request | establish, resolve, re-authenticate, force, log out | read-copy-save by parallel requests, two clocks |
| Action tokens (`access/tokens.py`) | `actionToken` row and audit rows | issue, validate, redeem, revoke | the last use redeemed twice, audit after the fact |
| Change feed (`automation/change_feed.py`) | feed entries, a watermark per consumer | read a batch, push, advance | an entry stamped early and committed late |
| Client sessions (`auth/session-boundary.tsx`, `api/envelope.ts`, `api/session.ts`) | stored session, phase and held requests per window, broadcasts | call, hold, re-login, replay, log out | several windows, messages in flight, stale React state |
| Workprocess runs (`automation/workprocess_engine.py`, `routers/workprocess.py`) | registration with a step graph and its sources, run with its answers | register, edit, launch, answer, cancel, commit | the graph changes under a run, racing commits |
| Engagements and sessions (`routers/mentoring.py`, `storage/triage.py`, `access/mentoring.py`, `automation/transcripts.py`) | engagement status, sessions, transcripts, retrieval jobs | lifecycle verbs, staff mail, schedule, enter, attach a transcript | check and write apart, mentor and job at one text, two statements of one figure |
| Artifact and postal jobs (`automation/artifact_jobs.py`, `automation/postal_refresh.py`) | artifact links and the bytes behind them; postal codes | produce, trim; refresh | the store is outside the transaction; a refresh that fails half way |
| CRM outage (`automation/crm_outage.py`) | breaker per process, drafts | attempt, record, preserve, recover | probe timing, what a crash leaves |
| CRM write-through (`api/crm_writes.py`, `crm/write_through.py`) | retry jobs | write now, or defer to the queue | lost answers, what the user is told |
| Creation flow (`api/record_create.py`) | per window: values, offer, override | check, offer, save, continue, restore, leave | the duplicate check and the insert are apart |
| Editor windows (`api/edit_safety.py`, `api/field_edit.py`) | per window: base, dirty fields, save under way | open, type, save, retry, notice, refresh | notices and answers in any order |
| Theming (`routers/theming.py`, `api/theming_surface.py`, `ui/theming.py`, `ui/template_flow.py`, ...) | templates, ordered rules, one type scale, choices, drafts | create, edit, reorder, delete, choose, resolve, paint | a cascade and a two-phase reorder against appends |
| Grid views (`ui/view_authoring.py`, `access/view_enforcement.py`) | views, working copies, last view, data sources | create, save as, apply, promote, delete, author, open | two windows of a user, links to what is gone |
| Grid rows and panel (`routers/grids.py`, `api/list_engine.py`, `ui/grid_panel.py`) | rows, recent searches, panel state, documents | page, count, search, sort, select, export | the table changes between pages, a shared list |
| Administrator messages (`api/messages.py`, `routers/home.py`) | messages, receipts | post, edit, delete, view, acknowledge | overlapping stamps of one receipt |
| Access rules, envelopes, settings, UI controllers, storage models | none beyond one request | pure functions, CRUD | validation rules; covered by unit tests |

The parts meet in four places: every authenticated request goes through `resolve` of the sessions;
the write engine, the worker and the session store share the `rowVersion` check of the ORM
(`version_id_col`: an UPDATE that matches no row raises `StaleDataError`); handlers of every kind run
inside the worker's transaction; and the windows of one browser share a stored session and a
broadcast channel. `PROJECT.json` lists all components with their files, and the hazards by line.

## Plan

In the order of importance:

1. `JobContract`, `JobQueue`, `JobQueueProofs`: the queue, its abstract contract, its proofs. *Done.*
2. `RecordWrites`, `EditForm`: the write path from the form to the row. *Done.*
3. `SessionContract`, `Sessions`: the server-side session. *Done.*
4. `SessionWindows`: several windows over one session: held requests, re-login, broadcasts. *Done*;
   still ahead: that every held call is released in the end, and a person who signs in as another user.
5. The server's other parts: `Workprocess`, `ActionTokens`, `ChangeFeed`, `Engagements`,
   `MentoringSessions`, `Artifacts`, `PostalRefresh`, `CrmOutage`, `CrmWrites`, `RecordCreates`, run by
   `MCServer`. *Done.*
6. The parts behind the screens: `Theming`, `ThemeRender`, `GridViews`, `GridRows`, `GridPanel`,
   `EditorWindows`, `AdminMessages`, run by `MCScreens`. *Done.*
7. Proofs of the server's part: queue, sessions, form and write engine, tokens, feed, engagements and
   their sessions, and the parts of `MCServer`, alone and together. *Done.*
8. Proofs of the windows of a session, and of the parts of `MCScreens`: messages, editors, views, themes,
   rows and panel. *Done.*
9. Still ahead: the liveness that step 4 names; and what a newer CRM write means for an older deferred
   one, a hazard that no property covers yet.

## Modules

**`JobQueue`** models `worker.py` and nothing of the handlers but how they end. `saved` is the
committed table, `draft` the table as a lock holder sees it, `owner` the row locks; every function of
`worker.py` is an action that writes `draft`, `HostCommits` and `Rollback` end a transaction. A
process that calls `claim_next_job` itself may commit between claim and handler, and
`run_worker_pass` may go through several jobs before the commit: both are behaviours of the model.
Deadlines are relative to the present, so that time does not make the state space infinite: `Tick`
moves each one unit closer. A handler ends in one of four ways: it returns, it raises, it raises
`PermanentJobError`, or it raises out of a failed database statement (`HandlerBreaksSession`). Left
out: soft-deleted jobs, job types, payloads, progress and artifacts.

**`JobContract`** is what a client relies on: a job is waiting, then settled once, with its bell and its
event in the same step. `JobQueue!Contract` is the refinement mapping (pending and processing are
both "waiting").

**`RecordWrites`** is the server's side of PATCH and restore for one record with two fields. A request
reads the row (`Receive`), flushes and commits (`Flush`, or `FlushStale` when `version_id_col` finds
another version), and reads the row once more for its answer (`Serialize`, since the commit expires
the loaded row). Both fields are history-tracked; fields that are not only lose their history rows.
Nothing in the repository soft-deletes a domain record, but the engine is written for it, so
`SoftDelete` is an external step. Removed at this level: types, options, formats; a payload that
fails validation is one nondeterministic refusal.

**`EditForm`** extends it with the windows. `form[u]` holds the React state of one mounted form:
`original`, `values`, `rowVersion`, `loaded` (`loadedRecord`), `merge`; and of the async `patch` that
is under way: its call, its `attempt` and `base`, the `loadedRecord` of the render in which Save was
clicked, which is what its retries resolve against. Leaving a form does not stop its `patch`.
`seen` and `basis` are history variables: the last committed value of each field that the form has
shown; and of a save under way, what its form showed, whether it resolves against something else, and
the version it was on, all three as of the click. Retries leave `basis` alone, so a retry that resolves
against another copy than the one the user saw, or loses a value of the payload it prunes, shows.

**`Sessions`** models one `authSession` row. `StoredSessionStore.load` returns a copy and drops the
row, so `save` selects it again: a request is `Load`, `Select`, `Commit`, and the version check
covers only the last two. `POST /auth/reauth` is a resolve and then a re-authentication. Secrets are
numbers in the order in which they are generated. `SessionContract` is the session as if every
request were one step.

**`SessionWindows`** models the client side of such a session: what every window of a browser does with
answers and broadcasts. A window is one JavaScript thread, so the whole reaction to one answer is one
step, replays included; between two steps every other window, the server and the network may act.
`store` is `localStorage`, `window[w].session` the React prop, which is allowed to lag behind it: data
calls read the store, re-login and log out take the prop. `revival` stands for `revivalInFlight` of
`envelope.ts` and the resolver that the mounted boundary keeps for it. A slot of `call` is one request
with its answer; its `from` tells whose promise chain waits, because an answer may arrive after the
boundary that asked has been unmounted, or after the page has gone: a re-login that an unmounted
boundary sent still settles the promise that boundary left (`Whose`, "orphan"). A window sends one
re-login at a time (the button is busy). The server is taken as
`SessionContract` states it, one step per request. Left out: the loading of the auth screens, which
only delays, and the surfaces behind the overlay but for the calls they make.

All modules below share one shape, that of `Requests`: a slot of `Slots` is a request (or a job that a
worker has claimed) with a database session of its own. It reads and decides in one step and writes in
a later one, which either lands, when the rows still have the versions it has read and the unique
indexes allow its inserts, or ends in an error that rolls everything back. Where a part commits twice,
or calls a store, a mail server or a CRM between two commits, that is a step of its own, and the process
may end before it.

**`Workprocess`**: registrations (name, step graph, contract, data sources), the roles that cover a
source, and one run that is launched, answered, cancelled and committed. `walk` is the order in which
the steps were answered; `edited` remembers that the graph was changed under a run.

**`ActionTokens`**: one token. `SaveSelect` reads the row again and writes the whole copy over it, as in
`Sessions`; the audit row is a second commit.

**`ChangeFeed`**: entries are stamped at the flush and become visible at the commit; the consumer reads
batches after its watermark and advances it after each accepted push.

**`Engagements`** and **`MentoringSessions`** (which extends it): the status of one engagement with the five
lifecycle verbs, the staff's own writes and the templated mail; its sessions with meeting, invitation,
patch, pasted and retrieved transcripts, the retrieval job, and the two readings of the same figures. A
verb checks the caller's scope when it reads and commits later (`by` is the caller); a crash gives a
claimed retrieval job back without counting an attempt, since only `fail_job` counts.
`MENTOR_DATA_SOURCES` and what follows it are the granted, user-scoped sources the mentor's areas show.
The generic `/records` routes are not scoped (see below); of them the model has the staff's PATCH of
the engagement, and leaves out that POST and PATCH of a session may set its meeting and its engagement.
A text is the sequence of its parts; summaries and drafts of them are values.

**`Artifacts`**: the row of a job, the bytes in the store, the trim that discards bytes before its commit.
**`PostalRefresh`**: a refresh reads the live codes and writes the changed, new and retired ones at once;
`RefreshLands` is what the live-unique index makes of it.

**`CrmOutage`**: a breaker per worker process, one author's draft, and the calls that decide on both. The
draft store is a provider that the application has to supply (`routers/outage.py` fails without one);
the only one in the repository is in memory. So `home` is either `Durable` or one process, and in the
second case the draft ends with that process. The drafts another process holds in its own memory are
not modelled. Faults that are no outage propagate and leave the breaker alone (`ReadRefused`,
`SubmitRefused`). **`CrmWrites`**: a change that is applied, refused, redirected or deferred to a retry
job, with answers that get lost.

**`RecordCreates`**: `CreateFlow` in several windows over `create_record`, whose check (`PostChecked`) and
commit are two steps, and `partial_update`, which changes the fields duplicates are found by and checks
nothing. `sinceCheck` remembers per record what its check could not see: which records came to life or
took their values later, and every record once its own values were edited.

**`EditorWindows`**: windows of one user on one record. A value is the version that wrote it, so "what a
window shows is out of date" is a comparison of numbers. What a window shows is kept per field (`seen`),
and so is what its save carries (`payload`, pruned of what the others saved alike before each retry).
The walk-through hands over the fields that overlap and no other, none when the retries ran out
(`edit_safety.py:157-169`); the rest keeps what it showed while the base moves on, and is `drifted`.
`ownSave` and the notices stand for the broadcast.

**`Theming`** and **`ThemeRender`** (which extends it): the stored templates, rules, scale and choices with
every verb of the router; and what the screens make of them: the effective theme, the first matching
rule of each target, the bands, the draft that is edited and handed over. A colour is light, dark or not
hexadecimal. Large print is in the code twice: `lg` in `ui/theming.py`, `xl` in `template_manager.py`.

**`GridViews`**: views with their owner, their fields and the temporary flag; what a grid opens and
where a link leads. `load_live_view` asks only whether a view lives, so that anyone may copy, remember
and, as an administrator, promote anybody's view; ownership is checked where a view is written, and
`restore_last_used_view` checks what it opens. **`GridRows`**: windows that scroll through a table page
after page while records are written. **`GridPanel`** (which extends it): sort, search and selection, and the documents. Column filters are
left out: no column offers one (`panels.py:265`, `grid-panel.tsx:545`).

**`AdminMessages`**: messages and receipts. Home, banner and acknowledgment stamp in one commit; the
answer reads the messages again. The audit answers for a live message that asks for acknowledgment
(`messages.py:174-176`). The branch that publishes an existing message again (`messages.py:82-92`) is
left out: the router always posts under a new key.

**`MCServer`** and **`MCScreens`** instantiate these modules together. They share no rows, so an instance
picks its part (`focus`) at the start and only that part moves: the product of parts that do not
interact would only be larger. Parts that do interact are composed: `MentoringSessions` moves the
engagement and its sessions, `GridPanel` the panel and the rows, `ThemeRender` the drafts and the store.

## Runs

| Run | Specification and bounds | Shows |
|---|---|---|
| `JobQueueSafety` | `Spec`; two workers, two jobs (one of a user, one of the system), two attempts; at most two faults out of a crash, a broken session, an overrun lease, a late start | `BellMatchesRow`, `OneEventPerSettledJob`, `NoDoubleClaim`, `StartsBounded`, `SettledIsFinal` |
| `JobQueueLive` | `FairSpec`; the same with one fault and no late start | `JobsSettle`; `KeepsContract`, the refinement of `JobContract` with its fairness |
| `JobQueuePoison` | `Spec`, broken sessions only | finds `ParkedAfterMaxAttempts` violated |
| `EditForm` | `Spec`; two forms, two calls, two fields, three values, three moves (edits, restores, broken connections, refusals) | `HistoryChains`, `RemovedStaysRemoved`, `OverwritesOnlySeen`, `SavedWhatWasClicked` |
| `EditFormSilent` | `Spec`; one call at a time, four moves | finds `NeverOverwritesUnseen` violated |
| `Sessions` | `Spec`; two overlapping requests, three secrets, timeouts of two, three and one ticks, at most one lost update | `CustodyEnds`, `NoAccessAfterLogout`, `NewestReferenceWorks`, `KeepsContract` |
| `SessionsUndone` | the same, with calls and logouts only | finds `EndedStaysEnded` violated |
| `SessionWindows` | `Spec`; two windows with a data call each, one session, one expiry, two faults (failed calls, reloads) | `HeldBehindPrompt`, `StoreIsCurrent` |
| `SessionWindowsOrphan` | `Spec`; one window with two data calls, two sessions, two expiries, no faults | finds `ExpiryIsPrompted` violated |
| `Server` | `MCServer!Spec`; two overlapping requests; one run over two registrations of at most two writes each, a token of two uses, three feed entries in batches of two, one engagement with two sessions, an export and a print, two postal codes and two refreshes, a breaker of two failures, two CRM writes of two tries, two create windows with two records | `CommitsWholeWalks`, `ActionListsAreLaunchable`, `UsesAreAccountedFor`, `WatermarkLosesNothing`, `FlipsFollowTheLifecycle`, `ScopeIsKept`, `RetrievalIsNotLost`, `TranscriptOnlyGrows`, `ArtifactsAreReclaimed`, `SnapshotIsApplied`, `CrmWorkIsAccountedFor`, `DuplicatesAreDecided` |
| `Screens` | `MCScreens!Spec`; two overlapping requests or windows; two templates with three rules and one more, four requests that change rules and their order and three of every other kind, three views of two users, three rows in pages of two with equal and missing sort values, two record windows and a field window over two fields, one message of two ticks | `StoredThemesRender`, `ViewsStayTheirOwners`, `GridShowsItsTable`, `EditsMeetTheirConflicts`, `ConsentStands` |
| `GridExports` | `MCScreens!Spec` | finds `ExportsCoverTheirScope` violated |

*Why the bounds suffice.* Two workers and two jobs are the least at which a worker can lose one job to
another while it works at a second; two faults allow a crash during the recovery from another fault.
Two forms and four versions allow a save that is overtaken, retried and overtaken again
(`AutoRetryLimit` is 1 in the runs, so the fall into the walk-through by attempts happens, too). Two
requests with one lost update reach every pair of overlapping operations; the four ticks let a
session expire, lapse and age out. Two windows are the least that have a sibling; one expiry is enough
for both to hold a call, to re-login with the same reference, and to overtake each other's broadcasts.
The hazards of the server and the screens are races of two requests, so two slots reach them; the
bounds on writes are what a racing pair needs plus one (a row is created, changed by one request and
changed or removed by the other). Three feed entries in batches of two allow an entry to be committed
behind a watermark that has moved on; two people, two edits or removals of them and two windows allow a
record to be edited into a match on either side of a check; three rows in pages of two give a second
page, whose cursor may be overtaken; three seeded rules and one more leave gaps in the order for an append to hit; two pieces
of a transcript are one pasted and one retrieved. What the bounds leave out: more than two versions of the
remembered searches (so the cut at `RECENT_SEARCH_LIMIT` does not bite), three requests at one row, and
graphs of more than two steps.

*Deadlock.* The queue never deadlocks (time always passes) and is checked for it. The other
runs switch the check off: people may close every window, stay signed out or ask for nothing more, and
the bounds on versions, requests and sessions stop the rest.

*Fairness.* `JobQueue!Fairness` says that the hosting scheduler keeps calling `run_worker_pass` and
commits after each pass, that handlers end and that time passes. No fault and no request is
forced. The other modules state no fairness and no liveness: nothing makes a person act, and a
request that is never served breaks none of their properties.

*Provisos.* Some properties are conditional, and the condition is part of what the code promises:
the queue's row properties need `lateStarts = 0` (no lease runs out between claim and handler start,
which takes a host that commits in between and then stalls for the length of the lease);
`OverwritesOnlySeen` excludes saves whose form, at the click, resolved against a copy it did not show
(`drifted`); and the session properties on logout and references hold while no save has overwritten a
newer row (`lostUpdates = 0`). The violation runs show that the last two provisos are needed.
`StoreIsCurrent` excludes a re-login whose answer was lost: nothing can bring its reference back.
`HeldBehindPrompt` is checked with `MaxAbandoned = 0`, without the step that `SessionWindowsOrphan`
is about; that run shows what the step leads to.

The newer modules say their exceptions in the property itself, with a history variable that records
the step in question: a save over a newer row (`ActionTokens!overwrote`), an entry committed after a
later one was read (`ChangeFeed!late`), a graph edited under a run (`Workprocess!edited`), overlapping
refreshes, first applications of a view and submissions of a draft (`overlapped`, `crossed`), rules
appended while their template is deleted (`Theming!late`), trims that were rolled back (`unwound`), records
that came to life after a check (`sinceCheck`), a base that moved under unsaved edits (`moved`). Each of
them is a real behaviour of the code; without its exception TLC finds the property violated.

## What the violation runs show

- `JobQueuePoison`: a handler that raises out of a failed statement leaves the session unusable, so
  `fail_job` raises as well, and the rollback takes the attempt with it. Such a job has no backoff, is
  never parked, and is started for ever.
- `EditFormSilent`: after a walk-through, fields it did not list still show the older copy, while the
  form compares with the newer one. Whoever edits such a field next replaces a value unseen. The Python
  editors hand over the same list (`api/edit_safety.py:157-169`), so they have the same gap; it is what
  `drifted` excepts in `EditsMeetTheirConflicts`.
- `SessionWindowsOrphan`: somebody logs out from the header; before the answer arrives, a call of the
  same window is refused with `reauthRequired` and held. The answer unmounts the boundary without
  settling the promise. If the window's own broadcast does not come in first, and no re-login was under
  way whose answer settles it after all, `revivalInFlight` stays set until the page is reloaded, and
  after the next sign-in calls are held with no prompt to release them. With `MaxAbandoned = 0` the
  property holds in the same run.
- `SessionsUndone`: a logout is undone by the activity touch of a request that was loaded before it.
- `GridExports`: an export or print job carries the scope, the search and the sort of the panel, and its
  handler selects every row of the entity's read view.

Things met while modelling that no property states: a window that shows no prompt when a sibling
re-logs in keeps its old `session` prop, so its next re-login is refused and its log out ends nothing
on the server; a call that was sent before the re-login and is served after it is answered
`unauthenticated`, and the window shows the ended screen although the session lives; a late
`reauthRequired` brings an ended window back to the prompt; leaving an ended window clears the stored
session of its siblings.

And on the server and in the grids:

- Two redemptions of the last use of a token may both be granted, and a revocation may be overwritten
  by a redemption that was loaded before it (`access/tokens.py:178-194`, `266-278`).
- An entry of the change feed that commits after a later one has been read is never pushed
  (`automation/change_feed.py:88-99`), although `sync_change_feed` "never loses entries".
- A run whose graph is edited may be committed from a step that is not terminal in the graph it is
  committed over; the docstrings of `answer_step` and `commit_run` say it ends at a terminal one.
- A postal refresh that revives a code it has retired, or names one twice, may be refused by the
  live-unique index of its own rows, depending on the order in which the rows are flushed.
- A session whose retrieval job has parked or succeeded without a text still says `expected`
  (`routers/mentoring.py:593-604`).
- `template_create_payload` (`ui/template_manager.py:189-207`) sends `templateType`, which
  `TemplateCreateBody` refuses.
- `PUT .../rules/order` writes only the rules it moves. After a deletion has left a gap in the order, a reorder
  reads the list, a rule is appended, a second reorder that overlaps the first one lands, and the first
  one then finds a position taken: nothing catches what the unique index raises, so the request is a 500
  (`routers/theming.py:815-835`).
- A view keeps fields that its data source has since stopped exposing.
- Keyset pages never reach records without a value in the sort field beyond the first page, and a
  view sorted by its identifier cannot encode its cursor (`routers/grids.py:279`, `api/list_engine.py:118`).
- Parallel first searches, first views of the home page and saves of one session's activity end in a
  database error that no handler maps, so the request is answered 500.
- `GET /home` marks every message read before it renders them; one that is deleted in between makes the
  answer a 500, and the others stay read without having been shown (`routers/home.py:280`).
- `begin_edit` in a dirty window moves its base (`api/edit_safety.py:307`), so that a later save passes the
  version check over values the user has not seen.
- `frontend/src/forms/create-form.tsx` keeps an enforced duplicate offer while the values change, where
  `record_create.py:287-294` drops it; an answer that comes in after typing arms the override for values
  that were never checked.
- The per-field window of the frontend retries a stale save without the limit of `AUTO_RETRY_LIMIT`;
  typing during a save of the edit form is replaced by the answer's rebase; and the deferred CRM write
  of a record may land after a newer synchronous one.
- `lookup-control.tsx` lets an older answer overwrite a newer one; `lookup_suggestions.py:166-191` counts
  and reads in two statements, and a record removed in between is a `ValueError`.

## Proofs

Every theorem is for all values of the constants that satisfy the assumptions named in the modules.
`PROJECT.json` lists them with what each establishes. Each rests on an inductive invariant, which TLC
checked on a small instance before it was proved; almost none of the properties is inductive as it
stands, because it speaks of committed rows while what endangers it is in the hands of a request.

One idea carries most of the invariants, and it is the idea of the code (`version_id_col`): *what a
request has read is worth something as long as the row still has the version it read*. So each
invariant says, of every request under way: its copy has a version not above the row's; if the two are
equal, the copy says of the row what the verb checked; and two requests whose writes are not fenced by
a version (inserts, claims) are about different rows.

**`JobQueueProofs`**, three invariants:

- `SafetyInv` for `BellMatchesRow`, `OneEventPerSettledJob`, `NoDoubleClaim` and `SettledIsFinal`.
  `LockInv`: a row that nobody locks has equal copies in `saved` and `draft`; a locked one was not
  settled when it was locked, and its draft is of a later version. `RowInv`: bell and event agree with
  the status in *both* copies, so that a commit at any moment publishes a consistent row. `HoldInv`: the
  version a worker has loaded is never ahead of the row's; if they are equal, the row is `processing`;
  and until the worker's lease has run out nobody else has touched the row. `FenceInv`: two workers at
  one job have loaded different versions, so at most one of them passes `Fresh`. Versions only grow, so a
  worker that has been overtaken can never settle the job.
- `StartsInv` for `StartsBounded`, which holds even when leases run out before the start. `CountOK` is a
  ledger: starts plus claims that may still start plus one for a lease nobody can settle are paid for by
  the attempts the row has counted, by one for a live lease or a completion, and by `MaxAttempts` for
  each fault so far. `OwnInv` and `StandInv` say what a rollback can forget; `RoomInv` that an open row
  has attempts left.
- `ContractImplemented`: with no late start, every commit is one `Settle` of `JobContract` (for the set of
  rows it makes terminal), an enqueueing is its `Enqueue`, and no other step is visible to a client. This
  is `KeepsContract` but for its fairness.

`PowersAreNumbers` states that the powers of two up to 2^20 are numbers, which the provers do not
know; TLC evaluates it. `Workers` is finite, for the counting.

**`SessionProofs`** proves the invariants of the session row and `KeepsContract`, the refinement of
`SessionContract` (an action property, so all of it). `CopyInv` is the idea above; `SecretInv` adds that no
secret is known that was not minted, `LogoutInv` that what was loaded after a logout is refused.

**`EditFormProofs`** proves type correctness, `HistoryChains` and the three action properties of form and
write engine together. A row in anybody's hands (the answer of a call, the form's `loadedRecord`, the basis
of a retry) *was* the record at its version (`Claim`, `CopyOK`, `CallOK`, `FormOK`). A version that is still
the record's therefore makes the copy the record, which is what `OverwritesOnlySeen` needs of the
resolver. `WaitOK` is the loop invariant of the retries: the base they resolve against is the one of the
click, and each value that was clicked is still in the payload or has been the record's at or after the
version of the click (`HeldSince`), which no later write takes away (`HeldGrows`). From it follows
`SavedWhatWasClicked`.

**`WindowProofs`** is about any number of windows, calls and sessions. `RefsOK`: whatever reference a window,
the store or a request has was given out by the server. `Fresh`: what an answer brings is used by
nobody else, and no other answer brings it, so references are used one after the other in the order in
which they were given out; with it `StoreIsCurrent` is inductive. `PromptOK`: a window's boundary waits
for a re-login exactly while it shows the prompt, and some held call with it. A log out from the header
under a held call breaks that for good, so `PromptOK` is claimed as long as there was none
(`abandoned = 0`): `HeldHasPrompt` says this of every behaviour, `HeldBehindPromptHolds` and
`ExpiryPrompted` of the behaviours of `MaxAbandoned = 0`. `SessionWindowsOrphan` shows that the condition
is needed.

**`ChangeFeedProofs`**: `Behind(mark, set)`, every visible entry at or before the mark is in the set, holds for the
durable watermark, and for the consumer's own mark and batch while it is at work; it rests on lemmas about
the order of watermarks and about the least elements of a finite set. `BatchSize` and the clock's bound are
at least 1: `DEFAULT_BATCH_SIZE` is, and a batch of nothing would never advance.

**`MentoringProofs`**: `EngIInv` for the lifecycle (a flip under way either lapses or starts from the row's
status) and `MsIInv` for the sessions, over every step of both. `ReadsAgree` needs no invariant beyond the types:
it compares two readings of one state, the rollup as a fold in Python and the triage row as SQL
aggregates, through lemmas about the greatest and least element of a finite set and about cardinalities.
`MSessions` is finite: a table is.

**`ServerProofs`** is about the specification of `MCServer`, in which the parts share the request slots: an
invariant of one part is shown for its own steps and for those of every other part, which leave its
variables alone. Its invariants are `OutIInv` and `CwIInv` (outage and write-through), `WpIInv`
(workprocess), `ArtIInv` (artifacts), `PostalIInv`, `CreateIInv` and `TokenIInv`. The last says of a token that the
trail counts its redemptions, and that a copy at the row's version is the row, as long as no copy was
saved over a newer one (`UsesHold`, `CopiesHold`). Two of them hold a surprise:
`WalkOK` has to say of *every* open run that it stands on a declared step reached from the start, since a
commit only looks at the last one; and `ArtRequestOK` that a trim's rows are dead exactly if their
version moved, since that is what lets two trims of one job land at most once. A step graph's
keys are strings in `step_graph_valid`, as they are in the code, so that the reserved key is none of them.
`PartsAreSafe` and `TranscriptsAreKept` carry what `ChangeFeedProofs` and `MentoringProofs` show of their parts
over to the whole server, and `TypeCorrect` is its type invariant, for which `WpRest`, `OutRest` and
`CreateRest` add the bounds that the runs keep. A version is any natural number; the clock of the
outage has at least one tick.

**`ScreenProofs`** does the same over `MCScreens`: `MsgIInv` for `ConsentStands` (a copy of a receipt that is not
stale is the receipt, and a receipt keeps the stamp of its first acknowledgment) and `EdIInv` for
`EditsMeetTheirConflicts` (`EditOK`: a field that has changed since its user saw it has changed after the
base, so the next save meets it, but for fields a save has pruned and fields that drifted; `HeardOK`: a
clean window is current, is reloading, or has a notice to come). For
`ViewsStayTheirOwners` the invariant `VwIInv` says what the rows are worth that a call has flushed and not yet
committed: as long as its view still has the version that was read, a row keeps the view's owner and
kind, that owner is the caller, and only a save of a working copy's own fields removes one (`ViewRowOK`,
`SavesCopy`); a user whose first
applications never overlapped has at most one working copy, and none while the first application is under way
(`OneCopy`); and what a user applied last and has not saved is in a live copy (`CopyKept`). The oldest system
view, and the next free identifier, are least elements of a set of numbers: `OldestExists` has them from the
well-foundedness of strict inclusion, since `ViewIDs` need not be finite.

The themes (`ThIInv`, `DraftsFit`) rest on what an append and a reorder are worth while they are under way,
which `RuleListHoldsTogether` describes from outside. An append that is alone will be the last of its list
(`AppendOK`). A reorder whose rules are as it read them moves live rules of its template to positions of
which none is past all of theirs, and if it is alone no other rule has one of its positions
(`ReorderOK`): deletions may leave gaps, but a gap is below some rule that moves, so the append cannot
have filled it. That the positions are free when the reorder is read is a pigeonhole argument over its
whole list. `StoredThemesRender` then follows without induction over data: the fold that gives each target
its first matching rule is followed over *sets of positions*, and a set at which it would go wrong
is taken minimal in the well-founded order of strict inclusion; the order in which rules are served
is a bijection onto ranks.

The grid rests on `GrIInv`. A row is settled for a scroll if no write touched it since the scroll
began and it has a sort value. `ServedOK`: the cursor splits the settled rows into those served once, in
order, and those beyond it. `PageOK`: the page that was read holds exactly the settled rows between the cursor
and the next one, so that the answer extends the first half by the page, and the count beside it, taken
in another request, counts them all. `SaveOK` says of a list of searches that is under way that it is the
one to follow the list it has read, `RecallOK` that the stored one is the newest of what ran, newest
first, cut at any `RECENT_SEARCH_LIMIT`. `PnIInv` is the panel's: a sort that was clicked is marked as a
modification, and a column sorts at one position. `PagesCover`, `RecallLists` and the panel's invariant
make `GridShowsItsTable`.

`TypeCorrect` of this module is the type invariant of all parts; beyond their invariants it needs that the
clock of the messages keeps its bound (`MsgBounds`) and that a source exposes fields of `VFields`, which
`GridViewsAssumption` says of the drafts.

For these proofs `GridRows` writes two things by their meaning: the rows of a page are the least in the
sort (`FirstRows`), where the database sorts and limits, and the other searches are kept by a fold
(`Others`), where the code filters a list; the sorting and selecting operators of the community
modules are recursive, and the prover cannot expand them. `GridPanelAssumption` says that there is a view
to start with and a text that runs no search.

Only model-checked:

- liveness (`JobsSettle`) and the fairness half of `KeepsContract` of the queue, since fairness
  needs `ENABLED`, which the prover does not support;
- that the violation runs violate: a theorem says nothing of a behaviour that exists.

Every other property of the passing runs is stated by a theorem; `HeldBehindPrompt` and the properties
under *Provisos* under the condition named there.

## Not modelled

What `PROJECT.json` marks `not_modelled`, with its reason: parts whose state lives for one request or
one window (sign-in, navigation, help, lookups, envelopes, settings of one user, form keyboard and
entry editors), conversions of one value, the schema and its migrations, and the React screens but
for the edit form and the session boundary. The external systems (CRM, mail, conferencing, artifact
store, the queue's host) are taken as what the code sees of them: an answer, a refusal, an answer that
never comes. Within the modelled parts, texts, colours, formats, names and payloads are members of
small sets; `PROJECT.json` says per part what was left out.
