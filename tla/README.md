# Unitae: a verification project

TLA+ models of the parts of Unitae in which order, time and concurrency decide
whether the program is right, the TLC configurations that check them, and proofs
of their main invariants. Every definition is translated from the source;
`PROJECT.json` ("map") names the lines each one stands for.

## Inventory

Unitae is a multi-tenant web application (React Router loaders and actions,
Prisma over PostgreSQL with row-level security, BullMQ workers over Redis). A
request runs in one transaction (`withScope`, `app/shared/infra/db.server.ts`) at
PostgreSQL's default isolation, READ COMMITTED; few requests lock what they read.
Workers run daily jobs and drain queues. What the components keep and do:

| component | state | operations | what is hard | what makes it correct | here |
|---|---|---|---|---|---|
| campaigns and attributions (`features/territories`) | `Campaign`, `CampaignTerritory`, `Attribution` | assign, edit, return, resume, delete; create/edit/end/delete a campaign; the daily lifecycle sweep | bulk transitions that touch rows of other actors, two campaigns in a row, scopes that change, edits of dates, concurrent requests | one campaign at a time; layers never overlap; a campaign touches only what it paused; an end cleans up; nobody comes back late | modelled; as concurrent transactions, partly |
| notifications | `NotificationEvent`, BullMQ email queue | notify (instant, debounced, cancelling), flush, digest delivery, cleanup | debounce against flush, enqueue before commit, at-least-once delivery | what is cancelled is not mailed; what is pending is answered in the end; status and mails agree | modelled |
| events | `Event`, `EventPart`, `EventServicePart`, `DayOff` | assign, release, unrelease, add or delete a day off, move, refresh conflict flags | an assignment reads what another one changes; notifications after the commit | nothing with a conflict is public; the assigned are told, and only they | partly |
| members | `Member`, `PioneerEnrolment`, `PublisherActivity`, `Group` | left, returned, identity, publisher, enrol, close, remove, report, inactive | stints over months, the roles that follow, the inactive streak | stints never share a month; the roles are what flags and stints imply; the streak is what the rule says | partly |
| roles and organigram | `Role` (tree), `MemberRoleAssignment` | add, create, move, remove, delete, adopt the committee; seat | cycles, depth and dangling roles under concurrent edits | a forest of bounded depth under the rosters; the committee keeps its place | partly |
| event templates, cadence | templates, `EventPart.order` | apply, reorder | orders under an advisory lock | an order without gaps | no |
| authentication | tokens, sessions, Redis counters | reset, verify, second factor, login | tokens used once, counters with a time to live | one use per token | no |
| display board | documents, versions, sections, files, thumbnail queue | upload, replace, restore, delete one or many, draw a thumbnail; reorder, expire | rows and files in two stores without a common transaction, late thumbnail jobs, advisory locks | a row names files that are there, the last version is the current file, the author stays, a thumbnail is of its document | partly |
| settings, data transfer, retention | all tables | export, import, anonymise | partial imports | what is imported keeps the invariants of its tables | no |
| geography, prospection, statistics, exports, pages, infrastructure | - | queries, I/O | - | - | no |

They interact through the database (a member who leaves returns his territories;
an assignment writes a notification event; a stint changes a role), through the
queues (a flush fills the email queue) and by direct calls inside one transaction
(a campaign save runs the sweep). `PROJECT.json` lists each component with its
sources and status, and under "hazards" what is hard to test, at the line where it
bites.

## Modules

| module | what it is |
|---|---|
| `TerritoryCampaigns` | the campaign lifecycle and the attributions of one congregation: one action per request, a sweep cut at its campaigns |
| `TerritoryCustody` | abstract: what a publisher is promised about each attribution |
| `CampaignTransactions` | the same requests as concurrent transactions, one action per statement |
| `NotificationPipeline` | from `notify()` to the mail: rows, flushes, jobs, faults |
| `NotificationPromises` | abstract: what a notification promises |
| `EventRelease` | one programme event: assignments, absences, release, and who is told |
| `Organigram` | the organisation chart: a tree edited by overlapping requests |
| `PioneerStints` | one member: stints, flags and the identity roles stored for them |
| `BoardFiles` | the documents of the display board: rows, versions, files and thumbnail jobs |
| `InactiveStreak` | the reports of one publisher, the walk over them that every write starts, the flag it sets, and the rule it must meet |
| `StintBackfill` | the stints an import derives from the reports of a member |
| `TerritoryCampaignsProofs`, `CampaignTransactionsProofs`, `NotificationPipelineProofs`, `EventReleaseProofs`, `OrganigramProofs`, `BoardFilesProofs`, `PioneerStintsProofs`, `MemberReportsProofs` | the inductive invariants and the theorems |
| `MC...` | instances for TLC |

### TerritoryCampaigns

State: `today`, the calendar in days; `territory`, the territories that exist;
`campaign[c]` and `attribution[a]`, the rows of the tables, `None` where there is
none; `phase`, where a sweep is. A campaign row holds its window, options, scope
and the stamps `activated` and `ended` (`activatedAt`, `endedAt`); its status is
derived from the stamps as in `getCampaignStatus`. An attribution row holds the
publisher, the territory, its dates, its due date, its layer (`campaignId`, `None`
for regular work) and its pause (`pausedAt`, `pausedByCampaignId`).

Actions are the requests: `CreateCampaign`, `EditCampaign`, `EndCampaignByHand`,
`DeleteCampaign`, `Assign`, `UpdateAttribution`, `ResumeAttribution`,
`ReturnAllOf` (a member who leaves), `DeleteAttribution`, `DeleteTerritory`,
`CreateTerritory`, `NextDay` and the sweep: `Sweep` begins it, `SweepActivate` and
`SweepEnd` are one campaign each, `SweepTurn` is the query between the halves,
`SweepCommit` ends it. The helpers have the names of the source
(`pauseOpenRegulars`, `resumePausedBy`, `closePausedBy`, `reassignIntoCampaign`,
`applyScopeChange`). The re-assignment of the paused rows follows some order of
the rows; the result of every order is allowed.

Abstractions: an instant is its day; notes, names, methods and rest periods are
left out; the duration of a loan is one constant; audit entries are left out.

### TerritoryCustody

For each attribution: absent, held, returned, or suspended by a campaign; for each
campaign: new, on, over. What was returned stays returned, only a campaign that is
on suspends, and a suspended row is held again through a manager or through the
campaign that suspended it, never through another one. `CustodyKept` is the
refinement, with the mapping in `TerritoryCampaigns`.

### CampaignTransactions

`tx[x]` is where transaction `x` is and what it remembers (campaign objects, ids,
the row to insert); `campaignW[x]` and `attributionW[x]` are the rows it wrote and
holds locked. A statement reads the committed tables under its own writes; a write
waits for the lock and applies its columns to the version found then; foreign keys
hold off deletions; `Commit` publishes, `Rollback` (also the deadlock victim, the
timeout, the lost connection) forgets. What matters is what the code reads early
and uses late: the list of due campaigns, the campaign object of the edit route,
the ids of `pauseOpenRegulars`, the checks of `assign`, the count of
`deleteCampaign`. The options are the defaults (Pause, auto-close, Resume); dates
of attributions are left out; a request does not run over midnight; an edit
changes the scope only.

### NotificationPipeline

`event[r]` is a row of `NotificationEvent`; `tx[x]` is a caller of `notify()`, cut at
its statements: `Begin` chooses the rows of the `updateMany`, `Cancel` waits for their
locks and looks at them again, `Push` adds the instant job, `Commit` shows the new
row. `cron[y]` is one run of `flushSettledNotifications` (`Select` with FOR UPDATE SKIP
LOCKED, `Enqueue` one digest at a time, `FlushCommit`), and `job[j]` the e-mail queue
with its attempts (`Take`, `SendEvent` one event of a digest, `Finish` the marks of
the failed ones, `Suppress` for a suspended congregation). `Settle` is the debounce
delay, `Cleanup` the retention of old rows.

Faults: a caller rolls back (`Rollback`), a flush aborts after any of its jobs is in
Redis (`FlushAbort`), the queue refuses a job (`PushFails`), a handler throws and
BullMQ retries (`Throws`), a worker dies and its job is given out once more
(`Stall`). `MaxFaults` bounds them. A mail that is refused, or goes to a member who
does not want it, is not a fault: it is an outcome of `SendEvent`.

`Guarded` are the callers that lock the row of the entity before they notify, as the
assignment and the document routes do. `handed`, `orphan`, `skipped` and `mails` are
history. What a template says, who the recipients are, and the preferences are left
out.

`NotificationPromises` is the promise row by row: absent, waiting, then withdrawn or
handed over, once, and only what was handed over is mailed. A row that a flush which
rolled back had queued counts as handed over: its job cannot be taken back.

### EventRelease

`event` is the status and the day; `part[p]` who is on a part and its `hasConflict`;
`absent` the days off; `notice` the pending "assigned" rows and what each member was
mailed last; `tx[x]` the request of a connection. An assignment is cut where the code
waits: it reads the status of the event (`BeginAssign`), gets the lock of its part and
reads who is on it (`LockPart`), looks for absences (`CheckParticipants`) and saves and
notifies slot by slot (`SavePart`). A release reads the flags (`BeginRelease`), writes
the status (`Publish`) and, after its commit, sends one notification at a time
(`Fire`, or `FireFails`). `BeginUnrelease`/`Retract`, `BeginAbsence`/`SaveAbsence`
(a day off that comes or goes, with the flags it refreshes), `MoveEvent` and `Mail`
are the others. What `notify()` does inside is `NotificationPipeline`; here it is one
step.

Any request overlaps any other; only the lock of a part makes one wait. What the code
does not keep under overlap is recorded at the step that causes it, in history that no
action reads. `stale`, in a request, are the parts of which it has an outdated picture:
somebody changed the cast, the day or an absence between its read and its write.
`unchecked` are the parts whose flag was computed from such a picture, or whose event was
moved, until the flag is computed anew. `untold` are the assignments that nobody will
announce: the notification failed, the assignment had read a draft and was saved after the
read or the commit of a release, or the old slot cancelled the mail of the new one.
`stray` are the mails on their way to somebody who has left, or for a draft: a release had
him on its list, or a request read another status than it wrote under. The properties hold
of everybody and everything else. Adding and deleting parts and events is left out.

### Organigram

`roles` are the roles that exist, `shown` those on the chart, `parent` their
`parentRoleId`. A request reads the tree and is accepted (`BeginAdd`, `BeginCreate`,
`BeginMove`, `BeginRemove`, `BeginAdopt`, with the guards of `assertCanSetParent` in
`MayHang`), and writes later (`Save`, or `Fail` when a row or a key it needs is gone):
nothing locks the tree in between. `Delete` is the deletion of a role; `CreateOnly` is
the service whose attachment is refused, which the route reports while the creation
commits. A transaction of several statements is saved at once.

`stale` marks a request that was decided on a chart that has changed since; requests
overlap without limit, race upon race. `past` remembers what a promise of the chart depends
on (`Events`): a write decided on a chart that had changed (`race`); a role hung under one
that is off the chart, which the policy accepts of one request after the other, too
(`offchart`); the committee adopted in the place of the elders (`elders`), or with a branch
that hung under what it replaced or under the committee (`branch`); and a roster that left or was missing when the
committee came (`rosterless`). Each property names those it excuses, and no other.
`Sources` are the roles an adoption may replace: any but the appointed, rosters included, as
the form offers. Seats, permissions and the order of siblings are left out.

### BoardFiles

`doc[d]` and `version` are the committed `BoardDocument` and `BoardDocumentVersion` rows,
`file` the keys under which the store has a file, `uploaded` the keys that were ever given
to a PDF, `job[j]` the thumbnail queue, `work[x]` the request of a connection: where it is,
the file that becomes current, the number of its version and the files it is going to
delete. Rows change at `Commit`; what is done to files and to the queue is done at once and
stays done after a `Rollback`.

A request begins by saving its file (`Create`, `Replace`) or by reading the version and the
row (`Restore`); the last number is read (`ReadNumber`), the version inserted
(`InsertVersion`), the row updated (`UpdateDocument`), the files of the row that was read at
first are deleted (`CleanUp`) and the job is queued (`Enqueue`). `SweepVersions` and
`DeleteRow` are the deletion of one document, whose version files go first; `BulkDelete` and
`DeleteRows` that of many. A worker draws (`Draw`), updates the row (`Show`, which waits for
its lock), skips (`Skip`) or throws (`Throws`); it draws each attempt under a new key.

History: `overlapped` are the documents with two uploads or restores at once; `lost` those
whose files were deleted by a request that rolled back, or restored without their file;
`smudged` those with a job queued while another one was alive, or by a request that rolled
back. Left out: titles, sections, visibility, dynamic documents. The files one request
deletes go in one step, and a `deleteFile` that fails (the code logs it) leaves only a file
that no row names. That `uploadedBy` becomes null with its account is left out.

### PioneerStints, InactiveStreak and StintBackfill

`stint[s]` are the `PioneerEnrolment` rows of one member, `member` the flags of his row,
`roles` the stored identity roles. A request decides (its checks: `Enrol...`, `Close`,
`CloseAuxiliaries`, `Remove`, `MarkLeft`, `MarkReturned`, `TogglePublisher`,
`UpdateIdentity`), writes, holds its rows locked and derives the roles from what it sees
(`Write`), compares them with the stored ones (`Compare`) and is saved (`Save`), or
rolls back (`Fail`). `UpdateIdentity` reads the row first (`before`) and syncs when the row
its update returns differs from it (`Syncs`): after another request has changed a flag in
between it syncs although its own flag is the old one.

History: `excused` are the stints inserted beside another change of the stints, or
closed a second time; `drift` says that the last request to derive the roles did so before
another one was saved, or that an edit skipped them and put back a flag that had changed. `MaxOverlaps` bounds the requests that are saved
beside others before all connections rest. The special kinds of pioneer are `regular`;
anonymisation, goals, groups and the update of a stint (no route posts to it) are left
out.

In `InactiveStreak`, `filed` is the table of monthly reports as the query of the
evaluation returns it, newest month first, where two rows may stand for one month in
either order; `inactive` the month of `inactiveAt`; `present` that he is a publisher and
has not left. `CreateReport`, `UpdateReport` and `DeleteReport` write and evaluate
(`Evaluate`, with `computeStreakOnset` and `walkStreak` as in the source); `MarkInactive`
and `MarkActive` are the buttons of the page, `TogglePresence` the flags that keep the
evaluation away. `IsOnset` is the rule in the comment of `evaluateInactiveStatus`, stated
without a walk; by it a month without a report counts when a missed one is older, which
`docs/product/publishers.md:93` denies (`gaps`). `NobodyIsOverlooked` asks what both say: who
has only missed reports for as many months as the threshold (`MissedSince`) is flagged.
`ReportsFlagByTheRule` asks that nobody else is flagged than by the code's rule, and that a
flag clears with the hours of the very report that is written (`BringsHours`).
`OnlyEntriesCount` is the sentence of the documentation. `reprieved` is history: the flag was cleared, or a report written while
he was absent, and no report has been evaluated since; the code leaves the flag alone
until then. One request at a time.

In `StintBackfill`, `activity` is the table in the order of identities, and
`deriveStintsFromActivity` is what `backfillMemberEnrolments` inserts for a member without
stints. `BackfillTellsTheReports` uses the overlap of `PioneerStints`, the check that
`openEnrolment` makes: a refusal would roll back the whole import.

These three and `BoardFiles` have no variable in common. In `MCRecords` a behaviour is about
one of the four while the others are as they begin.

## Runs

| run | instance | what it shows |
|---|---|---|
| `succession` | 1 publisher, 1 territory, 2 campaigns on consecutive days, 2 attributions, 3 days | `OneActiveCampaign`, `EndCleansUp`, `CustodyKept`, and `PausedWorkIsReleased` under fairness |
| `contention` | 2 publishers, 2 territories that are deleted and created, 1 campaign whose scope grows and shrinks, 3 attributions | `LayersNeverOverlap`, `TerritoryWorkedOnce`, `PausesHaveOwners`, `NobodyRetroactivelyLate`, `ScopeEditMovesWork`, `EndCleansUp` |
| `concurrent` | 2 connections; every campaign request against every other one, with 1 publisher, 2 campaigns and the whole scope; or sweeps, scope edits, ends and resumes of 1 campaign on a territory that 2 publishers hold | `ReferencesHold`, `EndedStaysEnded`, `CarriedOnce` |
| `notices` | 2 guarded callers on one key of a board document, 2 overlapping flushes, 2 digests, 2 attempts, 1 fault | `TypeOK`, `ExtraMailsNeedFaults`, `NothingSentIsLost`, `OnePendingPerKey`, `RetractionLeavesNothing`, and the refinement `KeepsPromises` |
| `delivery` | 1 caller, 2 overlapping flushes of one row each, 1 fault, 1 attempt | `EveryRowIsAnswered` under fairness |
| `release` | 1 part, 2 connections; one member eligible for both its slots and one for one, 1 failed notification; or a speaker and a reader, absences of both on one of 2 days | `NobodyIsForgotten`, `OnlyAssigneesAreTold`, `ConflictFlagsHold`, `NoAbsenceIsPublished` |
| `chart` | 1 roster, the committee, 1 post, depth 4, 2 connections; 1 service where requests overlap, 3 where one follows the other | `OffChartIsFree`, `CommitteeStands`, `Acyclic`, `DepthBounded`, `ServicesAnswer`, `RemovalKeepsTheOrder` |
| `records` | 2 connections; 1 member, 2 stints, 2 months; or up to 3 reports in 5 months; or up to 4 rows in 3 months for the import; or 1 document, 3 PDFs, 3 versions, 2 jobs of 1 attempt | `NoSharedMonth`, `RolesFollow`, `NobodyIsOverlooked`, `ReportsFlagByTheRule`, `BackfillTellsTheReports`, `FilesStand`, `LatestIsCurrent`, `ThumbnailTells`, `OwnerStays` |
| `backtoback`, `swap`, `restore`, `gaps` | the smallest instance with the case | a sentence of the documentation or of a comment that the code does not keep (below) |

Where a row says "or", the `MC` module restricts `Next`: a behaviour is of one kind or of the
other, told apart by its tables of the first day (`Shared`), by the day of its event
(`OfMails`), by the number of its services (`Several`) or by what it is about (`subject`).

The type invariant of every module is a theorem; TLC checks it as well in `notices`, whose
states have most places to go wrong.

Bounds.
- `MaxDay` ends the calendar: two days hold a campaign, its last day and the day after
  it, three hold two campaigns in a row and the sweep that comes late. Two attributions
  are the row that is paused and the one it is carried to; the third is a second
  publisher's.
- Two connections are enough for each hazard listed: one is between its read and its
  write, the other commits in between.
- Two rows of one key are a notification and the one that replaces or follows it; two
  digests are the one of a flush that rolled back and the one of the next flush.
- One part has both slots and the lock; the slots share the key of a member, which is
  where the notifications meet. On day 2 of `release` one member may be both speaker and
  reader and nobody is absent; on its other days nobody on the part has an account, so that
  nothing is mailed, and both slots have somebody who may be absent.
- With depth 4 the roster, the committee, a post and one service fill a chain; the
  second service is the one that would be too deep, and the third lets a branch of two be
  moved, attached or lifted. Overlaps are checked with one service; what needs longer chains
  is checked of one request after the other, and proved for both.
- Three rows are as many as `concurrent` has where every request meets every other one: two
  assignments at once of one territory to one campaign, which the checks do not keep apart
  (known exceptions), are not among them. Where sweeps meet there are four, more than two
  sweeps carry.
- Three PDFs are the first file of a document and two uploads that overlap (`FewFiles`: where
  the document is uploaded first of all, requests follow each other); two jobs are
  the one that is late and the one that follows. One document is enough: no key and no
  version is shared between two, and the theorems are about any number of documents, jobs
  and attempts. (Before the proofs, TLC was given their invariants with two documents.)
- `FewRows` keeps edits of the flags that overlap another request to at most one stored
  stint: of the stints the flags depend only on whether one is ongoing. Enrolments and
  closures overlap with both stored.
- In two months a stint covers one, the other, both, or goes on; a threshold of 2 in 5
  months leaves room for a report that breaks the streak, gaps, and a month that is
  filed twice. The walk does not look at the value of the threshold otherwise. Three
  months hold a run that is interrupted and resumed, the fourth row files one of them
  again.

The sets of windows, options, scopes, dates and absences are constants of an instance.
Symmetry is used for connections and for identities that no action orders, and never
with a liveness property. Deadlock is checked but in `notices` and `delivery`, where
the rows of the table run out; in `records`, `restore` and `gaps`, where the table of an
import or of the reports fills up and the uploads are used up; and in `chart`, whose
operations may all be refused.

Fairness. `FairSpec` of the campaigns (only in `succession`): weak fairness of the
sweep, because the daily job is enqueued by a repeatable schedule and caught up when
the worker starts, and strong fairness of the clock, which requests delay and never
stop. The job swallows the error of one congregation; that a sweep succeeds in the end
is what the fairness says. In the pipeline: weak fairness of the statements of a caller
(the database ends a transaction), of the debounce delay, of the cron (an external
scheduler calls it every few minutes) and of the worker; none of faults, new
notifications, suspension or cleanup. A job whose attempts are used up stays in the
queue as failed, and `EveryRowIsAnswered` counts it as an answer: an operator finds it
there until BullMQ trims its failed jobs. Nothing is assumed of managers and
publishers.

Every property of a passing run has a mutant in `PROJECT.json`: a plausible bug,
written next to the definition it replaces, with which TLC finds the property
violated.

## Where code and documentation disagree

- `backtoback`: a sweep activates before it ends. When one campaign ends on the day
  before the next one starts, the rows the first one paused are not paused by the
  second and are resumed inside it.
- `swap`: a member who moves from reader to speaker of a part of a released event is
  told nothing: the second slot takes the fresh notification of the first for the one
  to retract.
- `gaps`: a month without a report counts toward the inactive streak when a missed one is
  older (`evaluate-inactive-status.server.ts:165`); `docs/product/publishers.md:93` says
  that only explicit entries count.
- `restore`: a replacement deletes the file that the previous version names
  (`document.server.ts:88`), so a restore of that version makes a missing file the current
  one, although `docs/product/display-board.md:85-89` says that it is preserved and brought back.

## Known exceptions

Properties are stated so that these stay outside, each by a named clause or constant.
They follow from the code and are listed for whoever changes it.

Territories:
- Deleting the last territory of a scope makes the scope empty, which means every
  territory (`delete-territory.server.ts:5`, the cascade at `schema.prisma:705`).
- An assignment that races with an activation is regular work in campaign mode
  (`attribution.aggregate.ts:119`); two at once of one pair, or of one territory to one
  campaign, both pass the checks (`:85`).
- A scope edit that races with the end pauses rows for an ended campaign
  (`routes/campaigns/edit.tsx:141`).
- Of two publishers on one territory one is re-assigned; the conflict of the other is
  swallowed.
- Campaign work is due at the end its campaign had when it was assigned, also after an
  extension.

Events:
- A moved event keeps its flags until they are computed anew (`event-parts.server.ts:82`;
  `unchecked`): a draft moved onto an absence shows no conflict, against
  `docs/product/events.md:54`, and may be released.
- A flag is written from what a request read before: an absence, a day or a cast that
  changes in between is not in it (`refresh-conflict-flags.server.ts:124`,
  `event-part-assignments.server.ts:251`; `stale`, then `unchecked`).
- A release reads assignments and flags without a lock (`event-status.server.ts:114`): what
  is saved before it publishes is not checked (`stale`) and, where an assignment trusts the
  status its route read (`notify-assignment.server.ts:112`), not announced (`untold`).
- A release goes on to tell those who were on its list (`event-status.server.ts:200`;
  `stray`): who is taken off meanwhile is mailed "unassigned", and then "assigned"; and when
  the event is un-released meanwhile, the rest of them is told of a draft, against
  `docs/product/events.md:53` ("does not trigger any assignment email") and `:60`.
- A notification that fails is not tried again (`event-status.server.ts:214`; `untold`).

Organigram:
- A write decided on a chart that another request has changed may close a cycle, pass the
  depth limit, leave a parent to a role that is off the chart, or lift children to the wrong
  place: `race`. Two moves at once, each accepted on the tree it read
  (`organigram.server.ts:235`), are enough for a cycle, which `organigram.queries.ts:72`
  counts on the policy to prevent.
- One request after the other, too, may close one: the adoption form offers the roster of the
  elders among the roles to replace (`organigram-adoption.server.ts:97`), and the committee,
  which goes under the elders, is then handed to itself or to its own post (`:155`): `elders`.
- A service is accepted under one that has left the chart since the page was loaded
  (`role-tree.policy.ts:68`) and answers to nobody, against the comment above that line:
  `offchart`.
- An adoption asks for no depth: a branch it takes along may pass the limit (`branch`).
- Removing or replacing the elders, or adopting the committee while they are off the chart,
  leaves services without a roster (`rosterless`).
- Once the elders were taken off the chart and put back, the committee stays on top: no
  operation may move it under them again (`organigram.server.ts:200-203`,
  `role-tree.policy.ts:59-61`).
- A service whose attachment is refused is created all the same (`organigram.tsx:180-185`).

Display board:
- Two uploads to one document at once read the same last number, which no constraint
  refuses, and the row that commits last need not be the one with the last number, against
  the comment at `document-versions.server.ts:8` (`overlapped`).
- Files are deleted before the commit: after a rollback the rows still name them (`lost`).
- A job that is still alive when the next one is queued may draw last, and then the
  thumbnail of an older file is shown (`smudged`); a request that rolled back may leave
  such a job too.
- The bulk deletion leaves the files of the versions in the store, a rolled-back upload its
  PDF, a `Show` that fails its thumbnail: stray files, which no property counts.
- A document of before the versions has no version 1; who first replaces its file becomes
  its author (`Unauthored`).
- Reorders of items and of documents take different advisory locks; orders are not modelled.

Pioneers:
- A closed stint may be closed again with a later end, over a later stint
  (`pioneer-enrolment.aggregate.ts:125`; the comment above the overlap check says that
  no two stints share a month), and two concurrent enrolments both pass the check (`:61`).
  `excused` holds the stints concerned. The import of publishers
  (`import-publishers.server.ts:138`) inserts stints without the check and is not modelled.
- A sync that derives the roles before another request is saved leaves wrong ones until the
  next one (`built-in-roles.server.ts:184`), as does an edit of the identity that skips the
  sync while it puts back a flag which another request changes before it commits: `drift`.
- Of two reports filed for one month the one the query returns last counts, and the
  query does not say which that is.
- Two reports of one publisher written at once are each evaluated without the other;
  the flag follows at the next write.
- The backfill makes single months of a permanent auxiliary
  (`pioneer-enrolment-backfill.server.ts:100`): such a member is no longer a pioneer
  today, and `BackfillTellsTheReports` asks it of the standing types only.

## Proofs

All theorems hold for every value of the constants that meets the assumptions of the
module. The inductive invariants follow.

`TerritoryCampaignsProofs` (from `BoundsAssumption` and the assumptions next to it):

| theorem | property |
|---|---|
| `TypeCorrect` | `TypeOK` |
| `CampaignModeIsSingle` | `OneActiveCampaign` |
| `LayersStayApart` | `LayersNeverOverlap` |
| `TerritoryIsWorkedOnce` | `TerritoryWorkedOnce` |
| `PausesAreOwned` | `PausesHaveOwners` |
| `EndLeavesNothingBehind` | `EndCleansUp` |
| `ScopeEditsMoveTheWork` | `ScopeEditMovesWork` |
| `NobodyLate` | `NobodyRetroactivelyLate` |
| `CustodyIsKept` | `CustodyKept`, the refinement |

The inductive invariant is `IInv`. The properties are not inductive by themselves:
- `TypeOK` needs that a pause never lies in the future (`PausedInPast`), or the shift
  of a due date could be negative.
- `OneActiveCampaign` holds only between sweeps, because a late sweep may activate
  one campaign before it ends the other. What is inductive is that windows are
  disjoint (`WindowsDisjoint`), that an active campaign has begun (`ActiveHasBegun`),
  and that outside a sweep no campaign is active after its last day.
- Layers, custody and pauses are statements about pairs of a table of rows
  (`RowsSound`), preserved by each of the bulk helpers; there is one lemma for each
  helper and the lemma of an action combines those of the helpers it calls.

The action properties and the refinement speak of one row across one step. The bulk
helpers are characterised row by row (`TableMove`, `Moved`, `Follows`): a row is left
alone, suspended, returned, or released by the campaign that had suspended it. An end
is then followed through its halves (return or release the work of the campaign, close
or release what it paused), a scope edit through the territories that enter and leave,
and each action is a step of `TerritoryCustody` or leaves its two views alone (`Kept`).
That a lifted pause makes nobody late needs `PausedInPast` once more.

`CampaignTransactionsProofs` (from `ConcurrencyAssumption`; `AttributionsNameBegunCampaigns` also from
`InitialReferencesAssumption`, the last two also assume `CarriesOnly`):

| theorem | property |
|---|---|
| `TypeCorrect` | `TypeOK` |
| `EndedCampaignsStayEnded` | `EndedStaysEnded` |
| `AttributionsNameBegunCampaigns` | `ReferencesHold` |
| `ACampaignWorksATerritoryOnce` | no campaign has two open rows on one territory, whatever the number of campaigns |
| `TerritoriesAreCarriedOnce` | `CarriedOnce`, where there is one campaign |

Types need to know what a request remembers at each place (`Placed`): an edit has
its campaign in memory and, after the update, locked. `EndedStaysEnded` rests on
the row locks: the version of a campaign that a transaction has written and not
committed follows from the committed one (`WrittenOver`), and no other transaction
can commit one while the lock is held (`CampaignLocks`). So the sweep may stamp a
campaign it read long ago.

`ReferencesHold` needs to relate all versions of a campaign. "Has begun" is stable:
a later version has begun as well, or the row is deleted (`BegunFollows`). What a
committed or uncommitted attribution names has begun in every version
(`CommittedStand`, `WrittenStand`), and what a request took for begun has begun in
every version there is or is gone (`LearnedSettled`). The foreign keys exclude the
last case when a row is inserted; a pause needs no check because its request holds
the lock on the campaign (`AllReady`). A delete whose count is out of date fails on
the foreign keys. The argument also uses that an identity is not given twice while
a request remembers it, which the sequence of the database guarantees.

`CarriesOnly` says that nobody assigns by hand (`"assign"` is not among the `Kinds`) and
that the tables of the first day have at most one open row per campaign and territory and
suspend none of a campaign. The check of `_reassignIntoCampaign` asks whether a territory
has work, the insert comes later, and no constraint of the schema stands between them:
the lock on the campaign's row does. Who writes a row of a campaign holds that campaign
(`OwnCampaigns`), a row stays in its campaign (`RowsStay`), and the rows of campaigns are
never suspended (`CampaignRowsWork`), so an open one is work that the check sees. Hence
what a commit of others adds to the view of a request is of campaigns it does not hold,
and the territory it found free of its own campaign is still free at the insert
(`Prepared`). Before the proof TLC was given `OnceInv` as an invariant of an instance with
the requests of `CarriesOnly`, and of one with two campaigns, and found no error.

`NotificationPipelineProofs` (from `PipelineAssumption`; the last two also assume
`Callers \subseteq Guarded`):

| theorem | property |
|---|---|
| `PipelineTypes` | `TypeOK` |
| `SentIsAccountedFor` | `NothingSentIsLost` |
| `PipelineKeepsPromises` | `KeepsPromises`, the refinement |
| `MailsAreAccountedFor` | `ExtraMailsNeedFaults` |
| `BurstsAreOneMail` | `OnePendingPerKey` |
| `RetractionsAreFinal` | `RetractionLeavesNothing` |

`IInv` says who holds a pending row: one flush, one caller, or nobody (`Locks`); what a
flush has queued is in its batch and handed over (`Flushes`, `Handing`); a job that waits
has attempts left (`Queue`). From that each action of the pipeline is a step of
`NotificationPromises` or none. `Account` keeps one account per event: the mails it has had, the jobs that will still
mail it, and the one mail a row that may yet be queued is good for are never more than
one and the faults so far; each fault pays for one. `KeyInv` adds that callers at work are about different
keys (`Alone`) and that what a caller replaces is what it chose, then what it cancelled
(`Covering`): no row of its key comes in between, which is exactly what the lock of the
entity buys.

`EventReleaseProofs` (from `EventAssumption` alone: any requests overlap, and a member may be
eligible for every slot):

| theorem | property |
|---|---|
| `EventTypes` | `TypeOK` |
| `FlagsFollowAbsences` | `ConflictFlagsHold` |
| `ReleaseHasNoAbsence` | `NoAbsenceIsPublished` |
| `NoPhantomMail` | `OnlyAssigneesAreTold` |
| `NoOneIsForgotten` | `NobodyIsForgotten` |

`EInv` has three parts, and no theorem assumes that anything waits but for the lock of a
part (`OnePerPart`).
- `Order`: what a request read is still so of the parts it is not stale about (`Pictures`):
  the cast of the part it holds always, the day, the absences and the other casts as long as
  nobody wrote them. So what it writes into a flag is true or the part becomes `unchecked`.
- `Mails`: whom a release has on its list is on his part, of a released event once it is
  published, or is in `stray` (`Listed`), and so is whoever has a mail pending.
- `Telling`: nobody is on a part twice (`Pairs`), so a slot retracts what the other one has
  just announced only for who changes from reader to speaker; he is in `untold`, as is
  whoever was assigned by a request that read another status than the release wrote.

The exceptions end: a part leaves `unchecked` when its flag is computed anew from what is so,
an assignment leaves `untold` when a mail for it is pending, a mail leaves `stray` when it is
no longer ahead.

`OrganigramProofs` (from `OrganigramAssumption` and `RequestAssumption`, which only say what
the kinds of roles are; an adoption may replace rosters. The last one also assumes
`MaxDepth >= 3`, where the code has 10):

| theorem | property |
|---|---|
| `TypeCorrect` | `TypeOK` |
| `CommitteeKeepsItsPlace` | `CommitteeStands` |
| `WhoIsOffHangsUnderNobody` | `OffChartIsFree` |
| `AlwaysAForest` | `Acyclic` |
| `RemovalsCloseTheGap` | `RemovalKeepsTheOrder` |
| `EveryServiceAnswers` | `ServicesAnswer` |
| `NoChainTooLong` | `DepthBounded` |

`PlaceInv` adds that the roster of the elders is a root and that no request at work hangs
or removes what is appointed; it excuses no race. `FreeInv` adds that what
moves is on the chart unless its request is stale.

The last four speak of chains of any length. The recursive walk up the tree (`Upwards`)
is shown to return the least set that holds the parent and is closed under parents
(`Above`): its stages exist, grow, and settle before there are more of them than roles,
and from there on every argument is about least sets. There is one lemma for each way a
write changes the links: a role is hung (`HungAbove`), taken out (`TakenAbove`), or the
committee adopts (`AdoptedAbove`). `ChartInv` adds to the others that what a request has
decided to hang may still hang there while nothing has changed since (`StillRight`), and
that no role which the policy lets move is above itself, whoever was replaced
(`NoServiceCycle`): an adoption in the place of the elders can only close a cycle through
the committee. `ForestInv`, `AnswerInv` and `DepthInv` each add one property to it.

`BoardFilesProofs` (from `BoardAssumption`, with any number of connections, documents, jobs
and attempts, and no exclusion of any overlap):

| theorem | property |
|---|---|
| `BoardIsTyped` | `BoardTypes` |
| `LastVersionIsShown` | `LatestIsCurrent` |
| `AuthorsStayAuthors` | `OwnerStays` |
| `ThumbnailsTell` | `ThumbnailTells` |
| `RowsNameFiles` | `FilesStand` |

`Shapes` says how far a request of each kind gets and what it knows by then. `RowsInv` is
the locking: versions belong to documents that stand (`Anchored`), nobody else has to do
with a document that is being created (`Creating`), a document of an inserted version does
not go (`Held`), one request at a time has updated a document (`Exclusive`). Three
invariants stand on it.
- `NumbersInv`: a request that is alone at its document since it read the last number still
  has the next one (`Alone`, `NextNumber`), so what it commits is the last version. A
  document with an author keeps its version 1 and no upload to it has that number
  (`Authored`, `LaterNumbers`), so the author stays even where uploads overlap.
- `ThumbsInv`: a job that is alive, of a document that is not smudged, is about the file
  that is current or about the file of the request that queued it; a thumbnail cannot be
  shown before that request ends, for it holds the row (`JobsTell`, `QueuedOnce`).
- `FilesInv`: no file is known for two documents, and who deletes one is about its document
  (`Apart`); a thumbnail becomes known when its job is over (`Shown`), and is in the store
  until then (`Drawn`); what an upload saved is named by nobody else before it commits
  (`Fresh`). So who deletes what a row names has that row locked, or has deleted too early
  and is not over (`Erased`), or is in `lost`.

`PioneerStintsProofs` (from `StintsAssumption`):

| theorem | property |
|---|---|
| `StintTypes` | `TypeOK` |
| `StintsAreApart` | `NoSharedMonth` |
| `RolesAreImplied` | `RolesFollow` |

`SInv` follows a request from its checks to its commit: what it carries fits its kind
(`Shape`), its overlap check still holds if no stint was opened or closed since (`Clear`),
and the roles it derived or compared are right if nothing was saved since, and are skipped
only by an edit of the identity (`Synced`). A
closure only shortens a stint that was ongoing when it is saved, which is why it needs no
check; removing stints never makes two meet.

`MemberReportsProofs` (from `StreakAssumption` and `BackfillAssumption`; each theorem is
about the specification of its own component, `ReportsSpec` or `BackfillSpec`, whose
steps `RecordsSpec` takes):

| theorem | property |
|---|---|
| `FlagsAreNotMissed` | `NobodyIsOverlooked` |
| `FlagsFollowTheRule` | `ReportsFlagByTheRule` |
| `BackfillIsTrue` | `BackfillTellsTheReports` |

The recursive walk of `walkStreak` has exactly one solution (`SomethingWalks`,
`WalksCount`): it counts the months down to the first that does not count. A month counts
when it is silent and not before the first missed one (`WhatCounts`), so what the code
computes is an onset of the rule in its comment (`TheOnsetIsTheRules`), whatever order the
rows are in; and it finds one when the newest reports, of as many months as the threshold,
are missed ones (`MissedMonthsAreFound`), for the walk does not stop before the oldest of
them. `FlagInv` says that for who has no flag and is not reprieved the walk finds none. For the import, runs of one type are the classes
of an equivalence (`RunsAreOne`) and have no hole (`RunsAreWhole`); the derived stints are
those of single months (`DerivedStints`), a stint that covers a reported month is the
stint of that month (`CoveredMonths`), and two stints that overlap share a month that was
reported (`OverlapsShareAMonth`).

Induction. The two recursive definitions are functions, and what they compute is proved
for every input from the least counterexample (`LeastNumber`), without an induction
theorem.

Only model-checked: liveness (`PausedWorkIsReleased`, `EveryRowIsAnswered`), which is out
of the prover's reach. `CarriedOnce` is a theorem for one campaign and the requests that
`CarriesOnly` admits, and is claimed for no more: an assignment that overlaps a sweep
reads the open campaign rows without a lock, and with several campaigns two transactions
may hold different paused rows of one territory and neither see what the other inserts.
For each campaign by itself it holds whatever their number.

## Not modelled

- Event templates, parts and cadence, and the orders, sections, visibility and dynamic
  documents of the display board (`deleteSectionWithFiles`, `reorderBoardItems`): orders
  kept under advisory locks.
- Authentication: single-use tokens, and counters in Redis with a time to live.
- Data transfer, retention, anonymisation: long sequences of row copies in one
  transaction.
- Seats, permissions and sessions; groups and goals.
- Geography, prospection, statistics, exports, pages and clients of services: queries and
  I/O with no protocol. What the models need of PostgreSQL, Redis and BullMQ (READ
  COMMITTED, row locks, foreign keys, attempts, stalled jobs) is part of them.

## Plan

1. Done: the campaign lifecycle, its abstraction and its concurrency; the notification
   pipeline with its abstraction; event releases; the organigram; the files of the board; pioneers, their
   reports, the inactive flag and the backfill of an import; the invariants, the action
   properties and both refinements proved.
2. Next: the tokens and counters of authentication; the order of documents, sections and parts
   under advisory locks; the return of a member with all it brings with it (territories,
   stints, roles, seats); imports.
3. Hazards that wait for a module or for a place among the runs: lock order of two sweeps
   (`campaign-lifecycle.workflow.ts:40`), dates parsed as midnight UTC (`routes/attributions/edit.tsx:272`),
   the import of attributions without layer and pause (`import-territories.server.ts:144`),
   the token of `email-verification.server.ts:12`, the refused service, the emptied scope
   and the assignment that races with an activation (known exceptions).
4. Theorems: the commits of `CampaignTransactions` as steps of `TerritoryCampaigns`, for
   the requests both have; `CarriedOnce` for several campaigns whose windows keep apart.
