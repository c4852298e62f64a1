# Verification of irdoc-app

irdoc documents incident investigations: a FastAPI back end on PostgreSQL, Celery
workers behind Redis, a React front end, and an installer for the Docker
deployment. Most requests are one transaction on rows of one incident. What is
hard to get right is where several stores, processes, tabs, timers and requests meet
without a common transaction, and that is what this project models.

The modules are TLA+. TLC checks them on small instances; TLAPS proves the most
important properties for every value of the constants.

| Module | Models |
|---|---|
| `ReportRegen` | debounced regeneration of an incident's reports |
| `ReportWorker` | generation of one report and its upload, call by call |
| `Autosave` | a summary field edited from several tabs |
| `Session` | one user's login session in several tabs |
| `IncidentList` | the incident list: URL, history, debounced search, query cache |
| `ListView` | what the list promises, without URLs, timers and caches; implemented by `IncidentList` |
| `Team` | members, roles, invitations and the page an invitation leads to |
| `OrgForm` | the organisation's settings |
| `Backups` | the backup page, the schedule, runs and retention |
| `Connectors` | plugins, single sign-on, SMTP and AI settings |
| `TaskTemplates` | incident templates, their phases and tasks |
| `TemplateEditor` | report templates: the list and the editor |
| `Indicators` | indicators, detection in pasted text, enrichment |
| `Assets` | assets and their relationships |
| `Timeline` | timeline entries, attachments, asset links |
| `Desk`, `TaskPanel` | the head of an incident, and its task list |
| `Pages` | the page modules from `Team` on except `Backups`, ten of them, side by side |
| `MCPages` | one page at a time, and its bounds, for one run |
| other `MC…` | what TLC needs besides: symmetry sets, small tab sets, links |
| `…Proofs` | theorems and proofs of the module they are named after; `PagesProofs` has those of all pages |

## 1. Inventory

### 1.1 Report regeneration — modelled (`ReportRegen`)

`services/report_regen_service.py`, `auto_regenerate_reports` in
`workers/tasks.py`, `enqueue_report` in `services/report_service.py`,
`core/database.py` (`get_db`), deletion of reports and templates.

*State.* The incident in PostgreSQL; one Redis key `report_regen:{incident}` with
a token and a TTL; delayed Celery messages that carry a token; rows of the
`reports` table with a seed (template or base), a version and a status.
*Operations.* Every handler that changes an incident calls
`trigger_report_regeneration` before `get_db` commits: it SETs a fresh token and
schedules a run. A run goes on only if its token is the stored one; it reads the
seeds that have a ready report, inserts one pending row per seed, commits and
dispatches one job per row. Users generate reports by hand and delete reports and
templates meanwhile.
*Hard.* The run is scheduled before the change is committed; SET and `apply_async`
are two calls; the token has a TTL; the row is committed before its job is sent;
version numbers are read and inserted without a lock.
*Correct when* the final state of a burst of changes gets regenerated, once, for
every seed; a committed pending row has a job; versions of a seed are unique.

### 1.2 Report generation and delivery — modelled (`ReportWorker`)

`generate_report` and `push_report_to_sharepoint` in `workers/tasks.py`,
`delete_report`, the storage backend, `workers/celery_app.py`.

*State.* The row (status, path, URL), the PDF in the storage backend, the copy in
the document library, the messages in the broker: four stores, no common
transaction. *Operations.* Begin, render, store, mark ready, request the push,
upload, record the URL; the except branches and `self.retry`; deletion of file
and row. *Hard.* `task_acks_late` gives the message of a lost worker to another
one, possibly after the work was done, but not the message of a killed child process,
since `task_reject_on_worker_lost` is not set; retries; an analyst deletes a report that
is being generated; an administrator disables the integration before the push;
`write_bytes` is not atomic.
*Correct when* no report stays pending or generating for ever unless its task was
killed, a ready report has a complete PDF and stays ready, a version for the library
gets there while the integration is on.

### 1.3 Summary autosave — modelled (`Autosave`)

`SummaryPage.tsx` (RichTextSection), `RichTextEditor.tsx`, `useIncident.ts`,
`update_incident`.

*State.* Per tab: text, save state, debounce, generation counter, query cache,
banner; on the server the last text that arrived. *Hard.* Overlapping and late
saves, answers out of order, refetches of older states, other users' saves,
failures, a page that is left with a debounce pending.
*Correct when* "Saved" is true, the last text is on its way or stored, somebody
else's edit is never overwritten unannounced, typed text is not lost.

### 1.4 Login sessions — modelled in part (`Session`)

`services/session_service.py`, `api/v1/auth.py`, `apiClient.ts`, `activity.ts`,
`App.tsx`, `useAuth.ts`.

*State.* A refresh cookie per browser, an access token and timers per tab, the
token version in the user's row, the time of last activity shared by the tabs.
*Hard.* Refreshes of several tabs are in flight while the user signs out, changes
the password or is timed out; what client and server take for "idle" must agree.
*Correct when* a session ends with its absolute lifetime and after a revocation, an
active user stays signed in, an idle one does not, and a password change keeps the
session it was made in. The third and the fourth do not hold in full (section 4).

### 1.5 Incident list — modelled (`IncidentList`, `ListView`)

`IncidentListPage.tsx`, `incidentListQuery.ts`, `Pagination.tsx`, `useIncident.ts`.

*State.* The URL, the browser's history, the query remembered in session storage, the
search box and its debounce, answers cached per query. *Hard.* The view is in five
places at once; rows come from an older answer while the next is fetched; the page
asked for may no longer exist; other analysts close and delete. *Correct when* there
is one view at a time and it can be linked to, narrowing starts again on page one,
and no page past the last one is shown.

### 1.6 Accounts, roles and invitations — modelled in part (`Team`)

`users.py`, `invite_service.py`, `OrgSettingsPage.tsx` (team), `InviteAcceptPage.tsx`.
*State.* Users with role, activity, MFA; invitations; requests that have checked and
not written. *Hard.* Check and write of two requests interleave: two admins demote
each other, a link is opened in two tabs. *Correct when* the last admin stays, which the
race breaks (finding 3), or goes only by a request that was checked while there was
another one; and an invitation admits one account, with its role.

### 1.7 Settings: organisation, backups, integrations — modelled

`OrgForm` (`OrgSettingsPage.tsx`, `admin.py`): the limits and the MFA requirement share
a column that every request reads and writes whole; a setting changes only because a
request asks for it, or reads it before another one changes it. `Backups`
(`BackupsPage.tsx`, `backup_service.py`, `backup_tasks.py`): runs overlap, share a name,
fail after each step and die, the storage is switched; a committed success is stored; a
retention shown as years or months is stored as the days it was.
`Connectors` (`IntegrationsPage.tsx`, `SmtpSection.tsx`, `AiSection.tsx` and their
services): switch, settings and secret travel in different requests; what is on has
every field its schema requires, a secret the form never had is kept.

### 1.8 Templates — modelled (`TaskTemplates`), in part (`TemplateEditor`)

`IncidentTemplatesPage.tsx`: an editor of a list of tasks grouped in phases, with drag
and drop; correct when a drag reorders its own phase only. `ReportTemplateEditorPage.tsx`
and its list and builder: the layout waits for Save, colour and company name save
themselves after a pause; correct when neither fetches nor answers take away what was
chosen.

### 1.9 The incident workspace — modelled in part

`Timeline` (`AddEntryForm.tsx`, `EditEntryModal.tsx`, `AttachmentZone.tsx`): an entry and
its files are separate requests, some of which fail; every file is accounted for.
`Indicators` (`IOCPage.tsx`, `ioc_service.py`, `enrichment_service.py`): an enrichment
reads the row, waits for other services and writes columns back; the analyst's word
stands. `Assets` (`AssetsPage.tsx`, `asset_service.py`): two cached lists, of which a
deletion changes both and refetches one, while others delete, relate and unrelate, and
answers are lost. `Desk` and `TaskPanel` (`TopBar.tsx`,
`EditableTitle.tsx`, `CloseIncidentModal.tsx`, `TasksPanel.tsx`, `useTasks.ts`,
`incident_service.py`, `task_service.py`): checks on a row read earlier, optimistic
ticks; what is closed or done says so in full.

### 1.10 Not modelled

| Part | Why |
|---|---|
| Multi-factor authentication | TOTP, argon2 and Fernet are library calls; what is left is a counter and a list of codes in one row |
| Single sign-on | the protocol is the provider's; what is left is a lookup and the opening of a session |
| Presence and live updates (`sio.py`, `websocket.ts`) | a display nothing else reads; that a client that reconnects does not join its incident again is plain from the code |
| Legacy SharePoint sync | no caller and a stub endpoint: nothing starts a sync |
| Installer, upgrade, rollback | a sequence of docker commands of one person; a model would restate the script. Its restore removes the database volume before the steps that may fail (`snapshot.py:138`) |
| External API | one insert per request, and no document promises that a retry is harmless |
| AI assistance | a prompt, one call and one column; the race is that of `Indicators` |
| Report rendering | a pure function from a payload to a PDF, the step `Render` of `ReportWorker` |
| Overview, graph, dashboard | read-only queries and their presentation |
| Notifications, audit log | one outgoing call, one inserted row |
| Schema, seeds, start-up | linear migrations, settings read once |

Left out of modelled parts: registration and avatars; single tasks being created,
edited and deleted, references, evidence counts; the hash check of attachments and
the cloud backends; restoring a backup (a shell script); what a plugin does with its
settings; how a confidence score is computed; the preview of a report template and
the older PDF templates; in `Session`, organisations that change their limits, MFA and
deactivated accounts. Components that no page mounts (`TeamPage`, `AdminShell`,
`SSOPage`, `IntegrationsPageWrapper`) are not modelled.

### 1.11 How the parts interact

Handlers of incidents, timeline, indicators, assets and tasks call the
regeneration trigger, which talks to Redis and the broker. `ReportRegen` ends where
a `generate_report` job is dispatched (`Render` stands for the whole job);
`ReportWorker` starts there. The autosave's PUT is one of the handlers that arm a
regeneration: `Commit` of `ReportRegen` is the commit of `Apply` in `Autosave`.
Deleting a report template is an action of `TemplateEditor` and, seen from the
reports, of `ReportRegen`. Every request of the front end passes the 401 interceptor
of `Session`. The pages share no state beyond rows of the database; a row of one
page is only displayed by another (an asset in the timeline's link list). Two
properties of the framework are in every page module: `get_db` commits after
FastAPI has sent the answer, so a page can be told of something that is not yet
committed, or never will be, unless the service commits itself; and react-query
retries a failed read once, keeps old answers while it fetches and runs the
callbacks of a mutation whether or not its page is still there.

## 2. The modules and the code

### ReportRegen

`content` counts committed changes; `armed` the tokens handed out, token *n* being
the *n*-th SET; `key` is the Redis key; `messages` the delayed runs with their
countdown; `client` and `run` the program counters of handlers and workers; `rows`
the table; `queue` the dispatched jobs. A row remembers in `basis` the content it
was inserted after. `broken` is a history variable: a failure hit the newest
change. It is cleared when a newer change has been scheduled.

| Action | Code |
|---|---|
| `Arm`, `ArmFails`, `Schedule`, `ScheduleFails` | `trigger_report_regeneration`: SET with TTL, then `apply_async`; errors are swallowed |
| `Commit`, `Rollback` | `get_db` after the handler |
| `CheckPasses`, `CheckSkips`, `CheckFails` | the token comparison of the task; without Redis the task fails |
| `Plan`, `CreateRows`, `Dispatch`, `FinishRun` and their failures | `create_regeneration_reports`, COMMIT, one `delay` per row |
| `CrashRun`, `CrashWaiting`, `Evict` | a worker dies and its message is redelivered, or a child process does and it is gone; Redis drops the key |
| `EnqueueRead`, `EnqueueCommit`, `EnqueueSend`, … | manual generation |
| `DeleteReport`, `DeleteTemplate` | deletion; SET NULL moves rows to the base seed |
| `Tick` | one unit of time; it may not pass a handler's or a message's latest time |

Timing is in constants. `Handling` bounds the time from trigger to COMMIT, `Backlog`
the time a due message waits. `Timely` says `Handling < debounce` and
`Handling + Backlog < Margin`: with the defaults, 600 s debounce and 300 s
margin, a request takes less than five minutes and the queue is shorter than that.
The interval an organisation configures for SharePoint is not validated, so a
debounce of a second or so can break the first part.

### ReportWorker

One action is one call to one store. `work[w]` is the task a worker executes, `pc`
the point it has reached; `file` and `remote` are "partial" between the two halves
of a write. A message stays in `work` until `Acknowledge`; `WorkerLost` gives it back.
`ChildLost` does not: Celery's prefork parent acknowledges the message of a child that
was killed, and `killed` remembers the task. `library` says whether the integration
is configured and enabled, `SwitchLibrary` changes it, and a push that finds it off
returns (`PushDeclined`, remembered in `declined`). `Retry` publishes the next attempt before the current one is acknowledged, as Celery
does. `DeleteRead`, `DeleteFile`, `DeleteRow` are the three steps of
`delete_report`. The initial state is any choice of reports that must be pushed.

### Autosave

A text is the set of edits it contains, so that overwriting loses edits
visibly. `Type`, `Leave`, `Return` and `Refetch` are the user and React Query;
`Fire` is the 2.5 s debounce, `IdleTimer` the 3 s one; `Apply` is the server;
`ReceivePut`, `ReceiveFailure` and `ReceiveRead` the answers, in any order.
`Render` stands for the two effects of RichTextEditor (`Sync`, `Notice`), which
run in every step that changes cache or state. Timers carry no duration: they may
fire at any time after they were set.

### Session

Time is explicit, in units of which an access token lasts a few. `cookie` is the
browser's; `tab[t]` one page; `calls` the `POST /auth/refresh` requests, which are
served (`Serve`) and received (`ReceiveGranted`, `ReceiveRefused`) in separate
steps, so that everything else can come between; `Lose` is a failed one. The cookie
of an answer is only stored when the answer arrives. `Reload` is what
`window.location.href = …` does: the page starts again, `tryRestore` included.
`Tick` waits for requests and due timers, so requests are short compared with the
limits. `Use` is an activity that makes a request, `Touch` one that makes none: a
pointer, a key or scrolling, which moves the time of last activity and nothing else.
`tv` of a page, `lastUse`, `lastMove`, `lastSignIn`, `revokedAt` and `ended` are history;
`lastUse` is the last request or the last `Touch` with a valid token, `lastMove` any activity.
Not in the model: organisations that change their limits, MFA, accounts that are
deactivated, and that `change_password` commits after its answer.

### IncidentList and ListView

`history` holds list URLs and workspaces, `at` the entry on screen; a URL is a record
of parameters that may be absent or unreadable, which `ParseListQuery` turns into a
query and `ToSearchParams` back. `Show` runs in every step that changes what is
rendered: it remembers the query and fits the page (`Clamped`, the effect that goes
back to the last page, until it rests: `Fitted` is where the `Renderings` stop). `cache` keeps stale answers;
`Answer`, `Succeed`, `Fail` and the foreign steps come between any two clicks. `ListView` has
three steps: narrow (a new filter, search, order or page size, on page one), turn a page,
revisit a view of the trail. The mapping takes the query of the entry on screen (or
the remembered one) for the view and the history with session storage for the trail.

### The pages

A page module has the rows of the database, what the tab has of them (`seen`, `cache`,
`shown`), forms and dialogs, the requests on their way, and counters that bound a run.
Where the code reads a row, checks and writes later, the request goes through the
same points: sent, read, flushed or answered, committed. A patch is what SQLAlchemy
sends: the columns that differ from the row as it was read.

| Module | Actions | Code |
|---|---|---|
| `Team` | `RoleSave`, `Deactivate`, `ResetMFA`, `SendInvite`, `Resend`, `Revoke`; `Elsewhere`; `Read`, `Write`, `Commit`, `Fail`; `OpenLink`, `Validate`, `Accept` of guests | the team table and its dialogs, the same by other admins, the endpoints, the page of a link |
| `OrgForm` | `Edit`, `Save`, `Toggle`, `Enable`, `ChooseSource`; `Refuse`, `Read`, `Write`, `Answer`, `Fail` | the form and the MFA switch; the schema refuses what the form sends for a logo; `update_org` reads the settings JSON and writes it whole |
| `Backups` | `Save`, `SaveArrives`, `RunNow`, `FetchConfig`; `SwitchStorage`; `CheckAndRun`; `Begin`, `OpenFile`, `CloseFile`, `Upload`, `Commit`, `Retain`, `Forget`, `Raise`, `Die` | the page, whose form can be saved before it is filled; the storage settings; the hourly task; the steps of `run_backup`, of which the write of the file is two |
| `Connectors` | `Open`, `Type`, `FlipInForm`, `FlipPlugin`, `Save`, `Test` and their answers | one section at a time, with a plugin that needs address and secret, one that needs the address only and one that needs the secret only; a test of SSO or SMTP saves first |
| `TaskTemplates` | `AddTask`, `UpdateTask`, `RenamePhase`, `DragEnd`, `Submit`, `Clone`, … | the editor's draft; the template list |
| `TemplateEditor` | list, dialog, editor; `BrandTimer`, `LeftoverTimer`; `Read`, `Flush`, `Commit`, `Answer` | the debounced save, and the timer of an editor that was left |
| `Indicators` | `ValuePaste`, `Tick`, `BulkAdd`, `StatusChange`, `Enrich`; `EnrichBegin`, `EnrichEnd`, `HandleEnriched` | the page, whose requests overlap; the enrichment task, which reads early and writes late |
| `Assets` | `Add`, `SaveEdit`, `DeleteConfirm`, `CreateLink`, `DeleteLink`, `Refetch` | two tabs, two caches; what another analyst deletes, relates and unrelates; answers that are lost (`AnswerLost`) |
| `Timeline` | `HandleSubmit`, `CreateEntry`, `Upload`, `Finish`; `EditRequest`, `Save`, `UploadNew`, `Saved`, … | the form's loop over files; the dialog's |
| `Desk` | `SeverityChange`, `StatusChange`, `CloseConfirm`, `CommitRename`, …; `Read`, `Answer`, `Commit`, `Lose` | the head; `update_incident` |
| `TaskPanel` | `ToggleTask`, `Fail`, `ReadList`, `ShowList`; `Read`, `Answer`, `Commit` | the optimistic update; `update_task` |

`Pages` extends `Team` and instantiates the others, with variables and constants of
their own but for the two counters that bound a run. A behaviour chooses one page at
its start (`active`) and works on that one; the others stand still. The pages share no
state, so this is one specification for ten modules, not their product. `Backups` has a
run of its own (`MCBackups`), because its schedule and runs need more room. `MCPages`
gives the pages nobody works on one initial state instead of all they may have.

## 3. What the runs show

| Run | Instance | States | Shows |
|---|---|---|---|
| `regen_faults` | 2 handlers, 1 worker, 2 changes, 1 template, 1 manual report, 1 deletion, 1 fault | 1.05 million | after a burst the final state is regenerated unless the fault hit the newest change; the newest run finds its token; a burst starts one run; every committed pending row has a job |
| `regen_liveness` | 2 handlers, 2 workers, 2 changes | 62 000 | every change ends in a ready report of every seed |
| `worker_crash` | 1 report, 2 workers, 1 lost worker, 1 killed child, 2 retries, 1 deletion, 1 switch of the integration | 610 000 | reports settle, nothing is abandoned and a ready version is pushed, but for the exceptions below |
| `worker_delete` | 2 analysts, 2 workers, 1 lost worker, 1 killed child, 1 failed call | 1.92 million | ready means complete; ready stays ready |
| `autosave` | 2 users, 3 edits, 1 failure, 1 read, 1 leave | 717 000 | the promises of 1.3 but the last |
| `session` | 2 tabs, token 2, idle 4, lifetime 5, horizon 7, 1 revocation, 1 loss | 1.93 million | absolute lifetime, revocation, an active user's cookie |
| `incident_list` | 3 incidents, 2 statuses, 2 sizes, 2 words, history of 2, 2 clicks, 1 foreign change | 241 000 | no empty page; every view has a URL; `IncidentList` implements `ListView` |
| `pages` | see below | 1.08 million | what each of the ten pages promises |
| `backups` | 2 runs, 2 names, 2 storages, 2 retentions, 3 clicks, 1 fault | 3.9 million | a success is stored; a form gives its days back |
| `clone_edit`, `session_idle`, `team_last_admin` | smallest that show it | | the findings below |

The properties of `pages`, besides types: `LastAdminGoesOnlyOnAStaleCount` and
`InvitationAdmitsOnce` (Team), `UnaskedSettingsStay` (OrgForm), `EnabledIsComplete` and `SecretIsNeverDropped`
(Connectors), `DragReordersItsPhase` (TaskTemplates), `ChoicesStay` (TemplateEditor),
`AnalystsWordStands` (Indicators), `RelationshipsJoinAssets` (Assets),
`EveryFileIsAccountedFor` (Timeline), `SignedOff` (Desk and TaskPanel).

**Exceptions.** Some properties name a case in which the code does not keep the promise.
`DrainedIsSettled`, `DrainedReadyIsPushed` and `EventuallySettled` except a report whose
task was killed with its child process: it stays as the task left it. The push also excepts a version
whose push found the integration disabled. `ReadyIsWhole` and `ReadyStaysReady` except
states after a lost worker, whose task then runs twice, and deletions that fail half way;
`QuietMeansCurrent` a failure that hit the newest change. `SuccessIsStored` excepts names
that two runs took in one second, whose file may be torn, and uploads that found no
storage. `RetentionKeepsItsDays` speaks of a form that was filled: Save is enabled before, and
then stores the blank form's 30 days. `ActivityKeepsCookie` speaks of activity that makes a
request or comes with a valid token; section 4 says what the rest is worth.
`ChoicesStay` excepts saves that failed or overlapped.

Definitions called *slip* in their comment are used by no specification: each is
a plausible mistake in the definition it stands next to, and substituting it breaks
the property listed with it in `PROJECT.json`. This shows that the property can fail
on that instance.

**Why the bounds suffice.** The hazards need two of a kind: two handlers that
overlap, two executions of one report, two tabs, two changes so that one
supersedes the other. One fault is enough for the "unless" parts to matter, and the
regeneration properties speak of the newest change, so a second fault only makes
more states excused. A template besides the base seed lets a report be made for
either, and the template be deleted between the look at the seeds and the new row; with
one identifier in reserve for each of the two runs, one seed is alive at a time. One incident is enough because no
key, token or sequence is shared between incidents. In `Session` the horizon is
longer than the lifetime, the lifetime longer than the idle timeout, that longer
than an access token. In `Autosave` three edits let one tab have a save
superseded while the other one saves. In `IncidentList` three incidents make pages of
one and two differ, two clicks with a foreign change in between reach a page that is
gone.

In `pages`: two admins and two requests (each demotes the other), two invitations
and two guests (a link twice, two links for one address); two requests to the
organisation's settings, of which one reads before the other writes; five clicks on one connector section (fill, save, open, blank, save);
five on a template of up to four tasks in two phases; three on indicators with two
enrichments; four on assets (add two, link, delete) beside one foreign change or lost answer; a timeline with two entries, two
entry types and two files for four clicks (type, choose a file, add, and one more
while it uploads); one click beside one other
analyst in `Desk` and two in `TaskPanel`; three clicks in the template editor with two
requests on their way (two choices and a save, a fetch or leaving). Each has one
fault; in `Indicators` none: only requests about a deleted indicator fail there, and
events are lost. In `backups`: two runs and two names, which overlapping runs may share, two
storages, so that one can be switched for the other between upload and retention, and
retentions of whole years, of whole months and of a day more. The runs stop at their bounds, so deadlock is not checked; that the parts do
not get stuck before is what the liveness properties say.

**Fairness.** `ReportRegen`: a request that began is completed, workers work, time
passes. `ReportWorker`: the same; that a worker or child is lost is not an obligation and nobody has to
delete. `Autosave`: timers fire and requests are answered, nobody has to type. All is
weak fairness: each such step stays enabled until it is taken, because uvicorn
finishes its requests, Celery its prefetched task and the browser its timers.
The page modules state no fairness: what they promise is safety. Nothing a user does
is fair.

## 4. Findings

Three runs end in a counterexample to what the repository says of itself.

1. `clone_edit`: "Clones are … fully editable" (CHANGELOG), but the tasks of the
   seeded templates have no id, the clone copies them as they are, and the editor finds
   the task of a row by its id: a title typed in one row is given to all of them.
2. `session_idle`: the idle sign-out loads the page again, and the restore on load
   signs the user in with a cookie that lasts longer than the idleness, because the
   last refresh came after the last activity.
3. `team_last_admin`: "Cannot remove the last admin" (`users.py`), "a permanent local admin account is
   always retained" (the page). The count and the write of two requests interleave.

### Seen while modelling

Behaviour of the code that a reader should know of and that no run is spent on. Seven
items have a definition in their module, which TLC refutes at once: `VersionsUnique` of
ReportRegen (with a `Reserve` of 1), the same module with a `Backlog` of `Margin` or more, `UnsavedEditsStay` of
Autosave, `SessionCarriesOn` and `CookieEndsIdle` of Session, `SavedLimitsHold` of OrgForm,
`UntickedIsNotAdded` of Indicators. The last three contradict a document too.

*Reports.* Two requests read the same MAX(version_number) and both commit it;
deleting a template merges its versions into the base sequence. When the due message
waits longer than the token's margin of 300 s, its run takes itself for superseded
and nothing is regenerated.

*Autosave and sessions.* The 3 s timer of a completed save marks the section idle while
the user has typed again, and the editor goes back to the cached text; after a failed
save the text goes the same way. A refresh granted before a password change
and answered after it stores a revoked cookie over the fresh one. The user's own
save raises the banner about another user's change when it is answered while typing;
two saves of a tab that are applied out of order leave the older text. "Signed out after
60 minutes without activity" (CHANGELOG) is not all: activity that makes no request
does not refresh, once the timer of the page has found the user idle and let the token
expire, so who comes back and reads on loses the cookie while active. Idle
timeouts from 5 to 14 minutes end the cookie before an active page refreshes it;
signing out with an expired access token reloads the page and signs in again.

*Accounts and settings.* "Admins can change both limits … in Org Settings" (CHANGELOG), but
the form always sends `logo_url`: the schema takes a URL or null, so the empty field is
refused with 422, and a URL becomes an object that the JSON column cannot hold (500). No
save of the page changes anything; the MFA switch sends only itself and works. Admins are counted only when the row that was read is an admin's, so an analyst
who is promoted meanwhile is deactivated without a count. `invite_service` speaks of one active invitation
per address; Resend adds a second. `InviteAcceptPage` reads `user` of the answer's `data`.

*Incidents and tasks.* "Unassigned" is sent as null, which the endpoint ignores. A task
list can stay outdated, since the refetch may come before the commit; a failed tick
restores the whole list as it was. References are unique over all organisations
and counted per organisation.

*Timeline.* The form is emptied after its uploads, with what was typed meanwhile;
a second Add during uploads makes a second entry. The × of a queued file
submits the form. A pasted screenshot lands in form and dialog at once, and of two
images in one paste the last is kept. A removed attachment stays removed on Cancel.
Closing the dialog during a save does not stop it, and its end closes whatever dialog
is open. An emptied date raises outside the try block. The list shows the first
hundred entries.

*Indicators and assets.* "Select IOCs to add to this incident" (the dialog), but the
selection is only counted: the whole text is sent and everything found in it is added. Pasted text of several lines in which nothing is found is
swallowed. An enrichment sent before the commit finds no indicator. Two enrichments
can leave a confidence that does not match the results. Descriptions and
sources cannot be cleared.

*Reports.* The message of a killed child process is acknowledged: its report stays
"generating" for ever and a push is lost. A push that finds the integration disabled
leaves neither URL nor failure.

*Backups.* A lost job leaves the status at "running". Retention that fails after a
committed success adds a failed record. A cloud backup without a cloud is skipped
silently. Two runs of one second write one file, which may end torn under two
successes. Save on a page that has not loaded stores the blank form. What a storage
holds is not removed from it after another one is configured. *Settings.* `update_org` writes the whole JSON back, so a concurrent update
is lost; a blank SMTP logo keeps the old one; testing with a blank password tests
without it.

*Incident templates.* Edit on another template keeps the draft of the one being edited
and saves it under the other's id; a finished save closes whatever editor is open;
a task added after deletions repeats a sort order; hiding a system template hides it for
all organisations.

*Report templates.* Blocks edited while a save is on its way are taken for saved. The
editor is filled once per template, so one opened from an old cache keeps the old
layout though the fetch brings the new one, and Save then overwrites it. A
failed load shows an empty layout that Save would store. Enter twice in the dialog
creates two templates. A creation answered late moves the tab to the new template
whatever is being edited, and a pending colour goes to it.

*Attachments and live updates.* The file is stored before the row and deleted before
the row, and the hash job is sent before the commit. A client that reconnects does not
join its incident again.

## 5. What is proved

For any number of handlers, workers, tabs, templates, reports, accounts, entries, files
and requests, any bounds, and (`ReportRegen`, `Session`) any timing allowed by the
hypotheses:

| Theorem | Says |
|---|---|
| `ReportRegenProofs!PendingRowsHaveJobs` | without failures a committed pending row has a job |
| `ReportRegenProofs!NewestRunIsNotSkipped`, `FinalStateIsRegenerated` | under `Timely`: the newest run finds its token, the final state is regenerated |
| `ReportRegenProofs!InductiveHolds` | the invariant behind both |
| `ReportRegenProofs!BurstsAreRegeneratedOnce` | under `Patient`: a run of another change has waited for its debounce since the last run, whatever fails |
| `ReportWorkerProofs!NoReportIsAbandoned`, `NoPushIsLost` | whatever workers are lost, settled and pushed once drained, but for tasks killed with their child process and pushes that found the integration disabled |
| `ReportWorkerProofs!ReadyReportsAreWhole`, `ReadyReportsStayReady` | a ready report has its complete file, and no step but a deletion takes ready back, as long as no worker is lost; killed children do no harm |
| `AutosaveProofs!SavedIsStored`, `UnsavedDraftIsOnItsWay`, `ForeignEditsAreAnnounced` | the safety properties of the autosave |
| `SessionProofs!LifetimeIsAbsolute`, `RevocationIsFinal` | absolute lifetime and revocation |
| `SessionProofs!ActivityKeepsSession` | the cookie of a user whose activity makes requests, or comes while the token is good, does not run out, however the refreshes of the tabs race |
| `IncidentListProofs!NoPageIsEmpty` | a list with matching incidents shows some, for any number of incidents, page sizes, deletions and orders of answers |
| `IncidentListProofs!ViewsHaveURLs`, `ImplementsItsPromise` | every view is read back from its URL; the list implements `ListView` (initial states and every step) |
| `PagesProofs!LastAdminNeedsAStaleCount`, `InvitationsAdmitOnce` | any number of admins, requests, links and tabs |
| `PagesProofs!SettingsAreAskedFor` | any number of overlapping updates of the organisation's settings |
| `PagesProofs!TheAnalystsWordStands` | any number of enrichments that write what they read long ago |
| `PagesProofs!RelationshipsJoin` | relationships have their ends; while the page shows no asset that is gone, those it lists are stored or were removed by somebody, whichever answers are lost |
| `PagesProofs!FilesAreAccountedFor` | every list of files, every interleaving of uploads, saves and deletions |
| `PagesProofs!ChoicesAreKept` | a chosen colour or company name is waiting, being saved or stored, however saves and readings overlap |
| `PagesProofs!EverythingIsSignedOff` | any number of overlapping and lost updates of the head and of tasks |
| `PagesProofs!DragsReorder` | a drag reorders its phase and nothing else, in a draft of any number of tasks and phases |
| `BackupsProofs!RetentionIsKept`, `SuccessesAreStored` | every number of days; any number of overlapping, failing and dying runs and of storages |
| `ConnectorsProofs`, `PagesProofs`: `WhatIsOnIsComplete`, `SecretsStay` | whatever requests fail or overlap |
| `TypeCorrect` in each module (in `PagesProofs` of `Team`), `PagesProofs!PagesTypeCorrect` | types, the latter of all ten pages |

`ConnectorsProofs` proves its theorems of the module alone; `PagesProofs` instantiates it
(`ConnectorsTheory`) with the variables of `Pages` and carries the theorems over to the
formulas the run checks: the definitions are the same, and a step of another page
changes none of the variables but the shared counters, in which the inductive
invariants are monotone or silent.

**Assumptions.** `ConstantsAssumption` or the like of each module that has one:
bounds are natural numbers, the set of report identifiers is finite, the base seed is
not a template, a token is refreshed before it ends; for the list, that pages have
at least one row and the empty word matches every incident. `PagesAssumption`: there is
a title, a severity and an assignee to choose, the values that stand for "none" are not
among the others, there are finitely many assets, "note" is an entry type, "active" a
status of indicators, "suspected" one of assets, the empty text a company name, there is
a colour, the report templates of the start are among those that may come, the number of
tasks is bounded by a natural number. `BackupsAssumption`: retentions are natural numbers,
and a filled backup form holds what its fields can. TLC evaluates all of these. `Timely` is a hypothesis of the theorems that need it and not an
assumption, since a configuration can violate it; so is `Patient`, that the broker
redelivers no earlier than some debounce is over (an hour, the longest debounce the
settings accept), and that the tab's user is one of the admins in the theorems about
`Team`.

**ReportRegen.** `QuietMeansCurrent` speaks of the moment when nothing is left to
do and is not inductive. `Inductive` follows the newest change from its SET on:
the stored token is the newest one or none (`TokensHandedOut`), a token not
scheduled yet is known to its handler only (`UnscheduledIsPrivate`), the TTL runs
from the SET (`TtlRunsFromSet`) and so outlives the latest check of the run
(`TokenOutlivesRun`); no handler can still commit when that run checks
(`RunWaitsForHandlers`); hence a seed without a current version has a
handler, message or run ahead of it that will make one (`StaleSeedIsPlanned`).
A deletion of a template in the plan makes the whole insertion fail; this is the
disjunct `~Exists(t)`, excused as a fault when it happens.
`OneRunPerDebounce` needs no timing and no absence of faults, only `Spaced`: a
run passes its check with the newest token, so when the next one passes, its
message is newer than the last run, and the delay it has left and the age of that run
add up to a debounce from the moment it was scheduled.

**ReportWorker.** `DrainedIsSettled` is strengthened to: an unfinished report has a
message, is being worked on or had its task killed (`UnfinishedIsWorkedOn`), and each task
is only ever at its own points. `ReadyIsPushed` is the same for the push. A lost worker is harmless because it
gives back the very message whose row it leaves behind; a lost child is not, and is remembered.
`ReadyIsWhole` and `ReadyStaysReady` rest on `ReadyInv`: until a worker is lost a report
has one execution (`OneExecution`), which the status tells the point of
(`StatusTellsTheRun`), the file is as far as that point says (`FileOfRun`), and what a
ready row lacks an analyst is deleting (`DeletionsCounted`).

**Autosave.** The generation counter ties state and requests: no request is of a
generation its tab has not reached, the one of the current generation carries the
draft and excludes a pending debounce, "dirty" means a debounce, "saving" a
request. Outside of "dirty" and "saving" the editor shows the cache.

**Session.** Both theorems are about what has been issued, and an answer in flight
has been: `Lifetimes` and `Revocations` bound cookies and tokens of answers as well
as the stored ones. Most steps issue nothing (`MostStepsAreQuiet`); the four others
are sign-in, password change, serving and receiving a refresh.
`ActivityKeepsCookie` speaks of moments without requests; `Usage` is what holds in
between. A token is used within its lifetime (`Tokens`) and was received no later
than the cookie was issued, so the cookie is as young as the last use with a valid token demands
(`Kept`); a use without one has a refresh on its way that carries the cookie of that moment, or
the cookie has become newer since (`Answers`). A page that loads again drops such a request
and sends another with the same cookie, which is where a proof without `Renews` fails.

**IncidentList.** The refinement needs little about the state (`Placed`: the
history holds list URLs and workspaces, the remembered URL is that of the list on
screen or the last one, cached answers are answers) and much about the operators: a query survives `ToSearchParams` and
`ParseListQuery`, `UpdateQuery` keeps the page only when nothing else changes, and the
effect that fits the page only turns pages. Each action is then shown to narrow, turn,
revisit or stutter, also when the effect runs in the same step. For the types, `Fits` says
that what is on screen without an up-to-date answer has been asked for and that the
history keeps its bound. `NoPageIsEmpty` rests on three facts. The effect that fits the
page comes to rest whatever totals the pages' answers have, because each rendering lowers the
page (`FittedLowers`: the URLs it leads through have one with the least page). So what
is on screen with an up-to-date answer is within that answer (`Within`, a part of
`Placed`). And the answer of such a page has a row (`Filled`): in a finite order every
rank below the number of elements is somebody's (`EveryRankIsTaken`, by counting), and
the first place of a page that exists is such a rank (`PageStartsWithin`).

**Team.** `JobsSound` ties a request to what it has read: whom it asks about, that the
account was there (`Found`), and that its check found an admin besides the one who is to
go (`NotAlone`): by the count if the row was an admin's, else because who asks is one.
Who was an admin at the check is kept with the request (`admins`). `AllowedOffByOne` shows that the count as such matters. For invitations `AcceptedHaveAccounts`, and the
unique address at commit, which makes the second of two acceptances fail.

**Backups.** `RunsHaveFiles` and `RunsStore`: a run that has written has a file whose name
is not past the retention, and, unless another run took the same name, has it whole where
its record will say; retention only removes names that are past it, and those are never
given again. Whoever takes a name that is taken marks it (`shared`), so what another run
truncates is a shared name.

**Connectors.** `RowsSound` says it of the stored rows, `SentSound` of the request on its way
(whatever the form was filled from, it is complete together with what is stored),
`SeenSound` and `EnableSound` of the form.

**The other pages.** A step of `Pages` is, seen from one page, a step of it or none
(`OnePageSteps`), so each page has an inductive invariant in its own variables.
`OrgInductive`: a request that is past its start holds settings of the organisation, so what it writes is,
field by field, what it was asked for or what it read. `RowsHaveStatus`: an enrichment that was started before a
change merges columns into the row as it is, never the row it read. `AssetsInductive`: what the
page shows is stored, or was removed by somebody, or lost an end, and a new asset takes
no name of an end that is shown. `TimelineInductive`: a loop over files moves each file
from those left to those taken or failed (`Accounted`), and no entry's files shrink but by a request
about it. `DeskInductive`: disposition and times are set and never taken back, so a
request that found them in the row it read may count on them when it writes later, and
what it did not find it writes itself (`Dated`). `PanelInductive`: what a request writes
is a status with the mark that goes with it, however old the row it read.
`EditorInductive`: each colour and company name chosen waits for the timer, is in the one
save under way, or is stored (`EachIsSomewhere`); a save that has read its row knows what is
stored (`ReadIsStored`); what is being created is not there yet and nobody has read it (`Apart`).

*Drags.* `TemplatesInductive` says that every list of tasks, stored, shown, drafted or on
its way, is a sequence of tasks. What a drag does to it is a chain of lemmas about
lists. The phase of a list is the places of its tasks in order, and the k-th of them is the
one with k - 1 before it (`RanksAreOneToOne`, by counting, in place of an induction over
the list); so a selection is one-to-one with its places. Moving a task loses none and
doubles none (`MovedIsThere`); putting the renumbered phase
behind the others keeps every other phase, task for task and in its order; and sorting by
numbers that already ascend is the identity, so what is shown is the order of the list.

*Types.* What a page shows was stored or sent at some time, so the types are invariants of
every copy: the rows, the lists of the tab, forms, and what is on its way, with what each
request read (`AssetsTyped`, `IndicatorsTyped`, `EditorTyped`; the other pages' invariants
above contain theirs). Two of them say more than the types. A template that is written to exists,
because a flush holds the lock on its row until the commit and a request that has flushed
had seen the row (`Locked`); without this an update of a template deleted in between
would have no row to go to. And the block whose settings are shown is one of the
layout (`MarksOne`), through additions, removals, drags and answers.

**Only model-checked.** The liveness properties (`EveryChangeReachesEverySeed`,
`EventuallySettled`, `DraftIsStored`): liveness under fairness is out of the
prover's reach. Every invariant and every action property that a passing run checks has
a theorem. No module declares a recursive operator.

Run `tlc -config X.cfg MCModule.tla` for a run of `PROJECT.json` and
`tlapm ModuleProofs.tla` for the proofs.

## 6. What is left

1. An abstract life of a report (pending, ready, failed, deleted) that `ReportWorker`
   implements and that replaces `Render` in `ReportRegen`, as a second refinement.
2. Liveness of the pages: that a list ends up showing what is stored, which today it
   does only if the refetch comes after the commit.
3. `Tasks` with creation, editing and deletion; `Attachments` with the hash job.
