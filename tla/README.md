# dashboard-pro: formal models

TLA+ models, TLC runs and TLAPS proofs for the dashboard-pro repository: a
NestJS API (`apps/api`) on PostgreSQL through Prisma, and a Next.js web client
(`apps/web`). Users found organizations or join them by a code, work in one
organization at a time on projects, tasks, deals, invoices and orders, and are
told by mail, SMS and socket what happens.

No handler of the API takes a lock, and few of them open a transaction. A
handler reads, decides and writes in separate `await`ed statements, so two
requests interleave between any two of them, and a crash, a failed mail or a
redeploy leaves whatever was committed so far. The web client keeps copies of
the server's state, in localStorage, in a cookie and in a query cache, and
writes some of them back. That is what the models are about.

Contents: [Inventory](#inventory) · [Modules and the code](#modules-and-the-code)
· [Runs](#runs) · [Fairness](#fairness) · [What the runs found](#what-the-runs-found)
· [Proofs](#proofs) · [Limits](#limits) · [Not modelled](#not-modelled) ·
[Plan](#plan)

## Inventory

`PROJECT.json` lists every component with its sources and status and every
hazard with its line. In short:

| Part | State it keeps | Operations | Interacts with | Hard behaviour | What makes it correct |
| --- | --- | --- | --- | --- | --- |
| Organizations and membership | `Organization`, `OrganizationMember`, `User.activeOrganizationId` | found, join by code, switch, change a role | teams (a join puts the member on the default team), every request (the JWT names an organization) | a join is five statements without a transaction; roles are checked against earlier reads | one OWNER; an active organization is a membership; only authorised role changes |
| Teams | `Team`, `TeamMember` | list, create, add, remove; the first three reads of a request may run a backfill | membership | two backfills at once; two counts from different moments decide whether it runs | one default team with every member; nobody on a foreign team |
| Sign-in, JWT, guards | claims of the tokens | login, switch, per-request lookup of organization and role | all handlers | claims outlive what they were made from | a claim names a membership |
| Accounts | `User` row of an address, links in mails | register, verify, resend, forgot, reset, change password | mail | mails that fail, arrive late or are misreported; stale requests; cooldowns | verified only by the link, and for good; nobody is stuck |
| Organization settings | `Organization.name`, `.settings` (JSON) | appearance, pack, module list; a questionnaire suggests one | navigation and module guards of the web client | each update rewrites the JSON it read | settings stay consistent; nothing is lost without an overlap |
| Flow workspace | `OpsWorkspaceState`, localStorage, page state, two timers | GET, PUT, edit, delete, switch organization | browser, network, React rendering | answers that overwrite edits, timers that restart each other, a key that ignores the organization | what the user did reaches the server, and only the right one |
| Deadline reminders | `Task.lastDeadlineReminderSentAt` | hourly scan, reminder by hand, weekly digest | tasks, preferences, mail, SMS | overlapping scans, slow sending, rows changed since the read | everybody due is reminded, nobody too often, nobody of what is done |
| Notification preferences | `UserNotificationPreferences` | read with defaults, update | reminders, mail, sockets | read at each send, changed at any time | no message against the preferences of the moment |
| Projects, tasks, comments, tags, time entries, deals, milestones, customers, invoices, suppliers, orders, products, events | one row each, foreign keys | CRUD, bulk update and delete, link and unlink | each other, realtime events, mail | one row is checked and another written by id, queries later; deletions that cascade or set references to null | every row names and is named by rows of its organization only (which rows with two parents break), and stays reachable in it |
| Realtime events | sockets, rooms | connect, emit | tasks, projects, pages | each event waits for two queries, so events overtake each other | a page that applies the events ends up with the rows |
| Newsletter | `NewsletterSubscription` | subscribe, confirm | mail | cooldown stamped before the mail, two tokens for one row | confirmed only by the link, and for good |
| Uploads | files on disk and their rows | save, delete | tasks, projects | disk and database fail separately; a redeploy takes the one and not the other | a row has its file, a file its row |
| Web session | localStorage, cookie, a store per tab | sign in, sign out, switch organization, save the profile, 401 handling, redirects | all pages, other tabs | three copies of one fact, answers that bring a token or a profile late, 401 of a token that has been replaced | token, profile and cookie agree; signed out is signed out, in every tab one looks at |
| Web pages: the query cache | react-query's entries | mount a query, save, set, mark and ask again, guess | the API, the session | every save names by hand the keys it makes outdated; GETs overtaken by saves; guesses | what is saved is shown |
| Web pages: forms | the inputs of 45 forms | open, type, send, cancel; close, clear or refill on an answer | DTOs and services of the API, the query cache | each field passes four lists written by hand (input, handler, DTO, service); answers and rows read again arrive while the person types | what is reported as saved is stored as entered; what the page lets go is accepted; what is typed stays |
| Web pages: navigation | the path, the profile, the product tour and its mark in localStorage | links and shortcuts, module guard, onboarding page, tour | profile and settings of the organization | four effects and a timer navigate on their own, each from a table of modules of its own | redirects end, on a page one may be on, with the tour pointing at something |
| Users, activity, audit | one row each | update, append, export | profile form, session | little | scoped to the organization |
| Dashboard, reports, finance, command feed, admin, health | none | reads | all of the above | a read follows references and ids without asking for the organization | an answer shows rows of one organization only |
| SMS, API shell, billing stub, demo content, shared types, deployment | none of their own | — | — | — | — |

## Modules and the code

One convention throughout: every statement of a handler that talks to the
database or to a mail server is an action of its own, with the handler's local
variables in `req[r]` (`scans[s]`, `nudges[n]` in `Reminders`). Code between two
`await`s belongs to the action of the statement it follows. A handler whose
steps nobody can tell apart (one statement, one insert-only transaction, checks
of rows that are never deleted) is a single action. `Restart` is a crash or
redeploy: requests in flight are lost, rows stay (files are not rows: `Work` tells the
redeploy apart). History variables are marked
as such where they are declared; no guard reads them, except that an id that was
used once is not handed out again (`home` in `FlowSync`, `sentAt` in
`Reminders`). Definitions named `Bug...` are not part of a specification. Each is
a definition of the model changed as a plausible mistake in the code would change
it, and is there to show that a property notices.

### Workspace

`role`, `activeOrg`, `teamOrg`, `isDefault`, `onTeam` are the tables
`OrganizationMember`, `User`, `Team` and `TeamMember`; `tokens` is the set of
`organizationId` claims a user's JWTs carry.

| Code | Actions |
| --- | --- |
| `auth.service.ts` login, `active-org.util.ts` | `Login`, `PickOrgs` |
| `organization.service.ts` createForUser (one transaction) | `CreateForUser` |
| joinWithCode | `JoinLookup`, `JoinCreateMember`, `JoinFindDefault`, `JoinFindOldest`, `JoinUpsert`, `JoinActivate` |
| switchActiveOrganization | `SwitchActiveOrganization` |
| updateOrganizationMemberRole | `StartRoleChange`, `ReadRoleTarget`, `WriteRole` |
| `jwt.strategy.ts`, `org.guard.ts`, `roles.guard.ts` | `ServedIn`, `CanManage`, the actor's role in `req` |
| `team.service.ts` shouldRunDefaultTeamSync, `team-default-sync.policy.ts` | `CountOrgMembers`, `FindDefaultTeams` (either order: `Promise.all`), `ShouldRunDefaultTeamSync`, `DefaultTeamSyncRequired` |
| ensureDefaultTeamAndOrgMembers (transaction, READ COMMITTED) | `TxFindDefaults`, `TxChooseDefault`, `TxReadMembers`, `TxCommit`, `TxAbort` |
| findAll, findOne, addMember, create, removeMember | `FindAll`, `ServeList`, `StartAddMember`, `AddMember`, `CreateTeam`, `RemoveTeamMember` |

The transaction of the backfill is not atomic in the model because it is not in
PostgreSQL: each of its queries sees what is committed when it runs. Its writes
become visible at `TxCommit`; until then the rows it updates are locked
(`LockedBy`) and the rows it inserted are reserved (`Reserved`). Teams are
numbered in the order of `createdAt`, so "oldest" is "least". Ids of
organizations and memberships are random, so "first by id" is "any".
Organizations in `LegacyOrgs` exist at the start, with teams none of which is
the default: the migration added the column with `false`.

`alone` is a history variable: this team request began when nothing was in
flight and nothing has run since.

### Accounts

`OptIn` says what a registration by mailed link promises of one address: one
account at a time, confirmed only once its owner has shown that the address is
theirs, and then for good. `Accounts` is how the code does it, and implements it
(`KeepsPromise`: `account` is the id in the row, `confirmed` that it is
verified, `shown` the accounts whose link was opened or that were never asked
for one).

The state is the `User` row of one address, and `skip`, whether
`SKIP_EMAIL_VERIFICATION` is set, which a redeploy may change (`Restart`). The row: `id`, `status`
(`emailVerifiedAt`), `vLink` and `rLink` (the two token hashes), `cooling` (less
than two minutes since the last verification mail). Addresses are independent,
because every lookup is by address or by a link and every write by the id read;
an account that changes its address is left out. `inbox` holds the links the
owner can open. A mail is an action `Send(r, arrives, reported)` in which
arrival and reported result are independent of each other. Time is the cooldown
running out (`CooldownOver`) and links expiring (`Expire`), at any moment.

| Code (`auth.service.ts`) | Actions |
| --- | --- |
| register | `RegisterRead`, `RegisterCreate`, `RegisterAgain`, `Send`, `RegisterUndo` |
| resendVerification | `ResendRead`, `WriteVerifyLink`, `Send` |
| verifyEmail | `VerifyRead`, `VerifyWrite` |
| forgotPassword | `ForgotRead`, `WriteResetLink`, `Send`, `ForgotClear` |
| resetPassword | `ResetRead`, `ResetWrite` |

### OrgSettings

One organization's appearance, pack, module list and onboarding flag. An update
is a read (`ReadForAppearance`, `ReadForPack`, `ReadForModules`) that keeps the
row it saw, and a write (`UpdateWorkspaceAppearance`, `UpdateOrgPack`,
`UpdateOrgModules`) that puts the changed row back as a whole.
`ResolveEnabledModules`, `ModuleSetupPending` and `NeedsPackOnboarding` are the
functions of `org-settings.util.ts`. `chosen`, `wanted` and `stale` are history:
the modules and values set last, and whether some write has overwritten one it
had not read.

### FlowSync

A workspace is the set of its own flows; the contents of a flow travel with it.
`server` is the table, `local` the browser's localStorage, which is also the
page's state, `view` what React has rendered and what callbacks have captured.
`persistIn` is the editor's 500 ms timer (`FlowWorkbench.tsx`), `pushIn` and
`payload` the 900 ms timer of the PUT with what it will send
(`use-ops-process-store.ts`), `late` such a timer that outlived its page, `puts`
the requests on their way. `home` (where a flow was made) and `missed` (whose
last PUT was lost) are history.

| Code | Actions |
| --- | --- |
| mount effect: GET, answer, first rendering | `Mount`, `GetWorkspace`, `PullDone`, `Render` |
| commitOverlay and the operations on top of it | `CommitOverlay`, `AddFlow`, `DeleteFlow`, `UpdateFlowMeta`, `HideSeedFlow`, `PersistGraph` |
| the two timers | `Show` (starts and stops the editor's), `Tick`, `PersistGraph`, `PushFires` |
| gallery, editor, other pages, `TopBar.tsx` switch | `OpenEditor`, `CloseEditor`, `Leave`, `SwitchOrganization` |
| `operations-os.service.ts` | `GetWorkspace`, `PutWorkspace`, `PutLost` |

### Reminders

The `Task` fields a scan looks at, the preferences it reads, and the clock in
hours. `ScanStart` takes the rows with the time of the read; `ScanSkip`,
`ScanSend`, `ScanStamp` handle them in any order (the query names none);
`ScanEnd`. `NudgeSend` and `NudgeStamp` are `POST /tasks/:id/nudge`. `Create`,
`Update`, `Remove` are what task.service.ts does to those fields, one field at a
time, and `UpdatePreferences` the user's choice. `cron` says that the scan of
this hour has not started; `Tick` passes only while another scan could start, so
the number of `Scans` bounds how far scans overlap. `sentAt` (the last mail a
scan sent of a task), `touched` (tasks changed within this hour, or whose mail
failed), `left` (tasks that matched and that the query left out, more than `Take`
matching) and `complete` (a scan of this hour ran to its end) are history. `Due`
is what the scan does, at every boundary: a deadline still ahead, within the horizon
and within the days asked for.

### Session

One browser at the web application. At the server: `claim[n]`, what the `n`-th
JWT says, `dead`, those that have expired, `member` and `active`. In the browser:
`ls` (localStorage `token` and `user`) and `cookie`, which all tabs share. In
each tab: `page` and `next` (a navigation under way; `hard` is a new document),
`store` (the zustand store), `check` (AppShell's timer of half a second), `me`
(AppShell's `GET /users/me`), and `reqs`, everything else in flight that brings
a token or a profile or may be answered with 401. A request is sent, served, and
answered in separate steps, so that any other tab may act in between. `shown` are the
tabs that can be seen (`Turn`). `acts` counts what the person does; `clean`, and
`mixed` in a stored profile (see `Merge`), are history.

| Code | Actions |
| --- | --- |
| `middleware.ts`, a document or a client-side navigation | `LoadDocument`, `Navigate`, `Middleware` |
| `AppShell.tsx` | `ShellEffect`, `CheckToken`, `AnswerMe`, `MeAnswered`, `MeFailed` |
| `api.ts`, answer 401 | `Refuse`, `Denied`, `PollDenied`; other failures: `Failed` |
| login page, `auth.service.ts` login | `SubmitLogin`, `ServeLogin`, `BuildAuthProfile`, `LoggedIn` |
| `TopBar.tsx` switch, setup page, `organization.service.ts` | `Switch`, `Found`, `ServeOrganization`, `BuildAuthProfile`, `OrganizationAnswered` |
| settings page | `SaveProfile`, `SaveModules`, `ServeSave`, `ProfileSaved` with `Merge`, `ModulesSaved`, `ServeRefresh`, `Refreshed` |
| `TopBar.tsx` sign-out, links, the address bar | `Logout`, `Click`, `Reload` |
| JWT expiry | `Expire` |

### Work, Tenants and Reads

The records of an organization and the handlers that write them, in one module,
because what a handler reads of one kind decides what it writes of another: all
of `task`, `project`, `deal`, `comment`, `tag`, `timeentry`, `customer`,
`invoice`, `supplier`, `purchasing`, `product`, `calendar` and `upload.service.ts`.
`st` and `ref` are the rows and their foreign keys, `amount` what an order costs,
`rank` the milestones' `sortOrder`, `disk` the upload directory. An id is given to
one row ever, so `kind` and `home` (the organization a row is made in) do not
change. A request is what it writes (`act`, `id`, `new`, `sets`) and the queries
it makes before, in the order of the code (`todo`): each is a step of its own,
`Look` or `Refuse`, and so are `ReadMaxOrder`, `UnlinkFile` and the write
(`WriteCreate`, `WriteUpdate`, `WriteDetach`, `WriteRemove`, `WriteUntag`,
`WriteBulk`), which fails (`WriteFails`) where the row is gone or PostgreSQL's keys do
not hold. `OnDelete` is the schema: what `Delete` takes along and what it sets to null.
`BulkDelete`, and `BulkUpdate` without a project, are single statements; one that moves
tasks to a project looks that up first. There is one definition per
route (`ProjectCreate`, `UnlinkProject`, ...), which says what it looks up. Comments,
time entries and files may be sent with a task, a project or both (`Parents`), of which
the code looks up the first alone (`FirstParent`). A milestone takes the place that the
client asks for, if it asks (`Placed`, `Places`). `Restart` keeps the container and with
it the upload directory; `Redeploy` makes a new one.

The history variables name what the code does not keep: `crossed` the rows whose
project is of another organization, `placed` the milestones whose place a client has
chosen, `raced` those numbered while another was being added, `wiped` the files of a
former container, `cut` those whose deletion a restart cut off, `lost` the rows whose
task or project was deleted.

`Tenants` is what the services promise: every organization has records as if it had
a database to itself. A step changes the records of one organization, and no
record names one of another. `OrgsStayApart` is the refinement, for the rows that do
not cross.

`Reads` is what comes out again: for each GET route, the ids of the rows of
`Work` its answer shows, with the references its `include` follows (`NamedBy`,
`Naming`, `Lists`, `Details`, `Shown`). The two queries of a route that first looks a row up
are taken at one moment; filters, windows and figures are left out.

### PageTables and Pages

`PageTables` is what each page does with the query cache, read off its source:
the queries it mounts, which of them answer an error with an empty list, which
it polls, what its buttons ask again, and its saves: which keys the answer of
each sets, marks (`refetchType: 'none'`), invalidates, refetches by a callback,
and where it leads to. It has one definition per page or component, and `Routes`
puts them together.

`Pages` is the cache of a tab that walks through those pages. Entries do not
depend on each other, so a behaviour follows one (`query`, any of them): what it
shows is the number of saves the server had applied when the data was read, `Blank`
for an error's empty list, or a guess. A GET is asked, read and answered in
separate steps; it may fail, be repeated, be joined by a mount and dropped by a
refetch, as in query-core 5 (`Fetch`, `Refetch`, `Mount`, `Invalidate`,
`SetData`). A save is sent, applied and answered; the answer may be lost. `Age`
is `staleTime`, `Collect` is `gcTime`. `due` and `own` are history: the newest
save the entry has to show. Pages that treat the entry alike are one page (`Kind`,
`Around`).

The handlers of `Pages` can only work if the tables keep some rules: a guess is shown
only where the answer will be set, no save leads to its own page, a save that owes an
entry sets or names it, and one that stays on a page with the entry sets it or reads
it again. `Coherent` states them, `QueriesAssumption` of every entry. TLC evaluates it
in the run, so a page that forgets a key is reported as a false assumption, and the
proofs use nothing else of the tables.

### FormApi, FormTables and Forms

`FormApi` is the API's end of a form: per DTO, which fields it names and which
values it accepts (an unnamed field is cut off by the pipe of `main.ts`), and per
service method, what it stores of each (`Stored`, `Updated`, `IfSet`, ...).
`FormTables` is the page's end, one definition per form: what the input takes, what
the handler sends of it (`IfGiven`, `Trims`, `OrNull`), which values it stops, whether
it waits for the answer, what an answer closes and clears, and when the row that is
read again refills the input. A value is one of seven: nothing, blanks, zero, the
standard value, one of the wrong form, and two proper ones. The formats of
addresses, colours and phone numbers are not told apart further.

`Forms` is one visit to one form. The fields of a form do not depend on each other
(choosing a product, which fills its invoice item, apart), so a behaviour follows
one field of one form, any of them: the input (`shown`), the server's row (`row`), the page's copy
(`seen`), and each request from `SubmitForm` or `Pick` over `Serve` or `Fail` to
`Confirmed` or `Reported`; `OthersSave` and `Reread` come in between. `typed` and
`told` are history: what was entered and is not saved yet, what was reported as
saved. Nobody is assumed to count on what is typed while the form says that it is
saving.

Where the code does not keep a property, the fields are named in sets of their own
(`NeverStored`, `NeverEmptied`, `AnHourLater`, `Unwaiting`, `KeepsRefused`,
`RefusedAnyway`, `Refilled`), which [What the runs found](#what-the-runs-found)
lists with their lines; every other field has to keep it.

As for the pages, the rules that the tables have to keep are stated apart from the
handlers: by `Covers`, some set holds every value that can be in the input, the row
and the copy, and what the API answers to each is what the form does not excuse; by
`Fits`, a form that is not excused sends one request at a time (`Solo`) or has one
value to send, locks what is typed into while it saves, and is not refilled.
`FieldsAssumption` states them of every field, and TLC evaluates it in the run.

`Browser` puts `Pages` and `Forms` together for TLC: they share no state, and a
behaviour is one of either.

### NavTables and Navigation

`NavTables` is the modules: the packs, the questionnaire's suggestion
(`onboarding-suggest.util.ts`), the modules every list gets, and the four tables of
the web client that say what a list allows: the guard's (`route-modules.ts`), the
sidebar's (`module-nav.ts`), the steps of the product tour, and the pages that have
something for a step to point at. A path is its first segment.

`Navigation` is one tab of a person whose session is valid. `place` is what is on the screen, `next` a
navigation under way, which the next one replaces; `me` the profile in the store,
`asking` AppShell's `GET /users/me`, `org` what the server would say; `tour` the
product tour (open, step, mark, timer), `drawer` the sidebar on a narrow screen,
`choosing` a choice of modules whose profile is read again. Every rendering runs the
effects, whose last call of the router counts (`Redirect`). `acts` bounds what
people do, `hops` counts the redirects since, `torn` says that the tour was open
while the modules had to be chosen: all three are history.

| Code | Actions |
| --- | --- |
| `AppShell.tsx`, effect on the path, its answer, the guard | `Arrive`, `ServeMe`, `AnswerMe`, `ModuleGuard` |
| `onboarding/page.tsx`, effect and saves | `OnboardingPage`, `ChooseModules`, `Chosen` |
| `ProductTour.tsx`, timer, layout effect, buttons and keys | `TourOpens`, `TourPushes`, `NextStep`, `PreviousStep`, `SkipTour`, `OutroLink`, `RestartTour` |
| the same, a list that has become shorter; the sidebar | `Clamp`, `Drawer` |
| links, shortcuts, search; a document; others' requests | `Go`, `Load`, `OthersChange` |

Assumed: nobody asks for another tab of the page they are on within the moment
that a redirect takes, and the overlay of an open tour takes the clicks that would
choose modules. `AppModules` puts `OrgSettings` and `Navigation` together for TLC:
a behaviour is one of either.

## Runs

Every constant set below is small because every property below speaks of few
participants: who changes a role, whose role, and who else interferes; two
requests and one row; a flow, its organization and another one; two tabs and one
storage; a save and the GET or save that crosses it. Two requests in flight give
every interleaving of two handlers; the theorems cover any number.
Symmetry is used only where no definition and no property tells the permuted
values apart, and never with a liveness property.

| Run | Instance | Shows |
| --- | --- | --- |
| `workspace` | 2 users, 1 organization, up to 2 teams, 2 requests; or 2 users, a legacy organization with 0 to 2 unflagged teams, 2 requests; joins and team requests | every handler against every other, restarts anywhere: all safety properties of `Workspace`; `UndisturbedRequestRepairs`: whatever racing backfills, aborted transactions and half joins left, the next request that runs alone repairs |
| `accounts` | 2 ids, 2 links, 2 requests (at most one of them about a reset), fair | one address with any two handlers in flight, verification on or off, redeploys that change it: `ResetLinkOnlyForVerified`, that it implements `OptIn` (`KeepsPromise`), and `EventuallyVerified` |
| `settings` | 1 appearance field, 2 packs over 3 modules, 2 updates; or 3 module lists, any role, 2 acts anywhere in the app, the tour at any step | all safety properties of `OrgSettings`; `RedirectsEnd`, `RestsWhereItShould` of `Navigation` |
| `settings_onboarding` | a new organization, 1 appearance field, 2 packs over 3 modules, 2 updates | `OnboardingStaysComplete` is violated |
| `flow_sync` | 1 browser, 2 organizations, 2 flows, 1 PUT at a time, any of them lost | `SavedWhenQuiet`: the timers of the page, of the page before and of the editor leave the server with what the browser holds, and a PUT makes good for those lost before it |
| `flow_editor` | 1 browser, 1 organization, 1 flow, fair | `ChangesAreSent` is violated while an editor stays open |
| `flow_tenant` | 1 browser, 2 organizations, 1 flow | `FlowsStayInTheirOrganization` is violated |
| `reminders` | 2 tasks of which a query takes 1, 1 user who asks for 0, 1 or 4 days, 1 scan, 1 nudge, failing mails; a tick is a day, the horizon 2, the deadline on day 4 | `DueTasksAreReminded` and `RemindersAreSpaced` against edits, deletions, nudges, changed preferences, restarts |
| `session` | 2 people (one with 2 organizations, one with none), 2 tabs, 1 request at a time next to each tab's `GET /users/me`, 2 tokens, 3 acts, tabs seen or hidden, fair | `StoresAgree`, `SignOutSticks`, `SignedOutTabsLeave` with 401 answers, expiry, failures and late answers at any point |
| `work` | 2 organizations, 2 requests, 16 scenes of two to four rows each, restarts and redeploys | but for rows that cross, no request touches or names a row of another organization, as `Tenants` (`OrgsStayApart`), and no answer shows one beyond what such a row names (`AnswersStayInOrg`); `RefsAreLive`, `RowsAreShown`, `ListedFilesExist`, `TotalsFit`, `MilestonesInOrder` |
| `pages` | every entry of the cache, 2 saves, every page; or every field of 45 forms, 2 requests | `SavesAreShown`, `OwnSavesAreSeen`, `GuessesAreRevoked` with GETs and saves that are lost, late or overtaken; `SavedAsShown`, `PassedFormsAreAccepted`, `TypedIsKept` |
| `work_orgs` | 2 organizations, a project of each, a task and a comment of one | `WorkspacesAreIsolated` is violated |

What the bounds leave out, and why that is enough:

- *One organization, up to 2 teams.* Only the active organization of a user ties
  two organizations together, and the theorems cover any number of them. The
  backfill distinguishes no default team, one, and several; several arise from
  two. A third team would only repeat the second.
- *Ids and links of `Accounts`.* A link is reused when it is no longer in the
  row, in a mail or in a handler, an id when nothing refers to it: the bound is
  on what exists at one time, and discarded mails free their link; where no
  fresh one is available a request waits. The theorems cover any number of
  requests, ids and links.
- *`Slots` of `FlowSync`.* One PUT at a time means that requests arrive in
  order, which is the assumption `SavedWhenQuiet` states: with requests that
  overtake each other the older workspace may be the one that stays.
- *Ticks.* In `FlowSync` 900 ms are two ticks and 500 ms one: the order in which
  timers started at different moments fall due is kept, and the editor's is due
  before the PUT's, which is all the code depends on. In `reminders` a tick is a
  day, so that a deadline, a window, the horizon and a stamp that goes stale fit
  in three ticks: the code's 24, 36 and 192 hours, rounded to whole days.
- *One scan in `Reminders`.* Scans follow each other without overlapping, as
  they do unless one takes more than an hour: that is the condition under which
  `RemindersAreSpaced` can hold (see below). A mail whose stamp a restart took
  is excused too.
- *Days and deadlines in `reminders`.* One deadline on day 4, a horizon of 2 days,
  and users who ask for 0, 1 or 4 days: hourly scans meet a deadline beyond the
  horizon, at its edge, one day ahead and past, for somebody who asks for nothing,
  for less than the horizon and for more. A query takes one of two tasks, so one
  of two that match is left out. The days of a user without a channel are kept at 0
  (`OffIsZero`): they are not read.
- *One field changed per `Update` in `Reminders`.* A request for several fields
  is several of them with nothing in between, one of the orders checked.
- *Scenes of `Work`.* A step reads the rows a request names and the rows that
  name them. Each scene has the kinds that do so, with a row of another
  organization to be named by mistake, and enough rows for two requests to
  disagree about (two deals of one project, three milestones of one deal). What
  no scene has together, say an invoice and a tag, no handler reads together. One
  place may be asked for (`AskedPlaces = {1}`), the second of three: it may be
  free or taken. Comments and time entries cross in two scenes; that files may, is
  in no scene (they are only shown to their own organization). Every property of the
  run is proved for any rows, places, organizations and requests. Of three milestones
  a client places one and one is deleted (`FewPlacedOrGone`): what breaks the order
  takes two others.
- *Tokens, acts and requests of `Session`.* Two tokens are the stored one and
  another that a late answer brings or that has expired; three acts are enough to
  sign in, start something, and sign out or switch in the other tab. One request
  in flight next to the two `GET /users/me` gives every pair of answers that
  cross but for two saves, which write the same copies.
- *Two saves of `Pages`.* One whose answer must be shown and one that crosses it,
  with any GETs in between. The entry followed is any, so all pages are covered.
- *Two requests of `Forms`.* One whose answer finds the form as the other left it;
  the field followed is any.
- *Lists, places and acts of `Navigation`.* The core pack has projects and tasks and
  no customers, the sales pack customers and neither of the others, the third list
  tasks and customers: each kind of step and page is there, missing, or not asked for. The tour starts at any of its
  steps, so two acts are one more step and one change of modules, place or role in
  the middle of it. The longest chain of redirects that two acts lead to is 4, that of
  four acts 5; `MaxHops` is 10, the bound that is proved for any number of acts.
- *`Leave` waits while an earlier timer still runs.* A second page could only
  outlive a 900 ms timer if it were opened and left within them.

The runs marked `violation` in `PROJECT.json` are in [What the runs
found](#what-the-runs-found). There is one type
invariant per run that has any; those of `Accounts` and `Session` are proved
instead. Everything else relates several steps or several actors.

## Fairness

Three runs are about liveness, and each states its fairness in the module.

`Accounts!Fairness` (for `EventuallyVerified`). A database statement of a
request that has begun is executed again and again as long as requests get that
far: strong fairness, because a `Restart` may take any single one away. Mails
are lost, but of those that carry a link that still works one gets through again
and again. The owner keeps trying: registers, asks for the link, opens it.
Cooldowns end and old mails are thrown away. Nothing is assumed about expiry,
failing or misreported mails and restarts, which may come in between without
end. This is the weakest form we could find under which an account *can* be
verified; dropping the owner's part, or that of the mails, makes the property
false for reasons that have nothing to do with the code.

`FlowSync!Fairness` (for `ChangesAreSent`). Browsers fire timers and render
(`WF` of `Timers` and `Render`), and a request is answered or lost (`WF` of
`Network`). Nobody has to close an editor; while one stays open the property
fails, which is a finding.

`Session!Fairness` (for `SignedOutTabsLeave`). A document navigation that has
been started ends (`WF` of `LoadDocument`), and a tab that is seen on a page of the
application asks the API again and again (`WF` of `t \in shown /\ PollDenied(t)`):
`Sidebar.tsx:69` repeats its query every 30 seconds, which react-query does not do
while the document is hidden (`refetchIntervalInBackground` is not set). A hidden tab
may therefore stay where it is until it is seen again, and the property speaks of
tabs that are seen. Nothing is assumed of the person, of the
API's other answers or of AppShell's own timer and request, none of which would
be enough: they run only when the path changes.

The other runs have no fairness. Deadlock is checked but in `session`, `settings`,
`work` and `pages`, which may really stop: the person does nothing more, every row
has been made and deleted, both saves are over.

## What the runs found

Each of these is a run whose property is what a comment, a message or a document
of the repository says, and whose counterexample is a behaviour of the code. The
quoted lines are in `PROJECT.json` under `findings`.

| Run | Promise | Counterexample |
| --- | --- | --- |
| `settings_onboarding` | onboarding is false only until the owner has chosen | in a new organization, a branding save that read the row before the choice is written after it: the flag is false again, the pack the core pack, and the owner is asked again |
| `flow_editor` | edits are saved by `PUT /flow/workspace` | the effect that persists the canvas restarts itself every 500 ms and with it the 900 ms timer: nothing is sent while an own flow is open |
| `flow_tenant` | the workspace is per organization | the localStorage key is not: after a switch the other organization's flows are shown and saved |
| `work_orgs` | data, teams and projects are isolated per workspace | a comment sent with a task of its own organization and a project of another: only the task is looked up, both are written, and the other organization's project shows the comment |

The models have more behaviours of this kind, for which no run is kept because
the code promises less clearly or the next request makes good for them:

- An ADMIN's role change that was checked while its target was MEMBER is written
  after the OWNER has promoted the target, and demotes an ADMIN
  (`organization.service.ts:516` reads, `:533` writes), which the message at
  `:528` says only the owner may do.
- A user who chose 0 days is not reminded: the scan skips a deadline that is more
  than 0 days away, however few hours, and one that has passed
  (`reminders.scheduler.ts:58-59`), while `schema.prisma:117` has 0 for "on the
  day" and the settings page says "0 = am Fälligkeitstag" (`messages.ts:140`).
  `DueTasksAreReminded` says what the scan does: its `Due` holds of no task for 0 days.
- Two `GET /team` on a legacy organization without teams each create a default
  team (`team.service.ts:16` wants exactly one). `UndisturbedRequestRepairs`
  shows that the next request that runs alone repairs it.
- The failed mail of an earlier forgot-password request clears the link that a
  later one has mailed (`auth.service.ts:436`).
- A commit between the arrival of the server's workspace and its first rendering
  starts from the old overlay and sends that (`use-ops-process-store.ts:299`).
- A deletion whose PUT is still waiting when the page is opened again is undone
  by the answer to the GET (`use-ops-process-store.ts:135`).
- With two overlapping scans `RemindersAreSpaced` fails; beyond 8 days before
  the deadline no scan reads the task, though users may choose up to 30; a task
  finished or handed over after the scan's read is still reminded of, to the
  assignee it had.
- `FlowHowItWorks.tsx:35-36` tells users that flows are kept "lokal im Browser
  (nicht auf dem Server)", while the store sends them to the server.
- Two uses of one reset link both succeed (`auth.service.ts:453`), two resends
  may both pass the cooldown, the first mail's link being dead on arrival
  (`:324`), and two organizations may draw one join code, of which the second
  write fails on the unique column (`organization.service.ts:485`).
- *Session.* The organization a token names (`jwt.strategy.ts`) and the one the
  profile shows (`User.activeOrganizationId`, `auth.service.ts:541`) differ in a
  tab that still has the token of before a switch, or that was signed in by a
  login that crossed one: the page shows one organization's name over the
  other's rows, which is why `StoresAgree` speaks of the person alone. A tab
  writes its own session back over another tab's when it saves a profile
  (`settings/page.tsx:249`, `:297`), with the name, address and id of whoever
  localStorage named when the save was sent (`api.ts:22`, `user.service.ts:81-88`):
  where another tab had signed somebody else in, that person's profile stands next to
  this tab's token, the one case `StoresAgree` leaves out (`mixed`); a 401 to an old token signs off a new
  session, and so does a network failure in AppShell; a 401 leaves the cookie,
  so that the middleware lets the next document through to AppShell, which
  sends it away. `SignOutSticks` excuses the answers that write a session back
  after a sign-out (`clean`).
- *Work.* Time entries and files cross as comments do (`timeentry.service.ts:41`,
  `upload.service.ts:27`). A time entry is then found in the other organization too,
  where its author may change and delete it (`timeentry.service.ts:123`), and shows there
  the title of its task; a file is asked for by its organization as well and is shown to nobody
  else. A row that crosses falls, or loses its project, when the other organization
  deletes that. A client's `sortOrder` is taken as it is (`deal.service.ts:198`,
  `:238`), so that milestones may share a place without a race (`placed`). Uploads
  are written to `uploads` in the working directory (`upload.module.ts:10`), and
  `docker-compose.deploy.yml:23-25` keeps only `/data`, where it says uploads may go
  later: after a redeploy every listed file is missing (`wiped`). Deleting a project leaves its tasks, with their comments, tags and time
  entries, as rows no query finds again (`project.service.ts:212` with `onDelete:
  SetNull`; every query of tasks goes through the project):
  `RowsAreShown` shows that some route shows everything else. An unlink clears the
  project's deal whatever deal it is by then. A refused upload leaves its file on
  disk for good. Invoices are made with `DRAFT` (`invoice.service.ts`), and orders
  with `PENDING`, while the pages' buttons ask for `draft` and `pending`, and
  `UpdateInvoiceDto` takes lower-case states only while `finance.service.ts:18`,
  `reports.service.ts:52` and `customer.service.ts:57` count `PAID`;
  `CreateInvoiceDto` names no `amount`, so an invoice's is 0 (`invoice.service.ts:41`),
  while the pages read `invoice.total` (`invoices/page.tsx:129`).
- *Pages.* `tasks/new` and `projects/new` invalidate nothing, so the list they lead
  to may lack the new row for a minute, and an invoice marked as paid in the command
  feed leaves the finance page as it was (`Skips`); an answer of a GET that was
  read before a save and arrives after it replaces the saved row and clears its
  mark, since nothing cancels it (`Overtaken`); an error is stored as an empty
  list that counts as fresh (`Blank`); the member page stores its filtered list
  under the key of the projects page (`team/[id]/page.tsx:42-50`); of two saves
  whose answers cross, the older stays (`Claim`); the cache is not cleared when
  somebody signs out.
- *Forms, the row.* `NeverStored`: type, unit and tax rate of a new product (the DTO
  takes them, `product.service.ts:10-22` does not; `invoices/page.tsx:201` reads
  `product.taxRate`), delivery date and notes of an order, recurrence of a task, notes
  of an invoice and of an edited customer, the customer of a project.
  `NeverEmptied`: the optional texts of customers and suppliers and the description
  of an event are sent as `undefined` when they are emptied, so the old ones stay; an
  invoice without tax gets 19 %. `AnHourLater`: an edited event ends one hour after
  its start (`calendar/page.tsx:686-690`). The editors send every field, so a save
  puts others' newer values back.
- *Forms, the answer.* `RefusedAnyway`: a task without a project, a project, assignee
  or deadline emptied, the project state `IN_PROGRESS`, an invoice item of quantity 0,
  an event from 23:00 on, blank names and codes of organizations.
- *Forms, the input.* `Unwaiting` forms can be sent again before the answer, which then
  closes or clears what was entered since, and requests overtake each other;
  `KeepsRefused` lists go on showing a choice that was refused; `Refilled` forms of the
  settings are overwritten when their row is read again.
- *Navigation.* When the tour opens, half a second after the dashboard, before the
  answer of `GET /users/me` says that modules have to be chosen, the tour pushes
  `/dashboard` (`ProductTour.tsx:355`) and AppShell replaces it with `/onboarding`
  (`AppShell.tsx:61`) until the tour is skipped, its overlay covering the choice
  (`torn`). A tour skipped within that half second opens again: the timer does not look at
  the mark (`ProductTour.tsx:308`). The effect that skips a step of a module that is
  missing (`:413`) never fires, since the steps are built from the same list. Quick
  buttons, shortcuts and search results lead to pages of modules that are switched off,
  and bounce.

## Proofs

TLAPS checks the theorems of the eight `...Proofs` modules for every value of the
constants that satisfies the assumption of the module they are about: any number
of users, organizations, teams, tabs, rows, saves and requests in flight. Every
invariant and every action property that a passing run checks is a theorem. The
assumptions say that null ids are not ids, that users and teams are finitely many
where their numbers are compared, that teams are numbered in the order of their
creation, what a scene or a membership table is, that no link leads to the page
that is no page, and that the tables of pages and forms keep their rules. What
single theorems assume on top stands in them and below.

**Workspace.** `TypeCorrect` comes first, action by action. The safety
properties are not inductive by themselves: that `TxCommit` keeps
`TeamMembersAreOrgMembers`, say, depends on what `TxReadMembers` read two steps
earlier, and whether it still holds. `Inductive` therefore adds

- `LocalInv(q)`, for each step of a handler what its earlier steps established
  and no other handler can undo: the user of a join is a member from its second
  step on, a team found belongs to the organization, the members about to be
  added are members, the target of a role change is not the OWNER and the actor,
  if OWNER then, is OWNER still; and, in an organization founded through the
  API, the backfill always finds its one default team;
- `Agree(p, q)`, that two transactions never insert the same team for two
  organizations;
- `TeamsInv`, that a team's organization exists.

`InductiveNext` goes through the actions; most of them are covered by three
frame lemmas (`Quiet` for steps that change one handler only, `Noisy` for steps
that change rows, `LocalGrows` for what survives when rows only grow).
`SessionsCorrect`, `TeamsCorrect`, `OwnersCorrect` and `DefaultTeamCorrect`
follow at once. `SkipCorrect` needs an argument about sets: nobody is on the
default team who is not a member, so if its count has reached that of the
members the two finite sets are equal. `RolesAuthorised` is the action property,
from the invariant before the step. `RepairCorrect` is about legacy organizations,
where several teams may be the default: `Undisturbed` says that while a team request
runs alone, all others are idle and what it has read is what the database says
(`Fresh`, step by step of the backfill), so that the decision it takes from two
counts fits, and what it commits leaves one default team with every member.

**OrgSettings and Navigation** (`AppModulesProofs`). `Inductive` adds `ReadsWereRows`
to the three properties of the settings: the
row each update in flight has read satisfied them, and unless it was overtaken
it is the current row. The lemmas `AppearanceKeeps`, `PackKeeps`, `ModulesKeeps`
say that what an update makes of such a row satisfies them again;
`SettingsInductive`, `SettingsTypeCorrect`, `PackCorrect`, `OnboardingCorrect` and
`NoLostUpdate` follow. For the navigation the first step is about the tables, for any
role and any list of modules: every step of the tour leads to a page that the guard
allows and points at something that is there (`TourStepsAreGood`). The
invariant `Steady` then says that a page which is left at once is left under way
(`Rests`), that an open tour has its step in sight (`Guided`), and that who has to
choose modules and is elsewhere will be sent to choose (`Owed`); `AppTypes` and
`AppRests` follow.
`AppRedirectsEnd` counts. With the profile and the tour as they are at most two
redirects are `Left`; each change of the profile that is still to come (`Stale`: two at most,
an answer that is outdated already and the one after it; `Unread`: one, a choice
whose profile is read again) and the opening of the tour (`Closed`) can add two.
`Budget` says that the redirects so far and those to come are at most ten, and no step
but an act of people increases their sum. Ten is a bound, not the longest chain: TLC
finds five with four acts. Its hypothesis is `MaxHops >= 10`.

**Accounts.** `Inductive` adds to the properties what each handler knows of the
row it read (`RequestsHonest`): one that is about to verify an account read one
whose link was opened, one that is about to write a reset link read a verified
one, unless the account has been replaced since, and then the write finds no row
of that id. From it follow `AccountsTypeCorrect`,
`AccountsVerifiedOpened` and `AccountsResetLinks`; `AccountsVerifiedStay` and
`AccountsKeepPromise` are about steps: every step of `Accounts` is a step of
`OptIn` or leaves its variables as they are.

**Session.** `Inductive` says that every token in localStorage, a store, a request
or its answer was issued, that what an answer brings is of the owner of its token, and
that a stored profile is, too, unless it is `mixed` (`StoresAgree`, `MeAgrees`,
`AnswersAgree` with `Honest` for one request). `OnlyPreserves`, `IssuePreserves`, `SignOffPreserves` and
`NavigationPreserves` treat the actions in groups; `SessionStoresAgree` follows.
`SessionSignOutSticks` needs to know why nothing that is in flight can end a clean
sign-out, nor what is asked for later. `Quiet` says so: localStorage and cookie are empty, no tab
asks who it is, and every request is `Harmless`: a sign-in, one without a token,
which can only be refused, or a save of a tab whose store is empty.

**Work.** `Inductive` says of each request in flight that the rows it is about
to name are of its organization, or the query for them is still in `todo`, but for the
project of a creation that names a task as well. It
does not say that they are still there, which nothing keeps true between two
queries and which the foreign keys decide at the write. A row found through its
project is in the organization because references never leave it: the invariant
and `RefsStayInOrg` need each other. `CommentsHang` is there because a comment is
read by its id alone. What crosses does not spread: `CrossedHang` says that only
comments, time entries and files cross, and `RowsCalled` that a column names rows of its
kind, so that nothing names them. `WorkKeepsOrgsApart` proves the refinement
of `Tenants`: every write and every cascade changes the store of one
organization, because what cascades names what is deleted and so is of its
organization, or crosses and is in no store. `WorkTotalsFit` has its own small invariant.

`Regularity` is the second inductive invariant, about what is deleted. `RowsKept`:
a row names only columns of its kind and hangs on what its kind hangs on (one that
crosses on its task, unless that was deleted), so a
cascade is one level deep below what the handlers delete and whatever named
the deleted row is gone or cleared (`WorkRefsAreLive`). `FilesKept`:
an upload that is about to write its row has stored the file, under an id nobody
else has (`IdsUnused`), and a removal that has unlinked it has still to delete the row
(`WorkListedFilesExist`). `PlacesKept`: the place a milestone is about to
get is free among the deal's milestones whose place no client chose, unless another was
added since `ReadMaxOrder` (`WorkMilestonesInOrder`).

**Reads** (in `WorkProofs`). `WorkAnswersStayInOrg`: no route shows a row of another organization, in
any state of `Work`, but one that crosses and the task and project it names (`Tied`).
Routes that ask for the organization show its rows by
themselves (`AllWithin`); for those that read by the id of a row they looked up, or
follow references, each lemma uses `Work`'s invariant that references stay within, and
that nothing leads on from a row that crosses but its own two columns.
`WorkRowsAreShown` is the converse: a live row hangs, by `Regularity`, on rows that
are there, up to one that a list shows, and each reference on the way is one that
some route follows.

**Reminders.** `Owing` says of each task that the scan of this hour owes a reminder,
that nobody has changed since and that the query has not left out, that it is in the
scan's batch with the values it has now, has just been sent, or is stamped.
`RemindersLeaveNoneOut`, which is `DueTasksAreReminded`, follows for any days that users
ask for, 0 and those beyond the horizon included, and for any number of tasks.
`RemindersReachTasks` adds that a query leaves nothing out as long as the tasks fit into
it (`take: 200`, `reminders.scheduler.ts:39`); of more, a scan may leave some to the
next.
`RemindersKeepTheirDistance` rests on `Sent`: what a reminder leaves behind until
its stamp forbids the next is the stamp or the scan about to set it. Its hypothesis
is that scans do not overlap; with two, each sends what it read.

**FlowSync.** `FlowSyncTypes` for any clients and requests. `FlowSyncSaves` needs
`Carried`: the last commit is in the timer of the page, or else in the request, or
the server has it or has missed it, and a timer that outlived the page before is due
no later than that of the page, so that what it carries does not come last.
The hypothesis `Alone` is the one `SavedWhenQuiet` states: one browser,
one request at a time. With two browsers, or requests that overtake
each other, the property is false. The delays may be any.

**Pages and Forms** (`BrowserProofs`). `PagesInv` for one entry: what it shows and
does not mark, and what an answer in flight was read from, keeps up with `due`
and `own`, and every guess has its save under way. The operators on an entry are
treated once (`Follows`: a mark, a fetch and a refetch leave the data alone and do not
make the GET older), and each action is one or two of them. `FormInv(V)` for one
field, where `V` is the set that `Covers` promises: what was sent was let go, requests
are sent in order and, where the form waits, one at a time, a save that waits for
its answer is what the row holds, and what is typed is what is being sent. The
theorems hold for any number of saves and requests; the tables enter only through
`QueriesAssumption` and `FieldsAssumption`, which TLC evaluates.

What is only model-checked: the three liveness properties (`EventuallyVerified`,
`ChangesAreSent`, `SignedOutTabsLeave`), because the prover handles neither fairness
nor `ENABLED`; the tables of pages and forms, which are finite and have no
parameters, so that TLC's evaluation of their rules is complete; and of course the
violations, which are behaviours.

## Limits

- Passwords, hashes, JWT signatures, rate limits and the wording of mails are
  not modelled; a link that nobody was sent is never guessed.
- The database is PostgreSQL with READ COMMITTED: a statement is atomic and sees
  what is committed. Foreign keys that cascade are not exercised by the modelled
  handlers, none of which deletes an organization or a user (`RegisterUndo`
  deletes a user nobody refers to yet).
- A browser has one tab (`FlowSync`); several tabs share localStorage and are
  the subject of `Session`.
- A mail sent just before a crash is not stamped and is sent again after it;
  `RemindersAreSpaced` does not count the first (`Restart` in `Reminders`).
- `Work` leaves out what no handler reads to decide anything: names, texts,
  dates, states and progress. The uniqueness of names, assignees, invoice items
  and drawn numbers are left out too. Teams are created and never deleted: there
  is no route for it.
- Files cross in the model and in the proofs, in no scene of the runs.
- `Reads` takes a route's queries at one moment and leaves out filters, time windows
  and figures, and the export of a person's data.
- `PATCH /users/me` changes the address of an account without a mail
  (`user.service.ts:78`): `Accounts` is about the address somebody registered.
- `Navigation` has one tab and a valid session; a failed `GET /users/me` leads to the
  login page, which is in `Session`.
- `Pages` follows how recent data is, not which rows it holds; filters are one
  fixed filter. The list of recent notifications in the top bar, and the admin
  and security pages, are left out.
- `Session` has no socket: that `getSocket()` is null after a hard load of the
  dashboard, and that a disconnected one is used again, is not seen.

## Not modelled

Each is a component of `PROJECT.json` with this status:

- *Realtime events.* The emissions only tell the dashboard to ask again, which
  `Pages` allows at any time (`Event`). That events overtake each other
  (`notifications.gateway.ts:103`) has no effect on a page that does not read
  them.
- *Newsletter.* The double opt-in of `OptIn` on one row without an account.
- *Activity and audit log.* One row appended by one statement.
- *SMS, billing stub, API shell.* A call whose result is ignored, a placeholder,
  wiring.
- *Demo content, landing page, i18n, SEO, shared types, deployment.* Text, types
  and scripts.

Within modelled components: password hashes (and `changePassword`), the change of
an account's address (`user.service.ts:78`, which takes effect without a mail),
the weekly digest (stamped although its mail failed,
`reminders.scheduler.ts:88`), the risk score of a deal and the figures of
dashboard, reports and finance (sums over what one request reads), the admin and
health routes, the export of a person's data, recurrence of tasks and the answers
of bulk requests.

## Plan

Written so far, in this order: `Workspace`, `OrgSettings`, `FlowSync`,
`Reminders`, `Accounts` with `OptIn`, `Session`, `Work` with `Tenants` and `Reads`,
`Pages` with `PageTables`, `Forms` with `FormApi` and `FormTables`, `Navigation` with
`NavTables`; proofs for every one of them. What would add most next:

1. **Newsletter** as a second implementation of `OptIn`.
2. **Membership**, an abstract specification of what `Workspace` promises, and
   the refinement.
3. The weekly digest and overlapping scans in `Reminders`; several tabs in
   `FlowSync`.
4. The figures of dashboard, reports and finance, **DealRisk** and the preference rules as pure operators against a reference
   definition.
5. Proofs: what becomes of the refinement of 2; the tasks that a scan of more than
   200 leaves to the next; a bound on redirects as tight as the five that TLC finds.
