# Verification of the API Sandbox

TLA+ specifications of the backend in `src/backend` (Go, gin, gorm over PostgreSQL,
asynq over Redis, Docker) and of the frontend in `src/frontend` (TypeScript, React,
Next.js, SWR), the TLC configurations that check them on small instances, and proofs
checked by TLAPS.

## 1. The system

A user creates an *environment* from a git repository. A build worker clones the
repository into `workspaces/<id>`, starts a database container beside it when the
repository asks for one, and starts the application in the container
`api-sandbox-env-<id>`. The user edits the workspace in the browser and sees the
application behind Traefik. Idle environments are stopped, and a reaper removes
containers without an active environment.

| Component | Sources | State | Operations |
|---|---|---|---|
| Environment handlers | `api/handlers.go` | `environments` rows and what refers to them | create, fork, restart, delete, settings, transfer, logs |
| Build worker | `worker/worker.go` | point reached in the build | clone, sidecar, runtime, provision, poll, mark RUNNING |
| Container engine | `provider/docker_engine.go`, `health_check.go` | app and sidecar containers, networks | provision, cleanup, start sidecar, reap |
| Queue and scheduler | `queue/client.go`, `main.go` | build tasks in Redis | enqueue, retry, archive, recover, shutdown, recovery at boot |
| Idle sweeps | `cron/cleanup.go`, `worker/cron.go` | rows returned by a query | query, then remove and stop one by one |
| Orphan reaper | `docker_engine.go` 564-608 | containers returned by a listing | list, decide, remove |
| Git handlers | `api/git.go` | git state of a workspace, branch in the row | branch, checkout, pull, commit, push, activity |
| Files and watcher | `api/files.go`, `watcher.go` | files, `has_uncommitted_changes`, activities | read, save, create, delete, reload |
| WebSocket hub | `api/ws.go` | clients by user, their buffers | register, unregister, broadcast |
| Projects | `api/projects.go` | projects, collaborators and invitations | invite, accept, decline, remove |
| Middleware | `api/middleware.go` | counters in Redis | rate limits, roles |
| Login | `api/oauth.go`, `auth.go` | OAuth states, users | login, callback |
| Schema | `db/db.go`, `models/models.go` | tables | migration at boot |
| Detection | `provider/dev_runtime.go`, `detect.go` | none | which runtime, port and database a repository needs |

and, in the browser (`src/frontend`):

| Component | Sources | State | Operations |
|---|---|---|---|
| File editor | `environments/[id]/page.tsx`, `useEnvironmentChanges.ts` | selected file, text, saved text, save indicator, timers, socket | select, type, save, create, delete, messages |
| Git panel | `GitUI.tsx`, `page.tsx` | modal, picker, status | commit, push, check out, branch, pull |
| Logs tab | `page.tsx` | terminal, docker logs, restart button | poll, import, append, restart |
| Session | `lib/auth.tsx`, `LogoutButton.tsx`, `layout.tsx` | path, cookie, checks under way | check, sign in, sign out, redirect |
| New sandbox | `upload/page.tsx` | form, branches, submission | look up, submit (project, then sandbox) |
| Invitations | `page.tsx`, `profile/page.tsx` | lists of members and invitations | invite, accept, decline, remove |
| Dialogs | `projects/page.tsx`, `profile/page.tsx`, `EnvironmentSettings.tsx`, `page.tsx` | open, input, busy | open, type, submit, close |
| List pages | dashboard, projects, project, team, profile | answers of SWR | poll, show, fail, recover |
| Contribution graph | `profile/page.tsx` | none | count, lay out |

The components share the `environments` row, Docker's containers and the disk; no
lock protects any of the three. A handler or a worker reads the row into memory,
makes calls that take up to minutes, and writes the row back, sometimes as a whole
(`db.Save`), sometimes column by column (`Update`). What is hard is therefore
concurrency: two requests for one environment, a request beside a build, a sweep
beside a request, and the end of the process between any two of these steps.

A page shares nothing with another page but the server. Within a page every handler
runs up to an `await` and goes on later with the values its closure captured, while
the user selects, types, closes and opens, timers run out, SWR polls and the socket
speaks; answers come in any order, late, or as errors. What is hard is that the page
changes between a request and its answer, and that the server does so too.

What makes each part correct: a build that has begun ends; only a request that saves a
whole row brings a deleted environment back; a RUNNING row names a container; a sweep
stops only what is idle and a reaper removes only what nobody uses; every queued task
is settled; what a user has saved is not lost by what others do in the same workspace;
a reload is announced when the change runs; the hub serves every client without
waiting for one, and a client gets its own environment's events in order. In the
browser: a page takes for saved only what is on disk and waits only for an answer that
is to come; buttons come back; no button loses a commit or an edit; a late answer
neither signs a user out nor changes what was submitted; a project that is shared
keeps its owner; a page recovers when the server does.

## 2. Modules

| Module | Content |
|---|---|
| `Environments` | the life cycle: handlers, worker, queue, sweeps, reaper, Docker, process |
| `MCEnvironments` | symmetry for the runs without liveness |
| `EnvLifecycle` | what the readers of the environments table are promised: how a row may change |
| `EnvironmentsProofs` | types, container ids, sweeps, revived rows: theorems and proofs |
| `OwnershipProofs` | tasks are stored once, containers belong to their environment, no build is lost, deliveries end, and `Environments` implements `EnvLifecycle` |
| `Workspace` | the files, the git repository and the container of one environment, and the requests that change them |
| `MCWorkspace` | symmetry for its safety run |
| `WorkspaceProofs` | no saved content is lost; types, branches and their commits |
| `Hub` | the WebSocket hub: its goroutine, the two pumps of each client, the connection |
| `EventFeed` | what a peer of the hub is promised: a run of its environment's events |
| `HubProofs` | types, no panic, nothing missed, and that the hub implements `EventFeed` |
| `FileEditor` | the editor of a page, its requests, timers and socket, and the handlers that serve it |
| `FileEditorProofs` | types, what it waits for and what it takes for saved |
| `GitPanel` | the git controls of a page over one repository and its remote |
| `GitPanelProofs` | types, no commit and no edit is lost unasked, pushes follow commits, tracking branches |
| `Logs`, `Session`, `CreateSandbox`, `Invitations`, `Dialogs`, `Views`, `Contributions` | one page or one part of pages each, with the handlers that serve it |
| `FormsProofs` | session, sandbox form, dialogs, invitations: their safety properties and types |
| `Pages` | their composition: one page is open, with its initial states, steps and fairness |
| `PagesProofs` | logs tab, list pages, contribution graph, and the composition `Pages` |

`Environments` and `Workspace` meet at the build: the build of one is a step of the
other (`CloneOrFetch` there, `Rebuild` and `ResetHard` here), and the rows that
`GitBranch` and `GitCheckout` save as a whole are there while the repository is
here. `Workspace` broadcasts; how a broadcast reaches peers is `Hub`; what a page does
with it is `FileEditor`. They are kept apart because they share no variable but the
branch of the row. `Workspace` looks at git command by command, under the index lock;
`GitPanel` takes a handler of the server for one step, and looks at what the controls
of a page make of its answers.

### State of `Environments` and the code

- `row[e]` is the row of an environment: its status, `container_id`, and its age.
  `last_activity_at` and `updated_at` matter only to the sweeps, so `age` says which
  of them is past the threshold: `inactive` (the in-process sweep, which asks for
  `last_activity_at`) or `expired` (the scheduled one, which asks for `updated_at`
  too). A touch makes a row `fresh`; any other write refreshes `updated_at` only.
- `activity` holds the environments that rows of `activities` refer to: they block
  the deletion of the row by a foreign key.
- `task[t]` is a build task in the queue together with the worker that runs it
  (`pc`). After a failure asynq delivers it again (`pending`) up to `MaxRetry` times
  and then archives it; the task of a killed process is `leased` until asynq's
  recoverer finds it.
- `app[e]`, `sidecar`, `workspace`: containers by name and directories by id.
- `proc[p]` is a request in flight, `sweep[s]` an idle sweep, `reap[r]` a reaper:
  where each is, and the copies of database rows or listings it holds.
- `up`, `crashes`: the backend process. PostgreSQL, Redis, Docker and the disk
  survive it.

- `EnvLifecycle` is the same without queue, workers, sweeps and Docker: `rows` is what
  the table shows, `held` what a client is going to save, `spent` the containers that
  are not going to be announced any more.

A handler is cut into one action per call that leaves the process (database, Redis,
Docker, git, disk), so every interleaving of two such calls is a behaviour. Actions
carry the name of the function they belong to: `RestartRead`, `RestartCleanupApp`,
`RestartCleanupDb`, `RestartSave`, then `Enqueue` and, if that fails,
`RollbackStatus` are `RestartEnvironment`. The worker's actions are the numbered
sections of `HandleBuildEnvironmentTask`.

gorm, asynq and Docker are modelled from how the code uses them: `Save` writes every
column and inserts a row that is gone; `Update` writes the named columns of the rows
that are there; a failed task is delivered again; container names are unique; a bind
mount creates its directory.

Abstracted: a removal by container id that is followed by one by name is the latter;
the polling of the boot loop is its last round; logs, metrics, audit entries and
`EnvironmentMember` rows are left out, for nothing here reads them. PostgreSQL is
assumed to answer, but for the reaper's lookup (`dbread`), where the code acts on
the error. The backend runs as one process (`MODE` unset, as in
`docker-compose.yml`).

### State of `Workspace` and the code

- `disk`, `index`, `tip`, `past`, `branch`: the working tree, what is staged, the
  last commit of each branch and all its commits, and what is checked out. A tree is
  a function from files to contents, a commit is told by its tree. `remote` and
  `shared` are the same for GitHub, where `OthersPush` commits too. `recorded` is
  `github_branch` of the row.
- `lock` is `.git/index.lock`. A git command is two actions: it takes the lock
  (`Lock`), then does its work and gives it up, or fails (`Fail`): because another
  holds the lock, or for any other reason. What the code does with the failure is
  in `Fail`: the saving goroutine and the commit ignore that of `git add`.
- `req[r]` is a request with what it has read: the file and content of a save, the
  branch of a switch. `UpdateWorkspaceFileContent` is `Save`, `Touch`, and then its
  goroutine: `Stage`, the poll (`Ready` or `TimeOut`) and the event (`Done`).
  `GitCheckout` is `CheckStatus`, `CheckOut`, `Verify`, `SaveRow`, in that order.
- `app` is the container: its process serves, restarts, is down, or the container is
  gone; `current` tells whether the process has seen the tree as it is.
- `kept` is a history variable: what a user saved last in a file and has neither
  deleted, nor overwritten by a forced checkout, nor discarded by a restart.

git is modelled from how the code uses it: a switch refuses to overwrite a file with
changes and carries the others along, `checkout -f` and `reset --hard` leave
untracked files alone, a pull moves forward or refuses. A git command that holds the
lock does its work in one step; the file system's own races inside it are left out.

### State of `Hub` and the code

- `log[e]` is what has been broadcast for an environment; a message is its position.
- The channels `Register`, `Unregister` and `Broadcast` are unbuffered: a sender
  waits in its own state until `Hub.Run` takes it, one at a time. A client's `Send`
  is a buffer of `Cap` messages that may be closed.
- Each client has a reader and a writer (`readPump`, `writePump`) and a connection
  that stalls, resumes or is lost.

### The modules of the frontend and the code

A `fetch` is up to three steps: it is sent (the handler up to the `await`), the server
carries it out, its answer reaches the page (the rest of the handler). The request is
a record with what the closure captured. A request may fail before the server has
carried it out, and an answer may be lost after. React state is a variable of the
name in the source (`selected` is `selectedFilePath`, `content` is `fileContent`).

- `FileEditor`. A text is the file it was first loaded from and what typing made of
  it; that tells whose text stands in the editor. `FetchFile` is the effect on
  `[selectedFilePath]`, `FileLoaded` and `FileNotLoaded` its two ends; `HandleSaveFile`,
  `ServeSave`, `FileSaved`, `FileNotSaved` are a save, `HandleDeleteFileOrFolder` and
  its like a deletion. `async` are the goroutines that `UpdateWorkspaceFileContent`
  leaves behind and `OnMessage` is the `switch` of the hook. `TypeKeys` is the JSON key
  of the type of a message: the code writes `Type` and the hook reads `type`, so
  `file_editor` takes both, to check the page also as it was meant.
- `GitPanel`. A commit is a member of a set and a branch the set of its commits, so
  that "lost" means "in no set". `flow` is what `handleCommitAndPush` waits for,
  `checkout` what `handleCheckout` waits for, its `confirm` included (`AskForce`,
  `AnswerForce`); `status` is the last answer of SWR, which decides whether Pull is
  enabled. `MemberSaves` and `ForeignPush` are other people, and `RestartResets` is a
  build, which fetches one branch, or all when its own is not on GitHub (`published`).
- `Logs`. A line of the log is its number. `inits` are the calls of `initTerminal`
  that wait for the dynamic import, each with the lines its closure knows; `terms` are
  the terminals opened so far, `xterm` is `xtermRef`. `AppendLogs` compares the length
  of the list with `_logCount`, as the effect does.
- `Session`. `cookie` is whether the server accepts what the browser holds; `checks`
  the requests of the effect of `AuthProvider`, each with the path of its closure.
  A navigation by the router keeps state and requests, one by `window.location` or a
  plain link drops them: that is the difference between `Push` and `Opened`. Tabs share
  the cookie: another tab ends the session (`SessionEnds`) or begins one
  (`SignInElsewhere`, after which `elsewhere` holds), and this tab hears of neither.
  `/dashboard` stands for the pages under `app/(main)` with a `refreshInterval`, the
  dashboard, a project's and an environment's (`Polling`), `/projects` for those
  without, the projects, the profile and the new sandbox: on these a request of the
  page itself (`PageRequest`) may come, on focus, or never.
- `CreateSandbox`. `lookups` are requests to GitHub, not cancelled when the address
  changes; `submit` is where `onSubmit` is and the form it was called with.
  `ServeProject` and `ServeSandbox` are the two handlers, the second with its fallback
  to the first project of the user.
- `Invitations`. `rows` is `project_collaborators`; a handler is a step that reads and
  one that writes, with the row it read in between, and gorm's `Save` inserts a row
  that is gone. The middleware of the routes that invite and remove is a step before
  them (`AuthorizeProjectAccess`), whose role the handler goes by. `team` and `invites`
  are what the pages know. The owner's row of a Default Workspace is stored without
  `accepted_at` (oauth.go:208, handlers.go:326, db.go:103), so it begins pending, is
  offered to the owner, and may be accepted or declined by him like an invitation;
  `shared` is a project with another name, the only kind to which others can be invited.
- `Dialogs`. One module for the six dialogs: they differ in four traits (whose state
  it is, what a success empties, what the fields begin with, whether they may be sent
  blank), named at the top of the module. `instance` tells the components mounted one
  after the other.
- `Views`. An answer of SWR is a number, 0 an empty list; a page is the keys it waits
  for and the rules by which it shows a list, an empty list, a placeholder or an error.
- `Contributions`. Time is counted in hours of UTC. The browser's clock is `zone` hours
  ahead, from 12 behind to 13 ahead, and one hour more on the dates of `summer`: a date
  on which the clock changes has 23 or 25 hours (`Midnight`). `UtcDay`, `LocalDay` and
  `Key` are what `toISOString` and `setDate` do with that clock, `Weeks` is the loop that
  lays out columns.

SWR, the router, the browser and React are modelled from how the code uses them: SWR
asks once for a key at a time and keeps data on an error; a page that is left drops
its state; effects run after the render that changed their dependencies.

## 3. Runs

Every run names what users do (`Handlers`) and what goes wrong (`Faults`), so that
each question is asked of the smallest instance in which it is interesting. One
environment is enough for most: environments share no state but the queue, and
`stale_saves` has two. Two requests are enough to have one act on what the other has
changed; two tasks, to have two builds of one environment; one retry and one crash,
to have a delivery after a failure and one after a crash. Deadlock is not checked: a
system without requests rests.

| Run | Question | Bounds |
|---|---|---|
| `overlapping_requests` | Is anything left BUILDING with nobody to end it? `TypeOK`, `BuildingIsOwned`, and the invariant of its proof, `OwnershipInv` | 2 requests, 2 tasks, 1 retry, 1 crash or shutdown, 8 faults |
| `stale_saves` | What can a row saved back late destroy? `RunningHasContainerId`, `SweepSparesNewContainer`, `LifecycleSpec` | 2 environments (fork), 1 request, 2 tasks, in-process sweep |
| `every_failure` | Does the invariant survive every failure? `CidInv` | 1 request, 1 task, scheduled sweep, reaper, 11 faults |
| `builds_end` | Do builds end, tasks settle, orphans go? `BuildingEnds`, `TasksSettle`, `OrphansReaped` | 1 request, 2 tasks, 1 retry, 1 crash, reaper, fairness |
| `edits` | Is a saved file ever lost? `EditsSurvive`, `TypeOK` | 1 file, 2 branches, 2 requests, all 10 handlers, 5 things users do |
| `hub` | Does the hub panic, wait or miss? `NoPanic`, `NothingMissed`, `FeedSpec`, `BroadcastsReturn`, `LostIsForgotten`, `QueuedIsDelivered`, `TypeOK` | 2 clients, 2 environments, 1 sender, buffer of 1, 3 broadcasts, fairness |
| `file_editor` | Is unsaved text taken for saved, does an indicator stay? `SavedTextIsOnDisk`, `WaitingHasRequest`, `IndicatorsSettle`, `TypeOK` | 2 files, 1 folder, 2 revisions, 3 operations of the page and other members together, fairness |
| `git_panel` | Do the controls lose a commit or an edit, or stay disabled? `PushFollowsCommit`, `CommitsSurvive`, `EditsLeaveTreeOnRequest`, `GitButtonsComeBack`, `GitTypeOK` | 2 branches, 1 edit, 1 commit of outsiders, no bound on steps, fairness |
| `pages` | Does every other page survive late answers? The twelve properties of the modules it composes | below |

In `edits` one file is enough, for files depend on each other only through the
refusal of a switch, and two requests have one act between the status check and the
checkout of the other. Five actions of users reach a save, a commit, a new branch, a
checkout and a save beside it. The proof covers the rest. In `hub` a buffer of one is
full after one message, so a client is dropped by the second, and comes to its end
while the third is on its way.

In `file_editor` three operations reach a selection, another one before the first has
answered, and a save or a deletion, of this page or of another member, and two saves
whose messages and timers overlap. In `git_panel` two branches are what a checkout
needs, and one edit may be in the tree, in a commit, on either branch or on the remote.

`pages` opens one page at a time: pages share nothing but the server, whose other
users each module has (`JoinProject`, `OthersWrite`, `DataChanges`), so the
composition has the states of the parts side by side and not their product. Bounds: an
answer holds 2 of 4 log lines, so that it is shorter than the log; 2 imports at a
time, for two terminals; 2 checks of the session when a link is followed; 2 addresses
and 2 projects, for an answer about the other one, 1 submission; 2 invitations and 3
calls, for an invitation, its acceptance and a removal that overlap; 3 requests of a
dialog, for a closed one, an open one and a repetition; a graph of 8 days over 8 days,
so that entries grow old and weeks are cut at every weekday, drawn again after every
11 hours, at 17 hours of the day or night, in 26 time zones, without summer time, and
with one that begins, ends, or does both among the dates shown, north and south
(`ClockChanges`).

Fairness (`Fairness`): a goroutine that can take its next step takes it, a sweep and a
reaper are started again and again by their schedule, and the process is restarted
after it ends (`restart: always`). Nothing is assumed of users, time and failures. In
`Hub` every goroutine that can go on does: the scheduler of Go runs it, and a `select`
picks among ready cases at random. Of peers and network nothing is assumed;
`QueuedIsDelivered` is about the connections that do not stall for good. `Workspace`
states no fairness. In the pages, a request ends, with an answer or an error (the
browser gives up on a lost connection); a timer set by `setTimeout` fires; an interval
of SWR or `setInterval` fires again and again, and SWR retries after an error; an
import ends. SWR polls while its tab is visible: of a tab in the background the
properties say what happens once it is shown. Of a page that does not poll nothing is
assumed (`SessionSpec` asks for `PageRequest` on `Polling` only). Nothing is assumed
of the user, but that a `confirm` is answered (`CheckoutStep`: it is modal), nor of
other members, nor of the messages of the hub.

Each property has a mutant of the code in `PROJECT.json` that breaks it; the mutants
are the operators marked `Mutation` in each module.

### Where the code does something else

Each run `claim_*` checks a sentence of the repository and ends in a counterexample of
a few steps.

| Run | What happens |
|---|---|
| `claim_wrong_file` | a fetch answers after another file was selected; its text stands under the other name, and Edit and Save write it there |
| `claim_reload_heard` | the hub writes `"Type"` and the hook reads `msg.type`: no message is heard, and after a save that signals its container the page stays "Reloading" with Save disabled |
| `claim_new_project` | `CreateProject` answers `{"project": ...}` and the form reads `.id` of it: the sandbox goes to the first project of the user, the new one stays empty |

Of the backend, without a run of their own: a restart beside a deletion inserts the row
again (`RestartSave`, handlers.go:684; proved to be one of two ways, `RevivedBySavesOnly`);
a branch switch beside a build writes BUILDING back after the build has ended, and a
restart is then refused for good (`GitSave`, git.go:366; `EndsAreReported` excludes it);
a RUNNING row whose container has exited is never corrected, though
`docs/MONITORING.md` says so (`AppChanges`, docker_engine.go:594); the reaper removes
the container of an environment restarted after its lookup (`ReapContainer`,
docker_engine.go:601); `reload_ready` may be announced while the process from before
the change still answers (`Ready`, docker_engine.go:338); and the `git add -A` of a
commit fails on the lock of a save's `git add`, so that the commit leaves the changes
out and the row says there are none (`Fail`, git.go:769).

Of the frontend. `useEnvironmentChanges` never reconnects a closed socket. A log of
more than 100 lines no longer grows in length, so the terminal stops, and is blank
after a restart (`AppendLogs`); two quick changes of tab open two terminals. The
status of git never fetches, so after a refused push, which says "pull first", Pull
stays disabled unless a build of a new branch has fetched the others; what "Commit
Only" committed cannot be pushed later, for the modal closes to a clean tree; picking
`origin/x` detaches HEAD, and a commit made there is left by the next checkout (the
exception in `CommitsSurvive`); a forced checkout also discards what members saved
after the question was asked. One failed answer of `/api/user/me` sends a signed-in
user to the login page (`CheckFails`), and an answer that comes after a sign-out says
signed in (`Authenticated`). A failed deployment leaves its new project and a
repetition makes another. Two invitations at a time make two rows; an acceptance
beside a removal inserts the row again, accepted (`AcceptSaves`); and every boot
accepts what is pending, though `models.go` says "NULL until user accepts invite"
(`Boot`). The success of an old request closes a dialog that was opened again and
empties it. The owner of a Default Workspace finds it among his invitations until the
next start of the backend, and by declining it he loses the project, of which he is
the only member (`Declines`, projects.go:185). A page that does not poll stays open
when the session has ended (`PageRequest`, profile/page.tsx:453, projects/page.tsx:25,
upload/page.tsx:57). A field of the settings that is emptied is sent as null, which
the server ignores, though the page says "Leave blank to rely on automatic
heuristics". An error of a revalidation replaces a page that has its data. East of
Greenwich the square of today has the key of yesterday, and west of it tomorrow may
have begun (`OldActivityIsCounted` is about the days after). Where the clock is that
of UTC in winter and ahead in summer, two dates of spring have one key, so that its
activities are shown twice, and one date of autumn is the key of none, so that they
are not shown (`Key`, profile/page.tsx:102).

More of the backend. The sweep stops an environment
that was touched after its query, for it does not look again (`SweepStop`); a restart
writes the old `last_activity_at` back over its own touch (`RestartSave`). A restart
resets the branch to the remote one, so that what was committed and not pushed is
gone with what was not committed (`ResetHard`); after two branch switches at a time
the row may name the branch of one while the other is checked out (`Verify`,
`SaveRow`); and the touch of a save makes an empty file of one that was deleted
meanwhile (`Touch`). About builds: a retried build goes from
FAILED to RUNNING, an edge that the diagram of `docs/ARCHITECTURE.md` does not have
(`LoadEnvironment` writes no status); RUNNING is also written when the application
has not answered by the deadline (`PollHealth`, third disjunct); a failed write of
the start script leaves the row BUILDING (`ResolveRuntime`, last disjunct, excluded
in `EndsAreReported`); and a build under way clones the workspace again after the
deletion removed it, where no container leads the reaper to it (`CloneOrFetch`).

## 4. Proofs

All theorems hold for every value of the constants that the assumption of the module
allows: any number of environments, requests, tasks, retries and crashes under
`ConstantsAssumption` (the sets of operations, faults and sweeps are the ones named,
`NoRow` and `Nil` are distinct from the values beside them), any number of files,
branches, users, clients, messages, log entries and days in the other modules. Every
safety property that a run checks is a theorem; what is left to TLC is liveness.

### The life cycle (`EnvironmentsProofs`, `OwnershipProofs`)

- `TypeCorrect`, `ContainerIds`, `SweepTakesOnlyItsOwn` and `CopiesAreSound` rest on
  `CidInv`. That a RUNNING row has a container id is not inductive: a request may
  save back a row it read, and a sweep acts on what it queried, so the invariant
  says the same of every copy. The proof has one lemma per kind of process and one
  case per action; `Frames` carries what an action leaves alone.
- `RevivedBySavesOnly`: a deleted row comes back only by a whole-row save of a
  request that holds it.
- `SlotsStayReserved`: a task is stored at most once. A request takes its slot when
  it begins and stores it only at its end; between the two others begin, fail and
  crash (`SlotTaken`, `SlotsKept`, `EnqueueStores`).
- `ContainersAreOwn`: every container id that a row, a row held by a branch switch, or
  a sweep has is that of a container made by a build of the same environment
  (`MadeFor`). A cleanup by id stops whatever container has that id, so nothing less
  keeps a stale copy away from the container of another environment; `CleanupById`
  relies on it. The ids come from three places only (`AppsComeFromBuilds`,
  `RowsNameBuilds`, `SwitchesHoldRows` with `SweepsHoldRows`), and what was made stays
  made, for tasks keep their environment and their retries only grow (`TasksGoOn`,
  `MadeForStays`). `DeliveriesMakeNewContainers` follows: a delivery that has made no
  container yet finds none under its id, after any retry or crash.
- `BuildsAreOwned` and `BuildsAreCarried`: under `EndsAreReported`, which excludes the
  losses by a branch switch and by a failed write of the start script, a BUILDING row
  always has a task that will still write a status, a request about to store one, or a
  boot to come. The invariant adds to the slots that a task after `MarkRunning`, or
  left leased by an earlier process, is not counted on (`BuildingIsCarried`).
  `overlapping_requests` checks the same invariant with TLC.
- `LifecycleImplemented`: `Environments` implements `EnvLifecycle` under the refinement
  mapping at its end, with every handler, fault and crash. The mapping hides the age of
  a row (`ShownRows`), shows of a request only the row it is going to save (`HeldRows`:
  the copy of a branch switch, or a new row for a restart), and of queue and workers
  only which container ids can no longer be announced (`Spent`). There is one lemma per
  kind of process (`RequestSees`, `HandlerSees`, `WorkerSees`, `BackgroundSees`,
  `ProcessSees`); `MarkRunning` is an announcement because the id of its delivery is not
  spent, and `SpentGrows` needs the slots and that retries and crashes only grow.
  `stale_saves` checks it with TLC, without crashes. It says more than
  `RevivedBySavesOnly`: the same holds of the status and of the container id.
- `DeliveriesEnd`: each step of a stored task brings its end nearer in the order of
  (ends of the process, retries, point of the handler), and a settled task never moves
  again. It is what `TasksSettle` rests on besides fairness.

### The workspace (`WorkspaceProofs`)

- `EditsAreSafe`. `EditsSurvive` alone is not inductive: that a switch replaces clean
  files only helps because what is clean is committed, so `Heads` adds that the last
  commit of a branch is among its commits and that a branch is always checked out, and
  `Targets` that a request knows its file or branch by the time it needs it
  (`HeadsExist`). `Keeps` is the argument in one lemma: content on disk is replaced only
  where it is committed. `WorkspaceTypes` is a part of the same invariant.

### The hub (`HubProofs`)

- `HubTypes`, `HubNeverPanics` and `ClientsMissNothing` are parts of `HubInv`: no Send
  channel is over its capacity, none is closed twice or used after closing, and what a
  registered client has taken and has queued is the whole log since it joined.
- `FeedImplemented`: the hub implements `EventFeed` under the refinement mapping
  of `Hub`; every step of a channel or a pump is a step of the feed or none.

### The pages (`FileEditorProofs`, `GitPanelProofs`, `FormsProofs`, `PagesProofs`)

- `EditorTypes`, `WaitingIsForRequests` and `SavedTextWasOnDisk`, under
  `EditorAssumption`. The last needs `HeldInv`: the textarea may hold anything, but
  what the server holds was written once, and a load or a save that the server has
  carried out carries such a text. The types say more than they look: the page never
  holds `Absent`, which the server has for a deleted file, as a text.
- `NoCommitIsLost` and `NoEditIsLostUnasked` are action properties over `RepoInv`: a
  branch that does not exist holds no commit, HEAD is on one that does or detached,
  only a detached HEAD holds commits of its own, and a checkout asked of a local branch
  names one that exists. `NothingIsPushedUncommitted` and `GitPanelTypes` rest on
  `PanelInv`; `TrackingIsSound` on the branches of GitHub only growing (`RemoteGrows`),
  for no push is forced.
- `OwnerIsKept` and `WithdrawnIsOver`, for every number of calls. `MemberInv` says of the
  rows that calls hold what it says of the table: an owner's row is the first one,
  identifiers are those stored, the row a removal has read is no owner's, and a row that
  was deleted while a call held it can only be written back accepted. `OwnerIsKept` is
  about shared projects without exception, and about a Default Workspace from the
  acceptance on: before it, the owner's own decline is the one step that loses him
  (`OwnerStep`).
- `SignInIsFinal`, `BusyIsForARequest`, `BranchIsListed` and `SandboxIsAsSubmitted`.
  The first is about a sign-in in the same tab, which drops the requests before it;
  after one in another tab an older refusal may still arrive. The last needs
  `FormInv`: the request between the two halves of a submission carries the form of
  its click, and clicks are numbered.
- `TerminalIsInOrder`. `TerminalShowsLog` is not inductive: a terminal that is behind
  is given the lines after its count from a later answer, whose first lines may
  have been dropped. `Ready` says of every terminal ever opened that what it shows
  ends before the lines any later answer could add (`StaysReady`, `AppendedReady`), and
  `InitsInv` of every import under way that it opens one with an answer the page has had.
- `NoFlicker`, over `AskedInv`: what a page waits for is known, asked for or has failed.
- `ActivityIsCounted`, for every offset of the clock, any dates of summer time, and
  graphs and logs of any length.
  `OldActivityIsCounted` speaks of two folds, one that cuts the days into columns
  and one that sums. Induction is over a set of numbers (`Induction`, from `Least`), for
  no prover here instantiates a theorem about a property. `FoldExists` gives a fold over
  a finite set its recursive function. `Cut` is the invariant of the first fold: the
  columns hold the days so far, each once, and all columns but the last are complete
  (`AddDayCuts`, `ColumnsCut`); so a date has one square (`DayHasOneSquare`). The key of
  a date is the date before exactly when its midnight is ahead of that of UTC
  (`KeyOfDate`), so the key of an activity is that of its UTC date, of the next one, of
  both or of none, and these are shown and at most a day from its local date
  (`DatesOfActivity`); the squares are counted from there (`ActivityIsOnItsSquares`).
  `SumOfNaturals` shows that the count of a square is at least what each of its
  activities adds.
- `PagesAreApart`: a behaviour of `Pages` is one of every module, each step being one of
  the open page and a stutter of the others. What is proved of a module is therefore a
  theorem of the composition that the run `pages` checks: `PagesTypes` and
  `PagesAreCorrect`.

### Only model-checked

Liveness under fairness (`BuildingEnds`, `TasksSettle`, `OrphansReaped`,
`BroadcastsReturn`, `LostIsForgotten`, `QueuedIsDelivered`, `IndicatorsSettle`,
`GitButtonsComeBack`, `OutputIsShown`, `SignedOutPagesAreLeft`, `ViewsCatchUp`), for the
prover has no rules for it. Of `TasksSettle`, the part without fairness is
`DeliveriesEnd`.

## 5. Plan

1. `has_uncommitted_changes`, whose last writer may be the save or the commit, and the
   watcher with its recorded activities, in `Workspace`.
2. `Quota`: the check before the insertion; what a restart adds.
3. `LogStream`: the cursor of `StreamLogs` beside late commits.
4. `RateLimit` (INCR and EXPIRE are two calls), the OAuth state of `Login`, and the
   deletion of an account beside its requests.
5. Pure operators: runtime and database detection, path validation, each beside a
   reference definition.
6. The search for users in the invite dialog, whose answers may overtake each other.

## 6. Not modelled, and why

The metrics task, health and user endpoints only read. Token encryption, JWT
validation and bcrypt are library calls. Container limits, networks and images are
parameters of one Docker call. The benchmark and the shell scripts are clients. The
landing page, the terms, the privacy page and the animation of the login page have no
state that anything reads; the activity feed and the alerts render what `Views` brings.
Layout, wording and toasts are left out throughout. The quota, the rate limit,
`StreamLogs`, the OAuth callback and detection are on the plan: they share no state
with what is modelled but the rows that `Environments` has.

Smaller abstractions: an offset of the clock is a whole number of hours.
`ServeSandbox` takes the refusal of a viewer (handlers.go:304) for any refusal
(`SubmitFails`), and gives every user an organisation, without which the sandbox would
have no project (handlers.go:319). `ResolveRuntime` is the detection and the write of
the start script in one step: nothing between them is written that others read. A
Docker error while a booting container is polled ends the build like an exit
(`PollHealth`, fault `docker`), and the container is left to the reaper. `Workspace`
checks out local branches only, the detached HEAD being in `GitPanel`, and it has no
removal of the directory by a sweep, a reaper or a deletion (cleanup.go:76): these
take everything, saved or not. `clear()` of the terminal keeps the line the cursor is
on, which is empty, for every line is written with `writeln`. In `RemoveReads` the
owners are counted with the read of the row, for no handler makes a second owner.
`WithdrawnIsNotOffered` does not say that who was removed stays away, nor that an
invitation is one row, and `BusyHasRequest` not that a dialog is closed by its own
request only: the code does otherwise (section 3).
