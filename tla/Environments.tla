---------------------------- MODULE Environments ----------------------------
(***************************************************************************)
(* The life of a sandbox environment, from the insertion of its database   *)
(* row to the removal of its last trace.  Seven kinds of process share     *)
(* five kinds of state, and nothing locks:                                 *)
(*                                                                         *)
(*   row       the environments table of PostgreSQL                        *)
(*   activity  environments that rows of the activities table refer to     *)
(*   task      the environment:build tasks of the asynq queue, and the     *)
(*             point the worker running each of them has reached           *)
(*   app       the container api-sandbox-env-<id>; names are unique, so    *)
(*             there is at most one for each environment                   *)
(*   sidecar   environments with a container api-sandbox-db-<id>           *)
(*   workspace environments with a directory workspaces/<id> on the host   *)
(*                                                                         *)
(* The processes: the API handlers (proc), the build workers (task), the   *)
(* two idle sweeps (sweep), the two orphan reapers (reap), the file        *)
(* watcher, Docker itself, and the backend process, which may die and      *)
(* boot again.  PostgreSQL, Redis, Docker and the disk outlive it.         *)
(***************************************************************************)
EXTENDS Naturals

CONSTANTS
    Envs,        \* environment ids (UUIDs: an id is never inserted twice)
    Procs,       \* API requests that may be in flight at the same time
    Sweepers,    \* the idle sweeps: "ticker" (cron/cleanup.go), "cron" (worker/cron.go)
    Reapers,     \* the processes that run ReapOrphanContainers
    MaxTasks,    \* bound: build tasks ever created
    MaxRetry,    \* asynq.MaxRetry of a build task (3 in the code)
    MaxCrashes,  \* bound: ends of the backend process
    NeedsDb,     \* environments whose repository asks for a sidecar database
    Handlers,    \* the API operations users perform in this instance
    Faults,      \* the failures that occur in this instance
    NoRow,       \* no row with this id
    Nil          \* NULL

Tasks == 1..MaxTasks

\* A container id.  A task provisions at most one container per delivery,
\* and retried or crashes tells two deliveries of one task apart.
Cids == [task : Tasks, try : 0..MaxRetry, boot : 0..MaxCrashes]

Statuses == {"BUILDING", "RUNNING", "STOPPED", "FAILED"}

\* How long ago the row was touched: "inactive" when last_activity_at is past
\* the idle threshold, "expired" when updated_at is past it as well (a touch
\* sets both, any other write sets updated_at only).
Ages == {"fresh", "inactive", "expired"}

Rows == [status : Statuses, cid : Cids \cup {Nil}, age : Ages]

\* "created": CreateContainer succeeded and StartContainer did not.
Apps == [id : Cids, state : {"created", "up", "down"}]

WorkerPcs == {"clone", "sidecar", "resolve", "remove", "create", "boot",
              "ready", "deadline", "ack"}
TaskPcs   == WorkerPcs \cup {"unused", "pending", "leased", "done", "archived"}
ProcPcs   == {"idle", "enqueue", "rollback",
              "restartApp", "restartDb", "restartSave",
              "deleteApp", "deleteDb", "deletePurge", "deleteRow", "deleteDir",
              "gitSave", "gitTouch"}
AllHandlers == {"create", "fork", "restart", "delete", "git", "touch", "edit",
                "start_command"}
AllFaults   == {"enqueue", "clone", "sidecar", "runtime", "script", "provision",
                "slow", "exit", "docker", "dbread", "crash", "shutdown"}

ASSUME ConstantsAssumption ==
    /\ MaxTasks \in Nat /\ MaxRetry \in Nat /\ MaxCrashes \in Nat
    /\ Sweepers \subseteq {"ticker", "cron"}
    /\ NeedsDb \subseteq Envs
    /\ Handlers \subseteq AllHandlers
    /\ Faults \subseteq AllFaults
    /\ NoRow \notin Rows
    /\ Nil \notin Cids \cup Apps \cup Envs

VARIABLES
    up,         \* whether the backend process runs
    crashes,    \* how often it has ended
    born,       \* ids that have been inserted
    issued,     \* build tasks that a request has created or will create
    row, activity, task, app, sidecar, workspace,
    proc,       \* the API requests in flight
    sweep,      \* the idle sweeps: todo, the rows their query returned
    reap        \* the reapers: todo, the containers their listing returned

dbVars     == <<row, activity>>
dockerVars == <<app, sidecar>>
vars == <<up, crashes, born, issued, dbVars, task, dockerVars, workspace,
          proc, sweep, reap>>

NoTask    == [env |-> Nil, pc |-> "unused", retried |-> 0]
NoRequest == [pc |-> "idle", env |-> Nil, task |-> 0, snap |-> NoRow]
NoSweep   == [todo |-> {}, cur |-> Nil, pc |-> "idle"]
NoReap    == [todo |-> {}, cur |-> Nil, pc |-> "idle"]

TaskStates  == [env : Envs \cup {Nil}, pc : TaskPcs, retried : 0..MaxRetry]
Requests    == [pc : ProcPcs, env : Envs \cup {Nil}, task : 0..MaxTasks,
                snap : Rows \cup {NoRow}]
SweepItems  == [env : Envs, cid : Cids \cup {Nil}]
SweepStates == [todo : SUBSET SweepItems, cur : SweepItems \cup {Nil},
                pc : {"idle", "db", "dir", "stop"}]
ReapItems   == [env : Envs, kind : {"app", "db"}]
ReapStates  == [todo : SUBSET ReapItems, cur : ReapItems \cup {Nil},
                pc : {"idle", "remove", "dir"}]

TypeOK ==
    /\ up \in BOOLEAN
    /\ crashes \in 0..MaxCrashes
    /\ born \subseteq Envs
    /\ issued \in 0..MaxTasks
    /\ row \in [Envs -> Rows \cup {NoRow}]
    /\ activity \subseteq Envs
    /\ task \in [Tasks -> TaskStates]
    /\ app \in [Envs -> Apps \cup {Nil}]
    /\ sidecar \subseteq Envs
    /\ workspace \subseteq Envs
    /\ proc \in [Procs -> Requests]
    /\ sweep \in [Sweepers -> SweepStates]
    /\ reap \in [Reapers -> ReapStates]

Init ==
    /\ up = TRUE
    /\ crashes = 0
    /\ born = {}
    /\ issued = 0
    /\ row = [e \in Envs |-> NoRow]
    /\ activity = {}
    /\ task = [t \in Tasks |-> NoTask]
    /\ app = [e \in Envs |-> Nil]
    /\ sidecar = {}
    /\ workspace = {}
    /\ proc = [p \in Procs |-> NoRequest]
    /\ sweep = [s \in Sweepers |-> NoSweep]
    /\ reap = [r \in Reapers |-> NoReap]

Exists(e) == row[e] # NoRow
Active(e) == Exists(e) /\ row[e].status \in {"BUILDING", "RUNNING"}

-----------------------------------------------------------------------------
(* Writes of the row, and of Docker's containers.                          *)

\* Any write of a row refreshes updated_at, none but a touch last_activity_at.
Rewritten(age) == IF age = "expired" THEN "inactive" ELSE age

\* Mutation: db.Save in the place of Update.
UpsertStatus(e, status) ==
    row' = [row EXCEPT ![e] = [status |-> status, cid |-> Nil, age |-> "fresh"]]

\* Model(&env).Update: an UPDATE of the columns named, of no row if there is none.
UpdateStatus(e, status) ==
    row' = IF Exists(e)
             THEN [row EXCEPT ![e] = [status |-> status, cid |-> row[e].cid,
                                      age |-> Rewritten(row[e].age)]]
             ELSE row

\* TouchEnvironmentActivity: last_activity_at, and with it updated_at.
TouchEnvironmentActivity(e) ==
    row' = IF Exists(e) THEN [row EXCEPT ![e].age = "fresh"] ELSE row

\* CleanupContainer by the app container's name; every caller ignores its error.
CleanupApp(e) == \/ app' = [app EXCEPT ![e] = Nil]
                 \/ "docker" \in Faults /\ UNCHANGED app

\* Mutation: the container's name in the place of its id.
CleanupByName(e, cid) == CleanupApp(e)

\* CleanupContainer by id: nothing happens unless that container is there.
CleanupById(e, cid) == IF app[e] # Nil /\ app[e].id = cid THEN CleanupApp(e)
                                                          ELSE UNCHANGED app

CleanupDb(e) == \/ sidecar' = sidecar \ {e}
                \/ "docker" \in Faults /\ UNCHANGED sidecar

-----------------------------------------------------------------------------
(* The API handlers, cut at every call that leaves the process.            *)

Step(p, pc)  == proc' = [proc EXCEPT ![p].pc = pc]
Return(p)    == proc' = [proc EXCEPT ![p] = NoRequest]
Receives(p, h) == up /\ h \in Handlers /\ proc[p] = NoRequest

Insert(p, e) ==
    /\ e \notin born
    /\ issued < MaxTasks
    /\ born' = born \cup {e}
    /\ issued' = issued + 1
    /\ row' = [row EXCEPT ![e] = [status |-> "BUILDING", cid |-> Nil, age |-> "fresh"]]
    /\ proc' = [proc EXCEPT ![p] = [pc |-> "enqueue", env |-> e, task |-> issued + 1,
                                    snap |-> NoRow]]
    /\ UNCHANGED <<up, crashes, activity, task, dockerVars, workspace, sweep, reap>>

CreateEnvironment(p, e) == Receives(p, "create") /\ Insert(p, e)

ForkEnvironment(p, e, original) ==
    /\ Receives(p, "fork")
    /\ Exists(original)
    /\ Insert(p, e)

\* queue.Client.Enqueue of CreateEnvironment, ForkEnvironment and RestartEnvironment.
\* An error leaves it open whether Redis has stored the task.
Enqueue(p) ==
    LET stored == [task EXCEPT ![proc[p].task] =
                     [env |-> proc[p].env, pc |-> "pending", retried |-> 0]]
    IN /\ proc[p].pc = "enqueue"
       /\ \/ task' = stored /\ Return(p)
          \/ "enqueue" \in Faults /\ task' \in {task, stored} /\ Step(p, "rollback")
       /\ UNCHANGED <<up, crashes, born, issued, dbVars, dockerVars, workspace, sweep, reap>>

RollbackStatus(p) ==
    /\ proc[p].pc = "rollback"
    /\ UpdateStatus(proc[p].env, "FAILED")
    /\ Return(p)
    /\ UNCHANGED <<up, crashes, born, issued, activity, task, dockerVars, workspace, sweep, reap>>

\* RestartEnvironment answers 409 to a row it reads as BUILDING, after the touch.
RestartRefused(p, e) ==
    /\ Receives(p, "restart")
    /\ Exists(e) /\ row[e].status = "BUILDING"
    /\ TouchEnvironmentActivity(e)
    /\ UNCHANGED <<up, crashes, born, issued, activity, task, dockerVars, workspace,
                   proc, sweep, reap>>

\* The row it read, snap, is the one before its own touch.
RestartRead(p, e) ==
    /\ Receives(p, "restart")
    /\ Exists(e) /\ row[e].status # "BUILDING"
    /\ issued < MaxTasks
    /\ issued' = issued + 1
    /\ TouchEnvironmentActivity(e)
    /\ proc' = [proc EXCEPT ![p] = [pc |-> "restartApp", env |-> e, task |-> issued + 1,
                                    snap |-> row[e]]]
    /\ UNCHANGED <<up, crashes, born, activity, task, dockerVars, workspace, sweep, reap>>

RestartCleanupApp(p) ==
    /\ proc[p].pc = "restartApp"
    /\ CleanupApp(proc[p].env)
    /\ Step(p, "restartDb")
    /\ UNCHANGED <<up, crashes, born, issued, dbVars, task, sidecar, workspace, sweep, reap>>

RestartCleanupDb(p) ==
    /\ proc[p].pc = "restartDb"
    /\ CleanupDb(proc[p].env)
    /\ Step(p, "restartSave")
    /\ UNCHANGED <<up, crashes, born, issued, dbVars, task, app, workspace, sweep, reap>>

\* Mutation: only the container id is reset.
OldStatus(snap) == [status |-> snap.status, cid |-> Nil, age |-> Rewritten(snap.age)]

Restarted(snap) == [status |-> "BUILDING", cid |-> Nil, age |-> Rewritten(snap.age)]

\* db.Save writes every column of the row read at the start, and inserts it if
\* the row is gone.
RestartSave(p) ==
    /\ proc[p].pc = "restartSave"
    /\ row' = [row EXCEPT ![proc[p].env] = Restarted(proc[p].snap)]
    /\ proc' = [proc EXCEPT ![p].pc = "enqueue", ![p].snap = NoRow]
    /\ UNCHANGED <<up, crashes, born, issued, activity, task, dockerVars, workspace, sweep, reap>>

DeleteRead(p, e) ==
    /\ Receives(p, "delete")
    /\ Exists(e)
    /\ proc' = [proc EXCEPT ![p] = [pc |-> "deleteApp", env |-> e, task |-> 0,
                                    snap |-> NoRow]]
    /\ UNCHANGED <<up, crashes, born, issued, dbVars, task, dockerVars, workspace, sweep, reap>>

DeleteCleanupApp(p) ==
    /\ proc[p].pc = "deleteApp"
    /\ CleanupApp(proc[p].env)
    /\ Step(p, "deleteDb")
    /\ UNCHANGED <<up, crashes, born, issued, dbVars, task, sidecar, workspace, sweep, reap>>

DeleteCleanupDb(p) ==
    /\ proc[p].pc = "deleteDb"
    /\ CleanupDb(proc[p].env)
    /\ Step(p, "deletePurge")
    /\ UNCHANGED <<up, crashes, born, issued, dbVars, task, app, workspace, sweep, reap>>

\* The rows that refer to the environment; those of activities go last.
DeletePurge(p) ==
    /\ proc[p].pc = "deletePurge"
    /\ activity' = activity \ {proc[p].env}
    /\ Step(p, "deleteRow")
    /\ UNCHANGED <<up, crashes, born, issued, row, task, dockerVars, workspace, sweep, reap>>

\* An activity inserted since the purge blocks the deletion (foreign key): 500.
DeleteRow(p) ==
    /\ proc[p].pc = "deleteRow"
    /\ IF proc[p].env \in activity
         THEN UNCHANGED row /\ Return(p)
         ELSE row' = [row EXCEPT ![proc[p].env] = NoRow] /\ Step(p, "deleteDir")
    /\ UNCHANGED <<up, crashes, born, issued, activity, task, dockerVars, workspace, sweep, reap>>

DeleteWorkspace(p) ==
    /\ proc[p].pc = "deleteDir"
    /\ workspace' = workspace \ {proc[p].env}
    /\ Return(p)
    /\ UNCHANGED <<up, crashes, born, issued, dbVars, task, dockerVars, sweep, reap>>

\* GitBranch and GitCheckout: checkWorkspaceWriteAccess reads the row and touches it.
GitRead(p, e) ==
    /\ Receives(p, "git")
    /\ Exists(e)
    /\ TouchEnvironmentActivity(e)
    /\ proc' = [proc EXCEPT ![p] = [pc |-> "gitSave", env |-> e, task |-> 0,
                                    snap |-> row[e]]]
    /\ UNCHANGED <<up, crashes, born, issued, activity, task, dockerVars, workspace, sweep, reap>>

\* git runs in the workspace; when it fails (400) nothing is written, when it
\* succeeds the row that was read is saved back under its new branch.
GitSave(p) ==
    LET e == proc[p].env IN
    /\ proc[p].pc = "gitSave"
    /\ \/ UNCHANGED row /\ Return(p)
       \/ /\ e \in workspace
          /\ row' = [row EXCEPT ![e] = [proc[p].snap EXCEPT !.age = Rewritten(@)]]
          /\ proc' = [proc EXCEPT ![p].pc = "gitTouch", ![p].snap = NoRow]
    /\ UNCHANGED <<up, crashes, born, issued, activity, task, dockerVars, workspace, sweep, reap>>

GitTouch(p) ==
    /\ proc[p].pc = "gitTouch"
    /\ TouchEnvironmentActivity(proc[p].env)
    /\ Return(p)
    /\ UNCHANGED <<up, crashes, born, issued, activity, task, dockerVars, workspace, sweep, reap>>

\* Every other handler, and every frame of a WebSocket client, only touches.
Touch(e) ==
    /\ up /\ "touch" \in Handlers
    /\ Exists(e) /\ row[e].age # "fresh"
    /\ TouchEnvironmentActivity(e)
    /\ UNCHANGED <<up, crashes, born, issued, activity, task, dockerVars, workspace,
                   proc, sweep, reap>>

\* The watcher, or the goroutine of a save, records an edit of the workspace.
RecordActivity(e) ==
    /\ up /\ "edit" \in Handlers
    /\ Exists(e)
    /\ activity' = activity \cup {e}
    /\ UNCHANGED <<up, crashes, born, issued, row, task, dockerVars, workspace,
                   proc, sweep, reap>>

HandlerStep(p) ==
    up /\ ( \/ Enqueue(p) \/ RollbackStatus(p)
            \/ RestartCleanupApp(p) \/ RestartCleanupDb(p) \/ RestartSave(p)
            \/ DeleteCleanupApp(p) \/ DeleteCleanupDb(p) \/ DeletePurge(p)
            \/ DeleteRow(p) \/ DeleteWorkspace(p)
            \/ GitSave(p) \/ GitTouch(p) )

Request(p, e) ==
    \/ CreateEnvironment(p, e)
    \/ \E original \in Envs : ForkEnvironment(p, e, original)
    \/ RestartRefused(p, e) \/ RestartRead(p, e)
    \/ DeleteRead(p, e)
    \/ GitRead(p, e)

-----------------------------------------------------------------------------
(* The build worker: HandleBuildEnvironmentTask under asynq.               *)

Advance(t, pc) == task' = [task EXCEPT ![t].pc = pc]

\* Mutation: one retry too many.
RetryOnceMore(t) ==
    task' = IF task[t].retried <= MaxRetry
              THEN [task EXCEPT ![t].pc = "pending", ![t].retried = task[t].retried + 1]
              ELSE [task EXCEPT ![t].pc = "archived"]

\* Mutation: a task that is always delivered again.
RetryForever(t) == task' = [task EXCEPT ![t].pc = "pending"]

\* The handler returned an error: asynq delivers the task again or archives it.
RetryOrArchive(t) ==
    task' = IF task[t].retried < MaxRetry
              THEN [task EXCEPT ![t].pc = "pending", ![t].retried = task[t].retried + 1]
              ELSE [task EXCEPT ![t].pc = "archived"]

\* Mutation: the error without the status.
FailSilently(t) == UNCHANGED row /\ RetryOrArchive(t)

\* The common failure exit: status FAILED, then the error.
FailBuild(t) == UpdateStatus(task[t].env, "FAILED") /\ RetryOrArchive(t)

NewCid(t) == [task |-> t, try |-> task[t].retried, boot |-> crashes]
IsOwn(t)  == app[task[t].env] # Nil /\ app[task[t].env].id = NewCid(t)

LoadEnvironment(t) ==
    LET e == task[t].env IN
    /\ task[t].pc = "pending"
    /\ IF Exists(e) THEN CleanupById(e, row[e].cid) /\ Advance(t, "clone")
                    ELSE UNCHANGED app /\ RetryOrArchive(t)
    /\ UNCHANGED <<up, crashes, born, issued, dbVars, sidecar, workspace, proc, sweep, reap>>

CloneOrFetch(t) ==
    LET e == task[t].env IN
    /\ task[t].pc = "clone"
    /\ \/ workspace' = workspace \cup {e} /\ Advance(t, "sidecar") /\ UNCHANGED row
       \/ "clone" \in Faults /\ workspace' \in {workspace, workspace \cup {e}} /\ FailBuild(t)
    /\ UNCHANGED <<up, crashes, born, issued, activity, dockerVars, proc, sweep, reap>>

\* Removes the old sidecar, creates and starts the new one, waits for it.
StartSidecarDatabase(t) ==
    LET e == task[t].env
        detected == e \in NeedsDb /\ e \in workspace
    IN /\ task[t].pc = "sidecar"
       /\ \/ ~detected /\ Advance(t, "resolve") /\ UNCHANGED <<row, sidecar>>
          \/ detected /\ sidecar' = sidecar \cup {e} /\ Advance(t, "resolve") /\ UNCHANGED row
          \/ /\ detected /\ "sidecar" \in Faults
             /\ sidecar' \in {sidecar \ {e}, sidecar \cup {e}}
             /\ FailBuild(t)
       /\ UNCHANGED <<up, crashes, born, issued, activity, app, workspace, proc, sweep, reap>>

\* ResolveRuntime, and the write of sandbox-start.sh.  Without a workspace the
\* first fails, unless the user has set a start command: then the second does,
\* and that error path leaves the status alone.
ResolveRuntime(t) ==
    LET e == task[t].env IN
    /\ task[t].pc = "resolve"
    /\ \/ e \in workspace /\ Advance(t, "remove") /\ UNCHANGED row
       \/ /\ e \notin workspace \/ "runtime" \in Faults
          /\ FailBuild(t)
       \/ /\ \/ "script" \in Faults
             \/ e \notin workspace /\ "start_command" \in Handlers
          /\ RetryOrArchive(t) /\ UNCHANGED row
    /\ UNCHANGED <<up, crashes, born, issued, activity, dockerVars, workspace, proc, sweep, reap>>

\* The first step of ProvisionDevSandbox; the image pull follows.
RemoveOldContainer(t) ==
    /\ task[t].pc = "remove"
    /\ CleanupApp(task[t].env)
    /\ Advance(t, "create")
    /\ UNCHANGED <<up, crashes, born, issued, dbVars, sidecar, workspace, proc, sweep, reap>>

\* CreateContainer fails while another container has the name; the bind mount
\* creates the workspace directory when it is missing.
CreateContainer(t) ==
    LET e == task[t].env
        Created(state) == app' = [app EXCEPT ![e] = [id |-> NewCid(t), state |-> state]]
    IN /\ task[t].pc = "create"
       /\ \/ /\ app[e] = Nil
             /\ Created("up") /\ workspace' = workspace \cup {e}
             /\ Advance(t, "boot") /\ UNCHANGED row
          \/ /\ app[e] # Nil \/ "provision" \in Faults
             /\ UNCHANGED <<app, workspace>> /\ FailBuild(t)
          \/ /\ app[e] = Nil /\ "provision" \in Faults
             /\ Created("created") /\ UNCHANGED workspace /\ FailBuild(t)
       /\ UNCHANGED <<up, crashes, born, issued, activity, sidecar, proc, sweep, reap>>

\* One round of the boot loop that leaves it: the container is gone or has
\* stopped, or Docker does not say; it answers, or needs no answer; or it still
\* runs at the deadline.
PollHealth(t) ==
    LET running == IsOwn(t) /\ app[task[t].env].state = "up" IN
    /\ task[t].pc = "boot"
    /\ \/ /\ ~running \/ "docker" \in Faults
          /\ FailBuild(t)
       \/ running /\ Advance(t, "ready") /\ UNCHANGED row
       \/ running /\ "slow" \in Faults /\ Advance(t, "deadline") /\ UNCHANGED row
    /\ UNCHANGED <<up, crashes, born, issued, activity, dockerVars, workspace, proc, sweep, reap>>

\* Mutation: the status without the container id.
MarkStatusOnly(t) ==
    /\ task[t].pc \in {"ready", "deadline"}
    /\ UpdateStatus(task[t].env, "RUNNING")
    /\ Advance(t, "ack")
    /\ UNCHANGED <<up, crashes, born, issued, activity, dockerVars, workspace, proc, sweep, reap>>

\* Updates: status and container id in one UPDATE, of no row if it is gone.
MarkRunning(t) ==
    LET e == task[t].env IN
    /\ task[t].pc \in {"ready", "deadline"}
    /\ row' = IF Exists(e)
                THEN [row EXCEPT ![e] = [status |-> "RUNNING", cid |-> NewCid(t),
                                         age |-> Rewritten(row[e].age)]]
                ELSE row
    /\ Advance(t, "ack")
    /\ UNCHANGED <<up, crashes, born, issued, activity, dockerVars, workspace, proc, sweep, reap>>

\* The handler returned nil: asynq forgets the task.
Acknowledge(t) ==
    /\ task[t].pc = "ack"
    /\ Advance(t, "done")
    /\ UNCHANGED <<up, crashes, born, issued, dbVars, dockerVars, workspace, proc, sweep, reap>>

\* The recoverer of asynq finds the lease of a dead worker expired.
RecoverLease(t) ==
    /\ task[t].pc = "leased"
    /\ RetryOrArchive(t)
    /\ UNCHANGED <<up, crashes, born, issued, dbVars, dockerVars, workspace, proc, sweep, reap>>

WorkerStep(t) ==
    up /\ ( \/ LoadEnvironment(t) \/ CloneOrFetch(t) \/ StartSidecarDatabase(t)
            \/ ResolveRuntime(t) \/ RemoveOldContainer(t) \/ CreateContainer(t)
            \/ PollHealth(t) \/ MarkRunning(t) \/ Acknowledge(t) \/ RecoverLease(t) )

-----------------------------------------------------------------------------
(* The idle sweeps: one query, then four calls for each row it returned.   *)

SweepQuery(s) ==
    LET overdue == IF s = "ticker" THEN {"inactive", "expired"} ELSE {"expired"}
        idle    == {e \in Envs : Exists(e) /\ row[e].status = "RUNNING" /\ row[e].age \in overdue}
    IN /\ sweep[s] = NoSweep
       /\ idle # {}
       /\ sweep' = [sweep EXCEPT ![s].todo = {[env |-> e, cid |-> row[e].cid] : e \in idle}]
       /\ UNCHANGED <<up, crashes, born, issued, dbVars, task, dockerVars, workspace, proc, reap>>

SweepApp(s, i) ==
    /\ sweep[s].pc = "idle" /\ i \in sweep[s].todo
    /\ IF i.cid # Nil THEN CleanupById(i.env, i.cid) ELSE CleanupApp(i.env)
    /\ sweep' = [sweep EXCEPT ![s] = [todo |-> sweep[s].todo \ {i}, cur |-> i, pc |-> "db"]]
    /\ UNCHANGED <<up, crashes, born, issued, dbVars, task, sidecar, workspace, proc, reap>>

SweepDb(s) ==
    /\ sweep[s].pc = "db"
    /\ CleanupDb(sweep[s].cur.env)
    /\ sweep' = [sweep EXCEPT ![s].pc = "dir"]
    /\ UNCHANGED <<up, crashes, born, issued, dbVars, task, app, workspace, proc, reap>>

SweepWorkspace(s) ==
    /\ sweep[s].pc = "dir"
    /\ workspace' = workspace \ {sweep[s].cur.env}
    /\ sweep' = [sweep EXCEPT ![s].pc = "stop"]
    /\ UNCHANGED <<up, crashes, born, issued, dbVars, task, dockerVars, proc, reap>>

SweepStop(s) ==
    /\ sweep[s].pc = "stop"
    /\ UpdateStatus(sweep[s].cur.env, "STOPPED")
    /\ sweep' = [sweep EXCEPT ![s].cur = Nil, ![s].pc = "idle"]
    /\ UNCHANGED <<up, crashes, born, issued, activity, task, dockerVars, workspace, proc, reap>>

SweepStep(s) ==
    up /\ ( \/ SweepQuery(s)
            \/ \E i \in sweep[s].todo : SweepApp(s, i)
            \/ SweepDb(s) \/ SweepWorkspace(s) \/ SweepStop(s) )

-----------------------------------------------------------------------------
(* ReapOrphanContainers: one listing, then a decision for each container.  *)

ReapList(r) ==
    LET listed == {[env |-> e, kind |-> "app"] : e \in {x \in Envs : app[x] # Nil}}
                    \cup {[env |-> e, kind |-> "db"] : e \in sidecar}
    IN /\ reap[r] = NoReap
       /\ listed # {}
       /\ reap' = [reap EXCEPT ![r].todo = listed]
       /\ UNCHANGED <<up, crashes, born, issued, dbVars, task, dockerVars, workspace, proc, sweep>>

\* Mutation: only containers whose row is gone.
RowIsGone(e) == ~Exists(e)

\* Any error of the lookup, "not found" or another, decides against the container.
ShouldReap(e) == ~Active(e)

ReapDecide(r, i) ==
    LET rest == reap[r].todo \ {i} IN
    /\ reap[r].pc = "idle" /\ i \in reap[r].todo
    /\ \/ /\ ShouldReap(i.env) \/ "dbread" \in Faults
          /\ reap' = [reap EXCEPT ![r] = [todo |-> rest, cur |-> i, pc |-> "remove"]]
       \/ ~ShouldReap(i.env) /\ reap' = [reap EXCEPT ![r].todo = rest]
    /\ UNCHANGED <<up, crashes, born, issued, dbVars, task, dockerVars, workspace, proc, sweep>>

ReapContainer(r) ==
    LET i == reap[r].cur IN
    /\ reap[r].pc = "remove"
    /\ \/ /\ i.kind = "app"
          /\ CleanupApp(i.env) /\ UNCHANGED sidecar
          /\ reap' = [reap EXCEPT ![r].pc = "dir"]
       \/ /\ i.kind = "db"
          /\ CleanupDb(i.env) /\ UNCHANGED app
          /\ reap' = [reap EXCEPT ![r].cur = Nil, ![r].pc = "idle"]
    /\ UNCHANGED <<up, crashes, born, issued, dbVars, task, workspace, proc, sweep>>

ReapWorkspace(r) ==
    /\ reap[r].pc = "dir"
    /\ workspace' = workspace \ {reap[r].cur.env}
    /\ reap' = [reap EXCEPT ![r].cur = Nil, ![r].pc = "idle"]
    /\ UNCHANGED <<up, crashes, born, issued, dbVars, task, dockerVars, proc, sweep>>

ReapStep(r) ==
    up /\ ( \/ ReapList(r)
            \/ \E i \in reap[r].todo : ReapDecide(r, i)
            \/ ReapContainer(r) \/ ReapWorkspace(r) )

-----------------------------------------------------------------------------
(* Time, Docker, and the end and the start of the backend process.         *)

\* Time passes without a touch; only the sweeps look at it.
GrowOld(e) ==
    /\ Sweepers # {}
    /\ Exists(e) /\ row[e].age # "expired"
    /\ row' = [row EXCEPT ![e].age = IF row[e].age = "fresh" THEN "inactive" ELSE "expired"]
    /\ UNCHANGED <<up, crashes, born, issued, activity, task, dockerVars, workspace,
                   proc, sweep, reap>>

\* The application exits, or Docker restarts it (RestartOnFailure).
AppChanges(e) ==
    /\ "exit" \in Faults
    /\ app[e] # Nil /\ app[e].state # "created"
    /\ app' = [app EXCEPT ![e].state = IF app[e].state = "up" THEN "down" ELSE "up"]
    /\ UNCHANGED <<up, crashes, born, issued, dbVars, task, sidecar, workspace,
                   proc, sweep, reap>>

\* What the backend held in memory is gone; its tasks become `fate`.
Halt(fate) ==
    /\ up /\ crashes < MaxCrashes
    /\ up' = FALSE
    /\ crashes' = crashes + 1
    /\ task' = [t \in Tasks |-> IF task[t].pc \in WorkerPcs
                                  THEN [task[t] EXCEPT !.pc = fate] ELSE task[t]]
    /\ proc' = [p \in Procs |-> NoRequest]
    /\ sweep' = [s \in Sweepers |-> NoSweep]
    /\ reap' = [r \in Reapers |-> NoReap]
    /\ UNCHANGED <<born, issued, dbVars, dockerVars, workspace>>

\* A killed process leaves its tasks leased.
Crash == "crash" \in Faults /\ Halt("leased")

\* A graceful shutdown waits for the requests, and asynq requeues the tasks.
Shutdown ==
    /\ "shutdown" \in Faults
    /\ \A p \in Procs : proc[p] = NoRequest
    /\ Halt("pending")

\* main: every row left in BUILDING becomes FAILED before the worker starts.
Boot ==
    /\ ~up
    /\ up' = TRUE
    /\ row' = [e \in Envs |-> IF Exists(e) /\ row[e].status = "BUILDING"
                                THEN [row[e] EXCEPT !.status = "FAILED",
                                                    !.age = Rewritten(row[e].age)]
                                ELSE row[e]]
    /\ UNCHANGED <<crashes, born, issued, activity, task, dockerVars, workspace,
                   proc, sweep, reap>>

-----------------------------------------------------------------------------
Next ==
    \/ \E p \in Procs, e \in Envs : Request(p, e)
    \/ \E p \in Procs : HandlerStep(p)
    \/ \E t \in Tasks : WorkerStep(t)
    \/ \E s \in Sweepers : SweepStep(s)
    \/ \E r \in Reapers : ReapStep(r)
    \/ \E e \in Envs : Touch(e) \/ RecordActivity(e) \/ GrowOld(e) \/ AppChanges(e)
    \/ Crash \/ Shutdown \/ Boot

Spec == Init /\ [][Next]_vars

\* Goroutines run: a request in flight, a build, a reaper proceed, and the
\* process is started again.  Users, time and failures promise nothing.
Fairness ==
    /\ \A p \in Procs : WF_vars(HandlerStep(p))
    /\ \A t \in Tasks : WF_vars(WorkerStep(t))
    /\ \A s \in Sweepers : WF_vars(SweepStep(s))
    /\ \A r \in Reapers : WF_vars(ReapStep(r))
    /\ WF_vars(Boot)

FairSpec == Spec /\ Fairness

-----------------------------------------------------------------------------
(* Properties.                                                             *)

\* A row that says RUNNING names the container to stop: the metrics collector,
\* the log stream, the save handler and the sweeps act on it only when it does
\* (worker/cron.go:24, worker/cron.go:63, api/files.go:240).  Every writer of a
\* status or of a container id takes part, the stale whole-row saves included.
RunningHasContainerId ==
    \A e \in Envs : Exists(e) /\ row[e].status = "RUNNING" => row[e].cid # Nil

\* What the handlers and the workers hold names an environment and, where it is
\* saved back or acted upon later, a row.
LocalsBound ==
    /\ \A t \in Tasks : task[t].pc # "unused" => task[t].env \in Envs
    /\ \A p \in Procs : /\ proc[p].pc # "idle" => proc[p].env \in Envs
                        /\ proc[p].pc \in {"restartApp", "restartDb", "restartSave", "gitSave"}
                             => proc[p].snap \in Rows

\* The same of every copy of a row that may be written back or acted upon.
CopiesHaveContainerId ==
    /\ \A p \in Procs : proc[p].pc = "gitSave" /\ proc[p].snap.status = "RUNNING"
                         => proc[p].snap.cid # Nil
    /\ \A s \in Sweepers : \A i \in sweep[s].todo : i.cid # Nil
    /\ \A s \in Sweepers : sweep[s].cur # Nil => sweep[s].cur.cid # Nil

\* Inductive; the first theorems rest on it.
CidInv == TypeOK /\ LocalsBound /\ RunningHasContainerId /\ CopiesHaveContainerId

Building(e) == Exists(e) /\ row[e].status = "BUILDING"

\* Someone is going to end the build of e: a task that is not settled, or a
\* request about to create one or to give up, or the recovery at the next boot.
Unsettled(t)  == task[t].pc \notin {"unused", "done", "archived"}
Owned(e) == \/ ~up
            \/ \E t \in Tasks : task[t].env = e /\ Unsettled(t)
            \/ \E p \in Procs : proc[p].env = e /\ proc[p].pc \in {"enqueue", "rollback"}

\* No row is left BUILDING with nobody to take it out of that status, where a
\* restart would be refused for ever (handlers.go:663): not after a failed
\* enqueue, an exhausted retry, a crash, or two overlapping builds.
BuildingIsOwned ==
    \A e \in Envs : Building(e) => Owned(e)

\* Why BuildingIsOwned holds.  The build that ends a BUILDING row is one that
\* still has to write a status: not one that has marked its row RUNNING ("ack"),
\* nor one that died with an earlier process ("leased"), whose row the boot has
\* already failed.
CarrierPcs == {"pending"} \cup (WorkerPcs \ {"ack"})
Carried(e) == \/ ~up
              \/ \E t \in Tasks : task[t].env = e /\ task[t].pc \in CarrierPcs
              \/ \E p \in Procs : proc[p].env = e /\ proc[p].pc \in {"enqueue", "rollback"}
BuildingIsCarried == \A e \in Envs : Building(e) => Carried(e)

\* The task a request is going to store is its own and not yet there, so that
\* storing it takes nothing away from another build.
Reserving == {"restartApp", "restartDb", "restartSave", "enqueue"}
SlotsReserved ==
    /\ \A t \in Tasks : t > issued => task[t].pc = "unused"
    /\ \A p \in Procs : proc[p].pc \in Reserving =>
          proc[p].task \in 1..issued /\ task[proc[p].task].pc = "unused"
    /\ \A p, q \in Procs :
          proc[p].pc \in Reserving /\ proc[q].pc \in Reserving /\ p # q
            => proc[p].task # proc[q].task

OwnershipInv == CidInv /\ SlotsReserved /\ BuildingIsCarried

\* While a build is recorded as BUILDING its end is coming (e2e_orphan_test.sh:7:
\* "exit non-zero if the environment stays BUILDING forever").
BuildingEnds ==
    \A e \in Envs : Building(e) ~> ~Building(e)

\* The first step of an idle sweep removes no app container but the one its
\* query saw, although the environment may have been restarted since.
SweepSparesNewContainer ==
    [][\A s \in Sweepers, e \in Envs :
          sweep[s].pc = "idle" /\ sweep'[s].pc = "db" /\ app'[e] # app[e]
            => sweep'[s].cur = [env |-> e, cid |-> app[e].id]]_vars

\* The only requests that can bring a deleted row back are the two that save a
\* whole row they read before (handlers.go:684, git.go:304 and 366), and only for
\* the environment they hold.
OnlySavesRevive ==
    [][\A e \in Envs : e \in born /\ ~Exists(e) /\ Exists(e)' =>
          \E p \in Procs : proc[p].env = e /\ proc[p].pc \in {"restartSave", "gitSave"}]_vars

\* What the readers of the table see of a row, and what a request is going to save.
Shown(r) == IF r = NoRow THEN NoRow ELSE [status |-> r.status, cid |-> r.cid]
HeldBy(request) ==
    IF request.pc = "gitSave"
      THEN [env |-> request.env, saves |-> Shown(request.snap)]
    ELSE IF request.pc \in {"restartApp", "restartDb", "restartSave"}
      THEN [env |-> request.env, saves |-> Shown(Restarted(request.snap))]
    ELSE [env |-> Nil, saves |-> NoRow]
ShownRows == [e \in Envs |-> Shown(row[e])]
HeldRows  == [p \in Procs |-> HeldBy(proc[p])]

ASSUME ShownAssumption == NoRow \notin [status : Statuses, cid : Cids \cup {Nil}]

\* Where a delivery is when it announces nothing any more.
Over == {"ack", "done", "archived"}

\* The ids of the deliveries that have marked their row, or never will: those
\* that are over, and those a retry or a crash has put an end to.
Spent ==
    {c \in Cids : /\ task[c.task].pc # "unused"
                  /\ c.try <= task[c.task].retried /\ c.boot <= crashes
                  /\ c.try = task[c.task].retried /\ c.boot = crashes
                       => task[c.task].pc \in Over}

Lifecycle == INSTANCE EnvLifecycle WITH
    Clients <- Procs, Containers <- Cids, Gone <- NoRow,
    rows <- ShownRows, held <- HeldRows, spent <- Spent

\* Requests, queue, workers, retries, sweeps, crashes and boots implement the life
\* cycle that the readers of the table rely on: a container is announced once and
\* by one row, a deleted row stays deleted unless a request saves the copy it holds
\* (handlers.go:684, git.go:304 and 366), a late failure or sweep changes the status
\* and nothing more, and a boot leaves nothing BUILDING.
LifecycleSpec == Lifecycle!Spec

\* Orphans are eventually reaped: a container whose environment is neither
\* BUILDING nor RUNNING disappears, or its environment becomes active.
OrphansReaped ==
    \A e \in Envs : (app[e] # Nil \/ e \in sidecar) /\ ~Active(e)
                      ~> ((app[e] = Nil /\ e \notin sidecar) \/ Active(e))

\* Every task the queue has stored is settled.
TasksSettle == \A t \in Tasks : task[t].pc = "pending" ~> task[t].pc \in {"done", "archived"}
=============================================================================
