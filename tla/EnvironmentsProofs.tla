------------------------- MODULE EnvironmentsProofs -------------------------
(***************************************************************************)
(* Environments, for any number of environments, requests, tasks, retries, *)
(* crashes, sweeps and reapers: its types, the container id of a RUNNING   *)
(* row, what an idle sweep may remove, and what may revive a deleted row.  *)
(*                                                                         *)
(* The inductive invariant is CidInv of Environments.  It is regrouped     *)
(* below by the variables it is about (task, proc, row, sweep, the rest),  *)
(* so that a step that leaves a variable alone leaves its group alone      *)
(* (Frames).                                                               *)
(***************************************************************************)
EXTENDS Environments, TLAPS

\* The groups of CidInv.
TaskInv == /\ task \in [Tasks -> TaskStates]
           /\ \A t \in Tasks : task[t].pc # "unused" => task[t].env \in Envs
\* The requests that hold a row they have read.
Snapped == {"restartApp", "restartDb", "restartSave", "gitSave"}
ProcInv == /\ proc \in [Procs -> Requests]
           /\ \A p \in Procs : /\ proc[p].pc # "idle" => proc[p].env \in Envs
                               /\ proc[p].pc \in Snapped => proc[p].snap \in Rows
                               /\ proc[p].pc = "gitSave" /\ proc[p].snap.status = "RUNNING"
                                    => proc[p].snap.cid # Nil
RowInv  == /\ row \in [Envs -> Rows \cup {NoRow}]
           /\ RunningHasContainerId
SweepInv == /\ sweep \in [Sweepers -> SweepStates]
            /\ \A s \in Sweepers : \A i \in sweep[s].todo : i.cid # Nil
            /\ \A s \in Sweepers : sweep[s].cur # Nil => sweep[s].cur.cid # Nil
RestInv == /\ up \in BOOLEAN /\ crashes \in 0..MaxCrashes
           /\ born \subseteq Envs /\ issued \in 0..MaxTasks
           /\ activity \subseteq Envs /\ app \in [Envs -> Apps \cup {Nil}]
           /\ sidecar \subseteq Envs /\ workspace \subseteq Envs
           /\ reap \in [Reapers -> ReapStates]

\* The invariant that TLC checks is the one the proofs are about.
LEMMA Regroup == CidInv <=> TaskInv /\ ProcInv /\ RowInv /\ SweepInv /\ RestInv
BY DEF CidInv, TypeOK, LocalsBound, CopiesHaveContainerId, TaskInv, ProcInv, RowInv, SweepInv, RestInv, Snapped

\* A task that moves to another point of its handler keeps its environment.
LEMMA AdvanceInv ==
  ASSUME TaskInv, NEW t \in Tasks, task[t].pc # "unused", NEW pc \in TaskPcs \ {"unused"},
         Advance(t, pc)
  PROVE  TaskInv'
BY DEF TaskInv, Advance, TaskStates

\* A retry stays within MaxRetry: asynq delivers a task at most MaxRetry times again.
LEMMA RetryInv ==
  ASSUME TaskInv, NEW t \in Tasks, task[t].pc # "unused", RetryOrArchive(t)
  PROVE  TaskInv'
BY ConstantsAssumption DEF TaskInv, RetryOrArchive, TaskStates, TaskPcs

\* An Update to another status than RUNNING leaves no RUNNING row without a container.
LEMMA UpdateInv ==
  ASSUME RowInv, NEW e, NEW status \in Statuses \ {"RUNNING"}, UpdateStatus(e, status)
  PROVE  RowInv'
BY DEF RowInv, RunningHasContainerId, UpdateStatus, Exists, Rewritten, Rows, Ages

\* A touch (TouchEnvironmentActivity) changes neither status nor container id.
LEMMA TouchInv ==
  ASSUME RowInv, NEW e \in Envs, TouchEnvironmentActivity(e)
  PROVE  RowInv'
BY DEF RowInv, RunningHasContainerId, TouchEnvironmentActivity, Exists, Rows, Ages

\* A request that goes on keeps what it holds, and only a request that holds a row
\* it has read goes on to save it.
LEMMA StepInv ==
  ASSUME ProcInv, NEW p \in Procs, proc[p].pc # "idle", NEW pc \in ProcPcs, pc # "gitSave",
         pc \in Snapped => proc[p].pc \in Snapped, Step(p, pc)
  PROVE  ProcInv'
BY DEF ProcInv, Step, Requests, Snapped

\* A request that has been answered holds nothing.
LEMMA ReturnInv ==
  ASSUME ProcInv, NEW p \in Procs, Return(p)
  PROVE  ProcInv'
BY ConstantsAssumption DEF ProcInv, Return, NoRequest, Requests, Snapped, ProcPcs

\* Each group depends on its own variable only.
LEMMA Frames ==
  /\ TaskInv /\ UNCHANGED task => TaskInv'
  /\ ProcInv /\ UNCHANGED proc => ProcInv'
  /\ RowInv /\ UNCHANGED row => RowInv'
  /\ SweepInv /\ UNCHANGED sweep => SweepInv'
BY DEF TaskInv, ProcInv, RowInv, RunningHasContainerId, Exists, SweepInv

Inv == TaskInv /\ ProcInv /\ RowInv /\ SweepInv /\ RestInv

\* The first database access of each API handler preserves the invariant; a row
\* that is kept to be saved back (GitRead) is a row, with a container id if RUNNING.
LEMMA RequestPreserves ==
  ASSUME Inv, NEW p \in Procs, NEW e \in Envs, Request(p, e)
  PROVE  Inv'
<1> USE DEF Inv
<1>1. ASSUME Insert(p, e) PROVE Inv'
  <2>1. RowInv'
    BY <1>1 DEF Insert, RowInv, RunningHasContainerId, Exists, Rows, Statuses, Ages
  <2>2. ProcInv'
    BY <1>1, ConstantsAssumption DEF Insert, ProcInv, RestInv, Requests, Snapped, ProcPcs
  <2>3. RestInv'
    BY <1>1, ConstantsAssumption DEF Insert, RestInv, dockerVars
  <2> QED BY <1>1, <2>1, <2>2, <2>3, Frames DEF Insert
<1>2. CASE RestartRefused(p, e)
  BY <1>2, TouchInv, Frames DEF RestartRefused, RestInv, dockerVars
<1>3. CASE RestartRead(p, e)
  <2>1. ProcInv'
    BY <1>3, ConstantsAssumption
       DEF RestartRead, ProcInv, RowInv, RestInv, Requests, Snapped, ProcPcs, Exists
  <2>2. RestInv'
    BY <1>3, ConstantsAssumption DEF RestartRead, RestInv, dockerVars
  <2> QED BY <1>3, <2>1, <2>2, TouchInv, Frames DEF RestartRead
<1>4. CASE DeleteRead(p, e)
  <2>1. ProcInv'
    BY <1>4, ConstantsAssumption DEF DeleteRead, ProcInv, Requests, Snapped, ProcPcs
  <2> QED BY <1>4, <2>1, Frames DEF DeleteRead, RestInv, dbVars, dockerVars
<1>5. CASE GitRead(p, e)
  <2>1. ProcInv'
    BY <1>5, ConstantsAssumption
       DEF GitRead, ProcInv, RowInv, RunningHasContainerId, Requests, Snapped, ProcPcs, Exists
  <2> QED BY <1>5, <2>1, TouchInv, Frames DEF GitRead, RestInv, dockerVars
<1> QED BY <1>1, <1>2, <1>3, <1>4, <1>5 DEF Request, CreateEnvironment, ForkEnvironment

\* Every later step of an API handler preserves the invariant, the two whole-row
\* saves included: RestartSave writes BUILDING, GitSave a row that satisfied it.
LEMMA HandlerPreserves ==
  ASSUME Inv, NEW p \in Procs, HandlerStep(p)
  PROVE  Inv'
<1> USE DEF Inv
<1>1. CASE Enqueue(p)
  <2>1. TaskInv'
    <3>1. proc[p].env \in Envs
      BY <1>1 DEF Enqueue, ProcInv
    <3> DEFINE stored == [env |-> proc[p].env, pc |-> "pending", retried |-> 0]
    <3>2. stored \in TaskStates /\ stored.env \in Envs
      BY <3>1, ConstantsAssumption DEF TaskStates, TaskPcs
    <3>3. task' = task \/ task' = [task EXCEPT ![proc[p].task] = stored]
      BY <1>1 DEF Enqueue
    <3> QED BY <3>2, <3>3 DEF TaskInv
  <2>2. ProcInv'
    <3>1. CASE Return(p)
      BY <3>1, ReturnInv
    <3>2. CASE Step(p, "rollback")
      BY <1>1, <3>2, StepInv DEF Enqueue, ProcPcs, Snapped
    <3> QED BY <1>1, <3>1, <3>2 DEF Enqueue
  <2> QED BY <1>1, <2>1, <2>2, Frames DEF Enqueue, RestInv, dbVars, dockerVars
<1>2. CASE RollbackStatus(p)
  BY <1>2, UpdateInv, ReturnInv, Frames DEF RollbackStatus, RestInv, dockerVars, Statuses
<1>3. CASE RestartCleanupApp(p)
  BY <1>3, StepInv, Frames DEF RestartCleanupApp, CleanupApp, RestInv, dbVars, ProcPcs, Snapped
<1>4. CASE RestartCleanupDb(p)
  BY <1>4, StepInv, Frames DEF RestartCleanupDb, CleanupDb, RestInv, dbVars, ProcPcs, Snapped
<1>5. CASE RestartSave(p)
  <2>1. RowInv'
    BY <1>5 DEF RestartSave, Restarted, Rewritten, RowInv, RunningHasContainerId, Exists,
                ProcInv, Snapped, Rows, Statuses, Ages
  <2>2. ProcInv'
    BY <1>5 DEF RestartSave, ProcInv, Requests, Snapped, ProcPcs
  <2> QED BY <1>5, <2>1, <2>2, Frames DEF RestartSave, RestInv, dockerVars
<1>6. CASE DeleteCleanupApp(p)
  BY <1>6, StepInv, Frames DEF DeleteCleanupApp, CleanupApp, RestInv, dbVars, ProcPcs, Snapped
<1>7. CASE DeleteCleanupDb(p)
  BY <1>7, StepInv, Frames DEF DeleteCleanupDb, CleanupDb, RestInv, dbVars, ProcPcs, Snapped
<1>8. CASE DeletePurge(p)
  BY <1>8, StepInv, Frames DEF DeletePurge, RestInv, dockerVars, ProcPcs, Snapped
<1>9. CASE DeleteRow(p)
  <2>1. RowInv'
    BY <1>9 DEF DeleteRow, RowInv, RunningHasContainerId, Exists
  <2>2. ProcInv'
    <3>1. CASE Return(p)
      BY <3>1, ReturnInv
    <3>2. CASE Step(p, "deleteDir")
      BY <1>9, <3>2, StepInv DEF DeleteRow, ProcPcs, Snapped
    <3> QED BY <1>9, <3>1, <3>2 DEF DeleteRow
  <2> QED BY <1>9, <2>1, <2>2, Frames DEF DeleteRow, RestInv, dockerVars
<1>10. CASE DeleteWorkspace(p)
  BY <1>10, ReturnInv, Frames DEF DeleteWorkspace, RestInv, dbVars, dockerVars
<1>11. CASE GitSave(p)
  <2>1. RowInv'
    BY <1>11 DEF GitSave, Rewritten, RowInv, RunningHasContainerId, Exists, ProcInv, Snapped,
                 Rows, Ages
  <2>2. ProcInv'
    <3>1. CASE Return(p)
      BY <3>1, ReturnInv
    <3>2. CASE proc' = [proc EXCEPT ![p].pc = "gitTouch", ![p].snap = NoRow]
      <4>1. /\ proc'[p].pc = "gitTouch" /\ proc'[p].snap = NoRow
            /\ proc'[p] \in Requests /\ proc'[p].env = proc[p].env /\ proc[p].pc = "gitSave"
        BY <1>11, <3>2 DEF GitSave, ProcInv, Requests, ProcPcs
      <4>2. \A q \in Procs \ {p} : proc'[q] = proc[q]
        BY <3>2 DEF ProcInv
      <4>3. proc' \in [Procs -> Requests]
        BY <3>2, <4>1, <4>2 DEF ProcInv
      <4> QED BY <4>1, <4>2, <4>3 DEF ProcInv, Snapped
    <3> QED BY <1>11, <3>1, <3>2 DEF GitSave
  <2> QED BY <1>11, <2>1, <2>2, Frames DEF GitSave, RestInv, dockerVars
<1>12. CASE GitTouch(p)
  <2>1. proc[p].env \in Envs
    BY <1>12 DEF GitTouch, ProcInv
  <2> QED BY <1>12, <2>1, TouchInv, ReturnInv, Frames DEF GitTouch, RestInv, dockerVars
<1> QED BY <1>1, <1>2, <1>3, <1>4, <1>5, <1>6, <1>7, <1>8, <1>9, <1>10, <1>11, <1>12
       DEF HandlerStep

\* The failure exit of the worker (status FAILED, then the error) preserves the invariant.
LEMMA FailInv ==
  ASSUME TaskInv, RowInv, NEW t \in Tasks, task[t].pc # "unused", FailBuild(t)
  PROVE  TaskInv' /\ RowInv'
BY RetryInv, UpdateInv DEF FailBuild, Statuses

\* The id of a new container is one, and not NULL.
LEMMA NewCidType ==
  ASSUME TaskInv, RestInv, NEW t \in Tasks
  PROVE  NewCid(t) \in Cids /\ NewCid(t) # Nil
BY ConstantsAssumption DEF NewCid, Cids, TaskInv, TaskStates, RestInv

\* Every step of HandleBuildEnvironmentTask, and the recovery of a lease, preserves
\* the invariant; MarkRunning is where the container id of a RUNNING row comes from.
LEMMA WorkerPreserves ==
  ASSUME Inv, NEW t \in Tasks, WorkerStep(t)
  PROVE  Inv'
<1> USE DEF Inv
<1>1. CASE LoadEnvironment(t)
  <2>1. TaskInv'
    BY <1>1, AdvanceInv, RetryInv DEF LoadEnvironment, TaskPcs, WorkerPcs
  <2>2. RestInv'
    BY <1>1 DEF LoadEnvironment, CleanupById, CleanupApp, RestInv, dbVars
  <2> QED BY <1>1, <2>1, <2>2, Frames DEF LoadEnvironment, dbVars
<1>2. CASE CloneOrFetch(t)
  <2>1. task[t].env \in Envs
    BY <1>2 DEF CloneOrFetch, TaskInv
  <2>2. TaskInv' /\ RowInv'
    BY <1>2, AdvanceInv, FailInv, Frames DEF CloneOrFetch, TaskPcs, WorkerPcs
  <2> QED BY <1>2, <2>1, <2>2, Frames DEF CloneOrFetch, RestInv, dockerVars
<1>3. CASE StartSidecarDatabase(t)
  <2>1. task[t].env \in Envs
    BY <1>3 DEF StartSidecarDatabase, TaskInv
  <2>2. TaskInv' /\ RowInv'
    BY <1>3, AdvanceInv, FailInv, Frames DEF StartSidecarDatabase, TaskPcs, WorkerPcs
  <2> QED BY <1>3, <2>1, <2>2, Frames DEF StartSidecarDatabase, RestInv
<1>4. CASE ResolveRuntime(t)
  <2>1. TaskInv' /\ RowInv'
    BY <1>4, AdvanceInv, RetryInv, FailInv, Frames DEF ResolveRuntime, TaskPcs, WorkerPcs
  <2> QED BY <1>4, <2>1, Frames DEF ResolveRuntime, RestInv, dockerVars
<1>5. CASE RemoveOldContainer(t)
  <2>1. TaskInv'
    BY <1>5, AdvanceInv DEF RemoveOldContainer, TaskPcs, WorkerPcs
  <2> QED BY <1>5, <2>1, Frames DEF RemoveOldContainer, CleanupApp, RestInv, dbVars
<1>6. CASE CreateContainer(t)
  <2>1. task[t].env \in Envs
    BY <1>6 DEF CreateContainer, TaskInv
  <2>2. TaskInv' /\ RowInv'
    BY <1>6, AdvanceInv, FailInv, Frames DEF CreateContainer, TaskPcs, WorkerPcs
  <2>3. \A state \in {"created", "up"} : [id |-> NewCid(t), state |-> state] \in Apps
    BY NewCidType DEF Apps
  <2>4. RestInv'
    BY <1>6, <2>1, <2>3 DEF CreateContainer, RestInv
  <2> QED BY <1>6, <2>2, <2>4, Frames DEF CreateContainer
<1>7. CASE PollHealth(t)
  <2>1. TaskInv' /\ RowInv'
    BY <1>7, AdvanceInv, FailInv, Frames DEF PollHealth, TaskPcs, WorkerPcs
  <2> QED BY <1>7, <2>1, Frames DEF PollHealth, RestInv, dockerVars
<1>8. CASE MarkRunning(t)
  <2>1. TaskInv'
    BY <1>8, AdvanceInv DEF MarkRunning, TaskPcs, WorkerPcs
  <2>2. RowInv'
    BY <1>8, NewCidType
       DEF MarkRunning, RowInv, RunningHasContainerId, Exists, Rewritten, Rows, Statuses, Ages
  <2> QED BY <1>8, <2>1, <2>2, Frames DEF MarkRunning, RestInv, dockerVars
<1>9. CASE Acknowledge(t)
  <2>1. TaskInv'
    BY <1>9, AdvanceInv DEF Acknowledge, TaskPcs, WorkerPcs
  <2> QED BY <1>9, <2>1, Frames DEF Acknowledge, RestInv, dbVars, dockerVars
<1>10. CASE RecoverLease(t)
  <2>1. TaskInv'
    BY <1>10, RetryInv DEF RecoverLease
  <2> QED BY <1>10, <2>1, Frames DEF RecoverLease, RestInv, dbVars, dockerVars
<1> QED BY <1>1, <1>2, <1>3, <1>4, <1>5, <1>6, <1>7, <1>8, <1>9, <1>10 DEF WorkerStep

\* Every step of the idle sweeps preserves the invariant: what a query returns is
\* RUNNING and so has a container id.
LEMMA SweepPreserves ==
  ASSUME Inv, NEW s \in Sweepers, SweepStep(s)
  PROVE  Inv'
<1> USE DEF Inv
<1>1. CASE SweepQuery(s)
  <2>1. SweepInv'
    BY <1>1 DEF SweepQuery, SweepInv, SweepStates, SweepItems, RowInv, RunningHasContainerId,
                Exists, Rows
  <2> QED BY <1>1, <2>1, Frames DEF SweepQuery, RestInv, dbVars, dockerVars
<1>2. ASSUME NEW i \in sweep[s].todo, SweepApp(s, i) PROVE Inv'
  <2>1. SweepInv'
    BY <1>2 DEF SweepApp, SweepInv, SweepStates
  <2>2. RestInv'
    BY <1>2 DEF SweepApp, CleanupById, CleanupApp, RestInv, dbVars
  <2> QED BY <1>2, <2>1, <2>2, Frames DEF SweepApp, dbVars
<1>3. CASE SweepDb(s)
  <2>1. SweepInv'
    BY <1>3 DEF SweepDb, SweepInv, SweepStates
  <2> QED BY <1>3, <2>1, Frames DEF SweepDb, CleanupDb, RestInv, dbVars
<1>4. CASE SweepWorkspace(s)
  <2>1. SweepInv'
    BY <1>4 DEF SweepWorkspace, SweepInv, SweepStates
  <2> QED BY <1>4, <2>1, Frames DEF SweepWorkspace, RestInv, dbVars, dockerVars
<1>5. CASE SweepStop(s)
  <2>1. SweepInv'
    BY <1>5 DEF SweepStop, SweepInv, SweepStates
  <2> QED BY <1>5, <2>1, UpdateInv, Frames DEF SweepStop, RestInv, dockerVars, Statuses
<1> QED BY <1>1, <1>2, <1>3, <1>4, <1>5 DEF SweepStep

\* Every step of ReapOrphanContainers preserves the invariant.
LEMMA ReapPreserves ==
  ASSUME Inv, NEW r \in Reapers, ReapStep(r)
  PROVE  Inv'
<1> USE DEF Inv
<1>1. CASE ReapList(r)
  BY <1>1, Frames DEF ReapList, RestInv, ReapStates, ReapItems, dbVars, dockerVars
<1>2. ASSUME NEW i \in reap[r].todo, ReapDecide(r, i) PROVE Inv'
  BY <1>2, Frames DEF ReapDecide, RestInv, ReapStates, dbVars, dockerVars
<1>3. CASE ReapContainer(r)
  BY <1>3, Frames DEF ReapContainer, CleanupApp, CleanupDb, RestInv, ReapStates, dbVars
<1>4. CASE ReapWorkspace(r)
  BY <1>4, Frames DEF ReapWorkspace, RestInv, ReapStates, dbVars, dockerVars
<1> QED BY <1>1, <1>2, <1>3, <1>4 DEF ReapStep

\* Touches, activities, time and Docker preserve the invariant.
LEMMA EnvironmentPreserves ==
  ASSUME Inv, NEW e \in Envs, Touch(e) \/ RecordActivity(e) \/ GrowOld(e) \/ AppChanges(e)
  PROVE  Inv'
<1> USE DEF Inv
<1>1. CASE Touch(e)
  BY <1>1, TouchInv, Frames DEF Touch, RestInv, dockerVars
<1>2. CASE RecordActivity(e)
  BY <1>2, Frames DEF RecordActivity, RestInv, dockerVars
<1>3. CASE GrowOld(e)
  <2>1. RowInv'
    BY <1>3 DEF GrowOld, RowInv, RunningHasContainerId, Exists, Rows, Ages
  <2> QED BY <1>3, <2>1, Frames DEF GrowOld, RestInv, dockerVars
<1>4. CASE AppChanges(e)
  <2>1. RestInv'
    BY <1>4 DEF AppChanges, RestInv, Apps, dbVars
  <2> QED BY <1>4, <2>1, Frames DEF AppChanges, dbVars
<1> QED BY <1>1, <1>2, <1>3, <1>4

\* The end and the start of the backend preserve the invariant.
LEMMA ProcessPreserves ==
  ASSUME Inv, Crash \/ Shutdown \/ Boot
  PROVE  Inv'
<1> USE DEF Inv
<1>1. ASSUME NEW fate \in {"leased", "pending"}, Halt(fate) PROVE Inv'
  <2>1. TaskInv'
    BY <1>1 DEF Halt, TaskInv, TaskStates, TaskPcs, WorkerPcs
  <2>2. ProcInv' /\ SweepInv'
    BY <1>1, ConstantsAssumption
       DEF Halt, ProcInv, SweepInv, NoRequest, NoSweep, Requests, SweepStates, ProcPcs, Snapped
  <2>3. RestInv'
    <3>1. reap' \in [Reapers -> ReapStates]
      BY <1>1 DEF Halt, NoReap, ReapStates
    <3>2. up' = FALSE /\ crashes' \in 0..MaxCrashes
      BY <1>1, ConstantsAssumption DEF Halt, RestInv
    <3>3. UNCHANGED <<born, issued, activity, app, sidecar, workspace>>
      BY <1>1 DEF Halt, dbVars, dockerVars
    <3> QED BY <3>1, <3>2, <3>3 DEF RestInv
  <2> QED BY <1>1, <2>1, <2>2, <2>3, Frames DEF Halt, dbVars
<1>2. CASE Boot
  <2>1. RowInv'
    <3>1. \A e \in Envs : /\ row'[e] \in Rows \cup {NoRow}
                          /\ row'[e] # NoRow /\ row'[e].status = "RUNNING" => row'[e].cid # Nil
      BY <1>2 DEF Boot, RowInv, RunningHasContainerId, Exists, Rewritten, Rows, Statuses, Ages
    <3> QED BY <1>2, <3>1 DEF Boot, RowInv, RunningHasContainerId, Exists
  <2> QED BY <1>2, <2>1, Frames DEF Boot, RestInv, dockerVars
<1> QED BY <1>1, <1>2 DEF Crash, Shutdown

\* The initial state satisfies the invariant.
LEMMA InitInv == Init => Inv
BY ConstantsAssumption
   DEF Init, Inv, TaskInv, ProcInv, RowInv, RunningHasContainerId, SweepInv, RestInv, Exists,
       NoTask, NoRequest, NoSweep, NoReap, TaskStates, Requests, SweepStates, ReapStates,
       TaskPcs, ProcPcs, Snapped

\* The invariant is inductive.
LEMMA NextInv == Inv /\ [Next]_vars => Inv'
<1>1. CASE UNCHANGED vars
  BY <1>1, Frames DEF vars, Inv, RestInv, dbVars, dockerVars
<1> QED
  BY <1>1, RequestPreserves, HandlerPreserves, WorkerPreserves, SweepPreserves, ReapPreserves,
     EnvironmentPreserves, ProcessPreserves DEF Next

\* Every variable keeps its type; in particular the retries of a task stay within
\* MaxRetry and no request creates more tasks than it reserved.
THEOREM TypeCorrect == Spec => []TypeOK
<1>1. Inv => TypeOK
  BY Regroup DEF Inv, CidInv
<1> QED BY InitInv, NextInv, <1>1, PTL DEF Spec

\* What the rows promise and what every sweep, task and request holds of them are
\* one inductive invariant: no row that is kept to be saved back is RUNNING without
\* a container, and no sweep holds a row without one (git.go:366, cleanup.go:37-48).
THEOREM CopiesAreSound == Spec => []CidInv
<1>1. Inv => CidInv
  BY Regroup DEF Inv
<1> QED BY InitInv, NextInv, <1>1, PTL DEF Spec

\* A RUNNING row has a container id, whatever requests, builds, sweeps, retries and
\* crashes overlap (worker.go:286-289 writes both in one UPDATE; handlers.go:682-684
\* and git.go:366 write back whole rows).
THEOREM ContainerIds == Spec => []RunningHasContainerId
<1>1. Inv => RunningHasContainerId
  BY DEF Inv, RowInv
<1> QED BY InitInv, NextInv, <1>1, PTL DEF Spec

\* The first call of an idle sweep removes the container its query saw and no later
\* one: it removes by id (cleanup.go:66-70), and the row it saw has an id.
THEOREM SweepTakesOnlyItsOwn == Spec => SweepSparesNewContainer
<1> DEFINE Spares == \A s \in Sweepers, e \in Envs :
                       sweep[s].pc = "idle" /\ sweep'[s].pc = "db" /\ app'[e] # app[e]
                         => sweep'[s].cur = [env |-> e, cid |-> app[e].id]
<1>1. Inv /\ [Next]_vars => [Spares]_vars
  <2> SUFFICES ASSUME Inv, Next, NEW s \in Sweepers, NEW e \in Envs,
                      sweep[s].pc = "idle", sweep'[s].pc = "db", app'[e] # app[e]
               PROVE  sweep'[s].cur = [env |-> e, cid |-> app[e].id]
    OBVIOUS
  <2> USE DEF Inv
  <2>1. sweep' # sweep
    OBVIOUS
  <2>2. ASSUME Crash \/ Shutdown PROVE FALSE
    BY <2>2 DEF Crash, Shutdown, Halt, NoSweep
  <2>3. PICK z \in Sweepers : SweepStep(z)
    BY <2>1, <2>2
       DEF Next, Request, CreateEnvironment, ForkEnvironment, Insert, RestartRefused, RestartRead,
           DeleteRead, GitRead, HandlerStep, Enqueue, RollbackStatus, RestartCleanupApp,
           RestartCleanupDb, RestartSave, DeleteCleanupApp, DeleteCleanupDb, DeletePurge,
           DeleteRow, DeleteWorkspace, GitSave, GitTouch, WorkerStep, LoadEnvironment, CloneOrFetch,
           StartSidecarDatabase, ResolveRuntime, RemoveOldContainer, CreateContainer, PollHealth,
           MarkRunning, Acknowledge, RecoverLease, ReapStep, ReapList, ReapDecide, ReapContainer,
           ReapWorkspace, Touch, RecordActivity, GrowOld, AppChanges, Boot
  <2>4. PICK i \in sweep[z].todo : SweepApp(z, i)
    BY <2>3 DEF SweepStep, SweepQuery, SweepDb, SweepWorkspace, SweepStop, SweepInv, SweepStates,
                dockerVars
  <2>5. z = s /\ sweep'[s].cur = i
    BY <2>4 DEF SweepApp, SweepInv
  <2>6. i.cid # Nil /\ i \in SweepItems
    BY <2>4 DEF SweepInv, SweepStates
  <2>7. i.env = e /\ app[e].id = i.cid
    BY <2>4, <2>6 DEF SweepApp, CleanupById, CleanupApp, RestInv
  <2> QED BY <2>5, <2>6, <2>7 DEF SweepItems
<1> QED BY InitInv, NextInv, <1>1, PTL DEF Spec, SweepSparesNewContainer

\* A row that is gone stays away in every step but a whole-row save of a request
\* that holds it: Update writes no row that is not there, and ids are never reused.
LEMMA RowStaysAway ==
  ASSUME Inv, Next, NEW e \in Envs, e \in born, ~Exists(e),
         \A p \in Procs : proc[p].env = e => proc[p].pc \notin {"restartSave", "gitSave"}
  PROVE  ~Exists(e)'
<1>1. ASSUME NEW x, NEW status, UpdateStatus(x, status) PROVE ~Exists(e)'
  BY <1>1 DEF UpdateStatus, Exists, Inv, RowInv
<1>2. ASSUME NEW x, TouchEnvironmentActivity(x) PROVE ~Exists(e)'
  BY <1>2 DEF TouchEnvironmentActivity, Exists, Inv, RowInv
<1>3. CASE UNCHANGED row
  BY <1>3 DEF Exists
<1>4. ASSUME NEW p \in Procs, NEW x \in Envs, Request(p, x) PROVE ~Exists(e)'
  <2>1. CASE Insert(p, x)
    BY <2>1 DEF Insert, Exists, Inv, RowInv
  <2> QED BY <1>2, <1>3, <1>4, <2>1
     DEF Request, CreateEnvironment, ForkEnvironment, RestartRefused, RestartRead, DeleteRead,
         GitRead, dbVars
<1>5. ASSUME NEW p \in Procs, HandlerStep(p) PROVE ~Exists(e)'
  <2>1. CASE DeleteRow(p)
    BY <2>1 DEF DeleteRow, Exists, Inv, RowInv
  <2>2. CASE RestartSave(p) \/ GitSave(p)
    BY <2>2 DEF RestartSave, GitSave, Exists, Inv, RowInv
  <2> QED BY <1>1, <1>2, <1>3, <1>5, <2>1, <2>2
     DEF HandlerStep, Enqueue, RollbackStatus, RestartCleanupApp, RestartCleanupDb,
         DeleteCleanupApp, DeleteCleanupDb, DeletePurge, DeleteWorkspace, GitTouch, dbVars
<1>6. ASSUME NEW t \in Tasks, WorkerStep(t) PROVE ~Exists(e)'
  <2>1. CASE MarkRunning(t)
    BY <2>1 DEF MarkRunning, Exists, Inv, RowInv
  <2> QED BY <1>1, <1>3, <1>6, <2>1
     DEF WorkerStep, LoadEnvironment, CloneOrFetch, StartSidecarDatabase, ResolveRuntime,
         RemoveOldContainer, CreateContainer, PollHealth, Acknowledge, RecoverLease, FailBuild,
         dbVars
<1>7. ASSUME NEW s \in Sweepers, SweepStep(s) PROVE ~Exists(e)'
  BY <1>1, <1>3, <1>7
     DEF SweepStep, SweepQuery, SweepApp, SweepDb, SweepWorkspace, SweepStop, dbVars
<1>8. ASSUME NEW r \in Reapers, ReapStep(r) PROVE ~Exists(e)'
  BY <1>3, <1>8 DEF ReapStep, ReapList, ReapDecide, ReapContainer, ReapWorkspace, dbVars
<1>9. ASSUME NEW x \in Envs, GrowOld(x) PROVE ~Exists(e)'
  BY <1>9 DEF GrowOld, Exists, Inv, RowInv
<1>10. CASE Boot
  BY <1>10 DEF Boot, Exists
<1> QED
  BY <1>2, <1>3, <1>4, <1>5, <1>6, <1>7, <1>8, <1>9, <1>10
     DEF Next, Touch, RecordActivity, AppChanges, Crash, Shutdown, Halt, dbVars

\* A deleted row comes back only by db.Save in RestartEnvironment, GitBranch or
\* GitCheckout, of the environment the request holds.
THEOREM RevivedBySavesOnly == Spec => OnlySavesRevive
<1> DEFINE Allowed == \A e \in Envs : e \in born /\ ~Exists(e) /\ Exists(e)' =>
              \E p \in Procs : proc[p].env = e /\ proc[p].pc \in {"restartSave", "gitSave"}
<1>1. Inv /\ [Next]_vars => [Allowed]_vars
  BY RowStaysAway
<1> QED BY InitInv, NextInv, <1>1, PTL DEF Spec, OnlySavesRevive
=============================================================================
