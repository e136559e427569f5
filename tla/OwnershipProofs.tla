--------------------------- MODULE OwnershipProofs ---------------------------
(***************************************************************************)
(* What the builds of overlapping requests leave to each other, for any    *)
(* number of requests, tasks, retries and crashes: a task that is stored   *)
(* once and delivered a bounded number of times, containers of their own,  *)
(* and a status that somebody will end.                                    *)
(*                                                                         *)
(* That somebody ends the build of a BUILDING row (BuildingIsOwned) is not *)
(* inductive, for two reasons.  A task that has marked its row RUNNING is  *)
(* still unsettled, and so is one whose lease has to expire, but neither   *)
(* ends another build of the same row: the invariant asks for a carrier    *)
(* that still has to write a status.  And storing a task must not          *)
(* overwrite one that carries a build: each request has reserved a task of *)
(* its own.                                                                *)
(*                                                                         *)
(* The same invariants show that the whole of it implements EnvLifecycle,  *)
(* the life cycle that the readers of the environments table rely on.      *)
(***************************************************************************)
EXTENDS EnvironmentsProofs

-----------------------------------------------------------------------------
(* The slots.                                                              *)

\* The slot of a request is a task that is not yet stored.
LEMMA ReservedSlot ==
  ASSUME Inv, SlotsReserved, NEW p \in Procs, proc[p].pc \in Reserving
  PROVE  /\ proc[p].task \in Tasks /\ proc[p].task <= issued
         /\ task[proc[p].task].pc = "unused"
<1>1. issued \in Nat /\ issued <= MaxTasks /\ MaxTasks \in Nat
  BY ConstantsAssumption DEF Inv, RestInv
<1> QED BY <1>1 DEF SlotsReserved, Tasks

\* A step that stores no task and reserves none.
LEMMA SlotsKept ==
  ASSUME Inv, SlotsReserved, issued' = issued,
         \A t \in Tasks : task[t].pc = "unused" => task'[t].pc = "unused",
         \A p \in Procs : proc'[p].pc \in Reserving =>
            proc[p].pc \in Reserving /\ proc'[p].task = proc[p].task
  PROVE  SlotsReserved'
BY ReservedSlot DEF SlotsReserved

\* A request that begins reserves a slot no other request has.
LEMMA SlotTaken ==
  ASSUME Inv, SlotsReserved, NEW p \in Procs, issued < MaxTasks, issued' = issued + 1,
         UNCHANGED task,
         NEW request, proc' = [proc EXCEPT ![p] = request], request.task = issued + 1
  PROVE  SlotsReserved'
<1>1. issued \in Nat /\ MaxTasks \in Nat /\ issued + 1 \in Tasks
  BY ConstantsAssumption DEF Inv, RestInv, Tasks
<1>2. \A t \in Tasks : t > issued' => task'[t].pc = "unused"
  BY <1>1 DEF SlotsReserved, Tasks
<1>3. \A q \in Procs : proc'[q] = IF q = p THEN request ELSE proc[q]
  BY DEF Inv, ProcInv
<1>4. task[issued + 1].pc = "unused"
  BY <1>1 DEF SlotsReserved
<1>5. \A q \in Procs : proc[q].pc \in Reserving =>
         proc[q].task \in 1..issued /\ task[proc[q].task].pc = "unused"
  BY DEF SlotsReserved
<1>6. \A q \in Procs : proc'[q].pc \in Reserving =>
         proc'[q].task \in 1..issued' /\ task'[proc'[q].task].pc = "unused"
  BY <1>1, <1>3, <1>4, <1>5
<1>7. \A q, r \in Procs : proc'[q].pc \in Reserving /\ proc'[r].pc \in Reserving /\ q # r
                            => proc'[q].task # proc'[r].task
  BY <1>1, <1>3, <1>5 DEF SlotsReserved
<1> QED BY <1>2, <1>6, <1>7 DEF SlotsReserved

\* What Enqueue stores is the slot of its request, which gives it up.
LEMMA EnqueueStores ==
  ASSUME Inv, SlotsReserved, NEW p \in Procs, Enqueue(p)
  PROVE  /\ SlotsReserved'
         /\ \A t \in Tasks : task[t].pc # "unused" => task'[t] = task[t]
<1> DEFINE slot == proc[p].task
<1>1. slot \in Tasks /\ slot <= issued /\ task[slot].pc = "unused"
  BY ReservedSlot DEF Enqueue, Reserving
<1>2. \A t \in Tasks \ {slot} : task'[t] = task[t]
  BY DEF Enqueue, Inv, TaskInv
<1>3. issued' = issued
  BY DEF Enqueue
<1>4. \A q \in Procs : proc'[q].pc \in Reserving => q # p /\ proc'[q] = proc[q]
  BY DEF Enqueue, Return, NoRequest, Step, Reserving, Inv, ProcInv, Requests
<1>5. \A t \in Tasks : t > issued => task'[t].pc = "unused"
  BY <1>1, <1>2, ConstantsAssumption DEF SlotsReserved, Inv, RestInv, Tasks
<1>6. \A q \in Procs : proc'[q].pc \in Reserving =>
         proc[q].task \in Tasks \ {slot} /\ proc[q].task \in 1..issued /\ task[proc[q].task].pc = "unused"
  BY <1>4, ReservedSlot DEF SlotsReserved, Enqueue, Reserving
<1> HIDE DEF slot
<1>7. SlotsReserved'
  BY <1>2, <1>3, <1>4, <1>5, <1>6 DEF SlotsReserved
<1> QED BY <1>1, <1>2, <1>7

\* A step of a worker is one of its task.
LEMMA WorkerMoves ==
  ASSUME Inv, NEW t \in Tasks, WorkerStep(t)
  PROVE  /\ task[t].pc # "unused" /\ \A u \in Tasks \ {t} : task'[u] = task[u]
         /\ UNCHANGED <<issued, proc, crashes>>
<1>1. task[t].pc # "unused" /\ UNCHANGED <<issued, proc, crashes>>
  BY DEF WorkerStep, LoadEnvironment, CloneOrFetch, StartSidecarDatabase, ResolveRuntime,
         RemoveOldContainer, CreateContainer, PollHealth, MarkRunning, Acknowledge, RecoverLease
<1>2. (\E pc \in TaskPcs : Advance(t, pc)) \/ RetryOrArchive(t)
  BY DEF WorkerStep, LoadEnvironment, CloneOrFetch, StartSidecarDatabase, ResolveRuntime,
         RemoveOldContainer, CreateContainer, PollHealth, MarkRunning, Acknowledge, RecoverLease,
         FailBuild, TaskPcs, WorkerPcs
<1> QED BY <1>1, <1>2 DEF Inv, TaskInv, Advance, RetryOrArchive

\* Sweeps, reapers, touches, activities, time and Docker.
LEMMA BackgroundKeeps ==
  ASSUME \/ \E s \in Sweepers : SweepStep(s)
         \/ \E r \in Reapers : ReapStep(r)
         \/ \E e \in Envs : Touch(e) \/ RecordActivity(e) \/ GrowOld(e) \/ AppChanges(e)
  PROVE  UNCHANGED <<up, crashes, issued, task, proc>>
BY DEF SweepStep, SweepQuery, SweepApp, SweepDb, SweepWorkspace, SweepStop,
       ReapStep, ReapList, ReapDecide, ReapContainer, ReapWorkspace,
       Touch, RecordActivity, GrowOld, AppChanges

LEMMA SlotsNext ==
  ASSUME Inv, SlotsReserved, [Next]_vars
  PROVE  SlotsReserved'
<1>1. ASSUME NEW p \in Procs, NEW e \in Envs, Request(p, e) PROVE SlotsReserved'
  <2>1. CASE Insert(p, e)
    <3>1. PICK request : /\ request.pc = "enqueue" /\ request.env = e /\ request.task = issued + 1
                         /\ proc' = [proc EXCEPT ![p] = request]
      BY <2>1 DEF Insert
    <3> QED BY <2>1, <3>1, SlotTaken DEF Insert
  <2>2. CASE RestartRead(p, e)
    <3>1. PICK request : /\ request.pc = "restartApp" /\ request.task = issued + 1
                         /\ proc' = [proc EXCEPT ![p] = request]
      BY <2>2 DEF RestartRead
    <3> QED BY <2>2, <3>1, SlotTaken DEF RestartRead
  <2>3. CASE RestartRefused(p, e) \/ DeleteRead(p, e) \/ GitRead(p, e)
    <3>1. UNCHANGED <<issued, task>>
      BY <2>3 DEF RestartRefused, DeleteRead, GitRead
    <3>2. \A q \in Procs : proc'[q].pc \in Reserving => proc'[q] = proc[q]
      BY <2>3 DEF RestartRefused, DeleteRead, GitRead, Inv, ProcInv, Reserving
    <3> QED BY <3>1, <3>2, SlotsKept
  <2> QED BY <1>1, <2>1, <2>2, <2>3 DEF Request, CreateEnvironment, ForkEnvironment
<1>2. ASSUME NEW p \in Procs, HandlerStep(p) PROVE SlotsReserved'
  <2>1. CASE Enqueue(p)
    BY <2>1, EnqueueStores
  <2>2. CASE ~Enqueue(p)
    <3>1. UNCHANGED <<issued, task>>
      BY <1>2, <2>2 DEF HandlerStep, RollbackStatus, RestartCleanupApp, RestartCleanupDb,
         RestartSave, DeleteCleanupApp, DeleteCleanupDb, DeletePurge, DeleteRow, DeleteWorkspace,
         GitSave, GitTouch
    <3>2. \A q \in Procs : proc'[q].pc \in Reserving =>
             proc[q].pc \in Reserving /\ proc'[q].task = proc[q].task
      <4>1. CASE RestartSave(p) \/ GitSave(p)
        BY <4>1 DEF RestartSave, GitSave, Return, NoRequest, Reserving, Inv, ProcInv, Requests
      <4>2. CASE ~RestartSave(p) /\ ~GitSave(p)
        <5>1. Return(p) \/ \E pc \in ProcPcs : Step(p, pc) /\ (pc \in Reserving => proc[p].pc \in Reserving)
          BY <1>2, <2>2, <4>2 DEF HandlerStep, RollbackStatus, RestartCleanupApp, RestartCleanupDb,
             DeleteCleanupApp, DeleteCleanupDb, DeletePurge, DeleteRow, DeleteWorkspace,
             GitTouch, Reserving, ProcPcs
        <5> QED BY <5>1 DEF Step, Return, NoRequest, Reserving, Inv, ProcInv, Requests
      <4> QED BY <4>1, <4>2
    <3> QED BY <3>1, <3>2, SlotsKept
  <2> QED BY <2>1, <2>2
<1>3. ASSUME NEW t \in Tasks, WorkerStep(t) PROVE SlotsReserved'
  BY <1>3, WorkerMoves, SlotsKept
<1>4. CASE \/ \E s \in Sweepers : SweepStep(s)
           \/ \E r \in Reapers : ReapStep(r)
           \/ \E e \in Envs : Touch(e) \/ RecordActivity(e) \/ GrowOld(e) \/ AppChanges(e)
  BY <1>4, BackgroundKeeps, SlotsKept
<1>5. CASE Crash \/ Shutdown
  <2>1. PICK fate \in {"leased", "pending"} : Halt(fate)
    BY <1>5 DEF Crash, Shutdown
  <2>2. \A p \in Procs : proc'[p].pc = "idle"
    BY <2>1 DEF Halt, NoRequest
  <2>3. \A t \in Tasks : task[t].pc = "unused" => task'[t].pc = "unused"
    BY <2>1 DEF Halt, WorkerPcs
  <2> QED BY <2>1, <2>2, <2>3, SlotsKept DEF Halt, Reserving
<1>6. CASE Boot \/ UNCHANGED vars
  <2>1. UNCHANGED <<issued, task, proc>>
    BY <1>6 DEF Boot, vars
  <2> QED BY <2>1, SlotsKept
<1> QED BY <1>1, <1>2, <1>3, <1>4, <1>5, <1>6 DEF Next

LEMMA SlotsInit == Init => SlotsReserved
BY DEF Init, SlotsReserved, NoTask, NoRequest, Reserving

-----------------------------------------------------------------------------
(* The containers.                                                         *)

\* Where a delivery of a task is when it has made its container, or is over.
Made == {"boot", "ready", "deadline", "ack", "done", "archived"}

\* The container c was made for e by a delivery that does not make another.
MadeFor(c, e) ==
    /\ c \in Cids
    /\ task[c.task].pc # "unused" /\ task[c.task].env = e
    /\ c.boot <= crashes /\ c.try <= task[c.task].retried
    /\ c.boot = crashes /\ c.try = task[c.task].retried => task[c.task].pc \in Made

\* Every container there is, and every id that a row, a copy of a row or a sweep
\* holds, belongs to the environment it is held for.
OwnContainers ==
    /\ \A e \in Envs : app[e] # Nil => MadeFor(app[e].id, e)
    /\ \A e \in Envs : Exists(e) /\ row[e].cid # Nil => MadeFor(row[e].cid, e)
    /\ \A p \in Procs : proc[p].pc = "gitSave" /\ proc[p].snap.cid # Nil
                          => MadeFor(proc[p].snap.cid, proc[p].env)
    /\ \A s \in Sweepers : \A i \in sweep[s].todo : MadeFor(i.cid, i.env)

Containing == Inv /\ SlotsReserved /\ OwnContainers

\* A stored task keeps its environment, and a delivery that has made a container
\* makes no other.
LEMMA TasksGoOn ==
  ASSUME Inv, SlotsReserved, [Next]_vars, NEW t \in Tasks, task[t].pc # "unused"
  PROVE  /\ task'[t].pc # "unused" /\ task'[t].env = task[t].env
         /\ task'[t].retried >= task[t].retried
         /\ \/ task'[t].retried > task[t].retried \/ crashes' > crashes
            \/ /\ task[t].pc \in Made => task'[t].pc \in Made
               /\ task[t].pc \in Over => task'[t].pc \in Over
<1>0. task[t] \in TaskStates /\ task[t].retried \in Nat /\ crashes \in Nat
  BY ConstantsAssumption DEF Inv, TaskInv, TaskStates, RestInv
<1>1. CASE task'[t] = task[t]
  BY <1>0, <1>1
<1>2. ASSUME NEW p \in Procs, HandlerStep(p) PROVE task'[t] = task[t]
  BY <1>2, EnqueueStores DEF HandlerStep, RollbackStatus, RestartCleanupApp, RestartCleanupDb,
     RestartSave, DeleteCleanupApp, DeleteCleanupDb, DeletePurge, DeleteRow, DeleteWorkspace,
     GitSave, GitTouch
<1>3. ASSUME NEW p \in Procs, NEW e \in Envs, Request(p, e) PROVE task' = task
  BY <1>3 DEF Request, CreateEnvironment, ForkEnvironment, Insert, RestartRefused, RestartRead,
              DeleteRead, GitRead
<1>4. ASSUME NEW u \in Tasks, u # t, WorkerStep(u) PROVE task'[t] = task[t]
  BY <1>4, WorkerMoves
<1>5. CASE WorkerStep(t)
  <2>1. \/ RetryOrArchive(t)
        \/ \E pc \in TaskPcs \ {"unused"} : /\ Advance(t, pc)
                                            /\ task[t].pc \in Made => pc \in Made
                                            /\ task[t].pc \in Over => pc \in Over
    BY <1>5 DEF WorkerStep, LoadEnvironment, CloneOrFetch, StartSidecarDatabase, ResolveRuntime,
         RemoveOldContainer, CreateContainer, PollHealth, MarkRunning, Acknowledge, RecoverLease,
         FailBuild, TaskPcs, WorkerPcs, Made, Over
  <2>2. CASE RetryOrArchive(t)
    <3>1. \/ task'[t] = [task[t] EXCEPT !.pc = "archived"]
          \/ task'[t] = [task[t] EXCEPT !.pc = "pending", !.retried = task[t].retried + 1]
      <4>1. CASE task[t].retried < MaxRetry
        BY <2>2, <4>1 DEF RetryOrArchive, Inv, TaskInv
      <4>2. CASE ~(task[t].retried < MaxRetry)
        BY <2>2, <4>2 DEF RetryOrArchive, Inv, TaskInv
      <4> QED BY <4>1, <4>2
    <3>2. /\ task'[t].env = task[t].env
          /\ \/ task'[t].pc = "archived" /\ task'[t].retried = task[t].retried
             \/ task'[t].pc = "pending" /\ task'[t].retried = task[t].retried + 1
      BY <1>0, <3>1 DEF TaskStates
    <3> QED BY <1>0, <3>2 DEF Made, Over
  <2>3. ASSUME NEW pc \in TaskPcs \ {"unused"}, Advance(t, pc)
        PROVE  /\ task'[t].pc = pc /\ task'[t].env = task[t].env
               /\ task'[t].retried = task[t].retried
    BY <1>0, <2>3 DEF Advance, Inv, TaskInv, TaskStates
  <2> QED BY <1>0, <2>1, <2>2, <2>3
<1>6. CASE Crash \/ Shutdown
  <2>1. PICK fate \in {"leased", "pending"} : Halt(fate)
    BY <1>6 DEF Crash, Shutdown
  <2>2. task'[t] = task[t] \/ task'[t] = [task[t] EXCEPT !.pc = fate]
    BY <2>1 DEF Halt
  <2>3. crashes' > crashes
    BY <1>0, <2>1 DEF Halt
  <2> QED BY <1>0, <2>2, <2>3 DEF TaskStates
<1>7. CASE Boot \/ UNCHANGED vars
  BY <1>1, <1>7 DEF Boot, vars
<1>8. CASE \/ \E s \in Sweepers : SweepStep(s)
           \/ \E r \in Reapers : ReapStep(r)
           \/ \E e \in Envs : Touch(e) \/ RecordActivity(e) \/ GrowOld(e) \/ AppChanges(e)
  BY <1>1, <1>8, BackgroundKeeps
<1> QED BY <1>1, <1>2, <1>3, <1>4, <1>5, <1>6, <1>7, <1>8 DEF Next

LEMMA CrashesGrow ==
  ASSUME Inv, [Next]_vars
  PROVE  crashes \in Nat /\ crashes' \in Nat /\ crashes' >= crashes
<1>1. crashes \in Nat
  BY ConstantsAssumption DEF Inv, RestInv
<1>2. crashes' = crashes \/ crashes' = crashes + 1
  <2>1. ASSUME NEW p \in Procs, HandlerStep(p) PROVE crashes' = crashes
    BY <2>1 DEF HandlerStep, Enqueue, RollbackStatus, RestartCleanupApp, RestartCleanupDb,
       RestartSave, DeleteCleanupApp, DeleteCleanupDb, DeletePurge, DeleteRow, DeleteWorkspace,
       GitSave, GitTouch
  <2>2. ASSUME NEW p \in Procs, NEW e \in Envs, Request(p, e) PROVE crashes' = crashes
    BY <2>2 DEF Request, CreateEnvironment, ForkEnvironment, Insert, RestartRefused, RestartRead,
                DeleteRead, GitRead
  <2>3. CASE Crash \/ Shutdown \/ Boot \/ UNCHANGED vars
    BY <2>3 DEF Crash, Shutdown, Halt, Boot, vars
  <2> QED BY <2>1, <2>2, <2>3, WorkerMoves, BackgroundKeeps DEF Next
<1> QED BY <1>1, <1>2

LEMMA MadeForStays ==
  ASSUME Inv, SlotsReserved, [Next]_vars, NEW c, NEW e, MadeFor(c, e)
  PROVE  MadeFor(c, e)'
<1>1. c \in Cids /\ c.task \in Tasks /\ c.try \in Nat /\ c.boot \in Nat
  BY ConstantsAssumption DEF MadeFor, Cids
<1>2. task[c.task].retried \in Nat /\ task'[c.task].retried \in Nat
  BY <1>1, NextInv, ConstantsAssumption DEF Inv, TaskInv, TaskStates
<1>3. task[c.task].pc # "unused"
  BY DEF MadeFor
<1> QED BY <1>1, <1>2, <1>3, TasksGoOn, CrashesGrow DEF MadeFor

\* The id of a delivery is its environment's once it has made the container.
LEMMA DeliveryMakes ==
  ASSUME Inv, NEW t \in Tasks, task[t].pc # "unused", crashes' = crashes,
         \/ \E pc \in Made : Advance(t, pc)
         \/ RetryOrArchive(t),
         NEW c, c = NewCid(t), NEW e, e = task[t].env
  PROVE  MadeFor(c, e)'
<1>1. task[t] \in TaskStates /\ task[t].retried \in Nat /\ crashes \in Nat
  BY ConstantsAssumption DEF Inv, TaskInv, TaskStates, RestInv
<1>2. /\ NewCid(t) \in Cids
      /\ NewCid(t).task = t /\ NewCid(t).try = task[t].retried /\ NewCid(t).boot = crashes
  BY NewCidType DEF Inv, NewCid
<1>3. \/ \E pc \in Made : task'[t] = [task[t] EXCEPT !.pc = pc]
      \/ task'[t] = [task[t] EXCEPT !.pc = "pending", !.retried = task[t].retried + 1]
  <2>1. CASE \E pc \in Made : Advance(t, pc)
    BY <2>1 DEF Advance, Inv, TaskInv
  <2>2. CASE RetryOrArchive(t) /\ task[t].retried < MaxRetry
    BY <2>2 DEF RetryOrArchive, Inv, TaskInv
  <2>3. CASE RetryOrArchive(t) /\ ~(task[t].retried < MaxRetry)
    BY <2>3 DEF RetryOrArchive, Inv, TaskInv, Made
  <2> QED BY <2>1, <2>2, <2>3
<1>4. /\ task'[t].pc # "unused" /\ task'[t].env = task[t].env
      /\ \/ task'[t].retried = task[t].retried /\ task'[t].pc \in Made
         \/ task'[t].retried = task[t].retried + 1
  BY <1>1, <1>3 DEF TaskStates, Made
<1>5. /\ c \in Cids /\ task'[c.task].pc # "unused" /\ task'[c.task].env = e
      /\ c.boot <= crashes' /\ c.try <= task'[c.task].retried
      /\ c.boot = crashes' /\ c.try = task'[c.task].retried => task'[c.task].pc \in Made
  BY <1>1, <1>2, <1>4
<1> QED BY <1>5 DEF MadeFor

\* A container is the one of before, or the one a build has just made.
LEMMA AppsComeFromBuilds ==
  ASSUME Inv, [Next]_vars, NEW e \in Envs, app'[e] # Nil
  PROVE  \/ app[e] # Nil /\ app'[e].id = app[e].id
         \/ \E t \in Tasks : /\ task[t].env = e /\ app'[e].id = NewCid(t) /\ CreateContainer(t)
                             /\ (Advance(t, "boot") \/ RetryOrArchive(t))
<1>0. app \in [Envs -> Apps \cup {Nil}] /\ Nil \notin Apps
  BY ConstantsAssumption DEF Inv, RestInv
<1> DEFINE Same == app[e] # Nil /\ app'[e].id = app[e].id
<1>1. ASSUME NEW x, CleanupApp(x) \/ UNCHANGED app PROVE Same
  BY <1>0, <1>1 DEF CleanupApp
<1>2. ASSUME NEW x, NEW c, CleanupById(x, c) PROVE Same
  BY <1>1, <1>2 DEF CleanupById
<1>3. ASSUME NEW p \in Procs, HandlerStep(p) PROVE Same
  BY <1>1, <1>3 DEF HandlerStep, Enqueue, RollbackStatus, RestartCleanupApp, RestartCleanupDb,
     RestartSave, DeleteCleanupApp, DeleteCleanupDb, DeletePurge, DeleteRow, DeleteWorkspace,
     GitSave, GitTouch, dockerVars
<1>4. ASSUME NEW p \in Procs, NEW x \in Envs, Request(p, x) PROVE Same
  BY <1>1, <1>4 DEF Request, CreateEnvironment, ForkEnvironment, Insert, RestartRefused, RestartRead,
              DeleteRead, GitRead, dockerVars
<1>5. ASSUME NEW t \in Tasks, WorkerStep(t), ~CreateContainer(t) PROVE Same
  BY <1>1, <1>2, <1>5 DEF WorkerStep, LoadEnvironment, CloneOrFetch, StartSidecarDatabase,
     ResolveRuntime, RemoveOldContainer, PollHealth, MarkRunning, Acknowledge, RecoverLease, dockerVars
<1>6. ASSUME NEW t \in Tasks, CreateContainer(t)
      PROVE  \/ Same
             \/ task[t].env = e /\ app'[e].id = NewCid(t) /\ (Advance(t, "boot") \/ RetryOrArchive(t))
  <2>1. CASE UNCHANGED app
    BY <1>1, <2>1
  <2>2. ASSUME NEW state, app' = [app EXCEPT ![task[t].env] = [id |-> NewCid(t), state |-> state]]
        PROVE  Same \/ (task[t].env = e /\ app'[e].id = NewCid(t))
    BY <1>0, <2>2
  <2> QED BY <1>6, <2>1, <2>2 DEF CreateContainer, FailBuild
<1>7. ASSUME NEW x \in Envs, AppChanges(x) PROVE Same
  <2>1. \A a \in Apps : \A state : [a EXCEPT !.state = state].id = a.id
    BY DEF Apps
  <2>2. PICK state : app' = [app EXCEPT ![x] = [app[x] EXCEPT !.state = state]] /\ app[x] # Nil
    BY <1>0, <1>7 DEF AppChanges
  <2> QED BY <1>0, <2>1, <2>2
<1>8. ASSUME \/ \E s \in Sweepers : SweepStep(s)
             \/ \E r \in Reapers : ReapStep(r)
             \/ \E x \in Envs : Touch(x) \/ RecordActivity(x) \/ GrowOld(x)
      PROVE  Same
  BY <1>1, <1>2, <1>8 DEF SweepStep, SweepQuery, SweepApp, SweepDb, SweepWorkspace, SweepStop,
     ReapStep, ReapList, ReapDecide, ReapContainer, ReapWorkspace, Touch, RecordActivity, GrowOld,
     dockerVars
<1>9. ASSUME Crash \/ Shutdown \/ Boot \/ UNCHANGED vars PROVE Same
  BY <1>1, <1>9 DEF Crash, Shutdown, Halt, Boot, vars, dockerVars
<1> HIDE DEF Same
<1>10. Same \/ \E t \in Tasks : /\ task[t].env = e /\ app'[e].id = NewCid(t) /\ CreateContainer(t)
                               /\ (Advance(t, "boot") \/ RetryOrArchive(t))
  BY <1>3, <1>4, <1>5, <1>6, <1>7, <1>8, <1>9 DEF Next
<1> QED BY <1>10 DEF Same

\* The container id of a row is the one of before, one that a branch switch has
\* read, or the one of the build that marks it.
LEMMA RowsNameBuilds ==
  ASSUME Inv, [Next]_vars, NEW e \in Envs, Exists(e)', row'[e].cid # Nil
  PROVE  \/ Exists(e) /\ row[e].cid # Nil /\ row'[e].cid = row[e].cid
         \/ \E p \in Procs : /\ proc[p].pc = "gitSave" /\ proc[p].env = e
                             /\ row'[e].cid = proc[p].snap.cid
         \/ \E t \in Tasks : MarkRunning(t) /\ task[t].env = e /\ row'[e].cid = NewCid(t)
<1>0. row \in [Envs -> Rows \cup {NoRow}] /\ NoRow \notin Rows
  BY ConstantsAssumption DEF Inv, RowInv
<1> DEFINE Same == Exists(e) /\ row[e].cid # Nil /\ row'[e].cid = row[e].cid
<1>1. ASSUME UNCHANGED row PROVE Same
  BY <1>1 DEF Exists
<1>2. ASSUME NEW x, NEW status, UpdateStatus(x, status) PROVE Same
  BY <1>0, <1>2 DEF UpdateStatus, Exists, Rows
<1>3. ASSUME NEW x, TouchEnvironmentActivity(x) PROVE Same
  BY <1>0, <1>3 DEF TouchEnvironmentActivity, Exists, Rows
<1>4. ASSUME NEW p \in Procs, HandlerStep(p), ~GitSave(p) PROVE Same
  <2>1. CASE RestartSave(p)
    BY <1>0, <2>1 DEF RestartSave, Restarted, Exists
  <2>2. CASE DeleteRow(p)
    BY <1>0, <1>1, <2>2 DEF DeleteRow, Exists
  <2>3. CASE RollbackStatus(p) \/ GitTouch(p)
    BY <1>2, <1>3, <2>3 DEF RollbackStatus, GitTouch
  <2> QED BY <1>1, <1>4, <2>1, <2>2, <2>3 DEF HandlerStep, Enqueue, RestartCleanupApp,
     RestartCleanupDb, DeleteCleanupApp, DeleteCleanupDb, DeletePurge, DeleteWorkspace, dbVars
<1>5. ASSUME NEW p \in Procs, GitSave(p)
      PROVE  Same \/ (proc[p].pc = "gitSave" /\ proc[p].env = e /\ row'[e].cid = proc[p].snap.cid)
  <2>1. proc[p].snap \in Rows /\ proc[p].pc = "gitSave"
    BY <1>5 DEF GitSave, Inv, ProcInv, Snapped
  <2>2. \A r \in Rows : \A age : [r EXCEPT !.age = age].cid = r.cid
    BY DEF Rows
  <2>3. UNCHANGED row \/ \E age : row' = [row EXCEPT ![proc[p].env] = [proc[p].snap EXCEPT !.age = age]]
    BY <1>5 DEF GitSave
  <2>4. ASSUME NEW age, row' = [row EXCEPT ![proc[p].env] = [proc[p].snap EXCEPT !.age = age]],
               e # proc[p].env
        PROVE  Same
    <3>1. row'[e] = row[e]
      BY <1>0, <2>4
    <3> QED BY <3>1 DEF Exists
  <2>5. ASSUME NEW age, row' = [row EXCEPT ![proc[p].env] = [proc[p].snap EXCEPT !.age = age]],
               e = proc[p].env
        PROVE  row'[e].cid = proc[p].snap.cid
    BY <1>0, <2>1, <2>2, <2>5
  <2> QED BY <1>1, <2>1, <2>3, <2>4, <2>5
<1>6. ASSUME NEW p \in Procs, NEW x \in Envs, Request(p, x) PROVE Same
  <2>1. CASE Insert(p, x)
    BY <1>0, <2>1 DEF Insert, Exists
  <2>2. CASE ~Insert(p, x)
    BY <1>1, <1>3, <1>6, <2>2 DEF Request, CreateEnvironment, ForkEnvironment, RestartRefused,
       RestartRead, DeleteRead, GitRead, dbVars
  <2> QED BY <2>1, <2>2
<1>7. ASSUME NEW t \in Tasks, WorkerStep(t), ~MarkRunning(t) PROVE Same
  BY <1>1, <1>2, <1>7 DEF WorkerStep, LoadEnvironment, CloneOrFetch, StartSidecarDatabase,
     ResolveRuntime, RemoveOldContainer, CreateContainer, PollHealth, Acknowledge, RecoverLease,
     FailBuild, dbVars
<1>8. ASSUME NEW t \in Tasks, MarkRunning(t)
      PROVE  Same \/ (task[t].env = e /\ row'[e].cid = NewCid(t))
  BY <1>0, <1>8 DEF MarkRunning, Exists
<1>9. ASSUME \/ \E s \in Sweepers : SweepStep(s)
             \/ \E r \in Reapers : ReapStep(r)
             \/ \E x \in Envs : Touch(x) \/ RecordActivity(x) \/ AppChanges(x)
      PROVE  Same
  BY <1>1, <1>2, <1>3, <1>9 DEF SweepStep, SweepQuery, SweepApp, SweepDb, SweepWorkspace, SweepStop,
     ReapStep, ReapList, ReapDecide, ReapContainer, ReapWorkspace, Touch, RecordActivity, AppChanges,
     dbVars
<1>10. ASSUME NEW x \in Envs, GrowOld(x) PROVE Same
  BY <1>0, <1>10 DEF GrowOld, Exists, Rows
<1>11. ASSUME Boot PROVE Same
  BY <1>0, <1>11 DEF Boot, Exists, Rows
<1>12. ASSUME Crash \/ Shutdown \/ UNCHANGED vars PROVE Same
  BY <1>1, <1>12 DEF Crash, Shutdown, Halt, vars, dbVars
<1> HIDE DEF Same
<1>13. \/ Same
       \/ \E p \in Procs : /\ proc[p].pc = "gitSave" /\ proc[p].env = e
                           /\ row'[e].cid = proc[p].snap.cid
       \/ \E t \in Tasks : MarkRunning(t) /\ task[t].env = e /\ row'[e].cid = NewCid(t)
  BY <1>4, <1>5, <1>6, <1>7, <1>8, <1>9, <1>10, <1>11, <1>12 DEF Next
<1> QED BY <1>13 DEF Same

\* What a branch switch will write back is what it has read, or what it held.
LEMMA SwitchesHoldRows ==
  ASSUME Inv, [Next]_vars, NEW p \in Procs, proc'[p].pc = "gitSave"
  PROVE  \/ proc[p].pc = "gitSave" /\ proc'[p] = proc[p]
         \/ /\ "git" \in Handlers
            /\ proc'[p].env \in Envs /\ Exists(proc'[p].env) /\ proc'[p].snap = row[proc'[p].env]
<1>0. proc \in [Procs -> Requests]
  BY DEF Inv, ProcInv
<1> DEFINE Held == proc[p].pc = "gitSave" /\ proc'[p] = proc[p]
           Read == /\ "git" \in Handlers
                   /\ \E e \in Envs : Exists(e) /\ proc'[p].env = e /\ proc'[p].snap = row[e]
<1>1. ASSUME UNCHANGED proc PROVE Held
  BY <1>1
<1>2. ASSUME NEW q \in Procs, NEW e \in Envs, Request(q, e) PROVE Held \/ Read
  <2>1. CASE GitRead(q, e)
    BY <1>0, <2>1 DEF GitRead, Receives
  <2>2. CASE RestartRefused(q, e)
    BY <1>1, <2>2 DEF RestartRefused
  <2>3. CASE Insert(q, e) \/ RestartRead(q, e) \/ DeleteRead(q, e)
    <3>1. \E request : request.pc # "gitSave" /\ proc' = [proc EXCEPT ![q] = request]
      <4>1. CASE Insert(q, e)
        BY <4>1 DEF Insert
      <4>2. CASE RestartRead(q, e)
        BY <4>2 DEF RestartRead
      <4>3. CASE DeleteRead(q, e)
        BY <4>3 DEF DeleteRead
      <4> QED BY <2>3, <4>1, <4>2, <4>3
    <3> QED BY <1>0, <3>1
  <2> QED BY <1>2, <2>1, <2>2, <2>3 DEF Request, CreateEnvironment, ForkEnvironment
<1>3. ASSUME NEW q \in Procs, HandlerStep(q) PROVE Held
  <2>1. \E request : proc' = [proc EXCEPT ![q] = request] /\ request.pc # "gitSave"
    <3>1. CASE RestartSave(q) \/ GitSave(q)
      BY <1>0, <3>1 DEF RestartSave, GitSave, Return, NoRequest, Requests
    <3>2. CASE ~RestartSave(q) /\ ~GitSave(q)
      <4>1. Return(q) \/ \E pc \in ProcPcs \ {"gitSave"} : Step(q, pc)
        BY <1>3, <3>2 DEF HandlerStep, Enqueue, RollbackStatus, RestartCleanupApp, RestartCleanupDb,
           DeleteCleanupApp, DeleteCleanupDb, DeletePurge, DeleteRow, DeleteWorkspace,
           GitTouch, ProcPcs
      <4> QED BY <1>0, <4>1 DEF Step, Return, NoRequest, Requests
    <3> QED BY <3>1, <3>2
  <2> QED BY <1>0, <2>1
<1>4. ASSUME NEW t \in Tasks, WorkerStep(t) PROVE Held
  BY <1>1, <1>4, WorkerMoves
<1>5. ASSUME \/ \E s \in Sweepers : SweepStep(s)
             \/ \E r \in Reapers : ReapStep(r)
             \/ \E e \in Envs : Touch(e) \/ RecordActivity(e) \/ GrowOld(e) \/ AppChanges(e)
      PROVE  Held
  BY <1>1, <1>5, BackgroundKeeps
<1>6. ~Crash /\ ~Shutdown
  BY DEF Crash, Shutdown, Halt, NoRequest
<1>7. ASSUME Boot \/ UNCHANGED vars PROVE Held
  BY <1>1, <1>7 DEF Boot, vars
<1> HIDE DEF Held, Read
<1>8. Held \/ Read
  BY <1>2, <1>3, <1>4, <1>5, <1>6, <1>7 DEF Next
<1> QED BY <1>8 DEF Held, Read

\* A sweep works through the rows its query returned.
LEMMA SweepsHoldRows ==
  ASSUME Inv, [Next]_vars, NEW s \in Sweepers, NEW i \in sweep'[s].todo
  PROVE  \/ i \in sweep[s].todo
         \/ i.env \in Envs /\ Exists(i.env) /\ row[i.env].status = "RUNNING" /\ i.cid = row[i.env].cid
<1>0. sweep \in [Sweepers -> SweepStates]
  BY DEF Inv, SweepInv
<1>1. ASSUME UNCHANGED sweep PROVE i \in sweep[s].todo
  BY <1>1
<1>2. ASSUME NEW r \in Sweepers, SweepStep(r), ~SweepQuery(r) PROVE i \in sweep[s].todo
  <2>1. ASSUME NEW j \in sweep[r].todo, SweepApp(r, j) PROVE sweep'[s].todo \subseteq sweep[s].todo
    <3>1. sweep' = [sweep EXCEPT ![r] = [todo |-> sweep[r].todo \ {j}, cur |-> j, pc |-> "db"]]
      BY <2>1 DEF SweepApp
    <3> QED BY <1>0, <3>1
  <2>2. CASE SweepDb(r) \/ SweepWorkspace(r) \/ SweepStop(r)
    BY <1>0, <2>2 DEF SweepDb, SweepWorkspace, SweepStop, SweepStates
  <2> QED BY <1>2, <2>1, <2>2 DEF SweepStep
<1>3. ASSUME NEW r \in Sweepers, SweepQuery(r)
      PROVE  \/ i \in sweep[s].todo
             \/ i.env \in Envs /\ Exists(i.env) /\ row[i.env].status = "RUNNING" /\ i.cid = row[i.env].cid
  <2>1. CASE s = r
    <3>1. PICK idle \in SUBSET {e \in Envs : Exists(e) /\ row[e].status = "RUNNING"} :
             sweep' = [sweep EXCEPT ![r].todo = {[env |-> e, cid |-> row[e].cid] : e \in idle}]
      BY <1>3 DEF SweepQuery
    <3>2. sweep'[s].todo = {[env |-> e, cid |-> row[e].cid] : e \in idle}
      BY <1>0, <2>1, <3>1 DEF SweepStates
    <3>3. PICK e \in idle : i = [env |-> e, cid |-> row[e].cid]
      BY <3>2
    <3> QED BY <3>3
  <2>2. CASE s # r
    BY <1>0, <1>3, <2>2 DEF SweepQuery
  <2> QED BY <2>1, <2>2
<1>4. ASSUME NEW p \in Procs, HandlerStep(p) PROVE UNCHANGED sweep
  BY <1>4 DEF HandlerStep, Enqueue, RollbackStatus, RestartCleanupApp, RestartCleanupDb,
     RestartSave, DeleteCleanupApp, DeleteCleanupDb, DeletePurge, DeleteRow, DeleteWorkspace,
     GitSave, GitTouch
<1>5. ASSUME NEW p \in Procs, NEW e \in Envs, Request(p, e) PROVE UNCHANGED sweep
  BY <1>5 DEF Request, CreateEnvironment, ForkEnvironment, Insert, RestartRefused, RestartRead,
              DeleteRead, GitRead
<1>6. ASSUME NEW t \in Tasks, WorkerStep(t) PROVE UNCHANGED sweep
  BY <1>6 DEF WorkerStep, LoadEnvironment, CloneOrFetch, StartSidecarDatabase, ResolveRuntime,
     RemoveOldContainer, CreateContainer, PollHealth, MarkRunning, Acknowledge, RecoverLease
<1>7. ASSUME \/ \E r \in Reapers : ReapStep(r)
             \/ \E e \in Envs : Touch(e) \/ RecordActivity(e) \/ GrowOld(e) \/ AppChanges(e)
             \/ Boot \/ UNCHANGED vars
      PROVE  UNCHANGED sweep
  BY <1>7 DEF ReapStep, ReapList, ReapDecide, ReapContainer, ReapWorkspace,
     Touch, RecordActivity, GrowOld, AppChanges, Boot, vars
<1>8. ~Crash /\ ~Shutdown
  BY DEF Crash, Shutdown, Halt, NoSweep
<1> QED BY <1>1, <1>2, <1>3, <1>4, <1>5, <1>6, <1>7, <1>8 DEF Next

LEMMA ContainersNext ==
  ASSUME Containing, [Next]_vars
  PROVE  Containing'
<1>0. Inv /\ SlotsReserved /\ OwnContainers /\ Inv' /\ SlotsReserved'
  BY NextInv, SlotsNext DEF Containing
<1>1. \A c, e : MadeFor(c, e) => MadeFor(c, e)'
  BY <1>0, MadeForStays
<1>2. ASSUME NEW e \in Envs, app'[e] # Nil PROVE MadeFor(app[e].id, e)'
  <2>1. CASE app[e] # Nil /\ app'[e].id = app[e].id
    BY <1>0, <1>1, <2>1 DEF OwnContainers
  <2>2. ASSUME NEW t \in Tasks, task[t].env = e, app'[e].id = NewCid(t), CreateContainer(t),
               Advance(t, "boot") \/ RetryOrArchive(t)
        PROVE  MadeFor(app[e].id, e)'
    <3>1. task[t].pc # "unused" /\ crashes' = crashes
      BY <2>2 DEF CreateContainer
    <3>2. (\E pc \in Made : Advance(t, pc)) \/ RetryOrArchive(t)
      BY <2>2 DEF Made
    <3>3. ASSUME NEW c, NEW x, c = NewCid(t), x = task[t].env PROVE MadeFor(c, x)'
      BY <1>0, <3>1, <3>2, <3>3, DeliveryMakes
    <3> QED BY <2>2, <3>3
  <2> QED BY <1>0, <1>2, <2>1, <2>2, AppsComeFromBuilds
<1>3. ASSUME NEW e \in Envs, Exists(e)', row'[e].cid # Nil PROVE MadeFor(row[e].cid, e)'
  <2>1. CASE Exists(e) /\ row[e].cid # Nil /\ row'[e].cid = row[e].cid
    BY <1>0, <1>1, <2>1 DEF OwnContainers
  <2>2. ASSUME NEW p \in Procs, proc[p].pc = "gitSave", proc[p].env = e, row'[e].cid = proc[p].snap.cid
        PROVE  MadeFor(row[e].cid, e)'
    BY <1>0, <1>1, <1>3, <2>2 DEF OwnContainers
  <2>3. ASSUME NEW t \in Tasks, MarkRunning(t), task[t].env = e, row'[e].cid = NewCid(t)
        PROVE  MadeFor(row[e].cid, e)'
    <3>1. task[t].pc # "unused" /\ crashes' = crashes /\ Advance(t, "ack")
      BY <2>3 DEF MarkRunning
    <3>2. (\E pc \in Made : Advance(t, pc)) \/ RetryOrArchive(t)
      BY <3>1 DEF Made
    <3>3. ASSUME NEW c, NEW x, c = NewCid(t), x = task[t].env PROVE MadeFor(c, x)'
      BY <1>0, <3>1, <3>2, <3>3, DeliveryMakes
    <3> QED BY <2>3, <3>3
  <2> QED BY <1>0, <1>3, <2>1, <2>2, <2>3, RowsNameBuilds
<1>4. ASSUME NEW p \in Procs, proc'[p].pc = "gitSave", proc'[p].snap.cid # Nil
      PROVE  MadeFor(proc[p].snap.cid, proc[p].env)'
  BY <1>0, <1>1, <1>4, SwitchesHoldRows DEF OwnContainers
<1>5. ASSUME NEW s \in Sweepers, NEW i \in sweep'[s].todo PROVE MadeFor(i.cid, i.env)'
  <2>1. CASE i \in sweep[s].todo
    BY <1>0, <1>1, <2>1 DEF OwnContainers
  <2>2. CASE i.env \in Envs /\ Exists(i.env) /\ row[i.env].status = "RUNNING" /\ i.cid = row[i.env].cid
    <3>1. row[i.env].cid # Nil
      BY <1>0, <2>2 DEF Inv, RowInv, RunningHasContainerId
    <3> QED BY <1>0, <1>1, <2>2, <3>1 DEF OwnContainers
  <2> QED BY <1>0, <1>5, <2>1, <2>2, SweepsHoldRows
<1> QED BY <1>0, <1>2, <1>3, <1>4, <1>5 DEF Containing, OwnContainers

LEMMA ContainingAlways == Spec => []Containing
<1>1. Init => Containing
  BY InitInv, SlotsInit DEF Containing, OwnContainers, Init, NoRequest, NoSweep, Exists
<1> QED BY <1>1, ContainersNext, PTL DEF Spec

\* A task is stored at most once: the slot a request holds stays empty, and is held
\* by no other request, until Enqueue stores the task, whatever overlaps, fails or crashes.
THEOREM SlotsStayReserved == Spec => []SlotsReserved
BY ContainingAlways, PTL DEF Containing

\* An id that is held for an environment, by its row, by a branch switch that is
\* going to save the row back or by a sweep, is that of a container which a build of
\* this environment has made, never that of another one's.  The cleanups by id rest
\* on it: docker stops the container of that id, whosever it is.
THEOREM ContainersAreOwn == Spec => []OwnContainers
BY ContainingAlways, PTL DEF Containing

\* No container, and no row, has the id that a delivery is going to give to the
\* container it has not made yet.
IdsAreFresh ==
    \A t \in Tasks : task[t].pc \notin Made =>
        \A e \in Envs : /\ app[e] # Nil => app[e].id # NewCid(t)
                        /\ Exists(e) => row[e].cid # NewCid(t)

\* A retry, or the same task after a crash, never takes the container of an earlier
\* delivery for its own: the health loop of PollHealth judges the new one only.
THEOREM DeliveriesMakeNewContainers == Spec => []IdsAreFresh
<1>1. ASSUME Containing PROVE IdsAreFresh
  <2>0. \A t \in Tasks : NewCid(t) \in Cids
    BY <1>1, NewCidType DEF Containing, Inv
  <2>1. \A t \in Tasks : \A e : MadeFor(NewCid(t), e) => task[t].pc \in Made
    BY DEF MadeFor, NewCid
  <2>2. \A t \in Tasks : NewCid(t) # Nil
    BY <2>0, ConstantsAssumption
  <2> QED BY <1>1, <2>1, <2>2 DEF Containing, OwnContainers, IdsAreFresh
<1> QED BY <1>1, ContainingAlways, PTL

-----------------------------------------------------------------------------
(* The deliveries.                                                         *)

\* The points of a delivery, the last ones first; one whose worker has died waits
\* for its lease to expire.
Points == <<"archived", "done", "leased", "ack", "deadline", "ready", "boot", "create", "remove",
            "resolve", "sidecar", "clone", "pending">>
Before(pc, next) ==
    \E i, j \in 1..13 : Points[i] = next /\ Points[j] = pc /\ i < j

\* A step of a task brings its end nearer: the process has died, or the task is
\* delivered again, or this delivery has less to do.
Nearer(t) ==
    \/ crashes' > crashes
    \/ /\ crashes' = crashes
       /\ \/ task'[t].retried > task[t].retried
          \/ task'[t].retried = task[t].retried /\ Before(task[t].pc, task'[t].pc)

LEMMA TaskGetsNearer ==
  ASSUME Inv, SlotsReserved, [Next]_vars, NEW t \in Tasks, task[t].pc # "unused",
         task'[t] # task[t]
  PROVE  Nearer(t) /\ task[t].pc \notin {"done", "archived"}
<1>0. task[t] \in TaskStates /\ task[t].retried \in Nat /\ crashes \in Nat
  BY ConstantsAssumption DEF Inv, TaskInv, TaskStates, RestInv
<1>1. ASSUME NEW p \in Procs, HandlerStep(p) PROVE FALSE
  BY <1>1, EnqueueStores DEF HandlerStep, RollbackStatus, RestartCleanupApp, RestartCleanupDb,
     RestartSave, DeleteCleanupApp, DeleteCleanupDb, DeletePurge, DeleteRow, DeleteWorkspace,
     GitSave, GitTouch
<1>2. ASSUME NEW p \in Procs, NEW e \in Envs, Request(p, e) PROVE FALSE
  BY <1>2 DEF Request, CreateEnvironment, ForkEnvironment, Insert, RestartRefused, RestartRead,
              DeleteRead, GitRead
<1>3. ASSUME NEW u \in Tasks, u # t, WorkerStep(u) PROVE FALSE
  BY <1>3, WorkerMoves
<1>4. CASE WorkerStep(t)
  <2>1. task[t].pc \in (WorkerPcs \cup {"pending", "leased"}) /\ crashes' = crashes
    BY <1>4, WorkerMoves
       DEF WorkerStep, LoadEnvironment, CloneOrFetch, StartSidecarDatabase, ResolveRuntime,
           RemoveOldContainer, CreateContainer, PollHealth, MarkRunning, Acknowledge, RecoverLease,
           WorkerPcs
  <2>2. CASE RetryOrArchive(t)
    <3>1. \/ task'[t] = [task[t] EXCEPT !.pc = "archived"]
          \/ task'[t] = [task[t] EXCEPT !.pc = "pending", !.retried = task[t].retried + 1]
      <4>1. CASE task[t].retried < MaxRetry
        BY <2>2, <4>1 DEF RetryOrArchive, Inv, TaskInv
      <4>2. CASE ~(task[t].retried < MaxRetry)
        BY <2>2, <4>2 DEF RetryOrArchive, Inv, TaskInv
      <4> QED BY <4>1, <4>2
    <3>2. \/ task'[t].pc = "archived" /\ task'[t].retried = task[t].retried
          \/ task'[t].retried = task[t].retried + 1
      BY <1>0, <3>1 DEF TaskStates
    <3>3. Before(task[t].pc, "archived")
      BY <2>1 DEF Before, Points, WorkerPcs
    <3> QED BY <1>0, <2>1, <3>2, <3>3 DEF Nearer, WorkerPcs
  <2>3. ASSUME NEW pc \in TaskPcs, Advance(t, pc), Before(task[t].pc, pc)
        PROVE  Nearer(t)
    <3>1. task'[t].pc = pc /\ task'[t].retried = task[t].retried
      BY <1>0, <2>3 DEF Advance, Inv, TaskInv, TaskStates
    <3> QED BY <2>1, <2>3, <3>1 DEF Nearer
  <2>4. \/ RetryOrArchive(t)
        \/ task[t].pc = "pending"  /\ Advance(t, "clone")
        \/ task[t].pc = "clone"    /\ Advance(t, "sidecar")
        \/ task[t].pc = "sidecar"  /\ Advance(t, "resolve")
        \/ task[t].pc = "resolve"  /\ Advance(t, "remove")
        \/ task[t].pc = "remove"   /\ Advance(t, "create")
        \/ task[t].pc = "create"   /\ Advance(t, "boot")
        \/ task[t].pc = "boot"     /\ (Advance(t, "ready") \/ Advance(t, "deadline"))
        \/ task[t].pc \in {"ready", "deadline"} /\ Advance(t, "ack")
        \/ task[t].pc = "ack"      /\ Advance(t, "done")
    BY <1>4 DEF WorkerStep, LoadEnvironment, CloneOrFetch, StartSidecarDatabase, ResolveRuntime,
         RemoveOldContainer, CreateContainer, PollHealth, MarkRunning, Acknowledge, RecoverLease,
         FailBuild
  <2>5. /\ Before("pending", "clone") /\ Before("clone", "sidecar") /\ Before("sidecar", "resolve")
        /\ Before("resolve", "remove") /\ Before("remove", "create") /\ Before("create", "boot")
    BY DEF Before, Points
  <2>6. /\ Before("boot", "ready") /\ Before("boot", "deadline") /\ Before("ready", "ack")
        /\ Before("deadline", "ack") /\ Before("ack", "done")
    BY DEF Before, Points
  <2> QED BY <2>1, <2>2, <2>3, <2>4, <2>5, <2>6 DEF TaskPcs, WorkerPcs
<1>5. CASE Crash \/ Shutdown
  <2>1. PICK fate \in {"leased", "pending"} : Halt(fate)
    BY <1>5 DEF Crash, Shutdown
  <2>2. crashes' > crashes /\ task[t].pc \in WorkerPcs
    BY <1>0, <2>1 DEF Halt
  <2> QED BY <2>2 DEF Nearer, WorkerPcs
<1>6. CASE Boot \/ UNCHANGED vars
  BY <1>6 DEF Boot, vars
<1>7. CASE \/ \E s \in Sweepers : SweepStep(s)
           \/ \E r \in Reapers : ReapStep(r)
           \/ \E e \in Envs : Touch(e) \/ RecordActivity(e) \/ GrowOld(e) \/ AppChanges(e)
  BY <1>7, BackgroundKeeps
<1> QED BY <1>1, <1>2, <1>3, <1>4, <1>5, <1>6, <1>7 DEF Next

\* A settled task stays settled, and a step of any other brings its end nearer.  As
\* its retries are bounded by asynq.MaxRetry, it takes finitely many steps between two
\* ends of the process: what TasksSettle rests on besides fairness.
DeliveriesDwindle ==
    [][\A t \in Tasks : task[t].pc # "unused" /\ task'[t] # task[t]
          => Nearer(t) /\ task[t].pc \notin {"done", "archived"}]_vars

\* No build is delivered for ever, and none that is done or archived is taken up
\* again, whatever fails, overlaps or dies (worker.go:41-290; asynq.MaxRetry(3) at
\* handlers.go:380, 704 and 1005).
THEOREM DeliveriesEnd == Spec => DeliveriesDwindle
<1> DEFINE Dwindle == \A t \in Tasks : task[t].pc # "unused" /\ task'[t] # task[t]
                        => Nearer(t) /\ task[t].pc \notin {"done", "archived"}
<1>1. Containing /\ [Next]_vars => [Dwindle]_vars
  BY TaskGetsNearer DEF Containing
<1> QED BY <1>1, ContainingAlways, PTL DEF Spec, DeliveriesDwindle

-----------------------------------------------------------------------------
(* The life cycle that the readers of the table see (EnvLifecycle).        *)

\* An id is spent for good: retries and crashes only go up, and a delivery that is
\* over announces nothing.
LEMMA SpentGrows ==
  ASSUME Inv, SlotsReserved, [Next]_vars
  PROVE  Spent \subseteq Spent' /\ Spent' \subseteq Cids
<1>1. SUFFICES ASSUME NEW c \in Spent PROVE c \in Spent'
  BY DEF Spent
<1>2. c \in Cids /\ c.task \in Tasks /\ c.try \in Nat /\ c.boot \in Nat
  BY ConstantsAssumption DEF Spent, Cids
<1>3. task[c.task].retried \in Nat /\ task'[c.task].retried \in Nat
  BY <1>2, NextInv, ConstantsAssumption DEF Inv, TaskInv, TaskStates
<1>4. task[c.task].pc # "unused"
  BY DEF Spent
<1> QED BY <1>2, <1>3, <1>4, TasksGoOn, CrashesGrow DEF Spent

\* What a row that is there shows is a row, not its absence.
LEMMA ShownRow ==
  \A r \in Rows : /\ Shown(r) = [status |-> r.status, cid |-> r.cid]
                  /\ Shown(r) # NoRow
BY ConstantsAssumption, ShownAssumption DEF Rows, Shown

LEMMA ShownAre ==
  ASSUME Inv
  PROVE  \A e \in Envs : /\ ShownRows[e] = Shown(row[e])
                         /\ ShownRows[e] = NoRow <=> ~Exists(e)
                         /\ Exists(e) => /\ row[e] \in Rows
                                         /\ ShownRows[e] = [status |-> row[e].status, cid |-> row[e].cid]
                                         /\ ShownRows[e].status = row[e].status
                                         /\ ShownRows[e].cid = row[e].cid
<1>1. row \in [Envs -> Rows \cup {NoRow}] /\ Shown(NoRow) = NoRow
  BY DEF Inv, RowInv, Shown
<1> QED BY <1>1, ShownRow DEF ShownRows, Exists

\* A write of one row shows in that row only, and not even there if it is the age.
LEMMA RowWritten ==
  ASSUME Inv, NEW e, NEW r, row' = [row EXCEPT ![e] = r]
  PROVE  /\ ShownRows' = [ShownRows EXCEPT ![e] = Shown(r)]
         /\ e \notin Envs => UNCHANGED ShownRows
         /\ e \in Envs /\ Shown(r) = Shown(row[e]) => UNCHANGED ShownRows
BY DEF ShownRows, Inv, RowInv

LEMMA RowsKept == UNCHANGED row => UNCHANGED ShownRows
BY DEF ShownRows

LEMMA TouchHides ==
  ASSUME Inv, NEW e \in Envs, TouchEnvironmentActivity(e)
  PROVE  UNCHANGED ShownRows
<1>1. CASE Exists(e)
  <2> DEFINE r == [row[e] EXCEPT !.age = "fresh"]
  <2>1. row[e] \in Rows /\ r \in Rows /\ r.status = row[e].status /\ r.cid = row[e].cid
    BY <1>1 DEF Inv, RowInv, Exists, Rows, Ages
  <2>2. Shown(r) = Shown(row[e])
    BY <2>1, ShownRow
  <2>3. row' = [row EXCEPT ![e] = r]
    BY <1>1 DEF TouchEnvironmentActivity
  <2> QED BY <2>2, <2>3, RowWritten
<1>2. CASE ~Exists(e)
  BY <1>2, RowsKept DEF TouchEnvironmentActivity
<1> QED BY <1>1, <1>2

\* Model(&env).Update reports a status, or finds no row.
LEMMA UpdateReports ==
  ASSUME Inv, NEW e, NEW status \in {"FAILED", "STOPPED"}, UpdateStatus(e, status),
         UNCHANGED <<up, born, HeldRows>>
  PROVE  UNCHANGED ShownRows \/ (e \in Envs /\ Lifecycle!Report(e, status))
<1>1. CASE e \in Envs /\ Exists(e)
  <2> DEFINE r == [status |-> status, cid |-> row[e].cid, age |-> Rewritten(row[e].age)]
  <2>1. r \in Rows
    BY <1>1 DEF Inv, RowInv, Exists, Rows, Ages, Rewritten, Statuses
  <2>2. Shown(r) = [status |-> status, cid |-> ShownRows[e].cid]
    BY <1>1, <2>1, ShownRow, ShownAre
  <2>3. row' = [row EXCEPT ![e] = r]
    BY <1>1 DEF UpdateStatus
  <2>4. ShownRows' = [ShownRows EXCEPT ![e] = [status |-> status, cid |-> ShownRows[e].cid]]
    BY <2>2, <2>3, RowWritten
  <2>5. ShownRows[e] # NoRow
    BY <1>1, ShownAre
  <2> QED BY <1>1, <2>4, <2>5 DEF Lifecycle!Report
<1>2. CASE ~Exists(e)
  BY <1>2, RowsKept DEF UpdateStatus
<1>3. CASE e \notin Envs /\ Exists(e)
  <2>1. row' = [row EXCEPT ![e] = [status |-> status, cid |-> row[e].cid,
                                   age |-> Rewritten(row[e].age)]]
    BY <1>3 DEF UpdateStatus
  <2> QED BY <1>3, <2>1, RowWritten
<1> QED BY <1>1, <1>2, <1>3

\* What is held for a request changes with that request only.
LEMMA HeldMoves ==
  ASSUME Inv, NEW p \in Procs, NEW request, proc' = [proc EXCEPT ![p] = request]
  PROVE  /\ HeldRows[p] = HeldBy(proc[p])
         /\ HeldRows' = [HeldRows EXCEPT ![p] = HeldBy(request)]
         /\ HeldBy(request) = HeldBy(proc[p]) => UNCHANGED HeldRows
BY DEF HeldRows, Inv, ProcInv

LEMMA HeldKept == UNCHANGED proc => UNCHANGED HeldRows
BY DEF HeldRows

\* The points at which a request has no row to save.
Unheld == ProcPcs \ Snapped

LEMMA UnheldIsNothing ==
  \A request : request.pc \in Unheld => HeldBy(request) = Lifecycle!Nothing
BY DEF Unheld, Snapped, HeldBy, Lifecycle!Nothing

\* What a request holds is that of an environment, so it is something.
LEMMA SnappedIsHeld ==
  ASSUME Inv, NEW p \in Procs, proc[p].pc \in Snapped
  PROVE  HeldRows[p] # Lifecycle!Nothing /\ HeldRows[p].env = proc[p].env
<1>1. proc[p].env \in Envs /\ proc[p].env # Nil
  BY ConstantsAssumption DEF Inv, ProcInv, Snapped
<1>2. HeldRows[p].env = proc[p].env
  BY DEF HeldRows, HeldBy, Snapped
<1> QED BY <1>1, <1>2 DEF Lifecycle!Nothing

\* A step between two points without a row to save, or to the answer.
LEMMA UnheldMoves ==
  ASSUME Inv, NEW p \in Procs, proc[p].pc \in Unheld,
         Return(p) \/ \E pc \in Unheld : Step(p, pc)
  PROVE  UNCHANGED HeldRows
<1>1. PICK request : proc' = [proc EXCEPT ![p] = request] /\ request.pc \in Unheld
  <2>1. CASE Return(p)
    <3>1. NoRequest.pc \in Unheld
      BY DEF NoRequest, Unheld, Snapped, ProcPcs
    <3> QED BY <2>1, <3>1 DEF Return
  <2>2. ASSUME NEW pc \in Unheld, Step(p, pc)
        PROVE  \E request : proc' = [proc EXCEPT ![p] = request] /\ request.pc \in Unheld
    <3>1. [proc[p] EXCEPT !.pc = pc].pc = pc
      BY DEF Inv, ProcInv, Requests
    <3> QED BY <2>2, <3>1 DEF Step
  <2> QED BY <2>1, <2>2
<1>2. HeldBy(request) = HeldBy(proc[p])
  BY <1>1, UnheldIsNothing
<1> QED BY <1>1, <1>2, HeldMoves

Sees == Lifecycle!Running \/ UNCHANGED <<up, born, ShownRows, HeldRows>>

\* The first access of a handler creates a row, reads one to save it later, or
\* does not show.
LEMMA RequestSees ==
  ASSUME Inv, NEW p \in Procs, NEW e \in Envs, Request(p, e)
  PROVE  up /\ Sees
<1>1. up /\ proc[p] = NoRequest
  BY DEF Request, CreateEnvironment, ForkEnvironment, RestartRefused, RestartRead, DeleteRead,
         GitRead, Receives
<1>2. HeldBy(proc[p]) = Lifecycle!Nothing /\ NoRequest.pc \in Unheld
  BY <1>1, UnheldIsNothing DEF NoRequest, Unheld, Snapped, ProcPcs
<1>3. CASE Insert(p, e)
  <2> DEFINE r == [status |-> "BUILDING", cid |-> Nil, age |-> "fresh"]
  <2>1. Shown(r) = Lifecycle!NewRow
    BY ShownRow DEF Rows, Statuses, Ages, Lifecycle!NewRow
  <2>2. ShownRows' = [ShownRows EXCEPT ![e] = Lifecycle!NewRow]
    BY <1>3, <2>1, RowWritten DEF Insert
  <2>3. PICK request : request.pc = "enqueue" /\ proc' = [proc EXCEPT ![p] = request]
    BY <1>3 DEF Insert
  <2>4. HeldBy(request) = Lifecycle!Nothing
    BY <2>3, UnheldIsNothing DEF Unheld, Snapped, ProcPcs
  <2>5. UNCHANGED HeldRows
    BY <1>2, <2>3, <2>4, HeldMoves
  <2>6. Lifecycle!Create(e)
    BY <1>3, <2>2, <2>5 DEF Insert, Lifecycle!Create
  <2> QED BY <1>1, <2>6 DEF Sees, Lifecycle!Running
<1>4. CASE RestartRefused(p, e)
  BY <1>1, <1>4, TouchHides, HeldKept DEF RestartRefused, Sees
<1>5. CASE RestartRead(p, e)
  <2> DEFINE request == [pc |-> "restartApp", env |-> e, task |-> issued + 1, snap |-> row[e]]
  <2>1. row[e] \in Rows /\ ShownRows[e] # NoRow /\ ShownRows[e].status # "BUILDING"
    BY <1>5, ShownAre DEF RestartRead
  <2>2. Shown(Restarted(row[e])) = Lifecycle!NewRow
    BY <2>1, ShownRow DEF Restarted, Rows, Statuses, Ages, Rewritten, Lifecycle!NewRow
  <2>3. HeldBy(request) = [env |-> e, saves |-> Lifecycle!NewRow] /\ proc' = [proc EXCEPT ![p] = request]
    BY <1>5, <2>2 DEF HeldBy, RestartRead
  <2> HIDE DEF request
  <2>4. HeldRows[p] = Lifecycle!Nothing
        /\ HeldRows' = [HeldRows EXCEPT ![p] = [env |-> e, saves |-> Lifecycle!NewRow]]
    BY <1>2, <2>3, HeldMoves
  <2>5. UNCHANGED ShownRows
    BY <1>5, TouchHides DEF RestartRead
  <2>6. Lifecycle!Read(p, e)
    BY <1>5, <2>1, <2>4, <2>5 DEF RestartRead, Lifecycle!Read
  <2> QED BY <1>1, <2>6 DEF Sees, Lifecycle!Running
<1>6. CASE DeleteRead(p, e)
  <2>1. PICK request : request.pc = "deleteApp" /\ proc' = [proc EXCEPT ![p] = request]
    BY <1>6 DEF DeleteRead
  <2>2. HeldBy(request) = Lifecycle!Nothing
    BY <2>1, UnheldIsNothing DEF Unheld, Snapped, ProcPcs
  <2>3. UNCHANGED HeldRows
    BY <1>2, <2>1, <2>2, HeldMoves
  <2> QED BY <1>1, <1>6, <2>3, RowsKept DEF DeleteRead, dbVars, Sees
<1>7. CASE GitRead(p, e)
  <2> DEFINE request == [pc |-> "gitSave", env |-> e, task |-> 0, snap |-> row[e]]
  <2>1. ShownRows[e] # NoRow /\ ShownRows[e] = Shown(row[e])
    BY <1>7, ShownAre DEF GitRead
  <2>2. HeldBy(request) = [env |-> e, saves |-> ShownRows[e]] /\ proc' = [proc EXCEPT ![p] = request]
    BY <1>7, <2>1 DEF HeldBy, GitRead
  <2> HIDE DEF request
  <2>3. HeldRows[p] = HeldBy(proc[p]) /\ HeldRows' = [HeldRows EXCEPT ![p] = HeldBy(request)]
    BY <2>2, HeldMoves
  <2>4. UNCHANGED ShownRows
    BY <1>7, TouchHides DEF GitRead
  <2>5. Lifecycle!Read(p, e)
    BY <1>2, <1>7, <2>1, <2>2, <2>3, <2>4 DEF GitRead, Lifecycle!Read
  <2> QED BY <1>1, <2>5 DEF Sees, Lifecycle!Running
<1> QED BY <1>3, <1>4, <1>5, <1>6, <1>7 DEF Request, CreateEnvironment, ForkEnvironment

\* RestartSave saves a new row and GitSave the one that was read, the rollback
\* reports FAILED, DeleteRow removes; nothing else that a handler does shows.
LEMMA HandlerSees ==
  ASSUME Inv, NEW p \in Procs, HandlerStep(p)
  PROVE  up /\ Sees
<1>0. up /\ UNCHANGED <<up, born>>
  BY DEF HandlerStep, Enqueue, RollbackStatus, RestartCleanupApp, RestartCleanupDb, RestartSave,
     DeleteCleanupApp, DeleteCleanupDb, DeletePurge, DeleteRow, DeleteWorkspace, GitSave, GitTouch
<1>1. CASE proc[p].pc \notin Snapped
  <2>1. proc[p].pc \in Unheld
    BY <1>1 DEF Inv, ProcInv, Requests, Unheld
  <2>2. Return(p) \/ \E pc \in Unheld : Step(p, pc)
    BY <1>1 DEF HandlerStep, Enqueue, RollbackStatus, RestartCleanupApp, RestartCleanupDb, RestartSave,
       DeleteCleanupApp, DeleteCleanupDb, DeletePurge, DeleteRow, DeleteWorkspace, GitSave, GitTouch,
       Snapped, Unheld, ProcPcs
  <2>3. UNCHANGED HeldRows
    BY <2>1, <2>2, UnheldMoves
  <2>4. proc[p].env \in Envs
    BY DEF HandlerStep, Enqueue, RollbackStatus, RestartCleanupApp, RestartCleanupDb, RestartSave,
       DeleteCleanupApp, DeleteCleanupDb, DeletePurge, DeleteRow, DeleteWorkspace, GitSave, GitTouch,
       Inv, ProcInv
  <2>5. CASE RollbackStatus(p)
    BY <1>0, <2>3, <2>5, UpdateReports DEF RollbackStatus, Sees, Lifecycle!Running
  <2>6. CASE DeleteRow(p) /\ row' = [row EXCEPT ![proc[p].env] = NoRow]
    <3>1. ShownRows' = [ShownRows EXCEPT ![proc[p].env] = NoRow]
      BY <2>6, RowWritten DEF Shown
    <3>2. Lifecycle!Remove(proc[p].env)
      BY <1>0, <2>3, <3>1 DEF Lifecycle!Remove
    <3> QED BY <1>0, <2>4, <3>2 DEF Sees, Lifecycle!Running
  <2>7. CASE GitTouch(p)
    BY <1>0, <2>3, <2>4, <2>7, TouchHides DEF GitTouch, Sees
  <2>8. CASE UNCHANGED row
    BY <1>0, <2>3, <2>8, RowsKept DEF Sees
  <2> QED BY <1>1, <2>5, <2>6, <2>7, <2>8
     DEF HandlerStep, Enqueue, RestartCleanupApp, RestartCleanupDb, RestartSave,
         DeleteCleanupApp, DeleteCleanupDb, DeletePurge, DeleteRow, DeleteWorkspace, GitSave,
         dbVars, Snapped
<1>2. CASE RestartCleanupApp(p) \/ RestartCleanupDb(p)
  <2>1. PICK pc \in {"restartDb", "restartSave"} : Step(p, pc) /\ proc[p].pc \in {"restartApp", "restartDb"}
    BY <1>2 DEF RestartCleanupApp, RestartCleanupDb
  <2> DEFINE request == [proc[p] EXCEPT !.pc = pc]
  <2>2. request.pc = pc /\ request.env = proc[p].env /\ request.snap = proc[p].snap
    BY DEF Inv, ProcInv, Requests
  <2> HIDE DEF request
  <2>3. HeldBy(request) = HeldBy(proc[p])
    BY <2>1, <2>2 DEF HeldBy
  <2>4. UNCHANGED HeldRows
    BY <2>1, <2>3, HeldMoves DEF Step, request
  <2> QED BY <1>0, <1>2, <2>4, RowsKept DEF RestartCleanupApp, RestartCleanupDb, dbVars, Sees
<1>3. CASE RestartSave(p)
  <2> DEFINE request == [[proc[p] EXCEPT !.pc = "enqueue"] EXCEPT !.snap = NoRow]
  <2>1. proc[p].pc = "restartSave" /\ proc' = [proc EXCEPT ![p] = request] /\ request.pc = "enqueue"
    BY <1>3 DEF RestartSave, Inv, ProcInv, Requests
  <2> HIDE DEF request
  <2>2. HeldBy(request) = Lifecycle!Nothing
    BY <2>1, UnheldIsNothing DEF Unheld, Snapped, ProcPcs
  <2>3. HeldRows[p].env = proc[p].env /\ HeldRows[p].saves = Shown(Restarted(proc[p].snap))
    BY <2>1 DEF HeldRows, HeldBy
  <2> DEFINE r == Restarted(proc[p].snap)
  <2>4. row' = [row EXCEPT ![proc[p].env] = r]
    BY <1>3 DEF RestartSave
  <2> HIDE DEF r
  <2>5. ShownRows' = [ShownRows EXCEPT ![proc[p].env] = Shown(r)]
    BY <2>4, RowWritten
  <2>6. ShownRows' = [ShownRows EXCEPT ![HeldRows[p].env] = HeldRows[p].saves]
    BY <2>3, <2>5 DEF r
  <2>7. Lifecycle!Save(p)
    BY <1>0, <2>1, <2>2, <2>6, HeldMoves, SnappedIsHeld DEF Lifecycle!Save, Snapped
  <2> QED BY <1>0, <2>7 DEF Sees, Lifecycle!Running
<1>4. CASE GitSave(p) /\ Return(p) /\ UNCHANGED row
  <2>1. HeldBy(NoRequest) = Lifecycle!Nothing
    BY UnheldIsNothing DEF NoRequest, Unheld, Snapped, ProcPcs
  <2>2. HeldRows' = [HeldRows EXCEPT ![p] = Lifecycle!Nothing]
    BY <1>4, <2>1, HeldMoves DEF Return
  <2>3. HeldRows[p] # Lifecycle!Nothing
    BY <1>4, SnappedIsHeld DEF GitSave, Snapped
  <2>4. Lifecycle!GiveUp(p)
    BY <1>0, <1>4, <2>2, <2>3, RowsKept DEF Lifecycle!GiveUp
  <2> QED BY <1>0, <2>4 DEF Sees, Lifecycle!Running
<1>5. CASE /\ GitSave(p)
           /\ row' = [row EXCEPT ![proc[p].env] = [proc[p].snap EXCEPT !.age = Rewritten(@)]]
           /\ proc' = [proc EXCEPT ![p].pc = "gitTouch", ![p].snap = NoRow]
  <2> DEFINE request == [[proc[p] EXCEPT !.pc = "gitTouch"] EXCEPT !.snap = NoRow]
             r == [proc[p].snap EXCEPT !.age = Rewritten(proc[p].snap.age)]
  <2>1. proc[p].pc = "gitSave" /\ proc' = [proc EXCEPT ![p] = request] /\ request.pc = "gitTouch"
    BY <1>5 DEF GitSave, Inv, ProcInv, Requests
  <2> HIDE DEF request
  <2>2. HeldBy(request) = Lifecycle!Nothing
    BY <2>1, UnheldIsNothing DEF Unheld, Snapped, ProcPcs
  <2>3. HeldRows[p].env = proc[p].env /\ HeldRows[p].saves = Shown(proc[p].snap)
    BY <2>1 DEF HeldRows, HeldBy
  <2>4. proc[p].snap \in Rows
    BY <2>1 DEF Inv, ProcInv, Snapped
  <2>5. r \in Rows /\ r.status = proc[p].snap.status /\ r.cid = proc[p].snap.cid
    BY <2>4 DEF Rows, Rewritten, Ages
  <2>6. row' = [row EXCEPT ![proc[p].env] = r]
    BY <1>5 DEF GitSave
  <2> HIDE DEF r
  <2>7. Shown(r) = Shown(proc[p].snap)
    BY <2>4, <2>5, ShownRow
  <2>8. ShownRows' = [ShownRows EXCEPT ![HeldRows[p].env] = HeldRows[p].saves]
    BY <2>3, <2>6, <2>7, RowWritten
  <2>9. Lifecycle!Save(p)
    BY <1>0, <2>1, <2>2, <2>8, HeldMoves, SnappedIsHeld DEF Lifecycle!Save, Snapped
  <2> QED BY <1>0, <2>9 DEF Sees, Lifecycle!Running
<1> QED BY <1>1, <1>2, <1>3, <1>4, <1>5
   DEF HandlerStep, Enqueue, RollbackStatus, DeleteCleanupApp, DeleteCleanupDb, DeletePurge,
       DeleteRow, DeleteWorkspace, GitSave, GitTouch, Snapped

\* MarkRunning announces the container of its delivery, whose id is not yet spent;
\* a failed build reports FAILED; nothing else that a worker does shows.
LEMMA WorkerSees ==
  ASSUME Inv, NEW t \in Tasks, WorkerStep(t)
  PROVE  up /\ Sees
<1>0. up /\ UNCHANGED <<up, born, HeldRows>>
  BY WorkerMoves, HeldKept DEF WorkerStep, LoadEnvironment, CloneOrFetch, StartSidecarDatabase,
     ResolveRuntime, RemoveOldContainer, CreateContainer, PollHealth, MarkRunning, Acknowledge, RecoverLease
<1>1. CASE UNCHANGED row
  BY <1>0, <1>1, RowsKept DEF Sees
<1>2. CASE FailBuild(t)
  BY <1>0, <1>2, UpdateReports DEF FailBuild, Sees, Lifecycle!Running
<1>3. CASE MarkRunning(t) /\ Exists(task[t].env)
  <2> DEFINE e == task[t].env
             r == [status |-> "RUNNING", cid |-> NewCid(t), age |-> Rewritten(row[e].age)]
  <2>1. e \in Envs /\ row[e] \in Rows /\ ShownRows[e] # NoRow
    BY <1>3, ShownAre DEF MarkRunning, Inv, TaskInv
  <2>2. NewCid(t) \in Cids
    BY NewCidType DEF Inv
  <2>3. r \in Rows
    BY <2>1, <2>2 DEF Rows, Statuses, Ages, Rewritten
  <2>4. Shown(r) = [status |-> "RUNNING", cid |-> NewCid(t)]
    BY <2>3, ShownRow
  <2>5. ShownRows' = [ShownRows EXCEPT ![e] = [status |-> "RUNNING", cid |-> NewCid(t)]]
    BY <1>3, <2>4, RowWritten DEF MarkRunning
  <2>6. NewCid(t) \notin Spent
    BY <1>3 DEF Spent, NewCid, Over, MarkRunning
  <2>7. NewCid(t) \in Spent'
    <3>1. /\ task'[t].pc = "ack" /\ task'[t].retried = task[t].retried
          /\ task[t].retried \in Nat /\ crashes \in Nat /\ crashes' = crashes
      BY <1>3, ConstantsAssumption
         DEF MarkRunning, Advance, Inv, TaskInv, TaskStates, RestInv
    <3> QED BY <2>2, <3>1 DEF Spent, NewCid, Over
  <2>8. Lifecycle!Announce(e, NewCid(t))
    BY <1>0, <2>1, <2>5, <2>6, <2>7 DEF Lifecycle!Announce
  <2> QED BY <1>0, <2>1, <2>2, <2>8 DEF Sees, Lifecycle!Running
<1>4. CASE MarkRunning(t) /\ ~Exists(task[t].env)
  BY <1>1, <1>4 DEF MarkRunning
<1> QED BY <1>1, <1>2, <1>3, <1>4
   DEF WorkerStep, LoadEnvironment, CloneOrFetch, StartSidecarDatabase, ResolveRuntime,
       RemoveOldContainer, CreateContainer, PollHealth, Acknowledge, RecoverLease, dbVars

\* A sweep reports STOPPED; reapers, touches, activities, time and Docker do not show.
LEMMA BackgroundSees ==
  ASSUME Inv,
         \/ \E s \in Sweepers : SweepStep(s)
         \/ \E r \in Reapers : ReapStep(r)
         \/ \E e \in Envs : Touch(e) \/ RecordActivity(e) \/ GrowOld(e) \/ AppChanges(e)
  PROVE  (up /\ Lifecycle!Running) \/ UNCHANGED <<up, born, ShownRows, HeldRows>>
<1>0. UNCHANGED <<up, born, HeldRows>>
  <2>1. UNCHANGED born
    BY DEF SweepStep, SweepQuery, SweepApp, SweepDb, SweepWorkspace, SweepStop,
       ReapStep, ReapList, ReapDecide, ReapContainer, ReapWorkspace,
       Touch, RecordActivity, GrowOld, AppChanges
  <2> QED BY <2>1, BackgroundKeeps, HeldKept
<1>1. CASE UNCHANGED row
  BY <1>0, <1>1, RowsKept
<1>2. ASSUME NEW s \in Sweepers, up, SweepStop(s)
      PROVE  (up /\ Lifecycle!Running) \/ UNCHANGED <<up, born, ShownRows, HeldRows>>
  BY <1>0, <1>2, UpdateReports DEF SweepStop, Lifecycle!Running
<1>3. ASSUME NEW e \in Envs, Touch(e) PROVE UNCHANGED ShownRows
  BY <1>3, TouchHides DEF Touch
<1>4. ASSUME NEW e \in Envs, GrowOld(e) PROVE UNCHANGED ShownRows
  <2>1. PICK age \in Ages : row' = [row EXCEPT ![e] = [row[e] EXCEPT !.age = age]]
    BY <1>4 DEF GrowOld, Ages
  <2> DEFINE r == [row[e] EXCEPT !.age = age]
  <2>2. row[e] \in Rows /\ r \in Rows /\ r.status = row[e].status /\ r.cid = row[e].cid
    BY <1>4 DEF GrowOld, Inv, RowInv, Exists, Rows
  <2>3. Shown(r) = Shown(row[e])
    BY <2>2, ShownRow
  <2> QED BY <2>1, <2>3, RowWritten
<1> QED BY <1>0, <1>1, <1>2, <1>3, <1>4
   DEF SweepStep, SweepQuery, SweepApp, SweepDb, SweepWorkspace,
       ReapStep, ReapList, ReapDecide, ReapContainer, ReapWorkspace,
       RecordActivity, AppChanges, dbVars

\* The process stops and drops what was held; the next boot fails what was BUILDING.
LEMMA ProcessSees ==
  ASSUME Inv, Crash \/ Shutdown \/ Boot
  PROVE  (up /\ Lifecycle!Stop) \/ Lifecycle!Start
<1>1. CASE Crash \/ Shutdown
  <2>1. PICK fate : Halt(fate)
    BY <1>1 DEF Crash, Shutdown
  <2>2. HeldBy(NoRequest) = Lifecycle!Nothing
    BY UnheldIsNothing DEF NoRequest, Unheld, Snapped, ProcPcs
  <2>3. HeldRows' = [p \in Procs |-> Lifecycle!Nothing]
    BY <2>1, <2>2 DEF Halt, HeldRows
  <2> QED BY <2>1, <2>3, RowsKept DEF Halt, dbVars, Lifecycle!Stop
<1>2. CASE Boot
  <2> DEFINE Recovered(e) == IF ShownRows[e] # NoRow /\ ShownRows[e].status = "BUILDING"
                               THEN [status |-> "FAILED", cid |-> ShownRows[e].cid]
                               ELSE ShownRows[e]
  <2>1. ASSUME NEW e \in Envs PROVE Shown(row'[e]) = Recovered(e)
    <3>1. CASE Exists(e) /\ row[e].status = "BUILDING"
      <4> DEFINE r == [row[e] EXCEPT !.status = "FAILED", !.age = Rewritten(row[e].age)]
      <4>1. row[e] \in Rows /\ ShownRows[e] = [status |-> row[e].status, cid |-> row[e].cid]
            /\ ShownRows[e] # NoRow
        BY <3>1, ShownAre
      <4>2. r \in Rows /\ r.status = "FAILED" /\ r.cid = row[e].cid
        BY <4>1 DEF Rows, Statuses, Ages, Rewritten
      <4>3. row'[e] = r
        BY <1>2, <3>1 DEF Boot
      <4> HIDE DEF r
      <4> QED BY <3>1, <4>1, <4>2, <4>3, ShownRow
    <3>2. CASE ~(Exists(e) /\ row[e].status = "BUILDING")
      <4>1. row'[e] = row[e]
        BY <1>2, <3>2 DEF Boot
      <4>2. ShownRows[e] = Shown(row[e])
            /\ ~(ShownRows[e] # NoRow /\ ShownRows[e].status = "BUILDING")
        BY <3>2, ShownAre
      <4> QED BY <4>1, <4>2
    <3> QED BY <3>1, <3>2
  <2>2. ShownRows' = [e \in Envs |-> Recovered(e)]
    BY <2>1 DEF ShownRows
  <2> QED BY <1>2, <2>2, HeldKept DEF Boot, Lifecycle!Start
<1> QED BY <1>1, <1>2

\* Every step is a step of the life cycle, or does not show.
LEMMA LifecycleStep ==
  ASSUME Inv, SlotsReserved, [Next]_vars
  PROVE  [Lifecycle!Next]_(Lifecycle!vars)
<1>1. Spent \subseteq Spent' /\ Spent' \subseteq Cids
  BY SpentGrows
<1>2. \/ up /\ Lifecycle!Running
      \/ up /\ Lifecycle!Stop
      \/ Lifecycle!Start
      \/ UNCHANGED <<up, born, ShownRows, HeldRows>>
  <2>1. CASE UNCHANGED vars
    BY <2>1, RowsKept, HeldKept DEF vars, dbVars
  <2>2. CASE Next
    BY <2>2, RequestSees, HandlerSees, WorkerSees, BackgroundSees, ProcessSees DEF Next, Sees
  <2> QED BY <2>1, <2>2
<1> QED BY <1>1, <1>2 DEF Lifecycle!Next

\* The table keeps the life cycle that its readers rely on, whatever requests,
\* builds, retries, sweeps, crashes and boots overlap: a container is announced
\* once and by one row, only a saved copy revives a row or brings an old container
\* id back, a late failure or sweep changes a status and nothing more, and a boot ends every
\* build (handlers.go:373-391 and 684, git.go:304 and 366, worker.go:41-290,
\* main.go:39-51).
THEOREM LifecycleImplemented == Spec => LifecycleSpec
<1>1. Init => Lifecycle!Init
  <2> SUFFICES ASSUME Init PROVE Lifecycle!Init
    OBVIOUS
  <2>1. ShownRows = [e \in Envs |-> NoRow]
    BY DEF Init, ShownRows, Shown
  <2>2. HeldRows = [p \in Procs |-> Lifecycle!Nothing]
    BY DEF Init, HeldRows, HeldBy, NoRequest, Lifecycle!Nothing
  <2>3. Spent = {}
    BY DEF Init, Spent, NoTask, Cids
  <2> QED BY <2>1, <2>2, <2>3 DEF Init, Lifecycle!Init
<1>2. Containing /\ [Next]_vars => [Lifecycle!Next]_(Lifecycle!vars)
  BY LifecycleStep DEF Containing
<1> QED BY <1>1, <1>2, ContainingAlways, PTL DEF Spec, LifecycleSpec, Lifecycle!Spec

-----------------------------------------------------------------------------
(* The builds.                                                             *)

\* The two ways in which the code loses a build are absent: a stale save of a
\* branch switch, and a failed write of the start script.
EndsAreReported ==
    /\ "git" \notin Handlers
    /\ "start_command" \notin Handlers /\ "script" \notin Faults

\* No request holds a row to save under another branch.
NoGit == \A p \in Procs : proc[p].pc # "gitSave"

\* The inductive invariant.
Owning == Inv /\ NoGit /\ SlotsReserved /\ BuildingIsCarried

TaskCarries(e) == \E t \in Tasks : task[t].env = e /\ task[t].pc \in CarrierPcs
ProcCarries(e) == \E p \in Procs : proc[p].env = e /\ proc[p].pc \in {"enqueue", "rollback"}

\* A build is carried by the next boot, by a task or by a request.
LEMMA CarriedSplit == \A e : Carried(e) <=> ~up \/ TaskCarries(e) \/ ProcCarries(e)
BY DEF Carried, TaskCarries, ProcCarries

\* A step that moves no task and no request, and starts no build, keeps builds carried.
LEMMA SameCarriers ==
  ASSUME Owning, UNCHANGED <<up, task, proc>>,
         \A e \in Envs : Building(e)' => Building(e)
  PROVE  BuildingIsCarried'
BY DEF Owning, BuildingIsCarried, Carried

\* An Update to a status other than BUILDING ends the build of its row and starts none.
LEMMA UpdateEnds ==
  ASSUME Inv, NEW e, NEW status \in Statuses \ {"BUILDING"}, UpdateStatus(e, status)
  PROVE  \A x \in Envs : Building(x)' => Building(x) /\ x # e
BY DEF Inv, RowInv, UpdateStatus, Building, Exists, Rows

\* A touch starts no build.
LEMMA TouchKeeps ==
  ASSUME Inv, NEW e \in Envs, TouchEnvironmentActivity(e)
  PROVE  \A x \in Envs : Building(x)' => Building(x)
BY DEF Inv, RowInv, TouchEnvironmentActivity, Building, Exists, Rows

\* A task that advances to another point before MarkRunning still carries its build.
LEMMA AdvanceCarries ==
  ASSUME Owning, NEW t \in Tasks, NEW pc \in CarrierPcs, Advance(t, pc),
         UNCHANGED <<up, row, proc>>
  PROVE  BuildingIsCarried'
<1>1. \A e : TaskCarries(e) => TaskCarries(e)'
  BY DEF Owning, Inv, TaskInv, TaskStates, TaskCarries, Advance
<1>2. \A e : ProcCarries(e) => ProcCarries(e)'
  BY DEF ProcCarries
<1> QED BY <1>1, <1>2, CarriedSplit DEF Owning, BuildingIsCarried, Building, Exists, Carried, TaskCarries, ProcCarries

\* A task may stop carrying when its environment is no longer BUILDING.
LEMMA EndCarries ==
  ASSUME Owning, NEW t \in Tasks,
         \A u \in Tasks \ {t} : task'[u] = task[u],
         \A e \in Envs : Building(e)' => Building(e) /\ e # task[t].env,
         UNCHANGED <<up, proc>>
  PROVE  BuildingIsCarried'
<1>1. SUFFICES ASSUME NEW e \in Envs, Building(e), e # task[t].env, up
               PROVE  Carried(e)'
  BY DEF BuildingIsCarried, Carried
<1>2. Carried(e)
  BY <1>1 DEF Owning, BuildingIsCarried
<1>3. CASE \E u \in Tasks : task[u].env = e /\ task[u].pc \in CarrierPcs
  <2>1. PICK u \in Tasks : task[u].env = e /\ task[u].pc \in CarrierPcs
    BY <1>3
  <2>2. u # t
    BY <2>1, <1>1
  <2> QED BY <2>1, <2>2 DEF Carried
<1> QED BY <1>1, <1>2, <1>3 DEF Carried

\* The failure exit of the worker ends the build of its row.
LEMMA FailCarries ==
  ASSUME Owning, NEW t \in Tasks, FailBuild(t), UNCHANGED <<up, proc>>
  PROVE  BuildingIsCarried'
<1>1. \A u \in Tasks \ {t} : task'[u] = task[u]
  BY DEF FailBuild, RetryOrArchive, Owning, Inv, TaskInv
<1>2. \A e \in Envs : Building(e)' => Building(e) /\ e # task[t].env
  BY UpdateEnds DEF FailBuild, Owning, Statuses
<1> QED BY <1>1, <1>2, EndCarries

\* No step of a worker loses a build: each either goes on, or writes FAILED or
\* RUNNING before it gives up.  Here the error path of worker.go:164-167, which
\* returns without a status, has to be excluded.
LEMMA WorkerOwns ==
  ASSUME EndsAreReported, Owning, NEW t \in Tasks, WorkerStep(t)
  PROVE  BuildingIsCarried'
<1>1. task[t].pc # "unused" /\ UNCHANGED <<up, proc>>
  BY DEF WorkerStep, LoadEnvironment, CloneOrFetch, StartSidecarDatabase, ResolveRuntime,
         RemoveOldContainer, CreateContainer, PollHealth, MarkRunning, Acknowledge, RecoverLease
<1>2. \A u \in Tasks \ {t} : task'[u] = task[u]
  BY WorkerMoves DEF Owning
<1>3. CASE LoadEnvironment(t)
  <2>1. CASE Exists(task[t].env)
    BY <1>1, <1>3, <2>1, AdvanceCarries DEF LoadEnvironment, dbVars, CarrierPcs, WorkerPcs
  <2>2. CASE ~Exists(task[t].env)
    BY <1>1, <1>2, <1>3, <2>2, EndCarries DEF LoadEnvironment, dbVars, Building, Exists
  <2> QED BY <2>1, <2>2
<1>4. CASE CloneOrFetch(t)
  BY <1>1, <1>4, AdvanceCarries, FailCarries DEF CloneOrFetch, CarrierPcs, WorkerPcs
<1>5. CASE StartSidecarDatabase(t)
  BY <1>1, <1>5, AdvanceCarries, FailCarries DEF StartSidecarDatabase, CarrierPcs, WorkerPcs
<1>6. CASE ResolveRuntime(t)
  BY <1>1, <1>6, AdvanceCarries, FailCarries
     DEF ResolveRuntime, CarrierPcs, WorkerPcs, EndsAreReported
<1>7. CASE RemoveOldContainer(t)
  BY <1>1, <1>7, AdvanceCarries DEF RemoveOldContainer, dbVars, CarrierPcs, WorkerPcs
<1>8. CASE CreateContainer(t)
  BY <1>1, <1>8, AdvanceCarries, FailCarries DEF CreateContainer, CarrierPcs, WorkerPcs
<1>9. CASE PollHealth(t)
  BY <1>1, <1>9, AdvanceCarries, FailCarries DEF PollHealth, CarrierPcs, WorkerPcs
<1>10. CASE MarkRunning(t)
  <2>1. \A e \in Envs : Building(e)' => Building(e) /\ e # task[t].env
    BY <1>10 DEF MarkRunning, Building, Exists, Owning, Inv, RowInv
  <2> QED BY <1>1, <1>2, <2>1, EndCarries
<1>11. CASE Acknowledge(t)
  <2>1. ~ (task[t].pc \in CarrierPcs)
    BY <1>11 DEF Acknowledge, CarrierPcs, WorkerPcs
  <2>2. \A e : TaskCarries(e) => TaskCarries(e)'
    BY <1>2, <2>1 DEF TaskCarries
  <2> QED BY <1>1, <1>11, <2>2 DEF Acknowledge, dbVars, Owning, BuildingIsCarried, Building,
                                   Exists, Carried, TaskCarries
<1>12. CASE RecoverLease(t)
  <2>1. ~ (task[t].pc \in CarrierPcs)
    BY <1>12 DEF RecoverLease, CarrierPcs, WorkerPcs
  <2>2. \A e : TaskCarries(e) => TaskCarries(e)'
    BY <1>2, <2>1 DEF TaskCarries
  <2> QED BY <1>1, <1>12, <2>2 DEF RecoverLease, dbVars, Owning, BuildingIsCarried, Building,
                                   Exists, Carried, TaskCarries
<1> QED BY <1>3, <1>4, <1>5, <1>6, <1>7, <1>8, <1>9, <1>10, <1>11, <1>12 DEF WorkerStep

\* A request may stop carrying the build of its environment when that has ended.
LEMMA ProcCarriesOn ==
  ASSUME Owning, NEW p \in Procs, NEW request, proc' = [proc EXCEPT ![p] = request],
         UNCHANGED <<up, task>>,
         \A e \in Envs : Building(e)' =>
            \/ request.env = e /\ request.pc \in {"enqueue", "rollback"}
            \/ /\ Building(e)
               /\ proc[p].env = e => proc[p].pc \notin {"enqueue", "rollback"}
  PROVE  BuildingIsCarried'
<1>1. \A q \in Procs : proc'[q] = IF q = p THEN request ELSE proc[q]
  BY DEF Owning, Inv, ProcInv
<1>2. SUFFICES ASSUME NEW e \in Envs, Building(e)', up
               PROVE  Carried(e)'
  BY DEF BuildingIsCarried, Carried
<1>3. CASE request.env = e /\ request.pc \in {"enqueue", "rollback"}
  BY <1>1, <1>3 DEF Carried
<1>4. CASE Building(e) /\ (proc[p].env = e => proc[p].pc \notin {"enqueue", "rollback"})
  <2>1. Carried(e)
    BY <1>4 DEF Owning, BuildingIsCarried
  <2>2. CASE TaskCarries(e)
    BY <2>2 DEF TaskCarries, Carried
  <2>3. CASE ProcCarries(e)
    BY <2>3, <1>1, <1>4 DEF ProcCarries, Carried
  <2> QED BY <2>1, <2>2, <2>3, <1>2, CarriedSplit
<1> QED BY <1>2, <1>3, <1>4

\* What a request holds after a step.
LEMMA StepRequest ==
  ASSUME Owning, NEW p \in Procs, NEW pc, Step(p, pc)
  PROVE  \E request : /\ proc' = [proc EXCEPT ![p] = request]
                      /\ request.pc = pc
                      /\ request.env = proc[p].env /\ request.task = proc[p].task
<1> DEFINE request == [proc[p] EXCEPT !.pc = pc]
<1>1. proc' = [proc EXCEPT ![p] = request]
  BY DEF Step
<1>2. request.pc = pc /\ request.env = proc[p].env /\ request.task = proc[p].task
  BY DEF Owning, Inv, ProcInv, Requests
<1> HIDE DEF request
<1> QED BY <1>1, <1>2

\* What a request holds after its answer.
LEMMA ReturnRequest ==
  ASSUME NEW p \in Procs, Return(p)
  PROVE  \E request : proc' = [proc EXCEPT ![p] = request] /\ request.pc = "idle"
<1>1. NoRequest.pc = "idle"
  BY DEF NoRequest
<1> QED BY <1>1 DEF Return

\* The first access of a handler loses no build: Insert carries the one it starts.
LEMMA RequestOwns ==
  ASSUME EndsAreReported, Owning, NEW p \in Procs, NEW e \in Envs, Request(p, e)
  PROVE  BuildingIsCarried'
<1>1. ASSUME Insert(p, e), Receives(p, "create") \/ Receives(p, "fork")
      PROVE  BuildingIsCarried'
  <2>1. PICK request : /\ request.pc = "enqueue" /\ request.env = e /\ request.task = issued + 1
                       /\ proc' = [proc EXCEPT ![p] = request]
    BY <1>1 DEF Insert
  <2>2. proc[p].pc = "idle"
    BY <1>1 DEF Receives, NoRequest
  <2>3. \A x \in Envs : Building(x)' => x = e \/ Building(x)
    BY <1>1 DEF Insert, Building, Exists, Owning, Inv, RowInv
  <2> QED BY <1>1, <2>1, <2>2, <2>3, ProcCarriesOn DEF Insert
<1>2. CASE RestartRefused(p, e)
  BY <1>2, TouchKeeps, SameCarriers DEF RestartRefused, Owning
<1>3. CASE RestartRead(p, e)
  <2>1. PICK request : /\ request.pc = "restartApp" /\ request.task = issued + 1
                       /\ proc' = [proc EXCEPT ![p] = request]
    BY <1>3 DEF RestartRead
  <2>2. proc[p].pc = "idle"
    BY <1>3 DEF RestartRead, Receives, NoRequest
  <2>3. \A x \in Envs : Building(x)' => Building(x)
    BY <1>3, TouchKeeps DEF RestartRead, Owning
  <2> QED BY <1>3, <2>1, <2>2, <2>3, ProcCarriesOn DEF RestartRead
<1>4. CASE DeleteRead(p, e)
  <2>1. PICK request : request.pc = "deleteApp" /\ proc' = [proc EXCEPT ![p] = request]
    BY <1>4 DEF DeleteRead
  <2>2. proc[p].pc = "idle"
    BY <1>4 DEF DeleteRead, Receives, NoRequest
  <2> QED BY <1>4, <2>1, <2>2, ProcCarriesOn DEF DeleteRead, dbVars, Building, Exists
<1>5. ~GitRead(p, e)
  BY DEF GitRead, Receives, EndsAreReported
<1> QED BY <1>1, <1>2, <1>3, <1>4, <1>5 DEF Request, CreateEnvironment, ForkEnvironment

\* No later step of a handler loses a build: Enqueue hands it to the queue or keeps
\* it for the rollback, RollbackStatus and DeleteRow end it, RestartSave takes it up.
LEMMA HandlerOwns ==
  ASSUME Owning, NEW p \in Procs, HandlerStep(p)
  PROVE  BuildingIsCarried'
<1>1. CASE Enqueue(p)
  <2> DEFINE slot == proc[p].task
             stored == [env |-> proc[p].env, pc |-> "pending", retried |-> 0]
  <2>1. slot \in Tasks /\ task[slot].pc = "unused"
    BY <1>1, ReservedSlot DEF Enqueue, Reserving, Owning
  <2>2. PICK request : /\ proc' = [proc EXCEPT ![p] = request]
                       /\ request.pc \in {"idle", "rollback"}
                       /\ request.pc = "rollback" => request.env = proc[p].env
                       /\ request.pc = "idle" => task' = [task EXCEPT ![slot] = stored]
    <3>1. CASE Return(p) /\ task' = [task EXCEPT ![slot] = stored]
      BY <3>1, ReturnRequest
    <3>2. CASE Step(p, "rollback")
      BY <3>2, StepRequest
    <3> QED BY <1>1, <3>1, <3>2 DEF Enqueue
  <2>3. task' = task \/ task' = [task EXCEPT ![slot] = stored]
    BY <1>1 DEF Enqueue
  <2>4. \A q \in Procs : proc'[q] = IF q = p THEN request ELSE proc[q]
    BY <2>2 DEF Owning, Inv, ProcInv
  <2>5. \A u \in Tasks : task'[u] = task[u] \/ (u = slot /\ task'[u] = stored)
    BY <2>3 DEF Owning, Inv, TaskInv
  <2>6. up' = up /\ row' = row
    BY <1>1 DEF Enqueue, dbVars
  <2> SUFFICES ASSUME NEW e \in Envs, Building(e), up
               PROVE  Carried(e)'
    BY <2>6 DEF BuildingIsCarried, Carried, Building, Exists
  <2>7. Carried(e)
    BY DEF Owning, BuildingIsCarried
  <2>8. CASE TaskCarries(e)
    <3>1. PICK u \in Tasks : task[u].env = e /\ task[u].pc \in CarrierPcs
      BY <2>8 DEF TaskCarries
    <3>2. u # slot
      BY <2>1, <3>1 DEF CarrierPcs, WorkerPcs
    <3> QED BY <3>1, <3>2, <2>5 DEF Carried
  <2>9. ASSUME NEW q \in Procs, proc[q].env = e, proc[q].pc \in {"enqueue", "rollback"}
        PROVE  Carried(e)'
    <3>1. CASE q # p
      BY <2>9, <3>1, <2>4 DEF Carried
    <3>2. CASE q = p /\ request.pc = "rollback"
      BY <2>9, <3>2, <2>2, <2>4 DEF Carried
    <3>3. CASE q = p /\ request.pc = "idle"
      <4>1. task'[slot] = stored
        BY <3>3, <2>1, <2>2 DEF Owning, Inv, TaskInv
      <4> QED BY <2>9, <3>3, <4>1, <2>1 DEF Carried, CarrierPcs
    <3> QED BY <3>1, <3>2, <3>3, <2>2
  <2> QED BY <2>7, <2>8, <2>9, CarriedSplit DEF ProcCarries
<1>2. CASE RollbackStatus(p)
  <2>1. \A e \in Envs : Building(e)' => Building(e) /\ e # proc[p].env
    BY <1>2, UpdateEnds DEF RollbackStatus, Owning, Statuses
  <2> QED BY <1>2, <2>1, ReturnRequest, ProcCarriesOn DEF RollbackStatus
<1>3. CASE RestartSave(p)
  <2>1. PICK request : /\ proc' = [proc EXCEPT ![p] = request]
                       /\ request.pc = "enqueue" /\ request.env = proc[p].env
    <3> DEFINE new == [[proc[p] EXCEPT !.pc = "enqueue"] EXCEPT !.snap = NoRow]
    <3>1. proc' = [proc EXCEPT ![p] = new]
      BY <1>3 DEF RestartSave, Owning, Inv, ProcInv
    <3>2. new.pc = "enqueue" /\ new.env = proc[p].env
      BY DEF Owning, Inv, ProcInv, Requests
    <3> HIDE DEF new
    <3> QED BY <3>1, <3>2
  <2>2. \A e \in Envs : Building(e)' => Building(e) \/ e = proc[p].env
    BY <1>3 DEF RestartSave, Building, Exists, Owning, Inv, RowInv
  <2> QED BY <1>3, <2>1, <2>2, ProcCarriesOn DEF RestartSave
<1>4. ASSUME (\E pc : Step(p, pc)) \/ Return(p), proc[p].pc \notin {"enqueue", "rollback"},
             \A e \in Envs : Building(e)' => Building(e),
             UNCHANGED <<up, task>>
      PROVE  BuildingIsCarried'
  <2>1. PICK request : proc' = [proc EXCEPT ![p] = request]
    BY <1>4, StepRequest, ReturnRequest
  <2> QED BY <1>4, <2>1, ProcCarriesOn
<1>5. CASE RestartCleanupApp(p)
  BY <1>4, <1>5 DEF RestartCleanupApp, dbVars, Building, Exists
<1>6. CASE RestartCleanupDb(p)
  BY <1>4, <1>6 DEF RestartCleanupDb, dbVars, Building, Exists
<1>7. CASE DeleteCleanupApp(p)
  BY <1>4, <1>7 DEF DeleteCleanupApp, dbVars, Building, Exists
<1>8. CASE DeleteCleanupDb(p)
  BY <1>4, <1>8 DEF DeleteCleanupDb, dbVars, Building, Exists
<1>9. CASE DeletePurge(p)
  BY <1>4, <1>9 DEF DeletePurge, Building, Exists
<1>10. CASE DeleteRow(p)
  <2>1. \A e \in Envs : Building(e)' => Building(e)
    BY <1>10 DEF DeleteRow, Building, Exists, Owning, Inv, RowInv
  <2> QED BY <1>4, <1>10, <2>1 DEF DeleteRow
<1>11. CASE DeleteWorkspace(p)
  BY <1>4, <1>11 DEF DeleteWorkspace, dbVars, Building, Exists
<1>12. ~GitSave(p)
  BY DEF GitSave, Owning, NoGit
<1>13. CASE GitTouch(p)
  <2>1. proc[p].env \in Envs
    BY <1>13 DEF GitTouch, Owning, Inv, ProcInv
  <2>2. \A e \in Envs : Building(e)' => Building(e)
    BY <1>13, <2>1, TouchKeeps DEF GitTouch, Owning
  <2> QED BY <1>4, <1>13, <2>2 DEF GitTouch
<1> QED BY <1>1, <1>2, <1>3, <1>5, <1>6, <1>7, <1>8, <1>9, <1>10, <1>11, <1>12, <1>13
       DEF HandlerStep

\* Sweeps, reapers, touches, activities, time and Docker start no build.
LEMMA BackgroundOwns ==
  ASSUME Owning,
         \/ \E s \in Sweepers : SweepStep(s)
         \/ \E r \in Reapers : ReapStep(r)
         \/ \E e \in Envs : Touch(e) \/ RecordActivity(e) \/ GrowOld(e) \/ AppChanges(e)
  PROVE  BuildingIsCarried'
<1>1. UNCHANGED <<up, task, proc>>
  BY BackgroundKeeps
<1> DEFINE Keeps == \A e \in Envs : Building(e)' => Building(e)
<1>2. Keeps
  <2>1. CASE UNCHANGED row
    BY <2>1 DEF Building, Exists
  <2>2. ASSUME NEW s \in Sweepers, SweepStop(s) PROVE Keeps
    BY <2>2, UpdateEnds DEF SweepStop, Owning, Statuses
  <2>3. ASSUME NEW e \in Envs, Touch(e) PROVE Keeps
    BY <2>3, TouchKeeps DEF Touch, Owning
  <2>4. ASSUME NEW e \in Envs, GrowOld(e) PROVE Keeps
    BY <2>4 DEF GrowOld, Building, Exists, Owning, Inv, RowInv, Rows
  <2> QED BY <2>1, <2>2, <2>3, <2>4
     DEF SweepStep, SweepQuery, SweepApp, SweepDb, SweepWorkspace,
         ReapStep, ReapList, ReapDecide, ReapContainer, ReapWorkspace,
         RecordActivity, AppChanges, dbVars
<1> QED BY <1>1, <1>2, SameCarriers

\* A crash leaves the builds to the next boot, which ends them all.
LEMMA ProcessOwns ==
  ASSUME Owning, Crash \/ Shutdown \/ Boot
  PROVE  BuildingIsCarried'
<1>1. CASE Crash \/ Shutdown
  BY <1>1 DEF Crash, Shutdown, Halt, BuildingIsCarried, Carried
<1>2. CASE Boot
  <2>1. \A e \in Envs : ~Building(e)'
    BY <1>2 DEF Boot, Building, Exists, Owning, Inv, RowInv, Rows
  <2> QED BY <2>1 DEF BuildingIsCarried
<1> QED BY <1>1, <1>2

\* Initially nothing is BUILDING and nothing is reserved.
LEMMA OwningInit == Init => Owning
BY InitInv, SlotsInit DEF Init, Owning, NoGit, BuildingIsCarried, Building, Exists, NoRequest

\* The invariant is inductive.
LEMMA OwningNext ==
  ASSUME EndsAreReported
  PROVE  Owning /\ [Next]_vars => Owning'
<1> SUFFICES ASSUME Owning, [Next]_vars PROVE Owning'
  OBVIOUS
<1>1. Inv' /\ SlotsReserved'
  BY NextInv, SlotsNext DEF Owning
<1>2. NoGit'
  BY SwitchesHoldRows DEF Owning, NoGit, EndsAreReported
<1>3. ASSUME UNCHANGED vars PROVE BuildingIsCarried'
  BY <1>3, SameCarriers DEF vars, dbVars, Building, Exists, Owning
<1> QED
  BY <1>1, <1>2, <1>3, RequestOwns, HandlerOwns, WorkerOwns, BackgroundOwns, ProcessOwns DEF Next, Owning

\* Every build is carried by a request, a task or the next boot that is still to
\* write another status, no two requests hold one task, and none holds a task that
\* is stored already: what a request enqueues (handlers.go:379-380) takes nothing
\* away from another build.
THEOREM BuildsAreCarried ==
  ASSUME EndsAreReported
  PROVE  Spec => []OwnershipInv
<1>1. Owning => OwnershipInv
  BY Regroup DEF Owning, OwnershipInv, Inv
<1>2. Owning /\ [Next]_vars => Owning'
  BY OwningNext
<1> QED BY OwningInit, <1>1, <1>2, PTL DEF Spec

\* A row is BUILDING only while a request, a task or the next boot is going to end
\* that status: after failed enqueues, exhausted retries, crashes, lost leases and
\* overlapping builds (handlers.go:373-391, worker.go:41-290, main.go:39-51).
THEOREM BuildsAreOwned ==
  ASSUME EndsAreReported
  PROVE  Spec => []BuildingIsOwned
<1>1. Owning => BuildingIsOwned
  <2> SUFFICES ASSUME Owning, NEW e \in Envs, Building(e) PROVE Owned(e)
    BY DEF BuildingIsOwned
  <2>1. Carried(e)
    BY DEF Owning, BuildingIsCarried
  <2> QED BY <2>1 DEF Carried, Owned, Unsettled, CarrierPcs, WorkerPcs
<1>2. Owning /\ [Next]_vars => Owning'
  BY OwningNext
<1> QED BY OwningInit, <1>1, <1>2, PTL DEF Spec
=============================================================================
