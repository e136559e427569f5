------------------------------ MODULE Workspace ------------------------------
(***************************************************************************)
(* The workspace of one environment: the files on disk, its git            *)
(* repository, the container that runs it, and the requests of api/files.go*)
(* and api/git.go that change them side by side, with the goroutine that a *)
(* save leaves behind.  Nothing in the backend guards the directory; all   *)
(* there is are git's own index lock, which makes the second of two git    *)
(* commands fail, and git's refusal to overwrite what is not committed.    *)
(***************************************************************************)
EXTENDS Naturals

CONSTANTS
    Files,
    Branches,
    Main,        \* the branch of the first clone
    Requests,    \* requests (and builds) that may be under way together
    Handlers,    \* what users do
    MaxSteps,    \* bound: what users do
    Nil

AllHandlers == {"save", "create", "delete", "commit", "checkout", "branch",
                "pull", "push", "others", "rebuild"}

ASSUME WorkspaceAssumption ==
    /\ Main \in Branches /\ Handlers \subseteq AllHandlers /\ MaxSteps \in Nat
    /\ Nil \notin Files \cup Branches \cup Requests \cup Nat
    /\ Nil \notin [Files -> Nat]

\* What is written in a step is told by its number; 0 stands for an absent file.
Empty     == MaxSteps + 1
Contents  == 0..Empty
Snapshots == [Files -> Contents]

VARIABLES
    disk,      \* the working tree
    index,     \* what is staged
    tip, past, \* the last commit of a branch, Nil if there is none; all its commits
    branch,    \* the branch that is checked out
    recorded,  \* environments.github_branch
    remote, shared,  \* tip and past in the remote repository
    lock,      \* the request whose git command holds .git/index.lock
    req,       \* requests
    app,       \* the container: its phase, and whether its process has seen the tree
    step,      \* how many things users have done
    kept       \* history: what a user saved last and has not discarded since

repository == <<tip, past, branch>>
github     == <<remote, shared>>
vars == <<disk, index, repository, recorded, github, lock, req, app, step, kept>>

\* Places where a request runs a git command that takes the index lock.
GitSteps == {"stage", "add_all", "commit", "checkout", "branch", "pull", "reset"}
Events   == {"ready", "failed"}
Pcs      == {"idle", "touch", "poll", "status", "verify", "save_row"} \cup GitSteps \cup Events
Phases   == {"serving", "restarting", "down", "gone"}

RequestType ==
    [pc : Pcs, file : Files \cup {Nil}, to : Branches \cup {Nil},
     force : BOOLEAN, waits : BOOLEAN]

Idle == [pc |-> "idle", file |-> Nil, to |-> Nil, force |-> FALSE, waits |-> FALSE]

TypeOK ==
    /\ disk \in Snapshots /\ index \in Snapshots
    /\ tip \in [Branches -> Snapshots \cup {Nil}]
    /\ past \in [Branches -> SUBSET Snapshots]
    /\ branch \in Branches /\ recorded \in Branches
    /\ remote \in [Branches -> Snapshots \cup {Nil}]
    /\ shared \in [Branches -> SUBSET Snapshots]
    /\ lock \in Requests \cup {Nil}
    /\ req \in [Requests -> RequestType]
    /\ app \in [phase : Phases, current : BOOLEAN]
    /\ step \in 0..MaxSteps
    /\ kept \in [Files -> (Contents \ {0}) \cup {Nil}]

\* After the clone of an empty repository and the first start.
Init ==
    LET empty == [f \in Files |-> 0]
    IN /\ disk = empty /\ index = empty
       /\ tip = [b \in Branches |-> IF b = Main THEN empty ELSE Nil]
       /\ past = [b \in Branches |-> IF b = Main THEN {empty} ELSE {}]
       /\ remote = tip /\ shared = past
       /\ branch = Main /\ recorded = Main
       /\ lock = Nil
       /\ req = [r \in Requests |-> Idle]
       /\ app = [phase |-> "serving", current |-> TRUE]
       /\ step = 0
       /\ kept = [f \in Files |-> Nil]

-----------------------------------------------------------------------------
(* Requests and git commands.                                              *)

User(h) == h \in Handlers /\ step < MaxSteps /\ step' = step + 1

Begin(h, r, fields) ==
    /\ User(h)
    /\ req[r].pc = "idle"
    /\ req' = [req EXCEPT ![r] = fields]

Goto(r, pc) == req' = [req EXCEPT ![r].pc = pc]
End(r)      == req' = [req EXCEPT ![r] = Idle]

\* A git command starts: it creates .git/index.lock.
Lock(r) ==
    /\ req[r].pc \in GitSteps
    /\ lock = Nil
    /\ lock' = r
    /\ UNCHANGED <<disk, index, repository, recorded, github, req, app, step, kept>>

\* After the git add of a save: its goroutine goes on to wait for the reload, or ends.
Staged(r) == IF req[r].waits THEN Goto(r, "poll") ELSE End(r)

\* It fails: it finds the lock of another, or refuses, or something else is wrong
\* (git add does not refuse).  The save and the commit do not look at the result
\* of git add; every other request answers with an error.
Fail(r) ==
    /\ req[r].pc \in GitSteps
    /\ lock # Nil
    /\ lock = r => req[r].pc \notin {"stage", "add_all"}
    /\ lock' = IF lock = r THEN Nil ELSE lock
    /\ CASE req[r].pc = "stage" -> Staged(r)
         [] req[r].pc = "add_all" -> Goto(r, "commit")
         [] OTHER -> End(r)
    /\ UNCHANGED <<disk, index, repository, recorded, github, app, step, kept>>

\* A command at pc that holds the lock ends, and gives it up.
Runs(r, pc) == req[r].pc = pc /\ lock = r /\ lock' = Nil

\* The process has not seen a tree that changes.
Unseen == app' = [app EXCEPT !.current = @ /\ disk' = disk]

Clean(f) == disk[f] = index[f] /\ index[f] = tip[branch][f]

\* What git has to touch to go from the branch that is checked out to another commit.
Differing(target) ==
    {f \in Files : target[f] \notin {tip[branch][f], index[f]}}

\* git refuses to overwrite files with changes, and carries the others along.
SwitchTo(target) ==
    LET moved(tree) == [f \in Files |-> IF f \in Differing(target) THEN target[f]
                                                                   ELSE tree[f]]
    IN /\ \A f \in Differing(target) : Clean(f)
       /\ disk' = moved(disk)
       /\ index' = moved(index)
       /\ Unseen

\* checkout -f and reset --hard: only untracked files stay.
Overwrite(target) ==
    /\ disk' = [f \in Files |-> IF index[f] = 0 /\ target[f] = 0 THEN disk[f] ELSE target[f]]
    /\ index' = target
    /\ Unseen

Committed(f) == \E b \in Branches : \E s \in past[b] : s[f] = kept[f]

\* What a user has asked to lose by overwriting files: all but the safe ones.
Discard(safe) ==
    kept' = [f \in Files |-> IF disk'[f] = kept[f] \/ f \in safe THEN kept[f] ELSE Nil]

-----------------------------------------------------------------------------
(* Files.                                                                  *)

Put(f, content, saved) ==
    /\ disk' = [disk EXCEPT ![f] = content]
    /\ kept' = [kept EXCEPT ![f] = saved]
    /\ Unseen

\* UpdateWorkspaceFileContent: access, then the write, before anything else.
Save(r, f) ==
    /\ Begin("save", r, [Idle EXCEPT !.pc = "touch", !.file = f])
    /\ Put(f, step', step')
    /\ UNCHANGED <<index, repository, recorded, github, lock>>

\* The touch is sent when the row, read earlier, says RUNNING; it fails without a
\* container, or after two seconds.  Without a port there will be no poll.  The
\* container's touch creates a file that has been deleted since.
Touch(r) ==
    /\ req[r].pc = "touch"
    /\ \E sent, polls \in BOOLEAN :
         /\ sent => app.phase # "gone"
         /\ polls => sent
         /\ disk' = IF sent /\ disk[req[r].file] = 0 THEN [disk EXCEPT ![req[r].file] = Empty]
                                                   ELSE disk
         /\ req' = [req EXCEPT ![r].pc = "stage", ![r].waits = polls]
    /\ Unseen
    /\ UNCHANGED <<index, repository, recorded, github, lock, step, kept>>

\* The goroutine of the save: git add, the row, the activity, the broadcast.
Stage(r) ==
    /\ Runs(r, "stage")
    /\ index' = [index EXCEPT ![req[r].file] = disk[req[r].file]]
    /\ Staged(r)
    /\ UNCHANGED <<disk, repository, recorded, github, app, step, kept>>

Answer(r, event) ==
    /\ req[r].pc = "poll"
    /\ Goto(r, event)
    /\ UNCHANGED <<disk, index, repository, recorded, github, lock, app, step, kept>>

\* WaitForAppReady takes every answer but 502: also that of the process that has
\* not noticed the change yet, and Traefik's 404 when there is no container.
Ready(r) == app.phase \in {"serving", "gone"} /\ Answer(r, "ready")

\* Ten seconds have passed.
TimeOut(r) == Answer(r, "failed")

Done(r) ==
    /\ req[r].pc \in Events
    /\ End(r)
    /\ UNCHANGED <<disk, index, repository, recorded, github, lock, app, step, kept>>

\* CreateWorkspaceFileOrFolder: an empty file, unless there is one.
Create(f) ==
    /\ User("create")
    /\ disk[f] = 0
    /\ Put(f, Empty, Empty)
    /\ UNCHANGED <<index, repository, recorded, github, lock, req>>

\* DeleteWorkspaceFileOrFolder.
Delete(f) ==
    /\ User("delete")
    /\ disk[f] # 0
    /\ Put(f, 0, Nil)
    /\ UNCHANGED <<index, repository, recorded, github, lock, req>>

-----------------------------------------------------------------------------
(* Commits and branches.                                                   *)

CommitChanges(r) ==
    /\ Begin("commit", r, [Idle EXCEPT !.pc = "add_all"])
    /\ UNCHANGED <<disk, index, repository, recorded, github, lock, app, kept>>

AddAll(r) ==
    /\ Runs(r, "add_all")
    /\ index' = disk
    /\ Goto(r, "commit")
    /\ UNCHANGED <<disk, repository, recorded, github, app, step, kept>>

\* With nothing staged git refuses.
Commit(r) ==
    /\ Runs(r, "commit")
    /\ index # tip[branch]
    /\ tip' = [tip EXCEPT ![branch] = index]
    /\ past' = [past EXCEPT ![branch] = @ \cup {index}]
    /\ End(r)
    /\ UNCHANGED <<disk, index, branch, recorded, github, app, step, kept>>

GitBranch(r, b) ==
    /\ Begin("branch", r, [Idle EXCEPT !.pc = "branch", !.to = b])
    /\ UNCHANGED <<disk, index, repository, recorded, github, lock, app, kept>>

CheckOutNew(r) ==
    LET b == req[r].to IN
    /\ Runs(r, "branch")
    /\ tip[b] = Nil
    /\ tip' = [tip EXCEPT ![b] = tip[branch]]
    /\ past' = [past EXCEPT ![b] = past[branch]]
    /\ branch' = b
    /\ Goto(r, "save_row")
    /\ UNCHANGED <<disk, index, recorded, github, app, step, kept>>

GitCheckout(r, b, force) ==
    /\ Begin("checkout", r, [Idle EXCEPT !.pc = IF force THEN "checkout" ELSE "status",
                                         !.to = b, !.force = force])
    /\ UNCHANGED <<disk, index, repository, recorded, github, lock, app, kept>>

\* A dirty tree is refused; files may still change before the checkout.
CheckStatus(r) ==
    /\ req[r].pc = "status"
    /\ IF \A f \in Files : Clean(f) THEN Goto(r, "checkout") ELSE End(r)
    /\ UNCHANGED <<disk, index, repository, recorded, github, lock, app, step, kept>>

CheckOutTo(r, b) ==
    /\ Runs(r, "checkout")
    /\ tip[b] # Nil
    /\ branch' = b
    /\ Goto(r, "verify")
    /\ UNCHANGED <<tip, past, recorded, github, step>>

\* Mutation: the tree was found clean, so the checkout may as well be forced.
CheckOutForced(r) ==
    LET b == req[r].to IN
    /\ CheckOutTo(r, b)
    /\ Overwrite(tip[b])
    /\ IF req[r].force THEN Discard({f \in Files : Committed(f)}) ELSE UNCHANGED kept

CheckOut(r) ==
    LET b == req[r].to IN
    /\ CheckOutTo(r, b)
    /\ IF req[r].force
         THEN Overwrite(tip[b]) /\ Discard({f \in Files : Committed(f)})
         ELSE SwitchTo(tip[b]) /\ UNCHANGED kept

\* git rev-parse --abbrev-ref HEAD: another request may have switched since.
VerifyAs(r, name) ==
    /\ req[r].pc = "verify"
    /\ req' = [req EXCEPT ![r].pc = "save_row", ![r].to = name]
    /\ UNCHANGED <<disk, index, repository, recorded, github, lock, app, step, kept>>

\* Mutation: without --abbrev-ref git names the commit.
VerifyCommit(r) == VerifyAs(r, tip[branch])

Verify(r) == VerifyAs(r, branch)

\* The new branch, or the one that was found, is written with the whole row.
SaveRow(r) ==
    /\ req[r].pc = "save_row"
    /\ recorded' = req[r].to
    /\ End(r)
    /\ UNCHANGED <<disk, index, repository, github, lock, app, step, kept>>

-----------------------------------------------------------------------------
(* The remote repository.  Commits are told apart by what they contain.    *)

GitPull(r) ==
    /\ Begin("pull", r, [Idle EXCEPT !.pc = "pull"])
    /\ UNCHANGED <<disk, index, repository, recorded, github, lock, app, kept>>

\* git pull moves the branch forward, or refuses when it has commits of its own.
Pull(r) ==
    LET target == remote[branch] IN
    /\ Runs(r, "pull")
    /\ target # Nil
    /\ tip[branch] \in shared[branch]
    /\ SwitchTo(target)
    /\ tip' = [tip EXCEPT ![branch] = target]
    /\ past' = [past EXCEPT ![branch] = @ \cup shared[branch]]
    /\ End(r)
    /\ UNCHANGED <<branch, recorded, github, step, kept>>

\* git push takes no lock; it is refused when others have pushed.
PushChanges ==
    /\ User("push")
    /\ remote[branch] \in past[branch] \cup {Nil}
    /\ remote' = [remote EXCEPT ![branch] = tip[branch]]
    /\ shared' = [shared EXCEPT ![branch] = past[branch]]
    /\ UNCHANGED <<disk, index, repository, recorded, lock, req, app, kept>>

OthersPush(b, f) ==
    /\ User("others")
    /\ remote[b] # Nil
    /\ remote' = [remote EXCEPT ![b][f] = step']
    /\ shared' = [shared EXCEPT ![b] = @ \cup {remote'[b]}]
    /\ UNCHANGED <<disk, index, repository, recorded, lock, req, app, kept>>

\* A build (module Environments) finds the workspace: CloneOrFetch fetches the
\* branch of the row, the default branch when there is none, ...
Rebuild(r) ==
    /\ Begin("rebuild", r, [Idle EXCEPT !.pc = "reset", !.to = recorded])
    /\ UNCHANGED <<disk, index, repository, recorded, github, lock, app, kept>>

\* ... and resets whatever is checked out to it, with its commits.
ResetHard(r) ==
    LET b == IF remote[req[r].to] # Nil THEN req[r].to ELSE Main IN
    /\ Runs(r, "reset")
    /\ Overwrite(remote[b])
    /\ Discard({})
    /\ tip' = [tip EXCEPT ![branch] = remote[b]]
    /\ past' = [past EXCEPT ![branch] = shared[b]]
    /\ End(r)
    /\ UNCHANGED <<branch, recorded, github, step>>

-----------------------------------------------------------------------------
(* The container: a process that is restarted when its files change.       *)

Container(from, to, current) ==
    /\ app.phase \in from
    /\ app' = [phase |-> to, current |-> current]
    /\ UNCHANGED <<disk, index, repository, recorded, github, lock, req, step, kept>>

NoticeChange == ~app.current /\ Container({"serving", "down"}, "restarting", FALSE)
Restart == \E phase \in {"serving", "down"} : Container({"restarting"}, phase, TRUE)
Remove  == Container({"serving", "restarting", "down"}, "gone", FALSE)
Start   == Container({"gone"}, "restarting", FALSE)

SaveSteps(r)   == Touch(r) \/ Stage(r) \/ Ready(r) \/ TimeOut(r) \/ Done(r)
CommitSteps(r) == AddAll(r) \/ Commit(r)
BranchSteps(r) == CheckOutNew(r) \/ CheckStatus(r) \/ CheckOut(r) \/ Verify(r) \/ SaveRow(r)
Step(r) == Lock(r) \/ Fail(r) \/ SaveSteps(r) \/ CommitSteps(r) \/ BranchSteps(r)
             \/ Pull(r) \/ ResetHard(r)

Users ==
    \/ \E r \in Requests : \/ \E f \in Files : Save(r, f)
                           \/ CommitChanges(r) \/ GitPull(r) \/ Rebuild(r)
                           \/ \E b \in Branches : GitBranch(r, b)
                           \/ \E b \in Branches, force \in BOOLEAN : GitCheckout(r, b, force)
    \/ \E f \in Files : Create(f) \/ Delete(f)
    \/ PushChanges
    \/ \E b \in Branches, f \in Files : OthersPush(b, f)

Next ==
    \/ Users
    \/ \E r \in Requests : Step(r)
    \/ NoticeChange \/ Restart \/ Remove \/ Start

Spec == Init /\ [][Next]_vars

-----------------------------------------------------------------------------
(* Properties.                                                             *)

\* What a user has saved, and has not discarded by a deletion, a forced checkout or
\* a restart, is in the working tree or in a commit: the status check of GitCheckout
\* cannot ensure it, for files change after it (git.go, GitCheckout and CommitChanges).
EditsSurvive ==
    \A f \in Files : kept[f] # Nil => disk[f] = kept[f] \/ Committed(f)

=============================================================================
