------------------------------- MODULE GitPanel -------------------------------
(*****************************************************************************)
(* The git controls of an environment's page (components/GitUI.tsx with the  *)
(* commit and push handlers of page.tsx) over the repository in the          *)
(* workspace, which other members edit at the same time, and its remote.     *)
(*                                                                           *)
(* A commit is one of Edits, or Foreign: one that others pushed to the       *)
(* remote.  A branch is the set of commits it holds.  One handler of each    *)
(* kind runs at a time: its buttons are disabled meanwhile.                  *)
(*****************************************************************************)
EXTENDS Naturals

CONSTANTS
    Edits,      \* pieces of work saved into the workspace
    Foreign,    \* a commit of somebody else on the remote
    Main, Feat, \* the branch that was cloned, and another one
    Detached    \* HEAD is on no branch

ASSUME GitAssumption ==
    Foreign \notin Edits /\ Main # Feat /\ Detached \notin {Main, Feat}

Branches == {Main, Feat}
Commits == Edits \cup {Foreign}
Refs == [remote : BOOLEAN, branch : Branches]   \* "feat" or "origin/feat"

VARIABLES
    \* the repository and its remote
    tree,      \* edits in the working tree, not committed
    head,      \* HEAD
    at,        \* what a detached HEAD holds
    local,     \* local branches: branch -> commits
    exists,    \* the local branches there are
    origin,    \* remote-tracking branches: branch -> commits
    tracked,   \* the remote-tracking branches there are
    upstream,  \* the local branches that have one as upstream
    remote,    \* the branches on GitHub: branch -> commits
    published, \* the branches there are on GitHub
    \* the commit modal and its handlers
    flow,      \* [stage, push, ok]: what handleCommit and handlePush wait for
    \* the branch picker
    open,      \* the picker is open
    checkout,  \* [stage, ref, force]: what handleCheckout waits for
    creating,  \* the name handleCreateBranch waits for, or Detached
    \* the status panel
    status,    \* [dirty, behind]: the last answer of SWR
    pulling    \* isPulling

refs == <<exists, tracked, upstream, published>>
repo == <<tree, head, at, local, origin, remote, refs>>
pickerVars == <<open, checkout, creating>>
statusVars == <<status, pulling>>
GitVars == <<repo, flow, pickerVars, statusVars>>

Stages == {"idle", "committing", "committed", "pushing"}

NoFlow == [stage |-> "idle", push |-> FALSE, ok |-> FALSE]
NoCheckout == [stage |-> "idle", ref |-> [remote |-> FALSE, branch |-> Main], force |-> FALSE]

GitTypeOK ==
    /\ tree \subseteq Edits
    /\ head \in Branches \cup {Detached}
    /\ at \subseteq Commits
    /\ {local, origin, remote} \subseteq [Branches -> SUBSET Commits]
    /\ exists \cup tracked \cup upstream \cup published \subseteq Branches
    /\ flow \in [stage : Stages, push : BOOLEAN, ok : BOOLEAN]
    /\ open \in BOOLEAN
    /\ checkout \in [stage : {"idle", "sent", "asking"}, ref : Refs, force : BOOLEAN]
    /\ creating \in Branches \cup {Detached}
    /\ status \in [dirty : BOOLEAN, behind : BOOLEAN]
    /\ pulling \in BOOLEAN

GitInit ==
    /\ tree = {} /\ head = Main /\ at = {}
    /\ local = [b \in Branches |-> {}] /\ exists = {Main} /\ tracked = {Main} /\ upstream = {Main}
    /\ origin = [b \in Branches |-> {}] /\ remote = origin /\ published \in {{Main}, Branches}
    /\ flow = NoFlow
    /\ open = FALSE
    /\ checkout = NoCheckout
    /\ creating = Detached
    /\ status = [dirty |-> FALSE, behind |-> FALSE]
    /\ pulling = FALSE

-----------------------------------------------------------------------------
(* What the commands of git do to the repository.                            *)

HeadCommits == IF head = Detached THEN at ELSE local[head]

SetHead(commits) ==
    IF head = Detached
      THEN at' = commits /\ UNCHANGED local
      ELSE local' = [local EXCEPT ![head] = commits] /\ UNCHANGED at

Committed == HeadCommits \cup tree

\* git checkout of a branch, or of a remote-tracking branch: no branch then.
MoveTo(ref) ==
    IF ref.remote
      THEN head' = Detached /\ at' = origin[ref.branch]
      ELSE head' = ref.branch /\ at' = {}

\* git branch -a
ListedRefs == {r \in Refs : r.branch \in IF r.remote THEN tracked ELSE exists}

\* git status and git rev-list HEAD...@{u}: nothing fetches before them.
StatusNow ==
    [dirty |-> tree # {},
     behind |-> head \in upstream /\ ~(origin[head] \subseteq HeadCommits)]

-----------------------------------------------------------------------------
(* Other members and the remote.                                             *)

MemberSaves(e) ==
    /\ e \notin tree \cup at \cup UNION {local[b] \cup remote[b] : b \in Branches}
    /\ tree' = tree \cup {e}
    /\ UNCHANGED <<head, at, local, origin, remote, refs, flow, pickerVars, statusVars>>

ForeignPush ==
    /\ Foreign \notin remote[Main]
    /\ remote' = [remote EXCEPT ![Main] = @ \cup {Foreign}]
    /\ UNCHANGED <<tree, head, at, local, origin, refs, flow, pickerVars, statusVars>>

-----------------------------------------------------------------------------
(* The commit modal.                                                         *)

\* The user has opened the modal and written a message that is not blank.
CommitEnabled == flow.stage = "idle"

\* "Commit Only" and "Commit & Push".
HandleCommit(push) ==
    /\ CommitEnabled
    /\ flow' = [stage |-> "committing", push |-> push, ok |-> FALSE]
    /\ UNCHANGED <<repo, pickerVars, statusVars>>

\* CommitChanges: `git commit` fails when there is nothing to commit.
ServeCommit ==
    /\ flow.stage = "committing"
    /\ flow' = [flow EXCEPT !.stage = "committed", !.ok = tree # {}]
    /\ SetHead(Committed)
    /\ tree' = {}
    /\ UNCHANGED <<head, origin, remote, refs, pickerVars, statusVars>>

\* Mutant: the error of the commit is not thrown again.
CommitDoneAnyway ==
    /\ flow.stage = "committed"
    /\ flow' = IF flow.push THEN [flow EXCEPT !.stage = "pushing"] ELSE NoFlow
    /\ UNCHANGED <<repo, pickerVars, statusVars>>

\* The answer: handleCommit rethrows an error, so that no push follows.
CommitDone ==
    /\ flow.stage = "committed"
    /\ flow' = IF flow.ok /\ flow.push THEN [flow EXCEPT !.stage = "pushing"] ELSE NoFlow
    /\ UNCHANGED <<repo, pickerVars, statusVars>>

\* The answer is lost, or the request was.
CommitLost ==
    /\ flow.stage \in {"committing", "committed"}
    /\ flow' = NoFlow
    /\ UNCHANGED <<repo, pickerVars, statusVars>>

\* Mutant: a detached HEAD is pushed like a branch.
PushAcceptedAnyHead ==
    /\ flow.stage = "pushing"
    /\ head # Detached => remote[head] \subseteq local[head]
    /\ remote' = [remote EXCEPT ![head] = HeadCommits]
    /\ origin' = [origin EXCEPT ![head] = HeadCommits]
    /\ tracked' = tracked \cup {head} /\ upstream' = upstream \cup {head}
    /\ published' = published \cup {head}
    /\ flow' = NoFlow
    /\ UNCHANGED <<tree, head, at, local, exists, pickerVars, statusVars>>

\* PushChanges: git push -u origin HEAD.
PushAccepted ==
    /\ flow.stage = "pushing"
    /\ head # Detached
    /\ remote[head] \subseteq local[head]
    /\ remote' = [remote EXCEPT ![head] = local[head]]
    /\ origin' = [origin EXCEPT ![head] = local[head]]
    /\ tracked' = tracked \cup {head} /\ upstream' = upstream \cup {head}
    /\ published' = published \cup {head}
    /\ flow' = NoFlow
    /\ UNCHANGED <<tree, head, at, local, exists, pickerVars, statusVars>>

\* The remote has commits the branch does not have, HEAD is on no branch, or
\* the user has no token for GitHub.
PushRefused ==
    /\ flow.stage = "pushing"
    /\ flow' = NoFlow
    /\ UNCHANGED <<repo, pickerVars, statusVars>>

-----------------------------------------------------------------------------
(* The branch picker.                                                        *)

\* Opening it fetches the list.  A branch is never removed, so that an old list
\* offers nothing that is gone; the branch the page takes for the current one,
\* which it does not offer, may be old as well.
HandleToggle ==
    /\ checkout.stage # "asking"
    /\ open' = ~open
    /\ UNCHANGED <<repo, flow, checkout, creating, statusVars>>

HandleCheckout(ref) ==
    /\ open /\ ref \in ListedRefs
    /\ checkout.stage = "idle"
    /\ checkout' = [stage |-> "sent", ref |-> ref, force |-> FALSE]
    /\ UNCHANGED <<repo, flow, open, creating, statusVars>>

\* Mutant: always with force.
CheckedOutWithForce ==
    /\ checkout.stage = "sent"
    /\ MoveTo(checkout.ref)
    /\ tree' = {}
    /\ checkout' = NoCheckout
    /\ open' = FALSE
    /\ UNCHANGED <<local, origin, remote, refs, flow, creating, statusVars>>

\* GitCheckout, and the end of the handler.  A request without force is
\* refused while the tree is dirty; the page then asks.
CheckedOut ==
    /\ checkout.stage = "sent"
    /\ checkout.force \/ tree = {}
    /\ MoveTo(checkout.ref)
    /\ tree' = {}
    /\ checkout' = NoCheckout
    /\ open' = FALSE
    /\ UNCHANGED <<local, origin, remote, refs, flow, creating, statusVars>>

AskForce ==
    /\ checkout.stage = "sent" /\ ~checkout.force /\ tree # {}
    /\ checkout' = [checkout EXCEPT !.stage = "asking"]
    /\ UNCHANGED <<repo, flow, open, creating, statusVars>>

AnswerForce(yes) ==
    /\ checkout.stage = "asking"
    /\ checkout' = IF yes THEN [checkout EXCEPT !.stage = "sent", !.force = TRUE] ELSE NoCheckout
    /\ UNCHANGED <<repo, flow, open, creating, statusVars>>

CheckoutFails ==
    /\ checkout.stage = "sent"
    /\ checkout' = NoCheckout
    /\ UNCHANGED <<repo, flow, open, creating, statusVars>>

HandleCreateBranch(b) ==
    /\ open /\ creating = Detached
    /\ creating' = b
    /\ UNCHANGED <<repo, flow, open, checkout, statusVars>>

\* Mutant: git checkout -B, which moves a branch that exists.
BranchReset ==
    /\ creating # Detached
    /\ exists' = exists \cup {creating}
    /\ local' = [local EXCEPT ![creating] = HeadCommits]
    /\ head' = creating /\ at' = {}
    /\ creating' = Detached
    /\ open' = FALSE
    /\ UNCHANGED <<tree, origin, tracked, upstream, published, remote, flow, checkout, statusVars>>

\* git checkout -b: the tree and the commits of HEAD come along.
BranchCreated ==
    /\ creating # Detached
    /\ creating \notin exists
    /\ exists' = exists \cup {creating}
    /\ local' = [local EXCEPT ![creating] = HeadCommits]
    /\ head' = creating /\ at' = {}
    /\ creating' = Detached
    /\ open' = FALSE
    /\ UNCHANGED <<tree, origin, tracked, upstream, published, remote, flow, checkout, statusVars>>

\* Mutant: after an error the name stays.
BranchNotCreatedStays ==
    /\ creating # Detached
    /\ UNCHANGED GitVars

BranchNotCreated ==
    /\ creating # Detached
    /\ creating' = Detached
    /\ UNCHANGED <<repo, flow, open, checkout, statusVars>>

-----------------------------------------------------------------------------
(* The status panel.                                                         *)

PollStatus ==
    /\ status' = StatusNow
    /\ status' # status
    /\ UNCHANGED <<repo, flow, pickerVars, pulling>>

PullEnabled == ~pulling /\ status.behind /\ ~status.dirty

HandlePull ==
    /\ PullEnabled
    /\ pulling' = TRUE
    /\ UNCHANGED <<repo, flow, pickerVars, status>>

\* git pull fetches, then merges; a dirty tree or diverged branches may stop
\* it after the fetch.
Pulled(merged) ==
    /\ pulling
    /\ pulling' = FALSE
    /\ origin' = remote /\ tracked' = published
    /\ IF merged /\ head \in upstream
         THEN SetHead(HeadCommits \cup remote[head])
         ELSE UNCHANGED <<at, local>>
    /\ UNCHANGED <<tree, head, exists, upstream, published, remote, flow, pickerVars, status>>

PullFails ==
    /\ pulling
    /\ pulling' = FALSE
    /\ UNCHANGED <<repo, flow, pickerVars, status>>

\* A build fetches the branch of the row and resets it to the remote one; of a
\* branch that is not on GitHub it fetches all, and resets it to some other
\* (CloneOrFetch).  Of a detached HEAD the row says "HEAD", and the build fails.
RestartResets ==
    /\ head # Detached
    /\ LET fetched == IF head \in published THEN {head} ELSE published IN
       /\ origin' = [b \in Branches |-> IF b \in fetched THEN remote[b] ELSE origin[b]]
       /\ tracked' = tracked \cup fetched
       /\ \E b \in fetched : local' = [local EXCEPT ![head] = remote[b]]
    /\ tree' = {}
    /\ UNCHANGED <<head, at, exists, upstream, published, remote, flow, pickerVars, statusVars>>

-----------------------------------------------------------------------------
CommitStep == ServeCommit \/ CommitDone \/ CommitLost \/ PushAccepted \/ PushRefused
CheckoutStep == CheckedOut \/ AskForce \/ CheckoutFails \/ \E yes \in BOOLEAN : AnswerForce(yes)
CreateStep == BranchCreated \/ BranchNotCreated
PullStep == PullFails \/ \E merged \in BOOLEAN : Pulled(merged)

GitNext ==
    \/ \E e \in Edits : MemberSaves(e)
    \/ ForeignPush \/ RestartResets
    \/ \E push \in BOOLEAN : HandleCommit(push)
    \/ CommitStep
    \/ HandleToggle
    \/ \E ref \in Refs : HandleCheckout(ref)
    \/ CheckoutStep
    \/ \E b \in Branches : HandleCreateBranch(b)
    \/ CreateStep
    \/ PollStatus  \/ HandlePull \/ PullStep

\* Requests end, with an answer or an error, a question is answered, and SWR
\* polls.
GitSpec ==
    /\ GitInit /\ [][GitNext]_GitVars
    /\ WF_GitVars(CommitStep) /\ WF_GitVars(CheckoutStep)
    /\ WF_GitVars(CreateStep) /\ WF_GitVars(PullStep)
    /\ WF_GitVars(PollStatus)

-----------------------------------------------------------------------------
\* "Commit & Push" pushes only what the same click has committed: after a
\* commit that failed, or whose answer was lost, nothing is pushed
\* (page.tsx:178-238, "Re-throw to prevent pushing if commit failed").
PushFollowsCommit == flow.stage = "pushing" => flow.push /\ flow.ok

\* A commit disappears from the workspace and from GitHub only by a restart,
\* or when HEAD leaves a commit that is on no branch: no use of the modal, the
\* picker and the pull button, in any order, loses one (GitUI.tsx).
Reachable == at \cup UNION {local[b] \cup remote[b] : b \in Branches}
CommitsSurvive == [][Reachable \subseteq Reachable' \/ RestartResets \/ head = Detached]_GitVars

\* The tree loses an edit only to a commit, to a restart, or to a checkout the
\* user was asked about: the first request of the picker never has force.
EditsLeaveTreeOnRequest ==
    [][tree \subseteq tree' \cup Reachable' \/ RestartResets \/ checkout.force]_GitVars

\* Whatever fails, the buttons come back: committing, pushing, checking out,
\* creating a branch and pulling end.
GitButtonsComeBack ==
    /\ flow.stage # "idle" ~> flow.stage = "idle"
    /\ checkout.stage # "idle" ~> checkout.stage = "idle"
    /\ creating # Detached ~> creating = Detached
    /\ pulling ~> ~pulling

=============================================================================
