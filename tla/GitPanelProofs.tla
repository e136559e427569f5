---------------------------- MODULE GitPanelProofs ----------------------------
(*****************************************************************************)
(* Nothing that the commit modal, the branch picker and the pull button do   *)
(* loses a commit of a branch or an edit the user was not asked about, with  *)
(* any set of edits.                                                         *)
(*****************************************************************************)
EXTENDS GitPanel, TLAPS

Checkouts == [stage : {"idle", "sent", "asking"}, ref : Refs, force : BOOLEAN]

\* HEAD is on a branch there is or on none, and a branch that is not there
\* holds nothing; what is checked out was listed.
RepoInv ==
    /\ tree \subseteq Edits
    /\ Main \in exists /\ head \in exists \cup {Detached}
    /\ exists \subseteq Branches /\ upstream \subseteq Branches /\ published \subseteq Branches
    /\ head # Detached => at = {}
    /\ local \in [Branches -> SUBSET Commits] /\ remote \in [Branches -> SUBSET Commits]
    /\ \A b \in Branches \ exists : local[b] = {}
    /\ checkout.ref.remote \/ checkout.ref.branch \in exists
    /\ checkout \in Checkouts
    /\ at \subseteq Commits /\ origin \in [Branches -> SUBSET Commits]
    /\ creating \in Branches \cup {Detached}

LEMMA NotDetached == Detached \notin Branches
BY GitAssumption DEF Branches

LEMMA NoCheckoutFacts ==
  NoCheckout \in Checkouts /\ NoCheckout.ref.branch = Main
BY DEF NoCheckout, Checkouts, Refs, Branches

LEMMA RepoInit == GitInit => RepoInv
BY NoCheckoutFacts DEF GitInit, RepoInv, Branches

\* SetHead with commits the panel knows.
LEMMA HeadIsSet ==
  ASSUME RepoInv, NEW commits \in SUBSET Commits, SetHead(commits)
  PROVE  /\ local' \in [Branches -> SUBSET Commits] /\ at' \subseteq Commits
         /\ head # Detached => local' = [local EXCEPT ![head] = commits] /\ at' = at
         /\ head = Detached => at' = commits /\ local' = local
         /\ \A b \in Branches \ exists : local'[b] = {}
BY NotDetached DEF RepoInv, SetHead

LEMMA HeadCommitsKnown ==
  ASSUME RepoInv
  PROVE  HeadCommits \subseteq Commits /\ tree \subseteq Commits
BY NotDetached DEF RepoInv, HeadCommits, Commits

-----------------------------------------------------------------------------
LEMMA CommitKeeps ==
  ASSUME RepoInv, CommitStep
  PROVE  RepoInv'
<1>1. CASE ServeCommit
  <2>1. Committed \in SUBSET Commits
    BY HeadCommitsKnown DEF Committed
  <2>2. SetHead(Committed) /\ tree' = {}
        /\ UNCHANGED <<head, origin, remote, refs, pickerVars, statusVars>>
    BY <1>1 DEF ServeCommit
  <2> QED
    BY <2>1, <2>2, HeadIsSet DEF RepoInv, refs, pickerVars
<1>2. CASE CommitDone \/ CommitLost \/ PushRefused
  <2>1. UNCHANGED <<repo, pickerVars>>
    BY <1>2 DEF CommitDone, CommitLost, PushRefused
  <2> QED
    BY <2>1 DEF RepoInv, repo, refs, pickerVars
<1>3. CASE PushAccepted
  <2>1. head \in Branches /\ head \in exists
    BY <1>3, NotDetached DEF RepoInv, PushAccepted
  <2>2. /\ remote' = [remote EXCEPT ![head] = local[head]]
        /\ origin' = [origin EXCEPT ![head] = local[head]]
        /\ upstream' = upstream \cup {head} /\ published' = published \cup {head}
        /\ UNCHANGED <<tree, head, at, local, exists, pickerVars>>
    BY <1>3 DEF PushAccepted
  <2>3. local[head] \in SUBSET Commits
    BY <2>1 DEF RepoInv
  <2> QED
    BY <2>1, <2>2, <2>3 DEF RepoInv, pickerVars
<1> QED
  BY <1>1, <1>2, <1>3 DEF CommitStep

LEMMA CheckoutKeeps ==
  ASSUME RepoInv, CheckoutStep
  PROVE  RepoInv'
<1>1. CASE CheckedOut
  <2>1. /\ tree' = {} /\ checkout' = NoCheckout
        /\ UNCHANGED <<local, origin, remote, exists, upstream, published, creating>>
        /\ MoveTo(checkout.ref)
    BY <1>1 DEF CheckedOut, refs
  <2>2. head' \in exists \cup {Detached} /\ at' \subseteq Commits /\ (head' # Detached => at' = {})
    <3>1. checkout.ref \in Refs
      BY DEF RepoInv, Checkouts
    <3> QED
      BY <2>1, <3>1, NotDetached DEF MoveTo, RepoInv, Refs
  <2> QED
    BY <2>1, <2>2, NoCheckoutFacts DEF RepoInv
<1>2. CASE AskForce \/ CheckoutFails \/ \E yes \in BOOLEAN : AnswerForce(yes)
  <2>1. UNCHANGED <<repo, creating>>
    BY <1>2 DEF AskForce, CheckoutFails, AnswerForce
  <2>2. (checkout' \in Checkouts /\ checkout'.ref = checkout.ref) \/ checkout' = NoCheckout
    <3>1. checkout \in Checkouts
      BY DEF RepoInv
    <3>2. checkout' = [checkout EXCEPT !.stage = "asking"] \/ checkout' = NoCheckout
            \/ checkout' = [checkout EXCEPT !.stage = "sent", !.force = TRUE]
      BY <1>2 DEF AskForce, CheckoutFails, AnswerForce
    <3> QED
      BY <3>1, <3>2 DEF Checkouts
  <2> QED
    BY <2>1, <2>2, NoCheckoutFacts DEF RepoInv, repo, refs
<1> QED
  BY <1>1, <1>2 DEF CheckoutStep

LEMMA CreateKeeps ==
  ASSUME RepoInv, CreateStep
  PROVE  RepoInv'
<1>1. CASE BranchCreated
  <2>1. creating \in Branches /\ creating # Detached
    BY <1>1 DEF BranchCreated, RepoInv
  <2>2. /\ exists' = exists \cup {creating}
        /\ local' = [local EXCEPT ![creating] = HeadCommits]
        /\ head' = creating /\ at' = {} /\ creating' = Detached
        /\ UNCHANGED <<tree, origin, upstream, published, remote, checkout>>
    BY <1>1 DEF BranchCreated
  <2> QED
    BY <2>1, <2>2, HeadCommitsKnown DEF RepoInv
<1>2. CASE BranchNotCreated
  BY <1>2 DEF BranchNotCreated, RepoInv, repo, refs
<1> QED
  BY <1>1, <1>2 DEF CreateStep

LEMMA PullKeeps ==
  ASSUME RepoInv, PullStep
  PROVE  RepoInv'
<1>1. ASSUME NEW merged \in BOOLEAN, Pulled(merged) PROVE RepoInv'
  <2>1. origin' = remote /\ UNCHANGED <<tree, head, exists, upstream, published, remote, pickerVars>>
    BY <1>1 DEF Pulled
  <2>2. CASE merged /\ head \in upstream
    <3>1. SetHead(HeadCommits \cup remote[head])
      BY <1>1, <2>2 DEF Pulled
    <3>2. HeadCommits \cup remote[head] \in SUBSET Commits
      BY <2>2, HeadCommitsKnown DEF RepoInv
    <3> QED
      BY <2>1, <3>1, <3>2, HeadIsSet DEF RepoInv, pickerVars
  <2>3. CASE UNCHANGED <<at, local>>
    BY <2>1, <2>3 DEF RepoInv, pickerVars
  <2> QED
    BY <1>1, <2>2, <2>3 DEF Pulled
<1>2. CASE PullFails
  BY <1>2 DEF PullFails, RepoInv, repo, refs, pickerVars
<1> QED
  BY <1>1, <1>2 DEF PullStep

LEMMA OthersKeep ==
  ASSUME RepoInv, ForeignPush \/ RestartResets \/ \E e \in Edits : MemberSaves(e)
  PROVE  RepoInv'
<1>1. CASE ForeignPush
  <2>1. remote' = [remote EXCEPT ![Main] = @ \cup {Foreign}]
        /\ UNCHANGED <<tree, head, at, local, origin, refs, pickerVars>>
    BY <1>1 DEF ForeignPush
  <2>2. Foreign \in Commits /\ Main \in Branches
    BY DEF Commits, Branches
  <2> QED
    BY <2>1, <2>2 DEF RepoInv, refs, pickerVars
<1>2. CASE RestartResets
  <2>1. head \in Branches /\ head \in exists
    BY <1>2 DEF RepoInv, RestartResets
  <2>2. tree' = {} /\ UNCHANGED <<head, at, exists, upstream, published, remote, pickerVars>>
    BY <1>2 DEF RestartResets
  <2>3. origin' \in [Branches -> SUBSET Commits]
    <3>1. \A b \in Branches : origin[b] \in SUBSET Commits /\ remote[b] \in SUBSET Commits
      BY DEF RepoInv
    <3>2. PICK F : origin' = [b \in Branches |-> IF b \in F THEN remote[b] ELSE origin[b]]
      BY <1>2 DEF RestartResets
    <3> QED
      BY <3>1, <3>2
  <2>4. PICK b \in Branches : local' = [local EXCEPT ![head] = remote[b]]
    BY <1>2, <2>1 DEF RestartResets, RepoInv
  <2>5. local' \in [Branches -> SUBSET Commits]
    BY <2>4 DEF RepoInv
  <2>6. \A c \in Branches \ exists' : local'[c] = {}
    BY <2>1, <2>2, <2>4 DEF RepoInv
  <2> QED
    BY <2>1, <2>2, <2>3, <2>5, <2>6 DEF RepoInv, pickerVars
<1>3. ASSUME NEW e \in Edits, MemberSaves(e) PROVE RepoInv'
  BY <1>3 DEF MemberSaves, RepoInv, refs, pickerVars
<1> QED
  BY <1>1, <1>2, <1>3

LEMMA RepoStep ==
  ASSUME RepoInv, [GitNext]_GitVars
  PROVE  RepoInv'
<1>1. ASSUME NEW ref \in Refs, HandleCheckout(ref) PROVE RepoInv'
  BY <1>1 DEF HandleCheckout, ListedRefs, Checkouts, RepoInv, repo, refs
<1>2. ASSUME NEW b \in Branches, HandleCreateBranch(b) PROVE RepoInv'
  BY <1>2 DEF HandleCreateBranch, RepoInv, repo, refs
<1>3. CASE HandleToggle \/ PollStatus \/ HandlePull \/ UNCHANGED GitVars
           \/ \E push \in BOOLEAN : HandleCommit(push)
  <2>1. UNCHANGED <<repo, checkout, creating>>
    BY <1>3 DEF HandleToggle, PollStatus, HandlePull, HandleCommit, GitVars, pickerVars
  <2> QED
    BY <2>1 DEF RepoInv, repo, refs
<1> QED
  BY <1>1, <1>2, <1>3, CommitKeeps, CheckoutKeeps, CreateKeeps, PullKeeps, OthersKeep DEF GitNext

-----------------------------------------------------------------------------
(* What a step may lose.                                                     *)

LEMMA StepKeepsCommits ==
  ASSUME RepoInv, GitNext
  PROVE  Reachable \subseteq Reachable' \/ RestartResets \/ head = Detached
<1> SUFFICES ASSUME ~RestartResets, head # Detached PROVE Reachable \subseteq Reachable'
  OBVIOUS
<1>0. head \in Branches /\ at = {}
  BY DEF RepoInv
<1> DEFINE Grows == \A b \in Branches : local[b] \cup remote[b] \subseteq local'[b] \cup remote'[b]
<1>1. Grows => Reachable \subseteq Reachable'
  BY <1>0 DEF Reachable
<1>2. UNCHANGED <<local, remote>> => Grows
  OBVIOUS
<1> HIDE DEF Grows
<1>3. CASE CommitStep
  <2>1. CASE ServeCommit
    <3>1. SetHead(Committed) /\ UNCHANGED remote
      BY <2>1 DEF ServeCommit
    <3>2. local' = [local EXCEPT ![head] = local[head] \cup tree]
      BY <3>1 DEF SetHead, Committed, HeadCommits
    <3> QED
      BY <1>0, <1>1, <3>1, <3>2 DEF Grows, RepoInv
  <2>2. CASE PushAccepted
    <3>1. /\ remote' = [remote EXCEPT ![head] = local[head]]
          /\ remote[head] \subseteq local[head] /\ UNCHANGED local
      BY <2>2 DEF PushAccepted
    <3> QED
      BY <1>0, <1>1, <3>1 DEF Grows, RepoInv
  <2>3. CASE CommitDone \/ CommitLost \/ PushRefused
    BY <2>3, <1>1, <1>2 DEF CommitDone, CommitLost, PushRefused, repo
  <2> QED
    BY <1>3, <2>1, <2>2, <2>3 DEF CommitStep
<1>4. CASE CheckoutStep
  BY <1>4, <1>1, <1>2 DEF CheckoutStep, CheckedOut, AskForce, CheckoutFails, AnswerForce, repo
<1>5. CASE CreateStep
  <2>1. CASE BranchCreated
    <3>1. /\ creating \in Branches \ exists /\ UNCHANGED remote
          /\ local' = [local EXCEPT ![creating] = HeadCommits]
      BY <2>1 DEF BranchCreated, RepoInv
    <3>2. local[creating] = {}
      BY <3>1 DEF RepoInv
    <3> QED
      BY <1>1, <3>1, <3>2 DEF Grows, RepoInv
  <2>2. CASE BranchNotCreated
    BY <2>2, <1>1, <1>2 DEF BranchNotCreated, repo
  <2> QED
    BY <1>5, <2>1, <2>2 DEF CreateStep
<1>6. CASE PullStep
  <2>1. ASSUME NEW merged \in BOOLEAN, Pulled(merged) PROVE Grows
    <3>1. UNCHANGED remote
      BY <2>1 DEF Pulled
    <3>2. UNCHANGED local \/ local' = [local EXCEPT ![head] = local[head] \cup remote[head]]
      BY <2>1 DEF Pulled, SetHead, HeadCommits
    <3> QED
      BY <1>0, <3>1, <3>2 DEF Grows, RepoInv
  <2>2. CASE PullFails
    BY <2>2, <1>1, <1>2 DEF PullFails, repo
  <2> QED
    BY <1>1, <1>6, <2>1, <2>2 DEF PullStep
<1>7. CASE ForeignPush
  <2>1. remote' = [remote EXCEPT ![Main] = remote[Main] \cup {Foreign}] /\ UNCHANGED local
    BY <1>7 DEF ForeignPush
  <2> QED
    BY <1>1, <2>1 DEF Grows, RepoInv
<1>8. ASSUME NEW e \in Edits, MemberSaves(e) PROVE Grows
  BY <1>2, <1>8 DEF MemberSaves
<1>9. CASE HandleToggle \/ PollStatus \/ HandlePull
           \/ (\E push \in BOOLEAN : HandleCommit(push))
           \/ (\E ref \in Refs : HandleCheckout(ref)) \/ \E b \in Branches : HandleCreateBranch(b)
  BY <1>9, <1>1, <1>2 DEF HandleToggle, PollStatus, HandlePull, HandleCommit, HandleCheckout,
                          HandleCreateBranch, repo
<1> QED
  BY <1>1, <1>3, <1>4, <1>5, <1>6, <1>7, <1>8, <1>9 DEF GitNext

LEMMA StepKeepsEdits ==
  ASSUME RepoInv, GitNext
  PROVE  tree \subseteq tree' \cup Reachable' \/ RestartResets \/ checkout.force
<1>1. CASE ServeCommit
  <2>1. SetHead(Committed) /\ tree \subseteq Committed
    BY <1>1 DEF ServeCommit, Committed
  <2>2. CASE head = Detached
    BY <2>1, <2>2 DEF SetHead, Reachable
  <2>3. CASE head # Detached
    <3>1. head \in Branches /\ local'[head] = Committed
      BY <2>1, <2>3 DEF SetHead, RepoInv
    <3> QED
      BY <2>1, <3>1 DEF Reachable
  <2> QED
    BY <2>2, <2>3
<1>2. CASE CheckedOut
  BY <1>2 DEF CheckedOut
<1>3. ASSUME NEW e \in Edits, MemberSaves(e) PROVE tree \subseteq tree'
  BY <1>3 DEF MemberSaves
<1>4. CASE CommitStep \/ CheckoutStep \/ CreateStep \/ PullStep \/ ForeignPush
  BY <1>1, <1>2, <1>4 DEF CommitStep, CommitDone, CommitLost, PushAccepted, PushRefused,
       CheckoutStep, AskForce, CheckoutFails, AnswerForce, CreateStep, BranchCreated,
       BranchNotCreated, PullStep, Pulled, PullFails, ForeignPush, repo
<1>5. CASE HandleToggle \/ PollStatus \/ HandlePull
           \/ (\E push \in BOOLEAN : HandleCommit(push))
           \/ (\E ref \in Refs : HandleCheckout(ref)) \/ \E b \in Branches : HandleCreateBranch(b)
  BY <1>5 DEF HandleToggle, PollStatus, HandlePull, HandleCommit, HandleCheckout,
              HandleCreateBranch, repo
<1> QED
  BY <1>3, <1>4, <1>5 DEF GitNext

-----------------------------------------------------------------------------
LEMMA RepoAlways == GitSpec => []RepoInv
BY RepoInit, RepoStep, PTL DEF GitSpec

\* No use of the modal, the picker and the pull button, in any order, makes a
\* commit of a branch unreachable (GitUI.tsx).
THEOREM NoCommitIsLost == GitSpec => CommitsSurvive
<1>1. RepoInv /\ [GitNext]_GitVars
        => [Reachable \subseteq Reachable' \/ RestartResets \/ head = Detached]_GitVars
  BY StepKeepsCommits
<1> QED
  BY <1>1, RepoAlways, PTL DEF GitSpec, CommitsSurvive

\* Nor an edit of the tree, but by a checkout the user was asked about or a
\* restart.
THEOREM NoEditIsLostUnasked == GitSpec => EditsLeaveTreeOnRequest
<1>1. RepoInv /\ [GitNext]_GitVars
        => [tree \subseteq tree' \cup Reachable' \/ RestartResets \/ checkout.force]_GitVars
  BY StepKeepsEdits
<1> QED
  BY <1>1, RepoAlways, PTL DEF GitSpec, EditsLeaveTreeOnRequest

-----------------------------------------------------------------------------
(* What the handlers of the page wait for.                                   *)

\* The variables of the panel that RepoInv leaves out, and the branches that are
\* tracked; a push is under way only after the commit of the same click.
Flows == [stage : Stages, push : BOOLEAN, ok : BOOLEAN]
PanelInv ==
    /\ flow \in Flows /\ PushFollowsCommit
    /\ open \in BOOLEAN /\ pulling \in BOOLEAN
    /\ status \in [dirty : BOOLEAN, behind : BOOLEAN]
    /\ tracked \subseteq Branches

LEMMA NoFlowFacts == NoFlow \in Flows /\ NoFlow.stage = "idle"
BY DEF NoFlow, Flows, Stages

LEMMA PanelInit == GitInit => PanelInv
<1> SUFFICES ASSUME GitInit PROVE PanelInv
  OBVIOUS
<1>1. flow \in Flows /\ PushFollowsCommit
  BY NoFlowFacts DEF GitInit, PushFollowsCommit
<1>2. open \in BOOLEAN /\ pulling \in BOOLEAN /\ tracked \subseteq Branches
  BY DEF GitInit, Branches
<1>3. status \in [dirty : BOOLEAN, behind : BOOLEAN]
  BY DEF GitInit
<1> QED
  BY <1>1, <1>2, <1>3 DEF PanelInv

LEMMA PanelCommit ==
  ASSUME RepoInv, PanelInv, CommitStep
  PROVE  PanelInv'
<1>1. CASE ServeCommit
  <2>1. flow' \in Flows /\ flow'.stage = "committed"
    BY <1>1 DEF ServeCommit, PanelInv, Flows, Stages
  <2> QED
    BY <1>1, <2>1 DEF ServeCommit, PanelInv, PushFollowsCommit, refs, pickerVars, statusVars
<1>2. CASE CommitDone
  <2>1. flow' \in Flows /\ (flow'.stage = "pushing" => flow'.push /\ flow'.ok)
    BY <1>2, NoFlowFacts DEF CommitDone, PanelInv, Flows, Stages
  <2> QED
    BY <1>2, <2>1 DEF CommitDone, PanelInv, PushFollowsCommit, repo, refs, pickerVars, statusVars
<1>3. CASE CommitLost \/ PushRefused
  <2>1. flow' = NoFlow /\ UNCHANGED <<repo, pickerVars, statusVars>>
    BY <1>3 DEF CommitLost, PushRefused
  <2> QED
    BY <2>1, NoFlowFacts DEF PanelInv, PushFollowsCommit, repo, refs, pickerVars, statusVars
<1>4. CASE PushAccepted
  <2>1. /\ flow' = NoFlow /\ UNCHANGED <<pickerVars, statusVars>>
        /\ tracked' = tracked \cup {head} /\ head \in Branches
    BY <1>4 DEF PushAccepted, RepoInv
  <2> QED
    BY <2>1, NoFlowFacts DEF PanelInv, PushFollowsCommit, pickerVars, statusVars
<1> QED
  BY <1>1, <1>2, <1>3, <1>4 DEF CommitStep

LEMMA StatusKnown == StatusNow \in [dirty : BOOLEAN, behind : BOOLEAN]
BY DEF StatusNow

LEMMA PanelStep ==
  ASSUME RepoInv, PanelInv, [GitNext]_GitVars
  PROVE  PanelInv'
<1> USE DEF PanelInv, PushFollowsCommit
<1>1. ASSUME NEW push \in BOOLEAN, HandleCommit(push) PROVE PanelInv'
  <2>1. flow' \in Flows /\ flow'.stage = "committing"
    BY <1>1 DEF HandleCommit, Flows, Stages
  <2> QED
    BY <1>1, <2>1 DEF HandleCommit, repo, refs, pickerVars, statusVars
<1>2. CASE CheckoutStep \/ CreateStep \/ HandleToggle
  <2>1. UNCHANGED <<flow, statusVars, tracked>> /\ open' \in BOOLEAN
    BY <1>2 DEF CheckoutStep, CheckedOut, AskForce, CheckoutFails, AnswerForce, CreateStep,
                BranchCreated, BranchNotCreated, HandleToggle, repo, refs
  <2> QED
    BY <2>1 DEF statusVars
<1>3. CASE PullStep
  <2>1. /\ tracked' \in {tracked, published} /\ pulling' = FALSE
        /\ UNCHANGED <<flow, pickerVars, status>>
    BY <1>3 DEF PullStep, Pulled, PullFails, repo, refs
  <2> QED
    BY <2>1 DEF pickerVars, RepoInv
<1>4. CASE RestartResets
  <2>1. PICK fetched \in SUBSET Branches : tracked' = tracked \cup fetched
    <3>1. \E fetched : fetched \in {{head}, published} /\ tracked' = tracked \cup fetched
      BY <1>4 DEF RestartResets
    <3>2. {head} \subseteq Branches /\ published \subseteq Branches
      BY <1>4 DEF RestartResets, RepoInv
    <3> QED
      BY <3>1, <3>2
  <2> QED
    BY <1>4, <2>1 DEF RestartResets, pickerVars, statusVars
<1>5. CASE PollStatus \/ HandlePull
  BY <1>5, StatusKnown DEF PollStatus, HandlePull, repo, refs, pickerVars
<1>6. CASE UNCHANGED <<flow, open, statusVars, tracked>>
  BY <1>6 DEF statusVars
<1>7. ASSUME NEW e \in Edits, MemberSaves(e) PROVE PanelInv'
  BY <1>6, <1>7 DEF MemberSaves, refs, pickerVars
<1>8. CASE ForeignPush
  BY <1>6, <1>8 DEF ForeignPush, refs, pickerVars
<1>9. ASSUME NEW ref \in Refs, HandleCheckout(ref) PROVE PanelInv'
  BY <1>6, <1>9 DEF HandleCheckout, repo, refs
<1>10. ASSUME NEW b \in Branches, HandleCreateBranch(b) PROVE PanelInv'
  BY <1>6, <1>10 DEF HandleCreateBranch, repo, refs
<1>11. CASE UNCHANGED GitVars
  BY <1>6, <1>11 DEF GitVars, repo, refs, pickerVars
<1> QED
  BY <1>1, <1>2, <1>3, <1>4, <1>5, <1>7, <1>8, <1>9, <1>10, <1>11, PanelCommit DEF GitNext

LEMMA PanelAlways == GitSpec => [](RepoInv /\ PanelInv)
<1>1. RepoInv /\ PanelInv /\ [GitNext]_GitVars => (RepoInv /\ PanelInv)'
  BY RepoStep, PanelStep
<1> QED
  BY <1>1, RepoInit, PanelInit, PTL DEF GitSpec

\* Every variable of the panel keeps its type: HEAD and what is checked out are
\* always branches the repository knows, in whatever order requests and other
\* members' commands are served.
THEOREM GitPanelTypes == GitSpec => []GitTypeOK
<1>1. RepoInv /\ PanelInv => GitTypeOK
  BY DEF RepoInv, PanelInv, GitTypeOK, Flows, Checkouts
<1> QED
  BY <1>1, PanelAlways, PTL

\* "Commit & Push" pushes only after the commit of the same click has succeeded
\* (page.tsx:178-238), whatever else is under way.
THEOREM NothingIsPushedUncommitted == GitSpec => []PushFollowsCommit
<1>1. PanelInv => PushFollowsCommit
  BY DEF PanelInv
<1> QED
  BY <1>1, PanelAlways, PTL

-----------------------------------------------------------------------------
(* GitHub.                                                                   *)

RemoteGrows == \A b \in Branches : remote[b] \subseteq remote'[b]

\* The panel never pushes with force (git.go:859): if others do not either
\* (ForeignPush), a branch on GitHub keeps every commit it has had.
LEMMA StepKeepsRemote ==
  ASSUME RepoInv, [GitNext]_GitVars
  PROVE  RemoteGrows
<1> USE DEF RemoteGrows
<1>1. CASE UNCHANGED remote
  BY <1>1
<1>2. CASE PushAccepted
  BY <1>2 DEF PushAccepted, RepoInv
<1>3. CASE ForeignPush
  BY <1>3 DEF ForeignPush, RepoInv
<1>4. CASE CommitStep
  BY <1>1, <1>2, <1>4 DEF CommitStep, ServeCommit, CommitDone, CommitLost, PushRefused, repo
<1>5. CASE CheckoutStep \/ CreateStep \/ PullStep \/ RestartResets
  BY <1>1, <1>5 DEF CheckoutStep, CheckedOut, AskForce, CheckoutFails, AnswerForce, CreateStep,
       BranchCreated, BranchNotCreated, PullStep, Pulled, PullFails, RestartResets, repo
<1>6. CASE \/ HandleToggle \/ PollStatus \/ HandlePull \/ UNCHANGED GitVars
           \/ \E push \in BOOLEAN : HandleCommit(push)
           \/ \E e \in Edits : MemberSaves(e)
           \/ \E ref \in Refs : HandleCheckout(ref)
           \/ \E b \in Branches : HandleCreateBranch(b)
  BY <1>1, <1>6 DEF HandleToggle, PollStatus, HandlePull, HandleCommit, MemberSaves,
       HandleCheckout, HandleCreateBranch, GitVars, repo
<1> QED
  BY <1>3, <1>4, <1>5, <1>6 DEF GitNext

\* What the workspace knows of a branch on GitHub is there, and a branch that is
\* tracked is one that is there.
TrackingInv ==
    /\ \A b \in Branches : origin[b] \subseteq remote[b]
    /\ tracked \subseteq published

LEMMA TrackingStep ==
  ASSUME RepoInv, TrackingInv, [GitNext]_GitVars
  PROVE  TrackingInv'
<1>0. \A b \in Branches : remote[b] \subseteq remote'[b]
  BY StepKeepsRemote DEF RemoteGrows
<1>1. CASE UNCHANGED <<origin, tracked, published>>
  BY <1>0, <1>1 DEF TrackingInv
<1>2. CASE PushAccepted
  <2>1. /\ head \in Branches
        /\ remote' = [remote EXCEPT ![head] = local[head]]
        /\ origin' = [origin EXCEPT ![head] = local[head]]
        /\ tracked' = tracked \cup {head} /\ published' = published \cup {head}
    BY <1>2 DEF PushAccepted, RepoInv
  <2> QED
    BY <2>1 DEF TrackingInv, RepoInv
<1>3. CASE PullStep
  BY <1>1, <1>3 DEF PullStep, Pulled, PullFails, TrackingInv, repo, refs
<1>4. CASE RestartResets
  <2>1. PICK fetched : /\ fetched \subseteq published
                       /\ origin' = [b \in Branches |-> IF b \in fetched THEN remote[b] ELSE origin[b]]
                       /\ tracked' = tracked \cup fetched
    BY <1>4 DEF RestartResets
  <2> QED
    BY <1>4, <2>1 DEF RestartResets, TrackingInv
<1>5. CASE CommitStep
  BY <1>1, <1>2, <1>5 DEF CommitStep, ServeCommit, CommitDone, CommitLost, PushRefused, repo, refs
<1>6. CASE CheckoutStep \/ CreateStep \/ ForeignPush
  BY <1>1, <1>6 DEF CheckoutStep, CheckedOut, AskForce, CheckoutFails, AnswerForce, CreateStep,
       BranchCreated, BranchNotCreated, ForeignPush, repo, refs
<1>7. CASE \/ HandleToggle \/ PollStatus \/ HandlePull \/ UNCHANGED GitVars
           \/ \E push \in BOOLEAN : HandleCommit(push)
           \/ \E e \in Edits : MemberSaves(e)
           \/ \E ref \in Refs : HandleCheckout(ref)
           \/ \E b \in Branches : HandleCreateBranch(b)
  BY <1>1, <1>7 DEF HandleToggle, PollStatus, HandlePull, HandleCommit, MemberSaves,
       HandleCheckout, HandleCreateBranch, GitVars, repo, refs
<1> QED
  BY <1>3, <1>4, <1>5, <1>6, <1>7 DEF GitNext

\* The remote-tracking branches, which the picker offers and the panel compares
\* HEAD with ("behind"), exist on GitHub and hold only commits that are there,
\* because branches there only grow: pushes are not forced, and neither a pull nor
\* a restart (git.go:373-396, docker_engine.go:83) takes from them.
THEOREM TrackingIsSound ==
  GitSpec => []TrackingInv /\ [][RemoteGrows]_GitVars
<1>1. GitInit => TrackingInv
  BY DEF GitInit, TrackingInv, Branches
<1>2. RepoInv /\ TrackingInv /\ [GitNext]_GitVars => TrackingInv'
  BY TrackingStep
<1>3. RepoInv /\ [GitNext]_GitVars => [RemoteGrows]_GitVars
  BY StepKeepsRemote
<1> QED
  BY <1>1, <1>2, <1>3, RepoAlways, PTL DEF GitSpec

=============================================================================
