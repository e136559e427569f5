--------------------------- MODULE WorkspaceProofs ---------------------------
(***************************************************************************)
(* No saved content is lost without the user's asking for it, for any      *)
(* number of files, branches and requests.                                 *)
(***************************************************************************)
EXTENDS Workspace, TLAPS

\* The commits of a branch include its last one, and there are none without it; the
\* branch that is checked out exists, and the remote repository has the default branch.
Heads ==
    /\ \A b \in Branches : IF tip[b] = Nil THEN past[b] = {} ELSE tip[b] \in past[b]
    /\ \A b \in Branches : remote[b] # Nil => remote[b] \in shared[b]
    /\ tip[branch] # Nil /\ remote[Main] # Nil

\* What a step of a request is about is known when the step is taken.
Targets ==
    \A r \in Requests :
      /\ req[r].pc \in {"touch", "stage"} => req[r].file \in Files
      /\ req[r].pc \in {"branch", "checkout", "status", "save_row", "reset"} =>
           req[r].to \in Branches

WInv == TypeOK /\ Heads /\ Targets /\ EditsSurvive

LEMMA NilIsNoSnapshot == Nil \notin Snapshots /\ Nil \notin Contents /\ Nil \notin Branches /\ Nil \notin Files
  BY WorkspaceAssumption DEF Snapshots, Contents, Empty

\* A user's step is counted, and its number is a content.
LEMMA Counted ==
  ASSUME NEW h, TypeOK, User(h)
  PROVE step + 1 \in Contents \ {0} /\ step' = step + 1 /\ step' \in 0..MaxSteps
  BY WorkspaceAssumption DEF User, TypeOK, Contents, Empty

\* A request that begins is well-formed.
LEMMA Beginning ==
  ASSUME NEW h, NEW r \in Requests, NEW fields \in RequestType, TypeOK, Begin(h, r, fields)
  PROVE /\ req' \in [Requests -> RequestType]
        /\ step' \in 0..MaxSteps
        /\ \A q \in Requests : req'[q] = IF q = r THEN fields ELSE req[q]
  BY Counted DEF Begin, TypeOK

LEMMA IdleType == Idle \in RequestType
  BY WorkspaceAssumption DEF Idle, RequestType, Pcs, Contents, Empty, GitSteps

\* So is one that goes on.
LEMMA Going ==
  ASSUME NEW r \in Requests, NEW pc \in Pcs, TypeOK, Goto(r, pc)
  PROVE /\ req' \in [Requests -> RequestType]
        /\ \A q \in Requests : q # r => req'[q] = req[q]
        /\ req'[r].pc = pc /\ req'[r].to = req[r].to /\ req'[r].file = req[r].file
  BY DEF Goto, TypeOK, RequestType

LEMMA Ending ==
  ASSUME NEW r \in Requests, TypeOK, End(r)
  PROVE /\ req' \in [Requests -> RequestType]
        /\ \A q \in Requests : q # r => req'[q] = req[q]
        /\ req'[r].pc = "idle"
  BY IdleType DEF End, TypeOK, Idle

\* Edits survive a step that forgets none, if commits stay and every file that
\* changes on disk held what is committed.
LEMMA Keeps ==
  ASSUME EditsSurvive, UNCHANGED kept,
         \A b \in Branches : past[b] \subseteq past'[b],
         \A f \in Files : disk'[f] = disk[f] \/ \E b \in Branches : \E s \in past'[b] : s[f] = disk[f]
  PROVE EditsSurvive'
<1> SUFFICES ASSUME NEW f \in Files, kept[f] # Nil PROVE disk'[f] = kept[f] \/ Committed(f)'
  BY DEF EditsSurvive
<1>1. CASE Committed(f)
  BY <1>1 DEF Committed
<1>2. CASE disk[f] = kept[f]
  BY <1>2 DEF Committed
<1> QED BY <1>1, <1>2 DEF EditsSurvive

\* A switch of branches replaces clean files only.
LEMMA Switching ==
  ASSUME TypeOK, Heads, NEW target \in Snapshots, SwitchTo(target)
  PROVE /\ disk' \in Snapshots /\ index' \in Snapshots
        /\ app' \in [phase : Phases, current : BOOLEAN]
        /\ \A f \in Files : disk'[f] = disk[f] \/ \E s \in past[branch] : s[f] = disk[f]
<1>1. tip[branch] \in past[branch]
  BY DEF Heads, TypeOK
<1>2. /\ disk' = [f \in Files |-> IF f \in Differing(target) THEN target[f] ELSE disk[f]]
      /\ index' = [f \in Files |-> IF f \in Differing(target) THEN target[f] ELSE index[f]]
      /\ \A f \in Differing(target) : disk[f] = tip[branch][f]
  BY DEF SwitchTo, Clean
<1>3. app' \in [phase : Phases, current : BOOLEAN]
  BY DEF SwitchTo, Unseen, TypeOK
<1>4. disk' \in Snapshots /\ index' \in Snapshots
  BY <1>2 DEF TypeOK, Snapshots
<1> QED BY <1>1, <1>2, <1>3, <1>4

LEMMA Overwriting ==
  ASSUME TypeOK, NEW target \in Snapshots, Overwrite(target), NEW safe, Discard(safe)
  PROVE /\ disk' \in Snapshots /\ index' \in Snapshots
        /\ app' \in [phase : Phases, current : BOOLEAN]
        /\ kept' \in [Files -> (Contents \ {0}) \cup {Nil}]
        /\ \A f \in Files : kept'[f] = Nil \/ disk'[f] = kept'[f]
                             \/ (f \in safe /\ kept'[f] = kept[f])
<1>1. disk' \in Snapshots /\ index' \in Snapshots
  BY DEF Overwrite, TypeOK, Snapshots
<1>2. app' \in [phase : Phases, current : BOOLEAN]
  BY DEF Overwrite, Unseen, TypeOK
<1>3. kept' = [f \in Files |-> IF disk'[f] = kept[f] \/ f \in safe THEN kept[f] ELSE Nil]
  BY DEF Discard
<1>4. kept' \in [Files -> (Contents \ {0}) \cup {Nil}]
  BY <1>3 DEF TypeOK
<1> QED BY <1>1, <1>2, <1>3, <1>4

\* A request moves on, and nothing that files, branches and edits depend on changes.
Quiet == UNCHANGED <<disk, index, repository, recorded, github, kept>>

LEMMA QuietStep ==
  ASSUME WInv, Quiet,
         req' \in [Requests -> RequestType], Targets',
         lock' \in Requests \cup {Nil},
         app' \in [phase : Phases, current : BOOLEAN],
         step' \in 0..MaxSteps
  PROVE WInv'
<1>1. TypeOK' /\ Heads'
  BY DEF WInv, Quiet, TypeOK, Heads, repository, github
<1>2. EditsSurvive'
  BY DEF WInv, Quiet, EditsSurvive, Committed, repository
<1> QED BY <1>1, <1>2 DEF WInv

\* A request begins: it knows its file or its branch.
LEMMA BeginStep ==
  ASSUME WInv, NEW r \in Requests,
         \/ CommitChanges(r) \/ GitPull(r) \/ Rebuild(r)
         \/ \E b \in Branches : GitBranch(r, b)
         \/ \E b \in Branches, force \in BOOLEAN : GitCheckout(r, b, force)
  PROVE WInv'
<1> DEFINE Well(fields) ==
      /\ fields \in RequestType /\ fields.pc \notin {"touch", "stage"}
      /\ fields.pc \in {"branch", "checkout", "status", "save_row", "reset"} => fields.to \in Branches
<1>1. PICK h, fields : Begin(h, r, fields) /\ Well(fields)
                       /\ UNCHANGED <<disk, index, repository, recorded, github, lock, app, kept>>
  <2> USE IdleType DEF Idle, RequestType, Pcs, GitSteps, WInv, TypeOK
  <2>1. CASE CommitChanges(r)
    BY <2>1 DEF CommitChanges
  <2>2. CASE GitPull(r)
    BY <2>2 DEF GitPull
  <2>3. CASE Rebuild(r)
    BY <2>3 DEF Rebuild
  <2>4. ASSUME NEW b \in Branches, GitBranch(r, b)
        PROVE \E h, fields : Begin(h, r, fields) /\ Well(fields)
                /\ UNCHANGED <<disk, index, repository, recorded, github, lock, app, kept>>
    BY <2>4 DEF GitBranch
  <2>5. ASSUME NEW b \in Branches, NEW force \in BOOLEAN, GitCheckout(r, b, force)
        PROVE \E h, fields : Begin(h, r, fields) /\ Well(fields)
                /\ UNCHANGED <<disk, index, repository, recorded, github, lock, app, kept>>
    BY <2>5 DEF GitCheckout
  <2> QED BY <2>1, <2>2, <2>3, <2>4, <2>5
<1>2. /\ req' \in [Requests -> RequestType] /\ step' \in 0..MaxSteps
      /\ \A q \in Requests : req'[q] = IF q = r THEN fields ELSE req[q]
  BY <1>1, Beginning DEF WInv
<1>3. Targets'
  BY <1>1, <1>2 DEF Targets, WInv
<1> QED BY <1>1, <1>2, <1>3, QuietStep DEF Quiet, WInv, TypeOK

\* A git command takes the index lock, or fails.
LEMMA LockStep ==
  ASSUME WInv, NEW r \in Requests, Lock(r) \/ Fail(r)
  PROVE WInv'
<1>1. CASE Lock(r)
  BY <1>1, QuietStep DEF Lock, Quiet, WInv, TypeOK, Targets
<1>2. CASE Fail(r)
  <2>1. lock' \in Requests \cup {Nil}
    BY <1>2 DEF Fail, WInv, TypeOK
  <2>2. \E pc \in {"poll", "commit"} : Goto(r, pc) \/ End(r)
    BY <1>2 DEF Fail, Staged
  <2>3. req' \in [Requests -> RequestType] /\ Targets'
    <3>1. ASSUME NEW pc \in {"poll", "commit"}, Goto(r, pc)
          PROVE req' \in [Requests -> RequestType] /\ Targets'
      BY <3>1, Going DEF WInv, Targets, Pcs, GitSteps
    <3>2. CASE End(r)
      BY <3>2, Ending DEF WInv, Targets
    <3> QED BY <2>2, <3>1, <3>2
  <2> QED BY <1>2, <2>1, <2>3, QuietStep DEF Fail, Quiet, WInv, TypeOK
<1> QED BY <1>1, <1>2

\* A file is written: only its own entry changes, and is what was saved, if anything.
LEMMA PutStep ==
  ASSUME WInv, NEW f \in Files, NEW content \in Contents, NEW saved \in {content, Nil} \ {0},
         Put(f, content, saved), UNCHANGED <<index, repository, recorded, github, lock>>,
         req' \in [Requests -> RequestType], Targets', step' \in 0..MaxSteps
  PROVE WInv'
<1>1. /\ disk' \in Snapshots /\ kept' \in [Files -> (Contents \ {0}) \cup {Nil}]
      /\ app' \in [phase : Phases, current : BOOLEAN]
  BY DEF Put, Unseen, WInv, TypeOK, Snapshots
<1>2. TypeOK' /\ Heads'
  BY <1>1 DEF WInv, TypeOK, Heads, repository, github
<1>3. EditsSurvive'
  <2> SUFFICES ASSUME NEW g \in Files, kept'[g] # Nil
      PROVE disk'[g] = kept'[g] \/ Committed(g)'
    BY DEF EditsSurvive
  <2>1. CASE g = f
    BY <2>1 DEF Put, WInv, TypeOK, Snapshots
  <2>2. CASE g # f
    <3>1. disk'[g] = disk[g] /\ kept'[g] = kept[g]
      BY <2>2 DEF Put, WInv, TypeOK, Snapshots
    <3> QED BY <3>1 DEF WInv, EditsSurvive, Committed, repository
  <2> QED BY <2>1, <2>2
<1> QED BY <1>2, <1>3 DEF WInv

LEMMA FileStep ==
  ASSUME WInv, NEW f \in Files,
         \/ Create(f) \/ Delete(f)
         \/ \E r \in Requests : Save(r, f)
  PROVE WInv'
<1>1. CASE Create(f)
  <2>1. step' \in 0..MaxSteps /\ Empty \in Contents \ {0}
    BY <1>1, Counted, WorkspaceAssumption DEF Create, WInv, Contents, Empty
  <2> QED BY <1>1, <2>1, PutStep DEF Create, WInv, TypeOK, Targets
<1>2. CASE Delete(f)
  <2>1. step' \in 0..MaxSteps /\ 0 \in Contents /\ Nil # 0
    BY <1>2, Counted, WorkspaceAssumption DEF Delete, WInv, Contents, Empty
  <2> QED BY <1>2, <2>1, PutStep DEF Delete, WInv, TypeOK, Targets
<1>3. ASSUME NEW r \in Requests, Save(r, f) PROVE WInv'
  <2> DEFINE fields == [Idle EXCEPT !.pc = "touch", !.file = f]
  <2>1. step + 1 \in Contents \ {0} /\ step' = step + 1 /\ step' \in 0..MaxSteps
    BY <1>3, Counted DEF Save, Begin, WInv
  <2>2. fields \in RequestType /\ fields.pc = "touch" /\ fields.file = f
    BY <2>1, IdleType DEF Idle, RequestType, Pcs
  <2> HIDE DEF fields
  <2>3. /\ req' \in [Requests -> RequestType]
        /\ \A q \in Requests : req'[q] = IF q = r THEN fields ELSE req[q]
    BY <1>3, <2>2, Beginning DEF Save, fields, WInv
  <2>4. Targets'
    BY <2>2, <2>3 DEF Targets, WInv
  <2> QED BY <1>3, <2>1, <2>3, <2>4, PutStep DEF Save
<1> QED BY <1>1, <1>2, <1>3

\* What follows a save changes the index at most.
LEMMA SaveStep ==
  ASSUME WInv, NEW r \in Requests, SaveSteps(r)
  PROVE WInv'
<1>1. CASE Touch(r)
  <2> DEFINE f == req[r].file
  <2>1. f \in Files
    BY <1>1 DEF Touch, WInv, Targets
  <2>2. PICK polls \in BOOLEAN :
           /\ disk' = disk \/ (disk[f] = 0 /\ disk' = [disk EXCEPT ![f] = Empty])
           /\ req' = [req EXCEPT ![r].pc = "stage", ![r].waits = polls]
    BY <1>1 DEF Touch
  <2>3. req[r] \in RequestType /\ [req[r] EXCEPT !.pc = "stage", !.waits = polls] \in RequestType
    BY DEF WInv, TypeOK, RequestType, Pcs, GitSteps
  <2>4. /\ req' = [req EXCEPT ![r] = [req[r] EXCEPT !.pc = "stage", !.waits = polls]]
        /\ req'[r] = [req[r] EXCEPT !.pc = "stage", !.waits = polls]
    BY <2>2, <2>3 DEF WInv, TypeOK
  <2>5. req' \in [Requests -> RequestType] /\ \A q \in Requests : q # r => req'[q] = req[q]
    BY <2>3, <2>4 DEF WInv, TypeOK
  <2>6. req'[r].pc = "stage" /\ req'[r].file = f
    BY <2>3, <2>4 DEF RequestType
  <2> HIDE DEF f
  <2>7. Targets'
    BY <2>1, <2>5, <2>6 DEF WInv, Targets
  <2>8. TypeOK' /\ Heads'
    <3>1. Empty \in Contents
      BY WorkspaceAssumption DEF Contents, Empty
    <3>2. disk' \in Snapshots
      BY <2>1, <2>2, <3>1 DEF WInv, TypeOK, Snapshots
    <3>3. app' \in [phase : Phases, current : BOOLEAN]
      BY <1>1 DEF Touch, Unseen, WInv, TypeOK
    <3> QED BY <1>1, <2>5, <3>2, <3>3 DEF Touch, WInv, TypeOK, Heads, repository, github
  <2>9. EditsSurvive'
    <3>1. \A g \in Files : kept[g] # 0
      BY WorkspaceAssumption DEF WInv, TypeOK
    <3>2. \A g \in Files : disk[g] = kept[g] => disk'[g] = disk[g]
      BY <2>1, <2>2, <3>1 DEF WInv, TypeOK, Snapshots
    <3> QED BY <1>1, <3>2 DEF Touch, WInv, EditsSurvive, Committed, repository
  <2> QED BY <2>7, <2>8, <2>9 DEF WInv
<1>2. CASE Stage(r)
  <2>1. req' \in [Requests -> RequestType] /\ Targets'
    <3>1. CASE Goto(r, "poll")
      BY <3>1, Going DEF WInv, Targets, Pcs
    <3>2. CASE End(r)
      BY <3>2, Ending DEF WInv, Targets
    <3> QED BY <1>2, <3>1, <3>2 DEF Stage, Staged
  <2>2. index' \in Snapshots
    BY <1>2 DEF Stage, Runs, WInv, Targets, TypeOK, Snapshots
  <2>3. TypeOK' /\ Heads'
    BY <1>2, <2>1, <2>2 DEF Stage, Runs, WInv, TypeOK, Heads, repository, github
  <2>4. EditsSurvive'
    BY <1>2, Keeps DEF Stage, WInv, repository
  <2> QED BY <2>1, <2>3, <2>4 DEF WInv
<1>3. CASE Ready(r) \/ TimeOut(r)
  <2>1. PICK pc \in Events : Answer(r, pc)
    BY <1>3 DEF Ready, TimeOut, Events
  <2>2. req' \in [Requests -> RequestType] /\ Targets'
    BY <2>1, Going DEF Answer, WInv, Targets, Pcs, Events
  <2> QED BY <2>1, <2>2, QuietStep DEF Answer, Quiet, WInv, TypeOK
<1>4. CASE Done(r)
  <2>1. req' \in [Requests -> RequestType] /\ Targets'
    BY <1>4, Ending DEF Done, WInv, Targets
  <2> QED BY <1>4, <2>1, QuietStep DEF Done, Quiet, WInv, TypeOK
<1> QED BY <1>1, <1>2, <1>3, <1>4 DEF SaveSteps

\* A commit adds one, and leaves the working tree alone.
LEMMA CommitStep ==
  ASSUME WInv, NEW r \in Requests, CommitSteps(r)
  PROVE WInv'
<1>1. CASE AddAll(r)
  <2>1. req' \in [Requests -> RequestType] /\ Targets'
    BY <1>1, Going DEF AddAll, WInv, Targets, Pcs, GitSteps
  <2>2. TypeOK' /\ Heads'
    BY <1>1, <2>1 DEF AddAll, Runs, WInv, TypeOK, Heads, repository, github
  <2>3. EditsSurvive'
    BY <1>1, Keeps DEF AddAll, WInv, repository
  <2> QED BY <2>1, <2>2, <2>3 DEF WInv
<1>2. CASE Commit(r)
  <2>1. req' \in [Requests -> RequestType] /\ Targets'
    BY <1>2, Ending DEF Commit, WInv, Targets
  <2>2. /\ tip' \in [Branches -> Snapshots \cup {Nil}]
        /\ past' \in [Branches -> SUBSET Snapshots]
        /\ \A b \in Branches : past[b] \subseteq past'[b]
    BY <1>2 DEF Commit, WInv, TypeOK
  <2>3. TypeOK'
    BY <1>2, <2>1, <2>2 DEF Commit, Runs, WInv, TypeOK, github
  <2>4. Heads'
    BY <1>2, NilIsNoSnapshot DEF Commit, WInv, TypeOK, Heads, github
  <2>5. EditsSurvive'
    BY <1>2, <2>2, Keeps DEF Commit, WInv
  <2> QED BY <2>1, <2>3, <2>4, <2>5 DEF WInv
<1> QED BY <1>1, <1>2 DEF CommitSteps

\* What a step leaves alone that ends with a branch and its commits known.
LEMMA SwitchStep ==
  ASSUME WInv, NEW target \in Snapshots, SwitchTo(target), UNCHANGED kept,
         \A b \in Branches : past[b] \subseteq past'[b],
         past' \in [Branches -> SUBSET Snapshots],
         tip' \in [Branches -> Snapshots \cup {Nil}], branch' \in Branches,
         Heads', Targets', req' \in [Requests -> RequestType],
         UNCHANGED <<recorded, github, step>>, lock' = Nil
  PROVE WInv'
<1>1. /\ disk' \in Snapshots /\ index' \in Snapshots
      /\ app' \in [phase : Phases, current : BOOLEAN]
      /\ \A f \in Files : disk'[f] = disk[f] \/ \E s \in past[branch] : s[f] = disk[f]
  BY Switching DEF WInv
<1>2. TypeOK'
  BY <1>1 DEF WInv, TypeOK, github
<1>3. \A f \in Files : disk'[f] = disk[f] \/ \E b \in Branches : \E s \in past'[b] : s[f] = disk[f]
  BY <1>1 DEF WInv, TypeOK
<1>4. EditsSurvive'
  BY <1>3, Keeps DEF WInv
<1> QED BY <1>2, <1>4 DEF WInv

LEMMA BranchStep ==
  ASSUME WInv, NEW r \in Requests, BranchSteps(r)
  PROVE WInv'
<1>1. CASE CheckOutNew(r)
  <2> DEFINE b == req[r].to
  <2>1. b \in Branches /\ tip[b] = Nil /\ b # branch
    BY <1>1 DEF CheckOutNew, Runs, WInv, Targets, Heads
  <2>2. req' \in [Requests -> RequestType] /\ Targets'
    BY <1>1, <2>1, Going DEF CheckOutNew, WInv, Targets, Pcs
  <2> HIDE DEF b
  <2>3. /\ tip' = [tip EXCEPT ![b] = tip[branch]] /\ past' = [past EXCEPT ![b] = past[branch]]
        /\ branch' = b /\ lock' = Nil
        /\ UNCHANGED <<disk, index, recorded, github, app, step, kept>>
    BY <1>1 DEF CheckOutNew, Runs, b
  <2>4. TypeOK' /\ Heads'
    BY <2>1, <2>2, <2>3 DEF WInv, TypeOK, Heads, github
  <2>5. EditsSurvive'
    <3> SUFFICES ASSUME NEW f \in Files, kept[f] # Nil, disk[f] # kept[f]
        PROVE Committed(f)'
      BY <2>3 DEF EditsSurvive
    <3>1. PICK c \in Branches : \E s \in past[c] : s[f] = kept[f]
      BY DEF WInv, EditsSurvive, Committed
    <3>2. \A d \in Branches : d # b => past'[d] = past[d]
      BY <2>1, <2>3 DEF WInv, TypeOK
    <3>3. past[b] = {}
      BY <2>1 DEF WInv, Heads
    <3> QED BY <2>3, <3>1, <3>2, <3>3 DEF Committed
  <2> QED BY <2>2, <2>4, <2>5 DEF WInv
<1>2. CASE CheckStatus(r)
  <2>1. Goto(r, "checkout") \/ End(r)
    BY <1>2 DEF CheckStatus
  <2>2. req' \in [Requests -> RequestType] /\ Targets'
    <3>1. CASE Goto(r, "checkout")
      BY <1>2, <3>1, Going DEF CheckStatus, WInv, Targets, Pcs, GitSteps
    <3>2. CASE End(r)
      BY <3>2, Ending DEF WInv, Targets
    <3> QED BY <2>1, <3>1, <3>2
  <2> QED BY <1>2, <2>2, QuietStep DEF CheckStatus, Quiet, WInv, TypeOK
<1>3. CASE CheckOut(r)
  <2> DEFINE b == req[r].to
  <2>1. b \in Branches /\ tip[b] \in Snapshots /\ tip[b] # Nil
    BY <1>3 DEF CheckOut, CheckOutTo, Runs, WInv, Targets, TypeOK
  <2>2. req' \in [Requests -> RequestType] /\ Targets'
    BY <1>3, <2>1, Going DEF CheckOut, CheckOutTo, WInv, Targets, Pcs
  <2> HIDE DEF b
  <2>3. branch' = b /\ lock' = Nil /\ UNCHANGED <<tip, past, recorded, github, step>>
    BY <1>3 DEF CheckOut, CheckOutTo, Runs, b
  <2>4. Heads'
    BY <2>1, <2>3 DEF WInv, Heads, github
  <2>5. CASE SwitchTo(tip[b]) /\ UNCHANGED kept
    BY <2>1, <2>2, <2>3, <2>4, <2>5, SwitchStep DEF WInv, TypeOK
  <2>6. CASE Overwrite(tip[b]) /\ Discard({f \in Files : Committed(f)})
    <3>1. /\ disk' \in Snapshots /\ index' \in Snapshots
          /\ app' \in [phase : Phases, current : BOOLEAN]
          /\ kept' \in [Files -> (Contents \ {0}) \cup {Nil}]
          /\ \A f \in Files : kept'[f] = Nil \/ disk'[f] = kept'[f]
               \/ (f \in {g \in Files : Committed(g)} /\ kept'[f] = kept[f])
      BY <2>1, <2>6, Overwriting DEF WInv
    <3>2. TypeOK'
      BY <2>1, <2>2, <2>3, <3>1 DEF WInv, TypeOK, github
    <3>3. EditsSurvive'
      BY <2>3, <3>1 DEF EditsSurvive, Committed
    <3> QED BY <2>2, <2>4, <3>2, <3>3 DEF WInv
  <2> QED BY <1>3, <2>5, <2>6 DEF CheckOut, b
<1>4. CASE Verify(r)
  <2>1. /\ req' \in [Requests -> RequestType]
        /\ \A q \in Requests : q # r => req'[q] = req[q]
        /\ req'[r].pc = "save_row" /\ req'[r].to = branch
    BY <1>4 DEF Verify, VerifyAs, WInv, TypeOK, RequestType, Pcs
  <2>2. Targets'
    BY <2>1 DEF WInv, TypeOK, Targets
  <2> QED BY <1>4, <2>1, <2>2, QuietStep DEF Verify, VerifyAs, Quiet, WInv, TypeOK
<1>5. CASE SaveRow(r)
  <2>1. req[r].to \in Branches
    BY <1>5 DEF SaveRow, WInv, Targets
  <2>2. req' \in [Requests -> RequestType] /\ Targets'
    BY <1>5, Ending DEF SaveRow, WInv, Targets
  <2>3. TypeOK' /\ Heads'
    BY <1>5, <2>1, <2>2 DEF SaveRow, WInv, TypeOK, Heads, repository, github
  <2>4. EditsSurvive'
    BY <1>5 DEF SaveRow, WInv, EditsSurvive, Committed, repository
  <2> QED BY <2>2, <2>3, <2>4 DEF WInv
<1> QED BY <1>1, <1>2, <1>3, <1>4, <1>5 DEF BranchSteps

\* A pull brings commits to the branch; a push and other people change the remote only.
LEMMA RemoteStep ==
  ASSUME WInv,
         \/ \E r \in Requests : Pull(r)
         \/ PushChanges
         \/ \E b \in Branches, f \in Files : OthersPush(b, f)
  PROVE WInv'
<1>1. ASSUME NEW r \in Requests, Pull(r) PROVE WInv'
  <2> DEFINE target == remote[branch]
  <2>1. target \in Snapshots /\ target # Nil /\ target \in shared[branch]
    BY <1>1 DEF Pull, WInv, TypeOK, Heads
  <2>2. req' \in [Requests -> RequestType] /\ Targets'
    BY <1>1, Ending DEF Pull, WInv, Targets
  <2> HIDE DEF target
  <2>3. /\ tip' = [tip EXCEPT ![branch] = target]
        /\ past' = [past EXCEPT ![branch] = past[branch] \cup shared[branch]]
        /\ lock' = Nil /\ SwitchTo(target)
        /\ UNCHANGED <<branch, recorded, github, step, kept>>
    BY <1>1 DEF Pull, Runs, target, WInv, TypeOK
  <2>4. /\ tip' \in [Branches -> Snapshots \cup {Nil}]
        /\ past' \in [Branches -> SUBSET Snapshots]
        /\ \A b \in Branches : past[b] \subseteq past'[b]
        /\ branch' \in Branches
    BY <2>1, <2>3 DEF WInv, TypeOK
  <2>5. Heads'
    BY <2>1, <2>3 DEF WInv, TypeOK, Heads, github
  <2> QED BY <2>1, <2>2, <2>3, <2>4, <2>5, SwitchStep
<1>2. CASE PushChanges
  <2>1. TypeOK' /\ Heads'
    <3>1. step' \in 0..MaxSteps
      BY <1>2, Counted DEF PushChanges, WInv
    <3> QED BY <1>2, <3>1 DEF PushChanges, WInv, TypeOK, Heads, repository
  <2>2. EditsSurvive' /\ Targets'
    BY <1>2 DEF PushChanges, WInv, EditsSurvive, Targets, Committed, repository
  <2> QED BY <2>1, <2>2 DEF WInv
<1>3. ASSUME NEW b \in Branches, NEW f \in Files, OthersPush(b, f) PROVE WInv'
  <2> DEFINE new == [remote[b] EXCEPT ![f] = step + 1]
  <2>1. step' = step + 1 /\ step' \in 0..MaxSteps /\ step' \in Contents
    BY <1>3, Counted DEF OthersPush, WInv
  <2>2. new \in Snapshots
    BY <1>3, <2>1 DEF OthersPush, WInv, TypeOK, Snapshots
  <2> HIDE DEF new
  <2>3. remote' = [remote EXCEPT ![b] = new] /\ shared' = [shared EXCEPT ![b] = shared[b] \cup {new}]
    BY <1>3, <2>1 DEF OthersPush, new, WInv, TypeOK
  <2>4. UNCHANGED <<disk, index, repository, recorded, lock, req, app, kept>>
    BY <1>3 DEF OthersPush
  <2>5. TypeOK' /\ Heads'
    BY <2>1, <2>2, <2>3, <2>4, NilIsNoSnapshot DEF WInv, TypeOK, Heads, repository
  <2>6. EditsSurvive' /\ Targets'
    BY <2>4 DEF WInv, EditsSurvive, Targets, Committed, repository
  <2> QED BY <2>5, <2>6 DEF WInv
<1> QED BY <1>1, <1>2, <1>3

\* A restart discards what it does not keep on disk.
LEMMA ResetStep ==
  ASSUME WInv, NEW r \in Requests, ResetHard(r)
  PROVE WInv'
<1> DEFINE b == IF remote[req[r].to] # Nil THEN req[r].to ELSE Main
<1>1. b \in Branches /\ remote[b] \in Snapshots /\ remote[b] # Nil
      /\ remote[b] \in shared[b] /\ shared[b] \in SUBSET Snapshots
  BY WorkspaceAssumption DEF ResetHard, Runs, WInv, Targets, TypeOK, Heads
<1>2. req' \in [Requests -> RequestType] /\ Targets'
  BY Ending DEF ResetHard, WInv, Targets
<1>3. /\ lock' = Nil /\ Overwrite(remote[b]) /\ Discard({})
      /\ tip' = [tip EXCEPT ![branch] = remote[b]]
      /\ past' = [past EXCEPT ![branch] = shared[b]]
      /\ UNCHANGED <<branch, recorded, github, step>>
  BY DEF ResetHard, Runs
<1> HIDE DEF b
<1>4. /\ disk' \in Snapshots /\ index' \in Snapshots
      /\ app' \in [phase : Phases, current : BOOLEAN]
      /\ kept' \in [Files -> (Contents \ {0}) \cup {Nil}]
      /\ \A f \in Files : kept'[f] = Nil \/ disk'[f] = kept'[f]
           \/ (f \in {} /\ kept'[f] = kept[f])
  BY <1>1, <1>3, Overwriting DEF WInv
<1>5. TypeOK' /\ Heads'
  BY <1>1, <1>2, <1>3, <1>4 DEF WInv, TypeOK, Heads, github
<1>6. EditsSurvive'
  BY <1>4 DEF EditsSurvive
<1> QED BY <1>2, <1>5, <1>6 DEF WInv

LEMMA ContainerStep ==
  ASSUME WInv, NoticeChange \/ Restart \/ Remove \/ Start
  PROVE WInv'
<1>1. PICK from \in SUBSET Phases, to \in Phases, current \in BOOLEAN : Container(from, to, current)
  BY DEF NoticeChange, Restart, Remove, Start, Phases
<1> QED BY <1>1, QuietStep DEF Container, Quiet, WInv, TypeOK, Targets

LEMMA Initially == Init => WInv
<1> SUFFICES ASSUME Init PROVE WInv
  OBVIOUS
<1> DEFINE empty == [f \in Files |-> 0]
<1>1. empty \in Snapshots
  BY WorkspaceAssumption DEF Snapshots, Contents, Empty
<1>2. empty # Nil
  BY <1>1, NilIsNoSnapshot
<1>3. TypeOK
  BY <1>1, IdleType, WorkspaceAssumption DEF Init, TypeOK, Phases, Contents, Empty
<1>4. Heads
  BY <1>2, WorkspaceAssumption DEF Init, Heads
<1>5. Targets /\ EditsSurvive
  BY DEF Init, Targets, EditsSurvive, Idle
<1> QED BY <1>3, <1>4, <1>5 DEF WInv

LEMMA WStep == WInv /\ [Next]_vars => WInv'
<1> SUFFICES ASSUME WInv, [Next]_vars PROVE WInv'
  OBVIOUS
<1>1. CASE Users
  BY <1>1, BeginStep, FileStep, RemoteStep DEF Users
<1>2. ASSUME NEW r \in Requests, Step(r) PROVE WInv'
  BY <1>2, LockStep, SaveStep, CommitStep, BranchStep, RemoteStep, ResetStep DEF Step
<1>3. CASE NoticeChange \/ Restart \/ Remove \/ Start
  BY <1>3, ContainerStep
<1>4. CASE UNCHANGED vars
  BY <1>4 DEF vars, WInv, TypeOK, Heads, Targets, EditsSurvive, Committed, repository, github
<1> QED BY <1>1, <1>2, <1>3, <1>4 DEF Next

\* Every variable of the workspace keeps its type; in particular the lock of the index
\* is free or one request's, and the branch recorded in the database is a branch.
THEOREM WorkspaceTypes == Spec => []TypeOK
<1>1. WInv => TypeOK
  BY DEF WInv
<1> QED BY <1>1, Initially, WStep, PTL DEF Spec

\* The branch that is checked out always has a commit, the last commit of a branch
\* is one of its commits, and a request that goes on knows the file or the branch it
\* is about (GitBranch, GitCheckout and GitPull, git.go:277-396): no step reads a commit that is not there.
THEOREM HeadsExist == Spec => [](Heads /\ Targets)
<1>1. WInv => Heads /\ Targets
  BY DEF WInv
<1> QED BY <1>1, Initially, WStep, PTL DEF Spec

\* Whatever requests do side by side in one workspace (api/files.go, api/git.go),
\* what a user has saved stays on disk or is in a commit, until the user deletes
\* it, checks out by force or restarts the environment.
THEOREM EditsAreSafe == Spec => []EditsSurvive
<1>1. WInv => EditsSurvive
  BY DEF WInv
<1> QED BY <1>1, Initially, WStep, PTL DEF Spec
=============================================================================
