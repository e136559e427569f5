----------------------------- MODULE FormsProofs ------------------------------
(*****************************************************************************)
(* What the user submits: the session, the form that deploys a sandbox, the  *)
(* dialogs and the invitations, for any number of requests, projects,        *)
(* inputs and invitations.  Each invariant is proved of the steps of its     *)
(* module alone, whatever their fairness.                                    *)
(*****************************************************************************)
EXTENDS Session, CreateSandbox, Dialogs, Invitations, FiniteSetTheorems, TLAPS

-----------------------------------------------------------------------------
(* The session.                                                              *)

CheckInv ==
    /\ checks \subseteq [path : Paths, answer : Answers]
    /\ pathname \in Paths
    /\ NoFalseSignOut

LEMMA FreshCheck ==
  ASSUME NEW p \in Paths
  PROVE  Check(p) \in [path : Paths, answer : Answers] /\ Check(p).answer = "none"
BY DEF Check, Answers

LEMMA OpenedKeeps ==
  ASSUME NEW p \in Paths, Opened(p)
  PROVE  CheckInv'
BY FreshCheck DEF CheckInv, Opened, NoFalseSignOut

LEMMA PushKeeps ==
  ASSUME CheckInv, NEW p \in Paths, NEW kept \in SUBSET checks, Push(p, kept),
         cookie' \in {FALSE, cookie}, UNCHANGED elsewhere
  PROVE  CheckInv'
<1>1. pathname' \in Paths /\ checks' \subseteq kept \cup {Check(p)}
  BY DEF Push
<1>2. ASSUME NEW c \in checks' PROVE c \in checks \/ c = Check(p)
  BY <1>1
<1>3. Check(p) \in [path : Paths, answer : Answers] /\ Check(p).answer = "none"
  BY FreshCheck
<1>4. checks' \subseteq [path : Paths, answer : Answers]
  BY <1>2, <1>3 DEF CheckInv
<1>5. ASSUME NEW c \in checks', c.answer = "unauthorized" PROVE ~cookie' \/ elsewhere'
  <2>1. ~cookie \/ elsewhere
    BY <1>2, <1>3, <1>5 DEF CheckInv, NoFalseSignOut
  <2> QED
    BY <2>1
<1> QED
  BY <1>1, <1>4, <1>5 DEF CheckInv, NoFalseSignOut

LEMMA CheckStepKeeps ==
  ASSUME CheckInv, NEW c \in checks, CheckStep(c)
  PROVE  CheckInv'
<1>0. c \in [path : Paths, answer : Answers] /\ pathname \in Paths
  BY DEF CheckInv
<1>1. CASE ServeCheck(c)
  <2>1. PICK a \in {IF cookie THEN "ok" ELSE "unauthorized", "error"} :
          checks' = (checks \ {c}) \cup {[c EXCEPT !.answer = a]}
    BY <1>1 DEF ServeCheck
  <2> DEFINE d == [c EXCEPT !.answer = a]
  <2>2. d \in [path : Paths, answer : Answers] /\ d.answer = a
    BY <1>0 DEF Answers
  <2>3. d.answer = "unauthorized" => ~cookie
    BY <2>2
  <2>4. checks' = (checks \ {c}) \cup {d} /\ UNCHANGED <<cookie, elsewhere, pathname>>
    BY <1>1, <2>1 DEF ServeCheck, cookieVars
  <2> HIDE DEF d
  <2> QED
    BY <2>2, <2>3, <2>4 DEF CheckInv, NoFalseSignOut
<1>2. CASE Authenticated(c)
  <2> DEFINE p == IF c.path = "/login" THEN "/dashboard" ELSE pathname
  <2>1. p \in Paths /\ Push(p, checks \ {c}) /\ UNCHANGED <<cookie, elsewhere>>
    BY <1>0, <1>2 DEF Authenticated, cookieVars, Paths, Private, Polling
  <2> HIDE DEF p
  <2> QED
    BY <2>1, PushKeeps
<1>3. CASE Unauthorized(c) \/ CheckFails(c)
  <2> DEFINE p == IF c.path \notin Public THEN "/login" ELSE pathname
  <2>1. p \in Paths /\ "/login" \in Paths
    BY <1>0 DEF Paths, Public
  <2>2. Opened("/login") \/ (Push(p, checks \ {c}) /\ UNCHANGED <<cookie, elsewhere>>)
    BY <1>3 DEF Unauthorized, CheckFails, cookieVars
  <2> HIDE DEF p
  <2> QED
    BY <2>1, <2>2, PushKeeps, OpenedKeeps
<1> QED
  BY <1>1, <1>2, <1>3 DEF CheckStep, TakeAnswer

LEMMA SessionStep ==
  ASSUME CheckInv, [SessionNext]_SessionVars
  PROVE  CheckInv'
<1>0. "/login" \in Paths /\ "/dashboard" \in Paths
  BY DEF Paths, Public, Private, Polling
<1>1. ASSUME NEW p \in Paths, FollowLink(p) PROVE CheckInv'
  BY <1>1, PushKeeps DEF FollowLink, cookieVars
<1>2. CASE PageRequest \/ SignIn
  BY <1>0, <1>2, OpenedKeeps DEF PageRequest, SignIn
<1>3. CASE SignInElsewhere \/ SessionEnds \/ HandleLogout \/ UNCHANGED SessionVars
  BY <1>3 DEF SignInElsewhere, SessionEnds, HandleLogout, SessionVars, cookieVars, CheckInv, NoFalseSignOut
<1>4. CASE LoggedOut
  BY <1>0, <1>4, PushKeeps DEF LoggedOut
<1> QED
  BY <1>1, <1>2, <1>3, <1>4, CheckStepKeeps DEF SessionNext

LEMMA SessionTypesStep ==
  ASSUME CheckInv, SessionTypeOK, [SessionNext]_SessionVars
  PROVE  SessionTypeOK'
<1>1. CheckInv'
  BY SessionStep
<1>2. ASSUME NEW c \in checks, CheckStep(c)
      PROVE  UNCHANGED cookieVars /\ isAuthenticated' \in BOOLEAN /\ logout' \in {"none", "sent"}
  BY <1>2 DEF CheckStep, TakeAnswer, ServeCheck, Authenticated, Unauthorized, CheckFails, Opened, SessionTypeOK
<1>3. CASE \E p \in Paths : FollowLink(p)
  BY <1>1, <1>3 DEF FollowLink, cookieVars, SessionTypeOK, CheckInv
<1>4. CASE \/ PageRequest \/ SignIn \/ SignInElsewhere \/ SessionEnds \/ HandleLogout \/ LoggedOut
           \/ UNCHANGED SessionVars
  BY <1>1, <1>4 DEF PageRequest, SignIn, SignInElsewhere, Opened, SessionEnds, HandleLogout, LoggedOut,
                    SessionVars, cookieVars, SessionTypeOK, CheckInv
<1> QED
  BY <1>1, <1>2, <1>3, <1>4 DEF SessionNext, cookieVars, SessionTypeOK, CheckInv

LEMMA SessionAlways == SessionInit /\ [][SessionNext]_SessionVars => [](CheckInv /\ SessionTypeOK)
<1>1. SessionInit => CheckInv /\ SessionTypeOK
  BY FreshCheck DEF SessionInit, CheckInv, NoFalseSignOut, SessionTypeOK
<1> QED
  BY <1>1, SessionStep, SessionTypesStep, PTL

\* A user who has signed in in this tab is not sent back by an answer of before
\* (auth.tsx:20-48); after a sign-in in another tab he may be.
THEOREM SignInIsFinal == SessionSpec => []NoFalseSignOut
<1>1. CheckInv => NoFalseSignOut
  BY DEF CheckInv
<1> QED
  BY <1>1, SessionAlways, PTL DEF SessionSpec

-----------------------------------------------------------------------------
(* The dialogs.                                                              *)

Requests == [input : Values, instance : Nat, served : BOOLEAN]

\* The state of the first two pages' dialogs lives on when they are closed.
Mine(r) == dialog \in OfThePage \/ r.instance = instance

BusyInv ==
    /\ requests \subseteq Requests
    /\ instance \in Nat /\ input \in Values /\ shown \in Values /\ database \in Values
    /\ busy /\ (open \/ dialog \in OfThePage) => \E r \in requests : Mine(r)

LEMMA RequestKeeps ==
  ASSUME BusyInv, NEW r \in requests, RequestStep(r)
  PROVE  BusyInv'
<1>0. r \in Requests /\ UNCHANGED <<dialog, instance>>
  BY DEF BusyInv, RequestStep, Serve, Success, Failure
<1>1. CASE Serve(r)
  <2> DEFINE q == [r EXCEPT !.served = TRUE]
  <2>1. q \in Requests /\ q.instance = r.instance
    BY <1>0 DEF Requests
  <2>2. requests' = (requests \ {r}) \cup {q} /\ UNCHANGED <<open, input, busy, shown>>
    BY <1>1 DEF Serve
  <2>3. database' \in Values
    BY <1>0, <1>1 DEF Serve, BusyInv, Requests
  <2> HIDE DEF q
  <2>4. busy' /\ (open \/ dialog \in OfThePage)' => \E x \in requests' : Mine(x)'
    BY <1>0, <2>1, <2>2 DEF BusyInv, Mine
  <2> QED
    BY <1>0, <2>1, <2>2, <2>3, <2>4 DEF BusyInv
<1>2. CASE Success(r) \/ Failure(r)
  <2>1. requests' = requests \ {r} /\ NotBusy(r) /\ UNCHANGED <<database, shown>>
    BY <1>2 DEF Success, Failure
  <2>2. input' \in Values
    BY <1>2 DEF Success, Failure, BusyInv, Values
  <2>5. open' => open
    BY <1>2, Zenon DEF Success, Failure
  <2>3. busy' => busy /\ ~Mine(r)
    BY <2>1 DEF NotBusy, Mine
  <2>4. busy' /\ (open \/ dialog \in OfThePage)' => \E x \in requests' : Mine(x)'
    BY <1>0, <2>1, <2>3, <2>5 DEF BusyInv, Mine
  <2> QED
    BY <1>0, <2>1, <2>2, <2>4 DEF BusyInv
<1> QED
  BY <1>1, <1>2 DEF RequestStep

LEMMA DialogStep ==
  ASSUME BusyInv, [DialogNext]_DialogVars
  PROVE  BusyInv'
<1>1. CASE Open
  <2>1. instance' = instance + 1 /\ UNCHANGED <<dialog, requests, shown, database>>
    BY <1>1 DEF Open
  <2>2. dialog \in OfThePage \/ ~busy'
    BY <1>1 DEF Open
  <2>3. dialog \in OfThePage => UNCHANGED <<input, busy>>
    BY <1>1 DEF Open
  <2>4. input' \in Values
    BY <1>1 DEF Open, BusyInv, Values
  <2> QED
    BY <2>1, <2>2, <2>3, <2>4 DEF BusyInv, Mine
<1>2. CASE Submit
  <2> DEFINE q == [input |-> input, instance |-> instance, served |-> FALSE]
  <2>1. q \in Requests /\ q.instance = instance
    BY DEF BusyInv, Requests
  <2>2. requests' = requests \cup {q} /\ UNCHANGED <<dialog, instance, input, shown, database>>
    BY <1>2 DEF Submit
  <2> HIDE DEF q
  <2> QED
    BY <2>1, <2>2 DEF BusyInv, Mine
<1>3. ASSUME NEW v \in Values, Write(v) \/ OthersWrite(v) PROVE BusyInv'
  BY <1>3 DEF Write, OthersWrite, BusyInv, Mine
<1>4. CASE Close \/ Refresh \/ UNCHANGED DialogVars
  BY <1>4 DEF Close, Refresh, DialogVars, BusyInv, Mine
<1> QED
  BY <1>1, <1>2, <1>3, <1>4, RequestKeeps DEF DialogNext

LEMMA DialogTypesStep ==
  ASSUME DialogTypeOK, [DialogNext]_DialogVars
  PROVE  DialogTypeOK'
<1> USE DialogAssumption
<1>1. CASE Open
  <2>1. NoInput \in Values /\ shown \in Values /\ input \in Values /\ {open, busy, away} \subseteq BOOLEAN
    BY DEF DialogTypeOK, Values
  <2>2. input' \in Values /\ busy' \in BOOLEAN
    BY <1>1, <2>1 DEF Open
  <2>3. instance' \in 0..MaxSends
    BY <1>1 DEF Open, DialogTypeOK
  <2> QED
    BY <1>1, <2>1, <2>2, <2>3 DEF Open, DialogTypeOK
<1>4. CASE Submit
  <2>1. [input |-> input, instance |-> instance, served |-> FALSE]
          \in [input : Values, instance : 0..MaxSends, served : BOOLEAN]
    BY DEF DialogTypeOK
  <2> QED
    BY <1>4, <2>1 DEF Submit, DialogTypeOK
<1>5. CASE Close \/ Refresh \/ UNCHANGED DialogVars
  BY <1>5 DEF Close, Refresh, DialogVars, DialogTypeOK
<1>2. ASSUME NEW v \in Values, Write(v) \/ OthersWrite(v) PROVE DialogTypeOK'
  BY <1>2 DEF Write, OthersWrite, DialogTypeOK
<1>3. ASSUME NEW r \in requests, RequestStep(r) PROVE DialogTypeOK'
  <2>1. r \in [input : Values, instance : 0..MaxSends, served : BOOLEAN]
    BY DEF DialogTypeOK
  <2>2. CASE Serve(r)
    BY <2>1, <2>2 DEF Serve, DialogTypeOK
  <2>3. CASE Success(r) \/ Failure(r)
    BY <2>1, <2>3 DEF Success, Failure, NotBusy, DialogTypeOK, Values
  <2> QED
    BY <1>3, <2>2, <2>3 DEF RequestStep
<1> QED
  BY <1>1, <1>2, <1>3, <1>4, <1>5 DEF DialogNext

LEMMA DialogAlways == DialogInit /\ [][DialogNext]_DialogVars => [](BusyInv /\ DialogTypeOK)
<1>1. DialogInit => BusyInv
  BY DEF DialogInit, BusyInv, Values
<1>2. DialogInit => DialogTypeOK
  <2>1. NoInput \in Values /\ 0 \in 0..MaxSends
    BY DialogAssumption DEF Values
  <2> QED
    BY <2>1 DEF DialogInit, DialogTypeOK
<1> QED
  BY <1>1, <1>2, DialogStep, DialogTypesStep, PTL

\* A dialog on the screen is busy for a request of its own only
\* (projects/page.tsx:32-55, page.tsx:360-437, profile/page.tsx:193-210).
THEOREM BusyIsForARequest == DialogSpec => []BusyHasRequest
<1>1. BusyInv => BusyHasRequest
  BY DEF BusyInv, BusyHasRequest, Mine
<1> QED
  BY <1>1, DialogAlways, PTL DEF DialogSpec

-----------------------------------------------------------------------------
(* The form that deploys a sandbox.                                          *)

SubmitStages == {"idle", "project", "projectMade", "sandbox", "sandboxMade"}
Submits == [stage : SubmitStages, form : Forms, target : Projects \cup {Blank},
            own : Projects \cup {Blank}]

\* A sandbox is of a click that is over, or of the last one once its request
\* was served; the request names a project unless a new one was asked for.
FormInv ==
    /\ made \in 0..MaxProjects /\ mine \subseteq Projects /\ clicks \in Nat
    /\ known = Blank \/ known \subseteq Projects
    /\ form \in Forms
    /\ branches \subseteq BranchNames
    /\ ListedBranchIsChosen
    /\ submit \in Submits
    /\ submit.target # Blank => submit.target = submit.form.project
    /\ submit.stage \in {"project", "projectMade"} => submit.form.project = New
    /\ submit.stage = "sandbox" /\ submit.target = Blank => submit.form.project = New
    /\ \A s \in sandboxes :
         /\ s.click \in 0..clicks
         /\ submit.stage \in {"project", "projectMade", "sandbox"} => s.click # clicks
    /\ SandboxAsSubmitted

submitted == <<submit, sandboxes, clicks>>

LEMMA NoSubmitFacts ==
  NoSubmit \in Submits /\ NoSubmit.stage = "idle" /\ NoSubmit.target = Blank /\ NoSubmit.form \in Forms
BY DEF NoSubmit, Submits, SubmitStages, Forms, BranchNames

LEMMA FormInit == CreateInit => FormInv
BY NoSubmitFacts, CreateAssumption
   DEF CreateInit, FormInv, ListedBranchIsChosen, SandboxAsSubmitted

\* Steps that leave the submission alone.
LEMMA FieldsKeep ==
  ASSUME FormInv, UNCHANGED submitted,
         made' \in 0..MaxProjects, mine' \subseteq Projects,
         known' = Blank \/ known' \subseteq Projects, form' \in Forms,
         branches' \subseteq BranchNames, ListedBranchIsChosen'
  PROVE  FormInv'
BY DEF FormInv, submitted, SandboxAsSubmitted

LEMMA ProjectsStep ==
  ASSUME FormInv, JoinProject \/ ProjectsArrive \/ (\E p \in Projects \cup {New} : ChooseProject(p))
  PROVE  FormInv'
<1>0. UNCHANGED submitted /\ branches' = branches
  BY DEF JoinProject, ProjectsArrive, ChooseProject, submitVars, serverVars, lookupVars, submitted
<1>1. CASE JoinProject
  <2>1. made' = made + 1 /\ made < MaxProjects /\ mine' = mine \cup {made'}
        /\ UNCHANGED <<known, form>>
    BY <1>1 DEF JoinProject
  <2>2. made' \in 0..MaxProjects /\ made' \in Projects
    BY <2>1, CreateAssumption DEF FormInv, Projects
  <2> QED
    BY <1>0, <2>1, <2>2, FieldsKeep DEF FormInv, ListedBranchIsChosen
<1>2. ASSUME NEW p \in Projects \cup {New}, known' = Blank \/ known' \subseteq Projects,
             form' \in {[form EXCEPT !.project = p], [form EXCEPT !.project = form.project]},
             UNCHANGED serverVars
      PROVE  FormInv'
  <2>1. form' \in Forms /\ form'.branch = form.branch
    BY <1>2 DEF FormInv, Forms
  <2> QED
    BY <1>0, <1>2, <2>1, FieldsKeep DEF FormInv, ListedBranchIsChosen, serverVars
<1>3. CASE ProjectsArrive
  <2>1. PICK p \in (IF mine = {} THEN {New} ELSE mine) :
          form' = [form EXCEPT !.project = IF @ = Blank THEN p ELSE @]
    BY <1>3 DEF ProjectsArrive
  <2>2. p \in Projects \cup {New} /\ known' \subseteq Projects /\ UNCHANGED serverVars
    BY <1>3, <2>1 DEF ProjectsArrive, FormInv
  <2>3. form' \in {[form EXCEPT !.project = p], [form EXCEPT !.project = form.project]}
    BY <2>1
  <2> QED
    BY <2>2, <2>3, <1>2
<1>4. ASSUME NEW p \in Projects \cup {New}, ChooseProject(p) PROVE FormInv'
  BY <1>2, <1>4 DEF ChooseProject, FormInv
<1> QED
  BY <1>1, <1>3, <1>4

LEMMA BranchesStep ==
  ASSUME FormInv, LookupStep \/ FetchBranches \/ (\E u \in Repos : TypeUrl(u))
                  \/ (\E b \in BranchNames : ChooseBranch(b))
  PROVE  FormInv'
<1>0. UNCHANGED submitted /\ UNCHANGED <<made, mine, known>>
  BY DEF LookupStep, BranchesArrive, FetchBranches, TypeUrl, ChooseBranch, submitVars, serverVars, submitted
<1>1. ASSUME NEW b \in BranchNames, form' = [form EXCEPT !.branch = b],
             branches' \subseteq BranchNames, branches' # {} => b \in branches'
      PROVE  FormInv'
  <2>1. form' \in Forms /\ form'.branch = b
    BY <1>1 DEF FormInv, Forms
  <2> QED
    BY <1>0, <1>1, <2>1, FieldsKeep DEF FormInv, ListedBranchIsChosen
<1>2. ASSUME NEW l \in lookups, NEW names \in SUBSET BranchNames, BranchesArrive(l, names)
      PROVE  FormInv'
  <2>1. branches' = names
    BY <1>2 DEF BranchesArrive
  <2>2. CASE names = {}
    BY <1>0, <1>2, <2>1, <2>2, FieldsKeep DEF BranchesArrive, FormInv, ListedBranchIsChosen
  <2>3. CASE names # {}
    <3>1. PICK b \in Preferred(names) : form' = [form EXCEPT !.branch = b]
      BY <1>2, <2>3 DEF BranchesArrive
    <3>2. Preferred(names) \subseteq names
      BY DEF Preferred
    <3>3. b \in names /\ b \in BranchNames
      BY <3>1, <3>2
    <3> QED
      BY <1>1, <2>1, <3>1, <3>3
  <2> QED
    BY <2>2, <2>3
<1>3. ASSUME NEW b \in BranchNames, ChooseBranch(b) PROVE FormInv'
  <2>1. UNCHANGED branches /\ (branches # {} => b \in branches) /\ form' = [form EXCEPT !.branch = b]
    BY <1>3 DEF ChooseBranch, lookupVars
  <2> QED
    BY <1>1, <2>1 DEF FormInv
<1>4. ASSUME NEW u \in Repos, TypeUrl(u) PROVE FormInv'
  <2>1. form' = [form EXCEPT !.url = u] /\ UNCHANGED branches
    BY <1>4 DEF TypeUrl
  <2>2. form' \in Forms /\ form'.branch = form.branch
    BY <2>1 DEF FormInv, Forms
  <2> QED
    BY <1>0, <2>1, <2>2, FieldsKeep DEF FormInv, ListedBranchIsChosen
<1>5. CASE FetchBranches
  BY <1>0, <1>5, FieldsKeep DEF FetchBranches, FormInv, ListedBranchIsChosen
<1> QED
  BY <1>2, <1>3, <1>4, <1>5 DEF LookupStep

LEMMA SubmitKeeps ==
  ASSUME FormInv, OnSubmit \/ SubmitStep
  PROVE  FormInv'
<1>0. UNCHANGED <<known, form, branches>> /\ submit \in Submits
  BY DEF OnSubmit, SubmitStep, ServeProject, ProjectMade, ServeSandbox, SandboxMade, SubmitFails,
         lookupVars, FormInv
<1>a. ListedBranchIsChosen'
  BY <1>0 DEF ListedBranchIsChosen, FormInv
<1>1. CASE OnSubmit
  <2>1. clicks' = clicks + 1 /\ form.project # Blank /\ UNCHANGED serverVars
    BY <1>1 DEF OnSubmit
  <2>2. submit' \in Submits /\ (submit'.target # Blank => submit'.target = submit'.form.project)
        /\ (submit'.stage = "project" => submit'.form.project = New)
        /\ (submit'.stage = "sandbox" => submit'.target # Blank)
        /\ submit'.stage \in {"project", "sandbox"}
    <3>1. CASE form.project = New
      <4>1. submit' = [NoSubmit EXCEPT !.stage = "project", !.form = form]
        BY <1>1, <3>1 DEF OnSubmit
      <4> QED
        BY <3>1, <4>1, NoSubmitFacts DEF FormInv, Submits, SubmitStages
    <3>2. CASE form.project # New
      <4>1. submit' = [NoSubmit EXCEPT !.stage = "sandbox", !.form = form, !.target = form.project]
        BY <1>1, <3>2 DEF OnSubmit
      <4>2. form.project \in Projects /\ form \in Forms
        BY <2>1, <3>2 DEF FormInv, Forms
      <4> QED
        BY <2>1, <4>1, <4>2, NoSubmitFacts DEF Submits, SubmitStages
    <3> QED
      BY <3>1, <3>2
  <2> QED
    BY <1>0, <1>a, <2>1, <2>2 DEF FormInv, serverVars, SandboxAsSubmitted
<1>2. CASE ServeProject
  <2>1. made' = made + 1 /\ made < MaxProjects /\ mine' = mine \cup {made'}
        /\ UNCHANGED <<sandboxes, clicks>>
    BY <1>2 DEF ServeProject
  <2>2. made' \in 0..MaxProjects /\ made' \in Projects
    BY <2>1, CreateAssumption DEF FormInv, Projects
  <2>3. submit' = [submit EXCEPT !.stage = "projectMade", !.own = made']
    BY <1>2 DEF ServeProject
  <2>4. submit' \in Submits /\ submit'.stage = "projectMade"
        /\ submit'.target = submit.target /\ submit'.form = submit.form
    BY <1>0, <2>2, <2>3 DEF Submits, SubmitStages
  <2>5. submit.stage = "project"
    BY <1>2 DEF ServeProject
  <2> QED
    BY <1>0, <1>a, <2>1, <2>2, <2>4, <2>5 DEF FormInv, SandboxAsSubmitted
<1>3. CASE ProjectMade
  <2>1. submit' = [submit EXCEPT !.stage = "sandbox", !.target = Blank]
        /\ submit.stage = "projectMade" /\ UNCHANGED <<serverVars, clicks>>
    BY <1>3 DEF ProjectMade
  <2>2. submit' \in Submits /\ submit'.stage = "sandbox"
        /\ submit'.target = Blank /\ submit'.form = submit.form
    BY <1>0, <2>1 DEF Submits, SubmitStages
  <2> QED
    BY <1>0, <1>a, <2>1, <2>2 DEF FormInv, serverVars, SandboxAsSubmitted
<1>4. CASE ServeSandbox
  <2>1. PICK p \in Projects :
          /\ CASE submit.target # Blank -> p = submit.target /\ p \in mine /\ UNCHANGED <<made, mine>>
               [] submit.target = Blank /\ mine # {} -> p \in mine /\ UNCHANGED <<made, mine>>
               [] OTHER -> p = made + 1 /\ made' = p /\ mine' = {p}
          /\ sandboxes' = sandboxes \cup {[click |-> clicks, form |-> submit.form,
                                           own |-> submit.own, project |-> p]}
    BY <1>4 DEF ServeSandbox
  <2>2. submit.stage = "sandbox" /\ clicks' = clicks
        /\ submit' = [submit EXCEPT !.stage = "sandboxMade"]
    BY <1>4 DEF ServeSandbox
  <2>3. submit' \in Submits /\ submit'.stage = "sandboxMade"
        /\ submit'.target = submit.target /\ submit'.form = submit.form
    BY <1>0, <2>2 DEF Submits, SubmitStages
  <2>4. made' \in 0..MaxProjects /\ mine' \subseteq Projects
    BY <2>1 DEF FormInv, Projects
  <2>5. submit.form.project # New => p = submit.form.project
    BY <2>1, <2>2 DEF FormInv
  <2> DEFINE x == [click |-> clicks, form |-> submit.form, own |-> submit.own, project |-> p]
  <2>6. x.click = clicks /\ (x.form.project # New => x.project = x.form.project)
    BY <2>5
  <2>7. sandboxes' = sandboxes \cup {x}
    BY <2>1
  <2> HIDE DEF x
  <2>8. \A s \in sandboxes : s.click # x.click
    BY <2>2, <2>6 DEF FormInv
  <2>9. SandboxAsSubmitted'
    BY <2>6, <2>7, <2>8 DEF FormInv, SandboxAsSubmitted
  <2>10. \A s \in sandboxes' : s.click \in 0..clicks
    BY <2>6, <2>7 DEF FormInv
  <2> QED
    BY <1>0, <1>a, <2>2, <2>3, <2>4, <2>9, <2>10 DEF FormInv
<1>5. CASE SandboxMade \/ SubmitFails
  <2>1. submit' = NoSubmit /\ UNCHANGED <<serverVars, clicks>>
    BY <1>5 DEF SandboxMade, SubmitFails
  <2> QED
    BY <1>0, <1>a, <2>1, NoSubmitFacts DEF FormInv, serverVars, SandboxAsSubmitted
<1> QED
  BY <1>1, <1>2, <1>3, <1>4, <1>5 DEF SubmitStep

LEMMA FormStep ==
  ASSUME FormInv, [CreateNext]_CreateVars
  PROVE  FormInv'
<1>1. CASE UNCHANGED CreateVars
  BY <1>1 DEF CreateVars, serverVars, lookupVars, submitVars, FormInv, ListedBranchIsChosen,
              SandboxAsSubmitted
<1> QED
  BY <1>1, ProjectsStep, BranchesStep, SubmitKeeps DEF CreateNext

\* A timeout is of a URL that was typed, and a submission of a click.
FormTypes ==
    /\ CreateTypeOK
    /\ timer => urls # 0
    /\ submit.stage # "idle" => clicks # 0

LEMMA FormTypesStep ==
  ASSUME FormInv, FormTypes, [CreateNext]_CreateVars
  PROVE  FormTypes'
<1> USE DEF FormTypes
<1>0. MaxProjects \in Nat /\ MaxUrls \in Nat /\ MaxClicks \in Nat
  BY CreateAssumption
<1>a. made \in 0..MaxProjects /\ urls \in 0..MaxUrls /\ clicks \in 0..MaxClicks /\ mine \subseteq 1..made
  BY DEF CreateTypeOK
<1>b. timer \in BOOLEAN /\ fetching \in BOOLEAN /\ left \in BOOLEAN
  BY DEF CreateTypeOK
<1>1. FormInv'
  BY FormStep
<1>2. CASE JoinProject \/ ProjectsArrive \/ (\E p \in Projects \cup {New} : ChooseProject(p))
  <2>1. UNCHANGED <<sandboxes, lookupVars, submitVars>>
    BY <1>2 DEF JoinProject, ProjectsArrive, ChooseProject, serverVars
  <2>2. made' \in 0..MaxProjects /\ mine' \subseteq 1..made'
    <3>1. CASE JoinProject
      <4>1. made < MaxProjects /\ made' = made + 1 /\ mine' = mine \cup {made'}
        BY <3>1 DEF JoinProject
      <4> QED
        BY <1>0, <1>a, <4>1
    <3>2. CASE ProjectsArrive \/ (\E p \in Projects \cup {New} : ChooseProject(p))
      BY <1>a, <3>2 DEF ProjectsArrive, ChooseProject, serverVars
    <3> QED
      BY <1>2, <3>1, <3>2
  <2> QED
    BY <1>1, <2>1, <2>2 DEF CreateTypeOK, FormInv, lookupVars, submitVars
<1>3. CASE (\E u \in Repos : TypeUrl(u)) \/ (\E b \in BranchNames : ChooseBranch(b))
  <2>1. UNCHANGED <<serverVars, known, fetching, lookups, submitVars>>
    BY <1>3 DEF TypeUrl, ChooseBranch, lookupVars
  <2>2. timer' \in BOOLEAN /\ urls' \in 0..MaxUrls /\ (timer' => urls' # 0)
    <3>1. CASE \E u \in Repos : TypeUrl(u)
      <4>1. urls < MaxUrls /\ urls' = urls + 1 /\ timer' = TRUE
        BY <3>1 DEF TypeUrl
      <4> QED
        BY <1>0, <1>a, <4>1
    <3>2. CASE \E b \in BranchNames : ChooseBranch(b)
      <4>1. timer' = timer /\ urls' = urls
        BY <3>2 DEF ChooseBranch, lookupVars
      <4> QED
        BY <1>a, <1>b, <4>1
    <3> QED
      BY <1>3, <3>1, <3>2
  <2> QED
    BY <1>1, <2>1, <2>2 DEF CreateTypeOK, FormInv, serverVars, submitVars
<1>4. CASE FetchBranches \/ LookupStep
  <2>1. UNCHANGED <<serverVars, known, urls, submitVars>>
    BY <1>4 DEF FetchBranches, LookupStep, BranchesArrive
  <2>2. lookups \subseteq 1..MaxUrls
    BY DEF CreateTypeOK
  <2>3. fetching' \in BOOLEAN /\ timer' \in BOOLEAN /\ (timer' => timer)
    <3>1. CASE FetchBranches
      BY <3>1 DEF FetchBranches
    <3>2. CASE LookupStep
      <4>1. fetching' = FALSE /\ timer' = timer
        BY <3>2 DEF LookupStep, BranchesArrive
      <4> QED
        BY <1>b, <4>1
    <3> QED
      BY <1>4, <3>1, <3>2
  <2>4. lookups' \subseteq 1..MaxUrls
    <3>1. CASE FetchBranches
      <4>1. urls # 0 /\ lookups' = lookups \cup {urls}
        BY <3>1 DEF FetchBranches
      <4> QED
        BY <1>0, <1>a, <2>2, <4>1
    <3>2. CASE LookupStep
      BY <2>2, <3>2 DEF LookupStep, BranchesArrive
    <3> QED
      BY <1>4, <3>1, <3>2
  <2> QED
    BY <1>1, <1>a, <2>1, <2>2, <2>3, <2>4 DEF CreateTypeOK, FormInv, serverVars, submitVars
<1>5. CASE UNCHANGED CreateVars
  BY <1>5 DEF CreateVars, CreateTypeOK, serverVars, lookupVars, submitVars
<1>6. CASE OnSubmit
  <2>1. submit'.stage # "idle" /\ clicks' \in 0..MaxClicks /\ clicks' # 0
    <3>1. clicks < MaxClicks /\ clicks' = clicks + 1
      BY <1>6 DEF OnSubmit
    <3>2. submit'.stage # "idle"
      BY <1>6 DEF OnSubmit, NoSubmit
    <3> QED
      BY <1>0, <1>a, <3>1, <3>2
  <2> QED
    BY <1>1, <1>6, <2>1 DEF OnSubmit, CreateTypeOK, FormInv, Submits, SubmitStages, serverVars, lookupVars
<1>7. CASE SubmitStep
  <2>1. UNCHANGED <<lookupVars, clicks>> /\ left' \in BOOLEAN /\ submit.stage # "idle"
    BY <1>7 DEF SubmitStep, ServeProject, ProjectMade, ServeSandbox, SandboxMade, SubmitFails, CreateTypeOK
  <2>2. /\ made' \in 0..MaxProjects /\ mine' \subseteq 1..made'
        /\ \A s \in sandboxes' : s \in sandboxes \/
             (/\ s.click = clicks /\ s.form = submit.form /\ s.own = submit.own /\ s.project \in Projects
              /\ s = [click |-> s.click, form |-> s.form, own |-> s.own, project |-> s.project])
    <3>1. CASE ServeProject
      <4>1. made < MaxProjects /\ made' = made + 1 /\ mine' = mine \cup {made'} /\ sandboxes' = sandboxes
        BY <3>1 DEF ServeProject
      <4> QED
        BY <1>0, <1>a, <4>1
    <3>2. CASE ServeSandbox
      <4>1. PICK p \in Projects :
              /\ (made' = made /\ mine' = mine) \/ (p = made + 1 /\ made' = p /\ mine' = {p})
              /\ sandboxes' = sandboxes \cup {[click |-> clicks, form |-> submit.form,
                                               own |-> submit.own, project |-> p]}
        BY <3>2 DEF ServeSandbox
      <4>2. made' \in 0..MaxProjects /\ mine' \subseteq 1..made'
        <5>1. CASE made' = made /\ mine' = mine
          BY <1>a, <5>1
        <5>2. CASE p = made + 1 /\ made' = p /\ mine' = {p}
          <6>1. p \in 1..MaxProjects
            BY DEF Projects
          <6> QED
            BY <1>0, <5>2, <6>1
        <5> QED
          BY <4>1, <5>1, <5>2
      <4>3. ASSUME NEW s \in sandboxes', s \notin sandboxes
            PROVE  s = [click |-> clicks, form |-> submit.form, own |-> submit.own, project |-> p]
        BY <4>1, <4>3
      <4> QED
        BY <4>1, <4>2, <4>3
    <3>3. CASE ProjectMade \/ SandboxMade \/ SubmitFails
      BY <3>3 DEF ProjectMade, SandboxMade, SubmitFails, serverVars, CreateTypeOK
    <3> QED
      BY <1>7, <3>1, <3>2, <3>3 DEF SubmitStep
  <2>3. clicks \in 1..MaxClicks /\ submit \in Submits
    BY <2>1 DEF CreateTypeOK, FormInv
  <2>4. sandboxes' \subseteq [click : 1..MaxClicks, form : Forms, own : Projects \cup {Blank},
                              project : Projects]
    BY <2>2, <2>3 DEF CreateTypeOK, Submits
  <2> QED
    BY <1>1, <2>1, <2>2, <2>4 DEF CreateTypeOK, FormInv, Submits, SubmitStages, lookupVars
<1> QED
  BY <1>2, <1>3, <1>4, <1>5, <1>6, <1>7 DEF CreateNext

LEMMA FormAlways == CreateInit /\ [][CreateNext]_CreateVars => [](FormInv /\ FormTypes)
<1>1. ASSUME CreateInit PROVE FormTypes
  <2>1. made \in 0..MaxProjects /\ urls \in 0..MaxUrls /\ clicks \in 0..MaxClicks
    BY <1>1, CreateAssumption DEF CreateInit
  <2>2. submit \in Submits /\ submit.stage = "idle" /\ form \in Forms
    BY <1>1, NoSubmitFacts DEF CreateInit
  <2> QED
    BY <1>1, <2>1, <2>2 DEF CreateInit, FormTypes, CreateTypeOK, Submits, SubmitStages
<1> QED
  BY <1>1, FormInit, FormStep, FormTypesStep, PTL

\* The branch to deploy is one the form offers (upload/page.tsx:72-111).
THEOREM BranchIsListed == CreateSpec => []ListedBranchIsChosen
<1>1. FormInv => ListedBranchIsChosen
  BY DEF FormInv
<1> QED
  BY <1>1, FormAlways, PTL DEF CreateSpec

\* One click makes one sandbox at most, in the project that was chosen
\* (upload/page.tsx:113-155).
THEOREM SandboxIsAsSubmitted == CreateSpec => []SandboxAsSubmitted
<1>1. FormInv => SandboxAsSubmitted
  BY DEF FormInv
<1> QED
  BY <1>1, FormAlways, PTL DEF CreateSpec

-----------------------------------------------------------------------------
(* The members of a project.                                                 *)

Members == [id : Nat, user : Users, role : Roles \cup {"OWNER"}, accepted : BOOLEAN]
CallRecords == [id : Nat, kind : Kinds, by : Users, user : Users, role : Roles,
                as : Roles \cup {"OWNER", "none"}, stage : Stages, row : Members \cup {NoRow}]

\* A row that was stored, and the owner's only with the owner's id.
GoodRow(r) ==
    /\ r \in Members /\ r.id \in 0..stored
    /\ r.id = 0 \/ r.role = "OWNER" => r \in {OwnerRow, PendingOwnerRow}

\* What a request has read: an acceptance and a removal hold a row that was
\* stored, and a removal one that is not the owner's.
GoodCall(c) ==
    /\ c \in CallRecords
    /\ c.stage = "read" /\ c.kind \in {"accept", "remove"} => GoodRow(c.row)
    /\ c.stage = "read" /\ c.kind = "remove" => c.row.role # "OWNER"

\* The owner's row is the only one with its id and its role, an id names one
\* row, and no id is given twice, deleted or not.
MemberInv ==
    /\ stored \in Nat /\ sent \in Nat
    /\ \A r \in rows : GoodRow(r)
    /\ shared => OwnerRow \in rows
    /\ gone \subseteq 0..stored
    /\ \A r, s \in rows : r.id = s.id => r = s
    /\ \A c \in calls : GoodCall(c)
    /\ WithdrawnIsNotOffered

LEMMA OwnerRowFacts ==
  /\ OwnerRow \in Members /\ PendingOwnerRow \in Members
  /\ OwnerRow.id = 0 /\ OwnerRow.user = Owner /\ OwnerRow.role = "OWNER"
  /\ PendingOwnerRow.id = 0 /\ PendingOwnerRow.user = Owner /\ PendingOwnerRow.role = "OWNER"
  /\ OwnerRow.accepted = TRUE /\ PendingOwnerRow.accepted = FALSE
  /\ [PendingOwnerRow EXCEPT !.accepted = TRUE] = OwnerRow
  /\ [OwnerRow EXCEPT !.accepted = TRUE] = OwnerRow
<1> DEFINE T == [id : Nat, user : Users, role : Roles \cup {"OWNER"}, accepted : BOOLEAN]
<1>1. OwnerRow \in T /\ OwnerRow.accepted = TRUE
  BY DEF OwnerRow, Users
<1>2. \A r \in T : /\ [r EXCEPT !.accepted = FALSE] \in T
                   /\ r.accepted = TRUE => [r EXCEPT !.accepted = TRUE] = r
                   /\ r.accepted = TRUE => [[r EXCEPT !.accepted = FALSE] EXCEPT !.accepted = TRUE] = r
                   /\ [r EXCEPT !.accepted = FALSE].accepted = FALSE
  OBVIOUS
<1>3. /\ OwnerRow.id = 0 /\ OwnerRow.user = Owner /\ OwnerRow.role = "OWNER"
      /\ PendingOwnerRow.id = 0 /\ PendingOwnerRow.user = Owner /\ PendingOwnerRow.role = "OWNER"
  BY DEF OwnerRow, PendingOwnerRow
<1> QED
  BY <1>1, <1>2, <1>3 DEF PendingOwnerRow, Members

LEMMA MemberInit == InviteInit => MemberInv
<1> SUFFICES ASSUME InviteInit PROVE MemberInv
  OBVIOUS
<1>1. stored = 0 /\ sent = 0 /\ gone = {} /\ calls = {} /\ (shared => rows = {OwnerRow})
  BY DEF InviteInit
<1>2. rows = {OwnerRow} \/ rows = {PendingOwnerRow}
  BY DEF InviteInit
<1>3. \A r \in rows : GoodRow(r)
  BY <1>1, <1>2, OwnerRowFacts DEF GoodRow
<1> QED
  BY <1>1, <1>2, <1>3 DEF MemberInv, WithdrawnIsNotOffered

-----------------------------------------------------------------------------
(* Steps that only change what a request holds.                              *)

LEMMA CallKept ==
  ASSUME MemberInv, NEW c \in calls, NEW d, GoodCall(d), Step(c, d), UNCHANGED <<tableVars, sent>>
  PROVE  MemberInv'
BY DEF MemberInv, Step, tableVars, GoodCall, GoodRow, WithdrawnIsNotOffered

LEMMA CallDone ==
  ASSUME MemberInv, NEW c \in calls, Done(c), UNCHANGED <<tableVars, sent>>
  PROVE  MemberInv'
<1> DEFINE d == [c EXCEPT !.stage = "done"]
<1>1. GoodCall(d)
  BY DEF MemberInv, GoodCall, CallRecords, Stages
<1>2. Step(c, d)
  BY DEF Done
<1> HIDE DEF d
<1> QED
  BY <1>1, <1>2, CallKept

\* A request that reads a row, for a removal one that is not the owner's.
LEMMA CallReads ==
  ASSUME MemberInv, NEW c \in calls, NEW r \in rows, c.kind = "remove" => r.role # "OWNER",
         Step(c, [c EXCEPT !.stage = "read", !.row = r]), UNCHANGED <<tableVars, sent>>
  PROVE  MemberInv'
<1> DEFINE d == [c EXCEPT !.stage = "read", !.row = r]
<1>1. GoodRow(r) /\ r \in Members
  BY DEF MemberInv, GoodRow
<1>2. c \in CallRecords
  BY DEF MemberInv, GoodCall
<1>3. d \in CallRecords /\ d.row = r /\ d.kind = c.kind
  BY <1>1, <1>2 DEF CallRecords, Stages
<1>4. GoodCall(d)
  BY <1>1, <1>3 DEF GoodCall
<1> HIDE DEF d
<1> QED
  BY <1>4, CallKept DEF d

-----------------------------------------------------------------------------
(* Steps that change the table.                                              *)

\* Deleting rows but the accepted one of the owner.
LEMMA Deleted ==
  ASSUME MemberInv, NEW c \in calls, NEW rs \in SUBSET rows, OwnerRow \notin rs,
         Delete(rs), Done(c), UNCHANGED <<shared, stored, sent>>
  PROVE  MemberInv'
<1> DEFINE d == [c EXCEPT !.stage = "done"]
<1>1. GoodCall(d)' /\ calls' = (calls \ {c}) \cup {d}
  BY DEF MemberInv, GoodCall, CallRecords, Stages, GoodRow, Done, Step
<1> HIDE DEF d
<1>2. \A x \in calls : GoodCall(x)'
  BY DEF MemberInv, GoodCall, GoodRow
<1>3. rows' = rows \ rs /\ gone' = gone \cup {r.id : r \in rs}
  BY DEF Delete, Ids
<1>4. \A r \in rs : r.id \in 0..stored
  BY DEF MemberInv, GoodRow
<1>5. gone' \subseteq 0..stored
  BY <1>3, <1>4 DEF MemberInv
<1>6. ASSUME NEW r \in rows', r.id \in gone' PROVE r.accepted
  <2>1. \A s \in rs : s.id # r.id
    BY <1>3, <1>6 DEF MemberInv
  <2> QED
    BY <1>3, <1>6, <2>1 DEF MemberInv, WithdrawnIsNotOffered
<1>7. \A r \in rows' : GoodRow(r)'
  BY <1>3 DEF MemberInv, GoodRow
<1> QED
  BY <1>1, <1>2, <1>3, <1>5, <1>6, <1>7 DEF MemberInv, WithdrawnIsNotOffered

LEMMA Created ==
  ASSUME MemberInv, NEW c \in calls, InviteCreates(c)
  PROVE  MemberInv'
<1> DEFINE d == [c EXCEPT !.stage = "done"]
<1> PICK new : new = [id |-> stored + 1, user |-> c.user, role |-> c.role, accepted |-> FALSE]
  OBVIOUS
<1>1. c \in CallRecords /\ stored \in Nat /\ stored' = stored + 1
  BY DEF MemberInv, GoodCall, InviteCreates
<1>2. new \in Members /\ new.id = stored + 1 /\ new.role # "OWNER"
  BY <1>1 DEF CallRecords, Members, Roles
<1>3. rows' = rows \cup {new} /\ UNCHANGED <<shared, gone, sent>>
  BY DEF InviteCreates
<1>4. calls' = (calls \ {c}) \cup {d} /\ d \in CallRecords /\ d.stage = "done"
  BY <1>1 DEF InviteCreates, Done, Step, CallRecords, Stages
<1> HIDE DEF d
<1>5. \A r : GoodRow(r) => GoodRow(r)'
  BY <1>1 DEF GoodRow
<1>6. \A x \in calls' : GoodCall(x)'
  BY <1>4, <1>5 DEF MemberInv, GoodCall
<1>7. \A r \in rows : r.id # new.id /\ r.id \in Nat
  BY <1>1, <1>2 DEF MemberInv, GoodRow
<1>8. \A r \in rows' : r.id \in gone => r.accepted
  BY <1>1, <1>2, <1>3 DEF MemberInv, WithdrawnIsNotOffered
<1>9. \A r, s \in rows' : r.id = s.id => r = s
  BY <1>3, <1>7 DEF MemberInv
<1>10. \A r \in rows' : GoodRow(r)'
  <2>1. GoodRow(new)'
    <3>1. ~(new.id = 0) /\ new.id \in 0..stored'
      BY <1>1, <1>2
    <3> QED
      BY <1>2, <3>1 DEF GoodRow
  <2>2. \A r \in rows : GoodRow(r)'
    BY <1>5 DEF MemberInv
  <2> QED
    BY <1>3, <2>1, <2>2
<1> QED
  BY <1>1, <1>3, <1>6, <1>8, <1>9, <1>10 DEF MemberInv, WithdrawnIsNotOffered

\* What an acceptance writes: never a second owner, and the owner's own
\* acceptance writes the row of an owner who has accepted.
LEMMA AcceptedRow ==
  ASSUME MemberInv, NEW c \in calls, AcceptSaves(c), NEW new, new = [c.row EXCEPT !.accepted = TRUE]
  PROVE  /\ GoodRow(new) /\ new.id = c.row.id /\ new.accepted
         /\ new.id = 0 \/ new.role = "OWNER" => new = OwnerRow
         /\ rows' = {r \in rows : r.id # new.id} \cup {new}
<1>1. c \in CallRecords /\ GoodRow(c.row)
  BY DEF MemberInv, GoodCall, AcceptSaves
<1>2. new \in Members /\ new.id = c.row.id /\ new.role = c.row.role /\ new.accepted
  BY <1>1 DEF Members, GoodRow
<1>3. new.id = 0 \/ new.role = "OWNER" => new = OwnerRow
  BY <1>1, <1>2, OwnerRowFacts DEF GoodRow
<1> QED
  BY <1>1, <1>2, <1>3 DEF GoodRow, AcceptSaves

LEMMA Accepted ==
  ASSUME MemberInv, NEW c \in calls, AcceptSaves(c)
  PROVE  MemberInv'
<1> DEFINE d == [c EXCEPT !.stage = "done"]
           new == [c.row EXCEPT !.accepted = TRUE]
<1>1. /\ GoodRow(new) /\ new.accepted
      /\ new.id = 0 \/ new.role = "OWNER" => new = OwnerRow
      /\ rows' = {r \in rows : r.id # new.id} \cup {new}
  BY AcceptedRow
<1>2. UNCHANGED <<shared, stored, gone, sent>>
  BY DEF AcceptSaves
<1>3. calls' = (calls \ {c}) \cup {d} /\ d \in CallRecords /\ d.stage = "done"
  <2>1. c \in CallRecords
    BY DEF MemberInv, GoodCall
  <2> QED
    BY <2>1 DEF AcceptSaves, Done, Step, CallRecords, Stages
<1> HIDE DEF d, new
<1>4. \A r : GoodRow(r) => GoodRow(r)'
  BY <1>2 DEF GoodRow
<1>5. \A x \in calls' : GoodCall(x)'
  BY <1>3, <1>4 DEF MemberInv, GoodCall
<1>6. shared => OwnerRow \in rows'
  BY <1>1, OwnerRowFacts DEF MemberInv
<1> QED
  BY <1>1, <1>2, <1>4, <1>5, <1>6 DEF MemberInv, WithdrawnIsNotOffered

LEMMA Booted ==
  ASSUME MemberInv, Boot
  PROVE  MemberInv'
<1> DEFINE F(r) == [r EXCEPT !.accepted = TRUE]
<1>1. rows' = {F(r) : r \in rows} /\ calls' = {} /\ UNCHANGED <<shared, stored, gone, sent>>
  BY DEF Boot
<1>2. \A r \in rows : F(r) \in Members /\ F(r).id = r.id /\ F(r).role = r.role /\ F(r).accepted
  BY DEF MemberInv, GoodRow, Members
<1>3. F(OwnerRow) = OwnerRow /\ F(PendingOwnerRow) = OwnerRow
  BY OwnerRowFacts
<1> HIDE DEF F
<1>4. \A r \in rows' : \E s \in rows : r = F(s) /\ r.id = s.id /\ r.role = s.role
                                       /\ r.accepted /\ r \in Members /\ GoodRow(s)
  BY <1>1, <1>2 DEF MemberInv
<1>5. shared => OwnerRow \in rows'
  BY <1>1, <1>3 DEF MemberInv
<1>6. \A r \in rows' : GoodRow(r)'
  BY <1>1, <1>3, <1>4 DEF GoodRow
<1>7. \A r, s \in rows' : r.id = s.id => r = s
  BY <1>4 DEF MemberInv
<1> QED
  BY <1>1, <1>4, <1>5, <1>6, <1>7 DEF MemberInv, WithdrawnIsNotOffered

-----------------------------------------------------------------------------
(* The removal of a member: an owner is the last owner.                      *)

LEMMA OneOwner ==
  ASSUME MemberInv
  PROVE  Cardinality({o \in rows : o.role = "OWNER"}) \in 0..1
<1> DEFINE S == {o \in rows : o.role = "OWNER"}
<1>1. CASE S = {}
  BY <1>1, FS_EmptySet
<1>2. CASE S # {}
  <2>1. PICK o \in S : TRUE
    BY <1>2
  <2>2. \A r \in S : r.id = 0
    BY OwnerRowFacts DEF MemberInv, GoodRow
  <2>3. S = {o}
    BY <2>1, <2>2 DEF MemberInv
  <2>4. Cardinality(S) = 1
    BY <2>3, FS_Singleton
  <2> QED
    BY <2>4
<1> QED
  BY <1>1, <1>2

LEMMA RemovableIsNoOwner ==
  ASSUME MemberInv, NEW c, NEW r, MayRemove(c, r)
  PROVE  r.role # "OWNER"
<1>1. CASE c.by # c.user
  BY <1>1 DEF MayRemove
<1>2. CASE c.by = c.user
  <2>1. \A n \in 0..1 : ~(n > 1)
    OBVIOUS
  <2> QED
    BY <1>2, <2>1, OneOwner DEF MayRemove
<1> QED
  BY <1>1, <1>2

LEMMA PendingIsNotAccepted ==
  ASSUME NEW u
  PROVE  Pending(u) \subseteq rows /\ OwnerRow \notin Pending(u)
BY OwnerRowFacts DEF Pending, RowsOf

\* A removal that has read deletes no owner's row.
LEMMA RemovedIsNoOwner ==
  ASSUME MemberInv, NEW c \in calls, RemoveDeletes(c)
  PROVE  c.row.id # 0
BY OwnerRowFacts DEF MemberInv, GoodCall, GoodRow, RemoveDeletes

LEMMA CallStepKeeps ==
  ASSUME MemberInv, NEW c \in calls, CallStep(c)
  PROVE  MemberInv'
<1>0. c \in CallRecords
  BY DEF MemberInv, GoodCall
<1>1. CASE AuthorizeProjectAccess(c)
  <2>1. CASE Done(c)
    BY <1>1, <2>1, CallDone DEF AuthorizeProjectAccess
  <2>2. ASSUME NEW r \in rows, Step(c, [c EXCEPT !.stage = "allowed", !.as = r.role])
        PROVE  MemberInv'
    <3> DEFINE d == [c EXCEPT !.stage = "allowed", !.as = r.role]
    <3>1. r.role \in Roles \cup {"OWNER"}
      BY DEF MemberInv, GoodRow, Members
    <3>2. d \in CallRecords /\ d.stage = "allowed"
      BY <1>0, <3>1 DEF CallRecords, Stages
    <3> HIDE DEF d
    <3>3. GoodCall(d)
      BY <3>2 DEF GoodCall
    <3> QED
      BY <1>1, <2>2, <3>3, CallKept DEF AuthorizeProjectAccess, d
  <2> QED
    BY <1>1, <2>1, <2>2 DEF AuthorizeProjectAccess, RowsOf
<1>2. CASE InviteChecks(c)
  <2>1. CASE Done(c)
    BY <1>2, <2>1, CallDone DEF InviteChecks
  <2>2. CASE Step(c, [c EXCEPT !.stage = "read"])
    <3> DEFINE d == [c EXCEPT !.stage = "read"]
    <3>1. d \in CallRecords /\ d.kind = "invite"
      BY <1>0, <1>2 DEF InviteChecks, CallRecords, Stages
    <3> HIDE DEF d
    <3>2. GoodCall(d)
      BY <3>1 DEF GoodCall
    <3> QED
      BY <1>2, <2>2, <3>2, CallKept DEF InviteChecks, d
  <2> QED
    BY <1>2, <2>1, <2>2 DEF InviteChecks
<1>3. CASE InviteCreates(c)
  BY <1>3, Created
<1>4. CASE AcceptReads(c)
  <2>1. ASSUME NEW r \in Pending(c.by), Step(c, [c EXCEPT !.stage = "read", !.row = r]) PROVE MemberInv'
    BY <1>4, <2>1, PendingIsNotAccepted, CallReads DEF AcceptReads
  <2> QED
    BY <1>4, <2>1, CallDone DEF AcceptReads
<1>5. CASE AcceptSaves(c)
  BY <1>5, Accepted
<1>6. CASE Declines(c)
  BY <1>6, Deleted, PendingIsNotAccepted DEF Declines
<1>7. CASE RemoveReads(c)
  <2>1. ASSUME NEW r \in RowsOf(c.user), MayRemove(c, r),
               Step(c, [c EXCEPT !.stage = "read", !.row = r])
        PROVE  MemberInv'
    BY <1>7, <2>1, RemovableIsNoOwner, CallReads DEF RemoveReads, RowsOf
  <2> QED
    BY <1>7, <2>1, CallDone DEF RemoveReads
<1>8. CASE RemoveDeletes(c)
  <2>1. OwnerRow \notin {r \in rows : r.id = c.row.id}
    BY <1>8, RemovedIsNoOwner, OwnerRowFacts
  <2> QED
    BY <1>8, <2>1, Deleted DEF RemoveDeletes
<1>9. CASE CallEnds(c)
  BY <1>9 DEF CallEnds, MemberInv, tableVars, GoodCall, GoodRow, WithdrawnIsNotOffered
<1> QED
  BY <1>1, <1>2, <1>3, <1>4, <1>5, <1>6, <1>7, <1>8, <1>9 DEF CallStep

-----------------------------------------------------------------------------
LEMMA SendKeeps ==
  ASSUME MemberInv, NEW kind \in Kinds, NEW by \in Users, NEW user \in Users, NEW role \in Roles,
         Send(kind, by, user, role)
  PROVE  MemberInv'
<1> DEFINE d == [id |-> sent', kind |-> kind, by |-> by, user |-> user, role |-> role,
                 as |-> "none", stage |-> "sent", row |-> NoRow]
<1>1. sent' \in Nat
  BY DEF Send, MemberInv
<1>2. d \in CallRecords /\ d.stage = "sent"
  BY <1>1 DEF CallRecords, Stages
<1>3. calls' = calls \cup {d} /\ UNCHANGED tableVars
  BY DEF Send
<1> HIDE DEF d
<1>4. \A r : GoodRow(r) => GoodRow(r)'
  BY <1>3 DEF GoodRow, tableVars
<1>5. \A x \in calls' : GoodCall(x)'
  BY <1>2, <1>3, <1>4 DEF MemberInv, GoodCall
<1> QED
  BY <1>1, <1>3, <1>4, <1>5 DEF MemberInv, tableVars, WithdrawnIsNotOffered

LEMMA MemberStep ==
  ASSUME MemberInv, [InviteNext]_InviteVars
  PROVE  MemberInv'
<1>1. ASSUME NEW by \in Users, NEW role \in Roles, HandleInvite(by, role) PROVE MemberInv'
  BY <1>1, SendKeeps DEF HandleInvite, Kinds, Users
<1>2. ASSUME NEW by \in Users, NEW user \in Users, HandleRemoveCollaborator(by, user) PROVE MemberInv'
  BY <1>2, SendKeeps DEF HandleRemoveCollaborator, Kinds, Roles
<1>3. ASSUME NEW kind \in {"accept", "decline"}, NEW by \in Users, AnswerInvite(kind, by) PROVE MemberInv'
  BY <1>3, SendKeeps DEF AnswerInvite, Kinds, Roles
<1>4. CASE (\E u \in Users : ProjectArrives(u) \/ InvitesArrive(u)) \/ UNCHANGED InviteVars
  <2>1. UNCHANGED <<tableVars, callVars>>
    BY <1>4 DEF InvitesArrive, ProjectArrives, InviteVars
  <2> QED
    BY <2>1 DEF tableVars, callVars, MemberInv, GoodCall, GoodRow, WithdrawnIsNotOffered
<1> QED
  BY <1>1, <1>2, <1>3, <1>4, CallStepKeeps, Booted DEF InviteNext

\* What a step does to the row of an owner.
LEMMA OwnerStep ==
  ASSUME MemberInv, [InviteNext]_InviteVars, NEW r \in rows, r.role = "OWNER"
  PROVE  \/ OwnerRow \in rows'
         \/ ~r.accepted /\ r \in rows'
         \/ ~r.accepted /\ ~shared /\ \E c \in calls : c.kind = "decline" /\ c.by = r.user
<1>1. r \in {OwnerRow, PendingOwnerRow} /\ r.id = 0
  BY OwnerRowFacts DEF MemberInv, GoodRow
<1>2. r = OwnerRow \/ ~r.accepted
  BY <1>1, OwnerRowFacts
<1>3. CASE r \in rows'
  BY <1>2, <1>3
<1>4. ASSUME NEW c \in calls, AcceptSaves(c) PROVE r \in rows' \/ OwnerRow \in rows'
  <2> DEFINE new == [c.row EXCEPT !.accepted = TRUE]
  <2>1. rows' = {x \in rows : x.id # new.id} \cup {new} /\ (new.id = 0 => new = OwnerRow)
    BY <1>4, AcceptedRow
  <2> QED
    BY <1>1, <2>1
<1>5. ASSUME NEW c \in calls, Declines(c), r \notin rows'
      PROVE  ~r.accepted /\ ~shared /\ c.kind = "decline" /\ c.by = r.user
  <2>1. r \in Pending(c.by) /\ c.kind = "decline"
    BY <1>5 DEF Declines, Delete
  <2>2. r.user = c.by /\ ~r.accepted /\ r # OwnerRow
    BY <2>1, OwnerRowFacts DEF Pending, RowsOf
  <2>3. ~shared
    BY <1>1, <2>2, OwnerRowFacts DEF MemberInv
  <2> QED
    BY <2>1, <2>2, <2>3
<1>6. ASSUME NEW c \in calls, RemoveDeletes(c) PROVE r \in rows'
  BY <1>1, <1>6, RemovedIsNoOwner DEF RemoveDeletes, Delete
<1>7. ASSUME NEW c \in calls, CallStep(c) PROVE r \in rows' \/ AcceptSaves(c) \/ Declines(c)
  BY <1>6, <1>7 DEF CallStep, AuthorizeProjectAccess, InviteChecks, InviteCreates, AcceptReads,
                    RemoveReads, CallEnds, tableVars
<1>8. CASE Boot
  BY <1>1, <1>8, OwnerRowFacts DEF Boot
<1>9. ASSUME ~Boot, ~(\E c \in calls : CallStep(c)) PROVE r \in rows'
  BY <1>9 DEF InviteNext, HandleInvite, HandleRemoveCollaborator, AnswerInvite, Send,
              ProjectArrives, InvitesArrive, InviteVars, tableVars
<1> QED
  BY <1>3, <1>4, <1>5, <1>7, <1>8, <1>9

LEMMA InviteTypesStep ==
  ASSUME MemberInv, InviteTypeOK, [InviteNext]_InviteVars
  PROVE  InviteTypeOK'
<1> DEFINE CallTypes == [id : 1..MaxCalls, kind : Kinds, by : Users, user : Users,
                         role : Roles, as : Roles \cup {"OWNER", "none"}, stage : Stages, row : Rows]
<1>a. MaxInvites \in Nat /\ MaxCalls \in Nat
  BY InviteAssumption
<1>b. NoRow \in Rows
  <2>1. OwnerRow \in Rows
    BY <1>a DEF OwnerRow, Rows, Users
  <2> QED
    BY <2>1 DEF NoRow, Rows
<1>0. NoRow \in Rows /\ calls \subseteq CallTypes /\ rows \subseteq Rows
  BY <1>b DEF InviteTypeOK
<1>1. ASSUME NEW kind \in Kinds, NEW by \in Users, NEW user \in Users, NEW role \in Roles,
             Send(kind, by, user, role)
      PROVE  InviteTypeOK'
  BY <1>a, <1>0, <1>1 DEF Send, InviteTypeOK, Stages, tableVars, listVars
<1>2. CASE \/ \E by \in Users, role \in Roles : HandleInvite(by, role)
           \/ \E by, user \in Users : HandleRemoveCollaborator(by, user)
           \/ \E kind \in {"accept", "decline"}, by \in Users : AnswerInvite(kind, by)
  BY <1>1, <1>2 DEF HandleInvite, HandleRemoveCollaborator, AnswerInvite, Kinds, Users, Roles
<1>3. CASE \E u \in Users : ProjectArrives(u)
  BY <1>3 DEF ProjectArrives, InviteTypeOK, tableVars, callVars
<1>4. ASSUME NEW u \in Users, InvitesArrive(u) PROVE InviteTypeOK'
  <2>1. \A r \in Pending(u) : r.id \in 0..MaxInvites
    BY <1>0, PendingIsNotAccepted DEF Rows
  <2>2. Ids(Pending(u)) \in SUBSET (0..MaxInvites)
    BY <2>1 DEF Ids
  <2> QED
    BY <1>4, <2>2 DEF InvitesArrive, InviteTypeOK, tableVars, callVars
<1>5. CASE Boot
  <2>1. \A r \in rows : [r EXCEPT !.accepted = TRUE] \in Rows
    BY <1>0 DEF Rows
  <2> QED
    BY <1>5, <2>1 DEF Boot, InviteTypeOK, listVars
<1>6. CASE UNCHANGED InviteVars
  BY <1>6 DEF InviteVars, tableVars, callVars, listVars, InviteTypeOK
<1>7. ASSUME NEW c \in calls, CallStep(c) PROVE InviteTypeOK'
  <2>1. c \in CallTypes /\ UNCHANGED <<sent, listVars>>
    BY <1>0, <1>7 DEF CallStep, AuthorizeProjectAccess, InviteChecks, InviteCreates, AcceptReads,
                      AcceptSaves, Declines, RemoveReads, RemoveDeletes, CallEnds
  <2>2. /\ [c EXCEPT !.stage = "done"] \in CallTypes
        /\ [c EXCEPT !.stage = "read"] \in CallTypes
        /\ \A r \in Rows : [c EXCEPT !.stage = "read", !.row = r] \in CallTypes
        /\ \A r \in rows : [c EXCEPT !.stage = "allowed", !.as = r.role] \in CallTypes
        /\ [c.row EXCEPT !.accepted = TRUE] \in Rows
    <3>1. \A r \in rows : r.role \in Roles \cup {"OWNER"}
      BY DEF MemberInv, GoodRow, Members
    <3> QED
      BY <2>1, <3>1 DEF Rows, Stages
  <2>3. \A d \in CallTypes : Step(c, d) => calls' \subseteq CallTypes
    BY <1>0 DEF Step
  <2>4. calls' \subseteq CallTypes
    BY <1>0, <1>7, <2>2, <2>3
       DEF CallStep, AuthorizeProjectAccess, InviteChecks, InviteCreates, AcceptReads, AcceptSaves,
           Declines, RemoveReads, RemoveDeletes, CallEnds, Done, Pending, RowsOf
  <2>5. shared' \in BOOLEAN /\ rows' \subseteq Rows /\ stored' \in 0..MaxInvites /\ gone' \subseteq 0..MaxInvites
    <3>1. CASE InviteCreates(c)
      <4>1. stored' \in 0..MaxInvites
        BY <1>a, <3>1 DEF InviteCreates, InviteTypeOK
      <4>2. [id |-> stored', user |-> c.user, role |-> c.role, accepted |-> FALSE] \in Rows
        BY <1>a, <2>1, <4>1 DEF Rows
      <4> QED
        BY <1>0, <3>1, <4>1, <4>2 DEF InviteCreates, InviteTypeOK
    <3>2. CASE AcceptSaves(c)
      BY <1>0, <2>2, <3>2 DEF AcceptSaves, InviteTypeOK
    <3>3. CASE Declines(c) \/ RemoveDeletes(c)
      <4>1. PICK rs \in SUBSET rows : Delete(rs) /\ UNCHANGED <<shared, stored>>
        BY <3>3, PendingIsNotAccepted DEF Declines, RemoveDeletes
      <4>2. \A r \in rs : r.id \in 0..MaxInvites
        BY <1>0 DEF Rows
      <4> QED
        BY <1>0, <4>1, <4>2 DEF Delete, Ids, InviteTypeOK
    <3>4. CASE \/ AuthorizeProjectAccess(c) \/ InviteChecks(c) \/ AcceptReads(c) \/ RemoveReads(c)
               \/ CallEnds(c)
      BY <1>0, <3>4 DEF AuthorizeProjectAccess, InviteChecks, AcceptReads, RemoveReads, CallEnds, tableVars, InviteTypeOK
    <3> QED
      BY <1>7, <3>1, <3>2, <3>3, <3>4 DEF CallStep
  <2> QED
    BY <2>1, <2>4, <2>5 DEF InviteTypeOK, listVars
<1> QED
  BY <1>2, <1>3, <1>4, <1>5, <1>6, <1>7 DEF InviteNext

LEMMA InviteAlways == InviteInit /\ [][InviteNext]_InviteVars => [](MemberInv /\ InviteTypeOK)
<1>1. InviteInit => InviteTypeOK
  <2>1. MaxInvites \in Nat /\ MaxCalls \in Nat
    BY InviteAssumption
  <2>2. OwnerRow \in Rows /\ PendingOwnerRow \in Rows
    BY <2>1, OwnerRowFacts DEF Rows, Members
  <2>3. InviteInit => rows \subseteq Rows
    BY <2>2 DEF InviteInit
  <2> QED
    BY <2>1, <2>3 DEF InviteInit, InviteTypeOK
<1> QED
  BY <1>1, MemberInit, MemberStep, InviteTypesStep, PTL

LEMMA OwnerAlways == InviteInit /\ [][InviteNext]_InviteVars => OwnerStays
<1>1. MemberInv => (shared => OwnerRow \in rows)
  BY DEF MemberInv
<1>2. ASSUME MemberInv, [InviteNext]_InviteVars
      PROVE  [\A r \in rows : r.role = "OWNER" =>
                \/ OwnerRow \in rows'
                \/ ~r.accepted /\ r \in rows'
                \/ ~r.accepted /\ ~shared /\ \E c \in calls : c.kind = "decline" /\ c.by = r.user]_InviteVars
  BY <1>2, OwnerStep
<1> QED
  BY <1>1, <1>2, InviteAlways, PTL DEF OwnerStays

\* A project with others has its owner, and an owner who has accepted stays,
\* whatever is accepted, declined or removed, by whomever and in whatever order;
\* one who has not leaves by a decline of his own (projects.go:160-240).
THEOREM OwnerIsKept == InviteSpec => OwnerStays
BY OwnerAlways, PTL DEF InviteSpec

\* A row that was deleted comes back only as one that was accepted before
\* (projects.go:155-192).
THEOREM WithdrawnIsOver == InviteSpec => []WithdrawnIsNotOffered
<1>1. MemberInv => WithdrawnIsNotOffered
  BY DEF MemberInv
<1> QED
  BY <1>1, InviteAlways, PTL DEF InviteSpec

=============================================================================
