---------------------------- MODULE CreateSandbox -----------------------------
(*****************************************************************************)
(* The form that deploys a sandbox (frontend/app/(main)/upload/page.tsx)     *)
(* with the two requests it sends, and the user's projects on the server.    *)
(*                                                                           *)
(* The branches of a repository come from GitHub, 800 ms after the last      *)
(* change of the URL; the request of an earlier URL is not cancelled.  Which *)
(* branches an answer names is left open.  A project is its number: 1 is the *)
(* first one made.                                                           *)
(*****************************************************************************)
EXTENDS Naturals

CONSTANTS
    Repos,       \* URLs of repositories
    Blank, New,  \* nothing typed, chosen or known; the option for a new project
    MaxProjects, \* bound: projects
    MaxUrls,     \* bound: changes of the URL
    MaxClicks    \* bound: submissions

ASSUME CreateAssumption ==
    /\ Blank # New /\ {Blank, New} \cap Repos = {}
    /\ {MaxProjects, MaxUrls, MaxClicks} \subseteq Nat

BranchNames == {"main", "master", "dev"}
Projects == 1..MaxProjects

VARIABLES
    made,        \* projects there are: 1..made
    mine,        \* those in which the user is a collaborator, or invited
    sandboxes,   \* sandboxes created: [click, form, own, project]
    known,       \* projects: what SWR has brought, or Blank
    form,        \* [project, url, branch]: the values of the form
    branches,    \* branches
    fetching,    \* isFetchingBranches
    timer,       \* the timeout of fetchBranches is pending
    lookups,     \* requests to GitHub under way
    urls,        \* changes of the URL so far
    submit,      \* what onSubmit waits for: [stage, form, target, own]
    clicks,      \* submissions so far
    left         \* the router has opened the new sandbox

serverVars == <<made, mine, sandboxes>>
lookupVars == <<branches, fetching, timer, lookups, urls>>
submitVars == <<submit, clicks, left>>
CreateVars == <<serverVars, known, form, lookupVars, submitVars>>

Forms == [project : Projects \cup {New, Blank}, url : Repos \cup {Blank}, branch : BranchNames]
NoSubmit == [stage |-> "idle", form |-> [project |-> Blank, url |-> Blank, branch |-> "main"],
             target |-> Blank, own |-> Blank]

CreateTypeOK ==
    /\ made \in 0..MaxProjects /\ mine \subseteq 1..made
    /\ sandboxes \subseteq [click : 1..MaxClicks, form : Forms, own : Projects \cup {Blank},
                            project : Projects]
    /\ known = Blank \/ known \subseteq Projects
    /\ form \in Forms
    /\ branches \subseteq BranchNames
    /\ {fetching, timer, left} \subseteq BOOLEAN
    /\ lookups \subseteq 1..MaxUrls /\ urls \in 0..MaxUrls
    /\ submit \in [stage : {"idle", "project", "projectMade", "sandbox", "sandboxMade"}, form : Forms,
                   target : Projects \cup {Blank}, own : Projects \cup {Blank}]
    /\ clicks \in 0..MaxClicks

CreateInit ==
    /\ made = 0 /\ mine = {} /\ sandboxes = {}
    /\ known = Blank
    /\ form = NoSubmit.form
    /\ branches = {} /\ fetching = FALSE /\ timer = FALSE /\ lookups = {} /\ urls = 0
    /\ submit = NoSubmit /\ clicks = 0 /\ left = FALSE

-----------------------------------------------------------------------------
(* The values of the form.                                                   *)

\* The projects page of another tab, or an invitation.
JoinProject ==
    /\ made < MaxProjects
    /\ made' = made + 1 /\ mine' = mine \cup {made'}
    /\ UNCHANGED <<sandboxes, known, form, lookupVars, submitVars>>

\* SWR answers.  The first project is chosen for the user; without any, the
\* select holds its only option.
ProjectsArrive ==
    /\ ~left /\ known # mine
    /\ known' = mine
    /\ \E p \in (IF mine = {} THEN {New} ELSE mine) :
         form' = [form EXCEPT !.project = IF @ = Blank THEN p ELSE @]
    /\ UNCHANGED <<serverVars, lookupVars, submitVars>>

ChooseProject(p) ==
    /\ ~left /\ known # Blank /\ p \in known \cup {New}
    /\ form' = [form EXCEPT !.project = p]
    /\ UNCHANGED <<serverVars, known, lookupVars, submitVars>>

\* Typing a URL replaces the pending timeout, and nothing else.
TypeUrl(u) ==
    /\ ~left /\ u # form.url /\ urls < MaxUrls
    /\ urls' = urls + 1
    /\ form' = [form EXCEPT !.url = u]
    /\ timer' = TRUE
    /\ UNCHANGED <<serverVars, known, branches, fetching, lookups, submitVars>>

FetchBranches ==
    /\ timer
    /\ timer' = FALSE
    /\ fetching' = TRUE
    /\ lookups' = lookups \cup {urls}
    /\ UNCHANGED <<serverVars, known, form, branches, urls, submitVars>>

\* Mutant: without "main" and "master" the branch stays.
PreferredOrKept(names) ==
    CASE "main" \in names -> {"main"}
      [] "main" \notin names /\ "master" \in names -> {"master"}
      [] OTHER -> {form.branch}

Preferred(names) ==
    CASE "main" \in names -> {"main"}
      [] "main" \notin names /\ "master" \in names -> {"master"}
      [] OTHER -> names

\* No names: an error, or a repository GitHub does not show.
BranchesArrive(l, names) ==
    /\ l \in lookups
    /\ lookups' = lookups \ {l}
    /\ fetching' = FALSE
    /\ branches' = names
    /\ IF names = {} THEN UNCHANGED form
       ELSE \E b \in Preferred(names) : form' = [form EXCEPT !.branch = b]
    /\ UNCHANGED <<serverVars, known, timer, urls, submitVars>>

\* A select of the branches there are, or else a text field.
ChooseBranch(b) ==
    /\ ~left /\ b # form.branch
    /\ branches # {} => b \in branches
    /\ form' = [form EXCEPT !.branch = b]
    /\ UNCHANGED <<serverVars, known, lookupVars, submitVars>>

-----------------------------------------------------------------------------
(* Submitting.                                                               *)

OnSubmit ==
    /\ ~left /\ submit.stage = "idle" /\ clicks < MaxClicks
    /\ form.url # Blank /\ form.project # Blank
    /\ clicks' = clicks + 1
    /\ submit' = IF form.project = New
                   THEN [NoSubmit EXCEPT !.stage = "project", !.form = form]
                   ELSE [NoSubmit EXCEPT !.stage = "sandbox", !.form = form,
                                         !.target = form.project]
    /\ UNCHANGED <<serverVars, known, form, lookupVars, left>>

\* CreateProject: the project, and the user as its owner (an error of the second
\* insertion, which the handler ignores, is left out).
ServeProject ==
    /\ submit.stage = "project" /\ made < MaxProjects
    /\ made' = made + 1
    /\ mine' = mine \cup {made'}
    /\ submit' = [submit EXCEPT !.stage = "projectMade", !.own = made']
    /\ UNCHANGED <<sandboxes, known, form, lookupVars, clicks, left>>

\* The handler takes `id` of the answer, which has the project under `project`:
\* the request that follows names none.
ProjectMade ==
    /\ submit.stage = "projectMade"
    /\ submit' = [submit EXCEPT !.stage = "sandbox", !.target = Blank]
    /\ UNCHANGED <<serverVars, known, form, lookupVars, clicks, left>>

\* Mutant: the project is read from the form when the request is made.
ServeSandboxOfTheForm ==
    /\ submit.stage = "sandbox" /\ form.project \in mine
    /\ sandboxes' = sandboxes \cup {[click |-> clicks, form |-> submit.form,
                                     own |-> submit.own, project |-> form.project]}
    /\ submit' = [submit EXCEPT !.stage = "sandboxMade"]
    /\ UNCHANGED <<made, mine, known, form, lookupVars, clicks, left>>

\* CreateEnvironment: a project that is named must be one of the user's;
\* without a name it is any of them, or a default one that is made now.
ServeSandbox ==
    /\ submit.stage = "sandbox"
    /\ \E p \in Projects :
         /\ CASE submit.target # Blank -> p = submit.target /\ p \in mine /\ UNCHANGED <<made, mine>>
              [] submit.target = Blank /\ mine # {} -> p \in mine /\ UNCHANGED <<made, mine>>
              [] OTHER -> p = made + 1 /\ made' = p /\ mine' = {p}
         /\ sandboxes' = sandboxes \cup {[click |-> clicks, form |-> submit.form,
                                          own |-> submit.own, project |-> p]}
    /\ submit' = [submit EXCEPT !.stage = "sandboxMade"]
    /\ UNCHANGED <<known, form, lookupVars, clicks, left>>

SandboxMade ==
    /\ submit.stage = "sandboxMade"
    /\ submit' = NoSubmit
    /\ left' = TRUE
    /\ UNCHANGED <<serverVars, known, form, lookupVars, clicks>>

\* A request is refused, or it or its answer is lost.
SubmitFails ==
    /\ submit.stage # "idle"
    /\ submit' = NoSubmit
    /\ UNCHANGED <<serverVars, known, form, lookupVars, clicks, left>>

SubmitStep == ServeProject \/ ProjectMade \/ ServeSandbox \/ SandboxMade \/ SubmitFails
LookupStep == \E l \in lookups, names \in SUBSET BranchNames : BranchesArrive(l, names)

CreateNext ==
    \/ JoinProject \/ ProjectsArrive
    \/ \E p \in Projects \cup {New} : ChooseProject(p)
    \/ \E u \in Repos : TypeUrl(u)
    \/ \E b \in BranchNames : ChooseBranch(b)
    \/ FetchBranches \/ LookupStep
    \/ OnSubmit \/ SubmitStep

CreateSpec == CreateInit /\ [][CreateNext]_CreateVars

-----------------------------------------------------------------------------
\* While the form offers a list of branches, the branch it would deploy is one
\* of them, although lists of several URLs arrive in any order, above a branch
\* typed or chosen before (upload/page.tsx:72-111).
ListedBranchIsChosen == branches # {} => form.branch \in branches

\* One click makes one sandbox at most, in the project that was chosen when it
\* was clicked, whatever is typed, joined or made before the requests end
\* (upload/page.tsx:113-155).
SandboxAsSubmitted ==
    \A s \in sandboxes :
      /\ s.form.project # New => s.project = s.form.project
      /\ \A t \in sandboxes : s.click = t.click => s = t

\* "Create new project first" (upload/page.tsx:119): a sandbox for which a new
\* project was asked is in that project.
NewProjectIsUsed == \A s \in sandboxes : s.form.project = New => s.project = s.own

=============================================================================
