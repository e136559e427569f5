-------------------------------- MODULE Views ---------------------------------
(*****************************************************************************)
(* The pages that only show data: the dashboard, the projects, one project,  *)
(* the team view of an environment and the profile.  Each holds one or two   *)
(* answers of SWR, polled or not, and shows a placeholder, an error, or what *)
(* it has.                                                                   *)
(*                                                                           *)
(* An answer is a number: 0 is an empty list.                                *)
(*****************************************************************************)
EXTENDS Naturals

CONSTANTS
    NoAnswer,   \* SWR has no data
    MaxValue    \* bound: what the server may answer

ASSUME ViewAssumption == MaxValue \in Nat /\ NoAnswer \notin Nat

ViewNames == {"dashboard", "projects", "project", "team", "profile"}

\* The answers a page waits for, and the one whose list it shows.
Keys(v) ==
    CASE v = "dashboard" -> {"environments"}
      [] v = "projects"  -> {"projects"}
      [] v = "project"   -> {"project", "environments"}
      [] v = "team"      -> {"activity", "team-status"}
      [] v = "profile"   -> {"me"}

ListOf(v) ==
    CASE v \in {"dashboard", "project"} -> "environments"
      [] v = "projects" -> "projects"
      [] v = "team"     -> "activity"
      [] v = "profile"  -> "me"

AllKeys == {"environments", "projects", "project", "activity", "team-status", "me"}
Polled == {"environments", "activity", "team-status"}   \* with a refreshInterval

VARIABLES
    viewed,     \* the page
    held,       \* key -> the number of an answer, or NoAnswer
    fault,      \* key -> error of SWR
    asking,     \* keys with a request under way
    truth,      \* key -> what the server would answer
    down        \* the server fails

ViewVars == <<viewed, held, fault, asking, truth, down>>

ViewTypeOK ==
    /\ viewed \in ViewNames
    /\ held \in [AllKeys -> 0..MaxValue \cup {NoAnswer}]
    /\ fault \in [AllKeys -> BOOLEAN]
    /\ asking \subseteq AllKeys
    /\ truth \in [AllKeys -> 0..MaxValue]
    /\ down \in BOOLEAN

ViewInit ==
    /\ viewed \in ViewNames
    /\ held = [k \in AllKeys |-> NoAnswer]
    /\ fault = [k \in AllKeys |-> FALSE]
    /\ asking = Keys(viewed)
    /\ truth = [k \in AllKeys |-> 0]
    /\ down \in BOOLEAN

-----------------------------------------------------------------------------
(* What is on the screen.                                                    *)

Known(k) == held[k] # NoAnswer
IsLoading(k) == ~Known(k) /\ k \in asking

\* The grid of a list: skeletons, the error, the invitation to make one, or it.
Grid(k) ==
    CASE IsLoading(k) -> "loading"
      [] ~IsLoading(k) /\ fault[k] -> "error"
      [] ~IsLoading(k) /\ ~fault[k] /\ held[k] = 0 -> "empty"
      [] OTHER -> "list"

Dashboard == Grid("environments")
ProjectsPage == Grid("projects")

ProjectPage ==
    CASE IsLoading("project") -> "loading"
      [] ~IsLoading("project") /\ (fault["project"] \/ ~Known("project")) -> "error"
      [] OTHER -> Grid("environments")

TeamDashboard ==
    CASE \E k \in Keys("team") : fault[k] -> "error"
      [] (\A k \in Keys("team") : ~fault[k]) /\ (\E k \in Keys("team") : ~Known(k)) -> "loading"
      [] OTHER -> IF held["activity"] = 0 THEN "empty" ELSE "list"

ProfilePage ==
    CASE IsLoading("me") -> "loading"
      [] ~IsLoading("me") /\ (fault["me"] \/ ~Known("me")) -> "error"
      [] OTHER -> "list"

Shows ==
    CASE viewed = "dashboard" -> Dashboard
      [] viewed = "projects" -> ProjectsPage
      [] viewed = "project" -> ProjectPage
      [] viewed = "team" -> TeamDashboard
      [] viewed = "profile" -> ProfilePage

-----------------------------------------------------------------------------
(* SWR and the server.                                                       *)

\* A key is asked for again by its interval, after an error, or on focus.
Revalidate(k) ==
    /\ k \in Keys(viewed) \ asking
    /\ asking' = asking \cup {k}
    /\ UNCHANGED <<viewed, held, fault, truth, down>>

\* Mutant: no refreshInterval.
MustRetry(k) == fault[k] /\ Revalidate(k)

MustRevalidate(k) == (k \in Polled \/ fault[k]) /\ Revalidate(k)

Answer(k) ==
    /\ k \in asking
    /\ asking' = asking \ {k}
    /\ IF down THEN fault' = [fault EXCEPT ![k] = TRUE] /\ UNCHANGED held
               ELSE held' = [held EXCEPT ![k] = truth[k]] /\ fault' = [fault EXCEPT ![k] = FALSE]
    /\ UNCHANGED <<viewed, truth, down>>

DataChanges(k, v) ==
    /\ k \in Keys(viewed) /\ v # truth[k]
    /\ truth' = [truth EXCEPT ![k] = v]
    /\ UNCHANGED <<viewed, held, fault, asking, down>>

GoesDown == down' = ~down /\ UNCHANGED <<viewed, held, fault, asking, truth>>

ViewNext ==
    \/ \E k \in AllKeys : Revalidate(k) \/ Answer(k) \/ \E v \in 0..MaxValue : DataChanges(k, v)
    \/ GoesDown

\* Requests end, intervals and retries go on.
ViewSpec ==
    /\ ViewInit /\ [][ViewNext]_ViewVars
    /\ \A k \in AllKeys : WF_ViewVars(Answer(k)) /\ WF_ViewVars(MustRevalidate(k))

-----------------------------------------------------------------------------
\* A list on the screen gives way to an error or to a list that the server has
\* answered empty, never to a placeholder: polling does not make it flicker.
ListsDoNotFlicker == [][(Shows \in {"list", "empty"}) => Shows' # "loading"]_ViewVars

\* When the server has come back, no page stays with an error or a placeholder,
\* and a polled list comes to be what the server has.
ViewsCatchUp ==
    /\ <>[]~down => <>[](Shows \notin {"error", "loading"})
    /\ \A v \in 0..MaxValue :
         <>[](~down /\ ListOf(viewed) \in Polled /\ truth[ListOf(viewed)] = v)
           => <>[](held[ListOf(viewed)] = v)

=============================================================================
