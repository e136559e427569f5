-------------------------------- MODULE Pages ---------------------------------
(*****************************************************************************)
(* The pages of the frontend but for the editor and the git panel: one of    *)
(* them is open.  Each is a component of its own with its own requests (the  *)
(* App Router unmounts a page that is left), so that they do not interact    *)
(* but through the server, whose other users each module has.                *)
(*****************************************************************************)
EXTENDS Logs, Session, CreateSandbox, Invitations, Dialogs, Views, Contributions

VARIABLE page   \* the one that is open

PageNames == {"logs", "session", "create", "invitations", "dialogs", "views", "contributions"}

PagesVars == <<page, LogsVars, SessionVars, CreateVars, InviteVars, DialogVars, ViewVars, GraphVars>>

\* Of a page that is not open one initial state is enough.
PagesInit ==
    /\ page \in PageNames
    /\ LogsInit /\ (page # "logs" => status = "BUILDING")
    /\ SessionInit /\ (page # "session" => pathname = "/" /\ ~cookie)
    /\ CreateInit
    /\ InviteInit /\ (page # "invitations" => shared)
    /\ DialogInit /\ (page # "dialogs" => dialog = "project")
    /\ ViewInit /\ (page # "views" => viewed = "dashboard" /\ down)
    /\ GraphInit /\ (page # "contributions" => zone = 0 /\ summer = {})

On(p, A) == page = p /\ A

PagesNext ==
    /\ \/ /\ On("logs", LogsNext)
          /\ UNCHANGED <<SessionVars, CreateVars, InviteVars, DialogVars, ViewVars, GraphVars>>
       \/ /\ On("session", SessionNext)
          /\ UNCHANGED <<LogsVars, CreateVars, InviteVars, DialogVars, ViewVars, GraphVars>>
       \/ /\ On("create", CreateNext)
          /\ UNCHANGED <<LogsVars, SessionVars, InviteVars, DialogVars, ViewVars, GraphVars>>
       \/ /\ On("invitations", InviteNext)
          /\ UNCHANGED <<LogsVars, SessionVars, CreateVars, DialogVars, ViewVars, GraphVars>>
       \/ /\ On("dialogs", DialogNext)
          /\ UNCHANGED <<LogsVars, SessionVars, CreateVars, InviteVars, ViewVars, GraphVars>>
       \/ /\ On("views", ViewNext)
          /\ UNCHANGED <<LogsVars, SessionVars, CreateVars, InviteVars, DialogVars, GraphVars>>
       \/ /\ On("contributions", GraphNext)
          /\ UNCHANGED <<LogsVars, SessionVars, CreateVars, InviteVars, DialogVars, ViewVars>>
    /\ UNCHANGED page

\* The fairness of each module, of the page that is open.
PagesSpec ==
    /\ PagesInit /\ [][PagesNext]_PagesVars
    /\ WF_LogsVars(On("logs", EnvironmentArrives)) /\ WF_LogsVars(On("logs", PollEnvironment))
    /\ WF_LogsVars(On("logs", TerminalReady)) /\ WF_LogsVars(On("logs", FetchDockerLogs))
    /\ \A a \in Shown : WF_LogsVars(On("logs", DockerLogsArrive(a)))
    /\ WF_SessionVars(On("session", \E c \in checks : ServeCheck(c)))
    /\ WF_SessionVars(On("session", \E c \in checks : TakeAnswer(c)))
    /\ WF_SessionVars(On("session", pathname \in Polling /\ PageRequest))
    /\ \A k \in AllKeys : WF_ViewVars(On("views", Answer(k)))
                          /\ WF_ViewVars(On("views", MustRevalidate(k)))

\* Type correctness of every page.
PagesTypeOK ==
    /\ page \in PageNames
    /\ LogsTypeOK /\ SessionTypeOK /\ CreateTypeOK /\ InviteTypeOK
    /\ DialogTypeOK /\ ViewTypeOK /\ GraphTypeOK

=============================================================================
