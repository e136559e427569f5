--------------------------------- MODULE Logs ---------------------------------
(*****************************************************************************)
(* The logs tab of an environment's page (page.tsx): the build log in a      *)
(* terminal that is created after a dynamic import, the output of the        *)
(* container polled every three seconds, the restart button, and the tab     *)
(* that a build or its failure brings to the front.                          *)
(*                                                                           *)
(* A line of the build log is its number.  The page sees the last LogLimit   *)
(* of them (GetEnvironment), and SWR never goes back to an older answer.     *)
(* `output` counts what the container has printed.                           *)
(*****************************************************************************)
EXTENDS Integers, Sequences

CONSTANTS
    LogLimit,   \* lines of log in an answer (100 in the code)
    MaxLines,   \* bound: lines of log
    MaxOutput,  \* bound: what the container prints
    MaxInits    \* bound: imports of the terminal under way

ASSUME LogsAssumption ==
    /\ {LogLimit, MaxLines, MaxOutput, MaxInits} \subseteq Nat
    /\ LogLimit > 0 /\ MaxInits > 0

VARIABLES
    lines,      \* lines of log in the database
    status,     \* the environment's status in the database
    output,     \* what the container has printed
    env,        \* what the page knows: [lines, status]; lines = -1 before the first answer
    tab,        \* activeTab: "logs" or another
    inits,      \* initTerminal calls waiting for the import, each with the lines its closure knows
    terms,      \* the terminals opened in the tab: what each shows, and its _logCount
    xterm,      \* xtermRef: the number of one of them, 0 for null
    isRestarting,
    answers,    \* answers with container output on their way
    dockerLogs  \* dockerLogs

dbVars == <<lines, status, output>>
termVars == <<tab, inits, terms, xterm>>
dockerVars == <<answers, dockerLogs>>
LogsVars == <<dbVars, env, termVars, isRestarting, dockerVars>>

Error == -1
Shown == Error..MaxOutput

LogsTypeOK ==
    /\ lines \in 0..MaxLines /\ output \in 0..MaxOutput
    /\ status \in {"BUILDING", "RUNNING", "FAILED"}
    /\ env \in [lines : -1..MaxLines, status : {"BUILDING", "RUNNING", "FAILED", "none"}]
    /\ tab \in {"logs", "workspace"}
    /\ inits \in Seq(0..MaxLines) /\ Len(inits) <= MaxInits
    /\ terms \in Seq([shown : Seq(1..MaxLines), count : 0..LogLimit])
    /\ xterm \in 0..Len(terms)
    /\ isRestarting \in BOOLEAN
    /\ answers \subseteq Shown /\ dockerLogs \in Shown

LogsInit ==
    /\ lines = 0 /\ status \in {"BUILDING", "RUNNING"} /\ output = 0
    /\ env = [lines |-> -1, status |-> "none"]
    /\ tab = "logs" /\ inits = <<>> /\ terms = <<>> /\ xterm = 0
    /\ isRestarting = FALSE
    /\ answers = {} /\ dockerLogs = 0

-----------------------------------------------------------------------------
(* The lines of an answer, oldest first: all, or the last LogLimit.          *)

Oldest(n) == IF n > LogLimit THEN n - LogLimit ELSE 0
Length(n) == n - Oldest(n)
\* sortedLogs.slice(k)
Slice(n, k) == [i \in 1..(Length(n) - k) |-> Oldest(n) + k + i]

\* The effect on [env?.id, activeTab] when the tab shows: an import begins.
InitTerminal(n) == inits' = Append(inits, n)

\* The effect on [env?.logs?.length, activeTab]: it runs when the length of
\* the list changes, and does nothing before the terminal exists.
AppendLogs(n) ==
    terms' = IF /\ xterm # 0 /\ tab = "logs"
                /\ Length(n) # Length(env.lines)
                /\ Length(n) > terms[xterm].count
             THEN [terms EXCEPT ![xterm] =
                     [shown |-> @.shown \o Slice(n, @.count), count |-> Length(n)]]
             ELSE terms

\* Mutant: xtermRef keeps the terminal that is gone.
CloseButKeepRef == terms' = <<>> /\ UNCHANGED xterm

CloseTerminals == terms' = <<>> /\ xterm' = 0

-----------------------------------------------------------------------------
(* SWR brings the environment.                                               *)

\* The first answer: the page leaves its loading view and the tab is mounted.
EnvironmentArrives ==
    /\ env.lines = -1
    /\ env' = [lines |-> lines, status |-> status]
    /\ InitTerminal(lines)
    /\ UNCHANGED <<dbVars, tab, terms, xterm, isRestarting, dockerVars>>

PollEnvironment ==
    /\ env.lines # -1
    /\ env' = [lines |-> lines, status |-> status]
    /\ env' # env
    /\ IF tab # "logs" /\ status # env.status /\ status \in {"BUILDING", "FAILED"}
         THEN \* setActiveTab("logs")
              /\ Len(inits) < MaxInits
              /\ tab' = "logs" /\ InitTerminal(lines) /\ UNCHANGED <<terms, xterm>>
         ELSE AppendLogs(lines) /\ UNCHANGED <<tab, inits, xterm>>
    /\ UNCHANGED <<dbVars, isRestarting, dockerVars>>

\* Mutant: the terminal does not note how many lines it was opened with.
TerminalReadyUncounted ==
    /\ inits # <<>>
    /\ inits' = Tail(inits)
    /\ IF tab = "logs"
         THEN /\ terms' = Append(terms, [shown |-> Slice(Head(inits), 0), count |-> 0])
              /\ xterm' = Len(terms')
         ELSE UNCHANGED <<terms, xterm>>
    /\ UNCHANGED <<dbVars, env, tab, isRestarting, dockerVars>>

\* The import is there.  Without the tab's element term.open throws; with it
\* the terminal opens, even beside one that a later effect has opened.
TerminalReady ==
    /\ inits # <<>>
    /\ inits' = Tail(inits)
    /\ IF tab = "logs"
         THEN LET n == Head(inits) IN
              /\ terms' = Append(terms, [shown |-> Slice(n, 0), count |-> Length(n)])
              /\ xterm' = Len(terms')
         ELSE UNCHANGED <<terms, xterm>>
    /\ UNCHANGED <<dbVars, env, tab, isRestarting, dockerVars>>

\* The user leaves the tab (its element goes, and the cleanup of the effect
\* runs) and comes back.
LeaveTab ==
    /\ env.lines # -1 /\ tab = "logs"
    /\ tab' = "workspace"
    /\ CloseTerminals
    /\ UNCHANGED <<dbVars, env, inits, isRestarting, dockerVars>>

OpenTab ==
    /\ tab # "logs" /\ Len(inits) < MaxInits
    /\ tab' = "logs"
    /\ InitTerminal(env.lines)
    /\ UNCHANGED <<dbVars, env, terms, xterm, isRestarting, dockerVars>>

-----------------------------------------------------------------------------
(* Restarting.  The button is disabled by what the page knows of the status. *)

HandleRestart ==
    /\ env.lines # -1 /\ ~isRestarting /\ env.status # "BUILDING"
    /\ isRestarting' = TRUE
    /\ UNCHANGED <<dbVars, env, termVars, dockerVars>>

\* The server accepts it unless the environment is building; the handler then
\* clears the terminal and forgets how many lines it has shown.
Restarted ==
    /\ isRestarting
    /\ isRestarting' = FALSE
    /\ \/ /\ status # "BUILDING"
          /\ status' = "BUILDING"
          /\ terms' = IF xterm # 0
                        THEN [terms EXCEPT ![xterm] = [shown |-> <<>>, count |-> 0]]
                        ELSE terms
       \/ UNCHANGED <<status, terms>>
    /\ UNCHANGED <<lines, output, env, tab, inits, xterm, dockerVars>>

BuildStep ==
    /\ status = "BUILDING"
    /\ \/ lines < MaxLines /\ lines' = lines + 1 /\ UNCHANGED status
       \/ status' \in {"RUNNING", "FAILED"} /\ UNCHANGED lines
    /\ UNCHANGED <<output, env, termVars, isRestarting, dockerVars>>

ContainerPrints ==
    /\ status = "RUNNING" /\ output < MaxOutput
    /\ output' = output + 1
    /\ UNCHANGED <<lines, status, env, termVars, isRestarting, dockerVars>>

-----------------------------------------------------------------------------
(* The output of the container.                                              *)

\* Mutant: it asks only while nothing is shown.
FetchDockerLogsOnce ==
    /\ env.lines # -1 /\ tab = "logs" /\ dockerLogs = 0
    /\ answers' = answers \cup {IF status = "RUNNING" THEN output ELSE Error}
    /\ answers' # answers
    /\ UNCHANGED <<dbVars, env, termVars, isRestarting, dockerLogs>>

\* fetchDockerLogs, by the interval or the button: it does not wait for the
\* answer before.  A container that does not run has no output to show.
FetchDockerLogs ==
    /\ env.lines # -1 /\ tab = "logs"
    /\ answers' = answers \cup {IF status = "RUNNING" THEN output ELSE Error}
    /\ answers' # answers
    /\ UNCHANGED <<dbVars, env, termVars, isRestarting, dockerLogs>>

DockerLogsArrive(a) ==
    /\ a \in answers
    /\ answers' = answers \ {a}
    /\ dockerLogs' = a
    /\ UNCHANGED <<dbVars, env, termVars, isRestarting>>

LogsNext ==
    \/ EnvironmentArrives \/ PollEnvironment \/ TerminalReady
    \/ LeaveTab \/ OpenTab
    \/ HandleRestart \/ Restarted \/ BuildStep \/ ContainerPrints
    \/ FetchDockerLogs \/ \E a \in answers : DockerLogsArrive(a)

\* Polling goes on while the page is open, an import is done, answers arrive.
LogsSpec ==
    /\ LogsInit /\ [][LogsNext]_LogsVars
    /\ WF_LogsVars(EnvironmentArrives) /\ WF_LogsVars(PollEnvironment)
    /\ WF_LogsVars(TerminalReady) /\ WF_LogsVars(FetchDockerLogs)
    /\ \A a \in Shown : WF_LogsVars(DockerLogsArrive(a))

-----------------------------------------------------------------------------
\* A terminal shows no line of the log twice and none before an older one,
\* whatever happened between the import, the polls, restarts and changes of
\* tab, and the one that is updated has no gap as long as an answer holds the
\* whole log (page.tsx:648-732).
TerminalShowsLog ==
    /\ \A t \in 1..Len(terms) : LET s == terms[t].shown IN
         \A i, j \in 1..Len(s) : i < j => s[i] < s[j]
    /\ lines <= LogLimit /\ xterm # 0 =>
         terms[xterm].shown = [i \in 1..terms[xterm].count |-> i]

\* The output of a container that runs and prints no more is shown, and stays,
\* while the tab is open: an answer that comes late does not (page.tsx:326-357).
OutputIsShown ==
    <>[](env.lines # -1 /\ tab = "logs" /\ status = "RUNNING") => <>[](dockerLogs = output)

=============================================================================
