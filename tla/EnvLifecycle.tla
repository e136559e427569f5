---------------------------- MODULE EnvLifecycle ----------------------------
(***************************************************************************)
(* What the environments table promises to those who read it: the pages,   *)
(* the metrics collector, the log stream and the sweeps.  Queue, workers,  *)
(* sweeps, retries and Docker do not show.  A row changes                  *)
(*   - when it is created, announced as RUNNING with its container,        *)
(*     reported FAILED or STOPPED, or removed;                             *)
(*   - when the process starts again: every BUILDING row is FAILED then;   *)
(*   - when a client saves the row it has read before, whole, whatever has *)
(*     become of the row since.  Nothing else revives a row.               *)
(* A container is announced once, and by one row.                          *)
(***************************************************************************)
CONSTANTS Envs, Clients, Containers, Gone, Nil

Rows    == [status : {"BUILDING", "RUNNING", "STOPPED", "FAILED"},
            cid : Containers \cup {Nil}]
NewRow  == [status |-> "BUILDING", cid |-> Nil]
Nothing == [env |-> Nil, saves |-> Gone]

VARIABLES
    up,         \* whether the process runs
    born,       \* environments that have been created
    rows,       \* what the table shows
    held,       \* the row that a client is going to save, and of which environment
    spent       \* containers that are announced, or never will be

vars == <<up, born, rows, held, spent>>

Init ==
    /\ up = TRUE
    /\ born = {}
    /\ rows = [e \in Envs |-> Gone]
    /\ held = [c \in Clients |-> Nothing]
    /\ spent = {}

Create(e) ==
    /\ e \notin born
    /\ born' = born \cup {e}
    /\ rows' = [rows EXCEPT ![e] = NewRow]
    /\ UNCHANGED <<up, held>>

\* A client reads a row; what it is going to save is that row, or, when it
\* restarts an environment that is not being built, a new one.
Read(c, e) ==
    /\ held[c] = Nothing
    /\ rows[e] # Gone
    /\ \/ held' = [held EXCEPT ![c] = [env |-> e, saves |-> rows[e]]]
       \/ /\ rows[e].status # "BUILDING"
          /\ held' = [held EXCEPT ![c] = [env |-> e, saves |-> NewRow]]
    /\ UNCHANGED <<up, born, rows>>

GiveUp(c) ==
    /\ held[c] # Nothing
    /\ held' = [held EXCEPT ![c] = Nothing]
    /\ UNCHANGED <<up, born, rows>>

Save(c) ==
    /\ held[c] # Nothing
    /\ rows' = [rows EXCEPT ![held[c].env] = held[c].saves]
    /\ held' = [held EXCEPT ![c] = Nothing]
    /\ UNCHANGED <<up, born>>

Announce(e, container) ==
    /\ rows[e] # Gone
    /\ container \notin spent
    /\ container \in spent'
    /\ rows' = [rows EXCEPT ![e] = [status |-> "RUNNING", cid |-> container]]
    /\ UNCHANGED <<up, born, held>>

Report(e, status) ==
    /\ rows[e] # Gone
    /\ rows' = [rows EXCEPT ![e] = [status |-> status, cid |-> rows[e].cid]]
    /\ UNCHANGED <<up, born, held>>

Remove(e) ==
    /\ rows' = [rows EXCEPT ![e] = Gone]
    /\ UNCHANGED <<up, born, held>>

Running ==
    \/ \E e \in Envs : Create(e) \/ Remove(e)
    \/ \E e \in Envs, status \in {"FAILED", "STOPPED"} : Report(e, status)
    \/ \E e \in Envs, container \in Containers : Announce(e, container)
    \/ \E c \in Clients, e \in Envs : Read(c, e)
    \/ \E c \in Clients : Save(c) \/ GiveUp(c)

Stop ==
    /\ up' = FALSE
    /\ held' = [c \in Clients |-> Nothing]
    /\ UNCHANGED <<born, rows>>

Start ==
    /\ ~up
    /\ up' = TRUE
    /\ rows' = [e \in Envs |-> IF rows[e] # Gone /\ rows[e].status = "BUILDING"
                                 THEN [status |-> "FAILED", cid |-> rows[e].cid]
                                 ELSE rows[e]]
    /\ UNCHANGED <<born, held>>

\* What is spent stays spent; a build that fails spends a container, too.
Next ==
    /\ spent \subseteq spent' /\ spent' \subseteq Containers
    /\ \/ up /\ Running
       \/ up /\ Stop
       \/ Start
       \/ UNCHANGED <<up, born, rows, held>>

Spec == Init /\ [][Next]_vars
=============================================================================
