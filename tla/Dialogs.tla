------------------------------- MODULE Dialogs --------------------------------
(*****************************************************************************)
(* The dialogs that send what was typed into them: a new project             *)
(* (projects/page.tsx), an invitation and a transfer (page.tsx), the profile *)
(* and the deletion of the account (profile/page.tsx), and the settings of   *)
(* an environment (EnvironmentSettings.tsx), which a tab shows.              *)
(*                                                                           *)
(* A dialog of the first two pages keeps its state in the page; the others   *)
(* are components of their own, which lose it when they close: the handler   *)
(* of a request sent before goes on with the instance it belongs to, and     *)
(* with the callbacks of the page.                                           *)
(*****************************************************************************)
EXTENDS Naturals

CONSTANTS
    Inputs,     \* what may be typed
    NoInput,    \* nothing typed
    MaxSends    \* bound: requests sent, and dialogs opened

ASSUME DialogAssumption == NoInput \notin Inputs /\ MaxSends \in Nat

VARIABLES
    dialog,     \* which one it is
    open,       \* it is on the screen
    input,      \* what its fields hold
    instance,   \* components mounted so far
    busy,       \* isCreating, isInviting, isTransferring, saving, deleting, isSaving
    requests,   \* requests under way: [input, instance, served]
    database,   \* what the server holds
    shown,      \* what SWR has brought of it
    away        \* the page was left: the account is deleted

DialogVars == <<dialog, open, input, instance, busy, requests, database, shown, away>>

\* How each of them differs: its state is the page's and outlives it; a success
\* empties its fields; they begin with what SWR knows; they may be sent empty.
NewProject ==
    [inPage |-> TRUE, empties |-> TRUE, begins |-> FALSE, blank |-> FALSE]
InviteModal ==
    [inPage |-> TRUE, empties |-> TRUE, begins |-> FALSE, blank |-> FALSE]
TransferModal ==
    [inPage |-> TRUE, empties |-> FALSE, begins |-> FALSE, blank |-> FALSE]
EditProfileModal ==
    [inPage |-> FALSE, empties |-> FALSE, begins |-> TRUE, blank |-> TRUE]
DeleteAccountModal ==
    [inPage |-> FALSE, empties |-> FALSE, begins |-> FALSE, blank |-> FALSE]
EnvironmentSettings ==
    [inPage |-> FALSE, empties |-> FALSE, begins |-> TRUE, blank |-> TRUE]

Traits ==
    [project |-> NewProject, invite |-> InviteModal, transfer |-> TransferModal,
     profile |-> EditProfileModal, account |-> DeleteAccountModal,
     settings |-> EnvironmentSettings]

DialogNames == DOMAIN Traits
OfThePage == {d \in DialogNames : Traits[d].inPage}

Values == Inputs \cup {NoInput}

DialogTypeOK ==
    /\ dialog \in DialogNames
    /\ {open, busy, away} \subseteq BOOLEAN
    /\ {input, database, shown} \subseteq Values
    /\ instance \in 0..MaxSends
    /\ requests \subseteq [input : Values, instance : 0..MaxSends, served : BOOLEAN]

DialogInit ==
    /\ dialog \in DialogNames
    /\ open = FALSE /\ input = NoInput /\ instance = 0 /\ busy = FALSE
    /\ requests = {} /\ database = NoInput /\ shown = NoInput /\ away = FALSE

-----------------------------------------------------------------------------
Open ==
    /\ ~open /\ ~away /\ instance < MaxSends
    /\ open' = TRUE
    /\ instance' = instance + 1
    /\ IF dialog \in OfThePage
         THEN UNCHANGED <<input, busy>>
         ELSE /\ input' = IF Traits[dialog].begins THEN shown ELSE NoInput
              /\ busy' = FALSE
    /\ UNCHANGED <<dialog, requests, database, shown, away>>

\* The cross, "Cancel", a click beside the dialog, or another tab.
Close ==
    /\ open
    /\ open' = FALSE
    /\ UNCHANGED <<dialog, input, instance, busy, requests, database, shown, away>>

Write(v) ==
    /\ open /\ v # input
    /\ input' = v
    /\ UNCHANGED <<dialog, open, instance, busy, requests, database, shown, away>>

\* The button is disabled while busy and, but for the edits, without input;
\* for the account the input must be the sentence that is asked for.
Submit ==
    /\ open /\ ~busy
    /\ Traits[dialog].blank \/ input # NoInput
    /\ busy' = TRUE
    /\ requests' = requests \cup {[input |-> input, instance |-> instance, served |-> FALSE]}
    /\ UNCHANGED <<dialog, open, input, instance, database, shown, away>>

\* UpdateEnvironmentSettings takes a field that is null for one that is absent:
\* clearing a field of the settings stores nothing.
Serve(r) ==
    /\ ~r.served
    /\ requests' = (requests \ {r}) \cup {[r EXCEPT !.served = TRUE]}
    /\ database' = IF dialog = "settings" /\ r.input = NoInput THEN database ELSE r.input
    /\ UNCHANGED <<dialog, open, input, instance, busy, shown, away>>

\* The end of a handler: of a component that is gone it changes nothing.
NotBusy(r) == busy' = IF dialog \in OfThePage \/ r.instance = instance THEN FALSE ELSE busy

Success(r) ==
    /\ r.served
    /\ requests' = requests \ {r}
    /\ open' = IF dialog = "settings" THEN open ELSE FALSE
    /\ input' = IF Traits[dialog].empties THEN NoInput ELSE input
    /\ away' = (dialog = "account")
    /\ NotBusy(r)
    /\ UNCHANGED <<dialog, instance, database, shown>>

\* Mutant: after an error the button stays disabled.
FailureStaysBusy(r) ==
    /\ requests' = requests \ {r}
    /\ UNCHANGED <<dialog, open, input, instance, busy, database, shown, away>>

\* A request is refused, or it or its answer is lost: the dialog stays.
Failure(r) ==
    /\ requests' = requests \ {r}
    /\ NotBusy(r)
    /\ UNCHANGED <<dialog, open, input, instance, database, shown, away>>

\* SWR brings the data anew: after mutate, or when the window gets the focus.
Refresh ==
    /\ ~away /\ shown # database
    /\ shown' = database
    /\ UNCHANGED <<dialog, open, input, instance, busy, requests, database, away>>

\* Another user or tab, or a build that records the port it has detected.
OthersWrite(v) ==
    /\ v # database
    /\ database' = v
    /\ UNCHANGED <<dialog, open, input, instance, busy, requests, shown, away>>

RequestStep(r) == Serve(r) \/ Success(r) \/ Failure(r)

DialogNext ==
    \/ Open \/ Close \/ Submit \/ Refresh
    \/ \E v \in Values : Write(v) \/ OthersWrite(v)
    \/ \E r \in requests : RequestStep(r)

DialogSpec == DialogInit /\ [][DialogNext]_DialogVars

-----------------------------------------------------------------------------
\* While a dialog is busy, a request of its own is under way: the button is not
\* left disabled by a request of an instance that was closed, nor by one that
\* failed.
BusyHasRequest ==
    busy /\ open =>
      \E r \in requests : dialog \in OfThePage \/ r.instance = instance

=============================================================================
