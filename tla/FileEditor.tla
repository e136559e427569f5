------------------------------ MODULE FileEditor ------------------------------
(*****************************************************************************)
(* The code workspace of an environment's page in the browser                *)
(* (frontend/app/(main)/environments/[id]/page.tsx) with the hook that       *)
(* listens to the hub (frontend/hooks/useEnvironmentChanges.ts): selecting,  *)
(* typing, saving and deleting files while other members edit the same       *)
(* workspace.                                                                *)
(*                                                                           *)
(* Every fetch is three steps: it is sent, the server carries it out, its    *)
(* answer reaches the page.  Anything may happen between them, and answers   *)
(* to different requests arrive in any order.  A request may fail before the *)
(* server has carried it out, and its answer may be lost afterwards.  A      *)
(* handler that continues after an await uses the values its closure         *)
(* captured when it started: they are the fields of the request.             *)
(*                                                                           *)
(* A text is what a file or the textarea holds.  `from` is the file it was   *)
(* first loaded from: typing changes `rev` and keeps it.                     *)
(*****************************************************************************)
EXTENDS Naturals

CONSTANTS
    Files,       \* paths of files
    Folder,      \* the files of one folder
    Revs,        \* what typing tells apart
    None,        \* no file: the empty text, the empty path
    MaxOps,      \* bound: selections, saves and deletions of this page, saves,
                 \* commits and new files of other members, together
    TypeKeys     \* JSON keys under which the hub may write a message's type: it
                 \* writes "Type" (ws.go:49-56), and the hook reads "type"

ASSUME EditorAssumption ==
    /\ None \notin Files
    /\ Folder \subseteq Files
    /\ MaxOps \in Nat
    /\ 0 \in Revs
    /\ TypeKeys \subseteq {"type", "Type"}

Texts == [from : Files \cup {None}, rev : Revs]
Empty == [from |-> None, rev |-> 0]
Absent == [from |-> None, rev |-> None]     \* there is no such file

\* What a click on a bin removes: one file, or the folder with its files.
Targets == {{f} : f \in Files} \cup {Folder}

VARIABLES
    disk,        \* file -> its text, on the server
    written,     \* every text that some file of the workspace has held
    selected,    \* selectedFilePath
    content,     \* fileContent
    original,    \* originalFileContent
    editing,     \* isEditingFile
    loading,     \* isLoadingFile
    saveState,   \* saveState
    loads,       \* requests for a file's content under way
    saves,       \* requests to save under way
    deletes,     \* requests to delete under way
    async,       \* goroutines the server started for saves
    uncommitted, \* hasUncommittedChanges of the hook
    editors,     \* activeEditors of the hook
    timers,      \* "live", "failed" -> timeouts pending
    key,         \* the one of TypeKeys the hub writes
    connected,   \* the socket of the hook is open
    ops          \* operations of MaxOps so far, the id of the last

page == <<selected, content, original, editing, loading, saveState>>
requests == <<loads, saves, deletes>>
server == <<disk, written, async>>
socket == <<key, connected>>
hook == <<uncommitted, editors, timers, socket>>
vars == <<page, requests, server, hook, ops>>

SaveStates == {"idle", "saving", "reloading", "live", "failed"}
Users == {"me", "other"}

TypeOK ==
    /\ disk \in [Files -> Texts \cup {Absent}]
    /\ written \subseteq Texts
    /\ selected \in Files \cup {None}
    /\ {content, original} \subseteq Texts
    /\ {editing, loading, uncommitted} \subseteq BOOLEAN
    /\ saveState \in SaveStates
    /\ loads \subseteq [id : 1..MaxOps, path : Files, text : Texts \cup {Absent},
                        stage : {"sent", "served"}]
    /\ saves \subseteq [id : 1..MaxOps, path : Files, text : Texts, signaled : BOOLEAN,
                        stage : {"sent", "served"}]
    /\ deletes \subseteq [id : 1..MaxOps, target : Targets, selected : Files \cup {None},
                          stage : {"sent", "served"}]
    /\ async \subseteq [by : Users, id : 1..MaxOps, next : {"changed", "poll"}, signaled : BOOLEAN]
    /\ editors \subseteq Users
    /\ timers \in [{"live", "failed"} -> Nat]
    /\ key \in TypeKeys /\ connected \in BOOLEAN
    /\ ops \in 0..MaxOps

Init ==
    /\ disk = [f \in Files |-> [from |-> f, rev |-> 0]]
    /\ written = {disk[f] : f \in Files}
    /\ selected = None
    /\ content = Empty /\ original = Empty
    /\ editing = FALSE /\ loading = FALSE
    /\ saveState = "idle"
    /\ loads = {} /\ saves = {} /\ deletes = {}
    /\ async = {}
    /\ uncommitted = FALSE
    /\ editors = {}
    /\ timers = [k \in {"live", "failed"} |-> 0]
    /\ key \in TypeKeys /\ connected = TRUE
    /\ ops = 0

Operation == ops < MaxOps /\ ops' = ops + 1

-----------------------------------------------------------------------------
(* Selecting a file: the effect on selectedFilePath sends a request and does *)
(* not cancel the one before.                                                *)

FetchFile(f) ==
    /\ loading' = TRUE
    /\ loads' = loads \cup {[id |-> ops', path |-> f, text |-> Absent, stage |-> "sent"]}

Select(f) ==
    /\ f # selected
    /\ Operation
    /\ selected' = f
    /\ FetchFile(f)
    /\ UNCHANGED <<content, original, editing, saveState, saves, deletes, server, hook>>

\* Mutant: the content of a file that is gone is answered all the same.
ServeLoadOfNothing(l) ==
    /\ l.stage = "sent"
    /\ loads' = (loads \ {l}) \cup {[l EXCEPT !.stage = "served", !.text = disk[l.path]]}
    /\ UNCHANGED <<page, saves, deletes, server, hook, ops>>

ServeLoad(l) ==
    /\ l.stage = "sent"
    /\ disk[l.path] # Absent
    /\ loads' = (loads \ {l}) \cup {[l EXCEPT !.stage = "served", !.text = disk[l.path]]}
    /\ UNCHANGED <<page, saves, deletes, server, hook, ops>>

FileLoaded(l) ==
    /\ l.stage = "served"
    /\ loads' = loads \ {l}
    /\ content' = l.text
    /\ original' = l.text
    /\ editing' = FALSE
    /\ loading' = FALSE
    /\ UNCHANGED <<selected, saveState, saves, deletes, server, hook, ops>>

\* Mutant: the overlay stays after an error.
FileNotLoadedStaysLoading(l) ==
    /\ loads' = loads \ {l}
    /\ selected' = None
    /\ UNCHANGED <<content, original, editing, loading, saveState, saves, deletes, server, hook, ops>>

FileNotLoaded(l) ==
    /\ loads' = loads \ {l}
    /\ selected' = None
    /\ loading' = FALSE
    /\ UNCHANGED <<content, original, editing, saveState, saves, deletes, server, hook, ops>>

-----------------------------------------------------------------------------
(* Typing and saving.                                                        *)

EditFile ==
    /\ selected # None /\ ~editing
    /\ editing' = TRUE
    /\ UNCHANGED <<selected, content, original, loading, saveState, requests, server, hook, ops>>

Type(r) ==
    /\ selected # None /\ editing
    /\ r # content.rev
    /\ content' = [content EXCEPT !.rev = r]
    /\ UNCHANGED <<selected, original, editing, loading, saveState, requests, server, hook, ops>>

HasUnsavedChanges == content # original

SaveEnabled ==
    /\ selected # None /\ editing
    /\ saveState \in {"idle", "live", "failed"}
    /\ HasUnsavedChanges

HandleSaveFile ==
    /\ SaveEnabled
    /\ Operation
    /\ saveState' = "saving"
    /\ saves' = saves \cup {[id |-> ops', path |-> selected, text |-> content,
                             signaled |-> FALSE, stage |-> "sent"]}
    /\ UNCHANGED <<selected, content, original, editing, loading, loads, deletes, server, hook>>

\* UpdateWorkspaceFileContent: the file is written, the running container is
\* told, and a goroutine is left to tell the members.
ServeSave(s) ==
    /\ s.stage = "sent"
    /\ disk' = [disk EXCEPT ![s.path] = s.text]
    /\ written' = written \cup {s.text}
    /\ \E signaled \in BOOLEAN :
         /\ async' = async \cup {[by |-> "me", id |-> s.id, next |-> "changed", signaled |-> signaled]}
         /\ saves' = (saves \ {s}) \cup {[s EXCEPT !.stage = "served", !.signaled = signaled]}
    /\ UNCHANGED <<page, loads, deletes, hook, ops>>

\* Mutant: what is in the editor now counts as saved.
FileSavedAsItIsNow(s) ==
    /\ s.stage = "served"
    /\ saves' = saves \ {s}
    /\ saveState' = IF s.signaled THEN "reloading" ELSE "idle"
    /\ original' = content
    /\ editing' = FALSE
    /\ UNCHANGED <<selected, content, loading, loads, deletes, server, hook, ops>>

FileSaved(s) ==
    /\ s.stage = "served"
    /\ saves' = saves \ {s}
    /\ saveState' = IF s.signaled THEN "reloading" ELSE "idle"
    /\ original' = s.text
    /\ editing' = FALSE
    /\ UNCHANGED <<selected, content, loading, loads, deletes, server, hook, ops>>

FileNotSaved(s) ==
    /\ saves' = saves \ {s}
    /\ saveState' = "idle"
    /\ UNCHANGED <<selected, content, original, editing, loading, loads, deletes, server, hook, ops>>

-----------------------------------------------------------------------------
(* Deleting: the handler compares the path with the selection of the moment  *)
(* the bin was clicked.                                                      *)

HandleDeleteFileOrFolder(t) ==
    /\ Operation
    /\ deletes' = deletes \cup {[id |-> ops', target |-> t, selected |-> selected,
                                 stage |-> "sent"]}
    /\ UNCHANGED <<page, loads, saves, server, hook>>

ServeDelete(d) ==
    /\ d.stage = "sent"
    /\ disk' = [f \in Files |-> IF f \in d.target THEN Absent ELSE disk[f]]
    /\ deletes' = (deletes \ {d}) \cup {[d EXCEPT !.stage = "served"]}
    /\ UNCHANGED <<page, loads, saves, written, async, hook, ops>>

FileDeleted(d) ==
    /\ d.stage = "served"
    /\ deletes' = deletes \ {d}
    /\ IF d.selected \in d.target
         THEN selected' = None /\ content' = Empty /\ original' = Empty
         ELSE UNCHANGED <<selected, content, original>>
    /\ UNCHANGED <<editing, loading, saveState, loads, saves, server, hook, ops>>

FileNotDeleted(d) ==
    /\ deletes' = deletes \ {d}
    /\ UNCHANGED <<page, loads, saves, server, hook, ops>>

-----------------------------------------------------------------------------
(* Messages of the hub.                                                      *)

SetTimer(k) == timers' = [timers EXCEPT ![k] = @ + 1]

FileChanged(m) ==
    /\ m.type = "file_changed"
    /\ uncommitted' = TRUE
    /\ editors' = editors \cup {m.user_name}
    /\ UNCHANGED <<saveState, timers, socket>>

Committed(m) ==
    /\ m.type = "committed"
    /\ uncommitted' = FALSE
    /\ editors' = {}
    /\ UNCHANGED <<saveState, timers, socket>>

OnReloadReady(m) ==
    /\ m.type = "reload_ready"
    /\ saveState' = "live"
    /\ SetTimer("live")
    /\ UNCHANGED <<uncommitted, editors, socket>>

OnReloadFailed(m) ==
    /\ m.type = "reload_failed"
    /\ saveState' = "failed"
    /\ SetTimer("failed")
    /\ UNCHANGED <<uncommitted, editors, socket>>

\* onmessage: a message whose type is not under the key the hook reads matches
\* no case of its switch.
OnMessage(m) ==
    IF key = "type"
      THEN FileChanged(m) \/ Committed(m) \/ OnReloadReady(m) \/ OnReloadFailed(m)
      ELSE UNCHANGED <<saveState, hook>>

\* A message is sent: the hub keeps the order of its messages, and those of two
\* goroutines have none, so that one on its way is one not sent yet.
Broadcast(t, u) ==
    /\ IF connected THEN OnMessage([type |-> t, user_name |-> u])
                    ELSE UNCHANGED <<saveState, hook>>
    /\ UNCHANGED <<selected, content, original, editing, loading>>

\* onclose: the hook does not connect again.
Disconnect ==
    /\ connected
    /\ connected' = FALSE
    /\ UNCHANGED <<page, requests, server, uncommitted, editors, timers, key, ops>>

\* Mutant: only "live" fades.
TimeoutOfLive(k) ==
    /\ timers[k] > 0
    /\ timers' = [timers EXCEPT ![k] = @ - 1]
    /\ saveState' = IF saveState = "live" THEN "idle" ELSE saveState
    /\ UNCHANGED <<selected, content, original, editing, loading, requests, server,
                   uncommitted, editors, socket, ops>>

\* The timeout of onReloadReady or onReloadFailed; nothing cancels it.
Timeout(k) ==
    /\ timers[k] > 0
    /\ timers' = [timers EXCEPT ![k] = @ - 1]
    /\ saveState' = IF saveState = k THEN "idle" ELSE saveState
    /\ UNCHANGED <<selected, content, original, editing, loading, requests, server,
                   uncommitted, editors, socket, ops>>

-----------------------------------------------------------------------------
(* The goroutines that saves leave behind, and the other members.            *)

BroadcastChange(g) ==
    /\ g.next = "changed"
    /\ async' = (async \ {g}) \cup (IF g.signaled THEN {[g EXCEPT !.next = "poll"]} ELSE {})
    /\ Broadcast("file_changed", g.by)
    /\ UNCHANGED <<requests, disk, written, ops>>

\* The readiness poll.  An environment whose port is not known has none: for
\* the page that is a message it never receives.
BroadcastReload(g) ==
    /\ g.next = "poll"
    /\ async' = async \ {g}
    /\ \E t \in {"reload_ready", "reload_failed"} : Broadcast(t, g.by)
    /\ UNCHANGED <<requests, disk, written, ops>>

\* Another member saves a file that exists, from a page of theirs.
OtherSaves(f, r) ==
    /\ Operation
    /\ disk[f] # Absent
    /\ disk' = [disk EXCEPT ![f] = [from |-> f, rev |-> r]]
    /\ written' = written \cup {disk'[f]}
    /\ \E signaled \in BOOLEAN :
         async' = async \cup {[by |-> "other", id |-> ops', next |-> "changed",
                               signaled |-> signaled]}
    /\ UNCHANGED <<page, requests, hook>>

\* A member creates a file: it is empty, an existing one is left as it is.
CreateFile(f) ==
    /\ Operation
    /\ disk' = [disk EXCEPT ![f] = IF @ = Absent THEN Empty ELSE @]
    /\ written' = written \cup {disk'[f]}
    /\ UNCHANGED <<page, requests, async, hook>>

OtherCommits ==
    /\ Operation
    /\ Broadcast("committed", "other")
    /\ UNCHANGED <<requests, server>>

-----------------------------------------------------------------------------
LoadStep(l) == ServeLoad(l) \/ FileLoaded(l) \/ FileNotLoaded(l)
SaveStep(s) == ServeSave(s) \/ FileSaved(s) \/ FileNotSaved(s)
DeleteStep(d) == ServeDelete(d) \/ FileDeleted(d) \/ FileNotDeleted(d)

User ==
    \/ \E f \in Files : Select(f)
    \/ EditFile
    \/ \E r \in Revs : Type(r)
    \/ HandleSaveFile
    \/ \E t \in Targets : HandleDeleteFileOrFolder(t)

Members ==
    \/ \E f \in Files, r \in Revs : OtherSaves(f, r)
    \/ \E f \in Files : CreateFile(f)
    \/ OtherCommits

Next ==
    \/ \E l \in loads : LoadStep(l)
    \/ \E s \in saves : SaveStep(s)
    \/ \E d \in deletes : DeleteStep(d)
    \/ \E g \in async : BroadcastChange(g) \/ BroadcastReload(g)
    \/ User \/ Members \/ Disconnect
    \/ \E k \in {"live", "failed"} : Timeout(k)

\* A fetch ends, with an answer or an error, and a timeout fires.  Nothing is
\* assumed of the user, of other members or of the hub.
Spec ==
    /\ Init /\ [][Next]_vars
    /\ \A i \in 1..MaxOps : WF_vars(\E l \in loads : l.id = i /\ LoadStep(l))
    /\ \A i \in 1..MaxOps : WF_vars(\E s \in saves : s.id = i /\ SaveStep(s))
    /\ \A k \in {"live", "failed"} : WF_vars(Timeout(k))

-----------------------------------------------------------------------------
(* Properties.                                                               *)

\* The page takes a text for saved (it compares the textarea with it, to show
\* "Unsaved Changes" and to enable Save & Apply) only if some file of the
\* workspace did hold that text: what is typed while a save is under way is
\* not taken for saved when the save ends (page.tsx:529-563).
SavedTextIsOnDisk == original \in written \cup {Empty}

\* The page waits only for an answer that is still to come: the overlay of the
\* editor, and the state "saving" that disables Save & Apply
\* (page.tsx:499-563), whatever order answers and messages of the hub arrive in.
WaitingHasRequest ==
    /\ loading => loads # {}
    /\ saveState = "saving" => saves # {}

\* The overlay goes away and "saving" ends, with whatever outcome; "Live" and
\* "Failed" fade (page.tsx:158-173), also when the messages of several saves
\* overlap and their timeouts with them.
IndicatorsSettle ==
    /\ loading ~> ~loading
    /\ saveState = "saving" ~> saveState # "saving"
    /\ saveState \in {"live", "failed"} ~> saveState \notin {"live", "failed"}

\* What the hub sends of a reload ("A `reload_ready` WebSocket event is broadcast to
\* all connected clients", docs/ARCHITECTURE.md:72) ends "Reloading" on a page that
\* is connected.
ReloadIsHeard ==
    [][\A g \in async : BroadcastReload(g) /\ connected => saveState' \in {"live", "failed"}]_vars

\* What is saved into a file was loaded from that file, or typed into an empty
\* editor ("Fetch file content when path changes", page.tsx:498).
SavesGoToTheirFile == \A s \in saves : s.text.from \in {s.path, None}

=============================================================================
