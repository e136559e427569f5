--------------------------- MODULE FileEditorProofs ---------------------------
(*****************************************************************************)
(* The page of the editor waits only for requests that are under way, and    *)
(* takes only texts for saved that some file has held, with any number of    *)
(* files, members and requests.                                              *)
(*****************************************************************************)
EXTENDS FileEditor, TLAPS

-----------------------------------------------------------------------------
(* A message of the hub changes the indicator and the hook's own state.      *)

LEMMA BroadcastEffect ==
  ASSUME NEW t, NEW u, Broadcast(t, u)
  PROVE  /\ UNCHANGED <<selected, content, original, editing, loading>>
         /\ saveState' \in {saveState, "live", "failed"}
<1>1. CASE UNCHANGED <<saveState, hook>>
  BY <1>1 DEF Broadcast
<1>2. CASE OnMessage([type |-> t, user_name |-> u])
  BY <1>2 DEF Broadcast, OnMessage, FileChanged, Committed, OnReloadReady, OnReloadFailed
<1> QED
  BY <1>1, <1>2 DEF Broadcast

-----------------------------------------------------------------------------
(* Waiting.                                                                  *)

LEMMA WaitingStep ==
  ASSUME WaitingHasRequest, [Next]_vars
  PROVE  WaitingHasRequest'
<1> USE DEF WaitingHasRequest
<1>1. ASSUME NEW l \in loads, LoadStep(l) PROVE WaitingHasRequest'
  BY <1>1 DEF LoadStep, ServeLoad, FileLoaded, FileNotLoaded, page
<1>2. ASSUME NEW s \in saves, SaveStep(s) PROVE WaitingHasRequest'
  <2>1. CASE ServeSave(s)
    <3>1. PICK b \in BOOLEAN :
            saves' = (saves \ {s}) \cup {[s EXCEPT !.stage = "served", !.signaled = b]}
      BY <2>1 DEF ServeSave
    <3> QED
      BY <2>1, <3>1 DEF ServeSave, page
  <2>2. CASE FileSaved(s) \/ FileNotSaved(s)
    <3>1. saveState' # "saving" /\ UNCHANGED <<loading, loads>>
      BY <2>2 DEF FileSaved, FileNotSaved
    <3> QED
      BY <3>1
  <2> QED
    BY <1>2, <2>1, <2>2 DEF SaveStep
<1>3. ASSUME NEW d \in deletes, DeleteStep(d) PROVE WaitingHasRequest'
  BY <1>3 DEF DeleteStep, ServeDelete, FileDeleted, FileNotDeleted, page
<1>4. ASSUME NEW g \in async, BroadcastChange(g) \/ BroadcastReload(g) PROVE WaitingHasRequest'
  <2>1. PICK t, u : Broadcast(t, u)
    BY <1>4 DEF BroadcastChange, BroadcastReload
  <2>2. UNCHANGED requests
    BY <1>4 DEF BroadcastChange, BroadcastReload
  <2> QED
    BY <2>1, <2>2, BroadcastEffect DEF requests
<1>5. CASE User
  <2>1. ASSUME NEW f \in Files, Select(f) PROVE WaitingHasRequest'
    <3>1. loads' # {} /\ UNCHANGED <<saveState, saves>>
      BY <2>1 DEF Select, FetchFile
    <3> QED
      BY <3>1
  <2>2. CASE HandleSaveFile
    <3>1. saves' # {} /\ UNCHANGED <<loading, loads>>
      BY <2>2 DEF HandleSaveFile
    <3> QED
      BY <3>1
  <2>3. CASE EditFile \/ (\E r \in Revs : Type(r))
    BY <2>3 DEF EditFile, Type, requests
  <2>4. ASSUME NEW t \in Targets, HandleDeleteFileOrFolder(t) PROVE WaitingHasRequest'
    BY <2>4 DEF HandleDeleteFileOrFolder, page
  <2> QED
    BY <1>5, <2>1, <2>2, <2>3, <2>4 DEF User
<1>6. CASE Members
  <2>1. CASE OtherCommits
    BY <2>1, BroadcastEffect DEF OtherCommits, requests
  <2>2. CASE ~OtherCommits
    BY <1>6, <2>2 DEF Members, OtherSaves, CreateFile, page, requests
  <2> QED
    BY <2>1, <2>2
<1>7. ASSUME NEW k \in {"live", "failed"}, Timeout(k) PROVE WaitingHasRequest'
  BY <1>7 DEF Timeout, requests
<1>8. CASE UNCHANGED vars
  BY <1>8 DEF vars, page, requests
<1>9. CASE Disconnect
  BY <1>9 DEF Disconnect, page, requests
<1> QED
  BY <1>1, <1>2, <1>3, <1>4, <1>5, <1>6, <1>7, <1>8, <1>9 DEF Next

\* The page waits only for an answer that is still to come (page.tsx:499-563).
THEOREM WaitingIsForRequests == Spec => []WaitingHasRequest
<1>1. Init => WaitingHasRequest
  BY DEF Init, WaitingHasRequest
<1> QED
  BY <1>1, WaitingStep, PTL DEF Spec

-----------------------------------------------------------------------------
(* What is saved.                                                            *)

\* Every text that an answer may bring is one that the workspace has held: the
\* ones on the disk, those the server has read for an answer, and those of the
\* saves it has carried out.
Loads == [id : Nat, path : Files, text : written \cup {Absent}, stage : {"sent", "served"}]
Saves == [id : Nat, path : Files, text : Texts, signaled : BOOLEAN, stage : {"sent", "served"}]

HeldInv ==
    /\ ops \in Nat
    /\ original \in written \cup {Empty}
    /\ content \in Texts
    /\ written \subseteq Texts
    /\ disk \in [Files -> written \cup {Absent}]
    /\ selected \in Files \cup {None}
    /\ loads \subseteq Loads
    /\ \A l \in loads : l.stage = "served" => l.text \in written
    /\ saves \subseteq Saves
    /\ \A s \in saves : s.stage = "served" => s.text \in written

LEMMA HeldInit == Init => HeldInv
<1> SUFFICES ASSUME Init PROVE HeldInv
  OBVIOUS
<1>1. \A f \in Files : disk[f] = [from |-> f, rev |-> 0] /\ disk[f] \in Texts
  BY EditorAssumption DEF Init, Texts
<1>2. disk \in [Files -> written]
  BY <1>1 DEF Init
<1> QED
  BY <1>1, <1>2, EditorAssumption DEF Init, HeldInv, Texts, Empty

LEMMA HeldLoad ==
  ASSUME HeldInv, NEW l \in loads, LoadStep(l)
  PROVE  HeldInv'
<1> USE DEF HeldInv
<1>1. CASE ServeLoad(l)
  <2> DEFINE m == [l EXCEPT !.stage = "served", !.text = disk[l.path]]
  <2>1. l \in Loads
    BY <1>1
  <2>2. disk[l.path] \in written
    BY <1>1, <2>1 DEF ServeLoad, Loads
  <2>3. m \in Loads /\ m.text \in written
    BY <2>1, <2>2 DEF Loads
  <2>4. loads' = (loads \ {l}) \cup {m} /\ Loads' = Loads
    BY <1>1 DEF ServeLoad, Loads, server
  <2> HIDE DEF m
  <2> QED
    BY <1>1, <2>3, <2>4 DEF ServeLoad, page, server
<1>2. CASE FileLoaded(l)
  <2>1. content' \in written /\ original' = content' /\ Loads' = Loads
    BY <1>2 DEF FileLoaded, Loads, server
  <2> QED
    BY <1>2, <2>1 DEF FileLoaded, server
<1>3. CASE FileNotLoaded(l)
  <2>1. Loads' = Loads
    BY <1>3 DEF FileNotLoaded, Loads, server
  <2> QED
    BY <1>3, <2>1 DEF FileNotLoaded, server
<1> QED
  BY <1>1, <1>2, <1>3 DEF LoadStep

\* A step that only adds texts to `written` keeps what is known of the loads.
LEMMA HeldLoads ==
  ASSUME HeldInv, written \subseteq written', UNCHANGED loads
  PROVE  /\ (loads \subseteq Loads)'
         /\ (\A l \in loads : l.stage = "served" => l.text \in written)'
<1>1. Loads \subseteq Loads'
  BY DEF Loads
<1> QED
  BY <1>1 DEF HeldInv

LEMMA HeldSave ==
  ASSUME HeldInv, NEW s \in saves, SaveStep(s)
  PROVE  HeldInv'
<1> USE DEF HeldInv
<1>0. s \in Saves /\ s.path \in Files /\ s.text \in Texts
  BY DEF Saves
<1>1. CASE ServeSave(s)
  <2>1. PICK b \in BOOLEAN :
          saves' = (saves \ {s}) \cup {[s EXCEPT !.stage = "served", !.signaled = b]}
    BY <1>1 DEF ServeSave
  <2> DEFINE m == [s EXCEPT !.stage = "served", !.signaled = b]
  <2>2. m \in Saves /\ m.text = s.text
    BY <1>0 DEF Saves
  <2>3. /\ written' = written \cup {s.text}
        /\ disk' = [disk EXCEPT ![s.path] = s.text]
        /\ UNCHANGED <<original, content, selected, loads, ops>>
    BY <1>1 DEF ServeSave, page
  <2>4. disk' \in [Files -> written' \cup {Absent}]
    BY <2>3, <1>0
  <2>5. Saves' = Saves /\ saves' = (saves \ {s}) \cup {m}
    BY <2>1 DEF Saves
  <2> HIDE DEF m
  <2>6. (saves \subseteq Saves)' /\ (\A x \in saves : x.stage = "served" => x.text \in written)'
    BY <2>2, <2>3, <2>5
  <2> QED
    BY <2>3, <2>4, <2>6, <1>0, HeldLoads
<1>2. CASE FileSaved(s)
  <2>1. original' \in written
    BY <1>2 DEF FileSaved
  <2>2. Loads' = Loads /\ Saves' = Saves
    BY <1>2 DEF FileSaved, server, Loads, Saves
  <2> QED
    BY <1>2, <2>1, <2>2 DEF FileSaved, server
<1>3. CASE FileNotSaved(s)
  <2>2. Loads' = Loads /\ Saves' = Saves
    BY <1>3 DEF FileNotSaved, server, Loads, Saves
  <2> QED
    BY <1>3, <2>2 DEF FileNotSaved, server
<1> QED
  BY <1>1, <1>2, <1>3 DEF SaveStep

LEMMA HeldDelete ==
  ASSUME HeldInv, NEW d \in deletes, DeleteStep(d)
  PROVE  HeldInv'
<1> USE DEF HeldInv
<1>0. Loads' = Loads /\ Saves' = Saves /\ UNCHANGED <<written, loads, saves, ops>>
  BY DEF DeleteStep, ServeDelete, FileDeleted, FileNotDeleted, server, Loads, Saves
<1>1. CASE ServeDelete(d)
  <2>1. disk' \in [Files -> written \cup {Absent}]
    BY <1>1 DEF ServeDelete
  <2> QED
    BY <1>0, <1>1, <2>1 DEF ServeDelete, page
<1>2. CASE FileDeleted(d)
  <2>1. content' \in {content, Empty} /\ original' \in {original, Empty}
        /\ selected' \in {selected, None} /\ UNCHANGED disk
    BY <1>2 DEF FileDeleted, server
  <2>2. Empty \in Texts
    BY EditorAssumption DEF Empty, Texts
  <2> QED
    BY <1>0, <2>1, <2>2
<1>3. CASE FileNotDeleted(d)
  BY <1>0, <1>3 DEF FileNotDeleted, page, server
<1> QED
  BY <1>1, <1>2, <1>3 DEF DeleteStep

LEMMA HeldUser ==
  ASSUME HeldInv, User
  PROVE  HeldInv'
<1> USE DEF HeldInv
<1>0. Loads' = Loads /\ Saves' = Saves /\ UNCHANGED <<disk, written>>
  BY DEF User, Select, EditFile, Type, HandleSaveFile, HandleDeleteFileOrFolder, server, Loads, Saves
<1>1. ASSUME NEW f \in Files, Select(f) PROVE HeldInv'
  <2> DEFINE m == [id |-> ops', path |-> f, text |-> Absent, stage |-> "sent"]
  <2>1. ops' \in Nat /\ m \in Loads /\ m.stage # "served"
    BY <1>1 DEF Select, Operation, Loads
  <2>2. loads' = loads \cup {m} /\ selected' = f /\ UNCHANGED <<content, original, saves>>
    BY <1>1 DEF Select, FetchFile
  <2> HIDE DEF m
  <2> QED
    BY <1>0, <2>1, <2>2
<1>2. CASE EditFile
  BY <1>0, <1>2 DEF EditFile, requests
<1>3. ASSUME NEW r \in Revs, Type(r) PROVE HeldInv'
  <2>1. content' \in Texts
    BY <1>3 DEF Type, Texts
  <2> QED
    BY <1>0, <1>3, <2>1 DEF Type, requests
<1>4. CASE HandleSaveFile
  <2> DEFINE m == [id |-> ops', path |-> selected, text |-> content,
                   signaled |-> FALSE, stage |-> "sent"]
  <2>1. ops' \in Nat /\ selected \in Files
    BY <1>4 DEF HandleSaveFile, SaveEnabled, Operation
  <2>2. m \in Saves /\ m.stage # "served"
    BY <2>1 DEF Saves
  <2>3. saves' = saves \cup {m} /\ UNCHANGED <<selected, content, original, loads>>
    BY <1>4 DEF HandleSaveFile
  <2> HIDE DEF m
  <2> QED
    BY <1>0, <2>1, <2>2, <2>3
<1>5. ASSUME NEW t \in Targets, HandleDeleteFileOrFolder(t) PROVE HeldInv'
  <2>1. ops' \in Nat
    BY <1>5 DEF HandleDeleteFileOrFolder, Operation
  <2> QED
    BY <1>0, <1>5, <2>1 DEF HandleDeleteFileOrFolder, page
<1> QED
  BY <1>1, <1>2, <1>3, <1>4, <1>5 DEF User

LEMMA HeldMembers ==
  ASSUME HeldInv, Members
  PROVE  HeldInv'
<1> USE DEF HeldInv
<1>0. Saves' = Saves
  BY DEF Saves
<1>1. ASSUME NEW f \in Files, NEW r \in Revs, OtherSaves(f, r) PROVE HeldInv'
  <2> DEFINE x == [from |-> f, rev |-> r]
  <2>1. disk' = [disk EXCEPT ![f] = x] /\ disk'[f] = x /\ x \in Texts
    BY <1>1 DEF OtherSaves, Texts
  <2>2. written' = written \cup {x} /\ ops' \in Nat
        /\ UNCHANGED <<original, content, selected, loads, saves>>
    BY <1>1, <2>1 DEF OtherSaves, Operation, page, requests
  <2> HIDE DEF x
  <2> QED
    BY <1>0, <2>1, <2>2, HeldLoads
<1>2. ASSUME NEW f \in Files, CreateFile(f) PROVE HeldInv'
  <2> DEFINE x == IF disk[f] = Absent THEN Empty ELSE disk[f]
  <2>1. disk' = [disk EXCEPT ![f] = x] /\ disk'[f] = x
    BY <1>2 DEF CreateFile
  <2>2. x \in Texts
    BY EditorAssumption DEF Empty, Texts
  <2>3. written' = written \cup {x} /\ ops' \in Nat
        /\ UNCHANGED <<original, content, selected, loads, saves>>
    BY <1>2, <2>1 DEF CreateFile, Operation, page, requests
  <2> HIDE DEF x
  <2> QED
    BY <1>0, <2>1, <2>2, <2>3, HeldLoads
<1>3. CASE OtherCommits
  <2>1. UNCHANGED <<selected, content, original>>
    BY <1>3, BroadcastEffect DEF OtherCommits
  <2>2. UNCHANGED <<loads, saves, disk, written>> /\ ops' \in Nat /\ Loads' = Loads
    BY <1>3 DEF OtherCommits, Operation, requests, server, Loads
  <2> QED
    BY <1>0, <2>1, <2>2
<1> QED
  BY <1>1, <1>2, <1>3 DEF Members

LEMMA HeldStep ==
  ASSUME HeldInv, [Next]_vars
  PROVE  HeldInv'
<1>1. ASSUME NEW g \in async, BroadcastChange(g) \/ BroadcastReload(g) PROVE HeldInv'
  <2>1. PICK t, u : Broadcast(t, u)
    BY <1>1 DEF BroadcastChange, BroadcastReload
  <2>2. UNCHANGED <<requests, disk, written, ops>>
    BY <1>1 DEF BroadcastChange, BroadcastReload
  <2>3. UNCHANGED <<selected, content, original>>
    BY <2>1, BroadcastEffect
  <2> QED
    BY <2>2, <2>3 DEF HeldInv, requests, Loads, Saves
<1>2. ASSUME NEW k \in {"live", "failed"}, Timeout(k) PROVE HeldInv'
  BY <1>2 DEF Timeout, HeldInv, requests, server, Loads, Saves
<1>3. CASE UNCHANGED vars
  BY <1>3 DEF vars, HeldInv, page, requests, server, Loads, Saves
<1>4. CASE Disconnect
  BY <1>4 DEF Disconnect, HeldInv, page, requests, server, Loads, Saves
<1> QED
  BY <1>1, <1>2, <1>3, <1>4, HeldLoad, HeldSave, HeldDelete, HeldUser, HeldMembers DEF Next

\* A text counts as saved only if some file of the workspace has held it
\* (page.tsx:529-563).
THEOREM SavedTextWasOnDisk == Spec => []SavedTextIsOnDisk
<1>1. HeldInv => SavedTextIsOnDisk
  BY DEF HeldInv, SavedTextIsOnDisk
<1> QED
  BY <1>1, HeldInit, HeldStep, PTL DEF Spec

-----------------------------------------------------------------------------
(* Types.  Of a request only the text it brings is not obvious: an answer    *)
(* brings one that some file has held (HeldInv).                             *)

LoadType == [id : 1..MaxOps, path : Files, text : Texts \cup {Absent}, stage : {"sent", "served"}]
SaveType == [id : 1..MaxOps, path : Files, text : Texts, signaled : BOOLEAN,
             stage : {"sent", "served"}]
DeleteType == [id : 1..MaxOps, target : Targets, selected : Files \cup {None},
               stage : {"sent", "served"}]
AsyncType == [by : Users, id : 1..MaxOps, next : {"changed", "poll"}, signaled : BOOLEAN]

\* TypeOK in three parts, by who changes the variables.
PageType ==
    /\ selected \in Files \cup {None}
    /\ {content, original} \subseteq Texts
    /\ {editing, loading} \subseteq BOOLEAN
    /\ saveState \in SaveStates
RequestType ==
    /\ disk \in [Files -> Texts \cup {Absent}] /\ written \subseteq Texts
    /\ loads \subseteq LoadType /\ saves \subseteq SaveType
    /\ deletes \subseteq DeleteType /\ async \subseteq AsyncType
    /\ ops \in 0..MaxOps
HookType ==
    /\ uncommitted \in BOOLEAN /\ editors \subseteq Users
    /\ timers \in [{"live", "failed"} -> Nat]
    /\ key \in TypeKeys /\ connected \in BOOLEAN

LEMMA TypeParts ==
  /\ TypeOK <=> PageType /\ RequestType /\ HookType
  /\ TypeOK' <=> PageType' /\ RequestType' /\ HookType'
BY DEF TypeOK, PageType, RequestType, HookType, LoadType, SaveType, DeleteType, AsyncType

\* The number of an operation is a new one within the bound.
LEMMA Numbered ==
  ASSUME RequestType, Operation
  PROVE  ops' \in 0..MaxOps /\ ops' \in 1..MaxOps
BY EditorAssumption DEF RequestType, Operation

LEMMA EmptyIsText == Empty \in Texts
BY EditorAssumption DEF Empty, Texts

\* A message of the hub keeps the types of the page and of the hook.
LEMMA BroadcastType ==
  ASSUME PageType, HookType, NEW t, NEW u \in Users, Broadcast(t, u)
  PROVE  PageType' /\ HookType'
<1> DEFINE m == [type |-> t, user_name |-> u]
<1>1. PageType'
  BY BroadcastEffect DEF PageType, SaveStates
<1>2. CASE UNCHANGED hook
  BY <1>1, <1>2 DEF HookType, hook, socket
<1>3. CASE FileChanged(m) \/ Committed(m)
  BY <1>1, <1>3 DEF FileChanged, Committed, HookType, socket
<1>4. CASE OnReloadReady(m) \/ OnReloadFailed(m)
  BY <1>1, <1>4 DEF OnReloadReady, OnReloadFailed, SetTimer, HookType, socket
<1> QED
  BY <1>1, <1>2, <1>3, <1>4 DEF Broadcast, OnMessage

LEMMA TypeLoad ==
  ASSUME TypeOK, HeldInv, NEW l \in loads, LoadStep(l)
  PROVE  TypeOK'
<1> USE TypeParts
<1>0. l \in LoadType /\ PageType /\ RequestType /\ HookType
  BY DEF RequestType
<1>1. CASE ServeLoad(l)
  <2> DEFINE m == [l EXCEPT !.stage = "served", !.text = disk[l.path]]
  <2>1. m \in LoadType
    BY <1>0 DEF LoadType, RequestType
  <2>2. loads' = (loads \ {l}) \cup {m}
    BY <1>1 DEF ServeLoad
  <2> HIDE DEF m
  <2> QED
    BY <1>0, <1>1, <2>1, <2>2 DEF ServeLoad, page, server, hook, socket, PageType, RequestType, HookType
<1>2. CASE FileLoaded(l)
  <2>1. l.text \in Texts
    BY <1>2 DEF FileLoaded, HeldInv
  <2> QED
    BY <1>0, <1>2, <2>1 DEF FileLoaded, server, hook, socket, PageType, RequestType, HookType
<1>3. CASE FileNotLoaded(l)
  BY <1>0, <1>3 DEF FileNotLoaded, server, hook, socket, PageType, RequestType, HookType
<1> QED
  BY <1>1, <1>2, <1>3 DEF LoadStep

LEMMA TypeSave ==
  ASSUME TypeOK, NEW s \in saves, SaveStep(s)
  PROVE  TypeOK'
<1> USE TypeParts
<1>0. s \in SaveType /\ PageType /\ RequestType /\ HookType
  BY DEF RequestType
<1>1. CASE ServeSave(s)
  <2>1. PICK b \in BOOLEAN :
          /\ async' = async \cup {[by |-> "me", id |-> s.id, next |-> "changed", signaled |-> b]}
          /\ saves' = (saves \ {s}) \cup {[s EXCEPT !.stage = "served", !.signaled = b]}
    BY <1>1 DEF ServeSave
  <2>2. [s EXCEPT !.stage = "served", !.signaled = b] \in SaveType
    BY <1>0 DEF SaveType
  <2>3. [by |-> "me", id |-> s.id, next |-> "changed", signaled |-> b] \in AsyncType
    BY <1>0 DEF SaveType, AsyncType, Users
  <2>4. disk' \in [Files -> Texts \cup {Absent}] /\ written' \subseteq Texts
    BY <1>0, <1>1 DEF ServeSave, SaveType, RequestType
  <2>5. UNCHANGED <<page, loads, deletes, hook, ops>>
    BY <1>1 DEF ServeSave
  <2>6. saves' \subseteq SaveType /\ async' \subseteq AsyncType
    BY <1>0, <2>1, <2>2, <2>3 DEF RequestType
  <2> QED
    BY <1>0, <2>4, <2>5, <2>6 DEF page, hook, socket, PageType, RequestType, HookType
<1>2. CASE FileSaved(s)
  BY <1>0, <1>2 DEF FileSaved, server, hook, socket, PageType, RequestType, HookType, SaveType, SaveStates
<1>3. CASE FileNotSaved(s)
  BY <1>0, <1>3 DEF FileNotSaved, server, hook, socket, PageType, RequestType, HookType, SaveStates
<1> QED
  BY <1>1, <1>2, <1>3 DEF SaveStep

LEMMA TypeDelete ==
  ASSUME TypeOK, NEW d \in deletes, DeleteStep(d)
  PROVE  TypeOK'
<1> USE TypeParts
<1>0. d \in DeleteType /\ PageType /\ RequestType /\ HookType
  BY DEF RequestType
<1>1. CASE ServeDelete(d)
  <2>1. [d EXCEPT !.stage = "served"] \in DeleteType
    BY <1>0 DEF DeleteType
  <2>2. deletes' \subseteq DeleteType
    BY <1>0, <1>1, <2>1 DEF ServeDelete, RequestType
  <2>3. disk' \in [Files -> Texts \cup {Absent}]
    BY <1>0, <1>1 DEF ServeDelete, RequestType
  <2> QED
    BY <1>0, <1>1, <2>2, <2>3 DEF ServeDelete, page, hook, socket, PageType, RequestType, HookType
<1>2. CASE FileDeleted(d)
  BY <1>0, <1>2, EmptyIsText DEF FileDeleted, server, hook, socket, PageType, RequestType, HookType
<1>3. CASE FileNotDeleted(d)
  BY <1>0, <1>3 DEF FileNotDeleted, page, server, hook, socket, PageType, RequestType, HookType
<1> QED
  BY <1>1, <1>2, <1>3 DEF DeleteStep

LEMMA TypeUser ==
  ASSUME TypeOK, User
  PROVE  TypeOK'
<1> USE TypeParts
<1>0. PageType /\ RequestType /\ HookType
  OBVIOUS
<1>1. ASSUME NEW f \in Files, Select(f) PROVE TypeOK'
  <2>1. ops' \in 0..MaxOps /\ ops' \in 1..MaxOps
    BY <1>0, <1>1, Numbered DEF Select
  <2>2. [id |-> ops', path |-> f, text |-> Absent, stage |-> "sent"] \in LoadType
    BY <2>1 DEF LoadType
  <2>3. loads' \subseteq LoadType
    BY <1>0, <1>1, <2>2 DEF Select, FetchFile, RequestType
  <2> QED
    BY <1>0, <1>1, <2>1, <2>3 DEF Select, FetchFile, server, hook, socket, PageType, RequestType, HookType
<1>2. CASE EditFile
  BY <1>0, <1>2 DEF EditFile, requests, server, hook, socket, PageType, RequestType, HookType
<1>3. ASSUME NEW r \in Revs, Type(r) PROVE TypeOK'
  <2>1. content' \in Texts
    BY <1>0, <1>3 DEF Type, Texts, PageType
  <2> QED
    BY <1>0, <1>3, <2>1 DEF Type, requests, server, hook, socket, PageType, RequestType, HookType
<1>4. CASE HandleSaveFile
  <2>1. ops' \in 0..MaxOps /\ ops' \in 1..MaxOps
    BY <1>0, <1>4, Numbered DEF HandleSaveFile
  <2>2. [id |-> ops', path |-> selected, text |-> content, signaled |-> FALSE, stage |-> "sent"]
          \in SaveType
    BY <1>0, <1>4, <2>1 DEF HandleSaveFile, SaveEnabled, SaveType, PageType
  <2>3. saves' \subseteq SaveType
    BY <1>0, <1>4, <2>2 DEF HandleSaveFile, RequestType
  <2> QED
    BY <1>0, <1>4, <2>1, <2>3
       DEF HandleSaveFile, server, hook, socket, PageType, RequestType, HookType, SaveStates
<1>5. ASSUME NEW t \in Targets, HandleDeleteFileOrFolder(t) PROVE TypeOK'
  <2>1. ops' \in 0..MaxOps /\ ops' \in 1..MaxOps
    BY <1>0, <1>5, Numbered DEF HandleDeleteFileOrFolder
  <2>2. [id |-> ops', target |-> t, selected |-> selected, stage |-> "sent"] \in DeleteType
    BY <1>0, <2>1 DEF DeleteType, PageType
  <2>3. deletes' \subseteq DeleteType
    BY <1>0, <1>5, <2>2 DEF HandleDeleteFileOrFolder, RequestType
  <2> QED
    BY <1>0, <1>5, <2>1, <2>3
       DEF HandleDeleteFileOrFolder, page, server, hook, socket, PageType, RequestType, HookType
<1> QED
  BY <1>1, <1>2, <1>3, <1>4, <1>5 DEF User

LEMMA TypeMembers ==
  ASSUME TypeOK, Members
  PROVE  TypeOK'
<1> USE TypeParts
<1>0. PageType /\ RequestType /\ HookType
  OBVIOUS
<1>1. ASSUME NEW f \in Files, NEW r \in Revs, OtherSaves(f, r) PROVE TypeOK'
  <2>1. ops' \in 0..MaxOps /\ ops' \in 1..MaxOps
    BY <1>0, <1>1, Numbered DEF OtherSaves
  <2>2. disk' = [disk EXCEPT ![f] = [from |-> f, rev |-> r]] /\ [from |-> f, rev |-> r] \in Texts
    BY <1>1 DEF OtherSaves, Texts
  <2>3. disk' \in [Files -> Texts \cup {Absent}] /\ disk'[f] \in Texts
    BY <1>0, <2>2 DEF RequestType
  <2>4. written' \subseteq Texts
    BY <1>0, <1>1, <2>3 DEF OtherSaves, RequestType
  <2>5. PICK b \in BOOLEAN :
          async' = async \cup {[by |-> "other", id |-> ops', next |-> "changed", signaled |-> b]}
    BY <1>1 DEF OtherSaves
  <2>6. [by |-> "other", id |-> ops', next |-> "changed", signaled |-> b] \in AsyncType
    BY <2>1 DEF AsyncType, Users
  <2>7. async' \subseteq AsyncType
    BY <1>0, <2>5, <2>6 DEF RequestType
  <2>8. UNCHANGED <<page, requests, hook>>
    BY <1>1 DEF OtherSaves
  <2> QED
    BY <1>0, <2>1, <2>3, <2>4, <2>7, <2>8
       DEF page, requests, hook, socket, PageType, RequestType, HookType
<1>2. ASSUME NEW f \in Files, CreateFile(f) PROVE TypeOK'
  <2>1. ops' \in 0..MaxOps
    BY <1>0, <1>2, Numbered DEF CreateFile
  <2>2. disk' \in [Files -> Texts \cup {Absent}] /\ disk'[f] \in Texts
    BY <1>0, <1>2, EmptyIsText DEF CreateFile, RequestType
  <2>3. written' \subseteq Texts
    BY <1>0, <1>2, <2>2 DEF CreateFile, RequestType
  <2> QED
    BY <1>0, <1>2, <2>1, <2>2, <2>3
       DEF CreateFile, page, requests, hook, socket, PageType, RequestType, HookType
<1>3. CASE OtherCommits
  <2>1. ops' \in 0..MaxOps /\ UNCHANGED <<requests, server>>
    BY <1>0, <1>3, Numbered DEF OtherCommits
  <2>2. PageType' /\ HookType'
    BY <1>0, <1>3, BroadcastType DEF OtherCommits, Users
  <2> QED
    BY <1>0, <2>1, <2>2 DEF requests, server, RequestType
<1> QED
  BY <1>1, <1>2, <1>3 DEF Members

LEMMA TypeAsync ==
  ASSUME TypeOK, NEW g \in async, BroadcastChange(g) \/ BroadcastReload(g)
  PROVE  TypeOK'
<1> USE TypeParts
<1>0. g \in AsyncType /\ PageType /\ RequestType /\ HookType
  BY DEF RequestType
<1>1. PICK t : Broadcast(t, g.by)
  BY DEF BroadcastChange, BroadcastReload
<1>2. PageType' /\ HookType'
  BY <1>0, <1>1, BroadcastType DEF AsyncType
<1>3. [g EXCEPT !.next = "poll"] \in AsyncType
  BY <1>0 DEF AsyncType
<1>4. async' \subseteq AsyncType
  BY <1>0, <1>3 DEF BroadcastChange, BroadcastReload, RequestType
<1>5. UNCHANGED <<requests, disk, written, ops>>
  BY DEF BroadcastChange, BroadcastReload
<1> QED
  BY <1>0, <1>2, <1>4, <1>5 DEF requests, RequestType

LEMMA TypeStep ==
  ASSUME TypeOK, HeldInv, [Next]_vars
  PROVE  TypeOK'
<1>0. PageType /\ RequestType /\ HookType
  BY TypeParts
<1>1. ASSUME NEW k \in {"live", "failed"}, Timeout(k) PROVE TypeOK'
  <2>1. timers' \in [{"live", "failed"} -> Nat]
    <3>1. timers[k] - 1 \in Nat
      BY <1>0, <1>1 DEF Timeout, HookType
    <3> QED
      BY <1>0, <1>1, <3>1 DEF Timeout, HookType
  <2> QED
    BY <1>0, <1>1, <2>1, TypeParts
       DEF Timeout, requests, server, socket, PageType, RequestType, HookType, SaveStates
<1>2. CASE UNCHANGED vars
  BY <1>0, <1>2, TypeParts
     DEF vars, page, requests, server, hook, socket, PageType, RequestType, HookType
<1>3. CASE Disconnect
  BY <1>0, <1>3, TypeParts
     DEF Disconnect, page, requests, server, PageType, RequestType, HookType
<1> QED
  BY <1>1, <1>2, <1>3, TypeLoad, TypeSave, TypeDelete, TypeUser, TypeMembers, TypeAsync DEF Next

\* Every variable of the page keeps its type.  In particular the page never shows
\* or holds for saved what stands for a file that is not there: an answer to a
\* request for one that has been deleted meanwhile is an error (files.go:178-182).
THEOREM EditorTypes == Spec => []TypeOK
<1>1. Init => TypeOK
  <2> SUFFICES ASSUME Init PROVE TypeOK
    OBVIOUS
  <2>1. \A f \in Files : disk[f] = [from |-> f, rev |-> 0] /\ disk[f] \in Texts
    BY EditorAssumption DEF Init, Texts
  <2>2. disk \in [Files -> Texts \cup {Absent}] /\ written \subseteq Texts
    BY <2>1 DEF Init
  <2>3. timers \in [{"live", "failed"} -> Nat] /\ ops \in 0..MaxOps
    BY EditorAssumption DEF Init
  <2> QED
    BY <2>2, <2>3, EmptyIsText, TypeParts
       DEF Init, PageType, RequestType, HookType, SaveStates
<1>2. TypeOK /\ HeldInv /\ [Next]_vars => (TypeOK /\ HeldInv)'
  BY TypeStep, HeldStep
<1> QED
  BY <1>1, <1>2, HeldInit, PTL DEF Spec

=============================================================================
