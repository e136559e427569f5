----------------------------- MODULE Invitations ------------------------------
(*****************************************************************************)
(* The members of one project: the collaborators tab of an environment's     *)
(* page (page.tsx), the pending invitations of the profile page              *)
(* (profile/page.tsx), and the handlers of the server (api/projects.go),     *)
(* each of which reads the database first and writes it later.               *)
(*                                                                           *)
(* The owner's membership of a project made by CreateProject is accepted;    *)
(* that of a Default Workspace is stored like an invitation, pending until   *)
(* the owner accepts it or the backend starts again.                         *)
(*                                                                           *)
(* No button of these lists is disabled while its request is under way, and  *)
(* each list is what SWR brought last.                                       *)
(*****************************************************************************)
EXTENDS Naturals, FiniteSets

CONSTANTS
    MaxInvites, \* bound: invitations stored
    MaxCalls    \* bound: requests sent

ASSUME InviteAssumption == {MaxInvites, MaxCalls} \subseteq Nat

Owner == "owner"
Guest == "guest"
Users == {Owner, Guest}
Roles == {"ADMIN", "VIEWER"}        \* a role that may remove others, and one that may not

VARIABLES
    shared,     \* the project's name is not "Default Workspace"
    rows,       \* project_collaborators: [id, user, role, accepted]
    stored,     \* invitations stored so far
    gone,       \* ids of rows that were deleted
    calls,      \* requests under way: [id, kind, by, user, role, as, stage, row]
    sent,       \* requests so far
    team,       \* project.collaborators, as each user's page knows it
    invites     \* the ids of a user's pending rows, as the user's profile page knows them

tableVars == <<shared, rows, stored, gone>>
callVars == <<calls, sent>>
listVars == <<team, invites>>
InviteVars == <<tableVars, callVars, listVars>>

OwnerRow == [id |-> 0, user |-> Owner, role |-> "OWNER", accepted |-> TRUE]
PendingOwnerRow == [OwnerRow EXCEPT !.accepted = FALSE]
NoRow == [OwnerRow EXCEPT !.user = "none"]
Rows == [id : 0..MaxInvites, user : Users \cup {"none"}, role : Roles \cup {"OWNER"}, accepted : BOOLEAN]
Stages == {"sent", "allowed", "read", "done"}
Kinds == {"invite", "accept", "decline", "remove"}

InviteTypeOK ==
    /\ shared \in BOOLEAN
    /\ rows \subseteq Rows /\ stored \in 0..MaxInvites /\ gone \subseteq 0..MaxInvites
    /\ calls \subseteq [id : 1..MaxCalls, kind : Kinds, by : Users, user : Users, role : Roles,
                        as : Roles \cup {"OWNER", "none"}, stage : Stages, row : Rows]
    /\ sent \in 0..MaxCalls
    /\ team \in [Users -> SUBSET Rows]
    /\ invites \in [Users -> SUBSET (0..MaxInvites)]

InviteInit ==
    /\ shared \in BOOLEAN
    /\ rows = {OwnerRow} \/ (~shared /\ rows = {PendingOwnerRow})
    /\ stored = 0 /\ gone = {}
    /\ calls = {} /\ sent = 0
    /\ team = [u \in Users |-> {}] /\ invites = [u \in Users |-> {}]

RowsOf(u) == {r \in rows : r.user = u}
Pending(u) == {r \in RowsOf(u) : ~r.accepted}
Ids(rs) == {r.id : r \in rs}

-----------------------------------------------------------------------------
(* The pages.                                                                *)

Send(kind, by, user, role) ==
    /\ sent < MaxCalls
    /\ sent' = sent + 1
    /\ calls' = calls \cup {[id |-> sent', kind |-> kind, by |-> by, user |-> user, role |-> role,
                             as |-> "none", stage |-> "sent", row |-> NoRow]}
    /\ UNCHANGED <<tableVars, listVars>>

HandleInvite(by, role) == Send("invite", by, Guest, role)

\* canRemove, by what the page knows.
HandleRemoveCollaborator(by, user) ==
    /\ \E c \in team[by] :
         /\ c.user = user
         /\ user = by \/ (c.role # "OWNER" /\ \E m \in team[by] : m.user = by /\ m.role \in {"ADMIN", "OWNER"})
    /\ Send("remove", by, user, "VIEWER")

AnswerInvite(kind, by) ==
    /\ invites[by] # {}
    /\ Send(kind, by, by, "VIEWER")

\* SWR brings a list: after mutate, or when the window gets the focus.
ProjectArrives(u) ==
    /\ \E r \in RowsOf(u) : r.accepted
    /\ team[u] # rows
    /\ team' = [team EXCEPT ![u] = rows]
    /\ UNCHANGED <<tableVars, callVars, invites>>

\* GetUserInvites.
InvitesArrive(u) ==
    /\ invites[u] # Ids(Pending(u))
    /\ invites' = [invites EXCEPT ![u] = Ids(Pending(u))]
    /\ UNCHANGED <<tableVars, callVars, team>>

-----------------------------------------------------------------------------
(* The server: a first step reads, a second one writes.                      *)

Step(c, d) == calls' = (calls \ {c}) \cup {d}
Done(c) == Step(c, [c EXCEPT !.stage = "done"])

Needed(kind) == IF kind = "invite" THEN {"ADMIN", "OWNER"} ELSE Roles \cup {"OWNER"}

\* The middleware of the routes that invite and remove: it judges by one of the
\* caller's rows, and the handler goes by the role of that row.
AuthorizeProjectAccess(c) ==
    /\ c.kind \in {"invite", "remove"} /\ c.stage = "sent"
    /\ \/ \E r \in RowsOf(c.by) :
            IF r.accepted /\ r.role \in Needed(c.kind)
              THEN Step(c, [c EXCEPT !.stage = "allowed", !.as = r.role])
              ELSE Done(c)
       \/ RowsOf(c.by) = {} /\ Done(c)
    /\ UNCHANGED <<tableVars, sent, listVars>>

\* InviteToProject: nobody to a Default Workspace, and nobody who has a row,
\* accepted or not.
InviteChecks(c) ==
    /\ c.kind = "invite" /\ c.stage = "allowed"
    /\ IF shared /\ RowsOf(c.user) = {}
         THEN Step(c, [c EXCEPT !.stage = "read"])
         ELSE Done(c)
    /\ UNCHANGED <<tableVars, sent, listVars>>

InviteCreates(c) ==
    /\ c.kind = "invite" /\ c.stage = "read" /\ stored < MaxInvites
    /\ stored' = stored + 1
    /\ rows' = rows \cup {[id |-> stored', user |-> c.user, role |-> c.role, accepted |-> FALSE]}
    /\ Done(c)
    /\ UNCHANGED <<shared, gone, sent, listVars>>

\* AcceptProjectInvite.
AcceptReads(c) ==
    /\ c.kind = "accept" /\ c.stage = "sent"
    /\ \/ \E r \in Pending(c.by) : Step(c, [c EXCEPT !.stage = "read", !.row = r])
       \/ Pending(c.by) = {} /\ Done(c)
    /\ UNCHANGED <<tableVars, sent, listVars>>

\* Mutant: the row is saved as it was read.
AcceptSavesAsRead(c) ==
    /\ c.kind = "accept" /\ c.stage = "read"
    /\ rows' = {r \in rows : r.id # c.row.id} \cup {c.row}
    /\ Done(c)
    /\ UNCHANGED <<shared, stored, gone, sent, listVars>>

\* gorm's Save: the row it read, inserted again if it is gone.
AcceptSaves(c) ==
    /\ c.kind = "accept" /\ c.stage = "read"
    /\ rows' = {r \in rows : r.id # c.row.id} \cup {[c.row EXCEPT !.accepted = TRUE]}
    /\ Done(c)
    /\ UNCHANGED <<shared, stored, gone, sent, listVars>>

Delete(rs) == rows' = rows \ rs /\ gone' = gone \cup Ids(rs)

\* DeclineProjectInvite: one statement, whatever the role of the row.
Declines(c) ==
    /\ c.kind = "decline" /\ c.stage = "sent"
    /\ Delete(Pending(c.by))
    /\ Done(c)
    /\ UNCHANGED <<shared, stored, sent, listVars>>

\* Mutant: the last owner may leave.
MayRemoveAnyOwner(c, r) ==
    c.by # c.user => c.as \in {"ADMIN", "OWNER"} /\ r.role # "OWNER"

\* RemoveCollaborator: others may be removed by an admin or the owner, but not
\* an owner; the last owner may not leave.  (The owners are counted in a query
\* of its own; no handler stores a second one.)
MayRemove(c, r) ==
    IF c.by # c.user
      THEN c.as \in {"ADMIN", "OWNER"} /\ r.role # "OWNER"
      ELSE r.role = "OWNER" => Cardinality({o \in rows : o.role = "OWNER"}) > 1

RemoveReads(c) ==
    /\ c.kind = "remove" /\ c.stage = "allowed"
    /\ \/ \E r \in RowsOf(c.user) :
            IF MayRemove(c, r) THEN Step(c, [c EXCEPT !.stage = "read", !.row = r])
                               ELSE Done(c)
       \/ RowsOf(c.user) = {} /\ Done(c)
    /\ UNCHANGED <<tableVars, sent, listVars>>

RemoveDeletes(c) ==
    /\ c.kind = "remove" /\ c.stage = "read"
    /\ Delete({r \in rows : r.id = c.row.id})
    /\ Done(c)
    /\ UNCHANGED <<shared, stored, sent, listVars>>

\* The migration at every start of the backend; the requests under way are lost.
Boot ==
    /\ rows' = {[r EXCEPT !.accepted = TRUE] : r \in rows}
    /\ calls' = {}
    /\ rows' # rows
    /\ UNCHANGED <<shared, stored, gone, sent, listVars>>

-----------------------------------------------------------------------------
(* The answers.                                                              *)

\* The pages only refresh their lists; a request or its answer may be lost.
CallEnds(c) ==
    /\ calls' = calls \ {c}
    /\ UNCHANGED <<tableVars, sent, listVars>>

CallStep(c) ==
    \/ AuthorizeProjectAccess(c)
    \/ InviteChecks(c) \/ InviteCreates(c)
    \/ AcceptReads(c) \/ AcceptSaves(c)
    \/ Declines(c)
    \/ RemoveReads(c) \/ RemoveDeletes(c)
    \/ CallEnds(c)

InviteNext ==
    \/ \E by \in Users, role \in Roles : HandleInvite(by, role)
    \/ \E by, user \in Users : HandleRemoveCollaborator(by, user)
    \/ \E kind \in {"accept", "decline"}, by \in Users : AnswerInvite(kind, by)
    \/ \E u \in Users : ProjectArrives(u) \/ InvitesArrive(u)
    \/ \E c \in calls : CallStep(c)
    \/ Boot

InviteSpec == InviteInit /\ [][InviteNext]_InviteVars

-----------------------------------------------------------------------------
\* A project to which others can be invited has its accepted owner, and an
\* owner who has accepted is never lost, whatever is accepted, declined or
\* removed from lists that are old, by whom and in whatever order: the owner of
\* a Default Workspace loses it only by a decline of his own, while he has not
\* accepted it (projects.go:160-240).
OwnerStays ==
    /\ [](shared => OwnerRow \in rows)
    /\ [][\A r \in rows : r.role = "OWNER" =>
            \/ OwnerRow \in rows'
            \/ ~r.accepted /\ r \in rows'
            \/ ~r.accepted /\ ~shared /\ \E c \in calls : c.kind = "decline" /\ c.by = r.user]_InviteVars

\* An invitation that was declined or withdrawn is never offered again: it can
\* come back by an acceptance that read it before, and is then accepted
\* (projects.go:160-189).
WithdrawnIsNotOffered == \A r \in rows : r.id \in gone => r.accepted

=============================================================================
