----------------------------- MODULE Membership -----------------------------
(***************************************************************************)
(* Who belongs to a workspace, who owns it, and who still listens to it:    *)
(* WorkspaceService, WorkspaceMemberService, the accept half of             *)
(* WorkspaceInvitationService, AccountDeletionService and the room joins of *)
(* RealtimeGateway (apps/api/src/workspace, account, realtime).             *)
(*                                                                         *)
(* One workspace.  A request reads, decides and writes in separate steps;   *)
(* only the erasure of an account writes in a transaction, which takes      *)
(* effect at its commit.  Membership rows are written by Better Auth's      *)
(* organization plugin, whose own checks are an external assumption.        *)
(***************************************************************************)
EXTENDS Integers, FiniteSets

CONSTANTS
    Users,
    Clients,         \* requests in flight at once
    Ops,             \* the operations the clients call
    Founders,        \* the OWNERs to begin with
    Staff,           \* the ADMINs to begin with
    Invites,         \* pending invitations to begin with: <<inviter, invitee>>
    PluginRechecks,  \* does the plugin count the owners again, in one step with its write?
    StaleSessions,   \* does a signed cookie outlive the account's sessions?
    AuditFails       \* may the write of an audit row fail?

AllOps == {"found", "dissolve", "remove", "role", "leave", "accept", "erase", "join"}

ASSUME MembershipAssumption ==
    /\ IsFiniteSet(Users)
    /\ Ops \subseteq AllOps
    /\ Founders \subseteq Users /\ Founders # {}
    /\ Staff \subseteq Users \ Founders
    /\ Invites \subseteq (Founders \cup Staff) \X (Users \ (Founders \cup Staff))
    /\ PluginRechecks \in BOOLEAN
    /\ StaleSessions \in BOOLEAN
    /\ AuditFails \in BOOLEAN

Invitees == {i[2] : i \in Invites}

VARIABLES
    exists,   \* is the workspace there?
    role,     \* WorkspaceMember.role of each user, "NONE" without a row
    deleted,  \* users whose deletedAt is set
    invites,  \* pending invitations
    rooms,    \* users with a socket in a room of the workspace
    req       \* what each client's request has read, and where it is

workspace == <<exists, role, invites>>
vars == <<exists, role, deleted, invites, rooms, req>>

\* MEMBER stands for GUEST too: no handler here tells them apart.
Roles == {"OWNER", "ADMIN", "MEMBER"}
AdminRoles == {"OWNER", "ADMIN"}
Dispositions == {"undecided", "delete", "transfer"}

(***************************************************************************)
(* actor and as: the caller and the role the guards resolved for it;        *)
(* target and to: whom and what the request names; found: the role read     *)
(* for the row it is about; replaced: the role its write replaced.          *)
(***************************************************************************)
Requests ==
    [op : AllOps, actor : Users, target : Users, to : Roles \cup Dispositions \cup {"NONE"},
     as : Roles \cup {"NONE"}, found : Roles \cup {"NONE"}, replaced : Roles \cup {"NONE"},
     step : {"read", "count", "heir", "write", "record", "evict", "enter"}]

NoRequest == [op |-> "none", step |-> "none"]

TypeOK ==
    /\ exists \in BOOLEAN
    /\ role \in [Users -> Roles \cup {"NONE"}]
    /\ ~exists => role = [u \in Users |-> "NONE"] /\ invites = {}
    /\ deleted \subseteq Users
    /\ invites \subseteq Users \X Users
    /\ rooms \subseteq Users
    /\ req \in [Clients -> Requests \cup {NoRequest}]

Init ==
    /\ exists = TRUE
    /\ role = [u \in Users |-> IF u \in Founders THEN "OWNER"
                               ELSE IF u \in Staff THEN "ADMIN"
                               ELSE IF u \in Invitees THEN "NONE" ELSE "MEMBER"]
    /\ deleted = {}
    /\ invites = Invites
    /\ rooms = Users \ Invitees
    /\ req = [c \in Clients |-> NoRequest]

Owners == {u \in Users : role[u] = "OWNER"}

\* Slip: counts to zero instead of one.
NoOwnerLeft == Cardinality(Owners) = 0

LastOwner == Cardinality(Owners) =< 1

Step(c, s) == req' = [req EXCEPT ![c].step = s]
End(c) == req' = [req EXCEPT ![c] = NoRequest]

Request(c, op, a, t, what, s) ==
    /\ op \in Ops
    /\ req[c] = NoRequest
    /\ req' = [req EXCEPT ![c] =
                  [op |-> op, actor |-> a, target |-> t, to |-> what, as |-> role[a],
                   found |-> "NONE", replaced |-> "NONE", step |-> s]]
    /\ UNCHANGED <<workspace, deleted, rooms>>

At(c, ops, s) == req[c].op \in ops /\ req[c].step = s

-----------------------------------------------------------------------------
(* Requests begin: SessionAuthGuard, WorkspaceGuard, RolesGuard *)

Authenticated(a) == a \notin deleted \/ StaleSessions

BeginFound(c) == \E a \in Users \ deleted :
    ~exists /\ Request(c, "found", a, a, "NONE", "write")

BeginDissolve(c) == \E a \in Users :
    Authenticated(a) /\ role[a] = "OWNER" /\ Request(c, "dissolve", a, a, "NONE", "write")

BeginRemove(c) == \E a, t \in Users :
    Authenticated(a) /\ role[a] \in AdminRoles /\ a # t /\ Request(c, "remove", a, t, "NONE", "read")

BeginRole(c) == \E a, t \in Users, new \in Roles :
    Authenticated(a) /\ role[a] \in AdminRoles /\ Request(c, "role", a, t, new, "read")

BeginLeave(c) == \E a \in Users :
    Authenticated(a) /\ role[a] # "NONE" /\ Request(c, "leave", a, a, "NONE", "read")

\* No membership guard, and a session the plugin takes from the cookie.
BeginAccept(c) == \E i \in invites :
    Authenticated(i[2]) /\ Request(c, "accept", i[2], i[2], "NONE", "write")

\* requireLiveUser; the account's own request, or an instance administrator's.
BeginErase(c) == \E u \in Users \ deleted, t \in Users, d \in Dispositions :
    (d # "transfer" => t = u) /\ Request(c, "erase", u, t, d, "read")

\* A socket was authenticated once, at its handshake.
BeginJoin(c) == \E u \in Users \ rooms : Request(c, "join", u, u, "NONE", "read")

-----------------------------------------------------------------------------
(* Reads and refusals *)

\* Slip: a role change to the role the member has goes ahead.
RefusedUnlessOwner(r, found) ==
    \/ found = "NONE"
    \/ "OWNER" \in {found, r.to} /\ r.as # "OWNER"

Refused(r, found) ==
    \/ found = "NONE"
    \/ "OWNER" \in {found, r.to} /\ r.as # "OWNER"
    \/ r.op = "role" /\ found = r.to

\* requireMember, and the rules that need no count.  A leaver asks for nothing.
ReadMember(c) ==
    LET r == req[c]
        found == role[r.target]
    IN  /\ At(c, {"remove", "role", "leave"}, "read")
        /\ IF Refused([r EXCEPT !.as = IF r.op = "leave" THEN "OWNER" ELSE r.as], found)
           THEN End(c)
           ELSE req' = [req EXCEPT ![c].found = found,
                                   ![c].step = IF found = "OWNER" THEN "count" ELSE "write"]
        /\ UNCHANGED <<workspace, deleted, rooms>>

CountOwners(c) ==
    /\ At(c, {"remove", "role", "leave"}, "count")
    /\ IF LastOwner THEN End(c) ELSE Step(c, "write")
    /\ UNCHANGED <<workspace, deleted, rooms>>

\* partitionMemberships: one read lists the account's rows, the next counts the owners.
ListMemberships(c) ==
    /\ At(c, {"erase"}, "read")
    /\ LET found == role[req[c].actor]
       IN  IF found = "OWNER"
           THEN req' = [req EXCEPT ![c].found = found, ![c].step = "count"]
           ELSE IF req[c].to = "undecided"
           THEN req' = [req EXCEPT ![c].found = found, ![c].step = "write"]
           ELSE End(c)
    /\ UNCHANGED <<workspace, deleted, rooms>>

\* matchDispositions: a sole owner decides, nobody else may.
MatchDispositions(c) ==
    /\ At(c, {"erase"}, "count")
    /\ IF LastOwner # (req[c].to # "undecided") THEN End(c)
       ELSE Step(c, IF req[c].to = "transfer" THEN "heir" ELSE "write")
    /\ UNCHANGED <<workspace, deleted, rooms>>

\* transferOwnership reads the heir inside the transaction.
ReadHeir(c) ==
    /\ At(c, {"erase"}, "heir")
    /\ LET t == req[c].target
       IN  IF role[t] = "NONE" \/ t = req[c].actor \/ t \in deleted
           THEN End(c) ELSE Step(c, "write")
    /\ UNCHANGED <<workspace, deleted, rooms>>

\* A statement fails, the plugin refuses, the transaction rolls back.
GiveUp(c) ==
    /\ req[c].step \in {"read", "count", "heir", "write"}
    /\ End(c)
    /\ UNCHANGED <<workspace, deleted, rooms>>

-----------------------------------------------------------------------------
(* Writes *)

\* What the plugin asks of the caller's row at the time of the write.
Permitted(r) ==
    /\ role[r.target] # "NONE"
    /\ r.op # "leave" => role[r.actor] \in AdminRoles
    /\ r.op # "leave" /\ "OWNER" \in {role[r.target], r.to} => role[r.actor] = "OWNER"
    /\ PluginRechecks /\ role[r.target] = "OWNER" => ~LastOwner

WriteMember(c) ==
    LET r == req[c]
    IN  /\ At(c, {"remove", "role", "leave"}, "write")
        /\ Permitted(r)
        /\ role' = [role EXCEPT ![r.target] = r.to]
        /\ req' = [req EXCEPT ![c].replaced = role[r.target],
                              ![c].step = IF r.op = "remove" THEN "evict" ELSE "record"]
        /\ UNCHANGED <<exists, deleted, invites, rooms>>

\* auth.api.createOrganization, with the caller as OWNER; its rooms are new ones.
Found(c) ==
    /\ At(c, {"found"}, "write")
    /\ ~exists
    /\ exists' = TRUE
    /\ role' = [role EXCEPT ![req[c].actor] = "OWNER"]
    /\ rooms' = {}
    /\ End(c)
    /\ UNCHANGED <<deleted, invites>>

\* Slip: the members of a deleted workspace keep their rows.
DissolveOnly(c) ==
    /\ At(c, {"dissolve"}, "write")
    /\ role[req[c].actor] = "OWNER"
    /\ exists' = FALSE
    /\ invites' = {}
    /\ End(c)
    /\ UNCHANGED <<role, deleted, rooms>>

\* auth.api.deleteOrganization: members and invitations go with the workspace.
Dissolve(c) ==
    /\ At(c, {"dissolve"}, "write")
    /\ role[req[c].actor] = "OWNER"
    /\ exists' = FALSE
    /\ role' = [u \in Users |-> "NONE"]
    /\ invites' = {}
    /\ End(c)
    /\ UNCHANGED <<deleted, rooms>>

\* auth.api.acceptInvitation: the row is the invitee's, whoever that has become.
Accept(c) ==
    LET a == req[c].actor
    IN  /\ At(c, {"accept"}, "write")
        /\ \E i \in invites : i[2] = a /\ invites' = invites \ {i}
        /\ role[a] = "NONE"
        /\ role' = [role EXCEPT ![a] = "MEMBER"]
        /\ End(c)
        /\ UNCHANGED <<exists, deleted, rooms>>

\* Slip: the heir's row is upserted.
EraseUpserting(c) ==
    LET r == req[c]
        gone == r.to = "delete"
    IN  /\ At(c, {"erase"}, "write")
        /\ r.found # "NONE" => exists
        /\ exists' = (exists /\ ~gone)
        /\ role' = [u \in Users |-> IF gone \/ u = r.actor THEN "NONE"
                                    ELSE IF r.to = "transfer" /\ u = r.target THEN "OWNER"
                                    ELSE role[u]]
        /\ invites' = {i \in invites : ~gone /\ i[1] # r.actor}
        /\ deleted' = deleted \cup {r.actor}
        /\ IF gone \/ r.found = "NONE" THEN End(c) ELSE Step(c, "evict")
        /\ UNCHANGED rooms

(***************************************************************************)
(* The commit of deleteAccount's transaction.  It fails if the workspace    *)
(* it writes an activity row to, or deletes, is gone, or the heir's row is. *)
(***************************************************************************)
Erase(c) ==
    LET r == req[c]
        gone == r.to = "delete"
    IN  /\ At(c, {"erase"}, "write")
        /\ r.found # "NONE" => exists
        /\ r.to = "transfer" => role[r.target] # "NONE"
        /\ exists' = (exists /\ ~gone)
        /\ role' = [u \in Users |-> IF gone \/ u = r.actor THEN "NONE"
                                    ELSE IF r.to = "transfer" /\ u = r.target THEN "OWNER"
                                    ELSE role[u]]
        /\ invites' = {i \in invites : ~gone /\ i[1] # r.actor}
        /\ deleted' = deleted \cup {r.actor}
        /\ IF gone \/ r.found = "NONE" THEN End(c) ELSE Step(c, "evict")
        /\ UNCHANGED rooms

-----------------------------------------------------------------------------
(* After the write: the audit row, and the sockets *)

\* Slip: every departure is taken to be evicted by the plugin's hook.
RecordOnly(c) ==
    /\ At(c, {"remove", "role", "leave"}, "record")
    /\ End(c)
    /\ UNCHANGED <<workspace, deleted, rooms>>

\* activityService.record.  A role change evicts nobody, the hook has evicted the
\* removed, a leaver is evicted next -- unless the audit row could not be written.
Record(c) ==
    /\ At(c, {"remove", "role", "leave"}, "record")
    /\ \/ IF req[c].op = "leave" THEN Step(c, "evict") ELSE End(c)
       \/ AuditFails /\ End(c)
    /\ UNCHANGED <<workspace, deleted, rooms>>

Evicted(r) == IF r.op = "erase" THEN r.actor ELSE r.target

\* evictUserFromWorkspace, called by afterRemoveMember, leave and deleteAccount.
Evict(c) ==
    /\ At(c, {"remove", "leave", "erase"}, "evict")
    /\ rooms' = rooms \ {Evicted(req[c])}
    /\ IF req[c].op = "remove" THEN Step(c, "record") ELSE End(c)
    /\ UNCHANGED <<workspace, deleted>>

\* onBoardJoin, onNotificationsJoin: membership is read, then the room is entered.
CheckMembership(c) ==
    /\ At(c, {"join"}, "read")
    /\ IF role[req[c].actor] # "NONE" THEN Step(c, "enter") ELSE End(c)
    /\ UNCHANGED <<workspace, deleted, rooms>>

EnterRoom(c) ==
    /\ At(c, {"join"}, "enter")
    /\ rooms' = rooms \cup {req[c].actor}
    /\ End(c)
    /\ UNCHANGED <<workspace, deleted>>

\* onBoardLeave, onNotificationsLeave, or the socket disconnects.
LeaveRoom ==
    /\ \E u \in rooms : rooms' = rooms \ {u}
    /\ UNCHANGED <<workspace, deleted, req>>

-----------------------------------------------------------------------------

Begin(c) ==
    \/ BeginFound(c) \/ BeginDissolve(c) \/ BeginRemove(c) \/ BeginRole(c) \/ BeginLeave(c)
    \/ BeginAccept(c) \/ BeginErase(c) \/ BeginJoin(c)

Continue(c) ==
    \/ ReadMember(c) \/ CountOwners(c) \/ ListMemberships(c) \/ MatchDispositions(c)
    \/ ReadHeir(c) \/ GiveUp(c)
    \/ WriteMember(c) \/ Found(c) \/ Dissolve(c) \/ Accept(c) \/ Erase(c)
    \/ Record(c) \/ Evict(c) \/ CheckMembership(c) \/ EnterRoom(c)

Next == (\E c \in Clients : Begin(c) \/ Continue(c)) \/ LeaveRoom

Spec == Init /\ [][Next]_vars

-----------------------------------------------------------------------------

(***************************************************************************)
(* A workspace has an owner, whichever of its owners leave, are demoted,    *)
(* removed or erased (ADR 0026:44-45: "nothing may leave it ownerless").    *)
(***************************************************************************)
AlwaysAnOwner == exists => Owners # {}

(***************************************************************************)
(* A member.role_changed row tells of a change: the write it follows        *)
(* replaced another role (workspace-member.service.ts:296-298).             *)
(***************************************************************************)
AuditedChangesAreReal ==
    \A c \in Clients : At(c, {"role"}, "record") => req[c].replaced # req[c].to

(***************************************************************************)
(* An erased account never holds a membership again: a tombstone cannot     *)
(* sign in, so what it owns nobody can (common/deleted-account.ts:19-26).   *)
(***************************************************************************)
NoTombstoneMembers == \A u \in deleted : role[u] = "NONE"

(***************************************************************************)
(* Nobody listens to a workspace they have no membership in, once the       *)
(* request that took it away is done (realtime.gateway.ts:137-139).         *)
(***************************************************************************)
RoomsFollowMembership ==
    \A u \in rooms :
        exists /\ role[u] = "NONE" =>
            \E c \in Clients :
                /\ At(c, {"remove", "leave", "erase"}, req[c].step)
                /\ Evicted(req[c]) = u
                /\ req[c].step \in {"record", "evict"}

=============================================================================
