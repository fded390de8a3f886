------------------------------- MODULE Spaces -------------------------------
(***************************************************************************)
(* One Space of a meshserver node: the row of table `servers`, the rows of *)
(* `server_members` that belong to it, the channels created in it, and the *)
(* requests that change them.                                              *)
(*                                                                         *)
(* A request runs in two parts, as in internal/session.  The handler reads *)
(* the caller's role with a plain SELECT and decides whether to go on; the *)
(* repository method then opens a transaction, locks the Space row with    *)
(* SELECT ... FOR UPDATE and does its work.  Whatever other requests commit *)
(* between the two parts is not seen by the first one.  Under the row lock  *)
(* a transaction is one step here: every read in it is a locking read.     *)
(*                                                                         *)
(* The methods roll back in a deferred function only when the local `err`  *)
(* is non-nil.  Several rejections return a fresh error while `err` is nil, *)
(* which leaves the transaction, and the row lock, behind (Abandon).  A     *)
(* libp2p request runs under context.Background(), so nothing ends such a  *)
(* transaction before the process does; an HTTP request runs under the     *)
(* request's context, whose cancellation rolls it back.                    *)
(*                                                                         *)
(* Rows of different Spaces never meet in a statement, so one Space is     *)
(* enough; its identifier is left out.                                     *)
(***************************************************************************)
EXTENDS Naturals, FiniteSets

CONSTANTS
    Users,          \* accounts, all present in table users
    SiteAdmin,      \* the account of MESHSERVER_DEFAULT_ADMIN_PEER_ID
    NoUser,         \* owner_user_id before the Space exists
    StreamSlots,    \* libp2p sessions: each runs one request at a time
    HttpSlots,      \* HTTP requests being served concurrently
    RequestedRoles, \* the roles that role-change requests ask for
    MaxChannels     \* bound: no channel is requested once there are this many

Roles == {"owner", "admin", "member", "subscriber"}

Slots == StreamSlots \cup HttpSlots

ASSUME SpacesAssumption ==
    /\ IsFiniteSet(Users)
    /\ SiteAdmin \in Users
    /\ NoUser \notin Users
    /\ StreamSlots \cap HttpSlots = {}
    /\ Slots \cap {"free", "orphaned"} = {}
    /\ RequestedRoles \subseteq Roles
    /\ MaxChannels \in Nat

VARIABLES
    space,     \* the row of table servers
    members,   \* the rows of server_members, by user
    channels,  \* how many rows of table channels belong to the Space
    rowLock,   \* who holds the lock on the Space row between two steps
    req        \* what each slot is doing

vars == <<space, members, channels, rowLock, req>>
dbVars == <<space, members, channels>>

NoRow == [role |-> "none", banned |-> FALSE]

MemberRows == {NoRow} \cup [role : Roles, banned : BOOLEAN]

Visibilities == {"public", "private"}

Ops == {"join", "invite", "kick", "ban", "unban", "setRole", "allow", "disallow",
        "createChannel"}

Idle(reply) == [op |-> "idle", target |-> NoUser, role |-> "none", reply |-> reply]

(***************************************************************************)
(* What a SELECT on server_members tells a handler.                        *)
(***************************************************************************)

Present(u) == members[u] # NoRow

IsActive(u) == Present(u) /\ ~members[u].banned

ActiveMembers == {u \in Users : IsActive(u)}

\* GetMemberRole filters is_banned = 0: a banned member has no role.
GetMemberRole(u) == IF IsActive(u) THEN members[u].role ELSE "none"

IsManager(u) == GetMemberRole(u) \in {"owner", "admin"}

\* Mutant: the query leaves out the condition on role.
CanCreateGroupAnyMember(u) == IsActive(u) /\ space.allow

\* CanCreateGroup, the query behind GET_CREATE_GROUP_PERMISSIONS.
CanCreateGroup(u) == IsManager(u) /\ space.allow

GetCreateGroupPermissions(u) == CanCreateGroup(u) \/ (u = SiteAdmin /\ IsManager(u))

\* The allow_channel_creation flag that SpaceSummary shows to the viewer u.
EffectiveAllowChannelCreation(u) == space.allow \/ (u = SiteAdmin /\ IsManager(u))

-----------------------------------------------------------------------------
(***************************************************************************)
(* Ends of a repository method.                                            *)
(***************************************************************************)

\* The method reached tx.Commit: the caller gets a response.
Commit(r) ==
    /\ req' = [req EXCEPT ![r] = Idle("ok")]
    /\ UNCHANGED rowLock

\* The method failed with err set: the deferred function rolls back.
Rollback(r) ==
    /\ req' = [req EXCEPT ![r] = Idle("error")]
    /\ UNCHANGED <<dbVars, rowLock>>

\* The method returned an error of its own while err was nil: nothing rolls back.
\* The session loop answers with the error and reads on; an HTTP handler still has
\* to return before its context ends.
Abandon(r) ==
    /\ UNCHANGED dbVars
    /\ \/ /\ r \in StreamSlots
          /\ rowLock' = "orphaned"
          /\ req' = [req EXCEPT ![r] = Idle("error")]
       \/ /\ r \in HttpSlots
          /\ rowLock' = r
          /\ req' = [req EXCEPT ![r] = [Idle("none") EXCEPT !.op = "rejected"]]

\* refreshAggregateCounts recounts from the tables, inside the transaction.
RefreshAggregateCounts ==
    space' = [space EXCEPT !.memberCount = Cardinality(ActiveMembers'),
                           !.channelCount = channels']

\* BeginTxx and SELECT ... FROM servers WHERE id = ? FOR UPDATE, granted.
LocksSpaceRow(r, ops) ==
    /\ rowLock = "free"
    /\ req[r].op \in ops

-----------------------------------------------------------------------------
(***************************************************************************)
(* The repository methods.                                                 *)
(***************************************************************************)

\* JoinSpace (publicOnly) and InviteSpaceMember share addSpaceMember.
AddSpaceMember(r) ==
    LET u == req[r].target
    IN  /\ LocksSpaceRow(r, {"join", "invite"})
        /\ \/ /\ Present(u) /\ members[u].banned
              /\ Abandon(r)
           \/ /\ IsActive(u)
              /\ UNCHANGED dbVars
              /\ Commit(r)
           \/ /\ ~Present(u)
              /\ req[r].op = "join" /\ space.visibility # "public"
              /\ Rollback(r)
           \/ /\ ~Present(u)
              /\ req[r].op = "invite" \/ space.visibility = "public"
              /\ members' = [members EXCEPT ![u] = [role |-> "member", banned |-> FALSE]]
              /\ UNCHANGED channels
              /\ RefreshAggregateCounts
              /\ Commit(r)

\* Mutant: the check of is_banned is missing.
KickSpaceMemberBanned(r) ==
    LET u == req[r].target
    IN  /\ LocksSpaceRow(r, {"kick"})
        /\ u # space.owner /\ Present(u)
        /\ members' = [members EXCEPT ![u] = NoRow]
        /\ UNCHANGED channels
        /\ RefreshAggregateCounts
        /\ Commit(r)

KickSpaceMember(r) ==
    LET u == req[r].target
    IN  /\ LocksSpaceRow(r, {"kick"})
        /\ \/ /\ u = space.owner \/ members[u].banned
              /\ Abandon(r)
           \/ /\ u # space.owner /\ ~Present(u)
              /\ Rollback(r)
           \/ /\ u # space.owner /\ IsActive(u)
              /\ members' = [members EXCEPT ![u] = NoRow]
              /\ UNCHANGED channels
              /\ RefreshAggregateCounts
              /\ Commit(r)

BanSpaceMember(r) ==
    LET u == req[r].target
    IN  /\ LocksSpaceRow(r, {"ban"})
        /\ \/ /\ u = space.owner
              /\ Abandon(r)
           \/ /\ u # space.owner /\ members[u].banned
              /\ UNCHANGED dbVars
              /\ Commit(r)
           \/ /\ u # space.owner /\ ~members[u].banned
              /\ members' = [members EXCEPT ![u] = [role |-> "member", banned |-> TRUE]]
              /\ UNCHANGED channels
              /\ RefreshAggregateCounts
              /\ Commit(r)

\* Mutant: the counts are not refreshed.
UnbanSpaceMemberNoRefresh(r) ==
    LET u == req[r].target
    IN  /\ LocksSpaceRow(r, {"unban"})
        /\ u # space.owner /\ members[u].banned
        /\ members' = [members EXCEPT ![u].banned = FALSE]
        /\ UNCHANGED <<channels, space>>
        /\ Commit(r)

UnbanSpaceMember(r) ==
    LET u == req[r].target
    IN  /\ LocksSpaceRow(r, {"unban"})
        /\ \/ /\ u = space.owner
              /\ Abandon(r)
           \/ /\ u # space.owner /\ ~Present(u)
              /\ Rollback(r)
           \/ /\ u # space.owner /\ IsActive(u)
              /\ UNCHANGED dbVars
              /\ Commit(r)
           \/ /\ u # space.owner /\ members[u].banned
              /\ members' = [members EXCEPT ![u].banned = FALSE]
              /\ UNCHANGED channels
              /\ RefreshAggregateCounts
              /\ Commit(r)

SetSpaceAllowChannelCreation(r) ==
    /\ LocksSpaceRow(r, {"allow", "disallow"})
    /\ space' = [space EXCEPT !.allow = (req[r].op = "allow")]
    /\ UNCHANGED <<members, channels>>
    /\ Commit(r)

\* Mutant: the previous owner keeps the role.
SetSpaceMemberRoleNoDemotion(r) ==
    LET u == req[r].target
    IN  /\ LocksSpaceRow(r, {"setRole"})
        /\ Present(u) /\ u # space.owner
        /\ members' = [members EXCEPT ![u].role = req[r].role]
        /\ space' = [space EXCEPT !.owner = IF req[r].role = "owner" THEN u ELSE @]
        /\ UNCHANGED channels
        /\ Commit(r)

\* The target's row is loaded whether or not it is banned.
SetSpaceMemberRole(r) ==
    LET u == req[r].target
        role == req[r].role
    IN  /\ LocksSpaceRow(r, {"setRole"})
        /\ \/ /\ ~Present(u)
              /\ Rollback(r)
           \/ /\ Present(u) /\ u = space.owner /\ role # "owner"
              /\ Abandon(r)
           \/ /\ Present(u) /\ u # space.owner /\ role = "owner"
              /\ members' = [members EXCEPT ![space.owner].role = "admin", ![u].role = "owner"]
              /\ space' = [space EXCEPT !.owner = u]
              /\ UNCHANGED channels
              /\ Commit(r)
           \/ /\ Present(u) /\ (u = space.owner) = (role = "owner")
              /\ members' = [members EXCEPT ![u].role = role]
              /\ UNCHANGED <<space, channels>>
              /\ Commit(r)

\* Mutant: the creator's membership is read without is_banned = 0.
CreateChannelBanned(r) ==
    LET u == req[r].target
    IN  /\ LocksSpaceRow(r, {"createChannel"})
        /\ space.allow \/ u = SiteAdmin
        /\ members[u].role \in {"owner", "admin"}
        /\ channels' = channels + 1
        /\ UNCHANGED members
        /\ RefreshAggregateCounts
        /\ Commit(r)

\* Groups and broadcast channels differ in the type column only.
CreateChannel(r) ==
    LET u == req[r].target
    IN  /\ LocksSpaceRow(r, {"createChannel"})
        /\ \/ /\ ~(space.allow \/ u = SiteAdmin)
              /\ Abandon(r)
           \/ /\ space.allow \/ u = SiteAdmin
              /\ ~IsActive(u)
              /\ Rollback(r)
           \/ /\ space.allow \/ u = SiteAdmin
              /\ IsActive(u) /\ ~IsManager(u)
              /\ Abandon(r)
           \/ /\ space.allow \/ u = SiteAdmin
              /\ IsManager(u)
              /\ channels' = channels + 1
              /\ UNCHANGED members
              /\ RefreshAggregateCounts
              /\ Commit(r)

\* The insert of the Space row, of its owner's membership and the first recount.
CreateSpace(r, visibility) ==
    /\ ~space.created
    /\ members' = [members EXCEPT ![SiteAdmin] = [role |-> "owner", banned |-> FALSE]]
    /\ space' = [created |-> TRUE, owner |-> SiteAdmin, visibility |-> visibility,
                 memberCount |-> Cardinality(ActiveMembers'), channelCount |-> 0,
                 allow |-> TRUE]
    /\ UNCHANGED channels
    /\ Commit(r)

-----------------------------------------------------------------------------
(***************************************************************************)
(* The handlers up to the call of the repository method.  A caller whose   *)
(* role does not suffice gets an error and nothing changes.                *)
(***************************************************************************)

Calls(r, op, target, role) ==
    /\ space.created
    /\ req' = [req EXCEPT ![r] = [op |-> op, target |-> target, role |-> role,
                                  reply |-> "none"]]
    /\ UNCHANGED <<dbVars, rowLock>>

ManagerCalls(r, op, actor, target) == IsManager(actor) /\ Calls(r, op, target, "none")

MayGrant(actor, role) ==
    IF role = "owner" THEN GetMemberRole(actor) = "owner" ELSE IsManager(actor)

StreamCreateSpace(r, visibility) == CreateSpace(r, visibility)
StreamJoin(r, actor) == Calls(r, "join", actor, "none")
StreamInvite(r, actor, u) == ManagerCalls(r, "invite", actor, u)
StreamKick(r, actor, u) == ManagerCalls(r, "kick", actor, u)
StreamBan(r, actor, u) == ManagerCalls(r, "ban", actor, u)
StreamUnban(r, actor, u) == ManagerCalls(r, "unban", actor, u)
StreamSetRole(r, actor, u, role) == MayGrant(actor, role) /\ Calls(r, "setRole", u, role)
StreamSetAllow(r, actor, op) == ManagerCalls(r, op, actor, NoUser)
StreamCreateGroup(r, actor) ==
    channels < MaxChannels /\ Calls(r, "createChannel", actor, "none")
StreamCreateChannel(r, actor) ==
    channels < MaxChannels /\ Calls(r, "createChannel", actor, "none")

CreateSpaceForAPI(r, visibility) == CreateSpace(r, visibility)
JoinSpaceForAPI(r, actor) == Calls(r, "join", actor, "none")
InviteSpaceMemberForAPI(r, actor, u) == ManagerCalls(r, "invite", actor, u)
KickSpaceMemberForAPI(r, actor, u) == ManagerCalls(r, "kick", actor, u)
BanSpaceMemberForAPI(r, actor, u) == ManagerCalls(r, "ban", actor, u)
UnbanSpaceMemberForAPI(r, actor, u) == ManagerCalls(r, "unban", actor, u)
AdminSetSpaceMemberRoleForAPI(r, actor, u, role) ==
    MayGrant(actor, role) /\ Calls(r, "setRole", u, role)
AdminSetSpaceChannelCreationForAPI(r, actor, op) == ManagerCalls(r, op, actor, NoUser)
CreateGroupForAPI(r, actor) ==
    channels < MaxChannels /\ Calls(r, "createChannel", actor, "none")
CreateChannelForAPI(r, actor) ==
    channels < MaxChannels /\ Calls(r, "createChannel", actor, "none")

-----------------------------------------------------------------------------
(***************************************************************************)
(* What the database and the process do to requests.                       *)
(***************************************************************************)

\* SELECT ... FOR UPDATE gives up when an abandoned transaction holds the row
\* (innodb_lock_wait_timeout).  err is set, so this transaction does roll back.
LockWaitTimeout(r) ==
    /\ rowLock = "orphaned"
    /\ req[r].op \in Ops
    /\ Rollback(r)

\* Mutant: the transaction is begun with a context of its own, as on a stream.
RequestContextEndsWithoutRollback(r) ==
    /\ req[r].op = "rejected"
    /\ req' = [req EXCEPT ![r] = Idle("error")]
    /\ UNCHANGED <<dbVars, rowLock>>

\* ServeHTTP returns: the request's context ends and database/sql rolls back the
\* transaction the handler left open.
RequestContextEnds(r) ==
    /\ req[r].op = "rejected"
    /\ rowLock' = "free"
    /\ req' = [req EXCEPT ![r] = Idle("error")]
    /\ UNCHANGED dbVars

\* The process ends and starts again: its connections close, open transactions are
\* rolled back, requests in flight are never answered.
Restart ==
    /\ rowLock' = "free"
    /\ req' = [r \in Slots |-> Idle("none")]
    /\ UNCHANGED dbVars

-----------------------------------------------------------------------------

Init ==
    /\ space = [created |-> FALSE, owner |-> NoUser, visibility |-> "private",
                memberCount |-> 0, channelCount |-> 0, allow |-> FALSE]
    /\ members = [u \in Users |-> NoRow]
    /\ channels = 0
    /\ rowLock = "free"
    /\ req = [r \in Slots |-> Idle("none")]

StreamHandler(r) ==
    /\ req[r].op = "idle"
    /\ \/ \E v \in Visibilities : StreamCreateSpace(r, v)
       \/ \E a \in Users : StreamJoin(r, a) \/ StreamCreateGroup(r, a) \/ StreamCreateChannel(r, a)
       \/ \E a \in Users, u \in Users :
             StreamInvite(r, a, u) \/ StreamKick(r, a, u) \/ StreamBan(r, a, u) \/ StreamUnban(r, a, u)
       \/ \E a \in Users, u \in Users, role \in RequestedRoles : StreamSetRole(r, a, u, role)
       \/ \E a \in Users, op \in {"allow", "disallow"} : StreamSetAllow(r, a, op)

\* The requests that handlers of api/v1_http_rest.go and api/v1_http.go pass on.
HttpSpaceRequest(r) ==
    \/ \E v \in Visibilities : CreateSpaceForAPI(r, v)
    \/ \E a \in Users, u \in Users, role \in RequestedRoles :
          AdminSetSpaceMemberRoleForAPI(r, a, u, role)
    \/ \E a \in Users, op \in {"allow", "disallow"} :
          AdminSetSpaceChannelCreationForAPI(r, a, op)

HttpMemberRequest(r) ==
    \E a \in Users, u \in Users :
       \/ InviteSpaceMemberForAPI(r, a, u) \/ KickSpaceMemberForAPI(r, a, u)
       \/ BanSpaceMemberForAPI(r, a, u) \/ UnbanSpaceMemberForAPI(r, a, u)

HttpChannelRequest(r) ==
    \E a \in Users : CreateGroupForAPI(r, a) \/ CreateChannelForAPI(r, a)

HttpHandler(r) ==
    /\ req[r].op = "idle"
    /\ \/ HttpSpaceRequest(r) \/ HttpMemberRequest(r) \/ HttpChannelRequest(r)
       \/ \E a \in Users : JoinSpaceForAPI(r, a)

Transaction(r) ==
    \/ AddSpaceMember(r) \/ KickSpaceMember(r) \/ BanSpaceMember(r) \/ UnbanSpaceMember(r)
    \/ SetSpaceAllowChannelCreation(r) \/ SetSpaceMemberRole(r) \/ CreateChannel(r)

Next ==
    \/ \E r \in StreamSlots : StreamHandler(r)
    \/ \E r \in HttpSlots : HttpHandler(r)
    \/ \E r \in Slots : Transaction(r) \/ LockWaitTimeout(r) \/ RequestContextEnds(r)
    \/ Restart

Spec == Init /\ [][Next]_vars

-----------------------------------------------------------------------------
(***************************************************************************)
(* Properties.                                                             *)
(***************************************************************************)

HolderIsRejected == \A r \in Slots : req[r].op = "rejected" <=> rowLock = r

\* The state is well formed.  In particular the slot that holds the Space row between two
\* steps is an HTTP request whose method was rejected and whose handler has not returned:
\* the lock ends with the request.
TypeOK ==
    /\ space \in [created : BOOLEAN, owner : Users \cup {NoUser}, visibility : Visibilities,
                  memberCount : Nat, channelCount : Nat, allow : BOOLEAN]
    /\ members \in [Users -> MemberRows]
    /\ channels \in Nat
    /\ rowLock \in {"free", "orphaned"} \cup HttpSlots
    /\ req \in [Slots -> [op : Ops \cup {"idle", "rejected"}, target : Users \cup {NoUser},
                          role : Roles \cup {"none"}, reply : {"none", "ok", "error"}]]
    /\ HolderIsRejected

\* Once the Space exists exactly one member has the role owner, and it is the user that
\* owner_user_id names, however transfers of ownership, kicks, bans and invitations
\* interleave: SetSpaceMemberRole keeps both tables in step and no other method touches
\* the owner's row.
OneOwner ==
    space.created => {u \in Users : members[u].role = "owner"} = {space.owner}

\* member_count and channel_count of the Space are what refreshAggregateCounts would
\* compute now: no method changes the tables in a way the counters miss.
CountsExact ==
    /\ space.memberCount = Cardinality(ActiveMembers)
    /\ space.channelCount = channels

BansLiftedByUnban ==
    \A u \in Users :
       members[u].banned /\ ~members'[u].banned
          => \E r \in Slots : req[r].op = "unban" /\ req[r].target = u

\* A banned member stays banned until a transaction of UnbanSpaceMember for that member:
\* no join, invitation, kick, role change or restart gives access back.
BanSticks == [][BansLiftedByUnban]_vars

ChannelsAddedByManager ==
    channels' # channels
       => \E r \in Slots : /\ req[r].op = "createChannel" /\ req'[r].op = "idle"
                           /\ IsManager(req[r].target)

\* A channel is created only by a user who is an unbanned owner or admin when the row is
\* inserted, even if a ban, a kick or a demotion commits after the request was read:
\* CreateChannel checks the membership inside its transaction.
CreatorIsManagerAtInsert == [][ChannelsAddedByManager]_vars

ChannelCreatedAsShown ==
    \A r \in Slots :
       LET u == req[r].target
           decided == req'[r] # req[r] /\ req'[r] # Idle("none")
           created == channels' = channels + 1
       IN  req[r].op = "createChannel" /\ rowLock = "free" /\ decided
              => /\ created <=> GetCreateGroupPermissions(u)
                 /\ IsManager(u) => (created <=> EffectiveAllowChannelCreation(u))

\* Whenever CreateChannel gets the row and decides, a channel is created if and only if
\* GET_CREATE_GROUP_PERMISSIONS would say so in that state and, to an owner or admin, the
\* flag of the SpaceSummary would: three pieces of code with a special case for the site
\* admin each.
CreationIsAsShown == [][ChannelCreatedAsShown]_vars

-----------------------------------------------------------------------------
(***************************************************************************)
(* Statements of the client guide and of the code that do not hold.        *)
(***************************************************************************)

\* docs/ai-libp2p-client-guide.md: the owner of a Space cannot be banned; BanSpaceMember
\* itself rejects the owner as a target.
OwnerIsNotBanned == space.created => ~members[space.owner].banned

\* docs/ai-libp2p-client-guide.md: inviting (or joining as) a user who already is a member
\* succeeds.
InviteOfMemberSucceeds ==
    [][\A r \in Slots :
          req[r].op \in {"join", "invite"} /\ req[r].target \in ActiveMembers
             => req'[r].reply # "error"]_vars

=============================================================================
