---------------------------- MODULE SpacesProofs ----------------------------
(***************************************************************************)
(* Proofs about Spaces, for any finite set of users and any number of      *)
(* concurrent libp2p and HTTP requests.                                    *)
(***************************************************************************)
EXTENDS Spaces, FiniteSetTheorems, TLAPS

SpaceRows ==
    [created : BOOLEAN, owner : Users \cup {NoUser}, visibility : Visibilities,
     memberCount : Nat, channelCount : Nat, allow : BOOLEAN]

Requests ==
    [op : Ops \cup {"idle", "rejected"}, target : Users \cup {NoUser},
     role : Roles \cup {"none"}, reply : {"none", "ok", "error"}]

Types ==
    /\ space \in SpaceRows
    /\ members \in [Users -> MemberRows]
    /\ channels \in Nat
    /\ rowLock \in {"free", "orphaned"} \cup HttpSlots
    /\ req \in [Slots -> Requests]

\* Before CreateSpace has committed there is nothing of the Space in any table, and no
\* request on it got past its first lookup.
NothingBeforeCreation ==
    ~space.created => /\ members = [u \in Users |-> NoRow]
                      /\ channels = 0
                      /\ \A r \in Slots : req[r].op = "idle"

\* A request on a member names a user: every method but the channel creation policy does.
TargetsAreUsers ==
    \A r \in Slots : req[r].op \in Ops \ {"allow", "disallow"} => req[r].target \in Users

\* Only role changes carry a role.
RolesAreRequested ==
    \A r \in Slots : req[r].op = "setRole" => req[r].role \in Roles

IInv == /\ Types /\ OneOwner /\ CountsExact
        /\ NothingBeforeCreation /\ TargetsAreUsers /\ RolesAreRequested

-----------------------------------------------------------------------------

\* The set of active members of any membership table is finite, so the recount of
\* refreshAggregateCounts is a natural number.
LEMMA CountIsNat == Cardinality(ActiveMembers) \in Nat
<1>1. ActiveMembers \subseteq Users
  BY DEF ActiveMembers
<1>2. IsFiniteSet(ActiveMembers)
  BY <1>1, FS_Subset, SpacesAssumption
<1> QED
  BY <1>2, FS_CardinalityType

\* The same after a step.
LEMMA CountIsNatNext == Cardinality(ActiveMembers') \in Nat
<1>1. ActiveMembers' \subseteq Users
  BY DEF ActiveMembers
<1>2. IsFiniteSet(ActiveMembers')
  BY <1>1, FS_Subset, SpacesAssumption
<1> QED
  BY <1>2, FS_CardinalityType

\* Every handler but CreateSpace only records its call: no table and no lock changes.
Called(r) ==
    /\ space.created
    /\ req[r].op = "idle"
    /\ \E op \in Ops, u \in Users \cup {NoUser}, role \in Roles \cup {"none"} :
          /\ op \notin {"allow", "disallow"} => u \in Users
          /\ op = "setRole" => role \in Roles
          /\ req' = [req EXCEPT ![r] = [op |-> op, target |-> u, role |-> role,
                                        reply |-> "none"]]
    /\ UNCHANGED <<space, members, channels, rowLock>>

\* A step of a libp2p handler creates the Space or records a call.
LEMMA StreamHandlerCalls ==
    ASSUME NEW r \in Slots, StreamHandler(r)
    PROVE  Called(r) \/ \E v \in Visibilities : CreateSpace(r, v)
<1>0. req[r].op = "idle"
  BY DEF StreamHandler
<1>1. ASSUME NEW v \in Visibilities, StreamCreateSpace(r, v)
      PROVE  CreateSpace(r, v)
  BY <1>1 DEF StreamCreateSpace
<1>2. ASSUME NEW a \in Users,
             StreamJoin(r, a) \/ StreamCreateGroup(r, a) \/ StreamCreateChannel(r, a)
      PROVE  Called(r)
  BY <1>0, <1>2 DEF StreamJoin, StreamCreateGroup, StreamCreateChannel, Calls, Called, Ops, dbVars
<1>3. ASSUME NEW a \in Users, NEW u \in Users,
             \/ StreamInvite(r, a, u) \/ StreamKick(r, a, u)
             \/ StreamBan(r, a, u) \/ StreamUnban(r, a, u)
      PROVE  Called(r)
  BY <1>0, <1>3 DEF StreamInvite, StreamKick, StreamBan, StreamUnban, ManagerCalls, Calls, Called,
              Ops, dbVars
<1>4. ASSUME NEW a \in Users, NEW u \in Users, NEW role \in RequestedRoles,
             StreamSetRole(r, a, u, role)
      PROVE  Called(r)
  BY <1>0, <1>4, SpacesAssumption, Zenon DEF StreamSetRole, Calls, Called, Ops, dbVars
<1>5. ASSUME NEW a \in Users, NEW op \in {"allow", "disallow"}, StreamSetAllow(r, a, op)
      PROVE  Called(r)
  BY <1>0, <1>5, Zenon DEF StreamSetAllow, ManagerCalls, Calls, Called, Ops, dbVars
<1> QED
  BY <1>1, <1>2, <1>3, <1>4, <1>5 DEF StreamHandler

\* A step of a REST handler creates the Space or records a call.
LEMMA HttpHandlerCalls ==
    ASSUME NEW r \in Slots, HttpHandler(r)
    PROVE  Called(r) \/ \E v \in Visibilities : CreateSpace(r, v)
<1>0. req[r].op = "idle"
  BY Zenon DEF HttpHandler
<1>1. ASSUME NEW v \in Visibilities, CreateSpaceForAPI(r, v)
      PROVE  CreateSpace(r, v)
  BY <1>1 DEF CreateSpaceForAPI
<1>2. ASSUME NEW a \in Users,
             JoinSpaceForAPI(r, a) \/ CreateGroupForAPI(r, a) \/ CreateChannelForAPI(r, a)
      PROVE  Called(r)
  BY <1>0, <1>2 DEF JoinSpaceForAPI, CreateGroupForAPI, CreateChannelForAPI, Calls, Called, Ops, dbVars
<1>3. ASSUME NEW a \in Users, NEW u \in Users,
             \/ InviteSpaceMemberForAPI(r, a, u) \/ KickSpaceMemberForAPI(r, a, u)
             \/ BanSpaceMemberForAPI(r, a, u) \/ UnbanSpaceMemberForAPI(r, a, u)
      PROVE  Called(r)
  BY <1>0, <1>3 DEF InviteSpaceMemberForAPI, KickSpaceMemberForAPI, BanSpaceMemberForAPI,
              UnbanSpaceMemberForAPI, ManagerCalls, Calls, Called, Ops, dbVars
<1>4. ASSUME NEW a \in Users, NEW u \in Users, NEW role \in RequestedRoles,
             AdminSetSpaceMemberRoleForAPI(r, a, u, role)
      PROVE  Called(r)
  BY <1>0, <1>4, SpacesAssumption, Zenon DEF AdminSetSpaceMemberRoleForAPI, Calls, Called, Ops, dbVars
<1>5. ASSUME NEW a \in Users, NEW op \in {"allow", "disallow"},
             AdminSetSpaceChannelCreationForAPI(r, a, op)
      PROVE  Called(r)
  BY <1>0, <1>5, Zenon DEF AdminSetSpaceChannelCreationForAPI, ManagerCalls, Calls, Called, Ops, dbVars
<1> QED
  BY <1>1, <1>2, <1>3, <1>4, <1>5
  DEF HttpHandler, HttpSpaceRequest, HttpMemberRequest, HttpChannelRequest

-----------------------------------------------------------------------------
(***************************************************************************)
(* The part of the invariant that speaks of requests and of the lock.      *)
(***************************************************************************)

RequestsOK ==
    /\ req \in [Slots -> Requests]
    /\ rowLock \in {"free", "orphaned"} \cup HttpSlots
    /\ TargetsAreUsers
    /\ RolesAreRequested

OwnerRows == {u \in Users : members[u].role = "owner"}

\* A method that ends, in whatever way, leaves the requests and the lock well formed.
LEMMA EndOfMethod ==
    ASSUME IInv, NEW r \in Slots, Commit(r) \/ Rollback(r) \/ Abandon(r)
    PROVE  RequestsOK'
<1> USE DEF IInv, Types, RequestsOK, Requests, TargetsAreUsers, RolesAreRequested
<1>1. \A x \in {"ok", "error"} : Idle(x) \in Requests /\ Idle(x).op = "idle"
  BY DEF Idle
<1>2. CASE Commit(r) \/ Rollback(r)
  <2>1. PICK x \in {"ok", "error"} : req' = [req EXCEPT ![r] = Idle(x)] /\ rowLock' = rowLock
    BY <1>2 DEF Commit, Rollback
  <2> QED
    BY <1>1, <2>1 DEF Ops
<1>3. CASE Abandon(r)
  <2>1. CASE r \in StreamSlots /\ rowLock' = "orphaned" /\ req' = [req EXCEPT ![r] = Idle("error")]
    BY <1>1, <2>1 DEF Ops
  <2>2. CASE /\ r \in HttpSlots /\ rowLock' = r
             /\ req' = [req EXCEPT ![r] = [Idle("none") EXCEPT !.op = "rejected"]]
    <3>1. [Idle("none") EXCEPT !.op = "rejected"]
             = [op |-> "rejected", target |-> NoUser, role |-> "none", reply |-> "none"]
      BY DEF Idle
    <3> QED
      BY <2>2, <3>1 DEF Ops
  <2> QED
    BY <1>3, <2>1, <2>2 DEF Abandon
<1> QED
  BY <1>2, <1>3

\* A request past its handler implies that the Space exists.
LEMMA CalledImpliesCreated ==
    ASSUME IInv, NEW r \in Slots, req[r].op \in Ops \cup {"rejected"}
    PROVE  space.created
BY DEF IInv, NothingBeforeCreation, Ops

\* A step that leaves the tables alone keeps the invariant when it keeps the requests.
LEMMA TablesUnchanged ==
    ASSUME IInv, UNCHANGED dbVars, RequestsOK',
           space.created \/ \A r \in Slots : req'[r].op = "idle"
    PROVE  IInv'
<1>1. space' = space /\ members' = members /\ channels' = channels
  BY DEF dbVars
<1>2. ActiveMembers' = ActiveMembers
  BY <1>1 DEF ActiveMembers, IsActive, Present
<1> QED
  BY <1>1, <1>2 DEF IInv, Types, OneOwner, CountsExact, NothingBeforeCreation, RequestsOK, Requests

\* A method that changes memberships or channels, recounts, commits and leaves the set of
\* rows with role owner alone keeps the invariant.
LEMMA Refreshed ==
    ASSUME IInv, NEW r \in Slots, space.created,
           members' \in [Users -> MemberRows], channels' \in Nat,
           OwnerRows' = OwnerRows, RefreshAggregateCounts, Commit(r)
    PROVE  IInv'
<1>1. RequestsOK'
  BY EndOfMethod
<1>2. /\ space' \in SpaceRows
      /\ space'.created /\ space'.owner = space.owner
      /\ space'.memberCount = Cardinality(ActiveMembers') /\ space'.channelCount = channels'
  BY CountIsNatNext, Zenon DEF RefreshAggregateCounts, IInv, Types, SpaceRows
<1>3. OneOwner'
  BY <1>2 DEF OneOwner, OwnerRows, IInv
<1>4. CountsExact'
  BY <1>2 DEF CountsExact
<1> QED
  BY <1>1, <1>2, <1>3, <1>4 DEF IInv, Types, NothingBeforeCreation, RequestsOK, Requests, SpaceRows

-----------------------------------------------------------------------------
(***************************************************************************)
(* One lemma per repository method.                                        *)
(***************************************************************************)

\* Joining and inviting keep the invariant.
LEMMA AddSpaceMemberStep ==
    ASSUME IInv, NEW r \in Slots, AddSpaceMember(r)
    PROVE  IInv'
<1> DEFINE u == req[r].target
<1>1. space.created /\ u \in Users
  BY CalledImpliesCreated DEF AddSpaceMember, LocksSpaceRow, IInv, TargetsAreUsers, Ops
<1>2. CASE Abandon(r) \/ Rollback(r) \/ (UNCHANGED dbVars /\ Commit(r))
  BY <1>1, <1>2, EndOfMethod, TablesUnchanged DEF Abandon, Rollback
<1>3. CASE /\ ~Present(u) /\ Commit(r) /\ UNCHANGED channels /\ RefreshAggregateCounts
           /\ members' = [members EXCEPT ![u] = [role |-> "member", banned |-> FALSE]]
  <2>1. members' \in [Users -> MemberRows] /\ channels' \in Nat
    BY <1>1, <1>3 DEF IInv, Types, MemberRows, Roles
  <2>2. OwnerRows' = OwnerRows
    BY <1>1, <1>3 DEF OwnerRows, Present, NoRow, IInv, Types
  <2> QED
    BY <1>1, <1>3, <2>1, <2>2, Refreshed
<1> QED
  BY <1>2, <1>3 DEF AddSpaceMember

\* Kicking keeps the invariant: the owner's row is never deleted.
LEMMA KickSpaceMemberStep ==
    ASSUME IInv, NEW r \in Slots, KickSpaceMember(r)
    PROVE  IInv'
<1> DEFINE u == req[r].target
<1>1. space.created /\ u \in Users
  BY CalledImpliesCreated DEF KickSpaceMember, LocksSpaceRow, IInv, TargetsAreUsers, Ops
<1>2. CASE Abandon(r) \/ Rollback(r)
  BY <1>1, <1>2, EndOfMethod, TablesUnchanged DEF Abandon, Rollback
<1>3. CASE /\ u # space.owner /\ Commit(r) /\ UNCHANGED channels /\ RefreshAggregateCounts
           /\ members' = [members EXCEPT ![u] = NoRow]
  <2>1. members' \in [Users -> MemberRows] /\ channels' \in Nat
    BY <1>1, <1>3 DEF IInv, Types, MemberRows
  <2>2. OwnerRows' = OwnerRows
    BY <1>1, <1>3 DEF OwnerRows, NoRow, IInv, Types, OneOwner
  <2> QED
    BY <1>1, <1>3, <2>1, <2>2, Refreshed
<1> QED
  BY <1>2, <1>3 DEF KickSpaceMember

\* Banning keeps the invariant: the owner's row is never rewritten.
LEMMA BanSpaceMemberStep ==
    ASSUME IInv, NEW r \in Slots, BanSpaceMember(r)
    PROVE  IInv'
<1> DEFINE u == req[r].target
<1>1. space.created /\ u \in Users
  BY CalledImpliesCreated DEF BanSpaceMember, LocksSpaceRow, IInv, TargetsAreUsers, Ops
<1>2. CASE Abandon(r) \/ (UNCHANGED dbVars /\ Commit(r))
  BY <1>1, <1>2, EndOfMethod, TablesUnchanged DEF Abandon
<1>3. CASE /\ u # space.owner /\ Commit(r) /\ UNCHANGED channels /\ RefreshAggregateCounts
           /\ members' = [members EXCEPT ![u] = [role |-> "member", banned |-> TRUE]]
  <2>1. members' \in [Users -> MemberRows] /\ channels' \in Nat
    BY <1>1, <1>3 DEF IInv, Types, MemberRows, Roles
  <2>2. OwnerRows' = OwnerRows
    BY <1>1, <1>3 DEF OwnerRows, IInv, Types, OneOwner
  <2> QED
    BY <1>1, <1>3, <2>1, <2>2, Refreshed
<1> QED
  BY <1>2, <1>3 DEF BanSpaceMember

\* Lifting a ban keeps the invariant.
LEMMA UnbanSpaceMemberStep ==
    ASSUME IInv, NEW r \in Slots, UnbanSpaceMember(r)
    PROVE  IInv'
<1> DEFINE u == req[r].target
<1>1. space.created /\ u \in Users
  BY CalledImpliesCreated DEF UnbanSpaceMember, LocksSpaceRow, IInv, TargetsAreUsers, Ops
<1>2. CASE Abandon(r) \/ Rollback(r) \/ (UNCHANGED dbVars /\ Commit(r))
  BY <1>1, <1>2, EndOfMethod, TablesUnchanged DEF Abandon, Rollback
<1>3. CASE /\ members[u].banned /\ Commit(r) /\ UNCHANGED channels /\ RefreshAggregateCounts
           /\ members' = [members EXCEPT ![u].banned = FALSE]
  <2>1. members[u] \in [role : Roles, banned : BOOLEAN]
    BY <1>1, <1>3 DEF IInv, Types, MemberRows, NoRow
  <2>2. members' \in [Users -> MemberRows] /\ channels' \in Nat
    BY <1>1, <1>3, <2>1, Zenon DEF IInv, Types, MemberRows
  <2>3. OwnerRows' = OwnerRows
    BY <1>1, <1>3, <2>1 DEF OwnerRows, IInv, Types
  <2> QED
    BY <1>1, <1>3, <2>2, <2>3, Refreshed, Zenon
<1> QED
  BY <1>2, <1>3 DEF UnbanSpaceMember

\* Changing the channel creation policy keeps the invariant.
LEMMA SetSpaceAllowChannelCreationStep ==
    ASSUME IInv, NEW r \in Slots, SetSpaceAllowChannelCreation(r)
    PROVE  IInv'
<1>1. space.created
  BY CalledImpliesCreated DEF SetSpaceAllowChannelCreation, LocksSpaceRow, Ops
<1>2. RequestsOK' /\ members' = members /\ channels' = channels
  BY EndOfMethod DEF SetSpaceAllowChannelCreation
<1>3. /\ space' \in SpaceRows
      /\ space'.created /\ space'.owner = space.owner
      /\ space'.memberCount = space.memberCount /\ space'.channelCount = space.channelCount
  BY <1>1, Zenon DEF SetSpaceAllowChannelCreation, IInv, Types, SpaceRows
<1>4. ActiveMembers' = ActiveMembers
  BY <1>2 DEF ActiveMembers, IsActive, Present
<1> QED
  BY <1>1, <1>2, <1>3, <1>4
     DEF IInv, Types, OneOwner, CountsExact, NothingBeforeCreation, RequestsOK, Requests, SpaceRows

\* A step that only rewrites roles keeps the members, banned or not, that the counts count.
LEMMA RolesDoNotCount ==
    ASSUME IInv, members' \in [Users -> MemberRows],
           \A u \in Users : /\ Present(u) <=> members'[u] # NoRow
                            /\ members'[u].banned = members[u].banned
    PROVE  ActiveMembers' = ActiveMembers
BY DEF ActiveMembers, IsActive, Present

\* A role change keeps the invariant: a transfer demotes the one owner there was, and the
\* new owner is recorded in both tables.
LEMMA SetSpaceMemberRoleStep ==
    ASSUME IInv, NEW r \in Slots, SetSpaceMemberRole(r)
    PROVE  IInv'
<1> DEFINE u == req[r].target
           role == req[r].role
<1>1. space.created /\ u \in Users /\ role \in Roles
  BY CalledImpliesCreated
     DEF SetSpaceMemberRole, LocksSpaceRow, IInv, TargetsAreUsers, RolesAreRequested, Ops
<1>2. OwnerRows = {space.owner} /\ space.owner \in Users
  BY <1>1 DEF IInv, OneOwner, OwnerRows
<1>3. \A v \in Users : Present(v) => members[v] \in [role : Roles, banned : BOOLEAN]
  BY DEF IInv, Types, MemberRows, Present
<1>4. Present(space.owner)
  BY <1>2 DEF OwnerRows, Present, NoRow
<1>5. \A x \in Roles, b \in BOOLEAN : [role |-> x, banned |-> b] # NoRow
  BY DEF Roles, NoRow
<1>6. CASE Abandon(r) \/ Rollback(r)
  BY <1>1, <1>6, EndOfMethod, TablesUnchanged DEF Abandon, Rollback
<1>7. CASE /\ Present(u) /\ u # space.owner /\ role = "owner"
           /\ members' = [members EXCEPT ![space.owner].role = "admin", ![u].role = "owner"]
           /\ space' = [space EXCEPT !.owner = u]
           /\ UNCHANGED channels /\ Commit(r)
  <2>1. members' \in [Users -> MemberRows]
    BY <1>1, <1>2, <1>3, <1>4, <1>7 DEF IInv, Types, MemberRows, Roles
  <2>2. /\ space' \in SpaceRows /\ space'.created /\ space'.owner = u
        /\ space'.memberCount = space.memberCount /\ space'.channelCount = space.channelCount
    BY <1>1, <1>7 DEF IInv, Types, SpaceRows
  <2>3. OwnerRows' = {u}
    <3>1. members'[u].role = "owner" /\ members'[space.owner].role = "admin"
      BY <1>1, <1>2, <1>3, <1>4, <1>7 DEF IInv, Types
    <3>2. \A v \in Users \ {u, space.owner} : members'[v] = members[v]
      BY <1>1, <1>2, <1>7 DEF IInv, Types
    <3>3. \A v \in Users \ {space.owner} : members[v].role # "owner"
      BY <1>2 DEF OwnerRows
    <3> QED
      BY <1>1, <3>1, <3>2, <3>3 DEF OwnerRows
  <2>4. \A v \in Users : /\ Present(v) <=> members'[v] # NoRow
                         /\ members'[v].banned = members[v].banned
    <3>1. /\ members'[u] = [role |-> "owner", banned |-> members[u].banned]
          /\ members'[space.owner] = [role |-> "admin", banned |-> members[space.owner].banned]
          /\ members[u].banned \in BOOLEAN /\ members[space.owner].banned \in BOOLEAN
      BY <1>1, <1>2, <1>3, <1>4, <1>7 DEF IInv, Types, OwnerRows
    <3>2. \A v \in Users \ {u, space.owner} : members'[v] = members[v]
      BY <1>1, <1>2, <1>7 DEF IInv, Types
    <3>3. members'[u] # NoRow /\ members'[space.owner] # NoRow
      BY <1>5, <3>1 DEF Roles
    <3>4. Present(u) /\ Present(space.owner)
      BY <1>4, <1>7
    <3>5. ASSUME NEW v \in Users
          PROVE  /\ Present(v) <=> members'[v] # NoRow
                 /\ members'[v].banned = members[v].banned
      <4>1. CASE v = u
        BY <3>1, <3>3, <3>4, <4>1
      <4>2. CASE v = space.owner
        BY <3>1, <3>3, <3>4, <4>2
      <4>3. CASE v \notin {u, space.owner}
        BY <3>2, <4>3 DEF Present
      <4> QED
        BY <4>1, <4>2, <4>3
    <3> QED
      BY <3>5
  <2>5. ActiveMembers' = ActiveMembers
    BY <2>1, <2>4, RolesDoNotCount
  <2>6. RequestsOK' /\ channels' = channels
    BY <1>7, EndOfMethod
  <2> QED
    BY <1>1, <2>1, <2>2, <2>3, <2>5, <2>6, Zenon
       DEF IInv, Types, OneOwner, OwnerRows, CountsExact, NothingBeforeCreation, RequestsOK,
           Requests, SpaceRows
<1>8. CASE /\ Present(u) /\ (u = space.owner) = (role = "owner")
           /\ members' = [members EXCEPT ![u].role = role]
           /\ UNCHANGED <<space, channels>> /\ Commit(r)
  <2>1. members' \in [Users -> MemberRows]
    BY <1>1, <1>3, <1>8 DEF IInv, Types, MemberRows
  <2>2. OwnerRows' = OwnerRows
    BY <1>1, <1>2, <1>8 DEF OwnerRows, IInv, Types
  <2>3. \A v \in Users : /\ Present(v) <=> members'[v] # NoRow
                         /\ members'[v].banned = members[v].banned
    <3>1. members'[u] = [role |-> role, banned |-> members[u].banned]
      BY <1>1, <1>3, <1>8 DEF IInv, Types
    <3>2. members[u].banned \in BOOLEAN
      BY <1>1, <1>3, <1>8
    <3> QED
      BY <1>1, <1>5, <1>8, <3>1, <3>2 DEF IInv, Types, Present
  <2>4. ActiveMembers' = ActiveMembers
    BY <2>1, <2>3, RolesDoNotCount
  <2>5. RequestsOK' /\ channels' = channels /\ space' = space
    BY <1>8, EndOfMethod
  <2> QED
    BY <1>1, <2>1, <2>2, <2>4, <2>5
       DEF IInv, Types, OneOwner, OwnerRows, CountsExact, NothingBeforeCreation, RequestsOK,
           Requests
<1> QED
  BY <1>6, <1>7, <1>8 DEF SetSpaceMemberRole

\* Creating a channel keeps the invariant.
LEMMA CreateChannelStep ==
    ASSUME IInv, NEW r \in Slots, CreateChannel(r)
    PROVE  IInv'
<1>1. space.created
  BY CalledImpliesCreated DEF CreateChannel, LocksSpaceRow, Ops
<1>2. CASE Abandon(r) \/ Rollback(r)
  BY <1>1, <1>2, EndOfMethod, TablesUnchanged DEF Abandon, Rollback
<1>3. CASE channels' = channels + 1 /\ UNCHANGED members /\ RefreshAggregateCounts /\ Commit(r)
  <2>1. members' \in [Users -> MemberRows] /\ channels' \in Nat /\ OwnerRows' = OwnerRows
    BY <1>3 DEF IInv, Types, OwnerRows
  <2> QED
    BY <1>1, <1>3, <2>1, Refreshed
<1> QED
  BY <1>2, <1>3 DEF CreateChannel

\* Creating the Space establishes the single owner and the counts.
LEMMA CreateSpaceStep ==
    ASSUME IInv, NEW r \in Slots, NEW v \in Visibilities, CreateSpace(r, v)
    PROVE  IInv'
<1>1. members = [u \in Users |-> NoRow] /\ channels = 0
  BY DEF CreateSpace, IInv, NothingBeforeCreation
<1>2. RequestsOK' /\ channels' = 0
  BY <1>1, EndOfMethod DEF CreateSpace
<1>3. members' \in [Users -> MemberRows]
  BY SpacesAssumption DEF CreateSpace, IInv, Types, MemberRows, Roles
<1>4. OwnerRows' = {SiteAdmin}
  BY <1>1, SpacesAssumption DEF CreateSpace, OwnerRows, NoRow
<1>5. /\ space' \in SpaceRows /\ space'.created /\ space'.owner = SiteAdmin
      /\ space'.memberCount = Cardinality(ActiveMembers') /\ space'.channelCount = 0
  BY CountIsNatNext, SpacesAssumption DEF CreateSpace, SpaceRows
<1> QED
  BY <1>2, <1>3, <1>4, <1>5
     DEF IInv, Types, OneOwner, OwnerRows, CountsExact, NothingBeforeCreation, RequestsOK,
         Requests, SpaceRows

\* Recording a call keeps the invariant.
LEMMA CalledStep ==
    ASSUME IInv, NEW r \in Slots, Called(r)
    PROVE  IInv'
<1>1. PICK op \in Ops, u \in Users \cup {NoUser}, role \in Roles \cup {"none"} :
          /\ op \notin {"allow", "disallow"} => u \in Users
          /\ op = "setRole" => role \in Roles
          /\ req' = [req EXCEPT ![r] = [op |-> op, target |-> u, role |-> role,
                                        reply |-> "none"]]
  BY Zenon DEF Called
<1>2. RequestsOK'
  BY <1>1 DEF Called, RequestsOK, Requests, IInv, Types, TargetsAreUsers, RolesAreRequested
<1> QED
  BY <1>2, TablesUnchanged DEF Called, dbVars

-----------------------------------------------------------------------------
(***************************************************************************)
(* The invariant and what follows from it.                                 *)
(***************************************************************************)

\* Initially there is no Space and nothing is counted.
LEMMA InitIInv == Init => IInv
<1> SUFFICES ASSUME Init PROVE IInv
  OBVIOUS
<1>1. ActiveMembers = {}
  BY DEF Init, ActiveMembers, IsActive, Present
<1>2. Cardinality(ActiveMembers) = 0
  BY <1>1, FS_EmptySet
<1>3. Types
  BY DEF Init, Types, SpaceRows, Requests, MemberRows, Visibilities, Idle
<1> QED
  BY <1>2, <1>3 DEF Init, IInv, OneOwner, CountsExact, NothingBeforeCreation, TargetsAreUsers,
                    RolesAreRequested, Idle, Ops

\* Every step keeps the invariant.
LEMMA NextIInv == IInv /\ [Next]_vars => IInv'
<1> SUFFICES ASSUME IInv, [Next]_vars PROVE IInv'
  OBVIOUS
<1>1. ASSUME NEW r \in Slots, StreamHandler(r) \/ HttpHandler(r)
      PROVE  IInv'
  BY <1>1, StreamHandlerCalls, HttpHandlerCalls, CalledStep, CreateSpaceStep
<1>2. ASSUME NEW r \in Slots, Transaction(r)
      PROVE  IInv'
  BY <1>2, AddSpaceMemberStep, KickSpaceMemberStep, BanSpaceMemberStep, UnbanSpaceMemberStep,
     SetSpaceAllowChannelCreationStep, SetSpaceMemberRoleStep, CreateChannelStep, Zenon
     DEF Transaction
<1>3. ASSUME NEW r \in Slots, LockWaitTimeout(r)
      PROVE  IInv'
  BY <1>3, CalledImpliesCreated, EndOfMethod, TablesUnchanged, Zenon DEF LockWaitTimeout, Rollback
<1>4. ASSUME NEW r \in Slots, RequestContextEnds(r)
      PROVE  IInv'
  <2>1. RequestsOK'
    BY <1>4 DEF RequestContextEnds, RequestsOK, Requests, Idle, IInv, Types, TargetsAreUsers,
                RolesAreRequested, Ops
  <2> QED
    BY <1>4, <2>1, CalledImpliesCreated, TablesUnchanged DEF RequestContextEnds
<1>5. CASE Restart
  <2>1. RequestsOK' /\ \A r \in Slots : req'[r].op = "idle"
    BY <1>5 DEF Restart, RequestsOK, Requests, Idle, TargetsAreUsers, RolesAreRequested, Ops
  <2> QED
    BY <1>5, <2>1, TablesUnchanged DEF Restart
<1>6. CASE UNCHANGED vars
  <2>1. RequestsOK' /\ UNCHANGED dbVars /\ req' = req
    BY <1>6 DEF vars, dbVars, RequestsOK, Requests, IInv, Types, TargetsAreUsers,
                RolesAreRequested
  <2> QED
    BY <2>1, TablesUnchanged DEF IInv, NothingBeforeCreation
<1> QED
  BY <1>1, <1>2, <1>3, <1>4, <1>5, <1>6 DEF Next, Slots

\* The inductive invariant holds in every reachable state.
THEOREM Invariance == Spec => []IInv
BY InitIInv, NextIInv, PTL DEF Spec

\* However role changes, kicks, bans and invitations by any number of libp2p and HTTP
\* clients interleave, a Space has exactly one owner and both tables name the same one.
THEOREM SingleOwner == Spec => []OneOwner
<1>1. IInv => OneOwner
  BY DEF IInv
<1> QED
  BY <1>1, Invariance, PTL

\* The stored member and channel counts are always exact.
THEOREM ExactCounts == Spec => []CountsExact
<1>1. IInv => CountsExact
  BY DEF IInv
<1> QED
  BY <1>1, Invariance, PTL

\* No step but a transaction of UnbanSpaceMember takes a ban off a row.
LEMMA NextBans == IInv /\ [Next]_vars => BansLiftedByUnban
<1> SUFFICES ASSUME IInv, [Next]_vars, NEW u \in Users,
                    members[u].banned, ~members'[u].banned
             PROVE  \E r \in Slots : req[r].op = "unban" /\ req[r].target = u
  BY DEF BansLiftedByUnban
<1>1. Present(u) /\ members # [v \in Users |-> NoRow] /\ members' # members
  BY DEF Present, NoRow
<1>2. space.created
  BY <1>1 DEF IInv, NothingBeforeCreation
<1>3. PICK r \in Slots : Transaction(r)
  <2>1. ASSUME NEW r \in Slots, StreamHandler(r) \/ HttpHandler(r)
        PROVE  FALSE
    BY <1>1, <1>2, <2>1, StreamHandlerCalls, HttpHandlerCalls DEF Called, CreateSpace
  <2>2. ASSUME NEW r \in Slots, LockWaitTimeout(r) \/ RequestContextEnds(r)
        PROVE  FALSE
    BY <1>1, <2>2 DEF LockWaitTimeout, Rollback, RequestContextEnds, dbVars
  <2>3. ~Restart /\ ~UNCHANGED vars
    BY <1>1 DEF Restart, dbVars, vars
  <2> QED
    BY <2>1, <2>2, <2>3 DEF Next, Slots
<1>4. members \in [Users -> MemberRows]
  BY DEF IInv, Types
<1>5. CASE AddSpaceMember(r)
  BY <1>1, <1>4, <1>5 DEF AddSpaceMember, Abandon, Rollback, dbVars
<1>6. CASE KickSpaceMember(r)
  BY <1>1, <1>4, <1>6 DEF KickSpaceMember, Abandon, Rollback, dbVars, IsActive
<1>7. CASE BanSpaceMember(r)
  BY <1>1, <1>4, <1>7 DEF BanSpaceMember, Abandon, dbVars
<1>8. CASE UnbanSpaceMember(r)
  BY <1>1, <1>4, <1>8 DEF UnbanSpaceMember, LocksSpaceRow, Abandon, Rollback, dbVars
<1>9. ~SetSpaceAllowChannelCreation(r) /\ ~CreateChannel(r)
  BY <1>1 DEF SetSpaceAllowChannelCreation, CreateChannel, Abandon, Rollback, dbVars
<1>10. CASE SetSpaceMemberRole(r)
  <2>1. members[u] \in [role : Roles, banned : BOOLEAN]
    BY <1>1, <1>4 DEF MemberRows, Present
  <2> QED
    BY <1>1, <1>4, <1>10, <2>1 DEF SetSpaceMemberRole, Abandon, Rollback, dbVars
<1> QED
  BY <1>3, <1>5, <1>6, <1>7, <1>8, <1>9, <1>10 DEF Transaction

\* A ban is lifted by UnbanSpaceMember only.
THEOREM BansStick == Spec => BanSticks
<1>1. IInv /\ [Next]_vars => [BansLiftedByUnban]_vars
  BY NextBans
<1> QED
  BY <1>1, Invariance, PTL DEF Spec, BanSticks

\* Only CreateChannel adds a channel, for a user who is an owner or admin in that state.
LEMMA NextChannels == IInv /\ [Next]_vars => ChannelsAddedByManager
<1> SUFFICES ASSUME IInv, [Next]_vars, channels' # channels
             PROVE  \E r \in Slots : /\ req[r].op = "createChannel" /\ req'[r].op = "idle"
                                     /\ IsManager(req[r].target)
  BY DEF ChannelsAddedByManager
<1>1. ASSUME NEW r \in Slots, StreamHandler(r) \/ HttpHandler(r)
      PROVE  FALSE
  BY <1>1, StreamHandlerCalls, HttpHandlerCalls DEF Called, CreateSpace
<1>2. ASSUME NEW r \in Slots, LockWaitTimeout(r) \/ RequestContextEnds(r)
      PROVE  FALSE
  BY <1>2 DEF LockWaitTimeout, Rollback, RequestContextEnds, dbVars
<1>3. ~Restart /\ ~UNCHANGED vars
  BY DEF Restart, dbVars, vars
<1>4. PICK r \in Slots : Transaction(r)
  BY <1>1, <1>2, <1>3, Zenon DEF Next, Slots
<1>5. CreateChannel(r)
  BY <1>4, Zenon DEF Transaction, AddSpaceMember, KickSpaceMember, BanSpaceMember, UnbanSpaceMember,
              SetSpaceAllowChannelCreation, SetSpaceMemberRole, Abandon, Rollback, dbVars
<1> QED
  BY <1>5 DEF CreateChannel, LocksSpaceRow, Abandon, Rollback, Commit, Idle, dbVars, IInv, Types

\* A channel is created by a current owner or admin, whatever committed between the
\* arrival of the request and its transaction.
THEOREM CreatorsAreManagers == Spec => CreatorIsManagerAtInsert
<1>1. IInv /\ [Next]_vars => [ChannelsAddedByManager]_vars
  BY NextChannels
<1> QED
  BY <1>1, Invariance, PTL DEF Spec, CreatorIsManagerAtInsert

\* Every repository method ends with Commit or Rollback, or with Abandon under the lock.
LEMMA TransactionEnds ==
    ASSUME NEW r \in Slots, Transaction(r)
    PROVE  /\ req[r].op \in Ops /\ rowLock = "free"
           /\ Commit(r) \/ Rollback(r) \/ Abandon(r)
BY DEF Transaction, AddSpaceMember, KickSpaceMember, BanSpaceMember, UnbanSpaceMember,
       SetSpaceAllowChannelCreation, SetSpaceMemberRole, CreateChannel, LocksSpaceRow, Ops

\* What CreateChannel decides is what the two queries tell.
LEMMA CreateChannelAsShown ==
    ASSUME IInv, NEW r \in Slots, CreateChannel(r)
    PROVE  LET u == req[r].target
               created == channels' = channels + 1
           IN  /\ created <=> GetCreateGroupPermissions(u)
               /\ IsManager(u) => (created <=> EffectiveAllowChannelCreation(u))
<1> DEFINE u == req[r].target
           allowed == space.allow \/ u = SiteAdmin
<1>1. ~(channels = channels + 1)
  BY DEF IInv, Types
<1>2. IsManager(u) => IsActive(u)
  BY DEF IsManager, GetMemberRole
<1>3. allowed /\ IsManager(u) => channels' = channels + 1
  BY <1>2, Zenon DEF CreateChannel
<1>4. ~(allowed /\ IsManager(u)) => channels' = channels
  BY Zenon DEF CreateChannel, Abandon, Rollback, dbVars
<1>5. channels' = channels + 1 <=> allowed /\ IsManager(u)
  BY <1>1, <1>3, <1>4, Zenon
<1> QED
  BY <1>5, Zenon DEF GetCreateGroupPermissions, CanCreateGroup, EffectiveAllowChannelCreation

\* A request leaves createChannel by a transaction of CreateChannel or a restart while no
\* abandoned transaction holds the row.
LEMMA NextAsShown == IInv /\ [Next]_vars => ChannelCreatedAsShown
<1> SUFFICES ASSUME IInv, [Next]_vars, NEW r \in Slots, req[r].op = "createChannel",
                    rowLock = "free", req'[r] # req[r], req'[r] # Idle("none")
             PROVE  CreateChannel(r)
  BY CreateChannelAsShown, Zenon DEF ChannelCreatedAsShown
<1>0. DOMAIN req = Slots
  BY DEF IInv, Types
<1>1. ASSUME NEW q \in Slots, Transaction(q)
      PROVE  CreateChannel(r)
  <2>1. \A v : req' # [req EXCEPT ![q] = v] \/ q = r
    BY <1>0
  <2>2. Commit(q) \/ Rollback(q) \/ Abandon(q)
    BY <1>1, TransactionEnds
  <2>3. q = r
    BY <2>1, <2>2, Zenon DEF Commit, Rollback, Abandon
  <2> QED
    BY <1>1, <2>3 DEF Transaction, AddSpaceMember, KickSpaceMember, BanSpaceMember, UnbanSpaceMember,
                      SetSpaceAllowChannelCreation, SetSpaceMemberRole, LocksSpaceRow
<1>2. ASSUME NEW q \in Slots, StreamHandler(q) \/ HttpHandler(q)
      PROVE  FALSE
  <2>1. req[q].op = "idle" /\ q # r
    BY <1>2 DEF StreamHandler, HttpHandler
  <2>2. ~Called(q)
    BY <1>0, <2>1 DEF Called
  <2>3. \A v : ~CreateSpace(q, v)
    BY <1>0, <2>1 DEF CreateSpace, Commit
  <2> QED
    BY <1>2, <2>2, <2>3, StreamHandlerCalls, HttpHandlerCalls, Zenon
<1>3. ASSUME NEW q \in Slots, LockWaitTimeout(q) \/ RequestContextEnds(q)
      PROVE  FALSE
  BY <1>0, <1>3 DEF LockWaitTimeout, RequestContextEnds
<1>4. ~Restart /\ ~UNCHANGED vars
  BY DEF Restart, vars
<1> QED
  BY <1>1, <1>2, <1>3, <1>4, Zenon DEF Next, Slots

\* The three places that decide about channel creation, the handler of
\* GET_CREATE_GROUP_PERMISSIONS, the SpaceSummary and the transaction of CreateChannel,
\* agree in every state in which a transaction decides.
THEOREM CreationAsShown == Spec => CreationIsAsShown
<1>1. IInv /\ [Next]_vars => [ChannelCreatedAsShown]_vars
  BY NextAsShown
<1> QED
  BY <1>1, Invariance, PTL DEF Spec, CreationIsAsShown

-----------------------------------------------------------------------------
(***************************************************************************)
(* The lock on the Space row.                                              *)
(***************************************************************************)

\* Only a method of an existing Space can leave its row locked.
OrphanAfterCreation == rowLock = "orphaned" => space.created

LockInv == IInv /\ HolderIsRejected /\ OrphanAfterCreation

\* A method that ends with Commit or Rollback leaves the lock; Abandon takes it for a
\* request that did not hold it.
LEMMA EndOfMethodLock ==
    ASSUME LockInv, NEW r \in Slots, req[r].op # "rejected",
           Commit(r) \/ Rollback(r) \/ (rowLock = "free" /\ Abandon(r))
    PROVE  HolderIsRejected'
<1>0. DOMAIN req = Slots /\ \A q \in Slots : req[q].op = "rejected" <=> rowLock = q
  BY DEF LockInv, IInv, Types, HolderIsRejected
<1>1. \A x \in {"ok", "error"} : Idle(x).op = "idle"
  BY DEF Idle
<1>2. CASE Commit(r) \/ Rollback(r)
  <2>1. PICK x \in {"ok", "error"} : req' = [req EXCEPT ![r] = Idle(x)] /\ rowLock' = rowLock
    BY <1>2 DEF Commit, Rollback
  <2>2. req'[r].op = "idle" /\ \A q \in Slots : q # r => req'[q] = req[q]
    BY <1>0, <1>1, <2>1
  <2> QED
    BY <1>0, <2>1, <2>2 DEF HolderIsRejected
<1>3. CASE rowLock = "free" /\ Abandon(r)
  <2>1. \A q \in Slots : req[q].op # "rejected" /\ q # "free" /\ q # "orphaned"
    BY <1>0, <1>3, SpacesAssumption
  <2>2. CASE rowLock' = "orphaned" /\ req' = [req EXCEPT ![r] = Idle("error")]
    <3>1. req'[r].op = "idle" /\ \A q \in Slots : q # r => req'[q] = req[q]
      BY <1>0, <1>1, <2>2
    <3> QED
      BY <2>1, <2>2, <3>1 DEF HolderIsRejected
  <2>3. CASE /\ rowLock' = r
             /\ req' = [req EXCEPT ![r] = [Idle("none") EXCEPT !.op = "rejected"]]
    <3>1. [Idle("none") EXCEPT !.op = "rejected"].op = "rejected"
      BY Zenon DEF Idle
    <3>2. req'[r].op = "rejected" /\ \A q \in Slots : q # r => req'[q] = req[q]
      BY <1>0, <2>3, <3>1
    <3> QED
      BY <2>1, <2>3, <3>2 DEF HolderIsRejected
  <2> QED
    BY <1>3, <2>2, <2>3 DEF Abandon
<1> QED
  BY <1>2, <1>3

\* Every step keeps the holder of the row and the rejected request in step.
LEMMA NextHolder == LockInv /\ [Next]_vars => HolderIsRejected'
<1> SUFFICES ASSUME LockInv, [Next]_vars
             PROVE  HolderIsRejected'
  OBVIOUS
<1>0. "rejected" \notin Ops /\ "idle" \notin Ops /\ \A q \in Slots : q # "free" /\ q # "orphaned"
  BY SpacesAssumption DEF Ops
<1>1. ASSUME NEW r \in Slots, Called(r)
      PROVE  HolderIsRejected'
  BY <1>0, <1>1 DEF Called, LockInv, IInv, Types, HolderIsRejected
<1>2. ASSUME NEW r \in Slots, req[r].op = "idle", NEW v \in Visibilities, CreateSpace(r, v)
      PROVE  HolderIsRejected'
  BY <1>2, EndOfMethodLock DEF CreateSpace
<1>3. ASSUME NEW r \in StreamSlots, StreamHandler(r)
      PROVE  HolderIsRejected'
  <2>1. r \in Slots /\ req[r].op = "idle"
    BY <1>3 DEF StreamHandler, Slots
  <2> QED
    BY <1>1, <1>2, <1>3, <2>1, StreamHandlerCalls, Zenon
<1>4. ASSUME NEW r \in HttpSlots, HttpHandler(r)
      PROVE  HolderIsRejected'
  <2>1. r \in Slots /\ req[r].op = "idle"
    BY <1>4 DEF HttpHandler, Slots
  <2> QED
    BY <1>1, <1>2, <1>4, <2>1, HttpHandlerCalls
<1>5. ASSUME NEW r \in Slots, Transaction(r)
      PROVE  HolderIsRejected'
  BY <1>0, <1>5, TransactionEnds, EndOfMethodLock
<1>6. ASSUME NEW r \in Slots, LockWaitTimeout(r)
      PROVE  HolderIsRejected'
  BY <1>0, <1>6, EndOfMethodLock DEF LockWaitTimeout
<1>7. ASSUME NEW r \in Slots, RequestContextEnds(r)
      PROVE  HolderIsRejected'
  <2>1. rowLock = r /\ Idle("error").op = "idle"
    BY <1>7 DEF RequestContextEnds, LockInv, HolderIsRejected, Idle
  <2> QED
    BY <1>0, <1>7, <2>1 DEF RequestContextEnds, LockInv, IInv, Types, HolderIsRejected
<1>8. CASE Restart
  <2>1. \A q \in Slots : req'[q].op = "idle"
    BY <1>8 DEF Restart, Idle
  <2> QED
    BY <1>0, <1>8, <2>1 DEF Restart, HolderIsRejected
<1>9. CASE UNCHANGED vars
  BY <1>9 DEF vars, LockInv, HolderIsRejected
<1> QED
  BY <1>3, <1>4, <1>5, <1>6, <1>7, <1>8, <1>9 DEF Next

\* What an abandoned transaction of a stream holds, it holds until the process restarts,
\* and until then no table changes.
OrphanHolds ==
    rowLock = "orphaned" => Restart \/ (rowLock' = "orphaned" /\ UNCHANGED dbVars)

\* No step but a restart moves an orphaned lock or changes a table while it is held.
LEMMA NextOrphan == LockInv /\ [Next]_vars => OrphanHolds
<1> SUFFICES ASSUME LockInv, [Next]_vars, rowLock = "orphaned"
             PROVE  Restart \/ (rowLock' = "orphaned" /\ UNCHANGED dbVars)
  BY DEF OrphanHolds
<1>0. \A q \in Slots : q # "orphaned"
  BY SpacesAssumption
<1>1. ASSUME NEW r \in Slots, Called(r)
      PROVE  rowLock' = "orphaned" /\ UNCHANGED dbVars
  BY <1>1 DEF Called, dbVars
<1>2. ASSUME NEW r \in Slots, NEW v \in Visibilities, CreateSpace(r, v)
      PROVE  FALSE
  BY <1>2 DEF CreateSpace, LockInv, OrphanAfterCreation
<1>3. ASSUME NEW r \in StreamSlots, StreamHandler(r)
      PROVE  rowLock' = "orphaned" /\ UNCHANGED dbVars
  BY <1>1, <1>2, <1>3, StreamHandlerCalls DEF Slots
<1>4. ASSUME NEW r \in HttpSlots, HttpHandler(r)
      PROVE  rowLock' = "orphaned" /\ UNCHANGED dbVars
  BY <1>1, <1>2, <1>4, HttpHandlerCalls DEF Slots
<1>5. ASSUME NEW r \in Slots, Transaction(r)
      PROVE  FALSE
  BY <1>5, TransactionEnds
<1>6. ASSUME NEW r \in Slots, LockWaitTimeout(r)
      PROVE  rowLock' = "orphaned" /\ UNCHANGED dbVars
  BY <1>6 DEF LockWaitTimeout, Rollback
<1>7. ASSUME NEW r \in Slots, RequestContextEnds(r)
      PROVE  FALSE
  BY <1>0, <1>7 DEF RequestContextEnds, LockInv, HolderIsRejected
<1>8. CASE UNCHANGED vars
  BY <1>8 DEF vars, dbVars
<1> QED
  BY <1>3, <1>4, <1>5, <1>6, <1>7, <1>8 DEF Next

\* The lock invariant is inductive: a lock becomes orphaned in a transaction, which only a
\* request of an existing Space reaches.
LEMMA NextLock == LockInv /\ [Next]_vars => LockInv'
<1> SUFFICES ASSUME LockInv, [Next]_vars
             PROVE  OrphanAfterCreation'
  BY NextIInv, NextHolder DEF LockInv
<1>1. CASE rowLock = "orphaned"
  BY <1>1, NextOrphan DEF OrphanHolds, OrphanAfterCreation, LockInv, Restart, dbVars
<1>2. CASE rowLock # "orphaned" /\ rowLock' = "orphaned"
  <2>1. ASSUME NEW r \in Slots, StreamHandler(r) \/ HttpHandler(r)
        PROVE  FALSE
    BY <1>2, <2>1, StreamHandlerCalls, HttpHandlerCalls DEF Called, CreateSpace, Commit
  <2>2. ASSUME NEW r \in Slots, LockWaitTimeout(r) \/ RequestContextEnds(r)
        PROVE  FALSE
    BY <1>2, <2>2 DEF LockWaitTimeout, RequestContextEnds
  <2>3. ~Restart /\ ~UNCHANGED vars
    BY <1>2 DEF Restart, vars
  <2>4. PICK r \in Slots : Transaction(r)
    BY <2>1, <2>2, <2>3 DEF Next, Slots
  <2>5. req[r].op \in Ops /\ Abandon(r)
    BY <1>2, <2>4, TransactionEnds DEF Commit, Rollback
  <2>6. space.created /\ space' = space
    BY <2>5, CalledImpliesCreated DEF Abandon, dbVars, LockInv
  <2> QED
    BY <2>6 DEF OrphanAfterCreation
<1> QED
  BY <1>1, <1>2 DEF OrphanAfterCreation

\* No request is rejected and nothing is locked at first.
LEMMA InitLock == Init => LockInv
<1>1. ASSUME Init
      PROVE  HolderIsRejected /\ OrphanAfterCreation
  BY <1>1, SpacesAssumption DEF Init, HolderIsRejected, OrphanAfterCreation, Idle
<1> QED
  BY <1>1, InitIInv, Zenon DEF LockInv

\* The state stays well formed.  A request holds the Space row between two steps exactly
\* when its method returned an error without rolling back and its HTTP handler has not
\* returned: the end of a request's context never frees a row that some other transaction
\* holds.
THEOREM TypeCorrect == Spec => []TypeOK
<1>1. LockInv => TypeOK
  BY DEF LockInv, IInv, Types, SpaceRows, Requests, TypeOK
<1> QED
  BY <1>1, InitLock, NextLock, PTL DEF Spec

\* After a libp2p session was refused by a repository method that does not roll back, no
\* step but a restart frees the row or changes any table of the Space: other requests
\* time out or wait, and no request's end of context rolls the abandoned transaction back.
THEOREM OrphanHoldsUntilRestart == Spec => [][OrphanHolds]_vars
<1>1. LockInv /\ [Next]_vars => [OrphanHolds]_vars
  BY NextOrphan
<1> QED
  BY <1>1, InitLock, NextLock, PTL DEF Spec

=============================================================================
