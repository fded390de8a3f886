---------------------------- MODULE ServerProofs -----------------------------
(***************************************************************************)
(* Proofs about Server, for any migrations, any CIDs and requests, and any *)
(* number of processes that end: StartInv is about the state of Startup,   *)
(* PinInv about that of PinStore and how far the process has come.         *)
(***************************************************************************)
EXTENDS Server, FiniteSetTheorems, TLAPS

\* How far the process has come, from the last phase to the first.
Secured == {"start", "listening", "ready"}
Entered == {"admin", "invite", "promote", "secret"} \cup Secured
Loaded == {"node"} \cup Entered
Keyed == {"ipfs"} \cup Loaded
Keying == {"openKey", "writeKey"}
Migrated == {"identity"} \cup Keying \cup Keyed
Phases == {"down", "open", "migrate", "record"} \cup Migrated

Roles == {"none", "member", "admin", "owner"}
AdminRows == [role : Roles, banned : BOOLEAN]

StartTypes ==
    /\ pc \in Phases
    /\ recorded \in 0..MigrationCount /\ halfDone \in BOOLEAN
    /\ keyFile \in -1..MaxKeys /\ identity \in 0..MaxKeys /\ secret \in 0..MaxKeys
    /\ keys \in 0..MaxKeys /\ lostKeys \in 0..keys /\ exits \in 0..MaxExits
    /\ nodeRows \subseteq 1..MaxKeys
    /\ space \in BOOLEAN
    /\ adminRow \in AdminRows

\* A file in effect is one that is not yet recorded.
MigrationInv ==
    /\ halfDone => recorded < MigrationCount /\ recorded + 1 \notin Malformed
    /\ pc = "record" => halfDone
    /\ pc \in Migrated => recorded = MigrationCount

\* From LoadOrCreateIdentity on the host has a key, which is that of the file; from the
\* upsert on it has its row, and in the end the secret is made from it.
KeyInv ==
    /\ pc \in Keying \cup Keyed => identity # NoKey
    /\ pc \in Keyed => keyFile = identity
    /\ pc \in Entered => identity \in nodeRows
    /\ pc \in Secured => secret = identity
    /\ pc = "down" => identity = NoKey /\ secret = NoKey

\* Nobody can change the row between the bootstrap and the start of the node.
AdminInv ==
    /\ pc \in {"secret", "start"} /\ space => AdminRole \in {"admin", "owner"}
    /\ pc \in {"invite", "promote"} => space

\* The keys a peer id of this server was or can still be made from.
KnownKeys ==
    nodeRows \cup ({keyFile} \cap 1..MaxKeys) \cup (IF pc \in Keying THEN {identity} ELSE {})

\* A key becomes known when it is generated, as the first or in place of a lost one.
IdentityInv ==
    /\ Cardinality(KnownKeys) <= 1 + lostKeys
    /\ keyFile = NoKey => nodeRows = {}

StartInv == StartTypes /\ MigrationInv /\ KeyInv /\ AdminInv /\ IdentityInv

Busy(r) == pinOp[r].pc \in {"write", "rename"}

PinTypes ==
    /\ pins \subseteq Cids /\ pinFile \in {Whole(S) : S \in SUBSET Cids} \cup {NoFile}
    /\ pinOp \in [PinRequests -> Ops \cup {NoOp}]
    /\ promise \in [Cids -> {"pinned", "unpinned", "open"}]
    /\ pinFailures \in 0..MaxPinFailures

\* The request that holds the mutex has made its change in memory, and about the CID it
\* changes nothing is promised.
BusyInv ==
    \A r \in PinRequests : Busy(r) =>
        /\ promise[pinOp[r].cid] = "open"
        /\ pinOp[r].kind = "pin" <=> pinOp[r].cid \in pins
        /\ \A q \in PinRequests : Busy(q) => q = r

\* Promises hold in the file, and in memory from LoadIpfs on.
PromiseInv ==
    \A c \in Cids :
        /\ promise[c] = "pinned" => c \in pinFile.cids /\ (pc \in Loaded => c \in pins)
        /\ promise[c] = "unpinned" => c \notin pinFile.cids /\ (pc \in Loaded => c \notin pins)

PhaseInv ==
    /\ ~Serving => \A r \in PinRequests : pinOp[r] = NoOp
    /\ pc = "down" => pins = {}

PinInv == PinTypes /\ BusyInv /\ PromiseInv /\ PhaseInv

-----------------------------------------------------------------------------
(***************************************************************************)
(* Startup.                                                                *)
(***************************************************************************)

\* An empty database and no key file.
LEMMA InitStart == StartupInit => StartInv
<1> SUFFICES ASSUME StartupInit PROVE StartInv
  OBVIOUS
<1>1. KnownKeys = {}
  BY StartupAssumption DEF StartupInit, KnownKeys, NoKey, Keying
<1>2. Cardinality(KnownKeys) = 0
  BY <1>1, FS_EmptySet
<1>3. StartTypes
  <2>1. adminRow \in AdminRows
    BY DEF StartupInit, NoRow, Roles, AdminRows
  <2>2. pc \in Phases /\ nodeRows \subseteq 1..MaxKeys /\ halfDone \in BOOLEAN /\ space \in BOOLEAN
    BY Zenon DEF StartupInit, Phases
  <2>3. /\ recorded \in 0..MigrationCount /\ exits \in 0..MaxExits
        /\ keyFile \in -1..MaxKeys /\ identity \in 0..MaxKeys /\ secret \in 0..MaxKeys
        /\ keys \in 0..MaxKeys /\ lostKeys \in 0..keys
    BY StartupAssumption DEF StartupInit, NoKey
  <2> QED
    BY <2>1, <2>2, <2>3 DEF StartTypes
<1>4. MigrationInv /\ KeyInv /\ AdminInv
  BY DEF StartupInit, MigrationInv, KeyInv, AdminInv, Migrated, Keying, Keyed, Loaded, Entered, Secured
<1>5. IdentityInv
  BY <1>2 DEF StartupInit, IdentityInv
<1> QED
  BY <1>3, <1>4, <1>5 DEF StartInv

\* The keys that are known are finitely many, so that fewer have a smaller count.
LEMMA KnownFinite ==
  ASSUME StartInv
  PROVE  /\ IsFiniteSet(KnownKeys) /\ KnownKeys \subseteq 0..MaxKeys
         /\ Cardinality(KnownKeys) \in Nat
         /\ \A S \in SUBSET KnownKeys : IsFiniteSet(S) /\ Cardinality(S) \in Nat /\ Cardinality(S) <= 1 + lostKeys
<1>1. KnownKeys \subseteq 0..MaxKeys
  BY StartupAssumption DEF StartInv, StartTypes, KnownKeys
<1>2. IsFiniteSet(0..MaxKeys)
  BY StartupAssumption, FS_Interval
<1>3. IsFiniteSet(KnownKeys)
  BY <1>1, <1>2, FS_Subset, Zenon
<1>4. Cardinality(KnownKeys) \in Nat
  BY <1>3, FS_CardinalityType
<1>5. ASSUME NEW S \in SUBSET KnownKeys
      PROVE  IsFiniteSet(S) /\ Cardinality(S) \in Nat /\ Cardinality(S) <= 1 + lostKeys
  <2>1. IsFiniteSet(S) /\ Cardinality(S) <= Cardinality(KnownKeys)
    BY <1>3, FS_Subset
  <2>2. Cardinality(S) \in Nat
    BY <2>1, FS_CardinalityType
  <2> QED
    BY <2>1, <2>2, <1>4 DEF StartInv, IdentityInv, StartTypes
<1> QED
  BY <1>1, <1>3, <1>4, <1>5

\* A step that makes no key known, and forgets no loss of one, keeps the count.
LEMMA NoNewKey ==
  ASSUME StartInv, KnownKeys' \subseteq KnownKeys, lostKeys' = lostKeys,
         keyFile' = NoKey => keyFile = NoKey /\ nodeRows' = nodeRows
  PROVE  IdentityInv'
<1>1. Cardinality(KnownKeys') <= 1 + lostKeys
  BY KnownFinite
<1> QED
  BY <1>1 DEF IdentityInv, StartInv

\* Opening the database and running the migrations.
LEMMA MigrationStep ==
  ASSUME StartInv, Launch \/ OpenDatabase \/ RunMigrations
  PROVE  StartInv'
<1> USE DEF RunMigrations, Launch, OpenDatabase, ApplyMigration, RecordMigration, MigrationsDone,
            dbVars, keyVars, hostVars, adminVars
<1>1. StartTypes'
  <2>1. pc' \in Phases /\ halfDone' \in BOOLEAN
    BY Zenon DEF StartInv, StartTypes, Phases, Migrated
  <2>2. recorded' \in 0..MigrationCount
    BY StartupAssumption DEF StartInv, StartTypes, MigrationInv
  <2> QED
    BY <2>1, <2>2, Zenon DEF StartInv, StartTypes
<1>2. MigrationInv'
  BY StartupAssumption DEF StartInv, StartTypes, MigrationInv, CanApply, Migrated, Keying, Keyed, Loaded, Entered, Secured
<1>3. KeyInv' /\ AdminInv'
  BY DEF KeyInv, AdminInv, Keying, Keyed, Loaded, Entered, Secured
<1>4. KnownKeys' \subseteq KnownKeys
  BY DEF KnownKeys, Keying
<1>5. IdentityInv'
  BY <1>4, NoNewKey
<1> QED
  BY <1>1, <1>2, <1>3, <1>5 DEF StartInv

\* A file that MySQL does not parse has left nothing in effect when it is recorded by hand.
LEMMA RepairStep ==
  ASSUME StartInv, RepairByHand
  PROVE  StartInv'
<1> USE DEF RepairByHand, keyVars, hostVars, adminVars
<1>1. StartTypes' /\ MigrationInv'
  BY StartupAssumption DEF StartInv, StartTypes, MigrationInv, Migrated, Keying, Keyed, Loaded, Entered, Secured
<1>2. KeyInv' /\ AdminInv'
  BY DEF StartInv, KeyInv, AdminInv, Keying, Keyed, Loaded, Entered, Secured
<1>3. KnownKeys' \subseteq KnownKeys
  BY DEF KnownKeys
<1>4. IdentityInv'
  BY <1>3, NoNewKey
<1> QED
  BY <1>1, <1>2, <1>4 DEF StartInv

\* LoadOrCreateIdentity with a file that can be parsed.
LEMMA LoadKeyStep ==
  ASSUME StartInv, LoadKey
  PROVE  StartInv'
<1> USE DEF LoadKey, dbVars, keyVars, hostVars, adminVars, NoKey, ShortKey
<1>1. StartTypes'
  <2>1. pc' \in Phases /\ identity' \in 0..MaxKeys
    BY StartupAssumption DEF StartInv, StartTypes, Phases, Migrated, Keyed
  <2> QED
    BY <2>1 DEF StartInv, StartTypes
<1>2. MigrationInv' /\ KeyInv' /\ AdminInv'
  BY DEF StartInv, MigrationInv, KeyInv, AdminInv, Migrated, Keying, Keyed, Loaded, Entered, Secured
<1>3. KnownKeys' \subseteq KnownKeys
  BY DEF KnownKeys, Keying
<1>4. IdentityInv'
  BY <1>3, NoNewKey
<1> QED
  BY <1>1, <1>2, <1>4 DEF StartInv

\* A new key is the first, or one was lost.
LEMMA GenerateKeyStep ==
  ASSUME StartInv, GenerateKey
  PROVE  StartInv'
<1> USE DEF GenerateKey, dbVars, keyVars, hostVars, adminVars, NoKey
<1>1. StartTypes'
  <2>1. pc' \in Phases
    BY DEF Phases, Migrated, Keying
  <2>2. identity' \in 0..MaxKeys /\ keys' \in 0..MaxKeys /\ lostKeys' \in 0..keys'
    BY StartupAssumption DEF StartInv, StartTypes
  <2> QED
    BY <2>1, <2>2 DEF StartInv, StartTypes
<1>2. MigrationInv'
  BY DEF StartInv, MigrationInv, Migrated, Keying
<1>3. KeyInv' /\ AdminInv'
  BY StartupAssumption DEF StartInv, StartTypes, KeyInv, AdminInv, Keying, Keyed, Loaded, Entered, Secured
<1>4. KnownKeys' = KnownKeys \cup {keys + 1}
  BY DEF KnownKeys, Keying
<1>5. Cardinality(KnownKeys') <= 1 + lostKeys'
  <2>1. CASE keyFile = NoKey
    <3>1. KnownKeys = {}
      BY <2>1, StartupAssumption DEF StartInv, IdentityInv, KnownKeys, Keying
    <3>2. KnownKeys' = {keys + 1}
      BY <3>1, <1>4
    <3>3. Cardinality(KnownKeys') = 1
      BY <3>2, FS_Singleton
    <3> QED
      BY <2>1, <3>3 DEF StartInv, StartTypes
  <2>2. CASE keyFile # NoKey
    <3>1. IsFiniteSet(KnownKeys) /\ Cardinality(KnownKeys) \in Nat
      BY KnownFinite
    <3>2. Cardinality(KnownKeys') \in {Cardinality(KnownKeys), Cardinality(KnownKeys) + 1}
      BY <3>1, <1>4, FS_AddElement
    <3>3. lostKeys' = lostKeys + 1 /\ Cardinality(KnownKeys) <= 1 + lostKeys /\ lostKeys \in Nat
      BY <2>2 DEF StartInv, StartTypes, IdentityInv
    <3> QED
      BY <3>1, <3>2, <3>3
  <2> QED
    BY <2>1, <2>2
<1>6. IdentityInv'
  BY <1>5 DEF StartInv, IdentityInv
<1> QED
  BY <1>1, <1>2, <1>3, <1>6 DEF StartInv

\* The key file is truncated, and then holds the host's key.
LEMMA WriteKeyStep ==
  ASSUME StartInv, OpenKeyFile \/ WriteKey
  PROVE  StartInv'
<1> USE DEF OpenKeyFile, WriteKey, dbVars, keyVars, hostVars, adminVars, NoKey, ShortKey
<1>1. StartTypes'
  <2>1. pc' \in Phases
    BY DEF Phases, Migrated, Keying, Keyed
  <2>2. keyFile' \in -1..MaxKeys
    BY StartupAssumption DEF StartInv, StartTypes
  <2> QED
    BY <2>1, <2>2, Zenon DEF StartInv, StartTypes
<1>2. MigrationInv' /\ KeyInv' /\ AdminInv'
  BY DEF StartInv, MigrationInv, KeyInv, AdminInv, Migrated, Keying, Keyed, Loaded, Entered, Secured
<1>3. KnownKeys' \subseteq KnownKeys
  BY StartupAssumption DEF KnownKeys, Keying, StartInv, StartTypes
<1>4. keyFile' # NoKey
  BY DEF StartInv, KeyInv, Keying
<1>5. IdentityInv'
  BY <1>3, <1>4, NoNewKey
<1> QED
  BY <1>1, <1>2, <1>5 DEF StartInv

\* What can become of a row of server_members is one again.
LEMMA RowsOfRows ==
  /\ NoRow \in AdminRows /\ [role |-> "member", banned |-> TRUE] \in AdminRows
  /\ \A role \in Roles : Row(role) \in AdminRows
  /\ \A row \in AdminRows, role \in Roles : [row EXCEPT !.role = role] \in AdminRows
  /\ \A row \in AdminRows, b \in BOOLEAN : [row EXCEPT !.banned = b] \in AdminRows
<1>1. NoRow \in AdminRows /\ [role |-> "member", banned |-> TRUE] \in AdminRows
  BY DEF NoRow, AdminRows, Roles
<1>2. \A role \in Roles : Row(role) \in AdminRows
  BY DEF Row, AdminRows
<1>3. \A row \in AdminRows, role \in Roles : [row EXCEPT !.role = role] \in AdminRows
  BY DEF AdminRows
<1>4. \A row \in AdminRows, b \in BOOLEAN : [row EXCEPT !.banned = b] \in AdminRows
  BY DEF AdminRows
<1> QED
  BY <1>1, <1>2, <1>3, <1>4

\* The row in nodes is that of the key in the file.
LEMMA UpsertNodeStep ==
  ASSUME StartInv, UpsertNode
  PROVE  StartInv'
<1> USE DEF UpsertNode, dbVars, keyVars, hostVars, adminVars, NoKey
<1>1. identity \in 1..MaxKeys /\ keyFile = identity
  BY StartupAssumption DEF StartInv, StartTypes, KeyInv, Keyed, Loaded
<1>2. StartTypes'
  <2>1. pc' \in Phases
    BY DEF Phases, Migrated, Keyed, Loaded, Entered
  <2> QED
    BY <1>1, <2>1 DEF StartInv, StartTypes
<1>3. MigrationInv' /\ KeyInv' /\ AdminInv'
  BY DEF StartInv, MigrationInv, KeyInv, AdminInv, Migrated, Keying, Keyed, Loaded, Entered, Secured
<1>4. KnownKeys' \subseteq KnownKeys
  BY <1>1 DEF KnownKeys, Keying
<1>5. IdentityInv'
  BY <1>1, <1>4, NoNewKey
<1> QED
  BY <1>2, <1>3, <1>5 DEF StartInv

\* Steps that move on without touching keys or migrations.
LEMMA MoveOn ==
  ASSUME StartInv, pc \in Keyed, pc' \in Keyed, UNCHANGED <<dbVars, keyVars, identity, exits>>
  PROVE  MigrationInv' /\ IdentityInv'
<1> USE DEF dbVars, keyVars
<1>1. MigrationInv'
  BY DEF StartInv, MigrationInv, Migrated, Keyed, Loaded, Entered, Secured
<1>2. KnownKeys' \subseteq KnownKeys
  BY DEF KnownKeys, Keying, Keyed, Loaded, Entered, Secured
<1> QED
  BY <1>1, <1>2, NoNewKey

\* From the loaded pins to the secret: the administrator's role is looked up and repaired.
LEMMA BootstrapStep ==
  ASSUME StartInv, IpfsLoaded \/ BootstrapDefaultAdmin \/ InviteAdmin \/ PromoteAdmin
  PROVE  StartInv'
<1> USE DEF IpfsLoaded, BootstrapDefaultAdmin, InviteAdmin, PromoteAdmin, dbVars, keyVars, hostVars, adminVars
<1>1. pc \in Keyed /\ pc' \in Keyed
  BY DEF Keyed, Loaded, Entered
<1>2. MigrationInv' /\ IdentityInv'
  BY <1>1, MoveOn
<1>3. adminRow' \in AdminRows
  <2>1. "member" \in Roles /\ "admin" \in Roles
    BY DEF Roles
  <2> QED
    BY <2>1, RowsOfRows DEF StartInv, StartTypes
<1>4. StartTypes'
  BY <1>1, <1>3 DEF StartInv, StartTypes, Phases, Migrated
<1>5. KeyInv'
  BY DEF StartInv, KeyInv, Keying, Keyed, Loaded, Entered, Secured
<1>6. AdminInv'
  <2>1. CASE BootstrapDefaultAdmin
    <3>1. CASE ~space \/ AdminRole \in {"owner", "admin"}
      BY <2>1, <3>1 DEF AdminInv, AdminRole
    <3>2. CASE space /\ AdminRole = "none"
      BY <2>1, <3>2 DEF AdminInv
    <3>3. CASE space /\ AdminRole \notin {"none", "owner", "admin"}
      <4>1. pc' = "promote" /\ space'
        BY <2>1, <3>3
      <4> QED
        BY <4>1 DEF AdminInv
    <3> QED
      BY <3>1, <3>2, <3>3 DEF StartInv, StartTypes
  <2>2. CASE PromoteAdmin
    BY <2>2 DEF AdminInv, AdminRole, Row
  <2>3. CASE IpfsLoaded \/ InviteAdmin
    BY <2>3 DEF StartInv, AdminInv
  <2> QED
    BY <2>1, <2>2, <2>3
<1> QED
  BY <1>2, <1>4, <1>5, <1>6 DEF StartInv

\* The secret, and the start of the listeners.
LEMMA ListenStep ==
  ASSUME StartInv, ResolveHTTPJWTSecret \/ StartNode \/ BecomeReady
  PROVE  StartInv'
<1> USE DEF ResolveHTTPJWTSecret, StartNode, BecomeReady, dbVars, keyVars, hostVars, adminVars
<1>1. pc \in Keyed /\ pc' \in Keyed
  BY DEF Keyed, Loaded, Entered, Secured
<1>2. MigrationInv' /\ IdentityInv'
  BY <1>1, MoveOn
<1>3. keyFile = identity
  BY <1>1 DEF StartInv, KeyInv
<1>4. StartTypes'
  BY <1>1, <1>3, Zenon DEF StartInv, StartTypes, Phases, Migrated
<1>5. KeyInv'
  BY <1>3 DEF StartInv, KeyInv, Keying, Keyed, Loaded, Entered, Secured
<1>6. AdminInv'
  BY DEF StartInv, AdminInv, AdminRole
<1> QED
  BY <1>2, <1>4, <1>5, <1>6 DEF StartInv

\* The process ends: what is durable stays as it is.
LEMMA GoneStep ==
  ASSUME StartInv, ProcessGone, UNCHANGED <<dbVars, keyVars, adminVars>>, exits' \in 0..MaxExits
  PROVE  StartInv'
<1> USE DEF ProcessGone, dbVars, keyVars, adminVars, NoKey
<1>1. StartTypes'
  BY StartupAssumption DEF StartInv, StartTypes, Phases
<1>2. MigrationInv' /\ KeyInv' /\ AdminInv'
  BY DEF StartInv, MigrationInv, KeyInv, AdminInv, Migrated, Keying, Keyed, Loaded, Entered, Secured
<1>3. KnownKeys' \subseteq KnownKeys
  BY DEF KnownKeys, Keying
<1>4. IdentityInv'
  BY <1>3, NoNewKey
<1> QED
  BY <1>1, <1>2, <1>4 DEF StartInv

\* Users change the membership only while the process serves.
LEMMA AdministrationStep ==
  ASSUME StartInv, Administration
  PROVE  StartInv'
<1> USE DEF Administration, SetAdminRow, CreateSpace, TransferOwnership, SetMemberRole, Join, Kick, Ban, Unban,
            dbVars, keyVars, hostVars
<1>1. Serving /\ UNCHANGED <<pc, dbVars, keyVars, hostVars, exits>> /\ space' \in BOOLEAN
  BY Zenon DEF StartInv, StartTypes
<1>2. pc \in Keyed /\ pc' \in Keyed
  BY <1>1 DEF Serving, Keyed, Loaded, Entered, Secured
<1>3. MigrationInv' /\ IdentityInv'
  BY <1>1, <1>2, MoveOn
<1>4. adminRow' \in AdminRows
  <2>1. Roles = {"none", "member", "admin", "owner"} /\ adminRow \in AdminRows
    BY DEF Roles, StartInv, StartTypes
  <2>2. CASE TransferOwnership
    <3>1. PICK role \in {"admin", "owner"} : adminRow' = [adminRow EXCEPT !.role = role]
      BY <2>2
    <3> QED
      BY <2>1, <3>1, RowsOfRows, Zenon
  <2>3. CASE \E role \in {"member", "admin"} : SetMemberRole(role)
    <3>1. PICK role \in {"member", "admin"} : adminRow' = [adminRow EXCEPT !.role = role]
      BY <2>3
    <3> QED
      BY <2>1, <3>1, RowsOfRows, Zenon
  <2>4. CASE CreateSpace \/ Join \/ Kick \/ Ban
    BY <2>1, <2>4, RowsOfRows, Zenon
  <2>5. CASE Unban
    BY <2>1, <2>5, RowsOfRows, Zenon
  <2> QED
    BY <2>2, <2>3, <2>4, <2>5, Zenon
<1>5. StartTypes'
  BY <1>1, <1>4 DEF StartInv, StartTypes
<1>6. KeyInv' /\ AdminInv'
  BY <1>1 DEF StartInv, KeyInv, AdminInv, Serving
<1> QED
  BY <1>3, <1>5, <1>6 DEF StartInv

\* A step that leaves Startup alone.
LEMMA StartupUnchanged ==
  ASSUME StartInv, UNCHANGED startupVars
  PROVE  StartInv'
BY DEF startupVars, dbVars, keyVars, hostVars, adminVars, StartInv, StartTypes, MigrationInv, KeyInv, AdminInv,
   AdminRole, IdentityInv, KnownKeys

-----------------------------------------------------------------------------
(***************************************************************************)
(* PinStore.                                                               *)
(***************************************************************************)

\* No pins, no file, no request.
LEMMA InitPins == Init => PinInv
<1> SUFFICES ASSUME Init PROVE PinInv
  OBVIOUS
<1> USE DEF Init, PinInit, StartupInit
<1>1. PinTypes
  BY PinStoreAssumption DEF PinTypes
<1>2. BusyInv
  BY DEF BusyInv, Busy, NoOp
<1>3. PromiseInv
  BY DEF PromiseInv, NoFile, Loaded, Entered, Secured
<1>4. PhaseInv
  BY DEF PhaseInv
<1> QED
  BY <1>1, <1>2, <1>3, <1>4 DEF PinInv

\* The process moves on, neither past LoadIpfs nor to its end.
LEMMA PinsWait ==
  ASSUME PinInv, UNCHANGED pinVars,
         pc' \in Loaded => pc \in Loaded, Serving => Serving', pc' # "down"
  PROVE  PinInv'
BY DEF pinVars, PinInv, PinTypes, BusyInv, Busy, PromiseInv, PhaseInv

\* A file that can be parsed, or none, becomes what is in memory.
LEMMA LoadPinsStep ==
  ASSUME PinInv, IpfsLoaded, LoadPins
  PROVE  PinInv'
<1> USE DEF IpfsLoaded, LoadPins
<1>1. pinFile.cids \in SUBSET Cids
  BY DEF PinInv, PinTypes, Whole, NoFile
<1>2. PinTypes'
  BY <1>1 DEF PinInv, PinTypes
<1>3. \A r \in PinRequests : pinOp[r] = NoOp
  BY DEF PinInv, PhaseInv, Serving
<1>4. BusyInv' /\ PhaseInv'
  BY <1>3 DEF BusyInv, Busy, NoOp, PhaseInv
<1>5. PromiseInv'
  BY DEF PinInv, PromiseInv
<1> QED
  BY <1>2, <1>4, <1>5 DEF PinInv

\* Memory and requests are gone, and the file keeps the promises.
LEMMA LosePinsStep ==
  ASSUME PinInv, ProcessGone, LosePins
  PROVE  PinInv'
<1> USE DEF ProcessGone, LosePins
<1>1. PinTypes'
  BY DEF PinInv, PinTypes
<1>2. BusyInv' /\ PhaseInv'
  BY DEF BusyInv, Busy, NoOp, PhaseInv
<1>3. PromiseInv'
  BY DEF PinInv, PromiseInv, Loaded, Entered, Secured
<1> QED
  BY <1>1, <1>2, <1>3 DEF PinInv

\* pins.json is never garbled, since it is only ever replaced by a whole file.
LEMMA NeverGarbled ==
  ASSUME PinInv
  PROVE  pinFile # Garbled
BY DEF PinInv, PinTypes, Whole, NoFile, Garbled

\* A request is one of Ops when it is doing something.
LEMMA OpTypes ==
  ASSUME PinInv, NEW r \in PinRequests, pinOp[r].pc # "idle"
  PROVE  /\ pinOp[r] \in Ops
         /\ \A step \in {"lock", "write", "rename"} : [pinOp[r] EXCEPT !.pc = step] \in Ops
<1>1. pinOp[r] \in Ops
  BY DEF PinInv, PinTypes, NoOp
<1> QED
  BY <1>1 DEF Ops

\* A request comes.
LEMMA PinRequestStep ==
  ASSUME PinInv, Serving, pc' = pc, NEW r \in PinRequests, NEW c \in Cids, NEW kind \in {"pin", "unpin"},
         PinRequest(r, kind, c)
  PROVE  PinInv'
<1> USE DEF PinRequest
<1>1. [pc |-> "lock", kind |-> kind, cid |-> c] \in Ops
  BY DEF Ops
<1>2. PinTypes'
  BY <1>1 DEF PinInv, PinTypes
<1>3. \A q \in PinRequests : Busy(q)' => Busy(q) /\ pinOp'[q] = pinOp[q]
  BY DEF PinInv, PinTypes, Busy
<1>4. BusyInv'
  BY <1>3 DEF PinInv, BusyInv
<1>5. PromiseInv' /\ PhaseInv'
  BY DEF PinInv, PromiseInv, PhaseInv, Serving
<1> QED
  BY <1>2, <1>4, <1>5 DEF PinInv

\* A request takes the mutex and changes memory; its CID is no longer promised anything.
LEMMA ChangePinsStep ==
  ASSUME PinInv, Serving, pc' = pc, NEW r \in PinRequests, ChangePins(r)
  PROVE  PinInv'
<1> DEFINE op == pinOp[r]
<1>1. /\ op.pc = "lock" /\ Unlocked
      /\ pins' = IF op.kind = "pin" THEN pins \cup {op.cid} ELSE pins \ {op.cid}
      /\ promise' = [promise EXCEPT ![op.cid] = "open"]
      /\ pinOp' = [pinOp EXCEPT ![r] = [op EXCEPT !.pc = "write"]]
      /\ UNCHANGED <<pinFile, pinFailures>>
  BY DEF ChangePins
<1>2. op \in Ops /\ [op EXCEPT !.pc = "write"] \in Ops /\ op.cid \in Cids
  BY <1>1, OpTypes, Zenon DEF Ops
<1>3. PinTypes'
  BY <1>1, <1>2 DEF PinInv, PinTypes
<1>4. \A q \in PinRequests : ~Busy(q)
  BY <1>1 DEF Unlocked, Busy
<1>5. pinOp'[r] = [op EXCEPT !.pc = "write"] /\ \A q \in PinRequests : q # r => pinOp'[q] = pinOp[q]
  BY <1>1 DEF PinInv, PinTypes
<1>6. \A q \in PinRequests : Busy(q)' => q = r
  BY <1>4, <1>5 DEF Busy
<1>7. pinOp'[r].kind = op.kind /\ pinOp'[r].cid = op.cid
  BY <1>2, <1>5 DEF Ops
<1>8. promise'[op.cid] = "open" /\ \A c \in Cids : c # op.cid => promise'[c] = promise[c]
  BY <1>1, <1>2 DEF PinInv, PinTypes
<1>9. BusyInv'
  BY <1>1, <1>6, <1>7, <1>8 DEF BusyInv
<1>10. PromiseInv'
  BY <1>1, <1>8 DEF PinInv, PromiseInv
<1>11. PhaseInv'
  BY DEF PhaseInv, Serving
<1> QED
  BY <1>3, <1>9, <1>10, <1>11 DEF PinInv

\* The temporary file is written.
LEMMA WriteTmpStep ==
  ASSUME PinInv, Serving, pc' = pc, NEW r \in PinRequests, WriteTmp(r)
  PROVE  PinInv'
<1>1. /\ pinOp[r].pc = "write"
      /\ pinOp' = [pinOp EXCEPT ![r] = [pinOp[r] EXCEPT !.pc = "rename"]]
      /\ UNCHANGED <<pins, pinFile, promise, pinFailures>>
  BY DEF WriteTmp
<1>2. pinOp[r] \in Ops /\ [pinOp[r] EXCEPT !.pc = "rename"] \in Ops
  BY <1>1, OpTypes, Zenon
<1>3. PinTypes'
  BY <1>1, <1>2 DEF PinInv, PinTypes
<1>4. \A q \in PinRequests : Busy(q)' => Busy(q) /\ pinOp'[q].cid = pinOp[q].cid /\ pinOp'[q].kind = pinOp[q].kind
  BY <1>1, <1>2 DEF PinInv, PinTypes, Busy, Ops
<1>5. BusyInv'
  BY <1>1, <1>4 DEF PinInv, BusyInv
<1>6. PromiseInv' /\ PhaseInv'
  BY <1>1 DEF PinInv, PromiseInv, PhaseInv, Serving
<1> QED
  BY <1>3, <1>5, <1>6 DEF PinInv

\* A request gives up the mutex.
LEMMA RequestEnds ==
  ASSUME PinInv, NEW r \in PinRequests, Busy(r), pinOp' = [pinOp EXCEPT ![r] = NoOp]
  PROVE  /\ \A q \in PinRequests : ~Busy(q)'
         /\ pinOp' \in [PinRequests -> Ops \cup {NoOp}]
<1>1. pinOp'[r] = NoOp /\ \A q \in PinRequests : q # r => pinOp'[q] = pinOp[q]
  BY DEF PinInv, PinTypes
<1>2. \A q \in PinRequests : q # r => ~Busy(q)
  BY DEF PinInv, BusyInv
<1> QED
  BY <1>1, <1>2 DEF Busy, NoOp, PinInv, PinTypes

\* The file becomes what is in memory, which for every other CID is what was promised.
LEMMA RenameTmpStep ==
  ASSUME PinInv, Serving, pc' = pc, NEW r \in PinRequests, RenameTmp(r)
  PROVE  PinInv'
<1> DEFINE op == pinOp[r]
<1>1. /\ op.pc = "rename"
      /\ pinFile' = Whole(pins)
      /\ promise' = [promise EXCEPT ![op.cid] = IF op.kind = "pin" THEN "pinned" ELSE "unpinned"]
      /\ pinOp' = [pinOp EXCEPT ![r] = NoOp]
      /\ UNCHANGED <<pins, pinFailures>>
  BY DEF RenameTmp
<1>2. op.cid \in Cids /\ Busy(r)
  BY <1>1, OpTypes, Zenon DEF Ops, Busy
<1>3. (\A q \in PinRequests : ~Busy(q)') /\ pinOp' \in [PinRequests -> Ops \cup {NoOp}]
  BY <1>1, <1>2, RequestEnds, Zenon
<1>4. PinTypes'
  BY <1>1, <1>3, Zenon DEF PinInv, PinTypes
<1>5. BusyInv' /\ PhaseInv'
  BY <1>3 DEF BusyInv, PhaseInv, Serving
<1>6. pc \in Loaded /\ pinFile'.cids = pins
  BY <1>1 DEF Serving, Loaded, Entered, Secured, Whole
<1>7. op.kind = "pin" <=> op.cid \in pins
  BY <1>2 DEF PinInv, BusyInv
<1>8. PromiseInv'
  <2> SUFFICES ASSUME NEW c \in Cids
               PROVE  /\ promise'[c] = "pinned" => c \in pins
                      /\ promise'[c] = "unpinned" => c \notin pins
    BY <1>1, <1>6 DEF PromiseInv
  <2>1. CASE c = op.cid
    BY <1>1, <1>7, <2>1 DEF PinInv, PinTypes
  <2>2. CASE c # op.cid
    BY <1>1, <1>6, <2>2 DEF PinInv, PinTypes, PromiseInv
  <2> QED
    BY <2>1, <2>2
<1> QED
  BY <1>4, <1>5, <1>8 DEF PinInv

\* The write or the rename fails: memory stays changed, and nothing is promised.
LEMMA PersistFailsStep ==
  ASSUME PinInv, Serving, pc' = pc, NEW r \in PinRequests, PersistFails(r)
  PROVE  PinInv'
<1> USE DEF PersistFails
<1>1. (\A q \in PinRequests : ~Busy(q)') /\ pinOp' \in [PinRequests -> Ops \cup {NoOp}]
  BY RequestEnds, Zenon DEF Busy
<1>2. PinTypes'
  BY <1>1, PinStoreAssumption DEF PinInv, PinTypes
<1>3. BusyInv' /\ PhaseInv'
  BY <1>1 DEF BusyInv, PhaseInv, Serving
<1>4. PromiseInv'
  BY DEF PinInv, PromiseInv
<1> QED
  BY <1>2, <1>3, <1>4 DEF PinInv

-----------------------------------------------------------------------------
(***************************************************************************)
(* Both together.                                                          *)
(***************************************************************************)

IInv == StartInv /\ PinInv

\* The steps of Start: pins wait, are loaded, or go with the process.
LEMMA StartKeeps ==
  ASSUME IInv, Start
  PROVE  IInv'
<1>1. CASE StartStep /\ UNCHANGED pinVars
  <2>1. StartInv'
    BY <1>1, MigrationStep, LoadKeyStep, GenerateKeyStep, WriteKeyStep, UpsertNodeStep, BootstrapStep, ListenStep
       DEF IInv, StartStep, NewNode
  <2>2. (pc' \in Loaded => pc \in Loaded) /\ (Serving => Serving') /\ pc' # "down"
    BY <1>1 DEF StartStep, Launch, OpenDatabase, RunMigrations, ApplyMigration, RecordMigration, MigrationsDone,
       NewNode, LoadKey, GenerateKey, OpenKeyFile, WriteKey, UpsertNode, BootstrapDefaultAdmin, InviteAdmin,
       PromoteAdmin, ResolveHTTPJWTSecret, StartNode, BecomeReady, Serving, Loaded, Entered, Secured
  <2>3. PinInv'
    BY <1>1, <2>2, PinsWait DEF IInv
  <2> QED
    BY <2>1, <2>3 DEF IInv
<1>2. CASE LoadIpfs
  <2>1. IpfsLoaded /\ LoadPins
    BY <1>2, NeverGarbled DEF LoadIpfs, IInv
  <2> QED
    BY <2>1, BootstrapStep, LoadPinsStep DEF IInv
<1>3. CASE StartRejected /\ LosePins
  <2>1. StartInv'
    BY <1>3, GoneStep DEF StartRejected, IInv, StartInv, StartTypes
  <2> QED
    BY <1>3, <2>1, LosePinsStep DEF StartRejected, IInv
<1> QED
  BY <1>1, <1>2, <1>3 DEF Start

\* The end of the process.
LEMMA StopKeeps ==
  ASSUME IInv, Stop
  PROVE  IInv'
<1>1. exits' \in 0..MaxExits
  BY StartupAssumption DEF Stop, Exit, IInv, StartInv, StartTypes
<1>2. StartInv'
  BY <1>1, GoneStep DEF Stop, Exit, IInv
<1> QED
  BY <1>2, LosePinsStep DEF Stop, Exit, IInv

\* What users do to the default space leaves the pins alone.
LEMMA UsersKeep ==
  ASSUME IInv, Users
  PROVE  IInv'
<1>1. StartInv'
  BY AdministrationStep DEF Users, IInv
<1>2. Serving /\ pc' = pc
  BY DEF Users, Administration, SetAdminRow, CreateSpace, TransferOwnership, SetMemberRole, Join, Kick, Ban, Unban
<1>3. (pc' \in Loaded => pc \in Loaded) /\ (Serving => Serving') /\ pc' # "down"
  BY <1>2 DEF Serving
<1>4. PinInv'
  BY <1>3, PinsWait DEF Users, IInv
<1> QED
  BY <1>1, <1>4 DEF IInv

\* What is repaired by hand leaves the pins alone.
LEMMA OperatorKeeps ==
  ASSUME IInv, Operator
  PROVE  IInv'
<1>1. StartInv'
  BY RepairStep DEF Operator, IInv
<1>2. PinInv'
  BY DEF Operator, RepairByHand, pinVars, IInv, PinInv, PinTypes, BusyInv, Busy, PromiseInv, PhaseInv, Serving
<1> QED
  BY <1>1, <1>2 DEF IInv

\* Requests about pins leave the rest alone.
LEMMA IpfsKeeps ==
  ASSUME IInv, Ipfs
  PROVE  IInv'
<1>1. StartInv'
  BY StartupUnchanged DEF Ipfs, IInv
<1>2. PICK r \in PinRequests : PinStep(r)
  BY DEF Ipfs
<1>3. Serving /\ pc' = pc
  BY DEF Ipfs, startupVars
<1>4. CASE \E c \in Cids : HandleIPFSAdd(r, c) \/ HandleIPFSPin(r, c)
  <2>1. PICK c \in Cids, kind \in {"pin", "unpin"} : PinRequest(r, kind, c)
    BY <1>4 DEF HandleIPFSAdd, HandleIPFSPin, AddFile, Pin, Unpin
  <2>2. PinInv'
    BY <1>3, <2>1, PinRequestStep DEF IInv
  <2> QED
    BY <1>1, <2>2 DEF IInv
<1>5. CASE ChangePins(r) \/ WriteTmp(r) \/ RenameTmp(r) \/ PersistFails(r)
  BY <1>1, <1>3, <1>5, ChangePinsStep, WriteTmpStep, RenameTmpStep, PersistFailsStep DEF IInv
<1> QED
  BY <1>2, <1>4, <1>5 DEF PinStep

\* IInv is inductive, and the properties of the runs follow from it.
LEMMA NextIInv == IInv /\ [Next]_vars => IInv'
<1> SUFFICES ASSUME IInv, [Next]_vars PROVE IInv'
  OBVIOUS
<1>1. CASE Next
  BY <1>1, StartKeeps, StopKeeps, UsersKeep, OperatorKeeps, IpfsKeeps DEF Next
<1>2. CASE UNCHANGED vars
  <2>1. UNCHANGED startupVars /\ UNCHANGED pinVars
    BY <1>2 DEF vars
  <2>2. StartInv'
    BY <2>1, StartupUnchanged, Zenon DEF IInv
  <2>3. PinInv'
    BY <2>1 DEF startupVars, pinVars, IInv, PinInv, PinTypes, BusyInv, Busy, PromiseInv, PhaseInv, Serving
  <2> QED
    BY <2>2, <2>3 DEF IInv
<1> QED
  BY <1>1, <1>2

\* The inductive invariant holds throughout.
THEOREM Invariance == Spec => []IInv
<1>1. Init => IInv
  BY InitStart, InitPins DEF Init, IInv
<1> QED
  BY <1>1, NextIInv, PTL DEF Spec

\* The files, the tables and the memory of a process stay well formed, and without a
\* process there is no host, no secret, no pin in memory and no request.
THEOREM TypeCorrect == Spec => []TypeOK
<1>1. ASSUME IInv PROVE TypeOK
  <2>1. lostKeys \in 0..MaxKeys
    BY <1>1, StartupAssumption DEF IInv, StartInv, StartTypes
  <2>2. pinFile \in Files
    BY <1>1 DEF IInv, PinInv, PinTypes, Files, Whole, NoFile
  <2>3. pc = "down" =>
          identity = NoKey /\ secret = NoKey /\ pins = {} /\ \A r \in PinRequests : pinOp[r] = NoOp
    BY <1>1 DEF IInv, StartInv, KeyInv, PinInv, PhaseInv, Serving
  <2> QED
    BY <1>1, <2>1, <2>2, <2>3 DEF IInv, StartInv, StartTypes, AdminRows, Roles, PinInv, PinTypes, TypeOK
<1> QED
  BY <1>1, Invariance, PTL

\* A process serves only with its schema complete, under the key that the next one will
\* load, and with the default administrator in place, wherever earlier processes ended.
THEOREM ServesPreparedHolds == Spec => []ServesPrepared
<1>1. IInv => ServesPrepared
  <2> SUFFICES ASSUME IInv PROVE ServesPrepared
    OBVIOUS
  <2>1. Serving => recorded = MigrationCount /\ ~halfDone
    BY StartupAssumption DEF IInv, StartInv, StartTypes, MigrationInv, Serving, Migrated, Keyed, Loaded, Entered, Secured
  <2>2. Serving => keyFile = identity /\ secret = identity /\ identity \in nodeRows
    BY DEF IInv, StartInv, KeyInv, Serving, Keyed, Loaded, Entered, Secured
  <2>3. pc = "start" /\ space => AdminRole \in {"admin", "owner"}
    BY DEF IInv, StartInv, AdminInv
  <2> QED
    BY <2>1, <2>2, <2>3 DEF ServesPrepared
<1> QED
  BY <1>1, Invariance, PTL

\* The server has one peer id, and one more for each key file that could not be read.
THEOREM OneIdentityHolds == Spec => []OneIdentity
<1>1. IInv => OneIdentity
  <2> SUFFICES ASSUME IInv PROVE OneIdentity
    OBVIOUS
  <2>1. nodeRows \in SUBSET KnownKeys
    BY DEF KnownKeys
  <2> QED
    BY <2>1, KnownFinite DEF IInv, OneIdentity
<1> QED
  BY <1>1, Invariance, PTL

\* Answers about pins hold in memory and in pins.json, for any number of requests, failed
\* writes and restarts.
THEOREM PinsKeptHolds == Spec => []PinsKept
<1>1. IInv => PinsKept
  BY DEF IInv, PinInv, PromiseInv, PinsKept, Serving, Loaded, Entered, Secured
<1> QED
  BY <1>1, Invariance, PTL

\* The safety half of ComesBack: whatever Start refuses again and again is one of the four
\* states of Wedged.  In particular pins.json can always be parsed.
THEOREM OnlyWedgedIsRejected == Spec => [](pinFile # Garbled /\ (Rejected => Wedged))
<1>1. IInv => pinFile # Garbled /\ (Rejected => Wedged)
  <2> SUFFICES ASSUME IInv PROVE pinFile # Garbled /\ (Rejected => Wedged)
    OBVIOUS
  <2>1. pinFile # Garbled
    BY NeverGarbled DEF IInv
  <2>2. Rejected => Wedged
    BY DEF IInv, StartInv, AdminInv, Rejected, Wedged, CanApply
  <2> QED
    BY <2>1, <2>2
<1> QED
  BY <1>1, Invariance, PTL

=============================================================================
