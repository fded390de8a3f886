------------------------------- MODULE Startup -------------------------------
(***************************************************************************)
(* The life of the server process: App.Start, which is a sequence of steps *)
(* on the database and on the key file, and its end at any of them.  What  *)
(* a process has written stays, and the next one starts from it (the       *)
(* container is restarted unless it is stopped by hand).                   *)
(*                                                                         *)
(* Any error that Start returns ends the process (log.Fatalf), so a        *)
(* statement that fails, a port in use and a crash are one action, Exit.   *)
(* A default administrator is configured, and no HTTP JWT secret is.       *)
(***************************************************************************)
EXTENDS Integers, FiniteSets

CONSTANTS
    MigrationCount,  \* the .up.sql files are 1..MigrationCount, in their order
    Repeatable,      \* those made of CREATE TABLE IF NOT EXISTS only; the others add columns
    Malformed,       \* those that MySQL does not parse: 0011, whose KEY lacks an ADD
    MaxExits,        \* bound: processes that end before they are asked to, or are
    MaxKeys          \* bound: keys generated

ASSUME StartupAssumption ==
    /\ MigrationCount \in Nat
    /\ Repeatable \subseteq 1..MigrationCount
    /\ Malformed \subseteq 1..MigrationCount
    /\ MaxExits \in Nat /\ MaxKeys \in Nat
    /\ MaxKeys > MaxExits  \* no process lacks a key for the bound's sake

VARIABLES
    pc,          \* how far the process has come, "down" if there is none
    recorded,    \* schema_migrations holds the files 1..recorded
    halfDone,    \* whether statements of the next file have taken effect
    keyFile,     \* the node key file: NoKey, ShortKey or the key it holds
    keys,        \* number of keys generated so far
    lostKeys,    \* number of keys replaced because ReadFile failed
    identity,    \* the key of the running host, or NoKey
    secret,      \* the key that the HTTP JWT secret is a digest of, or NoKey
    nodeRows,    \* the keys whose peer id has a row in nodes
    space,       \* whether the default space exists
    adminRow,    \* the default administrator's row in server_members, or NoRow
    exits        \* number of processes that have ended so far

dbVars == <<recorded, halfDone, nodeRows>>
keyVars == <<keyFile, keys, lostKeys>>
hostVars == <<identity, secret>>
adminVars == <<space, adminRow>>
startupVars == <<pc, dbVars, keyVars, hostVars, adminVars, exits>>

NoKey == 0
ShortKey == -1
NoRow == [role |-> "none", banned |-> FALSE]
Row(role) == [role |-> role, banned |-> FALSE]

\* Streams are served from node.Start on, HTTP a moment later.
Serving == pc \in {"listening", "ready"}

-----------------------------------------------------------------------------
(***************************************************************************)
(* db.Open and db.RunMigrations.                                           *)
(***************************************************************************)

\* main, New, and ensureDirs.
Launch ==
    /\ pc = "down"
    /\ pc' = "open"
    /\ UNCHANGED <<dbVars, keyVars, hostVars, adminVars, exits>>

\* Open pings until MySQL answers.  (Past the deadline it gives up: Exit.)
OpenDatabase ==
    /\ pc = "open"
    /\ pc' = "migrate"
    /\ UNCHANGED <<dbVars, keyVars, hostVars, adminVars, exits>>

CanApply(file) == file \notin Malformed /\ (~halfDone \/ file \in Repeatable)

\* Mutant: the loop goes one file too far.
ApplyMigrationPastEnd ==
    /\ pc = "migrate" /\ recorded <= MigrationCount
    /\ CanApply(recorded + 1)
    /\ halfDone' = TRUE
    /\ pc' = "record"
    /\ UNCHANGED <<recorded, nodeRows, keyVars, hostVars, adminVars, exits>>

\* DDL commits implicitly: a rollback no longer undoes what the file has done.
ApplyMigration ==
    /\ pc = "migrate" /\ recorded < MigrationCount
    /\ CanApply(recorded + 1)
    /\ halfDone' = TRUE
    /\ pc' = "record"
    /\ UNCHANGED <<recorded, nodeRows, keyVars, hostVars, adminVars, exits>>

RecordMigration ==
    /\ pc = "record"
    /\ recorded' = recorded + 1
    /\ halfDone' = FALSE
    /\ pc' = "migrate"
    /\ UNCHANGED <<nodeRows, keyVars, hostVars, adminVars, exits>>

MigrationsDone ==
    /\ pc = "migrate" /\ recorded = MigrationCount
    /\ pc' = "identity"
    /\ UNCHANGED <<dbVars, keyVars, hostVars, adminVars, exits>>

RunMigrations == ApplyMigration \/ RecordMigration \/ MigrationsDone

\* The only way past a file that MySQL does not parse: while no process runs, somebody
\* gives the statement as it was meant and records the file.
RepairByHand ==
    /\ pc = "down" /\ recorded + 1 \in Malformed
    /\ recorded' = recorded + 1
    /\ UNCHANGED <<pc, halfDone, nodeRows, keyVars, hostVars, adminVars, exits>>

-----------------------------------------------------------------------------
(***************************************************************************)
(* LoadOrCreateIdentity.                                                   *)
(***************************************************************************)

LoadKey ==
    /\ pc = "identity" /\ keyFile \notin {NoKey, ShortKey}
    /\ identity' = keyFile
    /\ pc' = "ipfs"
    /\ UNCHANGED <<dbVars, keyVars, secret, adminVars, exits>>

\* There is no file, or ReadFile fails for another reason: the code does not ask which.
GenerateKey ==
    /\ pc = "identity" /\ keys < MaxKeys
    /\ keys' = keys + 1
    /\ identity' = keys + 1
    /\ lostKeys' = IF keyFile = NoKey THEN lostKeys ELSE lostKeys + 1
    /\ pc' = "openKey"
    /\ UNCHANGED <<dbVars, keyFile, secret, adminVars, exits>>

\* os.WriteFile creates or truncates the file.
OpenKeyFile ==
    /\ pc = "openKey"
    /\ keyFile' = ShortKey
    /\ pc' = "writeKey"
    /\ UNCHANGED <<dbVars, keys, lostKeys, hostVars, adminVars, exits>>

\* Mutant: the key is used without being kept.
WriteKeyNowhere ==
    /\ pc = "writeKey"
    /\ keyFile' = NoKey
    /\ pc' = "ipfs"
    /\ UNCHANGED <<dbVars, keys, lostKeys, hostVars, adminVars, exits>>

WriteKey ==
    /\ pc = "writeKey"
    /\ keyFile' = identity
    /\ pc' = "ipfs"
    /\ UNCHANGED <<dbVars, keys, lostKeys, hostVars, adminVars, exits>>

\* The identity; what else is made of it (listeners, relay, DHT) lives in memory.
NewNode == LoadKey \/ GenerateKey \/ OpenKeyFile \/ WriteKey

-----------------------------------------------------------------------------
(***************************************************************************)
(* What Start does with the database once the host exists, up to serving.  *)
(***************************************************************************)

\* NewEmbeddedIPFS has loaded what it keeps (PinStore).
IpfsLoaded ==
    /\ pc = "ipfs"
    /\ pc' = "node"
    /\ UNCHANGED <<dbVars, keyVars, hostVars, adminVars, exits>>

UpsertNode ==
    /\ pc = "node"
    /\ nodeRows' = nodeRows \cup {identity}
    /\ pc' = "admin"
    /\ UNCHANGED <<recorded, halfDone, keyVars, hostVars, adminVars, exits>>

\* GetMemberRole does not see the row of a banned user.
AdminRole == IF adminRow.banned THEN "none" ELSE adminRow.role

\* Mutant: membership is all that is asked for.
BootstrapDefaultAdminMember ==
    /\ pc = "admin"
    /\ pc' = IF ~space \/ AdminRole # "none" THEN "secret" ELSE "invite"
    /\ UNCHANGED <<dbVars, keyVars, hostVars, adminVars, exits>>

\* The user's row, GetBySpaceID, and GetMemberRole in ensureAdminMembership.
BootstrapDefaultAdmin ==
    /\ pc = "admin"
    /\ pc' = CASE ~space \/ AdminRole \in {"owner", "admin"} -> "secret"
               [] space /\ AdminRole = "none" -> "invite"
               [] OTHER -> "promote"
    /\ UNCHANGED <<dbVars, keyVars, hostVars, adminVars, exits>>

\* A transaction of its own: the process may end before the role is set.
InviteAdmin ==
    /\ pc = "invite" /\ ~adminRow.banned
    /\ adminRow' = Row("member")
    /\ pc' = "promote"
    /\ UNCHANGED <<dbVars, keyVars, hostVars, space, exits>>

PromoteAdmin ==
    /\ pc = "promote"
    /\ adminRow' = Row("admin")
    /\ pc' = "secret"
    /\ UNCHANGED <<dbVars, keyVars, hostVars, space, exits>>

\* The secret is a digest of the key file, which is read again.
ResolveHTTPJWTSecret ==
    /\ pc = "secret"
    /\ secret' = keyFile
    /\ pc' = "start"
    /\ UNCHANGED <<dbVars, keyVars, identity, adminVars, exits>>

\* SetSessionHandler and node.Start.
StartNode ==
    /\ pc = "start"
    /\ pc' = "listening"
    /\ UNCHANGED <<dbVars, keyVars, hostVars, adminVars, exits>>

\* ListenAndServe has not failed for 200 ms.
BecomeReady ==
    /\ pc = "listening"
    /\ pc' = "ready"
    /\ UNCHANGED <<dbVars, keyVars, hostVars, adminVars, exits>>

-----------------------------------------------------------------------------
(***************************************************************************)
(* The end of the process.                                                 *)
(***************************************************************************)

ProcessGone == pc' = "down" /\ identity' = NoKey /\ secret' = NoKey

\* Start returns an error for what it finds, again and again if nothing changes it.
Rejected ==
    \/ pc = "migrate" /\ recorded < MigrationCount /\ ~CanApply(recorded + 1)
    \/ pc = "identity" /\ keyFile = ShortKey
    \/ pc = "invite" /\ adminRow.banned

StartRejected ==
    /\ Rejected
    /\ ProcessGone
    /\ UNCHANGED <<dbVars, keyVars, adminVars, exits>>

\* A signal, a crash, or an error of a call that may succeed the next time.  The calls of
\* Shutdown write nothing.
Exit ==
    /\ pc # "down" /\ exits < MaxExits
    /\ exits' = exits + 1
    /\ ProcessGone
    /\ UNCHANGED <<dbVars, keyVars, adminVars>>

-----------------------------------------------------------------------------
(***************************************************************************)
(* What users of a serving process do to the default space and to the      *)
(* default administrator's membership (Spaces has the whole of it).        *)
(***************************************************************************)

SetAdminRow(row) ==
    /\ Serving /\ space
    /\ adminRow' = row
    /\ UNCHANGED <<pc, dbVars, keyVars, hostVars, space, exits>>

\* Only the default administrator may create spaces.
CreateSpace ==
    /\ Serving /\ ~space
    /\ space' = TRUE
    /\ adminRow' = Row("owner")
    /\ UNCHANGED <<pc, dbVars, keyVars, hostVars, exits>>

\* Ownership passes to another member, or back.
TransferOwnership ==
    /\ adminRow # NoRow
    /\ SetAdminRow([adminRow EXCEPT !.role = IF @ = "owner" THEN "admin" ELSE "owner"])

SetMemberRole(role) ==
    /\ adminRow.role \notin {"none", "owner"}
    /\ SetAdminRow([adminRow EXCEPT !.role = role])

Join ==
    /\ adminRow = NoRow
    /\ SetAdminRow(Row("member"))

Kick ==
    /\ adminRow.role \notin {"none", "owner"} /\ ~adminRow.banned
    /\ SetAdminRow(NoRow)

Ban ==
    /\ adminRow.role # "owner" /\ ~adminRow.banned
    /\ SetAdminRow([role |-> "member", banned |-> TRUE])

Unban ==
    /\ adminRow.role # "owner" /\ adminRow.banned
    /\ SetAdminRow([adminRow EXCEPT !.banned = FALSE])

-----------------------------------------------------------------------------
StartupInit ==
    /\ pc = "down" /\ recorded = 0 /\ halfDone = FALSE
    /\ keyFile = NoKey /\ keys = 0 /\ lostKeys = 0
    /\ identity = NoKey /\ secret = NoKey /\ nodeRows = {}
    /\ space = FALSE /\ adminRow = NoRow
    /\ exits = 0

\* Start, but for IpfsLoaded and StartRejected.
StartStep ==
    \/ Launch \/ OpenDatabase \/ RunMigrations \/ NewNode
    \/ UpsertNode \/ BootstrapDefaultAdmin \/ InviteAdmin \/ PromoteAdmin
    \/ ResolveHTTPJWTSecret \/ StartNode \/ BecomeReady

Administration ==
    \/ CreateSpace \/ TransferOwnership \/ Join \/ Kick \/ Ban \/ Unban
    \/ \E role \in {"member", "admin"} : SetMemberRole(role)

=============================================================================
