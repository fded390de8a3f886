# A TLA+ model of meshserver

meshserver is a community chat server. A node serves clients over libp2p streams (one goroutine per stream, protobuf requests) and over HTTP and WebSocket (JSON). It keeps everything durable in MySQL and files in a content-addressed directory. This directory holds TLA+ modules translated from the Go code, TLC configurations that check them on small instances, and TLAPS proofs for every value of the constants.

## The system and what is modelled

| Part | Code | Module | State |
|---|---|---|---|
| Spaces: membership, roles, bans, channel creation | `repository/mysql/server.go`, `channel.go`, `bootstrap.go`, `session/manager.go`, `manager_v1_rest.go` | `Spaces` | modelled, proved |
| Channel messages: send, dedup, seq, expiry, sync | `repository/mysql/message.go`, `service/messaging.go`, `app/app.go` | `ChannelMessages`, abstract `MessageLog` | modelled, proved |
| Direct chat | `service/direct_chat.go`, `repository/mysql/direct_chat.go` | `DirectChat`, abstract `MessageLog` | modelled, proved |
| Realtime delivery: subscriptions, fan-out, WebSockets | `session/manager.go`, `realtime.go`, `api/ws.go` | `Delivery` | modelled, proved |
| Authentication: challenge, nonce, proof, user upsert, tokens, the registry of direct sessions | `auth/service.go`, `repository/mysql/read_and_auth.go`, `user.go`, `session/manager.go`, `api/auth_http.go`, `jwt.go` | `Sessions` | modelled, proved |
| Read and delivery cursors | `repository/mysql/read_and_auth.go`, `service/messaging.go`, `api/v1_http_rest.go` | `Sessions` | modelled, proved |
| Media and blobs: file, row, reference count | `media/`, `storage/`, `repository/mysql/blob.go` | `Blobs` | modelled, proved |
| Start-up, migrations, node key, the default administrator | `cmd/meshserver`, `app/app.go`, `db/`, `libp2p/node.go`, `default_admin_bootstrap.go` | `Startup`, composed in `Server` | modelled, proved |
| IPFS pins | `ipfspin/pin.go`, `ipfsnode/node.go`, `api/ipfs_http.go` | `PinStore`, composed in `Server` | modelled, proved |
| Lists and directory queries | `service/directory.go` | | not modelled: they change nothing |
| HTTP routing and decoding, wire framing, conversions, generated code | `api/`, `protocol/`, `session/convert.go`, `gen/` | | not modelled: data only; what the handlers pass on is in the modules |
| The rest of the libp2p host and of the IPFS node | `libp2p/`, `ipfs*/` | | not modelled: calls into libraries |
| Configuration, logging, the `peerid` command, examples | `config/`, `logx/`, `cmd/peerid`, `examples/` | | not modelled |

How the parts meet: a handler in `session` authenticates, checks the caller's role with a plain SELECT, calls a repository method that runs one MySQL transaction under the row lock of the Space, channel or conversation, writes the answer, and hands the message to the subscribers. `Spaces`, `ChannelMessages` and `DirectChat` model the path down to the commit. `Blobs` models what comes before it, the upload, and the part of the message transaction that counts references. `Delivery` takes over behind it: there, storing a message is one step. That is what `ChannelMessages` shows by implementing `MessageLog`, in which a send is one atomic append. `DirectChat` implements the same log. `Sessions` comes before all of them: it says whose user a handler acts for and which streams direct messages are pushed to. `Server` is underneath: it says what a process finds when it starts, and the other modules begin with one that serves.

`PROJECT.json` maps every definition to the lines it translates and lists the hazards with the properties that guard them.

## Conventions

- An action is what a goroutine does between two points where another one can get in. A transaction that holds the row lock from its first statement to its end is one step; where a plain SELECT, a reload or the write of an answer comes before or after, it is a step of its own.
- InnoDB is external: `SELECT ... FOR UPDATE` waits for the row lock, plain SELECTs read committed rows, a rollback undoes everything, a crash rolls back.
- A process end (`Restart`, `ProcessEnds`) loses goroutines, connections and open transactions and keeps the tables.
- Names, texts and identifiers are model values. Deadlock is checked in every run.
- An operator whose comment starts with "Mutant:" is a wrong variant of the definition after it. No specification uses it. Replacing the definition by it must break the property named for it in `PROJECT.json`, which shows that the property can fail.

## Spaces

State: the `servers` row (`space`), the `server_members` rows by user (`members`), the number of channels, who holds the row lock, and what each request slot is doing. Each handler is an action for libp2p (`Stream...`) and one for HTTP (`...ForAPI`). It reads the role and records the call. Each repository method is an action that needs the row lock (`AddSpaceMember`, `KickSpaceMember`, `BanSpaceMember`, `UnbanSpaceMember`, `SetSpaceMemberRole`, `SetSpaceAllowChannelCreation`, `CreateChannel`).

The methods roll back in a deferred function only when `err` is set. Several rejections return a fresh error instead. `Abandon` models that: the transaction stays open and keeps the lock. Under a stream (`context.Background()`) it stays until the process ends; under HTTP until the request's context ends.

Run `spaces` (three users, one of them the site admin, one stream and one HTTP request in flight, roles owner and member to be asked for, one channel; about a million states):

- `OneOwner`: exactly one member is owner, and it is the one `owner_user_id` names.
- `CountsExact`: the counters equal a recount.
- `BanSticks`: only `UnbanSpaceMember` lifts a ban.
- `CreatorIsManagerAtInsert`: a channel is inserted only for an active owner or admin.
- `CreationIsAsShown`: whenever `CreateChannel` gets the row and decides, it creates exactly if `GET_CREATE_GROUP_PERMISSIONS` would say so in that state and, to an owner or admin, the flag of the Space summary would. These are three pieces of code, each with a special case for the site admin.
- `TypeOK` has, besides the types, that a slot holds the row between two steps exactly when it is an HTTP request that was rejected without a rollback and has not returned: there the lock ends with the request.

Two slots are enough for every race between a role check and a transaction; a third user is needed for transfers of ownership that cross.

Statements that do not hold:

- `spaces_banned_owner`: ownership can be given to a banned member.
- `spaces_invite`: after an abandoned transaction, inviting a member fails instead of succeeding idempotently.

Visible in the action `UnbanSpaceMember` and not the subject of a run: clearing `is_banned` makes the user an active member at once, whereas `docs/ai-libp2p-client-guide.md:441` says that lifting a ban is not rejoining.

## ChannelMessages and MessageLog

State: the `channels` row, the `messages` rows, which of them are deleted, a clock in seconds, the row lock, where each session's `SendMessage` and each cleanup is, and what readers and senders were given. A send is `ValidateMessage`, `LockAndLookup`, `InsertAndCommit`, `AckMessage`, with `AbortCreate` and `ReplyFails`. A cleanup selects rows with a plain SELECT (`SelectExpired`) and marks them later (`MarkDeleted`). The loop and the admin handler can both be at it. `SyncChannel` reads pages.

Run `messages` (`FairSpec`, two sessions of one user, two client ids, the loop and one admin, clock up to 2, slow mode of one second, page limits 0 to 3 around a maximum of 2, batches of 1; 100 thousand states):

- `SeqsAndIdsUnique`, `CountExact`, `AckedIsStored`, `SyncNeverSkips`.
- `TypeOK` has, besides the types, that rows marked deleted exist and that no reader was given a `next_after_seq` past `message_seq`.
- `ExpiredIsDeleted` and `EveryMessageIsSynced`, the liveness properties.
- `ImplementsLog`: refinement of `MessageLog` with `length <- channel.seq`, `log <- msgs` without times, `expired <- deleted`.

`MessageLog` has a constant `Hidden`, the senders whose messages a reader is not given. It is empty for every reader of a channel; in a conversation each user is the reader, and its own messages are hidden from it.

The two sessions can both pass the slow-mode check before either has stored its message, so two messages of one second can expire together, one more than a batch takes. The fairness assumed: from some point on the process runs and the loop's transactions do not fail; a transaction that holds the lock ends; the loop's ticker fires (`app.go`); the loop's update gets the lock some time (strong fairness: InnoDB serves waiters in turn); readers keep polling. Nothing is assumed about senders finishing their retries.

## DirectChat

State: the conversation row, the pairs of users that have one (`pairs`), the messages, which are acknowledged, the row lock, where each session's request is, and what was told and pushed. `SendDirectMessage` looks for the client id twice: outside the transaction (`LookupDuplicate`, no event for a duplicate) and inside (`LockConversation`, which treats a duplicate as a new message). A conversation is looked up by the pair of its users, the lower id first (`NormalizeUserPair`; `UserLow` is the user with the lower id). The insert of a conversation that both users open fails on its unique key or as the victim of a deadlock.

Run `direct_chat` (one user with two sessions, one with one, two client ids each, `MaxSeq` 2, symmetry over the client ids and over the two sessions; 980 thousand states):

- `OneConversation`: whoever opens it, and however many at once, the two users have one conversation.
- `SeqsAndIdsUnique`, `ToldIsStored`.
- `PeerAckOnce`: the sender hears of an acknowledgement at most once and only of a stored one.
- `PendingNeverSkipped`: a recipient who follows `next_after_seq` is given everything still pending.
- `ImplementsLog`: refinement of `MessageLog` with `length <- conv.lastSeq`, `log <- msgs`, `expired <- acked`, the two users as the readers and `Hidden` of a user that user. So the two directions, the two lookups and the acknowledgements come to one log to which a message is appended once, and which each user reads without a gap.

Two messages are enough for a page boundary, for both directions and for a duplicate beside another message.

Visible in the model and not the subject of a run: when two sessions send one client id at once, the second finds it in the transaction and gets an event again, so that the recipient is pushed the message twice. The comment on the interface (`service/direct_chat.go:19`) says that the event is nil for a duplicate.

## Delivery

State: the two subscriber maps of the manager, the devices (their connection, what they keep and what they have), the WebSockets (phase, `subs`, the number of events in the buffer, pump), and where each sender's request is. `DeliverMessage` copies both maps, writes to the streams one by one and then calls `RealtimeDeliver`, which reads `subs` and sends in two steps. A device is modelled as the client guide describes it: connect, subscribe, sync, read events, reconnect. It keeps a `last_seq` that every event and every sync moves on (`docs/ai-libp2p-client-guide.md:668` and 677) and starts to sync from it after a reconnect (line 689). Within one connection a sync goes on from the `next_after_seq` of the one before. `base` is history: the `last_seq` a device came with.

Run `delivery` (one device, one WebSocket with a buffer of one, a stream sender and an HTTP sender, two messages with retries; 900 thousand states): `NothingMissed`, a device that subscribed and then synced to the end has every message past the `last_seq` it came with that was fanned out. A message whose acknowledgement could not be written is not fanned out at all; only a sync brings it.

Statements that do not hold:

- `delivery_closed`: a fan-out can send on the channel of a WebSocket that has just ended.
- `delivery_guide`: the guide says that a reconnect as it describes it brings back what was missed while offline (line 692). Two fan-outs are not ordered, so a message can be pushed after a later one. A device that reconnects in between, with the later seq as its `last_seq`, never gets the earlier one. `NothingMissed` is what remains true, and is why it speaks of messages past `base` only; a client that keeps the `next_after_seq` of its syncs as its cursor has nothing missing below it.

## Blobs

State: for every content its file (none, partial, whole), the rows of `blobs` with `ref_count`, `media_objects`, `message_attachments`, where each upload is in `Put` and what each message transaction has counted so far. `Put` is `GetBySHA256`, `StatFile`, `OpenFile`, `FinishWrite`, `CreateBlob` (or `CreateBlobDuplicate`), `CreateMedia`. It can fail at each of them (`PutFails`), and what is on disk stays. The file system is external: opening truncates, and when several uploads write one path the last to finish has filled it. The loop over the attachments in `Store.Create` is one `Attach` per media object, which keeps the blob's row locked until `CommitMessage` or `RollbackMessage`; two transactions can wait for each other, and then one is rolled back. `interrupted` is a history variable: the contents of which some write did not end.

Run `blobs` (two contents, two uploads, two messages in flight, two media objects, one committed message; 400 thousand states):

- `RowHasFile`: failures and restarts leave files without rows, never rows without files.
- `WholeAtRest`: uploads that collide, but are not broken off, leave a complete file.
- `RefCountExact`: `ref_count` is the number of attachments (expired messages keep theirs) plus what open transactions have added.
- `TypeOK` has, besides the types, that every row of `message_attachments` names a message and a media object that exist. No foreign key asks for it; the transaction of `Store.Create` sees to it.

Two media objects are enough for both cases that matter: two of one blob in one message, and one each of two blobs, locked in opposite orders.

`blobs_stored`: `Put` can return a media object whose file is not complete, since `Write` takes any file at the path for the content.

## Sessions

State: the rows of `auth_nonces` and `users`, where each caller's `VerifyChallenge` is, each stream's `ConnSession`, the registry `directSessions`, the access tokens given out, a clock, and the row of `user_channel_reads` of one user in one channel. `accepted` and the fields `was` and `told` are history: which proofs were accepted, and what a stream was authenticated as and told. So are `proved`, the peer that a stream's client proved last, and `acks`, the acknowledgements that moved the cursors, each with the peer whose client sent it. A caller is a stream, which handles one request after the other, or an HTTP request. A proof is `Verify`, `UseNonce`, `CreateUser`, then `Authenticate` and `Register` (stream) or `AnswerVerify` (HTTP). Each is a statement of its own, and `VerifyFails` can end the call before any of them, with what was done so far left in place.

Abstractions: signatures are ideal, and a proof with a wrong one changes nothing. The times a client puts into its proof are left out, because the row's `expires_at` decides. Tokens do not expire. The caller of an acknowledgement is a member of the channel. The rows of different users do not meet, so the cursors of the first user stand for all.

Run `sessions` (two peers, two streams, one HTTP request, two nonces, a challenge that expires at the next tick; symmetry over peers, streams and nonces; 1.8 million states):

- `NonceUsedOnce`: a challenge logs in once, the peer it was issued to, in time, whoever proves it at the same moment.
- `OneUserPerPeer`: concurrent first logins give one user, and sessions and tokens name the user of the proved peer.
- `ToldIsRegistered`: a stream that was told of a login gets that user's direct messages until it ends.
- `RegistryIsClean`: only streams that were authenticated as a user are registered for that user, and closed ones only under a user they had given up.
- `CursorIsHighestAck`: in whatever order streams and HTTP clients acknowledge, a cursor is the highest seq acknowledged, and only clients whose last proof was for that user's peer have moved it, also when a stream has changed its user or was authenticated without its client being told.

The exception in `RegistryIsClean` is what the code does: a stream that proves a second identity stays registered under the first, and `unregisterSession` looks only at the last. The entry of the closed stream remains until the process ends; a push to it fails and is logged.

Two nonces and three callers are enough for a race on one challenge beside a login on another, and for a stream that changes its user.

## Startup, PinStore and Server

`Startup` is `App.Start` as a sequence of steps on what is durable: the migrations (`recorded` and `halfDone`, since DDL commits implicitly and `schema_migrations` is written afterwards), the key file, the row in `nodes`, and the default administrator's membership, which is an invitation and a promotion in two transactions. `Exit` ends the process at any step, by a signal, by a crash, or by an error of a call that may succeed the next time. `StartRejected` is an error that the stored state causes, and recurs. Between starts, users of a serving process change the default administrator's membership; those actions are the ones of `Spaces`, seen from that one row.

`PinStore` is `FileStore`: the set in memory, `pins.json`, and the mutex held from the change in memory to the rename. `promise` is history: what the last answer about a CID said, or "open" while a call is running or has failed. `Server` composes the two: the pins are loaded between the host and the database rows, and are lost from memory with the process.

Run `server` (four migration files: the first and the last repeatable, the third one that MySQL does not parse; two ends of the process, three keys; two CIDs, two requests, one failed write; 850 thousand states):

- `ServesPrepared`: a process serves with every migration recorded, under the key that the next start will load, and with a secret made from that key; at that point the default administrator has the role the bootstrap ensures.
- `OneIdentity`: `nodes` gets a second row only if the key file could not be read and was replaced.
- `PinsKept`: answers about pins hold in memory and on disk, after failures and restarts.
- `ComesBack`: if the server is, from some point on, not in one of four states (`Wedged`), it becomes ready again and again. In each of the four every start fails until somebody repairs it:
  - the next migration is one that MySQL does not parse. `0011_media_file_cid.up.sql` is one: its `KEY` clause lacks an `ADD`. So an empty database never comes to serve by itself, although `README.md:49` of the repository says that the first start migrates automatically;
  - columns added by a migration that is not recorded (`0008` to `0010` cannot run twice);
  - a key file cut short;
  - a default administrator who is banned from the default Space.

`RepairByHand` is not a step of the code: somebody gives the statement of an unparsable file as it was meant and records the file. Without it no behaviour would get past that file.

Fairness: only the steps of `Start`, weakly. A process that was started runs on, and `docker-compose/docker-compose.yml` restarts one that has ended (`restart: unless-stopped`). Nothing is assumed of users, of the operator, of requests or of how often processes end, except that `MaxExits` bounds it.

Assumptions: a default administrator is configured, `http_jwt_secret` is not, and IPFS is enabled. The end of a process is not a loss of power: what was written to a file stays, without fsync. `Shutdown` writes nothing. Blocks are content-addressed and never deleted.

Two ends are enough for a process that continues what another left half done and ends itself; the second CID is needed because one CID's save writes what another's failed save left in memory.

## Proofs

`SpacesProofs`, `ChannelMessagesProofs`, `DirectChatProofs`, `DeliveryProofs`, `BlobsProofs`, `SessionsProofs` and `ServerProofs` hold for any finite set of users, any number of sessions, streams, devices, requests, uploads, cleaners, readers, peers, challenges, migrations and CIDs, and any limits. The assumptions are `SpacesAssumption`, `MessagesAssumption`, `DirectChatAssumption`, `DeliveryAssumption`, `BlobsAssumption`, `SessionsAssumption`, `StartupAssumption` and `PinStoreAssumption`, which only give the constants their types, keep the special values apart, and say that the senders of `Blobs` are finitely many, since what they count is added up. TLC evaluates them in the runs.

`SpacesProofs`. `OneOwner` and `CountsExact` are not inductive. `IInv` adds: nothing is in the tables before the Space exists, a recorded call has a target that is a user, and a role change asks for one of the roles. Without the first, creating the Space could meet an old owner; without the others a transaction could write a row for nobody. Each method has its own step lemma, and `Refreshed` states once what `refreshAggregateCounts` gives. From `IInv` follow `SingleOwner`, `ExactCounts`, and the action properties `BansStick`, `CreatorsAreManagers` and `CreationAsShown`. `LockInv` adds who holds the row: a slot holds it exactly when its request is an HTTP one that was rejected and has not returned (`TypeCorrect`), which is why the end of a request's context may free the row without asking whose it is. `OrphanHoldsUntilRestart` is the consequence for streams: once a method has abandoned its transaction there, no step but a restart frees the row or changes a table.

`ChannelMessagesProofs`. `IInv` has four parts, so that a step that leaves one part's variables alone keeps it by a frame lemma. `TablesInv`: rows, seqs and the count. `SendInv`: the session that holds the lock, and no other, has the next seq, and its client id is not stored; acknowledged and stored messages exist. `CleanInv`: selected rows exist. `ReadInv`: cursors stay within the log and skip nothing. The heart of it is that the row lock is held from the lookup to the commit. That makes the looked-up facts still true at the insert, and it makes seqs visible in order, on which `SyncNeverSkips` rests. From `IInv` follow `TypeCorrect`, `GaplessAndUnique`, `ExactCount`, `AcksAreDurable`, `NothingSkipped` and `Refinement`, step by step: insert is an append, marking is an expiry, sync is a read, everything else a stutter. `SyncMovesOn` and `CleanupMovesOn` are the safety halves of the two liveness properties: a page is not empty while live messages lie past the cursor, nor a batch while rows are expired, whatever the limits.

`DirectChatProofs`. `LockInv`: the session that holds the conversation's row, and no other, has the next seq, and its client id is not stored; so the lookup inside the transaction is still true at the insert, while the one outside proves nothing. `SendInv`: past the insert or a lookup that found it, a request's message exists. `AckInv`: the request whose conditional UPDATE took effect is the only one with an event for that message, and until it is done none was pushed; a message that is not acknowledged has neither. `CursorInv`: a cursor is never past `last_seq`, so that new messages lie beyond it. `OneConversationHolds` rests on both users naming the pair in one order. `PageIsPrefix` shows that a page contains everything pending up to its last seq, for any limit. From `IInv` follow `TypeCorrect`, `SeqsAndIdsUniqueHolds`, `ToldIsStoredHolds`, `PeerAckOnceHolds` and `PendingNeverSkippedHolds`. `Refinement` goes step by step: the insert is an append, since the row lock makes the looked-up facts still true; the conditional UPDATE of an acknowledgement is an expiry; a sync with something on its page is a read (`LiveForIsPending`: what the log has for a reader is what is pending for that user), and everything else a stutter. `SyncMovesOn` says that a page is not empty while something is pending past the cursor, for every limit.

`DeliveryProofs`. `IInv` adds to `NothingMissed`: a request at work is about a stored message, a device has everything between its `base` and its cursor, and a message that is being written has reached a synced device or has it among its targets (`OnItsWay`). The last is what makes it inductive: a device that becomes synced has all that is stored past its `base`, so all of that which is on its way, and one that is synced when the targets are copied is subscribed, so it is a target. `ConnInv` is a second invariant, about the connections: only open streams are subscribed, only open WebSockets are registered, no buffer holds more than its capacity, and what devices have and keep is within what is stored. From both follow `TypeCorrect` and `NothingMissedHolds`.

`BlobsProofs`. `IInv` is `FilesInv /\ RefsInv`. `FilesInv` says that a file is partial only while somebody writes it or because a write was broken off, and that what an upload has come past is done: its file exists before its row is inserted, and its row before the media object. `RefsInv` counts: `ref_count` is the size of the set of attachments plus the size of the set of pairs of an open transaction and a media object it has counted. A commit turns the second kind into the first one for one, since the id of the new message is in no attachment yet; a rollback and a restart take back exactly the pairs of the transactions that end. `BoundsInv` adds the bounds on the tables and the type of the row locks. From these follow `TypeCorrect`, `RowHasFileHolds`, `WholeAtRestHolds` and `RefCountExactHolds`.

`SessionsProofs`. The properties are about finished calls, so `IInv` adds what is true of the running ones. `AcceptedIsUsed`: an accepted proof's row is used, hence the condition of the UPDATE is false for any other caller. `CallsAreReal`: a running call names a peer and a nonce, and its stream is open. `CallsAreBacked`: past `UseNonce` a proof of the call's peer was accepted, past `CreateUser` that peer has a user, and `ListSpaces` runs for a user the stream was authenticated as. Each action has its step lemma; `CallMoves` and `CallReturns` state once what changing one caller's record does to the others. From `IInv` follow `TypeCorrect`, `NonceUsedOnceHolds`, `OneUserPerPeerHolds`, `ToldIsRegisteredHolds` and `RegistryIsCleanHolds`. `AcksInv` is a second invariant, for `CursorIsHighestAckHolds`: a session's user, and a token's, is the user of the peer its client proved last, whatever that client was told, so the row that an acknowledgement moves is that client's own.

`ServerProofs`. `IInv` is `StartInv /\ PinInv`. `StartInv` follows the phases of `Start`: past the migrations they are all recorded, and a file in effect is never the last recorded one (`MigrationInv`); past `LoadOrCreateIdentity` the file holds the host's key, past the upsert its row exists, past the secret that is made from it (`KeyInv`); the administrator's row cannot change between the bootstrap and the start of the node, since nobody is served (`AdminInv`). `IdentityInv` counts `KnownKeys`, the keys in `nodes`, in the file and about to be written: only generating a key adds one, and it is the first or a loss is recorded with it. `PinInv` says that at most one request holds the mutex, that it has made its change in memory and nothing is promised about its CID (`BusyInv`), and that promises hold in the file, and in memory from the load on (`PromiseInv`). So the rename writes what was promised about every other CID, whatever failed calls have left. From `IInv` follow `TypeCorrect`, `ServesPreparedHolds`, `OneIdentityHolds`, `PinsKeptHolds`, and `OnlyWedgedIsRejected`, the safety half of `ComesBack`.

`PagingLemmas` has what the proofs about pages share: a nonempty set of numbers has a least and, if bounded, a greatest element, and so a page of a nonempty set with a positive limit has a last row.

Every invariant, action property and refinement that a passing run checks is proved. Only model-checked are the three liveness properties, `ExpiredIsDeleted`, `EveryMessageIsSynced` and `ComesBack`, because the prover treats neither fairness nor ENABLED. What is proved of them is the part that is safety: a cleanup or a sync with something to do makes progress (`CleanupMovesOn`, `SyncMovesOn`), and a start is refused only in the states of `Wedged` (`OnlyWedgedIsRejected`).

## Bounds

`MaxChannels`, `MaxClock`, `MaxTime`, `MaxSeq`, `MaxMedia`, `MaxMessages`, `MaxExits`, `MaxKeys` and `MaxPinFailures` cap counters in the guards of the actions. They are constants of the specifications, so the proofs hold for each of their values. Limits that are 50, 100, 128, 200 or 500 in the code are 1 or 2 in the runs, so that boundaries are met with few rows. Overflow of the 64-bit sequence numbers is out of reach of any run of the system and is not modelled.

## Not modelled

- The lists of `service/directory.go` and the read-only handlers: they change nothing and promise no order.
- Routing, decoding, status codes, framing and conversions: data only.
- Relay, DHT, discovery, bitswap and the import of files: calls into libraries, which touch nothing that the server keeps except blocks, and these are content-addressed.
- Configuration, logging, `peerid` and the example clients.
- Flow control of streams: writes have no deadline, so a subscriber that stops reading holds up the sender's handler (`session/manager.go:316`). In the model a write ends, or the connection does.

The messages run contains, without a property about it, a change of `auto_delete_after_seconds` between the selection of expired rows and their marking (`repository/mysql/message.go:265`): messages are then deleted that would not expire any more. The code promises nothing here.

## Plan

Composition: `Delivery` over `MessageLog` instead of its own counter, so that pages and expiry are those of the log.
