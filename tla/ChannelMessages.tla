-------------------------- MODULE ChannelMessages ---------------------------
(***************************************************************************)
(* The messages of one group channel: SendMessage and its transaction, the *)
(* expiry of messages by the cleanup loop and by the handler that sets the *)
(* expiry time, and SyncChannel, the paged read that clients catch up with.*)
(*                                                                         *)
(* Sessions are the goroutines that serve clients (libp2p or HTTP): they   *)
(* run concurrently, several of them for one user.  Create takes the row   *)
(* lock of the channel, so it is split where another session could get in  *)
(* between: validation without the lock, lookup under the lock, insert and *)
(* commit, reload and reply.  The senders are members of the channel that  *)
(* may send; channel_members is not written after the channel is created.  *)
(***************************************************************************)
EXTENDS Naturals, FiniteSets

CONSTANTS
    Users, Sessions,
    UserOf,           \* the user a session is authenticated as
    ClientIds,        \* values of client_msg_id
    Readers,          \* clients that page through the channel with SyncChannel
    Admins,           \* handlers of ADMIN_SET_GROUP_AUTO_DELETE
    CleanupLoop,      \* the goroutine that app.Start launches
    NoSession, NoClientId,
    AutoDeleteTimes,  \* values of auto_delete_after_seconds; 0 turns expiry off
    SlowMode,         \* slow_mode_seconds
    DefaultSyncLimit, MaxSyncLimit,
    CleanupLimit,     \* 200 in service.CleanupExpiredMessages
    MaxClock          \* bound on the clock, in seconds

Cleaners == Admins \cup {CleanupLoop}

ASSUME MessagesAssumption ==
    /\ UserOf \in [Sessions -> Users]
    /\ NoSession \notin Sessions /\ NoClientId \notin ClientIds
    /\ AutoDeleteTimes \subseteq Nat
    /\ SlowMode \in Nat /\ MaxClock \in Nat
    /\ DefaultSyncLimit \in Nat \ {0} /\ MaxSyncLimit \in Nat \ {0}
    /\ CleanupLimit \in Nat \ {0}

VARIABLES
    channel,  \* the channels row: message_seq, message_count, auto_delete_after_seconds
    msgs,     \* the messages rows
    deleted,  \* the seqs of the rows with status 'deleted'; the others are 'normal'
    clock,
    rowLock,  \* the session whose transaction holds the channels row, or NoSession
    send,     \* by session: where its SendMessage is
    cleaner,  \* by cleaner: where its CleanupExpiredMessages is
    cursor,   \* by reader: the next_after_seq it was last given
    seen,     \* by reader: the seqs it was given
    acked     \* the acknowledgements that senders were given

vars == <<channel, msgs, deleted, clock, rowLock, send, cleaner, cursor, seen, acked>>
sendVars == <<rowLock, send, acked>>
readVars == <<cursor, seen>>

Stored(u, c) == \E m \in msgs : m.sender = u /\ m.cid = c

LiveSeqs == {m.seq : m \in msgs} \ deleted

NotSending == [pc |-> "idle", cid |-> NoClientId, seq |-> 0]

NotCleaning == [pc |-> "idle", rows |-> {}]

-----------------------------------------------------------------------------
(***************************************************************************)
(* SendMessage.                                                            *)
(***************************************************************************)

\* GetLastMessageTime orders by seq and does not look at the status.
SlowModeActive(u) ==
    \E m \in msgs : /\ m.sender = u
                    /\ \A k \in msgs : k.sender = u => k.seq <= m.seq
                    /\ clock - m.at < SlowMode

\* The checks before the transaction.  A message they reject changes nothing.
ValidateMessage(s, c) ==
    /\ send[s].pc = "idle"
    /\ ~(SlowMode > 0 /\ SlowModeActive(UserOf[s]))
    /\ send' = [send EXCEPT ![s] = [pc |-> "validated", cid |-> c, seq |-> 0]]
    /\ UNCHANGED <<channel, msgs, deleted, clock, rowLock, cleaner, readVars, acked>>

\* Mutant: the channel row is read without FOR UPDATE.
LockAndLookupNoLock(s) ==
    /\ send[s].pc = "validated"
    /\ ~Stored(UserOf[s], send[s].cid)
    /\ send' = [send EXCEPT ![s].pc = "locked", ![s].seq = channel.seq + 1]
    /\ UNCHANGED <<channel, msgs, deleted, clock, rowLock, cleaner, readVars, acked>>

\* Mutant: no lookup by client_msg_id.
LockAndLookupNoDedup(s) ==
    /\ send[s].pc = "validated"
    /\ rowLock = NoSession
    /\ send' = [send EXCEPT ![s].pc = "locked", ![s].seq = channel.seq + 1]
    /\ rowLock' = s
    /\ UNCHANGED <<channel, msgs, deleted, clock, cleaner, readVars, acked>>

\* getChannelForUpdate and getMessageByClientMsgIDTx.  A message that is there already,
\* deleted or not, ends the transaction.
LockAndLookup(s) ==
    /\ send[s].pc = "validated"
    /\ rowLock = NoSession
    /\ \/ \E m \in msgs :
             /\ m.sender = UserOf[s] /\ m.cid = send[s].cid
             /\ send' = [send EXCEPT ![s].pc = "stored", ![s].seq = m.seq]
             /\ UNCHANGED rowLock
       \/ /\ ~Stored(UserOf[s], send[s].cid)
          /\ send' = [send EXCEPT ![s].pc = "locked", ![s].seq = channel.seq + 1]
          /\ rowLock' = s
    /\ UNCHANGED <<channel, msgs, deleted, clock, cleaner, readVars, acked>>

\* The insert, the update of message_seq and message_count, and the commit.
InsertAndCommit(s) ==
    /\ send[s].pc = "locked"
    /\ msgs' = msgs \cup {[seq |-> send[s].seq, sender |-> UserOf[s], cid |-> send[s].cid,
                           at |-> clock]}
    /\ channel' = [channel EXCEPT !.seq = send[s].seq, !.count = @ + 1]
    /\ rowLock' = NoSession
    /\ send' = [send EXCEPT ![s].pc = "stored"]
    /\ UNCHANGED <<deleted, clock, cleaner, readVars, acked>>

\* An error of the database, or the end of an HTTP request's context, before the commit.
AbortCreate(s) ==
    /\ send[s].pc \in {"validated", "locked"}
    /\ rowLock' = IF rowLock = s THEN NoSession ELSE rowLock
    /\ send' = [send EXCEPT ![s] = NotSending]
    /\ UNCHANGED <<channel, msgs, deleted, clock, cleaner, readVars, acked>>

\* loadMessageByID after the commit, or the write of the acknowledgement, fails: the
\* message is stored and its sender does not know.
ReplyFails(s) ==
    /\ send[s].pc = "stored"
    /\ send' = [send EXCEPT ![s] = NotSending]
    /\ UNCHANGED <<channel, msgs, deleted, clock, rowLock, cleaner, readVars, acked>>

\* Mutant: the sender is answered before the transaction commits.
AckBeforeCommit(s) ==
    /\ send[s].pc \in {"locked", "stored"}
    /\ acked' = acked \cup {[seq |-> send[s].seq, sender |-> UserOf[s], cid |-> send[s].cid]}
    /\ send' = [send EXCEPT ![s] = NotSending]
    /\ rowLock' = IF rowLock = s THEN NoSession ELSE rowLock
    /\ UNCHANGED <<channel, msgs, deleted, clock, cleaner, readVars>>

\* SEND_MESSAGE_ACK, or the response of the REST handler.
AckMessage(s) ==
    /\ send[s].pc = "stored"
    /\ acked' = acked \cup {[seq |-> send[s].seq, sender |-> UserOf[s], cid |-> send[s].cid]}
    /\ send' = [send EXCEPT ![s] = NotSending]
    /\ UNCHANGED <<channel, msgs, deleted, clock, rowLock, cleaner, readVars>>

-----------------------------------------------------------------------------
(***************************************************************************)
(* CleanupExpiredMessages.                                                 *)
(***************************************************************************)

\* The ticker of the cleanup goroutine.
CleanupTick ==
    /\ cleaner[CleanupLoop].pc = "idle"
    /\ cleaner' = [cleaner EXCEPT ![CleanupLoop].pc = "due"]
    /\ UNCHANGED <<channel, msgs, deleted, clock, sendVars, readVars>>

\* SetGroupAutoDeleteAfterSeconds takes the row lock; its handler then cleans up once.
SetGroupAutoDelete(a, seconds) ==
    /\ cleaner[a].pc = "idle"
    /\ rowLock = NoSession
    /\ channel' = [channel EXCEPT !.autoDelete = seconds]
    /\ cleaner' = [cleaner EXCEPT ![a].pc = "due"]
    /\ UNCHANGED <<msgs, deleted, clock, sendVars, readVars>>

ExpiredRows ==
    {m \in msgs : /\ m.seq \notin deleted
                  /\ channel.autoDelete > 0
                  /\ m.at + channel.autoDelete < clock}

Older(m, n) == m.at < n.at \/ (m.at = n.at /\ m.seq < n.seq)

\* Mutant: the loop returns when a round finds nothing to delete.
SelectExpiredOnce(k) ==
    LET rows == {n \in ExpiredRows :
                    Cardinality({m \in ExpiredRows : Older(m, n)}) < CleanupLimit}
    IN  /\ cleaner[k].pc = "due"
        /\ cleaner' = [cleaner EXCEPT ![k] =
                          IF rows = {} THEN [pc |-> "stopped", rows |-> {}]
                          ELSE [pc |-> "selected", rows |-> {m.seq : m \in rows}]]
        /\ UNCHANGED <<channel, msgs, deleted, clock, sendVars, readVars>>

\* The SELECT of the expired rows, oldest first, at most CleanupLimit of them.  It is the
\* first read of the transaction and takes no lock.
SelectExpired(k) ==
    LET rows == {n \in ExpiredRows :
                    Cardinality({m \in ExpiredRows : Older(m, n)}) < CleanupLimit}
    IN  /\ cleaner[k].pc = "due"
        /\ cleaner' = [cleaner EXCEPT ![k] =
                          IF rows = {} THEN NotCleaning
                          ELSE [pc |-> "selected", rows |-> {m.seq : m \in rows}]]
        /\ UNCHANGED <<channel, msgs, deleted, clock, sendVars, readVars>>

\* Mutant: the UPDATE lacks AND status = 'normal'.
MarkDeletedAgain(k) ==
    LET n == Cardinality(cleaner[k].rows)
    IN  /\ cleaner[k].pc = "selected"
        /\ rowLock = NoSession
        /\ deleted' = deleted \cup cleaner[k].rows
        /\ channel' = [channel EXCEPT !.count = IF @ > n THEN @ - n ELSE 0]
        /\ cleaner' = [cleaner EXCEPT ![k] = NotCleaning]
        /\ UNCHANGED <<msgs, clock, sendVars, readVars>>

\* The conditional UPDATE of every selected row, the UPDATE of message_count by the
\* number of rows affected, and the commit.  The loop goes on while rows are affected.
MarkDeleted(k) ==
    LET affected == cleaner[k].rows \ deleted
        n == Cardinality(affected)
    IN  /\ cleaner[k].pc = "selected"
        /\ affected = {} \/ rowLock = NoSession
        /\ deleted' = deleted \cup affected
        /\ channel' = [channel EXCEPT !.count = IF @ > n THEN @ - n ELSE 0]
        /\ cleaner' = [cleaner EXCEPT ![k] = [pc |-> IF k = CleanupLoop /\ affected # {}
                                                     THEN "due" ELSE "idle",
                                              rows |-> {}]]
        /\ UNCHANGED <<msgs, clock, sendVars, readVars>>

\* The transaction fails and is rolled back.
CleanupFails(k) ==
    /\ cleaner[k].pc = "selected"
    /\ cleaner' = [cleaner EXCEPT ![k] = NotCleaning]
    /\ UNCHANGED <<channel, msgs, deleted, clock, sendVars, readVars>>

-----------------------------------------------------------------------------
(***************************************************************************)
(* SyncChannel.                                                            *)
(***************************************************************************)

ClampLimit(limit) ==
    LET asked == IF limit = 0 THEN DefaultSyncLimit ELSE limit
    IN  IF asked > MaxSyncLimit THEN MaxSyncLimit ELSE asked

After(r) == {n \in LiveSeqs : n > cursor[r]}

\* The first rows of ListAfterSeq (seq > after_seq, status 'normal', ORDER BY seq) that
\* are left of the limit + 1 rows read once the row that only shows has_more is cut off.
Page(r, limit) == {n \in After(r) : Cardinality({k \in After(r) : k < n}) < limit}

\* Mutant: next_after_seq is the channel's message_seq.
SyncChannelToHead(r, limit) ==
    LET items == Page(r, ClampLimit(limit))
    IN  /\ items # {}
        /\ cursor' = [cursor EXCEPT ![r] = channel.seq]
        /\ seen' = [seen EXCEPT ![r] = @ \cup items]
        /\ UNCHANGED <<channel, msgs, deleted, clock, sendVars, cleaner>>

\* Mutant: next_after_seq is one past the last row, as if the query used seq >= after_seq.
SyncChannelPastLast(r, limit) ==
    LET items == Page(r, ClampLimit(limit))
    IN  /\ \E last \in items :
              /\ \A n \in items : n <= last
              /\ cursor' = [cursor EXCEPT ![r] = last + 1]
        /\ seen' = [seen EXCEPT ![r] = @ \cup items]
        /\ UNCHANGED <<channel, msgs, deleted, clock, sendVars, cleaner>>

\* An empty page leaves the cursor where it is.
SyncChannel(r, limit) ==
    LET items == Page(r, ClampLimit(limit))
    IN  /\ \E last \in items :
              /\ \A n \in items : n <= last
              /\ cursor' = [cursor EXCEPT ![r] = last]
        /\ seen' = [seen EXCEPT ![r] = @ \cup items]
        /\ UNCHANGED <<channel, msgs, deleted, clock, sendVars, cleaner>>

-----------------------------------------------------------------------------

Tick ==
    /\ clock < MaxClock
    /\ clock' = clock + 1
    /\ UNCHANGED <<channel, msgs, deleted, sendVars, cleaner, readVars>>

\* The process ends and starts again: transactions are rolled back, nobody is answered.
Restart ==
    /\ rowLock' = NoSession
    /\ send' = [s \in Sessions |-> NotSending]
    /\ cleaner' = [k \in Cleaners |-> NotCleaning]
    /\ UNCHANGED <<channel, msgs, deleted, clock, acked, readVars>>

Init ==
    /\ channel = [seq |-> 0, count |-> 0, autoDelete |-> 0]
    /\ msgs = {}
    /\ deleted = {}
    /\ clock = 0
    /\ rowLock = NoSession
    /\ send = [s \in Sessions |-> NotSending]
    /\ cleaner = [k \in Cleaners |-> NotCleaning]
    /\ cursor = [r \in Readers |-> 0]
    /\ seen = [r \in Readers |-> {}]
    /\ acked = {}

Sending(s) ==
    \/ \E c \in ClientIds : ValidateMessage(s, c)
    \/ LockAndLookup(s) \/ InsertAndCommit(s) \/ AbortCreate(s) \/ ReplyFails(s) \/ AckMessage(s)

Cleaning(k) == SelectExpired(k) \/ MarkDeleted(k) \/ CleanupFails(k)

Next ==
    \/ \E s \in Sessions : Sending(s)
    \/ CleanupTick
    \/ \E a \in Admins, t \in AutoDeleteTimes : SetGroupAutoDelete(a, t)
    \/ \E k \in Cleaners : Cleaning(k)
    \/ \E r \in Readers, limit \in 0 .. (MaxSyncLimit + 1) : SyncChannel(r, limit)
    \/ Tick
    \/ Restart

Spec == Init /\ [][Next]_vars

\* From some point on the process keeps running and the database no longer fails the
\* cleanup loop.  Then a transaction that holds the row lock ends, the ticker of the loop
\* fires again and again, the loop gets the row lock some time although sessions keep
\* taking it (strong fairness: InnoDB grants a row lock to waiters in turn), and a reader
\* keeps calling SyncChannel.
Fairness ==
    /\ <>[][~Restart /\ ~CleanupFails(CleanupLoop)]_vars
    /\ \A s \in Sessions : WF_vars(InsertAndCommit(s) \/ AbortCreate(s))
    /\ WF_vars(CleanupTick)
    /\ WF_vars(SelectExpired(CleanupLoop))
    /\ SF_vars(MarkDeleted(CleanupLoop))
    /\ \A r \in Readers : WF_vars(\E limit \in 0 .. (MaxSyncLimit + 1) : SyncChannel(r, limit))

FairSpec == Spec /\ Fairness

-----------------------------------------------------------------------------
(***************************************************************************)
(* Properties.                                                             *)
(***************************************************************************)

Messages == [seq : Nat \ {0}, sender : Users, cid : ClientIds, at : Nat]

\* The state is well formed: in particular rows marked deleted exist, and SyncChannel has
\* given no reader a next_after_seq beyond message_seq.
TypeOK ==
    /\ channel \in [seq : Nat, count : Nat, autoDelete : Nat]
    /\ msgs \subseteq Messages
    /\ deleted \subseteq {m.seq : m \in msgs}
    /\ clock \in Nat
    /\ rowLock \in Sessions \cup {NoSession}
    /\ send \in [Sessions -> [pc : {"idle", "validated", "locked", "stored"},
                              cid : ClientIds \cup {NoClientId}, seq : Nat]]
    /\ cleaner \in [Cleaners -> [pc : {"idle", "due", "selected"}, rows : SUBSET Nat]]
    /\ cursor \in [Readers -> 0 .. channel.seq]
    /\ seen \in [Readers -> SUBSET Nat]
    /\ acked \subseteq [seq : Nat, sender : Users, cid : ClientIds]

\* The sequence numbers are 1 .. message_seq without gap, and neither two messages of the
\* channel with one seq nor two of a sender with one client_msg_id ever meet: the unique
\* keys of the table are never what stops a concurrent Create.
SeqsAndIdsUnique ==
    /\ {m.seq : m \in msgs} = 1 .. channel.seq
    /\ \A m, n \in msgs : m.seq = n.seq \/ (m.sender = n.sender /\ m.cid = n.cid) => m = n

\* message_count is the number of messages with status 'normal', although two cleanups may
\* have selected the same rows and sends commit between a cleanup's SELECT and its UPDATEs.
CountExact == channel.count = Cardinality(LiveSeqs)

\* An acknowledgement names the message that is stored: it survives restarts, and every
\* retry of the same client_msg_id is acknowledged with the same seq.
AckedIsStored ==
    \A a \in acked :
       \E m \in msgs : m.seq = a.seq /\ m.sender = a.sender /\ m.cid = a.cid

\* A client that only follows next_after_seq misses nothing: every message at or below its
\* cursor was given to it or had been deleted.  This needs seqs to become visible in
\* order, which is why Create holds the row lock until the commit.
SyncNeverSkips ==
    \A r \in Readers : \A n \in LiveSeqs : n <= cursor[r] => n \in seen[r]

\* The detailed channel implements the log of MessageLog.
Log == INSTANCE MessageLog WITH
          length <- channel.seq,
          log <- {[seq |-> m.seq, sender |-> m.sender, cid |-> m.cid] : m \in msgs},
          expired <- deleted,
          Hidden <- [r \in Readers |-> {}]

\* Send, cleanup and sync, however they interleave, look to clients like atomic appends,
\* expiries and in-order reads of one log.
ImplementsLog == Log!Spec

\* A message that has expired is eventually deleted unless the expiry time is changed: the
\* cleanup loop gets past its limit, competing cleanups, senders holding the row and
\* failed transactions.
ExpiredIsDeleted ==
    \A u \in Users, c \in ClientIds :
       (\E m \in ExpiredRows : m.sender = u /\ m.cid = c)
          ~> ~(\E m \in ExpiredRows : m.sender = u /\ m.cid = c)

\* A client that keeps calling SyncChannel is given every message that is not deleted
\* before it gets there.
EveryMessageIsSynced ==
    \A u \in Users, c \in ClientIds, r \in Readers :
       Stored(u, c) ~> \E m \in msgs : /\ m.sender = u /\ m.cid = c
                                       /\ m.seq \in seen[r] \cup deleted

=============================================================================
