----------------------------- MODULE DirectChat -----------------------------
(***************************************************************************)
(* The private conversation of two users: opening it, SendDirectMessage    *)
(* with its two lookups by client_msg_id (one outside, one inside the      *)
(* transaction), AckDirectMessage and SyncDirectMessages.                  *)
(*                                                                         *)
(* A session runs one request at a time; both users may have several.  An  *)
(* action is what a request does between two points where others can get   *)
(* in: a statement on its own, or a transaction from the row lock on.      *)
(* Whether a push finds a session of the user is not part of this module:  *)
(* pushes and peerAcks count the events that are handed to the sessions.   *)
(***************************************************************************)
EXTENDS Naturals, FiniteSets

CONSTANTS
    Users,            \* the two participants
    UserLow, UserHigh,  \* the same, by their ids
    Sessions,
    UserOf,           \* the user a session is authenticated as
    ClientIds,        \* values of client_msg_id
    NoSession, NoClientId,
    DefaultLimit,     \* 50, for limit 0
    MaxLimit,         \* 500
    FallbackLimit,    \* 100, for a limit above MaxLimit
    MaxSeq            \* bound: sends are taken up while last_seq is below it

ASSUME DirectChatAssumption ==
    /\ Users = {UserLow, UserHigh} /\ UserLow # UserHigh
    /\ UserOf \in [Sessions -> Users]
    /\ NoSession \notin Sessions /\ NoClientId \notin ClientIds
    /\ \A n \in {DefaultLimit, MaxLimit, FallbackLimit, MaxSeq} : n \in Nat \ {0}

VARIABLES
    conv,      \* the direct_conversations row that conversation_id stands for
    pairs,     \* user_low_id and user_high_id of the rows of direct_conversations
    msgs,      \* the direct_messages rows
    acked,     \* the seqs of the rows with recipient_acked_at_ms
    rowLock,   \* the session whose transaction holds the conversation row
    work,      \* by session: where its request is
    told,      \* the SEND_DIRECT_MESSAGE_ACKs that senders were given
    pushes,    \* by message: how often DIRECT_MESSAGE_EVENT was pushed
    peerAcks,  \* by message: how often DIRECT_PEER_ACK_EVENT was pushed
    cursor,    \* by user: the next_after_seq that SyncDirectMessages last gave
    seen       \* by user: the seqs that SyncDirectMessages gave

vars == <<conv, pairs, msgs, acked, rowLock, work, told, pushes, peerAcks, cursor, seen>>
tables == <<conv, pairs, msgs, acked>>
events == <<told, pushes, peerAcks>>
readVars == <<cursor, seen>>

MessageIds == Users \X ClientIds

NoWork == [pc |-> "idle", cid |-> NoClientId, seq |-> 0, event |-> FALSE]

At(pc, c) == [pc |-> pc, cid |-> c, seq |-> 0, event |-> FALSE]

Matching(u, c) == {m \in msgs : m.sender = u /\ m.cid = c}

\* The rows a user is the recipient of.
SentTo(u) == {m \in msgs : m.sender # u}

Goto(s, w) == work' = [work EXCEPT ![s] = w]

-----------------------------------------------------------------------------
(***************************************************************************)
(* GetOrCreateConversation, for OPEN_DIRECT_CONVERSATION and for a send    *)
(* that names the user.  A request and its first statement are one step.   *)
(***************************************************************************)

Peer(u) == IF u = UserLow THEN UserHigh ELSE UserLow

\* Mutant: the pair is left as the request names it.
NormalizeUserPairAsNamed(a, b) == <<a, b>>

NormalizeUserPair(a, b) == IF a = UserLow THEN <<a, b>> ELSE <<b, a>>

\* The row that s looks for, and inserts if it is missing.
PairOf(s) == NormalizeUserPair(UserOf[s], Peer(UserOf[s]))

\* SELECT ... FOR UPDATE: an existing row may be locked, a missing one keeps nobody from
\* looking.  OPEN_DIRECT_CONVERSATION has no client id; with the row there it answers.
GetConversation(s, c) ==
    /\ work[s].pc = "idle"
    /\ rowLock = NoSession
    /\ \/ PairOf(s) \in pairs /\ c # NoClientId /\ Goto(s, At("resolved", c))
       \/ PairOf(s) \notin pairs /\ Goto(s, At("missing", c))
    /\ UNCHANGED <<tables, rowLock, events, readVars>>

\* The insert fails on the unique key of the pair, or as the victim of a deadlock when
\* another session has looked and found nothing as well.
InsertConversation(s) ==
    /\ work[s].pc = "missing"
    /\ \/ /\ PairOf(s) \notin pairs
          /\ pairs' = pairs \cup {PairOf(s)}
          /\ conv' = [exists |-> TRUE, lastSeq |-> 0]
          /\ Goto(s, IF work[s].cid = NoClientId THEN NoWork ELSE At("resolved", work[s].cid))
       \/ /\ PairOf(s) \in pairs \/ \E t \in Sessions \ {s} : work[t].pc = "missing"
          /\ Goto(s, NoWork)
          /\ UNCHANGED <<conv, pairs>>
    /\ UNCHANGED <<msgs, acked, rowLock, events, readVars>>

-----------------------------------------------------------------------------
(***************************************************************************)
(* SendDirectMessage.                                                      *)
(***************************************************************************)

\* The request names the conversation.
SendToConversation(s, c) ==
    /\ work[s].pc = "idle"
    /\ conv.exists
    /\ Goto(s, At("resolved", c))
    /\ UNCHANGED <<tables, rowLock, events, readVars>>

\* GetDirectMessageByClientMsgID outside the transaction: a duplicate found here is
\* acknowledged without an event.
LookupDuplicate(s) ==
    /\ work[s].pc = "resolved"
    /\ \/ \E m \in Matching(UserOf[s], work[s].cid) :
             Goto(s, [At("stored", work[s].cid) EXCEPT !.seq = m.seq])
       \/ /\ Matching(UserOf[s], work[s].cid) = {}
          /\ Goto(s, At("looked", work[s].cid))
    /\ UNCHANGED <<tables, rowLock, events, readVars>>

\* Mutant: no second lookup, inside the transaction.
LockConversationNoLookup(s) ==
    /\ work[s].pc = "looked"
    /\ conv.exists /\ rowLock = NoSession /\ conv.lastSeq < MaxSeq
    /\ Goto(s, [At("locked", work[s].cid) EXCEPT !.seq = conv.lastSeq + 1])
    /\ rowLock' = s
    /\ UNCHANGED <<tables, events, readVars>>

\* Mutant: the conversation row is read without FOR UPDATE.
LockConversationNoLock(s) ==
    /\ work[s].pc = "looked"
    /\ conv.exists /\ Matching(UserOf[s], work[s].cid) = {} /\ conv.lastSeq < MaxSeq
    /\ Goto(s, [At("locked", work[s].cid) EXCEPT !.seq = conv.lastSeq + 1])
    /\ UNCHANGED <<tables, rowLock, events, readVars>>

\* CreateDirectMessage: the row lock and the lookup inside the transaction.  A duplicate
\* found here is returned like a new message: SendDirectMessage builds an event for it.
\* A row that is not there is an error (SendFails).
LockConversation(s) ==
    /\ work[s].pc = "looked"
    /\ conv.exists /\ rowLock = NoSession
    /\ \/ /\ \E m \in Matching(UserOf[s], work[s].cid) :
                Goto(s, [At("stored", work[s].cid) EXCEPT !.seq = m.seq, !.event = TRUE])
          /\ UNCHANGED rowLock
       \/ /\ Matching(UserOf[s], work[s].cid) = {} /\ conv.lastSeq < MaxSeq
          /\ Goto(s, [At("locked", work[s].cid) EXCEPT !.seq = conv.lastSeq + 1])
          /\ rowLock' = s
    /\ UNCHANGED <<tables, events, readVars>>

\* The insert, the update of last_seq and the commit.
InsertDirectMessage(s) ==
    /\ work[s].pc = "locked"
    /\ msgs' = msgs \cup {[seq |-> work[s].seq, sender |-> UserOf[s], cid |-> work[s].cid]}
    /\ conv' = [conv EXCEPT !.lastSeq = work[s].seq]
    /\ rowLock' = NoSession
    /\ Goto(s, [work[s] EXCEPT !.pc = "stored", !.event = TRUE])
    /\ UNCHANGED <<pairs, acked, events, readVars>>

\* A statement, the reload after the commit or the write of the answer fails.
SendFails(s) ==
    /\ work[s].pc \in {"missing", "resolved", "looked", "locked", "stored"}
    /\ rowLock' = IF rowLock = s THEN NoSession ELSE rowLock
    /\ Goto(s, NoWork)
    /\ UNCHANGED <<tables, events, readVars>>

\* Mutant: the sender is answered while the transaction is open.
AckSenderEarly(s) ==
    /\ work[s].pc \in {"locked", "stored"}
    /\ told' = told \cup {[seq |-> work[s].seq, sender |-> UserOf[s], cid |-> work[s].cid]}
    /\ rowLock' = IF rowLock = s THEN NoSession ELSE rowLock
    /\ Goto(s, NoWork)
    /\ UNCHANGED <<tables, pushes, peerAcks, readVars>>

\* SEND_DIRECT_MESSAGE_ACK is written.
AckSender(s) ==
    /\ work[s].pc = "stored"
    /\ told' = told \cup {[seq |-> work[s].seq, sender |-> UserOf[s], cid |-> work[s].cid]}
    /\ Goto(s, IF work[s].event THEN [work[s] EXCEPT !.pc = "pushing"] ELSE NoWork)
    /\ UNCHANGED <<tables, rowLock, pushes, peerAcks, readVars>>

\* deliverDirectMessageToUser.
PushMessage(s) ==
    /\ work[s].pc = "pushing"
    /\ pushes' = [pushes EXCEPT ![<<UserOf[s], work[s].cid>>] = @ + 1]
    /\ Goto(s, NoWork)
    /\ UNCHANGED <<tables, rowLock, told, peerAcks, readVars>>

-----------------------------------------------------------------------------
(***************************************************************************)
(* AckDirectMessage, by the recipient.                                     *)
(***************************************************************************)

\* The message is read by its id; only its recipient gets further.
AckLookup(s, m) ==
    /\ work[s].pc = "idle"
    /\ m \in SentTo(UserOf[s])
    /\ Goto(s, [At(IF m.seq \in acked THEN "ackStored" ELSE "acking", m.cid)
                   EXCEPT !.seq = m.seq])
    /\ UNCHANGED <<tables, rowLock, events, readVars>>

\* Mutant: the UPDATE lacks AND recipient_acked_at_ms IS NULL.
AckUpdateAlways(s) ==
    /\ work[s].pc = "acking"
    /\ acked' = acked \cup {work[s].seq}
    /\ Goto(s, [work[s] EXCEPT !.pc = "ackStored", !.event = TRUE])
    /\ UNCHANGED <<conv, pairs, msgs, rowLock, events, readVars>>

\* The conditional UPDATE; when it affects no row another request was first.
AckUpdate(s) ==
    /\ work[s].pc = "acking"
    /\ acked' = acked \cup {work[s].seq}
    /\ Goto(s, [work[s] EXCEPT !.pc = "ackStored", !.event = (work[s].seq \notin acked)])
    /\ UNCHANGED <<conv, pairs, msgs, rowLock, events, readVars>>

\* A statement (the lookup of the recipient after the update too) or the write of the
\* answer fails: no event is pushed.
AckFails(s) ==
    /\ work[s].pc \in {"acking", "ackStored"}
    /\ Goto(s, NoWork)
    /\ UNCHANGED <<tables, rowLock, events, readVars>>

\* ACK_DIRECT_MESSAGE_RESP is written, then deliverDirectPeerAckToUser.
AckReply(s) ==
    LET m == CHOOSE k \in msgs : k.seq = work[s].seq
    IN  /\ work[s].pc = "ackStored"
        /\ peerAcks' = [peerAcks EXCEPT ![<<m.sender, m.cid>>] =
                           IF work[s].event THEN @ + 1 ELSE @]
        /\ Goto(s, NoWork)
        /\ UNCHANGED <<tables, rowLock, told, pushes, readVars>>

-----------------------------------------------------------------------------
(***************************************************************************)
(* SyncDirectMessages.                                                     *)
(***************************************************************************)

\* The service turns 0 into its default, the repository a limit that is too large.
ClampLimit(limit) ==
    IF limit = 0 THEN DefaultLimit ELSE IF limit > MaxLimit THEN FallbackLimit ELSE limit

\* Mutant: the query leaves out recipient_user_id.
PendingAfterOfBoth(u) ==
    {m.seq : m \in {k \in msgs : k.seq \notin acked /\ k.seq > cursor[u]}}

PendingAfter(u) ==
    {m.seq : m \in {k \in SentTo(u) : k.seq \notin acked /\ k.seq > cursor[u]}}

Page(u, limit) ==
    {n \in PendingAfter(u) : Cardinality({k \in PendingAfter(u) : k < n}) < limit}

\* Mutant: next_after_seq is the conversation's last_seq.
SyncDirectMessagesToHead(u, limit) ==
    /\ Page(u, ClampLimit(limit)) # {}
    /\ cursor' = [cursor EXCEPT ![u] = conv.lastSeq]
    /\ seen' = [seen EXCEPT ![u] = @ \cup Page(u, ClampLimit(limit))]
    /\ UNCHANGED <<tables, rowLock, work, events>>

\* An empty page leaves the cursor where it is.
SyncDirectMessages(u, limit) ==
    /\ \E last \in Page(u, ClampLimit(limit)) :
          /\ \A n \in Page(u, ClampLimit(limit)) : n <= last
          /\ cursor' = [cursor EXCEPT ![u] = last]
    /\ seen' = [seen EXCEPT ![u] = @ \cup Page(u, ClampLimit(limit))]
    /\ UNCHANGED <<tables, rowLock, work, events>>

-----------------------------------------------------------------------------

\* The process ends and starts again: transactions are rolled back, nobody is answered.
Restart ==
    /\ rowLock' = NoSession
    /\ work' = [s \in Sessions |-> NoWork]
    /\ UNCHANGED <<tables, events, readVars>>

Init ==
    /\ conv = [exists |-> FALSE, lastSeq |-> 0]
    /\ pairs = {}
    /\ msgs = {}
    /\ acked = {}
    /\ rowLock = NoSession
    /\ work = [s \in Sessions |-> NoWork]
    /\ told = {}
    /\ pushes = [i \in MessageIds |-> 0]
    /\ peerAcks = [i \in MessageIds |-> 0]
    /\ cursor = [u \in Users |-> 0]
    /\ seen = [u \in Users |-> {}]

Opening(s) ==
    \/ \E c \in ClientIds \cup {NoClientId} : GetConversation(s, c)
    \/ InsertConversation(s)

Sending(s) ==
    \/ \E c \in ClientIds : SendToConversation(s, c)
    \/ LookupDuplicate(s) \/ LockConversation(s) \/ InsertDirectMessage(s)
    \/ SendFails(s) \/ AckSender(s) \/ PushMessage(s)

Acking(s) ==
    \/ \E m \in msgs : AckLookup(s, m)
    \/ AckUpdate(s) \/ AckFails(s) \/ AckReply(s)

Next ==
    \/ \E s \in Sessions : Opening(s) \/ Sending(s) \/ Acking(s)
    \/ \E u \in Users, limit \in 0 .. (MaxLimit + 1) : SyncDirectMessages(u, limit)
    \/ Restart

Spec == Init /\ [][Next]_vars

-----------------------------------------------------------------------------
(***************************************************************************)
(* Properties.                                                             *)
(***************************************************************************)

Works ==
    [pc : {"idle", "missing", "resolved", "looked", "locked", "stored",
           "pushing", "acking", "ackStored"},
     cid : ClientIds \cup {NoClientId}, seq : Nat, event : BOOLEAN]

\* The state is well formed: acknowledgements are of messages that exist, messages of a
\* conversation that exists, and SyncDirectMessages gives a user only what was sent to
\* that user.
TypeOK ==
    /\ conv \in [exists : BOOLEAN, lastSeq : Nat]
    /\ msgs \subseteq [seq : Nat \ {0}, sender : Users, cid : ClientIds]
    /\ pairs \subseteq Users \X Users
    /\ msgs # {} => conv.exists
    /\ acked \subseteq {m.seq : m \in msgs}
    /\ rowLock \in Sessions \cup {NoSession}
    /\ work \in [Sessions -> Works]
    /\ told \subseteq [seq : Nat, sender : Users, cid : ClientIds]
    /\ pushes \in [MessageIds -> Nat]
    /\ peerAcks \in [MessageIds -> Nat]
    /\ cursor \in [Users -> Nat]
    /\ seen \in [Users -> SUBSET Nat]
    /\ \A u \in Users : seen[u] \subseteq {m.seq : m \in SentTo(u)}

\* Two users have one conversation, whoever opens it and however their first requests
\* interleave: both look for, and insert, the same row (normalizeUserPair).
OneConversation == \A p, q \in pairs : p = q

\* The messages of both directions share one gapless sequence, and a client_msg_id is
\* stored once per sender, although every send looks for it before it has the row lock.
SeqsAndIdsUnique ==
    /\ {m.seq : m \in msgs} = 1 .. conv.lastSeq
    /\ \A m, n \in msgs : m.seq = n.seq \/ (m.sender = n.sender /\ m.cid = n.cid) => m = n

\* What a sender was told is stored with that seq, and what the recipient was pushed is
\* stored, across restarts and retries: no event runs ahead of the transaction.
ToldIsStored ==
    /\ told \subseteq msgs
    /\ \A i \in MessageIds : pushes[i] > 0 => \E m \in msgs : <<m.sender, m.cid>> = i

\* The sender hears at most once that a message was acknowledged, and only if it was,
\* although several sessions of the recipient acknowledge it at once.
PeerAckOnce ==
    \A i \in MessageIds :
       /\ peerAcks[i] <= 1
       /\ peerAcks[i] = 1 => \E m \in msgs : <<m.sender, m.cid>> = i /\ m.seq \in acked

\* A recipient who only follows next_after_seq has been given every message up to the
\* cursor that is still to be acknowledged.
PendingNeverSkipped ==
    \A u \in Users : \A m \in SentTo(u) :
       m.seq <= cursor[u] /\ m.seq \notin acked => m.seq \in seen[u]

\* The conversation as a log: acknowledged messages are given to nobody any more, and a
\* user is given what the other has sent.
Log == INSTANCE MessageLog WITH
          Readers <- Users,
          Hidden <- [u \in Users |-> {u}],
          length <- conv.lastSeq,
          log <- msgs,
          expired <- acked

\* Sends with their two lookups, acknowledgements and syncs by any sessions, however they
\* interleave, look to both users like atomic appends, expiries and in-order reads of one
\* log.
ImplementsLog == Log!Spec

=============================================================================
