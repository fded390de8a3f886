----------------------- MODULE ChannelMessagesProofs ------------------------
(***************************************************************************)
(* Proofs about ChannelMessages, for any number of sessions, users, client *)
(* ids, readers and administrators, any expiry times and any limits.       *)
(***************************************************************************)
EXTENDS ChannelMessages, PagingLemmas, FiniteSetTheorems, TLAPS

Seqs == {m.seq : m \in msgs}

SendStates ==
    [pc : {"idle", "validated", "locked", "stored"}, cid : ClientIds \cup {NoClientId}, seq : Nat]

CleanStates == [pc : {"idle", "due", "selected"}, rows : SUBSET Nat]

\* The tables.
TablesInv ==
    /\ channel \in [seq : Nat, count : Nat, autoDelete : Nat]
    /\ msgs \subseteq Messages
    /\ deleted \subseteq Seqs
    /\ clock \in Nat
    /\ SeqsAndIdsUnique
    /\ CountExact

\* A transaction between lookup and insert holds the row lock, so the next seq it computed
\* is still the next one and its client_msg_id is still unused; a session about to reply
\* has its message in the table.
SessionsInv ==
    \A s \in Sessions :
       /\ send[s].pc # "idle" => send[s].cid \in ClientIds
       /\ send[s].pc = "locked" => /\ rowLock = s
                                   /\ send[s].seq = channel.seq + 1
                                   /\ ~Stored(UserOf[s], send[s].cid)
       /\ send[s].pc = "stored" => \E m \in msgs : /\ m.seq = send[s].seq
                                                   /\ m.sender = UserOf[s]
                                                   /\ m.cid = send[s].cid

SendInv ==
    /\ rowLock \in Sessions \cup {NoSession}
    /\ send \in [Sessions -> SendStates]
    /\ acked \subseteq [seq : Nat, sender : Users, cid : ClientIds]
    /\ SessionsInv
    /\ AckedIsStored

\* What a cleanup selected are rows of the table.
CleanInv ==
    /\ cleaner \in [Cleaners -> CleanStates]
    /\ \A k \in Cleaners : cleaner[k].rows \subseteq Seqs

\* No cursor is ahead of message_seq.
ReadInv ==
    /\ cursor \in [Readers -> Nat]
    /\ seen \in [Readers -> SUBSET Nat]
    /\ \A r \in Readers : cursor[r] <= channel.seq
    /\ SyncNeverSkips

IInv == TablesInv /\ SendInv /\ CleanInv /\ ReadInv

-----------------------------------------------------------------------------
(***************************************************************************)
(* Frames: each part depends on the variables it names only.               *)
(***************************************************************************)

\* Steps that do not write a table keep the tables well formed.
LEMMA TablesFrame ==
    ASSUME TablesInv, UNCHANGED <<channel, msgs, deleted>>, clock' \in Nat
    PROVE  TablesInv'
BY DEF TablesInv, Seqs, SeqsAndIdsUnique, CountExact, LiveSeqs

\* Steps that neither move a sender nor insert a message keep the senders' part.
LEMMA SendFrame ==
    ASSUME SendInv, UNCHANGED <<msgs, sendVars>>, channel'.seq = channel.seq
    PROVE  SendInv'
BY DEF SendInv, SessionsInv, AckedIsStored, Stored, sendVars

\* Steps that neither move a cleaner nor insert a message keep the cleaners' part.
LEMMA CleanFrame ==
    ASSUME CleanInv, UNCHANGED <<msgs, cleaner>>
    PROVE  CleanInv'
BY DEF CleanInv, Seqs

\* Steps that neither move a reader nor insert a message keep the readers' part: deleting
\* rows only leaves fewer messages to have been seen.
LEMMA ReadFrame ==
    ASSUME ReadInv, UNCHANGED <<msgs, readVars>>, channel'.seq = channel.seq,
           deleted \subseteq deleted'
    PROVE  ReadInv'
BY DEF ReadInv, SyncNeverSkips, LiveSeqs, readVars

-----------------------------------------------------------------------------
(***************************************************************************)
(* SendMessage.                                                            *)
(***************************************************************************)

\* The messages that are not deleted are finitely many.
LEMMA LiveIsFinite ==
    ASSUME TablesInv
    PROVE  IsFiniteSet(LiveSeqs) /\ LiveSeqs \subseteq 1 .. channel.seq
<1>1. LiveSeqs \subseteq 1 .. channel.seq /\ channel.seq \in Nat
  BY DEF TablesInv, SeqsAndIdsUnique, LiveSeqs
<1>2. IsFiniteSet(1 .. channel.seq)
  BY <1>1, FS_Interval
<1> QED
  BY <1>1, <1>2, FS_Subset, Zenon

\* Validation keeps the invariant.
LEMMA ValidateStep ==
    ASSUME IInv, NEW s \in Sessions, NEW c \in ClientIds, ValidateMessage(s, c)
    PROVE  IInv'
<1>1. SendInv'
  BY DEF ValidateMessage, IInv, SendInv, SendStates, SessionsInv, AckedIsStored, Stored
<1> QED
  BY <1>1, TablesFrame, CleanFrame, ReadFrame DEF ValidateMessage, IInv, TablesInv

\* Lookup under the lock keeps the invariant.
LEMMA LookupStep ==
    ASSUME IInv, NEW s \in Sessions, LockAndLookup(s)
    PROVE  IInv'
<1> USE DEF IInv, SendInv
<1>0. send[s].pc = "validated" /\ send[s].cid \in ClientIds
  BY DEF LockAndLookup, SessionsInv
<1>1. UNCHANGED <<channel, msgs, acked>>
  BY DEF LockAndLookup
<1>2. \A t \in Sessions : send[t].pc # "locked"
  BY MessagesAssumption DEF LockAndLookup, SessionsInv
<1>3. CASE \E m \in msgs : /\ m.sender = UserOf[s] /\ m.cid = send[s].cid
                           /\ send' = [send EXCEPT ![s].pc = "stored", ![s].seq = m.seq]
                           /\ UNCHANGED rowLock
  <2>1. PICK m \in msgs : /\ m.sender = UserOf[s] /\ m.cid = send[s].cid
                          /\ send' = [send EXCEPT ![s].pc = "stored", ![s].seq = m.seq]
                          /\ UNCHANGED rowLock
    BY <1>3, Zenon
  <2>2. m.seq \in Nat
    BY DEF TablesInv, Messages
  <2>3. send' \in [Sessions -> SendStates]
    <3>1. send \in [Sessions -> SendStates]
      OBVIOUS
    <3>2. send' = [send EXCEPT ![s].pc = "stored", ![s].seq = m.seq]
      BY <2>1
    <3> HIDE DEF IInv, SendInv
    <3> QED
      BY <2>2, <3>1, <3>2, Zenon DEF SendStates
  <2>4. /\ send'[s].pc = "stored" /\ send'[s].seq = m.seq /\ send'[s].cid = send[s].cid
        /\ \A t \in Sessions \ {s} : send'[t] = send[t]
    BY <2>1 DEF SendStates
  <2>5. SessionsInv'
    <3> SUFFICES ASSUME NEW t \in Sessions
                 PROVE  /\ send'[t].pc # "idle" => send'[t].cid \in ClientIds
                        /\ send'[t].pc # "locked"
                        /\ send'[t].pc = "stored" => \E k \in msgs : /\ k.seq = send'[t].seq
                                                                     /\ k.sender = UserOf[t]
                                                                     /\ k.cid = send'[t].cid
      BY <1>1 DEF SessionsInv
    <3>1. CASE t = s
      BY <1>0, <2>1, <2>4, <3>1
    <3>2. CASE t # s
      BY <1>2, <2>4, <3>2 DEF SessionsInv
    <3> QED
      BY <3>1, <3>2
  <2> QED
    BY <1>1, <2>1, <2>3, <2>5, TablesFrame, CleanFrame, ReadFrame, Zenon
       DEF LockAndLookup, AckedIsStored, TablesInv
<1>4. CASE /\ ~Stored(UserOf[s], send[s].cid)
           /\ send' = [send EXCEPT ![s].pc = "locked", ![s].seq = channel.seq + 1]
           /\ rowLock' = s
  <2>1. send' \in [Sessions -> SendStates]
    <3>1. channel.seq + 1 \in Nat
      BY DEF TablesInv
    <3>2. [send[s] EXCEPT !.pc = "locked", !.seq = channel.seq + 1] \in SendStates
      BY <3>1, Zenon DEF SendStates
    <3>3. send' = [send EXCEPT ![s] = [send[s] EXCEPT !.pc = "locked", !.seq = channel.seq + 1]]
      BY <1>4, Zenon
    <3> QED
      BY <3>2, <3>3
  <2>2. /\ send'[s].pc = "locked" /\ send'[s].seq = channel.seq + 1
        /\ send'[s].cid = send[s].cid
        /\ \A t \in Sessions \ {s} : send'[t] = send[t]
    BY <1>4 DEF SendStates
  <2>3. SessionsInv'
    <3> SUFFICES ASSUME NEW t \in Sessions
                 PROVE  /\ send'[t].pc # "idle" => send'[t].cid \in ClientIds
                        /\ send'[t].pc = "locked" => /\ rowLock' = t
                                                     /\ send'[t].seq = channel.seq + 1
                                                     /\ ~Stored(UserOf[t], send'[t].cid)
                        /\ send'[t].pc = "stored" => \E k \in msgs : /\ k.seq = send'[t].seq
                                                                     /\ k.sender = UserOf[t]
                                                                     /\ k.cid = send'[t].cid
      BY <1>1 DEF SessionsInv, Stored
    <3>1. CASE t = s
      BY <1>0, <1>4, <2>2, <3>1
    <3>2. CASE t # s
      BY <1>2, <2>2, <3>2 DEF SessionsInv
    <3> QED
      BY <3>1, <3>2
  <2> QED
    BY <1>1, <1>4, <2>1, <2>3, TablesFrame, CleanFrame, ReadFrame, Zenon
       DEF LockAndLookup, AckedIsStored, TablesInv
<1> QED
  BY <1>3, <1>4 DEF LockAndLookup

\* The insert keeps the invariant: the seq is new and next, and nobody's cursor is there
\* yet.
LEMMA InsertStep ==
    ASSUME IInv, NEW s \in Sessions, InsertAndCommit(s)
    PROVE  IInv'
<1> DEFINE n == channel.seq + 1
           new == [seq |-> n, sender |-> UserOf[s], cid |-> send[s].cid, at |-> clock]
<1> USE DEF IInv
<1>1. /\ send[s].pc = "locked" /\ send[s].seq = n /\ rowLock = s
      /\ ~Stored(UserOf[s], send[s].cid) /\ send[s].cid \in ClientIds
  BY DEF InsertAndCommit, SendInv, SessionsInv
<1>2. msgs' = msgs \cup {new} /\ deleted' = deleted /\ clock' = clock
  BY <1>1 DEF InsertAndCommit
<1>3. /\ channel' = [channel EXCEPT !.seq = n, !.count = channel.count + 1]
      /\ channel.seq \in Nat /\ channel.count \in Nat
  BY <1>1 DEF InsertAndCommit, TablesInv
<1>4. channel' \in [seq : Nat, count : Nat, autoDelete : Nat]
  <2>1. n \in Nat /\ channel.count + 1 \in Nat
    BY <1>3
  <2> HIDE DEF n
  <2> QED
    BY <1>3, <2>1, Zenon DEF TablesInv
<1>5. channel'.seq = n /\ channel'.count = channel.count + 1
  BY <1>3 DEF TablesInv
<1>6. /\ new \in Messages /\ new \in msgs'
      /\ new.seq = n /\ new.sender = UserOf[s] /\ new.cid = send[s].cid
  BY <1>1, <1>2, <1>3, MessagesAssumption DEF Messages, TablesInv
<1>7. Seqs = 1 .. channel.seq /\ n \notin Seqs
  BY <1>3 DEF TablesInv, SeqsAndIdsUnique, Seqs
<1>8. Seqs' = Seqs \cup {n} /\ Seqs' = 1 .. n
  <2>1. Seqs' = Seqs \cup {n}
    <3> HIDE DEF new
    <3> QED
      BY <1>2, <1>6 DEF Seqs
  <2> QED
    BY <1>3, <1>7, <2>1
<1>9. TablesInv'
  <2>1. msgs' \subseteq Messages /\ deleted' \subseteq Seqs' /\ clock' \in Nat
    BY <1>2, <1>6, <1>8 DEF TablesInv
  <2>2. SeqsAndIdsUnique'
    <3>1. \A m \in msgs : m.seq # n /\ ~(m.sender = UserOf[s] /\ m.cid = send[s].cid)
      BY <1>1, <1>7 DEF Seqs, Stored
    <3>2. \A m, k \in msgs' : m.seq = k.seq \/ (m.sender = k.sender /\ m.cid = k.cid) => m = k
      BY <1>2, <3>1 DEF TablesInv, SeqsAndIdsUnique
    <3> QED
      BY <1>5, <1>8, <3>2 DEF SeqsAndIdsUnique, Seqs
  <2>3. LiveSeqs' = LiveSeqs \cup {n} /\ n \notin LiveSeqs
    BY <1>2, <1>7, <1>8 DEF LiveSeqs, Seqs, TablesInv
  <2>4. CountExact'
    <3>1. IsFiniteSet(LiveSeqs)
      BY LiveIsFinite
    <3>2. Cardinality(LiveSeqs \cup {n}) = Cardinality(LiveSeqs) + 1
      BY <2>3, <3>1, FS_AddElement
    <3> QED
      BY <1>5, <2>3, <3>2 DEF CountExact, TablesInv
  <2> QED
    BY <1>4, <2>1, <2>2, <2>4 DEF TablesInv
<1>10. SendInv'
  <2>1. /\ send' = [send EXCEPT ![s].pc = "stored"] /\ rowLock' = NoSession /\ acked' = acked
    BY DEF InsertAndCommit
  <2>2. send' \in [Sessions -> SendStates]
    BY <2>1 DEF SendInv, SendStates
  <2>3. /\ send'[s].pc = "stored" /\ send'[s].seq = n /\ send'[s].cid = send[s].cid
        /\ \A t \in Sessions \ {s} : send'[t] = send[t]
    BY <1>1, <2>1 DEF SendInv, SendStates
  <2>4. \A t \in Sessions \ {s} : send[t].pc # "locked"
    BY <1>1 DEF SendInv, SessionsInv
  <2>5. SessionsInv'
    <3> SUFFICES ASSUME NEW t \in Sessions
                 PROVE  /\ send'[t].pc # "idle" => send'[t].cid \in ClientIds
                        /\ send'[t].pc # "locked"
                        /\ send'[t].pc = "stored" => \E k \in msgs' : /\ k.seq = send'[t].seq
                                                                      /\ k.sender = UserOf[t]
                                                                      /\ k.cid = send'[t].cid
      BY DEF SessionsInv
    <3>1. CASE t = s
      <4> HIDE DEF new
      <4> QED
        BY <1>1, <1>6, <2>3, <3>1
    <3>2. CASE t # s
      BY <1>2, <2>3, <2>4, <3>2 DEF SendInv, SessionsInv
    <3> QED
      BY <3>1, <3>2
  <2> QED
    BY <1>2, <2>1, <2>2, <2>5 DEF SendInv, AckedIsStored
<1>11. CleanInv'
  BY <1>8 DEF InsertAndCommit, CleanInv
<1>12. ReadInv'
  <2>1. UNCHANGED <<cursor, seen>> /\ LiveSeqs' = LiveSeqs \cup {n}
    BY <1>2, <1>7, <1>8 DEF InsertAndCommit, readVars, LiveSeqs, Seqs, TablesInv
  <2>2. \A r \in Readers : cursor[r] \in Nat /\ cursor[r] < n
    BY <1>3 DEF ReadInv
  <2> QED
    BY <1>3, <1>5, <2>1, <2>2 DEF ReadInv, SyncNeverSkips
<1> QED
  BY <1>9, <1>10, <1>11, <1>12

\* Failures and replies keep the invariant.
LEMMA SendEndsStep ==
    ASSUME IInv, NEW s \in Sessions, AbortCreate(s) \/ ReplyFails(s) \/ AckMessage(s)
    PROVE  IInv'
<1> USE DEF IInv
<1>1. UNCHANGED <<channel, msgs, deleted, clock, cleaner, readVars>>
  BY DEF AbortCreate, ReplyFails, AckMessage
<1>2. send' = [send EXCEPT ![s] = NotSending]
  BY DEF AbortCreate, ReplyFails, AckMessage
<1>3. /\ send' \in [Sessions -> SendStates] /\ send'[s].pc = "idle"
      /\ \A t \in Sessions \ {s} : send'[t] = send[t]
  BY <1>2 DEF SendInv, SendStates, NotSending
<1>4. /\ rowLock' \in Sessions \cup {NoSession}
      /\ \A t \in Sessions \ {s} : rowLock = t => rowLock' = t
  BY DEF AbortCreate, ReplyFails, AckMessage, SendInv
<1>5. SessionsInv'
  BY <1>1, <1>3, <1>4 DEF SendInv, SessionsInv, Stored
<1>6. acked' \subseteq [seq : Nat, sender : Users, cid : ClientIds] /\ AckedIsStored'
  <2>1. CASE AckMessage(s)
    <3>1. PICK m \in msgs : m.seq = send[s].seq /\ m.sender = UserOf[s] /\ m.cid = send[s].cid
      BY <2>1 DEF AckMessage, SendInv, SessionsInv
    <3>2. m \in Messages
      BY <3>1 DEF TablesInv
    <3> QED
      BY <1>1, <2>1, <3>1, <3>2 DEF AckMessage, SendInv, AckedIsStored, Messages
  <2>2. CASE acked' = acked
    BY <1>1, <2>2 DEF SendInv, AckedIsStored
  <2> QED
    BY <2>1, <2>2 DEF AbortCreate, ReplyFails
<1>7. SendInv'
  BY <1>3, <1>4, <1>5, <1>6 DEF SendInv
<1> QED
  BY <1>1, <1>7, TablesFrame, CleanFrame, ReadFrame DEF TablesInv

-----------------------------------------------------------------------------
(***************************************************************************)
(* CleanupExpiredMessages and SyncChannel.                                 *)
(***************************************************************************)

\* The ticker, the handler that sets the expiry time and a failed cleanup keep the
\* invariant.
LEMMA CleanupStartsStep ==
    ASSUME IInv,
           \/ CleanupTick
           \/ \E a \in Admins, t \in AutoDeleteTimes : SetGroupAutoDelete(a, t)
           \/ \E k \in Cleaners : CleanupFails(k)
    PROVE  IInv'
<1> USE DEF IInv
<1>1. UNCHANGED <<msgs, deleted, clock, sendVars, readVars>>
  BY DEF CleanupTick, SetGroupAutoDelete, CleanupFails
<1>2. CleanInv'
  <2>1. CASE CleanupTick
    BY <2>1 DEF CleanupTick, CleanInv, CleanStates, Seqs, Cleaners
  <2>2. ASSUME NEW a \in Admins, NEW t \in AutoDeleteTimes, SetGroupAutoDelete(a, t)
        PROVE  CleanInv'
    BY <2>2 DEF SetGroupAutoDelete, CleanInv, CleanStates, Seqs, Cleaners
  <2>3. ASSUME NEW k \in Cleaners, CleanupFails(k)
        PROVE  CleanInv'
    BY <2>3 DEF CleanupFails, CleanInv, CleanStates, NotCleaning, Seqs
  <2> QED
    BY <2>1, <2>2, <2>3
<1>3. /\ channel' \in [seq : Nat, count : Nat, autoDelete : Nat]
      /\ channel'.seq = channel.seq /\ channel'.count = channel.count
  BY MessagesAssumption DEF CleanupTick, SetGroupAutoDelete, CleanupFails, TablesInv
<1>4. TablesInv'
  BY <1>1, <1>3 DEF TablesInv, Seqs, SeqsAndIdsUnique, CountExact, LiveSeqs
<1> QED
  BY <1>1, <1>2, <1>3, <1>4, SendFrame, ReadFrame

\* Selecting expired rows keeps the invariant.
LEMMA SelectStep ==
    ASSUME IInv, NEW k \in Cleaners, SelectExpired(k)
    PROVE  IInv'
<1> USE DEF IInv
<1>1. PICK rows \in SUBSET ExpiredRows :
         cleaner' = [cleaner EXCEPT ![k] = IF rows = {} THEN NotCleaning
                                           ELSE [pc |-> "selected", rows |-> {m.seq : m \in rows}]]
  BY Zenon DEF SelectExpired
<1>2. {m.seq : m \in rows} \subseteq Seqs /\ Seqs \subseteq Nat
  BY DEF ExpiredRows, Seqs, TablesInv, Messages
<1>3. UNCHANGED <<channel, msgs, deleted, clock, sendVars, readVars>>
  BY DEF SelectExpired
<1>4. CleanInv'
  BY <1>1, <1>2, <1>3, Zenon DEF CleanInv, CleanStates, NotCleaning, Seqs
<1> QED
  BY <1>3, <1>4, TablesFrame, SendFrame, ReadFrame DEF TablesInv

\* Marking rows deleted keeps the invariant: only rows that were normal are counted off,
\* so the count never has to stop at zero.
LEMMA MarkDeletedStep ==
    ASSUME IInv, NEW k \in Cleaners, MarkDeleted(k)
    PROVE  IInv'
<1> DEFINE affected == cleaner[k].rows \ deleted
           n == Cardinality(affected)
<1> USE DEF IInv
<1>1. UNCHANGED <<msgs, clock, sendVars, readVars>> /\ deleted' = deleted \cup affected
  BY DEF MarkDeleted
<1>2. affected \subseteq LiveSeqs
  BY DEF CleanInv, LiveSeqs, Seqs
<1>3. LiveSeqs' = LiveSeqs \ affected
  BY <1>1 DEF LiveSeqs
<1>4. /\ n \in Nat /\ Cardinality(LiveSeqs) \in Nat /\ n <= Cardinality(LiveSeqs)
      /\ Cardinality(LiveSeqs') = Cardinality(LiveSeqs) - n
  <2>1. IsFiniteSet(LiveSeqs)
    BY LiveIsFinite
  <2>2. IsFiniteSet(affected) /\ n <= Cardinality(LiveSeqs)
    BY <1>2, <2>1, FS_Subset
  <2>3. LiveSeqs \cap affected = affected
    BY <1>2
  <2>4. Cardinality(LiveSeqs \ affected) = Cardinality(LiveSeqs) - n
    <3> HIDE DEF affected
    <3>1. Cardinality(LiveSeqs \ affected) = Cardinality(LiveSeqs) - Cardinality(LiveSeqs \cap affected)
      BY <2>1, FS_Difference
    <3> QED
      BY <2>3, <3>1
  <2> QED
    BY <1>3, <2>1, <2>2, <2>4, FS_CardinalityType
<1>5. /\ channel' = [channel EXCEPT !.count = IF channel.count > n THEN channel.count - n ELSE 0]
      /\ channel.count = Cardinality(LiveSeqs)
  BY DEF MarkDeleted, TablesInv, CountExact
<1>6. /\ channel' \in [seq : Nat, count : Nat, autoDelete : Nat]
      /\ channel'.seq = channel.seq
      /\ channel'.count = Cardinality(LiveSeqs')
  BY <1>4, <1>5 DEF TablesInv
<1>7. TablesInv'
  BY <1>1, <1>2, <1>6 DEF TablesInv, SeqsAndIdsUnique, CountExact, Seqs, LiveSeqs
<1>8. CleanInv'
  BY <1>1 DEF MarkDeleted, CleanInv, CleanStates, Seqs
<1> QED
  BY <1>1, <1>6, <1>7, <1>8, SendFrame, ReadFrame

\* A page holds every live message between the cursor and its last row.
LEMMA PageIsPrefix ==
    ASSUME TablesInv, NEW r \in Readers, NEW limit \in Nat,
           NEW last \in Page(r, limit), NEW n \in LiveSeqs, n > cursor[r], n <= last
    PROVE  n \in Page(r, limit)
<1> DEFINE below(x) == {k \in After(r) : k < x}
<1>1. LiveSeqs \subseteq Nat /\ last \in LiveSeqs
  BY LiveIsFinite DEF Page, After
<1>2. n \in After(r) /\ below(n) \subseteq below(last)
  <2>1. n \in After(r) /\ After(r) \subseteq LiveSeqs
    BY DEF After
  <2>2. n \in Nat /\ last \in Nat /\ \A k \in After(r) : k \in Nat
    BY <1>1, <2>1
  <2>3. \A k \in After(r) : k < n => k < last
    BY <2>2
  <2> QED
    BY <2>1, <2>3
<1>3. IsFiniteSet(below(last)) /\ IsFiniteSet(below(n))
  <2>1. below(last) \subseteq LiveSeqs /\ below(n) \subseteq LiveSeqs
    BY DEF After
  <2> QED
    BY <2>1, LiveIsFinite, FS_Subset
<1>4. /\ Cardinality(below(n)) \in Nat /\ Cardinality(below(last)) \in Nat
      /\ Cardinality(below(n)) <= Cardinality(below(last))
  BY <1>2, <1>3, FS_Subset, FS_CardinalityType
<1>5. Cardinality(below(last)) < limit
  BY DEF Page
<1>6. Cardinality(below(n)) < limit
  BY <1>4, <1>5
<1> QED
  BY <1>2, <1>6 DEF Page

\* The limit that SyncChannel applies is a positive number.
LEMMA ClampType ==
    ASSUME NEW limit \in Nat
    PROVE  ClampLimit(limit) \in Nat \ {0}
BY MessagesAssumption DEF ClampLimit

\* What a step of SyncChannel does: the cursor moves to a live message, and the reader is
\* given exactly the live messages up to it.
LEMMA SyncReads ==
    ASSUME IInv, NEW r \in Readers, NEW limit \in Nat, SyncChannel(r, limit)
    PROVE  \E last \in LiveSeqs :
              /\ last > cursor[r]
              /\ cursor' = [cursor EXCEPT ![r] = last]
              /\ seen' = [seen EXCEPT ![r] = @ \cup {n \in LiveSeqs : cursor[r] < n /\ n <= last}]
<1> DEFINE items == Page(r, ClampLimit(limit))
<1>1. PICK last \in items : /\ \A n \in items : n <= last
                            /\ cursor' = [cursor EXCEPT ![r] = last]
  BY Zenon DEF SyncChannel
<1>2. last \in LiveSeqs /\ last > cursor[r] /\ \A n \in items : n \in LiveSeqs /\ n > cursor[r]
  BY DEF Page, After
<1>3. LiveSeqs \subseteq Nat /\ cursor[r] \in Nat
  BY LiveIsFinite DEF IInv, ReadInv
<1>4. \A n \in LiveSeqs : cursor[r] < n /\ n <= last => n \in items
  BY <1>3, ClampType, PageIsPrefix DEF IInv
<1>5. items = {n \in LiveSeqs : cursor[r] < n /\ n <= last}
  BY <1>1, <1>2, <1>3, <1>4, Zenon
<1>6. seen' = [seen EXCEPT ![r] = @ \cup items]
  BY DEF SyncChannel
<1> QED
  BY <1>1, <1>2, <1>5, <1>6, Zenon

\* Reading a page keeps the invariant.
LEMMA SyncStep ==
    ASSUME IInv, NEW r \in Readers, NEW limit \in Nat, SyncChannel(r, limit)
    PROVE  IInv'
<1>1. PICK last \in LiveSeqs :
              /\ last > cursor[r]
              /\ cursor' = [cursor EXCEPT ![r] = last]
              /\ seen' = [seen EXCEPT ![r] = @ \cup {n \in LiveSeqs : cursor[r] < n /\ n <= last}]
  BY SyncReads
<1>2. UNCHANGED <<channel, msgs, deleted, clock, sendVars, cleaner>>
  BY DEF SyncChannel
<1>3. LiveSeqs \subseteq 1 .. channel.seq /\ LiveSeqs' = LiveSeqs /\ channel.seq \in Nat
  BY <1>2, LiveIsFinite DEF LiveSeqs, IInv, TablesInv
<1>4. ReadInv'
  <2>1. cursor' \in [Readers -> Nat] /\ seen' \in [Readers -> SUBSET Nat]
    <3>1. last \in Nat /\ {n \in LiveSeqs : cursor[r] < n /\ n <= last} \in SUBSET Nat
      <4>1. LiveSeqs \subseteq Nat
        BY <1>3
      <4> QED
        BY <4>1, Zenon
    <3>2. seen[r] \cup {n \in LiveSeqs : cursor[r] < n /\ n <= last} \in SUBSET Nat
      BY <3>1 DEF IInv, ReadInv
    <3> QED
      BY <1>1, <3>1, <3>2 DEF IInv, ReadInv
  <2>2. \A q \in Readers : cursor'[q] <= channel'.seq
    BY <1>1, <1>2, <1>3 DEF IInv, ReadInv
  <2>3. ASSUME NEW q \in Readers, NEW n \in LiveSeqs, n <= cursor'[q]
        PROVE  n \in seen'[q]
    <3>1. CASE q = r
      BY <1>1, <1>3, <2>3, <3>1 DEF IInv, ReadInv, SyncNeverSkips
    <3>2. CASE q # r
      BY <1>1, <2>3, <3>2 DEF IInv, ReadInv, SyncNeverSkips
    <3> QED
      BY <3>1, <3>2
  <2> QED
    BY <1>3, <2>1, <2>2, <2>3 DEF ReadInv, SyncNeverSkips
<1> QED
  BY <1>2, <1>4, TablesFrame, SendFrame, CleanFrame DEF IInv, TablesInv

-----------------------------------------------------------------------------
(***************************************************************************)
(* The invariant and what follows from it.                                 *)
(***************************************************************************)

\* An empty channel satisfies the invariant.
LEMMA InitIInv == Init => IInv
<1> SUFFICES ASSUME Init PROVE IInv
  OBVIOUS
<1>1. LiveSeqs = {} /\ Seqs = {} /\ Cardinality(LiveSeqs) = 0
  BY FS_EmptySet DEF Init, LiveSeqs, Seqs
<1>2. 1 .. channel.seq = {} /\ channel = [seq |-> 0, count |-> 0, autoDelete |-> 0]
  BY DEF Init
<1>3. TablesInv
  BY <1>1, <1>2 DEF Init, TablesInv, SeqsAndIdsUnique, CountExact, Seqs
<1>4. SendInv /\ CleanInv
  BY DEF Init, SendInv, SendStates, SessionsInv, AckedIsStored, NotSending, CleanInv, CleanStates,
         NotCleaning
<1>5. ReadInv
  BY <1>1, <1>2 DEF Init, ReadInv, SyncNeverSkips
<1> QED
  BY <1>3, <1>4, <1>5 DEF IInv

\* A restart keeps the invariant: what was committed stays.
LEMMA RestartStep ==
    ASSUME IInv, Restart
    PROVE  IInv'
<1>1. SendInv' /\ CleanInv'
  BY DEF Restart, IInv, SendInv, SendStates, SessionsInv, AckedIsStored, NotSending, CleanInv,
         CleanStates, NotCleaning
<1> QED
  BY <1>1, TablesFrame, ReadFrame, Zenon DEF Restart, IInv, TablesInv

\* Every step keeps the invariant.
LEMMA NextIInv == IInv /\ [Next]_vars => IInv'
<1> SUFFICES ASSUME IInv, [Next]_vars PROVE IInv'
  OBVIOUS
<1>1. ASSUME NEW s \in Sessions, Sending(s)
      PROVE  IInv'
  BY <1>1, ValidateStep, LookupStep, InsertStep, SendEndsStep DEF Sending
<1>2. ASSUME NEW k \in Cleaners, Cleaning(k)
      PROVE  IInv'
  BY <1>2, SelectStep, MarkDeletedStep, CleanupStartsStep DEF Cleaning
<1>3. CASE CleanupTick \/ \E a \in Admins, t \in AutoDeleteTimes : SetGroupAutoDelete(a, t)
  BY <1>3, CleanupStartsStep
<1>4. ASSUME NEW r \in Readers, NEW limit \in 0 .. (MaxSyncLimit + 1), SyncChannel(r, limit)
      PROVE  IInv'
  <2>1. limit \in Nat
    BY MessagesAssumption
  <2> QED
    BY <1>4, <2>1, SyncStep
<1>5. CASE Tick
  <2>1. clock' \in Nat /\ UNCHANGED <<channel, msgs, deleted, sendVars, cleaner, readVars>>
    BY <1>5 DEF Tick, IInv, TablesInv
  <2> QED
    BY <2>1, TablesFrame, SendFrame, CleanFrame, ReadFrame DEF IInv
<1>6. CASE UNCHANGED vars
  <2>1. clock' \in Nat /\ UNCHANGED <<channel, msgs, deleted, sendVars, cleaner, readVars>>
    BY <1>6 DEF vars, sendVars, readVars, IInv, TablesInv
  <2> QED
    BY <2>1, TablesFrame, SendFrame, CleanFrame, ReadFrame DEF IInv
<1> QED
  BY <1>1, <1>2, <1>3, <1>4, <1>5, <1>6, RestartStep DEF Next

\* The inductive invariant holds in every reachable state.
THEOREM Invariance == Spec => []IInv
BY InitIInv, NextIInv, PTL DEF Spec

\* The tables and the states of sessions, cleaners and readers stay well formed, and no
\* next_after_seq is ahead of message_seq.
THEOREM TypeCorrect == Spec => []TypeOK
<1>1. IInv => TypeOK
  <2>1. IInv => cursor \in [Readers -> 0 .. channel.seq]
    BY DEF IInv, TablesInv, ReadInv
  <2> QED
    BY <2>1 DEF IInv, TablesInv, SendInv, CleanInv, ReadInv, TypeOK, SendStates, CleanStates, Seqs
<1> QED
  BY <1>1, Invariance, PTL

\* With any number of concurrent senders, seqs are consecutive and unique, and a client id
\* is stored once per sender: Create never runs into the unique keys.
THEOREM GaplessAndUnique == Spec => []SeqsAndIdsUnique
<1>1. IInv => SeqsAndIdsUnique
  BY DEF IInv, TablesInv
<1> QED
  BY <1>1, Invariance, PTL

\* With any number of concurrent cleanups, message_count is exact.
THEOREM ExactCount == Spec => []CountExact
<1>1. IInv => CountExact
  BY DEF IInv, TablesInv
<1> QED
  BY <1>1, Invariance, PTL

\* Whatever was acknowledged is stored, under the acknowledged seq.
THEOREM AcksAreDurable == Spec => []AckedIsStored
<1>1. IInv => AckedIsStored
  BY DEF IInv, SendInv
<1> QED
  BY <1>1, Invariance, PTL

\* A reader that follows next_after_seq skips no live message.
THEOREM NothingSkipped == Spec => []SyncNeverSkips
<1>1. IInv => SyncNeverSkips
  BY Zenon DEF IInv, ReadInv
<1> QED
  BY <1>1, Invariance, PTL

-----------------------------------------------------------------------------
(***************************************************************************)
(* Refinement: ChannelMessages implements MessageLog.                      *)
(***************************************************************************)

LogOf(S) == {[seq |-> m.seq, sender |-> m.sender, cid |-> m.cid] : m \in S}

\* The live messages of the log are the rows with status 'normal', for every reader.
LEMMA LiveIsLogLive == Log!Live = LiveSeqs /\ \A r \in Readers : Log!LiveFor(r) = LiveSeqs
<1> DEFINE entry(m) == [seq |-> m.seq, sender |-> m.sender, cid |-> m.cid]
<1>1. {e.seq : e \in LogOf(msgs)} = {m.seq : m \in msgs}
  <2>1. \A m : entry(m).seq = m.seq
    OBVIOUS
  <2>2. LogOf(msgs) = {entry(m) : m \in msgs}
    BY DEF LogOf
  <2> HIDE DEF entry
  <2> QED
    BY <2>1, <2>2
<1>2. ASSUME NEW r \in Readers
      PROVE  {e \in LogOf(msgs) : e.sender \notin [q \in Readers |-> {}][r]} = LogOf(msgs)
  BY Zenon
<1> QED
  BY <1>1, <1>2 DEF Log!Live, Log!LiveFor, LiveSeqs, LogOf

\* An empty channel is an empty log.
LEMMA InitRefines == Init => Log!Init
BY DEF Init, Log!Init

\* The insert is an append.
LEMMA InsertRefines ==
    ASSUME IInv, NEW s \in Sessions, InsertAndCommit(s)
    PROVE  \E u \in Users, c \in ClientIds : Log!AppendMessage(u, c)
<1>1. /\ send[s].seq = channel.seq + 1
      /\ ~Stored(UserOf[s], send[s].cid) /\ send[s].cid \in ClientIds
  BY DEF InsertAndCommit, IInv, SendInv, SessionsInv
<1>2. UserOf[s] \in Users
  BY MessagesAssumption
<1>3. \A e \in LogOf(msgs) : ~(e.sender = UserOf[s] /\ e.cid = send[s].cid)
  BY <1>1 DEF LogOf, Stored
<1>4. LogOf(msgs') = LogOf(msgs) \cup {[seq |-> channel.seq + 1, sender |-> UserOf[s],
                                        cid |-> send[s].cid]}
  <2> DEFINE new == [seq |-> channel.seq + 1, sender |-> UserOf[s], cid |-> send[s].cid,
                     at |-> clock]
  <2>1. msgs' = msgs \cup {new}
    BY <1>1 DEF InsertAndCommit
  <2>2. new.seq = channel.seq + 1 /\ new.sender = UserOf[s] /\ new.cid = send[s].cid
    OBVIOUS
  <2> HIDE DEF new
  <2> QED
    BY <2>1, <2>2 DEF LogOf
<1>5. channel'.seq = channel.seq + 1
  BY <1>1 DEF InsertAndCommit, IInv, TablesInv
<1>6. UNCHANGED <<deleted, cursor, seen>>
  BY DEF InsertAndCommit, readVars
<1>7. PICK u \in Users, c \in ClientIds : u = UserOf[s] /\ c = send[s].cid
  BY <1>1, <1>2, Zenon
<1>8. Log!AppendMessage(u, c)
  BY <1>3, <1>4, <1>5, <1>6, <1>7, Zenon DEF Log!AppendMessage, LogOf
<1> QED
  BY <1>8

\* Marking rows deleted is an expiry of live messages.
LEMMA MarkDeletedRefines ==
    ASSUME IInv, NEW k \in Cleaners, MarkDeleted(k)
    PROVE  Log!Expire
<1> DEFINE affected == cleaner[k].rows \ deleted
<1>1. affected \in SUBSET Log!Live
  BY LiveIsLogLive DEF IInv, CleanInv, LiveSeqs, Seqs
<1>2. deleted' = deleted \cup affected /\ msgs' = msgs /\ channel'.seq = channel.seq
  BY DEF MarkDeleted, IInv, TablesInv
<1>3. UNCHANGED <<cursor, seen>>
  BY DEF MarkDeleted, readVars
<1> QED
  BY <1>1, <1>2, <1>3, Zenon DEF Log!Expire

\* A page of SyncChannel is an in-order read.
LEMMA SyncRefines ==
    ASSUME IInv, NEW r \in Readers, NEW limit \in Nat, SyncChannel(r, limit)
    PROVE  Log!Read(r)
<1>1. UNCHANGED <<channel, msgs, deleted>>
  BY DEF SyncChannel
<1> QED
  BY <1>1, SyncReads, LiveIsLogLive DEF Log!Read

\* Every step of the channel is a step of the log or leaves the log alone.
LEMMA NextRefines == IInv /\ [Next]_vars => [Log!Next]_(Log!logVars)
<1> SUFFICES ASSUME IInv, [Next]_vars PROVE [Log!Next]_(Log!logVars)
  OBVIOUS
<1> DEFINE Quiet == msgs' = msgs /\ deleted' = deleted /\ channel'.seq = channel.seq
                    /\ cursor' = cursor /\ seen' = seen
<1>1. ASSUME Quiet PROVE UNCHANGED Log!logVars
  BY <1>1 DEF Log!logVars
<1>2. ASSUME NEW s \in Sessions, Sending(s)
      PROVE  [Log!Next]_(Log!logVars)
  <2>1. CASE InsertAndCommit(s)
    BY <2>1, InsertRefines DEF Log!Next
  <2>2. CASE ~InsertAndCommit(s)
    <3>1. Quiet
      BY <1>2, <2>2 DEF Sending, ValidateMessage, LockAndLookup, AbortCreate, ReplyFails, AckMessage,
                        readVars
    <3> QED
      BY <1>1, <3>1
  <2> QED
    BY <2>1, <2>2
<1>3. ASSUME NEW k \in Cleaners, Cleaning(k)
      PROVE  [Log!Next]_(Log!logVars)
  <2>1. CASE MarkDeleted(k)
    BY <2>1, MarkDeletedRefines DEF Log!Next
  <2>2. CASE ~MarkDeleted(k)
    <3>1. Quiet
      BY <1>3, <2>2 DEF Cleaning, SelectExpired, CleanupFails, readVars
    <3> QED
      BY <1>1, <3>1, Zenon
  <2> QED
    BY <2>1, <2>2
<1>4. ASSUME NEW r \in Readers, NEW limit \in 0 .. (MaxSyncLimit + 1), SyncChannel(r, limit)
      PROVE  [Log!Next]_(Log!logVars)
  <2>1. limit \in Nat
    BY MessagesAssumption
  <2> QED
    BY <1>4, <2>1, SyncRefines DEF Log!Next
<1>5. ASSUME NEW a \in Admins, NEW t \in AutoDeleteTimes, SetGroupAutoDelete(a, t)
      PROVE  UNCHANGED Log!logVars
  <2>1. Quiet
    BY <1>5 DEF SetGroupAutoDelete, readVars, IInv, TablesInv
  <2> QED
    BY <1>1, <2>1
<1>6. CASE CleanupTick \/ Tick \/ Restart \/ UNCHANGED vars
  <2>1. Quiet
    BY <1>6 DEF CleanupTick, Tick, Restart, vars, readVars
  <2> QED
    BY <1>1, <2>1
<1> QED
  BY <1>2, <1>3, <1>4, <1>5, <1>6 DEF Next

\* The concurrent implementation of a channel behaves like the append-only log.
THEOREM Refinement == Spec => ImplementsLog
BY InitRefines, NextRefines, Invariance, PTL DEF Spec, ImplementsLog, Log!Spec

-----------------------------------------------------------------------------
(***************************************************************************)
(* What the liveness properties rest on: no reader and no cleanup is given *)
(* an empty page while there is something for it.                          *)
(***************************************************************************)

\* The safety half of EveryMessageIsSynced: while there are live messages after a reader's
\* cursor, SyncChannel returns some of them for every limit, and the cursor moves to the
\* last one (clamping, LIMIT and the cut of the row that shows has_more).
THEOREM SyncMovesOn ==
    Spec => [](\A r \in Readers, limit \in Nat : After(r) # {} =>
                  \E last \in Page(r, ClampLimit(limit)) :
                     last > cursor[r] /\ \A n \in Page(r, ClampLimit(limit)) : n <= last)
<1>1. ASSUME IInv, NEW r \in Readers, NEW limit \in Nat, After(r) # {}
      PROVE  \E last \in Page(r, ClampLimit(limit)) :
                last > cursor[r] /\ \A n \in Page(r, ClampLimit(limit)) : n <= last
  <2>1. After(r) \subseteq 0 .. channel.seq /\ channel.seq \in Nat
    <3>1. channel.seq \in Nat
      BY <1>1 DEF IInv, TablesInv
    <3>2. LiveSeqs \subseteq 1 .. channel.seq
      BY <1>1, LiveIsFinite DEF IInv
    <3>3. 1 .. channel.seq \subseteq 0 .. channel.seq
      BY <3>1
    <3>4. After(r) \subseteq LiveSeqs
      BY DEF After
    <3> QED
      BY <3>1, <3>2, <3>3, <3>4, Zenon
  <2>2. ClampLimit(limit) \in Nat \ {0}
    BY ClampType
  <2>3. Page(r, ClampLimit(limit)) = FirstOf(After(r), ClampLimit(limit))
    BY DEF Page, FirstOf
  <2>4. PICK last \in FirstOf(After(r), ClampLimit(limit)) :
           \A n \in FirstOf(After(r), ClampLimit(limit)) : n <= last
    BY <1>1, <2>1, <2>2, PageHasLast
  <2>5. last > cursor[r]
    BY DEF FirstOf, After
  <2> QED
    BY <2>3, <2>4, <2>5
<1>2. IInv => \A r \in Readers, limit \in Nat : After(r) # {} =>
                  \E last \in Page(r, ClampLimit(limit)) :
                     last > cursor[r] /\ \A n \in Page(r, ClampLimit(limit)) : n <= last
  BY <1>1
<1> QED
  BY <1>2, Invariance, PTL

\* The safety half of ExpiredIsDeleted: while rows are expired, the SELECT of a cleanup
\* finds some of them, for every limit (ORDER BY created_at, id has a first row).
THEOREM CleanupMovesOn ==
    Spec => [](ExpiredRows # {} =>
                  \E n \in ExpiredRows : Cardinality({m \in ExpiredRows : Older(m, n)}) < CleanupLimit)
<1>1. ASSUME IInv, ExpiredRows # {}
      PROVE  \E n \in ExpiredRows : Cardinality({m \in ExpiredRows : Older(m, n)}) < CleanupLimit
  <2>1. \A m \in ExpiredRows : m.at \in Nat /\ m.seq \in Nat
    BY <1>1 DEF ExpiredRows, IInv, TablesInv, Messages
  <2>2. PICK t \in {m.at : m \in ExpiredRows} : \A u \in {m.at : m \in ExpiredRows} : t <= u
    <3>1. {m.at : m \in ExpiredRows} \subseteq Nat
      BY <2>1
    <3>2. {m.at : m \in ExpiredRows} # {}
      BY <1>1, Zenon
    <3> QED
      BY <3>1, <3>2, LeastOf, Zenon
  <2> DEFINE First == {m \in ExpiredRows : m.at = t}
  <2>3. PICK q \in {m.seq : m \in First} : \A u \in {m.seq : m \in First} : q <= u
    <3>1. {m.seq : m \in First} \subseteq Nat
      BY <2>1
    <3>2. {m.seq : m \in First} # {}
      BY <2>2
    <3> HIDE DEF First
    <3> QED
      BY <3>1, <3>2, LeastOf, Zenon
  <2>4. PICK n \in First : n.seq = q
    BY <2>3
  <2>5. \A m \in ExpiredRows : ~Older(m, n)
    <3> SUFFICES ASSUME NEW m \in ExpiredRows PROVE ~Older(m, n)
      OBVIOUS
    <3>1. n.at = t /\ t <= m.at /\ t \in Nat /\ m.at \in Nat /\ m.seq \in Nat /\ n.seq \in Nat
      BY <2>1, <2>2, <2>4
    <3>2. m.at = t => n.seq <= m.seq
      BY <2>3, <2>4
    <3> QED
      BY <3>1, <3>2 DEF Older
  <2>6. Cardinality({m \in ExpiredRows : Older(m, n)}) = 0
    <3>1. {m \in ExpiredRows : Older(m, n)} = {}
      BY <2>5
    <3> QED
      BY <3>1, FS_EmptySet, Zenon
  <2>7. 0 < CleanupLimit
    BY MessagesAssumption
  <2>8. n \in ExpiredRows
    OBVIOUS
  <2> HIDE DEF First
  <2> QED
    BY <2>6, <2>7, <2>8, Zenon
<1>2. IInv => (ExpiredRows # {} =>
                  \E n \in ExpiredRows : Cardinality({m \in ExpiredRows : Older(m, n)}) < CleanupLimit)
  BY <1>1
<1> QED
  BY <1>2, Invariance, PTL

=============================================================================
