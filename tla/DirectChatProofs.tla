-------------------------- MODULE DirectChatProofs ---------------------------
(***************************************************************************)
(* Proofs about DirectChat, for any users, sessions, client ids and        *)
(* limits.  The invariant has four parts: the tables and who may change    *)
(* them, what requests know of stored messages, the acknowledgements, and  *)
(* the cursors.                                                            *)
(***************************************************************************)
EXTENDS DirectChat, PagingLemmas, FiniteSetTheorems, TLAPS

Places == {"idle", "missing", "resolved", "looked", "locked", "stored", "pushing", "acking", "ackStored"}
MsgRows == [seq : Nat \ {0}, sender : Users, cid : ClientIds]

\* The one row of direct_conversations that two users can have.
ThePair == <<UserLow, UserHigh>>

Types ==
    /\ conv \in [exists : BOOLEAN, lastSeq : Nat]
    /\ pairs \subseteq {ThePair} /\ (conv.exists <=> ThePair \in pairs)
    /\ msgs \subseteq MsgRows
    /\ acked \subseteq {m.seq : m \in msgs}
    /\ rowLock \in Sessions \cup {NoSession}
    /\ work \in [Sessions -> Works]
    /\ told \subseteq msgs
    /\ pushes \in [MessageIds -> Nat]
    /\ peerAcks \in [MessageIds -> Nat]
    /\ cursor \in [Users -> Nat]
    /\ seen \in [Users -> SUBSET Nat]

\* The session that holds the row, and no other, has the next seq, and its client id is
\* not stored.
LockInv ==
    \A s \in Sessions :
        /\ work[s].pc = "locked" <=> rowLock = s
        /\ work[s].pc = "locked" =>
              work[s].seq = conv.lastSeq + 1 /\ Matching(UserOf[s], work[s].cid) = {}

\* What a send has come from: a conversation that exists, and then a message that does.
SendInv ==
    /\ msgs # {} => conv.exists
    /\ \A s \in Sessions :
        /\ work[s].pc \in {"resolved", "looked", "locked", "stored", "pushing"} =>
              work[s].cid \in ClientIds /\ conv.exists
        /\ work[s].pc \in {"stored", "pushing"} =>
              [seq |-> work[s].seq, sender |-> UserOf[s], cid |-> work[s].cid] \in msgs

\* The request whose UPDATE set the time is the only one with an event for the message,
\* and until it is done none was pushed.
AckInv ==
    \A s \in Sessions :
        /\ work[s].pc \in {"acking", "ackStored"} => \E m \in msgs : m.seq = work[s].seq
        /\ work[s].pc = "ackStored" => work[s].seq \in acked
        /\ work[s].pc = "acking" => work[s].event = FALSE
        /\ work[s].pc = "ackStored" /\ work[s].event =>
              /\ \A t \in Sessions :
                    work[t].pc = "ackStored" /\ work[t].event /\ work[t].seq = work[s].seq => t = s
              /\ \A m \in msgs : m.seq = work[s].seq => peerAcks[<<m.sender, m.cid>>] = 0

CursorInv == \A u \in Users : cursor[u] <= conv.lastSeq

IInv ==
    /\ Types /\ SeqsAndIdsUnique /\ LockInv /\ SendInv
    /\ ToldIsStored /\ AckInv /\ PeerAckOnce /\ CursorInv /\ PendingNeverSkipped

-----------------------------------------------------------------------------
\* Nothing is stored and nobody has asked for anything.
LEMMA InitIInv == Init => IInv
<1> SUFFICES ASSUME Init PROVE IInv
  OBVIOUS
<1> USE DirectChatAssumption DEF Init
<1>1. NoWork \in Works
  BY DEF NoWork, Works
<1>2. Types
  BY <1>1 DEF Types
<1>3. SeqsAndIdsUnique
  BY DEF SeqsAndIdsUnique
<1>4. LockInv /\ SendInv /\ AckInv
  BY DEF LockInv, SendInv, AckInv, NoWork
<1>5. ToldIsStored /\ PeerAckOnce /\ CursorInv /\ PendingNeverSkipped
  BY DEF ToldIsStored, PeerAckOnce, CursorInv, PendingNeverSkipped, SentTo
<1> QED
  BY <1>2, <1>3, <1>4, <1>5 DEF IInv

\* What Goto does to the sessions.
LEMMA GotoMoves ==
  ASSUME IInv, NEW s \in Sessions, NEW w \in Works, Goto(s, w)
  PROVE  /\ work' \in [Sessions -> Works] /\ work'[s] = w
         /\ \A t \in Sessions : t # s => work'[t] = work[t]
BY Zenon DEF IInv, Types, Goto

\* The values a request starts with have their types.
LEMMA Literals == 0 \in Nat /\ TRUE \in BOOLEAN /\ FALSE \in BOOLEAN
OBVIOUS

\* At gives a place in the code.
LEMMA AtTypes ==
  ASSUME NEW p \in Places, NEW c \in ClientIds \cup {NoClientId}, NEW n \in Nat, NEW e \in BOOLEAN
  PROVE  /\ At(p, c) \in Works
         /\ [At(p, c) EXCEPT !.seq = n] \in Works
         /\ [At(p, c) EXCEPT !.seq = n, !.event = e] \in Works
<1>1. \A w \in Works : [w EXCEPT !.seq = n] \in Works /\ [w EXCEPT !.seq = n, !.event = e] \in Works
  BY Zenon DEF Works
<1>2. At(p, c) \in Works
  BY DEF At, Works, Places
<1> QED
  BY <1>1, <1>2, Zenon

\* A request moves on to where it may be, and the tables, the lock and the events stay.
LEMMA RequestMoves ==
  ASSUME IInv, NEW s \in Sessions, NEW w \in Works, Goto(s, w), UNCHANGED <<tables, rowLock, events, readVars>>,
         work[s].pc # "locked", w.pc # "locked",
         w.pc \in {"resolved", "looked", "stored", "pushing"} => w.cid \in ClientIds /\ conv.exists,
         w.pc \in {"stored", "pushing"} => [seq |-> w.seq, sender |-> UserOf[s], cid |-> w.cid] \in msgs,
         w.pc \in {"acking", "ackStored"} => w.event = FALSE /\ \E m \in msgs : m.seq = w.seq,
         w.pc = "ackStored" => w.seq \in acked
  PROVE  IInv'
<1> USE DEF tables, events, readVars
<1>1. /\ work' \in [Sessions -> Works] /\ work'[s] = w
      /\ \A t \in Sessions : t # s => work'[t] = work[t]
  BY GotoMoves
<1>2. Types'
  BY <1>1 DEF IInv, Types
<1>3. LockInv'
  BY <1>1 DEF IInv, LockInv, Matching
<1>4. SendInv'
  BY <1>1 DEF IInv, SendInv
<1>5. AckInv'
  BY <1>1 DEF IInv, AckInv
<1>6. (SeqsAndIdsUnique /\ ToldIsStored /\ PeerAckOnce /\ CursorInv /\ PendingNeverSkipped)'
  BY DEF IInv, SeqsAndIdsUnique, ToldIsStored, PeerAckOnce, CursorInv, PendingNeverSkipped, SentTo
<1> QED
  BY <1>2, <1>3, <1>4, <1>5, <1>6 DEF IInv

\* Where a request ends.
LEMMA NoWorkTypes == NoWork \in Works /\ NoWork.pc = "idle"
BY DEF NoWork, Works

\* Both users look for the same row.
LEMMA PairOfIsThePair == \A s \in Sessions : PairOf(s) = ThePair
<1>1. \A s \in Sessions : UserOf[s] \in {UserLow, UserHigh}
  BY DirectChatAssumption
<1> QED
  BY <1>1, DirectChatAssumption DEF PairOf, Peer, NormalizeUserPair, ThePair

\* OPEN_DIRECT_CONVERSATION and the first statement of a send.
LEMMA OpenStep ==
  ASSUME IInv, NEW s \in Sessions, NEW c \in ClientIds \cup {NoClientId},
         GetConversation(s, c) \/ (c \in ClientIds /\ SendToConversation(s, c))
  PROVE  IInv'
<1>1. /\ work[s].pc = "idle" /\ UNCHANGED <<tables, rowLock, events, readVars>>
      /\ \/ conv.exists /\ c \in ClientIds /\ Goto(s, At("resolved", c))
         \/ Goto(s, At("missing", c))
  <2>1. PairOf(s) \in pairs => conv.exists
    BY PairOfIsThePair DEF IInv, Types
  <2> QED
    BY <2>1, Zenon DEF GetConversation, SendToConversation
<1>2. At("resolved", c) \in Works /\ At("missing", c) \in Works
  BY AtTypes, Literals, Zenon DEF Places
<1>3. At("resolved", c).pc = "resolved" /\ At("missing", c).pc = "missing" /\ At("resolved", c).cid = c
  BY DEF At
<1>4. CASE conv.exists /\ c \in ClientIds /\ Goto(s, At("resolved", c))
  BY <1>1, <1>2, <1>3, <1>4, RequestMoves, Zenon
<1>5. CASE Goto(s, At("missing", c))
  BY <1>1, <1>2, <1>3, <1>5, RequestMoves, Zenon
<1> QED
  BY <1>1, <1>4, <1>5

\* A conversation that does not exist has no messages, so that its new row starts at 0.
LEMMA InsertConversationStep ==
  ASSUME IInv, NEW s \in Sessions, InsertConversation(s)
  PROVE  IInv'
<1> USE DEF InsertConversation, tables, events, readVars
<1>1. work[s] \in Works /\ work[s].cid \in ClientIds \cup {NoClientId}
  BY DEF IInv, Types, Works
<1>2. CASE /\ PairOf(s) \notin pairs /\ pairs' = pairs \cup {PairOf(s)}
           /\ conv' = [exists |-> TRUE, lastSeq |-> 0]
           /\ Goto(s, IF work[s].cid = NoClientId THEN NoWork ELSE At("resolved", work[s].cid))
  <2> DEFINE w == IF work[s].cid = NoClientId THEN NoWork ELSE At("resolved", work[s].cid)
  <2>1. At("resolved", work[s].cid) \in Works
    BY <1>1, AtTypes, Literals, Zenon DEF Places
  <2>2. w \in Works /\ w.pc \in {"idle", "resolved"} /\ (w.pc = "resolved" => w.cid \in ClientIds)
    BY <1>1, <2>1, NoWorkTypes DEF At
  <2>3. /\ work' \in [Sessions -> Works] /\ work'[s] = w
        /\ \A t \in Sessions : t # s => work'[t] = work[t]
    BY <1>2, <2>2, GotoMoves
  <2>4. msgs = {} /\ conv.lastSeq = 0 /\ conv'.lastSeq = 0 /\ conv'.exists
    <3>1. msgs = {}
      BY <1>2, PairOfIsThePair DEF IInv, Types, SendInv
    <3>2. 1 .. conv.lastSeq = {}
      BY <3>1 DEF IInv, SeqsAndIdsUnique
    <3> QED
      BY <1>2, <3>1, <3>2 DEF IInv, Types
  <2>5. Types'
    BY <1>2, <2>3, PairOfIsThePair DEF IInv, Types
  <2>6. LockInv'
    BY <2>2, <2>3, <2>4 DEF IInv, LockInv, Matching
  <2>7. SendInv'
    BY <2>2, <2>3, <2>4 DEF IInv, SendInv
  <2>8. AckInv'
    BY <2>2, <2>3 DEF IInv, AckInv
  <2>9. (SeqsAndIdsUnique /\ ToldIsStored /\ PeerAckOnce /\ CursorInv /\ PendingNeverSkipped)'
    BY <2>4 DEF IInv, SeqsAndIdsUnique, ToldIsStored, PeerAckOnce, CursorInv, PendingNeverSkipped, SentTo
  <2> QED
    BY <2>5, <2>6, <2>7, <2>8, <2>9, Zenon DEF IInv
<1>3. CASE Goto(s, NoWork) /\ UNCHANGED <<conv, pairs>>
  BY <1>3, NoWorkTypes, RequestMoves, Zenon
<1> QED
  BY <1>2, <1>3

\* The lookup outside the transaction: a message found there exists.
LEMMA LookupStep ==
  ASSUME IInv, NEW s \in Sessions, LookupDuplicate(s)
  PROVE  IInv'
<1> DEFINE c == work[s].cid
<1>1. work[s].pc = "resolved" /\ c \in ClientIds /\ conv.exists /\ UNCHANGED <<tables, rowLock, events, readVars>>
  BY Zenon DEF LookupDuplicate, IInv, SendInv
<1>2. CASE \E m \in Matching(UserOf[s], c) : Goto(s, [At("stored", c) EXCEPT !.seq = m.seq])
  <2>1. PICK m \in Matching(UserOf[s], c) : Goto(s, [At("stored", c) EXCEPT !.seq = m.seq])
    BY <1>2, Zenon
  <2> DEFINE w == [At("stored", c) EXCEPT !.seq = m.seq]
  <2>2. m \in msgs /\ m \in MsgRows /\ m.sender = UserOf[s] /\ m.cid = c
    BY DEF Matching, IInv, Types
  <2>3. w \in Works
    BY <1>1, <2>2, AtTypes, Literals, Zenon DEF MsgRows, Places
  <2>4. w.pc = "stored" /\ w.cid = c /\ w.seq = m.seq
    BY DEF At
  <2>5. [seq |-> w.seq, sender |-> UserOf[s], cid |-> w.cid] = m
    BY <2>2, <2>4 DEF MsgRows
  <2> QED
    BY <1>1, <2>1, <2>2, <2>3, <2>4, <2>5, RequestMoves, Zenon
<1>3. CASE Goto(s, At("looked", c))
  <2>1. At("looked", c) \in Works /\ At("looked", c).pc = "looked" /\ At("looked", c).cid = c
    <3>1. At("looked", c) \in Works
      BY <1>1, AtTypes, Literals, Zenon DEF Places
    <3> QED
      BY <3>1 DEF At
  <2> QED
    BY <1>1, <1>3, <2>1, RequestMoves, Zenon
<1> QED
  BY <1>2, <1>3 DEF LookupDuplicate

\* The lock, with the lookup that counts.
LEMMA LockStep ==
  ASSUME IInv, NEW s \in Sessions, LockConversation(s)
  PROVE  IInv'
<1> DEFINE c == work[s].cid
<1>1. /\ work[s].pc = "looked" /\ rowLock = NoSession /\ c \in ClientIds /\ conv.exists
      /\ UNCHANGED <<tables, events, readVars>>
  BY Zenon DEF LockConversation, IInv, SendInv
<1>2. CASE \E m \in Matching(UserOf[s], c) :
              Goto(s, [At("stored", c) EXCEPT !.seq = m.seq, !.event = TRUE]) /\ UNCHANGED rowLock
  <2>1. PICK m \in Matching(UserOf[s], c) :
            Goto(s, [At("stored", c) EXCEPT !.seq = m.seq, !.event = TRUE]) /\ UNCHANGED rowLock
    BY <1>2, Zenon
  <2> DEFINE w == [At("stored", c) EXCEPT !.seq = m.seq, !.event = TRUE]
  <2>2. m \in msgs /\ m \in MsgRows /\ m.sender = UserOf[s] /\ m.cid = c
    BY DEF Matching, IInv, Types
  <2>3. w \in Works
    BY <1>1, <2>2, AtTypes, Literals, Zenon DEF MsgRows, Places
  <2>4. w.pc = "stored" /\ w.cid = c /\ w.seq = m.seq
    BY DEF At
  <2>5. [seq |-> w.seq, sender |-> UserOf[s], cid |-> w.cid] = m
    BY <2>2, <2>4 DEF MsgRows
  <2> QED
    BY <1>1, <2>1, <2>2, <2>3, <2>4, <2>5, RequestMoves, Zenon
<1>3. CASE /\ Matching(UserOf[s], c) = {} /\ rowLock' = s
           /\ Goto(s, [At("locked", c) EXCEPT !.seq = conv.lastSeq + 1])
  <2> DEFINE w == [At("locked", c) EXCEPT !.seq = conv.lastSeq + 1]
  <2>1. conv.lastSeq + 1 \in Nat
    BY DEF IInv, Types
  <2>2. w \in Works
    BY <1>1, <2>1, AtTypes, Literals, Zenon DEF Places
  <2>3. w.pc = "locked" /\ w.cid = c /\ w.seq = conv.lastSeq + 1
    BY DEF At
  <2>4. /\ work' \in [Sessions -> Works] /\ work'[s] = w
        /\ \A t \in Sessions : t # s => work'[t] = work[t]
    BY <1>3, <2>2, GotoMoves
  <2>a. work'[s].pc = "locked" /\ work'[s].cid = c /\ work'[s].seq = conv.lastSeq + 1 /\ c \in ClientIds
    BY <1>1, <2>3, <2>4
  <2> HIDE DEF w
  <2> USE <1>1 DEF tables, events, readVars
  <2>5. Types'
    BY <1>3, <2>4 DEF IInv, Types
  <2>6. LockInv'
    <3>1. Matching(UserOf[s], work[s].cid)' = {}
      BY <1>3, <2>a DEF Matching
    <3>2. \A t \in Sessions : work[t].pc # "locked"
      BY DirectChatAssumption DEF IInv, LockInv
    <3> QED
      BY <1>3, <2>a, <2>4, <3>1, <3>2 DEF LockInv
  <2>7. SendInv'
    BY <2>a, <2>4, Zenon DEF IInv, SendInv
  <2>8. AckInv'
    <3>1. \A t \in Sessions : work'[t].pc \in {"acking", "ackStored"} => t # s /\ work'[t] = work[t]
      BY <2>a, <2>4
    <3> QED
      BY <3>1 DEF IInv, AckInv
  <2>9. (SeqsAndIdsUnique /\ ToldIsStored /\ PeerAckOnce /\ CursorInv /\ PendingNeverSkipped)'
    BY DEF IInv, SeqsAndIdsUnique, ToldIsStored, PeerAckOnce, CursorInv, PendingNeverSkipped, SentTo
  <2> QED
    BY <2>5, <2>6, <2>7, <2>8, <2>9 DEF IInv
<1> QED
  BY <1>2, <1>3, Zenon DEF LockConversation

\* The insert: the seq is the next one and the client id is new, as they were at the lookup,
\* for the row has been locked since.
LEMMA InsertMessageStep ==
  ASSUME IInv, NEW s \in Sessions, InsertDirectMessage(s)
  PROVE  IInv'
<1> DEFINE n == [seq |-> work[s].seq, sender |-> UserOf[s], cid |-> work[s].cid]
           w == [work[s] EXCEPT !.pc = "stored", !.event = TRUE]
<1>1. /\ work[s].pc = "locked" /\ msgs' = msgs \cup {n} /\ conv' = [conv EXCEPT !.lastSeq = work[s].seq]
      /\ rowLock' = NoSession /\ Goto(s, w) /\ UNCHANGED <<pairs, acked, told, pushes, peerAcks, cursor, seen>>
  BY DEF InsertDirectMessage, events, readVars
<1>2. /\ rowLock = s /\ work[s].seq = conv.lastSeq + 1 /\ Matching(UserOf[s], work[s].cid) = {}
      /\ work[s].cid \in ClientIds /\ conv.exists
  BY <1>1, Zenon DEF IInv, LockInv, SendInv
<1>3. /\ conv'.exists /\ conv'.lastSeq = conv.lastSeq + 1 /\ conv.lastSeq \in Nat
      /\ conv' \in [exists : BOOLEAN, lastSeq : Nat]
  BY <1>1, <1>2 DEF IInv, Types
<1>4. n \in MsgRows /\ n.seq = conv.lastSeq + 1 /\ n.sender = UserOf[s] /\ n.cid = work[s].cid
  BY <1>2, <1>3, DirectChatAssumption DEF MsgRows
<1>5. work[s] \in Works /\ w \in Works /\ w.pc = "stored" /\ w.cid = work[s].cid /\ w.seq = work[s].seq
  BY Zenon DEF IInv, Types, Works
<1>6. /\ work' \in [Sessions -> Works] /\ work'[s] = w
      /\ \A t \in Sessions : t # s => work'[t] = work[t]
  BY <1>1, <1>5, GotoMoves
<1>7. work'[s].pc = "stored" /\ work'[s].cid = n.cid /\ work'[s].seq = n.seq
  BY <1>4, <1>5, <1>6
<1>8. n = [seq |-> work'[s].seq, sender |-> UserOf[s], cid |-> work'[s].cid]
  BY <1>7, <1>4
<1>9. \A m \in msgs : m \in MsgRows /\ m.seq \in 1..conv.lastSeq /\ m.seq # n.seq /\ ~(m.sender = n.sender /\ m.cid = n.cid)
  BY <1>2, <1>3, <1>4 DEF IInv, Types, SeqsAndIdsUnique, Matching
<1> HIDE DEF n, w
<1>10. Types'
  BY <1>1, <1>2, <1>3, <1>4, <1>6 DEF IInv, Types
<1>11. SeqsAndIdsUnique'
  <2>1. {m.seq : m \in msgs'} = {m.seq : m \in msgs} \cup {n.seq}
    BY <1>1
  <2>2. {m.seq : m \in msgs} = 1 .. conv.lastSeq
    BY DEF IInv, SeqsAndIdsUnique
  <2>3. {m.seq : m \in msgs'} = 1 .. conv'.lastSeq
    BY <1>3, <1>4, <2>1, <2>2
  <2>4. \A m, k \in msgs' : m.seq = k.seq \/ (m.sender = k.sender /\ m.cid = k.cid) => m = k
    BY <1>1, <1>9 DEF IInv, SeqsAndIdsUnique
  <2> QED
    BY <2>3, <2>4 DEF SeqsAndIdsUnique
<1>12. LockInv'
  <2>1. \A t \in Sessions : t # s => work[t].pc # "locked"
    BY <1>2 DEF IInv, LockInv
  <2> QED
    BY <1>1, <1>6, <1>7, <2>1, DirectChatAssumption DEF LockInv
<1>13. SendInv'
  BY <1>1, <1>2, <1>3, <1>4, <1>6, <1>7, <1>8 DEF IInv, SendInv
<1>14. AckInv'
  <2>1. \A t \in Sessions : work'[t].pc \in {"acking", "ackStored"} => t # s /\ work'[t] = work[t]
    BY <1>6, <1>7
  <2>2. \A t \in Sessions : work[t].pc \in {"acking", "ackStored"} => work[t].seq # n.seq
    BY <1>9 DEF IInv, AckInv
  <2> QED
    BY <1>1, <2>1, <2>2 DEF IInv, AckInv
<1>15. ToldIsStored' /\ PeerAckOnce'
  BY <1>1 DEF IInv, ToldIsStored, PeerAckOnce
<1>16. CursorInv'
  BY <1>1, <1>3 DEF IInv, CursorInv, Types
<1>17. PendingNeverSkipped'
  <2>1. \A u \in Users : ~(n.seq <= cursor[u])
    BY <1>3, <1>4 DEF IInv, CursorInv, Types
  <2> QED
    BY <1>1, <2>1 DEF IInv, PendingNeverSkipped, SentTo
<1> QED
  BY <1>10, <1>11, <1>12, <1>13, <1>14, <1>15, <1>16, <1>17 DEF IInv

\* A send fails; a transaction that held the row is rolled back.
LEMMA SendFailsStep ==
  ASSUME IInv, NEW s \in Sessions, SendFails(s)
  PROVE  IInv'
<1> USE DEF SendFails, tables, events, readVars
<1>1. CASE work[s].pc # "locked"
  <2>1. UNCHANGED rowLock
    BY <1>1 DEF IInv, LockInv
  <2> QED
    BY <1>1, <2>1, NoWorkTypes, RequestMoves, Zenon
<1>2. CASE work[s].pc = "locked"
  <2>1. rowLock = s /\ rowLock' = NoSession
    BY <1>2 DEF IInv, LockInv
  <2>2. /\ work' \in [Sessions -> Works] /\ work'[s] = NoWork
        /\ \A t \in Sessions : t # s => work'[t] = work[t]
    BY NoWorkTypes, GotoMoves
  <2>3. Types'
    BY <2>1, <2>2 DEF IInv, Types
  <2>4. LockInv'
    BY <2>1, <2>2, NoWorkTypes, DirectChatAssumption, Zenon DEF IInv, LockInv
  <2>5. SendInv' /\ AckInv'
    <3>1. SendInv /\ AckInv
      BY DEF IInv
    <3>2. SendInv'
      BY <2>2, <3>1, NoWorkTypes DEF SendInv
    <3>3. AckInv'
      BY <2>2, <3>1, NoWorkTypes DEF AckInv
    <3> QED
      BY <3>2, <3>3
  <2>6. (SeqsAndIdsUnique /\ ToldIsStored /\ PeerAckOnce /\ CursorInv /\ PendingNeverSkipped)'
    BY DEF IInv, SeqsAndIdsUnique, ToldIsStored, PeerAckOnce, CursorInv, PendingNeverSkipped, SentTo
  <2> QED
    BY <2>3, <2>4, <2>5, <2>6 DEF IInv
<1> QED
  BY <1>1, <1>2, Zenon

\* The answer to the sender, and the push to the recipient.
LEMMA TellStep ==
  ASSUME IInv, NEW s \in Sessions, AckSender(s) \/ PushMessage(s)
  PROVE  IInv'
<1> DEFINE n == [seq |-> work[s].seq, sender |-> UserOf[s], cid |-> work[s].cid]
<1>1. /\ work[s].pc \in {"stored", "pushing"} /\ UNCHANGED <<tables, rowLock, peerAcks, readVars>>
      /\ n \in msgs /\ work[s].cid \in ClientIds /\ conv.exists
  BY DEF AckSender, PushMessage, IInv, SendInv
<1>2. PICK w \in {NoWork, [work[s] EXCEPT !.pc = "pushing"]} : Goto(s, w)
  BY DEF AckSender, PushMessage
<1>3. [work[s] EXCEPT !.pc = "pushing"] \in Works
  BY DEF IInv, Types, Works
<1>4. w \in Works /\ w.pc \in {"idle", "pushing"} /\ (w.pc = "pushing" => w.cid = work[s].cid /\ w.seq = work[s].seq)
  BY <1>2, <1>3, NoWorkTypes DEF IInv, Types, Works
<1>5. /\ work' \in [Sessions -> Works] /\ work'[s] = w
      /\ \A t \in Sessions : t # s => work'[t] = work[t]
  BY <1>2, <1>4, GotoMoves
<1> USE DEF tables, readVars
<1>6. told' \subseteq msgs
  BY <1>1 DEF AckSender, PushMessage, IInv, Types
<1>7. <<UserOf[s], work[s].cid>> \in MessageIds
  BY <1>1, DirectChatAssumption DEF MessageIds
<1>8. pushes' \in [MessageIds -> Nat] /\ \A i \in MessageIds : pushes'[i] = pushes[i] \/ i = <<UserOf[s], work[s].cid>>
  BY <1>7 DEF AckSender, PushMessage, IInv, Types
<1>9. Types'
  BY <1>1, <1>5, <1>6, <1>8 DEF IInv, Types
<1>10. ToldIsStored'
  <2>1. n.sender = UserOf[s] /\ n.cid = work[s].cid
    OBVIOUS
  <2> QED
    BY <1>1, <1>6, <1>8, <2>1 DEF IInv, ToldIsStored
<1>11. LockInv'
  BY <1>1, <1>4, <1>5 DEF IInv, LockInv, Matching
<1>12. SendInv'
  BY <1>1, <1>4, <1>5 DEF IInv, SendInv
<1>13. AckInv'
  <2>1. \A t \in Sessions : work'[t].pc \in {"acking", "ackStored"} => t # s /\ work'[t] = work[t]
    BY <1>4, <1>5
  <2> QED
    BY <1>1, <2>1 DEF IInv, AckInv
<1>14. (SeqsAndIdsUnique /\ PeerAckOnce /\ CursorInv /\ PendingNeverSkipped)'
  BY <1>1 DEF IInv, SeqsAndIdsUnique, PeerAckOnce, CursorInv, PendingNeverSkipped, SentTo
<1> QED
  BY <1>9, <1>10, <1>11, <1>12, <1>13, <1>14 DEF IInv

\* An acknowledgement looks at its message.
LEMMA AckLookupStep ==
  ASSUME IInv, NEW s \in Sessions, NEW m \in msgs, AckLookup(s, m)
  PROVE  IInv'
<1> DEFINE p == IF m.seq \in acked THEN "ackStored" ELSE "acking"
           w == [At(p, m.cid) EXCEPT !.seq = m.seq]
<1>1. work[s].pc = "idle" /\ Goto(s, w) /\ UNCHANGED <<tables, rowLock, events, readVars>>
  BY DEF AckLookup
<1>2. m.seq \in Nat /\ m.cid \in ClientIds /\ p \in Places
  BY DEF IInv, Types, MsgRows, Places
<1>3. w \in Works
  BY <1>2, AtTypes, Literals, Zenon
<1>4. w.pc = p /\ w.seq = m.seq /\ w.event = FALSE
  BY DEF At
<1>5. w.pc \in {"acking", "ackStored"} /\ (w.pc = "ackStored" => w.seq \in acked)
  BY <1>4
<1> HIDE DEF w, p
<1> QED
  BY <1>1, <1>3, <1>4, <1>5, RequestMoves, Zenon

\* An acknowledgement gives up.
LEMMA AckFailsStep ==
  ASSUME IInv, NEW s \in Sessions, AckFails(s)
  PROVE  IInv'
BY NoWorkTypes, RequestMoves, Zenon DEF AckFails

\* The conditional UPDATE: a message that nobody has acknowledged has no event yet.
LEMMA AckUpdateStep ==
  ASSUME IInv, NEW s \in Sessions, AckUpdate(s)
  PROVE  IInv'
<1> DEFINE w == [work[s] EXCEPT !.pc = "ackStored", !.event = (work[s].seq \notin acked)]
<1>1. /\ work[s].pc = "acking" /\ acked' = acked \cup {work[s].seq} /\ Goto(s, w)
      /\ UNCHANGED <<conv, pairs, msgs, rowLock, told, pushes, peerAcks, cursor, seen>>
  BY DEF AckUpdate, events, readVars
<1>2. work[s] \in Works /\ w \in Works /\ w.pc = "ackStored" /\ w.seq = work[s].seq /\ (w.event <=> work[s].seq \notin acked)
  <2>1. work[s] \in Works
    BY Zenon DEF IInv, Types
  <2> QED
    BY <2>1, Zenon DEF Works
<1>3. /\ work' \in [Sessions -> Works] /\ work'[s] = w
      /\ \A t \in Sessions : t # s => work'[t] = work[t]
  BY <1>1, <1>2, GotoMoves
<1> HIDE DEF w
<1>4. PICK k \in msgs : k.seq = work[s].seq
  BY <1>1 DEF IInv, AckInv
<1>5. Types'
  BY <1>1, <1>3, <1>4 DEF IInv, Types
<1>6. LockInv'
  BY <1>1, <1>2, <1>3 DEF IInv, LockInv, Matching
<1>7. SendInv'
  BY <1>1, <1>2, <1>3, Zenon DEF IInv, SendInv
<1>8. AckInv'
  <2>1. ASSUME work[s].seq \notin acked
        PROVE  /\ \A t \in Sessions : work[t].pc = "ackStored" => work[t].seq # work[s].seq
               /\ \A m \in msgs : m.seq = work[s].seq => peerAcks[<<m.sender, m.cid>>] = 0
    <3>1. \A t \in Sessions : work[t].pc = "ackStored" => work[t].seq # work[s].seq
      BY <2>1 DEF IInv, AckInv
    <3>2. ASSUME NEW m \in msgs, m.seq = work[s].seq PROVE peerAcks[<<m.sender, m.cid>>] = 0
      <4>1. <<m.sender, m.cid>> \in MessageIds
        BY DEF IInv, Types, MsgRows, MessageIds
      <4>2. peerAcks[<<m.sender, m.cid>>] \in {0, 1}
        BY <4>1 DEF IInv, Types, PeerAckOnce
      <4>3. peerAcks[<<m.sender, m.cid>>] # 1
        <5> SUFFICES ASSUME peerAcks[<<m.sender, m.cid>>] = 1 PROVE FALSE
          OBVIOUS
        <5>1. PICK j \in msgs : <<j.sender, j.cid>> = <<m.sender, m.cid>> /\ j.seq \in acked
          BY <4>1 DEF IInv, PeerAckOnce
        <5>2. j = m
          BY <5>1 DEF IInv, SeqsAndIdsUnique
        <5> QED
          BY <2>1, <3>2, <5>1, <5>2
      <4> QED
        BY <4>2, <4>3, Zenon
    <3> QED
      BY <3>1, <3>2, Zenon
  <2>2. ASSUME NEW t \in Sessions, t # s, work[t].pc = "ackStored", work[t].event, work[t].seq = work[s].seq
        PROVE  ~w.event
    <3>1. work[s].seq \notin acked => work[t].seq # work[s].seq
      BY <2>1, <2>2, Zenon
    <3> QED
      BY <1>2, <2>2, <3>1
  <2>3. AckInv
    BY DEF IInv
  <2> QED
    BY <1>1, <1>2, <1>3, <1>4, <2>1, <2>2, <2>3 DEF AckInv
<1>9. (SeqsAndIdsUnique /\ ToldIsStored /\ PeerAckOnce /\ CursorInv /\ PendingNeverSkipped)'
  BY <1>1 DEF IInv, SeqsAndIdsUnique, ToldIsStored, PeerAckOnce, CursorInv, PendingNeverSkipped, SentTo
<1> QED
  BY <1>5, <1>6, <1>7, <1>8, <1>9 DEF IInv

\* The sender is told by the one request that has the event.
LEMMA AckReplyStep ==
  ASSUME IInv, NEW s \in Sessions, AckReply(s)
  PROVE  IInv'
<1> DEFINE k == CHOOSE j \in msgs : j.seq = work[s].seq
           i == <<k.sender, k.cid>>
<1>1. /\ work[s].pc = "ackStored" /\ Goto(s, NoWork)
      /\ peerAcks' = [peerAcks EXCEPT ![i] = IF work[s].event THEN @ + 1 ELSE @]
      /\ UNCHANGED <<tables, rowLock, told, pushes, readVars>>
  BY DEF AckReply
<1>2. k \in msgs /\ k.seq = work[s].seq /\ k.seq \in acked
  BY <1>1 DEF IInv, AckInv
<1> HIDE DEF k
<1>3. i \in MessageIds
  BY <1>2 DEF IInv, Types, MsgRows, MessageIds
<1>4. /\ work' \in [Sessions -> Works] /\ work'[s] = NoWork /\ work'[s].pc = "idle"
      /\ \A t \in Sessions : t # s => work'[t] = work[t]
  BY <1>1, NoWorkTypes, GotoMoves
<1>5. /\ peerAcks' \in [MessageIds -> Nat]
      /\ \A j \in MessageIds : j # i => peerAcks'[j] = peerAcks[j]
      /\ ~work[s].event => peerAcks'[i] = peerAcks[i]
      /\ work[s].event => peerAcks'[i] = 1
  <2>1. work[s].event => peerAcks[i] = 0
    BY <1>1, <1>2 DEF IInv, AckInv
  <2>2. peerAcks \in [MessageIds -> Nat]
    BY Zenon DEF IInv, Types
  <2> QED
    BY <1>1, <1>3, <2>1, <2>2
<1> USE DEF tables, readVars
<1>6. Types'
  BY <1>1, <1>4, <1>5 DEF IInv, Types
<1>7. LockInv' /\ SendInv'
  <2>1. LockInv'
    <3>1. LockInv /\ work[s].pc = "ackStored" /\ UNCHANGED <<conv, msgs, rowLock>>
      BY <1>1, Zenon DEF IInv
    <3>2. ASSUME NEW t \in Sessions
          PROVE  /\ work'[t].pc = "locked" <=> work[t].pc = "locked"
                 /\ work'[t].pc = "locked" => work'[t] = work[t]
      BY <1>4, <3>1
    <3>3. \A u, c : Matching(u, c)' = Matching(u, c)
      BY <3>1 DEF Matching
    <3> QED
      BY <3>1, <3>2, <3>3, Zenon DEF LockInv
  <2>2. SendInv'
    BY <1>1, <1>4 DEF IInv, SendInv
  <2> QED
    BY <2>1, <2>2
<1>8. PeerAckOnce'
  <2> SUFFICES ASSUME NEW j \in MessageIds
               PROVE  /\ peerAcks'[j] <= 1
                      /\ peerAcks'[j] = 1 => \E m \in msgs : <<m.sender, m.cid>> = j /\ m.seq \in acked
    BY <1>1 DEF PeerAckOnce
  <2>1. CASE peerAcks'[j] = peerAcks[j]
    BY <2>1 DEF IInv, PeerAckOnce
  <2>2. CASE j = i /\ peerAcks'[j] = 1
    BY <1>2, <2>2
  <2> QED
    BY <1>5, <2>1, <2>2
<1>9. AckInv'
  <2>1. \A t \in Sessions : work'[t].pc \in {"acking", "ackStored"} => t # s /\ work'[t] = work[t]
    BY <1>4
  <2>2. ASSUME NEW t \in Sessions, t # s, work[t].pc = "ackStored", work[t].event, NEW m \in msgs, m.seq = work[t].seq
        PROVE  peerAcks'[<<m.sender, m.cid>>] = 0
    <3>1. peerAcks[<<m.sender, m.cid>>] = 0 /\ <<m.sender, m.cid>> \in MessageIds
      BY <2>2 DEF IInv, AckInv, Types, MsgRows, MessageIds
    <3>2. CASE <<m.sender, m.cid>> # i
      BY <1>5, <3>1, <3>2
    <3>3. CASE <<m.sender, m.cid>> = i
      <4>1. m = k
        BY <1>2, <3>3, Zenon DEF IInv, SeqsAndIdsUnique
      <4>2. ~work[s].event
        BY <1>1, <1>2, <2>2, <4>1, Zenon DEF IInv, AckInv
      <4> QED
        BY <1>5, <3>1, <3>3, <4>2
    <3> QED
      BY <3>2, <3>3
  <2>3. ASSUME NEW t \in Sessions, work'[t].pc \in {"acking", "ackStored"}
        PROVE  /\ \E m \in msgs : m.seq = work'[t].seq
               /\ work'[t].pc = "ackStored" => work'[t].seq \in acked
               /\ work'[t].pc = "acking" => work'[t].event = FALSE
               /\ work'[t].pc = "ackStored" /\ work'[t].event =>
                     /\ \A z \in Sessions :
                           work'[z].pc = "ackStored" /\ work'[z].event /\ work'[z].seq = work'[t].seq => z = t
                     /\ \A m \in msgs : m.seq = work'[t].seq => peerAcks'[<<m.sender, m.cid>>] = 0
    <3>1. t # s /\ work'[t] = work[t]
      BY <2>1, <2>3, Zenon
    <3>2. /\ \E m \in msgs : m.seq = work[t].seq
          /\ work[t].pc = "ackStored" => work[t].seq \in acked
          /\ work[t].pc = "acking" => work[t].event = FALSE
      BY <2>3, <3>1 DEF IInv, AckInv
    <3>3. ASSUME work[t].pc = "ackStored", work[t].event, NEW z \in Sessions,
                 work'[z].pc = "ackStored", work'[z].event, work'[z].seq = work[t].seq
          PROVE  z = t
      <4>1. work'[z] = work[z]
        BY <2>1, <3>3
      <4> QED
        BY <3>3, <4>1 DEF IInv, AckInv
    <3> QED
      BY <2>2, <3>1, <3>2, <3>3
  <2> QED
    BY <1>1, <2>3, Zenon DEF AckInv
<1>10. (SeqsAndIdsUnique /\ ToldIsStored /\ CursorInv /\ PendingNeverSkipped)'
  BY <1>1 DEF IInv, SeqsAndIdsUnique, ToldIsStored, CursorInv, PendingNeverSkipped, SentTo
<1> QED
  BY <1>6, <1>7, <1>8, <1>9, <1>10 DEF IInv

\* A page is what is pending up to its last seq, whatever the limit.
LEMMA PageIsPrefix ==
  ASSUME IInv, NEW u \in Users, NEW limit \in Nat,
         NEW last \in Page(u, limit), NEW n \in PendingAfter(u), n <= last
  PROVE  n \in Page(u, limit)
<1> DEFINE Below(j) == {k \in PendingAfter(u) : k < j}
<1>1. PendingAfter(u) \subseteq 1 .. conv.lastSeq /\ conv.lastSeq \in Nat
  BY DEF PendingAfter, SentTo, IInv, Types, SeqsAndIdsUnique
<1>2. last \in PendingAfter(u) /\ Cardinality(Below(last)) < limit
  BY DEF Page
<1>3. Below(n) \subseteq Below(last) /\ Below(last) \subseteq 1 .. conv.lastSeq
  BY <1>1, <1>2
<1>4. IsFiniteSet(1 .. conv.lastSeq)
  BY <1>1, FS_Interval
<1>5. IsFiniteSet(Below(last))
  BY <1>3, <1>4, FS_Subset, Zenon
<1>6. IsFiniteSet(Below(n)) /\ Cardinality(Below(n)) <= Cardinality(Below(last))
  BY <1>3, <1>5, FS_Subset
<1>7. Cardinality(Below(n)) \in Nat /\ Cardinality(Below(last)) \in Nat
  BY <1>5, <1>6, FS_CardinalityType
<1>8. Cardinality(Below(n)) < limit
  <2> HIDE DEF Below
  <2> QED
    BY <1>2, <1>6, <1>7
<1> QED
  BY <1>8 DEF Page

\* The cursor moves to the last seq of a page, which was given with all that was pending
\* before it.
LEMMA SyncStep ==
  ASSUME IInv, NEW u \in Users, NEW limit \in 0 .. (MaxLimit + 1), SyncDirectMessages(u, limit)
  PROVE  IInv'
<1> DEFINE l == ClampLimit(limit)
<1>1. l \in Nat
  BY DirectChatAssumption DEF ClampLimit
<1>2. PICK last \in Page(u, l) : cursor' = [cursor EXCEPT ![u] = last]
  BY Zenon DEF SyncDirectMessages
<1>3. /\ seen' = [seen EXCEPT ![u] = @ \cup Page(u, l)]
      /\ UNCHANGED <<conv, pairs, msgs, acked, rowLock, work, told, pushes, peerAcks>>
  BY DEF SyncDirectMessages, tables, events
<1> HIDE DEF l
<1>4. Page(u, l) \subseteq PendingAfter(u) /\ PendingAfter(u) \subseteq 1 .. conv.lastSeq /\ conv.lastSeq \in Nat
  BY DEF Page, PendingAfter, SentTo, IInv, Types, SeqsAndIdsUnique
<1>5. /\ cursor' \in [Users -> Nat] /\ cursor'[u] = last /\ last <= conv.lastSeq
      /\ seen' \in [Users -> SUBSET Nat] /\ seen'[u] = seen[u] \cup Page(u, l)
      /\ \A v \in Users : v # u => cursor'[v] = cursor[v] /\ seen'[v] = seen[v]
  BY <1>2, <1>3, <1>4 DEF IInv, Types
<1>6. Types' /\ CursorInv'
  <2>1. Types'
    BY <1>3, <1>5 DEF IInv, Types
  <2>2. CursorInv'
    BY <1>3, <1>5, Zenon DEF IInv, CursorInv
  <2> QED
    BY <2>1, <2>2, Zenon
<1>7. PendingNeverSkipped'
  <2> SUFFICES ASSUME NEW v \in Users, NEW m \in SentTo(v), m.seq <= cursor'[v], m.seq \notin acked
               PROVE  m.seq \in seen'[v]
    BY <1>3 DEF PendingNeverSkipped, SentTo
  <2>1. CASE v # u \/ m.seq <= cursor[v]
    BY <1>5, <2>1 DEF IInv, PendingNeverSkipped
  <2>2. CASE v = u /\ ~(m.seq <= cursor[v])
    <3>1. m.seq \in PendingAfter(u)
      <4>1. m.seq \in Nat /\ cursor[u] \in Nat
        BY DEF SentTo, IInv, Types, MsgRows
      <4> QED
        BY <2>2, <4>1 DEF PendingAfter
    <3>2. m.seq \in Page(u, l)
      BY <1>1, <1>5, <2>2, <3>1, PageIsPrefix
    <3> QED
      BY <1>5, <2>2, <3>2, Zenon
  <2> QED
    BY <2>1, <2>2
<1>8. (SeqsAndIdsUnique /\ LockInv /\ SendInv /\ ToldIsStored /\ AckInv /\ PeerAckOnce)'
  <2>1. (SeqsAndIdsUnique /\ LockInv /\ SendInv)'
    BY <1>3, Zenon DEF IInv, SeqsAndIdsUnique, LockInv, Matching, SendInv
  <2>2. (ToldIsStored /\ AckInv /\ PeerAckOnce)'
    BY <1>3 DEF IInv, ToldIsStored, AckInv, PeerAckOnce
  <2> QED
    BY <2>1, <2>2, Zenon
<1> QED
  BY <1>6, <1>7, <1>8 DEF IInv

\* A restart forgets requests and locks only.
LEMMA RestartStep ==
  ASSUME IInv, Restart
  PROVE  IInv'
<1> USE NoWorkTypes DEF Restart, tables, events, readVars
<1>1. Types'
  BY Zenon DEF IInv, Types
<1>2. LockInv' /\ SendInv' /\ AckInv'
  BY DirectChatAssumption, Zenon DEF IInv, LockInv, SendInv, AckInv
<1>3. (SeqsAndIdsUnique /\ ToldIsStored /\ PeerAckOnce /\ CursorInv /\ PendingNeverSkipped)'
  BY DEF IInv, SeqsAndIdsUnique, ToldIsStored, PeerAckOnce, CursorInv, PendingNeverSkipped, SentTo
<1> QED
  BY <1>1, <1>2, <1>3 DEF IInv

\* IInv is inductive.
LEMMA NextIInv == IInv /\ [Next]_vars => IInv'
<1> SUFFICES ASSUME IInv, [Next]_vars PROVE IInv'
  OBVIOUS
<1>1. CASE \E s \in Sessions : Opening(s) \/ Sending(s) \/ Acking(s)
  <2>1. PICK s \in Sessions : Opening(s) \/ Sending(s) \/ Acking(s)
    BY <1>1
  <2>2. CASE Opening(s)
    BY <2>2, OpenStep, InsertConversationStep DEF Opening
  <2>3. CASE Sending(s)
    BY <2>3, OpenStep, LookupStep, LockStep, InsertMessageStep, SendFailsStep, TellStep DEF Sending
  <2>4. CASE Acking(s)
    BY <2>4, AckLookupStep, AckUpdateStep, AckFailsStep, AckReplyStep DEF Acking
  <2> QED
    BY <2>1, <2>2, <2>3, <2>4
<1>2. CASE \E u \in Users, limit \in 0 .. (MaxLimit + 1) : SyncDirectMessages(u, limit)
  BY <1>2, SyncStep
<1>3. CASE Restart
  BY <1>3, RestartStep
<1>4. CASE UNCHANGED vars
  <2>1. UNCHANGED <<conv, pairs, msgs, acked, rowLock, work, told, pushes, peerAcks, cursor, seen>>
    BY <1>4, Zenon DEF vars
  <2>2. (Types /\ CursorInv /\ PendingNeverSkipped)'
    BY <2>1, Zenon DEF IInv, Types, CursorInv, PendingNeverSkipped, SentTo
  <2>3. (SeqsAndIdsUnique /\ LockInv /\ SendInv)'
    BY <2>1, Zenon DEF IInv, SeqsAndIdsUnique, LockInv, Matching, SendInv
  <2>4. (ToldIsStored /\ AckInv /\ PeerAckOnce)'
    BY <2>1 DEF IInv, ToldIsStored, AckInv, PeerAckOnce
  <2> QED
    BY <2>2, <2>3, <2>4 DEF IInv
<1> QED
  BY <1>1, <1>2, <1>3, <1>4 DEF Next

\* The inductive invariant holds throughout.
THEOREM Invariance == Spec => []IInv
BY InitIInv, NextIInv, PTL DEF Spec

\* However many sessions send at once and retry, both directions share one gapless
\* sequence, and a client id is stored once per sender.
THEOREM SeqsAndIdsUniqueHolds == Spec => []SeqsAndIdsUnique
<1>1. IInv => SeqsAndIdsUnique
  BY DEF IInv
<1> QED
  BY <1>1, Invariance, PTL

\* What a sender was told and a recipient was pushed is stored.
THEOREM ToldIsStoredHolds == Spec => []ToldIsStored
<1>1. IInv => ToldIsStored
  BY DEF IInv
<1> QED
  BY <1>1, Invariance, PTL

\* However many sessions of the recipient acknowledge a message, its sender is pushed one
\* event at most, and only when the acknowledgement is stored.
THEOREM PeerAckOnceHolds == Spec => []PeerAckOnce
<1>1. IInv => PeerAckOnce
  BY DEF IInv
<1> QED
  BY <1>1, Invariance, PTL

\* A recipient who follows next_after_seq, with any limits, is given everything pending.
THEOREM PendingNeverSkippedHolds == Spec => []PendingNeverSkipped
<1>1. IInv => PendingNeverSkipped
  BY DEF IInv
<1> QED
  BY <1>1, Invariance, PTL

\* Two users never get a second conversation, however their first requests interleave.
THEOREM OneConversationHolds == Spec => []OneConversation
<1>1. IInv => OneConversation
  BY DEF IInv, Types, OneConversation
<1> QED
  BY <1>1, Invariance, PTL

SeenInv == \A u \in Users : seen[u] \subseteq {m.seq : m \in SentTo(u)}

\* Messages are never taken back, and a page holds only what was sent to its reader.
LEMMA NextSeenInv == IInv /\ SeenInv /\ [Next]_vars => SeenInv'
<1> SUFFICES ASSUME IInv, SeenInv, [Next]_vars PROVE SeenInv'
  OBVIOUS
<1>1. CASE UNCHANGED seen /\ msgs \subseteq msgs'
  BY <1>1 DEF SeenInv, SentTo
<1>2. ASSUME NEW u \in Users, NEW limit \in 0 .. (MaxLimit + 1), SyncDirectMessages(u, limit)
      PROVE  SeenInv'
  <2> DEFINE page == Page(u, ClampLimit(limit))
  <2>1. msgs' = msgs /\ seen' = [seen EXCEPT ![u] = @ \cup page]
    BY <1>2, Zenon DEF SyncDirectMessages, tables
  <2>2. page \subseteq {m.seq : m \in SentTo(u)}
    BY DEF Page, PendingAfter
  <2> HIDE DEF page
  <2>3. seen \in [Users -> SUBSET Nat]
    BY DEF IInv, Types
  <2>4. ASSUME NEW v \in Users PROVE seen'[v] \subseteq {m.seq : m \in SentTo(v)}
    BY <2>1, <2>2, <2>3 DEF SeenInv
  <2> QED
    BY <2>1, <2>4 DEF SeenInv, SentTo
<1>3. ASSUME NEW s \in Sessions, Opening(s) \/ Sending(s) \/ Acking(s)
      PROVE  UNCHANGED seen /\ msgs \subseteq msgs'
  <2>1. CASE Opening(s)
    BY <2>1, Zenon DEF Opening, GetConversation, InsertConversation, tables, readVars
  <2>2. CASE Sending(s)
    BY <2>2, Zenon DEF Sending, SendToConversation, LookupDuplicate, LockConversation,
         InsertDirectMessage, SendFails, AckSender, PushMessage, tables, readVars
  <2>3. CASE Acking(s)
    BY <2>3, Zenon DEF Acking, AckLookup, AckUpdate, AckFails, AckReply, tables, readVars
  <2> QED
    BY <1>3, <2>1, <2>2, <2>3
<1>4. CASE Restart \/ UNCHANGED vars
  BY <1>1, <1>4 DEF Restart, vars, tables, readVars
<1> QED
  BY <1>1, <1>2, <1>3, <1>4, Zenon DEF Next

\* The state stays well formed: an acknowledgement is of a message that exists, a message
\* of a conversation that exists, whichever of both users opens it first, and no user is
\* given the user's own messages to acknowledge.
THEOREM TypeCorrect == Spec => []TypeOK
<1>1. Init => SeenInv
  BY DEF Init, SeenInv
<1>2. Spec => []SeenInv
  BY <1>1, Invariance, NextSeenInv, PTL DEF Spec
<1>3. ASSUME IInv, SeenInv PROVE TypeOK
  <2>1. MsgRows \subseteq [seq : Nat, sender : Users, cid : ClientIds]
    BY DEF MsgRows
  <2>2. pairs \subseteq Users \X Users
    BY <1>3, DirectChatAssumption DEF IInv, Types, ThePair
  <2> QED
    BY <1>3, <2>1, <2>2 DEF IInv, Types, SendInv, MsgRows, SeenInv, TypeOK
<1> QED
  BY <1>2, <1>3, Invariance, PTL

-----------------------------------------------------------------------------
(***************************************************************************)
(* Refinement: DirectChat implements MessageLog.                           *)
(***************************************************************************)

\* No conversation is an empty log.
LEMMA InitRefines == Init => Log!Init
BY DEF Init, Log!Init

\* The messages of the log that a user is given are those still to be acknowledged.
LEMMA LiveForIsPending ==
  ASSUME NEW u \in Users
  PROVE  PendingAfter(u) = {n \in Log!LiveFor(u) : n > cursor[u]}
<1>1. {k \in msgs : k.sender \notin [v \in Users |-> {v}][u]} = SentTo(u)
  BY DEF SentTo
<1>2. Log!LiveFor(u) = {m.seq : m \in SentTo(u)} \ acked
  BY <1>1 DEF Log!LiveFor
<1> QED
  BY <1>2 DEF PendingAfter

\* Opening a conversation that did not exist leaves the log empty.
LEMMA InsertConversationRefines ==
  ASSUME IInv, NEW s \in Sessions, InsertConversation(s)
  PROVE  conv'.lastSeq = conv.lastSeq /\ UNCHANGED <<msgs, acked, cursor, seen>>
<1>1. UNCHANGED <<msgs, acked, cursor, seen>>
  BY DEF InsertConversation, readVars
<1>2. CASE PairOf(s) \notin pairs /\ conv' = [exists |-> TRUE, lastSeq |-> 0]
  <2>1. msgs = {}
    BY <1>2, PairOfIsThePair DEF IInv, Types, SendInv
  <2>2. 1 .. conv.lastSeq = {} /\ conv.lastSeq \in Nat
    <3>1. {m.seq : m \in msgs} = 1 .. conv.lastSeq
      BY DEF IInv, SeqsAndIdsUnique
    <3>2. conv.lastSeq \in Nat
      BY DEF IInv, Types
    <3> QED
      BY <2>1, <3>1, <3>2
  <2>3. conv.lastSeq = 0
    <3>1. ASSUME conv.lastSeq # 0 PROVE 1 \in 1 .. conv.lastSeq
      BY <2>2, <3>1
    <3> QED
      BY <2>2, <3>1
  <2> QED
    BY <1>1, <1>2, <2>3
<1>3. CASE UNCHANGED conv
  BY <1>1, <1>3
<1> QED
  BY <1>2, <1>3, Zenon DEF InsertConversation

\* The insert is an append.
LEMMA InsertRefines ==
  ASSUME IInv, NEW s \in Sessions, InsertDirectMessage(s)
  PROVE  \E u \in Users, c \in ClientIds : Log!AppendMessage(u, c)
<1>1. /\ work[s].seq = conv.lastSeq + 1 /\ Matching(UserOf[s], work[s].cid) = {}
      /\ work[s].cid \in ClientIds /\ UserOf[s] \in Users
  BY DirectChatAssumption, Zenon DEF InsertDirectMessage, IInv, LockInv, SendInv
<1>2. PICK u \in Users, c \in ClientIds : u = UserOf[s] /\ c = work[s].cid
  BY <1>1
<1>3. \A m \in msgs : ~(m.sender = u /\ m.cid = c)
  BY <1>1, <1>2 DEF Matching
<1>4. conv'.lastSeq = conv.lastSeq + 1
  BY <1>1 DEF InsertDirectMessage, IInv, Types
<1>5. msgs' = msgs \cup {[seq |-> conv.lastSeq + 1, sender |-> u, cid |-> c]}
  BY <1>1, <1>2 DEF InsertDirectMessage
<1>6. UNCHANGED <<acked, cursor, seen>>
  BY DEF InsertDirectMessage, readVars
<1>7. Log!AppendMessage(u, c)
  BY <1>3, <1>4, <1>5, <1>6 DEF Log!AppendMessage
<1> QED
  BY <1>7

\* The conditional UPDATE is an expiry of a message, or of none when another request was
\* first.
LEMMA AckUpdateRefines ==
  ASSUME IInv, NEW s \in Sessions, AckUpdate(s)
  PROVE  Log!Expire
<1>1. acked' = acked \cup {work[s].seq} /\ UNCHANGED <<conv, msgs, cursor, seen>>
  BY DEF AckUpdate, readVars
<1>2. work[s].seq \in {m.seq : m \in msgs}
  BY DEF AckUpdate, IInv, AckInv
<1>3. {work[s].seq} \ acked \in SUBSET Log!Live
  BY <1>2 DEF Log!Live
<1>4. acked' = acked \cup ({work[s].seq} \ acked)
  BY <1>1
<1> QED
  BY <1>1, <1>3, <1>4, Zenon DEF Log!Expire

\* A page of SyncDirectMessages is an in-order read of what the other user has sent.
LEMMA SyncRefines ==
  ASSUME IInv, NEW u \in Users, NEW limit \in 0 .. (MaxLimit + 1), SyncDirectMessages(u, limit)
  PROVE  Log!Read(u)
<1> DEFINE l == ClampLimit(limit)
<1>1. l \in Nat
  BY DirectChatAssumption DEF ClampLimit
<1>2. PICK last \in Page(u, l) :
         (\A n \in Page(u, l) : n <= last) /\ cursor' = [cursor EXCEPT ![u] = last]
  BY Zenon DEF SyncDirectMessages
<1>3. seen' = [seen EXCEPT ![u] = @ \cup Page(u, l)] /\ UNCHANGED <<conv, msgs, acked>>
  BY DEF SyncDirectMessages, tables
<1> HIDE DEF l
<1>4. Page(u, l) \subseteq PendingAfter(u) /\ PendingAfter(u) \subseteq Nat
  BY DEF Page, PendingAfter, SentTo, IInv, Types, MsgRows
<1>5. \A n \in PendingAfter(u) : n <= last => n \in Page(u, l)
  BY <1>1, <1>2, PageIsPrefix
<1>6. Page(u, l) = {n \in PendingAfter(u) : n <= last}
  BY <1>2, <1>4, <1>5, Zenon
<1>7. PendingAfter(u) = {n \in Log!LiveFor(u) : n > cursor[u]} /\ cursor[u] \in Nat
  BY LiveForIsPending DEF IInv, Types
<1>8. \A n \in Log!LiveFor(u) : n \in Nat
  BY DEF Log!LiveFor, IInv, Types, MsgRows
<1>9. Page(u, l) = {n \in Log!LiveFor(u) : cursor[u] < n /\ n <= last}
  BY <1>6, <1>7, <1>8
<1>10. last \in Log!LiveFor(u) /\ last > cursor[u]
  BY <1>4, <1>7
<1> QED
  BY <1>2, <1>3, <1>9, <1>10, Zenon DEF Log!Read

\* Every step of the conversation is a step of the log or leaves the log alone.
LEMMA NextRefines == IInv /\ [Next]_vars => [Log!Next]_(Log!logVars)
<1> SUFFICES ASSUME IInv, [Next]_vars PROVE [Log!Next]_(Log!logVars)
  OBVIOUS
<1> DEFINE Quiet == conv'.lastSeq = conv.lastSeq /\ UNCHANGED <<msgs, acked, cursor, seen>>
<1>1. ASSUME Quiet PROVE UNCHANGED Log!logVars
  BY <1>1, Zenon DEF Log!logVars
<1>2. ASSUME NEW s \in Sessions, Opening(s) PROVE Quiet
  <2>1. CASE InsertConversation(s)
    BY <2>1, InsertConversationRefines, Zenon
  <2> QED
    BY <1>2, <2>1 DEF Opening, GetConversation, tables, readVars
<1>3. ASSUME NEW s \in Sessions, Sending(s) PROVE Quiet \/ InsertDirectMessage(s)
  BY <1>3, Zenon DEF Sending, SendToConversation, LookupDuplicate, LockConversation, SendFails, AckSender,
              PushMessage, tables, readVars
<1>4. ASSUME NEW s \in Sessions, Acking(s) PROVE Quiet \/ AckUpdate(s)
  BY <1>4, Zenon DEF Acking, AckLookup, AckFails, AckReply, tables, readVars
<1>5. CASE Restart \/ UNCHANGED vars
  BY <1>1, <1>5 DEF Restart, vars, tables, readVars
<1>6. ASSUME NEW s \in Sessions, InsertDirectMessage(s) \/ AckUpdate(s) PROVE Log!Next
  BY <1>6, InsertRefines, AckUpdateRefines DEF Log!Next
<1>7. ASSUME NEW u \in Users, NEW limit \in 0 .. (MaxLimit + 1), SyncDirectMessages(u, limit)
      PROVE  Log!Next
  BY <1>7, SyncRefines DEF Log!Next
<1> HIDE DEF Quiet
<1> QED
  BY <1>1, <1>2, <1>3, <1>4, <1>5, <1>6, <1>7 DEF Next

\* The concurrent implementation of a private conversation behaves like the same
\* append-only log as a channel, with acknowledgements in place of expiry.
THEOREM Refinement == Spec => ImplementsLog
BY InitRefines, NextRefines, Invariance, PTL DEF Spec, ImplementsLog, Log!Spec

\* While messages after a user's cursor are still to be acknowledged, SyncDirectMessages
\* returns some of them for every limit, and next_after_seq is the last one: a recipient
\* who follows it never gets stuck.
THEOREM SyncMovesOn ==
    Spec => [](\A u \in Users, limit \in Nat : PendingAfter(u) # {} =>
                  \E last \in Page(u, ClampLimit(limit)) :
                     last > cursor[u] /\ \A n \in Page(u, ClampLimit(limit)) : n <= last)
<1>1. ASSUME IInv, NEW u \in Users, NEW limit \in Nat, PendingAfter(u) # {}
      PROVE  \E last \in Page(u, ClampLimit(limit)) :
                last > cursor[u] /\ \A n \in Page(u, ClampLimit(limit)) : n <= last
  <2>1. PendingAfter(u) \subseteq 0 .. conv.lastSeq /\ conv.lastSeq \in Nat
    BY <1>1 DEF PendingAfter, SentTo, IInv, Types, SeqsAndIdsUnique
  <2>2. ClampLimit(limit) \in Nat \ {0}
    BY DirectChatAssumption DEF ClampLimit
  <2>3. Page(u, ClampLimit(limit)) = FirstOf(PendingAfter(u), ClampLimit(limit))
    BY DEF Page, FirstOf
  <2>4. PICK last \in FirstOf(PendingAfter(u), ClampLimit(limit)) :
           \A n \in FirstOf(PendingAfter(u), ClampLimit(limit)) : n <= last
    BY <1>1, <2>1, <2>2, PageHasLast
  <2>5. last > cursor[u]
    BY DEF FirstOf, PendingAfter
  <2> QED
    BY <2>3, <2>4, <2>5
<1>2. IInv => \A u \in Users, limit \in Nat : PendingAfter(u) # {} =>
                  \E last \in Page(u, ClampLimit(limit)) :
                     last > cursor[u] /\ \A n \in Page(u, ClampLimit(limit)) : n <= last
  BY <1>1
<1> QED
  BY <1>2, Invariance, PTL

=============================================================================
