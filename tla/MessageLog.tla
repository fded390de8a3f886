----------------------------- MODULE MessageLog -----------------------------
(***************************************************************************)
(* What a channel promises to its members, and a private conversation to   *)
(* its two users: an append-only log.  A message gets the next sequence    *)
(* number in one step, at most once per sender and client_msg_id; messages *)
(* may expire (in a conversation, by being acknowledged) but are never     *)
(* renumbered; a reader that keeps the cursor the server returns is given  *)
(* every message it passes, unless the message has expired or is from a    *)
(* sender whose messages this reader is not given.                         *)
(***************************************************************************)
EXTENDS Naturals

CONSTANTS
    Users, ClientIds, Readers,
    Hidden    \* by reader: the senders whose messages it is not given

VARIABLES
    length,   \* the highest sequence number
    log,      \* the messages: [seq, sender, cid]
    expired,  \* sequence numbers of messages that readers get no more
    cursor,   \* by reader: the after_seq of its next read
    seen      \* by reader: the sequence numbers it was given

logVars == <<length, log, expired, cursor, seen>>

Live == {m.seq : m \in log} \ expired
LiveFor(r) == {m.seq : m \in {k \in log : k.sender \notin Hidden[r]}} \ expired

Init ==
    /\ length = 0
    /\ log = {}
    /\ expired = {}
    /\ cursor = [r \in Readers |-> 0]
    /\ seen = [r \in Readers |-> {}]

AppendMessage(u, c) ==
    /\ \A m \in log : ~(m.sender = u /\ m.cid = c)
    /\ length' = length + 1
    /\ log' = log \cup {[seq |-> length + 1, sender |-> u, cid |-> c]}
    /\ UNCHANGED <<expired, cursor, seen>>

Expire ==
    /\ \E S \in SUBSET Live : expired' = expired \cup S
    /\ UNCHANGED <<length, log, cursor, seen>>

Read(r) ==
    /\ \E n \in LiveFor(r) :
          /\ n > cursor[r]
          /\ cursor' = [cursor EXCEPT ![r] = n]
          /\ seen' = [seen EXCEPT ![r] = @ \cup {k \in LiveFor(r) : cursor[r] < k /\ k <= n}]
    /\ UNCHANGED <<length, log, expired>>

Next ==
    \/ \E u \in Users, c \in ClientIds : AppendMessage(u, c)
    \/ Expire
    \/ \E r \in Readers : Read(r)

Spec == Init /\ [][Next]_logVars

=============================================================================
