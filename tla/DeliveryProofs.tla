--------------------------- MODULE DeliveryProofs ---------------------------
(***************************************************************************)
(* Proofs about Delivery for any devices, WebSockets, senders, buffer size *)
(* and number of messages: IInv is about what devices are given, ConnInv   *)
(* about their last_seq, the connections and the WebSockets' buffers.      *)
(***************************************************************************)
EXTENDS Delivery, TLAPS

Types ==
    /\ messageSeq \in Nat /\ fannedOut \subseteq 1 .. messageSeq
    /\ realtimeSubs \subseteq Sockets /\ subscriptions \subseteq Streams /\ synced \subseteq subscriptions
    /\ base \in [Streams -> Nat] /\ cursor \in [Streams -> Nat] /\ got \in [Streams -> SUBSET Nat]
    /\ out \in [Senders -> Requests]

\* A request at work is about a stored message.
RequestInv == \A p \in Senders : out[p].pc # "idle" => out[p].seq \in 1 .. messageSeq

\* A device has everything from where it came with up to its cursor, which is not past the
\* end.
CursorInv ==
    \A c \in Streams :
        /\ base[c] <= messageSeq /\ cursor[c] <= messageSeq
        /\ (base[c] + 1) .. cursor[c] \subseteq got[c]

\* Past the last_seq that a synced device came with, a message on its way has reached the
\* device, or the device is still to be written to.
OnItsWay(p, c) ==
    out[p].pc = "writing" /\ out[p].seq > base[c] => out[p].seq \in got[c] \/ c \in out[p].targets

IInv ==
    /\ Types /\ RequestInv /\ CursorInv /\ NothingMissed
    /\ \A p \in Senders, c \in synced : OnItsWay(p, c)

\* What a device takes for the latest message is stored.
LastInv == lastSeq \in [Streams -> Nat] /\ \A c \in Streams : lastSeq[c] <= messageSeq

\* Only a stream that is open is subscribed.
StreamInv ==
    /\ stream \in [Streams -> {"closed", "open", "subscribing"}]
    /\ subscriptions \subseteq {c \in Streams : stream[c] # "closed"}

Connections ==
    [phase : {"none", "open", "closed"}, subs : BOOLEAN, send : 0 .. BufferSize, pump : BOOLEAN]

\* Only a WebSocket that is open is registered, and no buffer holds more than it can.
SocketInv ==
    /\ socket \in [Sockets -> Connections]
    /\ realtimeSubs \subseteq {w \in Sockets : socket[w].phase = "open"}

\* Devices are given messages that are stored.
BoundInv == messageSeq <= MaxSeq /\ \A c \in Streams : got[c] \subseteq 1 .. messageSeq

ConnInv == LastInv /\ StreamInv /\ SocketInv /\ BoundInv

-----------------------------------------------------------------------------

\* Nothing is stored and nobody connected.
LEMMA InitIInv == Init => IInv
<1> SUFFICES ASSUME Init PROVE IInv
  OBVIOUS
<1>1. NoRequest \in Requests /\ NoRequest.pc = "idle"
  BY DeliveryAssumption DEF NoRequest, Requests
<1>2. Types
  BY <1>1 DEF Init, Types
<1>3. RequestInv /\ CursorInv /\ NothingMissed /\ \A p \in Senders, c \in synced : OnItsWay(p, c)
  BY <1>1 DEF Init, RequestInv, CursorInv, NothingMissed, OnItsWay
<1> QED
  BY <1>2, <1>3 DEF IInv

\* What sockets do is of no concern to devices.
LEMMA Frame ==
  ASSUME IInv, UNCHANGED <<messageSeq, subscriptions, synced, base, cursor, got, out, fannedOut>>,
         realtimeSubs' \subseteq Sockets
  PROVE  IInv'
BY DEF IInv, Types, RequestInv, CursorInv, NothingMissed, OnItsWay

\* A request changes its own record, and messages and what devices have only grow.
LEMMA RequestMoves ==
  ASSUME IInv, NEW p \in Senders, NEW r \in Requests, out' = [out EXCEPT ![p] = r],
         UNCHANGED <<subscriptions, realtimeSubs, synced, base, cursor>>,
         messageSeq' \in Nat, messageSeq <= messageSeq',
         got' \in [Streams -> SUBSET Nat], \A c \in Streams : got[c] \subseteq got'[c],
         fannedOut' \subseteq 1 .. messageSeq', \A c \in synced : \A n \in fannedOut' : n > base[c] => n \in got'[c],
         r.pc # "idle" => r.seq \in 1 .. messageSeq',
         r.pc = "writing" => \A c \in synced : r.seq > base[c] => r.seq \in got'[c] \/ c \in r.targets
  PROVE  IInv'
<1>1. out'[p] = r /\ \A q \in Senders : q # p => out'[q] = out[q]
  BY DEF IInv, Types
<1>2. Types'
  BY DEF IInv, Types, Requests
<1>3. RequestInv'
  BY <1>1 DEF IInv, Types, RequestInv
<1>4. CursorInv'
  BY DEF IInv, Types, CursorInv
<1>5. NothingMissed'
  BY DEF NothingMissed
<1>6. \A q \in Senders, c \in synced' : OnItsWay(q, c)'
  BY <1>1 DEF IInv, Types, OnItsWay
<1> QED
  BY <1>2, <1>3, <1>4, <1>5, <1>6 DEF IInv

\* What a request's record is made of, and how a step changes it.
LEMMA RequestTypes ==
  ASSUME IInv, NEW p \in Senders
  PROVE  /\ out[p] \in Requests /\ out[p].seq \in Nat /\ out[p].targets \subseteq Streams
         /\ out[p].rt \subseteq Sockets /\ out[p].to \in Sockets \cup {NoSocket}
         /\ NoRequest \in Requests /\ NoRequest.pc = "idle"
BY DeliveryAssumption DEF IInv, Types, Requests, NoRequest

\* SendMessage stores a message, or finds the one that is stored.
LEMMA SendMessageStep ==
  ASSUME IInv, NEW p \in Senders, NEW n \in 1 .. MaxSeq, SendMessage(p, n)
  PROVE  IInv'
<1> DEFINE r == [NoRequest EXCEPT !.seq = n, !.pc = IF p \in StreamSenders THEN "stored" ELSE "deliver"]
<1>1. r \in Requests /\ r.pc # "writing" /\ r.seq = n
  <2>2. PICK w \in {"stored", "deliver"} : w = (IF p \in StreamSenders THEN "stored" ELSE "deliver")
    OBVIOUS
  <2>3. r = [NoRequest EXCEPT !.seq = n, !.pc = w]
    BY <2>2, Zenon
  <2>4. n \in 0 .. MaxSeq
    BY DeliveryAssumption
  <2>5. NoRequest \in Requests
    BY RequestTypes
  <2> HIDE DEF r
  <2> QED
    BY <2>3, <2>4, <2>5, Zenon DEF Requests
<1>2. out' = [out EXCEPT ![p] = r] /\ UNCHANGED <<subscriptions, realtimeSubs, synced, base, cursor, got, fannedOut>>
  BY DEF SendMessage, clientVars
<1>3. messageSeq' \in Nat /\ messageSeq <= messageSeq' /\ n \in 1 .. messageSeq'
  BY DeliveryAssumption DEF SendMessage, IInv, Types
<1>4. /\ got' \in [Streams -> SUBSET Nat] /\ \A c \in Streams : got[c] \subseteq got'[c]
      /\ fannedOut' \subseteq 1 .. messageSeq' /\ \A c \in synced : \A k \in fannedOut' : k > base[c] => k \in got'[c]
  BY <1>2, <1>3 DEF IInv, Types, NothingMissed
<1> HIDE DEF r
<1> QED
  BY <1>1, <1>2, <1>3, <1>4, RequestMoves, Zenon

\* A step of a request that stores nothing and writes to no device.
LEMMA RequestOnly ==
  ASSUME IInv, NEW p \in Senders, NEW r \in Requests, out' = [out EXCEPT ![p] = r],
         UNCHANGED <<messageSeq, subscriptions, realtimeSubs, synced, base, cursor, got, fannedOut>>,
         r.pc # "idle" => r.seq \in 1 .. messageSeq,
         r.pc = "writing" => \A c \in synced : r.seq > base[c] => r.seq \in got[c] \/ c \in r.targets
  PROVE  IInv'
<1>1. /\ messageSeq' \in Nat /\ messageSeq <= messageSeq'
      /\ got' \in [Streams -> SUBSET Nat] /\ \A c \in Streams : got[c] \subseteq got'[c]
      /\ fannedOut' \subseteq 1 .. messageSeq' /\ \A c \in synced : \A n \in fannedOut' : n > base[c] => n \in got'[c]
  BY DEF IInv, Types, NothingMissed
<1> QED
  BY <1>1, RequestMoves, Zenon

\* The acknowledgement, written or not.
LEMMA WriteAckStep ==
  ASSUME IInv, NEW p \in Senders, WriteAck(p)
  PROVE  IInv'
<1> DEFINE r == [out[p] EXCEPT !.pc = "deliver"]
<1>1. /\ out' = [out EXCEPT ![p] = r] \/ out' = [out EXCEPT ![p] = NoRequest]
      /\ UNCHANGED <<messageSeq, subscriptions, realtimeSubs, synced, base, cursor, got, fannedOut>> /\ out[p].pc = "stored"
  BY RequestTypes DEF WriteAck, clientVars
<1>2. r \in Requests /\ r.pc = "deliver" /\ r.seq = out[p].seq
  BY RequestTypes DEF Requests
<1>3. r.seq \in 1 .. messageSeq
  BY <1>1, <1>2 DEF IInv, RequestInv
<1> HIDE DEF r
<1> QED
  BY <1>1, <1>2, <1>3, RequestOnly, RequestTypes

\* Every synced device is subscribed, and so among the targets.
LEMMA CollectTargetsStep ==
  ASSUME IInv, NEW p \in Senders, CollectTargets(p)
  PROVE  IInv'
<1> DEFINE r == [out[p] EXCEPT !.pc = "writing", !.targets = subscriptions, !.rt = realtimeSubs]
<1>1. /\ out' = [out EXCEPT ![p] = r]
      /\ UNCHANGED <<messageSeq, subscriptions, realtimeSubs, synced, base, cursor, got, fannedOut>> /\ out[p].pc = "deliver"
  BY RequestTypes, Zenon DEF CollectTargets, clientVars
<1>2. r \in Requests /\ r.pc = "writing" /\ r.seq = out[p].seq /\ r.targets = subscriptions
  BY RequestTypes, Zenon DEF Requests, IInv, Types
<1>3. r.seq \in 1 .. messageSeq /\ synced \subseteq r.targets
  BY <1>1, <1>2 DEF IInv, RequestInv, Types
<1> HIDE DEF r
<1> QED
  BY <1>1, <1>2, <1>3, RequestOnly, Zenon

\* A device that is written to leaves the targets and has the message.
LEMMA WriteEventStep ==
  ASSUME IInv, NEW p \in Senders, NEW c \in Streams, WriteEvent(p, c)
  PROVE  IInv'
<1> DEFINE r == [out[p] EXCEPT !.targets = @ \ {c}]
<1>1. /\ out' = [out EXCEPT ![p] = r] /\ got' = [got EXCEPT ![c] = @ \cup {out[p].seq}]
      /\ UNCHANGED <<messageSeq, subscriptions, realtimeSubs, synced, base, cursor, fannedOut>> /\ out[p].pc = "writing"
  BY RequestTypes DEF WriteEvent
<1>2. r \in Requests /\ r.pc = out[p].pc /\ r.seq = out[p].seq /\ r.targets = out[p].targets \ {c}
  BY RequestTypes DEF Requests
<1>3. /\ got' \in [Streams -> SUBSET Nat] /\ \A d \in Streams : got[d] \subseteq got'[d]
      /\ out[p].seq \in got'[c]
  BY <1>1, RequestTypes DEF IInv, Types
<1>4. \A d \in synced : out[p].seq > base[d] => out[p].seq \in got'[d] \/ d \in out[p].targets \ {c}
  BY <1>1, <1>3 DEF IInv, Types, OnItsWay
<1>5. /\ messageSeq' \in Nat /\ messageSeq <= messageSeq' /\ fannedOut' \subseteq 1 .. messageSeq'
      /\ \A d \in synced : \A n \in fannedOut' : n > base[d] => n \in got'[d]
  BY <1>1, <1>3 DEF IInv, Types, NothingMissed
<1>6. r.seq \in 1 .. messageSeq'
  BY <1>1, <1>2 DEF IInv, RequestInv
<1> HIDE DEF r
<1> QED
  BY <1>1, <1>2, <1>3, <1>4, <1>5, <1>6, RequestMoves, Zenon

\* Without targets left, every synced device has the message.
LEMMA StreamsWrittenStep ==
  ASSUME IInv, NEW p \in Senders, StreamsWritten(p)
  PROVE  IInv'
<1> DEFINE r == [out[p] EXCEPT !.pc = "realtime"]
<1>1. /\ out' = [out EXCEPT ![p] = r] /\ fannedOut' = fannedOut \cup {out[p].seq}
      /\ UNCHANGED <<messageSeq, subscriptions, realtimeSubs, synced, base, cursor, got>>
      /\ out[p].pc = "writing" /\ out[p].targets = {}
  BY RequestTypes DEF StreamsWritten, clientVars
<1>2. r \in Requests /\ r.pc = "realtime" /\ r.seq = out[p].seq
  BY RequestTypes DEF Requests
<1>3. out[p].seq \in 1 .. messageSeq /\ \A c \in synced : out[p].seq > base[c] => out[p].seq \in got[c]
  BY <1>1 DEF IInv, RequestInv, OnItsWay
<1>4. /\ messageSeq' \in Nat /\ messageSeq <= messageSeq'
      /\ got' \in [Streams -> SUBSET Nat] /\ \A c \in Streams : got[c] \subseteq got'[c]
      /\ fannedOut' \subseteq 1 .. messageSeq' /\ \A c \in synced : \A n \in fannedOut' : n > base[c] => n \in got'[c]
  BY <1>1, <1>3 DEF IInv, Types, NothingMissed
<1> HIDE DEF r
<1> QED
  BY <1>1, <1>2, <1>3, <1>4, RequestMoves, Zenon

\* RealtimeDeliver goes on with the message that is written to the streams already.
LEMMA RealtimeStep ==
  ASSUME IInv, NEW p \in Senders,
         EndRequest(p) \/ RealtimeSend(p) \/ \E w \in Sockets : RealtimeCheck(p, w)
  PROVE  IInv'
<1>1. CASE EndRequest(p)
  BY <1>1, RequestOnly, RequestTypes, Zenon DEF EndRequest, clientVars
<1>2. CASE RealtimeSend(p)
  <2> DEFINE r == [out[p] EXCEPT !.pc = "realtime", !.to = NoSocket, !.rt = @ \ {out[p].to}]
  <2>1. /\ out' = [out EXCEPT ![p] = r] /\ out[p].pc = "sending"
        /\ UNCHANGED <<messageSeq, subscriptions, realtimeSubs, synced, base, cursor, got, fannedOut>>
    BY <1>2, RequestTypes, Zenon DEF RealtimeSend, clientVars
  <2>2. r \in Requests /\ r.pc = "realtime" /\ r.seq = out[p].seq
    BY RequestTypes, Zenon DEF Requests
  <2>3. r.seq \in 1 .. messageSeq
    BY <2>1, <2>2 DEF IInv, RequestInv
  <2> HIDE DEF r
  <2> QED
    BY <2>1, <2>2, <2>3, RequestOnly, Zenon
<1>3. ASSUME NEW w \in Sockets, RealtimeCheck(p, w) PROVE IInv'
  <2> DEFINE y == [out[p] EXCEPT !.pc = "sending", !.to = w]
             n == [out[p] EXCEPT !.rt = @ \ {w}]
  <2>1. /\ out' = [out EXCEPT ![p] = y] \/ out' = [out EXCEPT ![p] = n]
        /\ out[p].pc = "realtime"
        /\ UNCHANGED <<messageSeq, subscriptions, realtimeSubs, synced, base, cursor, got, fannedOut>>
    <3>1. [out EXCEPT ![p].pc = "sending", ![p].to = w] = [out EXCEPT ![p] = y]
      BY RequestTypes, Zenon
    <3>2. [out EXCEPT ![p].rt = @ \ {w}] = [out EXCEPT ![p] = n]
      BY RequestTypes
    <3> HIDE DEF y, n
    <3> QED
      BY <1>3, <3>1, <3>2, Zenon DEF RealtimeCheck, clientVars
  <2>2. /\ y \in Requests /\ y.pc = "sending" /\ y.seq = out[p].seq
        /\ n \in Requests /\ n.pc = out[p].pc /\ n.seq = out[p].seq
    BY RequestTypes, Zenon DEF Requests
  <2>3. out[p].seq \in 1 .. messageSeq
    BY <2>1 DEF IInv, RequestInv
  <2> HIDE DEF y, n
  <2> QED
    BY <2>1, <2>2, <2>3, RequestOnly
<1> QED
  BY <1>1, <1>2, <1>3

\* No device is synced after the end of the process.
LEMMA ProcessEndsStep ==
  ASSUME IInv, ProcessEnds
  PROVE  IInv'
<1>1. NoRequest \in Requests /\ NoRequest.pc = "idle"
  BY DeliveryAssumption DEF NoRequest, Requests
<1>2. /\ out' = [p \in Senders |-> NoRequest] /\ synced' = {} /\ subscriptions' = {} /\ realtimeSubs' = {}
      /\ UNCHANGED <<messageSeq, base, cursor, got, fannedOut>>
  BY DEF ProcessEnds
<1>3. Types'
  BY <1>1, <1>2 DEF IInv, Types, Requests
<1>4. RequestInv'
  BY <1>1, <1>2 DEF RequestInv
<1>5. CursorInv' /\ NothingMissed' /\ \A p \in Senders, c \in synced' : OnItsWay(p, c)'
  BY <1>2 DEF IInv, CursorInv, NothingMissed
<1> QED
  BY <1>3, <1>4, <1>5 DEF IInv

\* Requests.
LEMMA SendingStep ==
  ASSUME IInv, NEW p \in Senders, Sending(p)
  PROVE  IInv'
<1>1. CASE RealtimeSendPanics(p)
  <2>1. CASE ProcessEnds
    BY <2>1, ProcessEndsStep
  <2>2. CASE /\ out' = [out EXCEPT ![p] = NoRequest]
             /\ UNCHANGED <<messageSeq, subscriptions, realtimeSubs, synced, base, cursor, got, fannedOut>>
    BY <2>2, RequestOnly, RequestTypes, Zenon
  <2> QED
    BY <1>1, <2>1, <2>2 DEF RealtimeSendPanics, clientVars
<1> QED
  BY <1>1, SendMessageStep, WriteAckStep, CollectTargetsStep, WriteEventStep, StreamsWrittenStep,
     RealtimeStep DEF Sending

\* A sync to the end brings all that is stored, and what is on its way is stored.
LEMMA SyncChannelStep ==
  ASSUME IInv, NEW c \in Streams, SyncChannel(c)
  PROVE  IInv'
<1>1. PICK last \in cursor[c] .. messageSeq :
         /\ got' = [got EXCEPT ![c] = @ \cup ((cursor[c] + 1) .. last)]
         /\ cursor' = [cursor EXCEPT ![c] = last]
         /\ synced' = IF c \in subscriptions /\ last = messageSeq THEN synced \cup {c} ELSE synced
  BY Zenon DEF SyncChannel
<1>2. UNCHANGED <<messageSeq, subscriptions, realtimeSubs, base, out, fannedOut>>
  BY DEF SyncChannel
<1>3. /\ cursor[c] \in Nat /\ last \in Nat /\ last <= messageSeq /\ messageSeq \in Nat
      /\ (cursor[c] + 1) .. last \subseteq Nat /\ (base[c] + 1) .. cursor[c] \subseteq got[c] /\ base[c] \in Nat
  BY DEF IInv, Types, CursorInv
<1>4. /\ got' \in [Streams -> SUBSET Nat] /\ cursor' \in [Streams -> Nat]
      /\ cursor'[c] = last /\ \A d \in Streams : d # c => cursor'[d] = cursor[d]
      /\ got'[c] = got[c] \cup ((cursor[c] + 1) .. last) /\ \A d \in Streams : d # c => got'[d] = got[d]
  BY <1>1, <1>3 DEF IInv, Types
<1>5. (base[c] + 1) .. last \subseteq got'[c]
  BY <1>3, <1>4
<1>6. Types' /\ RequestInv'
  BY <1>1, <1>2, <1>4 DEF IInv, Types, RequestInv
<1>7. CursorInv'
  BY <1>2, <1>3, <1>4, <1>5 DEF IInv, CursorInv
<1>8. ASSUME NEW d \in synced' PROVE (d \in synced /\ got[d] \subseteq got'[d]) \/ (base[d] + 1) .. messageSeq \subseteq got'[d]
  BY <1>1, <1>4, <1>5 DEF IInv, Types
<1>9. synced' \subseteq Streams /\ base \in [Streams -> Nat] /\ messageSeq \in Nat
  BY <1>1 DEF IInv, Types
<1>10. NothingMissed'
  <2> SUFFICES ASSUME NEW d \in synced', NEW n \in fannedOut, n > base[d] PROVE n \in got'[d]
    BY <1>2 DEF NothingMissed
  <2>1. n \in 1 .. messageSeq /\ base[d] \in Nat
    BY <1>9 DEF IInv, Types
  <2>2. n \in (base[d] + 1) .. messageSeq
    BY <1>9, <2>1
  <2> QED
    BY <1>8, <2>2 DEF IInv, NothingMissed
<1>11. \A p \in Senders, d \in synced' : OnItsWay(p, d)'
  <2> SUFFICES ASSUME NEW p \in Senders, NEW d \in synced', out[p].pc = "writing", out[p].seq > base[d]
               PROVE  out[p].seq \in got'[d] \/ d \in out[p].targets
    BY <1>2 DEF OnItsWay
  <2>1. out[p].seq \in 1 .. messageSeq /\ base[d] \in Nat
    BY <1>9 DEF IInv, RequestInv
  <2>2. out[p].seq \in (base[d] + 1) .. messageSeq
    BY <1>9, <2>1
  <2> QED
    BY <1>8, <2>2 DEF IInv, OnItsWay
<1> QED
  BY <1>6, <1>7, <1>10, <1>11 DEF IInv

\* A device that goes is no longer synced.
LEMMA DisconnectStep ==
  ASSUME IInv, NEW c \in Streams, Disconnect(c)
  PROVE  IInv'
<1>1. /\ subscriptions' = subscriptions \ {c} /\ synced' = synced \ {c}
      /\ UNCHANGED <<messageSeq, realtimeSubs, base, cursor, got, fannedOut>>
  BY DEF Disconnect
<1>2. ASSUME NEW p \in Senders
      PROVE  /\ out'[p] \in Requests /\ out'[p].pc = out[p].pc /\ out'[p].seq = out[p].seq
             /\ out'[p].targets = out[p].targets \ {c}
  <2>1. out'[p] = [out[p] EXCEPT !.targets = @ \ {c}]
    BY DEF Disconnect
  <2> QED
    BY <2>1, RequestTypes DEF Requests
<1>3. out' \in [Senders -> Requests]
  <2>1. out' = [p \in Senders |-> [out[p] EXCEPT !.targets = @ \ {c}]]
    BY DEF Disconnect
  <2>2. DOMAIN out' = Senders /\ out' = [p \in Senders |-> out'[p]]
    BY <2>1
  <2> QED
    BY <1>2, <2>2
<1>4. Types'
  BY <1>1, <1>3 DEF IInv, Types, Requests
<1>5. RequestInv' /\ CursorInv' /\ NothingMissed'
  BY <1>1, <1>2 DEF IInv, RequestInv, CursorInv, NothingMissed
<1>6. \A p \in Senders, d \in synced' : OnItsWay(p, d)'
  BY <1>1, <1>2 DEF IInv, OnItsWay
<1> QED
  BY <1>4, <1>5, <1>6 DEF IInv

\* A device that connects is not synced, and has nothing to have got yet.
LEMMA ConnectStep ==
  ASSUME IInv, LastInv, StreamInv, NEW c \in Streams, Connect(c)
  PROVE  IInv'
<1>1. /\ base' = [base EXCEPT ![c] = lastSeq[c]] /\ cursor' = [cursor EXCEPT ![c] = lastSeq[c]]
      /\ UNCHANGED <<messageSeq, subscriptions, realtimeSubs, synced, got, out, fannedOut>>
  BY DEF Connect
<1>2. c \notin synced
  BY DEF Connect, StreamInv, IInv, Types
<1>3. /\ base' \in [Streams -> Nat] /\ cursor' \in [Streams -> Nat]
      /\ base'[c] = lastSeq[c] /\ cursor'[c] = lastSeq[c] /\ lastSeq[c] \in Nat /\ lastSeq[c] <= messageSeq
      /\ \A d \in Streams : d # c => base'[d] = base[d] /\ cursor'[d] = cursor[d]
  BY <1>1 DEF IInv, Types, LastInv
<1>4. Types' /\ RequestInv'
  BY <1>1, <1>3 DEF IInv, Types, RequestInv
<1>5. CursorInv'
  <2> SUFFICES ASSUME NEW d \in Streams
               PROVE  /\ base'[d] <= messageSeq /\ cursor'[d] <= messageSeq
                      /\ (base'[d] + 1) .. cursor'[d] \subseteq got[d]
    BY <1>1 DEF CursorInv
  <2>1. CASE d = c
    BY <1>3, <2>1
  <2>2. CASE d # c
    BY <1>3, <2>2 DEF IInv, CursorInv
  <2> QED
    BY <2>1, <2>2
<1>6. \A d \in synced : base'[d] = base[d]
  BY <1>2, <1>3 DEF IInv, Types
<1>7. NothingMissed' /\ \A p \in Senders, d \in synced' : OnItsWay(p, d)'
  BY <1>1, <1>6, Zenon DEF IInv, NothingMissed, OnItsWay
<1> QED
  BY <1>4, <1>5, <1>7 DEF IInv

\* Devices.
LEMMA DeviceStep ==
  ASSUME IInv, LastInv, StreamInv, NEW c \in Streams, Device(c)
  PROVE  IInv'
<1>1. CASE SubscribeRequest(c)
  <2>1. /\ UNCHANGED <<messageSeq, subscriptions, synced, base, cursor, got, out, fannedOut>>
        /\ realtimeSubs' \subseteq Sockets
    BY <1>1 DEF SubscribeRequest, clientVars, IInv, Types
  <2> QED
    BY <2>1, Frame
<1>2. CASE SubscribeChannel(c) \/ UnsubscribeChannel(c)
  <2>1. /\ subscriptions' \subseteq Streams /\ synced' \subseteq synced /\ synced' \subseteq subscriptions'
        /\ UNCHANGED <<messageSeq, realtimeSubs, base, cursor, got, out, fannedOut>>
    BY <1>2 DEF SubscribeChannel, UnsubscribeChannel, clientVars, IInv, Types
  <2> QED
    BY <2>1 DEF IInv, Types, RequestInv, CursorInv, NothingMissed, OnItsWay
<1> QED
  BY <1>1, <1>2, ConnectStep, SyncChannelStep, DisconnectStep DEF Device

\* Every step keeps the invariant.
LEMMA NextIInv == IInv /\ LastInv /\ StreamInv /\ [Next]_vars => IInv'
<1> SUFFICES ASSUME IInv, LastInv, StreamInv, [Next]_vars PROVE IInv'
  OBVIOUS
<1>1. ASSUME (\E w \in Sockets : Socket(w)) \/ UNCHANGED vars
      PROVE  IInv'
  <2>1. /\ UNCHANGED <<messageSeq, subscriptions, synced, base, cursor, got, out, fannedOut>>
        /\ realtimeSubs' \subseteq Sockets
    BY <1>1 DEF Socket, OpenSocket, SocketSubscribe, SocketUnsubscribe, CloseSocket, WritePump, vars,
                clientVars, IInv, Types
  <2> QED
    BY <2>1, Frame
<1> QED
  BY <1>1, DeviceStep, SendingStep, ProcessEndsStep DEF Next

-----------------------------------------------------------------------------

\* Nobody is connected.
LEMMA InitConn == Init => ConnInv
<1> SUFFICES ASSUME Init PROVE ConnInv
  OBVIOUS
<1>1. NoConnection \in Connections
  BY DeliveryAssumption DEF NoConnection, Connections
<1>2. StreamInv
  BY DEF Init, StreamInv
<1>3. SocketInv /\ LastInv
  BY <1>1 DEF Init, SocketInv, LastInv
<1>4. BoundInv
  BY DeliveryAssumption DEF Init, BoundInv
<1> QED
  BY <1>2, <1>3, <1>4 DEF ConnInv

\* A stream leaves the map of subscriptions when it ends.
LEMMA StreamSteps ==
  ASSUME StreamInv, [Next]_vars
  PROVE  StreamInv'
<1>1. CASE UNCHANGED <<stream, subscriptions>>
  BY <1>1 DEF StreamInv
<1>2. CASE ProcessEnds
  BY <1>2 DEF ProcessEnds, StreamInv
<1>3. ASSUME NEW c \in Streams, Connect(c) \/ SubscribeRequest(c) PROVE StreamInv'
  BY <1>3 DEF Connect, SubscribeRequest, StreamInv
<1>4. ASSUME NEW c \in Streams, SubscribeChannel(c) PROVE StreamInv'
  BY <1>4 DEF SubscribeChannel, StreamInv
<1>5. ASSUME NEW c \in Streams, UnsubscribeChannel(c) PROVE StreamInv'
  BY <1>5 DEF UnsubscribeChannel, StreamInv
<1>6. ASSUME NEW c \in Streams, Disconnect(c) PROVE StreamInv'
  BY <1>6 DEF Disconnect, StreamInv
<1>7. ASSUME NEW c \in Streams, SyncChannel(c) PROVE UNCHANGED <<stream, subscriptions>>
  BY <1>7 DEF SyncChannel
<1>8. ASSUME NEW w \in Sockets, Socket(w) PROVE UNCHANGED <<stream, subscriptions>>
  BY <1>8, Zenon DEF Socket, OpenSocket, SocketSubscribe, SocketUnsubscribe, CloseSocket, WritePump
<1>9. ASSUME NEW p \in Senders, Sending(p) PROVE UNCHANGED <<stream, subscriptions>> \/ ProcessEnds
  BY <1>9, Zenon DEF Sending, SendMessage, WriteAck, CollectTargets, StreamsWritten, EndRequest, WriteEvent,
              RealtimeCheck, RealtimeSend, RealtimeSendPanics
<1>10. CASE UNCHANGED vars
  BY <1>10, <1>1 DEF vars
<1> QED
  BY <1>1, <1>2, <1>3, <1>4, <1>5, <1>6, <1>7, <1>8, <1>9, <1>10 DEF Next, Device

\* One connection changes, and registrations follow it.
LEMMA SocketMoves ==
  ASSUME SocketInv, NEW w \in Sockets, NEW k \in Connections, socket' = [socket EXCEPT ![w] = k],
         realtimeSubs' \subseteq realtimeSubs \cup {w}, w \in realtimeSubs' => k.phase = "open"
  PROVE  SocketInv'
<1>1. socket'[w] = k /\ \A v \in Sockets : v # w => socket'[v] = socket[v]
  BY DEF SocketInv
<1>2. socket' \in [Sockets -> Connections]
  BY DEF SocketInv
<1>3. realtimeSubs' \subseteq {v \in Sockets : socket'[v].phase = "open"}
  BY <1>1 DEF SocketInv
<1> QED
  BY <1>2, <1>3 DEF SocketInv

\* readPump and writePump.
LEMMA SocketStep ==
  ASSUME SocketInv, NEW w \in Sockets, Socket(w)
  PROVE  SocketInv'
<1> DEFINE s == socket[w]
<1>1. /\ s \in Connections /\ s.send \in 0 .. BufferSize
      /\ w \in realtimeSubs => s.phase = "open"
  BY DEF SocketInv, Connections
<1>2. CASE OpenSocket(w)
  <2> DEFINE k == [NoConnection EXCEPT !.phase = "open", !.pump = TRUE]
  <2>1. k \in Connections /\ k.phase = "open"
    <3>1. NoConnection \in Connections
      BY DeliveryAssumption DEF NoConnection, Connections
    <3>2. \A n \in Connections :
            /\ [n EXCEPT !.phase = "open", !.pump = TRUE] \in Connections
            /\ [n EXCEPT !.phase = "open", !.pump = TRUE].phase = "open"
      BY Zenon DEF Connections
    <3> QED
      BY <3>1, <3>2, Zenon
  <2>2. socket' = [socket EXCEPT ![w] = k] /\ realtimeSubs' = realtimeSubs
    BY <1>2 DEF OpenSocket
  <2> HIDE DEF k
  <2> QED
    BY <2>1, <2>2, SocketMoves, Zenon
<1>3. CASE SocketSubscribe(w) \/ SocketUnsubscribe(w)
  <2>1. PICK b \in BOOLEAN : socket' = [socket EXCEPT ![w] = [s EXCEPT !.subs = b]]
    BY <1>3, Zenon DEF SocketSubscribe, SocketUnsubscribe, SocketInv
  <2>2. [s EXCEPT !.subs = b] \in Connections /\ [s EXCEPT !.subs = b].phase = s.phase
    BY <1>1 DEF Connections
  <2>3. s.phase = "open" /\ realtimeSubs' \subseteq realtimeSubs \cup {w}
    BY <1>3 DEF SocketSubscribe, SocketUnsubscribe
  <2> QED
    BY <1>1, <2>1, <2>2, <2>3, SocketMoves, Zenon
<1>4. CASE CloseSocket(w)
  <2>1. socket' = [socket EXCEPT ![w] = [s EXCEPT !.phase = "closed"]] /\ realtimeSubs' = realtimeSubs \ {w}
    BY <1>4 DEF CloseSocket, SocketInv
  <2>2. [s EXCEPT !.phase = "closed"] \in Connections
    BY <1>1 DEF Connections
  <2> QED
    BY <1>1, <2>1, <2>2, SocketMoves, Zenon
<1>5. CASE WritePump(w)
  <2>1. realtimeSubs' = realtimeSubs
    BY <1>5 DEF WritePump
  <2>2. ASSUME s.send > 0, NEW b \in BOOLEAN, socket' = [socket EXCEPT ![w].send = @ - 1, ![w].pump = b]
        PROVE  SocketInv'
    <3> DEFINE n == s.send - 1
               k == [s EXCEPT !.send = n, !.pump = b]
    <3>1. socket' = [socket EXCEPT ![w] = k]
      BY <2>2, Zenon DEF SocketInv
    <3>2. n \in 0 .. BufferSize
      BY <1>1, <2>2, DeliveryAssumption
    <3> HIDE DEF n
    <3>3. k \in Connections /\ k.phase = s.phase
      BY <1>1, <3>2, Zenon DEF Connections
    <3> HIDE DEF k
    <3> QED
      BY <1>1, <2>1, <3>1, <3>3, SocketMoves, Zenon
  <2>3. ASSUME socket' = [socket EXCEPT ![w].pump = FALSE] PROVE SocketInv'
    <3>1. socket' = [socket EXCEPT ![w] = [s EXCEPT !.pump = FALSE]]
      BY <2>3 DEF SocketInv
    <3>2. [s EXCEPT !.pump = FALSE] \in Connections /\ [s EXCEPT !.pump = FALSE].phase = s.phase
      BY <1>1, Zenon DEF Connections
    <3> QED
      BY <1>1, <2>1, <3>1, <3>2, SocketMoves, Zenon
  <2> QED
    BY <1>5, <2>2, <2>3 DEF WritePump
<1> QED
  BY <1>2, <1>3, <1>4, <1>5 DEF Socket

\* An event goes into a buffer only while there is room.
LEMMA RealtimeSendKeepsSockets ==
  ASSUME IInv, SocketInv, NEW p \in Senders, RealtimeSend(p)
  PROVE  SocketInv'
<1> DEFINE w == out[p].to
<1>1. realtimeSubs' = realtimeSubs
  BY DEF RealtimeSend
<1>2. CASE socket' = socket
  BY <1>1, <1>2 DEF SocketInv
<1>3. ASSUME socket[w].send < BufferSize, socket' = [socket EXCEPT ![w].send = @ + 1]
      PROVE  SocketInv'
  <2>1. CASE w \notin Sockets
    BY <1>1, <1>3, <2>1, Zenon DEF SocketInv
  <2>2. CASE w \in Sockets
    <3> DEFINE s == socket[w]
               e == s.send + 1
    <3>1. s \in Connections /\ s.send \in 0 .. BufferSize /\ (w \in realtimeSubs => s.phase = "open")
      BY <2>2 DEF SocketInv, Connections
    <3>2. e \in 0 .. BufferSize
      BY <1>3, <3>1, DeliveryAssumption
    <3>3. socket' = [socket EXCEPT ![w] = [s EXCEPT !.send = e]]
      BY <1>3, <2>2, Zenon DEF SocketInv
    <3> HIDE DEF e
    <3>4. [s EXCEPT !.send = e] \in Connections /\ [s EXCEPT !.send = e].phase = s.phase
      BY <3>1, <3>2, Zenon DEF Connections
    <3> QED
      BY <1>1, <2>2, <3>1, <3>2, <3>3, <3>4, SocketMoves, Zenon
  <2> QED
    BY <2>1, <2>2
<1> QED
  BY <1>2, <1>3 DEF RealtimeSend

\* Every step keeps the sockets in order.
LEMMA SocketSteps ==
  ASSUME IInv, SocketInv, [Next]_vars
  PROVE  SocketInv'
<1>1. CASE UNCHANGED <<socket, realtimeSubs>>
  BY <1>1 DEF SocketInv
<1>2. CASE ProcessEnds
  <2>1. NoConnection \in Connections
    BY DeliveryAssumption DEF NoConnection, Connections
  <2> QED
    BY <1>2, <2>1 DEF ProcessEnds, SocketInv
<1>3. ASSUME NEW c \in Streams, Device(c) PROVE UNCHANGED <<socket, realtimeSubs>>
  BY <1>3 DEF Device, Connect, SubscribeRequest, SubscribeChannel, UnsubscribeChannel, SyncChannel, Disconnect
<1>4. ASSUME NEW p \in Senders, Sending(p)
      PROVE  UNCHANGED <<socket, realtimeSubs>> \/ ProcessEnds \/ RealtimeSend(p)
  BY <1>4, Zenon DEF Sending, SendMessage, WriteAck, CollectTargets, StreamsWritten, EndRequest, WriteEvent,
              RealtimeCheck, RealtimeSendPanics
<1>5. CASE UNCHANGED vars
  BY <1>5, <1>1 DEF vars
<1> QED
  BY <1>1, <1>2, <1>3, <1>4, <1>5, SocketStep, RealtimeSendKeepsSockets DEF Next

\* The last_seq of a device follows what it is given.
LEMMA LastSteps ==
  ASSUME IInv, LastInv, [Next]_vars
  PROVE  LastInv'
<1>1. CASE UNCHANGED lastSeq /\ messageSeq' \in Nat /\ messageSeq <= messageSeq'
  BY <1>1 DEF LastInv, IInv, Types
<1>2. ASSUME NEW c \in Streams, NEW n \in Nat, n <= messageSeq, messageSeq' = messageSeq,
             lastSeq' = [lastSeq EXCEPT ![c] = Later(@, n)]
      PROVE  LastInv'
  <2>1. Later(lastSeq[c], n) \in Nat /\ Later(lastSeq[c], n) <= messageSeq
    BY <1>2 DEF Later, LastInv
  <2> QED
    BY <1>2, <2>1 DEF LastInv
<1>3. ASSUME NEW c \in Streams, SyncChannel(c) PROVE LastInv'
  <2>1. PICK last \in cursor[c] .. messageSeq : lastSeq' = [lastSeq EXCEPT ![c] = Later(@, last)]
    BY <1>3, Zenon DEF SyncChannel
  <2>2. last \in Nat /\ last <= messageSeq /\ messageSeq' = messageSeq
    BY <1>3 DEF SyncChannel, IInv, Types
  <2> QED
    BY <1>2, <2>1, <2>2, Zenon
<1>4. ASSUME NEW p \in Senders, NEW c \in Streams, WriteEvent(p, c) PROVE LastInv'
  <2>1. out[p].seq \in 1 .. messageSeq /\ messageSeq \in Nat
    BY <1>4 DEF WriteEvent, IInv, RequestInv, Types
  <2>2. out[p].seq \in Nat /\ out[p].seq <= messageSeq
    BY <2>1
  <2>3. messageSeq' = messageSeq /\ lastSeq' = [lastSeq EXCEPT ![c] = Later(@, out[p].seq)]
    BY <1>4 DEF WriteEvent
  <2> QED
    BY <1>2, <2>2, <2>3, Zenon
<1>5. ASSUME NEW p \in Senders, NEW n \in 1 .. MaxSeq, SendMessage(p, n) PROVE LastInv'
  <2>1. messageSeq <= messageSeq' /\ messageSeq' \in Nat /\ lastSeq' = lastSeq
    BY <1>5, DeliveryAssumption DEF SendMessage, clientVars, IInv, Types
  <2> QED
    BY <1>1, <2>1
<1>6. CASE UNCHANGED <<messageSeq, lastSeq>>
  BY <1>1, <1>6 DEF IInv, Types
<1>7. ASSUME NEW c \in Streams, Device(c) PROVE UNCHANGED <<messageSeq, lastSeq>> \/ SyncChannel(c)
  BY <1>7, Zenon DEF Device, Connect, SubscribeRequest, SubscribeChannel, UnsubscribeChannel, Disconnect, clientVars
<1>8. ASSUME NEW w \in Sockets, Socket(w) PROVE UNCHANGED <<messageSeq, lastSeq>>
  BY <1>8, Zenon DEF Socket, OpenSocket, SocketSubscribe, SocketUnsubscribe, CloseSocket, WritePump, clientVars
<1>9. ASSUME NEW p \in Senders, Sending(p)
      PROVE  \/ UNCHANGED <<messageSeq, lastSeq>>
             \/ \E n \in 1 .. MaxSeq : SendMessage(p, n)
             \/ \E c \in Streams : WriteEvent(p, c)
  BY <1>9, Zenon DEF Sending, WriteAck, CollectTargets, StreamsWritten, EndRequest, RealtimeCheck, RealtimeSend,
              RealtimeSendPanics, ProcessEnds, clientVars
<1>10. CASE UNCHANGED vars \/ ProcessEnds
  BY <1>10, <1>6, Zenon DEF vars, ProcessEnds, clientVars
<1> QED
  BY <1>3, <1>4, <1>5, <1>6, <1>7, <1>8, <1>9, <1>10 DEF Next

\* A device is given what is stored, by a sync or by a request.
LEMMA BoundSteps ==
  ASSUME IInv, BoundInv, [Next]_vars
  PROVE  BoundInv'
<1>1. CASE UNCHANGED <<messageSeq, got>>
  BY <1>1 DEF BoundInv
<1>2. ASSUME NEW c \in Streams, SyncChannel(c) PROVE BoundInv'
  <2>1. PICK last \in cursor[c] .. messageSeq : got' = [got EXCEPT ![c] = @ \cup ((cursor[c] + 1) .. last)]
    BY <1>2, Zenon DEF SyncChannel
  <2>2. (cursor[c] + 1) .. last \subseteq 1 .. messageSeq /\ messageSeq' = messageSeq
    BY <1>2 DEF SyncChannel, IInv, Types
  <2> QED
    BY <2>1, <2>2 DEF IInv, Types, BoundInv
<1>3. ASSUME NEW p \in Senders, NEW n \in 1 .. MaxSeq, SendMessage(p, n) PROVE BoundInv'
  <2>1. messageSeq <= messageSeq' /\ messageSeq' <= MaxSeq /\ messageSeq' \in Nat /\ got' = got
    BY <1>3, DeliveryAssumption DEF SendMessage, clientVars, IInv, Types, BoundInv
  <2>2. 1 .. messageSeq \subseteq 1 .. messageSeq'
    BY <2>1 DEF IInv, Types
  <2> QED
    BY <2>1, <2>2 DEF BoundInv
<1>4. ASSUME NEW p \in Senders, NEW c \in Streams, WriteEvent(p, c) PROVE BoundInv'
  <2>1. out[p].seq \in 1 .. messageSeq /\ messageSeq' = messageSeq /\ got' = [got EXCEPT ![c] = @ \cup {out[p].seq}]
    BY <1>4 DEF WriteEvent, IInv, RequestInv
  <2> QED
    BY <2>1 DEF IInv, Types, BoundInv
<1>5. ASSUME NEW c \in Streams, Device(c) PROVE UNCHANGED <<messageSeq, got>> \/ SyncChannel(c)
  BY <1>5 DEF Device, Connect, SubscribeRequest, SubscribeChannel, UnsubscribeChannel, Disconnect, clientVars
<1>6. ASSUME NEW w \in Sockets, Socket(w) PROVE UNCHANGED <<messageSeq, got>>
  BY <1>6 DEF Socket, OpenSocket, SocketSubscribe, SocketUnsubscribe, CloseSocket, WritePump, clientVars
<1>7. ASSUME NEW p \in Senders, Sending(p)
      PROVE  \/ UNCHANGED <<messageSeq, got>>
             \/ \E n \in 1 .. MaxSeq : SendMessage(p, n)
             \/ \E c \in Streams : WriteEvent(p, c)
  BY <1>7, Zenon DEF Sending, WriteAck, CollectTargets, StreamsWritten, EndRequest, RealtimeCheck, RealtimeSend,
              RealtimeSendPanics, ProcessEnds, clientVars
<1>8. CASE UNCHANGED vars \/ ProcessEnds
  BY <1>8, <1>1 DEF vars, clientVars, ProcessEnds
<1> QED
  BY <1>1, <1>2, <1>3, <1>4, <1>5, <1>6, <1>7, <1>8 DEF Next

-----------------------------------------------------------------------------

\* The inductive invariant of subscriptions, syncs and fan-outs (manager.go) holds in every
\* reachable state.
THEOREM Invariance == Spec => [](IInv /\ ConnInv)
<1>1. IInv /\ ConnInv /\ [Next]_vars => IInv' /\ ConnInv'
  BY NextIInv, LastSteps, StreamSteps, SocketSteps, BoundSteps DEF ConnInv
<1> QED
  BY <1>1, InitIInv, InitConn, PTL DEF Spec

\* However many messages are fanned out at once, and however devices come and go, a device
\* that subscribed and then synced to the end has all past the last_seq it came with that
\* DeliverMessage went through with.
THEOREM NothingMissedHolds == Spec => []NothingMissed
<1>1. IInv => NothingMissed
  BY DEF IInv
<1> QED
  BY <1>1, Invariance, PTL

\* Only open connections are in the two subscriber maps, however pumps, handlers and
\* fan-outs interleave, and devices are given stored messages only.
THEOREM TypeCorrect == Spec => []TypeOK
<1>1. ASSUME IInv, ConnInv PROVE TypeOK
  <2>1. messageSeq \in 0 .. MaxSeq /\ 1 .. messageSeq \subseteq 1 .. MaxSeq
    BY <1>1, DeliveryAssumption DEF IInv, Types, ConnInv, BoundInv
  <2>2. \A f \in [Streams -> Nat] : (\A c \in Streams : f[c] <= messageSeq) => f \in [Streams -> 0 .. MaxSeq]
    BY <2>1, DeliveryAssumption
  <2>3. base \in [Streams -> 0 .. MaxSeq] /\ cursor \in [Streams -> 0 .. MaxSeq]
    BY <1>1, <2>2, Zenon DEF IInv, Types, CursorInv
  <2>4. lastSeq \in [Streams -> 0 .. MaxSeq]
    BY <1>1, <2>2, Zenon DEF ConnInv, LastInv
  <2>5. got \in [Streams -> SUBSET (1 .. MaxSeq)]
    BY <1>1, <2>1 DEF IInv, Types, ConnInv, BoundInv
  <2>6. \A w \in Sockets :
          /\ socket[w].phase \in {"none", "open", "closed"}
          /\ socket[w].subs \in BOOLEAN /\ socket[w].pump \in BOOLEAN
          /\ socket[w].send \in 0 .. BufferSize
    BY <1>1 DEF ConnInv, SocketInv, Connections
  <2> QED
    BY <1>1, <2>1, <2>3, <2>4, <2>5, <2>6 DEF IInv, Types, ConnInv, StreamInv, SocketInv, TypeOK
<1> QED
  BY <1>1, Invariance, PTL

=============================================================================
