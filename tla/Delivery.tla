------------------------------ MODULE Delivery ------------------------------
(***************************************************************************)
(* How the messages of one channel reach its readers: the subscriptions of *)
(* libp2p streams and of WebSockets, DeliverMessage, and what a libp2p     *)
(* client does on top (subscribe, sync, reconnect).  How a message is      *)
(* stored is the matter of ChannelMessages; here it is one step.           *)
(*                                                                         *)
(* A stream in this module is a device that connects again and again, as   *)
(* the client guide describes it: it keeps a last_seq, which pushes and    *)
(* syncs move on, and starts from it after a reconnect.  A connection that *)
(* is gone takes its pushes with it: writes to it fail and are only logged.*)
(***************************************************************************)
EXTENDS Naturals

CONSTANTS
    Streams,          \* devices that read the channel over libp2p
    Sockets,          \* WebSocket clients
    StreamSenders,    \* requests that send: SEND_MESSAGE_REQ ...
    HttpSenders,      \* ... and POST /v1/channels/{id}/messages
    NoSocket,
    BufferSize,       \* wsSendBuffer, 128
    MaxSeq            \* bound: the messages of the channel

Senders == StreamSenders \cup HttpSenders

ASSUME DeliveryAssumption ==
    /\ StreamSenders \cap HttpSenders = {}
    /\ NoSocket \notin Sockets
    /\ BufferSize \in Nat \ {0} /\ MaxSeq \in Nat

VARIABLES
    messageSeq,     \* the channel's message_seq
    subscriptions,  \* Manager.subscriptions: the streams that are subscribed
    realtimeSubs,   \* Manager.realtimeSubs: the WebSockets that are registered
    stream,         \* by device: "closed", "open", or "subscribing" (in the handler)
    synced,         \* the devices that synced to the end since they subscribed
    lastSeq,        \* by device: the last_seq that it keeps
    base,           \* by device: the last_seq that it came with when it connected
    cursor,         \* by device: the after_seq of its next sync
    got,            \* by device: the messages it was given
    socket,         \* by WebSocket: its phase, subs, number of events in send, write pump
    out,            \* by sender: where its request is
    fannedOut       \* the messages that DeliverMessage has written to all streams

clientVars == <<synced, lastSeq, base, cursor, got>>
vars == <<messageSeq, subscriptions, realtimeSubs, stream, clientVars, socket, out, fannedOut>>

NoRequest == [pc |-> "idle", seq |-> 0, targets |-> {}, rt |-> {}, to |-> NoSocket]
Later(m, n) == IF m < n THEN n ELSE m
NoConnection == [phase |-> "none", subs |-> FALSE, send |-> 0, pump |-> FALSE]

-----------------------------------------------------------------------------
(***************************************************************************)
(* Devices on libp2p.                                                      *)
(***************************************************************************)

\* An authenticated session.  The device will sync from its last_seq on.
Connect(c) ==
    /\ stream[c] = "closed"
    /\ stream' = [stream EXCEPT ![c] = "open"]
    /\ base' = [base EXCEPT ![c] = lastSeq[c]]
    /\ cursor' = [cursor EXCEPT ![c] = lastSeq[c]]
    /\ UNCHANGED <<messageSeq, subscriptions, realtimeSubs, synced, lastSeq, got, socket, out,
                   fannedOut>>

\* SUBSCRIBE_CHANNEL_REQ: the membership and the channel are read ...
SubscribeRequest(c) ==
    /\ stream[c] = "open"
    /\ stream' = [stream EXCEPT ![c] = "subscribing"]
    /\ UNCHANGED <<messageSeq, subscriptions, realtimeSubs, clientVars, socket, out, fannedOut>>

\* ... and then the session is entered and the answer written.
SubscribeChannel(c) ==
    /\ stream[c] = "subscribing"
    /\ stream' = [stream EXCEPT ![c] = "open"]
    /\ subscriptions' = subscriptions \cup {c}
    /\ UNCHANGED <<messageSeq, realtimeSubs, clientVars, socket, out, fannedOut>>

UnsubscribeChannel(c) ==
    /\ stream[c] = "open"
    /\ c \in subscriptions
    /\ subscriptions' = subscriptions \ {c}
    /\ synced' = synced \ {c}
    /\ UNCHANGED <<messageSeq, realtimeSubs, stream, lastSeq, base, cursor, got, socket, out,
                   fannedOut>>

\* SYNC_CHANNEL_REQ for some limit: a page up to last.
SyncChannel(c) ==
    /\ stream[c] = "open"
    /\ \E last \in cursor[c] .. messageSeq :
          /\ got' = [got EXCEPT ![c] = @ \cup ((cursor[c] + 1) .. last)]
          /\ cursor' = [cursor EXCEPT ![c] = last]
          /\ lastSeq' = [lastSeq EXCEPT ![c] = Later(@, last)]
          /\ synced' = IF c \in subscriptions /\ last = messageSeq THEN synced \cup {c} ELSE synced
    /\ UNCHANGED <<messageSeq, subscriptions, realtimeSubs, stream, base, socket, out, fannedOut>>

\* The stream ends: unregisterSession, and the writes still to come are lost.
Disconnect(c) ==
    /\ stream[c] # "closed"
    /\ stream' = [stream EXCEPT ![c] = "closed"]
    /\ subscriptions' = subscriptions \ {c}
    /\ synced' = synced \ {c}
    /\ out' = [p \in Senders |-> [out[p] EXCEPT !.targets = @ \ {c}]]
    /\ UNCHANGED <<messageSeq, realtimeSubs, lastSeq, base, cursor, got, socket, fannedOut>>

-----------------------------------------------------------------------------
(***************************************************************************)
(* WebSockets.  readPump handles one action at a time; writePump empties   *)
(* the send buffer.                                                        *)
(***************************************************************************)

\* handleV1WebSocket.  The name of a closed client is used again once no fan-out holds it.
OpenSocket(w) ==
    /\ socket[w].phase # "open"
    /\ \A p \in Senders : w \notin out[p].rt
    /\ socket' = [socket EXCEPT ![w] = [NoConnection EXCEPT !.phase = "open", !.pump = TRUE]]
    /\ UNCHANGED <<messageSeq, subscriptions, realtimeSubs, stream, clientVars, out, fannedOut>>

\* The flag and the registration change under subsMu.
SocketSubscribe(w) ==
    /\ socket[w].phase = "open" /\ ~socket[w].subs
    /\ socket' = [socket EXCEPT ![w].subs = TRUE]
    /\ realtimeSubs' = realtimeSubs \cup {w}
    /\ UNCHANGED <<messageSeq, subscriptions, stream, clientVars, out, fannedOut>>

\* The flag goes before the registration; in between RealtimeDeliver already sees the flag.
SocketUnsubscribe(w) ==
    /\ socket[w].phase = "open" /\ socket[w].subs
    /\ socket' = [socket EXCEPT ![w].subs = FALSE]
    /\ realtimeSubs' = realtimeSubs \ {w}
    /\ UNCHANGED <<messageSeq, subscriptions, stream, clientVars, out, fannedOut>>

\* Mutant: readPump ends without UnregisterRealtimeSubscriberAll.
CloseSocketStillRegistered(w) ==
    /\ socket[w].phase = "open"
    /\ socket' = [socket EXCEPT ![w].phase = "closed"]
    /\ UNCHANGED <<messageSeq, subscriptions, realtimeSubs, stream, clientVars, out, fannedOut>>

\* readPump ends: UnregisterRealtimeSubscriberAll, close(c.send).  subs stays as it is.
CloseSocket(w) ==
    /\ socket[w].phase = "open"
    /\ socket' = [socket EXCEPT ![w].phase = "closed"]
    /\ realtimeSubs' = realtimeSubs \ {w}
    /\ UNCHANGED <<messageSeq, subscriptions, stream, clientVars, out, fannedOut>>

\* writePump takes the next event and writes it.  It ends when this fails, or a ping, or
\* when send is closed and empty.
WritePump(w) ==
    /\ socket[w].pump
    /\ \/ /\ socket[w].send > 0
          /\ \E written \in BOOLEAN :
                socket' = [socket EXCEPT ![w].send = @ - 1, ![w].pump = written]
       \/ socket' = [socket EXCEPT ![w].pump = FALSE]
    /\ UNCHANGED <<messageSeq, subscriptions, realtimeSubs, stream, clientVars, out, fannedOut>>

-----------------------------------------------------------------------------
(***************************************************************************)
(* Sending.                                                                *)
(***************************************************************************)

\* SendMessage returns a new message, or the stored one for a retry.
SendMessage(p, n) ==
    /\ out[p].pc = "idle"
    /\ n <= messageSeq + 1
    /\ messageSeq' = IF n > messageSeq THEN n ELSE messageSeq
    /\ out' = [out EXCEPT ![p] = [NoRequest EXCEPT !.seq = n,
                  !.pc = IF p \in StreamSenders THEN "stored" ELSE "deliver"]]
    /\ UNCHANGED <<subscriptions, realtimeSubs, stream, clientVars, socket, fannedOut>>

\* SEND_MESSAGE_ACK; when it cannot be written the message is not delivered.
WriteAck(p) ==
    /\ out[p].pc = "stored"
    /\ \/ out' = [out EXCEPT ![p].pc = "deliver"]
       \/ out' = [out EXCEPT ![p] = NoRequest]
    /\ UNCHANGED <<messageSeq, subscriptions, realtimeSubs, stream, clientVars, socket, fannedOut>>

\* Mutant: a session that another goroutine is writing to is passed over.
CollectTargetsNotBusy(p) ==
    /\ out[p].pc = "deliver"
    /\ out' = [out EXCEPT ![p].pc = "writing", ![p].rt = realtimeSubs,
                          ![p].targets = subscriptions \ UNION {out[q].targets : q \in Senders}]
    /\ UNCHANGED <<messageSeq, subscriptions, realtimeSubs, stream, clientVars, socket, fannedOut>>

\* DeliverMessage: both lists are copied under the read lock.
CollectTargets(p) ==
    /\ out[p].pc = "deliver"
    /\ out' = [out EXCEPT ![p].pc = "writing", ![p].targets = subscriptions,
                          ![p].rt = realtimeSubs]
    /\ UNCHANGED <<messageSeq, subscriptions, realtimeSubs, stream, clientVars, socket, fannedOut>>

\* One MESSAGE_EVENT is written, and the device takes it and updates its last_seq.  The
\* cursor of its syncs stays, for events may come out of order.
WriteEvent(p, c) ==
    /\ out[p].pc = "writing"
    /\ c \in out[p].targets
    /\ out' = [out EXCEPT ![p].targets = @ \ {c}]
    /\ got' = [got EXCEPT ![c] = @ \cup {out[p].seq}]
    /\ lastSeq' = [lastSeq EXCEPT ![c] = Later(@, out[p].seq)]
    /\ UNCHANGED <<messageSeq, subscriptions, realtimeSubs, stream, synced, base, cursor, socket,
                   fannedOut>>

StreamsWritten(p) ==
    /\ out[p].pc = "writing"
    /\ out[p].targets = {}
    /\ out' = [out EXCEPT ![p].pc = "realtime"]
    /\ fannedOut' = fannedOut \cup {out[p].seq}
    /\ UNCHANGED <<messageSeq, subscriptions, realtimeSubs, stream, clientVars, socket>>

\* RealtimeDeliver reads subs under subsMu ...
RealtimeCheck(p, w) ==
    /\ out[p].pc = "realtime"
    /\ w \in out[p].rt
    /\ \/ socket[w].subs /\ out' = [out EXCEPT ![p].pc = "sending", ![p].to = w]
       \/ ~socket[w].subs /\ out' = [out EXCEPT ![p].rt = @ \ {w}]
    /\ UNCHANGED <<messageSeq, subscriptions, realtimeSubs, stream, clientVars, socket, fannedOut>>

\* ... and puts the event into the buffer without waiting, or drops it.
RealtimeSend(p) ==
    LET w == out[p].to
    IN  /\ out[p].pc = "sending"
        /\ socket[w].phase = "open"
        /\ socket' = IF socket[w].send < BufferSize
                     THEN [socket EXCEPT ![w].send = @ + 1]
                     ELSE socket
        /\ out' = [out EXCEPT ![p].pc = "realtime", ![p].to = NoSocket, ![p].rt = @ \ {w}]
        /\ UNCHANGED <<messageSeq, subscriptions, realtimeSubs, stream, clientVars, fannedOut>>

\* The goroutines and connections of the process are gone.
ProcessEnds ==
    /\ subscriptions' = {}
    /\ realtimeSubs' = {}
    /\ stream' = [c \in Streams |-> "closed"]
    /\ synced' = {}
    /\ socket' = [w \in Sockets |-> NoConnection]
    /\ out' = [p \in Senders |-> NoRequest]
    /\ UNCHANGED <<messageSeq, lastSeq, base, cursor, got, fannedOut>>

\* The send on a closed channel panics: net/http ends the request, nothing stops the panic
\* of a stream's goroutine.
RealtimeSendPanics(p) ==
    /\ out[p].pc = "sending"
    /\ socket[out[p].to].phase = "closed"
    /\ \/ p \in StreamSenders /\ ProcessEnds
       \/ /\ p \in HttpSenders
          /\ out' = [out EXCEPT ![p] = NoRequest]
          /\ UNCHANGED <<messageSeq, subscriptions, realtimeSubs, stream, clientVars, socket,
                         fannedOut>>

EndRequest(p) ==
    /\ out[p].pc = "realtime"
    /\ out[p].rt = {}
    /\ out' = [out EXCEPT ![p] = NoRequest]
    /\ UNCHANGED <<messageSeq, subscriptions, realtimeSubs, stream, clientVars, socket, fannedOut>>

-----------------------------------------------------------------------------

Init ==
    /\ messageSeq = 0
    /\ subscriptions = {}
    /\ realtimeSubs = {}
    /\ stream = [c \in Streams |-> "closed"]
    /\ synced = {}
    /\ lastSeq = [c \in Streams |-> 0]
    /\ base = [c \in Streams |-> 0]
    /\ cursor = [c \in Streams |-> 0]
    /\ got = [c \in Streams |-> {}]
    /\ socket = [w \in Sockets |-> NoConnection]
    /\ out = [p \in Senders |-> NoRequest]
    /\ fannedOut = {}

Device(c) ==
    \/ Connect(c) \/ SubscribeRequest(c) \/ SubscribeChannel(c)
    \/ UnsubscribeChannel(c) \/ SyncChannel(c) \/ Disconnect(c)

Socket(w) ==
    OpenSocket(w) \/ SocketSubscribe(w) \/ SocketUnsubscribe(w) \/ CloseSocket(w) \/ WritePump(w)

Sending(p) ==
    \/ \E n \in 1 .. MaxSeq : SendMessage(p, n)
    \/ WriteAck(p) \/ CollectTargets(p) \/ StreamsWritten(p) \/ EndRequest(p)
    \/ \E c \in Streams : WriteEvent(p, c)
    \/ \E w \in Sockets : RealtimeCheck(p, w)
    \/ RealtimeSend(p) \/ RealtimeSendPanics(p)

Next ==
    \/ \E c \in Streams : Device(c)
    \/ \E w \in Sockets : Socket(w)
    \/ \E p \in Senders : Sending(p)
    \/ ProcessEnds

Spec == Init /\ [][Next]_vars

-----------------------------------------------------------------------------
(***************************************************************************)
(* Properties.                                                             *)
(***************************************************************************)

Requests ==
    [pc : {"idle", "stored", "deliver", "writing", "realtime", "sending"}, seq : 0 .. MaxSeq,
     targets : SUBSET Streams, rt : SUBSET Sockets, to : Sockets \cup {NoSocket}]

\* The state is well formed: only connections that are open are in the two subscriber maps.
TypeOK ==
    /\ messageSeq \in 0 .. MaxSeq
    /\ stream \in [Streams -> {"closed", "open", "subscribing"}]
    /\ subscriptions \subseteq {c \in Streams : stream[c] # "closed"}
    /\ realtimeSubs \subseteq {w \in Sockets : socket[w].phase = "open"}
    /\ synced \subseteq subscriptions
    /\ lastSeq \in [Streams -> 0 .. MaxSeq]
    /\ base \in [Streams -> 0 .. MaxSeq]
    /\ cursor \in [Streams -> 0 .. MaxSeq]
    /\ got \in [Streams -> SUBSET (1 .. MaxSeq)]
    /\ out \in [Senders -> Requests]
    /\ fannedOut \subseteq 1 .. messageSeq
    /\ \A w \in Sockets :
          /\ socket[w].phase \in {"none", "open", "closed"}
          /\ socket[w].subs \in BOOLEAN /\ socket[w].pump \in BOOLEAN
          /\ socket[w].send \in 0 .. BufferSize

\* A device that subscribed, then synced to the end, and is still connected has every message
\* past the last_seq it came with that DeliverMessage has gone through with:
\* SUBSCRIBE_CHANNEL enters the session before it answers, so what the pushes leave out the
\* sync brings.
NothingMissed == \A c \in synced : \A n \in fannedOut : n > base[c] => n \in got[c]

\* The guide has the client update its last_seq with every MESSAGE_EVENT and sync from it
\* after a reconnect, and says that "this can bring back the messages missed while
\* offline": a device that has done so has every message that was fanned out.
ReconnectMissesNothing == \A c \in synced : fannedOut \subseteq got[c]

\* UnregisterRealtimeSubscriberAll "removes a subscriber from every channel": when readPump
\* then closes the send channel, no fan-out is about to send on it.
NoSendOnClosed ==
    \A p \in Senders : out[p].pc = "sending" => socket[out[p].to].phase # "closed"

=============================================================================
