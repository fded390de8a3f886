------------------------------- MODULE Sessions ------------------------------
(***************************************************************************)
(* Authentication over libp2p streams and over HTTP, and what a stream's   *)
(* session carries because of it: the registry of direct sessions, which   *)
(* direct messages are pushed through, and the user whose read and         *)
(* delivery cursors its acknowledgements move.                             *)
(*                                                                         *)
(* VerifyChallenge is several statements, of callers that run at once; a   *)
(* stream handles one request at a time.  A signature is valid: a proof    *)
(* with another one changes nothing.  The times a client claims are its    *)
(* own business (it signs them), so they do not appear: the row decides.   *)
(***************************************************************************)
EXTENDS Integers, Sequences

CONSTANTS
    Peers,      \* peer ids that clients have the key of
    Streams,    \* libp2p streams, each with its ConnSession
    Requests,   \* POST /v1/auth/verify requests that may run at once
    Nonces,
    NoPeer, NoNonce,
    TTL,        \* ChallengeTTL
    MaxTime,    \* bound: the clock
    MaxSeq      \* bound: sequence numbers in acknowledgements

ASSUME SessionsAssumption ==
    /\ NoPeer \notin Peers /\ NoNonce \notin Nonces /\ Streams \cap Requests = {}
    /\ TTL \in Nat /\ MaxTime \in Nat /\ MaxSeq \in Nat

Callers == Streams \cup Requests

VARIABLES
    now,             \* the clock
    nonces,          \* auth_nonces: by nonce, its row
    users,           \* users: the peer id of each, in the order of their ids
    call,            \* by caller: the VerifyChallenge it runs
    session,         \* by stream: its ConnSession
    directSessions,  \* Manager.directSessions: pairs of a user and a stream
    tokens,          \* access tokens: the user and peer id in the claims
    accepted,        \* proofs that VerifyChallenge has accepted
    cursor,          \* user_channel_reads of the first user for a channel
    acks,            \* the acknowledgements that moved it, or were too old to
    proved           \* by stream: the peer of the last proof that authenticated it

authVars == <<nonces, users, call, tokens, accepted>>
vars == <<now, authVars, session, directSessions, cursor, acks, proved>>

NoChallenge == [peer |-> NoPeer, expires |-> 0, used |-> FALSE]
NoCall == [pc |-> "idle", peer |-> NoPeer, nonce |-> NoNonce, at |-> 0]
\* user: that of authResult, 0 before it is set.  told: that of the last AUTH_RESULT.
\* was: the users it has ever been authenticated as.
NewSession == [open |-> TRUE, challenged |-> FALSE, user |-> 0, told |-> 0, was |-> {}]

\* GetByPeerID.
UserOf(p) == CHOOSE u \in DOMAIN users : users[u] = p

\* The stream is read again when dispatch has returned.
Idle(s) == session[s].open /\ call[s] = NoCall

-----------------------------------------------------------------------------
(***************************************************************************)
(* IssueChallenge and VerifyChallenge.                                     *)
(***************************************************************************)

IssueChallenge(n, p) ==
    /\ nonces[n] = NoChallenge
    /\ nonces' = [nonces EXCEPT ![n] = [peer |-> p, expires |-> now + TTL, used |-> FALSE]]
    /\ UNCHANGED <<now, users, call, tokens, accepted, directSessions, cursor, acks, proved>>

\* HELLO.  The peer id is what the client says.
Hello(s, n, p) ==
    /\ Idle(s)
    /\ IssueChallenge(n, p)
    /\ session' = [session EXCEPT ![s].challenged = TRUE]

\* POST /v1/auth/challenge.
HandleAuthChallenge(n, p) == IssueChallenge(n, p) /\ UNCHANGED session

\* VerifyChallenge up to UseNonce; the time it reads here is used in every later step.
Verify(c, n, p) ==
    /\ call[c] = NoCall
    /\ nonces[n] # NoChallenge
    /\ call' = [call EXCEPT ![c] = [pc |-> "use", peer |-> p, nonce |-> n, at |-> now]]
    /\ UNCHANGED <<now, nonces, users, tokens, accepted, session, directSessions, cursor, acks, proved>>

\* AUTH_PROVE: Authenticate wants some challenge, not the one that is proved.
AuthProve(s, n, p) == Idle(s) /\ session[s].challenged /\ Verify(s, n, p)

\* POST /v1/auth/verify.
HandleAuthVerify(r, n, p) == Verify(r, n, p)

\* Whether UPDATE auth_nonces ... WHERE finds the row.
NonceMatches(k) ==
    LET row == nonces[k.nonce]
    IN  row.peer = k.peer /\ ~row.used /\ row.expires >= k.at

Return(c) == call' = [call EXCEPT ![c] = NoCall]

\* Mutant: the row is looked up before, and used_at set without the condition.
UseNonceAgain(c) ==
    /\ call[c].pc = "use"
    /\ nonces[call[c].nonce].peer = call[c].peer
    /\ nonces' = [nonces EXCEPT ![call[c].nonce].used = TRUE]
    /\ accepted' = accepted \cup {[caller |-> c, nonce |-> call[c].nonce, peer |-> call[c].peer, at |-> call[c].at]}
    /\ call' = [call EXCEPT ![c].pc = "create"]
    /\ UNCHANGED <<now, users, tokens, session, directSessions, cursor, acks, proved>>

\* One UPDATE: of callers with the same nonce, one goes on.
UseNonce(c) ==
    /\ call[c].pc = "use"
    /\ NonceMatches(call[c])
    /\ nonces' = [nonces EXCEPT ![call[c].nonce].used = TRUE]
    /\ accepted' = accepted \cup {[caller |-> c, nonce |-> call[c].nonce, peer |-> call[c].peer, at |-> call[c].at]}
    /\ call' = [call EXCEPT ![c].pc = "create"]
    /\ UNCHANGED <<now, users, tokens, session, directSessions, cursor, acks, proved>>

\* Mutant: an INSERT for every login.
CreateUserAlways(c) ==
    /\ call[c].pc = "create"
    /\ users' = Append(users, call[c].peer)
    /\ call' = [call EXCEPT ![c].pc = "login"]
    /\ UNCHANGED <<now, nonces, tokens, accepted, session, directSessions, cursor, acks, proved>>

\* CreateIfNotExistsByPeerID: peer_id is a unique key.
CreateUser(c) ==
    /\ call[c].pc = "create"
    /\ users' = IF \E u \in DOMAIN users : users[u] = call[c].peer THEN users ELSE Append(users, call[c].peer)
    /\ call' = [call EXCEPT ![c].pc = "login"]
    /\ UNCHANGED <<now, nonces, tokens, accepted, session, directSessions, cursor, acks, proved>>

\* UpdateLogin; for a stream, Authenticate then sets authResult.
Authenticate(s) ==
    /\ call[s].pc = "login"
    /\ LET u == UserOf(call[s].peer)
       IN  session' = [session EXCEPT ![s].user = u, ![s].was = @ \cup {u}]
    /\ call' = [call EXCEPT ![s].pc = "list"]
    /\ proved' = [proved EXCEPT ![s] = call[s].peer]
    /\ UNCHANGED <<now, nonces, users, tokens, accepted, directSessions, cursor, acks>>

\* Mutant: the claim peer_id is filled with user.UserID.
SignHTTPAccessTokenExtID(p) == [user |-> UserOf(p), peer |-> UserOf(p)]

SignHTTPAccessToken(p) == [user |-> UserOf(p), peer |-> p]

\* UpdateLogin; over HTTP, the token is signed and returned.
AnswerVerify(r) ==
    /\ call[r].pc = "login"
    /\ tokens' = tokens \cup {SignHTTPAccessToken(call[r].peer)}
    /\ Return(r)
    /\ UNCHANGED <<now, nonces, users, accepted, session, directSessions, cursor, acks, proved>>

\* UseNonce finds no row, or a statement fails.  What was done stays: a nonce that is
\* used, and from ListSpaces on also the user of the session.
VerifyFails(c) ==
    /\ call[c] # NoCall
    /\ Return(c)
    /\ UNCHANGED <<now, nonces, users, tokens, accepted, session, directSessions, cursor, acks, proved>>

-----------------------------------------------------------------------------
(***************************************************************************)
(* The registry of direct sessions.                                        *)
(***************************************************************************)

\* Mutant: a session is registered when it is authenticated for the first time.
RegisterOnce(s) ==
    /\ call[s].pc = "list"
    /\ directSessions' = IF session[s].told # 0 THEN directSessions
                         ELSE directSessions \cup {<<session[s].user, s>>}
    /\ session' = [session EXCEPT ![s].told = session[s].user]
    /\ Return(s)
    /\ UNCHANGED <<now, nonces, users, tokens, accepted, cursor, acks, proved>>

RegisterDirectUserSession(s) == directSessions' = directSessions \cup {<<session[s].user, s>>}

\* AUTH_PROVE after ListSpaces: the session is registered, then AUTH_RESULT is written.
Register(s) ==
    /\ call[s].pc = "list"
    /\ RegisterDirectUserSession(s)
    /\ session' = [session EXCEPT ![s].told = session[s].user]
    /\ Return(s)
    /\ UNCHANGED <<now, nonces, users, tokens, accepted, cursor, acks, proved>>

\* Mutant: only the subscriptions are cleared.
UnregisterSessionKept(s) == UNCHANGED directSessions

\* The user is that of authResult, the last one.
UnregisterSession(s) == directSessions' = directSessions \ {<<session[s].user, s>>}

\* HandleStream returns.
Close(s) ==
    /\ Idle(s)
    /\ session' = [session EXCEPT ![s].open = FALSE]
    /\ UnregisterSession(s)
    /\ UNCHANGED <<now, authVars, cursor, acks, proved>>

-----------------------------------------------------------------------------
(***************************************************************************)
(* The cursors of the first user in a channel; each user has a row of its  *)
(* own, and they do not meet.  IsUserMember has said yes.                  *)
(***************************************************************************)

\* Mutant: the last value sent is stored.
MoveCursorAnywhere(kind, seq, p) ==
    /\ cursor' = [cursor EXCEPT ![kind] = seq]
    /\ acks' = acks \cup {[kind |-> kind, seq |-> seq, peer |-> p]}
    /\ UNCHANGED <<now, authVars, session, directSessions, proved>>

\* UpsertDeliveredSeq and UpsertReadSeq: GREATEST, whatever order devices report in.
MoveCursor(kind, seq, p) ==
    /\ cursor' = [cursor EXCEPT ![kind] = IF seq > @ THEN seq ELSE @]
    /\ acks' = acks \cup {[kind |-> kind, seq |-> seq, peer |-> p]}
    /\ UNCHANGED <<now, authVars, session, directSessions, proved>>

\* u is the user the code takes the caller for, p the peer that the caller has proved.
AckDelivered(u, seq, p) == u = 1 /\ MoveCursor("delivered", seq, p)
UpdateRead(u, seq, p) == u = 1 /\ MoveCursor("read", seq, p)

\* dispatch refuses a stream without a user.
ChannelDeliverAck(s, seq) == Idle(s) /\ AckDelivered(session[s].user, seq, proved[s])
ChannelReadUpdate(s, seq) == Idle(s) /\ UpdateRead(session[s].user, seq, proved[s])

\* Over HTTP the token is all there is to a session, and says who the user is.
ParseHTTPAccessToken(t) == t.user
HandleV1DeliveredAck(t, seq) == AckDelivered(ParseHTTPAccessToken(t), seq, t.peer)
HandleV1ReadUpdate(t, seq) == UpdateRead(ParseHTTPAccessToken(t), seq, t.peer)

-----------------------------------------------------------------------------
Tick ==
    /\ now < MaxTime
    /\ now' = now + 1
    /\ UNCHANGED <<authVars, session, directSessions, cursor, acks, proved>>

\* The process ends and starts again: streams and calls are gone, rows and tokens stay.
\* A stream nothing was said on may as well be one that connects later.
Restart ==
    /\ call' = [c \in Callers |-> NoCall]
    /\ session' = [s \in Streams |-> [session[s] EXCEPT !.open = session[s] = NewSession]]
    /\ directSessions' = {}
    /\ UNCHANGED <<now, nonces, users, tokens, accepted, cursor, acks, proved>>

Init ==
    /\ now = 0
    /\ nonces = [n \in Nonces |-> NoChallenge] /\ users = <<>>
    /\ call = [c \in Callers |-> NoCall]
    /\ session = [s \in Streams |-> NewSession] /\ directSessions = {}
    /\ tokens = {} /\ accepted = {}
    /\ cursor = [delivered |-> 0, read |-> 0] /\ acks = {}
    /\ proved = [s \in Streams |-> NoPeer]

Stream(s) ==
    \/ \E n \in Nonces, p \in Peers : Hello(s, n, p) \/ AuthProve(s, n, p)
    \/ UseNonce(s) \/ CreateUser(s) \/ Authenticate(s) \/ VerifyFails(s)
    \/ Register(s) \/ Close(s)
    \/ \E seq \in 1..MaxSeq : ChannelDeliverAck(s, seq) \/ ChannelReadUpdate(s, seq)

HTTP(r) ==
    \/ \E n \in Nonces, p \in Peers : HandleAuthChallenge(n, p) \/ HandleAuthVerify(r, n, p)
    \/ UseNonce(r) \/ CreateUser(r) \/ AnswerVerify(r) \/ VerifyFails(r)

Next ==
    \/ \E s \in Streams : Stream(s)
    \/ \E r \in Requests : HTTP(r)
    \/ \E t \in tokens, seq \in 1..MaxSeq : HandleV1DeliveredAck(t, seq) \/ HandleV1ReadUpdate(t, seq)
    \/ Tick \/ Restart

Spec == Init /\ [][Next]_vars

-----------------------------------------------------------------------------
\* The types of the state: in particular sessions, registry and tokens name users whose
\* rows exist, and a token names a peer.
TypeOK ==
    /\ now \in 0..MaxTime
    /\ nonces \in [Nonces -> [peer : Peers \cup {NoPeer}, expires : Nat, used : BOOLEAN]]
    /\ users \in Seq(Peers)
    /\ call \in [Callers -> [pc : {"idle", "use", "create", "login", "list"},
                             peer : Peers \cup {NoPeer}, nonce : Nonces \cup {NoNonce}, at : 0..MaxTime]]
    /\ session \in [Streams -> [open : BOOLEAN, challenged : BOOLEAN, user : 0..Len(users),
                                told : 0..Len(users), was : SUBSET DOMAIN users]]
    /\ directSessions \subseteq (DOMAIN users) \X Streams
    /\ tokens \subseteq [user : DOMAIN users, peer : Peers]
    /\ accepted \subseteq [caller : Callers, nonce : Nonces, peer : Peers, at : 0..MaxTime]
    /\ cursor \in [delivered : 0..MaxSeq, read : 0..MaxSeq]
    /\ acks \subseteq [kind : {"delivered", "read"}, seq : 1..MaxSeq, peer : Peers \cup {NoPeer}]
    /\ proved \in [Streams -> Peers \cup {NoPeer}]

\* A challenge logs in once, the peer it was issued to, with a proof that arrived before
\* it expired: whichever streams and HTTP requests prove it at once, again after an
\* answer was lost, or after a restart (UseNonce; the nonce is not tied to the stream).
NonceUsedOnce ==
    \A a \in accepted :
        /\ a.peer = nonces[a.nonce].peer /\ a.at <= nonces[a.nonce].expires
        /\ \A b \in accepted : a.nonce = b.nonce => a = b

\* A peer has one user, however many of its first logins run at once, and sessions and
\* tokens name the user of the peer that was proved (CreateIfNotExistsByPeerID).
OneUserPerPeer ==
    /\ \A u, v \in DOMAIN users : users[u] = users[v] => u = v
    /\ \A t \in tokens : users[t.user] = t.peer
    /\ \A s \in Streams : \A u \in session[s].was : \E a \in accepted : a.caller = s /\ a.peer = users[u]

\* A client that was told it is logged in is pushed that user's direct messages until its
\* stream ends, also when a later AUTH_PROVE fails (registerDirectUserSession,
\* unregisterSession).
ToldIsRegistered ==
    \A s \in Streams :
        session[s].open /\ session[s].told # 0 => <<session[s].told, s>> \in directSessions

\* A user's direct messages are pushed only to streams that were authenticated as that
\* user; and no closed stream stays registered, but under a user it was authenticated as
\* before it was authenticated as another (unregisterSession looks at authResult).
RegistryIsClean ==
    \A e \in directSessions :
        /\ e[1] \in session[e[2]].was
        /\ session[e[2]].open \/ e[1] # session[e[2]].user

\* A cursor of a user is the highest seq that a client of that user has acknowledged, in
\* whatever order streams and HTTP clients acknowledge; and only a client whose last proof
\* was for that user's peer moves it, also when a stream is authenticated as another user,
\* or was and its client was not told (dispatch and the token say whose row it is).
CursorIsHighestAck ==
    /\ \A a \in acks : a.peer = users[1] /\ a.seq <= cursor[a.kind]
    /\ \A kind \in {"delivered", "read"} :
          cursor[kind] # 0 => \E a \in acks : a.kind = kind /\ a.seq = cursor[kind]

=============================================================================
