--------------------------- MODULE SessionsProofs ---------------------------
(***************************************************************************)
(* Proofs about Sessions, for any peers, streams, HTTP requests, nonces,   *)
(* time to live, and bounds.                                               *)
(***************************************************************************)
EXTENDS Sessions, TLAPS

SessionRows == [open : BOOLEAN, challenged : BOOLEAN, user : 0..Len(users),
                told : 0..Len(users), was : SUBSET DOMAIN users]

CallRows == [pc : {"idle", "use", "create", "login", "list"},
             peer : Peers \cup {NoPeer}, nonce : Nonces \cup {NoNonce}, at : 0..MaxTime]

\* An accepted proof has used its nonce up.
AcceptedIsUsed == \A a \in accepted : nonces[a.nonce].used

\* A call in progress names a peer and a nonce, and belongs to an open stream or to HTTP.
CallsAreReal ==
    \A c \in Callers :
        call[c].pc # "idle" =>
            /\ call[c].peer \in Peers /\ call[c].nonce \in Nonces
            /\ c \in Streams => session[c].open

\* Past UseNonce a proof of the call's peer has been accepted; past the upsert that peer
\* has a user; and ListSpaces runs for the user the stream has just become.
CallsAreBacked ==
    \A c \in Callers :
        /\ call[c].pc \in {"create", "login"} => \E a \in accepted : a.caller = c /\ a.peer = call[c].peer
        /\ call[c].pc = "login" => \E u \in DOMAIN users : users[u] = call[c].peer
        /\ call[c].pc = "list" => c \in Streams /\ session[c].user \in session[c].was

IInv == /\ TypeOK /\ NonceUsedOnce /\ OneUserPerPeer /\ ToldIsRegistered /\ RegistryIsClean
        /\ AcceptedIsUsed /\ CallsAreReal /\ CallsAreBacked

-----------------------------------------------------------------------------
\* Before anybody has connected there is nothing that could be wrong.
LEMMA InitIInv == Init => IInv
  BY SessionsAssumption DEF Init, IInv, TypeOK, NonceUsedOnce, OneUserPerPeer, ToldIsRegistered,
     RegistryIsClean, AcceptedIsUsed, CallsAreReal, CallsAreBacked, NoChallenge, NoCall, NewSession, Callers

\* A step of one call changes how far that call is, and no other call.
LEMMA CallMoves ==
  ASSUME IInv, NEW c \in Callers, NEW q \in {"create", "login", "list"},
         call' = [call EXCEPT ![c].pc = q]
  PROVE  /\ call' \in [Callers -> CallRows]
         /\ \A d \in Callers : d # c => call'[d] = call[d]
         /\ call'[c].pc = q /\ call'[c].peer = call[c].peer /\ call'[c].nonce = call[c].nonce
<1>1. call \in [Callers -> CallRows]
  BY DEF IInv, TypeOK, CallRows
<1> DEFINE k == [call[c] EXCEPT !.pc = q]
<1>2. k \in CallRows /\ k.pc = q /\ k.peer = call[c].peer /\ k.nonce = call[c].nonce
  BY <1>1 DEF CallRows
<1> QED
  BY <1>1, <1>2

\* The end of a call leaves its caller idle, and the other calls as they are.
LEMMA CallReturns ==
  ASSUME IInv, NEW c \in Callers, Return(c)
  PROVE  /\ call' \in [Callers -> CallRows]
         /\ \A d \in Callers : d # c => call'[d] = call[d]
         /\ call'[c].pc = "idle"
<1>1. call \in [Callers -> CallRows] /\ now \in 0..MaxTime
  BY DEF IInv, TypeOK, CallRows
<1>2. NoCall \in CallRows /\ NoCall.pc = "idle"
  BY <1>1, SessionsAssumption DEF NoCall, CallRows
<1> QED
  BY <1>1, <1>2 DEF Return

\* IssueChallenge keeps the invariant: a nonce that has no row yet is on no accepted proof.
LEMMA IssueStep ==
  ASSUME IInv, NEW n \in Nonces, NEW p \in Peers, IssueChallenge(n, p),
         \/ UNCHANGED session
         \/ \E s \in Streams : session' = [session EXCEPT ![s].challenged = TRUE]
  PROVE  IInv'
<1>1. TypeOK'
  <2>1. now + TTL \in Nat
    BY SessionsAssumption DEF IInv, TypeOK
  <2>2. nonces' \in [Nonces -> [peer : Peers \cup {NoPeer}, expires : Nat, used : BOOLEAN]]
    BY <2>1 DEF IInv, TypeOK, IssueChallenge
  <2>3. session \in [Streams -> SessionRows]
    BY DEF IInv, TypeOK, SessionRows
  <2>4. session' \in [Streams -> SessionRows]
    <3>1. \A row \in SessionRows : [row EXCEPT !.challenged = TRUE] \in SessionRows
      BY Zenon DEF SessionRows
    <3>2. ASSUME NEW s \in Streams, session' = [session EXCEPT ![s].challenged = TRUE]
          PROVE  session' \in [Streams -> SessionRows]
      <4>1. session' = [session EXCEPT ![s] = [session[s] EXCEPT !.challenged = TRUE]]
        BY <3>2
      <4> QED
        BY <2>3, <3>1, <4>1
    <3> QED
      BY <2>3, <3>2
  <2> QED
    BY <2>2, <2>4, Zenon DEF IInv, TypeOK, SessionRows, IssueChallenge
<1>2. \A a \in accepted : a.nonce # n
  BY DEF IInv, AcceptedIsUsed, IssueChallenge, NoChallenge
<1>3. NonceUsedOnce' /\ AcceptedIsUsed'
  BY <1>2 DEF IInv, TypeOK, NonceUsedOnce, AcceptedIsUsed, IssueChallenge
<1>4. \A s \in Streams : /\ session'[s].user = session[s].user /\ session'[s].told = session[s].told
                         /\ session'[s].was = session[s].was /\ session'[s].open = session[s].open
  <2>1. session \in [Streams -> SessionRows]
    BY DEF IInv, TypeOK, SessionRows
  <2>2. \A s \in Streams :
            LET t == [session[s] EXCEPT !.challenged = TRUE]
            IN  /\ t.user = session[s].user /\ t.told = session[s].told
                /\ t.was = session[s].was /\ t.open = session[s].open
    BY <2>1 DEF SessionRows
  <2> QED
    BY <2>1, <2>2, Zenon
<1>5. OneUserPerPeer' /\ ToldIsRegistered' /\ RegistryIsClean'
  <2>1. OneUserPerPeer'
    BY <1>4 DEF IInv, OneUserPerPeer, IssueChallenge
  <2>2. ToldIsRegistered'
    BY <1>4 DEF IInv, ToldIsRegistered, IssueChallenge
  <2>3. \A e \in directSessions : e[2] \in Streams
    BY DEF IInv, TypeOK
  <2>4. RegistryIsClean'
    BY <1>4, <2>3 DEF IInv, RegistryIsClean, IssueChallenge
  <2> QED
    BY <2>1, <2>2, <2>4
<1>6. CallsAreReal' /\ CallsAreBacked'
  BY <1>4 DEF IInv, TypeOK, CallsAreReal, CallsAreBacked, IssueChallenge
<1> QED
  BY <1>1, <1>3, <1>5, <1>6 DEF IInv

\* VerifyChallenge up to UseNonce keeps it: it only records what is to be proved.
LEMMA VerifyStep ==
  ASSUME IInv, NEW c \in Callers, NEW n \in Nonces, NEW p \in Peers, Verify(c, n, p),
         c \in Streams => session[c].open
  PROVE  IInv'
<1>1. TypeOK'
  <2>1. call \in [Callers -> CallRows] /\ now \in 0..MaxTime
    BY DEF IInv, TypeOK, CallRows
  <2>2. [pc |-> "use", peer |-> p, nonce |-> n, at |-> now] \in CallRows
    BY <2>1 DEF CallRows
  <2>3. call' \in [Callers -> CallRows]
    BY <2>1, <2>2 DEF Verify
  <2> QED
    BY <2>3 DEF IInv, TypeOK, CallRows, Verify
<1>2. NonceUsedOnce' /\ AcceptedIsUsed' /\ OneUserPerPeer' /\ ToldIsRegistered' /\ RegistryIsClean'
  BY DEF IInv, NonceUsedOnce, AcceptedIsUsed, OneUserPerPeer, ToldIsRegistered, RegistryIsClean, Verify
<1>3. CallsAreReal' /\ CallsAreBacked'
  <2>1. \A d \in Callers : d # c => call'[d] = call[d]
    BY DEF IInv, TypeOK, Verify
  <2>2. call'[c] = [pc |-> "use", peer |-> p, nonce |-> n, at |-> now]
    BY DEF IInv, TypeOK, Verify
  <2>3. CallsAreReal'
    BY <2>1, <2>2 DEF IInv, CallsAreReal, Verify
  <2>4. CallsAreBacked'
    BY <2>1, <2>2 DEF IInv, CallsAreBacked, Verify
  <2> QED
    BY <2>3, <2>4
<1> QED
  BY <1>1, <1>2, <1>3 DEF IInv

\* UseNonce keeps it: the UPDATE finds a row that is not used, so no accepted proof has
\* its nonce.
LEMMA UseNonceStep ==
  ASSUME IInv, NEW c \in Callers, UseNonce(c)
  PROVE  IInv'
<1> DEFINE k == call[c]
           b == [caller |-> c, nonce |-> k.nonce, peer |-> k.peer, at |-> k.at]
<1>1. k.nonce \in Nonces /\ k.peer \in Peers /\ k.at \in 0..MaxTime
  BY DEF IInv, TypeOK, CallsAreReal, UseNonce
<1>0. /\ call' \in [Callers -> CallRows]
      /\ \A d \in Callers : d # c => call'[d] = call[d]
      /\ call'[c].pc = "create" /\ call'[c].peer = k.peer /\ call'[c].nonce = k.nonce
  BY CallMoves, Zenon DEF UseNonce
<1>2. TypeOK'
  <2> DEFINE Rows == [peer : Peers \cup {NoPeer}, expires : Nat, used : BOOLEAN]
  <2>0. nonces \in [Nonces -> Rows]
    BY DEF IInv, TypeOK
  <2>3. [nonces[k.nonce] EXCEPT !.used = TRUE] \in Rows
    BY <1>1, <2>0, Zenon
  <2>1. nonces' \in [Nonces -> Rows]
    BY <2>0, <2>3, Zenon DEF UseNonce
  <2>2. accepted' \subseteq [caller : Callers, nonce : Nonces, peer : Peers, at : 0..MaxTime]
    BY <1>1 DEF IInv, TypeOK, UseNonce
  <2> QED
    BY <1>0, <2>1, <2>2, Zenon DEF IInv, TypeOK, UseNonce, CallRows
<1>3. \A a \in accepted : a.nonce # k.nonce
  BY DEF IInv, AcceptedIsUsed, UseNonce, NonceMatches
<1>4. \A n \in Nonces : nonces'[n].peer = nonces[n].peer /\ nonces'[n].expires = nonces[n].expires
  BY DEF IInv, TypeOK, UseNonce
<1>5. /\ \A a \in accepted : a.peer = nonces'[a.nonce].peer /\ a.at <= nonces'[a.nonce].expires
      /\ b.peer = nonces'[b.nonce].peer /\ b.at <= nonces'[b.nonce].expires
  BY <1>1, <1>4, <1>3 DEF IInv, TypeOK, NonceUsedOnce, UseNonce, NonceMatches
<1>6. accepted' = accepted \cup {b}
  BY DEF UseNonce
<1>7. NonceUsedOnce'
  BY <1>3, <1>5, <1>6 DEF IInv, NonceUsedOnce
<1>8. AcceptedIsUsed'
  BY <1>1, <1>6 DEF IInv, TypeOK, AcceptedIsUsed, UseNonce
<1>9. OneUserPerPeer' /\ ToldIsRegistered' /\ RegistryIsClean'
  BY <1>6 DEF IInv, OneUserPerPeer, ToldIsRegistered, RegistryIsClean, UseNonce
<1>10. CallsAreReal' /\ CallsAreBacked'
  <2>1. CallsAreReal'
    BY <1>1, <1>0 DEF IInv, CallsAreReal, UseNonce
  <2>2. b \in accepted' /\ b.caller = c /\ b.peer = call'[c].peer
    BY <1>6, <1>0
  <2>3. ASSUME NEW d \in Callers, d # c
        PROVE  /\ call'[d].pc \in {"create", "login"} => \E a \in accepted' : a.caller = d /\ a.peer = call'[d].peer
               /\ call'[d].pc = "login" => \E u \in DOMAIN users' : users'[u] = call'[d].peer
               /\ call'[d].pc = "list" => d \in Streams /\ session'[d].user \in session'[d].was
    BY <2>3, <1>0, <1>6 DEF IInv, CallsAreBacked, UseNonce
  <2>4. CallsAreBacked'
    BY <1>0, <2>2, <2>3 DEF CallsAreBacked
  <2> QED
    BY <2>1, <2>4
<1> QED
  BY <1>2, <1>7, <1>8, <1>9, <1>10 DEF IInv

\* CreateIfNotExistsByPeerID adds a row at most: the users there are keep their ids.
LEMMA UsersGrow ==
  ASSUME users \in Seq(Peers), NEW c \in Callers, call[c].peer \in Peers, CreateUser(c)
  PROVE  \A u \in DOMAIN users : u \in DOMAIN users' /\ users'[u] = users[u]
<1>1. CASE \E u \in DOMAIN users : users[u] = call[c].peer
  BY <1>1 DEF CreateUser
<1>2. CASE ~\E u \in DOMAIN users : users[u] = call[c].peer
  <2>1. users' = Append(users, call[c].peer)
    BY <1>2 DEF CreateUser
  <2> QED
    BY <2>1
<1> QED
  BY <1>1, <1>2

\* The upsert of the user keeps it: the row of the peer is there, or becomes the last.
LEMMA CreateUserStep ==
  ASSUME IInv, NEW c \in Callers, CreateUser(c)
  PROVE  IInv'
<1>1. /\ call' \in [Callers -> CallRows]
      /\ \A d \in Callers : d # c => call'[d] = call[d]
      /\ call'[c].pc = "login" /\ call'[c].peer = call[c].peer /\ call'[c].nonce = call[c].nonce
  BY CallMoves, Zenon DEF CreateUser
<1>2. users \in Seq(Peers) /\ call[c].peer \in Peers
  BY DEF IInv, TypeOK, CallsAreReal, CreateUser
<1>3. /\ users' \in Seq(Peers) /\ Len(users) <= Len(users')
      /\ \A u \in DOMAIN users : u \in DOMAIN users' /\ users'[u] = users[u]
      /\ \E u \in DOMAIN users' : users'[u] = call[c].peer
      /\ (\A u, v \in DOMAIN users : users[u] = users[v] => u = v)
            => \A u, v \in DOMAIN users' : users'[u] = users'[v] => u = v
  <2>1. CASE \E u \in DOMAIN users : users[u] = call[c].peer
    BY <1>2, <2>1 DEF CreateUser
  <2>2. CASE ~\E u \in DOMAIN users : users[u] = call[c].peer
    <3>1. users' = Append(users, call[c].peer)
      BY <2>2 DEF CreateUser
    <3>2. /\ users' \in Seq(Peers) /\ Len(users') = Len(users) + 1
          /\ DOMAIN users = 1..Len(users) /\ DOMAIN users' = 1..(Len(users) + 1)
          /\ Len(users) \in Nat
          /\ \A u \in 1..Len(users) : users'[u] = users[u]
          /\ users'[Len(users) + 1] = call[c].peer
      BY <1>2, <3>1
    <3>3. \A u \in 1..(Len(users) + 1) : u \in 1..Len(users) \/ u = Len(users) + 1
      BY <3>2
    <3> QED
      BY <2>2, <3>2, <3>3
  <2> QED
    BY <2>1, <2>2
<1>4. TypeOK'
  <2>1. session' \in [Streams -> SessionRows']
    <3>1. session' = session /\ session \in [Streams -> SessionRows]
      BY DEF IInv, TypeOK, SessionRows, CreateUser
    <3>2. Len(users) \in Nat /\ Len(users') \in Nat
      BY <1>2, <1>3
    <3>3. SessionRows \subseteq SessionRows'
      BY <1>3, <3>2 DEF SessionRows
    <3> QED
      BY <3>1, <3>3
  <2>2. directSessions' \subseteq (DOMAIN users') \X Streams
    BY <1>3 DEF IInv, TypeOK, CreateUser
  <2>3. tokens' \subseteq [user : DOMAIN users', peer : Peers]
    BY <1>3 DEF IInv, TypeOK, CreateUser
  <2> QED
    BY <1>1, <1>3, <2>1, <2>2, <2>3, Zenon DEF IInv, TypeOK, CreateUser, CallRows, SessionRows
<1>5. OneUserPerPeer'
  <2>1. \A t \in tokens : t.user \in DOMAIN users
    BY DEF IInv, TypeOK
  <2>2. \A s \in Streams : session[s].was \subseteq DOMAIN users
    BY DEF IInv, TypeOK
  <2> QED
    BY <1>3, <2>1, <2>2 DEF IInv, OneUserPerPeer, CreateUser
<1>6. NonceUsedOnce' /\ AcceptedIsUsed' /\ ToldIsRegistered' /\ RegistryIsClean'
  BY DEF IInv, NonceUsedOnce, AcceptedIsUsed, ToldIsRegistered, RegistryIsClean, CreateUser
<1>7. CallsAreReal'
  BY <1>1 DEF IInv, CallsAreReal, CreateUser
<1>8. CallsAreBacked'
  BY <1>1, <1>3 DEF IInv, CallsAreBacked, CreateUser
<1> QED
  BY <1>4, <1>5, <1>6, <1>7, <1>8 DEF IInv

\* After the upsert, GetByPeerID returns a row of the peer.
LEMMA UserOfPeer ==
  ASSUME IInv, NEW c \in Callers, call[c].pc = "login"
  PROVE  UserOf(call[c].peer) \in DOMAIN users /\ users[UserOf(call[c].peer)] = call[c].peer
  BY DEF IInv, CallsAreBacked, UserOf

\* The answer over HTTP keeps it: the token names the user of the peer that was proved.
LEMMA LoginHTTPStep ==
  ASSUME IInv, NEW c \in Requests, AnswerVerify(c)
  PROVE  IInv'
<1>1. c \in Callers
  BY DEF Callers
<1>2. /\ call' \in [Callers -> CallRows]
      /\ \A d \in Callers : d # c => call'[d] = call[d]
      /\ call'[c].pc = "idle"
  BY <1>1, CallReturns DEF AnswerVerify
<1>3. UserOf(call[c].peer) \in DOMAIN users /\ users[UserOf(call[c].peer)] = call[c].peer
  BY <1>1, UserOfPeer DEF AnswerVerify
<1>4. call[c].peer \in Peers
  BY <1>1 DEF IInv, CallsAreReal, AnswerVerify
<1>5. TypeOK'
  <2>1. tokens' \subseteq [user : DOMAIN users, peer : Peers]
    BY <1>3, <1>4 DEF IInv, TypeOK, AnswerVerify, SignHTTPAccessToken
  <2> QED
    BY <1>2, <2>1, Zenon DEF IInv, TypeOK, AnswerVerify, CallRows
<1>6. OneUserPerPeer'
  BY <1>3 DEF IInv, OneUserPerPeer, AnswerVerify, SignHTTPAccessToken
<1>7. NonceUsedOnce' /\ AcceptedIsUsed' /\ ToldIsRegistered' /\ RegistryIsClean'
  BY DEF IInv, NonceUsedOnce, AcceptedIsUsed, ToldIsRegistered, RegistryIsClean, AnswerVerify
<1>8. CallsAreReal' /\ CallsAreBacked'
  BY <1>2 DEF IInv, CallsAreReal, CallsAreBacked, AnswerVerify
<1> QED
  BY <1>5, <1>6, <1>7, <1>8 DEF IInv

\* A call that fails keeps it, wherever it was: what it has done needs no undoing.
LEMMA FailStep ==
  ASSUME IInv, NEW c \in Callers, VerifyFails(c)
  PROVE  IInv'
<1>1. /\ call' \in [Callers -> CallRows]
      /\ \A d \in Callers : d # c => call'[d] = call[d]
      /\ call'[c].pc = "idle"
  BY CallReturns DEF VerifyFails
<1>2. TypeOK'
  BY <1>1, Zenon DEF IInv, TypeOK, VerifyFails, CallRows
<1>3. NonceUsedOnce' /\ AcceptedIsUsed' /\ OneUserPerPeer' /\ ToldIsRegistered' /\ RegistryIsClean'
  BY DEF IInv, NonceUsedOnce, AcceptedIsUsed, OneUserPerPeer, ToldIsRegistered, RegistryIsClean, VerifyFails
<1>4. CallsAreReal' /\ CallsAreBacked'
  BY <1>1 DEF IInv, CallsAreReal, CallsAreBacked, VerifyFails
<1> QED
  BY <1>2, <1>3, <1>4 DEF IInv

-----------------------------------------------------------------------------
\* Authenticate keeps it: a stream becomes another user; it is open, so its entries in the registry stay good.
LEMMA LoginStreamStep ==
  ASSUME IInv, NEW s \in Streams, Authenticate(s)
  PROVE  IInv'
<1> DEFINE u == UserOf(call[s].peer)
           t == [session[s] EXCEPT !.user = u, !.was = @ \cup {u}]
<1>1. s \in Callers
  BY DEF Callers
<1>2. /\ call' \in [Callers -> CallRows]
      /\ \A d \in Callers : d # s => call'[d] = call[d]
      /\ call'[s].pc = "list" /\ call'[s].peer = call[s].peer /\ call'[s].nonce = call[s].nonce
  BY <1>1, CallMoves, Zenon DEF Authenticate
<1>3. u \in DOMAIN users /\ users[u] = call[s].peer
  BY <1>1, UserOfPeer DEF Authenticate
<1>4. session[s].open /\ \E a \in accepted : a.caller = s /\ a.peer = users[u]
  BY <1>1, <1>3 DEF IInv, CallsAreReal, CallsAreBacked, Authenticate
<1>5. session \in [Streams -> SessionRows] /\ users \in Seq(Peers)
  BY DEF IInv, TypeOK, SessionRows
<1>6. /\ t \in SessionRows /\ t.open = session[s].open /\ t.told = session[s].told
      /\ t.user = u /\ t.was = session[s].was \cup {u}
  <2>1. u \in 0..Len(users)
    BY <1>3, <1>5
  <2>2. session[s] \in SessionRows
    BY <1>5
  <2>3. \A v : /\ v \in DOMAIN users /\ v \in 0..Len(users)
               => LET x == [session[s] EXCEPT !.user = v, !.was = @ \cup {v}]
                  IN  /\ x \in SessionRows /\ x.open = session[s].open /\ x.told = session[s].told
                      /\ x.user = v /\ x.was = session[s].was \cup {v}
    BY <2>2, Zenon DEF SessionRows
  <2> QED
    BY <1>3, <2>1, <2>3, Zenon
<1>7. session' = [session EXCEPT ![s] = t]
  BY <1>5, Zenon DEF Authenticate
<1>8. session' \in [Streams -> SessionRows] /\ session'[s] = t /\ \A d \in Streams : d # s => session'[d] = session[d]
  BY <1>5, <1>6, <1>7
<1>9. TypeOK'
  <2>1. call[s].peer \in Peers \cup {NoPeer}
    BY <1>1 DEF IInv, TypeOK
  <2>2. proved' \in [Streams -> Peers \cup {NoPeer}]
    BY <2>1 DEF IInv, TypeOK, Authenticate
  <2> QED
    BY <1>2, <1>8, <2>2, Zenon DEF IInv, TypeOK, Authenticate, CallRows, SessionRows
<1>10. OneUserPerPeer'
  BY <1>4, <1>6, <1>8 DEF IInv, OneUserPerPeer, Authenticate
<1>11. NonceUsedOnce' /\ AcceptedIsUsed'
  BY DEF IInv, NonceUsedOnce, AcceptedIsUsed, Authenticate
<1>12. ToldIsRegistered'
  BY <1>6, <1>8 DEF IInv, ToldIsRegistered, Authenticate
<1>13. \A e \in directSessions : e[2] \in Streams
  BY DEF IInv, TypeOK
<1>14. RegistryIsClean'
  BY <1>4, <1>6, <1>8, <1>13 DEF IInv, RegistryIsClean, Authenticate
<1>15. CallsAreReal'
  BY <1>1, <1>2, <1>4, <1>6, <1>8 DEF IInv, CallsAreReal, Authenticate
<1>16. CallsAreBacked'
  BY <1>1, <1>2, <1>6, <1>8 DEF IInv, CallsAreBacked, Authenticate
<1> QED
  BY <1>9, <1>10, <1>11, <1>12, <1>14, <1>15, <1>16 DEF IInv

\* Registering keeps it: the entry added is that of the user the client is told of.
LEMMA RegisterStep ==
  ASSUME IInv, NEW s \in Streams, Register(s)
  PROVE  IInv'
<1> DEFINE t == [session[s] EXCEPT !.told = session[s].user]
<1>1. s \in Callers
  BY DEF Callers
<1>2. /\ call' \in [Callers -> CallRows]
      /\ \A d \in Callers : d # s => call'[d] = call[d]
      /\ call'[s].pc = "idle"
  BY <1>1, CallReturns DEF Register
<1>3. session[s].open /\ session[s].user \in session[s].was
  BY <1>1 DEF IInv, CallsAreReal, CallsAreBacked, Register
<1>4. session \in [Streams -> SessionRows]
  BY DEF IInv, TypeOK, SessionRows
<1>5. /\ t \in SessionRows /\ t.open = session[s].open /\ t.told = session[s].user
      /\ t.user = session[s].user /\ t.was = session[s].was
  BY <1>4, Zenon DEF SessionRows
<1>6. session' \in [Streams -> SessionRows] /\ session'[s] = t /\ \A d \in Streams : d # s => session'[d] = session[d]
  BY <1>4, <1>5 DEF Register
<1>7. session[s].user \in DOMAIN users
  BY <1>3, <1>4 DEF SessionRows
<1>8. directSessions' = directSessions \cup {<<session[s].user, s>>}
  BY DEF Register, RegisterDirectUserSession
<1>9. TypeOK'
  <2>1. directSessions' \subseteq (DOMAIN users) \X Streams
    BY <1>7, <1>8 DEF IInv, TypeOK
  <2> QED
    BY <1>2, <1>6, <2>1, Zenon DEF IInv, TypeOK, Register, CallRows, SessionRows
<1>10. OneUserPerPeer'
  BY <1>5, <1>6 DEF IInv, OneUserPerPeer, Register
<1>11. NonceUsedOnce' /\ AcceptedIsUsed'
  BY DEF IInv, NonceUsedOnce, AcceptedIsUsed, Register
<1>12. ToldIsRegistered'
  BY <1>5, <1>6, <1>8, Zenon DEF IInv, ToldIsRegistered
<1>13. \A e \in directSessions : e[2] \in Streams
  BY DEF IInv, TypeOK
<1>14. RegistryIsClean'
  <2>1. \A e \in directSessions : /\ e[1] \in session'[e[2]].was
                                  /\ session'[e[2]].open \/ e[1] # session'[e[2]].user
    <3> SUFFICES ASSUME NEW e \in directSessions
                 PROVE  /\ e[1] \in session'[e[2]].was
                        /\ session'[e[2]].open \/ e[1] # session'[e[2]].user
      OBVIOUS
    <3>1. e[2] \in Streams /\ e[1] \in session[e[2]].was /\ (session[e[2]].open \/ e[1] # session[e[2]].user)
      BY <1>13 DEF IInv, RegistryIsClean
    <3> QED
      BY <1>3, <1>5, <1>6, <3>1, Zenon
  <2>2. session'[s].open /\ session[s].user \in session'[s].was
    BY <1>3, <1>5, <1>6
  <2> QED
    BY <1>8, <2>1, <2>2 DEF RegistryIsClean
<1>15. CallsAreReal' /\ CallsAreBacked'
  BY <1>1, <1>2, <1>6 DEF IInv, CallsAreReal, CallsAreBacked, Register
<1> QED
  BY <1>9, <1>10, <1>11, <1>12, <1>14, <1>15 DEF IInv

\* The end of a stream keeps it: the entry of the last user goes with it, and nothing is
\* promised to the client of a closed stream.
LEMMA CloseStep ==
  ASSUME IInv, NEW s \in Streams, Close(s)
  PROVE  IInv'
<1> DEFINE t == [session[s] EXCEPT !.open = FALSE]
<1>1. s \in Callers /\ call[s].pc = "idle"
  BY DEF Callers, Close, Idle, NoCall
<1>2. session \in [Streams -> SessionRows]
  BY DEF IInv, TypeOK, SessionRows
<1>3. /\ t \in SessionRows /\ t.open = FALSE /\ t.told = session[s].told
      /\ t.user = session[s].user /\ t.was = session[s].was
  BY <1>2, Zenon DEF SessionRows
<1>4. session' \in [Streams -> SessionRows] /\ session'[s] = t /\ \A d \in Streams : d # s => session'[d] = session[d]
  BY <1>2, <1>3 DEF Close
<1>5. directSessions' = directSessions \ {<<session[s].user, s>>}
  BY DEF Close, UnregisterSession
<1>6. TypeOK'
  BY <1>4, <1>5, Zenon DEF IInv, TypeOK, Close, authVars, SessionRows
<1>7. OneUserPerPeer'
  BY <1>3, <1>4 DEF IInv, OneUserPerPeer, Close, authVars
<1>8. NonceUsedOnce' /\ AcceptedIsUsed'
  BY DEF IInv, NonceUsedOnce, AcceptedIsUsed, Close, authVars
<1>9. ToldIsRegistered'
  BY <1>3, <1>4, <1>5, Zenon DEF IInv, ToldIsRegistered
<1>10. RegistryIsClean'
  <2>1. SUFFICES ASSUME NEW e \in directSessions'
                 PROVE  /\ e[1] \in session'[e[2]].was
                        /\ session'[e[2]].open \/ e[1] # session'[e[2]].user
    BY DEF RegistryIsClean
  <2>2. e \in directSessions /\ e = <<e[1], e[2]>> /\ e[2] \in Streams /\ e # <<session[s].user, s>>
    BY <1>5 DEF IInv, TypeOK
  <2>3. CASE e[2] = s
    <3>1. e[1] # session[s].user
      BY <2>2, <2>3
    <3>2. e[1] \in session[s].was
      BY <2>2, <2>3 DEF IInv, RegistryIsClean
    <3> QED
      BY <1>3, <1>4, <2>3, <3>1, <3>2, Zenon
  <2>4. CASE e[2] # s
    BY <1>4, <2>2, <2>4 DEF IInv, RegistryIsClean
  <2> QED
    BY <2>3, <2>4
<1>11. CallsAreReal' /\ CallsAreBacked'
  BY <1>1, <1>3, <1>4 DEF IInv, CallsAreReal, CallsAreBacked, Close, authVars
<1> QED
  BY <1>6, <1>7, <1>8, <1>9, <1>10, <1>11 DEF IInv

\* A restart keeps it: the registry is empty, and no stream that is open was told anything.
LEMMA RestartStep ==
  ASSUME IInv, Restart
  PROVE  IInv'
<1>1. \A c \in Callers : call'[c].pc = "idle"
  BY DEF Restart, NoCall
<1>2. session \in [Streams -> SessionRows]
  BY DEF IInv, TypeOK, SessionRows
<1>3. \A s \in Streams : \A o \in BOOLEAN :
          LET t == [session[s] EXCEPT !.open = o]
          IN  /\ t \in SessionRows /\ t.open = o /\ t.told = session[s].told
              /\ t.user = session[s].user /\ t.was = session[s].was
  BY <1>2 DEF SessionRows
<1>4. /\ session' \in [Streams -> SessionRows]
      /\ \A s \in Streams : /\ session'[s].open => session[s] = NewSession
                            /\ session'[s].told = session[s].told /\ session'[s].was = session[s].was
  BY <1>3, Zenon DEF Restart
<1>5. TypeOK'
  <2>1. call' \in [Callers -> CallRows]
    BY SessionsAssumption DEF Restart, NoCall, CallRows
  <2> QED
    BY <1>4, <2>1 DEF IInv, TypeOK, Restart, CallRows, SessionRows
<1>6. NonceUsedOnce' /\ AcceptedIsUsed' /\ RegistryIsClean'
  BY DEF IInv, NonceUsedOnce, AcceptedIsUsed, RegistryIsClean, Restart
<1>7. OneUserPerPeer'
  BY <1>4 DEF IInv, OneUserPerPeer, Restart
<1>8. ToldIsRegistered'
  BY <1>4 DEF ToldIsRegistered, NewSession
<1>9. CallsAreReal' /\ CallsAreBacked'
  BY <1>1 DEF CallsAreReal, CallsAreBacked
<1> QED
  BY <1>5, <1>6, <1>7, <1>8, <1>9 DEF IInv

\* The clock, the cursors and the acknowledgements may move: they are no part of what this
\* invariant relates.
LEMMA QuietStep ==
  ASSUME IInv, UNCHANGED <<authVars, session, directSessions, proved>>,
         now' \in 0..MaxTime, cursor' \in [delivered : 0..MaxSeq, read : 0..MaxSeq],
         acks' \subseteq [kind : {"delivered", "read"}, seq : 1..MaxSeq, peer : Peers \cup {NoPeer}]
  PROVE  IInv'
<1>1. TypeOK'
  BY Zenon DEF IInv, TypeOK, authVars
<1>2. NonceUsedOnce' /\ AcceptedIsUsed' /\ OneUserPerPeer' /\ ToldIsRegistered' /\ RegistryIsClean'
  BY DEF IInv, NonceUsedOnce, AcceptedIsUsed, OneUserPerPeer, ToldIsRegistered, RegistryIsClean, authVars
<1>3. CallsAreReal' /\ CallsAreBacked'
  BY DEF IInv, CallsAreReal, CallsAreBacked, authVars
<1> QED
  BY <1>1, <1>2, <1>3 DEF IInv

\* GREATEST: the cursor ends at the acknowledged seq or stays beyond it, and the other
\* cursor is not touched.
LEMMA MoveCursorForward ==
  ASSUME IInv, NEW kind \in {"delivered", "read"}, NEW seq \in 1..MaxSeq, NEW p, MoveCursor(kind, seq, p)
  PROVE  /\ cursor' \in [delivered : 0..MaxSeq, read : 0..MaxSeq]
         /\ \A k \in {"delivered", "read"} : cursor'[k] >= cursor[k]
         /\ cursor'[kind] >= seq /\ cursor'[kind] \in {seq, cursor[kind]}
         /\ \A k \in {"delivered", "read"} : k # kind => cursor'[k] = cursor[k]
<1>1. /\ cursor \in [delivered : 0..MaxSeq, read : 0..MaxSeq] /\ MaxSeq \in Nat
      /\ cursor' = [cursor EXCEPT ![kind] = IF seq > cursor[kind] THEN seq ELSE cursor[kind]]
  BY SessionsAssumption DEF IInv, TypeOK, MoveCursor
<1>2. CASE kind = "delivered"
  BY <1>1, <1>2
<1>3. CASE kind = "read"
  BY <1>1, <1>3
<1> QED
  BY <1>2, <1>3

\* An acknowledgement keeps the invariant.
LEMMA CursorStep ==
  ASSUME IInv, NEW kind \in {"delivered", "read"}, NEW seq \in 1..MaxSeq,
         NEW p \in Peers \cup {NoPeer}, MoveCursor(kind, seq, p)
  PROVE  IInv'
<1>1. cursor' \in [delivered : 0..MaxSeq, read : 0..MaxSeq]
  BY MoveCursorForward
<1>2. now' \in 0..MaxTime /\ UNCHANGED <<authVars, session, directSessions, proved>>
  BY DEF IInv, TypeOK, MoveCursor
<1>3. acks' \subseteq [kind : {"delivered", "read"}, seq : 1..MaxSeq, peer : Peers \cup {NoPeer}]
  BY DEF IInv, TypeOK, MoveCursor
<1> QED
  BY <1>1, <1>2, <1>3, QuietStep

\* What every acknowledgement is: a stream's or a token's, with a peer that was proved.
Acks(u, p) ==
    \E kind \in {"delivered", "read"}, seq \in 1..MaxSeq : u = 1 /\ MoveCursor(kind, seq, p)

\* The requests of streams that acknowledge.
LEMMA StreamAcks ==
  ASSUME NEW s \in Streams, NEW seq \in 1..MaxSeq, ChannelDeliverAck(s, seq) \/ ChannelReadUpdate(s, seq)
  PROVE  Acks(session[s].user, proved[s])
  BY DEF ChannelDeliverAck, ChannelReadUpdate, AckDelivered, UpdateRead, Acks

\* The HTTP requests that acknowledge.
LEMMA TokenAcks ==
  ASSUME NEW t \in tokens, NEW seq \in 1..MaxSeq, HandleV1DeliveredAck(t, seq) \/ HandleV1ReadUpdate(t, seq)
  PROVE  Acks(t.user, t.peer)
  BY DEF HandleV1DeliveredAck, HandleV1ReadUpdate, AckDelivered, UpdateRead, Acks, ParseHTTPAccessToken

-----------------------------------------------------------------------------
\* Every step keeps the invariant.
LEMMA NextIInv == IInv /\ [Next]_vars => IInv'
<1> SUFFICES ASSUME IInv, [Next]_vars
             PROVE  IInv'
  OBVIOUS
<1>0. Streams \subseteq Callers /\ Requests \subseteq Callers /\ Streams \cap Requests = {}
  BY SessionsAssumption DEF Callers
<1>1. ASSUME NEW s \in Streams, Stream(s)
      PROVE  IInv'
  <2>1. CASE \E n \in Nonces, p \in Peers : Hello(s, n, p)
    BY <2>1, IssueStep, Zenon DEF Hello
  <2>2. CASE \E n \in Nonces, p \in Peers : AuthProve(s, n, p)
    BY <1>0, <2>2, VerifyStep DEF AuthProve, Idle
  <2>3. CASE UseNonce(s) \/ CreateUser(s) \/ VerifyFails(s)
    BY <1>0, <2>3, UseNonceStep, CreateUserStep, FailStep
  <2>4. CASE Authenticate(s) \/ Register(s) \/ Close(s)
    BY <2>4, LoginStreamStep, RegisterStep, CloseStep
  <2>5. CASE \E seq \in 1..MaxSeq : ChannelDeliverAck(s, seq) \/ ChannelReadUpdate(s, seq)
    <3>1. proved[s] \in Peers \cup {NoPeer}
      BY DEF IInv, TypeOK
    <3> QED
      BY <2>5, <3>1, StreamAcks, CursorStep DEF Acks
  <2> QED
    BY <1>1, <2>1, <2>2, <2>3, <2>4, <2>5 DEF Stream
<1>2. ASSUME NEW r \in Requests, HTTP(r)
      PROVE  IInv'
  <2>1. CASE \E n \in Nonces, p \in Peers : HandleAuthChallenge(n, p)
    BY <2>1, IssueStep DEF HandleAuthChallenge
  <2>2. CASE \E n \in Nonces, p \in Peers : HandleAuthVerify(r, n, p)
    BY <1>0, <2>2, VerifyStep DEF HandleAuthVerify
  <2>3. CASE UseNonce(r) \/ CreateUser(r) \/ VerifyFails(r)
    BY <1>0, <2>3, UseNonceStep, CreateUserStep, FailStep
  <2>4. CASE AnswerVerify(r)
    BY <2>4, LoginHTTPStep
  <2> QED
    BY <1>2, <2>1, <2>2, <2>3, <2>4 DEF HTTP
<1>3. CASE \E t \in tokens, seq \in 1..MaxSeq : HandleV1DeliveredAck(t, seq) \/ HandleV1ReadUpdate(t, seq)
  <2>1. \A t \in tokens : t.peer \in Peers \cup {NoPeer}
    BY DEF IInv, TypeOK
  <2> QED
    BY <1>3, <2>1, TokenAcks, CursorStep DEF Acks
<1>4. CASE Tick
  <2>1. /\ now' \in 0..MaxTime /\ cursor' \in [delivered : 0..MaxSeq, read : 0..MaxSeq]
        /\ acks' \subseteq [kind : {"delivered", "read"}, seq : 1..MaxSeq, peer : Peers \cup {NoPeer}]
    BY <1>4, SessionsAssumption DEF IInv, TypeOK, Tick
  <2> QED
    BY <1>4, <2>1, QuietStep DEF Tick
<1>5. CASE UNCHANGED vars
  <2>1. /\ now' \in 0..MaxTime /\ cursor' \in [delivered : 0..MaxSeq, read : 0..MaxSeq]
        /\ acks' \subseteq [kind : {"delivered", "read"}, seq : 1..MaxSeq, peer : Peers \cup {NoPeer}]
    BY <1>5 DEF IInv, TypeOK, vars
  <2> QED
    BY <1>5, <2>1, QuietStep DEF vars
<1> QED
  BY <1>1, <1>2, <1>3, <1>4, <1>5, RestartStep DEF Next

\* The invariant holds in every state of every behaviour of Sessions.
THEOREM Invariance == Spec => []IInv
  BY InitIInv, NextIInv, PTL DEF Spec

\* Sessions, tokens and the registry name users that exist, and the nonces, the requests
\* in progress and the cursors stay well formed.
THEOREM TypeCorrect == Spec => []TypeOK
<1>1. IInv => TypeOK
  BY DEF IInv
<1> QED
  BY Invariance, <1>1, PTL

\* Every challenge logs in at most once, the peer it was issued to and in time, whatever
\* streams and HTTP requests prove it (the one UPDATE of UseNonce).
THEOREM NonceUsedOnceHolds == Spec => []NonceUsedOnce
<1>1. IInv => NonceUsedOnce
  BY DEF IInv
<1> QED
  BY Invariance, <1>1, PTL

\* However many first logins of a peer run at once, it has one user, and sessions and
\* tokens name the user of the peer that was proved (CreateIfNotExistsByPeerID).
THEOREM OneUserPerPeerHolds == Spec => []OneUserPerPeer
<1>1. IInv => OneUserPerPeer
  BY DEF IInv
<1> QED
  BY Invariance, <1>1, PTL

\* A client that was told it is logged in is pushed direct messages until its stream ends
\* (registerDirectUserSession comes before AUTH_RESULT, unregisterSession after the loop).
THEOREM ToldIsRegisteredHolds == Spec => []ToldIsRegistered
<1>1. IInv => ToldIsRegistered
  BY DEF IInv
<1> QED
  BY Invariance, <1>1, PTL

\* The registry names streams that were authenticated as the user, and no closed one but
\* under a user it has given up for another (unregisterSession).
THEOREM RegistryIsCleanHolds == Spec => []RegistryIsClean
<1>1. IInv => RegistryIsClean
  BY DEF IInv
<1> QED
  BY Invariance, <1>1, PTL

-----------------------------------------------------------------------------
(***************************************************************************)
(* The cursors.                                                            *)
(***************************************************************************)

\* The user of a stream is that of the peer it has proved last, and no row of cursors is
\* there before its user.
AcksInv ==
    /\ acks # {} => 1 \in DOMAIN users
    /\ \A s \in Streams : session[s].user # 0 => users[session[s].user] = proved[s]
    /\ CursorIsHighestAck

\* A step that moves no cursor and makes no stream another user keeps it.
LEMMA AcksFrame ==
  ASSUME IInv, AcksInv, UNCHANGED <<cursor, acks, proved>>,
         \A u \in DOMAIN users : u \in DOMAIN users' /\ users'[u] = users[u],
         \A s \in Streams : session'[s].user = session[s].user
  PROVE  AcksInv'
<1>1. \A s \in Streams : session[s].user # 0 => session[s].user \in DOMAIN users
  BY DEF IInv, TypeOK
<1>2. CursorIsHighestAck'
  BY DEF AcksInv, CursorIsHighestAck
<1> QED
  BY <1>1, <1>2, Zenon DEF AcksInv

\* An acknowledgement of a client that has proved the peer of the first user keeps it.
LEMMA AcksStep ==
  ASSUME IInv, AcksInv, NEW p, 1 \in DOMAIN users, users[1] = p, Acks(1, p)
  PROVE  AcksInv'
<1>1. PICK kind \in {"delivered", "read"}, seq \in 1..MaxSeq : MoveCursor(kind, seq, p)
  BY DEF Acks
<1> DEFINE b == [kind |-> kind, seq |-> seq, peer |-> p]
<1>2. UNCHANGED <<users, session, proved>> /\ acks' = acks \cup {b}
  BY <1>1 DEF MoveCursor, authVars
<1>3. /\ \A k \in {"delivered", "read"} : cursor'[k] >= cursor[k]
      /\ cursor'[kind] >= seq /\ cursor'[kind] \in {seq, cursor[kind]}
      /\ \A k \in {"delivered", "read"} : k # kind => cursor'[k] = cursor[k]
  BY <1>1, MoveCursorForward
<1>4. \A k \in {"delivered", "read"} : cursor[k] \in Int /\ cursor'[k] \in Int
  <2>1. /\ cursor \in [delivered : 0..MaxSeq, read : 0..MaxSeq]
        /\ cursor' \in [delivered : 0..MaxSeq, read : 0..MaxSeq]
    BY <1>1, MoveCursorForward, Zenon DEF IInv, TypeOK
  <2> QED
    BY <2>1
<1>5. ASSUME NEW a \in acks'
      PROVE  a.peer = users'[1] /\ a.seq <= cursor'[a.kind]
  <2>1. CASE a = b
    BY <1>2, <1>3, <1>4, <2>1
  <2>2. CASE a \in acks
    <3>1. a.kind \in {"delivered", "read"} /\ a.seq \in Int
      BY <2>2, SessionsAssumption DEF IInv, TypeOK
    <3>2. a.peer = users[1] /\ a.seq <= cursor[a.kind]
      BY <2>2 DEF AcksInv, CursorIsHighestAck
    <3> QED
      BY <1>2, <1>3, <1>4, <3>1, <3>2
  <2> QED
    BY <1>2, <1>5, <2>1, <2>2
<1>6. ASSUME NEW k \in {"delivered", "read"}, cursor'[k] # 0
      PROVE  \E a \in acks' : a.kind = k /\ a.seq = cursor'[k]
  <2>1. CASE cursor'[k] = cursor[k]
    BY <1>2, <1>6, <2>1 DEF AcksInv, CursorIsHighestAck
  <2>2. CASE k = kind /\ cursor'[k] = seq
    <3>1. b \in acks' /\ b.kind = k /\ b.seq = cursor'[k]
      BY <1>2, <2>2
    <3> QED
      BY <3>1
  <2> QED
    BY <1>3, <2>1, <2>2
<1> QED
  BY <1>2, <1>5, <1>6 DEF AcksInv, CursorIsHighestAck

\* Authenticate keeps it: the stream becomes the user of the peer it has just proved.
LEMMA AcksLogin ==
  ASSUME IInv, AcksInv, NEW s \in Streams, Authenticate(s)
  PROVE  AcksInv'
<1> DEFINE u == UserOf(call[s].peer)
<1>1. u \in DOMAIN users /\ users[u] = call[s].peer
  BY UserOfPeer DEF Authenticate, Callers
<1>2. session \in [Streams -> SessionRows] /\ proved \in [Streams -> Peers \cup {NoPeer}]
  BY DEF IInv, TypeOK, SessionRows
<1>3. session'[s].user = u /\ \A d \in Streams : d # s => session'[d] = session[d]
  <2>1. \A v : [session[s] EXCEPT !.user = v, !.was = @ \cup {v}].user = v
    BY <1>2, Zenon DEF SessionRows
  <2>2. session' = [session EXCEPT ![s] = [session[s] EXCEPT !.user = u, !.was = @ \cup {u}]]
    BY <1>2, Zenon DEF Authenticate
  <2> QED
    BY <1>2, <2>1, <2>2, Zenon
<1>4. proved'[s] = call[s].peer /\ \A d \in Streams : d # s => proved'[d] = proved[d]
  BY <1>2 DEF Authenticate
<1>5. UNCHANGED <<users, cursor, acks>>
  BY DEF Authenticate
<1>6. CursorIsHighestAck'
  BY <1>5 DEF AcksInv, CursorIsHighestAck
<1> QED
  BY <1>1, <1>3, <1>4, <1>5, <1>6 DEF AcksInv

\* Every step keeps it.
LEMMA NextAcks == IInv /\ AcksInv /\ [Next]_vars => AcksInv'
<1> SUFFICES ASSUME IInv, AcksInv, [Next]_vars
             PROVE  AcksInv'
  OBVIOUS
<1>0. Streams \subseteq Callers /\ Requests \subseteq Callers
  BY DEF Callers
<1>1. session \in [Streams -> SessionRows]
  BY DEF IInv, TypeOK, SessionRows
<1>2. ASSUME NEW c \in Callers, UseNonce(c) \/ CreateUser(c) \/ VerifyFails(c)
      PROVE  AcksInv'
  <2>1. UNCHANGED <<cursor, acks, proved, session>>
    BY <1>2 DEF UseNonce, CreateUser, VerifyFails
  <2>2. \A u \in DOMAIN users : u \in DOMAIN users' /\ users'[u] = users[u]
    <3>1. CASE CreateUser(c)
      <4>1. users \in Seq(Peers) /\ call[c].peer \in Peers
        BY <3>1 DEF IInv, TypeOK, CallsAreReal, CreateUser
      <4> QED
        BY <3>1, <4>1, UsersGrow
    <3>2. CASE UseNonce(c) \/ VerifyFails(c)
      BY <3>2 DEF UseNonce, VerifyFails
    <3> QED
      BY <1>2, <3>1, <3>2
  <2> QED
    BY <2>1, <2>2, AcksFrame
<1>3. ASSUME NEW n \in Nonces, NEW p \in Peers, NEW c \in Callers,
             HandleAuthChallenge(n, p) \/ HandleAuthVerify(c, n, p) \/ AuthProve(c, n, p)
      PROVE  AcksInv'
  <2>1. UNCHANGED <<cursor, acks, proved, session, users>>
    BY <1>3 DEF HandleAuthChallenge, IssueChallenge, HandleAuthVerify, AuthProve, Verify
  <2> QED
    BY <2>1, AcksFrame
<1>4. ASSUME UNCHANGED <<cursor, acks, proved, users>>, NEW s \in Streams, NEW row,
             row.user = session[s].user, session' = [session EXCEPT ![s] = row]
      PROVE  AcksInv'
  <2>1. \A d \in Streams : session'[d].user = session[d].user
    BY <1>1, <1>4
  <2> QED
    BY <1>4, <2>1, AcksFrame
<1>5. ASSUME NEW s \in Streams, Register(s) \/ Close(s) \/ \E n \in Nonces, p \in Peers : Hello(s, n, p)
      PROVE  AcksInv'
  <2>1. UNCHANGED <<cursor, acks, proved, users>>
    BY <1>5 DEF Register, Close, Hello, IssueChallenge, authVars
  <2>2. /\ \A v : [session[s] EXCEPT !.told = v].user = session[s].user
        /\ \A v : [session[s] EXCEPT !.open = v].user = session[s].user
        /\ \A v : [session[s] EXCEPT !.challenged = v].user = session[s].user
    BY <1>1, Zenon DEF SessionRows
  <2>3. \/ session' = [session EXCEPT ![s] = [session[s] EXCEPT !.told = session[s].user]]
        \/ session' = [session EXCEPT ![s] = [session[s] EXCEPT !.open = FALSE]]
        \/ session' = [session EXCEPT ![s] = [session[s] EXCEPT !.challenged = TRUE]]
    BY <1>5 DEF Register, Close, Hello
  <2> QED
    BY <1>4, <2>1, <2>2, <2>3, Zenon
<1>6. ASSUME NEW s \in Streams, NEW seq \in 1..MaxSeq, ChannelDeliverAck(s, seq) \/ ChannelReadUpdate(s, seq)
      PROVE  AcksInv'
  <2>1. Acks(session[s].user, proved[s]) /\ session[s].user = 1
    BY <1>6, StreamAcks DEF Acks
  <2>2. 1 \in DOMAIN users
    BY <1>1, <2>1 DEF SessionRows, IInv, TypeOK
  <2>3. users[1] = proved[s]
    BY <2>1 DEF AcksInv
  <2> QED
    BY <2>1, <2>2, <2>3, AcksStep
<1>7. ASSUME NEW t \in tokens, NEW seq \in 1..MaxSeq, HandleV1DeliveredAck(t, seq) \/ HandleV1ReadUpdate(t, seq)
      PROVE  AcksInv'
  <2>1. Acks(t.user, t.peer) /\ t.user = 1
    BY <1>7, TokenAcks DEF Acks
  <2>2. 1 \in DOMAIN users /\ users[1] = t.peer
    BY <2>1 DEF IInv, TypeOK, OneUserPerPeer
  <2> QED
    BY <2>1, <2>2, AcksStep
<1>8. CASE Restart
  <2>1. \A s \in Streams : \A o : [session[s] EXCEPT !.open = o].user = session[s].user
    BY <1>1, Zenon DEF SessionRows
  <2>2. \A s \in Streams : session'[s].user = session[s].user
    BY <1>8, <2>1, Zenon DEF Restart
  <2> QED
    BY <1>8, <2>2, AcksFrame DEF Restart
<1>9. ASSUME UNCHANGED <<cursor, acks, proved, session, users>>
      PROVE  AcksInv'
  BY <1>9, AcksFrame
<1>10. ASSUME NEW r \in Requests, AnswerVerify(r)
       PROVE  AcksInv'
  BY <1>9, <1>10 DEF AnswerVerify
<1>11. CASE Tick \/ UNCHANGED vars
  BY <1>9, <1>11 DEF Tick, vars, authVars
<1>12. ASSUME NEW s \in Streams, Stream(s)
       PROVE  AcksInv'
  BY <1>0, <1>2, <1>3, <1>5, <1>6, <1>12, AcksLogin, Zenon DEF Stream
<1>13. ASSUME NEW r \in Requests, HTTP(r)
       PROVE  AcksInv'
  BY <1>0, <1>2, <1>3, <1>10, <1>13, Zenon DEF HTTP
<1> QED
  BY <1>7, <1>8, <1>11, <1>12, <1>13, Zenon DEF Next

\* A user's cursor is the highest seq that its clients have acknowledged, and no client of
\* another user moves it, whatever order acknowledgements come in and however streams
\* change users (GREATEST in the two upserts, the user of authResult or of the token).
THEOREM CursorIsHighestAckHolds == Spec => []CursorIsHighestAck
<1>1. ASSUME Init PROVE AcksInv
  <2>1. acks = {} /\ \A s \in Streams : session[s].user = 0
    BY <1>1 DEF Init, NewSession
  <2>2. \A kind \in {"delivered", "read"} : cursor[kind] = 0
    BY <1>1 DEF Init
  <2> QED
    BY <2>1, <2>2, Zenon DEF AcksInv, CursorIsHighestAck
<1>2. AcksInv => CursorIsHighestAck
  BY DEF AcksInv
<1> QED
  BY Invariance, <1>1, <1>2, NextAcks, PTL DEF Spec

=============================================================================
