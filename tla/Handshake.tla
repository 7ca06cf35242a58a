------------------------------ MODULE Handshake ------------------------------
(***************************************************************************)
(* The session handshake of ReplicationManager: the gate a server keeps    *)
(* for every transport peer (HandshakeSecurity), the authentication state  *)
(* of the clients, and the objects that joining clients are told about.    *)
(*                                                                         *)
(* A peer is a slot of the server's ENet host together with the client     *)
(* process that uses it.  Each link carries one ordered stream each way;   *)
(* what was sent over a link dies with it.  Only what the handshake can    *)
(* tell apart is kept of a packet: whether the server will find the        *)
(* request acceptable, and nonces, of which only freshness matters.        *)
(***************************************************************************)
EXTENDS Integers, FiniteSets, Sequences, SequencesExt

CONSTANTS
  Peer,              \* slots of the server's ENet host
  Faulty,            \* clients that may repeat a handshake packet
  MaxObject,         \* bound: network ids one server run can give out
  MaxOwnObject,      \* bound: ids up to which the server spawns on its own account
  MaxNonce,          \* bound: nonces told apart on one link
  MaxInFlight,       \* bound: packets in flight when a side sends of its own accord
  PendingLimit,      \* max(1, maxClients) of the host request
  InvalidAttemptThreshold,
  PlayerPrefab,      \* does the server spawn a player object for each client?
  SceneComponents    \* do clients register components of their own scene?

Object == 1 .. MaxObject
Nonce == 1 .. MaxNonce
NoNonce == 0

ASSUME HandshakeAssumption ==
  /\ IsFiniteSet(Peer)
  /\ Faulty \subseteq Peer
  /\ MaxObject \in Nat
  /\ MaxOwnObject \in 0 .. MaxObject
  /\ MaxNonce \in Nat
  /\ MaxInFlight \in Nat
  /\ PendingLimit \in Nat \ {0}
  /\ InvalidAttemptThreshold \in Nat \ {0, 1}
  /\ PlayerPrefab \in BOOLEAN
  /\ SceneComponents \in BOOLEAN

VARIABLES
  client,            \* the client processes
  gate,              \* m_peerHandshakeStates, an absent entry being FreshGate
  linked,            \* peers the server's ENet host has CONNECTED
  admitted,          \* GameServer::m_connectedPeers
  world,             \* the spawned components of the server, in order
  nextId,            \* m_nextNetworkID of the server
  toServer, toClient \* what each link carries

server == <<gate, linked, admitted, world, nextId>>
vars == <<client, gate, linked, admitted, world, nextId, toServer, toClient>>

(***************************************************************************)
(* fit: "fit" if the server will accept the hello, "unfit" if not, "wary"  *)
(* if the client will not like what it is accepted to.  auth: which of     *)
(* m_handshakeStarted, m_localSessionAuthenticated and m_localAuthFailed   *)
(* is set.  link: "cut" is a dead transport that nobody has noticed yet.   *)
(***************************************************************************)
Client ==
  [phase : {"idle", "connecting", "begun"},  \* the session manager's progress
   link : {"down", "pending", "up", "cut"},
   fit : {"fit", "unfit", "wary"},
   auth : {"none", "pending", "accepted", "rejected"},
   nonce : Nonce \cup {NoNonce},             \* m_localClientNonce
   serverNonce : Nonce \cup {NoNonce},
   held : SUBSET Object,                     \* m_pendingPreAuthSpawns
   objects : SUBSET Object]

Gate ==
  [challengeSent : BOOLEAN, challengeConsumed : BOOLEAN, authenticated : BOOLEAN,
   clientNonce : Nonce \cup {NoNonce}, serverNonce : Nonce \cup {NoNonce},
   invalidAttempts : 0 .. InvalidAttemptThreshold - 1,  \* 0 once the window is over
   blocked : BOOLEAN]

Hello(f, n) == [type |-> "Hello", fit |-> f, clientNonce |-> n]
Response(n, s) == [type |-> "Response", clientNonce |-> n, serverNonce |-> s]
ClientUpdate == [type |-> "ClientUpdate"]    \* ClientUpdate, SnapshotAck or RPC
Challenge(n, s) == [type |-> "Challenge", clientNonce |-> n, serverNonce |-> s]
Accept == [type |-> "Accept"]
Reject == [type |-> "Reject"]
SpawnOf(o) == [type |-> "Spawn", object |-> o]
DespawnOf(o) == [type |-> "Despawn", object |-> o]
Notice == [type |-> "Notice"]                \* RPC or Snapshot

ClientMessage ==
  {Hello(c.fit, c.nonce) : c \in [fit : {"fit", "unfit", "wary"}, nonce : Nonce]}
    \cup {Response(n, s) : n \in Nonce, s \in Nonce} \cup {ClientUpdate}
ServerMessage ==
  {Challenge(n, s) : n \in Nonce, s \in Nonce} \cup {Accept, Reject, Notice}
    \cup {SpawnOf(o) : o \in Object} \cup {DespawnOf(o) : o \in Object}

IdleClient ==
  [phase |-> "idle", link |-> "down", fit |-> "fit", auth |-> "none",
   nonce |-> NoNonce, serverNonce |-> NoNonce, held |-> {}, objects |-> {}]
FreshGate ==
  [challengeSent |-> FALSE, challengeConsumed |-> FALSE, authenticated |-> FALSE,
   clientNonce |-> NoNonce, serverNonce |-> NoNonce, invalidAttempts |-> 0,
   blocked |-> FALSE]

TypeOK ==
  /\ client \in [Peer -> Client]
  /\ gate \in [Peer -> Gate]
  /\ linked \subseteq Peer
  /\ admitted \subseteq Peer
  /\ world \in Seq(Object)
  /\ nextId \in 1 .. MaxObject + 1
  /\ toServer \in [Peer -> Seq(ClientMessage)]
  /\ toClient \in [Peer -> Seq(ServerMessage)]

Init ==
  /\ client = [p \in Peer |-> IdleClient]
  /\ gate = [p \in Peer |-> FreshGate]
  /\ linked = {}
  /\ admitted = {}
  /\ world = <<>>
  /\ nextId = 1
  /\ toServer = [p \in Peer |-> <<>>]
  /\ toClient = [p \in Peer |-> <<>>]

-----------------------------------------------------------------------------
\* The links.  ENet has the client connected before the server.

Reaches(p) == p \in linked /\ client[p].link = "up"

\* Bounds on what a side sends of its own accord; replies are never held back.
ClientMaySend(p) == Len(toServer[p]) + Len(toClient[p]) < MaxInFlight
ServerMaySend == \A p \in linked : Len(toClient[p]) < MaxInFlight

\* What the server broadcasts reaches every linked peer, admitted or not.
Broadcast(m) ==
  toClient' = [q \in Peer |-> IF Reaches(q) THEN Append(toClient[q], m) ELSE toClient[q]]

\* Client p becomes c and sends msgs; a link that goes down takes its packets along.
ClientStep(p, c, msgs) ==
  /\ client' = [client EXCEPT ![p] = c]
  /\ toServer' = [toServer EXCEPT ![p] =
                    IF c.link = "up" THEN @ \o msgs
                    ELSE IF c.link = "down" /\ p \notin linked THEN <<>> ELSE @]

LinkUp(p) ==
  /\ client[p].link = "pending"
  /\ client' = [client EXCEPT ![p].link = "up"]
  /\ UNCHANGED <<server, toServer, toClient>>

ServerConnects(p) ==
  /\ client[p].link = "up"
  /\ p \notin linked
  /\ linked' = linked \cup {p}
  /\ UNCHANGED <<client, gate, admitted, world, nextId, toServer, toClient>>

CutLink(p) ==
  /\ client[p].link = "up"
  /\ client' = [client EXCEPT ![p].link = "cut"]
  /\ UNCHANGED <<server, toServer, toClient>>

\* Nonces are random: one in use on the link is not drawn again, and any other will do.
NoncesInUse(p) ==
  {client[p].nonce, client[p].serverNonce, gate[p].serverNonce}
    \cup {m.serverNonce : m \in {m \in Range(toServer[p]) : m.type = "Response"}
                              \cup {m \in Range(toClient[p]) : m.type = "Challenge"}}
GenerateNonce(p) ==
  LET unused == Nonce \ NoncesInUse(p) IN {n \in unused : \A k \in unused : n <= k}

-----------------------------------------------------------------------------
\* A client process.

\* Starting a session as a client; the slot is free again on the server.
StartClient(p) ==
  /\ client[p].phase = "idle"
  /\ p \notin linked
  /\ \E f \in {"fit", "unfit", "wary"} :
       client' = [client EXCEPT ![p] =
                    [IdleClient EXCEPT !.phase = "connecting", !.link = "pending", !.fit = f]]
  /\ UNCHANGED <<server, toServer, toClient>>

\* Stop, a time-out, a failed handshake: the transport goes, and the spawned objects.
LeaveSession(p) ==
  /\ client[p].phase # "idle"
  /\ ClientStep(p, IdleClient, <<>>)
  /\ toClient' = [toClient EXCEPT ![p] = <<>>]
  /\ UNCHANGED server

\* The session manager stops a session whose handshake failed.
AbandonFailedSession(p) ==
  /\ client[p].phase = "begun"
  /\ client[p].auth = "rejected"
  /\ LeaveSession(p)

\* ResetAuthenticationState; a rejection from before is forgotten.
BeginSessionHandshake(p) ==
  /\ client[p].phase = "connecting"
  /\ client[p].link \in {"up", "cut"}
  /\ \E n \in GenerateNonce(p) :
       ClientStep(p, [client[p] EXCEPT !.phase = "begun", !.auth = "pending", !.nonce = n,
                                       !.serverNonce = NoNonce, !.held = {}],
                  <<Hello(client[p].fit, n)>>)
  /\ UNCHANGED <<server, toClient>>

RejectLocalSession(c) == [c EXCEPT !.auth = "rejected"]
Disconnect(c) == [c EXCEPT !.link = "down"]

\* The handlers: the client after packet m, and what it sends.
HandleHandshakeChallenge(c, m) ==
  IF c.auth # "pending" THEN [client |-> c, send |-> <<>>]
  ELSE IF m.clientNonce # c.nonce THEN [client |-> RejectLocalSession(c), send |-> <<>>]
  ELSE [client |-> [c EXCEPT !.serverNonce = m.serverNonce],
        send |-> <<Response(c.nonce, m.serverNonce)>>]

\* Mutant: an acceptance the client did not want is passed over.
AcceptUnlessWary(c) ==
  IF c.auth # "pending" \/ c.fit = "wary" THEN c
  ELSE [c EXCEPT !.auth = "accepted", !.objects = @ \cup c.held, !.held = {}]
HandleHandshakeAccept(c) ==
  IF c.auth # "pending" THEN c
  ELSE IF c.fit = "wary" THEN Disconnect(RejectLocalSession(c))
  ELSE [c EXCEPT !.auth = "accepted", !.objects = @ \cup c.held, !.held = {}]

HandleHandshakeReject(c) == Disconnect(RejectLocalSession(c))

\* Mutant: what cannot be applied yet is ignored.
HoldSpawnsOnly(c, m) ==
  IF c.auth = "accepted"
    THEN CASE m.type = "Spawn" -> [c EXCEPT !.objects = @ \cup {m.object}]
           [] m.type = "Despawn" -> [c EXCEPT !.objects = @ \ {m.object}]
           [] m.type = "Notice" -> c
  ELSE IF m.type = "Spawn" THEN [c EXCEPT !.held = @ \cup {m.object}]
  ELSE c

\* Mutant: spawns are refused like everything else.
HoldNothing(c, m) ==
  IF c.auth = "accepted" THEN HoldSpawnsOnly(c, m) ELSE RejectLocalSession(c)

\* Before it is accepted a client holds the spawns and takes nothing else.
ReceiveGamePacket(c, m) ==
  IF c.auth = "accepted"
    THEN CASE m.type = "Spawn" -> [c EXCEPT !.objects = @ \cup {m.object}]
           [] m.type = "Despawn" -> [c EXCEPT !.objects = @ \ {m.object}]
           [] m.type = "Notice" -> c
  ELSE IF m.type = "Spawn" /\ c.auth = "pending"
    THEN [c EXCEPT !.held = @ \cup {m.object}]
  ELSE RejectLocalSession(c)

ClientReceives(p) ==
  LET c == client[p]
      m == Head(toClient[p])
      done == CASE m.type = "Challenge" -> HandleHandshakeChallenge(c, m)
                [] m.type = "Accept" -> [client |-> HandleHandshakeAccept(c), send |-> <<>>]
                [] m.type = "Reject" -> [client |-> HandleHandshakeReject(c), send |-> <<>>]
                [] OTHER -> [client |-> ReceiveGamePacket(c, m), send |-> <<>>]
  IN /\ c.link \in {"up", "cut"}
     /\ toClient[p] # <<>>
     /\ ClientStep(p, done.client, done.send)
     /\ toClient' = [toClient EXCEPT ![p] = IF done.client.link = "down" THEN <<>> ELSE Tail(@)]
     /\ UNCHANGED server

\* UpdateAsClient finds the transport gone; the objects stay until the session is left.
NoticeLoss(p) ==
  /\ client[p].link = "cut"
  /\ LET c == Disconnect(client[p])
     IN ClientStep(p, IF c.auth \in {"pending", "accepted"}
                        THEN [c EXCEPT !.auth = "none", !.nonce = NoNonce,
                                       !.serverNonce = NoNonce, !.held = {}]
                        ELSE c, <<>>)
  /\ toClient' = [toClient EXCEPT ![p] = <<>>]
  /\ UNCHANGED server

\* Components owned by the local peer, whose id is -1 until a server assigns one,
\* as the owner of a component in the scene is.
SendClientUpdate(p) ==
  /\ client[p].link = "up"
  /\ client[p].auth = "accepted" \/ SceneComponents
  /\ ClientMaySend(p)
  /\ ClientStep(p, client[p], <<ClientUpdate>>)
  /\ UNCHANGED <<server, toClient>>

\* A faulty client repeats its hello or its response.
Repeat(p) ==
  /\ p \in Faulty
  /\ client[p].link = "up"
  /\ ClientMaySend(p)
  /\ \E m \in {Hello(client[p].fit, client[p].nonce),
               Response(client[p].nonce, client[p].serverNonce)} :
       /\ m \in ClientMessage
       /\ ClientStep(p, client[p], <<m>>)
  /\ UNCHANGED <<server, toClient>>

-----------------------------------------------------------------------------
\* HandshakeSecurity.

HasPendingChallenge(g) == g.challengeSent /\ ~g.challengeConsumed /\ ~g.authenticated
\* Mutant: an authenticated peer may say hello again.
IsPendingHello(g) == HasPendingChallenge(g) \/ (g.challengeConsumed /\ ~g.authenticated)
IsDuplicateOrStaleHello(g) ==
  g.authenticated \/ HasPendingChallenge(g) \/ g.challengeConsumed
IsDuplicateOrStaleResponse(g) ==
  ~g.challengeSent \/ g.challengeConsumed \/ g.authenticated

ResetChallenge(g) ==
  [g EXCEPT !.challengeSent = FALSE, !.challengeConsumed = FALSE,
            !.clientNonce = NoNonce, !.serverNonce = NoNonce]

\* Mutant: one attempt more than the threshold.
RecordOneAttemptMore(g) ==
  IF g.invalidAttempts + 1 <= InvalidAttemptThreshold
    THEN [g EXCEPT !.invalidAttempts = @ + 1]
    ELSE [ResetChallenge(g) EXCEPT !.blocked = TRUE, !.invalidAttempts = 0]

RecordInvalidAttempt(g) ==
  IF g.invalidAttempts + 1 < InvalidAttemptThreshold
    THEN [g EXCEPT !.invalidAttempts = @ + 1]
    ELSE [ResetChallenge(g) EXCEPT !.blocked = TRUE, !.invalidAttempts = 0]

\* The clock passes the end of p's window of attempts, or of its block.
AttemptWindowEnds(p) ==
  /\ gate[p].invalidAttempts > 0
  /\ gate' = [gate EXCEPT ![p].invalidAttempts = 0]
  /\ UNCHANGED <<client, linked, admitted, world, nextId, toServer, toClient>>

BlockEnds(p) ==
  /\ gate[p].blocked
  /\ gate' = [gate EXCEPT ![p].blocked = FALSE]
  /\ UNCHANGED <<client, linked, admitted, world, nextId, toServer, toClient>>

-----------------------------------------------------------------------------
\* The server: what becomes of the first packet of p.

Reply(p, msgs) ==
  toClient' = [toClient EXCEPT ![p] = IF Reaches(p) THEN @ \o msgs ELSE @]

GateStep(p, g, msgs) ==
  /\ gate' = [gate EXCEPT ![p] = g]
  /\ Reply(p, msgs)
  /\ UNCHANGED <<admitted, world, nextId>>

\* The peer is told; the server does not disconnect it.
RejectPeer(p) == GateStep(p, gate[p], <<Reject>>)
RejectPeerWithTracking(p) == GateStep(p, RecordInvalidAttempt(gate[p]), <<Reject>>)

PendingHandshakes == {q \in Peer : HasPendingChallenge(gate[q])}

\* Mutant: one pending challenge more than the limit.
HelloRefusedLate(p, m) ==
  \/ m.fit = "unfit"
  \/ IsDuplicateOrStaleHello(gate[p])
  \/ ~HasPendingChallenge(gate[p]) /\ Cardinality(PendingHandshakes) > PendingLimit
HelloRefused(p, m) ==
  \/ m.fit = "unfit"
  \/ IsDuplicateOrStaleHello(gate[p])
  \/ ~HasPendingChallenge(gate[p]) /\ Cardinality(PendingHandshakes) >= PendingLimit

HandleHandshakeHello(p, m) ==
  \/ gate[p].blocked /\ RejectPeer(p)
  \/ ~gate[p].blocked /\ HelloRefused(p, m) /\ RejectPeerWithTracking(p)
  \/ /\ ~gate[p].blocked
     /\ ~HelloRefused(p, m)
     /\ \E n \in GenerateNonce(p) :
          GateStep(p, [ResetChallenge(gate[p]) EXCEPT
                         !.authenticated = FALSE, !.challengeSent = TRUE,
                         !.clientNonce = m.clientNonce, !.serverNonce = n],
                   <<Challenge(m.clientNonce, n)>>)

NonceMismatch(g, m) == m.clientNonce # g.clientNonce \/ m.serverNonce # g.serverNonce

\* Mutant: the last slot is refused, but the peer is accepted all the same.
AddPeerBelowMax(p) ==
  admitted' = IF Cardinality(admitted) + 1 < Cardinality(Peer) THEN admitted \cup {p}
                                                               ELSE admitted
\* GameServer::AddPeer
AddPeer(p) ==
  admitted' = IF Cardinality(admitted) < Cardinality(Peer) THEN admitted \cup {p}
                                                           ELSE admitted

\* Mutant: the gate does not remember whom it let through.
ConsumeOnly(g) == [g EXCEPT !.challengeConsumed = TRUE]
PassGate(g) == [g EXCEPT !.challengeConsumed = TRUE, !.authenticated = TRUE]

\* Accept, the replay of the world, then the new player's object for everybody.
AdmitPeer(p) ==
  LET replay == <<Accept>> \o [i \in DOMAIN world |-> SpawnOf(world[i])]
      player == IF PlayerPrefab THEN <<SpawnOf(nextId)>> ELSE <<>>
  IN /\ PlayerPrefab => nextId \in Object
     /\ gate' = [gate EXCEPT ![p] = PassGate(@)]
     /\ AddPeer(p)
     /\ world' = IF PlayerPrefab THEN Append(world, nextId) ELSE world
     /\ nextId' = IF PlayerPrefab THEN nextId + 1 ELSE nextId
     /\ toClient' = [q \in Peer |->
                       IF ~Reaches(q) THEN toClient[q]
                       ELSE toClient[q] \o (IF q = p THEN replay \o player ELSE player)]

HandleHandshakeResponse(p, m) ==
  \/ gate[p].blocked /\ RejectPeer(p)
  \/ ~gate[p].blocked /\ IsDuplicateOrStaleResponse(gate[p]) /\ RejectPeerWithTracking(p)
  \/ /\ ~gate[p].blocked
     /\ ~IsDuplicateOrStaleResponse(gate[p])
     /\ NonceMismatch(gate[p], m)
     /\ GateStep(p, ResetChallenge(RecordInvalidAttempt(gate[p])), <<Reject>>)
  \/ /\ ~gate[p].blocked
     /\ ~IsDuplicateOrStaleResponse(gate[p])
     /\ ~NonceMismatch(gate[p], m)
     /\ AdmitPeer(p)

HandleGamePacket(p) ==
  \/ ~gate[p].authenticated /\ RejectPeerWithTracking(p)
  \/ gate[p].authenticated /\ UNCHANGED <<gate, admitted, world, nextId, toClient>>

ServerReceives(p) ==
  /\ p \in linked
  /\ toServer[p] # <<>>
  /\ LET m == Head(toServer[p])
     IN \/ m.type = "Hello" /\ HandleHandshakeHello(p, m)
        \/ m.type = "Response" /\ HandleHandshakeResponse(p, m)
        \/ m.type = "ClientUpdate" /\ HandleGamePacket(p)
  /\ toServer' = [toServer EXCEPT ![p] = Tail(@)]
  /\ UNCHANGED <<client, linked>>

\* Mutant: the gate outlives the connection.
PeerDisconnectedKeepsGate(p) ==
  /\ p \in linked
  /\ client[p].link \in {"down", "cut"}
  /\ linked' = linked \ {p}
  /\ admitted' = admitted \ {p}
  /\ toServer' = [toServer EXCEPT ![p] = <<>>]
  /\ UNCHANGED <<client, gate, world, nextId, toClient>>

\* ENet reports the disconnect: RemovePeer, then PeerDisconnected erases the gate.
PeerDisconnected(p) ==
  /\ p \in linked
  /\ client[p].link \in {"down", "cut"}
  /\ linked' = linked \ {p}
  /\ admitted' = admitted \ {p}
  /\ gate' = [gate EXCEPT ![p] = FreshGate]
  /\ toServer' = [toServer EXCEPT ![p] = <<>>]
  /\ UNCHANGED <<client, world, nextId, toClient>>

SpawnNetworkObject ==
  /\ nextId <= MaxOwnObject
  /\ ServerMaySend
  /\ world' = Append(world, nextId)
  /\ nextId' = nextId + 1
  /\ Broadcast(SpawnOf(nextId))
  /\ UNCHANGED <<client, gate, linked, admitted, toServer>>

DespawnNetworkObject ==
  /\ ServerMaySend
  /\ \E i \in DOMAIN world :
       /\ world' = RemoveAt(world, i)
       /\ Broadcast(DespawnOf(world[i]))
  /\ UNCHANGED <<client, gate, linked, admitted, nextId, toServer>>

\* An RPC for all, or a snapshot without delta compression.
Notify ==
  /\ linked # {}
  /\ ServerMaySend
  /\ Broadcast(Notice)
  /\ UNCHANGED <<client, server, toServer>>

\* The host stops its session and hosts again; the Shutdown packet is never flushed.
RestartServer ==
  /\ linked # {} \/ world # <<>>
  /\ gate' = [p \in Peer |-> FreshGate]
  /\ linked' = {}
  /\ admitted' = {}
  /\ world' = <<>>
  /\ nextId' = 1
  /\ client' = [p \in Peer |-> [client[p] EXCEPT !.link = IF @ = "up" THEN "cut" ELSE @]]
  /\ toServer' = [p \in Peer |-> <<>>]
  /\ UNCHANGED toClient

-----------------------------------------------------------------------------
ClientNext(p) ==
  \/ LinkUp(p) \/ ServerConnects(p) \/ CutLink(p) \/ NoticeLoss(p)
  \/ StartClient(p) \/ LeaveSession(p)
  \/ BeginSessionHandshake(p) \/ ClientReceives(p)
  \/ SendClientUpdate(p) \/ Repeat(p)

ServerNext(p) ==
  ServerReceives(p) \/ PeerDisconnected(p) \/ AttemptWindowEnds(p) \/ BlockEnds(p)

Next ==
  \/ \E p \in Peer : ClientNext(p) \/ ServerNext(p)
  \/ SpawnNetworkObject \/ DespawnNetworkObject \/ Notify \/ RestartServer

Spec == Init /\ [][Next]_vars

\* A quiet time: links hold, users play on, nothing but spawns is broadcast.
QuietNext ==
  \/ \E p \in Peer :
       \/ LinkUp(p) \/ ServerConnects(p) \/ StartClient(p) \/ AbandonFailedSession(p)
       \/ client[p].auth = "accepted" /\ LeaveSession(p)
       \/ BeginSessionHandshake(p) \/ ClientReceives(p) \/ SendClientUpdate(p)
       \/ ServerNext(p)
  \/ SpawnNetworkObject

\* Every process runs its update loop and ENet delivers over a link that holds.
Progress(p) ==
  /\ WF_vars(LinkUp(p))
  /\ WF_vars(ServerConnects(p))
  /\ WF_vars(BeginSessionHandshake(p))
  /\ WF_vars(ClientReceives(p))
  /\ WF_vars(AbandonFailedSession(p))
  /\ WF_vars(ServerReceives(p))
  /\ WF_vars(PeerDisconnected(p))

QuietSpec == Init /\ [][QuietNext]_vars /\ \A p \in Peer : Progress(p)

-----------------------------------------------------------------------------
\* A server counts a peer as connected exactly if the peer passed the gate of its
\* present connection: m_connectedPeers, the gates and ENet's peers never disagree.
AdmittedAreAuthenticated ==
  /\ admitted = {p \in Peer : gate[p].authenticated}
  /\ admitted \subseteq linked

\* No client whose hello the server would refuse holds an authenticated gate, not even
\* one that took over the slot of an admitted client (ReceivePacket, PeerDisconnected).
OnlyFitAdmitted == \A p \in Peer : gate[p].authenticated => client[p].fit # "unfit"

\* At most PendingLimit challenges are out, whatever is rejected, repeated or lost.  (With a
\* limit of clients in the host request there are as many slots.  A bootstrap provider may
\* leave it 0; then the slots are the manager's MaxClients and the limit is one.)
PendingBounded == Cardinality(PendingHandshakes) <= PendingLimit

\* A client that was accepted over a link that still holds is admitted by the server,
\* for the nonces the two exchanged on that link.
AcceptedIsAdmitted ==
  \A p \in Peer : client[p].auth = "accepted" /\ Reaches(p) =>
    /\ p \in admitted
    /\ gate[p].challengeSent => /\ gate[p].clientNonce = client[p].nonce
                                /\ gate[p].serverNonce = client[p].serverNonce

\* Once accepted, a client that repeats nothing is never told that it is rejected.
AcceptedStays ==
  \A p \in Peer \ Faulty :
    client[p].auth = "accepted" /\ Reaches(p) => Reject \notin Range(toClient[p])

\* An accepted client that has received all that was sent to it has exactly the objects
\* of the server, although it joined while objects came and went.
ObjectsAgree ==
  \A p \in Peer :
    client[p].auth = "accepted" /\ Reaches(p) /\ toClient[p] = <<>> =>
      client[p].objects = Range(world)

\* The threshold blocks nobody who does not repeat packets or own scene components,
\* however often such clients are refused and come back (RecordInvalidAttempt).
HonestNotBlocked ==
  ~SceneComponents => \A p \in Peer \ Faulty : ~gate[p].blocked

\* docs/plans/PRODUCTION_NETWORKING_PLAN.md, l.424: before authentication only handshake
\* and close messages travel.  The server broadcasts to every linked peer.
PreAuthIsHandshakeOnly ==
  \A p \in linked : ~gate[p].authenticated =>
    \A m \in Range(toClient[p]) : m.type \in {"Challenge", "Accept", "Reject"}

\* In a quiet time a client whose request the server accepts gets accepted, whoever had
\* its slot before and although the server counts invalid attempts.
FitClientsJoin ==
  \A p \in Peer :
    client[p].phase = "connecting" /\ client[p].fit = "fit" ~> client[p].auth = "accepted"

\* In a quiet time a client that cannot be accepted is told so and leaves its slot.
OthersLeave ==
  \A p \in Peer \ Faulty :
    client[p].fit # "fit" ~> client[p].phase = "idle" /\ p \notin linked
=============================================================================
