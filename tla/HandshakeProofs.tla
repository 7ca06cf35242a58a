--------------------------- MODULE HandshakeProofs ---------------------------
(***************************************************************************)
(* Safety of the handshake for every number of peers, every limit and      *)
(* threshold, every set of faulty clients and streams of any length.       *)
(*                                                                         *)
(* Peers meet only in the pending limit, the connection list and what is   *)
(* broadcast, so the invariant is one predicate, Slot, on the state of a   *)
(* single slot.  One lemma per effect on a slot, then one step per action. *)
(***************************************************************************)
EXTENDS Handshake, FiniteSetTheorems, SequenceTheorems, TLAPS

\* The packets each side sends, and what the other side reads from them.
LEMMA ClientPackets ==
  /\ \A f \in {"fit", "unfit", "wary"}, n \in Nonce : Hello(f, n) \in ClientMessage
  /\ \A n \in Nonce, s \in Nonce : Response(n, s) \in ClientMessage
  /\ ClientUpdate \in ClientMessage
  /\ \A m \in ClientMessage :
       /\ m.type \in {"Hello", "Response", "ClientUpdate"}
       /\ m.type = "Hello" => /\ m = Hello(m.fit, m.clientNonce)
                              /\ m.clientNonce \in Nonce
                              /\ m.fit \in {"fit", "unfit", "wary"}
       /\ m.type = "Response" => /\ m = Response(m.clientNonce, m.serverNonce)
                                 /\ m.clientNonce \in Nonce /\ m.serverNonce \in Nonce
<1>1. \A f \in {"fit", "unfit", "wary"}, n \in Nonce : Hello(f, n) \in ClientMessage
  <2> SUFFICES ASSUME NEW f \in {"fit", "unfit", "wary"}, NEW n \in Nonce
               PROVE  Hello(f, n) \in ClientMessage
    OBVIOUS
  <2> DEFINE c == [fit |-> f, nonce |-> n]
  <2>1. c \in [fit : {"fit", "unfit", "wary"}, nonce : Nonce] /\ c.fit = f /\ c.nonce = n
    OBVIOUS
  <2>2. Hello(f, n) = Hello(c.fit, c.nonce)
    BY <2>1
  <2>3. Hello(f, n) \in {Hello(d.fit, d.nonce) :
                          d \in [fit : {"fit", "unfit", "wary"}, nonce : Nonce]}
    BY <2>1, <2>2
  <2> QED BY <2>3 DEF ClientMessage
<1>2. /\ \A n \in Nonce, s \in Nonce : Response(n, s) \in ClientMessage
      /\ ClientUpdate \in ClientMessage
  BY DEF ClientMessage
<1>3. ASSUME NEW m \in ClientMessage
      PROVE  /\ m.type \in {"Hello", "Response", "ClientUpdate"}
             /\ m.type = "Hello" => /\ m = Hello(m.fit, m.clientNonce)
                                    /\ m.clientNonce \in Nonce
                                    /\ m.fit \in {"fit", "unfit", "wary"}
             /\ m.type = "Response" => /\ m = Response(m.clientNonce, m.serverNonce)
                                       /\ m.clientNonce \in Nonce /\ m.serverNonce \in Nonce
  <2>1. CASE \E c \in [fit : {"fit", "unfit", "wary"}, nonce : Nonce] :
               m = Hello(c.fit, c.nonce)
    BY <2>1 DEF Hello
  <2>2. CASE \E n \in Nonce, s \in Nonce : m = Response(n, s)
    BY <2>2 DEF Response
  <2>3. CASE m = ClientUpdate
    BY <2>3 DEF ClientUpdate
  <2> QED BY <2>1, <2>2, <2>3 DEF ClientMessage
<1> QED BY <1>1, <1>2, <1>3

LEMMA ServerPackets ==
  /\ \A n \in Nonce, s \in Nonce : Challenge(n, s) \in ServerMessage
  /\ {Accept, Reject, Notice} \subseteq ServerMessage
  /\ \A o \in Object : SpawnOf(o) \in ServerMessage /\ DespawnOf(o) \in ServerMessage
  /\ \A m \in ServerMessage :
       /\ m.type \in {"Challenge", "Accept", "Reject", "Notice", "Spawn", "Despawn"}
       /\ m.type = "Challenge" => /\ m = Challenge(m.clientNonce, m.serverNonce)
                                  /\ m.clientNonce \in Nonce /\ m.serverNonce \in Nonce
       /\ m.type \in {"Spawn", "Despawn"} => m.object \in Object
<1>1. /\ \A n \in Nonce, s \in Nonce : Challenge(n, s) \in ServerMessage
      /\ {Accept, Reject, Notice} \subseteq ServerMessage
      /\ \A o \in Object : SpawnOf(o) \in ServerMessage /\ DespawnOf(o) \in ServerMessage
  BY DEF ServerMessage
<1>2. ASSUME NEW m \in ServerMessage
      PROVE  /\ m.type \in {"Challenge", "Accept", "Reject", "Notice", "Spawn", "Despawn"}
             /\ m.type = "Challenge" => /\ m = Challenge(m.clientNonce, m.serverNonce)
                                        /\ m.clientNonce \in Nonce /\ m.serverNonce \in Nonce
             /\ m.type \in {"Spawn", "Despawn"} => m.object \in Object
  <2>1. CASE \E n \in Nonce, s \in Nonce : m = Challenge(n, s)
    BY <2>1 DEF Challenge
  <2>2. CASE m \in {Accept, Reject, Notice}
    BY <2>2 DEF Accept, Reject, Notice
  <2>3. CASE \E o \in Object : m \in {SpawnOf(o), DespawnOf(o)}
    BY <2>3 DEF SpawnOf, DespawnOf
  <2> QED BY <2>1, <2>2, <2>3 DEF ServerMessage
<1> QED BY <1>1, <1>2

LEMMA NoNonceIsNone == NoNonce \notin Nonce
  BY HandshakeAssumption DEF Nonce, NoNonce

\* A drawn nonce is in use nowhere on the link.
LEMMA FreshNonce ==
  ASSUME NEW p \in Peer, NEW n \in GenerateNonce(p)
  PROVE  n \in Nonce /\ n \notin NoncesInUse(p)
  BY DEF GenerateNonce

-----------------------------------------------------------------------------
\* The records of the two sides.

LEMMA HandlersKeepClient ==
  ASSUME NEW c \in Client, NEW m \in ServerMessage
  PROVE  /\ m.type = "Challenge" =>
              /\ HandleHandshakeChallenge(c, m).client \in Client
              /\ HandleHandshakeChallenge(c, m).send \in Seq(ClientMessage)
         /\ HandleHandshakeAccept(c) \in Client
         /\ HandleHandshakeReject(c) \in Client
         /\ m.type \in {"Spawn", "Despawn", "Notice"} => ReceiveGamePacket(c, m) \in Client
<1>1. RejectLocalSession(c) \in Client
  BY DEF RejectLocalSession, Client
<1>2. HandleHandshakeReject(c) \in Client
  BY <1>1 DEF HandleHandshakeReject, Disconnect, Client
<1>3. HandleHandshakeAccept(c) \in Client
  <2>1. [c EXCEPT !.auth = "accepted", !.objects = @ \cup c.held, !.held = {}] \in Client
    BY DEF Client
  <2> QED BY <1>2, <2>1 DEF HandleHandshakeAccept, HandleHandshakeReject
<1>4. ASSUME m.type = "Challenge"
      PROVE  /\ HandleHandshakeChallenge(c, m).client \in Client
             /\ HandleHandshakeChallenge(c, m).send \in Seq(ClientMessage)
  <2>1. m.clientNonce \in Nonce /\ m.serverNonce \in Nonce
    BY <1>4, ServerPackets
  <2>2. [c EXCEPT !.serverNonce = m.serverNonce] \in Client
    BY <2>1 DEF Client
  <2>3. m.clientNonce = c.nonce => Response(c.nonce, m.serverNonce) \in ClientMessage
    BY <2>1, ClientPackets
  <2> QED BY <1>1, <2>2, <2>3 DEF HandleHandshakeChallenge
<1>5. ASSUME m.type \in {"Spawn", "Despawn", "Notice"}
      PROVE  ReceiveGamePacket(c, m) \in Client
  <2>1. m.type \in {"Spawn", "Despawn"} => m.object \in Object
    BY ServerPackets
  <2> QED BY <1>1, <1>5, <2>1 DEF ReceiveGamePacket, Client
<1> QED BY <1>2, <1>3, <1>4, <1>5

LEMMA GateOperations ==
  ASSUME NEW g \in Gate
  PROVE  /\ FreshGate \in Gate
         /\ ResetChallenge(g) \in Gate
         /\ RecordInvalidAttempt(g) \in Gate
         /\ ResetChallenge(RecordInvalidAttempt(g)) \in Gate
         /\ PassGate(g) \in Gate
<1>0. 0 \in 0 .. InvalidAttemptThreshold - 1
  BY HandshakeAssumption
<1>1. FreshGate \in Gate /\ ResetChallenge(g) \in Gate
  BY <1>0 DEF FreshGate, ResetChallenge, Gate
<1>2. RecordInvalidAttempt(g) \in Gate
  <2>1. g.invalidAttempts + 1 < InvalidAttemptThreshold =>
          g.invalidAttempts + 1 \in 0 .. InvalidAttemptThreshold - 1
    BY HandshakeAssumption DEF Gate
  <2>2. [g EXCEPT !.invalidAttempts = g.invalidAttempts + 1] \in Gate
          \/ ~(g.invalidAttempts + 1 < InvalidAttemptThreshold)
    BY <2>1 DEF Gate
  <2>3. [ResetChallenge(g) EXCEPT !.blocked = TRUE, !.invalidAttempts = 0] \in Gate
    BY <1>0, <1>1 DEF Gate
  <2> QED BY <2>2, <2>3 DEF RecordInvalidAttempt
<1> QED BY <1>1, <1>2 DEF ResetChallenge, PassGate, Gate

\* A client that takes a step leaves well-formed links.
LEMMA ClientStepType ==
  ASSUME TypeOK, NEW p \in Peer, NEW c \in Client, NEW msgs \in Seq(ClientMessage),
         ClientStep(p, c, msgs)
  PROVE  client' \in [Peer -> Client] /\ toServer' \in [Peer -> Seq(ClientMessage)]
  BY DEF TypeOK, ClientStep

LEMMA ReplyType ==
  ASSUME TypeOK, NEW p \in Peer, NEW msgs \in Seq(ServerMessage), Reply(p, msgs)
  PROVE  toClient' \in [Peer -> Seq(ServerMessage)]
  BY DEF TypeOK, Reply

LEMMA BroadcastType ==
  ASSUME TypeOK, NEW m \in ServerMessage, Broadcast(m)
  PROVE  toClient' \in [Peer -> Seq(ServerMessage)]
  BY DEF TypeOK, Broadcast

-----------------------------------------------------------------------------
\* Types.

\* What becomes of a packet from the server (ClientReceives) is a client and its answer.
LEMMA ReceivesType ==
  ASSUME TypeOK, NEW p \in Peer, ClientReceives(p)
  PROVE  \E c \in Client, msgs \in Seq(ClientMessage) :
           /\ ClientStep(p, c, msgs)
           /\ toClient' = [toClient EXCEPT ![p] = IF c.link = "down" THEN <<>> ELSE Tail(@)]
           /\ UNCHANGED server
<1> DEFINE c == client[p]
           m == Head(toClient[p])
<1>1. c \in Client /\ m \in ServerMessage
  BY DEF TypeOK, ClientReceives
<1>2. m.type \in {"Challenge", "Accept", "Reject", "Notice", "Spawn", "Despawn"}
  BY <1>1, ServerPackets
<1>3. <<>> \in Seq(ClientMessage)
  OBVIOUS
<1>4. CASE m.type = "Challenge"
  BY <1>1, <1>4, HandlersKeepClient DEF ClientReceives
<1>5. CASE m.type = "Accept"
  BY <1>1, <1>3, <1>5, HandlersKeepClient DEF ClientReceives
<1>6. CASE m.type = "Reject"
  BY <1>1, <1>3, <1>6, HandlersKeepClient DEF ClientReceives
<1>7. CASE m.type \in {"Spawn", "Despawn", "Notice"}
  BY <1>1, <1>3, <1>7, HandlersKeepClient DEF ClientReceives
<1> QED BY <1>2, <1>4, <1>5, <1>6, <1>7

LEMMA ClientTypes ==
  ASSUME TypeOK, NEW p \in Peer, ClientNext(p)
  PROVE  TypeOK'
<1> USE DEF TypeOK
<1>0. client[p] \in Client /\ <<>> \in Seq(ClientMessage) /\ <<>> \in Seq(ServerMessage)
  OBVIOUS
<1>1. CASE LinkUp(p)
  <2>1. [client[p] EXCEPT !.link = "up"] \in Client
    BY <1>0 DEF Client
  <2> QED BY <1>1, <2>1 DEF LinkUp, server
<1>2. CASE ServerConnects(p)
  BY <1>2 DEF ServerConnects
<1>3. CASE CutLink(p)
  <2>1. [client[p] EXCEPT !.link = "cut"] \in Client
    BY <1>0 DEF Client
  <2> QED BY <1>3, <2>1 DEF CutLink, server
<1>4. CASE NoticeLoss(p)
  <2>1. Disconnect(client[p]) \in Client
    BY <1>0 DEF Disconnect, Client
  <2>2. [Disconnect(client[p]) EXCEPT !.auth = "none", !.nonce = NoNonce,
                                      !.serverNonce = NoNonce, !.held = {}] \in Client
    BY <2>1 DEF Client
  <2>3. \E c \in Client : ClientStep(p, c, <<>>)
    BY <1>4, <2>1, <2>2 DEF NoticeLoss
  <2> QED BY <1>0, <1>4, <2>3, ClientStepType DEF NoticeLoss, server
<1>5. CASE StartClient(p)
  <2>1. \A f \in {"fit", "unfit", "wary"} :
          [IdleClient EXCEPT !.phase = "connecting", !.link = "pending", !.fit = f] \in Client
    BY DEF IdleClient, Client
  <2>2. \E c \in Client : client' = [client EXCEPT ![p] = c]
    BY <1>5, <2>1 DEF StartClient
  <2> QED BY <1>5, <2>2 DEF StartClient, server
<1>6. CASE LeaveSession(p)
  <2>1. IdleClient \in Client
    BY DEF IdleClient, Client
  <2> QED BY <1>0, <1>6, <2>1, ClientStepType DEF LeaveSession, server
<1>7. CASE BeginSessionHandshake(p)
  <2>1. PICK n \in GenerateNonce(p) :
          ClientStep(p, [client[p] EXCEPT !.phase = "begun", !.auth = "pending", !.nonce = n,
                                          !.serverNonce = NoNonce, !.held = {}],
                     <<Hello(client[p].fit, n)>>)
    BY <1>7 DEF BeginSessionHandshake
  <2>2. n \in Nonce
    BY FreshNonce
  <2>3. [client[p] EXCEPT !.phase = "begun", !.auth = "pending", !.nonce = n,
                          !.serverNonce = NoNonce, !.held = {}] \in Client
    BY <1>0, <2>2 DEF Client
  <2>4. <<Hello(client[p].fit, n)>> \in Seq(ClientMessage)
    BY <1>0, <2>2, ClientPackets DEF Client
  <2> QED BY <1>7, <2>1, <2>3, <2>4, ClientStepType DEF BeginSessionHandshake, server
<1>8. CASE ClientReceives(p)
  <2>1. PICK c \in Client, msgs \in Seq(ClientMessage) :
          /\ ClientStep(p, c, msgs)
          /\ toClient' = [toClient EXCEPT ![p] = IF c.link = "down" THEN <<>> ELSE Tail(@)]
          /\ UNCHANGED server
    BY <1>8, ReceivesType
  <2>2. Tail(toClient[p]) \in Seq(ServerMessage)
    BY <1>8 DEF ClientReceives
  <2> QED BY <1>0, <2>1, <2>2, ClientStepType DEF server
<1>9. CASE SendClientUpdate(p)
  <2>1. <<ClientUpdate>> \in Seq(ClientMessage)
    BY ClientPackets
  <2> QED BY <1>0, <1>9, <2>1, ClientStepType DEF SendClientUpdate, server
<1>10. CASE Repeat(p)
  <2>1. PICK m \in ClientMessage : ClientStep(p, client[p], <<m>>)
    BY <1>10 DEF Repeat
  <2>2. <<m>> \in Seq(ClientMessage)
    OBVIOUS
  <2> QED BY <1>0, <1>10, <2>1, <2>2, ClientStepType DEF Repeat, server
<1> QED BY <1>1, <1>2, <1>3, <1>4, <1>5, <1>6, <1>7, <1>8, <1>9, <1>10 DEF ClientNext

\* A step of the gate keeps the types, whichever of its results and replies it has.
LEMMA GateStepTypes ==
  ASSUME TypeOK, NEW p \in Peer, NEW g \in Gate, NEW msgs \in Seq(ServerMessage),
         GateStep(p, g, msgs)
  PROVE  /\ gate' \in [Peer -> Gate]
         /\ toClient' \in [Peer -> Seq(ServerMessage)]
         /\ UNCHANGED <<admitted, world, nextId>>
  BY ReplyType DEF TypeOK, GateStep

LEMMA RejectTypes ==
  ASSUME TypeOK, NEW p \in Peer, RejectPeer(p) \/ RejectPeerWithTracking(p)
  PROVE  /\ gate' \in [Peer -> Gate]
         /\ toClient' \in [Peer -> Seq(ServerMessage)]
         /\ UNCHANGED <<admitted, world, nextId>>
<1>1. gate[p] \in Gate /\ RecordInvalidAttempt(gate[p]) \in Gate
  BY GateOperations DEF TypeOK
<1>2. <<Reject>> \in Seq(ServerMessage)
  BY ServerPackets
<1> QED BY <1>1, <1>2, GateStepTypes DEF RejectPeer, RejectPeerWithTracking

LEMMA AdmitTypes ==
  ASSUME TypeOK, NEW p \in Peer, AdmitPeer(p)
  PROVE  /\ gate' \in [Peer -> Gate]
         /\ toClient' \in [Peer -> Seq(ServerMessage)]
         /\ admitted' \subseteq Peer /\ world' \in Seq(Object) /\ nextId' \in 1 .. MaxObject + 1
<1> DEFINE replay == <<Accept>> \o [i \in DOMAIN world |-> SpawnOf(world[i])]
           player == IF PlayerPrefab THEN <<SpawnOf(nextId)>> ELSE <<>>
<1>1. gate' \in [Peer -> Gate]
  BY GateOperations DEF TypeOK, AdmitPeer
<1>2. admitted' \subseteq Peer
  BY DEF TypeOK, AdmitPeer, AddPeer
<1>3. PlayerPrefab => nextId \in Object
  BY DEF AdmitPeer
<1>4. world' \in Seq(Object) /\ nextId' \in 1 .. MaxObject + 1
  <2>1. CASE PlayerPrefab
    BY <1>3, <2>1, HandshakeAssumption DEF TypeOK, AdmitPeer, Object
  <2>2. CASE ~PlayerPrefab
    BY <2>2 DEF TypeOK, AdmitPeer
  <2> QED BY <2>1, <2>2
<1>5. player \in Seq(ServerMessage)
  BY <1>3, ServerPackets
<1>6. replay \in Seq(ServerMessage)
  <2>1. \A i \in DOMAIN world : SpawnOf(world[i]) \in ServerMessage
    BY ServerPackets DEF TypeOK
  <2>2. [i \in DOMAIN world |-> SpawnOf(world[i])] \in Seq(ServerMessage)
    <3>1. DOMAIN world = 1 .. Len(world) /\ Len(world) \in Nat
      BY DEF TypeOK
    <3> QED BY <2>1, <3>1, IsASeq
  <2>3. <<Accept>> \in Seq(ServerMessage)
    BY ServerPackets
  <2> QED BY <2>2, <2>3
<1>7. toClient' \in [Peer -> Seq(ServerMessage)]
  <2>1. replay \o player \in Seq(ServerMessage)
    BY <1>5, <1>6
  <2>2. \A q \in Peer : toClient[q] \in Seq(ServerMessage)
    BY DEF TypeOK
  <2>3. \A q \in Peer : /\ toClient[q] \o player \in Seq(ServerMessage)
                        /\ toClient[q] \o (replay \o player) \in Seq(ServerMessage)
    BY <1>5, <2>1, <2>2
  <2>4. toClient' = [q \in Peer |->
                       IF ~Reaches(q) THEN toClient[q]
                       ELSE toClient[q] \o (IF q = p THEN replay \o player ELSE player)]
    BY DEF AdmitPeer
  <2> QED BY <2>2, <2>3, <2>4
<1> QED BY <1>1, <1>2, <1>4, <1>7

LEMMA ServerReceivesTypes ==
  ASSUME TypeOK, NEW p \in Peer, ServerReceives(p)
  PROVE  TypeOK'
<1> USE DEF TypeOK
<1> DEFINE m == Head(toServer[p])
<1>1. toServer' \in [Peer -> Seq(ClientMessage)] /\ UNCHANGED <<client, linked>>
  BY DEF ServerReceives
<1>2. m \in ClientMessage /\ gate[p] \in Gate
  BY DEF ServerReceives
<1> SUFFICES /\ gate' \in [Peer -> Gate]
             /\ toClient' \in [Peer -> Seq(ServerMessage)]
             /\ admitted' \subseteq Peer /\ world' \in Seq(Object)
             /\ nextId' \in 1 .. MaxObject + 1
  BY <1>1
<1>3. CASE m.type = "Hello" /\ HandleHandshakeHello(p, m)
  <2>1. CASE RejectPeer(p) \/ RejectPeerWithTracking(p)
    BY <2>1, RejectTypes
  <2>2. CASE \E n \in GenerateNonce(p) :
               GateStep(p, [ResetChallenge(gate[p]) EXCEPT
                              !.authenticated = FALSE, !.challengeSent = TRUE,
                              !.clientNonce = m.clientNonce, !.serverNonce = n],
                        <<Challenge(m.clientNonce, n)>>)
    <3>1. PICK n \in GenerateNonce(p) :
               GateStep(p, [ResetChallenge(gate[p]) EXCEPT
                              !.authenticated = FALSE, !.challengeSent = TRUE,
                              !.clientNonce = m.clientNonce, !.serverNonce = n],
                        <<Challenge(m.clientNonce, n)>>)
      BY <2>2
    <3>2. n \in Nonce /\ m.clientNonce \in Nonce
      BY <1>2, <1>3, FreshNonce, ClientPackets
    <3>3. ResetChallenge(gate[p]) \in Gate
      BY <1>2, GateOperations
    <3>4. [ResetChallenge(gate[p]) EXCEPT
             !.authenticated = FALSE, !.challengeSent = TRUE,
             !.clientNonce = m.clientNonce, !.serverNonce = n] \in Gate
      BY <3>2, <3>3 DEF Gate
    <3>5. <<Challenge(m.clientNonce, n)>> \in Seq(ServerMessage)
      BY <3>2, ServerPackets
    <3> QED BY <3>1, <3>4, <3>5, GateStepTypes
  <2> QED BY <1>3, <2>1, <2>2 DEF HandleHandshakeHello
<1>4. CASE m.type = "Response" /\ HandleHandshakeResponse(p, m)
  <2>1. CASE RejectPeer(p) \/ RejectPeerWithTracking(p)
    BY <2>1, RejectTypes
  <2>2. CASE GateStep(p, ResetChallenge(RecordInvalidAttempt(gate[p])), <<Reject>>)
    <3>1. <<Reject>> \in Seq(ServerMessage)
      BY ServerPackets
    <3> QED BY <1>2, <2>2, <3>1, GateOperations, GateStepTypes
  <2>3. CASE AdmitPeer(p)
    BY <2>3, AdmitTypes
  <2> QED BY <1>4, <2>1, <2>2, <2>3 DEF HandleHandshakeResponse
<1>5. CASE HandleGamePacket(p)
  BY <1>5, RejectTypes DEF HandleGamePacket
<1> QED BY <1>3, <1>4, <1>5 DEF ServerReceives

LEMMA ServerTypes ==
  ASSUME TypeOK, NEW p \in Peer, ServerNext(p)
  PROVE  TypeOK'
<1>1. CASE ServerReceives(p)
  BY <1>1, ServerReceivesTypes
<1>2. CASE PeerDisconnected(p)
  <2>1. FreshGate \in Gate
    BY GateOperations DEF TypeOK
  <2> QED BY <1>2, <2>1 DEF PeerDisconnected, TypeOK
<1>3. CASE AttemptWindowEnds(p)
  <2>1. [gate[p] EXCEPT !.invalidAttempts = 0] \in Gate
    <3>1. gate[p] \in Gate /\ 0 \in 0 .. InvalidAttemptThreshold - 1
      BY HandshakeAssumption DEF TypeOK
    <3> QED BY <3>1 DEF Gate
  <2> QED BY <1>3, <2>1 DEF AttemptWindowEnds, TypeOK
<1>4. CASE BlockEnds(p)
  BY <1>4 DEF BlockEnds, TypeOK, Gate
<1> QED BY <1>1, <1>2, <1>3, <1>4 DEF ServerNext

LEMMA WorldTypes ==
  ASSUME TypeOK, SpawnNetworkObject \/ DespawnNetworkObject \/ Notify \/ RestartServer
  PROVE  TypeOK'
<1>1. CASE SpawnNetworkObject
  <2>1. nextId \in Object
    BY <1>1, HandshakeAssumption DEF SpawnNetworkObject, TypeOK, Object
  <2>2. world' \in Seq(Object) /\ nextId' \in 1 .. MaxObject + 1
    BY <1>1, <2>1, HandshakeAssumption DEF SpawnNetworkObject, TypeOK, Object
  <2>3. toClient' \in [Peer -> Seq(ServerMessage)]
    BY <1>1, <2>1, ServerPackets, BroadcastType DEF SpawnNetworkObject
  <2> QED BY <1>1, <2>2, <2>3 DEF SpawnNetworkObject, TypeOK
<1>2. CASE DespawnNetworkObject
  <2>1. PICK i \in DOMAIN world : world' = RemoveAt(world, i) /\ Broadcast(DespawnOf(world[i]))
    BY <1>2 DEF DespawnNetworkObject
  <2>2. world' \in Seq(Object) /\ world[i] \in Object
    BY <2>1 DEF RemoveAt, TypeOK
  <2>3. toClient' \in [Peer -> Seq(ServerMessage)]
    BY <2>1, <2>2, ServerPackets, BroadcastType
  <2> QED BY <1>2, <2>2, <2>3 DEF DespawnNetworkObject, TypeOK
<1>3. CASE Notify
  BY <1>3, ServerPackets, BroadcastType DEF Notify, server, TypeOK
<1>4. CASE RestartServer
  <2>1. FreshGate \in Gate
    BY GateOperations, HandshakeAssumption DEF FreshGate, Gate
  <2>2. client' \in [Peer -> Client]
    <3>1. \A q \in Peer :
            [client[q] EXCEPT !.link = IF @ = "up" THEN "cut" ELSE @] \in Client
      <4> SUFFICES ASSUME NEW q \in Peer
                   PROVE  [client[q] EXCEPT !.link = IF @ = "up" THEN "cut" ELSE @] \in Client
        OBVIOUS
      <4>1. client[q] \in Client
        BY DEF TypeOK
      <4> QED BY <4>1 DEF Client
    <3> QED BY <1>4, <3>1 DEF RestartServer
  <2> QED BY <1>4, <2>1, <2>2, HandshakeAssumption DEF RestartServer, TypeOK
<1> QED BY <1>1, <1>2, <1>3, <1>4

LEMMA TypesInit ==
  ASSUME Init
  PROVE  TypeOK
<1>1. FreshGate \in Gate
  BY HandshakeAssumption DEF FreshGate, Gate
<1>2. IdleClient \in Client
  BY DEF IdleClient, Client
<1> QED BY <1>1, <1>2, HandshakeAssumption DEF Init, TypeOK

LEMMA TypesStep ==
  ASSUME TypeOK, [Next]_vars
  PROVE  TypeOK'
<1>1. CASE UNCHANGED vars
  BY <1>1 DEF vars, TypeOK
<1> QED BY <1>1, ClientTypes, ServerTypes, WorldTypes DEF Next

\* Every peer's records and packets stay well formed, however the packets of any number
\* of peers, losses, restarts and broadcasts interleave.
THEOREM TypeCorrect == Spec => []TypeOK
  BY TypesInit, TypesStep, PTL DEF Spec

-----------------------------------------------------------------------------
(***************************************************************************)
(* The invariant of one slot: client c, gate g, whether the server has the *)
(* peer linked (l), what it sent (out) and what it was sent (in).          *)
(***************************************************************************)

\* A slot that no link uses has nothing in flight, and its gate is fresh.
Vacant(c, g, l, out, in) ==
  /\ c.phase = "idle" => c.link = "down"
  /\ c.phase = "connecting" => c.nonce = NoNonce
  /\ c.link = "pending" => ~l /\ c.auth = "none"
  /\ c.link \in {"down", "pending"} => in = <<>>
  /\ ~l => g = FreshGate
  /\ ~l /\ c.link \in {"down", "pending"} => out = <<>>

\* A client the server will refuse says nothing else, and its gate stays shut.
Stopped(c, g, out) ==
  c.fit = "unfit" =>
    /\ ~g.challengeSent /\ ~g.authenticated
    /\ \A i \in DOMAIN out : out[i].type = "Hello" => out[i].fit = "unfit"

\* Over a link that holds the two sides talk about the same nonces, and the challenge
\* that is out is the last one sent.
Matching(c, g, out, in) ==
  c.link = "up" =>
    /\ c.auth = "accepted" => g.authenticated
    /\ g.authenticated => c.nonce # NoNonce
    /\ \A i \in DOMAIN in : in[i].type = "Accept" => g.authenticated
    /\ \A i \in DOMAIN in : in[i].type = "Challenge" => in[i].clientNonce = c.nonce
    /\ \A i \in DOMAIN out : out[i].type \in {"Hello", "Response"} =>
                               out[i].clientNonce = c.nonce
    /\ g.challengeSent =>
         /\ g.clientNonce = c.nonce /\ c.nonce \in Nonce /\ g.serverNonce \in Nonce
         /\ \A i, j \in DOMAIN in :
              i < j /\ in[i].type = "Challenge" /\ in[i].serverNonce = g.serverNonce =>
                in[j].type # "Challenge"
         /\ c.serverNonce = g.serverNonce => \A i \in DOMAIN in : in[i].type # "Challenge"
         /\ \A i \in DOMAIN out :
              out[i].type = "Response" /\ out[i].serverNonce = g.serverNonce =>
                c.serverNonce = g.serverNonce
         /\ g.authenticated => c.serverNonce = g.serverNonce

Asks(m) == m.type \in {"Hello", "Response"}

\* A client that repeats nothing has one request or challenge on its way at most, none
\* once it is authenticated, and no rejection behind its acceptance.
Honest(c, g, out, in) ==
  /\ \A i, j \in DOMAIN out : Asks(out[i]) /\ Asks(out[j]) => i = j
  /\ g.authenticated => \A i \in DOMAIN out : ~Asks(out[i])
  /\ c.link = "up" =>
       /\ \A i, j \in DOMAIN in :
            in[i].type = "Challenge" /\ in[j].type = "Challenge" => i = j
       /\ \A i \in DOMAIN in : in[i].type = "Challenge" =>
            ~g.authenticated /\ \A k \in DOMAIN out : ~Asks(out[k])
       /\ c.auth = "accepted" => \A i \in DOMAIN in : in[i].type # "Reject"
       /\ \A i, j \in DOMAIN in : i < j /\ in[i].type = "Accept" => in[j].type # "Reject"

Awaits(g, m) ==
  /\ HasPendingChallenge(g)
  /\ g.clientNonce = m.clientNonce
  /\ g.serverNonce = m.serverNonce

\* Without components in its scene such a client is refused once on a link at most.
Unsuspected(c, g, out, in) ==
  /\ ~g.blocked
  /\ \A i \in DOMAIN out :
       /\ out[i].type = "ClientUpdate" => g.authenticated
       /\ out[i].type = "Response" => Awaits(g, out[i])
       /\ Asks(out[i]) => g.invalidAttempts = 0
  /\ c.link = "up" =>
       /\ \A i \in DOMAIN in :
            in[i].type = "Challenge" => Awaits(g, in[i]) /\ g.invalidAttempts = 0
       /\ c.nonce = NoNonce => g.invalidAttempts = 0

Slot(p, c, g, l, out, in) ==
  /\ c \in Client /\ g \in Gate /\ l \in BOOLEAN
  /\ out \in Seq(ClientMessage) /\ in \in Seq(ServerMessage)
  /\ Vacant(c, g, l, out, in)
  /\ Stopped(c, g, out)
  /\ Matching(c, g, out, in)
  /\ p \notin Faulty => Honest(c, g, out, in)
  /\ p \notin Faulty /\ ~SceneComponents => Unsuspected(c, g, out, in)

SlotOf(p) == Slot(p, client[p], gate[p], p \in linked, toServer[p], toClient[p])

IInv ==
  /\ TypeOK
  /\ \A p \in Peer : SlotOf(p)
  /\ AdmittedAreAuthenticated
  /\ PendingBounded

-----------------------------------------------------------------------------
\* Elements of the sequences that Append, Tail and \o make.
LEMMA TailElements ==
  ASSUME NEW S, NEW s \in Seq(S), s # <<>>
  PROVE  /\ Tail(s) \in Seq(S) /\ 1 \in DOMAIN s /\ Head(s) = s[1] /\ s[1] \in S
         /\ \A i \in DOMAIN Tail(s) : /\ i \in Nat \ {0} /\ i + 1 \in DOMAIN s
                                      /\ Tail(s)[i] = s[i + 1]
  OBVIOUS

LEMMA ConcatElements ==
  ASSUME NEW S, NEW s \in Seq(S), NEW t \in Seq(S)
  PROVE  /\ s \o t \in Seq(S)
         /\ DOMAIN s \subseteq Nat
         /\ \A i \in DOMAIN (s \o t) :
              \/ i \in DOMAIN s /\ (s \o t)[i] = s[i]
              \/ /\ i \notin DOMAIN s /\ \A j \in DOMAIN s : j < i
                 /\ i - Len(s) \in DOMAIN t /\ (s \o t)[i] = t[i - Len(s)]
  OBVIOUS

LEMMA AppendElements ==
  ASSUME NEW S, NEW s \in Seq(S), NEW e \in S
  PROVE  /\ s \o <<e>> \in Seq(S)
         /\ DOMAIN s \subseteq Nat
         /\ \A i \in DOMAIN (s \o <<e>>) :
              \/ i \in DOMAIN s /\ (s \o <<e>>)[i] = s[i]
              \/ i = Len(s) + 1 /\ (\A j \in DOMAIN s : j < i) /\ (s \o <<e>>)[i] = e
  OBVIOUS

-----------------------------------------------------------------------------
\* What the client's side does to the slot.
LEMMA SlotLinkUp ==
  ASSUME NEW p, NEW c, NEW g, NEW l, NEW out, NEW in, Slot(p, c, g, l, out, in),
         c.link = "pending"
  PROVE  Slot(p, [c EXCEPT !.link = "up"], g, l, out, in)
<1>1. ~l /\ c.auth = "none" /\ in = <<>> /\ out = <<>> /\ g = FreshGate
  BY DEF Slot, Vacant
<1>2. [c EXCEPT !.link = "up"] \in Client
  BY DEF Slot, Client
<1> QED
  BY <1>1, <1>2 DEF Slot, Vacant, Stopped, Matching, Honest, Unsuspected, FreshGate, Client

LEMMA SlotConnects ==
  ASSUME NEW p, NEW c, NEW g, NEW l, NEW out, NEW in, Slot(p, c, g, l, out, in),
         c.link = "up"
  PROVE  Slot(p, c, g, TRUE, out, in)
  BY DEF Slot, Vacant

LEMMA SlotCut ==
  ASSUME NEW p, NEW c, NEW g, NEW l, NEW out, NEW in, Slot(p, c, g, l, out, in),
         c.link = "up"
  PROVE  Slot(p, [c EXCEPT !.link = "cut"], g, l, out, in)
<1>1. [c EXCEPT !.link = "cut"] \in Client
  BY DEF Slot, Client
<1> QED
  BY <1>1 DEF Slot, Vacant, Stopped, Matching, Honest, Unsuspected, Client

\* A client that leaves its link, or the session, whatever else it forgets.
LEMMA SlotLinkDown ==
  ASSUME NEW p, NEW c, NEW g, NEW l, NEW out, NEW in, Slot(p, c, g, l, out, in),
         NEW d \in Client, d.link = "down", d.fit \in {c.fit, "fit"},
         d.phase = "connecting" => d.nonce = NoNonce
  PROVE  Slot(p, d, g, l, IF ~l THEN <<>> ELSE out, <<>>)
<1>1. (IF ~l THEN <<>> ELSE out) \in Seq(ClientMessage) /\ <<>> \in Seq(ServerMessage)
  BY DEF Slot
<1>2. CASE l
  BY <1>1, <1>2 DEF Slot, Vacant, Stopped, Matching, Honest, Unsuspected
<1>3. CASE ~l
  BY <1>1, <1>3 DEF Slot, Vacant, Stopped, Matching, Honest, Unsuspected, FreshGate
<1> QED BY <1>2, <1>3 DEF Slot

LEMMA SlotStart ==
  ASSUME NEW p, NEW c, NEW g, NEW l, NEW out, NEW in, Slot(p, c, g, l, out, in),
         c.phase = "idle", ~l, NEW f \in {"fit", "unfit", "wary"}
  PROVE  Slot(p, [IdleClient EXCEPT !.phase = "connecting", !.link = "pending", !.fit = f],
              g, l, out, in)
<1> DEFINE d == [IdleClient EXCEPT !.phase = "connecting", !.link = "pending", !.fit = f]
<1>1. d \in Client /\ d.phase = "connecting" /\ d.link = "pending" /\ d.auth = "none"
        /\ d.nonce = NoNonce
  BY DEF IdleClient, Client
<1>2. in = <<>> /\ out = <<>> /\ g = FreshGate
  BY DEF Slot, Vacant
<1> HIDE DEF d
<1>3. Slot(p, d, g, l, out, in)
  BY <1>1, <1>2 DEF Slot, Vacant, Stopped, Matching, Honest, Unsuspected, FreshGate
<1> QED BY <1>3 DEF d

LEMMA SlotBegin ==
  ASSUME NEW p, NEW c, NEW g, NEW l, NEW out, NEW in, Slot(p, c, g, l, out, in),
         c.phase = "connecting", c.link \in {"up", "cut"}, NEW n \in Nonce
  PROVE  Slot(p, [c EXCEPT !.phase = "begun", !.auth = "pending", !.nonce = n,
                           !.serverNonce = NoNonce, !.held = {}],
              g, l, IF c.link = "up" THEN out \o <<Hello(c.fit, n)>> ELSE out, in)
<1> DEFINE d == [c EXCEPT !.phase = "begun", !.auth = "pending", !.nonce = n,
                          !.serverNonce = NoNonce, !.held = {}]
           h == Hello(c.fit, n)
<1>1. d \in Client /\ d.phase = "begun" /\ d.link = c.link /\ d.auth = "pending"
        /\ d.nonce = n /\ d.fit = c.fit
  BY DEF Slot, Client
<1>2. h \in ClientMessage /\ h.type = "Hello" /\ h.fit = c.fit /\ h.clientNonce = n
  BY ClientPackets DEF Hello, Slot, Client
<1>3. c.nonce = NoNonce /\ c.nonce \notin Nonce
  BY NoNonceIsNone DEF Slot, Vacant
<1> HIDE DEF d, h
<1>4. CASE c.link = "cut"
  <2>1. Vacant(d, g, l, out, in) /\ Stopped(d, g, out) /\ Matching(d, g, out, in)
    BY <1>1, <1>4 DEF Slot, Vacant, Stopped, Matching
  <2>2. /\ p \notin Faulty => Honest(d, g, out, in)
        /\ p \notin Faulty /\ ~SceneComponents => Unsuspected(d, g, out, in)
    BY <1>1, <1>4 DEF Slot, Honest, Unsuspected
  <2> QED BY <1>1, <1>4, <2>1, <2>2 DEF Slot, d
<1>5. CASE c.link = "up"
  <2> DEFINE ext == out \o <<h>>
  <2>1. \A i \in DOMAIN out : ~Asks(out[i])
    <3>1. \A i \in DOMAIN out : Asks(out[i]) => out[i].clientNonce \in Nonce
      BY ClientPackets DEF Slot, Asks
    <3> QED BY <1>3, <1>5, <3>1 DEF Slot, Matching, Asks
  <2>2. \A i \in DOMAIN in : in[i].type # "Challenge"
    <3>1. \A i \in DOMAIN in : in[i].type = "Challenge" => in[i].clientNonce \in Nonce
      BY ServerPackets DEF Slot
    <3> QED BY <1>3, <1>5, <3>1 DEF Slot, Matching
  <2>3. ~g.challengeSent /\ ~g.authenticated
    BY <1>3, <1>5 DEF Slot, Matching
  <2>4. /\ ext \in Seq(ClientMessage)
        /\ \A i \in DOMAIN ext : \/ i \in DOMAIN out /\ ext[i] = out[i]
                                 \/ i = Len(out) + 1 /\ ext[i] = h
    BY <1>2, AppendElements DEF Slot
  <2> HIDE DEF ext
  <2>5. Vacant(d, g, l, ext, in) /\ Stopped(d, g, ext)
    BY <1>1, <1>2, <1>5, <2>4 DEF Slot, Vacant, Stopped
  <2>6. Matching(d, g, ext, in)
    BY <1>1, <1>2, <1>5, <2>1, <2>2, <2>3, <2>4 DEF Slot, Matching, Asks
  <2>7. p \notin Faulty => Honest(d, g, ext, in)
    BY <1>1, <1>2, <1>5, <2>1, <2>2, <2>3, <2>4 DEF Slot, Honest, Asks
  <2>8. p \notin Faulty /\ ~SceneComponents => Unsuspected(d, g, ext, in)
    BY <1>1, <1>2, <1>3, <1>5, <2>1, <2>2, <2>4 DEF Slot, Unsuspected, Asks
  <2> QED BY <1>1, <1>5, <2>4, <2>5, <2>6, <2>7, <2>8 DEF Slot, ext, d, h
<1> QED BY <1>4, <1>5 DEF d, h

\* A packet that is read and not answered.
LEMMA SlotReads ==
  ASSUME NEW p, NEW c, NEW g, NEW l, NEW out, NEW in, Slot(p, c, g, l, out, in),
         c.link \in {"up", "cut"}, in # <<>>, NEW d \in Client,
         d.phase = c.phase, d.link = c.link, d.fit = c.fit, d.nonce = c.nonce,
         d.serverNonce = c.serverNonce,
         \/ d.auth \in {c.auth, "rejected"}
         \/ d.auth = "accepted" /\ Head(in).type = "Accept"
  PROVE  Slot(p, d, g, l, out, Tail(in))
<1> DEFINE rest == Tail(in)
<1>1. /\ rest \in Seq(ServerMessage) /\ 1 \in DOMAIN in /\ Head(in) = in[1]
      /\ \A i \in DOMAIN rest : /\ i \in Nat \ {0} /\ i + 1 \in DOMAIN in
                                /\ rest[i] = in[i + 1]
  BY TailElements DEF Slot
<1>2. d.auth = "accepted" => c.auth = "accepted" \/ in[1].type = "Accept"
  BY <1>1
<1> HIDE DEF rest
<1>3. Vacant(d, g, l, out, rest) /\ Stopped(d, g, out)
  BY <1>1 DEF Slot, Vacant, Stopped
<1>4. Matching(d, g, out, rest)
  <2>1. \A i, j \in DOMAIN rest : i < j => i + 1 < j + 1
    BY <1>1
  <2> QED BY <1>1, <1>2, <2>1 DEF Slot, Matching
<1>5. p \notin Faulty => Honest(d, g, out, rest)
  <2>1. SUFFICES ASSUME p \notin Faulty, c.link = "up"
                 PROVE  Honest(d, g, out, rest)
    BY DEF Slot, Honest
  <2>2. Honest(c, g, out, in)
    BY <2>1 DEF Slot
  <2>3. \A i, j \in DOMAIN rest :
          rest[i].type = "Challenge" /\ rest[j].type = "Challenge" => i = j
    <3>1. \A i, j \in DOMAIN rest : i + 1 = j + 1 => i = j
      BY <1>1
    <3> QED BY <1>1, <2>1, <2>2, <3>1 DEF Honest
  <2>4. \A i \in DOMAIN rest : 1 < i + 1
    BY <1>1
  <2>5. \A i, j \in DOMAIN rest : i < j => i + 1 < j + 1
    BY <1>1
  <2> QED BY <1>1, <1>2, <2>1, <2>2, <2>3, <2>4, <2>5 DEF Honest
<1>6. p \notin Faulty /\ ~SceneComponents => Unsuspected(d, g, out, rest)
  BY <1>1 DEF Slot, Unsuspected
<1> QED BY <1>1, <1>3, <1>4, <1>5, <1>6 DEF Slot, rest

\* The challenge it has been waiting for is answered.
LEMMA SlotAnswers ==
  ASSUME NEW p, NEW c, NEW g, NEW l, NEW out, NEW in, Slot(p, c, g, l, out, in),
         c.link \in {"up", "cut"}, in # <<>>, Head(in).type = "Challenge",
         c.auth = "pending", Head(in).clientNonce = c.nonce
  PROVE  LET r == Response(c.nonce, Head(in).serverNonce)
         IN  Slot(p, [c EXCEPT !.serverNonce = Head(in).serverNonce], g, l,
                  IF c.link = "up" THEN out \o <<r>> ELSE out, Tail(in))
<1> DEFINE m == Head(in)
           rest == Tail(in)
           d == [c EXCEPT !.serverNonce = m.serverNonce]
           r == Response(c.nonce, m.serverNonce)
           ext == out \o <<r>>
<1>1. /\ rest \in Seq(ServerMessage) /\ 1 \in DOMAIN in /\ m = in[1] /\ m \in ServerMessage
      /\ \A i \in DOMAIN rest : /\ i \in Nat \ {0} /\ i + 1 \in DOMAIN in
                                /\ rest[i] = in[i + 1]
  BY TailElements DEF Slot
<1>2. m.serverNonce \in Nonce /\ m.clientNonce = c.nonce /\ m.clientNonce \in Nonce
        /\ m.type = "Challenge"
  BY <1>1, ServerPackets
<1>3. d \in Client /\ d.phase = c.phase /\ d.link = c.link /\ d.fit = c.fit
        /\ d.nonce = c.nonce /\ d.serverNonce = m.serverNonce /\ d.auth = "pending"
  BY <1>2 DEF Slot, Client
<1>4. /\ r \in ClientMessage /\ r.type = "Response" /\ r.clientNonce = c.nonce
      /\ r.serverNonce = m.serverNonce
  BY <1>2, ClientPackets DEF Response
<1>5. /\ ext \in Seq(ClientMessage)
      /\ \A i \in DOMAIN ext : \/ i \in DOMAIN out /\ ext[i] = out[i]
                               \/ i = Len(out) + 1 /\ ext[i] = r
  BY <1>4, AppendElements DEF Slot
<1>6. \A i, j \in DOMAIN rest : /\ i < j => i + 1 < j + 1
                                /\ i + 1 = j + 1 => i = j
                                /\ 1 < i + 1
  BY <1>1
<1> HIDE DEF m, rest, d, r, ext
<1>7. CASE c.link = "cut"
  <2>1. Vacant(d, g, l, out, rest) /\ Stopped(d, g, out) /\ Matching(d, g, out, rest)
    BY <1>3, <1>7 DEF Slot, Vacant, Stopped, Matching
  <2>2. /\ p \notin Faulty => Honest(d, g, out, rest)
        /\ p \notin Faulty /\ ~SceneComponents => Unsuspected(d, g, out, rest)
    BY <1>3, <1>7 DEF Slot, Honest, Unsuspected
  <2> QED BY <1>1, <1>3, <1>7, <2>1, <2>2 DEF Slot, m, rest, d, r
<1>8. CASE c.link = "up"
  <2>1. Vacant(d, g, l, ext, rest) /\ Stopped(d, g, ext)
    BY <1>1, <1>3, <1>4, <1>5, <1>8 DEF Slot, Vacant, Stopped
  <2>2. Matching(d, g, ext, rest)
    <3>1. Matching(c, g, out, in)
      BY DEF Slot
    <3>2. g.challengeSent /\ m.serverNonce = g.serverNonce =>
            \A i \in DOMAIN rest : rest[i].type # "Challenge"
      BY <1>1, <1>2, <1>6, <1>8, <3>1 DEF Matching
    <3>3. g.challengeSent => c.serverNonce # g.serverNonce /\ ~g.authenticated
      BY <1>1, <1>2, <1>8, <3>1 DEF Matching
    <3>4. /\ g.authenticated => d.nonce # NoNonce
          /\ \A i \in DOMAIN rest : rest[i].type = "Accept" => g.authenticated
          /\ \A i \in DOMAIN rest : rest[i].type = "Challenge" => rest[i].clientNonce = d.nonce
          /\ \A i \in DOMAIN ext : ext[i].type \in {"Hello", "Response"} =>
                                      ext[i].clientNonce = d.nonce
      BY <1>1, <1>3, <1>4, <1>5, <1>8, <3>1 DEF Matching
    <3>5. ASSUME g.challengeSent
          PROVE  /\ g.clientNonce = d.nonce /\ d.nonce \in Nonce /\ g.serverNonce \in Nonce
                 /\ \A i, j \in DOMAIN rest :
                      i < j /\ rest[i].type = "Challenge"
                        /\ rest[i].serverNonce = g.serverNonce => rest[j].type # "Challenge"
      BY <1>1, <1>3, <1>6, <1>8, <3>1, <3>5 DEF Matching
    <3>6. ASSUME g.challengeSent
          PROVE  \A i \in DOMAIN ext :
                   ext[i].type = "Response" /\ ext[i].serverNonce = g.serverNonce =>
                     d.serverNonce = g.serverNonce
      BY <1>3, <1>4, <1>5, <1>8, <3>1, <3>3, <3>6 DEF Matching
    <3> QED BY <1>3, <3>2, <3>3, <3>4, <3>5, <3>6 DEF Matching
  <2>3. p \notin Faulty => Honest(d, g, ext, rest)
    <3> SUFFICES ASSUME p \notin Faulty
                 PROVE  Honest(d, g, ext, rest)
      OBVIOUS
    <3>1. Honest(c, g, out, in)
      BY DEF Slot
    <3>2. ~g.authenticated /\ \A k \in DOMAIN out : ~Asks(out[k])
      BY <1>1, <1>2, <1>8, <3>1 DEF Honest
    <3>3. \A i \in DOMAIN rest : rest[i].type # "Challenge"
      BY <1>1, <1>2, <1>6, <1>8, <3>1 DEF Honest
    <3> QED BY <1>1, <1>3, <1>4, <1>5, <1>6, <1>8, <3>1, <3>2, <3>3 DEF Honest
  <2>4. p \notin Faulty /\ ~SceneComponents => Unsuspected(d, g, ext, rest)
    <3> SUFFICES ASSUME p \notin Faulty, ~SceneComponents
                 PROVE  Unsuspected(d, g, ext, rest)
      OBVIOUS
    <3>1. Unsuspected(c, g, out, in)
      BY DEF Slot
    <3>2. Awaits(g, m) /\ g.invalidAttempts = 0
      BY <1>1, <1>2, <1>8, <3>1 DEF Unsuspected
    <3>3. Awaits(g, r)
      BY <1>2, <1>4, <3>2 DEF Awaits
    <3> QED BY <1>1, <1>3, <1>4, <1>5, <1>8, <3>1, <3>2, <3>3 DEF Unsuspected
  <2> QED BY <1>1, <1>3, <1>5, <1>8, <2>1, <2>2, <2>3, <2>4 DEF Slot, m, rest, d, r, ext
<1> QED BY <1>7, <1>8, <1>3 DEF Slot, Client, m, rest, d, r, ext

\* A packet the client sends without having been asked.
LEMMA SlotSends ==
  ASSUME NEW p, NEW c, NEW g, NEW l, NEW out, NEW in, Slot(p, c, g, l, out, in),
         c.link = "up", NEW m \in ClientMessage,
         \/ m = ClientUpdate /\ (c.auth = "accepted" \/ SceneComponents)
         \/ p \in Faulty /\ m = Hello(c.fit, c.nonce)
         \/ p \in Faulty /\ m = Response(c.nonce, c.serverNonce)
  PROVE  Slot(p, c, g, l, out \o <<m>>, in)
<1> DEFINE ext == out \o <<m>>
<1>1. /\ ext \in Seq(ClientMessage)
      /\ \A i \in DOMAIN ext : \/ i \in DOMAIN out /\ ext[i] = out[i]
                               \/ i = Len(out) + 1 /\ ext[i] = m
  BY AppendElements DEF Slot
<1>2. /\ m.type \in {"Hello", "Response", "ClientUpdate"}
      /\ m.type = "Hello" => p \in Faulty /\ m.fit = c.fit /\ m.clientNonce = c.nonce
      /\ m.type = "Response" => /\ p \in Faulty /\ m.clientNonce = c.nonce
                                /\ m.serverNonce = c.serverNonce
      /\ m.type = "ClientUpdate" => c.auth = "accepted" \/ SceneComponents
  BY DEF ClientUpdate, Hello, Response
<1> HIDE DEF ext
<1>3. Vacant(c, g, l, ext, in) /\ Stopped(c, g, ext)
  BY <1>1, <1>2 DEF Slot, Vacant, Stopped
<1>4. Matching(c, g, ext, in)
  BY <1>1, <1>2 DEF Slot, Matching
<1>5. p \notin Faulty => Honest(c, g, ext, in)
  BY <1>1, <1>2 DEF Slot, Honest, Asks
<1>6. p \notin Faulty /\ ~SceneComponents => Unsuspected(c, g, ext, in)
  <2>1. c.auth = "accepted" => g.authenticated
    BY DEF Slot, Matching
  <2> QED BY <1>1, <1>2, <2>1 DEF Slot, Unsuspected, Asks
<1> QED BY <1>1, <1>3, <1>4, <1>5, <1>6 DEF Slot, ext

-----------------------------------------------------------------------------
\* What the server's side does to the slot.

\* A packet that is refused; h is the gate after the attempt was counted, or not.
LEMMA SlotRefused ==
  ASSUME NEW p, NEW c, NEW g, NEW out, NEW in, Slot(p, c, g, TRUE, out, in),
         out # <<>>, Asks(Head(out)) \/ ~g.authenticated,
         NEW h \in Gate, h.authenticated = g.authenticated,
         h.challengeSent => /\ g.challengeSent
                            /\ h.clientNonce = g.clientNonce /\ h.serverNonce = g.serverNonce,
         p \notin Faulty /\ ~SceneComponents => Asks(Head(out)) /\ ~h.blocked
  PROVE  Slot(p, c, h, TRUE, Tail(out), IF c.link = "up" THEN in \o <<Reject>> ELSE in)
<1> DEFINE m == Head(out)
           rest == Tail(out)
           ext == IF c.link = "up" THEN in \o <<Reject>> ELSE in
<1>1. /\ rest \in Seq(ClientMessage) /\ 1 \in DOMAIN out /\ m = out[1] /\ m \in ClientMessage
      /\ \A i \in DOMAIN rest : /\ i \in Nat \ {0} /\ i + 1 \in DOMAIN out
                                /\ rest[i] = out[i + 1]
  BY TailElements DEF Slot
<1>2. /\ ext \in Seq(ServerMessage)
      /\ c.link = "up" =>
           \A i \in DOMAIN ext : \/ i \in DOMAIN in /\ ext[i] = in[i]
                                 \/ /\ i = Len(in) + 1 /\ (\A j \in DOMAIN in : j < i)
                                    /\ ext[i].type = "Reject"
      /\ c.link # "up" => ext = in
  BY AppendElements, ServerPackets DEF Slot, Reject
<1>3. \A i, j \in DOMAIN rest : i + 1 = j + 1 => i = j
  BY <1>1
<1>4. \A i \in DOMAIN rest : 1 # i + 1
  BY <1>1
<1>5. \A i, j \in DOMAIN in : i \in Nat /\ j \in Nat
  BY DEF Slot
<1> HIDE DEF m, rest, ext
<1>6. Vacant(c, h, TRUE, rest, ext) /\ Stopped(c, h, rest)
  BY <1>1, <1>2 DEF Slot, Vacant, Stopped
<1>7. Matching(c, h, rest, ext)
  <2> SUFFICES ASSUME c.link = "up"
               PROVE  Matching(c, h, rest, ext)
    BY DEF Matching
  <2>1. Matching(c, g, out, in)
    BY DEF Slot
  <2>2. /\ c.auth = "accepted" => h.authenticated
        /\ h.authenticated => c.nonce # NoNonce
        /\ \A i \in DOMAIN ext : ext[i].type = "Accept" => h.authenticated
        /\ \A i \in DOMAIN ext : ext[i].type = "Challenge" => ext[i].clientNonce = c.nonce
        /\ \A i \in DOMAIN rest : rest[i].type \in {"Hello", "Response"} =>
                                    rest[i].clientNonce = c.nonce
    BY <1>1, <1>2, <2>1 DEF Matching
  <2>3. ASSUME h.challengeSent
        PROVE  /\ h.clientNonce = c.nonce /\ c.nonce \in Nonce /\ h.serverNonce \in Nonce
               /\ \A i, j \in DOMAIN ext :
                    i < j /\ ext[i].type = "Challenge" /\ ext[i].serverNonce = h.serverNonce =>
                      ext[j].type # "Challenge"
               /\ c.serverNonce = h.serverNonce =>
                    \A i \in DOMAIN ext : ext[i].type # "Challenge"
    BY <1>2, <1>5, <2>1, <2>3 DEF Matching
  <2>4. ASSUME h.challengeSent
        PROVE  /\ \A i \in DOMAIN rest :
                    rest[i].type = "Response" /\ rest[i].serverNonce = h.serverNonce =>
                      c.serverNonce = h.serverNonce
               /\ h.authenticated => c.serverNonce = h.serverNonce
    BY <1>1, <2>1, <2>4 DEF Matching
  <2> QED BY <2>2, <2>3, <2>4 DEF Matching
<1>8. p \notin Faulty => Honest(c, h, rest, ext)
  <2> SUFFICES ASSUME p \notin Faulty
               PROVE  Honest(c, h, rest, ext)
    OBVIOUS
  <2>1. Honest(c, g, out, in) /\ Matching(c, g, out, in)
    BY DEF Slot
  <2>2. ~g.authenticated
    BY <1>1, <2>1 DEF Honest, m
  <2>3. \A i, j \in DOMAIN rest : Asks(rest[i]) /\ Asks(rest[j]) => i = j
    BY <1>1, <1>3, <2>1 DEF Honest
  <2>4. c.link = "up" => /\ c.auth # "accepted"
                         /\ \A i \in DOMAIN in : in[i].type # "Accept"
    BY <2>1, <2>2 DEF Matching
  <2>5. c.link = "up" =>
          /\ \A i, j \in DOMAIN ext :
               ext[i].type = "Challenge" /\ ext[j].type = "Challenge" => i = j
          /\ \A i \in DOMAIN ext : ext[i].type # "Accept"
          /\ \A i \in DOMAIN ext : ext[i].type = "Challenge" =>
               \A k \in DOMAIN rest : ~Asks(rest[k])
    BY <1>1, <1>2, <2>1, <2>4 DEF Honest
  <2> QED BY <2>2, <2>3, <2>4, <2>5 DEF Honest
<1>9. p \notin Faulty /\ ~SceneComponents => Unsuspected(c, h, rest, ext)
  <2> SUFFICES ASSUME p \notin Faulty, ~SceneComponents
               PROVE  Unsuspected(c, h, rest, ext)
    OBVIOUS
  <2>1. Honest(c, g, out, in) /\ Matching(c, g, out, in) /\ Unsuspected(c, g, out, in)
    BY DEF Slot
  <2>2. Asks(m) /\ ~h.blocked
    BY DEF m
  <2>3. \A i \in DOMAIN rest : ~Asks(rest[i])
    BY <1>1, <1>4, <2>1, <2>2 DEF Honest
  <2>4. \A i \in DOMAIN rest : rest[i].type = "ClientUpdate" => h.authenticated
    BY <1>1, <2>1 DEF Unsuspected
  <2>5. c.link = "up" => \A i \in DOMAIN ext : ext[i].type # "Challenge"
    BY <1>1, <1>2, <2>1, <2>2 DEF Honest
  <2>6. c.link = "up" => c.nonce # NoNonce
    <3>1. m.clientNonce \in Nonce
      BY <1>1, <2>2, ClientPackets DEF Asks
    <3> QED BY <1>1, <2>1, <2>2, <3>1, NoNonceIsNone DEF Matching, Asks
  <2> QED BY <2>2, <2>3, <2>4, <2>5, <2>6 DEF Unsuspected, Asks
<1> QED BY <1>1, <1>2, <1>6, <1>7, <1>8, <1>9 DEF Slot, rest, ext

\* A hello that is answered with a challenge.
LEMMA SlotChallenged ==
  ASSUME NEW p, NEW c, NEW g, NEW out, NEW in, Slot(p, c, g, TRUE, out, in),
         out # <<>>, Head(out).type = "Hello", Head(out).fit # "unfit",
         ~g.blocked, ~IsDuplicateOrStaleHello(g),
         NEW n \in Nonce, n # c.serverNonce,
         \A i \in DOMAIN out : out[i].type = "Response" => out[i].serverNonce # n,
         \A i \in DOMAIN in : in[i].type = "Challenge" => in[i].serverNonce # n
  PROVE  LET m == Head(out)
         IN  Slot(p, c, [ResetChallenge(g) EXCEPT
                           !.authenticated = FALSE, !.challengeSent = TRUE,
                           !.clientNonce = m.clientNonce, !.serverNonce = n],
                  TRUE, Tail(out),
                  IF c.link = "up" THEN in \o <<Challenge(m.clientNonce, n)>> ELSE in)
<1> DEFINE m == Head(out)
           rest == Tail(out)
           e == Challenge(m.clientNonce, n)
           ext == IF c.link = "up" THEN in \o <<e>> ELSE in
           h == [ResetChallenge(g) EXCEPT
                   !.authenticated = FALSE, !.challengeSent = TRUE,
                   !.clientNonce = m.clientNonce, !.serverNonce = n]
<1>1. /\ rest \in Seq(ClientMessage) /\ 1 \in DOMAIN out /\ m = out[1] /\ m \in ClientMessage
      /\ \A i \in DOMAIN rest : /\ i \in Nat \ {0} /\ i + 1 \in DOMAIN out
                                /\ rest[i] = out[i + 1]
  BY TailElements DEF Slot
<1>2. m.clientNonce \in Nonce /\ m.type = "Hello" /\ m.fit # "unfit"
  BY <1>1, ClientPackets
<1>3. /\ e \in ServerMessage /\ e.type = "Challenge" /\ e.clientNonce = m.clientNonce
      /\ e.serverNonce = n
  BY <1>2, ServerPackets DEF Challenge
<1>4. /\ ext \in Seq(ServerMessage)
      /\ c.link = "up" =>
           \A i \in DOMAIN ext : \/ i \in DOMAIN in /\ ext[i] = in[i]
                                 \/ /\ i = Len(in) + 1 /\ (\A j \in DOMAIN in : j < i)
                                    /\ ext[i] = e
      /\ c.link # "up" => ext = in
  BY <1>3, AppendElements DEF Slot
<1>5. /\ h \in Gate /\ ~h.authenticated /\ h.challengeSent /\ ~h.challengeConsumed /\ ~h.blocked
      /\ h.clientNonce = m.clientNonce /\ h.serverNonce = n
      /\ h.invalidAttempts = g.invalidAttempts
  <2>1. ResetChallenge(g) \in Gate
    BY GateOperations DEF Slot
  <2>2. /\ ResetChallenge(g).blocked = g.blocked
        /\ ResetChallenge(g).invalidAttempts = g.invalidAttempts
        /\ ~ResetChallenge(g).challengeConsumed
    BY DEF ResetChallenge, Slot, Gate
  <2> QED BY <1>2, <2>1, <2>2 DEF Gate
<1>6. \A i, j \in DOMAIN rest : 1 # i + 1 /\ (i + 1 = j + 1 => i = j)
  BY <1>1
<1>7. \A i \in DOMAIN in : i \in Nat
  BY DEF Slot
<1>8. ~g.authenticated /\ ~g.challengeSent
  BY DEF IsDuplicateOrStaleHello, HasPendingChallenge, Slot, Gate
<1>9. c.fit # "unfit"
  BY <1>1, <1>2 DEF Slot, Stopped
<1> HIDE DEF m, rest, e, ext, h
<1>10. Vacant(c, h, TRUE, rest, ext) /\ Stopped(c, h, rest)
  BY <1>1, <1>4, <1>9 DEF Slot, Vacant, Stopped
<1>11. Matching(c, h, rest, ext)
  <2> SUFFICES ASSUME c.link = "up"
               PROVE  Matching(c, h, rest, ext)
    BY DEF Matching
  <2>1. Matching(c, g, out, in)
    BY DEF Slot
  <2>2. m.clientNonce = c.nonce /\ c.nonce \in Nonce
    BY <1>1, <1>2, <2>1 DEF Matching
  <2>3. c.auth # "accepted" /\ \A i \in DOMAIN ext : ext[i].type # "Accept"
    BY <1>3, <1>4, <1>8, <2>1 DEF Matching
  <2>4. /\ \A i \in DOMAIN ext : ext[i].type = "Challenge" => ext[i].clientNonce = c.nonce
        /\ \A i \in DOMAIN rest : rest[i].type \in {"Hello", "Response"} =>
                                    rest[i].clientNonce = c.nonce
    BY <1>1, <1>3, <1>4, <2>1, <2>2 DEF Matching
  <2>5. \A i, j \in DOMAIN ext :
          i < j /\ ext[i].type = "Challenge" /\ ext[i].serverNonce = n =>
            ext[j].type # "Challenge"
    BY <1>4, <1>7
  <2>6. \A i \in DOMAIN rest : rest[i].type = "Response" => rest[i].serverNonce # n
    BY <1>1
  <2> QED BY <1>5, <2>2, <2>3, <2>4, <2>5, <2>6 DEF Matching
<1>12. p \notin Faulty =>
         /\ \A i \in DOMAIN rest : ~Asks(rest[i])
         /\ c.link = "up" => \A i \in DOMAIN in : in[i].type # "Challenge"
  BY <1>1, <1>2, <1>6 DEF Slot, Honest, Asks
<1>13. p \notin Faulty => Honest(c, h, rest, ext)
  <2> SUFFICES ASSUME p \notin Faulty
               PROVE  Honest(c, h, rest, ext)
    OBVIOUS
  <2>1. c.link = "up" => c.auth # "accepted" /\ \A i \in DOMAIN ext : ext[i].type # "Accept"
    BY <1>3, <1>4, <1>8 DEF Slot, Matching
  <2>2. c.link = "up" => \A i, j \in DOMAIN ext :
          ext[i].type = "Challenge" /\ ext[j].type = "Challenge" => i = j
    BY <1>4, <1>12
  <2> QED BY <1>5, <1>12, <2>1, <2>2 DEF Honest
<1>14. p \notin Faulty /\ ~SceneComponents => Unsuspected(c, h, rest, ext)
  <2> SUFFICES ASSUME p \notin Faulty, ~SceneComponents
               PROVE  Unsuspected(c, h, rest, ext)
    OBVIOUS
  <2>1. Unsuspected(c, g, out, in)
    BY DEF Slot
  <2>2. g.invalidAttempts = 0
    BY <1>1, <1>2, <2>1 DEF Unsuspected, Asks
  <2>3. \A i \in DOMAIN rest : rest[i].type \notin {"ClientUpdate", "Hello", "Response"}
    BY <1>1, <1>8, <1>12, <2>1 DEF Unsuspected, Asks
  <2>4. Awaits(h, e)
    BY <1>3, <1>5 DEF Awaits, HasPendingChallenge
  <2> QED BY <1>4, <1>5, <1>12, <2>2, <2>3, <2>4 DEF Unsuspected, Asks
<1> QED BY <1>1, <1>4, <1>5, <1>10, <1>11, <1>13, <1>14 DEF Slot, m, rest, e, ext, h

\* The response that passes the gate: Accept, the replay of the world, the player.
LEMMA SlotAdmitted ==
  ASSUME NEW p, NEW c, NEW g, NEW out, NEW in, Slot(p, c, g, TRUE, out, in),
         out # <<>>, Head(out).type = "Response",
         ~IsDuplicateOrStaleResponse(g), ~NonceMismatch(g, Head(out)),
         NEW msgs \in Seq(ServerMessage),
         \A i \in DOMAIN msgs : msgs[i].type \in {"Accept", "Spawn"}
  PROVE  Slot(p, c, PassGate(g), TRUE, Tail(out), IF c.link = "up" THEN in \o msgs ELSE in)
<1> DEFINE m == Head(out)
           rest == Tail(out)
           ext == IF c.link = "up" THEN in \o msgs ELSE in
           h == PassGate(g)
<1>1. /\ rest \in Seq(ClientMessage) /\ 1 \in DOMAIN out /\ m = out[1] /\ m \in ClientMessage
      /\ \A i \in DOMAIN rest : /\ i \in Nat \ {0} /\ i + 1 \in DOMAIN out
                                /\ rest[i] = out[i + 1]
  BY TailElements DEF Slot
<1>2. /\ m.clientNonce \in Nonce /\ m.serverNonce \in Nonce /\ m.type = "Response"
      /\ m.clientNonce = g.clientNonce /\ m.serverNonce = g.serverNonce
  BY <1>1, ClientPackets DEF NonceMismatch
<1>3. /\ ext \in Seq(ServerMessage)
      /\ c.link = "up" =>
           \A i \in DOMAIN ext :
             \/ i \in DOMAIN in /\ ext[i] = in[i]
             \/ (\A j \in DOMAIN in : j < i) /\ ext[i].type \in {"Accept", "Spawn"}
      /\ c.link # "up" => ext = in
  BY ConcatElements DEF Slot
<1>4. /\ h \in Gate /\ h.authenticated /\ h.challengeSent
      /\ h.clientNonce = g.clientNonce /\ h.serverNonce = g.serverNonce
      /\ h.blocked = g.blocked /\ h.invalidAttempts = g.invalidAttempts
  BY GateOperations DEF Slot, PassGate, Gate, IsDuplicateOrStaleResponse
<1>5. \A i, j \in DOMAIN rest : 1 # i + 1 /\ (i + 1 = j + 1 => i = j)
  BY <1>1
<1>6. g.challengeSent /\ ~g.authenticated
  BY DEF IsDuplicateOrStaleResponse, Slot, Gate
<1>7. c.fit # "unfit"
  BY <1>6 DEF Slot, Stopped
<1> HIDE DEF m, rest, ext, h
<1>8. Vacant(c, h, TRUE, rest, ext) /\ Stopped(c, h, rest)
  BY <1>1, <1>3, <1>7 DEF Slot, Vacant, Stopped
<1>9. c.link = "up" => /\ c.serverNonce = g.serverNonce /\ c.nonce \in Nonce
                       /\ g.clientNonce = c.nonce
                       /\ \A i \in DOMAIN in : in[i].type \notin {"Challenge", "Accept"}
                       /\ c.auth # "accepted"
  BY <1>1, <1>2, <1>6 DEF Slot, Matching
<1>10. c.link = "up" => \A i \in DOMAIN ext : ext[i].type # "Challenge"
  BY <1>3, <1>9
<1>11. Matching(c, h, rest, ext)
  BY <1>1, <1>2, <1>4, <1>9, <1>10, NoNonceIsNone DEF Slot, Matching
<1>12. p \notin Faulty => \A i \in DOMAIN rest : ~Asks(rest[i])
  BY <1>1, <1>2, <1>5 DEF Slot, Honest, Asks
<1>13. p \notin Faulty => Honest(c, h, rest, ext)
  <2>1. c.link = "up" => \A i, j \in DOMAIN ext :
          i < j /\ ext[i].type = "Accept" => ext[j].type # "Reject"
    <3>1. \A i \in DOMAIN in : i \in Nat
      BY DEF Slot
    <3>2. \A i \in DOMAIN ext : i \in Nat
      BY <1>3
    <3>3. SUFFICES ASSUME c.link = "up", NEW i \in DOMAIN ext, NEW j \in DOMAIN ext,
                          i < j, ext[i].type = "Accept"
                   PROVE  ext[j].type # "Reject"
      OBVIOUS
    <3>4. \A k \in DOMAIN in : k < i
      BY <1>3, <1>9, <3>3
    <3>5. j \notin DOMAIN in
      BY <3>1, <3>2, <3>3, <3>4
    <3> QED BY <1>3, <3>3, <3>5
  <2> QED BY <1>9, <1>10, <1>12, <2>1 DEF Honest
<1>14. p \notin Faulty /\ ~SceneComponents => Unsuspected(c, h, rest, ext)
  <2> SUFFICES ASSUME p \notin Faulty, ~SceneComponents
               PROVE  Unsuspected(c, h, rest, ext)
    OBVIOUS
  <2>1. Unsuspected(c, g, out, in)
    BY DEF Slot
  <2> QED BY <1>4, <1>9, <1>10, <1>12, <2>1, NoNonceIsNone DEF Unsuspected, Asks
<1> QED BY <1>1, <1>3, <1>4, <1>8, <1>11, <1>13, <1>14 DEF Slot, m, rest, ext, h

\* A packet the server takes and does not answer.
LEMMA SlotTaken ==
  ASSUME NEW p, NEW c, NEW g, NEW out, NEW in, Slot(p, c, g, TRUE, out, in), out # <<>>
  PROVE  Slot(p, c, g, TRUE, Tail(out), in)
<1> DEFINE rest == Tail(out)
<1>1. /\ rest \in Seq(ClientMessage)
      /\ \A i \in DOMAIN rest : /\ i \in Nat \ {0} /\ i + 1 \in DOMAIN out
                                /\ rest[i] = out[i + 1]
  BY TailElements DEF Slot
<1>2. \A i, j \in DOMAIN rest : i + 1 = j + 1 => i = j
  BY <1>1
<1> HIDE DEF rest
<1>3. Vacant(c, g, TRUE, rest, in) /\ Stopped(c, g, rest)
  BY <1>1 DEF Slot, Vacant, Stopped
<1>4. Matching(c, g, rest, in)
  BY <1>1 DEF Slot, Matching
<1>5. p \notin Faulty => Honest(c, g, rest, in)
  BY <1>1, <1>2 DEF Slot, Honest
<1>6. p \notin Faulty /\ ~SceneComponents => Unsuspected(c, g, rest, in)
  BY <1>1 DEF Slot, Unsuspected
<1> QED BY <1>1, <1>3, <1>4, <1>5, <1>6 DEF Slot, rest

\* What is broadcast to everybody who is linked.
LEMMA SlotHears ==
  ASSUME NEW p, NEW c, NEW g, NEW l, NEW out, NEW in, Slot(p, c, g, l, out, in),
         c.link = "up", NEW msgs \in Seq(ServerMessage),
         \A i \in DOMAIN msgs : msgs[i].type \in {"Spawn", "Despawn", "Notice"}
  PROVE  Slot(p, c, g, l, out, in \o msgs)
<1> DEFINE ext == in \o msgs
<1>1. /\ ext \in Seq(ServerMessage)
      /\ \A i \in DOMAIN ext : \/ i \in DOMAIN in /\ ext[i] = in[i]
                               \/ ext[i].type \in {"Spawn", "Despawn", "Notice"}
  BY ConcatElements DEF Slot
<1> HIDE DEF ext
<1>2. Vacant(c, g, l, out, ext) /\ Stopped(c, g, out)
  BY DEF Slot, Vacant, Stopped
<1>3. Matching(c, g, out, ext)
  <2>1. Matching(c, g, out, in)
    BY DEF Slot
  <2>2. \A i \in DOMAIN ext : ext[i].type \in {"Challenge", "Accept"} =>
                               i \in DOMAIN in /\ ext[i] = in[i]
    BY <1>1
  <2>3. g.challengeSent =>
          \A i, j \in DOMAIN ext :
            i < j /\ ext[i].type = "Challenge" /\ ext[i].serverNonce = g.serverNonce =>
              ext[j].type # "Challenge"
    BY <2>1, <2>2 DEF Matching
  <2> QED BY <2>1, <2>2, <2>3 DEF Matching
<1>4. p \notin Faulty => Honest(c, g, out, ext)
  BY <1>1 DEF Slot, Honest
<1>5. p \notin Faulty /\ ~SceneComponents => Unsuspected(c, g, out, ext)
  BY <1>1 DEF Slot, Unsuspected
<1> QED BY <1>1, <1>2, <1>3, <1>4, <1>5 DEF Slot, ext

\* The server loses the peer, because its link is gone or because it restarts.
LEMMA SlotUnlinked ==
  ASSUME NEW p, NEW c, NEW g, NEW l, NEW out, NEW in, Slot(p, c, g, l, out, in),
         NEW d \in Client, d.link = (IF c.link = "up" THEN "cut" ELSE c.link),
         d.phase = c.phase, d.fit = c.fit, d.nonce = c.nonce, d.auth = c.auth
  PROVE  Slot(p, d, FreshGate, FALSE, <<>>, in)
<1>0. FreshGate \in Gate
  BY GateOperations DEF Slot
<1>1. <<>> \in Seq(ClientMessage) /\ d.link # "up"
  BY DEF Slot
<1>2. Vacant(d, FreshGate, FALSE, <<>>, in)
  BY DEF Slot, Vacant
<1>3. /\ Stopped(d, FreshGate, <<>>) /\ Matching(d, FreshGate, <<>>, in)
      /\ Honest(d, FreshGate, <<>>, in) /\ Unsuspected(d, FreshGate, <<>>, in)
  BY <1>1 DEF Stopped, Matching, Honest, Unsuspected, FreshGate
<1> QED BY <1>0, <1>1, <1>2, <1>3 DEF Slot

\* Time passes: the attempts are forgotten, or the block is lifted.
LEMMA SlotForgiven ==
  ASSUME NEW p, NEW c, NEW g, NEW l, NEW out, NEW in, Slot(p, c, g, l, out, in),
         NEW h \in Gate, h = [g EXCEPT !.invalidAttempts = 0] \/ h = [g EXCEPT !.blocked = FALSE],
         g # FreshGate
  PROVE  Slot(p, c, h, l, out, in)
<1>1. /\ h.authenticated = g.authenticated /\ h.challengeSent = g.challengeSent
      /\ h.challengeConsumed = g.challengeConsumed
      /\ h.clientNonce = g.clientNonce /\ h.serverNonce = g.serverNonce
      /\ h.invalidAttempts \in {0, g.invalidAttempts} /\ (h.blocked => g.blocked)
  BY DEF Slot, Gate
<1>2. l
  BY DEF Slot, Vacant
<1>3. \A m : Awaits(g, m) => Awaits(h, m)
  BY <1>1 DEF Awaits, HasPendingChallenge
<1>4. Vacant(c, h, l, out, in) /\ Stopped(c, h, out)
  BY <1>1, <1>2 DEF Slot, Vacant, Stopped
<1>5. Matching(c, h, out, in)
  BY <1>1 DEF Slot, Matching
<1>6. p \notin Faulty => Honest(c, h, out, in)
  BY <1>1 DEF Slot, Honest
<1>7. p \notin Faulty /\ ~SceneComponents => Unsuspected(c, h, out, in)
  BY <1>1, <1>3 DEF Slot, Unsuspected
<1> QED BY <1>4, <1>5, <1>6, <1>7 DEF Slot

-----------------------------------------------------------------------------
\* Every action keeps every slot.

LEMMA ClientStepAt ==
  ASSUME TypeOK, NEW p \in Peer, NEW c, NEW msgs, ClientStep(p, c, msgs)
  PROVE  /\ client'[p] = c
         /\ toServer'[p] = IF c.link = "up" THEN toServer[p] \o msgs
                           ELSE IF c.link = "down" /\ p \notin linked THEN <<>>
                           ELSE toServer[p]
         /\ \A q \in Peer \ {p} : client'[q] = client[q] /\ toServer'[q] = toServer[q]
  BY DEF TypeOK, ClientStep

LEMMA ClientReceivesSlot ==
  ASSUME TypeOK, NEW p \in Peer, SlotOf(p), ClientReceives(p)
  PROVE  SlotOf(p)'
<1> DEFINE c == client[p]
           m == Head(toClient[p])
<1>1. /\ c \in Client /\ m \in ServerMessage /\ c.link \in {"up", "cut"} /\ toClient[p] # <<>>
  BY DEF TypeOK, ClientReceives
<1>2. m.type \in {"Challenge", "Accept", "Reject", "Notice", "Spawn", "Despawn"}
  BY <1>1, ServerPackets
<1>3. gate'[p] = gate[p] /\ (p \in linked' <=> p \in linked)
  BY DEF ClientReceives, server
<1>4. ASSUME NEW d \in Client, ClientStep(p, d, <<>>),
             toClient' = [toClient EXCEPT ![p] = IF d.link = "down" THEN <<>> ELSE Tail(@)],
             d.phase = c.phase, d.fit = c.fit, d.nonce = c.nonce,
             d.serverNonce = c.serverNonce, d.link \in {c.link, "down"},
             d.auth \in {c.auth, "rejected"} \/ (d.auth = "accepted" /\ m.type = "Accept")
      PROVE  SlotOf(p)'
  <2>1. client'[p] = d
          /\ toClient'[p] = IF d.link = "down" THEN <<>> ELSE Tail(toClient[p])
    BY <1>4, ClientStepAt DEF TypeOK
  <2>2. CASE d.link = "down"
    <3>1. toServer'[p] = IF p \notin linked THEN <<>> ELSE toServer[p]
      BY <1>4, <2>2, ClientStepAt
    <3>2. c.phase = "connecting" => c.nonce = NoNonce
      BY DEF SlotOf, Slot, Vacant
    <3>3. Slot(p, d, gate[p], p \in linked,
               IF ~(p \in linked) THEN <<>> ELSE toServer[p], <<>>)
      BY <1>4, <2>2, <3>2, SlotLinkDown DEF SlotOf
    <3> QED BY <1>3, <2>1, <2>2, <3>1, <3>3 DEF SlotOf
  <2>3. CASE d.link = c.link
    <3>1. toServer'[p] = toServer[p]
      <4>1. toServer[p] \o <<>> = toServer[p]
        BY DEF TypeOK
      <4>2. toServer'[p] = IF d.link = "up" THEN toServer[p] \o <<>>
                           ELSE IF d.link = "down" /\ p \notin linked THEN <<>>
                           ELSE toServer[p]
        BY <1>4, ClientStepAt
      <4> QED BY <1>1, <2>3, <4>1, <4>2
    <3>2. Slot(p, d, gate[p], p \in linked, toServer[p], Tail(toClient[p]))
      BY <1>1, <1>4, <2>3, SlotReads DEF SlotOf
    <3> QED BY <1>1, <1>3, <2>1, <2>3, <3>1, <3>2 DEF SlotOf
  <2> QED BY <1>4, <2>2, <2>3
<1>5. CASE m.type = "Accept"
  <2> DEFINE d == HandleHandshakeAccept(c)
  <2>1. d \in Client /\ ClientStep(p, d, <<>>)
          /\ toClient' = [toClient EXCEPT ![p] = IF d.link = "down" THEN <<>> ELSE Tail(@)]
    BY <1>1, <1>5, HandlersKeepClient DEF ClientReceives
  <2>2. /\ d.phase = c.phase /\ d.fit = c.fit /\ d.nonce = c.nonce
        /\ d.serverNonce = c.serverNonce /\ d.link \in {c.link, "down"}
        /\ d.auth \in {c.auth, "rejected"} \/ d.auth = "accepted"
    BY <1>1 DEF HandleHandshakeAccept, Disconnect, RejectLocalSession, Client
  <2> HIDE DEF d
  <2> QED BY <1>4, <1>5, <2>1, <2>2
<1>6. CASE m.type = "Reject"
  <2> DEFINE d == HandleHandshakeReject(c)
  <2>1. d \in Client /\ ClientStep(p, d, <<>>)
          /\ toClient' = [toClient EXCEPT ![p] = IF d.link = "down" THEN <<>> ELSE Tail(@)]
    BY <1>1, <1>6, HandlersKeepClient DEF ClientReceives
  <2>2. /\ d.phase = c.phase /\ d.fit = c.fit /\ d.nonce = c.nonce
        /\ d.serverNonce = c.serverNonce /\ d.link \in {c.link, "down"}
        /\ d.auth \in {c.auth, "rejected"}
    BY <1>1 DEF HandleHandshakeReject, Disconnect, RejectLocalSession, Client
  <2> HIDE DEF d
  <2> QED BY <1>4, <2>1, <2>2
<1>7. CASE m.type \in {"Spawn", "Despawn", "Notice"}
  <2> DEFINE d == ReceiveGamePacket(c, m)
  <2>1. d \in Client /\ ClientStep(p, d, <<>>)
          /\ toClient' = [toClient EXCEPT ![p] = IF d.link = "down" THEN <<>> ELSE Tail(@)]
    BY <1>1, <1>7, HandlersKeepClient DEF ClientReceives
  <2>2. /\ d.phase = c.phase /\ d.fit = c.fit /\ d.nonce = c.nonce
        /\ d.serverNonce = c.serverNonce /\ d.link \in {c.link, "down"}
        /\ d.auth \in {c.auth, "rejected"}
    BY <1>1, <1>7 DEF ReceiveGamePacket, RejectLocalSession, Client
  <2> HIDE DEF d
  <2> QED BY <1>4, <2>1, <2>2
<1>8. CASE m.type = "Challenge"
  <2> DEFINE done == HandleHandshakeChallenge(c, m)
  <2>1. ClientStep(p, done.client, done.send)
          /\ toClient' = [toClient EXCEPT ![p] =
                            IF done.client.link = "down" THEN <<>> ELSE Tail(@)]
    BY <1>8 DEF ClientReceives
  <2>2. CASE c.auth # "pending"
    <3>1. done = [client |-> c, send |-> <<>>]
      BY <2>2 DEF HandleHandshakeChallenge
    <3>2. ClientStep(p, c, <<>>)
            /\ toClient' = [toClient EXCEPT ![p] = IF c.link = "down" THEN <<>> ELSE Tail(@)]
      <4> HIDE DEF done, c, m
      <4> QED BY <2>1, <3>1
    <3> QED BY <1>1, <1>4, <3>2
  <2>3. CASE c.auth = "pending" /\ m.clientNonce # c.nonce
    <3> DEFINE d == RejectLocalSession(c)
    <3>1. done = [client |-> d, send |-> <<>>]
      BY <2>3 DEF HandleHandshakeChallenge
    <3>2. /\ d \in Client
          /\ d.phase = c.phase /\ d.fit = c.fit /\ d.nonce = c.nonce
          /\ d.serverNonce = c.serverNonce /\ d.link = c.link /\ d.auth = "rejected"
      BY <1>1 DEF RejectLocalSession, Client
    <3>3. ClientStep(p, d, <<>>)
            /\ toClient' = [toClient EXCEPT ![p] = IF d.link = "down" THEN <<>> ELSE Tail(@)]
      <4> HIDE DEF done, c, m, d
      <4> QED BY <2>1, <3>1
    <3> HIDE DEF d
    <3> QED BY <1>4, <3>2, <3>3
  <2>4. CASE c.auth = "pending" /\ m.clientNonce = c.nonce
    <3> DEFINE d == [c EXCEPT !.serverNonce = m.serverNonce]
               r == Response(c.nonce, m.serverNonce)
    <3>1. done = [client |-> d, send |-> <<r>>]
      BY <2>4 DEF HandleHandshakeChallenge
    <3>2. d.link = c.link
      BY <1>1 DEF Client
    <3>3. Slot(p, d, gate[p], p \in linked,
               IF c.link = "up" THEN toServer[p] \o <<r>> ELSE toServer[p], Tail(toClient[p]))
      BY <1>1, <1>8, <2>4, SlotAnswers DEF SlotOf
    <3> HIDE DEF d, r
    <3>4. ClientStep(p, d, <<r>>)
            /\ toClient' = [toClient EXCEPT ![p] = IF d.link = "down" THEN <<>> ELSE Tail(@)]
      <4> HIDE DEF done, c, m
      <4> QED BY <2>1, <3>1
    <3>5. toServer'[p] = IF d.link = "up" THEN toServer[p] \o <<r>>
                         ELSE IF d.link = "down" /\ p \notin linked THEN <<>> ELSE toServer[p]
      BY <3>4, ClientStepAt
    <3>6. /\ client'[p] = d /\ toClient'[p] = Tail(toClient[p])
          /\ toServer'[p] = IF c.link = "up" THEN toServer[p] \o <<r>> ELSE toServer[p]
      BY <1>1, <3>2, <3>4, <3>5, ClientStepAt DEF TypeOK
    <3> QED BY <1>3, <3>3, <3>6 DEF SlotOf
  <2> QED BY <2>2, <2>3, <2>4
<1> QED BY <1>2, <1>5, <1>6, <1>7, <1>8

LEMMA ClientOwnSlot ==
  ASSUME TypeOK, NEW p \in Peer, SlotOf(p), ClientNext(p)
  PROVE  SlotOf(p)'
<1>0. client[p] \in Client
  BY DEF TypeOK
<1>1. CASE LinkUp(p)
  BY <1>1, SlotLinkUp DEF LinkUp, SlotOf, server, TypeOK
<1>2. CASE ServerConnects(p)
  BY <1>2, SlotConnects DEF ServerConnects, SlotOf, TypeOK
<1>3. CASE CutLink(p)
  BY <1>3, SlotCut DEF CutLink, SlotOf, server, TypeOK
<1>4. ASSUME NEW d \in Client, d.link = "down", d.fit \in {client[p].fit, "fit"},
             d.phase = "connecting" => d.nonce = NoNonce, ClientStep(p, d, <<>>),
             toClient' = [toClient EXCEPT ![p] = <<>>], UNCHANGED server
      PROVE  SlotOf(p)'
  <2>1. Slot(p, d, gate[p], p \in linked, IF ~(p \in linked) THEN <<>> ELSE toServer[p], <<>>)
    <3>1. Slot(p, client[p], gate[p], p \in linked, toServer[p], toClient[p])
      BY DEF SlotOf
    <3> DEFINE c == client[p]
               l == p \in linked
    <3>2. Slot(p, c, gate[p], l, toServer[p], toClient[p])
      BY <3>1
    <3>3. /\ d \in Client /\ d.link = "down" /\ d.fit \in {c.fit, "fit"}
          /\ (d.phase = "connecting" => d.nonce = NoNonce)
      BY <1>4
    <3> HIDE DEF c, l
    <3>4. Slot(p, d, gate[p], l, IF ~l THEN <<>> ELSE toServer[p], <<>>)
      BY <3>2, <3>3, SlotLinkDown
    <3> QED BY <3>4 DEF l
  <2>2. /\ client'[p] = d /\ toClient'[p] = <<>>
        /\ toServer'[p] = IF p \notin linked THEN <<>> ELSE toServer[p]
    BY <1>4, ClientStepAt DEF TypeOK
  <2>3. gate'[p] = gate[p] /\ linked' = linked
    BY <1>4 DEF server
  <2> QED BY <2>1, <2>2, <2>3 DEF SlotOf
<1>5. CASE NoticeLoss(p)
  <2> DEFINE c == Disconnect(client[p])
             d == IF client[p].auth \in {"pending", "accepted"}
                    THEN [c EXCEPT !.auth = "none", !.nonce = NoNonce,
                                   !.serverNonce = NoNonce, !.held = {}]
                    ELSE c
  <2>1. c \in Client /\ c.link = "down" /\ c.fit = client[p].fit /\ c.auth = client[p].auth
          /\ c.phase = client[p].phase /\ c.nonce = client[p].nonce
    BY <1>0 DEF Disconnect, Client
  <2>2. ClientStep(p, d, <<>>)
    BY <1>5, <2>1 DEF NoticeLoss
  <2> HIDE DEF c
  <2>3. client[p].phase = "connecting" => client[p].nonce = NoNonce
    BY DEF SlotOf, Slot, Vacant
  <2>4. d \in Client /\ d.link = "down" /\ d.fit = client[p].fit
          /\ (d.phase = "connecting" => d.nonce = NoNonce)
    BY <2>1, <2>3 DEF Client
  <2> HIDE DEF d
  <2> QED BY <1>4, <1>5, <2>2, <2>4 DEF NoticeLoss
<1>6. CASE LeaveSession(p)
  <2>1. IdleClient \in Client /\ IdleClient.link = "down" /\ IdleClient.fit = "fit"
          /\ IdleClient.phase = "idle"
    BY DEF IdleClient, Client
  <2> QED BY <1>4, <1>6, <2>1 DEF LeaveSession
<1>7. CASE StartClient(p)
  <2>1. PICK f \in {"fit", "unfit", "wary"} :
          client' = [client EXCEPT ![p] =
                       [IdleClient EXCEPT !.phase = "connecting", !.link = "pending", !.fit = f]]
    BY <1>7 DEF StartClient
  <2> DEFINE d == [IdleClient EXCEPT !.phase = "connecting", !.link = "pending", !.fit = f]
  <2>2. Slot(p, client[p], gate[p], p \in linked, toServer[p], toClient[p])
    BY DEF SlotOf
  <2>3. Slot(p, d, gate[p], p \in linked, toServer[p], toClient[p])
    BY <1>7, <2>2, SlotStart DEF StartClient
  <2> HIDE DEF d
  <2>4. client'[p] = d
    BY <2>1 DEF TypeOK, d
  <2> QED BY <1>7, <2>3, <2>4 DEF StartClient, SlotOf, server
<1>8. CASE BeginSessionHandshake(p)
  <2>1. PICK n \in GenerateNonce(p) :
          ClientStep(p, [client[p] EXCEPT !.phase = "begun", !.auth = "pending", !.nonce = n,
                                          !.serverNonce = NoNonce, !.held = {}],
                     <<Hello(client[p].fit, n)>>)
    BY <1>8 DEF BeginSessionHandshake
  <2> DEFINE d == [client[p] EXCEPT !.phase = "begun", !.auth = "pending", !.nonce = n,
                                    !.serverNonce = NoNonce, !.held = {}]
             h == Hello(client[p].fit, n)
  <2>2. n \in Nonce
    BY FreshNonce
  <2>3. client[p].phase = "connecting" /\ client[p].link \in {"up", "cut"}
    BY <1>8 DEF BeginSessionHandshake
  <2>4. Slot(p, d, gate[p], p \in linked,
             IF client[p].link = "up" THEN toServer[p] \o <<h>> ELSE toServer[p], toClient[p])
    BY <2>2, <2>3, SlotBegin DEF SlotOf
  <2>5. d.link = client[p].link
    BY <1>0 DEF Client
  <2> HIDE DEF d, h
  <2>6. ClientStep(p, d, <<h>>)
    BY <2>1 DEF d, h
  <2>7. /\ client'[p] = d
        /\ toServer'[p] = IF client[p].link = "up" THEN toServer[p] \o <<h>> ELSE toServer[p]
    BY <2>3, <2>5, <2>6, ClientStepAt
  <2>8. gate'[p] = gate[p] /\ linked' = linked /\ toClient' = toClient
    BY <1>8 DEF BeginSessionHandshake, server
  <2> QED BY <2>4, <2>7, <2>8 DEF SlotOf
<1>9. CASE ClientReceives(p)
  BY <1>9, ClientReceivesSlot
<1>10. ASSUME NEW m \in ClientMessage, client[p].link = "up",
              ClientStep(p, client[p], <<m>>), UNCHANGED <<server, toClient>>,
              \/ m = ClientUpdate /\ (client[p].auth = "accepted" \/ SceneComponents)
              \/ p \in Faulty /\ m = Hello(client[p].fit, client[p].nonce)
              \/ p \in Faulty /\ m = Response(client[p].nonce, client[p].serverNonce)
       PROVE  SlotOf(p)'
  <2>1. Slot(p, client[p], gate[p], p \in linked, toServer[p] \o <<m>>, toClient[p])
    BY <1>10, SlotSends DEF SlotOf
  <2>2. client'[p] = client[p] /\ toServer'[p] = toServer[p] \o <<m>>
    BY <1>10, ClientStepAt
  <2>3. gate'[p] = gate[p] /\ linked' = linked /\ toClient' = toClient
    BY <1>10 DEF server
  <2> QED BY <2>1, <2>2, <2>3 DEF SlotOf
<1>11. CASE SendClientUpdate(p)
  BY <1>10, <1>11, ClientPackets DEF SendClientUpdate
<1>12. CASE Repeat(p)
  BY <1>10, <1>12 DEF Repeat
<1> QED BY <1>1, <1>2, <1>3, <1>5, <1>6, <1>7, <1>8, <1>9, <1>11, <1>12 DEF ClientNext

LEMMA ClientSlots ==
  ASSUME TypeOK, NEW p \in Peer, \A q \in Peer : SlotOf(q), ClientNext(p)
  PROVE  \A q \in Peer : SlotOf(q)'
<1>1. ASSUME NEW q \in Peer \ {p}
      PROVE  /\ client'[q] = client[q] /\ gate'[q] = gate[q] /\ (q \in linked' <=> q \in linked)
             /\ toServer'[q] = toServer[q] /\ toClient'[q] = toClient[q]
  <2>1. CASE \E c, msgs : ClientStep(p, c, msgs)
    <3>1. client'[q] = client[q] /\ toServer'[q] = toServer[q]
      BY <2>1, ClientStepAt
    <3> QED
      BY <2>1, <3>1
         DEF ClientNext, LinkUp, ServerConnects, CutLink, NoticeLoss, StartClient, LeaveSession,
             BeginSessionHandshake, ClientReceives, SendClientUpdate, Repeat, server, TypeOK
  <2>2. CASE LinkUp(p) \/ CutLink(p) \/ ServerConnects(p) \/ StartClient(p)
    BY <2>2 DEF LinkUp, CutLink, ServerConnects, StartClient, server, TypeOK
  <2>3. \/ LinkUp(p) \/ CutLink(p) \/ ServerConnects(p) \/ StartClient(p)
        \/ \E c, msgs : ClientStep(p, c, msgs)
    BY DEF ClientNext, NoticeLoss, LeaveSession, BeginSessionHandshake, ClientReceives,
           SendClientUpdate, Repeat
  <2> QED BY <2>1, <2>2, <2>3
<1>2. \A q \in Peer \ {p} : SlotOf(q)'
  BY <1>1 DEF SlotOf
<1> QED BY <1>2, ClientOwnSlot

LEMMA GateStepAt ==
  ASSUME TypeOK, NEW p \in Peer, p \in linked, NEW g, NEW msgs, GateStep(p, g, msgs)
  PROVE  /\ gate'[p] = g
         /\ toClient'[p] = IF client[p].link = "up" THEN toClient[p] \o msgs ELSE toClient[p]
         /\ \A q \in Peer \ {p} : gate'[q] = gate[q] /\ toClient'[q] = toClient[q]
  BY DEF TypeOK, GateStep, Reply, Reaches

\* A refusal, whichever gate h it leaves.
LEMMA RefusedSlots ==
  ASSUME TypeOK, NEW p \in Peer, \A q \in Peer : SlotOf(q), ServerReceives(p),
         NEW h \in {gate[p], RecordInvalidAttempt(gate[p]),
                    ResetChallenge(RecordInvalidAttempt(gate[p]))},
         GateStep(p, h, <<Reject>>),
         Asks(Head(toServer[p])) \/ ~gate[p].authenticated
  PROVE  \A q \in Peer : SlotOf(q)'
<1> DEFINE g == gate[p]
<1>1. g \in Gate /\ h \in Gate
  BY GateOperations DEF TypeOK
<1>2. /\ h.authenticated = g.authenticated
      /\ h.challengeSent => /\ g.challengeSent
                            /\ h.clientNonce = g.clientNonce /\ h.serverNonce = g.serverNonce
      /\ h.blocked /\ ~g.blocked => g.invalidAttempts + 1 >= InvalidAttemptThreshold
  <2>1. CASE h = g
    BY <2>1
  <2>2. CASE h = RecordInvalidAttempt(g)
    BY <1>1, <2>2, HandshakeAssumption DEF RecordInvalidAttempt, ResetChallenge, Gate
  <2>3. CASE h = ResetChallenge(RecordInvalidAttempt(g))
    <3> DEFINE r == RecordInvalidAttempt(g)
    <3>1. r \in Gate
      BY <1>1, GateOperations
    <3>2. /\ r.authenticated = g.authenticated
          /\ r.blocked /\ ~g.blocked => g.invalidAttempts + 1 >= InvalidAttemptThreshold
      BY <1>1, HandshakeAssumption DEF RecordInvalidAttempt, ResetChallenge, Gate
    <3> HIDE DEF r
    <3>3. ~ResetChallenge(r).challengeSent /\ ResetChallenge(r).authenticated = r.authenticated
            /\ ResetChallenge(r).blocked = r.blocked
      BY <3>1 DEF ResetChallenge, Gate
    <3> QED BY <2>3, <3>2, <3>3 DEF r
  <2> QED BY <2>1, <2>2, <2>3
<1>3. p \in linked /\ toServer[p] # <<>> /\ Head(toServer[p]) = toServer[p][1]
        /\ 1 \in DOMAIN toServer[p] /\ toServer[p][1].type \in {"Hello", "Response", "ClientUpdate"}
  BY ClientPackets DEF ServerReceives, TypeOK
<1>4. ASSUME p \notin Faulty, ~SceneComponents
      PROVE  Asks(Head(toServer[p])) /\ ~h.blocked
  <2>1. Unsuspected(client[p], g, toServer[p], toClient[p])
    BY <1>4 DEF SlotOf, Slot
  <2>2. Asks(toServer[p][1])
    BY <1>3, <2>1 DEF Unsuspected, Asks
  <2>3. g.invalidAttempts = 0 /\ ~g.blocked
    BY <1>3, <2>1, <2>2 DEF Unsuspected
  <2>4. ~(0 + 1 >= InvalidAttemptThreshold)
    BY HandshakeAssumption
  <2> QED BY <1>2, <1>3, <2>2, <2>3, <2>4
<1>5. Slot(p, client[p], g, TRUE, toServer[p], toClient[p])
  <2>1. (p \in linked) = TRUE
    BY <1>3
  <2> QED BY <2>1 DEF SlotOf
<1>6. Slot(p, client[p], h, TRUE, Tail(toServer[p]),
           IF client[p].link = "up" THEN toClient[p] \o <<Reject>> ELSE toClient[p])
  BY <1>1, <1>2, <1>3, <1>4, <1>5, SlotRefused
<1>7. /\ client' = client /\ linked' = linked
      /\ toServer' = [toServer EXCEPT ![p] = Tail(@)]
  BY DEF ServerReceives
<1>8. SlotOf(p)'
  <2>1. /\ gate'[p] = h /\ toServer'[p] = Tail(toServer[p]) /\ (p \in linked') = TRUE
        /\ toClient'[p] = IF client[p].link = "up" THEN toClient[p] \o <<Reject>> ELSE toClient[p]
    BY <1>3, <1>7, GateStepAt DEF TypeOK
  <2> QED BY <1>6, <1>7, <2>1 DEF SlotOf
<1>9. ASSUME NEW q \in Peer \ {p}
      PROVE  SlotOf(q)'
  <2>1. gate'[q] = gate[q] /\ toClient'[q] = toClient[q] /\ toServer'[q] = toServer[q]
    BY <1>3, <1>7, GateStepAt DEF TypeOK
  <2> QED BY <1>7, <2>1 DEF SlotOf
<1> QED BY <1>8, <1>9

LEMMA ChallengedSlots ==
  ASSUME TypeOK, NEW p \in Peer, \A q \in Peer : SlotOf(q), ServerReceives(p),
         Head(toServer[p]).type = "Hello", ~gate[p].blocked,
         ~HelloRefused(p, Head(toServer[p])),
         NEW n \in GenerateNonce(p),
         GateStep(p, [ResetChallenge(gate[p]) EXCEPT
                        !.authenticated = FALSE, !.challengeSent = TRUE,
                        !.clientNonce = Head(toServer[p]).clientNonce, !.serverNonce = n],
                  <<Challenge(Head(toServer[p]).clientNonce, n)>>)
  PROVE  \A q \in Peer : SlotOf(q)'
<1> DEFINE m == Head(toServer[p])
           e == Challenge(m.clientNonce, n)
           h == [ResetChallenge(gate[p]) EXCEPT
                   !.authenticated = FALSE, !.challengeSent = TRUE,
                   !.clientNonce = m.clientNonce, !.serverNonce = n]
           ext == IF client[p].link = "up" THEN toClient[p] \o <<e>> ELSE toClient[p]
<1>1. p \in linked /\ toServer[p] # <<>>
  BY DEF ServerReceives
<1>2. /\ n \in Nonce /\ n # client[p].serverNonce
      /\ \A i \in DOMAIN toServer[p] :
           toServer[p][i].type = "Response" => toServer[p][i].serverNonce # n
      /\ \A i \in DOMAIN toClient[p] :
           toClient[p][i].type = "Challenge" => toClient[p][i].serverNonce # n
  <2>1. n \in Nonce /\ n \notin NoncesInUse(p)
    BY FreshNonce
  <2>2. \A i \in DOMAIN toServer[p] : toServer[p][i] \in Range(toServer[p])
    BY DEF Range
  <2>3. \A i \in DOMAIN toClient[p] : toClient[p][i] \in Range(toClient[p])
    BY DEF Range
  <2> QED BY <2>1, <2>2, <2>3 DEF NoncesInUse
<1>3. m.fit # "unfit" /\ ~IsDuplicateOrStaleHello(gate[p])
  BY DEF HelloRefused
<1>4. Slot(p, client[p], gate[p], TRUE, toServer[p], toClient[p])
  <2>1. (p \in linked) = TRUE
    BY <1>1
  <2> QED BY <2>1 DEF SlotOf
<1>5. Slot(p, client[p], h, TRUE, Tail(toServer[p]), ext)
  BY <1>1, <1>2, <1>3, <1>4, SlotChallenged
<1>6. /\ client' = client /\ linked' = linked
      /\ toServer' = [toServer EXCEPT ![p] = Tail(@)]
  BY DEF ServerReceives
<1>7. GateStep(p, h, <<e>>)
  OBVIOUS
<1> HIDE DEF h, e, m
<1>8. /\ gate'[p] = h /\ toServer'[p] = Tail(toServer[p]) /\ (p \in linked') = TRUE
      /\ toClient'[p] = ext
  BY <1>1, <1>6, <1>7, GateStepAt DEF TypeOK
<1>9. ASSUME NEW q \in Peer \ {p}
      PROVE  SlotOf(q)'
  <2>1. gate'[q] = gate[q] /\ toClient'[q] = toClient[q] /\ toServer'[q] = toServer[q]
    BY <1>1, <1>6, <1>7, GateStepAt DEF TypeOK
  <2> QED BY <1>6, <2>1 DEF SlotOf
<1> QED BY <1>5, <1>6, <1>8, <1>9 DEF SlotOf

LEMMA AdmittedSlots ==
  ASSUME TypeOK, NEW p \in Peer, \A q \in Peer : SlotOf(q), ServerReceives(p),
         Head(toServer[p]).type = "Response", ~IsDuplicateOrStaleResponse(gate[p]),
         ~NonceMismatch(gate[p], Head(toServer[p])), AdmitPeer(p)
  PROVE  \A q \in Peer : SlotOf(q)'
<1> DEFINE replay == <<Accept>> \o [i \in DOMAIN world |-> SpawnOf(world[i])]
           player == IF PlayerPrefab THEN <<SpawnOf(nextId)>> ELSE <<>>
           msgs == replay \o player
           spawns == [i \in DOMAIN world |-> SpawnOf(world[i])]
<1>1. p \in linked /\ toServer[p] # <<>>
  BY DEF ServerReceives
<1>2. /\ player \in Seq(ServerMessage)
      /\ \A i \in DOMAIN player : player[i].type = "Spawn"
  <2>1. PlayerPrefab => nextId \in Object
    BY DEF AdmitPeer
  <2> QED BY <2>1, ServerPackets DEF SpawnOf
<1>3. /\ spawns \in Seq(ServerMessage)
      /\ \A i \in DOMAIN spawns : spawns[i].type = "Spawn"
  <2>1. \A i \in DOMAIN world : SpawnOf(world[i]) \in ServerMessage
    BY ServerPackets DEF TypeOK
  <2>2. DOMAIN world = 1 .. Len(world) /\ Len(world) \in Nat
    BY DEF TypeOK
  <2> QED BY <2>1, <2>2, IsASeq DEF SpawnOf
<1> HIDE DEF spawns, player
<1>4. /\ replay \in Seq(ServerMessage)
      /\ \A i \in DOMAIN replay : replay[i].type \in {"Accept", "Spawn"}
  <2> DEFINE accept == <<Accept>>
  <2>1. accept \in Seq(ServerMessage) /\ \A i \in DOMAIN accept : accept[i].type = "Accept"
    BY ServerPackets DEF Accept
  <2>2. replay = accept \o spawns
    BY DEF spawns
  <2> HIDE DEF accept, replay
  <2> QED BY <1>3, <2>1, <2>2, ConcatElements
<1> HIDE DEF replay
<1>5. /\ msgs \in Seq(ServerMessage)
      /\ \A i \in DOMAIN msgs : msgs[i].type \in {"Accept", "Spawn"}
  BY <1>2, <1>4, ConcatElements
<1>6. /\ gate' = [gate EXCEPT ![p] = PassGate(@)]
      /\ toClient' = [q \in Peer |->
                        IF ~Reaches(q) THEN toClient[q]
                        ELSE toClient[q] \o (IF q = p THEN msgs ELSE player)]
  BY DEF AdmitPeer, replay, player
<1>7. /\ client' = client /\ linked' = linked
      /\ toServer' = [toServer EXCEPT ![p] = Tail(@)]
  BY DEF ServerReceives
<1> HIDE DEF msgs
<1>8. SlotOf(p)'
  <2>1. Slot(p, client[p], gate[p], TRUE, toServer[p], toClient[p])
    <3>1. (p \in linked) = TRUE
      BY <1>1
    <3> QED BY <3>1 DEF SlotOf
  <2>2. Slot(p, client[p], PassGate(gate[p]), TRUE, Tail(toServer[p]),
             IF client[p].link = "up" THEN toClient[p] \o msgs ELSE toClient[p])
    BY <1>1, <1>5, <2>1, SlotAdmitted
  <2>3. /\ gate'[p] = PassGate(gate[p]) /\ toServer'[p] = Tail(toServer[p])
        /\ toClient'[p] = IF client[p].link = "up" THEN toClient[p] \o msgs ELSE toClient[p]
        /\ (p \in linked') = TRUE
    BY <1>1, <1>6, <1>7 DEF TypeOK, Reaches
  <2> QED BY <1>7, <2>2, <2>3 DEF SlotOf
<1>9. ASSUME NEW q \in Peer \ {p}
      PROVE  SlotOf(q)'
  <2>1. /\ gate'[q] = gate[q] /\ toServer'[q] = toServer[q]
        /\ toClient'[q] = IF Reaches(q) THEN toClient[q] \o player ELSE toClient[q]
    BY <1>6, <1>7 DEF TypeOK
  <2>2. CASE Reaches(q)
    <3>1. Slot(q, client[q], gate[q], q \in linked, toServer[q], toClient[q] \o player)
      BY <1>2, <2>2, SlotHears DEF SlotOf, Reaches
    <3> QED BY <1>7, <2>1, <2>2, <3>1 DEF SlotOf
  <2>3. CASE ~Reaches(q)
    BY <1>7, <2>1, <2>3 DEF SlotOf
  <2> QED BY <2>2, <2>3
<1> QED BY <1>8, <1>9

LEMMA ServerReceivesSlots ==
  ASSUME TypeOK, NEW p \in Peer, \A q \in Peer : SlotOf(q), ServerReceives(p)
  PROVE  \A q \in Peer : SlotOf(q)'
<1> DEFINE m == Head(toServer[p])
           refused == {gate[p], RecordInvalidAttempt(gate[p]),
                       ResetChallenge(RecordInvalidAttempt(gate[p]))}
<1>1. ASSUME \E h \in refused : GateStep(p, h, <<Reject>>), Asks(m) \/ ~gate[p].authenticated
      PROVE  \A q \in Peer : SlotOf(q)'
  BY <1>1, RefusedSlots
<1>2. CASE m.type = "Hello" /\ HandleHandshakeHello(p, m)
  <2>1. CASE RejectPeer(p) \/ RejectPeerWithTracking(p)
    BY <1>1, <1>2, <2>1 DEF RejectPeer, RejectPeerWithTracking, Asks
  <2>2. CASE /\ ~gate[p].blocked
             /\ ~HelloRefused(p, m)
             /\ \E n \in GenerateNonce(p) :
                  GateStep(p, [ResetChallenge(gate[p]) EXCEPT
                                 !.authenticated = FALSE, !.challengeSent = TRUE,
                                 !.clientNonce = m.clientNonce, !.serverNonce = n],
                           <<Challenge(m.clientNonce, n)>>)
    BY <1>2, <2>2, ChallengedSlots
  <2> QED BY <1>2, <2>1, <2>2 DEF HandleHandshakeHello
<1>3. CASE m.type = "Response" /\ HandleHandshakeResponse(p, m)
  <2>1. CASE RejectPeer(p) \/ RejectPeerWithTracking(p)
    BY <1>1, <1>3, <2>1 DEF RejectPeer, RejectPeerWithTracking, Asks
  <2>2. CASE GateStep(p, ResetChallenge(RecordInvalidAttempt(gate[p])), <<Reject>>)
    BY <1>1, <1>3, <2>2 DEF Asks
  <2>3. CASE /\ ~IsDuplicateOrStaleResponse(gate[p])
             /\ ~NonceMismatch(gate[p], m)
             /\ AdmitPeer(p)
    BY <1>3, <2>3, AdmittedSlots
  <2> QED BY <1>3, <2>1, <2>2, <2>3 DEF HandleHandshakeResponse
<1>4. CASE m.type = "ClientUpdate" /\ HandleGamePacket(p)
  <2>1. CASE ~gate[p].authenticated /\ RejectPeerWithTracking(p)
    BY <1>1, <2>1 DEF RejectPeerWithTracking
  <2>2. CASE UNCHANGED <<gate, admitted, world, nextId, toClient>>
    <3>1. /\ p \in linked /\ toServer[p] # <<>> /\ UNCHANGED <<client, linked>>
          /\ toServer' = [toServer EXCEPT ![p] = Tail(@)]
      BY DEF ServerReceives
    <3>2. (p \in linked) = TRUE
      BY <3>1
    <3>3. Slot(p, client[p], gate[p], TRUE, toServer[p], toClient[p])
      BY <3>2 DEF SlotOf
    <3>4. Slot(p, client[p], gate[p], TRUE, Tail(toServer[p]), toClient[p])
      BY <3>1, <3>3, SlotTaken
    <3>5. /\ toServer'[p] = Tail(toServer[p]) /\ (p \in linked') = TRUE
          /\ \A q \in Peer \ {p} : toServer'[q] = toServer[q]
      BY <3>1 DEF TypeOK
    <3> QED BY <2>2, <3>1, <3>4, <3>5 DEF SlotOf
  <2> QED BY <1>4, <2>1, <2>2 DEF HandleGamePacket
<1> QED BY <1>2, <1>3, <1>4 DEF ServerReceives

LEMMA ServerSlots ==
  ASSUME TypeOK, NEW p \in Peer, \A q \in Peer : SlotOf(q), ServerNext(p)
  PROVE  \A q \in Peer : SlotOf(q)'
<1>0. client[p] \in Client /\ gate[p] \in Gate
  BY DEF TypeOK
<1>1. CASE ServerReceives(p)
  BY <1>1, ServerReceivesSlots
<1>2. CASE PeerDisconnected(p)
  <2>1. /\ client' = client /\ toClient' = toClient /\ (p \in linked') = FALSE
        /\ gate'[p] = FreshGate /\ toServer'[p] = <<>>
        /\ \A q \in Peer \ {p} : /\ gate'[q] = gate[q] /\ toServer'[q] = toServer[q]
                                 /\ (q \in linked') = (q \in linked)
    BY <1>2 DEF PeerDisconnected, TypeOK
  <2>2. client[p].link = (IF client[p].link = "up" THEN "cut" ELSE client[p].link)
    BY <1>2 DEF PeerDisconnected
  <2>3. Slot(p, client[p], FreshGate, FALSE, <<>>, toClient[p])
    BY <1>0, <2>2, SlotUnlinked DEF SlotOf
  <2> QED BY <2>1, <2>3 DEF SlotOf
<1>3. ASSUME NEW h \in Gate, gate' = [gate EXCEPT ![p] = h], gate[p] # FreshGate,
             \/ h = [gate[p] EXCEPT !.invalidAttempts = 0]
             \/ h = [gate[p] EXCEPT !.blocked = FALSE],
             UNCHANGED <<client, linked, toServer, toClient>>
      PROVE  \A q \in Peer : SlotOf(q)'
  <2>1. Slot(p, client[p], h, p \in linked, toServer[p], toClient[p])
    BY <1>3, SlotForgiven DEF SlotOf
  <2>2. gate'[p] = h /\ \A q \in Peer \ {p} : gate'[q] = gate[q]
    BY <1>3 DEF TypeOK
  <2> QED BY <1>3, <2>1, <2>2 DEF SlotOf
<1>4. CASE AttemptWindowEnds(p)
  <2>1. [gate[p] EXCEPT !.invalidAttempts = 0] \in Gate
    BY <1>0, HandshakeAssumption DEF Gate
  <2>2. gate[p] # FreshGate
    BY <1>4 DEF AttemptWindowEnds, FreshGate
  <2>3. gate' = [gate EXCEPT ![p] = [gate[p] EXCEPT !.invalidAttempts = 0]]
    BY <1>4 DEF AttemptWindowEnds, TypeOK
  <2> QED BY <1>3, <1>4, <2>1, <2>2, <2>3 DEF AttemptWindowEnds
<1>5. CASE BlockEnds(p)
  <2>1. [gate[p] EXCEPT !.blocked = FALSE] \in Gate
    BY <1>0 DEF Gate
  <2>2. gate[p] # FreshGate
    BY <1>5 DEF BlockEnds, FreshGate
  <2>3. gate' = [gate EXCEPT ![p] = [gate[p] EXCEPT !.blocked = FALSE]]
    BY <1>5 DEF BlockEnds, TypeOK
  <2> QED BY <1>3, <1>5, <2>1, <2>2, <2>3 DEF BlockEnds
<1> QED BY <1>1, <1>2, <1>4, <1>5 DEF ServerNext

LEMMA BroadcastSlots ==
  ASSUME TypeOK, \A q \in Peer : SlotOf(q), NEW m \in ServerMessage, Broadcast(m),
         m.type \in {"Spawn", "Despawn", "Notice"},
         UNCHANGED <<client, gate, linked, toServer>>
  PROVE  \A q \in Peer : SlotOf(q)'
<1> SUFFICES ASSUME NEW q \in Peer
             PROVE  SlotOf(q)'
  OBVIOUS
<1>1. CASE Reaches(q)
  <2> DEFINE msgs == <<m>>
  <2>1. msgs \in Seq(ServerMessage)
          /\ \A i \in DOMAIN msgs : msgs[i].type \in {"Spawn", "Despawn", "Notice"}
    OBVIOUS
  <2>2. toClient'[q] = toClient[q] \o msgs
    BY <1>1 DEF Broadcast, TypeOK
  <2> HIDE DEF msgs
  <2>3. Slot(q, client[q], gate[q], q \in linked, toServer[q], toClient[q] \o msgs)
    BY <1>1, <2>1, SlotHears DEF SlotOf, Reaches
  <2> QED BY <2>2, <2>3 DEF SlotOf
<1>2. CASE ~Reaches(q)
  <2>1. toClient'[q] = toClient[q]
    BY <1>2 DEF Broadcast
  <2> QED BY <2>1 DEF SlotOf
<1> QED BY <1>1, <1>2

LEMMA WorldSlots ==
  ASSUME TypeOK, \A q \in Peer : SlotOf(q),
         SpawnNetworkObject \/ DespawnNetworkObject \/ Notify \/ RestartServer
  PROVE  \A q \in Peer : SlotOf(q)'
<1>1. CASE SpawnNetworkObject
  <2>1. nextId \in Object
    BY <1>1, HandshakeAssumption DEF SpawnNetworkObject, TypeOK, Object
  <2>2. SpawnOf(nextId) \in ServerMessage /\ SpawnOf(nextId).type = "Spawn"
    BY <2>1, ServerPackets DEF SpawnOf
  <2> QED BY <1>1, <2>2, BroadcastSlots DEF SpawnNetworkObject
<1>2. CASE DespawnNetworkObject
  <2>1. PICK i \in DOMAIN world : Broadcast(DespawnOf(world[i]))
    BY <1>2 DEF DespawnNetworkObject
  <2>2. world[i] \in Object
    BY DEF TypeOK
  <2>3. DespawnOf(world[i]) \in ServerMessage /\ DespawnOf(world[i]).type = "Despawn"
    BY <2>2, ServerPackets DEF DespawnOf
  <2> QED BY <1>2, <2>1, <2>3, BroadcastSlots DEF DespawnNetworkObject
<1>3. CASE Notify
  <2>1. Notice \in ServerMessage /\ Notice.type = "Notice"
    BY ServerPackets DEF Notice
  <2> QED BY <1>3, <2>1, BroadcastSlots DEF Notify, server
<1>4. CASE RestartServer
  <2> SUFFICES ASSUME NEW q \in Peer
               PROVE  SlotOf(q)'
    OBVIOUS
  <2> DEFINE d == [client[q] EXCEPT !.link = IF @ = "up" THEN "cut" ELSE @]
  <2>1. client[q] \in Client
    BY DEF TypeOK
  <2>2. /\ d \in Client /\ d.link = (IF client[q].link = "up" THEN "cut" ELSE client[q].link)
        /\ d.phase = client[q].phase /\ d.fit = client[q].fit /\ d.nonce = client[q].nonce
        /\ d.auth = client[q].auth
    BY <2>1 DEF Client
  <2>3. /\ client'[q] = d /\ gate'[q] = FreshGate /\ (q \in linked') = FALSE
        /\ toServer'[q] = <<>> /\ toClient' = toClient
    BY <1>4 DEF RestartServer, TypeOK
  <2> HIDE DEF d
  <2>4. Slot(q, d, FreshGate, FALSE, <<>>, toClient[q])
    BY <2>2, SlotUnlinked DEF SlotOf
  <2> QED BY <2>3, <2>4 DEF SlotOf
<1> QED BY <1>1, <1>2, <1>3, <1>4

LEMMA SlotsInit ==
  ASSUME Init
  PROVE  \A p \in Peer : SlotOf(p)
<1> SUFFICES ASSUME NEW p \in Peer
             PROVE  SlotOf(p)
  OBVIOUS
<1>1. FreshGate \in Gate /\ IdleClient \in Client
  BY HandshakeAssumption DEF FreshGate, Gate, IdleClient, Client
<1>2. /\ client[p] = IdleClient /\ gate[p] = FreshGate /\ (p \in linked) = FALSE
      /\ toServer[p] = <<>> /\ toClient[p] = <<>>
  BY DEF Init
<1>3. Slot(p, IdleClient, FreshGate, FALSE, <<>>, <<>>)
  BY <1>1 DEF Slot, Vacant, Stopped, Matching, Honest, Unsuspected, IdleClient, FreshGate
<1> QED BY <1>2, <1>3 DEF SlotOf

-----------------------------------------------------------------------------
\* The gates and the books the server keeps on them.

\* A packet is refused, or taken from an admitted peer, or challenged, or admitted.
LEMMA GateMoves ==
  ASSUME TypeOK, NEW p \in Peer, ServerReceives(p)
  PROVE  \E h \in Gate :
           /\ gate' = [gate EXCEPT ![p] = h] /\ linked' = linked /\ p \in linked
           /\ \/ /\ h.authenticated = gate[p].authenticated /\ admitted' = admitted
                 /\ HasPendingChallenge(h) => HasPendingChallenge(gate[p])
              \/ /\ h.authenticated = gate[p].authenticated /\ admitted' = admitted
                 /\ Cardinality(PendingHandshakes) < PendingLimit
              \/ /\ h.authenticated /\ ~gate[p].authenticated /\ AddPeer(p)
<1> DEFINE m == Head(toServer[p])
           g == gate[p]
<1>1. g \in Gate /\ linked' = linked /\ p \in linked
  BY DEF TypeOK, ServerReceives
<1>2. ASSUME NEW h \in {g, RecordInvalidAttempt(g), ResetChallenge(RecordInvalidAttempt(g))}
      PROVE  /\ h \in Gate /\ h.authenticated = g.authenticated
             /\ HasPendingChallenge(h) => HasPendingChallenge(g)
  <2>1. h \in Gate /\ RecordInvalidAttempt(g) \in Gate
    BY <1>1, GateOperations
  <2>2. /\ RecordInvalidAttempt(g).authenticated = g.authenticated
        /\ HasPendingChallenge(RecordInvalidAttempt(g)) => HasPendingChallenge(g)
    BY <1>1 DEF RecordInvalidAttempt, ResetChallenge, HasPendingChallenge, Gate
  <2> DEFINE r == RecordInvalidAttempt(g)
  <2> HIDE DEF r
  <2>3. r \in Gate => /\ ResetChallenge(r).authenticated = r.authenticated
                      /\ ~ResetChallenge(r).challengeSent
    BY DEF ResetChallenge, Gate
  <2> QED BY <2>1, <2>2, <2>3 DEF HasPendingChallenge, r
<1>3. ASSUME \E h \in {g, RecordInvalidAttempt(g), ResetChallenge(RecordInvalidAttempt(g))} :
               GateStep(p, h, <<Reject>>)
      PROVE  \E h \in Gate :
               /\ gate' = [gate EXCEPT ![p] = h] /\ admitted' = admitted
               /\ h.authenticated = g.authenticated
               /\ HasPendingChallenge(h) => HasPendingChallenge(g)
  BY <1>2, <1>3 DEF GateStep
<1>4. CASE m.type = "Hello" /\ HandleHandshakeHello(p, m)
  <2>1. CASE RejectPeer(p) \/ RejectPeerWithTracking(p)
    BY <1>1, <1>3, <2>1 DEF RejectPeer, RejectPeerWithTracking
  <2>2. CASE /\ ~HelloRefused(p, m)
             /\ \E n \in GenerateNonce(p) :
                  GateStep(p, [ResetChallenge(gate[p]) EXCEPT
                                 !.authenticated = FALSE, !.challengeSent = TRUE,
                                 !.clientNonce = m.clientNonce, !.serverNonce = n],
                           <<Challenge(m.clientNonce, n)>>)
    <3>1. PICK n \in GenerateNonce(p) :
                  GateStep(p, [ResetChallenge(gate[p]) EXCEPT
                                 !.authenticated = FALSE, !.challengeSent = TRUE,
                                 !.clientNonce = m.clientNonce, !.serverNonce = n],
                           <<Challenge(m.clientNonce, n)>>)
      BY <2>2
    <3> DEFINE h == [ResetChallenge(gate[p]) EXCEPT
                       !.authenticated = FALSE, !.challengeSent = TRUE,
                       !.clientNonce = m.clientNonce, !.serverNonce = n]
    <3>2. m \in ClientMessage
      BY DEF TypeOK, ServerReceives
    <3>3. n \in Nonce /\ m.clientNonce \in Nonce
      BY <1>4, <3>2, FreshNonce, ClientPackets
    <3>4. ResetChallenge(gate[p]) \in Gate
      BY <1>1, GateOperations
    <3>5. h \in Gate /\ ~h.authenticated
      BY <3>3, <3>4 DEF Gate
    <3>6. ~g.authenticated /\ Cardinality(PendingHandshakes) < PendingLimit
      <4>1. ~g.authenticated /\ ~HasPendingChallenge(g)
              /\ ~(Cardinality(PendingHandshakes) >= PendingLimit)
        BY <2>2 DEF HelloRefused, IsDuplicateOrStaleHello
      <4>2. Cardinality(PendingHandshakes) \in Nat
        <5>1. IsFiniteSet(PendingHandshakes)
          BY HandshakeAssumption, FS_Subset DEF PendingHandshakes
        <5> QED BY <5>1, FS_CardinalityType
      <4> QED BY <4>1, <4>2, HandshakeAssumption
    <3> HIDE DEF h
    <3>7. gate' = [gate EXCEPT ![p] = h] /\ admitted' = admitted
      BY <3>1 DEF GateStep, h
    <3>8. h.authenticated = g.authenticated
      BY <1>1, <3>5, <3>6 DEF Gate
    <3> QED BY <1>1, <3>5, <3>6, <3>7, <3>8
  <2> QED BY <1>4, <2>1, <2>2 DEF HandleHandshakeHello
<1>5. CASE m.type = "Response" /\ HandleHandshakeResponse(p, m)
  <2>1. CASE RejectPeer(p) \/ RejectPeerWithTracking(p)
    BY <1>1, <1>3, <2>1 DEF RejectPeer, RejectPeerWithTracking
  <2>2. CASE GateStep(p, ResetChallenge(RecordInvalidAttempt(gate[p])), <<Reject>>)
    BY <1>1, <1>3, <2>2
  <2>3. CASE ~IsDuplicateOrStaleResponse(gate[p]) /\ AdmitPeer(p)
    <3>1. PassGate(g) \in Gate /\ PassGate(g).authenticated
      BY <1>1, GateOperations DEF PassGate, Gate
    <3>2. ~g.authenticated /\ gate' = [gate EXCEPT ![p] = PassGate(g)] /\ AddPeer(p)
      BY <2>3 DEF IsDuplicateOrStaleResponse, AdmitPeer
    <3> QED BY <1>1, <3>1, <3>2
  <2> QED BY <1>5, <2>1, <2>2, <2>3 DEF HandleHandshakeResponse
<1>6. CASE HandleGamePacket(p)
  <2>1. CASE RejectPeerWithTracking(p)
    BY <1>1, <1>3, <2>1 DEF RejectPeerWithTracking
  <2>2. CASE UNCHANGED <<gate, admitted, world, nextId, toClient>>
    <3>1. gate' = [gate EXCEPT ![p] = g]
      BY <2>2 DEF TypeOK
    <3> QED BY <1>1, <2>2, <3>1
  <2> QED BY <1>6, <2>1, <2>2 DEF HandleGamePacket
<1> QED BY <1>4, <1>5, <1>6 DEF ServerReceives

\* The steps that are not of ServerReceives open no gate.
LEMMA OtherMoves ==
  ASSUME TypeOK, [Next]_vars, \A p \in Peer : ~ServerReceives(p)
  PROVE  /\ \A q \in Peer :
              HasPendingChallenge(gate[q])' => HasPendingChallenge(gate[q])
         /\ \/ /\ admitted' = admitted /\ linked \subseteq linked'
               /\ \A q \in Peer : gate'[q].authenticated = gate[q].authenticated
            \/ \E p \in Peer :
                 /\ admitted' = admitted \ {p} /\ linked' = linked \ {p}
                 /\ \A q \in Peer : (gate'[q].authenticated <=> q # p /\ gate[q].authenticated)
            \/ /\ admitted' = {} /\ linked' = {}
               /\ \A q \in Peer : ~gate'[q].authenticated
<1>1. \A q \in Peer : gate[q] \in Gate
  BY DEF TypeOK
<1>2. CASE UNCHANGED <<gate, admitted>> /\ linked \subseteq linked'
  BY <1>2 DEF HasPendingChallenge
<1>3. ASSUME NEW p \in Peer, PeerDisconnected(p)
      PROVE  /\ \A q \in Peer : HasPendingChallenge(gate[q])' => HasPendingChallenge(gate[q])
             /\ admitted' = admitted \ {p} /\ linked' = linked \ {p}
             /\ \A q \in Peer : (gate'[q].authenticated <=> q # p /\ gate[q].authenticated)
  <2>1. gate'[p] = FreshGate /\ \A q \in Peer \ {p} : gate'[q] = gate[q]
    BY <1>3 DEF PeerDisconnected, TypeOK
  <2>2. \A q \in Peer : HasPendingChallenge(gate[q])' => HasPendingChallenge(gate[q])
    BY <2>1 DEF HasPendingChallenge, FreshGate
  <2>3. \A q \in Peer : (gate'[q].authenticated <=> q # p /\ gate[q].authenticated)
    BY <2>1 DEF FreshGate
  <2> QED BY <1>3, <2>2, <2>3 DEF PeerDisconnected
<1>4. ASSUME NEW p \in Peer, AttemptWindowEnds(p) \/ BlockEnds(p)
      PROVE  /\ \A q \in Peer : HasPendingChallenge(gate[q])' => HasPendingChallenge(gate[q])
             /\ UNCHANGED <<admitted, linked>>
             /\ \A q \in Peer : gate'[q].authenticated = gate[q].authenticated
  <2>1. \/ gate'[p] = [gate[p] EXCEPT !.invalidAttempts = 0]
        \/ gate'[p] = [gate[p] EXCEPT !.blocked = FALSE]
    BY <1>4 DEF AttemptWindowEnds, BlockEnds, TypeOK
  <2>2. UNCHANGED <<admitted, linked>> /\ \A q \in Peer \ {p} : gate'[q] = gate[q]
    BY <1>4 DEF AttemptWindowEnds, BlockEnds, TypeOK
  <2> QED BY <1>1, <2>1, <2>2 DEF HasPendingChallenge, Gate
<1>5. CASE RestartServer
  <2>1. \A q \in Peer : gate'[q] = FreshGate
    BY <1>5 DEF RestartServer
  <2> QED BY <1>5, <2>1 DEF RestartServer, HasPendingChallenge, FreshGate
<1>6. ASSUME NEW p \in Peer, ClientNext(p)
      PROVE  UNCHANGED <<gate, admitted>> /\ linked \subseteq linked'
  BY <1>6 DEF ClientNext, LinkUp, ServerConnects, CutLink, NoticeLoss, StartClient,
              LeaveSession, BeginSessionHandshake, ClientReceives, SendClientUpdate, Repeat,
              server
<1>7. CASE SpawnNetworkObject \/ DespawnNetworkObject \/ Notify \/ UNCHANGED vars
  BY <1>2, <1>7 DEF SpawnNetworkObject, DespawnNetworkObject, Notify, server, vars
<1>8. CASE \E p \in Peer : ClientNext(p)
  BY <1>2, <1>6, <1>8
<1>9. CASE \E p \in Peer : PeerDisconnected(p)
  BY <1>3, <1>9
<1>10. CASE \E p \in Peer : AttemptWindowEnds(p) \/ BlockEnds(p)
  <2>1. PICK p \in Peer : AttemptWindowEnds(p) \/ BlockEnds(p)
    BY <1>10
  <2> QED BY <1>4, <2>1
<1> QED BY <1>5, <1>7, <1>8, <1>9, <1>10 DEF Next, ServerNext

LEMMA AdmissionStep ==
  ASSUME TypeOK, AdmittedAreAuthenticated, [Next]_vars
  PROVE  AdmittedAreAuthenticated'
<1>1. ASSUME NEW p \in Peer, ServerReceives(p)
      PROVE  AdmittedAreAuthenticated'
  <2>1. PICK h \in Gate :
           /\ gate' = [gate EXCEPT ![p] = h] /\ linked' = linked /\ p \in linked
           /\ \/ h.authenticated = gate[p].authenticated /\ admitted' = admitted
              \/ h.authenticated /\ ~gate[p].authenticated /\ AddPeer(p)
    BY <1>1, GateMoves
  <2>2. gate'[p] = h /\ \A q \in Peer \ {p} : gate'[q] = gate[q]
    BY <2>1 DEF TypeOK
  <2>3. CASE h.authenticated = gate[p].authenticated /\ admitted' = admitted
    BY <2>1, <2>2, <2>3 DEF AdmittedAreAuthenticated
  <2>4. CASE h.authenticated /\ ~gate[p].authenticated /\ AddPeer(p)
    <3>1. p \notin admitted /\ admitted \subseteq Peer
      BY <2>4 DEF AdmittedAreAuthenticated
    <3>2. Cardinality(admitted) < Cardinality(Peer)
      <4>1. /\ IsFiniteSet(Peer) /\ IsFiniteSet(admitted)
            /\ Cardinality(admitted) <= Cardinality(Peer)
            /\ Cardinality(admitted) # Cardinality(Peer)
        BY <3>1, HandshakeAssumption, FS_Subset
      <4>2. Cardinality(Peer) \in Nat /\ Cardinality(admitted) \in Nat
        BY <4>1, FS_CardinalityType
      <4> QED BY <4>1, <4>2
    <3>3. admitted' = admitted \cup {p}
      BY <2>4, <3>2 DEF AddPeer
    <3> QED BY <2>1, <2>2, <2>4, <3>3 DEF AdmittedAreAuthenticated
  <2> QED BY <2>1, <2>3, <2>4
<1>2. CASE \A p \in Peer : ~ServerReceives(p)
  <2>1. \/ /\ admitted' = admitted /\ linked \subseteq linked'
           /\ \A q \in Peer : gate'[q].authenticated = gate[q].authenticated
        \/ \E p \in Peer :
             /\ admitted' = admitted \ {p} /\ linked' = linked \ {p}
             /\ \A q \in Peer : (gate'[q].authenticated <=> q # p /\ gate[q].authenticated)
        \/ /\ admitted' = {} /\ linked' = {}
           /\ \A q \in Peer : ~gate'[q].authenticated
    BY <1>2, OtherMoves
  <2> QED BY <2>1 DEF AdmittedAreAuthenticated
<1> QED BY <1>1, <1>2

LEMMA PendingStep ==
  ASSUME TypeOK, PendingBounded, [Next]_vars
  PROVE  PendingBounded'
<1>0. IsFiniteSet(PendingHandshakes)
  BY HandshakeAssumption, FS_Subset DEF PendingHandshakes
<1>1. Cardinality(PendingHandshakes) \in Nat
  BY <1>0, FS_CardinalityType
<1>2. ASSUME PendingHandshakes' \subseteq PendingHandshakes
      PROVE  PendingBounded'
  <2>1. Cardinality(PendingHandshakes') <= Cardinality(PendingHandshakes)
    BY <1>0, <1>2, FS_Subset
  <2>2. IsFiniteSet(PendingHandshakes')
    BY <1>0, <1>2, FS_Subset
  <2>3. Cardinality(PendingHandshakes') \in Nat
    BY <2>2, FS_CardinalityType
  <2> QED BY <1>1, <2>1, <2>3, HandshakeAssumption DEF PendingBounded
<1>3. ASSUME NEW p \in Peer, PendingHandshakes' \subseteq PendingHandshakes \cup {p},
             Cardinality(PendingHandshakes) < PendingLimit
      PROVE  PendingBounded'
  <2>1. /\ IsFiniteSet(PendingHandshakes \cup {p})
        /\ Cardinality(PendingHandshakes \cup {p}) =
             IF p \in PendingHandshakes THEN Cardinality(PendingHandshakes)
                                        ELSE Cardinality(PendingHandshakes) + 1
    BY <1>0, FS_AddElement
  <2>2. /\ IsFiniteSet(PendingHandshakes')
        /\ Cardinality(PendingHandshakes') <= Cardinality(PendingHandshakes \cup {p})
    BY <1>3, <2>1, FS_Subset
  <2>3. Cardinality(PendingHandshakes') \in Nat
    BY <2>2, FS_CardinalityType
  <2> QED BY <1>1, <1>3, <2>1, <2>2, <2>3, HandshakeAssumption DEF PendingBounded
<1>4. ASSUME NEW p \in Peer, ServerReceives(p)
      PROVE  PendingBounded'
  <2>1. PICK h \in Gate :
          /\ gate' = [gate EXCEPT ![p] = h]
          /\ \/ HasPendingChallenge(h) => HasPendingChallenge(gate[p])
             \/ Cardinality(PendingHandshakes) < PendingLimit
             \/ h.authenticated
    BY <1>4, GateMoves
  <2>2. gate'[p] = h /\ \A q \in Peer \ {p} : gate'[q] = gate[q]
    BY <2>1 DEF TypeOK
  <2>3. PendingHandshakes' \subseteq PendingHandshakes \cup {p}
    BY <2>2 DEF PendingHandshakes
  <2>4. CASE HasPendingChallenge(h) => HasPendingChallenge(gate[p])
    <3>1. PendingHandshakes' \subseteq PendingHandshakes
      BY <2>2, <2>4 DEF PendingHandshakes
    <3> QED BY <1>2, <3>1
  <2>5. CASE Cardinality(PendingHandshakes) < PendingLimit
    BY <1>3, <2>3, <2>5
  <2>6. CASE h.authenticated
    BY <2>4, <2>6 DEF HasPendingChallenge
  <2> QED BY <2>1, <2>4, <2>5, <2>6
<1>5. CASE \A p \in Peer : ~ServerReceives(p)
  <2>1. \A q \in Peer : HasPendingChallenge(gate[q])' => HasPendingChallenge(gate[q])
    BY <1>5, OtherMoves
  <2>2. PendingHandshakes' \subseteq PendingHandshakes
    BY <2>1 DEF PendingHandshakes
  <2> QED BY <1>2, <2>2
<1> QED BY <1>4, <1>5

-----------------------------------------------------------------------------
LEMMA InvInit ==
  ASSUME Init
  PROVE  IInv
<1>1. TypeOK /\ \A p \in Peer : SlotOf(p)
  BY TypesInit, SlotsInit
<1>2. AdmittedAreAuthenticated
  BY DEF Init, AdmittedAreAuthenticated, FreshGate
<1>3. PendingHandshakes = {}
  BY DEF Init, PendingHandshakes, HasPendingChallenge, FreshGate
<1> QED BY <1>1, <1>2, <1>3, FS_EmptySet, HandshakeAssumption DEF IInv, PendingBounded

LEMMA InvStep ==
  ASSUME IInv, [Next]_vars
  PROVE  IInv'
<1>1. \A p \in Peer : SlotOf(p)'
  <2>1. CASE UNCHANGED vars
    BY <2>1 DEF vars, IInv, SlotOf
  <2> QED BY <2>1, ClientSlots, ServerSlots, WorldSlots DEF Next, IInv
<1> QED BY <1>1, TypesStep, AdmissionStep, PendingStep DEF IInv

\* The slots stay consistent whatever the peers do, which makes the rest inductive.
THEOREM Invariance == Spec => []IInv
  BY InvInit, InvStep, PTL DEF Spec

\* For any number of peers, m_connectedPeers, the gates and ENet's peers never disagree:
\* AddPeer never finds the server full, and no exit leaves a peer behind.
THEOREM AdmissionAgrees == Spec => []AdmittedAreAuthenticated
  BY Invariance, PTL DEF IInv

\* No client the server would refuse ever gets through a gate, its own or one that the
\* former user of the slot had opened.
THEOREM UnfitStayOut == Spec => []OnlyFitAdmitted
<1>1. IInv => OnlyFitAdmitted
  BY DEF IInv, OnlyFitAdmitted, SlotOf, Slot, Stopped
<1> QED BY <1>1, Invariance, PTL

\* The count of challenges that are out respects the limit for any limit and any peers.
THEOREM ChallengesBounded == Spec => []PendingBounded
  BY Invariance, PTL DEF IInv

\* What a client takes for its acceptance is the server's, for the nonces of this link,
\* however many challenges the link saw and whatever a faulty client repeated.
THEOREM AcceptanceIsMutual == Spec => []AcceptedIsAdmitted
<1>1. IInv => AcceptedIsAdmitted
  <2> SUFFICES ASSUME IInv, NEW p \in Peer, client[p].auth = "accepted", Reaches(p)
               PROVE  /\ p \in admitted
                      /\ gate[p].challengeSent =>
                           /\ gate[p].clientNonce = client[p].nonce
                           /\ gate[p].serverNonce = client[p].serverNonce
    BY DEF AcceptedIsAdmitted
  <2>1. gate[p].authenticated /\ Matching(client[p], gate[p], toServer[p], toClient[p])
    BY DEF IInv, SlotOf, Slot, Matching, Reaches
  <2> QED BY <2>1 DEF IInv, AdmittedAreAuthenticated, Matching, Reaches
<1> QED BY <1>1, Invariance, PTL

\* No rejection is under way to an accepted client that repeats nothing.
THEOREM AcceptanceIsFinal == Spec => []AcceptedStays
<1>1. IInv => AcceptedStays
  <2> SUFFICES ASSUME IInv, NEW p \in Peer \ Faulty, client[p].auth = "accepted", Reaches(p)
               PROVE  Reject \notin Range(toClient[p])
    BY DEF AcceptedStays
  <2>1. \A i \in DOMAIN toClient[p] : toClient[p][i].type # "Reject"
    BY DEF IInv, SlotOf, Slot, Honest, Reaches
  <2> QED BY <2>1 DEF Range, Reject
<1> QED BY <1>1, Invariance, PTL

\* For every threshold of two or more, no client that repeats nothing is ever blocked.
THEOREM HonestPass == Spec => []HonestNotBlocked
<1>1. IInv => HonestNotBlocked
  BY DEF IInv, HonestNotBlocked, SlotOf, Slot, Unsuspected
<1> QED BY <1>1, Invariance, PTL
=============================================================================
