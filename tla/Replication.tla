----------------------------- MODULE Replication -----------------------------
(***************************************************************************)
(* The state of network components on its way from the server to the       *)
(* clients: ReplicationManager's snapshots, acknowledgements and client    *)
(* updates, NetworkComponent's serialisation with its state history, and   *)
(* the dirty flags of network variables.                                   *)
(*                                                                         *)
(* A component has one transform, a coordinate, and one network variable.  *)
(* Its id is a number in the order of registration; the first SceneObjects *)
(* of them are part of the scene, the others are spawned.  Authentication  *)
(* and the spawns held meanwhile are the subject of Handshake: a peer here *)
(* is connected once the server has accepted it.                           *)
(*                                                                         *)
(* Snapshots, acknowledgements and client updates are unreliable: any may  *)
(* be lost, but ENet never delivers an older one after a newer one.        *)
(***************************************************************************)
EXTENDS Integers, Sequences, FiniteSets, SequencesExt

CONSTANTS
  Peer,           \* slots of the server's host
  Server,         \* the owner of a component no client owns
  None,           \* a property a packet leaves out, a state a history does not have
  SceneObjects,   \* how many components are part of the scene
  MaxObject,      \* bound: how many components there may be
  MaxTransform,   \* bound: the largest coordinate
  MaxValue,       \* bound: the largest value of a network variable
  Reach,          \* where each component may be moved
  Settings,       \* what the network variable of each component may be set to
  MaxTick,        \* bound: how many frames the server runs
  MaxInFlight,    \* bound: packets on a link beyond which the server waits
  Threshold,      \* MIN_STATE_SYNC_POS_THRESHOLD
  DeltaModes      \* values of m_useDeltaCompression

ASSUME ReplicationAssumption ==
  /\ Server \notin Peer
  /\ {SceneObjects, MaxObject, MaxTransform, MaxValue, MaxTick, MaxInFlight, Threshold}
       \subseteq Nat
  /\ SceneObjects <= MaxObject
  /\ Reach \in [1..MaxObject -> SUBSET (0..MaxTransform)]
  /\ Settings \in [1..MaxObject -> SUBSET (0..MaxValue)]
  /\ None \notin Int
  /\ DeltaModes \subseteq BOOLEAN

VARIABLES
  useDelta,       \* m_useDeltaCompression
  tick,           \* m_serverTick
  registered,     \* m_networkComponents: the components 1..registered
  owner,          \* m_ownerPeerID of each component
  transform,      \* the server's transforms,
  value,          \*   network variables
  dirty,          \*   and their dirty flags
  history,        \* stateHistory of the server's components, by tick
  connected,      \* m_connectedPeers, in the order they were accepted
  acked,          \* m_peerLastAckedTick
  client,         \* what each client has
  down, up,       \* packets on the way to and from each client
  sentAt          \* what the server's components were at each tick (not in the code)
vars == <<useDelta, tick, registered, owner, transform, value, dirty, history, connected,
          acked, client, down, up, sentAt>>

Object == 1..MaxObject
Transform == 0..MaxTransform
Value == 0..MaxValue
Tick == 1..MaxTick
NoTick == -1
NoHistory == [t \in Tick |-> None]

FreshClient ==
  [tick |-> 0, here |-> 1..SceneObjects, mine |-> {},
   transform |-> [o \in Object |-> 0], value |-> [o \in Object |-> 0],
   history |-> [o \in Object |-> NoHistory]]

Init ==
  /\ useDelta \in DeltaModes
  /\ tick = 0 /\ registered = SceneObjects
  /\ owner = [o \in Object |-> Server]
  /\ transform = [o \in Object |-> 0]
  /\ value = [o \in Object |-> 0]
  /\ dirty = [o \in Object |-> TRUE]
  /\ history = [o \in Object |-> NoHistory]
  /\ connected = <<>>
  /\ acked = [p \in Peer |-> NoTick]
  /\ client = [p \in Peer |-> FreshClient]
  /\ down = [p \in Peer |-> <<>>] /\ up = [p \in Peer |-> <<>>]
  /\ sentAt = [t \in Tick |-> [transform |-> transform, value |-> value]]

-----------------------------------------------------------------------------
\* NetworkComponent: its state history and what it writes and reads.

\* GetNetworkState finds something.
HasState(states, base) == base # NoTick /\ states[base] # None

\* SetLatestNetworkState: of two states with one id GetNetworkState finds the first.
Pushed(states, t, x) == IF states[t] = None THEN [states EXCEPT ![t] = x] ELSE states

Distance(x, y) == IF x < y THEN y - x ELSE x - y

\* Mutant: a network variable is written when it changed, never because there is no base.
SerializeDirtyOnly(states, base, x, isDirty, v) ==
  [transform |-> IF ~HasState(states, base) \/ Distance(x, states[base]) > Threshold
                   THEN x ELSE None,
   value |-> IF isDirty THEN v ELSE None]

Serialize(states, base, x, isDirty, v) ==
  LET hasBase == HasState(states, base)
  IN [transform |-> IF ~hasBase \/ Distance(x, states[base]) > Threshold THEN x ELSE None,
      value |-> IF isDirty \/ ~hasBase THEN v ELSE None]

\* Mutant: the base is not looked up.
FinalFromOrigin(states, base, written) == IF written # None THEN written ELSE 0

\* The transform Deserialize arrives at; without the base it falls back to the origin.
FinalTransform(states, base, written) ==
  CASE written # None -> written
    [] written = None /\ HasState(states, base) -> states[base]
    [] OTHER -> 0

-----------------------------------------------------------------------------
\* Server: the game changes its components, and the manager spawns.

IsConnected(p) == \E i \in 1..Len(connected) : connected[i] = p
ConnectedPeers == {p \in Peer : IsConnected(p)}

\* A packet appended to the links of some peers.
SentTo(links, peers, packet) ==
  [p \in Peer |-> IF p \in peers THEN Append(links[p], packet) ELSE links[p]]

MoveObject(o, x) ==
  /\ o <= registered
  /\ transform' = [transform EXCEPT ![o] = x]
  /\ UNCHANGED <<useDelta, tick, registered, owner, value, dirty, history, connected, acked,
                 client, down, up, sentAt>>

\* NetworkVariable::Set.
SetVariable(o, v) ==
  /\ o <= registered /\ value[o] # v
  /\ value' = [value EXCEPT ![o] = v]
  /\ dirty' = [dirty EXCEPT ![o] = TRUE]
  /\ UNCHANGED <<useDelta, tick, registered, owner, transform, history, connected, acked,
                 client, down, up, sentAt>>

SpawnPacket(o, who, x) == [type |-> "Spawn", id |-> o, owner |-> who, transform |-> x]

\* The part of SpawnNetworkObject that changes the server's components.
Registers(o, who, x) ==
  /\ o = registered + 1 /\ o <= MaxObject
  /\ registered' = o
  /\ owner' = [owner EXCEPT ![o] = who]
  /\ transform' = [transform EXCEPT ![o] = x]

SpawnNetworkObject(o, x) ==
  /\ Registers(o, Server, x)
  /\ down' = SentTo(down, ConnectedPeers, SpawnPacket(o, Server, x))
  /\ UNCHANGED <<useDelta, tick, value, dirty, history, connected, acked, client, up, sentAt>>

\* Spawns of the components there are; those of the scene have no spawn class.
Replayed ==
  [i \in 1..(registered - SceneObjects) |->
     SpawnPacket(SceneObjects + i, owner[SceneObjects + i], transform[SceneObjects + i])]

\* ClientConnected: a client new to its slot gets the world, and a player at a fixed place
\* (with no id left there is no prefab for one).
ClientConnected(p) ==
  /\ ~IsConnected(p)
  /\ connected' = Append(connected, p)
  /\ \/ /\ Registers(registered + 1, p, 0)
        /\ down' = SentTo([down EXCEPT ![p] = Replayed], ConnectedPeers \cup {p},
                          SpawnPacket(registered + 1, p, 0))
     \/ /\ registered = MaxObject
        /\ down' = [down EXCEPT ![p] = Replayed]
        /\ UNCHANGED <<registered, owner, transform>>
  /\ UNCHANGED <<useDelta, tick, value, dirty, history, acked, client, up, sentAt>>

\* Mutant: the last acknowledged tick of a peer outlives it.
ForgetNothing(p) == UNCHANGED acked

\* ReceivePacket, PeerDisconnected.
ForgetPeer(p) == acked' = [acked EXCEPT ![p] = NoTick]

\* The link of a client ends, and with it what was on its way; its slot is free.
Disconnect(p) ==
  /\ \E i \in 1..Len(connected) : connected[i] = p /\ connected' = RemoveAt(connected, i)
  /\ ForgetPeer(p)
  /\ client' = [client EXCEPT ![p] = FreshClient]
  /\ down' = [down EXCEPT ![p] = <<>>] /\ up' = [up EXCEPT ![p] = <<>>]
  /\ UNCHANGED <<useDelta, tick, registered, owner, transform, value, dirty, history, sentAt>>

-----------------------------------------------------------------------------
\* Server: one snapshot per frame.

\* The part of a snapshot written for the components of the server.
Components(base, flags) ==
  [o \in 1..registered |->
     Serialize(history[o], base, transform[o], flags[o], value[o])]

Snapshot(base, flags) ==
  [type |-> "Snapshot", tick |-> tick + 1, base |-> base, components |-> Components(base, flags)]

Clean == [o \in Object |-> dirty[o] /\ o > registered]

\* With delta compression the peers are served one after the other: the first one takes
\* the dirty flags.
FlagsFor(p) == IF p = connected[1] THEN dirty ELSE Clean

\* BroadcastSnapshot; packets to the peers that are not "reached" get lost.
BroadcastSnapshot(reached) ==
  down' = [p \in Peer |->
             IF p \notin reached THEN down[p]
             ELSE Append(down[p], IF useDelta THEN Snapshot(acked[p], FlagsFor(p))
                                  ELSE Snapshot(NoTick, dirty))]

\* UpdateAsServer, but for the packets received: they are steps of their own.
UpdateAsServer(reached) ==
  /\ tick < MaxTick /\ \A p \in ConnectedPeers : Len(down[p]) < MaxInFlight
  /\ reached \subseteq ConnectedPeers
  /\ tick' = tick + 1
  /\ BroadcastSnapshot(reached)
  /\ IF useDelta /\ connected = <<>>
       THEN UNCHANGED <<dirty, history>>
       ELSE /\ dirty' = Clean
            /\ history' = [o \in Object |->
                 IF o <= registered THEN Pushed(history[o], tick + 1, transform[o])
                 ELSE history[o]]
  /\ sentAt' = [sentAt EXCEPT ![tick + 1] = [transform |-> transform, value |-> value]]
  /\ UNCHANGED <<useDelta, registered, owner, transform, value, connected, acked, client, up>>

\* ReceivePacket, SnapshotAck.
SnapshotAck(p, packet) ==
  /\ packet.type = "SnapshotAck"
  /\ acked' = [acked EXCEPT ![p] = packet.tick]
  /\ UNCHANGED transform

\* ReceivePacket, ClientUpdate.
ClientUpdate(p, packet) ==
  /\ packet.type = "ClientUpdate"
  /\ transform' = IF packet.id <= registered /\ owner[packet.id] = p
                    THEN [transform EXCEPT ![packet.id] = packet.transform] ELSE transform
  /\ UNCHANGED acked

ServerReceives(p) ==
  /\ up[p] # <<>>
  /\ SnapshotAck(p, Head(up[p])) \/ ClientUpdate(p, Head(up[p]))
  /\ up' = [up EXCEPT ![p] = Tail(@)]
  /\ UNCHANGED <<useDelta, tick, registered, owner, value, dirty, history, connected, client,
                 down, sentAt>>

-----------------------------------------------------------------------------
\* Client.

\* Mutant: a snapshot is applied to the client's own components too.
AppliesToAll(c, packet) == DOMAIN packet.components \cap c.here

\* The components of a snapshot that are applied: known ones the client does not own.
Applies(c, packet) == (DOMAIN packet.components \cap c.here) \ c.mine

\* NetworkComponent::Deserialize of the component o.
Final(c, packet, o) ==
  FinalTransform(c.history[o], packet.base, packet.components[o].transform)

ReceiveSnapshot(c, packet) ==
  LET applied == Applies(c, packet)
  IN [tick |-> packet.tick, here |-> c.here, mine |-> c.mine,
      transform |-> [o \in Object |->
        IF o \in applied THEN Final(c, packet, o) ELSE c.transform[o]],
      value |-> [o \in Object |->
        IF o \in applied /\ packet.components[o].value # None
          THEN packet.components[o].value ELSE c.value[o]],
      history |-> [o \in Object |->
        IF o \in applied THEN Pushed(c.history[o], packet.tick, Final(c, packet, o))
        ELSE c.history[o]]]

\* HandleSpawnPacket.
ReceiveSpawn(p, c, packet) ==
  IF packet.id \in c.here THEN c
  ELSE [tick |-> c.tick, here |-> c.here \cup {packet.id},
        mine |-> IF packet.owner = p THEN c.mine \cup {packet.id} ELSE c.mine,
        transform |-> [c.transform EXCEPT ![packet.id] = packet.transform],
        value |-> c.value, history |-> c.history]

\* Mutant: the tick expected next is acknowledged.
AckNext(packet) == [type |-> "SnapshotAck", tick |-> packet.tick + 1]

Ack(packet) == [type |-> "SnapshotAck", tick |-> packet.tick]

\* ReceivePacket; the acknowledgement of a snapshot may get lost.
ClientReceives(p) ==
  /\ down[p] # <<>>
  /\ LET packet == Head(down[p])
     IN \/ /\ packet.type = "Snapshot"
           /\ client' = [client EXCEPT ![p] = ReceiveSnapshot(@, packet)]
           /\ up' = [up EXCEPT ![p] = Append(@, Ack(packet))] \/ UNCHANGED up
        \/ /\ packet.type = "Spawn"
           /\ client' = [client EXCEPT ![p] = ReceiveSpawn(p, @, packet)]
           /\ UNCHANGED up
  /\ down' = [down EXCEPT ![p] = Tail(@)]
  /\ UNCHANGED <<useDelta, tick, registered, owner, transform, value, dirty, history,
                 connected, acked, sentAt>>

\* The game of a client moves what it owns; SendClientUpdate tells the server, once what was
\* sent before has arrived (a bound).
MoveOwn(p, o, x) ==
  /\ o \in client[p].mine
  /\ client' = [client EXCEPT ![p].transform[o] = x]
  /\ UNCHANGED <<useDelta, tick, registered, owner, transform, value, dirty, history,
                 connected, acked, down, up, sentAt>>

SendClientUpdate(p, o) ==
  /\ o \in client[p].mine /\ up[p] = <<>>
  /\ up' = [up EXCEPT ![p] = Append(@, [type |-> "ClientUpdate", id |-> o,
                                        transform |-> client[p].transform[o]])]
  /\ UNCHANGED <<useDelta, tick, registered, owner, transform, value, dirty, history,
                 connected, acked, client, down, sentAt>>

Next ==
  \/ \E o \in Object :
       \/ \E x \in Reach[o] : MoveObject(o, x) \/ SpawnNetworkObject(o, x)
       \/ \E v \in Settings[o] : SetVariable(o, v)
  \/ \E reached \in SUBSET Peer : UpdateAsServer(reached)
  \/ \E p \in Peer :
       \/ ClientConnected(p) \/ Disconnect(p) \/ ServerReceives(p) \/ ClientReceives(p)
       \/ \E o \in Object :
            SendClientUpdate(p, o) \/ \E x \in Reach[o] : MoveOwn(p, o, x)

Spec == Init /\ [][Next]_vars

-----------------------------------------------------------------------------
States == [Object -> [Tick -> Transform \cup {None}]]

TypeOK ==
  /\ useDelta \in BOOLEAN /\ tick \in 0..MaxTick /\ registered \in SceneObjects..MaxObject
  /\ owner \in [Object -> Peer \cup {Server}]
  /\ transform \in [Object -> Transform] /\ value \in [Object -> Value]
  /\ dirty \in [Object -> BOOLEAN] /\ history \in States
  /\ acked \in [Peer -> {NoTick} \cup 1..tick]
  /\ \A p \in Peer :
       /\ client[p].tick \in 0..tick /\ client[p].mine \subseteq client[p].here
       /\ client[p].here \subseteq 1..registered /\ client[p].history \in States

(***************************************************************************)
(* The base a delta is made against is one the client has: for every peer, *)
(* the acknowledged tick and the base of every snapshot on its way are in  *)
(* the client's history of each component whose server has them, so that   *)
(* nothing left out is ever replaced by the origin.                        *)
(***************************************************************************)
Bases(p) ==
  {acked[p]} \cup {down[p][i].base :
                     i \in {j \in 1..Len(down[p]) : down[p][j].type = "Snapshot"}}

BaselineKnown ==
  \A p \in ConnectedPeers, o \in Object : \A base \in Bases(p) :
    owner[o] # p /\ HasState(history[o], base) => HasState(client[p].history[o], base)

(***************************************************************************)
(* What a client makes of the snapshot of a tick is what the server had at *)
(* that tick: exactly without delta compression, and off by no more than   *)
(* one threshold for every earlier tick with it.                           *)
(***************************************************************************)
DriftBounded ==
  \A p \in Peer, o \in Object, t \in Tick :
    HasState(client[p].history[o], t)
      => Distance(client[p].history[o][t], sentAt[t].transform[o])
           <= IF useDelta THEN (t - 1) * Threshold ELSE 0

(***************************************************************************)
(* Without delta compression a client that has the snapshot of a tick has  *)
(* the transforms and network variables the server had then.               *)
(***************************************************************************)
IsCurrent(p, o) == HasState(client[p].history[o], client[p].tick)

FullSnapshotsExact ==
  \A p \in Peer, o \in Object :
    ~useDelta /\ client[p].tick # 0 /\ IsCurrent(p, o)
      => /\ client[p].transform[o] = sentAt[client[p].tick].transform[o]
         /\ client[p].value[o] = sentAt[client[p].tick].value[o]

(***************************************************************************)
(* No packet moves what a client owns: its own transform only changes when *)
(* its game moves it, whatever the server's snapshots say.                 *)
(***************************************************************************)
OwnersKeepTheirs ==
  [][\A p \in Peer : ClientReceives(p) =>
       \A o \in client[p].mine : client'[p].transform[o] = client[p].transform[o]]_vars

(***************************************************************************)
(* Whoever has the snapshot of a tick has the network variables the server *)
(* had then.                                                               *)
(***************************************************************************)
VariablesArrive ==
  \A p \in Peer, o \in Object :
    client[p].tick # 0 /\ IsCurrent(p, o)
      => client[p].value[o] = sentAt[client[p].tick].value[o]
=============================================================================
