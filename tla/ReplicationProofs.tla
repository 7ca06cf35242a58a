--------------------------- MODULE ReplicationProofs ---------------------------
(***************************************************************************)
(* Snapshots bring clients what the server had, up to the thresholds, for  *)
(* any number of peers, components and ticks, and whatever gets lost.      *)
(*                                                                         *)
(* The invariant says, for every peer, what its client has and what is on  *)
(* its two links, seen against the server's history.  Its parts are        *)
(* operators on values: the world of the server, a client and a link, so   *)
(* that the lemmas below need to know nothing of the steps they are for.   *)
(***************************************************************************)
EXTENDS Replication, SequenceTheorems, TLAPS

-----------------------------------------------------------------------------
\* The inductive invariant.

World ==
  [delta |-> useDelta, tick |-> tick, registered |-> registered, owner |-> owner,
   history |-> history, sentAt |-> sentAt]

\* The history of a component is what it was at each tick since it was registered.
WorldOK(w) ==
  /\ w.delta \in BOOLEAN /\ w.tick \in 0..MaxTick /\ w.registered \in SceneObjects..MaxObject
  /\ w.owner \in [Object -> Peer \cup {Server}] /\ w.history \in States
  /\ \A o \in 1..SceneObjects : w.owner[o] = Server
  /\ w.sentAt = [t \in Tick |-> w.sentAt[t]]
  /\ \A t \in Tick, o \in Object :
       w.sentAt[t].transform[o] \in Transform /\ w.sentAt[t].value[o] \in Value
  /\ \A o \in Object, t \in Tick : w.history[o][t] # None =>
       t <= w.tick /\ o <= w.registered /\ w.history[o][t] = w.sentAt[t].transform[o]

\* The client has a state of tick t wherever the server, and not the client, moves things.
Known(w, p, c, t) ==
  \A o \in Object : w.owner[o] # p /\ HasState(w.history[o], t) => HasState(c.history[o], t)

Drift(w, t) == IF w.delta THEN (t - 1) * Threshold ELSE 0

Clients ==
  [tick : Nat, here : SUBSET Object, mine : SUBSET Object, transform : [Object -> Transform],
   value : [Object -> Value], history : States]

ClientOK(w, p, c) ==
  /\ c \in Clients
  /\ c.tick \in 0..w.tick /\ c.here \subseteq 1..w.registered
  /\ c.mine = {o \in c.here : w.owner[o] = p}
  /\ \A o \in Object, t \in Tick : c.history[o][t] # None =>
       /\ o \in c.here \ c.mine /\ t <= c.tick
       /\ Distance(c.history[o][t], w.sentAt[t].transform[o]) <= Drift(w, t)
  /\ \A o \in Object :
       ~w.delta /\ c.tick # 0 /\ HasState(c.history[o], c.tick) =>
         /\ c.transform[o] = w.sentAt[c.tick].transform[o]
         /\ c.value[o] = w.sentAt[c.tick].value[o]

\* What a snapshot has of the component o is its state at the tick of the snapshot, or is
\* left out because it is close to the base.
WrittenOK(w, x, o) ==
  LET written == x.components[o]
  IN /\ written.value \in Value \cup {None}
     /\ \/ written.transform = w.sentAt[x.tick].transform[o]
        \/ /\ written.transform = None /\ w.delta /\ HasState(w.history[o], x.base)
           /\ Distance(w.history[o][x.base], w.sentAt[x.tick].transform[o]) <= Threshold
     /\ ~w.delta => written.value = w.sentAt[x.tick].value[o]

SnapshotOK(w, x) ==
  /\ x.tick \in 1..w.tick /\ x.base \in {NoTick} \cup (1..(x.tick - 1))
  /\ DOMAIN x.components \subseteq 1..w.registered
  /\ \A o \in Object : HasState(w.history[o], x.tick) => o \in DOMAIN x.components
  /\ \A o \in DOMAIN x.components : WrittenOK(w, x, o)

SpawnOK(w, x) ==
  x.id \in 1..w.registered /\ x.owner = w.owner[x.id] /\ x.transform \in Transform

IsSnapshot(x) == x.type = "Snapshot"
IsSpawn(x) == x.type = "Spawn"

\* The component o is at the client, or will be once n packets have been received.
Arrives(c, d, o, n) == o \in c.here \/ \E i \in 1..n : IsSpawn(d[i]) /\ d[i].id = o

PacketOK(w, p, c, d, i) ==
  \/ IsSpawn(d[i]) /\ SpawnOK(w, d[i])
  \/ /\ IsSnapshot(d[i]) /\ SnapshotOK(w, d[i]) /\ Known(w, p, c, d[i].base)
     /\ c.tick < d[i].tick
     /\ \A j \in 1..(i - 1) : IsSnapshot(d[j]) => d[j].tick < d[i].tick
     /\ \A o \in DOMAIN d[i].components : Arrives(c, d, o, i - 1)

Written == [transform : Transform \cup {None}, value : Value \cup {None}]
Spawns ==
  [type : {"Spawn"}, id : Object, owner : Peer \cup {Server}, transform : Transform]
Snapshots ==
  [type : {"Snapshot"}, tick : Tick, base : {NoTick} \cup Tick,
   components : UNION {[1..n -> Written] : n \in 0..MaxObject}]
Acks == [type : {"SnapshotAck"}, tick : Tick]
Updates == [type : {"ClientUpdate"}, id : Object, transform : Transform]
DownPackets == Spawns \cup Snapshots
UpPackets == Acks \cup Updates

DownOK(w, p, c, d) ==
  d \in Seq(DownPackets) /\ \A i \in 1..Len(d) : PacketOK(w, p, c, d, i)

AckOK(w, p, c, x) == x.type = "SnapshotAck" => x.tick \in 1..w.tick /\ Known(w, p, c, x.tick)

UpOK(w, p, c, u) == u \in Seq(UpPackets) /\ \A i \in 1..Len(u) : AckOK(w, p, c, u[i])

AckedOK(w, p, c, a) == a \in {NoTick} \cup (1..w.tick) /\ Known(w, p, c, a)

PeerOK(w, p, c, d, u, a) ==
  ClientOK(w, p, c) /\ DownOK(w, p, c, d) /\ UpOK(w, p, c, u) /\ AckedOK(w, p, c, a)

\* A connected client has every component, or its spawn is on the way.
Complete(w, c, d) == \A o \in 1..w.registered : Arrives(c, d, o, Len(d))

Gone(c, d, u, a) == c = FreshClient /\ d = <<>> /\ u = <<>> /\ a = NoTick

ServerOK ==
  /\ transform \in [Object -> Transform] /\ value \in [Object -> Value]
  /\ dirty \in [Object -> BOOLEAN]
  /\ connected \in Seq(Peer)
  /\ \A i, j \in 1..Len(connected) : connected[i] = connected[j] => i = j

LinksTyped ==
  /\ client = [p \in Peer |-> client[p]] /\ acked = [p \in Peer |-> acked[p]]
  /\ down \in [Peer -> Seq(DownPackets)] /\ up \in [Peer -> Seq(UpPackets)]

SlotOK(p) ==
  /\ PeerOK(World, p, client[p], down[p], up[p], acked[p])
  /\ IsConnected(p) => Complete(World, client[p], down[p])
  /\ ~IsConnected(p) => Gone(client[p], down[p], up[p], acked[p])

PeersOK == \A p \in Peer : SlotOK(p)

Inv == ServerOK /\ LinksTyped /\ WorldOK(World) /\ PeersOK

-----------------------------------------------------------------------------
(***************************************************************************)
(* The constants, in the form the steps below use them.                    *)
(***************************************************************************)
LEMMA Constants ==
  /\ MaxObject \in Nat /\ MaxTick \in Nat /\ MaxTransform \in Nat /\ MaxValue \in Nat
  /\ SceneObjects \in Nat /\ SceneObjects <= MaxObject /\ Threshold \in Nat
  /\ None \notin Transform /\ None \notin Value /\ NoTick \notin Tick /\ Server \notin Peer
  /\ Tick \subseteq Nat /\ Object \subseteq Nat /\ Transform \subseteq Nat
  BY ReplicationAssumption DEF Transform, Value, NoTick, Tick, Object

(***************************************************************************)
(* What the world does as time goes on: history is only added to, and only *)
(* at new ticks; components are only added.                                *)
(***************************************************************************)
Extends(w, v) ==
  /\ v.delta = w.delta /\ w.tick <= v.tick /\ w.registered <= v.registered
  /\ \A o \in 1..w.registered : v.owner[o] = w.owner[o]
  /\ \A t \in 1..w.tick :
       v.sentAt[t] = w.sentAt[t] /\ \A o \in Object : v.history[o][t] = w.history[o][t]

\* What a client knows of a tick that has passed, it knows in every later world.
LEMMA KnownKept ==
  ASSUME NEW w, NEW v, WorldOK(w), WorldOK(v), Extends(w, v),
         NEW p \in Peer, NEW c, NEW t \in {NoTick} \cup (1..w.tick), Known(w, p, c, t)
  PROVE  Known(v, p, c, t)
<1> SUFFICES ASSUME NEW o \in Object, v.owner[o] # p, HasState(v.history[o], t)
             PROVE  HasState(c.history[o], t)
  BY DEF Known
<1>1. t \in 1..w.tick /\ t \in Tick /\ v.history[o][t] # None
  BY Constants DEF HasState, WorldOK, Tick
<1>2. HasState(w.history[o], t)
  BY <1>1 DEF HasState, Extends
<1>3. o \in 1..w.registered
  BY <1>1, <1>2, Constants DEF WorldOK, HasState, Object
<1> QED BY <1>2, <1>3 DEF Known, Extends

\* A snapshot on its way stays true of the tick it was made at.
LEMMA SnapshotKept ==
  ASSUME NEW w, NEW v, WorldOK(w), WorldOK(v), Extends(w, v), NEW x, SnapshotOK(w, x)
  PROVE  SnapshotOK(v, x)
<1>1. x.tick \in 1..w.tick /\ x.tick \in 1..v.tick /\ w.tick \in Nat /\ v.tick \in Nat
  BY Constants DEF SnapshotOK, Extends, WorldOK
<1>2. v.sentAt[x.tick] = w.sentAt[x.tick] /\ v.delta = w.delta
  BY <1>1 DEF Extends
<1>3. \A o \in Object, t \in {x.tick, x.base} :
        HasState(v.history[o], t) <=> HasState(w.history[o], t)
  BY <1>1 DEF Extends, HasState, SnapshotOK
<1>4. ASSUME NEW o \in DOMAIN x.components PROVE WrittenOK(v, x, o)
  <2>1. WrittenOK(w, x, o) /\ o \in Object
    BY Constants DEF SnapshotOK, WorldOK, Object
  <2>2. CASE x.components[o].transform = w.sentAt[x.tick].transform[o]
    BY <1>2, <2>1, <2>2 DEF WrittenOK
  <2>3. CASE x.components[o].transform # w.sentAt[x.tick].transform[o]
    <3>1. HasState(w.history[o], x.base)
      BY <2>1, <2>3 DEF WrittenOK
    <3>2. x.base \in 1..w.tick
      BY <1>1, <3>1 DEF SnapshotOK, HasState
    <3>3. v.history[o][x.base] = w.history[o][x.base] /\ HasState(v.history[o], x.base)
      BY <2>1, <3>1, <3>2 DEF Extends, HasState
    <3> QED BY <1>2, <2>1, <2>3, <3>3 DEF WrittenOK
  <2> QED BY <2>2, <2>3
<1>5. DOMAIN x.components \subseteq 1..v.registered
  BY Constants DEF SnapshotOK, Extends, WorldOK
<1> QED BY <1>1, <1>3, <1>4, <1>5 DEF SnapshotOK

\* A client that does nothing stays as it should be.
LEMMA ClientKept ==
  ASSUME NEW w, NEW v, WorldOK(w), WorldOK(v), Extends(w, v),
         NEW p \in Peer, NEW c, ClientOK(w, p, c)
  PROVE  ClientOK(v, p, c)
<1>1. /\ c.tick \in 0..w.tick /\ w.tick <= v.tick /\ w.tick \in Nat /\ v.tick \in Nat
      /\ v.delta = w.delta
  BY Constants DEF ClientOK, Extends, WorldOK
<1>2. c.here \subseteq 1..v.registered /\ \A o \in c.here : v.owner[o] = w.owner[o]
  BY Constants DEF ClientOK, Extends, WorldOK
<1>3. ASSUME NEW o \in Object, NEW t \in Tick, c.history[o][t] # None
      PROVE  /\ o \in c.here \ c.mine /\ t <= c.tick
             /\ Distance(c.history[o][t], v.sentAt[t].transform[o]) <= Drift(v, t)
  <2>1. /\ o \in c.here \ c.mine /\ t <= c.tick
        /\ Distance(c.history[o][t], w.sentAt[t].transform[o]) <= Drift(w, t)
    BY <1>3 DEF ClientOK
  <2>2. t \in 1..w.tick
    BY <1>1, <2>1, Constants DEF Tick
  <2> QED BY <1>1, <2>1, <2>2 DEF Extends, Drift
<1>4. ASSUME NEW o \in Object, ~v.delta, c.tick # 0, HasState(c.history[o], c.tick)
      PROVE  /\ c.transform[o] = v.sentAt[c.tick].transform[o]
             /\ c.value[o] = v.sentAt[c.tick].value[o]
  BY <1>1, <1>4 DEF ClientOK, Extends
<1>5. c.tick \in 0..v.tick /\ c.mine = {o \in c.here : v.owner[o] = p}
  BY <1>1, <1>2 DEF ClientOK
<1> QED BY <1>2, <1>3, <1>4, <1>5 DEF ClientOK

\* A spawn on its way stays true of its component.
LEMMA SpawnKept ==
  ASSUME NEW w, NEW v, WorldOK(w), WorldOK(v), Extends(w, v), NEW x, SpawnOK(w, x)
  PROVE  SpawnOK(v, x)
  BY Constants DEF SpawnOK, Extends, WorldOK

(***************************************************************************)
(* A peer whose client and links stay as they are is as it should be in    *)
(* every later world.                                                      *)
(***************************************************************************)
LEMMA PeerKept ==
  ASSUME NEW w, NEW v, WorldOK(w), WorldOK(v), Extends(w, v), NEW p \in Peer,
         NEW c, NEW d, NEW u, NEW a, PeerOK(w, p, c, d, u, a)
  PROVE  PeerOK(v, p, c, d, u, a)
<1>0. w.tick \in Nat /\ v.tick \in Nat /\ w.tick <= v.tick
  BY Constants DEF WorldOK, Extends
<1>1. ClientOK(v, p, c)
  BY ClientKept DEF PeerOK
<1>2. ASSUME NEW i \in 1..Len(d) PROVE PacketOK(v, p, c, d, i)
  <2>1. PacketOK(w, p, c, d, i)
    BY DEF PeerOK, DownOK
  <2>2. CASE IsSpawn(d[i]) /\ SpawnOK(w, d[i])
    BY <2>2, SpawnKept DEF PacketOK
  <2>3. CASE ~(IsSpawn(d[i]) /\ SpawnOK(w, d[i]))
    <3>1. SnapshotOK(w, d[i]) /\ Known(w, p, c, d[i].base)
      BY <2>1, <2>3 DEF PacketOK
    <3>2. d[i].base \in {NoTick} \cup (1..w.tick)
      BY <1>0, <3>1 DEF SnapshotOK
    <3>3. Known(v, p, c, d[i].base)
      BY <3>1, <3>2, KnownKept
    <3>4. SnapshotOK(v, d[i])
      BY <3>1, SnapshotKept
    <3> QED BY <2>1, <2>3, <3>3, <3>4 DEF PacketOK
  <2> QED BY <2>2, <2>3
<1>3. ASSUME NEW i \in 1..Len(u) PROVE AckOK(v, p, c, u[i])
  <2> SUFFICES ASSUME u[i].type = "SnapshotAck"
               PROVE  u[i].tick \in 1..v.tick /\ Known(v, p, c, u[i].tick)
    BY DEF AckOK
  <2>1. u[i].tick \in 1..w.tick /\ Known(w, p, c, u[i].tick)
    BY DEF PeerOK, UpOK, AckOK
  <2> QED BY <1>0, <2>1, KnownKept
<1>4. AckedOK(v, p, c, a)
  <2>1. a \in {NoTick} \cup (1..w.tick) /\ Known(w, p, c, a)
    BY DEF PeerOK, AckedOK
  <2> QED BY <1>0, <2>1, KnownKept DEF AckedOK
<1> QED BY <1>1, <1>2, <1>3, <1>4 DEF PeerOK, DownOK, UpOK

-----------------------------------------------------------------------------
(***************************************************************************)
(* Links: a packet is added at their end and taken from their front.       *)
(***************************************************************************)
LEMMA Appended ==
  ASSUME NEW S, NEW s \in Seq(S), NEW x \in S
  PROVE  /\ Append(s, x) \in Seq(S) /\ Len(Append(s, x)) = Len(s) + 1 /\ Len(s) \in Nat
         /\ \A i \in 1..Len(s) : Append(s, x)[i] = s[i]
         /\ Append(s, x)[Len(s) + 1] = x
  BY AppendProperties

\* What is going to arrive still does with one more packet behind it.
LEMMA ArrivesStill ==
  ASSUME NEW d \in Seq(DownPackets), NEW x \in DownPackets, NEW c, NEW o,
         NEW n \in 0..Len(d), Arrives(c, d, o, n)
  PROVE  Arrives(c, Append(d, x), o, n)
  BY Appended DEF Arrives

\* The packets before a new one are judged as before.
LEMMA PacketAppended ==
  ASSUME NEW w, NEW p, NEW c, NEW d, NEW x \in DownPackets, DownOK(w, p, c, d),
         PacketOK(w, p, c, Append(d, x), Len(d) + 1)
  PROVE  DownOK(w, p, c, Append(d, x))
<1> DEFINE e == Append(d, x)
<1>0. d \in Seq(DownPackets)
  BY DEF DownOK
<1>1. /\ e \in Seq(DownPackets) /\ Len(e) = Len(d) + 1 /\ Len(d) \in Nat
      /\ \A i \in 1..Len(d) : e[i] = d[i]
  BY <1>0, Appended
<1>2. ASSUME NEW i \in 1..Len(d), NEW o, Arrives(c, d, o, i - 1)
      PROVE  Arrives(c, e, o, i - 1)
  BY <1>0, <1>1, <1>2, ArrivesStill
<1> HIDE DEF e
<1>3. ASSUME NEW i \in 1..Len(d) PROVE PacketOK(w, p, c, e, i)
  BY <1>1, <1>2 DEF DownOK, PacketOK
<1>4. PacketOK(w, p, c, e, Len(d) + 1)
  BY DEF e
<1> QED BY <1>1, <1>3, <1>4 DEF DownOK, e

\* A spawn may be sent at any time.
LEMMA SpawnAppended ==
  ASSUME NEW w, NEW p, NEW c, NEW d, NEW x \in Spawns, DownOK(w, p, c, d), SpawnOK(w, x)
  PROVE  DownOK(w, p, c, Append(d, x))
<1>1. Append(d, x)[Len(d) + 1] = x /\ IsSpawn(x)
  BY Appended DEF DownOK, DownPackets, Spawns, IsSpawn
<1> QED BY <1>1, PacketAppended DEF DownPackets, PacketOK

\* Every client is sent the spawn of what is registered; a fresh link starts with it.
LEMMA CompleteAppended ==
  ASSUME NEW w, NEW v, NEW p, NEW c, NEW d, NEW x \in Spawns, DownOK(w, p, c, d),
         w.registered \in Nat, Complete(w, c, d),
         v.registered = w.registered + 1, x.id = w.registered + 1
  PROVE  Complete(v, c, Append(d, x))
<1>0. d \in Seq(DownPackets) /\ x \in DownPackets /\ Len(d) \in Nat
  BY DEF DownOK, DownPackets
<1>1. ASSUME NEW o \in 1..w.registered PROVE Arrives(c, Append(d, x), o, Len(d) + 1)
  BY <1>0, <1>1, ArrivesStill DEF Complete, Arrives
<1>2. Arrives(c, Append(d, x), w.registered + 1, Len(d) + 1)
  BY <1>0, Appended DEF Arrives, IsSpawn, Spawns
<1>3. Len(Append(d, x)) = Len(d) + 1
  BY <1>0, Appended
<1> QED BY <1>1, <1>2, <1>3 DEF Complete

\* A snapshot may be sent behind every spawn it needs and every older snapshot.
LEMMA SnapshotAppended ==
  ASSUME NEW w, NEW p, NEW c, NEW d, NEW x \in Snapshots, DownOK(w, p, c, d),
         Complete(w, c, d), SnapshotOK(w, x), Known(w, p, c, x.base), c.tick < x.tick,
         \A i \in 1..Len(d) : IsSnapshot(d[i]) => d[i].tick < x.tick
  PROVE  DownOK(w, p, c, Append(d, x)) /\ Complete(w, c, Append(d, x))
<1> DEFINE e == Append(d, x)
<1>0. d \in Seq(DownPackets) /\ x \in DownPackets
  BY DEF DownOK, DownPackets
<1>1. /\ Len(e) = Len(d) + 1 /\ Len(d) \in Nat /\ \A i \in 1..Len(d) : e[i] = d[i]
      /\ e[Len(d) + 1] = x
  BY <1>0, Appended
<1>2. \A o \in 1..w.registered : Arrives(c, e, o, Len(d))
  BY <1>0, <1>1, ArrivesStill DEF Complete
<1> HIDE DEF e
<1>3. IsSnapshot(x) /\ DOMAIN x.components \subseteq 1..w.registered
  BY DEF Snapshots, IsSnapshot, SnapshotOK
<1>4. \A o \in DOMAIN x.components : Arrives(c, e, o, Len(d))
  BY <1>2, <1>3
<1>5. PacketOK(w, p, c, e, Len(d) + 1)
  BY <1>1, <1>3, <1>4 DEF PacketOK
<1>6. Complete(w, c, e)
  BY <1>1, <1>2 DEF Complete, Arrives
<1> QED BY <1>0, <1>5, <1>6, PacketAppended DEF e

\* What a client must have done with the packet it takes from its link.
Takes(c, x, e) ==
  /\ c.here \subseteq e.here
  /\ IsSpawn(x) => x.id \in e.here /\ e.tick = c.tick
  /\ IsSnapshot(x) => e.tick = x.tick

\* A client never loses a state.
Keeps(c, e) ==
  \A o \in Object : \A t \in Tick : c.history[o][t] # None => e.history[o][t] # None

\* A client that loses no state knows what it knew.
LEMMA KnownLater ==
  ASSUME NEW w, NEW p, NEW c, NEW e, NEW t \in {NoTick} \cup Tick, Keeps(c, e),
         Known(w, p, c, t)
  PROVE  Known(w, p, e, t)
  BY DEF Known, HasState, Keeps

\* Once a client has taken the first packet, the rest of its link is in order for it.
LEMMA PacketTaken ==
  ASSUME NEW w, NEW p, NEW c, NEW d, NEW e, WorldOK(w), DownOK(w, p, c, d), d # <<>>,
         Takes(c, Head(d), e), Keeps(c, e)
  PROVE  /\ DownOK(w, p, e, Tail(d))
         /\ Complete(w, c, d) => Complete(w, e, Tail(d))
<1> DEFINE f == Tail(d)
<1>0. d \in Seq(DownPackets) /\ Head(d) = d[1] /\ Len(d) \in Nat /\ 1 \in 1..Len(d)
  BY DEF DownOK
<1>1. f \in Seq(DownPackets) /\ Len(f) = Len(d) - 1 /\ \A i \in 1..Len(f) : f[i] = d[i + 1]
  BY <1>0, HeadTailProperties
<1> HIDE DEF f
<1>2. ASSUME NEW o, NEW n \in 1..Len(d), Arrives(c, d, o, n) PROVE Arrives(e, f, o, n - 1)
  <2>1. CASE o \in c.here
    BY <2>1 DEF Takes, Arrives
  <2>2. CASE o \notin c.here
    <3>1. PICK i \in 1..n : IsSpawn(d[i]) /\ d[i].id = o
      BY <1>2, <2>2 DEF Arrives
    <3>2. CASE i = 1
      BY <1>0, <3>1, <3>2 DEF Takes, Arrives
    <3>3. CASE i # 1
      <4>1. i - 1 \in 1..(n - 1) /\ i - 1 \in 1..Len(f)
        BY <1>0, <1>1, <3>3
      <4>2. f[i - 1] = d[i]
        BY <1>1, <4>1
      <4> QED BY <3>1, <4>1, <4>2 DEF Arrives
    <3> QED BY <3>2, <3>3
  <2> QED BY <2>1, <2>2
<1>3. ASSUME NEW i \in 1..Len(f) PROVE PacketOK(w, p, e, f, i)
  <2>0. i + 1 \in 1..Len(d) /\ f[i] = d[i + 1] /\ i \in Nat /\ i \in 1..Len(d)
    BY <1>0, <1>1
  <2>1. PacketOK(w, p, c, d, i + 1) /\ PacketOK(w, p, c, d, 1)
    BY <1>0, <2>0 DEF DownOK
  <2>2. CASE IsSpawn(d[i + 1]) /\ SpawnOK(w, d[i + 1])
    BY <2>0, <2>2 DEF PacketOK
  <2>3. CASE ~(IsSpawn(d[i + 1]) /\ SpawnOK(w, d[i + 1]))
    <3>1. /\ IsSnapshot(d[i + 1]) /\ SnapshotOK(w, d[i + 1])
          /\ Known(w, p, c, d[i + 1].base) /\ c.tick < d[i + 1].tick
          /\ \A j \in 1..i : IsSnapshot(d[j]) => d[j].tick < d[i + 1].tick
          /\ \A o \in DOMAIN d[i + 1].components : Arrives(c, d, o, i)
      BY <2>0, <2>1, <2>3 DEF PacketOK
    <3>2. Known(w, p, e, d[i + 1].base)
      <4>1. d[i + 1].base \in {NoTick} \cup Tick
        BY <3>1, Constants DEF SnapshotOK, WorldOK, Tick
      <4> QED BY <3>1, <4>1, KnownLater
    <3>3. e.tick < d[i + 1].tick
      BY <1>0, <2>0, <2>1, <3>1 DEF Takes, PacketOK
    <3>4. \A j \in 1..(i - 1) : IsSnapshot(f[j]) => f[j].tick < d[i + 1].tick
      <4> SUFFICES ASSUME NEW j \in 1..(i - 1), IsSnapshot(f[j])
                   PROVE  f[j].tick < d[i + 1].tick
        OBVIOUS
      <4>1. f[j] = d[j + 1] /\ j + 1 \in 1..i
        BY <1>1, <2>0
      <4> QED BY <3>1, <4>1
    <3>5. \A o \in DOMAIN d[i + 1].components : Arrives(e, f, o, i - 1)
      BY <1>2, <2>0, <3>1
    <3> QED BY <2>0, <3>1, <3>2, <3>3, <3>4, <3>5 DEF PacketOK
  <2> QED BY <2>2, <2>3
<1>4. ASSUME Complete(w, c, d) PROVE Complete(w, e, f)
  <2>1. Len(d) \in 1..Len(d) /\ Len(f) = Len(d) - 1
    BY <1>0, <1>1
  <2> QED BY <1>2, <1>4, <2>1 DEF Complete
<1> QED BY <1>1, <1>3, <1>4 DEF DownOK, f

\* An acknowledgement the client may send.
LEMMA AckAppended ==
  ASSUME NEW w, NEW p, NEW c, NEW u, NEW x \in UpPackets, UpOK(w, p, c, u),
         AckOK(w, p, c, x)
  PROVE  UpOK(w, p, c, Append(u, x))
<1>1. /\ Append(u, x) \in Seq(UpPackets) /\ Len(Append(u, x)) = Len(u) + 1 /\ Len(u) \in Nat
      /\ \A i \in 1..Len(u) : Append(u, x)[i] = u[i]
      /\ Append(u, x)[Len(u) + 1] = x
  BY Appended DEF UpOK
<1>2. ASSUME NEW i \in 1..(Len(u) + 1) PROVE AckOK(w, p, c, Append(u, x)[i])
  <2>1. CASE i = Len(u) + 1
    BY <1>1, <2>1
  <2>2. CASE i # Len(u) + 1
    BY <1>1, <2>2 DEF UpOK
  <2> QED BY <2>1, <2>2
<1> QED BY <1>1, <1>2 DEF UpOK

\* An acknowledgement the server takes is one the client may have sent.
LEMMA AckTaken ==
  ASSUME NEW w, NEW p, NEW c, NEW u, UpOK(w, p, c, u), u # <<>>
  PROVE  UpOK(w, p, c, Tail(u)) /\ Head(u) \in UpPackets /\ AckOK(w, p, c, Head(u))
<1>1. /\ Tail(u) \in Seq(UpPackets) /\ Len(Tail(u)) = Len(u) - 1 /\ Len(u) \in Nat
      /\ \A i \in 1..Len(Tail(u)) : Tail(u)[i] = u[i + 1]
  BY HeadTailProperties DEF UpOK
<1>2. Head(u) = u[1] /\ 1 \in 1..Len(u) /\ u[1] \in UpPackets
  BY DEF UpOK
<1>3. ASSUME NEW i \in 1..Len(Tail(u)) PROVE AckOK(w, p, c, Tail(u)[i])
  <2>1. i + 1 \in 1..Len(u)
    BY <1>1
  <2> QED BY <1>1, <2>1 DEF UpOK
<1> QED BY <1>1, <1>2, <1>3 DEF UpOK

\* Acknowledgements, sent or received, outlive what the client does next.
LEMMA UpKept ==
  ASSUME NEW w, WorldOK(w), NEW p, NEW c, NEW e, NEW u, NEW a, Keeps(c, e),
         UpOK(w, p, c, u), AckedOK(w, p, c, a)
  PROVE  UpOK(w, p, e, u) /\ AckedOK(w, p, e, a)
<1>0. 1..w.tick \subseteq Tick
  BY Constants DEF WorldOK, Tick
<1>1. ASSUME NEW i \in 1..Len(u) PROVE AckOK(w, p, e, u[i])
  <2> SUFFICES ASSUME u[i].type = "SnapshotAck"
               PROVE  u[i].tick \in 1..w.tick /\ Known(w, p, e, u[i].tick)
    BY DEF AckOK
  <2>1. u[i].tick \in 1..w.tick /\ Known(w, p, c, u[i].tick)
    BY DEF UpOK, AckOK
  <2> QED BY <1>0, <2>1, KnownLater
<1>2. AckedOK(w, p, e, a)
  <2>1. a \in {NoTick} \cup Tick /\ Known(w, p, c, a)
    BY <1>0 DEF AckedOK
  <2> QED BY <2>1, KnownLater DEF AckedOK
<1> QED BY <1>1, <1>2 DEF UpOK

-----------------------------------------------------------------------------
(***************************************************************************)
(* The arithmetic of errors: what is off by a threshold from a base that   *)
(* is off by one threshold per tick is off by one more.                    *)
(***************************************************************************)
LEMMA Triangle ==
  ASSUME NEW x \in Nat, NEW y \in Nat, NEW z \in Nat
  PROVE  /\ Distance(x, z) <= Distance(x, y) + Distance(y, z)
         /\ Distance(x, x) = 0 /\ Distance(x, y) \in Nat
  BY DEF Distance

\* A threshold more than the errors of an earlier tick is within those of a later one.
LEMMA OneMore ==
  ASSUME NEW b \in Nat, NEW t \in Nat, 1 <= b, b < t, NEW n \in Nat
  PROVE  (b - 1) * n + n <= (t - 1) * n /\ (t - 1) * n \in Nat
<1>1. (b - 1) * n + n = b * n
  OBVIOUS
<1>2. PICK k \in Nat : t - 1 = b + k
  <2>1. t - 1 - b \in Nat /\ t - 1 = b + (t - 1 - b)
    OBVIOUS
  <2> QED BY <2>1
<1>3. (t - 1) * n = b * n + k * n /\ k * n \in Nat /\ b * n \in Nat
  BY <1>2
<1> QED BY <1>1, <1>3

\* The error allowed at a tick is a number.
LEMMA DriftNatural ==
  ASSUME NEW w, NEW t \in Nat, 1 <= t
  PROVE  Drift(w, t) \in Nat
<1>1. t - 1 \in Nat /\ Threshold \in Nat
  BY Constants
<1>2. (t - 1) * Threshold \in Nat
  BY <1>1
<1> QED BY <1>2 DEF Drift

(***************************************************************************)
(* What a client makes of a component in a snapshot is close to what the   *)
(* server had at the tick of the snapshot.                                 *)
(***************************************************************************)
LEMMA FinalClose ==
  ASSUME NEW w, WorldOK(w), NEW p \in Peer, NEW c, ClientOK(w, p, c),
         NEW x \in Snapshots, SnapshotOK(w, x), Known(w, p, c, x.base),
         NEW o \in Applies(c, x)
  PROVE  /\ Final(c, x, o) \in Transform
         /\ Distance(Final(c, x, o), w.sentAt[x.tick].transform[o]) <= Drift(w, x.tick)
         /\ ~w.delta => Final(c, x, o) = w.sentAt[x.tick].transform[o]
<1> DEFINE written == x.components[o].transform
           sent == w.sentAt[x.tick].transform[o]
<1>1. /\ o \in Object /\ o \in DOMAIN x.components /\ o \in c.here /\ w.owner[o] # p
      /\ WrittenOK(w, x, o)
  BY DEF Applies, ClientOK, Clients, SnapshotOK
<1>2. x.tick \in Tick /\ x.tick \in Nat /\ 1 <= x.tick /\ sent \in Transform /\ sent \in Nat
  <2>1. x.tick \in 1..w.tick /\ w.tick \in 0..MaxTick /\ MaxTick \in Nat
    BY Constants DEF SnapshotOK, WorldOK
  <2>2. x.tick \in Tick /\ x.tick \in Nat /\ 1 <= x.tick
    BY <2>1 DEF Tick
  <2>3. sent \in Transform
    BY <1>1, <2>2 DEF WorldOK
  <2> QED BY <2>2, <2>3, Constants
<1>3. Final(c, x, o) = FinalTransform(c.history[o], x.base, written)
  BY DEF Final
<1>4. CASE written = sent
  <2>1. Final(c, x, o) = sent
    BY <1>2, <1>3, <1>4, Constants DEF FinalTransform
  <2>2. Distance(sent, sent) = 0 /\ Drift(w, x.tick) \in Nat
    <3> HIDE DEF sent
    <3> QED BY <1>2, Triangle, DriftNatural
  <2> QED BY <1>2, <2>1, <2>2
<1>5. CASE written # sent
  <2> DEFINE base == x.base
             mine == c.history[o][x.base]
  <2>1. /\ written = None /\ w.delta /\ HasState(w.history[o], base)
        /\ Distance(w.history[o][base], sent) <= Threshold
    BY <1>1, <1>5 DEF WrittenOK
  <2>2. HasState(c.history[o], base)
    BY <1>1, <2>1 DEF Known
  <2>3. base \in Tick /\ base \in Nat /\ 1 <= base /\ base < x.tick
    BY <1>2, <2>1, Constants DEF SnapshotOK, HasState, WorldOK, Tick
  <2>4. Final(c, x, o) = mine
    BY <1>3, <2>1, <2>2 DEF FinalTransform
  <2>5. mine \in Transform /\ mine \in Nat
    <3>1. c.history \in [Object -> [Tick -> Transform \cup {None}]]
      BY DEF ClientOK, Clients, States
    <3>2. mine \in Transform \cup {None}
      BY <1>1, <2>3, <3>1
    <3> QED BY <2>2, <3>2, Constants DEF HasState
  <2>6. Distance(mine, w.sentAt[base].transform[o]) <= (base - 1) * Threshold
    BY <1>1, <2>1, <2>2, <2>3 DEF ClientOK, HasState, Drift
  <2>7. w.history[o][base] = w.sentAt[base].transform[o]
    BY <1>1, <2>1, <2>3 DEF WorldOK, HasState
  <2>8. w.sentAt[base].transform[o] \in Nat
    BY <1>1, <2>3, Constants DEF WorldOK
  <2> DEFINE there == w.sentAt[base].transform[o]
             far == (base - 1) * Threshold
             further == (x.tick - 1) * Threshold
  <2>9. far + Threshold <= further /\ far \in Nat /\ further \in Nat /\ Threshold \in Nat
    <3>1. base - 1 \in Nat /\ Threshold \in Nat
      BY <2>3, Constants
    <3>2. far \in Nat
      BY <3>1
    <3> QED BY <1>2, <2>3, <3>1, <3>2, OneMore
  <2>10. Distance(mine, sent) <= Distance(mine, there) + Distance(there, sent)
    BY <1>2, <2>5, <2>8, Triangle
  <2>11. Distance(there, sent) <= Threshold /\ Distance(mine, there) <= far
    BY <2>1, <2>6, <2>7
  <2>12. /\ Distance(mine, sent) \in Nat /\ Distance(mine, there) \in Nat
         /\ Distance(there, sent) \in Nat
    BY <1>2, <2>5, <2>8, Triangle
  <2>13. Distance(mine, sent) <= further
    <3> HIDE DEF far, further, mine, there, sent
    <3> QED BY <2>9, <2>10, <2>11, <2>12
  <2>14. Drift(w, x.tick) = further
    BY <2>1 DEF Drift
  <2> QED BY <2>1, <2>4, <2>5, <2>13, <2>14
<1> QED BY <1>4, <1>5

(***************************************************************************)
(* A client that applies a snapshot has, at its tick, a state of every     *)
(* component the server moves, no further off than allowed.                *)
(***************************************************************************)
LEMMA SnapshotTaken ==
  ASSUME NEW w, WorldOK(w), NEW p \in Peer, NEW c, ClientOK(w, p, c),
         NEW x \in Snapshots, SnapshotOK(w, x), Known(w, p, c, x.base), c.tick < x.tick,
         DOMAIN x.components \subseteq c.here
  PROVE  /\ ClientOK(w, p, ReceiveSnapshot(c, x)) /\ Takes(c, x, ReceiveSnapshot(c, x))
         /\ Keeps(c, ReceiveSnapshot(c, x)) /\ Known(w, p, ReceiveSnapshot(c, x), x.tick)
<1> DEFINE applied == Applies(c, x)
           final(o) == Final(c, x, o)
           e == ReceiveSnapshot(c, x)
           sent(o) == w.sentAt[x.tick].transform[o]
<1>1. /\ x.tick \in Tick /\ x.tick \in Nat /\ x.tick \in 1..w.tick
      /\ c.tick \in Nat /\ c \in Clients
  BY Constants DEF SnapshotOK, WorldOK, Snapshots, ClientOK, Clients
<1>2. /\ applied \subseteq Object /\ applied \subseteq c.here
      /\ \A o \in applied : o \in DOMAIN x.components /\ o \notin c.mine /\ w.owner[o] # p
  BY DEF Applies, ClientOK, Clients
<1>3. \A o \in applied :
        /\ final(o) \in Transform /\ final(o) # None
        /\ Distance(final(o), sent(o)) <= Drift(w, x.tick)
        /\ ~w.delta => final(o) = sent(o)
  BY FinalClose, Constants
<1>4. /\ e.tick = x.tick /\ e.here = c.here /\ e.mine = c.mine
      /\ e.transform = [o \in Object |-> IF o \in applied THEN final(o) ELSE c.transform[o]]
      /\ e.value = [o \in Object |->
           IF o \in applied /\ x.components[o].value # None THEN x.components[o].value
           ELSE c.value[o]]
      /\ e.history = [o \in Object |->
           IF o \in applied THEN Pushed(c.history[o], x.tick, final(o)) ELSE c.history[o]]
      /\ e = [tick |-> e.tick, here |-> e.here, mine |-> e.mine, transform |-> e.transform,
              value |-> e.value, history |-> e.history]
  BY DEF ReceiveSnapshot
<1>5. \A o \in applied :
        x.components[o].value \in Value \cup {None}
          /\ (~w.delta => x.components[o].value = w.sentAt[x.tick].value[o])
  BY <1>2 DEF SnapshotOK, WrittenOK
<1> HIDE DEF applied, final, e, sent
<1>6. \A o \in Object : c.history[o] \in [Tick -> Transform \cup {None}]
  BY <1>1 DEF Clients, States
<1>7. \A o \in Object, t \in Tick :
        e.history[o][t] = IF o \in applied /\ t = x.tick /\ c.history[o][t] = None
                            THEN final(o) ELSE c.history[o][t]
  BY <1>1, <1>4, <1>6 DEF Pushed
<1>8. e \in Clients
  <2>1. e.transform \in [Object -> Transform]
    BY <1>1, <1>3, <1>4 DEF Clients
  <2>2. e.value \in [Object -> Value]
    BY <1>1, <1>4, <1>5 DEF Clients
  <2>3. e.history \in States
    <3>1. ASSUME NEW o \in Object PROVE e.history[o] \in [Tick -> Transform \cup {None}]
      BY <1>1, <1>3, <1>4, <1>6 DEF Pushed
    <3> QED BY <1>4, <3>1 DEF States
  <2>4. e.tick \in Nat /\ e.here \in SUBSET Object /\ e.mine \in SUBSET Object
    BY <1>1, <1>4 DEF Clients
  <2> QED BY <1>4, <2>1, <2>2, <2>3, <2>4 DEF Clients
<1>9. ASSUME NEW o \in Object, NEW t \in Tick, e.history[o][t] # None
      PROVE  /\ o \in e.here \ e.mine /\ t <= e.tick
             /\ Distance(e.history[o][t], w.sentAt[t].transform[o]) <= Drift(w, t)
  <2>1. CASE o \in applied /\ t = x.tick /\ c.history[o][t] = None
    BY <1>1, <1>2, <1>3, <1>4, <1>7, <2>1 DEF sent
  <2>2. CASE ~(o \in applied /\ t = x.tick /\ c.history[o][t] = None)
    <3>1. e.history[o][t] = c.history[o][t] /\ c.history[o][t] # None
      BY <1>7, <1>9, <2>2
    <3>2. /\ o \in c.here \ c.mine /\ t <= c.tick
          /\ Distance(c.history[o][t], w.sentAt[t].transform[o]) <= Drift(w, t)
      BY <3>1 DEF ClientOK
    <3>3. t <= e.tick
      BY <1>1, <1>4, <3>2, Constants
    <3> QED BY <1>4, <3>1, <3>2, <3>3
  <2> QED BY <2>1, <2>2
<1>10. ASSUME NEW o \in Object, ~w.delta, HasState(e.history[o], e.tick)
       PROVE  /\ e.transform[o] = w.sentAt[e.tick].transform[o]
              /\ e.value[o] = w.sentAt[e.tick].value[o]
  <2>1. c.history[o][x.tick] = None
    BY <1>1 DEF ClientOK
  <2>2. o \in applied
    BY <1>1, <1>4, <1>7, <1>10, <2>1 DEF HasState
  <2>3. w.sentAt[x.tick].value[o] \in Value
    BY <1>1 DEF WorldOK
  <2>4. x.components[o].value # None
    BY <1>5, <1>10, <2>2, <2>3, Constants
  <2> QED BY <1>3, <1>4, <1>5, <1>10, <2>2, <2>4 DEF sent
<1>11. ClientOK(w, p, e)
  <2>1. e.tick \in 0..w.tick /\ e.here \subseteq 1..w.registered
    BY <1>1, <1>4 DEF ClientOK, WorldOK
  <2>2. e.mine = {o \in e.here : w.owner[o] = p}
    BY <1>4 DEF ClientOK
  <2> QED BY <1>8, <1>9, <1>10, <2>1, <2>2 DEF ClientOK
<1>12. Takes(c, x, e)
  BY <1>4 DEF Takes, IsSpawn, IsSnapshot, Snapshots
<1>13. Keeps(c, e)
  BY <1>3, <1>7 DEF Keeps
<1>14. Known(w, p, e, x.tick)
  <2> SUFFICES ASSUME NEW o \in Object, w.owner[o] # p, HasState(w.history[o], x.tick)
               PROVE  HasState(e.history[o], x.tick)
    BY DEF Known
  <2>1. o \in DOMAIN x.components /\ o \in c.here /\ o \notin c.mine
    BY DEF SnapshotOK, ClientOK
  <2>2. o \in applied
    BY <2>1 DEF applied, Applies
  <2> QED BY <1>1, <1>3, <1>7, <2>2, Constants DEF HasState
<1> QED BY <1>11, <1>12, <1>13, <1>14 DEF e

(***************************************************************************)
(* A client that spawns a component had no state of it, and owns it if the *)
(* server says so.                                                         *)
(***************************************************************************)
LEMMA SpawnTaken ==
  ASSUME NEW w, WorldOK(w), NEW p \in Peer, NEW c, ClientOK(w, p, c),
         NEW x \in Spawns, SpawnOK(w, x)
  PROVE  /\ ClientOK(w, p, ReceiveSpawn(p, c, x)) /\ Takes(c, x, ReceiveSpawn(p, c, x))
         /\ Keeps(c, ReceiveSpawn(p, c, x))
<1> DEFINE e == ReceiveSpawn(p, c, x)
<1>0. ~IsSnapshot(x) /\ x.id \in Object /\ x.transform \in Transform
  BY DEF IsSnapshot, Spawns
<1>1. CASE x.id \in c.here
  <2>1. e = c
    BY <1>1 DEF ReceiveSpawn
  <2> QED BY <1>0, <1>1, <2>1 DEF Takes, Keeps
<1>2. CASE x.id \notin c.here
  <2>1. /\ e.tick = c.tick /\ e.here = c.here \cup {x.id}
        /\ e.mine = IF x.owner = p THEN c.mine \cup {x.id} ELSE c.mine
        /\ e.transform = [c.transform EXCEPT ![x.id] = x.transform]
        /\ e.value = c.value /\ e.history = c.history
        /\ e = [tick |-> e.tick, here |-> e.here, mine |-> e.mine,
                transform |-> e.transform, value |-> e.value, history |-> e.history]
    BY <1>2 DEF ReceiveSpawn
  <2> HIDE DEF e
  <2>2. c \in Clients /\ c.tick \in 0..w.tick
    BY DEF ClientOK
  <2>3. e \in Clients
    <3>1. e.transform \in [Object -> Transform]
      BY <1>0, <2>1, <2>2 DEF Clients
    <3>2. /\ e.tick \in Nat /\ e.here \in SUBSET Object /\ e.mine \in SUBSET Object
          /\ e.value \in [Object -> Value] /\ e.history \in States
      BY <1>0, <2>1, <2>2 DEF Clients
    <3> QED BY <2>1, <3>1, <3>2 DEF Clients
  <2>4. e.here \subseteq 1..w.registered /\ e.mine = {o \in e.here : w.owner[o] = p}
    BY <1>2, <2>1 DEF ClientOK, SpawnOK
  <2>5. \A t \in Tick : c.history[x.id][t] = None
    BY <1>0, <1>2 DEF ClientOK
  <2>6. ASSUME NEW o \in Object, NEW t \in Tick, e.history[o][t] # None
        PROVE  /\ o \in e.here \ e.mine /\ t <= e.tick
               /\ Distance(e.history[o][t], w.sentAt[t].transform[o]) <= Drift(w, t)
    BY <2>1, <2>5, <2>6 DEF ClientOK
  <2>7. ASSUME NEW o \in Object, ~w.delta, e.tick # 0, HasState(e.history[o], e.tick)
        PROVE  /\ e.transform[o] = w.sentAt[e.tick].transform[o]
               /\ e.value[o] = w.sentAt[e.tick].value[o]
    <3>1. c.tick \in Tick
      BY <2>1, <2>2, <2>7, Constants DEF WorldOK, Tick
    <3>2. o # x.id /\ HasState(c.history[o], c.tick)
      BY <2>1, <2>5, <2>7, <3>1 DEF HasState
    <3>3. e.transform[o] = c.transform[o]
      BY <2>1, <2>2, <3>2 DEF Clients
    <3> QED BY <2>1, <2>7, <3>2, <3>3 DEF ClientOK
  <2>8. ClientOK(w, p, e)
    BY <2>1, <2>2, <2>3, <2>4, <2>6, <2>7 DEF ClientOK
  <2> QED BY <1>0, <2>1, <2>8 DEF Takes, Keeps, e
<1> QED BY <1>1, <1>2

(***************************************************************************)
(* The game of a client may move what the client owns: it has no states of *)
(* those.                                                                  *)
(***************************************************************************)
LEMMA OwnMoved ==
  ASSUME NEW w, WorldOK(w), NEW p \in Peer, NEW c, ClientOK(w, p, c),
         NEW m \in c.mine, NEW x \in Transform, NEW e, e = [c EXCEPT !.transform[m] = x]
  PROVE  ClientOK(w, p, e) /\ Keeps(c, e) /\ e.tick = c.tick /\ e.here = c.here
<1>1. c \in Clients /\ c.tick \in 0..w.tick /\ m \in Object
  BY DEF ClientOK, Clients
<1>2. /\ e.tick = c.tick /\ e.here = c.here /\ e.mine = c.mine
      /\ e.transform = [c.transform EXCEPT ![m] = x]
      /\ e.value = c.value /\ e.history = c.history /\ e \in Clients
  BY <1>1 DEF Clients
<1>3. \A t \in Tick : c.history[m][t] = None
  BY <1>1 DEF ClientOK
<1>4. ASSUME NEW o \in Object, ~w.delta, e.tick # 0, HasState(e.history[o], e.tick)
      PROVE  /\ e.transform[o] = w.sentAt[e.tick].transform[o]
             /\ e.value[o] = w.sentAt[e.tick].value[o]
  <2>1. c.tick \in Tick
    BY <1>1, <1>2, <1>4, Constants DEF WorldOK, Tick
  <2>2. o # m /\ HasState(c.history[o], c.tick)
    BY <1>2, <1>3, <1>4, <2>1 DEF HasState
  <2>3. e.transform[o] = c.transform[o]
    BY <1>1, <1>2, <2>2 DEF Clients
  <2> QED BY <1>2, <1>4, <2>2, <2>3 DEF ClientOK
<1>5. \A o \in Object, t \in Tick : e.history[o][t] # None =>
        /\ o \in e.here \ e.mine /\ t <= e.tick
        /\ Distance(e.history[o][t], w.sentAt[t].transform[o]) <= Drift(w, t)
  BY <1>2 DEF ClientOK
<1>6. ClientOK(w, p, e)
  BY <1>1, <1>2, <1>4, <1>5 DEF ClientOK
<1> QED BY <1>2, <1>6 DEF Keeps

-----------------------------------------------------------------------------
(***************************************************************************)
(* A free slot, and the links of a client that is new to it.               *)
(***************************************************************************)
LEMMA FreshPeer ==
  ASSUME NEW w, WorldOK(w), NEW p \in Peer
  PROVE  PeerOK(w, p, FreshClient, <<>>, <<>>, NoTick)
<1> DEFINE c == FreshClient
<1>1. /\ c.tick = 0 /\ c.here = 1..SceneObjects /\ c.mine = {}
      /\ c.transform = [o \in Object |-> 0] /\ c.value = [o \in Object |-> 0]
      /\ c.history = [o \in Object |-> NoHistory]
  BY DEF FreshClient
<1>2. \A o \in Object, t \in Tick : c.history[o][t] = None
  BY <1>1 DEF NoHistory
<1>3. c \in Clients
  <2>1. c.history \in States
    BY <1>1 DEF States, NoHistory
  <2>2. 0 \in Transform /\ 0 \in Value /\ 1..SceneObjects \in SUBSET Object
    BY Constants DEF Transform, Value, Object
  <2> QED BY <2>1, <2>2 DEF Clients, FreshClient
<1>4. ClientOK(w, p, c)
  <2>1. w.registered \in Nat /\ SceneObjects <= w.registered /\ w.tick \in Nat
    BY Constants DEF WorldOK
  <2>2. c.here \subseteq 1..w.registered /\ c.tick \in 0..w.tick
    BY <1>1, <2>1, Constants
  <2>3. c.mine = {o \in c.here : w.owner[o] = p}
    BY <1>1, Constants DEF WorldOK
  <2> HIDE DEF c
  <2> QED BY <1>1, <1>2, <1>3, <2>2, <2>3 DEF ClientOK
<1>5. DownOK(w, p, c, <<>>) /\ UpOK(w, p, c, <<>>)
  BY DEF DownOK, UpOK
<1>6. AckedOK(w, p, c, NoTick)
  BY DEF AckedOK, Known, HasState
<1> QED BY <1>4, <1>5, <1>6 DEF PeerOK

\* The spawns of the components there are bring a new client all of them.
LEMMA WorldReplayed ==
  ASSUME NEW w, WorldOK(w), NEW p \in Peer, NEW x \in [Object -> Transform],
         NEW d, d = [i \in 1..(w.registered - SceneObjects) |->
                       SpawnPacket(SceneObjects + i, w.owner[SceneObjects + i],
                                   x[SceneObjects + i])]
  PROVE  DownOK(w, p, FreshClient, d) /\ Complete(w, FreshClient, d)
<1> DEFINE n == w.registered - SceneObjects
<1>1. /\ w.registered \in Nat /\ n \in Nat /\ SceneObjects \in Nat
      /\ SceneObjects <= w.registered /\ w.registered <= MaxObject /\ MaxObject \in Nat
  BY Constants DEF WorldOK
<1>2. ASSUME NEW i \in 1..n
      PROVE  /\ d[i] \in DownPackets /\ IsSpawn(d[i]) /\ d[i].id = SceneObjects + i
             /\ SpawnOK(w, d[i])
  <2> DEFINE o == SceneObjects + i
  <2>1. o \in Object /\ o \in 1..w.registered
    BY <1>1 DEF Object
  <2>2. d[i] = [type |-> "Spawn", id |-> o, owner |-> w.owner[o], transform |-> x[o]]
    BY DEF SpawnPacket
  <2> HIDE DEF o
  <2>3. w.owner[o] \in Peer \cup {Server} /\ x[o] \in Transform
    BY <2>1 DEF WorldOK
  <2>4. d[i] \in Spawns
    BY <2>1, <2>2, <2>3 DEF Spawns
  <2> QED BY <2>1, <2>2, <2>3, <2>4 DEF DownPackets, IsSpawn, SpawnOK, o
<1>3. d \in Seq(DownPackets) /\ Len(d) = n
  <2>1. d \in [1..n -> DownPackets]
    BY <1>2
  <2>2. d \in Seq(DownPackets)
    BY <1>1, <2>1, SeqDef
  <2>3. DOMAIN d = 1..n /\ DOMAIN d = 1..Len(d) /\ Len(d) \in Nat
    BY <2>1, <2>2, LenProperties
  <2> HIDE DEF n
  <2> QED BY <1>1, <2>2, <2>3
<1>4. DownOK(w, p, FreshClient, d)
  BY <1>2, <1>3 DEF DownOK, PacketOK
<1>5. ASSUME NEW o \in 1..w.registered PROVE Arrives(FreshClient, d, o, n)
  <2>1. CASE o <= SceneObjects
    BY <1>1, <2>1 DEF Arrives, FreshClient
  <2>2. CASE ~(o <= SceneObjects)
    <3>1. o - SceneObjects \in 1..n /\ SceneObjects + (o - SceneObjects) = o
      BY <1>1, <2>2
    <3> QED BY <1>2, <3>1 DEF Arrives
  <2> QED BY <2>1, <2>2
<1> QED BY <1>3, <1>4, <1>5 DEF Complete

\* Packets do not depend on where a client moved what it owns.
LEMMA LinkKept ==
  ASSUME NEW w, NEW p, NEW c, NEW e, NEW d, WorldOK(w), DownOK(w, p, c, d), Keeps(c, e),
         e.tick = c.tick, e.here = c.here
  PROVE  DownOK(w, p, e, d) /\ (Complete(w, c, d) => Complete(w, e, d))
<1>1. ASSUME NEW i \in 1..Len(d) PROVE PacketOK(w, p, e, d, i)
  <2>1. PacketOK(w, p, c, d, i)
    BY DEF DownOK
  <2>2. CASE IsSpawn(d[i]) /\ SpawnOK(w, d[i])
    BY <2>2 DEF PacketOK
  <2>3. CASE ~(IsSpawn(d[i]) /\ SpawnOK(w, d[i]))
    <3>1. SnapshotOK(w, d[i]) /\ Known(w, p, c, d[i].base)
      BY <2>1, <2>3 DEF PacketOK
    <3>2. d[i].base \in {NoTick} \cup Tick
      BY <3>1, Constants DEF SnapshotOK, WorldOK, Tick
    <3>3. Known(w, p, e, d[i].base)
      BY <3>1, <3>2, KnownLater
    <3> QED BY <2>1, <2>3, <3>3 DEF PacketOK, Arrives
  <2> QED BY <2>2, <2>3
<1> QED BY <1>1 DEF DownOK, Complete, Arrives

-----------------------------------------------------------------------------
(***************************************************************************)
(* The world goes on: a component is registered, a frame passes.           *)
(***************************************************************************)
LEMMA WorldRegisters ==
  ASSUME NEW w, NEW v, WorldOK(w), NEW who \in Peer \cup {Server},
         w.registered + 1 <= MaxObject,
         v.delta = w.delta, v.tick = w.tick, v.history = w.history, v.sentAt = w.sentAt,
         v.registered = w.registered + 1,
         v.owner = [w.owner EXCEPT ![w.registered + 1] = who]
  PROVE  WorldOK(v) /\ Extends(w, v)
<1>1. /\ w.registered \in Nat /\ SceneObjects <= w.registered /\ w.tick \in Nat
      /\ v.registered \in SceneObjects..MaxObject
  BY Constants DEF WorldOK
<1>2. v.owner \in [Object -> Peer \cup {Server}]
  BY DEF WorldOK
<1>3. \A o \in 1..w.registered : v.owner[o] = w.owner[o]
  BY <1>1, Constants DEF WorldOK, Object
<1>4. \A o \in 1..SceneObjects : v.owner[o] = Server
  BY <1>1, <1>3, Constants DEF WorldOK
<1>5. \A o \in Object, t \in Tick : v.history[o][t] # None =>
        t <= v.tick /\ o <= v.registered /\ v.history[o][t] = v.sentAt[t].transform[o]
  BY <1>1, Constants DEF WorldOK
<1>6. WorldOK(v)
  BY <1>1, <1>2, <1>4, <1>5 DEF WorldOK
<1> QED BY <1>1, <1>3, <1>6 DEF Extends

\* A frame adds to the history, at its own tick only.
LEMMA WorldTicks ==
  ASSUME NEW w, NEW v, WorldOK(w), NEW x \in [Object -> Transform],
         NEW y \in [Object -> Value], w.tick < MaxTick,
         v.delta = w.delta, v.tick = w.tick + 1, v.registered = w.registered,
         v.owner = w.owner,
         v.sentAt = [w.sentAt EXCEPT ![w.tick + 1] = [transform |-> x, value |-> y]],
         \/ v.history = w.history
         \/ v.history = [o \in Object |->
              IF o <= w.registered THEN Pushed(w.history[o], w.tick + 1, x[o])
              ELSE w.history[o]]
  PROVE  WorldOK(v) /\ Extends(w, v)
<1>1. /\ w.tick \in Nat /\ v.tick \in Nat /\ v.tick \in Tick /\ v.tick \in 0..MaxTick
      /\ MaxTick \in Nat
  BY Constants DEF WorldOK, Tick
<1>2. \A t \in Tick : v.sentAt[t] = IF t = v.tick THEN [transform |-> x, value |-> y]
                                    ELSE w.sentAt[t]
  BY <1>1 DEF WorldOK
<1>3. v.sentAt = [t \in Tick |-> v.sentAt[t]]
  BY <1>1 DEF WorldOK
<1>4. \A t \in Tick, o \in Object :
        v.sentAt[t].transform[o] \in Transform /\ v.sentAt[t].value[o] \in Value
  BY <1>1, <1>2 DEF WorldOK
<1>5. /\ v.history \in States
      /\ \A o \in Object, t \in Tick :
           \/ v.history[o][t] = w.history[o][t]
           \/ t = v.tick /\ o <= w.registered /\ v.history[o][t] = x[o]
  <2>1. CASE v.history = w.history
    BY <2>1 DEF WorldOK
  <2>2. CASE v.history # w.history
    <3>1. \A o \in Object : w.history[o] \in [Tick -> Transform \cup {None}]
      BY DEF WorldOK, States
    <3>2. \A o \in Object : v.history[o] = IF o <= w.registered
                                             THEN Pushed(w.history[o], v.tick, x[o])
                                             ELSE w.history[o]
      BY <2>2
    <3>3. \A o \in Object : v.history[o] \in [Tick -> Transform \cup {None}]
      BY <1>1, <3>1, <3>2 DEF Pushed
    <3>4. v.history \in States
      BY <2>2, <3>3 DEF States
    <3>5. ASSUME NEW o \in Object, NEW t \in Tick, v.history[o][t] # w.history[o][t]
          PROVE  t = v.tick /\ o <= w.registered /\ v.history[o][t] = x[o]
      BY <1>1, <3>1, <3>2, <3>5 DEF Pushed
    <3> QED BY <3>4, <3>5
  <2> QED BY <2>1, <2>2
<1>6. \A o \in Object, t \in Tick : w.history[o][t] # None =>
        t <= w.tick /\ o <= w.registered /\ w.history[o][t] = w.sentAt[t].transform[o]
  BY DEF WorldOK
<1>7. \A t \in Tick : t \in Nat
  BY Constants
<1>8. ASSUME NEW o \in Object, NEW t \in Tick, v.history[o][t] # None
      PROVE  t <= v.tick /\ o <= v.registered /\ v.history[o][t] = v.sentAt[t].transform[o]
  <2>1. CASE v.history[o][t] = w.history[o][t]
    <3>1. t <= w.tick /\ o <= w.registered /\ w.history[o][t] = w.sentAt[t].transform[o]
      BY <1>6, <1>8, <2>1
    <3>2. t # v.tick /\ t <= v.tick
      BY <1>1, <1>7, <3>1
    <3> QED BY <1>2, <2>1, <3>1, <3>2
  <2>2. CASE v.history[o][t] # w.history[o][t]
    <3>1. t = v.tick /\ o <= w.registered /\ v.history[o][t] = x[o]
      BY <1>5, <2>2
    <3> QED BY <1>1, <1>2, <3>1
  <2> QED BY <2>1, <2>2
<1>9. WorldOK(v)
  BY <1>1, <1>3, <1>4, <1>5, <1>8 DEF WorldOK
<1>10. ASSUME NEW t \in 1..w.tick
       PROVE  v.sentAt[t] = w.sentAt[t] /\ \A o \in Object : v.history[o][t] = w.history[o][t]
  <2>1. t \in Tick /\ t # v.tick
    BY <1>1 DEF Tick
  <2> QED BY <1>2, <1>5, <2>1
<1>11. \A o \in 1..w.registered : v.owner[o] = w.owner[o]
  OBVIOUS
<1>12. w.tick <= v.tick /\ w.registered <= v.registered
  BY <1>1, Constants DEF WorldOK
<1> QED BY <1>9, <1>10, <1>11, <1>12 DEF Extends

(***************************************************************************)
(* The snapshot the server writes for a peer says what the server has.     *)
(***************************************************************************)
LEMMA SnapshotWritten ==
  ASSUME NEW w, NEW v, WorldOK(w), WorldOK(v), Extends(w, v),
         v.tick = w.tick + 1, v.registered = w.registered,
         NEW x \in [Object -> Transform], NEW y \in [Object -> Value],
         v.sentAt[w.tick + 1] = [transform |-> x, value |-> y],
         NEW flags, NEW base \in {NoTick} \cup (1..w.tick), w.delta \/ base = NoTick,
         NEW packet,
         packet = [type |-> "Snapshot", tick |-> w.tick + 1, base |-> base,
                   components |-> [o \in 1..w.registered |->
                     Serialize(w.history[o], base, x[o], flags[o], y[o])]]
  PROVE  packet \in Snapshots /\ SnapshotOK(v, packet)
<1>1. /\ w.tick \in Nat /\ v.tick \in Tick /\ w.registered \in 0..MaxObject /\ MaxObject \in Nat
      /\ v.tick \in Nat
  BY Constants DEF WorldOK, Tick
<1>2. /\ packet.tick = v.tick /\ packet.base = base /\ packet.type = "Snapshot"
      /\ DOMAIN packet.components = 1..w.registered
  OBVIOUS
<1>3. 1..w.registered \subseteq Object
  BY <1>1 DEF Object
<1>4. ASSUME NEW o \in 1..w.registered
      PROVE  /\ packet.components[o] = Serialize(w.history[o], base, x[o], flags[o], y[o])
             /\ packet.components[o].transform \in {x[o], None}
             /\ packet.components[o].value \in {y[o], None}
             /\ packet.components[o] \in Written
  <2>1. packet.components[o] = Serialize(w.history[o], base, x[o], flags[o], y[o])
    OBVIOUS
  <2>2. x[o] \in Transform /\ y[o] \in Value
    BY <1>3
  <2> QED BY <2>1, <2>2 DEF Serialize, Written
<1>5. packet \in Snapshots
  <2>1. packet.components \in [1..w.registered -> Written]
    BY <1>4
  <2>2. base \in {NoTick} \cup Tick
    BY <1>1, Constants DEF WorldOK, Tick
  <2>3. packet.components \in UNION {[1..n -> Written] : n \in 0..MaxObject}
    BY <1>1, <2>1
  <2>4. packet.tick \in Tick
    BY <1>1, <1>2
  <2>5. packet = [type |-> "Snapshot", tick |-> packet.tick, base |-> base,
                  components |-> packet.components]
    OBVIOUS
  <2> QED BY <2>2, <2>3, <2>4, <2>5 DEF Snapshots
<1>6. ASSUME NEW o \in 1..w.registered PROVE WrittenOK(v, packet, o)
  <2>1. o \in Object /\ x[o] \in Transform /\ y[o] \in Value /\ x[o] \in Nat
    BY <1>3, Constants
  <2>2. v.sentAt[packet.tick].transform[o] = x[o] /\ v.sentAt[packet.tick].value[o] = y[o]
    BY <1>2
  <2>3. CASE HasState(w.history[o], base) /\ ~(Distance(x[o], w.history[o][base]) > Threshold)
    <3>1. base \in 1..w.tick /\ w.delta
      BY <2>3, Constants DEF HasState
    <3>2. v.history[o][base] = w.history[o][base]
      BY <2>1, <3>1 DEF Extends
    <3>3. w.history[o][base] \in Nat
      <4>1. base \in Tick
        BY <1>1, <3>1, Constants DEF WorldOK, Tick
      <4>2. w.history[o] \in [Tick -> Transform \cup {None}]
        BY <2>1 DEF WorldOK, States
      <4>3. w.history[o][base] \in Transform \cup {None}
        BY <4>1, <4>2
      <4> QED BY <2>3, <4>3, Constants DEF HasState
    <3>4. Distance(w.history[o][base], x[o]) <= Threshold
      BY <2>1, <2>3, <3>3, Constants DEF Distance
    <3>5. packet.components[o].transform = None
      BY <1>4, <2>3 DEF Serialize
    <3>6. HasState(v.history[o], base) /\ v.delta
      BY <2>3, <3>1, <3>2 DEF HasState, Extends
    <3> QED BY <1>2, <1>4, <2>1, <2>2, <3>1, <3>2, <3>4, <3>5, <3>6 DEF WrittenOK, Extends
  <2>4. CASE ~(HasState(w.history[o], base)
                 /\ ~(Distance(x[o], w.history[o][base]) > Threshold))
    <3>1. packet.components[o].transform = x[o]
      BY <1>4, <2>4 DEF Serialize
    <3>2. ~v.delta => packet.components[o].value = y[o]
      BY <1>4, Constants DEF Serialize, HasState, Extends
    <3> QED BY <1>4, <2>1, <2>2, <3>1, <3>2 DEF WrittenOK
  <2> QED BY <2>3, <2>4
<1>7. \A o \in Object : HasState(v.history[o], packet.tick) => o \in 1..w.registered
  BY <1>1, <1>2, Constants DEF WorldOK, HasState, Object
<1>8. packet.tick \in 1..v.tick /\ packet.base \in {NoTick} \cup (1..(packet.tick - 1))
  BY <1>1, <1>2 DEF Tick
<1> QED BY <1>2, <1>5, <1>6, <1>7, <1>8 DEF SnapshotOK

-----------------------------------------------------------------------------
(***************************************************************************)
(* At the start.                                                           *)
(***************************************************************************)
LEMMA InvInit == Init => Inv
<1> SUFFICES ASSUME Init PROVE Inv
  OBVIOUS
<1>1. /\ useDelta \in BOOLEAN /\ tick = 0 /\ registered = SceneObjects
      /\ owner = [o \in Object |-> Server]
      /\ transform = [o \in Object |-> 0] /\ value = [o \in Object |-> 0]
      /\ dirty = [o \in Object |-> TRUE] /\ history = [o \in Object |-> NoHistory]
      /\ connected = <<>> /\ acked = [p \in Peer |-> NoTick]
      /\ client = [p \in Peer |-> FreshClient]
      /\ down = [p \in Peer |-> <<>>] /\ up = [p \in Peer |-> <<>>]
      /\ sentAt = [t \in Tick |-> [transform |-> transform, value |-> value]]
  BY ReplicationAssumption DEF Init
<1>2. 0 \in Transform /\ 0 \in Value
  BY Constants DEF Transform, Value
<1>3. ServerOK
  BY <1>1, <1>2 DEF ServerOK
<1>4. LinksTyped
  BY <1>1 DEF LinksTyped
<1>5. WorldOK(World)
  <2>1. history \in States /\ \A o \in Object, t \in Tick : history[o][t] = None
    BY <1>1 DEF States, NoHistory
  <2>2. \A t \in Tick, o \in Object :
          sentAt[t].transform[o] \in Transform /\ sentAt[t].value[o] \in Value
    BY <1>1, <1>2
  <2>3. tick \in 0..MaxTick /\ registered \in SceneObjects..MaxObject
    BY <1>1, Constants
  <2>4. owner \in [Object -> Peer \cup {Server}] /\ \A o \in 1..SceneObjects : owner[o] = Server
    BY <1>1, Constants DEF Object
  <2>5. sentAt = [t \in Tick |-> sentAt[t]]
    BY <1>1
  <2> QED BY <1>1, <2>1, <2>2, <2>3, <2>4, <2>5 DEF WorldOK, World
<1>6. PeersOK
  <2> SUFFICES ASSUME NEW p \in Peer
               PROVE  /\ PeerOK(World, p, client[p], down[p], up[p], acked[p])
                      /\ ~IsConnected(p) /\ Gone(client[p], down[p], up[p], acked[p])
    BY DEF PeersOK, SlotOK
  <2>1. ~IsConnected(p)
    BY <1>1 DEF IsConnected
  <2>2. client[p] = FreshClient /\ down[p] = <<>> /\ up[p] = <<>> /\ acked[p] = NoTick
    BY <1>1
  <2> QED BY <1>5, <2>1, <2>2, FreshPeer DEF Gone
<1> QED BY <1>3, <1>4, <1>5, <1>6 DEF Inv

-----------------------------------------------------------------------------
(***************************************************************************)
(* Most steps leave the world as it is; the others extend it.              *)
(***************************************************************************)
Still == UNCHANGED <<useDelta, tick, registered, owner, history, sentAt>>

\* The world stays as it is.
LEMMA WorldStill ==
  ASSUME Inv, Still
  PROVE  World' = World /\ WorldOK(World)' /\ Extends(World, World')
<1>1. World' = World
  BY DEF World, Still
<1>2. WorldOK(World) /\ WorldOK(World)'
  BY <1>1 DEF Inv, WorldOK
<1>3. Extends(World, World)
  BY <1>2, Constants DEF Extends, WorldOK
<1> QED BY <1>1, <1>2, <1>3

\* A component is registered.
LEMMA RegistersStep ==
  ASSUME Inv, NEW o, NEW who \in Peer \cup {Server}, NEW x \in Transform,
         Registers(o, who, x), UNCHANGED <<useDelta, tick, history, sentAt>>
  PROVE  /\ WorldOK(World)' /\ Extends(World, World')
         /\ o \in Object /\ o = registered + 1 /\ registered' = o
         /\ owner' = [owner EXCEPT ![o] = who] /\ owner'[o] = who
         /\ transform' \in [Object -> Transform]
<1> DEFINE w == World
           v == World'
<1>1. /\ WorldOK(w) /\ w.registered = registered /\ w.owner = owner /\ registered \in Nat
      /\ owner \in [Object -> Peer \cup {Server}]
  BY Constants DEF Inv, World, WorldOK
<1>2. /\ o = registered + 1 /\ o <= MaxObject /\ registered' = o /\ o \in Object
      /\ owner' = [owner EXCEPT ![o] = who] /\ transform' = [transform EXCEPT ![o] = x]
  BY <1>1, Constants DEF Registers, Object
<1>3. /\ v.delta = w.delta /\ v.tick = w.tick /\ v.history = w.history /\ v.sentAt = w.sentAt
      /\ v.registered = w.registered + 1
      /\ v.owner = [w.owner EXCEPT ![w.registered + 1] = who]
      /\ w.registered + 1 <= MaxObject
  BY <1>1, <1>2 DEF World
<1>4. transform' \in [Object -> Transform]
  BY <1>2 DEF Inv, ServerOK
<1>5. WorldOK(v) /\ Extends(w, v)
  <2> HIDE DEF w, v
  <2> QED BY <1>1, <1>3, WorldRegisters
<1>6. WorldOK(World)' <=> WorldOK(v)
  BY DEF WorldOK
<1> QED BY <1>1, <1>2, <1>4, <1>5, <1>6

\* A frame passes.
LEMMA FrameStep ==
  ASSUME Inv, NEW reached, UpdateAsServer(reached)
  PROVE  /\ WorldOK(World)' /\ Extends(World, World')
         /\ tick' = tick + 1 /\ registered' = registered
         /\ sentAt'[tick + 1] = [transform |-> transform, value |-> value]
<1> DEFINE w == World
           v == World'
<1>1. /\ WorldOK(w) /\ tick \in Nat /\ tick + 1 \in Tick /\ sentAt = [t \in Tick |-> sentAt[t]]
      /\ tick < MaxTick
  BY Constants DEF Inv, World, WorldOK, UpdateAsServer, Tick
<1>2. /\ transform \in [Object -> Transform] /\ value \in [Object -> Value]
  BY DEF Inv, ServerOK
<1>3. /\ useDelta' = useDelta /\ tick' = tick + 1 /\ registered' = registered
      /\ owner' = owner
      /\ sentAt' = [sentAt EXCEPT ![tick + 1] = [transform |-> transform, value |-> value]]
  BY DEF UpdateAsServer
<1>4. \/ history' = history
      \/ history' = [o \in Object |->
           IF o <= registered THEN Pushed(history[o], tick + 1, transform[o]) ELSE history[o]]
  BY DEF UpdateAsServer
<1>5. /\ w.tick < MaxTick /\ v.delta = w.delta /\ v.tick = w.tick + 1
      /\ v.registered = w.registered /\ v.owner = w.owner
      /\ v.sentAt = [w.sentAt EXCEPT ![w.tick + 1] =
                       [transform |-> transform, value |-> value]]
      /\ \/ v.history = w.history
         \/ v.history = [o \in Object |->
              IF o <= w.registered THEN Pushed(w.history[o], w.tick + 1, transform[o])
              ELSE w.history[o]]
  BY <1>1, <1>3, <1>4 DEF World
<1>6. WorldOK(v) /\ Extends(w, v)
  <2> HIDE DEF w, v
  <2> QED BY <1>1, <1>2, <1>5, WorldTicks
<1>7. WorldOK(World)' <=> WorldOK(v)
  BY DEF WorldOK
<1> QED BY <1>1, <1>3, <1>6, <1>7

(***************************************************************************)
(* A slot nothing is done to is as it should be in every later world with  *)
(* the same components.                                                    *)
(***************************************************************************)
LEMMA SlotStill ==
  ASSUME Inv, WorldOK(World)', Extends(World, World'), NEW p \in Peer,
         registered' = registered \/ ~IsConnected(p), IsConnected(p)' <=> IsConnected(p),
         client'[p] = client[p], down'[p] = down[p], up'[p] = up[p], acked'[p] = acked[p]
  PROVE  SlotOK(p)'
<1> DEFINE w == World
           v == World'
           c == client[p]
           d == down[p]
           u == up[p]
           a == acked[p]
<1>1. WorldOK(w) /\ PeerOK(w, p, c, d, u, a)
  BY DEF Inv, PeersOK, SlotOK
<1>2. /\ IsConnected(p) => Complete(w, c, d)
      /\ ~IsConnected(p) => Gone(c, d, u, a)
  BY DEF Inv, PeersOK, SlotOK
<1>3. w.registered = registered /\ v.registered = registered'
  BY DEF World
<1>4. WorldOK(World)' <=> WorldOK(v)
  BY DEF WorldOK
<1> HIDE DEF w, v
<1>5. PeerOK(v, p, c, d, u, a)
  BY <1>1, <1>4, PeerKept DEF w, v
<1>6. IsConnected(p) => Complete(v, c, d)
  BY <1>2, <1>3 DEF Complete
<1>7. /\ PeerOK(v, p, client'[p], down'[p], up'[p], acked'[p])
      /\ IsConnected(p) => Complete(v, client'[p], down'[p])
      /\ ~IsConnected(p) => Gone(client'[p], down'[p], up'[p], acked'[p])
  BY <1>2, <1>5, <1>6
<1>8. SlotOK(p)' <=>
        /\ PeerOK(v, p, client'[p], down'[p], up'[p], acked'[p])
        /\ IsConnected(p)' => Complete(v, client'[p], down'[p])
        /\ ~IsConnected(p)' => Gone(client'[p], down'[p], up'[p], acked'[p])
  BY DEF SlotOK, v
<1> QED BY <1>7, <1>8

(***************************************************************************)
(* The game of the server moves a component or sets its variable.          *)
(***************************************************************************)
LEMMA GameStep ==
  ASSUME Inv, NEW o \in Object, NEW x \in Transform, NEW y \in Value,
         MoveObject(o, x) \/ SetVariable(o, y)
  PROVE  Inv'
<1>1. /\ Still /\ UNCHANGED <<connected, acked, client, down, up>>
  BY DEF MoveObject, SetVariable, Still
<1>2. WorldOK(World)' /\ Extends(World, World')
  BY <1>1, WorldStill
<1>3. ServerOK'
  BY <1>1 DEF MoveObject, SetVariable, Inv, ServerOK
<1>4. LinksTyped'
  BY <1>1 DEF Inv, LinksTyped
<1>5. PeersOK'
  <2> SUFFICES ASSUME NEW p \in Peer PROVE SlotOK(p)'
    BY DEF PeersOK
  <2>1. IsConnected(p)' <=> IsConnected(p)
    BY <1>1 DEF IsConnected
  <2>2. /\ registered' = registered /\ client'[p] = client[p] /\ down'[p] = down[p]
        /\ up'[p] = up[p] /\ acked'[p] = acked[p]
    BY <1>1 DEF Still
  <2> QED BY <1>2, <2>1, <2>2, SlotStill
<1> QED BY <1>2, <1>3, <1>4, <1>5 DEF Inv

(***************************************************************************)
(* A connected peer is sent the spawn of the component just registered.    *)
(***************************************************************************)
LEMMA SpawnSent ==
  ASSUME Inv, NEW o, NEW who \in Peer \cup {Server}, NEW x \in Transform,
         Registers(o, who, x), UNCHANGED <<useDelta, tick, history, sentAt>>,
         NEW p \in Peer, NEW c, NEW d, NEW u, NEW a,
         PeerOK(World, p, c, d, u, a), Complete(World, c, d)
  PROVE  /\ SpawnPacket(o, who, x) \in DownPackets
         /\ PeerOK(World', p, c, Append(d, SpawnPacket(o, who, x)), u, a)
         /\ Complete(World', c, Append(d, SpawnPacket(o, who, x)))
<1> DEFINE w == World
           v == World'
           packet == SpawnPacket(o, who, x)
<1>1. /\ WorldOK(World)' /\ Extends(World, World') /\ o \in Object
      /\ o = registered + 1 /\ registered' = o /\ owner'[o] = who
  BY RegistersStep
<1>2. /\ WorldOK(w) /\ w.registered = registered /\ v.registered = registered + 1
      /\ v.owner[o] = who /\ w.registered \in Nat
  BY <1>1, Constants DEF Inv, World, WorldOK
<1>3. WorldOK(World)' <=> WorldOK(v)
  BY DEF WorldOK
<1>4. /\ packet.id = o /\ packet.owner = who /\ packet.transform = x
      /\ packet \in Spawns
  BY <1>1 DEF SpawnPacket, Spawns
<1> HIDE DEF w, v, packet
<1>5. PeerOK(v, p, c, d, u, a)
  BY <1>1, <1>2, <1>3, PeerKept DEF w, v
<1>6. SpawnOK(v, packet)
  BY <1>1, <1>2, <1>4 DEF SpawnOK
<1>7. DownOK(v, p, c, Append(d, packet))
  BY <1>4, <1>5, <1>6, SpawnAppended DEF PeerOK
<1>8. DownOK(w, p, c, d) /\ Complete(w, c, d)
  BY DEF PeerOK, w
<1>9. Complete(v, c, Append(d, packet))
  BY <1>1, <1>2, <1>4, <1>8, CompleteAppended
<1> QED BY <1>4, <1>5, <1>7, <1>9 DEF PeerOK, v, packet, DownPackets

\* The server spawns a component, and every connected peer is told.
LEMMA SpawnStep ==
  ASSUME Inv, NEW o \in Object, NEW x \in Transform, SpawnNetworkObject(o, x)
  PROVE  Inv'
<1> DEFINE packet == SpawnPacket(o, Server, x)
<1>1. /\ Registers(o, Server, x) /\ UNCHANGED <<useDelta, tick, history, sentAt>>
      /\ UNCHANGED <<value, dirty, connected, acked, client, up>>
      /\ down' = SentTo(down, ConnectedPeers, packet)
  BY DEF SpawnNetworkObject
<1>2. /\ WorldOK(World)' /\ Extends(World, World') /\ o \in Object
      /\ transform' \in [Object -> Transform]
  BY <1>1, RegistersStep
<1>3. ServerOK'
  BY <1>1, <1>2 DEF Inv, ServerOK
<1>4. ASSUME NEW p \in Peer PROVE SlotOK(p)' /\ down'[p] \in Seq(DownPackets)
  <2>0. SlotOK(p) /\ down[p] \in Seq(DownPackets)
    BY DEF Inv, PeersOK, LinksTyped
  <2>1. IsConnected(p)' <=> IsConnected(p)
    BY <1>1 DEF IsConnected
  <2>2. client'[p] = client[p] /\ up'[p] = up[p] /\ acked'[p] = acked[p]
    BY <1>1
  <2>3. CASE IsConnected(p)
    <3>1. down'[p] = Append(down[p], packet)
      BY <1>1, <2>3 DEF SentTo, ConnectedPeers
    <3>2. /\ packet \in DownPackets
          /\ PeerOK(World', p, client[p], Append(down[p], packet), up[p], acked[p])
          /\ Complete(World', client[p], Append(down[p], packet))
      <4> HIDE DEF packet
      <4>1. /\ PeerOK(World, p, client[p], down[p], up[p], acked[p])
            /\ Complete(World, client[p], down[p])
        BY <2>0, <2>3 DEF SlotOK
      <4>2. Server \in Peer \cup {Server}
        OBVIOUS
      <4> QED BY <1>1, <4>1, <4>2, SpawnSent DEF packet
    <3> QED BY <2>0, <2>1, <2>2, <2>3, <3>1, <3>2 DEF SlotOK
  <2>4. CASE ~IsConnected(p)
    <3>1. down'[p] = down[p]
      BY <1>1, <2>4 DEF SentTo, ConnectedPeers
    <3> QED BY <1>2, <2>0, <2>1, <2>2, <2>4, <3>1, SlotStill
  <2> QED BY <2>3, <2>4
<1>5. LinksTyped'
  <2>1. down' \in [Peer -> Seq(DownPackets)]
    BY <1>1, <1>4 DEF SentTo
  <2> QED BY <1>1, <2>1 DEF Inv, LinksTyped
<1> QED BY <1>2, <1>3, <1>4, <1>5 DEF Inv, PeersOK

(***************************************************************************)
(* A client new to its slot is sent what there is, then its player.        *)
(***************************************************************************)
LEMMA ConnectedStep ==
  ASSUME Inv, NEW p \in Peer, ClientConnected(p)
  PROVE  Inv'
<1> DEFINE o == registered + 1
           packet == SpawnPacket(o, p, 0)
           w == World
           v == World'
<1>1. /\ ~IsConnected(p) /\ connected' = Append(connected, p)
      /\ UNCHANGED <<useDelta, tick, history, sentAt>>
      /\ UNCHANGED <<value, dirty, acked, client, up>>
  BY DEF ClientConnected
<1>2. \/ /\ Registers(o, p, 0)
         /\ down' = SentTo([down EXCEPT ![p] = Replayed], ConnectedPeers \cup {p}, packet)
      \/ /\ UNCHANGED <<registered, owner, transform>>
         /\ down' = [down EXCEPT ![p] = Replayed]
  BY DEF ClientConnected
<1>3. 0 \in Transform /\ p \in Peer \cup {Server}
  BY Constants DEF Transform
<1>5. /\ WorldOK(World)' /\ Extends(World, World') /\ transform' \in [Object -> Transform]
  <2>1. CASE UNCHANGED <<registered, owner, transform>>
    <3>1. Still
      BY <1>1, <2>1 DEF Still
    <3> QED BY <2>1, <3>1, WorldStill DEF Inv, ServerOK
  <2>2. CASE Registers(o, p, 0)
    <3> HIDE DEF o
    <3> QED BY <1>1, <1>3, <2>2, RegistersStep
  <2> QED BY <1>2, <2>1, <2>2
<1>6. connected \in Seq(Peer) /\ Len(connected) \in Nat
  BY DEF Inv, ServerOK
<1>7. /\ connected' \in Seq(Peer) /\ Len(connected') = Len(connected) + 1
      /\ \A i \in 1..Len(connected) : connected'[i] = connected[i]
      /\ connected'[Len(connected) + 1] = p
  BY <1>1, <1>6, Appended
<1>8. \A q \in Peer : IsConnected(q)' <=> IsConnected(q) \/ q = p
  <2> SUFFICES ASSUME NEW q \in Peer PROVE IsConnected(q)' <=> IsConnected(q) \/ q = p
    OBVIOUS
  <2>1. 1..Len(connected') = 1..Len(connected) \cup {Len(connected) + 1}
    BY <1>6, <1>7
  <2> QED BY <1>7, <2>1 DEF IsConnected
<1>9. ServerOK'
  <2>1. ASSUME NEW i \in 1..Len(connected'), NEW j \in 1..Len(connected'),
               connected'[i] = connected'[j]
        PROVE  i = j
    <3>1. \A k \in 1..Len(connected') : k \in 1..Len(connected) \/ k = Len(connected) + 1
      BY <1>6, <1>7
    <3>2. \A k \in 1..Len(connected) : connected[k] # p
      BY <1>1 DEF IsConnected
    <3>3. \A k, l \in 1..Len(connected) : connected[k] = connected[l] => k = l
      BY DEF Inv, ServerOK
    <3> QED BY <1>7, <2>1, <3>1, <3>2, <3>3
  <2> QED BY <1>1, <1>5, <1>7, <2>1 DEF Inv, ServerOK
<1>10. /\ PeerOK(w, p, FreshClient, Replayed, <<>>, NoTick)
       /\ Complete(w, FreshClient, Replayed) /\ Replayed \in Seq(DownPackets)
  <2>1. WorldOK(w) /\ transform \in [Object -> Transform]
    BY DEF Inv, ServerOK
  <2>2. Replayed = [i \in 1..(w.registered - SceneObjects) |->
                      SpawnPacket(SceneObjects + i, w.owner[SceneObjects + i],
                                  transform[SceneObjects + i])]
    BY DEF Replayed, World
  <2> HIDE DEF w
  <2>3. DownOK(w, p, FreshClient, Replayed) /\ Complete(w, FreshClient, Replayed)
    BY <2>1, <2>2, WorldReplayed
  <2> QED BY <2>1, <2>3, FreshPeer DEF PeerOK, DownOK
<1>11. ASSUME NEW q \in Peer PROVE SlotOK(q)' /\ down'[q] \in Seq(DownPackets)
  <2>0. SlotOK(q) /\ down[q] \in Seq(DownPackets) /\ down \in [Peer -> Seq(DownPackets)]
    BY DEF Inv, PeersOK, LinksTyped
  <2> DEFINE d == IF q = p THEN Replayed ELSE down[q]
  <2>1. IsConnected(q)' <=> IsConnected(q) \/ q = p
    BY <1>8
  <2>2. client'[q] = client[q] /\ up'[q] = up[q] /\ acked'[q] = acked[q]
    BY <1>1
  <2>3. IsConnected(q) \/ q = p =>
          PeerOK(w, q, client[q], d, up[q], acked[q]) /\ Complete(w, client[q], d)
    <3>1. CASE q = p
      <4>1. client[p] = FreshClient /\ up[p] = <<>> /\ acked[p] = NoTick
        BY <1>1, <2>0, <3>1 DEF SlotOK, Gone
      <4> QED BY <1>10, <3>1, <4>1
    <3>2. CASE q # p
      BY <2>0, <3>2 DEF SlotOK
    <3> QED BY <3>1, <3>2
  <2>4. [down EXCEPT ![p] = Replayed][q] = d /\ d \in Seq(DownPackets)
    BY <1>10, <2>0
  <2>5. CASE ~(IsConnected(q) \/ q = p)
    <3>1. down'[q] = down[q]
      BY <1>2, <2>0, <2>5 DEF SentTo, ConnectedPeers
    <3> QED BY <1>5, <2>0, <2>1, <2>2, <2>5, <3>1, SlotStill
  <2>6. CASE (IsConnected(q) \/ q = p) /\ Registers(o, p, 0)
               /\ down' = SentTo([down EXCEPT ![p] = Replayed], ConnectedPeers \cup {p}, packet)
    <3>1. down'[q] = Append(d, packet)
      BY <2>4, <2>6 DEF SentTo, ConnectedPeers
    <3>2. /\ packet \in DownPackets
          /\ PeerOK(v, q, client[q], Append(d, packet), up[q], acked[q])
          /\ Complete(v, client[q], Append(d, packet))
      <4>1. /\ PeerOK(World, q, client[q], d, up[q], acked[q])
            /\ Complete(World, client[q], d)
        BY <2>3, <2>6
      <4>2. Registers(o, p, 0)
        BY <2>6
      <4> HIDE DEF o, d
      <4> QED BY <1>1, <1>3, <4>1, <4>2, SpawnSent
    <3>3. Append(d, packet) \in Seq(DownPackets)
      BY <2>4, <3>2
    <3> QED BY <2>1, <2>2, <2>6, <3>1, <3>2, <3>3 DEF SlotOK
  <2>7. CASE (IsConnected(q) \/ q = p) /\ UNCHANGED <<registered, owner, transform>>
               /\ down' = [down EXCEPT ![p] = Replayed]
    <3>1. down'[q] = d /\ v = w
      BY <1>1, <2>4, <2>7 DEF World
    <3> QED BY <2>1, <2>2, <2>3, <2>4, <2>7, <3>1 DEF SlotOK
  <2> QED BY <1>2, <2>5, <2>6, <2>7
<1>12. LinksTyped'
  <2>1. down' = [q \in Peer |-> down'[q]]
    BY <1>2 DEF SentTo, Inv, LinksTyped
  <2>2. down' \in [Peer -> Seq(DownPackets)]
    BY <1>11, <2>1
  <2> QED BY <1>1, <2>2 DEF Inv, LinksTyped
<1> QED BY <1>5, <1>9, <1>11, <1>12 DEF Inv, PeersOK

(***************************************************************************)
(* A sequence without one of its elements.                                 *)
(***************************************************************************)
LEMMA Removed ==
  ASSUME NEW S, NEW s \in Seq(S), NEW n \in 1..Len(s),
         \A i, j \in 1..Len(s) : s[i] = s[j] => i = j
  PROVE  LET t == RemoveAt(s, n)
         IN /\ t \in Seq(S)
            /\ \A i, j \in 1..Len(t) : t[i] = t[j] => i = j
            /\ \A x : (\E i \in 1..Len(t) : t[i] = x)
                        <=> x # s[n] /\ \E i \in 1..Len(s) : s[i] = x
<1> DEFINE t == RemoveAt(s, n)
           a == SubSeq(s, 1, n - 1)
           b == SubSeq(s, n + 1, Len(s))
<1>0. Len(s) \in Nat /\ n \in Nat /\ 1 <= n /\ n <= Len(s) /\ \A i \in 1..Len(s) : s[i] \in S
  OBVIOUS
<1>1. a \in Seq(S) /\ Len(a) = n - 1 /\ \A i \in 1..(n - 1) : a[i] = s[i]
  <2>1. /\ 1 \in Int /\ n - 1 \in Int /\ \A i \in 1..(n - 1) : s[i] \in S
    BY <1>0
  <2>2. /\ a \in Seq(S) /\ Len(a) = IF 1 <= n - 1 THEN n - 1 - 1 + 1 ELSE 0
        /\ \A i \in 1..(n - 1 - 1 + 1) : a[i] = s[1 + i - 1]
    BY <2>1, SubSeqProperties
  <2> HIDE DEF a
  <2> QED BY <1>0, <2>2
<1>2. b \in Seq(S) /\ Len(b) = Len(s) - n /\ \A i \in 1..(Len(s) - n) : b[i] = s[n + i]
  <2>1. /\ n + 1 \in Int /\ Len(s) \in Int /\ \A i \in (n + 1)..Len(s) : s[i] \in S
    BY <1>0
  <2>2. /\ b \in Seq(S) /\ Len(b) = IF n + 1 <= Len(s) THEN Len(s) - (n + 1) + 1 ELSE 0
        /\ \A i \in 1..(Len(s) - (n + 1) + 1) : b[i] = s[n + 1 + i - 1]
    BY <2>1, SubSeqProperties
  <2> HIDE DEF b
  <2>3. ASSUME NEW i \in 1..(Len(s) - n) PROVE b[i] = s[n + i]
    <3>1. i \in 1..(Len(s) - (n + 1) + 1) /\ n + 1 + i - 1 = n + i
      BY <1>0
    <3> QED BY <2>2, <3>1
  <2> QED BY <1>0, <2>2, <2>3
<1>3. t = a \o b
  BY DEF RemoveAt
<1> HIDE DEF a, b, t
<1>4. /\ t \in Seq(S) /\ Len(t) = Len(s) - 1
      /\ \A i \in 1..Len(t) : t[i] = s[IF i < n THEN i ELSE i + 1]
  <2>1. /\ t \in Seq(S) /\ Len(t) = Len(a) + Len(b)
        /\ \A i \in 1..(Len(a) + Len(b)) : t[i] = IF i <= Len(a) THEN a[i] ELSE b[i - Len(a)]
    <3>1. a \in Seq(S) /\ b \in Seq(S)
      BY <1>1, <1>2
    <3>2. /\ a \o b \in Seq(S) /\ Len(a \o b) = Len(a) + Len(b)
          /\ \A i \in 1..(Len(a) + Len(b)) :
               (a \o b)[i] = IF i <= Len(a) THEN a[i] ELSE b[i - Len(a)]
      BY <3>1, ConcatProperties
    <3> QED BY <1>3, <3>2
  <2>2. Len(t) = Len(s) - 1
    BY <1>0, <1>1, <1>2, <2>1
  <2>3. ASSUME NEW i \in 1..Len(t) PROVE t[i] = s[IF i < n THEN i ELSE i + 1]
    <3>1. CASE i < n
      <4>1. i <= Len(a) /\ i \in 1..(n - 1)
        BY <1>0, <1>1, <3>1
      <4> QED BY <1>1, <2>1, <3>1, <4>1
    <3>2. CASE ~(i < n)
      <4>1. ~(i <= Len(a)) /\ i - Len(a) \in 1..(Len(s) - n) /\ n + (i - Len(a)) = i + 1
        BY <1>0, <1>1, <2>2, <3>2
      <4> QED BY <1>2, <2>1, <3>2, <4>1
    <3> QED BY <3>1, <3>2
  <2> QED BY <2>1, <2>2, <2>3
<1>5. \A i \in 1..Len(t) : (IF i < n THEN i ELSE i + 1) \in 1..Len(s) \ {n}
  BY <1>0, <1>4
<1>6. ASSUME NEW i \in 1..Len(t), NEW j \in 1..Len(t), t[i] = t[j] PROVE i = j
  <2>1. (IF i < n THEN i ELSE i + 1) = (IF j < n THEN j ELSE j + 1)
    BY <1>4, <1>5, <1>6
  <2> QED BY <1>0, <1>4, <2>1
<1>7. ASSUME NEW x, NEW i \in 1..Len(t), t[i] = x
      PROVE  x # s[n] /\ \E j \in 1..Len(s) : s[j] = x
  BY <1>4, <1>5, <1>7
<1>8. ASSUME NEW x, x # s[n], NEW j \in 1..Len(s), s[j] = x
      PROVE  \E i \in 1..Len(t) : t[i] = x
  <2>1. CASE j < n
    <3>1. j \in 1..Len(t)
      BY <1>0, <1>4, <2>1
    <3> QED BY <1>4, <1>8, <2>1, <3>1
  <2>2. CASE ~(j < n)
    <3>1. j - 1 \in 1..Len(t) /\ ~(j - 1 < n) /\ j - 1 + 1 = j
      BY <1>0, <1>4, <1>8, <2>2
    <3> QED BY <1>4, <1>8, <3>1
  <2> QED BY <2>1, <2>2
<1> QED BY <1>4, <1>6, <1>7, <1>8 DEF t

(***************************************************************************)
(* A client leaves, and its slot is free again.                            *)
(***************************************************************************)
LEMMA DisconnectStep ==
  ASSUME Inv, NEW p \in Peer, Disconnect(p)
  PROVE  Inv'
<1>1. /\ Still /\ UNCHANGED <<transform, value, dirty>>
      /\ acked' = [acked EXCEPT ![p] = NoTick] /\ client' = [client EXCEPT ![p] = FreshClient]
      /\ down' = [down EXCEPT ![p] = <<>>] /\ up' = [up EXCEPT ![p] = <<>>]
  BY DEF Disconnect, ForgetPeer, Still
<1>2. WorldOK(World)' /\ Extends(World, World') /\ World' = World /\ WorldOK(World)
  BY <1>1, WorldStill DEF Inv
<1>3. PICK n \in 1..Len(connected) : connected[n] = p /\ connected' = RemoveAt(connected, n)
  BY DEF Disconnect
<1>4. /\ connected' \in Seq(Peer)
      /\ \A i, j \in 1..Len(connected') : connected'[i] = connected'[j] => i = j
      /\ \A q : (\E i \in 1..Len(connected') : connected'[i] = q)
                  <=> q # p /\ \E i \in 1..Len(connected) : connected[i] = q
  <2>1. /\ connected \in Seq(Peer)
        /\ \A i, j \in 1..Len(connected) : connected[i] = connected[j] => i = j
    BY DEF Inv, ServerOK
  <2>2. /\ RemoveAt(connected, n) \in Seq(Peer)
        /\ \A i, j \in 1..Len(RemoveAt(connected, n)) :
             RemoveAt(connected, n)[i] = RemoveAt(connected, n)[j] => i = j
        /\ \A q : (\E i \in 1..Len(RemoveAt(connected, n)) : RemoveAt(connected, n)[i] = q)
                    <=> q # connected[n] /\ \E i \in 1..Len(connected) : connected[i] = q
    BY <2>1, Removed
  <2> QED BY <1>3, <2>2
<1>5. \A q \in Peer : IsConnected(q)' <=> q # p /\ IsConnected(q)
  BY <1>4 DEF IsConnected
<1>6. ServerOK'
  BY <1>1, <1>4 DEF Inv, ServerOK
<1>7. LinksTyped'
  <2>1. /\ client = [q \in Peer |-> client[q]] /\ acked = [q \in Peer |-> acked[q]]
        /\ down \in [Peer -> Seq(DownPackets)] /\ up \in [Peer -> Seq(UpPackets)]
    BY DEF Inv, LinksTyped
  <2>2. client' = [q \in Peer |-> client'[q]] /\ acked' = [q \in Peer |-> acked'[q]]
    BY <1>1, <2>1
  <2>3. <<>> \in Seq(DownPackets) /\ <<>> \in Seq(UpPackets)
    OBVIOUS
  <2>4. down' \in [Peer -> Seq(DownPackets)] /\ up' \in [Peer -> Seq(UpPackets)]
    BY <1>1, <2>1, <2>3
  <2> QED BY <2>2, <2>4 DEF LinksTyped
<1>8. ASSUME NEW q \in Peer PROVE SlotOK(q)'
  <2>1. CASE q = p
    <3>1. client'[q] = FreshClient /\ down'[q] = <<>> /\ up'[q] = <<>> /\ acked'[q] = NoTick
      BY <1>1, <2>1 DEF Inv, LinksTyped
    <3>2. PeerOK(World, q, FreshClient, <<>>, <<>>, NoTick)
      BY <1>2, FreshPeer
    <3> QED BY <1>2, <1>5, <2>1, <3>1, <3>2 DEF SlotOK, Gone
  <2>2. CASE q # p
    <3>1. /\ client'[q] = client[q] /\ down'[q] = down[q] /\ up'[q] = up[q]
          /\ acked'[q] = acked[q]
      BY <1>1, <2>2 DEF Inv, LinksTyped
    <3>2. IsConnected(q)' <=> IsConnected(q)
      BY <1>5, <2>2
    <3>3. registered' = registered
      BY <1>1 DEF Still
    <3> QED BY <1>2, <3>1, <3>2, <3>3, SlotStill
  <2> QED BY <2>1, <2>2
<1> QED BY <1>2, <1>6, <1>7, <1>8 DEF Inv, PeersOK

(***************************************************************************)
(* A frame passes: the peers the snapshot reaches have it on their links.  *)
(***************************************************************************)
LEMMA BroadcastStep ==
  ASSUME Inv, NEW reached, UpdateAsServer(reached)
  PROVE  Inv'
<1> DEFINE w == World
           v == World'
           base(p) == IF useDelta THEN acked[p] ELSE NoTick
           flags(p) == IF useDelta THEN FlagsFor(p) ELSE dirty
           packet(p) == Snapshot(base(p), flags(p))
<1>1. /\ WorldOK(World)' /\ Extends(World, World') /\ tick' = tick + 1
      /\ registered' = registered
      /\ sentAt'[tick + 1] = [transform |-> transform, value |-> value]
  BY FrameStep
<1>2. /\ reached \subseteq ConnectedPeers
      /\ UNCHANGED <<useDelta, registered, owner, transform, value, connected, acked, client,
                     up>>
      /\ dirty' = dirty \/ dirty' = Clean
      /\ down' = [p \in Peer |->
           IF p \notin reached THEN down[p]
           ELSE Append(down[p], IF useDelta THEN Snapshot(acked[p], FlagsFor(p))
                                ELSE Snapshot(NoTick, dirty))]
  BY DEF UpdateAsServer, BroadcastSnapshot
<1>3. /\ transform \in [Object -> Transform] /\ value \in [Object -> Value]
      /\ dirty \in [Object -> BOOLEAN] /\ useDelta \in BOOLEAN /\ WorldOK(w)
  BY DEF Inv, ServerOK, WorldOK, World
<1>4. ServerOK'
  <2>1. Clean \in [Object -> BOOLEAN]
    BY DEF Clean
  <2> QED BY <1>2, <1>3, <2>1 DEF Inv, ServerOK
<1>5. WorldOK(World)' <=> WorldOK(v)
  BY DEF WorldOK
<1>6. /\ v.tick = w.tick + 1 /\ v.registered = w.registered /\ w.tick = tick
      /\ v.sentAt[w.tick + 1] = [transform |-> transform, value |-> value]
      /\ w.delta = useDelta /\ w.history = history /\ w.registered = registered
  BY <1>1 DEF World
<1>7. \A p \in reached : down'[p] = Append(down[p], packet(p)) /\ p \in Peer
  BY <1>2, <1>3 DEF ConnectedPeers
<1>8. ASSUME NEW p \in Peer
      PROVE  /\ base(p) \in {NoTick} \cup (1..w.tick) /\ (w.delta \/ base(p) = NoTick)
             /\ Known(w, p, client[p], base(p)) /\ client[p].tick \in 0..w.tick
  <2>1. AckedOK(w, p, client[p], acked[p]) /\ ClientOK(w, p, client[p])
    BY DEF Inv, PeersOK, SlotOK, PeerOK
  <2>2. Known(w, p, client[p], NoTick)
    BY DEF Known, HasState
  <2> QED BY <1>3, <1>6, <2>1, <2>2 DEF AckedOK, ClientOK
<1>9. ASSUME NEW p \in Peer PROVE packet(p) \in Snapshots /\ SnapshotOK(v, packet(p))
  <2>1. packet(p) = [type |-> "Snapshot", tick |-> w.tick + 1, base |-> base(p),
                     components |-> [o \in 1..w.registered |->
                       Serialize(w.history[o], base(p), transform[o], flags(p)[o], value[o])]]
    BY <1>6 DEF Snapshot, Components
  <2> HIDE DEF w, v, base, flags, packet
  <2> QED BY <1>1, <1>3, <1>5, <1>6, <1>8, <2>1, SnapshotWritten DEF w, v
<1>10. \A p \in Peer : /\ packet(p).tick = w.tick + 1 /\ packet(p).base = base(p)
  BY <1>6 DEF Snapshot
<1> HIDE DEF packet, base, flags
<1>11. ASSUME NEW p \in Peer PROVE SlotOK(p)' /\ down'[p] \in Seq(DownPackets)
  <2>0. SlotOK(p) /\ down[p] \in Seq(DownPackets)
    BY DEF Inv, PeersOK, LinksTyped
  <2>1. IsConnected(p)' <=> IsConnected(p)
    BY <1>2 DEF IsConnected
  <2>2. client'[p] = client[p] /\ up'[p] = up[p] /\ acked'[p] = acked[p]
    BY <1>2
  <2>3. CASE p \in reached
    <3> DEFINE c == client[p]
               d == down[p]
    <3>1. IsConnected(p) /\ down'[p] = Append(d, packet(p))
      BY <1>2, <1>7, <2>3 DEF ConnectedPeers
    <3>2. /\ PeerOK(w, p, c, d, up[p], acked[p]) /\ Complete(w, c, d)
      BY <2>0, <3>1 DEF SlotOK
    <3>3. PeerOK(v, p, c, d, up[p], acked[p])
      <4> HIDE DEF w, v, c, d
      <4> QED BY <1>1, <1>3, <1>5, <3>2, PeerKept DEF w, v
    <3>4. Complete(v, c, d)
      BY <1>6, <3>2 DEF Complete
    <3>5. Known(v, p, c, packet(p).base)
      <4> HIDE DEF w, v, c
      <4> QED BY <1>1, <1>3, <1>5, <1>8, <1>10, KnownKept DEF w, v, c
    <3>6. /\ c.tick < packet(p).tick
          /\ \A i \in 1..Len(d) : IsSnapshot(d[i]) => d[i].tick < packet(p).tick
      <4>1. w.tick \in Nat
        BY <1>3, Constants DEF WorldOK
      <4>2. ASSUME NEW i \in 1..Len(d), IsSnapshot(d[i]) PROVE d[i].tick \in 1..w.tick
        <5>1. PacketOK(w, p, c, d, i)
          BY <3>2 DEF PeerOK, DownOK
        <5>2. ~IsSpawn(d[i])
          BY <4>2 DEF IsSpawn, IsSnapshot
        <5> QED BY <5>1, <5>2 DEF PacketOK, SnapshotOK
      <4> HIDE DEF w
      <4> QED BY <1>8, <1>10, <4>1, <4>2
    <3>7. DownOK(v, p, c, Append(d, packet(p))) /\ Complete(v, c, Append(d, packet(p)))
      <4> HIDE DEF v, c, d
      <4> QED BY <1>9, <3>3, <3>4, <3>5, <3>6, SnapshotAppended DEF PeerOK
    <3> QED BY <2>1, <2>2, <3>1, <3>3, <3>7 DEF SlotOK, PeerOK, DownOK
  <2>4. CASE p \notin reached
    <3>1. down'[p] = down[p]
      BY <1>2, <2>4
    <3> QED BY <1>1, <2>0, <2>1, <2>2, <3>1, SlotStill
  <2> QED BY <2>3, <2>4
<1>12. LinksTyped'
  <2>1. down' = [q \in Peer |-> down'[q]]
    BY <1>2
  <2>2. down' \in [Peer -> Seq(DownPackets)]
    BY <1>11, <2>1
  <2> QED BY <1>2, <2>2 DEF Inv, LinksTyped
<1> QED BY <1>1, <1>4, <1>11, <1>12 DEF Inv, PeersOK

(***************************************************************************)
(* The server takes an acknowledgement or an update from a client.         *)
(***************************************************************************)
LEMMA ServerReceivesStep ==
  ASSUME Inv, NEW p \in Peer, ServerReceives(p)
  PROVE  Inv'
<1> DEFINE packet == Head(up[p])
<1>1. /\ up[p] # <<>> /\ up' = [up EXCEPT ![p] = Tail(up[p])]
      /\ SnapshotAck(p, packet) \/ ClientUpdate(p, packet)
      /\ Still /\ UNCHANGED <<value, dirty, connected, client, down>>
  BY DEF ServerReceives, Still
<1>2. WorldOK(World)' /\ Extends(World, World') /\ World' = World /\ WorldOK(World)
  BY <1>1, WorldStill DEF Inv
<1>3. /\ client = [q \in Peer |-> client[q]] /\ acked = [q \in Peer |-> acked[q]]
      /\ down \in [Peer -> Seq(DownPackets)] /\ up \in [Peer -> Seq(UpPackets)]
  BY DEF Inv, LinksTyped
<1>4. PeerOK(World, p, client[p], down[p], up[p], acked[p]) /\ SlotOK(p)
  BY DEF Inv, PeersOK, SlotOK
<1>5. /\ UpOK(World, p, client[p], Tail(up[p])) /\ packet \in UpPackets
      /\ AckOK(World, p, client[p], packet) /\ Tail(up[p]) \in Seq(UpPackets)
  <2>1. UpOK(World, p, client[p], up[p])
    BY <1>4 DEF PeerOK
  <2> QED BY <1>1, <2>1, AckTaken DEF UpOK
<1> HIDE DEF packet
<1>6. ServerOK'
  <2>1. transform \in [Object -> Transform]
    BY DEF Inv, ServerOK
  <2>2. transform' \in [Object -> Transform]
    <3>1. CASE SnapshotAck(p, packet)
      BY <2>1, <3>1 DEF SnapshotAck
    <3>2. CASE ClientUpdate(p, packet)
      <4>1. packet.type = "ClientUpdate"
        BY <3>2 DEF ClientUpdate
      <4>2. packet.id \in Object /\ packet.transform \in Transform
        BY <1>5, <4>1 DEF UpPackets, Acks, Updates
      <4> QED BY <2>1, <3>2, <4>2 DEF ClientUpdate
    <3> QED BY <1>1, <3>1, <3>2
  <2> QED BY <1>1, <2>2 DEF Inv, ServerOK
<1>7. /\ acked' = [q \in Peer |-> acked'[q]]
      /\ \A q \in Peer : q # p => acked'[q] = acked[q]
      /\ AckedOK(World, p, client[p], acked'[p])
  <2>1. CASE SnapshotAck(p, packet)
    <3>1. packet.type = "SnapshotAck" /\ acked' = [acked EXCEPT ![p] = packet.tick]
      BY <2>1 DEF SnapshotAck
    <3>2. AckedOK(World, p, client[p], packet.tick)
      BY <1>5, <3>1 DEF AckOK, AckedOK
    <3>3. acked'[p] = packet.tick
      BY <1>3, <3>1
    <3> QED BY <1>3, <3>1, <3>2, <3>3
  <2>2. CASE ClientUpdate(p, packet)
    BY <1>3, <1>4, <2>2 DEF ClientUpdate, PeerOK
  <2> QED BY <1>1, <2>1, <2>2
<1>8. /\ up' \in [Peer -> Seq(UpPackets)] /\ up'[p] = Tail(up[p])
      /\ \A q \in Peer : q # p => up'[q] = up[q]
  BY <1>1, <1>3, <1>5
<1>9. LinksTyped'
  BY <1>1, <1>3, <1>7, <1>8 DEF LinksTyped
<1>10. ASSUME NEW q \in Peer PROVE SlotOK(q)'
  <2>1. IsConnected(q)' <=> IsConnected(q)
    BY <1>1 DEF IsConnected
  <2>2. client'[q] = client[q] /\ down'[q] = down[q]
    BY <1>1
  <2>3. CASE q = p
    <3>1. IsConnected(p)
      BY <1>1, <1>4 DEF SlotOK, Gone
    <3>2. PeerOK(World, p, client[p], down[p], up'[p], acked'[p])
      BY <1>4, <1>5, <1>7, <1>8 DEF PeerOK
    <3> QED BY <1>2, <1>4, <2>1, <2>2, <2>3, <3>1, <3>2 DEF SlotOK
  <2>4. CASE q # p
    <3>1. up'[q] = up[q] /\ acked'[q] = acked[q]
      BY <1>7, <1>8, <2>4
    <3>2. registered' = registered
      BY <1>1 DEF Still
    <3> QED BY <1>2, <2>1, <2>2, <3>1, <3>2, SlotStill
  <2> QED BY <2>3, <2>4
<1> QED BY <1>2, <1>6, <1>9, <1>10 DEF Inv, PeersOK

(***************************************************************************)
(* What is left to show of a step of one client.                           *)
(***************************************************************************)
LEMMA ClientStep ==
  ASSUME Inv, NEW p \in Peer, Still,
         UNCHANGED <<transform, value, dirty, connected, acked>>,
         NEW c, NEW d, NEW u, client' = [client EXCEPT ![p] = c],
         down' = [down EXCEPT ![p] = d], up' = [up EXCEPT ![p] = u],
         PeerOK(World, p, c, d, u, acked[p]), IsConnected(p), Complete(World, c, d)
  PROVE  Inv'
<1>1. WorldOK(World)' /\ Extends(World, World') /\ World' = World
  BY WorldStill
<1>2. /\ client = [q \in Peer |-> client[q]] /\ acked = [q \in Peer |-> acked[q]]
      /\ down \in [Peer -> Seq(DownPackets)] /\ up \in [Peer -> Seq(UpPackets)]
  BY DEF Inv, LinksTyped
<1>3. d \in Seq(DownPackets) /\ u \in Seq(UpPackets)
  BY DEF PeerOK, DownOK, UpOK
<1>4. LinksTyped'
  <2>1. client' = [q \in Peer |-> client'[q]] /\ acked' = [q \in Peer |-> acked'[q]]
    BY <1>2
  <2>2. down' \in [Peer -> Seq(DownPackets)] /\ up' \in [Peer -> Seq(UpPackets)]
    BY <1>2, <1>3
  <2> QED BY <2>1, <2>2 DEF LinksTyped
<1>5. ServerOK'
  BY DEF Inv, ServerOK
<1>6. ASSUME NEW q \in Peer PROVE SlotOK(q)'
  <2>1. IsConnected(q)' <=> IsConnected(q)
    BY DEF IsConnected
  <2>2. CASE q = p
    <3>1. client'[q] = c /\ down'[q] = d /\ up'[q] = u /\ acked'[q] = acked[p]
      BY <1>2, <2>2
    <3> QED BY <1>1, <2>1, <2>2, <3>1 DEF SlotOK
  <2>3. CASE q # p
    <3>1. /\ client'[q] = client[q] /\ down'[q] = down[q] /\ up'[q] = up[q]
          /\ acked'[q] = acked[q]
      BY <1>2, <2>3
    <3>2. registered' = registered
      BY DEF Still
    <3> QED BY <1>1, <2>1, <3>1, <3>2, SlotStill
  <2> QED BY <2>2, <2>3
<1> QED BY <1>1, <1>4, <1>5, <1>6 DEF Inv, PeersOK

(***************************************************************************)
(* A client takes a packet: a spawn, or a snapshot it acknowledges.        *)
(***************************************************************************)
LEMMA ClientReceivesStep ==
  ASSUME Inv, NEW p \in Peer, ClientReceives(p)
  PROVE  Inv'
<1> DEFINE w == World
           packet == Head(down[p])
           c == client[p]
           d == down[p]
           u == up[p]
           a == acked[p]
<1>1. /\ d # <<>> /\ down' = [down EXCEPT ![p] = Tail(d)]
      /\ Still /\ UNCHANGED <<transform, value, dirty, connected, acked>>
      /\ \/ /\ packet.type = "Snapshot"
            /\ client' = [client EXCEPT ![p] = ReceiveSnapshot(c, packet)]
            /\ up' = [up EXCEPT ![p] = Append(u, Ack(packet))] \/ UNCHANGED up
         \/ /\ packet.type = "Spawn"
            /\ client' = [client EXCEPT ![p] = ReceiveSpawn(p, c, packet)]
            /\ UNCHANGED up
  BY DEF ClientReceives, Still
<1>2. /\ WorldOK(w) /\ SlotOK(p) /\ up \in [Peer -> Seq(UpPackets)]
  BY DEF Inv, PeersOK, LinksTyped
<1>3. IsConnected(p) /\ Complete(w, c, d)
  BY <1>1, <1>2 DEF SlotOK, Gone
<1>4. /\ ClientOK(w, p, c) /\ DownOK(w, p, c, d) /\ UpOK(w, p, c, u) /\ AckedOK(w, p, c, a)
  BY <1>2 DEF SlotOK, PeerOK
<1>5. packet = d[1] /\ packet \in DownPackets /\ PacketOK(w, p, c, d, 1)
  <2>1. d \in Seq(DownPackets)
    BY <1>4 DEF DownOK
  <2>2. 1 \in 1..Len(d) /\ packet = d[1]
    BY <1>1, <2>1
  <2> QED BY <1>4, <2>1, <2>2 DEF DownOK
<1>6. up = [up EXCEPT ![p] = u]
  BY <1>2
<1> HIDE DEF w, packet, c, d, u, a
<1>7. CASE packet.type = "Spawn"
  <2> DEFINE e == ReceiveSpawn(p, c, packet)
  <2>1. packet \in Spawns /\ SpawnOK(w, packet)
    BY <1>5, <1>7 DEF DownPackets, Snapshots, PacketOK, IsSnapshot
  <2>2. ClientOK(w, p, e) /\ Takes(c, packet, e) /\ Keeps(c, e)
    BY <1>2, <1>4, <2>1, SpawnTaken
  <2> HIDE DEF e
  <2>3. DownOK(w, p, e, Tail(d)) /\ Complete(w, e, Tail(d))
    BY <1>1, <1>2, <1>3, <1>4, <2>2, PacketTaken DEF packet, d
  <2>4. UpOK(w, p, e, u) /\ AckedOK(w, p, e, a)
    BY <1>2, <1>4, <2>2, UpKept
  <2>5. PeerOK(w, p, e, Tail(d), u, a)
    BY <2>2, <2>3, <2>4 DEF PeerOK
  <2>6. client' = [client EXCEPT ![p] = e] /\ up' = [up EXCEPT ![p] = u]
    BY <1>1, <1>6, <1>7 DEF e
  <2> QED BY <1>1, <1>3, <2>3, <2>5, <2>6, ClientStep DEF w, a
<1>8. CASE packet.type = "Snapshot"
  <2> DEFINE e == ReceiveSnapshot(c, packet)
  <2>1. /\ packet \in Snapshots /\ SnapshotOK(w, packet) /\ Known(w, p, c, packet.base)
        /\ c.tick < packet.tick /\ \A o \in DOMAIN packet.components : Arrives(c, d, o, 0)
    BY <1>5, <1>8 DEF DownPackets, Spawns, PacketOK, IsSpawn
  <2>2. DOMAIN packet.components \subseteq c.here
    BY <2>1 DEF Arrives
  <2>3. /\ ClientOK(w, p, e) /\ Takes(c, packet, e) /\ Keeps(c, e)
        /\ Known(w, p, e, packet.tick)
    BY <1>2, <1>4, <2>1, <2>2, SnapshotTaken
  <2> HIDE DEF e
  <2>4. DownOK(w, p, e, Tail(d)) /\ Complete(w, e, Tail(d))
    BY <1>1, <1>2, <1>3, <1>4, <2>3, PacketTaken DEF packet, d
  <2>5. UpOK(w, p, e, u) /\ AckedOK(w, p, e, a)
    BY <1>2, <1>4, <2>3, UpKept
  <2>6. client' = [client EXCEPT ![p] = e]
    BY <1>1, <1>8 DEF e
  <2>7. CASE UNCHANGED up
    <3>1. PeerOK(w, p, e, Tail(d), u, a) /\ up' = [up EXCEPT ![p] = u]
      BY <1>6, <2>3, <2>4, <2>5, <2>7 DEF PeerOK
    <3> QED BY <1>1, <1>3, <2>4, <2>6, <3>1, ClientStep DEF w, a
  <2>8. CASE up' = [up EXCEPT ![p] = Append(u, Ack(packet))]
    <3>1. Ack(packet) \in UpPackets /\ Ack(packet).tick = packet.tick
      BY <2>1 DEF Ack, UpPackets, Acks, Snapshots
    <3>2. AckOK(w, p, e, Ack(packet))
      BY <2>1, <2>3, <3>1 DEF AckOK, SnapshotOK
    <3>3. UpOK(w, p, e, Append(u, Ack(packet)))
      BY <2>5, <3>1, <3>2, AckAppended
    <3>4. PeerOK(w, p, e, Tail(d), Append(u, Ack(packet)), a)
      BY <2>3, <2>4, <2>5, <3>3 DEF PeerOK
    <3> QED BY <1>1, <1>3, <2>4, <2>6, <2>8, <3>4, ClientStep DEF w, a
  <2> QED BY <1>1, <1>8, <2>7, <2>8
<1> QED BY <1>1, <1>7, <1>8

(***************************************************************************)
(* A client moves what it owns and tells the server.                       *)
(***************************************************************************)
LEMMA MoveOwnStep ==
  ASSUME Inv, NEW p \in Peer, NEW o \in Object, NEW x \in Transform, MoveOwn(p, o, x)
  PROVE  Inv'
<1> DEFINE w == World
           c == client[p]
           d == down[p]
           u == up[p]
           a == acked[p]
           e == [c EXCEPT !.transform[o] = x]
<1>1. /\ o \in c.mine /\ client' = [client EXCEPT ![p].transform[o] = x]
      /\ Still /\ UNCHANGED <<transform, value, dirty, connected, acked, down, up>>
  BY DEF MoveOwn, Still
<1>2. /\ WorldOK(w) /\ SlotOK(p) /\ client = [q \in Peer |-> client[q]]
      /\ down \in [Peer -> Seq(DownPackets)] /\ up \in [Peer -> Seq(UpPackets)]
  BY DEF Inv, PeersOK, LinksTyped
<1>3. client' = [client EXCEPT ![p] = e]
  BY <1>1
<1>4. down' = [down EXCEPT ![p] = d] /\ up' = [up EXCEPT ![p] = u]
  BY <1>1, <1>2
<1>5. IsConnected(p) /\ Complete(w, c, d)
  BY <1>1, <1>2 DEF SlotOK, Gone, FreshClient
<1>6. /\ ClientOK(w, p, c) /\ DownOK(w, p, c, d) /\ UpOK(w, p, c, u) /\ AckedOK(w, p, c, a)
  BY <1>2 DEF SlotOK, PeerOK
<1> HIDE DEF w, c, d, u, a
<1>7. ClientOK(w, p, e) /\ Keeps(c, e) /\ e.tick = c.tick /\ e.here = c.here
  <2>1. e = [c EXCEPT !.transform[o] = x]
    OBVIOUS
  <2> HIDE DEF e
  <2> QED BY <1>1, <1>2, <1>6, <2>1, OwnMoved
<1> HIDE DEF e
<1>8. DownOK(w, p, e, d) /\ Complete(w, e, d)
  BY <1>2, <1>5, <1>6, <1>7, LinkKept
<1>9. UpOK(w, p, e, u) /\ AckedOK(w, p, e, a)
  BY <1>2, <1>6, <1>7, UpKept
<1>10. PeerOK(w, p, e, d, u, a)
  BY <1>7, <1>8, <1>9 DEF PeerOK
<1> QED BY <1>1, <1>3, <1>4, <1>5, <1>8, <1>10, ClientStep DEF w, a

\* A client tells the server where it moved a component.
LEMMA UpdateSentStep ==
  ASSUME Inv, NEW p \in Peer, NEW o \in Object, SendClientUpdate(p, o)
  PROVE  Inv'
<1> DEFINE w == World
           c == client[p]
           d == down[p]
           u == up[p]
           a == acked[p]
           packet == [type |-> "ClientUpdate", id |-> o, transform |-> c.transform[o]]
<1>1. /\ o \in c.mine /\ up' = [up EXCEPT ![p] = Append(u, packet)]
      /\ Still /\ UNCHANGED <<transform, value, dirty, connected, acked, down, client>>
  BY DEF SendClientUpdate, Still
<1>2. /\ WorldOK(w) /\ SlotOK(p) /\ client = [q \in Peer |-> client[q]]
      /\ down \in [Peer -> Seq(DownPackets)]
  BY DEF Inv, PeersOK, LinksTyped
<1>3. down' = [down EXCEPT ![p] = d] /\ client' = [client EXCEPT ![p] = c]
  BY <1>1, <1>2
<1>4. IsConnected(p) /\ Complete(w, c, d)
  BY <1>1, <1>2 DEF SlotOK, Gone, FreshClient
<1>5. PeerOK(w, p, c, d, u, a)
  BY <1>2 DEF SlotOK
<1> HIDE DEF w, c, d, u, a
<1>6. c.transform[o] \in Transform
  BY <1>5 DEF PeerOK, ClientOK, Clients
<1>7. packet \in UpPackets /\ AckOK(w, p, c, packet)
  BY <1>6 DEF UpPackets, Updates, AckOK
<1> HIDE DEF packet
<1>8. PeerOK(w, p, c, d, Append(u, packet), a)
  BY <1>5, <1>7, AckAppended DEF PeerOK
<1> QED BY <1>1, <1>3, <1>4, <1>8, ClientStep DEF w, a

-----------------------------------------------------------------------------
(***************************************************************************)
(* Every step keeps the invariant.                                         *)
(***************************************************************************)
LEMMA InvStep == Inv /\ [Next]_vars => Inv'
<1> SUFFICES ASSUME Inv, [Next]_vars PROVE Inv'
  OBVIOUS
<1>1. ASSUME NEW o \in Object, NEW x \in Reach[o],
             MoveObject(o, x) \/ SpawnNetworkObject(o, x)
      PROVE  Inv'
  <2>1. x \in Transform
    BY ReplicationAssumption DEF Object, Transform
  <2>2. 0 \in Value
    BY Constants DEF Value
  <2> QED BY <1>1, <2>1, <2>2, GameStep, SpawnStep
<1>2. ASSUME NEW o \in Object, NEW v \in Settings[o], SetVariable(o, v) PROVE Inv'
  <2>1. v \in Value
    BY ReplicationAssumption DEF Object, Value
  <2>2. 0 \in Transform
    BY Constants DEF Transform
  <2> QED BY <1>2, <2>1, <2>2, GameStep
<1>3. ASSUME NEW reached \in SUBSET Peer, UpdateAsServer(reached) PROVE Inv'
  BY <1>3, BroadcastStep
<1>4. ASSUME NEW p \in Peer,
             \/ ClientConnected(p) \/ Disconnect(p) \/ ServerReceives(p)
             \/ ClientReceives(p)
      PROVE  Inv'
  BY <1>4, ConnectedStep, DisconnectStep, ServerReceivesStep, ClientReceivesStep
<1>5. ASSUME NEW p \in Peer, NEW o \in Object, SendClientUpdate(p, o) PROVE Inv'
  BY <1>5, UpdateSentStep
<1>6. ASSUME NEW p \in Peer, NEW o \in Object, NEW x \in Reach[o], MoveOwn(p, o, x)
      PROVE  Inv'
  <2>1. x \in Transform
    BY ReplicationAssumption DEF Object, Transform
  <2> QED BY <1>6, <2>1, MoveOwnStep
<1>7. CASE UNCHANGED vars
  <2>1. Still /\ UNCHANGED <<transform, value, dirty, connected, acked, client, down, up>>
    BY <1>7 DEF vars, Still
  <2>2. WorldOK(World)' /\ World' = World
    BY <2>1, WorldStill
  <2>3. ServerOK' /\ LinksTyped'
    BY <2>1 DEF Inv, ServerOK, LinksTyped
  <2>4. PeersOK'
    <3>1. \A p \in Peer : IsConnected(p)' <=> IsConnected(p)
      BY <2>1 DEF IsConnected
    <3> QED BY <2>1, <2>2, <3>1 DEF Inv, PeersOK, SlotOK
  <2> QED BY <2>2, <2>3, <2>4 DEF Inv
<1> QED BY <1>1, <1>2, <1>3, <1>4, <1>5, <1>6, <1>7 DEF Next

\* The invariant holds in every reachable state.
LEMMA Invariant == Spec => []Inv
  BY InvInit, InvStep, PTL DEF Spec

-----------------------------------------------------------------------------
(***************************************************************************)
(* The variables keep their types: a tick acknowledged or applied is one   *)
(* the server has reached, a client only has components there are.         *)
(***************************************************************************)
THEOREM TypeCorrect == Spec => []TypeOK
<1>1. Inv => TypeOK
  <2> SUFFICES ASSUME Inv PROVE TypeOK
    OBVIOUS
  <2>1. /\ useDelta \in BOOLEAN /\ tick \in 0..MaxTick
        /\ registered \in SceneObjects..MaxObject
        /\ owner \in [Object -> Peer \cup {Server}] /\ history \in States
    BY DEF Inv, WorldOK, World
  <2>2. /\ transform \in [Object -> Transform] /\ value \in [Object -> Value]
        /\ dirty \in [Object -> BOOLEAN]
    BY DEF Inv, ServerOK
  <2>3. ASSUME NEW p \in Peer
        PROVE  /\ acked[p] \in {NoTick} \cup 1..tick
               /\ client[p].tick \in 0..tick /\ client[p].mine \subseteq client[p].here
               /\ client[p].here \subseteq 1..registered /\ client[p].history \in States
    <3>1. ClientOK(World, p, client[p]) /\ AckedOK(World, p, client[p], acked[p])
      BY DEF Inv, PeersOK, SlotOK, PeerOK
    <3> QED BY <3>1 DEF ClientOK, Clients, AckedOK, World
  <2>4. acked \in [Peer -> {NoTick} \cup 1..tick]
    BY <2>3 DEF Inv, LinksTyped
  <2> QED BY <2>1, <2>2, <2>3, <2>4 DEF TypeOK
<1> QED BY <1>1, Invariant, PTL

(***************************************************************************)
(* Whatever gets lost and whoever takes whose slot: a delta is only ever   *)
(* made against a state its client has.                                    *)
(***************************************************************************)
THEOREM BaselineAlwaysKnown == Spec => []BaselineKnown
<1>1. Inv => BaselineKnown
  <2> SUFFICES ASSUME Inv, NEW p \in Peer, NEW o \in Object, NEW base \in Bases(p),
                      owner[o] # p, HasState(history[o], base)
               PROVE  HasState(client[p].history[o], base)
    BY DEF BaselineKnown, ConnectedPeers
  <2>1. PeerOK(World, p, client[p], down[p], up[p], acked[p])
    BY DEF Inv, PeersOK, SlotOK
  <2>2. Known(World, p, client[p], base)
    <3>1. CASE base = acked[p]
      BY <2>1, <3>1 DEF PeerOK, AckedOK
    <3>2. CASE base # acked[p]
      <4>1. PICK i \in 1..Len(down[p]) : IsSnapshot(down[p][i]) /\ base = down[p][i].base
        BY <3>2 DEF Bases, IsSnapshot
      <4>2. PacketOK(World, p, client[p], down[p], i)
        BY <2>1 DEF PeerOK, DownOK
      <4> QED BY <4>1, <4>2 DEF PacketOK, IsSnapshot, IsSpawn
    <3> QED BY <3>1, <3>2
  <2> QED BY <2>2 DEF Known, World
<1> QED BY <1>1, Invariant, PTL

(***************************************************************************)
(* Errors add up by no more than a threshold per tick.                     *)
(***************************************************************************)
THEOREM DriftAlwaysBounded == Spec => []DriftBounded
<1>1. Inv => DriftBounded
  <2> SUFFICES ASSUME Inv, NEW p \in Peer, NEW o \in Object, NEW t \in Tick,
                      HasState(client[p].history[o], t)
               PROVE  Distance(client[p].history[o][t], sentAt[t].transform[o])
                        <= IF useDelta THEN (t - 1) * Threshold ELSE 0
    BY DEF DriftBounded
  <2>1. ClientOK(World, p, client[p])
    BY DEF Inv, PeersOK, SlotOK, PeerOK
  <2>2. Distance(client[p].history[o][t], World.sentAt[t].transform[o]) <= Drift(World, t)
    BY <2>1 DEF ClientOK, HasState
  <2> QED BY <2>2 DEF Drift, World
<1> QED BY <1>1, Invariant, PTL

(***************************************************************************)
(* Full snapshots are exact.                                               *)
(***************************************************************************)
THEOREM FullSnapshotsAlwaysExact == Spec => []FullSnapshotsExact
<1>1. Inv => FullSnapshotsExact
  <2> SUFFICES ASSUME Inv, NEW p \in Peer, NEW o \in Object,
                      ~useDelta, client[p].tick # 0, IsCurrent(p, o)
               PROVE  /\ client[p].transform[o] = sentAt[client[p].tick].transform[o]
                      /\ client[p].value[o] = sentAt[client[p].tick].value[o]
    BY DEF FullSnapshotsExact
  <2>1. ClientOK(World, p, client[p])
    BY DEF Inv, PeersOK, SlotOK, PeerOK
  <2> QED BY <2>1 DEF ClientOK, IsCurrent, World
<1> QED BY <1>1, Invariant, PTL

(***************************************************************************)
(* No packet moves what a client owns.                                     *)
(***************************************************************************)
THEOREM OwnersAlwaysKeepTheirs == Spec => OwnersKeepTheirs
<1> DEFINE Kept == \A p \in Peer : ClientReceives(p) =>
                     \A o \in client[p].mine : client'[p].transform[o] = client[p].transform[o]
<1>1. Inv /\ [Next]_vars => [Kept]_vars
  <2> SUFFICES ASSUME Inv, NEW p \in Peer, ClientReceives(p), NEW o \in client[p].mine
               PROVE  client'[p].transform[o] = client[p].transform[o]
    OBVIOUS
  <2> DEFINE packet == Head(down[p])
             c == client[p]
  <2>1. ClientOK(World, p, c) /\ client = [q \in Peer |-> client[q]]
    BY DEF Inv, PeersOK, SlotOK, PeerOK, LinksTyped
  <2>2. o \in Object /\ o \in c.here
    BY <2>1 DEF ClientOK, Clients
  <2>3. c.transform \in [Object -> Transform]
    BY <2>1 DEF ClientOK, Clients
  <2>4. \/ client' = [client EXCEPT ![p] = ReceiveSnapshot(c, packet)]
        \/ client' = [client EXCEPT ![p] = ReceiveSpawn(p, c, packet)]
    BY DEF ClientReceives
  <2> HIDE DEF packet
  <2>5. ReceiveSnapshot(c, packet).transform[o] = c.transform[o]
    BY <2>2 DEF ReceiveSnapshot, Applies
  <2>6. ReceiveSpawn(p, c, packet).transform[o] = c.transform[o]
    BY <2>2, <2>3 DEF ReceiveSpawn
  <2> QED BY <2>1, <2>4, <2>5, <2>6
<1>2. OwnersKeepTheirs <=> [][Kept]_vars
  BY PTL DEF OwnersKeepTheirs
<1> QED BY <1>1, <1>2, Invariant, PTL DEF Spec
=============================================================================
