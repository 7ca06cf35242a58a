------------------------- MODULE HandshakeWorldProofs -------------------------
(***************************************************************************)
(* Late joiners get the world: an accepted client that has read what was   *)
(* sent to it has exactly the server's objects, for any number of peers    *)
(* and objects and streams of any length.                                  *)
(*                                                                         *)
(* What a client will have is decided by the last word about each object,  *)
(* in its stream or, if the stream says nothing, in what it has and holds. *)
(* The invariant compares that with the world: before the acceptance is    *)
(* sent a client will have nothing that is not in the world, and from then *)
(* on it will have all of it.                                              *)
(***************************************************************************)
EXTENDS HandshakeProofs

\* Has(c): the objects of a client and those it holds back.
Has(c) == c.objects \cup c.held

\* The last word about o, when stream is read on top of S, is that it was spawned.
WillHave(S, stream, o) ==
  \/ o \in S /\ \A i \in DOMAIN stream : stream[i] # DespawnOf(o)
  \/ \E i \in DOMAIN stream :
       /\ stream[i] = SpawnOf(o)
       /\ \A j \in DOMAIN stream : j > i => stream[j] # DespawnOf(o)

\* Clients that will still take a spawn, now or once their handshake has begun.
Listens(c) == c.phase = "connecting" \/ c.auth \in {"pending", "accepted"}

IsAccept(m) == m.type = "Accept"

\* The acceptance is read or on its way.
Due(c, in) ==
  \/ c.auth = "accepted"
  \/ c.auth = "pending" /\ \E i \in DOMAIN in : IsAccept(in[i])

\* A client that has not begun has no objects, nor has one the server has yet to connect.
Bare(c, l, in) ==
  /\ c.link = "pending" => c.phase = "connecting"
  /\ c.phase = "connecting" => c.auth \notin {"pending", "accepted"} /\ Has(c) = {}
  /\ c.auth = "accepted" => c.held = {}
  /\ c.link = "up" /\ ~l => in = <<>> /\ Has(c) = {}

\* Client c, linked or not (l), with stream in, against the objects W of the server.
View(c, l, in, W) ==
  /\ Bare(c, l, in)
  /\ c.link = "up" /\ l =>
       /\ Listens(c) => \A o \in Object : WillHave(Has(c), in, o) => o \in W
       /\ Due(c, in) => \A o \in W : WillHave(Has(c), in, o)

ViewOf(p) == View(client[p], p \in linked, toClient[p], Range(world))

\* Every object of the world has an id of its own.
Distinct(w, n) ==
  /\ \A i \in DOMAIN w : w[i] < n
  /\ \A i, j \in DOMAIN w : w[i] = w[j] => i = j

WInv == IInv /\ Distinct(world, nextId) /\ \A p \in Peer : ViewOf(p)

-----------------------------------------------------------------------------
(***************************************************************************)
(* The last word about an object, when a stream is read or grows.          *)
(***************************************************************************)
LEMMA WordsDiffer ==
  ASSUME NEW o, NEW q
  PROVE  /\ SpawnOf(o) # DespawnOf(q)
         /\ SpawnOf(o) = SpawnOf(q) => o = q
         /\ DespawnOf(o) = DespawnOf(q) => o = q
         /\ SpawnOf(o).type = "Spawn" /\ DespawnOf(o).type = "Despawn"
         /\ SpawnOf(o).object = o /\ DespawnOf(o).object = o
BY DEF SpawnOf, DespawnOf

\* A spawn or despawn is known by its object.
LEMMA WordsAreTheirs ==
  ASSUME NEW m \in ServerMessage
  PROVE  /\ m.type = "Spawn" => m = SpawnOf(m.object)
         /\ m.type = "Despawn" => m = DespawnOf(m.object)
<1>1. CASE \E n \in Nonce, s \in Nonce : m = Challenge(n, s)
  BY <1>1 DEF Challenge
<1>2. CASE m \in {Accept, Reject, Notice}
  BY <1>2 DEF Accept, Reject, Notice
<1>3. CASE \E o \in Object : m \in {SpawnOf(o), DespawnOf(o)}
  BY <1>3 DEF SpawnOf, DespawnOf
<1> QED BY <1>1, <1>2, <1>3 DEF ServerMessage

\* Reading the first packet moves its word into the set.
LEMMA WordRead ==
  ASSUME NEW T, NEW in \in Seq(T), in # <<>>, NEW S, NEW R, NEW o,
         Head(in) = SpawnOf(o) => o \in R,
         Head(in) = DespawnOf(o) => o \notin R,
         Head(in) \notin {SpawnOf(o), DespawnOf(o)} => (o \in R <=> o \in S)
  PROVE  WillHave(S, in, o) <=> WillHave(R, Tail(in), o)
<1> DEFINE rest == Tail(in)
           yes == SpawnOf(o)
           no == DespawnOf(o)
<1>1. yes # no
  BY WordsDiffer
<1>2. /\ 1 \in DOMAIN in /\ Head(in) = in[1]
      /\ \A i \in DOMAIN rest : i \in Nat \ {0} /\ i + 1 \in DOMAIN in /\ rest[i] = in[i + 1]
      /\ \A i \in DOMAIN in : i \in Nat \ {0}
      /\ \A i \in DOMAIN in : i # 1 => i - 1 \in DOMAIN rest /\ rest[i - 1] = in[i]
  OBVIOUS
<1> HIDE DEF rest, yes, no
<1>3. ASSUME WillHave(S, in, o)
      PROVE  WillHave(R, rest, o)
  <2>1. CASE o \in S /\ \A i \in DOMAIN in : in[i] # no
    <3>1. o \in R
      BY <1>2, <2>1 DEF yes, no
    <3> QED BY <1>2, <2>1, <3>1 DEF WillHave, no
  <2>2. CASE \E i \in DOMAIN in : /\ in[i] = yes
                                  /\ \A j \in DOMAIN in : j > i => in[j] # no
    <3>1. PICK i \in DOMAIN in : in[i] = yes /\ \A j \in DOMAIN in : j > i => in[j] # no
      BY <2>2
    <3>2. CASE i = 1
      <4>1. o \in R
        BY <1>2, <3>1, <3>2 DEF yes
      <4>2. \A k \in DOMAIN rest : rest[k] # no
        BY <1>2, <3>1, <3>2
      <4> QED BY <4>1, <4>2 DEF WillHave, no
    <3>3. CASE i # 1
      <4>1. i - 1 \in DOMAIN rest /\ rest[i - 1] = yes
        BY <1>2, <3>1, <3>3
      <4>2. \A k \in DOMAIN rest : k > i - 1 => rest[k] # no
        BY <1>2, <3>1
      <4> QED BY <4>1, <4>2 DEF WillHave, yes, no
    <3> QED BY <3>2, <3>3
  <2> QED BY <1>3, <2>1, <2>2 DEF WillHave, yes, no
<1>4. ASSUME WillHave(R, rest, o)
      PROVE  WillHave(S, in, o)
  <2>1. CASE o \in R /\ \A i \in DOMAIN rest : rest[i] # no
    <3>1. in[1] # no
      BY <1>2, <2>1 DEF no
    <3>2. \A i \in DOMAIN in : in[i] # no
      BY <1>2, <2>1, <3>1
    <3>3. CASE in[1] = yes
      BY <1>2, <3>2, <3>3 DEF WillHave, yes, no
    <3>4. CASE in[1] # yes
      BY <1>2, <2>1, <3>1, <3>2, <3>4 DEF WillHave, yes, no
    <3> QED BY <3>3, <3>4
  <2>2. CASE \E i \in DOMAIN rest : /\ rest[i] = yes
                                    /\ \A j \in DOMAIN rest : j > i => rest[j] # no
    <3>1. PICK i \in DOMAIN rest : rest[i] = yes /\ \A j \in DOMAIN rest : j > i => rest[j] # no
      BY <2>2
    <3>2. i + 1 \in DOMAIN in /\ in[i + 1] = yes
      BY <1>2, <3>1
    <3>3. ASSUME NEW j \in DOMAIN in, j > i + 1
          PROVE  in[j] # no
      <4>1. j - 1 \in DOMAIN rest /\ rest[j - 1] = in[j] /\ j - 1 > i
        BY <1>2, <3>3
      <4> QED BY <3>1, <4>1
    <3> QED BY <3>2, <3>3 DEF WillHave, yes, no
  <2> QED BY <1>4, <2>1, <2>2 DEF WillHave, yes, no
<1> QED BY <1>3, <1>4 DEF rest

\* A packet that a client without objects loses does not make it have more.
LEMMA WordLost ==
  ASSUME NEW T, NEW in \in Seq(T), in # <<>>, NEW o, WillHave({}, Tail(in), o)
  PROVE  WillHave({}, in, o)
<1> DEFINE R == IF Head(in) = SpawnOf(o) THEN {o} ELSE {}
<1>1. WillHave(R, Tail(in), o)
  BY DEF WillHave
<1> QED BY <1>1, WordRead, WordsDiffer

\* Other words leave the last one as it is.
LEMMA OtherWords ==
  ASSUME NEW T, NEW in \in Seq(T), NEW msgs \in Seq(T), NEW S, NEW o,
         \A i \in DOMAIN msgs : msgs[i] \notin {SpawnOf(o), DespawnOf(o)}
  PROVE  WillHave(S, in \o msgs, o) <=> WillHave(S, in, o)
<1> DEFINE ext == in \o msgs
           yes == SpawnOf(o)
           no == DespawnOf(o)
<1>1. \A i \in DOMAIN ext : \/ i \in DOMAIN in /\ ext[i] = in[i]
                            \/ i \notin DOMAIN in /\ ext[i] \notin {yes, no}
  BY ConcatElements
<1>2. \A i \in DOMAIN in : i \in DOMAIN ext /\ ext[i] = in[i]
  OBVIOUS
<1> HIDE DEF ext, yes, no
<1> QED BY <1>1, <1>2 DEF WillHave, ext, yes, no

\* A concatenation has the elements of both parts.
LEMMA ConcatHas ==
  ASSUME NEW T, NEW s \in Seq(T), NEW t \in Seq(T)
  PROVE  /\ \A i \in DOMAIN s : i \in DOMAIN (s \o t) /\ (s \o t)[i] = s[i]
         /\ \A i \in DOMAIN t : /\ Len(s) + i \in DOMAIN (s \o t)
                                /\ (s \o t)[Len(s) + i] = t[i]
OBVIOUS

\* The objects of a world that grows.
LEMMA RangeAppended ==
  ASSUME NEW T, NEW s \in Seq(T), NEW e \in T
  PROVE  Range(Append(s, e)) = Range(s) \cup {e}
<1>1. /\ DOMAIN s = 1 .. Len(s) /\ DOMAIN Append(s, e) = 1 .. Len(s) + 1 /\ Len(s) \in Nat
      /\ \A i \in DOMAIN s : Append(s, e)[i] = s[i]
      /\ Append(s, e)[Len(s) + 1] = e
  OBVIOUS
<1> DEFINE a == Append(s, e)
<1> HIDE DEF a
<1>2. Range(a) = {a[i] : i \in DOMAIN a} /\ Range(s) = {s[i] : i \in DOMAIN s}
  BY DEF Range
<1>3. DOMAIN a = DOMAIN s \cup {Len(s) + 1} /\ Len(s) + 1 \notin DOMAIN s
  BY <1>1 DEF a
<1> QED BY <1>1, <1>2, <1>3 DEF a

\* A spawn that nothing follows is the last word.
LEMMA SpawnWord ==
  ASSUME NEW T, NEW in \in Seq(T), NEW msgs \in Seq(T), NEW S, NEW o,
         \E i \in DOMAIN msgs : msgs[i] = SpawnOf(o),
         \A i \in DOMAIN msgs : msgs[i] # DespawnOf(o)
  PROVE  WillHave(S, in \o msgs, o)
<1> DEFINE ext == in \o msgs
<1>1. PICK i \in DOMAIN msgs : msgs[i] = SpawnOf(o)
  OBVIOUS
<1>2. Len(in) + i \in DOMAIN ext /\ ext[Len(in) + i] = SpawnOf(o)
  BY <1>1
<1>3. ASSUME NEW j \in DOMAIN ext, j > Len(in) + i
      PROVE  ext[j] # DespawnOf(o)
  <2>1. j - Len(in) \in DOMAIN msgs /\ ext[j] = msgs[j - Len(in)]
    BY <1>3
  <2> QED BY <2>1
<1> QED BY <1>2, <1>3 DEF WillHave

\* So is a despawn.
LEMMA DespawnWord ==
  ASSUME NEW T, NEW in \in Seq(T), NEW S, NEW o, DespawnOf(o) \in T
  PROVE  ~WillHave(S, in \o <<DespawnOf(o)>>, o)
<1> DEFINE last == <<DespawnOf(o)>>
           ext == in \o last
           n == Len(in) + 1
<1>1. n \in DOMAIN ext /\ ext[n] = DespawnOf(o)
  OBVIOUS
<1>2. \A i \in DOMAIN ext : i \in Nat /\ (i = n \/ i < n)
  OBVIOUS
<1>3. SpawnOf(o) # DespawnOf(o)
  BY WordsDiffer
<1>4. n \in Nat
  OBVIOUS
<1> HIDE DEF ext, n
<1>5. ASSUME NEW i \in DOMAIN ext, ext[i] = SpawnOf(o)
      PROVE  n > i
  BY <1>1, <1>2, <1>3, <1>4, <1>5
<1>6. ~WillHave(S, ext, o)
  BY <1>1, <1>5 DEF WillHave
<1> QED BY <1>6 DEF ext

-----------------------------------------------------------------------------
(***************************************************************************)
(* What each effect on a client does to its view of the world.             *)
(***************************************************************************)

\* A client whose link is gone has nothing to agree with.
LEMMA ViewDown ==
  ASSUME NEW c, NEW d, NEW l, NEW m, NEW in, NEW any, NEW W, NEW V, View(c, l, in, W),
         d.link \in {"down", "cut"}, d.phase \in {c.phase, "begun"},
         d.phase = "connecting" => d.auth \notin {"pending", "accepted"} /\ Has(d) = {},
         d.auth = "accepted" => d.held = {}
  PROVE  View(d, m, any, V)
BY DEF View, Bare

\* Reading a packet: the client takes the word, or stops listening.
LEMMA ViewReads ==
  ASSUME NEW c, NEW d, NEW l, NEW in \in Seq(ServerMessage), NEW W \in SUBSET Object,
         View(c, l, in, W), in # <<>>,
         c.link = "up", d.link = "up", d.phase = c.phase,
         d.auth = "accepted" => d.held = {},
         d.phase = "connecting" => d.auth \notin {"pending", "accepted"} /\ Has(d) = {},
         Listens(d) /\ d.phase # "connecting" =>
           /\ Listens(c) /\ c.phase # "connecting"
           /\ \A o \in Object : /\ Head(in) = SpawnOf(o) => o \in Has(d)
                                /\ Head(in) = DespawnOf(o) => o \notin Has(d)
                                /\ Head(in) \notin {SpawnOf(o), DespawnOf(o)}
                                     => (o \in Has(d) <=> o \in Has(c)),
         Due(d, Tail(in)) => Due(c, in)
  PROVE  View(d, l, Tail(in), W)
<1>1. l
  BY DEF View, Bare
<1>2. Bare(d, l, Tail(in))
  BY <1>1 DEF Bare
<1>3. ASSUME Listens(d), d.phase # "connecting", NEW o \in Object
      PROVE  WillHave(Has(c), in, o) <=> WillHave(Has(d), Tail(in), o)
  BY <1>3, WordRead
<1>4. ASSUME d.phase = "connecting", NEW o \in Object, WillHave(Has(d), Tail(in), o)
      PROVE  WillHave(Has(c), in, o)
  <2>1. Has(d) = {} /\ Has(c) = {}
    BY <1>4 DEF View, Bare
  <2> QED BY <1>4, <2>1, WordLost
<1>5. ASSUME Listens(d), NEW o \in Object, WillHave(Has(d), Tail(in), o)
      PROVE  o \in W
  <2>1. WillHave(Has(c), in, o) /\ Listens(c)
    BY <1>3, <1>4, <1>5 DEF Listens
  <2> QED BY <1>1, <2>1 DEF View
<1>6. ASSUME Due(d, Tail(in)), NEW o \in W
      PROVE  WillHave(Has(d), Tail(in), o)
  <2>1. Due(c, in) /\ d.auth \in {"pending", "accepted"}
    BY <1>6 DEF Due
  <2>2. Listens(d) /\ d.phase # "connecting"
    BY <2>1 DEF Listens
  <2>3. WillHave(Has(c), in, o)
    BY <1>1, <2>1 DEF View
  <2> QED BY <1>3, <2>2, <2>3
<1> QED BY <1>1, <1>2, <1>5, <1>6 DEF View

\* Hearing something that is about no object and accepts nobody.
LEMMA ViewHears ==
  ASSUME NEW c, NEW in \in Seq(ServerMessage), NEW msgs \in Seq(ServerMessage),
         NEW W \in SUBSET Object, View(c, TRUE, in, W), c.link = "up",
         \A i \in DOMAIN msgs : msgs[i].type \notin {"Spawn", "Despawn", "Accept"}
  PROVE  View(c, TRUE, in \o msgs, W)
<1> DEFINE ext == in \o msgs
<1>1. \A o : \A i \in DOMAIN msgs : msgs[i] \notin {SpawnOf(o), DespawnOf(o)}
  BY WordsDiffer
<1>2. \A o : WillHave(Has(c), ext, o) <=> WillHave(Has(c), in, o)
  BY <1>1, OtherWords
<1>3. \A i \in DOMAIN ext : \/ i \in DOMAIN in /\ ext[i] = in[i]
                            \/ i \notin DOMAIN in /\ ext[i].type # "Accept"
  BY ConcatElements
<1> HIDE DEF ext
<1>4. Due(c, ext) => Due(c, in)
  BY <1>3 DEF Due, IsAccept
<1>5. Bare(c, TRUE, ext)
  BY DEF View, Bare
<1> QED BY <1>2, <1>4, <1>5 DEF View, ext

\* Hearing of spawns: the world is what it was and what is spawned now.
LEMMA ViewSpawns ==
  ASSUME NEW c, NEW in \in Seq(ServerMessage), NEW msgs \in Seq(ServerMessage),
         NEW W \in SUBSET Object, NEW V \in SUBSET Object, View(c, TRUE, in, W),
         c.link = "up", W \subseteq V,
         \A i \in DOMAIN msgs : IsAccept(msgs[i]) \/ \E o \in V : msgs[i] = SpawnOf(o),
         \A o \in V \ W : \E i \in DOMAIN msgs : msgs[i] = SpawnOf(o),
         \/ \A i \in DOMAIN msgs : ~IsAccept(msgs[i])
         \/ \A o \in V : \E i \in DOMAIN msgs : msgs[i] = SpawnOf(o)
  PROVE  View(c, TRUE, in \o msgs, V)
<1> DEFINE ext == in \o msgs
<1>1. \A o : \A i \in DOMAIN msgs : msgs[i] # DespawnOf(o)
  BY WordsDiffer DEF IsAccept
<1>2. \A o \in V : (\E i \in DOMAIN msgs : msgs[i] = SpawnOf(o)) => WillHave(Has(c), ext, o)
  BY <1>1, SpawnWord
<1>3. \A o : ~(\E i \in DOMAIN msgs : msgs[i] = SpawnOf(o)) =>
               (WillHave(Has(c), ext, o) <=> WillHave(Has(c), in, o))
  BY <1>1, OtherWords
<1>4. \A o : o \notin V => ~(\E i \in DOMAIN msgs : msgs[i] = SpawnOf(o))
  <2> SUFFICES ASSUME NEW o, NEW i \in DOMAIN msgs, msgs[i] = SpawnOf(o)
               PROVE  o \in V
    OBVIOUS
  <2>1. ~IsAccept(msgs[i])
    BY WordsDiffer DEF IsAccept
  <2>2. PICK p \in V : msgs[i] = SpawnOf(p)
    BY <2>1
  <2>3. p = o
    <3>1. SpawnOf(p).object = p /\ SpawnOf(o).object = o
      BY WordsDiffer
    <3>2. SpawnOf(p) = SpawnOf(o)
      BY <2>2
    <3> QED BY <3>1, <3>2
  <2> QED BY <2>3
<1>5. \A i \in DOMAIN ext : \/ i \in DOMAIN in /\ ext[i] = in[i]
                            \/ i \notin DOMAIN in
                                 /\ \E j \in DOMAIN msgs : ext[i] = msgs[j]
  BY ConcatElements
<1> HIDE DEF ext
<1>6. Due(c, ext) => Due(c, in) \/ \E i \in DOMAIN msgs : IsAccept(msgs[i])
  BY <1>5 DEF Due
<1>7. ASSUME Listens(c), NEW o \in Object, WillHave(Has(c), ext, o)
      PROVE  o \in V
  <2>1. CASE o \in W
    BY <2>1
  <2>2. CASE o \notin W
    BY <1>3, <1>4, <1>7, <2>2 DEF View
  <2> QED BY <2>1, <2>2
<1>8. ASSUME Due(c, ext), NEW o \in V
      PROVE  WillHave(Has(c), ext, o)
  <2>1. CASE \E i \in DOMAIN msgs : msgs[i] = SpawnOf(o)
    BY <1>2, <2>1
  <2>2. CASE ~\E i \in DOMAIN msgs : msgs[i] = SpawnOf(o)
    <3>1. o \in W /\ Due(c, in)
      BY <1>6, <1>8, <2>2
    <3>2. WillHave(Has(c), in, o)
      BY <3>1 DEF View
    <3> QED BY <1>3, <2>2, <3>2
  <2> QED BY <2>1, <2>2
<1>9. Bare(c, TRUE, ext)
  BY DEF View, Bare
<1> QED BY <1>7, <1>8, <1>9 DEF View, ext

\* Hearing that an object is gone.
LEMMA ViewDespawns ==
  ASSUME NEW c, NEW in \in Seq(ServerMessage), NEW W \in SUBSET Object, NEW o \in Object,
         View(c, TRUE, in, W), c.link = "up"
  PROVE  View(c, TRUE, in \o <<DespawnOf(o)>>, W \ {o})
<1> DEFINE msgs == <<DespawnOf(o)>>
           ext == in \o msgs
<1>1. msgs \in Seq(ServerMessage) /\ \A i \in DOMAIN msgs : msgs[i] = DespawnOf(o)
  BY ServerPackets
<1>2. ~WillHave(Has(c), ext, o)
  BY ServerPackets, DespawnWord
<1>3. \A q : q # o => \A i \in DOMAIN msgs : msgs[i] \notin {SpawnOf(q), DespawnOf(q)}
  BY <1>1, WordsDiffer
<1> HIDE DEF msgs
<1>4. \A q : q # o => (WillHave(Has(c), ext, q) <=> WillHave(Has(c), in, q))
  BY <1>1, <1>3, OtherWords
<1>5. \A i \in DOMAIN ext : \/ i \in DOMAIN in /\ ext[i] = in[i]
                            \/ i \notin DOMAIN in /\ ~IsAccept(ext[i])
  <2>1. ~IsAccept(DespawnOf(o))
    BY WordsDiffer DEF IsAccept
  <2>2. \A i \in DOMAIN ext : \/ i \in DOMAIN in /\ ext[i] = in[i]
                              \/ i \notin DOMAIN in /\ ext[i] = DespawnOf(o)
    BY <1>1, ConcatElements
  <2> QED BY <2>1, <2>2
<1> HIDE DEF ext
<1>6. Due(c, ext) => Due(c, in)
  BY <1>5 DEF Due
<1>7. Bare(c, TRUE, ext)
  BY DEF View, Bare
<1>8. View(c, TRUE, ext, W \ {o})
  BY <1>2, <1>4, <1>6, <1>7 DEF View
<1> QED BY <1>8 DEF ext, msgs

-----------------------------------------------------------------------------
(***************************************************************************)
(* The client's side: one step per action.                                 *)
(***************************************************************************)

\* Reading with each of the handlers.
LEMMA ReceivesView ==
  ASSUME TypeOK, NEW p \in Peer, SlotOf(p), ViewOf(p), ClientReceives(p)
  PROVE  ViewOf(p)'
<1> DEFINE c == client[p]
           in == toClient[p]
           m == Head(in)
           l == p \in linked
           W == Range(world)
<1>1. /\ c \in Client /\ in \in Seq(ServerMessage) /\ m \in ServerMessage /\ in # <<>>
      /\ c.link \in {"up", "cut"} /\ W \in SUBSET Object
  BY DEF TypeOK, ClientReceives, Range
<1>2. /\ m.type \in {"Challenge", "Accept", "Reject", "Notice", "Spawn", "Despawn"}
      /\ m.type = "Spawn" => m = SpawnOf(m.object) /\ m.object \in Object
      /\ m.type = "Despawn" => m = DespawnOf(m.object) /\ m.object \in Object
  BY <1>1, ServerPackets, WordsAreTheirs
<1>3. linked' = linked /\ world' = world
  BY DEF ClientReceives, server
<1>4. View(c, l, in, W) /\ Bare(c, l, in)
  BY DEF ViewOf, View
<1>5. 1 \in DOMAIN in /\ m = in[1] /\ \A i \in DOMAIN Tail(in) : /\ i + 1 \in DOMAIN in
                                                                /\ Tail(in)[i] = in[i + 1]
  BY <1>1, TailElements
<1>6. c.phase = "connecting" /\ c.link = "up" => m.type # "Accept"
  <2>1. Matching(c, gate[p], toServer[p], in) /\ Vacant(c, gate[p], l, toServer[p], in)
    BY DEF SlotOf, Slot
  <2> QED BY <1>5, <2>1 DEF Matching, Vacant
<1>7. \A o : /\ m = SpawnOf(o) <=> m.type = "Spawn" /\ m.object = o
             /\ m = DespawnOf(o) <=> m.type = "Despawn" /\ m.object = o
  BY <1>2, WordsDiffer
<1> HIDE DEF c, in, m, l, W
<1>8. ASSUME NEW d, NEW msgs, ClientStep(p, d, msgs),
             toClient' = [toClient EXCEPT ![p] = IF d.link = "down" THEN <<>> ELSE Tail(@)],
             View(d, l, IF d.link = "down" THEN <<>> ELSE Tail(in), W)
      PROVE  ViewOf(p)'
  <2>1. client'[p] = d
    BY <1>8, ClientStepAt
  <2>2. toClient'[p] = IF d.link = "down" THEN <<>> ELSE Tail(in)
    BY <1>8 DEF TypeOK, in
  <2> QED BY <1>3, <1>8, <2>1, <2>2 DEF ViewOf, l, W
<1>9. ASSUME NEW d \in Client, d.phase = c.phase, d.link \in {c.link, "down"},
             d.auth = "accepted" => d.held = {},
             d.phase = "connecting" => d.auth \notin {"pending", "accepted"} /\ Has(d) = {},
             c.link = "up" /\ d.link = "up" =>
               /\ Due(d, Tail(in)) => Due(c, in)
               /\ Listens(d) /\ d.phase # "connecting" =>
                    /\ Listens(c) /\ c.phase # "connecting"
                    /\ \A o \in Object : /\ m = SpawnOf(o) => o \in Has(d)
                                         /\ m = DespawnOf(o) => o \notin Has(d)
                                         /\ m \notin {SpawnOf(o), DespawnOf(o)}
                                              => (o \in Has(d) <=> o \in Has(c))
      PROVE  View(d, l, IF d.link = "down" THEN <<>> ELSE Tail(in), W)
  <2>1. CASE d.link \in {"down", "cut"}
    BY <1>4, <1>9, <2>1, ViewDown
  <2>2. CASE d.link = "up"
    BY <1>1, <1>4, <1>9, <2>2, ViewReads DEF m
  <2> QED BY <1>1, <1>9, <2>1, <2>2
<1>10. Due(c, Tail(in)) => Due(c, in)
  BY <1>5 DEF Due
<1>11. CASE m.type = "Accept"
  <2> DEFINE d == HandleHandshakeAccept(c)
  <2>1. d \in Client /\ ClientStep(p, d, <<>>)
          /\ toClient' = [toClient EXCEPT ![p] = IF d.link = "down" THEN <<>> ELSE Tail(@)]
    BY <1>1, <1>11, HandlersKeepClient DEF ClientReceives, c, in, m
  <2>2. CASE c.auth # "pending"
    <3>1. d = c
      BY <2>2 DEF HandleHandshakeAccept
    <3>2. View(d, l, IF d.link = "down" THEN <<>> ELSE Tail(in), W)
      <4>1. \A o : m \notin {SpawnOf(o), DespawnOf(o)}
        BY <1>7, <1>11
      <4> HIDE DEF d
      <4> QED BY <1>1, <1>4, <1>9, <1>10, <2>1, <3>1, <4>1 DEF Bare, Listens
    <3> QED BY <1>8, <2>1, <3>2
  <2>3. CASE c.auth = "pending" /\ c.fit = "wary"
    <3>1. d.link = "down" /\ d.phase = c.phase /\ d.auth = "rejected" /\ Has(d) = Has(c)
      BY <1>1, <2>3 DEF HandleHandshakeAccept, Disconnect, RejectLocalSession, Client, Has
    <3>2. View(d, l, IF d.link = "down" THEN <<>> ELSE Tail(in), W)
      <4> HIDE DEF d
      <4> QED BY <1>1, <1>4, <1>9, <2>1, <3>1 DEF Bare
    <3> QED BY <1>8, <2>1, <3>2
  <2>4. CASE c.auth = "pending" /\ c.fit # "wary"
    <3>1. /\ d.link = c.link /\ d.phase = c.phase /\ d.auth = "accepted" /\ d.held = {}
          /\ Has(d) = Has(c)
      BY <1>1, <2>4 DEF HandleHandshakeAccept, Client, Has
    <3>2. c.phase # "connecting" /\ Due(c, in)
      BY <1>4, <1>5, <1>11, <2>4 DEF Bare, Due, IsAccept
    <3>3. View(d, l, IF d.link = "down" THEN <<>> ELSE Tail(in), W)
      <4>1. \A o : m \notin {SpawnOf(o), DespawnOf(o)}
        BY <1>7, <1>11
      <4> HIDE DEF d
      <4> QED BY <1>9, <2>1, <2>4, <3>1, <3>2, <4>1 DEF Listens
    <3> QED BY <1>8, <2>1, <3>3
  <2> QED BY <2>2, <2>3, <2>4
<1>12. CASE m.type = "Reject"
  <2> DEFINE d == HandleHandshakeReject(c)
  <2>1. d \in Client /\ ClientStep(p, d, <<>>)
          /\ toClient' = [toClient EXCEPT ![p] = IF d.link = "down" THEN <<>> ELSE Tail(@)]
    BY <1>1, <1>12, HandlersKeepClient DEF ClientReceives, c, in, m
  <2>2. d.link = "down" /\ d.phase = c.phase /\ d.auth = "rejected" /\ Has(d) = Has(c)
    BY <1>1 DEF HandleHandshakeReject, Disconnect, RejectLocalSession, Client, Has
  <2>3. View(d, l, IF d.link = "down" THEN <<>> ELSE Tail(in), W)
    <3> HIDE DEF d
    <3> QED BY <1>1, <1>4, <1>9, <2>1, <2>2 DEF Bare
  <2> QED BY <1>8, <2>1, <2>3
<1>13. CASE m.type \in {"Spawn", "Despawn", "Notice"}
  <2> DEFINE d == ReceiveGamePacket(c, m)
  <2>1. d \in Client /\ ClientStep(p, d, <<>>)
          /\ toClient' = [toClient EXCEPT ![p] = IF d.link = "down" THEN <<>> ELSE Tail(@)]
    BY <1>1, <1>13, HandlersKeepClient DEF ClientReceives, c, in, m
  <2>2. CASE c.auth = "accepted"
    <3>1. c.held = {} /\ c.phase # "connecting"
      BY <1>4, <2>2 DEF Bare
    <3>2. /\ d.link = c.link /\ d.phase = c.phase /\ d.auth = "accepted" /\ d.held = {}
          /\ m.type = "Spawn" => d.objects = c.objects \cup {m.object}
          /\ m.type = "Despawn" => d.objects = c.objects \ {m.object}
          /\ m.type = "Notice" => d.objects = c.objects
      BY <1>1, <1>13, <2>2, <3>1 DEF ReceiveGamePacket, Client
    <3>3. \A o \in Object : /\ m = SpawnOf(o) => o \in Has(d)
                            /\ m = DespawnOf(o) => o \notin Has(d)
                            /\ m \notin {SpawnOf(o), DespawnOf(o)}
                                 => (o \in Has(d) <=> o \in Has(c))
      <4> HIDE DEF d
      <4> QED BY <1>7, <1>13, <3>1, <3>2 DEF Has
    <3>4. Due(c, in) /\ Listens(c)
      BY <2>2 DEF Due, Listens
    <3>5. View(d, l, IF d.link = "down" THEN <<>> ELSE Tail(in), W)
      <4> HIDE DEF d
      <4> QED BY <1>9, <2>1, <3>1, <3>2, <3>3, <3>4
    <3> QED BY <1>8, <2>1, <3>5
  <2>3. CASE c.auth = "pending" /\ m.type = "Spawn"
    <3>1. c.phase # "connecting"
      BY <1>4, <2>3 DEF Bare
    <3>2. /\ d.link = c.link /\ d.phase = c.phase /\ d.auth = "pending"
          /\ Has(d) = Has(c) \cup {m.object}
      BY <1>1, <2>3 DEF ReceiveGamePacket, Client, Has
    <3>3. Listens(c) /\ (Due(d, Tail(in)) => Due(c, in))
      <4> HIDE DEF d
      <4> QED BY <1>10, <2>3, <3>2 DEF Due, Listens
    <3>4. \A o \in Object : /\ m = SpawnOf(o) => o \in Has(d)
                            /\ m = DespawnOf(o) => o \notin Has(d)
                            /\ m \notin {SpawnOf(o), DespawnOf(o)}
                                 => (o \in Has(d) <=> o \in Has(c))
      <4> HIDE DEF d
      <4> QED BY <1>7, <2>3, <3>2
    <3>5. View(d, l, IF d.link = "down" THEN <<>> ELSE Tail(in), W)
      <4> HIDE DEF d
      <4> QED BY <1>9, <2>1, <3>1, <3>2, <3>3, <3>4
    <3> QED BY <1>8, <2>1, <3>5
  <2>4. CASE c.auth # "accepted" /\ ~(c.auth = "pending" /\ m.type = "Spawn")
    <3>1. d.link = c.link /\ d.phase = c.phase /\ d.auth = "rejected" /\ Has(d) = Has(c)
      BY <1>1, <2>4 DEF ReceiveGamePacket, RejectLocalSession, Client, Has
    <3>2. View(d, l, IF d.link = "down" THEN <<>> ELSE Tail(in), W)
      <4> HIDE DEF d
      <4>1. ~Due(d, Tail(in)) /\ ~(Listens(d) /\ d.phase # "connecting")
        BY <3>1 DEF Due, Listens
      <4> QED BY <1>4, <1>9, <2>1, <3>1, <4>1 DEF Bare
    <3> QED BY <1>8, <2>1, <3>2
  <2> QED BY <2>2, <2>3, <2>4
<1>14. CASE m.type = "Challenge"
  <2> DEFINE done == HandleHandshakeChallenge(c, m)
  <2>1. ClientStep(p, done.client, done.send)
          /\ toClient' = [toClient EXCEPT ![p] =
                            IF done.client.link = "down" THEN <<>> ELSE Tail(@)]
    BY <1>14 DEF ClientReceives, c, in, m
  <2>2. done.client \in Client
    BY <1>1, <1>14, HandlersKeepClient
  <2>3. /\ done.client.phase = c.phase /\ done.client.link = c.link
        /\ Has(done.client) = Has(c) /\ done.client.held = c.held
        /\ done.client.auth \in {c.auth, "rejected"}
    BY <1>1 DEF HandleHandshakeChallenge, RejectLocalSession, Client, Has
  <2> HIDE DEF done
  <2> DEFINE d == done.client
  <2>4. \A o : m \notin {SpawnOf(o), DespawnOf(o)}
    BY <1>7, <1>14
  <2>5. Due(d, Tail(in)) => Due(c, in)
    BY <1>10, <2>3 DEF Due
  <2>6. View(d, l, IF d.link = "down" THEN <<>> ELSE Tail(in), W)
    BY <1>4, <1>9, <2>2, <2>3, <2>4, <2>5 DEF Bare, Listens
  <2> QED BY <1>8, <2>1, <2>6
<1> QED BY <1>2, <1>11, <1>12, <1>13, <1>14

\* The other actions of a client and of its link.
LEMMA ClientView ==
  ASSUME TypeOK, NEW p \in Peer, SlotOf(p), ViewOf(p), ClientNext(p)
  PROVE  ViewOf(p)'
<1> DEFINE c == client[p]
           in == toClient[p]
           l == p \in linked
           W == Range(world)
<1>1. c \in Client /\ View(c, l, in, W) /\ Bare(c, l, in)
  BY DEF TypeOK, ViewOf, View
<1>2. Vacant(c, gate[p], l, toServer[p], in)
  BY DEF SlotOf, Slot
<1> HIDE DEF c, in, l, W
<1>3. CASE LinkUp(p)
  <2> DEFINE d == [c EXCEPT !.link = "up"]
  <2>1. /\ client'[p] = d /\ linked' = linked /\ toClient' = toClient /\ world' = world
        /\ c.link = "pending"
    BY <1>3 DEF LinkUp, server, TypeOK, c
  <2>2. /\ d.link = "up" /\ d.phase = c.phase /\ d.auth = c.auth /\ d.held = c.held
        /\ Has(d) = Has(c)
    BY <1>1 DEF Client, Has
  <2>3. ~l /\ in = <<>> /\ c.phase = "connecting"
    BY <1>1, <1>2, <2>1 DEF Vacant, Bare
  <2> HIDE DEF d
  <2>4. View(d, l, in, W)
    BY <1>1, <2>2, <2>3 DEF View, Bare
  <2> QED BY <2>1, <2>4 DEF ViewOf, l, in, W
<1>4. CASE ServerConnects(p)
  <2>1. /\ client' = client /\ toClient' = toClient /\ world' = world /\ c.link = "up" /\ ~l
        /\ (p \in linked') = TRUE
    BY <1>4 DEF ServerConnects, c, l
  <2>2. in = <<>> /\ Has(c) = {}
    BY <1>1, <2>1 DEF Bare
  <2>3. c.auth # "accepted"
    <3>1. Matching(c, gate[p], toServer[p], in) /\ gate[p] = FreshGate
      BY <1>2, <2>1 DEF SlotOf, Slot, Vacant, c, l, in
    <3> QED BY <2>1, <3>1 DEF Matching, FreshGate
  <2>4. View(c, TRUE, in, W)
    BY <1>1, <2>1, <2>2, <2>3 DEF View, Bare, WillHave, Due
  <2> QED BY <2>1, <2>4 DEF ViewOf, c, in, W
<1>5. CASE CutLink(p)
  <2> DEFINE d == [c EXCEPT !.link = "cut"]
  <2>1. client'[p] = d /\ linked' = linked /\ toClient' = toClient /\ world' = world
    BY <1>5 DEF CutLink, server, TypeOK, c
  <2>2. /\ d.link = "cut" /\ d.phase = c.phase /\ d.auth = c.auth /\ d.held = c.held
        /\ Has(d) = Has(c)
    BY <1>1 DEF Client, Has
  <2> HIDE DEF d
  <2>3. View(d, l, in, W)
    BY <1>1, <2>2, ViewDown DEF Bare
  <2> QED BY <2>1, <2>3 DEF ViewOf, l, in, W
<1>6. CASE NoticeLoss(p)
  <2> DEFINE e == Disconnect(c)
             d == IF e.auth \in {"pending", "accepted"}
                    THEN [e EXCEPT !.auth = "none", !.nonce = NoNonce,
                                   !.serverNonce = NoNonce, !.held = {}]
                    ELSE e
  <2>1. /\ ClientStep(p, d, <<>>) /\ toClient' = [toClient EXCEPT ![p] = <<>>]
        /\ linked' = linked /\ world' = world
    BY <1>6 DEF NoticeLoss, server, c
  <2>2. /\ d.link = "down" /\ d.phase = c.phase /\ d.auth \in {"none", "rejected"}
        /\ Has(d) \subseteq Has(c)
    BY <1>1 DEF Disconnect, Client, Has
  <2> HIDE DEF d
  <2>3. View(d, l, <<>>, W)
    BY <1>1, <2>2, ViewDown DEF Bare
  <2>4. client'[p] = d /\ toClient'[p] = <<>>
    BY <2>1, ClientStepAt DEF TypeOK
  <2> QED BY <2>1, <2>3, <2>4 DEF ViewOf, l, W
<1>7. CASE StartClient(p)
  <2>1. PICK f \in {"fit", "unfit", "wary"} :
          client' = [client EXCEPT ![p] =
                       [IdleClient EXCEPT !.phase = "connecting", !.link = "pending",
                                          !.fit = f]]
    BY <1>7 DEF StartClient
  <2> DEFINE d == [IdleClient EXCEPT !.phase = "connecting", !.link = "pending", !.fit = f]
  <2>2. client'[p] = d /\ linked' = linked /\ toClient' = toClient /\ world' = world
    BY <1>7, <2>1 DEF StartClient, server, TypeOK
  <2>3. d.link = "pending" /\ d.phase = "connecting" /\ d.auth = "none" /\ Has(d) = {}
    BY DEF IdleClient, Has
  <2> HIDE DEF d
  <2>4. View(d, l, in, W)
    BY <2>3 DEF View, Bare
  <2> QED BY <2>2, <2>4 DEF ViewOf, l, in, W
<1>8. CASE LeaveSession(p)
  <2>1. /\ ClientStep(p, IdleClient, <<>>) /\ toClient' = [toClient EXCEPT ![p] = <<>>]
        /\ linked' = linked /\ world' = world
    BY <1>8 DEF LeaveSession, server
  <2>2. View(IdleClient, l, <<>>, W)
    BY DEF IdleClient, View, Bare
  <2>3. client'[p] = IdleClient /\ toClient'[p] = <<>>
    BY <2>1, ClientStepAt DEF TypeOK
  <2> QED BY <2>1, <2>2, <2>3 DEF ViewOf, l, W
<1>9. CASE BeginSessionHandshake(p)
  <2>1. PICK n \in GenerateNonce(p) :
          ClientStep(p, [c EXCEPT !.phase = "begun", !.auth = "pending", !.nonce = n,
                                  !.serverNonce = NoNonce, !.held = {}],
                     <<Hello(c.fit, n)>>)
    BY <1>9 DEF BeginSessionHandshake, c
  <2> DEFINE d == [c EXCEPT !.phase = "begun", !.auth = "pending", !.nonce = n,
                            !.serverNonce = NoNonce, !.held = {}]
  <2>2. /\ client'[p] = d /\ linked' = linked /\ toClient' = toClient /\ world' = world
        /\ c.phase = "connecting" /\ c.link \in {"up", "cut"}
    BY <1>9, <2>1, ClientStepAt DEF BeginSessionHandshake, server, c
  <2>3. Has(c) = {}
    BY <1>1, <2>2 DEF Bare
  <2>4. d.link = c.link /\ d.phase = "begun" /\ d.auth = "pending" /\ Has(d) = {}
    BY <1>1, <2>3 DEF Client, Has
  <2> HIDE DEF d
  <2>5. CASE c.link = "cut"
    <3>1. View(d, l, in, W)
      BY <1>1, <2>4, <2>5, ViewDown DEF Bare
    <3> QED BY <2>2, <3>1 DEF ViewOf, l, in, W
  <2>6. CASE c.link = "up"
    <3>1. \A i \in DOMAIN in : ~IsAccept(in[i])
      <4>1. Matching(c, gate[p], toServer[p], in) /\ c.nonce = NoNonce
        BY <1>2, <2>2 DEF SlotOf, Slot, Vacant, c, in
      <4> QED BY <2>6, <4>1 DEF Matching, IsAccept
    <3>2. Listens(c)
      BY <2>2 DEF Listens
    <3>3. View(d, l, in, W)
      BY <1>1, <2>3, <2>4, <2>6, <3>1, <3>2 DEF View, Bare, Due
    <3> QED BY <2>2, <3>3 DEF ViewOf, l, in, W
  <2> QED BY <2>2, <2>5, <2>6
<1>10. CASE ClientReceives(p)
  BY <1>10, ReceivesView
<1>11. CASE SendClientUpdate(p) \/ Repeat(p)
  <2>1. /\ \E msgs : ClientStep(p, c, msgs)
        /\ linked' = linked /\ world' = world /\ toClient' = toClient
    BY <1>11 DEF SendClientUpdate, Repeat, server, c
  <2>2. client'[p] = c
    BY <2>1, ClientStepAt
  <2> QED BY <1>1, <2>1, <2>2 DEF ViewOf, l, in, W
<1> QED BY <1>3, <1>4, <1>5, <1>6, <1>7, <1>8, <1>9, <1>10, <1>11 DEF ClientNext

\* A client's steps leave the views of the others alone.
LEMMA ClientViews ==
  ASSUME TypeOK, NEW p \in Peer, SlotOf(p), \A q \in Peer : ViewOf(q), ClientNext(p)
  PROVE  \A q \in Peer : ViewOf(q)'
<1>1. ViewOf(p)'
  BY ClientView
<1>2. ASSUME NEW q \in Peer \ {p}
      PROVE  ViewOf(q)'
  <2>1. /\ client'[q] = client[q] /\ toClient'[q] = toClient[q] /\ world' = world
        /\ (q \in linked' <=> q \in linked)
    <3>1. CASE \E d, msgs : ClientStep(p, d, msgs)
      <4>1. client'[q] = client[q]
        BY <3>1, ClientStepAt
      <4> QED
        BY <3>1, <4>1
           DEF ClientNext, LinkUp, ServerConnects, CutLink, NoticeLoss, StartClient,
               LeaveSession, BeginSessionHandshake, ClientReceives, SendClientUpdate, Repeat,
               server, TypeOK
    <3>2. CASE LinkUp(p) \/ CutLink(p) \/ ServerConnects(p) \/ StartClient(p)
      BY <3>2 DEF LinkUp, CutLink, ServerConnects, StartClient, server, TypeOK
    <3>3. \/ LinkUp(p) \/ CutLink(p) \/ ServerConnects(p) \/ StartClient(p)
          \/ \E d, msgs : ClientStep(p, d, msgs)
      BY DEF ClientNext, NoticeLoss, LeaveSession, BeginSessionHandshake, ClientReceives,
             SendClientUpdate, Repeat
    <3> QED BY <3>1, <3>2, <3>3
  <2> QED BY <2>1 DEF ViewOf
<1> QED BY <1>1, <1>2

-----------------------------------------------------------------------------
(***************************************************************************)
(* The server's side.                                                      *)
(***************************************************************************)

\* What is sent to q reaches q or nobody.
LEMMA ViewSent ==
  ASSUME TypeOK, NEW q \in Peer, ViewOf(q), NEW msgs, UNCHANGED <<client, linked>>,
         toClient'[q] = (IF Reaches(q) THEN toClient[q] \o msgs ELSE toClient[q]),
         Reaches(q) => View(client[q], TRUE, toClient[q] \o msgs, Range(world'))
  PROVE  ViewOf(q)'
<1>1. CASE Reaches(q)
  <2>1. (q \in linked') = TRUE /\ client'[q] = client[q] /\ toClient'[q] = toClient[q] \o msgs
    BY <1>1 DEF Reaches
  <2> QED BY <1>1, <2>1 DEF ViewOf
<1>2. CASE ~Reaches(q)
  <2>1. linked' = linked /\ client'[q] = client[q] /\ toClient'[q] = toClient[q]
    BY <1>2
  <2>2. View(client[q], q \in linked, toClient[q], Range(world'))
    BY <1>2 DEF ViewOf, View, Reaches
  <2> QED BY <2>1, <2>2 DEF ViewOf
<1> QED BY <1>1, <1>2

\* A linked client with a link that is up, before something is sent.
LEMMA ViewBefore ==
  ASSUME TypeOK, NEW q \in Peer, ViewOf(q), Reaches(q)
  PROVE  /\ View(client[q], TRUE, toClient[q], Range(world))
         /\ client[q].link = "up" /\ toClient[q] \in Seq(ServerMessage)
         /\ Range(world) \in SUBSET Object
<1>1. (q \in linked) = TRUE
  BY DEF Reaches
<1>2. View(client[q], TRUE, toClient[q], Range(world))
  BY <1>1 DEF ViewOf
<1>3. client[q].link = "up" /\ toClient[q] \in Seq(ServerMessage)
  BY DEF Reaches, TypeOK
<1>4. Range(world) \in SUBSET Object
  BY DEF TypeOK, Range
<1> QED BY <1>2, <1>3, <1>4

\* An answer of the gate that admits nobody.
LEMMA AnsweredViews ==
  ASSUME TypeOK, NEW p \in Peer, \A q \in Peer : ViewOf(q), p \in linked,
         UNCHANGED <<client, linked>>, NEW g, NEW msgs \in Seq(ServerMessage),
         GateStep(p, g, msgs),
         \A i \in DOMAIN msgs : msgs[i].type \notin {"Spawn", "Despawn", "Accept"}
  PROVE  \A q \in Peer : ViewOf(q)'
<1>1. world' = world
  BY DEF GateStep
<1>2. ASSUME NEW q \in Peer \ {p}
      PROVE  ViewOf(q)'
  <2>1. toClient'[q] = toClient[q]
    BY GateStepAt
  <2> QED BY <1>1, <2>1 DEF ViewOf
<1>3. ViewOf(p)'
  <2>1. toClient'[p] = (IF Reaches(p) THEN toClient[p] \o msgs ELSE toClient[p])
    BY GateStepAt DEF Reaches
  <2>2. Reaches(p) => View(client[p], TRUE, toClient[p] \o msgs, Range(world))
    BY ViewBefore, ViewHears
  <2> QED BY <1>1, <2>1, <2>2, ViewSent
<1> QED BY <1>2, <1>3

\* The acceptance, the replay of the world and the player's object.
LEMMA AdmittedViews ==
  ASSUME TypeOK, NEW p \in Peer, \A q \in Peer : ViewOf(q), AdmitPeer(p),
         UNCHANGED <<client, linked>>
  PROVE  \A q \in Peer : ViewOf(q)'
<1> DEFINE spawns == [i \in DOMAIN world |-> SpawnOf(world[i])]
           accept == <<Accept>>
           replay == accept \o spawns
           player == IF PlayerPrefab THEN <<SpawnOf(nextId)>> ELSE <<>>
           msgs == replay \o player
           W == Range(world)
           V == Range(world')
<1>1. /\ player \in Seq(ServerMessage) /\ V \in SUBSET Object /\ W \subseteq V
      /\ \A i \in DOMAIN player : ~IsAccept(player[i]) /\ \E o \in V : player[i] = SpawnOf(o)
      /\ \A o \in V \ W : \E i \in DOMAIN player : player[i] = SpawnOf(o)
  <2>1. CASE PlayerPrefab
    <3>1. nextId \in Object /\ world' = Append(world, nextId) /\ player = <<SpawnOf(nextId)>>
      BY <2>1 DEF AdmitPeer
    <3>2. V = W \cup {nextId}
      BY <3>1, RangeAppended DEF TypeOK
    <3>3. /\ player \in Seq(ServerMessage)
          /\ \A i \in DOMAIN player : player[i] = SpawnOf(nextId)
          /\ 1 \in DOMAIN player /\ player[1] = SpawnOf(nextId)
      BY <3>1, ServerPackets
    <3>4. W \in SUBSET Object
      BY DEF TypeOK, Range
    <3>5. ~IsAccept(SpawnOf(nextId))
      BY WordsDiffer DEF IsAccept
    <3> HIDE DEF player, W, V
    <3> QED BY <3>1, <3>2, <3>3, <3>4, <3>5
  <2>2. CASE ~PlayerPrefab
    <3>1. world' = world /\ player = <<>>
      BY <2>2 DEF AdmitPeer
    <3> QED BY <3>1 DEF TypeOK, Range
  <2> QED BY <2>1, <2>2
<1>2. /\ spawns \in Seq(ServerMessage)
      /\ \A i \in DOMAIN spawns : \E o \in W : spawns[i] = SpawnOf(o)
      /\ \A o \in W : \E i \in DOMAIN spawns : spawns[i] = SpawnOf(o)
  <2>1. \A i \in DOMAIN world : SpawnOf(world[i]) \in ServerMessage
    BY ServerPackets DEF TypeOK
  <2>2. DOMAIN world = 1 .. Len(world) /\ Len(world) \in Nat
    BY DEF TypeOK
  <2>3. DOMAIN spawns = DOMAIN world /\ \A i \in DOMAIN world : spawns[i] = SpawnOf(world[i])
    OBVIOUS
  <2>4. spawns \in Seq(ServerMessage)
    BY <2>1, <2>2, IsASeq
  <2> HIDE DEF spawns
  <2> QED BY <2>3, <2>4 DEF Range
<1>3. accept \in Seq(ServerMessage) /\ \A i \in DOMAIN accept : IsAccept(accept[i])
  BY ServerPackets DEF Accept, IsAccept
<1>4. /\ \A q \in Peer : toClient'[q] = IF Reaches(q)
                                          THEN toClient[q] \o (IF q = p THEN msgs ELSE player)
                                          ELSE toClient[q]
  BY DEF AdmitPeer
<1> HIDE DEF spawns, accept, player, W, V
<1>5. /\ replay \in Seq(ServerMessage)
      /\ \A i \in DOMAIN replay : IsAccept(replay[i]) \/ \E o \in W : replay[i] = SpawnOf(o)
      /\ \A o \in W : \E i \in DOMAIN replay : replay[i] = SpawnOf(o)
  <2>1. \A i \in DOMAIN replay : \/ \E j \in DOMAIN accept : replay[i] = accept[j]
                                 \/ \E j \in DOMAIN spawns : replay[i] = spawns[j]
    BY <1>2, <1>3, ConcatElements
  <2>2. ASSUME NEW j \in DOMAIN spawns
        PROVE  \E i \in DOMAIN replay : replay[i] = spawns[j]
    <3>1. Len(accept) + j \in DOMAIN replay /\ replay[Len(accept) + j] = spawns[j]
      BY <1>2, <1>3, ConcatHas
    <3> HIDE DEF replay
    <3> QED BY <3>1
  <2>3. replay \in Seq(ServerMessage)
    BY <1>2, <1>3
  <2> HIDE DEF replay
  <2> QED BY <1>2, <1>3, <2>1, <2>2, <2>3
<1> HIDE DEF replay
<1>6. /\ msgs \in Seq(ServerMessage)
      /\ \A i \in DOMAIN msgs : IsAccept(msgs[i]) \/ \E o \in V : msgs[i] = SpawnOf(o)
      /\ \A o \in V : \E i \in DOMAIN msgs : msgs[i] = SpawnOf(o)
  <2>1. \A i \in DOMAIN msgs : \/ \E j \in DOMAIN replay : msgs[i] = replay[j]
                               \/ \E j \in DOMAIN player : msgs[i] = player[j]
    BY <1>1, <1>5, ConcatElements
  <2>2. /\ \A j \in DOMAIN replay : j \in DOMAIN msgs /\ msgs[j] = replay[j]
        /\ \A j \in DOMAIN player : /\ Len(replay) + j \in DOMAIN msgs
                                    /\ msgs[Len(replay) + j] = player[j]
    BY <1>1, <1>5, ConcatHas
  <2>3. msgs \in Seq(ServerMessage)
    BY <1>1, <1>5
  <2> HIDE DEF msgs
  <2>4. \A i \in DOMAIN msgs : IsAccept(msgs[i]) \/ \E o \in V : msgs[i] = SpawnOf(o)
    BY <1>1, <1>5, <2>1
  <2>5. \A o \in V : \E i \in DOMAIN msgs : msgs[i] = SpawnOf(o)
    BY <1>1, <1>5, <2>2
  <2> QED BY <2>3, <2>4, <2>5
<1> HIDE DEF msgs
<1> SUFFICES ASSUME NEW q \in Peer
             PROVE  ViewOf(q)'
  OBVIOUS
<1>7. CASE q = p
  <2>1. Reaches(q) => View(client[q], TRUE, toClient[q] \o msgs, V)
    BY <1>1, <1>6, ViewBefore, ViewSpawns DEF W
  <2> QED BY <1>4, <1>7, <2>1, ViewSent DEF V
<1>8. CASE q # p
  <2>1. Reaches(q) => View(client[q], TRUE, toClient[q] \o player, V)
    BY <1>1, ViewBefore, ViewSpawns DEF W
  <2> QED BY <1>4, <1>8, <2>1, ViewSent DEF V
<1> QED BY <1>7, <1>8

\* One step per case of the handlers: refused, challenged, admitted, ignored.
LEMMA ServerViews ==
  ASSUME TypeOK, NEW p \in Peer, \A q \in Peer : ViewOf(q), ServerNext(p)
  PROVE  \A q \in Peer : ViewOf(q)'
<1>1. CASE ServerReceives(p)
  <2> DEFINE m == Head(toServer[p])
  <2>1. p \in linked /\ UNCHANGED <<client, linked>>
    BY <1>1 DEF ServerReceives
  <2>2. m \in ClientMessage
    BY <1>1 DEF ServerReceives, TypeOK
  <2>3. ASSUME NEW g, GateStep(p, g, <<Reject>>)
        PROVE  \A q \in Peer : ViewOf(q)'
    <3> DEFINE msgs == <<Reject>>
    <3>1. /\ msgs \in Seq(ServerMessage)
          /\ \A i \in DOMAIN msgs : msgs[i].type \notin {"Spawn", "Despawn", "Accept"}
      BY ServerPackets DEF Reject
    <3>2. GateStep(p, g, msgs)
      BY <2>3
    <3> HIDE DEF msgs
    <3> QED BY <2>1, <3>1, <3>2, AnsweredViews
  <2>4. CASE m.type = "Hello" /\ HandleHandshakeHello(p, m)
    <3>1. CASE RejectPeer(p) \/ RejectPeerWithTracking(p)
      BY <2>3, <3>1 DEF RejectPeer, RejectPeerWithTracking
    <3>2. CASE \E n \in GenerateNonce(p) :
                 GateStep(p, [ResetChallenge(gate[p]) EXCEPT
                                !.authenticated = FALSE, !.challengeSent = TRUE,
                                !.clientNonce = m.clientNonce, !.serverNonce = n],
                          <<Challenge(m.clientNonce, n)>>)
      <4>1. PICK n \in GenerateNonce(p) :
                   GateStep(p, [ResetChallenge(gate[p]) EXCEPT
                                  !.authenticated = FALSE, !.challengeSent = TRUE,
                                  !.clientNonce = m.clientNonce, !.serverNonce = n],
                            <<Challenge(m.clientNonce, n)>>)
        BY <3>2
      <4> DEFINE msgs == <<Challenge(m.clientNonce, n)>>
                 g == [ResetChallenge(gate[p]) EXCEPT
                         !.authenticated = FALSE, !.challengeSent = TRUE,
                         !.clientNonce = m.clientNonce, !.serverNonce = n]
      <4>2. n \in Nonce /\ m.clientNonce \in Nonce
        BY <2>2, <2>4, FreshNonce, ClientPackets
      <4>3. Challenge(m.clientNonce, n) \in ServerMessage
        BY <4>2, ServerPackets
      <4>4. /\ msgs \in Seq(ServerMessage)
            /\ \A i \in DOMAIN msgs : msgs[i].type \notin {"Spawn", "Despawn", "Accept"}
        BY <4>3 DEF Challenge
      <4>5. GateStep(p, g, msgs)
        BY <4>1
      <4> HIDE DEF msgs, g
      <4> QED BY <2>1, <4>4, <4>5, AnsweredViews
    <3> QED BY <2>4, <3>1, <3>2 DEF HandleHandshakeHello
  <2>5. CASE m.type = "Response" /\ HandleHandshakeResponse(p, m)
    <3>1. CASE \/ RejectPeer(p) \/ RejectPeerWithTracking(p)
               \/ GateStep(p, ResetChallenge(RecordInvalidAttempt(gate[p])), <<Reject>>)
      BY <2>3, <3>1 DEF RejectPeer, RejectPeerWithTracking
    <3>2. CASE AdmitPeer(p)
      BY <2>1, <3>2, AdmittedViews
    <3> QED BY <2>5, <3>1, <3>2 DEF HandleHandshakeResponse
  <2>6. CASE m.type = "ClientUpdate" /\ HandleGamePacket(p)
    <3>1. CASE RejectPeerWithTracking(p)
      BY <2>3, <3>1 DEF RejectPeerWithTracking
    <3>2. CASE UNCHANGED <<gate, admitted, world, nextId, toClient>>
      BY <2>1, <3>2 DEF ViewOf
    <3> QED BY <2>6, <3>1, <3>2 DEF HandleGamePacket
  <2> QED BY <1>1, <2>4, <2>5, <2>6 DEF ServerReceives
<1>2. CASE PeerDisconnected(p)
  <2>1. /\ client' = client /\ toClient' = toClient /\ world' = world
        /\ \A q \in Peer \ {p} : q \in linked' <=> q \in linked
        /\ client[p].link \in {"down", "cut"}
    BY <1>2 DEF PeerDisconnected
  <2>2. View(client[p], p \in linked', toClient[p], Range(world))
    <3> DEFINE c == client[p]
               l == p \in linked
               k == p \in linked'
               in == toClient[p]
               W == Range(world)
    <3>1. View(c, l, in, W) /\ Bare(c, l, in) /\ c.link \in {"down", "cut"}
      BY <2>1 DEF ViewOf, View
    <3> HIDE DEF c, l, k, in, W
    <3>2. View(c, k, in, W)
      BY <3>1, ViewDown DEF Bare
    <3> QED BY <3>2 DEF c, k, in, W
  <2>3. ViewOf(p)'
    BY <2>1, <2>2 DEF ViewOf
  <2>4. \A q \in Peer \ {p} : ViewOf(q)'
    BY <2>1 DEF ViewOf
  <2> QED BY <2>3, <2>4
<1>3. CASE AttemptWindowEnds(p) \/ BlockEnds(p)
  BY <1>3 DEF AttemptWindowEnds, BlockEnds, ViewOf
<1> QED BY <1>1, <1>2, <1>3 DEF ServerNext

\* What is broadcast about an object, against the world after it.
LEMMA BroadcastViews ==
  ASSUME TypeOK, \A q \in Peer : ViewOf(q), NEW m \in ServerMessage, Broadcast(m),
         UNCHANGED <<client, linked>>,
         \A q \in Peer : Reaches(q) =>
           View(client[q], TRUE, toClient[q] \o <<m>>, Range(world'))
  PROVE  \A q \in Peer : ViewOf(q)'
<1> SUFFICES ASSUME NEW q \in Peer
             PROVE  ViewOf(q)'
  OBVIOUS
<1> DEFINE msgs == <<m>>
<1>1. Reaches(q) => toClient'[q] = toClient[q] \o msgs
  BY DEF Broadcast, TypeOK
<1>2. ~Reaches(q) => toClient'[q] = toClient[q]
  BY DEF Broadcast
<1>3. Reaches(q) => View(client[q], TRUE, toClient[q] \o msgs, Range(world'))
  OBVIOUS
<1> HIDE DEF msgs
<1> QED BY <1>1, <1>2, <1>3, ViewSent

\* What is left of a sequence without its element i.
LEMMA RemovedElements ==
  ASSUME NEW T, NEW s \in Seq(T), NEW i \in DOMAIN s
  PROVE  /\ DOMAIN s = 1 .. Len(s) /\ Len(s) \in Nat /\ i \in 1 .. Len(s)
         /\ DOMAIN RemoveAt(s, i) = 1 .. Len(s) - 1
         /\ \A j \in DOMAIN RemoveAt(s, i) :
              RemoveAt(s, i)[j] = IF j < i THEN s[j] ELSE s[j + 1]
<1> DEFINE a == SubSeq(s, 1, i - 1)
           b == SubSeq(s, i + 1, Len(s))
           n == Len(s)
<1>1. n \in Nat /\ i \in 1 .. n /\ DOMAIN s = 1 .. n
  OBVIOUS
<1>2. /\ a \in Seq(T) /\ Len(a) = i - 1
      /\ \A j \in 1 .. i - 1 : a[j] = s[j]
  BY <1>1
<1>3. /\ b \in Seq(T) /\ Len(b) = n - i
      /\ \A j \in 1 .. n - i : b[j] = s[i + j]
  BY <1>1
<1> HIDE DEF a, b, n
<1> DEFINE t == a \o b
<1>4. /\ DOMAIN t = 1 .. n - 1
      /\ \A j \in DOMAIN t : t[j] = IF j < i THEN a[j] ELSE b[j - (i - 1)]
  BY <1>1, <1>2, <1>3
<1>5. t = RemoveAt(s, i)
  BY DEF RemoveAt, a, b
<1> HIDE DEF t
<1>6. ASSUME NEW j \in DOMAIN t
      PROVE  t[j] = IF j < i THEN s[j] ELSE s[j + 1]
  <2>1. CASE j < i
    BY <1>1, <1>2, <1>4, <2>1
  <2>2. CASE ~(j < i)
    <3>1. j - (i - 1) \in 1 .. n - i /\ i + (j - (i - 1)) = j + 1
      BY <1>1, <1>4, <2>2
    <3> QED BY <1>3, <1>4, <2>2, <3>1
  <2> QED BY <2>1, <2>2
<1> QED BY <1>1, <1>4, <1>5, <1>6 DEF n

\* An object taken from a world without repetitions is gone from it.
LEMMA RangeRemoved ==
  ASSUME NEW T, NEW s \in Seq(T), NEW i \in DOMAIN s,
         \A j, k \in DOMAIN s : s[j] = s[k] => j = k
  PROVE  Range(RemoveAt(s, i)) = Range(s) \ {s[i]}
<1> DEFINE r == RemoveAt(s, i)
<1>1. /\ DOMAIN s = 1 .. Len(s) /\ Len(s) \in Nat /\ i \in 1 .. Len(s)
      /\ DOMAIN r = 1 .. Len(s) - 1
      /\ \A j \in DOMAIN r : r[j] = IF j < i THEN s[j] ELSE s[j + 1]
  BY RemovedElements
<1> HIDE DEF r
<1>2. \A j \in DOMAIN r : \E k \in DOMAIN s : k # i /\ r[j] = s[k]
  <2> SUFFICES ASSUME NEW j \in DOMAIN r
               PROVE  \E k \in DOMAIN s : k # i /\ r[j] = s[k]
    OBVIOUS
  <2>1. CASE j < i
    BY <1>1, <2>1
  <2>2. CASE ~(j < i)
    <3>1. j + 1 \in DOMAIN s /\ j + 1 # i /\ r[j] = s[j + 1]
      BY <1>1, <2>2
    <3> QED BY <3>1
  <2> QED BY <2>1, <2>2
<1>3. \A k \in DOMAIN s : k # i => \E j \in DOMAIN r : r[j] = s[k]
  <2> SUFFICES ASSUME NEW k \in DOMAIN s, k # i
               PROVE  \E j \in DOMAIN r : r[j] = s[k]
    OBVIOUS
  <2>1. CASE k < i
    BY <1>1, <2>1
  <2>2. CASE k > i
    <3>1. k - 1 \in DOMAIN r /\ r[k - 1] = s[k]
      BY <1>1, <2>2
    <3> QED BY <3>1
  <2> QED BY <1>1, <2>1, <2>2
<1>4. Range(r) = {r[j] : j \in DOMAIN r} /\ Range(s) = {s[k] : k \in DOMAIN s}
  BY DEF Range
<1>5. Range(r) \subseteq Range(s) \ {s[i]}
  BY <1>2, <1>4
<1>6. Range(s) \ {s[i]} \subseteq Range(r)
  BY <1>3, <1>4
<1> QED BY <1>5, <1>6 DEF r

\* The server's own actions.
LEMMA WorldViews ==
  ASSUME TypeOK, Distinct(world, nextId), \A q \in Peer : ViewOf(q),
         SpawnNetworkObject \/ DespawnNetworkObject \/ Notify \/ RestartServer
  PROVE  \A q \in Peer : ViewOf(q)'
<1> DEFINE W == Range(world)
<1>0. W \in SUBSET Object
  BY DEF TypeOK, Range
<1>1. CASE SpawnNetworkObject
  <2> DEFINE o == nextId
             msgs == <<SpawnOf(o)>>
             V == Range(world')
  <2>1. o \in Object /\ world' = Append(world, o) /\ UNCHANGED <<client, linked>>
    BY <1>1, HandshakeAssumption DEF SpawnNetworkObject, TypeOK, Object
  <2>2. V = W \cup {o}
    BY <2>1, RangeAppended DEF TypeOK
  <2>3. SpawnOf(o) \in ServerMessage
    BY <2>1, ServerPackets
  <2>4. /\ msgs \in Seq(ServerMessage) /\ 1 \in DOMAIN msgs
        /\ \A i \in DOMAIN msgs : msgs[i] = SpawnOf(o)
    BY <2>3
  <2>5. ~IsAccept(SpawnOf(o))
    BY WordsDiffer DEF IsAccept
  <2> HIDE DEF msgs, V, W
  <2>6. /\ \A i \in DOMAIN msgs : IsAccept(msgs[i]) \/ \E q \in V : msgs[i] = SpawnOf(q)
        /\ \A i \in DOMAIN msgs : ~IsAccept(msgs[i])
        /\ \A q \in V \ W : \E i \in DOMAIN msgs : msgs[i] = SpawnOf(q)
        /\ W \subseteq V /\ V \in SUBSET Object
    BY <1>0, <2>1, <2>2, <2>4, <2>5
  <2>7. \A q \in Peer : Reaches(q) => View(client[q], TRUE, toClient[q] \o msgs, V)
    <3> SUFFICES ASSUME NEW q \in Peer, Reaches(q)
                 PROVE  View(client[q], TRUE, toClient[q] \o msgs, V)
      OBVIOUS
    <3>1. /\ View(client[q], TRUE, toClient[q], W) /\ client[q].link = "up"
          /\ toClient[q] \in Seq(ServerMessage)
      BY ViewBefore DEF W
    <3> QED BY <1>0, <2>4, <2>6, <3>1, ViewSpawns
  <2>8. Broadcast(SpawnOf(o))
    BY <1>1 DEF SpawnNetworkObject
  <2> QED BY <2>1, <2>3, <2>7, <2>8, BroadcastViews DEF msgs, V
<1>2. CASE DespawnNetworkObject
  <2>1. PICK i \in DOMAIN world : world' = RemoveAt(world, i) /\ Broadcast(DespawnOf(world[i]))
    BY <1>2 DEF DespawnNetworkObject
  <2> DEFINE o == world[i]
             V == Range(world')
  <2>2. o \in Object /\ UNCHANGED <<client, linked>>
    BY <1>2 DEF DespawnNetworkObject, TypeOK
  <2>3. V = W \ {o}
    BY <2>1, RangeRemoved DEF TypeOK, Distinct
  <2>4. DespawnOf(o) \in ServerMessage
    BY <2>2, ServerPackets
  <2>5. Broadcast(DespawnOf(o))
    BY <2>1
  <2> HIDE DEF o, V, W
  <2>6. \A q \in Peer : Reaches(q) => View(client[q], TRUE, toClient[q] \o <<DespawnOf(o)>>, V)
    <3> SUFFICES ASSUME NEW q \in Peer, Reaches(q)
                 PROVE  View(client[q], TRUE, toClient[q] \o <<DespawnOf(o)>>, V)
      OBVIOUS
    <3>1. /\ View(client[q], TRUE, toClient[q], W) /\ client[q].link = "up"
          /\ toClient[q] \in Seq(ServerMessage)
      BY ViewBefore DEF W
    <3>2. View(client[q], TRUE, toClient[q] \o <<DespawnOf(o)>>, W \ {o})
      BY <1>0, <2>2, <3>1, ViewDespawns
    <3> QED BY <2>3, <3>2
  <2> QED BY <2>2, <2>4, <2>5, <2>6, BroadcastViews DEF V
<1>3. CASE Notify
  <2> DEFINE msgs == <<Notice>>
  <2>1. Notice \in ServerMessage /\ Notice.type = "Notice"
    BY ServerPackets DEF Notice
  <2>2. /\ msgs \in Seq(ServerMessage)
        /\ \A i \in DOMAIN msgs : msgs[i].type \notin {"Spawn", "Despawn", "Accept"}
    BY <2>1
  <2>3. UNCHANGED <<client, linked>> /\ world' = world /\ Broadcast(Notice)
    BY <1>3 DEF Notify, server
  <2> HIDE DEF msgs, W
  <2>4. \A q \in Peer : Reaches(q) => View(client[q], TRUE, toClient[q] \o msgs, W)
    <3> SUFFICES ASSUME NEW q \in Peer, Reaches(q)
                 PROVE  View(client[q], TRUE, toClient[q] \o msgs, W)
      OBVIOUS
    <3>1. /\ View(client[q], TRUE, toClient[q], W) /\ client[q].link = "up"
          /\ toClient[q] \in Seq(ServerMessage)
      BY ViewBefore DEF W
    <3> QED BY <1>0, <2>2, <3>1, ViewHears
  <2> QED BY <2>1, <2>3, <2>4, BroadcastViews DEF msgs, W
<1>4. CASE RestartServer
  <2> SUFFICES ASSUME NEW q \in Peer
               PROVE  ViewOf(q)'
    OBVIOUS
  <2> DEFINE c == client[q]
             d == [c EXCEPT !.link = IF @ = "up" THEN "cut" ELSE @]
             l == q \in linked
             k == q \in linked'
             in == toClient[q]
             V == Range(world')
  <2>1. c \in Client /\ View(c, l, in, W) /\ Bare(c, l, in)
    BY DEF TypeOK, ViewOf, View
  <2>2. client'[q] = d /\ k = FALSE /\ toClient' = toClient
    BY <1>4 DEF RestartServer, TypeOK
  <2>3. /\ d.link = (IF c.link = "up" THEN "cut" ELSE c.link) /\ d.phase = c.phase
        /\ d.auth = c.auth /\ d.held = c.held /\ Has(d) = Has(c)
    BY <2>1 DEF Client, Has
  <2> HIDE DEF c, d, l, k, in, V, W
  <2>4. CASE d.link \in {"down", "cut"}
    <3>1. View(d, k, in, V)
      BY <2>1, <2>3, <2>4, ViewDown DEF Bare
    <3> QED BY <2>2, <3>1 DEF ViewOf, k, in, V
  <2>5. CASE d.link = "pending"
    <3>1. View(d, k, in, V)
      BY <2>1, <2>3, <2>5 DEF View, Bare
    <3> QED BY <2>2, <3>1 DEF ViewOf, k, in, V
  <2>6. d.link \in {"down", "cut", "pending"}
    BY <2>1, <2>3 DEF Client
  <2> QED BY <2>4, <2>5, <2>6
<1> QED BY <1>1, <1>2, <1>3, <1>4

-----------------------------------------------------------------------------
(***************************************************************************)
(* The invariant.                                                          *)
(***************************************************************************)

\* Ids are given out in order, and a despawn repeats none.
LEMMA DistinctStep ==
  ASSUME TypeOK, Distinct(world, nextId), [Next]_vars
  PROVE  Distinct(world', nextId')
<1>0. /\ DOMAIN world = 1 .. Len(world) /\ Len(world) \in Nat /\ nextId \in Nat
      /\ \A i \in DOMAIN world : world[i] \in Nat
  BY HandshakeAssumption DEF TypeOK, Object
<1>1. CASE UNCHANGED <<world, nextId>>
  BY <1>1
<1>2. CASE world' = Append(world, nextId) /\ nextId' = nextId + 1
  <2> DEFINE w == world'
  <2>1. /\ DOMAIN w = 1 .. Len(world) + 1
        /\ \A i \in DOMAIN world : w[i] = world[i]
        /\ w[Len(world) + 1] = nextId
    BY <1>2 DEF TypeOK
  <2>2. \A i \in DOMAIN w : i \in DOMAIN world \/ i = Len(world) + 1
    BY <1>0, <2>1
  <2> HIDE DEF w
  <2>3. \A i \in DOMAIN w : w[i] < nextId + 1
    BY <1>0, <2>1, <2>2 DEF Distinct
  <2>4. ASSUME NEW i \in DOMAIN w, NEW j \in DOMAIN w, w[i] = w[j]
        PROVE  i = j
    BY <1>0, <2>1, <2>2, <2>4 DEF Distinct
  <2> QED BY <1>2, <2>3, <2>4 DEF Distinct, w
<1>3. CASE /\ \E i \in DOMAIN world : world' = RemoveAt(world, i)
           /\ nextId' = nextId
  <2>1. PICK i \in DOMAIN world : world' = RemoveAt(world, i)
    BY <1>3
  <2> DEFINE w == world'
             old(j) == IF j < i THEN j ELSE j + 1
  <2>2. /\ DOMAIN w = 1 .. Len(world) - 1
        /\ \A j \in DOMAIN w : w[j] = IF j < i THEN world[j] ELSE world[j + 1]
    BY <2>1, RemovedElements DEF TypeOK
  <2>3. \A j \in DOMAIN w : j \in Nat /\ old(j) \in DOMAIN world /\ w[j] = world[old(j)]
    BY <1>0, <2>2
  <2>4. ASSUME NEW j \in DOMAIN w, NEW k \in DOMAIN w, old(j) = old(k)
        PROVE  j = k
    <3>1. i \in Nat /\ j \in Nat /\ k \in Nat
      BY <1>0, <2>3
    <3> QED BY <2>4, <3>1
  <2> HIDE DEF w, old
  <2>5. \A j \in DOMAIN w : w[j] < nextId
    BY <2>3 DEF Distinct
  <2>6. \A j, k \in DOMAIN w : w[j] = w[k] => j = k
    BY <2>3, <2>4 DEF Distinct
  <2> QED BY <1>3, <2>5, <2>6 DEF Distinct, w
<1>4. CASE world' = <<>>
  BY <1>4 DEF Distinct
<1>5. ASSUME NEW p \in Peer, ClientNext(p)
      PROVE  UNCHANGED <<world, nextId>>
  BY <1>5 DEF ClientNext, LinkUp, ServerConnects, CutLink, NoticeLoss, StartClient,
              LeaveSession, BeginSessionHandshake, ClientReceives, SendClientUpdate, Repeat,
              server
<1>6. ASSUME NEW p \in Peer, ServerNext(p)
      PROVE  \/ UNCHANGED <<world, nextId>>
             \/ world' = Append(world, nextId) /\ nextId' = nextId + 1
  <2>1. CASE ServerReceives(p)
    <3>1. \/ \E g, msgs : GateStep(p, g, msgs)
          \/ AdmitPeer(p)
          \/ UNCHANGED <<world, nextId>>
      BY <2>1 DEF ServerReceives, HandleHandshakeHello, HandleHandshakeResponse,
                  HandleGamePacket, RejectPeer, RejectPeerWithTracking
    <3>2. ASSUME NEW g, NEW msgs, GateStep(p, g, msgs)
          PROVE  UNCHANGED <<world, nextId>>
      BY <3>2 DEF GateStep
    <3>3. CASE AdmitPeer(p)
      BY <3>3 DEF AdmitPeer
    <3> QED BY <3>1, <3>2, <3>3
  <2>2. CASE PeerDisconnected(p) \/ AttemptWindowEnds(p) \/ BlockEnds(p)
    BY <2>2 DEF PeerDisconnected, AttemptWindowEnds, BlockEnds
  <2> QED BY <1>6, <2>1, <2>2 DEF ServerNext
<1>7. CASE SpawnNetworkObject \/ DespawnNetworkObject \/ Notify \/ RestartServer
  BY <1>1, <1>2, <1>3, <1>4, <1>7
     DEF SpawnNetworkObject, DespawnNetworkObject, Notify, RestartServer, server
<1> QED BY <1>1, <1>2, <1>5, <1>6, <1>7 DEF Next, vars

\* At the start there is nobody and nothing.
LEMMA WorldInit ==
  ASSUME Init
  PROVE  WInv
<1>1. IInv
  BY InvInit
<1>2. Distinct(world, nextId)
  BY DEF Init, Distinct
<1>3. \A p \in Peer : client[p] = IdleClient /\ (p \in linked) = FALSE
  BY DEF Init
<1>4. \A in, W : View(IdleClient, FALSE, in, W)
  BY DEF View, Bare, IdleClient
<1>5. \A p \in Peer : ViewOf(p)
  BY <1>3, <1>4 DEF ViewOf
<1> QED BY <1>1, <1>2, <1>5 DEF WInv

\* Every step keeps every view.
LEMMA WorldStep ==
  ASSUME WInv, [Next]_vars
  PROVE  WInv'
<1>1. TypeOK /\ (\A p \in Peer : SlotOf(p)) /\ (\A p \in Peer : ViewOf(p))
        /\ Distinct(world, nextId)
  BY DEF WInv, IInv
<1>2. IInv'
  BY InvStep DEF WInv
<1>3. Distinct(world', nextId')
  BY <1>1, DistinctStep
<1>4. \A p \in Peer : ViewOf(p)'
  <2>1. CASE UNCHANGED vars
    BY <1>1, <2>1 DEF vars, ViewOf
  <2> QED BY <1>1, <2>1, ClientViews, ServerViews, WorldViews DEF Next
<1> QED BY <1>2, <1>3, <1>4 DEF WInv

\* For any number of peers and objects, an accepted client that has read what was sent to
\* it has the server's objects: the spawns it held back, the replay and what came since.
THEOREM LateJoinersAgree == Spec => []ObjectsAgree
<1>1. WInv => ObjectsAgree
  <2> SUFFICES ASSUME WInv, NEW p \in Peer, client[p].auth = "accepted", Reaches(p),
                      toClient[p] = <<>>
               PROVE  client[p].objects = Range(world)
    BY DEF ObjectsAgree
  <2>1. TypeOK /\ ViewOf(p)
    BY DEF WInv, IInv
  <2>2. View(client[p], TRUE, <<>>, Range(world)) /\ Range(world) \in SUBSET Object
    BY <2>1, ViewBefore
  <2>3. client[p].held = {} /\ client[p].objects \in SUBSET Object
    BY <2>1, <2>2 DEF View, Bare, TypeOK, Client
  <2>4. /\ client[p].link = "up" /\ Listens(client[p]) /\ Due(client[p], <<>>)
        /\ Has(client[p]) = client[p].objects
    BY <2>3 DEF Reaches, Listens, Due, Has
  <2>5. \A o : WillHave(client[p].objects, <<>>, o) <=> o \in client[p].objects
    BY DEF WillHave
  <2>6. \A o \in Object : o \in client[p].objects <=> o \in Range(world)
    BY <2>2, <2>4, <2>5 DEF View
  <2> QED BY <2>2, <2>3, <2>6
<1> QED BY <1>1, WorldInit, WorldStep, PTL DEF Spec
=============================================================================
