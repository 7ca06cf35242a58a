# ToolKitNetworking in TLA+

ToolKitNetworking is a C++ plugin that gives a ToolKit project server-authoritative multiplayer: it
hosts and joins sessions, authenticates peers, and replicates network components over ENet. This
directory holds TLA+ models of its core logic, the TLC configurations that check them, and TLAPS proofs.
Paths are relative to the repository's root; C++ files are under `Codes/`.

Status: the session life cycle (`SessionManager`), the handshake with the replication of objects to joining
clients (`Handshake`), the session directory and its broker client (`SessionDirectory`, `BrokerDirectory`,
both shown to implement `LeaseDirectory` and to answer as `DirectoryAnswers` says), the replication of component
state (`Replication`) and the editor's network play (`EditorPlay`) are modelled and checked. Every safety property
the passing runs check is proved for every value of the constants.
The plan below says what is left.

- [Inventory](#inventory): the parts of the system, what is hard about them, what makes them correct
- [Plan](#plan): modules, abstract specifications, runs, theorems
- [SessionManager](#sessionmanager), [Handshake](#handshake), [Directory](#directory),
  [Replication](#replication), [EditorPlay](#editorplay): how the models correspond to the code
- [Runs](#runs), [Bounds](#bounds), [Fairness](#fairness)
- [Proofs](#proofs)
- [Findings](#findings)
- [What is not modelled](#what-is-not-modelled)

## Inventory

How the parts interact. `NetworkManager` is the engine component a scene contains. Its frame update calls
`NetworkSessionManager::Update` and then `ReplicationManager::Update`. The session manager drives the
transports and the handshake through `INetworkSessionRuntime`, which `NetworkManager` implements, and
polls it for results. For sessions found through a directory it calls a bootstrap provider, which calls
a `SessionDirectoryService`; that service is either the process-local directory or a client of a remote
broker. Those calls run on detached threads in the asynchronous flow. `ReplicationManager` receives every
packet the transports deliver, in the same frame, and calls back into the transports to answer.

| Component | State | Operations | What is hard | What makes it correct |
|---|---|---|---|---|
| `NetworkSessionManager` | connection status, attempt clocks, hosted registration with its lease, pending bootstrap / refresh / release futures, retry and block flags | start, stop, `Update`, destructor; polling of detached threads | results that arrive after the operation they belong to was abandoned; a host undone half way; lost replies of a directory; polling one future twice in a handler | state and transports agree; no registration is forgotten or dropped while listed; down stays down; attempts end |
| `SessionBootstrapProvider` | none | prepare a host, resolve a join | a host with an invalid registration must release it | its outcomes are complete (part of `SessionManager`) |
| `SessionDirectoryService` | map from session id to registration with handle and expiry, mutex; the process-local map is shared by all services | register, refresh, unregister, resolve | expiry at the boundary; an expired id that nobody looked up; two services, several threads | at most one live registration per id; a handle is good until its lease ends or it is released |
| `SessionDirectoryRemoteBrokerClient` | none | the same four calls over HTTP | which failure means "try again", which "gone" | each response is classified as the session manager expects |
| `NetworkSessionCore` | none (pure) | command-line overrides, validation, endpoints, redaction | precedence; boundary values of ports and timeouts | processes started for one play agree on where they meet (`EditorPlay`) |
| `ReplicationManager`, handshake | per peer a gate (challenge, nonces, attempts, block); per client the authentication state, held spawns | hello, challenge, response, accept, reject; tracking of invalid attempts | reused slots, repeated packets, limits, broadcasts that reach peers still authenticating | server and client agree on who is in; limits are kept and hit nobody else; late joiners get the world |
| `ReplicationManager`, replication | component list, id counter, last acknowledged tick per peer, server tick | spawn, despawn, snapshot, acknowledgement, client update, RPC | lost and reordered snapshots, deltas against a base the client may not have, ownership of a departed peer's objects | the base of a delta is one the client has; what a client makes of a snapshot is what the server had, within the thresholds |
| `NetworkComponent` | state history, last full state, dirty network variables | serialise, deserialise, dirty tracking | a dirty flag cleared for the first peer only; thresholds | the same |
| `NetworkManager` | the two transports, bootstrap configuration | start and stop transports, forwarding | order of teardown: stopping clears the replication state too | covered with its two callers |
| `GameServer`, `GameClient`, `NetworkBase` | ENet host and peer, connection list, handlers | connect, send, broadcast, poll, shut down | connect order of the two sides, loss detection, packets that die with a link | the connection list is the authenticated peers |
| `NetworkSpawnService` | registry of factories | register, spawn | nothing concurrent | none beyond unit tests |
| Editor play mode (`PluginMain`, `EditorNetworkPlayPlanner`) | play state, child processes, a snapshot of overridden parameters | plan, play, pause, stop, poll children | a stop or failure between override and restore; children that die | parameters are restored and children ended whenever play ends |

## Plan

Done, in this order: `SessionManager`, `Handshake`, `LeaseDirectory` with `SessionDirectory` and
`BrokerDirectory`, `Replication`, `SessionRequests` with `EditorPlay`; each of these state machines has a
module of proofs. What composes what: `BrokerDirectory` extends `SessionDirectory` (the broker keeps the same
maps) and both have `LeaseDirectory` as a property; `EditorPlay` extends `SessionRequests`, which is what the
processes it launches do with their parameters and command line. `SessionManager` extends `DirectoryAnswers`, all
it assumes of a directory; the proofs about `SessionDirectory` and `BrokerDirectory` show that these answer nothing else.

Left:

1. `SessionLifecycle` - down, trying, up: the abstract specification an embedder of the session manager
   relies on, refined by `SessionManager`; `Membership` - who is in and what they see, refined by `Handshake`.
2. The routing of RPCs, with who may call what on whom.

## SessionManager

One process. `session` is a record of the manager's members, of the transports and the authentication
state of its runtime, and of the listings of the directory; `tasks` are the detached bootstrap threads.
A method of the class is an operator from the state it finds to the set of states it may leave, named after
the method, so a handler such as `Update` is literally the composition of the methods it calls, in the
code's order: `PollFailed`/`Polled` (the three `Consume...IfReady` calls with their early returns),
`Maintain` (retry and refresh), `Advance` (the state machine).

- Actions of the game thread: `StartConfiguredSession` (three flows: direct, an injected provider called
  in place, a broker called from a detached thread), `Update`, `StopSession`, `Destroy`.
- Actions of detached threads: `TaskRegister`, `TaskResolve` for a bootstrap; `ReleaseReply`,
  `RefreshReply` for the other two futures. `ReleasePublish` separates the reply from the moment a poll
  sees it, because one handler may poll twice and see different answers.
- Actions of the world: `ClientConnects`, `ClientLost`, `AuthAccept`, `AuthReject`, `RejectLocalSession`, `Expire`, `Tick`.

The directory is external. `DirectoryAnswers` says what it may answer, from what it lists when it is called: success
or any error, and with `ReplyCanBeLost` it may obey and still report an error; "gone" it says only of what is not listed.
A handle is opaque and never handed out twice while somebody holds it (`Fresh`); others only see to it that a listing
ends (`Expire`). [Proofs](#proofs) tells how the directories of this repository keep to that.
A rejection by the server, or of an acceptance that does not fit, disconnects the client (`AuthReject`). One by the
runtime itself does not, and one reason for it, a handshake packet of the wrong size, is good at any time
(`ReplicationManager.cpp:669-677`): a session that is Connected then loses its authentication, keeps its transport and
stays Connected, as `Update` looks at the authentication only while Handshaking. So "Connected" means that the
handshake was accepted, not that it still is; `ConnectedByAcceptance` says that and that nothing lets such a session in again.
Times are relative: how long the attempt has lasted, how long until a retry or refresh. `RefreshDelay` keeps
the guards of the code's unsigned subtraction.

## Handshake

A *peer* is a slot of the server's ENet host together with the client process that uses it. Per peer:
`client` (phase of its session manager, link, authentication, nonces, held spawns, objects), `gate`
(`PeerHandshakeGateState`; an absent map entry behaves as a fresh one), and one message sequence each way.
The server's own: `linked` (ENet's connected peers), `admitted` (`m_connectedPeers`), `world`, `nextId`.

| Code | Action |
|---|---|
| `NetworkManager::StartAsClient`, `StopSessionTransports` | `StartClient`, `LeaveSession`, `AbandonFailedSession` |
| ENet connect and disconnect events (`UpdateClient`, `UpdateServer`) | `LinkUp`, `ServerConnects`, `NoticeLoss`, `PeerDisconnected`; the network cuts with `CutLink` |
| `BeginSessionHandshake`; `ReceivePacket` in a client | `BeginSessionHandshake`; `ClientReceives` |
| `HandleHandshakeHello`, `HandleHandshakeResponse`, pre-auth filter | `ServerReceives` |
| `UpdateAsClient` sending updates; a client that repeats packets | `SendClientUpdate`; `Repeat` |
| `SpawnNetworkObject`, `DespawnNetworkObject`, RPCs and full snapshots | the first two by name, `Notify` |
| stop and start of the hosting process | `RestartServer` |
| the two time limits of `HandshakeSecurity` | `AttemptWindowEnds`, `BlockEnds` |

Abstractions. Of a hello's fields only the verdict is kept: `fit`, `unfit` (version, build, session id,
credential or mode refused) or `wary` (accepted by the server, but the client will not like the
accepted session). `m_handshakeStarted`, `m_localSessionAuthenticated` and `m_localAuthFailed` are
mutually exclusive and become one field, `auth`. Nonces are fresh or not; the smallest unused one stands
for a random draw. The limits of 5 s may pass at any moment. ENet's streams are ordered and die with
the link; the client is connected before the server knows. Snapshots are unreliable in the code, but a lost
one is one that was not sent. `SceneComponents` says whether clients registered components of their own
scene (`NetworkManager::RegisterComponent` is public): such a component has owner -1, as the local peer id before
acceptance, so updates for it are sent before authentication.

## Directory

`LeaseDirectory` says what a session directory promises, whatever keeps it: leases, each held by whoever knows
its handle, that end only by release or lapse, are prolonged only while they run, and never share a session or a
handle. It knows nothing of maps, requests or errors.

`SessionDirectory` is `ProcessLocalSessionDirectoryService`. Its methods hold the mutex throughout, so each is one
step: `RegisterHostedSession`, `LookupSession`, `RefreshHostedSession`, `UnregisterHostedSession` are operators
from the maps they find to the maps they leave and the reply. Expiry is the time left; expired records stay until
somebody looks them up or refreshes them, as in the code. Identifiers and handles the code draws at random are any unused ones.
`LeasesOf` maps the two maps to a set of leases, and `KeepsLeases == Leases!Spec` is the refinement.

`BrokerDirectory` puts callers in front: session managers that register when they hold nothing, and refresh and
release what they hold (`Requests`, `Known`).

| Code | Definition |
|---|---|
| `ProcessLocalSessionDirectoryService` called in place | `CallLocal` |
| `BuildSessionDirectoryService`, `ValidateSessionDirectoryBrokerConfig`, `ValidateTransportSecurityState` | `IsBuilt`, the operators of those names, `CallRefused` |
| `IBrokerTransport::Send` over WinHTTP, up to the request | `Send`; `Serve` is the broker |
| `Send` returning; the four `Parse...Response` and `Parse...ErrorResponse`; the mapping to a disconnect reason | `Complete`, with `ReadAnswer`, `Reported` |
| a request its caller gave up that still arrives | `LateArrives` |
| the end of a process | `Crash` |

A response is abstracted to what the parsers branch on: transport error, correlation id (this call's, another's,
none), status, body (empty, garbled, fields), version, success flag, error code, and which field is missing.
`Answers` has every response of the broker, each damaged in one place, and the pages of others.

## Replication

The state of components after the handshake, for the server and every client: transforms, one network
variable each with its dirty flag, state histories by tick, acknowledged ticks, and the packets on each link.
`sentAt`, what the server had at each tick, is not in the code; the properties compare clients with it.

| Code | Definition |
|---|---|
| `NetworkComponent::Serialize`, `Deserialize`, `GetNetworkState`, `SetLatestNetworkState` | `Serialize`, `FinalTransform`, `HasState`, `Pushed` |
| the game moving an entity, `NetworkVariable::Set` | `MoveObject`, `SetVariable` |
| `SpawnNetworkObject`, `HandleSpawnPacket` | `SpawnNetworkObject`, `ReceiveSpawn` |
| `ClientConnected`: world replayed, player spawned; a peer leaving | `ClientConnected`, `Disconnect` |
| `UpdateAsServer`, `BroadcastSnapshot`, `SendSnapshotToPeer` | `UpdateAsServer(reached)`; snapshots to peers that are not `reached` get lost |
| `ReceivePacket` on the server: `SnapshotAck`, `ClientUpdate` | `ServerReceives` |
| `ReceivePacket` on a client: `Snapshot`, spawns | `ClientReceives` |
| `SendClientUpdate` | `MoveOwn` and `SendClientUpdate` |

A packet that is lost is one that was not put on the link, which is equivalent as nobody learns of either. ENet drops
unreliable packets that arrive after a newer one of the channel; reliable spawns share the channel and keep
their order with them, so a link is a sequence. Components are numbered in the order they are registered; with
no despawn in this module (it is in `Handshake`) the id of a component is its number.

## EditorPlay

`SessionRequests` holds the pure part: the hosting mode and the endpoints a process derives from its
`NetworkManager`'s parameters and its command line (`NetworkManager::GetSessionBootstrapConfig`,
`ParseCommandLineOverrides`, `BuildHostRequest`, `BuildJoinRequest`, the validation of both). An override is given by
the last argument that `Gives` it a meaning; a value that makes no sense leaves what was there, as the loop of the code
does (`ParsesInOrder` proves the two the same). Numbers are unsigned, and ports cut to 16 bits where the code casts
(`Uint16`). `ManagerParameters` and `NetworkPlaySettings` are what parameters and settings can be.

`EditorPlay` is `PluginMain` with `EditorNetworkPlayPlanner`.

| Code | Definition |
|---|---|
| `EditorNetworkPlayPlanner` | `IsPlannable`, `BuildNetworkPlaySessionSpec`, `ResolveNetworkPlayBasePort` |
| `PluginMain::OnPlay`, `StartNetworkPlaySession` | `OnPlay`, then `StartServer`, `StartLocal`, `StartChild` as often as needed |
| `ConfigureLocalNetworkManager`, `RestoreNetworkManagerOverrides`, `TerminateTrackedChildProcesses`, `StopLocalConfiguredSession` | operators, conjoined by the handlers in the code's order |
| `PluginMain::Frame`, with the abort and `PollChildProcesses` | `Frame` |
| `OnStop`, `OnUnload`, the destructor | `OnStop`, `OnUnload`, `Destroy` |
| a launched process reading the scene snapshot and its command line; ending | `ChildBoots`, `ChildExits` |
| the user editing the scene while play is stopped | `EditScene` |

A start is one call in the code; it is split because the processes it launches run meanwhile, and read the
scene file it rewrites for each of them. The other handlers wait (`step = "idle"`).

## Runs

| Run | Configuration | Shows |
|---|---|---|
| `session_safety` | `SessionSafety.cfg` | 49,508 states: the type invariant, the three state invariants and four action properties of the session manager, under failing, lost and late directory replies and rejections at any time |
| `session_liveness` | `SessionLiveness.cfg` | `AttemptsEnd`, `ReleaseIsRetried` |
| `session_rejection` | `SessionRejection.cfg` | violation: a rejected handshake loses its reason |
| `session_stop_unlists` | `SessionStopUnlists.cfg` | violation: a stop during an asynchronous bootstrap leaves the session listed |
| `handshake_gate` | `HandshakeGate.cfg` | 431,965 states: one slot with a client that repeats packets and sends updates too early: types, gates, connection list, agreement |
| `handshake_world` | `HandshakeWorld.cfg` | 595,921 states: two honest clients and a changing world: pending limit, no block or rejection for honest clients, joined clients have the server's objects |
| `handshake_liveness` | `HandshakeLiveness.cfg` | clients that fit get in, the others leave |
| `handshake_preauth` | `HandshakePreAuth.cfg` | violation: broadcasts reach unauthenticated peers |
| `directory_leases` | `DirectoryLeases.cfg` | 421,120 states: the refinement of `LeaseDirectory`, the agreement of the two maps, and what callers may conclude from a reply, with lost, late, foreign and damaged answers |
| `replication_snapshots` | `ReplicationSnapshots.cfg` | 2,093,300 states: known baselines, bounded drift, exact full snapshots, owners undisturbed, with joins, departures and losses |
| `replication_variables` | `ReplicationVariables.cfg` | violation: a variable's change is lost with a snapshot |
| `editor_play` | `EditorPlay.cfg` | 316,564 states: overrides restored, no orphans, nothing half started, aborts only of what failed, players that meet, and `PlaysSettle` |

What the properties say of the code is in the comment above each. The hazards they answer are listed
in `PROJECT.json` with the line where each bites; so is a mutated form of one operation for each property of
a passing run, kept next to the operation it mutates in the module, under which the property fails.

## Bounds

- `SessionSafety`: two handles and two tasks, because the interesting races are between a registration and
  its successor, or an abandoned bootstrap and the next; handles are opaque and symmetric. Time-outs of
  one or two ticks suffice: only whether one has passed matters. Leases of 0 (none named) and 3 with leads
  of 1 and 2 reach each branch of `RefreshDelay`. Three directory errors: a passing one, "gone", and a final one.
- `SessionLiveness`: one handle, one task, one passing and one final error; no lost replies.
- `HandshakeGate`: one slot, as gates interact only through the pending limit; `MaxInFlight` 4 and a threshold
  of 2 are the smallest values where a block lands between a challenge and its response, so that a response
  meets a newer challenge; the code's threshold of 3 is used in the other runs.
- `HandshakeWorld`: two slots, one object, a pending limit of one so that clients compete for it (a host request
  without a limit of its own, which a bootstrap provider may return: `NetworkManager.cpp:243` then opens `m_maxClients`
  slots and `ReplicationManager.cpp:470-471` makes the limit 1; otherwise there are as many slots as the limit, and it
  never refuses); sides
  start a packet of their own accord only on a stream with less than `MaxInFlight` = 1 packets, but replies
  are never held back, so that streams still hold several. Restarts give ids out again.
- `MaxObject`, `MaxOwnObject`, `MaxNonce`, `MaxInFlight` are bounds, not properties of the code. `MaxNonce` is
  large enough that a fresh one is always left.

- `DirectoryLeases`: two callers, names and handles, because the interesting case is a successor that takes a
  name or a reply meant for its predecessor; handles are symmetric. A lease of one tick runs out. The settings
  are one good configuration and two that are bad in one way each; each caller hosts or looks up what reaches
  every branch (an address nobody can join, the wrong build, a generated name). One late request at a time.
- `ReplicationSnapshots`: one peer, as peers share nothing but the dirty flags (the other run has two); one scene
  object and one spawned; three ticks make a delta against a delta; coordinates 0 to 2 around a threshold of 1, so
  that errors add up. `MaxInFlight` 1 holds the server back, not the spawns: links still hold a spawn behind a snapshot.
- `EditorPlay`: two managers and scenes with none, one and two of them; a setting for every topology and auto-stop;
  at most three players; two plays, so that a stop, kept-alive children and an abort meet the next play.
- `Ttl`, `MaxTick`, `MaxTransform`, `MaxValue` and `MaxPlays` are bounds or small values of parameters; where the
  theorems below apply they hold for all of them.

Deadlock is not checked: a destroyed session manager, a system in which nobody starts a session, a server at its
last tick (a bound) and an unloaded plugin stop; of the directory, time always goes on.

## Fairness

`SessionManager!FairSpec` assumes that the game loop keeps calling `Update`, that time passes and that every
detached thread's call returns (each directory call has a time-out). `QuietSpec` adds that from some moment on
nobody starts, stops or destroys the session: otherwise restarting for ever postpones every decision. Nothing
is assumed of the network, the peer or the directory's answers.

`Handshake!QuietSpec` describes a quiet time: links hold, nobody stops while joining, and only spawns are
broadcast. It is weak fairness of ENet's connect and disconnect events, of both receive loops (each runs
once a frame until empty), of beginning the handshake once the link is up and of leaving a failed session. It
is needed: a despawn or RPC broadcast while a client authenticates makes it give up (see Findings), so
`FitClientsJoin` is false in general.

`EditorPlay!Spec` assumes that the editor's thread finishes a start it is in (`Starting`) and keeps calling `Frame`
between its handlers. It assumes nothing of the launched processes and of the user.

`BrokerDirectory` and `Replication` are specifications of safety only: broker and network may stay silent for ever,
and a server need not run another frame.

## Proofs

`SessionManagerProofs` proves, for every value of the constants that satisfies `SessionAssumption`:

- `TypeCorrect`: `[]TypeOK`, including that refresh delays never go below zero;
- `WorkIsOwned`, `TransportsMatch`, `NothingForgotten`: the three other state invariants
  of `session_safety`;
- `Invariance`: `[]IInv`, from which they follow;
- `ConnectedOnlyByAcceptance`: its action property `ConnectedByAcceptance`, from `[]IInv` too;
- `RegistrationsKept`, `DownUntilStarted`: the action properties `HandleKeptWhileListed` and `DownStaysDown`
  of `session_safety`, from `HandleInvariance`: `[]HInv`;
- `ObtainedRegistrationsKept`: its action property `ObtainedIsKept`, from `[]DInv`.

`IInv` is the conjunction of those invariants, of `Admitted` (a Connected session whose client transport is
up was accepted, and perhaps rejected since) and of one fact about threads: a task that is not idle has a
mode that hosts or joins. The conjunction is needed although each property is stated alone: that a release
is scheduled depends on the bookkeeping of its future, matching transports depend on which pending
bootstrap may be applied, and `Admitted` on both. Since handlers are compositions of methods, the
argument follows the code: `Core` (types and bookkeeping) holds of every state a method may find in the
middle of a handler, `Good` of every state a handler may leave. One lemma per method says that it takes
`Core` to `Core` and what it `Keeps`; one per handler that it takes `Good` to `Good`; `StepGood` has one step
per action.

For `ConnectedByAcceptance` the methods are followed as pairs of states: each but the state machine is `Steady`,
it leaves what is up as it is or takes it down, and the state machine's verdict is `Decided`: only it brings a session up.

The other action properties compare a state with the one before, so the same methods are followed once more, as
pairs of states. `Tidy` composes along a handler: listings only shrink, the handle is dropped only once it is
no longer listed, and a bootstrap that stays pending leaves the state as it was or Failed. `HInv` adds to
`IInv` the two facts without which a step alone proves nothing: `Sure`, an answer that a release thread has
left to be collected is still true (the directory hands out fresh handles, so nobody lists it again), and
`Booting`, a bootstrap is pending only in a session that is Resolving or whose next start was refused.

`ObtainedIsKept` follows a registration before the manager knows of it. `DInv` adds to `HInv` that a handle a thread has
obtained is `Booked` with a host whose registration was answered with a success, so that the manager captures it
before anything else in the result can fail. `Delivers` then composes along a handler as `Tidy` does: the pending
bootstrap stays pending, or its handle is `Settled`, known to the manager or no longer listed. Only a stop and the
destructor let go of it, which is the second finding below.

`HandshakeProofs` proves, for every value of the constants that satisfies `HandshakeAssumption`, hence for
any number of slots, any threshold of two or more and streams of any length:

- `TypeCorrect`: `[]TypeOK`;
- `AdmissionAgrees`, `UnfitStayOut`, `ChallengesBounded`, `AcceptanceIsMutual`, `AcceptanceIsFinal`, `HonestPass`:
  the invariants `AdmittedAreAuthenticated`, `OnlyFitAdmitted`, `PendingBounded`, `AcceptedIsAdmitted`,
  `AcceptedStays` and `HonestNotBlocked` of the runs;
- `Invariance`: `[]IInv`, from which they follow.

Of these only `AdmittedAreAuthenticated` and `PendingBounded` are inductive given the types: what a client or a gate
will do next is decided by packets in flight. `IInv` therefore holds a predicate `Slot` of each client, its gate and its two streams. Its
conjuncts are: `Vacant` (a slot no link uses has nothing in flight and a fresh gate), `Stopped` (of an unfit
client only unfit hellos are on their way), `Matching` (over a link that holds both sides talk of the same
client nonce, an acceptance on its way means an open gate, and no challenge follows the one the gate waits
for), `Honest` (a client that repeats nothing has one request or challenge under way, none once admitted),
and `Unsuspected` (so a client without components of its own is refused at most once on a link). The lemmas
`Slot...` say that each effect on a slot keeps it, whatever the other slots do; the `...Slots` lemmas apply
them to the actions. `GateMoves` and `OtherMoves` sort the steps by what they do to the gates, for the
connection list and the pending limit. `IInv`'s slots were checked with TLC on the `HandshakeGate` instance, with
and without faults, before they were proved.

`HandshakeWorldProofs` continues it with `LateJoinersAgree`: the invariant `ObjectsAgree`. What a client will have
is decided by the last word about each object in its stream or, if the stream is silent, by what it has and holds
back (`WillHave`). `WInv` adds to `IInv` that the world repeats no id (`Distinct`; else a despawn could leave the
object in it) and the `ViewOf` each client: over a link that holds, a client that still takes spawns will have
nothing that is not in the world, and once its acceptance is read or under way (`Due`) it will have all of it. A
client has nothing before its handshake begins (`Bare`), which is why forgetting held spawns there loses none.
`WInv` too was checked with TLC before it was proved.

`SessionDirectoryProofs` and `BrokerDirectoryProofs`, from `DirectoryAssumption` alone (`BrokerAssumption` too in
the second), for any number of callers, names and handles and any length of leases:

- `DirectoryTypeCorrect`, `DirectoryMapsAgree`, `DirectoryKeepsLeases`: types, `MapsAgree`, and that the in-process
  directory implements `LeaseDirectory`;
- `DirectoryAnswersAsAssumed`, `ListingsChangeAsAssumed`: the directory is one that `SessionManager` allows for;
- `BrokerImplementsDirectory`: every behaviour of `BrokerDirectory` is one of `SessionDirectory`, whatever the
  network does, from which `BrokerMapsAgree`, `BrokerKeepsLeases` and `BrokerListingsChangeAsAssumed` follow.

The invariant adds to the types that the maps agree and that every handle in them was issued: without the
first, the handle in a reply would not determine the lease the step is about, and without the second a new handle could
revive an old lease. Each method has a lemma that says which step of `LeaseDirectory` it is.

`BrokerReplyProofs`, from the same assumptions, for whatever the network answers, loses or damages:

- `BrokerTypeCorrect`: `[]TypeOK`;
- `SuccessesAreTrue`, `ObeyedCallsAreNeverRefused`, `GoneRegistrationsStayGone`, `BuiltServicesAreTrusted`: what a
  caller may conclude from a reply (`SuccessIsTrue`, `OnlyLostRepliesHide`, `GoneIsTrue`, `BuiltServiceIsTrusted`);
- `BrokerAnswersAsAssumed`: a call over the network is one that `SessionManager` allows for.

The argument has three parts. Reading: only an answer of the broker to this very call gets past the parsers, and is
reported as what the broker said, or as an error that says nothing. Standing: what the broker once said of a
registration that is gone stays so (`Stands`), which follows from the steps of `LeaseDirectory`. Callers: `RInv`
says that a service has the settings of a configuration (`Configured`), that handles held and calls under way are of
handles that were issued (`Informed`), and that the last reply is backed by the broker's state (`Told`).

What joins the directory to the session manager is `DirectoryAnswers`, where `SessionManager` takes the answer to a
register, release or refresh from, given the handles listed. `SessionDirectoryProofs` instantiates it for calls in the
process (`Assumed`: the reasons of the directory, no reply lost), `BrokerReplyProofs` for calls over the network (`Remote`:
every reason, and lost replies), with `Listing` the handles that lead to a session. In every reachable state of the
directory, each outcome of each of the three calls is then among those answers. Over the network an
outcome is what the call did when it was served and what its caller will be told (`RemoteOutcomes`, from the
operators of `Serve`, `Complete` and `CallRefused`); the manager's model makes these one step. That others add only
listings with new handles and end only their own or lapsed ones is `ListingChangesAsAssumed`, an action property.
A registration given up that arrives late is to the manager a listing of somebody else's: it has no handle for it.

`ReplicationProofs`, from `ReplicationAssumption`, for any number of peers, components and ticks and any threshold:

- `TypeCorrect`, `BaselineAlwaysKnown`, `DriftAlwaysBounded`, `FullSnapshotsAlwaysExact`, `OwnersAlwaysKeepTheirs`:
  all five properties of `replication_snapshots`.

`BaselineKnown` is not inductive: that the base of the next delta is known depends on the acknowledgements under way,
those on what the client has applied, and that on what the snapshots before it on the link left out. `Inv` says of
every peer that its client (`ClientOK`), both links (`DownOK`, `UpOK`) and the acknowledged tick (`AckedOK`) fit the
server's history, that snapshots on a link have ascending ticks and come behind the spawns of the
components in them, and that every component is at a connected client or its spawn is under way (`Complete`);
a free slot is fresh (`Gone`). `SnapshotTaken` is the heart: a client that applies a snapshot then knows its
tick. `FinalClose` adds one threshold to the error of the base, which is of an earlier tick. The server's side only ever
`Extends`, so that what was sent stays true: the lemmas up to `PeerKept`.

`EditorPlayProofs`, from `EditorAssumption`, for any scenes, settings and number of plays:

- `TypeCorrect`, `OverridesAlwaysRestored`, `NeverOrphans`, `NeverHalfStarted`, `AbortsOnlyFailedPlays`;
- `PlayersAlwaysMeet`, `SeatsForAllPlayers`: whatever the editor launches or configures for a play joins where its
  host listens, and the host has a seat for each;
- `ChildrenAreTold`: the command line the editor writes for a process gives it the role, addresses and ports of its
  instance in the plan, and no others;
- `ParsesInOrder`: the command line read as "the last argument that gives a meaning" is what the loop of
  `ParseCommandLineOverrides` makes of it: one argument more changes the overrides its flag is for, and no other.

The invariant of the first five adds in which steps of a start there is a manager, a plan or an outcome (`StepsInOrder`), that a
local session belongs to the manager at hand (`LocalSessions`), and that processes belong to plays begun
(`ProcessesOfPlays`); without these a failed start need not leave nothing behind.

`PlayersMeet` and `SeatsForAll` compare two processes of a play, which are configured in different steps and read a
scene file in between that is written once more for each. `Sound` says of each alone how it stands to its play:
the plan has one meeting point, which each instance in it is told to join or to listen on, and the parameters
written to the scene suit it: a dedicated server takes its limit of clients from there (`StartSound`); a launched process
runs an instance of the plan from a scene that suits it, and what it requests `Keeps` to the plan (`ChildrenSound`),
as does the session the editor itself starts (`LocalSound`). TLC checked `Sound` on the `editor_play` instance before it
was proved. `BasePort` and the lemmas on command lines say what the pure part contributes: a play's port is
one, however many ports are busy, and an override wins over whatever parameters a manager was saved with.

Only model-checked are the liveness properties (`AttemptsEnd`, `ReleaseIsRetried`, `FitClientsJoin`, `OthersLeave`,
`PlaysSettle`): liveness under fairness and ENABLED are beyond the prover. So are induction over data and
recursive operators; no module here declares one. The four properties the code violates are not theorems, of course.

## Findings

1. **A rejected join reports no reason** (`session_rejection`). `NetworkSessionManager.cpp:423` stops the
   transports, which clears the authentication state (`ReplicationManager.cpp:80-90`), before l.428 asks
   for the failure reason. The integration tests use a fake runtime that keeps it, and expect it.
2. **Stopping during an asynchronous bootstrap leaves the session listed** (`session_stop_unlists`).
   `StopSession` (l.338) drops the pending bootstrap; the registration its thread then obtains belongs to
   nobody, until its lease ends if it has one.
3. **Broadcasts reach peers that are not authenticated** (`handshake_preauth`). The security plan
   restricts pre-auth traffic to handshake and close messages. Spawns in that window are held by the client,
   but any despawn, RPC or full snapshot makes it reject its own session.

4. **Changes of network variables get lost** (`replication_variables`). `NetworkComponent.cpp:90` resets a dirty flag
   once the change has been written for one peer, while `README.md:13` and `:22` promise reliable snapshots of
   dirty variables. With delta compression the other peers, and whoever loses that snapshot, never get it.

## What is not modelled

- Of the broker client: JSON text, redaction of secrets, WinHTTP's own calls. Of the broker: anything but that it keeps
  the same maps; its errors are what the client has code for.
- Of the session core: splitting a command line into words and the flags of the session directory.
- A listen server's own client. `SessionManager` has listen servers; in `Handshake` every client is a process of its
  own. Server and local client share one `ReplicationManager`, which skips the client's filters there.
- In `Handshake`, packets of the wrong size (to a server one more invalid attempt; to a client see `SessionManager`) and
  a packet by which a client would claim its own disconnect (`NetworkManager.cpp:267-268`).
- Serialisation, logging and string fields; sizes of snapshots in bytes.
- The routing of RPCs after authentication.
- A server started again in one process with components that outlive it: its ticks begin at 0 again.
- Clocks of different epochs: the lease a broker names and the manager's steady clock are related by the time left.
- Of the editor: windows, files and XML; a scene snapshot read while it is being rewritten
  (`PluginMain.cpp:203`), where the model's reader sees one version or the other; edits during play, which
  restoring would undo; overrides on the editor's own command line; a port taken between its choice and its
  use. An aborted play leaves the editor itself in play mode, as the code does.
- `NetworkSpawnService` (a registry filled at start-up), the parameters' storage and engine glue of
  `NetworkManager`, build files.
