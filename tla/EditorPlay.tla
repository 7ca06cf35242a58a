------------------------------ MODULE EditorPlay ------------------------------
(***************************************************************************)
(* The editor's network play: PluginMain plans a session from the editor's *)
(* settings and the scene's NetworkManager, overrides the parameters of    *)
(* that manager, starts the local session, launches one process for every  *)
(* other player, and takes all of it back when play stops or a step fails. *)
(*                                                                         *)
(* The editor's thread runs one handler at a time, but a start is modelled *)
(* in its steps, because the processes it launches run beside it: they     *)
(* read the scene it writes, and they may end whenever they like.  Play    *)
(* stays on in the editor when a start was aborted.                        *)
(***************************************************************************)
EXTENDS SessionRequests, Integers, Sequences, FiniteSets

CONSTANTS
  Manager,        \* the NetworkManager components of the scene
  None,           \* no manager, no session, nothing saved
  Parameters,     \* the parameters a manager may be given by the user
  Scenes,         \* the managers of a scene, in order
  PlaySettings,   \* the editor's network play settings
  BusyPorts,      \* the sets of ports other programs may hold
  MaxPlays        \* bound: how often play is started

\* What the editor can be told about its plays; its numbers are unsigned.
NetworkPlaySettings ==
  [enabled : BOOLEAN, topology : {"ListenServer", "DedicatedServer", "ClientAttach"},
   players : Nat, autoStop : BOOLEAN, autoAllocate : BOOLEAN, basePort : Nat]

ASSUME EditorAssumption ==
  /\ None \notin Manager \cup Parameters /\ MaxPlays \in Nat /\ Scenes \subseteq Seq(Manager)
  /\ Parameters \subseteq ManagerParameters /\ PlaySettings \subseteq NetworkPlaySettings
  /\ \A ports \in BusyPorts : IsFiniteSet(ports)

VARIABLES
  mode,           \* the editor: stopped, playing, or the plugin unloaded
  plays,          \* how many plays were started
  step,           \* the next step of StartNetworkPlaySession; idle between handlers
  scene,          \* the managers of the current scene
  edited,         \* what the user gave each manager (not in the code)
  params,         \* its parameters now
  manager,        \* m_networkManager
  saved,          \* m_overrideState: the parameters saved, None when it is not active
  abort,          \* m_abortEditorPlayRequested
  keepAlive,      \* m_keepChildrenAliveAfterStop
  session,        \* what each play has planned
  sceneFile,      \* the scene snapshot of each play: the parameters in it
  index,          \* childIndex: how many children of the plan were launched
  children,       \* m_childProcesses
  running,        \* the processes there are
  request,        \* what those that read their scene host and join
  local,          \* what the local session of each manager hosts and joins, {} without one
  spared,         \* processes let go alive by a stop (not in the code)
  outcome         \* how the last play went (not in the code)
vars == <<mode, plays, step, scene, edited, params, manager, saved, abort, keepAlive, session,
          sceneFile, index, children, running, request, local, spared, outcome>>

Play == 1..MaxPlays

Init ==
  /\ mode = "stopped" /\ plays = 0 /\ step = "idle"
  /\ scene \in Scenes /\ edited \in [Manager -> Parameters] /\ params = edited
  /\ manager = None /\ saved = None /\ abort = FALSE /\ keepAlive = FALSE
  /\ session = [k \in Play |-> None] /\ sceneFile = [k \in Play |-> None]
  /\ index = 0 /\ children = {} /\ running = {} /\ request = [k \in {} |-> None]
  /\ local = [m \in Manager |-> {}] /\ spared = {} /\ outcome = "none"

-----------------------------------------------------------------------------
\* EditorNetworkPlayPlanner.

\* The first port from the preferred one on that can be bound; only as many as are busy
\* need to be tried.
ResolveNetworkPlayBasePort(settings, busy) ==
  LET preferred == IF settings.basePort < 1024 THEN 1024
                   ELSE IF settings.basePort > 65535 THEN 65535 ELSE settings.basePort
      bindable == {n \in preferred..(preferred + Cardinality(busy)) :
                     n < 65535 /\ n \notin busy}
  IN IF settings.autoAllocate /\ bindable # {}
       THEN CHOOSE n \in bindable : \A other \in bindable : n <= other
       ELSE preferred

PlayerCount(settings) == IF settings.players > 1 THEN settings.players ELSE 1

\* What ResolveNetworkPlayStartContext takes from the manager: its ports as 16 bits.
Uint16(n) == n % 65536

SceneConfig(config) ==
  [config EXCEPT !.connectPort = Uint16(@), !.listenPort = Uint16(@)]

\* Mutant: the number of players is not compared with the server's limit.
IsPlannableUnchecked(settings, config) ==
  settings.topology = "ClientAttach" => config.connectHost # NoAddress /\ config.connectPort # 0

IsPlannable(settings, config) ==
  CASE settings.topology = "DedicatedServer" -> config.maxClients >= PlayerCount(settings)
    [] settings.topology = "ClientAttach" ->
         config.connectHost # NoAddress /\ config.connectPort # 0
    [] OTHER -> TRUE

Instance(hostingMode, maxClients) ==
  [hostingMode |-> hostingMode, connectHost |-> NoAddress, connectPort |-> 0, listenPort |-> 0,
   bindAddress |-> NoAddress, advertisedAddress |-> NoAddress, maxClients |-> maxClients]

\* Mutant: the server is not told its port.
ServerInstanceAnyPort(hostingMode, port, maxClients) ==
  [Instance(hostingMode, maxClients) EXCEPT
     !.bindAddress = Loopback, !.advertisedAddress = Loopback]

ServerInstance(hostingMode, port, maxClients) ==
  [Instance(hostingMode, maxClients) EXCEPT
     !.listenPort = port, !.bindAddress = Loopback, !.advertisedAddress = Loopback]

\* The clients but the local one.
ClientInstances(host, port, maxClients) ==
  [i \in 1..(maxClients - 1) |->
     [Instance("Client", maxClients) EXCEPT !.connectHost = host, !.connectPort = port]]

\* The local instance keeps of the scene what its topology does not set.
LocalInstance(hostingMode, config, host, port, maxClients) ==
  [Instance(hostingMode, maxClients) EXCEPT
     !.connectHost = host, !.connectPort = port, !.listenPort = config.listenPort,
     !.bindAddress = config.bindAddress, !.advertisedAddress = config.advertisedAddress]

BuildNetworkPlaySessionSpec(settings, config, port) ==
  LET n == PlayerCount(settings)
      Planning(here, there) ==
        [topology |-> settings.topology, local |-> here, children |-> there]
  IN CASE settings.topology = "ListenServer" ->
            Planning([ServerInstance("ListenServer", port, n) EXCEPT
                    !.connectHost = Loopback, !.connectPort = port],
                 ClientInstances(Loopback, port, n))
       [] settings.topology = "DedicatedServer" ->
            Planning(LocalInstance("Client", config, Loopback, port, n),
                 <<ServerInstance("DedicatedServer", port, n)>>
                   \o ClientInstances(Loopback, port, n))
       [] OTHER ->
            Planning(LocalInstance("Client", config, config.connectHost, config.connectPort, n),
                 ClientInstances(config.connectHost, config.connectPort, n))

GetNetworkPlayRoleFlag(hostingMode) ==
  CASE hostingMode = "DedicatedServer" -> "-dedicated"
    [] hostingMode = "ListenServer" -> "-host"
    [] OTHER -> "-client"

Optional(flag, address) ==
  IF address = NoAddress THEN <<>> ELSE <<[flag |-> flag, value |-> address]>>

\* The command line a child is launched with: what its instance sets.
Arguments(instance) ==
  <<[flag |-> GetNetworkPlayRoleFlag(instance.hostingMode), value |-> Unset]>>
    \o Optional("-connectHost", instance.connectHost)
    \o Optional("-bindAddress", instance.bindAddress)
    \o Optional("-advertisedAddress", instance.advertisedAddress)
    \o <<[flag |-> "-connectPort", value |-> instance.connectPort]>>
    \o <<[flag |-> "-listenPort", value |-> instance.listenPort]>>

-----------------------------------------------------------------------------
\* PluginMain's helpers; each is part of the handlers below.

Process(k, i) == [play |-> k, instance |-> i]

Reading(processes) == [child \in DOMAIN request \cap processes |-> request[child]]

\* TerminateTrackedChildProcesses: by force, or only letting go of them.
TerminateTrackedChildProcesses(force) ==
  /\ children' = {}
  /\ running' = IF force THEN running \ children ELSE running
  /\ spared' = IF force THEN spared ELSE spared \cup (children \cap running)
  /\ request' = Reading(running')

\* RestoreNetworkManagerOverrides: without a manager what was saved is dropped.
RestoreNetworkManagerOverrides ==
  /\ params' = IF saved # None /\ manager # None THEN [params EXCEPT ![manager] = saved]
               ELSE params
  /\ saved' = None

\* StopLocalConfiguredSession.
StopLocalConfiguredSession ==
  local' = IF manager = None THEN local ELSE [local EXCEPT ![manager] = {}]

\* Mutant: the manager is let go before its parameters are restored.
ForgetThenRestore ==
  /\ StopLocalConfiguredSession /\ manager' = None
  /\ saved' = None /\ UNCHANGED params

\* What Frame, OnStop and OnUnload have in common.
LetManagerGo ==
  /\ StopLocalConfiguredSession
  /\ RestoreNetworkManagerOverrides
  /\ manager' = None

\* ConfigureLocalNetworkManager: a limit of zero is left as it is.
Configured(instance) ==
  [params[manager] EXCEPT
     !.role = CASE instance.hostingMode = "ListenServer" -> "Host"
                [] instance.hostingMode = "DedicatedServer" -> "DedicatedServer"
                [] OTHER -> "Client",
     !.connectHost = instance.connectHost, !.connectPort = instance.connectPort,
     !.listenPort = instance.listenPort, !.bindAddress = instance.bindAddress,
     !.advertisedAddress = instance.advertisedAddress,
     !.maxClients = IF instance.maxClients = 0 THEN @ ELSE instance.maxClients]

-----------------------------------------------------------------------------
\* OnPlay.

\* Mutant: an abort requested by an earlier play stays requested.
AbortAfterEither(failed) == abort \/ failed

\* OnPlay forgets an abort requested before; a start that fails requests one.
AbortAfter(failed) == failed

\* The last manager of the scene; its session may fail to start for its own reasons.
StartSingleProcessSession ==
  /\ outcome' = "single"
  /\ IF scene = <<>>
       THEN UNCHANGED <<manager, local>>
       ELSE LET last == scene[Len(scene)]
                wanted == Requested(params[last], <<>>)
            IN /\ manager' = last
               /\ \/ IsValid(wanted) /\ local' = [local EXCEPT ![last] = {wanted}]
                  \/ UNCHANGED local
  /\ abort' = AbortAfter(FALSE) /\ keepAlive' = FALSE
  /\ UNCHANGED <<step, params, saved, index, children, running, request, spared, session>>

\* ResolveNetworkPlayStartContext, what it asks of the scene.
CanResolve == Len(scene) = 1 /\ params[scene[1]].joinMethod = "DirectAddress"

\* No context, for want of a fitting scene, a project, a saved scene or a runtime.
ResolveFails == abort' = AbortAfter(TRUE) /\ UNCHANGED <<manager, keepAlive>>

\* No plan.
PlanFails == abort' = AbortAfter(TRUE) /\ manager' = scene[1] /\ keepAlive' = FALSE

Planned(settings, plan) ==
  /\ session' = [session EXCEPT ![plays + 1] = plan]
  /\ step' = IF settings.topology = "DedicatedServer" THEN "server" ELSE "local"
  /\ abort' = AbortAfter(FALSE) /\ manager' = scene[1] /\ keepAlive' = ~settings.autoStop

\* StartNetworkPlaySession up to the plan.
StartNetworkPlaySession(settings, busy) ==
  LET config == SceneConfig(params[scene[1]])
      port == ResolveNetworkPlayBasePort(settings, busy)
  IN /\ TerminateTrackedChildProcesses(TRUE) /\ RestoreNetworkManagerOverrides
     /\ \/ /\ \/ ResolveFails
              \/ CanResolve /\ ~IsPlannable(settings, config) /\ PlanFails
           /\ outcome' = "failed" /\ UNCHANGED <<session, step>>
        \/ /\ CanResolve /\ IsPlannable(settings, config)
           /\ Planned(settings, BuildNetworkPlaySessionSpec(settings, config, port))
           /\ outcome' = "starting"
     /\ index' = 0 /\ UNCHANGED local

OnPlay(settings, busy) ==
  /\ mode = "stopped" /\ step = "idle" /\ plays < MaxPlays
  /\ mode' = "playing" /\ plays' = plays + 1
  /\ IF settings.enabled THEN StartNetworkPlaySession(settings, busy)
                         ELSE StartSingleProcessSession
  /\ UNCHANGED <<scene, edited, sceneFile>>

-----------------------------------------------------------------------------
\* StartNetworkPlaySession from the plan on.

Plan == session[plays]

\* WriteChildManifestFile: the scene, with the parameters as they are, for every child anew.
WriteChildManifestFile == sceneFile' = [sceneFile EXCEPT ![plays] = params[manager]]

\* Mutant: the children are counted from the server on.
LaunchFirstAgain(i) ==
  /\ index' = i
  /\ children' = children \cup {Process(plays, 1)}
  /\ running' = running \cup {Process(plays, 1)}
  /\ UNCHANGED <<spared, request>>

\* LaunchChildProcess of the instance i.
LaunchChildProcess(i) ==
  /\ index' = i
  /\ children' = children \cup {Process(plays, i)}
  /\ running' = running \cup {Process(plays, i)}
  /\ UNCHANGED <<spared, request>>

\* The server's manifest or process cannot be made.
ServerFails ==
  /\ abort' = TRUE /\ outcome' = "failed" /\ step' = "idle"
  /\ TerminateTrackedChildProcesses(TRUE)
  /\ manager' = None
  /\ WriteChildManifestFile \/ UNCHANGED sceneFile
  /\ UNCHANGED index

ServerStarts ==
  /\ WriteChildManifestFile
  /\ LaunchChildProcess(1)
  /\ step' = "local"
  /\ UNCHANGED <<abort, outcome, manager>>

StartServer ==
  /\ step = "server"
  /\ ServerFails \/ ServerStarts
  /\ UNCHANGED <<mode, plays, scene, edited, params, saved, keepAlive, session, local>>

\* What is left to do when n children are running.
StepAfter(n) == IF n < Len(Plan.children) THEN "children" ELSE "idle"
OutcomeAfter(n) == IF n < Len(Plan.children) THEN outcome ELSE "running"

LocalStarts ==
  LET configured == Configured(Plan.local)
  IN /\ IsValid(Requested(configured, <<>>))
     /\ saved' = IF saved = None THEN params[manager] ELSE saved
     /\ params' = [params EXCEPT ![manager] = configured]
     /\ local' = [local EXCEPT ![manager] = {Requested(configured, <<>>)}]
     /\ step' = StepAfter(index) /\ outcome' = OutcomeAfter(index)
     /\ UNCHANGED <<index, abort, manager, children, running, request, spared>>

\* Mutant: the server's process is left to itself.
LocalFailsAlone ==
  /\ params' = [params EXCEPT ![manager] = IF saved = None THEN @ ELSE saved]
  /\ saved' = None
  /\ abort' = TRUE /\ outcome' = "failed" /\ step' = "idle"
  /\ manager' = None
  /\ UNCHANGED <<index, local, children, running, request, spared>>

\* The overrides just made are restored again.
LocalFails ==
  /\ TerminateTrackedChildProcesses(TRUE)
  /\ params' = [params EXCEPT ![manager] = IF saved = None THEN @ ELSE saved]
  /\ saved' = None
  /\ abort' = TRUE /\ outcome' = "failed" /\ step' = "idle"
  /\ manager' = None
  /\ UNCHANGED <<index, local>>

StartLocal ==
  /\ step = "local"
  /\ LocalStarts \/ LocalFails
  /\ UNCHANGED <<mode, plays, scene, edited, keepAlive, session, sceneFile>>

ChildStarts ==
  /\ WriteChildManifestFile
  /\ LaunchChildProcess(index + 1)
  /\ step' = StepAfter(index + 1) /\ outcome' = OutcomeAfter(index + 1)
  /\ UNCHANGED <<params, saved, abort, manager, local>>

\* Mutant: the children launched before are forgotten.
ChildFailsAlone ==
  /\ LetManagerGo
  /\ children' = {} /\ UNCHANGED <<running, request, spared>>
  /\ abort' = TRUE /\ outcome' = "failed" /\ step' = "idle"
  /\ WriteChildManifestFile \/ UNCHANGED sceneFile
  /\ UNCHANGED index

ChildFails ==
  /\ LetManagerGo
  /\ TerminateTrackedChildProcesses(TRUE)
  /\ abort' = TRUE /\ outcome' = "failed" /\ step' = "idle"
  /\ WriteChildManifestFile \/ UNCHANGED sceneFile
  /\ UNCHANGED index

StartChild ==
  /\ step = "children"
  /\ ChildFails \/ ChildStarts
  /\ UNCHANGED <<mode, plays, scene, edited, keepAlive, session>>

-----------------------------------------------------------------------------
\* The other handlers, the launched processes, and the user.

\* PollChildProcesses: those that ended are no longer tracked.
PollChildProcesses == children' = children \cap running

\* Mutant: without a manager there is nothing to abort.
AbortWithManager ==
  /\ abort /\ manager # None /\ abort' = FALSE /\ outcome' = "aborted"
  /\ LetManagerGo
  /\ TerminateTrackedChildProcesses(TRUE)

AbortPlay ==
  /\ abort /\ abort' = FALSE /\ outcome' = "aborted"
  /\ LetManagerGo
  /\ TerminateTrackedChildProcesses(TRUE)

\* The update of the manager is the subject of other modules.
Frame ==
  /\ mode # "unloaded" /\ step = "idle"
  /\ \/ AbortPlay
     \/ /\ ~abort /\ PollChildProcesses
        /\ UNCHANGED <<params, manager, saved, abort, running, request, local, spared,
                       outcome>>
  /\ UNCHANGED <<mode, plays, step, scene, edited, keepAlive, session, sceneFile, index>>

OnStop ==
  /\ mode = "playing" /\ step = "idle"
  /\ mode' = "stopped"
  /\ LetManagerGo
  /\ TerminateTrackedChildProcesses(~keepAlive)
  /\ keepAlive' = FALSE
  /\ UNCHANGED <<plays, step, scene, edited, abort, session, sceneFile, index, outcome>>

OnUnload ==
  /\ mode # "unloaded" /\ step = "idle"
  /\ mode' = "unloaded"
  /\ TerminateTrackedChildProcesses(TRUE)
  /\ LetManagerGo
  /\ UNCHANGED <<plays, step, scene, edited, abort, keepAlive, session, sceneFile, index,
                 outcome>>

\* The local session, if there is one, ends with its manager.
Destroy ==
  /\ mode # "unloaded" /\ step = "idle"
  /\ mode' = "unloaded"
  /\ TerminateTrackedChildProcesses(TRUE)
  /\ RestoreNetworkManagerOverrides
  /\ UNCHANGED <<plays, step, scene, edited, manager, abort, keepAlive, session, sceneFile,
                 index, local, outcome>>

\* A child reads the scene it finds, and hosts or joins as it and the command line say.
ChildBoots(child) ==
  /\ child \in running \ DOMAIN request
  /\ request' = [c \in DOMAIN request \cup {child} |->
       IF c = child
         THEN Requested(sceneFile[child.play],
                        Arguments(session[child.play].children[child.instance]))
         ELSE request[c]]
  /\ UNCHANGED <<mode, plays, step, scene, edited, params, manager, saved, abort, keepAlive,
                 session, sceneFile, index, children, running, local, spared, outcome>>

\* A process ends by itself, or its user closes it.
ChildExits(child) ==
  /\ child \in running
  /\ running' = running \ {child} /\ request' = Reading(running')
  /\ UNCHANGED <<mode, plays, step, scene, edited, params, manager, saved, abort, keepAlive,
                 session, sceneFile, index, children, local, spared, outcome>>

EditScene(managers, m, given) ==
  /\ mode = "stopped" /\ scene' = managers
  /\ edited' = [edited EXCEPT ![m] = given] /\ params' = [params EXCEPT ![m] = given]
  /\ UNCHANGED <<mode, plays, step, manager, saved, abort, keepAlive, session, sceneFile,
                 index, children, running, request, local, spared, outcome>>

Starting == StartServer \/ StartLocal \/ StartChild

Next ==
  \/ \E settings \in PlaySettings, busy \in BusyPorts : OnPlay(settings, busy)
  \/ Starting \/ Frame \/ OnStop \/ OnUnload \/ Destroy
  \/ \E child \in running : ChildBoots(child) \/ ChildExits(child)
  \/ \E managers \in Scenes, m \in Manager, given \in Parameters :
       EditScene(managers, m, given)

\* The editor's thread finishes what it started and runs its frames.
Spec == Init /\ [][Next]_vars /\ WF_vars(Starting) /\ WF_vars(Frame)

-----------------------------------------------------------------------------
Processes == [play : Play, instance : Nat \ {0}]

TypeOK ==
  /\ mode \in {"stopped", "playing", "unloaded"} /\ plays \in 0..MaxPlays
  /\ step \in {"idle", "server", "local", "children"} /\ step # "idle" => mode = "playing"
  /\ scene \in Scenes /\ edited \in [Manager -> Parameters] /\ DOMAIN params = Manager
  /\ manager \in Manager \cup {None} /\ saved \in Parameters \cup {None}
  /\ abort \in BOOLEAN /\ keepAlive \in BOOLEAN
  /\ running \subseteq Processes /\ spared \subseteq Processes
  /\ children \subseteq Processes
  /\ step # "idle" => children = {Process(plays, i) : i \in 1..index}

(***************************************************************************)
(* What play overrides is put back: the parameters saved are those of the  *)
(* manager at hand, and no other manager, nor any once play has stopped or *)
(* was aborted, differs from what the user gave it.                        *)
(***************************************************************************)
OverridesRestored ==
  /\ saved # None => manager # None /\ saved = edited[manager]
  /\ \A m \in Manager : saved = None \/ m # manager => params[m] = edited[m]
  /\ mode # "playing" \/ outcome \in {"failed", "aborted"} => saved = None

(***************************************************************************)
(* No child outlives its play unnoticed: a process that runs is tracked,   *)
(* or a stop let it go because its play was told to keep children alive.   *)
(***************************************************************************)
NoOrphans == running \subseteq children \cup spared

(***************************************************************************)
(* Nothing is half started: between the editor's handlers a network play   *)
(* either has its local session, once the children of its plan have been   *)
(* launched, or it failed, and then nothing of it is left.                 *)
(***************************************************************************)
Launched(k) == {child \in running : child.play = k}

NotHalfStarted ==
  mode = "playing" /\ step = "idle" =>
    /\ outcome = "running" => manager # None /\ local[manager] # {}
    /\ outcome \in {"failed", "aborted"} =>
         Launched(plays) = {} /\ \A m \in Manager : local[m] = {}

(***************************************************************************)
(* An abort is only ever carried out on the play that failed.              *)
(***************************************************************************)
AbortsOnlyFailed == [][AbortPlay => outcome = "failed"]_vars

(***************************************************************************)
(* All players of a play meet: whoever joins, joins the endpoint at which  *)
(* the server of that play listens, and all join the same one.             *)
(***************************************************************************)
Participants(k) ==
  {request[child] : child \in {c \in DOMAIN request : c.play = k}}
    \cup (IF k = plays /\ outcome \in {"starting", "running"} /\ manager # None
            THEN local[manager] ELSE {})

PlayersMeet ==
  \A k \in Play : \A one, other \in Participants(k) :
    Joins(one.hostingMode) =>
      /\ Hosts(other.hostingMode) => one.join = other.host.bind
      /\ Joins(other.hostingMode) => one.join = other.join

(***************************************************************************)
(* The server of a play takes as many clients as the play has players,     *)
(* whichever version of the scene it read.                                 *)
(***************************************************************************)
SeatsForAll ==
  \A k \in Play : \A one \in Participants(k) :
    Hosts(one.hostingMode) => one.host.maxClients >= session[k].local.maxClients

(***************************************************************************)
(* Every play comes to a decision: it is up, it is aborted, or the editor  *)
(* stopped it or was closed.                                               *)
(***************************************************************************)
PlaysSettle ==
  outcome \in {"starting", "failed"}
    ~> outcome \in {"running", "aborted", "single"} \/ mode # "playing"
=============================================================================
