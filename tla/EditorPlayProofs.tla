--------------------------- MODULE EditorPlayProofs ---------------------------
(***************************************************************************)
(* The safety of the editor's network play for every scene, every setting  *)
(* and any number of plays.  What a play overrides, starts and launches is *)
(* taken back along different error paths; Inv says at each step of a      *)
(* start what there is to take back.                                       *)
(***************************************************************************)
EXTENDS EditorPlay, FiniteSetTheorems, WellFoundedInduction, TLAPS

-----------------------------------------------------------------------------
\* The inductive invariant.

Typed ==
  /\ mode \in {"stopped", "playing", "unloaded"} /\ plays \in 0..MaxPlays
  /\ step \in {"idle", "server", "local", "children"}
  /\ scene \in Scenes /\ edited \in [Manager -> Parameters]
  /\ params = [m \in Manager |-> params[m]] /\ local = [m \in Manager |-> local[m]]
  /\ manager \in Manager \cup {None} /\ index \in Nat
  /\ abort \in BOOLEAN /\ keepAlive \in BOOLEAN

\* A start is under way only in a play, with its manager, and nothing has failed yet.
StepsInOrder ==
  /\ mode = "playing" => plays # 0
  /\ step # "idle" => mode = "playing" /\ outcome = "starting" /\ manager \in Manager
  /\ step \in {"server", "local"} => saved = None
  /\ abort => outcome = "failed"

\* The only local session is the manager's, from the step that starts it on.
LocalSessions ==
  /\ mode # "unloaded" => \A m \in Manager : m # manager => local[m] = {}
  /\ \/ step \in {"server", "local"} \/ mode = "stopped"
     \/ mode = "playing" /\ outcome \in {"failed", "aborted"}
     => \A m \in Manager : local[m] = {}
  /\ step = "children" => local[manager] # {}
  /\ mode = "playing" /\ outcome = "running" => manager \in Manager /\ local[manager] # {}

\* The children of a play are those launched so far; those let go are of earlier plays.
ProcessesOfPlays ==
  /\ running \subseteq Processes /\ spared \subseteq Processes /\ children \subseteq Processes
  /\ \A child \in children \cup spared : child.play <= plays
  /\ mode = "playing" => \A child \in spared : child.play # plays
  /\ mode = "playing" /\ outcome \in {"failed", "aborted"} => running \subseteq spared
  /\ step # "idle" => children = {Process(plays, i) : i \in 1..index}
  /\ step = "server" => index = 0

Inv ==
  /\ Typed /\ StepsInOrder /\ LocalSessions /\ ProcessesOfPlays
  /\ OverridesRestored /\ NoOrphans

-----------------------------------------------------------------------------
(***************************************************************************)
(* The manager a play takes is one of the scene's.                         *)
(***************************************************************************)
LEMMA SceneManagers ==
  ASSUME scene \in Scenes
  PROVE  /\ Len(scene) = 1 => scene[1] \in Manager
         /\ scene # <<>> => scene[Len(scene)] \in Manager
<1>1. scene \in Seq(Manager)
  BY EditorAssumption
<1>2. Len(scene) \in Nat /\ \A i \in 1..Len(scene) : scene[i] \in Manager
  BY <1>1
<1>3. scene # <<>> => Len(scene) # 0
  BY <1>1
<1> QED BY <1>2, <1>3

(***************************************************************************)
(* Before the first play there is nothing to take back.                    *)
(***************************************************************************)
LEMMA InitInv == Init => Inv
<1> SUFFICES ASSUME Init PROVE Inv
  OBVIOUS
<1> USE EditorAssumption
<1>1. Typed
  <2>1. params = [m \in Manager |-> params[m]] /\ local = [m \in Manager |-> local[m]]
    BY DEF Init
  <2>2. /\ mode \in {"stopped", "playing", "unloaded"} /\ plays \in 0..MaxPlays
        /\ step \in {"idle", "server", "local", "children"}
        /\ scene \in Scenes /\ edited \in [Manager -> Parameters]
        /\ manager \in Manager \cup {None} /\ index \in Nat
    BY DEF Init
  <2>3. abort \in BOOLEAN /\ keepAlive \in BOOLEAN
    BY Zenon DEF Init
  <2> QED BY <2>1, <2>2, <2>3, Zenon DEF Typed
<1>2. StepsInOrder /\ LocalSessions
  BY DEF Init, StepsInOrder, LocalSessions
<1>3. ProcessesOfPlays /\ NoOrphans
  BY DEF Init, ProcessesOfPlays, NoOrphans
<1>4. OverridesRestored
  BY DEF Init, OverridesRestored
<1> QED BY <1>1, <1>2, <1>3, <1>4 DEF Inv

(***************************************************************************)
(* Each step keeps the types.                                              *)
(***************************************************************************)
LEMMA TypedStep == Inv /\ Next => Typed'
<1> SUFFICES ASSUME Inv, Next PROVE Typed'
  OBVIOUS
<1> USE EditorAssumption
<1>0. /\ Len(scene) = 1 => scene[1] \in Manager
      /\ scene # <<>> => scene[Len(scene)] \in Manager
  BY SceneManagers DEF Inv, Typed
<1>1. ASSUME NEW settings \in PlaySettings, NEW busy \in BusyPorts, OnPlay(settings, busy)
      PROVE  Typed'
  <2>1. CASE settings.enabled
    <3>1. params' = params /\ local' = local
      BY <1>1, <2>1
      DEF OnPlay, StartNetworkPlaySession, RestoreNetworkManagerOverrides, Inv,
          OverridesRestored
    <3>2. manager' \in Manager \cup {None} /\ abort' \in BOOLEAN /\ keepAlive' \in BOOLEAN
      BY <1>0, <1>1, <2>1
      DEF Inv, Typed, OnPlay, StartNetworkPlaySession, AbortAfter, ResolveFails, PlanFails,
          Planned, CanResolve
    <3>3. step' \in {"idle", "server", "local"} /\ index' = 0
      BY <1>1, <2>1
      DEF OnPlay, StartNetworkPlaySession, Planned, Inv, Typed
    <3> QED BY <1>1, <2>1, <3>1, <3>2, <3>3 DEF OnPlay, Inv, Typed
  <2>2. CASE ~settings.enabled
    <3>1. manager' \in Manager \cup {None} /\ abort' = FALSE /\ keepAlive' = FALSE
      BY <1>0, <1>1, <2>2 DEF Inv, Typed, OnPlay, StartSingleProcessSession, AbortAfter
    <3>2. CASE scene = <<>>
      <4>1. local' = local /\ UNCHANGED <<step, index, params>>
        BY <1>1, <2>2, <3>2 DEF OnPlay, StartSingleProcessSession
      <4>2. plays' \in 0..MaxPlays /\ UNCHANGED <<scene, edited>> /\ mode' = "playing"
        BY <1>1 DEF OnPlay, Inv, Typed
      <4> QED BY <3>1, <4>1, <4>2 DEF Inv, Typed
    <3>3. CASE scene # <<>>
      <4> DEFINE last == scene[Len(scene)]
                 wanted == {Requested(params[last], <<>>)}
      <4>1. /\ local' = local \/ local' = [local EXCEPT ![last] = wanted]
            /\ UNCHANGED <<step, index, params>>
        BY <1>1, <2>2, <3>3 DEF OnPlay, StartSingleProcessSession
      <4> HIDE DEF last, wanted
      <4>2. local' = [m \in Manager |-> local'[m]]
        BY <4>1 DEF Inv, Typed
      <4>3. plays' \in 0..MaxPlays /\ UNCHANGED <<scene, edited>> /\ mode' = "playing"
        BY <1>1 DEF OnPlay, Inv, Typed
      <4> QED BY <3>1, <4>1, <4>2, <4>3 DEF Inv, Typed
    <3> QED BY <3>2, <3>3
  <2> QED BY <2>1, <2>2
<1>2. CASE StartServer
  <2>1. CASE ServerFails
    BY <1>2, <2>1 DEF Inv, Typed, StartServer, ServerFails
  <2>2. CASE ServerStarts
    BY <1>2, <2>2 DEF Inv, Typed, StartServer, ServerStarts, LaunchChildProcess
  <2> QED BY <1>2, <2>1, <2>2 DEF StartServer
<1>3. CASE StartLocal
  BY <1>3
  DEF Inv, Typed, StepsInOrder, StartLocal, LocalStarts, LocalFails, StepAfter
<1>4. CASE StartChild
  <2>1. CASE ChildFails
    BY <1>4, <2>1
    DEF Inv, Typed, StartChild, ChildFails, LetManagerGo, StopLocalConfiguredSession,
        RestoreNetworkManagerOverrides
  <2>2. CASE ChildStarts
    BY <1>4, <2>2 DEF Inv, Typed, StartChild, ChildStarts, StepAfter, LaunchChildProcess
  <2> QED BY <1>4, <2>1, <2>2 DEF StartChild
<1>5. CASE Frame \/ OnStop \/ OnUnload \/ Destroy
  BY <1>5
  DEF Inv, Typed, Frame, AbortPlay, OnStop, OnUnload, Destroy, LetManagerGo,
      StopLocalConfiguredSession, RestoreNetworkManagerOverrides
<1>6. ASSUME NEW child \in running, ChildBoots(child) \/ ChildExits(child) PROVE Typed'
  BY <1>6 DEF Inv, Typed, ChildBoots, ChildExits
<1>7. ASSUME NEW managers \in Scenes, NEW m \in Manager, NEW given \in Parameters,
             EditScene(managers, m, given)
      PROVE  Typed'
  BY <1>7 DEF Inv, Typed, EditScene
<1> QED BY <1>1, <1>2, <1>3, <1>4, <1>5, <1>6, <1>7 DEF Next, Starting

(***************************************************************************)
(* A start goes through its steps, and only a failed play asks for an      *)
(* abort.                                                                  *)
(***************************************************************************)
LEMMA StepsStep == Inv /\ Next => StepsInOrder'
<1> SUFFICES ASSUME Inv, Next PROVE StepsInOrder'
  OBVIOUS
<1> USE EditorAssumption
<1>0. Len(scene) = 1 => scene[1] \in Manager
  BY SceneManagers DEF Inv, Typed
<1>1. ASSUME NEW settings \in PlaySettings, NEW busy \in BusyPorts, OnPlay(settings, busy)
      PROVE  StepsInOrder'
  <2>1. CASE settings.enabled
    BY <1>0, <1>1, <2>1
    DEF Inv, Typed, StepsInOrder, OnPlay, StartNetworkPlaySession, ResolveFails, PlanFails,
        Planned, CanResolve, AbortAfter, RestoreNetworkManagerOverrides
  <2>2. CASE ~settings.enabled
    BY <1>1, <2>2
    DEF Inv, Typed, StepsInOrder, OnPlay, StartSingleProcessSession, AbortAfter
  <2> QED BY <2>1, <2>2
<1>2. CASE StartServer
  <2>1. CASE ServerFails
    BY <1>2, <2>1 DEF Inv, Typed, StepsInOrder, StartServer, ServerFails
  <2>2. CASE ServerStarts
    BY <1>2, <2>2 DEF Inv, Typed, StepsInOrder, StartServer, ServerStarts
  <2> QED BY <1>2, <2>1, <2>2 DEF StartServer
<1>3. CASE StartLocal
  <2>1. CASE LocalFails
    BY <1>3, <2>1 DEF Inv, Typed, StepsInOrder, StartLocal, LocalFails
  <2>2. CASE LocalStarts
    BY <1>3, <2>2
    DEF Inv, Typed, StepsInOrder, StartLocal, LocalStarts, StepAfter, OutcomeAfter
  <2> QED BY <1>3, <2>1, <2>2 DEF StartLocal
<1>4. CASE StartChild
  <2>1. CASE ChildFails
    BY <1>4, <2>1 DEF Inv, Typed, StepsInOrder, StartChild, ChildFails
  <2>2. CASE ChildStarts
    BY <1>4, <2>2
    DEF Inv, Typed, StepsInOrder, StartChild, ChildStarts, StepAfter, OutcomeAfter
  <2> QED BY <1>4, <2>1, <2>2 DEF StartChild
<1>5. CASE Frame \/ OnStop \/ OnUnload \/ Destroy
  <2>1. CASE Frame
    <3>1. abort' => outcome' = "failed"
      BY <2>1, Zenon DEF Inv, StepsInOrder, Frame, AbortPlay
    <3> QED BY <2>1, <3>1 DEF Inv, StepsInOrder, Frame
  <2>2. CASE OnStop \/ OnUnload \/ Destroy
    <3>1. abort' => outcome' = "failed"
      BY <2>2, Zenon DEF Inv, StepsInOrder, OnStop, OnUnload, Destroy
    <3>2. step' = "idle" /\ mode' # "playing"
      BY <2>2 DEF OnStop, OnUnload, Destroy
    <3> QED BY <3>1, <3>2 DEF StepsInOrder
  <2> QED BY <1>5, <2>1, <2>2
<1>6. ASSUME NEW child \in running, ChildBoots(child) \/ ChildExits(child)
      PROVE  StepsInOrder'
  BY <1>6 DEF Inv, StepsInOrder, ChildBoots, ChildExits
<1>7. ASSUME NEW managers \in Scenes, NEW m \in Manager, NEW given \in Parameters,
             EditScene(managers, m, given)
      PROVE  StepsInOrder'
  BY <1>7 DEF Inv, StepsInOrder, EditScene
<1> QED BY <1>1, <1>2, <1>3, <1>4, <1>5, <1>6, <1>7 DEF Next, Starting

(***************************************************************************)
(* A local session starts with its manager and ends before the manager is  *)
(* let go.                                                                 *)
(***************************************************************************)
LEMMA SessionsStep == Inv /\ Next => LocalSessions'
<1> SUFFICES ASSUME Inv, Next PROVE LocalSessions'
  OBVIOUS
<1> USE EditorAssumption
<1>0. /\ Len(scene) = 1 => scene[1] \in Manager
      /\ scene # <<>> => scene[Len(scene)] \in Manager
  BY SceneManagers DEF Inv, Typed
<1>1. ASSUME NEW settings \in PlaySettings, NEW busy \in BusyPorts, OnPlay(settings, busy)
      PROVE  LocalSessions'
  <2>1. CASE settings.enabled
    BY <1>0, <1>1, <2>1
    DEF Inv, Typed, LocalSessions, OnPlay, StartNetworkPlaySession, Planned
  <2>2. CASE ~settings.enabled
    BY <1>0, <1>1, <2>2
    DEF Inv, Typed, LocalSessions, OnPlay, StartSingleProcessSession
  <2> QED BY <2>1, <2>2
<1>2. CASE StartServer
  BY <1>2
  DEF Inv, StepsInOrder, LocalSessions, StartServer, ServerFails, ServerStarts
<1>3. CASE StartLocal
  BY <1>3
  DEF Inv, Typed, StepsInOrder, LocalSessions, StartLocal, LocalStarts, LocalFails, StepAfter,
      OutcomeAfter
<1>4. CASE StartChild
  BY <1>4
  DEF Inv, Typed, StepsInOrder, LocalSessions, StartChild, ChildStarts, ChildFails, StepAfter,
      OutcomeAfter, LetManagerGo, StopLocalConfiguredSession
<1>5. CASE Frame \/ OnStop \/ OnUnload \/ Destroy
  BY <1>5
  DEF Inv, Typed, StepsInOrder, LocalSessions, Frame, AbortPlay, OnStop, OnUnload, Destroy,
      LetManagerGo, StopLocalConfiguredSession
<1>6. ASSUME NEW child \in running, ChildBoots(child) \/ ChildExits(child)
      PROVE  LocalSessions'
  BY <1>6 DEF Inv, LocalSessions, ChildBoots, ChildExits
<1>7. ASSUME NEW managers \in Scenes, NEW m \in Manager, NEW given \in Parameters,
             EditScene(managers, m, given)
      PROVE  LocalSessions'
  BY <1>7 DEF Inv, LocalSessions, EditScene
<1> QED BY <1>1, <1>2, <1>3, <1>4, <1>5, <1>6, <1>7 DEF Next, Starting

(***************************************************************************)
(* What a play overrides is saved first, and restored while the manager is *)
(* still at hand.                                                          *)
(***************************************************************************)
LEMMA OverridesStep == Inv /\ Next => OverridesRestored'
<1> SUFFICES ASSUME Inv, Next PROVE OverridesRestored'
  OBVIOUS
<1> USE EditorAssumption
<1>1. ASSUME NEW settings \in PlaySettings, NEW busy \in BusyPorts, OnPlay(settings, busy)
      PROVE  OverridesRestored'
  <2>1. CASE settings.enabled
    BY <1>1, <2>1
    DEF Inv, OverridesRestored, OnPlay, StartNetworkPlaySession,
        RestoreNetworkManagerOverrides
  <2>2. CASE ~settings.enabled
    BY <1>1, <2>2 DEF Inv, OverridesRestored, OnPlay, StartSingleProcessSession
  <2> QED BY <2>1, <2>2
<1>2. CASE StartServer
  BY <1>2
  DEF Inv, StepsInOrder, OverridesRestored, StartServer, ServerFails, ServerStarts
<1>3. CASE StartLocal
  <2>1. saved = None /\ manager \in Manager /\ mode = "playing" /\ outcome = "starting"
    BY <1>3 DEF Inv, StepsInOrder, StartLocal
  <2>2. \A m \in Manager : params[m] = edited[m] /\ params[m] # None
    BY <2>1 DEF Inv, Typed, OverridesRestored
  <2>3. CASE LocalFails
    BY <1>3, <2>1, <2>2, <2>3 DEF StartLocal, LocalFails, OverridesRestored
  <2>4. CASE LocalStarts
    <3> DEFINE configured == Configured(Plan.local)
    <3>1. /\ saved' = params[manager] /\ params' = [params EXCEPT ![manager] = configured]
          /\ UNCHANGED <<manager, mode, edited>> /\ outcome' \in {"starting", "running"}
      BY <1>3, <2>1, <2>4 DEF StartLocal, LocalStarts, OutcomeAfter
    <3> HIDE DEF configured
    <3> QED BY <2>1, <2>2, <3>1 DEF Inv, Typed, OverridesRestored
  <2> QED BY <1>3, <2>3, <2>4 DEF StartLocal
<1>4. CASE StartChild
  BY <1>4
  DEF Inv, Typed, StepsInOrder, OverridesRestored, StartChild, ChildStarts, ChildFails,
      OutcomeAfter, LetManagerGo, RestoreNetworkManagerOverrides
<1>5. CASE Frame \/ OnStop \/ OnUnload \/ Destroy
  <2>1. \A m \in Manager : RestoreNetworkManagerOverrides => params'[m] = edited[m]
    BY DEF Inv, Typed, OverridesRestored, RestoreNetworkManagerOverrides
  <2>2. CASE RestoreNetworkManagerOverrides /\ UNCHANGED edited
    BY <2>1, <2>2 DEF OverridesRestored, RestoreNetworkManagerOverrides
  <2>3. CASE UNCHANGED <<saved, params, edited, manager, mode, outcome>>
    BY <2>3 DEF Inv, OverridesRestored
  <2> QED BY <1>5, <2>2, <2>3 DEF Frame, AbortPlay, OnStop, OnUnload, Destroy, LetManagerGo
<1>6. ASSUME NEW child \in running, ChildBoots(child) \/ ChildExits(child)
      PROVE  OverridesRestored'
  BY <1>6 DEF Inv, OverridesRestored, ChildBoots, ChildExits
<1>7. ASSUME NEW managers \in Scenes, NEW m \in Manager, NEW given \in Parameters,
             EditScene(managers, m, given)
      PROVE  OverridesRestored'
  BY <1>7 DEF Inv, Typed, OverridesRestored, EditScene
<1> QED BY <1>1, <1>2, <1>3, <1>4, <1>5, <1>6, <1>7 DEF Next, Starting

(***************************************************************************)
(* A process is tracked from its launch until it is terminated or let go.  *)
(***************************************************************************)
LEMMA OrphansStep == Inv /\ Next => NoOrphans'
<1> SUFFICES ASSUME Inv, Next PROVE NoOrphans'
  OBVIOUS
<1>1. ASSUME NEW settings \in PlaySettings, NEW busy \in BusyPorts, OnPlay(settings, busy)
      PROVE  NoOrphans'
  BY <1>1
  DEF Inv, NoOrphans, OnPlay, StartNetworkPlaySession, StartSingleProcessSession,
      TerminateTrackedChildProcesses
<1>2. CASE Starting
  BY <1>2
  DEF Inv, NoOrphans, Starting, StartServer, ServerFails, ServerStarts, StartLocal,
      LocalStarts, LocalFails, StartChild, ChildStarts, ChildFails, LaunchChildProcess,
      TerminateTrackedChildProcesses
<1>3. CASE Frame \/ OnStop \/ OnUnload \/ Destroy
  BY <1>3
  DEF Inv, NoOrphans, Frame, AbortPlay, OnStop, OnUnload, Destroy, PollChildProcesses,
      TerminateTrackedChildProcesses
<1>4. ASSUME NEW child \in running, ChildBoots(child) \/ ChildExits(child) PROVE NoOrphans'
  BY <1>4 DEF Inv, NoOrphans, ChildBoots, ChildExits
<1>5. ASSUME NEW managers \in Scenes, NEW m \in Manager, NEW given \in Parameters,
             EditScene(managers, m, given)
      PROVE  NoOrphans'
  BY <1>5 DEF Inv, NoOrphans, EditScene
<1> QED BY <1>1, <1>2, <1>3, <1>4, <1>5 DEF Next

(***************************************************************************)
(* Tracked processes end by force with their play, or are let go with it.  *)
(***************************************************************************)
LEMMA ProcessesStep == Inv /\ Next => ProcessesOfPlays'
<1> SUFFICES ASSUME Inv, Next PROVE ProcessesOfPlays'
  OBVIOUS
<1> USE EditorAssumption
<1>0. plays \in Nat /\ index \in Nat /\ \A child \in Processes : child.play \in Nat
  BY DEF Inv, Typed, Processes, Play
<1>1. ASSUME NEW settings \in PlaySettings, NEW busy \in BusyPorts, OnPlay(settings, busy)
      PROVE  ProcessesOfPlays'
  <2>1. CASE settings.enabled
    BY <1>0, <1>1, <2>1
    DEF Inv, NoOrphans, ProcessesOfPlays, OnPlay, StartNetworkPlaySession, Planned,
        TerminateTrackedChildProcesses
  <2>2. CASE ~settings.enabled
    BY <1>0, <1>1, <2>2
    DEF Inv, ProcessesOfPlays, OnPlay, StartSingleProcessSession
  <2> QED BY <2>1, <2>2
<1>2. ASSUME step # "idle" PROVE \A i \in Nat : Process(plays, i + 1) \in Processes
  BY <1>0, <1>2 DEF Inv, Typed, StepsInOrder, Processes, Process, Play
<1>3. ASSUME NEW i \in Nat
      PROVE  \A child : child = Process(plays, i) => child.play = plays
  BY DEF Process
<1>4. CASE StartServer
  <2>1. CASE ServerFails
    BY <1>0, <1>4, <2>1
    DEF Inv, StepsInOrder, NoOrphans, ProcessesOfPlays, StartServer, ServerFails,
        TerminateTrackedChildProcesses
  <2>2. CASE ServerStarts
    <3>1. step = "server" /\ index = 0 /\ children = {}
      BY <1>4 DEF StartServer, Inv, ProcessesOfPlays
    <3>2. Process(plays, 1) \in Processes /\ Process(plays, 1).play = plays
      BY <1>2, <1>3, <3>1
    <3>3. /\ index' = 1 /\ children' = {Process(plays, 1)}
          /\ running' = running \cup {Process(plays, 1)} /\ step' = "local"
          /\ UNCHANGED <<spared, plays, mode, outcome>>
      BY <1>4, <2>2, <3>1 DEF StartServer, ServerStarts, LaunchChildProcess
    <3>4. children' = {Process(plays', i) : i \in 1..index'}
      BY <3>3
    <3> QED BY <1>0, <3>1, <3>2, <3>3, <3>4 DEF Inv, StepsInOrder, ProcessesOfPlays
  <2> QED BY <1>4, <2>1, <2>2 DEF StartServer
<1>5. CASE StartLocal
  BY <1>0, <1>5
  DEF Inv, StepsInOrder, NoOrphans, ProcessesOfPlays, StartLocal, LocalStarts, LocalFails,
      StepAfter, OutcomeAfter, TerminateTrackedChildProcesses
<1>6. CASE StartChild
  <2>1. CASE ChildFails
    BY <1>0, <1>6, <2>1
    DEF Inv, StepsInOrder, NoOrphans, ProcessesOfPlays, StartChild, ChildFails,
        TerminateTrackedChildProcesses
  <2>2. CASE ChildStarts
    BY <1>0, <1>2, <1>3, <1>6, <2>2
    DEF Inv, StepsInOrder, ProcessesOfPlays, StartChild, ChildStarts, LaunchChildProcess,
        StepAfter, OutcomeAfter
  <2> QED BY <1>6, <2>1, <2>2 DEF StartChild
<1>7. CASE Frame \/ OnStop \/ OnUnload \/ Destroy
  BY <1>0, <1>7
  DEF Inv, NoOrphans, ProcessesOfPlays, Frame, AbortPlay, OnStop, OnUnload, Destroy,
      PollChildProcesses, TerminateTrackedChildProcesses
<1>8. ASSUME NEW child \in running, ChildBoots(child) \/ ChildExits(child)
      PROVE  ProcessesOfPlays'
  BY <1>8 DEF Inv, ProcessesOfPlays, ChildBoots, ChildExits
<1>9. ASSUME NEW managers \in Scenes, NEW m \in Manager, NEW given \in Parameters,
             EditScene(managers, m, given)
      PROVE  ProcessesOfPlays'
  BY <1>9 DEF Inv, ProcessesOfPlays, EditScene
<1> QED BY <1>1, <1>4, <1>5, <1>6, <1>7, <1>8, <1>9 DEF Next, Starting

(***************************************************************************)
(* Inv holds at every step of the editor.                                  *)
(***************************************************************************)
LEMMA InvHolds == Spec => []Inv
<1>1. Inv /\ [Next]_vars => Inv'
  <2>1. Inv /\ Next => Inv'
    BY TypedStep, StepsStep, SessionsStep, OverridesStep, OrphansStep, ProcessesStep, Zenon
    DEF Inv
  <2>2. Inv /\ UNCHANGED vars => Inv'
    BY DEF vars, Inv, Typed, StepsInOrder, LocalSessions, ProcessesOfPlays, Processes, Play,
           Process, OverridesRestored, NoOrphans
  <2> QED BY <2>1, <2>2
<1> QED BY InitInv, <1>1, PTL DEF Spec

-----------------------------------------------------------------------------
(***************************************************************************)
(* The editor's state keeps its types, and the processes tracked during a  *)
(* start are exactly those launched for it so far.                         *)
(***************************************************************************)
THEOREM TypeCorrect == Spec => []TypeOK
<1>1. Inv => TypeOK
  BY EditorAssumption
  DEF Inv, Typed, StepsInOrder, ProcessesOfPlays, OverridesRestored, TypeOK
<1> QED BY InvHolds, <1>1, PTL

(***************************************************************************)
(* RestoreNetworkManagerOverrides gives every manager back what the user   *)
(* gave it, whichever way a play ends.                                     *)
(***************************************************************************)
THEOREM OverridesAlwaysRestored == Spec => []OverridesRestored
<1>1. Inv => OverridesRestored
  BY DEF Inv
<1> QED BY InvHolds, <1>1, PTL

(***************************************************************************)
(* No error path of StartNetworkPlaySession leaves a process behind that   *)
(* the editor no longer tracks.                                            *)
(***************************************************************************)
THEOREM NeverOrphans == Spec => []NoOrphans
<1>1. Inv => NoOrphans
  BY DEF Inv
<1> QED BY InvHolds, <1>1, PTL

(***************************************************************************)
(* Between two handlers a network play is up or nothing of it is left.     *)
(***************************************************************************)
THEOREM NeverHalfStarted == Spec => []NotHalfStarted
<1>1. Inv => NotHalfStarted
  <2> SUFFICES ASSUME Inv, mode = "playing", step = "idle"
               PROVE  /\ outcome = "running" => manager # None /\ local[manager] # {}
                      /\ outcome \in {"failed", "aborted"} =>
                           Launched(plays) = {} /\ \A m \in Manager : local[m] = {}
    BY DEF NotHalfStarted
  <2>1. outcome = "running" => manager # None /\ local[manager] # {}
    BY EditorAssumption DEF Inv, LocalSessions
  <2>2. ASSUME outcome \in {"failed", "aborted"}
        PROVE  Launched(plays) = {} /\ \A m \in Manager : local[m] = {}
    BY <2>2 DEF Inv, LocalSessions, ProcessesOfPlays, Launched
  <2> QED BY <2>1, <2>2
<1> QED BY InvHolds, <1>1, PTL

(***************************************************************************)
(* The abort a frame carries out is that of the play which asked for it,   *)
(* never one of an earlier play that was stopped in between.               *)
(***************************************************************************)
THEOREM AbortsOnlyFailedPlays == Spec => AbortsOnlyFailed
<1>1. Inv => [AbortPlay => outcome = "failed"]_vars
  BY DEF Inv, StepsInOrder, AbortPlay
<1> QED BY InvHolds, <1>1, PTL DEF AbortsOnlyFailed

-----------------------------------------------------------------------------
\* Least and last.

(***************************************************************************)
(* A set of naturals has a least element, and a last one when it is        *)
(* bounded.                                                                *)
(***************************************************************************)
LEMMA LeastNatural ==
  ASSUME NEW S \in SUBSET Nat, S # {}
  PROVE  \E least \in S : \A other \in S : least <= other
<1> DEFINE Less == {p \in Nat \X Nat : p[1] < p[2]}
<1>1. OpToRel(<, Nat) = Less
  BY DEF OpToRel
<1>2. IsWellFoundedOn(Less, Nat)
  BY <1>1, NatLessThanWellFounded
<1>3. PICK least \in S : \A other \in S : ~ (<<other, least>> \in Less)
  BY <1>2, WFMin, Zenon
<1>4. \A other \in S : ~ (other < least)
  BY <1>3
<1> QED BY <1>4

LEMMA LastNatural ==
  ASSUME NEW n \in Nat, NEW S \in SUBSET (1..n), S # {}
  PROVE  \E last \in S : \A other \in S : other <= last
<1> DEFINE Back == {n - i : i \in S}
<1>1. Back \in SUBSET Nat /\ Back # {}
  <2>1. \A i \in S : n - i \in Nat
    OBVIOUS
  <2> QED BY <2>1
<1>2. PICK least \in Back : \A other \in Back : least <= other
  BY <1>1, LeastNatural
<1>3. PICK last \in S : least = n - last
  BY <1>2
<1>4. ASSUME NEW other \in S PROVE other <= last
  <2>1. n - other \in Back
    OBVIOUS
  <2> QED BY <1>2, <1>3, <2>1
<1> QED BY <1>4

-----------------------------------------------------------------------------
\* What a child takes from its command line.

(***************************************************************************)
(* An empty command line overrides nothing.                                *)
(***************************************************************************)
LEMMA ParseNothing ==
  ASSUME NEW override \in DOMAIN Flags
  PROVE  ParseCommandLineOverrides(<<>>)[override] = Unset
BY DEF ParseCommandLineOverrides

(***************************************************************************)
(* ParseCommandLineOverrides as the loop of the code: an argument more     *)
(* gives the overrides its flag is for, and leaves the others as the       *)
(* arguments before it gave them.                                          *)
(***************************************************************************)
THEOREM ParsesInOrder ==
  ASSUME NEW Argument, NEW args \in Seq(Argument), NEW arg \in Argument,
         NEW override \in DOMAIN Flags
  PROVE  ParseCommandLineOverrides(args \o <<arg>>)[override] =
           IF Gives(arg, override) THEN Meaning(arg)
           ELSE ParseCommandLineOverrides(args)[override]
<1> DEFINE n == Len(args)
           more == args \o <<arg>>
           Giving(a) == {i \in DOMAIN a : Gives(a[i], override)}
           Last(a) == CHOOSE i \in Giving(a) : \A other \in Giving(a) : other <= i
<1>1. /\ n \in Nat /\ DOMAIN args = 1..n /\ DOMAIN more = 1..(n + 1)
      /\ \A i \in 1..n : more[i] = args[i]
      /\ more[n + 1] = arg
  OBVIOUS
<1>2. \A a : ParseCommandLineOverrides(a)[override] =
               IF Giving(a) = {} THEN Unset ELSE Meaning(a[Last(a)])
  BY Zenon DEF ParseCommandLineOverrides
<1> HIDE DEF n, more
<1>3. CASE Gives(arg, override)
  <2>1. n + 1 \in Giving(more) /\ \A i \in Giving(more) : i \in 1..(n + 1)
    BY <1>1, <1>3
  <2>2. \A i \in Giving(more) : (\A other \in Giving(more) : other <= i) => i = n + 1
    BY <1>1, <2>1
  <2>3. \A other \in Giving(more) : other <= n + 1
    BY <1>1, <2>1
  <2>4. Last(more) = n + 1
    <3> HIDE DEF Giving
    <3> QED BY <2>1, <2>2, <2>3
  <2> QED BY <1>1, <1>2, <1>3, <2>1, <2>4 DEF more
<1>4. CASE ~Gives(arg, override)
  <2>1. Giving(more) = Giving(args)
    BY <1>1, <1>4
  <2>2. CASE Giving(args) = {}
    BY <1>2, <1>4, <2>1, <2>2 DEF more
  <2>3. CASE Giving(args) # {}
    <3>1. Giving(args) \in SUBSET (1..n)
      BY <1>1
    <3>2. \E last \in Giving(args) : \A other \in Giving(args) : other <= last
      BY <1>1, <2>3, <3>1, LastNatural
    <3>3. Last(args) \in Giving(args)
      <4> HIDE DEF Giving
      <4> QED BY <3>2
    <3>4. more[Last(args)] = args[Last(args)]
      BY <1>1, <3>1, <3>3
    <3>5. Last(more) = Last(args)
      BY <2>1
    <3> QED BY <1>2, <1>4, <2>1, <2>3, <3>4, <3>5 DEF more
  <2> QED BY <2>2, <2>3
<1> QED BY <1>3, <1>4

\* What a NetworkPlayInstanceSpec holds.
InstanceSpecs ==
  [hostingMode : {"Client", "ListenServer", "DedicatedServer"}, connectHost : Address,
   connectPort : Nat, listenPort : Nat, bindAddress : Address, advertisedAddress : Address,
   maxClients : Nat]

(***************************************************************************)
(* What each flag of a child's command line gives.                         *)
(***************************************************************************)
LEMMA FlagsGive ==
  ASSUME NEW value, NEW override \in DOMAIN Flags
  PROVE  /\ \A flag \in {"-client", "-host", "-dedicated"} :
              Gives([flag |-> flag, value |-> value], override) <=> override = "hostingMode"
         /\ \A flag \in {"-connectHost", "-bindAddress", "-advertisedAddress"} :
              /\ Meaning([flag |-> flag, value |-> value]) = value
              /\ Gives([flag |-> flag, value |-> value], override) <=>
                   <<flag, override>> \in {<<"-connectHost", "connectHost">>,
                                           <<"-bindAddress", "bindAddress">>,
                                           <<"-advertisedAddress", "advertisedAddress">>}
         /\ \A flag \in {"-connectPort", "-listenPort"} :
              /\ Meaning([flag |-> flag, value |-> value]) = value
              /\ Gives([flag |-> flag, value |-> value], override) <=>
                   /\ <<flag, override>> \in {<<"-connectPort", "connectPort">>,
                                              <<"-listenPort", "listenPort">>}
                   /\ IsPort(value)
<1>1. /\ DOMAIN Flags = {"hostingMode", "connectHost", "connectPort", "listenPort",
                         "bindAddress", "advertisedAddress"}
      /\ Flags["hostingMode"] = {"-server", "-dedicated", "-host", "-client"}
      /\ Flags["connectHost"] = {"-ip", "-connectHost"}
      /\ Flags["connectPort"] = {"-port", "-connectPort"}
      /\ Flags["listenPort"] = {"-port", "-listenPort"}
      /\ Flags["bindAddress"] = {"-bindAddress"}
      /\ Flags["advertisedAddress"] = {"-advertisedAddress"}
  BY DEF Flags
<1> QED BY <1>1 DEF Gives, Meaning

(***************************************************************************)
(* An optional argument gives its override only when there is an address.  *)
(***************************************************************************)
LEMMA OptionalInOrder ==
  ASSUME NEW Argument, NEW args \in Seq(Argument), NEW flag, NEW address,
         NEW arg \in Argument, arg = [flag |-> flag, value |-> address],
         Meaning(arg) = address
  PROVE  /\ args \o Optional(flag, address) \in Seq(Argument)
         /\ \A override \in DOMAIN Flags :
              ParseCommandLineOverrides(args \o Optional(flag, address))[override] =
                IF address # NoAddress /\ Gives(arg, override)
                  THEN address ELSE ParseCommandLineOverrides(args)[override]
<1>1. CASE address = NoAddress
  <2>1. Optional(flag, address) = <<>> /\ args \o <<>> = args
    BY <1>1 DEF Optional
  <2> QED BY <1>1, <2>1
<1>2. CASE address # NoAddress
  <2>1. Optional(flag, address) = <<arg>> /\ args \o <<arg>> \in Seq(Argument)
    BY <1>2 DEF Optional
  <2>2. \A override \in DOMAIN Flags :
          ParseCommandLineOverrides(args \o <<arg>>)[override] =
            IF Gives(arg, override) THEN Meaning(arg)
            ELSE ParseCommandLineOverrides(args)[override]
    BY ParsesInOrder
  <2> QED BY <1>2, <2>1, <2>2
<1> QED BY <1>1, <1>2

(***************************************************************************)
(* LaunchChildProcess and ParseCommandLineOverrides agree: a child is told *)
(* its role, and each address and each port its instance sets, whatever    *)
(* else stands on the command line.                                        *)
(***************************************************************************)
THEOREM ChildrenAreTold ==
  ASSUME NEW instance \in InstanceSpecs
  PROVE  LET told == ParseCommandLineOverrides(Arguments(instance))
             Given(address) == IF address = NoAddress THEN Unset ELSE address
             Valid(port) == IF IsPort(port) THEN port ELSE Unset
         IN /\ told["hostingMode"] = instance.hostingMode
            /\ told["connectHost"] = Given(instance.connectHost)
            /\ told["connectPort"] = Valid(instance.connectPort)
            /\ told["listenPort"] = Valid(instance.listenPort)
            /\ told["bindAddress"] = Given(instance.bindAddress)
            /\ told["advertisedAddress"] = Given(instance.advertisedAddress)
<1> DEFINE role == [flag |-> GetNetworkPlayRoleFlag(instance.hostingMode), value |-> Unset]
           connectPort == [flag |-> "-connectPort", value |-> instance.connectPort]
           listenPort == [flag |-> "-listenPort", value |-> instance.listenPort]
           args1 == <<role>>
           args2 == args1 \o Optional("-connectHost", instance.connectHost)
           args3 == args2 \o Optional("-bindAddress", instance.bindAddress)
           args4 == args3 \o Optional("-advertisedAddress", instance.advertisedAddress)
           args5 == args4 \o <<connectPort>>
           args6 == args5 \o <<listenPort>>
           Told(args, override) == ParseCommandLineOverrides(args)[override]
           connectHost == [flag |-> "-connectHost", value |-> instance.connectHost]
           bindAddress == [flag |-> "-bindAddress", value |-> instance.bindAddress]
           advertised == [flag |-> "-advertisedAddress", value |-> instance.advertisedAddress]
           Argument == {role, connectHost, bindAddress, advertised, connectPort, listenPort}
<1>1. Arguments(instance) = args6
  BY Zenon DEF Arguments
<1>2. instance.hostingMode \in {"Client", "ListenServer", "DedicatedServer"}
  BY DEF InstanceSpecs
<1>3. /\ Meaning(role) = instance.hostingMode
      /\ Meaning(connectPort) = instance.connectPort
      /\ Meaning(listenPort) = instance.listenPort
  <2>1. Meaning(connectPort) = instance.connectPort /\ Meaning(listenPort) = instance.listenPort
    BY DEF Meaning
  <2>2. Meaning(role) = instance.hostingMode
    BY <1>2 DEF GetNetworkPlayRoleFlag, Meaning
  <2> QED BY <2>1, <2>2
<1>4. \A override \in DOMAIN Flags :
        /\ Gives(role, override) <=> override = "hostingMode"
        /\ Gives(connectPort, override) <=>
             override = "connectPort" /\ IsPort(instance.connectPort)
        /\ Gives(listenPort, override) <=>
             override = "listenPort" /\ IsPort(instance.listenPort)
        /\ Gives(connectHost, override) <=> override = "connectHost"
        /\ Gives(bindAddress, override) <=> override = "bindAddress"
        /\ Gives(advertised, override) <=> override = "advertisedAddress"
  <2>1. GetNetworkPlayRoleFlag(instance.hostingMode) \in {"-client", "-host", "-dedicated"}
    BY <1>2 DEF GetNetworkPlayRoleFlag
  <2> QED BY <2>1, FlagsGive
<1>5. /\ connectHost = [flag |-> "-connectHost", value |-> instance.connectHost]
      /\ bindAddress = [flag |-> "-bindAddress", value |-> instance.bindAddress]
      /\ advertised = [flag |-> "-advertisedAddress", value |-> instance.advertisedAddress]
      /\ Meaning(connectHost) = instance.connectHost
      /\ Meaning(bindAddress) = instance.bindAddress
      /\ Meaning(advertised) = instance.advertisedAddress
  BY DEF Meaning
<1> HIDE DEF role, connectHost, bindAddress, advertised, connectPort, listenPort
<1>6. /\ args1 \in Seq(Argument)
      /\ \A override \in DOMAIN Flags :
           Told(args1, override) =
             IF override = "hostingMode" THEN instance.hostingMode ELSE Unset
  <2>1. <<>> \in Seq(Argument) /\ <<>> \o <<role>> = args1
    OBVIOUS
  <2>2. ASSUME NEW override \in DOMAIN Flags
        PROVE  Told(args1, override) =
                 IF Gives(role, override) THEN Meaning(role) ELSE Told(<<>>, override)
    <3>1. ParseCommandLineOverrides(<<>> \o <<role>>)[override] =
            IF Gives(role, override) THEN Meaning(role)
            ELSE ParseCommandLineOverrides(<<>>)[override]
      BY <1>3, <2>1, ParsesInOrder
    <3> QED BY <2>1, <3>1
  <2>3. args1 \in Seq(Argument)
    BY <1>3
  <2> QED BY <1>3, <1>4, <2>2, <2>3, ParseNothing
<1> HIDE DEF args1
<1>7. /\ args2 \in Seq(Argument)
      /\ \A override \in DOMAIN Flags :
           Told(args2, override) =
             IF instance.connectHost # NoAddress /\ override = "connectHost"
               THEN instance.connectHost ELSE Told(args1, override)
  <2>1. connectHost \in Argument
    OBVIOUS
  <2> HIDE DEF Argument
  <2>2. /\ args1 \o Optional("-connectHost", instance.connectHost) \in Seq(Argument)
        /\ \A override \in DOMAIN Flags :
             Told(args1 \o Optional("-connectHost", instance.connectHost), override) =
               IF instance.connectHost # NoAddress /\ Gives(connectHost, override)
                 THEN instance.connectHost ELSE Told(args1, override)
    BY <1>6, <1>5, <2>1, OptionalInOrder
  <2> QED BY <1>4, <2>2
<1> HIDE DEF args2
<1>8. /\ args3 \in Seq(Argument)
      /\ \A override \in DOMAIN Flags :
           Told(args3, override) =
             IF instance.bindAddress # NoAddress /\ override = "bindAddress"
               THEN instance.bindAddress ELSE Told(args2, override)
  <2>1. bindAddress \in Argument
    OBVIOUS
  <2> HIDE DEF Argument
  <2>2. /\ args2 \o Optional("-bindAddress", instance.bindAddress) \in Seq(Argument)
        /\ \A override \in DOMAIN Flags :
             Told(args2 \o Optional("-bindAddress", instance.bindAddress), override) =
               IF instance.bindAddress # NoAddress /\ Gives(bindAddress, override)
                 THEN instance.bindAddress ELSE Told(args2, override)
    BY <1>7, <1>5, <2>1, OptionalInOrder
  <2> QED BY <1>4, <2>2
<1> HIDE DEF args3
<1>9. /\ args4 \in Seq(Argument)
      /\ \A override \in DOMAIN Flags :
           Told(args4, override) =
             IF instance.advertisedAddress # NoAddress /\ override = "advertisedAddress"
               THEN instance.advertisedAddress ELSE Told(args3, override)
  <2>1. advertised \in Argument
    OBVIOUS
  <2> HIDE DEF Argument
  <2>2. /\ args3 \o Optional("-advertisedAddress", instance.advertisedAddress) \in Seq(Argument)
        /\ \A override \in DOMAIN Flags :
             Told(args3 \o Optional("-advertisedAddress", instance.advertisedAddress), override) =
               IF instance.advertisedAddress # NoAddress /\ Gives(advertised, override)
                 THEN instance.advertisedAddress ELSE Told(args3, override)
    BY <1>8, <1>5, <2>1, OptionalInOrder
  <2> QED BY <1>4, <2>2
<1> HIDE DEF args4
<1>10. /\ args5 \in Seq(Argument)
      /\ \A override \in DOMAIN Flags :
           Told(args5, override) =
             IF override = "connectPort" /\ IsPort(instance.connectPort)
               THEN instance.connectPort ELSE Told(args4, override)
  <2>1. args5 \in Seq(Argument)
    BY <1>3, <1>9
  <2> QED BY <1>3, <1>4, <1>9, <2>1, ParsesInOrder
<1> HIDE DEF args5
<1>11. \A override \in DOMAIN Flags :
         Told(args6, override) =
           IF override = "listenPort" /\ IsPort(instance.listenPort)
             THEN instance.listenPort ELSE Told(args5, override)
  BY <1>3, <1>4, <1>10, ParsesInOrder
<1> HIDE DEF args6, Told
<1>12. {"hostingMode", "connectHost", "connectPort", "listenPort", "bindAddress",
        "advertisedAddress"} = DOMAIN Flags
  BY DEF Flags
<1>13. /\ Told(args6, "hostingMode") = instance.hostingMode
       /\ Told(args6, "connectHost") =
            IF instance.connectHost = NoAddress THEN Unset ELSE instance.connectHost
       /\ Told(args6, "connectPort") =
            IF IsPort(instance.connectPort) THEN instance.connectPort ELSE Unset
       /\ Told(args6, "listenPort") =
            IF IsPort(instance.listenPort) THEN instance.listenPort ELSE Unset
       /\ Told(args6, "bindAddress") =
            IF instance.bindAddress = NoAddress THEN Unset ELSE instance.bindAddress
       /\ Told(args6, "advertisedAddress") =
            IF instance.advertisedAddress = NoAddress THEN Unset ELSE instance.advertisedAddress
  <2>1. Told(args6, "hostingMode") = instance.hostingMode
    BY <1>6, <1>7, <1>8, <1>9, <1>10, <1>11, <1>12
  <2>2. Told(args6, "connectHost") =
          IF instance.connectHost = NoAddress THEN Unset ELSE instance.connectHost
    BY <1>6, <1>7, <1>8, <1>9, <1>10, <1>11, <1>12
  <2>3. Told(args6, "connectPort") =
          IF IsPort(instance.connectPort) THEN instance.connectPort ELSE Unset
    BY <1>6, <1>7, <1>8, <1>9, <1>10, <1>11, <1>12
  <2>4. Told(args6, "listenPort") =
          IF IsPort(instance.listenPort) THEN instance.listenPort ELSE Unset
    BY <1>6, <1>7, <1>8, <1>9, <1>10, <1>11, <1>12
  <2>5. Told(args6, "bindAddress") =
          IF instance.bindAddress = NoAddress THEN Unset ELSE instance.bindAddress
    BY <1>6, <1>7, <1>8, <1>9, <1>10, <1>11, <1>12
  <2>6. Told(args6, "advertisedAddress") =
          IF instance.advertisedAddress = NoAddress THEN Unset ELSE instance.advertisedAddress
    BY <1>6, <1>7, <1>8, <1>9, <1>10, <1>11, <1>12
  <2> QED BY <2>1, <2>2, <2>3, <2>4, <2>5, <2>6
<1> QED BY <1>1, <1>13, Zenon DEF Told

-----------------------------------------------------------------------------
\* The players of a play meet.

\* Where the players of a plan meet, and how many they are.
MeetingPoint(plan) == [host |-> plan.local.connectHost, port |-> plan.local.connectPort]
Players(plan) == plan.local.maxClients

ClientInstance(point, n) ==
  [Instance("Client", n) EXCEPT !.connectHost = point.host, !.connectPort = point.port]

IsChild(instance, plan) ==
  \/ instance = ClientInstance(MeetingPoint(plan), Players(plan))
  \/ /\ plan.topology = "DedicatedServer" /\ MeetingPoint(plan).host = Loopback
     /\ instance = ServerInstance("DedicatedServer", MeetingPoint(plan).port, Players(plan))

\* A plan has one meeting point: its server is there, and its clients are sent there.
IsSound(plan) ==
  /\ plan.local \in InstanceSpecs /\ plan.local.hostingMode # "DedicatedServer"
  /\ Players(plan) # 0
  /\ MeetingPoint(plan).host # NoAddress /\ IsPort(MeetingPoint(plan).port)
  /\ plan.local.hostingMode = "ListenServer" =>
       MeetingPoint(plan) = [host |-> plan.local.bindAddress, port |-> plan.local.listenPort]
  /\ Len(plan.children) \in Nat /\ DOMAIN plan.children = 1..Len(plan.children)
  /\ \A i \in DOMAIN plan.children : IsChild(plan.children[i], plan)
  /\ plan.topology = "DedicatedServer" => 1 \in DOMAIN plan.children

\* A dedicated server takes its limit from the scene.
Suits(parameters, plan) ==
  /\ parameters \in ManagerParameters
  /\ plan.topology = "DedicatedServer" => parameters.maxClients >= Players(plan)

\* What keeps to the plan, whatever version of the scene it comes from.
Keeps(wanted, plan) ==
  /\ Joins(wanted.hostingMode) => wanted.join = MeetingPoint(plan)
  /\ Hosts(wanted.hostingMode) =>
       wanted.host.bind = MeetingPoint(plan) /\ wanted.host.maxClients >= Players(plan)

\* The plan a start follows, and the parameters it writes to the scene of its children.
StartSound ==
  /\ session = [k \in Play |-> session[k]] /\ sceneFile = [k \in Play |-> sceneFile[k]]
  /\ params \in [Manager -> ManagerParameters]
  /\ outcome \in {"starting", "running"} => plays \in Play /\ IsSound(session[plays])
  /\ step # "idle" => Suits(params[manager], session[plays])
  /\ step = "server" => session[plays].topology = "DedicatedServer"
  /\ step = "children" => index + 1 \in DOMAIN session[plays].children

\* The child runs an instance of a sound plan, from a scene that suits it.
IsPlanned(child) ==
  /\ IsSound(session[child.play]) /\ child.instance \in DOMAIN session[child.play].children
  /\ Suits(sceneFile[child.play], session[child.play])

ChildrenSound ==
  /\ \A child \in running : IsPlanned(child)
  /\ \A child \in DOMAIN request :
       child \in running /\ Keeps(request[child], session[child.play])

LocalSound ==
  outcome \in {"starting", "running"} /\ manager # None =>
    \A wanted \in local[manager] : Keeps(wanted, session[plays])

Sound == StartSound /\ ChildrenSound /\ LocalSound

(***************************************************************************)
(* A play's base port is a port, whichever ports are busy.                 *)
(***************************************************************************)
LEMMA BasePort ==
  ASSUME NEW settings \in NetworkPlaySettings, NEW busy, IsFiniteSet(busy)
  PROVE  IsPort(ResolveNetworkPlayBasePort(settings, busy))
<1> DEFINE preferred == IF settings.basePort < 1024 THEN 1024
                        ELSE IF settings.basePort > 65535 THEN 65535 ELSE settings.basePort
           bindable == {n \in preferred..(preferred + Cardinality(busy)) :
                          n < 65535 /\ n \notin busy}
           first == CHOOSE n \in bindable : \A other \in bindable : n <= other
<1>1. ResolveNetworkPlayBasePort(settings, busy) =
        IF settings.autoAllocate /\ bindable # {} THEN first ELSE preferred
  BY SMT DEF ResolveNetworkPlayBasePort
<1>2. preferred \in Nat /\ 1024 <= preferred /\ preferred <= 65535
  BY DEF NetworkPlaySettings
<1>3. Cardinality(busy) \in Nat
  BY FS_CardinalityType
<1> HIDE DEF preferred
<1>4. \A n \in bindable : n \in Nat /\ 1024 <= n /\ n <= 65535
  BY <1>2, <1>3
<1>5. CASE bindable # {}
  <2> HIDE DEF bindable
  <2>1. bindable \in SUBSET Nat
    BY <1>4
  <2>2. \E n \in bindable : \A other \in bindable : n <= other
    BY <1>5, <2>1, LeastNatural
  <2>3. first \in bindable
    BY <2>2
  <2> HIDE DEF first
  <2> QED BY <1>1, <1>2, <1>4, <2>3 DEF IsPort
<1>6. CASE bindable = {}
  BY <1>1, <1>2, <1>6 DEF IsPort
<1> QED BY <1>5, <1>6

(***************************************************************************)
(* A port cast to 16 bits.                                                 *)
(***************************************************************************)
LEMMA Uint16Type == ASSUME NEW n \in Nat PROVE Uint16(n) \in Nat /\ Uint16(n) <= 65535
BY SMT DEF Uint16

LEMMA PortsReplaced ==
  ASSUME NEW parameters \in ManagerParameters, NEW connectPort \in Nat, NEW listenPort \in Nat,
         NEW config,
         config = [parameters EXCEPT !.connectPort = connectPort, !.listenPort = listenPort]
  PROVE  /\ config \in ManagerParameters /\ config.maxClients = parameters.maxClients
         /\ config.connectPort = connectPort
BY DEF ManagerParameters

LEMMA SceneConfigType ==
  ASSUME NEW parameters \in ManagerParameters, NEW config, config = SceneConfig(parameters)
  PROVE  /\ config \in ManagerParameters /\ config.maxClients = parameters.maxClients
         /\ config.connectPort <= 65535
<1> DEFINE connectPort == Uint16(parameters.connectPort)
           listenPort  == Uint16(parameters.listenPort)
           Replaced(a, b) == [parameters EXCEPT !.connectPort = a, !.listenPort = b]
<1>1. parameters.connectPort \in Nat /\ parameters.listenPort \in Nat
  BY DEF ManagerParameters
<1>2. connectPort \in Nat /\ connectPort <= 65535 /\ listenPort \in Nat
  BY <1>1, Uint16Type, SMT
<1>3. config = Replaced(connectPort, listenPort)
  BY DEF SceneConfig
<1>4. \A a, b \in Nat : config = Replaced(a, b) => config \in ManagerParameters
  BY DEF ManagerParameters
<1>5. config.maxClients = parameters.maxClients /\ config.connectPort = connectPort
  <2> HIDE DEF connectPort, listenPort
  <2> QED BY <1>3 DEF ManagerParameters
<1> HIDE DEF connectPort, listenPort, Replaced
<1> QED BY <1>2, <1>3, <1>4, <1>5, SMT

(***************************************************************************)
(* The instances of a plan, field by field.                                *)
(***************************************************************************)
LEMMA ListenServerFields ==
  ASSUME NEW port, NEW n, NEW here,
         here = [ServerInstance("ListenServer", port, n) EXCEPT
                   !.connectHost = Loopback, !.connectPort = port]
  PROVE  here = [hostingMode |-> "ListenServer", connectHost |-> Loopback,
                 connectPort |-> port, listenPort |-> port, bindAddress |-> Loopback,
                 advertisedAddress |-> Loopback, maxClients |-> n]
BY DEF ServerInstance, Instance

LEMMA LocalFields ==
  ASSUME NEW config, NEW host, NEW port, NEW n, NEW here,
         here = LocalInstance("Client", config, host, port, n)
  PROVE  here = [hostingMode |-> "Client", connectHost |-> host, connectPort |-> port,
                 listenPort |-> config.listenPort, bindAddress |-> config.bindAddress,
                 advertisedAddress |-> config.advertisedAddress, maxClients |-> n]
BY DEF LocalInstance, Instance

(***************************************************************************)
(* The plan of a play has one meeting point, and a dedicated server's      *)
(* scene has seats for its players.                                        *)
(***************************************************************************)
LEMMA PlanIsSound ==
  ASSUME NEW settings \in NetworkPlaySettings, NEW parameters \in ManagerParameters,
         NEW port, IsPort(port), IsPlannable(settings, SceneConfig(parameters)),
         NEW plan, plan = BuildNetworkPlaySessionSpec(settings, SceneConfig(parameters), port)
  PROVE  IsSound(plan) /\ Suits(parameters, plan) /\ plan.topology = settings.topology
<1> DEFINE config == SceneConfig(parameters)
           n == PlayerCount(settings)
<1>1. n \in Nat \ {0}
  BY DEF NetworkPlaySettings, PlayerCount
<1>2. /\ config \in ManagerParameters /\ config.maxClients = parameters.maxClients
      /\ config.connectPort \in Nat /\ config.connectPort <= 65535
  BY SceneConfigType DEF ManagerParameters
<1>3. settings.topology \in {"ListenServer", "DedicatedServer", "ClientAttach"}
  BY DEF NetworkPlaySettings
<1>4. port \in Nat /\ Loopback \in Address /\ Loopback # NoAddress /\ NoAddress \in Address
  <2>1. Loopback # NoAddress
    BY Zenon DEF Loopback, NoAddress
  <2> QED BY <2>1, RequestsAssumption DEF IsPort
<1> HIDE DEF config, n
<1>5. ASSUME NEW point, NEW m \in Nat \ {0}
      PROVE  /\ ClientInstances(point.host, point.port, m) \in Seq({ClientInstance(point, m)})
             /\ Len(ClientInstances(point.host, point.port, m)) = m - 1
  <2>1. ClientInstances(point.host, point.port, m) =
          [i \in 1..(m - 1) |-> ClientInstance(point, m)]
    BY DEF ClientInstances, ClientInstance
  <2> QED BY <2>1
<1>6. CASE settings.topology = "ListenServer"
  <2> DEFINE point == [host |-> Loopback, port |-> port]
             clients == ClientInstances(Loopback, port, n)
             here == [ServerInstance("ListenServer", port, n) EXCEPT
                        !.connectHost = Loopback, !.connectPort = port]
  <2>1. plan = [topology |-> settings.topology, local |-> here, children |-> clients]
    BY <1>6 DEF BuildNetworkPlaySessionSpec, config, n
  <2>2. /\ here = [hostingMode |-> "ListenServer", connectHost |-> Loopback,
                   connectPort |-> port, listenPort |-> port, bindAddress |-> Loopback,
                   advertisedAddress |-> Loopback, maxClients |-> n]
    BY ListenServerFields
  <2>3. clients \in Seq({ClientInstance(point, n)}) /\ Len(clients) = n - 1
    BY <1>1, <1>5
  <2> HIDE DEF here, clients
  <2>4. MeetingPoint(plan) = point /\ Players(plan) = n
    BY <2>1, <2>2 DEF MeetingPoint, Players
  <2>5. here \in InstanceSpecs
    BY <1>1, <1>4, <2>2 DEF InstanceSpecs
  <2>6. \A i \in DOMAIN clients : IsChild(clients[i], plan)
    BY <2>3, <2>4 DEF IsChild
  <2>7. Len(clients) \in Nat /\ DOMAIN clients = 1..Len(clients)
    BY <2>3
  <2>8. IsSound(plan)
    BY <1>1, <1>4, <1>6, <2>1, <2>2, <2>4, <2>5, <2>6, <2>7 DEF IsSound
  <2> QED BY <1>6, <2>1, <2>8 DEF Suits
<1>7. CASE settings.topology = "DedicatedServer"
  <2> DEFINE point == [host |-> Loopback, port |-> port]
             server == ServerInstance("DedicatedServer", port, n)
             clients == ClientInstances(Loopback, port, n)
             launched == <<server>> \o clients
             here == LocalInstance("Client", config, Loopback, port, n)
  <2>1. plan = [topology |-> settings.topology, local |-> here, children |-> launched]
    BY <1>7 DEF BuildNetworkPlaySessionSpec, config, n
  <2>2. here = [hostingMode |-> "Client", connectHost |-> Loopback, connectPort |-> port,
                listenPort |-> config.listenPort, bindAddress |-> config.bindAddress,
                advertisedAddress |-> config.advertisedAddress, maxClients |-> n]
    BY LocalFields
  <2>3. clients \in Seq({ClientInstance(point, n)}) /\ Len(clients) = n - 1
    BY <1>1, <1>5
  <2> HIDE DEF here, server, clients
  <2>4. MeetingPoint(plan) = point /\ Players(plan) = n
    BY <2>1, <2>2 DEF MeetingPoint, Players
  <2>5. here \in InstanceSpecs
    BY <1>1, <1>2, <1>4, <2>2 DEF InstanceSpecs, ManagerParameters
  <2>6. /\ launched \in Seq({server, ClientInstance(point, n)})
        /\ Len(launched) = n
    BY <1>1, <2>3
  <2>7. \A i \in DOMAIN launched : IsChild(launched[i], plan)
    <3>1. \A i \in DOMAIN launched : launched[i] \in {server, ClientInstance(point, n)}
      BY <2>6
    <3>2. plan.topology = "DedicatedServer" /\ MeetingPoint(plan).host = Loopback
          /\ MeetingPoint(plan).port = port
      BY <1>7, <2>1, <2>4
    <3> QED BY <2>4, <3>1, <3>2 DEF IsChild, server
  <2>8. Len(launched) \in Nat /\ DOMAIN launched = 1..Len(launched) /\ 1 \in DOMAIN launched
    BY <1>1, <2>6
  <2> HIDE DEF launched
  <2>9. IsSound(plan)
    BY <1>1, <1>4, <1>7, <2>1, <2>2, <2>4, <2>5, <2>7, <2>8 DEF IsSound
  <2>10. parameters.maxClients >= n
    BY <1>2, <1>7 DEF IsPlannable, config, n
  <2> QED BY <1>7, <2>1, <2>4, <2>9, <2>10 DEF Suits
<1>8. CASE settings.topology = "ClientAttach"
  <2> DEFINE point == [host |-> config.connectHost, port |-> config.connectPort]
             clients == ClientInstances(config.connectHost, config.connectPort, n)
             here == LocalInstance("Client", config, config.connectHost, config.connectPort, n)
  <2>1. plan = [topology |-> settings.topology, local |-> here, children |-> clients]
    BY <1>8 DEF BuildNetworkPlaySessionSpec, config, n
  <2>2. here = [hostingMode |-> "Client", connectHost |-> config.connectHost,
                connectPort |-> config.connectPort, listenPort |-> config.listenPort,
                bindAddress |-> config.bindAddress,
                advertisedAddress |-> config.advertisedAddress, maxClients |-> n]
    BY LocalFields
  <2>3. clients \in Seq({ClientInstance(point, n)}) /\ Len(clients) = n - 1
    BY <1>1, <1>5
  <2> HIDE DEF here, clients
  <2>4. MeetingPoint(plan) = point /\ Players(plan) = n
    BY <2>1, <2>2 DEF MeetingPoint, Players
  <2>5. here \in InstanceSpecs
    BY <1>1, <1>2, <2>2 DEF InstanceSpecs, ManagerParameters
  <2>6. \A i \in DOMAIN clients : IsChild(clients[i], plan)
    BY <2>3, <2>4 DEF IsChild
  <2>7. Len(clients) \in Nat /\ DOMAIN clients = 1..Len(clients)
    BY <2>3
  <2>8. config.connectHost # NoAddress /\ IsPort(config.connectPort)
    BY <1>2, <1>8 DEF IsPlannable, IsPort, config
  <2>9. IsSound(plan)
    BY <1>1, <1>8, <2>1, <2>2, <2>4, <2>5, <2>6, <2>7, <2>8 DEF IsSound
  <2> QED BY <1>8, <2>1, <2>9 DEF Suits
<1> QED BY <1>3, <1>6, <1>7, <1>8

(***************************************************************************)
(* What the bootstrap configuration keeps of a manager's parameters.       *)
(***************************************************************************)
LEMMA ConfigOf ==
  ASSUME NEW parameters \in ManagerParameters,
         NEW config, config = GetSessionBootstrapConfig(parameters)
  PROVE  /\ config.role = LegacyRoleToHostingMode(parameters.role)
         /\ config.role \in HostingModes
         /\ config.connectHost = parameters.connectHost
         /\ config.bindAddress = parameters.bindAddress
         /\ config.connectPort \in Nat /\ config.listenPort \in Nat
         /\ IsPort(parameters.connectPort) => config.connectPort = parameters.connectPort
         /\ IsPort(parameters.listenPort) => config.listenPort = parameters.listenPort
         /\ config.maxClients \in Nat \ {0} /\ config.maxClients >= parameters.maxClients
<1> DEFINE clamped(n) == IF n > 65535 THEN 65535 ELSE n
<1>1. config = [parameters EXCEPT
                  !.role = LegacyRoleToHostingMode(parameters.role),
                  !.connectPort = clamped(parameters.connectPort),
                  !.listenPort = clamped(parameters.listenPort),
                  !.maxClients = IF parameters.maxClients = 0 THEN 1
                                 ELSE parameters.maxClients]
  BY DEF GetSessionBootstrapConfig
<1>2. /\ parameters = [role |-> parameters.role, connectHost |-> parameters.connectHost,
           connectPort |-> parameters.connectPort, listenPort |-> parameters.listenPort,
           bindAddress |-> parameters.bindAddress,
           advertisedAddress |-> parameters.advertisedAddress,
           maxClients |-> parameters.maxClients, joinMethod |-> parameters.joinMethod]
      /\ parameters.connectPort \in Nat /\ parameters.listenPort \in Nat
      /\ parameters.maxClients \in Nat /\ parameters.role \in NetworkRole
  BY DEF ManagerParameters
<1>3. /\ config.role = LegacyRoleToHostingMode(parameters.role)
      /\ config.connectHost = parameters.connectHost
      /\ config.bindAddress = parameters.bindAddress
      /\ config.connectPort = clamped(parameters.connectPort)
      /\ config.listenPort = clamped(parameters.listenPort)
      /\ config.maxClients = IF parameters.maxClients = 0 THEN 1 ELSE parameters.maxClients
  BY <1>1, <1>2
<1>4. LegacyRoleToHostingMode(parameters.role) \in HostingModes
  BY <1>2 DEF LegacyRoleToHostingMode, NetworkRole, HostingModes
<1> QED BY <1>2, <1>3, <1>4 DEF IsPort

(***************************************************************************)
(* Whatever scene suits the plan, a child launched for it hosts or joins   *)
(* at the meeting point of the plan, a server with seats for its players.  *)
(***************************************************************************)
LEMMA ChildKeeps ==
  ASSUME NEW plan, IsSound(plan), NEW instance, IsChild(instance, plan),
         NEW parameters, Suits(parameters, plan)
  PROVE  Keeps(Requested(parameters, Arguments(instance)), plan)
<1> DEFINE config == GetSessionBootstrapConfig(parameters)
           told == ParseCommandLineOverrides(Arguments(instance))
           wanted == Requested(parameters, Arguments(instance))
           point == MeetingPoint(plan)
           n == Players(plan)
<1>1. /\ point = [host |-> point.host, port |-> point.port]
      /\ point.host \in Address \ {NoAddress} /\ IsPort(point.port) /\ n \in Nat \ {0}
  BY DEF IsSound, InstanceSpecs, MeetingPoint, Players
<1>2. /\ wanted.hostingMode = HostingMode(config, told)
      /\ wanted.host = BuildHostRequest(config, told)
      /\ wanted.join = BuildJoinRequest(config, told)
  BY DEF Requested
<1>3. config.maxClients \in Nat /\ config.maxClients >= parameters.maxClients
  BY ConfigOf DEF Suits
<1>4. NoAddress \in Address /\ Loopback \in Address /\ 0 \in Nat
  BY RequestsAssumption
<1>5. /\ \A address \in Address : address # Unset
      /\ \A given \in HostingModes : given # Unset
      /\ \A port : IsPort(port) => port # Unset
  BY RequestsAssumption DEF IsPort
<1> HIDE DEF config, told, wanted, point, n
<1>6. CASE instance = ClientInstance(point, n)
  <2>1. instance = [hostingMode |-> "Client", connectHost |-> point.host,
          connectPort |-> point.port, listenPort |-> 0, bindAddress |-> NoAddress,
          advertisedAddress |-> NoAddress, maxClients |-> n]
    BY <1>6 DEF ClientInstance, Instance
  <2>2. instance \in InstanceSpecs
    BY <1>1, <1>4, <2>1 DEF InstanceSpecs, IsPort
  <2>3. /\ told["hostingMode"] = "Client" /\ told["connectHost"] = point.host
        /\ told["connectPort"] = point.port
    BY <1>1, <2>1, <2>2, ChildrenAreTold DEF told
  <2>4. wanted.hostingMode = "Client"
    BY <1>2, <1>5, <2>3 DEF HostingMode, Over, HostingModes
  <2>5. wanted.join = [host |-> point.host, port |-> point.port]
    BY <1>1, <1>2, <1>5, <2>3, <2>4 DEF BuildJoinRequest, Over
  <2> QED BY <1>1, <2>4, <2>5 DEF Keeps, Hosts, wanted, point
<1>7. CASE /\ plan.topology = "DedicatedServer" /\ point.host = Loopback
           /\ instance = ServerInstance("DedicatedServer", point.port, n)
  <2>1. instance = [hostingMode |-> "DedicatedServer", connectHost |-> NoAddress,
          connectPort |-> 0, listenPort |-> point.port, bindAddress |-> Loopback,
          advertisedAddress |-> Loopback, maxClients |-> n]
    BY <1>7 DEF ServerInstance, Instance
  <2>2. instance \in InstanceSpecs
    BY <1>1, <1>4, <2>1 DEF InstanceSpecs, IsPort
  <2>3. Loopback # NoAddress
    BY Zenon DEF Loopback, NoAddress
  <2>4. /\ told["hostingMode"] = "DedicatedServer" /\ told["bindAddress"] = Loopback
        /\ told["listenPort"] = point.port
    BY <1>1, <2>1, <2>2, <2>3, ChildrenAreTold DEF told
  <2>5. wanted.hostingMode = "DedicatedServer"
    BY <1>2, <1>5, <2>4 DEF HostingMode, Over, HostingModes
  <2>6. wanted.host.bind = [host |-> point.host, port |-> point.port]
    BY <1>1, <1>2, <1>4, <1>5, <1>7, <2>4 DEF BuildHostRequest, Over
  <2>7. wanted.host.maxClients >= n
    <3>1. wanted.host.maxClients = config.maxClients
      BY <1>2 DEF BuildHostRequest
    <3>2. parameters.maxClients \in Nat /\ parameters.maxClients >= n
      BY <1>7 DEF Suits, ManagerParameters, n
    <3> QED BY <1>1, <1>3, <3>1, <3>2
  <2> QED BY <1>1, <2>5, <2>6, <2>7 DEF Keeps, Joins, wanted, point, n
<1> QED BY <1>6, <1>7 DEF IsChild, point, n

(***************************************************************************)
(* ConfigureLocalNetworkManager sets all but how sessions are joined.      *)
(***************************************************************************)
LEMMA ConfiguredFields ==
  ASSUME NEW here, here.maxClients # 0, NEW before \in ManagerParameters,
         before = params[manager], NEW after, after = Configured(here)
  PROVE  after = [role |-> CASE here.hostingMode = "ListenServer" -> "Host"
                             [] here.hostingMode = "DedicatedServer" -> "DedicatedServer"
                             [] OTHER -> "Client",
                  connectHost |-> here.connectHost, connectPort |-> here.connectPort,
                  listenPort |-> here.listenPort, bindAddress |-> here.bindAddress,
                  advertisedAddress |-> here.advertisedAddress,
                  maxClients |-> here.maxClients, joinMethod |-> before.joinMethod]
BY DEF Configured, ManagerParameters

(***************************************************************************)
(* The editor's own session, from the parameters it overrides, keeps to    *)
(* the plan, and so do the parameters: they suit it.                       *)
(***************************************************************************)
LEMMA LocalKeeps ==
  ASSUME NEW plan, IsSound(plan), params \in [Manager -> ManagerParameters],
         manager \in Manager
  PROVE  /\ Keeps(Requested(Configured(plan.local), <<>>), plan)
         /\ Suits(Configured(plan.local), plan)
<1> DEFINE before == params[manager]
           here == plan.local
           parameters == Configured(here)
           config == GetSessionBootstrapConfig(parameters)
           told == ParseCommandLineOverrides(<<>>)
           wanted == Requested(parameters, <<>>)
           point == MeetingPoint(plan)
<1>1. before \in ManagerParameters /\ here \in InstanceSpecs
  BY DEF IsSound
<1>2. /\ parameters.role \in NetworkRole
      /\ here.hostingMode = "Client" => parameters.role = "Client"
      /\ here.hostingMode = "ListenServer" => parameters.role = "Host"
      /\ parameters.connectHost = here.connectHost /\ parameters.connectPort = here.connectPort
      /\ parameters.listenPort = here.listenPort /\ parameters.bindAddress = here.bindAddress
      /\ parameters.maxClients = here.maxClients
      /\ parameters \in ManagerParameters
  <2>1. before.joinMethod \in JoinMethod
    BY <1>1 DEF ManagerParameters
  <2>2. here.maxClients # 0
    BY DEF IsSound, Players
  <2> DEFINE role == CASE here.hostingMode = "ListenServer" -> "Host"
                       [] here.hostingMode = "DedicatedServer" -> "DedicatedServer"
                       [] OTHER -> "Client"
  <2>3. parameters = [role |-> role, connectHost |-> here.connectHost,
           connectPort |-> here.connectPort, listenPort |-> here.listenPort,
           bindAddress |-> here.bindAddress, advertisedAddress |-> here.advertisedAddress,
           maxClients |-> here.maxClients, joinMethod |-> before.joinMethod]
    BY <1>1, <2>2, ConfiguredFields
  <2>4. /\ role \in NetworkRole
        /\ here.hostingMode = "Client" => role = "Client"
        /\ here.hostingMode = "ListenServer" => role = "Host"
    BY DEF NetworkRole
  <2>5. /\ here.connectHost \in Address /\ here.connectPort \in Nat /\ here.listenPort \in Nat
        /\ here.bindAddress \in Address /\ here.advertisedAddress \in Address
        /\ here.maxClients \in Nat
    BY <1>1 DEF InstanceSpecs
  <2> HIDE DEF role, parameters, before, here
  <2>6. parameters \in ManagerParameters
    BY <2>1, <2>3, <2>4, <2>5 DEF ManagerParameters
  <2> QED BY <2>3, <2>4, <2>6
<1>3. /\ told["hostingMode"] = Unset /\ told["connectHost"] = Unset
      /\ told["connectPort"] = Unset /\ told["listenPort"] = Unset
      /\ told["bindAddress"] = Unset
  BY ParseNothing DEF Flags
<1>4. /\ wanted.hostingMode = HostingMode(config, told)
      /\ wanted.host = BuildHostRequest(config, told)
      /\ wanted.join = BuildJoinRequest(config, told)
  BY DEF Requested
<1>5. /\ point = [host |-> here.connectHost, port |-> here.connectPort]
      /\ here.connectHost # NoAddress /\ IsPort(here.connectPort)
      /\ here.hostingMode \in {"Client", "ListenServer"}
      /\ here.hostingMode = "ListenServer" =>
           point = [host |-> here.bindAddress, port |-> here.listenPort]
      /\ here.maxClients \in Nat \ {0}
  BY <1>1 DEF IsSound, MeetingPoint, Players, InstanceSpecs
<1> HIDE DEF parameters, told, wanted, here, point
<1>6. /\ config.role = LegacyRoleToHostingMode(parameters.role)
      /\ config.connectHost = parameters.connectHost
      /\ config.bindAddress = parameters.bindAddress
      /\ IsPort(parameters.connectPort) => config.connectPort = parameters.connectPort
      /\ IsPort(parameters.listenPort) => config.listenPort = parameters.listenPort
      /\ config.maxClients \in Nat /\ config.maxClients >= parameters.maxClients
  BY <1>2, ConfigOf
<1> HIDE DEF config
<1>7. wanted.join = point
  <2>1. wanted.join.host = here.connectHost
    BY <1>2, <1>3, <1>4, <1>5, <1>6 DEF BuildJoinRequest, Over
  <2>2. wanted.join.port = here.connectPort
    <3>1. config.connectPort # 0
      BY <1>2, <1>5, <1>6 DEF IsPort
    <3> QED BY <1>2, <1>3, <1>4, <1>5, <1>6, <3>1 DEF BuildJoinRequest, Over
  <2>3. wanted.join = [host |-> wanted.join.host, port |-> wanted.join.port]
    BY <1>4 DEF BuildJoinRequest
  <2> QED BY <1>5, <2>1, <2>2, <2>3
<1>8. CASE here.hostingMode = "Client"
  <2>1. wanted.hostingMode = "Client"
    BY <1>2, <1>3, <1>4, <1>6, <1>8 DEF HostingMode, Over, LegacyRoleToHostingMode
  <2>2. Keeps(wanted, plan)
    BY <1>7, <2>1 DEF Keeps, Hosts, point
  <2> QED BY <1>2, <1>5, <2>2 DEF Suits, Players, here, wanted, parameters
<1>9. CASE here.hostingMode = "ListenServer"
  <2>1. wanted.hostingMode = "ListenServer"
    BY <1>2, <1>3, <1>4, <1>6, <1>9 DEF HostingMode, Over, LegacyRoleToHostingMode
  <2>2. point.port = here.listenPort /\ point.port = here.connectPort
    BY <1>5, <1>9
  <2>3. wanted.host.bind = point
    <3>1. config.listenPort = here.listenPort /\ config.bindAddress = here.bindAddress
      BY <1>2, <1>5, <1>6, <2>2
    <3> QED BY <1>3, <1>4, <1>5, <1>9, <3>1 DEF BuildHostRequest, Over
  <2>4. wanted.host.maxClients >= here.maxClients
    BY <1>2, <1>4, <1>6 DEF BuildHostRequest
  <2>5. Keeps(wanted, plan)
    BY <1>7, <2>1, <2>3, <2>4 DEF Keeps, Players, point, here
  <2> QED BY <1>2, <1>5, <2>5 DEF Suits, Players, here, wanted, parameters
<1> QED BY <1>5, <1>8, <1>9

-----------------------------------------------------------------------------
\* A plan stays sound while it is carried out.

(***************************************************************************)
(* The managers have the parameters of one, and so has what is saved.      *)
(***************************************************************************)
LEMMA SavedTyped == Inv /\ saved # None => saved \in ManagerParameters
BY EditorAssumption DEF Inv, Typed, OverridesRestored

(***************************************************************************)
(* A process that runs is of a play already started.                       *)
(***************************************************************************)
LEMMA RunningOfPlays ==
  ASSUME Inv, NEW child \in running
  PROVE  child.play \in Play /\ child.play <= plays /\ plays \in Nat
<1>1. child \in Processes /\ child \in children \cup spared
  BY DEF Inv, ProcessesOfPlays, NoOrphans
<1>2. child.play <= plays
  BY <1>1 DEF Inv, ProcessesOfPlays
<1>3. plays \in Nat
  BY EditorAssumption DEF Inv, Typed
<1> QED BY <1>1, <1>2, <1>3 DEF Processes

(***************************************************************************)
(* Before the first play nothing is planned.                               *)
(***************************************************************************)
LEMMA InitSound == Init => Sound
<1> SUFFICES ASSUME Init PROVE Sound
  OBVIOUS
<1>1. params \in [Manager -> ManagerParameters]
  BY EditorAssumption DEF Init
<1>2. StartSound
  BY <1>1 DEF Init, StartSound
<1>3. ChildrenSound /\ LocalSound
  BY DEF Init, ChildrenSound, LocalSound
<1> QED BY <1>2, <1>3 DEF Sound

(***************************************************************************)
(* A start plans a sound session and writes scenes that suit it.           *)
(***************************************************************************)
LEMMA StartSoundStep == Inv /\ Sound /\ Next => StartSound'
<1> SUFFICES ASSUME Inv, Sound, Next PROVE StartSound'
  OBVIOUS
<1>0. /\ session = [k \in Play |-> session[k]] /\ sceneFile = [k \in Play |-> sceneFile[k]]
      /\ params \in [Manager -> ManagerParameters] /\ plays \in Nat /\ index \in Nat
      /\ MaxPlays \in Nat
  BY EditorAssumption DEF Inv, Typed, Sound, StartSound
<1>1. RestoreNetworkManagerOverrides => params' \in [Manager -> ManagerParameters]
  BY <1>0, SavedTyped DEF RestoreNetworkManagerOverrides
<1>2. WriteChildManifestFile => sceneFile' = [k \in Play |-> sceneFile'[k]]
  BY <1>0 DEF WriteChildManifestFile
<1>3. ASSUME NEW settings \in PlaySettings, NEW busy \in BusyPorts, OnPlay(settings, busy)
      PROVE  StartSound'
  <2>1. /\ step = "idle" /\ plays' = plays + 1 /\ plays' \in Play /\ sceneFile' = sceneFile
        /\ saved = None /\ params' = params
    <3>1. mode = "stopped" /\ step = "idle" /\ plays' = plays + 1 /\ plays < MaxPlays
          /\ sceneFile' = sceneFile
      BY <1>3 DEF OnPlay
    <3>2. saved = None
      BY <3>1 DEF Inv, OverridesRestored
    <3>3. params' = params
      BY <1>3, <3>2
      DEF OnPlay, StartNetworkPlaySession, StartSingleProcessSession,
          RestoreNetworkManagerOverrides
    <3>4. plays' \in Play
      BY <1>0, <3>1 DEF Play
    <3> QED BY <3>1, <3>2, <3>3, <3>4
  <2>2. CASE outcome' \in {"failed", "single"} /\ session' = session /\ step' = step
    BY <1>0, <2>1, <2>2 DEF StartSound
  <2>3. ASSUME settings.enabled, CanResolve,
               IsPlannable(settings, SceneConfig(params[scene[1]])),
               Planned(settings,
                 BuildNetworkPlaySessionSpec(settings, SceneConfig(params[scene[1]]),
                                             ResolveNetworkPlayBasePort(settings, busy))),
               outcome' = "starting"
        PROVE  StartSound'
    <3> DEFINE port == ResolveNetworkPlayBasePort(settings, busy)
               plan == BuildNetworkPlaySessionSpec(settings, SceneConfig(params[scene[1]]), port)
    <3>1. scene[1] \in Manager /\ manager' = scene[1]
      BY <2>3, SceneManagers DEF CanResolve, Planned, Inv, Typed
    <3>2. settings \in NetworkPlaySettings /\ params[scene[1]] \in ManagerParameters
          /\ IsFiniteSet(busy)
      BY <1>0, <3>1, EditorAssumption
    <3>3. IsPort(port)
      BY <3>2, BasePort
    <3>4. /\ IsSound(plan) /\ Suits(params[scene[1]], plan)
          /\ plan.topology = settings.topology
      BY <2>3, <3>2, <3>3, PlanIsSound
    <3>5. /\ session' = [session EXCEPT ![plays'] = plan]
          /\ step' = IF settings.topology = "DedicatedServer" THEN "server" ELSE "local"
      BY <2>1, <2>3 DEF Planned
    <3> HIDE DEF plan, port
    <3>6. session' = [k \in Play |-> session'[k]] /\ session'[plays'] = plan
      BY <1>0, <2>1, <3>5
    <3> QED BY <1>0, <2>1, <3>1, <3>4, <3>5, <3>6 DEF StartSound
  <2> QED BY <1>3, <2>1, <2>2, <2>3
          DEF OnPlay, StartNetworkPlaySession, StartSingleProcessSession
<1>4. CASE StartServer
  <2>1. /\ step = "server" /\ UNCHANGED <<plays, params, session>>
        /\ sceneFile' = [k \in Play |-> sceneFile'[k]]
    BY <1>0, <1>2, <1>4 DEF StartServer, ServerFails, ServerStarts
  <2>2. CASE ServerFails
    BY <1>0, <2>1, <2>2 DEF ServerFails, StartSound
  <2>3. CASE ServerStarts
    BY <1>0, <2>1, <2>3 DEF ServerStarts, Sound, StartSound
  <2> QED BY <1>4, <2>2, <2>3 DEF StartServer
<1>5. CASE StartLocal
  <2>1. /\ step = "local" /\ UNCHANGED <<plays, sceneFile, session>>
        /\ manager \in Manager /\ IsSound(session[plays]) /\ plays \in Play
    BY <1>5 DEF StartLocal, Inv, StepsInOrder, Sound, StartSound
  <2>2. CASE LocalFails
    <3>1. params' \in [Manager -> ManagerParameters]
      BY <1>0, <2>1, <2>2, SavedTyped DEF LocalFails
    <3> QED BY <1>0, <2>1, <2>2, <3>1 DEF LocalFails, StartSound
  <2>3. CASE LocalStarts
    <3> DEFINE configured == Configured(session[plays].local)
    <3>1. Suits(configured, session[plays])
      BY <1>0, <2>1, LocalKeeps
    <3>2. params' = [params EXCEPT ![manager] = configured] /\ manager' = manager
          /\ index' = index
      BY <2>3 DEF LocalStarts, Plan
    <3>3. step' = "children" => index < Len(session[plays].children)
      BY <2>3 DEF LocalStarts, StepAfter, Plan
    <3>4. step' \in {"idle", "children"}
      BY <2>3 DEF LocalStarts, StepAfter
    <3> HIDE DEF configured
    <3>5. params' \in [Manager -> ManagerParameters] /\ params'[manager'] = configured
      BY <1>0, <2>1, <3>1, <3>2 DEF Suits
    <3>6. step' = "children" => index' + 1 \in DOMAIN session[plays].children
      BY <1>0, <2>1, <3>2, <3>3 DEF IsSound
    <3> QED BY <1>0, <2>1, <3>1, <3>4, <3>5, <3>6 DEF StartSound
  <2> QED BY <1>5, <2>2, <2>3 DEF StartLocal
<1>6. CASE StartChild
  <2>1. /\ step = "children" /\ UNCHANGED <<plays, session>>
        /\ sceneFile' = [k \in Play |-> sceneFile'[k]]
        /\ IsSound(session[plays]) /\ plays \in Play
    BY <1>0, <1>2, <1>6
    DEF StartChild, ChildFails, ChildStarts, Inv, StepsInOrder, Sound, StartSound
  <2>2. CASE ChildFails
    BY <1>0, <1>1, <2>1, <2>2 DEF ChildFails, LetManagerGo, StartSound
  <2>3. CASE ChildStarts
    <3>1. UNCHANGED <<params, manager>> /\ index' = index + 1 /\ step' \in {"idle", "children"}
      BY <2>3 DEF ChildStarts, LaunchChildProcess, StepAfter
    <3>2. step' = "children" => index' < Len(session[plays].children)
      BY <2>3, <3>1 DEF ChildStarts, StepAfter, Plan
    <3>3. step' = "children" => index' + 1 \in DOMAIN session[plays].children
      BY <1>0, <2>1, <3>1, <3>2 DEF IsSound
    <3> QED BY <1>0, <2>1, <3>1, <3>3 DEF Sound, StartSound
  <2> QED BY <1>6, <2>2, <2>3 DEF StartChild
<1>7. CASE Frame \/ OnStop \/ OnUnload \/ Destroy
  <2>1. step = "idle" /\ UNCHANGED <<step, plays, session, sceneFile>>
        /\ outcome' \in {outcome, "aborted"}
    BY <1>7 DEF Frame, AbortPlay, OnStop, OnUnload, Destroy
  <2>2. params' \in [Manager -> ManagerParameters]
    BY <1>0, <1>1, <1>7 DEF Frame, AbortPlay, OnStop, OnUnload, Destroy, LetManagerGo
  <2> QED BY <1>0, <2>1, <2>2 DEF Sound, StartSound
<1>8. ASSUME NEW child \in running, ChildBoots(child) \/ ChildExits(child)
      PROVE  StartSound'
  BY <1>8 DEF Sound, StartSound, ChildBoots, ChildExits
<1>9. ASSUME NEW managers \in Scenes, NEW m \in Manager, NEW given \in Parameters,
             EditScene(managers, m, given)
      PROVE  StartSound'
  <2>1. params' \in [Manager -> ManagerParameters]
    BY <1>0, <1>9, EditorAssumption DEF EditScene
  <2>2. step = "idle" /\ UNCHANGED <<step, plays, session, sceneFile, outcome>>
    BY <1>9 DEF EditScene, Inv, StepsInOrder
  <2> QED BY <1>0, <2>1, <2>2 DEF Sound, StartSound
<1> QED BY <1>3, <1>4, <1>5, <1>6, <1>7, <1>8, <1>9 DEF Next, Starting

(***************************************************************************)
(* A scene written again during a start still suits the children that run. *)
(***************************************************************************)
LEMMA StillPlanned ==
  ASSUME Inv, Sound, NEW child \in running,
         \A k \in Play : k <= plays => session'[k] = session[k],
         sceneFile' = sceneFile \/ (step # "idle" /\ WriteChildManifestFile)
  PROVE  IsPlanned(child)' /\ session'[child.play] = session[child.play]
<1>1. child.play \in Play /\ child.play <= plays
  BY RunningOfPlays
<1>2. IsPlanned(child) /\ session'[child.play] = session[child.play]
  BY <1>1 DEF Sound, ChildrenSound
<1>3. CASE sceneFile' = sceneFile
  BY <1>2, <1>3 DEF IsPlanned
<1>4. CASE step # "idle" /\ WriteChildManifestFile
  <2>1. sceneFile' = [sceneFile EXCEPT ![plays] = params[manager]]
        /\ sceneFile = [k \in Play |-> sceneFile[k]]
        /\ Suits(params[manager], session[plays])
    BY <1>4 DEF WriteChildManifestFile, Sound, StartSound
  <2>2. sceneFile'[child.play] =
          IF child.play = plays THEN params[manager] ELSE sceneFile[child.play]
    BY <1>1, <2>1
  <2> QED BY <1>2, <2>1, <2>2 DEF IsPlanned
<1> QED BY <1>2, <1>3, <1>4

(***************************************************************************)
(* Whatever ends or is let go, the processes that stay keep to their plan. *)
(***************************************************************************)
LEMMA ChildrenStay ==
  ASSUME Inv, Sound, running' \subseteq running,
         request' = Reading(running') \/ (request' = request /\ running' = running),
         \A k \in Play : k <= plays => session'[k] = session[k],
         sceneFile' = sceneFile \/ (step # "idle" /\ WriteChildManifestFile)
  PROVE  ChildrenSound'
<1>1. \A child \in running : IsPlanned(child)' /\ session'[child.play] = session[child.play]
  BY StillPlanned
<1>2. \A child \in DOMAIN request :
        child \in running /\ Keeps(request[child], session[child.play])
  BY DEF Sound, ChildrenSound
<1>3. \A child \in DOMAIN request' :
        child \in DOMAIN request /\ child \in running' /\ request'[child] = request[child]
  BY <1>2 DEF Reading
<1> QED BY <1>1, <1>2, <1>3 DEF ChildrenSound

(***************************************************************************)
(* A process launched for the plan finds a scene that suits it.            *)
(***************************************************************************)
LEMMA ChildLaunched ==
  ASSUME Inv, Sound, step # "idle", WriteChildManifestFile, UNCHANGED <<session, request>>,
         NEW i \in DOMAIN session[plays].children,
         running' = running \cup {Process(plays, i)}
  PROVE  ChildrenSound'
<1>1. \A child \in running : IsPlanned(child)' /\ session'[child.play] = session[child.play]
  BY StillPlanned
<1>2. plays \in Play /\ IsSound(session[plays]) /\ Suits(params[manager], session[plays])
      /\ sceneFile = [k \in Play |-> sceneFile[k]]
  BY DEF Inv, StepsInOrder, Sound, StartSound
<1>3. sceneFile'[plays] = params[manager]
  BY <1>2 DEF WriteChildManifestFile
<1>4. \A child : child = Process(plays, i) => child.play = plays /\ child.instance = i
  BY DEF Process
<1>5. \A child : child = Process(plays, i) => IsPlanned(child)'
  BY <1>2, <1>3, <1>4 DEF IsPlanned
<1>6. \A child \in running' : IsPlanned(child)'
  BY <1>1, <1>5
<1> QED BY <1>1, <1>6 DEF Sound, ChildrenSound

(***************************************************************************)
(* Every process is launched for its plan and keeps to it once it has      *)
(* read its scene, whenever it does.                                       *)
(***************************************************************************)
LEMMA ChildrenSoundStep == Inv /\ Sound /\ Next => ChildrenSound'
<1> SUFFICES ASSUME Inv, Sound, Next PROVE ChildrenSound'
  OBVIOUS
<1>1. ASSUME NEW force \in BOOLEAN, TerminateTrackedChildProcesses(force)
      PROVE  running' \subseteq running /\ request' = Reading(running')
  BY <1>1 DEF TerminateTrackedChildProcesses
<1>2. ASSUME NEW settings \in PlaySettings, NEW busy \in BusyPorts, OnPlay(settings, busy)
      PROVE  ChildrenSound'
  <2>1. /\ running' \subseteq running /\ sceneFile' = sceneFile
        /\ request' = Reading(running') \/ (request' = request /\ running' = running)
    BY <1>1, <1>2 DEF OnPlay, StartNetworkPlaySession, StartSingleProcessSession
  <2>2. \A k \in Play : k <= plays => session'[k] = session[k]
    <3>1. plays \in Nat /\ session = [k \in Play |-> session[k]] /\ Play \subseteq Nat
      BY EditorAssumption DEF Inv, Typed, Sound, StartSound, Play
    <3>2. session' = session \/ \E plan : session' = [session EXCEPT ![plays + 1] = plan]
      BY <1>2 DEF OnPlay, StartNetworkPlaySession, StartSingleProcessSession, Planned
    <3> QED BY <3>1, <3>2
  <2> QED BY <2>1, <2>2, ChildrenStay
<1>3. CASE StartServer
  <2>1. step = "server" /\ session' = session /\ 1 \in DOMAIN session[plays].children
    BY <1>3 DEF StartServer, Inv, StepsInOrder, Sound, StartSound, IsSound
  <2>2. CASE ServerFails
    <3>1. running' \subseteq running /\ request' = Reading(running')
      BY <1>1, <2>2 DEF ServerFails
    <3> QED BY <2>1, <2>2, <3>1, ChildrenStay DEF ServerFails
  <2>3. CASE ServerStarts
    BY <2>1, <2>3, ChildLaunched DEF ServerStarts, LaunchChildProcess
  <2> QED BY <1>3, <2>2, <2>3 DEF StartServer
<1>4. CASE StartLocal
  <2>1. /\ session' = session /\ sceneFile' = sceneFile /\ running' \subseteq running
        /\ request' = Reading(running') \/ (request' = request /\ running' = running)
    BY <1>1, <1>4 DEF StartLocal, LocalFails, LocalStarts
  <2> QED BY <2>1, ChildrenStay
<1>5. CASE StartChild
  <2>1. step = "children" /\ session' = session
        /\ index + 1 \in DOMAIN session[plays].children
    BY <1>5 DEF StartChild, Sound, StartSound
  <2>2. CASE ChildFails
    <3>1. running' \subseteq running /\ request' = Reading(running')
      BY <1>1, <2>2 DEF ChildFails
    <3> QED BY <2>1, <2>2, <3>1, ChildrenStay DEF ChildFails
  <2>3. CASE ChildStarts
    BY <2>1, <2>3, ChildLaunched DEF ChildStarts, LaunchChildProcess
  <2> QED BY <1>5, <2>2, <2>3 DEF StartChild
<1>6. CASE Frame \/ OnStop \/ OnUnload \/ Destroy
  <2>1. session' = session /\ sceneFile' = sceneFile
    BY <1>6 DEF Frame, OnStop, OnUnload, Destroy
  <2>2. CASE Frame
    <3>1. /\ running' \subseteq running
          /\ request' = Reading(running') \/ (request' = request /\ running' = running)
      BY <1>1, <2>2 DEF Frame, AbortPlay
    <3> QED BY <2>1, <3>1, ChildrenStay
  <2>3. CASE OnStop
    <3>1. TerminateTrackedChildProcesses(TRUE) \/ TerminateTrackedChildProcesses(FALSE)
      <4>1. keepAlive \in BOOLEAN /\ TerminateTrackedChildProcesses(~keepAlive)
        BY <2>3, Zenon DEF OnStop, Inv, Typed
      <4>2. ~keepAlive = TRUE \/ ~keepAlive = FALSE
        BY <4>1, Zenon
      <4> QED BY <4>1, <4>2, Zenon DEF TerminateTrackedChildProcesses
    <3>2. running' \subseteq running /\ request' = Reading(running')
      BY <1>1, <3>1
    <3> QED BY <2>1, <3>2, ChildrenStay
  <2>4. CASE OnUnload \/ Destroy
    <3>1. running' \subseteq running /\ request' = Reading(running')
      BY <1>1, <2>4 DEF OnUnload, Destroy
    <3> QED BY <2>1, <3>1, ChildrenStay
  <2> QED BY <1>6, <2>2, <2>3, <2>4
<1>7. ASSUME NEW child \in running, ChildBoots(child) PROVE ChildrenSound'
  <2> DEFINE plan == session[child.play]
             asked == Requested(sceneFile[child.play], Arguments(plan.children[child.instance]))
  <2>1. IsPlanned(child)
    BY DEF Sound, ChildrenSound
  <2>2. Keeps(asked, plan)
    <3>1. IsSound(plan) /\ IsChild(plan.children[child.instance], plan)
          /\ Suits(sceneFile[child.play], plan)
      BY <2>1 DEF IsPlanned, IsSound
    <3> HIDE DEF plan
    <3> QED BY <3>1, ChildKeeps
  <2>3. /\ UNCHANGED <<running, session, sceneFile>>
        /\ request' = [c \in DOMAIN request \cup {child} |->
                         IF c = child THEN asked ELSE request[c]]
    BY <1>7 DEF ChildBoots
  <2>4. \A c \in running' : IsPlanned(c)'
    BY <2>3 DEF Sound, ChildrenSound, IsPlanned
  <2> HIDE DEF asked
  <2>5. \A c \in DOMAIN request' : c \in running' /\ Keeps(request'[c], session'[c.play])
    BY <2>2, <2>3 DEF Sound, ChildrenSound
  <2> QED BY <2>4, <2>5 DEF ChildrenSound
<1>8. ASSUME NEW child \in running, ChildExits(child) PROVE ChildrenSound'
  <2>1. /\ running' \subseteq running /\ request' = Reading(running')
        /\ UNCHANGED <<session, sceneFile>>
    BY <1>8 DEF ChildExits
  <2> QED BY <2>1, ChildrenStay
<1>9. ASSUME NEW managers \in Scenes, NEW m \in Manager, NEW given \in Parameters,
             EditScene(managers, m, given)
      PROVE  ChildrenSound'
  BY <1>9, ChildrenStay DEF EditScene
<1> QED BY <1>2, <1>3, <1>4, <1>5, <1>6, <1>7, <1>8, <1>9 DEF Next, Starting

(***************************************************************************)
(* The editor's own session keeps to the plan of its play.                 *)
(***************************************************************************)
LEMMA LocalSoundStep == Inv /\ Sound /\ Next => LocalSound'
<1> SUFFICES ASSUME Inv, Sound, Next PROVE LocalSound'
  OBVIOUS
<1>1. ASSUME NEW settings \in PlaySettings, NEW busy \in BusyPorts, OnPlay(settings, busy)
      PROVE  LocalSound'
  <2>1. CASE outcome' \in {"failed", "single"}
    BY <2>1 DEF LocalSound
  <2>2. CASE local' = local /\ manager' = scene[1] /\ Len(scene) = 1
    <3>1. mode = "stopped"
      BY <1>1 DEF OnPlay
    <3>2. scene[1] \in Manager /\ \A m \in Manager : local[m] = {}
      BY <2>2, <3>1, SceneManagers DEF Inv, Typed, LocalSessions
    <3> QED BY <2>2, <3>2 DEF LocalSound
  <2> QED BY <1>1, <2>1, <2>2
          DEF OnPlay, StartNetworkPlaySession, StartSingleProcessSession, Planned, CanResolve
<1>2. CASE StartServer
  BY <1>2 DEF StartServer, ServerFails, ServerStarts, Sound, LocalSound
<1>3. CASE StartLocal
  <2>1. CASE LocalFails
    BY <2>1 DEF LocalFails, LocalSound
  <2>2. CASE LocalStarts
    <3> DEFINE asked == Requested(Configured(session[plays].local), <<>>)
    <3>1. manager \in Manager /\ UNCHANGED <<manager, session, plays>>
          /\ local' = [local EXCEPT ![manager] = {asked}]
          /\ local = [m \in Manager |-> local[m]]
      BY <1>3, <2>2 DEF StartLocal, LocalStarts, Plan, Inv, Typed, StepsInOrder
    <3>2. IsSound(session[plays]) /\ params \in [Manager -> ManagerParameters]
      BY <1>3 DEF StartLocal, Inv, StepsInOrder, Sound, StartSound
    <3>3. Keeps(asked, session[plays])
      BY <3>1, <3>2, LocalKeeps
    <3> HIDE DEF asked
    <3>4. local'[manager'] = {asked}
      BY <3>1
    <3> QED BY <3>1, <3>3, <3>4 DEF LocalSound
  <2> QED BY <1>3, <2>1, <2>2 DEF StartLocal
<1>4. CASE StartChild
  <2>1. CASE ChildFails
    BY <2>1 DEF ChildFails, LocalSound
  <2>2. CASE ChildStarts
    BY <1>4, <2>2
    DEF StartChild, ChildStarts, OutcomeAfter, Inv, StepsInOrder, Sound, LocalSound
  <2> QED BY <1>4, <2>1, <2>2 DEF StartChild
<1>5. CASE Frame \/ OnStop \/ OnUnload \/ Destroy
  BY <1>5
  DEF Frame, AbortPlay, OnStop, OnUnload, Destroy, LetManagerGo, Sound, LocalSound
<1>6. ASSUME NEW child \in running, ChildBoots(child) \/ ChildExits(child)
      PROVE  LocalSound'
  BY <1>6 DEF ChildBoots, ChildExits, Sound, LocalSound
<1>7. ASSUME NEW managers \in Scenes, NEW m \in Manager, NEW given \in Parameters,
             EditScene(managers, m, given)
      PROVE  LocalSound'
  BY <1>7 DEF EditScene, Sound, LocalSound
<1> QED BY <1>1, <1>2, <1>3, <1>4, <1>5, <1>6, <1>7 DEF Next, Starting

(***************************************************************************)
(* Every plan is sound, and whatever takes part in its play keeps to it.   *)
(***************************************************************************)
LEMMA SoundHolds == Spec => [](Inv /\ Sound)
<1>1. Inv /\ Sound /\ [Next]_vars => Sound'
  <2>1. Inv /\ Sound /\ Next => Sound'
    BY StartSoundStep, ChildrenSoundStep, LocalSoundStep, Zenon DEF Sound
  <2>2. Sound /\ UNCHANGED vars => Sound'
    BY DEF vars, Sound, StartSound, ChildrenSound, LocalSound, IsPlanned
  <2> QED BY <2>1, <2>2
<1> QED BY InitSound, InvHolds, <1>1, PTL DEF Spec

(***************************************************************************)
(* Whoever takes part in a play keeps to its plan.                         *)
(***************************************************************************)
LEMMA ParticipantsKeep ==
  ASSUME Sound, NEW k \in Play, NEW wanted \in Participants(k)
  PROVE  Keeps(wanted, session[k])
BY DEF Participants, Sound, ChildrenSound, LocalSound

(***************************************************************************)
(* All players of a play meet at its server, whichever version of the      *)
(* scene each of them read.                                                *)
(***************************************************************************)
THEOREM PlayersAlwaysMeet == Spec => []PlayersMeet
<1>1. Sound => PlayersMeet
  BY ParticipantsKeep DEF PlayersMeet, Keeps
<1> QED BY SoundHolds, <1>1, PTL

(***************************************************************************)
(* The server of a play has a seat for each of its players, although its   *)
(* limit comes from the scene and not from its command line.               *)
(***************************************************************************)
THEOREM SeatsForAllPlayers == Spec => []SeatsForAll
<1>1. Sound => SeatsForAll
  BY ParticipantsKeep DEF SeatsForAll, Keeps, Players
<1> QED BY SoundHolds, <1>1, PTL
===============================================================================
