--------------------------- MODULE SessionRequests ---------------------------
(***************************************************************************)
(* SessionCore: what a process is told to host or to join, from the        *)
(* parameters of its NetworkManager and from its command line.  An address *)
(* is a string, the empty one meaning none; a command line is a sequence   *)
(* of flags with their values.                                             *)
(***************************************************************************)
LOCAL INSTANCE Integers

CONSTANTS
  Unset,          \* an override the command line does not give
  Address         \* the addresses a manager or a flag may give

NoAddress == ""
AnyAddress == "0.0.0.0"
Loopback == "127.0.0.1"
IsPort(n) == n \in Nat /\ 0 < n /\ n <= 65535

NetworkRole == {"None", "Client", "DedicatedServer", "Host"}
HostingModes == {"None", "Client", "DedicatedServer", "ListenServer"}
JoinMethod == {"DirectAddress", "SessionDirectory", "LanDiscovery", "BrokeredHostedSession"}

\* What a NetworkManager can be given.
ManagerParameters ==
  [role : NetworkRole, connectHost : Address, connectPort : Nat, listenPort : Nat,
   bindAddress : Address, advertisedAddress : Address, maxClients : Nat,
   joinMethod : JoinMethod]

ASSUME RequestsAssumption ==
  /\ {NoAddress, AnyAddress, Loopback} \subseteq Address
  /\ Unset \notin Address \cup Nat \cup HostingModes

LegacyRoleToHostingMode(role) ==
  CASE role = "Client" -> "Client"
    [] role = "DedicatedServer" -> "DedicatedServer"
    [] role = "Host" -> "ListenServer"
    [] OTHER -> "None"

\* NetworkManager::GetSessionBootstrapConfig, the part of it that matters here.
GetSessionBootstrapConfig(manager) ==
  LET clamped(n) == IF n > 65535 THEN 65535 ELSE n
  IN [manager EXCEPT !.role = LegacyRoleToHostingMode(@),
                     !.connectPort = clamped(@),
                     !.listenPort = clamped(@),
                     !.maxClients = IF @ = 0 THEN 1 ELSE @]

\* The flags that give an override: -port gives both ports.
Flags ==
  [hostingMode |-> {"-server", "-dedicated", "-host", "-client"},
   connectHost |-> {"-ip", "-connectHost"}, connectPort |-> {"-port", "-connectPort"},
   listenPort |-> {"-port", "-listenPort"}, bindAddress |-> {"-bindAddress"},
   advertisedAddress |-> {"-advertisedAddress"}]

\* A port that is none is passed over.
Gives(arg, override) ==
  /\ arg.flag \in Flags[override]
  /\ override \in {"connectPort", "listenPort"} => IsPort(arg.value)

Meaning(arg) ==
  CASE arg.flag \in {"-server", "-dedicated"} -> "DedicatedServer"
    [] arg.flag = "-host" -> "ListenServer"
    [] arg.flag = "-client" -> "Client"
    [] OTHER -> arg.value

\* Of the arguments that give an override the last one counts.
ParseCommandLineOverrides(args) ==
  [override \in DOMAIN Flags |->
     LET giving == {i \in DOMAIN args : Gives(args[i], override)}
         last == CHOOSE i \in giving : \A other \in giving : other <= i
     IN IF giving = {} THEN Unset ELSE Meaning(args[last])]

Over(override, configured) == IF override # Unset THEN override ELSE configured

\* StartConfiguredSession, the hosting mode.
HostingMode(config, overrides) == Over(overrides.hostingMode, config.role)

BuildHostRequest(config, overrides) ==
  LET port == Over(overrides.listenPort, config.listenPort)
  IN [bind |-> [host |-> Over(overrides.bindAddress, config.bindAddress), port |-> port],
      advertised |->
        [host |-> Over(overrides.advertisedAddress, config.advertisedAddress), port |-> port],
      maxClients |-> config.maxClients]

\* The host a listen server's own client joins when none is configured.
DefaultTarget(config, mode) ==
  IF mode = "ListenServer" /\ config.bindAddress \notin {NoAddress, AnyAddress}
    THEN config.bindAddress ELSE Loopback

BuildJoinRequest(config, overrides) ==
  LET mode == HostingMode(config, overrides)
      host == IF config.connectHost # NoAddress THEN config.connectHost
              ELSE DefaultTarget(config, mode)
      port == Over(overrides.connectPort, config.connectPort)
  IN [host |-> Over(overrides.connectHost, host),
      port |-> IF mode = "ListenServer" /\ overrides.connectPort = Unset /\ port = 0
                 THEN config.listenPort ELSE port]

Hosts(mode) == mode \in {"DedicatedServer", "ListenServer"}
Joins(mode) == mode \in {"Client", "ListenServer"}

\* What a process hosts and joins with the parameters of a manager and a command line.
Requested(manager, args) ==
  LET config == GetSessionBootstrapConfig(manager)
      overrides == ParseCommandLineOverrides(args)
  IN [hostingMode |-> HostingMode(config, overrides),
      host |-> BuildHostRequest(config, overrides),
      join |-> BuildJoinRequest(config, overrides)]

\* A host needs a port, a client a host and a port.
ValidateHostBootstrapResult(request) == request.host.bind.port # 0
ValidateJoinBootstrapResult(request) ==
  request.join.host # NoAddress /\ request.join.port # 0

IsValid(request) ==
  /\ Hosts(request.hostingMode) => ValidateHostBootstrapResult(request)
  /\ Joins(request.hostingMode) => ValidateJoinBootstrapResult(request)
=============================================================================
