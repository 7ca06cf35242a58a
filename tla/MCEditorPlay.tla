----------------------------- MODULE MCEditorPlay -----------------------------
(***************************************************************************)
(* The editor's network play on small instances.                           *)
(***************************************************************************)
EXTENDS EditorPlay, TLC

MCAddress == {NoAddress, AnyAddress, Loopback, "198.51.100.25"}

Given(role, host, port, limit, method) ==
  [role |-> role, connectHost |-> host, connectPort |-> port, listenPort |-> 8080,
   bindAddress |-> AnyAddress, advertisedAddress |-> NoAddress, maxClients |-> limit,
   joinMethod |-> method]

MCParameters ==
  {Given("Client", "198.51.100.25", 70000, 2, "DirectAddress"),
   Given("Host", NoAddress, 0, 3, "DirectAddress")}

CONSTANTS m1, m2
MCScenes == {<<>>, <<m1>>, <<m1, m2>>}

Settings(topology, players, autoStop, autoAllocate) ==
  [enabled |-> TRUE, topology |-> topology, players |-> players, autoStop |-> autoStop,
   autoAllocate |-> autoAllocate, basePort |-> 7777]

MCPlaySettings ==
  {Settings("ListenServer", 2, TRUE, TRUE), Settings("ListenServer", 3, FALSE, FALSE),
   Settings("DedicatedServer", 2, FALSE, TRUE), Settings("DedicatedServer", 3, TRUE, FALSE),
   Settings("ClientAttach", 2, TRUE, FALSE),
   [Settings("ListenServer", 2, TRUE, TRUE) EXCEPT !.enabled = FALSE]}

MCBusyPorts == {{}, {7777}}
=============================================================================
