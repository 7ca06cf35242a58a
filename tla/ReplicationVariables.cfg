SPECIFICATION Spec
CONSTANTS
  Peer = {p1, p2}
  Server = Server
  None = None
  SceneObjects = 1
  MaxObject = 2
  MaxTransform = 2
  MaxValue = 1
  Reach <- MCReach
  Settings <- MCSettings
  MaxTick = 3
  MaxInFlight = 1
  Threshold = 0
  DeltaModes = {TRUE}
INVARIANTS
  VariablesArrive
CHECK_DEADLOCK FALSE
