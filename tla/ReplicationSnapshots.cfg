SPECIFICATION Spec
CONSTANTS
  Peer = {p1}
  Server = Server
  None = None
  SceneObjects = 1
  MaxObject = 2
  MaxTransform = 2
  MaxValue = 1
  Reach <- MCReach
  Settings <- MCSettings
  MaxTick = 3
  MaxInFlight = 1
  Threshold = 1
  DeltaModes = {TRUE, FALSE}
INVARIANTS
  TypeOK
  BaselineKnown
  DriftBounded
  FullSnapshotsExact
PROPERTIES
  OwnersKeepTheirs
CHECK_DEADLOCK FALSE
