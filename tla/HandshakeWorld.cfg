SPECIFICATION Spec
CONSTANTS
  Peer = {p1, p2}
  Faulty = {}
  MaxObject = 1
  MaxOwnObject = 1
  MaxNonce = 5
  MaxInFlight = 1
  PendingLimit = 1
  InvalidAttemptThreshold = 3
  PlayerPrefab = FALSE
  SceneComponents = FALSE
SYMMETRY Symmetric
INVARIANTS
  PendingBounded
  AcceptedStays
  ObjectsAgree
  HonestNotBlocked
CHECK_DEADLOCK FALSE
