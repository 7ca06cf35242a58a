SPECIFICATION Spec
CONSTANTS
  Peer = {p1}
  Faulty = {}
  MaxObject = 1
  MaxOwnObject = 1
  MaxNonce = 5
  MaxInFlight = 2
  PendingLimit = 1
  InvalidAttemptThreshold = 3
  PlayerPrefab = FALSE
  SceneComponents = FALSE
INVARIANT
  PreAuthIsHandshakeOnly
CHECK_DEADLOCK FALSE
