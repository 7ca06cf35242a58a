SPECIFICATION QuietSpec
CONSTANTS
  Peer = {p1, p2}
  Faulty = {}
  MaxObject = 1
  MaxOwnObject = 1
  MaxNonce = 5
  MaxInFlight = 1
  PendingLimit = 2
  InvalidAttemptThreshold = 3
  PlayerPrefab = FALSE
  SceneComponents = FALSE
PROPERTIES
  FitClientsJoin
  OthersLeave
CHECK_DEADLOCK FALSE
