SPECIFICATION Spec
CONSTANTS
  Peer = {p1}
  Faulty = {p1}
  MaxObject = 1
  MaxOwnObject = 0
  MaxNonce = 7
  MaxInFlight = 4
  PendingLimit = 1
  InvalidAttemptThreshold = 2
  PlayerPrefab = TRUE
  SceneComponents = TRUE
INVARIANTS
  TypeOK
  AdmittedAreAuthenticated
  OnlyFitAdmitted
  AcceptedIsAdmitted
CHECK_DEADLOCK FALSE
