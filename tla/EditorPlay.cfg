SPECIFICATION Spec
CONSTANTS
  m1 = m1
  m2 = m2
  Manager = {m1, m2}
  None = None
  Unset = Unset
  Address <- MCAddress
  Parameters <- MCParameters
  Scenes <- MCScenes
  PlaySettings <- MCPlaySettings
  BusyPorts <- MCBusyPorts
  MaxPlays = 2
INVARIANTS
  TypeOK
  OverridesRestored
  NoOrphans
  NotHalfStarted
  PlayersMeet
  SeatsForAll
PROPERTIES
  AbortsOnlyFailed
  PlaysSettle
CHECK_DEADLOCK FALSE
