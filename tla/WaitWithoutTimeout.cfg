CONSTANTS
  pins = pins
  profile = profile
  Targets <- MCTargets
  InitialDelay = 2
  MaxDelay = 2
  MaxPendingWrites = 1
  MaxStored = 0
  MaxSignIns = 0
SPECIFICATION TimedRemoteSpec
PROPERTIES
  TimeoutEndsTheWait
