CONSTANTS
  pins = pins
  profile = profile
  Targets <- MCTargets
  InitialDelay = 2
  MaxDelay = 5
  MaxPendingWrites = 2
  MaxStored = 3
  MaxSignIns = 2
SPECIFICATION FairRemoteSpec
INVARIANTS
  AssertsHold
  NeededStreamsAreStarted
  NothingIsLeftUnsent
PROPERTIES
  OfflineUntilHeard
  ListenersLearnTheState
