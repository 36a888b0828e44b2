CONSTANTS
  phone = phone
  ana = ana
  bia = bia
  x = x
  y = y
  z = z
  pins = pins
  ours = ours
  Devices <- MCDevices
  Users <- MCOneUser
  Docs <- MCTwoDocs
  Queries <- MCTwoQueries
  Matching <- MCTwoMatching
  Nobody = ana
  MaxGets = 2
  MaxTasks = 2
SPECIFICATION ReadingSpec
INVARIANTS
  CacheIsFromServer
  GetsShowOwnWrites
PROPERTIES
  KeepsTheStorePromise
  EveryGetEnds
CHECK_DEADLOCK FALSE
