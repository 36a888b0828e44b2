CONSTANTS
  phone = phone
  ana = ana
  bia = bia
  x = x
  y = y
  z = z
  pins = pins
  ours = ours
  Devices <- MCDevices
  Users <- MCUsers
  Docs <- MCDocs
  Queries <- MCQueries
  Matching <- MCMatching
  Nobody = ana
  MaxGets = 0
  MaxTasks = 2
SPECIFICATION WritingSpec
INVARIANTS
  NoWriteVanishes
  FatesAreFinal
  CommittedInOrder
PROPERTIES
  WritesOfTheSignedInUserDrain
CHECK_DEADLOCK FALSE
