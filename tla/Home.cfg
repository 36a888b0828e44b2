CONSTANTS
  phone = phone
  other = other
  ana = ana
  anonimo = anonimo
  calma = calma
  park = park
  home = home
  smile = smile
  None = None
  Feelings <- MCFeelings
  DocOrder <- MCDocOrder
  NameShown <- MCNameShown
  MaxViews = 1
  MaxPins = 9
  Devices <- MCDevices
  Phone = phone
  Profile <- MCProfile
  Coords <- MCCoords
  Names <- MCNames
  Anonymous = anonimo
  MaxVisits = 2
SPECIFICATION FairSpec
INVARIANTS
  OwnFeelingsAreOnTheMap
  
PROPERTIES
  TrapsForAReason
  PublishedComesToTheMap
CHECK_DEADLOCK FALSE
