CONSTANTS
  ana = ana
  Ana = Ana
  bia = bia
  shownAna = shownAna
  shownBia = shownBia
  calma = calma
  raiva = raiva
  park = park
  smile = smile
  frown = frown
  None = None
  Feelings <- MCFeelings
  DocOrder <- MCDocOrder
  NameShown <- MCNameShown
  MaxViews = 2
  MaxPins = 4
SPECIFICATION MapSpec
INVARIANTS
  FreshViewsAreRight
  DetailFitsTheCallout
\* nothing is fetched beyond the bound and a map may have no view to move
CHECK_DEADLOCK FALSE
