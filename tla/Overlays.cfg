CONSTANTS
  Lifts <- MCLifts
  Heights = {216, 260}
  MaxStrays = 2
  smile = smile
  Emojis <- MCEmojis
  frown = frown
  NoEmoji = NoEmoji
  MaxCards = 3
  MaxClosings = 2
  MaxSearches = 3
SPECIFICATION Spec
INVARIANTS
  ScreensAreInPlace
  CoveredFormHasItsCard
PROPERTIES
  TableGoesForward
