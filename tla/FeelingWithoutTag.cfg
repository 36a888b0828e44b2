CONSTANTS
  calma = calma
  raiva = raiva
  lCalma = lCalma
  lRaiva = lRaiva
  zero = zero
  here = here
  zeroStreet = zeroStreet
  hereStreet = hereStreet
  wrote = wrote
  hint = hint
  typedHint = typedHint
  newline = newline
  red = red
  smile = smile
  ana = ana
  anonimo = anonimo
  None = None
  Tags <- MCTags
  Labels <- MCLabels
  Capitalized <- MCCapitalized
  MaxTags = 2
  Coords <- MCCoords
  Origin = zero
  Addresses <- MCAddresses
  AddressOf <- MCAddressOf
  Writings <- MCWritings
  Hint = hint
  TypedHint = typedHint
  Newline = newline
  MaxPieces = 1
  Colors <- MCColors
  Emojis <- MCEmojis
  Names <- MCNames
  Anonymous = anonimo
SPECIFICATION Spec
INVARIANT PublishedFeelingHasATag
CHECK_DEADLOCK FALSE
