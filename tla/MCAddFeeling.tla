----------------------------- MODULE MCAddFeeling -----------------------------
(* One form: two tags with one label each, the origin and one more place,  *)
(* one colour, one emoji, one name.                                        *)
EXTENDS AddFeeling, TLC

CONSTANTS calma, raiva, lCalma, lRaiva   \* tags and their labels
CONSTANTS zero, here, zeroStreet, hereStreet   \* places and their addresses
CONSTANTS wrote, hint, typedHint, newline   \* pieces of the testimonial
CONSTANTS red, smile, ana, anonimo

MCTags == {calma, raiva}
MCLabels == {lCalma, lRaiva}
MCCapitalized == (calma :> lCalma) @@ (raiva :> lRaiva)
MCCoords == {zero, here}
MCAddresses == {zeroStreet, hereStreet}
MCAddressOf == (zero :> zeroStreet) @@ (here :> hereStreet)
MCWritings == {wrote, typedHint}
MCColors == {red}
MCEmojis == {smile}
MCNames == {ana}

(* Bound: a text other than one word and the placeholder is in the view    *)
(* only while the widgets beside it are as they were at the opening, in a  *)
(* form that was opened without a press on the map.                        *)
MCTextsInTurn ==
  \/ text \in {<<>>, <<hint>>, <<wrote>>}
  \/ /\ tags = <<>> /\ field = "empty" /\ cells = <<>> /\ ~layoutPending
     /\ selectedColors = {} /\ icon = "none" /\ ~anonymous
     /\ touchedLocation = None

=============================================================================
