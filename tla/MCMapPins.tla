------------------------------ MODULE MCMapPins ------------------------------
(* Three feelings of ana: two with one annotation and different emojis,    *)
(* the second signed by an account whose name differs in case only, and    *)
(* one with another tag.  A fourth one, of bia, has no tag.                *)
EXTENDS MapPins, TLC

CONSTANTS ana, Ana, bia, shownAna, shownBia, calma, raiva, park, smile, frown

MCFeelings ==
  { [id |-> 1, userName |-> ana, location |-> park, tags |-> <<calma>>, icon |-> smile],
    [id |-> 2, userName |-> Ana, location |-> park, tags |-> <<calma, raiva>>, icon |-> frown],
    [id |-> 3, userName |-> ana, location |-> park, tags |-> <<raiva>>, icon |-> smile],
    [id |-> 4, userName |-> bia, location |-> park, tags |-> <<>>, icon |-> frown] }
MCDocOrder == SetToSortSeq(MCFeelings, LAMBDA f, g : f.id < g.id)
MCNameShown == (ana :> shownAna) @@ (Ana :> shownAna) @@ (bia :> shownBia)

(* Select is SelectSeq: on every sequence of at most three of these names. *)
ASSUME SelectIsSelectSeq ==
  \A n \in 0 .. 3 : \A s \in [1 .. n -> {ana, Ana, bia}], S \in SUBSET {ana, Ana, bia} :
    Select(s, S) = SelectSeq(s, LAMBDA x : x \in S)

=============================================================================
