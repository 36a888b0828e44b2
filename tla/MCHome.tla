-------------------------------- MODULE MCHome --------------------------------
(* A phone and another device, ana's profile, and two feelings, each of    *)
(* which either device may publish: one under her name, and one anonymous, *)
(* at another place and without a tag.                                     *)
EXTENDS Home, TLC

CONSTANTS phone, other, ana, anonimo, calma, park, home, smile

MCMine == [id |-> 1, userName |-> ana, location |-> park, tags |-> <<calma>>, icon |-> smile]
MCUntagged == [id |-> 3, userName |-> anonimo, location |-> home, tags |-> <<>>, icon |-> smile]

MCDevices == {phone, other}
MCFeelings == {MCMine, MCUntagged}
MCDocOrder == <<MCMine, MCUntagged>>
MCNameShown == (ana :> ana) @@ (anonimo :> anonimo)
MCProfile == [id |-> 0, firstname |-> ana]
MCCoords == {park, home}
MCNames == {ana}

=============================================================================
