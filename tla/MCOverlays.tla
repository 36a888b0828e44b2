------------------------------- MODULE MCOverlays -------------------------------
(* The distances of LoginViewController and SignUpViewController.          *)
EXTENDS Overlays

CONSTANTS smile, frown

MCEmojis == {smile, frown}
MCLifts == [login |-> 50, signup |-> 150]

=============================================================================
