-------------------------------- MODULE Overlays --------------------------------
(***************************************************************************)
(* What moves and covers the screens: the keyboard on the login screen,    *)
(* the sign-up screen and the form (KeyboardOffset), the card of emojis on *)
(* the form (EmojiCard), and the search table over Home (LocationSearch).  *)
(* A screen is a new controller each time it is shown; Home stays beneath  *)
(* the form, and the answers to its searches arrive meanwhile.             *)
(***************************************************************************)
EXTENDS KeyboardOffset, EmojiCard, LocationSearch

VARIABLE screen   \* "entry", "login", "signup", "home" or "form"

vars == <<keyboardVars, cardVars, searchVars, screen>>

Init == KeyboardInit /\ CardInit /\ SearchInit /\ screen = "entry"

(* The controller that is shown is in its place, without a keyboard.       *)
NewController ==
  /\ keyboard' = FALSE
  /\ offset' = 0
  /\ strays' = 0
  /\ tagText' = FALSE

(* The two buttons of the entry screen, and the way back.                  *)
OpenSignIn(s) ==
  /\ screen = "entry" /\ s \in {"login", "signup"}
  /\ screen' = s
  /\ NewController
  /\ UNCHANGED <<cardVars, searchVars>>

GoBack ==
  /\ screen \in {"login", "signup"}
  /\ screen' = "entry"
  /\ NewController
  /\ UNCHANGED <<cardVars, searchVars>>

TransitionToHome ==
  /\ screen \in {"login", "signup"}
  /\ screen' = "home"
  /\ NewController
  /\ UNCHANGED <<cardVars, searchVars>>

OpenForm ==
  /\ screen = "home"
  /\ screen' = "form"
  /\ NewController
  /\ UNCHANGED <<cardVars, searchVars>>

(* The form is dismissed with its card, whatever the card is doing.        *)
DismissForm ==
  /\ screen = "form"
  /\ screen' = "home"
  /\ NewController
  /\ cards' = {} /\ current' = 0 /\ below' = {} /\ opening' = 0 /\ closing' = 0
  /\ pinIcon' = NoEmoji /\ replaced' = 0
  /\ UNCHANGED searchVars

MoveForKeyboard ==
  /\ screen \in {"login", "signup", "form"}
  /\ KeyboardNext(screen)
  /\ UNCHANGED <<cardVars, searchVars, screen>>

UseCard ==
  /\ screen = "form"
  /\ \/ OpenCard
     \/ \E c \in cards, emoji \in Emojis \cup {NoEmoji} : BackButton(c, emoji)
  /\ UNCHANGED <<keyboardVars, searchVars, screen>>

(* UIKit's animations end while the form is there.                         *)
AnimationEnds ==
  /\ screen = "form"
  /\ OpeningEnds \/ ClosingEnds
  /\ UNCHANGED <<keyboardVars, searchVars, screen>>

Search ==
  /\ \/ screen = "home" /\ UpdateSearchResults
     \/ \E n \in searching : SearchAnswers(n) \/ SearchFails(n)
  /\ UNCHANGED <<keyboardVars, cardVars, screen>>

Next ==
  \/ \E s \in {"login", "signup"} : OpenSignIn(s)
  \/ GoBack
  \/ TransitionToHome
  \/ OpenForm
  \/ DismissForm
  \/ MoveForKeyboard
  \/ UseCard
  \/ AnimationEnds
  \/ Search

Spec == Init /\ [][Next]_vars

-----------------------------------------------------------------------------
OverlaysTypeOK ==
  /\ KeyboardTypeOK
  /\ CardTypeOK
  /\ SearchTypeOK
  /\ screen \in {"entry", "login", "signup", "home", "form"}

(***************************************************************************)
(* No screen is left shifted once the keyboard has gone, see               *)
(* PlacedWithoutKeyboard.  It relates keyboardWillShow and                 *)
(* keyboardWillHide of the screen that is shown, whichever it is.          *)
(***************************************************************************)
ScreensAreInPlace == PlacedWithoutKeyboard(screen)

=============================================================================
