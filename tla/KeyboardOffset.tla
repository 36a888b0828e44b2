---------------------------- MODULE KeyboardOffset ----------------------------
(***************************************************************************)
(* How the login screen, the sign-up screen and the form move their view   *)
(* for the keyboard.  Login and SignUp set a fixed offset when it shows    *)
(* and add the same distance when it hides; the form moves by the height   *)
(* of the keyboard, only from its place and only when the field of the     *)
(* tags is not being edited, and goes back to its place.                   *)
(*                                                                         *)
(* The three observe the same notifications; UIKit repeats the first when  *)
(* another field or another keyboard takes over, and a hide may come       *)
(* without a show before it.                                               *)
(***************************************************************************)
EXTENDS Integers

CONSTANTS
  Lifts,      \* how far the screens that use a fixed distance move
  Heights,    \* the heights a keyboard can have
  MaxStrays   \* bound: hides without a show in a row

ASSUME KeyboardAssumption ==
  /\ DOMAIN Lifts = {"login", "signup"}
  /\ \A s \in DOMAIN Lifts : Lifts[s] \in Nat \ {0}
  /\ Heights \subseteq Nat \ {0}
  /\ MaxStrays \in Nat

VARIABLES
  keyboard,  \* the keyboard is up
  offset,    \* view.frame.origin.y of the screen
  strays,    \* hides without a show since the screen was made or the last show
  tagText    \* the form's flag: the field of the tags is being edited

keyboardVars == <<keyboard, offset, strays, tagText>>

KeyboardInit ==
  /\ keyboard = FALSE
  /\ offset = 0
  /\ strays = 0
  /\ tagText = FALSE

(* Faulty variant: the distance is subtracted at every show.               *)
ShownOffsetAgain(screen, height) ==
  IF screen \in DOMAIN Lifts THEN offset - Lifts[screen]
  ELSE IF offset = 0 /\ ~tagText THEN offset - height
  ELSE offset

ShownOffset(screen, height) ==
  IF screen \in DOMAIN Lifts THEN 0 - Lifts[screen]
  ELSE IF offset = 0 /\ ~tagText THEN offset - height
  ELSE offset

HiddenOffset(screen) == IF screen \in DOMAIN Lifts THEN offset + Lifts[screen] ELSE 0

KeyboardWillShow(screen, height) ==
  /\ keyboard' = TRUE
  /\ offset' = ShownOffset(screen, height)
  /\ strays' = 0
  /\ UNCHANGED tagText

KeyboardWillHide(screen) ==
  /\ keyboard \/ strays < MaxStrays
  /\ keyboard' = FALSE
  /\ strays' = IF keyboard THEN strays ELSE strays + 1
  /\ offset' = HiddenOffset(screen)
  /\ UNCHANGED tagText

(* Only the form is the delegate of a text field.                          *)
TextFieldEditing(screen) ==
  /\ screen = "form"
  /\ tagText' = ~tagText
  /\ UNCHANGED <<keyboard, offset, strays>>

KeyboardNext(screen) ==
  \/ \E height \in Heights : KeyboardWillShow(screen, height)
  \/ KeyboardWillHide(screen)
  \/ TextFieldEditing(screen)

-----------------------------------------------------------------------------
KeyboardTypeOK ==
  /\ keyboard \in BOOLEAN
  /\ offset \in Int
  /\ strays \in 0 .. MaxStrays
  /\ tagText \in BOOLEAN

(***************************************************************************)
(* Without a keyboard the form is in its place, however the notifications  *)
(* come; Login and SignUp are in theirs unless a hide came without a show, *)
(* each of which moves them down by their distance until the next show.    *)
(* It is about keyboardWillShow, which sets the offset, and                *)
(* keyboardWillHide, which adds to it.                                     *)
(***************************************************************************)
PlacedWithoutKeyboard(screen) ==
  ~keyboard =>
    offset = IF screen \in DOMAIN Lifts THEN strays * Lifts[screen] ELSE 0

=============================================================================
