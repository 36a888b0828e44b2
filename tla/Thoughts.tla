------------------------------- MODULE Thoughts -------------------------------
(***************************************************************************)
(* The testimonial part of the form: a UITextView whose placeholder is     *)
(* ordinary text that the delegate methods put in and take out.  The       *)
(* outlets testimonialTextView and textViewThoughts are the same view, so  *)
(* what the view holds is what a save publishes.                           *)
(*                                                                         *)
(* A text is a sequence of pieces, each typed, kept or deleted as a whole. *)
(* Hint and TypedHint read the same, "Conte seus pensamentos"; the first   *)
(* was put in by the form, the second was typed by the user.               *)
(***************************************************************************)
EXTENDS Naturals, Sequences

CONSTANTS
  Writings,    \* the pieces a user may type, TypedHint perhaps among them
  Hint,
  TypedHint,
  Newline,     \* what the return key types
  MaxPieces    \* bound: pieces in the view after a user's edit

ASSUME WritingsAssumption ==
  /\ Hint # TypedHint /\ Newline \notin {Hint, TypedHint}
  /\ Writings \cap {Hint, Newline} = {}
  /\ MaxPieces \in Nat

VARIABLES
  text,      \* textViewThoughts.text
  grey,      \* textColor is lightGray, that of a placeholder
  editing,   \* the text view is the first responder
  left       \* history: the text as the user's last edit made it, empty before the first

thoughtVars == <<text, grey, editing, left>>

ReadsAsPlaceholder(t) == t \in {<<Hint>>, <<TypedHint>>}

(* setTextView                                                             *)
ThoughtsInit ==
  /\ text = <<Hint>>
  /\ grey = TRUE
  /\ editing = FALSE
  /\ left = <<>>

-----------------------------------------------------------------------------
(* Faulty variant: every text is taken for the placeholder.                *)
WithoutAnyText(t) == <<>>

WithoutPlaceholder(t) == IF ReadsAsPlaceholder(t) THEN <<>> ELSE t

WithPlaceholder(t) == IF t = <<>> THEN <<Hint>> ELSE t

TextViewDidBeginEditing ==
  /\ ~editing
  /\ editing' = TRUE
  /\ text' = WithoutPlaceholder(text)
  /\ grey' = (grey /\ ~ReadsAsPlaceholder(text))
  /\ UNCHANGED left

(* What is selected of a text of n pieces: those from the first number up  *)
(* to, not including, the second; no piece, but a place, if they are equal.*)
Selections(n) == {s \in (1 .. n + 1) \X (1 .. n + 1) : s[1] <= s[2]}

Replaced(t, s, pieces) == SubSeq(t, 1, s[1] - 1) \o pieces \o SubSeq(t, s[2], Len(t))

(* The user types or pastes over a selection, or deletes it.               *)
Write(pieces) ==
  /\ editing
  /\ \E s \in Selections(Len(text)) : text' = Replaced(text, s, pieces)
  /\ text' # text
  /\ Len(text') <= MaxPieces
  /\ left' = text'
  /\ UNCHANGED <<grey, editing>>

(* A tap outside the view ends the editing.                                *)
EndEditing ==
  /\ editing
  /\ editing' = FALSE
  /\ grey' = (grey \/ text = <<>>)

TextViewDidEndEditing ==
  /\ EndEditing
  /\ text' = WithPlaceholder(text)
  /\ UNCHANGED left

(* The return key.  shouldChangeTextIn ends the editing, so the delegate   *)
(* method above runs first, and then returns true: UIKit may still put the *)
(* newline into the text that method has left, over what was selected or,  *)
(* if that has become the placeholder, somewhere beside it.                *)
ReturnKey ==
  /\ EndEditing
  /\ \/ text' = WithPlaceholder(text) /\ UNCHANGED left
     \/ /\ text # <<>>
        /\ \E s \in Selections(Len(text)) : text' = Replaced(text, s, <<Newline>>)
        /\ Len(text') <= MaxPieces
        /\ left' = text'
     \/ /\ text = <<>>
        /\ MaxPieces >= 2
        /\ text' \in {<<Hint, Newline>>, <<Newline, Hint>>}
        /\ left' = <<Newline>>

ThoughtsNext ==
  \/ TextViewDidBeginEditing
  \/ \E pieces \in {<<>>} \cup {<<w>> : w \in Writings} : Write(pieces)
  \/ TextViewDidEndEditing
  \/ ReturnKey

-----------------------------------------------------------------------------
Texts == Seq(Writings \cup {Hint, TypedHint, Newline})

ThoughtsTypeOK ==
  /\ text \in Texts
  /\ grey \in BOOLEAN
  /\ editing \in BOOLEAN
  /\ left \in Texts

(***************************************************************************)
(* The view holds the text its user has left in it.  The delegate methods  *)
(* make three exceptions: a text that reads as the placeholder is erased,  *)
(* an empty one becomes the placeholder, and when the return key was       *)
(* pressed in an empty view the placeholder stands beside the newline,     *)
(* where no test finds it again.                                           *)
(***************************************************************************)
Kept(t) ==
  \/ t = left
  \/ (left = <<>> \/ ReadsAsPlaceholder(left)) /\ t \in {<<>>, <<Hint>>}
  \/ left = <<Newline>> /\ t \in {<<Hint, Newline>>, <<Newline, Hint>>}

WritingIsKept == Kept(text)

=============================================================================
