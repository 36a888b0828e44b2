------------------------------- MODULE EmojiCard -------------------------------
(***************************************************************************)
(* The card of emojis over the form for a feeling.  Each opening adds a    *)
(* blur over the whole form and a card upon it and remembers both as the   *)
(* current ones, replacing those it remembered.  The blocks that animate a *)
(* closing, and those that end it half a second later, look at the current *)
(* ones when they run.                                                     *)
(*                                                                         *)
(* A card and its blur are made and removed together: both are its number. *)
(***************************************************************************)
EXTENDS Naturals, FiniteSetsExt

CONSTANTS
  Emojis,      \* what the cells of the card hold
  NoEmoji,     \* the card's own button hands back nil
  MaxCards,    \* bound: how often the card is opened
  MaxClosings  \* bound: closing animations at a time

ASSUME CardAssumption ==
  /\ NoEmoji \notin Emojis
  /\ MaxCards \in Nat /\ MaxClosings \in Nat

VARIABLES
  cards,       \* the cards, with their blurs, in the form's view
  current,     \* cardViewController and visualEffectView, 0 before the first
  below,       \* the cards that were moved below the form's edge
  opening,     \* opening animations that run
  closing,     \* closing animations that run
  pinIcon,     \* pin.icon
  replaced     \* history: how often a card was opened over another one

cardVars == <<cards, current, below, opening, closing, pinIcon, replaced>>

CardInit ==
  /\ cards = {}
  /\ current = 0
  /\ below = {}
  /\ opening = 0
  /\ closing = 0
  /\ pinIcon = NoEmoji
  /\ replaced = 0

-----------------------------------------------------------------------------
(* The button of the form lies under the blur.  UIKit may still deliver a  *)
(* touch to it while an animation runs, when touches fall together.        *)
ButtonIsReachable == cards = {} \/ opening + closing > 0

OverAnother == IF cards = {} THEN 0 ELSE 1

(* Faulty variant: the blur and the card of the last opening are kept.     *)
OpenCardKeepingCurrent ==
  /\ ButtonIsReachable
  /\ Max(cards \cup {current}) < MaxCards
  /\ cards' = cards \cup {Max(cards \cup {current}) + 1}
  /\ current' = IF current = 0 THEN 1 ELSE current
  /\ opening' = opening + 1
  /\ replaced' = replaced + OverAnother
  /\ UNCHANGED <<below, closing, pinIcon>>

OpenCard ==
  /\ ButtonIsReachable
  /\ current < MaxCards
  /\ current' = current + 1
  /\ cards' = cards \cup {current'}
  /\ opening' = opening + 1
  /\ replaced' = replaced + OverAnother
  /\ UNCHANGED <<below, closing, pinIcon>>

OpeningEnds ==
  /\ opening > 0
  /\ opening' = opening - 1
  /\ UNCHANGED <<cards, current, below, closing, pinIcon, replaced>>

(* The card on top can be touched while it is there; a touch that began    *)
(* before it moved counts while it moves.                                  *)
CardIsReachable(c) == c \in cards /\ c = Max(cards) /\ (c \in below => closing > 0)

(* An emoji of card c, or its back button.  The block moves the current    *)
(* card, and the pin gets the emoji at once.                               *)
BackButton(c, emoji) ==
  /\ CardIsReachable(c)
  /\ closing < MaxClosings
  /\ below' = below \cup ({current} \cap cards)
  /\ closing' = closing + 1
  /\ pinIcon' = IF emoji = NoEmoji THEN pinIcon ELSE emoji
  /\ UNCHANGED <<cards, current, opening, replaced>>

(* The completion removes the card and the blur that are current by now.   *)
ClosingEnds ==
  /\ closing > 0
  /\ closing' = closing - 1
  /\ cards' = cards \ {current}
  /\ below' = below \ {current}
  /\ UNCHANGED <<current, opening, pinIcon, replaced>>

-----------------------------------------------------------------------------
CardTypeOK ==
  /\ current \in 0 .. MaxCards
  /\ cards \subseteq 1 .. current
  /\ below \subseteq cards
  /\ opening \in 0 .. MaxCards
  /\ closing \in 0 .. MaxClosings
  /\ pinIcon \in Emojis \cup {NoEmoji}
  /\ replaced \in 0 .. MaxCards

(***************************************************************************)
(* The card of a form can be put away: when no closing runs, the current   *)
(* card, if it is still there, can be touched, and all others are gone but *)
(* at most one for each time a card was opened over one that was there.    *)
(* In particular no sequence of openings and closings, with touches that   *)
(* fall together or come again, leaves a card that nothing removes unless  *)
(* the form's button was pressed while a card was still over it.           *)
(***************************************************************************)
CoveredFormHasItsCard ==
  closing = 0 =>
    /\ current \in cards => CardIsReachable(current)
    /\ Cardinality(cards \ {current}) <= replaced

=============================================================================
