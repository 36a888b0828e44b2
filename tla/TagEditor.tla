------------------------------ MODULE TagEditor ------------------------------
(***************************************************************************)
(* The tags of a feeling, as AddFeelingViewController edits them: the text *)
(* field, the array pin.tags, and the collection view whose cells show the *)
(* tags and carry a remove button.                                         *)
(*                                                                         *)
(* reloadData only marks the collection view: the cells on the screen stay *)
(* the old ones until the next layout pass.  The touches that end in one   *)
(* UIEvent are all delivered before that pass, so the buttons of several   *)
(* old cells can fire against an array that has already changed.           *)
(***************************************************************************)
EXTENDS Naturals, Sequences, SequencesExt

CONSTANTS
  Tags,         \* texts that do not trim to the empty string
  Labels,       \* what a cell can display
  Capitalized,  \* the label a cell shows for a tag (String.capitalized)
  MaxTags       \* bound: how many tags a pin holds in the model

(* The texts that trim to the empty string: itself, and all others.        *)
Blank == {"empty", "spaces"}

ASSUME TagsAssumption ==
  /\ MaxTags \in Nat
  /\ Capitalized \in [Tags -> Labels]
  /\ Tags \cap Blank = {}

VARIABLES
  tags,           \* pin.tags
  field,          \* tagTextField.text
  cells,          \* the cells on the screen: the index each holds, the label it shows
  layoutPending,  \* reloadData has been called, the layout pass has not run
  fired,          \* the cells whose remove button has fired since the last layout pass
  trapped         \* a Swift runtime trap has ended the process

tagVars == <<tags, field, cells, layoutPending, fired, trapped>>

TagInit ==
  /\ tags = <<>>
  /\ field = "empty"
  /\ cells = <<>>
  /\ layoutPending = FALSE
  /\ fired = {}
  /\ trapped = FALSE

-----------------------------------------------------------------------------
(* The user types into the field (a keyboard event, never part of the      *)
(* touch event that is being delivered).                                   *)
TypeTag(text) ==
  /\ ~trapped /\ ~layoutPending
  /\ field # text
  /\ field' = text
  /\ UNCHANGED <<tags, cells, layoutPending, fired, trapped>>

(* The button beside the field: a blank text is left where it is.          *)
AddEmotionTag ==
  /\ ~trapped
  /\ field \notin Blank
  /\ Len(tags) < MaxTags
  /\ tags' = Append(tags, field)
  /\ field' = "empty"
  /\ layoutPending' = TRUE
  /\ UNCHANGED <<cells, fired, trapped>>

InRange(index) == index \in 1 .. Len(tags)

(* Faulty variant: reloadData is not called after the removal.             *)
RemoveTagWithoutReload(c) ==
  /\ ~trapped
  /\ c \in DOMAIN cells \ fired
  /\ InRange(cells[c].index)
  /\ tags' = RemoveAt(tags, cells[c].index)
  /\ UNCHANGED <<field, cells, layoutPending, fired, trapped>>

(* The remove button of cell c hands its index to Array.remove(at:).       *)
RemoveTag(c) ==
  /\ ~trapped
  /\ c \in DOMAIN cells \ fired
  /\ InRange(cells[c].index)
  /\ tags' = RemoveAt(tags, cells[c].index)
  /\ layoutPending' = TRUE
  /\ fired' = fired \cup {c}
  /\ UNCHANGED <<field, cells, trapped>>

(* ... which traps when the array has become too short for it.             *)
RemoveOutOfRange(c) ==
  /\ ~trapped
  /\ c \in DOMAIN cells \ fired
  /\ ~InRange(cells[c].index)
  /\ trapped' = TRUE
  /\ UNCHANGED <<tags, field, cells, layoutPending, fired>>

CellFor(i) == [index |-> i, label |-> Capitalized[tags[i]]]

(* The layout pass asks the data source for every cell again.              *)
LayoutTags ==
  /\ ~trapped
  /\ layoutPending
  /\ cells' = [i \in 1 .. Len(tags) |-> CellFor(i)]
  /\ layoutPending' = FALSE
  /\ fired' = {}
  /\ UNCHANGED <<tags, field, trapped>>

TagNext ==
  \/ \E text \in Tags \cup Blank : TypeTag(text)
  \/ AddEmotionTag
  \/ \E c \in 1 .. MaxTags : RemoveTag(c)
  \/ \E c \in 1 .. MaxTags : RemoveOutOfRange(c)
  \/ LayoutTags

TagSpec == TagInit /\ [][TagNext]_tagVars

-----------------------------------------------------------------------------
Cell == [index : Nat \ {0}, label : Labels]

TagTypeOK ==
  /\ tags \in Seq(Tags)
  /\ Len(tags) <= MaxTags
  /\ field \in Tags \cup Blank
  /\ cells \in Seq(Cell)
  /\ Len(cells) <= MaxTags
  /\ layoutPending \in BOOLEAN
  /\ fired \subseteq DOMAIN cells
  /\ trapped \in BOOLEAN

(***************************************************************************)
(* A remove button takes out the tag its cell displays, as long as no cell *)
(* above it has fired in the same event: the array may have lost later     *)
(* entries and gained new ones at its end, and the index is still right.   *)
(* It is about removeButtonPressed and the index written in cellForItemAt. *)
(***************************************************************************)
RemoveTakesTheTagShown ==
  \A c \in DOMAIN cells \ fired :
    (\A f \in fired : c < f)
      => /\ cells[c].index \in DOMAIN tags
         /\ cells[c].label = Capitalized[tags[cells[c].index]]

(***************************************************************************)
(* Array.remove(at:) can trap only when a second remove button fires       *)
(* before the layout pass that follows the first one.                      *)
(***************************************************************************)
TrapNeedsTwoTouches == trapped => fired # {}

=============================================================================
