-------------------------- MODULE AddFeeling_proofs --------------------------
(***************************************************************************)
(* Proofs about the form, for any tags, places, texts, colours, emojis and *)
(* names: its types, the reasons of its traps, and that it keeps the       *)
(* promise PinForm states.                                                 *)
(***************************************************************************)
EXTENDS AddFeeling, TLAPS

-----------------------------------------------------------------------------
(* The tag editor.                                                         *)

(* The data source numbers the cells by their position.                    *)
CellsAreNumbered == \A c \in DOMAIN cells : cells[c].index = c

TagInv ==
  /\ TagTypeOK
  /\ CellsAreNumbered
  /\ RemoveTakesTheTagShown
  /\ TrapNeedsTwoTouches

-----------------------------------------------------------------------------
(* A function on 1 .. n is a sequence of length n.                         *)
LEMMA FunctionIsSequence ==
  ASSUME NEW S, NEW n \in Nat, NEW f \in [1 .. n -> S]
  PROVE  f \in Seq(S) /\ Len(f) = n
  OBVIOUS

(* Sequences of no, one and two elements.                                  *)
LEMMA ShortSequences ==
  ASSUME NEW S
  PROVE  /\ <<>> \in Seq(S)
         /\ \A a \in S : <<a>> \in Seq(S)
         /\ \A a, b \in S : <<a, b>> \in Seq(S)
  OBVIOUS

(* Array.remove(at:) shortens the array by one and leaves alone what comes *)
(* before the position.                                                    *)
LEMMA RemoveAtKeepsTheFront ==
  ASSUME NEW S, NEW s \in Seq(S), NEW i \in 1 .. Len(s)
  PROVE  /\ RemoveAt(s, i) \in Seq(S)
         /\ Len(RemoveAt(s, i)) = Len(s) - 1
         /\ \A j \in 1 .. i - 1 : RemoveAt(s, i)[j] = s[j]
<1> DEFINE front == SubSeq(s, 1, i - 1)
           back == SubSeq(s, i + 1, Len(s))
<1>1. front \in Seq(S) /\ Len(front) = i - 1
  OBVIOUS
<1>2. back \in Seq(S) /\ Len(back) = Len(s) - i
  OBVIOUS
<1>3. \A j \in 1 .. i - 1 : front[j] = s[j]
  OBVIOUS
<1>4. RemoveAt(s, i) = front \o back
  BY DEF RemoveAt
<1> HIDE DEF front, back
<1>5. front \o back \in Seq(S)
  BY <1>1, <1>2
<1>6. Len(front \o back) = Len(s) - 1
  BY <1>1, <1>2
<1>7. \A j \in 1 .. i - 1 : (front \o back)[j] = s[j]
  BY <1>1, <1>2, <1>3
<1> QED
  BY <1>4, <1>5, <1>6, <1>7

-----------------------------------------------------------------------------
(* The editor starts in the invariant.                                     *)
LEMMA TagInitInv == TagInit => TagInv
<1> SUFFICES ASSUME TagInit PROVE TagInv
  OBVIOUS
<1>1. tags = <<>> /\ cells = <<>> /\ field = "empty" /\ fired = {}
  BY DEF TagInit
<1>2. layoutPending = FALSE /\ trapped = FALSE
  BY DEF TagInit
<1>3. tags \in Seq(Tags) /\ cells \in Seq(Cell) /\ Len(tags) = 0 /\ Len(cells) = 0
  BY <1>1
<1>4. DOMAIN cells = {}
  BY <1>1
<1>5. 0 <= MaxTags
  BY TagsAssumption
<1>6. TagTypeOK
  BY <1>1, <1>2, <1>3, <1>5 DEF TagTypeOK, Blank
<1> QED
  BY <1>2, <1>4, <1>6 DEF TagInv, CellsAreNumbered, RemoveTakesTheTagShown, TrapNeedsTwoTouches

(* Typing touches the field only.                                          *)
LEMMA TypeTagInv ==
  ASSUME TagInv, NEW typed \in Tags \cup Blank, TypeTag(typed)
  PROVE  TagInv'
  BY DEF TypeTag, TagInv, TagTypeOK, CellsAreNumbered, RemoveTakesTheTagShown, TrapNeedsTwoTouches

(* A new tag goes to the end, where no cell has an index yet: every index  *)
(* already on the screen still finds its tag.                              *)
LEMMA AddEmotionTagInv ==
  ASSUME TagInv, AddEmotionTag
  PROVE  TagInv'
<1>1. /\ tags \in Seq(Tags) /\ field \in Tags /\ Len(tags) < MaxTags
      /\ tags' = Append(tags, field)
  BY DEF AddEmotionTag, TagInv, TagTypeOK
<1>2. /\ field' = "empty" /\ layoutPending' = TRUE
      /\ cells' = cells /\ fired' = fired /\ trapped' = FALSE /\ trapped = FALSE
  BY DEF AddEmotionTag, TagInv, TagTypeOK
<1>3. tags' \in Seq(Tags) /\ Len(tags') = Len(tags) + 1 /\ Len(tags) \in Nat
  BY <1>1
<1>4. Len(tags') <= MaxTags
  BY <1>1, <1>3, TagsAssumption
<1>5. TagTypeOK'
  BY <1>2, <1>3, <1>4 DEF TagInv, TagTypeOK, Blank
<1>6. CellsAreNumbered' /\ TrapNeedsTwoTouches'
  BY <1>2 DEF TagInv, CellsAreNumbered, TrapNeedsTwoTouches
<1>7. \A i \in DOMAIN tags : i \in DOMAIN tags' /\ tags'[i] = tags[i]
  BY <1>1
<1>8. RemoveTakesTheTagShown'
  BY <1>2, <1>7 DEF TagInv, RemoveTakesTheTagShown
<1> QED
  BY <1>5, <1>6, <1>8 DEF TagInv

(* The cells above the one that fired keep their index and their tag.      *)
LEMMA RemoveTagInv ==
  ASSUME TagInv, NEW c \in 1 .. MaxTags, RemoveTag(c)
  PROVE  TagInv'
<1>1. /\ tags \in Seq(Tags) /\ Len(tags) <= MaxTags /\ cells \in Seq(Cell)
      /\ c \in DOMAIN cells \ fired /\ cells[c].index = c
  BY DEF RemoveTag, TagInv, TagTypeOK, CellsAreNumbered
<1>2. /\ layoutPending' = TRUE /\ fired' = fired \cup {c}
      /\ field' = field /\ cells' = cells /\ trapped' = FALSE /\ trapped = FALSE
  BY DEF RemoveTag, TagInv, TagTypeOK
<1>3. c \in 1 .. Len(tags) /\ tags' = RemoveAt(tags, c)
  BY <1>1 DEF RemoveTag, InRange
<1>4. /\ tags' \in Seq(Tags)
      /\ Len(tags') = Len(tags) - 1
      /\ \A j \in 1 .. c - 1 : tags'[j] = tags[j]
  BY <1>1, <1>3, RemoveAtKeepsTheFront
<1>5. Len(tags') <= MaxTags
  BY <1>1, <1>4, TagsAssumption
<1>6. TagTypeOK'
  BY <1>1, <1>2, <1>4, <1>5 DEF TagInv, TagTypeOK
<1>7. CellsAreNumbered' /\ TrapNeedsTwoTouches'
  BY <1>2 DEF TagInv, CellsAreNumbered, TrapNeedsTwoTouches
<1>8. RemoveTakesTheTagShown'
  <2> SUFFICES ASSUME NEW b \in DOMAIN cells \ fired', \A f \in fired' : b < f
               PROVE  /\ cells[b].index \in DOMAIN tags'
                      /\ cells[b].label = Capitalized[tags'[cells[b].index]]
    BY <1>2 DEF RemoveTakesTheTagShown
  <2>1. b < c /\ b \in DOMAIN cells \ fired /\ \A f \in fired : b < f
    BY <1>2
  <2>2. cells[b].index = b
    BY <2>1 DEF TagInv, CellsAreNumbered
  <2>3. cells[b].label = Capitalized[tags[b]]
    BY <2>1, <2>2 DEF TagInv, RemoveTakesTheTagShown
  <2>4. b \in 1 .. Len(cells)
    BY <1>1
  <2>5. b \in 1 .. c - 1
    BY <2>1, <2>4
  <2>6. b \in DOMAIN tags'
    BY <1>3, <1>4, <2>5
  <2> QED
    BY <1>4, <2>2, <2>3, <2>5, <2>6
<1> QED
  BY <1>6, <1>7, <1>8 DEF TagInv

(* Were no other cell fired, this one would be in range.                   *)
LEMMA RemoveOutOfRangeInv ==
  ASSUME TagInv, NEW c \in 1 .. MaxTags, RemoveOutOfRange(c)
  PROVE  TagInv'
<1> USE DEF RemoveOutOfRange
<1>1. TagTypeOK' /\ CellsAreNumbered' /\ RemoveTakesTheTagShown'
  BY DEF TagInv, TagTypeOK, CellsAreNumbered, RemoveTakesTheTagShown
<1>2. fired # {}
  <2> SUFFICES ASSUME fired = {} PROVE FALSE
    OBVIOUS
  <2>1. cells[c].index \in DOMAIN tags
    BY DEF TagInv, RemoveTakesTheTagShown
  <2>2. tags \in Seq(Tags)
    BY DEF TagInv, TagTypeOK
  <2> QED
    BY <2>1, <2>2 DEF InRange
<1> QED
  BY <1>1, <1>2 DEF TagInv, TrapNeedsTwoTouches

(* After a layout pass the cells are the tags.                             *)
LEMMA LayoutTagsInv ==
  ASSUME TagInv, LayoutTags
  PROVE  TagInv'
<1>1. tags \in Seq(Tags) /\ Len(tags) <= MaxTags
  BY DEF TagInv, TagTypeOK
<1>2. /\ Len(tags) \in Nat
      /\ DOMAIN tags = 1 .. Len(tags)
      /\ \A i \in 1 .. Len(tags) : tags[i] \in Tags
  BY <1>1
<1>3. /\ cells' = [i \in 1 .. Len(tags) |-> CellFor(i)]
      /\ tags' = tags /\ field' = field /\ layoutPending' = FALSE /\ fired' = {}
      /\ trapped' = FALSE
  BY DEF LayoutTags, TagInv, TagTypeOK
<1>4. ASSUME NEW i \in 1 .. Len(tags)
      PROVE  /\ cells'[i] \in Cell
             /\ cells'[i].index = i
             /\ cells'[i].label = Capitalized[tags[i]]
  <2>1. cells'[i] = [index |-> i, label |-> Capitalized[tags[i]]]
    BY <1>3 DEF CellFor
  <2>2. Capitalized[tags[i]] \in Labels
    BY <1>2, TagsAssumption
  <2> QED
    BY <2>1, <2>2 DEF Cell
<1>5. DOMAIN cells' = 1 .. Len(tags)
  BY <1>3
<1>6. cells' \in Seq(Cell) /\ Len(cells') = Len(tags)
  <2>1. cells' \in [1 .. Len(tags) -> Cell]
    BY <1>3, <1>4
  <2> QED
    BY <1>2, <2>1, FunctionIsSequence
<1>7. TagTypeOK'
  <2>1. field' \in Tags \cup Blank /\ fired' \subseteq DOMAIN cells'
    BY <1>3 DEF TagInv, TagTypeOK
  <2> QED
    BY <1>1, <1>3, <1>6, <2>1 DEF TagTypeOK
<1>8. CellsAreNumbered'
  BY <1>4, <1>5 DEF CellsAreNumbered
<1>9. RemoveTakesTheTagShown'
  <2>1. \A c \in DOMAIN cells' : /\ cells'[c].index \in DOMAIN tags'
                               /\ cells'[c].label = Capitalized[tags'[cells'[c].index]]
    BY <1>2, <1>3, <1>4, <1>5
  <2> QED
    BY <2>1 DEF RemoveTakesTheTagShown
<1>10. TrapNeedsTwoTouches'
  BY <1>3 DEF TrapNeedsTwoTouches
<1> QED
  BY <1>7, <1>8, <1>9, <1>10 DEF TagInv

(* Every step of the tag editor keeps TagInv; the modules that compose the *)
(* editor cite it.                                                         *)
LEMMA TagStepInv == TagInv /\ [TagNext]_tagVars => TagInv'
<1> SUFFICES ASSUME TagInv, [TagNext]_tagVars PROVE TagInv'
  OBVIOUS
<1>1. CASE \E typed \in Tags \cup Blank : TypeTag(typed)
  BY <1>1, TypeTagInv
<1>2. CASE AddEmotionTag
  BY <1>2, AddEmotionTagInv
<1>3. CASE \E c \in 1 .. MaxTags : RemoveTag(c)
  BY <1>3, RemoveTagInv
<1>4. CASE \E c \in 1 .. MaxTags : RemoveOutOfRange(c)
  BY <1>4, RemoveOutOfRangeInv
<1>5. CASE LayoutTags
  BY <1>5, LayoutTagsInv
<1>6. CASE UNCHANGED tagVars
  BY <1>6 DEF tagVars, TagInv, TagTypeOK, CellsAreNumbered, RemoveTakesTheTagShown,
              TrapNeedsTwoTouches
<1> QED
  BY <1>1, <1>2, <1>3, <1>4, <1>5, <1>6 DEF TagNext

-----------------------------------------------------------------------------
(* TagInv is an invariant of the tag editor.                               *)
THEOREM TagInvariant == TagSpec => []TagInv
  BY TagInitInv, TagStepInv, PTL DEF TagSpec

(* The tags are texts that survive trimming, and never more than MaxTags:  *)
(* the type invariant of the tag editor.                                   *)
THEOREM TagTypeCorrect == TagSpec => []TagTypeOK
<1>1. TagInv => TagTypeOK
  BY DEF TagInv
<1> QED
  BY TagInvariant, <1>1, PTL

(* A remove button whose cell stands above all that have fired in the      *)
(* event takes out the tag its cell displays (removeButtonPressed).        *)
THEOREM RemoveIsRight == TagSpec => []RemoveTakesTheTagShown
<1>1. TagInv => RemoveTakesTheTagShown
  BY DEF TagInv
<1> QED
  BY TagInvariant, <1>1, PTL

(* Array.remove(at:) traps only after another remove button has fired      *)
(* since the last layout pass.                                             *)
THEOREM TrapIsOnlyOfTwoTouches == TagSpec => []TrapNeedsTwoTouches
<1>1. TagInv => TrapNeedsTwoTouches
  BY DEF TagInv
<1> QED
  BY TagInvariant, <1>1, PTL

-----------------------------------------------------------------------------
(* The form.                                                               *)

(* While the process lives, the tag editor is as its own proofs say.       *)
TagPart == TagTypeOK /\ (~trapped => TagInv)

(* Before the form is loaded both radio buttons are off.                   *)
RowsStartOff == ~loaded => \A r \in Rows : isOn[r] = FALSE

(* A geocoder is only asked for a location that exists, and the row of a   *)
(* tapped location that does not exist is off the screen.                  *)
LocationPart ==
  /\ LocTypeOK
  /\ OneVisibleRowIsChosen
  /\ RowsStartOff
  /\ loaded /\ ~tappedRowHidden => touchedLocation # None
  /\ "tapped" \in geocoding => touchedLocation # None

LooksTypeOK ==
  /\ color \in Colors \cup {"none"}
  /\ selectedColors \subseteq Colors
  /\ icon \in Emojis \cup {"none"}

AuthorTypeOK ==
  /\ anonymous \in BOOLEAN
  /\ userName \in Names \cup {None}

EndTypeOK ==
  /\ ending \in {"none", "published", "cancelled"}
  /\ document \in FeelingDocument \cup {None}

(* A form that is not loaded has not ended; a loaded one that lives has    *)
(* the user's location, since recoveryAddress has unwrapped it.            *)
LifePart ==
  /\ ~loaded => ending = "none" /\ ~trapped /\ geocoding = {}
  /\ loaded /\ ~trapped => userLocation # None
  /\ TrapsOnlyThere

FormInv ==
  TagPart /\ LocationPart /\ ThoughtsTypeOK /\ LooksTypeOK /\ AuthorTypeOK /\ EndTypeOK /\ LifePart

-----------------------------------------------------------------------------
(* The form starts in the invariant.                                       *)
LEMMA FormInitInv == Init => FormInv
<1> SUFFICES ASSUME Init PROVE FormInv
  OBVIOUS
<1>1. TagInv
  BY TagInitInv DEF Init
<1>2. TagPart
  BY <1>1 DEF TagPart, TagInv
<1>3. LocationPart
  BY CoordsAssumption
  DEF Init, LocInit, LocationPart, LocTypeOK, OneVisibleRowIsChosen, RowsStartOff, AwakeFromNib,
      Rows
<1>4. ThoughtsTypeOK
  BY ShortSequences DEF Init, ThoughtsInit, ThoughtsTypeOK, Texts
<1>5. LooksTypeOK /\ AuthorTypeOK /\ EndTypeOK
  BY DEF Init, LooksTypeOK, AuthorTypeOK, EndTypeOK
<1>6. LifePart
  BY DEF Init, LocInit, TagInit, LifePart, TrapsOnlyThere
<1> QED
  BY <1>2, <1>3, <1>4, <1>5, <1>6 DEF FormInv

-----------------------------------------------------------------------------
(* A part whose variables a step leaves alone stays as it is.              *)
LEMMA TagFrame == TagPart /\ UNCHANGED tagVars => TagPart'
  BY DEF tagVars, TagPart, TagInv, TagTypeOK, CellsAreNumbered, RemoveTakesTheTagShown,
         TrapNeedsTwoTouches

(* The same for the choice of the location, ...                            *)
LEMMA LocationFrame == LocationPart /\ UNCHANGED locVars => LocationPart'
  BY DEF locVars, LocationPart, LocTypeOK, OneVisibleRowIsChosen, RowsStartOff

(* ... the testimonial, ...                                                *)
LEMMA TextFrame == ThoughtsTypeOK /\ UNCHANGED thoughtVars => ThoughtsTypeOK'
  BY DEF thoughtVars, ThoughtsTypeOK

(* ... the colour and the emoji, ...                                       *)
LEMMA LooksFrame == LooksTypeOK /\ UNCHANGED looksVars => LooksTypeOK'
  BY DEF looksVars, LooksTypeOK

(* ... the author ...                                                      *)
LEMMA AuthorFrame == AuthorTypeOK /\ UNCHANGED <<anonymous, userName>> => AuthorTypeOK'
  BY DEF AuthorTypeOK

(* ... and the end of the form.                                            *)
LEMMA EndFrame == EndTypeOK /\ UNCHANGED <<ending, document>> => EndTypeOK'
  BY DEF EndTypeOK

-----------------------------------------------------------------------------
(* viewDidLoad turns on one radio button, of a row on the screen, and      *)
(* traps only without a location of the user.                              *)
LEMMA OpenInv ==
  ASSUME FormInv, NEW touched \in Coords \cup {None}, NEW here \in Coords \cup {None},
         Open(touched, here)
  PROVE  FormInv'
<1> USE DEF FormInv
<1>1. /\ ~trapped /\ ~loaded /\ trapped' = (here = None) /\ loaded' = TRUE
      /\ touchedLocation' = touched /\ userLocation' = here
      /\ ending' = ending /\ fired' = fired /\ anonymous' = anonymous /\ userName' = userName
  BY DEF Open, LoadLocations, widgetVars
<1>2. TagPart'
  <2>1. /\ tags' = tags /\ field' = field /\ cells' = cells /\ layoutPending' = layoutPending
        /\ fired' = fired /\ trapped' \in BOOLEAN
    BY <1>1 DEF Open, widgetVars
  <2>2. TagTypeOK'
    BY <2>1 DEF TagPart, TagTypeOK
  <2>3. ~trapped' => TagInv'
    BY <1>1, <2>1, <2>2
    DEF TagPart, TagInv, CellsAreNumbered, RemoveTakesTheTagShown, TrapNeedsTwoTouches
  <2> QED
    BY <2>2, <2>3 DEF TagPart
<1>3. LocationPart'
  <2>1. /\ isOn' = IF touched = None THEN [isOn EXCEPT !.user = TRUE, !.tapped = FALSE]
                                     ELSE [isOn EXCEPT !.tapped = TRUE]
        /\ tappedRowHidden' = (touched = None)
        /\ geocoding' = {r \in Rows : r = "tapped" => touched # None}
        /\ label' = label
    BY DEF Open, LoadLocations
  <2>2. LocTypeOK'
    BY <1>1, <2>1 DEF LocationPart, LocTypeOK, Rows
  <2>3. isOn \in [Rows -> BOOLEAN] /\ isOn["tapped"] = FALSE /\ isOn["user"] = FALSE
    BY <1>1 DEF LocationPart, LocTypeOK, RowsStartOff, Rows
  <2>4. CASE touched = None
    <3>1. isOn' = [q \in Rows |-> q = "user"]
      BY <2>1, <2>3, <2>4 DEF Rows
    <3>2. OneVisibleRowIsChosen'
      BY <3>1 DEF OneVisibleRowIsChosen, Rows
    <3> QED
      BY <1>1, <2>1, <2>2, <2>4, <3>2 DEF LocationPart, RowsStartOff
  <2>5. CASE touched # None
    <3>1. isOn' = [q \in Rows |-> q = "tapped"]
      BY <2>1, <2>3, <2>5 DEF Rows
    <3>2. OneVisibleRowIsChosen'
      BY <1>1, <2>5, <3>1 DEF OneVisibleRowIsChosen, Rows
    <3> QED
      BY <1>1, <2>1, <2>2, <2>5, <3>2 DEF LocationPart, RowsStartOff
  <2> QED
    BY <2>4, <2>5
<1>4. ThoughtsTypeOK' /\ LooksTypeOK' /\ AuthorTypeOK' /\ EndTypeOK'
  BY DEF Open, widgetVars, ThoughtsTypeOK, LooksTypeOK, AuthorTypeOK, EndTypeOK
<1>5. LifePart'
  BY <1>1 DEF LifePart, TrapsOnlyThere
<1> QED
  BY <1>2, <1>3, <1>4, <1>5

(* The answer to the profile query brings a name and nothing else.         *)
LEMMA ProfileLoadedInv ==
  ASSUME FormInv, NEW n \in Names, ProfileLoaded(n)
  PROVE  FormInv'
<1> USE DEF FormInv, ProfileLoaded
<1>1. UNCHANGED tagVars /\ UNCHANGED thoughtVars /\ UNCHANGED looksVars
  BY DEF widgetVars, tagVars, thoughtVars, looksVars
<1>2. AuthorTypeOK'
  BY DEF AuthorTypeOK, widgetVars
<1>3. LifePart'
  BY DEF LifePart, TrapsOnlyThere, locVars, widgetVars
<1> QED
  BY <1>1, <1>2, <1>3, TagFrame, LocationFrame, TextFrame, LooksFrame, EndFrame

(* The tag editor keeps its own invariant, and a trap of it is one of two  *)
(* touches.                                                                *)
LEMMA EditTagsInv ==
  ASSUME FormInv, EditTags
  PROVE  FormInv'
<1> USE DEF FormInv, EditTags
<1>1. ~trapped /\ loaded
  BY DEF OnScreen
<1>2. TagInv'
  BY <1>1, TagStepInv DEF TagPart
<1>3. TagPart'
  BY <1>2 DEF TagPart, TagInv
<1>4. LifePart'
  BY <1>1, <1>2 DEF LifePart, TrapsOnlyThere, locVars, TagInv, TrapNeedsTwoTouches
<1> QED
  BY <1>3, <1>4, LocationFrame, TextFrame, LooksFrame, AuthorFrame, EndFrame

(* Replacing a selection of a text makes a text of the same and the new    *)
(* pieces.                                                                 *)
LEMMA ReplacedIsText ==
  ASSUME NEW S, NEW t \in Seq(S), NEW s \in Selections(Len(t)), NEW pieces \in Seq(S)
  PROVE  Replaced(t, s, pieces) \in Seq(S)
<1>1. s[1] \in 1 .. Len(t) + 1 /\ s[2] \in 1 .. Len(t) + 1
  BY DEF Selections
<1>2. SubSeq(t, 1, s[1] - 1) \in Seq(S) /\ SubSeq(t, s[2], Len(t)) \in Seq(S)
  BY <1>1
<1> QED
  BY <1>2 DEF Replaced

(* Every event of the text view leaves a text in it.                       *)
LEMMA ThoughtsStep == ThoughtsTypeOK /\ ThoughtsNext => ThoughtsTypeOK'
<1> SUFFICES ASSUME ThoughtsTypeOK, ThoughtsNext PROVE ThoughtsTypeOK'
  OBVIOUS
<1>1. WithoutPlaceholder(text) \in Texts /\ WithPlaceholder(text) \in Texts
  BY ShortSequences DEF ThoughtsTypeOK, WithoutPlaceholder, WithPlaceholder, Texts
<1>2. CASE TextViewDidBeginEditing
  BY <1>1, <1>2 DEF TextViewDidBeginEditing, ThoughtsTypeOK
<1>3. ASSUME NEW pieces \in {<<>>} \cup {<<w>> : w \in Writings}, Write(pieces)
      PROVE  ThoughtsTypeOK'
  <2>1. pieces \in Texts
    BY ShortSequences DEF Texts
  <2>2. text' \in Texts
    BY <1>3, <2>1, ReplacedIsText DEF Write, ThoughtsTypeOK, Texts
  <2> QED
    BY <1>3, <2>2 DEF Write, ThoughtsTypeOK
<1>4. CASE TextViewDidEndEditing
  BY <1>1, <1>4 DEF TextViewDidEndEditing, EndEditing, ThoughtsTypeOK
<1>5. CASE ReturnKey
  <2>1. grey' \in BOOLEAN /\ editing' \in BOOLEAN
    BY <1>5 DEF ReturnKey, EndEditing, ThoughtsTypeOK
  <2>2. <<Newline>> \in Texts /\ <<Hint, Newline>> \in Texts /\ <<Newline, Hint>> \in Texts
    BY DEF Texts
  <2>3. CASE text' = WithPlaceholder(text) /\ left' = left
    BY <1>1, <2>1, <2>3 DEF ThoughtsTypeOK
  <2>4. ASSUME NEW s \in Selections(Len(text)),
               text' = Replaced(text, s, <<Newline>>), left' = text'
        PROVE  ThoughtsTypeOK'
    <3>1. text' \in Texts
      BY <2>2, <2>4, ReplacedIsText DEF ThoughtsTypeOK, Texts
    <3> QED
      BY <2>1, <2>4, <3>1 DEF ThoughtsTypeOK
  <2>5. CASE text' \in {<<Hint, Newline>>, <<Newline, Hint>>} /\ left' = <<Newline>>
    BY <2>1, <2>2, <2>5 DEF ThoughtsTypeOK
  <2> QED
    BY <1>5, <2>3, <2>4, <2>5 DEF ReturnKey
<1> QED
  BY <1>2, <1>3, <1>4, <1>5 DEF ThoughtsNext

(* The events of the text view touch the text view only.                   *)
LEMMA EditThoughtsInv ==
  ASSUME FormInv, EditThoughts
  PROVE  FormInv'
<1> USE DEF FormInv, EditThoughts
<1>1. ThoughtsTypeOK'
  BY ThoughtsStep
<1>2. LifePart'
  BY DEF LifePart, TrapsOnlyThere, locVars, tagVars
<1> QED
  BY <1>1, <1>2, TagFrame, LocationFrame, LooksFrame, AuthorFrame, EndFrame

(* Only the radio button of a row on the screen can be tapped, and a tap   *)
(* turns its alternates off.                                               *)
LEMMA ChooseRowInv ==
  ASSUME FormInv, NEW r \in Rows, ChooseRow(r)
  PROVE  FormInv'
<1> USE DEF FormInv, ChooseRow, UnselectAlternateButtons
<1>1. r = "tapped" => touchedLocation # None
  BY DEF LocationPart, LocTypeOK
<1>2. LocationPart'
  BY <1>1 DEF LocationPart, LocTypeOK, OneVisibleRowIsChosen, RowsStartOff
<1>3. LifePart'
  BY DEF LifePart, TrapsOnlyThere, tagVars
<1> QED
  BY <1>2, <1>3, TagFrame, TextFrame, LooksFrame, AuthorFrame, EndFrame

(* A geocoder that answers was asked for a location that exists.           *)
LEMMA GeocoderAnswersInv ==
  ASSUME FormInv, NEW r \in Rows, GeocoderAnswers(r)
  PROVE  FormInv'
<1> USE DEF FormInv, GeocoderAnswers
<1>1. /\ UNCHANGED <<loaded, touchedLocation, userLocation, isOn, tappedRowHidden>>
      /\ r \in geocoding
      /\ geocoding' = geocoding \ {r}
      /\ \/ label' = [label EXCEPT ![r] = AddressOf[Coordinate(r)]]
         \/ label' = label
  BY DEF AddressFound, AddressFailed
<1>2. loaded /\ userLocation # None
  BY <1>1 DEF LifePart
<1>3. Coordinate(r) \in Coords
  BY <1>1, <1>2 DEF LocationPart, LocTypeOK, Coordinate, Rows
<1>4. label' \in [Rows -> Addresses \cup {None}]
  BY <1>1, <1>3, CoordsAssumption DEF LocationPart, LocTypeOK
<1>5. LocationPart'
  BY <1>1, <1>4 DEF LocationPart, LocTypeOK, OneVisibleRowIsChosen, RowsStartOff
<1>6. LifePart'
  BY <1>1, <1>2 DEF LifePart, TrapsOnlyThere, tagVars
<1> QED
  BY <1>5, <1>6, TagFrame, TextFrame, LooksFrame, AuthorFrame, EndFrame

(* Colour, emoji and the anonymity switch: nothing but the pin's looks and *)
(* the switch changes, and the process lives.                              *)
LEMMA LooksInv ==
  ASSUME FormInv, ~trapped, LooksTypeOK', anonymous' \in BOOLEAN,
         UNCHANGED <<tagVars, locVars, thoughtVars, userName, ending, document>>
  PROVE  FormInv'
<1> USE DEF FormInv
<1>1. AuthorTypeOK'
  BY DEF AuthorTypeOK
<1>2. LifePart'
  BY DEF LifePart, TrapsOnlyThere, tagVars, locVars
<1> QED
  BY <1>1, <1>2, TagFrame, LocationFrame, TextFrame, EndFrame

(* The end of the form: the form's widgets stay as they are.               *)
LEMMA EndInv ==
  ASSUME FormInv, OnScreen, EndTypeOK',
         UNCHANGED <<tagVars, locVars, thoughtVars, looksVars, anonymous, userName>>
  PROVE  FormInv'
<1> USE DEF FormInv
<1>1. LifePart'
  BY DEF LifePart, TrapsOnlyThere, tagVars, locVars, OnScreen
<1> QED
  BY <1>1, TagFrame, LocationFrame, TextFrame, LooksFrame, AuthorFrame

(* What a save publishes is a document of a feeling.                       *)
LEMMA SavedIsADocument ==
  ASSUME FormInv, OnScreen, AuthorName # None, ChosenLocation # None
  PROVE  FeelingSaved(AuthorName, text) \in FeelingDocument
<1> USE DEF FormInv
<1>1. AuthorName \in Names \cup {Anonymous}
  BY DEF AuthorTypeOK, AuthorName
<1>2. ChosenLocation \in Coords
  BY CoordsAssumption DEF ChosenLocation, LocationPart, LocTypeOK
<1>3. tags \in Seq(Tags)
  BY DEF TagPart, TagTypeOK
<1> QED
  BY <1>1, <1>2, <1>3
  DEF FeelingSaved, FeelingDocument, ThoughtsTypeOK, LooksTypeOK

(* A save ends the form with a document of a feeling.                      *)
LEMMA SaveInv ==
  ASSUME FormInv, Save
  PROVE  FormInv'
<1>1. document' \in FeelingDocument
  BY SavedIsADocument DEF Save
<1>2. EndTypeOK'
  BY <1>1 DEF EndTypeOK, Save
<1> QED
  BY <1>2, EndInv DEF Save

(* In a form that lives the chosen location exists.                        *)
LEMMA ChosenLocationExists ==
  ASSUME FormInv, OnScreen
  PROVE  ChosenLocation # None
<1>1. PICK r \in Rows : isOn = [q \in Rows |-> q = r] /\ (r = "tapped" => touchedLocation # None)
  BY DEF FormInv, LocationPart, OneVisibleRowIsChosen, OnScreen
<1> QED
  BY <1>1 DEF ChosenLocation, FormInv, LifePart, OnScreen, Rows

(* The location is there, so a save can trap on the name only.             *)
LEMMA SaveTrapsInv ==
  ASSUME FormInv, SaveTraps
  PROVE  FormInv'
<1> USE DEF FormInv, SaveTraps
<1>1. AuthorName = None
  BY ChosenLocationExists
<1>2. ~anonymous /\ userName = None
  BY <1>1, NamesAssumption DEF AuthorName
<1>3. TagPart'
  BY DEF widgetVars, TagPart, TagTypeOK
<1>4. UNCHANGED locVars /\ UNCHANGED thoughtVars /\ UNCHANGED looksVars
      /\ UNCHANGED <<anonymous, userName>> /\ UNCHANGED <<ending, document>>
  BY DEF widgetVars, thoughtVars, looksVars
<1>5. LifePart'
  BY <1>2, <1>4 DEF LifePart, TrapsOnlyThere, OnScreen, locVars
<1> QED
  BY <1>3, <1>4, <1>5, LocationFrame, TextFrame, LooksFrame, AuthorFrame, EndFrame

-----------------------------------------------------------------------------
(* Every step of the form keeps the invariant.                             *)
LEMMA FormStepInv == FormInv /\ [Next]_vars => FormInv'
<1> SUFFICES ASSUME FormInv, [Next]_vars PROVE FormInv'
  OBVIOUS
<1>1. ASSUME NEW touched \in Coords \cup {None}, NEW here \in Coords \cup {None},
             Open(touched, here)
      PROVE  FormInv'
  BY <1>1, OpenInv
<1>2. ASSUME NEW n \in Names, ProfileLoaded(n) PROVE FormInv'
  BY <1>2, ProfileLoadedInv
<1>3. CASE EditTags
  BY <1>3, EditTagsInv
<1>4. CASE EditThoughts
  BY <1>4, EditThoughtsInv
<1>5. ASSUME NEW r \in Rows, ChooseRow(r) \/ GeocoderAnswers(r) PROVE FormInv'
  BY <1>5, ChooseRowInv, GeocoderAnswersInv
<1>6. ASSUME NEW c \in Colors, SelectColor(c) PROVE FormInv'
  <2>1. LooksTypeOK' /\ anonymous' \in BOOLEAN
    BY <1>6 DEF SelectColor, LooksTypeOK, FormInv, AuthorTypeOK
  <2> QED
    BY <1>6, <2>1, LooksInv DEF SelectColor, OnScreen
<1>7. CASE ClearSelectedColor
  <2>1. LooksTypeOK' /\ anonymous' \in BOOLEAN
    BY <1>7 DEF ClearSelectedColor, LooksTypeOK, FormInv, AuthorTypeOK
  <2> QED
    BY <1>7, <2>1, LooksInv DEF ClearSelectedColor, OnScreen
<1>8. ASSUME NEW e \in Emojis, EmojiPicked(e) PROVE FormInv'
  <2>1. LooksTypeOK' /\ anonymous' \in BOOLEAN
    BY <1>8 DEF EmojiPicked, LooksTypeOK, FormInv, AuthorTypeOK
  <2> QED
    BY <1>8, <2>1, LooksInv DEF EmojiPicked, OnScreen
<1>9. CASE ToggleAnonymous
  <2>1. LooksTypeOK'
    BY <1>9, LooksFrame DEF ToggleAnonymous, FormInv
  <2>2. anonymous' \in BOOLEAN
    BY <1>9 DEF ToggleAnonymous, FormInv, AuthorTypeOK
  <2> QED
    BY <1>9, <2>1, <2>2, LooksInv DEF ToggleAnonymous, OnScreen
<1>10. CASE Save
  BY <1>10, SaveInv
<1>11. CASE SaveTraps
  BY <1>11, SaveTrapsInv
<1>12. CASE Cancel
  <2>1. EndTypeOK'
    BY <1>12 DEF Cancel, EndTypeOK, FormInv
  <2> QED
    BY <1>12, <2>1, EndInv DEF Cancel
<1>13. CASE UNCHANGED vars
  <2>1. /\ UNCHANGED tagVars /\ UNCHANGED locVars /\ UNCHANGED thoughtVars
        /\ UNCHANGED looksVars /\ UNCHANGED <<anonymous, userName>>
        /\ UNCHANGED <<ending, document>>
    BY <1>13 DEF vars
  <2>2. LifePart'
    BY <2>1 DEF FormInv, LifePart, TrapsOnlyThere, tagVars, locVars
  <2> QED
    BY <2>1, <2>2, TagFrame, LocationFrame, TextFrame, LooksFrame, AuthorFrame, EndFrame
    DEF FormInv
<1> QED
  BY <1>1, <1>2, <1>3, <1>4, <1>5, <1>6, <1>7, <1>8, <1>9, <1>10, <1>11, <1>12, <1>13
  DEF Next

(***************************************************************************)
(* The inductive invariant of the form.                                    *)
(***************************************************************************)
THEOREM FormInvariant == Spec => []FormInv
<1> QED
  BY FormInitInv, FormStepInv, PTL DEF Spec

(***************************************************************************)
(* The form's variables keep their types, the published document among     *)
(* them: a save never publishes a nil.                                     *)
(***************************************************************************)
THEOREM FormTypeCorrect == Spec => []TypeOK
<1>1. FormInv => TypeOK
  BY DEF FormInv, TypeOK, TagPart, LocationPart, LooksTypeOK, AuthorTypeOK, EndTypeOK
<1> QED
  BY <1>1, FormInvariant, PTL

(***************************************************************************)
(* A loaded form has exactly one radio button on, of a row on the screen.  *)
(***************************************************************************)
THEOREM OneRowIsChosen == Spec => []OneVisibleRowIsChosen
<1>1. FormInv => OneVisibleRowIsChosen
  BY DEF FormInv, LocationPart
<1> QED
  BY <1>1, FormInvariant, PTL

(***************************************************************************)
(* The form ends the process in the three situations of TrapsOnlyThere     *)
(* only.                                                                   *)
(***************************************************************************)
THEOREM FormTrapsOnlyThere == Spec => []TrapsOnlyThere
<1>1. FormInv => TrapsOnlyThere
  BY DEF FormInv, LifePart
<1> QED
  BY <1>1, FormInvariant, PTL

-----------------------------------------------------------------------------
(* The form keeps PinForm's promise, step by step.  An event that is not   *)
(* about the form's life changes nothing of what Home sees.                *)
Seen == <<FormAsSeenByHome, {touchedLocation, userLocation} \ {None}, userName, document>>

(* The form starts closed, with nothing offered.                           *)
LEMMA PromiseInit == Init => Promise!FormInit
  BY DEF Init, TagInit, LocInit, Promise!FormInit, FormAsSeenByHome

(* Opening offers the locations handed over that exist.                    *)
LEMMA OpenIsOpenForm ==
  ASSUME FormInv, NEW touched \in Coords \cup {None}, NEW here \in Coords \cup {None},
         Open(touched, here)
  PROVE  Promise!OpenForm(touched, here)
  BY DEF FormInv, LifePart, Open, LoadLocations, Promise!OpenForm, FormAsSeenByHome

(* The profile arrives in the object both hold.                            *)
LEMMA ProfileLoadedIsLearnName ==
  ASSUME NEW n \in Names, ProfileLoaded(n)
  PROVE  Promise!LearnName(n)
  BY DEF ProfileLoaded, locVars, Promise!LearnName, FormAsSeenByHome

(* Of the tag editor Home sees the trap only.                              *)
LEMMA EditTagsIsSeenAsATrap ==
  ASSUME EditTags
  PROVE  Promise!TrapForm \/ UNCHANGED Seen
<1>1. /\ UNCHANGED <<loaded, touchedLocation, userLocation, userName, ending, document>>
      /\ FormAsSeenByHome = "open"
  BY DEF EditTags, locVars, OnScreen, FormAsSeenByHome
<1>2. CASE trapped'
  BY <1>1, <1>2 DEF Promise!TrapForm, FormAsSeenByHome
<1>3. CASE ~trapped'
  BY <1>1, <1>3 DEF EditTags, OnScreen, Seen, FormAsSeenByHome
<1> QED
  BY <1>2, <1>3

(* An event that leaves these variables alone is not seen at all.          *)
LEMMA NotSeen ==
  UNCHANGED <<trapped, loaded, touchedLocation, userLocation, userName, ending, document>>
    => UNCHANGED Seen
  BY DEF Seen, FormAsSeenByHome

(* A save publishes a document placed where the form was opened for and    *)
(* signed as promised.                                                     *)
LEMMA SaveIsPublish ==
  ASSUME FormInv, Save
  PROVE  Promise!PublishForm
<1>1. /\ document' = FeelingSaved(AuthorName, text)
      /\ document' \in FeelingDocument
      /\ AuthorName # None /\ ChosenLocation # None
  BY SavedIsADocument DEF Save
<1>2. document'.location = ChosenLocation /\ document'.userName = AuthorName
  BY <1>1 DEF FeelingSaved
<1>3. PICK r \in Rows : isOn = [q \in Rows |-> q = r]
  BY DEF FormInv, LocationPart, OneVisibleRowIsChosen, Save, OnScreen
<1>4. ChosenLocation \in {touchedLocation, userLocation} \ {None}
  BY <1>1, <1>3 DEF ChosenLocation, Rows
<1>5. AuthorName \in {Anonymous, userName} \ {None}
  BY <1>1 DEF AuthorName
<1>6. FormAsSeenByHome = "open" /\ FormAsSeenByHome' = "published"
  BY DEF Save, OnScreen, FormAsSeenByHome, tagVars, locVars
<1>7. UNCHANGED <<touchedLocation, userLocation, userName>>
  BY DEF Save, locVars
<1> QED
  BY <1>1, <1>2, <1>4, <1>5, <1>6, <1>7 DEF Promise!PublishForm

(* Every step of the form is a step of the promise, or not seen.           *)
LEMMA PromiseStep == FormInv /\ [Next]_vars => [Promise!FormNext]_Seen
<1> SUFFICES ASSUME FormInv, [Next]_vars PROVE Promise!FormNext \/ UNCHANGED Seen
  OBVIOUS
<1>1. ASSUME NEW touched \in Coords \cup {None}, NEW here \in Coords \cup {None},
             Open(touched, here)
      PROVE  Promise!FormNext
  BY <1>1, OpenIsOpenForm DEF Promise!FormNext
<1>2. ASSUME NEW n \in Names, ProfileLoaded(n) PROVE Promise!FormNext
  BY <1>2, ProfileLoadedIsLearnName DEF Promise!FormNext
<1>3. CASE EditTags
  BY <1>3, EditTagsIsSeenAsATrap DEF Promise!FormNext
<1>4. CASE EditThoughts
  BY <1>4, NotSeen DEF EditThoughts, tagVars, locVars
<1>5. ASSUME NEW r \in Rows, ChooseRow(r) \/ GeocoderAnswers(r) PROVE UNCHANGED Seen
  BY <1>5, NotSeen
  DEF ChooseRow, UnselectAlternateButtons, GeocoderAnswers, AddressFound, AddressFailed, tagVars
<1>6. ASSUME NEW c \in Colors, SelectColor(c) PROVE UNCHANGED Seen
  BY <1>6, NotSeen DEF SelectColor, tagVars, locVars
<1>7. CASE ClearSelectedColor
  BY <1>7, NotSeen DEF ClearSelectedColor, tagVars, locVars
<1>8. ASSUME NEW e \in Emojis, EmojiPicked(e) PROVE UNCHANGED Seen
  BY <1>8, NotSeen DEF EmojiPicked, tagVars, locVars
<1>9. CASE ToggleAnonymous
  BY <1>9, NotSeen DEF ToggleAnonymous, tagVars, locVars
<1>10. CASE Save
  BY <1>10, SaveIsPublish DEF Promise!FormNext
<1>11. CASE SaveTraps
  <2>1. Promise!TrapForm
    BY <1>11 DEF SaveTraps, OnScreen, locVars, Promise!TrapForm, FormAsSeenByHome
  <2> QED
    BY <2>1 DEF Promise!FormNext
<1>12. CASE Cancel
  <2>1. Promise!CancelForm
    BY <1>12 DEF Cancel, OnScreen, tagVars, locVars, Promise!CancelForm, FormAsSeenByHome
  <2> QED
    BY <2>1 DEF Promise!FormNext
<1>13. CASE UNCHANGED vars
  BY <1>13, NotSeen DEF vars, tagVars, locVars
<1> QED
  BY <1>1, <1>2, <1>3, <1>4, <1>5, <1>6, <1>7, <1>8, <1>9, <1>10, <1>11, <1>12, <1>13
  DEF Next

(***************************************************************************)
(* The form with all its widgets, answers and traps implements PinForm:    *)
(* it publishes at most one document, placed where the form was opened for *)
(* and signed with the user's name or anonymously.                         *)
(***************************************************************************)
THEOREM FormKeepsThePromise == Spec => KeepsThePromise
<1>1. [Promise!FormNext]_Seen => [Promise!FormNext]_Promise!pinFormVars
  BY DEF Seen, Promise!pinFormVars
<1> QED
  BY <1>1, PromiseInit, PromiseStep, FormInvariant, PTL
  DEF Spec, KeepsThePromise, Promise!FormSpec

-----------------------------------------------------------------------------
(* The text is kept, a black one has nothing of the form's in it, and what *)
(* is published is what the view holds: nothing touches the text of a form *)
(* that has ended.                                                         *)
BlackIsTheUsers == ~grey => text \in Seq(Writings \cup {TypedHint, Newline})

TextInv ==
  /\ WritingIsKept
  /\ BlackIsTheUsers
  /\ document # None => ending = "published" /\ document.testimonial = text

(* The delegate methods and the user's typing keep the text.               *)
LEMMA ThoughtsKeepWriting == WritingIsKept /\ ThoughtsNext => WritingIsKept'
<1> SUFFICES ASSUME WritingIsKept, ThoughtsNext PROVE WritingIsKept'
  OBVIOUS
<1> USE DEF WritingIsKept, Kept
<1>1. <<Hint, Newline>> # <<Hint>> /\ <<Hint, Newline>> # <<TypedHint>>
      /\ <<Newline, Hint>> # <<Hint>> /\ <<Newline, Hint>> # <<TypedHint>>
      /\ <<Hint, Newline>> # <<>> /\ <<Newline, Hint>> # <<>>
  OBVIOUS
<1>2. CASE TextViewDidBeginEditing
  <2>1. left' = left /\ text' = IF ReadsAsPlaceholder(text) THEN <<>> ELSE text
    BY <1>2 DEF TextViewDidBeginEditing, WithoutPlaceholder
  <2> QED
    BY <1>1, <2>1 DEF ReadsAsPlaceholder
<1>3. ASSUME NEW pieces, Write(pieces) PROVE WritingIsKept'
  BY <1>3 DEF Write
<1>4. ASSUME text' = WithPlaceholder(text), left' = left PROVE WritingIsKept'
  BY <1>1, <1>4 DEF WithPlaceholder, ReadsAsPlaceholder
<1>5. CASE TextViewDidEndEditing
  BY <1>4, <1>5 DEF TextViewDidEndEditing
<1>6. CASE ReturnKey
  BY <1>4, <1>6 DEF ReturnKey
<1> QED
  BY <1>2, <1>3, <1>5, <1>6 DEF ThoughtsNext

(* Nothing of the form's gets into a black text: what it puts in is grey,  *)
(* and only erasing it makes the view black again.                         *)
LEMMA ThoughtsKeepBlack ==
  ThoughtsTypeOK /\ BlackIsTheUsers /\ ThoughtsNext => BlackIsTheUsers'
<1> DEFINE Own == Writings \cup {TypedHint, Newline}
<1> SUFFICES ASSUME ThoughtsTypeOK, BlackIsTheUsers, ThoughtsNext, ~grey' PROVE text' \in Seq(Own)
  BY DEF BlackIsTheUsers
<1>1. CASE TextViewDidBeginEditing
  <2>1. ~grey \/ ReadsAsPlaceholder(text)
    BY <1>1 DEF TextViewDidBeginEditing
  <2>2. CASE ReadsAsPlaceholder(text)
    <3>1. text' = <<>>
      BY <1>1, <2>2 DEF TextViewDidBeginEditing, WithoutPlaceholder
    <3> QED
      BY <3>1
  <2>3. CASE ~ReadsAsPlaceholder(text)
    <3>1. text' = text
      BY <1>1, <2>3 DEF TextViewDidBeginEditing, WithoutPlaceholder
    <3> QED
      BY <2>1, <2>3, <3>1 DEF BlackIsTheUsers
  <2> QED
    BY <2>2, <2>3
<1>2. ASSUME NEW pieces \in {<<>>} \cup {<<w>> : w \in Writings}, Write(pieces)
      PROVE  text' \in Seq(Own)
  <2>1. text \in Seq(Own)
    BY <1>2 DEF Write, BlackIsTheUsers
  <2>2. pieces \in Seq(Own)
    BY ShortSequences
  <2>3. PICK s \in Selections(Len(text)) : text' = Replaced(text, s, pieces)
    BY <1>2 DEF Write
  <2> QED
    BY <2>1, <2>2, <2>3, ReplacedIsText
<1>3. ASSUME EndEditing PROVE ~grey /\ text # <<>> /\ text \in Seq(Own)
  BY <1>3 DEF EndEditing, ThoughtsTypeOK, BlackIsTheUsers
<1>4. CASE TextViewDidEndEditing
  BY <1>3, <1>4 DEF TextViewDidEndEditing, WithPlaceholder
<1>5. CASE ReturnKey
  <2>1. text # <<>> /\ text \in Seq(Own) /\ <<Newline>> \in Seq(Own)
    BY <1>3, <1>5 DEF ReturnKey
  <2>2. \/ text' = text
        \/ \E s \in Selections(Len(text)) : text' = Replaced(text, s, <<Newline>>)
    BY <1>5, <2>1 DEF ReturnKey, WithPlaceholder
  <2> QED
    BY <2>1, <2>2, ReplacedIsText
<1> QED
  BY <1>1, <1>2, <1>4, <1>5 DEF ThoughtsNext

(* Every step of the form keeps it.                                        *)
LEMMA TextStepInv == FormInv /\ TextInv /\ [Next]_vars => TextInv'
<1> SUFFICES ASSUME FormInv, TextInv, [Next]_vars PROVE TextInv'
  OBVIOUS
<1>1. CASE EditThoughts
  <2>1. ending = "none" /\ document' = document /\ ThoughtsNext
    BY <1>1 DEF EditThoughts, OnScreen
  <2>2. document = None
    BY <2>1 DEF TextInv
  <2> QED
    BY <2>1, <2>2, ThoughtsKeepWriting, ThoughtsKeepBlack DEF FormInv, TextInv
<1>2. CASE Save
  <2>1. /\ document' = FeelingSaved(AuthorName, text) /\ ending' = "published"
        /\ UNCHANGED thoughtVars
    BY <1>2 DEF Save
  <2>2. UNCHANGED <<text, grey, left>> /\ document'.testimonial = text
    BY <2>1 DEF thoughtVars, FeelingSaved
  <2> QED
    BY <2>1, <2>2 DEF TextInv, WritingIsKept, Kept, BlackIsTheUsers
<1>3. CASE Cancel
  <2>1. ending = "none" /\ UNCHANGED <<thoughtVars, document>>
    BY <1>3 DEF Cancel, OnScreen
  <2> QED
    BY <2>1 DEF TextInv, WritingIsKept, Kept, BlackIsTheUsers, thoughtVars
<1>4. ASSUME UNCHANGED <<thoughtVars, ending, document>> PROVE TextInv'
  BY <1>4 DEF TextInv, WritingIsKept, Kept, BlackIsTheUsers, thoughtVars
<1>5. CASE ~(EditThoughts \/ Save \/ Cancel)
  <2>1. UNCHANGED <<thoughtVars, ending, document>>
    BY <1>5 DEF Next, vars, Open, ProfileLoaded, EditTags, ChooseRow, GeocoderAnswers, SelectColor,
                ClearSelectedColor, EmojiPicked, ToggleAnonymous, SaveTraps, widgetVars, thoughtVars
  <2> QED
    BY <2>1, <1>4
<1> QED
  BY <1>1, <1>2, <1>3, <1>5

(* TextInv is an invariant of the form.                                    *)
LEMMA TextInvariant == Spec => []TextInv
<1>1. Init => TextInv
  BY DEF Init, ThoughtsInit, TextInv, WritingIsKept, Kept, BlackIsTheUsers
<1> QED
  BY <1>1, TextStepInv, FormInvariant, PTL DEF Spec

(***************************************************************************)
(* The text view holds what the user has left in it, whatever pieces were  *)
(* typed over whatever selections and in whatever order its delegate       *)
(* methods run: the code's three exceptions are the only ones.             *)
(***************************************************************************)
THEOREM WritingIsNeverLost == Spec => []WritingIsKept
<1>1. TextInv => WritingIsKept
  BY DEF TextInv
<1> QED
  BY <1>1, TextInvariant, PTL

(***************************************************************************)
(* A save publishes the text the user has left; what it publishes of a     *)
(* black text is the user's alone, for any length of the text.             *)
(***************************************************************************)
THEOREM TestimonialIsTheUsers == Spec => []PublishedTestimonialIsTheUsers
<1>1. TextInv => PublishedTestimonialIsTheUsers
  <2> SUFFICES ASSUME TextInv, document # None
               PROVE  /\ Kept(document.testimonial)
                      /\ ~grey => \A i \in DOMAIN document.testimonial :
                                    document.testimonial[i] # Hint
    BY DEF PublishedTestimonialIsTheUsers
  <2>1. document.testimonial = text /\ Kept(text)
    BY DEF TextInv, WritingIsKept
  <2>2. ASSUME ~grey, NEW i \in DOMAIN text PROVE text[i] # Hint
    <3>1. text \in Seq(Writings \cup {TypedHint, Newline})
      BY <2>2 DEF TextInv, BlackIsTheUsers
    <3>2. text[i] \in Writings \cup {TypedHint, Newline}
      BY <2>2, <3>1
    <3> QED
      BY <3>2, WritingsAssumption
  <2> QED
    BY <2>1, <2>2
<1> QED
  BY <1>1, TextInvariant, PTL

-----------------------------------------------------------------------------
(* What the widgets show: the cells, once their layout is done, the tags;  *)
(* the highlight, the colour; the labels, the addresses of their rows.     *)
CellsShowTheTags ==
  ~layoutPending /\ ~trapped =>
    DOMAIN cells = DOMAIN tags /\ \A i \in DOMAIN tags : cells[i].label = Capitalized[tags[i]]

LabelsFitTheRows ==
  \A r \in Rows : label[r] # None => loaded /\ label[r] = AddressOf[Coordinate(r)]

(* A form that has published is as it was when the document was made.      *)
DocumentIsTheWidgets ==
  document # None =>
    /\ ending = "published" /\ ~trapped /\ loaded
    /\ document.tags = tags /\ document.color = color /\ document.location = ChosenLocation

ShowInv ==
  /\ CellsShowTheTags
  /\ selectedColors = {color} \ {"none"}
  /\ LabelsFitTheRows
  /\ DocumentIsTheWidgets

(* In a loaded form the row that is on is the one whose location is        *)
(* published.                                                              *)
LEMMA ChosenIsOn ==
  ASSUME FormInv, loaded, NEW r \in Rows, isOn[r]
  PROVE  ChosenLocation = Coordinate(r)
<1>1. PICK q \in Rows : isOn = [s \in Rows |-> s = q]
  BY DEF FormInv, LocationPart, OneVisibleRowIsChosen
<1> QED
  BY <1>1 DEF ChosenLocation, Coordinate, Rows

(* The events of the tag editor: a change asks for a layout pass, and the  *)
(* pass shows every tag.                                                   *)
LEMMA EditorShowsTheTags ==
  ASSUME TagTypeOK, CellsShowTheTags, TagNext
  PROVE  CellsShowTheTags'
<1>1. ASSUME NEW t \in Tags \cup Blank, TypeTag(t) PROVE CellsShowTheTags'
  BY <1>1 DEF TypeTag, CellsShowTheTags
<1>2. CASE AddEmotionTag
  BY <1>2 DEF AddEmotionTag, CellsShowTheTags
<1>3. ASSUME NEW c \in 1 .. MaxTags, RemoveTag(c) \/ RemoveOutOfRange(c) PROVE CellsShowTheTags'
  BY <1>3 DEF RemoveTag, RemoveOutOfRange, CellsShowTheTags
<1>4. CASE LayoutTags
  <2>1. tags' = tags /\ cells' = [i \in 1 .. Len(tags) |-> CellFor(i)] /\ DOMAIN tags = 1 .. Len(tags)
    BY <1>4 DEF LayoutTags, TagTypeOK
  <2>2. DOMAIN cells' = DOMAIN tags'
    BY <2>1
  <2>3. \A i \in DOMAIN tags' : cells'[i].label = Capitalized[tags'[i]]
    BY <2>1 DEF CellFor
  <2> QED
    BY <2>2, <2>3 DEF CellsShowTheTags
<1> QED
  BY <1>1, <1>2, <1>3, <1>4 DEF TagNext

(* Every step of the form keeps it.                                        *)
LEMMA ShowStepInv == FormInv /\ ShowInv /\ [Next]_vars => ShowInv'
<1> SUFFICES ASSUME FormInv, ShowInv, [Next]_vars PROVE ShowInv'
  OBVIOUS
<1> USE DEF ShowInv
<1>1. OnScreen => document = None /\ loaded /\ ~trapped
  BY DEF OnScreen, DocumentIsTheWidgets
<1>2. ASSUME NEW touched \in Coords \cup {None}, NEW here \in Coords \cup {None},
             Open(touched, here)
      PROVE  ShowInv'
  <2>1. ~loaded /\ ~trapped /\ loaded' /\ label' = label /\ UNCHANGED widgetVars /\ document' = document
    BY <1>2 DEF Open, LoadLocations
  <2>2. CellsShowTheTags'
    BY <2>1 DEF CellsShowTheTags, widgetVars
  <2>3. LabelsFitTheRows'
    BY <2>1 DEF LabelsFitTheRows
  <2>4. DocumentIsTheWidgets'
    BY <2>1 DEF DocumentIsTheWidgets
  <2> QED
    BY <2>1, <2>2, <2>3, <2>4 DEF widgetVars
<1>3. CASE EditTags
  <2>1. OnScreen /\ TagNext /\ UNCHANGED <<locVars, looksVars, document>>
    BY <1>3 DEF EditTags
  <2>2. CellsShowTheTags'
    BY <2>1, EditorShowsTheTags DEF FormInv, TagPart
  <2> QED
    BY <1>1, <2>1, <2>2 DEF LabelsFitTheRows, Coordinate, DocumentIsTheWidgets, locVars, looksVars
<1>4. ASSUME NEW r \in Rows, ChooseRow(r) PROVE ShowInv'
  <2>1. /\ OnScreen /\ UNCHANGED <<tagVars, looksVars, document>>
        /\ UNCHANGED <<loaded, touchedLocation, userLocation, label>>
    BY <1>4 DEF ChooseRow, UnselectAlternateButtons
  <2> QED
    BY <1>1, <2>1
    DEF CellsShowTheTags, LabelsFitTheRows, Coordinate, DocumentIsTheWidgets, tagVars, looksVars
<1>5. ASSUME NEW r \in Rows, GeocoderAnswers(r) PROVE ShowInv'
  <2>1. /\ UNCHANGED <<tagVars, looksVars, ending, document>>
        /\ UNCHANGED <<loaded, touchedLocation, userLocation, isOn>>
        /\ r \in geocoding
        /\ label' = label \/ label' = [label EXCEPT ![r] = AddressOf[Coordinate(r)]]
    BY <1>5 DEF GeocoderAnswers, AddressFound, AddressFailed
  <2>2. loaded /\ label \in [Rows -> Addresses \cup {None}]
    BY <2>1 DEF FormInv, LifePart, LocationPart, LocTypeOK
  <2>3. LabelsFitTheRows'
    <3>1. \A q \in Rows : label'[q] = label[q] \/ label'[q] = AddressOf[Coordinate(q)]
      BY <2>1, <2>2
    <3>2. \A q \in Rows : Coordinate(q)' = Coordinate(q)
      BY <2>1 DEF Coordinate
    <3> QED
      BY <2>1, <2>2, <3>1, <3>2 DEF LabelsFitTheRows
  <2> QED
    BY <2>1, <2>3
    DEF CellsShowTheTags, DocumentIsTheWidgets, ChosenLocation, tagVars, looksVars
<1>6. ASSUME NEW c \in Colors, SelectColor(c) PROVE ShowInv'
  <2>1. selectedColors' = {color'} \ {"none"}
    BY <1>6, ColorsAssumption DEF SelectColor
  <2> QED
    BY <1>1, <1>6, <2>1
    DEF SelectColor, CellsShowTheTags, LabelsFitTheRows, Coordinate, DocumentIsTheWidgets, tagVars,
        locVars
<1>7. CASE ClearSelectedColor
  BY <1>1, <1>7
  DEF ClearSelectedColor, CellsShowTheTags, LabelsFitTheRows, Coordinate, DocumentIsTheWidgets,
      tagVars, locVars
<1>8. CASE Save
  <2>1. /\ OnScreen /\ document' = FeelingSaved(AuthorName, text) /\ ending' = "published"
        /\ UNCHANGED <<tagVars, locVars, looksVars>>
    BY <1>8 DEF Save
  <2>2. document'.tags = tags /\ document'.color = color /\ document'.location = ChosenLocation
    BY <2>1 DEF FeelingSaved
  <2> QED
    BY <1>1, <2>1, <2>2
    DEF CellsShowTheTags, LabelsFitTheRows, Coordinate, DocumentIsTheWidgets, ChosenLocation,
        tagVars, locVars, looksVars
<1>9. CASE SaveTraps
  <2>1. OnScreen /\ trapped' /\ UNCHANGED <<widgetVars, locVars, document>>
    BY <1>9 DEF SaveTraps
  <2> QED
    BY <1>1, <2>1
    DEF CellsShowTheTags, LabelsFitTheRows, Coordinate, DocumentIsTheWidgets, locVars, widgetVars
<1>10. CASE Cancel
  <2>1. OnScreen /\ UNCHANGED <<tagVars, locVars, looksVars, document>>
    BY <1>10 DEF Cancel
  <2> QED
    BY <1>1, <2>1
    DEF CellsShowTheTags, LabelsFitTheRows, Coordinate, DocumentIsTheWidgets, tagVars, locVars,
        looksVars
<1>11. ASSUME UNCHANGED <<tagVars, locVars, color, selectedColors, ending, document>> PROVE ShowInv'
  BY <1>11
  DEF CellsShowTheTags, LabelsFitTheRows, Coordinate, DocumentIsTheWidgets, ChosenLocation, tagVars,
      locVars
<1>12. ASSUME NEW n \in Names, ProfileLoaded(n) PROVE ShowInv'
  BY <1>11, <1>12 DEF ProfileLoaded, widgetVars, tagVars
<1>13. ASSUME NEW e \in Emojis, EmojiPicked(e) PROVE ShowInv'
  BY <1>11, <1>13 DEF EmojiPicked
<1>14. CASE EditThoughts \/ ToggleAnonymous \/ UNCHANGED vars
  BY <1>11, <1>14 DEF EditThoughts, ToggleAnonymous, vars, looksVars
<1> QED
  BY <1>2, <1>3, <1>4, <1>5, <1>6, <1>7, <1>8, <1>9, <1>10, <1>12, <1>13, <1>14 DEF Next

(* ShowInv is an invariant of the form.                                    *)
LEMMA ShowInvariant == Spec => []ShowInv
<1>1. Init => ShowInv
  <2> SUFFICES ASSUME Init PROVE ShowInv
    OBVIOUS
  <2>1. CellsShowTheTags /\ DocumentIsTheWidgets
    BY DEF Init, TagInit, CellsShowTheTags, DocumentIsTheWidgets
  <2>2. LabelsFitTheRows /\ selectedColors = {color} \ {"none"}
    BY DEF Init, LocInit, LabelsFitTheRows
  <2> QED
    BY <2>1, <2>2 DEF ShowInv
<1> QED
  BY <1>1, ShowStepInv, FormInvariant, PTL DEF Spec

(***************************************************************************)
(* The address beside the radio button that is on is that of the location  *)
(* a save publishes, in whatever order geocoders answer and rows are       *)
(* tapped.                                                                 *)
(***************************************************************************)
THEOREM ChosenRowIsLabelledRight == Spec => []ChosenRowShowsItsAddress
<1>1. FormInv /\ ShowInv => ChosenRowShowsItsAddress
  BY ChosenIsOn DEF ShowInv, LabelsFitTheRows, ChosenRowShowsItsAddress
<1> QED
  BY <1>1, FormInvariant, ShowInvariant, PTL

(***************************************************************************)
(* A save publishes what the form shows: the tags of the cells that are    *)
(* laid out, the highlighted colour, and a location whose address is the   *)
(* one displayed, now or when the geocoder answers.                        *)
(***************************************************************************)
THEOREM WhatIsShownIsPublished == Spec => []SavedIsWhatIsShown
<1>1. FormInv /\ ShowInv => SavedIsWhatIsShown
  <2> SUFFICES ASSUME FormInv, ShowInv, document # None PROVE SavedIsWhatIsShown
    BY DEF SavedIsWhatIsShown
  <2>1. /\ ~trapped /\ loaded
        /\ document.tags = tags /\ document.color = color /\ document.location = ChosenLocation
    BY DEF ShowInv, DocumentIsTheWidgets
  <2>2. ~layoutPending => [c \in DOMAIN cells |-> cells[c].label]
                            = [i \in DOMAIN document.tags |-> Capitalized[document.tags[i]]]
    BY <2>1 DEF ShowInv, CellsShowTheTags
  <2>3. \A r \in Rows : isOn[r] => label[r] \in {None, AddressOf[document.location]}
    BY <2>1, ChosenIsOn DEF ShowInv, LabelsFitTheRows
  <2> QED
    BY <2>1, <2>2, <2>3 DEF SavedIsWhatIsShown, ShowInv
<1> QED
  BY <1>1, FormInvariant, ShowInvariant, PTL

=============================================================================
