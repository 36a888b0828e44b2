------------------------------ MODULE AddFeeling ------------------------------
(***************************************************************************)
(* One life of the form AddFeelingViewController, from its presentation by *)
(* Home to the end: the tag editor, the choice of the location and the     *)
(* testimonial, each a module of its own, with the colour, the emoji and   *)
(* the anonymity switch, and the actions that end the form.                *)
(*                                                                         *)
(* The User object is Home's: its name arrives, at any time or never, with *)
(* the answer to the profile query Home has started.                       *)
(***************************************************************************)
EXTENDS TagEditor, LocationChoice, Thoughts

CONSTANTS
  Colors,      \* the colours of the collection view
  Emojis,      \* the emojis of the card
  Names,       \* the names a profile can have
  Anonymous    \* the name "Anonimo"

ASSUME NamesAssumption == None \notin Names \cup {Anonymous}

ASSUME ColorsAssumption == "none" \notin Colors

VARIABLES
  color,           \* pin.color, "none" for the empty string
  selectedColors,  \* colorCollectionView.indexPathsForSelectedItems
  icon,            \* pin.icon, "none" for the empty string
  anonymous,       \* anonSwitch.isOn
  userName,        \* user.name, None until the profile has arrived
  ending,          \* "none", "published" or "cancelled"
  document         \* what setData has been given, None before

looksVars == <<color, selectedColors, icon>>
widgetVars == <<tags, field, cells, layoutPending, fired, text, grey, editing, left,
                color, selectedColors, icon, anonymous>>
vars == <<tagVars, locVars, thoughtVars, looksVars, anonymous, userName, ending, document>>

Init ==
  /\ TagInit
  /\ LocInit
  /\ ThoughtsInit
  /\ color = "none" /\ selectedColors = {}
  /\ icon = "none"
  /\ anonymous = FALSE
  /\ userName = None
  /\ ending = "none"
  /\ document = None

OnScreen == loaded /\ ending = "none" /\ ~trapped

-----------------------------------------------------------------------------
(* Home presents the form and viewDidLoad runs; without a location of the  *)
(* user recoveryAddress unwraps nil.                                       *)
Open(touched, here) ==
  /\ ~trapped
  /\ LoadLocations(touched, here)
  /\ trapped' = (here = None)
  /\ UNCHANGED <<widgetVars, userName, ending, document>>

(* Home's profile query answers, while the form is open or before.         *)
ProfileLoaded(name) ==
  /\ ~trapped
  /\ userName = None
  /\ userName' = name
  /\ UNCHANGED <<widgetVars, trapped, locVars, ending, document>>

EditTags ==
  /\ OnScreen
  /\ TagNext
  /\ UNCHANGED <<locVars, thoughtVars, looksVars, anonymous, userName, ending, document>>

EditThoughts ==
  /\ OnScreen
  /\ ThoughtsNext
  /\ UNCHANGED <<tagVars, locVars, looksVars, anonymous, userName, ending, document>>

ChooseRow(r) ==
  /\ OnScreen
  /\ UnselectAlternateButtons(r)
  /\ UNCHANGED <<tagVars, thoughtVars, looksVars, anonymous, userName, ending, document>>

(* The geocoders hold the controller: they answer after its end, too.      *)
GeocoderAnswers(r) ==
  /\ ~trapped
  /\ AddressFound(r) \/ AddressFailed(r)
  /\ UNCHANGED <<tagVars, thoughtVars, looksVars, anonymous, userName, ending, document>>

SelectColor(c) ==
  /\ OnScreen
  /\ selectedColors' = {c}
  /\ color' = c
  /\ UNCHANGED <<tagVars, locVars, thoughtVars, icon, anonymous, userName, ending, document>>

(* Faulty variant: the pin keeps the colour.                               *)
ClearHighlightOnly ==
  /\ OnScreen
  /\ selectedColors' = {}
  /\ UNCHANGED <<tagVars, locVars, thoughtVars, color, icon, anonymous, userName, ending, document>>

ClearSelectedColor ==
  /\ OnScreen
  /\ selectedColors' = {}
  /\ color' = "none"
  /\ UNCHANGED <<tagVars, locVars, thoughtVars, icon, anonymous, userName, ending, document>>

(* The emoji card hands back the emoji that was tapped in it.              *)
EmojiPicked(e) ==
  /\ OnScreen
  /\ icon' = e
  /\ UNCHANGED <<tagVars, locVars, thoughtVars, color, selectedColors, anonymous, userName,
                 ending, document>>

ToggleAnonymous ==
  /\ OnScreen
  /\ anonymous' = ~anonymous
  /\ UNCHANGED <<tagVars, locVars, thoughtVars, looksVars, userName, ending, document>>

AuthorName == IF anonymous THEN Anonymous ELSE userName

FeelingSaved(author, testimonial) ==
  [userName |-> author, location |-> ChosenLocation, tags |-> tags,
   testimonial |-> testimonial, color |-> color, icon |-> icon]

(* Faulty variants: a name that has not arrived is published; the text is  *)
(* the one from before the text view's editing; the form stays.            *)
SaveWithoutName ==
  /\ OnScreen
  /\ ChosenLocation # None
  /\ document' = FeelingSaved(AuthorName, text)
  /\ ending' = "published"
  /\ UNCHANGED <<tagVars, locVars, thoughtVars, looksVars, anonymous, userName>>

SaveIgnoringEdit ==
  /\ OnScreen
  /\ AuthorName # None /\ ChosenLocation # None
  /\ document' = FeelingSaved(AuthorName, IF editing THEN <<>> ELSE text)
  /\ ending' = "published"
  /\ UNCHANGED <<tagVars, locVars, thoughtVars, looksVars, anonymous, userName>>

SaveAndStay ==
  /\ OnScreen
  /\ AuthorName # None /\ ChosenLocation # None
  /\ document' = FeelingSaved(AuthorName, text)
  /\ UNCHANGED <<tagVars, locVars, thoughtVars, looksVars, anonymous, userName, ending>>

(* saveEmotionPressed builds the document from the pin and the widgets ... *)
Save ==
  /\ OnScreen
  /\ AuthorName # None /\ ChosenLocation # None
  /\ document' = FeelingSaved(AuthorName, text)
  /\ ending' = "published"
  /\ UNCHANGED <<tagVars, locVars, thoughtVars, looksVars, anonymous, userName>>

(* Faulty variant: the user's name is unwrapped for anonymous feelings.    *)
SaveTrapsEagerly ==
  /\ OnScreen
  /\ userName = None \/ ChosenLocation = None
  /\ trapped' = TRUE
  /\ UNCHANGED <<widgetVars, locVars, userName, ending, document>>

(* ... and traps on a name or a location that is nil.                      *)
SaveTraps ==
  /\ OnScreen
  /\ AuthorName = None \/ ChosenLocation = None
  /\ trapped' = TRUE
  /\ UNCHANGED <<widgetVars, locVars, userName, ending, document>>

Cancel ==
  /\ OnScreen
  /\ ending' = "cancelled"
  /\ UNCHANGED <<tagVars, locVars, thoughtVars, looksVars, anonymous, userName, document>>

Next ==
  \/ \E touched, here \in Coords \cup {None} : Open(touched, here)
  \/ \E name \in Names : ProfileLoaded(name)
  \/ EditTags
  \/ EditThoughts
  \/ \E r \in Rows : ChooseRow(r) \/ GeocoderAnswers(r)
  \/ \E c \in Colors : SelectColor(c)
  \/ ClearSelectedColor
  \/ \E e \in Emojis : EmojiPicked(e)
  \/ ToggleAnonymous
  \/ Save
  \/ SaveTraps
  \/ Cancel

Spec == Init /\ [][Next]_vars

-----------------------------------------------------------------------------
FeelingDocument ==
  [userName : Names \cup {Anonymous}, location : Coords, tags : Seq(Tags),
   testimonial : Texts, color : Colors \cup {"none"}, icon : Emojis \cup {"none"}]

TypeOK ==
  /\ TagTypeOK
  /\ LocTypeOK
  /\ ThoughtsTypeOK
  /\ color \in Colors \cup {"none"}
  /\ selectedColors \subseteq Colors
  /\ icon \in Emojis \cup {"none"}
  /\ anonymous \in BOOLEAN
  /\ userName \in Names \cup {None}
  /\ ending \in {"none", "published", "cancelled"}
  /\ document \in FeelingDocument \cup {None}

(***************************************************************************)
(* A save publishes what the form shows.  The published tags are those the *)
(* cells show once their layout is done, the colour is the highlighted     *)
(* one, and the address beside the radio button that is on, which may have *)
(* arrived after the save, is the address of the published location.       *)
(***************************************************************************)
SavedIsWhatIsShown ==
  document # None =>
    /\ ~layoutPending =>
         [c \in DOMAIN cells |-> cells[c].label]
           = [i \in DOMAIN document.tags |-> Capitalized[document.tags[i]]]
    /\ selectedColors = {document.color} \ {"none"}
    /\ \A r \in Rows :
         isOn[r] => label[r] \in {None, AddressOf[document.location]}

(***************************************************************************)
(* The form ends the process in three situations only: it was opened       *)
(* before the first location fix, it is saved under the user's name before *)
(* the profile has arrived, or two remove buttons fired in one event.  No  *)
(* other order of taps and answers reaches a forced unwrapping of nil.     *)
(***************************************************************************)
TrapsOnlyThere ==
  trapped => \/ userLocation = None
             \/ ~anonymous /\ userName = None
             \/ fired # {}

(***************************************************************************)
(* A published testimonial is the text the user has left in the view, with *)
(* the exceptions of Kept; and where the view shows it in black it has     *)
(* nothing of the form's in it.  In grey it may be the placeholder, alone  *)
(* or, after a return key in an empty view, with the user's words.         *)
(***************************************************************************)
PublishedTestimonialIsTheUsers ==
  document # None =>
    /\ Kept(document.testimonial)
    /\ ~grey => \A i \in DOMAIN document.testimonial : document.testimonial[i] # Hint

(***************************************************************************)
(* The form as Home sees it: PinForm's promise is kept by every order of   *)
(* the widgets' events.                                                    *)
(***************************************************************************)
FormAsSeenByHome ==
  IF trapped THEN "trapped"
  ELSE IF ~loaded THEN "closed"
  ELSE IF ending = "none" THEN "open"
  ELSE ending

Promise == INSTANCE PinForm WITH
             Documents <- FeelingDocument,
             form <- FormAsSeenByHome,
             offer <- {touchedLocation, userLocation} \ {None},
             name <- userName

KeepsThePromise == Promise!FormSpec

-----------------------------------------------------------------------------
(***************************************************************************)
(* The form says "Digite ao menos uma emoção" (enter at least one          *)
(* emotion).  saveEmotionPressed does not ask for one.                     *)
(***************************************************************************)
PublishedFeelingHasATag == document # None => document.tags # <<>>

=============================================================================
