---------------------------- MODULE Overlays_proofs ----------------------------
(***************************************************************************)
(* Proofs about what moves and covers the screens, for any distances,      *)
(* heights of the keyboard, emojis and bounds.                             *)
(***************************************************************************)
EXTENDS Overlays, FiniteSetTheorems, TLAPS

(* While the keyboard is up, a screen that uses a fixed distance is lifted *)
(* by exactly that distance, however often the keyboard was shown.         *)
LiftedWithKeyboard(s) ==
  keyboard /\ s \in DOMAIN Lifts => offset = 0 - Lifts[s] /\ strays = 0

KeyboardInv == KeyboardTypeOK /\ ScreensAreInPlace /\ LiftedWithKeyboard(screen)

(* The current card is below the edge only while a closing runs, and each  *)
(* opening over another card leaves at most that one behind.               *)
CardsLeftBehind ==
  /\ current \in below => closing > 0
  /\ Cardinality(cards \ {current}) <= replaced

CardInv == CardTypeOK /\ opening <= current /\ replaced <= current /\ CardsLeftBehind

OverlaysInv ==
  /\ screen \in {"entry", "login", "signup", "home", "form"}
  /\ KeyboardInv
  /\ CardInv
  /\ SearchTypeOK

-----------------------------------------------------------------------------
LEMMA OverlaysInitInv == Init => OverlaysInv
<1> SUFFICES ASSUME Init PROVE OverlaysInv
  OBVIOUS
<1>1. KeyboardInv
  <2>1. 0 \in 0 .. MaxStrays /\ "entry" \notin DOMAIN Lifts
    BY KeyboardAssumption
  <2>2. KeyboardTypeOK
    BY <2>1, 0 \in Int DEF Init, KeyboardInit, KeyboardTypeOK
  <2>4. LiftedWithKeyboard(screen)
    BY DEF Init, KeyboardInit, LiftedWithKeyboard
  <2>3. ScreensAreInPlace
    BY <2>1 DEF Init, KeyboardInit, ScreensAreInPlace, PlacedWithoutKeyboard
  <2> QED
    BY <2>2, <2>3, <2>4 DEF KeyboardInv
<1>2. CardInv
  <2>1. 0 \in 0 .. MaxCards /\ 0 \in 0 .. MaxClosings /\ 0 <= 0
    BY CardAssumption
  <2>2. Cardinality({}) = 0 /\ {} \ {0} = {}
    BY FS_EmptySet
  <2> QED
    BY <2>1, <2>2 DEF Init, CardInit, CardInv, CardTypeOK, CardsLeftBehind
<1>3. SearchTypeOK
  BY SearchAssumption DEF Init, SearchInit, SearchTypeOK
<1> QED
  BY <1>1, <1>2, <1>3 DEF Init, OverlaysInv

-----------------------------------------------------------------------------
(* The keyboard.                                                           *)
LEMMA NewControllerIsInPlace ==
  ASSUME NewController
  PROVE  KeyboardInv'
<1>1. 0 \in 0 .. MaxStrays /\ \A s \in DOMAIN Lifts : 0 * Lifts[s] = 0
  BY KeyboardAssumption
<1>2. KeyboardTypeOK'
  BY <1>1, 0 \in Int DEF NewController, KeyboardTypeOK
<1>3. ScreensAreInPlace'
  BY <1>1 DEF NewController, ScreensAreInPlace, PlacedWithoutKeyboard
<1>4. LiftedWithKeyboard(screen)'
  BY DEF NewController, LiftedWithKeyboard
<1> QED
  BY <1>2, <1>3, <1>4 DEF KeyboardInv

LEMMA ShowLifts ==
  ASSUME KeyboardInv, NEW height \in Heights, KeyboardWillShow(screen, height), UNCHANGED screen
  PROVE  KeyboardInv'
<1>1. offset' \in Int /\ (screen \in DOMAIN Lifts => offset' = 0 - Lifts[screen])
  BY KeyboardAssumption DEF KeyboardWillShow, ShownOffset, KeyboardInv, KeyboardTypeOK
<1> QED
  BY <1>1, KeyboardAssumption
     DEF KeyboardWillShow, KeyboardInv, KeyboardTypeOK, ScreensAreInPlace, PlacedWithoutKeyboard,
         LiftedWithKeyboard

(* A hide after a show undoes it; each further hide moves the screen down. *)
LEMMA HidePutsBack ==
  ASSUME KeyboardInv, KeyboardWillHide(screen), UNCHANGED screen
  PROVE  KeyboardInv'
<1>1. offset \in Int /\ strays \in Nat /\ keyboard \in BOOLEAN
  BY KeyboardAssumption DEF KeyboardInv, KeyboardTypeOK
<1>2. strays' \in 0 .. MaxStrays
  BY KeyboardAssumption DEF KeyboardWillHide, KeyboardInv, KeyboardTypeOK
<1>3. offset' \in Int
  BY <1>1, KeyboardAssumption DEF KeyboardWillHide, HiddenOffset
<1>4. ASSUME screen \in DOMAIN Lifts PROVE offset' = strays' * Lifts[screen]
  <2>1. PICK lift \in Nat : lift = Lifts[screen] /\ offset' = offset + lift
    BY <1>4, KeyboardAssumption DEF KeyboardWillHide, HiddenOffset
  <2>2. CASE keyboard
    <3>1. offset = 0 - lift /\ strays = 0 /\ strays' = strays
      BY <1>4, <2>1, <2>2 DEF KeyboardInv, LiftedWithKeyboard, KeyboardWillHide
    <3> QED
      BY <2>1, <3>1
  <2>3. CASE ~keyboard
    <3>1. offset = strays * lift /\ strays' = strays + 1
      BY <1>4, <2>1, <2>3
         DEF KeyboardInv, ScreensAreInPlace, PlacedWithoutKeyboard, KeyboardWillHide
    <3>2. (strays + 1) * lift = strays * lift + lift
      BY <1>1
    <3> QED
      BY <2>1, <3>1, <3>2
  <2> QED
    BY <2>2, <2>3
<1>5. screen \notin DOMAIN Lifts => offset' = 0
  BY DEF KeyboardWillHide, HiddenOffset
<1> QED
  BY <1>2, <1>3, <1>4, <1>5
     DEF KeyboardWillHide, KeyboardInv, KeyboardTypeOK, ScreensAreInPlace, PlacedWithoutKeyboard,
         LiftedWithKeyboard

LEMMA KeyboardFrame ==
  ASSUME KeyboardInv, UNCHANGED <<keyboard, offset, strays, screen>>, tagText' \in BOOLEAN
  PROVE  KeyboardInv'
BY DEF KeyboardInv, KeyboardTypeOK, ScreensAreInPlace, PlacedWithoutKeyboard, LiftedWithKeyboard

LEMMA KeyboardStep ==
  ASSUME KeyboardInv, [Next]_vars
  PROVE  KeyboardInv'
<1>1. CASE MoveForKeyboard
  <2>1. ASSUME TextFieldEditing(screen), UNCHANGED screen PROVE KeyboardInv'
    BY <2>1, KeyboardFrame DEF TextFieldEditing, KeyboardInv, KeyboardTypeOK
  <2> QED
    BY <1>1, <2>1, ShowLifts, HidePutsBack DEF MoveForKeyboard, KeyboardNext
<1>2. CASE UNCHANGED <<keyboardVars, screen>>
  BY <1>2, KeyboardFrame DEF keyboardVars, KeyboardInv, KeyboardTypeOK
<1> QED
  BY <1>1, <1>2, NewControllerIsInPlace
     DEF Next, vars, OpenSignIn, GoBack, TransitionToHome, OpenForm, DismissForm, UseCard,
         AnimationEnds, Search

-----------------------------------------------------------------------------
(* The card.                                                               *)
LEMMA CardsAreFew ==
  ASSUME CardTypeOK
  PROVE  /\ IsFiniteSet(cards) /\ Cardinality(cards) \in Nat /\ Cardinality(cards \ {current}) \in Nat
         /\ Cardinality(cards) <= Cardinality(cards \ {current}) + 1
<1>1. current \in Int /\ cards \subseteq 1 .. current
  BY CardAssumption DEF CardTypeOK
<1>2. IsFiniteSet(cards)
  <2>1. IsFiniteSet(1 .. current)
    BY <1>1, FS_Interval
  <2> QED
    BY <1>1, <2>1, FS_Subset
<1>3. IsFiniteSet(cards \ {current})
  BY <1>2, FS_Subset
<1>4. Cardinality(cards) \in Nat /\ Cardinality(cards \ {current}) \in Nat
  BY <1>2, <1>3, FS_CardinalityType
<1>5. Cardinality(cards \ {current}) = IF current \in cards THEN Cardinality(cards) - 1 ELSE Cardinality(cards)
  BY <1>2, FS_RemoveElement
<1> QED
  BY <1>2, <1>4, <1>5

LEMMA CardStep ==
  ASSUME CardInv, [Next]_vars
  PROVE  CardInv'
<1> USE DEF CardInv, CardTypeOK, CardsLeftBehind
<1>1. CASE UNCHANGED cardVars
  BY <1>1 DEF cardVars
<1>2. CASE DismissForm
  <2>1. 0 \in 0 .. MaxCards /\ 0 \in 0 .. MaxClosings /\ 0 <= 0
    BY CardAssumption
  <2>2. Cardinality({}) = 0 /\ {} \ {0} = {}
    BY FS_EmptySet
  <2> QED
    BY <1>2, <2>1, <2>2 DEF DismissForm
<1>3. CASE OpenCard
  <2>1. /\ current' = current + 1 /\ current' \in 0 .. MaxCards /\ current < current'
        /\ opening' \in 0 .. MaxCards /\ opening' <= current'
    BY <1>3, CardAssumption DEF OpenCard
  <2>2. replaced' = replaced + OverAnother /\ OverAnother \in {0, 1}
    BY <1>3 DEF OpenCard, OverAnother
  <2>3. replaced' <= current' /\ replaced' \in 0 .. MaxCards
    BY <2>1, <2>2, CardAssumption
  <2>4. cards' \subseteq 1 .. current' /\ current' \notin cards /\ cards' = cards \cup {current'}
    BY <1>3, <2>1 DEF OpenCard
  <2>5. current' \notin below' /\ below' \subseteq cards'
    BY <1>3, <2>4 DEF OpenCard
  <2>6. Cardinality(cards' \ {current'}) <= replaced'
    <3>1. cards' \ {current'} = cards
      BY <2>4
    <3>2. CASE cards = {}
      <4>1. Cardinality(cards) = 0 /\ 0 <= replaced'
        BY <2>3, <3>2, FS_EmptySet
      <4> QED
        BY <3>1, <4>1
    <3>3. CASE cards # {}
      <4>1. replaced' = replaced + 1 /\ replaced \in Nat
        <5>1. replaced \in 0 .. MaxCards /\ MaxCards \in Nat
          BY CardAssumption
        <5>2. OverAnother = 1
          BY <3>3 DEF OverAnother
        <5> QED
          BY <2>2, <5>1, <5>2
      <4>2. /\ Cardinality(cards) \in Nat /\ Cardinality(cards \ {current}) \in Nat
            /\ Cardinality(cards) <= Cardinality(cards \ {current}) + 1
        BY CardsAreFew
      <4>3. Cardinality(cards) <= replaced'
        BY <4>1, <4>2
      <4> QED
        BY <3>1, <4>3
    <3> QED
      BY <3>2, <3>3
  <2> QED
    BY <1>3, <2>1, <2>3, <2>4, <2>5, <2>6 DEF OpenCard
<1>4. ASSUME NEW c \in cards, NEW emoji \in Emojis \cup {NoEmoji}, BackButton(c, emoji)
      PROVE  CardInv'
  <2>1. closing' \in 0 .. MaxClosings /\ closing' > 0
    BY <1>4, CardAssumption DEF BackButton
  <2> QED
    BY <1>4, <2>1 DEF BackButton
<1>5. CASE OpeningEnds
  BY <1>5, CardAssumption DEF OpeningEnds
<1>6. CASE ClosingEnds
  <2>1. closing' \in 0 .. MaxClosings
    BY <1>6, CardAssumption DEF ClosingEnds
  <2>2. cards' \ {current'} = cards \ {current} /\ current' \notin below'
    BY <1>6 DEF ClosingEnds
  <2> QED
    BY <1>6, <2>1, <2>2 DEF ClosingEnds
<1> QED
  BY <1>1, <1>2, <1>3, <1>4, <1>5, <1>6
     DEF Next, vars, OpenSignIn, GoBack, TransitionToHome, OpenForm, MoveForKeyboard, UseCard,
         AnimationEnds, Search

-----------------------------------------------------------------------------
(* The searches.                                                           *)
LEMMA SearchStep ==
  ASSUME SearchTypeOK, [Next]_vars
  PROVE  SearchTypeOK'
<1>1. CASE UNCHANGED searchVars
  BY <1>1 DEF searchVars, SearchTypeOK
<1>2. CASE UpdateSearchResults
  <2>1. searches' = searches + 1 /\ searches' \in 0 .. MaxSearches
    BY <1>2, SearchAssumption DEF UpdateSearchResults, SearchTypeOK
  <2>2. searching' \subseteq 1 .. searches' /\ answers \subseteq (1 .. searches') \ searching'
    BY <1>2, <2>1 DEF UpdateSearchResults, SearchTypeOK
  <2> QED
    BY <1>2, <2>1, <2>2 DEF UpdateSearchResults, SearchTypeOK
<1>3. ASSUME NEW n \in searching, SearchAnswers(n) \/ SearchFails(n) PROVE SearchTypeOK'
  BY <1>3 DEF SearchAnswers, SearchFails, SearchTypeOK
<1> QED
  BY <1>1, <1>2, <1>3
     DEF Next, vars, OpenSignIn, GoBack, TransitionToHome, OpenForm, DismissForm, MoveForKeyboard,
         UseCard, AnimationEnds, Search

-----------------------------------------------------------------------------
LEMMA OverlaysStepInv == OverlaysInv /\ [Next]_vars => OverlaysInv'
<1> SUFFICES ASSUME OverlaysInv, [Next]_vars PROVE OverlaysInv'
  OBVIOUS
<1>1. screen' \in {"entry", "login", "signup", "home", "form"}
  BY DEF OverlaysInv, Next, vars, OpenSignIn, GoBack, TransitionToHome, OpenForm, DismissForm,
         MoveForKeyboard, UseCard, AnimationEnds, Search
<1> QED
  BY <1>1, KeyboardStep, CardStep, SearchStep DEF OverlaysInv

(* The inductive invariant of what moves and covers the screens.           *)
THEOREM OverlaysInvariant == Spec => []OverlaysInv
BY OverlaysInitInv, OverlaysStepInv, PTL DEF Spec

(***************************************************************************)
(* The keyboard's offset, the cards and the searches keep their types; no  *)
(* more opening animations run than cards were opened.                     *)
(***************************************************************************)
THEOREM OverlaysTypeCorrect == Spec => []OverlaysTypeOK
<1>1. OverlaysInv => OverlaysTypeOK
  BY DEF OverlaysInv, KeyboardInv, CardInv, OverlaysTypeOK
<1> QED
  BY <1>1, OverlaysInvariant, PTL

(***************************************************************************)
(* Without a keyboard every screen is in its place, or lower by its        *)
(* distance for each hide that came without a show, for any distances and  *)
(* any order of the notifications.                                         *)
(***************************************************************************)
THEOREM ScreensComeBack == Spec => []ScreensAreInPlace
<1>1. OverlaysInv => ScreensAreInPlace
  BY DEF OverlaysInv, KeyboardInv
<1> QED
  BY <1>1, OverlaysInvariant, PTL

(***************************************************************************)
(* When no closing runs the current card can be touched, and of the others *)
(* there is at most one for each opening over a card, however openings,    *)
(* touches and completion blocks interleave.                               *)
(***************************************************************************)
THEOREM CoveredFormsCanBeUncovered == Spec => []CoveredFormHasItsCard
<1>1. ASSUME OverlaysInv, closing = 0, current \in cards
      PROVE  CardIsReachable(current)
  <2>1. CardInv /\ current \notin below
    <3>1. CardInv /\ ~(closing > 0)
      BY <1>1, CardAssumption DEF OverlaysInv
    <3> QED
      BY <3>1 DEF CardInv, CardsLeftBehind
  <2>2. current \in Nat /\ \A c \in cards : c \in Nat /\ c <= current
    BY <2>1, CardAssumption DEF CardInv, CardTypeOK
  <2>3. Max(cards) = current
    <3>1. \A c \in cards : current >= c
      BY <2>2
    <3>2. PICK m : m = Max(cards)
      OBVIOUS
    <3>3. m \in cards /\ \A c \in cards : m >= c
      BY <1>1, <3>1, <3>2 DEF Max
    <3>4. m >= current /\ current >= m /\ m \in Nat
      BY <1>1, <2>2, <3>1, <3>3
    <3> QED
      BY <2>2, <3>2, <3>4
  <2> QED
    BY <1>1, <2>1, <2>3 DEF CardIsReachable
<1>2. OverlaysInv => CoveredFormHasItsCard
  BY <1>1 DEF CoveredFormHasItsCard, OverlaysInv, CardInv, CardsLeftBehind
<1> QED
  BY <1>2, OverlaysInvariant, PTL

(***************************************************************************)
(* The table under the search bar goes back to earlier items only when an  *)
(* answer that was overtaken arrives.                                      *)
(***************************************************************************)
THEOREM OnlyLateAnswersGoBack == Spec => TableGoesForward
<1> DEFINE Forward == (\A n \in searching : n > matchingItems) => matchingItems' >= matchingItems
<1>1. ASSUME OverlaysInv, [Next]_vars PROVE [Forward]_searchVars
  <2>1. matchingItems \in Nat
    BY <1>1, SearchAssumption DEF OverlaysInv, SearchTypeOK
  <2>2. ASSUME NEW n \in searching, SearchAnswers(n) PROVE Forward
    <3>1. n \in Nat /\ matchingItems' = n
      BY <1>1, <2>2, SearchAssumption DEF OverlaysInv, SearchTypeOK, SearchAnswers
    <3> QED
      BY <2>1, <2>2, <3>1
  <2>3. ASSUME UNCHANGED matchingItems PROVE Forward
    BY <2>1, <2>3
  <2> QED
    BY <1>1, <2>2, <2>3
       DEF Next, vars, OpenSignIn, GoBack, TransitionToHome, OpenForm, DismissForm, MoveForKeyboard,
           UseCard, AnimationEnds, Search, SearchFails, UpdateSearchResults, searchVars
<1>2. OverlaysInv /\ [Next]_vars => [Forward]_searchVars
  BY <1>1
<1> QED
  BY <1>2, OverlaysInvariant, PTL DEF Spec, TableGoesForward

=============================================================================
