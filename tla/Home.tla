--------------------------------- MODULE Home ---------------------------------
(***************************************************************************)
(* HomeViewController on one phone, from the login to the end of the       *)
(* process: the profile it asks for, the fetches it starts each time it    *)
(* appears, the user's location, the map (MapPins) and the form it         *)
(* presents (PinForm, the promise of AddFeeling), over the document store  *)
(* (PinStore, the promise of Firestore) it shares with the other devices.  *)
(***************************************************************************)
EXTENDS MapPins

CONSTANTS
  Devices,
  Phone,       \* the device Home runs on
  Profile,     \* the document of its user in the collection "users"
  Coords,
  Names,
  Anonymous,
  MaxVisits    \* bound: how often the user leaves the map or relaunches the app

ASSUME HomeAssumption ==
  /\ Phone \in Devices
  /\ Profile \notin Feelings /\ Profile.firstname \in Names
  /\ None \notin Coords \cup Names \cup {Anonymous}
  /\ MaxVisits \in Nat

VARIABLES
  screen,        \* "entry", "loading", "appearing", "map", "away" or "form"
  trapped,       \* a Swift runtime trap has ended the process
  userLocation,  \* self.userLocation
  locating,      \* the location manager is updating
  failed,        \* a fetch of pins has failed since Home last appeared
  visits,        \* how often Home has appeared or the app was relaunched
  promised,      \* history: the feelings published in this process
  form, offer, name, document,                    \* PinForm
  committed, refused, writtenOn, known, asked, answered     \* PinStore

homeVars == <<screen, trapped, userLocation, locating, failed, visits, promised>>
formVars == <<form, offer, name, document>>
docVars == <<committed, refused, writtenOn, known, asked, answered>>
vars == <<mapVars, homeVars, formVars, docVars>>

Queries == {"pins", "users"}
Matching == [pins |-> Feelings, users |-> {Profile}]

Form == INSTANCE PinForm WITH Documents <- Feelings

Store == INSTANCE PinStore WITH
           Docs <- Feelings \cup {Profile}, Ids <- (0 .. MaxVisits + 1) \X Queries

(* The process starts with the entry screen and nothing in memory.         *)
Init ==
  /\ MapInit
  /\ Form!FormInit
  /\ Store!StoreInit
  /\ screen = "entry"
  /\ trapped = FALSE
  /\ userLocation = None
  /\ locating = FALSE
  /\ failed = FALSE
  /\ visits = 0
  /\ promised = {}

-----------------------------------------------------------------------------
(* The account is created and its profile is written, here or elsewhere;   *)
(* on the phone Home follows.                                              *)
SignUp(d) ==
  /\ d = Phone => ~trapped /\ screen = "entry" /\ visits = 0
  /\ Store!StoreWrite(d, Profile)
  /\ screen' = IF d = Phone THEN "loading" ELSE screen
  /\ UNCHANGED <<mapVars, formVars, trapped, userLocation, locating, failed, visits, promised>>

(* viewDidLoad, after a login or after the account has been created.       *)
ViewDidLoad ==
  /\ ~trapped
  /\ screen \in {"entry", "loading"}
  /\ screen' = "appearing"
  /\ locating' = TRUE
  /\ Store!StoreAsk(Phone, <<visits, "users">>, "users")
  /\ UNCHANGED <<mapVars, formVars, trapped, userLocation, failed, visits, promised>>

(* Faulty variant: a map that has pins is not fetched again.               *)
ViewDidAppearOnce ==
  /\ ~trapped
  /\ screen = "appearing"
  /\ screen' = "map"
  /\ locating' = TRUE
  /\ visits' = visits + 1
  /\ failed' = FALSE
  /\ form' = "closed" /\ offer' = {} /\ document' = None
  /\ IF pins = <<>> THEN Store!StoreAsk(Phone, <<visits', "pins">>, "pins") ELSE UNCHANGED docVars
  /\ UNCHANGED <<mapVars, name, trapped, userLocation, promised>>

(* viewDidAppear, also each time the form, the detail or the other tab has *)
(* gone: the location manager starts again and all pins are fetched.       *)
ViewDidAppear ==
  /\ ~trapped
  /\ screen = "appearing"
  /\ screen' = "map"
  /\ locating' = TRUE
  /\ visits' = visits + 1
  /\ failed' = FALSE
  /\ form' = "closed" /\ offer' = {} /\ document' = None
  /\ Store!StoreAsk(Phone, <<visits', "pins">>, "pins")
  /\ UNCHANGED <<mapVars, name, trapped, userLocation, promised>>

(* Faulty variant: the updates are not stopped.                            *)
DidUpdateLocationsAgain(c) ==
  /\ ~trapped
  /\ locating
  /\ userLocation' = c
  /\ UNCHANGED <<mapVars, formVars, docVars, screen, trapped, locating, failed, visits, promised>>

(* didUpdateLocations: the first fix stops the updates, whatever screen    *)
(* covers Home.                                                            *)
DidUpdateLocations(c) ==
  /\ ~trapped
  /\ locating
  /\ locating' = FALSE
  /\ userLocation' = c
  /\ UNCHANGED <<mapVars, formVars, docVars, screen, trapped, failed, visits, promised>>

-----------------------------------------------------------------------------
(* The completion blocks.  They find the controller whatever screen covers *)
(* it.                                                                     *)
Trap ==
  /\ trapped' = TRUE
  /\ promised' = {}

ProfileArrives(get, docs) ==
  /\ ~trapped
  /\ get.query = "users"
  /\ Store!StoreAnswer(Phone, get, docs)
  /\ IF docs = {} THEN Trap /\ UNCHANGED formVars
     ELSE Form!LearnName(Profile.firstname) /\ UNCHANGED <<trapped, promised>>
  /\ UNCHANGED <<mapVars, screen, userLocation, locating, failed, visits>>

PinsArrive(get, docs) ==
  /\ ~trapped
  /\ get.query = "pins"
  /\ Store!StoreAnswer(Phone, get, docs)
  /\ IF \E f \in docs : Untagged(f) THEN Trap /\ UNCHANGED mapVars
     ELSE ShowFetched(docs) /\ UNCHANGED <<trapped, promised>>
  /\ UNCHANGED <<formVars, screen, userLocation, locating, failed, visits>>

(* Faulty variant: an error of the profile query is not looked at.         *)
AnswerIsErrorUnread(get) ==
  /\ ~trapped
  /\ Store!StoreFail(Phone, get)
  /\ failed' = (failed \/ get.query = "pins")
  /\ IF get.query = "users" THEN Trap ELSE UNCHANGED <<trapped, promised>>
  /\ UNCHANGED <<mapVars, formVars, screen, userLocation, locating, visits>>

AnswerIsError(get) ==
  /\ ~trapped
  /\ Store!StoreFail(Phone, get)
  /\ failed' = (failed \/ get.query = "pins")
  /\ UNCHANGED <<mapVars, formVars, screen, trapped, userLocation, locating, visits, promised>>

Answered(get) ==
  \/ \E docs \in SUBSET {Profile} : ProfileArrives(get, docs)
  \/ \E docs \in SUBSET Feelings : PinsArrive(get, docs)
  \/ AnswerIsError(get)

-----------------------------------------------------------------------------
(* The form is presented with the locations Home has at that moment and    *)
(* with its User object.                                                   *)
PresentForm(touched) ==
  /\ ~trapped
  /\ screen = "map"
  /\ visits < MaxVisits
  /\ Form!OpenForm(touched, userLocation)
  /\ screen' = "form"
  /\ IF form' = "trapped" THEN Trap ELSE UNCHANGED <<trapped, promised>>
  /\ UNCHANGED <<mapVars, docVars, userLocation, locating, failed, visits>>

TapGesture(c) == PresentForm(c)
AddFeelingPressed == PresentForm(None)

(* Faulty variant: Home is not told that the form has gone.                *)
FormPublishesUnseen(feeling) ==
  /\ ~trapped
  /\ screen = "form"
  /\ Form!PublishForm
  /\ document' = feeling
  /\ Store!StoreWrite(Phone, feeling)
  /\ promised' = promised \cup {feeling}
  /\ screen' = "map"
  /\ UNCHANGED <<mapVars, trapped, userLocation, locating, failed, visits>>

(* A save hands the document to setData and dismisses the form.            *)
FormPublishes(feeling) ==
  /\ ~trapped
  /\ screen = "form"
  /\ Form!PublishForm
  /\ document' = feeling
  /\ Store!StoreWrite(Phone, feeling)
  /\ promised' = promised \cup {feeling}
  /\ screen' = "appearing"
  /\ UNCHANGED <<mapVars, trapped, userLocation, locating, failed, visits>>

FormIsCancelled ==
  /\ ~trapped
  /\ screen = "form"
  /\ Form!CancelForm
  /\ screen' = "appearing"
  /\ UNCHANGED <<mapVars, docVars, trapped, userLocation, locating, failed, visits, promised>>

FormTraps ==
  /\ ~trapped
  /\ screen = "form"
  /\ Form!TrapForm
  /\ Trap
  /\ UNCHANGED <<mapVars, docVars, screen, userLocation, locating, failed, visits>>

-----------------------------------------------------------------------------
LookAtMap ==
  /\ ~trapped
  /\ screen = "map"
  /\ \/ \E a \in DOMAIN pins : ViewFor(a)
     \/ \E v \in DOMAIN views : ScrollOff(v)
  /\ UNCHANGED <<homeVars, formVars, docVars>>

(* The callout's button opens the detail screen.                           *)
OpenDetail(v) ==
  /\ ~trapped
  /\ screen = "map"
  /\ visits < MaxVisits
  /\ CalloutAccessoryControlTapped(v)
  /\ screen' = "away"
  /\ UNCHANGED <<formVars, docVars, trapped, userLocation, locating, failed, visits, promised>>

(* The user goes to the other tab, or comes back from it or the detail.    *)
SwitchTab ==
  /\ ~trapped
  /\ \/ screen = "map" /\ visits < MaxVisits /\ screen' = "away"
     \/ screen = "away" /\ screen' = "appearing"
  /\ UNCHANGED <<mapVars, formVars, docVars, trapped, userLocation, locating, failed, visits,
                 promised>>

-----------------------------------------------------------------------------
(* The process ends, or a trap has ended it, and the app is started again. *)
Relaunch ==
  /\ visits < MaxVisits
  /\ Store!StoreRestart(Phone)
  /\ pins' = <<>> /\ views' = <<>> /\ infoPin' = None /\ tapped' = 0
  /\ form' = "closed" /\ offer' = {} /\ name' = None /\ document' = None
  /\ screen' = "entry" /\ trapped' = FALSE
  /\ userLocation' = None /\ locating' = FALSE
  /\ failed' = FALSE /\ promised' = {}
  /\ visits' = visits + 1

(* Other devices write, the server decides, the phone hears of it.         *)
OthersPublish(d, feeling) ==
  /\ d # Phone
  /\ Store!StoreWrite(d, feeling)
  /\ UNCHANGED <<mapVars, homeVars, formVars>>

StoreDecides ==
  /\ \/ \E doc \in Feelings \cup {Profile} : Store!StoreCommit(doc) \/ Store!StoreRefuse(doc)
     \/ ~trapped /\ Store!StoreLearn(Phone)
  /\ UNCHANGED <<mapVars, homeVars, formVars>>

Next ==
  \/ \E d \in Devices :
       \/ SignUp(d)
       \/ \E feeling \in Feelings : OthersPublish(d, feeling)
  \/ ViewDidLoad
  \/ ViewDidAppear
  \/ \E c \in Coords : DidUpdateLocations(c) \/ TapGesture(c)
  \/ AddFeelingPressed
  \/ \E get \in asked[Phone] : Answered(get)
  \/ \E feeling \in Feelings : FormPublishes(feeling)
  \/ FormIsCancelled
  \/ FormTraps
  \/ LookAtMap
  \/ \E v \in DOMAIN views : OpenDetail(v)
  \/ SwitchTab
  \/ Relaunch
  \/ StoreDecides

Spec == Init /\ [][Next]_vars

(* UIKit delivers viewDidAppear; Firestore answers every get, which it     *)
(* promises under a condition on the network (EveryGetEnds of Firestore).  *)
FairSpec ==
  /\ Spec
  /\ WF_vars(ViewDidAppear)
  /\ WF_vars(\E get \in asked[Phone] : Answered(get))

-----------------------------------------------------------------------------
HomeTypeOK ==
  /\ MapTypeOK
  /\ screen \in {"entry", "loading", "appearing", "map", "away", "form"}
  /\ trapped \in BOOLEAN
  /\ userLocation \in Coords \cup {None}
  /\ locating \in BOOLEAN
  /\ failed \in BOOLEAN
  /\ visits \in 0 .. MaxVisits + 1
  /\ promised \subseteq Feelings
  /\ form \in {"closed", "open", "published", "cancelled", "trapped"}
  /\ offer \subseteq Coords
  /\ name \in Names \cup {None}
  /\ document \in Feelings \cup {None}

Waiting(query) == {get \in asked[Phone] : get.query = query}

(***************************************************************************)
(* When Home is on the screen, no fetch is under way and none has failed   *)
(* since it appeared, every feeling the phone ever published is on the     *)
(* map, acknowledged or not, in this process or an earlier one, unless it  *)
(* was refused or died with a process.  It rests on the order in which a   *)
(* save and the fetch of the next viewDidAppear are called.                *)
(***************************************************************************)
OwnFeelingsAreOnTheMap ==
  ~trapped /\ screen = "map" /\ Waiting("pins") = {} /\ ~failed
    => writtenOn[Phone] \cap Feelings \subseteq ToSet(pins) \cup refused

(***************************************************************************)
(* The app traps for few reasons: its form traps, a feeling without a tag  *)
(* has been published, or the profile arrives and there is none, which     *)
(* cannot happen when the phone has written it or has heard of it before   *)
(* Home asks, unless the server refuses it.                                *)
(***************************************************************************)
TrapsForAReason ==
  [][~trapped /\ trapped' =>
       \/ form' = "trapped"
       \/ \E f \in Feelings : Untagged(f) /\ f \in committed \cup writtenOn[Phone]
       \/ \E get \in asked[Phone] \ asked'[Phone] :
            get.query = "users" /\ Profile \notin get.owes \ refused]_vars

(***************************************************************************)
(* The form offers the place of the user that Home knows.  It is given a   *)
(* copy when it opens and Home's fixes do not reach it, so the two differ  *)
(* only by the one fix that each appearance of Home asks for, when that    *)
(* fix comes while the form is already open; no second one follows it.     *)
(***************************************************************************)
OfferIsCurrent ==
  screen = "form" /\ ~trapped /\ locating => userLocation \in offer

(***************************************************************************)
(* A published feeling comes to the map although nobody asks for it: the   *)
(* dismissal of the form makes Home appear and fetch.  Excepted are a      *)
(* refusal, a failed fetch, and the end of the process.                    *)
(***************************************************************************)
PublishedComesToTheMap ==
  \A f \in Feelings :
    f \in promised ~> f \notin promised \/ f \in ToSet(pins) \cup refused \/ failed

=============================================================================
