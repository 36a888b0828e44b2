---------------------------- MODULE LocationChoice ----------------------------
(***************************************************************************)
(* The location part of the form: two RadioButtons, one for the place the  *)
(* user pressed on the map and one for the place the user is, each beside  *)
(* a label that a reverse geocoding fills in when its answer arrives.      *)
(***************************************************************************)
EXTENDS Naturals

CONSTANTS
  Coords,      \* the coordinates the map and the location manager hand over
  Origin,      \* CLLocationCoordinate2D(), where a new EmotionPin is
  None,        \* Swift's nil
  Addresses,   \* what a row's label can display
  AddressOf    \* the text recoveryAddress puts together for a coordinate

ASSUME CoordsAssumption ==
  /\ Origin \in Coords
  /\ None \notin Coords
  /\ None \notin Addresses
  /\ AddressOf \in [Coords -> Addresses]

Rows == {"tapped", "user"}

VARIABLES
  loaded,           \* viewDidLoad has run
  touchedLocation,  \* handed over by Home: None unless the map was pressed
  userLocation,     \* handed over by Home: None before the first location fix
  isOn,             \* the state of each radio button
  tappedRowHidden,  \* the row of the tapped location is not on the screen
  label,            \* what each row displays, None for the storyboard's text
  geocoding         \* the rows whose reverse geocoding is under way

locVars == <<loaded, touchedLocation, userLocation, isOn, tappedRowHidden, label, geocoding>>

(* The storyboard sets isOn to these values before awakeFromNib runs, ...  *)
StoryboardIsOn == [tapped |-> FALSE, user |-> TRUE]

(* Faulty variant: the storyboard's values stay.                           *)
AwakeFromNibKeeping(storyboardIsOn) == storyboardIsOn

(* ... which turns every radio button off.                                 *)
AwakeFromNib(storyboardIsOn) == [r \in Rows |-> FALSE]

LocInit ==
  /\ loaded = FALSE
  /\ touchedLocation = None
  /\ userLocation = None
  /\ isOn = AwakeFromNib(StoryboardIsOn)
  /\ tappedRowHidden = FALSE
  /\ label = [r \in Rows |-> None]
  /\ geocoding = {}

-----------------------------------------------------------------------------
(* The form is presented with the locations Home hands over and its view   *)
(* loads.  recoveryAddress is called for every row on the screen; for the  *)
(* user's row it is called even when there is no location, and traps: the  *)
(* module that composes this one ends the process.                         *)
LoadLocations(touched, here) ==
  /\ ~loaded
  /\ loaded' = TRUE
  /\ touchedLocation' = touched
  /\ userLocation' = here
  /\ isOn' = IF touched = None
             THEN [isOn EXCEPT !.user = TRUE, !.tapped = FALSE]
             ELSE [isOn EXCEPT !.tapped = TRUE]
  /\ tappedRowHidden' = (touched = None)
  /\ geocoding' = {r \in Rows : r = "tapped" => touched # None}
  /\ UNCHANGED label

(* A tap on a radio button turns it on and its alternates off.             *)
UnselectAlternateButtons(r) ==
  /\ loaded
  /\ r = "tapped" => ~tappedRowHidden
  /\ isOn' = [q \in Rows |-> q = r]
  /\ UNCHANGED <<loaded, touchedLocation, userLocation, tappedRowHidden, label, geocoding>>

Coordinate(r) == IF r = "tapped" THEN touchedLocation ELSE userLocation

(* Faulty variant: the labels of the two rows are confused.                *)
AddressFoundForOtherRow(r) ==
  /\ r \in geocoding
  /\ geocoding' = geocoding \ {r}
  /\ \E other \in Rows \ {r} : label' = [label EXCEPT ![other] = AddressOf[Coordinate(r)]]
  /\ UNCHANGED <<loaded, touchedLocation, userLocation, isOn, tappedRowHidden>>

(* A geocoder answers; the answers of the two rows come in either order.   *)
AddressFound(r) ==
  /\ r \in geocoding
  /\ geocoding' = geocoding \ {r}
  /\ label' = [label EXCEPT ![r] = AddressOf[Coordinate(r)]]
  /\ UNCHANGED <<loaded, touchedLocation, userLocation, isOn, tappedRowHidden>>

(* An error leaves the label as it is.                                     *)
AddressFailed(r) ==
  /\ r \in geocoding
  /\ geocoding' = geocoding \ {r}
  /\ UNCHANGED <<loaded, touchedLocation, userLocation, isOn, tappedRowHidden, label>>

(* The location a save publishes: with both radio buttons off it would be  *)
(* the coordinate a new EmotionPin starts with.                            *)
ChosenLocation ==
  IF isOn["tapped"] THEN touchedLocation
  ELSE IF isOn["user"] THEN userLocation
  ELSE Origin

-----------------------------------------------------------------------------
LocTypeOK ==
  /\ loaded \in BOOLEAN
  /\ touchedLocation \in Coords \cup {None}
  /\ userLocation \in Coords \cup {None}
  /\ isOn \in [Rows -> BOOLEAN]
  /\ tappedRowHidden \in BOOLEAN
  /\ label \in [Rows -> Addresses \cup {None}]
  /\ geocoding \subseteq Rows

(***************************************************************************)
(* A loaded form has exactly one radio button on, and it is one of a row   *)
(* that is on the screen: otherwise a save would publish the coordinate a  *)
(* new EmotionPin starts with, or a location that does not exist.          *)
(***************************************************************************)
OneVisibleRowIsChosen ==
  loaded => \E r \in Rows :
              /\ isOn = [q \in Rows |-> q = r]
              /\ r = "tapped" => touchedLocation # None

(***************************************************************************)
(* The address beside the radio button that is on is never the address of  *)
(* another place than the one a save would publish, whatever the order of  *)
(* the geocoders' answers and of the taps.                                 *)
(***************************************************************************)
ChosenRowShowsItsAddress ==
  \A r \in Rows :
    loaded /\ isOn[r] /\ label[r] # None => label[r] = AddressOf[ChosenLocation]

=============================================================================
