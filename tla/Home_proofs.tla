------------------------------ MODULE Home_proofs ------------------------------
(***************************************************************************)
(* Proofs about the map and about Home, for any feelings, devices, places, *)
(* names and bounds.                                                       *)
(***************************************************************************)
EXTENDS Home, SequenceLemmas, TLAPS

-----------------------------------------------------------------------------
(* The map.                                                                *)
Tagged == {f \in Feelings : ~Untagged(f)}

MapInv == MapTypeOK /\ FreshViewsAreRight /\ DetailFitsTheCallout

(* A loop that keeps the last pin that agrees with an annotation finds     *)
(* one: the pin the annotation was made for agrees.                        *)
LEMMA LastLikeAgrees ==
  ASSUME pins \in Seq(Tagged), NEW a \in DOMAIN pins
  PROVE  LastLike(a) \in DOMAIN pins /\ Annotation(pins[LastLike(a)]) = Annotation(pins[a])
<1> DEFINE same == {i \in 1 .. Len(pins) : Annotation(pins[i]) = Annotation(pins[a])}
<1>1. Len(pins) \in Nat /\ DOMAIN pins = 1 .. Len(pins)
  OBVIOUS
<1>2. a \in same /\ same \subseteq 1 .. Len(pins)
  BY <1>1
<1>3. Max(same) \in same
  BY <1>1, <1>2, MaxOf
<1>4. LastLike(a) = Max(same)
  BY <1>2 DEF LastLike, SelectLastInSeq
<1> QED
  BY <1>1, <1>3, <1>4

(* The documents of a snapshot, in its order.                              *)
LEMMA SnapshotListsAll ==
  ASSUME NEW docs \in SUBSET Feelings
  PROVE  InOrder(docs) \in Seq(docs) /\ ToSet(InOrder(docs)) = docs
<1>1. IsSeq(DocOrder) /\ ToSet(DocOrder) = Feelings
  BY FeelingsAssumption DEF IsSeq
<1>2. ToSet(InOrder(docs)) = docs
  BY <1>1, SelectedElements DEF InOrder
<1>3. IsSeq(InOrder(docs))
  BY <1>1, Selected DEF InOrder
<1>4. /\ Len(InOrder(docs)) \in Nat /\ DOMAIN InOrder(docs) = 1 .. Len(InOrder(docs))
      /\ InOrder(docs) = [i \in 1 .. Len(InOrder(docs)) |-> InOrder(docs)[i]]
  <2>1. PICK S : InOrder(docs) \in Seq(S)
    BY <1>3 DEF IsSeq
  <2> QED
    BY <2>1
<1>5. \A i \in 1 .. Len(InOrder(docs)) : InOrder(docs)[i] \in docs
  BY <1>2, <1>4 DEF ToSet
<1> QED
  BY <1>2, <1>4, <1>5

(* What a fetch adds to the pins.                                          *)
LEMMA PinsGrow ==
  ASSUME pins \in Seq(Tagged), NEW docs \in SUBSET Feelings, ShowFetched(docs)
  PROVE  /\ pins' \in Seq(Tagged) /\ DOMAIN pins \subseteq DOMAIN pins'
         /\ \A a \in DOMAIN pins : pins'[a] = pins[a]
         /\ ToSet(pins') = ToSet(pins) \cup docs
<1>1. PICK more : more = InOrder(docs) /\ pins' = pins \o more
  BY DEF ShowFetched
<1>2. more \in Seq(docs) /\ ToSet(more) = docs /\ docs \subseteq Tagged
  BY <1>1, SnapshotListsAll DEF ShowFetched, Tagged
<1>3. more \in Seq(Tagged)
  BY <1>2
<1>4. /\ pins' \in Seq(Tagged) /\ Len(pins') = Len(pins) + Len(more)
      /\ Len(pins) \in Nat /\ Len(more) \in Nat
      /\ DOMAIN pins = 1 .. Len(pins) /\ DOMAIN more = 1 .. Len(more)
      /\ DOMAIN pins' = 1 .. Len(pins) + Len(more)
      /\ \A a \in 1 .. Len(pins) : pins'[a] = pins[a]
      /\ \A i \in 1 .. Len(more) : pins'[Len(pins) + i] = more[i]
  BY <1>1, <1>3
<1>5. ToSet(pins) \subseteq ToSet(pins')
  BY <1>4 DEF ToSet
<1>6. docs \subseteq ToSet(pins')
  <2> SUFFICES ASSUME NEW f \in docs PROVE f \in ToSet(pins')
    OBVIOUS
  <2>1. PICK i \in 1 .. Len(more) : more[i] = f
    BY <1>2, <1>4 DEF ToSet
  <2>2. Len(pins) + i \in DOMAIN pins'
    BY <1>4
  <2> QED
    BY <1>4, <2>1, <2>2 DEF ToSet
<1>7. ToSet(pins') \subseteq ToSet(pins) \cup docs
  <2> SUFFICES ASSUME NEW j \in DOMAIN pins' PROVE pins'[j] \in ToSet(pins) \cup docs
    BY DEF ToSet
  <2>1. CASE j \in 1 .. Len(pins)
    BY <1>4, <2>1 DEF ToSet
  <2>2. CASE j \notin 1 .. Len(pins)
    <3> DEFINE i == j - Len(pins)
    <3>1. i \in 1 .. Len(more) /\ j = Len(pins) + i
      BY <1>4, <2>2
    <3> HIDE DEF i
    <3>2. pins'[j] = more[i] /\ more[i] \in ToSet(more)
      BY <1>4, <3>1 DEF ToSet
    <3> QED
      BY <1>2, <3>2
  <2> QED
    BY <2>1, <2>2
<1> QED
  BY <1>4, <1>5, <1>6, <1>7

LEMMA ShowFetchedInv ==
  ASSUME MapInv, NEW docs \in SUBSET Feelings, ShowFetched(docs)
  PROVE  MapInv'
<1>1. /\ pins' \in Seq(Tagged) /\ DOMAIN pins \subseteq DOMAIN pins'
      /\ \A a \in DOMAIN pins : pins'[a] = pins[a]
      /\ ToSet(pins) \subseteq ToSet(pins')
  BY PinsGrow DEF MapInv, MapTypeOK, Tagged
<1>2. UNCHANGED <<views, infoPin, tapped>>
  BY DEF ShowFetched
<1>3. MapTypeOK'
  BY <1>1, <1>2 DEF MapInv, MapTypeOK, Tagged
<1>4. FreshViewsAreRight'
  <2> SUFFICES ASSUME NEW v \in DOMAIN views, ~views[v].recycled, ~Pooled(v)
               PROVE  \E f \in ToSet(pins') : /\ Annotation(f) = Annotation(pins'[views[v].annotation])
                                              /\ f.icon = views[v].image
    BY <1>2 DEF FreshViewsAreRight, Pooled
  <2>1. views[v].annotation \in DOMAIN pins
    BY DEF MapInv, MapTypeOK, Pooled
  <2> QED
    BY <1>1, <2>1 DEF MapInv, FreshViewsAreRight
<1>5. DetailFitsTheCallout'
  BY <1>1, <1>2 DEF MapInv, MapTypeOK, DetailFitsTheCallout
<1> QED
  BY <1>3, <1>4, <1>5 DEF MapInv

LEMMA NewViewInv ==
  ASSUME MapInv, NEW a \in DOMAIN pins, NewView(a)
  PROVE  MapInv'
<1>1. pins \in Seq(Tagged) /\ views \in Seq(View)
  BY DEF MapInv, MapTypeOK, Tagged
<1>2. PICK f \in ToSet(pins) : f = pins[LastLike(a)] /\ Annotation(f) = Annotation(pins[a]) /\ f \in Tagged
  BY <1>1, LastLikeAgrees DEF ToSet
<1>3. PICK new : /\ new = [annotation |-> a, image |-> f.icon, recycled |-> FALSE]
                 /\ views' = Append(views, new) /\ UNCHANGED <<pins, infoPin, tapped>>
  BY <1>2 DEF NewView
<1>4. new \in View /\ new.annotation = a /\ new.image = f.icon
  <2>1. a \in Nat /\ f.icon \in {g.icon : g \in Feelings}
    BY <1>1, <1>2 DEF Tagged
  <2> QED
    BY <1>3, <2>1 DEF View
<1>5. /\ views' \in Seq(View) /\ Len(views') = Len(views) + 1 /\ Len(views) \in Nat
      /\ DOMAIN views = 1 .. Len(views) /\ DOMAIN views' = 1 .. Len(views) + 1
      /\ \A v \in 1 .. Len(views) : views'[v] = views[v]
      /\ views'[Len(views) + 1] = new
  BY <1>1, <1>3, <1>4
<1>6. \A v \in 1 .. Len(views) + 1 : v \in 1 .. Len(views) \/ v = Len(views) + 1
  BY <1>5
<1>7. MapTypeOK'
  <2>1. Len(views') <= MaxViews
    BY <1>5, FeelingsAssumption DEF NewView
  <2> QED
    BY <1>3, <1>4, <1>5, <1>6, <2>1 DEF MapInv, MapTypeOK
<1>8. FreshViewsAreRight'
  <2> SUFFICES ASSUME NEW v \in DOMAIN views', ~views'[v].recycled, ~Pooled(v)'
               PROVE  \E g \in ToSet(pins) : /\ Annotation(g) = Annotation(pins[views'[v].annotation])
                                             /\ g.icon = views'[v].image
    BY <1>3 DEF FreshViewsAreRight
  <2>1. CASE v \in 1 .. Len(views)
    BY <1>3, <1>5, <2>1 DEF MapInv, FreshViewsAreRight, Pooled
  <2>2. CASE v = Len(views) + 1
    BY <1>2, <1>4, <1>5, <2>2
  <2> QED
    BY <1>5, <1>6, <2>1, <2>2
<1>9. DetailFitsTheCallout'
  BY <1>3 DEF MapInv, DetailFitsTheCallout
<1> QED
  BY <1>7, <1>8, <1>9 DEF MapInv

(* A view that goes into the pool or is taken out of it.                   *)
LEMMA ReuseInv ==
  ASSUME MapInv, NEW v \in DOMAIN views, NEW a \in {0} \cup DOMAIN pins, NEW again \in BOOLEAN,
         views' = [views EXCEPT ![v].annotation = a, ![v].recycled = again],
         a # 0 => again, UNCHANGED <<pins, infoPin, tapped>>
  PROVE  MapInv'
<1>1. views \in Seq(View) /\ pins \in Seq(Tagged)
  BY DEF MapInv, MapTypeOK, Tagged
<1>2. PICK new : new = [annotation |-> a, image |-> views[v].image, recycled |-> again]
  OBVIOUS
<1>3. new \in View /\ views[v] \in View
  <2>1. views[v] \in View
    BY <1>1
  <2>2. a \in Nat
    <3>1. Len(pins) \in Nat /\ DOMAIN pins = 1 .. Len(pins)
      BY <1>1
    <3> QED
      BY <3>1
  <2> QED
    BY <1>2, <2>1, <2>2 DEF View
<1>4. /\ views' \in Seq(View) /\ Len(views') = Len(views) /\ DOMAIN views' = DOMAIN views
      /\ \A w \in DOMAIN views : views'[w] = IF w = v THEN new ELSE views[w]
  <2>1. /\ Len(views) \in Nat /\ DOMAIN views = 1 .. Len(views)
        /\ views = [w \in 1 .. Len(views) |-> views[w]]
        /\ \A w \in 1 .. Len(views) : views[w] \in View
    BY <1>1
  <2>2. PICK half : half = [views EXCEPT ![v].annotation = a]
    OBVIOUS
  <2>3. views[v] = [annotation |-> views[v].annotation, image |-> views[v].image,
                    recycled |-> views[v].recycled]
    BY <1>3 DEF View
  <2>4. half[v] = [annotation |-> a, image |-> views[v].image, recycled |-> views[v].recycled]
    BY <2>2, <2>3
  <2>5. views' = [half EXCEPT ![v].recycled = again]
    BY <2>2
  <2>6. views'[v] = new
    BY <1>2, <2>1, <2>2, <2>4, <2>5
  <2>7. views' = [w \in 1 .. Len(views) |-> IF w = v THEN new ELSE views[w]]
    BY <2>1, <2>2, <2>5, <2>6
  <2>8. DOMAIN views' = DOMAIN views /\ \A w \in DOMAIN views : views'[w] = IF w = v THEN new ELSE views[w]
    BY <2>1, <2>7
  <2>9. \A w \in 1 .. Len(views) : views'[w] \in View
    BY <1>3, <2>1, <2>8
  <2>10. views' = [w \in 1 .. Len(views) |-> views'[w]]
    BY <2>7
  <2>11. views' \in Seq(View) /\ Len(views') = Len(views)
    <3>1. views' \in [1 .. Len(views) -> View] /\ Len(views) \in Nat
      BY <2>1, <2>9, <2>10
    <3>2. \A n \in Nat : \A f \in [1 .. n -> View] : f \in Seq(View) /\ Len(f) = n
      OBVIOUS
    <3> QED
      BY <3>1, <3>2
  <2> QED
    BY <2>8, <2>11
<1>5. MapTypeOK'
  BY <1>2, <1>4 DEF MapInv, MapTypeOK
<1>6. FreshViewsAreRight'
  BY <1>2, <1>4 DEF MapInv, FreshViewsAreRight, Pooled
<1>7. DetailFitsTheCallout'
  BY DEF MapInv, DetailFitsTheCallout
<1> QED
  BY <1>5, <1>6, <1>7 DEF MapInv

LEMMA ReuseViewInv ==
  ASSUME MapInv, NEW v, NEW a, ReuseView(v, a)
  PROVE  MapInv'
BY ReuseInv DEF ReuseView

LEMMA ScrollOffInv ==
  ASSUME MapInv, NEW v, ScrollOff(v)
  PROVE  MapInv'
<1>1. v \in DOMAIN views /\ views \in Seq(View) /\ UNCHANGED <<pins, infoPin, tapped>>
  BY DEF ScrollOff, MapInv, MapTypeOK
<1>2. views[v] \in View
  BY <1>1
<1>3. views' = [views EXCEPT ![v].annotation = 0, ![v].recycled = views[v].recycled]
  BY <1>1, <1>2 DEF ScrollOff, View
<1>4. views[v].recycled \in BOOLEAN
  BY <1>2 DEF View
<1> QED
  BY <1>1, <1>3, <1>4, ReuseInv

LEMMA CalloutInv ==
  ASSUME MapInv, NEW v, CalloutAccessoryControlTapped(v)
  PROVE  MapInv'
<1>1. PICK a \in DOMAIN pins : a = views[v].annotation /\ a # 0
  BY DEF CalloutAccessoryControlTapped, Pooled, MapInv, MapTypeOK
<1>2. tapped' = a /\ infoPin' = pins[LastLike(a)] /\ UNCHANGED <<pins, views>>
  BY <1>1 DEF CalloutAccessoryControlTapped
<1>3. pins \in Seq(Tagged)
  BY DEF MapInv, MapTypeOK, Tagged
<1>4. infoPin' \in Feelings /\ Annotation(infoPin') = Annotation(pins[a])
  BY <1>2, <1>3, LastLikeAgrees DEF Tagged
<1>5. MapTypeOK' /\ FreshViewsAreRight'
  BY <1>2, <1>4 DEF MapInv, MapTypeOK, FreshViewsAreRight, Pooled
<1>6. DetailFitsTheCallout'
  BY <1>1, <1>2, <1>4 DEF DetailFitsTheCallout
<1> QED
  BY <1>5, <1>6 DEF MapInv

LEMMA MapInitInv == MapInit => MapInv
BY FeelingsAssumption DEF MapInit, MapInv, MapTypeOK, FreshViewsAreRight, DetailFitsTheCallout

LEMMA MapFrame == MapInv /\ UNCHANGED mapVars => MapInv'
BY DEF MapInv, MapTypeOK, FreshViewsAreRight, DetailFitsTheCallout, Pooled, mapVars

LEMMA MapStepInv == MapInv /\ [MapNext]_mapVars => MapInv'
<1> SUFFICES ASSUME MapInv, [MapNext]_mapVars PROVE MapInv'
  OBVIOUS
<1>1. ASSUME NEW a \in DOMAIN pins, ViewFor(a) PROVE MapInv'
  BY <1>1, NewViewInv, ReuseViewInv DEF ViewFor
<1> QED
  BY <1>1, ShowFetchedInv, ScrollOffInv, CalloutInv, MapFrame DEF MapNext

(***************************************************************************)
(* Whatever is fetched and however the map is moved, the pins are tagged   *)
(* feelings, every view that is shown belongs to an annotation of the map, *)
(* and so does the callout that was tapped.                                *)
(***************************************************************************)
THEOREM MapTypeCorrect == MapSpec => []MapTypeOK
<1>1. MapInv => MapTypeOK
  BY DEF MapInv
<1> QED
  BY <1>1, MapInitInv, MapStepInv, PTL DEF MapSpec

(***************************************************************************)
(* A view that was made for its annotation shows the emoji of a feeling    *)
(* with that name, tag and place, although viewFor looks through a list    *)
(* that has grown since.                                                   *)
(***************************************************************************)
THEOREM FreshViewsShowTheirFeeling == MapSpec => []FreshViewsAreRight
<1>1. MapInv => FreshViewsAreRight
  BY DEF MapInv
<1> QED
  BY <1>1, MapInitInv, MapStepInv, PTL DEF MapSpec

(***************************************************************************)
(* The detail screen fits the callout that opened it, also after the same  *)
(* documents have been fetched again.                                      *)
(***************************************************************************)
THEOREM DetailIsOfTheCallout == MapSpec => []DetailFitsTheCallout
<1>1. MapInv => DetailFitsTheCallout
  BY DEF MapInv
<1> QED
  BY <1>1, MapInitInv, MapStepInv, PTL DEF MapSpec

-----------------------------------------------------------------------------
(* Home.                                                                   *)

(* The store's records have one entry for each device.                     *)
StoreShape ==
  /\ asked = [d \in Devices |-> asked[d]]
  /\ writtenOn = [d \in Devices |-> writtenOn[d]]

(* A fetch that is under way owes the feeling to the map.                  *)
Fetched(f) == \E get \in asked[Phone] : get.query = "pins" /\ f \in get.owes

(* While Home is on the screen and its fetches go well, each feeling of    *)
(* the phone is on the map, refused, or owed by a fetch that is under way. *)
OwedOrShown ==
  ~trapped /\ screen = "map" /\ ~failed
    => \A f \in writtenOn[Phone] \cap Feelings : f \in ToSet(pins) \cup refused \/ Fetched(f)

HomeInv ==
  /\ HomeTypeOK
  /\ MapInv
  /\ StoreShape
  /\ screen # "map" => visits <= MaxVisits
  /\ name \in {None, Profile.firstname}
  /\ OwedOrShown

LEMMA HomeInitInv == Init => HomeInv
<1> SUFFICES ASSUME Init PROVE HomeInv
  OBVIOUS
<1> USE DEF Init, Form!FormInit, Store!StoreInit
<1>1. MapInv
  BY MapInitInv
<1>2. HomeTypeOK
  <2>1. 0 \in 0 .. MaxVisits + 1
    BY HomeAssumption
  <2> QED
    BY <1>1, <2>1 DEF MapInv, HomeTypeOK
<1>3. StoreShape /\ (screen # "map" => visits <= MaxVisits) /\ OwedOrShown
  BY HomeAssumption DEF StoreShape, OwedOrShown
<1> QED
  BY <1>1, <1>2, <1>3 DEF HomeInv

(* The map changes by an answer to a fetch, by MapKit's views, by a        *)
(* callout, or because the process is new.                                 *)
LEMMA HomeKeepsTheMap ==
  ASSUME HomeInv, [Next]_vars
  PROVE  MapInv'
<1> USE DEF HomeInv
<1>1. ASSUME UNCHANGED mapVars PROVE MapInv'
  BY <1>1, MapFrame
<1>2. ASSUME NEW get, Answered(get) PROVE MapInv'
  BY <1>1, <1>2, ShowFetchedInv DEF Answered, ProfileArrives, PinsArrive, AnswerIsError
<1>3. CASE LookAtMap
  BY <1>3, NewViewInv, ReuseViewInv, ScrollOffInv DEF LookAtMap, ViewFor
<1>4. ASSUME NEW v, OpenDetail(v) PROVE MapInv'
  BY <1>4, CalloutInv DEF OpenDetail
<1>5. CASE Relaunch
  BY <1>5, FeelingsAssumption
     DEF Relaunch, MapInv, MapTypeOK, FreshViewsAreRight, DetailFitsTheCallout
<1>6. ASSUME NEW c, PresentForm(c) PROVE MapInv'
  BY <1>1, <1>6 DEF PresentForm
<1>7. ASSUME NEW d, SignUp(d) \/ \E f \in Feelings : OthersPublish(d, f) PROVE MapInv'
  BY <1>1, <1>7 DEF SignUp, OthersPublish
<1>8. CASE ViewDidLoad \/ ViewDidAppear \/ FormIsCancelled \/ FormTraps \/ SwitchTab \/ StoreDecides
  BY <1>1, <1>8 DEF ViewDidLoad, ViewDidAppear, FormIsCancelled, FormTraps, SwitchTab, StoreDecides
<1>9. ASSUME NEW c, DidUpdateLocations(c) \/ FormPublishes(c) PROVE MapInv'
  BY <1>1, <1>9 DEF DidUpdateLocations, FormPublishes
<1> QED
  BY <1>1, <1>2, <1>3, <1>4, <1>5, <1>6, <1>7, <1>8, <1>9
     DEF Next, vars, TapGesture, AddFeelingPressed

(* The rest of the types, the bound on the visits and the name.            *)
HomeBasics ==
  /\ screen \in {"entry", "loading", "appearing", "map", "away", "form"}
  /\ trapped \in BOOLEAN
  /\ userLocation \in Coords \cup {None}
  /\ locating \in BOOLEAN
  /\ failed \in BOOLEAN
  /\ visits \in 0 .. MaxVisits + 1
  /\ screen # "map" => visits <= MaxVisits
  /\ promised \subseteq Feelings
  /\ form \in {"closed", "open", "published", "cancelled", "trapped"}
  /\ offer \subseteq Coords
  /\ name \in {None, Profile.firstname}
  /\ document \in Feelings \cup {None}

LEMMA HomeKeepsBasics ==
  ASSUME HomeBasics, [Next]_vars
  PROVE  HomeBasics'
<1> USE HomeAssumption DEF HomeBasics
<1>0. visits \in Nat /\ (visits <= MaxVisits => visits + 1 \in 0 .. MaxVisits + 1)
      /\ (visits < MaxVisits => visits + 1 \in 0 .. MaxVisits + 1 /\ visits + 1 <= MaxVisits)
  OBVIOUS
<1>1. ASSUME UNCHANGED homeVars, UNCHANGED formVars PROVE HomeBasics'
  BY <1>1 DEF homeVars, formVars
<1>2. ASSUME NEW get, Answered(get) PROVE HomeBasics'
  <2>1. ASSUME NEW docs, ProfileArrives(get, docs) PROVE HomeBasics'
    BY <2>1 DEF ProfileArrives, Trap, formVars, Form!LearnName
  <2>2. ASSUME NEW docs, PinsArrive(get, docs) PROVE HomeBasics'
    BY <2>2 DEF PinsArrive, Trap, formVars
  <2>3. CASE AnswerIsError(get)
    BY <2>3 DEF AnswerIsError, formVars
  <2> QED
    BY <1>2, <2>1, <2>2, <2>3 DEF Answered
<1>3. ASSUME NEW v, OpenDetail(v) PROVE HomeBasics'
  BY <1>3 DEF OpenDetail, formVars
<1>4. CASE Relaunch
  <2>1. visits' \in 0 .. MaxVisits + 1 /\ visits' <= MaxVisits
    BY <1>0, <1>4 DEF Relaunch
  <2> QED
    BY <1>4, <2>1 DEF Relaunch
<1>5. ASSUME NEW c \in Coords \cup {None}, PresentForm(c) PROVE HomeBasics'
  <2>1. /\ form' \in {"trapped", "open"} /\ offer' = {c, userLocation} \ {None}
        /\ UNCHANGED <<name, document>>
    BY <1>5 DEF PresentForm, Form!OpenForm
  <2>2. offer' \subseteq Coords
    BY <2>1
  <2>3. /\ trapped' \in BOOLEAN /\ promised' \subseteq Feelings /\ screen' = "form"
        /\ visits < MaxVisits /\ UNCHANGED <<userLocation, locating, failed, visits>>
    BY <1>5 DEF PresentForm, Trap
  <2> QED
    BY <2>1, <2>2, <2>3
<1>6. ASSUME NEW d, SignUp(d) PROVE HomeBasics'
  BY <1>6 DEF SignUp, formVars
<1>7. CASE ViewDidLoad
  BY <1>7 DEF ViewDidLoad, formVars
<1>8. CASE ViewDidAppear
  BY <1>0, <1>8 DEF ViewDidAppear
<1>9. ASSUME NEW c \in Coords, DidUpdateLocations(c) PROVE HomeBasics'
  BY <1>9 DEF DidUpdateLocations, formVars
<1>10. ASSUME NEW f \in Feelings, FormPublishes(f) PROVE HomeBasics'
  BY <1>10 DEF FormPublishes, Form!PublishForm
<1>11. CASE FormIsCancelled \/ FormTraps
  BY <1>11 DEF FormIsCancelled, FormTraps, Trap, Form!CancelForm, Form!TrapForm
<1>12. CASE SwitchTab
  BY <1>12 DEF SwitchTab, formVars
<1>13. CASE LookAtMap \/ StoreDecides \/ \E d, f : OthersPublish(d, f)
  BY <1>1, <1>13 DEF LookAtMap, StoreDecides, OthersPublish
<1> QED
  BY <1>1, <1>2, <1>3, <1>4, <1>5, <1>6, <1>7, <1>8, <1>9, <1>10, <1>11, <1>12, <1>13
     DEF Next, vars, TapGesture, AddFeelingPressed

(* What a step does to the gets and to the written documents of a phone:   *)
(* the records keep their shape, and a document is forgotten by nobody.    *)
LEMMA HomeKeepsTheShape ==
  ASSUME StoreShape, [Next]_vars
  PROVE  StoreShape'
<1> USE DEF StoreShape
<1>1. ASSUME UNCHANGED <<asked, writtenOn>> PROVE StoreShape'
  BY <1>1
<1>2. ASSUME NEW d, NEW gets, asked' = [asked EXCEPT ![d] = gets], UNCHANGED writtenOn
      PROVE  StoreShape'
  BY <1>2
<1>3. ASSUME NEW d, NEW docs, writtenOn' = [writtenOn EXCEPT ![d] = docs], UNCHANGED asked
      PROVE  StoreShape'
  BY <1>3
<1>4. ASSUME NEW d, NEW doc, Store!StoreWrite(d, doc) PROVE StoreShape'
  BY <1>3, <1>4 DEF Store!StoreWrite
<1>5. ASSUME NEW id, NEW query, Store!StoreAsk(Phone, id, query) PROVE StoreShape'
  BY <1>2, <1>5 DEF Store!StoreAsk
<1>6. ASSUME NEW get, Answered(get) PROVE StoreShape'
  BY <1>2, <1>6 DEF Answered, ProfileArrives, PinsArrive, AnswerIsError, Store!StoreAnswer,
     Store!StoreFail
<1>7. CASE Relaunch
  BY <1>2, <1>7 DEF Relaunch, Store!StoreRestart
<1>8. CASE StoreDecides
  BY <1>1, <1>8 DEF StoreDecides, Store!StoreCommit, Store!StoreRefuse, Store!StoreLearn
<1>9. ASSUME UNCHANGED docVars PROVE StoreShape'
  BY <1>1, <1>9 DEF docVars
<1>10. CASE ViewDidLoad \/ ViewDidAppear
  BY <1>5, <1>10 DEF ViewDidLoad, ViewDidAppear
<1>11. ASSUME NEW d, SignUp(d) \/ (\E f : OthersPublish(d, f)) PROVE StoreShape'
  BY <1>4, <1>11 DEF SignUp, OthersPublish
<1>12. ASSUME NEW c, FormPublishes(c) \/ DidUpdateLocations(c) \/ PresentForm(c) \/ OpenDetail(c)
       PROVE  StoreShape'
  BY <1>4, <1>9, <1>12 DEF FormPublishes, DidUpdateLocations, PresentForm, OpenDetail
<1>13. CASE FormIsCancelled \/ FormTraps \/ LookAtMap \/ SwitchTab
  BY <1>9, <1>13 DEF FormIsCancelled, FormTraps, LookAtMap, SwitchTab
<1> QED
  BY <1>6, <1>7, <1>8, <1>9, <1>10, <1>11, <1>12, <1>13 DEF Next, vars, TapGesture, AddFeelingPressed

(* A step in which the phone writes nothing and asks nothing, and which    *)
(* takes nothing off the map.                                              *)
LEMMA NothingMoreIsOwed ==
  ASSUME OwedOrShown, screen' = "map" => screen = "map", trapped => trapped', failed => failed',
         writtenOn'[Phone] = writtenOn[Phone], asked'[Phone] = asked[Phone],
         refused \subseteq refused', ToSet(pins) \subseteq ToSet(pins')
  PROVE  OwedOrShown'
<1> SUFFICES ASSUME ~trapped', screen' = "map", ~failed',
                    NEW f \in writtenOn[Phone] \cap Feelings
             PROVE  f \in ToSet(pins') \cup refused' \/ Fetched(f)'
  BY DEF OwedOrShown
<1>1. f \in ToSet(pins) \cup refused \/ Fetched(f)
  BY DEF OwedOrShown
<1>2. Fetched(f) => Fetched(f)'
  BY DEF Fetched
<1> QED
  BY <1>1, <1>2

(* Home appears after the phone has written: the fetch it starts owes all. *)
LEMMA AppearingAsksForAll ==
  ASSUME StoreShape, ViewDidAppear
  PROVE  OwedOrShown'
<1>1. PICK get : /\ get = [id |-> <<visits', "pins">>, query |-> "pins", owes |-> Store!Owed(Phone, "pins")]
                 /\ asked' = [asked EXCEPT ![Phone] = @ \cup {get}]
                 /\ UNCHANGED <<refused, writtenOn>>
  BY DEF ViewDidAppear, Store!StoreAsk
<1>2. get \in asked'[Phone]
  BY <1>1, HomeAssumption DEF StoreShape
<1>3. \A f \in writtenOn[Phone] \cap Feelings : f \in refused \/ f \in get.owes
  <2>1. Matching["pins"] = Feelings
    BY DEF Matching
  <2> QED
    BY <1>1, <2>1 DEF Store!Owed
<1>4. \A f \in writtenOn[Phone] \cap Feelings : f \in refused' \/ Fetched(f)'
  BY <1>1, <1>2, <1>3 DEF Fetched
<1> QED
  BY <1>1, <1>4 DEF OwedOrShown

(* An answer puts on the map what its get owed; an error is remembered.    *)
LEMMA AnswersPay ==
  ASSUME HomeInv, NEW get \in asked[Phone], Answered(get)
  PROVE  OwedOrShown'
<1>1. /\ asked'[Phone] = asked[Phone] \ {get} /\ UNCHANGED <<refused, writtenOn, screen>>
      /\ (trapped => trapped') /\ (failed => failed')
  <2>1. Store!StoreFail(Phone, get) \/ \E docs : Store!StoreAnswer(Phone, get, docs)
    BY DEF Answered, ProfileArrives, PinsArrive, AnswerIsError
  <2>2. asked' = [asked EXCEPT ![Phone] = @ \ {get}] /\ UNCHANGED <<refused, writtenOn>>
    BY <2>1 DEF Store!StoreFail, Store!StoreAnswer
  <2>3. UNCHANGED screen /\ ~trapped
    BY DEF Answered, ProfileArrives, PinsArrive, AnswerIsError
  <2>4. UNCHANGED failed \/ failed' = (failed \/ get.query = "pins")
    BY DEF Answered, ProfileArrives, PinsArrive, AnswerIsError
  <2> QED
    BY <2>2, <2>3, <2>4, HomeAssumption DEF HomeInv, HomeTypeOK, StoreShape
<1> SUFFICES ASSUME ~trapped', screen' = "map", ~failed',
                    NEW f \in writtenOn[Phone] \cap Feelings
             PROVE  f \in ToSet(pins') \cup refused' \/ Fetched(f)'
  BY <1>1 DEF OwedOrShown
<1>2. f \in ToSet(pins) \cup refused \/ Fetched(f)
  BY <1>1 DEF HomeInv, OwedOrShown
<1>3. PICK owes : owes = get.owes
  OBVIOUS
<1>4. get.query = "pins" /\ f \in owes => f \in ToSet(pins') \cup refused'
  <2> SUFFICES ASSUME get.query = "pins", f \in owes PROVE f \in ToSet(pins') \cup refused'
    OBVIOUS
  <2>1. ~AnswerIsError(get)
    BY DEF AnswerIsError
  <2>2. PICK docs \in SUBSET Feelings : PinsArrive(get, docs)
    BY <2>1 DEF Answered, ProfileArrives
  <2>3. ShowFetched(docs) /\ owes \subseteq docs \cup refused
    BY <1>3, <2>2 DEF PinsArrive, Trap, Store!StoreAnswer, Store!MayAnswer
  <2>4. docs \subseteq ToSet(pins')
    BY <2>3, PinsGrow DEF HomeInv, MapInv, MapTypeOK, Tagged
  <2> QED
    BY <1>1, <2>3, <2>4
<1>5. ToSet(pins) \subseteq ToSet(pins')
  <2>1. UNCHANGED pins \/ \E docs \in SUBSET Feelings : ShowFetched(docs)
    BY DEF Answered, ProfileArrives, PinsArrive, AnswerIsError, mapVars
  <2> QED
    BY <2>1, PinsGrow DEF HomeInv, MapInv, MapTypeOK, Tagged
<1>6. Fetched(f) => f \in ToSet(pins') \cup refused' \/ Fetched(f)'
  BY <1>1, <1>3, <1>4 DEF Fetched
<1> QED
  BY <1>1, <1>2, <1>5, <1>6

LEMMA HomeKeepsWhatIsOwed ==
  ASSUME HomeInv, [Next]_vars
  PROVE  OwedOrShown'
<1> USE DEF HomeInv
<1>1. ASSUME screen' # "map" \/ trapped' PROVE OwedOrShown'
  BY <1>1 DEF OwedOrShown
<1>2. ASSUME UNCHANGED <<screen, trapped, failed, pins, docVars>> PROVE OwedOrShown'
  BY <1>2, NothingMoreIsOwed DEF docVars
<1>3. ASSUME NEW d, d # Phone, NEW doc, Store!StoreWrite(d, doc),
             UNCHANGED <<screen, trapped, failed, pins>>
      PROVE  OwedOrShown'
  <2>1. writtenOn'[Phone] = writtenOn[Phone] /\ UNCHANGED <<asked, refused>>
    BY <1>3, HomeAssumption DEF Store!StoreWrite, StoreShape
  <2> QED
    BY <1>3, <2>1, NothingMoreIsOwed
<1>4. ASSUME NEW d, SignUp(d) PROVE OwedOrShown'
  BY <1>1, <1>3, <1>4 DEF SignUp, mapVars
<1>5. ASSUME NEW d, NEW f, OthersPublish(d, f) PROVE OwedOrShown'
  BY <1>3, <1>5 DEF OthersPublish, mapVars, homeVars
<1>6. CASE StoreDecides
  <2>1. UNCHANGED <<asked, writtenOn>> /\ refused \subseteq refused'
    BY <1>6 DEF StoreDecides, Store!StoreCommit, Store!StoreRefuse, Store!StoreLearn
  <2> QED
    BY <1>6, <2>1, NothingMoreIsOwed DEF StoreDecides, mapVars, homeVars
<1>7. CASE LookAtMap
  BY <1>2, <1>7 DEF LookAtMap, homeVars, ViewFor, NewView, ReuseView, ScrollOff
<1>8. ASSUME NEW c, DidUpdateLocations(c) PROVE OwedOrShown'
  BY <1>2, <1>8 DEF DidUpdateLocations, mapVars
<1>9. CASE ViewDidAppear
  BY <1>9, AppearingAsksForAll
<1>10. ASSUME NEW get \in asked[Phone], Answered(get) PROVE OwedOrShown'
  BY <1>10, AnswersPay
<1>11. ASSUME NEW c, PresentForm(c) \/ FormPublishes(c) \/ OpenDetail(c) PROVE OwedOrShown'
  BY <1>1, <1>11 DEF PresentForm, FormPublishes, OpenDetail
<1>12. CASE ViewDidLoad \/ FormIsCancelled \/ FormTraps \/ SwitchTab \/ Relaunch
  BY <1>1, <1>12 DEF ViewDidLoad, FormIsCancelled, FormTraps, Trap, SwitchTab, Relaunch
<1>13. CASE UNCHANGED vars
  BY <1>2, <1>13 DEF vars, homeVars, mapVars
<1> QED
  BY <1>4, <1>5, <1>6, <1>7, <1>8, <1>9, <1>10, <1>11, <1>12, <1>13
     DEF Next, TapGesture, AddFeelingPressed

LEMMA HomeStepInv == HomeInv /\ [Next]_vars => HomeInv'
<1> SUFFICES ASSUME HomeInv, [Next]_vars PROVE HomeInv'
  OBVIOUS
<1>1. HomeBasics
  BY DEF HomeInv, HomeTypeOK, HomeBasics
<1>2. MapInv' /\ HomeBasics' /\ StoreShape' /\ OwedOrShown'
  BY <1>1, HomeKeepsTheMap, HomeKeepsBasics, HomeKeepsTheShape, HomeKeepsWhatIsOwed DEF HomeInv
<1>3. HomeTypeOK'
  BY <1>2, HomeAssumption DEF HomeTypeOK, HomeBasics, MapInv
<1> QED
  BY <1>2, <1>3 DEF HomeInv, HomeBasics

(* The inductive invariant of Home.                                        *)
THEOREM HomeInvariant == Spec => []HomeInv
BY HomeInitInv, HomeStepInv, PTL DEF Spec

(***************************************************************************)
(* Home, its map and its form keep their types through every screen,       *)
(* answer, trap and relaunch.                                              *)
(***************************************************************************)
THEOREM HomeTypeCorrect == Spec => []HomeTypeOK
<1>1. HomeInv => HomeTypeOK
  BY DEF HomeInv
<1> QED
  BY <1>1, HomeInvariant, PTL

(***************************************************************************)
(* When Home is on the screen and its fetches are over, every feeling the  *)
(* phone has published is on the map or was refused, because a save writes *)
(* before Home appears and asks.                                           *)
(***************************************************************************)
THEOREM PublishedFeelingsAreOnTheMap == Spec => []OwnFeelingsAreOnTheMap
<1>1. HomeInv => OwnFeelingsAreOnTheMap
  BY DEF HomeInv, OwedOrShown, Fetched, OwnFeelingsAreOnTheMap, Waiting
<1> QED
  BY <1>1, HomeInvariant, PTL

(***************************************************************************)
(* The process traps only in its form, on a feeling without a tag, or on a *)
(* profile that is not there; the last not when the phone had written it   *)
(* or heard of it before Home asked.                                       *)
(***************************************************************************)
THEOREM TrapsHaveAReason == Spec => TrapsForAReason
<1> DEFINE Reason ==
      \/ form' = "trapped"
      \/ \E f \in Feelings : Untagged(f) /\ f \in committed \cup writtenOn[Phone]
      \/ \E get \in asked[Phone] \ asked'[Phone] :
           get.query = "users" /\ Profile \notin get.owes \ refused
<1>1. ASSUME HomeInv, [Next]_vars, ~trapped, trapped' PROVE Reason
  <2>1. ASSUME NEW get \in asked[Phone], NEW docs \in SUBSET {Profile}, ProfileArrives(get, docs)
        PROVE  Reason
    <3>1. docs = {} /\ get.query = "users" /\ Store!StoreAnswer(Phone, get, docs)
      BY <1>1, <2>1 DEF ProfileArrives
    <3>2. get \notin asked'[Phone] /\ get.owes \subseteq refused
      BY <1>1, <3>1, HomeAssumption DEF Store!StoreAnswer, Store!MayAnswer, HomeInv, StoreShape
    <3> QED
      BY <3>1, <3>2
  <2>2. ASSUME NEW get \in asked[Phone], NEW docs \in SUBSET Feelings, PinsArrive(get, docs)
        PROVE  Reason
    <3>1. (\E f \in docs : Untagged(f)) /\ docs \subseteq committed \cup writtenOn[Phone]
      BY <1>1, <2>2 DEF PinsArrive, Store!StoreAnswer, Store!MayAnswer
    <3> QED
      BY <3>1
  <2>3. ASSUME NEW get \in asked[Phone], Answered(get) PROVE Reason
    BY <1>1, <2>1, <2>2, <2>3 DEF Answered, AnswerIsError
  <2>4. ASSUME NEW c, PresentForm(c) PROVE Reason
    BY <1>1, <2>4 DEF PresentForm
  <2>5. CASE FormTraps
    BY <2>5 DEF FormTraps, Form!TrapForm
  <2>6. ASSUME NEW d, SignUp(d) PROVE FALSE
    BY <1>1, <2>6 DEF SignUp
  <2>7. ASSUME NEW d, NEW f, OthersPublish(d, f) PROVE FALSE
    BY <1>1, <2>7 DEF OthersPublish, homeVars
  <2>8. ASSUME NEW c, FormPublishes(c) \/ OpenDetail(c) \/ DidUpdateLocations(c) PROVE FALSE
    BY <1>1, <2>8 DEF FormPublishes, OpenDetail, DidUpdateLocations
  <2>9. CASE ViewDidLoad \/ ViewDidAppear \/ FormIsCancelled \/ SwitchTab \/ Relaunch
    BY <1>1, <2>9 DEF ViewDidLoad, ViewDidAppear, FormIsCancelled, SwitchTab, Relaunch
  <2>10. CASE LookAtMap \/ StoreDecides \/ UNCHANGED vars
    BY <1>1, <2>10 DEF LookAtMap, StoreDecides, homeVars, vars
  <2> QED
    BY <1>1, <2>3, <2>4, <2>5, <2>6, <2>7, <2>8, <2>9, <2>10
       DEF Next, TapGesture, AddFeelingPressed
<1>2. HomeInv /\ [Next]_vars => [~trapped /\ trapped' => Reason]_vars
  BY <1>1
<1> QED
  BY <1>2, HomeInvariant, PTL DEF Spec, TrapsForAReason

(***************************************************************************)
(* The form offers the place Home knows unless the fix Home has asked for  *)
(* came while it was open, for any number of openings and fixes.       *)
(***************************************************************************)
THEOREM FormOffersTheCurrentPlace == Spec => []OfferIsCurrent
<1>1. Init => OfferIsCurrent
  BY DEF Init, OfferIsCurrent
<1>2. OfferIsCurrent /\ [Next]_vars => OfferIsCurrent'
  <2> SUFFICES ASSUME OfferIsCurrent, [Next]_vars PROVE OfferIsCurrent'
    OBVIOUS
  <2>1. ASSUME screen' # "form" \/ trapped' \/ ~locating' PROVE OfferIsCurrent'
    BY <2>1 DEF OfferIsCurrent
  <2>2. ASSUME UNCHANGED <<screen, trapped, locating, userLocation, offer>> PROVE OfferIsCurrent'
    BY <2>2 DEF OfferIsCurrent
  <2>3. ASSUME NEW touched, PresentForm(touched) PROVE OfferIsCurrent'
    <3>1. offer' = {touched, userLocation} \ {None} /\ UNCHANGED userLocation
      BY <2>3 DEF PresentForm, Form!OpenForm
    <3>2. CASE userLocation = None
      BY <2>1, <2>3, <3>2 DEF PresentForm, Form!OpenForm, Trap
    <3>3. CASE userLocation # None
      BY <3>1, <3>3 DEF OfferIsCurrent
    <3> QED
      BY <3>2, <3>3
  <2>4. ASSUME NEW c, DidUpdateLocations(c) PROVE OfferIsCurrent'
    BY <2>1, <2>4 DEF DidUpdateLocations
  <2>5. ASSUME NEW get, Answered(get) PROVE OfferIsCurrent'
    <3>1. UNCHANGED <<screen, locating, userLocation, offer>> /\ ~trapped
      BY <2>5 DEF Answered, ProfileArrives, PinsArrive, AnswerIsError, formVars, Form!LearnName
    <3> QED
      BY <3>1 DEF OfferIsCurrent
  <2>6. ASSUME NEW d, SignUp(d) PROVE OfferIsCurrent'
    BY <2>1, <2>2, <2>6 DEF SignUp, formVars
  <2>7. ASSUME NEW d, NEW f, OthersPublish(d, f) PROVE OfferIsCurrent'
    BY <2>2, <2>7 DEF OthersPublish, homeVars, formVars
  <2>8. ASSUME NEW c, FormPublishes(c) \/ OpenDetail(c) PROVE OfferIsCurrent'
    BY <2>1, <2>8 DEF FormPublishes, OpenDetail
  <2>9. CASE ViewDidLoad \/ ViewDidAppear \/ FormIsCancelled \/ FormTraps \/ SwitchTab \/ Relaunch
    BY <2>1, <2>9 DEF ViewDidLoad, ViewDidAppear, FormIsCancelled, FormTraps, Trap, SwitchTab, Relaunch
  <2>10. CASE LookAtMap \/ StoreDecides \/ UNCHANGED vars
    BY <2>2, <2>10 DEF LookAtMap, StoreDecides, homeVars, formVars, vars
  <2> QED
    BY <2>3, <2>4, <2>5, <2>6, <2>7, <2>8, <2>9, <2>10 DEF Next, TapGesture, AddFeelingPressed
<1> QED
  BY <1>1, <1>2, PTL DEF Spec

=============================================================================
