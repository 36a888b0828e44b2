------------------------------- MODULE MapPins -------------------------------
(***************************************************************************)
(* The map of HomeViewController: the pins it has collected from its       *)
(* fetches, the annotation views MapKit shows for them and reuses, and the *)
(* pin whose detail the callout's button opens.                            *)
(*                                                                         *)
(* The i-th pin and the i-th annotation are made together and live as long *)
(* as the controller, so an annotation is its position in pins.            *)
(***************************************************************************)
EXTENDS Naturals, Sequences, SequencesExt, Selection

CONSTANTS
  Feelings,     \* documents of the collection "pins": userName, location, tags, icon
  DocOrder,     \* the order in which a snapshot lists them (by document name)
  NameShown,    \* String.capitalized on the names of the authors
  None,
  MaxViews,     \* bound: annotation views alive at a time
  MaxPins       \* bound: pins collected, by fetches of the map by itself

ASSUME FeelingsAssumption ==
  /\ None \notin Feelings
  /\ DocOrder \in Seq(Feelings) /\ ToSet(DocOrder) = Feelings /\ IsInjective(DocOrder)
  /\ MaxViews \in Nat /\ MaxPins \in Nat

VARIABLES
  pins,      \* self.pins
  views,     \* the annotation views: the annotation of each, 0 in the reuse pool; the emoji drawn
  infoPin,   \* self.infoPin
  tapped     \* the annotation whose callout was last tapped, 0 before

mapVars == <<pins, views, infoPin, tapped>>

MapInit ==
  /\ pins = <<>>
  /\ views = <<>>
  /\ infoPin = None
  /\ tapped = 0

Untagged(feeling) == feeling.tags = <<>>

(* What the annotation of a pin shows and what the delegate compares:      *)
(* title, subtitle and coordinate.                                         *)
Annotation(feeling) == <<NameShown[feeling.userName], feeling.tags[1], feeling.location>>

InOrder(docs) == Select(DocOrder, docs)

(* The loop over an answer's documents, when each has a tag (tags[0]).     *)
ShowFetched(docs) ==
  /\ \A feeling \in docs : ~Untagged(feeling)
  /\ pins' = pins \o InOrder(docs)
  /\ UNCHANGED <<views, infoPin, tapped>>

(* Faulty variant: only the titles are compared.                           *)
LastNamed(a) == SelectLastInSeq(pins, LAMBDA p : NameShown[p.userName] = NameShown[pins[a].userName])

(* Both delegate methods go through all pins and keep the last that agrees *)
(* with the annotation.                                                    *)
LastLike(a) == SelectLastInSeq(pins, LAMBDA p : Annotation(p) = Annotation(pins[a]))

Shown(a) == \E v \in DOMAIN views : views[v].annotation = a
Pooled(v) == views[v].annotation = 0

(* viewFor: a new view gets the emoji of the pin, a reused view only the   *)
(* annotation.                                                             *)
NewView(a) ==
  /\ a \in DOMAIN pins /\ ~Shown(a)
  /\ \A v \in DOMAIN views : ~Pooled(v)
  /\ Len(views) < MaxViews
  /\ views' = Append(views, [annotation |-> a, image |-> pins[LastLike(a)].icon,
                             recycled |-> FALSE])
  /\ UNCHANGED <<pins, infoPin, tapped>>

ReuseView(v, a) ==
  /\ a \in DOMAIN pins /\ ~Shown(a)
  /\ v \in DOMAIN views /\ Pooled(v)
  /\ views' = [views EXCEPT ![v].annotation = a, ![v].recycled = TRUE]
  /\ UNCHANGED <<pins, infoPin, tapped>>

ViewFor(a) == NewView(a) \/ \E v \in DOMAIN views : ReuseView(v, a)

(* The annotation leaves the screen; MapKit keeps its view for reuse.      *)
ScrollOff(v) ==
  /\ v \in DOMAIN views /\ ~Pooled(v)
  /\ views' = [views EXCEPT ![v].annotation = 0]
  /\ UNCHANGED <<pins, infoPin, tapped>>

(* Faulty variant: the view's position is taken for the annotation's.      *)
DetailOfTheView(v) ==
  /\ v \in DOMAIN views /\ ~Pooled(v)
  /\ tapped' = views[v].annotation
  /\ infoPin' = pins[v]
  /\ UNCHANGED <<pins, views>>

CalloutAccessoryControlTapped(v) ==
  /\ v \in DOMAIN views /\ ~Pooled(v)
  /\ tapped' = views[v].annotation
  /\ infoPin' = pins[LastLike(views[v].annotation)]
  /\ UNCHANGED <<pins, views>>

-----------------------------------------------------------------------------
(* The map by itself, fed by arbitrary answers.                            *)
MapNext ==
  \/ \E docs \in SUBSET Feelings :
       /\ docs # {} /\ Len(pins \o InOrder(docs)) <= MaxPins
       /\ ShowFetched(docs)
  \/ \E a \in DOMAIN pins : ViewFor(a)
  \/ \E v \in DOMAIN views : ScrollOff(v) \/ CalloutAccessoryControlTapped(v)

MapSpec == MapInit /\ [][MapNext]_mapVars

-----------------------------------------------------------------------------
View == [annotation : Nat, image : {f.icon : f \in Feelings}, recycled : BOOLEAN]

MapTypeOK ==
  /\ pins \in Seq({f \in Feelings : ~Untagged(f)})
  /\ views \in Seq(View) /\ Len(views) <= MaxViews
  /\ \A v \in DOMAIN views : views[v].annotation \in {0} \cup DOMAIN pins
  /\ infoPin \in Feelings \cup {None}
  /\ tapped \in {0} \cup DOMAIN pins

(***************************************************************************)
(* A view that MapKit has never reused shows the emoji of a feeling with   *)
(* the name, the tag and the place of its annotation, although the list of *)
(* pins has grown since the annotation was made.  It is about the loop of  *)
(* viewFor.                                                                *)
(***************************************************************************)
FreshViewsAreRight ==
  \A v \in DOMAIN views :
    ~views[v].recycled /\ ~Pooled(v)
      => \E f \in ToSet(pins) : /\ Annotation(f) = Annotation(pins[views[v].annotation])
                                /\ f.icon = views[v].image

(***************************************************************************)
(* The detail screen is opened for a feeling that carries the name, the    *)
(* tag and the place of the callout that was tapped, also when the same    *)
(* documents have been fetched again before the screen is looked at.  It   *)
(* is about calloutAccessoryControlTapped and prepare.                     *)
(***************************************************************************)
DetailFitsTheCallout ==
  infoPin # None => tapped # 0 /\ Annotation(infoPin) = Annotation(pins[tapped])

=============================================================================
