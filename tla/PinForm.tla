-------------------------------- MODULE PinForm --------------------------------
(***************************************************************************)
(* What the form for a new feeling promises to the rest of the app: it is  *)
(* opened with the locations it may publish and with the User object it    *)
(* shares with Home, and it ends at most once, by publishing a single      *)
(* document signed with that user's name or anonymously and placed at one  *)
(* of those locations, by being cancelled, or by ending the process.       *)
(***************************************************************************)
CONSTANTS
  Documents,   \* what can be published: records with userName and location among their fields
  Coords,
  Names,       \* the names a profile can have
  Anonymous,   \* the name "Anonimo"
  None

VARIABLES
  form,       \* "closed", "open", "published", "cancelled" or "trapped"
  offer,      \* the locations the form was opened with
  name,       \* user.name, None until Home has the profile
  document    \* the document published, or None

pinFormVars == <<form, offer, name, document>>

FormInit ==
  /\ form = "closed"
  /\ offer = {}
  /\ name = None
  /\ document = None

(* A form for which there is no location of the user does not survive its  *)
(* own opening.                                                            *)
OpenForm(touched, here) ==
  /\ form = "closed"
  /\ offer' = {touched, here} \ {None}
  /\ form' = IF here = None THEN "trapped" ELSE "open"
  /\ UNCHANGED <<name, document>>

(* The profile arrives in the object the form already holds.               *)
LearnName(n) ==
  /\ name = None
  /\ name' = n
  /\ UNCHANGED <<form, offer, document>>

PublishForm ==
  /\ form = "open"
  /\ form' = "published"
  /\ document' \in Documents
  /\ document'.location \in offer
  /\ document'.userName \in {Anonymous, name} \ {None}
  /\ UNCHANGED <<offer, name>>

CancelForm ==
  /\ form = "open"
  /\ form' = "cancelled"
  /\ UNCHANGED <<offer, name, document>>

TrapForm ==
  /\ form = "open"
  /\ form' = "trapped"
  /\ UNCHANGED <<offer, name, document>>

FormNext ==
  \/ \E touched, here \in Coords \cup {None} : OpenForm(touched, here)
  \/ \E n \in Names : LearnName(n)
  \/ PublishForm
  \/ CancelForm
  \/ TrapForm

FormSpec == FormInit /\ [][FormNext]_pinFormVars

=============================================================================
