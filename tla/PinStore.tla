------------------------------- MODULE PinStore -------------------------------
(***************************************************************************)
(* What Cloud Firestore promises to the app on devices whose account does  *)
(* not change.  A document that is written is sooner or later committed or *)
(* refused; a get is answered with everything the device already knew to   *)
(* be committed and everything it had written itself, unless refused, and  *)
(* with nothing that was neither committed nor written on the device.      *)
(***************************************************************************)
CONSTANTS
  Devices,
  Docs,       \* every document a device may write, once
  Queries,
  Matching,   \* the set of documents each query selects
  Ids         \* names for gets

VARIABLES
  committed,  \* the documents the server holds
  refused,    \* the documents that will never be committed
  writtenOn,  \* the documents a device has written
  known,      \* the committed documents a device has heard of, across restarts
  asked,      \* a device's unanswered gets
  answered    \* the documents a device's process was last given, and for which get

storeVars == <<committed, refused, writtenOn, known, asked, answered>>

StoreInit ==
  /\ committed = {}
  /\ refused = {}
  /\ writtenOn = [d \in Devices |-> {}]
  /\ known = [d \in Devices |-> {}]
  /\ asked = [d \in Devices |-> {}]
  /\ answered = [d \in Devices |-> {}]

Decided == committed \cup refused

StoreWrite(d, doc) ==
  /\ \A e \in Devices : doc \notin writtenOn[e]
  /\ writtenOn' = [writtenOn EXCEPT ![d] = @ \cup {doc}]
  /\ UNCHANGED <<committed, refused, known, asked, answered>>

StoreCommit(doc) ==
  /\ \E d \in Devices : doc \in writtenOn[d] \ Decided
  /\ committed' = committed \cup {doc}
  /\ UNCHANGED <<refused, writtenOn, known, asked, answered>>

StoreRefuse(doc) ==
  /\ \E d \in Devices : doc \in writtenOn[d] \ Decided
  /\ refused' = refused \cup {doc}
  /\ UNCHANGED <<committed, writtenOn, known, asked, answered>>

(* A device hears of committed documents.                                  *)
StoreLearn(d) ==
  /\ \E docs \in SUBSET committed : known' = [known EXCEPT ![d] = @ \cup docs]
  /\ UNCHANGED <<committed, refused, writtenOn, asked, answered>>

Owed(d, query) == (known[d] \cup (writtenOn[d] \ refused)) \cap Matching[query]

StoreAsk(d, id, query) ==
  /\ \A get \in asked[d] : get.id # id
  /\ asked' = [asked EXCEPT ![d] = @ \cup {[id |-> id, query |-> query, owes |-> Owed(d, query)]}]
  /\ UNCHANGED <<committed, refused, writtenOn, known, answered>>

MayAnswer(d, get, docs) ==
  /\ docs \subseteq (committed \cup writtenOn[d]) \cap Matching[get.query]
  /\ get.owes \subseteq docs \cup refused

(* The completion block of a get runs with documents, ...                  *)
StoreAnswer(d, get, docs) ==
  /\ get \in asked[d]
  /\ MayAnswer(d, get, docs)
  /\ asked' = [asked EXCEPT ![d] = @ \ {get}]
  /\ answered' = [answered EXCEPT ![d] = {[id |-> get.id, docs |-> docs]}]
  /\ UNCHANGED <<committed, refused, writtenOn, known>>

(* ... or with an error.                                                   *)
StoreFail(d, get) ==
  /\ get \in asked[d]
  /\ asked' = [asked EXCEPT ![d] = @ \ {get}]
  /\ UNCHANGED <<committed, refused, writtenOn, known, answered>>

(* The process of a device ends: its gets end unanswered, and writes it    *)
(* has not yet stored are gone.                                            *)
StoreRestart(d) ==
  /\ \E gone \in SUBSET (writtenOn[d] \ (Decided \cup known[d])) : refused' = refused \cup gone
  /\ asked' = [asked EXCEPT ![d] = {}]
  /\ answered' = [answered EXCEPT ![d] = {}]
  /\ UNCHANGED <<committed, writtenOn, known>>

StoreNext ==
  \/ \E doc \in Docs : StoreCommit(doc) \/ StoreRefuse(doc)
  \/ \E d \in Devices :
       \/ \E doc \in Docs : StoreWrite(d, doc)
       \/ StoreLearn(d)
       \/ \E id \in Ids, query \in Queries : StoreAsk(d, id, query)
       \/ \E get \in asked[d] :
            \/ \E docs \in SUBSET Docs : StoreAnswer(d, get, docs)
            \/ StoreFail(d, get)
       \/ StoreRestart(d)

StoreSpec == StoreInit /\ [][StoreNext]_storeVars

=============================================================================
