------------------------------ MODULE MCFirestore ------------------------------
(* One device, used by two accounts with three documents of one query, or  *)
(* by one account with two documents.                                      *)
EXTENDS Firestore, TLC

CONSTANTS phone, ana, bia, x, y, z, pins, ours

MCDevices == {phone}
MCUsers == {ana, bia}
MCDocs == {x, y, z}
MCQueries == {pins}
MCMatching == [q \in MCQueries |-> MCDocs]

(* One account, two documents, one query for both and one for x.           *)
MCOneUser == {ana}
MCTwoDocs == {x, y}
MCTwoQueries == {pins, ours}
MCTwoMatching == (pins :> {x, y}) @@ (ours :> {x})

=============================================================================
