----------------------------- MODULE MCRemoteStore -----------------------------
(* Two targets; a local store that can hold more batches than the pipeline *)
(* takes; delays in which the factor of 1.5 is felt before the maximum.    *)
EXTENDS RemoteStore

CONSTANTS pins, profile

MCTargets == {pins, profile}

=============================================================================
