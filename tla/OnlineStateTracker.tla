-------------------------- MODULE OnlineStateTracker --------------------------
(***************************************************************************)
(* Whether the client calls itself online: the state that the views are    *)
(* told of, the failures of the watch stream that are counted, and the     *)
(* ten-second timer.  Operators on the tracker, called by RemoteStore.     *)
(***************************************************************************)
EXTENDS Naturals

OnlineStates == {"Unknown", "Online", "Offline"}

MaxWatchStreamFailures == 1  \* kMaxWatchStreamFailures

(* The count is only compared with 0 and the maximum: it stops there.      *)
Trackers ==
  [state : OnlineStates, failures : 0 .. MaxWatchStreamFailures, timer : BOOLEAN, ok : BOOLEAN]

NewTracker == [state |-> "Unknown", failures |-> 0, timer |-> FALSE, ok |-> TRUE]

HandleWatchStreamStart(o) ==
  IF o.failures # 0 THEN o
  ELSE [o EXCEPT !.state = "Unknown", !.timer = TRUE, !.ok = @ /\ ~o.timer]

(* Faulty variant: a first failure after having been online is counted.    *)
HandleWatchStreamFailureCounting(o) ==
  [o EXCEPT !.state = "Offline", !.failures = 1, !.timer = FALSE]

FailureOnceOnline(o) ==
  [o EXCEPT !.state = "Unknown", !.ok = @ /\ o.failures = 0 /\ ~o.timer]

FailureCounted(o) ==
  LET counted == [o EXCEPT !.failures = IF @ < MaxWatchStreamFailures THEN @ + 1 ELSE @]
  IN  IF counted.failures >= MaxWatchStreamFailures
      THEN [counted EXCEPT !.timer = FALSE, !.state = "Offline"]
      ELSE counted

HandleWatchStreamFailure(o) ==
  IF o.state = "Online" THEN FailureOnceOnline(o) ELSE FailureCounted(o)

UpdateState(o, new) == [o EXCEPT !.state = new, !.failures = 0, !.timer = FALSE]

(* The timer: the client gives up waiting for the server.                  *)
TimeoutElapsed(o) ==
  [o EXCEPT !.timer = FALSE, !.state = "Offline", !.ok = @ /\ o.state = "Unknown"]

=============================================================================
