-------------------------------- MODULE Stream --------------------------------
(***************************************************************************)
(* The state machine that the watch stream and the write stream share: its *)
(* credentials, its backoff and its idle timer.  All of it runs on the     *)
(* worker queue, in calls that nest: an operator takes a stream as it is   *)
(* before a call and gives the stream after it, so that RemoteStore can    *)
(* compose them in the order of the code.                                  *)
(*                                                                         *)
(* The gRPC stream behind it starts without waiting for the network, so a  *)
(* stream is Open from the arrival of its token on (module GrpcStream).    *)
(* The delays themselves are left out: a timer may elapse at any time.     *)
(***************************************************************************)
EXTENDS Naturals

CONSTANTS
  InitialDelay,  \* kBackoffInitialDelay
  MaxDelay       \* kBackoffMaxDelay

ASSUME DelayAssumption ==
  /\ InitialDelay \in Nat \ {0} /\ MaxDelay \in Nat
  /\ InitialDelay <= MaxDelay

States == {"Initial", "Starting", "Open", "Error", "Backoff"}

Streams ==
  [state : States,
   requests : SUBSET {"current", "stale"},  \* GetToken callbacks on their way, and whether the
                                            \* close count they hold is still the stream's
   timers : SUBSET {"idle", "backoff"},
   base : 0 .. MaxDelay,                    \* the backoff's current_base_
   ok : BOOLEAN]                            \* every assertion so far has held

NewStream == [state |-> "Initial", requests |-> {}, timers |-> {}, base |-> 0, ok |-> TRUE]

HardAssert(s, fact) == [s EXCEPT !.ok = @ /\ fact]

IsOpen(s) == s.state = "Open"
IsStarted(s) == s.state \in {"Starting", "Backoff", "Open"}

ClampDelay(delay) == IF delay < InitialDelay THEN InitialDelay
                     ELSE IF delay > MaxDelay THEN MaxDelay ELSE delay

(* The factor is 1.5.                                                      *)
BackoffAndTryRestarting(s) ==
  [HardAssert(s, s.state = "Error") EXCEPT
     !.state = "Backoff",
     !.timers = @ \cup {"backoff"},
     !.base = ClampDelay((@ * 3) \div 2)]

RequestCredentials(s) ==
  [HardAssert(s, s.state = "Initial") EXCEPT
     !.state = "Starting",
     !.requests = @ \cup {"current"}]

Start(s) == IF s.state = "Error" THEN BackoffAndTryRestarting(s) ELSE RequestCredentials(s)

(* Faulty variant: the stream is not started when the backoff is over.     *)
BackoffElapsedWithoutStart(s) == [s EXCEPT !.state = "Initial", !.timers = @ \ {"backoff"}]

(* The backoff timer.                                                      *)
BackoffElapsed(s) ==
  Start([HardAssert(s, s.state = "Backoff") EXCEPT
           !.state = "Initial",
           !.timers = @ \ {"backoff"}])

InhibitBackoff(s) == [HardAssert(s, ~IsStarted(s)) EXCEPT !.state = "Initial", !.base = 0]

Reset(s) == [s EXCEPT !.base = 0]

CancelIdleCheck(s) == [s EXCEPT !.timers = @ \ {"idle"}]

MarkIdle(s) == IF IsOpen(s) THEN [s EXCEPT !.timers = @ \cup {"idle"}] ELSE s

WriteTo(s) == CancelIdleCheck(HardAssert(s, IsOpen(s)))

(* The token has come (the callback that carries the current close count). *)
ResumeStartWithCredentials(s) ==
  [HardAssert(s, s.state = "Starting") EXCEPT !.requests = @ \ {"current"}, !.state = "Open"]

DropStaleToken(s) == [s EXCEPT !.requests = @ \ {"stale"}]

(* Faulty variant: closing does not count, so that a request for a token   *)
(* that was made for the closed stream still looks like the current one.   *)
InvalidateRequestsNot(s) == s

(* Incrementing close_count_ makes the request on its way a stale one.     *)
InvalidateRequests(s) == [s EXCEPT !.requests = IF @ = {} THEN {} ELSE {"stale"}]

(* Close up to the point where the listener is notified: all timers are    *)
(* cancelled, requests invalidated.  A graceful close leaves the backoff   *)
(* reset, a failure leaves it or sets it to its maximum.                   *)
CloseGracefully(s) == [InvalidateRequests(s) EXCEPT !.timers = {}, !.base = 0, !.state = "Initial"]

CloseWithError(s, status) ==
  [InvalidateRequests(HardAssert(s, IsStarted(s))) EXCEPT
     !.timers = {},
     !.base = IF status = "exhausted" THEN MaxDelay ELSE @,
     !.state = "Error"]

=============================================================================
