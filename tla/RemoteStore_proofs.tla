-------------------------- MODULE RemoteStore_proofs --------------------------
(***************************************************************************)
(* Proofs about the connection of the document store, for any targets,     *)
(* delays and bounds.                                                      *)
(***************************************************************************)
EXTENDS RemoteStore, TLAPS

(* A stream between two operations of the worker queue: what it waits for  *)
(* fits its state, and no assertion has failed.                            *)
SoundStream(s) ==
  /\ s \in Streams
  /\ s.ok
  /\ s.state = "Starting" <=> "current" \in s.requests
  /\ s.state = "Backoff" <=> "backoff" \in s.timers
  /\ "idle" \in s.timers => IsOpen(s)

(* The tracker's timer runs while nothing is known and nothing has failed. *)
SoundTracker(o) ==
  /\ o \in Trackers
  /\ o.ok
  /\ o.timer => o.state = "Unknown"
  /\ o.timer \/ o.state = "Online" => o.failures = 0

(* A stream that is not started leaves nothing known of the connection and *)
(* no timer; it is not needed, and a stream that may idle is not either.   *)
WatchInv ==
  /\ SoundStream(watch) /\ SoundTracker(tracker)
  /\ ~IsStarted(watch) => tracker.state = "Unknown" /\ ~tracker.timer /\ listens = {}
  /\ "idle" \in watch.timers => listens = {}

(* What has been written to the stream, before and after the handshake.    *)
WriteInv ==
  /\ SoundStream(write)
  /\ handshake \in BOOLEAN
  /\ stored \in Nat /\ pipeline = Filled(stored)
  /\ handshake => IsOpen(write)
  /\ sent = IF handshake THEN pipeline ELSE 0
  /\ pipeline > 0 => IsStarted(write)
  /\ "idle" \in write.timers => handshake /\ pipeline = 0

Bounds ==
  /\ listens \subseteq Targets /\ asked \in BOOLEAN
  /\ stored <= MaxStored /\ signIns \in 0 .. MaxSignIns

RemoteInv == WatchInv /\ WriteInv /\ Bounds

-----------------------------------------------------------------------------
(* The operators of Stream on a sound stream.                              *)

LEMMA ClampedDelay ==
  ASSUME NEW delay \in Nat
  PROVE  ClampDelay(delay) \in 0 .. MaxDelay
BY DelayAssumption DEF ClampDelay

(* A stream that is not started is sound, and starting, after a start: it  *)
(* waits for a token, or for the end of its backoff.                       *)
LEMMA StartIsSound ==
  ASSUME NEW s, SoundStream(s), ~IsStarted(s)
  PROVE  /\ SoundStream(Start(s)) /\ IsStarted(Start(s)) /\ ~IsOpen(Start(s))
         /\ "idle" \notin Start(s).timers
<1>1. /\ s \in Streams /\ s.ok = TRUE /\ s.base \in 0 .. MaxDelay
      /\ s.requests \subseteq {"current", "stale"} /\ s.timers \subseteq {"idle", "backoff"}
      /\ s.state \in {"Initial", "Error"}
      /\ "current" \notin s.requests /\ "idle" \notin s.timers /\ "backoff" \notin s.timers
  BY DEF SoundStream, IsStarted, IsOpen, Streams, States
<1>2. CASE s.state = "Initial"
  <2>1. Start(s) = [s EXCEPT !.ok = TRUE, !.state = "Starting", !.requests = @ \cup {"current"}]
    BY <1>1, <1>2 DEF Start, RequestCredentials, HardAssert, Streams
  <2>2. /\ Start(s) \in Streams
        /\ Start(s).ok = TRUE /\ Start(s).state = "Starting" /\ Start(s).timers = s.timers
        /\ "current" \in Start(s).requests
    BY <1>1, <2>1 DEF Streams, States
  <2> QED
    BY <1>1, <2>2 DEF SoundStream, IsStarted, IsOpen
<1>3. CASE s.state = "Error"
  <2> DEFINE delay == ClampDelay((s.base * 3) \div 2)
  <2>1. delay \in 0 .. MaxDelay
    BY <1>1, ClampedDelay
  <2>2. Start(s) = [s EXCEPT !.ok = TRUE, !.state = "Backoff", !.timers = @ \cup {"backoff"},
                             !.base = delay]
    BY <1>1, <1>3 DEF Start, BackoffAndTryRestarting, HardAssert, Streams
  <2> HIDE DEF delay
  <2>3. /\ Start(s) \in Streams
        /\ Start(s).ok = TRUE /\ Start(s).state = "Backoff" /\ Start(s).requests = s.requests
        /\ Start(s).timers = s.timers \cup {"backoff"}
    BY <1>1, <2>1, <2>2 DEF Streams, States
  <2> QED
    BY <1>1, <2>3 DEF SoundStream, IsStarted, IsOpen
<1> QED
  BY <1>1, <1>2, <1>3

(* The end of the backoff asks for a token.                                *)
LEMMA BackoffElapsedIsSound ==
  ASSUME NEW s, SoundStream(s), "backoff" \in s.timers
  PROVE  /\ SoundStream(BackoffElapsed(s)) /\ IsStarted(BackoffElapsed(s))
         /\ ~IsOpen(BackoffElapsed(s)) /\ "idle" \notin BackoffElapsed(s).timers
<1> DEFINE t == [HardAssert(s, s.state = "Backoff") EXCEPT !.state = "Initial",
                                                           !.timers = @ \ {"backoff"}]
<1>1. s \in Streams /\ s.ok = TRUE /\ s.state = "Backoff"
  BY DEF SoundStream, Streams
<1>2. /\ t \in Streams /\ t.ok = TRUE /\ t.state = "Initial" /\ t.requests = s.requests
      /\ t.timers = s.timers \ {"backoff"}
  BY <1>1 DEF HardAssert, Streams, States
<1>3. BackoffElapsed(s) = Start(t)
  BY DEF BackoffElapsed
<1> HIDE DEF t
<1>4. SoundStream(t) /\ ~IsStarted(t)
  BY <1>1, <1>2 DEF SoundStream, IsStarted, IsOpen
<1> QED
  BY <1>3, <1>4, StartIsSound

(* A token opens the stream that waits for it.                             *)
LEMMA OpeningIsSound ==
  ASSUME NEW s, SoundStream(s), "current" \in s.requests
  PROVE  /\ SoundStream(ResumeStartWithCredentials(s)) /\ IsOpen(ResumeStartWithCredentials(s))
         /\ "idle" \notin ResumeStartWithCredentials(s).timers
<1>1. ResumeStartWithCredentials(s) =
        [s EXCEPT !.ok = TRUE, !.requests = @ \ {"current"}, !.state = "Open"]
  BY DEF ResumeStartWithCredentials, HardAssert, SoundStream, Streams
<1> QED
  BY <1>1 DEF SoundStream, IsOpen, Streams, States

(* A write to an open stream, and the marks of idleness and of a message.  *)
LEMMA WriteToIsSound ==
  ASSUME NEW s, SoundStream(s), IsOpen(s)
  PROVE  SoundStream(WriteTo(s)) /\ IsOpen(WriteTo(s)) /\ "idle" \notin WriteTo(s).timers
<1>1. WriteTo(s) = [s EXCEPT !.ok = TRUE, !.timers = @ \ {"idle"}]
  BY DEF WriteTo, CancelIdleCheck, HardAssert, SoundStream, Streams
<1> QED
  BY <1>1 DEF SoundStream, IsOpen, Streams

LEMMA MarkIdleIsSound ==
  ASSUME NEW s, SoundStream(s)
  PROVE  SoundStream(MarkIdle(s)) /\ MarkIdle(s).state = s.state
BY DEF MarkIdle, SoundStream, IsOpen, Streams

LEMMA ResetIsSound ==
  ASSUME NEW s, SoundStream(s)
  PROVE  SoundStream(Reset(s)) /\ Reset(s).state = s.state /\ Reset(s).timers = s.timers
BY DelayAssumption DEF Reset, SoundStream, IsOpen, Streams

LEMMA DroppingAStaleTokenIsSound ==
  ASSUME NEW s, SoundStream(s)
  PROVE  /\ SoundStream(DropStaleToken(s))
         /\ DropStaleToken(s).state = s.state /\ DropStaleToken(s).timers = s.timers
BY DEF DropStaleToken, SoundStream, IsOpen, Streams

(* A closed stream has no timer and no request but a stale one.            *)
LEMMA ClosingIsSound ==
  ASSUME NEW s, SoundStream(s)
  PROVE  SoundStream(CloseGracefully(s)) /\ CloseGracefully(s).state = "Initial"
<1> DEFINE t == CloseGracefully(s)
<1>1. s \in Streams /\ s.ok = TRUE /\ 0 \in 0 .. MaxDelay
  BY DelayAssumption DEF SoundStream, Streams
<1>2. /\ t \in Streams /\ t.ok = TRUE /\ t.state = "Initial" /\ t.timers = {}
      /\ t.requests \subseteq {"stale"}
  BY <1>1 DEF CloseGracefully, InvalidateRequests, Streams, States
<1> QED
  BY <1>2 DEF SoundStream, IsOpen

LEMMA FailingIsSound ==
  ASSUME NEW s, NEW status, SoundStream(s), IsStarted(s)
  PROVE  SoundStream(CloseWithError(s, status)) /\ CloseWithError(s, status).state = "Error"
<1> DEFINE t == CloseWithError(s, status)
<1>1. /\ s \in Streams /\ s.ok = TRUE /\ MaxDelay \in 0 .. MaxDelay
  BY DelayAssumption DEF SoundStream, Streams
<1>2. /\ t \in Streams /\ t.ok = TRUE /\ t.state = "Error" /\ t.timers = {}
      /\ t.requests \subseteq {"stale"}
  BY <1>1 DEF CloseWithError, InvalidateRequests, HardAssert, Streams, States
<1> QED
  BY <1>2 DEF SoundStream, IsOpen

(* The failure of a token request, whose callback is gone by then.         *)
LEMMA TokenFailureIsSound ==
  ASSUME NEW s, NEW status, SoundStream(s), "current" \in s.requests
  PROVE  LET t == CloseWithError([s EXCEPT !.requests = @ \ {"current"}], status)
         IN  SoundStream(t) /\ t.state = "Error"
<1>1. /\ s \in Streams /\ s.ok = TRUE /\ s.base \in 0 .. MaxDelay /\ MaxDelay \in 0 .. MaxDelay
      /\ s.state = "Starting"
  BY DelayAssumption DEF SoundStream, Streams
<1> QED
  BY <1>1 DEF CloseWithError, InvalidateRequests, HardAssert, IsStarted, SoundStream, IsOpen,
              Streams, States

-----------------------------------------------------------------------------
(* The operators of OnlineStateTracker on a sound tracker.                 *)

LEMMA UpdatedTrackerIsSound ==
  ASSUME NEW o, NEW new \in OnlineStates, SoundTracker(o)
  PROVE  LET u == UpdateState(o, new)
         IN  SoundTracker(u) /\ u.state = new /\ u.timer = FALSE /\ u.failures = 0
<1> DEFINE u == UpdateState(o, new)
<1>1. o \in Trackers /\ o.ok = TRUE
  BY DEF SoundTracker, Trackers
<1>2. u = [o EXCEPT !.state = new, !.failures = 0, !.timer = FALSE]
  BY DEF UpdateState
<1> HIDE DEF u
<1>3. u.ok = TRUE /\ u.state = new /\ u.timer = FALSE /\ u.failures = 0
  BY <1>1, <1>2 DEF Trackers
<1>4. u \in Trackers
  <2>1. new \in OnlineStates /\ 0 \in 0 .. MaxWatchStreamFailures
    BY DEF MaxWatchStreamFailures
  <2> QED
    BY <1>1, <1>2, <2>1 DEF Trackers
<1>5. SoundTracker(u)
  BY <1>3, <1>4 DEF SoundTracker
<1> QED
  BY <1>3, <1>5 DEF u

(* A start of the watch stream sets the timer unless a failure counts.     *)
LEMMA StartedTrackerIsSound ==
  ASSUME NEW o, SoundTracker(o), o.timer = FALSE
  PROVE  LET u == HandleWatchStreamStart(o)
         IN  /\ SoundTracker(u)
             /\ u.state = IF o.failures = 0 THEN "Unknown" ELSE o.state
<1> DEFINE u == HandleWatchStreamStart(o)
<1>1. o \in Trackers /\ o.ok = TRUE
  BY DEF SoundTracker, Trackers
<1>2. CASE o.failures # 0
  BY <1>2 DEF HandleWatchStreamStart
<1>3. CASE o.failures = 0
  <2>1. /\ u \in Trackers /\ u.ok = TRUE /\ u.state = "Unknown" /\ u.timer = TRUE
        /\ u.failures = 0
    BY <1>1, <1>3 DEF HandleWatchStreamStart, Trackers, OnlineStates
  <2> QED
    BY <1>3, <2>1 DEF SoundTracker
<1> QED
  BY <1>2, <1>3

(* A failure: a client that was online tries again at leisure, any other   *)
(* is offline.                                                             *)
LEMMA FailedTrackerIsSound ==
  ASSUME NEW o, SoundTracker(o)
  PROVE  LET u == HandleWatchStreamFailure(o)
         IN  /\ SoundTracker(u) /\ u.timer = FALSE
             /\ IF o.state = "Online" THEN u.state = "Unknown" /\ u.failures = 0
                                      ELSE u.state = "Offline" /\ u.failures = 1
<1> DEFINE u == HandleWatchStreamFailure(o)
<1>1. o \in Trackers /\ o.ok = TRUE /\ o.failures \in {0, 1}
  BY DEF SoundTracker, Trackers, MaxWatchStreamFailures
<1>2. CASE o.state = "Online"
  <2>1. o.failures = 0 /\ o.timer = FALSE
    BY <1>1, <1>2 DEF SoundTracker, Trackers
  <2>2. /\ u \in Trackers /\ u.ok = TRUE /\ u.state = "Unknown" /\ u.timer = FALSE
        /\ u.failures = 0
    BY <1>1, <1>2, <2>1 DEF HandleWatchStreamFailure, FailureOnceOnline, Trackers, OnlineStates
  <2> QED
    BY <1>2, <2>2 DEF SoundTracker
<1>3. CASE o.state # "Online"
  <2> DEFINE counted == [o EXCEPT !.failures = IF @ < MaxWatchStreamFailures THEN @ + 1 ELSE @]
  <2>1. /\ counted \in Trackers /\ counted.ok = TRUE /\ counted.failures = 1
    BY <1>1 DEF Trackers, MaxWatchStreamFailures
  <2>2. u = [counted EXCEPT !.timer = FALSE, !.state = "Offline"]
    BY <1>3, <2>1 DEF HandleWatchStreamFailure, FailureCounted, MaxWatchStreamFailures
  <2> HIDE DEF counted, u
  <2>3. /\ u \in Trackers /\ u.ok = TRUE /\ u.state = "Offline" /\ u.timer = FALSE
        /\ u.failures = 1
    BY <2>1, <2>2 DEF Trackers, OnlineStates
  <2>4. SoundTracker(u)
    BY <2>3 DEF SoundTracker
  <2> QED
    BY <1>3, <2>3, <2>4 DEF u
<1> QED
  BY <1>2, <1>3

LEMMA TimedOutTrackerIsSound ==
  ASSUME NEW o, SoundTracker(o), o.timer
  PROVE  LET u == TimeoutElapsed(o)
         IN  SoundTracker(u) /\ u.state = "Offline" /\ u.timer = FALSE
<1> DEFINE u == TimeoutElapsed(o)
<1>1. o \in Trackers /\ o.ok = TRUE /\ o.state = "Unknown"
  BY DEF SoundTracker, Trackers
<1>2. u \in Trackers /\ u.ok = TRUE /\ u.state = "Offline" /\ u.timer = FALSE
  BY <1>1 DEF TimeoutElapsed, Trackers, OnlineStates
<1> QED
  BY <1>2 DEF SoundTracker

-----------------------------------------------------------------------------
(* The watch stream.  A closed stream and what the tracker makes of it, up *)
(* to a start if the stream is needed.                                     *)
LEMMA WatchClosesInv ==
  ASSUME WatchInv, NEW w, SoundStream(w), w.state = "Error", WatchCloses(w, tracker),
         UNCHANGED listens
  PROVE  WatchInv'
<1>1. "Unknown" \in OnlineStates /\ SoundTracker(tracker)
  BY DEF OnlineStates, WatchInv
<1>2. "idle" \notin w.timers /\ ~IsStarted(w)
  BY DEF SoundStream, IsOpen, IsStarted
<1>3. CASE listens = {}
  <2>1. watch' = w /\ tracker' = UpdateState(tracker, "Unknown")
    BY <1>3 DEF WatchCloses, WatchBecomes
  <2> QED
    BY <1>1, <1>2, <1>3, <2>1, UpdatedTrackerIsSound DEF WatchInv
<1>4. CASE listens # {}
  <2> DEFINE failed == HandleWatchStreamFailure(tracker)
  <2>1. watch' = Start(w) /\ tracker' = HandleWatchStreamStart(failed)
    BY <1>4 DEF WatchCloses, StartWatchStream, WatchBecomes
  <2>2. SoundTracker(failed) /\ failed.timer = FALSE
    BY <1>1, FailedTrackerIsSound
  <2> HIDE DEF failed
  <2>3. SoundTracker(tracker')
    BY <2>1, <2>2, StartedTrackerIsSound
  <2>4. SoundStream(watch') /\ IsStarted(watch') /\ "idle" \notin watch'.timers
    BY <1>2, <2>1, StartIsSound
  <2> QED
    BY <2>3, <2>4 DEF WatchInv
<1> QED
  BY <1>3, <1>4

LEMMA ListenInv ==
  ASSUME WatchInv, NEW t \in Targets, Listen(t)
  PROVE  WatchInv'
<1>1. CASE ~IsStarted(watch) /\ StartWatchStream(watch, tracker)
  <2>1. watch' = Start(watch) /\ tracker' = HandleWatchStreamStart(tracker)
    BY <1>1 DEF StartWatchStream, WatchBecomes
  <2>2. SoundTracker(tracker) /\ tracker.timer = FALSE /\ SoundStream(watch)
    BY <1>1 DEF WatchInv, SoundTracker, Trackers
  <2>3. SoundTracker(tracker')
    BY <2>1, <2>2, StartedTrackerIsSound
  <2>4. SoundStream(watch') /\ IsStarted(watch') /\ "idle" \notin watch'.timers
    BY <1>1, <2>1, <2>2, StartIsSound
  <2> QED
    BY <2>3, <2>4 DEF WatchInv
<1>2. CASE IsOpen(watch) /\ WatchBecomes(WriteTo(watch), tracker)
  <2>1. SoundStream(watch') /\ IsOpen(watch') /\ "idle" \notin watch'.timers
    BY <1>2, WriteToIsSound DEF WatchInv, WatchBecomes
  <2> QED
    BY <1>2, <2>1 DEF WatchInv, WatchBecomes, IsOpen, IsStarted
<1>3. CASE IsStarted(watch) /\ ~IsOpen(watch) /\ UNCHANGED <<watch, tracker>>
  BY <1>3 DEF WatchInv, SoundStream
<1> QED
  BY <1>1, <1>2, <1>3 DEF Listen

LEMMA StopListeningInv ==
  ASSUME WatchInv, NEW t \in Targets, StopListening(t)
  PROVE  WatchInv'
<1>1. listens' = listens \ {t} /\ listens # {}
  BY DEF StopListening
<1>2. IsStarted(watch) /\ SoundStream(watch) /\ SoundTracker(tracker)
  BY <1>1 DEF WatchInv
<1>3. CASE IsOpen(watch) /\ listens = {t}
  <2>1. watch' = MarkIdle(WriteTo(watch)) /\ tracker' = tracker
    BY <1>3 DEF StopListening, WatchBecomes
  <2>2. SoundStream(watch') /\ watch'.state = "Open"
    BY <1>2, <1>3, <2>1, WriteToIsSound, MarkIdleIsSound DEF IsOpen
  <2> QED
    BY <1>1, <1>2, <1>3, <2>1, <2>2 DEF WatchInv, IsStarted
<1>4. CASE IsOpen(watch) /\ listens # {t}
  <2>1. watch' = WriteTo(watch) /\ tracker' = tracker
    BY <1>4 DEF StopListening, WatchBecomes
  <2>2. SoundStream(watch') /\ watch'.state = "Open" /\ "idle" \notin watch'.timers
    BY <1>2, <1>4, <2>1, WriteToIsSound DEF IsOpen
  <2> QED
    BY <1>2, <2>1, <2>2 DEF WatchInv, IsStarted
<1>5. CASE ~IsOpen(watch)
  <2>1. /\ watch' = watch
        /\ tracker' = tracker \/ tracker' = UpdateState(tracker, "Unknown")
    BY <1>5 DEF StopListening, WatchBecomes
  <2>2. SoundTracker(tracker')
    BY <1>2, <2>1, UpdatedTrackerIsSound DEF OnlineStates
  <2>3. "idle" \notin watch.timers
    BY <1>2, <1>5 DEF SoundStream
  <2> QED
    BY <1>2, <2>1, <2>2, <2>3 DEF WatchInv
<1> QED
  BY <1>3, <1>4, <1>5

LEMMA WatchTokenArrivesInv ==
  ASSUME WatchInv, WatchTokenArrives
  PROVE  WatchInv'
<1> DEFINE open == ResumeStartWithCredentials(watch)
<1>1. SoundStream(open) /\ IsOpen(open) /\ "idle" \notin open.timers
  BY OpeningIsSound DEF WatchTokenArrives, WatchInv
<1>2. /\ watch' = open \/ watch' = WriteTo(open)
      /\ tracker' = tracker
  BY DEF WatchTokenArrives, WatchBecomes
<1> HIDE DEF open
<1>3. SoundStream(watch') /\ IsOpen(watch') /\ "idle" \notin watch'.timers
  BY <1>1, <1>2, WriteToIsSound
<1> QED
  BY <1>2, <1>3 DEF WatchInv, IsOpen, IsStarted

LEMMA WatchTokenFailsInv ==
  ASSUME WatchInv, WatchTokenFails
  PROVE  WatchInv'
<1> DEFINE closed == CloseWithError([watch EXCEPT !.requests = @ \ {"current"}], "transient")
<1>1. SoundStream(closed) /\ closed.state = "Error"
  BY TokenFailureIsSound DEF WatchTokenFails, WatchInv
<1>2. WatchCloses(closed, tracker) /\ UNCHANGED listens
  BY DEF WatchTokenFails
<1> QED
  BY <1>1, <1>2, WatchClosesInv

LEMMA WatchFailsInv ==
  ASSUME WatchInv, WatchFails
  PROVE  WatchInv'
<1>1. PICK status : WatchCloses(CloseWithError(watch, status), tracker)
  BY DEF WatchFails
<1>2. SoundStream(watch) /\ IsStarted(watch) /\ UNCHANGED listens
  BY DEF WatchFails, WatchInv, IsOpen, IsStarted
<1>3. /\ SoundStream(CloseWithError(watch, status))
      /\ CloseWithError(watch, status).state = "Error"
  BY <1>2, FailingIsSound
<1> QED
  BY <1>1, <1>2, <1>3, WatchClosesInv

(* The timers and messages that leave a needed stream needed.              *)
LEMMA WatchProceedsInv ==
  ASSUME WatchInv, WatchBackoffElapses \/ OnlineTimeout \/ WatchChange
  PROVE  WatchInv'
<1>1. CASE WatchBackoffElapses
  <2>1. SoundStream(watch') /\ IsStarted(watch') /\ "idle" \notin watch'.timers
    BY <1>1, BackoffElapsedIsSound DEF WatchBackoffElapses, WatchBecomes, WatchInv
  <2> QED
    BY <1>1, <2>1 DEF WatchBackoffElapses, WatchBecomes, WatchInv
<1>2. CASE OnlineTimeout
  <2>1. tracker.timer /\ watch' = watch /\ listens' = listens /\ tracker' = TimeoutElapsed(tracker)
    BY <1>2 DEF OnlineTimeout, WatchBecomes
  <2>2. SoundTracker(tracker') /\ IsStarted(watch)
    BY <2>1, TimedOutTrackerIsSound DEF WatchInv
  <2> QED
    BY <2>1, <2>2 DEF WatchInv
<1>3. CASE WatchChange
  <2>1. /\ watch' = Reset(watch) /\ tracker' = UpdateState(tracker, "Online")
        /\ IsOpen(watch) /\ listens' \subseteq listens
    BY <1>3 DEF WatchChange, WatchBecomes
  <2>2. SoundTracker(tracker')
    BY <2>1, UpdatedTrackerIsSound DEF WatchInv, OnlineStates
  <2>3. SoundStream(watch') /\ watch'.state = watch.state /\ watch'.timers = watch.timers
    BY <2>1, ResetIsSound DEF WatchInv
  <2>4. IsStarted(watch')
    BY <2>1, <2>3 DEF IsOpen, IsStarted
  <2> QED
    BY <2>1, <2>2, <2>3, <2>4 DEF WatchInv
<1> QED
  BY <1>1, <1>2, <1>3

(* A stream that idles is one nobody needs: the assertion holds.           *)
LEMMA WatchIdlesInv ==
  ASSUME WatchInv, WatchIdles
  PROVE  WatchInv'
<1> DEFINE closed == CloseGracefully(watch)
<1>1. listens = {} /\ listens' = {}
  BY DEF WatchIdles, WatchInv
<1>2. SoundStream(closed) /\ closed.state = "Initial"
  BY ClosingIsSound DEF WatchInv
<1>3. closed \in Streams /\ closed.ok = TRUE
  BY <1>2 DEF SoundStream, Streams
<1>4. watch' = HardAssert(closed, listens = {}) /\ tracker' = UpdateState(tracker, "Unknown")
  BY DEF WatchIdles, WatchBecomes
<1> HIDE DEF closed
<1>5. watch' = [closed EXCEPT !.ok = TRUE]
  BY <1>1, <1>3, <1>4 DEF HardAssert
<1>6. watch' = closed
  BY <1>3, <1>5 DEF Streams
<1>7. /\ SoundTracker(tracker') /\ tracker'.state = "Unknown"
      /\ ~tracker'.timer
  BY <1>4, UpdatedTrackerIsSound DEF WatchInv, OnlineStates
<1>8. ~IsStarted(watch') /\ SoundStream(watch')
  BY <1>2, <1>6 DEF IsStarted
<1> QED
  BY <1>1, <1>7, <1>8 DEF WatchInv

-----------------------------------------------------------------------------
(* The write stream.                                                       *)

LEMMA FilledPipeline ==
  ASSUME NEW batches \in Nat
  PROVE  /\ Filled(batches) \in 0 .. MaxPendingWrites
         /\ Filled(batches) <= batches
         /\ Filled(batches) = 0 <=> batches = 0
         /\ batches > 0 => Filled(batches - 1) <= Filled(batches)
         /\ batches > 0 => Filled(batches) <= Filled(batches - 1) + 1
BY RemoteStoreAssumption DEF Filled

(* Filling the pipeline leaves the write stream in its invariant, if what  *)
(* was there before was written to it, and brings a stream that is needed  *)
(* on its way.                                                             *)
LEMMA FillInv ==
  ASSUME NEW s, NEW onStream \in Nat, NEW batches \in Nat,
         SoundStream(s),
         handshake' \in BOOLEAN, handshake' <=> IsOpen(s) /\ handshake,
         handshake' \/ onStream = 0,
         IsOpen(s) => handshake' \/ batches > 0,
         "idle" \in s.timers => handshake' /\ onStream = 0,
         stored' = batches, FillWritePipeline(s, onStream, batches)
  PROVE  WriteInv'
<1> DEFINE full == Filled(batches)
           written == IF IsOpen(s) /\ handshake /\ onStream < full THEN WriteTo(s) ELSE s
<1>1. /\ write' = IF full = 0 THEN MarkIdle(s) ELSE IF IsStarted(s) THEN written ELSE Start(s)
      /\ pipeline' = full
      /\ sent' = IF handshake' THEN full ELSE 0
  BY DEF FillWritePipeline, WriteBecomes
<1>2. full \in Nat /\ (full = 0 <=> batches = 0)
  BY FilledPipeline
<1> HIDE DEF full
<1>3. CASE full = 0
  <2>1. write' = MarkIdle(s)
    BY <1>1, <1>3
  <2>2. SoundStream(write') /\ write'.state = s.state
    BY <2>1, MarkIdleIsSound
  <2>3. "idle" \in write'.timers => IsOpen(s)
    BY <2>2 DEF SoundStream, IsOpen
  <2>4. "idle" \in write'.timers => handshake'
    BY <1>2, <1>3, <2>3
  <2>5. handshake' => IsOpen(write')
    BY <2>2 DEF IsOpen
  <2> QED
    BY <1>1, <1>2, <1>3, <2>2, <2>4, <2>5 DEF WriteInv, full
<1>4. CASE full # 0 /\ ~IsStarted(s)
  <2>1. write' = Start(s) /\ ~handshake'
    BY <1>1, <1>4 DEF IsOpen, IsStarted
  <2>2. SoundStream(write') /\ IsStarted(write') /\ "idle" \notin write'.timers
    BY <1>4, <2>1, StartIsSound
  <2> QED
    BY <1>1, <2>1, <2>2 DEF WriteInv, full
<1>5. CASE full # 0 /\ IsStarted(s)
  <2>1. write' = written
    BY <1>1, <1>5
  <2>2. SoundStream(write') /\ IsStarted(write') /\ (handshake' => IsOpen(write'))
    BY <1>5, <2>1, WriteToIsSound DEF IsOpen, IsStarted
  <2>3. "idle" \notin write'.timers
    <3>1. CASE handshake' /\ onStream < full
      BY <2>1, <3>1, WriteToIsSound
    <3>2. CASE ~(handshake' /\ onStream < full)
      BY <1>2, <1>5, <2>1, <3>2
    <3> QED
      BY <3>1, <3>2
  <2> QED
    BY <1>1, <2>2, <2>3 DEF WriteInv, full
<1> QED
  BY <1>3, <1>4, <1>5

LEMMA AddMutationInv ==
  ASSUME WriteInv, AddMutation
  PROVE  WriteInv'
<1>1. /\ SoundStream(write) /\ stored \in Nat /\ sent \in Nat
      /\ handshake \in BOOLEAN /\ (handshake => IsOpen(write))
      /\ handshake \/ sent = 0
      /\ "idle" \in write.timers => handshake /\ sent = 0
  BY FilledPipeline DEF WriteInv
<1>2. /\ stored' = stored + 1 /\ FillWritePipeline(write, sent, stored + 1)
      /\ handshake' = handshake /\ stored + 1 \in Nat /\ stored + 1 > 0
  BY <1>1 DEF AddMutation
<1> QED
  BY <1>1, <1>2, FillInv

(* The handshake is asked for on a new stream, on which nothing has been   *)
(* written.                                                                *)
LEMMA WriteTokenArrivesInv ==
  ASSUME WriteInv, WriteTokenArrives
  PROVE  WriteInv'
<1> DEFINE open == ResumeStartWithCredentials(write)
<1>1. handshake = FALSE
  BY DEF WriteTokenArrives, WriteInv, SoundStream, IsOpen
<1>2. SoundStream(open) /\ IsOpen(open) /\ open \in Streams /\ open.ok = TRUE
  BY OpeningIsSound DEF WriteTokenArrives, WriteInv, SoundStream, Streams
<1>3. /\ write' = WriteTo(HardAssert(open, ~handshake))
      /\ UNCHANGED <<handshake, stored, pipeline>> /\ sent' = 0
  BY DEF WriteTokenArrives, WriteBecomes
<1> HIDE DEF open
<1>4. HardAssert(open, ~handshake) = open
  BY <1>1, <1>2 DEF HardAssert, Streams
<1>5. SoundStream(write') /\ IsOpen(write') /\ "idle" \notin write'.timers
  BY <1>2, <1>3, <1>4, WriteToIsSound
<1> QED
  BY <1>1, <1>3, <1>5 DEF WriteInv, IsOpen, IsStarted

LEMMA HandshakeCompletesInv ==
  ASSUME WriteInv, HandshakeCompletes
  PROVE  WriteInv'
<1>1. SoundStream(write) /\ IsOpen(write) /\ "idle" \notin write.timers
  BY DEF WriteInv, HandshakeCompletes
<1>2. /\ write' = write \/ write' = WriteTo(write)
      /\ handshake' = TRUE /\ UNCHANGED <<stored, pipeline>> /\ sent' = pipeline
  BY DEF HandshakeCompletes, WriteBecomes
<1>3. SoundStream(write') /\ IsOpen(write') /\ "idle" \notin write'.timers
  BY <1>1, <1>2, WriteToIsSound
<1> QED
  BY <1>2, <1>3 DEF WriteInv, IsOpen, IsStarted

(* The pipeline holds what has been sent: the assertion of the result.     *)
LEMMA MutationResultInv ==
  ASSUME WriteInv, MutationResult
  PROVE  WriteInv'
<1>1. /\ handshake = TRUE /\ IsOpen(write) /\ stored \in Nat
      /\ sent = pipeline /\ pipeline = Filled(stored) /\ sent > 0
      /\ "idle" \notin write.timers
  BY DEF WriteInv, MutationResult
<1>2. /\ sent \in Nat /\ stored - 1 \in Nat /\ sent - 1 \in Nat
  BY <1>1, FilledPipeline
<1> DEFINE heard == Reset(write)
<1>3. /\ SoundStream(heard) /\ IsOpen(heard) /\ "idle" \notin heard.timers
      /\ heard \in Streams /\ heard.ok = TRUE
  BY <1>1, ResetIsSound DEF WriteInv, SoundStream, Streams, IsOpen
<1>4. /\ FillWritePipeline(HardAssert(heard, pipeline > 0), sent - 1, stored - 1)
      /\ stored' = stored - 1 /\ handshake' = handshake
  BY DEF MutationResult
<1> HIDE DEF heard
<1>5. HardAssert(heard, pipeline > 0) = heard
  BY <1>1, <1>2, <1>3 DEF HardAssert, Streams
<1> QED
  BY <1>1, <1>2, <1>3, <1>4, <1>5, FillInv

(* A closed stream: the first batch is given up, or all are sent again.    *)
LEMMA WriteClosesInv ==
  ASSUME WriteInv, NEW s, NEW status, SoundStream(s), s.state = "Error", WriteCloses(s, status)
  PROVE  WriteInv'
<1>1. ~IsStarted(s) /\ ~IsOpen(s) /\ "idle" \notin s.timers /\ handshake' = FALSE
  BY DEF SoundStream, IsStarted, IsOpen, WriteCloses
<1>2. stored \in Nat /\ pipeline = Filled(stored) /\ pipeline \in Nat
  BY FilledPipeline DEF WriteInv
<1>3. CASE status = "permanent" /\ handshake /\ pipeline > 0
  <2> DEFINE t == InhibitBackoff(s)
  <2>1. s \in Streams /\ s.ok = TRUE /\ 0 \in 0 .. MaxDelay
    BY DelayAssumption DEF SoundStream, Streams
  <2>2. /\ t \in Streams /\ t.ok = TRUE /\ t.state = "Initial" /\ t.timers = s.timers
        /\ t.requests = s.requests
    BY <1>1, <2>1 DEF InhibitBackoff, HardAssert, Streams, States
  <2>3. FillWritePipeline(t, 0, stored - 1) /\ stored' = stored - 1
    BY <1>3 DEF WriteCloses
  <2>4. stored - 1 \in Nat
    BY <1>2, <1>3, FilledPipeline
  <2> HIDE DEF t
  <2>5. SoundStream(t) /\ ~IsOpen(t) /\ "idle" \notin t.timers
    BY <1>1, <2>2 DEF SoundStream, IsOpen
  <2> QED
    BY <1>1, <2>3, <2>4, <2>5, FillInv
<1>4. CASE ~(status = "permanent" /\ handshake /\ pipeline > 0)
  <2>1. /\ write' = IF pipeline > 0 THEN Start(s) ELSE s
        /\ UNCHANGED <<pipeline, stored>> /\ sent' = 0
    BY <1>4 DEF WriteCloses, WriteBecomes
  <2>2. /\ SoundStream(write') /\ "idle" \notin write'.timers
        /\ pipeline > 0 => IsStarted(write')
    BY <1>1, <2>1, StartIsSound
  <2> QED
    BY <1>1, <1>2, <2>1, <2>2 DEF WriteInv
<1> QED
  BY <1>3, <1>4

LEMMA WriteEndsInv ==
  ASSUME WriteInv, WriteTokenFails \/ WriteFails
  PROVE  WriteInv'
<1>1. CASE WriteTokenFails
  <2> DEFINE closed == CloseWithError([write EXCEPT !.requests = @ \ {"current"}], "transient")
  <2>1. SoundStream(closed) /\ closed.state = "Error"
    BY <1>1, TokenFailureIsSound DEF WriteTokenFails, WriteInv
  <2>2. WriteCloses(closed, "transient")
    BY <1>1 DEF WriteTokenFails
  <2> QED
    BY <2>1, <2>2, WriteClosesInv
<1>2. CASE WriteFails
  <2>1. PICK status : WriteCloses(CloseWithError(write, status), status)
    BY <1>2 DEF WriteFails
  <2>2. SoundStream(write) /\ IsStarted(write)
    BY <1>2 DEF WriteFails, WriteInv, IsOpen, IsStarted
  <2>3. /\ SoundStream(CloseWithError(write, status))
        /\ CloseWithError(write, status).state = "Error"
    BY <2>2, FailingIsSound
  <2> QED
    BY <2>1, <2>3, WriteClosesInv
<1> QED
  BY <1>1, <1>2

LEMMA WriteBackoffElapsesInv ==
  ASSUME WriteInv, WriteBackoffElapses
  PROVE  WriteInv'
<1>1. SoundStream(write') /\ IsStarted(write') /\ "idle" \notin write'.timers
  BY BackoffElapsedIsSound DEF WriteBackoffElapses, WriteBecomes, WriteInv
<1>2. ~handshake
  BY DEF WriteBackoffElapses, WriteInv, SoundStream, IsOpen
<1> QED
  BY <1>1, <1>2 DEF WriteBackoffElapses, WriteBecomes, WriteInv

LEMMA WriteIdlesInv ==
  ASSUME WriteInv, WriteIdles
  PROVE  WriteInv'
<1> DEFINE closed == CloseGracefully(write)
<1>1. pipeline = 0
  BY DEF WriteIdles, WriteInv
<1>2. SoundStream(closed) /\ closed.state = "Initial"
  BY ClosingIsSound DEF WriteInv
<1>3. closed \in Streams /\ closed.ok = TRUE
  BY <1>2 DEF SoundStream, Streams
<1>4. /\ write' = HardAssert(closed, pipeline = 0)
      /\ UNCHANGED <<pipeline, stored>> /\ sent' = 0 /\ handshake' = FALSE
  BY DEF WriteIdles, WriteBecomes
<1> HIDE DEF closed
<1>5. HardAssert(closed, pipeline = 0) = closed
  BY <1>1, <1>3 DEF HardAssert, Streams
<1>6. SoundStream(write') /\ "idle" \notin write'.timers
  BY <1>2, <1>4, <1>5 DEF SoundStream, IsOpen
<1>7. pipeline' = 0 /\ ~(pipeline' > 0)
  BY <1>1, <1>4
<1>8. pipeline' = Filled(stored') /\ stored' \in Nat
  BY <1>4 DEF WriteInv
<1> QED
  BY <1>4, <1>6, <1>7, <1>8 DEF WriteInv

-----------------------------------------------------------------------------
(* Both streams: tokens of streams closed meanwhile, and another user.     *)

LEMMA StaleTokenArrivesInv ==
  ASSUME WatchInv, WriteInv, StaleTokenArrives
  PROVE  WatchInv' /\ WriteInv'
<1>1. /\ SoundStream(watch') /\ watch'.state = watch.state /\ watch'.timers = watch.timers
      /\ SoundStream(write') /\ write'.state = write.state /\ write'.timers = write.timers
  BY DroppingAStaleTokenIsSound DEF WatchInv, WriteInv, StaleTokenArrives
<1>2. UNCHANGED <<tracker, listens, handshake, pipeline, sent, stored>>
  BY DEF StaleTokenArrives
<1> QED
  BY <1>1, <1>2 DEF WatchInv, WriteInv, IsOpen, IsStarted

LEMMA StoppingIsSound ==
  ASSUME NEW s, SoundStream(s)
  PROVE  /\ SoundStream(StopStream(s)) /\ ~IsStarted(StopStream(s))
         /\ ~IsOpen(StopStream(s)) /\ "idle" \notin StopStream(s).timers
<1>1. SoundStream(StopStream(s)) /\ ~IsStarted(StopStream(s))
  BY ClosingIsSound DEF StopStream, IsStarted
<1> QED
  BY <1>1 DEF SoundStream, IsOpen, IsStarted

LEMMA CredentialChangeInv ==
  ASSUME WatchInv, WriteInv, HandleCredentialChange
  PROVE  WatchInv' /\ WriteInv'
<1> DEFINE unknown == UpdateState(tracker, "Unknown")
<1>1. SoundTracker(unknown) /\ unknown.state = "Unknown" /\ unknown.timer = FALSE
  BY UpdatedTrackerIsSound DEF WatchInv, OnlineStates
<1>2. /\ SoundStream(StopStream(watch)) /\ ~IsStarted(StopStream(watch))
      /\ "idle" \notin StopStream(watch).timers
  BY StoppingIsSound DEF WatchInv
<1>3. /\ IF listens = {} THEN WatchBecomes(StopStream(watch), unknown)
                         ELSE StartWatchStream(StopStream(watch), unknown)
      /\ listens' = listens
  BY DEF HandleCredentialChange
<1> HIDE DEF unknown
<1>4. WatchInv'
  <2>1. CASE listens = {}
    <3>1. watch' = StopStream(watch) /\ tracker' = unknown
      BY <1>3, <2>1 DEF WatchBecomes
    <3> QED
      BY <1>1, <1>2, <1>3, <2>1, <3>1 DEF WatchInv
  <2>2. CASE listens # {}
    <3>1. watch' = Start(StopStream(watch)) /\ tracker' = HandleWatchStreamStart(unknown)
      BY <1>3, <2>2 DEF StartWatchStream, WatchBecomes
    <3>2. SoundTracker(tracker')
      BY <1>1, <3>1, StartedTrackerIsSound
    <3>3. SoundStream(watch') /\ IsStarted(watch') /\ "idle" \notin watch'.timers
      BY <1>2, <3>1, StartIsSound
    <3> QED
      BY <3>2, <3>3 DEF WatchInv
  <2> QED
    BY <2>1, <2>2
<1>5. /\ SoundStream(StopStream(write)) /\ ~IsOpen(StopStream(write))
      /\ "idle" \notin StopStream(write).timers
  BY StoppingIsSound DEF WriteInv
<1>6. /\ FillWritePipeline(StopStream(write), 0, stored') /\ handshake' = FALSE
      /\ stored' \in Nat
  BY RemoteStoreAssumption DEF HandleCredentialChange
<1>7. WriteInv'
  BY <1>5, <1>6, FillInv
<1> QED
  BY <1>4, <1>7

LEMMA BoundsStep ==
  ASSUME RemoteInv, RemoteNext
  PROVE  Bounds'
<1>1. stored \in Nat /\ MaxStored \in Nat /\ MaxSignIns \in Nat
  BY RemoteStoreAssumption DEF RemoteInv, WriteInv
<1>2. listens' \subseteq Targets
  BY DEF RemoteInv, Bounds, RemoteNext, WatchNext, WriteNext, writeVars, watchVars, Listen,
     StopListening, WatchTokenArrives, WatchTokenFails, WatchFails, WatchChange,
     WatchBackoffElapses, WatchIdles, OnlineTimeout, AddMutation, WriteTokenArrives,
     WriteTokenFails, HandshakeCompletes, MutationResult, WriteFails, WriteBackoffElapses,
     WriteIdles, StaleTokenArrives, HandleCredentialChange
<1>3. asked' \in BOOLEAN
  BY DEF RemoteInv, Bounds, RemoteNext, WatchNext, WriteNext, writeVars, watchVars, Listen,
     StopListening, WatchTokenArrives, WatchTokenFails, WatchFails, WatchChange,
     WatchBackoffElapses, WatchIdles, OnlineTimeout, AddMutation, WriteTokenArrives,
     WriteTokenFails, HandshakeCompletes, MutationResult, WriteFails, WriteBackoffElapses,
     WriteIdles, StaleTokenArrives, HandleCredentialChange
<1>4. stored' <= MaxStored
  <2>1. \/ stored' \in {stored, stored - 1}
        \/ stored < MaxStored /\ stored' = stored + 1
        \/ stored' \in 0 .. MaxStored
    BY DEF RemoteNext, WatchNext, WriteNext, writeVars, watchVars, Listen,
       StopListening, WatchTokenArrives, WatchTokenFails, WatchFails, WatchChange,
       WatchBackoffElapses, WatchIdles, OnlineTimeout, AddMutation, WriteTokenArrives,
       WriteTokenFails, HandshakeCompletes, MutationResult, WriteFails, WriteBackoffElapses,
       WriteIdles, StaleTokenArrives, HandleCredentialChange, WriteCloses
  <2> QED
    BY <1>1, <2>1 DEF RemoteInv, Bounds
<1>5. signIns' \in 0 .. MaxSignIns
  <2>1. CASE HandleCredentialChange
    BY <1>1, <2>1 DEF RemoteInv, Bounds, HandleCredentialChange
  <2>2. CASE WatchNext \/ WriteNext \/ StaleTokenArrives
    <3>1. signIns' = signIns
      BY <2>2 DEF WatchNext, WriteNext, Listen, StopListening, WatchTokenArrives, WatchTokenFails,
         WatchFails, WatchChange, WatchBackoffElapses, WatchIdles, OnlineTimeout, AddMutation,
         WriteTokenArrives, WriteTokenFails, HandshakeCompletes, MutationResult, WriteFails,
         WriteBackoffElapses, WriteIdles, StaleTokenArrives
    <3> QED
      BY <3>1 DEF RemoteInv, Bounds
  <2> QED
    BY <2>1, <2>2 DEF RemoteNext
<1> QED
  BY <1>2, <1>3, <1>4, <1>5 DEF Bounds

-----------------------------------------------------------------------------
(* RemoteInv holds at the start ...                                        *)
LEMMA RemoteInitInv == RemoteInit => RemoteInv
<1> SUFFICES ASSUME RemoteInit PROVE RemoteInv
  OBVIOUS
<1>1. /\ NewStream \in Streams /\ NewStream.ok = TRUE /\ NewStream.state = "Initial"
      /\ NewStream.requests = {} /\ NewStream.timers = {}
  BY DelayAssumption DEF NewStream, Streams, States
<1>2. SoundStream(NewStream) /\ ~IsStarted(NewStream)
  BY <1>1 DEF SoundStream, IsStarted
<1>3. /\ NewTracker \in Trackers /\ NewTracker.ok = TRUE /\ NewTracker.timer = FALSE
      /\ NewTracker.state = "Unknown"
  BY DEF NewTracker, Trackers, OnlineStates, MaxWatchStreamFailures
<1>4. SoundTracker(NewTracker)
  BY <1>3 DEF SoundTracker
<1>5. WatchInv
  BY <1>1, <1>2, <1>3, <1>4 DEF RemoteInit, WatchInv
<1>6. Filled(0) = 0
  BY RemoteStoreAssumption DEF Filled
<1>7. WriteInv
  <2>1. /\ write = NewStream /\ handshake = FALSE /\ stored = 0 /\ pipeline = 0 /\ sent = 0
        /\ ~(pipeline > 0)
    BY DEF RemoteInit
  <2>2. SoundStream(write) /\ "idle" \notin write.timers
    BY <1>1, <1>2, <2>1
  <2> QED
    BY <1>6, <2>1, <2>2 DEF WriteInv
<1>8. Bounds
  <2>1. 0 <= MaxStored /\ 0 \in 0 .. MaxSignIns
    BY RemoteStoreAssumption
  <2> QED
    BY <2>1 DEF RemoteInit, Bounds
<1> QED
  BY <1>5, <1>7, <1>8 DEF RemoteInv

(* ... and every step keeps it.                                            *)
LEMMA WatchNextInv ==
  ASSUME WatchInv, WriteInv, WatchNext
  PROVE  WatchInv' /\ WriteInv'
<1>1. UNCHANGED <<writeVars, signIns>>
  BY DEF WatchNext, Listen, StopListening, WatchTokenArrives, WatchTokenFails, WatchFails,
     WatchChange, WatchBackoffElapses, WatchIdles, OnlineTimeout
<1>2. WriteInv'
  BY <1>1 DEF writeVars, WriteInv
<1>3. WatchInv'
  BY ListenInv, StopListeningInv, WatchTokenArrivesInv, WatchTokenFailsInv, WatchFailsInv,
     WatchProceedsInv, WatchIdlesInv DEF WatchNext
<1> QED
  BY <1>2, <1>3

LEMMA WriteNextInv ==
  ASSUME WatchInv, WriteInv, WriteNext
  PROVE  WatchInv' /\ WriteInv'
<1>1. UNCHANGED <<watchVars, signIns>>
  BY DEF WriteNext, AddMutation, WriteTokenArrives, WriteTokenFails, HandshakeCompletes,
     MutationResult, WriteFails, WriteBackoffElapses, WriteIdles
<1>2. WatchInv'
  BY <1>1 DEF watchVars, WatchInv
<1>3. WriteInv'
  BY AddMutationInv, WriteTokenArrivesInv, HandshakeCompletesInv, MutationResultInv, WriteEndsInv,
     WriteBackoffElapsesInv, WriteIdlesInv DEF WriteNext
<1> QED
  BY <1>2, <1>3

LEMMA RemoteStepInv == RemoteInv /\ [RemoteNext]_remoteVars => RemoteInv'
<1> SUFFICES ASSUME RemoteInv, [RemoteNext]_remoteVars PROVE RemoteInv'
  OBVIOUS
<1>1. CASE RemoteNext
  <2>1. WatchInv /\ WriteInv
    BY DEF RemoteInv
  <2>2. WatchInv' /\ WriteInv'
    BY <1>1, <2>1, WatchNextInv, WriteNextInv, StaleTokenArrivesInv, CredentialChangeInv
    DEF RemoteNext
  <2> QED
    BY <1>1, <2>2, BoundsStep DEF RemoteInv
<1>2. CASE UNCHANGED remoteVars
  BY <1>2 DEF remoteVars, watchVars, writeVars, RemoteInv, WatchInv, WriteInv, Bounds
<1> QED
  BY <1>1, <1>2

(***************************************************************************)
(* What a stream waits for fits its state, and what it is needed for fits  *)
(* its being started: the inductive invariant of the two streams, the      *)
(* online state and the write pipeline.                                    *)
(***************************************************************************)
THEOREM RemoteInvariant == RemoteSpec => []RemoteInv
<1> QED
  BY RemoteInitInv, RemoteStepInv, PTL DEF RemoteSpec

(***************************************************************************)
(* The connection keeps its types and bounds.                              *)
(***************************************************************************)
THEOREM RemoteTypeCorrect == RemoteSpec => []RemoteTypeOK
<1>1. RemoteInv => RemoteTypeOK
  <2> SUFFICES ASSUME RemoteInv PROVE RemoteTypeOK
    OBVIOUS
  <2>1. pipeline \in 0 .. MaxPendingWrites /\ stored \in Nat
    BY FilledPipeline DEF RemoteInv, WriteInv
  <2>2. sent \in 0 .. pipeline
    BY <2>1 DEF RemoteInv, WriteInv
  <2>3. stored \in 0 .. MaxStored
    BY <2>1, RemoteStoreAssumption DEF RemoteInv, Bounds
  <2> QED
    BY <2>1, <2>2, <2>3
    DEF RemoteInv, WatchInv, WriteInv, Bounds, SoundStream, SoundTracker, RemoteTypeOK
<1> QED
  BY <1>1, RemoteInvariant, PTL

(***************************************************************************)
(* No HARD_ASSERT of the streams, the tracker or RemoteStore ever fails,   *)
(* whatever the order of tokens, timers, failures, listens, writes and     *)
(* changes of the user, for any number of them.                            *)
(***************************************************************************)
THEOREM NoAssertFails == RemoteSpec => []AssertsHold
<1>1. RemoteInv => AssertsHold
  BY DEF RemoteInv, WatchInv, WriteInv, SoundStream, SoundTracker, AssertsHold
<1> QED
  BY <1>1, RemoteInvariant, PTL

(***************************************************************************)
(* A stream that is needed is open, waits for a token, or for the end of   *)
(* its backoff; nothing leaves a listen or a batch behind.                 *)
(***************************************************************************)
THEOREM NeededStreamsRun == RemoteSpec => []NeededStreamsAreStarted
<1>1. RemoteInv => NeededStreamsAreStarted
  BY DEF RemoteInv, WatchInv, WriteInv, SoundStream, NeededStreamsAreStarted
<1> QED
  BY <1>1, RemoteInvariant, PTL

(***************************************************************************)
(* Every batch of the pipeline is written to the stream once the handshake *)
(* is done, and the pipeline is as full as it may be.                      *)
(***************************************************************************)
THEOREM EveryBatchIsSent == RemoteSpec => []NothingIsLeftUnsent
<1>1. RemoteInv => NothingIsLeftUnsent
  BY DEF RemoteInv, WriteInv, NothingIsLeftUnsent
<1> QED
  BY <1>1, RemoteInvariant, PTL

-----------------------------------------------------------------------------
(* What one step does to the online state.                                 *)
StateStep ==
  /\ tracker.state = "Offline" /\ tracker'.state = "Unknown" => listens' = {} \/ signIns' # signIns
  /\ tracker.state = "Online" => tracker'.state # "Offline"

LEMMA WatchClosesStateStep ==
  ASSUME WatchInv, NEW w, WatchCloses(w, tracker), UNCHANGED listens
  PROVE  StateStep
<1>1. SoundTracker(tracker) /\ tracker.state \in OnlineStates
  BY DEF WatchInv, SoundTracker, Trackers
<1>2. CASE listens = {}
  <2>1. tracker' = UpdateState(tracker, "Unknown") /\ listens' = {}
    BY <1>2 DEF WatchCloses, WatchBecomes
  <2>2. tracker'.state = "Unknown"
    BY <1>1, <2>1, UpdatedTrackerIsSound DEF OnlineStates
  <2> QED
    BY <2>1, <2>2 DEF StateStep
<1>3. CASE listens # {}
  <2> DEFINE failed == HandleWatchStreamFailure(tracker)
  <2>1. tracker' = HandleWatchStreamStart(failed)
    BY <1>3 DEF WatchCloses, StartWatchStream, WatchBecomes
  <2>2. /\ SoundTracker(failed) /\ failed.timer = FALSE
        /\ IF tracker.state = "Online" THEN failed.state = "Unknown" /\ failed.failures = 0
                                       ELSE failed.state = "Offline" /\ failed.failures = 1
    BY <1>1, FailedTrackerIsSound
  <2> HIDE DEF failed
  <2>3. tracker'.state = IF failed.failures = 0 THEN "Unknown" ELSE failed.state
    BY <2>1, <2>2, StartedTrackerIsSound
  <2>4. tracker'.state = IF tracker.state = "Online" THEN "Unknown" ELSE "Offline"
    BY <2>2, <2>3
  <2> QED
    BY <2>4 DEF StateStep
<1> QED
  BY <1>2, <1>3

LEMMA TheStateStep ==
  ASSUME RemoteInv, RemoteNext
  PROVE  StateStep
<1>1. WatchInv /\ SoundTracker(tracker) /\ tracker.state \in OnlineStates
  BY DEF RemoteInv, WatchInv, SoundTracker, Trackers
<1>2. ASSUME NEW t \in Targets, Listen(t) PROVE StateStep
  <2>1. CASE ~IsStarted(watch) /\ StartWatchStream(watch, tracker)
    <3>1. tracker.state = "Unknown" /\ tracker.timer = FALSE
      BY <1>1, <2>1 DEF WatchInv, SoundTracker, Trackers
    <3>2. tracker'.state = "Unknown"
      BY <1>1, <2>1, <3>1, StartedTrackerIsSound DEF StartWatchStream, WatchBecomes
    <3> QED
      BY <3>1, <3>2 DEF StateStep
  <2>2. CASE tracker' = tracker
    BY <2>2 DEF StateStep
  <2> QED
    BY <1>2, <2>1, <2>2 DEF Listen, WatchBecomes
<1>3. ASSUME NEW t \in Targets, StopListening(t) PROVE StateStep
  <2>1. CASE tracker' = tracker
    BY <2>1 DEF StateStep
  <2>2. CASE listens = {t} /\ tracker' = UpdateState(tracker, "Unknown")
    <3>1. tracker'.state = "Unknown" /\ listens' = {}
      BY <1>1, <1>3, <2>2, UpdatedTrackerIsSound DEF OnlineStates, StopListening
    <3> QED
      BY <3>1 DEF StateStep
  <2> QED
    BY <1>3, <2>1, <2>2 DEF StopListening, WatchBecomes
<1>4. ASSUME WatchTokenFails \/ WatchFails PROVE StateStep
  BY <1>1, <1>4, WatchClosesStateStep DEF WatchTokenFails, WatchFails
<1>5. ASSUME WatchChange PROVE StateStep
  <2>1. tracker'.state = "Online"
    BY <1>1, <1>5, UpdatedTrackerIsSound DEF WatchChange, WatchBecomes, OnlineStates
  <2> QED
    BY <2>1 DEF StateStep
<1>6. ASSUME WatchIdles PROVE StateStep
  <2>1. tracker'.state = "Unknown" /\ listens' = {}
    BY <1>1, <1>6, UpdatedTrackerIsSound DEF WatchIdles, WatchBecomes, OnlineStates, WatchInv
  <2> QED
    BY <2>1 DEF StateStep
<1>7. ASSUME OnlineTimeout PROVE StateStep
  <2>1. tracker.state = "Unknown"
    BY <1>1, <1>7 DEF OnlineTimeout, SoundTracker
  <2>2. tracker'.state = "Offline"
    BY <1>1, <1>7, TimedOutTrackerIsSound DEF OnlineTimeout, WatchBecomes
  <2> QED
    BY <2>1, <2>2 DEF StateStep
<1>8. ASSUME WatchTokenArrives \/ WatchBackoffElapses \/ WriteNext \/ StaleTokenArrives
      PROVE  StateStep
  <2>1. tracker' = tracker
    BY <1>8 DEF WatchTokenArrives, WatchBackoffElapses, StaleTokenArrives, WriteNext, AddMutation,
       WriteTokenArrives, WriteTokenFails, HandshakeCompletes, MutationResult, WriteFails,
       WriteBackoffElapses, WriteIdles, watchVars, WatchBecomes
  <2> QED
    BY <2>1 DEF StateStep
<1>9. ASSUME HandleCredentialChange PROVE StateStep
  <2> DEFINE unknown == UpdateState(tracker, "Unknown")
  <2>1. /\ SoundTracker(unknown) /\ unknown.state = "Unknown" /\ unknown.timer = FALSE
        /\ unknown.failures = 0
    BY <1>1, UpdatedTrackerIsSound DEF OnlineStates
  <2>2. tracker' = unknown \/ tracker' = HandleWatchStreamStart(unknown)
    BY <1>9 DEF HandleCredentialChange, StartWatchStream, WatchBecomes
  <2> HIDE DEF unknown
  <2>3. tracker'.state = "Unknown"
    BY <2>1, <2>2, StartedTrackerIsSound
  <2>4. signIns' # signIns
    BY <1>9 DEF HandleCredentialChange, RemoteInv, Bounds
  <2> QED
    BY <2>3, <2>4 DEF StateStep
<1> QED
  BY <1>2, <1>3, <1>4, <1>5, <1>6, <1>7, <1>8, <1>9 DEF RemoteNext, WatchNext

(***************************************************************************)
(* An offline client stays offline until it hears from the server, stops   *)
(* listening or changes its user, and is never declared offline straight   *)
(* from being online.                                                      *)
(***************************************************************************)
THEOREM OfflineIsStable == RemoteSpec => OfflineUntilHeard
<1>1. RemoteInv /\ [RemoteNext]_remoteVars => [StateStep]_remoteVars
  BY TheStateStep
<1>2. RemoteSpec => [][StateStep]_remoteVars
  BY <1>1, RemoteInvariant, PTL DEF RemoteSpec
<1> QED
  BY <1>2 DEF OfflineUntilHeard, StateStep

=============================================================================
