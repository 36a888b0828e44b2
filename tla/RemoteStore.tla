------------------------------ MODULE RemoteStore ------------------------------
(***************************************************************************)
(* The connection of the document store to its server: RemoteStore with    *)
(* its watch stream, its write stream and its online state.  Every action  *)
(* is one operation of the worker queue - a call of the sync engine, a     *)
(* timer, a token, a message or an end of a stream - with all the calls    *)
(* that nest in it.                                                        *)
(*                                                                         *)
(* The network is always enabled: the app never disables it.  The server   *)
(* ends a stream with an error only.  What the messages carry is module    *)
(* Firestore's subject, how they travel module GrpcStream's.               *)
(***************************************************************************)
EXTENDS Stream, OnlineStateTracker

CONSTANTS
  Targets,           \* the queries that may be listened to
  MaxPendingWrites,  \* kMaxPendingWrites
  MaxStored,         \* bound: batches of one user in the local store
  MaxSignIns         \* bound: credential changes in a behaviour

ASSUME RemoteStoreAssumption ==
  /\ MaxPendingWrites \in Nat \ {0}
  /\ MaxStored \in Nat /\ MaxSignIns \in Nat

VARIABLES
  watch,      \* watch_stream_
  tracker,    \* online_state_tracker_
  listens,    \* listen_targets_
  asked,      \* a request has been written to the open watch stream
  write,      \* write_stream_
  handshake,  \* handshake_complete_
  pipeline,   \* how many batches write_pipeline_ holds: the first ones of the local store
  sent,       \* how many of them have been written to the open write stream
  stored,     \* how many batches the local store holds for the signed-in user
  signIns     \* how many credential changes there have been

watchVars == <<watch, tracker, listens, asked>>
writeVars == <<write, handshake, pipeline, sent, stored>>
remoteVars == <<watchVars, writeVars, signIns>>

RemoteInit ==
  /\ watch = NewStream
  /\ tracker = NewTracker
  /\ listens = {}
  /\ asked = FALSE
  /\ write = NewStream
  /\ handshake = FALSE
  /\ pipeline = 0 /\ sent = 0 /\ stored = 0
  /\ signIns = 0

-----------------------------------------------------------------------------
(* The watch stream and the online state.                                  *)

WatchBecomes(w, o) == watch' = w /\ tracker' = o

StartWatchStream(w, o) == WatchBecomes(Start(w), HandleWatchStreamStart(o))

Listen(t) ==
  /\ t \notin listens
  /\ listens' = listens \cup {t}
  /\ \/ ~IsStarted(watch) /\ StartWatchStream(watch, tracker) /\ UNCHANGED asked
     \/ IsOpen(watch) /\ WatchBecomes(WriteTo(watch), tracker) /\ asked' = TRUE
     \/ IsStarted(watch) /\ ~IsOpen(watch) /\ UNCHANGED <<watch, tracker, asked>>
  /\ UNCHANGED <<writeVars, signIns>>

(* Without a listen a stream that is not open tells nothing of the         *)
(* connection any more.                                                    *)
StopListening(t) ==
  /\ t \in listens
  /\ listens' = listens \ {t}
  /\ LET quiet == listens = {t} IN
       \/ /\ IsOpen(watch)
          /\ WatchBecomes(IF quiet THEN MarkIdle(WriteTo(watch)) ELSE WriteTo(watch), tracker)
          /\ asked' = TRUE
       \/ /\ ~IsOpen(watch)
          /\ WatchBecomes(watch, IF quiet THEN UpdateState(tracker, "Unknown") ELSE tracker)
          /\ UNCHANGED asked
  /\ UNCHANGED <<writeVars, signIns>>

(* OnWatchStreamOpen asks for every target again.                          *)
WatchTokenArrives ==
  /\ "current" \in watch.requests
  /\ LET open == ResumeStartWithCredentials(watch) IN
       WatchBecomes(IF listens = {} THEN open ELSE WriteTo(open), tracker)
  /\ asked' = (listens # {})
  /\ UNCHANGED <<listens, writeVars, signIns>>

(* Faulty variant: the watch stream is not started again after a failure.  *)
WatchClosesForGood(w, o) ==
  WatchBecomes(w, IF listens = {} THEN UpdateState(o, "Unknown") ELSE HandleWatchStreamFailure(o))

(* OnWatchStreamClose after an error.                                      *)
WatchCloses(w, o) ==
  IF listens = {} THEN WatchBecomes(w, UpdateState(o, "Unknown"))
  ELSE StartWatchStream(w, HandleWatchStreamFailure(o))

(* The token request fails, or was for a user who is no longer there.      *)
WatchTokenFails ==
  /\ "current" \in watch.requests
  /\ WatchCloses(CloseWithError([watch EXCEPT !.requests = @ \ {"current"}], "transient"), tracker)
  /\ asked' = FALSE
  /\ UNCHANGED <<listens, writeVars, signIns>>

WatchFails ==
  /\ IsOpen(watch)
  /\ \E status \in {"transient", "exhausted"} : WatchCloses(CloseWithError(watch, status), tracker)
  /\ asked' = FALSE
  /\ UNCHANGED <<listens, writeVars, signIns>>

WatchBackoffElapses ==
  /\ "backoff" \in watch.timers
  /\ WatchBecomes(BackoffElapsed(watch), tracker)
  /\ UNCHANGED <<listens, asked, writeVars, signIns>>

(* Stop: nothing may be listened to any more (the assertion of             *)
(* OnWatchStreamClose).                                                    *)
WatchIdles ==
  /\ "idle" \in watch.timers
  /\ WatchBecomes(HardAssert(CloseGracefully(watch), listens = {}),
                  UpdateState(tracker, "Unknown"))
  /\ asked' = FALSE
  /\ UNCHANGED <<listens, writeVars, signIns>>

OnlineTimeout ==
  /\ tracker.timer
  /\ WatchBecomes(watch, TimeoutElapsed(tracker))
  /\ UNCHANGED <<listens, asked, writeVars, signIns>>

(* A message of the server; it may be the refusal of one target.           *)
WatchChange ==
  /\ IsOpen(watch) /\ asked
  /\ WatchBecomes(Reset(watch), UpdateState(tracker, "Online"))
  /\ \/ UNCHANGED listens
     \/ \E t \in listens : listens' = listens \ {t}
  /\ UNCHANGED <<asked, writeVars, signIns>>

-----------------------------------------------------------------------------
(* The write stream.                                                       *)

WriteBecomes(s, inPipeline, onStream) ==
  /\ write' = s
  /\ pipeline' = inPipeline
  /\ sent' = onStream

Filled(batches) == IF batches < MaxPendingWrites THEN batches ELSE MaxPendingWrites

(* Faulty variant: the pipeline is filled, but a batch is not written to   *)
(* the stream that is open already.                                        *)
FillWithoutSending(s, onStream, batches) ==
  WriteBecomes(IF Filled(batches) = 0 THEN MarkIdle(s) ELSE IF IsStarted(s) THEN s ELSE Start(s),
               Filled(batches), onStream)

(* FillWritePipeline: take batches as long as there are any and there is   *)
(* room, write them to a stream that is ready for them, and start the      *)
(* stream if there is something to write.  A stream that has nothing to    *)
(* write is idle.                                                          *)
FillWritePipeline(s, onStream, batches) ==
  LET full == Filled(batches)
      ready == IsOpen(s) /\ handshake
      written == IF ready /\ onStream < full THEN WriteTo(s) ELSE s
  IN  WriteBecomes(IF full = 0 THEN MarkIdle(s)
                   ELSE IF IsStarted(s) THEN written ELSE Start(s),
                   full, IF ready THEN full ELSE onStream)

(* The sync engine has stored a mutation of the user.                      *)
AddMutation ==
  /\ stored < MaxStored
  /\ stored' = stored + 1
  /\ FillWritePipeline(write, sent, stored + 1)
  /\ UNCHANGED <<watchVars, handshake, signIns>>

(* OnWriteStreamOpen writes the handshake.                                 *)
WriteTokenArrives ==
  /\ "current" \in write.requests
  /\ WriteBecomes(WriteTo(HardAssert(ResumeStartWithCredentials(write), ~handshake)),
                  pipeline, 0)
  /\ UNCHANGED <<watchVars, handshake, stored, signIns>>

HandshakeCompletes ==
  /\ IsOpen(write) /\ ~handshake
  /\ handshake' = TRUE
  /\ WriteBecomes(IF pipeline = 0 THEN write ELSE WriteTo(write), pipeline, pipeline)
  /\ UNCHANGED <<watchVars, stored, signIns>>

(* The result of the first batch of the pipeline.                          *)
MutationResult ==
  /\ IsOpen(write) /\ handshake /\ sent > 0
  /\ stored' = stored - 1
  /\ FillWritePipeline(HardAssert(Reset(write), pipeline > 0), sent - 1, stored - 1)
  /\ UNCHANGED <<watchVars, handshake, signIns>>

(* OnWriteStreamClose after an error.  A permanent error after the         *)
(* handshake is the fault of the first batch, which is given up; any other *)
(* error has the pipeline written again.                                   *)
WriteCloses(s, status) ==
  /\ \/ /\ status = "permanent" /\ handshake /\ pipeline > 0
        /\ stored' = stored - 1
        /\ FillWritePipeline(InhibitBackoff(s), 0, stored - 1)
     \/ /\ ~(status = "permanent" /\ handshake /\ pipeline > 0)
        /\ WriteBecomes(IF pipeline > 0 THEN Start(s) ELSE s, pipeline, 0)
        /\ UNCHANGED stored
  /\ handshake' = FALSE

WriteTokenFails ==
  /\ "current" \in write.requests
  /\ WriteCloses(CloseWithError([write EXCEPT !.requests = @ \ {"current"}], "transient"),
                 "transient")
  /\ UNCHANGED <<watchVars, signIns>>

WriteFails ==
  /\ IsOpen(write)
  /\ \E status \in {"transient", "exhausted", "permanent"} :
       WriteCloses(CloseWithError(write, status), status)
  /\ UNCHANGED <<watchVars, signIns>>

WriteBackoffElapses ==
  /\ "backoff" \in write.timers
  /\ WriteBecomes(BackoffElapsed(write), pipeline, sent)
  /\ UNCHANGED <<watchVars, handshake, stored, signIns>>

(* Stop: nothing may be waiting to be written (the assertion of            *)
(* OnWriteStreamClose).                                                    *)
WriteIdles ==
  /\ "idle" \in write.timers
  /\ WriteBecomes(HardAssert(CloseGracefully(write), pipeline = 0), pipeline, 0)
  /\ handshake' = FALSE
  /\ UNCHANGED <<watchVars, stored, signIns>>

-----------------------------------------------------------------------------
StaleTokenArrives ==
  /\ "stale" \in watch.requests \cup write.requests
  /\ watch' = DropStaleToken(watch) /\ write' = DropStaleToken(write)
  /\ UNCHANGED <<tracker, listens, asked, handshake, pipeline, sent, stored, signIns>>

StopStream(s) == IF IsStarted(s) THEN CloseGracefully(s) ELSE s

(* Another user: both streams are stopped with the network disabled, the   *)
(* pipeline is emptied, and what is needed is started again, with the      *)
(* batches of the new user.                                                *)
HandleCredentialChange ==
  /\ signIns < MaxSignIns
  /\ signIns' = signIns + 1
  /\ LET unknown == UpdateState(tracker, "Unknown") IN
       IF listens = {} THEN WatchBecomes(StopStream(watch), unknown)
       ELSE StartWatchStream(StopStream(watch), unknown)
  /\ stored' \in 0 .. MaxStored
  /\ FillWritePipeline(StopStream(write), 0, stored')
  /\ handshake' = FALSE
  /\ asked' = FALSE
  /\ UNCHANGED listens

-----------------------------------------------------------------------------
WatchNext ==
  \/ \E t \in Targets : Listen(t)
  \/ \E t \in Targets : StopListening(t)
  \/ WatchTokenArrives \/ WatchTokenFails
  \/ WatchFails \/ WatchChange
  \/ WatchBackoffElapses \/ WatchIdles \/ OnlineTimeout

WriteNext ==
  \/ AddMutation
  \/ WriteTokenArrives \/ WriteTokenFails
  \/ HandshakeCompletes \/ MutationResult \/ WriteFails
  \/ WriteBackoffElapses \/ WriteIdles

RemoteNext == WatchNext \/ WriteNext \/ StaleTokenArrives \/ HandleCredentialChange

RemoteSpec == RemoteInit /\ [][RemoteNext]_remoteVars

(* Timers elapse and requests for a token end: the client's own doing.     *)
ClientFairness ==
  /\ WF_remoteVars(WatchTokenArrives \/ WatchTokenFails)
  /\ WF_remoteVars(WatchBackoffElapses)
  /\ WF_remoteVars(OnlineTimeout)

(* A condition on the network: what is tried is answered, or ends, at last.*)
(* gRPC gives up an attempt to connect after a while, but a connection that*)
(* is open may stay silent: no keepalive is configured.                    *)
NetworkFairness == WF_remoteVars(WatchChange \/ WatchFails)

TimedRemoteSpec == RemoteSpec /\ ClientFairness
FairRemoteSpec == RemoteSpec /\ ClientFairness /\ NetworkFairness

-----------------------------------------------------------------------------
RemoteTypeOK ==
  /\ watch \in Streams /\ write \in Streams
  /\ tracker \in Trackers
  /\ listens \subseteq Targets
  /\ asked \in BOOLEAN /\ handshake \in BOOLEAN
  /\ stored \in 0 .. MaxStored
  /\ pipeline \in 0 .. MaxPendingWrites
  /\ sent \in 0 .. pipeline
  /\ signIns \in 0 .. MaxSignIns

(***************************************************************************)
(* No HARD_ASSERT of the streams, the tracker or RemoteStore fails (each   *)
(* would end the process): whatever the order of tokens, timers, failures, *)
(* listens, writes and sign-ins, no callback of a closed stream runs       *)
(* against its successor, no timer is set twice, and no stream is stopped  *)
(* for idleness while it is needed.                                        *)
(***************************************************************************)
AssertsHold == watch.ok /\ write.ok /\ tracker.ok

(***************************************************************************)
(* A stream that is needed is always open or on its way to be: no chain of *)
(* failures, timers and credential changes leaves a listen or a batch of   *)
(* the pipeline behind with a stream that nothing will start again.        *)
(***************************************************************************)
NeededStreamsAreStarted ==
  /\ listens # {} => IsStarted(watch)
  /\ pipeline > 0 => IsStarted(write)
  /\ \A s \in {watch, write} :
       /\ s.state = "Starting" <=> "current" \in s.requests
       /\ s.state = "Backoff" <=> "backoff" \in s.timers

(***************************************************************************)
(* Once the handshake is done, every batch of the pipeline has been        *)
(* written to the stream exactly once, and the pipeline holds as many      *)
(* stored batches as it may.  Batches reach the stream from three places   *)
(* (the handshake, a new mutation, a freed slot).                          *)
(***************************************************************************)
NothingIsLeftUnsent ==
  /\ handshake => IsOpen(write) /\ sent = pipeline
  /\ pipeline = Filled(stored)

(***************************************************************************)
(* A client that is offline stays so until it hears from the server, stops *)
(* listening, or changes its user; and it is never declared offline        *)
(* straight from being online.  The gets that come meanwhile are answered  *)
(* from the cache at once: a state that flapped between Offline and        *)
(* Unknown would let them wait again at every attempt to reconnect.        *)
(***************************************************************************)
OfflineUntilHeard ==
  [][ /\ tracker.state = "Offline" /\ tracker'.state = "Unknown"
           => listens' = {} \/ signIns' # signIns
      /\ tracker.state = "Online" => tracker'.state # "Offline" ]_remoteVars

(***************************************************************************)
(* Whoever listens learns at last whether the client is online or offline, *)
(* through failures, backoff and tokens that are refused, if whatever the  *)
(* stream tries is answered or ends (NetworkFairness).  Under the same     *)
(* condition, NetworkFairness of Firestore, every get ends there.          *)
(***************************************************************************)
Undecided == listens # {} /\ tracker.state = "Unknown"

ListenersLearnTheState == Undecided ~> ~Undecided

(***************************************************************************)
(* The comments of the tracker say that it is told of every attempt and    *)
(* that after ten seconds it is Offline "rather than waiting               *)
(* indefinitely".  Here nothing is assumed of the network.  The code       *)
(* breaks it: the last listen goes while the stream is starting or backing *)
(* off, which clears the timer, and the next one finds the stream started. *)
(***************************************************************************)
TimeoutEndsTheWait == Undecided ~> ~Undecided

=============================================================================
