------------------------------ MODULE GrpcStream ------------------------------
(***************************************************************************)
(* One bidirectional gRPC call of the document store, from its start to    *)
(* its destruction, between three parties: the worker queue, on which all  *)
(* of GrpcStream runs; gRPC, which executes the operations it is given;    *)
(* and the thread that polls gRPC's completion queue and hands every       *)
(* completion back to the worker queue.                                    *)
(*                                                                         *)
(* The operations of one call share objects that the stream owns: it must  *)
(* not go before gRPC has returned them all.  So finishing blocks the      *)
(* worker queue until they have come back, and turns the callbacks that    *)
(* are already on their way into no-ops.                                   *)
(***************************************************************************)
EXTENDS Naturals, Sequences, SequencesExt

CONSTANT MaxWrites  \* bound: messages the owner gives to the stream

ASSUME GrpcStreamAssumption == MaxWrites \in Nat

VARIABLES
  alive,     \* the owner holds the stream, and its observer is set
  queue,     \* BufferedWriter: the messages not yet written
  active,    \* BufferedWriter: has_active_write_
  finished,  \* is_grpc_call_finished_
  pending,   \* the operations gRPC has
  polled,    \* the completion the polling thread has marked as off the queue
  tasks,     \* the completions on the worker queue
  pc,        \* what the worker queue is blocked in
  after,     \* what it does when all operations are back
  broken,    \* the call has ended: by the server, the network, or TryCancel
  given,     \* history: how many messages the owner has given
  written,   \* history: the messages given to gRPC
  notified   \* history: how often OnStreamFinish has been called

writerVars == <<queue, active, given, written>>
opVars == <<pending, polled, tasks>>
endVars == <<alive, finished, pc, after, notified>>
streamVars == <<writerVars, opVars, endVars, broken>>

Kinds == {"Read", "Write", "Last", "Finish"}

(* A completion: the kind of its operation, how it went, and whether its   *)
(* callback is still there.                                                *)
Completion(kind) == [kind |-> kind, ok |-> TRUE, live |-> TRUE]

(* GrpcStream::Start leaves a stream that listens for messages.            *)
StreamInit ==
  /\ alive = TRUE
  /\ queue = <<>> /\ active = FALSE
  /\ finished = FALSE
  /\ pending = <<Completion("Read")>> /\ polled = <<>> /\ tasks = <<>>
  /\ pc = "free" /\ after = "none"
  /\ broken = FALSE
  /\ given = 0 /\ written = <<>>
  /\ notified = 0

Free == alive /\ pc = "free"

Live == {c \in ToSet(pending \o polled \o tasks) : c.live}

Cancelled(c) == [c EXCEPT !.live = FALSE]

AllCancelled(completions) == [i \in DOMAIN completions |-> Cancelled(completions[i])]

-----------------------------------------------------------------------------
(* Writing.                                                                *)

Issue(completion) == pending' = Append(pending, completion)

(* Faulty variants: a message is written although another one is; the      *)
(* newest message is taken first.                                          *)
StartNextWhateverIsActive(messages, isActive, kind) ==
  /\ messages # <<>>
  /\ written' = Append(written, Head(messages))
  /\ Issue(Completion(kind))
  /\ queue' = Tail(messages)
  /\ active' = TRUE

StartNewest(messages, isActive, kind) ==
  \/ /\ messages = <<>> \/ isActive
     /\ queue' = messages /\ active' = isActive
     /\ UNCHANGED <<pending, written>>
  \/ /\ messages # <<>> /\ ~isActive
     /\ written' = Append(written, Last(messages))
     /\ Issue(Completion(kind))
     /\ queue' = Front(messages)
     /\ active' = TRUE

(* Write the first of these messages, unless there is an active write.     *)
StartNext(messages, isActive, kind) ==
  \/ /\ messages = <<>> \/ isActive
     /\ queue' = messages /\ active' = isActive
     /\ UNCHANGED <<pending, written>>
  \/ /\ messages # <<>> /\ ~isActive
     /\ written' = Append(written, Head(messages))
     /\ Issue(Completion(kind))
     /\ queue' = Tail(messages)
     /\ active' = TRUE

Write ==
  /\ Free
  /\ given < MaxWrites
  /\ given' = given + 1
  /\ StartNext(Append(queue, given + 1), active, "Write")
  /\ UNCHANGED <<polled, tasks, endVars, broken>>

-----------------------------------------------------------------------------
(* Finishing.                                                              *)

(* Faulty variant: the callbacks that are on their way are kept.           *)
CancelWhatGrpcHas(rest) ==
  /\ pending' = AllCancelled(pending)
  /\ UNCHANGED polled
  /\ tasks' = rest

CancelOthers(rest) ==
  /\ pending' = AllCancelled(pending)
  /\ polled' = AllCancelled(polled)
  /\ tasks' = AllCancelled(rest)

(* FastFinishCompletionsBlocking, up to the wait.                          *)
FastFinish(rest, where, andThen) ==
  /\ CancelOthers(rest)
  /\ pc' = where
  /\ after' = andThen

(* Faulty variant: the call is not cancelled before its operations are     *)
(* waited for.                                                             *)
ShutdownWithoutCancel(rest, andThen) ==
  /\ finished' = TRUE
  /\ FastFinish(rest, IF finished THEN "draining" ELSE "finishing", andThen)
  /\ UNCHANGED <<alive, notified, broken>>

(* Shutdown: a call that has not been finished is cancelled and finished   *)
(* first, which waits for its operations.                                  *)
Shutdown(rest, andThen) ==
  /\ \/ /\ ~finished /\ Live # {}
        /\ broken' = TRUE
        /\ finished' = TRUE
        /\ FastFinish(rest, "finishing", andThen)
     \/ /\ finished \/ Live = {}
        /\ UNCHANGED <<broken, finished>>
        /\ FastFinish(rest, "draining", andThen)
  /\ UNCHANGED <<alive, notified>>

FinishImmediately ==
  /\ Free
  /\ Shutdown(tasks, "quiet")
  /\ UNCHANGED writerVars

(* The connectivity monitor ends every call.                               *)
ConnectivityChanges ==
  /\ Free
  /\ Shutdown(tasks, "notify")
  /\ UNCHANGED writerVars

(* WriteAndFinish: a last message is written when no write is active and   *)
(* waited for, but not for long.                                           *)
WriteAndFinish ==
  /\ Free
  /\ given < MaxWrites
  /\ \/ /\ finished
        /\ Shutdown(tasks, "quiet")
        /\ UNCHANGED writerVars
     \/ /\ ~finished
        /\ given' = given + 1
        /\ StartNext(Append(queue, given + 1), active, "Last")
        /\ pc' = "lastWrite"
        /\ UNCHANGED <<polled, tasks, alive, finished, after, notified, broken>>

LastWriteEnds ==
  /\ pc = "lastWrite"
  /\ Shutdown(tasks, "quiet")
  /\ UNCHANGED writerVars

(* The operations are back: Finish is given to gRPC.  After a failure its  *)
(* callback will report the end; a shutdown waits for it without one.      *)
FinishGrpcCall ==
  /\ pc = "finishing" /\ pending = <<>>
  /\ \/ /\ after = "failed"
        /\ Issue(Completion("Finish"))
        /\ pc' = "free" /\ after' = "none"
     \/ /\ after # "failed"
        /\ Issue(Cancelled(Completion("Finish")))
        /\ pc' = "draining" /\ UNCHANGED after
  /\ UNCHANGED <<writerVars, polled, tasks, alive, finished, broken, notified>>

(* Nothing is left with gRPC: the observer is unset, notified or not, and  *)
(* the owner destroys the stream.                                          *)
Destroyed ==
  /\ pc = "draining" /\ pending = <<>>
  /\ alive' = FALSE
  /\ pc' = "free" /\ after' = "none"
  /\ notified' = IF after = "notify" THEN notified + 1 ELSE notified
  /\ UNCHANGED <<writerVars, opVars, finished, broken>>

-----------------------------------------------------------------------------
(* The completions that come back on the worker queue.                     *)

NextTask == pc = "free" /\ tasks # <<>>

CancelledTask ==
  /\ NextTask /\ ~Head(tasks).live
  /\ tasks' = Tail(tasks)
  /\ UNCHANGED <<writerVars, pending, polled, endVars, broken>>

Succeeded(kind) == NextTask /\ Head(tasks).live /\ Head(tasks).ok /\ Head(tasks).kind = kind

(* Faulty variant: the next read is left to the observer.                  *)
OnReadOnce ==
  /\ Succeeded("Read")
  /\ tasks' = Tail(tasks)
  /\ UNCHANGED <<writerVars, pending, polled, endVars, broken>>

(* The next read is issued before the observer has the message.            *)
OnRead ==
  /\ Succeeded("Read")
  /\ tasks' = Tail(tasks)
  /\ Issue(Completion("Read"))
  /\ UNCHANGED <<writerVars, polled, endVars, broken>>

OnWrite ==
  /\ Succeeded("Write")
  /\ tasks' = Tail(tasks)
  /\ StartNext(queue, FALSE, "Write")
  /\ UNCHANGED <<given, polled, endVars, broken>>

(* The status of a failed call: FinishAndNotify.                           *)
OnFinish ==
  /\ Succeeded("Finish")
  /\ Shutdown(Tail(tasks), "notify")
  /\ UNCHANGED writerVars

(* The first operation that fails finishes the call and asks for its       *)
(* status.                                                                 *)
OnOperationFailed ==
  /\ NextTask /\ Head(tasks).live /\ ~Head(tasks).ok
  /\ \/ /\ finished
        /\ tasks' = Tail(tasks)
        /\ UNCHANGED <<pending, polled, finished, pc, after>>
     \/ /\ ~finished
        /\ finished' = TRUE
        /\ FastFinish(Tail(tasks), "finishing", "failed")
  /\ UNCHANGED <<writerVars, alive, broken, notified>>

-----------------------------------------------------------------------------
(* gRPC and the thread that polls its completion queue.                    *)

CallBreaks ==
  /\ alive /\ ~broken
  /\ broken' = TRUE
  /\ UNCHANGED <<writerVars, opVars, endVars>>

(* Complete marks the completion first and enqueues its callback after.    *)
Poll(i, ok) ==
  /\ polled = <<>>
  /\ pending' = RemoveAt(pending, i)
  /\ polled' = <<[pending[i] EXCEPT !.ok = ok]>>
  /\ UNCHANGED <<writerVars, tasks, endVars, broken>>

(* An operation of a sound call succeeds or goes on; a broken call returns *)
(* all its operations, as failed ones unless they were done already.       *)
OperationSucceeds == \E i \in DOMAIN pending : pending[i].kind # "Finish" /\ Poll(i, TRUE)
OperationEnds == broken /\ \E i \in DOMAIN pending : Poll(i, pending[i].kind = "Finish")

HandOver ==
  /\ polled # <<>>
  /\ tasks' = tasks \o polled
  /\ polled' = <<>>
  /\ UNCHANGED <<writerVars, pending, endVars, broken>>

-----------------------------------------------------------------------------
WorkerNext ==
  \/ Write \/ FinishImmediately \/ ConnectivityChanges
  \/ WriteAndFinish \/ LastWriteEnds \/ FinishGrpcCall \/ Destroyed
  \/ CancelledTask \/ OnRead \/ OnWrite \/ OnFinish \/ OnOperationFailed

GrpcNext == CallBreaks \/ OperationSucceeds \/ OperationEnds \/ HandOver

StreamNext == WorkerNext \/ GrpcNext

StreamSpec == StreamInit /\ [][StreamNext]_streamVars

(* A broken call returns its operations, after a last few messages (hence  *)
(* SF); the polling thread polls, the worker queue runs what it holds.  A  *)
(* sound call need not do anything.                                        *)
FairStreamSpec ==
  /\ StreamSpec
  /\ SF_streamVars(OperationEnds)
  /\ WF_streamVars(HandOver)
  /\ WF_streamVars(LastWriteEnds)
  /\ WF_streamVars(FinishGrpcCall)
  /\ WF_streamVars(Destroyed)
  /\ WF_streamVars(CancelledTask \/ OnRead \/ OnWrite \/ OnFinish \/ OnOperationFailed)

-----------------------------------------------------------------------------
Completions == [kind : Kinds, ok : BOOLEAN, live : BOOLEAN]

StreamTypeOK ==
  /\ alive \in BOOLEAN /\ active \in BOOLEAN /\ finished \in BOOLEAN /\ broken \in BOOLEAN
  /\ given \in 0 .. MaxWrites
  /\ queue \in Seq(1 .. MaxWrites) /\ written \in Seq(1 .. MaxWrites)
  /\ pending \in Seq(Completions)
  /\ polled \in Seq(Completions) /\ Len(polled) <= 1
  /\ tasks \in Seq(Completions)
  /\ pc \in {"free", "lastWrite", "finishing", "draining"}
  /\ after \in {"none", "quiet", "notify", "failed"}
  /\ notified \in Nat

(***************************************************************************)
(* A stream that is gone has left nothing behind: gRPC has none of its     *)
(* operations, and no callback that would touch it is on its way - neither *)
(* on the worker queue nor between the two steps of the polling thread.    *)
(* So its owner hears of the end once at most, although a failure, a       *)
(* connectivity change and its own call may cross.                         *)
(***************************************************************************)
NothingOutlivesTheStream ==
  IF alive THEN notified = 0 ELSE pending = <<>> /\ Live = {} /\ notified <= 1

(***************************************************************************)
(* What gRPC asks of its users: one read and one write at a time, and      *)
(* Finish only once and not while another operation runs (at the moment it *)
(* is called).  And as long as the call is not finished the stream         *)
(* listens: otherwise nobody would notice its end.                         *)
(***************************************************************************)
OneAtATime(kinds) ==
  \A i, j \in DOMAIN pending : {pending[i].kind, pending[j].kind} \subseteq kinds => i = j

OneOperationOfAKind ==
  /\ OneAtATime({"Read", "Finish"})
  /\ OneAtATime({"Write", "Last"})
  /\ \A i \in DOMAIN pending : pending[i].kind = "Finish" => finished
  /\ alive /\ ~finished => \E c \in Live : c.kind = "Read"

(***************************************************************************)
(* The messages go to gRPC in the order they were given to the stream, all *)
(* of them as long as the stream lives; the last message of WriteAndFinish *)
(* does not overtake one that is waiting.                                  *)
(***************************************************************************)
WrittenInOrder ==
  /\ written \o queue = [i \in 1 .. given |-> i]
  /\ queue # <<>> => active

(***************************************************************************)
(* The worker queue, blocked while operations are with gRPC, is always     *)
(* freed again: nothing the polling thread does needs the worker queue,    *)
(* and every wait is for operations of a call that has been cancelled, has *)
(* failed already, or is bounded in time.                                  *)
(***************************************************************************)
WorkerIsFreed == pc # "free" ~> pc = "free"

(***************************************************************************)
(* A call that has broken comes to the owner's knowledge: the stream is    *)
(* ended, by a notification unless the owner ends it first.                *)
(***************************************************************************)
BrokenStreamsEnd == broken ~> ~alive

=============================================================================
