------------------------------ MODULE Firestore ------------------------------
(***************************************************************************)
(* Cloud Firestore as the app uses it: DocumentReference.setData without a *)
(* completion block and Query.getDocuments, on devices that share one      *)
(* server.                                                                 *)
(*                                                                         *)
(* A call made on the main thread only enqueues a task; the client runs    *)
(* its tasks in order on one worker queue and hands answers back through   *)
(* the main queue.  A write goes into a persistent mutation queue, one per *)
(* signed-in user, and from there, in order, to the server.  A get is      *)
(* answered from the server, or from the local documents when the client   *)
(* believes to be offline.  A document is written once, under an           *)
(* identifier the client has generated, so sending it twice is harmless.   *)
(***************************************************************************)
EXTENDS Naturals, Sequences, SequencesExt, Selection

CONSTANTS
  Devices,
  Users,      \* the accounts a device can be signed in to, and one for "nobody"
  Docs,       \* every document a device may write
  Queries,
  Matching,   \* the documents a query selects
  Nobody,     \* the user of a device that has never signed in
  MaxGets,    \* bound: getDocuments calls of a device in a behaviour
  MaxTasks    \* bound: tasks waiting in a worker queue when the app makes a call

ASSUME FirestoreAssumption ==
  /\ Nobody \in Users
  /\ Matching \in [Queries -> SUBSET Docs]
  /\ MaxGets \in Nat /\ MaxTasks \in Nat

VARIABLES
  serverLog,   \* the documents the server has committed, in order
  cache,       \* a device's remote document cache, persistent
  queue,       \* a device's mutation queues, one for each user, persistent
  writer,      \* the user whose mutation queue the client of a device works with
  worker,      \* the tasks of a device's worker queue
  listeners,   \* the gets the worker has registered and not yet removed
  synced,      \* the queries whose view is up to date with the server
  offline,     \* the client's OnlineState is Offline
  answer,      \* the watch stream's answer on its way: the documents, the queries it is for
  callbacks,   \* the main queue: gets whose completion block is due
  delivered,   \* history: the documents the last completion block has been run with, and its get
  gets,        \* how many gets a device has issued
  issued,      \* history: the writes given to setData, in order
  rejected,    \* history: the documents the server has refused
  lost         \* history: the documents whose write task died with the process

storageVars == <<serverLog, cache, queue, rejected>>
listenVars == <<listeners, synced, offline, answer>>
mainVars == <<callbacks, delivered, gets>>
firestoreVars == <<serverLog, cache, queue, writer, worker, listeners, synced, offline, answer,
                   mainVars, issued, rejected, lost>>

NoAnswer == [docs |-> {}, queries |-> {}]

FirestoreInit ==
  /\ serverLog = <<>>
  /\ cache = [d \in Devices |-> {}]
  /\ queue = [d \in Devices |-> [u \in Users |-> <<>>]]
  /\ writer = [d \in Devices |-> Nobody]
  /\ worker = [d \in Devices |-> <<>>]
  /\ listeners = [d \in Devices |-> <<>>]
  /\ synced = [d \in Devices |-> {}]
  /\ offline = [d \in Devices |-> FALSE]
  /\ answer = [d \in Devices |-> NoAnswer]
  /\ callbacks = [d \in Devices |-> <<>>]
  /\ delivered = [d \in Devices |-> {}]
  /\ gets = [d \in Devices |-> 0]
  /\ issued = <<>>
  /\ rejected = {}
  /\ lost = {}

Committed == ToSet(serverLog)
Issued == {write.doc : write \in ToSet(issued)}
Pending(d) == ToSet(queue[d][writer[d]])

WriteTask(doc) == [task |-> "write", doc |-> doc]
ListenTask(get) == [task |-> "listen", get |-> get]
UnlistenTask(id) == [task |-> "unlisten", id |-> id]
UserTask(user) == [task |-> "user", user |-> user]

Enqueue(d, task) == worker' = [worker EXCEPT ![d] = Append(@, task)]

-----------------------------------------------------------------------------
(* The calls of the app.                                                   *)

(* The user a write made now will belong to: the tasks run in order.       *)
UserAhead(d) ==
  LET changes == {i \in DOMAIN worker[d] : worker[d][i].task = "user"}
  IN  IF changes = {} THEN writer[d] ELSE worker[d][Max(changes)].user

SetData(d, doc) ==
  /\ doc \in Docs \ Issued
  /\ issued' = Append(issued, [doc |-> doc, device |-> d, user |-> UserAhead(d)])
  /\ Enqueue(d, WriteTask(doc))
  /\ UNCHANGED <<storageVars, writer, listenVars, mainVars, lost>>

(* What this process has written and the server has not refused: a get     *)
(* owes the app these documents as long as the user stays the same.        *)
WrittenBefore(d) ==
  Pending(d) \cup {t.doc : t \in {s \in ToSet(worker[d]) : s.task = "write"}}

GetDocuments(d, query) ==
  /\ gets[d] < MaxGets
  /\ gets' = [gets EXCEPT ![d] = @ + 1]
  /\ Enqueue(d, ListenTask([id |-> gets[d] + 1, query |-> query, raised |-> FALSE,
                            owes |-> (WrittenBefore(d) \cup cache[d]) \cap Matching[query]]))
  /\ UNCHANGED <<storageVars, writer, listenVars, callbacks, delivered, issued, lost>>

(* Auth tells the client of the user that is now signed in.                *)
CredentialChange(d, user) ==
  /\ Enqueue(d, UserTask(user))
  /\ UNCHANGED <<storageVars, writer, listenVars, mainVars, issued, lost>>

-----------------------------------------------------------------------------
(* The worker queue.                                                       *)

(* Faulty variants: the mutation queue is not laid over the cache; the     *)
(* query is not applied.                                                   *)
CachedView(d, query) == cache[d] \cap Matching[query]
UnfilteredView(d, query) == cache[d] \cup Pending(d)

LocalView(d, query) == (cache[d] \cup Pending(d)) \cap Matching[query]

CallbackFor(get, docs) == [id |-> get.id, query |-> get.query, owes |-> get.owes,
                           failed |-> FALSE, docs |-> docs]

HeadIs(d, task) == worker[d] # <<>> /\ Head(worker[d]).task = task

RunWrite(d) ==
  /\ HeadIs(d, "write")
  /\ queue' = [queue EXCEPT ![d][writer[d]] = Append(@, Head(worker[d]).doc)]
  /\ worker' = [worker EXCEPT ![d] = Tail(@)]
  /\ UNCHANGED <<serverLog, cache, rejected, writer, listenVars, mainVars, issued, lost>>

(* A get joins the view of its query when that view is up to date, and is  *)
(* answered from the local documents when the client is offline; otherwise *)
(* it waits for the server.                                                *)
RegisterGet(d, atOnce) ==
  LET get == Head(worker[d]).get
  IN  /\ listeners' = [listeners EXCEPT ![d] = Append(@, [get EXCEPT !.raised = atOnce])]
      /\ callbacks' = IF atOnce
           THEN [callbacks EXCEPT ![d] = Append(@, CallbackFor(get, LocalView(d, get.query)))]
           ELSE callbacks
      /\ worker' = [worker EXCEPT ![d] = Tail(@)]
      /\ UNCHANGED <<storageVars, writer, synced, offline, answer, delivered, gets, issued, lost>>

(* Faulty variant: the online state is not applied to a new listener.      *)
RunListenIgnoringState(d) ==
  /\ HeadIs(d, "listen")
  /\ RegisterGet(d, Head(worker[d]).get.query \in synced[d])

RunListen(d) ==
  /\ HeadIs(d, "listen")
  /\ RegisterGet(d, offline[d] \/ Head(worker[d]).get.query \in synced[d])

(* The answer on its way is ignored for queries without a listener.        *)
AnswerFor(d, queries) ==
  IF answer[d].queries \cap queries = {} THEN NoAnswer
  ELSE [answer[d] EXCEPT !.queries = @ \cap queries]

(* With the last get of a query its view goes; with the last get of all    *)
(* the client, unless its stream is open, knows nothing of its connection. *)
RunUnlisten(d) ==
  /\ HeadIs(d, "unlisten")
  /\ LET left == Select(listeners[d], {get \in ToSet(listeners[d]) : get.id # Head(worker[d]).id})
         queries == {get.query : get \in ToSet(left)}
     IN  /\ listeners' = [listeners EXCEPT ![d] = left]
         /\ synced' = [synced EXCEPT ![d] = @ \cap queries]
         /\ \/ UNCHANGED offline
            \/ /\ left = <<>> /\ listeners[d] # <<>>
               /\ offline' = [offline EXCEPT ![d] = FALSE]
         /\ answer' = [answer EXCEPT ![d] = AnswerFor(d, queries)]
  /\ worker' = [worker EXCEPT ![d] = Tail(@)]
  /\ UNCHANGED <<storageVars, writer, mainVars, issued, lost>>

(* The client swaps the mutation queue and restarts its streams.           *)
RunUserChange(d) ==
  /\ HeadIs(d, "user")
  /\ writer' = [writer EXCEPT ![d] = Head(worker[d]).user]
  /\ offline' = [offline EXCEPT ![d] = FALSE]
  /\ answer' = [answer EXCEPT ![d] = NoAnswer]
  /\ worker' = [worker EXCEPT ![d] = Tail(@)]
  /\ UNCHANGED <<storageVars, listeners, synced, mainVars, issued, lost>>

RunTask(d) == RunWrite(d) \/ RunListen(d) \/ RunUnlisten(d) \/ RunUserChange(d)

-----------------------------------------------------------------------------
(* The write stream.                                                       *)

(* Faulty variant: the pipeline does not keep the order of the queue.      *)
ServerCommitsAny(d) ==
  /\ \E doc \in Pending(d) \ Committed : serverLog' = Append(serverLog, doc)
  /\ UNCHANGED <<cache, queue, writer, worker, listenVars, mainVars, issued, rejected, lost>>

(* The server commits the writes of the pipeline in order; its result may  *)
(* be on its way, or never arrive.                                         *)
ServerCommits(d) ==
  /\ \E i \in DOMAIN queue[d][writer[d]] :
       LET doc == queue[d][writer[d]][i] IN
         /\ doc \notin Committed
         /\ \A j \in 1 .. i - 1 : queue[d][writer[d]][j] \in Committed
         /\ serverLog' = Append(serverLog, doc)
  /\ UNCHANGED <<cache, queue, writer, worker, listenVars, mainVars, issued, rejected, lost>>

Dequeue(d) == queue' = [queue EXCEPT ![d][writer[d]] = Tail(@)]

(* An acknowledged document goes into the cache; a view the server has not *)
(* yet told of it is no longer up to date ("in limbo").                    *)
CacheAcknowledged(d, doc) ==
  /\ cache' = [cache EXCEPT ![d] = @ \cup {doc}]
  /\ synced' = [synced EXCEPT ![d] = IF doc \in cache[d] THEN @ ELSE {q \in @ : doc \notin Matching[q]}]

(* Faulty variants: a write counts as acknowledged before the server has   *)
(* committed it; an acknowledged write stays in the queue.                 *)
AcknowledgedOnSending(d) ==
  /\ queue[d][writer[d]] # <<>>
  /\ CacheAcknowledged(d, Head(queue[d][writer[d]]))
  /\ Dequeue(d)
  /\ UNCHANGED <<serverLog, rejected, writer, worker, listeners, offline, answer, mainVars,
                 issued, lost>>

AcknowledgedButKept(d) ==
  /\ queue[d][writer[d]] # <<>>
  /\ LET doc == Head(queue[d][writer[d]]) IN
       /\ doc \in Committed
       /\ CacheAcknowledged(d, doc)
  /\ UNCHANGED <<serverLog, queue, rejected, writer, worker, listeners, offline, answer, mainVars,
                 issued, lost>>

WriteAcknowledged(d) ==
  /\ queue[d][writer[d]] # <<>>
  /\ LET doc == Head(queue[d][writer[d]]) IN
       /\ doc \in Committed
       /\ CacheAcknowledged(d, doc)
  /\ Dequeue(d)
  /\ UNCHANGED <<serverLog, rejected, writer, worker, listeners, offline, answer, mainVars,
                 issued, lost>>

(* Faulty variant: any error of a sent write counts as permanent.          *)
RejectedOnAnyError(d) ==
  /\ queue[d][writer[d]] # <<>>
  /\ rejected' = rejected \cup {Head(queue[d][writer[d]])}
  /\ Dequeue(d)
  /\ UNCHANGED <<serverLog, cache, writer, worker, listenVars, mainVars, issued, lost>>

(* A permanent error: the batch leaves the queue and the app, which passed *)
(* no completion block, hears nothing of it.                               *)
WriteRejected(d) ==
  /\ queue[d][writer[d]] # <<>>
  /\ LET doc == Head(queue[d][writer[d]]) IN
       /\ doc \notin Committed
       /\ rejected' = rejected \cup {doc}
  /\ Dequeue(d)
  /\ UNCHANGED <<serverLog, cache, writer, worker, listenVars, mainVars, issued, lost>>

-----------------------------------------------------------------------------
(* The watch stream.                                                       *)

Listened(d) == {get.query : get \in ToSet(listeners[d])}

Told(get, queries) == [get EXCEPT !.raised = @ \/ get.query \in queries]

(* Hand every waiting get of these queries the documents of its view.      *)
RaiseWaiting(d, queries, view) ==
  LET waiting == Select(listeners[d],
                        {get \in ToSet(listeners[d]) : ~get.raised /\ get.query \in queries})
  IN  /\ callbacks' = [callbacks EXCEPT ![d] = @ \o
            [i \in DOMAIN waiting |-> CallbackFor(waiting[i], view[waiting[i].query])]]
      /\ listeners' = [listeners EXCEPT ![d] = [i \in DOMAIN @ |-> Told(@[i], queries)]]

WatchAnswers(d) ==
  /\ answer[d] = NoAnswer
  /\ \E i \in DOMAIN listeners[d] : ~listeners[d][i].raised
  /\ answer' = [answer EXCEPT ![d] = [docs |-> Committed, queries |-> Listened(d)]]
  /\ UNCHANGED <<storageVars, writer, worker, listeners, synced, offline, mainVars, issued,
                 lost>>

(* The documents of the answer go into the cache.  A query for which the   *)
(* device has an acknowledged document the answer lacks is not yet up to   *)
(* date: the client asks the server again.                                 *)
AnswerArrives(d) ==
  /\ answer[d] # NoAnswer
  /\ LET fresh == answer[d].docs \cap UNION {Matching[q] : q \in answer[d].queries}
         queries == {q \in answer[d].queries : cache[d] \cap Matching[q] \subseteq answer[d].docs}
     IN  /\ cache' = [cache EXCEPT ![d] = @ \cup fresh]
         /\ synced' = [synced EXCEPT ![d] = @ \cup queries]
         /\ RaiseWaiting(d, queries,
                         [q \in queries |-> LocalView(d, q) \cup (fresh \cap Matching[q])])
  /\ answer' = [answer EXCEPT ![d] = NoAnswer]
  /\ offline' = [offline EXCEPT ![d] = FALSE]
  /\ UNCHANGED <<serverLog, queue, rejected, writer, worker, delivered, gets, issued, lost>>

(* The stream breaks after it has worked: the client tries again.          *)
AnswerLost(d) ==
  /\ answer[d] # NoAnswer
  /\ answer' = [answer EXCEPT ![d] = NoAnswer]
  /\ UNCHANGED <<storageVars, writer, worker, listeners, synced, offline, mainVars, issued,
                 lost>>

(* The stream fails, or ten seconds pass without an answer: the client     *)
(* calls itself offline and answers every waiting get from what it has.    *)
GoOffline(d) ==
  /\ ~offline[d]
  /\ \E i \in DOMAIN listeners[d] : ~listeners[d][i].raised
  /\ offline' = [offline EXCEPT ![d] = TRUE]
  /\ synced' = [synced EXCEPT ![d] = {}]
  /\ answer' = [answer EXCEPT ![d] = NoAnswer]
  /\ RaiseWaiting(d, Queries, [q \in Queries |-> LocalView(d, q)])
  /\ UNCHANGED <<storageVars, writer, worker, delivered, gets, issued, lost>>

(* The server refuses a listen: its gets end with an error.                *)
ListenRefused(d, query) ==
  /\ query \in Listened(d)
  /\ LET failing == Select(listeners[d],
                           {get \in ToSet(listeners[d]) : get.query = query /\ ~get.raised})
     IN  callbacks' = [callbacks EXCEPT ![d] = @ \o
           [i \in DOMAIN failing |-> [CallbackFor(failing[i], {}) EXCEPT !.failed = TRUE]]]
  /\ listeners' = [listeners EXCEPT ![d] = Select(@, {get \in ToSet(@) : get.query # query})]
  /\ synced' = [synced EXCEPT ![d] = @ \ {query}]
  /\ answer' = [answer EXCEPT ![d] = AnswerFor(d, Listened(d) \ {query})]
  /\ offline' = [offline EXCEPT ![d] = FALSE]
  /\ UNCHANGED <<storageVars, writer, worker, delivered, gets, issued, lost>>

(* Any other message of the server, or the end of a stream that nobody     *)
(* needs.                                                                  *)
ForgetOffline(d) ==
  /\ offline[d]
  /\ offline' = [offline EXCEPT ![d] = FALSE]
  /\ UNCHANGED <<storageVars, writer, worker, listeners, synced, answer, mainVars, issued,
                 lost>>

-----------------------------------------------------------------------------
(* The main queue runs a completion block; what the block does is for the  *)
(* module that made the call.  The listener of a get that has succeeded is *)
(* removed before the block runs; that of a failed one is gone already.    *)
Deliver(d) ==
  /\ callbacks[d] # <<>>
  /\ callbacks' = [callbacks EXCEPT ![d] = Tail(@)]
  /\ LET due == Head(callbacks[d]) IN
       IF due.failed THEN UNCHANGED <<worker, delivered>>
       ELSE /\ Enqueue(d, UnlistenTask(due.id))
            /\ delivered' = [delivered EXCEPT ![d] = {[id |-> due.id, docs |-> due.docs]}]
  /\ UNCHANGED <<storageVars, writer, listenVars, gets, issued, lost>>

(* The process ends and the app is started again: what was only in memory  *)
(* is gone, the client starts with the user Auth has persisted.            *)
DropProcess(d, user) ==
  /\ lost' = lost \cup {t.doc : t \in {s \in ToSet(worker[d]) : s.task = "write"}}
  /\ worker' = [worker EXCEPT ![d] = <<>>]
  /\ listeners' = [listeners EXCEPT ![d] = <<>>]
  /\ synced' = [synced EXCEPT ![d] = {}]
  /\ offline' = [offline EXCEPT ![d] = FALSE]
  /\ answer' = [answer EXCEPT ![d] = NoAnswer]
  /\ callbacks' = [callbacks EXCEPT ![d] = <<>>]
  /\ delivered' = [delivered EXCEPT ![d] = {}]
  /\ writer' = [writer EXCEPT ![d] = user]

(* Faulty variant: the mutation queues are kept in memory only.            *)
RestartWithoutPersistence(d, user) ==
  /\ DropProcess(d, user)
  /\ queue' = [queue EXCEPT ![d] = [u \in Users |-> <<>>]]
  /\ UNCHANGED <<serverLog, cache, rejected, gets, issued>>

Restart(d, user) ==
  /\ DropProcess(d, user)
  /\ UNCHANGED <<storageVars, gets, issued>>

ClientStep(d) ==
  \/ RunTask(d)
  \/ ServerCommits(d)
  \/ WriteAcknowledged(d)
  \/ WriteRejected(d)
  \/ WatchAnswers(d)
  \/ AnswerArrives(d)
  \/ AnswerLost(d)
  \/ GoOffline(d)
  \/ ForgetOffline(d)
  \/ \E q \in Queries : ListenRefused(d, q)

(* Any app: it may write, read, and change the user at any time, and its   *)
(* process may end at any time.                                            *)
AppStep(d) ==
  \/ /\ Len(worker[d]) < MaxTasks
     /\ \/ \E doc \in Docs : SetData(d, doc)
        \/ \E q \in Queries : GetDocuments(d, q)
        \/ \E u \in Users : CredentialChange(d, u)
  \/ Deliver(d)
  \/ \E u \in Users : Restart(d, u)

FirestoreNext == \E d \in Devices : AppStep(d) \/ ClientStep(d)

FirestoreSpec == FirestoreInit /\ [][FirestoreNext]_firestoreVars

(* The worker and the main queue run what is in them.                      *)
ClientFairness(d) ==
  /\ WF_firestoreVars(RunTask(d))
  /\ WF_firestoreVars(Deliver(d))

(* A condition on the network: while a get waits, the watch stream brings  *)
(* an answer at last, or ends and is reported, so that the client calls    *)
(* itself offline.  A stream that stays open and silent meets neither, and *)
(* no timer of the client ends it, see TimeoutEndsTheWait of RemoteStore.  *)
NetworkFairness(d) == WF_firestoreVars(AnswerArrives(d) \/ GoOffline(d))

(* A server that can be reached again and again takes the writes.          *)
ServerFairness(d) ==
  /\ SF_firestoreVars(ServerCommits(d))
  /\ SF_firestoreVars(WriteAcknowledged(d))

ReadingSpec ==
  FirestoreSpec /\ \A d \in Devices : ClientFairness(d) /\ NetworkFairness(d)

WritingSpec ==
  FirestoreSpec /\ \A d \in Devices : ClientFairness(d) /\ ServerFairness(d)

-----------------------------------------------------------------------------
Get == [id : Nat \ {0}, query : Queries, raised : BOOLEAN, owes : SUBSET Docs]

Task ==
  [task : {"write"}, doc : Docs] \cup [task : {"listen"}, get : Get]
    \cup [task : {"unlisten"}, id : Nat \ {0}] \cup [task : {"user"}, user : Users]

Callback == [id : Nat \ {0}, query : Queries, owes : SUBSET Docs, failed : BOOLEAN,
             docs : SUBSET Docs]

FirestoreTypeOK ==
  /\ serverLog \in Seq(Docs)
  /\ cache \in [Devices -> SUBSET Docs]
  /\ queue \in [Devices -> [Users -> Seq(Docs)]]
  /\ writer \in [Devices -> Users]
  /\ worker \in [Devices -> Seq(Task)]
  /\ listeners \in [Devices -> Seq(Get)]
  /\ synced \in [Devices -> SUBSET Queries]
  /\ offline \in [Devices -> BOOLEAN]
  /\ answer \in [Devices -> [docs : SUBSET Docs, queries : SUBSET Queries]]
  /\ callbacks \in [Devices -> Seq(Callback)]
  /\ delivered \in [Devices -> SUBSET [id : Nat \ {0}, docs : SUBSET Docs]]
  /\ gets \in [Devices -> Nat]
  /\ issued \in Seq([doc : Docs, device : Devices, user : Users])
  /\ rejected \subseteq Docs
  /\ lost \subseteq Docs

InWorker(doc) == \E d \in Devices : WriteTask(doc) \in ToSet(worker[d])
InQueue(doc) == \E d \in Devices, u \in Users : doc \in ToSet(queue[d][u])

(***************************************************************************)
(* A write that setData has taken is always somewhere: waiting in a worker *)
(* queue, in a mutation queue, committed, refused by the server, or lost   *)
(* with a process that ended before its task had run.                      *)
(***************************************************************************)
NoWriteVanishes ==
  \A doc \in Issued :
    InWorker(doc) \/ InQueue(doc) \/ doc \in Committed \cup rejected \cup lost

(***************************************************************************)
(* ... and its fate is one: a refused or lost write is never committed     *)
(* later, no write is committed twice, and a write that has reached a      *)
(* mutation queue is no longer lost by any crash.                          *)
(***************************************************************************)
FatesAreFinal ==
  /\ (rejected \cup lost) \cap Committed = {}
  /\ \A doc \in rejected \cup lost : ~InWorker(doc) /\ ~InQueue(doc)
  /\ rejected \cap lost = {}
  /\ IsInjective(serverLog)

(***************************************************************************)
(* The server sees the writes of a user on a device in the order they were *)
(* made: when one is committed, every earlier one was committed before it, *)
(* refused, or lost, however often the user or the process changed.        *)
(***************************************************************************)
CommittedInOrder ==
  \A j \in DOMAIN issued : \A i \in 1 .. j - 1 :
    /\ issued[i].device = issued[j].device
    /\ issued[i].user = issued[j].user
    /\ issued[j].doc \in Committed
    => \/ issued[i].doc \in rejected \cup lost
       \/ \E n \in DOMAIN serverLog : \E m \in 1 .. n - 1 :
            serverLog[m] = issued[i].doc /\ serverLog[n] = issued[j].doc

(***************************************************************************)
(* The cache of a device never holds a document the server does not.       *)
(***************************************************************************)
CacheIsFromServer == \A d \in Devices : cache[d] \subseteq Committed

(***************************************************************************)
(* On a device with one account, a get is answered with every document     *)
(* that was in the cache or written by the app before the get was made,    *)
(* online or offline, acknowledged or not, except those the server has     *)
(* refused.                                                                *)
(***************************************************************************)
GetsShowOwnWrites ==
  \A d \in Devices : \A i \in DOMAIN callbacks[d] :
    ~callbacks[d][i].failed => callbacks[d][i].owes \subseteq callbacks[d][i].docs \cup rejected

(***************************************************************************)
(* On devices with one account the client keeps the promise of PinStore:   *)
(* an asked get is one that waits in the worker queue, among the listeners *)
(* or on the main queue, and every step of the two streams, of the worker  *)
(* and of a restart is a step of the promise or none.                      *)
(***************************************************************************)
Asking(get) == [id |-> get.id, query |-> get.query, owes |-> get.owes]

AskedGets(d) ==
  {Asking(t.get) : t \in {s \in ToSet(worker[d]) : s.task = "listen"}}
    \cup {Asking(get) : get \in {l \in ToSet(listeners[d]) : ~l.raised}}
    \cup {Asking(c) : c \in ToSet(callbacks[d])}

Promise == INSTANCE PinStore WITH
             Ids <- 1 .. MaxGets,
             committed <- Committed,
             refused <- rejected \cup lost,
             writtenOn <- [d \in Devices |->
                             {write.doc : write \in {w \in ToSet(issued) : w.device = d}}],
             known <- cache,
             asked <- [d \in Devices |-> AskedGets(d)],
             answered <- delivered

KeepsTheStorePromise == Promise!StoreSpec

(***************************************************************************)
(* Every get ends: its completion block runs, with documents or an error,  *)
(* or the process has ended.  It holds under NetworkFairness, on a network *)
(* that answers and on one that breaks whatever is tried, but not on one   *)
(* that leaves a stream open and silent.                                   *)
(***************************************************************************)
Outstanding(d, id) ==
  \/ \E i \in DOMAIN worker[d] : worker[d][i].task = "listen" /\ worker[d][i].get.id = id
  \/ \E i \in DOMAIN listeners[d] : listeners[d][i].id = id /\ ~listeners[d][i].raised
  \/ \E i \in DOMAIN callbacks[d] : callbacks[d][i].id = id

EveryGetEnds ==
  \A d \in Devices : \A id \in 1 .. MaxGets : Outstanding(d, id) ~> ~Outstanding(d, id)

(***************************************************************************)
(* The writes of a user who stays signed in drain: from some time on the   *)
(* mutation queue is empty again and again.  Those of a user who has been  *)
(* replaced by another need not.                                           *)
(***************************************************************************)
WritesOfTheSignedInUserDrain ==
  \A d \in Devices : \A u \in Users :
    <>[](writer[d] = u) => []<>(queue[d][u] = <<>>)

=============================================================================
