--------------------------- MODULE Firestore_proofs ---------------------------
(***************************************************************************)
(* Proofs about the client and its server, for any devices, accounts,      *)
(* documents, queries and bounds.                                          *)
(***************************************************************************)
EXTENDS Firestore, SequenceLemmas, TLAPS

(* The server's log is a sequence; of what, does not matter here.          *)
LogIsASequence == \E S : serverLog \in Seq(S)

AnswersAreFromServer ==
  /\ DOMAIN answer = Devices
  /\ \A d \in Devices : "docs" \in DOMAIN answer[d] /\ answer[d].docs \subseteq Committed

(* What is in a cache or on its way into one, the server has committed.    *)
ServerInv ==
  /\ LogIsASequence
  /\ cache \in [Devices -> SUBSET Committed]
  /\ answer = [d \in Devices |-> answer[d]]
  /\ AnswersAreFromServer

-----------------------------------------------------------------------------
(* The entries of a log to which one is appended.                          *)
LEMMA AppendedLog ==
  ASSUME NEW S, NEW log \in Seq(S), NEW doc
  PROVE  /\ Append(log, doc) \in Seq(S \cup {doc})
         /\ ToSet(Append(log, doc)) = ToSet(log) \cup {doc}
<1>1. log \in Seq(S \cup {doc})
  OBVIOUS
<1>2. /\ Append(log, doc) \in Seq(S \cup {doc})
      /\ DOMAIN Append(log, doc) = 1 .. Len(log) + 1
      /\ \A i \in 1 .. Len(log) : Append(log, doc)[i] = log[i]
      /\ Append(log, doc)[Len(log) + 1] = doc
      /\ DOMAIN log = 1 .. Len(log) /\ Len(log) \in Nat
  BY <1>1
<1>3. \A i \in 1 .. Len(log) + 1 : i \in 1 .. Len(log) \/ i = Len(log) + 1
  BY <1>2
<1>4. ToSet(Append(log, doc)) \subseteq ToSet(log) \cup {doc}
  BY <1>2, <1>3 DEF ToSet
<1>5. ToSet(log) \cup {doc} \subseteq ToSet(Append(log, doc))
  <2>1. \A i \in 1 .. Len(log) : i \in 1 .. Len(log) + 1
    BY <1>2
  <2>2. Len(log) + 1 \in 1 .. Len(log) + 1
    BY <1>2
  <2> QED
    BY <1>2, <2>1, <2>2 DEF ToSet
<1> QED
  BY <1>2, <1>4, <1>5

(* A step that leaves the log, the caches and the answers alone keeps the  *)
(* invariant.                                                              *)
LEMMA ServerFrame ==
  ASSUME ServerInv, UNCHANGED <<serverLog, cache, answer>>
  PROVE  ServerInv'
BY DEF ServerInv, LogIsASequence, AnswersAreFromServer, Committed

(* The commits of the server.                                              *)
LEMMA ServerCommitsInv ==
  ASSUME ServerInv, NEW d \in Devices, ServerCommits(d)
  PROVE  ServerInv'
<1>1. PICK doc : serverLog' = Append(serverLog, doc)
  BY DEF ServerCommits
<1>2. PICK S : serverLog \in Seq(S)
  BY DEF ServerInv, LogIsASequence
<1>3. serverLog' \in Seq(S \cup {doc}) /\ Committed \subseteq Committed'
  BY <1>1, <1>2, AppendedLog DEF Committed
<1>4. LogIsASequence'
  BY <1>3 DEF LogIsASequence
<1>5. cache' = cache /\ answer' = answer
  BY DEF ServerCommits, listenVars
<1> QED
  BY <1>3, <1>4, <1>5 DEF ServerInv, AnswersAreFromServer

(* An acknowledgement puts a committed document into the cache.            *)
LEMMA WriteAcknowledgedInv ==
  ASSUME ServerInv, NEW d \in Devices, WriteAcknowledged(d)
  PROVE  ServerInv'
<1>1. PICK doc \in Committed : cache' = [cache EXCEPT ![d] = @ \cup {doc}]
  BY DEF WriteAcknowledged, CacheAcknowledged
<1>2. serverLog' = serverLog /\ answer' = answer
  BY DEF WriteAcknowledged
<1>3. cache' \in [Devices -> SUBSET Committed]
  BY <1>1 DEF ServerInv
<1> QED
  BY <1>2, <1>3 DEF ServerInv, LogIsASequence, AnswersAreFromServer, Committed

(* A step that only sets the answer on its way to one whose documents the  *)
(* server has committed.                                                   *)
LEMMA AnswerSetInv ==
  ASSUME ServerInv, NEW d \in Devices, NEW a,
         "docs" \in DOMAIN a, a.docs \subseteq Committed,
         answer' = [answer EXCEPT ![d] = a], UNCHANGED <<serverLog, cache>>
  PROVE  ServerInv'
<1>1. Committed' = Committed /\ LogIsASequence'
  BY DEF ServerInv, LogIsASequence, Committed
<1>2. /\ DOMAIN answer' = Devices
      /\ \A e \in Devices : answer'[e] = IF e = d THEN a ELSE answer[e]
  BY DEF ServerInv
<1>3. answer' = [e \in Devices |-> answer'[e]]
  BY <1>2 DEF ServerInv
<1>4. AnswersAreFromServer'
  BY <1>1, <1>2 DEF ServerInv, AnswersAreFromServer
<1> QED
  BY <1>1, <1>3, <1>4 DEF ServerInv

(* No answer carries no documents.                                         *)
LEMMA NoAnswerFromServer == "docs" \in DOMAIN NoAnswer /\ NoAnswer.docs \subseteq Committed
BY DEF NoAnswer

(* An answer that is narrowed to some queries keeps its documents.         *)
LEMMA AnswerForFromServer ==
  ASSUME ServerInv, NEW d \in Devices, NEW queries
  PROVE  "docs" \in DOMAIN AnswerFor(d, queries) /\ AnswerFor(d, queries).docs \subseteq Committed
<1>1. CASE AnswerFor(d, queries) = NoAnswer
  BY <1>1, NoAnswerFromServer
<1>2. CASE AnswerFor(d, queries) # NoAnswer
  <2>1. AnswerFor(d, queries) = [answer[d] EXCEPT !.queries = @ \cap queries]
    BY <1>2 DEF AnswerFor
  <2>2. "docs" \in DOMAIN answer[d] /\ answer[d].docs \subseteq Committed
    BY DEF ServerInv, AnswersAreFromServer
  <2>3. /\ DOMAIN AnswerFor(d, queries) = DOMAIN answer[d]
        /\ AnswerFor(d, queries).docs = answer[d].docs
    BY <2>1, <2>2
  <2> QED
    BY <2>2, <2>3
<1> QED
  BY <1>1, <1>2

(* The worker's tasks and what the server says, but for an answer.         *)
LEMMA AnswerMovesInv ==
  ASSUME ServerInv, NEW d \in Devices,
         \/ RunUnlisten(d) \/ RunUserChange(d) \/ WatchAnswers(d) \/ AnswerLost(d) \/ GoOffline(d)
         \/ \E q \in Queries : ListenRefused(d, q)
         \/ \E u \in Users : Restart(d, u)
  PROVE  ServerInv'
<1>1. serverLog' = serverLog /\ cache' = cache
  BY DEF RunUnlisten, RunUserChange, WatchAnswers, AnswerLost, GoOffline, ListenRefused, Restart,
         storageVars
<1>2. \E a : /\ "docs" \in DOMAIN a /\ a.docs \subseteq Committed
             /\ answer' = [answer EXCEPT ![d] = a]
  <2>1. CASE RunUnlisten(d)
    BY <2>1, AnswerForFromServer DEF RunUnlisten
  <2>2. CASE RunUserChange(d) \/ AnswerLost(d) \/ GoOffline(d)
    BY <2>2, NoAnswerFromServer DEF RunUserChange, AnswerLost, GoOffline
  <2>3. CASE WatchAnswers(d)
    <3> DEFINE a == [docs |-> Committed, queries |-> Listened(d)]
    <3>1. "docs" \in DOMAIN a /\ a.docs \subseteq Committed
      OBVIOUS
    <3>2. answer' = [answer EXCEPT ![d] = a]
      BY <2>3 DEF WatchAnswers
    <3> QED
      BY <3>1, <3>2
  <2>4. CASE \E q \in Queries : ListenRefused(d, q)
    BY <2>4, AnswerForFromServer DEF ListenRefused
  <2>5. CASE \E u \in Users : Restart(d, u)
    BY <2>5, NoAnswerFromServer DEF Restart, DropProcess
  <2> QED
    BY <2>1, <2>2, <2>3, <2>4, <2>5
<1> QED
  BY <1>1, <1>2, AnswerSetInv

(* An answer's documents go into the cache.                                *)
LEMMA AnswerArrivesInv ==
  ASSUME ServerInv, NEW d \in Devices, AnswerArrives(d)
  PROVE  ServerInv'
<1>1. PICK fresh : fresh \subseteq answer[d].docs /\ cache' = [cache EXCEPT ![d] = @ \cup fresh]
  BY DEF AnswerArrives
<1>2. serverLog' = serverLog /\ answer' = [answer EXCEPT ![d] = NoAnswer]
  BY DEF AnswerArrives
<1>3. cache' \in [Devices -> SUBSET Committed]
  BY <1>1 DEF ServerInv, AnswersAreFromServer
<1>4. Committed' = Committed /\ LogIsASequence'
  BY <1>2 DEF ServerInv, LogIsASequence, Committed
<1>5. /\ DOMAIN answer' = Devices
      /\ \A e \in Devices : answer'[e] = IF e = d THEN NoAnswer ELSE answer[e]
  BY <1>2 DEF ServerInv
<1>6. AnswersAreFromServer'
  BY <1>4, <1>5, NoAnswerFromServer DEF ServerInv, AnswersAreFromServer
<1>7. answer' = [e \in Devices |-> answer'[e]]
  BY <1>2, <1>5 DEF ServerInv
<1> QED
  BY <1>3, <1>4, <1>6, <1>7 DEF ServerInv

(* The steps that touch neither the server, a cache nor an answer.         *)
LEMMA ElsewhereInv ==
  ASSUME ServerInv, NEW d \in Devices,
         \/ \E doc \in Docs : SetData(d, doc)
         \/ \E q \in Queries : GetDocuments(d, q)
         \/ \E u \in Users : CredentialChange(d, u)
         \/ RunWrite(d) \/ RunListen(d) \/ WriteRejected(d) \/ ForgetOffline(d) \/ Deliver(d)
  PROVE  ServerInv'
<1>1. UNCHANGED <<serverLog, cache, answer>>
  BY DEF SetData, GetDocuments, CredentialChange, RunWrite, RunListen, RegisterGet, WriteRejected,
         ForgetOffline, Deliver, storageVars, listenVars
<1> QED
  BY <1>1, ServerFrame

-----------------------------------------------------------------------------
(* ServerInv holds at the start ...                                        *)
LEMMA ServerInitInv == FirestoreInit => ServerInv
<1> SUFFICES ASSUME FirestoreInit PROVE ServerInv
  OBVIOUS
<1>1. serverLog \in Seq({})
  BY DEF FirestoreInit
<1>2. cache \in [Devices -> SUBSET Committed]
  BY DEF FirestoreInit
<1>3. answer = [d \in Devices |-> NoAnswer]
  BY DEF FirestoreInit
<1> QED
  BY <1>1, <1>2, <1>3, NoAnswerFromServer DEF ServerInv, LogIsASequence, AnswersAreFromServer

(* ... and every step keeps it.                                            *)
LEMMA ServerStepInv == ServerInv /\ [FirestoreNext]_firestoreVars => ServerInv'
<1> SUFFICES ASSUME ServerInv, [FirestoreNext]_firestoreVars PROVE ServerInv'
  OBVIOUS
<1>1. CASE FirestoreNext
  <2>1. PICK d \in Devices : AppStep(d) \/ ClientStep(d)
    BY <1>1 DEF FirestoreNext
  <2>2. CASE AppStep(d)
    BY <2>2, ElsewhereInv, AnswerMovesInv DEF AppStep
  <2>3. CASE ClientStep(d)
    BY <2>3, ElsewhereInv, AnswerMovesInv, ServerCommitsInv, WriteAcknowledgedInv, AnswerArrivesInv
    DEF ClientStep, RunTask
  <2> QED
    BY <2>1, <2>2, <2>3
<1>2. CASE UNCHANGED firestoreVars
  BY <1>2, ServerFrame DEF firestoreVars
<1> QED
  BY <1>1, <1>2

(***************************************************************************)
(* What is in a cache or on its way into one, the server has committed.    *)
(***************************************************************************)
THEOREM ServerInvariant == FirestoreSpec => []ServerInv
<1> QED
  BY ServerInitInv, ServerStepInv, PTL DEF FirestoreSpec

(***************************************************************************)
(* No device's cache ever holds a document the server has not committed,   *)
(* whatever is lost, resent, refused or restarted: what a get shows beyond *)
(* the committed documents comes from the device's own mutation queue.     *)
(***************************************************************************)
THEOREM CachesAreFromServer == FirestoreSpec => []CacheIsFromServer
<1>1. ServerInv => CacheIsFromServer
  BY DEF ServerInv, CacheIsFromServer
<1> QED
  BY <1>1, ServerInvariant, PTL

-----------------------------------------------------------------------------
(* Where a write is: at a place of a worker queue, of a mutation queue.    *)
WorkerHas(d, i, doc) == i \in DOMAIN worker[d] /\ worker[d][i] = WriteTask(doc)
QueueHas(d, u, i, doc) == i \in DOMAIN queue[d][u] /\ queue[d][u][i] = doc

(* The tasks are sequences; a write task is one of WriteTask.              *)
TaskFits(t) ==
  /\ t.task = "write" => t = WriteTask(t.doc)
  /\ t.task = "user" => t.user \in Users

WorkerOK ==
  /\ worker = [d \in Devices |-> worker[d]]
  /\ \A d \in Devices : IsSeq(worker[d]) /\ \A i \in DOMAIN worker[d] : TaskFits(worker[d][i])

QueueOK ==
  /\ queue = [d \in Devices |-> [u \in Users |-> queue[d][u]]]
  /\ \A d \in Devices, u \in Users : IsSeq(queue[d][u])
  /\ writer \in [Devices -> Users]

LogsOK == IsSeq(serverLog) /\ IsSeq(issued)

(* A write is in one place, and one the server has decided on or the       *)
(* process has lost is in none of which it could still be sent.            *)
PlacesOK ==
  /\ \A d \in Devices : \A i, doc : WorkerHas(d, i, doc) =>
       /\ doc \in Issued /\ doc \notin Committed \cup rejected \cup lost
       /\ \A e \in Devices, u \in Users : \A j : ~QueueHas(e, u, j, doc)
       /\ \A e \in Devices : \A j : WorkerHas(e, j, doc) => e = d /\ j = i
  /\ \A d \in Devices, u \in Users : \A i, doc : QueueHas(d, u, i, doc) =>
       /\ doc \in Issued /\ doc \notin rejected \cup lost
       /\ \A e \in Devices, v \in Users : \A j : QueueHas(e, v, j, doc) => e = d /\ v = u /\ j = i

FatesOK ==
  /\ Committed \cup rejected \cup lost \subseteq Issued
  /\ (rejected \cup lost) \cap Committed = {} /\ rejected \cap lost = {}
  /\ IsInjective(serverLog)

Placed(doc) ==
  \/ \E d \in Devices : \E i : WorkerHas(d, i, doc)
  \/ \E d \in Devices, u \in Users : \E i : QueueHas(d, u, i, doc)
  \/ doc \in Committed \cup rejected \cup lost

WritesInv ==
  /\ WorkerOK /\ QueueOK /\ LogsOK
  /\ PlacesOK /\ FatesOK /\ \A doc \in Issued : Placed(doc)

-----------------------------------------------------------------------------
(* A task more in a worker queue: a write if it is one.                    *)
LEMMA WorkerAppended ==
  ASSUME WorkerOK, NEW d \in Devices, NEW t, TaskFits(t), Enqueue(d, t)
  PROVE  /\ WorkerOK' /\ Len(worker[d]) + 1 \in Nat \ {0}
         /\ \A e \in Devices : \A i, doc :
              WorkerHas(e, i, doc)' <=> \/ WorkerHas(e, i, doc)
                                        \/ e = d /\ i = Len(worker[d]) + 1 /\ t = WriteTask(doc)
<1> DEFINE w == worker[d]
           n == Len(w)
<1>1. worker' = [worker EXCEPT ![d] = Append(w, t)] /\ IsSeq(w)
  BY DEF Enqueue, WorkerOK
<1>2. /\ worker'[d] = Append(w, t) /\ \A e \in Devices \ {d} : worker'[e] = worker[e]
      /\ worker' = [e \in Devices |-> worker'[e]]
  BY <1>1 DEF WorkerOK
<1>3. /\ IsSeq(Append(w, t)) /\ n \in Nat /\ DOMAIN w = 1 .. n
      /\ DOMAIN Append(w, t) = 1 .. n + 1
      /\ \A i \in 1 .. n : Append(w, t)[i] = w[i]
      /\ Append(w, t)[n + 1] = t
  BY <1>1, Appended
<1>4. \A i : i \in 1 .. n + 1 <=> i \in 1 .. n \/ i = n + 1
  BY <1>3
<1>5. n + 1 \notin 1 .. n /\ n + 1 \in Nat \ {0}
  BY <1>3
<1>6. WorkerOK'
  <2>1. ASSUME NEW i \in DOMAIN worker'[d] PROVE TaskFits(worker'[d][i])
    BY <1>2, <1>3, <1>4, <2>1 DEF WorkerOK
  <2>2. \A e \in Devices : IsSeq(worker'[e]) /\ \A i \in DOMAIN worker'[e] : TaskFits(worker'[e][i])
    BY <1>2, <1>3, <2>1 DEF WorkerOK
  <2> QED
    BY <1>2, <2>2 DEF WorkerOK, TaskFits
<1>7. \A i, doc : WorkerHas(d, i, doc)'
                  <=> WorkerHas(d, i, doc) \/ (i = n + 1 /\ t = WriteTask(doc))
  BY <1>2, <1>3, <1>4, <1>5 DEF WorkerHas
<1>8. \A e \in Devices \ {d} : \A i, doc : WorkerHas(e, i, doc)' <=> WorkerHas(e, i, doc)
  BY <1>2 DEF WorkerHas
<1> QED
  BY <1>5, <1>6, <1>7, <1>8

(* The first task gone.                                                    *)
LEMMA WorkerAdvanced ==
  ASSUME WorkerOK, NEW d \in Devices, worker[d] # <<>>, worker' = [worker EXCEPT ![d] = Tail(@)]
  PROVE  /\ WorkerOK' /\ TaskFits(Head(worker[d])) /\ worker[d][1] = Head(worker[d]) /\ 1 \in DOMAIN worker[d]
         /\ \A i, doc : WorkerHas(d, i, doc)' <=> i \in Nat \ {0} /\ WorkerHas(d, i + 1, doc)
         /\ \A e \in Devices \ {d} : \A i, doc : WorkerHas(e, i, doc)' <=> WorkerHas(e, i, doc)
<1> DEFINE w == worker[d]
           n == Len(w)
<1>1. IsSeq(w) /\ \A i \in DOMAIN w : TaskFits(w[i])
  BY DEF WorkerOK
<1>2. /\ worker'[d] = Tail(w) /\ \A e \in Devices \ {d} : worker'[e] = worker[e]
      /\ worker' = [e \in Devices |-> worker'[e]]
  BY DEF WorkerOK
<1>3. /\ IsSeq(Tail(w)) /\ n \in Nat \ {0} /\ DOMAIN w = 1 .. n
      /\ Head(w) = w[1] /\ 1 \in DOMAIN w
      /\ DOMAIN Tail(w) = 1 .. n - 1
      /\ \A i \in 1 .. n - 1 : Tail(w)[i] = w[i + 1]
  BY <1>1, Shortened
<1>4. \A i : i \in 1 .. n - 1 <=> i \in Nat \ {0} /\ i + 1 \in 1 .. n
  BY <1>3
<1>5. WorkerOK'
  <2>1. ASSUME NEW i \in DOMAIN worker'[d] PROVE TaskFits(worker'[d][i])
    BY <1>1, <1>2, <1>3, <1>4, <2>1
  <2>2. \A e \in Devices : IsSeq(worker'[e]) /\ \A i \in DOMAIN worker'[e] : TaskFits(worker'[e][i])
    BY <1>2, <1>3, <2>1 DEF WorkerOK
  <2> QED
    BY <1>2, <2>2 DEF WorkerOK, TaskFits
<1>6. \A i, doc : WorkerHas(d, i, doc)' <=> i \in Nat \ {0} /\ WorkerHas(d, i + 1, doc)
  BY <1>2, <1>3, <1>4 DEF WorkerHas
<1>7. \A e \in Devices \ {d} : \A i, doc : WorkerHas(e, i, doc)' <=> WorkerHas(e, i, doc)
  BY <1>2 DEF WorkerHas
<1> QED
  BY <1>1, <1>3, <1>5, <1>6, <1>7

(* A write joins the mutation queue of the client's user.                  *)
LEMMA QueueAppended ==
  ASSUME QueueOK, NEW d \in Devices, NEW doc,
         queue' = [queue EXCEPT ![d][writer[d]] = Append(@, doc)], writer' = writer
  PROVE  LET u == writer[d] IN
         /\ QueueOK' /\ u \in Users /\ Len(queue[d][u]) + 1 \in Nat \ {0}
         /\ DOMAIN queue[d][u] = 1 .. Len(queue[d][u])
         /\ \A e \in Devices, v \in Users : \A i, x :
              QueueHas(e, v, i, x)' <=> \/ QueueHas(e, v, i, x)
                                        \/ e = d /\ v = u /\ i = Len(queue[d][u]) + 1 /\ x = doc
<1> DEFINE u == writer[d]
           q == queue[d][u]
           n == Len(q)
<1>1. u \in Users /\ IsSeq(q)
  BY DEF QueueOK
<1>2. /\ IsSeq(Append(q, doc)) /\ n \in Nat /\ DOMAIN q = 1 .. n
      /\ DOMAIN Append(q, doc) = 1 .. n + 1
      /\ \A i \in 1 .. n : Append(q, doc)[i] = q[i]
      /\ Append(q, doc)[n + 1] = doc
  BY <1>1, Appended
<1>3. /\ queue'[d][u] = Append(q, doc)
      /\ \A e \in Devices, v \in Users : e # d \/ v # u => queue'[e][v] = queue[e][v]
      /\ queue' = [e \in Devices |-> [v \in Users |-> queue'[e][v]]]
  BY <1>1 DEF QueueOK
<1> HIDE DEF u
<1>4. \A i : i \in 1 .. n + 1 <=> i \in 1 .. n \/ i = n + 1
  BY <1>2
<1>5. n + 1 \notin 1 .. n /\ n + 1 \in Nat \ {0}
  BY <1>2
<1>6. QueueOK'
  <2>1. \A e \in Devices, v \in Users : IsSeq(queue'[e][v])
    BY <1>2, <1>3 DEF QueueOK
  <2> QED
    BY <1>3, <2>1 DEF QueueOK
<1>7. \A i, x : QueueHas(d, u, i, x)' <=> QueueHas(d, u, i, x) \/ (i = n + 1 /\ x = doc)
  <2>1. \A i, x : i \in DOMAIN Append(q, doc) /\ Append(q, doc)[i] = x
                  <=> (i \in DOMAIN q /\ q[i] = x) \/ (i = n + 1 /\ x = doc)
    BY <1>2, <1>4, <1>5
  <2>2. u' = u
    BY DEF u
  <2> QED
    BY <1>3, <2>1, <2>2 DEF QueueHas
<1>8. \A e \in Devices, v \in Users : e # d \/ v # u =>
        \A i, x : QueueHas(e, v, i, x)' <=> QueueHas(e, v, i, x)
  BY <1>3 DEF QueueHas
<1> QED
  BY <1>1, <1>2, <1>5, <1>6, <1>7, <1>8 DEF u

(* The first write of the mutation queue of the client's user leaves.      *)
LEMMA QueueAdvanced ==
  ASSUME QueueOK, NEW d \in Devices, queue[d][writer[d]] # <<>>, Dequeue(d), writer' = writer
  PROVE  LET u == writer[d] IN
         /\ QueueOK' /\ u \in Users /\ QueueHas(d, u, 1, Head(queue[d][u]))
         /\ \A i, x : QueueHas(d, u, i, x)' <=> i \in Nat \ {0} /\ QueueHas(d, u, i + 1, x)
         /\ \A i, x : QueueHas(d, u, i, x) => i \in Nat \ {0}
         /\ \A e \in Devices, v \in Users : e # d \/ v # u =>
              \A i, x : QueueHas(e, v, i, x)' <=> QueueHas(e, v, i, x)
<1> DEFINE u == writer[d]
           q == queue[d][u]
           n == Len(q)
<1>1. u \in Users /\ IsSeq(q)
  BY DEF QueueOK
<1>2. /\ IsSeq(Tail(q)) /\ n \in Nat \ {0} /\ DOMAIN q = 1 .. n
      /\ Head(q) = q[1] /\ 1 \in DOMAIN q
      /\ DOMAIN Tail(q) = 1 .. n - 1
      /\ \A i \in 1 .. n - 1 : Tail(q)[i] = q[i + 1]
  BY <1>1, Shortened
<1>3. /\ queue'[d][u] = Tail(q)
      /\ \A e \in Devices, v \in Users : e # d \/ v # u => queue'[e][v] = queue[e][v]
      /\ queue' = [e \in Devices |-> [v \in Users |-> queue'[e][v]]]
  BY <1>1 DEF QueueOK, Dequeue
<1>4. u' = u
  OBVIOUS
<1> HIDE DEF u
<1>5. \A i : i \in 1 .. n - 1 <=> i \in Nat \ {0} /\ i + 1 \in 1 .. n
  BY <1>2
<1>6. QueueOK'
  <2>1. \A e \in Devices, v \in Users : IsSeq(queue'[e][v])
    BY <1>2, <1>3 DEF QueueOK
  <2> QED
    BY <1>3, <2>1 DEF QueueOK
<1>7. \A i, x : QueueHas(d, u, i, x)' <=> i \in Nat \ {0} /\ QueueHas(d, u, i + 1, x)
  <2>1. \A i, x : i \in DOMAIN Tail(q) /\ Tail(q)[i] = x
                  <=> i \in Nat \ {0} /\ i + 1 \in DOMAIN q /\ q[i + 1] = x
    BY <1>2, <1>5
  <2> QED
    BY <1>3, <1>4, <2>1 DEF QueueHas
<1>8. \A e \in Devices, v \in Users : e # d \/ v # u =>
        \A i, x : QueueHas(e, v, i, x)' <=> QueueHas(e, v, i, x)
  BY <1>3 DEF QueueHas
<1>9. QueueHas(d, u, 1, Head(q)) /\ \A i, x : QueueHas(d, u, i, x) => i \in Nat \ {0}
  BY <1>2 DEF QueueHas
<1> QED
  BY <1>1, <1>6, <1>7, <1>8, <1>9 DEF u

-----------------------------------------------------------------------------
(* What the writes' places say only depends on these variables.            *)
writeVars == <<serverLog, queue, writer, worker, issued, rejected, lost>>

LEMMA WritesFrame == WritesInv /\ UNCHANGED writeVars => WritesInv'
BY DEF WritesInv, writeVars, WorkerOK, QueueOK, LogsOK, PlacesOK, FatesOK, Placed, WorkerHas,
       QueueHas, Issued, Committed, TaskFits

(* A task that is no write joins a worker queue.                           *)
LEMMA OtherTaskEnqueued ==
  ASSUME WritesInv, NEW d \in Devices, NEW t, t.task # "write", TaskFits(t), Enqueue(d, t),
         UNCHANGED <<serverLog, queue, writer, issued, rejected, lost>>
  PROVE  WritesInv'
<1>1. /\ WorkerOK'
      /\ \A e \in Devices : \A i, doc : WorkerHas(e, i, doc)' <=> WorkerHas(e, i, doc)
  <2>1. \A doc : t # WriteTask(doc)
    BY DEF WriteTask
  <2> QED
    BY <2>1, WorkerAppended DEF WritesInv
<1>2. /\ \A e \in Devices, u \in Users : \A i, doc : QueueHas(e, u, i, doc)' <=> QueueHas(e, u, i, doc)
      /\ Issued' = Issued /\ Committed' = Committed
  BY DEF QueueHas, Issued, Committed
<1>3. QueueOK' /\ LogsOK'
  BY DEF WritesInv, QueueOK, LogsOK
<1>4. PlacesOK'
  BY <1>1, <1>2 DEF WritesInv, PlacesOK
<1>5. FatesOK' /\ \A doc \in Issued' : Placed(doc)'
  BY <1>1, <1>2 DEF WritesInv, FatesOK, Placed
<1> QED
  BY <1>1, <1>3, <1>4, <1>5 DEF WritesInv

(* A task that is no write has run; the user may have changed.             *)
LEMMA OtherTaskRun ==
  ASSUME WritesInv, NEW d \in Devices, worker[d] # <<>>, Head(worker[d]).task # "write",
         worker' = [worker EXCEPT ![d] = Tail(@)], writer' \in [Devices -> Users],
         UNCHANGED <<serverLog, queue, issued, rejected, lost>>
  PROVE  WritesInv'
<1>1. /\ WorkerOK' /\ worker[d][1] = Head(worker[d])
      /\ \A i, doc : WorkerHas(d, i, doc)' <=> i \in Nat \ {0} /\ WorkerHas(d, i + 1, doc)
      /\ \A e \in Devices \ {d} : \A i, doc : WorkerHas(e, i, doc)' <=> WorkerHas(e, i, doc)
  BY WorkerAdvanced DEF WritesInv
<1>2. /\ \A e \in Devices, u \in Users : \A i, doc : QueueHas(e, u, i, doc)' <=> QueueHas(e, u, i, doc)
      /\ Issued' = Issued /\ Committed' = Committed
  BY DEF QueueHas, Issued, Committed
<1>3. QueueOK' /\ LogsOK'
  BY DEF WritesInv, QueueOK, LogsOK
<1>4. \A i, doc : WorkerHas(d, i, doc) =>
        i \in Nat \ {0} /\ (i - 1) + 1 = i /\ i - 1 \in Nat \ {0}
  <2>1. IsSeq(worker[d])
    BY DEF WritesInv, WorkerOK
  <2>2. \A i \in DOMAIN worker[d] : i \in Nat \ {0}
    BY <2>1, Shortened
  <2>3. \A doc : ~WorkerHas(d, 1, doc)
    <3>1. \A doc : WriteTask(doc).task = "write"
      BY DEF WriteTask
    <3> QED
      BY <1>1, <3>1 DEF WorkerHas
  <2> QED
    BY <2>2, <2>3 DEF WorkerHas
<1>5. \A e \in Devices : \A i, doc : WorkerHas(e, i, doc)' =>
        \E j : WorkerHas(e, j, doc) /\ (e = d => i \in Nat /\ j = i + 1) /\ (e # d => j = i)
  BY <1>1
<1>6. PlacesOK'
  <2>1. \A e, f \in Devices : \A i, j, doc : WorkerHas(e, i, doc)' /\ WorkerHas(f, j, doc)' => f = e /\ j = i
    <3> SUFFICES ASSUME NEW e \in Devices, NEW f \in Devices, NEW i, NEW j, NEW doc,
                        WorkerHas(e, i, doc)', WorkerHas(f, j, doc)'
                 PROVE  f = e /\ j = i
      OBVIOUS
    <3>1. PICK k : WorkerHas(e, k, doc) /\ (e = d => i \in Nat /\ k = i + 1) /\ (e # d => k = i)
      BY <1>5
    <3>2. PICK l : WorkerHas(f, l, doc) /\ (f = d => j \in Nat /\ l = j + 1) /\ (f # d => l = j)
      BY <1>5
    <3>3. f = e /\ k = l
      BY <3>1, <3>2 DEF WritesInv, PlacesOK
    <3> QED
      BY <3>1, <3>2, <3>3
  <2>2. ASSUME NEW e \in Devices, NEW i, NEW doc, WorkerHas(e, i, doc)'
        PROVE  /\ doc \in Issued /\ doc \notin Committed \cup rejected \cup lost
               /\ \A f \in Devices, u \in Users : \A j : ~QueueHas(f, u, j, doc)
    BY <1>5, <2>2 DEF WritesInv, PlacesOK
  <2> QED
    BY <1>2, <2>1, <2>2 DEF WritesInv, PlacesOK
<1>7. \A e \in Devices : \A i, doc : WorkerHas(e, i, doc) => \E j : WorkerHas(e, j, doc)'
  BY <1>1, <1>4
<1>8. FatesOK' /\ \A doc \in Issued' : Placed(doc)'
  BY <1>2, <1>7 DEF WritesInv, FatesOK, Placed
<1> QED
  BY <1>1, <1>3, <1>6, <1>8 DEF WritesInv

(* A new write is taken: nobody has written it before.                     *)
LEMMA SetDataPlaces ==
  ASSUME WritesInv, NEW d \in Devices, NEW doc, SetData(d, doc)
  PROVE  WritesInv'
<1>1. /\ doc \notin Issued /\ Enqueue(d, WriteTask(doc))
      /\ UNCHANGED <<serverLog, queue, writer, rejected, lost>>
  BY DEF SetData, storageVars
<1>2. PICK w : w.doc = doc /\ issued' = Append(issued, w)
  BY DEF SetData
<1>3. Issued' = Issued \cup {doc} /\ LogsOK'
  <2>1. PICK S : issued \in Seq(S)
    BY DEF WritesInv, LogsOK, IsSeq
  <2>2. ToSet(issued') = ToSet(issued) \cup {w}
    BY <1>2, <2>1, AppendedLog
  <2>3. IsSeq(issued')
    BY <1>2, <2>1, Appended DEF IsSeq
  <2> QED
    BY <1>1, <1>2, <2>2, <2>3 DEF Issued, WritesInv, LogsOK
<1>4. TaskFits(WriteTask(doc)) /\ \A x : WriteTask(doc) = WriteTask(x) <=> x = doc
  BY DEF TaskFits, WriteTask
<1> DEFINE n == Len(worker[d]) + 1
<1>5. /\ WorkerOK'
      /\ \A e \in Devices : \A i, x :
           WorkerHas(e, i, x)' <=> WorkerHas(e, i, x) \/ (e = d /\ i = n /\ x = doc)
  <2> DEFINE t == WriteTask(doc)
  <2> HIDE DEF t
  <2>1. TaskFits(t) /\ Enqueue(d, t)
    BY <1>1, <1>4 DEF t
  <2>2. /\ WorkerOK'
        /\ \A e \in Devices : \A i, x :
             WorkerHas(e, i, x)' <=> \/ WorkerHas(e, i, x)
                                     \/ e = d /\ i = Len(worker[d]) + 1 /\ t = WriteTask(x)
    BY <2>1, WorkerAppended DEF WritesInv
  <2> QED
    BY <1>4, <2>2 DEF t
<1> HIDE DEF n
<1>6. /\ \A e \in Devices, u \in Users : \A i, x : QueueHas(e, u, i, x)' <=> QueueHas(e, u, i, x)
      /\ Committed' = Committed /\ QueueOK'
  BY <1>1 DEF QueueHas, Committed, WritesInv, QueueOK
<1>7. /\ \A e \in Devices : \A i : ~WorkerHas(e, i, doc)
      /\ \A e \in Devices, u \in Users : \A i : ~QueueHas(e, u, i, doc)
      /\ doc \notin Committed \cup rejected \cup lost
  BY <1>1 DEF WritesInv, PlacesOK, FatesOK
<1>8. PlacesOK'
  BY <1>1, <1>3, <1>5, <1>6, <1>7 DEF WritesInv, PlacesOK
<1>9. FatesOK'
  BY <1>1, <1>3, <1>6 DEF WritesInv, FatesOK
<1>10. \A x \in Issued' : Placed(x)'
  BY <1>1, <1>3, <1>5, <1>6 DEF WritesInv, Placed
<1> QED
  BY <1>3, <1>5, <1>6, <1>8, <1>9, <1>10 DEF WritesInv

(* A write moves from the worker queue into a mutation queue.              *)
LEMMA RunWriteMoves ==
  ASSUME WritesInv, NEW d \in Devices, RunWrite(d)
  PROVE  LET doc == Head(worker[d]).doc
             u == writer[d]
             n == Len(queue[d][u]) + 1
         IN  /\ WorkerHas(d, 1, doc) /\ u \in Users /\ n \in Nat \ {0}
             /\ \A i, x : QueueHas(d, u, i, x) => i \in Nat /\ i < n
             /\ \A i, x : WorkerHas(d, i, x)' <=> i \in Nat \ {0} /\ WorkerHas(d, i + 1, x)
             /\ \A e \in Devices \ {d} : \A i, x : WorkerHas(e, i, x)' <=> WorkerHas(e, i, x)
             /\ \A e \in Devices, v \in Users : \A i, x :
                  QueueHas(e, v, i, x)'
                    <=> QueueHas(e, v, i, x) \/ (e = d /\ v = u /\ i = n /\ x = doc)
             /\ WorkerOK' /\ QueueOK'
             /\ UNCHANGED <<serverLog, writer, issued, rejected, lost>>
<1> DEFINE doc == Head(worker[d]).doc
           u == writer[d]
           n == Len(queue[d][u]) + 1
<1>1. /\ worker[d] # <<>> /\ Head(worker[d]).task = "write"
      /\ queue' = [queue EXCEPT ![d][writer[d]] = Append(@, doc)]
      /\ worker' = [worker EXCEPT ![d] = Tail(@)]
      /\ UNCHANGED <<serverLog, writer, issued, rejected, lost>>
  BY DEF RunWrite, HeadIs
<1>2. /\ WorkerOK' /\ TaskFits(Head(worker[d])) /\ worker[d][1] = Head(worker[d]) /\ 1 \in DOMAIN worker[d]
      /\ \A i, x : WorkerHas(d, i, x)' <=> i \in Nat \ {0} /\ WorkerHas(d, i + 1, x)
      /\ \A e \in Devices \ {d} : \A i, x : WorkerHas(e, i, x)' <=> WorkerHas(e, i, x)
  BY <1>1, WorkerAdvanced DEF WritesInv
<1>3. WorkerHas(d, 1, doc)
  BY <1>1, <1>2 DEF WorkerHas, TaskFits
<1> HIDE DEF doc
<1>4. /\ QueueOK' /\ u \in Users /\ n \in Nat \ {0}
      /\ DOMAIN queue[d][u] = 1 .. Len(queue[d][u])
      /\ \A e \in Devices, v \in Users : \A i, x :
           QueueHas(e, v, i, x)' <=> QueueHas(e, v, i, x) \/ (e = d /\ v = u /\ i = n /\ x = doc)
  BY <1>1, QueueAppended DEF WritesInv
<1>5. \A i, x : QueueHas(d, u, i, x) => i \in Nat /\ i < n
  <2>1. Len(queue[d][u]) \in Nat
    BY <1>4, Appended DEF WritesInv, QueueOK
  <2>2. \A i \in 1 .. Len(queue[d][u]) : i \in Nat /\ i < n
    BY <2>1
  <2> QED
    BY <1>4, <2>2 DEF QueueHas
<1> QED
  BY <1>1, <1>2, <1>3, <1>4, <1>5 DEF doc

LEMMA RunWritePlaces ==
  ASSUME WritesInv, NEW d \in Devices, RunWrite(d)
  PROVE  WritesInv'
<1> DEFINE doc == Head(worker[d]).doc
           u == writer[d]
           n == Len(queue[d][u]) + 1
<1>1. /\ WorkerHas(d, 1, doc) /\ u \in Users
      /\ \A i, x : WorkerHas(d, i, x)' <=> i \in Nat \ {0} /\ WorkerHas(d, i + 1, x)
      /\ \A e \in Devices \ {d} : \A i, x : WorkerHas(e, i, x)' <=> WorkerHas(e, i, x)
      /\ \A e \in Devices, v \in Users : \A i, x :
           QueueHas(e, v, i, x)' <=> QueueHas(e, v, i, x) \/ (e = d /\ v = u /\ i = n /\ x = doc)
      /\ WorkerOK' /\ QueueOK'
      /\ UNCHANGED <<serverLog, issued, rejected, lost>>
  BY RunWriteMoves
<1> HIDE DEF doc, n, u
<1>2. Issued' = Issued /\ Committed' = Committed /\ LogsOK'
  BY <1>1 DEF Issued, Committed, WritesInv, LogsOK
<1>3. \A e \in Devices : \A i, x : WorkerHas(e, i, x)' =>
        x # doc /\ \E j : WorkerHas(e, j, x) /\ (e = d => i \in Nat /\ j = i + 1) /\ (e # d => j = i)
  <2> SUFFICES ASSUME NEW e \in Devices, NEW i, NEW x, WorkerHas(e, i, x)'
               PROVE  x # doc /\ \E j : WorkerHas(e, j, x) /\ (e = d => i \in Nat /\ j = i + 1) /\ (e # d => j = i)
    OBVIOUS
  <2>1. PICK j : WorkerHas(e, j, x) /\ (e = d => i \in Nat \ {0} /\ j = i + 1) /\ (e # d => j = i)
    BY <1>1
  <2>2. e = d => j # 1
    BY <2>1
  <2>3. x # doc
    BY <1>1, <2>1, <2>2 DEF WritesInv, PlacesOK
  <2> QED
    BY <2>1, <2>3
<1>4. PlacesOK'
  <2>1. \A e, f \in Devices : \A i, j, x : WorkerHas(e, i, x)' /\ WorkerHas(f, j, x)' => f = e /\ j = i
    <3> SUFFICES ASSUME NEW e \in Devices, NEW f \in Devices, NEW i, NEW j, NEW x,
                        WorkerHas(e, i, x)', WorkerHas(f, j, x)'
                 PROVE  f = e /\ j = i
      OBVIOUS
    <3>1. PICK k : WorkerHas(e, k, x) /\ (e = d => i \in Nat /\ k = i + 1) /\ (e # d => k = i)
      BY <1>3
    <3>2. PICK l : WorkerHas(f, l, x) /\ (f = d => j \in Nat /\ l = j + 1) /\ (f # d => l = j)
      BY <1>3
    <3>3. f = e /\ k = l
      BY <3>1, <3>2 DEF WritesInv, PlacesOK
    <3> QED
      BY <3>1, <3>2, <3>3
  <2>2. ASSUME NEW e \in Devices, NEW i, NEW x, WorkerHas(e, i, x)'
        PROVE  /\ x \in Issued /\ x \notin Committed \cup rejected \cup lost
               /\ \A f \in Devices, v \in Users : \A j : ~QueueHas(f, v, j, x)'
    <3>1. PICK j : WorkerHas(e, j, x) /\ x # doc
      BY <1>3, <2>2
    <3> QED
      BY <1>1, <3>1 DEF WritesInv, PlacesOK
  <2>3. ASSUME NEW e \in Devices, NEW v \in Users, NEW i, NEW x, QueueHas(e, v, i, x)'
        PROVE  /\ x \in Issued /\ x \notin rejected \cup lost
               /\ \A f \in Devices, w \in Users : \A j : QueueHas(f, w, j, x)' => f = e /\ w = v /\ j = i
    <3>1. CASE x = doc
      <4>1. \A f \in Devices, w \in Users : \A j : ~QueueHas(f, w, j, x)
        BY <1>1, <3>1 DEF WritesInv, PlacesOK
      <4>2. x \in Issued /\ x \notin rejected \cup lost
        BY <1>1, <3>1 DEF WritesInv, PlacesOK
      <4> QED
        BY <1>1, <2>3, <4>1, <4>2
    <3>2. CASE x # doc
      BY <1>1, <2>3, <3>2 DEF WritesInv, PlacesOK
    <3> QED
      BY <3>1, <3>2
  <2> QED
    BY <1>1, <1>2, <2>1, <2>2, <2>3 DEF PlacesOK
<1>5. FatesOK'
  BY <1>1, <1>2 DEF WritesInv, FatesOK
<1>6. \A x \in Issued' : Placed(x)'
  <2> SUFFICES ASSUME NEW x \in Issued PROVE Placed(x)'
    BY <1>2
  <2>1. CASE x = doc
    BY <1>1, <2>1 DEF Placed
  <2>2. CASE \E e \in Devices : \E i : WorkerHas(e, i, x) /\ x # doc
    <3>1. PICK e \in Devices : \E i : WorkerHas(e, i, x) /\ x # doc
      BY <2>2
    <3>2. PICK i : WorkerHas(e, i, x) /\ x # doc
      BY <3>1
    <3>3. CASE e = d
      <4>1. IsSeq(worker[d]) /\ worker[d] # <<>>
        BY <1>1 DEF WritesInv, WorkerOK, WorkerHas
      <4>2. i \in Nat \ {0}
        BY <3>2, <3>3, <4>1, Shortened DEF WorkerHas
      <4>3. i # 1
        <5>1. \A y, z : WriteTask(y) = WriteTask(z) => y = z
          BY DEF WriteTask
        <5> QED
          BY <1>1, <3>2, <3>3, <5>1 DEF WorkerHas
      <4>4. i - 1 \in Nat \ {0} /\ (i - 1) + 1 = i
        BY <4>2, <4>3
      <4>5. WorkerHas(d, i - 1, x)'
        BY <1>1, <3>2, <3>3, <4>4
      <4> QED
        BY <4>5 DEF Placed
    <3>4. CASE e # d
      BY <1>1, <3>2, <3>4 DEF Placed
    <3> QED
      BY <3>3, <3>4
  <2>3. CASE \E e \in Devices, v \in Users : \E i : QueueHas(e, v, i, x)
    BY <1>1, <2>3 DEF Placed
  <2>4. CASE x \in Committed \cup rejected \cup lost
    BY <1>1, <1>2, <2>4 DEF Placed
  <2> QED
    BY <2>1, <2>2, <2>3, <2>4 DEF WritesInv, Placed
<1> QED
  BY <1>1, <1>2, <1>4, <1>5, <1>6 DEF WritesInv

(* The server commits a write that is in a mutation queue, once.           *)
LEMMA ServerCommitsMoves ==
  ASSUME WritesInv, NEW d \in Devices, ServerCommits(d)
  PROVE  \E doc, i :
           /\ writer[d] \in Users /\ QueueHas(d, writer[d], i, doc) /\ doc \notin Committed
           /\ \A j \in 1 .. i - 1 : queue[d][writer[d]][j] \in Committed
           /\ serverLog' = Append(serverLog, doc)
           /\ Committed' = Committed \cup {doc} /\ LogsOK'
           /\ UNCHANGED <<queue, writer, worker, issued, rejected, lost>>
<1>1. PICK i \in DOMAIN queue[d][writer[d]] :
        LET doc == queue[d][writer[d]][i] IN
          /\ doc \notin Committed
          /\ \A j \in 1 .. i - 1 : queue[d][writer[d]][j] \in Committed
          /\ serverLog' = Append(serverLog, doc)
  BY DEF ServerCommits
<1> DEFINE doc == queue[d][writer[d]][i]
<1>2. UNCHANGED <<queue, writer, worker, issued, rejected, lost>>
  BY DEF ServerCommits
<1>3. QueueHas(d, writer[d], i, doc) /\ writer[d] \in Users
  BY DEF QueueHas, WritesInv, QueueOK
<1> HIDE DEF doc
<1>4. /\ doc \notin Committed /\ serverLog' = Append(serverLog, doc)
      /\ \A j \in 1 .. i - 1 : queue[d][writer[d]][j] \in Committed
  BY <1>1 DEF doc
<1>5. Committed' = Committed \cup {doc} /\ LogsOK'
  <2>1. PICK S : serverLog \in Seq(S)
    BY DEF WritesInv, LogsOK, IsSeq
  <2>2. ToSet(serverLog') = ToSet(serverLog) \cup {doc} /\ IsSeq(serverLog')
    BY <1>4, <2>1, AppendedLog DEF IsSeq
  <2> QED
    BY <1>2, <2>2 DEF Committed, WritesInv, LogsOK
<1> QED
  BY <1>2, <1>3, <1>4, <1>5

LEMMA ServerCommitsPlaces ==
  ASSUME WritesInv, NEW d \in Devices, ServerCommits(d)
  PROVE  WritesInv'
<1>1. PICK doc, i :
        /\ writer[d] \in Users /\ QueueHas(d, writer[d], i, doc) /\ doc \notin Committed
        /\ serverLog' = Append(serverLog, doc)
        /\ Committed' = Committed \cup {doc} /\ LogsOK'
        /\ UNCHANGED <<queue, writer, worker, issued, rejected, lost>>
  BY ServerCommitsMoves
<1>2. /\ \A e \in Devices : \A j, x : WorkerHas(e, j, x)' <=> WorkerHas(e, j, x)
      /\ \A e \in Devices, v \in Users : \A j, x : QueueHas(e, v, j, x)' <=> QueueHas(e, v, j, x)
      /\ Issued' = Issued
  BY <1>1 DEF WorkerHas, QueueHas, Issued
<1>3. WorkerOK' /\ QueueOK'
  BY <1>1 DEF WritesInv, WorkerOK, QueueOK, TaskFits
<1>4. doc \in Issued /\ doc \notin rejected \cup lost /\ \A e \in Devices : \A j : ~WorkerHas(e, j, doc)
  BY <1>1 DEF WritesInv, PlacesOK
<1>5. PlacesOK'
  BY <1>1, <1>2, <1>4 DEF WritesInv, PlacesOK
<1>6. IsInjective(serverLog')
  <2>1. /\ Len(serverLog) \in Nat /\ DOMAIN serverLog = 1 .. Len(serverLog)
        /\ DOMAIN serverLog' = 1 .. Len(serverLog) + 1
        /\ \A j \in 1 .. Len(serverLog) : serverLog'[j] = serverLog[j]
        /\ serverLog'[Len(serverLog) + 1] = doc
    BY <1>1, Appended DEF WritesInv, LogsOK
  <2>2. \A j \in 1 .. Len(serverLog) + 1 : j \in 1 .. Len(serverLog) \/ j = Len(serverLog) + 1
    BY <2>1
  <2>3. \A j \in DOMAIN serverLog : serverLog[j] # doc
    BY <1>1 DEF Committed, ToSet
  <2> QED
    BY <2>1, <2>2, <2>3 DEF WritesInv, FatesOK, IsInjective
<1>7. FatesOK'
  BY <1>1, <1>2, <1>4, <1>6 DEF WritesInv, FatesOK
<1>8. \A x \in Issued' : Placed(x)'
  BY <1>1, <1>2 DEF WritesInv, Placed
<1> QED
  BY <1>1, <1>3, <1>5, <1>7, <1>8 DEF WritesInv

(* The first write of a mutation queue leaves it: the server has committed *)
(* it, or refuses it.                                                      *)
FirstWriteLeaves(d, u, doc) ==
  /\ u = writer[d] /\ QueueHas(d, u, 1, doc) /\ QueueOK'
  /\ \A i, x : QueueHas(d, u, i, x)' <=> i \in Nat \ {0} /\ QueueHas(d, u, i + 1, x)
  /\ \A i, x : QueueHas(d, u, i, x) => i \in Nat \ {0}
  /\ \A e \in Devices, v \in Users : (e # d \/ v # u) =>
       \A i, x : QueueHas(e, v, i, x)' <=> QueueHas(e, v, i, x)
  /\ \/ doc \in Committed /\ rejected' = rejected
     \/ doc \notin Committed /\ rejected' = rejected \cup {doc}
  /\ UNCHANGED <<serverLog, worker, writer, issued, lost>>

LEMMA AnsweredWriteMoves ==
  ASSUME WritesInv, NEW d \in Devices, WriteAcknowledged(d) \/ WriteRejected(d)
  PROVE  \E u \in Users : \E doc : FirstWriteLeaves(d, u, doc)
<1>1. /\ queue[d][writer[d]] # <<>> /\ Dequeue(d)
      /\ UNCHANGED <<serverLog, worker, writer, issued, lost>>
  BY DEF WriteAcknowledged, WriteRejected, mainVars
<1>2. PICK doc : /\ doc = Head(queue[d][writer[d]])
                 /\ \/ doc \in Committed /\ rejected' = rejected
                    \/ doc \notin Committed /\ rejected' = rejected \cup {doc}
  BY DEF WriteAcknowledged, WriteRejected
<1>3. PICK u \in Users : u = writer[d]
  BY DEF WritesInv, QueueOK
<1>4. /\ QueueHas(d, u, 1, doc) /\ QueueOK'
      /\ \A i, x : QueueHas(d, u, i, x)' <=> i \in Nat \ {0} /\ QueueHas(d, u, i + 1, x)
      /\ \A i, x : QueueHas(d, u, i, x) => i \in Nat \ {0}
      /\ \A e \in Devices, v \in Users : (e # d \/ v # u) =>
           \A i, x : QueueHas(e, v, i, x)' <=> QueueHas(e, v, i, x)
  BY <1>1, <1>2, <1>3, QueueAdvanced DEF WritesInv
<1> QED
  BY <1>1, <1>2, <1>3, <1>4 DEF FirstWriteLeaves

LEMMA AnsweredWritePlaces ==
  ASSUME WritesInv, NEW d \in Devices, WriteAcknowledged(d) \/ WriteRejected(d)
  PROVE  WritesInv'
<1>a. PICK u \in Users : \E doc : FirstWriteLeaves(d, u, doc)
  BY AnsweredWriteMoves
<1>b. PICK doc : FirstWriteLeaves(d, u, doc)
  BY <1>a
<1>1. /\ QueueHas(d, u, 1, doc) /\ QueueOK'
      /\ \A i, x : QueueHas(d, u, i, x)' <=> i \in Nat \ {0} /\ QueueHas(d, u, i + 1, x)
      /\ \A i, x : QueueHas(d, u, i, x) => i \in Nat \ {0}
      /\ \A e \in Devices, v \in Users : (e # d \/ v # u) =>
           \A i, x : QueueHas(e, v, i, x)' <=> QueueHas(e, v, i, x)
      /\ \/ doc \in Committed /\ rejected' = rejected
         \/ doc \notin Committed /\ rejected' = rejected \cup {doc}
      /\ UNCHANGED <<serverLog, worker, issued, lost>>
  BY <1>b DEF FirstWriteLeaves
<1> DEFINE Before(e, v, i, j) ==
             /\ (e = d /\ v = u) => (i \in Nat /\ j = i + 1)
             /\ (e # d \/ v # u) => j = i
<1>2. /\ \A e \in Devices : \A i, x : WorkerHas(e, i, x)' <=> WorkerHas(e, i, x)
      /\ Issued' = Issued /\ Committed' = Committed
  BY <1>1 DEF WorkerHas, Issued, Committed
<1>3. WorkerOK' /\ LogsOK'
  BY <1>1 DEF WritesInv, WorkerOK, LogsOK, TaskFits
<1>4. \A e \in Devices, v \in Users : \A i, x : QueueHas(e, v, i, x)' =>
        x # doc /\ \E j : QueueHas(e, v, j, x) /\ Before(e, v, i, j)
  <2> SUFFICES ASSUME NEW e \in Devices, NEW v \in Users, NEW i, NEW x, QueueHas(e, v, i, x)'
               PROVE  x # doc /\ \E j : QueueHas(e, v, j, x) /\ Before(e, v, i, j)
    OBVIOUS
  <2>1. PICK j : QueueHas(e, v, j, x) /\ Before(e, v, i, j) /\ ((e = d /\ v = u) => i # 0)
    BY <1>1
  <2>2. (e = d /\ v = u) => j # 1
    BY <2>1
  <2>3. x # doc
    BY <1>1, <2>1, <2>2 DEF WritesInv, PlacesOK
  <2> QED
    BY <2>1, <2>3
<1>c. \A e \in Devices, v \in Users : \A i, j, k : Before(e, v, i, k) /\ Before(e, v, j, k) => i = j
  OBVIOUS
<1> HIDE DEF Before
<1>5. PlacesOK'
  <2>1. \A e, f \in Devices, v, w \in Users : \A i, j, x :
          QueueHas(e, v, i, x)' /\ QueueHas(f, w, j, x)' => f = e /\ w = v /\ j = i
    <3> SUFFICES ASSUME NEW e \in Devices, NEW f \in Devices, NEW v \in Users, NEW w \in Users,
                        NEW i, NEW j, NEW x, QueueHas(e, v, i, x)', QueueHas(f, w, j, x)'
                 PROVE  f = e /\ w = v /\ j = i
      OBVIOUS
    <3>1. PICK k : QueueHas(e, v, k, x) /\ Before(e, v, i, k)
      BY <1>4
    <3>2. PICK l : QueueHas(f, w, l, x) /\ Before(f, w, j, l)
      BY <1>4
    <3>3. f = e /\ w = v /\ k = l
      BY <3>1, <3>2 DEF WritesInv, PlacesOK
    <3> QED
      BY <1>c, <3>1, <3>2, <3>3
  <2>2. ASSUME NEW e \in Devices, NEW v \in Users, NEW i, NEW x, QueueHas(e, v, i, x)'
        PROVE  x \in Issued /\ x \notin rejected' \cup lost
    BY <1>1, <1>4, <2>2 DEF WritesInv, PlacesOK
  <2>3. ASSUME NEW e \in Devices, NEW i, NEW x, WorkerHas(e, i, x)
        PROVE  /\ x \in Issued /\ x \notin Committed \cup rejected' \cup lost
               /\ \A f \in Devices, v \in Users : \A j : ~QueueHas(f, v, j, x)'
               /\ \A f \in Devices : \A j : WorkerHas(f, j, x) => f = e /\ j = i
    <3>1. x # doc
      BY <1>1, <2>3 DEF WritesInv, PlacesOK
    <3> QED
      BY <1>1, <1>4, <2>3, <3>1 DEF WritesInv, PlacesOK
  <2> QED
    BY <1>1, <1>2, <2>1, <2>2, <2>3 DEF PlacesOK
<1>6. FatesOK'
  <2>1. doc \in Issued /\ doc \notin rejected \cup lost
    BY <1>1 DEF WritesInv, PlacesOK
  <2> QED
    BY <1>1, <1>2, <2>1 DEF WritesInv, FatesOK
<1>7. \A x \in Issued' : Placed(x)'
  <2> SUFFICES ASSUME NEW x \in Issued PROVE Placed(x)'
    BY <1>2
  <2>1. CASE x = doc
    BY <1>1, <1>2, <2>1 DEF Placed
  <2>2. CASE \E e \in Devices, v \in Users : \E i : QueueHas(e, v, i, x) /\ x # doc
    <3>1. PICK e \in Devices, v \in Users : \E i : QueueHas(e, v, i, x) /\ x # doc
      BY <2>2
    <3>2. PICK i : QueueHas(e, v, i, x) /\ x # doc
      BY <3>1
    <3>3. CASE e = d /\ v = u
      <4>1. i \in Nat \ {0} /\ i # 1
        BY <1>1, <3>2, <3>3 DEF QueueHas
      <4>2. i - 1 \in Nat \ {0} /\ (i - 1) + 1 = i
        BY <4>1
      <4>3. QueueHas(d, u, i - 1, x)'
        <5>1. QueueHas(d, u, (i - 1) + 1, x)
          BY <3>2, <3>3, <4>2
        <5> QED
          BY <1>1, <4>2, <5>1
      <4> QED
        BY <4>3 DEF Placed
    <3>4. CASE ~(e = d /\ v = u)
      BY <1>1, <3>2, <3>4 DEF Placed
    <3> QED
      BY <3>3, <3>4
  <2>3. CASE \E e \in Devices : \E i : WorkerHas(e, i, x)
    BY <1>2, <2>3 DEF Placed
  <2>4. CASE x \in Committed \cup rejected \cup lost
    BY <1>1, <1>2, <2>4 DEF Placed
  <2> QED
    BY <2>1, <2>2, <2>3, <2>4 DEF WritesInv, Placed
<1> QED
  BY <1>1, <1>3, <1>5, <1>6, <1>7 DEF WritesInv

(* A process ends: the writes whose tasks had not run are lost.            *)
LEMMA RestartPlaces ==
  ASSUME WritesInv, NEW d \in Devices, NEW user \in Users, Restart(d, user)
  PROVE  WritesInv'
<1> DEFINE gone == {t.doc : t \in {s \in ToSet(worker[d]) : s.task = "write"}}
<1>1. /\ lost' = lost \cup gone /\ worker' = [worker EXCEPT ![d] = <<>>]
      /\ writer' = [writer EXCEPT ![d] = user]
      /\ UNCHANGED <<serverLog, queue, issued, rejected>>
  BY DEF Restart, DropProcess, storageVars
<1>2. \A x : x \in gone <=> \E i : WorkerHas(d, i, x)
  <2>1. \A x : WriteTask(x).task = "write" /\ WriteTask(x).doc = x
    BY DEF WriteTask
  <2>2. \A i \in DOMAIN worker[d] : worker[d][i].task = "write" =>
          worker[d][i] = WriteTask(worker[d][i].doc)
    BY DEF WritesInv, WorkerOK, TaskFits
  <2>3. ASSUME NEW x \in gone PROVE \E i : WorkerHas(d, i, x)
    <3>1. PICK i \in DOMAIN worker[d] : worker[d][i].task = "write" /\ x = worker[d][i].doc
      BY DEF ToSet
    <3> QED
      BY <2>2, <3>1 DEF WorkerHas
  <2>4. ASSUME NEW x, NEW i, WorkerHas(d, i, x) PROVE x \in gone
    <3>1. worker[d][i] \in ToSet(worker[d]) /\ worker[d][i] = WriteTask(x)
      BY <2>4 DEF WorkerHas, ToSet
    <3> QED
      BY <2>1, <3>1
  <2> QED
    BY <2>3, <2>4
<1> HIDE DEF gone
<1>3. /\ WorkerOK' /\ \A i, x : ~WorkerHas(d, i, x)'
      /\ \A e \in Devices \ {d} : \A i, x : WorkerHas(e, i, x)' <=> WorkerHas(e, i, x)
  <2>1. /\ worker'[d] = <<>> /\ \A e \in Devices \ {d} : worker'[e] = worker[e]
        /\ worker' = [e \in Devices |-> worker'[e]]
    BY <1>1 DEF WritesInv, WorkerOK
  <2>2. IsSeq(<<>>) /\ DOMAIN <<>> = {}
    <3>1. <<>> \in Seq({})
      OBVIOUS
    <3> QED
      BY <3>1 DEF IsSeq
  <2> QED
    BY <2>1, <2>2 DEF WritesInv, WorkerOK, WorkerHas, TaskFits
<1>4. /\ \A e \in Devices, v \in Users : \A i, x : QueueHas(e, v, i, x)' <=> QueueHas(e, v, i, x)
      /\ Issued' = Issued /\ Committed' = Committed
  BY <1>1 DEF QueueHas, Issued, Committed
<1>5. QueueOK' /\ LogsOK'
  BY <1>1 DEF WritesInv, QueueOK, LogsOK
<1>6. \A x \in gone : /\ x \in Issued /\ x \notin Committed \cup rejected \cup lost
                      /\ \A e \in Devices, v \in Users : \A j : ~QueueHas(e, v, j, x)
                      /\ \A e \in Devices \ {d} : \A j : ~WorkerHas(e, j, x)
  BY <1>2 DEF WritesInv, PlacesOK
<1>7. \A e \in Devices : \A i, x : WorkerHas(e, i, x)' => WorkerHas(e, i, x) /\ x \notin gone
  BY <1>3, <1>6
<1>8. PlacesOK'
  <2>1. ASSUME NEW e \in Devices, NEW i, NEW x, WorkerHas(e, i, x)'
        PROVE  /\ x \in Issued /\ x \notin Committed \cup rejected \cup lost'
               /\ \A f \in Devices, v \in Users : \A j : ~QueueHas(f, v, j, x)
               /\ \A f \in Devices : \A j : WorkerHas(f, j, x)' => f = e /\ j = i
    BY <1>1, <1>7, <2>1 DEF WritesInv, PlacesOK
  <2>2. ASSUME NEW e \in Devices, NEW v \in Users, NEW i, NEW x, QueueHas(e, v, i, x)
        PROVE  /\ x \in Issued /\ x \notin rejected \cup lost'
               /\ \A f \in Devices, w \in Users : \A j : QueueHas(f, w, j, x) => f = e /\ w = v /\ j = i
    BY <1>1, <1>6, <2>2 DEF WritesInv, PlacesOK
  <2> QED
    BY <1>1, <1>4, <2>1, <2>2 DEF PlacesOK
<1>9. FatesOK'
  BY <1>1, <1>4, <1>6 DEF WritesInv, FatesOK
<1>10. \A x \in Issued' : Placed(x)'
  <2> SUFFICES ASSUME NEW x \in Issued PROVE Placed(x)'
    BY <1>4
  <2>1. CASE \E e \in Devices : \E i : WorkerHas(e, i, x)
    <3>1. PICK e \in Devices : \E i : WorkerHas(e, i, x)
      BY <2>1
    <3>2. PICK i : WorkerHas(e, i, x)
      BY <3>1
    <3>3. CASE e = d
      BY <1>1, <1>2, <3>2, <3>3 DEF Placed
    <3>4. CASE e # d
      BY <1>3, <3>2, <3>4 DEF Placed
    <3> QED
      BY <3>3, <3>4
  <2>2. CASE \E e \in Devices, v \in Users : \E i : QueueHas(e, v, i, x)
    BY <1>4, <2>2 DEF Placed
  <2>3. CASE x \in Committed \cup rejected \cup lost
    BY <1>1, <1>4, <2>3 DEF Placed
  <2> QED
    BY <2>1, <2>2, <2>3 DEF WritesInv, Placed
<1> QED
  BY <1>3, <1>5, <1>8, <1>9, <1>10 DEF WritesInv

-----------------------------------------------------------------------------
(* WritesInv holds at the start ...                                        *)
LEMMA WritesInitInv == FirestoreInit => WritesInv
<1> SUFFICES ASSUME FirestoreInit PROVE WritesInv
  OBVIOUS
<1>1. IsSeq(<<>>) /\ DOMAIN <<>> = {} /\ ToSet(<<>>) = {}
  <2>1. <<>> \in Seq({})
    OBVIOUS
  <2> QED
    BY <2>1 DEF IsSeq, ToSet
<1>2. /\ worker = [d \in Devices |-> <<>>] /\ queue = [d \in Devices |-> [u \in Users |-> <<>>]]
      /\ writer = [d \in Devices |-> Nobody]
      /\ serverLog = <<>> /\ issued = <<>> /\ rejected = {} /\ lost = {}
  BY DEF FirestoreInit
<1>3. WorkerOK /\ QueueOK /\ LogsOK
  BY <1>1, <1>2, FirestoreAssumption DEF WorkerOK, QueueOK, LogsOK
<1>4. /\ \A d \in Devices : \A i, doc : ~WorkerHas(d, i, doc)
      /\ \A d \in Devices, u \in Users : \A i, doc : ~QueueHas(d, u, i, doc)
  BY <1>1, <1>2 DEF WorkerHas, QueueHas
<1>5. Issued = {} /\ Committed = {}
  BY <1>1, <1>2 DEF Issued, Committed
<1>6. PlacesOK
  BY <1>4 DEF PlacesOK
<1>7. FatesOK
  BY <1>1, <1>2, <1>5 DEF FatesOK, IsInjective
<1> QED
  BY <1>3, <1>5, <1>6, <1>7 DEF WritesInv

(* ... and every step keeps it.                                            *)
LEMMA WritesStepInv == WritesInv /\ [FirestoreNext]_firestoreVars => WritesInv'
<1> SUFFICES ASSUME WritesInv, [FirestoreNext]_firestoreVars PROVE WritesInv'
  OBVIOUS
<1>1. CASE UNCHANGED firestoreVars
  <2>1. UNCHANGED writeVars
    BY <1>1 DEF firestoreVars, writeVars
  <2> QED
    BY <2>1, WritesFrame
<1>2. CASE FirestoreNext
  <2>1. PICK d \in Devices : AppStep(d) \/ ClientStep(d)
    BY <1>2 DEF FirestoreNext
  <2>2. ASSUME NEW doc \in Docs, SetData(d, doc) PROVE WritesInv'
    BY <2>2, SetDataPlaces
  <2>3. ASSUME NEW q \in Queries, GetDocuments(d, q) PROVE WritesInv'
    <3>1. PICK get : Enqueue(d, ListenTask(get))
      BY <2>3 DEF GetDocuments
    <3>2. UNCHANGED <<serverLog, queue, writer, issued, rejected, lost>>
      BY <2>3 DEF GetDocuments, storageVars
    <3>3. ListenTask(get).task # "write" /\ TaskFits(ListenTask(get))
      BY DEF ListenTask, TaskFits
    <3> QED
      BY <3>1, <3>2, <3>3, OtherTaskEnqueued
  <2>4. ASSUME NEW u \in Users, CredentialChange(d, u) PROVE WritesInv'
    <3>1. Enqueue(d, UserTask(u)) /\ UNCHANGED <<serverLog, queue, writer, issued, rejected, lost>>
      BY <2>4 DEF CredentialChange, storageVars
    <3>2. UserTask(u).task # "write" /\ TaskFits(UserTask(u))
      BY DEF UserTask, TaskFits
    <3> QED
      BY <3>1, <3>2, OtherTaskEnqueued
  <2>5. CASE Deliver(d)
    <3>1. UNCHANGED <<serverLog, queue, writer, issued, rejected, lost>>
      BY <2>5 DEF Deliver, storageVars
    <3>2. CASE UNCHANGED worker
      BY <3>1, <3>2, WritesFrame DEF writeVars
    <3>3. CASE \E id : Enqueue(d, UnlistenTask(id))
      <4>1. PICK id : Enqueue(d, UnlistenTask(id))
        BY <3>3
      <4>2. UnlistenTask(id).task # "write" /\ TaskFits(UnlistenTask(id))
        BY DEF UnlistenTask, TaskFits
      <4> QED
        BY <3>1, <4>1, <4>2, OtherTaskEnqueued
    <3>4. UNCHANGED worker \/ \E id : Enqueue(d, UnlistenTask(id))
      BY <2>5 DEF Deliver
    <3> QED
      BY <3>2, <3>3, <3>4
  <2>6. ASSUME NEW u \in Users, Restart(d, u) PROVE WritesInv'
    BY <2>6, RestartPlaces
  <2>7. CASE RunWrite(d)
    BY <2>7, RunWritePlaces
  <2>8. CASE RunListen(d) \/ RunUnlisten(d) \/ RunUserChange(d)
    <3>1. /\ worker[d] # <<>> /\ Head(worker[d]).task # "write"
          /\ worker' = [worker EXCEPT ![d] = Tail(@)]
          /\ UNCHANGED <<serverLog, queue, issued, rejected, lost>>
      BY <2>8 DEF RunListen, RunUnlisten, RunUserChange, HeadIs, RegisterGet, storageVars
    <3>2. TaskFits(Head(worker[d])) /\ writer \in [Devices -> Users]
      BY <3>1, WorkerAdvanced DEF WritesInv, QueueOK
    <3>3. writer' \in [Devices -> Users]
      BY <2>8, <3>2 DEF RunListen, RunUnlisten, RunUserChange, HeadIs, RegisterGet, TaskFits
    <3> QED
      BY <3>1, <3>3, OtherTaskRun
  <2>9. CASE ServerCommits(d)
    BY <2>9, ServerCommitsPlaces
  <2>10. CASE WriteAcknowledged(d) \/ WriteRejected(d)
    BY <2>10, AnsweredWritePlaces
  <2>11. CASE \/ WatchAnswers(d) \/ AnswerArrives(d) \/ AnswerLost(d) \/ GoOffline(d)
              \/ ForgetOffline(d) \/ \E q \in Queries : ListenRefused(d, q)
    <3>1. UNCHANGED writeVars
      BY <2>11 DEF WatchAnswers, AnswerArrives, AnswerLost, GoOffline, ForgetOffline,
                   ListenRefused, storageVars, writeVars
    <3> QED
      BY <3>1, WritesFrame
  <2>12. CASE AppStep(d)
    BY <2>2, <2>3, <2>4, <2>5, <2>6, <2>12 DEF AppStep
  <2>13. CASE ClientStep(d)
    BY <2>7, <2>8, <2>9, <2>10, <2>11, <2>13 DEF ClientStep, RunTask
  <2> QED
    BY <2>1, <2>12, <2>13
<1> QED
  BY <1>1, <1>2

(***************************************************************************)
(* A write has one place at a time and one fate.                           *)
(***************************************************************************)
THEOREM WritesInvariant == FirestoreSpec => []WritesInv
<1> QED
  BY WritesInitInv, WritesStepInv, PTL DEF FirestoreSpec

(* In the words of the properties.                                         *)
LEMMA PlacesInWords ==
  ASSUME NEW doc
  PROVE  /\ InWorker(doc) <=> \E d \in Devices : \E i : WorkerHas(d, i, doc)
         /\ InQueue(doc) <=> \E d \in Devices, u \in Users : \E i : QueueHas(d, u, i, doc)
<1>1. \A s, x : x \in ToSet(s) <=> \E i : i \in DOMAIN s /\ s[i] = x
  BY DEF ToSet
<1> QED
  BY <1>1 DEF InWorker, InQueue, WorkerHas, QueueHas

(***************************************************************************)
(* A write that setData has taken is always in a worker queue, in a        *)
(* mutation queue, committed, refused, or lost with the process before its *)
(* task had run: no step of the client, no change of the user and no       *)
(* restart makes one disappear in between.                                 *)
(***************************************************************************)
THEOREM WritesStaySomewhere == FirestoreSpec => []NoWriteVanishes
<1>1. WritesInv => NoWriteVanishes
  BY PlacesInWords DEF WritesInv, Placed, NoWriteVanishes
<1> QED
  BY <1>1, WritesInvariant, PTL

(***************************************************************************)
(* What the server has refused, or a crash has taken, is never committed   *)
(* later, and nothing is committed twice, however often it is resent.      *)
(***************************************************************************)
THEOREM FatesDoNotChange == FirestoreSpec => []FatesAreFinal
<1>1. WritesInv => FatesAreFinal
  BY PlacesInWords DEF WritesInv, FatesOK, PlacesOK, FatesAreFinal
<1> QED
  BY <1>1, WritesInvariant, PTL

-----------------------------------------------------------------------------
(* The order of a user's writes.  A write is made by a device for the user *)
(* whose mutation queue the client will be working with when its task      *)
(* runs: that of the last change of the user before it in the worker       *)
(* queue.                                                                  *)
WrittenAs(k, d, u, doc) ==
  k \in DOMAIN issued /\ issued[k].doc = doc /\ issued[k].device = d /\ issued[k].user = u

TaskAt(d, i, t) == i \in DOMAIN worker[d] /\ worker[d][i] = t

UserAt(d, p, u) ==
  \/ writer[d] = u /\ \A q, t : TaskAt(d, q, t) /\ t.task = "user" => p <= q
  \/ \E q, t : /\ TaskAt(d, q, t) /\ t.task = "user" /\ t.user = u /\ q < p
               /\ \A r, s : TaskAt(d, r, s) /\ s.task = "user" => r <= q \/ p <= r

IssuedOK ==
  /\ \A k, d, u, doc : WrittenAs(k, d, u, doc) => k \in Nat /\ d \in Devices /\ u \in Users
  /\ \A i, j, d, e, u, v, doc : WrittenAs(i, d, u, doc) /\ WrittenAs(j, e, v, doc) => i = j

FiledRight ==
  \A k, d, u, doc : WrittenAs(k, d, u, doc) =>
    /\ \A e \in Devices : \A p : WorkerHas(e, p, doc) => e = d /\ UserAt(d, p, u)
    /\ \A e \in Devices, v \in Users : \A p : QueueHas(e, v, p, doc) => e = d /\ v = u

CommittedBefore(a, b) ==
  \E n \in DOMAIN serverLog : \E m \in 1 .. n - 1 : serverLog[m] = a /\ serverLog[n] = b

(* Of two writes of a user on a device the earlier one is always ahead.    *)
Ahead(d, u, a, b) ==
  /\ \A p, q : WorkerHas(d, p, a) /\ WorkerHas(d, q, b) => p < q
  /\ \A p : WorkerHas(d, p, a) => b \notin Committed /\ \A q : ~QueueHas(d, u, q, b)
  /\ \A p, q : QueueHas(d, u, p, a) /\ QueueHas(d, u, q, b) => p < q
  /\ b \in Committed => a \in rejected \cup lost \/ CommittedBefore(a, b)

InOrder ==
  \A i, j, d, u, a, b : WrittenAs(i, d, u, a) /\ WrittenAs(j, d, u, b) /\ i < j => Ahead(d, u, a, b)

OrderInv == WritesInv /\ IssuedOK /\ FiledRight /\ InOrder

-----------------------------------------------------------------------------
(* The places are numbers; a write somebody has made is issued.            *)
LEMMA PlacesAreNumbers ==
  ASSUME WritesInv
  PROVE  /\ \A d \in Devices : \A i, t : TaskAt(d, i, t) => i \in Nat \ {0}
         /\ \A d \in Devices : \A i, doc : WorkerHas(d, i, doc) => i \in Nat \ {0} /\ TaskAt(d, i, WriteTask(doc))
         /\ \A d \in Devices, u \in Users : \A i, doc : QueueHas(d, u, i, doc) => i \in Nat \ {0}
         /\ \A k, d, u, doc : WrittenAs(k, d, u, doc) => doc \in Issued
<1>1. \A s : IsSeq(s) => \A i \in DOMAIN s : i \in Nat \ {0}
  <2> SUFFICES ASSUME NEW s, IsSeq(s) PROVE \A i \in DOMAIN s : i \in Nat \ {0}
    OBVIOUS
  <2>1. Len(s) \in Nat /\ DOMAIN s = 1 .. Len(s)
    BY Appended
  <2> QED
    BY <2>1
<1>2. \A k \in DOMAIN issued : issued[k] \in ToSet(issued)
  BY DEF ToSet
<1> QED
  BY <1>1, <1>2 DEF WritesInv, WorkerOK, QueueOK, TaskAt, WorkerHas, QueueHas, WrittenAs, Issued

(* A task more, a task less.                                               *)
LEMMA TaskAdded ==
  ASSUME WorkerOK, NEW d \in Devices, NEW t, Enqueue(d, t)
  PROVE  /\ \A i, s : TaskAt(d, i, s) => i \in Nat /\ i <= Len(worker[d])
         /\ Len(worker[d]) \in Nat
         /\ \A i, s : TaskAt(d, i, s)' <=> TaskAt(d, i, s) \/ (i = Len(worker[d]) + 1 /\ s = t)
         /\ \A e \in Devices \ {d} : \A i, s : TaskAt(e, i, s)' <=> TaskAt(e, i, s)
<1> DEFINE w == worker[d]
           n == Len(w)
<1>1. /\ IsSeq(w) /\ worker'[d] = Append(w, t)
      /\ \A e \in Devices \ {d} : worker'[e] = worker[e]
  BY DEF WorkerOK, Enqueue
<1>2. /\ n \in Nat /\ DOMAIN w = 1 .. n /\ DOMAIN Append(w, t) = 1 .. n + 1
      /\ \A i \in 1 .. n : Append(w, t)[i] = w[i]
      /\ Append(w, t)[n + 1] = t
  BY <1>1, Appended
<1>3. /\ \A i : i \in 1 .. n + 1 <=> i \in 1 .. n \/ i = n + 1
      /\ n + 1 \notin 1 .. n /\ \A i \in 1 .. n : i \in Nat /\ i <= n
  BY <1>2
<1> QED
  BY <1>1, <1>2, <1>3 DEF TaskAt

LEMMA TaskGone ==
  ASSUME WorkerOK, NEW d \in Devices, worker[d] # <<>>, worker' = [worker EXCEPT ![d] = Tail(@)]
  PROVE  /\ TaskAt(d, 1, Head(worker[d]))
         /\ \A i, s : TaskAt(d, i, s)' <=> i \in Nat \ {0} /\ TaskAt(d, i + 1, s)
         /\ \A e \in Devices \ {d} : \A i, s : TaskAt(e, i, s)' <=> TaskAt(e, i, s)
<1> DEFINE w == worker[d]
           n == Len(w)
<1>1. /\ IsSeq(w) /\ worker'[d] = Tail(w)
      /\ \A e \in Devices \ {d} : worker'[e] = worker[e]
  BY DEF WorkerOK
<1>2. /\ n \in Nat \ {0} /\ DOMAIN w = 1 .. n
      /\ Head(w) = w[1] /\ 1 \in DOMAIN w
      /\ DOMAIN Tail(w) = 1 .. n - 1
      /\ \A i \in 1 .. n - 1 : Tail(w)[i] = w[i + 1]
  BY <1>1, Shortened
<1>3. \A i : i \in 1 .. n - 1 <=> i \in Nat \ {0} /\ i + 1 \in 1 .. n
  BY <1>2
<1> QED
  BY <1>1, <1>2, <1>3 DEF TaskAt

(* A task that is added is behind every other: it does not change for whom *)
(* those are run.                                                          *)
LEMMA UserAtAdded ==
  ASSUME WorkerOK, NEW d \in Devices, NEW t, Enqueue(d, t), writer' = writer,
         NEW e \in Devices, NEW p, NEW s, TaskAt(e, p, s), NEW u, UserAt(e, p, u)
  PROVE  UserAt(e, p, u)'
<1>1. CASE e # d
  BY <1>1, TaskAdded DEF UserAt
<1>2. CASE e = d
  <2> DEFINE n == Len(worker[d])
  <2>1. /\ n \in Nat /\ p \in Nat /\ p <= n
        /\ \A i, x : TaskAt(d, i, x)' <=> TaskAt(d, i, x) \/ (i = n + 1 /\ x = t)
    BY <1>2, TaskAdded
  <2> HIDE DEF n
  <2>2. p <= n + 1
    BY <2>1
  <2>3. CASE writer[d] = u /\ \A q, x : TaskAt(d, q, x) /\ x.task = "user" => p <= q
    <3>1. \A q, x : TaskAt(d, q, x)' /\ x.task = "user" => p <= q
      BY <2>1, <2>2, <2>3
    <3> QED
      BY <1>2, <2>3, <3>1 DEF UserAt
  <2>4. ASSUME NEW q, NEW x, TaskAt(d, q, x), x.task = "user", x.user = u, q < p,
               \A r, y : TaskAt(d, r, y) /\ y.task = "user" => r <= q \/ p <= r
        PROVE  UserAt(e, p, u)'
    <3>1. \A r, y : TaskAt(d, r, y)' /\ y.task = "user" => r <= q \/ p <= r
      BY <2>1, <2>2, <2>4
    <3>2. TaskAt(d, q, x)'
      BY <2>1, <2>4
    <3> QED
      BY <1>2, <2>4, <3>1, <3>2 DEF UserAt
  <2> QED
    BY <1>2, <2>3, <2>4 DEF UserAt
<1> QED
  BY <1>1, <1>2

(* A write that is added now is run for UserAhead.                         *)
LEMMA UserAheadIsAhead ==
  ASSUME WorkerOK, QueueOK, NEW d \in Devices
  PROVE  UserAhead(d) \in Users /\ UserAt(d, Len(worker[d]) + 1, UserAhead(d))
<1> DEFINE w == worker[d]
           n == Len(w)
           changes == {i \in DOMAIN w : w[i].task = "user"}
<1>1. n \in Nat /\ DOMAIN w = 1 .. n /\ writer[d] \in Users
  <2>1. IsSeq(w)
    BY DEF WorkerOK
  <2> QED
    BY <2>1, Appended DEF QueueOK
<1>2. UserAhead(d) = IF changes = {} THEN writer[d] ELSE w[Max(changes)].user
  BY DEF UserAhead
<1>3. CASE changes = {}
  <2>1. \A q, t : TaskAt(d, q, t) /\ t.task = "user" => FALSE
    BY <1>3 DEF TaskAt
  <2> QED
    BY <1>1, <1>2, <1>3, <2>1 DEF UserAt
<1>4. CASE changes # {}
  <2> DEFINE last == Max(changes)
  <2>1. last \in changes /\ \A m \in changes : m <= last
    BY <1>1, <1>4, MaxOf
  <2> HIDE DEF last
  <2>2. last \in 1 .. n /\ w[last].task = "user" /\ last < n + 1
    BY <1>1, <2>1
  <2>3. \A r, s : TaskAt(d, r, s) /\ s.task = "user" => r <= last
    BY <2>1 DEF TaskAt
  <2>4. TaskAt(d, last, w[last]) /\ UserAhead(d) = w[last].user
    BY <1>1, <1>2, <1>4, <2>2 DEF TaskAt, last
  <2>5. w[last].user \in Users
    BY <1>1, <2>2 DEF WorkerOK, TaskFits
  <2>6. UserAt(d, n + 1, w[last].user)
    BY <2>2, <2>3, <2>4 DEF UserAt
  <2> QED
    BY <2>4, <2>5, <2>6
<1> QED
  BY <1>3, <1>4

(* The first task gone, the rest is run for the same users: if it changed  *)
(* the user, it has.                                                       *)
LEMMA UserAtShifted ==
  ASSUME WorkerOK, NEW d \in Devices, worker[d] # <<>>, worker' = [worker EXCEPT ![d] = Tail(@)],
         Head(worker[d]).task = "user" => writer'[d] = Head(worker[d]).user,
         Head(worker[d]).task # "user" => writer'[d] = writer[d],
         \A i, t : TaskAt(d, i, t) => i \in Nat \ {0},
         NEW p \in Nat \ {0}, NEW u, UserAt(d, p + 1, u)
  PROVE  UserAt(d, p, u)'
<1>1. /\ TaskAt(d, 1, Head(worker[d]))
      /\ \A i, s : TaskAt(d, i, s)' <=> i \in Nat \ {0} /\ TaskAt(d, i + 1, s)
  BY TaskGone
<1>2. CASE writer[d] = u /\ \A q, t : TaskAt(d, q, t) /\ t.task = "user" => p + 1 <= q
  <2>1. writer'[d] = u
    <3>1. ~(p + 1 <= 1)
      OBVIOUS
    <3> QED
      BY <1>1, <1>2, <3>1
  <2>2. ASSUME NEW q, NEW t, TaskAt(d, q, t)', t.task = "user" PROVE p <= q
    <3>1. q \in Nat \ {0} /\ p + 1 <= q + 1
      BY <1>1, <1>2, <2>2
    <3> QED
      BY <3>1
  <2> QED
    BY <2>1, <2>2 DEF UserAt
<1>3. ASSUME NEW q, NEW t, TaskAt(d, q, t), t.task = "user", t.user = u, q < p + 1,
             \A r, s : TaskAt(d, r, s) /\ s.task = "user" => r <= q \/ p + 1 <= r
      PROVE  UserAt(d, p, u)'
  <2>1. q \in Nat \ {0}
    BY <1>3
  <2>2. CASE q = 1
    <3>1. t = Head(worker[d])
      BY <1>1, <1>3, <2>2 DEF TaskAt
    <3>2. ASSUME NEW r, NEW s, TaskAt(d, r, s)', s.task = "user" PROVE p <= r
      <4>1. r \in Nat \ {0} /\ (r + 1 <= q \/ p + 1 <= r + 1)
        BY <1>1, <1>3, <3>2
      <4> QED
        BY <2>2, <4>1
    <3> QED
      BY <1>3, <3>1, <3>2 DEF UserAt
  <2>3. CASE q # 1
    <3> DEFINE k == q - 1
    <3>1. k \in Nat \ {0} /\ k + 1 = q /\ k < p
      BY <1>3, <2>1, <2>3
    <3> HIDE DEF k
    <3>2. TaskAt(d, k, t)'
      BY <1>1, <1>3, <3>1
    <3>3. ASSUME NEW r, NEW s, TaskAt(d, r, s)', s.task = "user" PROVE r <= k \/ p <= r
      <4>1. r \in Nat \ {0} /\ (r + 1 <= q \/ p + 1 <= r + 1)
        BY <1>1, <1>3, <3>3
      <4> QED
        BY <3>1, <4>1
    <3> QED
      BY <1>3, <3>1, <3>2, <3>3 DEF UserAt
  <2> QED
    BY <2>2, <2>3
<1> QED
  BY <1>2, <1>3 DEF UserAt

-----------------------------------------------------------------------------
(* What the order says only depends on writeVars, too.                     *)
LEMMA OrderFrame == OrderInv /\ UNCHANGED writeVars => OrderInv'
<1> SUFFICES ASSUME OrderInv, UNCHANGED writeVars PROVE OrderInv'
  OBVIOUS
<1>1. WritesInv'
  BY WritesFrame DEF OrderInv
<1>2. /\ UNCHANGED <<serverLog, queue, writer, worker, issued, rejected, lost>>
      /\ Committed' = Committed
  BY DEF writeVars, Committed
<1>3. IssuedOK'
  BY <1>2 DEF OrderInv, IssuedOK, WrittenAs
<1>4. \A d, p, u : UserAt(d, p, u)' <=> UserAt(d, p, u)
  BY <1>2 DEF UserAt, TaskAt
<1>5. FiledRight'
  BY <1>2, <1>4 DEF OrderInv, FiledRight, WrittenAs, WorkerHas, QueueHas
<1>6. InOrder'
  <2>1. \A d, u, a, b : Ahead(d, u, a, b) => Ahead(d, u, a, b)'
    BY <1>2 DEF Ahead, WorkerHas, QueueHas, CommittedBefore
  <2> QED
    BY <1>2, <2>1 DEF OrderInv, InOrder, WrittenAs
<1> QED
  BY <1>1, <1>3, <1>5, <1>6 DEF OrderInv

(* A task that is no write joins a worker queue.                           *)
LEMMA OtherTaskInOrder ==
  ASSUME OrderInv, WritesInv', NEW d \in Devices, NEW t, t.task # "write", TaskFits(t), Enqueue(d, t),
         UNCHANGED <<serverLog, queue, writer, issued, rejected, lost>>
  PROVE  OrderInv'
<1>1. \A e \in Devices : \A i, doc : WorkerHas(e, i, doc)' <=> WorkerHas(e, i, doc)
  <2>1. \A doc : t # WriteTask(doc)
    BY DEF WriteTask
  <2> QED
    BY <2>1, WorkerAppended DEF OrderInv, WritesInv
<1>2. /\ \A e, u : \A i, doc : QueueHas(e, u, i, doc)' <=> QueueHas(e, u, i, doc)
      /\ \A k, e, u, doc : WrittenAs(k, e, u, doc)' <=> WrittenAs(k, e, u, doc)
      /\ \A a, b : CommittedBefore(a, b)' <=> CommittedBefore(a, b)
      /\ Committed' = Committed
  BY DEF QueueHas, WrittenAs, CommittedBefore, Committed
<1>3. IssuedOK'
  BY <1>2 DEF OrderInv, IssuedOK
<1>4. FiledRight'
  <2> SUFFICES ASSUME NEW k, NEW e, NEW u, NEW doc, WrittenAs(k, e, u, doc)
               PROVE  /\ \A f \in Devices : \A p : WorkerHas(f, p, doc)' => f = e /\ UserAt(e, p, u)'
                      /\ \A f \in Devices, v \in Users : \A p : QueueHas(f, v, p, doc)' => f = e /\ v = u
    BY <1>2 DEF FiledRight
  <2>1. ASSUME NEW f \in Devices, NEW p, WorkerHas(f, p, doc)' PROVE f = e /\ UserAt(e, p, u)'
    <3>1. WorkerHas(f, p, doc)
      BY <1>1, <2>1
    <3>2. f = e /\ UserAt(e, p, u)
      BY <3>1 DEF OrderInv, FiledRight
    <3>3. TaskAt(e, p, WriteTask(doc)) /\ e \in Devices
      BY <3>1, <3>2, PlacesAreNumbers DEF OrderInv
    <3> QED
      BY <3>2, <3>3, UserAtAdded DEF OrderInv, WritesInv
  <2> QED
    BY <1>2, <2>1 DEF OrderInv, FiledRight
<1>5. InOrder'
  <2>1. \A e \in Devices : \A u, a, b : Ahead(e, u, a, b) => Ahead(e, u, a, b)'
    BY <1>1, <1>2 DEF Ahead
  <2> QED
    BY <1>2, <2>1 DEF OrderInv, InOrder, IssuedOK
<1> QED
  BY <1>3, <1>4, <1>5 DEF OrderInv

(* A new write goes to the end.                                            *)
LEMMA SetDataInOrder ==
  ASSUME OrderInv, WritesInv', NEW d \in Devices, NEW doc, SetData(d, doc)
  PROVE  OrderInv'
<1>1. /\ doc \notin Issued /\ Enqueue(d, WriteTask(doc))
      /\ UNCHANGED <<serverLog, queue, writer, rejected, lost>>
  BY DEF SetData, storageVars
<1>2. PICK user \in Users : /\ user = UserAhead(d) /\ UserAt(d, Len(worker[d]) + 1, user)
  BY UserAheadIsAhead DEF OrderInv, WritesInv
<1>3. PICK n \in Nat :
        /\ \A k, e, u, x : WrittenAs(k, e, u, x)'
             <=> WrittenAs(k, e, u, x) \/ (k = n + 1 /\ e = d /\ u = user /\ x = doc)
        /\ \A k, e, u, x : WrittenAs(k, e, u, x) => k \in Nat /\ k <= n
  <2> DEFINE w == [doc |-> doc, device |-> d, user |-> user]
             n == Len(issued)
  <2>1. issued' = Append(issued, w) /\ IsSeq(issued)
    BY <1>2 DEF SetData, OrderInv, WritesInv, LogsOK
  <2>2. w.doc = doc /\ w.device = d /\ w.user = user
    OBVIOUS
  <2> HIDE DEF w
  <2>3. /\ n \in Nat /\ DOMAIN issued = 1 .. n /\ DOMAIN issued' = 1 .. n + 1
        /\ \A i \in 1 .. n : issued'[i] = issued[i]
        /\ issued'[n + 1] = w
    BY <2>1, Appended
  <2> HIDE DEF n
  <2>4. /\ \A i : i \in 1 .. n + 1 <=> i \in 1 .. n \/ i = n + 1
        /\ n + 1 \notin 1 .. n /\ \A i \in 1 .. n : i \in Nat /\ i <= n
    BY <2>3
  <2>5. \A k, e, u, x : WrittenAs(k, e, u, x)'
             <=> WrittenAs(k, e, u, x) \/ (k = n + 1 /\ e = d /\ u = user /\ x = doc)
    BY <2>2, <2>3, <2>4 DEF WrittenAs
  <2>6. \A k, e, u, x : WrittenAs(k, e, u, x) => k \in Nat /\ k <= n
    BY <2>3, <2>4 DEF WrittenAs
  <2> QED
    BY <2>3, <2>5, <2>6
<1>4. PICK m \in Nat \ {0} :
        /\ m = Len(worker[d]) + 1
        /\ \A e \in Devices : \A i, x :
             WorkerHas(e, i, x)' <=> WorkerHas(e, i, x) \/ (e = d /\ i = m /\ x = doc)
        /\ \A i, x : WorkerHas(d, i, x) => i < m
  <2>1. TaskFits(WriteTask(doc)) /\ \A x : WriteTask(doc) = WriteTask(x) <=> x = doc
    BY DEF TaskFits, WriteTask
  <2> DEFINE t == WriteTask(doc)
             m == Len(worker[d]) + 1
  <2> HIDE DEF t
  <2>2. TaskFits(t) /\ Enqueue(d, t)
    BY <1>1, <2>1 DEF t
  <2>3. /\ m \in Nat \ {0}
        /\ \A e \in Devices : \A i, x :
             WorkerHas(e, i, x)' <=> WorkerHas(e, i, x) \/ (e = d /\ i = m /\ t = WriteTask(x))
    BY <2>2, WorkerAppended DEF OrderInv, WritesInv
  <2>4. \A i, x : WorkerHas(d, i, x) => i < m
    <3>1. Len(worker[d]) \in Nat /\ \A i, x : TaskAt(d, i, x) => i \in Nat /\ i <= Len(worker[d])
      BY <2>2, TaskAdded DEF OrderInv, WritesInv
    <3>2. \A i, x : WorkerHas(d, i, x) => TaskAt(d, i, WriteTask(x))
      BY PlacesAreNumbers DEF OrderInv
    <3>3. \A i : i \in Nat /\ i <= Len(worker[d]) => i < m
      BY <3>1
    <3> QED
      BY <3>1, <3>2, <3>3
  <2> HIDE DEF m
  <2>5. m = Len(worker[d]) + 1
    BY DEF m
  <2>6. \A e \in Devices : \A i, x :
             WorkerHas(e, i, x)' <=> WorkerHas(e, i, x) \/ (e = d /\ i = m /\ x = doc)
    BY <2>1, <2>3 DEF t
  <2> QED
    BY <2>3, <2>4, <2>5, <2>6
<1>5. /\ \A e, u : \A i, x : QueueHas(e, u, i, x)' <=> QueueHas(e, u, i, x)
      /\ \A a, b : CommittedBefore(a, b)' <=> CommittedBefore(a, b)
      /\ Committed' = Committed
  BY <1>1 DEF QueueHas, CommittedBefore, Committed
<1>6. \A k, e, u : ~WrittenAs(k, e, u, doc)
  BY <1>1, PlacesAreNumbers DEF OrderInv
<1>7. /\ \A e \in Devices : \A p : ~WorkerHas(e, p, doc)
      /\ \A e \in Devices, u \in Users : \A p : ~QueueHas(e, u, p, doc)
      /\ doc \notin Committed
  BY <1>1 DEF OrderInv, WritesInv, PlacesOK, FatesOK
<1>8. IssuedOK'
  <2>1. \A k, e, u, x : WrittenAs(k, e, u, x)' => k \in Nat /\ e \in Devices /\ u \in Users
    BY <1>3 DEF OrderInv, IssuedOK
  <2>2. \A i, j, e, f, u, v, x : WrittenAs(i, e, u, x)' /\ WrittenAs(j, f, v, x)' => i = j
    BY <1>3, <1>6 DEF OrderInv, IssuedOK
  <2> QED
    BY <2>1, <2>2 DEF IssuedOK
<1>9. FiledRight'
  <2>1. UserAt(d, m, user)'
    <3>1. \A q, t : TaskAt(d, q, t)' /\ t.task = "user" => TaskAt(d, q, t)
      <4>1. WriteTask(doc).task # "user"
        BY DEF WriteTask
      <4> QED
        BY <1>1, <4>1, TaskAdded DEF OrderInv, WritesInv
    <3>2. \A q, t : TaskAt(d, q, t) => TaskAt(d, q, t)'
      BY <1>1, TaskAdded DEF OrderInv, WritesInv
    <3> QED
      BY <1>1, <1>2, <1>4, <3>1, <3>2 DEF UserAt
  <2>2. ASSUME NEW k, NEW e, NEW u, NEW x, WrittenAs(k, e, u, x)',
               NEW f \in Devices, NEW p, WorkerHas(f, p, x)'
        PROVE  f = e /\ UserAt(e, p, u)'
    <3>1. CASE x = doc
      BY <1>3, <1>4, <1>6, <1>7, <2>1, <2>2, <3>1
    <3>2. CASE x # doc
      <4>1. WrittenAs(k, e, u, x) /\ WorkerHas(f, p, x)
        BY <1>3, <1>4, <2>2, <3>2
      <4>2. f = e /\ UserAt(e, p, u)
        BY <4>1 DEF OrderInv, FiledRight
      <4>3. TaskAt(e, p, WriteTask(x))
        BY <4>1, <4>2, PlacesAreNumbers DEF OrderInv
      <4> QED
        BY <1>1, <4>2, <4>3, UserAtAdded DEF OrderInv, WritesInv
    <3> QED
      BY <3>1, <3>2
  <2>3. ASSUME NEW k, NEW e, NEW u, NEW x, WrittenAs(k, e, u, x)',
               NEW f \in Devices, NEW v \in Users, NEW p, QueueHas(f, v, p, x)'
        PROVE  f = e /\ v = u
    BY <1>3, <1>5, <1>7, <2>3 DEF OrderInv, FiledRight
  <2> QED
    BY <2>2, <2>3 DEF FiledRight
<1>10. InOrder'
  <2> SUFFICES ASSUME NEW i, NEW j, NEW e, NEW u, NEW a, NEW b,
                      WrittenAs(i, e, u, a)', WrittenAs(j, e, u, b)', i < j
               PROVE  Ahead(e, u, a, b)'
    BY DEF InOrder
  <2>1. WrittenAs(i, e, u, a) /\ a # doc
    <3>1. CASE ~WrittenAs(i, e, u, a)
      <4>1. i = n + 1 /\ j \in Nat /\ (j <= n \/ j = n + 1)
        BY <1>3, <3>1
      <4> QED
        BY <4>1
    <3> QED
      BY <1>6, <3>1
  <2>2. CASE b = doc
    <3>1. \A p, q : WorkerHas(e, p, a)' /\ WorkerHas(e, q, b)' => p < q
      BY <1>4, <1>7, <2>1, <2>2 DEF OrderInv, IssuedOK
    <3>2. b \notin Committed' /\ \A q : ~QueueHas(e, u, q, b)'
      BY <1>5, <1>7, <2>1, <2>2 DEF OrderInv, IssuedOK
    <3> QED
      BY <3>1, <3>2 DEF Ahead
  <2>3. CASE b # doc
    <3>1. WrittenAs(j, e, u, b) /\ e \in Devices
      BY <1>3, <2>3 DEF OrderInv, IssuedOK
    <3>2. Ahead(e, u, a, b)
      BY <2>1, <3>1 DEF OrderInv, InOrder
    <3>3. \A p : /\ WorkerHas(e, p, a)' <=> WorkerHas(e, p, a)
                 /\ WorkerHas(e, p, b)' <=> WorkerHas(e, p, b)
      BY <1>4, <2>1, <2>3, <3>1
    <3> QED
      BY <1>1, <1>5, <3>2, <3>3 DEF Ahead
  <2> QED
    BY <2>2, <2>3
<1> QED
  BY <1>8, <1>9, <1>10 DEF OrderInv

(* The first task of a worker queue has run, and is no write: the others   *)
(* move up.                                                                *)
LEMMA OtherTaskRunInOrder ==
  ASSUME OrderInv, WritesInv', NEW d \in Devices, worker[d] # <<>>, Head(worker[d]).task # "write",
         worker' = [worker EXCEPT ![d] = Tail(@)],
         Head(worker[d]).task = "user" => writer'[d] = Head(worker[d]).user,
         Head(worker[d]).task # "user" => writer'[d] = writer[d],
         \A e \in Devices \ {d} : writer'[e] = writer[e],
         UNCHANGED <<serverLog, queue, issued, rejected, lost>>
  PROVE  OrderInv'
<1>1. /\ \A i, doc : WorkerHas(d, i, doc)' <=> i \in Nat \ {0} /\ WorkerHas(d, i + 1, doc)
      /\ \A e \in Devices \ {d} : \A i, doc : WorkerHas(e, i, doc)' <=> WorkerHas(e, i, doc)
      /\ \A e \in Devices \ {d} : \A i, s : TaskAt(e, i, s)' <=> TaskAt(e, i, s)
  BY WorkerAdvanced, TaskGone DEF OrderInv, WritesInv
<1>2. /\ \A e, u : \A i, doc : QueueHas(e, u, i, doc)' <=> QueueHas(e, u, i, doc)
      /\ \A k, e, u, doc : WrittenAs(k, e, u, doc)' <=> WrittenAs(k, e, u, doc)
      /\ \A a, b : CommittedBefore(a, b)' <=> CommittedBefore(a, b)
      /\ Committed' = Committed
  BY DEF QueueHas, WrittenAs, CommittedBefore, Committed
<1>3. IssuedOK'
  BY <1>2 DEF OrderInv, IssuedOK
<1>4. FiledRight'
  <2> SUFFICES ASSUME NEW k, NEW e, NEW u, NEW doc, WrittenAs(k, e, u, doc)
               PROVE  /\ \A f \in Devices : \A p : WorkerHas(f, p, doc)' => f = e /\ UserAt(e, p, u)'
                      /\ \A f \in Devices, v \in Users : \A p : QueueHas(f, v, p, doc)' => f = e /\ v = u
    BY <1>2 DEF FiledRight
  <2>1. ASSUME NEW f \in Devices, NEW p, WorkerHas(f, p, doc)' PROVE f = e /\ UserAt(e, p, u)'
    <3>1. CASE f = d
      <4>1. p \in Nat \ {0} /\ WorkerHas(d, p + 1, doc)
        BY <1>1, <2>1, <3>1
      <4>2. e = d /\ UserAt(d, p + 1, u)
        BY <4>1 DEF OrderInv, FiledRight
      <4>3. \A i, t : TaskAt(d, i, t) => i \in Nat \ {0}
        BY PlacesAreNumbers DEF OrderInv
      <4>4. WorkerOK
        BY DEF OrderInv, WritesInv
      <4>5. UserAt(d, p, u)'
        BY <4>1, <4>2, <4>3, <4>4, UserAtShifted
      <4> QED
        BY <3>1, <4>2, <4>5
    <3>2. CASE f # d
      <4>1. f = e /\ UserAt(e, p, u)
        BY <1>1, <2>1, <3>2 DEF OrderInv, FiledRight
      <4> QED
        BY <1>1, <3>2, <4>1 DEF UserAt
    <3> QED
      BY <3>1, <3>2
  <2> QED
    BY <1>2, <2>1 DEF OrderInv, FiledRight
<1>5. InOrder'
  <2> SUFFICES ASSUME NEW i, NEW j, NEW e, NEW u, NEW a, NEW b,
                      WrittenAs(i, e, u, a), WrittenAs(j, e, u, b), i < j
               PROVE  Ahead(e, u, a, b)'
    BY <1>2 DEF InOrder
  <2>1. Ahead(e, u, a, b) /\ e \in Devices
    BY DEF OrderInv, InOrder, IssuedOK
  <2>2. CASE e = d
    <3>1. ASSUME NEW p, NEW q, WorkerHas(d, p, a)', WorkerHas(d, q, b)' PROVE p < q
      <4>1. p \in Nat /\ q \in Nat /\ p + 1 < q + 1
        BY <1>1, <2>1, <2>2, <3>1 DEF Ahead
      <4> QED
        BY <4>1
    <3>2. \A p : WorkerHas(d, p, a)' => b \notin Committed /\ \A q : ~QueueHas(d, u, q, b)
      BY <1>1, <2>1, <2>2 DEF Ahead
    <3> QED
      BY <1>2, <2>1, <2>2, <3>1, <3>2 DEF Ahead
  <2>3. CASE e # d
    BY <1>1, <1>2, <2>1, <2>3 DEF Ahead
  <2> QED
    BY <2>2, <2>3
<1> QED
  BY <1>3, <1>4, <1>5 DEF OrderInv

(* A write goes from the head of a worker queue to the end of the mutation *)
(* queue of its user.                                                      *)
LEMMA RunWriteInOrder ==
  ASSUME OrderInv, WritesInv', NEW d \in Devices, RunWrite(d)
  PROVE  OrderInv'
<1>1. PICK u \in Users : u = writer[d]
  BY DEF OrderInv, WritesInv, QueueOK
<1>2. PICK head : head = Head(worker[d]).doc
  OBVIOUS
<1>3. PICK n \in Nat \ {0} :
      /\ WorkerHas(d, 1, head)
      /\ \A i, x : QueueHas(d, u, i, x) => i \in Nat /\ i < n
      /\ \A i, x : WorkerHas(d, i, x)' <=> i \in Nat \ {0} /\ WorkerHas(d, i + 1, x)
      /\ \A e \in Devices \ {d} : \A i, x : WorkerHas(e, i, x)' <=> WorkerHas(e, i, x)
      /\ \A e \in Devices, v \in Users : \A i, x :
           QueueHas(e, v, i, x)' <=> QueueHas(e, v, i, x) \/ (e = d /\ v = u /\ i = n /\ x = head)
      /\ UNCHANGED <<serverLog, writer, issued, rejected, lost>>
  <2> DEFINE m == Len(queue[d][u]) + 1
  <2>1. m \in Nat \ {0}
    BY <1>1, RunWriteMoves DEF OrderInv
  <2>2. WorkerHas(d, 1, head) /\ UNCHANGED <<serverLog, writer, issued, rejected, lost>>
    BY <1>2, RunWriteMoves DEF OrderInv
  <2>3. \A i, x : QueueHas(d, u, i, x) => i \in Nat /\ i < m
    BY <1>1, RunWriteMoves DEF OrderInv
  <2>4. /\ \A i, x : WorkerHas(d, i, x)' <=> i \in Nat \ {0} /\ WorkerHas(d, i + 1, x)
        /\ \A e \in Devices \ {d} : \A i, x : WorkerHas(e, i, x)' <=> WorkerHas(e, i, x)
    BY RunWriteMoves DEF OrderInv
  <2>5. \A e \in Devices, v \in Users : \A i, x :
          QueueHas(e, v, i, x)' <=> QueueHas(e, v, i, x) \/ (e = d /\ v = u /\ i = m /\ x = head)
    BY <1>1, <1>2, RunWriteMoves DEF OrderInv
  <2> HIDE DEF m
  <2> QED
    BY <2>1, <2>2, <2>3, <2>4, <2>5
<1>4. /\ \A e \in Devices \ {d} : \A i, s : TaskAt(e, i, s)' <=> TaskAt(e, i, s)
      /\ worker[d] # <<>> /\ Head(worker[d]).task = "write" /\ worker' = [worker EXCEPT ![d] = Tail(@)]
      /\ TaskAt(d, 1, Head(worker[d]))
  BY TaskGone DEF OrderInv, WritesInv, RunWrite, HeadIs
<1>5. /\ \A k, e, v, x : WrittenAs(k, e, v, x)' <=> WrittenAs(k, e, v, x)
      /\ \A a, b : CommittedBefore(a, b)' <=> CommittedBefore(a, b)
      /\ Committed' = Committed
  BY <1>3 DEF WrittenAs, CommittedBefore, Committed
<1>6. IssuedOK'
  BY <1>5 DEF OrderInv, IssuedOK
<1>7. \A k, e, v : WrittenAs(k, e, v, head) => e = d /\ v = u
  <2> SUFFICES ASSUME NEW k, NEW e, NEW v, WrittenAs(k, e, v, head) PROVE e = d /\ v = u
    OBVIOUS
  <2>1. e = d /\ UserAt(d, 1, v)
    BY <1>3 DEF OrderInv, FiledRight
  <2>2. \A q, t : TaskAt(d, q, t) => ~(q < 1)
    <3>1. \A q \in Nat \ {0} : ~(q < 1)
      OBVIOUS
    <3> QED
      BY <3>1, PlacesAreNumbers DEF OrderInv
  <2> QED
    BY <1>1, <2>1, <2>2 DEF UserAt
<1>8. FiledRight'
  <2> SUFFICES ASSUME NEW k, NEW e, NEW v, NEW x, WrittenAs(k, e, v, x)
               PROVE  /\ \A f \in Devices : \A p : WorkerHas(f, p, x)' => f = e /\ UserAt(e, p, v)'
                      /\ \A f \in Devices, w \in Users : \A p : QueueHas(f, w, p, x)' => f = e /\ w = v
    BY <1>5 DEF FiledRight
  <2>1. ASSUME NEW f \in Devices, NEW p, WorkerHas(f, p, x)' PROVE f = e /\ UserAt(e, p, v)'
    <3>1. CASE f = d
      <4>1. p \in Nat \ {0} /\ WorkerHas(d, p + 1, x)
        BY <1>3, <2>1, <3>1
      <4>2. e = d /\ UserAt(d, p + 1, v)
        BY <4>1 DEF OrderInv, FiledRight
      <4>3. \A i, t : TaskAt(d, i, t) => i \in Nat \ {0}
        BY PlacesAreNumbers DEF OrderInv
      <4>4. WorkerOK
        BY DEF OrderInv, WritesInv
      <4>5. UserAt(d, p, v)'
        BY <1>3, <1>4, <4>1, <4>2, <4>3, <4>4, UserAtShifted
      <4> QED
        BY <3>1, <4>2, <4>5
    <3>2. CASE f # d
      <4>1. f = e /\ UserAt(e, p, v)
        BY <1>3, <2>1, <3>2 DEF OrderInv, FiledRight
      <4> QED
        BY <1>3, <1>4, <3>2, <4>1 DEF UserAt
    <3> QED
      BY <3>1, <3>2
  <2>2. ASSUME NEW f \in Devices, NEW w \in Users, NEW p, QueueHas(f, w, p, x)' PROVE f = e /\ w = v
    BY <1>3, <1>7, <2>2 DEF OrderInv, FiledRight
  <2> QED
    BY <2>1, <2>2
<1>9. InOrder'
  <2> SUFFICES ASSUME NEW i, NEW j, NEW e, NEW v, NEW a, NEW b,
                      WrittenAs(i, e, v, a), WrittenAs(j, e, v, b), i < j
               PROVE  Ahead(e, v, a, b)'
    BY <1>5 DEF InOrder
  <2>1. Ahead(e, v, a, b) /\ e \in Devices /\ v \in Users /\ a # b
    <3>1. Ahead(e, v, a, b) /\ e \in Devices /\ v \in Users /\ i \in Nat
      BY DEF OrderInv, InOrder, IssuedOK
    <3>2. i # j
      BY <3>1
    <3> QED
      BY <3>1, <3>2 DEF OrderInv, IssuedOK
  <2>2. ASSUME NEW p, NEW q, WorkerHas(e, p, a)', WorkerHas(e, q, b)' PROVE p < q
    <3>1. CASE e = d
      <4>1. p \in Nat /\ q \in Nat /\ p + 1 < q + 1
        BY <1>3, <2>1, <2>2, <3>1 DEF Ahead
      <4> QED
        BY <4>1
    <3>2. CASE e # d
      BY <1>3, <2>1, <2>2, <3>2 DEF Ahead
    <3> QED
      BY <3>1, <3>2
  <2>3. ASSUME NEW p, WorkerHas(e, p, a)'
        PROVE  b \notin Committed' /\ \A q : ~QueueHas(e, v, q, b)'
    <3>1. PICK r : WorkerHas(e, r, a)
      BY <1>3, <2>1, <2>3
    <3>2. b \notin Committed /\ \A q : ~QueueHas(e, v, q, b)
      BY <2>1, <3>1 DEF Ahead
    <3>3. ~(e = d /\ b = head)
      <4>1. r \in Nat \ {0}
        BY <2>1, <3>1, PlacesAreNumbers DEF OrderInv
      <4>2. ~(r < 1)
        BY <4>1
      <4> QED
        BY <1>3, <2>1, <3>1, <4>2 DEF Ahead
    <3> QED
      BY <1>3, <1>5, <2>1, <3>2, <3>3
  <2>4. ASSUME NEW p, NEW q, QueueHas(e, v, p, a)', QueueHas(e, v, q, b)' PROVE p < q
    <3>1. CASE QueueHas(e, v, p, a) /\ QueueHas(e, v, q, b)
      BY <2>1, <3>1 DEF Ahead
    <3>2. CASE ~QueueHas(e, v, p, a)
      <4>1. e = d /\ v = u /\ a = head
        BY <1>3, <2>1, <2>4, <3>2
      <4>2. ~QueueHas(e, v, q, b)
        BY <1>3, <2>1, <4>1 DEF Ahead
      <4> QED
        BY <1>3, <2>1, <2>4, <4>1, <4>2
    <3>3. CASE QueueHas(e, v, p, a) /\ ~QueueHas(e, v, q, b)
      <4>1. e = d /\ v = u /\ q = n
        BY <1>3, <2>1, <2>4, <3>3
      <4> QED
        BY <1>3, <3>3, <4>1
    <3> QED
      BY <3>1, <3>2, <3>3
  <2> QED
    BY <1>3, <1>5, <2>1, <2>2, <2>3, <2>4 DEF Ahead
<1> QED
  BY <1>6, <1>8, <1>9 DEF OrderInv

(* The server commits a write only when it has committed what is before it *)
(* in its queue.                                                           *)
LEMMA ServerCommitsInOrder ==
  ASSUME OrderInv, WritesInv', NEW d \in Devices, ServerCommits(d)
  PROVE  OrderInv'
<1>1. PICK u \in Users : u = writer[d]
  BY DEF OrderInv, WritesInv, QueueOK
<1>2. PICK doc, n :
        /\ QueueHas(d, u, n, doc) /\ doc \notin Committed
        /\ \A j \in 1 .. n - 1 : queue[d][u][j] \in Committed
        /\ serverLog' = Append(serverLog, doc)
        /\ Committed' = Committed \cup {doc}
        /\ UNCHANGED <<queue, writer, worker, issued, rejected, lost>>
  BY <1>1, ServerCommitsMoves DEF OrderInv
<1>3. /\ \A e, v : \A i, x : QueueHas(e, v, i, x)' <=> QueueHas(e, v, i, x)
      /\ \A e : \A i, x : WorkerHas(e, i, x)' <=> WorkerHas(e, i, x)
      /\ \A k, e, v, x : WrittenAs(k, e, v, x)' <=> WrittenAs(k, e, v, x)
      /\ \A e, p, v : UserAt(e, p, v)' <=> UserAt(e, p, v)
  BY <1>2 DEF QueueHas, WorkerHas, WrittenAs, UserAt, TaskAt
<1>4. /\ \A a, b : CommittedBefore(a, b) => CommittedBefore(a, b)'
      /\ \A a \in Committed : CommittedBefore(a, doc)'
  <2> DEFINE l == Len(serverLog)
  <2>1. /\ l \in Nat /\ DOMAIN serverLog = 1 .. l /\ DOMAIN serverLog' = 1 .. l + 1
        /\ \A i \in 1 .. l : serverLog'[i] = serverLog[i]
        /\ serverLog'[l + 1] = doc
    BY <1>2, Appended DEF OrderInv, WritesInv, LogsOK
  <2> HIDE DEF l
  <2>2. ASSUME NEW a, NEW b, CommittedBefore(a, b) PROVE CommittedBefore(a, b)'
    <3>1. PICK k \in 1 .. l : \E m \in 1 .. k - 1 : serverLog[m] = a /\ serverLog[k] = b
      BY <2>1, <2>2 DEF CommittedBefore
    <3>2. PICK m \in 1 .. k - 1 : serverLog[m] = a /\ serverLog[k] = b
      BY <3>1
    <3>3. m \in 1 .. l /\ k \in 1 .. l + 1
      BY <2>1
    <3>4. serverLog'[m] = a /\ serverLog'[k] = b
      BY <2>1, <3>2, <3>3
    <3> QED
      BY <2>1, <3>3, <3>4 DEF CommittedBefore
  <2>3. ASSUME NEW a \in Committed PROVE CommittedBefore(a, doc)'
    <3>1. PICK m \in 1 .. l : serverLog[m] = a
      BY <2>1 DEF Committed, ToSet
    <3>2. m \in 1 .. (l + 1) - 1 /\ l + 1 \in 1 .. l + 1
      BY <2>1
    <3>3. serverLog'[m] = a /\ serverLog'[l + 1] = doc
      BY <2>1, <3>1
    <3> QED
      BY <2>1, <3>2, <3>3 DEF CommittedBefore
  <2> QED
    BY <2>2, <2>3
<1>5. IssuedOK' /\ FiledRight'
  BY <1>3 DEF OrderInv, IssuedOK, FiledRight
<1>6. InOrder'
  <2> SUFFICES ASSUME NEW i, NEW j, NEW e, NEW v, NEW a, NEW b,
                      WrittenAs(i, e, v, a), WrittenAs(j, e, v, b), i < j
               PROVE  Ahead(e, v, a, b)'
    BY <1>3 DEF InOrder
  <2>1. Ahead(e, v, a, b) /\ e \in Devices /\ v \in Users
    BY DEF OrderInv, InOrder, IssuedOK
  <2>2. b = doc => e = d /\ v = u
    BY <1>2 DEF OrderInv, FiledRight
  <2>3. \A p : WorkerHas(e, p, a) => b \notin Committed' /\ \A q : ~QueueHas(e, v, q, b)
    BY <1>2, <2>1, <2>2 DEF Ahead
  <2>4. b \in Committed' => a \in rejected' \cup lost' \/ CommittedBefore(a, b)'
    <3>1. CASE b # doc
      BY <1>2, <1>4, <2>1, <3>1 DEF Ahead
    <3>2. CASE b = doc
      <4>1. Placed(a) /\ \A p : ~WorkerHas(e, p, a)
        <5>1. a \in Issued
          BY PlacesAreNumbers DEF OrderInv
        <5> QED
          BY <1>2, <2>1, <2>2, <3>2, <5>1 DEF OrderInv, WritesInv, Ahead
      <4>2. CASE \E f \in Devices, w \in Users : \E p : QueueHas(f, w, p, a)
        <5>1. PICK f \in Devices, w \in Users : \E p : QueueHas(f, w, p, a)
          BY <4>2
        <5>2. PICK p : QueueHas(f, w, p, a)
          BY <5>1
        <5>3. f = d /\ w = u
          BY <2>2, <3>2, <5>2 DEF OrderInv, FiledRight
        <5>4. p < n /\ p \in Nat \ {0} /\ n \in Nat \ {0}
          BY <1>2, <2>1, <2>2, <3>2, <5>2, <5>3, PlacesAreNumbers DEF OrderInv, Ahead
        <5>5. p \in 1 .. n - 1
          BY <5>4
        <5>6. a \in Committed
          BY <1>2, <5>2, <5>3, <5>5 DEF QueueHas
        <5> QED
          BY <1>4, <3>2, <5>6
      <4>3. CASE a \in Committed \cup rejected \cup lost
        BY <1>2, <1>4, <3>2, <4>3
      <4>4. \A f \in Devices : \A p : ~WorkerHas(f, p, a)
        BY <4>1 DEF OrderInv, FiledRight
      <4> QED
        BY <4>1, <4>2, <4>3, <4>4 DEF Placed
    <3> QED
      BY <3>1, <3>2
  <2> QED
    BY <1>3, <2>1, <2>3, <2>4 DEF Ahead
<1> QED
  BY <1>5, <1>6 DEF OrderInv

(* A mutation queue loses its first write.                                 *)
LEMMA AnsweredWriteInOrder ==
  ASSUME OrderInv, WritesInv', NEW d \in Devices, WriteAcknowledged(d) \/ WriteRejected(d)
  PROVE  OrderInv'
<1>1. PICK u \in Users : \E doc : FirstWriteLeaves(d, u, doc)
  BY AnsweredWriteMoves DEF OrderInv
<1>2. PICK doc : FirstWriteLeaves(d, u, doc)
  BY <1>1
<1>3. /\ \A i, x : QueueHas(d, u, i, x)' <=> i \in Nat \ {0} /\ QueueHas(d, u, i + 1, x)
      /\ \A e \in Devices, v \in Users : (e # d \/ v # u) =>
           \A i, x : QueueHas(e, v, i, x)' <=> QueueHas(e, v, i, x)
      /\ rejected \subseteq rejected'
      /\ UNCHANGED <<serverLog, worker, writer, issued, lost>>
  BY <1>2 DEF FirstWriteLeaves
<1>4. /\ \A e : \A i, x : WorkerHas(e, i, x)' <=> WorkerHas(e, i, x)
      /\ \A k, e, v, x : WrittenAs(k, e, v, x)' <=> WrittenAs(k, e, v, x)
      /\ \A e, p, v : UserAt(e, p, v)' <=> UserAt(e, p, v)
      /\ \A a, b : CommittedBefore(a, b)' <=> CommittedBefore(a, b)
      /\ Committed' = Committed
  BY <1>3 DEF WorkerHas, WrittenAs, UserAt, TaskAt, CommittedBefore, Committed
<1>5. IssuedOK'
  BY <1>4 DEF OrderInv, IssuedOK
<1>6. \A e \in Devices, v \in Users : \A i, x : QueueHas(e, v, i, x)' => \E k : QueueHas(e, v, k, x)
  BY <1>3
<1>7. FiledRight'
  BY <1>4, <1>6 DEF OrderInv, FiledRight
<1>8. InOrder'
  <2> SUFFICES ASSUME NEW i, NEW j, NEW e, NEW v, NEW a, NEW b,
                      WrittenAs(i, e, v, a), WrittenAs(j, e, v, b), i < j
               PROVE  Ahead(e, v, a, b)'
    BY <1>4 DEF InOrder
  <2>1. Ahead(e, v, a, b) /\ e \in Devices /\ v \in Users
    BY DEF OrderInv, InOrder, IssuedOK
  <2>2. ASSUME NEW p, NEW q, QueueHas(e, v, p, a)', QueueHas(e, v, q, b)' PROVE p < q
    <3>1. CASE e = d /\ v = u
      <4>1. p \in Nat /\ q \in Nat /\ p + 1 < q + 1
        BY <1>3, <2>1, <2>2, <3>1 DEF Ahead
      <4> QED
        BY <4>1
    <3>2. CASE e # d \/ v # u
      BY <1>3, <2>1, <2>2, <3>2 DEF Ahead
    <3> QED
      BY <3>1, <3>2
  <2> QED
    BY <1>3, <1>4, <1>6, <2>1, <2>2 DEF Ahead
<1> QED
  BY <1>5, <1>7, <1>8 DEF OrderInv

(* A worker queue is lost.                                                 *)
LEMMA RestartInOrder ==
  ASSUME OrderInv, WritesInv', NEW d \in Devices, NEW user \in Users, Restart(d, user)
  PROVE  OrderInv'
<1>1. /\ worker' = [worker EXCEPT ![d] = <<>>] /\ writer' = [writer EXCEPT ![d] = user]
      /\ lost \subseteq lost'
      /\ UNCHANGED <<serverLog, queue, issued, rejected>>
  BY DEF Restart, DropProcess, storageVars
<1>2. /\ worker'[d] = <<>>
      /\ \A e \in Devices \ {d} : worker'[e] = worker[e] /\ writer'[e] = writer[e]
  BY <1>1 DEF OrderInv, WritesInv, WorkerOK, QueueOK
<1>3. /\ \A e \in Devices : \A i, x : WorkerHas(e, i, x)' => e # d /\ WorkerHas(e, i, x)
      /\ \A e \in Devices \ {d} : \A p, v : UserAt(e, p, v)' <=> UserAt(e, p, v)
  <2>1. DOMAIN <<>> = {}
    OBVIOUS
  <2> QED
    BY <1>2, <2>1 DEF WorkerHas, UserAt, TaskAt
<1>4. /\ \A e, v : \A i, x : QueueHas(e, v, i, x)' <=> QueueHas(e, v, i, x)
      /\ \A k, e, v, x : WrittenAs(k, e, v, x)' <=> WrittenAs(k, e, v, x)
      /\ \A a, b : CommittedBefore(a, b)' <=> CommittedBefore(a, b)
      /\ Committed' = Committed
  BY <1>1 DEF QueueHas, WrittenAs, CommittedBefore, Committed
<1>5. IssuedOK'
  BY <1>4 DEF OrderInv, IssuedOK
<1>6. FiledRight'
  BY <1>3, <1>4 DEF OrderInv, FiledRight
<1>7. InOrder'
  <2>1. \A e \in Devices : \A v, a, b : Ahead(e, v, a, b) => Ahead(e, v, a, b)'
    BY <1>1, <1>3, <1>4 DEF Ahead
  <2> QED
    BY <1>4, <2>1 DEF OrderInv, InOrder, IssuedOK
<1> QED
  BY <1>5, <1>6, <1>7 DEF OrderInv

-----------------------------------------------------------------------------
(* OrderInv holds at the start ...                                         *)
LEMMA OrderInitInv == FirestoreInit => OrderInv
<1> SUFFICES ASSUME FirestoreInit PROVE OrderInv
  OBVIOUS
<1>1. \A k, d, u, doc : ~WrittenAs(k, d, u, doc)
  <2>1. issued = <<>> /\ DOMAIN <<>> = {}
    BY DEF FirestoreInit
  <2> QED
    BY <2>1 DEF WrittenAs
<1> QED
  BY <1>1, WritesInitInv DEF OrderInv, IssuedOK, FiledRight, InOrder

(* ... and every step keeps it.                                            *)
LEMMA OrderStepInv == OrderInv /\ [FirestoreNext]_firestoreVars => OrderInv'
<1> SUFFICES ASSUME OrderInv, [FirestoreNext]_firestoreVars PROVE OrderInv'
  OBVIOUS
<1>1. WritesInv'
  BY WritesStepInv DEF OrderInv
<1>2. CASE UNCHANGED firestoreVars
  <2>1. UNCHANGED writeVars
    BY <1>2 DEF firestoreVars, writeVars
  <2> QED
    BY <2>1, OrderFrame
<1>3. CASE FirestoreNext
  <2>1. PICK d \in Devices : AppStep(d) \/ ClientStep(d)
    BY <1>3 DEF FirestoreNext
  <2>2. ASSUME NEW doc \in Docs, SetData(d, doc) PROVE OrderInv'
    BY <1>1, <2>2, SetDataInOrder
  <2>3. ASSUME NEW q \in Queries, GetDocuments(d, q) PROVE OrderInv'
    <3>1. PICK get : Enqueue(d, ListenTask(get))
      BY <2>3 DEF GetDocuments
    <3>2. UNCHANGED <<serverLog, queue, writer, issued, rejected, lost>>
      BY <2>3 DEF GetDocuments, storageVars
    <3>3. ListenTask(get).task # "write" /\ TaskFits(ListenTask(get))
      BY DEF ListenTask, TaskFits
    <3> QED
      BY <1>1, <3>1, <3>2, <3>3, OtherTaskInOrder
  <2>4. ASSUME NEW u \in Users, CredentialChange(d, u) PROVE OrderInv'
    <3>1. Enqueue(d, UserTask(u)) /\ UNCHANGED <<serverLog, queue, writer, issued, rejected, lost>>
      BY <2>4 DEF CredentialChange, storageVars
    <3>2. UserTask(u).task # "write" /\ TaskFits(UserTask(u))
      BY DEF UserTask, TaskFits
    <3> QED
      BY <1>1, <3>1, <3>2, OtherTaskInOrder
  <2>5. CASE Deliver(d)
    <3>1. UNCHANGED <<serverLog, queue, writer, issued, rejected, lost>>
      BY <2>5 DEF Deliver, storageVars
    <3>2. CASE UNCHANGED worker
      BY <3>1, <3>2, OrderFrame DEF writeVars
    <3>3. CASE \E id : Enqueue(d, UnlistenTask(id))
      <4>1. PICK id : Enqueue(d, UnlistenTask(id))
        BY <3>3
      <4>2. UnlistenTask(id).task # "write" /\ TaskFits(UnlistenTask(id))
        BY DEF UnlistenTask, TaskFits
      <4> QED
        BY <1>1, <3>1, <4>1, <4>2, OtherTaskInOrder
    <3>4. UNCHANGED worker \/ \E id : Enqueue(d, UnlistenTask(id))
      BY <2>5 DEF Deliver
    <3> QED
      BY <3>2, <3>3, <3>4
  <2>6. ASSUME NEW u \in Users, Restart(d, u) PROVE OrderInv'
    BY <1>1, <2>6, RestartInOrder
  <2>7. CASE RunWrite(d)
    BY <1>1, <2>7, RunWriteInOrder
  <2>8. CASE RunListen(d) \/ RunUnlisten(d) \/ RunUserChange(d)
    <3>1. /\ worker[d] # <<>> /\ Head(worker[d]).task # "write"
          /\ worker' = [worker EXCEPT ![d] = Tail(@)]
          /\ UNCHANGED <<serverLog, queue, issued, rejected, lost>>
      BY <2>8 DEF RunListen, RunUnlisten, RunUserChange, HeadIs, RegisterGet, storageVars
    <3>2. writer \in [Devices -> Users]
      BY DEF OrderInv, WritesInv, QueueOK
    <3>3. /\ Head(worker[d]).task = "user" => writer'[d] = Head(worker[d]).user
          /\ Head(worker[d]).task # "user" => writer'[d] = writer[d]
          /\ \A e \in Devices \ {d} : writer'[e] = writer[e]
      BY <2>8, <3>2 DEF RunListen, RunUnlisten, RunUserChange, HeadIs, RegisterGet
    <3> QED
      BY <1>1, <3>1, <3>3, OtherTaskRunInOrder
  <2>9. CASE ServerCommits(d)
    BY <1>1, <2>9, ServerCommitsInOrder
  <2>10. CASE WriteAcknowledged(d) \/ WriteRejected(d)
    BY <1>1, <2>10, AnsweredWriteInOrder
  <2>11. CASE \/ WatchAnswers(d) \/ AnswerArrives(d) \/ AnswerLost(d) \/ GoOffline(d)
              \/ ForgetOffline(d) \/ \E q \in Queries : ListenRefused(d, q)
    <3>1. UNCHANGED writeVars
      BY <2>11 DEF WatchAnswers, AnswerArrives, AnswerLost, GoOffline, ForgetOffline,
                   ListenRefused, storageVars, writeVars
    <3> QED
      BY <3>1, OrderFrame
  <2>12. CASE AppStep(d)
    BY <2>2, <2>3, <2>4, <2>5, <2>6, <2>12 DEF AppStep
  <2>13. CASE ClientStep(d)
    BY <2>7, <2>8, <2>9, <2>10, <2>11, <2>13 DEF ClientStep, RunTask
  <2> QED
    BY <2>1, <2>12, <2>13
<1> QED
  BY <1>2, <1>3

(***************************************************************************)
(* A write is filed with the user it was made for, and stays ahead of the  *)
(* later ones of that user wherever both are.                              *)
(***************************************************************************)
THEOREM OrderInvariant == FirestoreSpec => []OrderInv
<1> QED
  BY OrderInitInv, OrderStepInv, PTL DEF FirestoreSpec

(***************************************************************************)
(* The server commits a user's writes of one device in the order in which  *)
(* the app made them; what it commits out of turn it has refused or a      *)
(* process has lost before.  Changing the user with writes still in the    *)
(* worker queue, and restarting, do not break it.                          *)
(***************************************************************************)
THEOREM WritesReachTheServerInOrder == FirestoreSpec => []CommittedInOrder
<1>1. OrderInv => CommittedInOrder
  <2> SUFFICES ASSUME OrderInv, NEW j \in DOMAIN issued, NEW i \in 1 .. j - 1,
                      issued[i].device = issued[j].device, issued[i].user = issued[j].user,
                      issued[j].doc \in Committed
               PROVE  \/ issued[i].doc \in rejected \cup lost
                      \/ CommittedBefore(issued[i].doc, issued[j].doc)
    BY DEF CommittedInOrder, CommittedBefore
  <2>1. Len(issued) \in Nat /\ DOMAIN issued = 1 .. Len(issued)
    BY Appended DEF OrderInv, WritesInv, LogsOK
  <2>2. i \in DOMAIN issued /\ i < j
    BY <2>1
  <2> DEFINE d == issued[j].device
             u == issued[j].user
             a == issued[i].doc
             b == issued[j].doc
  <2>3. WrittenAs(i, d, u, a) /\ WrittenAs(j, d, u, b)
    BY <2>2 DEF WrittenAs
  <2> HIDE DEF d, u, a, b
  <2>4. Ahead(d, u, a, b)
    BY <2>2, <2>3 DEF OrderInv, InOrder
  <2> QED
    BY <2>4 DEF Ahead, a, b
<1> QED
  BY <1>1, OrderInvariant, PTL

-----------------------------------------------------------------------------
(* The types.                                                              *)
LEMMA TaskTypes ==
  /\ \A doc \in Docs : WriteTask(doc) \in Task
  /\ \A get \in Get : ListenTask(get) \in Task
  /\ \A id \in Nat \ {0} : UnlistenTask(id) \in Task
  /\ \A user \in Users : UserTask(user) \in Task
  /\ \A t \in Task : /\ t.task = "write" => t.doc \in Docs
                     /\ t.task = "listen" => t.get \in Get
                     /\ t.task = "unlisten" => t.id \in Nat \ {0}
                     /\ t.task = "user" => t.user \in Users
BY DEF WriteTask, ListenTask, UnlistenTask, UserTask, Task

LEMMA Elements ==
  ASSUME NEW S, NEW s \in Seq(S)
  PROVE  /\ IsSeq(s) /\ ToSet(s) \subseteq S /\ \A i \in DOMAIN s : s[i] \in S
         /\ s # <<>> => Head(s) \in S /\ Tail(s) \in Seq(S) /\ Head(s) \in ToSet(s) /\ ToSet(Tail(s)) \subseteq ToSet(s)
         /\ \A T : Select(s, T) \in Seq(S) /\ ToSet(Select(s, T)) = ToSet(s) \cap T
<1>1. IsSeq(s) /\ ToSet(s) \subseteq S /\ \A i \in DOMAIN s : s[i] \in S
  BY DEF IsSeq, ToSet
<1>2. ASSUME s # <<>>
      PROVE  Head(s) \in S /\ Tail(s) \in Seq(S) /\ Head(s) \in ToSet(s) /\ ToSet(Tail(s)) \subseteq ToSet(s)
  <2>1. Head(s) \in S /\ Tail(s) \in Seq(S)
    BY <1>2
  <2>2. /\ Len(s) \in Nat \ {0} /\ DOMAIN s = 1 .. Len(s)
        /\ Head(s) = s[1] /\ 1 \in DOMAIN s
        /\ DOMAIN Tail(s) = 1 .. Len(s) - 1
        /\ \A i \in 1 .. Len(s) - 1 : Tail(s)[i] = s[i + 1]
    BY <1>1, <1>2, Shortened
  <2>3. \A i \in 1 .. Len(s) - 1 : i + 1 \in 1 .. Len(s)
    BY <2>2
  <2> QED
    BY <2>1, <2>2, <2>3 DEF ToSet
<1>3. ASSUME NEW T PROVE Select(s, T) \in Seq(S) /\ ToSet(Select(s, T)) = ToSet(s) \cap T
  <2> DEFINE r == Select(s, T)
  <2>1. IsSeq(r) /\ Len(r) \in Nat /\ DOMAIN r = 1 .. Len(r)
    BY <1>1, Selected, Appended
  <2>2. ToSet(r) = ToSet(s) \cap T
    BY <1>1, SelectedElements
  <2>3. \A i \in 1 .. Len(r) : r[i] \in S
    BY <1>1, <2>1, <2>2 DEF ToSet
  <2>4. PICK R : r \in Seq(R)
    BY <2>1 DEF IsSeq
  <2>5. r = [i \in 1 .. Len(r) |-> r[i]]
    BY <2>1, <2>4
  <2> HIDE DEF r
  <2>6. r \in [1 .. Len(r) -> S]
    BY <2>3, <2>5
  <2>7. r \in Seq(S)
    BY <2>1, <2>6
  <2> QED
    BY <2>2, <2>7 DEF r
<1> QED
  BY <1>1, <1>2, <1>3

LEMMA MatchingTypes ==
  /\ \A q \in Queries : Matching[q] \subseteq Docs
  /\ Nobody \in Users
BY FirestoreAssumption

(* A get that waits and now has its documents.                             *)
LEMMA RaiseTypes ==
  ASSUME FirestoreTypeOK, NEW d \in Devices, NEW queries, NEW view,
         \A q \in queries : view[q] \subseteq Docs, RaiseWaiting(d, queries, view)
  PROVE  /\ callbacks' \in [Devices -> Seq(Callback)]
         /\ listeners' \in [Devices -> Seq(Get)]
<1> DEFINE waiting == Select(listeners[d], {get \in ToSet(listeners[d]) : ~get.raised /\ get.query \in queries})
           due == [i \in DOMAIN waiting |-> CallbackFor(waiting[i], view[waiting[i].query])]
           told == [i \in DOMAIN listeners[d] |-> Told(listeners[d][i], queries)]
<1>1. listeners[d] \in Seq(Get) /\ callbacks[d] \in Seq(Callback)
  BY DEF FirestoreTypeOK
<1>2. waiting \in Seq(Get)
  BY <1>1, Elements
<1>3. \A i \in DOMAIN waiting : waiting[i] \in Get /\ waiting[i].query \in queries
  <2>1. ToSet(waiting) \subseteq {get \in ToSet(listeners[d]) : ~get.raised /\ get.query \in queries}
    BY <1>1, Elements
  <2>2. \A i \in DOMAIN waiting : waiting[i] \in ToSet(waiting)
    BY DEF ToSet
  <2> QED
    BY <1>2, <2>1, <2>2, Elements
<1> HIDE DEF waiting
<1>4. due \in Seq(Callback)
  <2>1. \A i \in DOMAIN waiting : CallbackFor(waiting[i], view[waiting[i].query]) \in Callback
    BY <1>3 DEF Get, Callback, CallbackFor
  <2>2. DOMAIN waiting = 1 .. Len(waiting) /\ Len(waiting) \in Nat
    BY <1>2
  <2>3. due \in [1 .. Len(waiting) -> Callback]
    BY <2>1, <2>2
  <2> QED
    BY <2>2, <2>3
<1>5. told \in Seq(Get)
  <2>1. \A g \in Get : Told(g, queries) \in Get
    BY DEF Get, Told
  <2>2. DOMAIN listeners[d] = 1 .. Len(listeners[d]) /\ Len(listeners[d]) \in Nat
    BY <1>1
  <2>3. \A i \in 1 .. Len(listeners[d]) : listeners[d][i] \in Get
    BY <1>1
  <2>4. told \in [1 .. Len(listeners[d]) -> Get]
    BY <2>1, <2>2, <2>3
  <2> QED
    BY <2>2, <2>4
<1>6. callbacks' = [callbacks EXCEPT ![d] = callbacks[d] \o due]
  BY DEF RaiseWaiting, waiting
<1>7. listeners' = [listeners EXCEPT ![d] = told]
  BY DEF RaiseWaiting
<1> HIDE DEF due, told
<1>8. callbacks[d] \o due \in Seq(Callback)
  BY <1>1, <1>4
<1> QED
  BY <1>5, <1>6, <1>7, <1>8 DEF FirestoreTypeOK

(* The calls of the app, and the worker's tasks.                           *)
LEMMA AppTypes ==
  ASSUME FirestoreTypeOK, NEW d \in Devices,
         \/ \E doc \in Docs : SetData(d, doc)
         \/ \E q \in Queries : GetDocuments(d, q)
         \/ \E u \in Users : CredentialChange(d, u)
         \/ Deliver(d)
         \/ \E u \in Users : Restart(d, u)
  PROVE  FirestoreTypeOK'
<1>1. /\ worker[d] \in Seq(Task) /\ writer[d] \in Users /\ gets[d] \in Nat
      /\ cache[d] \subseteq Docs /\ callbacks[d] \in Seq(Callback)
  BY DEF FirestoreTypeOK
<1>2. \A t \in Task : Enqueue(d, t) => worker' \in [Devices -> Seq(Task)]
  BY <1>1 DEF Enqueue, FirestoreTypeOK
<1>3. ASSUME NEW doc \in Docs, SetData(d, doc) PROVE FirestoreTypeOK'
  <2>1. worker' \in [Devices -> Seq(Task)]
    BY <1>2, <1>3, TaskTypes DEF SetData
  <2>2. UserAhead(d) \in Users
    <3>1. DOMAIN worker[d] = 1 .. Len(worker[d]) /\ Len(worker[d]) \in Nat
      BY <1>1
    <3> DEFINE changes == {i \in DOMAIN worker[d] : worker[d][i].task = "user"}
    <3>2. changes # {} => Max(changes) \in changes
      BY <3>1, MaxOf
    <3>3. \A i \in changes : worker[d][i].user \in Users
      BY <1>1, TaskTypes, Elements
    <3>4. UserAhead(d) = IF changes = {} THEN writer[d] ELSE worker[d][Max(changes)].user
      BY DEF UserAhead
    <3> QED
      BY <1>1, <3>2, <3>3, <3>4
  <2> DEFINE w == [doc |-> doc, device |-> d, user |-> UserAhead(d)]
  <2>3. w \in [doc : Docs, device : Devices, user : Users]
    BY <2>2
  <2>4. issued' = Append(issued, w)
    BY <1>3 DEF SetData
  <2> HIDE DEF w
  <2>5. issued' \in Seq([doc : Docs, device : Devices, user : Users])
    BY <2>3, <2>4 DEF FirestoreTypeOK
  <2> QED
    BY <1>3, <2>1, <2>5 DEF SetData, FirestoreTypeOK, storageVars, listenVars, mainVars
<1>4. ASSUME NEW q \in Queries, GetDocuments(d, q) PROVE FirestoreTypeOK'
  <2> DEFINE get == [id |-> gets[d] + 1, query |-> q, raised |-> FALSE,
                     owes |-> (WrittenBefore(d) \cup cache[d]) \cap Matching[q]]
  <2>1. get \in Get
    BY <1>1, MatchingTypes DEF Get
  <2>2. Enqueue(d, ListenTask(get))
    BY <1>4 DEF GetDocuments
  <2> HIDE DEF get
  <2>3. worker' \in [Devices -> Seq(Task)]
    BY <1>2, <2>1, <2>2, TaskTypes
  <2>4. gets' \in [Devices -> Nat]
    BY <1>4 DEF GetDocuments, FirestoreTypeOK
  <2> QED
    BY <1>4, <2>3, <2>4 DEF GetDocuments, FirestoreTypeOK, storageVars, listenVars
<1>5. ASSUME NEW u \in Users, CredentialChange(d, u) PROVE FirestoreTypeOK'
  <2>1. worker' \in [Devices -> Seq(Task)]
    BY <1>2, <1>5, TaskTypes DEF CredentialChange
  <2> QED
    BY <1>5, <2>1 DEF CredentialChange, FirestoreTypeOK, storageVars, listenVars, mainVars
<1>6. CASE Deliver(d)
  <2>1. Head(callbacks[d]) \in Callback /\ Tail(callbacks[d]) \in Seq(Callback)
    BY <1>1, <1>6, Elements DEF Deliver
  <2>2. PICK due \in Callback :
          IF due.failed THEN UNCHANGED <<worker, delivered>>
          ELSE /\ Enqueue(d, UnlistenTask(due.id))
               /\ delivered' = [delivered EXCEPT ![d] = {[id |-> due.id, docs |-> due.docs]}]
    BY <1>6, <2>1 DEF Deliver
  <2>3. due.id \in Nat \ {0} /\ due.docs \subseteq Docs
    BY DEF Callback
  <2>4. worker' \in [Devices -> Seq(Task)]
    BY <1>2, <2>2, <2>3, TaskTypes DEF FirestoreTypeOK
  <2>5. delivered' \in [Devices -> SUBSET [id : Nat \ {0}, docs : SUBSET Docs]]
    <3> DEFINE Deliveries == [id : Nat \ {0}, docs : SUBSET Docs]
               shown == {[id |-> due.id, docs |-> due.docs]}
    <3>1. shown \subseteq Deliveries
      BY <2>3
    <3>2. delivered \in [Devices -> SUBSET Deliveries]
      BY DEF FirestoreTypeOK
    <3>3. delivered' = delivered \/ delivered' = [delivered EXCEPT ![d] = shown]
      BY <2>2
    <3> HIDE DEF Deliveries, shown
    <3>4. delivered' \in [Devices -> SUBSET Deliveries]
      BY <3>1, <3>2, <3>3
    <3> QED
      BY <3>4 DEF Deliveries
  <2>6. callbacks' \in [Devices -> Seq(Callback)]
    BY <1>6, <2>1 DEF Deliver, FirestoreTypeOK
  <2> QED
    BY <1>6, <2>4, <2>5, <2>6 DEF Deliver, FirestoreTypeOK, storageVars, listenVars
<1>7. ASSUME NEW u \in Users, Restart(d, u) PROVE FirestoreTypeOK'
  <2>1. lost' \subseteq Docs
    <3>1. lost' = lost \cup {t.doc : t \in {s \in ToSet(worker[d]) : s.task = "write"}}
      BY <1>7 DEF Restart, DropProcess
    <3>2. \A t \in ToSet(worker[d]) : t.task = "write" => t.doc \in Docs
      BY <1>1, TaskTypes, Elements
    <3> QED
      BY <3>1, <3>2 DEF FirestoreTypeOK
  <2>2. /\ worker' \in [Devices -> Seq(Task)] /\ listeners' \in [Devices -> Seq(Get)]
        /\ callbacks' \in [Devices -> Seq(Callback)]
    BY <1>7 DEF Restart, DropProcess, FirestoreTypeOK
  <2>3. /\ synced' \in [Devices -> SUBSET Queries] /\ offline' \in [Devices -> BOOLEAN]
        /\ delivered' \in [Devices -> SUBSET [id : Nat \ {0}, docs : SUBSET Docs]]
        /\ writer' \in [Devices -> Users]
    BY <1>7 DEF Restart, DropProcess, FirestoreTypeOK
  <2>4. answer' \in [Devices -> [docs : SUBSET Docs, queries : SUBSET Queries]]
    BY <1>7 DEF Restart, DropProcess, FirestoreTypeOK, NoAnswer
  <2> QED
    BY <1>7, <2>1, <2>2, <2>3, <2>4 DEF Restart, FirestoreTypeOK, storageVars
<1> QED
  BY <1>3, <1>4, <1>5, <1>6, <1>7

LEMMA RunTypes ==
  ASSUME FirestoreTypeOK, NEW d \in Devices, RunTask(d)
  PROVE  FirestoreTypeOK'
<1>1. /\ worker[d] \in Seq(Task) /\ writer[d] \in Users /\ listeners[d] \in Seq(Get)
      /\ cache[d] \subseteq Docs /\ callbacks[d] \in Seq(Callback)
      /\ queue[d][writer[d]] \in Seq(Docs)
  BY DEF FirestoreTypeOK
<1>2. /\ worker[d] # <<>> /\ worker' = [worker EXCEPT ![d] = Tail(@)]
  BY DEF RunTask, RunWrite, RunListen, RunUnlisten, RunUserChange, HeadIs, RegisterGet
<1>3. Head(worker[d]) \in Task /\ worker' \in [Devices -> Seq(Task)]
  BY <1>1, <1>2, Elements DEF FirestoreTypeOK
<1>4. CASE RunWrite(d)
  <2>1. Head(worker[d]).doc \in Docs
    BY <1>3, <1>4, TaskTypes DEF RunWrite, HeadIs
  <2>2. queue' \in [Devices -> [Users -> Seq(Docs)]]
    BY <1>1, <1>4, <2>1 DEF RunWrite, FirestoreTypeOK
  <2> QED
    BY <1>3, <1>4, <2>2 DEF RunWrite, FirestoreTypeOK, listenVars, mainVars
<1>5. CASE RunListen(d)
  <2>1. PICK get \in Get : get = Head(worker[d]).get
    BY <1>3, <1>5, TaskTypes DEF RunListen, HeadIs
  <2>2. PICK atOnce \in BOOLEAN :
          /\ listeners' = [listeners EXCEPT ![d] = Append(@, [get EXCEPT !.raised = atOnce])]
          /\ callbacks' = IF atOnce
               THEN [callbacks EXCEPT ![d] = Append(@, CallbackFor(get, LocalView(d, get.query)))]
               ELSE callbacks
    <3>1. (offline[d] \/ get.query \in synced[d]) \in BOOLEAN
      BY DEF FirestoreTypeOK
    <3> QED
      BY <1>5, <2>1, <3>1 DEF RunListen, RegisterGet
  <2>3. [get EXCEPT !.raised = atOnce] \in Get
    BY DEF Get
  <2>4. CallbackFor(get, LocalView(d, get.query)) \in Callback
    <3>1. LocalView(d, get.query) \subseteq Docs
      BY MatchingTypes DEF LocalView, Get
    <3> QED
      BY <3>1 DEF CallbackFor, Callback, Get
  <2>5. listeners' \in [Devices -> Seq(Get)] /\ callbacks' \in [Devices -> Seq(Callback)]
    BY <1>1, <2>2, <2>3, <2>4 DEF FirestoreTypeOK
  <2> QED
    BY <1>3, <1>5, <2>5 DEF RunListen, RegisterGet, FirestoreTypeOK, storageVars
<1>6. CASE RunUnlisten(d)
  <2> DEFINE left == Select(listeners[d], {get \in ToSet(listeners[d]) : get.id # Head(worker[d]).id})
             queries == {get.query : get \in ToSet(left)}
  <2>1. left \in Seq(Get)
    BY <1>1, Elements
  <2>2. /\ listeners' = [listeners EXCEPT ![d] = left]
        /\ synced' = [synced EXCEPT ![d] = @ \cap queries]
        /\ offline' = offline \/ offline' = [offline EXCEPT ![d] = FALSE]
        /\ answer' = [answer EXCEPT ![d] = AnswerFor(d, queries)]
    BY <1>6 DEF RunUnlisten
  <2> HIDE DEF left
  <2>3. AnswerFor(d, queries) \in [docs : SUBSET Docs, queries : SUBSET Queries]
    BY DEF AnswerFor, NoAnswer, FirestoreTypeOK
  <2> HIDE DEF queries
  <2>4. /\ listeners' \in [Devices -> Seq(Get)] /\ synced' \in [Devices -> SUBSET Queries]
        /\ offline' \in [Devices -> BOOLEAN]
        /\ answer' \in [Devices -> [docs : SUBSET Docs, queries : SUBSET Queries]]
    BY <2>1, <2>2, <2>3 DEF FirestoreTypeOK
  <2> QED
    BY <1>3, <1>6, <2>4 DEF RunUnlisten, FirestoreTypeOK, storageVars, mainVars
<1>7. CASE RunUserChange(d)
  <2>1. Head(worker[d]).user \in Users
    BY <1>3, <1>7, TaskTypes DEF RunUserChange, HeadIs
  <2>2. /\ writer' \in [Devices -> Users] /\ offline' \in [Devices -> BOOLEAN]
        /\ answer' \in [Devices -> [docs : SUBSET Docs, queries : SUBSET Queries]]
    BY <1>7, <2>1 DEF RunUserChange, FirestoreTypeOK, NoAnswer
  <2> QED
    BY <1>3, <1>7, <2>2 DEF RunUserChange, FirestoreTypeOK, storageVars, mainVars
<1> QED
  BY <1>4, <1>5, <1>6, <1>7 DEF RunTask

(* The streams.                                                            *)
LEMMA StreamTypes ==
  ASSUME FirestoreTypeOK, NEW d \in Devices, ClientStep(d), ~RunTask(d)
  PROVE  FirestoreTypeOK'
<1>1. /\ writer[d] \in Users /\ listeners[d] \in Seq(Get)
      /\ cache[d] \subseteq Docs /\ callbacks[d] \in Seq(Callback)
      /\ queue[d][writer[d]] \in Seq(Docs)
      /\ answer[d] \in [docs : SUBSET Docs, queries : SUBSET Queries]
  BY DEF FirestoreTypeOK
<1>2. CASE ServerCommits(d)
  <2>1. PICK i \in DOMAIN queue[d][writer[d]] : serverLog' = Append(serverLog, queue[d][writer[d]][i])
    BY <1>2 DEF ServerCommits
  <2>2. serverLog' \in Seq(Docs)
    BY <1>1, <2>1, Elements DEF FirestoreTypeOK
  <2> QED
    BY <1>2, <2>2 DEF ServerCommits, FirestoreTypeOK, listenVars, mainVars
<1>3. CASE WriteAcknowledged(d)
  <2>1. Head(queue[d][writer[d]]) \in Docs /\ queue' \in [Devices -> [Users -> Seq(Docs)]]
    BY <1>1, <1>3, Elements DEF WriteAcknowledged, Dequeue, FirestoreTypeOK
  <2>2. cache' \in [Devices -> SUBSET Docs] /\ synced' \in [Devices -> SUBSET Queries]
    BY <1>3, <2>1 DEF WriteAcknowledged, CacheAcknowledged, FirestoreTypeOK
  <2> QED
    BY <1>3, <2>1, <2>2 DEF WriteAcknowledged, FirestoreTypeOK, mainVars
<1>4. CASE WriteRejected(d)
  <2>1. Head(queue[d][writer[d]]) \in Docs /\ queue' \in [Devices -> [Users -> Seq(Docs)]]
    BY <1>1, <1>4, Elements DEF WriteRejected, Dequeue, FirestoreTypeOK
  <2> QED
    BY <1>4, <2>1 DEF WriteRejected, FirestoreTypeOK, listenVars, mainVars
<1>5. CASE WatchAnswers(d)
  <2>1. Committed \subseteq Docs
    BY Elements DEF Committed, FirestoreTypeOK
  <2>2. Listened(d) \subseteq Queries
    <3>1. ToSet(listeners[d]) \subseteq Get
      BY <1>1, Elements
    <3> QED
      BY <3>1 DEF Listened, Get
  <2>3. answer' \in [Devices -> [docs : SUBSET Docs, queries : SUBSET Queries]]
    BY <1>5, <2>1, <2>2 DEF WatchAnswers, FirestoreTypeOK
  <2> QED
    BY <1>5, <2>3 DEF WatchAnswers, FirestoreTypeOK, storageVars, mainVars
<1>6. CASE AnswerArrives(d)
  <2> DEFINE fresh == answer[d].docs \cap UNION {Matching[q] : q \in answer[d].queries}
             queries == {q \in answer[d].queries : cache[d] \cap Matching[q] \subseteq answer[d].docs}
             view == [q \in queries |-> LocalView(d, q) \cup (fresh \cap Matching[q])]
  <2>1. /\ cache' = [cache EXCEPT ![d] = @ \cup fresh]
        /\ synced' = [synced EXCEPT ![d] = @ \cup queries]
        /\ RaiseWaiting(d, queries, view)
    BY <1>6 DEF AnswerArrives
  <2>2. fresh \subseteq Docs /\ queries \subseteq Queries
    BY <1>1
  <2>3. \A q \in queries : view[q] \subseteq Docs
    BY <2>2, MatchingTypes DEF LocalView
  <2> HIDE DEF fresh, queries, view
  <2>4. /\ callbacks' \in [Devices -> Seq(Callback)] /\ listeners' \in [Devices -> Seq(Get)]
    BY <2>1, <2>3, RaiseTypes
  <2>5. /\ cache' \in [Devices -> SUBSET Docs] /\ synced' \in [Devices -> SUBSET Queries]
    BY <2>1, <2>2 DEF FirestoreTypeOK
  <2>6. /\ answer' \in [Devices -> [docs : SUBSET Docs, queries : SUBSET Queries]]
        /\ offline' \in [Devices -> BOOLEAN]
    BY <1>6 DEF AnswerArrives, FirestoreTypeOK, NoAnswer
  <2> QED
    BY <1>6, <2>4, <2>5, <2>6 DEF AnswerArrives, FirestoreTypeOK
<1>7. CASE AnswerLost(d)
  <2>1. answer' \in [Devices -> [docs : SUBSET Docs, queries : SUBSET Queries]]
    BY <1>7 DEF AnswerLost, FirestoreTypeOK, NoAnswer
  <2> QED
    BY <1>7, <2>1 DEF AnswerLost, FirestoreTypeOK, storageVars, mainVars
<1>8. CASE GoOffline(d)
  <2> DEFINE view == [q \in Queries |-> LocalView(d, q)]
  <2>1. RaiseWaiting(d, Queries, view)
    BY <1>8 DEF GoOffline
  <2>2. \A q \in Queries : view[q] \subseteq Docs
    BY MatchingTypes DEF LocalView
  <2> HIDE DEF view
  <2>3. /\ callbacks' \in [Devices -> Seq(Callback)] /\ listeners' \in [Devices -> Seq(Get)]
    BY <2>1, <2>2, RaiseTypes
  <2>4. /\ answer' \in [Devices -> [docs : SUBSET Docs, queries : SUBSET Queries]]
        /\ offline' \in [Devices -> BOOLEAN] /\ synced' \in [Devices -> SUBSET Queries]
    BY <1>8 DEF GoOffline, FirestoreTypeOK, NoAnswer
  <2> QED
    BY <1>8, <2>3, <2>4 DEF GoOffline, FirestoreTypeOK, storageVars
<1>9. CASE ForgetOffline(d)
  <2>1. offline' \in [Devices -> BOOLEAN]
    BY <1>9 DEF ForgetOffline, FirestoreTypeOK
  <2> QED
    BY <1>9, <2>1 DEF ForgetOffline, FirestoreTypeOK, storageVars, mainVars
<1>10. ASSUME NEW q \in Queries, ListenRefused(d, q) PROVE FirestoreTypeOK'
  <2> DEFINE failing == Select(listeners[d], {get \in ToSet(listeners[d]) : get.query = q /\ ~get.raised})
             left == Select(listeners[d], {get \in ToSet(listeners[d]) : get.query # q})
             due == [i \in DOMAIN failing |-> [CallbackFor(failing[i], {}) EXCEPT !.failed = TRUE]]
  <2>1. /\ callbacks' = [callbacks EXCEPT ![d] = callbacks[d] \o due]
        /\ listeners' = [listeners EXCEPT ![d] = left]
        /\ synced' = [synced EXCEPT ![d] = @ \ {q}]
        /\ answer' = [answer EXCEPT ![d] = AnswerFor(d, Listened(d) \ {q})]
        /\ offline' = [offline EXCEPT ![d] = FALSE]
    BY <1>10 DEF ListenRefused
  <2>2. failing \in Seq(Get) /\ left \in Seq(Get)
    BY <1>1, Elements
  <2> HIDE DEF failing, left
  <2>3. due \in Seq(Callback)
    <3>1. \A get \in Get : [CallbackFor(get, {}) EXCEPT !.failed = TRUE] \in Callback
      BY DEF Get, Callback, CallbackFor
    <3>2. DOMAIN failing = 1 .. Len(failing) /\ Len(failing) \in Nat
      BY <2>2
    <3>3. \A i \in 1 .. Len(failing) : failing[i] \in Get
      BY <2>2
    <3>4. due \in [1 .. Len(failing) -> Callback]
      BY <3>1, <3>2, <3>3
    <3> QED
      BY <3>2, <3>4
  <2> HIDE DEF due
  <2>4. AnswerFor(d, Listened(d) \ {q}) \in [docs : SUBSET Docs, queries : SUBSET Queries]
    BY <1>1 DEF AnswerFor, NoAnswer
  <2>5. callbacks[d] \o due \in Seq(Callback)
    BY <1>1, <2>3
  <2>6. /\ callbacks' \in [Devices -> Seq(Callback)] /\ listeners' \in [Devices -> Seq(Get)]
        /\ synced' \in [Devices -> SUBSET Queries] /\ offline' \in [Devices -> BOOLEAN]
    BY <2>1, <2>2, <2>5 DEF FirestoreTypeOK
  <2>7. answer' \in [Devices -> [docs : SUBSET Docs, queries : SUBSET Queries]]
    BY <2>1, <2>4 DEF FirestoreTypeOK
  <2> QED
    BY <1>10, <2>6, <2>7 DEF ListenRefused, FirestoreTypeOK, storageVars
<1> QED
  BY <1>2, <1>3, <1>4, <1>5, <1>6, <1>7, <1>8, <1>9, <1>10 DEF ClientStep

LEMMA TypesInit == FirestoreInit => FirestoreTypeOK
<1> SUFFICES ASSUME FirestoreInit PROVE FirestoreTypeOK
  OBVIOUS
<1>1. NoAnswer \in [docs : SUBSET Docs, queries : SUBSET Queries]
  BY DEF NoAnswer
<1> QED
  BY <1>1, FirestoreAssumption DEF FirestoreInit, FirestoreTypeOK

LEMMA TypesStep == FirestoreTypeOK /\ [FirestoreNext]_firestoreVars => FirestoreTypeOK'
<1> SUFFICES ASSUME FirestoreTypeOK, [FirestoreNext]_firestoreVars PROVE FirestoreTypeOK'
  OBVIOUS
<1>1. CASE UNCHANGED firestoreVars
  BY <1>1 DEF firestoreVars, mainVars, FirestoreTypeOK
<1>2. CASE FirestoreNext
  <2>1. PICK d \in Devices : AppStep(d) \/ ClientStep(d)
    BY <1>2 DEF FirestoreNext
  <2>2. CASE AppStep(d)
    BY <2>2, AppTypes DEF AppStep
  <2>3. CASE ClientStep(d)
    BY <2>3, RunTypes, StreamTypes
  <2> QED
    BY <2>1, <2>2, <2>3
<1> QED
  BY <1>1, <1>2

(***************************************************************************)
(* The client keeps its types: every task, listener, callback and answer   *)
(* is about documents, queries and users that exist.                       *)
(***************************************************************************)
THEOREM FirestoreTypeCorrect == FirestoreSpec => []FirestoreTypeOK
<1> QED
  BY TypesInit, TypesStep, PTL DEF FirestoreSpec

-----------------------------------------------------------------------------
(* Where a get is that has not been answered: a task, a listener that      *)
(* waits, a completion block that is due.                                  *)
ListenerAt(d, i, l) == i \in DOMAIN listeners[d] /\ listeners[d][i] = l
CallbackAt(d, i, c) == i \in DOMAIN callbacks[d] /\ callbacks[d][i] = c

GetAt(d, w, i, g) ==
  \/ w = "worker" /\ \E t : TaskAt(d, i, t) /\ t.task = "listen" /\ g = Asking(t.get)
  \/ w = "listener" /\ \E l : ListenerAt(d, i, l) /\ ~l.raised /\ g = Asking(l)
  \/ w = "callback" /\ \E c : CallbackAt(d, i, c) /\ g = Asking(c)

LEMMA GetPlaces ==
  ASSUME FirestoreTypeOK, NEW d \in Devices
  PROVE  /\ \A i, t : TaskAt(d, i, t) => i \in Nat \ {0} /\ t \in Task
         /\ \A i, l : ListenerAt(d, i, l) => i \in Nat \ {0} /\ l \in Get
         /\ \A i, c : CallbackAt(d, i, c) => i \in Nat \ {0} /\ c \in Callback
         /\ \A w, i, g : GetAt(d, w, i, g) =>
              i \in Nat \ {0} /\ g \in [id : Nat \ {0}, query : Queries, owes : SUBSET Docs]
         /\ \A w, i, g, h : GetAt(d, w, i, g) /\ GetAt(d, w, i, h) => g = h
<1>1. worker[d] \in Seq(Task) /\ listeners[d] \in Seq(Get) /\ callbacks[d] \in Seq(Callback)
  BY DEF FirestoreTypeOK
<1>2. \A i, t : TaskAt(d, i, t) => i \in Nat \ {0} /\ t \in Task
  BY <1>1 DEF TaskAt
<1>3. \A i, l : ListenerAt(d, i, l) => i \in Nat \ {0} /\ l \in Get
  BY <1>1 DEF ListenerAt
<1>4. \A i, c : CallbackAt(d, i, c) => i \in Nat \ {0} /\ c \in Callback
  BY <1>1 DEF CallbackAt
<1>5. /\ \A l \in Get : Asking(l) \in [id : Nat \ {0}, query : Queries, owes : SUBSET Docs]
      /\ \A c \in Callback : Asking(c) \in [id : Nat \ {0}, query : Queries, owes : SUBSET Docs]
  BY DEF Asking, Get, Callback
<1>6. \A t \in Task : t.task = "listen" => t.get \in Get
  BY TaskTypes
<1>7. \A w, i, g : GetAt(d, w, i, g) =>
         i \in Nat \ {0} /\ g \in [id : Nat \ {0}, query : Queries, owes : SUBSET Docs]
  BY <1>2, <1>3, <1>4, <1>5, <1>6 DEF GetAt
<1>8. \A w, i, g, h : GetAt(d, w, i, g) /\ GetAt(d, w, i, h) => g = h
  BY DEF GetAt, TaskAt, ListenerAt, CallbackAt
<1> QED
  BY <1>2, <1>3, <1>4, <1>7, <1>8

(* The gets of a device whose queues a step leaves alone.                  *)
LEMMA GetsElsewhere ==
  ASSUME NEW e, worker'[e] = worker[e], listeners'[e] = listeners[e], callbacks'[e] = callbacks[e]
  PROVE  /\ \A w, i, g : GetAt(e, w, i, g)' <=> GetAt(e, w, i, g)
         /\ \A i, t : TaskAt(e, i, t)' <=> TaskAt(e, i, t)
         /\ \A i, c : CallbackAt(e, i, c)' <=> CallbackAt(e, i, c)
<1>1. /\ \A i, t : TaskAt(e, i, t)' <=> TaskAt(e, i, t)
      /\ \A i, c : CallbackAt(e, i, c)' <=> CallbackAt(e, i, c)
      /\ \A i, l : ListenerAt(e, i, l)' <=> ListenerAt(e, i, l)
  BY DEF TaskAt, CallbackAt, ListenerAt
<1> QED
  BY <1>1 DEF GetAt

(* A task more: a get if it is one.                                        *)
LEMMA GetEnqueued ==
  ASSUME FirestoreTypeOK, WorkerOK, NEW d \in Devices, NEW t, Enqueue(d, t)
  PROVE  /\ Len(worker[d]) \in Nat
         /\ \A i, g : GetAt(d, "worker", i, g) => i \in Nat /\ i <= Len(worker[d])
         /\ \A i, g : GetAt(d, "worker", i, g)' <=>
              \/ GetAt(d, "worker", i, g)
              \/ i = Len(worker[d]) + 1 /\ t.task = "listen" /\ g = Asking(t.get)
<1>1. /\ Len(worker[d]) \in Nat
      /\ \A i, s : TaskAt(d, i, s) => i \in Nat /\ i <= Len(worker[d])
      /\ \A i, s : TaskAt(d, i, s)' <=> TaskAt(d, i, s) \/ (i = Len(worker[d]) + 1 /\ s = t)
  BY TaskAdded
<1>2. \A i, g : GetAt(d, "worker", i, g) <=>
              \E s : TaskAt(d, i, s) /\ s.task = "listen" /\ g = Asking(s.get)
  BY DEF GetAt
<1>3. \A i, g : GetAt(d, "worker", i, g)' <=>
              \E s : TaskAt(d, i, s)' /\ s.task = "listen" /\ g = Asking(s.get)
  BY DEF GetAt, Asking
<1> QED
  BY <1>1, <1>2, <1>3

(* A task less.                                                            *)
LEMMA GetTaskGone ==
  ASSUME FirestoreTypeOK, WorkerOK, NEW d \in Devices, worker[d] # <<>>,
         worker' = [worker EXCEPT ![d] = Tail(@)]
  PROVE  /\ \A i, g : GetAt(d, "worker", i, g)' <=> i \in Nat \ {0} /\ GetAt(d, "worker", i + 1, g)
         /\ Head(worker[d]).task = "listen" => GetAt(d, "worker", 1, Asking(Head(worker[d]).get))
         /\ \A g : GetAt(d, "worker", 1, g) => Head(worker[d]).task = "listen" /\ g = Asking(Head(worker[d]).get)
<1>1. /\ TaskAt(d, 1, Head(worker[d]))
      /\ \A i, s : TaskAt(d, i, s)' <=> i \in Nat \ {0} /\ TaskAt(d, i + 1, s)
  BY TaskGone
<1>2. \A i, g : GetAt(d, "worker", i, g) <=>
              \E s : TaskAt(d, i, s) /\ s.task = "listen" /\ g = Asking(s.get)
  BY DEF GetAt
<1>3. \A i, g : GetAt(d, "worker", i, g)' <=>
              \E s : TaskAt(d, i, s)' /\ s.task = "listen" /\ g = Asking(s.get)
  BY DEF GetAt, Asking
<1>4. \A s : TaskAt(d, 1, s) => s = Head(worker[d])
  BY <1>1 DEF TaskAt
<1> QED
  BY <1>1, <1>2, <1>3, <1>4

(* Listeners and callbacks, each on its own.                               *)
LEMMA GetsByListeners ==
  ASSUME NEW d
  PROVE  /\ \A i, g : GetAt(d, "listener", i, g) <=> \E l : ListenerAt(d, i, l) /\ ~l.raised /\ g = Asking(l)
         /\ \A i, g : GetAt(d, "listener", i, g)' <=>
                        \E l : ListenerAt(d, i, l)' /\ ~l.raised /\ g = Asking(l)
         /\ \A i, g : GetAt(d, "callback", i, g) <=> \E c : CallbackAt(d, i, c) /\ g = Asking(c)
         /\ \A i, g : GetAt(d, "callback", i, g)' <=> \E c : CallbackAt(d, i, c)' /\ g = Asking(c)
         /\ \A w, i, g : GetAt(d, w, i, g) => w \in {"worker", "listener", "callback"}
         /\ \A w, i, g : GetAt(d, w, i, g)' => w \in {"worker", "listener", "callback"}
BY DEF GetAt, Asking

(* A listener more.                                                        *)
LEMMA ListenerAdded ==
  ASSUME FirestoreTypeOK, NEW d \in Devices, NEW l \in Get,
         listeners' = [listeners EXCEPT ![d] = Append(@, l)]
  PROVE  /\ Len(listeners[d]) \in Nat
         /\ \A i, k : ListenerAt(d, i, k) => i \in Nat /\ i <= Len(listeners[d])
         /\ \A i, k : ListenerAt(d, i, k)' <=> ListenerAt(d, i, k) \/ (i = Len(listeners[d]) + 1 /\ k = l)
<1> DEFINE s == listeners[d]
           n == Len(s)
<1>1. IsSeq(s) /\ listeners'[d] = Append(s, l)
  BY DEF FirestoreTypeOK, IsSeq
<1>2. /\ n \in Nat /\ DOMAIN s = 1 .. n /\ DOMAIN Append(s, l) = 1 .. n + 1
      /\ \A i \in 1 .. n : Append(s, l)[i] = s[i]
      /\ Append(s, l)[n + 1] = l
  BY <1>1, Appended
<1>3. /\ \A i : i \in 1 .. n + 1 <=> i \in 1 .. n \/ i = n + 1
      /\ n + 1 \notin 1 .. n /\ \A i \in 1 .. n : i \in Nat /\ i <= n
  BY <1>2
<1> QED
  BY <1>1, <1>2, <1>3 DEF ListenerAt

(* The listeners that are kept are moved up.                               *)
ListenersCut(d, S, f) ==
  /\ \A i, l : ListenerAt(d, i, l)' => ListenerAt(d, f[i], l) /\ l \in S
  /\ \A i, j, l, k : ListenerAt(d, i, l)' /\ ListenerAt(d, j, k)' /\ f[i] = f[j] => i = j
  /\ \A i, l : ListenerAt(d, i, l) /\ l \in S => \E j : ListenerAt(d, j, l)'

LEMMA ListenersKept ==
  ASSUME FirestoreTypeOK, NEW d \in Devices, NEW S, listeners'[d] = Select(listeners[d], S)
  PROVE  \E f : ListenersCut(d, S, f)
<1> DEFINE s == listeners[d]
           r == Select(s, S)
           n == Len(r)
<1>1. IsSeq(s)
  BY DEF FirestoreTypeOK, IsSeq
<1>2. /\ IsSeq(r) /\ n \in Nat /\ DOMAIN r = 1 .. n
      /\ \E f \in [1 .. n -> PlacesIn(s, S)] :
           /\ \A k \in 1 .. n : r[k] = s[f[k]]
           /\ \A i \in PlacesIn(s, S) : \E k \in 1 .. n : f[k] = i
           /\ \A k, l \in 1 .. n : k < l => f[k] < f[l]
  BY <1>1, Selected
<1>3. PICK f \in [1 .. n -> PlacesIn(s, S)] :
        /\ \A k \in 1 .. n : r[k] = s[f[k]]
        /\ \A i \in PlacesIn(s, S) : \E k \in 1 .. n : f[k] = i
        /\ \A k, l \in 1 .. n : k < l => f[k] < f[l]
  BY <1>2
<1>4. PlacesIn(s, S) \subseteq DOMAIN s /\ DOMAIN s \subseteq Nat /\ \A i : i \in PlacesIn(s, S) <=> i \in DOMAIN s /\ s[i] \in S
  BY DEF PlacesIn, FirestoreTypeOK
<1>5. \A k, l \in 1 .. n : f[k] = f[l] => k = l
  <2> SUFFICES ASSUME NEW k \in 1 .. n, NEW l \in 1 .. n, f[k] = f[l] PROVE k = l
    OBVIOUS
  <2>1. f[k] \in Nat /\ ~(f[k] < f[l]) /\ ~(f[l] < f[k])
    BY <1>3, <1>4
  <2>2. ~(k < l) /\ ~(l < k) /\ k \in Nat /\ l \in Nat
    BY <1>2, <1>3, <2>1
  <2> QED
    BY <2>2
<1>6. \A i, l : ListenerAt(d, i, l)' <=> i \in 1 .. n /\ r[i] = l
  BY <1>2 DEF ListenerAt
<1> HIDE DEF r, n
<1>7. ASSUME NEW i, NEW l, ListenerAt(d, i, l)' PROVE ListenerAt(d, f[i], l) /\ l \in S
  <2>1. i \in 1 .. n /\ s[f[i]] = l /\ f[i] \in PlacesIn(s, S)
    BY <1>3, <1>6, <1>7
  <2> QED
    BY <1>4, <2>1 DEF ListenerAt
<1>8. \A i, j, l, k : ListenerAt(d, i, l)' /\ ListenerAt(d, j, k)' /\ f[i] = f[j] => i = j
  BY <1>5, <1>6
<1>9. ASSUME NEW i, NEW l, ListenerAt(d, i, l), l \in S PROVE \E j : ListenerAt(d, j, l)'
  <2>1. i \in PlacesIn(s, S) /\ s[i] = l
    BY <1>4, <1>9 DEF ListenerAt
  <2>2. PICK k \in 1 .. n : f[k] = i
    BY <1>3, <2>1
  <2> QED
    BY <1>3, <1>6, <2>1, <2>2
<1> QED
  BY <1>7, <1>8, <1>9 DEF ListenersCut

(* Completion blocks become due for some of the listeners.                 *)
CallbacksJoin(d, S, due, n, f) ==
  /\ n \in Nat
  /\ \A i, c : CallbackAt(d, i, c)' => i \in Nat \ {0}
  /\ \A i, c : CallbackAt(d, i, c) <=> CallbackAt(d, i, c)' /\ i <= n
  /\ \A i, c : CallbackAt(d, i, c)' /\ ~(i <= n) =>
       /\ \E l : ListenerAt(d, f[i], l) /\ l \in S /\ Asking(l) = Asking(c)
       /\ \E k \in 1 .. Len(due) : c = due[k]
  /\ \A i, j, c, b : (/\ CallbackAt(d, i, c)' /\ CallbackAt(d, j, b)'
                      /\ ~(i <= n) /\ ~(j <= n) /\ f[i] = f[j]) => i = j
  /\ \A i, l : ListenerAt(d, i, l) /\ l \in S =>
       \E j, c : CallbackAt(d, j, c)' /\ ~(j <= n) /\ Asking(c) = Asking(l)

LEMMA CalledBack ==
  ASSUME FirestoreTypeOK, NEW d \in Devices, NEW S, NEW due \in Seq(Callback),
         Len(due) = Len(Select(listeners[d], S)),
         \A k \in 1 .. Len(due) : Asking(due[k]) = Asking(Select(listeners[d], S)[k]),
         callbacks' = [callbacks EXCEPT ![d] = callbacks[d] \o due]
  PROVE  \E n, f : CallbacksJoin(d, S, due, n, f)
<1> DEFINE s == listeners[d]
           r == Select(s, S)
           m == Len(r)
           n == Len(callbacks[d])
<1>1. IsSeq(s)
  BY DEF FirestoreTypeOK, IsSeq
<1>2. /\ m \in Nat
      /\ \E f \in [1 .. m -> PlacesIn(s, S)] :
           /\ \A k \in 1 .. m : r[k] = s[f[k]]
           /\ \A i \in PlacesIn(s, S) : \E k \in 1 .. m : f[k] = i
           /\ \A k, l \in 1 .. m : k < l => f[k] < f[l]
  BY <1>1, Selected
<1>3. PICK h \in [1 .. m -> PlacesIn(s, S)] :
        /\ \A k \in 1 .. m : r[k] = s[h[k]]
        /\ \A i \in PlacesIn(s, S) : \E k \in 1 .. m : h[k] = i
        /\ \A k, l \in 1 .. m : k < l => h[k] < h[l]
  BY <1>2
<1>4. PlacesIn(s, S) \subseteq DOMAIN s /\ DOMAIN s \subseteq Nat /\ \A i : i \in PlacesIn(s, S) <=> i \in DOMAIN s /\ s[i] \in S
  BY DEF PlacesIn, FirestoreTypeOK
<1>5. \A k, l \in 1 .. m : h[k] = h[l] => k = l
  <2> SUFFICES ASSUME NEW k \in 1 .. m, NEW l \in 1 .. m, h[k] = h[l] PROVE k = l
    OBVIOUS
  <2>1. h[k] \in Nat /\ ~(h[k] < h[l]) /\ ~(h[l] < h[k])
    BY <1>3, <1>4
  <2>2. ~(k < l) /\ ~(l < k) /\ k \in Nat /\ l \in Nat
    BY <1>2, <1>3, <2>1
  <2> QED
    BY <2>2
<1>6. /\ n \in Nat /\ callbacks'[d] = callbacks[d] \o due
      /\ callbacks[d] \in Seq(Callback)
  BY DEF FirestoreTypeOK
<1>a. Len(due) = m
  OBVIOUS
<1>b. \A k \in 1 .. m : Asking(due[k]) = Asking(r[k])
  OBVIOUS
<1> HIDE DEF r, m
<1>7. /\ DOMAIN (callbacks[d] \o due) = 1 .. n + m
      /\ \A i \in 1 .. n : (callbacks[d] \o due)[i] = callbacks[d][i]
      /\ \A i \in 1 .. n + m : ~(i <= n) => i - n \in 1 .. m /\ (callbacks[d] \o due)[i] = due[i - n]
      /\ DOMAIN callbacks[d] = 1 .. n
  BY <1>2, <1>6, <1>a
<1>8. \A i, c : CallbackAt(d, i, c)' <=> i \in 1 .. n + m /\ (callbacks[d] \o due)[i] = c
  BY <1>6, <1>7 DEF CallbackAt
<1>9. \A i, c : CallbackAt(d, i, c) <=> i \in 1 .. n /\ callbacks[d][i] = c
  BY <1>7 DEF CallbackAt
<1>10. /\ \A i : i \in 1 .. n <=> i \in 1 .. n + m /\ i <= n
       /\ \A i \in 1 .. n + m : i \in Nat \ {0}
  BY <1>2, <1>6
<1>k. \A k \in 1 .. m : n + k \in 1 .. n + m /\ ~(n + k <= n) /\ (n + k) - n = k
  <2>1. \A a, b \in Nat : \A k : k \in 1 .. b => a + k \in 1 .. a + b /\ ~(a + k <= a) /\ (a + k) - a = k
    OBVIOUS
  <2>2. m \in Nat /\ n \in Nat
    BY <1>2, <1>6
  <2> HIDE DEF n
  <2> QED
    BY <2>1, <2>2
<1> DEFINE f == [i \in 1 .. n + m |-> h[i - n]]
<1>f. \A i \in 1 .. n + m : f[i] = h[i - n]
  OBVIOUS
<1> HIDE DEF f
<1>11. ASSUME NEW i, NEW c, CallbackAt(d, i, c)', ~(i <= n)
       PROVE  /\ i - n \in 1 .. m /\ c = due[i - n] /\ f[i] = h[i - n]
              /\ ListenerAt(d, f[i], s[f[i]]) /\ s[f[i]] \in S /\ Asking(s[f[i]]) = Asking(c)
  <2>1. i \in 1 .. n + m /\ i - n \in 1 .. m /\ c = due[i - n]
    BY <1>7, <1>8, <1>11
  <2>2. f[i] = h[i - n]
    BY <1>f, <2>1
  <2>3. h[i - n] \in PlacesIn(s, S) /\ r[i - n] = s[h[i - n]]
    BY <1>3, <2>1
  <2> QED
    BY <1>4, <1>b, <2>1, <2>2, <2>3 DEF ListenerAt
<1>12. \A i, j, c, b : (/\ CallbackAt(d, i, c)' /\ CallbackAt(d, j, b)'
                        /\ ~(i <= n) /\ ~(j <= n) /\ f[i] = f[j]) => i = j
  <2> SUFFICES ASSUME NEW i, NEW j, NEW c, NEW b, CallbackAt(d, i, c)', CallbackAt(d, j, b)',
                      ~(i <= n), ~(j <= n), f[i] = f[j]
               PROVE  i = j
    OBVIOUS
  <2>1. i - n \in 1 .. m /\ j - n \in 1 .. m /\ h[i - n] = h[j - n]
    BY <1>11
  <2>2. i - n = j - n
    BY <1>5, <2>1
  <2>3. i \in Nat /\ j \in Nat
    BY <1>8, <1>10
  <2> QED
    BY <1>6, <2>2, <2>3
<1>13. ASSUME NEW i, NEW l, ListenerAt(d, i, l), l \in S
       PROVE  \E j, c : CallbackAt(d, j, c)' /\ ~(j <= n) /\ Asking(c) = Asking(l)
  <2>1. i \in PlacesIn(s, S) /\ s[i] = l
    BY <1>4, <1>13 DEF ListenerAt
  <2>2. PICK k \in 1 .. m : h[k] = i
    BY <1>3, <2>1
  <2>3. Asking(due[k]) = Asking(l)
    BY <1>3, <1>b, <2>1, <2>2
  <2>4. PICK j : j = n + k
    OBVIOUS
  <2>5. j \in 1 .. n + m /\ ~(j <= n) /\ (callbacks[d] \o due)[j] = due[k]
    BY <1>7, <1>k, <2>4
  <2>6. CallbackAt(d, j, due[k])'
    BY <1>8, <2>5
  <2> QED
    BY <2>3, <2>5, <2>6
<1>14. \A i, c : CallbackAt(d, i, c) <=> CallbackAt(d, i, c)' /\ i <= n
  BY <1>7, <1>8, <1>9, <1>10
<1>15. \A i, c : CallbackAt(d, i, c)' => i \in Nat \ {0}
  BY <1>8, <1>10
<1>16. \A i, c : CallbackAt(d, i, c)' /\ ~(i <= n) =>
         /\ \E l : ListenerAt(d, f[i], l) /\ l \in S /\ Asking(l) = Asking(c)
         /\ \E k \in 1 .. Len(due) : c = due[k]
  BY <1>11, <1>a
<1> HIDE DEF n
<1>17. CallbacksJoin(d, S, due, n, f)
  BY <1>6, <1>12, <1>13, <1>14, <1>15, <1>16 DEF CallbacksJoin
<1> QED
  BY <1>17

-----------------------------------------------------------------------------
(* A get is in one place; its number is one the device has given out, and  *)
(* is not that of a listener to be removed.                                *)
OneAsk(d) ==
  \A v, w, i, j, g, h :
    GetAt(d, v, i, g) /\ GetAt(d, w, j, h) /\ g.id = h.id => v = w /\ i = j

AskIds(d) == \A w, i, g : GetAt(d, w, i, g) => g.id <= gets[d]

Unlistened(d) ==
  \A i, t : TaskAt(d, i, t) /\ t.task = "unlisten" =>
    t.id <= gets[d] /\ \A w, j, g : GetAt(d, w, j, g) => g.id # t.id

AskOK(d) == OneAsk(d) /\ AskIds(d) /\ Unlistened(d)

AskInv == \A d \in Devices : AskOK(d)

(* Where nothing moves nothing is to be shown.                             *)
LEMMA AskElsewhere ==
  ASSUME NEW e, AskOK(e), worker'[e] = worker[e], listeners'[e] = listeners[e],
         callbacks'[e] = callbacks[e], gets'[e] = gets[e]
  PROVE  AskOK(e)'
BY GetsElsewhere DEF AskOK, OneAsk, AskIds, Unlistened

(* Neither a write nor a change of the user is a get.                      *)
LEMMA OtherEnqueuedAsk ==
  ASSUME FirestoreTypeOK, WorkerOK, NEW d \in Devices, AskOK(d), NEW t, Enqueue(d, t),
         t.task \in {"write", "user"}, UNCHANGED <<listeners, callbacks, gets>>
  PROVE  AskOK(d)' /\ \A w, i, g : GetAt(d, w, i, g)' <=> GetAt(d, w, i, g)
<1>1. \A w, i, g : GetAt(d, w, i, g)' <=> GetAt(d, w, i, g)
  <2>1. \A i, g : GetAt(d, "worker", i, g)' <=> GetAt(d, "worker", i, g)
    BY GetEnqueued
  <2>2. /\ \A i, l : ListenerAt(d, i, l)' <=> ListenerAt(d, i, l)
        /\ \A i, c : CallbackAt(d, i, c)' <=> CallbackAt(d, i, c)
    BY DEF ListenerAt, CallbackAt
  <2> QED
    BY <2>1, <2>2, GetsByListeners
<1>2. \A i, s : TaskAt(d, i, s)' /\ s.task = "unlisten" => TaskAt(d, i, s)
  BY TaskAdded
<1> QED
  BY <1>1, <1>2 DEF AskOK, OneAsk, AskIds, Unlistened

(* A new get has a new number.                                             *)
LEMMA GetDocumentsAsk ==
  ASSUME FirestoreTypeOK, WorkerOK, NEW d \in Devices, AskOK(d), NEW query, GetDocuments(d, query)
  PROVE  /\ AskOK(d)' /\ Len(worker[d]) \in Nat
         /\ \A w, i, g : GetAt(d, w, i, g)' <=>
              \/ GetAt(d, w, i, g)
              \/ /\ w = "worker" /\ i = Len(worker[d]) + 1
                 /\ g = [id |-> gets[d] + 1, query |-> query,
                         owes |-> (WrittenBefore(d) \cup cache[d]) \cap Matching[query]]
<1> DEFINE get == [id |-> gets[d] + 1, query |-> query, raised |-> FALSE,
                   owes |-> (WrittenBefore(d) \cup cache[d]) \cap Matching[query]]
           ask == [id |-> gets[d] + 1, query |-> query,
                   owes |-> (WrittenBefore(d) \cup cache[d]) \cap Matching[query]]
           t == ListenTask(get)
           n == Len(worker[d])
<1>1. /\ Enqueue(d, t) /\ gets[d] \in Nat /\ gets' = [gets EXCEPT ![d] = gets[d] + 1]
      /\ UNCHANGED <<listeners, callbacks>>
  BY DEF GetDocuments, FirestoreTypeOK, listenVars
<1>2. Asking(get) = ask /\ t.task = "listen" /\ t.get = get /\ ask.id = gets[d] + 1
  BY DEF Asking, ListenTask
<1> HIDE DEF t, ask, get
<1>3. /\ n \in Nat
      /\ \A i, g : GetAt(d, "worker", i, g) => i \in Nat /\ i <= n
      /\ \A i, g : GetAt(d, "worker", i, g)' <=> GetAt(d, "worker", i, g) \/ (i = n + 1 /\ g = ask)
  BY <1>1, <1>2, GetEnqueued
<1>a. \A i, s : TaskAt(d, i, s)' /\ s.task = "unlisten" => TaskAt(d, i, s)
  BY <1>1, <1>2, TaskAdded
<1>4. \A i, g : /\ GetAt(d, "listener", i, g)' <=> GetAt(d, "listener", i, g)
                /\ GetAt(d, "callback", i, g)' <=> GetAt(d, "callback", i, g)
  <2>1. /\ \A i, l : ListenerAt(d, i, l)' <=> ListenerAt(d, i, l)
        /\ \A i, c : CallbackAt(d, i, c)' <=> CallbackAt(d, i, c)
    BY <1>1 DEF ListenerAt, CallbackAt
  <2> QED
    BY <2>1, GetsByListeners
<1> HIDE DEF n
<1>5. \A w, i, g : GetAt(d, w, i, g)' <=>
         GetAt(d, w, i, g) \/ (w = "worker" /\ i = n + 1 /\ g = ask)
  <2> SUFFICES ASSUME NEW w, NEW i, NEW g
               PROVE  GetAt(d, w, i, g)' <=>
                        GetAt(d, w, i, g) \/ (w = "worker" /\ i = n + 1 /\ g = ask)
    OBVIOUS
  <2>1. CASE w = "worker"
    BY <1>3, <2>1
  <2>2. CASE w \in {"listener", "callback"}
    BY <1>4, <2>2
  <2>3. CASE w \notin {"worker", "listener", "callback"}
    BY <2>3, GetsByListeners
  <2> QED
    BY <2>1, <2>2, <2>3
<1>6. \A w, i, g : GetAt(d, w, i, g) => g.id # ask.id /\ g.id <= gets'[d]
  <2> SUFFICES ASSUME NEW w, NEW i, NEW g, GetAt(d, w, i, g) PROVE g.id # ask.id /\ g.id <= gets'[d]
    OBVIOUS
  <2>1. g.id \in Nat /\ g.id <= gets[d]
    BY GetPlaces DEF AskOK, AskIds
  <2>2. gets'[d] = gets[d] + 1
    BY <1>1 DEF FirestoreTypeOK
  <2> QED
    BY <1>1, <1>2, <2>1, <2>2
<1>7. ask.id <= gets'[d]
  BY <1>1, <1>2 DEF FirestoreTypeOK
<1>8. OneAsk(d)'
  BY <1>5, <1>6 DEF AskOK, OneAsk
<1>9. AskIds(d)'
  BY <1>5, <1>6, <1>7 DEF AskIds
<1>10. Unlistened(d)'
  <2> SUFFICES ASSUME NEW i, NEW s, TaskAt(d, i, s)', s.task = "unlisten"
               PROVE  s.id <= gets'[d] /\ \A w, j, g : GetAt(d, w, j, g)' => g.id # s.id
    BY DEF Unlistened
  <2>1. TaskAt(d, i, s) /\ s.id <= gets[d] /\ \A w, j, g : GetAt(d, w, j, g) => g.id # s.id
    BY <1>a DEF AskOK, Unlistened
  <2>2. s.id \in Nat
    BY <2>1, GetPlaces, TaskTypes
  <2>3. s.id <= gets[d] + 1 /\ s.id # gets[d] + 1
    BY <1>1, <2>1, <2>2
  <2>4. gets'[d] = gets[d] + 1
    BY <1>1 DEF FirestoreTypeOK
  <2> QED
    BY <1>2, <1>5, <2>1, <2>3, <2>4
<1> QED
  BY <1>3, <1>5, <1>8, <1>9, <1>10 DEF AskOK, ask, n

(* A task that is no get has run; the listeners may have lost those with   *)
(* its number.                                                             *)
LEMMA OtherRunAsk ==
  ASSUME FirestoreTypeOK, WorkerOK, NEW d \in Devices, AskOK(d), worker[d] # <<>>,
         Head(worker[d]).task # "listen", worker' = [worker EXCEPT ![d] = Tail(@)],
         UNCHANGED <<listeners, callbacks, gets>>
  PROVE  /\ AskOK(d)'
         /\ \A i, g : GetAt(d, "worker", i, g)' <=> i \in Nat \ {0} /\ GetAt(d, "worker", i + 1, g)
         /\ \A w, i, g : w # "worker" => (GetAt(d, w, i, g)' <=> GetAt(d, w, i, g))
<1>1. /\ \A i, g : GetAt(d, "worker", i, g)' <=> i \in Nat \ {0} /\ GetAt(d, "worker", i + 1, g)
      /\ \A i, s : TaskAt(d, i, s)' => TaskAt(d, i + 1, s)
  BY GetTaskGone, TaskGone
<1>2. \A w, i, g : w # "worker" => (GetAt(d, w, i, g)' <=> GetAt(d, w, i, g))
  <2>1. /\ \A i, l : ListenerAt(d, i, l)' <=> ListenerAt(d, i, l)
        /\ \A i, c : CallbackAt(d, i, c)' <=> CallbackAt(d, i, c)
    BY DEF ListenerAt, CallbackAt
  <2>2. \A i, g : /\ GetAt(d, "listener", i, g)' <=> GetAt(d, "listener", i, g)
                  /\ GetAt(d, "callback", i, g)' <=> GetAt(d, "callback", i, g)
    BY <2>1, GetsByListeners
  <2> QED
    BY <2>2, GetsByListeners
<1> DEFINE From(w, i, v, j) == v = w /\ (w = "worker" => i \in Nat /\ j = i + 1) /\ (w # "worker" => j = i)
<1>3. \A w, i, g : GetAt(d, w, i, g)' => \E v, j : From(w, i, v, j) /\ GetAt(d, v, j, g)
  BY <1>1, <1>2
<1>4. \A w, i, v, j, x, k : From(w, i, x, k) /\ From(v, j, x, k) => w = v /\ i = j
  OBVIOUS
<1> HIDE DEF From
<1>5. OneAsk(d)'
  <2> SUFFICES ASSUME NEW v, NEW w, NEW i, NEW j, NEW g, NEW h,
                      GetAt(d, v, i, g)', GetAt(d, w, j, h)', g.id = h.id
               PROVE  v = w /\ i = j
    BY DEF OneAsk
  <2>1. PICK x, k : From(v, i, x, k) /\ GetAt(d, x, k, g)
    BY <1>3
  <2>2. PICK y, l : From(w, j, y, l) /\ GetAt(d, y, l, h)
    BY <1>3
  <2>3. x = y /\ k = l
    BY <2>1, <2>2 DEF AskOK, OneAsk
  <2> QED
    BY <1>4, <2>1, <2>2, <2>3
<1>6. AskIds(d)' /\ Unlistened(d)'
  BY <1>1, <1>3 DEF AskOK, AskIds, Unlistened
<1> QED
  BY <1>1, <1>2, <1>5, <1>6 DEF AskOK

(* The first task has run.                                                 *)
TaskLeaves(d) ==
  /\ \A i, g : GetAt(d, "worker", i, g)' <=> i \in Nat \ {0} /\ GetAt(d, "worker", i + 1, g)
  /\ \A i, t : TaskAt(d, i, t)' => TaskAt(d, i + 1, t)

(* A get has become a listener that waits, or a completion block is due.   *)
GetJoins(d, get, atOnce, n, m) ==
  /\ n \in Nat /\ m \in Nat /\ atOnce \in BOOLEAN /\ get \in Get
  /\ GetAt(d, "worker", 1, Asking(get)) /\ TaskLeaves(d)
  /\ \A i, g : GetAt(d, "listener", i, g) => i \in Nat /\ i <= n
  /\ \A i, g : GetAt(d, "listener", i, g)' <=>
       GetAt(d, "listener", i, g) \/ (~atOnce /\ i = n + 1 /\ g = Asking(get))
  /\ \A i, c : CallbackAt(d, i, c) => i \in Nat /\ i <= m
  /\ \A i, c : CallbackAt(d, i, c)' <=>
       \/ CallbackAt(d, i, c)
       \/ atOnce /\ i = m + 1 /\ c = CallbackFor(get, LocalView(d, get.query))

LEMMA CallbackAdded ==
  ASSUME FirestoreTypeOK, NEW d \in Devices, NEW c,
         callbacks' = [callbacks EXCEPT ![d] = Append(@, c)]
  PROVE  /\ Len(callbacks[d]) \in Nat
         /\ \A i, b : CallbackAt(d, i, b) => i \in Nat /\ i <= Len(callbacks[d])
         /\ \A i, b : CallbackAt(d, i, b)' <=> CallbackAt(d, i, b) \/ (i = Len(callbacks[d]) + 1 /\ b = c)
<1> DEFINE s == callbacks[d]
           n == Len(s)
<1>1. IsSeq(s) /\ callbacks'[d] = Append(s, c)
  BY DEF FirestoreTypeOK, IsSeq
<1>2. /\ n \in Nat /\ DOMAIN s = 1 .. n /\ DOMAIN Append(s, c) = 1 .. n + 1
      /\ \A i \in 1 .. n : Append(s, c)[i] = s[i]
      /\ Append(s, c)[n + 1] = c
  BY <1>1, Appended
<1>3. /\ \A i : i \in 1 .. n + 1 <=> i \in 1 .. n \/ i = n + 1
      /\ n + 1 \notin 1 .. n /\ \A i \in 1 .. n : i \in Nat /\ i <= n
  BY <1>2
<1> QED
  BY <1>1, <1>2, <1>3 DEF CallbackAt

LEMMA RunListenMoves ==
  ASSUME FirestoreTypeOK, WorkerOK, NEW d \in Devices, RunListen(d)
  PROVE  \E get, atOnce, n, m : GetJoins(d, get, atOnce, n, m)
<1>1. /\ worker[d] # <<>> /\ worker' = [worker EXCEPT ![d] = Tail(@)]
      /\ Head(worker[d]).task = "listen"
  BY DEF RunListen, HeadIs, RegisterGet
<1>2. PICK get \in Get : get = Head(worker[d]).get
  <2>1. worker[d] \in Seq(Task)
    BY DEF FirestoreTypeOK
  <2> QED
    BY <1>1, <2>1, Elements, TaskTypes
<1>3. PICK atOnce \in BOOLEAN :
        /\ listeners' = [listeners EXCEPT ![d] = Append(@, [get EXCEPT !.raised = atOnce])]
        /\ callbacks' = IF atOnce
             THEN [callbacks EXCEPT ![d] = Append(@, CallbackFor(get, LocalView(d, get.query)))]
             ELSE callbacks
  <2>1. (offline[d] \/ get.query \in synced[d]) \in BOOLEAN
    BY DEF FirestoreTypeOK
  <2> QED
    BY <1>2, <2>1 DEF RunListen, RegisterGet
<1> DEFINE l == [get EXCEPT !.raised = atOnce]
           c == CallbackFor(get, LocalView(d, get.query))
<1>4. l \in Get /\ l.raised = atOnce /\ Asking(l) = Asking(get)
  BY DEF Get, Asking
<1> HIDE DEF l, c
<1>5. GetAt(d, "worker", 1, Asking(get)) /\ TaskLeaves(d)
  BY <1>1, <1>2, GetTaskGone, TaskGone DEF TaskLeaves
<1>6. PICK n \in Nat :
        /\ \A i, k : ListenerAt(d, i, k) => i \in Nat /\ i <= n
        /\ \A i, k : ListenerAt(d, i, k)' <=> ListenerAt(d, i, k) \/ (i = n + 1 /\ k = l)
  BY <1>3, <1>4, ListenerAdded DEF l
<1>a. \A i, g : GetAt(d, "listener", i, g) => i \in Nat /\ i <= n
  BY <1>6, GetsByListeners
<1>7. ASSUME NEW i, NEW g
      PROVE  GetAt(d, "listener", i, g)' <=>
               GetAt(d, "listener", i, g) \/ (~atOnce /\ i = n + 1 /\ g = Asking(get))
  <2>1. GetAt(d, "listener", i, g)' <=>
          \E k : /\ ListenerAt(d, i, k) \/ (i = n + 1 /\ k = l)
                 /\ ~k.raised /\ g = Asking(k)
    <3>1. \A k : ListenerAt(d, i, k)' <=> ListenerAt(d, i, k) \/ (i = n + 1 /\ k = l)
      BY <1>6
    <3>2. GetAt(d, "listener", i, g)' <=> \E k : ListenerAt(d, i, k)' /\ ~k.raised /\ g = Asking(k)
      BY GetsByListeners
    <3> QED
      BY <3>1, <3>2
  <2> QED
    BY <1>4, <2>1, GetsByListeners
<1>8. /\ Len(callbacks[d]) \in Nat
      /\ \A i, b : CallbackAt(d, i, b) => i \in Nat /\ i <= Len(callbacks[d])
  <2>1. callbacks[d] \in Seq(Callback)
    BY DEF FirestoreTypeOK
  <2> QED
    BY <2>1 DEF CallbackAt
<1>9. PICK m \in Nat : m = Len(callbacks[d])
  BY <1>8
<1>10. \A i, b : CallbackAt(d, i, b)' <=> CallbackAt(d, i, b) \/ (atOnce /\ i = m + 1 /\ b = c)
  <2>1. CASE atOnce
    <3>1. callbacks' = [callbacks EXCEPT ![d] = Append(@, c)]
      BY <1>3, <2>1 DEF c
    <3> QED
      BY <1>9, <2>1, <3>1, CallbackAdded
  <2>2. CASE ~atOnce
    <3>1. callbacks' = callbacks
      BY <1>3, <2>2
    <3> QED
      BY <2>2, <3>1 DEF CallbackAt
  <2> QED
    BY <2>1, <2>2
<1>11. GetJoins(d, get, atOnce, n, m)
  BY <1>5, <1>a, <1>7, <1>8, <1>9, <1>10 DEF GetJoins, c
<1> QED
  BY <1>11

LEMMA RunListenAsk ==
  ASSUME FirestoreTypeOK, WorkerOK, NEW d \in Devices, AskOK(d), UNCHANGED gets,
         NEW get, NEW atOnce, NEW n, NEW m, GetJoins(d, get, atOnce, n, m)
  PROVE  AskOK(d)'
<1> DEFINE ask == Asking(get)
           From(w, i, v, j) ==
             \/ v = w /\ w = "worker" /\ i \in Nat \ {0} /\ j = i + 1
             \/ v = w /\ w = "listener" /\ j = i /\ i \in Nat /\ i <= n
             \/ v = w /\ w = "callback" /\ j = i /\ i \in Nat /\ i <= m
             \/ v = "worker" /\ j = 1 /\ ~atOnce /\ w = "listener" /\ i = n + 1
             \/ v = "worker" /\ j = 1 /\ atOnce /\ w = "callback" /\ i = m + 1
<1>1. /\ n \in Nat /\ m \in Nat /\ GetAt(d, "worker", 1, ask) /\ TaskLeaves(d)
      /\ Asking(CallbackFor(get, LocalView(d, get.query))) = ask
  BY DEF GetJoins, CallbackFor, Asking
<1> HIDE DEF ask
<1>2. /\ \A i, g : GetAt(d, "listener", i, g) => i \in Nat /\ i <= n
      /\ \A i, g : GetAt(d, "callback", i, g) => i \in Nat /\ i <= m
  BY GetsByListeners DEF GetJoins
<1>3. \A i, g : GetAt(d, "listener", i, g)' <=>
        GetAt(d, "listener", i, g) \/ (~atOnce /\ i = n + 1 /\ g = ask)
  BY DEF GetJoins, ask
<1>4. \A i, g : GetAt(d, "callback", i, g)' <=>
        GetAt(d, "callback", i, g) \/ (atOnce /\ i = m + 1 /\ g = ask)
  <2> SUFFICES ASSUME NEW i, NEW g
               PROVE  GetAt(d, "callback", i, g)' <=>
                        GetAt(d, "callback", i, g) \/ (atOnce /\ i = m + 1 /\ g = ask)
    OBVIOUS
  <2> DEFINE b == CallbackFor(get, LocalView(d, get.query))
  <2>1. \A c : CallbackAt(d, i, c)' <=> CallbackAt(d, i, c) \/ (atOnce /\ i = m + 1 /\ c = b)
    BY DEF GetJoins
  <2>2. Asking(b) = ask
    BY <1>1
  <2> HIDE DEF b
  <2>3. GetAt(d, "callback", i, g)' <=>
          \E c : /\ CallbackAt(d, i, c) \/ (atOnce /\ i = m + 1 /\ c = b)
                 /\ g = Asking(c)
    BY <2>1, GetsByListeners
  <2> QED
    BY <2>2, <2>3, GetsByListeners
<1>5. ASSUME NEW w, NEW i, NEW g, GetAt(d, w, i, g)'
      PROVE  \E v, j : From(w, i, v, j) /\ GetAt(d, v, j, g)
  <2>1. CASE w = "worker"
    BY <1>1, <1>5, <2>1 DEF TaskLeaves
  <2>2. CASE w = "listener"
    <3>1. CASE GetAt(d, "listener", i, g)
      BY <1>2, <2>2, <3>1
    <3>2. CASE ~atOnce /\ i = n + 1 /\ g = ask
      BY <1>1, <2>2, <3>2
    <3> QED
      BY <1>3, <1>5, <2>2, <3>1, <3>2
  <2>3. CASE w = "callback"
    <3>1. CASE GetAt(d, "callback", i, g)
      BY <1>2, <2>3, <3>1
    <3>2. CASE atOnce /\ i = m + 1 /\ g = ask
      BY <1>1, <2>3, <3>2
    <3> QED
      BY <1>4, <1>5, <2>3, <3>1, <3>2
  <2> QED
    BY <1>5, <2>1, <2>2, <2>3, GetsByListeners
<1>6. \A w, i, v, j, x, k : From(w, i, x, k) /\ From(v, j, x, k) => w = v /\ i = j
  BY <1>1
<1> HIDE DEF From
<1>7. OneAsk(d)'
  <2> SUFFICES ASSUME NEW v, NEW w, NEW i, NEW j, NEW g, NEW h,
                      GetAt(d, v, i, g)', GetAt(d, w, j, h)', g.id = h.id
               PROVE  v = w /\ i = j
    BY DEF OneAsk
  <2>1. PICK x, k : From(v, i, x, k) /\ GetAt(d, x, k, g)
    BY <1>5
  <2>2. PICK y, l : From(w, j, y, l) /\ GetAt(d, y, l, h)
    BY <1>5
  <2>3. x = y /\ k = l
    BY <2>1, <2>2 DEF AskOK, OneAsk
  <2> QED
    BY <1>6, <2>1, <2>2, <2>3
<1>8. AskIds(d)' /\ Unlistened(d)'
  BY <1>1, <1>5 DEF AskOK, AskIds, Unlistened, TaskLeaves
<1> QED
  BY <1>7, <1>8 DEF AskOK

(* A listener is removed when its completion block has run: no other goes. *)
ListenersLeave(d, f) ==
  /\ TaskLeaves(d)
  /\ \A i, g : GetAt(d, "callback", i, g)' <=> GetAt(d, "callback", i, g)
  /\ \A i, g : GetAt(d, "listener", i, g)' => GetAt(d, "listener", f[i], g)
  /\ \A i, j, g, h : GetAt(d, "listener", i, g)' /\ GetAt(d, "listener", j, h)' /\ f[i] = f[j] => i = j
  /\ \A i, g : GetAt(d, "listener", i, g) => \E j : GetAt(d, "listener", j, g)'

LEMMA RunUnlistenMoves ==
  ASSUME FirestoreTypeOK, WorkerOK, NEW d \in Devices, AskOK(d), RunUnlisten(d)
  PROVE  \E f : ListenersLeave(d, f) /\ ~\E g : GetAt(d, "worker", 1, g)
<1>1. /\ worker[d] # <<>> /\ worker' = [worker EXCEPT ![d] = Tail(@)]
      /\ Head(worker[d]).task = "unlisten" /\ UNCHANGED callbacks
  BY DEF RunUnlisten, HeadIs, mainVars
<1>2. PICK S : /\ S = {get \in ToSet(listeners[d]) : get.id # Head(worker[d]).id}
               /\ listeners'[d] = Select(listeners[d], S)
  BY DEF RunUnlisten, FirestoreTypeOK
<1>3. TaskLeaves(d) /\ TaskAt(d, 1, Head(worker[d])) /\ ~\E g : GetAt(d, "worker", 1, g)
  BY <1>1, GetTaskGone, TaskGone DEF TaskLeaves
<1>4. PICK f : ListenersCut(d, S, f)
  BY <1>2, ListenersKept
<1>5. \A i, g : GetAt(d, "listener", i, g)' => GetAt(d, "listener", f[i], g)
  BY <1>4, GetsByListeners DEF ListenersCut
<1>6. \A i, j, g, h : GetAt(d, "listener", i, g)' /\ GetAt(d, "listener", j, h)' /\ f[i] = f[j] => i = j
  <2>1. \A i, g : GetAt(d, "listener", i, g)' => \E l : ListenerAt(d, i, l)'
    BY GetsByListeners
  <2> QED
    BY <1>4, <2>1 DEF ListenersCut
<1>7. ASSUME NEW i, NEW g, GetAt(d, "listener", i, g)
      PROVE  \E j : GetAt(d, "listener", j, g)'
  <2>1. PICK l : ListenerAt(d, i, l) /\ ~l.raised /\ g = Asking(l)
    BY <1>7, GetsByListeners
  <2>2. g.id # Head(worker[d]).id
    BY <1>1, <1>3, <1>7 DEF AskOK, Unlistened
  <2>3. l \in S
    BY <1>2, <2>1, <2>2 DEF ListenerAt, ToSet, Asking
  <2>4. \E j : ListenerAt(d, j, l)'
    BY <1>4, <2>1, <2>3 DEF ListenersCut
  <2> QED
    BY <2>1, <2>4, GetsByListeners
<1>8. \A i, g : GetAt(d, "callback", i, g)' <=> GetAt(d, "callback", i, g)
  <2>1. \A i, c : CallbackAt(d, i, c)' <=> CallbackAt(d, i, c)
    BY <1>1 DEF CallbackAt
  <2> QED
    BY <2>1, GetsByListeners
<1> QED
  BY <1>3, <1>5, <1>6, <1>7, <1>8 DEF ListenersLeave

LEMMA RunUnlistenAsk ==
  ASSUME NEW d, AskOK(d), UNCHANGED gets, NEW f, ListenersLeave(d, f)
  PROVE  AskOK(d)'
<1> DEFINE From(w, i, v, j) ==
             \/ v = w /\ w = "worker" /\ i \in Nat \ {0} /\ j = i + 1
             \/ v = w /\ w = "listener" /\ j = f[i]
             \/ v = w /\ w = "callback" /\ j = i
<1>1. ASSUME NEW w, NEW i, NEW g, GetAt(d, w, i, g)'
      PROVE  \E v, j : From(w, i, v, j) /\ GetAt(d, v, j, g)
  <2>1. CASE w = "worker"
    BY <1>1, <2>1 DEF ListenersLeave, TaskLeaves
  <2>2. CASE w \in {"listener", "callback"}
    BY <1>1, <2>2 DEF ListenersLeave
  <2> QED
    BY <1>1, <2>1, <2>2, GetsByListeners
<1>2. ASSUME NEW w, NEW v, NEW i, NEW j, NEW g, NEW h, NEW x, NEW k,
             GetAt(d, w, i, g)', GetAt(d, v, j, h)', From(w, i, x, k), From(v, j, x, k)
      PROVE  w = v /\ i = j
  BY <1>2 DEF ListenersLeave
<1> HIDE DEF From
<1>3. OneAsk(d)'
  <2> SUFFICES ASSUME NEW v, NEW w, NEW i, NEW j, NEW g, NEW h,
                      GetAt(d, v, i, g)', GetAt(d, w, j, h)', g.id = h.id
               PROVE  v = w /\ i = j
    BY DEF OneAsk
  <2>1. PICK x, k : From(v, i, x, k) /\ GetAt(d, x, k, g)
    BY <1>1
  <2>2. PICK y, l : From(w, j, y, l) /\ GetAt(d, y, l, h)
    BY <1>1
  <2>3. x = y /\ k = l
    BY <2>1, <2>2 DEF AskOK, OneAsk
  <2> QED
    BY <1>2, <2>1, <2>2, <2>3
<1>4. AskIds(d)' /\ Unlistened(d)'
  BY <1>1 DEF AskOK, AskIds, Unlistened, ListenersLeave, TaskLeaves
<1> QED
  BY <1>3, <1>4 DEF AskOK

(* Waiting gets of these queries become completion blocks that are due.    *)
GetsRaised(d, queries, view, n, f, h) ==
  /\ n \in Nat
  /\ \A i, g : GetAt(d, "worker", i, g)' <=> GetAt(d, "worker", i, g)
  /\ \A i, t : TaskAt(d, i, t)' <=> TaskAt(d, i, t)
  /\ \A i, g : GetAt(d, "listener", i, g)' => GetAt(d, "listener", h[i], g) /\ g.query \notin queries
  /\ \A i, j, g, a : GetAt(d, "listener", i, g)' /\ GetAt(d, "listener", j, a)' /\ h[i] = h[j] => i = j
  /\ \A i, g : GetAt(d, "listener", i, g) /\ g.query \notin queries =>
       \E j : GetAt(d, "listener", j, g)'
  /\ \A i, c : CallbackAt(d, i, c) <=> CallbackAt(d, i, c)' /\ i <= n
  /\ \A i, c : CallbackAt(d, i, c)' /\ ~(i <= n) =>
       /\ GetAt(d, "listener", f[i], Asking(c)) /\ c.query \in queries
       /\ \/ c.failed /\ c.docs = {}
          \/ c.docs = view[c.query]
  /\ \A i, j, c, b : (/\ CallbackAt(d, i, c)' /\ CallbackAt(d, j, b)'
                      /\ ~(i <= n) /\ ~(j <= n) /\ f[i] = f[j]) => i = j
  /\ \A i, g : GetAt(d, "listener", i, g) /\ g.query \in queries => \E j : GetAt(d, "callback", j, g)'

(* The completion blocks of a part of the waiting listeners.               *)
LEMMA BlocksOfListeners ==
  ASSUME NEW d, NEW queries, NEW S, NEW due, NEW n, NEW f, CallbacksJoin(d, S, due, n, f),
         \A l : l \in S <=> l \in ToSet(listeners[d]) /\ ~l.raised /\ l.query \in queries
  PROVE  /\ \A i, c : CallbackAt(d, i, c)' /\ ~(i <= n) =>
              GetAt(d, "listener", f[i], Asking(c)) /\ c.query \in queries
         /\ \A i, g : GetAt(d, "listener", i, g) /\ g.query \in queries =>
              \E j : GetAt(d, "callback", j, g)'
<1>1. ASSUME NEW i, NEW c, CallbackAt(d, i, c)', ~(i <= n)
      PROVE  GetAt(d, "listener", f[i], Asking(c)) /\ c.query \in queries
  <2>1. PICK l : ListenerAt(d, f[i], l) /\ l \in S /\ Asking(l) = Asking(c)
    BY <1>1 DEF CallbacksJoin
  <2>2. ~l.raised /\ l.query \in queries /\ c.query = l.query
    BY <2>1 DEF Asking
  <2> QED
    BY <2>1, <2>2, GetsByListeners
<1>2. ASSUME NEW i, NEW g, GetAt(d, "listener", i, g), g.query \in queries
      PROVE  \E j : GetAt(d, "callback", j, g)'
  <2>1. PICK l : ListenerAt(d, i, l) /\ ~l.raised /\ g = Asking(l)
    BY <1>2, GetsByListeners
  <2>2. l \in S
    BY <1>2, <2>1 DEF ListenerAt, ToSet, Asking
  <2>3. PICK j : \E c : CallbackAt(d, j, c)' /\ ~(j <= n) /\ Asking(c) = Asking(l)
    BY <2>1, <2>2 DEF CallbacksJoin
  <2> QED
    BY <2>1, <2>3, GetsByListeners
<1> QED
  BY <1>1, <1>2

LEMMA RaiseMoves ==
  ASSUME FirestoreTypeOK, NEW d \in Devices, NEW queries, NEW view,
         \A q \in queries : view[q] \subseteq Docs, RaiseWaiting(d, queries, view), UNCHANGED worker
  PROVE  \E n, f, h : GetsRaised(d, queries, view, n, f, h)
<1>1. PICK S : S = {get \in ToSet(listeners[d]) : ~get.raised /\ get.query \in queries}
  OBVIOUS
<1> DEFINE waiting == Select(listeners[d], S)
           due == [i \in DOMAIN waiting |-> CallbackFor(waiting[i], view[waiting[i].query])]
<1>2. listeners[d] \in Seq(Get) /\ callbacks[d] \in Seq(Callback)
  BY DEF FirestoreTypeOK
<1>3. waiting \in Seq(Get) /\ ToSet(waiting) \subseteq S
  BY <1>2, Elements
<1>4. /\ callbacks' = [callbacks EXCEPT ![d] = callbacks[d] \o due]
      /\ listeners' = [listeners EXCEPT ![d] = [i \in DOMAIN listeners[d] |-> Told(listeners[d][i], queries)]]
  BY <1>1 DEF RaiseWaiting
<1>5. PICK gets2 : gets2 = waiting
  OBVIOUS
<1>6. /\ DOMAIN gets2 = 1 .. Len(gets2) /\ Len(gets2) \in Nat
      /\ \A i \in 1 .. Len(gets2) : gets2[i] \in Get /\ gets2[i].query \in queries
  <2>1. \A i \in DOMAIN gets2 : gets2[i] \in S
    BY <1>3, <1>5 DEF ToSet
  <2>2. gets2 \in Seq(Get)
    BY <1>3, <1>5
  <2>3. \A g \in S : g.query \in queries
    BY <1>1
  <2> QED
    BY <2>1, <2>2, <2>3
<1>7. PICK blocks : /\ blocks = due /\ blocks = [i \in 1 .. Len(gets2) |-> CallbackFor(gets2[i], view[gets2[i].query])]
  BY <1>5, <1>6
<1> HIDE DEF waiting, due
<1>8. \A i \in 1 .. Len(gets2) : /\ blocks[i] \in Callback /\ Asking(blocks[i]) = Asking(gets2[i])
                                 /\ blocks[i].docs = view[blocks[i].query]
  <2>1. \A g \in Get : \A docs \in SUBSET Docs :
          /\ CallbackFor(g, docs) \in Callback /\ Asking(CallbackFor(g, docs)) = Asking(g)
          /\ CallbackFor(g, docs).docs = docs /\ CallbackFor(g, docs).query = g.query
    BY DEF Get, Callback, CallbackFor, Asking
  <2> QED
    BY <1>6, <1>7, <2>1
<1>9. blocks \in Seq(Callback) /\ Len(blocks) = Len(gets2)
  <2>1. blocks \in [1 .. Len(gets2) -> Callback]
    BY <1>7, <1>8
  <2> QED
    BY <1>6, <2>1
<1>10. PICK n : \E f : CallbacksJoin(d, S, blocks, n, f)
  BY <1>4, <1>5, <1>7, <1>8, <1>9, CalledBack DEF waiting
<1>11. PICK f : CallbacksJoin(d, S, blocks, n, f)
  BY <1>10
<1>12. /\ \A i, c : CallbackAt(d, i, c)' /\ ~(i <= n) =>
            GetAt(d, "listener", f[i], Asking(c)) /\ c.query \in queries
       /\ \A i, g : GetAt(d, "listener", i, g) /\ g.query \in queries =>
            \E j : GetAt(d, "callback", j, g)'
  BY <1>1, <1>11, BlocksOfListeners
<1>13. \A i, c : CallbackAt(d, i, c)' /\ ~(i <= n) => c.docs = view[c.query]
  BY <1>8, <1>9, <1>11 DEF CallbacksJoin
<1>14. \A i, l : ListenerAt(d, i, l)' <=> \E k : ListenerAt(d, i, k) /\ l = Told(k, queries)
  <2>1. listeners'[d] = [i \in DOMAIN listeners[d] |-> Told(listeners[d][i], queries)]
    BY <1>4 DEF FirestoreTypeOK
  <2> QED
    BY <2>1 DEF ListenerAt
<1>15. \A k \in Get : /\ Told(k, queries).raised <=> (k.raised \/ k.query \in queries)
                      /\ Asking(Told(k, queries)) = Asking(k) /\ Asking(k).query = k.query
  BY DEF Told, Get, Asking
<1>16. ASSUME NEW i, NEW g
       PROVE  GetAt(d, "listener", i, g)' <=> GetAt(d, "listener", i, g) /\ g.query \notin queries
  <2>1. \A k : ListenerAt(d, i, k) => k \in Get
    BY GetPlaces
  <2>2. GetAt(d, "listener", i, g)' <=>
          \E k : ListenerAt(d, i, k) /\ ~Told(k, queries).raised /\ g = Asking(Told(k, queries))
    <3>1. \A l : ListenerAt(d, i, l)' <=> \E k : ListenerAt(d, i, k) /\ l = Told(k, queries)
      BY <1>14
    <3>2. GetAt(d, "listener", i, g)' <=> \E l : ListenerAt(d, i, l)' /\ ~l.raised /\ g = Asking(l)
      BY GetsByListeners
    <3> QED
      BY <3>1, <3>2
  <2>3. GetAt(d, "listener", i, g) <=> \E k : ListenerAt(d, i, k) /\ ~k.raised /\ g = Asking(k)
    BY GetsByListeners
  <2>4. \A k : ListenerAt(d, i, k) =>
          /\ Told(k, queries).raised <=> (k.raised \/ k.query \in queries)
          /\ Asking(Told(k, queries)) = Asking(k) /\ Asking(k).query = k.query
    BY <1>15, <2>1
  <2>5. GetAt(d, "listener", i, g)' => GetAt(d, "listener", i, g) /\ g.query \notin queries
    BY <2>2, <2>3, <2>4
  <2>6. GetAt(d, "listener", i, g) /\ g.query \notin queries => GetAt(d, "listener", i, g)'
    BY <2>2, <2>3, <2>4
  <2> QED
    BY <2>5, <2>6
<1> DEFINE h == [i \in Nat |-> i]
<1>17. \A i, g : GetAt(d, "listener", i, g) => i \in Nat /\ h[i] = i
  BY GetPlaces
<1> HIDE DEF h
<1>18. /\ \A i, g : GetAt(d, "worker", i, g)' <=> GetAt(d, "worker", i, g)
       /\ \A i, t : TaskAt(d, i, t)' <=> TaskAt(d, i, t)
  <2>1. \A i, t : TaskAt(d, i, t)' <=> TaskAt(d, i, t)
    BY DEF TaskAt
  <2> QED
    BY <2>1 DEF GetAt
<1>19. GetsRaised(d, queries, view, n, f, h)
  <2>1. n \in Nat /\ \A i, c : CallbackAt(d, i, c) <=> CallbackAt(d, i, c)' /\ i <= n
    BY <1>11 DEF CallbacksJoin
  <2>2. \A i, j, c, b : (/\ CallbackAt(d, i, c)' /\ CallbackAt(d, j, b)'
                         /\ ~(i <= n) /\ ~(j <= n) /\ f[i] = f[j]) => i = j
    BY <1>11 DEF CallbacksJoin
  <2>3. \A i, g : GetAt(d, "listener", i, g)' => GetAt(d, "listener", h[i], g) /\ g.query \notin queries
    BY <1>16, <1>17
  <2>4. \A i, j, g, a : GetAt(d, "listener", i, g)' /\ GetAt(d, "listener", j, a)' /\ h[i] = h[j] => i = j
    BY <1>16, <1>17
  <2> QED
    BY <1>12, <1>13, <1>16, <1>18, <2>1, <2>2, <2>3, <2>4 DEF GetsRaised
<1> QED
  BY <1>19

LEMMA RefusedMoves ==
  ASSUME FirestoreTypeOK, NEW d \in Devices, NEW query, ListenRefused(d, query), NEW view
  PROVE  \E n, f, h : GetsRaised(d, {query}, view, n, f, h)
<1>1. PICK S : S = {get \in ToSet(listeners[d]) : get.query = query /\ ~get.raised}
  OBVIOUS
<1>2. PICK T : T = {get \in ToSet(listeners[d]) : get.query # query}
  OBVIOUS
<1> DEFINE failing == Select(listeners[d], S)
           due == [i \in DOMAIN failing |-> [CallbackFor(failing[i], {}) EXCEPT !.failed = TRUE]]
<1>3. listeners[d] \in Seq(Get) /\ callbacks[d] \in Seq(Callback)
  BY DEF FirestoreTypeOK
<1>4. failing \in Seq(Get)
  BY <1>3, Elements
<1>5. /\ callbacks' = [callbacks EXCEPT ![d] = callbacks[d] \o due]
      /\ listeners' = [listeners EXCEPT ![d] = Select(@, T)] /\ UNCHANGED worker
  BY <1>1, <1>2 DEF ListenRefused
<1>6. listeners'[d] = Select(listeners[d], T)
  BY <1>5 DEF FirestoreTypeOK
<1>7. PICK gets2 : gets2 = failing
  OBVIOUS
<1>8. /\ DOMAIN gets2 = 1 .. Len(gets2) /\ Len(gets2) \in Nat
      /\ \A i \in 1 .. Len(gets2) : gets2[i] \in Get
  BY <1>4, <1>7
<1>9. PICK blocks : /\ blocks = due
                    /\ blocks = [i \in 1 .. Len(gets2) |-> [CallbackFor(gets2[i], {}) EXCEPT !.failed = TRUE]]
  BY <1>7, <1>8
<1> HIDE DEF failing, due
<1>10. \A i \in 1 .. Len(gets2) : /\ blocks[i] \in Callback /\ Asking(blocks[i]) = Asking(gets2[i])
                                  /\ blocks[i].failed /\ blocks[i].docs = {}
  <2>1. \A g \in Get :
          /\ [CallbackFor(g, {}) EXCEPT !.failed = TRUE] \in Callback
          /\ Asking([CallbackFor(g, {}) EXCEPT !.failed = TRUE]) = Asking(g)
          /\ [CallbackFor(g, {}) EXCEPT !.failed = TRUE].failed
          /\ [CallbackFor(g, {}) EXCEPT !.failed = TRUE].docs = {}
    BY DEF Get, Callback, CallbackFor, Asking
  <2>2. \A i \in 1 .. Len(gets2) :
          gets2[i] \in Get /\ blocks[i] = [CallbackFor(gets2[i], {}) EXCEPT !.failed = TRUE]
    BY <1>8, <1>9
  <2> QED
    BY <2>1, <2>2
<1>11. blocks \in Seq(Callback) /\ Len(blocks) = Len(gets2)
  <2>1. blocks \in [1 .. Len(gets2) -> Callback]
    BY <1>9, <1>10
  <2> QED
    BY <1>8, <2>1
<1>12. PICK n : \E f : CallbacksJoin(d, S, blocks, n, f)
  BY <1>5, <1>7, <1>9, <1>10, <1>11, CalledBack DEF failing
<1>13. PICK f : CallbacksJoin(d, S, blocks, n, f)
  BY <1>12
<1>14. /\ \A i, c : CallbackAt(d, i, c)' /\ ~(i <= n) =>
            GetAt(d, "listener", f[i], Asking(c)) /\ c.query \in {query}
       /\ \A i, g : GetAt(d, "listener", i, g) /\ g.query \in {query} =>
            \E j : GetAt(d, "callback", j, g)'
  BY <1>1, <1>13, BlocksOfListeners
<1>15. \A i, c : CallbackAt(d, i, c)' /\ ~(i <= n) => c.failed /\ c.docs = {}
  BY <1>10, <1>11, <1>13 DEF CallbacksJoin
<1>16. PICK h : ListenersCut(d, T, h)
  BY <1>6, ListenersKept
<1>17. \A k : Asking(k).query = k.query
  BY DEF Asking
<1>18. ASSUME NEW i, NEW g, GetAt(d, "listener", i, g)'
       PROVE  GetAt(d, "listener", h[i], g) /\ g.query \notin {query}
  <2>1. PICK l : ListenerAt(d, i, l)' /\ ~l.raised /\ g = Asking(l)
    BY <1>18, GetsByListeners
  <2>2. ListenerAt(d, h[i], l) /\ l \in T
    BY <1>16, <2>1 DEF ListenersCut
  <2> QED
    BY <1>2, <1>17, <2>1, <2>2, GetsByListeners
<1>19. ASSUME NEW i, NEW j, NEW g, NEW a, GetAt(d, "listener", i, g)', GetAt(d, "listener", j, a)', h[i] = h[j]
       PROVE  i = j
  <2>1. PICK l : ListenerAt(d, i, l)'
    BY <1>19, GetsByListeners
  <2>2. PICK k : ListenerAt(d, j, k)'
    BY <1>19, GetsByListeners
  <2> QED
    BY <1>16, <1>19, <2>1, <2>2 DEF ListenersCut
<1>20. ASSUME NEW i, NEW g, GetAt(d, "listener", i, g), g.query \notin {query}
       PROVE  \E j : GetAt(d, "listener", j, g)'
  <2>1. PICK l : ListenerAt(d, i, l) /\ ~l.raised /\ g = Asking(l)
    BY <1>20, GetsByListeners
  <2>2. l \in T
    BY <1>2, <1>17, <1>20, <2>1 DEF ListenerAt, ToSet
  <2> QED
    BY <1>16, <2>1, <2>2, GetsByListeners DEF ListenersCut
<1>21. /\ \A i, g : GetAt(d, "worker", i, g)' <=> GetAt(d, "worker", i, g)
       /\ \A i, t : TaskAt(d, i, t)' <=> TaskAt(d, i, t)
  <2>1. \A i, t : TaskAt(d, i, t)' <=> TaskAt(d, i, t)
    BY <1>5 DEF TaskAt
  <2> QED
    BY <2>1 DEF GetAt
<1>22. GetsRaised(d, {query}, view, n, f, h)
  <2>1. n \in Nat /\ \A i, c : CallbackAt(d, i, c) <=> CallbackAt(d, i, c)' /\ i <= n
    BY <1>13 DEF CallbacksJoin
  <2>2. \A i, j, c, b : (/\ CallbackAt(d, i, c)' /\ CallbackAt(d, j, b)'
                         /\ ~(i <= n) /\ ~(j <= n) /\ f[i] = f[j]) => i = j
    BY <1>13 DEF CallbacksJoin
  <2> QED
    BY <1>14, <1>15, <1>18, <1>19, <1>20, <1>21, <2>1, <2>2 DEF GetsRaised
<1> QED
  BY <1>22

LEMMA RaisedAsk ==
  ASSUME NEW d, AskOK(d), UNCHANGED gets, NEW queries, NEW view, NEW n, NEW f, NEW h,
         GetsRaised(d, queries, view, n, f, h)
  PROVE  AskOK(d)'
<1> DEFINE From(w, i, v, j, g) ==
             \/ v = w /\ w = "worker" /\ i = j
             \/ v = w /\ w = "listener" /\ j = h[i] /\ g.query \notin queries
             \/ v = w /\ w = "callback" /\ j = i /\ i <= n
             \/ v = "listener" /\ w = "callback" /\ j = f[i] /\ ~(i <= n) /\ g.query \in queries
<1>1. ASSUME NEW w, NEW i, NEW g, GetAt(d, w, i, g)'
      PROVE  \E v, j : From(w, i, v, j, g) /\ GetAt(d, v, j, g)
  <2>1. CASE w = "worker"
    BY <1>1, <2>1 DEF GetsRaised
  <2>2. CASE w = "listener"
    BY <1>1, <2>2 DEF GetsRaised
  <2>3. CASE w = "callback"
    <3>1. PICK c : CallbackAt(d, i, c)' /\ g = Asking(c)
      BY <1>1, <2>3, GetsByListeners
    <3>2. g.query = c.query
      BY <3>1 DEF Asking
    <3>3. CASE i <= n
      <4>1. GetAt(d, "callback", i, g)
        BY <3>1, <3>3, GetsByListeners DEF GetsRaised
      <4> QED
        BY <2>3, <3>3, <4>1
    <3>4. CASE ~(i <= n)
      <4>1. GetAt(d, "listener", f[i], g) /\ g.query \in queries
        BY <3>1, <3>2, <3>4 DEF GetsRaised
      <4> QED
        BY <2>3, <3>4, <4>1
    <3> QED
      BY <3>3, <3>4
  <2> QED
    BY <1>1, <2>1, <2>2, <2>3, GetsByListeners
<1>2. ASSUME NEW w, NEW v, NEW i, NEW j, NEW g, NEW x, NEW k,
             GetAt(d, w, i, g)', GetAt(d, v, j, g)', From(w, i, x, k, g), From(v, j, x, k, g)
      PROVE  w = v /\ i = j
  <2>1. CASE w = "callback" /\ v = "callback"
    BY <1>2, <2>1, GetsByListeners DEF GetsRaised
  <2>2. CASE w # "callback" \/ v # "callback"
    BY <1>2, <2>2 DEF GetsRaised
  <2> QED
    BY <2>1, <2>2
<1> HIDE DEF From
<1>3. OneAsk(d)'
  <2> SUFFICES ASSUME NEW v, NEW w, NEW i, NEW j, NEW g, NEW a,
                      GetAt(d, v, i, g)', GetAt(d, w, j, a)', g.id = a.id
               PROVE  v = w /\ i = j
    BY DEF OneAsk
  <2>1. PICK x, k : From(v, i, x, k, g) /\ GetAt(d, x, k, g)
    BY <1>1
  <2>2. PICK y, l : From(w, j, y, l, a) /\ GetAt(d, y, l, a)
    BY <1>1
  <2>3. x = y /\ k = l
    BY <2>1, <2>2 DEF AskOK, OneAsk
  <2>4. g = a
    BY <2>1, <2>2, <2>3 DEF GetAt, TaskAt, ListenerAt, CallbackAt
  <2> QED
    BY <1>2, <2>1, <2>2, <2>3, <2>4
<1>4. AskIds(d)' /\ Unlistened(d)'
  BY <1>1 DEF AskOK, AskIds, Unlistened, GetsRaised
<1> QED
  BY <1>3, <1>4 DEF AskOK

(* The first completion block has run; if it had documents, its listener   *)
(* is to be removed.                                                       *)
BlockRuns(d, c) ==
  /\ CallbackAt(d, 1, c) /\ c \in Callback
  /\ \A i, b : CallbackAt(d, i, b)' <=> i \in Nat \ {0} /\ CallbackAt(d, i + 1, b)
  /\ \A w, i, g : w # "callback" => (GetAt(d, w, i, g)' <=> GetAt(d, w, i, g))
  /\ \A i, t : TaskAt(d, i, t)' =>
       TaskAt(d, i, t) \/ (~c.failed /\ t = UnlistenTask(c.id))
  /\ IF c.failed THEN UNCHANGED delivered
     ELSE delivered' = [delivered EXCEPT ![d] = {[id |-> c.id, docs |-> c.docs]}]

LEMMA DeliverMoves ==
  ASSUME FirestoreTypeOK, WorkerOK, NEW d \in Devices, Deliver(d)
  PROVE  \E c : BlockRuns(d, c)
<1>1. callbacks[d] # <<>> /\ callbacks[d] \in Seq(Callback) /\ callbacks'[d] = Tail(callbacks[d])
  BY DEF Deliver, FirestoreTypeOK
<1>2. PICK c \in Callback : c = Head(callbacks[d])
  BY <1>1, Elements
<1>3. CallbackAt(d, 1, c) /\ \A i, b : CallbackAt(d, i, b)' <=> i \in Nat \ {0} /\ CallbackAt(d, i + 1, b)
  <2> DEFINE s == callbacks[d]
             n == Len(s)
  <2>1. /\ n \in Nat \ {0} /\ DOMAIN s = 1 .. n /\ Head(s) = s[1] /\ 1 \in DOMAIN s
        /\ DOMAIN Tail(s) = 1 .. n - 1 /\ \A i \in 1 .. n - 1 : Tail(s)[i] = s[i + 1]
    BY <1>1, Elements, Shortened
  <2>2. \A i : i \in 1 .. n - 1 <=> i \in Nat \ {0} /\ i + 1 \in 1 .. n
    BY <2>1
  <2> QED
    BY <1>1, <1>2, <2>1, <2>2 DEF CallbackAt
<1>4. /\ UNCHANGED listeners
      /\ IF c.failed THEN UNCHANGED <<worker, delivered>>
         ELSE /\ Enqueue(d, UnlistenTask(c.id))
              /\ delivered' = [delivered EXCEPT ![d] = {[id |-> c.id, docs |-> c.docs]}]
  BY <1>2 DEF Deliver, listenVars
<1>5. /\ \A i, g : GetAt(d, "worker", i, g)' <=> GetAt(d, "worker", i, g)
      /\ \A i, t : TaskAt(d, i, t)' => TaskAt(d, i, t) \/ (~c.failed /\ t = UnlistenTask(c.id))
  <2>1. CASE c.failed
    <3>1. \A i, t : TaskAt(d, i, t)' <=> TaskAt(d, i, t)
      BY <1>4, <2>1 DEF TaskAt
    <3> QED
      BY <3>1 DEF GetAt
  <2>2. CASE ~c.failed
    <3>1. Enqueue(d, UnlistenTask(c.id)) /\ UnlistenTask(c.id).task = "unlisten"
      BY <1>4, <2>2 DEF UnlistenTask
    <3>2. \A i, g : GetAt(d, "worker", i, g)' <=> GetAt(d, "worker", i, g)
      BY <3>1, GetEnqueued
    <3>3. \A i, t : TaskAt(d, i, t)' => TaskAt(d, i, t) \/ t = UnlistenTask(c.id)
      BY <3>1, TaskAdded
    <3> QED
      BY <2>2, <3>2, <3>3
  <2> QED
    BY <2>1, <2>2
<1>6. \A i, g : GetAt(d, "listener", i, g)' <=> GetAt(d, "listener", i, g)
  <2>1. \A i, l : ListenerAt(d, i, l)' <=> ListenerAt(d, i, l)
    BY <1>4 DEF ListenerAt
  <2> QED
    BY <2>1, GetsByListeners
<1>7. \A w, i, g : w # "callback" => (GetAt(d, w, i, g)' <=> GetAt(d, w, i, g))
  <2> SUFFICES ASSUME NEW w, NEW i, NEW g, w # "callback"
               PROVE  GetAt(d, w, i, g)' <=> GetAt(d, w, i, g)
    OBVIOUS
  <2>1. CASE w \in {"worker", "listener"}
    BY <1>5, <1>6, <2>1
  <2>2. CASE w \notin {"worker", "listener"}
    BY <2>2, GetsByListeners
  <2> QED
    BY <2>1, <2>2
<1>8. BlockRuns(d, c)
  BY <1>3, <1>4, <1>5, <1>7 DEF BlockRuns
<1> QED
  BY <1>8

LEMMA DeliverAsk ==
  ASSUME FirestoreTypeOK, NEW d \in Devices, AskOK(d), UNCHANGED gets, NEW c, BlockRuns(d, c)
  PROVE  /\ AskOK(d)'
         /\ GetAt(d, "callback", 1, Asking(c))
         /\ \A w, i, g : GetAt(d, w, i, g)' => g.id # c.id
         /\ \A w, i, g : GetAt(d, w, i, g) => g = Asking(c) \/ \E j : GetAt(d, w, j, g)'
         /\ \A w, i, g : GetAt(d, w, i, g)' => \E j : GetAt(d, w, j, g)
<1> DEFINE From(w, i, j) == (w = "callback" => i \in Nat \ {0} /\ j = i + 1) /\ (w # "callback" => j = i)
<1>1. ASSUME NEW w, NEW i, NEW g, GetAt(d, w, i, g)' PROVE \E j : From(w, i, j) /\ GetAt(d, w, j, g)
  <2>1. CASE w = "callback"
    <3>1. PICK b : CallbackAt(d, i, b)' /\ g = Asking(b)
      BY <1>1, <2>1, GetsByListeners
    <3>2. i \in Nat \ {0} /\ CallbackAt(d, i + 1, b)
      BY <3>1 DEF BlockRuns
    <3>3. GetAt(d, "callback", i + 1, g)
      BY <3>1, <3>2, GetsByListeners
    <3> QED
      BY <2>1, <3>2, <3>3
  <2>2. CASE w # "callback"
    BY <1>1, <2>2 DEF BlockRuns
  <2> QED
    BY <2>1, <2>2
<1>2. \A w, i, j, k : From(w, i, k) /\ From(w, j, k) => i = j
  OBVIOUS
<1>3. \A i, j : From("callback", i, j) => j # 1
  OBVIOUS
<1> HIDE DEF From
<1>4. GetAt(d, "callback", 1, Asking(c)) /\ Asking(c).id = c.id
  BY GetsByListeners DEF BlockRuns, Asking
<1>5. ASSUME NEW w, NEW i, NEW g, GetAt(d, w, i, g)' PROVE g.id # c.id
  <2>1. PICK j : From(w, i, j) /\ GetAt(d, w, j, g)
    BY <1>1, <1>5
  <2>2. w = "callback" => j # 1
    BY <1>3, <2>1
  <2> QED
    BY <1>4, <2>1, <2>2 DEF AskOK, OneAsk
<1>6. OneAsk(d)'
  <2> SUFFICES ASSUME NEW v, NEW w, NEW i, NEW j, NEW g, NEW h,
                      GetAt(d, v, i, g)', GetAt(d, w, j, h)', g.id = h.id
               PROVE  v = w /\ i = j
    BY DEF OneAsk
  <2>1. PICK k : From(v, i, k) /\ GetAt(d, v, k, g)
    BY <1>1
  <2>2. PICK l : From(w, j, l) /\ GetAt(d, w, l, h)
    BY <1>1
  <2>3. v = w /\ k = l
    BY <2>1, <2>2 DEF AskOK, OneAsk
  <2> QED
    BY <1>2, <2>1, <2>2, <2>3
<1>7. AskIds(d)'
  BY <1>1 DEF AskOK, AskIds
<1>8. Unlistened(d)'
  <2> SUFFICES ASSUME NEW i, NEW t, TaskAt(d, i, t)', t.task = "unlisten"
               PROVE  t.id <= gets[d] /\ \A w, j, g : GetAt(d, w, j, g)' => g.id # t.id
    BY DEF Unlistened
  <2>1. CASE TaskAt(d, i, t)
    BY <1>1, <2>1 DEF AskOK, Unlistened
  <2>2. CASE t = UnlistenTask(c.id)
    <3>1. t.id = c.id
      BY <2>2 DEF UnlistenTask
    <3>2. c.id <= gets[d]
      BY <1>4 DEF AskOK, AskIds
    <3> QED
      BY <1>5, <3>1, <3>2
  <2> QED
    BY <2>1, <2>2 DEF BlockRuns
<1>9. ASSUME NEW w, NEW i, NEW g, GetAt(d, w, i, g), g # Asking(c) PROVE \E j : GetAt(d, w, j, g)'
  <2>1. CASE w = "callback"
    <3>1. PICK b : CallbackAt(d, i, b) /\ g = Asking(b)
      BY <1>9, <2>1, GetsByListeners
    <3>2. i \in Nat \ {0} /\ i # 1
      BY <1>4, <1>9, <2>1, GetPlaces
    <3> DEFINE j == i - 1
    <3>3. j \in Nat \ {0} /\ j + 1 = i
      BY <3>2
    <3> HIDE DEF j
    <3>4. CallbackAt(d, j, b)'
      BY <3>1, <3>3 DEF BlockRuns
    <3> QED
      BY <2>1, <3>1, <3>4, GetsByListeners
  <2>2. CASE w # "callback"
    BY <1>9, <2>2 DEF BlockRuns
  <2> QED
    BY <2>1, <2>2
<1> QED
  BY <1>1, <1>4, <1>5, <1>6, <1>7, <1>8, <1>9 DEF AskOK

(* A process that has ended has no gets.                                   *)
LEMMA RestartAsk ==
  ASSUME FirestoreTypeOK, NEW d \in Devices, NEW user, Restart(d, user)
  PROVE  AskOK(d)' /\ \A w, i, g : ~GetAt(d, w, i, g)'
<1>1. worker'[d] = <<>> /\ listeners'[d] = <<>> /\ callbacks'[d] = <<>>
  BY DEF Restart, DropProcess, FirestoreTypeOK
<1>2. DOMAIN <<>> = {}
  OBVIOUS
<1>3. /\ \A i, t : ~TaskAt(d, i, t)' /\ \A l : ~ListenerAt(d, i, l)' /\ \A c : ~CallbackAt(d, i, c)'
  BY <1>1, <1>2 DEF TaskAt, ListenerAt, CallbackAt
<1>4. \A w, i, g : ~GetAt(d, w, i, g)'
  BY <1>3 DEF GetAt
<1> QED
  BY <1>3, <1>4 DEF AskOK, OneAsk, AskIds, Unlistened

(* A step of a device leaves the gets of the others alone.                 *)
LEMMA OthersUntouched ==
  ASSUME FirestoreTypeOK, NEW d \in Devices, AppStep(d) \/ ClientStep(d), NEW e \in Devices \ {d}
  PROVE  /\ worker'[e] = worker[e] /\ listeners'[e] = listeners[e] /\ callbacks'[e] = callbacks[e]
         /\ gets'[e] = gets[e]
<1>1. CASE \/ \E doc \in Docs : SetData(d, doc)
           \/ \E q \in Queries : GetDocuments(d, q)
           \/ \E u \in Users : CredentialChange(d, u)
           \/ \E u \in Users : Restart(d, u)
  BY <1>1 DEF SetData, GetDocuments, CredentialChange, Restart, DropProcess, Enqueue, listenVars,
              mainVars, FirestoreTypeOK
<1>2. CASE Deliver(d)
  <2>1. worker' = worker \/ \E t : Enqueue(d, t)
    BY <1>2 DEF Deliver
  <2> QED
    BY <1>2, <2>1 DEF Deliver, Enqueue, listenVars, FirestoreTypeOK
<1>3. CASE RunTask(d)
  BY <1>3 DEF RunTask, RunWrite, RunListen, RunUnlisten, RunUserChange, RegisterGet, listenVars,
              mainVars, FirestoreTypeOK
<1>4. CASE AnswerArrives(d) \/ GoOffline(d) \/ \E q \in Queries : ListenRefused(d, q)
  BY <1>4 DEF AnswerArrives, GoOffline, ListenRefused, RaiseWaiting, FirestoreTypeOK
<1>5. CASE \/ ServerCommits(d) \/ WriteAcknowledged(d) \/ WriteRejected(d) \/ WatchAnswers(d)
           \/ AnswerLost(d) \/ ForgetOffline(d)
  BY <1>5 DEF ServerCommits, WriteAcknowledged, WriteRejected, WatchAnswers, AnswerLost,
              ForgetOffline, listenVars, mainVars
<1> QED
  BY <1>1, <1>2, <1>3, <1>4, <1>5 DEF AppStep, ClientStep

-----------------------------------------------------------------------------
(* A device that has written a committed document has heard of the commit, *)
(* or will: the document still is in its mutation queue.                   *)
Written(d, x) == \E k, u : WrittenAs(k, d, u, x)

KnownOK ==
  \A k, d, u, x : WrittenAs(k, d, u, x) /\ x \in Committed =>
    x \in cache[d] \/ \E p : QueueHas(d, u, p, x)

StoreInv == ServerInv /\ OrderInv /\ FirestoreTypeOK /\ KnownOK

(* Only an acknowledgement and an answer change a cache, and both add.     *)
LEMMA CachesGrow ==
  ASSUME FirestoreTypeOK, NEW d \in Devices, AppStep(d) \/ ClientStep(d)
  PROVE  /\ \A e \in Devices : cache[e] \subseteq cache'[e]
         /\ WriteAcknowledged(d) \/ AnswerArrives(d) \/ UNCHANGED cache
<1>1. CASE AnswerArrives(d) \/ WriteAcknowledged(d)
  <2>1. PICK more : cache' = [cache EXCEPT ![d] = cache[d] \cup more]
    BY <1>1 DEF AnswerArrives, WriteAcknowledged, CacheAcknowledged
  <2>2. \A e \in Devices : cache[e] \subseteq cache'[e]
    BY <2>1 DEF FirestoreTypeOK
  <2> QED
    BY <1>1, <2>2
<1>2. CASE AppStep(d)
  BY <1>2 DEF AppStep, SetData, GetDocuments, CredentialChange, Deliver, Restart, storageVars
<1>3. CASE ClientStep(d) /\ ~AnswerArrives(d) /\ ~WriteAcknowledged(d)
  BY <1>3 DEF ClientStep, RunTask, RunWrite, RunListen, RunUnlisten, RunUserChange, RegisterGet,
              ServerCommits, WriteRejected, WatchAnswers, AnswerLost, GoOffline, ForgetOffline,
              ListenRefused, storageVars
<1> QED
  BY <1>1, <1>2, <1>3

(* The mutation queues and the log change in five actions only.            *)
LEMMA LogsStay ==
  ASSUME NEW d \in Devices, AppStep(d) \/ ClientStep(d)
  PROVE  /\ RunWrite(d) \/ WriteAcknowledged(d) \/ WriteRejected(d) \/ UNCHANGED queue
         /\ ServerCommits(d) \/ UNCHANGED serverLog
         /\ WriteRejected(d) \/ UNCHANGED rejected
         /\ (\E doc \in Docs : SetData(d, doc)) \/ UNCHANGED issued
<1>1. CASE AppStep(d)
  BY <1>1 DEF AppStep, SetData, GetDocuments, CredentialChange, Deliver, Restart, storageVars
<1>2. CASE ClientStep(d)
  BY <1>2 DEF ClientStep, RunTask, RunWrite, RunListen, RunUnlisten, RunUserChange, RegisterGet,
              ServerCommits, WriteAcknowledged, WriteRejected, WatchAnswers, AnswerArrives,
              AnswerLost, GoOffline, ForgetOffline, ListenRefused, storageVars
<1> QED
  BY <1>1, <1>2

LEMMA WrittenGrows ==
  ASSUME WritesInv, NEW d \in Devices, AppStep(d) \/ ClientStep(d)
  PROVE  /\ \A k, e, u, x : WrittenAs(k, e, u, x) => WrittenAs(k, e, u, x)'
         /\ \A k, e, u, x : WrittenAs(k, e, u, x)' =>
              WrittenAs(k, e, u, x) \/ (e = d /\ x \notin Issued /\ UNCHANGED serverLog)
<1>1. CASE UNCHANGED issued
  BY <1>1 DEF WrittenAs
<1>2. ASSUME NEW doc \in Docs, SetData(d, doc)
      PROVE  /\ \A k, e, u, x : WrittenAs(k, e, u, x) => WrittenAs(k, e, u, x)'
             /\ \A k, e, u, x : WrittenAs(k, e, u, x)' =>
                  WrittenAs(k, e, u, x) \/ (e = d /\ x \notin Issued /\ UNCHANGED serverLog)
  <2>1. PICK w : w.doc = doc /\ w.device = d /\ issued' = Append(issued, w)
    BY <1>2 DEF SetData
  <2>2. doc \notin Issued /\ UNCHANGED serverLog
    BY <1>2 DEF SetData, storageVars
  <2>3. /\ Len(issued) \in Nat /\ DOMAIN issued = 1 .. Len(issued)
        /\ DOMAIN issued' = 1 .. Len(issued) + 1
        /\ \A i \in 1 .. Len(issued) : issued'[i] = issued[i]
        /\ issued'[Len(issued) + 1] = w
    BY <2>1, Appended DEF WritesInv, LogsOK
  <2>4. \A i : i \in 1 .. Len(issued) + 1 <=> i \in 1 .. Len(issued) \/ i = Len(issued) + 1
    BY <2>3
  <2> QED
    BY <2>1, <2>2, <2>3, <2>4 DEF WrittenAs
<1> QED
  BY <1>1, <1>2, LogsStay

LEMMA KnownInit == FirestoreInit => KnownOK
<1> SUFFICES ASSUME FirestoreInit PROVE KnownOK
  OBVIOUS
<1>1. DOMAIN <<>> = {}
  OBVIOUS
<1> QED
  BY <1>1 DEF FirestoreInit, KnownOK, Committed, WrittenAs, ToSet

LEMMA KnownFrame == KnownOK /\ UNCHANGED <<serverLog, cache, queue, issued>> => KnownOK'
BY DEF KnownOK, WrittenAs, QueueHas, Committed

LEMMA KnownStep ==
  ASSUME OrderInv, FirestoreTypeOK, KnownOK, NEW d \in Devices, AppStep(d) \/ ClientStep(d)
  PROVE  KnownOK'
<1>1. /\ \A k, e, u, x : WrittenAs(k, e, u, x)' =>
           WrittenAs(k, e, u, x) \/ (e = d /\ x \notin Issued /\ UNCHANGED serverLog)
      /\ \A k, e, u, x : WrittenAs(k, e, u, x) => e \in Devices /\ u \in Users
      /\ \A e \in Devices : cache[e] \subseteq cache'[e]
      /\ Committed \subseteq Issued
  BY WrittenGrows, CachesGrow DEF OrderInv, IssuedOK, WritesInv, FatesOK
<1> SUFFICES ASSUME NEW k, NEW e, NEW u, NEW x, WrittenAs(k, e, u, x)', x \in Committed'
             PROVE  x \in cache'[e] \/ \E p : QueueHas(e, u, p, x)'
  BY DEF KnownOK
<1>2. WrittenAs(k, e, u, x) /\ e \in Devices /\ u \in Users
  <2>1. UNCHANGED serverLog => Committed' = Committed
    BY DEF Committed
  <2> QED
    BY <1>1, <2>1
<1>3. FiledRight /\ WritesInv
  BY DEF OrderInv
<1>4. CASE ServerCommits(d)
  <2>1. PICK doc, i : /\ QueueHas(d, writer[d], i, doc) /\ writer[d] \in Users
                      /\ Committed' = Committed \cup {doc} /\ UNCHANGED queue
    BY <1>3, <1>4, ServerCommitsMoves
  <2>2. \A v, p, y : QueueHas(e, v, p, y)' <=> QueueHas(e, v, p, y)
    BY <2>1 DEF QueueHas
  <2>3. CASE x = doc
    BY <1>2, <1>3, <2>1, <2>2, <2>3 DEF FiledRight
  <2>4. CASE x # doc
    BY <1>1, <1>2, <2>1, <2>2, <2>4 DEF KnownOK
  <2> QED
    BY <2>3, <2>4
<1>5. CASE ~ServerCommits(d)
  <2>1. x \in Committed
    BY <1>5, LogsStay DEF Committed
  <2>2. CASE x \in cache[e]
    BY <1>1, <1>2, <2>2
  <2>3. ASSUME NEW p, QueueHas(e, u, p, x)
        PROVE  x \in cache'[e] \/ \E q : QueueHas(e, u, q, x)'
    <3>1. CASE UNCHANGED queue
      BY <2>3, <3>1 DEF QueueHas
    <3>2. CASE RunWrite(d)
      BY <1>2, <1>3, <2>3, <3>2, RunWriteMoves
    <3>3. CASE WriteAcknowledged(d) \/ WriteRejected(d)
      <4>1. PICK v \in Users : \E doc : FirstWriteLeaves(d, v, doc)
        BY <1>3, <3>3, AnsweredWriteMoves
      <4>2. PICK doc : FirstWriteLeaves(d, v, doc)
        BY <4>1
      <4>3. CASE e = d /\ u = v
        <5>1. p \in Nat \ {0}
          BY <2>3, <4>2, <4>3 DEF FirstWriteLeaves
        <5>2. CASE p = 1
          <6>1. x = doc /\ doc = Head(queue[d][writer[d]])
            <7>1. queue[d][writer[d]] # <<>> /\ IsSeq(queue[d][writer[d]])
              BY <1>3, <3>3 DEF WriteAcknowledged, WriteRejected, WritesInv, QueueOK
            <7> QED
              BY <2>3, <4>2, <4>3, <5>2, <7>1, Shortened DEF FirstWriteLeaves, QueueHas
          <6>2. WriteAcknowledged(d)
            BY <2>1, <3>3, <6>1 DEF WriteRejected
          <6> QED
            BY <1>2, <4>3, <6>1, <6>2 DEF WriteAcknowledged, CacheAcknowledged, FirestoreTypeOK
        <5>3. CASE p # 1
          <6> DEFINE q == p - 1
          <6>1. q \in Nat \ {0} /\ q + 1 = p
            BY <5>1, <5>3
          <6> HIDE DEF q
          <6>2. QueueHas(e, u, q, x)'
            BY <2>3, <4>2, <4>3, <6>1 DEF FirstWriteLeaves
          <6> QED
            BY <6>2
        <5> QED
          BY <5>2, <5>3
      <4>4. CASE e # d \/ u # v
        BY <1>2, <2>3, <4>2, <4>4 DEF FirstWriteLeaves
      <4> QED
        BY <4>3, <4>4
    <3> QED
      BY <3>1, <3>2, <3>3, LogsStay
  <2> QED
    BY <1>2, <2>1, <2>2, <2>3 DEF KnownOK
<1> QED
  BY <1>4, <1>5

(* Every get keeps its place and its number.                               *)
LEMMA AskInit == FirestoreInit => AskInv
<1> SUFFICES ASSUME FirestoreInit, NEW d \in Devices PROVE AskOK(d)
  BY DEF AskInv
<1>1. worker[d] = <<>> /\ listeners[d] = <<>> /\ callbacks[d] = <<>> /\ DOMAIN <<>> = {}
  BY DEF FirestoreInit
<1>2. /\ \A i, t : ~TaskAt(d, i, t) /\ \A l : ~ListenerAt(d, i, l) /\ \A c : ~CallbackAt(d, i, c)
  BY <1>1 DEF TaskAt, ListenerAt, CallbackAt
<1>3. \A w, i, g : ~GetAt(d, w, i, g)
  BY <1>2 DEF GetAt
<1> QED
  BY <1>2, <1>3 DEF AskOK, OneAsk, AskIds, Unlistened

LEMMA AskFrame == AskInv /\ UNCHANGED firestoreVars => AskInv'
BY AskElsewhere DEF AskInv, firestoreVars, mainVars

LEMMA AskStep ==
  ASSUME WritesInv, FirestoreTypeOK, AskInv, NEW d \in Devices, AppStep(d) \/ ClientStep(d)
  PROVE  AskInv'
<1>1. WorkerOK /\ AskOK(d)
  BY DEF WritesInv, AskInv
<1>2. \A e \in Devices \ {d} : AskOK(e)'
  BY OthersUntouched, AskElsewhere DEF AskInv
<1> SUFFICES AskOK(d)'
  BY <1>2 DEF AskInv
<1>3. ASSUME NEW doc \in Docs, SetData(d, doc) PROVE AskOK(d)'
  <2>1. /\ Enqueue(d, WriteTask(doc)) /\ WriteTask(doc).task \in {"write", "user"}
        /\ UNCHANGED <<listeners, callbacks, gets>>
    BY <1>3 DEF SetData, WriteTask, listenVars, mainVars
  <2> QED
    BY <1>1, <2>1, OtherEnqueuedAsk
<1>4. ASSUME NEW u \in Users, CredentialChange(d, u) PROVE AskOK(d)'
  <2>1. /\ Enqueue(d, UserTask(u)) /\ UserTask(u).task \in {"write", "user"}
        /\ UNCHANGED <<listeners, callbacks, gets>>
    BY <1>4 DEF CredentialChange, UserTask, listenVars, mainVars
  <2> QED
    BY <1>1, <2>1, OtherEnqueuedAsk
<1>5. ASSUME NEW q \in Queries, GetDocuments(d, q) PROVE AskOK(d)'
  BY <1>1, <1>5, GetDocumentsAsk
<1>6. CASE Deliver(d)
  <2>1. PICK c : BlockRuns(d, c)
    BY <1>1, <1>6, DeliverMoves
  <2>2. UNCHANGED gets
    BY <1>6 DEF Deliver
  <2> QED
    BY <1>1, <2>1, <2>2, DeliverAsk
<1>7. ASSUME NEW u \in Users, Restart(d, u) PROVE AskOK(d)'
  BY <1>7, RestartAsk
<1>8. CASE RunWrite(d) \/ RunUserChange(d)
  <2>1. /\ worker[d] # <<>> /\ Head(worker[d]).task # "listen" /\ worker' = [worker EXCEPT ![d] = Tail(@)]
        /\ UNCHANGED <<listeners, callbacks, gets>>
    BY <1>8 DEF RunWrite, RunUserChange, HeadIs, listenVars, mainVars
  <2> QED
    BY <1>1, <2>1, OtherRunAsk
<1>9. CASE RunListen(d)
  <2>1. PICK get, atOnce, n, m : GetJoins(d, get, atOnce, n, m)
    BY <1>1, <1>9, RunListenMoves
  <2>2. UNCHANGED gets
    BY <1>9 DEF RunListen, RegisterGet
  <2> QED
    BY <1>1, <2>1, <2>2, RunListenAsk
<1>10. CASE RunUnlisten(d)
  <2>1. PICK f : ListenersLeave(d, f)
    BY <1>1, <1>10, RunUnlistenMoves
  <2>2. UNCHANGED gets
    BY <1>10 DEF RunUnlisten, mainVars
  <2> QED
    BY <1>1, <2>1, <2>2, RunUnlistenAsk
<1>11. CASE AnswerArrives(d)
  <2>1. PICK queries, view : /\ \A q \in queries : view[q] \subseteq Docs
                             /\ RaiseWaiting(d, queries, view) /\ UNCHANGED <<worker, gets>>
    <3> DEFINE fresh == answer[d].docs \cap UNION {Matching[q] : q \in answer[d].queries}
               queries == {q \in answer[d].queries : cache[d] \cap Matching[q] \subseteq answer[d].docs}
               view == [q \in queries |-> LocalView(d, q) \cup (fresh \cap Matching[q])]
    <3>1. RaiseWaiting(d, queries, view) /\ UNCHANGED <<worker, gets>>
      BY <1>11 DEF AnswerArrives
    <3>2. answer[d].queries \subseteq Queries
      BY DEF FirestoreTypeOK
    <3>3. \A q \in queries : view[q] \subseteq Docs
      BY <3>2, MatchingTypes DEF LocalView
    <3> HIDE DEF queries, view
    <3> QED
      BY <3>1, <3>3
  <2>2. PICK n, f, h : GetsRaised(d, queries, view, n, f, h)
    BY <2>1, RaiseMoves
  <2> QED
    BY <1>1, <2>1, <2>2, RaisedAsk
<1>12. CASE GoOffline(d)
  <2> DEFINE view == [q \in Queries |-> LocalView(d, q)]
  <2>1. RaiseWaiting(d, Queries, view) /\ UNCHANGED <<worker, gets>>
    BY <1>12 DEF GoOffline
  <2>2. \A q \in Queries : view[q] \subseteq Docs
    BY MatchingTypes DEF LocalView
  <2>3. PICK v : v = view
    OBVIOUS
  <2>4. PICK n, f, h : GetsRaised(d, Queries, v, n, f, h)
    BY <2>1, <2>2, <2>3, RaiseMoves
  <2> QED
    BY <1>1, <2>1, <2>4, RaisedAsk
<1>13. ASSUME NEW q \in Queries, ListenRefused(d, q) PROVE AskOK(d)'
  <2>1. PICK n, f, h : GetsRaised(d, {q}, {}, n, f, h)
    BY <1>13, RefusedMoves
  <2>2. UNCHANGED gets
    BY <1>13 DEF ListenRefused
  <2> QED
    BY <1>1, <2>1, <2>2, RaisedAsk
<1>14. CASE \/ ServerCommits(d) \/ WriteAcknowledged(d) \/ WriteRejected(d) \/ WatchAnswers(d)
            \/ AnswerLost(d) \/ ForgetOffline(d)
  <2>1. UNCHANGED <<worker, listeners, callbacks, gets>>
    BY <1>14 DEF ServerCommits, WriteAcknowledged, WriteRejected, WatchAnswers, AnswerLost,
                 ForgetOffline, listenVars, mainVars
  <2> QED
    BY <1>1, <2>1, AskElsewhere
<1> QED
  BY <1>3, <1>4, <1>5, <1>6, <1>7, <1>8, <1>9, <1>10, <1>11, <1>12, <1>13, <1>14
     DEF AppStep, ClientStep, RunTask

-----------------------------------------------------------------------------
(* On a device with one account a document is settled when the client can  *)
(* lay it before a get, or the server has refused it.  What a get owes is  *)
(* settled, or its write task is ahead of the get in the worker queue.     *)
OneAccount == Users = {Nobody}

Shown(d, x) == x \in cache[d] \/ \E p : QueueHas(d, Nobody, p, x)
Settled(d, x) == Shown(d, x) \/ x \in rejected

Kept(d, w, i, x) ==
  Settled(d, x) \/ (w = "worker" /\ \E q : q < i /\ WorkerHas(d, q, x))

DebtsKept(d) ==
  \A w, i, g : GetAt(d, w, i, g) => \A x \in g.owes : x \in Matching[g.query] /\ Kept(d, w, i, x)

BlocksFair(d) ==
  \A i, c : CallbackAt(d, i, c) =>
    /\ c.failed \/ c.owes \subseteq c.docs \cup rejected
    /\ \A x \in c.docs : x \in Matching[c.query] /\ (x \in Committed \/ Written(d, x))

DebtOK(d) == DebtsKept(d) /\ BlocksFair(d)

DebtInv == \A d \in Devices : DebtOK(d)

(* What a view holds is settled; what is settled and not refused is in it. *)
LEMMA Views ==
  ASSUME OneAccount, StoreInv, NEW d \in Devices, NEW q
  PROVE  /\ writer[d] = Nobody
         /\ \A x : x \in LocalView(d, q) <=> x \in Matching[q] /\ Shown(d, x)
         /\ \A x : x \in Pending(d) <=> \E p : QueueHas(d, Nobody, p, x)
         /\ \A x : Shown(d, x) => x \in Committed \/ Written(d, x)
<1>1. writer[d] = Nobody
  BY DEF OneAccount, StoreInv, FirestoreTypeOK
<1>2. \A x : x \in Pending(d) <=> \E p : QueueHas(d, Nobody, p, x)
  BY <1>1 DEF Pending, ToSet, QueueHas
<1>3. \A x : x \in LocalView(d, q) <=> x \in Matching[q] /\ Shown(d, x)
  BY <1>2 DEF LocalView, Shown
<1>4. \A x : x \in cache[d] => x \in Committed
  BY DEF StoreInv, ServerInv
<1>5. ASSUME NEW x, NEW p, QueueHas(d, Nobody, p, x) PROVE Written(d, x)
  <2>1. x \in Issued
    BY <1>5, MatchingTypes DEF StoreInv, OrderInv, WritesInv, PlacesOK
  <2>2. PICK k \in DOMAIN issued : issued[k].doc = x
    BY <2>1 DEF Issued, ToSet
  <2>3. WrittenAs(k, issued[k].device, issued[k].user, x)
    BY <2>2 DEF WrittenAs
  <2>4. issued[k].device = d
    BY <1>5, <2>3, MatchingTypes DEF StoreInv, OrderInv, FiledRight
  <2> QED
    BY <2>3, <2>4 DEF Written
<1> QED
  BY <1>1, <1>2, <1>3, <1>4, <1>5 DEF Shown

(* Nothing settled gets lost.                                              *)
LEMMA SettledGrows ==
  ASSUME OneAccount, StoreInv, NEW d \in Devices, AppStep(d) \/ ClientStep(d),
         NEW e \in Devices
  PROVE  /\ \A x : Settled(e, x) => Settled(e, x)'
         /\ \A x : x \in Committed \/ Written(e, x) => x \in Committed' \/ Written(e, x)'
         /\ rejected \subseteq rejected'
<1>1. /\ cache[e] \subseteq cache'[e] /\ FirestoreTypeOK /\ WritesInv
      /\ \A f \in Devices : writer[f] = Nobody
  BY CachesGrow, Views DEF StoreInv, OrderInv
<1>2. rejected \subseteq rejected'
  BY LogsStay DEF WriteRejected
<1>3. \A x : Written(e, x) => Written(e, x)'
  BY <1>1, WrittenGrows DEF Written
<1>4. Committed \subseteq Committed'
  <2>1. CASE ServerCommits(d)
    BY <1>1, <2>1, ServerCommitsMoves
  <2>2. CASE UNCHANGED serverLog
    BY <2>2 DEF Committed
  <2> QED
    BY <2>1, <2>2, LogsStay
<1>5. ASSUME NEW x, NEW p, QueueHas(e, Nobody, p, x) PROVE Settled(e, x)'
  <2>1. CASE UNCHANGED queue
    BY <1>5, <2>1 DEF QueueHas, Settled, Shown
  <2>2. CASE RunWrite(d)
    <3>1. QueueHas(e, Nobody, p, x)'
      BY <1>1, <1>5, <2>2, MatchingTypes, RunWriteMoves
    <3> QED
      BY <3>1 DEF Settled, Shown
  <2>3. CASE WriteAcknowledged(d) \/ WriteRejected(d)
    <3>1. PICK v \in Users : \E doc : FirstWriteLeaves(d, v, doc)
      BY <1>1, <2>3, AnsweredWriteMoves
    <3>2. PICK doc : FirstWriteLeaves(d, v, doc)
      BY <3>1
    <3>3. v = Nobody
      BY DEF OneAccount
    <3>4. CASE e = d
      <4>1. p \in Nat \ {0}
        BY <1>5, <3>2, <3>3, <3>4 DEF FirstWriteLeaves
      <4>2. CASE p = 1
        <5>1. x = doc /\ doc = Head(queue[d][writer[d]])
          <6>1. queue[d][writer[d]] # <<>> /\ IsSeq(queue[d][writer[d]])
            BY <1>1, <2>3 DEF WriteAcknowledged, WriteRejected, WritesInv, QueueOK
          <6> QED
            BY <1>5, <3>2, <3>3, <3>4, <4>2, <6>1, Shortened DEF FirstWriteLeaves, QueueHas
        <5>2. x \in cache'[d] \/ x \in rejected'
          BY <1>1, <2>3, <5>1 DEF WriteAcknowledged, WriteRejected, CacheAcknowledged, FirestoreTypeOK
        <5> QED
          BY <3>4, <5>2 DEF Settled, Shown
      <4>3. CASE p # 1
        <5> DEFINE q == p - 1
        <5>1. q \in Nat \ {0} /\ q + 1 = p
          BY <4>1, <4>3
        <5> HIDE DEF q
        <5>2. QueueHas(e, Nobody, q, x)'
          BY <1>5, <3>2, <3>3, <3>4, <5>1 DEF FirstWriteLeaves
        <5> QED
          BY <5>2 DEF Settled, Shown
      <4> QED
        BY <4>2, <4>3
    <3>5. CASE e # d
      <4>1. QueueHas(e, Nobody, p, x)'
        BY <1>5, <3>2, <3>5, MatchingTypes DEF FirstWriteLeaves
      <4> QED
        BY <4>1 DEF Settled, Shown
    <3> QED
      BY <3>4, <3>5
  <2> QED
    BY <2>1, <2>2, <2>3, LogsStay
<1>6. \A x : Settled(e, x) => Settled(e, x)'
  BY <1>1, <1>2, <1>5 DEF Settled, Shown
<1> QED
  BY <1>2, <1>3, <1>4, <1>6

(* Completion blocks stay fair as the server decides on more.              *)
LEMMA FairStays ==
  ASSUME NEW d, BlocksFair(d), rejected \subseteq rejected', NEW i, NEW c, CallbackAt(d, i, c),
         \A x : x \in Committed \/ Written(d, x) => x \in Committed' \/ Written(d, x)'
  PROVE  /\ c.failed \/ c.owes \subseteq c.docs \cup rejected'
         /\ \A x \in c.docs : x \in Matching[c.query] /\ (x \in Committed' \/ Written(d, x)')
BY DEF BlocksFair

(* Where no get moves and no write task leaves, the debts stay kept.       *)
LEMMA DebtsStay ==
  ASSUME NEW d, DebtOK(d),
         \A w, i, g : GetAt(d, w, i, g)' <=> GetAt(d, w, i, g),
         \A i, c : CallbackAt(d, i, c)' <=> CallbackAt(d, i, c),
         \A i, x : WorkerHas(d, i, x) => WorkerHas(d, i, x)',
         rejected \subseteq rejected', \A x : Settled(d, x) => Settled(d, x)',
         \A x : x \in Committed \/ Written(d, x) => x \in Committed' \/ Written(d, x)'
  PROVE  DebtOK(d)'
<1>1. DebtsKept(d)'
  BY DEF DebtOK, DebtsKept, Kept
<1>2. BlocksFair(d)'
  BY FairStays DEF DebtOK, BlocksFair
<1> QED
  BY <1>1, <1>2 DEF DebtOK

LEMMA DebtsElsewhere ==
  ASSUME OneAccount, StoreInv, NEW d \in Devices, AppStep(d) \/ ClientStep(d),
         NEW e \in Devices, DebtOK(e), worker'[e] = worker[e], listeners'[e] = listeners[e],
         callbacks'[e] = callbacks[e]
  PROVE  DebtOK(e)'
<1>1. \A i, x : WorkerHas(e, i, x) => WorkerHas(e, i, x)'
  BY DEF WorkerHas
<1> QED
  BY <1>1, GetsElsewhere, SettledGrows, DebtsStay

(* The tasks ahead of a get become fewer; a write among them is settled    *)
(* when it has run.                                                        *)
LEMMA KeptMovesUp ==
  ASSUME FirestoreTypeOK, WorkerOK, NEW d \in Devices, worker[d] # <<>>, worker' = [worker EXCEPT ![d] = Tail(@)],
         NEW i \in Nat \ {0}, NEW x, Kept(d, "worker", i + 1, x), Settled(d, x) => Settled(d, x)',
         WorkerHas(d, 1, x) => Settled(d, x)'
  PROVE  Kept(d, "worker", i, x)'
<1>1. CASE Settled(d, x)
  BY <1>1 DEF Kept
<1>2. ASSUME NEW q, q < i + 1, WorkerHas(d, q, x) PROVE Kept(d, "worker", i, x)'
  <2>1. CASE q = 1
    BY <1>2, <2>1 DEF Kept
  <2>2. CASE q # 1
    <3> DEFINE r == q - 1
    <3>1. q \in Nat \ {0}
      BY <1>2, GetPlaces DEF WorkerHas, TaskAt
    <3>2. r \in Nat \ {0} /\ r + 1 = q /\ r < i
      BY <1>2, <2>2, <3>1
    <3> HIDE DEF r
    <3>3. WorkerHas(d, r, x)'
      BY <1>2, <3>2, WorkerAdvanced
    <3> QED
      BY <3>2, <3>3 DEF Kept
  <2> QED
    BY <2>1, <2>2
<1> QED
  BY <1>1, <1>2 DEF Kept

(* What the next lemmas share: a step of d with what it does not forget.   *)
Forgets(d) ==
  /\ \A x : Settled(d, x) => Settled(d, x)'
  /\ \A x : x \in Committed \/ Written(d, x) => x \in Committed' \/ Written(d, x)'
  /\ rejected \subseteq rejected'

(* A new get owes what is in the cache or written before it.               *)
LEMMA GetDocumentsDebts ==
  ASSUME OneAccount, StoreInv, AskInv, NEW d \in Devices, DebtOK(d), Forgets(d),
         NEW query \in Queries, GetDocuments(d, query)
  PROVE  DebtOK(d)'
<1>1. FirestoreTypeOK /\ WorkerOK /\ AskOK(d) /\ WritesInv
  BY DEF StoreInv, OrderInv, WritesInv, AskInv
<1>2. PICK ask, n : /\ ask = [id |-> gets[d] + 1, query |-> query,
                              owes |-> (WrittenBefore(d) \cup cache[d]) \cap Matching[query]]
                    /\ n = Len(worker[d])
  OBVIOUS
<1>3. /\ \A w, i, g : GetAt(d, w, i, g)' <=> GetAt(d, w, i, g) \/ (w = "worker" /\ i = n + 1 /\ g = ask)
      /\ n \in Nat
  BY <1>1, <1>2, GetDocumentsAsk
<1>4. \A i, x : WorkerHas(d, i, x) => i \in Nat /\ i <= n /\ WorkerHas(d, i, x)'
  <2>1. PICK t : Enqueue(d, t)
    BY DEF GetDocuments
  <2>2. \A i, s : TaskAt(d, i, s) => i \in Nat /\ i <= n /\ TaskAt(d, i, s)'
    BY <1>1, <1>2, <2>1, TaskAdded
  <2>3. \A i, x : WorkerHas(d, i, x) <=> TaskAt(d, i, WriteTask(x))
    BY DEF WorkerHas, TaskAt
  <2>4. \A i, x : WorkerHas(d, i, x)' <=> TaskAt(d, i, WriteTask(x))'
    BY DEF WorkerHas, TaskAt, WriteTask
  <2> QED
    BY <2>2, <2>3, <2>4
<1>5. ASSUME NEW x \in ask.owes PROVE x \in Matching[query] /\ Kept(d, "worker", n + 1, x)'
  <2>1. x \in Matching[query] /\ (x \in WrittenBefore(d) \/ x \in cache[d])
    BY <1>2, <1>5
  <2>2. CASE x \in Pending(d) \/ x \in cache[d]
    <3>1. Settled(d, x)
      BY <2>2, Views DEF Settled, Shown
    <3> QED
      BY <2>1, <3>1 DEF Forgets, Kept
  <2>3. CASE x \in {t.doc : t \in {s \in ToSet(worker[d]) : s.task = "write"}}
    <3>1. PICK i \in DOMAIN worker[d] : worker[d][i].task = "write" /\ worker[d][i].doc = x
      BY <2>3 DEF ToSet
    <3>2. WorkerHas(d, i, x)
      BY <1>1, <3>1 DEF WorkerOK, TaskFits, WorkerHas
    <3>3. i < n + 1 /\ WorkerHas(d, i, x)'
      BY <1>3, <1>4, <3>2
    <3> QED
      BY <2>1, <3>3 DEF Kept
  <2> QED
    BY <2>1, <2>2, <2>3 DEF WrittenBefore
<1>6. DebtsKept(d)'
  <2> SUFFICES ASSUME NEW w, NEW i, NEW g, GetAt(d, w, i, g)', NEW x \in g.owes
               PROVE  x \in Matching[g.query] /\ Kept(d, w, i, x)'
    BY DEF DebtsKept
  <2>1. CASE GetAt(d, w, i, g)
    <3>1. x \in Matching[g.query] /\ Kept(d, w, i, x)
      BY <2>1 DEF DebtOK, DebtsKept
    <3> QED
      BY <1>4, <3>1 DEF Kept, Forgets
  <2>2. CASE w = "worker" /\ i = n + 1 /\ g = ask
    BY <1>2, <1>5, <2>2
  <2> QED
    BY <1>3, <2>1, <2>2
<1>7. BlocksFair(d)'
  <2>1. \A i, c : CallbackAt(d, i, c)' <=> CallbackAt(d, i, c)
    BY DEF GetDocuments, CallbackAt
  <2> QED
    BY <2>1, FairStays DEF DebtOK, BlocksFair, Forgets
<1> QED
  BY <1>6, <1>7 DEF DebtOK

(* A write has run, or the user has been named again.                      *)
LEMMA OtherRunDebts ==
  ASSUME OneAccount, StoreInv, AskInv, NEW d \in Devices, DebtOK(d), Forgets(d),
         RunWrite(d) \/ RunUserChange(d)
  PROVE  DebtOK(d)'
<1>1. FirestoreTypeOK /\ WorkerOK /\ AskOK(d) /\ WritesInv
  BY DEF StoreInv, OrderInv, WritesInv, AskInv
<1>2. /\ worker[d] # <<>> /\ Head(worker[d]).task # "listen" /\ worker' = [worker EXCEPT ![d] = Tail(@)]
      /\ UNCHANGED <<listeners, callbacks, gets>>
  BY DEF RunWrite, RunUserChange, HeadIs, listenVars, mainVars
<1>3. /\ \A i, g : GetAt(d, "worker", i, g)' <=> i \in Nat \ {0} /\ GetAt(d, "worker", i + 1, g)
      /\ \A w, i, g : w # "worker" => (GetAt(d, w, i, g)' <=> GetAt(d, w, i, g))
  BY <1>1, <1>2, OtherRunAsk
<1>4. \A x : WorkerHas(d, 1, x) => Settled(d, x)'
  <2> SUFFICES ASSUME NEW x, WorkerHas(d, 1, x) PROVE Settled(d, x)'
    OBVIOUS
  <2>1. Head(worker[d]) = WriteTask(x) /\ WriteTask(x).task = "write" /\ WriteTask(x).doc = x
    BY <1>1, <1>2, TaskGone DEF WorkerHas, TaskAt, WriteTask
  <2>2. RunWrite(d)
    BY <2>1 DEF RunUserChange, HeadIs
  <2>3. writer[d] = Nobody
    BY Views
  <2>4. PICK n : n = Len(queue[d][writer[d]]) + 1
    OBVIOUS
  <2>5. Nobody \in Users
    BY MatchingTypes
  <2>6. \A e \in Devices, v \in Users : \A i, y :
          QueueHas(e, v, i, y)'
            <=> QueueHas(e, v, i, y) \/ (e = d /\ v = writer[d] /\ i = n /\ y = Head(worker[d]).doc)
    BY <1>1, <2>2, <2>4, RunWriteMoves
  <2>7. Head(worker[d]).doc = x
    BY <2>1
  <2>8. QueueHas(d, Nobody, n, x)'
    BY <2>3, <2>5, <2>6, <2>7
  <2> QED
    BY <2>8 DEF Settled, Shown
<1>5. DebtsKept(d)'
  <2> SUFFICES ASSUME NEW w, NEW i, NEW g, GetAt(d, w, i, g)', NEW x \in g.owes
               PROVE  x \in Matching[g.query] /\ Kept(d, w, i, x)'
    BY DEF DebtsKept
  <2>1. CASE w = "worker"
    <3>1. i \in Nat \ {0} /\ GetAt(d, "worker", i + 1, g)
      BY <1>3, <2>1
    <3>2. x \in Matching[g.query] /\ Kept(d, "worker", i + 1, x)
      BY <3>1 DEF DebtOK, DebtsKept
    <3>3. Settled(d, x) => Settled(d, x)'
      BY DEF Forgets
    <3>4. Kept(d, "worker", i, x)'
      BY <1>1, <1>2, <1>4, <3>1, <3>2, <3>3, KeptMovesUp
    <3> QED
      BY <2>1, <3>2, <3>4
  <2>2. CASE w # "worker"
    <3>1. x \in Matching[g.query] /\ Kept(d, w, i, x)
      BY <1>3, <2>2 DEF DebtOK, DebtsKept
    <3> QED
      BY <2>2, <3>1 DEF Kept, Forgets
  <2> QED
    BY <2>1, <2>2
<1>6. BlocksFair(d)'
  <2>1. \A i, c : CallbackAt(d, i, c)' <=> CallbackAt(d, i, c)
    BY <1>2 DEF CallbackAt
  <2> QED
    BY <2>1, FairStays DEF DebtOK, BlocksFair, Forgets
<1> QED
  BY <1>5, <1>6 DEF DebtOK

(* The first get of the worker queue owes only what is settled.            *)
LEMMA FirstOwesSettled ==
  ASSUME FirestoreTypeOK, NEW d \in Devices, DebtOK(d), NEW g, GetAt(d, "worker", 1, g), NEW x \in g.owes
  PROVE  x \in Matching[g.query] /\ Settled(d, x)
<1>1. x \in Matching[g.query] /\ Kept(d, "worker", 1, x)
  BY DEF DebtOK, DebtsKept
<1>2. \A q : WorkerHas(d, q, x) => ~(q < 1)
  <2>1. \A q : WorkerHas(d, q, x) => q \in Nat \ {0}
    BY GetPlaces DEF WorkerHas, TaskAt
  <2> QED
    BY <2>1
<1> QED
  BY <1>1, <1>2 DEF Kept

LEMMA RunListenDebts ==
  ASSUME OneAccount, StoreInv, AskInv, NEW d \in Devices, DebtOK(d), Forgets(d), RunListen(d)
  PROVE  DebtOK(d)'
<1>1. FirestoreTypeOK /\ WorkerOK
  BY DEF StoreInv, OrderInv, WritesInv
<1>2. /\ worker[d] # <<>> /\ Head(worker[d]).task = "listen" /\ worker' = [worker EXCEPT ![d] = Tail(@)]
  BY DEF RunListen, RegisterGet, HeadIs
<1>3. PICK get, atOnce, n, m : GetJoins(d, get, atOnce, n, m)
  BY <1>1, RunListenMoves
<1>4. \A x \in Asking(get).owes : x \in Matching[get.query] /\ Settled(d, x)
  <2>1. GetAt(d, "worker", 1, Asking(get)) /\ Asking(get).query = get.query
    BY <1>3 DEF GetJoins, Asking
  <2> QED
    BY <1>1, <2>1, FirstOwesSettled
<1>5. \A x : ~WorkerHas(d, 1, x)
  <2>1. \A x : WriteTask(x).task = "write"
    BY DEF WriteTask
  <2> QED
    BY <1>1, <1>2, <2>1, TaskGone DEF WorkerHas, TaskAt
<1> DEFINE c0 == CallbackFor(get, LocalView(d, get.query))
<1>6. /\ Asking(c0) = Asking(get) /\ c0.owes = Asking(get).owes /\ c0.query = get.query
      /\ c0.docs = LocalView(d, get.query)
  BY DEF CallbackFor, Asking
<1>7. PICK b : b = c0
  OBVIOUS
<1> HIDE DEF c0
<1>8. \A i, c : CallbackAt(d, i, c)' <=> CallbackAt(d, i, c) \/ (atOnce /\ i = m + 1 /\ c = b)
  BY <1>3, <1>7 DEF GetJoins, c0
<1>9. DebtsKept(d)'
  <2> SUFFICES ASSUME NEW w, NEW i, NEW g, GetAt(d, w, i, g)', NEW x \in g.owes
               PROVE  x \in Matching[g.query] /\ Kept(d, w, i, x)'
    BY DEF DebtsKept
  <2>1. CASE w = "worker"
    <3>1. i \in Nat \ {0} /\ GetAt(d, "worker", i + 1, g)
      BY <1>3, <2>1 DEF GetJoins, TaskLeaves
    <3>2. x \in Matching[g.query] /\ Kept(d, "worker", i + 1, x)
      BY <3>1 DEF DebtOK, DebtsKept
    <3>3. Settled(d, x) => Settled(d, x)'
      BY DEF Forgets
    <3>4. Kept(d, "worker", i, x)'
      BY <1>1, <1>2, <1>5, <3>1, <3>2, <3>3, KeptMovesUp
    <3> QED
      BY <2>1, <3>2, <3>4
  <2>2. CASE w # "worker" /\ GetAt(d, w, i, g)
    <3>1. x \in Matching[g.query] /\ Kept(d, w, i, x)
      BY <2>2 DEF DebtOK, DebtsKept
    <3> QED
      BY <2>2, <3>1 DEF Kept, Forgets
  <2>3. CASE g = Asking(get)
    <3>1. g.query = get.query
      BY <2>3 DEF Asking
    <3> QED
      BY <1>4, <2>3, <3>1 DEF Kept, Forgets
  <2>4. w = "worker" \/ (w # "worker" /\ GetAt(d, w, i, g)) \/ g = Asking(get)
    <3>1. CASE w = "listener"
      BY <1>3, <3>1 DEF GetJoins
    <3>2. CASE w = "callback"
      <4>1. PICK c : CallbackAt(d, i, c)' /\ g = Asking(c)
        BY <3>2, GetsByListeners
      <4> QED
        BY <1>6, <1>7, <1>8, <3>2, <4>1, GetsByListeners
    <3> QED
      BY <3>1, <3>2, GetsByListeners
  <2> QED
    BY <2>1, <2>2, <2>3, <2>4
<1>10. BlocksFair(d)'
  <2> SUFFICES ASSUME NEW i, NEW c, CallbackAt(d, i, c)'
               PROVE  /\ c.failed \/ c.owes \subseteq c.docs \cup rejected'
                      /\ \A x \in c.docs : x \in Matching[c.query] /\ (x \in Committed' \/ Written(d, x)')
    BY DEF BlocksFair
  <2>1. CASE CallbackAt(d, i, c)
    BY <2>1, FairStays DEF DebtOK, Forgets
  <2>2. CASE c = b
    <3>1. c.owes \subseteq c.docs \cup rejected
      BY <1>4, <1>6, <1>7, <2>2, Views DEF Settled
    <3>2. \A x \in c.docs : x \in Matching[c.query] /\ (x \in Committed \/ Written(d, x))
      BY <1>6, <1>7, <2>2, Views
    <3> QED
      BY <3>1, <3>2 DEF Forgets
  <2> QED
    BY <1>8, <2>1, <2>2
<1> QED
  BY <1>9, <1>10 DEF DebtOK

LEMMA RunUnlistenDebts ==
  ASSUME OneAccount, StoreInv, AskInv, NEW d \in Devices, DebtOK(d), Forgets(d), RunUnlisten(d)
  PROVE  DebtOK(d)'
<1>1. FirestoreTypeOK /\ WorkerOK /\ AskOK(d)
  BY DEF StoreInv, OrderInv, WritesInv, AskInv
<1>2. /\ worker[d] # <<>> /\ Head(worker[d]).task = "unlisten" /\ worker' = [worker EXCEPT ![d] = Tail(@)]
      /\ UNCHANGED callbacks
  BY DEF RunUnlisten, HeadIs, mainVars
<1>3. PICK f : ListenersLeave(d, f)
  BY <1>1, RunUnlistenMoves
<1>4. \A x : ~WorkerHas(d, 1, x)
  <2>1. \A x : WriteTask(x).task = "write"
    BY DEF WriteTask
  <2> QED
    BY <1>1, <1>2, <2>1, TaskGone DEF WorkerHas, TaskAt
<1>5. DebtsKept(d)'
  <2> SUFFICES ASSUME NEW w, NEW i, NEW g, GetAt(d, w, i, g)', NEW x \in g.owes
               PROVE  x \in Matching[g.query] /\ Kept(d, w, i, x)'
    BY DEF DebtsKept
  <2>1. CASE w = "worker"
    <3>1. i \in Nat \ {0} /\ GetAt(d, "worker", i + 1, g)
      BY <1>3, <2>1 DEF ListenersLeave, TaskLeaves
    <3>2. x \in Matching[g.query] /\ Kept(d, "worker", i + 1, x)
      BY <3>1 DEF DebtOK, DebtsKept
    <3>3. Settled(d, x) => Settled(d, x)'
      BY DEF Forgets
    <3>4. Kept(d, "worker", i, x)'
      BY <1>1, <1>2, <1>4, <3>1, <3>2, <3>3, KeptMovesUp
    <3> QED
      BY <2>1, <3>2, <3>4
  <2>2. CASE w \in {"listener", "callback"}
    <3>1. PICK j : GetAt(d, w, j, g)
      BY <1>3, <2>2 DEF ListenersLeave
    <3>2. x \in Matching[g.query] /\ Kept(d, w, j, x)
      BY <3>1 DEF DebtOK, DebtsKept
    <3> QED
      BY <2>2, <3>2 DEF Kept, Forgets
  <2> QED
    BY <2>1, <2>2, GetsByListeners
<1>6. BlocksFair(d)'
  <2>1. \A i, c : CallbackAt(d, i, c)' <=> CallbackAt(d, i, c)
    BY <1>2 DEF CallbackAt
  <2> QED
    BY <2>1, FairStays DEF DebtOK, BlocksFair, Forgets
<1> QED
  BY <1>5, <1>6 DEF DebtOK

(* A view handed to waiting gets holds what the client can lay before them *)
(* and nothing of another origin.                                          *)
LEMMA RaisedDebts ==
  ASSUME OneAccount, StoreInv, NEW d \in Devices, DebtOK(d), Forgets(d), UNCHANGED worker,
         NEW queries, NEW view, NEW n, NEW f, NEW h, GetsRaised(d, queries, view, n, f, h),
         \A q \in queries : \A c \in Callback : (c.query = q /\ c.docs = view[q]) =>
           /\ \A x : x \in Matching[q] /\ Shown(d, x) => x \in c.docs
           /\ \A x \in c.docs : x \in Matching[q] /\ (x \in Committed \/ Written(d, x)),
         FirestoreTypeOK'
  PROVE  DebtOK(d)'
<1>1. \A i, x : WorkerHas(d, i, x) <=> WorkerHas(d, i, x)'
  BY DEF WorkerHas
<1>2. ASSUME NEW i, NEW c, CallbackAt(d, i, c)', ~(i <= n)
      PROVE  /\ \A x \in c.owes : x \in Matching[c.query] /\ Settled(d, x)
             /\ c.query \in queries /\ c \in Callback
             /\ (c.failed /\ c.docs = {}) \/ c.docs = view[c.query]
  <2>1. /\ GetAt(d, "listener", f[i], Asking(c)) /\ c.query \in queries
        /\ (c.failed /\ c.docs = {}) \/ c.docs = view[c.query]
    BY <1>2 DEF GetsRaised
  <2>2. Asking(c).owes = c.owes /\ Asking(c).query = c.query
    BY DEF Asking
  <2>3. \A x \in c.owes : x \in Matching[c.query] /\ Settled(d, x)
    BY <2>1, <2>2 DEF DebtOK, DebtsKept, Kept
  <2>4. c \in Callback
    BY <1>2 DEF FirestoreTypeOK, CallbackAt
  <2> QED
    BY <2>1, <2>3, <2>4
<1>3. DebtsKept(d)'
  <2> SUFFICES ASSUME NEW w, NEW i, NEW g, GetAt(d, w, i, g)', NEW x \in g.owes
               PROVE  x \in Matching[g.query] /\ Kept(d, w, i, x)'
    BY DEF DebtsKept
  <2>1. CASE w = "worker"
    <3>1. x \in Matching[g.query] /\ Kept(d, w, i, x)
      BY <2>1 DEF DebtOK, DebtsKept, GetsRaised
    <3> QED
      BY <1>1, <3>1 DEF Kept, Forgets
  <2>2. CASE w = "listener"
    <3>1. x \in Matching[g.query] /\ Kept(d, w, h[i], x)
      BY <2>2 DEF DebtOK, DebtsKept, GetsRaised
    <3> QED
      BY <2>2, <3>1 DEF Kept, Forgets
  <2>3. CASE w = "callback"
    <3>1. PICK c : CallbackAt(d, i, c)' /\ g = Asking(c)
      BY <2>3, GetsByListeners
    <3>2. g.owes = c.owes /\ g.query = c.query
      BY <3>1 DEF Asking
    <3>3. CASE i <= n
      <4>1. GetAt(d, "callback", i, g)
        BY <3>1, <3>3, GetsByListeners DEF GetsRaised
      <4>2. x \in Matching[g.query] /\ Kept(d, w, i, x)
        BY <2>3, <4>1 DEF DebtOK, DebtsKept
      <4> QED
        BY <2>3, <4>2 DEF Kept, Forgets
    <3>4. CASE ~(i <= n)
      BY <1>2, <3>1, <3>2, <3>4 DEF Kept, Forgets
    <3> QED
      BY <3>3, <3>4
  <2> QED
    BY <2>1, <2>2, <2>3, GetsByListeners
<1>4. BlocksFair(d)'
  <2> SUFFICES ASSUME NEW i, NEW c, CallbackAt(d, i, c)'
               PROVE  /\ c.failed \/ c.owes \subseteq c.docs \cup rejected'
                      /\ \A x \in c.docs : x \in Matching[c.query] /\ (x \in Committed' \/ Written(d, x)')
    BY DEF BlocksFair
  <2>1. CASE i <= n
    <3>1. CallbackAt(d, i, c)
      BY <2>1 DEF GetsRaised
    <3> QED
      BY <3>1, FairStays DEF DebtOK, Forgets
  <2>2. CASE ~(i <= n)
    <3>1. CASE c.docs = view[c.query]
      <4>1. /\ \A x : x \in Matching[c.query] /\ Shown(d, x) => x \in c.docs
            /\ \A x \in c.docs : x \in Matching[c.query] /\ (x \in Committed \/ Written(d, x))
        BY <1>2, <2>2, <3>1
      <4>2. c.owes \subseteq c.docs \cup rejected
        BY <1>2, <2>2, <4>1 DEF Settled
      <4> QED
        BY <4>1, <4>2 DEF Forgets
    <3>2. CASE c.failed /\ c.docs = {}
      BY <3>2
    <3> QED
      BY <1>2, <2>2, <3>1, <3>2
  <2> QED
    BY <2>1, <2>2
<1> QED
  BY <1>3, <1>4 DEF DebtOK

LEMMA DeliverDebts ==
  ASSUME OneAccount, StoreInv, AskInv, NEW d \in Devices, DebtOK(d), Forgets(d), Deliver(d)
  PROVE  DebtOK(d)'
<1>1. FirestoreTypeOK /\ WorkerOK
  BY DEF StoreInv, OrderInv, WritesInv
<1>2. PICK c0 : BlockRuns(d, c0)
  BY <1>1, DeliverMoves
<1>3. \A i, x : WorkerHas(d, i, x) => WorkerHas(d, i, x)'
  <2>1. worker' = worker \/ \E t : Enqueue(d, t)
    BY DEF Deliver
  <2>2. CASE worker' = worker
    BY <2>2 DEF WorkerHas
  <2>3. ASSUME NEW t, Enqueue(d, t) PROVE \A i, x : WorkerHas(d, i, x) => WorkerHas(d, i, x)'
    <3>1. \A i, s : TaskAt(d, i, s) => TaskAt(d, i, s)'
      BY <1>1, <2>3, TaskAdded
    <3>2. \A i, x : WorkerHas(d, i, x) <=> TaskAt(d, i, WriteTask(x))
      BY DEF WorkerHas, TaskAt
    <3>3. \A i, x : WorkerHas(d, i, x)' <=> TaskAt(d, i, WriteTask(x))'
      BY DEF WorkerHas, TaskAt, WriteTask
    <3> QED
      BY <3>1, <3>2, <3>3
  <2> QED
    BY <2>1, <2>2, <2>3
<1>4. DebtsKept(d)'
  <2> SUFFICES ASSUME NEW w, NEW i, NEW g, GetAt(d, w, i, g)', NEW x \in g.owes
               PROVE  x \in Matching[g.query] /\ Kept(d, w, i, x)'
    BY DEF DebtsKept
  <2>1. CASE w = "callback"
    <3>1. PICK c : CallbackAt(d, i, c)' /\ g = Asking(c)
      BY <2>1, GetsByListeners
    <3>2. CallbackAt(d, i + 1, c)
      BY <1>2, <3>1 DEF BlockRuns
    <3>3. GetAt(d, "callback", i + 1, g)
      BY <3>1, <3>2, GetsByListeners
    <3>4. x \in Matching[g.query] /\ Kept(d, w, i + 1, x)
      BY <2>1, <3>3 DEF DebtOK, DebtsKept
    <3> QED
      BY <2>1, <3>4 DEF Kept, Forgets
  <2>2. CASE w # "callback"
    <3>1. x \in Matching[g.query] /\ Kept(d, w, i, x)
      BY <1>2, <2>2 DEF DebtOK, DebtsKept, BlockRuns
    <3> QED
      BY <1>3, <3>1 DEF Kept, Forgets
  <2> QED
    BY <2>1, <2>2
<1>5. BlocksFair(d)'
  <2> SUFFICES ASSUME NEW i, NEW c, CallbackAt(d, i, c)'
               PROVE  /\ c.failed \/ c.owes \subseteq c.docs \cup rejected'
                      /\ \A x \in c.docs : x \in Matching[c.query] /\ (x \in Committed' \/ Written(d, x)')
    BY DEF BlocksFair
  <2>1. CallbackAt(d, i + 1, c)
    BY <1>2 DEF BlockRuns
  <2> QED
    BY <2>1, FairStays DEF DebtOK, Forgets
<1> QED
  BY <1>4, <1>5 DEF DebtOK

LEMMA DebtInit == FirestoreInit => DebtInv
<1> SUFFICES ASSUME FirestoreInit, NEW d \in Devices PROVE DebtOK(d)
  BY DEF DebtInv
<1>1. worker[d] = <<>> /\ listeners[d] = <<>> /\ callbacks[d] = <<>> /\ DOMAIN <<>> = {}
  BY DEF FirestoreInit
<1>2. \A i, t : ~TaskAt(d, i, t) /\ \A l : ~ListenerAt(d, i, l) /\ \A c : ~CallbackAt(d, i, c)
  BY <1>1 DEF TaskAt, ListenerAt, CallbackAt
<1>3. \A w, i, g : ~GetAt(d, w, i, g)
  BY <1>2 DEF GetAt
<1> QED
  BY <1>2, <1>3 DEF DebtOK, DebtsKept, BlocksFair

LEMMA DebtFrame == DebtInv /\ UNCHANGED firestoreVars => DebtInv'
<1> SUFFICES ASSUME DebtInv, UNCHANGED firestoreVars, NEW d \in Devices PROVE DebtOK(d)'
  BY DEF DebtInv
<1>1. UNCHANGED <<serverLog, cache, queue, worker, listeners, callbacks, issued, rejected>>
  BY DEF firestoreVars, mainVars
<1>2. /\ \A w, i, g : GetAt(d, w, i, g)' <=> GetAt(d, w, i, g)
      /\ \A i, c : CallbackAt(d, i, c)' <=> CallbackAt(d, i, c)
      /\ \A i, x : WorkerHas(d, i, x) => WorkerHas(d, i, x)'
  <2>1. worker'[d] = worker[d] /\ listeners'[d] = listeners[d] /\ callbacks'[d] = callbacks[d]
    BY <1>1
  <2> QED
    BY <2>1, GetsElsewhere DEF WorkerHas
<1>3. \A x : Settled(d, x) => Settled(d, x)'
  BY <1>1 DEF Settled, Shown, QueueHas
<1>4. \A x : x \in Committed \/ Written(d, x) => x \in Committed' \/ Written(d, x)'
  BY <1>1 DEF Committed, Written, WrittenAs
<1> QED
  BY <1>1, <1>2, <1>3, <1>4, DebtsStay DEF DebtInv

(* A write or a new user at the end of the worker queue.                   *)
LEMMA OtherEnqueuedDebts ==
  ASSUME FirestoreTypeOK, WorkerOK, NEW d \in Devices, AskOK(d), DebtOK(d), Forgets(d),
         NEW t, Enqueue(d, t), t.task \in {"write", "user"}, UNCHANGED <<listeners, callbacks, gets>>
  PROVE  DebtOK(d)'
<1>1. \A w, i, g : GetAt(d, w, i, g)' <=> GetAt(d, w, i, g)
  BY OtherEnqueuedAsk
<1>2. \A i, c : CallbackAt(d, i, c)' <=> CallbackAt(d, i, c)
  BY DEF CallbackAt
<1>3. \A i, x : WorkerHas(d, i, x) => WorkerHas(d, i, x)'
  <2>1. \A i, s : TaskAt(d, i, s) => TaskAt(d, i, s)'
    BY TaskAdded
  <2>2. \A i, x : WorkerHas(d, i, x) <=> TaskAt(d, i, WriteTask(x))
    BY DEF WorkerHas, TaskAt
  <2>3. \A i, x : WorkerHas(d, i, x)' <=> TaskAt(d, i, WriteTask(x))'
    BY DEF WorkerHas, TaskAt, WriteTask
  <2> QED
    BY <2>1, <2>2, <2>3
<1> QED
  BY <1>1, <1>2, <1>3, DebtsStay DEF Forgets

(* What the view of an answer, of an offline client or of a refused listen *)
(* has to be for the waiting gets that are told.                           *)
FairView(d, q, docs) ==
  /\ \A x : x \in Matching[q] /\ Shown(d, x) => x \in docs
  /\ \A x \in docs : x \in Matching[q] /\ (x \in Committed \/ Written(d, x))

LEMMA LocalViewIsFair ==
  ASSUME OneAccount, StoreInv, NEW d \in Devices, NEW q, NEW more,
         more \subseteq Committed
  PROVE  FairView(d, q, LocalView(d, q) \cup (more \cap Matching[q])) /\ FairView(d, q, LocalView(d, q))
BY Views DEF FairView

LEMMA ToldDebts ==
  ASSUME OneAccount, StoreInv, FirestoreTypeOK', NEW d \in Devices, DebtOK(d), Forgets(d),
         UNCHANGED worker, NEW queries, NEW view, \A q \in queries : FairView(d, q, view[q]),
         \E n, f, h : GetsRaised(d, queries, view, n, f, h)
  PROVE  DebtOK(d)'
<1>1. PICK n, f, h : GetsRaised(d, queries, view, n, f, h)
  OBVIOUS
<1>2. \A q \in queries : \A c \in Callback : (c.query = q /\ c.docs = view[q]) =>
        /\ \A x : x \in Matching[q] /\ Shown(d, x) => x \in c.docs
        /\ \A x \in c.docs : x \in Matching[q] /\ (x \in Committed \/ Written(d, x))
  BY DEF FairView
<1> QED
  BY <1>1, <1>2, RaisedDebts

(* The three steps that tell the waiting gets of some queries.             *)
LEMMA TellingMoves ==
  ASSUME StoreInv, NEW d \in Devices,
         AnswerArrives(d) \/ GoOffline(d) \/ \E q \in Queries : ListenRefused(d, q)
  PROVE  UNCHANGED <<worker, gets>>
         /\ \E queries, view : /\ OneAccount => \A q \in queries : FairView(d, q, view[q])
                               /\ \E n, f, h : GetsRaised(d, queries, view, n, f, h)
<1>1. UNCHANGED <<worker, gets>> /\ FirestoreTypeOK
  BY DEF AnswerArrives, GoOffline, ListenRefused, StoreInv
<1>2. CASE AnswerArrives(d)
  <2> DEFINE fresh == answer[d].docs \cap UNION {Matching[q] : q \in answer[d].queries}
             queries == {q \in answer[d].queries : cache[d] \cap Matching[q] \subseteq answer[d].docs}
             view == [q \in queries |-> LocalView(d, q) \cup (fresh \cap Matching[q])]
  <2>1. RaiseWaiting(d, queries, view)
    BY <1>2 DEF AnswerArrives
  <2>2. answer[d].queries \subseteq Queries
    BY <1>1 DEF FirestoreTypeOK
  <2>3. \A q \in queries : view[q] \subseteq Docs
    BY <1>1, <2>2, MatchingTypes DEF LocalView
  <2>4. fresh \subseteq Committed
    BY DEF StoreInv, ServerInv, AnswersAreFromServer
  <2>5. \A q \in queries : view[q] = LocalView(d, q) \cup (fresh \cap Matching[q])
    OBVIOUS
  <2> HIDE DEF queries, view, fresh
  <2>6. OneAccount => \A q \in queries : FairView(d, q, view[q])
    <3> SUFFICES ASSUME OneAccount, NEW q \in queries PROVE FairView(d, q, view[q])
      OBVIOUS
    <3>1. FairView(d, q, LocalView(d, q) \cup (fresh \cap Matching[q]))
      BY <2>4, LocalViewIsFair
    <3> QED
      BY <2>5, <3>1
  <2>7. \E n, f, h : GetsRaised(d, queries, view, n, f, h)
    BY <1>1, <2>1, <2>3, RaiseMoves
  <2> QED
    BY <1>1, <2>6, <2>7
<1>3. CASE GoOffline(d)
  <2> DEFINE view == [q \in Queries |-> LocalView(d, q)]
  <2>1. RaiseWaiting(d, Queries, view)
    BY <1>3 DEF GoOffline
  <2>2. \A q \in Queries : view[q] = LocalView(d, q) /\ view[q] \subseteq Docs
    BY MatchingTypes DEF LocalView
  <2> HIDE DEF view
  <2>3. OneAccount => \A q \in Queries : FairView(d, q, view[q])
    <3> SUFFICES ASSUME OneAccount, NEW q \in Queries PROVE FairView(d, q, view[q])
      OBVIOUS
    <3>1. FairView(d, q, LocalView(d, q))
      BY LocalViewIsFair
    <3> QED
      BY <2>2, <3>1
  <2>4. \E n, f, h : GetsRaised(d, Queries, view, n, f, h)
    BY <1>1, <2>1, <2>2, RaiseMoves
  <2> QED
    BY <1>1, <2>3, <2>4
<1>4. ASSUME NEW r \in Queries, ListenRefused(d, r)
      PROVE  \E queries, view : /\ OneAccount => \A q \in queries : FairView(d, q, view[q])
                                /\ \E n, f, h : GetsRaised(d, queries, view, n, f, h)
  <2> DEFINE view == [q \in {r} |-> LocalView(d, q)]
  <2>1. \A q \in {r} : view[q] = LocalView(d, q)
    OBVIOUS
  <2> HIDE DEF view
  <2>2. OneAccount => \A q \in {r} : FairView(d, q, view[q])
    <3> SUFFICES ASSUME OneAccount, NEW q \in {r} PROVE FairView(d, q, view[q])
      OBVIOUS
    <3>1. FairView(d, q, LocalView(d, q))
      BY LocalViewIsFair
    <3> QED
      BY <2>1, <3>1
  <2>3. \E n, f, h : GetsRaised(d, {r}, view, n, f, h)
    BY <1>1, <1>4, RefusedMoves
  <2> QED
    BY <2>2, <2>3
<1> QED
  BY <1>1, <1>2, <1>3, <1>4

LEMMA DebtStep ==
  ASSUME OneAccount, StoreInv, StoreInv', AskInv, DebtInv, NEW d \in Devices,
         AppStep(d) \/ ClientStep(d)
  PROVE  DebtInv'
<1>1. FirestoreTypeOK /\ FirestoreTypeOK' /\ WorkerOK /\ AskOK(d) /\ DebtOK(d) /\ WritesInv
  BY DEF StoreInv, OrderInv, WritesInv, AskInv, DebtInv
<1>2. ASSUME NEW e \in Devices \ {d} PROVE DebtOK(e)'
  BY <1>1, OthersUntouched, DebtsElsewhere DEF DebtInv
<1>3. Forgets(d)
  BY SettledGrows DEF Forgets
<1> SUFFICES DebtOK(d)'
  BY <1>2 DEF DebtInv
<1>4. ASSUME NEW doc \in Docs, SetData(d, doc) PROVE DebtOK(d)'
  <2>1. /\ Enqueue(d, WriteTask(doc)) /\ WriteTask(doc).task \in {"write", "user"}
        /\ UNCHANGED <<listeners, callbacks, gets>>
    BY <1>4 DEF SetData, WriteTask, listenVars, mainVars
  <2> QED
    BY <1>1, <1>3, <2>1, OtherEnqueuedDebts
<1>5. ASSUME NEW u \in Users, CredentialChange(d, u) PROVE DebtOK(d)'
  <2>1. /\ Enqueue(d, UserTask(u)) /\ UserTask(u).task \in {"write", "user"}
        /\ UNCHANGED <<listeners, callbacks, gets>>
    BY <1>5 DEF CredentialChange, UserTask, listenVars, mainVars
  <2> QED
    BY <1>1, <1>3, <2>1, OtherEnqueuedDebts
<1>6. ASSUME NEW q \in Queries, GetDocuments(d, q) PROVE DebtOK(d)'
  BY <1>1, <1>3, <1>6, GetDocumentsDebts
<1>7. CASE Deliver(d)
  BY <1>1, <1>3, <1>7, DeliverDebts
<1>8. ASSUME NEW u \in Users, Restart(d, u) PROVE DebtOK(d)'
  <2>1. \A w, i, g : ~GetAt(d, w, i, g)'
    BY <1>1, <1>8, RestartAsk
  <2>2. \A i, c : ~CallbackAt(d, i, c)'
    BY <2>1, GetsByListeners
  <2> QED
    BY <2>1, <2>2 DEF DebtOK, DebtsKept, BlocksFair
<1>9. CASE RunTask(d)
  BY <1>1, <1>3, <1>9, OtherRunDebts, RunListenDebts, RunUnlistenDebts DEF RunTask
<1>10. CASE AnswerArrives(d) \/ GoOffline(d) \/ \E q \in Queries : ListenRefused(d, q)
  <2>1. PICK queries, view : /\ OneAccount => \A q \in queries : FairView(d, q, view[q])
                             /\ \E n, f, h : GetsRaised(d, queries, view, n, f, h)
    BY <1>10, TellingMoves
  <2>2. UNCHANGED worker
    BY <1>10, TellingMoves
  <2> QED
    BY <1>1, <1>3, <2>1, <2>2, ToldDebts
<1>11. CASE \/ ServerCommits(d) \/ WriteAcknowledged(d) \/ WriteRejected(d) \/ WatchAnswers(d)
            \/ AnswerLost(d) \/ ForgetOffline(d)
  <2>1. UNCHANGED <<worker, listeners, callbacks, gets>>
    BY <1>11 DEF ServerCommits, WriteAcknowledged, WriteRejected, WatchAnswers, AnswerLost,
                 ForgetOffline, listenVars, mainVars
  <2> QED
    BY <1>1, <2>1, DebtsElsewhere
<1> QED
  BY <1>4, <1>5, <1>6, <1>7, <1>8, <1>9, <1>10, <1>11 DEF AppStep, ClientStep

-----------------------------------------------------------------------------
LEMMA StoreInit == FirestoreInit => StoreInv
BY ServerInitInv, OrderInitInv, TypesInit, KnownInit DEF StoreInv

LEMMA StoreStep == StoreInv /\ [FirestoreNext]_firestoreVars => StoreInv'
<1> SUFFICES ASSUME StoreInv, [FirestoreNext]_firestoreVars PROVE StoreInv'
  OBVIOUS
<1>1. ServerInv' /\ OrderInv' /\ FirestoreTypeOK'
  BY ServerStepInv, OrderStepInv, TypesStep DEF StoreInv
<1>2. KnownOK'
  <2>1. CASE UNCHANGED firestoreVars
    BY <2>1, KnownFrame DEF StoreInv, firestoreVars
  <2>2. CASE FirestoreNext
    BY <2>2, KnownStep DEF StoreInv, FirestoreNext
  <2> QED
    BY <2>1, <2>2
<1> QED
  BY <1>1, <1>2 DEF StoreInv

GetsInv == StoreInv /\ AskInv

LEMMA GetsInit == FirestoreInit => GetsInv
BY StoreInit, AskInit DEF GetsInv

LEMMA GetsStep == GetsInv /\ [FirestoreNext]_firestoreVars => GetsInv'
<1> SUFFICES ASSUME GetsInv, [FirestoreNext]_firestoreVars PROVE GetsInv'
  OBVIOUS
<1>1. StoreInv'
  BY StoreStep DEF GetsInv
<1>2. AskInv'
  <2>1. CASE UNCHANGED firestoreVars
    BY <2>1, AskFrame DEF GetsInv
  <2>2. CASE FirestoreNext
    BY <2>2, AskStep DEF GetsInv, StoreInv, OrderInv, FirestoreNext
  <2> QED
    BY <2>1, <2>2
<1> QED
  BY <1>1, <1>2 DEF GetsInv

(***************************************************************************)
(* A get is in one place at a time: it waits in the worker queue, or for   *)
(* the server, or its completion block is due; and what a device has       *)
(* written and the server has committed is in that device's cache or still *)
(* in its mutation queue.                                                  *)
(***************************************************************************)
THEOREM GetsInvariant == FirestoreSpec => []GetsInv
<1> QED
  BY GetsInit, GetsStep, PTL DEF FirestoreSpec

ReadsInv == GetsInv /\ DebtInv

LEMMA ReadsStep ==
  ASSUME OneAccount
  PROVE  ReadsInv /\ [FirestoreNext]_firestoreVars => ReadsInv'
<1> SUFFICES ASSUME ReadsInv, [FirestoreNext]_firestoreVars PROVE ReadsInv'
  OBVIOUS
<1>1. GetsInv'
  BY GetsStep DEF ReadsInv
<1>2. DebtInv'
  <2>1. CASE UNCHANGED firestoreVars
    BY <2>1, DebtFrame DEF ReadsInv
  <2>2. CASE FirestoreNext
    <3>1. PICK d \in Devices : AppStep(d) \/ ClientStep(d)
      BY <2>2 DEF FirestoreNext
    <3> QED
      BY <1>1, <3>1, DebtStep DEF ReadsInv, GetsInv
  <2> QED
    BY <2>1, <2>2
<1> QED
  BY <1>1, <1>2 DEF ReadsInv

(***************************************************************************)
(* What a get owes the app stays owed: with one account every document it  *)
(* owes is in the cache, in the mutation queue, refused by the server, or  *)
(* written by a task that runs before the get does.                        *)
(***************************************************************************)
THEOREM ReadsInvariant ==
  ASSUME OneAccount
  PROVE  FirestoreSpec => []ReadsInv
<1>1. FirestoreInit => ReadsInv
  BY GetsInit, DebtInit DEF ReadsInv
<1>2. ReadsInv /\ [FirestoreNext]_firestoreVars => ReadsInv'
  BY ReadsStep
<1> QED
  BY <1>1, <1>2, PTL DEF FirestoreSpec

(***************************************************************************)
(* On a device with one account a completion block that has no error shows *)
(* every document that was in the cache or written by the app before the   *)
(* get, but those the server has refused: neither an offline client nor an *)
(* acknowledgement that overtakes the answer, nor a restart, can hide what *)
(* the user has just saved.                                                *)
(***************************************************************************)
THEOREM GetsShowWhatWasWritten ==
  ASSUME OneAccount
  PROVE  FirestoreSpec => []GetsShowOwnWrites
<1>1. ReadsInv => GetsShowOwnWrites
  <2> SUFFICES ASSUME ReadsInv, NEW d \in Devices, NEW i \in DOMAIN callbacks[d], ~callbacks[d][i].failed
               PROVE  callbacks[d][i].owes \subseteq callbacks[d][i].docs \cup rejected
    BY DEF GetsShowOwnWrites
  <2>1. CallbackAt(d, i, callbacks[d][i])
    BY DEF CallbackAt
  <2> QED
    BY <2>1 DEF ReadsInv, DebtInv, DebtOK, BlocksFair
<1>2. FirestoreSpec => []ReadsInv
  BY ReadsInvariant
<1> QED
  BY <1>1, <1>2, PTL

-----------------------------------------------------------------------------
(* The refinement mapping: what PinStore calls asked is every get that is  *)
(* at some place, what it calls writtenOn are the writes of the device.    *)
Asked == [d \in Devices |-> AskedGets(d)]

WrittenOn ==
  [d \in Devices |-> {write.doc : write \in {w \in ToSet(issued) : w.device = d}}]

Waits(d, g) == \E w, i : GetAt(d, w, i, g)

LEMMA AskedWaits ==
  ASSUME NEW d
  PROVE  /\ \A g : g \in AskedGets(d) <=> Waits(d, g)
         /\ \A g : g \in AskedGets(d)' <=> Waits(d, g)'
<1>1. \A s, t : t \in ToSet(s) <=> \E i : i \in DOMAIN s /\ s[i] = t
  BY DEF ToSet
<1>2. \A g : g \in AskedGets(d) <=> Waits(d, g)
  BY <1>1 DEF AskedGets, Waits, GetAt, TaskAt, ListenerAt, CallbackAt
<1>3. \A g : g \in AskedGets(d)' <=> Waits(d, g)'
  BY <1>1 DEF AskedGets, Waits, GetAt, TaskAt, ListenerAt, CallbackAt
<1> QED
  BY <1>2, <1>3

LEMMA WrittenOnIs ==
  ASSUME NEW d \in Devices
  PROVE  /\ \A x : x \in WrittenOn[d] <=> Written(d, x)
         /\ \A x : x \in WrittenOn'[d] <=> Written(d, x)'
<1>1. \A s, t : t \in ToSet(s) <=> \E i : i \in DOMAIN s /\ s[i] = t
  BY DEF ToSet
<1>2. \A x : x \in WrittenOn[d] <=> Written(d, x)
  BY <1>1 DEF WrittenOn, Written, WrittenAs
<1>3. \A x : x \in WrittenOn'[d] <=> Written(d, x)'
  BY <1>1 DEF WrittenOn, Written, WrittenAs
<1> QED
  BY <1>2, <1>3

(* A step changes the unanswered gets of its own device only.              *)
LEMMA AskedMoves ==
  ASSUME FirestoreTypeOK, NEW d \in Devices, AppStep(d) \/ ClientStep(d), NEW S,
         \A g : Waits(d, g)' <=> g \in S
  PROVE  Asked' = [Asked EXCEPT ![d] = S]
<1>1. AskedGets(d)' = S
  BY AskedWaits
<1>2. ASSUME NEW e \in Devices \ {d} PROVE AskedGets(e)' = AskedGets(e)
  BY OthersUntouched DEF AskedGets
<1> QED
  BY <1>1, <1>2 DEF Asked

LEMMA AskedStays ==
  ASSUME FirestoreTypeOK, NEW d \in Devices, AppStep(d) \/ ClientStep(d),
         \A g : Waits(d, g)' <=> Waits(d, g)
  PROVE  UNCHANGED Asked
<1>1. AskedGets(d)' = AskedGets(d)
  BY AskedWaits
<1>2. ASSUME NEW e \in Devices \ {d} PROVE AskedGets(e)' = AskedGets(e)
  BY OthersUntouched DEF AskedGets
<1> QED
  BY <1>1, <1>2 DEF Asked

(* Where a write is that has been made on a device.                        *)
LEMMA WrittenPlaces ==
  ASSUME StoreInv, NEW d \in Devices
  PROVE  /\ \A i, x : WorkerHas(d, i, x) => Written(d, x)
         /\ \A u \in Users : \A i, x : QueueHas(d, u, i, x) => Written(d, x)
         /\ \A x : Written(d, x) /\ x \notin rejected \cup lost =>
              \/ \E i : WorkerHas(d, i, x)
              \/ \E u \in Users : \E i : QueueHas(d, u, i, x)
              \/ x \in cache[d]
<1>1. \A x \in Issued : \E k, e, u : WrittenAs(k, e, u, x)
  BY DEF Issued, ToSet, WrittenAs
<1>2. WritesInv /\ FiledRight /\ PlacesOK /\ KnownOK /\ IssuedOK
  BY DEF StoreInv, OrderInv, WritesInv
<1>3. ASSUME NEW i, NEW x, WorkerHas(d, i, x) PROVE Written(d, x)
  <2>1. x \in Issued
    BY <1>2, <1>3 DEF PlacesOK
  <2>2. PICK k, e, u : WrittenAs(k, e, u, x)
    BY <1>1, <2>1
  <2>3. e = d
    BY <1>2, <1>3, <2>2 DEF FiledRight
  <2> QED
    BY <2>2, <2>3 DEF Written
<1>4. ASSUME NEW u \in Users, NEW i, NEW x, QueueHas(d, u, i, x) PROVE Written(d, x)
  <2>1. x \in Issued
    BY <1>2, <1>4 DEF PlacesOK
  <2>2. PICK k, e, v : WrittenAs(k, e, v, x)
    BY <1>1, <2>1
  <2>3. e = d
    BY <1>2, <1>4, <2>2 DEF FiledRight
  <2> QED
    BY <2>2, <2>3 DEF Written
<1>5. ASSUME NEW x, Written(d, x), x \notin rejected \cup lost
      PROVE  \/ \E i : WorkerHas(d, i, x)
             \/ \E u \in Users : \E i : QueueHas(d, u, i, x)
             \/ x \in cache[d]
  <2>1. PICK k, u : WrittenAs(k, d, u, x)
    BY <1>5 DEF Written
  <2>2. u \in Users /\ Placed(x)
    BY <1>2, <2>1, PlacesAreNumbers DEF IssuedOK, WritesInv
  <2>3. CASE x \in Committed
    BY <1>2, <2>1, <2>2, <2>3 DEF KnownOK
  <2>4. CASE x \notin Committed
    BY <1>2, <1>5, <2>1, <2>2, <2>4 DEF Placed, FiledRight
  <2> QED
    BY <2>3, <2>4
<1> QED
  BY <1>3, <1>4, <1>5

(* What the client counts as written before a get is what PinStore owes.   *)
LEMMA OwedIsWritten ==
  ASSUME OneAccount, StoreInv, NEW d \in Devices
  PROVE  WrittenBefore(d) \cup cache[d] = cache[d] \cup (WrittenOn[d] \ (rejected \cup lost))
<1>1. \A x : x \in WrittenBefore(d) <=> (\E i : WorkerHas(d, i, x)) \/ (\E p : QueueHas(d, Nobody, p, x))
  <2>1. \A x : x \in Pending(d) <=> \E p : QueueHas(d, Nobody, p, x)
    BY Views
  <2>2. \A x : x \in {t.doc : t \in {s \in ToSet(worker[d]) : s.task = "write"}}
                 <=> \E i : WorkerHas(d, i, x)
    <3>1. \A x : WriteTask(x).task = "write" /\ WriteTask(x).doc = x
      BY DEF WriteTask
    <3>2. \A i \in DOMAIN worker[d] : worker[d][i].task = "write" =>
            worker[d][i] = WriteTask(worker[d][i].doc)
      BY DEF StoreInv, OrderInv, WritesInv, WorkerOK, TaskFits
    <3>3. \A t : t \in ToSet(worker[d]) <=> \E i \in DOMAIN worker[d] : worker[d][i] = t
      BY DEF ToSet
    <3>4. ASSUME NEW t \in ToSet(worker[d]), t.task = "write" PROVE \E i : WorkerHas(d, i, t.doc)
      <4>1. PICK i \in DOMAIN worker[d] : worker[d][i] = t
        BY <3>3, <3>4
      <4> QED
        BY <3>2, <3>4, <4>1 DEF WorkerHas
    <3>5. ASSUME NEW x, NEW i, WorkerHas(d, i, x)
          PROVE  WriteTask(x) \in ToSet(worker[d])
      BY <3>3, <3>5 DEF WorkerHas
    <3> QED
      BY <3>1, <3>4, <3>5
  <2> QED
    BY <2>1, <2>2 DEF WrittenBefore
<1>2. \A x : x \in WrittenBefore(d) => Written(d, x) /\ x \notin rejected \cup lost
  BY <1>1, WrittenPlaces, MatchingTypes DEF StoreInv, OrderInv, WritesInv, PlacesOK
<1>3. \A x : Written(d, x) /\ x \notin rejected \cup lost => x \in WrittenBefore(d) \cup cache[d]
  BY <1>1, WrittenPlaces DEF OneAccount
<1> QED
  BY <1>2, <1>3, WrittenOnIs

-----------------------------------------------------------------------------
LEMMA PromiseInit == FirestoreInit => Promise!StoreInit
<1> SUFFICES ASSUME FirestoreInit PROVE Promise!StoreInit
  OBVIOUS
<1>1. ToSet(<<>>) = {}
  BY DEF ToSet
<1>2. Committed = {} /\ rejected \cup lost = {} /\ ToSet(issued) = {}
  BY <1>1 DEF FirestoreInit, Committed
<1>3. \A d \in Devices : AskedGets(d) = {}
  BY <1>1 DEF FirestoreInit, AskedGets
<1> QED
  BY <1>2, <1>3 DEF FirestoreInit, Promise!StoreInit

LEMMA SetDataPromise ==
  ASSUME StoreInv, AskInv, NEW d \in Devices, NEW doc \in Docs, SetData(d, doc), AppStep(d)
  PROVE  Promise!StoreWrite(d, doc)
<1>1. FirestoreTypeOK /\ WorkerOK /\ AskOK(d)
  BY DEF StoreInv, OrderInv, WritesInv, AskInv
<1>2. /\ Enqueue(d, WriteTask(doc)) /\ WriteTask(doc).task \in {"write", "user"}
      /\ UNCHANGED <<listeners, callbacks, gets, serverLog, cache, rejected, lost, delivered>>
  BY DEF SetData, WriteTask, listenVars, mainVars, storageVars
<1>3. \A w, i, g : GetAt(d, w, i, g)' <=> GetAt(d, w, i, g)
  BY <1>1, <1>2, OtherEnqueuedAsk
<1>4. UNCHANGED Asked
  BY <1>1, <1>3, AskedStays DEF Waits
<1>5. \A e \in Devices : doc \notin WrittenOn[e]
  BY DEF SetData, WrittenOn, Issued
<1>6. WrittenOn' = [WrittenOn EXCEPT ![d] = WrittenOn[d] \cup {doc}]
  <2>1. PICK w : w.doc = doc /\ w.device = d /\ issued' = Append(issued, w)
    BY DEF SetData
  <2>2. PICK S : issued \in Seq(S)
    BY DEF StoreInv, OrderInv, WritesInv, LogsOK, IsSeq
  <2>3. ToSet(issued') = ToSet(issued) \cup {w}
    BY <2>1, <2>2, AppendedLog
  <2>4. \A e \in Devices : WrittenOn'[e] = IF e = d THEN WrittenOn[e] \cup {doc} ELSE WrittenOn[e]
    BY <2>1, <2>3 DEF WrittenOn
  <2>5. WrittenOn' = [e \in Devices |-> WrittenOn'[e]] /\ WrittenOn = [e \in Devices |-> WrittenOn[e]]
    BY DEF WrittenOn
  <2> HIDE DEF WrittenOn
  <2> QED
    BY <2>4, <2>5
<1> QED
  BY <1>2, <1>4, <1>5, <1>6 DEF Promise!StoreWrite, Asked, WrittenOn, Committed

LEMMA GetDocumentsPromise ==
  ASSUME OneAccount, StoreInv, AskInv, NEW d \in Devices, NEW query \in Queries,
         GetDocuments(d, query), AppStep(d)
  PROVE  \E id \in 1 .. MaxGets : Promise!StoreAsk(d, id, query)
<1>1. FirestoreTypeOK /\ WorkerOK /\ AskOK(d)
  BY DEF StoreInv, OrderInv, WritesInv, AskInv
<1>2. PICK ask : ask = [id |-> gets[d] + 1, query |-> query,
                        owes |-> (WrittenBefore(d) \cup cache[d]) \cap Matching[query]]
  OBVIOUS
<1>3. \A w, i, g : GetAt(d, w, i, g)' <=>
        GetAt(d, w, i, g) \/ (w = "worker" /\ i = Len(worker[d]) + 1 /\ g = ask)
  BY <1>1, <1>2, GetDocumentsAsk
<1>4. \A g : Waits(d, g)' <=> g \in AskedGets(d) \cup {ask}
  BY <1>3, AskedWaits DEF Waits
<1>5. Asked' = [Asked EXCEPT ![d] = AskedGets(d) \cup {ask}]
  BY <1>1, <1>4, AskedMoves
<1>6. gets[d] + 1 \in 1 .. MaxGets /\ gets[d] \in Nat
  BY <1>1, FirestoreAssumption DEF GetDocuments, FirestoreTypeOK
<1>7. \A g \in AskedGets(d) : g.id # gets[d] + 1
  <2>1. \A w, i, g : GetAt(d, w, i, g) => g.id \in Nat /\ g.id <= gets[d]
    BY <1>1, GetPlaces DEF AskOK, AskIds
  <2>2. \A n \in Nat : n <= gets[d] => n # gets[d] + 1
    BY <1>6
  <2> QED
    BY <2>1, <2>2, AskedWaits DEF Waits
<1>8. ask = [id |-> gets[d] + 1, query |-> query,
             owes |-> (cache[d] \cup (WrittenOn[d] \ (rejected \cup lost))) \cap Matching[query]]
  BY <1>2, OwedIsWritten
<1>9. UNCHANGED <<serverLog, cache, rejected, lost, delivered, issued>>
  BY DEF GetDocuments, storageVars
<1>10. Promise!StoreAsk(d, gets[d] + 1, query)
  <2>1. Asked[d] = AskedGets(d)
    BY DEF Asked
  <2> QED
    BY <1>5, <1>7, <1>8, <1>9, <2>1
       DEF Promise!StoreAsk, Promise!Owed, Asked, WrittenOn, Committed
<1> QED
  BY <1>6, <1>10

WaitsIn(d, w, g) == \E i : GetAt(d, w, i, g)

LEMMA WaitsSomewhere ==
  ASSUME NEW d
  PROVE  /\ \A g : Waits(d, g) <=> WaitsIn(d, "worker", g) \/ WaitsIn(d, "listener", g) \/ WaitsIn(d, "callback", g)
         /\ \A g : Waits(d, g)' <=> WaitsIn(d, "worker", g)' \/ WaitsIn(d, "listener", g)' \/ WaitsIn(d, "callback", g)'
<1>1. \A g : Waits(d, g) <=> \E w : WaitsIn(d, w, g)
  BY DEF Waits, WaitsIn
<1>2. \A g : Waits(d, g)' <=> \E w : WaitsIn(d, w, g)'
  BY DEF Waits, WaitsIn
<1>3. \A w, g : WaitsIn(d, w, g) \/ WaitsIn(d, w, g)' => w \in {"worker", "listener", "callback"}
  BY GetsByListeners DEF WaitsIn
<1> QED
  BY <1>1, <1>2, <1>3

LEMMA FirstTaskLeaves ==
  ASSUME FirestoreTypeOK, NEW d \in Devices,
         \A i, g : GetAt(d, "worker", i, g)' <=> i \in Nat \ {0} /\ GetAt(d, "worker", i + 1, g)
  PROVE  \A g : WaitsIn(d, "worker", g) <=> WaitsIn(d, "worker", g)' \/ GetAt(d, "worker", 1, g)
<1>1. ASSUME NEW g, NEW i, GetAt(d, "worker", i, g), i # 1 PROVE WaitsIn(d, "worker", g)'
  <2>1. i \in Nat \ {0}
    BY <1>1, GetPlaces
  <2>2. PICK j \in Nat \ {0} : j + 1 = i
    <3>1. i - 1 \in Nat \ {0} /\ (i - 1) + 1 = i
      BY <1>1, <2>1
    <3> QED
      BY <3>1
  <2>3. GetAt(d, "worker", j, g)'
    BY <1>1, <2>2
  <2> QED
    BY <2>3 DEF WaitsIn
<1>2. ASSUME NEW g, WaitsIn(d, "worker", g)' PROVE WaitsIn(d, "worker", g)
  BY <1>2 DEF WaitsIn
<1>3. \A g : GetAt(d, "worker", 1, g) => WaitsIn(d, "worker", g)
  BY DEF WaitsIn
<1>4. ASSUME NEW g, WaitsIn(d, "worker", g) PROVE WaitsIn(d, "worker", g)' \/ GetAt(d, "worker", 1, g)
  BY <1>1, <1>4 DEF WaitsIn
<1> QED
  BY <1>2, <1>3, <1>4

(* A task that runs, and a step that tells waiting gets, moves gets from   *)
(* place to place.                                                         *)
LEMMA RunTaskKeepsAsked ==
  ASSUME StoreInv, AskInv, NEW d \in Devices, RunTask(d)
  PROVE  UNCHANGED Asked
<1>1. FirestoreTypeOK /\ WorkerOK /\ AskOK(d) /\ (AppStep(d) \/ ClientStep(d))
  BY DEF StoreInv, OrderInv, WritesInv, AskInv, ClientStep
<1> SUFFICES \A g : Waits(d, g)' <=> Waits(d, g)
  BY <1>1, AskedStays
<1>2. CASE RunWrite(d) \/ RunUserChange(d)
  <2>1. /\ worker[d] # <<>> /\ Head(worker[d]).task # "listen" /\ worker' = [worker EXCEPT ![d] = Tail(@)]
        /\ UNCHANGED <<listeners, callbacks, gets>>
    BY <1>2 DEF RunWrite, RunUserChange, HeadIs, listenVars, mainVars
  <2>2. /\ \A i, g : GetAt(d, "worker", i, g)' <=> i \in Nat \ {0} /\ GetAt(d, "worker", i + 1, g)
        /\ \A w, i, g : w # "worker" => (GetAt(d, w, i, g)' <=> GetAt(d, w, i, g))
    BY <1>1, <2>1, OtherRunAsk
  <2>3. \A g : ~GetAt(d, "worker", 1, g)
    BY <1>1, <2>1, GetTaskGone
  <2>4. \A g : WaitsIn(d, "worker", g)' <=> WaitsIn(d, "worker", g)
    BY <1>1, <2>2, <2>3, FirstTaskLeaves
  <2>5. \A g : /\ WaitsIn(d, "listener", g)' <=> WaitsIn(d, "listener", g)
               /\ WaitsIn(d, "callback", g)' <=> WaitsIn(d, "callback", g)
    BY <2>2 DEF WaitsIn
  <2> QED
    BY <2>4, <2>5, WaitsSomewhere
<1>3. CASE RunListen(d)
  <2>1. PICK get, atOnce, n, m : GetJoins(d, get, atOnce, n, m)
    BY <1>1, <1>3, RunListenMoves
  <2>2. \A g : GetAt(d, "worker", 1, g) <=> g = Asking(get)
    BY <1>1, <2>1, GetPlaces DEF GetJoins
  <2>3. PICK b : b = CallbackFor(get, LocalView(d, get.query))
    OBVIOUS
  <2>4. \A g : WaitsIn(d, "callback", g)' <=> WaitsIn(d, "callback", g) \/ (atOnce /\ g = Asking(get))
    <3>1. \A i, c : CallbackAt(d, i, c)' <=> CallbackAt(d, i, c) \/ (atOnce /\ i = m + 1 /\ c = b)
      BY <2>1, <2>3 DEF GetJoins
    <3>2. Asking(b) = Asking(get)
      BY <2>3 DEF CallbackFor, Asking
    <3>3. \A i, g : GetAt(d, "callback", i, g)' <=>
            GetAt(d, "callback", i, g) \/ (atOnce /\ i = m + 1 /\ g = Asking(get))
      BY <3>1, <3>2, GetsByListeners
    <3> QED
      BY <3>3 DEF WaitsIn
  <2>5. \A g : WaitsIn(d, "listener", g)' <=> WaitsIn(d, "listener", g) \/ (~atOnce /\ g = Asking(get))
    <3>1. \A i, g : GetAt(d, "listener", i, g)' <=>
            GetAt(d, "listener", i, g) \/ (~atOnce /\ i = n + 1 /\ g = Asking(get))
      BY <2>1 DEF GetJoins
    <3> QED
      BY <3>1 DEF WaitsIn
  <2>6. \A g : WaitsIn(d, "worker", g) <=> WaitsIn(d, "worker", g)' \/ g = Asking(get)
    BY <1>1, <2>1, <2>2, FirstTaskLeaves DEF GetJoins, TaskLeaves
  <2> QED
    BY <2>4, <2>5, <2>6, WaitsSomewhere
<1>4. CASE RunUnlisten(d)
  <2>1. PICK f : ListenersLeave(d, f) /\ ~\E g : GetAt(d, "worker", 1, g)
    BY <1>1, <1>4, RunUnlistenMoves
  <2>2. \A g : WaitsIn(d, "worker", g) <=> WaitsIn(d, "worker", g)'
    BY <1>1, <2>1, FirstTaskLeaves DEF ListenersLeave, TaskLeaves
  <2>3. \A g : WaitsIn(d, "listener", g) <=> WaitsIn(d, "listener", g)'
    BY <2>1 DEF ListenersLeave, WaitsIn
  <2>4. \A g : WaitsIn(d, "callback", g) <=> WaitsIn(d, "callback", g)'
    BY <2>1 DEF ListenersLeave, WaitsIn
  <2> QED
    BY <2>2, <2>3, <2>4, WaitsSomewhere
<1> QED
  BY <1>2, <1>3, <1>4 DEF RunTask

LEMMA TellingKeepsAsked ==
  ASSUME StoreInv, NEW d \in Devices,
         AnswerArrives(d) \/ GoOffline(d) \/ \E q \in Queries : ListenRefused(d, q)
  PROVE  UNCHANGED Asked
<1>1. FirestoreTypeOK /\ (AppStep(d) \/ ClientStep(d))
  BY DEF StoreInv, ClientStep
<1>2. PICK queries, view : \E n, f, h : GetsRaised(d, queries, view, n, f, h)
  BY TellingMoves
<1>3. PICK n, f, h : GetsRaised(d, queries, view, n, f, h)
  BY <1>2
<1>4. \A i, g : GetAt(d, "callback", i, g)' => Waits(d, g)
  <2> SUFFICES ASSUME NEW i, NEW g, GetAt(d, "callback", i, g)' PROVE Waits(d, g)
    OBVIOUS
  <2>1. PICK c : CallbackAt(d, i, c)' /\ g = Asking(c)
    BY GetsByListeners
  <2>2. CASE i <= n
    BY <1>3, <2>1, <2>2, GetsByListeners DEF GetsRaised, Waits
  <2>3. CASE ~(i <= n)
    BY <1>3, <2>1, <2>3 DEF GetsRaised, Waits
  <2> QED
    BY <2>2, <2>3
<1>5. \A i, g : GetAt(d, "callback", i, g) => GetAt(d, "callback", i, g)'
  <2> SUFFICES ASSUME NEW i, NEW g, GetAt(d, "callback", i, g) PROVE GetAt(d, "callback", i, g)'
    OBVIOUS
  <2>1. PICK c : CallbackAt(d, i, c) /\ g = Asking(c)
    BY GetsByListeners
  <2>2. CallbackAt(d, i, c)'
    BY <1>3, <2>1 DEF GetsRaised
  <2> QED
    BY <2>1, <2>2, GetsByListeners
<1>6. \A i, g : GetAt(d, "listener", i, g) => Waits(d, g)'
  <2> SUFFICES ASSUME NEW i, NEW g, GetAt(d, "listener", i, g) PROVE Waits(d, g)'
    OBVIOUS
  <2>1. CASE g.query \in queries
    BY <1>3, <2>1 DEF GetsRaised, Waits
  <2>2. CASE g.query \notin queries
    BY <1>3, <2>2 DEF GetsRaised, Waits
  <2> QED
    BY <2>1, <2>2
<1>7. \A i, g : GetAt(d, "listener", i, g)' => Waits(d, g)
  BY <1>3 DEF GetsRaised, Waits
<1>8. \A i, g : GetAt(d, "worker", i, g) <=> GetAt(d, "worker", i, g)'
  BY <1>3 DEF GetsRaised
<1>9. \A g : Waits(d, g) => Waits(d, g)'
  BY <1>5, <1>6, <1>8, WaitsSomewhere DEF WaitsIn
<1>10. \A g : Waits(d, g)' => Waits(d, g)
  BY <1>4, <1>7, <1>8, WaitsSomewhere DEF WaitsIn
<1> QED
  BY <1>1, <1>9, <1>10, AskedStays

(* A device hears of what the server has committed.                        *)
LEMMA LearnPromise ==
  ASSUME StoreInv, NEW d \in Devices, NEW docs \in SUBSET Committed,
         cache' = [cache EXCEPT ![d] = cache[d] \cup docs], UNCHANGED Asked,
         UNCHANGED <<serverLog, rejected, lost, issued, delivered>>
  PROVE  Promise!StoreLearn(d)
BY DEF Promise!StoreLearn, Asked, WrittenOn, Committed

LEMMA AnswerPromise ==
  ASSUME StoreInv, NEW d \in Devices, AnswerArrives(d)
  PROVE  Promise!StoreLearn(d)
<1>1. UNCHANGED Asked
  BY TellingKeepsAsked
<1>2. PICK docs : /\ docs \subseteq answer[d].docs
                  /\ cache' = [cache EXCEPT ![d] = cache[d] \cup docs]
  BY DEF AnswerArrives
<1>3. docs \in SUBSET Committed
  BY <1>2 DEF StoreInv, ServerInv, AnswersAreFromServer
<1>4. UNCHANGED <<serverLog, rejected, lost, issued, delivered>>
  BY DEF AnswerArrives
<1> QED
  BY <1>1, <1>2, <1>3, <1>4, LearnPromise

LEMMA AcknowledgedPromise ==
  ASSUME StoreInv, NEW d \in Devices, WriteAcknowledged(d), UNCHANGED Asked
  PROVE  Promise!StoreLearn(d)
<1>1. PICK doc : doc \in Committed /\ cache' = [cache EXCEPT ![d] = cache[d] \cup {doc}]
  BY DEF WriteAcknowledged, CacheAcknowledged
<1>2. UNCHANGED <<serverLog, rejected, lost, issued, delivered>>
  BY DEF WriteAcknowledged, mainVars
<1> QED
  BY <1>1, <1>2, LearnPromise

LEMMA RejectedPromise ==
  ASSUME StoreInv, NEW d \in Devices, WriteRejected(d), UNCHANGED Asked
  PROVE  \E doc \in Docs : Promise!StoreRefuse(doc)
<1>1. WritesInv /\ FirestoreTypeOK
  BY DEF StoreInv, OrderInv
<1>2. PICK u \in Users : \E doc : FirstWriteLeaves(d, u, doc)
  BY <1>1, AnsweredWriteMoves
<1>3. PICK doc : FirstWriteLeaves(d, u, doc)
  BY <1>2
<1>4. QueueHas(d, u, 1, doc) /\ UNCHANGED <<serverLog, issued, lost>>
  BY <1>3 DEF FirstWriteLeaves
<1>5. doc \notin Committed /\ rejected' = rejected \cup {doc}
  <2>1. /\ queue[d][writer[d]] # <<>> /\ Head(queue[d][writer[d]]) \notin Committed
        /\ rejected' = rejected \cup {Head(queue[d][writer[d]])} /\ IsSeq(queue[d][writer[d]])
    BY <1>1 DEF WriteRejected, WritesInv, QueueOK
  <2>2. Head(queue[d][writer[d]]) = doc
    BY <1>3, <2>1, Shortened DEF FirstWriteLeaves, QueueHas
  <2> QED
    BY <2>1, <2>2
<1>6. Written(d, doc) /\ doc \notin rejected \cup lost /\ doc \in Docs
  <2>1. queue[d][u] \in Seq(Docs)
    BY <1>1 DEF FirestoreTypeOK
  <2> QED
    BY <1>1, <1>4, <2>1, WrittenPlaces DEF WritesInv, PlacesOK, QueueHas
<1>7. doc \in WrittenOn[d]
  BY <1>6, WrittenOnIs
<1>8. UNCHANGED <<cache, delivered>>
  BY DEF WriteRejected, mainVars
<1>9. (rejected \cup lost)' = (rejected \cup lost) \cup {doc}
  BY <1>4, <1>5
<1>10. Promise!StoreRefuse(doc)
  BY <1>4, <1>5, <1>6, <1>7, <1>8, <1>9
     DEF Promise!StoreRefuse, Promise!Decided, Asked, WrittenOn, Committed
<1> QED
  BY <1>6, <1>10

LEMMA CommitsPromise ==
  ASSUME StoreInv, NEW d \in Devices, ServerCommits(d), UNCHANGED Asked
  PROVE  \E doc \in Docs : Promise!StoreCommit(doc)
<1>1. WritesInv /\ FirestoreTypeOK
  BY DEF StoreInv, OrderInv
<1>2. PICK doc, i : /\ writer[d] \in Users /\ QueueHas(d, writer[d], i, doc) /\ doc \notin Committed
                    /\ Committed' = Committed \cup {doc} /\ UNCHANGED <<issued, rejected, lost>>
  BY <1>1, ServerCommitsMoves
<1>3. Written(d, doc) /\ doc \notin rejected \cup lost /\ doc \in Docs
  <2>1. queue[d][writer[d]] \in Seq(Docs)
    BY <1>1, <1>2 DEF FirestoreTypeOK
  <2> QED
    BY <1>1, <1>2, <2>1, WrittenPlaces DEF WritesInv, PlacesOK, QueueHas
<1>4. doc \in WrittenOn[d]
  BY <1>3, WrittenOnIs
<1>5. UNCHANGED <<cache, delivered>>
  BY DEF ServerCommits, mainVars
<1>6. Promise!StoreCommit(doc)
  BY <1>2, <1>3, <1>4, <1>5 DEF Promise!StoreCommit, Promise!Decided, Asked, WrittenOn
<1> QED
  BY <1>3, <1>6

LEMMA DeliverPromise ==
  ASSUME StoreInv, AskInv, NEW d \in Devices, DebtOK(d), Deliver(d), AppStep(d)
  PROVE  \E get \in AskedGets(d) :
           (\E docs \in SUBSET Docs : Promise!StoreAnswer(d, get, docs)) \/ Promise!StoreFail(d, get)
<1>1. FirestoreTypeOK /\ WorkerOK /\ AskOK(d)
  BY DEF StoreInv, OrderInv, WritesInv, AskInv
<1>2. PICK c : BlockRuns(d, c)
  BY <1>1, DeliverMoves
<1>3. UNCHANGED <<gets, serverLog, cache, issued, rejected, lost>>
  BY DEF Deliver, storageVars
<1>4. /\ GetAt(d, "callback", 1, Asking(c))
      /\ \A w, i, g : GetAt(d, w, i, g)' => g.id # c.id
      /\ \A w, i, g : GetAt(d, w, i, g) => g = Asking(c) \/ \E j : GetAt(d, w, j, g)'
      /\ \A w, i, g : GetAt(d, w, i, g)' => \E j : GetAt(d, w, j, g)
  BY <1>1, <1>2, <1>3, DeliverAsk
<1>5. Asking(c).id = c.id /\ Asking(c).query = c.query /\ Asking(c).owes = c.owes
  BY DEF Asking
<1>6. Asking(c) \in AskedGets(d)
  BY <1>4, AskedWaits DEF Waits
<1>7. \A g : Waits(d, g)' <=> g \in AskedGets(d) \ {Asking(c)}
  <2>1. \A g : Waits(d, g)' => Waits(d, g) /\ g # Asking(c)
    BY <1>4, <1>5 DEF Waits
  <2>2. \A g : Waits(d, g) /\ g # Asking(c) => Waits(d, g)'
    BY <1>4 DEF Waits
  <2> QED
    BY <2>1, <2>2, AskedWaits
<1>8. Asked' = [Asked EXCEPT ![d] = Asked[d] \ {Asking(c)}]
  <2>1. Asked[d] = AskedGets(d)
    BY DEF Asked
  <2> QED
    BY <1>1, <1>7, <2>1, AskedMoves
<1>9. Asking(c) \in Asked[d]
  BY <1>6 DEF Asked
<1>10. CASE c.failed
  <2>1. UNCHANGED delivered
    BY <1>2, <1>10 DEF BlockRuns
  <2>2. Promise!StoreFail(d, Asking(c))
    BY <1>3, <1>8, <1>9, <2>1 DEF Promise!StoreFail, Asked, WrittenOn, Committed
  <2> QED
    BY <1>6, <2>2
<1>11. CASE ~c.failed
  <2>1. delivered' = [delivered EXCEPT ![d] = {[id |-> Asking(c).id, docs |-> c.docs]}]
    BY <1>2, <1>5, <1>11 DEF BlockRuns
  <2>2. /\ c.owes \subseteq c.docs \cup rejected
        /\ \A x \in c.docs : x \in Matching[c.query] /\ (x \in Committed \/ Written(d, x))
    BY <1>2, <1>11 DEF BlockRuns, DebtOK, BlocksFair
  <2>3. c.docs \in SUBSET Docs
    BY <1>2 DEF BlockRuns, Callback
  <2>4. Promise!MayAnswer(d, Asking(c), c.docs)
    <3>1. \A x \in c.docs : x \in Committed \/ x \in WrittenOn[d]
      BY <2>2, WrittenOnIs
    <3> QED
      BY <1>5, <2>2, <3>1 DEF Promise!MayAnswer, WrittenOn
  <2>5. Promise!StoreAnswer(d, Asking(c), c.docs)
    BY <1>3, <1>8, <1>9, <2>1, <2>4 DEF Promise!StoreAnswer, Asked, WrittenOn, Committed
  <2> QED
    BY <1>6, <2>3, <2>5
<1> QED
  BY <1>10, <1>11

LEMMA RestartPromise ==
  ASSUME StoreInv, NEW d \in Devices, NEW user \in Users, Restart(d, user), AppStep(d)
  PROVE  Promise!StoreRestart(d)
<1>1. FirestoreTypeOK /\ WritesInv
  BY DEF StoreInv, OrderInv
<1>2. PICK gone : /\ gone = {t.doc : t \in {s \in ToSet(worker[d]) : s.task = "write"}}
                  /\ lost' = lost \cup gone
  BY DEF Restart, DropProcess
<1>3. \A x \in gone : \E i : WorkerHas(d, i, x)
  <2>1. \A i \in DOMAIN worker[d] : worker[d][i].task = "write" =>
          worker[d][i] = WriteTask(worker[d][i].doc)
    BY <1>1 DEF WritesInv, WorkerOK, TaskFits
  <2>2. \A t \in ToSet(worker[d]) : \E i \in DOMAIN worker[d] : worker[d][i] = t
    BY DEF ToSet
  <2>3. ASSUME NEW t \in ToSet(worker[d]), t.task = "write" PROVE \E i : WorkerHas(d, i, t.doc)
    <3>1. PICK i \in DOMAIN worker[d] : worker[d][i] = t
      BY <2>2, <2>3
    <3> QED
      BY <2>1, <2>3, <3>1 DEF WorkerHas
  <2> QED
    BY <1>2, <2>3
<1>4. \A x \in gone : x \in WrittenOn[d] /\ x \notin Committed \cup rejected \cup lost /\ x \notin cache[d]
  BY <1>1, <1>3, WrittenPlaces, WrittenOnIs DEF WritesInv, PlacesOK, StoreInv, ServerInv
<1>5. Asked' = [Asked EXCEPT ![d] = {}]
  <2>1. \A g : Waits(d, g)' <=> g \in {}
    BY <1>1, RestartAsk DEF Waits
  <2> QED
    BY <1>1, <2>1, AskedMoves
<1>6. /\ delivered' = [delivered EXCEPT ![d] = {}]
      /\ UNCHANGED <<serverLog, cache, rejected, issued>>
  BY DEF Restart, DropProcess, storageVars
<1>7. (rejected \cup lost)' = (rejected \cup lost) \cup gone
  BY <1>2, <1>6
<1> QED
  BY <1>4, <1>5, <1>6, <1>7
     DEF Promise!StoreRestart, Promise!Decided, Asked, WrittenOn, Committed

(* The steps that PinStore does not see.                                   *)
LEMMA StutterPromise ==
  ASSUME UNCHANGED Asked, UNCHANGED <<serverLog, cache, rejected, lost, issued, delivered>>
  PROVE  UNCHANGED Promise!storeVars
BY DEF Promise!storeVars, Asked, WrittenOn, Committed

LEMMA PromiseStep ==
  ASSUME OneAccount, ReadsInv, NEW d \in Devices, AppStep(d) \/ ClientStep(d)
  PROVE  [Promise!StoreNext]_Promise!storeVars
<1>1. StoreInv /\ AskInv /\ DebtOK(d) /\ FirestoreTypeOK /\ WorkerOK /\ AskOK(d)
  BY DEF ReadsInv, GetsInv, StoreInv, OrderInv, WritesInv, AskInv, DebtInv
<1>2. ASSUME NEW doc \in Docs, SetData(d, doc), AppStep(d)
      PROVE  Promise!StoreNext
  BY <1>1, <1>2, SetDataPromise DEF Promise!StoreNext
<1>3. ASSUME NEW q \in Queries, GetDocuments(d, q), AppStep(d)
      PROVE  Promise!StoreNext
  <2>1. PICK id \in 1 .. MaxGets : Promise!StoreAsk(d, id, q)
    BY <1>1, <1>3, GetDocumentsPromise
  <2> QED
    BY <2>1 DEF Promise!StoreNext
<1>4. ASSUME NEW u \in Users, CredentialChange(d, u), AppStep(d)
      PROVE  UNCHANGED Promise!storeVars
  <2>1. /\ Enqueue(d, UserTask(u)) /\ UserTask(u).task \in {"write", "user"}
        /\ UNCHANGED <<listeners, callbacks, gets, serverLog, cache, rejected, lost, issued, delivered>>
    BY <1>4 DEF CredentialChange, UserTask, listenVars, mainVars, storageVars
  <2>2. \A w, i, g : GetAt(d, w, i, g)' <=> GetAt(d, w, i, g)
    BY <1>1, <2>1, OtherEnqueuedAsk
  <2>3. UNCHANGED Asked
    BY <1>1, <2>2, AskedStays DEF Waits
  <2> QED
    BY <2>1, <2>3, StutterPromise
<1>5. ASSUME Deliver(d), AppStep(d) PROVE Promise!StoreNext
  <2>1. PICK get \in AskedGets(d) :
          (\E docs \in SUBSET Docs : Promise!StoreAnswer(d, get, docs)) \/ Promise!StoreFail(d, get)
    BY <1>1, <1>5, DeliverPromise
  <2> QED
    BY <2>1 DEF Promise!StoreNext
<1>6. ASSUME NEW u \in Users, Restart(d, u), AppStep(d) PROVE Promise!StoreNext
  BY <1>1, <1>6, RestartPromise DEF Promise!StoreNext
<1>7. CASE RunTask(d)
  <2>1. UNCHANGED Asked
    BY <1>1, <1>7, RunTaskKeepsAsked
  <2>2. UNCHANGED <<serverLog, cache, rejected, lost, issued, delivered>>
    BY <1>7 DEF RunTask, RunWrite, RunListen, RegisterGet, RunUnlisten, RunUserChange, storageVars,
                mainVars
  <2> QED
    BY <2>1, <2>2, StutterPromise
<1>8. CASE AnswerArrives(d)
  BY <1>1, <1>8, AnswerPromise DEF Promise!StoreNext
<1>9. CASE GoOffline(d) \/ \E q \in Queries : ListenRefused(d, q)
  <2>1. UNCHANGED Asked
    BY <1>1, <1>9, TellingKeepsAsked
  <2>2. UNCHANGED <<serverLog, cache, rejected, lost, issued, delivered>>
    BY <1>9 DEF GoOffline, ListenRefused, storageVars
  <2> QED
    BY <2>1, <2>2, StutterPromise
<1>10. ASSUME \/ ServerCommits(d) \/ WriteAcknowledged(d) \/ WriteRejected(d) \/ WatchAnswers(d)
              \/ AnswerLost(d) \/ ForgetOffline(d)
       PROVE  UNCHANGED Asked
  <2>1. UNCHANGED <<worker, listeners, callbacks>>
    BY <1>10 DEF ServerCommits, WriteAcknowledged, WriteRejected, WatchAnswers, AnswerLost,
                 ForgetOffline, listenVars, mainVars
  <2> QED
    BY <2>1 DEF Asked, AskedGets
<1>11. CASE ServerCommits(d) \/ WriteAcknowledged(d) \/ WriteRejected(d)
  BY <1>1, <1>10, <1>11, CommitsPromise, AcknowledgedPromise, RejectedPromise DEF Promise!StoreNext
<1>12. CASE WatchAnswers(d) \/ AnswerLost(d) \/ ForgetOffline(d)
  <2>1. UNCHANGED <<serverLog, cache, rejected, lost, issued, delivered>>
    BY <1>12 DEF WatchAnswers, AnswerLost, ForgetOffline, storageVars, mainVars
  <2> QED
    BY <1>10, <1>12, <2>1, StutterPromise
<1>13. CASE AppStep(d)
  BY <1>2, <1>3, <1>4, <1>5, <1>6, <1>13 DEF AppStep
<1>14. CASE ClientStep(d)
  BY <1>7, <1>8, <1>9, <1>11, <1>12, <1>14 DEF ClientStep
<1> QED
  BY <1>13, <1>14

(***************************************************************************)
(* On devices with one account the client implements PinStore: whatever    *)
(* the worker queue, the two streams, lost answers and restarts do in      *)
(* between, the app sees a store in which a write is committed or refused  *)
(* at most once and for good, and a get is answered at most once, with all *)
(* that was known and written before it and nothing of another origin.     *)
(***************************************************************************)
THEOREM StorePromiseIsKept ==
  ASSUME OneAccount
  PROVE  FirestoreSpec => KeepsTheStorePromise
<1>1. FirestoreInit => Promise!StoreInit
  BY PromiseInit
<1>2. ReadsInv /\ [FirestoreNext]_firestoreVars => [Promise!StoreNext]_Promise!storeVars
  <2> SUFFICES ASSUME ReadsInv, [FirestoreNext]_firestoreVars
               PROVE  [Promise!StoreNext]_Promise!storeVars
    OBVIOUS
  <2>1. CASE UNCHANGED firestoreVars
    <3>1. UNCHANGED <<serverLog, cache, rejected, lost, issued, delivered, worker, listeners, callbacks>>
      BY <2>1 DEF firestoreVars, mainVars
    <3>2. UNCHANGED Asked
      BY <3>1 DEF Asked, AskedGets
    <3> QED
      BY <3>1, <3>2, StutterPromise
  <2>2. CASE FirestoreNext
    BY <2>2, PromiseStep DEF FirestoreNext
  <2> QED
    BY <2>1, <2>2
<1>3. FirestoreSpec => []ReadsInv
  BY ReadsInvariant
<1> QED
  BY <1>1, <1>2, <1>3, PTL DEF FirestoreSpec, KeepsTheStorePromise, Promise!StoreSpec

=============================================================================
