--------------------------- MODULE GrpcStream_proofs ---------------------------
(***************************************************************************)
(* Proofs about the gRPC stream, for any number of messages.               *)
(***************************************************************************)
EXTENDS GrpcStream, SequenceTheorems, TLAPS

(* Where the completions of these kinds are whose callback is still there: *)
(* whether a sequence has one, and whether it has one at most.             *)
LiveAt(s, i, kinds) == s[i].live /\ s[i].kind \in kinds
Has(s, kinds) == \E i \in DOMAIN s : LiveAt(s, i, kinds)
HasOne(s, kinds) == \A i, j \in DOMAIN s : LiveAt(s, i, kinds) /\ LiveAt(s, j, kinds) => i = j

Anywhere(kinds) == Has(pending, kinds) \/ Has(polled, kinds) \/ Has(tasks, kinds)

(* At most one of them is live, wherever it is.                            *)
Single(kinds) ==
  /\ HasOne(pending, kinds) /\ HasOne(polled, kinds) /\ HasOne(tasks, kinds)
  /\ ~(Has(pending, kinds) /\ Has(polled, kinds))
  /\ ~(Has(pending, kinds) /\ Has(tasks, kinds))
  /\ ~(Has(polled, kinds) /\ Has(tasks, kinds))

Reads == {"Read"}
Writes == {"Write", "Last"}
Finishes == {"Finish"}

(* While the worker queue is free, all that gRPC has is live: whatever was *)
(* cancelled has been waited for.  While it waits, nothing is live.        *)
WaitInv ==
  /\ pc \in {"free", "lastWrite"} => \A i \in DOMAIN pending : pending[i].live
  /\ pc \in {"finishing", "draining"} => ~Anywhere(Kinds) /\ finished
  /\ pc # "free" => alive
  /\ pc = "draining" => after # "failed"
  /\ ~alive => pending = <<>> /\ ~Anywhere(Kinds) /\ finished
  /\ notified \in (IF alive THEN {0} ELSE {0, 1})

(* The call reads until it is finished, and is finished once.              *)
ReadInv ==
  /\ Single(Reads)
  /\ Anywhere(Reads) <=> ~finished
  /\ \A i \in DOMAIN pending : pending[i].kind = "Finish" => finished
  /\ OneAtATime({"Read", "Finish"})

(* A write that is on its way is the active one.                           *)
WriteInv ==
  /\ Single(Writes)
  /\ Anywhere(Writes) => active
  /\ OneAtATime(Writes)

QueueInv == WrittenInOrder

StreamInv == StreamTypeOK /\ WaitInv /\ ReadInv /\ WriteInv /\ QueueInv

-----------------------------------------------------------------------------
(* Sequences of completions.                                               *)

LEMMA HasInAppended ==
  ASSUME NEW s \in Seq(Completions), NEW c \in Completions, NEW kinds
  PROVE  /\ Append(s, c) \in Seq(Completions)
         /\ Has(Append(s, c), kinds) <=> Has(s, kinds) \/ (c.live /\ c.kind \in kinds)
         /\ HasOne(s, kinds) /\ ~(Has(s, kinds) /\ c.live /\ c.kind \in kinds)
              => HasOne(Append(s, c), kinds)
<1> DEFINE t == Append(s, c)
<1>1. /\ t \in Seq(Completions) /\ DOMAIN s = 1 .. Len(s) /\ DOMAIN t = 1 .. Len(s) + 1
      /\ t[Len(s) + 1] = c /\ Len(s) \in Nat
  OBVIOUS
<1>2. \A i \in DOMAIN s : t[i] = s[i] /\ i \in DOMAIN t /\ i # Len(s) + 1
  OBVIOUS
<1>3. \A i \in DOMAIN t : i \in DOMAIN s \/ i = Len(s) + 1
  BY <1>1
<1>4. Len(s) + 1 \in DOMAIN t
  BY <1>1
<1> HIDE DEF t
<1>5. /\ \A i \in DOMAIN s : LiveAt(t, i, kinds) <=> LiveAt(s, i, kinds)
      /\ LiveAt(t, Len(s) + 1, kinds) <=> c.live /\ c.kind \in kinds
  BY <1>1, <1>2 DEF LiveAt
<1>6. Has(t, kinds) <=> Has(s, kinds) \/ (c.live /\ c.kind \in kinds)
  BY <1>2, <1>3, <1>4, <1>5 DEF Has
<1>7. HasOne(s, kinds) /\ ~(Has(s, kinds) /\ c.live /\ c.kind \in kinds) => HasOne(t, kinds)
  BY <1>3, <1>5 DEF Has, HasOne
<1> QED
  BY <1>1, <1>6, <1>7 DEF t

LEMMA HasInTail ==
  ASSUME NEW s \in Seq(Completions), s # <<>>, NEW kinds
  PROVE  /\ Tail(s) \in Seq(Completions) /\ Head(s) = s[1] /\ 1 \in DOMAIN s
         /\ ~LiveAt(s, 1, kinds) => (Has(Tail(s), kinds) <=> Has(s, kinds))
         /\ HasOne(s, kinds) => HasOne(Tail(s), kinds)
         /\ HasOne(s, kinds) /\ LiveAt(s, 1, kinds) => ~Has(Tail(s), kinds)
<1> DEFINE t == Tail(s)
<1>1. /\ t \in Seq(Completions) /\ Head(s) = s[1] /\ 1 \in DOMAIN s
      /\ DOMAIN s = 1 .. Len(s) /\ DOMAIN t = 1 .. Len(s) - 1 /\ Len(s) \in Nat
  OBVIOUS
<1>2. \A i \in DOMAIN t : t[i] = s[i + 1] /\ i + 1 \in DOMAIN s /\ i + 1 # 1
  OBVIOUS
<1>3. \A i \in DOMAIN s : i # 1 => i - 1 \in DOMAIN t /\ (i - 1) + 1 = i
  BY <1>1
<1>4. \A i, j \in DOMAIN t : i + 1 = j + 1 => i = j
  BY <1>1
<1> HIDE DEF t
<1>5. \A i \in DOMAIN t : LiveAt(t, i, kinds) <=> LiveAt(s, i + 1, kinds)
  BY <1>2 DEF LiveAt
<1>6. ~LiveAt(s, 1, kinds) => (Has(t, kinds) <=> Has(s, kinds))
  BY <1>2, <1>3, <1>5 DEF Has
<1>7. HasOne(s, kinds) => HasOne(t, kinds)
  BY <1>2, <1>4, <1>5 DEF HasOne
<1>8. HasOne(s, kinds) /\ LiveAt(s, 1, kinds) => ~Has(t, kinds)
  BY <1>1, <1>2, <1>5 DEF Has, HasOne
<1> QED
  BY <1>1, <1>6, <1>7, <1>8 DEF t

(* Cancelling leaves nothing live, and every operation its kind.           *)
LEMMA HasInCancelled ==
  ASSUME NEW s \in Seq(Completions)
  PROVE  /\ AllCancelled(s) \in Seq(Completions) /\ Len(AllCancelled(s)) = Len(s)
         /\ DOMAIN AllCancelled(s) = DOMAIN s
         /\ \A i \in DOMAIN s : AllCancelled(s)[i].kind = s[i].kind
         /\ \A kinds : ~Has(AllCancelled(s), kinds) /\ HasOne(AllCancelled(s), kinds)
<1> DEFINE t == AllCancelled(s)
<1>1. DOMAIN s = 1 .. Len(s) /\ Len(s) \in Nat /\ \A i \in DOMAIN s : s[i] \in Completions
  OBVIOUS
<1>2. \A c \in Completions : /\ Cancelled(c) \in Completions /\ ~Cancelled(c).live
                            /\ Cancelled(c).kind = c.kind
  BY DEF Cancelled, Completions
<1>3. t = [i \in 1 .. Len(s) |-> Cancelled(s[i])]
  BY <1>1 DEF AllCancelled
<1>4. DOMAIN t = DOMAIN s /\ \A i \in DOMAIN s : t[i] = Cancelled(s[i])
  BY <1>1, <1>3
<1>5. t \in Seq(Completions) /\ Len(t) = Len(s)
  BY <1>1, <1>2, <1>3
<1> HIDE DEF t
<1>6. \A i \in DOMAIN t : ~t[i].live
  BY <1>1, <1>2, <1>4
<1>7. \A kinds : ~Has(t, kinds) /\ HasOne(t, kinds)
  BY <1>6 DEF Has, HasOne, LiveAt
<1> QED
  BY <1>1, <1>2, <1>4, <1>5, <1>7 DEF t

(* The operation that leaves the others where they are.                    *)
LEMMA HasInRest ==
  ASSUME NEW s \in Seq(Completions), NEW n \in DOMAIN s
  PROVE  /\ RemoveAt(s, n) \in Seq(Completions)
         /\ \A i \in DOMAIN RemoveAt(s, n) :
              LET k == IF i < n THEN i ELSE i + 1
              IN  k \in DOMAIN s /\ k # n /\ RemoveAt(s, n)[i] = s[k]
         /\ \A k \in DOMAIN s : k # n =>
              \E i \in DOMAIN RemoveAt(s, n) : RemoveAt(s, n)[i] = s[k]
<1> DEFINE front == SubSeq(s, 1, n - 1)
           back == SubSeq(s, n + 1, Len(s))
           t == front \o back
<1>1. n \in 1 .. Len(s) /\ Len(s) \in Nat /\ DOMAIN s = 1 .. Len(s)
  OBVIOUS
<1>2. /\ front \in Seq(Completions) /\ Len(front) = n - 1
      /\ back \in Seq(Completions) /\ Len(back) = Len(s) - n
  BY <1>1
<1>3. /\ \A i \in 1 .. n - 1 : front[i] = s[i]
      /\ \A i \in 1 .. Len(s) - n : back[i] = s[i + n]
  BY <1>1
<1> HIDE DEF front, back
<1>4. /\ t \in Seq(Completions) /\ DOMAIN t = 1 .. Len(s) - 1
      /\ \A i \in 1 .. Len(s) - 1 : t[i] = IF i < n THEN front[i] ELSE back[i - (n - 1)]
  <2>1. /\ t \in Seq(Completions) /\ Len(t) = Len(front) + Len(back)
        /\ \A i \in 1 .. Len(front) + Len(back) :
             t[i] = IF i <= Len(front) THEN front[i] ELSE back[i - Len(front)]
    BY <1>2, ConcatProperties
  <2>2. Len(front) + Len(back) = Len(s) - 1
    BY <1>1, <1>2
  <2>3. DOMAIN t = 1 .. Len(s) - 1
    <3>1. \A u \in Seq(Completions) : DOMAIN u = 1 .. Len(u)
      OBVIOUS
    <3> QED
      BY <2>1, <2>2, <3>1
  <2>4. \A i \in 1 .. Len(s) - 1 : i <= n - 1 <=> i < n
    BY <1>1
  <2> QED
    BY <1>2, <2>1, <2>2, <2>3, <2>4
<1> HIDE DEF t
<1>5. \A i \in 1 .. Len(s) - 1 : ~(i < n) => back[i - (n - 1)] = s[i + 1]
  <2> SUFFICES ASSUME NEW i \in 1 .. Len(s) - 1, ~(i < n)
               PROVE  back[i - (n - 1)] = s[i + 1]
    OBVIOUS
  <2>1. i - (n - 1) \in 1 .. Len(s) - n /\ (i - (n - 1)) + n = i + 1
    BY <1>1
  <2> QED
    BY <1>3, <2>1
<1>6. \A i \in DOMAIN t : t[i] = IF i < n THEN s[i] ELSE s[i + 1]
  BY <1>1, <1>3, <1>4, <1>5
<1>7. ASSUME NEW k \in DOMAIN s, k # n
      PROVE  \E i \in DOMAIN t : t[i] = s[k]
  <2>1. CASE k < n
    <3>1. k \in DOMAIN t /\ t[k] = s[k]
      BY <1>1, <1>4, <1>6, <2>1
    <3> QED
      BY <3>1
  <2>2. CASE ~(k < n)
    <3>1. k - 1 \in DOMAIN t /\ ~(k - 1 < n) /\ (k - 1) + 1 = k
      BY <1>1, <1>4, <1>7, <2>2
    <3>2. t[k - 1] = s[k]
      BY <1>6, <3>1
    <3> QED
      BY <3>1, <3>2
  <2> QED
    BY <2>1, <2>2
<1>8. RemoveAt(s, n) = t
  BY DEF RemoveAt, t, front, back
<1>9. \A i \in DOMAIN t : (IF i < n THEN i ELSE i + 1) \in DOMAIN s \ {n}
  BY <1>1, <1>4
<1> QED
  BY <1>4, <1>6, <1>7, <1>8, <1>9

LEMMA HasWithoutOne ==
  ASSUME NEW s \in Seq(Completions), NEW n \in DOMAIN s, NEW kinds
  PROVE  /\ HasOne(s, kinds) => HasOne(RemoveAt(s, n), kinds)
         /\ ~LiveAt(s, n, kinds) => (Has(RemoveAt(s, n), kinds) <=> Has(s, kinds))
         /\ HasOne(s, kinds) /\ LiveAt(s, n, kinds) => ~Has(RemoveAt(s, n), kinds)
<1> DEFINE t == RemoveAt(s, n)
           at(i) == IF i < n THEN i ELSE i + 1
<1>1. \A i \in DOMAIN t : at(i) \in DOMAIN s /\ at(i) # n /\ t[i] = s[at(i)]
  BY HasInRest
<1>2. \A k \in DOMAIN s : k # n => \E i \in DOMAIN t : t[i] = s[k]
  BY HasInRest
<1>3. \A i, j \in DOMAIN t : at(i) = at(j) => i = j
  <2>1. t \in Seq(Completions) /\ n \in Int
    BY HasInRest
  <2> HIDE DEF t
  <2>2. \A i \in DOMAIN t : i \in Int
    BY <2>1
  <2> QED
    BY <2>1, <2>2
<1> HIDE DEF t, at
<1>4. \A i \in DOMAIN t : LiveAt(t, i, kinds) <=> LiveAt(s, at(i), kinds)
  BY <1>1 DEF LiveAt
<1>5. HasOne(s, kinds) => HasOne(t, kinds)
  BY <1>1, <1>3, <1>4 DEF HasOne
<1>6. ~LiveAt(s, n, kinds) => (Has(t, kinds) <=> Has(s, kinds))
  BY <1>1, <1>2, <1>4 DEF Has, LiveAt
<1>7. HasOne(s, kinds) /\ LiveAt(s, n, kinds) => ~Has(t, kinds)
  BY <1>1, <1>4 DEF Has, HasOne
<1> QED
  BY <1>5, <1>6, <1>7 DEF t

(* A sequence of one completion, and of none.                              *)
LEMMA HasInSingleton ==
  ASSUME NEW c, NEW kinds
  PROVE  /\ Has(<<c>>, kinds) <=> c.live /\ c.kind \in kinds
         /\ HasOne(<<c>>, kinds)
<1>1. DOMAIN <<c>> = {1} /\ <<c>>[1] = c
  OBVIOUS
<1> QED
  BY <1>1 DEF Has, HasOne, LiveAt

LEMMA HasInEmpty ==
  ASSUME NEW kinds
  PROVE  ~Has(<<>>, kinds) /\ HasOne(<<>>, kinds)
BY DEF Has, HasOne

-----------------------------------------------------------------------------
(* gRPC, the polling thread and the worker queue pass completions on: none *)
(* of those that are live is lost or doubled on the way.                   *)
Types ==
  /\ pending \in Seq(Completions) /\ tasks \in Seq(Completions)
  /\ polled \in Seq(Completions) /\ Len(polled) <= 1

LEMMA PolledIsOne ==
  ASSUME Types, polled # <<>>
  PROVE  polled[1] \in Completions /\ polled = <<polled[1]>>
<1>1. Len(polled) = 1 /\ polled \in Seq(Completions)
  <2>1. polled \in Seq(Completions) /\ Len(polled) <= 1 /\ Len(polled) \in Nat \ {0}
    BY EmptySeq DEF Types
  <2> QED
    BY <2>1
<1>2. polled[1] \in Completions
  BY <1>1
<1>3. <<polled[1]>> \in Seq(Completions) /\ Len(<<polled[1]>>) = 1 /\ <<polled[1]>>[1] = polled[1]
  BY <1>2
<1>4. \A i \in 1 .. 1 : i = 1
  OBVIOUS
<1>5. polled = <<polled[1]>>
  BY <1>1, <1>3, <1>4, SeqEqual
<1> QED
  BY <1>2, <1>5

LEMMA PollKeepsLive ==
  ASSUME Types, NEW i \in DOMAIN pending, NEW ok \in BOOLEAN, Poll(i, ok), NEW kinds
  PROVE  (Anywhere(kinds)' <=> Anywhere(kinds)) /\ (Single(kinds) => Single(kinds)')
<1> DEFINE c == [pending[i] EXCEPT !.ok = ok]
<1>1. /\ pending \in Seq(Completions) /\ pending[i] \in Completions /\ polled = <<>>
      /\ pending' = RemoveAt(pending, i) /\ polled' = <<c>> /\ tasks' = tasks
  BY DEF Types, Poll
<1>2. c.live = pending[i].live /\ c.kind = pending[i].kind
  BY <1>1 DEF Completions
<1> HIDE DEF c
<1>3. Has(polled', kinds) <=> LiveAt(pending, i, kinds)
  BY <1>1, <1>2, HasInSingleton DEF LiveAt
<1>4. HasOne(polled', kinds) /\ ~Has(polled, kinds)
  BY <1>1, HasInSingleton, HasInEmpty
<1>5. LiveAt(pending, i, kinds) => Has(pending, kinds)
  BY DEF Has
<1>6. /\ HasOne(pending, kinds) => HasOne(pending', kinds)
      /\ ~LiveAt(pending, i, kinds) => (Has(pending', kinds) <=> Has(pending, kinds))
      /\ HasOne(pending, kinds) /\ LiveAt(pending, i, kinds) => ~Has(pending', kinds)
  BY <1>1, HasWithoutOne
<1>7. Has(pending', kinds) => Has(pending, kinds)
  BY <1>5, <1>6
<1> QED
  BY <1>1, <1>3, <1>4, <1>5, <1>6, <1>7 DEF Anywhere, Single

LEMMA HandOverKeepsLive ==
  ASSUME Types, HandOver, NEW kinds
  PROVE  (Anywhere(kinds)' <=> Anywhere(kinds)) /\ (Single(kinds) => Single(kinds)')
<1> DEFINE c == polled[1]
<1>1. /\ tasks \in Seq(Completions) /\ polled # <<>> /\ tasks' = tasks \o polled
      /\ polled' = <<>> /\ pending' = pending
  BY DEF Types, HandOver
<1>2. c \in Completions /\ polled = <<c>>
  BY <1>1, PolledIsOne
<1> HIDE DEF c
<1>3. tasks' = Append(tasks, c)
  BY <1>1, <1>2, AppendIsConcat
<1>4. /\ Has(polled, kinds) <=> c.live /\ c.kind \in kinds
      /\ ~Has(polled', kinds) /\ HasOne(polled', kinds)
  BY <1>1, <1>2, HasInSingleton, HasInEmpty
<1>5. /\ Has(tasks', kinds) <=> Has(tasks, kinds) \/ Has(polled, kinds)
      /\ HasOne(tasks, kinds) /\ ~(Has(tasks, kinds) /\ Has(polled, kinds))
           => HasOne(tasks', kinds)
  <2>1. /\ Has(Append(tasks, c), kinds) <=> Has(tasks, kinds) \/ (c.live /\ c.kind \in kinds)
        /\ HasOne(tasks, kinds) /\ ~(Has(tasks, kinds) /\ c.live /\ c.kind \in kinds)
             => HasOne(Append(tasks, c), kinds)
    BY <1>1, <1>2, HasInAppended
  <2>2. /\ Has(tasks', kinds) <=> Has(tasks, kinds) \/ (c.live /\ c.kind \in kinds)
        /\ HasOne(tasks, kinds) /\ ~(Has(tasks, kinds) /\ c.live /\ c.kind \in kinds)
             => HasOne(tasks', kinds)
    BY <1>3, <2>1, Zenon
  <2> QED
    BY <1>4, <2>2, Zenon
<1>6. Anywhere(kinds)' <=> Anywhere(kinds)
  <2>1. Has(pending', kinds) <=> Has(pending, kinds)
    BY <1>1
  <2> QED
    BY <1>4, <1>5, <2>1 DEF Anywhere
<1>7. ASSUME Single(kinds) PROVE Single(kinds)'
  <2>1. HasOne(tasks', kinds) /\ HasOne(pending', kinds)
    BY <1>1, <1>5, <1>7 DEF Single
  <2>2. ~(Has(pending', kinds) /\ Has(tasks', kinds))
    BY <1>1, <1>5, <1>7 DEF Single
  <2> QED
    BY <1>4, <2>1, <2>2 DEF Single
<1> QED
  BY <1>6, <1>7

(* The first task goes; if it was live nothing like it is left.            *)
LEMMA TaskDoneKeepsLive ==
  ASSUME Types, tasks # <<>>, tasks' = Tail(tasks), UNCHANGED <<pending, polled>>, NEW kinds
  PROVE  /\ Single(kinds) => Single(kinds)'
         /\ ~LiveAt(tasks, 1, kinds) => (Anywhere(kinds)' <=> Anywhere(kinds))
         /\ Single(kinds) /\ LiveAt(tasks, 1, kinds) => ~Anywhere(kinds)'
<1>1. tasks \in Seq(Completions)
  BY DEF Types
<1>2. /\ ~LiveAt(tasks, 1, kinds) => (Has(tasks', kinds) <=> Has(tasks, kinds))
      /\ HasOne(tasks, kinds) => HasOne(tasks', kinds)
      /\ HasOne(tasks, kinds) /\ LiveAt(tasks, 1, kinds) => ~Has(tasks', kinds)
      /\ 1 \in DOMAIN tasks
  BY <1>1, HasInTail
<1>3. LiveAt(tasks, 1, kinds) => Has(tasks, kinds)
  BY <1>2 DEF Has
<1> QED
  BY <1>2, <1>3 DEF Anywhere, Single

(* Nothing is live where everything has been cancelled.                    *)
LEMMA CancelledIsNotLive ==
  ASSUME Types, NEW rest \in Seq(Completions), CancelOthers(rest)
  PROVE  /\ Types' /\ DOMAIN pending' = DOMAIN pending
         /\ \A i \in DOMAIN pending : pending'[i].kind = pending[i].kind
         /\ \A kinds : ~Anywhere(kinds)' /\ Single(kinds)'
<1>1. /\ pending' = AllCancelled(pending) /\ polled' = AllCancelled(polled)
      /\ tasks' = AllCancelled(rest)
      /\ pending \in Seq(Completions) /\ polled \in Seq(Completions) /\ Len(polled) <= 1
  BY DEF CancelOthers, Types
<1>2. /\ pending' \in Seq(Completions) /\ DOMAIN pending' = DOMAIN pending
      /\ \A i \in DOMAIN pending : pending'[i].kind = pending[i].kind
      /\ \A kinds : ~Has(pending', kinds) /\ HasOne(pending', kinds)
  BY <1>1, HasInCancelled
<1>3. /\ polled' \in Seq(Completions) /\ Len(polled') = Len(polled)
      /\ \A kinds : ~Has(polled', kinds) /\ HasOne(polled', kinds)
  BY <1>1, HasInCancelled
<1>4. tasks' \in Seq(Completions) /\ \A kinds : ~Has(tasks', kinds) /\ HasOne(tasks', kinds)
  BY <1>1, HasInCancelled
<1>5. Types'
  BY <1>1, <1>2, <1>3, <1>4 DEF Types
<1>6. ASSUME NEW kinds PROVE ~Anywhere(kinds)' /\ Single(kinds)'
  BY <1>2, <1>3, <1>4 DEF Anywhere, Single
<1> QED
  BY <1>2, <1>5, <1>6

(* A live operation is given to gRPC, of a kind of which there is none.    *)
LEMMA IssueKeepsLive ==
  ASSUME Types, NEW c \in Completions, Issue(c), UNCHANGED <<polled, tasks>>, NEW kinds
  PROVE  /\ Types'
         /\ Anywhere(kinds)' <=> Anywhere(kinds) \/ (c.live /\ c.kind \in kinds)
         /\ Single(kinds) /\ ~(Anywhere(kinds) /\ c.live /\ c.kind \in kinds) => Single(kinds)'
<1>1. pending \in Seq(Completions) /\ pending' = Append(pending, c) /\ polled' = polled /\ tasks' = tasks
  BY DEF Types, Issue
<1> DEFINE new == c.live /\ c.kind \in kinds
<1>2. /\ Append(pending, c) \in Seq(Completions)
      /\ Has(Append(pending, c), kinds) <=> Has(pending, kinds) \/ new
      /\ HasOne(pending, kinds) /\ ~(Has(pending, kinds) /\ new) => HasOne(Append(pending, c), kinds)
  BY <1>1, HasInAppended
<1> HIDE DEF new
<1>3. /\ pending' \in Seq(Completions)
      /\ Has(pending', kinds) <=> Has(pending, kinds) \/ new
      /\ HasOne(pending, kinds) /\ ~(Has(pending, kinds) /\ new) => HasOne(pending', kinds)
  BY <1>1, <1>2, Zenon
<1>4. Types'
  BY <1>1, <1>3 DEF Types
<1>5. Anywhere(kinds)' <=> Anywhere(kinds) \/ new
  BY <1>1, <1>3 DEF Anywhere
<1>6. Single(kinds) /\ ~(Anywhere(kinds) /\ new) => Single(kinds)'
  BY <1>1, <1>3 DEF Anywhere, Single
<1> QED
  BY <1>4, <1>5, <1>6 DEF new

(* The operations with gRPC, live or not.                                  *)
AtMostOne(s, kinds) == \A i, j \in DOMAIN s : {s[i].kind, s[j].kind} \subseteq kinds => i = j

LEMMA AllInAppended ==
  ASSUME NEW s \in Seq(Completions), NEW c \in Completions
  PROVE  \A i \in DOMAIN Append(s, c) :
           Append(s, c)[i] = c \/ \E j \in DOMAIN s : Append(s, c)[i] = s[j]
<1> DEFINE t == Append(s, c)
<1>1. /\ DOMAIN s = 1 .. Len(s) /\ DOMAIN t = 1 .. Len(s) + 1 /\ Len(s) \in Nat
      /\ t[Len(s) + 1] = c
  OBVIOUS
<1>2. \A i \in DOMAIN s : t[i] = s[i]
  OBVIOUS
<1> HIDE DEF t
<1>3. \A i \in DOMAIN t : i \in DOMAIN s \/ i = Len(s) + 1
  BY <1>1
<1> QED
  BY <1>1, <1>2, <1>3 DEF t

LEMMA OneMore ==
  ASSUME NEW s \in Seq(Completions), NEW c \in Completions, NEW kinds,
         AtMostOne(s, kinds), c.kind \in kinds => \A i \in DOMAIN s : s[i].kind \notin kinds
  PROVE  AtMostOne(Append(s, c), kinds)
<1> DEFINE t == Append(s, c)
<1>1. /\ DOMAIN s = 1 .. Len(s) /\ DOMAIN t = 1 .. Len(s) + 1 /\ Len(s) \in Nat
      /\ t[Len(s) + 1] = c
  OBVIOUS
<1>2. \A i \in DOMAIN s : t[i] = s[i]
  OBVIOUS
<1> HIDE DEF t
<1>3. \A i \in DOMAIN t : i \in DOMAIN s \/ i = Len(s) + 1
  BY <1>1
<1>4. AtMostOne(t, kinds)
  BY <1>1, <1>2, <1>3 DEF AtMostOne
<1> QED
  BY <1>4 DEF t

LEMMA OneLess ==
  ASSUME NEW s \in Seq(Completions), NEW n \in DOMAIN s, NEW kinds, AtMostOne(s, kinds)
  PROVE  AtMostOne(RemoveAt(s, n), kinds)
<1> DEFINE t == RemoveAt(s, n)
           at(i) == IF i < n THEN i ELSE i + 1
<1>1. \A i \in DOMAIN t : at(i) \in DOMAIN s /\ t[i] = s[at(i)]
  BY HasInRest
<1>2. \A i, j \in DOMAIN t : at(i) = at(j) => i = j
  <2>1. t \in Seq(Completions) /\ n \in Int
    BY HasInRest
  <2> HIDE DEF t
  <2>2. \A i \in DOMAIN t : i \in Int
    BY <2>1
  <2> QED
    BY <2>1, <2>2
<1> HIDE DEF t, at
<1> QED
  BY <1>1, <1>2 DEF AtMostOne, t

LEMMA LiveAreCompletions == Types => Live \subseteq Completions
<1> SUFFICES ASSUME Types PROVE pending \o polled \o tasks \in Seq(Completions)
  BY DEF Live, ToSet
<1>1. pending \in Seq(Completions) /\ polled \in Seq(Completions) /\ tasks \in Seq(Completions)
  BY DEF Types
<1>2. pending \o polled \in Seq(Completions)
  BY <1>1, ConcatProperties
<1> QED
  BY <1>1, <1>2, ConcatProperties

(* Live, the set the stream waits for, is what is live anywhere.           *)
LEMMA LiveIsAnywhere ==
  ASSUME Types, NEW kinds
  PROVE  Anywhere(kinds) <=> \E c \in Live : c.kind \in kinds
<1>1. ASSUME NEW a \in Seq(Completions), NEW b \in Seq(Completions)
      PROVE  a \o b \in Seq(Completions) /\ ToSet(a \o b) = ToSet(a) \cup ToSet(b)
  <2> DEFINE t == a \o b
  <2>1. /\ t \in Seq(Completions) /\ Len(t) = Len(a) + Len(b)
        /\ \A i \in 1 .. Len(a) + Len(b) : t[i] = IF i <= Len(a) THEN a[i] ELSE b[i - Len(a)]
    BY ConcatProperties
  <2>2. \A u \in Seq(Completions) : DOMAIN u = 1 .. Len(u) /\ Len(u) \in Nat
    OBVIOUS
  <2> HIDE DEF t
  <2>3. \A i \in DOMAIN t : (\E j \in DOMAIN a : t[i] = a[j]) \/ (\E j \in DOMAIN b : t[i] = b[j])
    BY <2>1, <2>2
  <2>4. \A j \in DOMAIN a : j \in DOMAIN t /\ t[j] = a[j]
    BY <2>1, <2>2
  <2>5. ASSUME NEW j \in DOMAIN b PROVE j + Len(a) \in DOMAIN t /\ t[j + Len(a)] = b[j]
    <3>1. /\ j + Len(a) \in 1 .. Len(a) + Len(b) /\ ~(j + Len(a) <= Len(a))
          /\ (j + Len(a)) - Len(a) = j
      BY <2>2
    <3> QED
      BY <2>1, <2>2, <3>1
  <2>6. ToSet(t) = ToSet(a) \cup ToSet(b)
    BY <2>3, <2>4, <2>5 DEF ToSet
  <2> QED
    BY <2>1, <2>6 DEF t
<1>2. ASSUME NEW a \in Seq(Completions)
      PROVE  Has(a, kinds) <=> \E c \in ToSet(a) : c.live /\ c.kind \in kinds
  BY DEF Has, LiveAt, ToSet
<1>3. pending \in Seq(Completions) /\ polled \in Seq(Completions) /\ tasks \in Seq(Completions)
  BY DEF Types
<1>4. ToSet(pending \o polled \o tasks) = ToSet(pending) \cup ToSet(polled) \cup ToSet(tasks)
  <2>1. pending \o polled \in Seq(Completions) /\ ToSet(pending \o polled) = ToSet(pending) \cup ToSet(polled)
    BY <1>1, <1>3
  <2>2. ToSet((pending \o polled) \o tasks) = ToSet(pending \o polled) \cup ToSet(tasks)
    BY <1>1, <1>3, <2>1
  <2> QED
    BY <2>1, <2>2
<1>5. /\ Has(pending, kinds) <=> \E c \in ToSet(pending) : c.live /\ c.kind \in kinds
      /\ Has(polled, kinds) <=> \E c \in ToSet(polled) : c.live /\ c.kind \in kinds
      /\ Has(tasks, kinds) <=> \E c \in ToSet(tasks) : c.live /\ c.kind \in kinds
  BY <1>2, <1>3
<1>6. \A c : c \in Live <=> c.live /\ (c \in ToSet(pending) \/ c \in ToSet(polled) \/ c \in ToSet(tasks))
  BY <1>4 DEF Live
<1> QED
  BY <1>5, <1>6 DEF Anywhere

-----------------------------------------------------------------------------
(* Every step keeps the invariant.                                         *)
LEMMA NewCompletion ==
  ASSUME NEW kind \in Kinds
  PROVE  /\ Completion(kind) \in Completions
         /\ Completion(kind).live /\ Completion(kind).kind = kind
         /\ Cancelled(Completion(kind)) \in Completions
         /\ ~Cancelled(Completion(kind)).live /\ Cancelled(Completion(kind)).kind = kind
BY DEF Completion, Cancelled, Completions

LEMMA InvGivesTypes == StreamInv => Types
BY DEF StreamInv, StreamTypeOK, Types

(* The call ends: everything is cancelled and waited for.                  *)
LEMMA EndedKeepsInv ==
  ASSUME StreamInv, NEW rest \in Seq(Completions), CancelOthers(rest),
         finished' = TRUE, broken' \in BOOLEAN, alive,
         pc' \in {"finishing", "draining"}, after' \in {"quiet", "notify", "failed"},
         pc' = "draining" => after' # "failed",
         UNCHANGED <<writerVars, alive, notified>>
  PROVE  StreamInv'
<1>1. /\ Types' /\ DOMAIN pending' = DOMAIN pending
      /\ \A i \in DOMAIN pending : pending'[i].kind = pending[i].kind
  BY InvGivesTypes, CancelledIsNotLive
<1>2. \A kinds : ~Anywhere(kinds)' /\ Single(kinds)'
  BY InvGivesTypes, CancelledIsNotLive
<1>3. ASSUME NEW kinds, OneAtATime(kinds) PROVE OneAtATime(kinds)'
  BY <1>1, <1>3 DEF OneAtATime
<1>4. StreamTypeOK'
  BY <1>1 DEF StreamInv, StreamTypeOK, Types, writerVars
<1>5. WaitInv'
  <2>1. ~Anywhere(Kinds)'
    BY <1>2
  <2> QED
    BY <2>1 DEF StreamInv, WaitInv
<1>6. ReadInv'
  <2>1. Single(Reads)' /\ ~Anywhere(Reads)' /\ OneAtATime({"Read", "Finish"})'
    BY <1>2, <1>3 DEF StreamInv, ReadInv
  <2> QED
    BY <2>1 DEF ReadInv
<1>7. WriteInv'
  <2>1. Single(Writes)' /\ ~Anywhere(Writes)' /\ OneAtATime(Writes)'
    BY <1>2, <1>3 DEF StreamInv, WriteInv
  <2> QED
    BY <2>1 DEF WriteInv
<1>8. QueueInv'
  BY DEF StreamInv, QueueInv, WrittenInOrder, writerVars
<1> QED
  BY <1>4, <1>5, <1>6, <1>7, <1>8 DEF StreamInv

(* As the stream reads until its call is finished, Shutdown always ends it:*)
(* there is no call without operations that has not been finished.         *)
LEMMA ShutdownKeepsInv ==
  ASSUME StreamInv, alive, NEW rest \in Seq(Completions), NEW andThen \in {"quiet", "notify"},
         Shutdown(rest, andThen), UNCHANGED writerVars
  PROVE  StreamInv'
<1>1. ~finished => Live # {}
  <2> SUFFICES ASSUME ~finished PROVE Live # {}
    OBVIOUS
  <2>1. Anywhere(Reads)
    BY DEF StreamInv, ReadInv
  <2> QED
    BY <2>1, InvGivesTypes, LiveIsAnywhere
<1>2. broken \in BOOLEAN /\ finished \in BOOLEAN
  BY DEF StreamInv, StreamTypeOK
<1>3. /\ CancelOthers(rest) /\ finished' = TRUE /\ broken' \in BOOLEAN
      /\ pc' \in {"finishing", "draining"} /\ after' = andThen
      /\ UNCHANGED <<alive, notified>>
  BY <1>1, <1>2 DEF Shutdown, FastFinish
<1> QED
  BY <1>3, EndedKeepsInv

(* StartNext: what it does to the writer, and to the operations.           *)
LEMMA StartNextWrites ==
  ASSUME NEW messages \in Seq(1 .. MaxWrites), NEW isActive \in BOOLEAN, NEW kind \in Kinds,
         written \in Seq(1 .. MaxWrites), StartNext(messages, isActive, kind)
  PROVE  /\ queue' \in Seq(1 .. MaxWrites) /\ written' \in Seq(1 .. MaxWrites)
         /\ active' \in BOOLEAN /\ (isActive => active')
         /\ written' \o queue' = written \o messages
         /\ queue' # <<>> => active'
         /\ \/ UNCHANGED pending
            \/ ~isActive /\ active' /\ Issue(Completion(kind))
<1>1. CASE messages = <<>> \/ isActive
  <2>1. CASE isActive
    BY <2>1 DEF StartNext
  <2>2. CASE messages = <<>> /\ ~isActive
    BY <2>2 DEF StartNext
  <2> QED
    BY <1>1, <2>1, <2>2
<1>2. CASE messages # <<>> /\ ~isActive
  <2>1. /\ written' = Append(written, Head(messages)) /\ queue' = Tail(messages)
        /\ active' = TRUE /\ Issue(Completion(kind))
    BY <1>2 DEF StartNext
  <2>2. /\ Head(messages) \in 1 .. MaxWrites /\ Tail(messages) \in Seq(1 .. MaxWrites)
        /\ Append(written, Head(messages)) \in Seq(1 .. MaxWrites)
    <3>1. ASSUME NEW S, NEW m \in Seq(S), NEW w \in Seq(S), m # <<>>
          PROVE  Head(m) \in S /\ Tail(m) \in Seq(S) /\ Append(w, Head(m)) \in Seq(S)
      BY <3>1
    <3> QED
      BY <1>2, <3>1
  <2>3. Append(written, Head(messages)) \o Tail(messages) = written \o messages
    <3> DEFINE h == Head(messages)
               t == Tail(messages)
    <3>1. messages = <<h>> \o t
      <4>1. Len(messages) \in Nat /\ Len(messages) # 0
        BY <1>2, EmptySeq
      <4>2. 1 \in 1 .. Len(messages) /\ Len(messages) \in 1 .. Len(messages)
        BY <4>1
      <4>3. /\ SubSeq(messages, 1, Len(messages)) = messages
            /\ SubSeq(messages, 1, Len(messages))
                 = <<messages[1]>> \o SubSeq(messages, 2, Len(messages))
        BY <4>2, SubSeqFull, SubSeqRecursiveFirst
      <4>4. h = messages[1] /\ t = SubSeq(messages, 2, Len(messages))
        BY <1>2, TailIsSubSeq
      <4> QED
        BY <4>3, <4>4
    <3>2. Append(written, h) = written \o <<h>>
      BY <2>2, AppendIsConcat
    <3>3. (written \o <<h>>) \o t = written \o (<<h>> \o t)
      BY <2>2, ConcatAssociative
    <3> QED
      BY <3>1, <3>2, <3>3
  <2> QED
    BY <1>2, <2>1, <2>2, <2>3
<1> QED
  BY <1>1, <1>2

(* A step that only passes completions on, or drops one.                   *)
LEMMA PassingOnKeepsInv ==
  ASSUME StreamInv, Types', broken' \in BOOLEAN, UNCHANGED <<writerVars, endVars>>,
         Anywhere(Kinds)' => Anywhere(Kinds), Anywhere(Writes)' => Anywhere(Writes),
         Anywhere(Reads)' <=> Anywhere(Reads), Single(Reads)', Single(Writes)',
         \A i \in DOMAIN pending' : \E j \in DOMAIN pending : pending'[i] = pending[j],
         pending = <<>> => pending' = <<>>,
         OneAtATime({"Read", "Finish"})', OneAtATime(Writes)'
  PROVE  StreamInv'
<1>1. StreamTypeOK'
  BY DEF StreamInv, StreamTypeOK, Types, writerVars, endVars
<1>2. WaitInv'
  BY DEF StreamInv, WaitInv, endVars
<1>3. ReadInv'
  BY DEF StreamInv, ReadInv, endVars
<1>4. WriteInv'
  BY DEF StreamInv, WriteInv, writerVars
<1>5. QueueInv'
  BY DEF StreamInv, QueueInv, WrittenInOrder, writerVars
<1> QED
  BY <1>1, <1>2, <1>3, <1>4, <1>5 DEF StreamInv

LEMMA PollKeepsInv ==
  ASSUME StreamInv, NEW i \in DOMAIN pending, NEW ok \in BOOLEAN, Poll(i, ok)
  PROVE  StreamInv'
<1>1. /\ pending \in Seq(Completions) /\ pending[i] \in Completions /\ Types
      /\ pending' = RemoveAt(pending, i) /\ polled' = <<[pending[i] EXCEPT !.ok = ok]>>
      /\ UNCHANGED <<writerVars, tasks, endVars, broken>>
  BY InvGivesTypes DEF Types, Poll
<1>2. [pending[i] EXCEPT !.ok = ok] \in Completions
  BY <1>1 DEF Completions
<1>3. Types'
  <2> DEFINE c == [pending[i] EXCEPT !.ok = ok]
  <2>1. <<c>> \in Seq(Completions) /\ Len(<<c>>) <= 1
    BY <1>2
  <2>2. pending' \in Seq(Completions)
    BY <1>1, HasInRest
  <2> QED
    BY <1>1, <2>1, <2>2 DEF Types
<1>4. \A kinds : (Anywhere(kinds)' <=> Anywhere(kinds)) /\ (Single(kinds) => Single(kinds)')
  BY <1>1, PollKeepsLive
<1>5. \A n \in DOMAIN pending' : \E j \in DOMAIN pending : pending'[n] = pending[j]
  BY <1>1, HasInRest
<1>6. pending # <<>>
  BY <1>1
<1>7. ASSUME NEW kinds, OneAtATime(kinds) PROVE OneAtATime(kinds)'
  <2>1. AtMostOne(pending, kinds)
    BY <1>7 DEF OneAtATime, AtMostOne
  <2>2. AtMostOne(pending', kinds)
    BY <1>1, <2>1, OneLess
  <2> QED
    BY <2>2 DEF OneAtATime, AtMostOne
<1>8. /\ Anywhere(Kinds)' => Anywhere(Kinds)
      /\ Anywhere(Writes)' => Anywhere(Writes)
      /\ Anywhere(Reads)' <=> Anywhere(Reads)
  BY <1>4
<1>9. Single(Reads)' /\ Single(Writes)' /\ OneAtATime({"Read", "Finish"})' /\ OneAtATime(Writes)'
  BY <1>4, <1>7 DEF StreamInv, ReadInv, WriteInv
<1>10. broken' \in BOOLEAN
  BY <1>1 DEF StreamInv, StreamTypeOK
<1> QED
  BY <1>1, <1>3, <1>5, <1>6, <1>8, <1>9, <1>10, PassingOnKeepsInv

LEMMA HandOverKeepsInv ==
  ASSUME StreamInv, HandOver
  PROVE  StreamInv'
<1>1. Types /\ polled # <<>> /\ tasks' = tasks \o polled /\ polled' = <<>> /\ pending' = pending
  BY InvGivesTypes DEF HandOver
<1>2. Types'
  <2>1. tasks \o polled \in Seq(Completions)
    BY <1>1, ConcatProperties DEF Types
  <2> QED
    BY <1>1, <2>1 DEF Types
<1>3. \A kinds : (Anywhere(kinds)' <=> Anywhere(kinds)) /\ (Single(kinds) => Single(kinds)')
  BY <1>1, HandOverKeepsLive
<1>4. /\ Anywhere(Kinds)' => Anywhere(Kinds)
      /\ Anywhere(Writes)' => Anywhere(Writes)
      /\ Anywhere(Reads)' <=> Anywhere(Reads)
  BY <1>3
<1>5. Single(Reads)' /\ Single(Writes)' /\ OneAtATime({"Read", "Finish"})' /\ OneAtATime(Writes)'
  BY <1>1, <1>3 DEF StreamInv, ReadInv, WriteInv, OneAtATime
<1>6. broken' \in BOOLEAN /\ UNCHANGED <<writerVars, endVars>>
  BY DEF StreamInv, StreamTypeOK, HandOver
<1> QED
  BY <1>1, <1>2, <1>4, <1>5, <1>6, PassingOnKeepsInv

(* A task that is dropped: cancelled, or failed after the call is finished.*)
LEMMA DroppingATaskKeepsInv ==
  ASSUME StreamInv, tasks # <<>>, Head(tasks).live => finished,
         tasks' = Tail(tasks), UNCHANGED <<writerVars, pending, polled, endVars, broken>>
  PROVE  StreamInv'
<1>1. Types /\ tasks \in Seq(Completions) /\ Head(tasks) = tasks[1]
  BY InvGivesTypes, HasInTail DEF Types
<1>2. Types'
  BY <1>1, HasInTail DEF Types
<1>3. \A kinds : /\ Single(kinds) => Single(kinds)'
                 /\ ~LiveAt(tasks, 1, kinds) => (Anywhere(kinds)' <=> Anywhere(kinds))
                 /\ Single(kinds) /\ LiveAt(tasks, 1, kinds) => ~Anywhere(kinds)'
  BY <1>1, TaskDoneKeepsLive
<1>4. \A kinds : Anywhere(kinds)' => Anywhere(kinds)
  <2> TAKE kinds
  <2>1. Has(tasks', kinds) => Has(tasks, kinds)
    <3>1. 1 \in DOMAIN tasks /\ (~LiveAt(tasks, 1, kinds) => (Has(tasks', kinds) <=> Has(tasks, kinds)))
      BY <1>1, HasInTail
    <3> QED
      BY <3>1 DEF Has
  <2> QED
    BY <2>1 DEF Anywhere
<1>5. ~LiveAt(tasks, 1, Reads)
  <2> SUFFICES ASSUME LiveAt(tasks, 1, Reads) PROVE FALSE
    OBVIOUS
  <2>1. finished
    BY <1>1 DEF LiveAt
  <2>2. Anywhere(Reads)
    BY <1>1, HasInTail DEF Anywhere, Has
  <2> QED
    BY <2>1, <2>2 DEF StreamInv, ReadInv
<1>6. /\ Anywhere(Kinds)' => Anywhere(Kinds)
      /\ Anywhere(Writes)' => Anywhere(Writes)
      /\ Anywhere(Reads)' <=> Anywhere(Reads)
  BY <1>3, <1>4, <1>5
<1>7. Single(Reads)' /\ Single(Writes)' /\ OneAtATime({"Read", "Finish"})' /\ OneAtATime(Writes)'
  BY <1>3 DEF StreamInv, ReadInv, WriteInv, OneAtATime
<1>8. broken' \in BOOLEAN
  BY DEF StreamInv, StreamTypeOK
<1> QED
  BY <1>2, <1>6, <1>7, <1>8, PassingOnKeepsInv

(* A message from the owner: written at once, or queued behind a write.    *)
LEMMA WriteKeepsInv ==
  ASSUME StreamInv, Free, given < MaxWrites, given' = given + 1,
         NEW kind \in Writes, StartNext(Append(queue, given + 1), active, kind),
         pc' \in {"free", "lastWrite"},
         UNCHANGED <<polled, tasks, alive, finished, after, notified, broken>>
  PROVE  StreamInv'
<1> DEFINE messages == Append(queue, given + 1)
<1>1. /\ given' \in 0 .. MaxWrites /\ messages \in Seq(1 .. MaxWrites)
      /\ active \in BOOLEAN /\ written \in Seq(1 .. MaxWrites) /\ queue \in Seq(1 .. MaxWrites)
      /\ written \o queue = [i \in 1 .. given |-> i] /\ given \in Nat
  <2>1. given \in 0 .. MaxWrites /\ MaxWrites \in Nat
    BY GrpcStreamAssumption DEF StreamInv, StreamTypeOK
  <2>2. given \in Nat /\ given + 1 \in 1 .. MaxWrites /\ given + 1 \in 0 .. MaxWrites
    BY <2>1
  <2>3. queue \in Seq(1 .. MaxWrites)
    BY DEF StreamInv, StreamTypeOK
  <2>4. messages \in Seq(1 .. MaxWrites)
    <3>1. ASSUME NEW S, NEW q \in Seq(S), NEW e \in S PROVE Append(q, e) \in Seq(S)
      OBVIOUS
    <3> QED
      BY <2>2, <2>3, <3>1
  <2> QED
    BY <2>2, <2>3, <2>4 DEF StreamInv, StreamTypeOK, QueueInv, WrittenInOrder
<1> HIDE DEF messages
<1>2. kind \in Kinds /\ kind \in Writes /\ StartNext(messages, active, kind)
  BY DEF Kinds, Writes, messages
<1>3. /\ queue' \in Seq(1 .. MaxWrites) /\ written' \in Seq(1 .. MaxWrites)
      /\ active' \in BOOLEAN /\ (active => active')
      /\ written' \o queue' = written \o messages /\ (queue' # <<>> => active')
      /\ UNCHANGED pending \/ (~active /\ active' /\ Issue(Completion(kind)))
  BY <1>1, <1>2, StartNextWrites
<1>4. written \o messages = [i \in 1 .. given + 1 |-> i]
  <2>1. messages = queue \o <<given + 1>>
    BY <1>1, AppendIsConcat DEF messages
  <2>2. written \o (queue \o <<given + 1>>) = (written \o queue) \o <<given + 1>>
    <3>1. 1 .. MaxWrites \subseteq Nat
      OBVIOUS
    <3>2. written \in Seq(Nat) /\ queue \in Seq(Nat)
      BY <1>1, <3>1, SeqMonotonic
    <3>3. <<given + 1>> \in Seq(Nat)
      BY <1>1
    <3> QED
      BY <3>2, <3>3, ConcatAssociative
  <2>3. [i \in 1 .. given |-> i] \o <<given + 1>> = [i \in 1 .. given + 1 |-> i]
    <3> DEFINE u == [i \in 1 .. given |-> i]
               v == [i \in 1 .. given + 1 |-> i]
    <3>1. u \in Seq(Nat) /\ v \in Seq(Nat) /\ Len(u) = given /\ Len(v) = given + 1
      BY <1>1
    <3>2. \A i \in 1 .. given + 1 : v[i] = i
      OBVIOUS
    <3>3. \A i \in 1 .. given : u[i] = i
      OBVIOUS
    <3> HIDE DEF u, v
    <3>4. /\ Append(u, given + 1) \in Seq(Nat) /\ Len(Append(u, given + 1)) = given + 1
          /\ \A i \in 1 .. given + 1 : Append(u, given + 1)[i] = IF i = given + 1 THEN given + 1 ELSE u[i]
      BY <1>1, <3>1, AppendProperties
    <3>5. \A i \in 1 .. given + 1 : i = given + 1 \/ i \in 1 .. given
      BY <1>1
    <3>6. Append(u, given + 1) = v
      BY <3>1, <3>2, <3>3, <3>4, <3>5, SeqEqual
    <3>7. Append(u, given + 1) = u \o <<given + 1>>
      BY <1>1, <3>1, AppendIsConcat
    <3> QED
      BY <3>6, <3>7 DEF u, v
  <2> QED
    BY <1>1, <2>1, <2>2, <2>3
<1>5. QueueInv'
  <2>1. written' \o queue' = [i \in 1 .. given' |-> i]
    <3>1. written' \o queue' = written \o messages
      BY <1>3
    <3> QED
      BY <1>4, <3>1
  <2>2. queue' # <<>> => active'
    BY <1>3
  <2> QED
    BY <2>1, <2>2 DEF QueueInv, WrittenInOrder
<1>6. /\ Types' /\ Single(Reads)' /\ Single(Writes)' /\ OneAtATime({"Read", "Finish"})'
      /\ OneAtATime(Writes)' /\ (Anywhere(Reads)' <=> Anywhere(Reads))
      /\ Anywhere(Writes)' => active'
      /\ \A i \in DOMAIN pending' : pending'[i].live /\ (pending'[i].kind = "Finish" => finished)
  <2>1. CASE UNCHANGED pending
    <3>1. Types' /\ OneAtATime({"Read", "Finish"})' /\ OneAtATime(Writes)'
      BY <2>1, InvGivesTypes DEF StreamInv, Types, ReadInv, WriteInv, OneAtATime
    <3>2. \A kinds : (Anywhere(kinds)' <=> Anywhere(kinds)) /\ (Single(kinds) => Single(kinds)')
      BY <2>1 DEF Anywhere, Single
    <3>3. \A i \in DOMAIN pending' : pending'[i].live /\ (pending'[i].kind = "Finish" => finished)
      BY <2>1 DEF Free, StreamInv, WaitInv, ReadInv
    <3>4. Single(Reads)' /\ Single(Writes)' /\ (Anywhere(Reads)' <=> Anywhere(Reads))
      BY <3>2 DEF StreamInv, ReadInv, WriteInv
    <3>5. Anywhere(Writes)' => active'
      <4>1. Anywhere(Writes)' => active
        BY <3>2 DEF StreamInv, WriteInv
      <4> QED
        BY <1>3, <4>1
    <3> QED
      BY <3>1, <3>3, <3>4, <3>5
  <2>2. CASE ~active /\ active' /\ Issue(Completion(kind))
    <3> DEFINE c == Completion(kind)
    <3>1. c \in Completions /\ c.live /\ c.kind = kind
      BY <1>2, NewCompletion
    <3> HIDE DEF c
    <3>2. Types /\ Issue(c) /\ ~Anywhere(Writes)
      BY <2>2, InvGivesTypes DEF StreamInv, WriteInv, c
    <3>3. c.kind \notin Reads /\ c.kind \notin {"Read", "Finish"} /\ c.kind \in Writes
      BY <3>1 DEF Reads, Writes
    <3>4. \A kinds : /\ Types' /\ (Anywhere(kinds)' <=> Anywhere(kinds) \/ (c.live /\ c.kind \in kinds))
                     /\ Single(kinds) /\ ~(Anywhere(kinds) /\ c.live /\ c.kind \in kinds) => Single(kinds)'
      BY <3>1, <3>2, IssueKeepsLive
    <3>5. Single(Reads) /\ Single(Writes)
      BY DEF StreamInv, ReadInv, WriteInv
    <3>6. pending' = Append(pending, c) /\ pending \in Seq(Completions)
      BY <3>2 DEF Issue, Types
    <3>7. \A i \in DOMAIN pending : pending[i].live /\ pending[i].kind \notin Writes
      BY <3>2 DEF Free, StreamInv, WaitInv, Anywhere, Has, LiveAt
    <3>8. AtMostOne(pending', {"Read", "Finish"}) /\ AtMostOne(pending', Writes)
      <4>1. AtMostOne(pending, {"Read", "Finish"}) /\ AtMostOne(pending, Writes)
        BY DEF AtMostOne, StreamInv, ReadInv, WriteInv, OneAtATime
      <4>2. AtMostOne(Append(pending, c), {"Read", "Finish"})
        BY <3>1, <3>3, <3>6, <4>1, OneMore
      <4>3. AtMostOne(Append(pending, c), Writes)
        BY <3>1, <3>6, <3>7, <4>1, OneMore
      <4> QED
        BY <3>6, <4>2, <4>3
    <3>9. \A i \in DOMAIN pending' : pending'[i] = c \/ \E j \in DOMAIN pending : pending'[i] = pending[j]
      BY <3>1, <3>6, AllInAppended
    <3>10. \A i \in DOMAIN pending' : pending'[i].live /\ (pending'[i].kind = "Finish" => finished)
      BY <3>1, <3>3, <3>7, <3>9 DEF StreamInv, ReadInv
    <3>11. OneAtATime({"Read", "Finish"})' /\ OneAtATime(Writes)'
      BY <3>8 DEF AtMostOne, OneAtATime
    <3>12. Single(Reads)' /\ Single(Writes)' /\ (Anywhere(Reads)' <=> Anywhere(Reads)) /\ Types'
      BY <3>2, <3>3, <3>4, <3>5
    <3> QED
      BY <2>2, <3>10, <3>11, <3>12
  <2> QED
    BY <1>3, <2>1, <2>2
<1>7. StreamTypeOK'
  <2>1. /\ given' \in 0 .. MaxWrites
        /\ queue' \in Seq(1 .. MaxWrites) /\ written' \in Seq(1 .. MaxWrites)
        /\ active' \in BOOLEAN
    BY <1>1, <1>3
  <2>2. /\ pending' \in Seq(Completions) /\ tasks' \in Seq(Completions)
        /\ polled' \in Seq(Completions) /\ Len(polled') <= 1
    BY <1>6 DEF Types
  <2>3. /\ alive' \in BOOLEAN /\ finished' \in BOOLEAN /\ broken' \in BOOLEAN
        /\ pc' \in {"free", "lastWrite", "finishing", "draining"}
        /\ after' \in {"none", "quiet", "notify", "failed"}
        /\ notified' \in Nat
    BY DEF StreamInv, StreamTypeOK
  <2> QED
    BY <2>1, <2>2, <2>3 DEF StreamTypeOK
<1>8. WaitInv'
  BY <1>6 DEF StreamInv, WaitInv, Free
<1>9. ReadInv'
  BY <1>6 DEF StreamInv, ReadInv
<1>10. WriteInv'
  BY <1>6 DEF WriteInv
<1> QED
  BY <1>5, <1>7, <1>8, <1>9, <1>10 DEF StreamInv

(* The worker queue is done with an operation and gives gRPC the next.     *)
LEMMA NextOperationKeepsLive ==
  ASSUME Types, tasks # <<>>, tasks' = Tail(tasks), polled' = polled,
         NEW c \in Completions, Issue(c), NEW kinds, Single(kinds)
  PROVE  /\ Types'
         /\ LiveAt(tasks, 1, kinds) =>
              /\ Single(kinds)' /\ ~Has(pending, kinds)
              /\ Anywhere(kinds)' <=> c.live /\ c.kind \in kinds
         /\ ~LiveAt(tasks, 1, kinds) /\ ~(c.live /\ c.kind \in kinds) =>
              Single(kinds)' /\ (Anywhere(kinds)' <=> Anywhere(kinds))
<1> DEFINE new == c.live /\ c.kind \in kinds
<1>1. tasks \in Seq(Completions) /\ pending \in Seq(Completions) /\ pending' = Append(pending, c)
  BY DEF Types, Issue
<1>2. /\ Append(pending, c) \in Seq(Completions)
      /\ Has(Append(pending, c), kinds) <=> Has(pending, kinds) \/ new
      /\ HasOne(pending, kinds) /\ ~(Has(pending, kinds) /\ new) => HasOne(Append(pending, c), kinds)
  BY <1>1, HasInAppended
<1> HIDE DEF new
<1>3. /\ pending' \in Seq(Completions)
      /\ Has(pending', kinds) <=> Has(pending, kinds) \/ new
      /\ HasOne(pending, kinds) /\ ~(Has(pending, kinds) /\ new) => HasOne(pending', kinds)
  BY <1>1, <1>2, Zenon
<1>4. /\ tasks' \in Seq(Completions)
      /\ ~LiveAt(tasks, 1, kinds) => (Has(tasks', kinds) <=> Has(tasks, kinds))
      /\ HasOne(tasks, kinds) => HasOne(tasks', kinds)
      /\ HasOne(tasks, kinds) /\ LiveAt(tasks, 1, kinds) => ~Has(tasks', kinds)
      /\ 1 \in DOMAIN tasks
  BY <1>1, HasInTail
<1>5. Types'
  BY <1>3, <1>4 DEF Types
<1>6. ASSUME LiveAt(tasks, 1, kinds)
      PROVE  Single(kinds)' /\ ~Has(pending, kinds) /\ (Anywhere(kinds)' <=> new)
  <2>1. Has(tasks, kinds)
    BY <1>4, <1>6 DEF Has
  <2>2. ~Has(pending, kinds) /\ ~Has(polled, kinds) /\ ~Has(tasks', kinds)
    BY <1>4, <1>6, <2>1 DEF Single
  <2>3. HasOne(pending', kinds) /\ HasOne(tasks', kinds) /\ HasOne(polled', kinds)
    BY <1>3, <1>4, <2>2 DEF Single
  <2>4. (Has(pending', kinds) <=> new) /\ ~Has(polled', kinds)
    BY <1>3, <2>2
  <2> QED
    BY <2>2, <2>3, <2>4 DEF Single, Anywhere
<1>7. ASSUME ~LiveAt(tasks, 1, kinds), ~new
      PROVE  Single(kinds)' /\ (Anywhere(kinds)' <=> Anywhere(kinds))
  <2>1. (Has(tasks', kinds) <=> Has(tasks, kinds)) /\ (Has(pending', kinds) <=> Has(pending, kinds))
    BY <1>3, <1>4, <1>7
  <2>2. HasOne(pending', kinds) /\ HasOne(tasks', kinds) /\ HasOne(polled', kinds)
    BY <1>3, <1>4, <1>7 DEF Single
  <2>3. Has(polled', kinds) <=> Has(polled, kinds)
    OBVIOUS
  <2> QED
    BY <2>1, <2>2, <2>3 DEF Single, Anywhere
<1> QED
  BY <1>5, <1>6, <1>7 DEF new

(* A task whose callback is there belongs to a stream that lives.          *)
LEMMA LiveTaskIsAlive ==
  ASSUME StreamInv, tasks # <<>>, Head(tasks).live
  PROVE  /\ alive /\ Head(tasks) = tasks[1] /\ 1 \in DOMAIN tasks /\ Head(tasks).kind \in Kinds
         /\ Tail(tasks) \in Seq(Completions)
<1>1. Types /\ tasks \in Seq(Completions)
  BY InvGivesTypes DEF Types
<1>2. /\ Head(tasks) = tasks[1] /\ 1 \in DOMAIN tasks /\ Tail(tasks) \in Seq(Completions)
      /\ tasks[1] \in Completions
  BY <1>1, HasInTail
<1>3. tasks[1].kind \in Kinds
  BY <1>2 DEF Completions
<1>4. Anywhere(Kinds)
  BY <1>2, <1>3 DEF Anywhere, Has, LiveAt
<1>5. alive
  BY <1>4 DEF StreamInv, WaitInv
<1> QED
  BY <1>2, <1>3, <1>5

LEMMA OnReadKeepsInv ==
  ASSUME StreamInv, OnRead
  PROVE  StreamInv'
<1> DEFINE c == Completion("Read")
<1>1. /\ pc = "free" /\ tasks # <<>> /\ tasks' = Tail(tasks) /\ Issue(c) /\ polled' = polled
      /\ Head(tasks).live /\ Head(tasks).kind = "Read"
      /\ UNCHANGED <<writerVars, endVars, broken>>
  BY DEF OnRead, Succeeded, NextTask
<1>2. c \in Completions /\ c.live /\ c.kind = "Read"
  BY NewCompletion DEF Kinds
<1> HIDE DEF c
<1>3. LiveAt(tasks, 1, Reads) /\ ~LiveAt(tasks, 1, Writes) /\ alive /\ Types /\ Has(tasks, Reads)
  <2>1. tasks[1].live /\ tasks[1].kind = "Read" /\ 1 \in DOMAIN tasks /\ alive
    BY <1>1, LiveTaskIsAlive
  <2> QED
    BY <2>1, InvGivesTypes DEF LiveAt, Reads, Writes, Has
<1>4. ~finished
  BY <1>3 DEF StreamInv, ReadInv, Anywhere
<1>5. c.live /\ c.kind \in Reads /\ c.kind \notin Writes
  BY <1>2 DEF Reads, Writes
<1>6. Single(Reads) /\ Single(Writes)
  BY DEF StreamInv, ReadInv, WriteInv
<1>7. Types' /\ Single(Reads)' /\ ~Has(pending, Reads) /\ Anywhere(Reads)'
  <2>1. Single(Reads)' /\ ~Has(pending, Reads) /\ (Anywhere(Reads)' <=> c.live /\ c.kind \in Reads)
    BY <1>1, <1>2, <1>3, <1>6, NextOperationKeepsLive
  <2>2. Types'
    BY <1>1, <1>2, <1>3, <1>6, NextOperationKeepsLive
  <2> QED
    BY <1>5, <2>1, <2>2
<1>8. Single(Writes)' /\ (Anywhere(Writes)' <=> Anywhere(Writes))
  BY <1>1, <1>2, <1>3, <1>5, <1>6, NextOperationKeepsLive
<1>9. \A i \in DOMAIN pending : pending[i].live /\ pending[i].kind \notin {"Read", "Finish"}
  BY <1>1, <1>4, <1>7 DEF StreamInv, WaitInv, ReadInv, Has, LiveAt, Reads
<1>10. pending' = Append(pending, c) /\ pending \in Seq(Completions)
  BY <1>1, <1>3 DEF Issue, Types
<1>11. OneAtATime({"Read", "Finish"})' /\ OneAtATime(Writes)'
  <2>1. AtMostOne(pending, {"Read", "Finish"}) /\ AtMostOne(pending, Writes)
    BY DEF AtMostOne, StreamInv, ReadInv, WriteInv, OneAtATime
  <2>2. AtMostOne(Append(pending, c), {"Read", "Finish"}) /\ AtMostOne(Append(pending, c), Writes)
    BY <1>2, <1>5, <1>9, <1>10, <2>1, OneMore
  <2> QED
    BY <1>10, <2>2 DEF AtMostOne, OneAtATime
<1>12. \A i \in DOMAIN pending' : pending'[i] = c \/ \E j \in DOMAIN pending : pending'[i] = pending[j]
  BY <1>2, <1>10, AllInAppended
<1>13. \A i \in DOMAIN pending' : pending'[i].live /\ pending'[i].kind # "Finish"
  BY <1>2, <1>9, <1>12
<1>14. StreamTypeOK'
  BY <1>1, <1>7 DEF StreamInv, StreamTypeOK, Types, writerVars, endVars
<1>15. WaitInv'
  BY <1>1, <1>3, <1>13 DEF StreamInv, WaitInv, endVars
<1>16. ReadInv'
  <2>1. finished' = FALSE
    BY <1>1, <1>4 DEF endVars, StreamInv, StreamTypeOK
  <2> QED
    BY <1>7, <1>11, <1>13, <2>1 DEF ReadInv
<1>17. WriteInv'
  BY <1>1, <1>8, <1>11 DEF StreamInv, WriteInv, writerVars
<1>18. QueueInv'
  BY <1>1 DEF StreamInv, QueueInv, WrittenInOrder, writerVars
<1> QED
  BY <1>14, <1>15, <1>16, <1>17, <1>18 DEF StreamInv

LEMMA OnWriteKeepsInv ==
  ASSUME StreamInv, OnWrite
  PROVE  StreamInv'
<1> DEFINE c == Completion("Write")
<1>1. /\ pc = "free" /\ tasks # <<>> /\ tasks' = Tail(tasks) /\ polled' = polled
      /\ Head(tasks).live /\ Head(tasks).kind = "Write"
      /\ UNCHANGED <<given, polled, endVars, broken>>
  BY DEF OnWrite, Succeeded, NextTask
<1>2. c \in Completions /\ c.live /\ c.kind = "Write"
  BY NewCompletion DEF Kinds
<1>3. LiveAt(tasks, 1, Writes) /\ ~LiveAt(tasks, 1, Reads) /\ alive /\ Types
  <2>1. tasks[1].live /\ tasks[1].kind = "Write" /\ 1 \in DOMAIN tasks /\ alive
    BY <1>1, LiveTaskIsAlive
  <2> QED
    BY <2>1, InvGivesTypes DEF LiveAt, Reads, Writes
<1>4. Single(Reads) /\ Single(Writes)
  BY DEF StreamInv, ReadInv, WriteInv
<1>5. /\ queue' \in Seq(1 .. MaxWrites) /\ written' \in Seq(1 .. MaxWrites)
      /\ active' \in BOOLEAN
      /\ written' \o queue' = written \o queue
      /\ queue' # <<>> => active'
      /\ UNCHANGED pending \/ (active' /\ Issue(c))
  <2>1. /\ queue \in Seq(1 .. MaxWrites) /\ written \in Seq(1 .. MaxWrites)
        /\ StartNext(queue, FALSE, "Write") /\ "Write" \in Kinds
    BY DEF StreamInv, StreamTypeOK, OnWrite, Kinds
  <2> QED
    BY <2>1, StartNextWrites
<1> HIDE DEF c
<1>6. c.live /\ c.kind \notin Reads /\ c.kind \in Writes
  BY <1>2 DEF Reads, Writes
<1>7. /\ Types' /\ Single(Writes)' /\ ~Has(pending, Writes) /\ (Anywhere(Writes)' => active')
      /\ Single(Reads)' /\ (Anywhere(Reads)' <=> Anywhere(Reads))
  <2>1. ~Has(pending, Writes)
    <3>1. Has(tasks, Writes)
      BY <1>1, <1>3, LiveTaskIsAlive DEF Has
    <3> QED
      BY <1>4, <3>1 DEF Single
  <2>2. CASE UNCHANGED pending
    <3>1. Types'
      BY <1>1, <1>3, <2>2, HasInTail DEF Types
    <3>2. Single(Writes)' /\ ~Anywhere(Writes)'
      BY <1>1, <1>3, <1>4, <2>2, TaskDoneKeepsLive
    <3>3. Single(Reads)' /\ (Anywhere(Reads)' <=> Anywhere(Reads))
      BY <1>1, <1>3, <1>4, <2>2, TaskDoneKeepsLive
    <3> QED
      BY <2>1, <3>1, <3>2, <3>3
  <2>3. CASE active' /\ Issue(c)
    <3>1. Types' /\ Single(Writes)'
      BY <1>1, <1>2, <1>3, <1>4, <2>3, NextOperationKeepsLive
    <3>2. Single(Reads)' /\ (Anywhere(Reads)' <=> Anywhere(Reads))
      BY <1>1, <1>2, <1>3, <1>4, <1>6, <2>3, NextOperationKeepsLive
    <3> QED
      BY <2>1, <2>3, <3>1, <3>2
  <2>4. UNCHANGED pending \/ (active' /\ Issue(c))
    BY <1>5
  <2> QED
    BY <2>2, <2>3, <2>4
<1>8. \A i \in DOMAIN pending : pending[i].live /\ pending[i].kind \notin Writes
  BY <1>1, <1>7 DEF StreamInv, WaitInv, Has, LiveAt
<1>9. /\ OneAtATime({"Read", "Finish"})' /\ OneAtATime(Writes)'
      /\ \A i \in DOMAIN pending' : pending'[i].live /\ (pending'[i].kind = "Finish" => finished)
  <2>1. CASE UNCHANGED pending
    BY <1>8, <2>1 DEF StreamInv, ReadInv, WriteInv, OneAtATime
  <2>2. CASE Issue(c)
    <3>1. pending' = Append(pending, c) /\ pending \in Seq(Completions)
      BY <1>3, <2>2 DEF Issue, Types
    <3>2. AtMostOne(pending, {"Read", "Finish"}) /\ AtMostOne(pending, Writes)
      BY DEF AtMostOne, StreamInv, ReadInv, WriteInv, OneAtATime
    <3>3. AtMostOne(Append(pending, c), Writes)
      BY <1>2, <1>8, <3>1, <3>2, OneMore
    <3>4. AtMostOne(Append(pending, c), {"Read", "Finish"})
      BY <1>2, <3>1, <3>2, OneMore
    <3>5. \A i \in DOMAIN pending' : pending'[i] = c \/ \E j \in DOMAIN pending : pending'[i] = pending[j]
      BY <1>2, <3>1, AllInAppended
    <3>6. \A i \in DOMAIN pending' : pending'[i].live /\ (pending'[i].kind = "Finish" => finished)
      BY <1>2, <1>8, <3>5 DEF StreamInv, ReadInv
    <3> QED
      BY <3>1, <3>3, <3>4, <3>6 DEF AtMostOne, OneAtATime
  <2> QED
    BY <1>5, <2>1, <2>2
<1>10. StreamTypeOK'
  <2>1. /\ pending' \in Seq(Completions) /\ tasks' \in Seq(Completions)
        /\ polled' \in Seq(Completions) /\ Len(polled') <= 1
    BY <1>7 DEF Types
  <2>2. given' \in 0 .. MaxWrites /\ alive' \in BOOLEAN /\ finished' \in BOOLEAN /\ broken' \in BOOLEAN
    BY <1>1 DEF StreamInv, StreamTypeOK, endVars
  <2>3. /\ pc' \in {"free", "lastWrite", "finishing", "draining"}
        /\ after' \in {"none", "quiet", "notify", "failed"} /\ notified' \in Nat
    BY <1>1 DEF StreamInv, StreamTypeOK, endVars
  <2> QED
    BY <1>5, <2>1, <2>2, <2>3 DEF StreamTypeOK
<1>11. WaitInv'
  BY <1>1, <1>3, <1>9 DEF StreamInv, WaitInv, endVars
<1>12. ReadInv'
  BY <1>1, <1>7, <1>9 DEF StreamInv, ReadInv, endVars
<1>13. WriteInv'
  BY <1>7, <1>9 DEF WriteInv
<1>14. QueueInv'
  <2>1. given' = given /\ (queue' # <<>> => active')
    BY <1>1, <1>5
  <2>2. written' \o queue' = [i \in 1 .. given |-> i]
    BY <1>5 DEF StreamInv, QueueInv, WrittenInOrder
  <2> QED
    BY <2>1, <2>2 DEF QueueInv, WrittenInOrder
<1> QED
  BY <1>10, <1>11, <1>12, <1>13, <1>14 DEF StreamInv

(* The operations are back.  Nothing else is live; Finish may be.          *)
LEMMA FinishGrpcCallKeepsInv ==
  ASSUME StreamInv, FinishGrpcCall
  PROVE  StreamInv'
<1>1. /\ pc = "finishing" /\ pending = <<>> /\ Types /\ alive /\ finished
      /\ UNCHANGED <<writerVars, polled, tasks, alive, finished, broken, notified>>
      /\ ~Anywhere(Reads) /\ ~Anywhere(Kinds)
  <2>1. pc = "finishing" /\ pending = <<>>
        /\ UNCHANGED <<writerVars, polled, tasks, alive, finished, broken, notified>>
    BY DEF FinishGrpcCall
  <2>2. alive /\ finished /\ ~Anywhere(Kinds)
    BY <2>1 DEF StreamInv, WaitInv
  <2> QED
    BY <2>1, <2>2, InvGivesTypes DEF StreamInv, ReadInv
<1>2. PICK c \in Completions :
        /\ Issue(c) /\ c.kind = "Finish"
        /\ \/ c.live /\ pc' = "free" /\ after' = "none"
           \/ ~c.live /\ pc' = "draining" /\ after' = after /\ after # "failed"
  <2>1. "Finish" \in Kinds
    BY DEF Kinds
  <2> QED
    BY <2>1, NewCompletion DEF FinishGrpcCall
<1>3. c.kind \notin Reads /\ c.kind \notin Writes /\ c.kind \in Kinds
  BY <1>2 DEF Reads, Writes, Kinds
<1>4. Single(Reads) /\ Single(Writes) /\ (Anywhere(Writes) => active)
  BY DEF StreamInv, ReadInv, WriteInv
<1>5. /\ Types' /\ Single(Reads)' /\ Single(Writes)'
      /\ ~Anywhere(Reads)' /\ (Anywhere(Writes)' => active') /\ (Anywhere(Kinds)' => c.live)
  <2>1. \A kinds : /\ Types'
                   /\ Anywhere(kinds)' <=> Anywhere(kinds) \/ (c.live /\ c.kind \in kinds)
                   /\ Single(kinds) /\ ~(Anywhere(kinds) /\ c.live /\ c.kind \in kinds) => Single(kinds)'
    <3>1. Types /\ c \in Completions /\ Issue(c) /\ UNCHANGED <<polled, tasks>>
      BY <1>1, <1>2
    <3> QED
      BY <3>1, IssueKeepsLive
  <2>2. Types' /\ Single(Reads)' /\ Single(Writes)'
    BY <1>3, <1>4, <2>1
  <2>3. ~Anywhere(Reads)'
    BY <1>1, <1>3, <2>1
  <2>4. Anywhere(Writes)' => active
    BY <1>3, <1>4, <2>1
  <2>5. Anywhere(Kinds)' => c.live
    BY <1>1, <2>1
  <2> QED
    BY <1>1, <2>2, <2>3, <2>4, <2>5 DEF writerVars
<1>6. pending' = Append(pending, c) /\ pending \in Seq(Completions)
  BY <1>1, <1>2 DEF Issue, Types
<1>7. OneAtATime({"Read", "Finish"})' /\ OneAtATime(Writes)'
  <2>1. AtMostOne(pending, {"Read", "Finish"}) /\ AtMostOne(pending, Writes)
    BY DEF AtMostOne, StreamInv, ReadInv, WriteInv, OneAtATime
  <2>2. \A i \in DOMAIN pending : FALSE
    BY <1>1
  <2>3. AtMostOne(Append(pending, c), {"Read", "Finish"}) /\ AtMostOne(Append(pending, c), Writes)
    BY <1>6, <2>1, <2>2, OneMore
  <2> QED
    BY <1>6, <2>3 DEF AtMostOne, OneAtATime
<1>8. \A i \in DOMAIN pending' : pending'[i] = c
  BY <1>1, <1>6, AllInAppended
<1>9. StreamTypeOK'
  BY <1>1, <1>2, <1>5 DEF StreamInv, StreamTypeOK, Types, writerVars
<1>10. WaitInv'
  BY <1>1, <1>2, <1>5, <1>8 DEF StreamInv, WaitInv
<1>11. ReadInv'
  BY <1>1, <1>5, <1>7 DEF ReadInv
<1>12. WriteInv'
  BY <1>5, <1>7 DEF WriteInv
<1>13. QueueInv'
  BY <1>1 DEF StreamInv, QueueInv, WrittenInOrder, writerVars
<1> QED
  BY <1>9, <1>10, <1>11, <1>12, <1>13 DEF StreamInv

LEMMA DestroyedKeepsInv ==
  ASSUME StreamInv, Destroyed
  PROVE  StreamInv'
<1>1. /\ pc = "draining" /\ pending = <<>> /\ alive' = FALSE /\ pc' = "free" /\ after' = "none"
      /\ notified' = IF after = "notify" THEN notified + 1 ELSE notified
      /\ UNCHANGED <<writerVars, opVars, finished, broken>>
  BY DEF Destroyed
<1>2. notified' \in {0, 1} /\ ~Anywhere(Kinds) /\ finished
  <2>1. alive /\ notified = 0
    BY <1>1 DEF StreamInv, WaitInv
  <2>2. ~Anywhere(Kinds) /\ finished
    BY <1>1 DEF StreamInv, WaitInv
  <2> QED
    BY <1>1, <2>1, <2>2
<1>3. \A kinds : (Anywhere(kinds)' <=> Anywhere(kinds)) /\ (Single(kinds)' <=> Single(kinds))
  BY <1>1 DEF Anywhere, Single, opVars
<1>4. StreamTypeOK'
  <2>1. notified' \in Nat /\ alive' \in BOOLEAN
    <3>1. notified' \in Nat
      BY <1>2
    <3>2. alive' = FALSE
      BY <1>1
    <3> QED
      BY <3>1, <3>2
  <2>2. pc' \in {"free", "lastWrite", "finishing", "draining"}
        /\ after' \in {"none", "quiet", "notify", "failed"}
    BY <1>1
  <2>3. UNCHANGED <<writerVars, opVars, finished, broken>>
    BY <1>1
  <2> QED
    BY <2>1, <2>2, <2>3 DEF StreamInv, StreamTypeOK, writerVars, opVars
<1>5. WaitInv'
  <2>1. ~Anywhere(Kinds)' /\ finished' /\ pending' = <<>>
    BY <1>1, <1>2, <1>3 DEF opVars
  <2> QED
    BY <1>1, <1>2, <2>1 DEF WaitInv
<1>6. ReadInv'
  <2>1. (Anywhere(Reads)' <=> Anywhere(Reads)) /\ Single(Reads)'
    BY <1>3 DEF StreamInv, ReadInv
  <2> QED
    BY <1>1, <2>1 DEF StreamInv, ReadInv, OneAtATime, opVars
<1>7. WriteInv'
  <2>1. (Anywhere(Writes)' <=> Anywhere(Writes)) /\ Single(Writes)'
    BY <1>3 DEF StreamInv, WriteInv
  <2> QED
    BY <1>1, <2>1 DEF StreamInv, WriteInv, OneAtATime, opVars, writerVars
<1>8. QueueInv'
  BY <1>1 DEF StreamInv, QueueInv, WrittenInOrder, writerVars
<1> QED
  BY <1>4, <1>5, <1>6, <1>7, <1>8 DEF StreamInv

-----------------------------------------------------------------------------
LEMMA StreamInitInv == StreamInit => StreamInv
<1> SUFFICES ASSUME StreamInit PROVE StreamInv
  OBVIOUS
<1> DEFINE c == Completion("Read")
<1>1. c \in Completions /\ c.live /\ c.kind = "Read"
  BY NewCompletion DEF Kinds
<1>2. pending = <<c>> /\ polled = <<>> /\ tasks = <<>>
  BY DEF StreamInit
<1>3. \A i \in DOMAIN pending : i = 1 /\ pending[i] = c
  BY <1>2
<1> HIDE DEF c
<1>4. \A kinds : /\ Has(pending, kinds) <=> c.live /\ c.kind \in kinds
                 /\ HasOne(pending, kinds)
  BY <1>2, HasInSingleton
<1>5. \A kinds : /\ ~Has(polled, kinds) /\ ~Has(tasks, kinds)
                 /\ HasOne(polled, kinds) /\ HasOne(tasks, kinds)
  BY <1>2, HasInEmpty
<1>6. \A kinds : Single(kinds) /\ (Anywhere(kinds) <=> c.live /\ c.kind \in kinds)
  BY <1>4, <1>5 DEF Single, Anywhere
<1>7. Anywhere(Reads) /\ ~Anywhere(Writes)
  BY <1>1, <1>6 DEF Reads, Writes
<1>8. StreamTypeOK
  <2>1. pending \in Seq(Completions) /\ polled \in Seq(Completions) /\ tasks \in Seq(Completions)
        /\ Len(polled) <= 1
    <3>1. <<c>> \in Seq(Completions)
      BY <1>1
    <3>2. <<>> \in Seq(Completions) /\ Len(<<>>) <= 1
      OBVIOUS
    <3> QED
      BY <1>2, <3>1, <3>2
  <2>2. given \in 0 .. MaxWrites
    BY GrpcStreamAssumption DEF StreamInit
  <2>3. queue \in Seq(1 .. MaxWrites) /\ written \in Seq(1 .. MaxWrites)
    BY DEF StreamInit
  <2>4. /\ alive \in BOOLEAN /\ active \in BOOLEAN /\ finished \in BOOLEAN /\ broken \in BOOLEAN
        /\ pc \in {"free", "lastWrite", "finishing", "draining"}
        /\ after \in {"none", "quiet", "notify", "failed"} /\ notified \in Nat
    BY DEF StreamInit
  <2> QED
    BY <2>1, <2>2, <2>3, <2>4 DEF StreamTypeOK
<1>9. WaitInv
  BY <1>1, <1>3 DEF WaitInv, StreamInit
<1>10. ReadInv
  BY <1>1, <1>3, <1>6, <1>7 DEF ReadInv, OneAtATime, StreamInit
<1>11. WriteInv
  BY <1>3, <1>6, <1>7 DEF WriteInv, OneAtATime
<1>12. QueueInv
  <2>1. [i \in 1 .. 0 |-> i] = <<>>
    <3> DEFINE u == [i \in 1 .. 0 |-> i]
    <3>1. u \in Seq(Nat) /\ Len(u) = 0
      OBVIOUS
    <3> HIDE DEF u
    <3>2. u = <<>>
      BY <3>1, EmptySeq
    <3> QED
      BY <3>2 DEF u
  <2>2. written = <<>> /\ queue = <<>> /\ given = 0
    BY DEF StreamInit
  <2>3. written \o queue = <<>>
    BY <2>2
  <2>4. written \o queue = [i \in 1 .. given |-> i]
    BY <2>1, <2>2, <2>3
  <2> QED
    BY <2>2, <2>4 DEF QueueInv, WrittenInOrder
<1> QED
  BY <1>8, <1>9, <1>10, <1>11, <1>12 DEF StreamInv

LEMMA StreamStepInv == StreamInv /\ [StreamNext]_streamVars => StreamInv'
<1> SUFFICES ASSUME StreamInv, [StreamNext]_streamVars PROVE StreamInv'
  OBVIOUS
<1>1. tasks \in Seq(Completions) /\ broken \in BOOLEAN
  BY DEF StreamInv, StreamTypeOK
<1>2. CASE Write
  <2>1. "Write" \in Writes /\ Free /\ pc' \in {"free", "lastWrite"}
    BY <1>2 DEF Writes, Write, Free, endVars
  <2>2. /\ given < MaxWrites /\ given' = given + 1
        /\ StartNext(Append(queue, given + 1), active, "Write")
        /\ UNCHANGED <<polled, tasks, alive, finished, after, notified, broken>>
    BY <1>2 DEF Write, endVars
  <2> QED
    BY <2>1, <2>2, WriteKeepsInv
<1>3. CASE FinishImmediately
  BY <1>1, <1>3, ShutdownKeepsInv DEF FinishImmediately, Free
<1>4. CASE ConnectivityChanges
  BY <1>1, <1>4, ShutdownKeepsInv DEF ConnectivityChanges, Free
<1>5. CASE WriteAndFinish
  <2>1. CASE finished
    BY <1>1, <1>5, <2>1, ShutdownKeepsInv DEF WriteAndFinish, Free
  <2>2. CASE ~finished
    <3>1. "Last" \in Writes /\ Free /\ pc' \in {"free", "lastWrite"}
      BY <1>5, <2>2 DEF Writes, WriteAndFinish
    <3>2. /\ given < MaxWrites /\ given' = given + 1
          /\ StartNext(Append(queue, given + 1), active, "Last")
          /\ UNCHANGED <<polled, tasks, alive, finished, after, notified, broken>>
      BY <1>5, <2>2 DEF WriteAndFinish
    <3> QED
      BY <3>1, <3>2, WriteKeepsInv
  <2> QED
    BY <2>1, <2>2
<1>6. CASE LastWriteEnds
  <2>1. alive
    BY <1>6 DEF LastWriteEnds, StreamInv, WaitInv
  <2> QED
    BY <1>1, <1>6, <2>1, ShutdownKeepsInv DEF LastWriteEnds
<1>7. CASE FinishGrpcCall
  BY <1>7, FinishGrpcCallKeepsInv
<1>8. CASE Destroyed
  BY <1>8, DestroyedKeepsInv
<1>9. CASE CancelledTask
  BY <1>9, DroppingATaskKeepsInv DEF CancelledTask, NextTask
<1>10. CASE OnRead
  BY <1>10, OnReadKeepsInv
<1>11. CASE OnWrite
  BY <1>11, OnWriteKeepsInv
<1>12. CASE OnFinish
  <2>1. alive /\ Tail(tasks) \in Seq(Completions)
    BY <1>12, LiveTaskIsAlive DEF OnFinish, Succeeded, NextTask
  <2> QED
    BY <1>12, <2>1, ShutdownKeepsInv DEF OnFinish
<1>13. CASE OnOperationFailed
  <2>1. alive /\ Tail(tasks) \in Seq(Completions)
    BY <1>13, LiveTaskIsAlive DEF OnOperationFailed, NextTask
  <2>2. CASE finished
    <3>1. tasks # <<>> /\ tasks' = Tail(tasks)
          /\ UNCHANGED <<writerVars, pending, polled, endVars, broken>>
      BY <1>13, <2>2 DEF OnOperationFailed, NextTask, endVars
    <3> QED
      BY <2>2, <3>1, DroppingATaskKeepsInv
  <2>3. CASE ~finished
    <3>1. /\ CancelOthers(Tail(tasks)) /\ finished' = TRUE /\ pc' = "finishing" /\ after' = "failed"
          /\ UNCHANGED <<writerVars, alive, broken, notified>>
      BY <1>13, <2>3 DEF OnOperationFailed, FastFinish
    <3> QED
      BY <1>1, <2>1, <3>1, EndedKeepsInv
  <2> QED
    BY <2>2, <2>3
<1>14. CASE CallBreaks
  <2>1. UNCHANGED <<writerVars, opVars, endVars>> /\ broken' = TRUE
    BY <1>14 DEF CallBreaks
  <2> QED
    BY <2>1 DEF StreamInv, StreamTypeOK, WaitInv, ReadInv, WriteInv, QueueInv, WrittenInOrder,
                Anywhere, Single, OneAtATime, writerVars, opVars, endVars
<1>15. CASE OperationSucceeds
  BY <1>15, PollKeepsInv DEF OperationSucceeds
<1>16. CASE OperationEnds
  <2>1. PICK i \in DOMAIN pending : Poll(i, pending[i].kind = "Finish")
    BY <1>16 DEF OperationEnds
  <2>2. (pending[i].kind = "Finish") \in BOOLEAN
    OBVIOUS
  <2> QED
    BY <2>1, <2>2, PollKeepsInv
<1>17. CASE HandOver
  BY <1>17, HandOverKeepsInv
<1>18. CASE UNCHANGED streamVars
  BY <1>18 DEF StreamInv, StreamTypeOK, WaitInv, ReadInv, WriteInv, QueueInv, WrittenInOrder,
               Anywhere, Single, OneAtATime, writerVars, opVars, endVars, streamVars
<1> QED
  BY <1>2, <1>3, <1>4, <1>5, <1>6, <1>7, <1>8, <1>9, <1>10, <1>11, <1>12, <1>13, <1>14, <1>15,
     <1>16, <1>17, <1>18 DEF StreamNext, WorkerNext, GrpcNext

(***************************************************************************)
(* The invariant holds in every state.                                     *)
(***************************************************************************)
THEOREM StreamInvariant == StreamSpec => []StreamInv
<1> QED
  BY StreamInitInv, StreamStepInv, PTL DEF StreamSpec

(* The state of a stream is always well-formed.                            *)
THEOREM StreamTypeCorrect == StreamSpec => []StreamTypeOK
<1>1. StreamInv => StreamTypeOK
  BY DEF StreamInv
<1> QED
  BY <1>1, StreamInvariant, PTL

(***************************************************************************)
(* A stream that is gone has left nothing behind with gRPC, the polling    *)
(* thread or the worker queue, and its owner heard of the end once at most.*)
(***************************************************************************)
THEOREM NothingIsLeftBehind == StreamSpec => []NothingOutlivesTheStream
<1>1. StreamInv => NothingOutlivesTheStream
  <2> SUFFICES ASSUME StreamInv PROVE NothingOutlivesTheStream
    OBVIOUS
  <2>1. alive => notified = 0
    BY DEF StreamInv, WaitInv
  <2>2. ~alive => notified <= 1 /\ pending = <<>> /\ ~Anywhere(Kinds)
    BY DEF StreamInv, WaitInv
  <2>3. ~Anywhere(Kinds) => Live = {}
    <3> SUFFICES ASSUME NEW c \in Live PROVE Anywhere(Kinds)
      BY DEF NothingOutlivesTheStream
    <3>1. c.kind \in Kinds
      BY InvGivesTypes, LiveAreCompletions DEF Completions
    <3> QED
      BY <3>1, InvGivesTypes, LiveIsAnywhere
  <2> QED
    BY <2>1, <2>2, <2>3 DEF NothingOutlivesTheStream
<1> QED
  BY <1>1, StreamInvariant, PTL

(***************************************************************************)
(* gRPC gets one read and one write at a time, and Finish once; and until  *)
(* its call is finished the stream listens.                                *)
(***************************************************************************)
THEOREM OperationsNeverOverlap == StreamSpec => []OneOperationOfAKind
<1>1. StreamInv => OneOperationOfAKind
  <2> SUFFICES ASSUME StreamInv PROVE OneOperationOfAKind
    OBVIOUS
  <2>1. OneAtATime({"Read", "Finish"}) /\ \A i \in DOMAIN pending : pending[i].kind = "Finish" => finished
    BY DEF StreamInv, ReadInv
  <2>2. OneAtATime({"Write", "Last"})
    BY DEF StreamInv, WriteInv, Writes
  <2>3. ~finished => \E c \in Live : c.kind = "Read"
    <3> SUFFICES ASSUME ~finished PROVE \E c \in Live : c.kind = "Read"
      OBVIOUS
    <3>1. Anywhere(Reads)
      BY DEF StreamInv, ReadInv
    <3>2. \E c \in Live : c.kind \in Reads
      BY <3>1, InvGivesTypes, LiveIsAnywhere
    <3> QED
      BY <3>2 DEF Reads
  <2> QED
    BY <2>1, <2>2, <2>3 DEF OneOperationOfAKind
<1> QED
  BY <1>1, StreamInvariant, PTL

(***************************************************************************)
(* The messages reach gRPC in the order they were given, and none is       *)
(* dropped: those not yet written are still queued behind an active write. *)
(***************************************************************************)
THEOREM MessagesStayInOrder == StreamSpec => []WrittenInOrder
<1>1. StreamInv => WrittenInOrder
  BY DEF StreamInv, QueueInv
<1> QED
  BY <1>1, StreamInvariant, PTL

=============================================================================
