---------------------------- MODULE Session_proofs ----------------------------
(***************************************************************************)
(* Proofs about who is signed in, for any number of accounts and calls.    *)
(***************************************************************************)
EXTENDS Session, SequenceTheorems, TLAPS

(* What a block of the main queue carries.                                 *)
BlockFits(b, accounts, store) ==
  /\ b.what # "changed" => b.request \in Request
  /\ b.what = "done" => b.request.account \in accounts
  /\ b.what = "done" /\ b.user # None => b.user = b.request.account
  /\ b.what = "done" /\ b.user = None => b.request.kind = "signup"
  /\ b.what = "transition" => store # "closed"

BlockOK(b) == BlockFits(b, registered, storeUser)

BlocksOK ==
  /\ \A i \in DOMAIN mainQueue : BlockOK(mainQueue[i])
  /\ \A r \in requests : r.accepted => r.account \in registered
  /\ visible # "home" => visit <= MaxVisits

(* The last notification on its way is that of the current user.           *)
Silent(q) == \A i \in DOMAIN q : q[i].what # "changed"

EndsWith(q, user) ==
  \A i \in DOMAIN q :
    q[i].what = "changed" /\ (\A j \in DOMAIN q : j > i => q[j].what # "changed") => q[i].user = user

StoreInv ==
  /\ EndsWith(mainQueue, currentUser)
  /\ storeUser # "closed" /\ Silent(mainQueue) => storeUser = currentUser

(* A completion comes right after the notification of its user; when that  *)
(* has been heard, Firestore has the user, unless it is not used yet.      *)
Heralded(q, i, store) ==
  IF i = 1 THEN store \in {"closed", q[1].user}
           ELSE q[i - 1].what = "changed" /\ q[i - 1].user = q[i].user

AllHeralded(q, store) ==
  \A i \in DOMAIN q : q[i].what = "done" /\ q[i].user # None => Heralded(q, i, store)

DoneInv == AllHeralded(mainQueue, storeUser)

(* When a completion is next and no change is behind it, its user is the   *)
(* current one.                                                            *)
NextIsCurrent(q, user) ==
  q # <<>> /\ q[1].what = "done" /\ q[1].user # None /\ Silent(q) => q[1].user = user

HeadInv == NextIsCurrent(mainQueue, currentUser)

(* As long as calls do not overlap and nobody is signed out by force there *)
(* is one call, and the blocks of it come last.                            *)
Calm == ~overlapped /\ disabled = {}

CalmInv ==
  Calm =>
    /\ \A r, s \in requests : r = s
    /\ \A i \in DOMAIN mainQueue : mainQueue[i].what # "changed" => i = Len(mainQueue) /\ requests = {}
    /\ \A i \in DOMAIN mainQueue : mainQueue[i].what = "done" => mainQueue[i].user = currentUser
    /\ \A i \in DOMAIN mainQueue : mainQueue[i].what = "transition" => currentUser # None
    /\ visible = "home" => mainQueue = <<>> /\ requests = {}
    /\ visible = "home" => homeUser = currentUser /\ storeUser = currentUser
    /\ trap # "noUser"

(* The sign-ups the server has accepted and whose profile is not written.  *)
Unfiled(account) ==
  \/ \E r \in requests : r.kind = "signup" /\ r.accepted /\ r.account = account
  \/ \E i \in DOMAIN mainQueue :
       /\ mainQueue[i].what = "done"
       /\ mainQueue[i].request.kind = "signup" /\ mainQueue[i].request.account = account

SignUpInv == \A a \in registered : a \in profiles \/ a \in interrupted \/ Unfiled(a)

SessionInv ==
  /\ SessionTypeOK /\ BlocksOK /\ StoreInv /\ DoneInv /\ HeadInv
  /\ ProfilesAreFiledRightly /\ CalmInv /\ SignUpInv

-----------------------------------------------------------------------------
(* The main queue grows at its end, and its first block goes or is replaced.*)
LEMMA AppendedQueue ==
  ASSUME NEW q \in Seq(Block), NEW b \in Block
  PROVE  /\ Append(q, b) \in Seq(Block) /\ Len(Append(q, b)) = Len(q) + 1 /\ Len(q) \in Nat
         /\ DOMAIN q = 1 .. Len(q)
         /\ \A i \in DOMAIN q : Append(q, b)[i] = q[i] /\ i \in DOMAIN Append(q, b) /\ i < Len(q) + 1
         /\ Append(q, b)[Len(q) + 1] = b /\ Len(q) + 1 \in DOMAIN Append(q, b)
         /\ \A i \in DOMAIN Append(q, b) : i \in DOMAIN q \/ i = Len(q) + 1
<1> DEFINE t == Append(q, b)
<1>1. /\ t \in Seq(Block) /\ Len(t) = Len(q) + 1 /\ Len(q) \in Nat
      /\ DOMAIN q = 1 .. Len(q) /\ DOMAIN t = 1 .. Len(q) + 1
      /\ t[Len(q) + 1] = b
  OBVIOUS
<1>2. \A i \in DOMAIN q : t[i] = q[i]
  OBVIOUS
<1> HIDE DEF t
<1>3. /\ \A i \in DOMAIN q : i \in DOMAIN t /\ i < Len(q) + 1
      /\ Len(q) + 1 \in DOMAIN t
      /\ \A i \in DOMAIN t : i \in DOMAIN q \/ i = Len(q) + 1
  BY <1>1
<1> QED
  BY <1>1, <1>2, <1>3 DEF t

LEMMA TailOfQueue ==
  ASSUME NEW q \in Seq(Block), q # <<>>
  PROVE  /\ Tail(q) \in Seq(Block) /\ Head(q) = q[1] /\ 1 \in DOMAIN q /\ Head(q) \in Block
         /\ Len(Tail(q)) = Len(q) - 1
         /\ \A i \in DOMAIN Tail(q) : /\ Tail(q)[i] = q[i + 1] /\ i + 1 \in DOMAIN q
                                      /\ i \in Nat /\ i + 1 # 1 /\ (i = 1 <=> i + 1 = 2)
                                      /\ (i # 1 => i - 1 \in DOMAIN Tail(q) /\ (i - 1) + 1 = i)
         /\ \A i \in DOMAIN q : i # 1 => i - 1 \in DOMAIN Tail(q) /\ (i - 1) + 1 = i
         /\ \A i, j \in DOMAIN Tail(q) : j > i <=> j + 1 > i + 1
<1> DEFINE t == Tail(q)
<1>1. /\ t \in Seq(Block) /\ Head(q) = q[1] /\ 1 \in DOMAIN q /\ Head(q) \in Block
      /\ DOMAIN q = 1 .. Len(q) /\ DOMAIN t = 1 .. Len(q) - 1 /\ Len(q) \in Nat /\ Len(t) = Len(q) - 1
  OBVIOUS
<1>2. \A i \in DOMAIN t : t[i] = q[i + 1] /\ i + 1 \in DOMAIN q
  OBVIOUS
<1> HIDE DEF t
<1>3. \A i \in DOMAIN t : /\ i \in Nat /\ i + 1 # 1 /\ (i = 1 <=> i + 1 = 2)
                          /\ (i # 1 => i - 1 \in DOMAIN t /\ (i - 1) + 1 = i)
  BY <1>1
<1>4. \A i \in DOMAIN q : i # 1 => i - 1 \in DOMAIN t /\ (i - 1) + 1 = i
  BY <1>1
<1>5. \A i, j \in DOMAIN t : j > i <=> j + 1 > i + 1
  BY <1>1
<1> QED
  BY <1>1, <1>2, <1>3, <1>4, <1>5 DEF t

LEMMA ReplacedHead ==
  ASSUME NEW q \in Seq(Block), q # <<>>, NEW b \in Block
  PROVE  LET t == <<b>> \o Tail(q)
         IN  /\ t \in Seq(Block) /\ Len(t) = Len(q) /\ DOMAIN t = DOMAIN q /\ t[1] = b /\ 1 \in DOMAIN q
             /\ \A i \in DOMAIN q : i # 1 => t[i] = q[i]
<1> DEFINE one == <<b>>
           rest == Tail(q)
           t == one \o rest
<1>1. one \in Seq(Block) /\ Len(one) = 1 /\ one[1] = b
  OBVIOUS
<1>2. /\ rest \in Seq(Block) /\ Len(rest) = Len(q) - 1 /\ Len(q) \in Nat /\ 1 \in DOMAIN q
      /\ DOMAIN q = 1 .. Len(q)
  OBVIOUS
<1>3. \A i \in 1 .. Len(q) - 1 : rest[i] = q[i + 1]
  OBVIOUS
<1> HIDE DEF one, rest
<1>4. /\ t \in Seq(Block) /\ Len(t) = Len(one) + Len(rest)
      /\ \A i \in 1 .. Len(one) + Len(rest) :
           t[i] = IF i <= Len(one) THEN one[i] ELSE rest[i - Len(one)]
  BY <1>1, <1>2, ConcatProperties
<1>5. Len(one) + Len(rest) = Len(q)
  BY <1>1, <1>2
<1>6. DOMAIN t = DOMAIN q
  <2>1. \A u \in Seq(Block) : DOMAIN u = 1 .. Len(u)
    OBVIOUS
  <2> QED
    BY <1>2, <1>4, <1>5, <2>1
<1>7. t[1] = b
  <2>1. 1 \in 1 .. Len(one) + Len(rest) /\ 1 <= Len(one)
    BY <1>1, <1>2, <1>5
  <2> QED
    BY <1>1, <1>4, <2>1
<1>8. ASSUME NEW i \in DOMAIN q, i # 1 PROVE t[i] = q[i]
  <2>1. i - 1 \in 1 .. Len(q) - 1 /\ (i - 1) + 1 = i /\ ~(i <= 1)
    BY <1>2, <1>8
  <2>2. t[i] = rest[i - 1]
    BY <1>1, <1>2, <1>4, <1>5, <2>1
  <2> QED
    BY <1>3, <2>1, <2>2
<1> QED
  BY <1>2, <1>4, <1>5, <1>6, <1>7, <1>8 DEF one, rest

(* Two blocks are appended one after the other.                            *)
LEMMA TwoAppended ==
  ASSUME NEW q \in Seq(Block), NEW b \in Block, NEW c \in Block
  PROVE  q \o <<b, c>> = Append(Append(q, b), c)
<1>1. Append(q, b) \in Seq(Block) /\ Append(Append(q, b), c) = Append(q, b) \o <<c>>
  BY AppendedQueue, AppendIsConcat
<1>2. Append(q, b) = q \o <<b>>
  BY AppendIsConcat
<1>3. (q \o <<b>>) \o <<c>> = q \o (<<b>> \o <<c>>)
  <2>1. <<b>> \in Seq(Block) /\ <<c>> \in Seq(Block)
    OBVIOUS
  <2> QED
    BY <2>1, ConcatAssociative
<1>4. <<b>> \o <<c>> = <<b, c>>
  <2>1. <<b>> \in Seq(Block) /\ <<c>> \in Seq(Block) /\ <<b, c>> \in Seq(Block)
    OBVIOUS
  <2>2. /\ <<b>> \o <<c>> \in Seq(Block) /\ Len(<<b>> \o <<c>>) = 2
        /\ (<<b>> \o <<c>>)[1] = b /\ (<<b>> \o <<c>>)[2] = c
    OBVIOUS
  <2>3. Len(<<b, c>>) = 2 /\ <<b, c>>[1] = b /\ <<b, c>>[2] = c /\ \A i \in 1 .. 2 : i = 1 \/ i = 2
    OBVIOUS
  <2> QED
    BY <2>1, <2>2, <2>3, SeqEqual
<1> QED
  BY <1>1, <1>2, <1>3, <1>4

-----------------------------------------------------------------------------
(* What the end of the queue says.                                         *)
LEMMA EndOfAppended ==
  ASSUME NEW q \in Seq(Block), NEW b \in Block, NEW user
  PROVE  /\ b.what = "changed" /\ b.user = user => EndsWith(Append(q, b), user) /\ ~Silent(Append(q, b))
         /\ b.what # "changed" => /\ EndsWith(q, user) => EndsWith(Append(q, b), user)
                                  /\ Silent(Append(q, b)) <=> Silent(q)
<1> DEFINE t == Append(q, b)
           n == Len(q) + 1
<1>1. /\ \A i \in DOMAIN q : t[i] = q[i] /\ i \in DOMAIN t /\ n > i
      /\ t[n] = b /\ n \in DOMAIN t
      /\ \A i \in DOMAIN t : i \in DOMAIN q \/ i = n
  <2>1. /\ \A i \in DOMAIN q : t[i] = q[i] /\ i \in DOMAIN t /\ i < n
        /\ t[n] = b /\ n \in DOMAIN t /\ DOMAIN q = 1 .. Len(q) /\ Len(q) \in Nat
        /\ \A i \in DOMAIN t : i \in DOMAIN q \/ i = n
    BY AppendedQueue
  <2>2. \A i \in DOMAIN q : n > i
    BY <2>1
  <2> QED
    BY <2>1, <2>2
<1> HIDE DEF t, n
<1>2. b.what = "changed" /\ b.user = user => EndsWith(t, user) /\ ~Silent(t)
  BY <1>1 DEF EndsWith, Silent
<1>3. b.what # "changed" /\ EndsWith(q, user) => EndsWith(t, user)
  BY <1>1 DEF EndsWith
<1>4. b.what # "changed" => (Silent(t) <=> Silent(q))
  BY <1>1 DEF Silent
<1> QED
  BY <1>2, <1>3, <1>4 DEF t

LEMMA EndOfTail ==
  ASSUME NEW q \in Seq(Block), q # <<>>, NEW user, EndsWith(q, user)
  PROVE  /\ EndsWith(Tail(q), user)
         /\ Head(q).what # "changed" => (Silent(Tail(q)) <=> Silent(q))
         /\ Head(q).what = "changed" /\ Silent(Tail(q)) => Head(q).user = user
<1> DEFINE t == Tail(q)
<1>1. /\ Head(q) = q[1] /\ 1 \in DOMAIN q
      /\ \A i \in DOMAIN t : t[i] = q[i + 1] /\ i + 1 \in DOMAIN q
      /\ \A i \in DOMAIN q : i # 1 => i - 1 \in DOMAIN t /\ (i - 1) + 1 = i
      /\ \A i, j \in DOMAIN t : j > i <=> j + 1 > i + 1
  BY TailOfQueue
<1>2. \A i \in DOMAIN q : i \in Nat \ {0}
  OBVIOUS
<1>3. \A i \in DOMAIN t, j \in DOMAIN q : j > i + 1 => j # 1 /\ j - 1 > i
  <2>1. \A i \in DOMAIN t : i \in Nat \ {0}
    BY TailOfQueue
  <2> QED
    BY <1>2, <2>1
<1> HIDE DEF t
<1>4. ASSUME NEW i \in DOMAIN t, t[i].what = "changed", \A j \in DOMAIN t : j > i => t[j].what # "changed"
      PROVE  t[i].user = user
  <2>1. q[i + 1].what = "changed" /\ i + 1 \in DOMAIN q /\ t[i] = q[i + 1]
    BY <1>1, <1>4
  <2>2. ASSUME NEW j \in DOMAIN q, j > i + 1 PROVE q[j].what # "changed"
    <3>1. j - 1 \in DOMAIN t /\ j - 1 > i /\ t[j - 1] = q[j]
      BY <1>1, <1>3, <2>2
    <3> QED
      BY <1>4, <3>1
  <2> QED
    BY <2>1, <2>2 DEF EndsWith
<1>5. Head(q).what # "changed" => (Silent(t) <=> Silent(q))
  <2>1. Silent(q) => Silent(t)
    BY <1>1 DEF Silent
  <2>2. ASSUME q[1].what # "changed", Silent(t), NEW i \in DOMAIN q PROVE q[i].what # "changed"
    <3>1. CASE i = 1
      BY <2>2, <3>1
    <3>2. CASE i # 1
      <4>1. i - 1 \in DOMAIN t /\ t[i - 1] = q[i]
        BY <1>1, <3>2
      <4> QED
        BY <2>2, <4>1 DEF Silent
    <3> QED
      BY <3>1, <3>2
  <2> QED
    BY <1>1, <2>1, <2>2 DEF Silent
<1>6. ASSUME q[1].what = "changed", Silent(t) PROVE q[1].user = user
  <2>1. ASSUME NEW j \in DOMAIN q, j > 1 PROVE q[j].what # "changed"
    <3>1. j - 1 \in DOMAIN t /\ t[j - 1] = q[j]
      BY <1>1, <1>2, <2>1
    <3> QED
      BY <1>6, <3>1 DEF Silent
  <2> QED
    BY <1>1, <1>6, <2>1 DEF EndsWith
<1>7. EndsWith(t, user)
  BY <1>4 DEF EndsWith
<1> QED
  BY <1>1, <1>5, <1>6, <1>7 DEF t

LEMMA EndOfReplaced ==
  ASSUME NEW q \in Seq(Block), q # <<>>, NEW b \in Block, NEW user,
         b.what # "changed", Head(q).what # "changed", EndsWith(q, user)
  PROVE  EndsWith(<<b>> \o Tail(q), user) /\ (Silent(<<b>> \o Tail(q)) <=> Silent(q))
<1> DEFINE t == <<b>> \o Tail(q)
<1>1. /\ DOMAIN t = DOMAIN q /\ t[1] = b /\ 1 \in DOMAIN q
      /\ \A i \in DOMAIN q : i # 1 => t[i] = q[i]
  BY ReplacedHead
<1>2. Head(q) = q[1]
  BY TailOfQueue
<1> HIDE DEF t
<1>3. \A i \in DOMAIN q : /\ t[i].what = "changed" <=> q[i].what = "changed"
                          /\ t[i].what = "changed" => t[i].user = q[i].user
  BY <1>1, <1>2
<1>4. EndsWith(t, user)
  BY <1>1, <1>3 DEF EndsWith
<1>5. Silent(t) <=> Silent(q)
  BY <1>1, <1>3 DEF Silent
<1> QED
  BY <1>4, <1>5 DEF t

-----------------------------------------------------------------------------
(* Where the completions are.                                              *)
LEMMA HeraldedAppended ==
  ASSUME NEW q \in Seq(Block), NEW b \in Block, NEW store, AllHeralded(q, store),
         b.what # "done" \/ b.user = None
  PROVE  AllHeralded(Append(q, b), store)
<1> DEFINE t == Append(q, b)
<1>1. /\ \A i \in DOMAIN q : t[i] = q[i]
      /\ t[Len(q) + 1] = b
      /\ \A i \in DOMAIN t : i \in DOMAIN q \/ i = Len(q) + 1
      /\ DOMAIN q = 1 .. Len(q) /\ Len(q) \in Nat
  BY AppendedQueue
<1>2. \A i \in DOMAIN q : i # 1 => i - 1 \in DOMAIN q
  BY <1>1
<1> HIDE DEF t
<1>3. ASSUME NEW i \in DOMAIN t, t[i].what = "done" /\ t[i].user # None PROVE Heralded(t, i, store)
  <2>1. i \in DOMAIN q /\ t[i] = q[i]
    BY <1>1, <1>3
  <2>2. Heralded(q, i, store)
    BY <1>3, <2>1 DEF AllHeralded
  <2>3. i # 1 => t[i - 1] = q[i - 1]
    BY <1>1, <1>2, <2>1
  <2> QED
    BY <2>1, <2>2, <2>3 DEF Heralded
<1> QED
  BY <1>3 DEF AllHeralded, t

LEMMA HeraldedCompletion ==
  ASSUME NEW q \in Seq(Block), NEW b \in Block, NEW c \in Block, NEW store, AllHeralded(q, store),
         b.what = "changed", b.user = c.user
  PROVE  AllHeralded(Append(Append(q, b), c), store)
<1> DEFINE t == Append(q, b)
           u == Append(t, c)
<1>1. t \in Seq(Block) /\ AllHeralded(t, store)
  BY AppendedQueue, HeraldedAppended
<1>2. t[Len(q) + 1] = b /\ Len(t) = Len(q) + 1 /\ Len(q) \in Nat /\ DOMAIN t = 1 .. Len(t)
  BY <1>1, AppendedQueue
<1> HIDE DEF t
<1>3. /\ \A i \in DOMAIN t : u[i] = t[i]
      /\ u[Len(t) + 1] = c
      /\ \A i \in DOMAIN u : i \in DOMAIN t \/ i = Len(t) + 1
  BY <1>1, AppendedQueue
<1> HIDE DEF u
<1>4. \A i \in DOMAIN t : i # 1 => i - 1 \in DOMAIN t
  BY <1>2
<1>5. ASSUME NEW i \in DOMAIN u, u[i].what = "done" /\ u[i].user # None PROVE Heralded(u, i, store)
  <2>1. CASE i \in DOMAIN t
    <3>1. Heralded(t, i, store) /\ u[i] = t[i]
      BY <1>1, <1>3, <1>5, <2>1 DEF AllHeralded
    <3>2. i # 1 => u[i - 1] = t[i - 1]
      BY <1>3, <1>4, <2>1
    <3> QED
      BY <3>1, <3>2 DEF Heralded
  <2>2. CASE i = Len(t) + 1
    <3>1. i - 1 = Len(q) + 1 /\ i - 1 \in DOMAIN t /\ i # 1
      BY <1>2, <2>2
    <3>2. u[i - 1] = b /\ u[i] = c
      BY <1>2, <1>3, <2>2, <3>1
    <3> QED
      BY <3>1, <3>2 DEF Heralded
  <2> QED
    BY <1>3, <2>1, <2>2
<1> QED
  BY <1>5 DEF AllHeralded, t, u

LEMMA HeraldedTail ==
  ASSUME NEW q \in Seq(Block), q # <<>>, NEW store, NEW next, AllHeralded(q, store),
         Head(q).what = "changed" => next \in {"closed", Head(q).user}
  PROVE  AllHeralded(Tail(q), next)
<1> DEFINE t == Tail(q)
<1>1. /\ Head(q) = q[1]
      /\ \A i \in DOMAIN t : /\ t[i] = q[i + 1] /\ i + 1 \in DOMAIN q
                             /\ i \in Nat /\ i + 1 # 1
                             /\ (i # 1 => i - 1 \in DOMAIN t /\ (i - 1) + 1 = i)
  BY TailOfQueue
<1> HIDE DEF t
<1>2. ASSUME NEW i \in DOMAIN t, t[i].what = "done" /\ t[i].user # None PROVE Heralded(t, i, next)
  <2>1. t[i] = q[i + 1] /\ i + 1 \in DOMAIN q /\ i + 1 # 1 /\ (i + 1) - 1 = i
    BY <1>1
  <2>2. q[i].what = "changed" /\ q[i].user = q[i + 1].user
    BY <1>2, <2>1 DEF AllHeralded, Heralded
  <2>3. CASE i = 1
    BY <1>1, <2>1, <2>2, <2>3 DEF Heralded
  <2>4. CASE i # 1
    <3>1. t[i - 1] = q[i]
      BY <1>1, <2>4
    <3> QED
      BY <2>1, <2>2, <2>4, <3>1 DEF Heralded
  <2> QED
    BY <2>3, <2>4
<1> QED
  BY <1>2 DEF AllHeralded, t

LEMMA HeraldedReplaced ==
  ASSUME NEW q \in Seq(Block), q # <<>>, NEW b \in Block, NEW store, NEW next, AllHeralded(q, store),
         b.what # "done", Head(q).what # "changed"
  PROVE  AllHeralded(<<b>> \o Tail(q), next)
<1> DEFINE t == <<b>> \o Tail(q)
<1>1. /\ DOMAIN t = DOMAIN q /\ t[1] = b /\ \A i \in DOMAIN q : i # 1 => t[i] = q[i]
  BY ReplacedHead
<1>2. Head(q) = q[1] /\ DOMAIN q = 1 .. Len(q) /\ Len(q) \in Nat
  BY TailOfQueue
<1> HIDE DEF t
<1>3. ASSUME NEW i \in DOMAIN t, t[i].what = "done" /\ t[i].user # None PROVE Heralded(t, i, next)
  <2>1. i # 1 /\ i \in DOMAIN q /\ t[i] = q[i] /\ i - 1 \in DOMAIN q
    BY <1>1, <1>2, <1>3
  <2>2. q[i - 1].what = "changed" /\ q[i - 1].user = q[i].user
    BY <1>3, <2>1 DEF AllHeralded, Heralded
  <2>3. i - 1 # 1
    BY <1>2, <2>2
  <2> QED
    BY <1>1, <2>1, <2>2, <2>3 DEF Heralded
<1> QED
  BY <1>3 DEF AllHeralded, t

-----------------------------------------------------------------------------
LEMMA NewBlock ==
  ASSUME NEW r \in Request, NEW user \in Accounts \cup {None}
  PROVE  /\ Changed(user) \in Block /\ Done(r, user) \in Block
         /\ Failed(r) \in Block /\ Transition(r) \in Block
         /\ Changed(user).what = "changed" /\ Changed(user).user = user
         /\ Done(r, user).what = "done" /\ Done(r, user).user = user /\ Done(r, user).request = r
         /\ Failed(r).what = "failed" /\ Failed(r).user = None /\ Failed(r).request = r
         /\ Transition(r).what = "transition" /\ Transition(r).user = None /\ Transition(r).request = r
BY DEF Changed, Done, Failed, Transition, Block

LEMMA NewChange ==
  ASSUME NEW user \in Accounts \cup {None}
  PROVE  Changed(user) \in Block /\ Changed(user).what = "changed" /\ Changed(user).user = user
BY DEF Changed, Block

(* The steps, by what they do to the queue.                                *)
Refuses(r) == mainQueue' = Append(mainQueue, Failed(r)) /\ UNCHANGED <<currentUser, storeUser>>

Quiet == UNCHANGED <<mainQueue, currentUser, storeUser>>

Told == IF currentUser = None THEN mainQueue ELSE Append(mainQueue, Changed(None))

LEMMA SignedOut ==
  ASSUME SessionTypeOK
  PROVE  Told \in Seq(Block) /\ mainQueue \o SignOut = Told
<1>1. mainQueue \in Seq(Block)
  BY DEF SessionTypeOK
<1>2. CASE currentUser = None
  <2>1. mainQueue \o <<>> = mainQueue
    BY <1>1, ConcatEmptySeq
  <2> QED
    BY <1>1, <1>2, <2>1 DEF Told, SignOut
<1>3. CASE currentUser # None
  <2>1. Changed(None) \in Block
    BY NewChange
  <2>2. /\ Append(mainQueue, Changed(None)) \in Seq(Block)
        /\ Append(mainQueue, Changed(None)) = mainQueue \o <<Changed(None)>>
    BY <1>1, <2>1, AppendedQueue, AppendIsConcat
  <2> QED
    BY <1>3, <2>2 DEF Told, SignOut
<1> QED
  BY <1>2, <1>3

LEMMA SignedOutThenDone ==
  ASSUME SessionTypeOK, NEW r \in requests
  PROVE  mainQueue \o SignOut \o <<Done(r, None)>> = Append(Told, Done(r, None))
<1>1. Done(r, None) \in Block
  <2>1. r \in Request
    BY DEF SessionTypeOK
  <2> QED
    BY <2>1, NewBlock
<1>2. Append(Told, Done(r, None)) = Told \o <<Done(r, None)>>
  BY <1>1, SignedOut, AppendIsConcat
<1> QED
  BY <1>2, SignedOut

LEMMA StepKinds ==
  ASSUME SessionTypeOK, [SessionNext]_sessionVars
  PROVE  \/ Quiet
         \/ \E r \in requests : Refuses(r)
         \/ \E r \in requests :
              /\ r.accepted /\ currentUser' = r.account /\ UNCHANGED storeUser
              /\ mainQueue' = Append(Append(mainQueue, Changed(r.account)), Done(r, r.account))
         \/ \E r \in requests :
              /\ r.accepted /\ r.kind = "signup" /\ currentUser' = None /\ UNCHANGED storeUser
              /\ mainQueue' = Append(Told, Done(r, None))
         \/ currentUser' = None /\ UNCHANGED storeUser /\ mainQueue' = Told
         \/ AuthStateDidChange \/ Complains \/ LoggedIn \/ SignedUp \/ TransitionToHome
         \/ Relaunch
<1>1. /\ mainQueue \in Seq(Block) /\ requests \subseteq Request
      /\ \A r \in requests : r.account \in Accounts
  BY DEF SessionTypeOK, Request
<1>2. mainQueue \o SignOut = Told
  BY SignedOut
<1>3. CASE \E screen \in {"entry", "login", "signup"} : Show(screen)
  BY <1>3 DEF Show, Quiet
<1>4. CASE \E a \in Accounts :
             LogIn(a) \/ Disable(a) \/ \E password \in Passwords : SignUp(a, password)
  BY <1>4 DEF LogIn, Disable, SignUp, Call, Quiet, screenVars
<1>5. CASE \E password \in Passwords : SignUpWithoutDate(password)
  BY <1>5 DEF SignUpWithoutDate, Quiet, screenVars
<1>6. ASSUME NEW r \in requests, CallProceeds(r)
      PROVE  \/ Quiet
             \/ Refuses(r)
             \/ /\ r.accepted /\ currentUser' = r.account /\ UNCHANGED storeUser
                /\ mainQueue' = Append(Append(mainQueue, Changed(r.account)), Done(r, r.account))
             \/ /\ r.accepted /\ r.kind = "signup" /\ currentUser' = None /\ UNCHANGED storeUser
                /\ mainQueue' = Append(Told, Done(r, None))
  <2>1. CASE ServerAccepts(r)
    BY <2>1 DEF ServerAccepts, Quiet, screenVars
  <2>2. CASE FirstExchangeFails(r)
    BY <2>2 DEF FirstExchangeFails, Refuses, screenVars
  <2>3. CASE AccountInfoArrives(r)
    <3>1. /\ mainQueue' = mainQueue \o <<Changed(r.account), Done(r, r.account)>>
          /\ r.accepted /\ currentUser' = r.account /\ UNCHANGED storeUser
      BY <2>3 DEF AccountInfoArrives, screenVars
    <3>2. Changed(r.account) \in Block /\ Done(r, r.account) \in Block
      BY <1>1, NewBlock
    <3> QED
      BY <1>1, <3>1, <3>2, TwoAppended
  <2>4. CASE LoginInfoFails(r)
    BY <2>4 DEF LoginInfoFails, Refuses, screenVars
  <2>5. CASE SignUpInfoFails(r)
    <3>1. /\ mainQueue' = mainQueue \o SignOut \o <<Done(r, None)>>
          /\ r.accepted /\ r.kind = "signup" /\ currentUser' = None /\ UNCHANGED storeUser
      BY <2>5 DEF SignUpInfoFails, screenVars
    <3> QED
      BY <3>1, SignedOutThenDone
  <2>6. CASE KeychainFails(r)
    BY <2>6 DEF KeychainFails, Refuses, screenVars
  <2> QED
    BY <1>6, <2>1, <2>2, <2>3, <2>4, <2>5, <2>6 DEF CallProceeds
<1>7. CASE TokenIsInvalid
  <2>1. mainQueue' = mainQueue \o SignOut /\ currentUser' = None /\ UNCHANGED storeUser
    BY <1>7 DEF TokenIsInvalid, screenVars
  <2> QED
    BY <1>2, <2>1
<1>8. CASE SignedUpNobody
  BY <1>8 DEF SignedUpNobody, Quiet, screenVars
<1>9. CASE UNCHANGED sessionVars
  BY <1>9 DEF sessionVars, Quiet
<1> QED
  BY <1>3, <1>4, <1>5, <1>6, <1>7, <1>8, <1>9 DEF SessionNext, MainStep

LEMMA ToldIsSound ==
  ASSUME SessionTypeOK, StoreInv, DoneInv
  PROVE  /\ Told \in Seq(Block) /\ EndsWith(Told, None) /\ AllHeralded(Told, storeUser)
         /\ Silent(Told) => Silent(mainQueue) /\ currentUser = None
<1>1. mainQueue \in Seq(Block) /\ EndsWith(mainQueue, currentUser) /\ AllHeralded(mainQueue, storeUser)
  BY DEF SessionTypeOK, StoreInv, DoneInv
<1>2. CASE currentUser = None
  BY <1>1, <1>2 DEF Told
<1>3. CASE currentUser # None
  <2> DEFINE b == Changed(None)
             t == Append(mainQueue, b)
  <2>1. b \in Block /\ b.what = "changed" /\ b.user = None
    BY NewChange
  <2> HIDE DEF b
  <2>2. t \in Seq(Block)
    BY <1>1, <2>1, AppendedQueue
  <2>3. EndsWith(t, None) /\ ~Silent(t)
    BY <1>1, <2>1, EndOfAppended
  <2>4. AllHeralded(t, storeUser)
    BY <1>1, <2>1, HeraldedAppended
  <2>5. Told = t
    BY <1>3 DEF Told, b
  <2> HIDE DEF t
  <2> QED
    BY <2>2, <2>3, <2>4, <2>5
<1> QED
  BY <1>2, <1>3

LEMMA LoadedIsSound ==
  ASSUME NEW user \in Accounts \cup {None}, NEW store
  PROVE  /\ Loaded(user) \in Seq(Block) /\ EndsWith(Loaded(user), user) /\ AllHeralded(Loaded(user), store)
         /\ \A i \in DOMAIN Loaded(user) : Loaded(user)[i].what = "changed"
<1>1. Changed(user) \in Block /\ Changed(user).what = "changed" /\ Changed(user).user = user
  BY NewChange
<1>2. CASE user = None
  <2>1. Loaded(user) = <<>>
    BY <1>2 DEF Loaded
  <2> QED
    BY <2>1 DEF EndsWith, AllHeralded
<1>3. CASE user # None
  <2> DEFINE b == Changed(user)
  <2> HIDE DEF b
  <2>1. Loaded(user) = <<b>>
    BY <1>3 DEF Loaded, b
  <2>2. <<b>> \in Seq(Block) /\ \A i \in DOMAIN <<b>> : <<b>>[i] = b
    BY <1>1 DEF b
  <2>3. EndsWith(<<b>>, user) /\ \A i \in DOMAIN <<b>> : <<b>>[i].what = "changed"
    BY <1>1, <2>2 DEF EndsWith, b
  <2>4. AllHeralded(<<b>>, store)
    BY <2>3 DEF AllHeralded
  <2> QED
    BY <2>1, <2>2, <2>3, <2>4
<1> QED
  BY <1>2, <1>3

(* Firestore and the notifications.                                        *)
LEMMA StoreStep ==
  ASSUME SessionInv, [SessionNext]_sessionVars
  PROVE  StoreInv'
<1>1. /\ mainQueue \in Seq(Block) /\ requests \subseteq Request /\ currentUser \in Accounts \cup {None}
      /\ SessionTypeOK /\ StoreInv /\ DoneInv /\ EndsWith(mainQueue, currentUser)
      /\ (storeUser # "closed" /\ Silent(mainQueue) => storeUser = currentUser)
  BY DEF SessionInv, SessionTypeOK, StoreInv
<1>2. \A r \in requests : r.account \in Accounts /\ r \in Request
  BY <1>1 DEF Request
<1>3. CASE Quiet
  BY <1>1, <1>3 DEF Quiet, StoreInv
<1>4. ASSUME NEW r \in requests, Refuses(r) PROVE StoreInv'
  <2>1. Failed(r) \in Block /\ Failed(r).what # "changed"
    BY <1>2, NewBlock
  <2>2. /\ EndsWith(Append(mainQueue, Failed(r)), currentUser)
        /\ Silent(Append(mainQueue, Failed(r))) <=> Silent(mainQueue)
    BY <1>1, <2>1, EndOfAppended
  <2>3. /\ mainQueue' = Append(mainQueue, Failed(r))
        /\ currentUser' = currentUser /\ storeUser' = storeUser
    BY <1>4 DEF Refuses
  <2> QED
    BY <1>1, <2>2, <2>3 DEF StoreInv
<1>5. ASSUME NEW r \in requests, currentUser' = r.account, UNCHANGED storeUser,
             mainQueue' = Append(Append(mainQueue, Changed(r.account)), Done(r, r.account))
      PROVE  StoreInv'
  <2> DEFINE t == Append(mainQueue, Changed(r.account))
             u == Append(t, Done(r, r.account))
  <2>1. /\ Changed(r.account) \in Block /\ Changed(r.account).what = "changed"
        /\ Changed(r.account).user = r.account
        /\ Done(r, r.account) \in Block /\ Done(r, r.account).what # "changed"
    BY <1>2, NewBlock
  <2>2. t \in Seq(Block) /\ EndsWith(t, r.account) /\ ~Silent(t)
    BY <1>1, <2>1, AppendedQueue, EndOfAppended
  <2> HIDE DEF t
  <2>3. EndsWith(u, r.account) /\ ~Silent(u)
    BY <2>1, <2>2, EndOfAppended
  <2>4. mainQueue' = u
    BY <1>5 DEF t, u
  <2> QED
    BY <1>5, <2>3, <2>4 DEF StoreInv
<1>6. ASSUME NEW r \in requests, currentUser' = None, UNCHANGED storeUser,
             mainQueue' = Append(Told, Done(r, None))
      PROVE  StoreInv'
  <2>1. Done(r, None) \in Block /\ Done(r, None).what # "changed"
    BY <1>2, NewBlock
  <2>2. /\ Told \in Seq(Block) /\ EndsWith(Told, None)
        /\ Silent(Told) => Silent(mainQueue) /\ currentUser = None
    BY <1>1, ToldIsSound
  <2>3. /\ EndsWith(Append(Told, Done(r, None)), None)
        /\ Silent(Append(Told, Done(r, None))) <=> Silent(Told)
    BY <2>1, <2>2, EndOfAppended
  <2> QED
    BY <1>1, <1>6, <2>2, <2>3 DEF StoreInv
<1>7. CASE currentUser' = None /\ UNCHANGED storeUser /\ mainQueue' = Told
  <2>1. EndsWith(Told, None) /\ (Silent(Told) => Silent(mainQueue) /\ currentUser = None)
    BY <1>1, ToldIsSound
  <2> QED
    BY <1>1, <1>7, <2>1 DEF StoreInv
<1>8. CASE AuthStateDidChange
  <2>1. /\ mainQueue # <<>> /\ Head(mainQueue).what = "changed" /\ mainQueue' = Tail(mainQueue)
        /\ storeUser' = (IF storeUser = "closed" THEN storeUser ELSE Head(mainQueue).user)
        /\ currentUser' = currentUser
    BY <1>8 DEF AuthStateDidChange, NextBlock
  <2>2. /\ EndsWith(Tail(mainQueue), currentUser)
        /\ Silent(Tail(mainQueue)) => Head(mainQueue).user = currentUser
    BY <1>1, <2>1, EndOfTail
  <2> QED
    BY <2>1, <2>2 DEF StoreInv
<1>9. CASE Complains \/ TransitionToHome
  <2>1. /\ mainQueue # <<>> /\ Head(mainQueue).what # "changed" /\ mainQueue' = Tail(mainQueue)
        /\ storeUser' = storeUser /\ currentUser' = currentUser
    BY <1>9 DEF Complains, TransitionToHome, NextBlock, screenVars
  <2>2. /\ EndsWith(Tail(mainQueue), currentUser)
        /\ Silent(Tail(mainQueue)) <=> Silent(mainQueue)
    BY <1>1, <2>1, EndOfTail
  <2> QED
    BY <1>1, <2>1, <2>2 DEF StoreInv
<1>10. CASE LoggedIn \/ SignedUp
  <2> DEFINE r == Head(mainQueue).request
             t == <<Transition(r)>> \o Tail(mainQueue)
  <2>1. /\ mainQueue # <<>> /\ Head(mainQueue).what = "done" /\ mainQueue' = t
        /\ storeUser' = (IF storeUser = "closed" THEN currentUser ELSE storeUser)
        /\ currentUser' = currentUser
    BY <1>10 DEF LoggedIn, SignedUp, NextBlock, OpenedFor
  <2>2. r \in Request
    BY <1>1, <2>1, TailOfQueue DEF SessionInv, BlocksOK, BlockOK, BlockFits
  <2>3. Transition(r) \in Block /\ Transition(r).what # "changed"
    BY <2>2, NewBlock
  <2> HIDE DEF r
  <2>4. EndsWith(t, currentUser) /\ (Silent(t) <=> Silent(mainQueue))
    BY <1>1, <2>1, <2>3, EndOfReplaced
  <2> HIDE DEF t
  <2> QED
    BY <1>1, <2>1, <2>4 DEF StoreInv
<1>11. CASE Relaunch
  <2>1. mainQueue' = Loaded(currentUser) /\ currentUser' = currentUser /\ storeUser' = "closed"
    BY <1>11 DEF Relaunch
  <2>2. EndsWith(Loaded(currentUser), currentUser)
    BY <1>1, LoadedIsSound
  <2> QED
    BY <2>1, <2>2 DEF StoreInv
<1> QED
  BY <1>1, <1>3, <1>4, <1>5, <1>6, <1>7, <1>8, <1>9, <1>10, <1>11, StepKinds

(* The completions, each behind its notification.                          *)
LEMMA DoneStep ==
  ASSUME SessionInv, [SessionNext]_sessionVars
  PROVE  DoneInv'
<1>1. /\ mainQueue \in Seq(Block) /\ requests \subseteq Request /\ currentUser \in Accounts \cup {None}
      /\ SessionTypeOK /\ StoreInv /\ DoneInv /\ AllHeralded(mainQueue, storeUser)
  BY DEF SessionInv, SessionTypeOK, DoneInv
<1>2. \A r \in requests : r.account \in Accounts /\ r \in Request
  BY <1>1 DEF Request
<1>3. CASE Quiet
  BY <1>1, <1>3 DEF Quiet, DoneInv
<1>4. ASSUME NEW r \in requests, Refuses(r) PROVE DoneInv'
  <2>1. Failed(r) \in Block /\ Failed(r).what # "done"
    BY <1>2, NewBlock
  <2>2. AllHeralded(Append(mainQueue, Failed(r)), storeUser)
    BY <1>1, <2>1, HeraldedAppended
  <2> QED
    BY <1>4, <2>2 DEF Refuses, DoneInv
<1>5. ASSUME NEW r \in requests, UNCHANGED storeUser,
             mainQueue' = Append(Append(mainQueue, Changed(r.account)), Done(r, r.account))
      PROVE  DoneInv'
  <2>1. /\ Changed(r.account) \in Block /\ Changed(r.account).what = "changed"
        /\ Done(r, r.account) \in Block /\ Changed(r.account).user = Done(r, r.account).user
    BY <1>2, NewBlock
  <2>2. AllHeralded(Append(Append(mainQueue, Changed(r.account)), Done(r, r.account)), storeUser)
    BY <1>1, <2>1, HeraldedCompletion
  <2> QED
    BY <1>5, <2>2 DEF DoneInv
<1>6. ASSUME NEW r \in requests, UNCHANGED storeUser, mainQueue' = Append(Told, Done(r, None))
      PROVE  DoneInv'
  <2>1. Done(r, None) \in Block /\ Done(r, None).user = None
    BY <1>2, NewBlock
  <2>2. Told \in Seq(Block) /\ AllHeralded(Told, storeUser)
    BY <1>1, ToldIsSound
  <2>3. AllHeralded(Append(Told, Done(r, None)), storeUser)
    BY <2>1, <2>2, HeraldedAppended
  <2> QED
    BY <1>6, <2>3 DEF DoneInv
<1>7. CASE UNCHANGED storeUser /\ mainQueue' = Told
  <2>1. AllHeralded(Told, storeUser)
    BY <1>1, ToldIsSound
  <2> QED
    BY <1>7, <2>1 DEF DoneInv
<1>8. CASE AuthStateDidChange \/ Complains \/ TransitionToHome
  <2>1. /\ mainQueue # <<>> /\ mainQueue' = Tail(mainQueue)
        /\ Head(mainQueue).what = "changed" => storeUser' \in {"closed", Head(mainQueue).user}
    BY <1>8 DEF AuthStateDidChange, Complains, TransitionToHome, NextBlock
  <2>2. AllHeralded(Tail(mainQueue), storeUser')
    BY <1>1, <2>1, HeraldedTail
  <2> QED
    BY <2>1, <2>2 DEF DoneInv
<1>9. CASE LoggedIn \/ SignedUp
  <2> DEFINE r == Head(mainQueue).request
  <2>1. /\ mainQueue # <<>> /\ Head(mainQueue).what = "done"
        /\ mainQueue' = <<Transition(r)>> \o Tail(mainQueue)
    BY <1>9 DEF LoggedIn, SignedUp, NextBlock
  <2>2. r \in Request
    BY <1>1, <2>1, TailOfQueue DEF SessionInv, BlocksOK, BlockOK, BlockFits
  <2>3. Transition(r) \in Block /\ Transition(r).what # "done"
    BY <2>2, NewBlock
  <2> HIDE DEF r
  <2>4. AllHeralded(<<Transition(r)>> \o Tail(mainQueue), storeUser')
    BY <1>1, <2>1, <2>3, HeraldedReplaced
  <2> QED
    BY <2>1, <2>4 DEF DoneInv
<1>10. CASE Relaunch
  <2>1. mainQueue' = Loaded(currentUser)
    BY <1>10 DEF Relaunch
  <2>2. AllHeralded(Loaded(currentUser), storeUser')
    BY <1>1, LoadedIsSound
  <2> QED
    BY <2>1, <2>2 DEF DoneInv
<1> QED
  BY <1>1, <1>3, <1>4, <1>5, <1>6, <1>7, <1>8, <1>9, <1>10, StepKinds

(* The completion that is next.                                            *)
LEMMA HeadStep ==
  ASSUME SessionInv, [SessionNext]_sessionVars
  PROVE  HeadInv'
<1>1. /\ mainQueue \in Seq(Block) /\ requests \subseteq Request /\ currentUser \in Accounts \cup {None}
      /\ SessionTypeOK /\ EndsWith(mainQueue, currentUser) /\ AllHeralded(mainQueue, storeUser)
      /\ NextIsCurrent(mainQueue, currentUser)
  BY DEF SessionInv, SessionTypeOK, StoreInv, DoneInv, HeadInv
<1>2. \A r \in requests : r.account \in Accounts /\ r \in Request
  BY <1>1 DEF Request
<1>3. CASE Quiet
  BY <1>1, <1>3 DEF Quiet, HeadInv
<1>4. ASSUME NEW q \in Seq(Block), NextIsCurrent(q, currentUser),
             NEW b \in Block, b.what = "done" => b.user = None
      PROVE  NextIsCurrent(Append(q, b), currentUser)
  <2>1. CASE q = <<>>
    <3>1. Append(q, b)[1] = b
      BY <2>1
    <3> QED
      BY <1>4, <3>1 DEF NextIsCurrent
  <2>2. CASE q # <<>>
    <3>1. 1 \in DOMAIN q
      BY <2>2, TailOfQueue
    <3>2. Append(q, b)[1] = q[1]
      BY <3>1, AppendedQueue
    <3>3. Silent(Append(q, b)) => Silent(q)
      <4>1. \A i \in DOMAIN q : Append(q, b)[i] = q[i] /\ i \in DOMAIN Append(q, b)
        BY AppendedQueue
      <4> QED
        BY <4>1 DEF Silent
    <3> QED
      BY <1>4, <2>2, <3>2, <3>3 DEF NextIsCurrent
  <2> QED
    BY <2>1, <2>2
<1>5. ASSUME NEW q \in Seq(Block), NEW b \in Block, b.what = "changed" PROVE ~Silent(Append(q, b))
  BY <1>5, AppendedQueue DEF Silent
<1>6. ASSUME NEW q \in Seq(Block), NEW b \in Block, ~Silent(q) PROVE ~Silent(Append(q, b))
  <2>1. \A i \in DOMAIN q : Append(q, b)[i] = q[i] /\ i \in DOMAIN Append(q, b)
    BY AppendedQueue
  <2> QED
    BY <1>6, <2>1 DEF Silent
<1>7. ASSUME NEW r \in requests, Refuses(r) PROVE HeadInv'
  <2>1. Failed(r) \in Block /\ Failed(r).what # "done"
    BY <1>2, NewBlock
  <2>2. NextIsCurrent(Append(mainQueue, Failed(r)), currentUser)
    BY <1>1, <1>4, <2>1
  <2> QED
    BY <1>7, <2>2 DEF Refuses, HeadInv
<1>8. ASSUME NEW r \in requests,
             mainQueue' = Append(Append(mainQueue, Changed(r.account)), Done(r, r.account))
      PROVE  HeadInv'
  <2>1. /\ Changed(r.account) \in Block /\ Changed(r.account).what = "changed"
        /\ Done(r, r.account) \in Block
    BY <1>2, NewBlock
  <2>2. Append(mainQueue, Changed(r.account)) \in Seq(Block)
    BY <1>1, <2>1, AppendedQueue
  <2>3. ~Silent(mainQueue')
    BY <1>1, <1>5, <1>6, <1>8, <2>1, <2>2
  <2> QED
    BY <2>3 DEF HeadInv, NextIsCurrent
<1>9. Told \in Seq(Block) /\ (~Silent(Told) \/ (Told = mainQueue /\ currentUser = None))
  <2>1. Changed(None) \in Block /\ Changed(None).what = "changed"
    BY NewChange
  <2>2. ~Silent(Append(mainQueue, Changed(None)))
    BY <1>1, <1>5, <2>1
  <2> QED
    BY <1>1, <2>2, SignedOut DEF Told
<1>10. ASSUME NEW r \in requests, currentUser' = None, mainQueue' = Append(Told, Done(r, None))
       PROVE  HeadInv'
  <2>1. Done(r, None) \in Block /\ Done(r, None).user = None
    BY <1>2, NewBlock
  <2>2. CASE ~Silent(Told)
    <3>1. ~Silent(mainQueue')
      BY <1>6, <1>9, <1>10, <2>1, <2>2
    <3> QED
      BY <3>1 DEF HeadInv, NextIsCurrent
  <2>3. CASE Told = mainQueue /\ currentUser = None
    <3>1. NextIsCurrent(Append(mainQueue, Done(r, None)), currentUser)
      BY <1>1, <1>4, <2>1
    <3> QED
      BY <1>10, <2>3, <3>1 DEF HeadInv
  <2> QED
    BY <1>9, <2>2, <2>3
<1>11. CASE currentUser' = None /\ mainQueue' = Told
  BY <1>1, <1>9, <1>11 DEF HeadInv, NextIsCurrent
<1>12. CASE AuthStateDidChange \/ Complains \/ TransitionToHome
  <2>1. mainQueue # <<>> /\ mainQueue' = Tail(mainQueue) /\ UNCHANGED currentUser
    BY <1>12 DEF AuthStateDidChange, Complains, TransitionToHome, NextBlock
  <2> SUFFICES ASSUME Tail(mainQueue) # <<>>, Tail(mainQueue)[1].what = "done",
                      Tail(mainQueue)[1].user # None, Silent(Tail(mainQueue))
               PROVE  Tail(mainQueue)[1].user = currentUser
    BY <2>1 DEF HeadInv, NextIsCurrent
  <2>2. PICK t \in Seq(Block) : t = Tail(mainQueue)
    BY <1>1, <2>1, TailOfQueue
  <2>3. 1 \in DOMAIN t
    BY <2>2, TailOfQueue
  <2>4. t[1] = mainQueue[2] /\ 2 \in DOMAIN mainQueue /\ 1 \in DOMAIN mainQueue
    <3>1. t[1] = mainQueue[1 + 1] /\ 1 + 1 \in DOMAIN mainQueue /\ 1 \in DOMAIN mainQueue
      BY <1>1, <2>1, <2>2, <2>3, TailOfQueue
    <3> QED
      BY <3>1
  <2>5. Heralded(mainQueue, 2, storeUser)
    BY <1>1, <2>2, <2>4 DEF AllHeralded
  <2>6. mainQueue[1].what = "changed" /\ mainQueue[1].user = t[1].user
    <3>1. 2 - 1 = 1 /\ 2 # 1
      OBVIOUS
    <3> QED
      BY <2>4, <2>5, <3>1 DEF Heralded
  <2>7. \A j \in DOMAIN mainQueue : j > 1 => mainQueue[j].what # "changed"
    <3> SUFFICES ASSUME NEW j \in DOMAIN mainQueue, j > 1 PROVE mainQueue[j].what # "changed"
      OBVIOUS
    <3>1. j # 1
      OBVIOUS
    <3>2. j - 1 \in DOMAIN t /\ (j - 1) + 1 = j
      BY <1>1, <2>1, <2>2, <3>1, TailOfQueue
    <3>3. t[j - 1] = mainQueue[j]
      <4>1. \A i \in DOMAIN t : t[i] = mainQueue[i + 1]
        BY <1>1, <2>1, <2>2, TailOfQueue
      <4> QED
        BY <3>2, <4>1
    <3> QED
      BY <2>2, <3>2, <3>3 DEF Silent
  <2>8. mainQueue[1].user = currentUser
    BY <1>1, <2>4, <2>6, <2>7 DEF EndsWith
  <2> QED
    BY <2>2, <2>6, <2>8
<1>13. CASE LoggedIn \/ SignedUp
  <2> DEFINE r == Head(mainQueue).request
  <2>1. /\ mainQueue # <<>> /\ Head(mainQueue).what = "done"
        /\ mainQueue' = <<Transition(r)>> \o Tail(mainQueue)
    BY <1>13 DEF LoggedIn, SignedUp, NextBlock
  <2>2. r \in Request
    BY <1>1, <2>1, TailOfQueue DEF SessionInv, BlocksOK, BlockOK, BlockFits
  <2>3. Transition(r) \in Block /\ Transition(r).what # "done"
    BY <2>2, NewBlock
  <2> HIDE DEF r
  <2>4. mainQueue'[1] = Transition(r)
    BY <1>1, <2>1, <2>3, ReplacedHead
  <2> QED
    BY <2>3, <2>4 DEF HeadInv, NextIsCurrent
<1>14. CASE Relaunch
  <2>1. mainQueue' = <<>> \/ mainQueue' = <<Changed(currentUser)>>
    BY <1>14 DEF Relaunch, Loaded
  <2>2. Changed(currentUser).what = "changed"
    BY <1>1, NewChange
  <2>3. mainQueue' # <<>> => mainQueue'[1].what # "done"
    BY <2>1, <2>2
  <2> QED
    BY <2>3 DEF HeadInv, NextIsCurrent
<1> QED
  BY <1>1, <1>3, <1>7, <1>8, <1>10, <1>11, <1>12, <1>13, <1>14, StepKinds

-----------------------------------------------------------------------------
(* The server, the calls and the screens.                                  *)
ServerOK ==
  /\ registered \subseteq Accounts /\ disabled \subseteq registered
  /\ requests \subseteq Request /\ made \in 0 .. MaxRequests
  /\ \A r \in requests : r.accepted => r.account \in registered
  /\ interrupted \subseteq Accounts /\ overlapped \in BOOLEAN

ScreensOK ==
  /\ visible \in {"entry", "login", "signup", "home"} /\ visit \in 0 .. MaxVisits + 1
  /\ visible # "home" => visit <= MaxVisits
  /\ homeUser \in Accounts \cup {None}
  /\ trap \in {"no", "birthDate", "noUser", "noDocument"}

LEMMA InvGivesParts == SessionInv => ServerOK /\ ScreensOK
BY DEF SessionInv, SessionTypeOK, BlocksOK, ServerOK, ScreensOK

Grows == registered \subseteq registered' /\ disabled \subseteq disabled'

LEMMA CallIsSound ==
  ASSUME SessionInv, NEW kind \in {"login", "signup"}, NEW account \in Accounts,
         Call(kind, account), trap' = trap, visible # "home"
  PROVE  ServerOK' /\ ScreensOK' /\ Grows
<1>1. ServerOK /\ ScreensOK /\ MaxRequests \in Nat /\ MaxVisits \in Nat
  BY InvGivesParts, SessionAssumption
<1>2. made' \in 1 .. MaxRequests /\ made' \in 0 .. MaxRequests /\ visit \in 0 .. MaxVisits
  <2>1. made \in 0 .. MaxRequests /\ made < MaxRequests /\ made' = made + 1
        /\ visit \in 0 .. MaxVisits + 1 /\ visit <= MaxVisits
    BY <1>1 DEF ServerOK, ScreensOK, Call
  <2> QED
    BY <1>1, <2>1
<1> DEFINE new == [id |-> made', kind |-> kind, account |-> account, visit |-> visit, accepted |-> FALSE]
<1>3. new \in Request /\ new.accepted = FALSE
  BY <1>2 DEF Request
<1>4. /\ requests' = requests \cup {new} /\ overlapped' \in BOOLEAN
      /\ UNCHANGED <<serverVars, visible, visit, homeUser, filed, interrupted>>
  BY <1>1 DEF Call, ServerOK
<1> HIDE DEF new
<1>5. ServerOK'
  BY <1>1, <1>2, <1>3, <1>4 DEF ServerOK, serverVars
<1>6. ScreensOK'
  BY <1>1, <1>4 DEF ScreensOK
<1> QED
  BY <1>4, <1>5, <1>6 DEF Grows, serverVars

(* A call proceeds: it is accepted, or it is answered and gone.            *)
LEMMA ProceedingIsSound ==
  ASSUME SessionInv, NEW r \in requests, CallProceeds(r)
  PROVE  /\ ServerOK' /\ ScreensOK' /\ Grows /\ UNCHANGED <<profiles, filed, visible>>
<1>1. ServerOK /\ ScreensOK /\ r \in Request /\ r.account \in Accounts
  BY InvGivesParts DEF ServerOK, Request
<1>2. CASE ServerAccepts(r)
  <2> DEFINE new == [r EXCEPT !.accepted = TRUE]
  <2>1. new \in Request /\ new.account = r.account
    BY <1>1 DEF Request
  <2> HIDE DEF new
  <2>2. /\ requests' = (requests \ {r}) \cup {new} /\ registered' = registered \cup {r.account}
        /\ UNCHANGED <<disabled, historyVars, screenVars, made, trap>>
    BY <1>2 DEF ServerAccepts, new
  <2>3. ServerOK'
    BY <1>1, <2>1, <2>2 DEF ServerOK, historyVars
  <2> QED
    BY <1>1, <2>2, <2>3 DEF ScreensOK, Grows, screenVars
<1>3. CASE FirstExchangeFails(r)
  <2>1. /\ requests' \subseteq requests /\ registered \subseteq registered'
        /\ registered' \subseteq Accounts /\ interrupted' \subseteq Accounts
        /\ UNCHANGED <<disabled, screenVars, made, trap, overlapped>>
    BY <1>1, <1>3 DEF FirstExchangeFails, ServerOK
  <2> QED
    BY <1>1, <2>1 DEF ServerOK, ScreensOK, Grows, screenVars
<1>4. CASE AccountInfoArrives(r) \/ LoginInfoFails(r)
  <2>1. /\ requests' \subseteq requests /\ UNCHANGED <<serverVars, historyVars, screenVars, made, trap>>
    BY <1>4 DEF AccountInfoArrives, LoginInfoFails
  <2> QED
    BY <1>1, <2>1 DEF ServerOK, ScreensOK, Grows, screenVars, serverVars, historyVars
<1>5. CASE SignUpInfoFails(r) \/ KeychainFails(r)
  <2>1. /\ requests' \subseteq requests /\ interrupted' \subseteq interrupted \cup {r.account}
        /\ UNCHANGED <<serverVars, screenVars, made, trap, filed, overlapped>>
    BY <1>5 DEF SignUpInfoFails, KeychainFails
  <2> QED
    BY <1>1, <2>1 DEF ServerOK, ScreensOK, Grows, screenVars, serverVars
<1> QED
  BY <1>2, <1>3, <1>4, <1>5 DEF CallProceeds

LEMMA RestStep ==
  ASSUME SessionInv, [SessionNext]_sessionVars
  PROVE  ServerOK' /\ ScreensOK' /\ Grows /\ (SignedUp \/ UNCHANGED <<profiles, filed>>)
<1>1. ServerOK /\ ScreensOK /\ MaxVisits \in Nat /\ currentUser \in Accounts \cup {None}
  BY InvGivesParts, SessionAssumption DEF SessionInv, SessionTypeOK
<1>2. ASSUME NEW screen \in {"entry", "login", "signup"}, Show(screen)
      PROVE  ServerOK' /\ ScreensOK' /\ Grows /\ UNCHANGED <<profiles, filed>>
  <2>1. visit' \in 0 .. MaxVisits + 1 /\ visit' <= MaxVisits
    <3>1. visit \in 0 .. MaxVisits + 1 /\ visit < MaxVisits /\ visit' = visit + 1
      BY <1>1, <1>2 DEF ScreensOK, Show
    <3> QED
      BY <1>1, <3>1
  <2>2. visible' \in {"entry", "login", "signup"}
        /\ UNCHANGED <<serverVars, historyVars, profiles, requests, made, homeUser, trap>>
    BY <1>2 DEF Show
  <2>3. ScreensOK'
    BY <1>1, <2>1, <2>2 DEF ScreensOK
  <2> QED
    BY <1>1, <2>2, <2>3 DEF ServerOK, Grows, serverVars, historyVars
<1>3. ASSUME NEW a \in Accounts, LogIn(a) \/ \E password \in Passwords : SignUp(a, password)
      PROVE  ServerOK' /\ ScreensOK' /\ Grows /\ UNCHANGED <<profiles, filed>>
  <2>1. PICK kind \in {"login", "signup"} : Call(kind, a)
    BY <1>3 DEF LogIn, SignUp
  <2>2. trap' = trap /\ visible # "home"
    BY <1>3 DEF LogIn, SignUp
  <2> QED
    BY <2>1, <2>2, CallIsSound DEF Call
<1>4. ASSUME NEW a \in Accounts, Disable(a)
      PROVE  ServerOK' /\ ScreensOK' /\ Grows /\ UNCHANGED <<profiles, filed>>
  <2>1. /\ disabled' = disabled \cup {a} /\ a \in registered
        /\ UNCHANGED <<registered, historyVars, screenVars, requests, made, trap>>
    BY <1>4 DEF Disable
  <2> QED
    BY <1>1, <2>1 DEF ServerOK, ScreensOK, Grows, screenVars, historyVars
<1>5. ASSUME NEW password \in Passwords, SignUpWithoutDate(password)
      PROVE  ServerOK' /\ ScreensOK' /\ Grows /\ UNCHANGED <<profiles, filed>>
  <2>1. trap' = "birthDate" /\ UNCHANGED <<serverVars, historyVars, screenVars, requests, made>>
    BY <1>5 DEF SignUpWithoutDate
  <2> QED
    BY <1>1, <2>1 DEF ServerOK, ScreensOK, Grows, serverVars, historyVars, screenVars
<1>6. ASSUME NEW r \in requests, CallProceeds(r)
      PROVE  ServerOK' /\ ScreensOK' /\ Grows /\ UNCHANGED <<profiles, filed>>
  BY <1>6, ProceedingIsSound
<1>7. CASE TokenIsInvalid \/ Complains
  <2>1. UNCHANGED <<serverVars, historyVars, screenVars, requests, made, trap>>
    BY <1>7 DEF TokenIsInvalid, Complains
  <2> QED
    BY <1>1, <2>1 DEF ServerOK, ScreensOK, Grows, serverVars, historyVars, screenVars
<1>8. CASE AuthStateDidChange \/ LoggedIn
  <2>1. UNCHANGED <<serverVars, historyVars, profiles, requests, made, visible, visit, homeUser, trap>>
    BY <1>8 DEF AuthStateDidChange, LoggedIn
  <2> QED
    BY <1>1, <2>1 DEF ServerOK, ScreensOK, Grows, serverVars, historyVars
<1>9. ASSUME SignedUp PROVE ServerOK' /\ ScreensOK' /\ Grows
  <2>1. UNCHANGED <<serverVars, requests, made, visible, visit, homeUser, trap, overlapped, interrupted>>
    BY <1>9 DEF SignedUp
  <2> QED
    BY <1>1, <2>1 DEF ServerOK, ScreensOK, Grows, serverVars
<1>10. CASE SignedUpNobody
  <2>1. trap' = "noDocument" /\ UNCHANGED <<serverVars, historyVars, screenVars, requests, made>>
    BY <1>10 DEF SignedUpNobody
  <2> QED
    BY <1>1, <2>1 DEF ServerOK, ScreensOK, Grows, serverVars, historyVars, screenVars
<1>11. CASE TransitionToHome
  <2>1. UNCHANGED <<serverVars, historyVars, profiles, requests, made>>
    BY <1>11 DEF TransitionToHome
  <2>2. CASE UNCHANGED <<visible, visit, homeUser>> /\ trap' \in {trap, "noUser"}
    BY <1>1, <2>1, <2>2 DEF ServerOK, ScreensOK, Grows, serverVars, historyVars
  <2>3. CASE /\ visible' = "home" /\ visit' = visit + 1 /\ homeUser' = currentUser /\ trap' = trap
             /\ Head(mainQueue).request.visit = visit
    <3>1. visit \in 0 .. MaxVisits
      <4>1. mainQueue \in Seq(Block) /\ mainQueue # <<>> /\ Head(mainQueue).what = "transition"
        BY <1>11 DEF TransitionToHome, NextBlock, SessionInv, SessionTypeOK
      <4>2. Head(mainQueue).request \in Request
        BY <4>1, TailOfQueue DEF SessionInv, BlocksOK, BlockOK, BlockFits
      <4> QED
        BY <2>3, <4>2 DEF Request
    <3>2. visit' \in 0 .. MaxVisits + 1
      BY <1>1, <2>3, <3>1
    <3>3. ScreensOK'
      BY <1>1, <2>3, <3>2 DEF ScreensOK
    <3> QED
      BY <1>1, <2>1, <3>3 DEF ServerOK, Grows, serverVars, historyVars
  <2>4. \/ UNCHANGED <<visible, visit, homeUser>> /\ trap' \in {trap, "noUser"}
        \/ /\ visible' = "home" /\ visit' = visit + 1 /\ homeUser' = currentUser /\ trap' = trap
           /\ Head(mainQueue).request.visit = visit
    BY <1>11 DEF TransitionToHome
  <2> QED
    BY <2>1, <2>2, <2>3, <2>4
<1>12. CASE Relaunch
  <2>1. /\ requests' = {} /\ visible' = "entry" /\ visit' = visit + 1 /\ visit < MaxVisits
        /\ homeUser' = None /\ trap' = "no" /\ overlapped' = FALSE
        /\ UNCHANGED <<disabled, profiles, made, filed>>
    BY <1>12 DEF Relaunch
  <2>2. visit' \in 0 .. MaxVisits + 1 /\ visit' <= MaxVisits
    <3>1. visit \in 0 .. MaxVisits + 1
      BY <1>1 DEF ScreensOK
    <3> QED
      BY <1>1, <2>1, <3>1
  <2>3. registered \subseteq registered' /\ registered' \subseteq Accounts
    <3>1. \A r \in requests : r.account \in Accounts
      BY <1>1 DEF ServerOK, Request
    <3> QED
      BY <1>1, <1>12, <3>1 DEF Relaunch, ServerOK
  <2>4. interrupted' \subseteq Accounts
    <3>1. \A r \in Request : r.account \in Accounts
      BY DEF Request
    <3>2. requests \subseteq Request /\ \A b \in ToSet(mainQueue) : b.what = "done" => b.request \in Request
      BY <1>1 DEF ServerOK, SessionInv, BlocksOK, BlockOK, BlockFits, ToSet
    <3>3. SignUpsUnderWay \subseteq Accounts
      BY <3>1, <3>2 DEF SignUpsUnderWay
    <3> QED
      BY <1>1, <1>12, <3>3 DEF Relaunch, ServerOK
  <2>5. ServerOK'
    BY <1>1, <2>1, <2>3, <2>4 DEF ServerOK
  <2>6. ScreensOK'
    BY <1>1, <2>1, <2>2 DEF ScreensOK
  <2> QED
    BY <2>1, <2>3, <2>5, <2>6 DEF Grows
<1>13. CASE UNCHANGED sessionVars
  BY <1>1, <1>13 DEF sessionVars, ServerOK, ScreensOK, Grows
<1> QED
  BY <1>2, <1>3, <1>4, <1>5, <1>6, <1>7, <1>8, <1>9, <1>10, <1>11, <1>12, <1>13
     DEF SessionNext, MainStep

-----------------------------------------------------------------------------
(* The blocks of the queue, and the users of Auth and Firestore.           *)
QueueOK ==
  /\ mainQueue \in Seq(Block)
  /\ currentUser \in Accounts \cup {None}
  /\ storeUser \in Accounts \cup {None, "closed"}
  /\ \A i \in DOMAIN mainQueue : BlockOK(mainQueue[i])

LEMMA InvGivesQueue == SessionInv => QueueOK
BY DEF SessionInv, SessionTypeOK, BlocksOK, QueueOK

(* A block fits the next state.                                            *)
FitsNext(b) == BlockFits(b, registered', storeUser')

LEMMA QueueAppended ==
  ASSUME NEW q \in Seq(Block), \A i \in DOMAIN q : FitsNext(q[i]),
         NEW b \in Block, FitsNext(b)
  PROVE  Append(q, b) \in Seq(Block) /\ \A i \in DOMAIN Append(q, b) : FitsNext(Append(q, b)[i])
<1> DEFINE t == Append(q, b)
<1>1. /\ t \in Seq(Block) /\ t[Len(q) + 1] = b
      /\ \A i \in DOMAIN q : t[i] = q[i]
      /\ \A i \in DOMAIN t : i \in DOMAIN q \/ i = Len(q) + 1
  BY AppendedQueue
<1> HIDE DEF t
<1>2. \A i \in DOMAIN t : FitsNext(t[i])
  BY <1>1
<1> QED
  BY <1>1, <1>2 DEF t

LEMMA QueueStep ==
  ASSUME SessionInv, [SessionNext]_sessionVars
  PROVE  QueueOK'
<1>1. /\ mainQueue \in Seq(Block) /\ currentUser \in Accounts \cup {None}
      /\ storeUser \in Accounts \cup {None, "closed"}
      /\ SessionTypeOK /\ requests \subseteq Request /\ Grows
      /\ \A i \in DOMAIN mainQueue : BlockOK(mainQueue[i])
      /\ \A r \in requests : r.accepted => r.account \in registered
  BY InvGivesQueue, RestStep DEF QueueOK, SessionInv, SessionTypeOK, BlocksOK
<1>2. \A r \in requests : r.account \in Accounts /\ r.kind \in {"login", "signup"} /\ r \in Request
  BY <1>1 DEF Request
<1>3. None \notin Accounts /\ \A a \in Accounts \cup {None} : a # "closed"
  BY SessionAssumption
<1>4. \A b : BlockOK(b) /\ (storeUser # "closed" => storeUser' # "closed") => FitsNext(b)
  BY <1>1 DEF BlockOK, BlockFits, FitsNext, Grows
<1>5. (storeUser # "closed" => storeUser' # "closed") =>
        \A i \in DOMAIN mainQueue : FitsNext(mainQueue[i])
  BY <1>1, <1>4
<1>6. CASE Quiet
  BY <1>1, <1>5, <1>6 DEF Quiet, QueueOK, BlockOK, FitsNext
<1>7. ASSUME NEW r \in requests, Refuses(r) PROVE QueueOK'
  <2>1. Failed(r) \in Block /\ FitsNext(Failed(r))
    BY <1>2, NewBlock DEF FitsNext, BlockFits
  <2>2. UNCHANGED <<currentUser, storeUser>> /\ mainQueue' = Append(mainQueue, Failed(r))
    BY <1>7 DEF Refuses
  <2>3. \A i \in DOMAIN mainQueue : FitsNext(mainQueue[i])
    BY <1>5, <2>2
  <2>4. /\ Append(mainQueue, Failed(r)) \in Seq(Block)
        /\ \A i \in DOMAIN Append(mainQueue, Failed(r)) : FitsNext(Append(mainQueue, Failed(r))[i])
    BY <1>1, <2>1, <2>3, QueueAppended
  <2> QED
    BY <1>1, <2>2, <2>4 DEF QueueOK, BlockOK, FitsNext
<1>8. ASSUME NEW r \in requests, r.accepted, currentUser' = r.account, UNCHANGED storeUser,
             mainQueue' = Append(Append(mainQueue, Changed(r.account)), Done(r, r.account))
      PROVE  QueueOK'
  <2>1. Changed(r.account) \in Block /\ FitsNext(Changed(r.account))
    BY <1>2, NewBlock DEF FitsNext, BlockFits
  <2>2. Done(r, r.account) \in Block /\ FitsNext(Done(r, r.account))
    <3>1. r.account \in registered' /\ r.account # None
      BY <1>1, <1>2, <1>3, <1>8 DEF Grows
    <3>2. /\ Done(r, r.account) \in Block /\ Done(r, r.account).what = "done"
          /\ Done(r, r.account).user = r.account /\ Done(r, r.account).request = r
      BY <1>2, NewBlock
    <3> QED
      BY <1>2, <3>1, <3>2 DEF FitsNext, BlockFits
  <2>3. \A i \in DOMAIN mainQueue : FitsNext(mainQueue[i])
    BY <1>5, <1>8
  <2> DEFINE t == Append(mainQueue, Changed(r.account))
             u == Append(t, Done(r, r.account))
  <2>4. t \in Seq(Block) /\ \A i \in DOMAIN t : FitsNext(t[i])
    BY <1>1, <2>1, <2>3, QueueAppended
  <2> HIDE DEF t
  <2>5. u \in Seq(Block) /\ \A i \in DOMAIN u : FitsNext(u[i])
    BY <2>2, <2>4, QueueAppended
  <2>6. mainQueue' = u
    BY <1>8 DEF t, u
  <2> HIDE DEF u
  <2>7. currentUser' \in Accounts \cup {None} /\ storeUser' = storeUser
    BY <1>2, <1>8
  <2> QED
    BY <1>1, <2>5, <2>6, <2>7 DEF QueueOK, BlockOK, FitsNext
<1>9. UNCHANGED storeUser => Told \in Seq(Block) /\ \A i \in DOMAIN Told : FitsNext(Told[i])
  <2> SUFFICES ASSUME UNCHANGED storeUser
               PROVE  Told \in Seq(Block) /\ \A i \in DOMAIN Told : FitsNext(Told[i])
    OBVIOUS
  <2>1. Changed(None) \in Block /\ FitsNext(Changed(None))
    BY NewChange DEF FitsNext, BlockFits
  <2>2. \A i \in DOMAIN mainQueue : FitsNext(mainQueue[i])
    BY <1>5
  <2> DEFINE t == Append(mainQueue, Changed(None))
  <2>3. t \in Seq(Block) /\ \A i \in DOMAIN t : FitsNext(t[i])
    BY <1>1, <2>1, <2>2, QueueAppended
  <2> HIDE DEF t
  <2>4. Told = mainQueue \/ Told = t
    BY DEF Told, t
  <2> QED
    BY <1>1, <2>2, <2>3, <2>4
<1>10. ASSUME NEW r \in requests, r.accepted, r.kind = "signup", currentUser' = None,
              UNCHANGED storeUser, mainQueue' = Append(Told, Done(r, None))
       PROVE  QueueOK'
  <2>1. Done(r, None) \in Block /\ FitsNext(Done(r, None))
    <3>1. r.account \in registered'
      BY <1>1, <1>10 DEF Grows
    <3>2. /\ Done(r, None) \in Block /\ Done(r, None).what = "done"
          /\ Done(r, None).user = None /\ Done(r, None).request = r
      BY <1>2, NewBlock
    <3> QED
      BY <1>2, <1>10, <3>1, <3>2 DEF FitsNext, BlockFits
  <2>2. Told \in Seq(Block) /\ \A i \in DOMAIN Told : FitsNext(Told[i])
    BY <1>9, <1>10
  <2>3. /\ Append(Told, Done(r, None)) \in Seq(Block)
        /\ \A i \in DOMAIN Append(Told, Done(r, None)) : FitsNext(Append(Told, Done(r, None))[i])
    BY <2>1, <2>2, QueueAppended
  <2> QED
    BY <1>1, <1>10, <2>3 DEF QueueOK, BlockOK, FitsNext
<1>11. CASE currentUser' = None /\ UNCHANGED storeUser /\ mainQueue' = Told
  <2>1. Told \in Seq(Block) /\ \A i \in DOMAIN Told : FitsNext(Told[i])
    BY <1>9, <1>11
  <2> QED
    BY <1>1, <1>11, <2>1 DEF QueueOK, BlockOK, FitsNext
<1>12. CASE AuthStateDidChange \/ Complains \/ TransitionToHome
  <2>1. /\ mainQueue # <<>> /\ mainQueue' = Tail(mainQueue) /\ currentUser' = currentUser
        /\ \/ storeUser' = storeUser
           \/ storeUser # "closed" /\ storeUser' = Head(mainQueue).user
    BY <1>12 DEF AuthStateDidChange, Complains, TransitionToHome, NextBlock, screenVars
  <2>2. /\ Tail(mainQueue) \in Seq(Block) /\ Head(mainQueue) \in Block
        /\ \A i \in DOMAIN Tail(mainQueue) : Tail(mainQueue)[i] = mainQueue[i + 1] /\ i + 1 \in DOMAIN mainQueue
    BY <1>1, <2>1, TailOfQueue
  <2>3. Head(mainQueue).user \in Accounts \cup {None}
    BY <2>2 DEF Block
  <2>4. storeUser' \in Accounts \cup {None, "closed"} /\ (storeUser # "closed" => storeUser' # "closed")
    BY <1>1, <1>3, <2>1, <2>3
  <2>5. \A i \in DOMAIN Tail(mainQueue) : FitsNext(Tail(mainQueue)[i])
    BY <1>5, <2>2, <2>4
  <2> QED
    BY <1>1, <2>1, <2>2, <2>4, <2>5 DEF QueueOK, BlockOK, FitsNext
<1>13. CASE LoggedIn \/ SignedUp
  <2> DEFINE r == Head(mainQueue).request
             t == <<Transition(r)>> \o Tail(mainQueue)
  <2>1. /\ mainQueue # <<>> /\ Head(mainQueue).what = "done"
        /\ mainQueue' = t /\ currentUser' = currentUser
        /\ storeUser' = IF storeUser = "closed" THEN currentUser ELSE storeUser
    BY <1>13 DEF LoggedIn, SignedUp, NextBlock, OpenedFor
  <2>2. storeUser' \in Accounts \cup {None} /\ storeUser' # "closed"
    BY <1>1, <1>3, <2>1
  <2>3. r \in Request
    BY <1>1, <2>1, TailOfQueue DEF BlockOK, BlockFits, FitsNext
  <2>4. Transition(r) \in Block /\ FitsNext(Transition(r))
    BY <2>2, <2>3, NewBlock DEF FitsNext, BlockFits
  <2> HIDE DEF r
  <2>5. /\ t \in Seq(Block) /\ DOMAIN t = DOMAIN mainQueue /\ t[1] = Transition(r)
        /\ \A i \in DOMAIN mainQueue : i # 1 => t[i] = mainQueue[i]
    BY <1>1, <2>1, <2>4, ReplacedHead
  <2> HIDE DEF t
  <2>6. \A i \in DOMAIN t : FitsNext(t[i])
    BY <1>5, <2>2, <2>4, <2>5
  <2> QED
    BY <1>1, <2>1, <2>2, <2>5, <2>6 DEF QueueOK, BlockOK, FitsNext
<1>14. CASE Relaunch
  <2>1. mainQueue' = Loaded(currentUser) /\ currentUser' = currentUser /\ storeUser' = "closed"
    BY <1>14 DEF Relaunch
  <2>2. /\ Loaded(currentUser) \in Seq(Block)
        /\ \A i \in DOMAIN Loaded(currentUser) : Loaded(currentUser)[i].what = "changed"
    BY <1>1, LoadedIsSound
  <2>3. \A i \in DOMAIN Loaded(currentUser) : FitsNext(Loaded(currentUser)[i])
    BY <2>2 DEF BlockOK, BlockFits, FitsNext
  <2> QED
    BY <1>1, <2>1, <2>2, <2>3 DEF QueueOK, BlockOK, FitsNext
<1> QED
  BY <1>1, <1>6, <1>7, <1>8, <1>10, <1>11, <1>12, <1>13, <1>14, StepKinds

(* The profiles: of an account that exists, under the user Firestore has.  *)
LEMMA ProfilesStep ==
  ASSUME SessionInv, [SessionNext]_sessionVars
  PROVE  /\ profiles' \subseteq registered'
         /\ filed' \subseteq [of : Accounts, under : Accounts \cup {None}, overtaken : BOOLEAN]
         /\ ProfilesAreFiledRightly'
<1>1. /\ Grows /\ QueueOK /\ profiles \subseteq registered /\ registered \subseteq Accounts
      /\ filed \subseteq [of : Accounts, under : Accounts \cup {None}, overtaken : BOOLEAN]
      /\ ProfilesAreFiledRightly /\ DoneInv
  BY InvGivesQueue, RestStep DEF SessionInv, SessionTypeOK
<1>2. CASE UNCHANGED <<profiles, filed>>
  BY <1>1, <1>2 DEF Grows, ProfilesAreFiledRightly
<1>3. CASE SignedUp
  <2> DEFINE b == Head(mainQueue)
             f == [of |-> b.user, under |-> OpenedFor,
                   overtaken |-> (storeUser = "closed" /\ ChangeIsBehind)]
  <2>1. /\ mainQueue # <<>> /\ b.what = "done" /\ b.user # None
        /\ profiles' = profiles \cup {b.user} /\ filed' = filed \cup {f}
    BY <1>3 DEF SignedUp, NextBlock
  <2>2. b = mainQueue[1] /\ 1 \in DOMAIN mainQueue /\ BlockOK(b) /\ b \in Block
    BY <1>1, <2>1, TailOfQueue DEF QueueOK
  <2>3. storeUser \in {"closed", b.user}
    BY <1>1, <2>1, <2>2 DEF DoneInv, AllHeralded, Heralded
  <2>4. ~ChangeIsBehind => Silent(mainQueue)
    <3> SUFFICES ASSUME ~ChangeIsBehind, NEW i \in DOMAIN mainQueue, i # 1
                 PROVE  mainQueue[i].what # "changed"
      BY <2>1, <2>2 DEF Silent
    <3>1. PICK t \in Seq(Block) : t = Tail(mainQueue)
      BY <1>1, <2>1, TailOfQueue DEF QueueOK
    <3>2. i - 1 \in DOMAIN t /\ (i - 1) + 1 = i
      BY <1>1, <2>1, <3>1, TailOfQueue DEF QueueOK
    <3>3. \A j \in DOMAIN t : t[j] = mainQueue[j + 1]
      BY <1>1, <2>1, <3>1, TailOfQueue DEF QueueOK
    <3>4. t[i - 1] = mainQueue[i]
      BY <3>2, <3>3
    <3> QED
      BY <3>1, <3>2, <3>4 DEF ChangeIsBehind, ToSet
  <2>5. ~ChangeIsBehind => b.user = currentUser
    BY <2>1, <2>2, <2>4 DEF SessionInv, HeadInv, NextIsCurrent
  <2> HIDE DEF b
  <2>6. b.user = b.request.account /\ b.user \in registered /\ b.user \in Accounts
    BY <1>1, <2>1, <2>2 DEF BlockOK, BlockFits, FitsNext
  <2>7. OpenedFor \in Accounts \cup {None}
    BY <1>1, <2>3, <2>6 DEF OpenedFor, QueueOK
  <2>8. OpenedFor = b.user \/ (storeUser = "closed" /\ ChangeIsBehind)
    BY <2>3, <2>5 DEF OpenedFor
  <2>9. f \in [of : Accounts, under : Accounts \cup {None}, overtaken : BOOLEAN]
    BY <2>6, <2>7
  <2>10. f.under = f.of \/ f.overtaken
    BY <2>8
  <2> HIDE DEF f
  <2> QED
    BY <1>1, <2>1, <2>6, <2>9, <2>10 DEF Grows, ProfilesAreFiledRightly
<1> QED
  BY <1>2, <1>3, RestStep

-----------------------------------------------------------------------------
(* One call at a time.                                                     *)
NoCalls(q) == \A i \in DOMAIN q : q[i].what = "changed"

LEMMA CallsAppended ==
  ASSUME NEW q \in Seq(Block), NEW b \in Block, NoCalls(q)
  PROVE  /\ \A i \in DOMAIN Append(q, b) :
              Append(q, b)[i].what # "changed" => i = Len(Append(q, b)) /\ Append(q, b)[i] = b
         /\ b.what = "changed" => NoCalls(Append(q, b))
<1> DEFINE t == Append(q, b)
<1>1. /\ Len(t) = Len(q) + 1 /\ t[Len(q) + 1] = b
      /\ \A i \in DOMAIN q : t[i] = q[i]
      /\ \A i \in DOMAIN t : i \in DOMAIN q \/ i = Len(q) + 1
  BY AppendedQueue
<1> HIDE DEF t
<1>2. \A i \in DOMAIN t : t[i].what # "changed" => i = Len(t) /\ t[i] = b
  BY <1>1 DEF NoCalls
<1>3. b.what = "changed" => NoCalls(t)
  BY <1>1 DEF NoCalls
<1> QED
  BY <1>2, <1>3 DEF t

(* The only call is answered: its block is the only one, and the last.     *)
LEMMA AnsweringIsCalm ==
  ASSUME SessionInv, Calm, Calm', NEW r \in requests, requests' = requests \ {r},
         UNCHANGED <<visible, trap>>,
         \/ Refuses(r)
         \/ /\ currentUser' = r.account
            /\ mainQueue' = Append(Append(mainQueue, Changed(r.account)), Done(r, r.account))
         \/ currentUser' = None /\ mainQueue' = Append(Told, Done(r, None))
  PROVE  CalmInv'
<1>1. /\ mainQueue \in Seq(Block) /\ r \in Request /\ r.account \in Accounts /\ requests' = {}
      /\ NoCalls(mainQueue) /\ visible' # "home" /\ trap' # "noUser"
  BY InvGivesQueue DEF SessionInv, SessionTypeOK, CalmInv, QueueOK, Request, NoCalls
<1>2. \A b \in Block : mainQueue' = Append(mainQueue, b) => mainQueue' \in Seq(Block)
  BY <1>1, AppendedQueue
<1>3. PICK q \in Seq(Block), b \in Block :
        /\ NoCalls(q) /\ mainQueue' = Append(q, b)
        /\ b.what # "transition" /\ (b.what = "done" => b.user = currentUser')
  <2>1. CASE Refuses(r)
    <3>1. Failed(r) \in Block /\ Failed(r).what = "failed"
      BY <1>1, NewBlock
    <3> QED
      BY <1>1, <2>1, <3>1 DEF Refuses
  <2>2. CASE /\ currentUser' = r.account
             /\ mainQueue' = Append(Append(mainQueue, Changed(r.account)), Done(r, r.account))
    <3>1. /\ Changed(r.account) \in Block /\ Changed(r.account).what = "changed"
          /\ Done(r, r.account) \in Block /\ Done(r, r.account).what = "done"
          /\ Done(r, r.account).user = r.account
      BY <1>1, NewBlock
    <3>2. Append(mainQueue, Changed(r.account)) \in Seq(Block)
          /\ NoCalls(Append(mainQueue, Changed(r.account)))
      BY <1>1, <3>1, AppendedQueue, CallsAppended
    <3> QED
      BY <2>2, <3>1, <3>2
  <2>3. CASE currentUser' = None /\ mainQueue' = Append(Told, Done(r, None))
    <3>1. /\ Changed(None) \in Block /\ Changed(None).what = "changed"
          /\ Done(r, None) \in Block /\ Done(r, None).what = "done" /\ Done(r, None).user = None
      BY <1>1, NewBlock
    <3>2. Append(mainQueue, Changed(None)) \in Seq(Block) /\ NoCalls(Append(mainQueue, Changed(None)))
      BY <1>1, <3>1, AppendedQueue, CallsAppended
    <3>3. Told \in Seq(Block) /\ NoCalls(Told)
      BY <1>1, <3>2 DEF Told
    <3> QED
      BY <2>3, <3>1, <3>3
  <2> QED
    BY <2>1, <2>2, <2>3
<1>4. \A i \in DOMAIN mainQueue' :
        mainQueue'[i].what # "changed" => i = Len(mainQueue') /\ mainQueue'[i] = b
  BY <1>3, CallsAppended
<1> QED
  BY <1>1, <1>3, <1>4 DEF CalmInv

LEMMA CalmStep ==
  ASSUME SessionInv, [SessionNext]_sessionVars
  PROVE  CalmInv'
<1> SUFFICES ASSUME Calm' PROVE CalmInv'
  BY DEF CalmInv
<1>1. CASE Relaunch
  <2>1. /\ mainQueue' = Loaded(currentUser) /\ requests' = {} /\ visible' = "entry" /\ trap' = "no"
        /\ currentUser \in Accounts \cup {None}
    BY <1>1, InvGivesQueue DEF Relaunch, QueueOK
  <2>2. \A i \in DOMAIN Loaded(currentUser) : Loaded(currentUser)[i].what = "changed"
    BY <2>1, LoadedIsSound
  <2> QED
    BY <2>1, <2>2 DEF CalmInv
<1> DEFINE
      Before == /\ \A r, s \in requests : r = s
                /\ \A i \in DOMAIN mainQueue :
                     mainQueue[i].what # "changed" => i = Len(mainQueue) /\ requests = {}
                /\ \A i \in DOMAIN mainQueue : mainQueue[i].what = "done" => mainQueue[i].user = currentUser
                /\ \A i \in DOMAIN mainQueue : mainQueue[i].what = "transition" => currentUser # None
                /\ visible = "home" => mainQueue = <<>> /\ requests = {}
                /\ visible = "home" => homeUser = currentUser /\ storeUser = currentUser
                /\ trap # "noUser"
<1>2. ASSUME ~overlapped PROVE Calm /\ Before
  <2>1. disabled = {}
    BY RestStep DEF Grows, Calm
  <2> QED
    BY <1>2, <2>1 DEF Calm, SessionInv, CalmInv
<1> HIDE DEF Before
<1>3. /\ mainQueue \in Seq(Block) /\ \A i \in DOMAIN mainQueue : BlockOK(mainQueue[i])
  BY InvGivesQueue DEF QueueOK
<1>4. ASSUME NEW screen \in {"entry", "login", "signup"}, Show(screen) PROVE CalmInv'
  <2>1. /\ Before /\ visible' # "home" /\ UNCHANGED <<mainQueue, requests, currentUser, trap>>
    BY <1>2, <1>4 DEF Show, Calm, historyVars
  <2> QED
    BY <2>1 DEF CalmInv, Before
<1>5. ASSUME NEW kind \in {"login", "signup"}, NEW a \in Accounts,
             Call(kind, a), trap' = trap, visible # "home"
      PROVE  CalmInv'
  <2>1. /\ ~overlapped /\ requests = {} /\ \A i \in DOMAIN mainQueue : mainQueue[i].what = "changed"
    BY <1>5 DEF Call, Calm, Pending
  <2>2. /\ \A r, s \in requests' : r = s
        /\ UNCHANGED <<mainQueue, visible>>
    BY <1>5, <2>1 DEF Call
  <2>3. trap' # "noUser"
    BY <1>2, <1>5, <2>1 DEF Before
  <2> QED
    BY <1>5, <2>1, <2>2, <2>3 DEF CalmInv
<1>6. ASSUME NEW a \in Accounts, Disable(a) PROVE CalmInv'
  BY <1>6 DEF Disable, Calm
<1>7. ASSUME NEW password \in Passwords, SignUpWithoutDate(password) PROVE CalmInv'
  <2>1. /\ Before /\ trap' = "birthDate"
        /\ UNCHANGED <<mainQueue, requests, currentUser, visible, homeUser, storeUser>>
    BY <1>2, <1>7 DEF SignUpWithoutDate, Calm, historyVars, screenVars
  <2> QED
    BY <2>1 DEF CalmInv, Before
<1>8. ASSUME NEW r \in requests, ServerAccepts(r) PROVE CalmInv'
  <2>1. /\ Before /\ requests' = (requests \ {r}) \cup {[r EXCEPT !.accepted = TRUE]}
        /\ UNCHANGED <<mainQueue, currentUser, visible, trap>>
    BY <1>2, <1>8 DEF ServerAccepts, Calm, historyVars, screenVars
  <2>2. /\ requests' = {[r EXCEPT !.accepted = TRUE]} /\ visible # "home" /\ trap # "noUser"
        /\ \A i \in DOMAIN mainQueue : mainQueue[i].what = "changed"
    BY <2>1 DEF Before
  <2> QED
    BY <2>1, <2>2 DEF CalmInv
<1>9. ASSUME NEW r \in requests, FirstExchangeFails(r) \/ LoginInfoFails(r) \/ KeychainFails(r)
      PROVE  CalmInv'
  <2>1. /\ ~overlapped /\ requests' = requests \ {r} /\ Refuses(r) /\ UNCHANGED <<visible, trap>>
    BY <1>9 DEF FirstExchangeFails, LoginInfoFails, KeychainFails, Refuses, Calm, historyVars, screenVars
  <2> QED
    BY <1>2, <2>1, AnsweringIsCalm
<1>10. ASSUME NEW r \in requests, AccountInfoArrives(r) PROVE CalmInv'
  <2>1. /\ ~overlapped /\ requests' = requests \ {r} /\ UNCHANGED <<visible, trap>>
        /\ currentUser' = r.account
        /\ mainQueue' = mainQueue \o <<Changed(r.account), Done(r, r.account)>>
    BY <1>10 DEF AccountInfoArrives, Calm, historyVars, screenVars
  <2>2. r \in Request /\ r.account \in Accounts \cup {None}
    BY DEF SessionInv, SessionTypeOK, Request
  <2>3. Changed(r.account) \in Block /\ Done(r, r.account) \in Block
    BY <2>2, NewBlock
  <2>4. mainQueue' = Append(Append(mainQueue, Changed(r.account)), Done(r, r.account))
    BY <1>3, <2>1, <2>3, TwoAppended
  <2> QED
    BY <1>2, <2>1, <2>4, AnsweringIsCalm
<1>11. ASSUME NEW r \in requests, SignUpInfoFails(r) PROVE CalmInv'
  <2>1. /\ ~overlapped /\ requests' = requests \ {r} /\ UNCHANGED <<visible, trap>>
        /\ currentUser' = None /\ mainQueue' = mainQueue \o SignOut \o <<Done(r, None)>>
    BY <1>11 DEF SignUpInfoFails, Calm, historyVars, screenVars
  <2>2. mainQueue' = Append(Told, Done(r, None))
    BY <1>3, <2>1, SignedOutThenDone DEF SessionInv
  <2> QED
    BY <1>2, <2>1, <2>2, AnsweringIsCalm
<1>12. CASE TokenIsInvalid
  <2>1. currentUser \in disabled /\ disabled' = disabled
    BY <1>12 DEF TokenIsInvalid, serverVars
  <2> QED
    BY <2>1 DEF Calm
<1>13. CASE AuthStateDidChange \/ Complains
  <2>1. /\ Before /\ mainQueue # <<>> /\ mainQueue' = Tail(mainQueue)
        /\ UNCHANGED <<requests, currentUser, visible, trap>>
    BY <1>2, <1>13 DEF AuthStateDidChange, Complains, NextBlock, Calm, historyVars, screenVars
  <2>2. /\ Len(Tail(mainQueue)) = Len(mainQueue) - 1 /\ Len(mainQueue) \in Nat
        /\ \A i \in DOMAIN Tail(mainQueue) :
             Tail(mainQueue)[i] = mainQueue[i + 1] /\ i + 1 \in DOMAIN mainQueue /\ i \in Nat
    BY <1>3, <2>1, TailOfQueue
  <2>3. \A i \in DOMAIN Tail(mainQueue) : i + 1 = Len(mainQueue) => i = Len(Tail(mainQueue))
    BY <2>2
  <2>4. visible # "home"
    BY <2>1 DEF Before
  <2> DEFINE t == Tail(mainQueue)
  <2> HIDE DEF t
  <2>5. /\ \A i \in DOMAIN t : t[i].what # "changed" => i = Len(t) /\ requests = {}
        /\ \A i \in DOMAIN t : t[i].what = "done" => t[i].user = currentUser
        /\ \A i \in DOMAIN t : t[i].what = "transition" => currentUser # None
    BY <2>1, <2>2, <2>3 DEF Before, t
  <2>6. mainQueue' = t
    BY <2>1 DEF t
  <2> QED
    BY <2>1, <2>4, <2>5, <2>6 DEF CalmInv, Before
<1>14. CASE LoggedIn \/ SignedUp
  <2> DEFINE b == Head(mainQueue)
             t == <<Transition(b.request)>> \o Tail(mainQueue)
  <2>1. /\ Before /\ mainQueue # <<>> /\ b.what = "done" /\ mainQueue' = t
        /\ b.request.kind = "signup" => b.user # None
        /\ UNCHANGED <<requests, currentUser, visible, trap>>
    BY <1>2, <1>14 DEF LoggedIn, SignedUp, NextBlock, Calm, historyVars
  <2>2. b = mainQueue[1] /\ 1 \in DOMAIN mainQueue /\ BlockOK(b)
    BY <1>3, <2>1, TailOfQueue
  <2>3. Len(mainQueue) = 1 /\ requests = {} /\ b.user = currentUser /\ visible # "home" /\ trap # "noUser"
    BY <2>1, <2>2 DEF Before
  <2>4. currentUser # None /\ b.request \in Request
    BY <2>1, <2>2, <2>3 DEF BlockOK, BlockFits
  <2>5. /\ Transition(b.request) \in Block /\ Transition(b.request).what = "transition"
    BY <2>4, NewBlock
  <2> HIDE DEF b
  <2>6. t \in Seq(Block) /\ Len(t) = 1
    BY <1>3, <2>1, <2>3, <2>5, ReplacedHead
  <2>7. t[1] = Transition(b.request)
    BY <1>3, <2>1, <2>5, ReplacedHead
  <2> HIDE DEF t
  <2>8. \A i \in DOMAIN t : i = 1
    BY <2>6
  <2> QED
    BY <2>1, <2>3, <2>4, <2>5, <2>6, <2>7, <2>8 DEF CalmInv
<1>15. CASE SignedUpNobody
  <2>1. /\ Before /\ trap' = "noDocument"
        /\ UNCHANGED <<mainQueue, requests, currentUser, visible, homeUser, storeUser>>
    BY <1>2, <1>15 DEF SignedUpNobody, Calm, historyVars, screenVars
  <2> QED
    BY <2>1 DEF CalmInv, Before
<1>16. CASE TransitionToHome
  <2>1. /\ Before /\ mainQueue # <<>> /\ Head(mainQueue).what = "transition"
        /\ mainQueue' = Tail(mainQueue)
        /\ UNCHANGED <<requests, currentUser, storeUser>>
        /\ \/ UNCHANGED <<visible, trap>>
           \/ currentUser = None
           \/ visible' = "home" /\ homeUser' = currentUser /\ trap' = trap
    BY <1>2, <1>16 DEF TransitionToHome, NextBlock, Calm, historyVars
  <2>2. /\ Head(mainQueue) = mainQueue[1] /\ 1 \in DOMAIN mainQueue
        /\ Tail(mainQueue) \in Seq(Block) /\ Len(Tail(mainQueue)) = Len(mainQueue) - 1
    BY <1>3, <2>1, TailOfQueue
  <2>3. Len(mainQueue) = 1 /\ requests = {} /\ currentUser # None /\ visible # "home" /\ trap # "noUser"
    BY <2>1, <2>2 DEF Before
  <2>4. mainQueue' = <<>>
    BY <2>1, <2>2, <2>3, EmptySeq
  <2>5. storeUser = currentUser
    <3>1. storeUser # "closed"
      BY <1>3, <2>1, <2>2 DEF BlockOK, BlockFits
    <3>2. \A i \in DOMAIN mainQueue : i = 1
      BY <1>3, <2>3
    <3>3. Silent(mainQueue)
      BY <2>1, <2>2, <3>2 DEF Silent
    <3> QED
      BY <3>1, <3>3 DEF SessionInv, StoreInv
  <2>6. \A i \in DOMAIN <<>> : FALSE
    OBVIOUS
  <2> QED
    BY <2>1, <2>3, <2>4, <2>5, <2>6 DEF CalmInv
<1>17. CASE UNCHANGED sessionVars
  BY <1>17 DEF sessionVars, SessionInv, CalmInv, Calm
<1>18. CASE \E a \in Accounts :
              LogIn(a) \/ Disable(a) \/ \E password \in Passwords : SignUp(a, password)
  <2>1. PICK a \in Accounts :
          LogIn(a) \/ Disable(a) \/ \E password \in Passwords : SignUp(a, password)
    BY <1>18
  <2>2. CASE LogIn(a)
    BY <1>5, <2>2 DEF LogIn
  <2>3. CASE \E password \in Passwords : SignUp(a, password)
    BY <1>5, <2>3 DEF SignUp
  <2> QED
    BY <1>6, <2>1, <2>2, <2>3
<1>19. CASE \E r \in requests : CallProceeds(r)
  BY <1>8, <1>9, <1>10, <1>11, <1>19 DEF CallProceeds
<1> QED
  BY <1>1, <1>4, <1>7, <1>12, <1>13, <1>14, <1>15, <1>16, <1>17, <1>18, <1>19
     DEF SessionNext, MainStep

-----------------------------------------------------------------------------
(* A sign-up stays on record until its profile is written.                 *)
DoneFor(q, a) ==
  \E i \in DOMAIN q :
    q[i].what = "done" /\ q[i].request.kind = "signup" /\ q[i].request.account = a

LEMMA DoneForAppended ==
  ASSUME NEW q \in Seq(Block), NEW b \in Block, NEW a
  PROVE  /\ DoneFor(q, a) => DoneFor(Append(q, b), a)
         /\ b.what = "done" /\ b.request.kind = "signup" /\ b.request.account = a
              => DoneFor(Append(q, b), a)
<1> DEFINE t == Append(q, b)
<1>1. /\ t[Len(q) + 1] = b /\ Len(q) + 1 \in DOMAIN t
      /\ \A i \in DOMAIN q : t[i] = q[i] /\ i \in DOMAIN t
  BY AppendedQueue
<1> HIDE DEF t
<1>2. DoneFor(q, a) => DoneFor(t, a)
  BY <1>1 DEF DoneFor
<1>3. b.what = "done" /\ b.request.kind = "signup" /\ b.request.account = a => DoneFor(t, a)
  BY <1>1 DEF DoneFor
<1> QED
  BY <1>2, <1>3 DEF t

LEMMA DoneForTail ==
  ASSUME NEW q \in Seq(Block), q # <<>>, Head(q).what # "done", NEW a, DoneFor(q, a)
  PROVE  DoneFor(Tail(q), a)
<1>1. /\ Head(q) = q[1]
      /\ \A i \in DOMAIN Tail(q) : Tail(q)[i] = q[i + 1]
      /\ \A i \in DOMAIN q : i # 1 => i - 1 \in DOMAIN Tail(q) /\ (i - 1) + 1 = i
  BY TailOfQueue
<1>2. PICK i \in DOMAIN q :
        q[i].what = "done" /\ q[i].request.kind = "signup" /\ q[i].request.account = a
  BY DEF DoneFor
<1>3. i - 1 \in DOMAIN Tail(q) /\ Tail(q)[i - 1] = q[i]
  BY <1>1, <1>2
<1> QED
  BY <1>2, <1>3 DEF DoneFor

LEMMA DoneForReplaced ==
  ASSUME NEW q \in Seq(Block), q # <<>>, NEW b \in Block, NEW a, DoneFor(q, a)
  PROVE  \/ DoneFor(<<b>> \o Tail(q), a)
         \/ /\ Head(q).what = "done" /\ Head(q).request.kind = "signup"
            /\ Head(q).request.account = a
<1> DEFINE t == <<b>> \o Tail(q)
<1>1. /\ DOMAIN t = DOMAIN q /\ \A i \in DOMAIN q : i # 1 => t[i] = q[i]
  BY ReplacedHead
<1>2. Head(q) = q[1]
  BY TailOfQueue
<1> HIDE DEF t
<1>3. PICK i \in DOMAIN q :
        q[i].what = "done" /\ q[i].request.kind = "signup" /\ q[i].request.account = a
  BY DEF DoneFor
<1>4. i # 1 => DoneFor(t, a)
  BY <1>1, <1>3 DEF DoneFor
<1> QED
  BY <1>2, <1>3, <1>4 DEF t

LEMMA ToldKeepsDone ==
  ASSUME SessionTypeOK, NEW a
  PROVE  DoneFor(mainQueue, a) => DoneFor(Told, a)
<1>1. mainQueue \in Seq(Block) /\ Changed(None) \in Block
  BY NewChange DEF SessionTypeOK
<1>2. DoneFor(mainQueue, a) => DoneFor(Append(mainQueue, Changed(None)), a)
  BY <1>1, DoneForAppended
<1> QED
  BY <1>2 DEF Told

(* The calls that the server has accepted.                                 *)
AcceptedFor(calls, a) == \E r \in calls : r.kind = "signup" /\ r.accepted /\ r.account = a

LEMMA UnfiledIs == \A a : Unfiled(a) <=> AcceptedFor(requests, a) \/ DoneFor(mainQueue, a)
BY DEF Unfiled, AcceptedFor, DoneFor

Settled(a) == a \in profiles \/ a \in interrupted \/ AcceptedFor(requests, a) \/ DoneFor(mainQueue, a)

LEMMA SettledIs == SignUpInv <=> \A a \in registered : Settled(a)
BY UnfiledIs DEF SignUpInv, Settled

LEMMA SettledNext ==
  SignUpInv' <=> \A a \in registered' :
    a \in profiles' \/ a \in interrupted' \/ AcceptedFor(requests', a) \/ DoneFor(mainQueue', a)
BY DEF SignUpInv, Unfiled, AcceptedFor, DoneFor

LEMMA SignUpStep ==
  ASSUME SessionInv, [SessionNext]_sessionVars
  PROVE  SignUpInv'
<1> DEFINE SettledThen(a) == \/ a \in profiles' \/ a \in interrupted'
                             \/ AcceptedFor(requests', a) \/ DoneFor(mainQueue', a)
<1>1. /\ mainQueue \in Seq(Block) /\ \A i \in DOMAIN mainQueue : BlockOK(mainQueue[i])
      /\ \A r \in requests : r \in Request /\ r.account \in Accounts
      /\ SessionTypeOK /\ \A a \in registered : Settled(a)
  BY InvGivesQueue, SettledIs DEF QueueOK, SessionInv, SessionTypeOK, Request
<1> SUFFICES ASSUME NEW a \in registered' PROVE SettledThen(a)
  BY SettledNext
<1> HIDE DEF SettledThen
<1>2. ASSUME UNCHANGED <<registered, profiles, interrupted, requests, mainQueue>>
      PROVE  SettledThen(a)
  BY <1>1, <1>2 DEF Settled, SettledThen
<1>3. CASE \E screen \in {"entry", "login", "signup"} : Show(screen)
  BY <1>2, <1>3 DEF Show, serverVars, historyVars
<1>4. ASSUME NEW kind, NEW account, Call(kind, account) PROVE SettledThen(a)
  <2>1. /\ requests \subseteq requests' /\ UNCHANGED <<registered, profiles, interrupted, mainQueue>>
    BY <1>4 DEF Call, serverVars
  <2> QED
    BY <1>1, <2>1 DEF Settled, SettledThen, AcceptedFor
<1>5. ASSUME NEW b \in Accounts, Disable(b) PROVE SettledThen(a)
  BY <1>2, <1>5 DEF Disable, screenVars, historyVars
<1>6. CASE \E password \in Passwords : SignUpWithoutDate(password)
  BY <1>2, <1>6 DEF SignUpWithoutDate, serverVars, screenVars, historyVars
<1>7. ASSUME NEW r \in requests, ServerAccepts(r) PROVE SettledThen(a)
  <2> DEFINE new == [r EXCEPT !.accepted = TRUE]
  <2>1. new.accepted = TRUE /\ new.kind = r.kind /\ new.account = r.account /\ r.kind \in {"login", "signup"}
    BY <1>1 DEF Request
  <2> HIDE DEF new
  <2>2. /\ requests' = (requests \ {r}) \cup {new} /\ ~r.accepted /\ Acceptable(r)
        /\ registered' = registered \cup {r.account}
        /\ UNCHANGED <<profiles, interrupted, mainQueue>>
    BY <1>7 DEF ServerAccepts, new, screenVars, historyVars
  <2>3. AcceptedFor(requests, a) => AcceptedFor(requests', a)
    BY <2>2 DEF AcceptedFor
  <2>4. CASE a \in registered
    BY <1>1, <2>2, <2>3, <2>4 DEF Settled, SettledThen
  <2>5. CASE a \notin registered
    <3>1. a = r.account /\ r.kind = "signup"
      BY <2>1, <2>2, <2>5 DEF Acceptable
    <3>2. AcceptedFor(requests', a)
      BY <2>1, <2>2, <3>1 DEF AcceptedFor
    <3> QED
      BY <3>2 DEF SettledThen
  <2> QED
    BY <2>4, <2>5
<1>8. ASSUME NEW r \in requests, FirstExchangeFails(r) PROVE SettledThen(a)
  <2>1. /\ requests' = requests \ {r} /\ ~r.accepted /\ profiles' = profiles
        /\ interrupted \subseteq interrupted' /\ mainQueue' = Append(mainQueue, Failed(r))
        /\ a \in registered \/ a \in interrupted'
    BY <1>8 DEF FirstExchangeFails, screenVars
  <2>2. Failed(r) \in Block
    BY <1>1, NewBlock
  <2>3. AcceptedFor(requests, a) => AcceptedFor(requests', a)
    BY <2>1 DEF AcceptedFor
  <2>4. DoneFor(mainQueue, a) => DoneFor(mainQueue', a)
    BY <1>1, <2>1, <2>2, DoneForAppended
  <2> QED
    BY <1>1, <2>1, <2>3, <2>4 DEF Settled, SettledThen
<1>9. ASSUME NEW r \in requests, AccountInfoArrives(r) PROVE SettledThen(a)
  <2> DEFINE t == Append(mainQueue, Changed(r.account))
             u == Append(t, Done(r, r.account))
  <2>1. /\ Changed(r.account) \in Block /\ Done(r, r.account) \in Block
        /\ Done(r, r.account).what = "done" /\ Done(r, r.account).request = r
    BY <1>1, NewBlock
  <2>2. /\ requests' = requests \ {r} /\ UNCHANGED <<registered, profiles, interrupted>>
        /\ mainQueue' = u
    BY <1>1, <1>9, <2>1, TwoAppended DEF AccountInfoArrives, serverVars, historyVars, screenVars
  <2>3. t \in Seq(Block) /\ (DoneFor(mainQueue, a) => DoneFor(t, a))
    BY <1>1, <2>1, AppendedQueue, DoneForAppended
  <2> HIDE DEF t
  <2>4. /\ DoneFor(t, a) => DoneFor(u, a)
        /\ r.kind = "signup" /\ r.account = a => DoneFor(u, a)
    BY <2>1, <2>3, DoneForAppended
  <2>5. AcceptedFor(requests, a) => AcceptedFor(requests', a) \/ (r.kind = "signup" /\ r.account = a)
    BY <2>2 DEF AcceptedFor
  <2> HIDE DEF u
  <2> QED
    BY <1>1, <2>2, <2>3, <2>4, <2>5 DEF Settled, SettledThen
<1>10. ASSUME NEW r \in requests, LoginInfoFails(r) \/ KeychainFails(r) PROVE SettledThen(a)
  <2>1. /\ requests' = requests \ {r} /\ UNCHANGED <<registered, profiles>>
        /\ interrupted \subseteq interrupted' /\ mainQueue' = Append(mainQueue, Failed(r))
        /\ r.kind = "signup" => r.account \in interrupted'
    BY <1>10 DEF LoginInfoFails, KeychainFails, serverVars, historyVars, screenVars
  <2>2. Failed(r) \in Block
    BY <1>1, NewBlock
  <2>3. AcceptedFor(requests, a) => AcceptedFor(requests', a) \/ a \in interrupted'
    BY <2>1 DEF AcceptedFor
  <2>4. DoneFor(mainQueue, a) => DoneFor(mainQueue', a)
    BY <1>1, <2>1, <2>2, DoneForAppended
  <2> QED
    BY <1>1, <2>1, <2>3, <2>4 DEF Settled, SettledThen
<1>11. ASSUME NEW r \in requests, SignUpInfoFails(r) PROVE SettledThen(a)
  <2>1. /\ requests' = requests \ {r} /\ UNCHANGED <<registered, profiles>>
        /\ interrupted' = interrupted \cup {r.account}
        /\ mainQueue' = Append(Told, Done(r, None))
    BY <1>1, <1>11, SignedOutThenDone DEF SignUpInfoFails, serverVars, screenVars
  <2>2. AcceptedFor(requests, a) => AcceptedFor(requests', a) \/ a \in interrupted'
    BY <2>1 DEF AcceptedFor
  <2>3. DoneFor(mainQueue, a) => DoneFor(mainQueue', a)
    <3>1. Done(r, None) \in Block
      BY <1>1, NewBlock
    <3>2. DoneFor(Told, a) => DoneFor(Append(Told, Done(r, None)), a)
      BY <1>1, <3>1, SignedOut, DoneForAppended
    <3> QED
      BY <1>1, <2>1, <3>2, ToldKeepsDone
  <2> QED
    BY <1>1, <2>1, <2>2, <2>3 DEF Settled, SettledThen
<1>12. CASE TokenIsInvalid
  <2>1. mainQueue' = Told /\ UNCHANGED <<registered, profiles, interrupted, requests>>
    BY <1>1, <1>12, SignedOut DEF TokenIsInvalid, serverVars, historyVars, screenVars
  <2>2. DoneFor(mainQueue, a) => DoneFor(mainQueue', a)
    BY <1>1, <2>1, ToldKeepsDone
  <2> QED
    BY <1>1, <2>1, <2>2 DEF Settled, SettledThen
<1>13. CASE AuthStateDidChange \/ Complains \/ TransitionToHome
  <2>1. /\ mainQueue # <<>> /\ Head(mainQueue).what # "done" /\ mainQueue' = Tail(mainQueue)
        /\ UNCHANGED <<registered, profiles, interrupted, requests>>
    BY <1>13 DEF AuthStateDidChange, Complains, TransitionToHome, NextBlock,
                 serverVars, historyVars, screenVars
  <2>2. DoneFor(mainQueue, a) => DoneFor(mainQueue', a)
    BY <1>1, <2>1, DoneForTail
  <2> QED
    BY <1>1, <2>1, <2>2 DEF Settled, SettledThen
<1>14. CASE LoggedIn \/ SignedUp
  <2> DEFINE b == Head(mainQueue)
  <2>1. /\ mainQueue # <<>> /\ b.what = "done"
        /\ mainQueue' = <<Transition(b.request)>> \o Tail(mainQueue)
        /\ profiles \subseteq profiles' /\ UNCHANGED <<registered, interrupted, requests>>
        /\ b.request.kind = "signup" => b.user # None /\ b.user \in profiles'
    BY <1>14 DEF LoggedIn, SignedUp, NextBlock, serverVars, historyVars
  <2>2. BlockOK(b)
    BY <1>1, <2>1, TailOfQueue
  <2> HIDE DEF b
  <2>3. b.request \in Request /\ (b.request.kind = "signup" => b.request.account \in profiles')
    BY <2>1, <2>2 DEF BlockOK, BlockFits
  <2>4. Transition(b.request) \in Block
    BY <2>3, NewBlock
  <2>5. DoneFor(mainQueue, a) => DoneFor(mainQueue', a) \/ a \in profiles'
    BY <1>1, <2>1, <2>3, <2>4, DoneForReplaced DEF b
  <2> QED
    BY <1>1, <2>1, <2>5 DEF Settled, SettledThen
<1>15. CASE SignedUpNobody
  BY <1>2, <1>15 DEF SignedUpNobody, serverVars, historyVars, screenVars
<1>16. CASE Relaunch
  <2>1. PICK late \in SUBSET {r.account : r \in {q \in requests : ~q.accepted /\ q.kind = "signup"}} :
          registered' = registered \cup late
    BY <1>16 DEF Relaunch
  <2>2. interrupted' = interrupted \cup SignUpsUnderWay /\ profiles' = profiles
    BY <1>16 DEF Relaunch
  <2>3. AcceptedFor(requests, a) \/ DoneFor(mainQueue, a) => a \in SignUpsUnderWay
    BY DEF AcceptedFor, DoneFor, SignUpsUnderWay, ToSet
  <2>4. a \in late => a \in SignUpsUnderWay
    BY DEF SignUpsUnderWay
  <2> QED
    BY <1>1, <2>1, <2>2, <2>3, <2>4 DEF Settled, SettledThen
<1>17. CASE UNCHANGED sessionVars
  BY <1>2, <1>17 DEF sessionVars
<1>18. CASE \E b \in Accounts :
              LogIn(b) \/ Disable(b) \/ \E password \in Passwords : SignUp(b, password)
  BY <1>4, <1>5, <1>18 DEF LogIn, SignUp
<1>19. CASE \E r \in requests : CallProceeds(r)
  BY <1>7, <1>8, <1>9, <1>10, <1>11, <1>19 DEF CallProceeds
<1> QED
  BY <1>3, <1>6, <1>12, <1>13, <1>14, <1>15, <1>16, <1>17, <1>18, <1>19 DEF SessionNext, MainStep

-----------------------------------------------------------------------------
LEMMA SessionInitInv == SessionInit => SessionInv
<1> SUFFICES ASSUME SessionInit PROVE SessionInv
  OBVIOUS
<1>1. mainQueue = <<>> /\ DOMAIN mainQueue = {} /\ mainQueue \in Seq(Block)
  BY DEF SessionInit
<1>2. SessionTypeOK
  <2>1. visit \in 0 .. MaxVisits + 1 /\ made \in 0 .. MaxRequests
    BY SessionAssumption DEF SessionInit
  <2> QED
    BY <1>1, <2>1 DEF SessionInit, SessionTypeOK
<1>3. BlocksOK
  <2>1. visit <= MaxVisits
    BY SessionAssumption DEF SessionInit
  <2> QED
    BY <1>1, <2>1 DEF SessionInit, BlocksOK
<1>4. StoreInv /\ DoneInv /\ HeadInv
  BY <1>1 DEF SessionInit, StoreInv, EndsWith, DoneInv, AllHeralded, HeadInv, NextIsCurrent
<1>5. ProfilesAreFiledRightly /\ SignUpInv
  BY DEF SessionInit, ProfilesAreFiledRightly, SignUpInv
<1>6. CalmInv
  BY <1>1 DEF SessionInit, CalmInv
<1> QED
  BY <1>2, <1>3, <1>4, <1>5, <1>6 DEF SessionInv

LEMMA SessionStepInv ==
  ASSUME SessionInv, [SessionNext]_sessionVars
  PROVE  SessionInv'
<1>1. ServerOK' /\ ScreensOK' /\ QueueOK'
  BY RestStep, QueueStep
<1>2. /\ profiles' \subseteq registered'
      /\ filed' \subseteq [of : Accounts, under : Accounts \cup {None}, overtaken : BOOLEAN]
  BY ProfilesStep
<1>3. SessionTypeOK'
  BY <1>1, <1>2 DEF ServerOK, ScreensOK, QueueOK, SessionTypeOK
<1>4. BlocksOK'
  BY <1>1 DEF ServerOK, ScreensOK, QueueOK, BlocksOK
<1> QED
  BY <1>3, <1>4, StoreStep, DoneStep, HeadStep, ProfilesStep, CalmStep, SignUpStep DEF SessionInv

-----------------------------------------------------------------------------
(* What is true of the queue, the calls and the users holds always.        *)
THEOREM SessionInvariant == SessionSpec => []SessionInv
<1> QED
  BY SessionInitInv, SessionStepInv, PTL DEF SessionSpec

(* The state of the session is always well-formed.                         *)
THEOREM SessionTypeCorrect == SessionSpec => []SessionTypeOK
<1>1. SessionInv => SessionTypeOK
  BY DEF SessionInv
<1> QED
  BY <1>1, SessionInvariant, PTL

(***************************************************************************)
(* Firestore works for the user of Auth whenever no notification is on its *)
(* way, whatever order calls, sign-outs and restarts came in: the last     *)
(* notification in the queue is always that of the current user.           *)
(***************************************************************************)
THEOREM FirestoreFollowsAuth == SessionSpec => []StoreFollowsTheSignIn
<1>1. SessionInv => StoreFollowsTheSignIn
  BY DEF SessionInv, StoreInv, Silent, StoreFollowsTheSignIn
<1> QED
  BY <1>1, SessionInvariant, PTL

(***************************************************************************)
(* A profile goes into the queue of its own account: the block before a    *)
(* completion is the notification of its user, which an open Firestore has *)
(* heard when the completion runs, and which is the last change, so that   *)
(* the current user is the same, unless another one is still queued.       *)
(***************************************************************************)
THEOREM ProfilesGoToTheirQueue == SessionSpec => []ProfilesAreFiledRightly
<1>1. SessionInv => ProfilesAreFiledRightly
  BY DEF SessionInv
<1> QED
  BY <1>1, SessionInvariant, PTL

(***************************************************************************)
(* Home, Auth and Firestore agree on the user while calls do not overlap   *)
(* and nobody is signed out by force, and Home finds the user it unwraps.  *)
(***************************************************************************)
THEOREM HomeBelongsToTheUser == SessionSpec => []HomeIsTheirs
<1>1. SessionInv => HomeIsTheirs
  BY DEF SessionInv, CalmInv, Calm, HomeIsTheirs
<1> QED
  BY <1>1, SessionInvariant, PTL

(***************************************************************************)
(* An account without a profile is one whose sign-up is under way or was   *)
(* interrupted: no order of calls, completions and restarts loses a        *)
(* profile otherwise.                                                      *)
(***************************************************************************)
THEOREM NoProfileIsForgotten == SessionSpec => []AccountsHaveProfiles
<1>1. SessionInv => AccountsHaveProfiles
  <2> SUFFICES ASSUME SessionInv, NEW a \in registered
               PROVE  a \in profiles \cup interrupted \cup SignUpsUnderWay
    BY DEF AccountsHaveProfiles
  <2>1. Settled(a)
    BY SettledIs DEF SessionInv
  <2>2. AcceptedFor(requests, a) \/ DoneFor(mainQueue, a) => a \in SignUpsUnderWay
    BY DEF AcceptedFor, DoneFor, SignUpsUnderWay, ToSet
  <2> QED
    BY <2>1, <2>2 DEF Settled
<1> QED
  BY <1>1, SessionInvariant, PTL

===============================================================================
