-------------------------------- MODULE Session --------------------------------
(***************************************************************************)
(* Who is signed in: the entry, login and sign-up screens, Firebase Auth   *)
(* with its work queue, the main queue on which its notifications and      *)
(* completion blocks arrive, the user Firestore works for, and the user    *)
(* Home was loaded for.                                                    *)
(*                                                                         *)
(* Auth changes its current user on the work queue and then hands the main *)
(* queue two blocks, the notification and the completion.  The main thread *)
(* reads the current user while it runs earlier blocks, so it may see a    *)
(* user whose notification is still behind them.                           *)
(***************************************************************************)
EXTENDS Naturals, Sequences, FiniteSets, SequencesExt

CONSTANTS
  Accounts,     \* e-mail addresses, each standing for its uid, too
  Passwords,    \* what is typed: its length and the classes its characters are of
  None,
  MaxRequests,  \* bound: sign-ins and sign-ups in the model
  MaxVisits,    \* bound: screens shown
  MaxDisabled   \* bound: accounts the project's owner disables

ASSUME SessionAssumption ==
  /\ None \notin Accounts /\ "closed" \notin Accounts \cup {None}
  /\ MaxRequests \in Nat /\ MaxVisits \in Nat /\ MaxDisabled \in Nat

VARIABLES
  registered,   \* the server: the accounts that exist
  disabled,     \* the server: the accounts that may not be used any more
  profiles,     \* the accounts with a document in the collection "users"
  currentUser,  \* FIRAuth._currentUser, kept in the keychain
  requests,     \* signIn and createUser calls in flight
  made,         \* how many calls were made
  mainQueue,    \* the blocks Auth has dispatched to the main queue
  storeUser,    \* the user of Firestore's sync engine, "closed" before its first use
  visible,      \* "entry", "login", "signup" or "home"
  visit,        \* how many screens were shown
  homeUser,     \* self.user.id of Home
  trap,         \* why the process has ended, "no" while it runs
  filed,        \* history: whose profile was written for whom, and if a later change was ahead
  overlapped,   \* history: a call was made while another one was pending
  interrupted   \* history: the accounts whose sign-up did not come through

sessionVars == <<registered, disabled, profiles, currentUser, requests, made, mainQueue,
                 storeUser, visible, visit, homeUser, trap, filed, overlapped, interrupted>>
serverVars == <<registered, disabled>>
historyVars == <<filed, overlapped, interrupted>>
screenVars == <<visible, visit, homeUser, storeUser, profiles, filed>>

Changed(user) == [what |-> "changed", user |-> user, request |-> None]
Done(r, user) == [what |-> "done", user |-> user, request |-> r]
Failed(r) == [what |-> "failed", user |-> None, request |-> r]
Transition(r) == [what |-> "transition", user |-> None, request |-> r]

(* The process starts: Auth loads the user of the keychain and notifies.   *)
Loaded(user) == IF user = None THEN <<>> ELSE <<Changed(user)>>

SessionInit ==
  /\ registered \in SUBSET Accounts /\ profiles = registered
  /\ disabled = {}
  /\ currentUser = None
  /\ requests = {} /\ made = 0
  /\ mainQueue = <<>>
  /\ storeUser = "closed"
  /\ visible = "entry" /\ visit = 0
  /\ homeUser = None
  /\ trap = "no"
  /\ filed = {} /\ overlapped = FALSE /\ interrupted = {}

-----------------------------------------------------------------------------
(* The screens before Home.                                                *)
Show(screen) ==
  /\ trap = "no"
  /\ visit < MaxVisits
  /\ \/ visible = "entry" /\ screen \in {"login", "signup"}
     \/ visible \in {"login", "signup"} /\ screen = "entry"
  /\ visible' = screen
  /\ visit' = visit + 1
  /\ UNCHANGED <<serverVars, historyVars, profiles, currentUser, requests, made, mainQueue,
                 storeUser, homeUser, trap>>

Pending == requests # {} \/ \E i \in DOMAIN mainQueue : mainQueue[i].what # "changed"

Call(kind, account) ==
  /\ made < MaxRequests
  /\ made' = made + 1
  /\ requests' = requests \cup {[id |-> made', kind |-> kind, account |-> account,
                                 visit |-> visit, accepted |-> FALSE]}
  /\ overlapped' = (overlapped \/ Pending)
  /\ UNCHANGED <<serverVars, profiles, currentUser, mainQueue, storeUser, visible, visit, homeUser,
                 filed, interrupted>>

(* The login button does not wait for an earlier call.                     *)
LogIn(account) ==
  /\ trap = "no"
  /\ visible = "login"
  /\ Call("login", account)
  /\ UNCHANGED trap

(* The regular expression of Utilities: a lower-case letter, a special     *)
(* character, and eight or more of the characters it allows.               *)
IsPasswordValid(password) ==
  /\ {"lower", "special"} \subseteq password.classes
  /\ password.classes \subseteq {"lower", "upper", "digit", "special"}
  /\ password.length >= 8

(* The sign-up button.  Names and address are filled in; an empty birth    *)
(* date is not asked for, and its parse is unwrapped.                      *)
SignUp(account, password) ==
  /\ trap = "no"
  /\ visible = "signup"
  /\ IsPasswordValid(password)
  /\ Call("signup", account)
  /\ UNCHANGED trap

SignUpWithoutDate(password) ==
  /\ trap = "no"
  /\ visible = "signup"
  /\ IsPasswordValid(password)
  /\ trap' = "birthDate"
  /\ UNCHANGED <<serverVars, historyVars, screenVars, currentUser, requests, made, mainQueue>>

-----------------------------------------------------------------------------
(* A call is two exchanges with the server: the account is verified or     *)
(* created, and then its data are fetched.                                 *)
Acceptable(r) ==
  IF r.kind = "signup" THEN r.account \notin registered
                       ELSE r.account \in registered \ disabled

ServerAccepts(r) ==
  /\ trap = "no"
  /\ r \in requests /\ ~r.accepted
  /\ Acceptable(r)
  /\ requests' = (requests \ {r}) \cup {[r EXCEPT !.accepted = TRUE]}
  /\ registered' = registered \cup {r.account}
  /\ UNCHANGED <<disabled, historyVars, screenVars, currentUser, made, mainQueue, trap>>

(* The call ends with an error: it was refused, or not answered; a sign-up *)
(* whose answer was lost has created the account all the same.             *)
FirstExchangeFails(r) ==
  /\ trap = "no"
  /\ r \in requests /\ ~r.accepted
  /\ requests' = requests \ {r}
  /\ mainQueue' = Append(mainQueue, Failed(r))
  /\ \/ UNCHANGED <<registered, interrupted>>
     \/ /\ r.kind = "signup" /\ Acceptable(r)
        /\ registered' = registered \cup {r.account}
        /\ interrupted' = interrupted \cup {r.account}
  /\ UNCHANGED <<disabled, screenVars, currentUser, made, trap, overlapped>>

(* Faulty variant: the completion is dispatched before the notification.   *)
AccountInfoArrivesEarly(r) ==
  /\ trap = "no"
  /\ r \in requests /\ r.accepted
  /\ requests' = requests \ {r}
  /\ currentUser' = r.account
  /\ mainQueue' = mainQueue \o <<Done(r, r.account), Changed(r.account)>>
  /\ UNCHANGED <<serverVars, historyVars, screenVars, made, trap>>

(* The current user changes, the change is posted, the call completes.     *)
AccountInfoArrives(r) ==
  /\ trap = "no"
  /\ r \in requests /\ r.accepted
  /\ requests' = requests \ {r}
  /\ currentUser' = r.account
  /\ mainQueue' = mainQueue \o <<Changed(r.account), Done(r, r.account)>>
  /\ UNCHANGED <<serverVars, historyVars, screenVars, made, trap>>

(* The second exchange of a login fails, and so does the login.            *)
LoginInfoFails(r) ==
  /\ trap = "no"
  /\ r \in requests /\ r.accepted /\ r.kind = "login"
  /\ requests' = requests \ {r}
  /\ mainQueue' = Append(mainQueue, Failed(r))
  /\ UNCHANGED <<serverVars, historyVars, screenVars, currentUser, made, trap>>

SignOut == IF currentUser = None THEN <<>> ELSE <<Changed(None)>>

(* The second exchange of a sign-up fails: createUserWithEmail drops the   *)
(* error, makes nobody the current user and reports a success.             *)
SignUpInfoFails(r) ==
  /\ trap = "no"
  /\ r \in requests /\ r.accepted /\ r.kind = "signup"
  /\ requests' = requests \ {r}
  /\ currentUser' = None
  /\ mainQueue' = mainQueue \o SignOut \o <<Done(r, None)>>
  /\ interrupted' = interrupted \cup {r.account}
  /\ UNCHANGED <<serverVars, screenVars, made, trap, filed, overlapped>>

(* The keychain refuses a user: the call fails, the current user stays.    *)
KeychainFails(r) ==
  /\ trap = "no"
  /\ r \in requests /\ r.accepted
  /\ requests' = requests \ {r}
  /\ mainQueue' = Append(mainQueue, Failed(r))
  /\ interrupted' = IF r.kind = "signup" THEN interrupted \cup {r.account} ELSE interrupted
  /\ UNCHANGED <<serverVars, screenVars, currentUser, made, trap, filed, overlapped>>

Disable(account) ==
  /\ account \in registered \ disabled
  /\ Cardinality(disabled) < MaxDisabled
  /\ disabled' = disabled \cup {account}
  /\ UNCHANGED <<registered, historyVars, screenVars, currentUser, requests, made, mainQueue, trap>>

(* The server refuses a new token for a disabled account.                  *)
TokenIsInvalid ==
  /\ trap = "no"
  /\ currentUser \in disabled
  /\ currentUser' = None
  /\ mainQueue' = mainQueue \o SignOut
  /\ UNCHANGED <<serverVars, historyVars, screenVars, requests, made, trap>>

-----------------------------------------------------------------------------
(* The main thread takes the blocks in their order.  The completion block  *)
(* of a call and the transition that ends it are two steps: in between the *)
(* work queue may go on.                                                   *)
NextBlock(what) ==
  /\ trap = "no"
  /\ mainQueue # <<>> /\ Head(mainQueue).what = what

(* Faulty variant: Firestore takes the user of its first use for good.     *)
AuthStateDidChangeUnheard ==
  /\ NextBlock("changed")
  /\ mainQueue' = Tail(mainQueue)
  /\ UNCHANGED <<serverVars, historyVars, screenVars, currentUser, requests, made, trap>>

(* Firestore's credentials provider hears of a change once it exists.      *)
AuthStateDidChange ==
  /\ NextBlock("changed")
  /\ storeUser' = IF storeUser = "closed" THEN storeUser ELSE Head(mainQueue).user
  /\ mainQueue' = Tail(mainQueue)
  /\ UNCHANGED <<serverVars, historyVars, profiles, currentUser, requests, made, visible, visit,
                 homeUser, trap>>

(* Faulty variant: a provider that is made now waits to be told.           *)
OpenedForNobody == IF storeUser = "closed" THEN None ELSE storeUser

(* The user of Firestore once it is used: a provider that is made now asks *)
(* Auth, whose work queue may be ahead of the main queue.                  *)
OpenedFor == IF storeUser = "closed" THEN currentUser ELSE storeUser

Complains ==
  /\ NextBlock("failed")
  /\ mainQueue' = Tail(mainQueue)
  /\ UNCHANGED <<serverVars, historyVars, screenVars, currentUser, requests, made, trap>>

(* The completion of a login: the tab bar is instantiated, and with Home   *)
(* its reference to Firestore.                                             *)
LoggedIn ==
  /\ NextBlock("done") /\ Head(mainQueue).request.kind = "login"
  /\ storeUser' = OpenedFor
  /\ mainQueue' = <<Transition(Head(mainQueue).request)>> \o Tail(mainQueue)
  /\ UNCHANGED <<serverVars, historyVars, profiles, currentUser, requests, made, visible, visit,
                 homeUser, trap>>

(* Faulty variant: the profile is left to Home.                            *)
SignedUpWithoutProfile ==
  /\ NextBlock("done") /\ Head(mainQueue).request.kind = "signup"
  /\ Head(mainQueue).user # None
  /\ storeUser' = OpenedFor
  /\ mainQueue' = <<Transition(Head(mainQueue).request)>> \o Tail(mainQueue)
  /\ UNCHANGED <<serverVars, historyVars, profiles, currentUser, requests, made, visible, visit,
                 homeUser, trap>>

(* The current user has changed again since the first block was queued.    *)
ChangeIsBehind == \E b \in ToSet(Tail(mainQueue)) : b.what = "changed"

(* The completion of a sign-up writes the profile first.                   *)
SignedUp ==
  /\ NextBlock("done") /\ Head(mainQueue).request.kind = "signup"
  /\ Head(mainQueue).user # None
  /\ storeUser' = OpenedFor
  /\ profiles' = profiles \cup {Head(mainQueue).user}
  /\ filed' = filed \cup {[of |-> Head(mainQueue).user, under |-> OpenedFor,
                           overtaken |-> storeUser = "closed" /\ ChangeIsBehind]}
  /\ mainQueue' = <<Transition(Head(mainQueue).request)>> \o Tail(mainQueue)
  /\ UNCHANGED <<serverVars, currentUser, requests, made, visible, visit, homeUser, trap,
                 overlapped, interrupted>>

(* A success without a user has an empty uid, which names no document: the *)
(* collection's reference fails an assertion.                              *)
SignedUpNobody ==
  /\ NextBlock("done") /\ Head(mainQueue).request.kind = "signup"
  /\ Head(mainQueue).user = None
  /\ trap' = "noDocument"
  /\ UNCHANGED <<serverVars, historyVars, screenVars, currentUser, requests, made, mainQueue>>

(* transitionToHome and Home's viewDidLoad, which unwraps the current      *)
(* user; a screen that is in no window any more replaces nothing.          *)
TransitionToHome ==
  /\ NextBlock("transition")
  /\ mainQueue' = Tail(mainQueue)
  /\ \/ /\ Head(mainQueue).request.visit # visit
        /\ UNCHANGED <<visible, visit, homeUser, trap>>
     \/ /\ Head(mainQueue).request.visit = visit
        /\ currentUser = None
        /\ trap' = "noUser"
        /\ UNCHANGED <<visible, visit, homeUser>>
     \/ /\ Head(mainQueue).request.visit = visit
        /\ currentUser # None
        /\ visible' = "home" /\ visit' = visit + 1 /\ homeUser' = currentUser
        /\ UNCHANGED trap
  /\ UNCHANGED <<serverVars, historyVars, profiles, storeUser, currentUser, requests, made>>

MainStep ==
  \/ AuthStateDidChange
  \/ Complains
  \/ LoggedIn
  \/ SignedUp
  \/ SignedUpNobody
  \/ TransitionToHome

(* The process ends, wherever it is, and the app is started again.  Calls  *)
(* that were sent may still reach the server.                              *)
SignUpsUnderWay ==
  {r.account : r \in {q \in requests : q.kind = "signup"}}
    \cup {b.request.account : b \in {c \in ToSet(mainQueue) :
            c.what = "done" /\ c.request.kind = "signup"}}

Relaunch ==
  /\ visit < MaxVisits
  /\ \E late \in SUBSET {r.account : r \in {q \in requests : ~q.accepted /\ q.kind = "signup"}} :
       registered' = registered \cup late
  /\ interrupted' = interrupted \cup SignUpsUnderWay
  /\ mainQueue' = Loaded(currentUser)
  /\ requests' = {}
  /\ storeUser' = "closed"
  /\ visible' = "entry" /\ visit' = visit + 1
  /\ homeUser' = None
  /\ trap' = "no"
  /\ overlapped' = FALSE
  /\ UNCHANGED <<disabled, profiles, currentUser, made, filed>>

CallProceeds(r) ==
  \/ ServerAccepts(r)
  \/ FirstExchangeFails(r)
  \/ AccountInfoArrives(r)
  \/ LoginInfoFails(r)
  \/ SignUpInfoFails(r)
  \/ KeychainFails(r)

SessionNext ==
  \/ \E screen \in {"entry", "login", "signup"} : Show(screen)
  \/ \E a \in Accounts :
       LogIn(a) \/ Disable(a) \/ \E password \in Passwords : SignUp(a, password)
  \/ \E password \in Passwords : SignUpWithoutDate(password)
  \/ \E r \in requests : CallProceeds(r)
  \/ TokenIsInvalid
  \/ MainStep
  \/ Relaunch

SessionSpec == SessionInit /\ [][SessionNext]_sessionVars

-----------------------------------------------------------------------------
Request == [id : 1 .. MaxRequests, kind : {"login", "signup"}, account : Accounts,
            visit : 0 .. MaxVisits, accepted : BOOLEAN]
Block == [what : {"changed", "done", "failed", "transition"}, user : Accounts \cup {None},
          request : Request \cup {None}]

SessionTypeOK ==
  /\ registered \subseteq Accounts /\ disabled \subseteq registered
  /\ profiles \subseteq registered
  /\ currentUser \in Accounts \cup {None} /\ homeUser \in Accounts \cup {None}
  /\ requests \subseteq Request /\ made \in 0 .. MaxRequests
  /\ mainQueue \in Seq(Block)
  /\ storeUser \in Accounts \cup {None, "closed"}
  /\ visible \in {"entry", "login", "signup", "home"} /\ visit \in 0 .. MaxVisits + 1
  /\ trap \in {"no", "birthDate", "noUser", "noDocument"}
  /\ filed \subseteq [of : Accounts, under : Accounts \cup {None}, overtaken : BOOLEAN]
  /\ overlapped \in BOOLEAN
  /\ interrupted \subseteq Accounts

(***************************************************************************)
(* Firestore ends up with the user of Auth: whenever no notification is on *)
(* its way, they agree, also when Firestore was opened between a change of *)
(* the current user and its notification, which is then heard twice, or    *)
(* when older notifications took it back to an earlier user meanwhile.     *)
(***************************************************************************)
StoreFollowsTheSignIn ==
  storeUser # "closed" /\ (\A i \in DOMAIN mainQueue : mainQueue[i].what # "changed")
    => storeUser = currentUser

(***************************************************************************)
(* A profile is written into the queue of its own account: Firestore has   *)
(* heard of the new user, whose notification is ahead of the completion,   *)
(* or is opened by this write and asks Auth.  Only when the write opens    *)
(* Firestore and the current user has changed once more, with the news of  *)
(* it still behind the completion, can it go into another's queue.         *)
(***************************************************************************)
ProfilesAreFiledRightly == \A f \in filed : f.under = f.of \/ f.overtaken

(***************************************************************************)
(* Home is loaded for the account that is signed in and that Firestore     *)
(* writes for, and this stays so, unless calls overlapped or the account   *)
(* was signed out by force; otherwise it always finds the user it unwraps. *)
(* It is about the login and sign-up buttons, which can be pressed again,  *)
(* and about Home's user.id, set once.                                     *)
(***************************************************************************)
HomeIsTheirs ==
  ~overlapped /\ disabled = {} =>
    /\ visible = "home" => homeUser = currentUser /\ storeUser = currentUser
    /\ trap # "noUser"

(***************************************************************************)
(* Every account has a profile, or its sign-up is under way, or it was     *)
(* interrupted by the network, the keychain or the end of the process      *)
(* between the creation of the account and the write of the profile: an    *)
(* account like that can log in, and Home then unwraps a name it lacks.    *)
(***************************************************************************)
AccountsHaveProfiles == registered \subseteq profiles \cup interrupted \cup SignUpsUnderWay

(***************************************************************************)
(* FIRAuth.h says of the error of a completion "nil if the request was     *)
(* successful", and FIRAuthDataResult.h of its user "The signed in user".  *)
(* createUserWithEmail reports a success when it has signed nobody in.     *)
(***************************************************************************)
SuccessHasAUser ==
  \A i \in DOMAIN mainQueue : mainQueue[i].what = "done" => mainQueue[i].user # None

=============================================================================
