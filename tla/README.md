# Sens, specified in TLA+

This directory specifies *Sens* (repository Map_emotion), an iOS app written in
Swift in which people put what they feel on a map: a feeling has tags, a colour,
an emoji, a testimonial, a place and, unless it is anonymous, the first name of
its author, and everybody sees all feelings.  There are about 1,900 lines of own
code under `src/Sens/Controller` and `src/Sens/Sens`, no tests and hardly any
documentation; the texts of the storyboard and a few comments are the only
statements of intent.  Everything else is vendored pods, of which Cloud
Firestore carries the app's data and therefore half of its hard behaviour.

Contents: [1 the system](#1-the-system), [2 the modules and the code](#2-the-modules-and-the-code),
[3 the runs](#3-the-runs), [4 fairness and deadlock](#4-fairness-and-deadlock),
[5 what does not hold](#5-what-does-not-hold), [6 the proofs](#6-the-proofs),
[7 only model-checked, and not modelled](#7-only-model-checked-and-not-modelled),
[8 the plan](#8-the-plan).

## 1 The system

A navigation controller starts, at every launch, with the entry screen
(`ViewController`), from which Sign-up or Login leads to a tab bar with *Home*
and a static profile screen.  Home presents the *form* (modally) and pushes the
*detail* screen.  Home and the form talk to Firestore and to nobody else; the
only data they hand to each other are two optional locations and a `User` object.

| Part | State | Operations | Hard about it | Makes it correct |
|---|---|---|---|---|
| **Home** `HomeViewController` | `pins`, `userLocation`, `user`, the map's annotations and views, `infoPin` | viewDidLoad (ask for the profile), viewDidAppear (start locating, fetch all pins), didUpdateLocations, completion blocks of both queries, long press, add button, viewFor, callout tap | answers in any order, also under another screen; a fetch starts right after a save; view reuse | own feelings come to the map; the detail is that of the callout; it traps only for known reasons |
| **Form** `AddFeelingViewController` | the new `EmotionPin`, the widgets, the shared `User` | opening, tags, colours, emoji, radio buttons, switch, text view, save, cancel | cells older than the array; geocoders and the profile answer late, also after the end; `nil` unwrapped | what is published is what is shown; one location, and one that was offered; no other traps |
| **Radio buttons** `RadioButton` | `isOn`, alternates | awakeFromNib, tap | exactly one is on only because of the order of storyboard, awakeFromNib and viewDidLoad | exactly one visible row is on |
| **Tag cells** `EmotionTagCollectionViewCell` | the index of the cell | remove button | the index is of the last layout pass | the tag removed is the tag shown |
| **Emoji card** `EmojiPickerViewController` | the current card and blur, animations, `pin.icon` | open, choose an emoji, back | completion blocks of overlapping animations act on the card that is current by then | a covered form has a card that can be closed |
| **Location search** `LocationSearchTableViewController` | matching items | search text, answer | searches are not cancelled, answers come out of order | the table goes back to an older search only when an older answer is late |
| **Sign-up, Login** | fields, the screen on which a call was made | create user, write profile, sign in, transition | calls in flight together; the screen left meanwhile; the profile write is not waited for | Home knows who is signed in; every account has a profile |
| **Firebase Auth** (pod) | current user (kept in the keychain), work queue, notifications | signIn, createUser, forced sign-out, loading | the current user is ahead of its notification; each call is two exchanges, either of which fails | Firestore ends up with Auth's user; a success has a user |
| **Keyboard offset** | `view.frame.origin.y` | show, hide | notifications that do not pair | the view comes back |
| **Helpers** `Utilities`, `UIColor` | none | password test, hex colour | boundaries | agree with their messages |
| **Connection** (`RemoteStore`, `Stream`, `OnlineStateTracker`, `ExponentialBackoff`, of the pod) | two stream states with token requests and timers, listens, write pipeline, online state | listen, unlisten, write, token, message, failure, timer, change of user | calls that nest: a failure refills the pipeline from inside the close; tokens of closed streams; timers cleared too early | no assertion fails; a needed stream is up or on its way; nothing stays unsent |
| **gRPC stream** (`GrpcStream`, `GrpcCompletion`) | buffered writes, operations with gRPC, completions on two threads | write, finish, write and finish, connectivity change, completions | the worker queue blocks for the polling thread; failure, finish and connectivity change cross | nothing outlives the stream; told once; the queue is freed |
| **Firestore client** (pod) | remote document cache and mutation queues (persistent), worker queue, listeners, views, online state, streams, main queue | setData, getDocuments, credential change, everything the server and the timer do | order of two queues, restarts, lost results, the ten-second timer, other devices | a write has one fate; a get shows what the device knows and wrote; every get ends |
| **Detail, profile, entry screens, AppDelegate** | none of their own | drawing | - | - |

How they interact: Home → form: `touchedLocation`, `userLocation`, `user` (a
reference: the profile's answer arrives *in* the form).  Form → Firestore:
`setData` without completion block.  Form → Home: only its dismissal, which makes
UIKit call `viewDidAppear` (the form is full-screen), which fetches everything
again and *appends* it.  Home → Firestore: `getDocuments` for the profile once and
for all pins at each appearance.  Firestore → Home: completion blocks on the main
queue.  Two devices meet only in the server.

`PROJECT.json` lists all parts with their sources and every hazard at its line.

## 2 The modules and the code

All code of the app runs on the main thread, so a handler (an `@IBAction`, a
delegate method, a completion block) is one action, with every call it makes;
interleaving comes from the order of events and answers.  Firestore's client
runs on its worker queue, and a task of that queue is one action.

```
PinForm  <== AddFeeling ---- TagEditor, LocationChoice, Thoughts
   \
    Home ---- MapPins                    <==  is implemented by (checked / proved)
   /
PinStore <== Firestore ..... RemoteStore ---- Stream, OnlineStateTracker
                                  ..... GrpcStream
Session (before Home)    Overlays ---- KeyboardOffset, EmojiCard, LocationSearch
```

The dots are assumptions: that waiting gets hear of being offline, which Firestore's
`NetworkFairness` assumes, is what `ListenersLearnTheState` shows of RemoteStore,
where it is itself conditional on the network (section 4); and RemoteStore takes a
call that was broken to be reported, which is `BrokenStreamsEnd` of GrpcStream.

- **TagEditor** — `pin.tags`, the text field, the cells and their remove buttons
  (`addEmotionTag`, `removeButtonPressed`, `cellForItemAt`).  `reloadData` only
  marks the collection view; the cells stay until `LayoutTags`.  Buttons whose
  touches end in the same UIEvent (two fingers) fire before that pass; `fired`
  remembers them.  `Array.remove(at:)` outside its range is `RemoveOutOfRange`,
  which ends the process.  `Blank` stands for the texts that trim to nothing.
- **LocationChoice** — the two radio buttons, the two locations Home hands over,
  and the two reverse geocodings (`viewDidLoad`, `recoveryAddress`,
  `RadioButton`).  `AwakeFromNib(StoryboardIsOn)` is the initial state because the
  storyboard's values are set *before* `awakeFromNib` clears them.
- **Thoughts** — the text view whose placeholder is ordinary text.  A text is a
  sequence of pieces; the user types, pastes or deletes over any selection of what
  the view *holds* (`Write`), be it what the delegate methods left there.  `Hint` is
  the placeholder the form puts in, `TypedHint` the same words typed by the user:
  the test of `textViewDidBeginEditing` cannot tell them apart
  (`ReadsAsPlaceholder`).  `grey` is the colour of the letters.  `ReturnKey` is the
  order in which `shouldChangeTextIn` ends the editing and *then* lets UIKit insert
  the newline (whether UIKit still does, and where, is left open), so the newline
  can come to stand beside the placeholder.
- **AddFeeling** — the form: the three modules above share their variables by
  EXTENDS; colour, emoji, switch, `Save`, `SaveTraps`, `Cancel`, `Open`, the late
  `ProfileLoaded` and the late `GeocoderAnswers`.
- **PinForm** — the form's promise to Home: it is opened with locations, ends at
  most once, and publishes only at an offered location and under the name of the
  profile or anonymously.
- **MapPins** — the map of Home: the pins (only ever appended to), MapKit's
  annotation views with their reuse pool, and the detail to be shown.  The i-th
  annotation and the i-th pin are one position.  Both delegate methods search the
  whole list by title, subtitle and coordinate and keep the *last* match
  (`LastLike`).
- **Home** — the life of one process on one phone and its relaunches, over
  PinForm and PinStore: screens, profile query, fetches, location, form, detail,
  tabs, other devices.  An answer of pins that contains a feeling without a tag
  ends the process (`tags[0]`), an empty profile answer too (`documents.first!`).
- **Firestore** — the vendored client as the app uses it.  A call on the main
  thread only enqueues a task (`SetData`, `GetDocuments`, `CredentialChange`); the
  worker runs tasks in order (`RunWrite`, `RunListen`, `RunUnlisten`,
  `RunUserChange`); a write goes through the mutation queue of its user to the
  server (`ServerCommits`, `WriteAcknowledged`, `WriteRejected`); a get registers
  a listener and is raised by an up-to-date view, by the server's answer, or by
  the offline state.  An acknowledged document that the server's answer does not
  yet list puts its view "in limbo" (`CacheAcknowledged`, `AnswerArrives`).
  `Restart` drops what is in memory only.  Documents are written once, under ids
  the client generates, so a document is its own write and resending is harmless.
- **PinStore** — what that promises: a write is committed or refused, once; a get
  is answered with everything the device knew and wrote before it asked, unless
  refused, and with nothing that is neither committed nor its own; `answered` makes
  the documents of the last completion block part of what has to be implemented.
- **Stream**, **OnlineStateTracker** — operators on the record of one stream (state,
  token requests, timers, backoff) and of the tracker: each takes the state before
  a call and gives the one after, because the code's calls nest within one task of
  the worker queue.  `ok` collects every `HARD_ASSERT`.  A token request that belongs
  to an earlier `close_count_` is *stale*.
- **RemoteStore** — the two streams, the tracker, `listen_targets_`, the write
  pipeline and the change of the user; one action per task of the worker queue,
  composed of the operators in the order of the code (`OnWriteStreamClose` gives up
  a batch, inhibits the backoff, refills, and restarts).  The pipeline is always a
  prefix of the user's queue in the local store, so both are numbers.
- **GrpcStream** — one call between worker queue, gRPC and polling thread.
  `GrpcCompletion::Complete` is two steps (`Poll` marks, `HandOver` enqueues), because
  the worker may act in between; `FastFinishCompletionsBlocking` is `FastFinish`
  and, when the operations are back, `FinishGrpcCall` or `Destroyed`.
- **Session** — entry, login and sign-up screens, Auth's calls as two exchanges,
  its blocks on the main queue, Firestore's user and Home's.  `transitionToHome` of a
  screen that is in no window any more does nothing, hence the number of the visit.
  A block of a call and the transition at its end are two steps because Auth's
  work queue may go on in between.  `profiles` are the profiles handed to the store;
  that a write handed over survives is Firestore's `NoWriteVanishes`, that it can be
  refused is in Home.
- **EmojiCard** — cards with their blurs, the *current* ones that the animation
  blocks look up when they run, and the overlapping animations.
- **KeyboardOffset** — the offset of three screens: Login and Sign-up set it on
  show and add on hide, the form moves only from its place.
- **LocationSearch** — searches that are never cancelled and their answers.
- **Overlays** — the last three on the screens they belong to: a new controller for
  every presentation, the form over a Home whose searches go on.
- **Selection** — `Select(s, S)`, the elements of a sequence that are in a set, by
  their ranks.  It is what `SelectSeq` computes (`MCMapPins` assumes so, and TLC
  evaluates it) in a form the provers can reason about.
- **MC\*** — the instances for TLC.  ***_proofs**, **SequenceLemmas** — theorems.

Operators marked *Faulty variant* are used by no specification: each is a
definition as a plausible mistake would have written it, and `PROJECT.json` names
the property that notices it (`mutants`).

## 3 The runs

| Run | What it asks | Instance and why it is enough |
|---|---|---|
| `add_feeling` | everything the form shows, publishes and traps on, in every order of its events; PinForm | two tags, arrays up to 2 (two buttons in one event), two places, one colour, emoji, name, each widget has a set and an unset value, and the two rows can show different addresses; texts of up to three pieces of four kinds (a word, the placeholder, the placeholder's words typed by the user, a newline), so that something can be typed before, between and behind placeholder and newline; 2.1 million states |
| `firestore_writes` | no write vanishes, one fate, in order, the queue drains | one device, two accounts, three writes, two waiting tasks: a write, a change of the user and another write can be queued behind each other |
| `firestore_reads` | what a get returns, and that it returns if the network answers or breaks | one account, two documents, two overlapping queries, two gets: the second can join the first's view, be asked offline, be answered between commit and acknowledgement |
| `remote_store` | does any assertion of the streams fail; is a needed stream left down, a batch left unsent, a listener left without news | two targets, a store with one batch more than the pipeline holds, delays 2 to 5 (one growth by 1.5 before the maximum), two changes of the user: each stream can be closed with a token under way and closed again |
| `grpc_stream` | does anything outlive the stream, is its end told once, is the blocked queue freed | four messages: an active one with others waiting, and a last one behind them; every operation can be with gRPC, polled, or handed over when the stream is finished |
| `session` | do Auth, Firestore and Home agree on the user; which accounts lack a profile | two accounts, two calls (which can overlap, of two kinds and accounts), a disabled account, four screens shown, a relaunch among them; three calls were tried once without a violation |
| `overlays` | do screens come back; can a covered form be uncovered; does the search table go forward | three screens, two stray hides, keyboards of two heights, three cards, two overlapping closings, three searches |
| `map_pins` | views and detail against a list that grows by whole copies | four feelings, two with equal annotations, one without tag; two views, so that one is reused while the other is shown; four pins, so that a document is on the map twice |
| `home` | own feelings come to the map, by themselves; why the app traps; whether the form offers the place Home knows | a phone and another device, two feelings either may publish (one named, one anonymous and untagged), two places, two returns to the map or relaunches |
| the three others | see section 5 | the same instances |

Bounds: `MaxTags` (array), `MaxPieces` (pieces of a text after an edit; the
constraint `MCTextsInTurn` lets texts other than one word and the placeholder meet the
other widgets only as they were at the opening, in a form with one row: nothing but the
save reads the text together with them), `MaxViews`, `MaxPins` (fetches of the map by itself;
Home bounds fetches by `MaxVisits`), `MaxVisits` (returns to Home and relaunches; in Session, screens shown),
`MaxStored`, `MaxSignIns`, `MaxWrites`, `MaxRequests`, `MaxDisabled`, `MaxCards`, `MaxClosings`, `MaxSearches`,
`MaxStrays`, `MaxGets`, `MaxTasks` (tasks in a worker queue when the app calls).  The properties
relate at most two removals, two gets, or a save and the fetch after it, so one
more of each adds no new situation; the theorems of section 6 remove the bounds
from every safety property.

Each module also states its type invariant.  `TypeOK` of the form is in a run; the
others hold on the same instances and are left out of the runs, as are properties
that another one of the same run implies.

The properties worth knowing:

- `RemoveTakesTheTagShown` (and, proved, `TrapNeedsTwoTouches`): a stale index is still right as
  long as no button *above* it fired in the same event, whatever was appended; a
  trap needs two fingers.
- `SavedIsWhatIsShown`, `ChosenRowShowsItsAddress`: whatever the order of taps and
  geocoders, also when an answer comes after the save.
- `WritingIsKept`, `PublishedTestimonialIsTheUsers`: the view holds the text as the
  user's last edit left it, but for what `Kept` names: a text that reads as the
  placeholder is erased, an empty one becomes the placeholder, and a return key in
  an empty view leaves the placeholder with a newline.  A text shown in black never
  contains the form's placeholder.
- `TrapsOnlyThere`: the form ends the process in exactly three situations: no
  location yet, no name yet, two remove buttons at once.
- `NoWriteVanishes`, `FatesAreFinal`, `CommittedInOrder`: across restarts, resends,
  refusals and changes of the user.
- `GetsShowOwnWrites`: on a device with one account, online or offline.  (With two
  accounts it is false, because a write belongs to the queue of its user; the run
  therefore has one.)
- `EveryGetEnds`: also without a network, as long as what the client tries ends: an
  open connection that stays silent can keep a get waiting (section 4).
- `OwnFeelingsAreOnTheMap`, `PublishedComesToTheMap`: nothing in Home asks for the
  feeling just saved; that it appears rests on `viewDidAppear` after the dismissal
  and on the order of two calls on the worker queue, which PinStore states as
  `owes`.  The exceptions (refused, a failed fetch, the end of the process) are
  in the formulas because the code does nothing about them.
- `OfferIsCurrent`: the form works on a copy of the user's location; no fix reaches
  Home unnoticed while the form is open, except the one that each appearance asks
  for, if it is still under way.
- `AssertsHold`, `NeededStreamsAreStarted`, `NothingIsLeftUnsent`: of two streams
  whose callbacks call each other; the last says that the three places from which
  batches reach the stream neither skip nor repeat one.
- `OfflineUntilHeard`: a client that is offline answers gets from its cache at
  once, also while it reconnects; it does not flap.
- `NothingOutlivesTheStream`, `WorkerIsFreed`: what the comments at
  the head of `grpc_stream.cc` argue in prose.
- `StoreFollowsTheSignIn`, `HomeIsTheirs`, `AccountsHaveProfiles`: with the exceptions
  the code leaves (overlapping calls, a forced sign-out, an interrupted sign-up),
  all in the formulas.
- `ProfilesAreFiledRightly`: the first sign-up of a process included, whose write
  opens Firestore.  The exception (`overtaken`) is a write that opens Firestore while
  the news of a *later* change of the user is still queued behind its completion.
- `CoveredFormHasItsCard`: closings and openings, overlapping or repeated, leave the
  current card usable and remove the others, but for at most one for each time a card
  was opened over one that was still there.

## 4 Fairness and deadlock

Firestore: `ClientFairness` is weak fairness of the worker's tasks and of the main
queue's blocks (dispatch queues run what is in them).  It is the code's own; each
liveness property needs one more condition on what is outside the client.

- `WritingSpec` adds `ServerFairness`, strong fairness of `ServerCommits` and
  `WriteAcknowledged`: a server that can be reached again and again takes and
  acknowledges writes.  The worker keeps retrying with backoff, which is what makes
  "again and again" possible.  `WritesOfTheSignedInUserDrain` needs it.
- `ReadingSpec` adds `NetworkFairness`: a get that waits is answered at last, or the
  client goes offline.  **The code does not guarantee this**, it is a condition on the
  network.  The ten-second timer runs only while the online state is Unknown, and not
  always then (`wait_without_timeout` in section 5); gRPC gives up an attempt to
  *connect* (20 seconds, `gRPC-Core/src/core/ext/filters/client_channel/subchannel.cc:63,488`
  in the pods), but `grpc_connection.cc` configures no keepalive, so a connection
  that is open and silent ends nothing.  `EveryGetEnds` holds where connections are
  answered or break, and promises nothing elsewhere.

`FairSpec` of Home: UIKit calls `viewDidAppear` once a screen is shown again, and
the store answers every get, which is `EveryGetEnds` of Firestore and therefore
subject to the same condition on the network.  Nothing is assumed of the user, the
location manager, the server or other devices.

RemoteStore: timers elapse and token requests end (`ClientFairness`: the client's own
doing); its own `NetworkFairness`, that whatever a stream tries is answered or ends at last,
is the same condition on the network.  It is assumed for `ListenersLearnTheState`
only, and left out where `TimeoutEndsTheWait` asks what the timer alone achieves.  The server is assumed to
end its streams with an error; a stream opened when nobody listens any more is
never marked idle, as in the code.

GrpcStream: the polling thread polls, the worker queue runs, a wait for a last write
is bounded, and a *broken* call returns its operations (strong fairness, because
messages received before the break may come in between); a sound call owes nothing.
Nothing is assumed in Session and Overlays, whose properties are about safety.

`CHECK_DEADLOCK FALSE` is given where the system may stop: a form ends; a trap
ends the process; a stream is destroyed; the bounded calls of Firestore, MapPins,
Home and Session are used up.

## 5 What does not hold

Each of these runs has one property, stated from a text in the repository, that
TLC refutes; `findings` in `PROJECT.json` quotes the text.

| Run | What happens |
|---|---|
| `feeling_without_tag` | Save does not ask for a tag although the form says at least one is needed; every client that fetches the feeling reads `tags[0]` and ends, again at every start (`TrapsForAReason` shows the other end). |
| `wait_without_timeout` | The last listen goes while the watch stream is starting or backing off, which clears the ten-second timer; the next listen finds the stream started and sets none, and the end of a backoff does not tell the tracker either. The listener waits as long as the attempt neither fails nor succeeds, although the comments promise Offline after the timeout. |
| `success_without_user` | The account is created and fetching its data fails: `createUserWithEmail` drops the error, signs out whoever was signed in and reports a success. Sign-up then builds a document with an empty id and ends the process; the account has no profile, so Home ends the process at every later login. |

Observations the models show, without a run of their own:

- The return key in an empty view ends the editing, which puts the placeholder in,
  and its newline can still arrive.  The text is then not equal to the placeholder, so
  the next `textViewDidBeginEditing` neither erases it nor changes its colour, although
  the comment above it (`AddFeelingViewController.swift:323`) says it does; what is
  typed next joins the placeholder and is published with it (the last case of `Kept`,
  and `grey` in `PublishedTestimonialIsTheUsers`).
- The placeholder of an untouched text view is published as the testimonial, and a
  user who types exactly the placeholder's words finds them erased at the next touch
  of the view (both are cases of `Kept`).
- A second emoji card opened while another is there, as touches to the form's button allow
  while an animation runs, replaces the reference to the first, whose card or blur then
  stays over the form for good (`replaced` in `CoveredFormHasItsCard`).
- A press on the map before the first location fix ends the process, because the
  row of the *user's* location is geocoded in any case (a case of `TrapsOnlyThere`).
- A reused annotation view keeps the emoji of another feeling
  (`FreshViewsAreRight` is about new views only).
- Of several feelings with the same name, first tag and place only the one listed
  last can be opened (`DetailFitsTheCallout` promises no more than the annotation),
  and a feeling is put where the user was when the form was opened (the premise `locating` of
  `OfferIsCurrent`: a fix that comes later does not reach the form).
- A message may be written after the call was finished and before its status has
  arrived, although a comment in `grpc_stream.cc:233-234` says that the
  buffered writer is not called again then; gRPC returns it as failed, which does no harm (`Write` in
  GrpcStream leaves it possible).
- A stray hide of the keyboard moves Login and Sign-up down until the next show
  (`strays` in `ScreensAreInPlace`).
- The password test asks for a lower-case letter and no digit; the message says a
  number (`IsPasswordValid`).  A missing birth date ends the process
  (`SignUpWithoutDate`).

## 6 The proofs

Every safety property of the passing runs, invariant or action property, is a
theorem that TLAPS checks for all values of the constants, `KeepsThePromise` and
`KeepsTheStorePromise`, the two refinements, included.  The runs keep checking them
on small instances, where the mutants are told apart.

The assumptions, all named and evaluated by TLC in the runs:

| Assumption | Says |
|---|---|
| `TagsAssumption`, `CoordsAssumption`, `WritingsAssumption`, `NamesAssumption`, `ColorsAssumption` | blank texts are no tags; the origin is a coordinate; `nil` is no coordinate, address or name; the placeholder put in by the form, the one typed alike and the newline are told apart; the empty string is no colour |
| `FeelingsAssumption`, `HomeAssumption` | a snapshot lists each document once; the phone is a device; the profile is no feeling and has a name |
| `FirestoreAssumption` | "nobody signed in" is a user; a query selects documents |
| `DelayAssumption`, `RemoteStoreAssumption` | the first delay is positive and at most the last; the pipeline holds at least one batch |
| `GrpcStreamAssumption`, `SessionAssumption`, `KeyboardAssumption`, `CardAssumption`, `SearchAssumption` | bounds are naturals; `nil` and "closed" are no accounts; distances and heights are positive |

Bounds (`MaxTags`, `MaxGets`, ...) are any natural numbers, and sets of devices,
accounts, documents, targets, emojis and so on are any sets, finite or not.

One theorem group has a hypothesis, `OneAccount == Users = {Nobody}`, which is
what the run `firestore_reads` instantiates: `GetsShowOwnWrites` and the promise of
PinStore are about devices whose account does not change and are false otherwise,
because a write belongs to the mutation queue of its user.

**AddFeeling_proofs, the tag editor.**  `RemoveTakesTheTagShown` is not inductive: it
says nothing of cells below one that has fired.  `TagInv` adds `CellsAreNumbered`
(the cell at position c holds index c).  Then a removal at c shifts only entries
behind c, and the cells that still count are above c; an addition appends; a layout
pass starts over.

**AddFeeling_proofs, the form.**  `FormInv` has one part for each component, so that
most actions need only the lemma that the other parts are framed:

- `TagPart`: the types, and `TagInv` while the process lives (a trap of another
  part leaves `trapped` with no button fired);
- `LocationPart`: types, `OneVisibleRowIsChosen`, that the rows start off before
  the form is loaded (which opening relies on: it turns one row on and does not
  turn the other off), that a hidden row is the only one without a location, and
  that a geocoder is only under way for a location that exists;
- types of the text, the looks, the author and the document;
- `LifePart`: before loading nothing has ended, trapped or been asked for; a
  loaded form whose process lives has a location of the user; and
  `TrapsOnlyThere`.

`FormKeepsThePromise` is the refinement `Spec => PinForm!FormSpec` under the mapping
`FormAsSeenByHome`: the initial state maps, and each action is an `OpenForm`,
`LearnName`, `PublishForm`, `CancelForm`, `TrapForm` or a stutter; the invariant is
what makes `Save` a `PublishForm`, since the chosen location is one of those offered
only because exactly one visible row is on.  This is what allows Home to be checked
over PinForm.  `TextInv` (the view holds a text that is `Kept`, a black one
contains nothing the form put in, and a published testimonial is the text, which no
action touches after the end) gives
`WritingIsNeverLost` and `TestimonialIsTheUsers`.  `ChosenRowIsLabelledRight` and
`WhatIsShownIsPublished` need that an address on a row, once there, is that of the
row's own location and that after the end only geocoders still act.

**Home_proofs, the map.**  `MapInv` is `FreshViewsAreRight` and
`DetailFitsTheCallout` with the types.  The heart is that `pins` only grows, so
positions keep their pin (`PinsGrow`), and that a loop which keeps the last pin that
agrees finds one that agrees (`LastLikeAgrees`): the pin the annotation was made for
is a candidate.

**Home_proofs, Home.**  `OwnFeelingsAreOnTheMap` speaks of the moments when no fetch
is under way, so it cannot be inductive.  `OwedOrShown` says what holds meanwhile: on
a shown map whose fetches go well every feeling of the phone is on the map, refused,
or *owed* by a fetch under way.  `AppearingAsksForAll` is the only step that makes
it true (the fetch of viewDidAppear owes all that was written before it), `AnswersPay`
the one that turns a debt into pins, and no other step of a shown map writes.  With it
`HomeInv` holds the types, `MapInv`, the bound on visits that the guards imply, and
that the name, once known, is the profile's.  `OfferIsCurrent` is inductive by itself
(`FormOffersTheCurrentPlace`): opening the form copies the location, and a fix that
Home receives while it is open ends `locating`.  `TrapsHaveAReason` goes through the four actions that trap.

**Firestore_proofs**, in five layers, each resting on those before it:

1. `ServerInv`: the log is a sequence, caches and answers hold committed documents
   only.  Every step that moves an answer sets it to nothing, to the committed
   documents, or to a narrower version of itself.
2. `WritesInv`: a write is in exactly one *place* (a task of a worker queue, a
   mutation queue, committed, rejected, lost), where committed documents may still be
   in the mutation queue until they are acknowledged.  `NoWriteVanishes` and
   `FatesAreFinal` are read off it.
3. `OrderInv`: of two writes of one user on one device the earlier is decided or
   *ahead*: further to the front of the same queue, or in the mutation queue while
   the other is still a task.  It needs to know under whom a task will be filed
   (`UserAt`: the last change of the user ahead of it in the worker queue, or the
   present writer).
4. `FirestoreTypeOK`, `KnownOK` (a device that wrote a committed document has it in
   the cache or in the mutation queue) and `AskInv`: a get is in one place - a listen
   task, a listener not yet raised, or a block on the main queue - and the task that
   unlistens it comes after its block.  They hold for any accounts.
5. `DebtInv`, for one account: what a get owes is *settled* - shown by cache and
   pending writes, or refused - or its write task is ahead of the get; and a block on
   the main queue has all it owes and nothing that is not the device's or committed.

`StorePromiseIsKept` is the refinement `FirestoreSpec => PinStore!StoreSpec`, under the
mapping the module states (asked gets are those of `AskInv`'s places, refused are the
rejected and the lost, known is the cache).  `SetData` is a `StoreWrite`,
`GetDocuments` a `StoreAsk`, `ServerCommits` a `StoreCommit`, `WriteAcknowledged` and
`AnswerArrives` are `StoreLearn`, `WriteRejected` is a `StoreRefuse`, `Deliver` a
`StoreAnswer` or a `StoreFail`, `Restart` a `StoreRestart`; tasks of the worker queue,
lost answers and changes of the online state are stutters, for which layer 4 shows
that a get that moves on stays asked.

**RemoteStore_proofs.**  `RemoteInv` ties, for each stream, its state to its requests
and timers (`SoundStream`: starting exactly with a current token request, in backoff
exactly with that timer), the tracker to its timer and failures (`SoundTracker`), the
absence of listens to a stopped stream, and, for writes, what has been sent to
handshake and pipeline.  The operators of Stream get one lemma each (`StartIsSound`,
...), so each action is a composition of lemmas in the order of the code's calls.

**GrpcStream_proofs.**  `StreamInv`: what the worker queue waits for determines where
completions may be (`WaitInv`), a call that is not finished has exactly one read
somewhere (`ReadInv`), a write under way is the active one (`WriteInv`), and messages
written and queued count up (`QueueInv`).

**Session_proofs.**  `StoreInv`: the last notification on the main queue is of the
current user.  `DoneInv`: a completion comes right behind the notification of its user,
so that Firestore has that user when the profile is written.  `HeadInv`: a completion
that is next, with no change of the user behind it, is the current user's, which is
what a write that opens Firestore relies on (`ProfilesAreFiledRightly`).  `CalmInv`: without
overlapping calls and forced sign-outs the blocks of the only call come last.
`SignUpInv`: an account without profile is interrupted or has its call or block under
way.

**Overlays_proofs.**  `ScreensAreInPlace` needs where a screen is *with* a keyboard
(`LiftedWithKeyboard`); `CoveredFormHasItsCard` needs that the current card
is below the edge only while a closing is under way, and that of the others there are
at most as many as openings over another card (`CardsLeftBehind`, `CardsAreFew`).

**SequenceLemmas.**  What appending, removing the head and `Select` do to positions.
Induction over data is not available, so what would be proved by it rests on the
least-number principle (`LeastOf`), obtained from the well-foundedness of the naturals.

## 7 Only model-checked, and not modelled

Only model-checked: liveness, which the provers used here cannot reason about
(`ENABLED`, fairness): `WritesOfTheSignedInUserDrain`, `EveryGetEnds`,
`WorkerIsFreed`, `BrokenStreamsEnd`, `ListenersLearnTheState` and
`PublishedComesToTheMap`.  `EveryGetEnds`,
`ListenersLearnTheState` and `PublishedComesToTheMap` hold under a condition on the
network (section 4).  The three properties of section 5 are refuted.

That Home over the promises is Home over the form and the client is a consequence
of the two refinements, but the composed module is not written out.
`KeepsTheStorePromise` holds on devices with one account; Home uses one.

Abstracted: texts, colours, addresses and coordinates are model values; drawing,
layout, logging and the wording of messages are left out.  Firestore's batching,
backoff times, document versions, indexes, garbage collection and transactions
are not modelled: the app uses none of them, or no property tells them apart.
MapKit, CoreLocation, UIKit and the geocoder are modelled from how the app uses
them.

Of the connection, disabling the network (the app never does), the token's content,
stream tokens and the aggregation of watch changes are left out; of Auth, other
providers and token refreshes that succeed; of Sign-up, the test for empty fields.

Not to be modelled: drawing on the profile, entry and detail screens, AppDelegate,
sources nothing refers to, and the pods below Firestore (gRPC-Core, leveldb,
BoringSSL, nanopb, abseil), whose failures appear as broken calls, lost answers and
restarts.  They are more than 99% of the C and C++ lines of the repository and no
property of the app looks into them.

## 8 The plan

Done: TagEditor, LocationChoice, Thoughts, AddFeeling and PinForm; Firestore and
PinStore; MapPins; Home; Stream, OnlineStateTracker, RemoteStore; GrpcStream; Session;
EmojiCard, KeyboardOffset, LocationSearch and Overlays; theorems for every safety
property of their runs.

To come:

1. **Two accounts**: what a get shows on a device whose account changes (the writes of
   the user the client works with when the listen task runs), as an invariant and a
   theorem without `OneAccount`.
2. **Home over AddFeeling and Firestore** in place of their promises, as the check
   that the composition by promises loses nothing.
3. The safety halves of the liveness properties as theorems: that a waiting get always
   has a step that moves it on, and that a blocked worker queue waits for an operation
   gRPC has.
