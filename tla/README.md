# Loop Chat in TLA+

Loop Chat is an iOS app (`LoopChat/LoopChat1`, Swift, UIKit) in which developers
join communities and chat. It has no server of its own: communities and messages
live in the Firebase Realtime Database, users in Firebase Auth and in the
Firestore collection `Users`. The screens are small; what is hard is everything
that happens between a call of an SDK and its callback, and the SDKs are vendored
under `LoopChat/Pods`. This directory models the screens together with the parts of
the SDKs they depend on, checks the models with TLC, and proves with TLAPS the safety
of the list, the chat and the accounts, that Firestore's write path implements what
it promises, and part of its read path.

## Inventory

| Part | State | Operations | Talks to | Modelled in |
| --- | --- | --- | --- | --- |
| `CommunityVC` | `arrayOfCommunities`, the items the collection view believes in, its observers | `viewDidAppear`, the `childAdded` closure, `didSelectItemAt`, `cellForItemAt` | Realtime Database, Auth | `CommunityList` |
| `CreateCommunityVC` | the name field | `createCommunityButton` and its completion | Realtime Database | `CommunityList` |
| `ChatScreentVC` | `messageArr`, `userName1`, `messageTextField`, its observers | `viewDidAppear`, `getMessage`, `userNameFunction`, `sendMessage` and its completion | Realtime Database, Firestore | `ChatRoom` |
| `SignupAndLoginVC`, `ForgetPasswordVC` | what they present | sign up, log in, reset, with their completions | Auth, Firestore | `Account` |
| `SettignScreenVC` | none | `logoutButton` (and the dark mode, not modelled) | Auth | `Account`, `CommunityList` |
| `UserProfileVC` | two text fields | `getUserData`, `update`, `deleteAccount` | Auth, Firestore | `Account` |
| Realtime Database SDK | worker queue, view (server data and local writes), listens, outstanding puts | `observe`, `childByAutoId().setValue`, messages of the server, reconnection | server | `RealtimeDatabase` |
| Auth SDK | `currentUser`, token requests | requests, completions, tokens, news of a change of user | server, Firestore's credentials provider | `Account`, `FirestoreWrites` |
| Firestore: mutation queues, write pipeline, write stream | queues of each user on disk, `write_pipeline_`, stream state, `mutation_callbacks_` | `WriteMutations`, `FillWritePipeline`, handshake, acknowledgement, refusal, close, timers, `HandleCredentialChange` | Auth, server | `FirestoreWrites` |
| Firestore: watch stream, aggregator, online state | targets, pending responses, pending changes, `OnlineState` and its timer | `Listen`, `StopListening`, the watch changes, snapshots, close, timers | server | `FirestoreReads` |
| Firestore: views, listeners, local store | views, listeners, document and target caches | `AddQueryListener`, `RemoveQueryListener`, `ApplyRemoteEvent`, acknowledgements, change of user | the two paths above | `FirestoreReads`, `FirestoreDocument` |

The hard behaviours: callbacks of several observers, local writes and pushed data
reach the main thread in between the user's actions; view controllers live on
after they have left the screen, because their closures hold them; requests are
answered late, out of order, or not at all; connections are lost and requests
repeated; tokens, changes of user and writes travel on three queues; an
acknowledgement and a snapshot tell of the same write in either order; the process
ends at any point, with only the keychain and Firestore's caches and queues on
disk. `PROJECT.json` lists the hazards, each at its line.

## Modules

`RealtimeDatabase` has no specification of its own. It offers the calls of the app
(`Observe`, `SetValue`, `RunCallback`, `EndProcess`) as actions that the screens
conjoin to theirs, and the steps of the worker queue, the network and the server
(`DbStep`, `RemotePut`). A child is its key, because no value is ever changed; keys
are numbers, ordered as push ids are. `raising` holds the events that a block of
the worker is dispatching: the main thread may run in between two of them, the
next block may not. `snap` and `writes` are the two layers of the view. `deferred`
holds responses to puts that came while a listen was unanswered, as
`FPersistentConnection` does so that a write does not vanish from the view before
the server's data is in.

`CommunityList` and `ChatRoom` compose a screen with that client, on each device
of `Device`. An entry of an array is the key together with the observer that
appended it, so that "once for each observer" and "once" can be told apart.
In `CommunityList` the process starts and ends; `Malformed` are children of other
clients that lack a name, which the closure skips. In `ChatRoom` the listen on
`communities` is out already, since a chat is opened from the list.

`Account` models one device with Auth and Firestore. A request of Auth goes through
three stages: the server carries it out (`Execute`, `Refuse`); the SDK changes
`currentUser` on its own queue and puts the news of it, and behind the news the
completion, on the main queue (`Deliver`, `Posted`); the main thread takes them in
this order (`HearOfUser`, `Completion`). The main queue, `main`, is one sequence, so
that the pairs of two requests do not mix. Firestore is abstract here: a queue of
writes for each user, on disk. The user it knows, `firestoreUser`, changes by the news
alone, as `current_user` of its credentials provider does; a write joins the queue of
that user, and only that queue is sent. When the app starts, the provider may be
made before or after Auth has loaded the user (`StartSession`).
`update` and `deleteAccount` read `currentUser` twice, and the SDK may change it in
between (`AskAgain`). Screens are numbered so that a completion can find its screen
gone. `excused`, `cutOff`, `openedBy`, `loadedFor` and the field `from` of a write are
history that only the properties read.

`DocumentStore` states what the Firestore client promises about writes: the server
commits a prefix of a user's queue, in the order of the calls and under that user's
credentials; a write leaves the queue only by an answer about itself; an answer may
get lost, and then the prefix is committed once more.

`FirestoreWrites` is the client that keeps the promise, one action for each item of
its three queues. Auth's queue changes the user (`SignIn`) and serves token requests
(`TakeUser`, `FetchToken`); the main queue delivers both kinds of news to the
credentials provider (`HearOfUser`, `HearOfToken`), which drops a token when its
counter has moved; the worker runs the rest. `FillWritePipeline` is one definition
with several callers, as in the code. `wire` is the connection the server reads from:
when the client hangs up, the server may still commit what it has received, until
it answers the next handshake. The refinement mapping (`Promise`) reads `done` off the
answers on `wire`.

`FirestoreDocument` has documents and mutations: what a queued write does to a
document, what a committed one does, and the local document under a queue. The app
writes all fields of a document at once, so a content is the number of the write.

`FirestoreReads` is the way of a `getDocument`: it listens until the first event
(`AddQueryListener`, `RemoveQueryListener`), the watch stream brings changes to the
aggregator, a snapshot applies them to the cache and the views. Versions are places in
the server's log. Writes take the way that `DocumentStore` promises
(`CommitWrite`, `HandleSuccessfulWrite`, `LoseAnswers`), so that the two paths meet
in the cache without being multiplied. `Publish` is the common end of every action:
the views and the online state change and the gets that may be answered are.

`MCCommunityList`, `MCChatRoom`, `MCAccount`, `MCFirestoreWrites` and
`MCFirestoreReads` are the instances for TLC. The proofs are in `CommunityListProofs`
and `ChatRoomProofs` (on the lemmas of `RealtimeDatabaseProofs`), `AccountProofs`,
`FirestoreWritesProofs` (on `FirestoreWritesPipeline`),
`FirestoreReadsProofs` and, on it, `FirestoreReadsWatch`. A definition marked `(mutant)` is a plausible
mistake in the definition that follows it. No action uses it; it is there to show
that a property would notice.

### What is assumed of the servers

- Firestore's write stream: answers come in the order of the writes; a permanent
  error is about the head of the pipeline; the server closes no stream with OK; it
  answers a handshake when it has finished with earlier connections of the client.
- Firestore's watch stream: requests are taken in order and every one of them is
  confirmed or denied; a snapshot is consistent for all targets on the stream and says
  `CURRENT` to a target that is new; a target that resumes hears what changed since
  its token.
- Auth: a request is carried out or refused once; its answer may be lost.

## What is checked

Runs that pass:

- `community_list`: one device, two visits to the list, two communities of other
  clients (one malformed) and one created here, one lost connection.
  `NoLostCommunity`: the newest observer has appended, or will be told of, every
  named child of the view, although `viewDidAppear` empties the array while
  callbacks are underway. `OncePerObserver`: it appends a child once, though a
  created community arrives as local write, pushed data and in a new copy of the
  list. `StoredStaysVisible`: an acknowledgement does not take a stored child out of
  the view. `EventuallyListed`: what the server stores is listed in the end.
- `chat_room`: one device, two chat screens (or one that appears twice), two
  messages. The same two safety properties for messages, and: a message on a
  screen is stored, refused, or still held for sending (`ShownIsStoredOrPending`);
  a screen that has signed a message signs the later ones (`SignedStaysSigned`);
  messages whose push ids grow stand in the order they were sent (`SenderOrder`);
  the field is emptied only for a stored message of that screen
  (`ClearedOnlyWhenStored`).
- `account`: two users, two addresses, three calls. Every account has its document,
  or the write of it waits in the user's own queue, or its sign-up is not over, unless
  a request failed, the process ended during the sign-up, or the owner deleted it
  (`ProfileAccounted`). A user whom Firestore knows and whose sign-up is over finds the
  document, with the same exceptions, whatever sign-ups and logins of others are
  answered in between (`OwnProfileFound`): it would fail if the completion were put on
  the main queue before the news of the user. A profile screen shows no other user's
  document (`ShowsWhoOpened`).
- `firestore_writes`: two users, three writes, a pipeline of two, one change of user
  (or of the token), one failure, one crash. `Refines`: the client implements
  `DocumentStore`. `StreamOfUser`: the stream that is open has the token of the user
  whose queue it sends. `TokenFindsStarting`: a token that passes the check of the close
  count finds the stream starting, as `stream.cc:171` asserts. `AnswersAreForThePipeline`: what is on the connection is the
  pipeline, and the pipeline is the head of the queue, so that an answer, which
  carries no id, is about the pipeline's head. `IdleHasNothingToSend`: the idle timer
  stops no stream that is needed. `CallbackOfItsWrite`: batch ids, which are handed
  out anew after a restart and a change of user, never lead to the callback of
  another write.
- `firestore_writes_live`: a pipeline of one that is full whenever there is work; all
  writes of a user who stays signed in are settled (`WritesSettle`).
- `firestore_reads`: two documents, two gets, a commit of another device, a failure, a
  crash. `SyncedIsCurrent`: a view in sync rests on the server's state at the last
  snapshot of its target. `SyncedIsFresh`: that snapshot is from after the get.
  `AckAwaited`: the messages of a target count only when all its requests are answered.
  `AssertionsHold`: the assertions in the code about timer, online state, target
  changes and idle stream.
- `firestore_cache`: two users, two writes to one document, one get, a failure, a
  denied listen, a change of user. `CacheTrue`, `CacheForward`: a cached document
  was the server's at its version, and versions never go back. `ViewIsLocalDocument`:
  the view shows the cache under the current user's writes, except while it holds a
  commit back. `LimboIsAhead`: a document is in limbo only because its commit is
  ahead of the snapshots.
- `firestore_reads_live`: two gets of one document over a failure and a crash; each is
  answered (`GetSettles`). No listen is denied (see below).

Runs that find a violation, each a disagreement with a line of the repository
(`findings` in `PROJECT.json` quotes it):

- `updates_own_profile`: a late login changes the user under the profile screen, and
  `update` writes the screen's fields into the other user's document and account.
- `signup_survives`: the process ends between two steps of a sign-up. Auth has created
  the account and kept the user in the keychain; the completion, which writes the
  document, never runs, and nothing writes it later. At the next start the user is
  signed in, and the profile and every chat trap.
- `emails_agree`: the process ends between the two requests of `update`, or Auth
  refuses the second: document and account keep different addresses.
- `unknown_is_left`: the last get ends, by its time-out, while the watch stream is
  still being opened. `StopListening` resets the online state and its timer; the
  next get finds the stream started and sets none. As long as the stream is being
  opened, or is open and silent, nothing ends that get.

Met while modelling, visible in the models, without a run of their own:

- `viewDidAppear` empties the array without a `reloadData`; a touch or a scroll in
  that window reads beyond the end (`IndexOutOfRange`).
- The observers of earlier visits append too: a new community is listed once for
  each visit.
- A login that succeeds while the login screen presents an alert: `self.dismiss`
  takes away the alert and leaves the screen (`Dismiss`).
- `deleteAccount`: when Auth is first, the sign-out strands the deletion of the
  document in the queue of a user who no longer exists.
- A target error that crosses the client's own unwatch is ignored
  (`remote_store.cc:357-360`) without being counted as a response; the count of
  pending responses never returns to zero on that stream and a later get of the
  document is not answered. `GetSettles` with `MaxDenials = 1` shows it, so the
  live run has no denials.
- A denied listen breaks the wait for the responses (`AckAwaited`). A document is listened
  to, left and listened to again; then the server denies the first listen.
  `ProcessTargetError` drops the target's count of pending responses
  (`remote_store.cc:361`), the next get counts from zero, and the response to the old
  unwatch makes its target active while two watches are unanswered: `AckAwaited` fails
  with `MaxGets = 3`, `MaxDenials = 1` (one user, one document, the other bounds 0).
  With one get and one denial more (`MaxGets = 4`, `MaxDenials = 2`, `MaxOthers = 1`)
  the "current" of an earlier listen, whose document came while the target waited, is
  taken for a deletion: the cache forgets a document that exists, and `CacheTrue`,
  `SyncedIsCurrent` and `SyncedIsFresh` fail; with `MaxGets = 5` `LimboIsAhead` too.
  With one denial and up to five gets these four hold. `firestore_reads` has no
  denials, and `firestore_cache` has one of a single get.
- A view whose stream is lost counts as in sync until the client is offline.
  `SyncedIsCurrent` is therefore stated for the target's own last snapshot.

### Bounds

`MaxHandles` bounds the calls of `observe` (visits), `MaxDrops` (list and chat) and
`MaxFaults` (Firestore) the lost connections, `MaxLaunches` and `MaxCrashes` the starts of the app, `MaxVisits` the chat
screens, `MaxCalls` the requests, `MaxControllers` the login and profile screens,
`MaxWrites`, `MaxGets`, `MaxOthers`, `MaxSignIns` and `MaxDenials` what their names say.
Two observers are needed to confuse them; two keys for an order; one lost connection
for every repetition, since a second one starts from the same states. In `account` acknowledgements and answers may be
lost any number of times. The list has
one launch: what a process finds when it starts later is what it finds when others
have written before it, and the theorem covers any number. Three calls let a
request, a lookup and a late request overlap. Three writes over a pipeline of two (10
in the code) fill it and leave one waiting. Two documents are needed for a snapshot
of several targets, two gets for a second listen to one target. `account` and the
safety runs of Firestore use symmetry: users, addresses and documents are
interchangeable; the runs that check liveness use none. The runs do not check for
deadlock: a device may be switched off, and every bound ends in a state where
nothing more is allowed.

### Fairness

Weak fairness for what the platform guarantees: the main queue and the worker
queue are served, timers fire, and a server that is reached answers.
`CommunityList`: `MainStep`, `WorkerStep` and `AnswerListen`. `FirestoreWrites`: the
queues, the backoff timer, Auth's answers to token requests (which may be errors,
up to the bound), and the server's answers, whichever they are. `FirestoreReads`
has two strengths. `ClientSpec` asks only for the client's timers and queues: the
network owes nothing, which is the situation the online timer is for.
`FairSpec` adds a server that takes requests, sends snapshots and is heard. No
fairness for the user, for a failure, for a crash, or for the acceptance of a write.

## What is proved

Every theorem is for any value of the constants: any devices, users, documents,
keys and bounds; only the five of `FirestoreReadsWatch` have a hypothesis
(`MaxDenials = 0`). They rest on the assumptions of the modules alone
(`DatabaseAssumption`, `ListAssumption`, `ChatAssumption`, `AccountAssumption`,
`FirestoreWritesAssumption`, `FirestoreReadsAssumption`): keys of the Realtime
Database are naturals, `None` is no user, the pipeline has room for a write, a device
comes across finitely many documents, bounds are naturals. Where an argument goes
by counting, it takes the least or greatest number of a set from the theorem that
`<` is well-founded on the naturals; the induction theorems of the library cannot
be used.

### Realtime Database: `RealtimeDatabaseProofs`

Lemmas about the client that hold whatever screen it serves, in four parts:

- types, and what each step leaves alone: the server and the other devices reach a
  device only through its inbox (`NetworkApart`, `WorkerElsewhere`), and what the worker
  dispatches reaches every registered observer (`WorkerDelivers`);
- `Truthful`: what the server says, it stored; what a view shows is stored, refused
  or outstanding (`Vouched`); a completion tells what the server answered;
- `Orderly` with `EventsOnce`: a write waits in one place and belongs to one device; an
  acknowledgement is only for a put without an answer; the data that holds a child
  comes before the response to its put. So a stored child does not leave the
  view, a key that has left it is settled and never returns, and no event is
  raised twice;
- `PairInOrder` with `EventsInOrder`: two puts of one device, followed to all the others
  (see `SentInOrder` below).

### The list: `CommunityListProofs`

`TypeCorrect`, `NothingLost` (`NoLostCommunity`), `AppendedOnce` (`OncePerObserver`),
`StoredStays` (`StoredStaysVisible`).

`NoLostCommunity` is not inductive. `IInv` adds three facts. `NewestKnown`: the
newest observer is registered or waits for the worker, so that a child entering the
view raises an event for it, or is in the view when it is registered. `Asleep`:
before CommunityVC has appeared the client holds nothing, so that no child is in
the view before there is an observer. `ListCameFirst`: every other screen comes
after the list's appearance, so that no write precedes the first observer. The
argument follows one child on one device through every action. `OnceInv` adds the
order of the client to it: what is in the array or on its way as an event is in the
view or gone for good, so the view cannot raise it again.

### The chat: `ChatRoomProofs`

`TypeCorrect`, `NothingLost` (`NoLostMessage`), `AppendedOnce` (`OncePerObserver`),
`ShownIsKept` (`ShownIsStoredOrPending`), `FieldKept` (`ClearedOnlyWhenStored`),
`GoesOnSigning` (`SignedStaysSigned`), `SentInOrder` (`SenderOrder`).

`ObserversKnown` plays the part of `NewestKnown` for every screen, since here each has
an array of its own. `ScreensTruthful` says that an array holds only what the client
has vouched for; `NamesStay`, that a screen that has signed once has its user's name,
which nothing takes away.

`SentInOrder` says of two messages of one user, k sent before l, with the smaller push id
and neither of them refused, that every observer on every device appends k first. The
invariant `OrderInv` follows the pair along its whole way. `PutsInOrder`: k is before l in
the worker's queue, and the put of k has the smaller index, which a repetition keeps.
So the server, which answers the puts of a device by their indices, has stored k
when it stores l (`AcceptedInOrder`; `Dated` says that what it has answered is stored or
refused). `ToldInOrder`: a view that has l has k, and a message with l comes behind one with
k, or to a worker that has k, also when the whole list is sent again. `EventsInOrder`: while
an event about k is still to be raised or delivered to an observer, none about l is before
it, and none has been delivered. An event for l that was delivered while k was not in
the view would be the way to lose this; the step that raises events shows that it is
none, since l was then announced, hence in the view, and k with it. `SentKnown` is what
makes the invariant inductive at the moment the user sends l: k is then waiting for
the worker, in the view, or refused. Of l nothing is anywhere, so that every part holds of
the new pair at once (`FreshInOrder`).

### The accounts: `AccountProofs`

`TypeCorrect` (with it, that no completion finds a screen that is not there),
`Profiles` (`ProfileAccounted`), `FindsOwn` (`OwnProfileFound`), `ShowsItsUser`
(`ShowsWhoOpened`), from `Inductive`.

`RequestsKnown`: a request is at a stage of its kind, for a user who was given out.
`ScreensInPlace`: the screens are numbered without gaps. `LookupsOfScreens`: a lookup is
for the user its screen appeared to, although `currentUser` has changed since.
`DeletionsExcused`: a deletion in a queue is one that its owner asked for.

That a write of a new document joins the user's own queue is the point of
`ProfileAccounted`, and it needs the order of the main queue. `MainKnown`: what is on it is
news or an answered request. `NewsInOrder`: whom Firestore will know after the whole queue is
whom Auth has now (`Hears`), and the completion of a sign-up finds Firestore knowing
the new user (`InOrder`), because no news of another stands between this user's and
the completion. `ProcessEnds`: without a process
there is neither a request nor a main queue. With these, `SignupDone` writes to
`mutations[r.user]`, and since only that queue is sent while Firestore knows the user,
`OwnProfileFound` follows: the local document is the server's, or there is a write of it in
the queue and no deletion behind. The local document under a queue is a recursive
function (`LocalDoc`); `LocalDocSteps` proves that there is such a function and states its
steps, and `FindsDocument` that a document, once there, stays along the queue; where
either argues along the queue, it looks at the least place that would be wrong.

### Firestore's write path: `FirestoreWritesProofs`

`TypeCorrect`, `OwnStream` (`StreamOfUser`), `TokensFindStarting`, `IdleStreams`
(`IdleHasNothingToSend`), `OwnCallback` (`CallbackOfItsWrite`), `AnswersFit`
(`AnswersAreForThePipeline`) and `Implements` (`Refines`), from `Inductive`.

The invariant has two halves. Users and tokens (`FirestoreWritesProofs`):
`NewsInOrder`, the changes of user on the main queue and on the worker lead from each
part's user to Auth's; `TasksOfUser` and `TokensOfUser`, a token is for the user whose
news stands before it; `OneIsWanted`, of the requests, news and tasks that carry the
stream's close count there is one, while the stream starts. Pipeline and connection
(`FirestoreWritesPipeline`): `IdsAscend` and `PipelineIsHead`, the pipeline is the head
of the user's queue, by batch ids that are unique only within a queue;
`StreamHasWire` and `WireIsHead`, the answers and the writes on the connection are, in
this order, the head of a queue, even when the client has hung up.

`Implements` maps `HandleHandshake` to `Forget` of the user on the wire, the server's
`Commit` and `Refuse` to `CommitNext` and `RefuseNext`, `MutationResult` to `Settle`,
`HandleWriteError` to `Drop` and `WriteMutations` to `Add`; every other action stutters.

### Firestore's read path: `FirestoreReadsProofs`

`TypeCorrect`, `NeverBack` (`CacheForward`), `ShowsLocalDocument`
(`ViewIsLocalDocument`), `NoAssertionFails` (`AssertionsHold`).

- The types carry what `CacheForward` needs: no document known to the client is newer
  than the server's last commit, so a `HandleSuccessfulWrite` or an applied snapshot
  finds an older version, and `ApplyRemoteEvent` skips the rest.
- `ShowsLocal` is `ViewIsLocalDocument` as one formula. Every action that
  changes cache, queue or user ends in `Publish`, which computes the views of the
  documents it touched; the lemmas show that for all others the local document is
  the same: a write appended to the queue, or taken from its head, that is about
  other documents (`AppendedApart`, `TakenApart`).
- `AssertionsHold` needs three facts that no assertion states. `TimerRuns`: the timer
  of the online state runs only while a stream is started. `IdleIsOpen`: an idle
  stream is open and nothing listens. `MatchKnown`: an open view counts its document
  as synced exactly when the local store has it as a match of the target, and the
  aggregator says "modified" only of a match.

### What the watch stream guarantees: `FirestoreReadsWatch`

`WaitsForAck` (`AckAwaited`), `CacheIsTrue` (`CacheTrue`), `SyncedRestsOnServer` (`SyncedIsCurrent`), `SyncedAfterGet`
(`SyncedIsFresh`) and `LimboOnlyAhead` (`LimboIsAhead`), for any users, documents, gets,
writers, lost streams and crashes, under the hypothesis `MaxDenials = 0`: no listen is
denied. The properties are about the end of a long chain (a request, its answer,
the documents and "current" behind it, the snapshot, the cache, the view, the token that
is saved and sent again), and none is inductive. `WatchInv` follows the chain:

- `StreamInv`, what is on the stream. `Counts`: the aggregator's pending responses
  of a document are the requests that the server has not taken and the answers that the
  client has not had, so a target is active exactly when nothing on the stream is about
  an earlier listen to it (`PendingIsLive`). `Ordered`: the versions of the snapshots
  ascend from `lastRemote` on. `Blocks`: a document comes with its snapshot,
  no answer between them, so no document is read under one listen and applied under
  another. `Heard`, for each document listened to (`Listens`): the last request starts
  from the view's token (`Requests`); no snapshot leaves out a document that
  has changed, and the server knows how far the client will have heard (`Hears`);
  "current" comes before the first snapshot of a listen (`Currents`), and that snapshot
  is from after the get (`FreshSnapshots`). All are stated for every place on the
  stream, not only for its head: a message is sent long before it is read, and other
  gets begin and end in between.
- `DocsTrue` and `AcksTrue`, what is on its way or in the cache: a document, from the
  stream or from an acknowledgement, is the server's at its version.
- `Targets`, what is saved: the cache is not older than the token of a target, neither
  the saved one nor the view's, and the matching documents are those that existed at
  that token. `ShouldPersistTargetData` lets a saved token fall behind the view's; a view
  that is opened anew starts from the older one, which is why both are followed.

The hypothesis cannot be dropped: a denial drops the target's state while answers to
later requests are still to come, `Counts` fails from then on, and after two denials
all five properties are false (see "Met while modelling"). No listen of this app is denied as long
as it runs with rules that let a signed-in user read the documents it asks for; the
rules are not in the repository.

### Only model-checked

- Liveness (`EventuallyListed`, `WritesSettle`, `GetSettles`): the prover has no
  fairness and no `ENABLED`. With them the four runs that expect a violation.

## Not modelled, or modelled without a property

- `deleteCommunity`: its button is disabled in `viewDidLoad` and nothing enables it.
- A chat that appears again after a swipe back that is let go has its one array
  filled by two observers; the model has it, no property is stated.
- Layout: cells, bubbles, the slide between login and sign-up, the dark mode.
- A listen that the Realtime Database's security rules cancel; the rules are not in
  the repository.
- `updateEmail` is taken to be serial for a user, as it is within one sign-in; two
  sign-ins of one user are not told apart.
- Firestore: `enableNetwork` and `disableNetwork`, transactions, bundles,
  `waitForPendingWrites`, collection queries and limits, which the app does not use;
  existence filters, target resets and limbo resolution, which a listen to a single
  document does not need (`LimboIsAhead`); garbage collection of the cache; the
  stream token, which the handshake does not act on; the forced refresh of a token
  after `UNAUTHENTICATED`.
- The bytes: serialisation, gRPC, leveldb (a transaction is atomic), and the pods the
  app does not call. They are most of the repository's lines, vendored as released,
  and carry nothing of this app's logic.

## Plan

1. Done: `RealtimeDatabase`, `CommunityList`, `ChatRoom`, `Account`; types and
   `NoLostCommunity` of the list proved.
2. Done: `DocumentStore`, `FirestoreWrites` and the refinement, `FirestoreDocument`,
   `FirestoreReads`; the two reads of `currentUser` in `Account`.
3. Done: the proofs above.
4. Done: the invariant of the watch protocol without denials, and from it `CacheTrue`,
   `SyncedIsCurrent`, `SyncedIsFresh` and `LimboIsAhead`.
5. Done: `SenderOrder`, the last of the invariants.
6. Settled: the properties of the watch protocol with denials. They are false from two
   denials on, so there is nothing to prove (see "Met while modelling").
