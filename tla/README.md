# College Canteens: specification and proofs

TLA+ modules for the application's own code (`lib/`, Dart/Flutter over Firebase) and
for the part of the Firestore client (C++, in the repository under `macos/Pods`) that
the application rests on: how writes leave a phone and how snapshots reach it. With
them go TLC configurations that check the modules on small instances, and theorems
checked by TLAPS. A `file.dart:line` refers to `lib/` or `lib/screens/`, a
`file.cc:line` to `macos/Pods/FirebaseFirestore/Firestore/core/src/` and its
directories.

## The system

Students order food from one canteen on their phones; the canteen's admins see
the orders on theirs, mark them as served and switch menu items on and off. There
is no server code: every phone works on the same Firestore documents, through a
client that keeps a cache and a queue of unsent writes in LevelDB.

| Part | State | Operations | Talks to |
|---|---|---|---|
| Start of the app: `main.dart` | `_user`, `isLoading`, `isAdmin`, `usrdata` | `route()`: no user → `/auth`; otherwise reads `Users/<phone>` and shows one of the home pages | FirebaseAuth, the account's document |
| Sign-in: `screens/authenticate.dart` | `curr_state`, `showLoading`, `_verificationId` | Verify, Confirm, the callbacks of `verifyPhoneNumber`, `signInWithPhoneAuthCredential` | FirebaseAuth; creates `Users/<phone>` if it is missing |
| Student's home page: `screens/user_homepage.dart` | `currIndex`, the Navigator's stack | tabs, Sign Out | holds the order screen and the wallet |
| Order screen: `UserHomePage/menu.dart` | `cart`, `subtotal`, the last menu snapshot | +, -, Pay and its dialogs | reads the canteen's document and the balance; writes an order |
| Wallet: `UserHomePage/wallet.dart` | none | shows the balance | reads `Users/<phone>` |
| Admin's home page: `screens/admin_homepage.dart` | `navBarIndex` | tabs, Sign Out | holds the three pages below |
| Pending and served orders: `AdminHomePage/pending_orders.dart`, `served_orders.dart` | the last snapshot of a query each | the check mark | updates `isServed` of an order |
| Menu page: `AdminHomePage/change_menu.dart` | the `menu` map of the last build, changed in place | two buttons per row that toggle `isAvailable` | writes the whole `Menu` map of the canteen's document |
| `shared/` | none | a snackbar nobody calls, a decoration | - |
| Firestore, writes: `leveldb_mutation_queue.cc`, the write half of `remote_store.cc`, `stream.cc`, `write_stream.cc`, `grpc_stream.cc` | mutation batches per user, `next_batch_id_`, `write_pipeline_`, the stream's state and timers, the writers' callbacks | write, fill the pipeline, handshake, answer, error, change of user or network | LevelDB; the write stream |
| Firestore, one query: `local_store.cc`, `query_engine.cc`, `view.cc`, `sync_engine.cc` | cached documents, target keys and resume token, the view, limbo documents | local write, answer, snapshot, existence filter, listen, online state | LevelDB; the watch stream's snapshots |
| Firestore, listening: the watch half of `remote_store.cc`, `remote_event.cc`, `online_state_tracker.cc`, `query_listener.cc` | `listen_targets_`, target states with `outstanding_responses_`, online state and timer | listen, stop, each message of the stream, failures, timers | the watch stream; the views |

Parts interact through three kinds of shared document only: `Users/<phone>`
(`isAdmin`, `Balance`), the canteen's document (`Menu`) and its `Orders`. On one
phone they interact through the Navigator: dialogs and Sign Out push and pop the
same stack, and popping a route is what resumes a handler that awaited it. A screen's
`set()` or `update()` becomes a mutation batch, which the write path delivers and the
view shows at once; a `snapshots()` becomes a target, whose changes the watch stream
sends and the view merges with the phone's mutations. Everything in the client is a
task of one serial queue.

What is hard here, and where:

- *Handlers that give way.* Dart runs one handler at a time, but each `await` lets
  others run. Pay waits for the balance and then for its dialog, and reads
  `cart` and `subtotal` after the first wait. Sign Out waits for Firebase and then
  pops whatever route is on top. Two sign-in handlers may be under way at once,
  since Firebase may read the SMS while the code is being typed.
- *Values derived twice.* `subtotal` is kept by additions and subtractions next to
  a cart whose entries are replaced; an empty cart is recognised by the subtotal.
- *Writes that are not awaited.* Orders, marks and menu changes are queued on the
  phone; the phone shows its own view at once and may be killed before they leave.
- *Stale views.* Lists and menus show the last snapshot that was built. Taps on
  them write what that snapshot said, and two admins may tap at once.
- *Read, then write.* The account's document is read and then created without a
  transaction.
- *Failures.* Only `FirebaseAuthException` is caught anywhere.
- *Writes sent again.* A write whose answer is lost is carried out a second time, over
  whatever others did since: the screens write whole documents and maps.
- *Two streams.* The answer to a write and the snapshot that contains it arrive in
  either order; a target may be left and listened to again while answers to earlier
  requests are under way.
- *Kills.* LevelDB keeps the queue, the cache and a resume token that may lag behind
  the one in memory; batch ids are given out again.
- *Timers.* Tokens, back-off, idle and online timers may come due after the stream
  they were set for has gone.

What makes each part correct: the order screen charges what the cart costs, loses
no unit and orders none twice, and signing out leaves nothing of the page behind;
sign-in ends, gives the home page only to a user with an account, and does not
disturb an account that exists; the menu page loses no tap and agrees with the
server in the end; orders, once confirmed, reach the kitchen and stay served; the
client delivers writes in order and at least once, shows what the query gives over
its cache, calls a snapshot in sync only when it is, and answers every listen. The
list of hazards, each at its line with the properties that cover it, is in
`PROJECT.json`; `SyncedView` and `WatchTargets` both have a `KeysMatchToken`, and of a
hazard on the way of a listen's messages it is that of `WatchTargets`.

## Modules

| Module | Models | Kind |
|---|---|---|
| `Menu` | order screen and student's home page of one phone | component |
| `Session` | launch, sign-in and sign-out on the phones of one account | component |
| `ChangeMenu` | the admins' menu pages and the canteen's document | component |
| `OrderBook` | what students and kitchen count on | abstract specification |
| `Orders` | orders between the students' phones, Firestore and the kitchens' lists; implements `OrderBook` | composition |
| `Outbox` | what an app that does not await its writes counts on | abstract specification |
| `Stream` | a stream's state, token and timers (`stream.cc`) | operators |
| `WritePipeline` | mutation queue, pipeline and write stream of one phone; implements `Outbox`, uses `Stream` | component |
| `SyncedView` | cache, view, limbo documents and resume token of one query | component |
| `WatchTargets` | listened targets, aggregator and online state; uses `Stream` | component |
| `MenuProofs`, `SessionProofs`, `ChangeMenuProofs`, `OrdersProofs`, `WritePipelineProofs`, `SyncedViewProofs`, `WatchTargetsProofs` | theorems about the component each is named after | proofs |
| `SyncedViewExact` | on top of `SyncedViewProofs`: the view is exact | proofs |
| `MCSession`, `MCSyncedView` | symmetry sets for the runs | model checking |

The modules of the screens assume of Firestore what the modules of the client show:
`Orders`, `ChangeMenu` and `Session` have queues of unanswered writes that are carried
out in order and perhaps again, which is `Outbox`; the snapshots that `Orders` and
`ChangeMenu` build are the phone's own writes over a version the server had, which is
`ViewIsLocal` and `CacheIsHistory` of `SyncedView`.

### Menu

| Code | Model |
|---|---|
| `cart`, `subtotal` (menu.dart:20-21) | `cart`, `subtotal`; a missing key is `Null` |
| `StreamBuilder` (menu.dart:26-44) | `stream`, `shown`, `MenuSnapshot`, `MenuError`, `submenu` |
| + and - (menu.dart:81-138) | `Add`, `Remove`; `Entry` and `TakeOut` are the map literals, with the `+ 1` of menu.dart:132 as coded |
| Pay up to the first await (menu.dart:169-173) | `TapPay`: one more handler in `paying` |
| Pay from there to the dialogs (menu.dart:174-258) | `PayResume(b)`, for any balance `b`; `PayFails` if the document cannot be read |
| the end of Pay (menu.dart:259-262) | `ClearCart`, inside whatever action pops the confirmation (`ResumePopped`) |
| OK, back, a tap beside a dialog | `PopRoute` |
| Sign Out (user_homepage.dart:29-32) | `TapSignOut`, `SignOutDone` with `popAndPushNamed` |
| the Navigator | `routes`, bottom first |

The balance and the menu come from documents that others write, so any value of
the right type may arrive at any time. Handlers of a page that has been disposed
go on until the line that throws (`showDialog`, `Navigator`), as in Flutter: an order is still
written, a dialog is not shown. `put`, `ordered`, `repriced`, `overlapped` and
`crossed` are history and read by no guard.

Properties:

- `SubtotalIsWorth`, `OrdersPriceTheirItems`: the subtotal, and the price of each
  order, is the sum over the cart, and an order is not empty. The exception
  (`repriced`) is a tap on an item of the cart whose price has changed: the code
  then mixes both prices. `Worth` is defined by counting rupees, not by a sum kept
  the way the code keeps it.
- `NothingLost`, `NothingTwice`: every unit put into the cart is there or in an
  order, and in one order only. The first holds without exception; the exception of the
  second (`overlapped`) is a Pay tapped while another is waiting, which orders the
  cart twice.
- `SignOutIsClean`: after signing out the page is gone and no order is written. The
  exception (`crossed`) is a Pay and a Sign Out that wait at the same time: the
  dialog is popped in place of the page, or the order written for nobody.

The exceptions are as narrow as the code allows; without them TLC finds
`SubtotalIsWorth`, `NothingTwice` and `SignOutIsClean` violated.

### Session

One account and several phones. `Launch`, `InitAnswered` and `InitFails` are
`InitializerWidget`; `TapVerify`, `CodeSent`, `VerificationFailed`,
`VerificationCompleted` and `TapConfirm` the sign-in page; `SignInDone`,
`SignInRefused`, `DocAnswered`, `SignInResumes`, `SetCommitted` and `RunFails` the
pieces of `signInWithPhoneAuthCredential` between its awaits, for each of several
runs. `Kill` ends a phone's handlers and keeps what FirebaseAuth and Firestore
keep: the user, and unsent `set()` calls (`leftover`). `AnswerLost` carries such a call
out and keeps it, as a write is whose answer is lost. `Recharge` and `Promote` are
the canteen's office at the Firestore console, the only way a balance or a role
changes. Page `"stuck"` is `/init` whose `route()` ended with an exception:
`isLoading` stays true and nothing on the page leads away.

`broken` collects what has gone wrong on a phone, by
cause; `raced` that two runs held the answer that there is no document, or that the
answer to a `set()` was lost.

Properties: `HomeHasAccount` (a home page has a user and a document behind it,
unless Firestore refused a `set()`), `StuckHasCause` (only a Firestore failure or a
kill between sign-in and `set()` hangs `/init`), `SpinnerHasWork`, `AccountKept` (an
existing account keeps balance and role, unless it was `raced`), `EntryResolves`
(leads-to), and `BalanceIsNotTheClients`, which is violated (see Findings).

### ChangeMenu

Each admin's phone has the server's document as Firestore `known`s it, an `outbox`
of whole-menu writes, a queue `coming` of snapshots on their way to the page, and
`menu`, the map of the last build, which `Toggle` changes in place before writing it.
`Build`, `Commit` and `Fetch` move these at their own pace; `SelectTab` rebuilds
the page with a new stream (the Stack of admin_homepage.dart keeps all pages in the
tree, and `canteen.snapshots()` is called in `build`). Both buttons of a row have
the same handler. `AnswersLost` carries the oldest writes of a phone out and leaves
them in its `outbox`.

Properties: `NoTapLost` (taps and console prices survive unless made over a change
the page did not show, or another's write that was not answered: the whole map is
written) and `PagesAgree`.

### Orders and OrderBook

`OrderBook` knows orders that are placed, then served; until the student's phone has
the answer to its write (`owed`), a served order may come back (`Reopen`), since the
write of the whole document may be carried out again. From then on an order is never
taken back. `Orders`
has the students' queues of unsent orders, the server's `isServed`, and for each
kitchen what its Firestore has, its unsent marks and its two lists. `Leave` and
`Return` kill or sign out a phone and bring it back; `AnswersLost` and `MarkUnanswered`
carry writes out whose answers are lost. `ImplementsOrderBook` is the
refinement, with `book` mapped from the server's documents and the unsent orders;
`KitchenIsTruthful` relates lists and marks to the server; `OrderReachesKitchens`
and `MarkReachesKitchens` are the liveness properties.

### Stream, Outbox and WritePipeline

| Code | Model |
|---|---|
| `Stream::State`, `close_count_`, the stream's timers (stream.cc) | the record of `Stream`: `state`, `credentials` (a token is asked for), `retry`, `idle`; `Close` voids what is still to come, as the close count does. `Healthy` is `Open`: only the log and the invalidation of tokens tell them apart |
| mutations in LevelDB, ordered by batch id; `LoadNextBatchId` | `queue` per user, `nextBatchId`; ids are given out again after a change of user or a restart. `RemoveMutationBatch` and filling the pipeline look rows up by their id: `BatchesBefore`, `BatchesAfter` |
| `mutation_callbacks_` (sync_engine.cc) | `callbacks`; what writers were told is `told` |
| `write_pipeline_`, `FillWritePipeline` | `pipeline`; `FillWritePipeline` is part of every handler that calls it |
| the gRPC call (grpc_stream.cc) | `wire`: requests up, answers down, how the call ended. A failed write ends the call at once and drops answers not read, except one already due to the pending read |
| `OnWriteStreamHandshakeComplete`, `OnWriteStreamMutationResult`, `HandleWriteError`, `OnWriteStreamClose` | `HandshakeComplete`, `OnWriteStreamMutationResult`, `HandleWriteError`, `RetryAfterError` |
| user, network, process | `HandleCredentialChange`, `RestartNetwork`, `DisableNetwork`, `EnableNetwork`, `Kill`, `KillAfterNotifyUser` (between the callback and LevelDB's transaction), `Launch` |

The server takes the requests of a call in order and refuses those in `Bad`, which
ends the call with a permanent error. `Outbox` is the promise: a user's writes are
carried out in order, each at least once, until answered. `ImplementsOutbox` maps
what the server has done in the present call to `done`.

Other properties: `PipelineIsQueueFront` (the pipeline is exactly the front of the
signed-in user's queue), `AnswersMatchPipeline` (answers are put down to the batch
they are for), `CallbacksMatchQueue` (no callback survives for a reused id; "done" means
committed), `RefusedHasCause`, `EveryWriteSettles`; the stream's assertions about its
timers are conjuncts of `TypeOK`.

### SyncedView

The query is that of the Pending tab. `cache`, `readTime`, `remoteKeys` and `saved`
are in LevelDB; `target` is the copy of `saved` in memory, which runs ahead since a
resume token alone is not always worth a write (`ShouldPersistTargetData`). `view` is
`View`: documents, `mutated`, `keys`, `current`, `limbo`, and `synced` for a snapshot
that is not from the cache. `WriteMutations`, `HandleSuccessfulWrite`,
`HandleRejectedWrite`, `ApplyRemoteEvent`, `ResetTarget` (an existence filter that does
not fit), `HandleRejectedListen` (of a limbo document), `ApplyOnlineStateChange`,
`Relisten` and `Restart` each end in `EmitNewSnapshots`, or build the view anew by the
index-free query (`Considered`). `position` is where the server's target stands. The
answer about a document in limbo comes on a target of its own: it changes the cache, and
the query's keys only if the query's own target is sent the document too (`touched`).

The server keeps a `history` of versions. A snapshot brings the target from
`position` to any later version; documents that were in the query only between the
two may be sent or not, and one that left it may be sent as it is or only as removed.

Properties: `ViewIsLocal` (the view that is kept up to date by changes is what the
query gives over LevelDB), `SyncedSnapshotIsExact`, `KeysMatchToken` (keys and resume
token are of one version, in memory and in LevelDB), `CacheIsHistory`, `NeverGoesBack`
(no answer or snapshot undoes a newer one), `Converges`, and `SavedWithItsKeys`, which
is violated (see Findings). Two pieces of history state the exceptions. `torn`: keys were
dropped and the query has not been listened to from zero since. `view.partial`: the page
was built again while `torn`. Then the index-free query has passed documents over, and
listening from zero does not bring them to the view: the cache does not take a document
of the version it has (local_store.cc:600-632), so that nothing changes locally.

### WatchTargets

| Code | Model |
|---|---|
| `listen_targets_` and the tokens in it | `listening`, `held` |
| `target_states_`: outstanding responses, document changes, `current_` | `states`, with no entry until one is asked for (`State`, `Put`, `RemoveTarget`) |
| `pending_target_resets_` | `resets` |
| LocalStore's keys and tokens, the view's | `keys`, `token`, `lastRemote` |
| each kind of message, through `OnWatchStreamChange` | `HandleAdded`, `HandleRemoved`, `HandleCurrent`, `HandleDocumentChange`, `HandleReset`, `HandleExistenceFilter`, `RaiseWatchSnapshot`, `IgnoreSnapshot`, `ProcessTargetError` |
| the watch stream | `stream`; `OnWatchStreamClose`, `IdleTimeout`, `BackoffElapsed`, `ResumeStartWithCredentials` with the watches restored |
| `OnlineStateTracker` | `online`, `failed`, `timer`; `OnlineStateTimeout`, `HandleWatchStreamFailure`, `UpdateState` |
| `QueryListener`: the first snapshot | `shown` |

The server takes requests in order, acknowledges or refuses each, and sends in one go
what brings its targets to a version, with a resume token for all of them: as changes,
as additions and a filter, or as a reset and everything.

Properties: `AssertionsHold` (the code's assertions on stream, timers and online
state), `OutstandingIsDue` (as many answers are under way as are counted),
`KeysMatchToken` (what was gathered for one listen is never taken for another's),
`CurrentIsCaughtUp` (a current view is as new as its listen), `ListenIsAnswered`, and
`OnlineStateSettles`, which is violated. Three pieces of history state the exceptions:
`torn` as in `SyncedView`; `hurried`: the target's state said current from an earlier
listen, since the answer to a listen clears the gathered changes only
(remote_event.cc:155-162 speaks of "any state that we had previously"); `miscounted`: a
refusal removed the target's state while another request for it was under way
(remote_store.cc:354-366), after which the count is wrong until the stream restarts and
the query may stay unanswered. What a snapshot makes of a query that is miscounted is
`torn` and `hurried` as well: if it is listened to again, left and listened to once more
on that stream, an old answer counts for a later listen, and what the server sends of
the earlier one is gathered for the later one. TLC finds this with four listens of one
query and one refusal, beyond the two listens of the run; the attempt to prove the
invariants without the exception showed it, and the theorems hold for any number.
Without the exceptions TLC finds each property violated.

## Runs

| Run | Instance | Shows |
|---|---|---|
| `menu` | 1 item, prices {1,2}, quantity 2, 2 orders, 1 Sign Out | money, units and signing out, with prices that change between taps and overlapping Pays |
| `session_two_phones` | 2 phones, 1 run each | accounts under kills, lost answers and races between phones |
| `session_two_runs` | 1 phone, 2 runs, fair | overlapping sign-in handlers; sign-in ends |
| `session_reset` | 2 phones, 1 run each | expected violation: a balance is reset |
| `change_menu` | 2 admins, 1 item, 2 taps, 1 edit, 1 loss, fair | no lost taps; pages agree in the end |
| `orders` | 1 student, 2 kitchens, 1 order, 2 losses, fair | refinement of the order book; orders and marks arrive |
| `write_pipeline` | 2 users, 4 writes, the third refused, pipeline of 2, fair | refinement of the outbox; every write is answered |
| `synced_view` | 2 documents, 1 own write, 1 change by others, 1 loss, 2 filters, 1 refused limbo document | the view and its claims |
| `synced_view_live` | 1 document, 1 own write, 1 change, 1 loss, fair | convergence |
| `synced_view_reset` | 2 documents, 1 change, 1 filter | expected violation: keys dropped next to a new resume token |
| `watch_targets` | 1 target, 1 document, 2 listens, 1 each of changes, breaks, resets, refusals, fair | answers are counted and told apart; every listen is answered |
| `watch_targets_online` | 1 target, 2 listens | expected violation: the online timer is lost |

Bounds, all of them in guards or in the sizes of constant sets: `MaxQuantity`,
`MaxSubtotal`, `MaxOrders`, `MaxSignOuts` (`Menu`), `Run`, `MaxBalance` (`Session`),
`MaxTaps`, `MaxEdits`, `MaxLosses` (`ChangeMenu`), `Order`, `MaxLosses` (`Orders`),
`MaxWrites`, `Bad`, `kMaxPendingWrites` (`WritePipeline`), `MaxWrites`, `MaxEdits`,
`MaxLosses`, `MaxMismatches`, `MaxRejections` (`SyncedView`), `MaxListens`, `MaxEdits`,
`MaxBreaks`, `MaxResets`, `MaxRefusals` (`WatchTargets`). They are enough because
what goes wrong here needs two of something: two units to tell `quantity` from
`total_price`, two prices to reprice, two Pays to overlap, a Pay and a Sign Out to pop
each other's dialog, two phones or runs to race, two admins to overwrite each other,
two kitchens to mark one order, two losses to carry an order and its mark out again,
two users and a write refused in the middle of a pipeline that is shorter than the
queue, two documents to have one in limbo while the other changes, two listens of one
target to be confused, with every fault once, and two existence filters since the
second may come while the query is listened to from zero because of the first. The theorems
remove the bounds, for every safety property of the runs that the table under Proofs
names: any number of items, phones, orders, writes, documents and faults. `Orders` is
run with one order since the liveness properties do not finish with two, and orders do
not touch one another but for the order of a student's queue, which `QueuesApart` of
its proofs is about.

Deadlock is checked except in the runs of `Menu`, `WritePipeline` and `WatchTargets`,
where the program may stop: the user has signed out and the page that could act is
gone; everything is written and answered; nothing is listened to. Symmetry is used
only in runs of safety properties.

Fairness. Weak fairness is assumed of what Firebase and Flutter do by themselves:
answers to requests (`Session`: `VerificationAnswers`, `InitAnswered`, the steps of a
run, where an answer may also be a failure), sending queued
writes and fetching documents while the app runs (`ChangeMenu`, `Orders`), building a list or a
page for a snapshot. It stands for a phone that gets online again. In the client's
modules it is the serial queue that runs every task that is due, timers included, and
a server that answers and sends its newest snapshot; `ClientSpec` of `WatchTargets` has
the first half only, for a backend that does not answer. Nobody is
assumed to tap, return, edit, listen or fail. The liveness properties of `Orders` are
stated for phones that stay from some time on, since a phone that is never
opened again sends nothing; `EveryWriteSettles` and `Converges` from the time on that
faults and writes end (`calm`, `Undisturbed`). `Converges` is run without existence
filters that do not fit, after which it need not hold (see Findings).

## Mutations

A definition that is used nowhere and stands right before another one is a
mutation of it: a plausible bug, such as `ToggledAlone` (the update forgets the
price), `SignInResumesUntested` (the test for an existing document dropped),
`NextIdFresh` (batch ids start again from 1) or
`HandleAddedKeepsChanges` (an answer does not clear what was gathered before). Putting it in place of the definition makes TLC report
the property it is paired with in `PROJECT.json`, for each property of each run.

## Findings

`session_reset`: `BalanceIsNotTheClients` is violated. The `set()` that creates an
account (authenticate.dart:47) is carried out, its answer is lost, the office recharges
the account, and the `set()`, sent again after the next handshake
(remote_store.cc:422-430), puts the balance back to 0. Two phones that sign in for the
first time at once do the same: both read that there is no document. The comment at
authenticate.dart:43-45 asks for no client-side access to the field and for cloud
functions to create the document; until then the get-then-set is a race.
`AccountKept` shows that these are the only ways.

`synced_view_reset`: `SavedWithItsKeys` is violated. After an existence filter that does
not fit, LocalStore drops the target's keys and saves its data with the resume token
of the same snapshot (local_store.cc:277-298), although local_store.cc:269-271 says
that data and assignment are persisted together; only RemoteStore's own copy loses
the token (remote_store.cc:329-334). If the page is built again or the process killed
before the listen from zero is answered, the query resumes from that token without
keys: the server does not send the documents again, and the index-free query passes
over them. Even if a second filter makes the client listen from zero, what was passed
over stays out of the view, in snapshots that are not from the cache too, until the page
is built again with the keys back or the document changes; `ViewIsLocal` and
`SyncedSnapshotIsExact` except such a view, and TLC finds both violated without the
exception.

`watch_targets_online`: `OnlineStateSettles` is violated. When the last query is left
while the watch stream is still starting, `StopListening` sets the state to Unknown
(remote_store.cc:182-187), which cancels the online timer, but the stream goes on
starting. A query listened to next finds it started, so `HandleWatchStreamStart` and
its timer are not due. If the backend does not answer, the state stays Unknown and a
listener without cached documents never has its first snapshot, although
online_state_tracker.cc:47-48 promises Offline "rather than waiting indefinitely" and
query_listener.cc:138-139 relies on it. Leaving one screen for another at a slow start
does this.

Two more divergences were met and are in the properties as exceptions or notes:

- remote_store.cc:513-515 puts a permanent error down to the front of the pipeline
  ("the request itself was the problem"). If the server has committed the front and
  refuses a later request while the client is writing, the failed write ends the call
  before the answer is read (grpc_stream.cc:218-252, 312-323), and the writer of a
  committed write is told that it was refused. `RefusedHasCause` shows that this is
  the only way for a writer to be told so wrongly.
- view.cc:235-239 suppresses the change of an acknowledged write "as Watch will send us
  the same document again". If somebody else changes the document out of the query
  before the next snapshot, a server that skips versions has nothing to send, and the
  document, counted as locally mutated, is not put in limbo: it stays on the screen until
  the query is listened to again. `ViewIsLocal` and `Converges` name this exception. It
  rests on how the server batches snapshots, which is not in the repository.

## Proofs

The theorems hold for every value of the constants, under the assumption each module
names: in `Menu` that `Null` is no cart entry and that prices, balances and bounds are
naturals; in `Session` that an account is not `NoDoc` and that a phone has finitely many
runs (a kill leaves as many unsent `set()` calls behind as runs had made); in `Orders` that `NoDoc` is no
Boolean and no phone is a student's and a kitchen's; in `WritePipeline` that the pipeline
has room for a write; in `SyncedView` that `None` is no order; in `WatchTargets` that
queries and documents are finite sets (the server sends a message for each); everywhere
that bounds are naturals. No theorem assumes anything of the order of steps.

| Module | Theorem | States | By |
|---|---|---|---|
| `Menu` | `TypeCorrect` | `[]TypeOK` | itself |
| | `SubtotalCorrect`, `OrdersCorrect` | `[]SubtotalIsWorth`, `[]OrdersPriceTheirItems` | `MoneyInv` |
| | `LostNever` | `[]NothingLost` | itself, with `StackInv` |
| | `TwiceNever` | `[]NothingTwice` | `TwiceInv`, with `StackInv` |
| | `SignOutCorrect` | `[]SignOutIsClean` | `CleanInv`, with `StackInv` |
| `Session` | `TypeCorrect` | `[]TypeOK` | itself |
| | `SpinnersHaveWork` | `[]SpinnerHasWork` | itself, with `RunsBelong` |
| | `StuckPagesHaveCause`, `HomePagesHaveAccount` | `[]StuckHasCause`, `[]HomeHasAccount` | `SessionInv` |
| | `AccountIsKept` | `AccountKept`, an action property | `OneWriter` |
| `ChangeMenu` | `TypeCorrect` | `[]TypeOK` | itself |
| | `TapsAreKept` | `[]NoTapLost` | `MenuInv` |
| `Orders` | `TypeCorrect` | `[]TypeOK` | itself |
| | `KitchensAreTruthful` | `[]KitchenIsTruthful` | `KitchenInv` |
| | `OrdersImplementOrderBook` | `ImplementsOrderBook`, the refinement | `KitchenInv`, `QueuesApart` |
| `WritePipeline` | `TypeCorrect`, `PipelineFollowsQueue` | `[]TypeOK`, `[]PipelineIsQueueFront` | `PipelineInv` |
| | `AnswersFollowPipeline` | `[]AnswersMatchPipeline` | `CallInv` |
| | `CallbacksFollowQueue`, `RefusalsHaveCause` | `[]CallbacksMatchQueue`, `[]RefusedHasCause` | `ToldInv` |
| | `WritePathImplementsOutbox` | `ImplementsOutbox`, the refinement | all three |
| `SyncedView` | `TypeCorrect`, `KeysGoWithToken`, `CachedDocumentsExisted` | `[]TypeOK`, `[]KeysMatchToken`, `[]CacheIsHistory` | `SyncedInv` |
| | `CacheMovesOn` | `NeverGoesBack`, an action property | `SyncedInv` |
| | `ViewFollowsCache`, `SyncedSnapshotsAreExact` (in `SyncedViewExact`) | `[]ViewIsLocal`, `[]SyncedSnapshotIsExact` | `ExactInv` |
| `WatchTargets` | `AssertionsNeverFail` | `[]AssertionsHold` | `OnlineInv` |
| | `TypeCorrect` | `[]TypeOK` | `TypeInv`, with `OnlineInv` |
| | `AnswersAreCounted` | `[]OutstandingIsDue` | `CountInv` |
| | `KeysFollowToken`, `CurrentViewsAreCaughtUp` | `[]KeysMatchToken`, `[]CurrentIsCaughtUp` | `GatherInv`, with all three |

What the invariants add to the properties, and why:

- `MoneyInv`: the set of rupees is finite, without which its cardinality says nothing.
  `OneMoreWorth` is the lemma under it: one more unit of an item at its price is that
  many more rupees (`Rupees` of both carts differ by a set in bijection with
  `1..price`). `StackInv`: what is below the top of the stack, and that the page is at
  the bottom or gone. `TwiceInv`: "ordered at most what was put" is not inductive, since
  the cart is still full after the order was written and until the dialog closes; what
  holds is that at most one Pay is under way and that the cart counts against `put`
  exactly when no confirmation is open. `CleanInv`: while a Sign Out waits alone the
  page is uncovered.
- `SessionInv`: a page's requests go away with it (`RunsBelong`), a page that asks has a
  user (`UserIsThere`), and what a run was told of the document is still true when it
  acts on it, or a fault is on record (`AccountIsThere`). `OneWriter`: unless two runs
  raced, one `set()` at most is to come from all phones together, and none once there is
  a document; this is why nothing overwrites an account.
- `MenuInv`: the last snapshot on its way to a page is the phone's view, and a page that
  none is coming to shows it (`PagesFollowViews`); and, unless writes crossed, one phone
  at most has any (`OnePhoneWrites`).
- `KitchenInv`: what a phone knows of an order was true once, and is undone only by
  writing the order again. `QueuesApart`: no order is in two queues or twice in one;
  without it an answer could take an order off `owed` that another send still brings back.
- `PipelineInv`: batch ids increase along each queue and `nextBatchId` is above them all,
  also after ids are given out again; no call without an open stream, no stream without
  the network, and the idle timer only after a handshake. `CallInv`: what is in the call
  before the handshake and after it; answers are a prefix of the pipeline, and a call
  ended as wrong was ended at a write that is refused. `ToldInv`: writes are numbered in
  the order they are made and queues keep it, so that a callback is found for its write.
- `SyncedInv`: a document's version is that of its last change, and versions between say
  the same (`HistoryInv`); the watch stream is at the version of the resume token, or
  has no keys and starts from zero (`TargetsInv`): a snapshot turns the keys of the one
  version into those of the other only from there (`KeysAfter`).
- `ExactInv` adds to `SyncedInv` how far each document's cached state lags behind the
  server's. Answers and the cache name versions at which a document changed
  (`AnswersTrue`, `CacheTrue`), so that what is newer than a matching version is newer
  than the match (`ChangedLater`) and what matches again has changed (`ComesBack`). What
  matched at the resume token is in the cache as of then or newer (`KeysCached`); this is
  why the server need not send it. A view that is current is at the version of
  the last snapshot, with its keys those of the target unless torn (`PageInv`). Each
  document of the view is what LevelDB gives (`Follows`) or was passed over by the
  index-free query and did not match at some version since the cache has it
  (`PassedOver`): if it matches again the server sends it, as a change (`ShownInv`).
- `OnlineInv`: a stream that is not wanted is not started. `TypeInv`: the messages under
  way are of versions and queries that exist. `CountInv`: nothing is under way on a closed
  stream (`WhileClosed`), and, for each query, the messages and requests under way are as
  many as are counted (`Counted`) and a request to leave a listened query is followed by
  a listen or its answer (`Lasts`): without it an earlier answer would take the
  aggregator's state away and the listens that a snapshot repeats would not be counted.
- `GatherInv`: "the keys match the token" is true only between snapshots and says nothing
  of what the aggregator holds meanwhile. For every query that is listened to and not
  miscounted, one of three holds (`Flow`): its last request under way is the listen from
  the version held (`Asked`); or that listen was refused and the refusal is on its way
  (`Refused`); or it was taken, and then (`Flows`) there is a place among the messages
  under way, that of the listen's answer or the first, from which on they turn the
  documents matching at the version held, or those gathered so far, into the ones that
  match at the version the server has sent (`Leads`, with `Moves` for one message, and
  every snapshot between finds what matched at its version). The count of `CountInv`
  says which: at zero the place is the first and what is gathered is what the server
  counts on, which is why stale messages, all before the place, do no harm. The message
  that says current comes only with a version as new as the listen (`Punctual`, `Spoken`),
  and a state still waiting for an answer is current only from an earlier listen
  (`Calm`). `StateSound`: what was gathered is a change of the documents there are.

The lemmas on sequences are stated for any set of members: rows of a queue by their id
(`BatchesBefore`, `BatchesAfter`), prefixes, and, in `WatchTargetsProofs`, how many
members are in a set (`Count`) and which are followed by one of another (`Followed`),
after `Append`, `Tail` and `\o`. What the own mutations make of a document is defined by
a recursive function over the queue (`LocalDoc`); `SetInduction`, induction stated for a
set instead of a predicate and derived from the library's well-foundedness of `<`, shows
that the function exists and keeps its type.

Every invariant and every action property that a run checks, and both refinements, are
stated by a theorem. Only model-checked is all liveness (`EntryResolves`, `PagesAgree`,
`OrderReachesKitchens`, `MarkReachesKitchens`, `EveryWriteSettles`, `Converges`,
`ListenIsAnswered`): fairness and ENABLED are out of the prover's reach. The properties of
the three runs that expect a violation are false, and have no theorem.

## Not modelled

- `wallet.dart`: shows a document, keeps no state. `shared/`: no state.
- Firebase Auth, the servers and the Dart plugins: as the code in the repository uses
  them, marked external in `PROJECT.json`. A `get()` answered from a stale cache,
  security rules and missing indexes are left out of the screens' modules.
- Of the Firestore client: transactions, bundles, limits, transforms, aggregates,
  target ids, the garbage collector, serialization and the public API. Of the part
  that is modelled: the stream token of writes and answers that cannot be parsed;
  composite writes; filters on single documents (limbo targets), whose
  effect is in `SyncedView`; several targets that share a document. Every snapshot of
  the watch stream is taken to carry a resume token for every target, and `WatchTargets`
  is run with one target, since its liveness does not finish with two.
- Refusals in the liveness of `SyncedView`: security rules are not in the repository, and
  `Converges` is run without them. A refused limbo document is purged from the cache, and
  limbo is computed again when the view is current; that heals the view unless the
  document is back in the cache and matches before then. It is then still in
  `limbo_documents_`, so that no change is raised (view.cc:364-395), nobody asks again,
  and the view is not in sync until it is listened to again. With `MaxRejections = 1`
  `Converges` is violated in just this way: limbo, offline, the refusal, then a snapshot
  that brings the document once more.
- The rest of `macos/Pods`, which is third-party code pinned by CocoaPods and most of
  the repository's lines: BoringSSL, gRPC and its dependencies, abseil, leveldb, nanopb,
  Firebase Core and Auth, HTTP sessions. None of it is logic of this program; what the
  client needs of it (a call that keeps order and ends once, a table in key order) is
  in the modules above. Measured against all of those lines the mapped share is small,
  and modelling tables of certificates or curves would not make it say more about the
  canteen.
- Route transitions are instantaneous. Popping the last route leaves the app.
- Form fields, snackbars and texts. The rows' order in the lists (by the student's clock).
- The paging of the Served tab: `PaginateFirestore` (served_orders.dart:20, a package that
  is not in the repository) shows a page and loads the next as the admin scrolls. `served`
  is what scrolling to the end shows; with the one order of the run the two are the same,
  and the safety properties hold of any part of the list.
- The `user != null` test after a sign-in (authenticate.dart:39): a call that succeeds has
  a user, so that the other case, in which the form would come back without a word, is
  not an action of `Session`.
- The debit of the balance, which the code does not do, and `total_price`, which is
  written as coded and read by nothing.
- Platform projects and the template's widget test.

## Plan

1. Done: all modules of the table above with their runs, and the theorems under Proofs.
2. Done: a theorem for every safety property.
3. Later, the model: `Canteen`, a composition of one student's `Menu` and one admin's
   `ChangeMenu` over the shared document, if a property asks for it.
