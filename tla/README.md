# Flamingo: models, checks and proofs

Flamingo is the iOS client of a beauty salon. It has no server of its own: every
device talks to Firestore (documents) and Firebase Storage (images) directly and
keeps what it shows in a Realm database. What is hard in it is therefore on the
device: completions that run later, several of them in flight, local copies that
lag behind, and an app that may die between two steps. Two layers are modelled:

- the app's own Swift code under `src/Flamingo/Flamingo` (called `F/` below), whose
  modules see Firestore, Storage and Realm from outside;
- the Firestore client the app is built with, under
  `src/Flamingo/Pods/FirebaseFirestore/Firestore` (called `P/`; the C++ below
  `P/core/src/firebase/firestore`): the part of the vendored code that carries the
  app's concurrency, and on whose order and completeness the first layer relies. The
  section "What the app's modules take from the client's" says where.

## Inventory

| Component | State it keeps | Operations | Correct when |
|---|---|---|---|
| Catalogue sync (`F/DBManager/FirebaseManager.swift`, `StorageManager.swift`) | rows of `Discont`, `CategoryService`, `Master`, `Service` in Realm | `getData...OfFirebase`, `saveData...ToRealm`, `deleteDocument`, `updataMaster`, `updateFavorites` | the device never goes back in time, keeps rows of living documents and their stars, and comes to show the server's collection |
| Booking (`F/PresentService/Controller/MakeAppointmentVC.swift`, `CelendarVC.swift`, `DetailServiceVC.swift`, `F/AccauntPage/Controller/SampleServiceEmptyVC.swift`) | form, calendar, busy times, collection `service_enrty`, `ServiceEntry` rows | open, tap a day, late answers, pick a time, make, acknowledge, cancel | a time reported busy cannot be picked; what the account lists, the salon has; nobody books a taken time; a cancelled appointment is gone |
| Calendar months (`CelendarVC.checkMonth`, globals `month`, `year`) | month and year on show, outliving the screen | next, back, open | one can reach the months the comment promises and get back |
| Times of a day (`FirebaseManager.createDataEntry`) | none | a list stored as `appTime`, which nothing reads | not modelled |
| Content editors (`AddNewDiscontVC`, `AddNewMasterVC`, `AddNewServiceVC`) | the form, the URL of the uploaded image | upload, wait, publish, try again, delete the old document and image | one document per item; what is called saved is published; a published document has its image |
| Registration (`RegistrationVC`, collection `users`, `Person` row) | the person | query by phone, create or adopt | one user per phone, one `Person` per device |
| Firestore client, writing (`P/`: `RemoteStore`, `WriteStream`, `Stream`, `GrpcStream`, `LocalStore`, `LevelDbMutationQueue`, `SyncEngine`) | mutation queue and document cache on disk; pipeline, stream, timers, completions in memory | enqueue, fill the pipeline, hand-shake, acknowledge, refuse, back off, stop when idle, switch the network, restart | a response is matched to its write; completions tell the truth, in order; own writes are seen; every write settles |
| Firestore client, listening (`P/`: `EventManager`, `QueryListener`, `SyncEngine`, `View`, `RemoteStore`, `WatchChangeAggregator`, `OnlineStateTracker`) | target data and keys on disk; listeners, view, aggregator, online state in memory | `getDocuments`, watch, unwatch, aggregate, raise snapshots, go offline, stop when idle | an answer that is not from the cache is a whole state of the server; each call is answered, once |
| Other pods (Realm, gRPC, BoringSSL, leveldb, abseil, Auth, Storage) | | | modelled only by what the code above sees of them |
| Comments (`PresentCommentsVC`, `AddNewCommentVC`) | a list | one query, one `addDocument` | nothing interleaves |
| Lists, search, favourites (`SamplePriceListVC`, `MastersVC`, `DiscontVC`, `AccauntVC`) | selections of Realm rows | filter, refresh, delete | refresh and delete belong to the sync |
| Home, photos, launch animation, `DesingApp`, `Helpers` | none of interest | presentation | not modelled |
| `LoginVC`, `PersonAccountVC` | none | no storyboard leads to them | not modelled |

How they interact: the editors write documents that the sync reads on other devices;
the lists and `DetailServiceVC` show the rows the sync writes; the booking form opens
from a service row and refers to master rows; registration writes the `Person` that
`DetailServiceVC` asks for before it opens the form. Everything the app does itself
runs on the main queue, one block at a time; Storage and URLSession work elsewhere and
hand their completions to it. The Firestore client has one worker queue: the app puts
blocks on it, and so do gRPC's completions and the timers; its events and completions go
to the app's queue. Both halves of the client meet in `RemoteStore` (two streams, one
network switch) and in `LocalStore` (one cache).

The hazards, each at its line, are in `PROJECT.json`.

## What is modelled

### CatalogSync: one collection and its rows on one device

`remote` is the server's collection, `cache` Firestore's cache on the device, `asked`
the `getDocuments` calls in flight, `inbox` the snapshots whose completion waits in
the main queue, and `copy[d][k]` the downloads in flight and the Realm rows of
document `d` (several, because nothing forbids it). A document is a number that
grows with its contents and ends in `Gone`; Firestore never reuses an identifier.
`collection`, chosen once among the constant `Collections`, says which of the four
syncs a behaviour is about: only the masters are compared and replaced (`Tracked`), only masters and services check that an image
decodes (`GuardsImage`), only services have a star, and categories cannot be deleted
on the device.

| Action | Code |
|---|---|
| `Publish`, `Change`, `Remove` | the editors and deletions, of other devices (`Publish` and `Change` of this one too, whose cache has its own writes at once): `save...ToFirebase`, `updataMaster`, `deleteDocument` |
| `Refresh` | pull to refresh; the return from the discount editor |
| `AnswerFromServer`, `AnswerFromCache`, `AnswerError` | what Firestore does with `getDocuments`; offline it answers from its cache with no error |
| `ApplySnapshot` (with `Synced`) | the whole completion: start downloads of missing documents, delete and download again changed masters, delete rows of absent documents |
| `DownloadDone`, `DownloadFailed`, `ImageUnreadable` | `saveData...ToRealm` |
| `DeleteRow`, `ToggleFavorite` | the swipe action, `favoritesAction` |
| `Relaunch` | the app dies and is launched again |

`CatalogMirror` is the promise of the sync to its screens: the server moves forward;
a row on show has a content that was published; a row goes only when the document has
left that content behind. `CatalogSync` implements it with `rows <- ShownRows`.

### Booking: form, calendar, collection and list, on several devices

`entry` and `stage` are the documents of `service_enrty` between device and server,
`reply` is what became of the acknowledgement (and so of the Realm row), `known` the
part of the collection in a device's cache. Per device there are the screen, the time
in the form, the month, the highlighted cell, the day tapped last, the table of times
(`shown`, `free`), the list of busy times and the queries in flight.

| Action | Code |
|---|---|
| `OpenForm`, `LeaveForm` | `DetailServiceVC.actionPresentMakeApp`, `MakeAppointmentVC.exitAction` |
| `OpenCalendar`, `LeaveCalendar`, `ChangeMonth` | `CelendarVC` |
| `TapDay` | `didDeselectItemAt` of the old cell, then `didSelectItemAt` and `getTimesIsGreaterThan` |
| `AnswerFromServer`, `AnswerFromCache`, `AnswerError` | the completion of the query; with the calendar gone, `self!` ends the app |
| `RedrawRow`, `PickTime` | `cellForRowAt`, `didSelectRowAt` |
| `MakeAppointment`, `Acknowledge`, `ServerStores`, `ServerRefuses` | `makeAppointment`, `saveServiceEntryToFirebase` and Firestore |
| `Cancel`, `ServerDeletes` | `actionCancellaration` with the reload that ends the app |
| `Kill` | the end of the process |

The two `whereField` calls on lines 249 and 250 of `CelendarVC` drop their results, so
the query is over the times of all masters and services: `busy` has no master.
`heard` is a history variable: what the last answer that covers the day tapped last
has reported. Writes survive a kill as soon as they are made (Firestore keeps its
queue on disk); the only write for which the model doubts this is the deletion in
`Cancel`, which the app itself follows by its end.

### ContentEditor: the three editors, their collection and their folder in Storage

`kind` is chosen once, by `Init`: the kinds share no collection and no folder. `docs`
is the collection as this device sees it, `pictures` the paths of the folder that have
a picture, `uploads` and `removals` what Storage has been asked for and has not
answered. The editor has a `phase`, an `alert` (with `okButton` once a failure has put
one there), the document it was opened for, the name and URL it has collected, and its
save timer. An upload or a timer may outlive its editor; a URL that comes then, or the
timer, meets `self!` and ends the app. `made` is a history variable.

| Action | Code |
|---|---|
| `OpenEditor`, `Leave` | `editingMode`; `exitView` or the swipe, which an alert on show prevents |
| `Save` | `saveDiscont` with `deleteDocument` first, `saveMaster`, `saveAction`; a discount starts the five-second timer |
| `PutDone`, `UploadFails`, `RemovalDone` | Storage |
| `URLForDiscont` | the URL is kept for the timer |
| `TimerPublishes`, `TimerFails`, `TimerFailsAgain` | the timer; a second failure would add a second cancel button to the alert, which UIKit refuses by ending the app |
| `URLForNew`, `URLForMaster`, `URLForService` | the completion publishes: `saveMasterToFirebase`, `saveServiceToFirebase`, `updataMaster` |
| `TapOK`, `CloseTimer` | the alert's button; closing a second after "saved" |
| `URLForNobody`, `OrphanTimer`, `AppEnds` | the end of the app |
| `DeleteItem` | the swipe action of the list |

A picture has no content: what matters is whether the path has one. A name stands for
all fields, and for the path (an empty name has a path of its own).

### Registration: query by phone, then create or adopt

`users` is the server's collection (users with the one number that matters), `queued`
what a device has added and not delivered, `known` its cache. Per device there are the
screen, the calls in flight, the answers on the app's queue, whether the controller's
`person` belongs to Realm (`managed`), and whether there is a `Person` row (`account`).

| Action | Code |
|---|---|
| `OpenRegistration`, `Leave` | `AccauntVC.fillInTheData` with its button; `exitAction` or the end of the segue |
| `TapNext` | `nextAction`, `checkDataNumberPhone`: nothing disables the button |
| `AnswerFromServer`, `AnswerFromCache`, `AnswerError` | what Firestore does with the query |
| `Completion` (`CreateUser`, `AdoptUser`) | the completion; on a screen that is gone, or with a `person` an earlier completion has stored, it ends the app |
| `ServerStores` | the delivery of `savePersonToFirebase`'s document |
| `Ends` | the end of the app, also by a user |

### FirestoreWrites: a write between the call and its completion

Each action is one block of the client's worker queue with every call it makes. `queue`
is the mutation queue on disk, `pipeline` the writes handed to the stream, `stream` and
`handshake` the state of the `WriteStream`, `closes` the close count against which
requests for a token (`tokens`) are compared, `toServer` and `fromServer` the two
directions of the gRPC call, and `ended` how the call has ended before the client has
noticed. `log` is the server: a version is an index. `outcome` (what a completion was
told) and `acked` (the version it was given) are history.

| Action | Code |
|---|---|
| `UserWrite` | `SyncEngine::WriteMutations`, `LocalStore::WriteLocally`, `RemoteStore::FillWritePipeline`, `AddToWritePipeline` |
| `TokenArrives`, `TokenFails` | `Stream::ResumeStartWithCredentials` with its close count; a failure goes through `Close` |
| `BackoffElapsed` | `Stream::BackoffAndTryRestarting` |
| `HandshakeComplete`, `MutationResult` | `WriteStream::NotifyStreamResponse`, `OnWriteStreamHandshakeComplete`, `OnWriteStreamMutationResult`, `LocalStore::AcknowledgeBatch`, `NotifyUser` |
| `StreamEnds`, `ConnectivityChange` | `GrpcStream::OnOperationFailed`, the connectivity monitor, `Stream::Close`, `OnWriteStreamClose`, `HandleWriteError`, `RejectBatch` |
| `IdleTimeout` | `Stream::Stop` after `kIdleTimeout` |
| `DisableNetwork`, `EnableNetwork` | `RemoteStore` |
| `Relaunch` | the process is killed; `FirestoreClient::Initialize`, `LoadNextBatchIdFromDb` |
| `WatchSnapshot` | `LocalStore::ApplyRemoteEvent`: the listening half, reduced to one version |
| `ServerHandshake`, `ServerApplies`, `ServerRefuses`, `CallFails`, `OtherWrite` | external: the server and the network |

`WriteDelivery` is the promise: writes are applied in the order in which they were
issued; one leaves the device when it was acknowledged, or when a refusal takes the
first that waits; after a break delivery starts again from the first write not
acknowledged, so that a write may be applied more than once but never after its
acknowledgement; a write is issued once; other devices write between. `FirestoreWrites`
implements it (`DeliverySpec`): `pending` and `applied` are the writes of the queue and
of the log (0 is another device's), and `taken <- Len(fromServer)` on a call past its
handshake, where a response on its way is a write applied and not acknowledged.

Two things the model shows that the promise has to admit: the responses on a call that
has ended may be lost with it (`FastFinishCompletionsBlocking` takes them off the
queue), so that a permanent error rejects the front of the pipeline although the server
may have refused a later write; and a write rejected so may have been applied.

### FirestoreListen: getDocuments between the call and its completion

One query, which all screens use, on documents other devices write. `worker` and
`events` are the two queues; `listeners` and `raised` belong to the `EventManager`,
`current` to the `View`, `pending`, `complete` and `changes` to the `TargetState` of the
one target, `updates` to the aggregator; `online`, `failed` and `timer` are the
`OnlineStateTracker`; `token` and `saved` are what the target can be resumed from, in
memory and on disk. `since` (the server's version when the view was created) and
`answered` are history.

| Action | Code |
|---|---|
| `GetDocuments` | `Query::GetDocuments`, `ListenOnce` in `api/query_core.cc` |
| `WorkerBlock` (`AddListener`, `RemoveListener`) | `EventManager::AddQueryListener`, `RemoveQueryListener`, `SyncEngine::Listen`, `StopListening`, `RemoteStore::Listen`, `StopListening` |
| `AppEvent` | the listener mutes and removes itself, then calls the completion |
| `StreamOpens`, `StreamFails`, `BackoffElapsed`, `IdleTimeout` | `WatchStream` and `RemoteStore::OnWatchStreamOpen`, `OnWatchStreamClose` |
| `OnlineTimeout` | `OnlineStateTracker` after `kOnlineStateTimeout` |
| `TargetAdded`, `TargetRemoved`, `TargetCurrent`, `DocumentChange`, `WatchSnapshot` | `OnWatchStreamChange`, `WatchChangeAggregator`, `RaiseWatchSnapshot`, `LocalStore::ApplyRemoteEvent`, `View::ApplyChanges`, `EmitNewSnapshots` |
| `Relaunch` | the process is killed and started again |
| `ServerWatch`, `ServerUnwatch`, `ServerUpdate`, `Write` | external: the server |

`QueryAnswers` is the promise of `getDocuments` to the app: a copy of the collection that
lags behind the server and never goes back, answers that show the copy as it is when
they are given and so never go back either, whole states of the server unless they are
marked as cached, and a completion that runs for the first answer only. `FirestoreListen`
implements it (`AnswersSpec`) with `copy <- cache`, `answers <- events`. The mapped
actions are few: almost everything the client does is a `Tell` that says nothing, or a
stutter.

The server of these two modules does what follows, and no more is assumed of it. It
reads requests in order and answers in order. It knows no write it has seen before, so
that one sent again is applied again. It never ends a write call with OK: the client
would stop at the assertion on line 435 of `remote_store.cc`. A listen that is
resumed gets every document changed since the token, then CURRENT, then a snapshot; no
snapshot comes before CURRENT, and the versions of snapshots are those of its log. (A
`TargetState` keeps `current_` when its target is added again while it was not removed;
with such a server that is harmless.)

### What the app's modules take from the client's

| Assumed in the app's modules | Shown, or where it comes from |
|---|---|
| answers and completions wait on the app's queue and run one at a time (`inbox`, `answers`) | `AppEvent`; `user_executor` |
| an answer is the server's collection at one moment (`AnswerFromServer`) | `WholeAnswers`, `AnswersSpec` |
| offline a call is answered from the cache, with no error (`AnswerFromCache`) | `OnlineTimeout`, `StreamFails`; `EveryCallAnswered`, `AnsweredOnce` |
| the cache does not go back, and a later answer is no older (`CacheBehindServer`, `InboxInOrder`) | `AnswersSpec` (`QueryAnswers`: each answer shows a copy that only moves forward); `CacheIsServers`, `OwnWritesSeen` and `CacheMovesForward` for own writes |
| own writes reach the server in their order, or are refused, also after a restart (`ServerStores`, `ServerRefuses`) | `DeliverySpec`, `LastWordStands`, `EveryWriteSettles` |
| an acknowledgement without an error means the document is stored (`Acknowledge`) | `OkIsApplied`, `ToldOnce` |
| the completion of a write is gone after a restart (`BookedIsListed`) | `Relaunch`: `mutation_callbacks_` is memory |

They are assumptions about operations, and no module instantiates both layers: one
write is some ten steps of the client, and the product would be out of TLC's reach.

## Runs

| Run | Instance | States | Shows |
|---|---|---|---|
| `catalog` | each of the 4 collections, 2 documents, 2 contents, 2 syncs, 2 copies | 156 395 | types, `NeverAhead`, `LiveRowsKept`, `MirrorSpec`, `EventuallyMirrored` |
| `catalog_duplicates` | 1 discount | | `OneRowPerDocument` is violated |
| `booking_one_device` | 2 times, 3 days in 2 months, 2 queries, 1 appointment | 278 766 | `ListedIsBooked`, `HeardTimesClosed`, `OwnTimesClosed` |
| `booking_late_answer` | 1 device, 2 days, 2 appointments | | `NoDoubleBooking` is violated |
| `booking_killed` | 1 device, 1 appointment | | `BookedIsListed` is violated |
| `booking_cancel` | 1 device, 1 appointment | | `CancelFreesTime` is violated |
| `content_editors` | 3 kinds, 2 names, 3 documents, 2 uploads, 2 removals of a path | 921 172 | `OneDocument`, `EditKeepsDocument`, `SavedIsPublished` |
| `content_picture` | masters, 1 name, 1 document | | `PictureKept` is violated |
| `registration` | 1 device, 2 taps | | `OneUserPerNumber` is violated |
| `firestore_writes` | 3 writes to 1 document, pipeline of 2, write 1 refusable, 2 faults, 1 write of another device | 277 900 | `InStep`, `PipelineFromQueue`, `TimersAndTokensCurrent`, `CompletionsInOrder`, `OkIsApplied`, `CacheIsServers`, `OwnWritesSeen`, `LastWordStands`, `ToldOnce`, `CacheMovesForward`, `EveryWriteSettles`, `DeliverySpec` |
| `firestore_listen` | 2 documents, 2 calls, 2 writes, 1 fault | 290 473 | `RequestsCounted`, `TimersCurrent`, `NothingInLimbo`, `WholeAnswers`, `AnsweredOnce`, `EveryCallAnswered`, `AnswersSpec` |
| `firestore_listen_hangs` | 1 document, 2 calls, no fault | | `OnlineStateSettles` is violated |

Bounds of the app's modules. Two syncs are what it takes to overlap, and a third adds
nothing: what matters is one snapshot behind another. Two contents give a row something
to fall behind of; two copies give a document a duplicate. A sync that would need a
third copy waits in the model (`ApplySnapshot`'s second conjunct is this bound). Two
queries are what it takes for one to be late; the third day, in another month, is what a
change of month needs. `ListedIsBooked` relates what one device holds to the server, so
one device is enough for it; with two, `NoDoubleBooking` needs no late answer (see
Findings). For the editors two uploads are what it takes for one to be late, and three
documents what it takes to add one, change it and change it again. Two taps are what
`registration` is about. Identifiers, names and times are symmetric where no liveness is
checked.

Bounds of the client's modules. Three writes and a pipeline of two: the third is added
when a response or a refusal makes room. The first write may be refused, so that others
are behind it in the pipeline; an acknowledgement, a refusal and a retry of the rest all
occur. Two faults (a failed token, a lost call, a change of connectivity, the network
switched off, a restart, each at any point) are what it takes to fail during recovery.
One document for all writes is the hard case for the cache, where an acknowledgement
and a watch snapshot race. Two calls of `getDocuments` share a listener or follow each
other on an open stream; two writes of others and two documents let a snapshot be cut
between them.

Deadlock is not checked where everything may have been done: the bounded runs of the
client's two modules, and `registration` with all taps used up.

Fairness. In `CatalogSync` the main queue runs its blocks (weak fairness of
`ApplySnapshot`), URLSession ends every download (weak fairness of done-or-failed) and
an image that is downloaded again and again arrives some time (strong fairness of
`DownloadDone`). That syncs are asked for and answered by the server is up to the user
and the network: it is the premise `SyncsGoOn` of `EventuallyMirrored` and no fairness.
A discount whose image never decodes is outside this promise: it ends the app at every
sync. In `Booking` the server works through its queue and the main queue runs
`Acknowledge`; no user action is fair. In `FirestoreWrites` the worker queue runs its
blocks and timers, tokens are answered, and a server whose call lives reads and answers;
failures and the switch are not fair, and `EveryWriteSettles` has the premise that the
network is in the end left switched on. In `FirestoreListen` `ClientSpec` has the
client's own queues and timers only; `FairSpec` adds that an attempt to connect ends,
and that requests and messages arrive. `EveryCallAnswered` is checked under `FairSpec`,
`OnlineStateSettles` under `ClientSpec`: a timeout is there for attempts that hang.

## Findings

- Two overlapping syncs write one document twice (`catalog_duplicates`), and later
  syncs keep both rows.
- A late answer opens the table for a day nothing has been heard about, and a time is
  booked twice (`booking_late_answer`), by one device already. With two devices it
  takes no late answer: nothing is checked again when the appointment is written.
- A kill between write and acknowledgement leaves an appointment the client cannot see
  (`booking_killed`).
- Changing a master (or a service) without renaming it deletes the picture just
  uploaded, and with the next sync the master is gone from every device
  (`content_picture`).
- Cancelling reads the row it has just deleted, which ends the app, and may leave the
  appointment on the server (`booking_cancel`).
- Two taps on the button create a user twice (`registration`); so do two devices, since
  between the query and the write nothing is checked again.
- A call of `getDocuments` made after an earlier one was answered offline, while the
  attempt to connect still hangs, starts no timer: `StopListening` has cancelled it and
  the stream counts as started. It waits as long as the attempt hangs
  (`firestore_listen_hangs`), against the comment on lines 44-46 of
  `online_state_tracker.cc`.

## Theorems

All theorems hold for every value of the constants that the modules' assumptions allow.

`CatalogSyncProofs`, for every set of documents, every choice of collections and all bounds:

1. `TypeCorrect`: `Spec => []TypeOK`.
2. `NeverAheadInvariant`: `Spec => []NeverAhead`. `NeverAhead` is itself inductive: it
   is the chain copies <= waiting snapshots in order <= cache <= server, and each
   action moves one link. It needs `TypeOK` only.
3. `LiveRowsAreKept`: `Spec => LiveRowsKept`. The step needs `NeverAhead`: a snapshot
   that lacks a document which lives would have to be older than the row.
4. `ImplementsMirror`: `Spec => MirrorSpec`, from the same invariant.

`ContentEditorProofs` proves for every set of kinds, names and identifiers and all
bounds `EditorTypeCorrect`, `OneDocumentInvariant`, `EditKeepsDocumentInvariant` and
`SavedIsPublishedInvariant`. None of the four is inductive alone. `IInv` adds
`PhaseInv` (a save timer runs only while the editor of discounts waits; nothing has
been added before "saved"), `UploadInv` (the other editors have one upload, and only
while they wait) and `DeletedInv` (from the first attempt on the discount to change is
gone): they are why a late URL or a second attempt finds nothing to publish twice.

`FirestoreWritesProofs` proves the type invariant and all seven safety invariants of the
write half, for every number of writes, documents, faults and every size of the
pipeline: `WritesTypeCorrect`, `ResponsesInStep`, `PipelineIsFromQueue`,
`TimersAndTokensAreCurrent`, `OkMeansApplied`, `CacheIsTheServers`, `OwnWritesAreSeen`
and `CompletionsComeInOrder`. The inductive invariant `Inv` has five parts:

- `QueueInv`: the pipeline is the head of a queue whose identifiers rise (stated by
  index, `IsHead` and `Rising`). It is why `RemoveMutationBatch` finds the front of the
  pipeline at the front of the queue, and why `FillWritePipeline` continues it
  (`AddedFills`).
- `StreamInv`: the idle timer runs only past the handshake with nothing to send; no
  token is asked for at a close count still to come; a request for the present one is
  out exactly while the stream is starting.
- `CallInv`: past the handshake (`InPlace`), responses, a refused request and the
  requests not read yet make up the pipeline, each in its place; before it (`Greeting`)
  there is the hello, or its answer, or nothing. `InStep` says this of an open call;
  it is not inductive without `Greeting`, which gives the handshake an empty wire to
  put the pipeline on.
- `KnowledgeInv`: what the cache, the acknowledgements and the outcomes say is what the
  log has. A `MutationResult` needs `InPlace`: the version delivered is that of the front
  batch, and of no other.
- `TypeOK`.

`OrderInv` (the queue holds the writes in the order issued, a pending one is in it with
its completion) is proved from `Inv` and gives `CompletionsComeInOrder`: whatever
leaves the queue is its first write.

`BookingProofs` proves for every set of devices, masters, times and identifiers, every
calendar and all bounds `BookingTypeCorrect`, `ListedIsAlwaysBooked`,
`HeardTimesStayClosed` and `OwnTimesStayClosed`. The inductive invariant `IInv` has, with
`TypeOK`, two parts:

- `DocumentsInv`: a document ever written has an entry, caches hold only documents that
  were written, and `ListedIsBooked`. It gives an answer from server or cache entries to
  take times from.
- `CalendarInv`, for each device: a table on show has a day, and so has a query whose
  calendar is open. Once an answer for the day has come, `HeardInv`: what was heard is
  among the busy times, so are the own appointments of that day while the calendar is
  open, and the table was drawn from the busy times. The middle conjunct is what makes
  `OwnTimesClosed` survive a late answer for another day: the answer can only add busy
  times before the table is drawn again. The step that could break it is `MakeAppointment`,
  which adds an own appointment, but only from the form.

`FirestoreListenProofs` proves, for every set of documents and any number of calls, writes
and failures, every invariant the runs of `FirestoreListen` check:

- `TimersAreCurrent`: `TimersInv` adds that after a failure the client is offline until a
  message or a stop of the stream resets both, so that a retry that finds it online has
  no failure on record.
- `ListenTypeCorrect`, `RequestsAreCounted`, `CallsAreAnsweredOnce`, from `CountInv`: the
  types, what a closed stream leaves behind (`ClosedInv`: nothing on its way, nothing
  collected), and `RequestsCounted`.
- `AnswersAreWhole` and `NothingStaysInLimbo`, from `AnswersInv`, which adds to `CountInv`
  - `VersionsInv`: all that the client has or will be told is a version the server has
    written, and no snapshot is older than what comes before it. The branch of
    `WatchSnapshot` for an older one is therefore never taken;
  - `BaseInv`: the client has all that was written up to the version it can resume from,
    and its target holds what has not changed since. It is what the server's answer to a
    watch request builds on;
  - `StreamInv`: while somebody listens and all requests are read, then for each snapshot
    after the last confirmation (and for the next update), each document is either told
    of by a message on its way (`Told`), or collected or cached in that version (`Has`).
    `RequestsCounted` is needed here: a client that waits for nothing has only such
    snapshots before it, one that waits takes none of them for its own;
  - `CurrentInv`: a view that is current shows the state of the version it can be resumed
    from, and nothing collected waits to change its documents while the target is not
    confirmed;
  - `WholeAnswers` itself, for the events already posted.

`FirestoreDeliveryProofs` builds on `Inv` and `OrderInv` of the write half and proves, for
every number of writes, documents, faults and every pipeline:

- `ImplementsDelivery` (`Spec => DeliverySpec`), one lemma for each group of actions. The
  mapping turns the queue and the log into sequences of writes; a batch added or taken is
  a write appended or the tail, and a step of tokens, timers or backoff is a stutter. A
  response is an `Acknowledge` by `CallInv`, a permanent error a `Reject` by the halted call.
  "Issued once" is `OrderInv` for the queue and `DeliveredInv` for the log.
- `LastWordAlwaysStands`, from `DeliveredInv`: the log names issued writes only; all that
  an acknowledged write leaves in the queue is later than it; and what the log has after
  the version of a response under way is later than the batch this response is for. The
  last conjunct is needed: the property speaks of acknowledgements that have come, and
  the step that could break it is the arrival of one.
- `EverythingIsToldOnce` (`ToldOnce`), from `CallbacksInv`: a completion that waits belongs to a
  batch held whose write is pending, so that none is left for a batch that was taken.
- `CacheOnlyMovesForward` (`CacheMovesForward`): `KnowledgeInv` says that both sources
  of the cache, responses and watch snapshots, speak of the one log.

`FirestoreAnswersProofs` proves `ImplementsQueryAnswers` (`Spec => AnswersSpec`) from `AnswersInv`
of `FirestoreListenProofs`, for every set of documents and any number of calls, writes and
failures. A step that posts events is a `Tell` (lemma `Tells`): every handler that raises
a snapshot raises the documents of the cache it leaves behind, a cache that `CachedIsNewer`
keeps from going back; that an event not marked as cached is a whole state is `WholeAnswers`
after the step. The two modules say which version is a document's last in different
words; `SameVersions` shows them equal.

`RegistrationProofs` says what registration does keep, for any number of devices and taps.
No run checks these three, as the one run of `Registration` is about the promise it breaks:

- `UsersAreByTaps`: a device makes at most one user for each tap. `TapsInv` counts: users
  made, calls in flight and answers waiting are together at most the taps, and no two
  devices' users are the same.
- `ASecondUserTakesASecondTap`: with one tap on one device `OneUserPerNumber` holds, so that the
  counterexample's second tap (or second device) is needed.
- `AccountsHaveUsers`: a `Person` in Realm has a user, stored or queued. `ListsInv` is what it
  needs: an answer may be out of date, but the users it lists still exist.

Only model-checked: liveness (`EventuallyMirrored`, `CancelFreesTime`, `EveryWriteSettles`,
`EveryCallAnswered`), which is out of the proof system's reach. Every safety invariant,
action property and refinement that a passing run checks is proved.

## Not modelled

- App: contents of documents beyond their age; wording, formatting and layout; the checks
  against the current time (days lie in the future); identifiers compared with
  `CONTAINS[c]` (Firestore's have one length, so it is equality but for case);
  the index of a row in a list, which the delete confirmation reads again; what a picture
  shows; a row that a sync deletes under an open editor; the fields of `updataMaster`
  as four writes; the months the calendar's buttons reach (sequential arithmetic on two
  globals: the hazards list says what is wrong with it).
- Client, writing: batches of several mutations, transactions, preconditions and
  transforms (the app has none), the stream token, responses that do not decode, a change
  of credentials (only the dead `LoginVC` signs anybody in).
- Client, listening: limbo resolution and existence filters (the modelled server never
  needs them: `NothingInLimbo`), a listen that the server rejects, limits and single
  documents, garbage collection of targets, `DisableNetwork`, and the overlay of own
  writes on a view (the writing half has it, in `OwnWritesSeen`).
- The other pods: third-party libraries of some 600 000 lines, most of them tables,
  headers and protocol code on which nothing above depends. This is why the modelled part,
  which is the app's logic and the part of the client it relies on, is a small share of
  the repository's lines; modelling a share of BoringSSL or Realm's query engine would say
  nothing about this program.

## Plan

1. `CatalogSync`, `CatalogMirror`, `CatalogSyncProofs`: done.
2. `Booking`, `BookingProofs`: done.
3. `ContentEditor`, `ContentEditorProofs`: done.
4. `Registration`, `RegistrationProofs`: done.
5. `FirestoreWrites`, `WriteDelivery`, `FirestoreWritesProofs`, `FirestoreDeliveryProofs`: done.
6. `FirestoreListen`, `QueryAnswers`, `FirestoreListenProofs`, `FirestoreAnswersProofs`: done.
7. `Calendar`: the months the two buttons reach over a year, with the globals that
   outlive the screen; `Booking`'s `ChangeMonth` then takes its guard from it.
