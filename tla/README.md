# Verification of firebase_ffi

TLA+ models of the code under `src/packages/`, the TLC runs that check them, and
the TLAPS proofs about nine of them. Paths below are relative to
`src/packages/firebase_ffi/` unless they begin with another package; `fs` is
`native/src/firestore_impl.cpp`, `db` is `native/src/firebase_impl.cpp`.

firebase_ffi binds the Firebase C++ SDK to Dart. A Dart isolate calls C functions
over FFI; the SDK calls back on threads of its own; the binding carries every
answer back as a message to a Dart port, and parks an SDK thread on a condition
variable when the SDK wants an answer from Dart. The SDK and the server are not
in the repository. They appear as *external* actions, modelled from how the code,
its comments and its tests rely on them.

## 1. Inventory

| Component | State | Operations | Hard because | Correct when |
|---|---|---|---|---|
| Firestore transaction (`fs` 823-1241, `lib/firestore.dart` 742-880, `cloud_firestore_ffi` 55-90) | `TxnState`: request, its port and path, the handed-over writes, the attempt; on the isolate the write buffer, the Completer, the port | begin, get, commit, abort; update function; port handler; completion | an async handler and a parked SDK thread share a one-request mailbox with no reset between attempts; the SDK retries; other clients write | atomic: one run's writes, from reads that are still current, and a future that says so; the thread is released |
| Transaction registry (`fs` 844-845, 1101-1109, 1168-1172, 1196-1241) | `g_txns`, `g_next_txn` | emplace, count, find, erase | the counter moves outside the lock | an id finds its own transaction |
| Firestore listeners (`fs` 898-1099, `lib/firestore.dart`) | `g_listeners`, `g_next_listener`, a `seq` per callback | listen, query listen, unlisten, onDocument, onQuery | the SDK is in a callback while its listener is removed; absence, failure and refusal share one message | registrations match streams; what is heard is what happened |
| Firestore calls | `g_firestore` | get, set, delete, query, aggregates, batch | errors as payloads | one true answer per call |
| RTDB transaction (`db` 985-1121, `lib/database.dart` 380-467) | `DbTxnState`: answered, abort, value, attempt; the `aborted` flags of binding and façade | run, apply, transaction function, port handler | one scheduler thread for the whole database is parked on Dart | no lost update; the thread is released; null, value or exception tells the truth |
| RTDB listeners (`db` 383-566, 1123-1214; `lib/database.dart` 690-864) | `g_listeners`, `g_child_listeners`, two handle counters | listen (value, query, child), unlisten, onListen, onCancel | one integer is a positive handle, a negative handle or an error code; raw pointers in the SDK | no dangling pointer; what is listened to is fed; what is cancelled stops |
| RTDB reads (`lib/database.dart` 490-595) | last value, quiet timer, timeout | readValue, readSnapshot | cached state first, server second; timers race events | settles on the server's value, ends |
| RTDB writes, presence (`db` 627-990) | none of its own | set, update, remove, priorities, push, onDisconnect, keepSynced, purge, online/offline | offline writes wait, purged ones fail | one true answer per call |
| App Check provider (`native/src/app_check_impl.cpp` 46-193, `lib/app_check.dart` 80-145) | `g_pending`, `g_next_request`, `g_provider_port` | GetToken on any thread, install (custom, debug), supply | the SDK re-enters on the same thread; async `supply`; replacement; exit | every request answered, no self-deadlock |
| App Check token stream (`app_check_impl.cpp` 116-132, 275-309, `lib/app_check.dart` 230-266) | `g_listener` | add, remove | lock dropped before the SDK call; several isolates | the SDK never holds a deleted listener; the listened-to stream is fed |
| App Check tokens, Auth, Remote Config, Storage, Functions calls | one instance per product | every exported function with one answer | two kinds of message, a handler that has to expect the right one; memory that changes hands | the future says what the SDK ended with; memory is freed once |
| Operations in flight (`native/src/storage_impl.cpp`, `functions_impl.cpp`) | `g_inflight`, `g_calls`, a done flag each | put, get, delete, metadata, url, call; completion | swept by later calls while SDK threads complete | kept until it is over, released after |
| App and product init (each `*_init`) | `g_app`, `g_has_database_url`, an instance per product | init, emulator settings | partial failure | nothing is answered by an instance that cannot |
| Codecs (`db` 82-381, `fs` 60-200, 541-600, `lib/src/variant_codec.dart`, `lib/firestore.dart` 153-330, object metadata) | none | encode, decode, header, child order | growth loops, widths of numbers, unsupported types | what arrives is what was meant, or it is refused |
| Query specs, batches (`db` 671-757, `fs` 418-536, 703-896) | none | build, apply | order of clauses, dropped clauses | the SDK is given the query that was asked for, or none |
| Transport, benchmark listeners (`native/src/transport.cpp`, `lib/firebase_ffi.dart`) | `g_listeners` | post, listen, emit, unlisten | ownership of a buffer that is posted | one snapshot is measured at a time; nothing leaks |
| Loader, façades, generated bindings | - | - | little | - |

**Interaction.** The isolate calls native functions synchronously. Native code holds
one mutex per file (`g_mutex`), and each transaction one of its own. The SDK calls the
update function, the transaction function, listeners, the App Check provider and
completions on its threads. Everything that flows back is a message to a port, so it
is queued, handled one at a time on the isolate, and dropped once the port is closed.

The hazards, each at its line with the properties that would catch it, are in
`PROJECT.json`. One without properties is a place where the code is at fault, so that
no passing run can hold it and a finding shows it instead, or where what happens is not
decided in the repository; its note says which.

## 2. Modules

| Module | Models | State and actions against the code |
|---|---|---|
| `FsTransaction` | one Firestore transaction end to end | `req`, `slot` (`get_port`, `get_path`), `mailbox` (`writes`), `attempt` are `TxnState`'s fields under its mutex; `serving` is the update function's local copy; `buffer`, `done`, `portOpen`, `inbox`, `run`, `read`, `reply` are `runTransaction`'s variables and ports; `result` is the façade's. `EnterUpdate`, `TakeRead`, `AnswerRead`, `TakeAbort`, `TakeCommit`, `ApplyWrites` are the update function cut where it holds and drops the lock; `StartRun`, `Finish` are the port handler; `Get`, `Record`, `Return`, `Throw`, `GiveUp` are what a handler can do |
| `AtomicTransaction` | what a transaction promises, with no mailbox, thread or retry in it | the abstract specification `FsTransaction` refines |
| `FsTxnRegistry` | `g_txns` and `g_next_txn` under several transactions | `BeginEmplace` is the locked part of begin; `ReadNextId` and `WriteNextId` are the two halves of the unlocked `g_next_txn++` |
| `FsListeners` | document and query streams | `Listen`, `Cancel` are the stream's callbacks with the native call they make; `Raise` is the SDK entering a callback, `Callback` its posting to the port it captured, with a `Cancel` possible in between; `Hear` is the port handler. `said` and `heard` are histories |
| `Transport` | the benchmark's listener and loop | `fdb_emit_snapshot` starts a detached thread, `Post` is what it does, `Sample` the isolate's wait |
| `Streams` | `FsListeners` and `Transport` in one isolate | |
| `DbTransaction` | RTDB transactions at one path | `EnterFunction`, `PostAttempt`, `Wake` are the transaction function cut at its unlock and its wait; `HandleAttempt` and `HandleTerminal` are the port handler with the façade's handler inside; `uncaught` remembers a throw in it |
| `AtomicUpdates` | what RTDB transactions promise, with no port, thread or attempt in it: each happens at most once and at one instant, to the version it was decided from, and its future tells which | the abstract specification `DbTransaction` refines: `asked` is the binding's `aborted`, `told` is `done`, `from` is `value` once something was written |
| `DbListeners` | the two maps, the handles, the streams | `ListenValue`, `ListenChild`, `Unlisten` are the native calls under `g_mutex`, each inside the stream callback that makes it |
| `ReadValue` | `readValue` in discrete time | `Deliver`, `DeliverError`, `FireQuiet`, `TimeOut` are its callbacks; `Tick` is the clock |
| `AppCheckProvider` | provider requests and `useCustomAppCheckProvider` | every action that takes `g_mutex` has `lock = {}` as its guard; the isolate is one of the threads the SDK asks on |
| `TokenStream` | `appCheckTokenChanges` in several isolates | `AddListener`/`AddToSdk`, `RemoveListener`/`RemoveFromSdk`/`DeleteListener` are the two calls cut where they drop `g_mutex`; `robbed` is a history, the streams whose listener a cancel not their own took |
| `AppCheck` | the two over the one mutex and the one thread of the isolate, and the isolate's exit | an isolate is inside one native call at a time |
| `InFlight` | `g_inflight` and `g_calls` | `Retain` is the sweep and the push; `SetDone` and `Unwind` are the end of the callback and of the SDK's frames under it |
| `Boundary` | the vocabulary of a one-shot call | an answer is a function from the SDK's completed future to the message, a handler one from the message to what the caller is told; a handler that is sent the other kind of message throws in the port's callback (`stuck`) |
| `FirestoreCalls`, `DatabaseCalls`, `AuthCalls`, `StorageCalls`, `RemoteConfigCalls`, `FunctionsCalls` | every exported one-shot function, as data: the guards in their order with their codes, what the SDK may answer, the answer posted, the Dart handler, the cause Dart names for each code, the buffer it holds | one definition per exported function, under its name (`FunctionsCalls` has App Check's too) |
| `Calls` | the life of such a call, and `g_app`, `g_has_database_url` and the instances | `Start` runs the guards and accepts or refuses; `SdkCompletes`, `Deliver`, `Collect`; other callers sign out, disconnect and purge; `fdb_app_init` and the init functions fail part of the way; the isolate exits and starts again while native state stays |
| `Cbor` | a CBOR item, a Dart value and an SDK value as trees; their length in bytes; grow-and-retry | |
| `VariantCodec`, `FirestoreCodec`, `StorageMetadata` | the encoders and decoders of both sides, query specifications and batches, as recursive operators | one operator per function of the source |
| `Marshalling` | a value on its way to the SDK and back | `DbSet`/`DbSnapshot`/`DbChild`, `FsSet`/`FsGet`, `GetMetadata`, the builder of `DbQuery` call by call, `FsQuery`, `FsResult`, `BatchCommit` |
| `MC*` | symmetry, the table of functions, input sets | |
| `*Proofs` | theorems about `FsTransaction`, `FsTxnRegistry`, `DbTransaction`, `DbListeners` and `ReadValue` (`DbReadsProofs`), `AppCheck`, `InFlight`, `Calls`, `Streams` | section 5 |

A definition introduced as a "Mutated form" is a slip the code could have. No behaviour of
a specification takes it; put in the place of the definition it is a form
of, it shows that a property notices.

**Abstractions.** In the transaction modules a document or a value is a version number:
two reads differ exactly if somebody wrote in between; payloads are the codecs' matter.
In `Calls` a result is a word for what the call returns, with "big" for what cannot be
encoded. In the codecs a text or a number is an atom with a width; the only lengths are those that
decide whether a buffer overflows, and the buffers are small. Ports
are FIFO queues and lose nothing while open. Allocation does not fail, but for the
case coded in `fdb_storage_put` and, with `MemoryRunsOut`, in `Calls` (synchronous answers such as `fdb_rc_get_all`'s
included). A token has an expiry or, as 0, none. The codecs refuse a payload that is too short; Dart's encoder writes none
that is too long, nor a batch that does not decode, so every batch of `Marshalling` is valid and the refusal in
`ApplyWrites`, which no caller in Dart can reach, is defined and not exercised. The handler of a
Firestore transaction awaits every
`get` it makes or gives it up, and does not use the handle after it has returned. An
isolate exits in `AppCheck` and in `Calls` only.

## 3. Runs

Every run but the last passes. Deadlock is checked where a system that has nothing left to do
stutters in `Quiet`, so that nothing else may stop; `calls`, `marshalling` and `streams` have no
such step, and stop when every bounded input is used up (`CHECK_DEADLOCK FALSE`).

| Run | Question | Bounds and why they are enough |
|---|---|---|
| `fs_txn_safety` | Is a Firestore transaction atomic, and does its future tell the truth? Also the refinement of `AtomicTransaction` | 2 documents (read one, write the other, two reads in flight), 2 attempts (what is left of the first meets the second), 1 foreign write per document (contention); values that cannot be encoded included. 1.2 million states |
| `fs_txn_live` | Does every awaited read and every transaction end? | the same with 1 read in flight and encodable values: the two exceptions are findings. 315 thousand states |
| `fs_registry` | Does an id always find its own transaction? | 1 isolate, 4 transactions: begins overlap completions of three others. 4521 states |
| `db_txn` | Are RTDB updates lost, outcomes wrong, the scheduler thread held? Also the refinement of `AtomicUpdates` | 2 transactions and a foreign writer, 3 attempts. 126 thousand states |
| `db_listeners` | Do handles, maps and SDK pointers stay in step? | 4 streams of every mix of kinds: two of one kind beside two others. `FirstChild = 1000` is the code's. 464 thousand states |
| `app_check` | Are token requests answered, does nobody deadlock, is the one native listener sound? | 2 requests on an SDK thread and the isolate's own, 2 installs (one replacement, before which the debug provider may be installed), 2 streams in 2 isolates, each of which may exit. 472 thousand states |
| `in_flight` | Is a reference kept while it is needed and released after? | 3 operations of all four kinds: one completing, one swept, one starting. 131 thousand states |
| `read_value` | Does a read settle on the server's value, and end? | settle 3, timeout 7, latency at most 2; 4 foreign writes, enough to hold the timer off until the timeout. 2420 states |
| `calls` | Does each one-shot function answer, truly, once, and without a leak? | every function of the library with every set of faults; 2 products in use, so that one is followed beside another; exits at any point. 30 thousand states |
| `marshalling` | Does what is sent mean the same on the other side? | every kind of value alone, in a list and in a map, numbers of every width, texts either side of a head's bounds; document buffers of 20 bytes and metadata buffers of 60, which the small inputs fit and the large overflow; 4 builder calls: two bounds, a limit and an order. 10.6 thousand states |
| `streams` | Do registrations match streams, and is what is told what happened? | one document and one query stream, 2 events each (one after another, one after the end), 2 snapshots. 676 thousand states |
| `fs_query_result` | Is a query result posted whole? *Violated* (finding `ResultIsWhole`) | two documents of which one, or both, overflow the first buffers |

More configurations reproduce the other findings; they are run by hand,
`tlc -continue -config X.cfg M` (`-continue` because some check several properties). Where a
listed run needs one constant changed, the table says which. TLC reports each property it names
violated but the ones marked as holding:

| Configuration | Module | Properties | Shows |
|---|---|---|---|
| `fs_txn_live.cfg` with `MaxReads = 2` | `MCFsTransaction` | `EveryReadAnswered` | of two reads in flight, one is never answered |
| `fs_txn_live.cfg` with `AllEncodable = FALSE` | `MCFsTransaction` | `EveryTransactionEnds` | a recorded value that cannot be encoded leaves the SDK's thread parked |
| `fs_txn_safety.cfg` with `AbortIsFinal = FALSE` | `MCFsTransaction` | `FailureWritesNothing` | if the SDK retries a cancelled update function, a failed future may stand for a commit |
| `fs_registry.cfg` with `Isolates = {i1, i2}` | `FsTxnRegistry` | `IdFindsItsTransaction` | two isolates race on `g_next_txn` |
| `fs_told_absent.cfg` | `MCStreams` | `NothingIsToldAbsent` | a document that cannot be encoded is told as one that does not exist |
| `db_txn_strict.cfg` | `DbTransaction` | `FacadeReportsCommits`, `ThrowsAreAnswered` (`TypeOK` holds) | a handler that throws is reported as a commit; an exception past the try keeps the scheduler thread parked |
| `app_check_reinstall.cfg` | `AppCheck` | `NoRequestLeftParked` | requests lost with a replaced port |
| `token_stream_strict.cfg` | `AppCheck` | `StreamIsFed`, `RefusedForAnother` | cancelling a refused stream silences the other; an isolate that exits keeps the place |
| `in_flight_strict.cfg` | `InFlight` | `RefOutlivesUnwinding`, `FinishedIsReleased` (`IInv` holds) | a sweep in the moment between the flag and the unwinding; a successful download is never released |
| `read_value.cfg` with `MaxLatency = 4` | `ReadValue` | `SettledIsCurrent` | a server slower than the settle time |
| `calls_strict.cfg` | `MCCalls` | `ErrorKeepsItsCode`, `RefusalNamesItsCause`, `NothingLeaks`, `EveryAppAnswers` (`TypeOK` holds) | error codes that become -1; refusals that name another cause; buffers posted to an isolate that has exited; an app without a url after one that failed with one |
| `calls.cfg` with `MemoryRunsOut = TRUE` | `MCCalls` | `EveryCallAnswered` | no memory for the answer: nobody is told |

The temporal properties of `calls`, `calls_strict` and `streams` are stated under their
`FairSpec`.

## 4. Fairness

Weak fairness on what a running thread or event loop does next: the SDK's thread inside
the update or transaction function or a listener's callback, its completions, the port handlers, the SDK's
decision about a commit (the network answers or fails). A user's handler that awaits
nothing comes to an end; the RTDB handler is synchronous, so it is part of the
port handler. `supply` "must return or throw". In `Calls` the SDK completes what it
accepted, if its instance is good and the database is online. Strong fairness only for the isolate
of `AppCheck`, which returns to its event loop again and again between other
calls. No fairness is assumed of begin, install, listen, cancel, other clients, other callers, exits, or giving up a read.

## 5. What is proved

`FsTransactionProofs` proves, for any set of documents and any number of attempts, reads
in flight and foreign writes (`FsTransactionAssumption`):

- `Invariance`: `Spec => []IInv`. The safety properties are not inductive: none of them
  says what is under way between the two threads. `IInv` adds that the port carries
  one event at a time (`PortInv`), which runs are over (`RunInv`), where an awaited read is (`ReadInv`,
  `RouteInv`), what a request in the mailbox says of the current run
  (`MailboxInv`), whose writes are in buffer, mailbox and staging (`WritesInv`) and
  that nothing changes once the SDK has committed (`OutcomeInv`, `AbortInv`). The heart of the argument is
  that the SDK's thread leaves an attempt only by consuming the one request that ends its run, so
  that an attempt begins with an empty mailbox although no code resets it.
- `TypeCorrect`, `OneRun`, `Completed`, and `RunsAreCurrent`, `RequestsAreOfThisAttempt`,
  `GuardedReads`, which are parts of the argument with a meaning of their own, from `IInv`.
- `FailureIsFinal` and `ImplementsAtomicTransaction` (`Spec => AtomicSpec`), which assume
  `AbortIsFinal`, that the SDK does not retry a cancelled update function. Without it the
  first is false (`fs_txn_safety.cfg` with `AbortIsFinal = FALSE`).

`InFlightProofs`, for any set of operations of any kinds: `Invariance` (a list
holds only what was started, what the SDK is at work on is kept and not flagged, and what is over is
flagged unless it is a successful download), and from it `ReferencesOutliveRequests` and
`FinishedReferencesAreReleased`, the state and the action property of `in_flight`.
`RefOutlivesRequest` alone is not inductive: that a sweep spares an operation needs the flag.

`DbReadsProofs` has two parts. `DbListeners`, for any finite set of streams (`DbListenersAssumption`: child handles begin at
-1000 or below): `SdkHoldsLive`, `ListenedStreamsAreFed`, `NothingUnseen`. The invariant says
that the handles given out are those behind the two counters (`Given`), that an entry of a map is the listener of
the stream with its handle (`Owned`), and that a stream's number says whether and where it is registered (`Kept`).

`ReadValue`, for any settle time, timeout, latency and number of versions: `ReadInvariance`, and from it
`ReadsSettleWhenQuiet` and, if the server answers within less than the settle time (`MaxLatency < Settle`),
`ReadsSettleOnTheServers`. What a read settles on is the last value it has seen, and neither property says what is still
on the port or how old the read is. `RvInv` adds that the port ends with what the SDK has (`PortInv`), that the quiet
timer runs from the last event (`TimerInv`), and that a value older than the read can only be on the port, or be the last one
seen, until the server's latency has passed (`LatencyInv`). So the invariant itself, for any latency, says that a read which
settled on an older value did so within `MaxLatency` of its start (`SettledInv`), and a read settles no sooner than
`Settle` after its start. The condition is needed: without it the property is false, and is the finding
`SettledIsCurrent` (`MaxLatency = 4` against a settle time of 3).

`AppCheckProofs`, for any threads, requests, installs, streams and isolates, `AppCheck` as a whole: `RequestsAreInHand`,
`NoDeadlockAgainstOurselves`, `SdkPointersAreLive`, `StreamsAreFed`. The two halves have an
invariant each, and a step of one leaves the other's as it is. The provider's: the mutex is kept over a step only while
a request is registered, and by then the port is wired (`Wired`), so the refusal that calls its completion with
the mutex held is not taken. The stream's (`PointersInv`): a call that is registering a
listener still finds it in `g_listener`, one that is removing or has deleted a listener has taken it from there for good
(`Out`), and the SDK has let go of what is deleted, but for listeners that a cancel not their own has taken (`robbed`).
The exception is needed: a refused stream's cancel, in another isolate, can delete
a listener the SDK has yet to be given. It names the one listener that was taken and no other, so that the theorems
hold of all other streams, however they overlap. Proving an earlier form showed what the runs with few streams do not:
a stream that was refused and is cancelled late silences also one that was listened to after both others.

`StreamsProofs`, for any streams, events and snapshots: `RegistrationsMatchStreams`, `StreamsTellTheTruth`,
`MeasuresOneDelivery`. The invariant follows an event from the SDK through the callback in progress
and the port: what was heard, what is on the port and what is being
raised are together what was said, in order, while the stream is listened to.

`DbTransactionProofs`, for any transactions and any number of attempts and foreign writes: `AnswersAreCurrent`,
`NoUpdateIsLost`, `OutcomesAreTrue`, `ImplementsAtomicUpdates`. `answered`, `abort` and `value` outlive an attempt, so that the first is not inductive:
the invariant says what a port may carry (`PortInv`: one event, the attempt that waits or the end) and
what each stage says of the thread, the registration and the answer (`StageInv`: a parked thread that was answered
was answered from what it was given). From that a commit replaces the version it was decided from, and since versions
only grow no two replace the same one (`TookInv`).
The refinement (`Spec => UpdatesSpec`) maps the server's commit to the one instant an update takes effect, the
handler's abort to asking for one, and the terminal event to what its caller is told; every other step is a stutter.
It rests on the invariant three times: the commit happens to the version in `value` (`StageInv`); an attempt's event finds
a transaction that has neither written nor been told (`PortInv`), so that no abort is asked for afterwards, also
not by a handler that runs again; and the terminal event says what the server did.

`FsTxnRegistryProofs`, for any finite set of transactions. With any isolates, the counter is not ahead of the
begins, whatever increments are lost (`CountInv`), so the keys are never used up (`TypeCorrect`).
`IdsFindTheirTransactions` and `ReleasesAreOwn` assume `OneIsolate`: then nothing is registered from the counter on
but the transaction that is being begun (`BeginInv`), and each keeps what it got (`HeldInv`). With two
isolates the first is false, and is the finding `IdFindsItsTransaction`.

`CallsProofs` has two halves. For *any* table of functions (`ApiAssumption`), any inits that fail and any exits:
`Invariance` and `BuffersAreFreedOnce`. The invariant says whose message a call is told of (`StageInv`), that a refusal is
one of the function's guards (`RefusedInv`), that a call which was not refused has none of the faults they are for (`GuardedInv`),
and who holds the memory at each stage (`MemoryInv`). For the functions of the library (`ApiIsTheLibrary`: every entry of `Api` is
the entry of that name in its product's table, as `MCCalls` has it): `FuturesTellTheTruth` and `RefusalsAreTrue`. They come from
the invariant and from what each function owes its callers (`Sound`): the Dart handler it names reads each of its answers as
what the SDK ended with, the Dart text for each refusal code is true of the guard that returns it, and there is a guard for what
the SDK asserts. That is proved function by function, from lemmas about the answers and handlers of `Boundary` (`FailureIsTold`,
`OutcomeIsRead`, `PayloadIsRead`, `BufferIsRead` and their like). The exceptions that the two properties name, the six functions
that do not pass the code of an error on and the interval of Remote Config, are the findings `ErrorKeepsItsCode` and
`RefusalNamesItsCause`.

Each proof has one lemma per action or group of actions and one step per conjunct. The type
invariants of these modules are parts of their invariants.

Only checked by TLC: liveness everywhere (`ENABLED` and fairness are out of the prover's reach), and `Marshalling`,
whose operators are recursive, which is out of its reach too.

## 6. Not modelled

The SDK and the server beyond what the external actions say; tinycbor and `package:cbor` beyond the
trees they carry; the build hook, CI, examples, generated bindings, `google_services.dart`, the
library loader. Of the FlutterFire façades only the transaction entry points: the
rest converts types of this library to those of Dart packages that are not in the
repository. Within the modelled components: failed allocation but for the cases named above, a transaction handle used
after its handler returned, the SDK still calling an App Check listener that is being removed,
`benchHop`, `getObject`'s size and download as one operation,
`listen` and `unlisten` waiting for the scheduler thread with `g_mutex` held (whether the SDK does is not in the repository),
a stream of `onValue` that nobody ever listens to and that keeps its native listener, a token's expiry before 1970,
an isolate that exits with a transaction or a Firestore stream open, and the text of a field path (it is
refused or not).

## 7. What is left

1. An isolate's exit in `FsTransaction`, `DbTransaction` and the listeners: the threads it leaves parked.
2. `getObject` as one operation against an object that is overwritten.
