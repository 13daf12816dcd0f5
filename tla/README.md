# A formal model of pdserv

pdserv lets a real time application publish *signals*, *parameters* and
*events* to network clients. `pdserv_prepare()` forks: the parent stays the real
time process and calls `pdserv_update()` cyclically; the child is the
communications process (nrt), which runs the MSR server with one thread for each
client. The two share an anonymous memory mapping and three pipes. The real time
side must never wait for the other side, so nearly everything between them is
lock-free, and most of what can go wrong is an order of steps nobody can
produce in a unit test. This directory models these parts in TLA+, checks them
with TLC and proves the central ones with TLAPS.

## 1. Inventory

| Component | State | Operations | Interacts with |
|---|---|---|---|
| Subscription request list (`lib/Task.cpp`) | ring `signalList` with `signalListRp/Wp` (shm); per-width copy lists, `signalTypeCount` and `signalListId` in **both** processes; `Signal::sessions`, `copyListPos`, `subscriptionId`; `Task::mutex` | `subscribe`, `getSignalList`, `processSignalList` | session threads → real time task |
| Process data stream (`lib/Task.cpp`, `lib/SessionTaskData.cpp`) | chain of PDOs in a circular memory; `txPdo`, `nextTxPdo`, `seqNo`; for each session `pdo`, `seqNo`, `signalListId`, `signalPosition`, `subscribedSet`, `transferredSet`, `activeSet`, `signalBuffer` | `rt_update`, `calculateCopyList`, `copyData`; `init`, `rxPdo`, `loadSignalList`, `subscribe`, `unsubscribe` | real time task → session threads, which also read the request list |
| Events (`lib/Event.cpp`, `lib/Main.cpp`, `Main.cpp`) | `rt_state`; event ring with `eventDataWp` (shm); the reader's `eventData`; `setTime/resetTime`; `eventList`, `eventPtr`; `Session::eventId` | `set`, `setEvent`, loop of `setup`, `newEvent`, `getNextEvent`, `getEventHistory` | real time threads → main thread → session threads |
| Parameters and SDO calls (`ProcessParameter.cpp`, `lib/Main.cpp`) | values in the application and in shm, `mtime`, read/write lock, `sdoMutex`, two pipes, `ipc_error` | `setValue`, `getValue`, `run` | session threads ↔ supervisor thread of the real time process |
| Persistent parameters (`Main.cpp`, `Database.cpp`, `Task::Persistent`) | `persistentMap`, Berkeley DB file, a session of its own | `setupPersistent`, `savePersistent`, `setValue`, `nrt_update` | main thread, session threads, data base |
| Subscription manager (`msrproto/SubscriptionManager.cpp`, `Subscription.cpp`) | subscription map, active groups by group/decimation/blocksize, counters, block buffers | `subscribe`, `unsubscribe`, `clear`, `newSignal`, `remove`, `rxPdo`, `sync` | called back by the stream |
| MSR server and sessions (`msrproto/Server.cpp`, `Session.cpp`) | session set and its mutex; `changedParameter`, `aic`, `aicDelay`, `broadcastList`, `polite`, `quiet` | accept, `run`, commands, `broadcast`, `parameterChanged`, `setAic`, shutdown | all of the above |
| Session stream and TLS (`Session.cpp`, `TLS.cpp`, `Main.cpp`) | output buffer, TLS state, the record GnuTLS keeps; credentials, trust list, blacklist; session cache | `flush`, `xsputn`, `xsgetn`, `startTLS`, `gnutls_verify_client`, `setupTLS`, `TlsSessionDB` | socket, GnuTLS |
| XML parser (`msrproto/XmlParser.cpp`) | input buffer, its limits and cursors, attributes found | `read`, `moveData`, `operator bool`, `getString` | session thread |
| Directory (`msrproto/DirectoryNode.cpp`, `Server.cpp`, `DataType.h`) | tree of nodes, channels, parameters, `parameterMap` | `insert`, `adopt`, `find`, `list`, `createVariable`, `inform` | built by the server's constructor, read by sessions |
| Shared memory (`lib/Main.cpp`, `lib/Task.cpp`) | registered variables, `shmem_len`, addresses, copy lists | `addSignal`, `addParameter`, `addEvent`, `prefork_init`, `prepare`, `rt_init`, `nrt_init` | C interface, both processes |
| buddy (`buddy/main.cpp`, `buddy/Main.cpp`, `buddy/SessionTaskData.cpp`) | table of servers, signals; album of photos, `photoReady`, `photoCount`; parameter buffer | daemon loop, `serve`, `rxPdo`, `setValue` | kernel device, child processes |
| etlproto, XML output, configuration | – | – | see `PROJECT.json` |

What is hard here: two processes that mirror a list without ever comparing it;
a reader that follows a chain of frames which the writer recycles; several
sessions that change the layout under each other; rings without overrun checks;
a mutex held while waiting for the other process; threads that run inside their
own constructor and delete themselves; shutdown after the other process died; a
data base shared by two threads; text and records that the network cuts anywhere;
signals that coalesce.

What makes each component correct: the *request list* must keep both lists
equal and requests in order; the *stream* must be decoded with the layout it was
written with, a session that keeps up must stay in it, and a subscription must
become active; *events* must arrive once, in order, and not be lost while
rings suffice; a *parameter* set by a client must be the value the application
uses, every other client must learn of it, and a persistent one must survive a
restart; a *subscription* must deliver whole blocks with matching time stamps;
the *server* must know exactly its living sessions and be able to stop; the
*output* must arrive once and in order, and the *parser* must find the same
commands however their text is cut; what is registered must have its *memory* and
be found in the *directory*; the *buddy* must follow kernel and children. The hazards, each at its source line and with
the properties that cover it, are listed in `PROJECT.json`.

## 2. Modules

### SignalList – the request list of one task

One variable for each field (the `VARIABLES` section names the field). Private
state of the two processes is kept apart; only `slot`, `rp`, `wp` are shared.

| Action | Code |
|---|---|
| `EnterSubscribe`, `EnterUnsubscribe` | the session's `subscribedSet` changes, `Task::subscribe()` takes the mutex |
| `AlreadySubscribed`, `StillSubscribed` | the early returns with `true`; `wp->signal` has been written |
| `RequestInsert`, `RequestRemove` | the request is written up to the memory barrier, lists and positions of the nrt side change |
| `Publish` | `*signalListWp = wp`, mutex released |
| `ProcessRequest`, `ReleaseSlot` | `processSignalList()` up to the barrier, and `*signalListRp = sp` |
| `CurrentList`, `CurrentListId` | what `getSignalList()` returns |

A step ends at each memory barrier and wherever the other process can observe
the difference. The wait for a free slot is the guard `Room`; the mutex is held
meanwhile because `call` stays set. Data is abstracted to signal identities: the
width of a signal (`WidthOf`) only selects the list. `after` is a history
variable, used in the inductive invariant only: the lists at the time a request
was made.

### PdoStream – the process data stream, composed with SignalList

Extends `SignalList`; every step of the composed system that touches the request
list does so through an action of `SignalList`, so that what is proved of the list
holds here (a lemma of the proof module, `StreamImplementsList`). `chain` is the sequence of PDOs that some session can still reach;
linking a PDO is one step because it becomes visible with `*nextTxPdo = txPdo`
after the barrier. A Data PDO carries the layout it was written with in place
of the values, which is what decoding depends on. `pos[st] = 0` means that
the PDO a session stood on was overwritten.

| Action | Code |
|---|---|
| `RtProcess`, `RtRelease`, `RtDrained`, `RtLinkList`, `RtLinkData` | `rt_update()`: requests, `calculateCopyList()`, `copyData()` |
| `OpenSession`, `InitGetList`, `InitWait`, `InitFollow`, `InitDone`, `InitAgain`, `InitReused` | `SessionTaskData` constructor and `init()`, one action for each point where other threads matter |
| `RxSignalList`, `RxData`, `RxEnd`, `RxOutOfSync` | the branches of `rxPdo()` |
| `Subscribe`, `Unsubscribe`, `SubscribeShared`, `RequestStep` | `subscribe()`, `unsubscribe()` around `Task::subscribe()` |
| `CloseSession` | the session is deleted after its subscriptions were given up |

Overwriting is governed by `KeepsUp`: the memory lasts two seconds or ten PDOs
(`getShmemSpace`) and a session polls every 40 ms, so with `MayLap = FALSE` a
session that makes progress whenever it runs is not lapped. A session that spins
in `init()` gets no such help. With `MayLap = TRUE` any session may be lapped
between two calls of `rxPdo()`; a PDO that was overwritten is either recognised
(`RxOutOfSync`) or reads as the end of the chain (`RxEnd`), possibly for ever:
nothing in the code rules it out, so no claim is made that a lapped session returns.
`StreamInv` says how the chain of PDOs, the request ring and what each session has
fetched and loaded belong together; section 4 explains its parts.

### Events – from the application to the clients

`SetState`, `FillSlot`, `MovePtr` are `Event::set()` and `setEvent()`;
`NewEvent`, `RingRead`, `Select` the main loop; `Connect`, `SendEvent`,
`NoMoreEvents`, `Disconnect` a session; `HistoryOf` the answer of
`getEventHistory()`, which changes nothing. Every event has a number, in the
order in which `eventMutex` was obtained, which also stands for its time.
`MayOverrun`, `MayLapSession` and `MayExit` say what application and scheduler
may do. Each element is set by one thread (`Owner`), as the comment at
`rt_state` in `lib/Event.h` requires. Stores are taken in program order.
`EventInv` says where in the two rings each event is (`NumberAt`), and
separates what holds at any pace from what needs a ring that is not overrun.

### Parameters – set commands, notices, persistence

| Action | Code |
|---|---|
| `Connect`, `Disconnect`, `RemoteHost` | session set, `remote_host` with `polite` and `access` |
| `WriteParameter`, `WriteInvalid` | `writeParameter()` with a value that can or cannot be parsed |
| `LockParameter`, `SendRequest`, `SendFails`, `ChangeAccepted`, `ChangeRefused`, `AckFails` | `ProcessParameter::setValue()` and `lib/Main::setValue()`, cut where a thread can block |
| `Inform`, `SaveParameter`, `Uncouple` | rest of `Main::setValue()`: notices, data base, coupling |
| `PollSignal`, `PollDone` | `getValue()` of a signal, which uses the same pipes |
| `ServeChange`, `ServePoll` | `Main::run()` and the application's callbacks (accept or refuse) |
| `ReadParameter`, `CollectNotices` | `readParameter()` under the read lock; the locked section of `Session::run()` |
| `SaveStart`, `SaveSkip`, `SaveFetch`, `SaveWrite` | `savePersistent()` in the main thread |
| `RtEnd`, `Restart` | the application ends; both processes are gone and start again with the data base |

A parameter is a vector of parts. `writeParameter()` only looks whether the first
element exists; the command sets as many as it has values, so that it may run on into
the parameter behind (`Overrunning`, `Reach`): in shared memory and, when the
application accepts it, among the application's variables, whose order may be another
one (`ShmBehind`, `AppBehind`). Lock, backup, notice and saving are those of the
addressed parameter. The history variable `overrun` collects the parameters that were
hit; the properties are stated for all the others, and say nothing of these. `seen` is what a client displays that follows notices,
including what its user typed; it is how a lost notice shows. Times are replaced
by the number of changes accepted so far. The notices are taken to all sessions
in one step, since each session is told under its own mutex. The value of a
signal is any value. A data base call succeeds.

### MsrServer – processes, threads, sessions, broadcasts

`Fork`, `ForkFails`, `RtSetup`, `NrtSetup`, `AppEnds` are the two processes of
`lib/Main::setup()`: the application may die at any moment, also between `fork()`
and the message with which it releases the child. `ServerStart` to `Drain` are the
accept loop and `final()`, cut where the thread can block or be cancelled;
`Construct` needs a running application because the constructor of a session waits
for a frame, with the server's mutex held. `Collect`, `RemoteHostPolite`, `Post`,
`Deliver`, `PostEnd`, `Leave`, `SessionClosed`, `Destroyed` are a session's thread,
which starts before the session is registered. `AwaitRt` is its wait for the real time
process, in `Task::subscribe()` with a full ring or in `init()` without a frame;
`RtAnswers` ends it, which only a running application is bound to do. `due` is a history variable: the
broadcasts a session has to get. A session object may be allocated again.

### SessionStream and TlsSessionDB – output and TLS

The characters a session writes are numbered; `wire` is what the client received,
and whether it was encrypted. `Copy` is `xsputn()`, the six `Flush...` actions the
outcomes of `flush()` (nothing to do, part of the buffer taken, a record sent, try
again, connection broken, handshake under way), `Top`, `Input`, `Handshake`,
`Write`, `StartTLS...`, `WorkDone` the loop of `Session::run()`. After
`GNUTLS_E_AGAIN` GnuTLS keeps a record and sends it the next time, whatever it is
called with. `<starttls>` may come at any time and more than once; `StartTLSInit`
replaces the TLS session and forgets the record the old one kept, and `StartTLSFails` is
the error of `gnutls_init()`, which `msrproto/Session.cpp` ignores: a session in clear
text goes on in clear text, one in TLS may go on or crash on the lost pointer.
`SetupTLS` and `SetupFails` are `setupTLS()`; `ConfigFiles`,
`verifyClient`, `TrustList`, `blacklist`, `Revoked` what it makes of the lists `ca`
and `crl`; a file that GnuTLS cannot load counts for nothing, as the code only warns of
it. Who passes is not a property of its own, since it could only repeat the test of the
handshake; that nothing is encrypted for a client that did not pass is part of
`OutputInv`. `VerifyPeers`, GnuTLS's own judgement, is external.
`TlsSessionDB` is the session cache all clients share, a map and a list of
iterators into it. `Retrieve` of an entry ends in a memory fault, as in the code.

### XmlParser – commands out of a stream of characters

`Parse` is one round of the loop in `operator bool()` (`ParseStep`, one operator for
each parsing state) with the command it hands over, and goes on until it has to wait
for input, as `Session::run()` does.
`ReadMove`, `ReadGrow`, `ReadReset`, `ReadAppend`, `ReadRefuse` are the ways
through `read()`, which takes any number of characters that fit. `CommandsExact` says
that the commands are the right ones, `ParserInv` that parser and strings stay in the
buffer. `moveData()` shifts the null pointer of a flag as well (`Wild`, shown as
`Stray`): `CommandsExact` compares names and values and leaves such flags to `FlagsKept`,
which is violated (section 5); `StringsEnd` excepts them in a command that was moved.
The buffer holds real positions, because moving them is what can go wrong. Here, and only here, text
is modelled character by character: the property is about where it is cut.

### Subscriptions – one session's SubscriptionManager

`XsadNone`, `Xsad`, `Xsod`, `XsodAll`, `Announce` (the callback `newSignal()`) and
`Frame` (`rxPdo()`: decimation counters, blocks, event channels). `Sync`,
`SubscribeChannel` and `UnsubscribeChannel` take the manager (subscriptions, active
sets, signals) from one state to the next. A command names one channel: the session
does nothing else between the channels of a list, so a list amounts to as many
commands. A block channel shows the time at which a value was sampled in place of
the value, an event channel the value.

### Directory and ShmemLayout – what is made of variables before the start

`Directory` is the constructor of `Server`: `CreateChannel`, `CreateTaskinfo`,
`CreateParameter`, `DirectoryReady`, with the walk of `DataType::Iterator` over
vectors and compounds, and the tree with its hyper nodes for equal names.
`ShmemLayout` is the registration through the C interface followed by
`prefork_init()`, `RtInit` and `NrtInit`: the size computed in one place (`ShmemLen`),
the addresses in another (`Layout`), on a machine with 64 bits. The size of a type need
not be a multiple of its alignment (packed structures); the alignment of the parameters
is stated for when it is (`Padded`). Variables without
elements are allowed, as in the code; two parameters share an address only if one of
them is empty.

### BuddyPhotos and BuddyDaemon – kernel models

`BuddyPhotos`: `KernelWrite` (external) fills an album; `ServeBegin`, `ServeMark`,
`ServeEnd`, `ServeReset`, `ServeStop` are `serve()`; `SessionStart`, `PhotoRx`,
`SessionEnd` a session that follows the marks without a lock; `SetValue` and
`InitializeParameter` the parameter buffer. A session works with what its slot
contains (`TurnTo`: `shown` is the photo found in `album`), which the kernel may have
overwritten after it was marked; `mark`, `skipped` and `label` are history variables that
say for which photo a slot was marked. `BuddyDaemon`: the loop of `main()` with its table of servers;
children end, models come and go, signals coalesce, `fork()` fails.

### ListReplicas and ListRefinement – what the request list promises

`ListReplicas` is the abstract specification: one side changes its lists, the other
goes through exactly the same versions. `ListRefinement` maps `SignalList` to it:
the versions in between are those of the slots between the pointers, plus the
request that is written but not yet published.

## 3. Runs

A run composes several components when they share threads but no state: a rigid
variable `part` chooses the component at the start, the others keep one fixed
initial state. The behaviours are exactly those of each component alone, with its
own fairness, and one run answers for all of them.

| Run | Checks | Instance and why it is enough |
|---|---|---|
| `rings` | requests: both lists agree when drained, removal hits its signal, requests in order, inductive invariant (with `CopyListExact`), implements `ListReplicas`, `SubscribeReturns`; `EventsInOrder`; photos in order, marks follow photos, buffer agrees with the kernel | requests: 3 signals of one width (from three on it matters which one fills a gap), 2 sessions, 6 requests through 6 slots: the ring fills up, a call has to wait for room, and the pointers wrap; events: rings of 3 and 2, 8 events, 2 clients; photos: an album of 3, 9 photos, so that it is filled three times, overwritten before it is read, and overrun |
| `stream_lapped` | `StreamInv` (with active signals transmitted to the only session), out of sync only when lapped | 1 session lapped at any time, 2 signals of different width, 5 requests through 4 slots, 3 PDOs, sequence numbers modulo 3 |
| `stream_active` | values decoded with the right layout under interference, `SubscribedBecomesActive` | 2 sessions that come, go and share a signal, 3 requests, sequence numbers modulo 2 |
| `session` | events: none skipped, times follow the application, history complete, every event logged and sent; commands exact, parser in its buffer; output once, in order, never clear behind the reply TLS began with, delivered; `CacheExact`; the daemon's table exact, `wait()` never blocks, `GoneServersEnd` | events: 2 threads, ring of 4, history of 3, 6 events, both rings wrap; parser: five texts of two to four commands with entities, flags, noise and one command longer than the buffer, cut anywhere; output: 5 characters through a buffer of 3, `starttls` again and again and failing, configurations without TLS, without lists, and with lists of which some files do not load; cache: 4 keys, 2 places; daemon: 2 models, 3 forks, 3 changes |
| `params_notices` | shared memory agrees with the application whenever it can be read, answers reach their callers, nobody is stale without a notice | 2 clients, 2 parameters of 2 elements that lie behind each other, in shared memory in one order and in the application in the other, 2 values; one command of any kind, asynchronous input and a vector that is too long included, or two commands for the first parameter at the same time or one after the other, accepted or refused; notices held back for 2 rounds; the clients are symmetric |
| `params_restart` | a set value survives a crash, clients converge | 2 clients, one of which shows what the other sets, with or without asynchronous input; a plain persistent parameter and a pair, any data base to begin with; with one client the application ends and is started again at any time |
| `server` | memory areas apart, aligned and large enough; every variable found, listed, covered by its elements, told of changes; the set of sessions holds living sessions only and all of them, broadcasts complete and in order, the server process ends once the application is gone unless a session waits for it; subscriptions active exactly, blocks whole and aligned, `EventReported` | layout: 2 tasks with 2 signals, 2 parameters and an event of three widths, one type packed; directory: any 3 of five sources (equal paths, a directory that is a variable, hidden ones, a compound); server: 2 session objects used 3 times, 2 broadcasts, the application dies at any step; subscriptions: 2 channels of one signal that share a set, a decimation or neither |
| `stream_init_spins`, `stream_stale_list`, `persist_value`, `params_uncoupled`, `parser_flags` | violations, section 5 | the smallest instance that shows them |

Bounds: `MaxListId` (requests), `MaxEvents`, `MaxCalls` (set and poll commands),
`MemFrames` and `SeqMod` (PDOs in memory, sequence numbers; 2^32 in the code),
`SizeMod` (where a `size_t` wraps), `TimeMod` (clock of the frames), `MaxChars`,
`MaxPut`, `MaxSessions`, `MaxBroadcasts`, `MaxPhotos`, `MaxStarts`, `MaxForks`,
`MaxChanges`, `MaxHangups`, `MaxSources`, `MaxTasks`, `MaxSignals`, `MaxParams`.
Deadlock is checked in the stream, where the real time task can always go on, and in
`Parameters`. In the other runs behaviours end when a bound is reached, a
connection is closed or the process has ended.

Fairness. `ListFairSpec`: the real time task calls `pdserv_update()` for ever
and a thread that holds the mutex runs on. `StreamFairSpec`: the same, and
session threads run on; strong fairness for a session because it competes for
the mutex, and for the real time task because the assumption `KeepsUp` holds it
back while a session is about to be lapped (in the code it never waits; a fast
session only makes the assumption true). `EventFairSpec`:
threads inside a call, the main loop and the sessions run on. `ParamFairSpec`:
the supervisor thread answers, a thread inside a call goes on and gets its locks,
`Session::run()` goes round, and a client reads what it was told has changed.
`SessFairSpec`: the thread of a session runs, and a network that is offered output
again and again takes some or fails. `ServerFairSpec`: threads run, a mutex that is
free again and again is obtained, and the main thread polls the pipe; a session
leaves only when the server is no longer active, and one that waits for the real time
process goes on only while there is one (it calls `pdserv_update()` for ever). `SubFairSpec`: frames keep coming.
`DaemonFairSpec`: the daemon runs. No
client is ever obliged to connect, subscribe or disconnect, and no application to set events.

## 4. Proofs

TLAPS proves the safety properties below for every value of the constants that
the named assumptions allow (any number of signals, sessions, parameters, elements,
threads, photos, any length of a ring). TLC evaluates the assumptions in the runs
and checks every invariant on its instances, the inductive ones conjunct by
conjunct. Each proof module has a lemma for each action (or group of actions that
leave the same things alone), under it a step for each conjunct the action can
disturb, and a theorem that combines them.

| Module | Theorems | Assumptions |
|---|---|---|
| `SignalListProofs` | `ListInvariant` (`ListSpec => []ListInv`) and from it `ListTypes`, `CopyListIsExact`, `DrainedAgreement`, `RemoveOnTarget`, the action property `InOrder` | `SignalAssumption`, `WidthAssumption`, `BoundAssumption`, `NullAssumption` |
| `ListRefinementProofs` | `RingImplementsReplicas` (`ListSpec => ReplicasFollow`) | the same |
| `PdoStreamProofs` | `StreamListsAgree`, `StreamInvHolds`, `ValuesDecodedHolds`, the action property `OutOfSyncMeansLappedHolds`; `LayoutApart` (areas, size and lists of `LayoutInv`) and `LayoutSafe` (all of it) | the same and `StreamAssumption`; `ShmemAssumption`, for `LayoutSafe` also `NoEmptyVariable` |
| `EventsProofs` | `EventInvHolds`, `HistoryCompleteHolds`, the action properties `EventsInOrderHolds` and `NoEventSkippedHolds` | `EventAssumption` |
| `ParametersProofs` | `ParamInvHolds`, `AckMatchesRequestHolds`, `StaleHasNoticeHolds`, `PersistentSavedHolds` | `ParamAssumption`, `NullAssumption` of `Parameters` |
| `MsrServerProofs` | `ServerInvHolds`, `BroadcastsCompleteHolds`, `SubInvHolds` | `MsrServerAssumption`, `SubAssumption` |
| `SessionStreamProofs` | `OutputInvHolds`, `CacheExactHolds`, `ParserInBuffer` (`ParserSpec => []ParserInv`) | `SessionStreamAssumption`, `TlsSessionDBAssumption`, `ParserAssumption` |
| `BuddyProofs` | `PhotoInvHolds`, `DaemonInvHolds`, the action property `PhotosInOrderHolds` | `BuddyAssumption`, `DaemonAssumption` |

**Request list.** `DrainedListsAgree` alone is not inductive: it says nothing while
requests are under way. `ListInv` says that the requests between the pointers form a
chain. `RingChained`: each slot's request turns the lists recorded at the slot before
(`after`) into its own and has the next id; the last one leads to the nrt lists,
with one more link while a request is written but not yet published. `RtInStep`:
the real time lists are those recorded at the last request it finished.
`CopyListExact` makes the position of a `Remove` request right at the time it is
made, and the chain carries it to the time it is applied. `SubscribersMatch`
relates the sessions' sets to the signals' sets, so that a `Remove` is never
made for a signal nobody holds. The same chain gives the refinement: the abstract
versions are the recorded ones between the pointers, `RequestInsert` and
`RequestRemove` append one (a change of `ListReplicas`), `ProcessRequest` takes the
first one over, and all other steps stutter. Lemmas on ring arithmetic say which
slots lie between the pointers before and after a step.

**Process data stream.** What a session decodes is right because the id in a frame is
the id of the list it has loaded, and because an id names one list. The second half
is `IdNamesList`, over all places where a list is kept with its id: the slots of the
request ring, the `SignalList` PDOs in the chain, what a session has fetched in
`init()`, what it has loaded (`NamedLists`). The first half is `ChainInStep`: a `Data`
PDO has the id of the PDO before it, a list PDO its own, sequence numbers follow one
another across their wrap, the end of the chain is where the real time task is, and a
session that is in the chain has the id and the sequence number of its place. From
these, `OutOfSyncMeansLapped` is the statement that the next PDO of a session that
was not lapped is always the expected one. `InUseListed` (a signal that is in use is
in every list since the request that inserted it) gives `ActiveTransmitted`,
but only for a task with one session: with two of them run `stream_stale_list`
shows it violated, so `StreamInv` has it under `OneSession`. `ValuesDecodedHolds`
has `~MayLap` as its hypothesis: after a session was lapped `rxPdo()` returns true
with the pointers of the frame it had before (section 5). Shortening the chain to
what is still in use shifts all positions, which needs that a set of numbers has a
least one (`LeastNumber`, from the well-foundedness of `<`).

**Events.** That a client is sent a newer event each time follows neither from the
place of the session nor from the order of `eventList` alone. `RingNumbered` gives
the number of the event in each slot of the ring as a linear function of the slot,
the write pointer and the number of events written, with no mention of laps; what
the main loop reads next is therefore newer than all it has read, even after the
application has overrun it. `ListInOrder` carries this to `eventList` (filled from
its beginning, older before newer, the newest before `eventPtr`), and
`SessionsInOrder` says that everything ahead of a session is newer than what its
client was sent. `HistoryComplete` follows from `ListInOrder`. Without overrun
(`~MayOverrun`) the numbers have no gaps (`AllRead`), sessions that are not lapped
have sent all before their place (`AllSent`), and `LastStateKept`: the last event of
an element, be it in the ring or recorded, has the state in which the application
has the element, unless its thread is inside `Event::set()` before the ring;
`TimesShowState` is the case of an empty ring. `NoEventSkippedHolds` has
`~MayOverrun /\ ~MayLapSession` as its hypothesis, the case its run checks.

**Parameters.** `ParamInv` relates the four locks: `LocksHeld` (who holds the lock of
a parameter or of the pipes is at the matching place of its call), `OneRequest` (the
pipes together hold nothing, or one request or its answer, of the holder of
`sdoMutex`), `ValueAgreed` (shared memory and application agree on a parameter except
while a request for it is under way; then the backup is what the application has),
`OverrunKnown` (what the request under way runs into is in `overrun`). All of it is for
parameters that no vector ran into: a vector that is too long changes its neighbour
without the neighbour's lock, so nothing of the sort could hold for that one.
`AckMatchesRequest` follows. `StaleHasNotice` and `PersistentSaved` are
strengthened in the proof module (`NoticeInv`, `SavedInv`), which follow a changed
value from the answer through `Inform` and `SaveParameter`.

**Server.** `ServerInv`: the mutex is held by the server exactly while it constructs
and inserts, or by the session that is at such a step (`MutexHeld`); a session is
registered exactly while its thread lives, but for the moment between its start and
the insertion (`RegisteredAlive`). `BroadcastsComplete` needs it, because the set of
sessions that a broadcast visits must not change under it.

**Subscriptions.** `BlocksAligned`, that a block goes out with the time stamps of its
own values, needs more than equal lengths: members of a set join it while time stamps
are being collected. `BlocksFit` says that the values a subscription has are those of
the *last* time stamps of its set, that there are fewer time stamps than the blocksize
between two frames, and that nothing is collected before the signal is transferred;
when the set is full, a subscription with as many values as the blocksize therefore
has all of them, and the others are dropped. `ActiveExact` makes the sets the right
ones. The proof states the invariant of a manager as a record (`ManagerInv`), shows for
each method that it leads from one such manager to another, and adds the frame.

**Session stream.** `OutputInOrder`: the wire, then the record GnuTLS keeps or the
buffer, hold the characters 1 to `put` in order. It is preserved because of
`FlushReturns` (where `flush()` was called from), `ReplyAlone` (a session in clear text
that was asked to start TLS writes its reply and no more until it does, or fails to) and
`HandshakeFirst` (the record is one of the present TLS session, none exists before its
handshake). `ClearBeforeReply` speaks of the reply TLS began with: after a failing
`starttls` the session goes on in clear text, and a later one begins anew. The proof talks of places (`InPlace`) rather than of concatenations.
`CacheExact` is inductive as it stands: the iterators are distinct, so `remove()`
takes out one at most, and those that are popped are erased from the map.

**Buddy.** `Position` is the photo `serve()` is about to mark, as quotient and
remainder by the album's size. `ServeInStep` keeps the loop of `serve()` within the
photos that `GET_WRITE_PTRS` reported, `MarksGiven` bounds marks and counts by it, and
`NextIsNext` says that consecutive counts are on consecutive photos unless some were
skipped. These speak of the photos slots were marked for. `NewestInSlot` adds what
is in them: never an older photo than the one a slot was marked for. A session whose
photo is the one its slot was marked for therefore goes on to a newer one, which is
`PhotosInOrder`; one that is ahead of its mark may go back, as it may in the code. `DaemonInv` is inductive as it
stands: a child that ends adds a zombie and at most one signal, `wait()` takes one of
each, and a process that is forked was not in use.

**Layout.** That the memory asked for is enough is a statement about sums over what was
registered, in an order the application chooses. `LayoutInd` relates `signalMemSize`
and `signalTypeCount`, which `addSignal()` keeps, to the signals themselves, and says
that once `stage` has left "register" the addresses are those of `Layout`. The rest are
lemmas about `SumTo`, by induction on its number of terms: a sum is that of one term less
plus the last term, more terms do not make it smaller, the sums of two sequences add up
to that of their sums, and a sum of multiples is a multiple. They give that the groups of parameters follow one
another with every address a multiple of its `align()`, that the buffers of the tasks
follow one another, and that all roundings together stay below the fudge factor
`(10 + number of tasks) * 8` of `prefork_init()`. Inside a task, `prepare()` loses at
most a few bytes of what `getShmemSpace()` added up. `FramesKept` needs the hypothesis
`NoEmptyVariable` (no registered variable has `memSize` 0): a list of all signals takes
8 bytes for each of them wherever it lies, while an empty signal adds none to the
space for frames, so that with some ninety empty signals such a list does not fit. Nothing in
`addSignal()` refuses an empty signal, hence `LayoutApart` is stated without it.

**Parser.** `ParserInv` is not inductive: when the buffer is full, nothing in it says
where the pointers found so far are. `ParserInd` has, for each state of `operator bool()`,
what the next one relies on (`ParserShape`). While an element is read, `name`,
`argument` and all pointers of attributes lie between the tag and `parsePos` (`UpTo`); behind
the end of an element a `'\0'` lies behind all of them (`Ended`), which still holds while
the line of `starttls` is awaited. Between elements the pointers are stale; only
`name` stays below the length of the buffer, and that is enough: when the buffer is
full and the parser waits, at most one character is left behind `parsePos`, so `name`
is not behind it, and `moveData()` starts inside the text. `moveData()` shifts all
pointers by the same distance, so `UpTo` and `Ended` shift with them; null pointers
become wild ones, which both admit only when `moved` is set.

Induction. The library's induction theorems take an operator, which the provers here
cannot instantiate; sums and scans are therefore handled by way of sets: a set of
numbers that is not empty has a least one (`LeastNumber`, `LeastOf`, from `WFMin`), hence
a set that has 0 and with each number the next one has all of them (`NatsReached`).

Only model-checked: `DirectoryInv`, `CommandsExact`, the violations of section 5, and
all liveness (fairness and `ENABLED` are outside this prover's reach). `Directory` walks
over nested types with `RECURSIVE` operators, which the prover cannot reach.
`CommandsExact` compares what the parser hands over with what the client meant, which
is given for each text of the instance; to state it for every text takes a second
parser as reference, and a proof that a text cut in two is parsed like the whole.

## 5. What disagrees with the documentation

* `stream_init_spins`: a session that starts while a request is pending can wait
  on a data frame of the old list; `init()` then neither leaves the loop nor
  moves on until the memory is overwritten, a busy loop of about two seconds
  with the server's mutex held.
* `stream_stale_list`: a signal can be reported as transmitted because an
  outdated list contains it; after the next list its position is `~0U`.
* `persist_value`: the value of a persistent signal counts as available before
  one was received.
* `params_uncoupled`: a parameter-signal pair that is set while the main thread
  saves can be left in the data base with the signal's value, although the
  coupling is gone.
* `parser_flags`: an attribute without a value is stored with a null pointer, which
  `moveData()` shifts with the others; in a command that was cut behind the flag
  `isTrue()` and `getString()` then read through a pointer to no text.

Not a run of their own, but visible in the models: `EventsLogged` fails with
`MayOverrun` (as many events as the ring has slots, set between two rounds of the
main loop, vanish) and with `MayExit` (the loop leaves on the terminate pipe
without reading the ring once more); after losing the stream `rxPdo()` returns
true with the pointers of the frame it had before (`RxOutOfSync`). `FlushHandshake`:
a buffer that is full during a handshake is reported with the value of
`GNUTLS_E_AGAIN`, and `xsputn()` tries for ever. `Retrieve`: the cache returns an
entry through a pointer made of its length. `NrtSetup`: the errors about the pid are
constructed but not thrown, so that a server starts for an application that is gone
(and ends at once). `Scanned`: the daemon does not look at models behind the last one
that runs, whose servers stay (`GoneServersEnd` excepts them). `Overrunning`: a vector
that begins inside a parameter may end in the next one. `StartTLSFails`: the error of
`gnutls_init()` is ignored and the session stays in clear text after it has answered
`<tls>`. `Stuck`: with a full request ring and no application a session never leaves
`Task::subscribe()`, and the server process does not end. `TurnTo`: a session of the
buddy that finds its slot overwritten is ahead of the marks and steps back. `NewField`: the elements of a vector in a compound get
offsets computed from the size of one element.

## 6. Plan

Done: `SignalList` with its abstract specification, `PdoStream`,
`Events`, `Parameters`, `Subscriptions`, `MsrServer`,
`SessionStream`, `TlsSessionDB`, `XmlParser`, `Directory`, `ShmemLayout`,
`BuddyPhotos`, `BuddyDaemon`, and the proofs of section 4. To come, in this order:

1. `PdoMemory`, the stream at the level of addresses (wrap at `txMemEnd`, `init()`
   walking from `txMemBegin` while it is rewritten), shown to implement `PdoStream`'s
   chain, with the layout of `ShmemLayout`.
2. An atomic register with notification that `Parameters` implements; the death of
   the communications process alone.
3. A reference parser for `CommandsExact`; the tree of `Directory` without recursion, as
   a relation between nodes, to prove `VariablesFound`.

## 7. Not modelled

Formatting and parsing of values, logging, the YAML configuration, replies that only
read, `etlproto` (not built), the kernel device behind `buddy` and its event queue,
which nothing reads, and the inside of GnuTLS. Statistics and time stamps of a PDO
travel with it and are not represented separately. Copying values out of a PDO or a
photo is one step, so torn copies by a session that is lapped during the copy are not
represented. `signalListId` does not wrap around. Failures of the data base are not
modelled. A session that ends because its parser is invalid or the server stops does so
without a flush; `SessionStream` ends sessions by a bad stream or the end of the input
only, so `OutputDelivered` says nothing of those. A `SIGCHLD` for a child that is merely
stopped, for which `wait()` of the daemon would block, is not modelled. The wrap of a
block's `size` is modelled (`SizeMod`), but the sizes of the instance do not reach its
edge. `HistoryComplete` is about sessions that have sent all they know of; one that is
behind gets its history only up to its own place. Stores of an event are taken in program
order: there is no barrier between the fields and the write pointer
(`lib/Main.cpp:360`), which matters on machines that reorder stores.
